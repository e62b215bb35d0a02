-------------------------- MODULE BleConnectProofs --------------------------
(***************************************************************************)
(* A further theorem about BleLink: neither side leaves a connection behind  *)
(* that it does not know of.  Its invariant says of each side how it comes   *)
(* to the connection; it rests on that of BleLinkProofs.                     *)
(***************************************************************************)
EXTENDS BleLinkProofs

-----------------------------------------------------------------------------
(* The requests that make the connection.                                    *)

\* What the fields of those requests and of their answers are.
LEMMA JoiningFields ==
    /\ \A r \in Joining : r.group = "GAP" /\ r.event = "CONNECTED"
    /\ StartAdvertising.group = "GAP" /\ StartAdvertising.event = "ADVERTISING_STATE_CHANGED"
    /\ SearchForDevice.event = "DEVICE_SCANNED" /\ SearchForDevice.opcode = "none"
    /\ WaitForConnectionEvent.opcode = "none" /\ None = "none"
    /\ Connect.opcode = "CONNECT" /\ StartAdvertising.opcode = "START_ADVERTISING"
    /\ Advertised = Event(StartAdvertising.group, StartAdvertising.event)
    /\ Advertised.group = "GAP" /\ Advertised.opcode = "ADVERTISING_STATE_CHANGED" /\ Advertised.ok
    /\ Connected.group = "GAP" /\ Connected.opcode = "CONNECTED" /\ Connected.ok
    /\ DeviceScanned.opcode = "DEVICE_SCANNED" /\ DeviceScanned.ok
    /\ Failed(DeviceScanned).opcode = "DEVICE_SCANNED" /\ ~Failed(DeviceScanned).ok
  BY DEF Joining, Connect, WaitForConnectionEvent, StartAdvertising, SearchForDevice, Advertised,
         Connected, DeviceScanned, Failed, Event, Procedure, Await, None

\* What the link carries is none of them.
LEMMA LinkFields ==
    /\ \A r \in OverTheLink : r.event \notin {"CONNECTED", "DEVICE_SCANNED",
                                              "ADVERTISING_STATE_CHANGED"}
    /\ {Disconnect, ConnectLePsm, ReadCharacteristic, SendLeCbData} \subseteq OverTheLink
  BY DEF OverTheLink, Inquiries, Disconnect, ConnectLePsm, WriteCharacteristic, SendLeCbData,
         SendAttributeWrittenStatus, EnableUpdate, DiscoverServices, DiscoverCharacteristics,
         ReadCharacteristic, Procedure, Command, None

\* So they are apart.
LEMMA JoiningApart ==
    /\ \A r \in Joining : r \notin OverTheLink /\ r # StartAdvertising /\ r # SearchForDevice
    /\ StartAdvertising \notin OverTheLink /\ StartAdvertising # SearchForDevice
    /\ Connect # WaitForConnectionEvent /\ Connect # SearchForDevice
    /\ Connect \in Joining /\ WaitForConnectionEvent \in Joining
  <1>1. Connect \in Joining /\ WaitForConnectionEvent \in Joining
    BY DEF Joining
  <1> QED
    BY <1>1, JoiningFields, LinkFields

\* CONNECTED and DEVICE_SCANNED end no other request.
LEMMA EventKinds ==
    ASSUME NEW r \in Requests
    PROVE  /\ r.event = "CONNECTED" => r \in Joining
           /\ r.event = "DEVICE_SCANNED" => r = SearchForDevice
  <1>1. CASE r \in SetupRequests
    BY <1>1 DEF SetupRequests, Joining, Procedure, Command, Await, None, ReleaseDatabase,
           InitializeDatabase, AddPrimaryService, AddCharacteristic, FindValueHandle,
           RegisterServerCallback, RegisterWriteNotifications, SendAttributeWrittenStatus,
           RegisterNotificationCallback, RegisterProcedureCallback, DiscoverServices,
           DiscoverCharacteristics, ReadCharacteristic, WriteCharacteristic,
           ReadPublicAddress, SetAdvertisingParameters, SetAdvertisingData, SetTxPowerLevel,
           StartAdvertising, StartScanning, StopScanning, SearchForDevice,
           WaitForConnectionEvent, EnableUpdate, RegisterLeCb, RegisterLePsm,
           WaitForL2capRequest
  <1>2. CASE r = Connect
    BY <1>2, Fields DEF Joining
  <1>3. CASE r \in Special
    BY <1>3, Fields DEF Special
  <1> QED
    BY <1>1, <1>2, <1>3, RequestKinds

-----------------------------------------------------------------------------
(* Positions of the messages that lead to the connection.                    *)

\* What comes first arrives only where it is waited for.
LEMMA ArrivesFirst ==
    ASSUME NEW u, NEW m, NEW v, Popped(u, m, v), NEW r, NEW w \in {"no", "confirm", "event"},
           Arrives(u, r, w, 1)
    PROVE  r \in Joining /\ w = "event"
  <1>1. \A c \in DOMAIN u : ~(c < 1)
    BY DEF Popped
  <1> QED
    BY <1>1 DEF Arrives

\* A message that the host is not waiting for changes nothing.
LEMMA ArrivesTail ==
    ASSUME NEW u, NEW m, NEW v, Popped(u, m, v), NEW r, NEW w \in {"no", "confirm", "event"},
           NEW p \in Nat, Arrives(u, r, w, p), w = "confirm" => ~Own(u, r, 1),
           w = "event" /\ r = StartAdvertising => m # Advertised
    PROVE  Arrives(v, r, w, p - 1)
  <1>1. /\ \A i \in DOMAIN u : i \in Nat /\ (i # 1 => i - 1 \in DOMAIN v /\ v[i - 1] = u[i])
        /\ m = u[1]
    BY DEF Popped
  <1>2. CASE r \in Joining /\ (w = "confirm" => \E c \in DOMAIN u : c < p /\ Own(u, r, c))
    <2>1. ASSUME w = "confirm" PROVE \E c \in DOMAIN v : c < p - 1 /\ Own(v, r, c)
      <3>1. PICK c \in DOMAIN u : c < p /\ Own(u, r, c)
        BY <1>2, <2>1
      <3>2. c # 1 /\ c \in Nat
        BY <1>1, <2>1, <3>1
      <3>3. c - 1 \in DOMAIN v /\ v[c - 1] = u[c] /\ c - 1 < p - 1
        BY <1>1, <3>1, <3>2
      <3> QED
        BY <3>1, <3>3 DEF Own
    <2> QED
      BY <1>2, <2>1 DEF Arrives
  <1>3. CASE /\ r = StartAdvertising
             /\ \E a \in DOMAIN u :
                   /\ a < p /\ u[a] = Advertised
                   /\ w = "confirm" => \E c \in DOMAIN u : c < a /\ Own(u, r, c)
    <2>1. PICK a \in DOMAIN u :
                   /\ a < p /\ u[a] = Advertised
                   /\ w = "confirm" => \E c \in DOMAIN u : c < a /\ Own(u, r, c)
      BY <1>3
    <2>2. w \in {"confirm", "event"}
      BY DEF Arrives
    <2>3. ASSUME w = "confirm"
          PROVE  a # 1 /\ \E c \in DOMAIN v : c < a - 1 /\ Own(v, r, c)
      <3>1. PICK c \in DOMAIN u : c < a /\ Own(u, r, c)
        BY <2>1, <2>3
      <3>2. c # 1 /\ c \in Nat /\ a \in Nat
        BY <1>1, <2>3, <3>1
      <3>3. c - 1 \in DOMAIN v /\ v[c - 1] = u[c] /\ c - 1 < a - 1 /\ c \in 1 .. Len(u)
        BY <1>1, <3>1, <3>2 DEF Popped
      <3>4. a # 1
        BY <3>1, <3>3, <3>2
      <3> QED
        BY <3>1, <3>3, <3>4 DEF Own
    <2>4. a # 1 /\ a \in Nat
      BY <1>1, <1>3, <2>1, <2>2, <2>3
    <2>5. a - 1 \in DOMAIN v /\ v[a - 1] = Advertised /\ a - 1 < p - 1
      BY <1>1, <2>1, <2>4
    <2> QED
      BY <1>3, <2>2, <2>3, <2>5 DEF Arrives
  <1> QED
    BY <1>2, <1>3 DEF Arrives

\* Once its CONFIRM is there the host waits for the event.
LEMMA ArrivesConfirmed ==
    ASSUME NEW u, NEW m, NEW v, Popped(u, m, v), NEW r, NEW p \in Nat,
           Arrives(u, r, "confirm", p)
    PROVE  Arrives(v, r, "event", p - 1)
  <1>1. \A i \in DOMAIN u : i \in Nat /\ i >= 1 /\ (i # 1 => i - 1 \in DOMAIN v /\ v[i - 1] = u[i])
    BY DEF Popped
  <1>2. CASE r \in Joining
    BY <1>2 DEF Arrives
  <1>3. CASE r \notin Joining
    <2>1. PICK a \in DOMAIN u : /\ a < p /\ u[a] = Advertised /\ r = StartAdvertising
                                /\ \E c \in DOMAIN u : c < a /\ Own(u, r, c)
      BY <1>3 DEF Arrives
    <2>2. a # 1 /\ a \in Nat
      BY <1>1, <2>1
    <2>3. a - 1 \in DOMAIN v /\ v[a - 1] = Advertised /\ a - 1 < p - 1
      BY <1>1, <2>1, <2>2
    <2> QED
      BY <2>1, <2>3 DEF Arrives
  <1> QED
    BY <1>2, <1>3

\* Messages behind it make no difference.
LEMMA ArrivesMore ==
    ASSUME NEW u, NEW x, NEW v, Joined(u, x, v), NEW r, NEW w, NEW p \in Nat, NEW q \in Nat,
           p <= q, Arrives(u, r, w, p)
    PROVE  Arrives(v, r, w, q)
  <1>1. \A i \in DOMAIN u : i \in DOMAIN v /\ v[i] = u[i] /\ i \in Nat
    BY DEF Joined
  <1>2. \A c \in DOMAIN u : (Own(u, r, c) => Own(v, r, c)) /\ (c < p => c < q)
    BY <1>1 DEF Own
  <1>3. \A a \in DOMAIN u :
           (\E c \in DOMAIN u : c < a /\ Own(u, r, c)) => \E c \in DOMAIN v : c < a /\ Own(v, r, c)
    BY <1>1, <1>2
  <1>4. w # "no"
    BY DEF Arrives
  <1>5. CASE r \in Joining /\ (w = "confirm" => \E c \in DOMAIN u : c < p /\ Own(u, r, c))
    BY <1>1, <1>2, <1>4, <1>5 DEF Arrives
  <1>6. CASE /\ r = StartAdvertising
             /\ \E a \in DOMAIN u :
                   /\ a < p /\ u[a] = Advertised
                   /\ w = "confirm" => \E c \in DOMAIN u : c < a /\ Own(u, r, c)
    <2>1. PICK a \in DOMAIN u :
                   /\ a < p /\ u[a] = Advertised
                   /\ w = "confirm" => \E c \in DOMAIN u : c < a /\ Own(u, r, c)
      BY <1>6
    <2>2. /\ a \in DOMAIN v /\ a < q /\ v[a] = Advertised
          /\ w = "confirm" => \E c \in DOMAIN v : c < a /\ Own(v, r, c)
      BY <1>1, <1>2, <1>3, <2>1
    <2> QED
      BY <1>4, <1>6, <2>2 DEF Arrives
  <1> QED
    BY <1>5, <1>6 DEF Arrives

-----------------------------------------------------------------------------
(* A host that knows whether it is connected.                                *)

\* The invariant of one side is about its own variables and the boards'.
LEMMA UntouchedConn ==
    ASSUME NEW t \in Side, ConnectInv(t), Untouched(t), board' = board
    PROVE  ConnectInv(t)'
  <1>1. (Arrived(t)' <=> Arrived(t)) /\ (Up' <=> Up) /\ (Sees(t)' <=> Sees(t))
        /\ (Whole(t)' <=> Whole(t))
    BY DEF Untouched, Arrived, Up, Sees, Whole
  <1>2. Approaching(t)' <=> Approaching(t)
    BY DEF Untouched, Approaching
  <1>3. \A p : ArrivesAt(t, p)' <=> ArrivesAt(t, p)
    BY DEF Untouched, ArrivesAt, Request
  <1>4. ArrivesAt(t, Len(uart[t]) + 1)' <=> ArrivesAt(t, Len(uart[t]) + 1)
    BY DEF Untouched, ArrivesAt, Request
  <1>5. UnlinkedOK(t)'
    BY <1>1, <1>4 DEF ConnectInv, UnlinkedOK, Untouched
  <1>6. LinkedOK(t)'
    BY <1>1, <1>3 DEF ConnectInv, LinkedOK, Untouched
  <1> QED
    BY <1>1, <1>2, <1>5, <1>6 DEF ConnectInv

\* When the link is down there is nothing left to know.
LEMMA DownConn ==
    ASSUME NEW t \in Side, board'.link = "down"
    PROVE  ConnectInv(t)'
  BY DEF ConnectInv, UnlinkedOK, LinkedOK, Up

\* Every request that was on its way still is.
Kept(s) == \A i \in DOMAIN serial[s] : \E j \in DOMAIN serial'[s] : serial'[s][j] = serial[s][i]

\* A side that has asked for the end of the connection asks for it still, and one
\* that begins to leave it asks for its end.
Asks(s) == \E i \in DOMAIN serial[s] : serial[s][i] = Disconnect
Leaving(s) == call[s] \in {"disconnect", "closed", "broken"}
Parts(s) == Kept(s) /\ (Leaving(s)' => Leaving(s) \/ Asks(s)')

\* A step that appends a request, or none.
LEMMA GrowsKept ==
    ASSUME TypeOK, NEW s \in Side,
           serial'[s] = serial[s] \/ \E r \in Requests : serial'[s] = Append(serial[s], r)
    PROVE  Kept(s)
  <1>1. serial[s] \in Seq(Requests)
    BY DEF TypeOK
  <1>2. CASE serial'[s] = serial[s]
    BY <1>2 DEF Kept
  <1>3. ASSUME NEW r \in Requests, serial'[s] = Append(serial[s], r) PROVE Kept(s)
    <2>1. /\ \A i \in DOMAIN serial[s] : serial'[s][i] = serial[s][i]
          /\ DOMAIN serial[s] = 1 .. Len(serial[s]) /\ Len(serial[s]) \in Nat
          /\ DOMAIN serial'[s] = 1 .. Len(serial[s]) + 1
      BY <1>1, <1>3, AppendAt
    <2>2. \A i \in DOMAIN serial[s] : i \in DOMAIN serial'[s]
      BY <2>1
    <2> QED
      BY <2>1, <2>2 DEF Kept
  <1> QED
    BY <1>2, <1>3

\* A request that is written is on its way.
LEMMA AsksNow ==
    ASSUME TypeOK, NEW s \in Side, serial'[s] = Append(serial[s], Disconnect)
    PROVE  Asks(s)'
  <1>1. serial[s] \in Seq(Requests) /\ Disconnect \in Requests
    BY RequestKinds DEF TypeOK, Special
  <1>2. /\ serial'[s][Len(serial[s]) + 1] = Disconnect /\ Len(serial[s]) \in Nat
        /\ DOMAIN serial'[s] = 1 .. Len(serial[s]) + 1
    BY <1>1, AppendAt
  <1>3. Len(serial[s]) + 1 \in DOMAIN serial'[s]
    BY <1>2
  <1> QED
    BY <1>2, <1>3 DEF Asks

\* A call that goes on, or begins, with t.
LEMMA TurnsParts ==
    ASSUME TypeOK, NEW s \in Side, NEW c, NEW t, Turns(s, c, t),
           t = << >> \/ Head(t) \in Requests,
           c \in {"disconnect", "closed", "broken"} => Leaving(s) \/ (t # << >> /\ Head(t) = Disconnect)
    PROVE  Parts(s)
  <1>1. Kept(s)
    BY GrowsKept DEF Turns
  <1>2. ASSUME t # << >>, Head(t) = Disconnect PROVE Asks(s)'
    <2>1. Disconnect.opcode # None
      BY Fields DEF Special
    <2>2. serial'[s] = Append(serial[s], Disconnect)
      BY <1>2, <2>1 DEF Turns
    <2> QED
      BY <2>2, AsksNow
  <1> QED
    BY <1>1, <1>2 DEF Parts, Leaving, Turns

\* A request that is done.
LEMMA DoneParts ==
    ASSUME TypeOK, NEW s \in Side, SideInv(s), waiting[s] # "no", RequestDone(s)
    PROVE  Parts(s)
  <1>1. CASE Turns(s, "disconnect", <<Disconnect, DeregisterLePsm>>)
    <2>1. Head(<<Disconnect, DeregisterLePsm>>) = Disconnect /\ <<Disconnect, DeregisterLePsm>> # << >>
      OBVIOUS
    <2>2. Disconnect \in Requests
      BY RequestKinds DEF Special
    <2> QED
      BY <1>1, <2>1, <2>2, TurnsParts
  <1>2. CASE Turns(s, IF call[s] = "disconnect" THEN "closed" ELSE "idle", << >>)
    BY <1>2, TurnsParts DEF Leaving
  <1>3. CASE Len(task[s]) # 1 /\ Turns(s, call[s], Tail(task[s]))
    <2> DEFINE t == Tail(task[s])
    <2>1. task[s] \in Seq(Requests) /\ task[s] # << >> /\ Popped(task[s], Request(s), t)
      BY TaskOf
    <2>2. t \in Seq(Requests) /\ Turns(s, call[s], t) /\ Len(task[s]) # 1
      BY <1>3, <2>1, TailAt
    <2> HIDE DEF t
    <2>3. t # << >>
      BY <2>1, <2>2, Shorter
    <2>4. Head(t) \in Requests
      BY <2>2, <2>3, TailAt
    <2> QED
      BY <2>2, <2>4, TurnsParts DEF Leaving
  <1> QED
    BY <1>1, <1>2, <1>3, DoneRun

\* A call that fails.
LEMMA RaisedParts ==
    ASSUME TypeOK, NEW s \in Side, waiting[s] # "no", Raises(s)
    PROVE  Parts(s)
  <1>1. Head(<<DeregisterLePsm>>) = DeregisterLePsm /\ DeregisterLePsm \in Requests
    BY RequestKinds DEF Special
  <1> QED
    BY <1>1, RaisedRun, TurnsParts DEF Leaving

\* The ways a read may go: the end of the connection; the CONFIRM of the request,
\* which fails, ends it or is followed by an event; that event, which repeats the
\* request, ends it or fails; and anything else.
LEMMA ReadCases ==
    ASSUME TypeOK, NEW s \in Side, SideInv(s), Read(s), NEW m, m = Head(uart[s])
    PROVE  /\ Takes(s, m) /\ Popped(uart[s], m, uart'[s]) /\ waiting[s] # "no" /\ board' = board
           /\ Whole(s)' => Whole(s)
           /\ \/ m = Disconnected /\ Raises(s)
              \/ /\ m # Disconnected /\ (connected[s] => connected'[s])
                 /\ \/ /\ Awaited(s, m) /\ waiting[s] = "confirm" /\ ~m.ok /\ Raises(s)
                    \/ /\ Awaited(s, m) /\ waiting[s] = "confirm" /\ m.ok
                       /\ Request(s).event = None /\ RequestDone(s)
                    \/ /\ Awaited(s, m) /\ waiting[s] = "confirm" /\ m.ok
                       /\ Request(s).event # None /\ call'[s] = call[s] /\ task'[s] = task[s]
                       /\ serial'[s] = serial[s] /\ waiting'[s] = "event"
                    \/ /\ Awaited(s, m) /\ waiting[s] = "event" /\ ~m.ok
                       /\ call'[s] = call[s] /\ task'[s] = task[s] /\ serial'[s] = serial[s]
                       /\ Request(s) # ConnectLePsm => waiting'[s] = waiting[s]
                    \/ /\ Awaited(s, m) /\ waiting[s] = "event" /\ m.ok /\ RequestDone(s)
                       /\ m = Connected => connected'[s]
                    \/ Awaited(s, m) /\ Request(s) \in OverTheLink /\ Raises(s)
                    \/ ~Awaited(s, m) /\ IsData(m) /\ (Raises(s) \/ Apart(s))
                    \/ ~Awaited(s, m) /\ ~IsData(m) /\ Apart(s)
  <1>1. /\ uart[s] # << >> /\ uart' = [uart EXCEPT ![s] = Tail(@)] /\ waiting[s] # "no"
        /\ board' = board
    BY DEF Read
  <1>2. Takes(s, m) /\ Popped(uart[s], m, uart'[s])
    <2>1. uart'[s] = Tail(uart[s])
      BY <1>1 DEF TypeOK
    <2>2. Takes(s, m)
      BY <1>1, <2>1 DEF Takes
    <2> QED
      BY <2>2, Taken
  <1>3. connected \in [Side -> BOOLEAN] /\ missed \in [Side -> SUBSET {"packet", "write"}]
        /\ waiting \in [Side -> {"no", "confirm", "event"}]
    BY DEF TypeOK
  <1>4. CASE m = Disconnected /\ Drops(s)
    BY <1>1, <1>2, <1>4 DEF Drops, Whole
  <1>5. CASE m # Disconnected /\ Awaited(s, m) /\ Confirms(s, m) /\ UNCHANGED missed
    <2>1. /\ waiting[s] = "confirm" /\ connected' = connected /\ (Whole(s)' => Whole(s))
      BY <1>5 DEF Confirms, Whole
    <2>2. CASE ~m.ok
      <3>1. Raises(s)
        BY <1>5, <2>2 DEF Confirms
      <3> QED
        BY <1>1, <1>2, <1>5, <2>1, <2>2, <3>1
    <2>3. CASE m.ok /\ Request(s).event = None
      <3>1. RequestDone(s)
        BY <1>5, <2>3 DEF Confirms
      <3> QED
        BY <1>1, <1>2, <1>5, <2>1, <2>3, <3>1
    <2>4. CASE m.ok /\ Request(s).event # None
      <3>1. /\ call' = call /\ task' = task /\ serial' = serial
            /\ waiting' = [waiting EXCEPT ![s] = "event"]
        BY <1>5, <2>4 DEF Confirms
      <3>2. waiting'[s] = "event"
        BY <1>3, <3>1
      <3> QED
        BY <1>1, <1>2, <1>5, <2>1, <2>4, <3>1, <3>2
    <2> QED
      BY <2>2, <2>3, <2>4
  <1>6. CASE m # Disconnected /\ Awaited(s, m) /\ Ends(s, m) /\ UNCHANGED missed
    <2>1. waiting[s] = "event" /\ (Whole(s)' => Whole(s))
      BY <1>6 DEF Ends, Whole
    <2>2. CASE ~m.ok /\ Repeats(s)
      <3>1. Repeats(s)
        BY <2>2
      <3>2. /\ call'[s] = call[s] /\ task'[s] = task[s] /\ serial'[s] = serial[s]
            /\ connected' = connected
            /\ Request(s) # ConnectLePsm => waiting'[s] = waiting[s]
        BY <1>3, <3>1 DEF Repeats
      <3> QED
        BY <1>1, <1>2, <1>6, <2>1, <2>2, <3>2
    <2>3. CASE Obtains(s, m)
      <3>1. m.ok /\ RequestDone(s) /\ connected' = [connected EXCEPT ![s] = @ \/ m = Connected]
        BY <2>3 DEF Obtains
      <3>2. (connected[s] => connected'[s]) /\ (m = Connected => connected'[s])
        BY <1>3, <3>1
      <3> QED
        BY <1>1, <1>2, <1>6, <2>1, <3>1, <3>2
    <2>4. CASE GivesUp(s, m) /\ Raises(s) /\ connected' = connected
      <3>1. Request(s) \in OverTheLink
        BY <2>4 DEF GivesUp, OverTheLink, Inquiries
      <3> QED
        BY <1>1, <1>2, <1>6, <2>1, <2>4, <3>1
    <2> QED
      BY <1>6, <2>2, <2>3, <2>4 DEF Ends, Obtains
  <1>7. CASE m # Disconnected /\ ~Awaited(s, m) /\ Pushes(s, m) /\ connected' = connected
    <2>1. IsData(m) /\ (Raises(s) \/ Apart(s)) /\ (Whole(s)' => Whole(s))
      BY <1>7 DEF Pushes, IsData, running, Apart, Whole
    <2> QED
      BY <1>1, <1>2, <1>7, <2>1
  <1>8. CASE m # Disconnected /\ ~Awaited(s, m) /\ Discards(s, m) /\ connected' = connected
    <2>1. ~IsData(m) /\ Apart(s)
      BY <1>8 DEF Discards, IsData, running, Apart
    <2>2. Whole(s)' => Whole(s)
      <3>1. missed' = [missed EXCEPT ![s] = @ \cup {"write"}] \/ missed' = missed
        BY <1>8 DEF Discards
      <3>2. missed[s] \subseteq missed'[s]
        BY <1>3, <3>1
      <3> QED
        BY <3>2 DEF Whole
    <2> QED
      BY <1>1, <1>2, <1>8, <2>1, <2>2
  <1> QED
    <2>1. \/ m = Disconnected /\ Drops(s)
          \/ m # Disconnected /\ Awaited(s, m) /\ Confirms(s, m) /\ UNCHANGED missed
          \/ m # Disconnected /\ Awaited(s, m) /\ Ends(s, m) /\ UNCHANGED missed
          \/ m # Disconnected /\ ~Awaited(s, m) /\ Pushes(s, m) /\ connected' = connected
          \/ m # Disconnected /\ ~Awaited(s, m) /\ Discards(s, m) /\ connected' = connected
      BY DEF Read
    <2> QED
      BY <1>4, <1>5, <1>6, <1>7, <1>8, <2>1

\* What a step of the host or of its application keeps of the connection.
LEMMA HostParts ==
    ASSUME TypeOK, NEW s \in Side, SideInv(s),
           Host(s) \/ Expires(s) \/ OrphanEnds(s) \/ Application(s)
    PROVE  /\ Kept(s) /\ (connected[s] => Parts(s)) /\ board' = board
           /\ Up /\ connected[s] /\ Whole(s)' => connected'[s]
           /\ Up /\ Whole(s)' => Whole(s)
           /\ \A i \in DOMAIN uart'[s] : \E j \in DOMAIN uart[s] : uart'[s][i] = uart[s][j]
  <1>1. CASE Write(s)
    <2>1. /\ connected' = connected /\ missed' = missed /\ uart' = uart /\ call' = call
          /\ board' = board
      BY <1>1 DEF Write, histories
    <2>2. Grows(s)
      BY <1>1, HostGrows
    <2>3. Kept(s)
      BY <2>2, GrowsKept DEF Grows
    <2>4. Parts(s)
      BY <2>1, <2>3 DEF Parts, Leaving
    <2> QED
      BY <2>1, <2>4 DEF Whole, Parts
  <1>2. CASE Read(s)
    <2> DEFINE m == Head(uart[s])
    <2>1. PICK n : n = m
      OBVIOUS
    <2>2. /\ Popped(uart[s], n, uart'[s]) /\ waiting[s] # "no" /\ board' = board
          /\ Whole(s)' => Whole(s)
          /\ n = Disconnected \/ (connected[s] => connected'[s])
          /\ Raises(s) \/ RequestDone(s) \/ (call'[s] = call[s] /\ serial'[s] = serial[s])
      BY <1>2, <2>1, ReadCases DEF Apart
    <2>3. n = Disconnected => ~Up
      <3>1. 1 \in DOMAIN uart[s] /\ uart[s][1] = n
        BY <2>2 DEF Popped
      <3> QED
        BY <3>1, Reported DEF SideInv, PacketsOK, Up
    <2>4. Parts(s)
      <3>1. CASE call'[s] = call[s] /\ serial'[s] = serial[s]
        BY <3>1 DEF Parts, Leaving, Kept
      <3> QED
        BY <2>2, <3>1, RaisedParts, DoneParts
    <2>5. \A i \in DOMAIN uart'[s] : \E j \in DOMAIN uart[s] : uart'[s][i] = uart[s][j]
      BY <2>2 DEF Popped
    <2> QED
      BY <2>2, <2>3, <2>4, <2>5 DEF Parts
  <1>3. CASE Expires(s)
    <2>1. /\ connected' = connected /\ missed' = missed /\ uart' = uart /\ board' = board
          /\ waiting[s] # "no" /\ Raises(s)
      BY <1>3 DEF Expires, histories
    <2> QED
      BY <2>1, RaisedParts DEF Whole, Parts
  <1>4. CASE OrphanEnds(s)
    <2>1. /\ connected' = connected /\ call' = call /\ serial' = serial /\ board' = board
      BY <1>4 DEF OrphanEnds, hosts
    <2>2. Parts(s)
      BY <2>1 DEF Parts, Leaving, Kept
    <2>3. \/ uart' = uart /\ missed' = missed
          \/ /\ uart[s] # << >> /\ uart' = [uart EXCEPT ![s] = Tail(@)]
             /\ missed' = [missed EXCEPT ![s] = @ \cup {"packet"}]
      BY <1>4 DEF OrphanEnds
    <2>4. CASE uart' = uart /\ missed' = missed
      BY <2>1, <2>2, <2>4 DEF Whole, Parts
    <2>5. CASE /\ uart[s] # << >> /\ uart' = [uart EXCEPT ![s] = Tail(@)]
               /\ missed' = [missed EXCEPT ![s] = @ \cup {"packet"}]
      <3>1. ~Whole(s)'
        BY <2>5 DEF Whole, TypeOK
      <3>2. uart'[s] = Tail(uart[s]) /\ uart[s] \in Seq(Messages)
        BY <2>5 DEF TypeOK
      <3>3. Popped(uart[s], Head(uart[s]), uart'[s])
        BY <2>5, <3>2, TailAt
      <3>4. \A i \in DOMAIN uart'[s] : \E j \in DOMAIN uart[s] : uart'[s][i] = uart[s][j]
        BY <3>3 DEF Popped
      <3> QED
        BY <2>1, <2>2, <3>1, <3>4 DEF Parts
    <2> QED
      BY <2>3, <2>4, <2>5
  <1>5. CASE SendMessage(s)
    <2>1. /\ connected' = connected /\ missed' = missed /\ uart' = uart /\ board' = board
          /\ Starts(s, "send", <<SendLeCbData>>)
      BY <1>5 DEF SendMessage
    <2>2. /\ <<SendLeCbData>> \in Seq(Requests) \ {<< >>} /\ Head(<<SendLeCbData>>) = SendLeCbData
          /\ "send" \in Calls /\ "send" \notin Quiet /\ SendLeCbData \in Requests
      BY RequestKinds DEF Special, Calls, Quiet
    <2>3. Turns(s, "send", <<SendLeCbData>>)
      BY <2>1, <2>2, ContinuesRun DEF Starts
    <2>4. Parts(s)
      BY <2>2, <2>3, TurnsParts
    <2> QED
      BY <2>1, <2>4 DEF Whole, Parts
  <1>6. CASE GetMessage(s)
    <2>1. /\ connected' = connected /\ missed' = missed /\ uart' = uart /\ board' = board
          /\ Starts(s, "receive", <<WaitForData>>) \/ UNCHANGED running
      BY <1>6 DEF GetMessage
    <2>2. /\ <<WaitForData>> \in Seq(Requests) \ {<< >>} /\ Head(<<WaitForData>>) = WaitForData
          /\ "receive" \in Calls /\ "receive" \notin Quiet /\ WaitForData \in Requests
      BY RequestKinds DEF Special, Calls, Quiet
    <2>3. Starts(s, "receive", <<WaitForData>>) => Turns(s, "receive", <<WaitForData>>)
      BY <2>2, ContinuesRun DEF Starts
    <2>4. Parts(s)
      <3>1. CASE UNCHANGED running
        BY <3>1 DEF running, Parts, Leaving, Kept
      <3> QED
        BY <2>1, <2>2, <2>3, <3>1, TurnsParts
    <2> QED
      BY <2>1, <2>4 DEF Whole, Parts
  <1>7. CASE Disconnects(s)
    <2> DEFINE t == DisconnectTask(connected[s])
    <2>1. /\ connected' = connected /\ missed' = missed /\ uart' = uart /\ board' = board
          /\ Starts(s, "disconnect", t) /\ connected[s] \in BOOLEAN
      BY <1>7 DEF Disconnects, histories, TypeOK
    <2>2. t \in Seq(Requests) \ {<< >>} /\ "disconnect" \in Calls /\ "disconnect" \notin Quiet
      BY <2>1, DisconnectTasks DEF Calls, Quiet
    <2>3. connected[s] => t # << >> /\ Head(t) = Disconnect
      <3>1. Head(<<Disconnect, DeregisterLePsm>>) = Disconnect
        OBVIOUS
      <3>2. connected[s] => connected[s] = TRUE
        BY <2>1
      <3> QED
        BY <2>2, <3>1, <3>2, DisconnectTasks
    <2> HIDE DEF t
    <2>4. Turns(s, "disconnect", t)
      BY <2>1, <2>2, ContinuesRun DEF Starts
    <2>5. Head(t) \in Requests
      BY <2>2, TailAt
    <2>6. connected[s] => Parts(s)
      BY <2>3, <2>4, <2>5, TurnsParts
    <2>7. Kept(s)
      BY <2>4, <2>5, GrowsKept DEF Turns
    <2> QED
      BY <2>1, <2>6, <2>7 DEF Whole
  <1> QED
    BY <1>1, <1>2, <1>3, <1>4, <1>5, <1>6, <1>7 DEF Host, Application

\* After a step that keeps that, a side that knows of the connection knows still.
LEMMA SettledConn ==
    ASSUME TypeOK, NEW s \in Side, SideInv(s), ConnectInv(s), Up, ~Arrived(s),
           Host(s) \/ Expires(s) \/ OrphanEnds(s) \/ Application(s)
    PROVE  ConnectInv(s)'
  <1>1. /\ Kept(s) /\ (connected[s] => Parts(s)) /\ board' = board
        /\ connected[s] /\ Whole(s)' => connected'[s]
        /\ Whole(s)' => Whole(s)
        /\ \A i \in DOMAIN uart'[s] : \E j \in DOMAIN uart[s] : uart'[s][i] = uart[s][j]
    BY HostParts
  <1>2. ~Arrived(s)' /\ Up'
    BY <1>1 DEF Arrived, Up
  <1>3. ASSUME Whole(s)' PROVE connected'[s] /\ (Leaving(s)' => Asks(s)')
    <2>1. connected[s] /\ (Leaving(s) => Asks(s))
      BY <1>1, <1>3 DEF ConnectInv, LinkedOK, Leaving, Asks
    <2>2. Asks(s) => Asks(s)'
      BY <1>1 DEF Asks, Kept
    <2> QED
      BY <1>1, <1>3, <2>1, <2>2 DEF Parts
  <1>4. LinkedOK(s)'
    BY <1>2, <1>3 DEF LinkedOK, Arrived, Leaving, Asks
  <1>5. UnlinkedOK(s)'
    BY <1>2 DEF UnlinkedOK, Up
  <1> QED
    BY <1>2, <1>4, <1>5 DEF ConnectInv, Up

-----------------------------------------------------------------------------
(* A host on its way to the connection.                                      *)

\* There is no connection yet, or the host has not read that there is one.
Unjoined(s) == board.link = "none" \/ (Up /\ Arrived(s))

\* It is setting up, has no channel yet and nothing that the connection carries
\* to do; only what it has not given up is on its way.
LEMMA UnjoinedFacts ==
    ASSUME TypeOK, NEW s \in Side, SideInv(s), ConnectInv(s), Unjoined(s)
    PROVE  /\ Approaching(s) /\ call[s] = "setup" /\ Request(s) \notin OverTheLink
           /\ ~enabled[s] /\ ~orphan[s] /\ Whole(s)
           /\ \A i \in DOMAIN uart[s] :
                 uart[s][i].opcode \notin {"LE_CB_DATA", "DISCONNECTED"}
           /\ task[s] \in Seq(Requests) /\ task[s] # << >>
           /\ Popped(task[s], Request(s), Tail(task[s])) /\ Request(s) \in Requests
  <1>1. Approaching(s) /\ call[s] = "setup"
    BY DEF ConnectInv, Unjoined, Approaching
  <1>2. task[s] \in Seq(Requests) /\ task[s] # << >>
    BY <1>1 DEF TypeOK
  <1>3. Popped(task[s], Request(s), Tail(task[s])) /\ Request(s) \in Requests
    BY <1>2, TailAt DEF Request
  <1>4. Request(s) \notin OverTheLink
    <2>1. PICK i \in DOMAIN task[s] : /\ task[s][i] \in Joining
                                      /\ \A j \in 1 .. i - 1 : task[s][j] \notin OverTheLink
      BY <1>1 DEF Approaching
    <2>2. Request(s) = task[s][1] /\ i \in Nat /\ i >= 1
      BY <1>3 DEF Popped
    <2>3. i # 1 => 1 \in 1 .. i - 1
      BY <2>2
    <2> QED
      BY <2>1, <2>2, <2>3, JoiningApart
  <1>5. ~enabled[s] /\ ~orphan[s] /\ Whole(s)
    BY <1>1 DEF SideInv, CallsOK
  <1>6. Request(s) # ConnectLePsm
    BY <1>4, LinkFields
  <1>7. \A i \in DOMAIN uart[s] : uart[s][i].opcode # "LE_CB_DATA"
    BY <1>1, <1>6, NotYet
  <1>8. \A i \in DOMAIN uart[s] : uart[s][i].opcode # "DISCONNECTED"
    BY DEF SideInv, PacketsOK, Unjoined, Up
  <1> QED
    BY <1>1, <1>2, <1>3, <1>4, <1>5, <1>7, <1>8

\* A host that is not at the request for the connection goes on towards it.
LEMMA ApproachNext ==
    ASSUME TypeOK, NEW s \in Side, SideInv(s), ConnectInv(s), Unjoined(s),
           Request(s) \notin Joining, call'[s] = "setup", task'[s] = Tail(task[s]),
           \A i \in DOMAIN uart'[s] : \E j \in DOMAIN uart[s] : uart'[s][i] = uart[s][j]
    PROVE  /\ Approaching(s)'
           /\ Request(s) = StartAdvertising => Head(task'[s]) = WaitForConnectionEvent
           /\ task'[s] # << >>
  <1>1. /\ Approaching(s) /\ Popped(task[s], Request(s), task'[s])
        /\ task'[s] \in Seq(Requests)
    BY UnjoinedFacts, TailAt
  <1>2. PICK i \in DOMAIN task[s] : /\ task[s][i] \in Joining
                                    /\ \A j \in 1 .. i - 1 : task[s][j] \notin OverTheLink
    BY <1>1 DEF Approaching
  <1>3. /\ \A j \in DOMAIN task[s] : j \in Nat /\ j >= 1
                                     /\ (j # 1 => j - 1 \in DOMAIN task'[s] /\ task'[s][j - 1] = task[s][j])
        /\ \A j \in DOMAIN task'[s] : j \in Nat /\ j >= 1 /\ j + 1 \in DOMAIN task[s]
                                      /\ task'[s][j] = task[s][j + 1]
        /\ Request(s) = task[s][1] /\ 1 \in DOMAIN task[s] /\ DOMAIN task[s] = 1 .. Len(task[s])
        /\ Len(task[s]) \in Nat
    BY <1>1 DEF Popped
  <1>4. i # 1 /\ i \in Nat /\ i >= 1
    BY <1>2, <1>3
  <1>5. i - 1 \in DOMAIN task'[s] /\ task'[s][i - 1] \in Joining
    BY <1>2, <1>3, <1>4
  <1>6. ASSUME NEW j \in 1 .. i - 1 - 1 PROVE task'[s][j] \notin OverTheLink
    <2>1. j + 1 \in 1 .. i - 1 /\ j + 1 \in DOMAIN task[s] /\ j + 1 # 1 /\ j + 1 - 1 = j
      BY <1>2, <1>3, <1>4
    <2> QED
      BY <1>2, <1>3, <2>1
  <1>7. ASSUME NEW j \in DOMAIN task'[s], task'[s][j] = StartAdvertising
        PROVE  s = "reader" /\ j + 1 \in DOMAIN task'[s] /\ task'[s][j + 1] = WaitForConnectionEvent
    <2>1. j + 1 \in DOMAIN task[s] /\ task[s][j + 1] = StartAdvertising
      BY <1>3, <1>7
    <2>2. /\ s = "reader" /\ j + 1 + 1 \in DOMAIN task[s]
          /\ task[s][j + 1 + 1] = WaitForConnectionEvent
      BY <1>1, <2>1 DEF Approaching
    <2>3. j + 1 + 1 # 1 /\ j + 1 + 1 - 1 = j + 1
      BY <1>3
    <2> QED
      BY <1>3, <2>2, <2>3
  <1>8. ASSUME Request(s) = StartAdvertising PROVE Head(task'[s]) = WaitForConnectionEvent
    <2>1. 1 + 1 \in DOMAIN task[s] /\ task[s][1 + 1] = WaitForConnectionEvent
      BY <1>1, <1>3, <1>8 DEF Approaching
    <2>2. 1 + 1 # 1 /\ 1 + 1 - 1 = 1
      OBVIOUS
    <2>3. task'[s][1] = WaitForConnectionEvent
      BY <1>3, <2>1, <2>2
    <2> QED
      BY <1>1, <1>5, <2>3
  <1>9. \A j \in DOMAIN uart'[s] : uart'[s][j].opcode = "CONFIRM" => uart'[s][j].ok
    BY <1>1 DEF Approaching
  <1>10. task'[s] # << >>
    BY <1>5
  <1>11. Approaching(s)'
    BY <1>5, <1>6, <1>7, <1>9 DEF Approaching
  <1> QED
    BY <1>8, <1>10, <1>11

\* A host that has read something else still comes to the connection.
LEMMA StillComes ==
    ASSUME TypeOK, NEW s \in Side, SideInv(s), ConnectInv(s), Unjoined(s), board' = board,
           NEW m, Popped(uart[s], m, uart'[s]), m.opcode # "CONNECTED", Approaching(s)',
           \A p \in Nat : ArrivesAt(s, p) =>
              Arrives(uart'[s], Request(s)', waiting'[s], p - 1),
           board.link = "none" /\ s = "device" => Sees(s)'
    PROVE  ConnectInv(s)'
  <1>1. /\ \A i \in DOMAIN uart'[s] : /\ i \in Nat /\ i + 1 \in DOMAIN uart[s]
                                      /\ uart'[s][i] = uart[s][i + 1] /\ i + 1 - 1 = i
        /\ \A i \in DOMAIN uart[s] : i # 1 => i - 1 \in DOMAIN uart'[s] /\ uart'[s][i - 1] = uart[s][i]
        /\ m = uart[s][1] /\ Len(uart'[s]) + 1 = Len(uart[s]) + 1 - 1 /\ Len(uart[s]) + 1 \in Nat
    BY DEF Popped
  <1>2. (Arrived(s)' <=> Arrived(s)) /\ (Up' <=> Up)
    <2>1. Arrived(s)' => Arrived(s)
      BY <1>1 DEF Arrived
    <2>2. Arrived(s) => Arrived(s)'
      BY <1>1 DEF Arrived
    <2> QED
      BY <2>1, <2>2 DEF Up
  <1>3. UnlinkedOK(s)'
    <2> SUFFICES ASSUME board.link = "none" PROVE UnlinkedOK(s)'
      BY DEF UnlinkedOK
    <2>1. ~Arrived(s)'
      BY <1>2 DEF ConnectInv, UnlinkedOK
    <2>2. ASSUME s = "reader", board.advertising PROVE ArrivesAt(s, Len(uart[s]) + 1)'
      <3>1. ArrivesAt(s, Len(uart[s]) + 1)
        BY <2>2 DEF ConnectInv, UnlinkedOK
      <3>2. Arrives(uart'[s], Request(s)', waiting'[s], Len(uart[s]) + 1 - 1)
        BY <1>1, <3>1
      <3> QED
        BY <1>1, <3>2 DEF ArrivesAt
    <2>3. ASSUME s = "device", NEW i \in DOMAIN uart'[s], uart'[s][i].opcode = "DEVICE_SCANNED",
                 uart'[s][i].ok
          PROVE  board.advertising
      BY <1>1, <2>3 DEF ConnectInv, UnlinkedOK
    <2> QED
      BY <2>1, <2>2, <2>3 DEF UnlinkedOK
  <1>4. LinkedOK(s)'
    <2> SUFFICES ASSUME Up PROVE LinkedOK(s)'
      BY <1>2 DEF LinkedOK
    <2>1. Arrived(s)'
      BY <1>2 DEF Unjoined, Up
    <2>2. ASSUME NEW p \in DOMAIN uart'[s], uart'[s][p].opcode = "CONNECTED"
          PROVE  uart'[s][p] = Connected /\ ArrivesAt(s, p)'
      <3>1. uart[s][p + 1] = Connected /\ ArrivesAt(s, p + 1)
        BY <1>1, <2>2 DEF ConnectInv, LinkedOK
      <3>2. Arrives(uart'[s], Request(s)', waiting'[s], p + 1 - 1)
        BY <1>1, <3>1
      <3> QED
        BY <1>1, <3>1, <3>2 DEF ArrivesAt
    <2>3. ASSUME NEW p \in DOMAIN uart'[s], NEW q \in DOMAIN uart'[s],
                 uart'[s][p].opcode = "CONNECTED", uart'[s][q].opcode = "CONNECTED"
          PROVE  p = q
      <3>1. p + 1 = q + 1
        BY <1>1, <2>3 DEF ConnectInv, LinkedOK
      <3> QED
        BY <1>1, <3>1
    <2>4. call'[s] = "setup"
      BY DEF Approaching
    <2> QED
      BY <2>1, <2>2, <2>3, <2>4 DEF LinkedOK
  <1> QED
    BY <1>3, <1>4 DEF ConnectInv

\* A message that ends nothing.
LEMMA PassedConn ==
    ASSUME TypeOK, NEW s \in Side, SideInv(s), ConnectInv(s), Unjoined(s), board' = board,
           NEW m, Popped(uart[s], m, uart'[s]), Apart(s), ~(Awaited(s, m) /\ m.ok)
    PROVE  ConnectInv(s)'
  <1>1. /\ Approaching(s) /\ m = uart[s][1] /\ 1 \in DOMAIN uart[s]
        /\ waiting[s] \in {"no", "confirm", "event"}
    BY UnjoinedFacts DEF Popped, TypeOK
  <1>2. m.opcode = "CONFIRM" => m.ok
    BY <1>1 DEF Approaching
  <1>3. m.opcode # "CONNECTED"
    <2> SUFFICES ASSUME m.opcode = "CONNECTED" PROVE FALSE
      OBVIOUS
    <2>1. Up /\ m = Connected /\ ArrivesAt(s, 1)
      BY <1>1 DEF ConnectInv, UnlinkedOK, LinkedOK, Unjoined, Arrived
    <2>2. Request(s) \in Joining /\ waiting[s] = "event"
      BY <1>1, <2>1, ArrivesFirst DEF ArrivesAt
    <2> QED
      BY <2>1, <2>2, JoiningFields DEF Awaited
  <1>4. Request(s)' = Request(s) /\ waiting'[s] = waiting[s]
    BY DEF Apart, Request
  <1>5. ASSUME NEW p \in Nat, ArrivesAt(s, p)
        PROVE  Arrives(uart'[s], Request(s), waiting[s], p - 1)
    <2>1. waiting[s] = "confirm" => ~Own(uart[s], Request(s), 1)
      BY <1>1, <1>2 DEF Awaited, Own
    <2>2. waiting[s] = "event" /\ Request(s) = StartAdvertising => m # Advertised
      BY JoiningFields DEF Awaited
    <2> QED
      BY <1>1, <1>5, <2>1, <2>2, ArrivesTail DEF ArrivesAt
  <1>6. Approaching(s)'
    <2>1. \A i \in DOMAIN uart'[s] : uart'[s][i].opcode = "CONFIRM" => uart'[s][i].ok
      <3>1. \A i \in DOMAIN uart[s] : uart[s][i].opcode = "CONFIRM" => uart[s][i].ok
        BY <1>1 DEF Approaching
      <3>2. \A i \in DOMAIN uart'[s] : i + 1 \in DOMAIN uart[s] /\ uart'[s][i] = uart[s][i + 1]
        BY DEF Popped
      <3> QED
        BY <3>1, <3>2
    <2>2. call'[s] = call[s] /\ task'[s] = task[s]
      BY DEF Apart
    <2> QED
      BY <1>1, <2>1, <2>2 DEF Approaching
  <1>7. board.link = "none" /\ s = "device" => Sees(s)'
    BY DEF ConnectInv, UnlinkedOK, Sees, Apart
  <1> QED
    BY <1>3, <1>4, <1>5, <1>6, <1>7, StillComes

\* The CONFIRM of a request that an event ends.
LEMMA ConfirmedConn ==
    ASSUME TypeOK, NEW s \in Side, SideInv(s), ConnectInv(s), Unjoined(s), board' = board,
           NEW m, Popped(uart[s], m, uart'[s]), m.opcode = "CONFIRM", waiting[s] = "confirm",
           call'[s] = call[s], task'[s] = task[s], waiting'[s] = "event"
    PROVE  ConnectInv(s)'
  <1>1. Approaching(s)
    BY UnjoinedFacts
  <1>2. Request(s)' = Request(s)
    BY DEF Request
  <1>3. \A p \in Nat : ArrivesAt(s, p) => Arrives(uart'[s], Request(s), "event", p - 1)
    BY ArrivesConfirmed DEF ArrivesAt
  <1>4. Approaching(s)'
    <2>1. \A i \in DOMAIN uart'[s] : uart'[s][i].opcode = "CONFIRM" => uart'[s][i].ok
      BY <1>1 DEF Approaching, Popped
    <2> QED
      BY <1>1, <2>1 DEF Approaching
  <1>5. board.link = "none" /\ s = "device" => Sees(s)'
    BY DEF ConnectInv, UnlinkedOK, Sees
  <1> QED
    BY <1>2, <1>3, <1>4, <1>5, StillComes

\* The last message of a request that does not make the connection.
LEMMA NextConn ==
    ASSUME TypeOK, NEW s \in Side, SideInv(s), ConnectInv(s), Unjoined(s), board' = board,
           NEW m, Popped(uart[s], m, uart'[s]), m.opcode # "CONNECTED", waiting[s] # "no",
           Request(s) \notin Joining, RequestDone(s),
           Request(s) = SearchForDevice => m.opcode = "DEVICE_SCANNED" /\ m.ok
    PROVE  ConnectInv(s)'
  <1>1. /\ Approaching(s) /\ call[s] = "setup" /\ Request(s) \notin OverTheLink
        /\ task[s] \in Seq(Requests) /\ task[s] # << >>
        /\ Popped(task[s], Request(s), Tail(task[s]))
    BY UnjoinedFacts
  <1>2. ~Refuses(s)
    BY <1>1, JoiningApart, LinkFields DEF Refuses
  <1>3. Len(task[s]) # 1
    <2>1. Len(task[s]) = 1 => Request(s) = ConnectLePsm
      BY <1>1, TaskOf
    <2> QED
      BY <1>1, <2>1, LinkFields
  <1>4. Turns(s, "setup", Tail(task[s]))
    BY <1>1, <1>2, <1>3, DoneRun
  <1>5. call'[s] = "setup" /\ task'[s] = Tail(task[s])
    BY <1>4 DEF Turns
  <1>6. \A i \in DOMAIN uart'[s] : \E j \in DOMAIN uart[s] : uart'[s][i] = uart[s][j]
    BY DEF Popped
  <1>7. /\ Approaching(s)' /\ task'[s] # << >>
        /\ Request(s) = StartAdvertising => Head(task'[s]) = WaitForConnectionEvent
    BY <1>5, <1>6, ApproachNext
  <1>8. ASSUME NEW p \in Nat, ArrivesAt(s, p)
        PROVE  Arrives(uart'[s], Request(s)', waiting'[s], p - 1)
    <2>1. Request(s) = StartAdvertising
      BY <1>8 DEF ArrivesAt, Arrives
    <2>2. Request(s)' = WaitForConnectionEvent
      BY <1>7, <2>1 DEF Request
    <2>3. waiting'[s] = "event"
      BY <1>4, <1>5, <1>7, <2>1, JoiningFields DEF Turns
    <2> QED
      BY <2>2, <2>3, JoiningApart DEF Arrives
  <1>9. ASSUME board.link = "none", s = "device" PROVE Sees(s)'
    <2>1. Sees(s)
      BY <1>9 DEF ConnectInv, UnlinkedOK
    <2>2. CASE board.advertising
      BY <2>2 DEF Sees
    <2>3. CASE Request(s) = SearchForDevice
      <3>1. 1 \in DOMAIN uart[s] /\ uart[s][1] = m
        BY DEF Popped
      <3>2. board.advertising
        BY <1>9, <2>3, <3>1 DEF ConnectInv, UnlinkedOK
      <3> QED
        BY <3>2 DEF Sees
    <2>4. CASE ~board.advertising /\ Request(s) # SearchForDevice
      <3>1. PICK i \in DOMAIN task[s] : /\ task[s][i] = SearchForDevice
                                        /\ \A j \in 1 .. i - 1 : task[s][j] # Connect
        BY <2>1, <2>4 DEF Sees
      <3>2. Popped(task[s], Request(s), task'[s])
        BY <1>1, <1>5
      <3>3. /\ DOMAIN task[s] = 1 .. Len(task[s]) /\ Len(task[s]) \in Nat
            /\ DOMAIN task'[s] = 1 .. Len(task[s]) - 1
            /\ \A j \in DOMAIN task'[s] : task'[s][j] = task[s][j + 1]
        BY <3>2 DEF Popped
      <3>4. i # 1 /\ i \in Nat
        BY <2>4, <3>1, <3>2, <3>3 DEF Popped
      <3>5. i - 1 \in DOMAIN task'[s] /\ task'[s][i - 1] = SearchForDevice
        BY <3>1, <3>2, <3>4 DEF Popped
      <3>6. ASSUME NEW j \in 1 .. i - 1 - 1 PROVE task'[s][j] # Connect
        <4>1. j \in DOMAIN task'[s] /\ j + 1 \in 1 .. i - 1
          BY <3>1, <3>3, <3>4
        <4> QED
          BY <3>1, <3>3, <4>1
      <3> QED
        BY <3>5, <3>6 DEF Sees
    <2> QED
      BY <2>2, <2>3, <2>4
  <1> QED
    BY <1>7, <1>8, <1>9, StillComes

\* The host reads that it is connected.
LEMMA JoinsConn ==
    ASSUME TypeOK, NEW s \in Side, SideInv(s), ConnectInv(s), Unjoined(s), board' = board,
           NEW m, Popped(uart[s], m, uart'[s]), m.opcode = "CONNECTED", waiting[s] # "no",
           RequestDone(s), m = Connected => connected'[s]
    PROVE  ConnectInv(s)'
  <1>1. 1 \in DOMAIN uart[s] /\ m = uart[s][1]
    BY DEF Popped
  <1>2. Up /\ m = Connected
    BY <1>1 DEF ConnectInv, UnlinkedOK, LinkedOK, Unjoined, Arrived
  <1>3. ~Arrived(s)'
    <2> SUFFICES ASSUME NEW i \in DOMAIN uart'[s], uart'[s][i].opcode = "CONNECTED" PROVE FALSE
      BY DEF Arrived
    <2>1. i + 1 \in DOMAIN uart[s] /\ uart[s][i + 1].opcode = "CONNECTED" /\ i \in Nat /\ i >= 1
      BY DEF Popped
    <2>2. i + 1 = 1
      BY <1>1, <1>2, <2>1 DEF ConnectInv, LinkedOK
    <2> QED
      BY <2>1, <2>2
  <1>4. connected'[s] /\ (Leaving(s)' => Asks(s)')
    <2>1. Parts(s) /\ call[s] = "setup"
      BY DoneParts, UnjoinedFacts
    <2> QED
      BY <1>2, <2>1 DEF Parts, Leaving
  <1>5. Up' /\ board'.link # "none"
    BY <1>2 DEF Up
  <1>6. LinkedOK(s)'
    BY <1>3, <1>4 DEF LinkedOK, Arrived, Leaving, Asks
  <1> QED
    BY <1>3, <1>5, <1>6 DEF ConnectInv, UnlinkedOK

\* wait_for_message on the way to the connection.
LEMMA ReadConn ==
    ASSUME TypeOK, NEW s \in Side, SideInv(s), ConnectInv(s), Unjoined(s), Read(s)
    PROVE  ConnectInv(s)'
  <1>1. PICK m : m = Head(uart[s])
    OBVIOUS
  <1>2. /\ Popped(uart[s], m, uart'[s]) /\ waiting[s] # "no" /\ board' = board
        /\ \/ m = Disconnected /\ Raises(s)
           \/ /\ m # Disconnected /\ (connected[s] => connected'[s])
              /\ \/ /\ Awaited(s, m) /\ waiting[s] = "confirm" /\ ~m.ok /\ Raises(s)
                 \/ /\ Awaited(s, m) /\ waiting[s] = "confirm" /\ m.ok
                    /\ Request(s).event = None /\ RequestDone(s)
                 \/ /\ Awaited(s, m) /\ waiting[s] = "confirm" /\ m.ok
                    /\ Request(s).event # None /\ call'[s] = call[s] /\ task'[s] = task[s]
                    /\ serial'[s] = serial[s] /\ waiting'[s] = "event"
                 \/ /\ Awaited(s, m) /\ waiting[s] = "event" /\ ~m.ok
                    /\ call'[s] = call[s] /\ task'[s] = task[s] /\ serial'[s] = serial[s]
                    /\ Request(s) # ConnectLePsm => waiting'[s] = waiting[s]
                 \/ /\ Awaited(s, m) /\ waiting[s] = "event" /\ m.ok /\ RequestDone(s)
                    /\ m = Connected => connected'[s]
                 \/ Awaited(s, m) /\ Request(s) \in OverTheLink /\ Raises(s)
                 \/ ~Awaited(s, m) /\ IsData(m) /\ (Raises(s) \/ Apart(s))
                 \/ ~Awaited(s, m) /\ ~IsData(m) /\ Apart(s)
    BY <1>1, ReadCases
  <1>3. 1 \in DOMAIN uart[s] /\ m = uart[s][1]
    BY <1>2 DEF Popped
  <1>4. /\ Approaching(s) /\ Request(s) \notin OverTheLink /\ Request(s) \in Requests
        /\ ~IsData(m) /\ m.opcode # "DISCONNECTED"
    BY <1>3, UnjoinedFacts DEF IsData
  <1>5. m # Disconnected /\ (m.opcode = "CONFIRM" => m.ok)
    BY <1>3, <1>4, Reported DEF Approaching
  <1>6. Awaited(s, m) /\ waiting[s] = "confirm" => m.opcode = "CONFIRM"
    BY DEF Awaited
  <1>7. CASE ~Awaited(s, m) /\ Apart(s)
    BY <1>2, <1>7, PassedConn
  <1>8. CASE /\ Awaited(s, m) /\ waiting[s] = "event" /\ ~m.ok
             /\ call'[s] = call[s] /\ task'[s] = task[s] /\ serial'[s] = serial[s]
             /\ Request(s) # ConnectLePsm => waiting'[s] = waiting[s]
    <2>1. Apart(s)
      BY <1>4, <1>8, LinkFields DEF Apart
    <2> QED
      BY <1>2, <1>8, <2>1, PassedConn
  <1>9. CASE /\ Awaited(s, m) /\ waiting[s] = "confirm" /\ m.ok /\ Request(s).event # None
             /\ call'[s] = call[s] /\ task'[s] = task[s] /\ waiting'[s] = "event"
    BY <1>2, <1>6, <1>9, ConfirmedConn
  <1>10. CASE /\ Awaited(s, m) /\ waiting[s] = "confirm" /\ Request(s).event = None
              /\ RequestDone(s)
    <2>1. Request(s) \notin Joining /\ Request(s) # SearchForDevice
      BY <1>10, JoiningFields
    <2>2. m.opcode # "CONNECTED"
      BY <1>6, <1>10
    <2> QED
      BY <1>2, <1>10, <2>1, <2>2, NextConn
  <1>11. CASE /\ Awaited(s, m) /\ waiting[s] = "event" /\ m.ok /\ RequestDone(s)
              /\ m = Connected => connected'[s]
    <2>1. m.opcode = Request(s).event
      BY <1>11 DEF Awaited
    <2>2. CASE m.opcode = "CONNECTED"
      BY <1>2, <1>11, <2>2, JoinsConn
    <2>3. CASE m.opcode # "CONNECTED"
      <3>1. Request(s) \notin Joining
        BY <2>1, <2>3, JoiningFields
      <3>2. Request(s) = SearchForDevice => m.opcode = "DEVICE_SCANNED" /\ m.ok
        BY <1>11, <2>1, JoiningFields
      <3> QED
        BY <1>2, <1>11, <2>3, <3>1, <3>2, NextConn
    <2> QED
      BY <2>2, <2>3
  <1> QED
    BY <1>2, <1>4, <1>5, <1>6, <1>7, <1>8, <1>9, <1>10, <1>11

\* The first request of the set-up is written.
LEMMA WriteConn ==
    ASSUME TypeOK, NEW s \in Side, SideInv(s), ConnectInv(s), Unjoined(s), Write(s)
    PROVE  ConnectInv(s)'
  <1>1. /\ waiting[s] = "no" /\ board' = board /\ uart' = uart /\ call' = call
    BY DEF Write
  <1>2. task'[s] = task[s]
    BY DEF Write, Continues, TypeOK
  <1>3. \A p : ~ArrivesAt(s, p)
    BY <1>1 DEF ArrivesAt, Arrives
  <1>4. ~Arrived(s)
    BY <1>3 DEF ConnectInv, UnlinkedOK, LinkedOK, Unjoined, Arrived
  <1>5. board.link = "none" /\ ~(s = "reader" /\ board.advertising)
    BY <1>3, <1>4 DEF Unjoined, ConnectInv, UnlinkedOK
  <1>6. Approaching(s)'
    BY <1>1, <1>2, UnjoinedFacts DEF Approaching
  <1>7. UnlinkedOK(s)'
    <2>1. ~Arrived(s)' /\ (Sees(s) => Sees(s)')
      BY <1>1, <1>2, <1>4 DEF Arrived, Sees
    <2> QED
      BY <1>1, <1>5, <2>1 DEF ConnectInv, UnlinkedOK
  <1>8. LinkedOK(s)'
    BY <1>1, <1>5 DEF LinkedOK, Up
  <1> QED
    BY <1>6, <1>7, <1>8 DEF ConnectInv

\* Whatever a host does, and whatever its application asks for.
LEMMA HostConn ==
    ASSUME LinkInv, NEW s \in Side, ConnectInv(s), ConnectInv(Other(s)),
           Host(s) \/ Expires(s) \/ OrphanEnds(s) \/ Application(s)
    PROVE  \A t \in Side : ConnectInv(t)'
  <1>1. /\ TypeOK /\ BoardOK /\ SideInv(s) /\ SideInv(Other(s)) /\ Other(s) \in Side
        /\ \A t \in Side : t = s \/ t = Other(s)
    BY Sides DEF LinkInv
  <1>2. board' = board
    BY <1>1, HostParts
  <1>3. Untouched(Other(s))
    <2>1. CASE SendMessage(s)
      <3>1. /\ Starts(s, "send", <<SendLeCbData>>) /\ timer' = [timer EXCEPT ![s] = FALSE]
            /\ sent' = [sent EXCEPT ![s] = @ + 1]
            /\ UNCHANGED <<connected, channel, enabled, queue, orphan, uart, received, missed>>
        BY <2>1 DEF SendMessage
      <3>2. <<SendLeCbData>> \in Seq(Requests) \ {<< >>} /\ "send" \in Calls /\ "send" \notin Quiet
        BY RequestKinds DEF Special, Calls, Quiet
      <3>3. Apart(Other(s))
        BY <1>1, <3>1, <3>2, ContinuesRun DEF Starts
      <3>4. timer'[Other(s)] = timer[Other(s)] /\ sent'[Other(s)] = sent[Other(s)]
        <4>1. timer \in [Side -> BOOLEAN] /\ sent \in [Side -> Nat]
          BY <1>1 DEF TypeOK
        <4>2. Other(s) \in Side /\ Other(s) # s
          BY Sides
        <4> QED
          BY <3>1, <4>1, <4>2
      <3>5. \A t : /\ connected'[t] = connected[t] /\ queue'[t] = queue[t]
                   /\ channel'[t] = channel[t] /\ enabled'[t] = enabled[t]
                   /\ orphan'[t] = orphan[t] /\ uart'[t] = uart[t]
                   /\ received'[t] = received[t] /\ missed'[t] = missed[t]
        BY <3>1
      <3> QED
        BY <3>3, <3>4, <3>5 DEF Untouched, Apart
    <2>2. CASE ~SendMessage(s)
      <3>1. Mine(s)
        BY <1>1, <2>2, WriteInv, ReadInv, ExpireInv, OrphanInv, GetInv, DisconnectsInv
           DEF Host, Application
      <3> QED
        BY <3>1 DEF Mine
    <2> QED
      BY <2>1, <2>2
  <1>4. ASSUME NEW t \in Side, t = Other(s) PROVE ConnectInv(t)'
    BY <1>2, <1>3, <1>4, UntouchedConn
  <1>5. ConnectInv(s)'
    <2>1. CASE Up /\ ~Arrived(s)
      BY <1>1, <2>1, SettledConn
    <2>2. CASE Unjoined(s)
      <3>1. /\ call[s] = "setup" /\ ~enabled[s] /\ ~orphan[s]
        BY <1>1, <2>2, UnjoinedFacts
      <3>2. ~Expires(s) /\ ~OrphanEnds(s) /\ ~Application(s)
        BY <3>1 DEF Expires, OrphanEnds, Application, SendMessage, GetMessage, Disconnects, Usable
      <3> QED
        BY <1>1, <2>2, <3>2, ReadConn, WriteConn DEF Host
    <2>3. CASE board.link = "down"
      BY <1>2, <2>3, DownConn
    <2> QED
      <3>1. board.link \in {"none", "up", "down"}
        BY <1>1, BoardFields
      <3> QED
        BY <2>1, <2>2, <2>3, <3>1 DEF Up, Unjoined
  <1> QED
    BY <1>1, <1>4, <1>5

-----------------------------------------------------------------------------
(* Messages that come to a side.                                             *)

\* A message to t that neither makes the connection nor fails, and that comes of
\* an advertisement only where there is one.
Mild(t, advertising, m) ==
    /\ m.opcode # "CONNECTED"
    /\ m.opcode = "CONFIRM" => m.ok
    /\ t = "device" /\ m.opcode = "DEVICE_SCANNED" /\ m.ok => advertising

\* Such messages leave a side as near to the connection as it was.
LEMMA HearConn ==
    ASSUME TypeOK, Silent, NEW t \in Side, ConnectInv(t), board.link \in {"none", "up"},
           board'.link = board.link, NEW x \in Seq(Messages),
           call[t] # "closed" => Hears(t, x), call[t] = "closed" => uart'[t] = << >>,
           \A i \in DOMAIN x : Mild(t, board'.advertising, x[i]),
           Asks(t) => Asks(t)', board.advertising => board'.advertising,
           board.link = "none" /\ t = "reader" /\ board'.advertising /\ ~board.advertising =>
              Arrives(uart'[t], Request(t), waiting[t], Len(uart'[t]) + 1)
    PROVE  ConnectInv(t)'
  <1>1. /\ call'[t] = call[t] /\ task'[t] = task[t] /\ waiting'[t] = waiting[t]
        /\ connected'[t] = connected[t] /\ (Whole(t)' <=> Whole(t)) /\ Request(t)' = Request(t)
        /\ (Up' <=> Up) /\ (Leaving(t)' <=> Leaving(t))
    BY SilentFacts DEF Silent, Up, Leaving
  <1>2. Unjoined(t) => Approaching(t)
    BY DEF ConnectInv, Unjoined
  <1>3. CASE call[t] = "closed"
    <2>1. ~Unjoined(t) /\ Up /\ ~Arrived(t)'
      <3>1. ~Approaching(t) /\ uart'[t] = << >>
        BY <1>3 DEF Approaching
      <3>2. DOMAIN << >> = {}
        OBVIOUS
      <3> QED
        BY <1>2, <3>1, <3>2 DEF Unjoined, Arrived, Up
    <2>2. Whole(t)' => connected'[t] /\ (Leaving(t)' => Asks(t)')
      BY <1>1, <2>1 DEF ConnectInv, LinkedOK, Unjoined, Leaving, Asks
    <2>3. LinkedOK(t)'
      BY <2>1, <2>2 DEF LinkedOK, Arrived, Leaving, Asks
    <2> QED
      BY <1>1, <2>1, <2>3 DEF ConnectInv, UnlinkedOK, Up
  <1>4. CASE call[t] # "closed"
    <2>1. uart[t] \in Seq(Messages) /\ Joined(uart[t], x, uart'[t])
      <3>1. uart[t] \in Seq(Messages)
        BY DEF TypeOK
      <3>2. uart'[t] = uart[t] \o x
        BY <1>4 DEF Hears
      <3> QED
        BY <3>1, <3>2, JoinAt
    <2>2. /\ \A i \in DOMAIN uart[t] : i \in Nat /\ i \in DOMAIN uart'[t] /\ uart'[t][i] = uart[t][i]
          /\ \A i \in DOMAIN uart'[t] : \/ i \in DOMAIN uart[t]
                                        \/ Mild(t, board'.advertising, uart'[t][i])
          /\ Len(uart[t]) + 1 \in Nat /\ Len(uart'[t]) + 1 \in Nat
          /\ Len(uart[t]) + 1 <= Len(uart'[t]) + 1
      BY <2>1 DEF Joined
    <2>3. \A i \in DOMAIN uart'[t] : uart'[t][i].opcode = "CONNECTED" =>
              i \in DOMAIN uart[t] /\ uart[t][i] = uart'[t][i]
      BY <2>2 DEF Mild
    <2>4. Arrived(t)' <=> Arrived(t)
      BY <2>2, <2>3 DEF Arrived
    <2>5. Approaching(t) => Approaching(t)'
      <3>1. ASSUME Approaching(t), NEW i \in DOMAIN uart'[t], uart'[t][i].opcode = "CONFIRM"
            PROVE  uart'[t][i].ok
        BY <2>2, <3>1 DEF Approaching, Mild
      <3> QED
        BY <1>1, <3>1 DEF Approaching
    <2>6. \A p \in Nat : ArrivesAt(t, p) => ArrivesAt(t, p)'
      <3> SUFFICES ASSUME NEW p \in Nat, ArrivesAt(t, p) PROVE ArrivesAt(t, p)'
        OBVIOUS
      <3>1. Arrives(uart[t], Request(t), waiting[t], p) /\ p <= p
        BY DEF ArrivesAt
      <3>2. Arrives(uart'[t], Request(t), waiting[t], p)
        BY <2>1, <3>1, ArrivesMore
      <3> QED
        BY <1>1, <3>2 DEF ArrivesAt
    <2>7. UnlinkedOK(t)'
      <3> SUFFICES ASSUME board.link = "none" PROVE UnlinkedOK(t)'
        BY DEF UnlinkedOK
      <3>1. ~Arrived(t)'
        BY <2>4 DEF ConnectInv, UnlinkedOK
      <3>2. ASSUME t = "reader", board'.advertising
            PROVE  Arrives(uart'[t], Request(t), waiting[t], Len(uart'[t]) + 1)
        <4>1. CASE board.advertising
          <5>1. Arrives(uart[t], Request(t), waiting[t], Len(uart[t]) + 1)
            BY <3>2, <4>1 DEF ConnectInv, UnlinkedOK, ArrivesAt
          <5> QED
            BY <2>1, <2>2, <5>1, ArrivesMore
        <4>2. CASE ~board.advertising
          BY <3>2, <4>2
        <4> QED
          BY <4>1, <4>2
      <3>3. t = "device" => Sees(t)'
        BY <1>1 DEF ConnectInv, UnlinkedOK, Sees
      <3>4. ASSUME t = "device", NEW i \in DOMAIN uart'[t], uart'[t][i].opcode = "DEVICE_SCANNED",
                   uart'[t][i].ok
            PROVE  board'.advertising
        BY <2>2, <3>4 DEF ConnectInv, UnlinkedOK, Mild
      <3> QED
        BY <1>1, <3>1, <3>2, <3>3, <3>4 DEF UnlinkedOK, ArrivesAt
    <2>8. LinkedOK(t)'
      <3> SUFFICES ASSUME Up PROVE LinkedOK(t)'
        BY <1>1 DEF LinkedOK
      <3>1. \A p \in DOMAIN uart'[t] : uart'[t][p].opcode = "CONNECTED" =>
                uart'[t][p] = Connected /\ ArrivesAt(t, p)'
        BY <2>2, <2>3, <2>6 DEF ConnectInv, LinkedOK
      <3>2. \A p, q \in DOMAIN uart'[t] :
                uart'[t][p].opcode = "CONNECTED" /\ uart'[t][q].opcode = "CONNECTED" => p = q
        BY <2>3 DEF ConnectInv, LinkedOK
      <3>3. Whole(t)' => connected'[t] \/ Arrived(t)'
        BY <1>1, <2>4 DEF ConnectInv, LinkedOK
      <3>4. Whole(t)' /\ Leaving(t)' => Asks(t)'
        BY <1>1 DEF ConnectInv, LinkedOK, Leaving, Asks
      <3> QED
        BY <3>1, <3>2, <3>3, <3>4 DEF LinkedOK, Leaving, Asks
    <2> QED
      BY <1>1, <1>2, <2>4, <2>5, <2>7, <2>8 DEF ConnectInv, Unjoined, Up
  <1> QED
    BY <1>3, <1>4

\* What is reported besides answers.
LEMMA MildReports ==
    ASSUME NEW t, NEW b, NEW n \in Nat,
           NEW m \in {AttributeWritten, Event("L2CAP", "CONNECTION_REQUEST"), Data(n),
                      Event("GATT", "PROCEDURE_WRITE"), ConnectionComplete,
                      Failed(ConnectionComplete)}
    PROVE  <<m>> \in Seq(Messages) /\ \A i \in DOMAIN <<m>> : Mild(t, b, <<m>>[i])
  <1>1. m \in Messages
    BY Reported, DataFields DEF Plain
  <1>2. m.opcode \notin {"CONNECTED", "CONFIRM", "DEVICE_SCANNED"}
    BY DEF AttributeWritten, Event, Data, ConnectionComplete, Failed
  <1>3. <<m>> \in Seq(Messages) /\ DOMAIN <<m>> = {1} /\ <<m>>[1] = m
    BY <1>1, OneAt
  <1> QED
    BY <1>2, <1>3 DEF Mild

\* The answer to a request that neither connects nor disconnects.
LEMMA MildAnswers ==
    ASSUME NEW r \in Requests, r \notin Joining \cup {Disconnect, SearchForDevice},
           \/ r.event = None
           \/ r = ConnectLePsm
           \/ Preparing(r),
           NEW t, NEW b
    PROVE  /\ Answer(r) \in Seq(Messages) /\ \A i \in DOMAIN Answer(r) : Mild(t, b, Answer(r)[i])
           /\ <<Confirm(r)>> \in Seq(Messages)
           /\ \A i \in DOMAIN <<Confirm(r)>> : Mild(t, b, <<Confirm(r)>>[i])
  <1> DEFINE k == <<Confirm(r)>>
             y == IF r.event = None THEN << >> ELSE <<Event(r.group, r.event)>>
  <1>1. Confirm(r) \in Messages /\ Confirm(r).opcode = "CONFIRM" /\ Confirm(r).ok
    BY MessageFields
  <1>2. k \in Seq(Messages) /\ DOMAIN k = {1} /\ k[1] = Confirm(r)
    BY <1>1, OneAt
  <1>3. \A i \in DOMAIN k : Mild(t, b, k[i])
    BY <1>1, <1>2 DEF Mild
  <1>4. y \in Seq(Messages) /\ \A i \in DOMAIN y : Mild(t, b, y[i])
    <2>1. CASE r.event = None
      <3>1. y = << >> /\ DOMAIN << >> = {}
        BY <2>1
      <3> QED
        BY <3>1
    <2>2. CASE r.event # None
      <3>1. Event(r.group, r.event) \in Messages
        BY <2>2, MessageFields, Reported DEF Plain
      <3>2. /\ Event(r.group, r.event).opcode = r.event /\ Event(r.group, r.event).ok
            /\ r.event \notin {"CONNECTED", "DEVICE_SCANNED"}
        BY EventKinds DEF Event
      <3>3. y = <<Event(r.group, r.event)>>
        BY <2>2
      <3>4. y \in Seq(Messages) /\ DOMAIN y = {1} /\ y[1] = Event(r.group, r.event)
        BY <3>1, <3>3, OneAt
      <3> QED
        BY <3>2, <3>4 DEF Mild
    <2> QED
      BY <2>1, <2>2
  <1>5. Answer(r) = k \o y
    BY DEF Answer
  <1> HIDE DEF k, y
  <1>6. k \o y \in Seq(Messages) /\ Joined(k, y, k \o y)
    BY <1>2, <1>4, JoinAt
  <1> DEFINE z == k \o y
  <1>7. \A i \in DOMAIN z : \/ i \in DOMAIN k /\ z[i] = k[i]
                            \/ i - Len(k) \in DOMAIN y /\ z[i] = y[i - Len(k)]
    BY <1>6 DEF Joined
  <1>8. \A i \in DOMAIN z : Mild(t, b, z[i])
    BY <1>3, <1>4, <1>7
  <1> QED
    BY <1>2, <1>3, <1>5, <1>6, <1>8 DEF k

-----------------------------------------------------------------------------
(* The boards' steps.                                                        *)

\* A request has been carried out that was not the end of the connection.
LEMMA AsksLeft ==
    ASSUME TypeOK, NEW s \in Side, NEW r, Serves(s, r), r # Disconnect, Asks(s)
    PROVE  Asks(s)'
  <1>1. serial[s] \in Seq(Requests) /\ serial[s] # << >> /\ serial'[s] = Tail(serial[s])
    BY DEF TypeOK, Serves
  <1>2. Popped(serial[s], r, serial'[s])
    BY <1>1, TailAt DEF Serves
  <1>3. PICK i \in DOMAIN serial[s] : serial[s][i] = Disconnect
    BY DEF Asks
  <1>4. i # 1
    BY <1>2, <1>3 DEF Popped
  <1>5. i - 1 \in DOMAIN serial'[s] /\ serial'[s][i - 1] = Disconnect
    BY <1>2, <1>3, <1>4 DEF Popped
  <1> QED
    BY <1>5 DEF Asks

\* A board answers, and the other may report, what changes nothing in how near
\* the sides are to the connection.
LEMMA ServesConn ==
    ASSUME LinkInv, \A t \in Side : ConnectInv(t), NEW s \in Side, NEW r, Serves(s, r),
           r # Disconnect, board.link \in {"none", "up"}, board'.link = board.link,
           NEW own \in Seq(Messages), NEW others \in Seq(Messages), Reports(s, own, others),
           \A i \in DOMAIN own : Mild(s, board'.advertising, own[i]),
           \A i \in DOMAIN others : Mild(Other(s), board'.advertising, others[i]),
           board.advertising => board'.advertising,
           board.link = "none" /\ board'.advertising /\ ~board.advertising =>
              /\ s = "reader"
              /\ Arrives(uart'[s], Request(s), waiting[s], Len(uart'[s]) + 1)
    PROVE  \A t \in Side : ConnectInv(t)'
  <1>1. TypeOK /\ Silent
    BY DEF LinkInv, Serves, Silent, hosts, histories
  <1>2. /\ Other(s) \in Side /\ Other(s) # s /\ \A t \in Side : t = s \/ t = Other(s)
    BY Sides
  <1>3. /\ call[s] # "closed" => Hears(s, own)
        /\ call[Other(s)] # "closed" => Hears(Other(s), others)
        /\ \A t \in Side : call[t] = "closed" => uart'[t] = << >>
    BY <1>1, ReportsAt
  <1>4. ConnectInv(s)'
    <2>1. Asks(s) => Asks(s)'
      BY <1>1, AsksLeft
    <2> QED
      BY <1>1, <1>3, <2>1, HearConn
  <1>5. ASSUME NEW t \in Side, t = Other(s) PROVE ConnectInv(t)'
    <2>1. serial'[t] = serial[t]
      BY <1>1, <1>2, <1>5 DEF TypeOK, Serves
    <2>2. Asks(t) => Asks(t)'
      BY <2>1 DEF Asks
    <2>3. ~(board.link = "none" /\ t = "reader" /\ board'.advertising /\ ~board.advertising)
      BY <1>2, <1>5
    <2> QED
      BY <1>1, <1>3, <1>5, <2>2, <2>3, HearConn
  <1> QED
    BY <1>2, <1>4, <1>5

\* What the link carries.
LEMMA CarriesConn ==
    ASSUME LinkInv, \A t \in Side : ConnectInv(t), NEW s \in Side, NEW r, Serves(s, r), Up,
           r \in OverTheLink, Carries(s, r)
    PROVE  \A t \in Side : ConnectInv(t)'
  <1>1. /\ TypeOK /\ r \in Requests /\ board \in Boards /\ board.link = "up"
        /\ r \notin {Disconnect, ConnectLePsm, SendLeCbData} => Preparing(r) \/ r.event = None
    BY AskedOf DEF Up
  <1>2. sent[s] \in Nat /\ 0 \in Nat
    BY <1>1 DEF TypeOK
  <1>3. CASE r = Disconnect /\ board' = LinkDown
    <2>1. board'.link = "down"
      BY <1>1, <1>3, DownFacts
    <2> QED
      BY <2>1, DownConn
  <1>4. ASSUME r # Disconnect, board'.link = "up", board'.advertising = board.advertising,
               NEW own \in {Answer(r), <<Confirm(r)>>}, NEW others,
               others = << >> \/ \E m \in {AttributeWritten, Event("L2CAP", "CONNECTION_REQUEST"),
                      Data(sent[s]), Event("GATT", "PROCEDURE_WRITE"), ConnectionComplete} :
                         others = <<m>>,
               Reports(s, own, others)
        PROVE  \A t \in Side : ConnectInv(t)'
    <2>1. r \notin Joining \cup {Disconnect, SearchForDevice}
      BY <1>4, JoiningApart, JoiningFields, LinkFields
    <2>2. r.event = None \/ r = ConnectLePsm \/ Preparing(r)
      BY <1>1, <1>4, Fields
    <2>3. own \in Seq(Messages) /\ \A i \in DOMAIN own : Mild(s, board'.advertising, own[i])
      BY <1>1, <1>4, <2>1, <2>2, MildAnswers
    <2>4. /\ others \in Seq(Messages)
          /\ \A i \in DOMAIN others : Mild(Other(s), board'.advertising, others[i])
      <3>1. CASE others = << >>
        <4>1. << >> \in Seq(Messages) /\ DOMAIN << >> = {}
          OBVIOUS
        <4> QED
          BY <3>1, <4>1
      <3>2. CASE \E m \in {AttributeWritten, Event("L2CAP", "CONNECTION_REQUEST"),
                      Data(sent[s]), Event("GATT", "PROCEDURE_WRITE"), ConnectionComplete} :
                         others = <<m>>
        BY <1>2, <3>2, MildReports
      <3> QED
        BY <1>4, <3>1, <3>2
    <2> QED
      BY <1>1, <1>4, <2>3, <2>4, ServesConn
  <1>5. /\ r = ConnectLePsm => r # Disconnect
        /\ r = WriteCharacteristic => r # Disconnect
        /\ r = SendAttributeWrittenStatus => r # Disconnect
        /\ r = SendLeCbData => r # Disconnect
        /\ r \in Inquiries => r # Disconnect
    BY DEF Inquiries, Disconnect, ConnectLePsm, WriteCharacteristic, SendAttributeWrittenStatus,
           SendLeCbData, EnableUpdate, DiscoverServices, DiscoverCharacteristics,
           ReadCharacteristic, Procedure, Command, None
  <1>7. CASE /\ r = ConnectLePsm /\ Other(s) \in board.asking
             /\ board' = [board EXCEPT !.open = TRUE, !.asking = {}, !.lapses = 0]
             /\ Reports(s, Answer(r), <<ConnectionComplete>>)
    <2>1. board'.link = "up" /\ board'.advertising = board.advertising
      BY <1>1, <1>7 DEF Boards
    <2> QED
      BY <1>4, <1>5, <1>7, <2>1
  <1>8. CASE /\ r = ConnectLePsm /\ board' = [board EXCEPT !.asking = @ \cup {s}]
             /\ Reports(s, <<Confirm(r)>>, <<Event("L2CAP", "CONNECTION_REQUEST")>>)
    <2>1. board'.link = "up" /\ board'.advertising = board.advertising
      BY <1>1, <1>8 DEF Boards
    <2> QED
      BY <1>4, <1>5, <1>8, <2>1
  <1>9. CASE /\ r = WriteCharacteristic /\ board' = board
             /\ Reports(s, <<Confirm(r)>>, <<AttributeWritten>>)
    BY <1>1, <1>4, <1>5, <1>9
  <1>10. CASE /\ r = SendAttributeWrittenStatus /\ board' = board
              /\ Reports(s, Answer(r), <<Event("GATT", "PROCEDURE_WRITE")>>)
    BY <1>1, <1>4, <1>5, <1>10
  <1>11. CASE r = SendLeCbData /\ Reports(s, Answer(r), <<Data(sent[s])>>) /\ board' = board
    BY <1>1, <1>4, <1>5, <1>11
  <1>12. CASE r \in Inquiries /\ Reports(s, Answer(r), << >>) /\ board' = board
    BY <1>1, <1>4, <1>5, <1>12
  <1> QED
    BY <1>3, <1>7, <1>8, <1>9, <1>10, <1>11, <1>12 DEF Carries

\* A request that needs nobody else; the Reader begins to advertise.
LEMMA LocalConn ==
    ASSUME LinkInv, \A t \in Side : ConnectInv(t), NEW s \in Side, NEW r, Serves(s, r),
           r \notin OverTheLink \cup {Connect}, Local(s, r)
    PROVE  \A t \in Side : ConnectInv(t)'
  <1>1. /\ TypeOK /\ SideInv(s) /\ r \in Requests /\ r.opcode # None /\ board \in Boards
        /\ board.link \in {"none", "up", "down"} /\ serial[s] # << >> /\ r = Head(serial[s])
        /\ r \notin {Disconnect, ConnectLePsm, SendLeCbData} => Preparing(r) \/ r.event = None
    BY AskedOf, BoardFields DEF Serves
  <1>2. r \notin {Disconnect, ConnectLePsm, SendLeCbData}
    BY LinkFields
  <1>3. r \notin Joining \cup {Disconnect, SearchForDevice}
    BY <1>1, <1>2, JoiningFields DEF Joining
  <1>4. Reports(s, Answer(r), << >>) /\ << >> \in Seq(Messages) /\ DOMAIN << >> = {}
    BY DEF Local
  <1>5. /\ board'.link = board.link /\ (board.advertising => board'.advertising)
        /\ r # StartAdvertising => board'.advertising = board.advertising
    BY <1>1 DEF Local, Boards
  <1>6. /\ Answer(r) \in Seq(Messages)
        /\ \A i \in DOMAIN Answer(r) : Mild(s, board'.advertising, Answer(r)[i])
    BY <1>1, <1>2, <1>3, MildAnswers
  <1>7. CASE board.link = "down"
    BY <1>5, <1>7, DownConn
  <1>8. CASE board.link # "down"
    <2>1. ASSUME board.link = "none", board'.advertising, ~board.advertising
          PROVE  /\ s = "reader"
                 /\ Arrives(uart'[s], Request(s), waiting[s], Len(uart'[s]) + 1)
      <3>1. r = StartAdvertising
        BY <1>5, <2>1
      <3>2. Approaching(s) /\ call[s] = "setup" /\ Popped(task[s], Request(s), Tail(task[s]))
        BY <1>1, <2>1, UnjoinedFacts DEF Unjoined
      <3>3. r = Request(s) /\ waiting[s] = "confirm"
        BY <1>1, <3>2, OwnFacts
      <3>4. s = "reader"
        BY <3>1, <3>2, <3>3 DEF Approaching, Popped
      <3>5. Answer(r) = <<Confirm(r), Advertised>>
        <4>1. r.event # None /\ Event(r.group, r.event) = Advertised
          BY <3>1, JoiningFields
        <4>2. Answer(r) = <<Confirm(r)>> \o <<Advertised>>
          BY <4>1 DEF Answer
        <4> QED
          BY <4>2, JoinOnes
      <3> DEFINE x == <<Confirm(r), Advertised>>
      <3>6. /\ uart'[s] = uart[s] \o Answer(r) /\ uart[s] \in Seq(Messages)
        <4>1. call[s] # "closed"
          BY <3>2
        <4> DEFINE own == Answer(r)
                   others == << >>
        <4>2. own \in Seq(Messages) /\ others \in Seq(Messages) /\ Reports(s, own, others)
          BY <1>4, <1>6
        <4> HIDE DEF own, others
        <4>3. Hears(s, own)
          BY <1>1, <4>1, <4>2, ReportsAt
        <4> QED
          BY <1>1, <4>3 DEF Hears, TypeOK, own
      <3>7. Joined(uart[s], x, uart'[s]) /\ x \in Seq(Messages)
        BY <1>6, <3>5, <3>6, JoinAt
      <3>8. Len(x) = 2 /\ DOMAIN x = 1 .. 2 /\ x[1] = Confirm(r) /\ x[2] = Advertised
        OBVIOUS
      <3> HIDE DEF x
      <3>9. /\ Len(uart[s]) \in Nat /\ Len(uart'[s]) = Len(uart[s]) + 2
            /\ Len(uart[s]) + 1 \in DOMAIN uart'[s] /\ uart'[s][Len(uart[s]) + 1] = Confirm(r)
            /\ Len(uart[s]) + 2 \in DOMAIN uart'[s] /\ uart'[s][Len(uart[s]) + 2] = Advertised
        BY <3>7, <3>8 DEF Joined
      <3>10. Own(uart'[s], Request(s), Len(uart[s]) + 1)
        BY <1>1, <3>3, <3>9, MessageFields DEF Own
      <3>11. Len(uart[s]) + 1 < Len(uart[s]) + 2 /\ Len(uart[s]) + 2 < Len(uart'[s]) + 1
        BY <3>9
      <3> QED
        BY <3>1, <3>3, <3>4, <3>9, <3>10, <3>11 DEF Arrives
    <2>2. \A i \in DOMAIN << >> : Mild(Other(s), board'.advertising, << >>[i])
      BY <1>4
    <2> DEFINE own == Answer(r)
               others == << >>
    <2>3. own \in Seq(Messages) /\ others \in Seq(Messages) /\ Reports(s, own, others)
      BY <1>4, <1>6
    <2>4. /\ \A i \in DOMAIN own : Mild(s, board'.advertising, own[i])
          /\ \A i \in DOMAIN others : Mild(Other(s), board'.advertising, others[i])
      BY <1>6, <2>2
    <2> HIDE DEF own, others
    <2>5. board.link \in {"none", "up"} /\ r # Disconnect
      BY <1>1, <1>2, <1>8
    <2> QED
      BY <1>5, <2>1, <2>3, <2>4, <2>5, ServesConn
  <1> QED
    BY <1>7, <1>8

\* The connection comes to a side: CONNECTED is the last of messages x.
LEMMA ComesConn ==
    ASSUME TypeOK, Silent, NEW t \in Side, ConnectInv(t), board.link = "none", board'.link = "up",
           NEW x, Joined(uart[t], x, uart'[t]), Len(x) \in DOMAIN x, x[Len(x)] = Connected,
           \A i \in DOMAIN x : /\ x[i].opcode = "CONFIRM" => x[i].ok
                               /\ x[i].opcode = "CONNECTED" => i = Len(x),
           Arrives(uart'[t], Request(t), waiting[t], Len(uart'[t]))
    PROVE  ConnectInv(t)'
  <1> DEFINE n == Len(uart'[t])
  <1>1. /\ Approaching(t) /\ ~Arrived(t)
        /\ call'[t] = call[t] /\ task'[t] = task[t] /\ waiting'[t] = waiting[t]
        /\ Request(t)' = Request(t)
    BY SilentFacts DEF ConnectInv, UnlinkedOK, Silent
  <1>2. /\ n \in DOMAIN uart'[t] /\ uart'[t][n] = Connected
        /\ \A i \in DOMAIN uart'[t] :
              /\ uart'[t][i].opcode = "CONFIRM" => uart'[t][i].ok
              /\ uart'[t][i].opcode = "CONNECTED" => i = n
    <2>1. /\ n = Len(uart[t]) + Len(x) /\ Len(uart[t]) \in Nat /\ Len(x) \in Nat
          /\ DOMAIN uart'[t] = 1 .. n
          /\ Len(uart[t]) + Len(x) \in DOMAIN uart'[t]
          /\ uart'[t][Len(uart[t]) + Len(x)] = x[Len(x)]
      BY DEF Joined
    <2>2. ASSUME NEW i \in DOMAIN uart'[t]
          PROVE  /\ uart'[t][i].opcode = "CONFIRM" => uart'[t][i].ok
                 /\ uart'[t][i].opcode = "CONNECTED" => i = n
      <3>1. CASE i \in DOMAIN uart[t]
        <4>1. uart'[t][i] = uart[t][i]
          BY <3>1 DEF Joined
        <4> QED
          BY <1>1, <3>1, <4>1 DEF Approaching, Arrived
      <3>2. CASE i \notin DOMAIN uart[t]
        <4>1. i - Len(uart[t]) \in DOMAIN x /\ uart'[t][i] = x[i - Len(uart[t])]
          BY <3>2 DEF Joined
        <4>2. i \in Nat
          BY <2>1
        <4>3. i - Len(uart[t]) = Len(x) => i = n
          BY <2>1, <4>2
        <4> QED
          BY <4>1, <4>3
      <3> QED
        BY <3>1, <3>2
    <2> QED
      BY <2>1, <2>2
  <1>3. Arrives(uart'[t], Request(t)', waiting'[t], n)
    BY <1>1
  <1>7. Arrived(t)'
    BY <1>2, JoiningFields DEF Arrived
  <1>4. Approaching(t)'
    BY <1>1, <1>2 DEF Approaching
  <1>5. LinkedOK(t)'
    <2>1. \A p \in DOMAIN uart'[t] : uart'[t][p].opcode = "CONNECTED" =>
              uart'[t][p] = Connected /\ ArrivesAt(t, p)'
      BY <1>2, <1>3 DEF ArrivesAt
    <2>2. call'[t] = "setup"
      BY <1>1 DEF Approaching
    <2> QED
      BY <1>2, <1>7, <2>1, <2>2 DEF LinkedOK
  <1> QED
    BY <1>4, <1>5 DEF ConnectInv, UnlinkedOK

\* The User Device connects, to the Reader that it has seen.
LEMMA ConnectConn ==
    ASSUME LinkInv, \A t \in Side : ConnectInv(t), NEW s \in Side, Serves(s, Connect),
           Connecting(s)
    PROVE  \A t \in Side : ConnectInv(t)'
  <1>1. /\ TypeOK /\ SideInv(s) /\ s = "device" /\ board.link = "none" /\ call[s] = "setup"
        /\ waiting[s] = "confirm" /\ Request(s) = Connect /\ board \in Boards
    BY ConnectFacts, BoardFields DEF LinkInv
  <1>2. Silent /\ Other(s) = "reader" /\ Other(s) \in Side /\ \A t \in Side : t = s \/ t = Other(s)
    BY <1>1, Sides DEF Serves, Silent, hosts, histories, Other
  <1>3. board'.link = "up"
    BY <1>1 DEF Connecting, Boards
  <1> DEFINE own == <<Confirm(Connect), Connected>>
             others == <<Connected>>
  <1>4. Reports(s, own, others)
    BY DEF Connecting
  <1>5. /\ own \in Seq(Messages) /\ Len(own) = 2 /\ DOMAIN own = 1 .. 2
        /\ own[1] = Confirm(Connect) /\ own[2] = Connected
        /\ others \in Seq(Messages) /\ Len(others) = 1 /\ DOMAIN others = {1}
        /\ others[1] = Connected
    <2>1. Connected \in Messages
      BY Reported DEF Plain
    <2>2. Confirm(Connect) \in Messages
      <3>1. Connect \in Requests
        BY <1>1, OwnFacts DEF Serves
      <3> QED
        BY <3>1, MessageFields
    <2>3. own \in Seq(Messages) /\ Len(own) = 2 /\ DOMAIN own = 1 .. 2
          /\ own[1] = Confirm(Connect) /\ own[2] = Connected
      BY <2>1, <2>2
    <2> QED
      BY <2>1, <2>3, OneAt
  <1> HIDE DEF own, others
  <1>6. /\ call[s] # "closed" => Hears(s, own)
        /\ call[Other(s)] # "closed" => Hears(Other(s), others)
    BY <1>1, <1>4, <1>5, ReportsAt
  <1>7. \A t \in Side : ConnectInv(t) /\ Approaching(t) /\ ~Arrived(t)
    BY <1>1 DEF ConnectInv, UnlinkedOK
  <1>8. Confirm(Connect).ok /\ Confirm(Connect).opcode = "CONFIRM" /\ Confirm(Connect).group = Connect.group
        /\ Connected.opcode = "CONNECTED"
    BY JoiningFields DEF Confirm, Event
  <1>9. ConnectInv(s)'
    <2>1. uart[s] \in Seq(Messages) /\ uart'[s] = uart[s] \o own
      BY <1>1, <1>6 DEF Hears, TypeOK
    <2>2. Joined(uart[s], own, uart'[s])
      BY <1>5, <2>1, JoinAt
    <2>3. /\ Len(uart[s]) \in Nat /\ Len(uart'[s]) = Len(uart[s]) + 2
          /\ Len(uart[s]) + 1 \in DOMAIN uart'[s] /\ uart'[s][Len(uart[s]) + 1] = Confirm(Connect)
      BY <1>5, <2>2 DEF Joined
    <2>4. Arrives(uart'[s], Request(s), waiting[s], Len(uart'[s]))
      <3>1. Own(uart'[s], Connect, Len(uart[s]) + 1)
        BY <1>8, <2>3 DEF Own
      <3>2. Len(uart[s]) + 1 < Len(uart'[s])
        BY <2>3
      <3> QED
        BY <1>1, <2>3, <3>1, <3>2, JoiningApart DEF Arrives
    <2>5. Len(own) \in DOMAIN own /\ own[Len(own)] = Connected
      BY <1>5
    <2>6. \A i \in DOMAIN own : /\ own[i].opcode = "CONFIRM" => own[i].ok
                                /\ own[i].opcode = "CONNECTED" => i = Len(own)
      <3>1. \A i \in DOMAIN own : i = 1 \/ i = 2
        BY <1>5
      <3> QED
        BY <1>5, <1>8, <3>1
    <2> QED
      BY <1>1, <1>2, <1>3, <1>7, <2>2, <2>4, <2>5, <2>6, ComesConn
  <1>10. board.advertising
    <2>1. Sees(s)
      BY <1>1, <1>7 DEF ConnectInv, UnlinkedOK
    <2>2. ASSUME NEW i \in DOMAIN task[s], task[s][i] = SearchForDevice,
                 \A j \in 1 .. i - 1 : task[s][j] # Connect
          PROVE  FALSE
      <3>1. Popped(task[s], Request(s), Tail(task[s]))
        BY <1>1, UnjoinedFacts DEF LinkInv, Unjoined
      <3>2. i \in Nat /\ i >= 1 /\ task[s][1] = Connect
        BY <1>1, <3>1 DEF Popped
      <3>3. i # 1
        BY <2>2, <3>2, JoiningApart
      <3>4. 1 \in 1 .. i - 1
        BY <3>2, <3>3
      <3> QED
        BY <2>2, <3>2, <3>4
    <2> QED
      BY <2>1, <2>2 DEF Sees
  <1>11. ASSUME NEW t \in Side, t = Other(s) PROVE ConnectInv(t)'
    <2>1. uart[t] \in Seq(Messages)
      BY <1>1 DEF TypeOK
    <2>2. uart'[t] = uart[t] \o others
      <3>1. call[t] # "closed"
        BY <1>7 DEF Approaching
      <3> QED
        BY <1>6, <1>11, <3>1 DEF Hears
    <2>3. Joined(uart[t], others, uart'[t])
      BY <1>5, <2>1, <2>2, JoinAt
    <2>4. Len(uart[t]) + 1 \in Nat /\ Len(uart'[t]) = Len(uart[t]) + 1 /\ Len(uart'[t]) \in Nat
          /\ Len(uart[t]) + 1 <= Len(uart'[t])
      BY <1>5, <2>3 DEF Joined
    <2>5. Arrives(uart[t], Request(t), waiting[t], Len(uart[t]) + 1)
      BY <1>1, <1>2, <1>7, <1>10, <1>11 DEF ConnectInv, UnlinkedOK, ArrivesAt
    <2>6. Arrives(uart'[t], Request(t), waiting[t], Len(uart'[t]))
      BY <2>3, <2>4, <2>5, ArrivesMore
    <2>7. Len(others) \in DOMAIN others /\ others[Len(others)] = Connected
      BY <1>5
    <2>8. \A i \in DOMAIN others : /\ others[i].opcode = "CONFIRM" => others[i].ok
                                   /\ others[i].opcode = "CONNECTED" => i = Len(others)
      BY <1>5, <1>8
    <2> QED
      BY <1>1, <1>2, <1>3, <1>7, <2>3, <2>6, <2>7, <2>8, ComesConn
  <1> QED
    BY <1>2, <1>9, <1>11

\* The board of s carries out a request.
LEMMA BoardConn ==
    ASSUME LinkInv, \A t \in Side : ConnectInv(t), NEW s \in Side, Board(s)
    PROVE  \A t \in Side : ConnectInv(t)'
  <1>1. PICK r : r = Head(serial[s])
    OBVIOUS
  <1>2. Serves(s, r)
    BY <1>1 DEF Board, Serves
  <1>3. CASE r = Connect /\ Connecting(s)
    BY <1>2, <1>3, ConnectConn
  <1>4. CASE r \in OverTheLink /\ Up /\ Carries(s, r)
    BY <1>2, <1>4, CarriesConn
  <1>5. CASE r \in OverTheLink /\ ~Up /\ board' = board
    <2>1. TypeOK /\ SideInv(s) /\ serial[s] # << >> /\ board.link \in {"none", "up", "down"}
      BY <1>2, BoardFields DEF LinkInv, Serves
    <2>2. board.link # "none"
      <3> SUFFICES ASSUME board.link = "none" PROVE FALSE
        OBVIOUS
      <3>1. call[s] = "setup" /\ Request(s) \notin OverTheLink
        BY <2>1, UnjoinedFacts DEF Unjoined
      <3>2. r = Request(s)
        BY <1>1, <2>1, <3>1, OwnFacts
      <3> QED
        BY <1>5, <3>1, <3>2
    <2>3. board'.link = "down"
      BY <1>5, <2>1, <2>2 DEF Up
    <2> QED
      BY <2>3, DownConn
  <1>6. CASE r \notin OverTheLink \cup {Connect} /\ Local(s, r)
    BY <1>2, <1>6, LocalConn
  <1> QED
    BY <1>1, <1>3, <1>4, <1>5, <1>6 DEF Board

-----------------------------------------------------------------------------
(* The radio.                                                                *)

\* What is heard without having been asked for changes as little.
LEMMA UnaskedConn ==
    ASSUME LinkInv, \A t \in Side : ConnectInv(t), Unasked, NEW s \in Side,
           NEW own \in Seq(Messages), NEW others \in Seq(Messages), Reports(s, own, others),
           board' \in Boards, board.link \in {"none", "up"}, board'.link = board.link,
           board'.advertising = board.advertising,
           \A i \in DOMAIN own : Mild(s, board'.advertising, own[i]),
           \A i \in DOMAIN others : Mild(Other(s), board'.advertising, others[i])
    PROVE  \A t \in Side : ConnectInv(t)'
  <1>1. /\ TypeOK /\ Silent
        /\ \A t \in Side : serial'[t] = serial[t]
        /\ call[s] # "closed" => Hears(s, own)
        /\ call[Other(s)] # "closed" => Hears(Other(s), others)
        /\ \A t \in Side : call[t] = "closed" => uart'[t] = << >>
    BY UnaskedFacts
  <1>2. Other(s) \in Side /\ \A t \in Side : t = s \/ t = Other(s)
    BY Sides
  <1>3. \A t \in Side : Asks(t) => Asks(t)'
    BY <1>1 DEF Asks
  <1>4. ConnectInv(s)'
    BY <1>1, <1>3, HearConn
  <1>5. ASSUME NEW t \in Side, t = Other(s) PROVE ConnectInv(t)'
    BY <1>1, <1>3, <1>5, HearConn
  <1> QED
    BY <1>2, <1>4, <1>5

\* The User Device sees a Reader that advertises, or another one.
LEMMA ScansConn ==
    ASSUME LinkInv, \A t \in Side : ConnectInv(t), NEW ok \in BOOLEAN, Scans(ok)
    PROVE  \A t \in Side : ConnectInv(t)'
  <1>1. PICK m : m = IF ok THEN DeviceScanned ELSE Failed(DeviceScanned)
    OBVIOUS
  <1> DEFINE x == <<m>>
  <1>2. x \in Seq(Messages) /\ DOMAIN x = {1} /\ x[1] = m
    <2>1. m \in Messages
      BY <1>1, Reported DEF Plain
    <2> QED
      BY <2>1, OneAt
  <1>3. Reports("device", x, << >>) /\ Unasked /\ board' = board
    BY <1>1 DEF Scans, Unasked
  <1>4. \A i \in DOMAIN x : Mild("device", board'.advertising, x[i])
    <2>1. m.opcode = "DEVICE_SCANNED" /\ (m.ok => ok)
      BY <1>1, JoiningFields
    <2>2. ok => board.advertising
      BY DEF Scans
    <2> QED
      BY <1>2, <1>3, <2>1, <2>2 DEF Mild
  <1> HIDE DEF x
  <1>5. << >> \in Seq(Messages) /\ DOMAIN << >> = {} /\ "device" \in Side
    BY DEF Side
  <1>6. board \in Boards /\ board.link \in {"none", "up", "down"}
    BY BoardFields DEF LinkInv
  <1> QED
    BY <1>2, <1>3, <1>4, <1>5, <1>6, UnaskedConn, DownConn

\* A request for the channel lapses.
LEMMA LapsesConn ==
    ASSUME LinkInv, \A t \in Side : ConnectInv(t), NEW s \in Side, Lapses(s)
    PROVE  \A t \in Side : ConnectInv(t)'
  <1> DEFINE x == <<Failed(ConnectionComplete)>>
             y == << >>
  <1>1. Unasked /\ Reports(s, x, y) /\ s \in board.asking
    BY DEF Lapses, Unasked
  <1>2. /\ board' \in Boards /\ board'.link = board.link
        /\ board'.advertising = board.advertising
    <2>1. /\ board \in Boards /\ board.lapses \in 0 .. MaxLapses /\ MaxLapses \in Nat
          /\ board.asking \in SUBSET Side
      BY BoardFields, BleLinkAssumption DEF LinkInv
    <2>2. board.lapses + 1 \in 0 .. MaxLapses /\ board.asking \ {s} \in SUBSET Side
      BY <2>1 DEF Lapses
    <2> QED
      BY <2>1, <2>2 DEF Lapses, Boards
  <1>3. board.link = "up"
    BY <1>1 DEF LinkInv, BoardOK, Up
  <1>4. x \in Seq(Messages) /\ \A i \in DOMAIN x : Mild(s, board'.advertising, x[i])
    BY MildReports
  <1>5. y \in Seq(Messages) /\ DOMAIN y = {}
    OBVIOUS
  <1> HIDE DEF x, y
  <1> QED
    BY <1>1, <1>2, <1>3, <1>4, <1>5, UnaskedConn

\* Every step keeps the invariant.
LEMMA NextConnect == LinkInv /\ (\A t \in Side : ConnectInv(t)) /\ [Next]_vars =>
                         \A t \in Side : ConnectInv(t)'
  <1> SUFFICES ASSUME LinkInv, \A t \in Side : ConnectInv(t), [Next]_vars
               PROVE  \A t \in Side : ConnectInv(t)'
    OBVIOUS
  <1>1. ASSUME NEW s \in Side, Host(s) \/ Expires(s) \/ OrphanEnds(s) \/ Application(s)
        PROVE  \A t \in Side : ConnectInv(t)'
    BY <1>1, Sides, HostConn
  <1>2. ASSUME NEW s \in Side, Board(s)
        PROVE  \A t \in Side : ConnectInv(t)'
    BY <1>2, BoardConn
  <1>3. ASSUME NEW ok \in BOOLEAN, Scans(ok)
        PROVE  \A t \in Side : ConnectInv(t)'
    BY <1>3, ScansConn
  <1>4. ASSUME NEW s \in Side, Lapses(s)
        PROVE  \A t \in Side : ConnectInv(t)'
    BY <1>4, LapsesConn
  <1>5. CASE LinkLost
    <2>1. board'.link = "down"
      BY <1>5, DownFacts DEF LinkLost, LinkInv
    <2> QED
      BY <2>1, DownConn
  <1>6. CASE UNCHANGED vars
    <2>1. \A t \in Side : Untouched(t)
      BY <1>6 DEF Untouched, vars, hosts, histories
    <2>2. board' = board
      BY <1>6 DEF vars
    <2> QED
      BY <2>1, <2>2, UntouchedConn
  <1> QED
    BY <1>1, <1>2, <1>3, <1>4, <1>5, <1>6 DEF Next, Radio

-----------------------------------------------------------------------------
(* The set-up comes to the connection.                                       *)

\* A set-up t gets to the connection before it needs the link, and where it
\* advertises it waits for the connection next.
Nears(t) ==
    /\ \E i \in DOMAIN t : t[i] \in Joining /\ \A j \in 1 .. i - 1 : t[j] \notin OverTheLink
    /\ \A i \in DOMAIN t : t[i] = StartAdvertising =>
          i + 1 \in DOMAIN t /\ t[i + 1] = WaitForConnectionEvent

\* It searches for a Reader before it connects to one.
Searches(t) == \E i \in DOMAIN t : t[i] = SearchForDevice /\ \A j \in 1 .. i - 1 : t[j] # Connect

\* What comes before the advertising and the connection, and what comes after.
Early(r) == r \notin OverTheLink /\ r # StartAdvertising /\ r # Connect
MakesSetup == SetupRequests \cup {Connect, ConnectLePsm}

\* By their opcodes.
LEMMA EarlyFields ==
    /\ \A r \in OverTheLink : r.opcode \in
          {"DISCONNECT", "CONNECT_LE_PSM", "WRITE", "SEND_ATTRIBUTE_WRITTEN_STATUS",
           "SEND_LE_CB_DATA", "ENABLE_UPDATE_CONNECTION_PARAMETERS", "DISCOVER_SERVICES",
           "DISCOVER_CHARACTERISTICS", "READ"}
    /\ \A r : r.opcode \in {"RELEASE_DATABASE", "DYN_INIT", "ADD_SERVICE_REQ",
                            "ADD_CHARACTERISTIC_REQ", "FIND_HANDLE_REQ",
                            "GATTSERVER_REGISTER_CALLBACK",
                            "REGISTER_HANDLES_FOR_WRITE_NOTIFICATIONS", "READ_ADDRESS",
                            "SET_PARAMETERS", "SET_DATA", "SET_TX_POWER_LEVEL",
                            "REGISTER_LE_CB_CALLBACKS", "REGISTER_LE_PSM",
                            "START_SCANNING", "STOP_SCANNING", "none"} => Early(r)
  <1>1. \A r \in OverTheLink : r.opcode \in
          {"DISCONNECT", "CONNECT_LE_PSM", "WRITE", "SEND_ATTRIBUTE_WRITTEN_STATUS",
           "SEND_LE_CB_DATA", "ENABLE_UPDATE_CONNECTION_PARAMETERS", "DISCOVER_SERVICES",
           "DISCOVER_CHARACTERISTICS", "READ"}
    BY DEF OverTheLink, Inquiries, Disconnect, ConnectLePsm, WriteCharacteristic,
           SendAttributeWrittenStatus, SendLeCbData, EnableUpdate, DiscoverServices,
           DiscoverCharacteristics, ReadCharacteristic, Procedure, Command, None
  <1> QED
    BY <1>1, JoiningFields DEF Early

\* The elements of a sequence.
LEMMA Elements ==
    ASSUME NEW E, NEW q \in Seq(E)
    PROVE  \A i \in 1 .. Len(q) : q[i] \in E
  OBVIOUS

\* The parts of the set-ups.
LEMMA Parted ==
    /\ SetupGattDatabase \in Seq(MakesSetup) /\ Len(SetupGattDatabase) = 8
    /\ \A i \in 1 .. 8 : Early(SetupGattDatabase[i])
    /\ Advertise \in Seq(MakesSetup) /\ Len(Advertise) = 7
    /\ \A i \in 1 .. 6 : Early(Advertise[i])
    /\ Advertise[7] = StartAdvertising
    /\ Scan \in Seq(MakesSetup) /\ Len(Scan) = 2 /\ Early(Scan[1]) /\ Early(Scan[2])
    /\ FindReader \in Seq(MakesSetup) /\ Len(FindReader) = 3
    /\ FindReader[1] = SearchForDevice /\ Early(FindReader[1]) /\ Early(FindReader[2])
    /\ FindReader[3] = Connect
  <1>1. /\ \A r \in {ReleaseDatabase, InitializeDatabase, AddPrimaryService, AddCharacteristic,
                     FindValueHandle, RegisterServerCallback, RegisterWriteNotifications} :
              Early(r) /\ r \in MakesSetup
        /\ \A r \in {ReadPublicAddress, SetAdvertisingParameters, SetAdvertisingData,
                     SetTxPowerLevel, RegisterLeCb, RegisterLePsm} : Early(r) /\ r \in MakesSetup
        /\ \A r \in {[StopScanning EXCEPT !.event = None], StartScanning, StopScanning,
                     SearchForDevice} : Early(r) /\ r \in MakesSetup
        /\ {StartAdvertising, Connect} \subseteq MakesSetup
    <2> DEFINE A == {ReleaseDatabase, InitializeDatabase, AddPrimaryService, AddCharacteristic,
                     FindValueHandle, RegisterServerCallback, RegisterWriteNotifications}
               B == {ReadPublicAddress, SetAdvertisingParameters, SetAdvertisingData,
                     SetTxPowerLevel, RegisterLeCb, RegisterLePsm}
               C == {[StopScanning EXCEPT !.event = None], StartScanning, StopScanning,
                     SearchForDevice}
               D == {"RELEASE_DATABASE", "DYN_INIT", "ADD_SERVICE_REQ",
                     "ADD_CHARACTERISTIC_REQ", "FIND_HANDLE_REQ", "GATTSERVER_REGISTER_CALLBACK",
                     "REGISTER_HANDLES_FOR_WRITE_NOTIFICATIONS", "READ_ADDRESS",
                     "SET_PARAMETERS", "SET_DATA", "SET_TX_POWER_LEVEL",
                     "REGISTER_LE_CB_CALLBACKS", "REGISTER_LE_PSM",
                     "START_SCANNING", "STOP_SCANNING", "none"}
    <2>1. \A r \in A \cup B \cup C : r.opcode \in D
      BY DEF ReleaseDatabase, InitializeDatabase, AddPrimaryService, AddCharacteristic,
             FindValueHandle, RegisterServerCallback, RegisterWriteNotifications,
             ReadPublicAddress, SetAdvertisingParameters, SetAdvertisingData, SetTxPowerLevel,
             RegisterLeCb, RegisterLePsm, StartScanning, StopScanning, SearchForDevice,
             Procedure, Command, Await, None
    <2>2. /\ A \cup B \cup C \subseteq MakesSetup
          /\ {StartAdvertising, Connect} \subseteq MakesSetup
      BY DEF MakesSetup, SetupRequests
    <2>3. \A r : r.opcode \in D => Early(r)
      BY EarlyFields
    <2> HIDE DEF D
    <2>4. \A r \in A \cup B \cup C : Early(r) /\ r \in MakesSetup
      <3> HIDE DEF A, B, C
      <3> QED
        BY <2>1, <2>2, <2>3
    <2>5. (\A r \in A : Early(r) /\ r \in MakesSetup)
          /\ (\A r \in B : Early(r) /\ r \in MakesSetup)
          /\ \A r \in C : Early(r) /\ r \in MakesSetup
      <3> HIDE DEF A, B, C
      <3> QED
        BY <2>4
    <2> QED
      BY <2>2, <2>5
  <1>2. /\ SetupGattDatabase \in Seq(MakesSetup) /\ Len(SetupGattDatabase) = 8
        /\ \A i \in 1 .. 8 : Early(SetupGattDatabase[i])
    <2> DEFINE E == {ReleaseDatabase, InitializeDatabase, AddPrimaryService, AddCharacteristic,
                     FindValueHandle, RegisterServerCallback, RegisterWriteNotifications}
    <2>1. SetupGattDatabase \in Seq(E) /\ Len(SetupGattDatabase) = 8
      BY DEF SetupGattDatabase
    <2>2. \A r \in E : Early(r) /\ r \in MakesSetup
      BY <1>1
    <2> HIDE DEF E
    <2>3. SetupGattDatabase \in Seq(MakesSetup)
      <3>1. E \subseteq MakesSetup
        BY <2>2
      <3> QED
        BY <2>1, <3>1
    <2>4. \A i \in 1 .. 8 : SetupGattDatabase[i] \in E
      BY <2>1, Elements
    <2>5. \A i \in 1 .. 8 : Early(SetupGattDatabase[i])
      BY <2>2, <2>4
    <2> QED
      BY <2>1, <2>3, <2>5
  <1>3. /\ Advertise \in Seq(MakesSetup) /\ Len(Advertise) = 7
        /\ \A i \in 1 .. 6 : Early(Advertise[i])
        /\ Advertise[7] = StartAdvertising
    <2>1. Advertise \in Seq(MakesSetup) /\ Len(Advertise) = 7
      BY <1>1 DEF Advertise
    <2>2. /\ Advertise[1] = ReadPublicAddress /\ Advertise[2] = SetAdvertisingParameters
          /\ Advertise[3] = SetAdvertisingData /\ Advertise[4] = SetTxPowerLevel
          /\ Advertise[5] = RegisterLeCb /\ Advertise[6] = RegisterLePsm
          /\ Advertise[7] = StartAdvertising
      BY DEF Advertise
    <2>3. \A i \in 1 .. 6 : i = 1 \/ i = 2 \/ i = 3 \/ i = 4 \/ i = 5 \/ i = 6
      OBVIOUS
    <2>4. \A i \in 1 .. 6 : Early(Advertise[i])
      BY <1>1, <2>2, <2>3
    <2> QED
      BY <2>1, <2>2, <2>4
  <1>4. Scan \in Seq(MakesSetup) /\ Len(Scan) = 2 /\ Early(Scan[1]) /\ Early(Scan[2])
    BY <1>1 DEF Scan
  <1>5. /\ FindReader \in Seq(MakesSetup) /\ Len(FindReader) = 3
        /\ FindReader[1] = SearchForDevice /\ Early(FindReader[1]) /\ Early(FindReader[2])
        /\ FindReader[3] = Connect
    BY <1>1 DEF FindReader
  <1> QED
    BY <1>2, <1>3, <1>4, <1>5

\* What is added after it, without advertising, changes nothing.
LEMMA NearsMore ==
    ASSUME NEW a, NEW b, NEW w, Joined(a, b, w), \A i \in DOMAIN b : b[i] # StartAdvertising
    PROVE  (Nears(a) => Nears(w)) /\ (Searches(a) => Searches(w))
  <1>1. /\ \A i \in DOMAIN a : i \in DOMAIN w /\ w[i] = a[i] /\ \A j \in 1 .. i - 1 : j \in DOMAIN a
        /\ \A i \in DOMAIN w : i \in DOMAIN a \/ w[i] # StartAdvertising
    BY DEF Joined
  <1>2. ASSUME Nears(a) PROVE Nears(w)
    <2>1. PICK i \in DOMAIN a : a[i] \in Joining /\ \A j \in 1 .. i - 1 : a[j] \notin OverTheLink
      BY <1>2 DEF Nears
    <2>2. i \in DOMAIN w /\ w[i] \in Joining /\ \A j \in 1 .. i - 1 : w[j] \notin OverTheLink
      BY <1>1, <2>1
    <2>3. \A k \in DOMAIN w : w[k] = StartAdvertising =>
              k + 1 \in DOMAIN w /\ w[k + 1] = WaitForConnectionEvent
      BY <1>1, <1>2 DEF Nears
    <2> QED
      BY <2>2, <2>3 DEF Nears
  <1>3. ASSUME Searches(a) PROVE Searches(w)
    <2>1. PICK i \in DOMAIN a : a[i] = SearchForDevice /\ \A j \in 1 .. i - 1 : a[j] # Connect
      BY <1>3 DEF Searches
    <2>2. i \in DOMAIN w /\ w[i] = SearchForDevice /\ \A j \in 1 .. i - 1 : w[j] # Connect
      BY <1>1, <2>1
    <2> QED
      BY <2>2 DEF Searches
  <1> QED
    BY <1>2, <1>3

\* Both set-ups do that.
LEMMA SetupsNear ==
    /\ Nears(ReaderSetup) /\ Nears(DeviceSetup) /\ Searches(DeviceSetup)
    /\ \A i \in DOMAIN DeviceSetup : DeviceSetup[i] # StartAdvertising
  <1> DEFINE S == MakesSetup
             W == <<WaitForConnectionEvent, EnableUpdate>>
             U == <<EnableUpdate>>
  <1>1. /\ SetupGattDatabase \in Seq(S) /\ Len(SetupGattDatabase) = 8
        /\ \A i \in 1 .. 8 : Early(SetupGattDatabase[i])
        /\ Advertise \in Seq(S) /\ Len(Advertise) = 7
        /\ \A i \in 1 .. 6 : Early(Advertise[i])
        /\ Advertise[7] = StartAdvertising
        /\ Scan \in Seq(S) /\ Len(Scan) = 2 /\ Early(Scan[1]) /\ Early(Scan[2])
        /\ FindReader \in Seq(S) /\ Len(FindReader) = 3
        /\ FindReader[1] = SearchForDevice /\ Early(FindReader[1]) /\ Early(FindReader[2])
        /\ FindReader[3] = Connect
    BY Parted
  <1>2. /\ W \in Seq(S) /\ Len(W) = 2 /\ W[1] = WaitForConnectionEvent /\ W[2] = EnableUpdate
        /\ U \in Seq(S) /\ Len(U) = 1 /\ U[1] = EnableUpdate
        /\ WaitForWrite \in Seq(S) /\ OpenChannelAsReader \in Seq(S)
        /\ HandleGattLayer \in Seq(S) /\ OpenChannelAsUser \in Seq(S)
    <2>1. {WaitForConnectionEvent, EnableUpdate, Await("GATT", "ATTRIBUTE_WRITTEN"),
           SendAttributeWrittenStatus, WaitForL2capRequest, ConnectLePsm, RegisterLeCb,
           RegisterLePsm, RegisterNotificationCallback, RegisterProcedureCallback,
           DiscoverServices, DiscoverCharacteristics, ReadCharacteristic,
           WriteCharacteristic} \subseteq S
      BY DEF MakesSetup, SetupRequests
    <2> HIDE DEF S
    <2> QED
      BY <2>1 DEF WaitForWrite, OpenChannelAsReader, HandleGattLayer, OpenChannelAsUser
  <1>3. /\ WaitForConnectionEvent # StartAdvertising /\ EnableUpdate # StartAdvertising
        /\ \A i \in DOMAIN WaitForWrite : WaitForWrite[i] # StartAdvertising
        /\ \A i \in DOMAIN OpenChannelAsReader : OpenChannelAsReader[i] # StartAdvertising
        /\ \A i \in DOMAIN HandleGattLayer : HandleGattLayer[i] # StartAdvertising
        /\ \A i \in DOMAIN OpenChannelAsUser : OpenChannelAsUser[i] # StartAdvertising
    <2> DEFINE X == {WaitForConnectionEvent, EnableUpdate, Await("GATT", "ATTRIBUTE_WRITTEN"),
           SendAttributeWrittenStatus, WaitForL2capRequest, ConnectLePsm, RegisterLeCb,
           RegisterLePsm, RegisterNotificationCallback, RegisterProcedureCallback,
           DiscoverServices, DiscoverCharacteristics, ReadCharacteristic,
           WriteCharacteristic}
    <2>1. \A r \in X : r # StartAdvertising
      <3>1. \A r \in X : r.opcode # "START_ADVERTISING"
        BY DEF WaitForConnectionEvent, EnableUpdate, SendAttributeWrittenStatus,
               WaitForL2capRequest, ConnectLePsm, RegisterLeCb, RegisterLePsm,
               RegisterNotificationCallback, RegisterProcedureCallback, DiscoverServices,
               DiscoverCharacteristics, ReadCharacteristic, WriteCharacteristic, Await,
               Procedure, Command, None
      <3> HIDE DEF X
      <3> QED
        BY <3>1, JoiningFields
    <2>2. /\ WaitForWrite \in Seq(X) /\ OpenChannelAsReader \in Seq(X)
          /\ HandleGattLayer \in Seq(X) /\ OpenChannelAsUser \in Seq(X)
          /\ WaitForConnectionEvent \in X /\ EnableUpdate \in X
      BY DEF WaitForWrite, OpenChannelAsReader, HandleGattLayer, OpenChannelAsUser
    <2> HIDE DEF X
    <2> QED
      BY <2>1, <2>2
  <1>4. /\ \A i \in DOMAIN W : W[i] # StartAdvertising
        /\ \A i \in DOMAIN U : U[i] # StartAdvertising
    BY <1>3
  <1> HIDE DEF S, W, U
  <1>5. Nears(ReaderSetup)
    <2> DEFINE a == SetupGattDatabase \o Advertise
               b == a \o W
               c == b \o WaitForWrite
    <2>1. a \in Seq(S) /\ Joined(SetupGattDatabase, Advertise, a)
      BY <1>1, JoinAt
    <2>2. ReaderSetup = c \o OpenChannelAsReader
      BY DEF ReaderSetup, W
    <2> HIDE DEF a
    <2>3. b \in Seq(S) /\ Joined(a, W, b)
      BY <1>2, <2>1, JoinAt
    <2> HIDE DEF b
    <2>4. c \in Seq(S) /\ Joined(b, WaitForWrite, c)
      BY <1>2, <2>3, JoinAt
    <2> HIDE DEF c
    <2>5. Joined(c, OpenChannelAsReader, ReaderSetup)
      BY <1>2, <2>2, <2>4, JoinAt
    <2>6. /\ Len(a) = 15 /\ DOMAIN a = 1 .. 15
          /\ \A i \in 1 .. 14 : Early(a[i])
          /\ a[15] = StartAdvertising
      <3>1. /\ Len(a) = 15 /\ DOMAIN a = 1 .. 15 /\ DOMAIN SetupGattDatabase = 1 .. 8
            /\ DOMAIN Advertise = 1 .. 7
        BY <1>1, <2>1 DEF Joined
      <3>2. ASSUME NEW i \in 1 .. 14 PROVE Early(a[i])
        <4>1. CASE i \in 1 .. 8
          BY <1>1, <2>1, <3>1, <4>1 DEF Joined
        <4>2. CASE i \notin 1 .. 8
          <5>1. i - 8 \in 1 .. 6
            BY <4>2
          <5>2. i \in DOMAIN a
            BY <3>1
          <5>3. a[i] = Advertise[i - 8]
            BY <1>1, <2>1, <3>1, <4>2, <5>2 DEF Joined
          <5> QED
            BY <1>1, <5>1, <5>3
        <4> QED
          BY <4>1, <4>2
      <3>3. a[8 + 7] = Advertise[7] /\ 8 + 7 = 15
        BY <1>1, <2>1, <3>1 DEF Joined
      <3> QED
        BY <1>1, <3>1, <3>2, <3>3
    <2>7. /\ DOMAIN b = 1 .. 17 /\ \A i \in 1 .. 15 : b[i] = a[i]
          /\ b[16] = WaitForConnectionEvent /\ b[17] = EnableUpdate
      <3>1. DOMAIN b = 1 .. 17 /\ \A i \in 1 .. 15 : b[i] = a[i]
        BY <1>2, <2>3, <2>6 DEF Joined
      <3>2. b[15 + 1] = W[1] /\ b[15 + 2] = W[2] /\ 15 + 1 = 16 /\ 15 + 2 = 17
        BY <1>2, <2>3, <2>6 DEF Joined
      <3> QED
        BY <1>2, <3>1, <3>2
    <2>8. Nears(b)
      <3>1. b[16] \in Joining /\ 16 \in DOMAIN b
        BY <2>7, JoiningApart
      <3>2. \A j \in 1 .. 15 : b[j] \notin OverTheLink
        <4>1. \A j \in 1 .. 15 : j \in 1 .. 14 \/ j = 15
          OBVIOUS
        <4> QED
          BY <2>6, <2>7, <4>1, JoiningApart DEF Early
      <3>3. \A i \in 1 .. 17 : b[i] = StartAdvertising => i = 15
        <4>1. \A i \in 1 .. 17 : i \in 1 .. 14 \/ i = 15 \/ i = 16 \/ i = 17
          OBVIOUS
        <4>2. \A i \in 1 .. 14 : i \in 1 .. 15
          OBVIOUS
        <4> QED
          BY <1>3, <2>6, <2>7, <4>1, <4>2 DEF Early
      <3>4. 16 - 1 = 15 /\ 15 + 1 = 16
        OBVIOUS
      <3> QED
        BY <2>7, <3>1, <3>2, <3>3, <3>4 DEF Nears
    <2> QED
      BY <1>3, <2>4, <2>5, <2>8, NearsMore
  <1>6. /\ Nears(DeviceSetup) /\ Searches(DeviceSetup)
        /\ \A i \in DOMAIN DeviceSetup : DeviceSetup[i] # StartAdvertising
    <2> DEFINE a == Scan \o FindReader
               b == a \o U
               c == b \o HandleGattLayer
    <2>1. a \in Seq(S) /\ Len(a) = 5 /\ DOMAIN a = 1 .. 5
          /\ a[1] = Scan[1] /\ a[2] = Scan[2] /\ a[3] = FindReader[1]
          /\ a[4] = FindReader[2] /\ a[5] = FindReader[3]
      <3>1. a \in Seq(S) /\ Len(a) = 5
            /\ a[1] = Scan[1] /\ a[2] = Scan[2] /\ a[3] = FindReader[1]
            /\ a[4] = FindReader[2] /\ a[5] = FindReader[3]
        BY <1>1, TwoAndThree
      <3> HIDE DEF a
      <3>2. DOMAIN a = 1 .. 5
        BY <3>1
      <3> QED
        BY <3>1, <3>2
    <2>2. DeviceSetup = c \o OpenChannelAsUser
      BY DEF DeviceSetup, U
    <2> HIDE DEF a
    <2>3. b \in Seq(S) /\ Joined(a, U, b)
      BY <1>2, <2>1, JoinAt
    <2> HIDE DEF b
    <2>4. c \in Seq(S) /\ Joined(b, HandleGattLayer, c)
      BY <1>2, <2>3, JoinAt
    <2> HIDE DEF c
    <2>5. Joined(c, OpenChannelAsUser, DeviceSetup)
      BY <1>2, <2>2, <2>4, JoinAt
    <2>6. /\ Early(a[1]) /\ Early(a[2]) /\ Early(a[3]) /\ Early(a[4]) /\ a[5] = Connect
          /\ a[3] = SearchForDevice
      BY <1>1, <2>1
    <2>7. \A j \in 1 .. 5 : j = 1 \/ j = 2 \/ j = 3 \/ j = 4 \/ j = 5
      OBVIOUS
    <2>8. \A i \in 1 .. 5 : a[i] # StartAdvertising
      BY <2>6, <2>7, JoiningApart DEF Early
    <2>9. Nears(a)
      <3>1. \A j \in 1 .. 5 - 1 : j = 1 \/ j = 2 \/ j = 3 \/ j = 4
        OBVIOUS
      <3>2. 5 \in DOMAIN a /\ a[5] \in Joining /\ \A j \in 1 .. 5 - 1 : a[j] \notin OverTheLink
        BY <2>1, <2>6, <3>1, JoiningApart DEF Early
      <3> QED
        BY <2>1, <2>8, <3>2 DEF Nears
    <2>10. Searches(a)
      <3>1. \A j \in 1 .. 3 - 1 : j = 1 \/ j = 2
        OBVIOUS
      <3>2. 3 \in DOMAIN a /\ \A j \in 1 .. 3 - 1 : a[j] # Connect
        BY <2>1, <2>6, <3>1 DEF Early
      <3> QED
        BY <2>6, <3>2 DEF Searches
    <2>11. Nears(DeviceSetup) /\ Searches(DeviceSetup)
      BY <1>3, <1>4, <2>3, <2>4, <2>5, <2>9, <2>10, NearsMore
    <2>12. \A i \in DOMAIN DeviceSetup : DeviceSetup[i] # StartAdvertising
      <3>1. \A i \in DOMAIN b : b[i] # StartAdvertising
        BY <1>4, <2>1, <2>3, <2>8 DEF Joined
      <3>2. \A i \in DOMAIN c : c[i] # StartAdvertising
        BY <1>3, <2>4, <3>1 DEF Joined
      <3> QED
        BY <1>3, <2>5, <3>2 DEF Joined
    <2> QED
      BY <2>11, <2>12
  <1> QED
    BY <1>5, <1>6

\* A session begins with both sides on their way to the connection.
LEMMA InitConnect == Init => \A s \in Side : ConnectInv(s)
  <1> SUFFICES ASSUME Init, NEW s \in Side
               PROVE  ConnectInv(s)
    OBVIOUS
  <1>1. /\ call[s] = "setup" /\ uart[s] = << >> /\ DOMAIN uart[s] = {}
        /\ task[s] = IF s = "reader" THEN ReaderSetup ELSE DeviceSetup
        /\ board.link = "none" /\ ~board.advertising
    BY DEF Init
  <1>2. s = "reader" \/ s = "device"
    BY DEF Side
  <1>3. Approaching(s)
    BY <1>1, <1>2, SetupsNear DEF Approaching, Nears
  <1>4. s = "device" => Sees(s)
    BY <1>1, <1>2, SetupsNear DEF Sees, Searches
  <1> QED
    BY <1>1, <1>3, <1>4 DEF ConnectInv, UnlinkedOK, LinkedOK, Up, Arrived

-----------------------------------------------------------------------------
(* The invariant of the specification, and what it says.                     *)

\* Until a side has seen the connection its set-up is on its way to it; from then
\* on it knows of it, and asks for its end before it closes.
THEOREM ConnectInvariant == Spec => [](LinkInv /\ \A s \in Side : ConnectInv(s))
  <1>1. Init => LinkInv /\ \A s \in Side : ConnectInv(s)
    BY InitInv, InitConnect
  <1>2. LinkInv /\ (\A s \in Side : ConnectInv(s)) /\ [Next]_vars =>
            LinkInv' /\ \A s \in Side : ConnectInv(s)'
    BY NextInv, NextConnect
  <1>3. (\A s \in Side : ConnectInv(s))' <=> \A s \in Side : ConnectInv(s)'
    OBVIOUS
  <1> QED
    BY <1>1, <1>2, <1>3, PTL DEF Spec

\* Neither side leaves a connection behind that it does not know of, unless a
\* packet was lost to a read that had been given up: whatever was refused, failed,
\* lapsed or timed out before, each side has the other in connected_devices or is
\* about to read that it is connected, and who closed the transport has asked for
\* the end of the connection.
THEOREM NoLinkForgotten == Spec => []NoForgottenLink
  <1>1. ASSUME \A s \in Side : ConnectInv(s) PROVE NoForgottenLink
    <2> SUFFICES ASSUME NEW s \in Side, Up, Whole(s)
                 PROVE  /\ connected[s] \/ \E i \in DOMAIN uart[s] : uart[s][i] = Connected
                        /\ call[s] \in {"closed", "broken"} =>
                              \E i \in DOMAIN serial[s] : serial[s][i] = Disconnect
      BY DEF NoForgottenLink, Whole
    <2>1. LinkedOK(s)
      BY <1>1 DEF ConnectInv
    <2>2. Arrived(s) => \E i \in DOMAIN uart[s] : uart[s][i] = Connected
      BY <2>1 DEF LinkedOK, Arrived
    <2> QED
      BY <2>1, <2>2 DEF LinkedOK
  <1> QED
    BY <1>1, ConnectInvariant, PTL
=============================================================================
