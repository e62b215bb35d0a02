---------------------------- MODULE BleLinkProofs ----------------------------
(***************************************************************************)
(* Theorems about BleLink, for any number of messages and of lapses: what a  *)
(* host receives is what the other one sent, in order, and a CONFIRM belongs  *)
(* to the request of the call that takes it.                                 *)
(***************************************************************************)
EXTENDS BleLink, TLAPS

-----------------------------------------------------------------------------
(* Sequences: positions in a tail and in a concatenation.                    *)

\* w is q without its first element m.
Popped(q, m, w) ==
    /\ Len(w) = Len(q) - 1 /\ Len(q) \in Nat \ {0} /\ Len(w) \in Nat
    /\ DOMAIN q = 1 .. Len(q) /\ DOMAIN w = 1 .. Len(q) - 1
    /\ \A i \in DOMAIN w : i + 1 \in DOMAIN q /\ w[i] = q[i + 1]
    /\ \A i \in DOMAIN q : i # 1 => i - 1 \in DOMAIN w /\ w[i - 1] = q[i]
    /\ 1 \in DOMAIN q /\ m = q[1] /\ m = Head(q)

\* The tail of a sequence is the sequence without its head.
LEMMA TailAt ==
    ASSUME NEW S, NEW q \in Seq(S), q # << >>
    PROVE  Tail(q) \in Seq(S) /\ Popped(q, Head(q), Tail(q)) /\ Head(q) \in S
  BY DEF Popped

\* The elements of a concatenation w are those of p and those of q.
Joined(p, q, w) ==
    /\ Len(w) = Len(p) + Len(q) /\ Len(p) \in Nat /\ Len(q) \in Nat
    /\ DOMAIN p = 1 .. Len(p) /\ DOMAIN q = 1 .. Len(q) /\ DOMAIN w = 1 .. Len(p) + Len(q)
    /\ \A i \in DOMAIN p : i \in DOMAIN w /\ w[i] = p[i]
    /\ \A i \in DOMAIN q : Len(p) + i \in DOMAIN w /\ w[Len(p) + i] = q[i]
    /\ \A i \in DOMAIN w :
          \/ i \in DOMAIN p
          \/ i > Len(p) /\ i - Len(p) \in DOMAIN q /\ w[i] = q[i - Len(p)]

\* A concatenation has the elements of both sequences.
LEMMA JoinAt ==
    ASSUME NEW S, NEW p \in Seq(S), NEW q \in Seq(S)
    PROVE  p \o q \in Seq(S) /\ Joined(p, q, p \o q)
  BY DEF Joined

\* A sequence over a set is one over a larger set.
LEMMA Widen ==
    ASSUME NEW S, NEW T, S \subseteq T, NEW q \in Seq(S)
    PROVE  q \in Seq(T)
  OBVIOUS

\* A sequence of two and one of three elements.
LEMMA TwoAndThree ==
    ASSUME NEW S, NEW p \in Seq(S), NEW q \in Seq(S), Len(p) = 2, Len(q) = 3
    PROVE  /\ Len(p \o q) = 5 /\ p \o q \in Seq(S)
           /\ (p \o q)[1] = p[1] /\ (p \o q)[2] = p[2]
           /\ (p \o q)[3] = q[1] /\ (p \o q)[4] = q[2] /\ (p \o q)[5] = q[3]
  <1> DEFINE w == p \o q
  <1>1. w \in Seq(S) /\ Joined(p, q, w)
    BY JoinAt
  <1> HIDE DEF w
  <1>2. 2 + 1 = 3 /\ 2 + 2 = 4 /\ 2 + 3 = 5
    OBVIOUS
  <1>3. 1 \in 1 .. 2 /\ 2 \in 1 .. 2 /\ 1 \in 1 .. 3 /\ 2 \in 1 .. 3 /\ 3 \in 1 .. 3
    OBVIOUS
  <1>4. /\ Len(w) = 5 /\ w \in Seq(S) /\ w[1] = p[1] /\ w[2] = p[2]
        /\ w[3] = q[1] /\ w[4] = q[2] /\ w[5] = q[3]
    BY <1>1, <1>2, <1>3 DEF Joined
  <1> QED
    BY <1>4 DEF w

\* A sequence behind one of five elements.
LEMMA BehindFive ==
    ASSUME NEW S, NEW p \in Seq(S), NEW q \in Seq(S), Len(p) = 5
    PROVE  /\ Len(p \o q) = 5 + Len(q) /\ p \o q \in Seq(S) /\ Len(q) \in Nat
           /\ DOMAIN (p \o q) = 1 .. 5 + Len(q) /\ DOMAIN q = 1 .. Len(q)
           /\ \A i \in 1 .. 5 : (p \o q)[i] = p[i]
           /\ \A i \in DOMAIN (p \o q) : i > 5 => i - 5 \in DOMAIN q /\ (p \o q)[i] = q[i - 5]
  <1> DEFINE w == p \o q
  <1>1. w \in Seq(S) /\ Joined(p, q, w)
    BY JoinAt
  <1> HIDE DEF w
  <1>2. /\ Len(w) = 5 + Len(q) /\ w \in Seq(S) /\ Len(q) \in Nat
        /\ DOMAIN w = 1 .. 5 + Len(q) /\ DOMAIN q = 1 .. Len(q)
        /\ \A i \in 1 .. 5 : w[i] = p[i]
        /\ \A i \in DOMAIN w : i > 5 => i - 5 \in DOMAIN q /\ w[i] = q[i - 5]
    BY <1>1 DEF Joined
  <1> QED
    BY <1>2 DEF w

\* How three sequences are joined does not matter.
LEMMA Regroup ==
    ASSUME NEW S, NEW a \in Seq(S), NEW b \in Seq(S), NEW c \in Seq(S)
    PROVE  a \o b \o c = a \o (b \o c) /\ a \o b \in Seq(S) /\ b \o c \in Seq(S)
  OBVIOUS

\* An appended element is the last.
LEMMA AppendAt ==
    ASSUME NEW S, NEW q \in Seq(S), NEW e \in S
    PROVE  /\ Append(q, e) \in Seq(S) /\ Len(Append(q, e)) = Len(q) + 1 /\ Len(q) \in Nat
           /\ DOMAIN q = 1 .. Len(q) /\ DOMAIN Append(q, e) = 1 .. Len(q) + 1
           /\ \A i \in DOMAIN q : Append(q, e)[i] = q[i]
           /\ Append(q, e)[Len(q) + 1] = e
  OBVIOUS

\* A sequence of one element.
LEMMA OneAt ==
    ASSUME NEW S, NEW e \in S
    PROVE  /\ <<e>> \in Seq(S) /\ Len(<<e>>) = 1 /\ DOMAIN <<e>> = {1}
           /\ Head(<<e>>) = e /\ <<e>>[1] = e /\ Tail(<<e>>) = << >> /\ <<e>> # << >>
  OBVIOUS

\* Sums.
LEMMA Sums ==
    \A a, b \in Nat : a + b + 1 = a + (b + 1) /\ a + (b + 1) = (a + 1) + b
  OBVIOUS

\* What is left of more than one element.
LEMMA Shorter ==
    ASSUME NEW q, NEW m, NEW w, Popped(q, m, w), Len(q) # 1
    PROVE  /\ 1 \in 1 .. Len(q) - 1 /\ Len(w) \in DOMAIN w /\ Len(w) + 1 = Len(q)
           /\ Len(w) # 0 /\ w # << >>
           /\ \A i \in 1 .. Len(w) - 1 :
                 i \in DOMAIN w /\ w[i] = q[i + 1] /\ i + 1 \in 1 .. Len(q) - 1
  <1>1. /\ Len(w) = Len(q) - 1 /\ Len(q) \in Nat \ {0} /\ Len(w) \in Nat
        /\ DOMAIN w = 1 .. Len(q) - 1
        /\ \A i \in DOMAIN w : w[i] = q[i + 1]
    BY DEF Popped
  <1>2. \A n \in Nat \ {0} : n # 1 =>
           /\ 1 \in 1 .. n - 1 /\ n - 1 \in 1 .. n - 1 /\ n - 1 + 1 = n /\ n - 1 # 0
           /\ \A i \in 1 .. n - 1 - 1 : i \in 1 .. n - 1 /\ i + 1 \in 1 .. n - 1
    OBVIOUS
  <1>3. Len(<< >>) = 0
    OBVIOUS
  <1>4. /\ 1 \in 1 .. Len(q) - 1 /\ Len(w) \in DOMAIN w /\ Len(w) + 1 = Len(q) /\ Len(w) # 0
        /\ \A i \in 1 .. Len(w) - 1 : i \in DOMAIN w /\ i + 1 \in 1 .. Len(q) - 1
    BY <1>1, <1>2
  <1>5. w # << >>
    BY <1>3, <1>4
  <1> QED
    BY <1>1, <1>4, <1>5

\* Appending to nothing.
LEMMA AppendNone ==
    ASSUME NEW e
    PROVE  Append(<< >>, e) = <<e>>
  <1> DEFINE S == {e}
             w == Append(<< >>, e)
             v == <<e>>
  <1>1. e \in S
    OBVIOUS
  <1> HIDE DEF S
  <1>2. w \in Seq(S) /\ Len(w) = 1 /\ w[1] = e
    BY <1>1
  <1>3. v \in Seq(S) /\ Len(v) = 1 /\ v[1] = e
    BY <1>1, OneAt
  <1> HIDE DEF w, v
  <1>4. \A i \in 1 .. 1 : w[i] = v[i]
    BY <1>2, <1>3
  <1>5. w = v
    BY <1>2, <1>3, <1>4
  <1> QED
    BY <1>5 DEF w, v

\* Appending to one element.
LEMMA AppendOne ==
    ASSUME NEW e, NEW f
    PROVE  Append(<<e>>, f) = <<e, f>>
  <1> DEFINE S == {e, f}
             a == <<e>>
             w == Append(a, f)
             v == <<e, f>>
  <1>1. e \in S /\ f \in S
    OBVIOUS
  <1> HIDE DEF S
  <1>2. a \in Seq(S) /\ Len(a) = 1 /\ DOMAIN a = {1} /\ a[1] = e
    BY <1>1, OneAt
  <1> HIDE DEF a
  <1>3. /\ w \in Seq(S) /\ Len(w) = 2 /\ w[1] = e /\ w[2] = f
    BY <1>1, <1>2, AppendAt
  <1>4. v \in Seq(S) /\ Len(v) = 2 /\ v[1] = e /\ v[2] = f
    BY <1>1
  <1> HIDE DEF w, v
  <1>5. \A i \in 1 .. 2 : w[i] = v[i]
    BY <1>3, <1>4
  <1>6. w = v
    BY <1>3, <1>4, <1>5
  <1> QED
    BY <1>6 DEF w, v, a

\* A sequence of two elements.
LEMMA TwoAt ==
    ASSUME NEW S, NEW e \in S, NEW f \in S
    PROVE  /\ <<e, f>> \in Seq(S) /\ Len(<<e, f>>) = 2 /\ DOMAIN <<e, f>> = {1, 2}
           /\ Head(<<e, f>>) = e /\ <<e, f>>[1] = e /\ <<e, f>>[2] = f
           /\ Tail(<<e, f>>) = <<f>> /\ <<e, f>> # << >>
  OBVIOUS

-----------------------------------------------------------------------------
(* The requests.                                                             *)

\* The requests that the set-up of either side is made of, but its last.
SetupRequests ==
    {ReleaseDatabase, InitializeDatabase, AddPrimaryService, AddCharacteristic,
     FindValueHandle, RegisterServerCallback, RegisterWriteNotifications,
     SendAttributeWrittenStatus, Await("GATT", "ATTRIBUTE_WRITTEN"),
     RegisterNotificationCallback, RegisterProcedureCallback, DiscoverServices,
     DiscoverCharacteristics, ReadCharacteristic, WriteCharacteristic, ReadPublicAddress,
     SetAdvertisingParameters, SetAdvertisingData, SetTxPowerLevel, StartAdvertising,
     StartScanning, StopScanning, [StopScanning EXCEPT !.event = None], SearchForDevice,
     WaitForConnectionEvent, EnableUpdate, RegisterLeCb, RegisterLePsm, WaitForL2capRequest}

\* They are requests like any other, and none is Connect.
LEMMA SetupRequestsPrepare ==
    \A r \in SetupRequests \cup {Connect} :
        Preparing(r) /\ (r # Connect <=> r \in SetupRequests)
  <1> DEFINE Fields(r) == /\ r.event \notin {"CONFIRM", "LE_CB_DATA", "CONNECTION_COMPLETE",
                                             "DISCONNECTED"}
                          /\ r.opcode \notin {"SEND_LE_CB_DATA", "DEREGISTER_LE_PSM"}
  <1>1. \A r \in SetupRequests : Fields(r) /\ r.opcode # "CONNECT"
    BY DEF SetupRequests, Procedure, Command, Await, None, ReleaseDatabase,
           InitializeDatabase, AddPrimaryService, AddCharacteristic, FindValueHandle,
           RegisterServerCallback, RegisterWriteNotifications, SendAttributeWrittenStatus,
           RegisterNotificationCallback, RegisterProcedureCallback, DiscoverServices,
           DiscoverCharacteristics, ReadCharacteristic, WriteCharacteristic,
           ReadPublicAddress, SetAdvertisingParameters, SetAdvertisingData, SetTxPowerLevel,
           StartAdvertising, StartScanning, StopScanning, SearchForDevice,
           WaitForConnectionEvent, EnableUpdate, RegisterLeCb, RegisterLePsm,
           WaitForL2capRequest
  <1>2. Fields(Connect) /\ Connect.opcode = "CONNECT"
    BY DEF Procedure, Connect
  <1>3. SendLeCbData.opcode = "SEND_LE_CB_DATA" /\ DeregisterLePsm.opcode = "DEREGISTER_LE_PSM"
    BY DEF SendLeCbData, DeregisterLePsm, Command, Procedure
  <1> QED
    BY <1>1, <1>2, <1>3 DEF Preparing

\* The programs of both sides.
LEMMA Setups ==
    /\ ReaderSetup \in Seq(SetupRequests \cup {Connect, ConnectLePsm})
    /\ DeviceSetup \in Seq(SetupRequests \cup {Connect, ConnectLePsm})
    /\ Planned(ReaderSetup) /\ Planned(DeviceSetup)
    /\ \A i \in DOMAIN ReaderSetup : ReaderSetup[i] # Connect
    /\ \A i, j \in DOMAIN DeviceSetup :
          DeviceSetup[i] = Connect /\ DeviceSetup[j] = Connect => i = j
    /\ DeviceSetup[1] # Connect
  <1> DEFINE P == SetupRequests
             All == SetupRequests \cup {Connect, ConnectLePsm}
  <1>1. /\ SetupGattDatabase \in Seq(P)
        /\ Advertise \in Seq(P)
        /\ <<WaitForConnectionEvent, EnableUpdate>> \in Seq(P)
        /\ WaitForWrite \in Seq(P) /\ Scan \in Seq(P) /\ HandleGattLayer \in Seq(P)
        /\ <<EnableUpdate>> \in Seq(P)
    BY DEF SetupGattDatabase, Advertise, WaitForWrite, Scan, HandleGattLayer, SetupRequests
  <1>2. Connect # ConnectLePsm /\ ConnectLePsm \notin P
    <2>1. Connect.event = "CONNECTED" /\ ConnectLePsm.event = "CONNECTION_COMPLETE"
      BY DEF Connect, ConnectLePsm, Procedure
    <2> QED
      BY <2>1, SetupRequestsPrepare DEF Preparing
  <1>3. ASSUME NEW a \in Seq(P), NEW b \in Seq(All), Planned(b),
               \A i \in DOMAIN b : b[i] # Connect
        PROVE  Planned(a \o b) /\ \A i \in DOMAIN (a \o b) : (a \o b)[i] # Connect
    <2> DEFINE w == a \o b
    <2>1. a \in Seq(All)
      OBVIOUS
    <2>2. \A i \in DOMAIN a : a[i] \in P
      OBVIOUS
    <2>3. w \in Seq(All) /\ Joined(a, b, w)
      BY <2>1, JoinAt
    <2> HIDE DEF w, P, All
    <2>4. \A i \in DOMAIN w : w[i] # Connect
      BY <2>2, <2>3, <1>3, SetupRequestsPrepare DEF Joined, P
    <2>5. Len(b) \in Nat \ {0}
      BY <1>3 DEF Planned
    <2>6. w # << >> /\ w[Len(w)] = ConnectLePsm
      BY <2>3, <2>5, <1>3 DEF Planned, Joined
    <2>7. \A i \in 1 .. Len(w) - 1 : Preparing(w[i])
      <3> SUFFICES ASSUME NEW i \in 1 .. Len(w) - 1 PROVE Preparing(w[i])
        OBVIOUS
      <3>1. Len(w) = Len(a) + Len(b) /\ Len(a) \in Nat /\ i \in DOMAIN w
        BY <2>3, <2>5 DEF Joined
      <3>2. CASE i \in DOMAIN a
        BY <3>2, <2>2, <2>3, SetupRequestsPrepare DEF Joined, P
      <3>3. CASE i \notin DOMAIN a
        <4>1. w[i] = b[i - Len(a)] /\ i - Len(a) \in DOMAIN b /\ DOMAIN b = 1 .. Len(b)
          BY <2>3, <3>1, <3>3 DEF Joined
        <4>2. i - Len(a) \in 1 .. Len(b) - 1
          BY <2>5, <3>1, <4>1
        <4> QED
          BY <1>3, <4>1, <4>2 DEF Planned
      <3> QED
        BY <3>2, <3>3
    <2> QED
      BY <2>4, <2>6, <2>7 DEF Planned, w
  <1>4. /\ OpenChannelAsReader \in Seq(All) /\ Planned(OpenChannelAsReader)
        /\ \A i \in DOMAIN OpenChannelAsReader : OpenChannelAsReader[i] # Connect
    <2>1. WaitForL2capRequest \in P
      BY DEF SetupRequests
    <2>2. Preparing(WaitForL2capRequest) /\ WaitForL2capRequest # Connect
      BY <2>1, SetupRequestsPrepare
    <2> QED
      BY <1>2, <2>1, <2>2 DEF OpenChannelAsReader, Planned
  <1>5. /\ OpenChannelAsUser \in Seq(All) /\ Planned(OpenChannelAsUser)
        /\ \A i \in DOMAIN OpenChannelAsUser : OpenChannelAsUser[i] # Connect
    <2>1. RegisterLeCb \in P /\ RegisterLePsm \in P
      BY DEF SetupRequests
    <2>2. /\ Preparing(RegisterLeCb) /\ RegisterLeCb # Connect
          /\ Preparing(RegisterLePsm) /\ RegisterLePsm # Connect
      BY <2>1, SetupRequestsPrepare
    <2> QED
      BY <1>2, <2>1, <2>2 DEF OpenChannelAsUser, Planned
  <1>6. \A a \in Seq(P), b \in Seq(All) : a \o b \in Seq(All)
    OBVIOUS
  <1>7. /\ ReaderSetup \in Seq(All) /\ Planned(ReaderSetup)
        /\ \A i \in DOMAIN ReaderSetup : ReaderSetup[i] # Connect
    <2> DEFINE front == SetupGattDatabase \o Advertise \o <<WaitForConnectionEvent, EnableUpdate>>
                        \o WaitForWrite
    <2>1. front \in Seq(P)
      <3> HIDE DEF P
      <3> QED
        BY <1>1
    <2>2. ReaderSetup = front \o OpenChannelAsReader
      BY DEF ReaderSetup
    <2> HIDE DEF P, All, front
    <2> QED
      BY <2>1, <2>2, <1>3, <1>4, <1>6
  <1> DEFINE find == Scan \o FindReader
             rest == <<EnableUpdate>> \o (HandleGattLayer \o OpenChannelAsUser)
  <1>8. rest \in Seq(All) /\ Planned(rest) /\ \A i \in DOMAIN rest : rest[i] # Connect
    <2>1. HandleGattLayer \o OpenChannelAsUser \in Seq(All)
      BY <1>1, <1>5, <1>6
    <2> HIDE DEF P, All
    <2> QED
      BY <2>1, <1>1, <1>3, <1>5, <1>6
  <1>9. DeviceSetup = find \o rest
    <2> HIDE DEF P, All
    <2>1. /\ Scan \in Seq(P \cup {Connect}) /\ FindReader \in Seq(P \cup {Connect})
          /\ HandleGattLayer \in Seq(P) /\ OpenChannelAsUser \in Seq(All)
      BY <1>1, <1>5 DEF FindReader, SetupRequests, P
    <2>4. P \subseteq All /\ P \cup {Connect} \subseteq All
      BY DEF P, All
    <2>5. /\ Scan \in Seq(All) /\ FindReader \in Seq(All) /\ <<EnableUpdate>> \in Seq(All)
          /\ HandleGattLayer \in Seq(All) /\ OpenChannelAsUser \in Seq(All)
      BY <2>1, <2>4, <1>1
    <2> DEFINE one == <<EnableUpdate>>
    <2>6. DeviceSetup = find \o one \o HandleGattLayer \o OpenChannelAsUser
      BY DEF DeviceSetup
    <2>7. rest = one \o (HandleGattLayer \o OpenChannelAsUser)
      OBVIOUS
    <2>8. one \in Seq(All) /\ find \in Seq(All)
      BY <2>5, Regroup
    <2> HIDE DEF find, one, rest
    <2>9. /\ find \o one \in Seq(All)
          /\ find \o one \o HandleGattLayer \o OpenChannelAsUser
               = find \o one \o (HandleGattLayer \o OpenChannelAsUser)
      <3> DEFINE f == find \o one
      <3>1. f \in Seq(All)
        BY <2>8, Regroup
      <3> HIDE DEF f
      <3>2. f \o HandleGattLayer \o OpenChannelAsUser = f \o (HandleGattLayer \o OpenChannelAsUser)
        BY <2>5, <3>1, Regroup, SMTT(20)
      <3> QED
        BY <3>1, <3>2 DEF f
    <2> DEFINE g == HandleGattLayer \o OpenChannelAsUser
    <2>11. g \in Seq(All)
      BY <2>5, Regroup
    <2>10. find \o one \o (HandleGattLayer \o OpenChannelAsUser)
             = find \o (one \o (HandleGattLayer \o OpenChannelAsUser))
      <3> HIDE DEF g
      <3>1. find \o one \o g = find \o (one \o g)
        BY <2>8, <2>11, Regroup
      <3> QED
        BY <3>1 DEF g
    <2> QED
      BY <2>6, <2>7, <2>9, <2>10
  <1>10. /\ find \in Seq(All) /\ Len(find) = 5
         /\ \A i \in 1 .. 5 : find[i] \in P \cup {Connect} /\ (find[i] = Connect <=> i = 5)
    <2> DEFINE C == P \cup {Connect}
    <2>1. /\ Scan \in Seq(C) /\ Len(Scan) = 2 /\ Scan[1] \in P /\ Scan[2] \in P
      BY DEF Scan, SetupRequests
    <2>2. /\ FindReader \in Seq(C) /\ Len(FindReader) = 3
          /\ FindReader[1] \in P /\ FindReader[2] \in P /\ FindReader[3] = Connect
      BY DEF FindReader, SetupRequests
    <2>3. find \in Seq(All)
      BY <2>1, <2>2, <1>6
    <2> HIDE DEF P, C
    <2>4. /\ Len(find) = 5 /\ find[5] = Connect
          /\ \A i \in 1 .. 4 : find[i] \in P
      <3>1. /\ Len(find) = 5 /\ find[1] = Scan[1] /\ find[2] = Scan[2]
            /\ find[3] = FindReader[1] /\ find[4] = FindReader[2] /\ find[5] = FindReader[3]
        BY <2>1, <2>2, TwoAndThree
      <3>2. \A i \in 1 .. 4 : i = 1 \/ i = 2 \/ i = 3 \/ i = 4
        OBVIOUS
      <3> HIDE DEF find
      <3> QED
        BY <2>1, <2>2, <3>1, <3>2
    <2> HIDE DEF find
    <2>5. \A i \in 1 .. 5 : i = 5 \/ i \in 1 .. 4
      OBVIOUS
    <2>6. \A i \in 1 .. 5 : find[i] \in P \cup {Connect} /\ (find[i] = Connect <=> i = 5)
      BY <2>4, <2>5, SetupRequestsPrepare DEF P
    <2> QED
      BY <2>3, <2>4, <2>6
  <1> HIDE DEF P, All, find, rest
  <1>12. Len(rest) \in Nat \ {0}
    BY <1>8 DEF Planned
  <1>13. /\ DeviceSetup \in Seq(All) /\ Len(DeviceSetup) = 5 + Len(rest)
         /\ \A i \in 1 .. 5 : DeviceSetup[i] = find[i]
         /\ \A i \in DOMAIN DeviceSetup : i > 5 => i - 5 \in DOMAIN rest /\ DeviceSetup[i] = rest[i - 5]
    BY <1>8, <1>9, <1>10, BehindFive
  <1>14. Planned(DeviceSetup)
    <2>1. \A i \in 1 .. Len(DeviceSetup) - 1 : Preparing(DeviceSetup[i])
      <3> SUFFICES ASSUME NEW i \in 1 .. Len(DeviceSetup) - 1 PROVE Preparing(DeviceSetup[i])
        OBVIOUS
      <3>1. CASE i \in 1 .. 5
        BY <3>1, <1>10, <1>13, SetupRequestsPrepare DEF P, SetupRequests
      <3>2. CASE i > 5
        <4>1. /\ i \in DOMAIN DeviceSetup /\ DeviceSetup[i] = rest[i - 5]
              /\ i - 5 \in 1 .. Len(rest) - 1
          BY <3>2, <1>12, <1>13
        <4> QED
          BY <4>1, <1>8 DEF Planned
      <3> QED
        BY <3>1, <3>2
    <2> QED
      BY <2>1, <1>8, <1>12, <1>13, SMTT(20) DEF Planned
  <1>15. \A i, j \in DOMAIN DeviceSetup :
            DeviceSetup[i] = Connect /\ DeviceSetup[j] = Connect => i = j
    <2>1. DOMAIN DeviceSetup = 1 .. 5 + Len(rest)
      BY <1>13
    <2>2. \A i \in DOMAIN DeviceSetup : DeviceSetup[i] = Connect => i = 5
      <3> SUFFICES ASSUME NEW i \in DOMAIN DeviceSetup, DeviceSetup[i] = Connect PROVE i = 5
        OBVIOUS
      <3>1. CASE i \in 1 .. 5
        BY <3>1, <1>10, <1>13
      <3>2. CASE i > 5
        BY <3>2, <1>8, <1>13
      <3> QED
        BY <3>1, <3>2, <2>1, <1>12
    <2> QED
      BY <2>2
  <1>16. DeviceSetup[1] # Connect
    BY <1>10, <1>13
  <1> QED
    BY <1>7, <1>13, <1>14, <1>15, <1>16 DEF P, All

\* The requests that the proofs tell from the others.
Special == {ConnectLePsm, Disconnect, DeregisterLePsm, SendLeCbData, WaitForData}

\* What the fields of those requests are.
LEMMA Fields ==
    /\ ConnectLePsm.group = "L2CAP" /\ ConnectLePsm.event = "CONNECTION_COMPLETE"
    /\ Disconnect.group = "GAP" /\ Disconnect.event = "DISCONNECTED"
    /\ DeregisterLePsm.group = "L2CAP" /\ DeregisterLePsm.event = None
    /\ SendLeCbData.group = "L2CAP" /\ SendLeCbData.event = None
    /\ WaitForData.group = "L2CAP" /\ WaitForData.event = "LE_CB_DATA"
    /\ Connect.group = "GAP" /\ Connect.event = "CONNECTED"
    /\ None = "none" /\ WaitForData.opcode = None
    /\ \A r \in (Special \cup {Connect}) \ {WaitForData} : r.opcode # None
    /\ DeregisterLePsm # SendLeCbData /\ \A r \in Special : r # Connect
  BY DEF Special, ConnectLePsm, Disconnect, DeregisterLePsm, SendLeCbData, WaitForData, Connect,
         Procedure, Command, Await, None

\* Every request is one of them or one of the set-up.
LEMMA RequestKinds ==
    /\ \A r \in Requests : r \in SetupRequests \cup {Connect} \cup Special
    /\ Special \subseteq Requests
    /\ ReaderSetup \in Seq(Requests) /\ DeviceSetup \in Seq(Requests)
  <1>1. Special \subseteq Requests
    <2>1. /\ ReaderSetup # << >> /\ Len(ReaderSetup) \in Nat
          /\ ReaderSetup[Len(ReaderSetup)] = ConnectLePsm
      BY Setups DEF Planned
    <2>2. Len(ReaderSetup) \in DOMAIN ReaderSetup
      BY <2>1, Setups
    <2> QED
      BY <2>1, <2>2 DEF Requests, Special
  <1>2. ReaderSetup \in Seq(Requests) /\ DeviceSetup \in Seq(Requests)
    <2>1. \A i \in DOMAIN ReaderSetup : ReaderSetup[i] \in Requests
      BY DEF Requests
    <2>2. \A i \in DOMAIN DeviceSetup : DeviceSetup[i] \in Requests
      BY DEF Requests
    <2> QED
      BY <2>1, <2>2, Setups
  <1>3. \A r \in Requests : r \in SetupRequests \cup {Connect} \cup Special
    <2>1. /\ \A i \in DOMAIN ReaderSetup :
                ReaderSetup[i] \in SetupRequests \cup {Connect, ConnectLePsm}
          /\ \A i \in DOMAIN DeviceSetup :
                DeviceSetup[i] \in SetupRequests \cup {Connect, ConnectLePsm}
      BY Setups
    <2> QED
      BY <2>1 DEF Requests, Special
  <1> QED
    BY <1>1, <1>2, <1>3

\* Those that need nothing from Special prepare; and prepare only they do.
LEMMA Preparations ==
    /\ \A r \in Requests : Preparing(r) <=> r \in SetupRequests \cup {Connect}
    /\ \A r \in Special : ~Preparing(r)
  <1>1. \A r \in Special : ~Preparing(r)
    BY Fields DEF Special, Preparing
  <1> QED
    BY <1>1, RequestKinds, SetupRequestsPrepare

-----------------------------------------------------------------------------
(* The messages.                                                             *)

\* Messages that the driver only looks at when it waits for them.
Plain(m) == /\ m \in Messages
            /\ m.opcode \notin {"CONFIRM", "LE_CB_DATA", "CONNECTION_COMPLETE", "DISCONNECTED"}

\* What the fields of a report are.
LEMMA MessageFields ==
    ASSUME NEW r \in Requests
    PROVE  /\ Confirm(r) \in Messages /\ Failed(Confirm(r)) \in Messages
           /\ Confirm(r).opcode = "CONFIRM" /\ Confirm(r).group = r.group /\ Confirm(r).ok
           /\ Failed(Confirm(r)).opcode = "CONFIRM" /\ Failed(Confirm(r)).group = r.group
           /\ ~Failed(Confirm(r)).ok
           /\ Preparing(r) /\ r.event # None => Plain(Event(r.group, r.event))
  <1>1. r.group \in {"GATT_DB", "GATT", "GAP", "L2CAP"} /\ r.event \in Opcodes \cup {None}
    <2>1. CASE r \in SetupRequests
      BY <2>1 DEF Opcodes, SetupRequests, Procedure, Command, Await, None, ReleaseDatabase,
           InitializeDatabase, AddPrimaryService, AddCharacteristic, FindValueHandle,
           RegisterServerCallback, RegisterWriteNotifications, SendAttributeWrittenStatus,
           RegisterNotificationCallback, RegisterProcedureCallback, DiscoverServices,
           DiscoverCharacteristics, ReadCharacteristic, WriteCharacteristic,
           ReadPublicAddress, SetAdvertisingParameters, SetAdvertisingData, SetTxPowerLevel,
           StartAdvertising, StartScanning, StopScanning, SearchForDevice,
           WaitForConnectionEvent, EnableUpdate, RegisterLeCb, RegisterLePsm,
           WaitForL2capRequest
    <2>2. CASE r \in Special \cup {Connect}
      BY <2>2, Fields DEF Special, Opcodes
    <2> QED
      BY <2>1, <2>2, RequestKinds
  <1> QED
    BY <1>1, Fields DEF Preparing, Plain, Messages, Opcodes, Confirm, Failed, Event

\* The reports that no request names.
LEMMA Reported ==
    /\ Plain(Connected) /\ Plain(AttributeWritten) /\ Plain(DeviceScanned)
    /\ Plain(Failed(DeviceScanned)) /\ Plain(Event("L2CAP", "CONNECTION_REQUEST"))
    /\ Plain(Event("GATT", "PROCEDURE_WRITE"))
    /\ ConnectionComplete \in Messages /\ Failed(ConnectionComplete) \in Messages
    /\ ConnectionComplete.opcode = "CONNECTION_COMPLETE" /\ ConnectionComplete.ok
    /\ Failed(ConnectionComplete).opcode = "CONNECTION_COMPLETE" /\ ~Failed(ConnectionComplete).ok
    /\ ConnectionComplete.group = "L2CAP" /\ Failed(ConnectionComplete).group = "L2CAP"
    /\ Disconnected \in Messages /\ Disconnected.opcode = "DISCONNECTED"
    /\ ConnectionComplete = Event(ConnectLePsm.group, ConnectLePsm.event)
    /\ Disconnected = Event(Disconnect.group, Disconnect.event)
    /\ Connected = Event(Connect.group, Connect.event)
  BY Fields DEF Plain, Messages, Opcodes, Failed, Event, Connected, AttributeWritten,
        DeviceScanned, ConnectionComplete, Disconnected

\* Data carries its number.
LEMMA DataFields ==
    ASSUME NEW n \in Nat
    PROVE  /\ Data(n) \in Messages /\ Data(n).opcode = "LE_CB_DATA" /\ Data(n).n = n
           /\ Data(n).ok /\ Data(n).group = "L2CAP"
  BY DEF Data, Messages, Opcodes, Event

-----------------------------------------------------------------------------
(* A host's step leaves the other side and the boards alone.                 *)

\* What SideInv(t) says of t's own variables.
Untouched(t) ==
    /\ call'[t] = call[t] /\ task'[t] = task[t] /\ waiting'[t] = waiting[t]
    /\ connected'[t] = connected[t] /\ channel'[t] = channel[t] /\ enabled'[t] = enabled[t]
    /\ timer'[t] = timer[t] /\ queue'[t] = queue[t] /\ orphan'[t] = orphan[t]
    /\ serial'[t] = serial[t] /\ uart'[t] = uart[t]
    /\ received'[t] = received[t] /\ sent'[t] = sent[t] /\ missed'[t] = missed[t]

\* A host that is still setting the connection up has no channel.
Unopened(s) == call'[s] = "setup" => ~channel'[s] /\ ~enabled'[s]

\* The sides are two.
LEMMA Sides ==
    \A s \in Side : /\ Other(s) \in Side /\ Other(s) # s /\ Other(Other(s)) = s
                     /\ \A t \in Side : t = s \/ t = Other(s)
  BY DEF Side, Other

\* The side that does nothing keeps its invariant.
LEMMA UntouchedInv ==
    ASSUME TypeOK, NEW t \in Side, SideInv(t), Untouched(t), board' = board,
           sent'[Other(t)] \in Nat, sent'[Other(t)] >= sent[Other(t)],
           Up => Carried(Other(t))' = Carried(Other(t))
    PROVE  SideInv(t)'
  <1> DEFINE o == Other(t)
  <1>0. sent[o] \in Nat
    BY Sides DEF TypeOK
  <1>1. 1 .. sent[o] \subseteq 1 .. sent'[o]
    BY <1>0
  <1>2. CallsOK(t)' /\ QueueOK(t)'
    <2>1. queue[t] \in Seq(1 .. sent[o]) => queue[t] \in Seq(1 .. sent'[o])
      <3> HIDE DEF o
      <3> QED
        BY <1>1, Widen
    <2> QED
      BY <2>1 DEF SideInv, CallsOK, QueueOK, Untouched, Whole
  <1>3. ConnectsOnce(t)' /\ SerialOK(t)' /\ ConfirmOK(t)' /\ ChannelOK(t)'
    BY DEF SideInv, ConnectsOnce, SerialOK, ConfirmOK, ChannelOK, Untouched, Live, Frozen, Whole,
           CleaningUp, Request
  <1>4. PacketsOK(t)'
    BY <1>1 DEF SideInv, PacketsOK, Untouched
  <1>5. DataOK(t)'
    <2>1. Gathered(t)' = Gathered(t)
      BY DEF Gathered, Untouched
    <2> QED
      BY <2>1 DEF SideInv, DataOK, Untouched, Live, Whole, Up
  <1> QED
    BY <1>2, <1>3, <1>4, <1>5 DEF SideInv

-----------------------------------------------------------------------------
(* Data in order.                                                            *)

\* A message that carries data.
IsData(m) == m.opcode = "LE_CB_DATA"

\* Reading on keeps the order; the data that is read is the next.
LEMMA InOrderTail ==
    ASSUME NEW u \in Seq(Messages), u # << >>, NEW from \in Nat, NEW to \in Nat,
           InOrder(u, from, to)
    PROVE  /\ ~IsData(Head(u)) => InOrder(Tail(u), from, to)
           /\ IsData(Head(u)) => Head(u).n = from + 1 /\ InOrder(Tail(u), from + 1, to)
  <1>1. /\ Len(u) \in Nat \ {0} /\ DOMAIN u = 1 .. Len(u) /\ DOMAIN Tail(u) = 1 .. Len(u) - 1
        /\ \A i \in DOMAIN Tail(u) : i + 1 \in DOMAIN u /\ Tail(u)[i] = u[i + 1]
        /\ \A i \in DOMAIN u : i # 1 => i - 1 \in DOMAIN Tail(u) /\ Tail(u)[i - 1] = u[i]
        /\ 1 \in DOMAIN u /\ Head(u) = u[1]
    BY TailAt DEF Popped
  <1>2. /\ \A i \in DOMAIN u : IsData(u[i]) => u[i].n \in from + 1 .. to
        /\ \A i, j \in DOMAIN u : i < j /\ IsData(u[i]) /\ IsData(u[j]) => u[i].n < u[j].n
        /\ \A n \in from + 1 .. to : \E i \in DOMAIN u : IsData(u[i]) /\ u[i].n = n
        /\ from <= to
    BY DEF InOrder, IsData
  <1>3. /\ \A i \in DOMAIN Tail(u) : IsData(Tail(u)[i]) => Tail(u)[i].n \in from + 1 .. to
        /\ \A i, j \in DOMAIN Tail(u) :
              i < j /\ IsData(Tail(u)[i]) /\ IsData(Tail(u)[j]) => Tail(u)[i].n < Tail(u)[j].n
        /\ \A n \in from + 1 .. to :
              \/ IsData(Head(u)) /\ Head(u).n = n
              \/ \E i \in DOMAIN Tail(u) : IsData(Tail(u)[i]) /\ Tail(u)[i].n = n
    <2>1. \A i \in DOMAIN Tail(u) : IsData(Tail(u)[i]) => Tail(u)[i].n \in from + 1 .. to
      BY <1>1, <1>2
    <2>2. ASSUME NEW i \in DOMAIN Tail(u), NEW j \in DOMAIN Tail(u), i < j,
                 IsData(Tail(u)[i]), IsData(Tail(u)[j])
          PROVE  Tail(u)[i].n < Tail(u)[j].n
      <3>1. i + 1 \in DOMAIN u /\ j + 1 \in DOMAIN u /\ i + 1 < j + 1
        BY <1>1, <2>2
      <3> QED
        BY <1>1, <1>2, <2>2, <3>1
    <2>3. ASSUME NEW n \in from + 1 .. to
          PROVE  \/ IsData(Head(u)) /\ Head(u).n = n
                 \/ \E i \in DOMAIN Tail(u) : IsData(Tail(u)[i]) /\ Tail(u)[i].n = n
      <3>1. PICK i \in DOMAIN u : IsData(u[i]) /\ u[i].n = n
        BY <1>2
      <3>2. CASE i = 1
        BY <3>1, <3>2, <1>1
      <3>3. CASE i # 1
        BY <3>1, <3>3, <1>1
      <3> QED
        BY <3>2, <3>3
    <2> QED
      BY <2>1, <2>2, <2>3
  <1>4. ASSUME ~IsData(Head(u)) PROVE InOrder(Tail(u), from, to)
    BY <1>2, <1>3, <1>4 DEF InOrder, IsData
  <1>5. ASSUME IsData(Head(u)) PROVE Head(u).n = from + 1 /\ InOrder(Tail(u), from + 1, to)
    <2>1. Head(u).n \in from + 1 .. to
      BY <1>1, <1>2, <1>5
    <2>2. \A i \in DOMAIN Tail(u) : IsData(Tail(u)[i]) => Tail(u)[i].n > Head(u).n
      <3> SUFFICES ASSUME NEW i \in DOMAIN Tail(u), IsData(Tail(u)[i])
                   PROVE  Tail(u)[i].n > Head(u).n
        OBVIOUS
      <3>1. i + 1 \in DOMAIN u /\ 1 < i + 1 /\ u[i + 1] = Tail(u)[i]
        BY <1>1
      <3>2. u[1].n < u[i + 1].n
        BY <1>1, <1>2, <1>5, <3>1
      <3>3. u[i + 1].n \in from + 1 .. to
        BY <1>2, <3>1
      <3> QED
        BY <1>1, <2>1, <3>1, <3>2, <3>3
    <2>3. Head(u).n = from + 1
      <3>1. from + 1 \in from + 1 .. to
        BY <2>1
      <3>2. CASE Head(u).n # from + 1
        <4>1. PICK i \in DOMAIN Tail(u) : IsData(Tail(u)[i]) /\ Tail(u)[i].n = from + 1
          BY <1>3, <3>1, <3>2
        <4>2. from + 1 > Head(u).n
          BY <2>2, <4>1
        <4> QED
          BY <2>1, <4>2
      <3> QED
        BY <3>2
    <2>4. \A i \in DOMAIN Tail(u) : IsData(Tail(u)[i]) => Tail(u)[i].n \in from + 1 + 1 .. to
      BY <1>3, <2>2, <2>3
    <2>5. \A n \in from + 1 + 1 .. to :
             \E i \in DOMAIN Tail(u) : IsData(Tail(u)[i]) /\ Tail(u)[i].n = n
      <3> SUFFICES ASSUME NEW n \in from + 1 + 1 .. to
                   PROVE  \E i \in DOMAIN Tail(u) : IsData(Tail(u)[i]) /\ Tail(u)[i].n = n
        OBVIOUS
      <3>1. n \in from + 1 .. to /\ n # from + 1
        OBVIOUS
      <3>2. Head(u).n # n
        BY <2>3, <3>1
      <3> QED
        BY <1>3, <3>1, <3>2
    <2>6. from + 1 <= to
      BY <2>1, <2>3
    <2> QED
      BY <1>3, <2>3, <2>4, <2>5, <2>6 DEF InOrder, IsData
  <1> QED
    BY <1>4, <1>5

\* Messages that are no data do not matter.
LEMMA InOrderMore ==
    ASSUME NEW u \in Seq(Messages), NEW v \in Seq(Messages), NEW from \in Nat, NEW to \in Nat,
           InOrder(u, from, to), \A i \in DOMAIN v : ~IsData(v[i])
    PROVE  InOrder(u \o v, from, to)
  <1> DEFINE w == u \o v
  <1>1. Joined(u, v, w)
    BY JoinAt
  <1> HIDE DEF w
  <1>2. \A i \in DOMAIN w : IsData(w[i]) => i \in DOMAIN u /\ w[i] = u[i]
    BY <1>1 DEF Joined
  <1>3. \A i \in DOMAIN u : i \in DOMAIN w /\ w[i] = u[i]
    BY <1>1 DEF Joined
  <1>4. InOrder(w, from, to)
    BY <1>2, <1>3 DEF InOrder, IsData
  <1> QED
    BY <1>4 DEF w

\* The next data comes last.
LEMMA InOrderNext ==
    ASSUME NEW u \in Seq(Messages), NEW from \in Nat, NEW to \in Nat, InOrder(u, from, to),
           from <= to
    PROVE  InOrder(u \o <<Data(to + 1)>>, from, to + 1)
  <1> DEFINE d == Data(to + 1)
             w == u \o <<d>>
  <1>1. d \in Messages /\ IsData(d) /\ d.n = to + 1
    BY DataFields DEF IsData
  <1> HIDE DEF d
  <1>2. <<d>> \in Seq(Messages) /\ DOMAIN <<d>> = {1} /\ <<d>>[1] = d
    BY <1>1, OneAt
  <1>3. w \in Seq(Messages) /\ Joined(u, <<d>>, w)
    BY <1>2, JoinAt
  <1> HIDE DEF w
  <1>4. Len(u) + 1 \in DOMAIN w /\ w[Len(u) + 1] = d
    BY <1>2, <1>3 DEF Joined
  <1>5. ASSUME NEW i \in DOMAIN w
        PROVE  \/ i \in DOMAIN u /\ w[i] = u[i]
               \/ i > Len(u) /\ w[i] = d /\ i = Len(u) + 1
    <2>1. CASE i \in DOMAIN u
      BY <2>1, <1>3 DEF Joined
    <2>2. CASE i \notin DOMAIN u
      <3>1. i > Len(u) /\ i - Len(u) \in {1} /\ w[i] = <<d>>[i - Len(u)]
        BY <1>2, <1>3, <2>2 DEF Joined
      <3>2. i \in Nat /\ Len(u) \in Nat
        BY <1>3 DEF Joined
      <3>3. i = Len(u) + 1 /\ i - Len(u) = 1
        BY <3>1, <3>2
      <3> QED
        BY <1>2, <3>1, <3>3
    <2> QED
      BY <2>1, <2>2
  <1>6. /\ \A i \in DOMAIN u : IsData(u[i]) => u[i].n \in from + 1 .. to
        /\ \A i, j \in DOMAIN u : i < j /\ IsData(u[i]) /\ IsData(u[j]) => u[i].n < u[j].n
        /\ \A n \in from + 1 .. to : \E i \in DOMAIN u : IsData(u[i]) /\ u[i].n = n
    BY DEF InOrder, IsData
  <1>7. \A i \in DOMAIN w : IsData(w[i]) => w[i].n \in from + 1 .. to + 1
    BY <1>1, <1>5, <1>6
  <1>8. \A i, j \in DOMAIN w : i < j /\ IsData(w[i]) /\ IsData(w[j]) => w[i].n < w[j].n
    <2> SUFFICES ASSUME NEW i \in DOMAIN w, NEW j \in DOMAIN w, i < j, IsData(w[i]), IsData(w[j])
                 PROVE  w[i].n < w[j].n
      OBVIOUS
    <2>1. i \in DOMAIN u /\ w[i] = u[i]
      BY <1>3, <1>5 DEF Joined
    <2>2. CASE j \in DOMAIN u
      BY <1>3, <1>6, <2>1, <2>2 DEF Joined
    <2>3. CASE w[j] = d
      <3>1. u[i].n \in from + 1 .. to
        BY <1>6, <2>1
      <3> QED
        BY <1>1, <2>1, <2>3, <3>1
    <2> QED
      BY <1>5, <2>2, <2>3
  <1>9. \A n \in from + 1 .. to + 1 : \E i \in DOMAIN w : IsData(w[i]) /\ w[i].n = n
    <2> SUFFICES ASSUME NEW n \in from + 1 .. to + 1
                 PROVE  \E i \in DOMAIN w : IsData(w[i]) /\ w[i].n = n
      OBVIOUS
    <2>1. CASE n = to + 1
      BY <1>1, <1>4, <2>1
    <2>2. CASE n # to + 1
      <3>1. n \in from + 1 .. to
        BY <2>2
      <3> QED
        BY <1>3, <1>6, <3>1 DEF Joined
    <2> QED
      BY <2>1, <2>2
  <1>10. InOrder(w, from, to + 1)
    BY <1>7, <1>8, <1>9 DEF InOrder, IsData
  <1> QED
    BY <1>10 DEF w, d

\* Nothing is missing where nothing was sent.
LEMMA InOrderNone ==
    ASSUME NEW u, NEW k \in Nat, \A i \in DOMAIN u : ~IsData(u[i])
    PROVE  InOrder(u, k, k)
  <1>1. k + 1 .. k = {}
    OBVIOUS
  <1> QED
    BY <1>1 DEF InOrder, IsData

-----------------------------------------------------------------------------
(* What a step of its host may leave a side in.  Data and packets are looked  *)
(* at apart.                                                                 *)

\* The boards are left alone, and data and packets are as they should be.
Carry(s) == board' = board /\ QueueOK(s)' /\ PacketsOK(s)' /\ DataOK(s)'

\* No CONFIRM is on its way to s.
NoConfirm(s) == \A i \in DOMAIN uart[s] : uart[s][i].opcode # "CONFIRM"

\* What no connection excuses in the serial line is of disconnect.
Parting(s) == \A i \in DOMAIN serial[s] :
                 serial[s][i] \in {Disconnect, DeregisterLePsm} \/ board.link = "down"

\* A call has ended.
LEMMA Idling ==
    ASSUME TypeOK, NEW s \in Side, SideInv(s), Carry(s),
           call'[s] = "idle", task'[s] = << >>, waiting'[s] = "no", serial'[s] = serial[s],
           Parting(s), s \notin board.asking,
           connected'[s] => serial[s] = << >> /\ NoConfirm(s)'
    PROVE  SideInv(s)'
  <1>1. CallsOK(s)'
    BY DEF CallsOK
  <1>2. ConnectsOnce(s)'
    BY DEF SideInv, ConnectsOnce, Carry
  <1>3. SerialOK(s)'
    BY DEF SideInv, SerialOK, Carry, Parting, Live
  <1>4. ConfirmOK(s)'
    BY DEF ConfirmOK, ConfirmsIn, Live, NoConfirm
  <1>5. ChannelOK(s)'
    BY DEF ChannelOK, Carry
  <1> QED
    BY <1>1, <1>2, <1>3, <1>4, <1>5 DEF SideInv, Carry

\* disconnect has ended.
LEMMA Freezing ==
    ASSUME TypeOK, NEW s \in Side, SideInv(s), Carry(s),
           call'[s] \in {"closed", "broken"}, task'[s] = << >>, waiting'[s] = "no",
           serial'[s] = serial[s], Parting(s), s \notin board.asking
    PROVE  SideInv(s)'
  <1>1. CallsOK(s)'
    BY DEF CallsOK
  <1>2. ConnectsOnce(s)'
    BY DEF SideInv, ConnectsOnce, Carry
  <1>3. SerialOK(s)'
    BY DEF SideInv, SerialOK, Carry, Parting, Frozen
  <1>4. ConfirmOK(s)'
    BY DEF ConfirmOK, Frozen
  <1>5. ChannelOK(s)'
    BY DEF ChannelOK, Carry
  <1> QED
    BY <1>1, <1>2, <1>3, <1>4, <1>5 DEF SideInv, Carry

\* disconnect goes on to the clean-up.
LEMMA CleansUp ==
    ASSUME TypeOK, NEW s \in Side, SideInv(s), Carry(s),
           call'[s] = "disconnect", task'[s] = <<DeregisterLePsm>>, waiting'[s] = "confirm",
           serial'[s] = Append(serial[s], DeregisterLePsm),
           Parting(s), s \notin board.asking,
           connected'[s] => /\ serial[s] \in {<< >>, <<Disconnect>>}
                            /\ \A i \in DOMAIN uart'[s] :
                                  uart'[s][i].opcode = "CONFIRM" => uart'[s][i].group # "L2CAP"
    PROVE  SideInv(s)'
  <1>1. CallsOK(s)'
    BY DEF CallsOK
  <1>2. serial[s] \in Seq(Requests) /\ DeregisterLePsm \in Requests
    BY RequestKinds DEF TypeOK, Special
  <1>3. /\ DOMAIN serial[s] = 1 .. Len(serial[s]) /\ Len(serial[s]) \in Nat
        /\ DOMAIN serial'[s] = 1 .. Len(serial[s]) + 1
        /\ \A i \in DOMAIN serial[s] : serial'[s][i] = serial[s][i]
        /\ serial'[s][Len(serial[s]) + 1] = DeregisterLePsm
    BY <1>2, AppendAt
  <1>4. \A i \in DOMAIN serial'[s] :
           \/ i \in DOMAIN serial[s] /\ serial'[s][i] = serial[s][i]
           \/ serial'[s][i] = DeregisterLePsm
    BY <1>3
  <1>5. DeregisterLePsm # Connect /\ DeregisterLePsm.opcode # None /\ DeregisterLePsm.group = "L2CAP"
    BY Fields DEF Special
  <1>6. task'[s][1] = DeregisterLePsm /\ DOMAIN task'[s] = {1} /\ Request(s)' = DeregisterLePsm
    BY DEF Request
  <1>7. ConnectsOnce(s)'
    BY <1>4, <1>5, <1>6 DEF SideInv, ConnectsOnce, Carry
  <1>8. SerialOK(s)'
    <2>1. serial[s] = << >> => serial'[s] = <<DeregisterLePsm>>
      OBVIOUS
    <2>2. serial[s] = <<Disconnect>> => serial'[s] = <<Disconnect, DeregisterLePsm>>
      BY AppendOne
    <2>3. ASSUME NEW i \in DOMAIN serial'[s]
          PROVE  /\ serial'[s][i].opcode # None
                 /\ serial'[s][i] \in {Disconnect, DeregisterLePsm} \/ board'.link = "down"
      BY <1>4, <1>5 DEF SideInv, SerialOK, Parting, Carry
    <2>4. Live(s)' => connected'[s]
      BY DEF Live
    <2> QED
      BY <1>6, <2>1, <2>2, <2>3, <2>4 DEF SerialOK, CleaningUp
  <1>9. ConfirmOK(s)'
    <2>1. Live(s)' => connected'[s]
      BY DEF Live
    <2>2. serial'[s] # << >>
      BY <1>2
    <2> QED
      BY <1>5, <1>6, <2>1, <2>2 DEF ConfirmOK, ConfirmsIn, CleaningUp, Own
  <1>10. ChannelOK(s)'
    BY DEF ChannelOK, Carry
  <1> QED
    BY <1>1, <1>7, <1>8, <1>9, <1>10 DEF SideInv, Carry

\* disconnect begins.
LEMMA Disconnecting ==
    ASSUME TypeOK, NEW s \in Side, SideInv(s), Carry(s),
           call'[s] = "disconnect", task'[s] = <<Disconnect, DeregisterLePsm>>,
           waiting'[s] = "confirm", serial'[s] = Append(serial[s], Disconnect),
           Parting(s), s \notin board.asking,
           connected'[s] => serial[s] = << >> /\ NoConfirm(s)'
    PROVE  SideInv(s)'
  <1>1. CallsOK(s)'
    BY DEF CallsOK
  <1>2. serial[s] \in Seq(Requests) /\ Disconnect \in Requests
    BY RequestKinds DEF TypeOK, Special
  <1>3. /\ DOMAIN serial[s] = 1 .. Len(serial[s]) /\ Len(serial[s]) \in Nat
        /\ DOMAIN serial'[s] = 1 .. Len(serial[s]) + 1
        /\ \A i \in DOMAIN serial[s] : serial'[s][i] = serial[s][i]
        /\ serial'[s][Len(serial[s]) + 1] = Disconnect
    BY <1>2, AppendAt
  <1>4. \A i \in DOMAIN serial'[s] :
           \/ i \in DOMAIN serial[s] /\ serial'[s][i] = serial[s][i]
           \/ serial'[s][i] = Disconnect
    BY <1>3
  <1>5. /\ DeregisterLePsm # Connect /\ Disconnect # Connect /\ Disconnect.opcode # None
    BY Fields DEF Special
  <1>6. /\ task'[s][1] = Disconnect /\ task'[s][2] = DeregisterLePsm /\ DOMAIN task'[s] = {1, 2}
        /\ Request(s)' = Disconnect
    BY DEF Request
  <1>7. ConnectsOnce(s)'
    BY <1>4, <1>5, <1>6 DEF SideInv, ConnectsOnce, Carry
  <1>8. SerialOK(s)'
    <2>1. serial[s] = << >> => serial'[s] = <<Disconnect>>
      OBVIOUS
    <2>3. ASSUME NEW i \in DOMAIN serial'[s]
          PROVE  /\ serial'[s][i].opcode # None
                 /\ serial'[s][i] \in {Disconnect, DeregisterLePsm} \/ board'.link = "down"
      BY <1>4, <1>5 DEF SideInv, SerialOK, Parting, Carry
    <2>4. Live(s)' => connected'[s]
      BY DEF Live
    <2> QED
      BY <1>6, <2>1, <2>3, <2>4 DEF SerialOK, CleaningUp
  <1>9. ConfirmOK(s)'
    <2>1. Live(s)' => connected'[s]
      BY DEF Live
    <2>2. serial'[s] # << >>
      BY <1>2
    <2> QED
      BY <2>1, <2>2 DEF ConfirmOK, ConfirmsIn, NoConfirm, Own
  <1>10. ChannelOK(s)'
    BY DEF ChannelOK, Carry
  <1> QED
    BY <1>1, <1>7, <1>8, <1>9, <1>10 DEF SideInv, Carry

\* The set-up makes its next request, with nothing of the last one left.
LEMMA Posing ==
    ASSUME TypeOK, NEW s \in Side, SideInv(s), Carry(s), NEW t,
           t \in Seq(Requests), Planned(t),
           call[s] = "setup", call'[s] = "setup", task'[s] = t,
           waiting'[s] = IF Head(t).opcode = None THEN "event" ELSE "confirm",
           serial[s] = << >>,
           serial'[s] = IF waiting'[s] = "confirm" THEN <<Head(t)>> ELSE << >>,
           Unopened(s), orphan'[s] = orphan[s], queue'[s] = queue[s],
           Whole(s) => Whole(s)',
           \A i \in DOMAIN t : t[i] = Connect =>
              /\ s = "device" /\ board.link = "none"
              /\ \A j \in DOMAIN t : t[j] = Connect => i = j,
           s \notin board.asking, ~board.open,
           \A i \in DOMAIN uart'[s] :
              uart'[s][i].opcode \notin {"CONFIRM", "CONNECTION_COMPLETE", "LE_CB_DATA"}
    PROVE  SideInv(s)'
  <1>1. CallsOK(s)'
    BY DEF CallsOK, SideInv, Unopened
  <1>2. Head(t) = t[1] /\ 1 \in DOMAIN t /\ Request(s)' = t[1]
    BY DEF Planned, Request
  <1>3. ConnectsOnce(s)'
    <2>1. \A i \in DOMAIN serial'[s] : serial'[s][i] = t[1]
      BY <1>2
    <2> QED
      BY <1>2, <2>1 DEF ConnectsOnce, Carry
  <1>4. SerialOK(s)'
    <2>1. ASSUME serial'[s] # << >> PROVE waiting'[s] = "confirm" /\ serial'[s] = <<Request(s)'>>
      BY <1>2, <2>1
    <2>2. \A i \in DOMAIN serial'[s] : serial'[s][i].opcode # None /\ serial'[s] # << >>
      BY <1>2
    <2> QED
      BY <2>1, <2>2 DEF SerialOK
  <1>5. ConfirmOK(s)'
    <2>1. waiting'[s] = "confirm" => serial'[s] # << >>
      OBVIOUS
    <2> QED
      BY <2>1 DEF ConfirmOK, ConfirmsIn, Own
  <1>6. ChannelOK(s)'
    <2>1. \A i \in DOMAIN uart'[s] : uart'[s][i] # ConnectionComplete
      BY Reported
    <2> QED
      BY <2>1 DEF ChannelOK, OpenedIn, Carry, Completes
  <1> QED
    BY <1>1, <1>3, <1>4, <1>5, <1>6 DEF SideInv, Carry

-----------------------------------------------------------------------------
(* Packets and data in a step of a side's host.                              *)

\* The host takes a packet from the line, or none.
Takes(s, m) == uart[s] # << >> /\ m = Head(uart[s]) /\ uart'[s] = Tail(uart[s])

\* What the host leaves alone.
Hosting(s) ==
    /\ board' = board /\ sent'[Other(s)] = sent[Other(s)]
    /\ Carried(Other(s))' = Carried(Other(s))

\* A packet that is taken, and what is left.
LEMMA Taken ==
    ASSUME TypeOK, NEW s \in Side, NEW m, Takes(s, m)
    PROVE  /\ uart[s] \in Seq(Messages) /\ uart'[s] \in Seq(Messages)
           /\ m \in Messages /\ Popped(uart[s], m, uart'[s])
  BY TailAt DEF TypeOK, Takes

\* What is left in the line was well-formed before.
LEMMA PacketsLeft ==
    ASSUME TypeOK, NEW s \in Side, SideInv(s), Hosting(s),
           uart'[s] = uart[s] \/ \E m : Takes(s, m)
    PROVE  PacketsOK(s)'
  <1>1. CASE uart'[s] = uart[s]
    BY <1>1 DEF SideInv, PacketsOK, Hosting
  <1>2. CASE \E m : Takes(s, m)
    <2>1. PICK m : Takes(s, m)
      BY <1>2
    <2>2. Popped(uart[s], m, uart'[s])
      BY <2>1, Taken
    <2>3. \A i \in DOMAIN uart'[s] : i + 1 \in DOMAIN uart[s] /\ uart'[s][i] = uart[s][i + 1]
      BY <2>2 DEF Popped
    <2> QED
      BY <2>3 DEF SideInv, PacketsOK, Hosting
  <1> QED
    BY <1>1, <1>2

\* A step that touches neither the queue nor what was sent and received.
LEMMA QueueLeft ==
    ASSUME NEW s \in Side, SideInv(s), Hosting(s), queue'[s] = queue[s],
           received'[s] = received[s], sent'[s] = sent[s]
    PROVE  QueueOK(s)'
  BY DEF SideInv, QueueOK, Hosting

\* What the data rests on.
Lengths(s) ==
    /\ Len(received[s]) \in Nat /\ Len(queue[s]) \in Nat /\ Gathered(s) \in Nat
    /\ received[s] \in Seq(Nat) /\ queue[s] \in Seq(Nat) /\ DOMAIN received[s] = 1 .. Len(received[s])

\* Lengths are numbers.
LEMMA LengthsOK ==
    ASSUME TypeOK, NEW s \in Side
    PROVE  Lengths(s)
  BY DEF TypeOK, Lengths, Gathered

\* A step that loses nothing for s, and makes neither a connection nor a queue.
Keeps(s) ==
    /\ Hosting(s) /\ (Whole(s)' => Whole(s)) /\ (Live(s)' => Live(s))
    /\ call[s] # "closed"

\* No data is taken, or none that is there.
LEMMA DataLeft ==
    ASSUME TypeOK, NEW s \in Side, SideInv(s), Keeps(s),
           \/ uart'[s] = uart[s]
           \/ \E m : Takes(s, m) /\ ~IsData(m),
           \/ queue'[s] = queue[s] /\ (call'[s] = "setup" => call[s] = "setup")
           \/ queue[s] = NoQueue /\ queue'[s] = << >> /\ call[s] = "setup",
           received'[s] = received[s]
    PROVE  DataOK(s)'
  <1>1. Gathered(s)' = Gathered(s)
    <2>1. << >> # NoQueue
      BY DEF NoQueue
    <2> QED
      BY <2>1 DEF Gathered
  <1>2. \A last \in Nat :
           InOrder(uart[s], Gathered(s), last) => InOrder(uart'[s], Gathered(s), last)
    <2>1. CASE uart'[s] = uart[s]
      BY <2>1
    <2>2. CASE \E m : Takes(s, m) /\ ~IsData(m)
      <3>1. PICK m : Takes(s, m) /\ ~IsData(m)
        BY <2>2
      <3>2. uart[s] \in Seq(Messages) /\ uart[s] # << >> /\ m = Head(uart[s]) /\ uart'[s] = Tail(uart[s])
        BY <3>1, Taken DEF Takes
      <3>3. Gathered(s) \in Nat
        BY LengthsOK DEF Lengths
      <3> QED
        BY <3>1, <3>2, <3>3, InOrderTail
    <2> QED
      BY <2>1, <2>2
  <1>3. CASE queue'[s] = queue[s] /\ (call'[s] = "setup" => call[s] = "setup")
    BY <1>1, <1>2, <1>3 DEF SideInv, DataOK, Keeps, Hosting, Up
  <1>4. CASE queue[s] = NoQueue /\ queue'[s] = << >> /\ call[s] = "setup"
    <2>1. \A i \in DOMAIN queue'[s] : queue'[s][i] = Len(received'[s]) + i
      BY <1>4
    <2> QED
      BY <1>1, <1>2, <1>4, <2>1 DEF SideInv, DataOK, Keeps, Hosting, Up
  <1> QED
    BY <1>3, <1>4

\* Data nobody waits for goes to the end of the queue.
LEMMA DataPushed ==
    ASSUME TypeOK, NEW s \in Side, SideInv(s), Keeps(s), NEW m, Takes(s, m), IsData(m),
           queue[s] # NoQueue, queue'[s] = Append(queue[s], m.n), received'[s] = received[s],
           sent'[s] = sent[s]
    PROVE  DataOK(s)' /\ QueueOK(s)' /\ queue'[s] # NoQueue
  <1>1. /\ uart[s] \in Seq(Messages) /\ uart[s] # << >> /\ m = Head(uart[s])
        /\ uart'[s] = Tail(uart[s]) /\ m \in Messages /\ Popped(uart[s], m, uart'[s])
    BY Taken DEF Takes
  <1>2. m.n \in 1 .. sent[Other(s)] /\ m.n \in Nat
    <2>1. 1 \in DOMAIN uart[s] /\ uart[s][1] = m
      BY <1>1 DEF Popped
    <2>2. m.n \in Nat
      BY <1>1 DEF Messages
    <2> QED
      BY <2>1, <2>2 DEF SideInv, PacketsOK, IsData
  <1>3. /\ Lengths(s)
        /\ queue[s] \in Seq(1 .. sent[Other(s)])
    BY LengthsOK DEF SideInv, QueueOK
  <1>4. queue'[s] \in Seq(1 .. sent[Other(s)])
    <2> DEFINE T == 1 .. sent[Other(s)]
    <2>1. m.n \in T /\ queue[s] \in Seq(T)
      BY <1>2, <1>3
    <2> HIDE DEF T
    <2>2. Append(queue[s], m.n) \in Seq(T)
      BY <2>1, AppendAt
    <2> QED
      BY <2>2 DEF T
  <1>5. /\ Len(queue'[s]) = Len(queue[s]) + 1 /\ DOMAIN queue'[s] = 1 .. Len(queue[s]) + 1
        /\ \A i \in DOMAIN queue[s] : queue'[s][i] = queue[s][i]
        /\ queue'[s][Len(queue[s]) + 1] = m.n
        /\ DOMAIN queue[s] = 1 .. Len(queue[s])
    <2>1. queue[s] \in Seq(Nat)
      BY <1>3 DEF Lengths
    <2> QED
      BY <1>2, <2>1, AppendAt
  <1>6. queue'[s] # NoQueue
    <2>1. queue'[s][Len(queue[s]) + 1] # 0
      BY <1>2, <1>5
    <2>2. CASE queue'[s] = <<0>>
      <3>1. Len(queue'[s]) = 1 /\ queue'[s][1] = 0
        BY <2>2
      <3> QED
        BY <1>3, <1>5, <2>1, <3>1 DEF Lengths
    <2> QED
      BY <2>2 DEF NoQueue
  <1>7. QueueOK(s)'
    <2>1. board.open \/ board.link = "down"
      BY DEF SideInv, QueueOK
    <2>2. sent'[Other(s)] = sent[Other(s)] /\ board' = board
      BY DEF Keeps, Hosting
    <2>3. queue'[s] \in Seq(1 .. sent'[Other(s)])
      BY <1>4, <2>2
    <2> QED
      BY <1>6, <2>1, <2>2, <2>3 DEF QueueOK
  <1>8. Gathered(s)' = Gathered(s) + 1 /\ Gathered(s) = Len(received[s]) + Len(queue[s])
    <2>1. Gathered(s) = Len(received[s]) + Len(queue[s])
      BY DEF Gathered
    <2>2. Gathered(s)' = Len(received[s]) + (Len(queue[s]) + 1)
      BY <1>5, <1>6 DEF Gathered
    <2>3. Len(received[s]) \in Nat /\ Len(queue[s]) \in Nat
      BY <1>3 DEF Lengths
    <2> QED
      BY <2>1, <2>2, <2>3, Sums
  <1>9. \A last \in Nat : InOrder(uart[s], Gathered(s), last) =>
            m.n = Gathered(s) + 1 /\ InOrder(uart'[s], Gathered(s) + 1, last)
    BY <1>1, <1>3, InOrderTail DEF Lengths
  <1>10. DataOK(s)'
    <2> SUFFICES ASSUME Whole(s)'
                 PROVE  /\ received'[s] = [i \in DOMAIN received'[s] |-> i]
                        /\ Live(s)' /\ call'[s] # "closed" =>
                              /\ \A i \in DOMAIN queue'[s] : queue'[s][i] = Len(received'[s]) + i
                              /\ \E last \in Nat :
                                    /\ Up' => last = Carried(Other(s))'
                                    /\ InOrder(uart'[s], Gathered(s)', last)
      BY DEF DataOK
    <2>1. received'[s] = [i \in DOMAIN received'[s] |-> i]
      BY DEF SideInv, DataOK, Keeps
    <2> SUFFICES ASSUME Live(s)'
                 PROVE  /\ \A i \in DOMAIN queue'[s] : queue'[s][i] = Len(received'[s]) + i
                        /\ \E last \in Nat :
                              /\ Up' => last = Carried(Other(s))'
                              /\ InOrder(uart'[s], Gathered(s)', last)
      BY <2>1
    <2>2. PICK last \in Nat : /\ Up => last = Carried(Other(s))
                              /\ InOrder(uart[s], Gathered(s), last)
      BY DEF SideInv, DataOK, Keeps
    <2>3. \A i \in DOMAIN queue[s] : queue[s][i] = Len(received[s]) + i
      BY DEF SideInv, DataOK, Keeps
    <2>4. m.n = Gathered(s) + 1 /\ InOrder(uart'[s], Gathered(s)', last)
      BY <1>8, <1>9, <2>2
    <2>5. \A i \in DOMAIN queue'[s] : i \in DOMAIN queue[s] \/ i = Len(queue[s]) + 1
      BY <1>3, <1>5 DEF Lengths
    <2>6. \A i \in DOMAIN queue'[s] : queue'[s][i] = Len(received'[s]) + i
      <3>1. m.n = Len(received[s]) + (Len(queue[s]) + 1)
        <4>1. Len(received[s]) \in Nat /\ Len(queue[s]) \in Nat
          BY <1>3 DEF Lengths
        <4>2. m.n = Len(received[s]) + Len(queue[s]) + 1
          BY <1>8, <2>4
        <4> QED
          BY <4>1, <4>2, Sums
      <3>2. \A i \in DOMAIN queue[s] : queue'[s][i] = Len(received[s]) + i
        BY <1>5, <2>3
      <3>3. queue'[s][Len(queue[s]) + 1] = Len(received[s]) + (Len(queue[s]) + 1)
        BY <1>5, <3>1
      <3> QED
        BY <2>5, <3>2, <3>3
    <2>7. Up' => last = Carried(Other(s))'
      BY <2>2 DEF Keeps, Hosting, Up
    <2> QED
      BY <2>4, <2>6, <2>7
  <1> QED
    BY <1>6, <1>7, <1>10

\* No sequence of positive numbers is NoQueue.
LEMMA NoZero ==
    ASSUME NEW T, 0 \notin T, NEW q \in Seq(T)
    PROVE  q # NoQueue
  <1>1. 1 \in DOMAIN NoQueue /\ NoQueue[1] = 0
    BY OneAt DEF NoQueue
  <1>2. \A i \in DOMAIN q : q[i] \in T
    OBVIOUS
  <1> QED
    BY <1>1, <1>2

\* Numbers counted from 1, and the next one.
LEMMA Counts ==
    ASSUME NEW q \in Seq(Nat), q = [i \in DOMAIN q |-> i]
    PROVE  Append(q, Len(q) + 1) = [i \in DOMAIN Append(q, Len(q) + 1) |-> i]
  <1> DEFINE w == Append(q, Len(q) + 1)
  <1>1. /\ w \in Seq(Nat) /\ DOMAIN w = 1 .. Len(q) + 1 /\ Len(q) \in Nat
        /\ \A i \in DOMAIN q : w[i] = q[i]
        /\ w[Len(q) + 1] = Len(q) + 1 /\ DOMAIN q = 1 .. Len(q)
    BY AppendAt
  <1> HIDE DEF w
  <1>2. \A i \in DOMAIN w : w[i] = i
    BY <1>1
  <1>3. w = [i \in DOMAIN w |-> w[i]]
    BY <1>1
  <1>4. w = [i \in DOMAIN w |-> i]
    BY <1>2, <1>3
  <1> QED
    BY <1>4 DEF w

\* get_message takes what comes while it waits.
LEMMA DataReceived ==
    ASSUME TypeOK, NEW s \in Side, SideInv(s), Keeps(s), NEW m, Takes(s, m), IsData(m),
           queue[s] = << >>, queue'[s] = queue[s], connected[s],
           received'[s] = Append(received[s], m.n)
    PROVE  DataOK(s)' /\ QueueOK(s)' /\ received'[s] \in Seq(1 .. sent[Other(s)])
  <1>1. /\ uart[s] \in Seq(Messages) /\ uart[s] # << >> /\ m = Head(uart[s])
        /\ uart'[s] = Tail(uart[s]) /\ m \in Messages /\ Popped(uart[s], m, uart'[s])
    BY Taken DEF Takes
  <1>2. m.n \in 1 .. sent[Other(s)] /\ m.n \in Nat
    <2>1. 1 \in DOMAIN uart[s] /\ uart[s][1] = m
      BY <1>1 DEF Popped
    <2>2. m.n \in Nat
      BY <1>1 DEF Messages
    <2> QED
      BY <2>1, <2>2 DEF SideInv, PacketsOK, IsData
  <1>3. Lengths(s) /\ received[s] \in Seq(1 .. sent[Other(s)]) /\ << >> # NoQueue
    BY LengthsOK DEF TypeOK, NoQueue
  <1>4. received'[s] \in Seq(1 .. sent[Other(s)])
    <2> DEFINE T == 1 .. sent[Other(s)]
    <2>1. m.n \in T /\ received[s] \in Seq(T)
      BY <1>2, <1>3
    <2> HIDE DEF T
    <2>2. Append(received[s], m.n) \in Seq(T)
      BY <2>1, AppendAt
    <2> QED
      BY <2>2 DEF T
  <1>5. Len(received'[s]) = Len(received[s]) + 1
    BY <1>2, <1>3, AppendAt DEF Lengths
  <1>6. QueueOK(s)'
    <2>1. queue'[s] \in Seq(1 .. sent'[Other(s)])
      OBVIOUS
    <2> QED
      BY <1>3, <2>1 DEF SideInv, QueueOK, Keeps, Hosting
  <1>7. Gathered(s)' = Gathered(s) + 1 /\ Gathered(s) = Len(received[s])
    <2>1. Len(queue[s]) = 0 /\ Len(queue'[s]) = 0
      OBVIOUS
    <2> QED
      BY <1>3, <1>5, <2>1 DEF Gathered, Lengths
  <1>8. \A last \in Nat : InOrder(uart[s], Gathered(s), last) =>
            m.n = Gathered(s) + 1 /\ InOrder(uart'[s], Gathered(s) + 1, last)
    BY <1>1, <1>3, InOrderTail DEF Lengths
  <1>9. DataOK(s)'
    <2> SUFFICES ASSUME Whole(s)'
                 PROVE  /\ received'[s] = [i \in DOMAIN received'[s] |-> i]
                        /\ \A i \in DOMAIN queue'[s] : queue'[s][i] = Len(received'[s]) + i
                        /\ \E last \in Nat :
                              /\ Up' => last = Carried(Other(s))'
                              /\ InOrder(uart'[s], Gathered(s)', last)
      BY DEF DataOK
    <2>1. PICK last \in Nat : /\ Up => last = Carried(Other(s))
                              /\ InOrder(uart[s], Gathered(s), last)
      BY <1>3 DEF SideInv, DataOK, Keeps, Live
    <2>2. m.n = Len(received[s]) + 1 /\ InOrder(uart'[s], Gathered(s)', last)
      BY <1>7, <1>8, <2>1
    <2>3. received[s] = [i \in DOMAIN received[s] |-> i]
      BY DEF SideInv, DataOK, Keeps
    <2>4. received'[s] = [i \in DOMAIN received'[s] |-> i]
      BY <1>3, <2>2, <2>3, Counts DEF Lengths
    <2>5. \A i \in DOMAIN queue'[s] : queue'[s][i] = Len(received'[s]) + i
      OBVIOUS
    <2>6. Up' => last = Carried(Other(s))'
      BY <2>1 DEF Keeps, Hosting, Up
    <2> QED
      BY <2>2, <2>4, <2>5, <2>6
  <1> QED
    BY <1>4, <1>6, <1>9

\* get_message takes what came before.
LEMMA DataTaken ==
    ASSUME TypeOK, NEW s \in Side, SideInv(s), Keeps(s), uart'[s] = uart[s], connected[s],
           queue[s] # << >>, queue[s] # NoQueue, queue'[s] = Tail(queue[s]),
           received'[s] = Append(received[s], Head(queue[s]))
    PROVE  DataOK(s)' /\ QueueOK(s)' /\ received'[s] \in Seq(1 .. sent[Other(s)])
  <1> DEFINE T == 1 .. sent[Other(s)]
             h == Head(queue[s])
  <1>1. queue[s] \in Seq(T) /\ received[s] \in Seq(T) /\ T \subseteq Nat /\ 0 \notin T
    BY DEF SideInv, QueueOK, TypeOK
  <1> HIDE DEF T
  <1>2. /\ queue'[s] \in Seq(T) /\ Popped(queue[s], h, queue'[s]) /\ h \in T
    BY <1>1, TailAt
  <1> HIDE DEF h
  <1>3. received'[s] = Append(received[s], h)
    BY DEF h
  <1>4. /\ received'[s] \in Seq(T) /\ Len(received'[s]) = Len(received[s]) + 1
        /\ Len(received[s]) \in Nat
    BY <1>1, <1>2, <1>3, AppendAt
  <1>5. queue'[s] # NoQueue
    BY <1>1, <1>2, NoZero
  <1>6. QueueOK(s)'
    <2>1. (board.open \/ board.link = "down") /\ board' = board /\ sent'[Other(s)] = sent[Other(s)]
      BY DEF SideInv, QueueOK, Keeps, Hosting
    <2>2. queue'[s] \in Seq(1 .. sent'[Other(s)])
      BY <1>2, <2>1 DEF T
    <2> QED
      BY <1>5, <2>1, <2>2 DEF QueueOK
  <1>7. Gathered(s)' = Gathered(s)
    <2>1. Gathered(s) = Len(received[s]) + Len(queue[s])
      BY DEF Gathered
    <2>2. Gathered(s)' = (Len(received[s]) + 1) + (Len(queue[s]) - 1)
      BY <1>2, <1>4, <1>5 DEF Gathered, Popped
    <2>3. \A a, b \in Nat : (a + 1) + (b - 1) = a + b
      OBVIOUS
    <2>4. Len(queue[s]) \in Nat
      BY <1>2 DEF Popped
    <2> QED
      BY <1>4, <2>1, <2>2, <2>3, <2>4
  <1>8. DataOK(s)'
    <2> SUFFICES ASSUME Whole(s)'
                 PROVE  /\ received'[s] = [i \in DOMAIN received'[s] |-> i]
                        /\ \A i \in DOMAIN queue'[s] : queue'[s][i] = Len(received'[s]) + i
                        /\ \E last \in Nat :
                              /\ Up' => last = Carried(Other(s))'
                              /\ InOrder(uart'[s], Gathered(s)', last)
      BY DEF DataOK
    <2>1. /\ \A i \in DOMAIN queue[s] : queue[s][i] = Len(received[s]) + i
          /\ received[s] = [i \in DOMAIN received[s] |-> i]
      BY DEF SideInv, DataOK, Keeps, Live
    <2>2. PICK last \in Nat : /\ Up => last = Carried(Other(s))
                              /\ InOrder(uart[s], Gathered(s), last)
      BY DEF SideInv, DataOK, Keeps, Live
    <2>3. h = Len(received[s]) + 1
      BY <1>2, <2>1 DEF Popped
    <2>4. received'[s] = [i \in DOMAIN received'[s] |-> i]
      <3>1. received[s] \in Seq(Nat)
        BY LengthsOK DEF Lengths
      <3> QED
        BY <1>3, <2>1, <2>3, <3>1, Counts
    <2>5. \A i \in DOMAIN queue'[s] : queue'[s][i] = Len(received'[s]) + i
      <3> SUFFICES ASSUME NEW i \in DOMAIN queue'[s]
                   PROVE  queue'[s][i] = Len(received'[s]) + i
        OBVIOUS
      <3>1. queue'[s][i] = Len(received[s]) + (i + 1) /\ i \in Nat
        BY <1>2, <2>1 DEF Popped
      <3>2. Len(received'[s]) = Len(received[s]) + 1 /\ Len(received[s]) \in Nat
        BY <1>4
      <3> QED
        BY <3>1, <3>2, Sums
    <2>6. Up' => last = Carried(Other(s))'
      BY <2>2 DEF Keeps, Hosting, Up
    <2> QED
      BY <1>7, <2>2, <2>4, <2>5, <2>6
  <1> QED
    BY <1>2, <1>4, <1>6, <1>8 DEF T

-----------------------------------------------------------------------------
(* What the actions do to the calls.                                         *)

\* The calls of the transport, and those that have nothing to do.
Calls == {"setup", "idle", "send", "receive", "disconnect", "closed", "broken"}
Quiet == {"idle", "closed", "broken"}

\* The part of TypeOK that is about the calls.
RunOK ==
    /\ call \in [Side -> Calls] /\ task \in [Side -> Seq(Requests)]
    /\ waiting \in [Side -> {"no", "confirm", "event"}] /\ serial \in [Side -> Seq(Requests)]
    /\ \A s \in Side : waiting[s] # "no" => task[s] # << >>
    /\ \A s \in Side : call[s] \in Quiet <=> task[s] = << >>

\* What s's call goes on with.
Turns(s, c, t) ==
    /\ call'[s] = c /\ task'[s] = t
    /\ waiting'[s] = IF t = << >> THEN "no" ELSE IF Head(t).opcode = None THEN "event" ELSE "confirm"
    /\ serial'[s] = IF waiting'[s] = "confirm" THEN Append(serial[s], Head(t)) ELSE serial[s]

\* The call of t goes on as before.
Apart(t) == /\ call'[t] = call[t] /\ task'[t] = task[t]
            /\ waiting'[t] = waiting[t] /\ serial'[t] = serial[t]

\* Types as they are used below.
LEMMA RunTypes ==
    ASSUME TypeOK
    PROVE  RunOK /\ queue \in [Side -> Seq(Nat)]
  BY DEF TypeOK, RunOK, Calls, Quiet

\* What Continues does.
LEMMA ContinuesRun ==
    ASSUME TypeOK, NEW s \in Side, NEW c \in Calls, NEW t \in Seq(Requests),
           c \in Quiet <=> t = << >>,
           call' = [call EXCEPT ![s] = c], Continues(s, t)
    PROVE  RunOK' /\ Turns(s, c, t) /\ Apart(Other(s))
  <1>1. /\ call \in [Side -> Calls] /\ task \in [Side -> Seq(Requests)]
        /\ waiting \in [Side -> {"no", "confirm", "event"}] /\ serial \in [Side -> Seq(Requests)]
        /\ \A o \in Side : waiting[o] # "no" => task[o] # << >>
        /\ \A o \in Side : call[o] \in Quiet <=> task[o] = << >>
    BY RunTypes DEF RunOK
  <1>2. Other(s) \in Side /\ Other(s) # s /\ \A o \in Side : o = s \/ o = Other(s)
    BY Sides
  <1> DEFINE w == IF t = << >> THEN "no" ELSE IF Head(t).opcode = None THEN "event" ELSE "confirm"
  <1>3. /\ call'[s] = c /\ call'[Other(s)] = call[Other(s)] /\ call' \in [Side -> Calls]
        /\ task'[s] = t /\ task'[Other(s)] = task[Other(s)] /\ task' \in [Side -> Seq(Requests)]
    BY <1>1, <1>2 DEF Continues
  <1>4. /\ waiting'[s] = w /\ waiting'[Other(s)] = waiting[Other(s)]
        /\ waiting' \in [Side -> {"no", "confirm", "event"}]
    <2>1. waiting' = [waiting EXCEPT ![s] = w]
      BY DEF Continues
    <2>2. w \in {"no", "confirm", "event"}
      OBVIOUS
    <2> HIDE DEF w
    <2> QED
      BY <1>1, <1>2, <2>1, <2>2
  <1>5. /\ serial' \in [Side -> Seq(Requests)] /\ serial'[Other(s)] = serial[Other(s)]
        /\ serial'[s] = IF waiting'[s] = "confirm" THEN Append(serial[s], Head(t)) ELSE serial[s]
    <2>1. CASE waiting'[s] = "confirm"
      <3>1. t # << >>
        BY <1>4, <2>1
      <3>2. Append(serial[s], Head(t)) \in Seq(Requests)
        BY <1>1, <3>1, TailAt, AppendAt
      <3>3. serial' = [serial EXCEPT ![s] = Append(serial[s], Head(t))]
        BY <2>1 DEF Continues
      <3> QED
        BY <1>1, <1>2, <2>1, <3>2, <3>3
    <2>2. CASE waiting'[s] # "confirm"
      BY <1>1, <2>2 DEF Continues
    <2> QED
      BY <2>1, <2>2
  <1>6. \A o \in Side : waiting'[o] # "no" => task'[o] # << >>
    BY <1>1, <1>2, <1>3, <1>4
  <1>7. \A o \in Side : call'[o] \in Quiet <=> task'[o] = << >>
    BY <1>1, <1>2, <1>3
  <1> QED
    BY <1>3, <1>4, <1>5, <1>6, <1>7 DEF RunOK, Turns, Apart

\* The requests of disconnect.
LEMMA DisconnectTasks ==
    /\ DisconnectTask(TRUE) = <<Disconnect, DeregisterLePsm>>
    /\ DisconnectTask(FALSE) = <<DeregisterLePsm>>
    /\ \A b \in BOOLEAN : DisconnectTask(b) \in Seq(Requests) \ {<< >>}
  <1> DEFINE e == Disconnect
             f == DeregisterLePsm
             a == <<e>>
             b == <<f>>
             w == a \o b
             v == <<e, f>>
  <1>1. e \in Requests /\ f \in Requests
    BY RequestKinds DEF Special
  <1>2. DisconnectTask(TRUE) = w /\ DisconnectTask(FALSE) = << >> \o b
    BY DEF DisconnectTask
  <1> HIDE DEF e, f
  <1>3. b \in Seq(Requests) /\ b # << >> /\ << >> \o b = b
    BY <1>1
  <1>4. v \in Seq(Requests) /\ Len(v) = 2 /\ v[1] = e /\ v[2] = f
    BY <1>1
  <1>5. /\ a \in Seq(Requests) /\ Len(a) = 1 /\ DOMAIN a = {1} /\ a[1] = e
        /\ Len(b) = 1 /\ DOMAIN b = {1} /\ b[1] = f
    BY <1>1, OneAt
  <1> HIDE DEF a, b, v
  <1>6. w \in Seq(Requests) /\ Joined(a, b, w)
    BY <1>3, <1>5, JoinAt
  <1> HIDE DEF w
  <1>7. Len(w) = 2 /\ w[1] = e /\ w[2] = f
    BY <1>5, <1>6 DEF Joined
  <1>8. \A i \in 1 .. 2 : w[i] = v[i]
    BY <1>4, <1>7
  <1>9. w = v
    BY <1>4, <1>6, <1>7, <1>8
  <1>10. v # << >>
    BY <1>1 DEF v
  <1> QED
    BY <1>2, <1>3, <1>4, <1>9, <1>10 DEF v, a, b, e, f

\* What RequestDone does.
LEMMA DoneRun ==
    ASSUME TypeOK, NEW s \in Side, waiting[s] # "no", RequestDone(s)
    PROVE  /\ RunOK' /\ Apart(Other(s))
           /\ queue' \in [Side -> Seq(Nat)] /\ queue'[Other(s)] = queue[Other(s)]
           /\ \/ /\ Refuses(s) /\ queue'[s] = queue[s]
                 /\ Turns(s, "disconnect", <<Disconnect, DeregisterLePsm>>)
              \/ /\ ~Refuses(s) /\ Len(task[s]) = 1
                 /\ queue'[s] = IF call[s] = "setup" THEN << >> ELSE queue[s]
                 /\ Turns(s, IF call[s] = "disconnect" THEN "closed" ELSE "idle", << >>)
              \/ /\ ~Refuses(s) /\ Len(task[s]) # 1 /\ queue'[s] = queue[s]
                 /\ Turns(s, call[s], Tail(task[s]))
  <1>1. /\ call \in [Side -> Calls] /\ task[s] \in Seq(Requests) /\ task[s] # << >>
        /\ call[s] \in Calls /\ call[s] \notin Quiet /\ queue \in [Side -> Seq(Nat)]
    BY RunTypes DEF RunOK
  <1>2. Other(s) \in Side /\ Other(s) # s
    BY Sides
  <1>3. CASE Refuses(s)
    <2>1. DisconnectTask(TRUE) = <<Disconnect, DeregisterLePsm>>
      BY DisconnectTasks
    <2>2. <<Disconnect, DeregisterLePsm>> \in Seq(Requests) \ {<< >>}
      BY RequestKinds DEF Special
    <2>3. Starts(s, "disconnect", <<Disconnect, DeregisterLePsm>>) /\ UNCHANGED queue
      BY <1>3, <2>1 DEF RequestDone
    <2>4. "disconnect" \in Calls /\ "disconnect" \notin Quiet
      BY DEF Calls, Quiet
    <2> QED
      BY <1>1, <1>3, <2>2, <2>3, <2>4, ContinuesRun DEF Starts
  <1>4. CASE ~Refuses(s) /\ Len(task[s]) = 1
    <2> DEFINE c == IF call[s] = "disconnect" THEN "closed" ELSE "idle"
    <2>1. Starts(s, c, << >>) /\ queue' = [queue EXCEPT ![s] = IF call[s] = "setup" THEN << >> ELSE @]
      BY <1>4 DEF RequestDone, Returns
    <2>2. c \in Calls /\ c \in Quiet /\ << >> \in Seq(Requests)
      BY DEF Calls, Quiet
    <2>3. RunOK' /\ Turns(s, c, << >>) /\ Apart(Other(s))
      BY <2>1, <2>2, ContinuesRun DEF Starts
    <2>4. /\ queue' \in [Side -> Seq(Nat)] /\ queue'[Other(s)] = queue[Other(s)]
          /\ queue'[s] = IF call[s] = "setup" THEN << >> ELSE queue[s]
      BY <1>1, <1>2, <2>1
    <2> QED
      BY <1>4, <2>3, <2>4
  <1>5. CASE ~Refuses(s) /\ Len(task[s]) # 1
    <2>1. Tail(task[s]) \in Seq(Requests) /\ Tail(task[s]) # << >>
      <3>1. Tail(task[s]) \in Seq(Requests) /\ Popped(task[s], Head(task[s]), Tail(task[s]))
        BY <1>1, TailAt
      <3>2. Len(Tail(task[s])) # 0
        BY <1>5, <3>1 DEF Popped
      <3>3. Len(<< >>) = 0
        OBVIOUS
      <3> QED
        BY <3>1, <3>2, <3>3
    <2>2. Continues(s, Tail(task[s])) /\ UNCHANGED <<call, queue>>
      BY <1>5 DEF RequestDone
    <2>3. call' = [call EXCEPT ![s] = call[s]]
      BY <1>1, <2>2
    <2> HIDE DEF Continues
    <2>4. RunOK' /\ Turns(s, call[s], Tail(task[s])) /\ Apart(Other(s))
      BY <1>1, <2>1, <2>2, <2>3, ContinuesRun
    <2> QED
      BY <1>1, <1>5, <2>2, <2>4
  <1> QED
    BY <1>3, <1>4, <1>5

\* What an exception does.
LEMMA RaisedRun ==
    ASSUME TypeOK, NEW s \in Side, waiting[s] # "no", Raises(s)
    PROVE  /\ RunOK' /\ Apart(Other(s)) /\ queue' = queue
           /\ \/ call[s] # "disconnect" /\ Turns(s, "idle", << >>)
              \/ /\ call[s] = "disconnect" /\ Request(s) = Disconnect
                 /\ Turns(s, "disconnect", <<DeregisterLePsm>>)
              \/ /\ call[s] = "disconnect" /\ Request(s) # Disconnect
                 /\ Turns(s, "broken", << >>)
  <1>1. << >> \in Seq(Requests) /\ "idle" \in Calls \cap Quiet /\ "broken" \in Calls \cap Quiet
    BY DEF Calls, Quiet
  <1>2. queue' = queue
    BY DEF Raises
  <1>3. CASE call[s] # "disconnect"
    BY <1>1, <1>2, <1>3, ContinuesRun DEF Raises, Starts
  <1>4. CASE call[s] = "disconnect" /\ Request(s) = Disconnect
    <2>1. <<DeregisterLePsm>> \in Seq(Requests) \ {<< >>}
      BY RequestKinds DEF Special
    <2>2. "disconnect" \in Calls /\ "disconnect" \notin Quiet
      BY DEF Calls, Quiet
    <2>3. Starts(s, "disconnect", <<DeregisterLePsm>>)
      BY <1>4 DEF Raises
    <2> QED
      BY <1>2, <1>4, <2>1, <2>2, <2>3, ContinuesRun DEF Starts
  <1>5. CASE call[s] = "disconnect" /\ Request(s) # Disconnect
    BY <1>1, <1>2, <1>5, ContinuesRun DEF Raises, Starts
  <1> QED
    BY <1>3, <1>4, <1>5

-----------------------------------------------------------------------------
(* The ways a call may go on after a message.                                *)

\* A step of s's host.
Mine(s) == board' = board /\ Untouched(Other(s)) /\ (sent'[s] = sent[s])

\* It leaves alone what the data of s rests on.
LEMMA MineHosting ==
    ASSUME NEW s \in Side, Mine(s)
    PROVE  Hosting(s)
  BY DEF Mine, Hosting, Untouched, Carried

\* The requests of each call.
LEMMA TaskOf ==
    ASSUME TypeOK, NEW s \in Side, SideInv(s), waiting[s] # "no"
    PROVE  /\ task[s] \in Seq(Requests) /\ task[s] # << >> /\ Request(s) = task[s][1]
           /\ Request(s) \in Requests /\ Popped(task[s], Request(s), Tail(task[s]))
           /\ call[s] \in {"setup", "send", "receive", "disconnect"}
           /\ call[s] = "send" => Request(s) = SendLeCbData /\ Len(task[s]) = 1
           /\ call[s] = "receive" => Request(s) = WaitForData /\ Len(task[s]) = 1
           /\ call[s] = "disconnect" =>
                 \/ Request(s) = Disconnect /\ Len(task[s]) = 2
                 \/ Request(s) = DeregisterLePsm /\ Len(task[s]) = 1 /\ CleaningUp(s)
           /\ call[s] = "setup" =>
                 /\ Planned(task[s])
                 /\ Len(task[s]) = 1 => Request(s) = ConnectLePsm
                 /\ Len(task[s]) # 1 => Preparing(Request(s)) /\ Request(s) \notin Special
  <1>1. /\ task[s] \in Seq(Requests) /\ task[s] # << >>
        /\ call[s] \in {"setup", "send", "receive", "disconnect"}
    BY RunTypes DEF RunOK, Calls, Quiet
  <1>2. Request(s) \in Requests /\ Popped(task[s], Request(s), Tail(task[s]))
    BY <1>1, TailAt DEF Request
  <1>3. Request(s) = task[s][1] /\ Len(task[s]) \in Nat \ {0}
    BY <1>2 DEF Popped
  <1>4. call[s] = "send" => Request(s) = SendLeCbData /\ Len(task[s]) = 1
    BY OneAt DEF SideInv, CallsOK, Request
  <1>5. call[s] = "receive" => Request(s) = WaitForData /\ Len(task[s]) = 1
    BY OneAt DEF SideInv, CallsOK, Request
  <1>6. call[s] = "disconnect" =>
                 \/ Request(s) = Disconnect /\ Len(task[s]) = 2
                 \/ Request(s) = DeregisterLePsm /\ Len(task[s]) = 1 /\ CleaningUp(s)
    <2>1. CASE task[s] = <<Disconnect, DeregisterLePsm>>
      BY <2>1, TwoAt DEF Request
    <2>2. CASE task[s] = <<DeregisterLePsm>>
      BY <2>2, OneAt DEF Request, CleaningUp
    <2> QED
      BY <2>1, <2>2 DEF SideInv, CallsOK
  <1>7. call[s] = "setup" => Planned(task[s])
    BY DEF SideInv, CallsOK
  <1>8. ASSUME call[s] = "setup", Len(task[s]) = 1 PROVE Request(s) = ConnectLePsm
    BY <1>3, <1>7, <1>8 DEF Planned
  <1>9. ASSUME call[s] = "setup", Len(task[s]) # 1
        PROVE  Preparing(Request(s)) /\ Request(s) \notin Special
    <2>1. 1 \in 1 .. Len(task[s]) - 1
      BY <1>2, <1>9, Shorter
    <2>2. Preparing(Request(s))
      BY <1>3, <1>7, <1>9, <2>1 DEF Planned
    <2> QED
      BY <2>2, Preparations
  <1> QED
    BY <1>1, <1>2, <1>3, <1>4, <1>5, <1>6, <1>7, <1>8, <1>9

\* An exception ends the call, or what disconnect was at.
LEMMA RaisedInv ==
    ASSUME TypeOK, NEW s \in Side, SideInv(s), Carry(s), waiting[s] # "no", Raises(s),
           Parting(s), s \notin board.asking, connected'[s] => connected[s],
           uart'[s] = uart[s] \/ \E m : Takes(s, m),
           connected'[s] /\ call[s] # "disconnect" => serial[s] = << >> /\ NoConfirm(s)'
    PROVE  SideInv(s)'
  <1>1. CASE call[s] # "disconnect" /\ Turns(s, "idle", << >>)
    BY <1>1, Idling DEF Turns
  <1>2. CASE /\ call[s] = "disconnect" /\ Request(s) = Disconnect
             /\ Turns(s, "disconnect", <<DeregisterLePsm>>)
    <2>1. Head(<<DeregisterLePsm>>) = DeregisterLePsm /\ <<DeregisterLePsm>> # << >>
      OBVIOUS
    <2>2. DeregisterLePsm.opcode # None /\ Disconnect # DeregisterLePsm /\ Disconnect.group = "GAP"
      BY Fields DEF Special
    <2>3. /\ call'[s] = "disconnect" /\ task'[s] = <<DeregisterLePsm>> /\ waiting'[s] = "confirm"
          /\ serial'[s] = Append(serial[s], DeregisterLePsm)
      BY <1>2, <2>1, <2>2 DEF Turns
    <2>4. ~CleaningUp(s)
      <3>1. task[s] = <<DeregisterLePsm>> => Request(s) = DeregisterLePsm
        BY DEF Request
      <3> QED
        BY <1>2, <2>2, <3>1 DEF CleaningUp
    <2>5. ASSUME connected'[s]
          PROVE  /\ serial[s] \in {<< >>, <<Disconnect>>}
                 /\ \A i \in DOMAIN uart[s] :
                       uart[s][i].opcode = "CONFIRM" => uart[s][i].group # "L2CAP"
      <3>1. Live(s) /\ ~Frozen(s)
        BY <1>2, <2>5 DEF Live, Frozen
      <3>2. serial[s] \in {<< >>, <<Disconnect>>}
        BY <1>2, <2>4, <3>1 DEF SideInv, SerialOK
      <3>3. \A i \in DOMAIN uart[s] :
                       uart[s][i].opcode = "CONFIRM" => uart[s][i].group # "L2CAP"
        BY <1>2, <2>2, <2>4, <3>1 DEF SideInv, ConfirmOK, ConfirmsIn, Own
      <3> QED
        BY <3>2, <3>3
    <2>6. \A i \in DOMAIN uart'[s] : \E j \in DOMAIN uart[s] : uart'[s][i] = uart[s][j]
      <3>1. CASE \E m : Takes(s, m)
        BY <3>1, Taken DEF Popped
      <3>2. CASE uart'[s] = uart[s]
        BY <3>2
      <3> QED
        BY <3>1, <3>2
    <2>7. connected'[s] =>
             \A i \in DOMAIN uart'[s] : uart'[s][i].opcode = "CONFIRM" => uart'[s][i].group # "L2CAP"
      BY <2>5, <2>6
    <2> QED
      BY <2>3, <2>5, <2>7, CleansUp
  <1>3. CASE call[s] = "disconnect" /\ Turns(s, "broken", << >>)
    BY <1>3, Freezing DEF Turns
  <1> QED
    BY <1>1, <1>2, <1>3, RaisedRun

\* A request that is done leads to the next, or ends the call.
LEMMA DoneInv ==
    ASSUME TypeOK, NEW s \in Side, SideInv(s), Carry(s), waiting[s] # "no", RequestDone(s),
           Parting(s), s \notin board.asking,
           call[s] = "disconnect" => Len(task[s]) = 1,
           connected'[s] /\ call[s] # "disconnect" => serial[s] = << >> /\ NoConfirm(s)',
           call[s] = "setup" /\ Len(task[s]) # 1 =>
              /\ serial[s] = << >> /\ ~board.open /\ Unopened(s) /\ orphan'[s] = orphan[s]
              /\ Whole(s) => Whole(s)'
              /\ \A i \in DOMAIN uart'[s] :
                    uart'[s][i].opcode \notin {"CONFIRM", "CONNECTION_COMPLETE", "LE_CB_DATA"}
    PROVE  SideInv(s)'
  <1>1. CASE Refuses(s) /\ Turns(s, "disconnect", <<Disconnect, DeregisterLePsm>>)
    <2> DEFINE t == <<Disconnect, DeregisterLePsm>>
    <2>1. Head(t) = Disconnect /\ t # << >>
      OBVIOUS
    <2>2. Disconnect.opcode # None
      BY Fields DEF Special
    <2>3. /\ call'[s] = "disconnect" /\ task'[s] = t /\ waiting'[s] = "confirm"
          /\ serial'[s] = Append(serial[s], Disconnect)
      BY <1>1, <2>1, <2>2 DEF Turns
    <2>4. call[s] = "setup"
      BY <1>1 DEF Refuses
    <2> QED
      BY <2>3, <2>4, Disconnecting
  <1>2. CASE Turns(s, IF call[s] = "disconnect" THEN "closed" ELSE "idle", << >>)
    <2>1. CASE call[s] = "disconnect"
      BY <1>2, <2>1, Freezing DEF Turns
    <2>2. CASE call[s] # "disconnect"
      BY <1>2, <2>2, Idling DEF Turns
    <2> QED
      BY <2>1, <2>2
  <1>3. CASE Len(task[s]) # 1 /\ queue'[s] = queue[s] /\ Turns(s, call[s], Tail(task[s]))
    <2> DEFINE t == Tail(task[s])
    <2>1. /\ call[s] = "setup" /\ Planned(task[s]) /\ Popped(task[s], Request(s), t)
          /\ task[s] \in Seq(Requests) /\ task[s] # << >>
      BY <1>3, TaskOf
    <2>2. t \in Seq(Requests)
      BY <2>1
    <2> HIDE DEF t
    <2>3. Planned(t)
      <3>1. t # << >> /\ Len(t) \in DOMAIN t /\ Len(t) + 1 = Len(task[s])
        BY <1>3, <2>1, Shorter
      <3>3. t[Len(t)] = ConnectLePsm
        BY <2>1, <3>1 DEF Popped, Planned
      <3>4. \A i \in 1 .. Len(t) - 1 :
               i \in DOMAIN t /\ t[i] = task[s][i + 1] /\ i + 1 \in 1 .. Len(task[s]) - 1
        BY <1>3, <2>1, Shorter
      <3> QED
        BY <2>1, <3>1, <3>3, <3>4 DEF Planned
    <2>4. ASSUME NEW i \in DOMAIN t, t[i] = Connect
          PROVE  /\ s = "device" /\ board.link = "none"
                 /\ \A j \in DOMAIN t : t[j] = Connect => i = j
      <3>1. \A j \in DOMAIN t : j + 1 \in DOMAIN task[s] /\ t[j] = task[s][j + 1] /\ j \in Nat
        BY <2>1 DEF Popped
      <3>2. i + 1 > 1
        BY <2>1 DEF Popped
      <3>3. \A j \in DOMAIN t : t[j] = Connect => i + 1 = j + 1
        BY <2>4, <3>1 DEF SideInv, ConnectsOnce
      <3>4. \A j \in DOMAIN t : t[j] = Connect => i = j
        BY <3>1, <3>3
      <3> QED
        BY <2>4, <3>1, <3>2, <3>4 DEF SideInv, ConnectsOnce
    <2>5. /\ call'[s] = "setup" /\ task'[s] = t
          /\ waiting'[s] = IF Head(t).opcode = None THEN "event" ELSE "confirm"
          /\ serial'[s] = IF waiting'[s] = "confirm" THEN Append(serial[s], Head(t)) ELSE serial[s]
      BY <1>3, <2>1, <2>3 DEF Turns, Planned, t
    <2>6. serial[s] = << >> /\ serial'[s] = IF waiting'[s] = "confirm" THEN <<Head(t)>> ELSE << >>
      BY <1>3, <2>1, <2>5, AppendNone
    <2> QED
      BY <1>3, <2>1, <2>2, <2>3, <2>4, <2>5, <2>6, Posing
  <1> QED
    BY <1>1, <1>2, <1>3, DoneRun

-----------------------------------------------------------------------------
(* A message is taken from the line: v is u without its first, m.             *)

\* The other CONFIRMs stay what they are.
LEMMA ConfirmsTail ==
    ASSUME NEW u, NEW m, NEW v, Popped(u, m, v), NEW q, NEW r, NEW w, NEW c, NEW whole,
           ConfirmsIn(u, q, r, w, c, whole), ~(w = "confirm" /\ Own(u, r, 1))
    PROVE  ConfirmsIn(v, q, r, w, c, whole)
  <1>1. /\ \A i \in DOMAIN v : i + 1 \in DOMAIN u /\ v[i] = u[i + 1] /\ i \in Nat
        /\ \A i \in DOMAIN u : i # 1 => i - 1 \in DOMAIN v /\ v[i - 1] = u[i]
    BY DEF Popped
  <1>2. \A i \in DOMAIN v : v[i].opcode = "CONFIRM" =>
          \/ w = "confirm" /\ Own(v, r, i) /\ q = << >>
          \/ c /\ v[i].group # "L2CAP"
    <2> SUFFICES ASSUME NEW i \in DOMAIN v, v[i].opcode = "CONFIRM"
                 PROVE  \/ w = "confirm" /\ Own(v, r, i) /\ q = << >>
                        \/ c /\ v[i].group # "L2CAP"
      OBVIOUS
    <2>1. i + 1 \in DOMAIN u /\ v[i] = u[i + 1]
      BY <1>1
    <2>2. \A j \in DOMAIN u : u[j].opcode = "CONFIRM" =>
             \/ w = "confirm" /\ Own(u, r, j) /\ q = << >>
             \/ c /\ u[j].group # "L2CAP"
      BY DEF ConfirmsIn
    <2>3. Own(u, r, i + 1) => Own(v, r, i)
      BY <2>1 DEF Own
    <2> QED
      BY <2>1, <2>2, <2>3
  <1>3. ASSUME w = "confirm", NEW i \in DOMAIN v, NEW j \in DOMAIN v, Own(v, r, i), Own(v, r, j)
        PROVE  i = j
    <2>1. i + 1 \in DOMAIN u /\ j + 1 \in DOMAIN u /\ Own(u, r, i + 1) /\ Own(u, r, j + 1)
      BY <1>1, <1>3 DEF Own
    <2>2. i + 1 = j + 1
      BY <1>3, <2>1 DEF ConfirmsIn
    <2> QED
      BY <1>1, <2>2
  <1>4. ASSUME w = "confirm", whole, q = << >>
        PROVE  \E i \in DOMAIN v : Own(v, r, i)
    <2>1. PICK i \in DOMAIN u : Own(u, r, i)
      BY <1>4 DEF ConfirmsIn
    <2>2. i # 1
      BY <1>4, <2>1
    <2>3. i - 1 \in DOMAIN v /\ Own(v, r, i - 1)
      BY <1>1, <2>1, <2>2 DEF Own
    <2> QED
      BY <2>3
  <1> QED
    BY <1>2, <1>3, <1>4 DEF ConfirmsIn

\* Once the CONFIRM has been read there is none, but of a Disconnect given up.
LEMMA ConfirmsTaken ==
    ASSUME NEW u, NEW m, NEW v, Popped(u, m, v), NEW q, NEW r, NEW c, NEW whole,
           ConfirmsIn(u, q, r, "confirm", c, whole), Own(u, r, 1)
    PROVE  \A i \in DOMAIN v : v[i].opcode = "CONFIRM" => c /\ v[i].group # "L2CAP"
  <1> SUFFICES ASSUME NEW i \in DOMAIN v, v[i].opcode = "CONFIRM"
               PROVE  c /\ v[i].group # "L2CAP"
    OBVIOUS
  <1>1. i + 1 \in DOMAIN u /\ v[i] = u[i + 1] /\ i \in Nat /\ i + 1 # 1 /\ 1 \in DOMAIN u
    BY DEF Popped
  <1>2. ~Own(u, r, i + 1)
    BY <1>1 DEF ConfirmsIn
  <1> QED
    BY <1>1, <1>2 DEF ConfirmsIn, Own

\* The answer is still to come.
LEMMA AnsweringTail ==
    ASSUME NEW u, NEW m, NEW v, Popped(u, m, v), NEW q, NEW r, NEW w, NEW p \in Nat,
           Answering(u, q, r, w, p + 1), ~(w = "confirm" /\ Own(u, r, 1))
    PROVE  Answering(v, q, r, w, p)
  <1>1. CASE w = "event"
    BY <1>1 DEF Answering
  <1>2. CASE w = "confirm"
    <2>1. PICK i \in DOMAIN u : i < p + 1 /\ Own(u, r, i) /\ u[i].ok
      BY <1>2 DEF Answering
    <2>2. i # 1 /\ i \in Nat
      BY <1>2, <2>1 DEF Popped
    <2>3. i - 1 \in DOMAIN v /\ v[i - 1] = u[i]
      BY <2>2 DEF Popped
    <2>4. i - 1 < p
      BY <2>1, <2>2
    <2> QED
      BY <1>2, <2>1, <2>3, <2>4 DEF Answering, Own
  <1> QED
    BY <1>1, <1>2 DEF Answering

\* Reading on, a side has still asked.
LEMMA AskedTail ==
    ASSUME NEW u, NEW m, NEW v, Popped(u, m, v), NEW q, NEW r, NEW w,
           AskedIn(u, q, r, w), ~(w = "confirm" /\ Own(u, r, 1))
    PROVE  AskedIn(v, q, r, w)
  <1>1. Len(v) + 1 + 1 = Len(u) + 1 /\ Len(v) + 1 \in Nat
    BY DEF Popped
  <1>2. Answering(v, q, r, w, Len(v) + 1)
    <2>1. Answering(u, q, r, w, Len(v) + 1 + 1)
      BY <1>1 DEF AskedIn
    <2> QED
      BY <1>1, <2>1, AnsweringTail
  <1>3. \A i \in DOMAIN v : ~Completes(v, i)
    BY DEF Popped, AskedIn, Completes
  <1> QED
    BY <1>2, <1>3 DEF AskedIn

\* Also once it has read the CONFIRM.
LEMMA AskedConfirmed ==
    ASSUME NEW u, NEW m, NEW v, Popped(u, m, v), NEW q, NEW r, NEW w, AskedIn(u, q, r, w)
    PROVE  AskedIn(v, q, r, "event")
  BY DEF Popped, AskedIn, Answering, Completes

\* Reading on, the end of the set-up is still to come.
LEMMA OpenedTail ==
    ASSUME NEW u, NEW m, NEW v, Popped(u, m, v), NEW q, NEW r, NEW w,
           OpenedIn(u, q, r, w), m.opcode # "CONNECTION_COMPLETE",
           ~(w = "confirm" /\ Own(u, r, 1))
    PROVE  OpenedIn(v, q, r, w)
  <1>1. /\ \A i \in DOMAIN v : i + 1 \in DOMAIN u /\ v[i] = u[i + 1] /\ i \in Nat
        /\ \A i \in DOMAIN u : i # 1 => i - 1 \in DOMAIN v /\ v[i - 1] = u[i]
        /\ \A i \in DOMAIN u : i \in Nat
        /\ u[1] = m
    BY DEF Popped
  <1>2. ASSUME NEW i \in DOMAIN v, NEW j \in DOMAIN v, Completes(v, i), Completes(v, j)
        PROVE  i = j
    <2>1. i + 1 = j + 1
      BY <1>1, <1>2 DEF OpenedIn, Completes
    <2> QED
      BY <1>1, <2>1
  <1>3. ASSUME NEW i \in DOMAIN v, Completes(v, i)
        PROVE  Answering(v, q, r, w, i)
    <2>1. Answering(u, q, r, w, i + 1) /\ i \in Nat
      BY <1>1, <1>3 DEF OpenedIn, Completes
    <2> QED
      BY <2>1, AnsweringTail
  <1>4. ASSUME NEW d \in DOMAIN v, v[d].opcode = "LE_CB_DATA"
        PROVE  \E i \in DOMAIN v : i < d /\ v[i] = ConnectionComplete
    <2>1. PICK i \in DOMAIN u : i < d + 1 /\ u[i] = ConnectionComplete
      BY <1>1, <1>4 DEF OpenedIn
    <2>2. i # 1
      BY <1>1, <2>1, Reported
    <2>3. i - 1 \in DOMAIN v /\ v[i - 1] = ConnectionComplete
      BY <1>1, <2>1, <2>2
    <2>4. i \in Nat /\ d \in Nat
      BY <1>1
    <2>5. i - 1 < d
      BY <2>1, <2>4
    <2> QED
      BY <2>3, <2>5
  <1> QED
    BY <1>2, <1>3, <1>4 DEF OpenedIn

\* Also once the CONFIRM has been read.
LEMMA OpenedConfirmed ==
    ASSUME NEW u, NEW m, NEW v, Popped(u, m, v), NEW q, NEW r,
           OpenedIn(u, q, r, "confirm"), m.opcode = "CONFIRM"
    PROVE  OpenedIn(v, q, r, "event")
  <1>1. /\ \A i \in DOMAIN v : i + 1 \in DOMAIN u /\ v[i] = u[i + 1] /\ i \in Nat
        /\ \A i \in DOMAIN u : i # 1 => i - 1 \in DOMAIN v /\ v[i - 1] = u[i]
        /\ \A i \in DOMAIN u : i \in Nat
        /\ u[1] = m
    BY DEF Popped
  <1>2. ASSUME NEW i \in DOMAIN v, NEW j \in DOMAIN v, Completes(v, i), Completes(v, j)
        PROVE  i = j
    <2>1. i + 1 = j + 1
      BY <1>1, <1>2 DEF OpenedIn, Completes
    <2> QED
      BY <1>1, <2>1
  <1>3. ASSUME NEW i \in DOMAIN v, Completes(v, i)
        PROVE  Answering(v, q, r, "event", i)
    BY <1>1, <1>3 DEF OpenedIn, Completes, Answering
  <1>4. ASSUME NEW d \in DOMAIN v, v[d].opcode = "LE_CB_DATA"
        PROVE  \E i \in DOMAIN v : i < d /\ v[i] = ConnectionComplete
    <2>1. PICK i \in DOMAIN u : i < d + 1 /\ u[i] = ConnectionComplete
      BY <1>1, <1>4 DEF OpenedIn
    <2>2. i # 1
      BY <1>1, <2>1, Reported
    <2>3. i - 1 \in DOMAIN v /\ v[i - 1] = ConnectionComplete
      BY <1>1, <2>1, <2>2
    <2>4. i \in Nat /\ d \in Nat
      BY <1>1
    <2>5. i - 1 < d
      BY <2>1, <2>4
    <2> QED
      BY <2>3, <2>5
  <1> QED
    BY <1>2, <1>3, <1>4 DEF OpenedIn

\* Once the answer has been read nothing of the channel is left.
LEMMA OpenedTaken ==
    ASSUME NEW u, NEW m, NEW v, Popped(u, m, v), NEW q, NEW r, NEW w,
           OpenedIn(u, q, r, w), m.opcode = "CONNECTION_COMPLETE"
    PROVE  /\ \A i \in DOMAIN v : v[i].opcode # "CONNECTION_COMPLETE"
           /\ m # ConnectionComplete =>
                 /\ \A i \in DOMAIN u : u[i] # ConnectionComplete
                 /\ \A i \in DOMAIN v : v[i].opcode # "LE_CB_DATA"
  <1>1. /\ \A i \in DOMAIN v : i + 1 \in DOMAIN u /\ v[i] = u[i + 1] /\ i \in Nat /\ i + 1 # 1
        /\ 1 \in DOMAIN u /\ u[1] = m
    BY DEF Popped
  <1>2. \A i \in DOMAIN u : Completes(u, i) => i = 1
    BY <1>1 DEF OpenedIn, Completes
  <1>3. ASSUME m # ConnectionComplete, NEW i \in DOMAIN u PROVE u[i] # ConnectionComplete
    BY <1>1, <1>2, <1>3, Reported DEF Completes
  <1>4. \A i \in DOMAIN v : v[i].opcode # "CONNECTION_COMPLETE"
    BY <1>1, <1>2 DEF Completes
  <1>5. ASSUME m # ConnectionComplete, NEW i \in DOMAIN v PROVE v[i].opcode # "LE_CB_DATA"
    BY <1>1, <1>3, <1>5 DEF OpenedIn
  <1> QED
    BY <1>3, <1>4, <1>5

-----------------------------------------------------------------------------
(* What a message that is read leaves s in.                                  *)

\* What the call does not wait for changes nothing for it.
LEMMA PassedInv ==
    ASSUME TypeOK, NEW s \in Side, SideInv(s), Carry(s), NEW m, Takes(s, m), Apart(s),
           connected'[s] = connected[s], timer'[s] = timer[s], orphan'[s] = orphan[s],
           sent'[s] = sent[s], Unopened(s),
           Whole(s)' <=> Whole(s), queue'[s] = NoQueue <=> queue[s] = NoQueue,
           call[s] = "receive" => queue'[s] = queue[s],
           ~(waiting[s] = "confirm" /\ Own(uart[s], Request(s), 1)),
           call[s] = "setup" => m.opcode # "CONNECTION_COMPLETE"
    PROVE  SideInv(s)'
  <1>1. Popped(uart[s], m, uart'[s])
    BY Taken
  <1>2. /\ Request(s)' = Request(s) /\ call'[s] = call[s] /\ task'[s] = task[s]
        /\ waiting'[s] = waiting[s] /\ serial'[s] = serial[s] /\ board' = board
        /\ (Live(s)' <=> Live(s)) /\ (Frozen(s)' <=> Frozen(s))
        /\ CleaningUp(s)' = CleaningUp(s) /\ Whole(s)' = Whole(s)
    BY DEF Apart, Request, Carry, Live, Frozen, CleaningUp, Whole
  <1>3. CallsOK(s)'
    BY <1>2 DEF SideInv, CallsOK, Unopened
  <1>4. ConnectsOnce(s)' /\ SerialOK(s)'
    BY <1>2 DEF SideInv, ConnectsOnce, SerialOK
  <1>5. ConfirmOK(s)'
    BY <1>1, <1>2, ConfirmsTail DEF SideInv, ConfirmOK
  <1>6. ChannelOK(s)'
    <2>1. s \in board.asking =>
             call[s] = "setup" /\ AskedIn(uart'[s], serial[s], Request(s), waiting[s])
      BY <1>1, AskedTail DEF SideInv, ChannelOK
    <2>2. call[s] = "setup" => OpenedIn(uart'[s], serial[s], Request(s), waiting[s])
      BY <1>1, OpenedTail DEF SideInv, ChannelOK
    <2>3. call[s] = "setup" /\ board.open => \E i \in DOMAIN uart'[s] : uart'[s][i] = ConnectionComplete
      <3> SUFFICES ASSUME call[s] = "setup", board.open
                   PROVE  \E i \in DOMAIN uart'[s] : uart'[s][i] = ConnectionComplete
        OBVIOUS
      <3>1. PICK i \in DOMAIN uart[s] : uart[s][i] = ConnectionComplete
        BY DEF SideInv, ChannelOK
      <3>2. i # 1
        BY <1>1, <3>1, Reported DEF Popped
      <3> QED
        BY <1>1, <3>1, <3>2 DEF Popped
    <2> QED
      BY <1>2, <2>1, <2>2, <2>3 DEF ChannelOK
  <1> QED
    BY <1>3, <1>4, <1>5, <1>6 DEF SideInv, Carry

\* After the CONFIRM the call waits for the event.
LEMMA ConfirmedInv ==
    ASSUME TypeOK, NEW s \in Side, SideInv(s), Carry(s), NEW m, Takes(s, m),
           waiting[s] = "confirm", Own(uart[s], Request(s), 1), Request(s).event # None,
           call'[s] = call[s], task'[s] = task[s], waiting'[s] = "event", serial'[s] = serial[s],
           connected'[s] = connected[s], timer'[s] = timer[s], orphan'[s] = orphan[s],
           sent'[s] = sent[s], queue'[s] = queue[s], Whole(s)' <=> Whole(s), Unopened(s)
    PROVE  SideInv(s)'
  <1>1. Popped(uart[s], m, uart'[s])
    BY Taken
  <1>2. /\ Request(s)' = Request(s) /\ board' = board
        /\ (Live(s)' <=> Live(s)) /\ (Frozen(s)' <=> Frozen(s))
    BY DEF Request, Carry, Live, Frozen
  <1>3. call[s] \in {"setup", "disconnect"} /\ ~CleaningUp(s)
    <2>1. Request(s) \notin {SendLeCbData, DeregisterLePsm}
      BY Fields
    <2>2. CleaningUp(s) => Request(s) = DeregisterLePsm
      BY DEF CleaningUp, Request
    <2>3. call[s] # "receive"
      BY DEF SideInv, CallsOK
    <2> QED
      BY <2>1, <2>2, <2>3, TaskOf
  <1>4. CallsOK(s)'
    BY <1>2, <1>3 DEF SideInv, CallsOK, CleaningUp, Unopened
  <1>5. ConnectsOnce(s)'
    BY <1>2 DEF SideInv, ConnectsOnce
  <1>6. Live(s) =>
           serial[s] = << >> /\ \A i \in DOMAIN uart'[s] : uart'[s][i].opcode # "CONFIRM"
    <2> SUFFICES ASSUME Live(s)
                 PROVE  serial[s] = << >> /\ \A i \in DOMAIN uart'[s] : uart'[s][i].opcode # "CONFIRM"
      OBVIOUS
    <2>1. ConfirmsIn(uart[s], serial[s], Request(s), "confirm", CleaningUp(s), Whole(s))
      BY <1>3 DEF SideInv, ConfirmOK, Frozen
    <2>2. \A i \in DOMAIN uart'[s] : uart'[s][i].opcode # "CONFIRM"
      BY <1>1, <1>3, <2>1, ConfirmsTaken
    <2>3. serial[s] = << >>
      BY <1>1, <1>3, <2>1 DEF ConfirmsIn, Popped, Own
    <2> QED
      BY <2>2, <2>3
  <1>7. SerialOK(s)'
    <2>1. ASSUME Live(s) PROVE SerialOK(s)'
      <3>1. serial'[s] = << >> /\ DOMAIN serial'[s] = {}
        BY <1>6, <2>1
      <3> QED
        BY <3>1 DEF SerialOK
    <2>2. ASSUME ~Live(s) PROVE SerialOK(s)'
      BY <1>2, <1>3, <2>2 DEF SideInv, SerialOK, Live
    <2> QED
      BY <2>1, <2>2
  <1>8. ConfirmOK(s)'
    BY <1>2, <1>6 DEF ConfirmOK, ConfirmsIn
  <1>9. ChannelOK(s)'
    <2>0. m.opcode = "CONFIRM"
      BY <1>1 DEF Own, Popped
    <2>1. s \in board.asking =>
             call[s] = "setup" /\ AskedIn(uart'[s], serial[s], Request(s), "event")
      BY <1>1, AskedConfirmed DEF SideInv, ChannelOK
    <2>2. call[s] = "setup" => OpenedIn(uart'[s], serial[s], Request(s), "event")
      BY <1>1, <2>0, OpenedConfirmed DEF SideInv, ChannelOK
    <2>3. call[s] = "setup" /\ board.open => \E i \in DOMAIN uart'[s] : uart'[s][i] = ConnectionComplete
      <3> SUFFICES ASSUME call[s] = "setup", board.open
                   PROVE  \E i \in DOMAIN uart'[s] : uart'[s][i] = ConnectionComplete
        OBVIOUS
      <3>1. PICK i \in DOMAIN uart[s] : uart[s][i] = ConnectionComplete
        BY DEF SideInv, ChannelOK
      <3>2. i # 1
        BY <1>1, <2>0, <3>1, Reported DEF Popped
      <3> QED
        BY <1>1, <3>1, <3>2 DEF Popped
    <2> QED
      BY <1>2, <2>1, <2>2, <2>3 DEF ChannelOK
  <1> QED
    BY <1>4, <1>5, <1>7, <1>8, <1>9 DEF SideInv, Carry

\* A request for the channel has lapsed: connect_le_psm sleeps.
LEMMA LapsedInv ==
    ASSUME TypeOK, NEW s \in Side, SideInv(s), Carry(s), NEW m, Takes(s, m),
           waiting[s] = "event", call[s] = "setup", Request(s) = ConnectLePsm,
           m.opcode = "CONNECTION_COMPLETE", m # ConnectionComplete,
           call'[s] = call[s], task'[s] = task[s], waiting'[s] = "no", serial'[s] = serial[s],
           connected'[s] = connected[s], orphan'[s] = orphan[s],
           queue'[s] = queue[s], Whole(s)' <=> Whole(s), Unopened(s)
    PROVE  SideInv(s)'
  <1>1. Popped(uart[s], m, uart'[s])
    BY Taken
  <1>2. Request(s)' = Request(s) /\ board' = board /\ Live(s) /\ ~Frozen(s) /\ ~CleaningUp(s)
    BY DEF Request, Carry, Live, Frozen, CleaningUp
  <1>3. CallsOK(s)'
    BY <1>2 DEF SideInv, CallsOK, Unopened
  <1>4. ConnectsOnce(s)'
    <2>1. task[s][1] # Connect
      BY TaskOf, Fields DEF Special
    <2>2. \A i \in DOMAIN task[s] : i > 1 \/ i = 1
      BY TaskOf DEF Popped
    <2> QED
      BY <1>2, <2>1, <2>2 DEF SideInv, ConnectsOnce
  <1>5. serial[s] = << >> /\ \A i \in DOMAIN uart[s] : uart[s][i].opcode # "CONFIRM"
    BY <1>2 DEF SideInv, SerialOK, ConfirmOK, ConfirmsIn
  <1>6. SerialOK(s)'
    <2>1. serial'[s] = << >> /\ DOMAIN serial'[s] = {}
      BY <1>5
    <2> QED
      BY <2>1 DEF SerialOK
  <1>7. ConfirmOK(s)'
    <2>1. \A i \in DOMAIN uart'[s] : uart'[s][i].opcode # "CONFIRM"
      BY <1>1, <1>5 DEF Popped
    <2> QED
      BY <2>1 DEF ConfirmOK, ConfirmsIn
  <1>8. ChannelOK(s)'
    <2>1. OpenedIn(uart[s], serial[s], Request(s), waiting[s])
      BY DEF SideInv, ChannelOK
    <2>2. /\ \A i \in DOMAIN uart'[s] : uart'[s][i].opcode # "CONNECTION_COMPLETE"
          /\ \A i \in DOMAIN uart[s] : uart[s][i] # ConnectionComplete
          /\ \A i \in DOMAIN uart'[s] : uart'[s][i].opcode # "LE_CB_DATA"
      BY <1>1, <2>1, OpenedTaken
    <2>3. ~board.open
      BY <2>2 DEF SideInv, ChannelOK
    <2>4. s \notin board.asking
      BY <1>1 DEF SideInv, ChannelOK, AskedIn, Completes, Popped
    <2> QED
      BY <1>2, <2>2, <2>3, <2>4 DEF ChannelOK, OpenedIn, Completes
  <1> QED
    BY <1>3, <1>4, <1>6, <1>7, <1>8 DEF SideInv, Carry

-----------------------------------------------------------------------------
(* wait_for_message: each thing it may do with message m.                    *)

\* The host of s takes m from the line.
Looks(s, m) ==
    /\ waiting[s] # "no" /\ Takes(s, m) /\ uart' = [uart EXCEPT ![s] = Tail(@)]
    /\ channel'[Other(s)] = channel[Other(s)] /\ enabled'[Other(s)] = enabled[Other(s)]
    /\ UNCHANGED <<timeout, timer, orphan, board, sent>>

\* The channel is there when the message that says so has been read.
Opens(s, m) ==
    /\ channel'[s] = (channel[s] \/ m = ConnectionComplete)
    /\ enabled'[s] = (enabled[s] \/ m = ConnectionComplete)

\* Nothing else opens it.
LEMMA UnopenedLeft ==
    ASSUME NEW s \in Side, SideInv(s), NEW m, Opens(s, m),
           call'[s] = "setup" => call[s] = "setup" /\ m # ConnectionComplete
    PROVE  Unopened(s)
  BY DEF SideInv, CallsOK, Opens, Unopened

\* A step that keeps s's data where it is.
LEMMA CarryLeft ==
    ASSUME TypeOK, NEW s \in Side, SideInv(s), Mine(s),
           \/ uart'[s] = uart[s]
           \/ \E m : Takes(s, m) /\ ~IsData(m),
           queue'[s] = queue[s], received'[s] = received[s], Whole(s)' => Whole(s),
           Live(s)' => Live(s), call[s] # "closed", call'[s] = "setup" => call[s] = "setup"
    PROVE  Carry(s)
  <1>1. Hosting(s) /\ Keeps(s)
    BY MineHosting DEF Keeps
  <1>2. PacketsOK(s)'
    BY <1>1, PacketsLeft
  <1>3. QueueOK(s)'
    BY <1>1, QueueLeft DEF Mine
  <1>4. DataOK(s)'
    BY <1>1, DataLeft
  <1> QED
    BY <1>2, <1>3, <1>4 DEF Carry, Mine

\* The types of what a read changes.
LEMMA LookTypes ==
    ASSUME TypeOK, NEW s \in Side, NEW m, Looks(s, m), RunOK', queue' \in [Side -> Seq(Nat)],
           connected' \in [Side -> BOOLEAN], channel' \in [Side -> BOOLEAN],
           enabled' \in [Side -> BOOLEAN], missed' \in [Side -> SUBSET {"packet", "write"}],
           received' \in [Side -> Seq(Nat)],
           \A t \in Side : received'[t] \in Seq(1 .. sent[Other(t)])
    PROVE  TypeOK'
  <1>1. uart' \in [Side -> Seq(Messages)]
    BY Taken DEF TypeOK, Looks, Takes
  <1>2. \A t \in Side : sent'[t] <= MaxSends[t] /\ received'[t] \in Seq(1 .. sent'[Other(t)])
    BY DEF TypeOK, Looks
  <1>3. /\ timeout' \in [Side -> BOOLEAN] /\ timer' \in [Side -> BOOLEAN]
        /\ orphan' \in [Side -> BOOLEAN] /\ sent' \in [Side -> Nat]
        /\ board' \in [link : {"none", "up", "down"}, open : BOOLEAN, asking : SUBSET Side,
                       lapses : 0 .. MaxLapses, scanning : BOOLEAN, advertising : BOOLEAN]
    BY DEF TypeOK, Looks
  <1> QED
    BY <1>1, <1>2, <1>3 DEF TypeOK, RunOK, Calls, Quiet

\* The other side has no part in a read.
LEMMA LookMine ==
    ASSUME TypeOK, NEW s \in Side, NEW m, Looks(s, m), Apart(Other(s)),
           connected'[Other(s)] = connected[Other(s)], queue'[Other(s)] = queue[Other(s)],
           received'[Other(s)] = received[Other(s)], missed'[Other(s)] = missed[Other(s)]
    PROVE  Mine(s)
  <1>1. Other(s) \in Side /\ Other(s) # s
    BY Sides
  <1>2. uart'[Other(s)] = uart[Other(s)]
    BY <1>1 DEF TypeOK, Looks
  <1> QED
    BY <1>2 DEF Mine, Untouched, Apart, Looks

\* The end of the connection.
LEMMA DropInv ==
    ASSUME TypeOK, BoardOK, NEW s \in Side, SideInv(s), Looks(s, Disconnected), Drops(s)
    PROVE  TypeOK' /\ SideInv(s)' /\ Mine(s)
  <1>0. Other(s) \in Side /\ Other(s) # s /\ waiting[s] # "no" /\ Takes(s, Disconnected)
    BY Sides DEF Looks
  <1>1. RunOK' /\ Apart(Other(s)) /\ queue' = queue
    BY <1>0, RaisedRun DEF Drops
  <1>2. call'[s] \in {"idle", "disconnect", "broken"}
    BY <1>0, RaisedRun DEF Drops, Turns
  <1>3. /\ connected' \in [Side -> BOOLEAN] /\ channel' \in [Side -> BOOLEAN]
        /\ enabled' \in [Side -> BOOLEAN] /\ connected'[s] = FALSE
        /\ connected'[Other(s)] = connected[Other(s)] /\ received' = received /\ missed' = missed
    BY <1>0 DEF TypeOK, Drops
  <1>4. TypeOK'
    <2>1. queue \in [Side -> Seq(Nat)] /\ received \in [Side -> Seq(Nat)]
          /\ missed \in [Side -> SUBSET {"packet", "write"}]
          /\ \A t \in Side : received[t] \in Seq(1 .. sent[Other(t)])
      BY DEF TypeOK
    <2> QED
      BY <1>1, <1>3, <2>1, LookTypes
  <1>5. Mine(s)
    BY <1>1, <1>3, LookMine
  <1>6. ~IsData(Disconnected) /\ call[s] # "closed"
    BY <1>0, Reported, TaskOf DEF IsData
  <1>7. ~Live(s)' /\ (Whole(s)' => Whole(s))
    BY <1>2, <1>3 DEF Live, Whole
  <1>8. Carry(s)
    BY <1>0, <1>1, <1>2, <1>3, <1>5, <1>6, <1>7, CarryLeft
  <1>9. board.link = "down"
    <2>1. 1 \in DOMAIN uart[s] /\ uart[s][1] = Disconnected
      BY <1>0, Taken DEF Popped
    <2> QED
      BY <2>1, Reported DEF SideInv, PacketsOK
  <1>10. Parting(s) /\ s \notin board.asking
    BY <1>9 DEF Parting, BoardOK, Up
  <1>11. SideInv(s)'
    <2>1. Raises(s)
      BY DEF Drops
    <2> QED
      BY <1>0, <1>3, <1>8, <1>10, <2>1, RaisedInv
  <1> QED
    BY <1>4, <1>5, <1>11

\* Before its last request the set-up has nothing of the channel.
LEMMA NotYet ==
    ASSUME NEW s \in Side, SideInv(s), call[s] = "setup",
           \/ Request(s) # ConnectLePsm
           \/ waiting[s] = "no"
    PROVE  /\ ~board.open /\ s \notin board.asking
           /\ \A i \in DOMAIN uart[s] : uart[s][i].opcode \notin {"CONNECTION_COMPLETE", "LE_CB_DATA"}
  <1>1. \A p : ~Answering(uart[s], serial[s], Request(s), waiting[s], p)
    BY DEF Answering
  <1>2. \A i \in DOMAIN uart[s] : ~Completes(uart[s], i)
    BY <1>1 DEF SideInv, ChannelOK, OpenedIn
  <1>3. \A i \in DOMAIN uart[s] : uart[s][i] # ConnectionComplete
    BY <1>2, Reported DEF Completes
  <1>4. \A i \in DOMAIN uart[s] : uart[s][i].opcode # "LE_CB_DATA"
    BY <1>3 DEF SideInv, ChannelOK, OpenedIn
  <1>5. ~board.open /\ s \notin board.asking
    BY <1>1, <1>3 DEF SideInv, ChannelOK, AskedIn
  <1> QED
    BY <1>2, <1>4, <1>5 DEF Completes

\* wait_for_confirm takes the CONFIRM.
LEMMA ConfirmInv ==
    ASSUME TypeOK, BoardOK, NEW s \in Side, SideInv(s), NEW m, Looks(s, m),
           Awaited(s, m), Confirms(s, m), missed' = missed,
           channel' \in [Side -> BOOLEAN], enabled' \in [Side -> BOOLEAN], Opens(s, m)
    PROVE  TypeOK' /\ SideInv(s)' /\ Mine(s)
  <1>0. /\ Other(s) \in Side /\ Other(s) # s /\ waiting[s] = "confirm" /\ Takes(s, m)
        /\ connected' = connected /\ received' = received
    BY Sides DEF Looks, Confirms
  <1>1. /\ Popped(uart[s], m, uart'[s]) /\ m.opcode = "CONFIRM"
        /\ Own(uart[s], Request(s), 1) /\ 1 \in DOMAIN uart[s] /\ m = uart[s][1]
    <2>1. Popped(uart[s], m, uart'[s])
      BY <1>0, Taken
    <2> QED
      BY <1>0, <2>1 DEF Awaited, Own, Popped
  <1>2. /\ queue \in [Side -> Seq(Nat)] /\ received' \in [Side -> Seq(Nat)]
        /\ missed' \in [Side -> SUBSET {"packet", "write"}] /\ connected' \in [Side -> BOOLEAN]
        /\ \A t \in Side : received'[t] \in Seq(1 .. sent[Other(t)])
    BY <1>0 DEF TypeOK
  <1>3. /\ CleaningUp(s) => Request(s) = DeregisterLePsm
        /\ ~Frozen(s) /\ call[s] # "closed" /\ ~IsData(m)
    BY <1>0, <1>1, TaskOf DEF CleaningUp, Request, Frozen, IsData
  <1>4. Live(s) => serial[s] = << >>
    <2>1. ASSUME Live(s), CleaningUp(s) PROVE m.group = "L2CAP"
      BY <1>1, <1>3, <2>1, Fields DEF Own
    <2> QED
      BY <1>1, <1>3, <2>1 DEF SideInv, ConfirmOK, ConfirmsIn
  <1>5. Live(s) /\ ~CleaningUp(s) => NoConfirm(s)'
    <2> SUFFICES ASSUME Live(s), ~CleaningUp(s)
                 PROVE  \A i \in DOMAIN uart'[s] : uart'[s][i].opcode # "CONFIRM"
      BY DEF NoConfirm
    <2>1. ConfirmsIn(uart[s], serial[s], Request(s), "confirm", CleaningUp(s), Whole(s))
      BY <1>0, <1>3 DEF SideInv, ConfirmOK
    <2> QED
      BY <1>1, <2>1, ConfirmsTaken
  <1>6. Parting(s)
    <2>1. ASSUME NEW i \in DOMAIN serial[s], call[s] \in {"setup", "send"}
          PROVE  FALSE
      <3>1. Live(s)
        BY <2>1 DEF SideInv, CallsOK, Live
      <3> QED
        BY <1>4, <2>1, <3>1
    <2> QED
      BY <2>1 DEF SideInv, SerialOK, Parting
  <1>7. s \in board.asking => m.ok /\ Request(s) = ConnectLePsm
    <2> SUFFICES ASSUME s \in board.asking PROVE m.ok /\ Request(s) = ConnectLePsm
      OBVIOUS
    <2>1. call[s] = "setup" /\ Answering(uart[s], serial[s], Request(s), waiting[s], Len(uart[s]) + 1)
      BY DEF SideInv, ChannelOK, AskedIn
    <2>2. PICK c \in DOMAIN uart[s] : Own(uart[s], Request(s), c) /\ uart[s][c].ok
      BY <1>0, <2>1 DEF Answering
    <2>3. c = 1
      BY <1>0, <1>1, <1>3, <2>1, <2>2 DEF SideInv, ConfirmOK, ConfirmsIn, Live
    <2> QED
      BY <1>1, <2>1, <2>2, <2>3 DEF Answering
  <1>8. \A i \in DOMAIN uart'[s] : \E j \in DOMAIN uart[s] : uart'[s][i] = uart[s][j]
    BY <1>1 DEF Popped
  <1>9. connected'[s] /\ call[s] # "disconnect" => serial[s] = << >> /\ NoConfirm(s)'
    BY <1>0, <1>4, <1>5 DEF Live, CleaningUp
  <1>10. Whole(s)' <=> Whole(s)
    BY DEF Whole
  <1>11. (call'[s] = "setup" => call[s] = "setup") => Unopened(s)
    BY <1>1, Reported, UnopenedLeft
  <1>12. CASE ~m.ok
    <2>1. Raises(s)
      BY <1>0, <1>12 DEF Confirms
    <2>2. /\ RunOK' /\ Apart(Other(s)) /\ queue' = queue
          /\ call'[s] \in {"idle", "disconnect", "broken"}
      BY <1>0, <2>1, RaisedRun DEF Turns
    <2>3. TypeOK'
      BY <1>2, <2>2, LookTypes
    <2>4. Mine(s)
      BY <1>0, <2>2, LookMine
    <2>5. Live(s)' => Live(s)
      BY <1>0, <2>2 DEF Live
    <2>6. Carry(s)
      BY <1>0, <1>3, <1>10, <2>2, <2>4, <2>5, CarryLeft
    <2>7. SideInv(s)'
      BY <1>0, <1>6, <1>7, <1>9, <1>12, <2>1, <2>6, RaisedInv
    <2> QED
      BY <2>3, <2>4, <2>7
  <1>13. CASE m.ok /\ Request(s).event = None
    <2>1. RequestDone(s)
      BY <1>0, <1>13 DEF Confirms
    <2>2. Request(s) # ConnectLePsm /\ Request(s) # Disconnect
      BY <1>13, Fields
    <2>3. /\ RunOK' /\ Apart(Other(s)) /\ queue' \in [Side -> Seq(Nat)]
          /\ queue'[Other(s)] = queue[Other(s)]
      BY <1>0, <2>1, DoneRun
    <2>4. /\ queue'[s] = queue[s]
          /\ call'[s] = "setup" => call[s] = "setup"
      <3>1. ~(Len(task[s]) = 1 /\ call[s] = "setup")
        BY <1>0, <2>2, TaskOf
      <3> QED
        BY <1>0, <2>1, <3>1, DoneRun DEF Turns
    <2>5. TypeOK'
      BY <1>2, <2>3, LookTypes
    <2>6. Mine(s)
      BY <1>0, <2>3, LookMine
    <2>7. Live(s)' => Live(s)
      BY <1>0, <2>4 DEF Live
    <2>8. Carry(s)
      BY <1>0, <1>3, <1>10, <2>4, <2>6, <2>7, CarryLeft
    <2>9. call[s] = "disconnect" => Len(task[s]) = 1
      BY <1>0, <2>2, TaskOf
    <2>10. ASSUME call[s] = "setup"
           PROVE  /\ serial[s] = << >> /\ ~board.open /\ Unopened(s) /\ orphan'[s] = orphan[s]
                  /\ \A i \in DOMAIN uart'[s] :
                        uart'[s][i].opcode \notin {"CONFIRM", "CONNECTION_COMPLETE", "LE_CB_DATA"}
      <3>1. /\ ~board.open
            /\ \A i \in DOMAIN uart[s] :
                  uart[s][i].opcode \notin {"CONNECTION_COMPLETE", "LE_CB_DATA"}
        BY <2>2, <2>10, NotYet
      <3>2. serial[s] = << >> /\ \A i \in DOMAIN uart'[s] : uart'[s][i].opcode # "CONFIRM"
        BY <1>4, <1>5, <2>10 DEF Live, CleaningUp, NoConfirm
      <3>3. Unopened(s) /\ orphan' = orphan
        BY <1>11, <2>10 DEF Looks
      <3> QED
        BY <1>8, <3>1, <3>2, <3>3
    <2>11. SideInv(s)'
      BY <1>0, <1>6, <1>7, <1>9, <1>10, <2>1, <2>2, <2>8, <2>9, <2>10, DoneInv
    <2> QED
      BY <2>5, <2>6, <2>11
  <1>14. CASE m.ok /\ Request(s).event # None
    <2>1. /\ waiting' = [waiting EXCEPT ![s] = "event"]
          /\ call' = call /\ task' = task /\ serial' = serial /\ queue' = queue
      BY <1>0, <1>14 DEF Confirms
    <2>2. /\ waiting'[s] = "event" /\ waiting'[Other(s)] = waiting[Other(s)]
          /\ \A t \in Side : waiting'[t] # "no" => waiting[t] # "no"
          /\ waiting' \in [Side -> {"no", "confirm", "event"}]
      BY <1>0, <2>1 DEF TypeOK
    <2>3. RunOK'
      BY <2>1, <2>2, RunTypes DEF RunOK
    <2>4. TypeOK'
      BY <1>2, <2>1, <2>3, LookTypes
    <2>5. Mine(s)
      <3>1. Apart(Other(s))
        BY <2>1, <2>2 DEF Apart
      <3> QED
        BY <1>0, <2>1, <3>1, LookMine
    <2>6. Live(s)' => Live(s)
      BY <1>0, <2>1 DEF Live
    <2>7. Carry(s)
      BY <1>0, <1>3, <1>10, <2>1, <2>5, <2>6, CarryLeft
    <2>8. timer' = timer /\ orphan' = orphan /\ sent' = sent
      BY DEF Looks
    <2>9. Unopened(s)
      BY <1>11, <2>1
    <2>10. SideInv(s)'
      BY <1>0, <1>1, <1>10, <1>14, <2>1, <2>2, <2>7, <2>8, <2>9, ConfirmedInv
    <2> QED
      BY <2>4, <2>5, <2>10
  <1> QED
    BY <1>12, <1>13, <1>14

\* The first message, and what SideInv says of it.
LEMMA LookFirst ==
    ASSUME TypeOK, NEW s \in Side, SideInv(s), NEW m, Takes(s, m)
    PROVE  /\ Popped(uart[s], m, uart'[s]) /\ 1 \in DOMAIN uart[s] /\ m = uart[s][1]
           /\ IsData(m) => m.ok /\ m.group = "L2CAP" /\ m.n \in Nat
           /\ m.opcode = "CONNECTION_COMPLETE" =>
                 /\ m.group = "L2CAP"
                 /\ m.ok => m = ConnectionComplete /\ (board.open \/ board.link = "down")
           /\ m.opcode = "DISCONNECTED" => m = Disconnected
           /\ \A i \in DOMAIN uart'[s] : \E j \in DOMAIN uart[s] : uart'[s][i] = uart[s][j]
  <1>1. /\ Popped(uart[s], m, uart'[s]) /\ 1 \in DOMAIN uart[s] /\ m = uart[s][1]
        /\ m \in Messages
    BY Taken DEF Popped
  <1>2. m.n \in Nat
    BY <1>1 DEF Messages
  <1>3. IsData(m) => m.ok /\ m.group = "L2CAP" /\ m.n \in Nat
    BY <1>1, <1>2, DataFields DEF SideInv, PacketsOK, IsData
  <1>4. m.opcode = "CONNECTION_COMPLETE" =>
                 /\ m.group = "L2CAP"
                 /\ m.ok => m = ConnectionComplete /\ (board.open \/ board.link = "down")
    BY <1>1, Reported DEF SideInv, PacketsOK
  <1>5. m.opcode = "DISCONNECTED" => m = Disconnected
    BY <1>1 DEF SideInv, PacketsOK
  <1>6. \A i \in DOMAIN uart'[s] : \E j \in DOMAIN uart[s] : uart'[s][i] = uart[s][j]
    BY <1>1 DEF Popped
  <1> QED
    BY <1>1, <1>3, <1>4, <1>5, <1>6

\* The calls that wait for an event.
LEMMA Expecting ==
    ASSUME TypeOK, NEW s \in Side, SideInv(s), NEW m, Looks(s, m), m # Disconnected,
           Awaited(s, m), waiting[s] = "event"
    PROVE  /\ call[s] \in {"setup", "receive"} /\ Live(s) /\ ~Frozen(s) /\ ~CleaningUp(s)
           /\ serial[s] = << >> /\ NoConfirm(s)
           /\ m.group = Request(s).group /\ m.opcode = Request(s).event
           /\ call[s] = "receive" => Request(s) = WaitForData /\ connected[s] /\ queue[s] = << >>
           /\ call[s] = "setup" => Request(s) # WaitForData /\ ~IsData(m)
  <1>1. Takes(s, m) /\ m.group = Request(s).group /\ m.opcode = Request(s).event
    BY DEF Looks, Awaited
  <1>2. call[s] \in {"setup", "receive"}
    <2>1. Request(s) # Disconnect
      BY <1>1, LookFirst, Fields
    <2>2. call[s] = "disconnect" => task[s] = <<Disconnect, DeregisterLePsm>>
      BY DEF SideInv, CallsOK
    <2>3. call[s] = "disconnect" => Request(s) = Disconnect
      BY <2>2 DEF Request
    <2>4. call[s] # "send"
      BY DEF SideInv, CallsOK
    <2> QED
      BY <2>1, <2>3, <2>4, TaskOf
  <1>3. call[s] = "receive" => Request(s) = WaitForData /\ connected[s] /\ queue[s] = << >>
    BY TaskOf DEF SideInv, CallsOK
  <1>4. Live(s) /\ ~Frozen(s) /\ ~CleaningUp(s)
    BY <1>2, <1>3 DEF Live, Frozen, CleaningUp
  <1>5. serial[s] = << >>
    BY <1>4 DEF SideInv, SerialOK
  <1>6. NoConfirm(s)
    BY <1>4 DEF SideInv, ConfirmOK, ConfirmsIn, NoConfirm
  <1>7. ASSUME call[s] = "setup" PROVE Request(s) # WaitForData /\ ~IsData(m)
    <2>1. Request(s) = ConnectLePsm \/ Preparing(Request(s))
      BY <1>7, TaskOf
    <2>2. Request(s).event # "LE_CB_DATA"
      BY <2>1, Fields DEF Preparing
    <2> QED
      BY <1>1, <2>2, Fields DEF IsData
  <1> QED
    BY <1>1, <1>2, <1>3, <1>4, <1>5, <1>6, <1>7

\* An event that ends nothing: the other device, or a request that has lapsed.
LEMMA RepeatInv ==
    ASSUME TypeOK, BoardOK, NEW s \in Side, SideInv(s), NEW m, Looks(s, m), m # Disconnected,
           Awaited(s, m), waiting[s] = "event", ~m.ok, Repeats(s), missed' = missed,
           channel' \in [Side -> BOOLEAN], enabled' \in [Side -> BOOLEAN], Opens(s, m)
    PROVE  TypeOK' /\ SideInv(s)' /\ Mine(s)
  <1>0. /\ Other(s) \in Side /\ Other(s) # s /\ Takes(s, m)
        /\ connected' = connected /\ received' = received /\ queue' = queue
        /\ call' = call /\ task' = task /\ serial' = serial
        /\ timer' = timer /\ orphan' = orphan /\ sent' = sent
    BY Sides DEF Looks, Repeats
  <1>1. /\ waiting'[s] = IF Request(s) = ConnectLePsm THEN "no" ELSE "event"
        /\ waiting'[Other(s)] = waiting[Other(s)]
        /\ \A t \in Side : waiting'[t] # "no" => waiting[t] # "no"
        /\ waiting' \in [Side -> {"no", "confirm", "event"}]
    <2>1. waiting \in [Side -> {"no", "confirm", "event"}]
      BY DEF TypeOK
    <2> QED
      BY <1>0, <2>1 DEF Repeats
  <1>2. RunOK'
    BY <1>0, <1>1, RunTypes DEF RunOK
  <1>3. TypeOK'
    <2>1. /\ queue' \in [Side -> Seq(Nat)] /\ received' \in [Side -> Seq(Nat)]
          /\ missed' \in [Side -> SUBSET {"packet", "write"}] /\ connected' \in [Side -> BOOLEAN]
          /\ \A t \in Side : received'[t] \in Seq(1 .. sent[Other(t)])
      BY <1>0 DEF TypeOK
    <2> QED
      BY <1>2, <2>1, LookTypes
  <1>4. Mine(s)
    <2>1. Apart(Other(s))
      BY <1>0, <1>1 DEF Apart
    <2> QED
      BY <1>0, <2>1, LookMine
  <1>5. call[s] = "setup" /\ ~IsData(m)
    BY <1>0, Expecting, LookFirst, Fields DEF IsData
  <1>6. Carry(s)
    <2>1. (Live(s)' => Live(s)) /\ (Whole(s)' => Whole(s))
      BY <1>0 DEF Live, Whole
    <2> QED
      BY <1>0, <1>4, <1>5, <2>1, CarryLeft
  <1>7. Unopened(s)
    BY <1>0, Reported, UnopenedLeft
  <1>8. CASE Request(s) = ConnectLePsm
    <2>1. m.opcode = "CONNECTION_COMPLETE" /\ m # ConnectionComplete
      BY <1>8, Expecting, Fields, Reported
    <2>2. Whole(s)' <=> Whole(s)
      BY DEF Whole
    <2>3. SideInv(s)'
      BY <1>0, <1>1, <1>5, <1>6, <1>8, <1>7, <2>1, <2>2, LapsedInv
    <2> QED
      BY <1>3, <1>4, <2>3
  <1>9. CASE Request(s) # ConnectLePsm
    <2>1. m.opcode # "CONNECTION_COMPLETE"
      <3>1. Preparing(Request(s))
        BY <1>5, <1>9, TaskOf
      <3> QED
        BY <3>1, Expecting DEF Preparing
    <2>2. Apart(s) /\ (Whole(s)' <=> Whole(s))
      BY <1>0, <1>1, <1>9 DEF Apart, Whole
    <2>3. SideInv(s)'
      BY <1>0, <1>6, <1>7, <2>1, <2>2, PassedInv
    <2> QED
      BY <1>3, <1>4, <2>3
  <1> QED
    BY <1>8, <1>9

\* The event the call waits for, taken.
Obtains(s, m) ==
    /\ waiting[s] = "event" /\ m.ok /\ RequestDone(s)
    /\ connected' = [connected EXCEPT ![s] = @ \/ m = Connected]
    /\ received' = IF Request(s) # WaitForData THEN received
                   ELSE [received EXCEPT ![s] = Append(@, m.n)]

\* It ends the request.
LEMMA EndInv ==
    ASSUME TypeOK, BoardOK, NEW s \in Side, SideInv(s), NEW m, Looks(s, m), m # Disconnected,
           Awaited(s, m), Obtains(s, m), missed' = missed,
           channel' \in [Side -> BOOLEAN], enabled' \in [Side -> BOOLEAN], Opens(s, m)
    PROVE  TypeOK' /\ SideInv(s)' /\ Mine(s)
  <1>0. /\ Other(s) \in Side /\ Other(s) # s /\ waiting[s] = "event" /\ Takes(s, m) /\ m.ok
        /\ RequestDone(s) /\ timer' = timer /\ orphan' = orphan /\ sent' = sent /\ board' = board
    BY Sides DEF Looks, Obtains
  <1>1. /\ call[s] \in {"setup", "receive"} /\ Live(s) /\ ~Frozen(s) /\ ~CleaningUp(s)
        /\ serial[s] = << >> /\ NoConfirm(s)
        /\ m.group = Request(s).group /\ m.opcode = Request(s).event
        /\ call[s] = "receive" => Request(s) = WaitForData /\ connected[s] /\ queue[s] = << >>
        /\ call[s] = "setup" => Request(s) # WaitForData /\ ~IsData(m)
    BY <1>0, Expecting
  <1>2. /\ RunOK' /\ Apart(Other(s)) /\ queue' \in [Side -> Seq(Nat)]
        /\ queue'[Other(s)] = queue[Other(s)]
    BY <1>0, DoneRun
  <1>3. connected' \in [Side -> BOOLEAN] /\ connected'[Other(s)] = connected[Other(s)]
    <2>1. connected' = [connected EXCEPT ![s] = connected[s] \/ m = Connected]
      BY DEF Obtains
    <2>2. connected \in [Side -> BOOLEAN]
      BY DEF TypeOK
    <2> QED
      BY <1>0, <2>1, <2>2
  <1>4. NoConfirm(s)'
    BY <1>0, <1>1, LookFirst DEF NoConfirm
  <1>5. Parting(s)
    BY <1>1 DEF Parting
  <1>6. s \notin board.asking
    <2>1. s \in board.asking =>
             /\ call[s] = "setup" /\ Request(s) = ConnectLePsm
             /\ \A i \in DOMAIN uart[s] : uart[s][i].opcode # "CONNECTION_COMPLETE"
      BY DEF SideInv, ChannelOK, AskedIn, Answering, Completes
    <2> QED
      BY <1>0, <1>1, <2>1, LookFirst, Fields
  <1>7. (Whole(s)' <=> Whole(s)) /\ missed' \in [Side -> SUBSET {"packet", "write"}]
    BY DEF Whole, TypeOK
  <1>8. CASE call[s] = "receive"
    <2>1. Request(s) = WaitForData /\ Len(task[s]) = 1 /\ IsData(m) /\ ~Refuses(s)
      BY <1>0, <1>1, <1>8, TaskOf, Fields DEF IsData, Refuses
    <2>2. queue'[s] = queue[s] /\ call'[s] = "idle"
      BY <1>0, <1>8, <2>1, DoneRun DEF Turns
    <2>3. /\ received'[s] = Append(received[s], m.n) /\ received'[Other(s)] = received[Other(s)]
          /\ received' \in [Side -> Seq(Nat)]
      <3>1. received' = [received EXCEPT ![s] = Append(received[s], m.n)]
        BY <2>1 DEF Obtains
      <3>2. received \in [Side -> Seq(Nat)] /\ m.n \in Nat
        BY <1>0, <2>1, LookFirst DEF TypeOK
      <3> QED
        BY <1>0, <3>1, <3>2
    <2>4. Mine(s)
      BY <1>0, <1>2, <1>3, <2>3, LookMine
    <2>5. Keeps(s) /\ Hosting(s)
      BY <1>1, <1>7, <1>8, <2>4, MineHosting DEF Keeps
    <2>6. DataOK(s)' /\ QueueOK(s)' /\ received'[s] \in Seq(1 .. sent[Other(s)])
      BY <1>0, <1>1, <1>8, <2>1, <2>2, <2>3, <2>5, DataReceived
    <2>7. \A t \in Side : received'[t] \in Seq(1 .. sent[Other(t)])
      <3>1. received[Other(s)] \in Seq(1 .. sent[Other(Other(s))])
        BY <1>0 DEF TypeOK
      <3> QED
        BY <2>3, <2>6, <3>1, Sides
    <2>8. TypeOK'
      BY <1>2, <1>3, <1>7, <2>3, <2>7, LookTypes
    <2>9. Carry(s)
      BY <1>0, <2>5, <2>6, PacketsLeft DEF Carry
    <2>10. SideInv(s)'
      BY <1>0, <1>1, <1>4, <1>5, <1>6, <1>8, <2>9, DoneInv
    <2> QED
      BY <2>4, <2>8, <2>10
  <1>9. CASE call[s] = "setup"
    <2>1. received' = received
      BY <1>1, <1>9 DEF Obtains
    <2>2. Mine(s)
      BY <1>0, <1>2, <1>3, <2>1, LookMine
    <2>3. TypeOK'
      <3>1. /\ received' \in [Side -> Seq(Nat)]
            /\ \A t \in Side : received'[t] \in Seq(1 .. sent[Other(t)])
        BY <2>1 DEF TypeOK
      <3> QED
        BY <1>2, <1>3, <1>7, <3>1, LookTypes
    <2>4. CASE Len(task[s]) = 1
      <3>1. Request(s) = ConnectLePsm /\ ~Refuses(s)
        <4>1. Request(s) = ConnectLePsm
          BY <1>0, <1>9, <2>4, TaskOf
        <4>2. ReadCharacteristic \in SetupRequests
          BY DEF SetupRequests
        <4>3. Preparing(ReadCharacteristic) /\ ~Preparing(ConnectLePsm)
          BY <4>2, SetupRequestsPrepare, Preparations DEF Special
        <4> QED
          BY <4>1, <4>3, Fields DEF Refuses, Special
      <3>2. queue'[s] = << >> /\ call'[s] = "idle"
        BY <1>0, <1>9, <2>4, <3>1, DoneRun DEF Turns
      <3>3. board.open \/ board.link = "down"
        BY <1>0, <1>1, <3>1, LookFirst, Fields
      <3>4. << >> # NoQueue /\ queue[s] = NoQueue
        BY <1>9 DEF NoQueue, SideInv, CallsOK
      <3>5. QueueOK(s)'
        BY <1>0, <3>2, <3>3, <3>4 DEF QueueOK
      <3>6. Keeps(s) /\ Hosting(s)
        BY <1>1, <1>7, <1>9, <2>2, MineHosting DEF Keeps
      <3>7. DataOK(s)'
        BY <1>0, <1>1, <1>9, <2>1, <3>2, <3>4, <3>6, DataLeft
      <3>8. Carry(s)
        BY <1>0, <3>5, <3>6, <3>7, PacketsLeft DEF Carry
      <3>9. SideInv(s)'
        BY <1>0, <1>1, <1>4, <1>5, <1>6, <1>9, <2>4, <3>8, DoneInv
      <3> QED
        BY <2>2, <2>3, <3>9
    <2>5. CASE Len(task[s]) # 1
      <3>1. Request(s) # ConnectLePsm
        <4>1. Request(s) \notin Special
          BY <1>0, <1>9, <2>5, TaskOf
        <4> QED
          BY <4>1 DEF Special
      <3>2. /\ ~board.open
            /\ \A i \in DOMAIN uart[s] :
                  uart[s][i].opcode \notin {"CONNECTION_COMPLETE", "LE_CB_DATA"}
        BY <1>9, <3>1, NotYet
      <3>3. \A i \in DOMAIN uart'[s] :
               uart'[s][i].opcode \notin {"CONFIRM", "CONNECTION_COMPLETE", "LE_CB_DATA"}
        BY <1>0, <1>1, <3>2, LookFirst DEF NoConfirm
      <3>4. queue'[s] = queue[s]
        BY <1>0, <2>5, DoneRun
      <3>5. Carry(s)
        BY <1>0, <1>1, <1>7, <1>9, <2>1, <2>2, <3>4, CarryLeft
      <3>6. Unopened(s)
        BY <1>0, <1>9, <3>2, LookFirst, Reported, UnopenedLeft
      <3>7. SideInv(s)'
        BY <1>0, <1>1, <1>4, <1>5, <1>6, <1>7, <1>9, <2>5, <3>2, <3>3, <3>5, <3>6, DoneInv
      <3> QED
        BY <2>2, <2>3, <3>7
    <2> QED
      BY <2>4, <2>5
  <1> QED
    BY <1>1, <1>8, <1>9

\* An answer that the call cannot go on with.
LEMMA GivenUpInv ==
    ASSUME TypeOK, BoardOK, NEW s \in Side, SideInv(s), NEW m, Looks(s, m), m # Disconnected,
           Awaited(s, m), waiting[s] = "event", GivesUp(s, m), Raises(s), missed' = missed,
           connected' = connected, received' = received,
           channel' \in [Side -> BOOLEAN], enabled' \in [Side -> BOOLEAN]
    PROVE  TypeOK' /\ SideInv(s)' /\ Mine(s)
  <1>0. Other(s) \in Side /\ Other(s) # s /\ Takes(s, m)
    BY Sides DEF Looks
  <1>1. /\ call[s] = "setup" /\ ~IsData(m) /\ serial[s] = << >> /\ NoConfirm(s)
        /\ m.opcode = Request(s).event
    <2>1. Request(s) # WaitForData
      <3>1. {DiscoverServices, DiscoverCharacteristics, ReadCharacteristic, WriteCharacteristic}
               \subseteq SetupRequests
        BY DEF SetupRequests
      <3>2. Request(s) \in SetupRequests \/ Request(s) = ConnectLePsm
        BY <3>1 DEF GivesUp
      <3>3. Request(s).event # "LE_CB_DATA"
        BY <3>2, SetupRequestsPrepare, Fields DEF Preparing
      <3> QED
        BY <3>3, Fields
    <2> QED
      BY <2>1, Expecting
  <1>2. RunOK' /\ Apart(Other(s)) /\ queue' = queue /\ call'[s] = "idle"
    BY <1>1, RaisedRun DEF Turns
  <1>3. TypeOK'
    <2>1. /\ queue' \in [Side -> Seq(Nat)] /\ received' \in [Side -> Seq(Nat)]
          /\ missed' \in [Side -> SUBSET {"packet", "write"}] /\ connected' \in [Side -> BOOLEAN]
          /\ \A t \in Side : received'[t] \in Seq(1 .. sent[Other(t)])
      BY <1>2 DEF TypeOK
    <2> QED
      BY <1>2, <2>1, LookTypes
  <1>4. Mine(s)
    BY <1>2, LookMine
  <1>5. Carry(s)
    <2>1. (Live(s)' => Live(s)) /\ (Whole(s)' => Whole(s)) /\ queue'[s] = queue[s]
      BY <1>1, <1>2 DEF Live, Whole
    <2> QED
      BY <1>0, <1>1, <1>2, <1>4, <2>1, CarryLeft
  <1>6. NoConfirm(s)'
    BY <1>0, <1>1, LookFirst DEF NoConfirm
  <1>7. s \notin board.asking
    <2>1. s \in board.asking =>
             /\ Request(s) = ConnectLePsm
             /\ \A i \in DOMAIN uart[s] : uart[s][i].opcode # "CONNECTION_COMPLETE"
      BY DEF SideInv, ChannelOK, AskedIn, Answering, Completes
    <2> QED
      BY <1>0, <1>1, <2>1, LookFirst, Fields
  <1>8. Parting(s)
    BY <1>1 DEF Parting
  <1>9. SideInv(s)'
    BY <1>0, <1>1, <1>5, <1>6, <1>7, <1>8, RaisedInv
  <1> QED
    BY <1>3, <1>4, <1>9

\* Data that no get_message waits for.
LEMMA PushInv ==
    ASSUME TypeOK, BoardOK, NEW s \in Side, SideInv(s), NEW m, Looks(s, m),
           ~Awaited(s, m), Pushes(s, m), connected' = connected, received' = received,
           channel' \in [Side -> BOOLEAN], enabled' \in [Side -> BOOLEAN], Opens(s, m)
    PROVE  TypeOK' /\ SideInv(s)' /\ Mine(s)
  <1>0. /\ Other(s) \in Side /\ Other(s) # s /\ waiting[s] # "no" /\ Takes(s, m) /\ IsData(m)
        /\ timer' = timer /\ orphan' = orphan /\ sent' = sent /\ board' = board /\ missed' = missed
    BY Sides DEF Looks, Pushes, IsData
  <1>1. m.ok /\ m.group = "L2CAP" /\ m.n \in Nat /\ Popped(uart[s], m, uart'[s]) /\ m = uart[s][1]
    BY <1>0, LookFirst
  <1>2. call[s] \in {"send", "disconnect"}
    <2>1. call[s] # "setup"
      <3>1. call[s] = "setup" => \E i \in DOMAIN uart[s] : i < 1
        BY <1>0, <1>1 DEF SideInv, ChannelOK, OpenedIn, Popped, IsData
      <3>2. \A i \in DOMAIN uart[s] : ~(i < 1)
        BY <1>1 DEF Popped
      <3> QED
        BY <3>1, <3>2
    <2>2. call[s] # "receive"
      <3>1. ASSUME call[s] = "receive" PROVE Awaited(s, m)
        <4>1. Request(s) = WaitForData /\ waiting[s] = "event"
          BY <1>0, <3>1, TaskOf DEF SideInv, CallsOK
        <4> QED
          BY <1>0, <1>1, <4>1, Fields DEF Awaited, IsData
      <3> QED
        BY <3>1
    <2> QED
      BY <1>0, <2>1, <2>2, TaskOf
  <1>3. /\ queue \in [Side -> Seq(Nat)] /\ received' \in [Side -> Seq(Nat)]
        /\ missed' \in [Side -> SUBSET {"packet", "write"}] /\ connected' \in [Side -> BOOLEAN]
        /\ \A t \in Side : received'[t] \in Seq(1 .. sent[Other(t)])
    BY <1>0 DEF TypeOK
  <1>4. Whole(s)' <=> Whole(s)
    BY <1>0 DEF Whole
  <1>5. s \notin board.asking
    BY <1>2 DEF SideInv, ChannelOK
  <1>6. CASE queue[s] = NoQueue
    <2>1. Raises(s)
      BY <1>6 DEF Pushes
    <2>2. call[s] = "disconnect"
      BY <1>2, <1>6 DEF SideInv, CallsOK
    <2>3. /\ RunOK' /\ Apart(Other(s)) /\ queue' = queue /\ call'[s] \in {"disconnect", "broken"}
      BY <1>0, <2>1, <2>2, RaisedRun DEF Turns
    <2>4. TypeOK'
      BY <1>3, <2>3, LookTypes
    <2>5. Mine(s)
      BY <1>0, <2>3, LookMine
    <2>6. Carry(s)
      <3>1. DataOK(s)'
        BY <1>4, <1>6, <2>3 DEF SideInv, DataOK
      <3>2. Hosting(s)
        BY <2>5, MineHosting
      <3>3. QueueOK(s)'
        BY <1>0, <2>3, <3>2, QueueLeft
      <3>4. PacketsOK(s)'
        BY <1>0, <3>2, PacketsLeft
      <3> QED
        BY <1>0, <3>1, <3>3, <3>4 DEF Carry
    <2>7. Parting(s)
      BY <2>2 DEF SideInv, SerialOK, Parting
    <2>8. SideInv(s)'
      BY <1>0, <1>5, <2>1, <2>2, <2>6, <2>7, RaisedInv
    <2> QED
      BY <2>4, <2>5, <2>8
  <1>7. CASE queue[s] # NoQueue
    <2>1. /\ queue' = [queue EXCEPT ![s] = Append(queue[s], m.n)]
          /\ call' = call /\ task' = task /\ waiting' = waiting /\ serial' = serial
      BY <1>7 DEF Pushes, running
    <2>2. /\ queue' \in [Side -> Seq(Nat)] /\ queue'[s] = Append(queue[s], m.n)
          /\ queue'[Other(s)] = queue[Other(s)]
      BY <1>0, <1>1, <1>3, <2>1
    <2>3. RunOK' /\ Apart(s) /\ Apart(Other(s))
      BY <2>1, RunTypes DEF RunOK, Apart
    <2>4. TypeOK'
      BY <1>3, <2>2, <2>3, LookTypes
    <2>5. Mine(s)
      BY <1>0, <2>2, <2>3, LookMine
    <2>6. Keeps(s) /\ Hosting(s)
      <3>1. Live(s)' => Live(s)
        BY <2>1 DEF Live
      <3> QED
        BY <1>2, <1>4, <2>5, <3>1, MineHosting DEF Keeps
    <2>7. DataOK(s)' /\ QueueOK(s)' /\ queue'[s] # NoQueue
      BY <1>0, <1>7, <2>2, <2>6, DataPushed
    <2>8. Carry(s)
      BY <1>0, <2>6, <2>7, PacketsLeft DEF Carry
    <2>9. ~Own(uart[s], Request(s), 1)
      BY <1>0, <1>1 DEF Own, IsData
    <2>10. Unopened(s)
      BY <1>2, <2>1 DEF Unopened
    <2>11. SideInv(s)'
      BY <1>0, <1>2, <1>4, <1>7, <2>3, <2>7, <2>8, <2>9, <2>10, PassedInv
    <2> QED
      BY <2>4, <2>5, <2>11
  <1> QED
    BY <1>6, <1>7

\* Anything else that nothing waits for.
LEMMA DiscardInv ==
    ASSUME TypeOK, BoardOK, NEW s \in Side, SideInv(s), NEW m, Looks(s, m), m # Disconnected,
           ~Awaited(s, m), Discards(s, m), connected' = connected, received' = received,
           channel' \in [Side -> BOOLEAN], enabled' \in [Side -> BOOLEAN], Opens(s, m)
    PROVE  TypeOK' /\ SideInv(s)' /\ Mine(s)
  <1>0. /\ Other(s) \in Side /\ Other(s) # s /\ waiting[s] # "no" /\ Takes(s, m) /\ ~IsData(m)
        /\ timer' = timer /\ orphan' = orphan /\ sent' = sent /\ board' = board /\ queue' = queue
        /\ call' = call /\ task' = task /\ waiting' = waiting /\ serial' = serial
    BY Sides DEF Looks, Discards, IsData, running
  <1>1. /\ missed' \in [Side -> SUBSET {"packet", "write"}] /\ missed'[Other(s)] = missed[Other(s)]
        /\ Whole(s)' <=> Whole(s)
    <2>1. missed \in [Side -> SUBSET {"packet", "write"}]
      BY DEF TypeOK
    <2>2. CASE m = AttributeWritten
      BY <1>0, <2>1, <2>2 DEF Discards, Whole
    <2>3. CASE m # AttributeWritten
      BY <2>1, <2>3 DEF Discards, Whole
    <2> QED
      BY <2>2, <2>3
  <1>2. RunOK' /\ Apart(s) /\ Apart(Other(s))
    BY <1>0, RunTypes DEF RunOK, Apart
  <1>3. TypeOK'
    <2>1. /\ queue' \in [Side -> Seq(Nat)] /\ received' \in [Side -> Seq(Nat)]
          /\ connected' \in [Side -> BOOLEAN]
          /\ \A t \in Side : received'[t] \in Seq(1 .. sent[Other(t)])
      BY <1>0 DEF TypeOK
    <2> QED
      BY <1>1, <1>2, <2>1, LookTypes
  <1>4. Mine(s)
    BY <1>0, <1>1, <1>2, LookMine
  <1>5. Carry(s)
    <2>1. (Live(s)' => Live(s)) /\ call[s] # "closed"
      BY <1>0, TaskOf DEF Live
    <2> QED
      BY <1>0, <1>1, <1>4, <2>1, CarryLeft
  <1>6. Popped(uart[s], m, uart'[s]) /\ 1 \in DOMAIN uart[s] /\ m = uart[s][1]
    BY <1>0, LookFirst
  <1>7. ~(waiting[s] = "confirm" /\ Own(uart[s], Request(s), 1))
    BY <1>6 DEF Awaited, Own
  <1>8. ASSUME call[s] = "setup", m.opcode = "CONNECTION_COMPLETE" PROVE FALSE
    <2>1. Answering(uart[s], serial[s], Request(s), waiting[s], 1)
      BY <1>6, <1>8 DEF SideInv, ChannelOK, OpenedIn, Completes
    <2>2. \A i \in DOMAIN uart[s] : ~(i < 1)
      BY <1>6 DEF Popped
    <2>3. waiting[s] = "event" /\ Request(s) = ConnectLePsm
      BY <2>1, <2>2 DEF Answering
    <2>4. m.group = "L2CAP"
      BY <1>0, <1>8, LookFirst
    <2> QED
      BY <1>8, <2>3, <2>4, Fields DEF Awaited
  <1>9. Unopened(s)
    BY <1>0, <1>8, Reported, UnopenedLeft
  <1>10. SideInv(s)'
    BY <1>0, <1>1, <1>2, <1>5, <1>7, <1>8, <1>9, PassedInv
  <1> QED
    BY <1>3, <1>4, <1>10

\* All that wait_for_message may do.
LEMMA ReadInv ==
    ASSUME TypeOK, BoardOK, NEW s \in Side, SideInv(s), Read(s)
    PROVE  TypeOK' /\ SideInv(s)' /\ Mine(s)
  <1> DEFINE m == Head(uart[s])
  <1>1. /\ Looks(s, m)
        /\ \/ m = Disconnected /\ Drops(s)
           \/ /\ m # Disconnected
              /\ channel' = [channel EXCEPT ![s] = @ \/ m = ConnectionComplete]
              /\ enabled' = [enabled EXCEPT ![s] = @ \/ m = ConnectionComplete]
              /\ IF Awaited(s, m) THEN (Confirms(s, m) \/ Ends(s, m)) /\ UNCHANGED missed
                 ELSE (Pushes(s, m) \/ Discards(s, m)) /\ UNCHANGED <<connected, received>>
    <2>1. uart' = [uart EXCEPT ![s] = Tail(@)] /\ uart[s] # << >>
      BY DEF Read
    <2>2. uart'[s] = Tail(uart[s])
      BY <2>1 DEF TypeOK
    <2>3. channel'[Other(s)] = channel[Other(s)] /\ enabled'[Other(s)] = enabled[Other(s)]
      BY Sides DEF Read, Drops, TypeOK
    <2>4. Looks(s, m)
      BY <2>1, <2>2, <2>3 DEF Looks, Takes, Read
    <2>5. \/ m = Disconnected /\ Drops(s)
          \/ /\ m # Disconnected
             /\ channel' = [channel EXCEPT ![s] = @ \/ m = ConnectionComplete]
             /\ enabled' = [enabled EXCEPT ![s] = @ \/ m = ConnectionComplete]
             /\ IF Awaited(s, m) THEN (Confirms(s, m) \/ Ends(s, m)) /\ UNCHANGED missed
                ELSE (Pushes(s, m) \/ Discards(s, m)) /\ UNCHANGED <<connected, received>>
      BY DEF Read
    <2> QED
      BY <2>4, <2>5
  <1> HIDE DEF m
  <1>2. CASE m = Disconnected /\ Drops(s)
    BY <1>1, <1>2, DropInv
  <1>3. CASE /\ m # Disconnected
             /\ channel' = [channel EXCEPT ![s] = @ \/ m = ConnectionComplete]
             /\ enabled' = [enabled EXCEPT ![s] = @ \/ m = ConnectionComplete]
             /\ IF Awaited(s, m) THEN (Confirms(s, m) \/ Ends(s, m)) /\ UNCHANGED missed
                ELSE (Pushes(s, m) \/ Discards(s, m)) /\ UNCHANGED <<connected, received>>
    <2>1. channel' \in [Side -> BOOLEAN] /\ enabled' \in [Side -> BOOLEAN] /\ Opens(s, m)
      BY <1>3 DEF TypeOK, Opens
    <2>2. CASE Awaited(s, m) /\ Confirms(s, m)
      BY <1>1, <1>3, <2>1, <2>2, ConfirmInv
    <2>3. CASE Awaited(s, m) /\ Obtains(s, m)
      BY <1>1, <1>3, <2>1, <2>3, EndInv
    <2>4. CASE Awaited(s, m) /\ waiting[s] = "event" /\ ~m.ok /\ Repeats(s)
      BY <1>1, <1>3, <2>1, <2>4, RepeatInv
    <2>5. CASE /\ Awaited(s, m) /\ waiting[s] = "event" /\ GivesUp(s, m) /\ Raises(s)
               /\ connected' = connected /\ received' = received
      BY <1>1, <1>3, <2>1, <2>5, GivenUpInv
    <2>6. Ends(s, m) =>
             /\ waiting[s] = "event"
             /\ \/ Obtains(s, m)
                \/ ~m.ok /\ Repeats(s)
                \/ GivesUp(s, m) /\ Raises(s) /\ connected' = connected /\ received' = received
      BY DEF Ends, Obtains
    <2>7. CASE ~Awaited(s, m) /\ Pushes(s, m)
      BY <1>1, <1>3, <2>1, <2>7, PushInv
    <2>8. CASE ~Awaited(s, m) /\ Discards(s, m)
      BY <1>1, <1>3, <2>1, <2>8, DiscardInv
    <2> QED
      BY <1>3, <2>2, <2>3, <2>4, <2>5, <2>6, <2>7, <2>8
  <1> QED
    BY <1>1, <1>2, <1>3

-----------------------------------------------------------------------------
(* The other steps of a host, and the application.                           *)

\* An idle side whose connection lasts has nothing outstanding.
LEMMA IdleFacts ==
    ASSUME TypeOK, NEW s \in Side, SideInv(s), call[s] = "idle"
    PROVE  /\ task[s] = << >> /\ waiting[s] = "no" /\ Parting(s) /\ s \notin board.asking
           /\ connected[s] => serial[s] = << >> /\ NoConfirm(s)
           /\ ~Frozen(s) /\ ~CleaningUp(s)
  <1>1. task[s] = << >> /\ waiting[s] = "no" /\ ~Frozen(s) /\ ~CleaningUp(s)
    BY DEF TypeOK, Frozen, CleaningUp
  <1>2. Parting(s)
    BY DEF SideInv, SerialOK, Parting
  <1>3. s \notin board.asking
    BY DEF SideInv, ChannelOK
  <1>4. connected[s] => serial[s] = << >> /\ NoConfirm(s)
    BY <1>1 DEF SideInv, SerialOK, ConfirmOK, ConfirmsIn, Live, NoConfirm
  <1> QED
    BY <1>1, <1>2, <1>3, <1>4

\* A step of s's host that reads nothing: what it leaves alone.
Acts(s) ==
    /\ UNCHANGED <<connected, channel, enabled, uart, board, missed>>
    /\ orphan' \in [Side -> BOOLEAN] /\ orphan'[Other(s)] = orphan[Other(s)]
    /\ timeout' \in [Side -> BOOLEAN]
    /\ timer' \in [Side -> BOOLEAN] /\ timer'[Other(s)] = timer[Other(s)]

\* The types such a step keeps, and the other side.
LEMMA ActTypes ==
    ASSUME TypeOK, NEW s \in Side, Acts(s), RunOK', Apart(Other(s)), queue' = queue,
           received' = received, sent' = sent
    PROVE  TypeOK' /\ Mine(s)
  <1>1. TypeOK'
    BY DEF TypeOK, RunOK, Calls, Quiet, Acts
  <1>2. Mine(s)
    BY DEF Mine, Untouched, Apart, Acts
  <1> QED
    BY <1>1, <1>2

\* The first request of the set-up, and ConnectLePsm once more.
LEMMA WriteInv ==
    ASSUME TypeOK, NEW s \in Side, SideInv(s), Write(s)
    PROVE  TypeOK' /\ SideInv(s)' /\ Mine(s)
  <1>1. /\ task[s] # << >> /\ waiting[s] = "no" /\ Continues(s, task[s])
        /\ call' = call /\ queue' = queue /\ sent' = sent /\ received' = received
        /\ timer' = timer /\ orphan' = orphan /\ uart' = uart /\ missed' = missed
        /\ connected' = connected /\ channel' = channel /\ enabled' = enabled
    BY DEF Write, histories
  <1>2. call[s] = "setup"
    <2>1. call[s] \in Calls /\ call[s] \notin Quiet
      BY <1>1, RunTypes DEF RunOK
    <2> QED
      BY <1>1, <2>1 DEF Calls, Quiet, SideInv, CallsOK
  <1>3. RunOK' /\ Turns(s, call[s], task[s]) /\ Apart(Other(s))
    <2>1. /\ call' = [call EXCEPT ![s] = call[s]] /\ task[s] \in Seq(Requests)
          /\ call[s] \in Calls /\ call[s] \notin Quiet
      BY <1>1, RunTypes DEF RunOK
    <2> HIDE DEF Continues
    <2> QED
      BY <1>1, <2>1, ContinuesRun
  <1>4. Acts(s)
    BY <1>1 DEF Acts, TypeOK, Write
  <1>5. TypeOK' /\ Mine(s)
    BY <1>1, <1>3, <1>4, ActTypes
  <1>6. Live(s) /\ ~Frozen(s) /\ ~CleaningUp(s)
    BY <1>2 DEF Live, Frozen, CleaningUp
  <1>7. serial[s] = << >> /\ NoConfirm(s)
    BY <1>1, <1>6 DEF SideInv, SerialOK, ConfirmOK, ConfirmsIn, NoConfirm
  <1>8. /\ ~board.open /\ s \notin board.asking
        /\ \A i \in DOMAIN uart[s] : uart[s][i].opcode \notin {"CONNECTION_COMPLETE", "LE_CB_DATA"}
    BY <1>1, <1>2, NotYet
  <1>9. Carry(s)
    <2>1. (Live(s)' => Live(s)) /\ (Whole(s)' => Whole(s))
      BY <1>1 DEF Live, Whole
    <2> QED
      BY <1>1, <1>2, <1>5, <2>1, CarryLeft
  <1>10. /\ Planned(task[s]) /\ task[s] \in Seq(Requests)
         /\ \A i \in DOMAIN task[s] : task[s][i] = Connect =>
               /\ s = "device" /\ board.link = "none"
               /\ \A j \in DOMAIN task[s] : task[s][j] = Connect => i = j
    <2>1. Planned(task[s]) /\ task[s] \in Seq(Requests)
      BY <1>2 DEF SideInv, CallsOK, TypeOK
    <2>2. \A i \in DOMAIN task[s] : task[s][i] = Connect =>
               /\ s = "device" /\ board.link = "none"
               /\ \A j \in DOMAIN task[s] : task[s][j] = Connect => i = j
      BY <1>1 DEF SideInv, ConnectsOnce
    <2> QED
      BY <2>1, <2>2
  <1>11. \A i \in DOMAIN uart'[s] :
            uart'[s][i].opcode \notin {"CONFIRM", "CONNECTION_COMPLETE", "LE_CB_DATA"}
    BY <1>1, <1>7, <1>8 DEF NoConfirm
  <1>12. /\ call'[s] = "setup" /\ task'[s] = task[s]
         /\ waiting'[s] = IF Head(task[s]).opcode = None THEN "event" ELSE "confirm"
         /\ serial'[s] = IF waiting'[s] = "confirm" THEN <<Head(task[s])>> ELSE << >>
    BY <1>1, <1>2, <1>3, <1>7, AppendNone DEF Turns
  <1>13. SideInv(s)'
    <2>1. Whole(s) => Whole(s)'
      BY <1>1 DEF Whole
    <2>2. Unopened(s) /\ orphan'[s] = orphan[s] /\ queue'[s] = queue[s]
      BY <1>1, <1>2 DEF SideInv, CallsOK, Unopened
    <2> QED
      BY <1>2, <1>7, <1>8, <1>9, <1>10, <1>11, <1>12, <2>1, <2>2, Posing
  <1> QED
    BY <1>5, <1>13

\* A read is given up.
LEMMA ExpireInv ==
    ASSUME TypeOK, NEW s \in Side, SideInv(s), Expires(s)
    PROVE  TypeOK' /\ SideInv(s)' /\ Mine(s)
  <1>1. /\ waiting[s] # "no" /\ uart[s] = << >> /\ enabled[s] /\ timer[s] /\ Raises(s)
        /\ orphan' = [orphan EXCEPT ![s] = TRUE]
        /\ sent' = sent /\ received' = received /\ timer' = timer /\ uart' = uart
        /\ missed' = missed /\ connected' = connected
    BY DEF Expires, histories
  <1>2. call[s] \in {"receive", "disconnect"}
    BY <1>1, TaskOf DEF SideInv, CallsOK
  <1>3. RunOK' /\ Apart(Other(s)) /\ queue' = queue /\ call'[s] \in {"idle", "disconnect", "broken"}
    BY <1>1, RaisedRun DEF Turns
  <1>4. Acts(s)
    <2>1. orphan \in [Side -> BOOLEAN]
      BY DEF TypeOK
    <2>2. orphan' \in [Side -> BOOLEAN] /\ orphan'[Other(s)] = orphan[Other(s)]
      BY <1>1, <2>1, Sides
    <2> QED
      BY <1>1, <2>2 DEF Acts, TypeOK, Expires
  <1>5. TypeOK' /\ Mine(s)
    BY <1>1, <1>3, <1>4, ActTypes
  <1>6. Carry(s)
    <2>1. (Live(s)' => Live(s)) /\ (Whole(s)' => Whole(s))
      BY <1>1, <1>3 DEF Live, Whole
    <2> QED
      BY <1>1, <1>2, <1>3, <1>5, <2>1, CarryLeft
  <1>7. s \notin board.asking
    BY <1>2 DEF SideInv, ChannelOK
  <1>8. Parting(s)
    BY <1>2 DEF SideInv, SerialOK, Parting
  <1>9. connected'[s] /\ call[s] # "disconnect" => serial[s] = << >> /\ NoConfirm(s)'
    <2>1. ASSUME call[s] = "receive"
          PROVE  connected[s] /\ waiting[s] = "event" /\ ~Frozen(s) /\ ~CleaningUp(s)
      BY <2>1 DEF SideInv, CallsOK, Frozen, CleaningUp
    <2>2. call[s] = "receive" => serial[s] = << >>
      BY <2>1 DEF SideInv, SerialOK, Live
    <2>3. NoConfirm(s)'
      BY <1>1 DEF NoConfirm
    <2> QED
      BY <1>2, <2>2, <2>3
  <1>10. SideInv(s)'
    BY <1>1, <1>6, <1>7, <1>8, <1>9, RaisedInv
  <1> QED
    BY <1>5, <1>10

\* A packet may be lost: the CONFIRM, if there is one, is still the only one.
LEMMA ConfirmsLost ==
    ASSUME NEW u, NEW m, NEW v, Popped(u, m, v), NEW q, NEW r, NEW w, NEW c, NEW whole,
           ConfirmsIn(u, q, r, w, c, whole)
    PROVE  ConfirmsIn(v, q, r, w, c, FALSE)
  <1>1. \A i \in DOMAIN v : i + 1 \in DOMAIN u /\ v[i] = u[i + 1] /\ i \in Nat
    BY DEF Popped
  <1>2. \A i \in DOMAIN v : v[i].opcode = "CONFIRM" =>
          \/ w = "confirm" /\ Own(v, r, i) /\ q = << >>
          \/ c /\ v[i].group # "L2CAP"
    <2> SUFFICES ASSUME NEW i \in DOMAIN v, v[i].opcode = "CONFIRM"
                 PROVE  \/ w = "confirm" /\ Own(v, r, i) /\ q = << >>
                        \/ c /\ v[i].group # "L2CAP"
      OBVIOUS
    <2>1. i + 1 \in DOMAIN u /\ v[i] = u[i + 1]
      BY <1>1
    <2>2. \A j \in DOMAIN u : u[j].opcode = "CONFIRM" =>
             \/ w = "confirm" /\ Own(u, r, j) /\ q = << >>
             \/ c /\ u[j].group # "L2CAP"
      BY DEF ConfirmsIn
    <2>3. Own(u, r, i + 1) => Own(v, r, i)
      BY <2>1 DEF Own
    <2> QED
      BY <2>1, <2>2, <2>3
  <1>3. ASSUME w = "confirm", NEW i \in DOMAIN v, NEW j \in DOMAIN v, Own(v, r, i), Own(v, r, j)
        PROVE  i = j
    <2>1. i + 1 \in DOMAIN u /\ j + 1 \in DOMAIN u /\ Own(u, r, i + 1) /\ Own(u, r, j + 1)
      BY <1>1, <1>3 DEF Own
    <2>2. i + 1 = j + 1
      BY <1>3, <2>1 DEF ConfirmsIn
    <2> QED
      BY <1>1, <2>2
  <1> QED
    BY <1>2, <1>3 DEF ConfirmsIn

\* The thread of a read that was given up ends.
LEMMA OrphanInv ==
    ASSUME TypeOK, NEW s \in Side, SideInv(s), OrphanEnds(s)
    PROVE  TypeOK' /\ SideInv(s)' /\ Mine(s)
  <1>1. /\ orphan[s] /\ orphan' = [orphan EXCEPT ![s] = FALSE]
        /\ UNCHANGED <<call, task, waiting, connected, channel, enabled, timeout, timer, queue,
                       serial, board, sent, received>>
    BY DEF OrphanEnds, hosts
  <1>2. /\ Other(s) \in Side /\ Other(s) # s /\ call[s] # "setup"
        /\ orphan' \in [Side -> BOOLEAN] /\ orphan'[Other(s)] = orphan[Other(s)]
    BY <1>1, Sides DEF TypeOK, SideInv, CallsOK
  <1>3. CASE uart[s] = << >> /\ UNCHANGED <<uart, missed>>
    <2>1. TypeOK'
      BY <1>1, <1>2, <1>3 DEF TypeOK
    <2>2. Mine(s)
      BY <1>1, <1>2, <1>3 DEF Mine, Untouched
    <2>3. Gathered(s)' = Gathered(s) /\ Request(s)' = Request(s)
      BY <1>1 DEF Gathered, Request
    <2>4. Carried(Other(s))' = Carried(Other(s))
      BY <2>2, MineHosting DEF Hosting
    <2>5. /\ (Live(s)' <=> Live(s)) /\ (Frozen(s)' <=> Frozen(s)) /\ (Whole(s)' <=> Whole(s))
          /\ CleaningUp(s)' = CleaningUp(s) /\ Whole(s)' = Whole(s) /\ Up' = Up
      BY <1>1, <1>3 DEF Live, Frozen, CleaningUp, Whole, Up
    <2>6. CallsOK(s)' /\ QueueOK(s)' /\ ConnectsOnce(s)' /\ PacketsOK(s)' /\ SerialOK(s)'
      BY <1>1, <1>2, <1>3, <2>3, <2>5
         DEF SideInv, CallsOK, QueueOK, ConnectsOnce, PacketsOK, SerialOK
    <2>7. ConfirmOK(s)' /\ ChannelOK(s)'
      BY <1>1, <1>3, <2>3, <2>5 DEF SideInv, ConfirmOK, ChannelOK
    <2>8. DataOK(s)'
      BY <1>1, <1>3, <2>3, <2>4, <2>5 DEF SideInv, DataOK
    <2> QED
      BY <2>1, <2>2, <2>6, <2>7, <2>8 DEF SideInv
  <1>4. CASE /\ uart[s] # << >> /\ uart' = [uart EXCEPT ![s] = Tail(@)]
             /\ missed' = [missed EXCEPT ![s] = @ \cup {"packet"}]
    <2>1. /\ uart' \in [Side -> Seq(Messages)] /\ uart'[s] = Tail(uart[s])
          /\ uart'[Other(s)] = uart[Other(s)]
      <3>1. uart \in [Side -> Seq(Messages)] /\ Tail(uart[s]) \in Seq(Messages)
        BY <1>4 DEF TypeOK
      <3> QED
        BY <1>2, <1>4, <3>1
    <2>2. /\ missed' \in [Side -> SUBSET {"packet", "write"}] /\ missed'[Other(s)] = missed[Other(s)]
          /\ ~Whole(s)'
      BY <1>2, <1>4, SMTT(20) DEF TypeOK, Whole
    <2>3. TypeOK'
      BY <1>1, <1>2, <2>1, <2>2 DEF TypeOK
    <2>4. Mine(s)
      BY <1>1, <1>2, <2>1, <2>2 DEF Mine, Untouched
    <2>5. Takes(s, Head(uart[s]))
      BY <1>4, <2>1 DEF Takes
    <2>6. Popped(uart[s], Head(uart[s]), uart'[s])
      BY <2>5, Taken
    <2>7. /\ (Live(s)' <=> Live(s)) /\ (Frozen(s)' <=> Frozen(s)) /\ Request(s)' = Request(s)
          /\ CleaningUp(s)' = CleaningUp(s) /\ Whole(s)' = FALSE
      BY <1>1, <2>2 DEF Live, Frozen, CleaningUp, Whole, Request
    <2>8. CallsOK(s)' /\ QueueOK(s)' /\ ConnectsOnce(s)' /\ SerialOK(s)'
      BY <1>1, <1>2, <2>7 DEF SideInv, CallsOK, QueueOK, ConnectsOnce, SerialOK
    <2>9. PacketsOK(s)'
      BY <2>4, <2>5, MineHosting, PacketsLeft
    <2>10. ConfirmOK(s)'
      <3>1. Live(s) /\ ~Frozen(s) =>
               ConfirmsIn(uart'[s], serial[s], Request(s), waiting[s], CleaningUp(s), FALSE)
        BY <2>6, ConfirmsLost DEF SideInv, ConfirmOK
      <3> QED
        BY <1>1, <2>7, <3>1 DEF ConfirmOK
    <2>11. ChannelOK(s)'
      BY <1>1, <1>2 DEF SideInv, ChannelOK
    <2>12. DataOK(s)'
      BY <2>2 DEF DataOK
    <2> QED
      BY <2>3, <2>4, <2>8, <2>9, <2>10, <2>11, <2>12 DEF SideInv
  <1> QED
    BY <1>3, <1>4 DEF OrphanEnds

-----------------------------------------------------------------------------
(* The step of one host and what the other side sees of it.                  *)

\* The host asks for nothing, or for something other than to send data.
Grows(s) ==
    \/ serial'[s] = serial[s]
    \/ \E r \in Requests : r # SendLeCbData /\ serial'[s] = Append(serial[s], r)

\* Then its data is where it was.
LEMMA GrowsCarried ==
    ASSUME TypeOK, NEW s \in Side, Grows(s), sent'[s] = sent[s]
    PROVE  Carried(s)' = Carried(s)
  <1>1. CASE serial'[s] = serial[s]
    BY <1>1 DEF Carried
  <1>2. ASSUME NEW r \in Requests, r # SendLeCbData, serial'[s] = Append(serial[s], r)
        PROVE  Carried(s)' = Carried(s)
    <2>1. /\ serial[s] \in Seq(Requests)
      BY DEF TypeOK
    <2>2. /\ DOMAIN serial[s] = 1 .. Len(serial[s]) /\ Len(serial[s]) \in Nat
          /\ DOMAIN serial'[s] = 1 .. Len(serial[s]) + 1
          /\ \A i \in DOMAIN serial[s] : serial'[s][i] = serial[s][i]
          /\ serial'[s][Len(serial[s]) + 1] = r
      BY <1>2, <2>1, AppendAt
    <2>3. \A i \in DOMAIN serial'[s] : i \in DOMAIN serial[s] \/ serial'[s][i] = r
      BY <2>2
    <2>4. \A i \in DOMAIN serial[s] : i \in DOMAIN serial'[s]
      BY <2>2
    <2>5. (\E i \in DOMAIN serial'[s] : serial'[s][i] = SendLeCbData)
             <=> (\E i \in DOMAIN serial[s] : serial[s][i] = SendLeCbData)
      BY <1>2, <2>2, <2>3, <2>4
    <2> QED
      BY <2>5 DEF Carried
  <1> QED
    BY <1>1, <1>2 DEF Grows

\* What Turns asks for.
LEMMA TurnsGrow ==
    ASSUME NEW s \in Side, NEW c, NEW t, Turns(s, c, t),
           t = << >> \/ (Head(t) \in Requests /\ Head(t) # SendLeCbData)
    PROVE  Grows(s)
  BY DEF Turns, Grows

\* Only send_message asks for data to be sent.
LEMMA Unsending ==
    /\ \A r \in {Disconnect, DeregisterLePsm, ConnectLePsm} : r \in Requests /\ r # SendLeCbData
    /\ \A r \in Requests : Preparing(r) => r # SendLeCbData
  BY RequestKinds, Fields, Preparations DEF Special, Preparing

\* A request that is done.
LEMMA DoneGrows ==
    ASSUME TypeOK, NEW s \in Side, SideInv(s), waiting[s] # "no", RequestDone(s)
    PROVE  Grows(s)
  <1>1. CASE Turns(s, "disconnect", <<Disconnect, DeregisterLePsm>>)
    <2>1. Head(<<Disconnect, DeregisterLePsm>>) = Disconnect
      OBVIOUS
    <2> QED
      BY <1>1, <2>1, Unsending, TurnsGrow
  <1>2. ASSUME NEW c, Turns(s, c, << >>) PROVE Grows(s)
    BY <1>2, TurnsGrow
  <1>3. CASE Len(task[s]) # 1 /\ Turns(s, call[s], Tail(task[s]))
    <2> DEFINE t == Tail(task[s])
    <2>1. /\ Popped(task[s], Request(s), t) /\ task[s] \in Seq(Requests) /\ t \in Seq(Requests)
          /\ t # << >>
      <3>1. task[s] \in Seq(Requests) /\ task[s] # << >> /\ Popped(task[s], Request(s), t)
        BY TaskOf
      <3>2. Len(task[s]) # 1
        BY <1>3
      <3>3. t \in Seq(Requests)
        BY <3>1, TailAt
      <3> HIDE DEF t
      <3>4. t # << >>
        BY <3>1, <3>2, Shorter
      <3> QED
        BY <3>1, <3>3, <3>4
    <2> HIDE DEF t
    <2>2. Head(t) = task[s][2] /\ 2 \in DOMAIN task[s] /\ Head(t) \in Requests
      <3>1. 1 \in DOMAIN t /\ Head(t) = t[1] /\ Head(t) \in Requests
        BY <2>1, TailAt DEF Popped
      <3> QED
        BY <2>1, <3>1 DEF Popped
    <2>3. CASE call[s] = "setup"
      <3>1. Planned(task[s])
        BY <2>3, TaskOf
      <3>2. Len(task[s]) \in Nat /\ DOMAIN task[s] = 1 .. Len(task[s])
        BY <2>1 DEF Popped
      <3>3. 2 = Len(task[s]) \/ 2 \in 1 .. Len(task[s]) - 1
        <4>1. \A n \in Nat : 2 \in 1 .. n => 2 = n \/ 2 \in 1 .. n - 1
          OBVIOUS
        <4>2. 2 \in 1 .. Len(task[s])
          BY <2>2, <3>2
        <4> QED
          BY <3>2, <4>1, <4>2
      <3>4. Head(t) = ConnectLePsm \/ Preparing(Head(t))
        BY <2>2, <3>1, <3>3 DEF Planned
      <3>5. Head(t) # SendLeCbData
        BY <2>2, <3>4, Unsending
      <3> QED
        BY <1>3, <2>2, <3>5, TurnsGrow DEF t
    <2>4. CASE call[s] = "disconnect"
      <3>1. task[s] = <<Disconnect, DeregisterLePsm>>
        <4>1. task[s] # <<DeregisterLePsm>>
          BY <1>3, OneAt
        <4> QED
          BY <2>4, <4>1 DEF SideInv, CallsOK
      <3>2. Head(t) = DeregisterLePsm
        BY <2>2, <3>1
      <3> QED
        BY <1>3, <3>2, Unsending, TurnsGrow DEF t
    <2> QED
      BY <1>3, <2>3, <2>4, TaskOf
  <1> QED
    BY <1>1, <1>2, <1>3, DoneRun

\* An exception.
LEMMA RaisedGrows ==
    ASSUME TypeOK, NEW s \in Side, waiting[s] # "no", Raises(s)
    PROVE  Grows(s)
  <1>1. Head(<<DeregisterLePsm>>) = DeregisterLePsm
    OBVIOUS
  <1>2. Turns(s, "disconnect", <<DeregisterLePsm>>) => Grows(s)
    BY <1>1, Unsending, TurnsGrow
  <1>3. ASSUME NEW c, Turns(s, c, << >>) PROVE Grows(s)
    BY <1>3, TurnsGrow
  <1> QED
    BY <1>2, <1>3, RaisedRun

\* All that a host does of its own.
LEMMA HostGrows ==
    ASSUME TypeOK, NEW s \in Side, SideInv(s),
           Write(s) \/ Read(s) \/ Expires(s) \/ OrphanEnds(s)
    PROVE  Grows(s)
  <1>1. CASE Write(s)
    <2>1. /\ task[s] # << >> /\ waiting[s] = "no" /\ Continues(s, task[s]) /\ call' = call
          /\ task[s] \in Seq(Requests) /\ call[s] \in Calls /\ call[s] \notin Quiet
      BY <1>1, RunTypes DEF Write, RunOK
    <2>2. Turns(s, call[s], task[s])
      <3>1. call' = [call EXCEPT ![s] = call[s]]
        BY <2>1, RunTypes DEF RunOK
      <3> HIDE DEF Continues
      <3> QED
        BY <2>1, <3>1, ContinuesRun
    <2>3. call[s] = "setup" /\ Planned(task[s])
      BY <2>1 DEF Calls, Quiet, SideInv, CallsOK
    <2>4. Head(task[s]) = task[s][1] /\ 1 \in DOMAIN task[s] /\ Head(task[s]) \in Requests
          /\ Len(task[s]) \in Nat /\ DOMAIN task[s] = 1 .. Len(task[s])
      BY <2>1, TailAt DEF Popped
    <2>5. Head(task[s]) = ConnectLePsm \/ Preparing(Head(task[s]))
      <3>1. 1 = Len(task[s]) \/ 1 \in 1 .. Len(task[s]) - 1
        <4>1. \A n \in Nat : 1 \in 1 .. n => 1 = n \/ 1 \in 1 .. n - 1
          OBVIOUS
        <4>2. 1 \in 1 .. Len(task[s])
          BY <2>4
        <4> QED
          BY <2>4, <4>1, <4>2
      <3> QED
        BY <2>3, <2>4, <3>1 DEF Planned
    <2> QED
      BY <2>2, <2>4, <2>5, Unsending, TurnsGrow
  <1>2. CASE Read(s)
    <2>1. waiting[s] # "no" /\ (Raises(s) \/ RequestDone(s) \/ serial' = serial)
      <3>1. \A m : Confirms(s, m) => Raises(s) \/ RequestDone(s) \/ serial' = serial
        BY DEF Confirms
      <3>2. \A m : Ends(s, m) => Raises(s) \/ RequestDone(s) \/ serial' = serial
        BY DEF Ends, Repeats
      <3>3. \A m : Pushes(s, m) => Raises(s) \/ serial' = serial
        BY DEF Pushes, running
      <3>4. \A m : Discards(s, m) => serial' = serial
        BY DEF Discards, running
      <3>5. Drops(s) => Raises(s)
        BY DEF Drops
      <3> QED
        BY <1>2, <3>1, <3>2, <3>3, <3>4, <3>5 DEF Read
    <2> QED
      BY <2>1, DoneGrows, RaisedGrows DEF Grows
  <1>3. CASE Expires(s)
    BY <1>3, RaisedGrows DEF Expires
  <1>4. CASE OrphanEnds(s)
    BY <1>4 DEF OrphanEnds, Grows
  <1> QED
    BY <1>1, <1>2, <1>3, <1>4

\* send_message numbers what it sends and asks the board to send it.
LEMMA SendInv ==
    ASSUME TypeOK, NEW s \in Side, SideInv(s), SideInv(Other(s)), SendMessage(s)
    PROVE  TypeOK' /\ SideInv(s)' /\ SideInv(Other(s))'
  <1>1. /\ Usable(s) /\ sent[s] < MaxSends[s] /\ Starts(s, "send", <<SendLeCbData>>)
        /\ timer' = [timer EXCEPT ![s] = FALSE] /\ sent' = [sent EXCEPT ![s] = sent[s] + 1]
        /\ \E t \in BOOLEAN : timeout' = [timeout EXCEPT ![s] = t]
        /\ UNCHANGED <<connected, channel, enabled, queue, orphan, uart, board, received, missed>>
    BY DEF SendMessage
  <1>2. /\ call[s] = "idle" /\ queue[s] # NoQueue /\ connected[s]
        /\ Other(s) \in Side /\ Other(s) # s /\ Other(Other(s)) = s
        /\ \A t \in Side : t = s \/ t = Other(s)
    BY <1>1, Sides DEF Usable
  <1>3. /\ serial[s] = << >> /\ NoConfirm(s) /\ s \notin board.asking /\ ~Frozen(s) /\ Live(s)
    BY <1>2, IdleFacts DEF Live
  <1>4. RunOK' /\ Turns(s, "send", <<SendLeCbData>>) /\ Apart(Other(s))
    <2>1. <<SendLeCbData>> \in Seq(Requests) \ {<< >>}
      BY RequestKinds DEF Special
    <2>2. "send" \in Calls /\ "send" \notin Quiet
      BY DEF Calls, Quiet
    <2> QED
      BY <1>1, <2>1, <2>2, ContinuesRun DEF Starts
  <1>5. /\ call'[s] = "send" /\ task'[s] = <<SendLeCbData>> /\ waiting'[s] = "confirm"
        /\ serial'[s] = <<SendLeCbData>> /\ Request(s)' = SendLeCbData
    <2>1. Head(<<SendLeCbData>>) = SendLeCbData /\ <<SendLeCbData>> # << >>
      OBVIOUS
    <2>2. SendLeCbData.opcode # None
      BY Fields DEF Special
    <2>3. call'[s] = "send" /\ task'[s] = <<SendLeCbData>> /\ waiting'[s] = "confirm"
      BY <1>4, <2>1, <2>2 DEF Turns
    <2>4. serial'[s] = <<SendLeCbData>>
      BY <1>3, <1>4, <2>1, <2>3, AppendNone DEF Turns
    <2> QED
      BY <2>1, <2>3, <2>4 DEF Request
  <1>6. /\ sent'[s] = sent[s] + 1 /\ sent'[Other(s)] = sent[Other(s)] /\ sent' \in [Side -> Nat]
        /\ sent[s] \in Nat /\ MaxSends[s] \in Nat
    <2>1. sent \in [Side -> Nat] /\ MaxSends \in [Side -> Nat]
      BY BleLinkAssumption DEF TypeOK
    <2> QED
      BY <1>1, <1>2, <2>1
  <1>7. /\ timer' \in [Side -> BOOLEAN] /\ timer'[s] = FALSE /\ timer'[Other(s)] = timer[Other(s)]
        /\ timeout' \in [Side -> BOOLEAN]
    BY <1>1, <1>2 DEF TypeOK
  <1>8. \A t \in Side : sent'[t] <= MaxSends[t]
    <2>1. sent'[s] <= MaxSends[s]
      BY <1>1, <1>6
    <2>2. sent'[Other(s)] <= MaxSends[Other(s)]
      BY <1>2, <1>6 DEF TypeOK
    <2> QED
      BY <1>2, <2>1, <2>2
  <1>9. \A t \in Side : received'[t] \in Seq(1 .. sent'[Other(t)])
    <2>1. received[s] \in Seq(1 .. sent'[Other(s)])
      BY <1>6 DEF TypeOK
    <2>2. received[Other(s)] \in Seq(1 .. sent'[s])
      <3> DEFINE S == 1 .. sent[s]
                 T == 1 .. sent'[s]
      <3>1. received[Other(s)] \in Seq(S)
        BY <1>2 DEF TypeOK
      <3>2. S \subseteq T
        BY <1>6
      <3> HIDE DEF S, T
      <3>3. received[Other(s)] \in Seq(T)
        BY <3>1, <3>2, Widen
      <3> QED
        BY <3>3 DEF T
    <2> QED
      BY <1>1, <1>2, <2>1, <2>2
  <1>10. TypeOK'
    BY <1>1, <1>4, <1>6, <1>7, <1>8, <1>9 DEF TypeOK, RunOK, Calls, Quiet
  <1>11. Untouched(Other(s)) /\ board' = board
    BY <1>1, <1>4, <1>6, <1>7 DEF Untouched, Apart
  <1>12. Carried(s)' = Carried(s)
    <2>1. Carried(s) = sent[s]
      BY <1>3 DEF Carried
    <2>2. 1 \in DOMAIN serial'[s] /\ serial'[s][1] = SendLeCbData
      BY <1>5
    <2>3. Carried(s)' = sent'[s] - 1
      BY <2>2 DEF Carried
    <2> QED
      BY <1>6, <2>1, <2>3
  <1>13. SideInv(Other(s))'
    <2>1. sent'[s] \in Nat /\ sent'[s] >= sent[s]
      BY <1>6
    <2> QED
      BY <1>2, <1>11, <1>12, <2>1, UntouchedInv
  <1>14. Hosting(s) /\ Keeps(s)
    <2>1. Hosting(s)
      BY <1>6, <1>11 DEF Hosting, Untouched, Carried
    <2>2. (Whole(s)' => Whole(s)) /\ (Live(s)' => Live(s)) /\ call[s] # "closed"
      BY <1>1, <1>2, <1>3 DEF Whole
    <2> QED
      BY <2>1, <2>2 DEF Keeps
  <1>15. SideInv(s)'
    <2>1. CallsOK(s)'
      BY <1>1, <1>2, <1>5, <1>6, <1>7 DEF CallsOK
    <2>2. QueueOK(s)'
      BY <1>1, <1>2, <1>6 DEF SideInv, QueueOK
    <2>3. ConnectsOnce(s)'
      <3>1. SendLeCbData # Connect
        BY Fields DEF Special
      <3> QED
        BY <1>5, <3>1 DEF ConnectsOnce
    <2>4. PacketsOK(s)'
      BY <1>1, <1>14, PacketsLeft
    <2>5. SerialOK(s)'
      <3>1. SendLeCbData.opcode # None
        BY Fields DEF Special
      <3> QED
        BY <1>5, <3>1 DEF SerialOK
    <2>6. ConfirmOK(s)'
      BY <1>1, <1>3, <1>5 DEF ConfirmOK, ConfirmsIn, NoConfirm, Own
    <2>7. ChannelOK(s)'
      BY <1>1, <1>3, <1>5 DEF ChannelOK
    <2>8. DataOK(s)'
      BY <1>1, <1>5, <1>14, DataLeft
    <2> QED
      BY <2>1, <2>2, <2>3, <2>4, <2>5, <2>6, <2>7, <2>8 DEF SideInv
  <1> QED
    BY <1>10, <1>13, <1>15

\* get_message: what came before, or the next to come.
LEMMA GetInv ==
    ASSUME TypeOK, NEW s \in Side, SideInv(s), GetMessage(s)
    PROVE  TypeOK' /\ SideInv(s)' /\ Mine(s) /\ Grows(s)
  <1>1. /\ call[s] = "idle" /\ queue[s] # NoQueue /\ connected[s]
        /\ Other(s) \in Side /\ Other(s) # s /\ \A t \in Side : t = s \/ t = Other(s)
        /\ timer' = [timer EXCEPT ![s] = timeout[s]]
        /\ UNCHANGED <<connected, channel, enabled, timeout, orphan, uart, board, sent, missed>>
    BY Sides DEF GetMessage, Usable
  <1>2. /\ serial[s] = << >> /\ NoConfirm(s) /\ s \notin board.asking /\ Parting(s)
        /\ task[s] = << >> /\ waiting[s] = "no" /\ ~Frozen(s) /\ Live(s)
    BY <1>1, IdleFacts DEF Live
  <1>3. timer' \in [Side -> BOOLEAN] /\ timer'[Other(s)] = timer[Other(s)]
    BY <1>1 DEF TypeOK
  <1>4. Acts(s)
    BY <1>1, <1>3 DEF Acts, TypeOK
  <1>5. (Whole(s)' => Whole(s)) /\ NoConfirm(s)' /\ uart'[s] = uart[s]
    BY <1>1, <1>2 DEF Whole, NoConfirm
  <1>6. CASE /\ queue[s] # << >>
             /\ received' = [received EXCEPT ![s] = Append(received[s], Head(queue[s]))]
             /\ queue' = [queue EXCEPT ![s] = Tail(queue[s])] /\ UNCHANGED running
    <2>1. /\ queue \in [Side -> Seq(Nat)] /\ received \in [Side -> Seq(Nat)]
          /\ Tail(queue[s]) \in Seq(Nat) /\ Head(queue[s]) \in Nat
      BY <1>6, TailAt DEF TypeOK
    <2>2. /\ queue' \in [Side -> Seq(Nat)] /\ queue'[s] = Tail(queue[s])
          /\ queue'[Other(s)] = queue[Other(s)]
      BY <1>1, <1>6, <2>1
    <2>3. /\ received' \in [Side -> Seq(Nat)] /\ received'[Other(s)] = received[Other(s)]
          /\ received'[s] = Append(received[s], Head(queue[s]))
      <3>1. Append(received[s], Head(queue[s])) \in Seq(Nat)
        BY <2>1, AppendAt
      <3> QED
        BY <1>1, <1>6, <2>1, <3>1
    <2>4. call' = call /\ task' = task /\ waiting' = waiting /\ serial' = serial
      BY <1>6 DEF running
    <2>5. Mine(s) /\ Grows(s)
      BY <1>1, <1>3, <2>2, <2>3, <2>4 DEF Mine, Untouched, Grows
    <2>6. Keeps(s) /\ Hosting(s)
      <3>1. Live(s)' => Live(s)
        BY <1>2
      <3> QED
        BY <1>1, <1>5, <2>5, <3>1, MineHosting DEF Keeps
    <2>7. DataOK(s)' /\ QueueOK(s)' /\ received'[s] \in Seq(1 .. sent[Other(s)])
      BY <1>1, <1>5, <1>6, <2>2, <2>3, <2>6, DataTaken
    <2>8. TypeOK'
      <3>1. \A t \in Side : received'[t] \in Seq(1 .. sent'[Other(t)])
        <4>1. received'[Other(s)] \in Seq(1 .. sent[Other(Other(s))])
          BY <1>1, <2>3 DEF TypeOK
        <4> QED
          BY <1>1, <2>7, <4>1
      <3> QED
        BY <1>1, <1>3, <2>2, <2>3, <2>4, <3>1 DEF TypeOK
    <2>9. Carry(s)
      BY <1>1, <1>5, <2>6, <2>7, PacketsLeft DEF Carry
    <2>10. /\ call'[s] = "idle" /\ task'[s] = << >> /\ waiting'[s] = "no"
           /\ serial'[s] = serial[s]
      BY <1>1, <1>2, <2>4
    <2>11. SideInv(s)'
      BY <1>2, <1>5, <2>9, <2>10, Idling
    <2> QED
      BY <2>5, <2>8, <2>11
  <1>7. CASE /\ queue[s] = << >> /\ Starts(s, "receive", <<WaitForData>>)
             /\ queue' = queue /\ received' = received
    <2>1. RunOK' /\ Turns(s, "receive", <<WaitForData>>) /\ Apart(Other(s))
      <3>1. <<WaitForData>> \in Seq(Requests) \ {<< >>}
        BY RequestKinds DEF Special
      <3>2. "receive" \in Calls /\ "receive" \notin Quiet
        BY DEF Calls, Quiet
      <3> QED
        BY <1>7, <3>1, <3>2, ContinuesRun DEF Starts
    <2>2. /\ call'[s] = "receive" /\ task'[s] = <<WaitForData>> /\ waiting'[s] = "event"
          /\ serial'[s] = << >>
      <3>1. Head(<<WaitForData>>) = WaitForData /\ <<WaitForData>> # << >>
        OBVIOUS
      <3>2. WaitForData.opcode = None
        BY Fields
      <3> QED
        BY <1>2, <2>1, <3>1, <3>2 DEF Turns
    <2>3. TypeOK' /\ Mine(s)
      BY <1>1, <1>4, <1>7, <2>1, ActTypes
    <2>4. Carry(s)
      BY <1>1, <1>2, <1>5, <1>7, <2>2, <2>3, CarryLeft
    <2>5. CallsOK(s)'
      BY <1>1, <1>7, <2>2 DEF CallsOK
    <2>6. ConnectsOnce(s)'
      <3>1. WaitForData # Connect
        BY Fields DEF Special
      <3> QED
        BY <2>2, <3>1 DEF ConnectsOnce
    <2>7. SerialOK(s)' /\ ChannelOK(s)'
      BY <1>1, <1>2, <2>2 DEF SerialOK, ChannelOK
    <2>8. ConfirmOK(s)'
      BY <1>5, <2>2 DEF ConfirmOK, ConfirmsIn, NoConfirm
    <2>9. SideInv(s)'
      BY <2>4, <2>5, <2>6, <2>7, <2>8 DEF SideInv, Carry
    <2>10. Grows(s)
      BY <1>2, <2>2 DEF Grows
    <2> QED
      BY <2>3, <2>9, <2>10
  <1> QED
    BY <1>6, <1>7 DEF GetMessage

\* disconnect.
LEMMA DisconnectsInv ==
    ASSUME TypeOK, NEW s \in Side, SideInv(s), Disconnects(s)
    PROVE  TypeOK' /\ SideInv(s)' /\ Mine(s) /\ Grows(s)
  <1> DEFINE t == DisconnectTask(connected[s])
  <1>1. /\ call[s] = "idle" /\ Starts(s, "disconnect", t) /\ connected[s] \in BOOLEAN
        /\ UNCHANGED <<connected, channel, enabled, timeout, timer, queue, orphan, uart, board,
                       sent, received, missed>>
    BY DEF Disconnects, histories, TypeOK
  <1>2. /\ task[s] = << >> /\ waiting[s] = "no" /\ Parting(s) /\ s \notin board.asking
        /\ connected[s] => serial[s] = << >> /\ NoConfirm(s)
    BY <1>1, IdleFacts
  <1>3. t \in Seq(Requests) \ {<< >>}
    BY <1>1, DisconnectTasks
  <1> HIDE DEF t
  <1>4. RunOK' /\ Turns(s, "disconnect", t) /\ Apart(Other(s))
    <2>1. "disconnect" \in Calls /\ "disconnect" \notin Quiet
      BY DEF Calls, Quiet
    <2> QED
      BY <1>1, <1>3, <2>1, ContinuesRun DEF Starts
  <1>5. Acts(s)
    BY <1>1 DEF Acts, TypeOK
  <1>6. TypeOK' /\ Mine(s)
    BY <1>1, <1>4, <1>5, ActTypes
  <1>7. Live(s)' => Live(s)
    BY <1>1, <1>4 DEF Live, Turns
  <1>8. Carry(s)
    <2>1. (Whole(s)' => Whole(s)) /\ uart'[s] = uart[s] /\ call'[s] # "setup"
      BY <1>1, <1>4 DEF Whole, Turns
    <2> QED
      BY <1>1, <1>6, <1>7, <2>1, CarryLeft
  <1>9. connected'[s] = connected[s] /\ (connected[s] => NoConfirm(s)')
    BY <1>1, <1>2 DEF NoConfirm
  <1>10. CASE connected[s]
    <2>1. t = <<Disconnect, DeregisterLePsm>>
      BY <1>10, DisconnectTasks DEF t
    <2>2. Head(t) = Disconnect /\ t # << >> /\ Disconnect.opcode # None
      BY <2>1, Fields DEF Special
    <2>3. /\ call'[s] = "disconnect" /\ task'[s] = <<Disconnect, DeregisterLePsm>>
          /\ waiting'[s] = "confirm" /\ serial'[s] = Append(serial[s], Disconnect)
      BY <1>4, <2>1, <2>2 DEF Turns
    <2>4. SideInv(s)'
      BY <1>2, <1>8, <1>9, <2>3, Disconnecting
    <2>5. Grows(s)
      BY <2>3, Unsending DEF Grows
    <2> QED
      BY <1>6, <2>4, <2>5
  <1>11. CASE ~connected[s]
    <2>1. t = <<DeregisterLePsm>>
      <3>1. connected[s] = FALSE
        BY <1>1, <1>11
      <3> QED
        BY <3>1, DisconnectTasks DEF t
    <2>2. Head(t) = DeregisterLePsm /\ t # << >> /\ DeregisterLePsm.opcode # None
      BY <2>1, Fields DEF Special
    <2>3. /\ call'[s] = "disconnect" /\ task'[s] = <<DeregisterLePsm>>
          /\ waiting'[s] = "confirm" /\ serial'[s] = Append(serial[s], DeregisterLePsm)
      BY <1>4, <2>1, <2>2 DEF Turns
    <2>4. SideInv(s)'
      BY <1>2, <1>8, <1>9, <1>11, <2>3, CleansUp
    <2>5. Grows(s)
      BY <2>3, Unsending DEF Grows
    <2> QED
      BY <1>6, <2>4, <2>5
  <1> QED
    BY <1>10, <1>11

\* Whatever a host does, and whatever its application asks for.
LEMMA HostInv ==
    ASSUME LinkInv, NEW s \in Side,
           Host(s) \/ Expires(s) \/ OrphanEnds(s) \/ Application(s)
    PROVE  LinkInv'
  <1>1. /\ TypeOK /\ BoardOK /\ SideInv(s) /\ SideInv(Other(s))
        /\ Other(s) \in Side /\ Other(Other(s)) = s /\ \A t \in Side : t = s \/ t = Other(s)
    BY Sides DEF LinkInv
  <1>2. ASSUME TypeOK', SideInv(s)', Mine(s), Grows(s) PROVE LinkInv'
    <2>1. Carried(s)' = Carried(s)
      BY <1>1, <1>2, GrowsCarried DEF Mine
    <2>2. board' = board /\ Untouched(Other(s)) /\ sent'[s] = sent[s] /\ sent[s] \in Nat
      BY <1>1, <1>2 DEF Mine, TypeOK
    <2>3. SideInv(Other(s))'
      BY <1>1, <2>1, <2>2, UntouchedInv
    <2>4. BoardOK'
      BY <1>1, <2>2 DEF BoardOK, Up
    <2> QED
      BY <1>1, <1>2, <2>3, <2>4 DEF LinkInv
  <1>3. CASE SendMessage(s)
    <2>1. board' = board
      BY <1>3 DEF SendMessage
    <2>2. BoardOK'
      BY <1>1, <2>1 DEF BoardOK, Up
    <2> QED
      BY <1>1, <1>3, <2>2, SendInv DEF LinkInv
  <1>4. CASE GetMessage(s)
    BY <1>1, <1>2, <1>4, GetInv
  <1>5. CASE Disconnects(s)
    BY <1>1, <1>2, <1>5, DisconnectsInv
  <1>6. CASE Write(s)
    BY <1>1, <1>2, <1>6, WriteInv, HostGrows
  <1>7. CASE Read(s)
    BY <1>1, <1>2, <1>7, ReadInv, HostGrows
  <1>8. CASE Expires(s)
    BY <1>1, <1>2, <1>8, ExpireInv, HostGrows
  <1>9. CASE OrphanEnds(s)
    BY <1>1, <1>2, <1>9, OrphanInv, HostGrows
  <1> QED
    BY <1>3, <1>4, <1>5, <1>6, <1>7, <1>8, <1>9 DEF Host, Application

-----------------------------------------------------------------------------
(* Messages x come to those on their way, u; v is both.                       *)

\* Nothing about the channel.
Bare(u) == \A i \in DOMAIN u : ~Completes(u, i) /\ u[i].opcode # "LE_CB_DATA"

\* An element of the end is the only one of <<m>>.
LEMMA JoinedOne ==
    ASSUME NEW u, NEW m, NEW v, Joined(u, <<m>>, v)
    PROVE  /\ Len(u) \in Nat /\ Len(u) + 1 \in DOMAIN v /\ v[Len(u) + 1] = m
           /\ Len(v) = Len(u) + 1 /\ DOMAIN u = 1 .. Len(u) /\ DOMAIN v = 1 .. Len(u) + 1
           /\ \A i \in DOMAIN u : i \in DOMAIN v /\ v[i] = u[i] /\ i < Len(u) + 1
           /\ \A i \in DOMAIN v : i \in DOMAIN u \/ i = Len(u) + 1
  <1> DEFINE o == <<m>>
  <1>1. o \in Seq({m}) /\ Len(o) = 1 /\ DOMAIN o = {1} /\ o[1] = m
    BY OneAt
  <1> HIDE DEF o
  <1>2. Joined(u, o, v)
    BY DEF o
  <1>3. /\ Len(u) \in Nat /\ Len(v) = Len(u) + 1 /\ DOMAIN u = 1 .. Len(u)
        /\ DOMAIN v = 1 .. Len(u) + 1 /\ Len(u) + 1 \in DOMAIN v /\ v[Len(u) + 1] = m
    BY <1>1, <1>2 DEF Joined
  <1>4. \A i \in DOMAIN u : i \in DOMAIN v /\ v[i] = u[i] /\ i < Len(u) + 1
    BY <1>2, <1>3 DEF Joined
  <1>5. \A i \in DOMAIN v : i \in DOMAIN u \/ i = Len(u) + 1
    BY <1>3
  <1> QED
    BY <1>3, <1>4, <1>5

\* No CONFIRM comes: those on their way stay what they are.
LEMMA ConfirmsMore ==
    ASSUME NEW u, NEW x, NEW v, Joined(u, x, v), \A i \in DOMAIN x : x[i].opcode # "CONFIRM",
           NEW q, NEW r, NEW w, NEW c, NEW whole, ConfirmsIn(u, q, r, w, c, whole)
    PROVE  ConfirmsIn(v, q, r, w, c, whole)
  <1>1. /\ \A i \in DOMAIN v : v[i].opcode = "CONFIRM" => i \in DOMAIN u /\ v[i] = u[i]
        /\ \A i \in DOMAIN u : i \in DOMAIN v /\ v[i] = u[i]
    BY DEF Joined
  <1>2. /\ \A i \in DOMAIN v : Own(v, r, i) => i \in DOMAIN u /\ Own(u, r, i)
        /\ \A i \in DOMAIN u : Own(u, r, i) => Own(v, r, i)
    BY <1>1 DEF Own
  <1>3. \A i \in DOMAIN v : v[i].opcode = "CONFIRM" =>
          \/ w = "confirm" /\ Own(v, r, i) /\ q = << >>
          \/ c /\ v[i].group # "L2CAP"
    BY <1>1, <1>2 DEF ConfirmsIn
  <1>4. w = "confirm" =>
          /\ \A i, j \in DOMAIN v : Own(v, r, i) /\ Own(v, r, j) => i = j
          /\ whole /\ q = << >> => \E i \in DOMAIN v : Own(v, r, i)
    BY <1>1, <1>2 DEF ConfirmsIn
  <1> QED
    BY <1>3, <1>4 DEF ConfirmsIn

\* The CONFIRM of the current request comes.
LEMMA ConfirmsOwn ==
    ASSUME NEW u, NEW k, NEW v, Joined(u, <<k>>, v), NEW q, NEW r, NEW c, NEW whole,
           ConfirmsIn(u, q, r, "confirm", c, whole), q # << >>, c => r.group = "L2CAP",
           k.opcode = "CONFIRM", k.group = r.group
    PROVE  ConfirmsIn(v, << >>, r, "confirm", c, whole)
  <1>1. /\ Len(u) + 1 \in DOMAIN v /\ v[Len(u) + 1] = k
        /\ \A i \in DOMAIN u : i \in DOMAIN v /\ v[i] = u[i]
        /\ \A i \in DOMAIN v : i \in DOMAIN u \/ i = Len(u) + 1
    BY JoinedOne
  <1>2. \A i \in DOMAIN u : u[i].opcode = "CONFIRM" => c /\ u[i].group # "L2CAP"
    BY DEF ConfirmsIn
  <1>3. \A i \in DOMAIN u : ~Own(u, r, i)
    BY <1>2 DEF Own
  <1>4. \A i \in DOMAIN v : Own(v, r, i) <=> i = Len(u) + 1
    BY <1>1, <1>3 DEF Own
  <1>5. \A i \in DOMAIN v : v[i].opcode = "CONFIRM" => Own(v, r, i) \/ (c /\ v[i].group # "L2CAP")
    BY <1>1, <1>2, <1>4
  <1> QED
    BY <1>1, <1>4, <1>5 DEF ConfirmsIn

\* That of a Disconnect comes that was given up.
LEMMA ConfirmsGivenUp ==
    ASSUME NEW u, NEW k, NEW v, Joined(u, <<k>>, v), NEW q, NEW p, NEW r, NEW w, NEW whole,
           ConfirmsIn(u, q, r, w, TRUE, whole), q # << >>, p # << >>, r.group = "L2CAP",
           k.group # "L2CAP"
    PROVE  ConfirmsIn(v, p, r, w, TRUE, whole)
  <1>1. /\ v[Len(u) + 1] = k
        /\ \A i \in DOMAIN u : v[i] = u[i]
        /\ \A i \in DOMAIN v : i \in DOMAIN u \/ i = Len(u) + 1
    BY JoinedOne
  <1>2. \A i \in DOMAIN u : u[i].opcode = "CONFIRM" => u[i].group # "L2CAP"
    BY DEF ConfirmsIn
  <1>3. \A i \in DOMAIN v : v[i].opcode = "CONFIRM" => v[i].group # "L2CAP"
    BY <1>1, <1>2
  <1>4. \A i \in DOMAIN v : ~Own(v, r, i)
    BY <1>3 DEF Own
  <1> QED
    BY <1>3, <1>4 DEF ConfirmsIn

\* What came before a position of u is still there.
LEMMA AnsweringMore ==
    ASSUME NEW u, NEW x, NEW v, Joined(u, x, v), NEW q, NEW r, NEW w, NEW p \in Nat,
           NEW n \in Nat, p <= n, Answering(u, q, r, w, p)
    PROVE  Answering(v, q, r, w, n)
  <1>1. \A i \in DOMAIN u : i \in DOMAIN v /\ v[i] = u[i] /\ i \in Nat
    BY DEF Joined
  <1>2. CASE w = "event"
    BY <1>2 DEF Answering
  <1>3. CASE w = "confirm" /\ \E c \in DOMAIN u : c < p /\ Own(u, r, c) /\ u[c].ok
    <2>1. PICK c \in DOMAIN u : c < p /\ Own(u, r, c) /\ u[c].ok
      BY <1>3
    <2>2. c \in DOMAIN v /\ c < n /\ Own(v, r, c) /\ v[c].ok
      BY <1>1, <2>1 DEF Own
    <2> QED
      BY <1>3, <2>2 DEF Answering
  <1> QED
    BY <1>2, <1>3 DEF Answering

\* Nothing about the channel comes, or nothing is there.
LEMMA OpenedMore ==
    ASSUME NEW u, NEW x, NEW v, Joined(u, x, v), Bare(x), NEW q, NEW r, NEW w,
           OpenedIn(u, q, r, w)
    PROVE  OpenedIn(v, q, r, w)
  <1>1. /\ \A i \in DOMAIN v :
              \/ i \in DOMAIN u /\ v[i] = u[i]
              \/ ~Completes(v, i) /\ v[i].opcode # "LE_CB_DATA"
        /\ \A i \in DOMAIN u : i \in DOMAIN v /\ v[i] = u[i] /\ i \in Nat /\ i <= i
    BY DEF Joined, Bare, Completes
  <1>2. \A i \in DOMAIN v : Completes(v, i) => i \in DOMAIN u /\ Completes(u, i)
    BY <1>1 DEF Completes
  <1>3. \A i \in DOMAIN v : Completes(v, i) => Answering(v, q, r, w, i)
    BY <1>1, <1>2, AnsweringMore DEF OpenedIn
  <1>4. \A d \in DOMAIN v : v[d].opcode = "LE_CB_DATA" =>
          \E i \in DOMAIN v : i < d /\ v[i] = ConnectionComplete
    BY <1>1 DEF OpenedIn
  <1>5. \A i, j \in DOMAIN v : Completes(v, i) /\ Completes(v, j) => i = j
    BY <1>2 DEF OpenedIn
  <1> QED
    BY <1>3, <1>4, <1>5 DEF OpenedIn

\* The request for the channel waits on.
LEMMA AskedMore ==
    ASSUME NEW u, NEW x, NEW v, Joined(u, x, v), Bare(x), NEW q, NEW r, NEW w,
           AskedIn(u, q, r, w)
    PROVE  AskedIn(v, q, r, w)
  <1>1. /\ Len(u) + 1 \in Nat /\ Len(v) + 1 \in Nat /\ Len(u) + 1 <= Len(v) + 1
    BY DEF Joined
  <1>2. Answering(v, q, r, w, Len(v) + 1)
    BY <1>1, AnsweringMore DEF AskedIn
  <1>3. \A i \in DOMAIN v : ~Completes(v, i)
    BY DEF Joined, Bare, AskedIn, Completes
  <1> QED
    BY <1>2, <1>3 DEF AskedIn

\* The answer to it comes.
LEMMA OpenedComplete ==
    ASSUME NEW u, NEW m, NEW v, Joined(u, <<m>>, v), NEW q, NEW r, NEW w,
           AskedIn(u, q, r, w), Bare(u), m.opcode = "CONNECTION_COMPLETE"
    PROVE  OpenedIn(v, q, r, w)
  <1>1. /\ Len(u) + 1 \in DOMAIN v /\ v[Len(u) + 1] = m /\ Len(u) + 1 \in Nat
        /\ Len(u) + 1 <= Len(u) + 1
        /\ \A i \in DOMAIN u : i \in DOMAIN v /\ v[i] = u[i]
        /\ \A i \in DOMAIN v : i \in DOMAIN u \/ i = Len(u) + 1
    BY JoinedOne
  <1>2. \A i \in DOMAIN v : Completes(v, i) => i = Len(u) + 1
    BY <1>1 DEF Bare, Completes
  <1>3. Answering(v, q, r, w, Len(u) + 1)
    BY <1>1, AnsweringMore DEF AskedIn
  <1>4. \A i \in DOMAIN v : v[i].opcode # "LE_CB_DATA"
    BY <1>1 DEF Bare
  <1> QED
    BY <1>2, <1>3, <1>4 DEF OpenedIn

\* Data comes through the open channel.
LEMMA OpenedData ==
    ASSUME NEW u, NEW m, NEW v, Joined(u, <<m>>, v), NEW q, NEW r, NEW w,
           OpenedIn(u, q, r, w), m.opcode = "LE_CB_DATA",
           \E i \in DOMAIN u : u[i] = ConnectionComplete
    PROVE  OpenedIn(v, q, r, w)
  <1>1. /\ Len(u) + 1 \in DOMAIN v /\ v[Len(u) + 1] = m
        /\ \A i \in DOMAIN u : i \in DOMAIN v /\ v[i] = u[i] /\ i < Len(u) + 1
        /\ \A i \in DOMAIN v : i \in DOMAIN u \/ i = Len(u) + 1
        /\ \A i \in DOMAIN u : i \in Nat /\ i <= i
    BY JoinedOne
  <1>2. \A i \in DOMAIN v : Completes(v, i) => i \in DOMAIN u /\ Completes(u, i)
    BY <1>1 DEF Completes
  <1>3. \A i \in DOMAIN v : Completes(v, i) => Answering(v, q, r, w, i)
    BY <1>1, <1>2, AnsweringMore DEF OpenedIn
  <1>4. \A d \in DOMAIN u : u[d].opcode = "LE_CB_DATA" =>
          \E i \in DOMAIN u : i < d /\ u[i] = ConnectionComplete
    BY DEF OpenedIn
  <1>5. \A d \in DOMAIN v : v[d].opcode = "LE_CB_DATA" =>
          \E i \in DOMAIN v : i < d /\ v[i] = ConnectionComplete
    BY <1>1, <1>4
  <1>6. \A i, j \in DOMAIN v : Completes(v, i) /\ Completes(v, j) => i = j
    BY <1>2 DEF OpenedIn
  <1> QED
    BY <1>3, <1>5, <1>6 DEF OpenedIn

-----------------------------------------------------------------------------
(* A step of the boards leaves the hosts alone.                              *)

\* What the hosts are at, and what they have, stays.
Silent ==
    /\ call' = call /\ task' = task /\ waiting' = waiting /\ connected' = connected
    /\ channel' = channel /\ enabled' = enabled /\ timeout' = timeout /\ timer' = timer
    /\ queue' = queue /\ orphan' = orphan /\ sent' = sent /\ received' = received
    /\ missed' = missed

\* The end of a link is final, and ends its channel.
Later ==
    /\ board.open \/ board.link = "down" => board'.open \/ board'.link = "down"
    /\ board.link = "down" => board'.link = "down"

\* The board of t has carried out a request, or none.
Fewer(t) ==
    \/ serial'[t] = serial[t]
    \/ serial[t] # << >> /\ serial'[t] = Tail(serial[t])

\* Messages x come to t.
Hears(t, x) ==
    /\ x \in Seq(Messages) /\ uart'[t] = uart[t] \o x /\ call[t] # "closed"

\* What the hosts are at does not change.
LEMMA SilentFacts ==
    ASSUME Silent, NEW t \in Side
    PROVE  /\ Live(t)' <=> Live(t)
           /\ Frozen(t)' <=> Frozen(t)
           /\ CleaningUp(t)' = CleaningUp(t) /\ Whole(t)' = Whole(t)
           /\ Request(t)' = Request(t) /\ Gathered(t)' = Gathered(t)
  BY DEF Silent, Live, Frozen, CleaningUp, Whole, Request, Gathered

\* What is left in a serial line was there.
LEMMA FewerAt ==
    ASSUME TypeOK, NEW t \in Side, Fewer(t)
    PROVE  /\ \A i \in DOMAIN serial'[t] : \E j \in DOMAIN serial[t] : serial'[t][i] = serial[t][j]
           /\ serial'[t] \in Seq(Requests)
  <1>1. serial[t] \in Seq(Requests)
    BY DEF TypeOK
  <1>2. CASE serial'[t] = serial[t]
    BY <1>1, <1>2
  <1>3. CASE serial[t] # << >> /\ serial'[t] = Tail(serial[t])
    <2>1. serial'[t] \in Seq(Requests) /\ Popped(serial[t], Head(serial[t]), serial'[t])
      BY <1>1, <1>3, TailAt
    <2> QED
      BY <2>1 DEF Popped
  <1> QED
    BY <1>2, <1>3 DEF Fewer

\* The calls and their queues.
LEMMA SilentCalls ==
    ASSUME Silent, Later, NEW t \in Side, SideInv(t)
    PROVE  CallsOK(t)' /\ QueueOK(t)'
  <1>1. CallsOK(t)'
    BY DEF Silent, SideInv, CallsOK, Whole
  <1>2. QueueOK(t)'
    BY DEF Silent, Later, SideInv, QueueOK
  <1> QED
    BY <1>1, <1>2

\* The request to connect.
LEMMA ConnectsLeft ==
    ASSUME TypeOK, Silent, NEW t \in Side, SideInv(t), Fewer(t),
           board.link = "none" => board'.link = "none"
    PROVE  ConnectsOnce(t)'
  <1>1. \A i \in DOMAIN serial'[t] :
           serial'[t][i] = Connect => t = "device" /\ board'.link = "none"
    BY FewerAt DEF SideInv, ConnectsOnce
  <1>2. \A i \in DOMAIN task'[t] : task'[t][i] = Connect =>
          /\ t = "device"
          /\ i > 1 \/ waiting'[t] = "no" => board'.link = "none"
          /\ \A j \in DOMAIN task'[t] : task'[t][j] = Connect => i = j
    BY DEF SideInv, ConnectsOnce, Silent
  <1> QED
    BY <1>1, <1>2 DEF ConnectsOnce

\* Nothing comes through a closed port.
LEMMA ClosedInv ==
    ASSUME TypeOK, Silent, Later, NEW t \in Side, SideInv(t), Fewer(t), call[t] = "closed",
           uart'[t] = << >>, ConnectsOnce(t)', t \notin board'.asking
    PROVE  SideInv(t)'
  <1>1. CallsOK(t)' /\ QueueOK(t)' /\ Frozen(t)' /\ call'[t] = "closed"
    BY SilentCalls DEF Frozen, Silent
  <1>2. SerialOK(t)'
    <2>1. \A i \in DOMAIN serial[t] :
             /\ serial[t][i].opcode # None
             /\ serial[t][i] \in {Disconnect, DeregisterLePsm} \/ board.link = "down"
      BY DEF SideInv, SerialOK
    <2>2. \A i \in DOMAIN serial'[t] :
             /\ serial'[t][i].opcode # None
             /\ serial'[t][i] \in {Disconnect, DeregisterLePsm} \/ board'.link = "down"
      BY <2>1, FewerAt DEF Later
    <2> QED
      BY <1>1, <2>2 DEF SerialOK
  <1>3. PacketsOK(t)'
    BY DEF PacketsOK
  <1>4. ConfirmOK(t)' /\ ChannelOK(t)'
    BY <1>1 DEF ConfirmOK, ChannelOK
  <1>5. DataOK(t)'
    BY <1>1, SilentFacts DEF DataOK, SideInv, Silent
  <1> QED
    BY <1>1, <1>2, <1>3, <1>4, <1>5 DEF SideInv

\* What PacketsOK says of one message: the other side has sent n, the board is b.
PacketOK(n, b, m) ==
    /\ m.opcode = "LE_CB_DATA" => m = Data(m.n) /\ m.n \in 1 .. n
    /\ m.opcode = "CONNECTION_COMPLETE" => m \in {ConnectionComplete, Failed(ConnectionComplete)}
    /\ m.opcode = "DISCONNECTED" => m = Disconnected /\ b.link = "down"
    /\ m = ConnectionComplete => b.open \/ b.link = "down"

\* The messages that come and those that came before.
LEMMA PacketsMore ==
    ASSUME TypeOK, Silent, Later, NEW t \in Side, SideInv(t), NEW x, Hears(t, x),
           \A i \in DOMAIN x : PacketOK(sent[Other(t)], board', x[i])
    PROVE  PacketsOK(t)'
  <1>1. Joined(uart[t], x, uart'[t])
    <2>1. uart[t] \in Seq(Messages)
      BY DEF TypeOK
    <2> QED
      BY <2>1, JoinAt DEF Hears
  <1>2. \A i \in DOMAIN uart[t] : PacketOK(sent[Other(t)], board, uart[t][i])
    BY DEF SideInv, PacketsOK, PacketOK
  <1>3. \A m : PacketOK(sent[Other(t)], board, m) => PacketOK(sent[Other(t)], board', m)
    BY DEF PacketOK, Later
  <1>4. \A i \in DOMAIN uart'[t] : PacketOK(sent[Other(t)], board', uart'[t][i])
    BY <1>1, <1>2, <1>3 DEF Joined
  <1> QED
    BY <1>4 DEF PacketsOK, PacketOK, Silent

\* No data comes.
LEMMA DataHeard ==
    ASSUME TypeOK, Silent, NEW t \in Side, SideInv(t), NEW x, Hears(t, x),
           \A i \in DOMAIN x : ~IsData(x[i]),
           Up' => Up /\ Carried(Other(t))' = Carried(Other(t))
    PROVE  DataOK(t)'
  <1>1. uart[t] \in Seq(Messages) /\ x \in Seq(Messages) /\ uart'[t] = uart[t] \o x
    BY DEF TypeOK, Hears
  <1>2. Gathered(t) \in Nat
    BY LengthsOK DEF Lengths
  <1>3. \A last \in Nat :
           InOrder(uart[t], Gathered(t), last) => InOrder(uart'[t], Gathered(t), last)
    BY <1>1, <1>2, InOrderMore
  <1>4. Live(t)' /\ call'[t] # "closed" /\ (call'[t] = "setup" \/ queue'[t] # NoQueue) /\ Whole(t)' =>
          \E last \in Nat : /\ Up' => last = Carried(Other(t))'
                            /\ InOrder(uart'[t], Gathered(t)', last)
    BY <1>3, SilentFacts DEF SideInv, DataOK, Silent
  <1> QED
    BY <1>4, SilentFacts DEF SideInv, DataOK, Silent

\* The serial line of a side whose board does nothing.
LEMMA SerialLeft ==
    ASSUME Silent, Later, NEW t \in Side, SideInv(t), serial'[t] = serial[t]
    PROVE  SerialOK(t)'
  BY SilentFacts DEF SideInv, SerialOK, Silent, Later

\* No CONFIRM comes, and the board of t does nothing for it.
LEMMA ConfirmHeard ==
    ASSUME TypeOK, Silent, NEW t \in Side, SideInv(t), serial'[t] = serial[t],
           NEW x, Hears(t, x), \A i \in DOMAIN x : x[i].opcode # "CONFIRM"
    PROVE  ConfirmOK(t)'
  <1>1. Joined(uart[t], x, uart'[t])
    <2>1. uart[t] \in Seq(Messages)
      BY DEF TypeOK
    <2> QED
      BY <2>1, JoinAt DEF Hears
  <1>2. Live(t) /\ ~Frozen(t) =>
           ConfirmsIn(uart'[t], serial[t], Request(t), waiting[t], CleaningUp(t), Whole(t))
    BY <1>1, ConfirmsMore DEF SideInv, ConfirmOK
  <1> QED
    BY <1>2, SilentFacts DEF ConfirmOK, Silent

\* What a driver only notices when it waits for it, or when the link is down.
Noise(b, m) ==
    /\ m.opcode \notin {"CONFIRM", "CONNECTION_COMPLETE", "LE_CB_DATA"}
    /\ m.opcode = "DISCONNECTED" => m = Disconnected /\ b.link = "down"

\* The other side's board reports something, or nothing.
LEMMA ListenInv ==
    ASSUME TypeOK, Silent, Later, NEW t \in Side, SideInv(t), serial'[t] = serial[t],
           NEW x, Hears(t, x), \A i \in DOMAIN x : Noise(board', x[i]),
           ConnectsOnce(t)', DataOK(t)',
           t \in board'.asking => t \in board.asking, board'.open => board.open
    PROVE  SideInv(t)'
  <1>1. Joined(uart[t], x, uart'[t]) /\ Bare(x) /\ \A i \in DOMAIN x : x[i].opcode # "CONFIRM"
    <2>1. uart[t] \in Seq(Messages)
      BY DEF TypeOK
    <2>2. Joined(uart[t], x, uart'[t])
      BY <2>1, JoinAt DEF Hears
    <2> QED
      BY <2>2 DEF Bare, Noise, Completes
  <1>2. CallsOK(t)' /\ QueueOK(t)' /\ SerialOK(t)'
    BY SilentCalls, SerialLeft
  <1>3. PacketsOK(t)'
    <2>1. \A m : Noise(board', m) => PacketOK(sent[Other(t)], board', m)
      BY Reported DEF Noise, PacketOK
    <2> QED
      BY <2>1, PacketsMore
  <1>4. ConfirmOK(t)'
    BY <1>1, ConfirmHeard
  <1>5. ChannelOK(t)'
    <2>1. t \in board.asking =>
             call[t] = "setup" /\ AskedIn(uart'[t], serial[t], Request(t), waiting[t])
      BY <1>1, AskedMore DEF SideInv, ChannelOK
    <2>2. call[t] = "setup" => OpenedIn(uart'[t], serial[t], Request(t), waiting[t])
      BY <1>1, OpenedMore DEF SideInv, ChannelOK
    <2>3. call[t] = "setup" /\ board.open => \E i \in DOMAIN uart'[t] : uart'[t][i] = ConnectionComplete
      BY <1>1 DEF SideInv, ChannelOK, Joined
    <2> QED
      BY <2>1, <2>2, <2>3, SilentFacts DEF ChannelOK, Silent
  <1> QED
    BY <1>2, <1>3, <1>4, <1>5 DEF SideInv

\* The side that asks for the channel hears of it.
LEMMA CompleteInv ==
    ASSUME TypeOK, Silent, Later, NEW t \in Side, SideInv(t), serial'[t] = serial[t],
           NEW m \in {ConnectionComplete, Failed(ConnectionComplete)}, Hears(t, <<m>>),
           ConnectsOnce(t)', DataOK(t)',
           t \in board.asking, t \notin board'.asking, board'.open <=> m = ConnectionComplete
    PROVE  SideInv(t)'
  <1>1. /\ m.opcode = "CONNECTION_COMPLETE" /\ <<m>> \in Seq({m}) /\ DOMAIN <<m>> = {1}
        /\ <<m>>[1] = m
    BY Reported, OneAt
  <1>2. Joined(uart[t], <<m>>, uart'[t])
    <2>1. uart[t] \in Seq(Messages)
      BY DEF TypeOK
    <2> QED
      BY <2>1, JoinAt DEF Hears
  <1>3. CallsOK(t)' /\ QueueOK(t)' /\ SerialOK(t)'
    BY SilentCalls, SerialLeft
  <1>4. PacketsOK(t)'
    <2>1. PacketOK(sent[Other(t)], board', m)
      BY <1>1 DEF PacketOK
    <2> QED
      BY <1>1, <2>1, PacketsMore
  <1>5. ConfirmOK(t)'
    BY <1>1, ConfirmHeard
  <1>6. call[t] = "setup" /\ AskedIn(uart[t], serial[t], Request(t), waiting[t])
    BY DEF SideInv, ChannelOK
  <1>7. Bare(uart[t])
    <2>1. \A i \in DOMAIN uart[t] : ~Completes(uart[t], i)
      BY <1>6 DEF AskedIn
    <2>2. \A i \in DOMAIN uart[t] : uart[t][i] # ConnectionComplete
      BY <2>1, Reported DEF Completes
    <2>3. \A i \in DOMAIN uart[t] : uart[t][i].opcode # "LE_CB_DATA"
      BY <1>6, <2>2 DEF SideInv, ChannelOK, OpenedIn
    <2> QED
      BY <2>1, <2>3 DEF Bare
  <1>8. OpenedIn(uart'[t], serial[t], Request(t), waiting[t])
    BY <1>1, <1>2, <1>6, <1>7, OpenedComplete
  <1>9. \E i \in DOMAIN uart'[t] : uart'[t][i] = m
    <2>1. Len(uart[t]) + 1 \in DOMAIN uart'[t] /\ uart'[t][Len(uart[t]) + 1] = m
      BY <1>2, JoinedOne
    <2> QED
      BY <2>1
  <1>10. ChannelOK(t)'
    BY <1>8, <1>9, SilentFacts DEF ChannelOK, Silent
  <1> QED
    BY <1>3, <1>4, <1>5, <1>10 DEF SideInv

\* Data comes to t, the next of the other side.
LEMMA DataInv ==
    ASSUME TypeOK, Silent, NEW t \in Side, SideInv(t), serial'[t] = serial[t], board' = board,
           NEW n \in Nat \ {0}, n = sent[Other(t)], Hears(t, <<Data(n)>>), ConnectsOnce(t)',
           Up, board.open, Carried(Other(t)) = n - 1, Carried(Other(t))' = n
    PROVE  SideInv(t)'
  <1> DEFINE d == Data(n)
             x == <<d>>
  <1>1. /\ d \in Messages /\ IsData(d) /\ d.n = n /\ d = Data(d.n)
    BY DataFields DEF IsData
  <1> HIDE DEF d
  <1>2. DOMAIN x = {1} /\ x[1] = d
    BY <1>1, OneAt
  <1> HIDE DEF x
  <1>3. Hears(t, x)
    BY DEF x, d
  <1>4. Joined(uart[t], x, uart'[t]) /\ uart[t] \in Seq(Messages)
    <2>1. uart[t] \in Seq(Messages)
      BY DEF TypeOK
    <2> QED
      BY <1>3, <2>1, JoinAt DEF Hears
  <1>5. Later
    BY DEF Later
  <1>6. CallsOK(t)' /\ QueueOK(t)' /\ SerialOK(t)'
    BY <1>5, SilentCalls, SerialLeft
  <1>7. PacketsOK(t)'
    <2>1. PacketOK(sent[Other(t)], board', d)
      BY <1>1, Reported DEF PacketOK, IsData
    <2> QED
      BY <1>2, <1>3, <1>5, <2>1, PacketsMore
  <1>8. ConfirmOK(t)'
    BY <1>1, <1>2, <1>3, ConfirmHeard DEF IsData
  <1>9. ChannelOK(t)'
    <2>1. t \notin board.asking
      <3>1. t \in board.asking => /\ call[t] = "setup"
                                  /\ \A i \in DOMAIN uart[t] : ~Completes(uart[t], i)
        BY DEF SideInv, ChannelOK, AskedIn
      <3>2. call[t] = "setup" => \E i \in DOMAIN uart[t] : uart[t][i] = ConnectionComplete
        BY DEF SideInv, ChannelOK
      <3> QED
        BY <3>1, <3>2, Reported DEF Completes
    <2>2. ASSUME call[t] = "setup"
          PROVE  /\ OpenedIn(uart'[t], serial[t], Request(t), waiting[t])
                 /\ \E i \in DOMAIN uart'[t] : uart'[t][i] = ConnectionComplete
      <3>1. /\ OpenedIn(uart[t], serial[t], Request(t), waiting[t])
            /\ \E i \in DOMAIN uart[t] : uart[t][i] = ConnectionComplete
        BY <2>2 DEF SideInv, ChannelOK
      <3>2. Joined(uart[t], <<d>>, uart'[t])
        BY <1>4 DEF x
      <3>3. OpenedIn(uart'[t], serial[t], Request(t), waiting[t])
        BY <1>1, <3>1, <3>2, OpenedData DEF IsData
      <3> QED
        BY <1>4, <3>1, <3>3 DEF Joined
    <2> QED
      BY <2>1, <2>2, SilentFacts DEF ChannelOK, Silent
  <1>10. DataOK(t)'
    <2>1. Gathered(t) \in Nat /\ n - 1 \in Nat /\ n - 1 + 1 = n
      BY LengthsOK DEF Lengths
    <2>2. InOrder(uart[t], Gathered(t), n - 1) => InOrder(uart'[t], Gathered(t), n)
      <3> DEFINE k == n - 1
      <3>1. k \in Nat /\ d = Data(k + 1) /\ k + 1 = n
        BY <2>1 DEF d
      <3>2. uart'[t] = uart[t] \o <<d>>
        BY <1>3 DEF Hears, x
      <3> HIDE DEF k
      <3>3. ASSUME InOrder(uart[t], Gathered(t), k) PROVE InOrder(uart'[t], Gathered(t), k + 1)
        <4>1. Gathered(t) <= k
          BY <3>3 DEF InOrder
        <4>2. InOrder(uart[t] \o <<Data(k + 1)>>, Gathered(t), k + 1)
          BY <1>4, <2>1, <3>1, <3>3, <4>1, InOrderNext
        <4> QED
          BY <3>1, <3>2, <4>2
      <3> QED
        BY <3>1, <3>3 DEF k
    <2>3. Live(t) /\ call[t] # "closed" /\ (call[t] = "setup" \/ queue[t] # NoQueue) /\ Whole(t) =>
             InOrder(uart[t], Gathered(t), n - 1)
      BY DEF SideInv, DataOK
    <2>4. Live(t)' /\ call'[t] # "closed" /\ (call'[t] = "setup" \/ queue'[t] # NoQueue) /\ Whole(t)' =>
             InOrder(uart'[t], Gathered(t)', n)
      BY <2>2, <2>3, SilentFacts DEF Silent
    <2> QED
      BY <2>4, SilentFacts DEF SideInv, DataOK, Silent
  <1> QED
    BY <1>6, <1>7, <1>8, <1>9, <1>10 DEF SideInv

-----------------------------------------------------------------------------
(* The board of s carries out a request, r, and answers with k and y.         *)

\* Where the call is that made the request.
LEMMA OwnFacts ==
    ASSUME TypeOK, NEW s \in Side, SideInv(s), serial[s] # << >>, NEW r, r = Head(serial[s])
    PROVE  /\ r \in Requests /\ r.opcode # None /\ r = serial[s][1] /\ 1 \in DOMAIN serial[s]
           /\ Popped(serial[s], r, Tail(serial[s])) /\ s \notin board.asking
           /\ call[s] = "setup" =>
                 /\ waiting[s] = "confirm" /\ r = Request(s) /\ Tail(serial[s]) = << >>
                 /\ Bare(uart[s]) /\ ~board.open /\ (r = ConnectLePsm \/ Preparing(r))
           /\ Live(s) /\ ~Frozen(s) =>
                 /\ waiting[s] = "confirm"
                 /\ \/ r = Request(s) /\ Tail(serial[s]) = << >>
                    \/ /\ CleaningUp(s) /\ r = Disconnect /\ Request(s) = DeregisterLePsm
                       /\ Tail(serial[s]) = <<DeregisterLePsm>>
           /\ r \notin {Disconnect, DeregisterLePsm} /\ board.link # "down" =>
                 /\ waiting[s] = "confirm" /\ r = Request(s) /\ Tail(serial[s]) = << >>
                 /\ \/ call[s] = "setup" /\ (r = ConnectLePsm \/ Preparing(r))
                    \/ call[s] = "send" /\ r = SendLeCbData
  <1>1. serial[s] \in Seq(Requests)
    BY DEF TypeOK
  <1>2. /\ r \in Requests /\ r = serial[s][1] /\ 1 \in DOMAIN serial[s]
        /\ Popped(serial[s], r, Tail(serial[s]))
    BY <1>1, TailAt DEF Popped
  <1>3. r.opcode # None
    BY <1>2 DEF SideInv, SerialOK
  <1>4. serial[s] = <<Request(s)>> => r = Request(s) /\ Tail(serial[s]) = << >>
    BY OneAt
  <1>5. ASSUME waiting[s] = "confirm", call[s] = "setup"
        PROVE  Request(s) = ConnectLePsm \/ Preparing(Request(s))
    BY <1>5, TaskOf
  <1>6. ASSUME call[s] = "setup"
        PROVE  /\ waiting[s] = "confirm" /\ r = Request(s) /\ Tail(serial[s]) = << >>
               /\ Bare(uart[s]) /\ ~board.open
    <2>1. Live(s) /\ ~Frozen(s) /\ ~CleaningUp(s)
      BY <1>6 DEF Live, Frozen, CleaningUp
    <2>2. waiting[s] = "confirm" /\ serial[s] = <<Request(s)>>
      BY <2>1 DEF SideInv, SerialOK
    <2>3. \A p : ~Answering(uart[s], serial[s], Request(s), waiting[s], p)
      BY DEF Answering
    <2>4. \A i \in DOMAIN uart[s] : ~Completes(uart[s], i)
      BY <1>6, <2>3 DEF SideInv, ChannelOK, OpenedIn
    <2>5. \A i \in DOMAIN uart[s] : uart[s][i] # ConnectionComplete
      BY <2>4, Reported DEF Completes
    <2>6. (\A i \in DOMAIN uart[s] : uart[s][i].opcode # "LE_CB_DATA") /\ ~board.open
      BY <1>6, <2>5 DEF SideInv, ChannelOK, OpenedIn
    <2> QED
      BY <1>4, <2>2, <2>4, <2>6 DEF Bare
  <1>7. s \notin board.asking
    BY DEF SideInv, ChannelOK, AskedIn, Answering
  <1>8. ASSUME Live(s), ~Frozen(s)
        PROVE  /\ waiting[s] = "confirm"
               /\ \/ r = Request(s) /\ Tail(serial[s]) = << >>
                  \/ /\ CleaningUp(s) /\ r = Disconnect /\ Request(s) = DeregisterLePsm
                     /\ Tail(serial[s]) = <<DeregisterLePsm>>
    <2>1. CASE waiting[s] = "confirm" /\ serial[s] = <<Request(s)>>
      BY <1>4, <2>1
    <2>2. CASE CleaningUp(s) /\ serial[s] = <<Disconnect, DeregisterLePsm>>
      <3>1. r = Disconnect /\ Tail(serial[s]) = <<DeregisterLePsm>>
        BY <2>2, TwoAt
      <3>2. Request(s) = DeregisterLePsm
        BY <2>2, OneAt DEF CleaningUp, Request
      <3>3. waiting[s] = "confirm"
        <4>1. task[s] # <<Disconnect, DeregisterLePsm>>
          <5>1. Len(<<Disconnect, DeregisterLePsm>>) = 2 /\ Len(<<DeregisterLePsm>>) = 1
            OBVIOUS
          <5> QED
            BY <2>2, <5>1 DEF CleaningUp
        <4> QED
          BY <2>2, <4>1 DEF CleaningUp, SideInv, CallsOK
      <3> QED
        BY <2>2, <3>1, <3>2, <3>3
    <2> QED
      BY <1>8, <2>1, <2>2 DEF SideInv, SerialOK
  <1>9. ASSUME r \notin {Disconnect, DeregisterLePsm}, board.link # "down"
        PROVE  /\ waiting[s] = "confirm" /\ r = Request(s) /\ Tail(serial[s]) = << >>
               /\ \/ call[s] = "setup" /\ (r = ConnectLePsm \/ Preparing(r))
                  \/ call[s] = "send" /\ r = SendLeCbData
    <2>1. call[s] \in {"setup", "send"} /\ waiting[s] = "confirm" /\ serial[s] = <<Request(s)>>
      BY <1>2, <1>9 DEF SideInv, SerialOK
    <2>2. call[s] = "send" => Request(s) = SendLeCbData
      BY <2>1, TaskOf
    <2> QED
      BY <1>4, <1>5, <2>1, <2>2
  <1> QED
    BY <1>2, <1>3, <1>5, <1>6, <1>7, <1>8, <1>9

\* What is left in the serial line is still in order.
LEMMA SerialTail ==
    ASSUME TypeOK, Silent, Later, NEW s \in Side, SideInv(s), serial[s] # << >>,
           serial'[s] = Tail(serial[s])
    PROVE  SerialOK(s)'
  <1> DEFINE r == Head(serial[s])
  <1>1. /\ Live(s) /\ ~Frozen(s) =>
              /\ waiting[s] = "confirm"
              /\ \/ serial'[s] = << >>
                 \/ serial'[s] = <<DeregisterLePsm>> /\ Request(s) = DeregisterLePsm
        /\ Popped(serial[s], r, serial'[s])
    BY OwnFacts
  <1>2. ASSUME NEW i \in DOMAIN serial'[s]
        PROVE  /\ serial'[s][i].opcode # None
               /\ serial'[s][i] \in {Disconnect, DeregisterLePsm} \/ board.link = "down"
    <2>1. i + 1 \in DOMAIN serial[s] /\ serial'[s][i] = serial[s][i + 1]
      BY <1>1 DEF Popped
    <2>2. serial[s] # <<Request(s)>>
      <3>1. ASSUME serial[s] = <<Request(s)>> PROVE FALSE
        <4>1. serial'[s] = << >>
          BY <3>1, OneAt
        <4>2. DOMAIN << >> = {}
          OBVIOUS
        <4> QED
          BY <4>1, <4>2
      <3> QED
        BY <3>1
    <2> QED
      BY <2>1, <2>2 DEF SideInv, SerialOK
  <1>3. \A i \in DOMAIN serial'[s] :
           /\ serial'[s][i].opcode # None
           /\ serial'[s][i] \in {Disconnect, DeregisterLePsm} \/ board'.link = "down"
    BY <1>2 DEF Later
  <1>4. Live(s)' /\ ~Frozen(s)' =>
           \/ serial'[s] = << >>
           \/ waiting'[s] = "confirm" /\ serial'[s] = <<Request(s)'>>
    BY <1>1, SilentFacts DEF Silent
  <1> QED
    BY <1>3, <1>4 DEF SerialOK

\* The CONFIRM is that of the call that waits for it, or of one given up.
LEMMA ConfirmGiven ==
    ASSUME TypeOK, Silent, NEW s \in Side, SideInv(s), serial[s] # << >>,
           serial'[s] = Tail(serial[s]), NEW r, r = Head(serial[s]),
           NEW k \in Messages, k.opcode = "CONFIRM", k.group = r.group,
           NEW y \in Seq(Messages), \A i \in DOMAIN y : y[i].opcode # "CONFIRM",
           uart'[s] = uart[s] \o <<k>> \o y
    PROVE  ConfirmOK(s)'
  <1> DEFINE v == uart[s] \o <<k>>
  <1>1. uart[s] \in Seq(Messages) /\ <<k>> \in Seq(Messages)
    BY OneAt DEF TypeOK
  <1>2. v \in Seq(Messages) /\ Joined(uart[s], <<k>>, v)
    BY <1>1, JoinAt
  <1>3. uart'[s] = v \o y
    OBVIOUS
  <1> HIDE DEF v
  <1>4. Joined(v, y, uart'[s])
    BY <1>2, <1>3, JoinAt
  <1>5. ASSUME Live(s), ~Frozen(s)
        PROVE  ConfirmsIn(v, serial'[s], Request(s), waiting[s], CleaningUp(s), Whole(s))
    <2>1. ConfirmsIn(uart[s], serial[s], Request(s), waiting[s], CleaningUp(s), Whole(s))
      BY <1>5 DEF SideInv, ConfirmOK
    <2>2. waiting[s] = "confirm"
      BY <1>5, OwnFacts
    <2>3. CASE r = Request(s) /\ serial'[s] = << >>
      <3>1. CleaningUp(s) => r.group = "L2CAP"
        <4>1. CleaningUp(s) => Request(s) = DeregisterLePsm
          BY OneAt DEF CleaningUp, Request
        <4> QED
          BY <2>3, <4>1, Fields
      <3> QED
        BY <1>2, <2>1, <2>2, <2>3, <3>1, ConfirmsOwn
    <2>4. CASE /\ CleaningUp(s) /\ r = Disconnect /\ Request(s) = DeregisterLePsm
               /\ serial'[s] = <<DeregisterLePsm>>
      <3>1. CleaningUp(s) = TRUE
        BY <2>4 DEF CleaningUp
      <3>2. /\ DeregisterLePsm.group = "L2CAP" /\ Disconnect.group # "L2CAP"
            /\ <<DeregisterLePsm>> # << >>
        BY Fields
      <3>3. ConfirmsIn(v, serial'[s], Request(s), waiting[s], TRUE, Whole(s))
        BY <1>2, <2>1, <2>4, <3>1, <3>2, ConfirmsGivenUp
      <3> QED
        BY <3>1, <3>3
    <2> QED
      BY <1>5, <2>3, <2>4, OwnFacts
  <1>6. Live(s) /\ ~Frozen(s) =>
           ConfirmsIn(uart'[s], serial'[s], Request(s), waiting[s], CleaningUp(s), Whole(s))
    BY <1>4, <1>5, ConfirmsMore
  <1> QED
    BY <1>6, SilentFacts DEF ConfirmOK, Silent

\* The answer to s: nothing in it but k is a CONFIRM, and none of it is data.
Answers(s, r, k, y) ==
    /\ serial[s] # << >> /\ r = Head(serial[s]) /\ serial'[s] = Tail(serial[s])
    /\ k \in Messages /\ k.opcode = "CONFIRM" /\ k.group = r.group
    /\ y \in Seq(Messages)
    /\ \A i \in DOMAIN y : y[i].opcode \notin {"CONFIRM", "LE_CB_DATA"}
    /\ uart'[s] = uart[s] \o <<k>> \o y /\ call[s] # "closed"

\* An answer is something heard.
LEMMA AnswersHeard ==
    ASSUME TypeOK, NEW s \in Side, NEW r, NEW k, NEW y, Answers(s, r, k, y)
    PROVE  /\ Hears(s, <<k>> \o y) /\ Joined(<<k>>, y, <<k>> \o y)
           /\ Joined(uart[s], <<k>>, uart[s] \o <<k>>)
           /\ Joined(uart[s] \o <<k>>, y, uart'[s])
           /\ \A i \in DOMAIN (<<k>> \o y) :
                 \/ (<<k>> \o y)[i] = k
                 \/ \E j \in DOMAIN y : (<<k>> \o y)[i] = y[j]
  <1> DEFINE o == <<k>>
  <1>1. /\ uart[s] \in Seq(Messages) /\ o \in Seq(Messages) /\ y \in Seq(Messages)
        /\ DOMAIN o = {1} /\ o[1] = k /\ uart'[s] = uart[s] \o o \o y /\ call[s] # "closed"
    BY OneAt DEF TypeOK, Answers
  <1> HIDE DEF o
  <1>2. uart'[s] = uart[s] \o (o \o y) /\ uart[s] \o o \in Seq(Messages) /\ o \o y \in Seq(Messages)
    <2> DEFINE a == uart[s]
    <2>1. a \in Seq(Messages) /\ o \in Seq(Messages) /\ y \in Seq(Messages)
      BY <1>1
    <2> HIDE DEF a
    <2>2. a \o o \o y = a \o (o \o y) /\ a \o o \in Seq(Messages) /\ o \o y \in Seq(Messages)
      BY <2>1, Regroup
    <2> QED
      BY <1>1, <2>2 DEF a
  <1>3. /\ Joined(o, y, o \o y) /\ Joined(uart[s], o, uart[s] \o o)
        /\ Joined(uart[s] \o o, y, uart'[s])
    <2>1. uart'[s] = (uart[s] \o o) \o y
      BY <1>1
    <2> QED
      BY <1>1, <1>2, <2>1, JoinAt
  <1>4. \A i \in DOMAIN (o \o y) : (o \o y)[i] = k \/ \E j \in DOMAIN y : (o \o y)[i] = y[j]
    <2> DEFINE w == o \o y
    <2>1. Joined(o, y, w)
      BY <1>3
    <2> HIDE DEF w
    <2>2. \A i \in DOMAIN w : w[i] = k \/ \E j \in DOMAIN y : w[i] = y[j]
      BY <1>1, <2>1 DEF Joined
    <2> QED
      BY <2>2 DEF w
  <1>5. Hears(s, o \o y)
    BY <1>1, <1>2 DEF Hears
  <1> QED
    BY <1>3, <1>4, <1>5 DEF o

\* The side whose request is carried out; the channel and the data apart.
LEMMA OwnInv ==
    ASSUME TypeOK, Silent, Later, NEW s \in Side, SideInv(s), NEW r, NEW k, NEW y,
           Answers(s, r, k, y), \A i \in DOMAIN y : PacketOK(sent[Other(s)], board', y[i]),
           ConnectsOnce(s)', ChannelOK(s)', DataOK(s)'
    PROVE  SideInv(s)'
  <1>1. CallsOK(s)' /\ QueueOK(s)' /\ SerialOK(s)'
    BY SilentCalls, SerialTail DEF Answers
  <1>2. ConfirmOK(s)'
    BY ConfirmGiven DEF Answers
  <1>3. PacketsOK(s)'
    <2>1. PacketOK(sent[Other(s)], board', k)
      BY Reported DEF PacketOK, Answers
    <2>2. \A i \in DOMAIN (<<k>> \o y) : PacketOK(sent[Other(s)], board', (<<k>> \o y)[i])
      BY <2>1, AnswersHeard
    <2> QED
      BY <2>2, AnswersHeard, PacketsMore
  <1> QED
    BY <1>1, <1>2, <1>3 DEF SideInv

\* Data of the other side is where it was.
LEMMA OwnData ==
    ASSUME TypeOK, Silent, NEW s \in Side, SideInv(s), NEW r, NEW k, NEW y, Answers(s, r, k, y),
           Up' => Up /\ Carried(Other(s))' = Carried(Other(s))
    PROVE  DataOK(s)'
  <1>1. ~IsData(k) /\ \A i \in DOMAIN y : ~IsData(y[i])
    BY DEF Answers, IsData
  <1>2. \A i \in DOMAIN (<<k>> \o y) : ~IsData((<<k>> \o y)[i])
    BY <1>1, AnswersHeard
  <1> QED
    BY <1>2, AnswersHeard, DataHeard

\* An answer that is not about the channel.
LEMMA ChannelBare ==
    ASSUME TypeOK, Silent, NEW s \in Side, SideInv(s), NEW r, NEW k, NEW y, Answers(s, r, k, y),
           \A i \in DOMAIN y : y[i].opcode # "CONNECTION_COMPLETE",
           s \notin board'.asking, board'.open => board.open
    PROVE  ChannelOK(s)'
  <1>1. call[s] = "setup" => Bare(uart[s]) /\ ~board.open
    BY OwnFacts DEF Answers
  <1>2. call[s] = "setup" => Bare(uart[s] \o <<k>>)
    <2> DEFINE v == uart[s] \o <<k>>
    <2>1. Joined(uart[s], <<k>>, v)
      BY AnswersHeard
    <2> HIDE DEF v
    <2>2. /\ v[Len(uart[s]) + 1] = k /\ \A i \in DOMAIN uart[s] : v[i] = uart[s][i]
          /\ \A i \in DOMAIN v : i \in DOMAIN uart[s] \/ i = Len(uart[s]) + 1
      BY <2>1, JoinedOne
    <2>3. k.opcode = "CONFIRM"
      BY DEF Answers
    <2>4. call[s] = "setup" => Bare(v)
      BY <1>1, <2>2, <2>3 DEF Bare, Completes
    <2> QED
      BY <2>4 DEF v
  <1>3. call[s] = "setup" => Bare(uart'[s])
    <2> DEFINE v == uart[s] \o <<k>>
    <2>1. Joined(v, y, uart'[s]) /\ (call[s] = "setup" => Bare(v))
      BY <1>2, AnswersHeard
    <2> HIDE DEF v
    <2>2. Bare(y)
      BY DEF Answers, Bare, Completes
    <2> QED
      BY <2>1, <2>2 DEF Joined, Bare, Completes
  <1>4. call'[s] = "setup" =>
           OpenedIn(uart'[s], serial'[s], Request(s)', waiting'[s]) /\ ~board'.open
    BY <1>1, <1>3 DEF Bare, OpenedIn, Silent
  <1> QED
    BY <1>4 DEF ChannelOK

\* The request for the channel has been confirmed.
LEMMA ChannelAsked ==
    ASSUME TypeOK, Silent, NEW s \in Side, SideInv(s), NEW k, NEW y,
           Answers(s, ConnectLePsm, k, y), k.ok, board.link # "down"
    PROVE  /\ call[s] = "setup" /\ Bare(uart[s] \o <<k>>) /\ ~board.open
           /\ AskedIn(uart[s] \o <<k>>, serial'[s], Request(s)', waiting'[s])
  <1> DEFINE v == uart[s] \o <<k>>
  <1>1. /\ ConnectLePsm \notin {Disconnect, DeregisterLePsm} /\ ConnectLePsm # SendLeCbData
    BY Fields
  <1>2. /\ waiting[s] = "confirm" /\ Request(s) = ConnectLePsm /\ serial'[s] = << >>
        /\ call[s] = "setup" /\ Bare(uart[s]) /\ ~board.open
    BY <1>1, OwnFacts DEF Answers
  <1>3. Joined(uart[s], <<k>>, v)
    BY AnswersHeard
  <1>4. k.opcode = "CONFIRM" /\ k.group = ConnectLePsm.group
    BY DEF Answers
  <1> HIDE DEF v
  <1>5. /\ Len(uart[s]) + 1 \in DOMAIN v /\ v[Len(uart[s]) + 1] = k
        /\ Len(v) = Len(uart[s]) + 1 /\ Len(uart[s]) \in Nat
        /\ \A i \in DOMAIN uart[s] : v[i] = uart[s][i]
        /\ \A i \in DOMAIN v : i \in DOMAIN uart[s] \/ i = Len(uart[s]) + 1
    BY <1>3, JoinedOne
  <1>6. Bare(v)
    BY <1>2, <1>4, <1>5 DEF Bare, Completes
  <1>7. Answering(v, << >>, ConnectLePsm, "confirm", Len(v) + 1)
    <2> DEFINE n == Len(uart[s]) + 1
    <2>1. n \in DOMAIN v /\ Own(v, ConnectLePsm, n) /\ v[n].ok
      BY <1>4, <1>5 DEF Own
    <2>2. n < Len(v) + 1
      BY <1>5
    <2> HIDE DEF n
    <2> QED
      BY <2>1, <2>2 DEF Answering
  <1>8. AskedIn(v, << >>, ConnectLePsm, "confirm")
    BY <1>6, <1>7 DEF AskedIn, Bare
  <1>9. Request(s)' = ConnectLePsm /\ waiting'[s] = "confirm"
    BY <1>2, SilentFacts DEF Silent
  <1> QED
    BY <1>2, <1>6, <1>8, <1>9 DEF v

-----------------------------------------------------------------------------
(* The boards' steps.                                                        *)

\* The type of the boards.
Boards == [link : {"none", "up", "down"}, open : BOOLEAN, asking : SUBSET Side,
           lapses : 0 .. MaxLapses, scanning : BOOLEAN, advertising : BOOLEAN]

\* The fields of the boards, one by one.
LEMMA BoardFields ==
    ASSUME TypeOK
    PROVE  /\ board \in Boards
           /\ board.link \in {"none", "up", "down"} /\ board.open \in BOOLEAN
           /\ board.asking \in SUBSET Side /\ board.lapses \in 0 .. MaxLapses
           /\ 0 \in 0 .. MaxLapses
  <1>1. board \in Boards
    BY DEF TypeOK, Boards
  <1>2. 0 \in 0 .. MaxLapses
    BY BleLinkAssumption
  <1> QED
    BY <1>1, <1>2 DEF Boards

\* The types of what the boards change.
LEMMA SilentTypes ==
    ASSUME TypeOK, Silent, uart' \in [Side -> Seq(Messages)], serial' \in [Side -> Seq(Requests)],
           board' \in Boards
    PROVE  TypeOK'
  BY DEF TypeOK, Silent, Boards

\* What comes to either side.
LEMMA ReportsAt ==
    ASSUME TypeOK, NEW s \in Side, NEW own \in Seq(Messages), NEW others \in Seq(Messages),
           Reports(s, own, others)
    PROVE  /\ uart' \in [Side -> Seq(Messages)]
           /\ call[s] # "closed" => Hears(s, own)
           /\ call[Other(s)] # "closed" => Hears(Other(s), others)
           /\ \A t \in Side : call[t] = "closed" => uart'[t] = << >>
  <1>1. Other(s) \in Side /\ Other(s) # s /\ \A t \in Side : t = s \/ t = Other(s)
    BY Sides
  <1>2. /\ \A t \in Side : call[t] = "closed" => uart'[t] = << >>
        /\ call[s] # "closed" => uart'[s] = uart[s] \o own
        /\ call[Other(s)] # "closed" => uart'[Other(s)] = uart[Other(s)] \o others
    BY <1>1 DEF Reports
  <1>3. << >> \in Seq(Messages) /\ uart[s] \o own \in Seq(Messages)
        /\ uart[Other(s)] \o others \in Seq(Messages)
    <2>1. uart[s] \in Seq(Messages) /\ uart[Other(s)] \in Seq(Messages)
      BY <1>1 DEF TypeOK
    <2> QED
      BY <2>1
  <1>4. \A t \in Side : uart'[t] \in Seq(Messages)
    BY <1>1, <1>2, <1>3
  <1>5. uart' = [t \in Side |-> uart'[t]]
    BY DEF Reports
  <1>6. uart' \in [Side -> Seq(Messages)]
    BY <1>4, <1>5
  <1> QED
    BY <1>2, <1>6 DEF Hears

\* A request has been carried out that is not one to send data.
LEMMA TailCarried ==
    ASSUME TypeOK, NEW s \in Side, serial[s] # << >>, serial'[s] = Tail(serial[s]),
           Head(serial[s]) # SendLeCbData, sent'[s] = sent[s]
    PROVE  Carried(s)' = Carried(s)
  <1>1. serial[s] \in Seq(Requests)
    BY DEF TypeOK
  <1>2. Popped(serial[s], Head(serial[s]), serial'[s])
    BY <1>1, TailAt
  <1>3. (\E i \in DOMAIN serial'[s] : serial'[s][i] = SendLeCbData)
           <=> (\E i \in DOMAIN serial[s] : serial[s][i] = SendLeCbData)
    <2>1. /\ \A i \in DOMAIN serial'[s] : i + 1 \in DOMAIN serial[s] /\ serial'[s][i] = serial[s][i + 1]
          /\ \A i \in DOMAIN serial[s] : i # 1 => i - 1 \in DOMAIN serial'[s] /\ serial'[s][i - 1] = serial[s][i]
          /\ serial[s][1] # SendLeCbData
      BY <1>2 DEF Popped
    <2> QED
      BY <2>1
  <1> QED
    BY <1>3 DEF Carried

\* The board of s carries out r and answers with k and y; the other reports x.
Step(s, r, k, y, x) ==
    /\ Silent /\ serial[s] # << >> /\ r = Head(serial[s])
    /\ serial' = [serial EXCEPT ![s] = Tail(serial[s])]
    /\ k \in Messages /\ k.opcode = "CONFIRM" /\ k.group = r.group
    /\ y \in Seq(Messages) /\ x \in Seq(Messages)
    /\ \A i \in DOMAIN y : y[i].opcode \notin {"CONFIRM", "LE_CB_DATA"}
    /\ Reports(s, <<k>> \o y, x) /\ board' \in Boards

\* What that means for either side.
LEMMA StepFacts ==
    ASSUME TypeOK, NEW s \in Side, NEW r, NEW k, NEW y, NEW x, Step(s, r, k, y, x)
    PROVE  /\ TypeOK' /\ Fewer(s) /\ Fewer(Other(s)) /\ serial'[Other(s)] = serial[Other(s)]
           /\ serial'[s] = Tail(serial[s])
           /\ call[s] # "closed" => Answers(s, r, k, y)
           /\ call[Other(s)] # "closed" => Hears(Other(s), x)
           /\ \A t \in Side : call[t] = "closed" => uart'[t] = << >>
           /\ Carried(Other(s))' = Carried(Other(s))
           /\ r # SendLeCbData => Carried(s)' = Carried(s)
  <1>1. /\ Silent /\ serial[s] # << >> /\ r = Head(serial[s]) /\ Other(s) \in Side /\ Other(s) # s
        /\ y \in Seq(Messages) /\ x \in Seq(Messages) /\ k \in Messages
    BY Sides DEF Step
  <1>2. /\ serial \in [Side -> Seq(Requests)] /\ Tail(serial[s]) \in Seq(Requests)
    BY <1>1, TailAt DEF TypeOK
  <1>3. /\ serial' \in [Side -> Seq(Requests)] /\ serial'[s] = Tail(serial[s])
        /\ serial'[Other(s)] = serial[Other(s)]
    BY <1>1, <1>2 DEF Step
  <1>4. <<k>> \o y \in Seq(Messages) /\ Reports(s, <<k>> \o y, x)
    <2>1. <<k>> \in Seq(Messages)
      BY <1>1, OneAt
    <2>2. <<k>> \o y \in Seq(Messages)
      BY <1>1, <2>1, JoinAt
    <2> QED
      BY <2>2 DEF Step
  <1>5. /\ uart' \in [Side -> Seq(Messages)]
        /\ call[s] # "closed" => Hears(s, <<k>> \o y)
        /\ call[Other(s)] # "closed" => Hears(Other(s), x)
        /\ \A t \in Side : call[t] = "closed" => uart'[t] = << >>
    BY <1>1, <1>4, ReportsAt
  <1>6. TypeOK'
    BY <1>1, <1>3, <1>5, SilentTypes DEF Step
  <1>7. call[s] # "closed" => Answers(s, r, k, y)
    <2>1. uart[s] \o (<<k>> \o y) = uart[s] \o <<k>> \o y
      <3> DEFINE o == <<k>>
      <3> DEFINE a == uart[s]
      <3>1. a \in Seq(Messages) /\ o \in Seq(Messages) /\ y \in Seq(Messages)
        BY <1>1, OneAt DEF TypeOK
      <3> HIDE DEF o, a
      <3>2. a \o (o \o y) = a \o o \o y
        BY <3>1, Regroup
      <3> QED
        BY <3>2 DEF o, a
    <2>2. call[s] # "closed" => uart'[s] = uart[s] \o <<k>> \o y
      BY <1>5, <2>1 DEF Hears
    <2> QED
      BY <1>3, <2>2 DEF Step, Answers
  <1>8. Carried(Other(s))' = Carried(Other(s)) /\ sent'[s] = sent[s]
    BY <1>1, <1>3 DEF Carried, Silent
  <1>9. r # SendLeCbData => Carried(s)' = Carried(s)
    BY <1>1, <1>3, <1>8, TailCarried
  <1>10. Fewer(s) /\ Fewer(Other(s))
    BY <1>1, <1>3 DEF Fewer
  <1> QED
    BY <1>3, <1>5, <1>6, <1>7, <1>8, <1>9, <1>10

\* A step after which the link is no more, nothing is opened and no data comes.
LEMMA PlainStep ==
    ASSUME LinkInv, NEW s \in Side, NEW r, NEW k, NEW y, NEW x, Step(s, r, k, y, x), Later,
           r # SendLeCbData \/ ~Up',
           \A i \in DOMAIN y : Noise(board', y[i]), \A i \in DOMAIN x : Noise(board', x[i]),
           BoardOK', board.link = "none" => board'.link = "none", Up' => Up,
           board'.asking \subseteq board.asking, board'.open => board.open
    PROVE  LinkInv'
  <1>1. TypeOK /\ Silent /\ serial[s] # << >> /\ r = Head(serial[s]) /\ Other(s) \in Side
        /\ Other(s) # s /\ Other(Other(s)) = s /\ \A t \in Side : t = s \/ t = Other(s)
    BY Sides DEF LinkInv, Step
  <1>2. SideInv(s) /\ SideInv(Other(s))
    BY <1>1 DEF LinkInv
  <1>3. /\ TypeOK' /\ Fewer(s) /\ Fewer(Other(s)) /\ serial'[Other(s)] = serial[Other(s)]
        /\ call[s] # "closed" => Answers(s, r, k, y)
        /\ call[Other(s)] # "closed" => Hears(Other(s), x)
        /\ \A t \in Side : call[t] = "closed" => uart'[t] = << >>
        /\ Carried(Other(s))' = Carried(Other(s))
        /\ r # SendLeCbData => Carried(s)' = Carried(s)
    BY <1>1, StepFacts
  <1>4. ConnectsOnce(s)' /\ ConnectsOnce(Other(s))'
    <2>1. ConnectsOnce(s)'
      BY <1>1, <1>2, <1>3, ConnectsLeft
    <2>2. ConnectsOnce(Other(s))'
      BY <1>1, <1>2, <1>3, ConnectsLeft
    <2> QED
      BY <2>1, <2>2
  <1>5. s \notin board.asking
    BY <1>1, <1>2, OwnFacts
  <1>6. SideInv(s)'
    <2>1. CASE call[s] = "closed"
      <3>1. uart'[s] = << >> /\ s \notin board'.asking
        BY <1>3, <1>5, <2>1
      <3> QED
        BY <1>1, <1>2, <1>3, <1>4, <2>1, <3>1, ClosedInv
    <2>2. CASE call[s] # "closed"
      <3>1. Answers(s, r, k, y)
        BY <1>3, <2>2
      <3>2. Up' => Up /\ Carried(Other(s))' = Carried(Other(s))
        BY <1>3
      <3>3. DataOK(s)'
        BY <1>1, <1>2, <3>1, <3>2, OwnData
      <3>4. \A i \in DOMAIN y : y[i].opcode # "CONNECTION_COMPLETE"
                                 /\ PacketOK(sent[Other(s)], board', y[i])
        <4>1. ConnectionComplete.opcode = "CONNECTION_COMPLETE"
          BY Reported
        <4> QED
          BY <4>1 DEF Noise, PacketOK
      <3>5. ChannelOK(s)'
        <4>1. s \notin board'.asking
          BY <1>5
        <4> QED
          BY <1>1, <1>2, <3>1, <3>4, <4>1, ChannelBare
      <3> QED
        BY <1>1, <1>2, <1>4, <3>1, <3>3, <3>4, <3>5, OwnInv
    <2> QED
      BY <2>1, <2>2
  <1>7. ASSUME NEW t \in Side, t = Other(s)
        PROVE  SideInv(t)'
    <2>0. /\ t \in Side /\ Other(t) = s /\ SideInv(t) /\ Fewer(t) /\ ConnectsOnce(t)'
          /\ serial'[t] = serial[t]
          /\ call[t] = "closed" => uart'[t] = << >>
          /\ call[t] # "closed" => Hears(t, x)
      BY <1>1, <1>2, <1>3, <1>4, <1>7
    <2>1. CASE call[t] = "closed"
      <3>1. t \notin board.asking
        BY <2>0, <2>1 DEF SideInv, ChannelOK
      <3>2. t \notin board'.asking
        BY <3>1
      <3> QED
        BY <1>1, <2>0, <2>1, <3>2, ClosedInv
    <2>2. CASE call[t] # "closed"
      <3>1. Hears(t, x)
        BY <2>0, <2>2
      <3>2. Up' => Up /\ Carried(Other(t))' = Carried(Other(t))
        BY <1>3, <2>0
      <3>3. \A i \in DOMAIN x : ~IsData(x[i])
        BY DEF IsData, Noise
      <3>4. DataOK(t)'
        BY <1>1, <2>0, <3>1, <3>2, <3>3, DataHeard
      <3>5. t \in board'.asking => t \in board.asking
        OBVIOUS
      <3> QED
        BY <1>1, <2>0, <3>1, <3>4, <3>5, ListenInv
    <2> QED
      BY <2>1, <2>2
  <1> QED
    <2>1. \A t \in Side : SideInv(t)'
      BY <1>1, <1>6, <1>7
    <2> QED
      BY <1>3, <2>1 DEF LinkInv

\* The board of s takes r from its line.
Serves(s, r) ==
    /\ serial[s] # << >> /\ r = Head(serial[s])
    /\ serial' = [serial EXCEPT ![s] = Tail(@)]
    /\ UNCHANGED <<hosts, orphan, fault, histories>>

\* What it answers and reports makes that a step.
LEMMA ServesStep ==
    ASSUME NEW s \in Side, NEW r, Serves(s, r), board' \in Boards,
           NEW k \in Messages, k.opcode = "CONFIRM", k.group = r.group,
           NEW y \in Seq(Messages), NEW x \in Seq(Messages),
           \A i \in DOMAIN y : y[i].opcode \notin {"CONFIRM", "LE_CB_DATA"},
           Reports(s, <<k>> \o y, x)
    PROVE  Step(s, r, k, y, x)
  <1>1. Silent
    BY DEF Serves, Silent, hosts, histories
  <1> QED
    BY <1>1 DEF Serves, Step

\* Nothing follows.
LEMMA JoinNone ==
    ASSUME NEW S, NEW e \in S
    PROVE  <<e>> \o << >> = <<e>> /\ << >> \in Seq(S) /\ DOMAIN << >> = {}
  OBVIOUS

\* A sequence of one plain message.
LEMMA OnePlain ==
    ASSUME NEW m, Plain(m), NEW b
    PROVE  /\ <<m>> \in Seq(Messages)
           /\ \A i \in DOMAIN <<m>> : Noise(b, <<m>>[i])
           /\ \A i \in DOMAIN <<m>> : <<m>>[i].opcode \notin {"CONFIRM", "LE_CB_DATA"}
  <1>1. <<m>> \in Seq(Messages) /\ DOMAIN <<m>> = {1} /\ <<m>>[1] = m
    BY OneAt DEF Plain
  <1> QED
    BY <1>1 DEF Plain, Noise

\* What is over when the link is down.
LEMMA DownFacts ==
    ASSUME TypeOK, board' = LinkDown
    PROVE  /\ board' \in Boards /\ board'.link = "down" /\ ~board'.open /\ board'.asking = {}
           /\ Later /\ BoardOK' /\ ~Up'
  <1>1. board \in Boards /\ 0 \in 0 .. MaxLapses
    BY BoardFields
  <1>2. board' \in Boards /\ board'.link = "down" /\ ~board'.open /\ board'.asking = {}
    BY <1>1 DEF LinkDown, Boards
  <1> QED
    BY <1>2 DEF Later, BoardOK, Up

\* Over a link that is not up a request fails.
LEMMA Refused ==
    ASSUME LinkInv, NEW s \in Side, NEW r, Serves(s, r), ~Up,
           Reports(s, <<Failed(Confirm(r))>>, << >>), board' = board
    PROVE  LinkInv'
  <1>1. TypeOK /\ BoardOK /\ SideInv(s) /\ board \in Boards
    BY BoardFields DEF LinkInv
  <1>2. r \in Requests
    BY <1>1, OwnFacts DEF Serves
  <1> DEFINE k == Failed(Confirm(r))
  <1>3. k \in Messages /\ k.opcode = "CONFIRM" /\ k.group = r.group
    BY <1>2, MessageFields
  <1>4. Reports(s, <<k>> \o << >>, << >>) /\ << >> \in Seq(Messages) /\ DOMAIN << >> = {}
    BY <1>3, JoinNone
  <1> HIDE DEF k
  <1>5. Step(s, r, k, << >>, << >>)
    BY <1>1, <1>3, <1>4, ServesStep
  <1>6. Later /\ BoardOK' /\ ~Up'
    BY <1>1 DEF Later, BoardOK, Up
  <1> QED
    BY <1>4, <1>5, <1>6, PlainStep

\* What the answer to a request of the set-up is.
LEMMA AnswerFacts ==
    ASSUME NEW r \in Requests, NEW y, y = (IF r.event = None THEN << >> ELSE <<Event(r.group, r.event)>>),
           Preparing(r) \/ r.event = None, NEW b
    PROVE  /\ Answer(r) = <<Confirm(r)>> \o y /\ y \in Seq(Messages)
           /\ \A i \in DOMAIN y : Noise(b, y[i]) /\ y[i].opcode \notin {"CONFIRM", "LE_CB_DATA"}
  <1>1. Answer(r) = <<Confirm(r)>> \o y
    BY DEF Answer
  <1>2. CASE r.event = None
    <2>1. y \in Seq(Messages) /\ DOMAIN y = {}
      BY <1>2
    <2> QED
      BY <1>1, <2>1
  <1>3. CASE r.event # None
    <2>1. Plain(Event(r.group, r.event)) /\ y = <<Event(r.group, r.event)>>
      BY <1>3, MessageFields
    <2> QED
      BY <1>1, <2>1, OnePlain
  <1> QED
    BY <1>2, <1>3

\* Two sequences of one element.
LEMMA JoinOnes ==
    ASSUME NEW e, NEW f
    PROVE  <<e>> \o <<f>> = <<e, f>>
  <1> DEFINE S == {e, f}
             a == <<e>>
             b == <<f>>
             w == a \o b
             v == <<e, f>>
  <1>1. e \in S /\ f \in S
    OBVIOUS
  <1> HIDE DEF S
  <1>2. /\ a \in Seq(S) /\ Len(a) = 1 /\ DOMAIN a = {1} /\ a[1] = e
        /\ b \in Seq(S) /\ Len(b) = 1 /\ DOMAIN b = {1} /\ b[1] = f
    BY <1>1, OneAt
  <1>3. v \in Seq(S) /\ Len(v) = 2 /\ v[1] = e /\ v[2] = f
    BY <1>1
  <1> HIDE DEF a, b, v
  <1>4. w \in Seq(S) /\ Joined(a, b, w)
    BY <1>2, JoinAt
  <1> HIDE DEF w
  <1>5. Len(w) = 2 /\ w[1] = e /\ w[2] = f
    BY <1>2, <1>4 DEF Joined
  <1>6. \A i \in 1 .. 2 : w[i] = v[i]
    BY <1>3, <1>5
  <1>7. w = v
    BY <1>3, <1>4, <1>5, <1>6
  <1> QED
    BY <1>7 DEF w, v, a, b

\* What a board can be asked.
LEMMA AskedOf ==
    ASSUME LinkInv, NEW s \in Side, NEW r, Serves(s, r)
    PROVE  /\ TypeOK /\ BoardOK /\ SideInv(s) /\ SideInv(Other(s)) /\ board \in Boards
           /\ r \in Requests /\ r.opcode # None
           /\ Confirm(r) \in Messages /\ Confirm(r).opcode = "CONFIRM"
           /\ Confirm(r).group = r.group /\ Confirm(r).ok
           /\ r \notin {Disconnect, ConnectLePsm, SendLeCbData} =>
                 Preparing(r) \/ r.event = None
  <1>1. TypeOK /\ BoardOK /\ SideInv(s) /\ SideInv(Other(s)) /\ board \in Boards
    BY Sides, BoardFields DEF LinkInv
  <1>2. r \in Requests /\ r.opcode # None
    BY <1>1, OwnFacts DEF Serves
  <1>3. r \notin {Disconnect, ConnectLePsm, SendLeCbData} => Preparing(r) \/ r.event = None
    <2>1. r \in SetupRequests \cup {Connect} => Preparing(r)
      BY <1>2, Preparations
    <2>2. r # WaitForData /\ DeregisterLePsm.event = None
      BY <1>2, Fields
    <2>3. r \in SetupRequests \cup {Connect} \cup Special
      BY <1>2, RequestKinds
    <2> QED
      BY <2>1, <2>2, <2>3 DEF Special
  <1> QED
    BY <1>1, <1>2, <1>3, MessageFields

\* A request that a board answers at once, with nothing about the channel.
LEMMA AnsweredInv ==
    ASSUME LinkInv, NEW s \in Side, NEW r, Serves(s, r),
           r \notin {Disconnect, ConnectLePsm, SendLeCbData},
           NEW x \in Seq(Messages), \A i \in DOMAIN x : Noise(board', x[i]),
           Reports(s, Answer(r), x),
           board' \in Boards, board'.link = board.link, board'.open = board.open,
           board'.asking = board.asking
    PROVE  LinkInv'
  <1>1. TypeOK /\ BoardOK /\ SideInv(s) /\ r \in Requests /\ (Preparing(r) \/ r.event = None)
        /\ Confirm(r) \in Messages /\ Confirm(r).opcode = "CONFIRM"
        /\ Confirm(r).group = r.group
    BY AskedOf
  <1> DEFINE y == IF r.event = None THEN << >> ELSE <<Event(r.group, r.event)>>
  <1>2. /\ Answer(r) = <<Confirm(r)>> \o y /\ y \in Seq(Messages)
        /\ \A i \in DOMAIN y : Noise(board', y[i]) /\ y[i].opcode \notin {"CONFIRM", "LE_CB_DATA"}
    BY <1>1, AnswerFacts
  <1> HIDE DEF y
  <1>3. Reports(s, <<Confirm(r)>> \o y, x)
    BY <1>2
  <1>4. Step(s, r, Confirm(r), y, x)
    BY <1>1, <1>2, <1>3, ServesStep
  <1>5. Later /\ BoardOK' /\ (board.link = "none" => board'.link = "none") /\ (Up' => Up)
    BY <1>1 DEF Later, BoardOK, Up
  <1> QED
    BY <1>2, <1>4, <1>5, PlainStep

\* A request that a board confirms, and reports to the other side.
LEMMA ConfirmedStep ==
    ASSUME LinkInv, NEW s \in Side, NEW r, Serves(s, r),
           r # SendLeCbData, NEW m, Plain(m),
           Reports(s, <<Confirm(r)>>, <<m>>), board' = board
    PROVE  LinkInv'
  <1>1. TypeOK /\ BoardOK /\ board \in Boards
        /\ Confirm(r) \in Messages /\ Confirm(r).opcode = "CONFIRM"
        /\ Confirm(r).group = r.group
    BY AskedOf
  <1>2. Reports(s, <<Confirm(r)>> \o << >>, <<m>>) /\ << >> \in Seq(Messages) /\ DOMAIN << >> = {}
    BY <1>1, JoinNone
  <1> DEFINE x == <<m>>
  <1>3. x \in Seq(Messages) /\ \A i \in DOMAIN x : Noise(board', x[i])
    BY OnePlain
  <1> HIDE DEF x
  <1>4. Step(s, r, Confirm(r), << >>, x)
    BY <1>1, <1>2, <1>3, ServesStep DEF x
  <1>5. Later /\ BoardOK' /\ (board.link = "none" => board'.link = "none") /\ (Up' => Up)
    BY <1>1 DEF Later, BoardOK, Up
  <1> QED
    BY <1>1, <1>2, <1>3, <1>4, <1>5, PlainStep

\* The connection is ended.
LEMMA DisconnectStep ==
    ASSUME LinkInv, NEW s \in Side, Serves(s, Disconnect), Up,
           Reports(s, Answer(Disconnect), <<Disconnected>>), board' = LinkDown
    PROVE  LinkInv'
  <1>1. TypeOK /\ BoardOK
        /\ Confirm(Disconnect) \in Messages /\ Confirm(Disconnect).opcode = "CONFIRM"
        /\ Confirm(Disconnect).group = Disconnect.group
    BY AskedOf
  <1>2. /\ board' \in Boards /\ board'.link = "down" /\ ~board'.open /\ board'.asking = {}
        /\ Later /\ BoardOK' /\ ~Up'
    BY <1>1, DownFacts
  <1> DEFINE x == <<Disconnected>>
  <1>3. /\ x \in Seq(Messages)
        /\ \A i \in DOMAIN x : Noise(board', x[i]) /\ x[i].opcode \notin {"CONFIRM", "LE_CB_DATA"}
    <2>1. Disconnected \in Messages /\ Disconnected.opcode = "DISCONNECTED"
      BY Reported
    <2>2. x \in Seq(Messages) /\ DOMAIN x = {1} /\ x[1] = Disconnected
      BY <2>1, OneAt
    <2> QED
      BY <1>2, <2>1, <2>2 DEF Noise
  <1>4. Answer(Disconnect) = <<Confirm(Disconnect)>> \o x
    <2>1. Disconnect.event # None /\ Disconnected = Event(Disconnect.group, Disconnect.event)
      BY Fields, Reported
    <2> QED
      BY <2>1 DEF Answer
  <1> HIDE DEF x
  <1>5. Reports(s, <<Confirm(Disconnect)>> \o x, x)
    BY <1>4 DEF x
  <1>6. Step(s, Disconnect, Confirm(Disconnect), x, x)
    BY <1>1, <1>2, <1>3, <1>5, ServesStep
  <1>7. board.link # "none"
    BY DEF Up
  <1> QED
    BY <1>2, <1>3, <1>6, <1>7, PlainStep

\* Who asks for the channel, or sends, is at that.
LEMMA OverChannel ==
    ASSUME LinkInv, NEW s \in Side, NEW r \in {ConnectLePsm, SendLeCbData}, Serves(s, r), Up
    PROVE  /\ waiting[s] = "confirm" /\ r = Request(s) /\ Tail(serial[s]) = << >>
           /\ serial[s][1] = r /\ 1 \in DOMAIN serial[s] /\ s \notin board.asking
           /\ r = ConnectLePsm => call[s] = "setup"
           /\ r = SendLeCbData => call[s] = "send"
  <1>1. TypeOK /\ SideInv(s)
    BY AskedOf
  <1>2. /\ r \notin {Disconnect, DeregisterLePsm} /\ ConnectLePsm # SendLeCbData
        /\ SendLeCbData \in Special /\ ~Preparing(SendLeCbData)
    BY Fields, Preparations DEF Special
  <1>3. /\ waiting[s] = "confirm" /\ r = Request(s) /\ Tail(serial[s]) = << >>
        /\ r = serial[s][1] /\ 1 \in DOMAIN serial[s] /\ s \notin board.asking
        /\ \/ call[s] = "setup" /\ (r = ConnectLePsm \/ Preparing(r))
           \/ call[s] = "send" /\ r = SendLeCbData
    BY <1>1, <1>2, OwnFacts DEF Serves, Up
  <1> QED
    BY <1>2, <1>3

\* Whatever the other side asks, the channel is not asked for or sent through by
\* a closed transport.
LEMMA ClosedOther ==
    ASSUME NEW t \in Side, SideInv(t), call[t] = "closed"
    PROVE  t \notin board.asking
  BY DEF SideInv, ChannelOK

\* Both sides have asked: the channel is open.
LEMMA ChannelOpens ==
    ASSUME LinkInv, NEW s \in Side, Serves(s, ConnectLePsm), Up, Other(s) \in board.asking,
           board' = [board EXCEPT !.open = TRUE, !.asking = {}, !.lapses = 0],
           Reports(s, Answer(ConnectLePsm), <<ConnectionComplete>>)
    PROVE  LinkInv'
  <1> DEFINE r == ConnectLePsm
  <1> DEFINE k == Confirm(ConnectLePsm)
  <1> DEFINE c == ConnectionComplete
  <1>1. /\ TypeOK /\ BoardOK /\ SideInv(s) /\ SideInv(Other(s)) /\ board \in Boards
        /\ k \in Messages /\ k.opcode = "CONFIRM" /\ k.group = r.group /\ k.ok
    BY AskedOf
  <1>2. /\ Other(s) \in Side /\ Other(s) # s /\ Other(Other(s)) = s
        /\ \A t \in Side : t = s \/ t = Other(s)
    BY Sides
  <1>3. /\ board' \in Boards /\ board'.open /\ board'.asking = {} /\ board'.link = board.link
        /\ board.link = "up"
    BY <1>1, BoardFields DEF Boards, Up
  <1>4. Later /\ BoardOK' /\ Up'
    BY <1>3 DEF Later, BoardOK, Up
  <1>5. Answer(r) = <<k>> \o <<c>> /\ r # SendLeCbData
    BY Fields, Reported DEF Answer
  <1>6. /\ <<c>> \in Seq(Messages) /\ DOMAIN <<c>> = {1} /\ <<c>>[1] = c
        /\ c.opcode = "CONNECTION_COMPLETE"
    BY Reported, OneAt
  <1> HIDE DEF k, c
  <1>7. Step(s, r, k, <<c>>, <<c>>)
    BY <1>1, <1>3, <1>5, <1>6, ServesStep DEF c
  <1>8. Silent
    BY <1>7 DEF Step
  <1>9. /\ TypeOK' /\ Fewer(s) /\ Fewer(Other(s)) /\ serial'[Other(s)] = serial[Other(s)]
        /\ call[s] # "closed" => Answers(s, r, k, <<c>>)
        /\ call[Other(s)] # "closed" => Hears(Other(s), <<c>>)
        /\ Carried(Other(s))' = Carried(Other(s)) /\ Carried(s)' = Carried(s)
    BY <1>1, <1>5, <1>7, StepFacts
  <1>10. call[s] = "setup" /\ Answers(s, r, k, <<c>>)
    BY <1>9, OverChannel
  <1>11. SideInv(s)'
    <2>1. ConnectsOnce(s)'
      BY <1>1, <1>3, <1>8, <1>9, ConnectsLeft
    <2>2. DataOK(s)'
      BY <1>1, <1>8, <1>9, <1>10, OwnData
    <2>3. /\ Bare(uart[s] \o <<k>>) /\ AskedIn(uart[s] \o <<k>>, serial'[s], Request(s)', waiting'[s])
      BY <1>1, <1>3, <1>8, <1>10, ChannelAsked
    <2>4. Joined(uart[s] \o <<k>>, <<c>>, uart'[s])
      BY <1>1, <1>10, AnswersHeard
    <2>5. OpenedIn(uart'[s], serial'[s], Request(s)', waiting'[s])
      BY <1>6, <2>3, <2>4, OpenedComplete
    <2>6. \E i \in DOMAIN uart'[s] : uart'[s][i] = ConnectionComplete
      <3> DEFINE u == uart[s] \o <<k>>
      <3>1. Joined(u, <<c>>, uart'[s])
        BY <2>4
      <3> HIDE DEF u
      <3>2. Len(u) + 1 \in DOMAIN uart'[s] /\ uart'[s][Len(u) + 1] = c
        BY <3>1, JoinedOne
      <3> QED
        BY <3>2 DEF c
    <2>7. ChannelOK(s)'
      BY <1>3, <2>5, <2>6 DEF ChannelOK
    <2>8. \A i \in DOMAIN <<c>> : PacketOK(sent[Other(s)], board', <<c>>[i])
      BY <1>3, <1>6 DEF PacketOK, c
    <2> QED
      BY <1>1, <1>4, <1>8, <1>10, <2>1, <2>2, <2>7, <2>8, OwnInv
  <1>12. ASSUME NEW t \in Side, t = Other(s)
         PROVE  SideInv(t)'
    <2>1. /\ SideInv(t) /\ Fewer(t) /\ serial'[t] = serial[t] /\ Other(t) = s
          /\ t \in board.asking /\ t \notin board'.asking
          /\ Carried(Other(t))' = Carried(Other(t))
      BY <1>1, <1>2, <1>3, <1>9, <1>12
    <2>2. Hears(t, <<c>>)
      BY <1>9, <1>12, <2>1, ClosedOther
    <2>3. ConnectsOnce(t)'
      BY <1>1, <1>3, <1>8, <2>1, ConnectsLeft
    <2>4. \A i \in DOMAIN <<c>> : ~IsData(<<c>>[i])
      BY <1>6 DEF IsData
    <2>5. DataOK(t)'
      BY <1>1, <1>8, <2>1, <2>2, <2>4, DataHeard
    <2> QED
      BY <1>1, <1>3, <1>4, <1>8, <2>1, <2>2, <2>3, <2>5, CompleteInv DEF c
  <1> QED
    <2>1. \A t \in Side : SideInv(t)'
      BY <1>2, <1>11, <1>12
    <2> QED
      BY <1>4, <1>9, <2>1 DEF LinkInv

\* The first side asks for the channel.
LEMMA ChannelAwaits ==
    ASSUME LinkInv, NEW s \in Side, Serves(s, ConnectLePsm), Up, Other(s) \notin board.asking,
           board' = [board EXCEPT !.asking = @ \cup {s}],
           Reports(s, <<Confirm(ConnectLePsm)>>, <<Event("L2CAP", "CONNECTION_REQUEST")>>)
    PROVE  LinkInv'
  <1> DEFINE r == ConnectLePsm
  <1> DEFINE k == Confirm(ConnectLePsm)
  <1> DEFINE x == <<Event("L2CAP", "CONNECTION_REQUEST")>>
  <1>1. /\ TypeOK /\ BoardOK /\ SideInv(s) /\ SideInv(Other(s)) /\ board \in Boards
        /\ k \in Messages /\ k.opcode = "CONFIRM" /\ k.group = r.group /\ k.ok
    BY AskedOf
  <1>2. /\ Other(s) \in Side /\ Other(s) # s /\ Other(Other(s)) = s
        /\ \A t \in Side : t = s \/ t = Other(s)
    BY Sides
  <1>3. /\ board' \in Boards /\ board'.open = board.open /\ board'.asking = board.asking \cup {s}
        /\ board'.link = board.link /\ board.link = "up"
    <2>1. board.asking \cup {s} \in SUBSET Side
      BY <1>1, BoardFields
    <2> QED
      BY <1>1, <2>1, BoardFields DEF Boards, Up
  <1>4. Later /\ BoardOK' /\ Up'
    BY <1>3 DEF Later, BoardOK, Up
  <1>5. r # SendLeCbData
    BY Fields
  <1>6. x \in Seq(Messages) /\ \A i \in DOMAIN x : Noise(board', x[i])
    BY Reported, OnePlain
  <1> HIDE DEF k, x
  <1>7. Step(s, r, k, << >>, x)
    <2>1. Reports(s, <<k>> \o << >>, x) /\ << >> \in Seq(Messages) /\ DOMAIN << >> = {}
      BY <1>1, JoinNone DEF k, x
    <2> QED
      BY <1>1, <1>3, <1>6, <2>1, ServesStep
  <1>8. Silent
    BY <1>7 DEF Step
  <1>9. /\ TypeOK' /\ Fewer(s) /\ Fewer(Other(s)) /\ serial'[Other(s)] = serial[Other(s)]
        /\ call[s] # "closed" => Answers(s, r, k, << >>)
        /\ call[Other(s)] # "closed" => Hears(Other(s), x)
        /\ call[Other(s)] = "closed" => uart'[Other(s)] = << >>
        /\ Carried(Other(s))' = Carried(Other(s)) /\ Carried(s)' = Carried(s)
    BY <1>1, <1>2, <1>5, <1>7, StepFacts
  <1>10. call[s] = "setup" /\ Answers(s, r, k, << >>)
    BY <1>9, OverChannel
  <1>11. SideInv(s)'
    <2>1. ConnectsOnce(s)'
      BY <1>1, <1>3, <1>8, <1>9, ConnectsLeft
    <2>2. DataOK(s)'
      BY <1>1, <1>8, <1>9, <1>10, OwnData
    <2>3. /\ Bare(uart[s] \o <<k>>) /\ ~board.open
          /\ AskedIn(uart[s] \o <<k>>, serial'[s], Request(s)', waiting'[s])
      BY <1>1, <1>3, <1>8, <1>10, ChannelAsked
    <2>4. uart'[s] = uart[s] \o <<k>>
      BY <1>10 DEF Reports, k
    <2>5. Bare(uart'[s]) /\ AskedIn(uart'[s], serial'[s], Request(s)', waiting'[s])
      BY <2>3, <2>4
    <2>6. OpenedIn(uart'[s], serial'[s], Request(s)', waiting'[s])
      BY <2>5 DEF Bare, OpenedIn
    <2>7. ChannelOK(s)'
      BY <1>3, <1>8, <1>10, <2>3, <2>5, <2>6 DEF ChannelOK, Silent
    <2>8. \A i \in DOMAIN << >> : PacketOK(sent[Other(s)], board', << >>[i])
      BY <1>1, JoinNone
    <2> QED
      BY <1>1, <1>4, <1>8, <1>10, <2>1, <2>2, <2>7, <2>8, OwnInv
  <1>12. ASSUME NEW t \in Side, t = Other(s)
         PROVE  SideInv(t)'
    <2>1. /\ SideInv(t) /\ Fewer(t) /\ serial'[t] = serial[t] /\ Other(t) = s /\ t # s
          /\ t \notin board.asking /\ t \notin board'.asking
          /\ Carried(Other(t))' = Carried(Other(t))
          /\ call[t] = "closed" => uart'[t] = << >>
      BY <1>1, <1>2, <1>3, <1>9, <1>12
    <2>2. ConnectsOnce(t)'
      BY <1>1, <1>3, <1>8, <2>1, ConnectsLeft
    <2>3. CASE call[t] = "closed"
      BY <1>1, <1>4, <1>8, <2>1, <2>2, <2>3, ClosedInv
    <2>4. CASE call[t] # "closed"
      <3>1. Hears(t, x)
        BY <1>9, <1>12, <2>4
      <3>2. \A i \in DOMAIN x : ~IsData(x[i])
        BY <1>6 DEF IsData, Noise
      <3>3. DataOK(t)'
        BY <1>1, <1>4, <1>8, <2>1, <3>1, <3>2, DataHeard DEF Up
      <3> QED
        BY <1>1, <1>3, <1>4, <1>6, <1>8, <2>1, <2>2, <3>1, <3>3, ListenInv
    <2> QED
      BY <2>3, <2>4
  <1> QED
    <2>1. \A t \in Side : SideInv(t)'
      BY <1>2, <1>11, <1>12
    <2> QED
      BY <1>4, <1>9, <2>1 DEF LinkInv

\* Data goes to the other side.
LEMMA DataStep ==
    ASSUME LinkInv, NEW s \in Side, Serves(s, SendLeCbData), Up, board' = board,
           Reports(s, Answer(SendLeCbData), <<Data(sent[s])>>)
    PROVE  LinkInv'
  <1> DEFINE r == SendLeCbData
  <1> DEFINE k == Confirm(SendLeCbData)
  <1> DEFINE x == <<Data(sent[s])>>
  <1>1. /\ TypeOK /\ BoardOK /\ SideInv(s) /\ SideInv(Other(s)) /\ board \in Boards
        /\ k \in Messages /\ k.opcode = "CONFIRM" /\ k.group = r.group /\ k.ok
    BY AskedOf
  <1>2. /\ Other(s) \in Side /\ Other(s) # s /\ Other(Other(s)) = s
        /\ \A t \in Side : t = s \/ t = Other(s)
    BY Sides
  <1>3. /\ waiting[s] = "confirm" /\ r = Request(s) /\ Tail(serial[s]) = << >>
        /\ serial[s][1] = r /\ 1 \in DOMAIN serial[s] /\ s \notin board.asking
        /\ call[s] = "send"
    BY OverChannel
  <1>4. sent[s] \in Nat \ {0} /\ queue[s] # NoQueue /\ board.open
    <2>1. queue[s] # NoQueue /\ sent[s] > 0 /\ (board.open \/ board.link = "down")
      BY <1>1, <1>3 DEF SideInv, CallsOK, QueueOK
    <2>2. sent[s] \in Nat
      BY <1>1 DEF TypeOK
    <2> QED
      BY <2>1, <2>2 DEF Up
  <1>5. Later /\ BoardOK' /\ Up' /\ board.link # "none" /\ board'.link = board.link
    BY <1>1 DEF Later, BoardOK, Up
  <1>6. Answer(r) = <<k>> \o << >> /\ << >> \in Seq(Messages) /\ DOMAIN << >> = {}
    <2>1. Answer(r) = <<k>> \o << >>
      BY Fields DEF Answer
    <2> QED
      BY <1>1, <2>1, JoinNone
  <1>7. x \in Seq(Messages)
    BY <1>4, DataFields, OneAt
  <1> HIDE DEF k, x
  <1>8. Step(s, r, k, << >>, x)
    BY <1>1, <1>6, <1>7, ServesStep DEF x
  <1>9. Silent
    BY <1>8 DEF Step
  <1>10. /\ TypeOK' /\ Fewer(s) /\ Fewer(Other(s)) /\ serial'[Other(s)] = serial[Other(s)]
         /\ serial'[s] = Tail(serial[s])
         /\ call[s] # "closed" => Answers(s, r, k, << >>)
         /\ call[Other(s)] # "closed" => Hears(Other(s), x)
         /\ call[Other(s)] = "closed" => uart'[Other(s)] = << >>
         /\ Carried(Other(s))' = Carried(Other(s))
    BY <1>1, <1>2, <1>8, StepFacts
  <1>11. Carried(s) = sent[s] - 1 /\ Carried(s)' = sent[s]
    <2>1. Carried(s) = sent[s] - 1
      BY <1>3 DEF Carried
    <2>2. serial'[s] = << >> /\ sent'[s] = sent[s]
      BY <1>3, <1>9, <1>10 DEF Silent
    <2>3. ~ \E i \in DOMAIN serial'[s] : serial'[s][i] = SendLeCbData
      BY <2>2
    <2> QED
      BY <2>1, <2>2, <2>3 DEF Carried
  <1>12. SideInv(s)'
    <2>1. Answers(s, r, k, << >>)
      BY <1>3, <1>10
    <2>2. ConnectsOnce(s)'
      BY <1>1, <1>5, <1>9, <1>10, ConnectsLeft
    <2>3. DataOK(s)'
      BY <1>1, <1>9, <1>10, <2>1, OwnData
    <2>4. /\ \A i \in DOMAIN << >> : PacketOK(sent[Other(s)], board', << >>[i])
          /\ \A i \in DOMAIN << >> : << >>[i].opcode # "CONNECTION_COMPLETE"
      BY <1>6
    <2>5. ChannelOK(s)'
      BY <1>1, <1>3, <1>9, <2>1, <2>4, ChannelBare
    <2> QED
      BY <1>1, <1>5, <1>9, <2>1, <2>2, <2>3, <2>4, <2>5, OwnInv
  <1>13. ASSUME NEW t \in Side, t = Other(s)
         PROVE  SideInv(t)'
    <2>1. /\ SideInv(t) /\ Fewer(t) /\ serial'[t] = serial[t] /\ Other(t) = s
          /\ call[t] = "closed" => uart'[t] = << >>
          /\ Carried(Other(t)) = sent[s] - 1 /\ Carried(Other(t))' = sent[s]
      BY <1>1, <1>2, <1>10, <1>11, <1>13
    <2>2. ConnectsOnce(t)'
      BY <1>1, <1>5, <1>9, <2>1, ConnectsLeft
    <2>3. CASE call[t] = "closed"
      <3>1. t \notin board'.asking
        BY <2>1, <2>3, ClosedOther
      <3> QED
        BY <1>1, <1>5, <1>9, <2>1, <2>2, <2>3, <3>1, ClosedInv
    <2>4. CASE call[t] # "closed"
      <3>1. Hears(t, <<Data(sent[s])>>)
        BY <1>10, <1>13, <2>4 DEF x
      <3>2. sent[s] = sent[Other(t)]
        BY <2>1
      <3> QED
        BY <1>1, <1>4, <1>9, <2>1, <2>2, <3>1, <3>2, DataInv
    <2> QED
      BY <2>3, <2>4
  <1> QED
    <2>1. \A t \in Side : SideInv(t)'
      BY <1>2, <1>12, <1>13
    <2> QED
      BY <1>5, <1>10, <2>1 DEF LinkInv

\* Who connects, and that there is nothing yet.
LEMMA ConnectFacts ==
    ASSUME LinkInv, NEW s \in Side, Serves(s, Connect)
    PROVE  /\ s = "device" /\ board.link = "none" /\ ~board.open /\ board.asking = {}
           /\ call[s] = "setup" /\ waiting[s] = "confirm" /\ Request(s) = Connect
           /\ Tail(serial[s]) = << >>
           /\ \A t \in Side : /\ queue[t] = NoQueue /\ received[t] = << >> /\ sent[t] = 0
                              /\ \A i \in DOMAIN serial[t] : serial[t][i] # SendLeCbData
  <1>1. TypeOK /\ BoardOK /\ SideInv(s) /\ \A t \in Side : SideInv(t)
    BY DEF LinkInv
  <1>2. /\ Connect \notin {Disconnect, DeregisterLePsm} /\ Connect # SendLeCbData
        /\ Connect = serial[s][1] /\ 1 \in DOMAIN serial[s]
    <2>1. Connect = serial[s][1] /\ 1 \in DOMAIN serial[s]
      BY <1>1, OwnFacts DEF Serves
    <2> QED
      BY <2>1, Fields DEF Special
  <1>3. s = "device" /\ board.link = "none"
    BY <1>1, <1>2 DEF SideInv, ConnectsOnce
  <1>4. ~board.open /\ board.asking = {}
    BY <1>1, <1>3 DEF BoardOK, Up
  <1>5. /\ call[s] = "setup" /\ waiting[s] = "confirm" /\ Request(s) = Connect
        /\ Tail(serial[s]) = << >>
    BY <1>1, <1>2, <1>3, OwnFacts DEF Serves
  <1>6. \A t \in Side : queue[t] = NoQueue /\ received[t] = << >> /\ sent[t] = 0
    BY <1>1, <1>3, <1>4 DEF SideInv, QueueOK
  <1>7. ASSUME NEW t \in Side, NEW i \in DOMAIN serial[t], serial[t][i] = SendLeCbData
        PROVE  FALSE
    <2>1. SideInv(t) /\ SendLeCbData \notin {Disconnect, DeregisterLePsm}
      BY <1>1, Fields
    <2>2. call[t] \in {"setup", "send"} /\ waiting[t] = "confirm" /\ serial[t] = <<Request(t)>>
      BY <1>3, <1>7, <2>1 DEF SideInv, SerialOK
    <2>3. call[t] = "setup"
      BY <1>6, <2>1, <2>2 DEF SideInv, CallsOK
    <2>4. serial[t] # << >> /\ Head(serial[t]) = Request(t) /\ Request(t) = SendLeCbData
      <3>1. serial[t] # << >> /\ Head(serial[t]) = Request(t)
        BY <2>2
      <3>2. i = 1
        BY <1>7, <2>2
      <3> QED
        BY <1>7, <2>2, <3>1, <3>2
    <2>5. SendLeCbData = ConnectLePsm \/ Preparing(SendLeCbData)
      BY <1>1, <2>1, <2>3, <2>4, OwnFacts
    <2> QED
      BY <2>5, Fields, Preparations DEF Special
  <1> QED
    BY <1>3, <1>4, <1>5, <1>6, <1>7

\* Where nothing was sent nothing is missing.
LEMMA NothingSent ==
    ASSUME TypeOK, Silent, NEW t \in Side, SideInv(t), NEW x, Hears(t, x),
           \A i \in DOMAIN x : ~IsData(x[i]), queue[t] = NoQueue, received[t] = << >>,
           sent[Other(t)] = 0, Carried(Other(t))' = 0
    PROVE  DataOK(t)'
  <1>1. uart[t] \in Seq(Messages) /\ Joined(uart[t], x, uart'[t])
    BY JoinAt DEF Hears, TypeOK
  <1>2. \A i \in DOMAIN uart[t] : ~IsData(uart[t][i])
    BY DEF SideInv, PacketsOK, IsData
  <1>3. \A i \in DOMAIN uart'[t] : ~IsData(uart'[t][i])
    BY <1>1, <1>2 DEF Joined
  <1>4. InOrder(uart'[t], 0, 0)
    BY <1>3, InOrderNone
  <1>5. Gathered(t)' = 0 /\ queue'[t] = NoQueue /\ received'[t] = << >>
    BY DEF Gathered, Silent
  <1>6. received'[t] = [i \in DOMAIN received'[t] |-> i]
    BY <1>5
  <1>7. InOrder(uart'[t], Gathered(t)', 0)
    BY <1>4, <1>5
  <1> QED
    BY <1>5, <1>6, <1>7 DEF DataOK

\* The connection is made.
LEMMA ConnectStep ==
    ASSUME LinkInv, NEW s \in Side, Serves(s, Connect), Connecting(s)
    PROVE  LinkInv'
  <1> DEFINE r == Connect
  <1> DEFINE k == Confirm(Connect)
  <1> DEFINE x == <<Connected>>
  <1>1. /\ TypeOK /\ BoardOK /\ SideInv(s) /\ SideInv(Other(s)) /\ board \in Boards
        /\ k \in Messages /\ k.opcode = "CONFIRM" /\ k.group = r.group /\ k.ok
    BY AskedOf
  <1>2. /\ Other(s) \in Side /\ Other(s) # s /\ Other(Other(s)) = s
        /\ \A t \in Side : t = s \/ t = Other(s)
    BY Sides
  <1>3. /\ s = "device" /\ board.link = "none" /\ ~board.open /\ board.asking = {}
        /\ call[s] = "setup" /\ waiting[s] = "confirm" /\ Request(s) = Connect
        /\ Tail(serial[s]) = << >>
        /\ \A t \in Side : /\ queue[t] = NoQueue /\ received[t] = << >> /\ sent[t] = 0
                           /\ \A i \in DOMAIN serial[t] : serial[t][i] # SendLeCbData
    BY ConnectFacts
  <1>4. /\ board' \in Boards /\ board'.link = "up" /\ ~board'.open /\ board'.asking = {}
    BY <1>1, <1>3 DEF Connecting, Boards
  <1>5. Later /\ BoardOK'
    BY <1>3, <1>4 DEF Later, BoardOK, Up
  <1>6. /\ x \in Seq(Messages) /\ \A i \in DOMAIN x : Noise(board', x[i])
        /\ \A i \in DOMAIN x : x[i].opcode \notin {"CONFIRM", "LE_CB_DATA"}
    BY Reported, OnePlain
  <1>7. Reports(s, <<k>> \o x, x)
    <2>1. <<k>> \o x = <<k, Connected>>
      BY JoinOnes
    <2> QED
      BY <2>1 DEF Connecting
  <1> HIDE DEF k, x
  <1>8. Step(s, r, k, x, x)
    BY <1>1, <1>4, <1>6, <1>7, ServesStep
  <1>9. Silent
    BY <1>8 DEF Step
  <1>10. /\ TypeOK' /\ Fewer(s) /\ Fewer(Other(s)) /\ serial'[Other(s)] = serial[Other(s)]
         /\ serial'[s] = << >>
         /\ call[s] # "closed" => Answers(s, r, k, x)
         /\ call[Other(s)] # "closed" => Hears(Other(s), x)
         /\ call[Other(s)] = "closed" => uart'[Other(s)] = << >>
    BY <1>1, <1>2, <1>3, <1>8, StepFacts
  <1>11. \A t \in Side : Carried(t)' = 0
    <2>1. ASSUME NEW t \in Side, NEW i \in DOMAIN serial'[t]
          PROVE  serial'[t][i] # SendLeCbData
      <3>1. CASE t = s
        <4>1. DOMAIN serial'[t] = {}
          BY <1>10, <3>1
        <4> QED
          BY <4>1
      <3>2. CASE t # s
        <4>1. serial'[t] = serial[t]
          BY <1>2, <1>10, <3>2
        <4> QED
          BY <1>3, <4>1
      <3> QED
        BY <3>1, <3>2
    <2>2. \A t \in Side : sent'[t] = 0
      BY <1>3, <1>9 DEF Silent
    <2> QED
      BY <2>1, <2>2 DEF Carried
  <1>12. \A i \in DOMAIN x : ~IsData(x[i])
    BY <1>6 DEF IsData
  <1>13. SideInv(s)'
    <2>1. Answers(s, r, k, x)
      BY <1>3, <1>10
    <2>2. ConnectsOnce(s)'
      <3>1. task[s] \in Seq(Requests) /\ task[s] # << >> /\ Request(s) = task[s][1]
            /\ 1 \in DOMAIN task[s]
        <4>1. task[s] \in Seq(Requests) /\ task[s] # << >>
          BY <1>3 DEF TypeOK, LinkInv
        <4> QED
          BY <4>1, TailAt DEF Popped, Request
      <3>2. \A i \in DOMAIN task[s] : task[s][i] = Connect => i = 1
        BY <1>1, <1>3, <3>1 DEF SideInv, ConnectsOnce
      <3>3. task'[s] = task[s] /\ waiting'[s] = "confirm" /\ DOMAIN serial'[s] = {}
        BY <1>3, <1>9, <1>10 DEF Silent
      <3> QED
        BY <1>3, <3>2, <3>3 DEF ConnectsOnce
    <2>3. DataOK(s)'
      <3> DEFINE w == <<k>> \o x
      <3> DEFINE p == <<k>>
      <3>1. Hears(s, w) /\ Joined(p, x, w)
        BY <1>1, <2>1, AnswersHeard
      <3>2. \A i \in DOMAIN p : p[i] = k
        BY <1>1, OneAt
      <3> HIDE DEF w, p
      <3>3. \A i \in DOMAIN w : ~IsData(w[i])
        BY <1>1, <1>12, <3>1, <3>2 DEF Joined, IsData
      <3> QED
        BY <1>1, <1>2, <1>3, <1>9, <1>11, <3>1, <3>3, NothingSent
    <2>4. \A i \in DOMAIN x : x[i].opcode # "CONNECTION_COMPLETE"
                               /\ PacketOK(sent[Other(s)], board', x[i])
      <3>1. ConnectionComplete.opcode = "CONNECTION_COMPLETE"
        BY Reported
      <3> QED
        BY <1>6, <3>1 DEF Noise, PacketOK
    <2>5. ChannelOK(s)'
      BY <1>1, <1>4, <1>9, <2>1, <2>4, ChannelBare
    <2> QED
      BY <1>1, <1>5, <1>9, <2>1, <2>2, <2>3, <2>4, <2>5, OwnInv
  <1>14. ASSUME NEW t \in Side, t = Other(s)
         PROVE  SideInv(t)'
    <2>1. /\ SideInv(t) /\ Fewer(t) /\ serial'[t] = serial[t] /\ Other(t) = s
          /\ call[t] = "closed" => uart'[t] = << >>
          /\ t \notin board'.asking /\ t # "device"
      BY <1>1, <1>2, <1>3, <1>4, <1>10, <1>14
    <2>2. ConnectsOnce(t)'
      <3>1. task'[t] = task[t] /\ waiting'[t] = waiting[t]
        BY <1>9 DEF Silent
      <3>2. /\ \A i \in DOMAIN serial[t] : serial[t][i] # Connect
            /\ \A i \in DOMAIN task[t] : task[t][i] # Connect
        BY <2>1 DEF SideInv, ConnectsOnce
      <3> QED
        BY <2>1, <3>1, <3>2 DEF ConnectsOnce
    <2>3. CASE call[t] = "closed"
      BY <1>1, <1>5, <1>9, <2>1, <2>2, <2>3, ClosedInv
    <2>4. CASE call[t] # "closed"
      <3>1. Hears(t, x)
        BY <1>10, <1>14, <2>4
      <3>2. DataOK(t)'
        BY <1>1, <1>3, <1>9, <1>11, <1>12, <2>1, <3>1, NothingSent
      <3> QED
        BY <1>1, <1>4, <1>5, <1>6, <1>9, <2>1, <2>2, <3>1, <3>2, ListenInv
    <2> QED
      BY <2>3, <2>4
  <1> QED
    <2>1. \A t \in Side : SideInv(t)'
      BY <1>2, <1>13, <1>14
    <2> QED
      BY <1>5, <1>10, <2>1 DEF LinkInv

\* The board of s carries out a request.
LEMMA BoardInv ==
    ASSUME LinkInv, NEW s \in Side, Board(s)
    PROVE  LinkInv'
  <1>1. PICK r : r = Head(serial[s])
    OBVIOUS
  <1>2. Serves(s, r)
    BY <1>1 DEF Board, Serves
  <1>3. /\ TypeOK /\ board \in Boards /\ r \in Requests
        /\ Confirm(r) \in Messages /\ Confirm(r).opcode = "CONFIRM"
        /\ r \notin {Disconnect, ConnectLePsm, SendLeCbData} => Preparing(r) \/ r.event = None
    BY <1>2, AskedOf
  <1>4. \/ r = Connect /\ Connecting(s)
        \/ r \in OverTheLink /\ Up /\ Carries(s, r)
        \/ r \in OverTheLink /\ ~Up /\ Reports(s, <<Failed(Confirm(r))>>, << >>) /\ UNCHANGED board
        \/ r \notin OverTheLink \cup {Connect} /\ Local(s, r)
    BY <1>1 DEF Board
  <1>5. << >> \in Seq(Messages) /\ DOMAIN << >> = {}
    OBVIOUS
  <1>6. CASE r = Connect /\ Connecting(s)
    BY <1>2, <1>6, ConnectStep
  <1>7. CASE r \in OverTheLink /\ ~Up /\ Reports(s, <<Failed(Confirm(r))>>, << >>) /\ UNCHANGED board
    BY <1>2, <1>7, Refused
  <1>8. CASE r \notin OverTheLink \cup {Connect} /\ Local(s, r)
    <2>1. r \notin {Disconnect, ConnectLePsm, SendLeCbData}
      BY <1>8 DEF OverTheLink
    <2>2. /\ board' \in Boards /\ board'.link = board.link /\ board'.open = board.open
          /\ board'.asking = board.asking
      BY <1>3, <1>8 DEF Local, Boards
    <2>3. Reports(s, Answer(r), << >>)
      BY <1>8 DEF Local
    <2> QED
      BY <1>2, <1>5, <2>1, <2>2, <2>3, AnsweredInv
  <1>9. CASE r \in OverTheLink /\ Up /\ Carries(s, r)
    <2>1. CASE r = Disconnect /\ board' = LinkDown /\ Reports(s, Answer(r), <<Disconnected>>)
      BY <1>2, <1>9, <2>1, DisconnectStep
    <2>2. CASE /\ r = ConnectLePsm /\ Other(s) \in board.asking
               /\ board' = [board EXCEPT !.open = TRUE, !.asking = {}, !.lapses = 0]
               /\ Reports(s, Answer(r), <<ConnectionComplete>>)
      BY <1>2, <1>9, <2>2, ChannelOpens
    <2>3. CASE /\ r = ConnectLePsm /\ Other(s) \notin board.asking
               /\ board' = [board EXCEPT !.asking = @ \cup {s}]
               /\ Reports(s, <<Confirm(r)>>, <<Event("L2CAP", "CONNECTION_REQUEST")>>)
      BY <1>2, <1>9, <2>3, ChannelAwaits
    <2>4. CASE /\ r = WriteCharacteristic /\ Reports(s, <<Confirm(r)>>, <<AttributeWritten>>)
               /\ UNCHANGED board
      <3>1. Plain(AttributeWritten) /\ r # SendLeCbData
        <4>1. WriteCharacteristic.group = "GATT" /\ SendLeCbData.group = "L2CAP"
          BY Fields DEF WriteCharacteristic, Procedure
        <4> QED
          BY <2>4, <4>1, Reported
      <3> QED
        BY <1>2, <2>4, <3>1, ConfirmedStep
    <2>5. CASE /\ r = SendAttributeWrittenStatus /\ UNCHANGED board
               /\ Reports(s, Answer(r), <<Event("GATT", "PROCEDURE_WRITE")>>)
      <3>1. r \notin {Disconnect, ConnectLePsm, SendLeCbData}
        <4>1. SendAttributeWrittenStatus.group = "GATT"
          BY DEF SendAttributeWrittenStatus, Command, Procedure
        <4> QED
          BY <2>5, <4>1, Fields
      <3> DEFINE x == <<Event("GATT", "PROCEDURE_WRITE")>>
      <3>2. x \in Seq(Messages) /\ \A i \in DOMAIN x : Noise(board', x[i])
        BY Reported, OnePlain
      <3>3. Reports(s, Answer(r), x)
        BY <2>5
      <3> HIDE DEF x
      <3> QED
        BY <1>2, <1>3, <2>5, <3>1, <3>2, <3>3, AnsweredInv
    <2>6. CASE r = SendLeCbData /\ Reports(s, Answer(r), <<Data(sent[s])>>) /\ UNCHANGED board
      BY <1>2, <1>9, <2>6, DataStep
    <2>7. CASE r \in Inquiries /\ Reports(s, Answer(r), << >>) /\ UNCHANGED board
      <3>1. r \notin {Disconnect, ConnectLePsm, SendLeCbData}
        <4>1. \A i \in Inquiries : i.group = "GATT" \/ i.opcode = "ENABLE_UPDATE_CONNECTION_PARAMETERS"
          BY DEF Inquiries, EnableUpdate, DiscoverServices, DiscoverCharacteristics,
                 ReadCharacteristic, Command, Procedure
        <4>2. Disconnect.opcode # "ENABLE_UPDATE_CONNECTION_PARAMETERS" /\ Disconnect.group = "GAP"
          BY DEF Disconnect, Procedure
        <4>3. /\ ConnectLePsm.opcode # "ENABLE_UPDATE_CONNECTION_PARAMETERS"
              /\ SendLeCbData.opcode # "ENABLE_UPDATE_CONNECTION_PARAMETERS"
          BY DEF ConnectLePsm, SendLeCbData, Command, Procedure
        <4> QED
          BY <2>7, <4>1, <4>2, <4>3, Fields
      <3> QED
        BY <1>2, <1>3, <1>5, <2>7, <3>1, AnsweredInv
    <2> QED
      BY <1>9, <2>1, <2>2, <2>3, <2>4, <2>5, <2>6, <2>7 DEF Carries
  <1> QED
    BY <1>4, <1>6, <1>7, <1>8, <1>9

-----------------------------------------------------------------------------
(* The radio: what no host has asked for.                                    *)

\* What a step of the radio leaves alone.
Unasked == UNCHANGED <<hosts, orphan, serial, fault, histories>>

\* What that means for either side.
LEMMA UnaskedFacts ==
    ASSUME LinkInv, Unasked, NEW s \in Side,
           NEW own \in Seq(Messages), NEW others \in Seq(Messages), Reports(s, own, others),
           board' \in Boards, board.link = "none" => board'.link = "none"
    PROVE  /\ TypeOK /\ TypeOK' /\ Silent
           /\ \A t \in Side : SideInv(t) /\ ConnectsOnce(t)' /\ Carried(t)' = Carried(t)
                              /\ serial'[t] = serial[t] /\ Fewer(t)
           /\ call[s] # "closed" => Hears(s, own)
           /\ call[Other(s)] # "closed" => Hears(Other(s), others)
           /\ \A t \in Side : call[t] = "closed" => uart'[t] = << >>
  <1>1. TypeOK /\ Silent /\ serial' = serial /\ \A t \in Side : SideInv(t)
    BY DEF LinkInv, Unasked, Silent, hosts, histories
  <1>2. /\ uart' \in [Side -> Seq(Messages)]
        /\ call[s] # "closed" => Hears(s, own)
        /\ call[Other(s)] # "closed" => Hears(Other(s), others)
        /\ \A t \in Side : call[t] = "closed" => uart'[t] = << >>
    BY <1>1, ReportsAt
  <1>3. TypeOK'
    <2>1. serial' \in [Side -> Seq(Requests)]
      BY <1>1 DEF TypeOK
    <2> QED
      BY <1>1, <1>2, <2>1, SilentTypes
  <1>4. ASSUME NEW t \in Side
        PROVE  ConnectsOnce(t)' /\ Carried(t)' = Carried(t) /\ Fewer(t)
    <2>1. Fewer(t)
      BY <1>1 DEF Fewer
    <2>2. ConnectsOnce(t)'
      BY <1>1, <2>1, ConnectsLeft
    <2>3. Carried(t)' = Carried(t)
      BY <1>1 DEF Carried, Silent
    <2> QED
      BY <2>1, <2>2, <2>3
  <1> QED
    BY <1>1, <1>2, <1>3, <1>4

\* One side listens, or has closed its port.
LEMMA UnaskedInv ==
    ASSUME TypeOK, Silent, Later, NEW t \in Side, SideInv(t), ConnectsOnce(t)',
           Carried(Other(t))' = Carried(Other(t)), serial'[t] = serial[t],
           NEW x, \A i \in DOMAIN x : Noise(board', x[i]),
           call[t] # "closed" => Hears(t, x), call[t] = "closed" => uart'[t] = << >>,
           Up' => Up, t \in board'.asking => t \in board.asking, board'.open => board.open
    PROVE  SideInv(t)'
  <1>1. CASE call[t] = "closed"
    <2>1. t \notin board'.asking /\ Fewer(t)
      BY <1>1, ClosedOther DEF Fewer
    <2> QED
      BY <1>1, <2>1, ClosedInv
  <1>2. CASE call[t] # "closed"
    <2>1. Hears(t, x) /\ \A i \in DOMAIN x : ~IsData(x[i])
      BY <1>2 DEF IsData, Noise
    <2>2. DataOK(t)'
      BY <2>1, DataHeard
    <2> QED
      BY <2>1, <2>2, ListenInv
  <1> QED
    BY <1>1, <1>2

\* Nothing about the channel is reported to either side.
LEMMA NoiseInv ==
    ASSUME LinkInv, Unasked, NEW s \in Side,
           NEW own \in Seq(Messages), NEW others \in Seq(Messages), Reports(s, own, others),
           \A i \in DOMAIN own : Noise(board', own[i]),
           \A i \in DOMAIN others : Noise(board', others[i]),
           board' \in Boards, Later, BoardOK', board.link = "none" => board'.link = "none",
           Up' => Up, board'.asking \subseteq board.asking, board'.open => board.open
    PROVE  LinkInv'
  <1>1. /\ TypeOK /\ TypeOK' /\ Silent
        /\ \A t \in Side : SideInv(t) /\ ConnectsOnce(t)' /\ Carried(t)' = Carried(t)
                           /\ serial'[t] = serial[t]
        /\ call[s] # "closed" => Hears(s, own)
        /\ call[Other(s)] # "closed" => Hears(Other(s), others)
        /\ \A t \in Side : call[t] = "closed" => uart'[t] = << >>
    BY UnaskedFacts
  <1>2. /\ Other(s) \in Side /\ \A t \in Side : t = s \/ t = Other(s)
    BY Sides
  <1>3. SideInv(s)'
    BY <1>1, <1>2, UnaskedInv
  <1>4. ASSUME NEW t \in Side, t = Other(s)
        PROVE  SideInv(t)'
    <2>1. /\ SideInv(t) /\ ConnectsOnce(t)' /\ serial'[t] = serial[t] /\ Other(t) \in Side
          /\ Carried(Other(t))' = Carried(Other(t))
      BY <1>1, Sides
    <2>2. call[t] # "closed" => Hears(t, others)
      BY <1>1, <1>4
    <2>3. call[t] = "closed" => uart'[t] = << >>
      BY <1>1
    <2> QED
      BY <1>1, <2>1, <2>2, <2>3, UnaskedInv
  <1> QED
    <2>1. \A t \in Side : SideInv(t)'
      BY <1>2, <1>3, <1>4
    <2> QED
      BY <1>1, <2>1 DEF LinkInv

\* The scanning device sees another.
LEMMA ScansInv ==
    ASSUME LinkInv, NEW ok \in BOOLEAN, Scans(ok)
    PROVE  LinkInv'
  <1>1. PICK m : m = IF ok THEN DeviceScanned ELSE Failed(DeviceScanned)
    OBVIOUS
  <1>2. Plain(m)
    BY <1>1, Reported
  <1> DEFINE x == <<m>>
  <1>3. x \in Seq(Messages) /\ \A i \in DOMAIN x : Noise(board', x[i])
    BY <1>2, OnePlain
  <1>4. Reports("device", x, << >>) /\ Unasked /\ board' = board
    BY <1>1 DEF Scans, Unasked
  <1> HIDE DEF x
  <1>5. << >> \in Seq(Messages) /\ DOMAIN << >> = {} /\ "device" \in Side
    BY DEF Side
  <1>6. board' \in Boards /\ Later /\ BoardOK' /\ (Up' => Up)
    BY <1>4, BoardFields DEF LinkInv, Later, BoardOK, Up
  <1> QED
    BY <1>3, <1>4, <1>5, <1>6, NoiseInv

\* The link is lost.
LEMMA LostInv ==
    ASSUME LinkInv, LinkLost
    PROVE  LinkInv'
  <1> DEFINE x == <<Disconnected>>
  <1>1. TypeOK /\ board' = LinkDown /\ Unasked /\ Reports("reader", x, x) /\ "reader" \in Side
    BY DEF LinkInv, LinkLost, Unasked, Side
  <1>2. /\ board' \in Boards /\ board'.link = "down" /\ ~board'.open /\ board'.asking = {}
        /\ Later /\ BoardOK' /\ ~Up'
    BY <1>1, DownFacts
  <1>3. x \in Seq(Messages) /\ \A i \in DOMAIN x : Noise(board', x[i])
    <2>1. Disconnected \in Messages /\ Disconnected.opcode = "DISCONNECTED"
      BY Reported
    <2>2. x \in Seq(Messages) /\ DOMAIN x = {1} /\ x[1] = Disconnected
      BY <2>1, OneAt
    <2> QED
      BY <1>2, <2>1, <2>2 DEF Noise
  <1> HIDE DEF x
  <1>4. board.link # "none"
    BY DEF LinkLost, Up
  <1> QED
    BY <1>1, <1>2, <1>3, <1>4, NoiseInv

\* A request for the channel lapses.
LEMMA LapsesInv ==
    ASSUME LinkInv, NEW s \in Side, Lapses(s)
    PROVE  LinkInv'
  <1> DEFINE m == Failed(ConnectionComplete)
  <1> DEFINE x == <<m>>
  <1> DEFINE y == << >>
  <1>1. Unasked /\ Reports(s, x, y) /\ s \in board.asking
    BY DEF Lapses, Unasked
  <1>2. /\ board' \in Boards /\ board'.link = board.link /\ board'.open = board.open
        /\ board'.asking = board.asking \ {s}
    <2>1. /\ board \in Boards /\ board.lapses \in 0 .. MaxLapses /\ MaxLapses \in Nat
          /\ board.asking \in SUBSET Side
      BY BoardFields, BleLinkAssumption DEF LinkInv
    <2>2. board.lapses + 1 \in 0 .. MaxLapses /\ board.asking \ {s} \in SUBSET Side
      BY <2>1 DEF Lapses
    <2> QED
      BY <2>1, <2>2 DEF Lapses, Boards
  <1>3. Up /\ ~(board'.open <=> m = ConnectionComplete) => FALSE
    <2>1. m # ConnectionComplete
      <3>1. m.ok = FALSE /\ ConnectionComplete.ok
        BY DEF Failed, ConnectionComplete, Event
      <3> QED
        BY <3>1
    <2>2. ~board.open
      <3>1. SideInv(s) /\ s \in board.asking
        BY <1>1 DEF LinkInv
      <3>2. AskedIn(uart[s], serial[s], Request(s), waiting[s]) /\ call[s] = "setup"
        BY <3>1 DEF SideInv, ChannelOK
      <3>3. board.open => \E i \in DOMAIN uart[s] : uart[s][i] = ConnectionComplete
        BY <3>1, <3>2 DEF SideInv, ChannelOK
      <3> QED
        BY <3>2, <3>3, Reported DEF AskedIn, Completes
    <2> QED
      BY <1>2, <2>1, <2>2
  <1>4. /\ m \in {ConnectionComplete, Failed(ConnectionComplete)} /\ x \in Seq(Messages)
        /\ \A i \in DOMAIN x : ~IsData(x[i])
    <2>1. m \in Messages /\ m.opcode = "CONNECTION_COMPLETE"
      BY Reported
    <2> QED
      BY <2>1, OneAt DEF IsData
  <1>5. y \in Seq(Messages) /\ DOMAIN y = {}
    OBVIOUS
  <1> HIDE DEF m, x, y
  <1>6. /\ TypeOK /\ TypeOK' /\ Silent
        /\ \A t \in Side : SideInv(t) /\ ConnectsOnce(t)' /\ Carried(t)' = Carried(t)
                           /\ serial'[t] = serial[t]
        /\ call[s] # "closed" => Hears(s, x)
        /\ call[Other(s)] # "closed" => Hears(Other(s), y)
        /\ \A t \in Side : call[t] = "closed" => uart'[t] = << >>
    BY <1>1, <1>2, <1>4, <1>5, UnaskedFacts
  <1>7. /\ Other(s) \in Side /\ Other(s) # s /\ \A t \in Side : t = s \/ t = Other(s)
    BY Sides
  <1>8. BoardOK /\ BoardOK' /\ Later /\ Up /\ Up'
    BY <1>1, <1>2 DEF LinkInv, BoardOK, Later, Up
  <1>9. SideInv(s)'
    <2>1. Hears(s, x)
      BY <1>1, <1>6, ClosedOther
    <2>2. DataOK(s)'
      BY <1>4, <1>6, <1>7, <1>8, <2>1, DataHeard
    <2>3. Hears(s, <<m>>)
      BY <2>1 DEF x
    <2>4. s \notin board'.asking /\ (board'.open <=> m = ConnectionComplete)
      BY <1>2, <1>3, <1>8
    <2> QED
      BY <1>1, <1>4, <1>6, <1>8, <2>2, <2>3, <2>4, CompleteInv
  <1>10. ASSUME NEW t \in Side, t = Other(s)
         PROVE  SideInv(t)'
    <2>1. /\ SideInv(t) /\ ConnectsOnce(t)' /\ serial'[t] = serial[t] /\ Other(t) \in Side
          /\ Carried(Other(t))' = Carried(Other(t))
      BY <1>6, Sides
    <2>2. call[t] # "closed" => Hears(t, y)
      BY <1>6, <1>10
    <2>3. call[t] = "closed" => uart'[t] = << >>
      BY <1>6
    <2>4. t \in board'.asking => t \in board.asking
      BY <1>2
    <2> QED
      BY <1>2, <1>5, <1>6, <1>8, <2>1, <2>2, <2>3, <2>4, UnaskedInv
  <1> QED
    <2>1. \A t \in Side : SideInv(t)'
      BY <1>7, <1>9, <1>10
    <2> QED
      BY <1>6, <1>8, <2>1 DEF LinkInv

-----------------------------------------------------------------------------
(* The invariant of the specification, and what it says.                     *)

\* A session begins with nothing on its way.
LEMMA InitInv == Init => LinkInv
  <1> SUFFICES ASSUME Init
               PROVE  LinkInv
    OBVIOUS
  <1>1. /\ ReaderSetup \in Seq(Requests) /\ DeviceSetup \in Seq(Requests)
        /\ Planned(ReaderSetup) /\ Planned(DeviceSetup)
        /\ \A i \in DOMAIN ReaderSetup : ReaderSetup[i] # Connect
        /\ \A i, j \in DOMAIN DeviceSetup :
              DeviceSetup[i] = Connect /\ DeviceSetup[j] = Connect => i = j
    BY RequestKinds, Setups
  <1>2. /\ task = [s \in Side |-> IF s = "reader" THEN ReaderSetup ELSE DeviceSetup]
        /\ \A s \in Side : call[s] = "setup" /\ waiting[s] = "no" /\ ~connected[s] /\ ~channel[s]
                           /\ ~enabled[s] /\ ~orphan[s] /\ queue[s] = NoQueue /\ serial[s] = << >>
                           /\ uart[s] = << >> /\ sent[s] = 0 /\ received[s] = << >>
                           /\ missed[s] = {}
        /\ board.link = "none" /\ ~board.open /\ board.asking = {}
    BY DEF Init
  <1>3. ASSUME NEW s \in Side
        PROVE  /\ task[s] \in Seq(Requests) /\ Planned(task[s]) /\ task[s] # << >>
               /\ \A i \in DOMAIN task[s] : task[s][i] = Connect =>
                     s = "device" /\ \A j \in DOMAIN task[s] : task[s][j] = Connect => i = j
    <2>1. CASE s = "reader"
      <3>1. task[s] = ReaderSetup
        BY <1>2, <2>1
      <3> QED
        BY <1>1, <3>1 DEF Planned
    <2>2. CASE s = "device"
      <3>1. task[s] = DeviceSetup
        BY <1>2, <2>2
      <3> QED
        BY <1>1, <2>2, <3>1 DEF Planned
    <2> QED
      BY <2>1, <2>2 DEF Side
  <1>4. TypeOK
    <2>1. task \in [Side -> Seq(Requests)]
      <3>1. \A s \in Side : task[s] \in Seq(Requests)
        BY <1>3
      <3> QED
        BY <1>2, <3>1
    <2>2. /\ << >> \in Seq(Requests) /\ << >> \in Seq(Messages) /\ << >> \in Seq(Nat)
          /\ NoQueue \in Seq(Nat)
      <3>1. <<0>> \in Seq(Nat)
        BY OneAt
      <3> QED
        BY <3>1 DEF NoQueue
    <2>3. MaxSends \in [Side -> Nat]
      BY BleLinkAssumption
    <2>4. \A s \in Side : sent[s] <= MaxSends[s] /\ received[s] \in Seq(1 .. sent[Other(s)])
      <3>1. ASSUME NEW s \in Side
            PROVE  0 <= MaxSends[s]
        <4>1. MaxSends[s] \in Nat
          BY <2>3
        <4> QED
          BY <4>1
      <3>2. \A n : << >> \in Seq(1 .. n)
        OBVIOUS
      <3> QED
        BY <1>2, <3>1, <3>2
    <2>5. board \in Boards
      <3>1. 0 \in 0 .. MaxLapses
        BY BleLinkAssumption
      <3> QED
        BY <3>1 DEF Init, Boards
    <2>6. /\ \A s \in Side : waiting[s] # "no" => task[s] # << >>
          /\ \A s \in Side : call[s] \in {"idle", "closed", "broken"} <=> task[s] = << >>
      BY <1>2, <1>3
    <2> QED
      BY <2>1, <2>2, <2>4, <2>5, <2>6 DEF Init, TypeOK, Boards
  <1>5. BoardOK
    BY <1>2 DEF BoardOK
  <1>6. ASSUME NEW s \in Side
        PROVE  SideInv(s)
    <2>1. /\ call[s] = "setup" /\ waiting[s] = "no" /\ ~channel[s] /\ ~enabled[s] /\ ~orphan[s]
          /\ queue[s] = NoQueue /\ serial[s] = << >> /\ uart[s] = << >> /\ sent[s] = 0
          /\ received[s] = << >> /\ missed[s] = {} /\ DOMAIN uart[s] = {} /\ DOMAIN serial[s] = {}
      BY <1>2
    <2>2. CallsOK(s)
      BY <1>3, <2>1 DEF CallsOK, Whole
    <2>3. QueueOK(s)
      BY <2>1 DEF QueueOK
    <2>4. ConnectsOnce(s)
      BY <1>2, <1>3, <2>1 DEF ConnectsOnce
    <2>5. PacketsOK(s)
      BY <2>1 DEF PacketsOK
    <2>6. SerialOK(s)
      BY <2>1 DEF SerialOK
    <2>7. ConfirmOK(s)
      BY <2>1 DEF ConfirmOK, ConfirmsIn
    <2>8. ChannelOK(s)
      BY <1>2, <2>1 DEF ChannelOK, OpenedIn
    <2>9. DataOK(s)
      <3>1. Carried(Other(s)) = 0
        <4>1. Other(s) \in Side
          BY Sides
        <4>2. serial[Other(s)] = << >> /\ sent[Other(s)] = 0
          BY <1>2, <4>1
        <4> QED
          BY <4>2 DEF Carried
      <3>2. Gathered(s) = 0
        BY <2>1 DEF Gathered
      <3>3. InOrder(uart[s], 0, 0)
        BY <2>1, InOrderNone
      <3>4. received[s] = [i \in DOMAIN received[s] |-> i]
        BY <2>1
      <3> QED
        BY <2>1, <3>1, <3>2, <3>3, <3>4 DEF DataOK
    <2> QED
      BY <2>2, <2>3, <2>4, <2>5, <2>6, <2>7, <2>8, <2>9 DEF SideInv
  <1> QED
    BY <1>4, <1>5, <1>6 DEF LinkInv

\* Every step keeps the invariant.
LEMMA NextInv == LinkInv /\ [Next]_vars => LinkInv'
  <1> SUFFICES ASSUME LinkInv, [Next]_vars
               PROVE  LinkInv'
    OBVIOUS
  <1>1. ASSUME NEW s \in Side, Host(s) \/ Expires(s) \/ OrphanEnds(s) \/ Application(s)
        PROVE  LinkInv'
    BY <1>1, HostInv
  <1>2. ASSUME NEW s \in Side, Board(s)
        PROVE  LinkInv'
    BY <1>2, BoardInv
  <1>3. ASSUME NEW ok \in BOOLEAN, Scans(ok)
        PROVE  LinkInv'
    BY <1>3, ScansInv
  <1>4. ASSUME NEW s \in Side, Lapses(s)
        PROVE  LinkInv'
    BY <1>4, LapsesInv
  <1>5. CASE LinkLost
    BY <1>5, LostInv
  <1>6. CASE UNCHANGED vars
    <2>1. /\ call' = call /\ task' = task /\ waiting' = waiting /\ connected' = connected
          /\ channel' = channel /\ enabled' = enabled /\ timeout' = timeout /\ timer' = timer
          /\ queue' = queue /\ orphan' = orphan /\ serial' = serial /\ uart' = uart
          /\ board' = board /\ sent' = sent /\ received' = received /\ missed' = missed
      BY <1>6 DEF vars, hosts, histories
    <2>2. TypeOK' /\ BoardOK'
      BY <2>1 DEF LinkInv, TypeOK, BoardOK, Up
    <2>3. ASSUME NEW s \in Side
          PROVE  SideInv(s)'
      <3>1. SideInv(s)
        BY DEF LinkInv
      <3>2. Untouched(s)
        BY <2>1 DEF Untouched
      <3>3. Carried(Other(s))' = Carried(Other(s))
        BY <2>1 DEF Carried
      <3>4. sent[Other(s)] \in Nat
        BY Sides DEF LinkInv, TypeOK
      <3>5. sent'[Other(s)] \in Nat /\ sent'[Other(s)] >= sent[Other(s)]
        BY <2>1, <3>4
      <3> QED
        BY <2>1, <3>1, <3>2, <3>3, <3>5, UntouchedInv DEF LinkInv
    <2> QED
      BY <2>2, <2>3 DEF LinkInv
  <1> QED
    BY <1>1, <1>2, <1>3, <1>4, <1>5, <1>6 DEF Next, Radio

\* The invariant of both sides and of what is on its way between them: it holds
\* of every session, however many messages are sent and requests lapse.
THEOREM LinkInvariant == Spec => []LinkInv
  <1>1. Init => LinkInv
    BY InitInv
  <1>2. LinkInv /\ [Next]_vars => LinkInv'
    BY NextInv
  <1> QED
    BY <1>1, <1>2, PTL DEF Spec

\* Types, and which calls have something to do.
THEOREM TypeCorrect == Spec => []TypeOK
  <1>1. LinkInv => TypeOK
    BY DEF LinkInv
  <1> QED
    BY <1>1, LinkInvariant, PTL

\* What get_message returns is what the other side sent, in order and without
\* gaps, unless a packet was lost to a read that had been given up: for any
\* number of messages, in whatever order the boards, the radio and the two
\* hosts move.
THEOREM InOrderDelivered == Spec => []DeliveredInOrder
  <1>1. LinkInv => DeliveredInOrder
    BY DEF LinkInv, SideInv, DataOK, Whole, DeliveredInOrder
  <1> QED
    BY <1>1, LinkInvariant, PTL

\* What is outstanding of a group.
LEMMA OutstandingAt ==
    ASSUME NEW s \in Side, NEW g, NEW o
    PROVE  o \in Outstanding(s, g) <=>
              \/ \E i \in DOMAIN serial[s] : serial[s][i].group = g /\ o = <<"request", i>>
              \/ \E i \in DOMAIN uart[s] : /\ uart[s][i].group = g /\ uart[s][i].opcode = "CONFIRM"
                                           /\ o = <<"confirm", i>>
  BY DEF Outstanding

\* One request or CONFIRM is outstanding while a CONFIRM is awaited.
LEMMA OneOutstanding ==
    ASSUME LinkInv, NEW s \in Side, connected[s], waiting[s] = "confirm", Whole(s)
    PROVE  \E o \in Outstanding(s, Request(s).group) : Outstanding(s, Request(s).group) = {o}
  <1> DEFINE g == Request(s).group
  <1>1. TypeOK /\ SideInv(s) /\ Live(s)
    BY DEF LinkInv, Live
  <1>2. ~Frozen(s)
    BY <1>1 DEF TypeOK, Frozen
  <1>3. /\ \/ serial[s] = << >>
           \/ serial[s] = <<Request(s)>>
           \/ CleaningUp(s) /\ serial[s] = <<Disconnect, DeregisterLePsm>>
        /\ ConfirmsIn(uart[s], serial[s], Request(s), "confirm", CleaningUp(s), Whole(s))
    BY <1>1, <1>2 DEF SideInv, SerialOK, ConfirmOK
  <1>4. CleaningUp(s) => Request(s) = DeregisterLePsm /\ g = "L2CAP"
    BY Fields DEF CleaningUp, Request
  <1>5. serial[s] # << >> => \A i \in DOMAIN uart[s] : ~Own(uart[s], Request(s), i)
    BY <1>3, <1>4 DEF ConfirmsIn, Own
  <1>6. \A o : o \in Outstanding(s, g) <=>
              \/ \E i \in DOMAIN serial[s] : serial[s][i].group = g /\ o = <<"request", i>>
              \/ \E i \in DOMAIN uart[s] : Own(uart[s], Request(s), i) /\ o = <<"confirm", i>>
    BY OutstandingAt DEF Own
  <1> SUFFICES \E o \in Outstanding(s, g) : Outstanding(s, g) = {o}
    OBVIOUS
  <1> HIDE DEF g
  <1>7. CASE serial[s] = << >>
    <2>1. PICK i \in DOMAIN uart[s] : Own(uart[s], Request(s), i)
      BY <1>3, <1>7 DEF ConfirmsIn
    <2>2. \A j \in DOMAIN uart[s] : Own(uart[s], Request(s), j) => i = j
      BY <1>3, <2>1 DEF ConfirmsIn
    <2>3. DOMAIN serial[s] = {}
      BY <1>7
    <2>4. ASSUME NEW p
          PROVE  p \in Outstanding(s, g) <=> p = <<"confirm", i>>
      <3>1. ASSUME p \in Outstanding(s, g)
            PROVE  p = <<"confirm", i>>
        <4>1. PICK j \in DOMAIN uart[s] : Own(uart[s], Request(s), j) /\ p = <<"confirm", j>>
          BY <1>5, <1>6, <3>1, <2>3
        <4> QED
          BY <4>1, <2>1, <2>2
      <3>2. ASSUME p = <<"confirm", i>>
            PROVE  p \in Outstanding(s, g)
        BY <1>6, <3>2, <2>1, <2>2
      <3> QED
        BY <3>1, <3>2
    <2> DEFINE o == <<"confirm", i>>
    <2>5. \A p : p \in Outstanding(s, g) <=> p = o
      BY <2>4
    <2> HIDE DEF o
    <2>6. Outstanding(s, g) = {o}
      BY <2>5
    <2> QED
      BY <2>6
  <1>8. CASE serial[s] = <<Request(s)>>
    <2>1. DOMAIN serial[s] = {1} /\ serial[s][1].group = g /\ serial[s] # << >>
      BY <1>8 DEF g
    <2>2. ASSUME NEW p
          PROVE  p \in Outstanding(s, g) <=> p = <<"request", 1>>
      <3>1. ASSUME p \in Outstanding(s, g)
            PROVE  p = <<"request", 1>>
        <4>1. PICK j \in DOMAIN serial[s] : p = <<"request", j>>
          BY <1>5, <1>6, <3>1, <2>1
        <4> QED
          BY <4>1, <2>1
      <3>2. ASSUME p = <<"request", 1>>
            PROVE  p \in Outstanding(s, g)
        BY <1>6, <3>2, <2>1
      <3> QED
        BY <3>1, <3>2
    <2> DEFINE o == <<"request", 1>>
    <2>3. \A p : p \in Outstanding(s, g) <=> p = o
      BY <2>2
    <2> HIDE DEF o
    <2>4. Outstanding(s, g) = {o}
      BY <2>3
    <2> QED
      BY <2>4
  <1>9. CASE CleaningUp(s) /\ serial[s] = <<Disconnect, DeregisterLePsm>>
    <2>1. /\ DOMAIN serial[s] = {1, 2} /\ serial[s][1] = Disconnect
          /\ serial[s][2] = DeregisterLePsm /\ serial[s] # << >>
      BY <1>9
    <2>2. serial[s][1].group # g /\ serial[s][2].group = g
      BY <1>4, <1>9, <2>1, Fields
    <2>3. ASSUME NEW p
          PROVE  p \in Outstanding(s, g) <=> p = <<"request", 2>>
      <3>1. ASSUME p \in Outstanding(s, g)
            PROVE  p = <<"request", 2>>
        <4>1. PICK j \in DOMAIN serial[s] : serial[s][j].group = g /\ p = <<"request", j>>
          BY <1>5, <1>6, <3>1, <2>1
        <4> QED
          BY <4>1, <2>1, <2>2
      <3>2. ASSUME p = <<"request", 2>>
            PROVE  p \in Outstanding(s, g)
        BY <1>6, <3>2, <2>1, <2>2
      <3> QED
        BY <3>1, <3>2
    <2> DEFINE o == <<"request", 2>>
    <2>4. \A p : p \in Outstanding(s, g) <=> p = o
      BY <2>3
    <2> HIDE DEF o
    <2>5. Outstanding(s, g) = {o}
      BY <2>4
    <2> QED
      BY <2>5
  <1> QED
    BY <1>3, <1>7, <1>8, <1>9

\* While a side is connected the CONFIRM it waits for is that of its request:
\* nothing else of the opcode group is outstanding, although wait_for_confirm
\* looks at the group alone and reads may have been given up before.
THEOREM ConfirmsMatched == Spec => []ConfirmsMatch
  <1>1. LinkInv => ConfirmsMatch
    BY OneOutstanding DEF ConfirmsMatch, Whole
  <1> QED
    BY <1>1, LinkInvariant, PTL
=============================================================================
