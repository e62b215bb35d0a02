------------------------------- MODULE BleLink -------------------------------
(***************************************************************************)
(* A Reader and a User Device over Bluetooth LE: on each side the transport   *)
(* ble_uwb.py and the Murata driver, a board at the end of a serial line, and *)
(* the radio between the boards.  A host writes a request, waits for the      *)
(* CONFIRM of its group and, for most requests, for one event; whatever else  *)
(* the board reports in between is looked at by wait_for_message alone.       *)
(*                                                                           *)
(* The boards are external.  A board carries out one request at a time and in *)
(* one step, the effect on the other side included; the serial lines are      *)
(* queues.  The link may be lost at any moment, a request for a channel may   *)
(* lapse, and a read with a timeout may give up.                              *)
(*                                                                           *)
(* A run of the model is one session: initialization makes a driver anew.     *)
(***************************************************************************)
EXTENDS Naturals, Sequences

CONSTANTS
    Timed,          \* the sides whose Reader or UserDevice has a timeout
    MaxSends,       \* bound of the model: messages of each side
    MaxLapses       \* bound of the model: requests for a channel that lapse

VARIABLES
    call,       \* the coroutine of the transport that runs
    task,       \* the requests it still has to make, the current one first
    waiting,    \* "no", or what wait_for_message waits for
    connected,  \* the other side is in connected_devices
    channel,    \* ... and in channel_ids
    enabled,    \* enable_timeout
    timeout,    \* BLE.timeout is set
    timer,      \* driver.timeout is set
    queue,      \* message_queue, NoQueue before it exists
    orphan,     \* a thread reads although the read it served was given up
    serial,     \* requests on their way to the board
    uart,       \* messages on their way to the host
    board,      \* the boards: link, channel, who asks for it and how often that
                \* lapsed, scanning, advertising
    fault,      \* what the User Device finds wrong with this Reader
    sent,       \* history: messages this side sent
    received,   \* history: those of the other side that get_message returned
    missed      \* history: "packet" an orphan took one, "write" a write was ignored

running == <<call, task, waiting, serial>>
hosts == <<call, task, waiting, connected, channel, enabled, timeout, timer, queue>>
histories == <<sent, received, missed>>
vars == <<hosts, orphan, serial, uart, board, fault, histories>>

Side == {"reader", "device"}

ASSUME BleLinkAssumption ==
    Timed \subseteq Side /\ MaxSends \in [Side -> Nat] /\ MaxLapses \in Nat

Other(s) == IF s = "reader" THEN "device" ELSE "reader"

None == "none"
NoQueue == <<0>>        \* messages are numbered from 1

-----------------------------------------------------------------------------
(* The requests of the drivers: opcode group, opcode, and the event that      *)
(* ends it, if one does.                                                      *)

Procedure(group, opcode, event) == [group |-> group, opcode |-> opcode, event |-> event]
Command(group, opcode) == Procedure(group, opcode, None)
Await(group, event) == Procedure(group, None, event)

ReleaseDatabase == Command("GATT_DB", "RELEASE_DATABASE")
InitializeDatabase == Command("GATT_DB", "DYN_INIT")
AddPrimaryService == Procedure("GATT_DB", "ADD_SERVICE_REQ", "ADD_SERVICE_IND")
AddCharacteristic == Procedure("GATT_DB", "ADD_CHARACTERISTIC_REQ", "ADD_CHARACTERISTIC_IND")
FindValueHandle == Procedure("GATT_DB", "FIND_HANDLE_REQ", "FIND_HANDLE_IND")
RegisterServerCallback == Command("GATT", "GATTSERVER_REGISTER_CALLBACK")
RegisterWriteNotifications == Command("GATT", "REGISTER_HANDLES_FOR_WRITE_NOTIFICATIONS")
SendAttributeWrittenStatus == Command("GATT", "SEND_ATTRIBUTE_WRITTEN_STATUS")
WaitForWrite == <<Await("GATT", "ATTRIBUTE_WRITTEN"), SendAttributeWrittenStatus>>

RegisterNotificationCallback == Command("GATT", "REGISTER_NOTIFICATION_CALLBACK")
RegisterProcedureCallback == Command("GATT", "REGISTER_PROCEDURE_CALLBACK")
DiscoverServices == Procedure("GATT", "DISCOVER_SERVICES", "PROCEDURE_SERVICES")
DiscoverCharacteristics ==
    Procedure("GATT", "DISCOVER_CHARACTERISTICS", "PROCEDURE_CHARACTERISTICS")
ReadCharacteristic == Procedure("GATT", "READ", "PROCEDURE_READ")
WriteCharacteristic == Procedure("GATT", "WRITE", "PROCEDURE_WRITE")

ReadPublicAddress == Procedure("GAP", "READ_ADDRESS", "ADDRESS_READY")
SetAdvertisingParameters == Procedure("GAP", "SET_PARAMETERS", "PARAMETERS_COMPLETE")
SetAdvertisingData == Procedure("GAP", "SET_DATA", "DATA_COMPLETE")
SetTxPowerLevel == Procedure("GAP", "SET_TX_POWER_LEVEL", "TX_POWER_COMPLETE")
StartAdvertising == Procedure("GAP", "START_ADVERTISING", "ADVERTISING_STATE_CHANGED")
StartScanning == Procedure("GAP", "START_SCANNING", "SCANNING_STATE_CHANGED")
StopScanning == Procedure("GAP", "STOP_SCANNING", "SCANNING_STATE_CHANGED")
SearchForDevice == Await("GAP", "DEVICE_SCANNED")
Connect == Procedure("GAP", "CONNECT", "CONNECTED")
WaitForConnectionEvent == Await("GAP", "CONNECTED")
EnableUpdate == Command("GAP", "ENABLE_UPDATE_CONNECTION_PARAMETERS")
Disconnect == Procedure("GAP", "DISCONNECT", "DISCONNECTED")

RegisterLeCb == Command("L2CAP", "REGISTER_LE_CB_CALLBACKS")
RegisterLePsm == Command("L2CAP", "REGISTER_LE_PSM")
DeregisterLePsm == Command("L2CAP", "DEREGISTER_LE_PSM")
WaitForL2capRequest == Await("L2CAP", "CONNECTION_REQUEST")
ConnectLePsm == Procedure("L2CAP", "CONNECT_LE_PSM", "CONNECTION_COMPLETE")
SendLeCbData == Command("L2CAP", "SEND_LE_CB_DATA")
WaitForData == Await("L2CAP", "LE_CB_DATA")

\* initialization and wait_for_connection: what each part of them asks for.
SetupGattDatabase ==
    << ReleaseDatabase, InitializeDatabase, AddPrimaryService, AddCharacteristic,
       AddCharacteristic, FindValueHandle, RegisterServerCallback, RegisterWriteNotifications >>
Advertise ==
    << ReadPublicAddress, SetAdvertisingParameters, SetAdvertisingData, SetTxPowerLevel,
       RegisterLeCb, RegisterLePsm, StartAdvertising >>
Scan == << [StopScanning EXCEPT !.event = None], StartScanning >>
FindReader == << SearchForDevice, StopScanning, Connect >>
HandleGattLayer ==
    << RegisterNotificationCallback, RegisterProcedureCallback, DiscoverServices,
       DiscoverCharacteristics, ReadCharacteristic, WriteCharacteristic >>
OpenChannelAsReader == << WaitForL2capRequest, ConnectLePsm >>
OpenChannelAsUser == << RegisterLeCb, RegisterLePsm, ConnectLePsm >>

ReaderSetup ==
    SetupGattDatabase \o Advertise \o <<WaitForConnectionEvent, EnableUpdate>>
    \o WaitForWrite \o OpenChannelAsReader
DeviceSetup == Scan \o FindReader \o <<EnableUpdate>> \o HandleGattLayer \o OpenChannelAsUser

\* Mutant of DisconnectTask: the clean-up alone.
CleanUpTask(isConnected) == <<DeregisterLePsm>>

\* BLE.disconnect: the connected device, if there is one, and the clean-up.
DisconnectTask(isConnected) ==
    (IF isConnected THEN <<Disconnect>> ELSE << >>) \o <<DeregisterLePsm>>

-----------------------------------------------------------------------------
(* What the board reports.                                                   *)

\* n is the number of the data, 0 in everything else.
Event(group, opcode) == [group |-> group, opcode |-> opcode, ok |-> TRUE, n |-> 0]
Failed(event) == [event EXCEPT !.ok = FALSE]
Confirm(request) == Event(request.group, "CONFIRM")
Data(n) == [Event("L2CAP", "LE_CB_DATA") EXCEPT !.n = n]
ConnectionComplete == Event("L2CAP", "CONNECTION_COMPLETE")
DeviceScanned == Event("GAP", "DEVICE_SCANNED")
AttributeWritten == Event("GATT", "ATTRIBUTE_WRITTEN")
Connected == Event("GAP", "CONNECTED")
Disconnected == Event("GAP", "DISCONNECTED")

\* initialization gives the driver the timeout of the Reader or UserDevice.
Init ==
    /\ call = [s \in Side |-> "setup"]
    /\ task = [s \in Side |-> IF s = "reader" THEN ReaderSetup ELSE DeviceSetup]
    /\ waiting = [s \in Side |-> "no"]
    /\ connected = [s \in Side |-> FALSE] /\ channel = [s \in Side |-> FALSE]
    /\ enabled = [s \in Side |-> FALSE]
    /\ timeout = [s \in Side |-> FALSE] /\ timer = [s \in Side |-> s \in Timed]
    /\ queue = [s \in Side |-> NoQueue] /\ orphan = [s \in Side |-> FALSE]
    /\ serial = [s \in Side |-> << >>] /\ uart = [s \in Side |-> << >>]
    /\ board = [link |-> "none", open |-> FALSE, asking |-> {}, lapses |-> 0,
                scanning |-> FALSE, advertising |-> FALSE]
    /\ fault \in {"none", "advertisement", "version"}
    /\ sent = [s \in Side |-> 0] /\ received = [s \in Side |-> << >>]
    /\ missed = [s \in Side |-> {}]

-----------------------------------------------------------------------------
(* The host: one request after the other.                                    *)

Request(s) == Head(task[s])

\* What is left to do: the first request is written at once.
Continues(s, t) ==
    /\ task' = [task EXCEPT ![s] = t]
    /\ waiting' = [waiting EXCEPT ![s] =
                     IF t = << >> THEN "no" ELSE IF Head(t).opcode = None THEN "event" ELSE "confirm"]
    /\ serial' = IF waiting'[s] = "confirm" THEN [serial EXCEPT ![s] = Append(@, Head(t))]
                 ELSE serial

Starts(s, c, t) == call' = [call EXCEPT ![s] = c] /\ Continues(s, t)

\* The last request is done: the call returns.  The end of the set-up makes
\* the queue, that of disconnect closes the UCI.
Returns(s) ==
    /\ Starts(s, IF call[s] = "disconnect" THEN "closed" ELSE "idle", << >>)
    /\ queue' = [queue EXCEPT ![s] = IF call[s] = "setup" THEN << >> ELSE @]

\* The User Device looks at the version in the advertisement once it is
\* connected, and at those of the Reader once it has read them.
Refuses(s) ==
    /\ s = "device" /\ call[s] = "setup"
    /\ \/ fault = "advertisement" /\ Request(s) = Connect
       \/ fault = "version" /\ Request(s) = ReadCharacteristic

\* Mutant of RequestDone: a call does not end with its last request.
RequestDoneAndOn(s) ==
    IF Refuses(s) THEN Starts(s, "disconnect", DisconnectTask(TRUE)) /\ UNCHANGED queue
    ELSE Continues(s, Tail(task[s])) /\ UNCHANGED <<call, queue>>

RequestDone(s) ==
    IF Refuses(s) THEN Starts(s, "disconnect", DisconnectTask(TRUE)) /\ UNCHANGED queue
    ELSE IF Len(task[s]) = 1 THEN Returns(s)
    ELSE Continues(s, Tail(task[s])) /\ UNCHANGED <<call, queue>>

\* An exception ends the call.  In disconnect what is left is still done, and
\* one in the clean-up leaves the UCI open.
Raises(s) ==
    /\ IF call[s] # "disconnect" THEN Starts(s, "idle", << >>)
       ELSE IF Request(s) = Disconnect THEN Starts(s, call[s], <<DeregisterLePsm>>)
       ELSE Starts(s, "broken", << >>)
    /\ UNCHANGED queue

\* The first request of the set-up, and connect_le_psm after its sleep: there is
\* no channel yet then (CallsOK), as the condition of its loop has it.
Write(s) ==
    /\ task[s] # << >> /\ waiting[s] = "no"
    /\ Continues(s, task[s])
    /\ UNCHANGED <<call, connected, channel, enabled, timeout, timer, queue, orphan, uart,
                   board, fault, histories>>

\* m is what wait_for_message waits for.
Awaited(s, m) ==
    /\ m.group = Request(s).group
    /\ m.opcode = (IF waiting[s] = "confirm" THEN "CONFIRM" ELSE Request(s).event)

\* wait_for_confirm, and the procedure that goes on after it.
Confirms(s, m) ==
    /\ waiting[s] = "confirm"
    /\ IF ~m.ok THEN Raises(s)
       ELSE IF Request(s).event = None THEN RequestDone(s)
       ELSE waiting' = [waiting EXCEPT ![s] = "event"] /\ UNCHANGED <<call, task, serial, queue>>
    /\ UNCHANGED <<connected, received>>

\* Mutant of Repeats: connect_le_psm waits for another answer and does not ask again.
RepeatsWaiting(s) == UNCHANGED <<running, queue, connected, received>>

\* The other side is not ready yet: connect_le_psm sleeps and asks again; or the
\* device scanned is another one: search_for_device goes on waiting.
Repeats(s) ==
    /\ waiting' = [waiting EXCEPT ![s] = IF Request(s) = ConnectLePsm THEN "no" ELSE @]
    /\ UNCHANGED <<call, task, serial, queue, connected, received>>

\* The answer m is another error (ErrorReturnedError), or the Reader's database
\* lacks what the User Device looks for in it (GATTError, or no version at all).
GivesUp(s, m) ==
    IF m.ok
    THEN Request(s) \in {DiscoverServices, DiscoverCharacteristics, ReadCharacteristic,
                         WriteCharacteristic}
    ELSE Request(s) = ConnectLePsm

Ends(s, m) ==
    /\ waiting[s] = "event"
    /\ \/ /\ m.ok /\ RequestDone(s)
          /\ connected' = [connected EXCEPT ![s] = @ \/ m = Connected]
          /\ received' = IF Request(s) # WaitForData THEN received
                         ELSE [received EXCEPT ![s] = Append(@, m.n)]
       \/ ~m.ok /\ Repeats(s)
       \/ GivesUp(s, m) /\ Raises(s) /\ UNCHANGED <<connected, received>>

\* Mutant of Pushes: data nobody waits for is discarded like anything else.
PushesNothing(s, m) ==
    /\ m.opcode = "LE_CB_DATA"
    /\ UNCHANGED <<running, queue, missed>>

\* Data for a later get_message; before the queue exists it is an error.
Pushes(s, m) ==
    /\ m.opcode = "LE_CB_DATA"
    /\ IF queue[s] = NoQueue THEN Raises(s)
       ELSE queue' = [queue EXCEPT ![s] = Append(@, m.n)] /\ UNCHANGED running
    /\ UNCHANGED missed

Discards(s, m) ==
    /\ m.opcode # "LE_CB_DATA"
    /\ missed' = IF m = AttributeWritten THEN [missed EXCEPT ![s] = @ \cup {"write"}]
                 ELSE missed
    /\ UNCHANGED <<running, queue>>

\* Mutant of Drops: the end of the connection is noted and the wait goes on.
DropsOnly(s) ==
    /\ connected' = [connected EXCEPT ![s] = FALSE]
    /\ channel' = [channel EXCEPT ![s] = FALSE]
    /\ UNCHANGED <<running, queue, enabled, received, missed>>

\* The other side, or nobody, ended the connection: whatever waits fails.
Drops(s) ==
    /\ connected' = [connected EXCEPT ![s] = FALSE]
    /\ channel' = [channel EXCEPT ![s] = FALSE]
    /\ Raises(s)
    /\ UNCHANGED <<enabled, received, missed>>

\* wait_for_message looks at one message.
Read(s) ==
    /\ waiting[s] # "no" /\ uart[s] # << >>
    /\ LET m == Head(uart[s]) IN
       \/ m = Disconnected /\ Drops(s)
       \/ /\ m # Disconnected
          /\ channel' = [channel EXCEPT ![s] = @ \/ m = ConnectionComplete]
          /\ enabled' = [enabled EXCEPT ![s] = @ \/ m = ConnectionComplete]
          /\ IF Awaited(s, m) THEN (Confirms(s, m) \/ Ends(s, m)) /\ UNCHANGED missed
             ELSE (Pushes(s, m) \/ Discards(s, m)) /\ UNCHANGED <<connected, received>>
    /\ uart' = [uart EXCEPT ![s] = Tail(@)]
    /\ UNCHANGED <<timeout, timer, orphan, board, fault, sent>>

\* wait_for gives the read up; its thread goes on.
Expires(s) ==
    /\ waiting[s] # "no" /\ uart[s] = << >>
    /\ enabled[s] /\ timer[s]
    /\ Raises(s)
    /\ orphan' = [orphan EXCEPT ![s] = TRUE]
    /\ UNCHANGED <<connected, channel, enabled, timeout, timer, uart, board, fault,
                   histories>>

\* That thread returns a packet to nobody, or none.
OrphanEnds(s) ==
    /\ orphan[s]
    /\ orphan' = [orphan EXCEPT ![s] = FALSE]
    /\ \/ uart[s] = << >> /\ UNCHANGED <<uart, missed>>
       \/ /\ uart[s] # << >>
          /\ uart' = [uart EXCEPT ![s] = Tail(@)]
          /\ missed' = [missed EXCEPT ![s] = @ \cup {"packet"}]
    /\ UNCHANGED <<hosts, serial, board, fault, sent, received>>

-----------------------------------------------------------------------------
(* The application: one call at a time, once the connection is set up.       *)

Usable(s) == call[s] = "idle" /\ queue[s] # NoQueue /\ connected[s]

\* Mutant of SendMessage: the timeout of the last get_message stays.
SendMessageTimed(s) ==
    /\ Usable(s) /\ sent[s] < MaxSends[s]
    /\ Starts(s, "send", <<SendLeCbData>>)
    /\ \E t \in BOOLEAN : timeout' = [timeout EXCEPT ![s] = t /\ s \in Timed]
    /\ sent' = [sent EXCEPT ![s] = @ + 1]
    /\ UNCHANGED <<connected, channel, enabled, timer, queue, orphan, uart, board, fault,
                   received, missed>>

SendMessage(s) ==
    /\ Usable(s) /\ sent[s] < MaxSends[s]
    /\ Starts(s, "send", <<SendLeCbData>>)
    /\ timer' = [timer EXCEPT ![s] = FALSE]
    /\ \E t \in BOOLEAN : timeout' = [timeout EXCEPT ![s] = t /\ s \in Timed]
    /\ sent' = [sent EXCEPT ![s] = @ + 1]
    /\ UNCHANGED <<connected, channel, enabled, queue, orphan, uart, board, fault,
                   received, missed>>

GetMessage(s) ==
    /\ Usable(s)
    /\ timer' = [timer EXCEPT ![s] = timeout[s]]
    /\ IF queue[s] # << >>
       THEN /\ received' = [received EXCEPT ![s] = Append(@, Head(queue[s]))]
            /\ queue' = [queue EXCEPT ![s] = Tail(@)]
            /\ UNCHANGED running
       ELSE Starts(s, "receive", <<WaitForData>>) /\ UNCHANGED <<queue, received>>
    /\ UNCHANGED <<connected, channel, enabled, timeout, orphan, uart, board, fault,
                   sent, missed>>

Disconnects(s) ==
    /\ call[s] = "idle"
    /\ Starts(s, "disconnect", DisconnectTask(connected[s]))
    /\ UNCHANGED <<connected, channel, enabled, timeout, timer, queue, orphan, uart,
                   board, fault, histories>>

-----------------------------------------------------------------------------
(* The boards.                                                               *)

\* What s's board and the other side's report; nothing comes through a closed port.
Reports(s, own, others) ==
    uart' = [t \in Side |-> IF call[t] = "closed" THEN << >>
                           ELSE uart[t] \o IF t = s THEN own ELSE others]

Up == board.link = "up"
LinkDown == [board EXCEPT !.link = "down", !.open = FALSE, !.asking = {}, !.lapses = 0]

Answer(r) == <<Confirm(r)>> \o IF r.event = None THEN << >> ELSE <<Event(r.group, r.event)>>

\* Requests that need nobody else.
Local(s, r) ==
    /\ Reports(s, Answer(r), << >>)
    /\ board' = CASE r = StartScanning -> [board EXCEPT !.scanning = TRUE]
                   [] r = StopScanning -> [board EXCEPT !.scanning = FALSE]
                   [] r = StartAdvertising -> [board EXCEPT !.advertising = TRUE]
                   [] OTHER -> board

Connecting(s) ==
    /\ board' = [board EXCEPT !.link = "up", !.advertising = FALSE]
    /\ Reports(s, <<Confirm(Connect), Connected>>, <<Connected>>)

Inquiries ==
    {EnableUpdate, DiscoverServices, DiscoverCharacteristics, ReadCharacteristic}
OverTheLink ==
    {Disconnect, ConnectLePsm, WriteCharacteristic, SendAttributeWrittenStatus, SendLeCbData}
    \cup Inquiries

\* What the link carries: r ends on s's side, or has to wait for the other.
Carries(s, r) ==
    LET done == Answer(r)
        waits == <<Confirm(r)>>
    IN  \/ r = Disconnect /\ board' = LinkDown /\ Reports(s, done, <<Disconnected>>)
        \/ /\ r = ConnectLePsm /\ Other(s) \in board.asking
           /\ board' = [board EXCEPT !.open = TRUE, !.asking = {}, !.lapses = 0]
           /\ Reports(s, done, <<ConnectionComplete>>)
        \/ /\ r = ConnectLePsm /\ Other(s) \notin board.asking
           /\ board' = [board EXCEPT !.asking = @ \cup {s}]
           /\ Reports(s, waits, <<Event("L2CAP", "CONNECTION_REQUEST")>>)
        \/ r = WriteCharacteristic /\ Reports(s, waits, <<AttributeWritten>>) /\ UNCHANGED board
        \/ /\ r = SendAttributeWrittenStatus /\ UNCHANGED board
           /\ Reports(s, done, <<Event("GATT", "PROCEDURE_WRITE")>>)
        \/ r = SendLeCbData /\ Reports(s, done, <<Data(sent[s])>>) /\ UNCHANGED board
        \/ r \in Inquiries /\ Reports(s, done, << >>) /\ UNCHANGED board

Board(s) ==
    /\ serial[s] # << >>
    /\ LET r == Head(serial[s]) IN
       \/ r = Connect /\ Connecting(s)
       \/ r \in OverTheLink /\ Up /\ Carries(s, r)
       \/ r \in OverTheLink /\ ~Up /\ Reports(s, <<Failed(Confirm(r))>>, << >>) /\ UNCHANGED board
       \/ r \notin OverTheLink \cup {Connect} /\ Local(s, r)
    /\ serial' = [serial EXCEPT ![s] = Tail(@)]
    /\ UNCHANGED <<hosts, orphan, fault, histories>>

\* An advertisement, of this Reader or of another device.
Scans(ok) ==
    /\ board.scanning /\ (ok => board.advertising)
    /\ LET scanned == IF ok THEN DeviceScanned ELSE Failed(DeviceScanned) IN
       /\ \A i \in DOMAIN uart["device"] : uart["device"][i] # scanned
       /\ Reports("device", <<scanned>>, << >>)
    /\ UNCHANGED <<hosts, orphan, serial, board, fault, histories>>

Lapses(s) ==
    /\ s \in board.asking /\ board.lapses < MaxLapses
    /\ board' = [board EXCEPT !.asking = @ \ {s}, !.lapses = @ + 1]
    /\ Reports(s, <<Failed(ConnectionComplete)>>, << >>)
    /\ UNCHANGED <<hosts, orphan, serial, fault, histories>>

LinkLost ==
    /\ Up /\ board' = LinkDown
    /\ Reports("reader", <<Disconnected>>, <<Disconnected>>)
    /\ UNCHANGED <<hosts, orphan, serial, fault, histories>>

-----------------------------------------------------------------------------
Host(s) == Write(s) \/ Read(s)
Application(s) == SendMessage(s) \/ GetMessage(s) \/ Disconnects(s)
Radio == (\E ok \in BOOLEAN : Scans(ok)) \/ (\E s \in Side : Lapses(s)) \/ LinkLost

Next ==
    \/ \E s \in Side : Host(s) \/ Expires(s) \/ OrphanEnds(s) \/ Application(s) \/ Board(s)
    \/ Radio

\* The event loop runs a coroutine whose packet has come and boards answer;
\* the scanning device sees the Reader now and then.  Nothing else must happen.
Fairness ==
    /\ \A s \in Side : WF_vars(Host(s)) /\ WF_vars(Board(s))
    /\ WF_vars(Scans(TRUE))

Spec == Init /\ [][Next]_vars /\ Fairness

-----------------------------------------------------------------------------
(* Properties.                                                               *)

Requests == {ReaderSetup[i] : i \in DOMAIN ReaderSetup}
            \cup {DeviceSetup[i] : i \in DOMAIN DeviceSetup}
            \cup {Disconnect, DeregisterLePsm, SendLeCbData, WaitForData}

Opcodes ==
    {"CONFIRM",
     "ADD_SERVICE_IND", "ADD_CHARACTERISTIC_IND", "FIND_HANDLE_IND", "ATTRIBUTE_WRITTEN",
     "PROCEDURE_SERVICES", "PROCEDURE_CHARACTERISTICS", "PROCEDURE_READ", "PROCEDURE_WRITE",
     "ADDRESS_READY", "PARAMETERS_COMPLETE", "DATA_COMPLETE", "TX_POWER_COMPLETE",
     "ADVERTISING_STATE_CHANGED", "SCANNING_STATE_CHANGED", "DEVICE_SCANNED",
     "CONNECTED", "DISCONNECTED",
     "CONNECTION_REQUEST", "CONNECTION_COMPLETE", "LE_CB_DATA"}

Messages == [group : {"GATT_DB", "GATT", "GAP", "L2CAP"}, opcode : Opcodes,
             ok : BOOLEAN, n : Nat]

TypeOK ==
    /\ call \in [Side -> {"setup", "idle", "send", "receive", "disconnect", "closed", "broken"}]
    /\ task \in [Side -> Seq(Requests)]
    /\ waiting \in [Side -> {"no", "confirm", "event"}]
    /\ connected \in [Side -> BOOLEAN] /\ channel \in [Side -> BOOLEAN]
    /\ enabled \in [Side -> BOOLEAN] /\ timeout \in [Side -> BOOLEAN]
    /\ timer \in [Side -> BOOLEAN] /\ orphan \in [Side -> BOOLEAN]
    /\ queue \in [Side -> Seq(Nat)]
    /\ serial \in [Side -> Seq(Requests)] /\ uart \in [Side -> Seq(Messages)]
    /\ \A s \in Side : waiting[s] # "no" => task[s] # << >>
    /\ \A s \in Side : call[s] \in {"idle", "closed", "broken"} <=> task[s] = << >>
    /\ board \in [link : {"none", "up", "down"}, open : BOOLEAN, asking : SUBSET Side,
                  lapses : 0 .. MaxLapses, scanning : BOOLEAN, advertising : BOOLEAN]
    /\ sent \in [Side -> Nat] /\ received \in [Side -> Seq(Nat)]
    /\ \A s \in Side : sent[s] <= MaxSends[s] /\ received[s] \in Seq(1 .. sent[Other(s)])
    /\ missed \in [Side -> SUBSET {"packet", "write"}]

\* What get_message returns is what the other side sent, in the order it was
\* sent and without gaps, also when the data came while the driver waited for
\* something else (base_driver.wait_for_message, message_queue) or while the
\* channel was being set up.  Only a packet read for a coroutine that had given
\* up may be missing.
DeliveredInOrder ==
    \A s \in Side : "packet" \notin missed[s] => received[s] = [i \in DOMAIN received[s] |-> i]

\* wait_for_confirm only looks at the opcode group: while the connection lasts
\* nothing else of the group is outstanding, so the CONFIRM it takes is that of
\* its request, whatever was given up before.
Outstanding(s, group) ==
    {<<"request", i>> : i \in {j \in DOMAIN serial[s] : serial[s][j].group = group}}
    \cup {<<"confirm", i>> : i \in {j \in DOMAIN uart[s] :
             uart[s][j].group = group /\ uart[s][j].opcode = "CONFIRM"}}

ConfirmsMatch ==
    \A s \in Side :
        connected[s] /\ waiting[s] = "confirm" /\ "packet" \notin missed[s] =>
            \E o \in Outstanding(s, Request(s).group) : Outstanding(s, Request(s).group) = {o}

\* Neither side leaves a connection behind that it does not know of: while the
\* link is up each side has the other in connected_devices or is about to read
\* that it is connected, and who closed the transport has asked for the end.
NoForgottenLink ==
    \A s \in Side : Up /\ "packet" \notin missed[s] =>
        /\ connected[s] \/ \E i \in DOMAIN uart[s] : uart[s][i] = Connected
        /\ call[s] \in {"closed", "broken"} =>
               \E i \in DOMAIN serial[s] : serial[s][i] = Disconnect

\* A side that has given the set-up up: an exception left the link as it is, and
\* the application has not called disconnect.
Abandoned(s) == Up /\ call[s] = "idle" /\ queue[s] = NoQueue

\* Both sides get through initialization and wait_for_connection, or fail: also
\* when requests for the channel cross or lapse, and when the link is lost or
\* refused.  A side waits for ever only for a write that came too early for it,
\* or for one that has given up and holds on to the link.
SetupEnds ==
    (\E s \in Side : call[s] = "setup") ~>
        \/ \A s \in Side : call[s] # "setup"
        \/ "write" \in missed["reader"] \/ \E s \in Side : Abandoned(s)

\* A call ends when the connection does, that of the set-up too, whoever gave up;
\* and send_message and disconnect in any case, unless a packet was lost to a read
\* that had been given up.
CallsEnd ==
    /\ (\E s \in Side : call[s] \in {"send", "disconnect"}) ~>
           \A s \in Side : call[s] \notin {"send", "disconnect"} \/ "packet" \in missed[s]
    /\ board.link = "down" ~>
           \A s \in Side : call[s] \notin {"setup", "receive"} \/ "packet" \in missed[s]

-----------------------------------------------------------------------------
(* What makes the safety properties inductive, of each side s.               *)

Live(s) == connected[s] \/ call[s] = "setup"
Frozen(s) == call[s] \in {"closed", "broken"}
CleaningUp(s) == call[s] = "disconnect" /\ task[s] = <<DeregisterLePsm>>
Whole(s) == "packet" \notin missed[s]

\* The set-up ends with ConnectLePsm, and what precedes it answers with none of
\* the messages that the driver looks at whatever it waits for.
Preparing(r) ==
    /\ r.event \notin {"CONFIRM", "LE_CB_DATA", "CONNECTION_COMPLETE", "DISCONNECTED"}
    /\ r \notin {SendLeCbData, DeregisterLePsm}
Planned(t) ==
    /\ t # << >> /\ t[Len(t)] = ConnectLePsm
    /\ \A i \in 1 .. Len(t) - 1 : Preparing(t[i])

CallsOK(s) ==
    /\ call[s] = "setup" =>
          /\ Planned(task[s]) /\ queue[s] = NoQueue /\ Whole(s)
          /\ ~channel[s] /\ ~enabled[s] /\ ~orphan[s]
    /\ call[s] = "send" =>
          /\ task[s] = <<SendLeCbData>> /\ waiting[s] = "confirm" /\ ~timer[s]
          /\ queue[s] # NoQueue /\ connected[s] /\ sent[s] > 0
    /\ call[s] = "receive" =>
          task[s] = <<WaitForData>> /\ waiting[s] = "event" /\ queue[s] = << >> /\ connected[s]
    /\ call[s] = "disconnect" =>
          \/ task[s] = <<Disconnect, DeregisterLePsm>> /\ waiting[s] # "no"
          \/ task[s] = <<DeregisterLePsm>> /\ waiting[s] = "confirm"

QueueOK(s) ==
    /\ queue[s] = NoQueue => received[s] = << >> /\ sent[s] = 0
    /\ queue[s] # NoQueue => queue[s] \in Seq(1 .. sent[Other(s)])
    /\ queue[s] # NoQueue => board.open \/ board.link = "down"

\* Connect is made once, by the User Device.
ConnectsOnce(s) ==
    /\ \A i \in DOMAIN serial[s] :
          serial[s][i] = Connect => s = "device" /\ board.link = "none"
    /\ \A i \in DOMAIN task[s] : task[s][i] = Connect =>
          /\ s = "device"
          /\ i > 1 \/ waiting[s] = "no" => board.link = "none"
          /\ \A j \in DOMAIN task[s] : task[s][j] = Connect => i = j

PacketsOK(s) == \A i \in DOMAIN uart[s] :
    LET m == uart[s][i] IN
    /\ m.opcode = "LE_CB_DATA" => m = Data(m.n) /\ m.n \in 1 .. sent[Other(s)]
    /\ m.opcode = "CONNECTION_COMPLETE" => m \in {ConnectionComplete, Failed(ConnectionComplete)}
    /\ m.opcode = "DISCONNECTED" => m = Disconnected /\ board.link = "down"
    /\ m = ConnectionComplete => board.open \/ board.link = "down"

\* While a connection lasts at most the current request is on its way; only
\* disconnect may have given one up.
SerialOK(s) ==
    /\ \A i \in DOMAIN serial[s] :
          /\ serial[s][i].opcode # None
          /\ \/ serial[s][i] \in {Disconnect, DeregisterLePsm}
             \/ board.link = "down"
             \/ /\ call[s] \in {"setup", "send"} /\ waiting[s] = "confirm"
                /\ serial[s] = <<Request(s)>>
    /\ Live(s) /\ ~Frozen(s) =>
          \/ serial[s] = << >>
          \/ waiting[s] = "confirm" /\ serial[s] = <<Request(s)>>
          \/ CleaningUp(s) /\ serial[s] = <<Disconnect, DeregisterLePsm>>

\* Of messages u on their way to a host, whose current request is r, whose
\* requests q are on their way to the board, and which waits for w: message i is
\* the CONFIRM of r.
Own(u, r, i) == u[i].opcode = "CONFIRM" /\ u[i].group = r.group

\* While the connection lasts no CONFIRM but the awaited one is on its way, or
\* that of a Disconnect that was given up.
ConfirmsIn(u, q, r, w, cleaningUp, whole) ==
    /\ \A i \in DOMAIN u : u[i].opcode = "CONFIRM" =>
          \/ w = "confirm" /\ Own(u, r, i) /\ q = << >>
          \/ cleaningUp /\ u[i].group # "L2CAP"
    /\ w = "confirm" =>
          /\ \A i, j \in DOMAIN u : Own(u, r, i) /\ Own(u, r, j) => i = j
          /\ whole /\ q = << >> => \E i \in DOMAIN u : Own(u, r, i)

\* The last request of the set-up is being answered: the CONFIRM, if it has not
\* been read yet, comes before position p.
Answering(u, q, r, w, p) ==
    /\ r = ConnectLePsm /\ q = << >>
    /\ \/ w = "event"
       \/ w = "confirm" /\ \E c \in DOMAIN u : c < p /\ Own(u, r, c) /\ u[c].ok

Completes(u, p) == u[p].opcode = "CONNECTION_COMPLETE"

AskedIn(u, q, r, w) ==
    Answering(u, q, r, w, Len(u) + 1) /\ \A p \in DOMAIN u : ~Completes(u, p)

OpenedIn(u, q, r, w) ==
    /\ \A i, j \in DOMAIN u : Completes(u, i) /\ Completes(u, j) => i = j
    /\ \A i \in DOMAIN u : Completes(u, i) => Answering(u, q, r, w, i)
    /\ \A d \in DOMAIN u : u[d].opcode = "LE_CB_DATA" =>
          \E i \in DOMAIN u : i < d /\ u[i] = ConnectionComplete

ConfirmOK(s) == Live(s) /\ ~Frozen(s) =>
    ConfirmsIn(uart[s], serial[s], Request(s), waiting[s], CleaningUp(s), Whole(s))

ChannelOK(s) ==
    /\ s \in board.asking =>
          call[s] = "setup" /\ AskedIn(uart[s], serial[s], Request(s), waiting[s])
    /\ call[s] = "setup" =>
          /\ OpenedIn(uart[s], serial[s], Request(s), waiting[s])
          /\ board.open => \E i \in DOMAIN uart[s] : uart[s][i] = ConnectionComplete

BoardOK == board.open \/ board.asking # {} => Up

\* What the other side's board has of s's messages.
Carried(s) ==
    IF \E i \in DOMAIN serial[s] : serial[s][i] = SendLeCbData THEN sent[s] - 1 ELSE sent[s]

\* Of the data in u, that after number from has come up to number to, in order.
InOrder(u, from, to) ==
    LET Number(i, n) == u[i].opcode = "LE_CB_DATA" /\ u[i].n = n IN
    /\ from <= to
    /\ \A i \in DOMAIN u : u[i].opcode = "LE_CB_DATA" => u[i].n \in from + 1 .. to
    /\ \A i, j \in DOMAIN u : i < j /\ u[i].opcode = "LE_CB_DATA"
                                /\ u[j].opcode = "LE_CB_DATA" => u[i].n < u[j].n
    /\ \A n \in from + 1 .. to : \E i \in DOMAIN u : Number(i, n)

Gathered(s) == Len(received[s]) + IF queue[s] = NoQueue THEN 0 ELSE Len(queue[s])

DataOK(s) == Whole(s) =>
    /\ received[s] = [i \in DOMAIN received[s] |-> i]
    /\ Live(s) /\ call[s] # "closed" /\ (call[s] = "setup" \/ queue[s] # NoQueue) =>
          /\ queue[s] # NoQueue =>
                \A i \in DOMAIN queue[s] : queue[s][i] = Len(received[s]) + i
          /\ \E last \in Nat : /\ Up => last = Carried(Other(s))
                              /\ InOrder(uart[s], Gathered(s), last)

SideInv(s) ==
    /\ CallsOK(s) /\ QueueOK(s) /\ ConnectsOnce(s) /\ PacketsOK(s) /\ SerialOK(s) /\ ConfirmOK(s)
    /\ ChannelOK(s) /\ DataOK(s)
LinkInv == TypeOK /\ BoardOK /\ \A s \in Side : SideInv(s)

-----------------------------------------------------------------------------
(* What else makes NoForgottenLink inductive, of each side s.                *)

Arrived(s) == \E i \in DOMAIN uart[s] : uart[s][i].opcode = "CONNECTED"
Advertised == Event("GAP", "ADVERTISING_STATE_CHANGED")
Joining == {Connect, WaitForConnectionEvent}

\* A host that is at request r and waits for w waits for CONNECTED when it comes
\* to position p of the messages u: at once, or after the advertising has begun.
Arrives(u, r, w, p) ==
    /\ w # "no"
    /\ \/ r \in Joining /\ (w = "confirm" => \E c \in DOMAIN u : c < p /\ Own(u, r, c))
       \/ /\ r = StartAdvertising
          /\ \E a \in DOMAIN u :
                /\ a < p /\ u[a] = Advertised
                /\ w = "confirm" => \E c \in DOMAIN u : c < a /\ Own(u, r, c)

ArrivesAt(s, p) == Arrives(uart[s], Request(s), waiting[s], p)

\* Until it has seen the connection the set-up comes to the request that CONNECTED
\* ends, with nothing before it that needs the link.
Approaching(s) ==
    /\ call[s] = "setup"
    /\ \E i \in DOMAIN task[s] : /\ task[s][i] \in Joining
                                 /\ \A j \in 1 .. i - 1 : task[s][j] \notin OverTheLink
    /\ \A i \in DOMAIN task[s] : task[s][i] = StartAdvertising =>
          s = "reader" /\ i + 1 \in DOMAIN task[s] /\ task[s][i + 1] = WaitForConnectionEvent
    /\ \A i \in DOMAIN uart[s] : uart[s][i].opcode = "CONFIRM" => uart[s][i].ok

\* The User Device connects to a Reader it has seen, and sees one that advertises.
Sees(s) == \/ board.advertising
           \/ \E i \in DOMAIN task[s] : /\ task[s][i] = SearchForDevice
                                        /\ \A j \in 1 .. i - 1 : task[s][j] # Connect

UnlinkedOK(s) == board.link = "none" =>
    /\ ~Arrived(s)
    /\ s = "reader" /\ board.advertising => ArrivesAt(s, Len(uart[s]) + 1)
    /\ s = "device" => Sees(s)
    /\ s = "device" => \A i \in DOMAIN uart[s] :
          uart[s][i].opcode = "DEVICE_SCANNED" /\ uart[s][i].ok => board.advertising

LinkedOK(s) == Up =>
    /\ \A p \in DOMAIN uart[s] : uart[s][p].opcode = "CONNECTED" =>
          uart[s][p] = Connected /\ ArrivesAt(s, p)
    /\ \A p, q \in DOMAIN uart[s] :
          uart[s][p].opcode = "CONNECTED" /\ uart[s][q].opcode = "CONNECTED" => p = q
    /\ Whole(s) => connected[s] \/ Arrived(s)
    /\ Whole(s) /\ call[s] \in {"disconnect", "closed", "broken"} =>
          \E i \in DOMAIN serial[s] : serial[s][i] = Disconnect

ConnectInv(s) ==
    /\ board.link = "none" \/ (Up /\ Arrived(s)) => Approaching(s)
    /\ UnlinkedOK(s) /\ LinkedOK(s)
=============================================================================
