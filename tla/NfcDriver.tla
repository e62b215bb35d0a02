------------------------------- MODULE NfcDriver -------------------------------
(***************************************************************************)
(* The PN7160 driver on the User Device (hw_driver/pn7160_driver) under the *)
(* NFC transport (transport_protocol/nfc.py).                               *)
(*                                                                          *)
(* Two threads share the module's globals: the NCI library's thread, which  *)
(* runs the host card emulation callbacks one after the other, and the      *)
(* worker thread of asyncio.to_thread, which runs one Driver method at a    *)
(* time.  Every read and write of a global is a step of its own; a callback *)
(* notifies its condition in its last step.  A Condition's notify wakes a   *)
(* thread that waits and is lost otherwise.                                 *)
(***************************************************************************)
EXTENDS Naturals

CONSTANTS MaxActivations,  \* bound of the model on readers coming into the field
          MaxMessages      \* bound of the model on messages they send

ASSUME NfcDriverAssumption == MaxActivations \in Nat /\ MaxMessages \in Nat

VARIABLES
    discovery,        \* doEnableDiscovery is in force
    active,           \* the controller is activated by a reader
    activations,      \* activations so far
    sent,             \* messages received from readers so far
    callback,         \* what the running callback does next, "idle" when none runs
    reader_available, \* the globals
    reader_lost,
    data_received,
    worker,           \* where the Driver's caller is
    message,          \* the local variable of receive_message
    activated,        \* history: activations announced by reader_available so far
    since,            \* history: those announced when receive_message was called
    delivered         \* history: the number of the last message returned

nci     == <<discovery, active, activations, sent, callback>>
globals == <<reader_available, reader_lost, data_received>>
caller  == <<worker, message, since, delivered>>
vars    == <<nci, globals, caller, activated>>

-----------------------------------------------------------------------------
Callbacks == {"idle", "available", "notify_reader", "unavailable", "notify_data"}

\* Where the worker is: between calls (off, connected, failed, crashed), before
\* the first check of wait_for_reader (ready), about to wait for a condition and
\* not yet holding its lock (Sleep), in wait() (Waiting) and back from it (Woken),
\* in receive_message (check, take, clear), in wait_for_reader_lost (losing).
Places == {"off", "ready", "findSleep", "findWaiting", "findWoken", "connected",
           "check", "take", "clear", "dataSleep", "dataWaiting", "dataWoken",
           "losing", "failed", "crashed"}

\* Mutant of Incoming: the library's buffer is kept instead of a copy of it, and
\* the next message overwrites it.
IncomingPointer == [number |-> sent + 2, from |-> activations]

\* A message is known by its number and the activation it came with.
None     == [number |-> 0, from |-> 0]
Incoming == [number |-> sent + 1, from |-> activations]

Init ==
    /\ discovery = FALSE /\ active = FALSE /\ activations = 0 /\ sent = 0
    /\ callback = "idle"
    /\ reader_available = FALSE /\ reader_lost = FALSE /\ data_received = None
    /\ worker = "off" /\ message = None
    /\ activated = 0 /\ since = 0 /\ delivered = 0

-----------------------------------------------------------------------------
(* The callbacks.                                                           *)

\* Mutant of Activated: what the previous reader sent is left in data_received.
ActivatedKeepingData ==
    /\ callback = "idle" /\ discovery /\ ~ active /\ activations < MaxActivations
    /\ active' = TRUE /\ activations' = activations + 1
    /\ callback' = "available"
    /\ UNCHANGED <<discovery, sent, globals, caller, activated>>

\* on_hostcard_emulation_activated: data_received = None ...
Activated ==
    /\ callback = "idle" /\ discovery /\ ~ active /\ activations < MaxActivations
    /\ active' = TRUE /\ activations' = activations + 1
    /\ data_received' = None
    /\ callback' = "available"
    /\ UNCHANGED <<discovery, sent, reader_available, reader_lost, caller, activated>>

\* ... then reader_available = True.
Available ==
    /\ callback = "available"
    /\ reader_available' = TRUE /\ activated' = activations
    /\ callback' = "notify_reader"
    /\ UNCHANGED <<discovery, active, activations, sent, reader_lost, data_received, caller>>

\* on_hostcard_emulation_deactivated: reader_lost = True ...
Deactivated ==
    /\ callback = "idle" /\ active
    /\ active' = FALSE
    /\ reader_lost' = TRUE
    /\ callback' = "unavailable"
    /\ UNCHANGED <<discovery, activations, sent, reader_available, data_received, caller, activated>>

\* ... then reader_available = False.
Unavailable ==
    /\ callback = "unavailable"
    /\ reader_available' = FALSE
    /\ callback' = "notify_data"
    /\ UNCHANGED <<discovery, active, activations, sent, reader_lost, data_received, caller, activated>>

\* on_data_received
DataReceived ==
    /\ callback = "idle" /\ active /\ sent < MaxMessages
    /\ sent' = sent + 1
    /\ data_received' = Incoming
    /\ callback' = "notify_data"
    /\ UNCHANGED <<discovery, active, activations, reader_available, reader_lost, caller, activated>>

\* The callbacks' last step: with the lock of the condition, notify.
Notify ==
    /\ \/ callback = "notify_reader"
          /\ worker' = IF worker = "findWaiting" THEN "findWoken" ELSE worker
       \/ callback = "notify_data"
          /\ worker' = IF worker = "dataWaiting" THEN "dataWoken" ELSE worker
    /\ callback' = "idle"
    /\ UNCHANGED <<discovery, active, activations, sent, globals, message, since, delivered, activated>>

-----------------------------------------------------------------------------
(* initialize and wait_for_reader.                                          *)

\* initialize is called again after disconnect, and by main_loop also when a
\* transaction ended without one.
Initialize ==
    /\ worker \in {"off", "connected", "failed", "crashed"}
    /\ reader_lost' = FALSE
    /\ discovery' = TRUE
    /\ worker' = "ready"
    /\ UNCHANGED <<active, activations, sent, callback, reader_available, data_received,
                   message, since, delivered, activated>>

Goto(place) ==
    /\ worker' = place
    /\ UNCHANGED <<nci, globals, message, since, delivered, activated>>

\* if reader_available: return; after the first check and after every wait.
FindReader ==
    /\ worker \in {"ready", "findWoken"}
    /\ Goto(IF reader_available THEN "connected" ELSE "findSleep")

\* with reader_status_change: wait(), which takes the lock only after the check.
SleepForReader == worker = "findSleep" /\ Goto("findWaiting")

-----------------------------------------------------------------------------
(* receive_message                                                          *)

\* if not reader_available: raise
Receive ==
    /\ worker = "connected"
    /\ worker' = IF reader_available THEN "check" ELSE "failed"
    /\ since' = activated
    /\ UNCHANGED <<nci, globals, message, delivered, activated>>

\* if data_received is not None
CheckData ==
    /\ worker = "check"
    /\ Goto(IF data_received # None THEN "take" ELSE "dataSleep")

\* with data_received_notify: wait()
SleepForData == worker = "dataSleep" /\ Goto("dataWaiting")

\* Woken by on_data_received or by on_hostcard_emulation_deactivated.
WakeForData ==
    /\ worker = "dataWoken"
    /\ Goto(IF reader_available THEN "check" ELSE "failed")

\* message = bytes(data_received); bytes(None) is a TypeError, which
\* NFC.get_message does not catch: a reader came back after CheckData.
TakeData ==
    /\ worker = "take"
    /\ worker' = IF data_received # None THEN "clear" ELSE "crashed"
    /\ message' = data_received
    /\ UNCHANGED <<nci, globals, since, delivered, activated>>

\* Mutant of ClearData: the message stays in data_received.
ReturnData ==
    /\ worker = "clear"
    /\ worker' = "connected" /\ delivered' = message.number /\ message' = None
    /\ UNCHANGED <<nci, globals, since, activated>>

\* data_received = None; return message
ClearData ==
    /\ worker = "clear"
    /\ data_received' = None
    /\ worker' = "connected" /\ delivered' = message.number /\ message' = None
    /\ UNCHANGED <<nci, reader_available, reader_lost, since, activated>>

-----------------------------------------------------------------------------
(* send_message and disconnect.                                             *)

\* No reader before or after the attempt, or an error of the controller with
\* the reader still there: NCIError, which NFC.send_message does not catch.
SendFails ==
    /\ worker = "connected"
    /\ Goto(IF reader_available THEN "crashed" ELSE "failed")

\* disconnect: wait_for_reader_lost(timeout=1.0)
Disconnect == worker \in {"connected", "failed"} /\ Goto("losing")

\* The reader is lost, or the second is over; then disableDiscovery.
Lost ==
    /\ worker = "losing"
    /\ worker' = "off" /\ discovery' = FALSE
    /\ UNCHANGED <<active, activations, sent, callback, globals, message, since, delivered, activated>>

-----------------------------------------------------------------------------
\* A callback or a method that has begun goes on.
CallbackStep == Available \/ Unavailable \/ Notify
WorkerStep   == \/ FindReader \/ SleepForReader \/ CheckData \/ SleepForData
                \/ WakeForData \/ TakeData \/ ClearData \/ Lost

Next == \/ Activated \/ Deactivated \/ DataReceived \/ CallbackStep
        \/ Initialize \/ Receive \/ SendFails \/ Disconnect \/ WorkerStep

Spec == Init /\ [][Next]_vars /\ WF_vars(CallbackStep) /\ WF_vars(WorkerStep)

-----------------------------------------------------------------------------
(* Properties.                                                              *)

Messages == [number : 0 .. MaxMessages, from : 0 .. MaxActivations]

\* The driver's globals hold a message or None, its threads are where they can be.
TypeOK ==
    /\ discovery \in BOOLEAN /\ active \in BOOLEAN
    /\ activations \in 0 .. MaxActivations /\ sent \in 0 .. MaxMessages
    /\ callback \in Callbacks
    /\ reader_available \in BOOLEAN /\ reader_lost \in BOOLEAN /\ data_received \in Messages
    /\ worker \in Places /\ message \in Messages
    /\ activated \in 0 .. MaxActivations /\ since \in 0 .. MaxActivations
    /\ delivered \in 0 .. MaxMessages

\* receive_message never returns a message twice or after a later one, although
\* it reads and clears data_received without a lock while on_data_received and
\* on_hostcard_emulation_activated write it.
EachMessageOnce == worker = "clear" => message.number > delivered

\* A message that a reader left unread is not returned to a receive_message
\* called after the next reader was announced.
NoMessageOfEarlierReader == worker = "clear" => message.from >= since

\* pn7160_driver/__init__.py:108 "notify data_received, so it can stop waiting for
\* data": a receive_message whose reader is lost does not wait on.
StopsWaitingWhenReaderLost ==
    worker \in {"dataSleep", "dataWaiting"} /\ callback = "idle" /\ ~ reader_available
       ~> worker \notin {"dataSleep", "dataWaiting"}

-----------------------------------------------------------------------------
(* Why the safety properties hold: an invariant that every step preserves.  *)

\* Messages are numbered as they come; what is in data_received is newer than
\* what was returned, and was sent after the announcement of its reader.
Ordered ==
    /\ delivered <= sent
    /\ data_received # None => /\ delivered < data_received.number
                               /\ data_received.number <= sent
    /\ worker = "clear" => delivered < message.number /\ message.number <= sent

Announced ==
    /\ since <= activated /\ activated <= activations
    /\ callback = "available" => data_received = None
    /\ data_received # None => activated <= data_received.from
    /\ worker = "clear" => since <= message.from

DriverInv == TypeOK /\ Ordered /\ Announced
=============================================================================
