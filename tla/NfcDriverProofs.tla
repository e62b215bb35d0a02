---------------------------- MODULE NfcDriverProofs ----------------------------
(***************************************************************************)
(* Proofs about NfcDriver, for any number of readers and messages: what     *)
(* receive_message returns is in order and of the reader it was called for. *)
(***************************************************************************)
EXTENDS NfcDriver, TLAPS

\* None is no message that was received.
LEMMA NoneIsNone == None \in Messages /\ None.number = 0
  BY NfcDriverAssumption DEF None, Messages

\* Nothing has been received when the driver is loaded.
LEMMA InitInv == Init => DriverInv
  <1> SUFFICES ASSUME Init PROVE DriverInv
    OBVIOUS
  <1>1. TypeOK
    <2>1. 0 \in 0 .. MaxActivations /\ 0 \in 0 .. MaxMessages
      BY NfcDriverAssumption
    <2>2. "idle" \in Callbacks /\ "off" \in Places
      BY DEF Callbacks, Places
    <2>3. FALSE \in BOOLEAN
      OBVIOUS
    <2>4. QED
      BY <2>1, <2>2, <2>3, NoneIsNone, Zenon DEF Init, TypeOK
  <1>2. Ordered /\ Announced
    BY DEF Init, Ordered, Announced
  <1>3. QED
    BY <1>1, <1>2 DEF DriverInv

\* The callbacks of the NCI thread.
LEMMA CallbacksPreserve ==
    ASSUME DriverInv, Activated \/ Deactivated \/ DataReceived \/ CallbackStep
    PROVE  DriverInv'
  <1> USE NfcDriverAssumption, NoneIsNone DEF DriverInv, nci, globals, caller
  <1>1. CASE Activated
    BY <1>1 DEF Activated, TypeOK, Ordered, Announced, Callbacks
  <1>2. CASE Deactivated
    BY <1>2 DEF Deactivated, TypeOK, Ordered, Announced, Callbacks
  <1>3. CASE DataReceived
    <2>1. /\ Incoming \in Messages /\ Incoming.number = sent + 1 /\ Incoming.from = activations
      BY <1>3 DEF DataReceived, TypeOK, Incoming, Messages
    <2>2. /\ sent \in Nat /\ activations \in Nat /\ activated \in Nat /\ delivered \in Nat
          /\ sent < MaxMessages /\ callback = "idle"
      BY <1>3 DEF DataReceived, TypeOK
    <2>3. TypeOK'
      BY <1>3, <2>1, <2>2 DEF DataReceived, TypeOK, Callbacks
    <2>4. Ordered'
      BY <1>3, <2>1, <2>2 DEF DataReceived, Ordered, TypeOK, Messages
    <2>5. Announced'
      BY <1>3, <2>1, <2>2 DEF DataReceived, Announced
    <2>6. QED
      BY <2>3, <2>4, <2>5
  <1>4. CASE Available
    BY <1>4 DEF Available, TypeOK, Ordered, Announced, Callbacks
  <1>5. CASE Unavailable
    BY <1>5 DEF Unavailable, TypeOK, Ordered, Announced, Callbacks
  <1>6. CASE Notify
    BY <1>6 DEF Notify, TypeOK, Ordered, Announced, Callbacks, Places
  <1>7. QED
    BY <1>1, <1>2, <1>3, <1>4, <1>5, <1>6 DEF CallbackStep

\* The methods of the driver.
LEMMA MethodsPreserve ==
    ASSUME DriverInv, Initialize \/ Receive \/ SendFails \/ Disconnect \/ WorkerStep
    PROVE  DriverInv'
  <1> USE NfcDriverAssumption, NoneIsNone DEF DriverInv, nci, globals, caller
  <1>1. ASSUME NEW place \in Places, Goto(place), place # "clear"
        PROVE  DriverInv'
    BY <1>1 DEF Goto, TypeOK, Ordered, Announced
  <1>2. CASE FindReader \/ SleepForReader \/ CheckData \/ SleepForData \/ WakeForData
             \/ SendFails \/ Disconnect
    <2>1. PICK place \in Places : Goto(place) /\ place # "clear"
      BY <1>2 DEF FindReader, SleepForReader, CheckData, SleepForData, WakeForData, SendFails,
                  Disconnect, Places
    <2>2. QED
      BY <1>1, <2>1
  <1>3. CASE Initialize
    BY <1>3 DEF Initialize, TypeOK, Ordered, Announced, Places
  <1>4. CASE Receive
    BY <1>4 DEF Receive, TypeOK, Ordered, Announced, Places
  <1>5. CASE TakeData
    <2>1. /\ data_received.number \in Nat /\ data_received.from \in Nat /\ since \in Nat
          /\ activated \in Nat
      BY DEF TypeOK, Messages
    <2>2. QED
      BY <1>5, <2>1 DEF TakeData, TypeOK, Ordered, Announced, Places
  <1>6. CASE ClearData
    <2>1. message.number \in 0 .. MaxMessages
      BY DEF TypeOK, Messages
    <2>2. QED
      BY <1>6, <2>1 DEF ClearData, TypeOK, Ordered, Announced, Places
  <1>7. CASE Lost
    BY <1>7 DEF Lost, TypeOK, Ordered, Announced, Places
  <1>8. QED
    BY <1>2, <1>3, <1>4, <1>5, <1>6, <1>7 DEF WorkerStep

\* The invariant holds in every reachable state of the driver.
THEOREM DriverInvariant == Spec => []DriverInv
  <1>1. DriverInv /\ [Next]_vars => DriverInv'
    <2> SUFFICES ASSUME DriverInv, [Next]_vars PROVE DriverInv'
      OBVIOUS
    <2>1. CASE Next
      BY <2>1, CallbacksPreserve, MethodsPreserve DEF Next
    <2>2. CASE UNCHANGED vars
      BY <2>2 DEF vars, nci, globals, caller, DriverInv, TypeOK, Ordered, Announced
    <2>3. QED
      BY <2>1, <2>2
  <1>2. QED
    BY InitInv, <1>1, PTL DEF Spec

\* receive_message returns every message at most once and in order, whatever the
\* callbacks write between its unlocked reads and writes of data_received.
THEOREM InOrder == Spec => []EachMessageOnce
  <1>1. DriverInv => EachMessageOnce
    BY DEF DriverInv, TypeOK, Messages, Ordered, EachMessageOnce
  <1>2. QED
    BY <1>1, DriverInvariant, PTL

\* receive_message returns no message of a reader that left before the one that
\* was announced when it was called.
THEOREM OfThisReader == Spec => []NoMessageOfEarlierReader
  <1>1. DriverInv => NoMessageOfEarlierReader
    BY DEF DriverInv, TypeOK, Messages, Announced, NoMessageOfEarlierReader
  <1>2. QED
    BY <1>1, DriverInvariant, PTL

\* The globals hold messages or None and the threads are where they can be.
THEOREM TypeCorrect == Spec => []TypeOK
  <1>1. DriverInv => TypeOK
    BY DEF DriverInv
  <1>2. QED
    BY <1>1, DriverInvariant, PTL
=============================================================================
