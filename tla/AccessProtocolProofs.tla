------------------------- MODULE AccessProtocolProofs -------------------------
(***************************************************************************)
(* Proofs about AccessProtocol, for every bound and whatever the Reader does *)
(* with a fast transaction that has no Kpersistent.                          *)
(*                                                                           *)
(* A step of the whole is a step of the Reader and a step of the device, so  *)
(* both keep the invariants that ReaderProofs and UserDeviceProofs prove of  *)
(* them alone.  What they owe each other is ProtocolInv.                     *)
(***************************************************************************)
EXTENDS AccessProtocol, TLAPS

-----------------------------------------------------------------------------
(* The two sides.                                                           *)

\* The constants of the instances are what each module assumes of its own.
LEMMA ReaderConstants == R!ReaderAssumption
  <1>1. ASSUME NEW o \in ReaderOptions
        PROVE  o \in R!Options
    BY <1>1, AccessProtocolAssumption DEF ReaderOptions, R!Options
  <1>2. ReaderOptions \subseteq R!Options
    BY <1>1
  <1>3. QED
    BY <1>2, AccessProtocolAssumption DEF R!ReaderAssumption

\* The same for the device.
LEMMA DeviceConstants == D!UserDeviceAssumption
  BY AccessProtocolAssumption DEF D!UserDeviceAssumption

\* Whatever happens, the device does one of the steps of its program or nothing.
LEMMA DeviceSteps ==
    ASSUME [Next]_vars
    PROVE  [D!Next]_(D!vars)
  <1> USE DEF Answers
  <1>1. ASSUME UNCHANGED devices
        PROVE  UNCHANGED D!vars
    BY <1>1 DEF devices, D!vars, D!session, D!device
  <1>2. CASE Application
    BY <1>1, <1>2 DEF Application, Initiates, Authenticates, Exchanges, StepsUp,
                      Finishes, FinishesControlFlow, Calls
  <1>3. CASE AnswersSelect
    BY <1>3 DEF AnswersSelect, D!Next
  <1>4. CASE AnswersAuth0
    <2>1. D!Auth0Unexpected \/ D!Auth0Fast(Identifier) \/ D!Auth0Standard(Identifier)
      BY <1>4 DEF AnswersAuth0
    <2>2. QED
      BY <2>1 DEF D!Next
  <1>5. CASE AnswersLoadCert \/ AnswersAuth1
    BY <1>5 DEF AnswersLoadCert, AnswersAuth1, D!Next
  <1>6. CASE AnswersExchange
    BY <1>6 DEF AnswersExchange, D!Next
  <1>7. CASE AnswersEnvelope
    BY <1>7 DEF AnswersEnvelope, D!Next
  <1>8. CASE AnswersControlFlow \/ AnswersStranger
    BY <1>8 DEF AnswersControlFlow, AnswersStranger, D!Next
  <1>9. CASE DeviceGoesOn
    BY <1>9 DEF DeviceGoesOn, D!Next
  <1>10. CASE Receiving \/ NothingReceived \/ FieldLost
    BY <1>1, <1>10 DEF Receiving, Receives, NothingReceived, FieldLost
  <1>11. CASE UNCHANGED vars
    BY <1>1, <1>11 DEF vars
  <1>12. QED
    BY <1>2, <1>3, <1>4, <1>5, <1>6, <1>7, <1>8, <1>9, <1>10, <1>11 DEF Next, Answering

\* Whatever answers, the Reader's handler is one of the steps of its program.
LEMMA HandlerSteps ==
    ASSUME ResponseHandler, reply.cryptogram \in 0 .. MaxEphemeral
    PROVE  R!Next
  <1>1. \/ R!SelectAnswered \/ R!LoadCertAnswered \/ R!ControlFlowAnswered
        \/ R!ResponseStatus \/ R!ResponseUnverifiable \/ R!ExchangeAnswered
        \/ R!EnvelopeAnswered \/ R!Auth1Accepted(Credential)
        \/ R!Auth0Standard \/ R!Auth0Fast(reply.cryptogram)
        \/ R!CryptogramUnknown(reply.cryptogram)
    BY DEF ResponseHandler
  <1>2. QED
    BY <1>1 DEF R!Next, R!Responses, R!Failures

\* Whatever happens, the Reader does one of the steps of its program or nothing.
LEMMA ReaderSteps ==
    ASSUME [Next]_vars, reply.cryptogram \in 0 .. MaxEphemeral
    PROVE  [R!Next]_(R!vars)
  <1>1. ASSUME UNCHANGED readers
        PROVE  UNCHANGED R!vars
    BY <1>1 DEF readers, R!vars, R!control, R!session, R!history
  <1>2. CASE Application
    BY <1>2 DEF Application, Initiates, Authenticates, Exchanges, StepsUp,
                Finishes, FinishesControlFlow, Calls, R!Next, R!ApplicationCalls
  <1>3. CASE Answering
    BY <1>1, <1>3 DEF Answering, AnswersSelect, AnswersAuth0, AnswersLoadCert, AnswersAuth1,
          AnswersExchange, AnswersEnvelope, AnswersControlFlow, AnswersStranger, Answers
  <1>4. CASE DeviceGoesOn
    BY <1>1, <1>4 DEF DeviceGoesOn
  <1>5. CASE Receiving
    BY <1>5, HandlerSteps DEF Receiving, Receives
  <1>6. CASE NothingReceived \/ FieldLost
    BY <1>6 DEF NothingReceived, FieldLost, R!Next, R!Failures
  <1>7. CASE UNCHANGED vars
    BY <1>1, <1>7 DEF vars
  <1>8. QED
    BY <1>2, <1>3, <1>4, <1>5, <1>6, <1>7 DEF Next

\* The field after the device has handled a command, whatever the command.
AnswerSent ==
    /\ Undisturbed
    /\ flight' = IF dOut'.type = "none" THEN "silence" ELSE "response"
    /\ reply' = Reply(dOut', IF dState' = "AUTH0_FAST_DONE" /\ dOut'.type = "auth0"
                              THEN pair[dKpersistent[Identifier]] ELSE 0)
    /\ UNCHANGED <<readers, stage, s2, disturbed>>

\* Every handler of the device ends that way.
LEMMA AnswersSend ==
    ASSUME Answering
    PROVE  AnswerSent
  <1> USE DEF Answers, AnswerSent
  <1>1. CASE AnswersSelect \/ AnswersAuth0 \/ AnswersLoadCert
    BY <1>1 DEF AnswersSelect, AnswersAuth0, AnswersLoadCert
  <1>2. CASE AnswersAuth1 \/ AnswersExchange \/ AnswersEnvelope
    BY <1>2 DEF AnswersAuth1, AnswersExchange, AnswersEnvelope
  <1>3. CASE AnswersControlFlow \/ AnswersStranger
    BY <1>3 DEF AnswersControlFlow, AnswersStranger
  <1>4. QED
    BY <1>1, <1>2, <1>3 DEF Answering

\* Each side keeps the invariant that its own proofs need.
LEMMA SidesKept ==
    ASSUME R!ReaderInv, D!DeviceInv, [Next]_vars, reply.cryptogram \in 0 .. MaxEphemeral
    PROVE  R!ReaderInv' /\ D!DeviceInv'
  <1>1. R!ReaderInv'
    BY ReaderSteps, ReaderConstants, R!NextInv
  <1>2. D!DeviceInv'
    BY DeviceSteps, DeviceConstants, D!NextInv
  <1>3. QED
    BY <1>1, <1>2

\* The field holds what one of the two has sent.
LEMMA TypesKept ==
    ASSUME TypeOK, R!ReaderInv, D!DeviceInv, [Next]_vars
    PROVE  TypeOK' /\ R!ReaderInv' /\ D!DeviceInv'
  <1>1. reply.cryptogram \in 0 .. MaxEphemeral
    BY DEF TypeOK
  <1>2. R!ReaderInv' /\ D!DeviceInv'
    BY <1>1, SidesKept
  <1>3. R!TypeOK' /\ D!TypeOK'
    BY <1>2 DEF R!ReaderInv, D!DeviceInv
  <1>4. /\ dOut'.type \in D!MessageTypes /\ dOut'.nonce \in D!Nonces
        /\ dUsed' \in 0 .. MaxEphemeral /\ rEph \in 0 .. MaxEphemeral
        /\ pair[dKpersistent[Identifier]] \in 0 .. MaxEphemeral
    <2>1. dOut' \in D!Messages /\ dUsed' \in 0 .. MaxEphemeral
      BY <1>3 DEF D!TypeOK, D!ControlOK, D!DeviceOK
    <2>2. dKpersistent[Identifier] \in 0 .. MaxEphemeral
      BY DEF TypeOK, D!TypeOK, D!DeviceOK
    <2>3. QED
      BY <2>1, <2>2 DEF D!Messages, TypeOK, R!TypeOK
  <1>5. ASSUME NEW c \in 0 .. MaxEphemeral, reply' = Reply(dOut', c)
        PROVE  reply' \in [type : D!MessageTypes, nonce : D!Nonces, cryptogram : 0 .. MaxEphemeral]
    BY <1>4, <1>5 DEF Reply
  <1> DEFINE Field ==
        /\ flight \in {"none", "command", "response", "silence"}
        /\ stage \in {"none", "selected", "granted", "stepup", "documents", "exchanged",
                      "done", "finished"}
        /\ s2 \in {"NONE", "True"} /\ disturbed \in BOOLEAN
        /\ reply \in [type : D!MessageTypes, nonce : D!Nonces, cryptogram : 0 .. MaxEphemeral]
  <1>6. Field
    BY DEF TypeOK
  <1>7. Field'
    <2> USE <1>6
    <2>1. CASE Application
      BY <2>1 DEF Application, Initiates, Authenticates, Exchanges, StepsUp,
                  Finishes, FinishesControlFlow, Calls
    <2>2. CASE Answering
      <3>1. AnswerSent
        BY <2>2, AnswersSend
      <3>2. QED
        BY <1>4, <1>5, <3>1, AccessProtocolAssumption DEF AnswerSent
    <2>3. CASE DeviceGoesOn
      <3>1. /\ UNCHANGED <<stage, s2, disturbed>>
            /\ \/ flight' = "response" /\ reply' = Reply(dOut', 0)
               \/ UNCHANGED <<flight, reply>>
        BY <2>3 DEF DeviceGoesOn
      <3>2. QED
        BY <1>5, <3>1, AccessProtocolAssumption
    <2>4. CASE Receiving \/ NothingReceived \/ FieldLost \/ UNCHANGED vars
      <3>1. /\ reply' = reply /\ stage' \in {stage, "none"} /\ disturbed' \in {disturbed, TRUE}
            /\ s2' \in {s2, "NONE"}
            /\ flight' \in {flight, "command", "none"}
        BY <2>4 DEF Receiving, Receives, NothingReceived, FieldLost, vars
      <3>2. QED
        BY <3>1
    <2>5. QED
      BY <2>1, <2>2, <2>3, <2>4 DEF Next
  <1>8. pair' \in [0 .. MaxEphemeral -> 0 .. MaxEphemeral]
    <2>1. pair' = pair \/ pair' = [pair EXCEPT ![dUsed'] = rEph]
      BY DEF Next, vars, Application, Initiates, Authenticates, Exchanges, StepsUp,
             Finishes, FinishesControlFlow, Calls, Answering, AnswersSelect, AnswersAuth0, AnswersLoadCert, AnswersAuth1,
             AnswersExchange, AnswersEnvelope, AnswersControlFlow, AnswersStranger,
             DeviceGoesOn, Receiving, Receives, NothingReceived, FieldLost
    <2>2. QED
      BY <1>4, <2>1 DEF TypeOK
  <1>9. QED
    BY <1>2, <1>3, <1>7, <1>8 DEF TypeOK

-----------------------------------------------------------------------------
(* Who is waiting for whom.                                                 *)

\* A command that a device can still handle belongs to the present call of a
\* transaction that goes well.
LEMMA Asked ==
    ASSUME ProtocolInv, NEW c \in R!Commands \ {"CONTROL_FLOW"}, Pending(c), ~ DeviceFailing
    PROVE  /\ InTransaction /\ rAwaited = c /\ flight = "command" /\ rLink = "up"
           /\ c \notin {"SELECT"} => dPc = "serving" /\ dLink = "up"
  <1>1. rAwaited = c /\ c # "none" /\ flight = "command"
    BY DEF ProtocolInv, CallOK, Pending, R!Commands
  <1>2. InTransaction /\ rLink = "up"
    BY <1>1 DEF ProtocolInv, CallOK, InTransaction
  <1>3. QED
    BY <1>1, <1>2 DEF ProtocolInv, FlightOK, DeviceReady

\* A response that the Reader awaits is the one to its command.
LEMMA Told ==
    ASSUME ProtocolInv, flight = "response", rAwaited # "none", ~ disturbed
    PROVE  /\ InTransaction /\ rAwaited \in R!Commands /\ reply.type = Response[rAwaited]
           /\ rLink = "up"
  <1>1. rAwaited \in R!Commands
    BY DEF ProtocolInv, CallOK, TypeOK, R!TypeOK
  <1>2. QED
    BY <1>1 DEF ProtocolInv, CallOK, FlightOK, InTransaction

\* With the Reader in the field a response that fits in one message is delivered.
LEMMA Delivers ==
    ASSUME Undisturbed, rLink = "up", dLink = "up", NEW k \in {"serve", "initiate", "envelope"},
           D!Transmit(k) \/ D!TransmitStatus(k)
    PROVE  dPc' = "serving" /\ dLink' = "up"
  BY DEF Undisturbed, D!Transmit, D!TransmitStatus, D!Delivered, D!ThrowWhileSending

\* What the two owe each other, apart from types and their own invariants.
Mutual == /\ KeysOK /\ DeviceReady /\ CallOK
          /\ FlightOK /\ Selecting /\ Authenticating /\ Exchanging /\ Between

\* Outside of a transaction that goes well little is promised.
LEMMA Outside ==
    ASSUME ~ InTransaction', KeysOK', DeviceReady', CallOK'
    PROVE  Mutual'
  BY DEF Mutual, FlightOK, Selecting, Authenticating, Exchanging, Between

\* What every answer in such a transaction leaves intact.
LEMMA AnswerKeeps ==
    ASSUME ProtocolInv, InTransaction, flight = "command", UNCHANGED <<readers, stage, s2, disturbed>>,
           flight' = "response", reply'.type = Response[rAwaited],
           \/ dPc' = "serving" /\ dState' # "NONE" /\ dLink' = "up"
           \/ dPc' = "idle" /\ rAwaited = "CONTROL_FLOW"
    PROVE  DeviceReady' /\ CallOK' /\ FlightOK' /\ Between'
  <1> USE DEF ProtocolInv, readers, InTransaction
  <1>1. DeviceReady'
    BY DEF DeviceReady
  <1>2. CallOK'
    BY DEF CallOK, NoSpuriousFailure
  <1>3. FlightOK'
    BY DEF FlightOK, DeviceFailing
  <1>4. Between'
    BY DEF FlightOK, Between
  <1>5. QED
    BY <1>1, <1>2, <1>3, <1>4

-----------------------------------------------------------------------------
(* The User Device answers: one lemma on what it answers, one on why that     *)
(* keeps the two in step.                                                    *)

\* An answer that leaves the handshake and the engines alone.
OnlyMoves == UNCHANGED <<dEph, dExpedited, dStepup, dUsed, dKpersistent, pair>>

\* Such an answer to a command in plain keeps the two in step.
LEMMA OnlyMovesKeeps ==
    ASSUME ProtocolInv, OnlyMoves, UNCHANGED readers
    PROVE  KeysOK' /\ (~ R!Secured /\ InStep => InStep')
  <1> USE DEF OnlyMoves, readers
  <1>1. KeysOK'
    BY DEF ProtocolInv, KeysOK, Shared
  <1>2. ASSUME ~ R!Secured, InStep
        PROVE  InStep'
    BY <1>2 DEF InStep, Apart, R!Secured
  <1>3. QED
    BY <1>1, <1>2

\* SELECT is answered, in whatever session the device still was.
LEMMA SelectAnswer ==
    ASSUME ProtocolInv, AnswersSelect
    PROVE  /\ InTransaction /\ rAwaited = "SELECT" /\ flight = "command" /\ OnlyMoves
           /\ flight' = "response" /\ reply'.type = "select"
           /\ dPc' = "serving" /\ dLink' = "up"
           /\ \/ stage = "selected" /\ dState' = "SELECT_DONE"
              \/ stage = "stepup" /\ dState' = "SELECT_STEP_UP_DONE"
  <1>1. Pending("SELECT") /\ Undisturbed
    BY DEF AnswersSelect, Answers
  <1>2. CASE stage = "selected" /\ Answers(D!InitiationSelect \/ D!SelectExpedited)
    <2>1. ~ DeviceFailing
      BY <1>2 DEF DeviceFailing, Answers, D!InitiationSelect, D!SelectExpedited, D!ReceiveCommand, D!Receive,
                  D!Waiting
    <2>2. InTransaction /\ rAwaited = "SELECT" /\ flight = "command" /\ rLink = "up"
      BY <1>1, <2>1, Asked DEF R!Commands
    <2>3. dLink = "up"
      BY <1>2 DEF Answers, D!InitiationSelect, D!SelectExpedited, D!ReceiveCommand, D!Receive,
                  ProtocolInv, DeviceReady
    <2>4. dPc' = "serving" /\ dLink' = "up"
      BY <1>1, <1>2, <2>2, <2>3, Delivers DEF Answers, D!InitiationSelect, D!SelectExpedited
    <2>5. /\ dState' = "SELECT_DONE" /\ dOut'.type = "select"
          /\ UNCHANGED <<dEph, dExpedited, dStepup, dUsed, dKpersistent>>
      BY <1>2 DEF Answers, D!InitiationSelect, D!SelectExpedited, D!device, D!Message
    <2>6. flight' = "response" /\ reply'.type = "select"
      BY <1>2, <2>5 DEF Answers, Reply
    <2>7. QED
      BY <1>2, <2>2, <2>4, <2>5, <2>6 DEF AnswersSelect, OnlyMoves
  <1>3. CASE stage = "stepup" /\ Answers(D!InitiationRetry \/ D!SelectStepUp)
    <2>1. ~ DeviceFailing
      BY <1>3 DEF DeviceFailing, Answers, D!InitiationRetry, D!SelectStepUp, D!ReceiveCommand, D!Receive,
                  D!Waiting
    <2>2. InTransaction /\ rAwaited = "SELECT" /\ flight = "command" /\ rLink = "up"
      BY <1>1, <2>1, Asked DEF R!Commands
    <2>3. dPc = "serving" /\ dState \in {"AUTH1_DONE", "EXCHANGE_DONE"} /\ dLink = "up"
      BY <1>3, <2>2 DEF ProtocolInv, FlightOK, Selecting, DeviceReady
    <2>4. D!SelectStepUp /\ dState' = "SELECT_STEP_UP_DONE" /\ dOut' = D!Message("select")
          /\ D!Transmit("serve")
      BY <1>3, <2>3 DEF Answers, D!InitiationRetry, D!SelectStepUp
    <2>5. dPc' = "serving" /\ dLink' = "up"
      BY <1>1, <2>2, <2>3, <2>4, Delivers
    <2>6. /\ dOut'.type = "select"
          /\ UNCHANGED <<dEph, dExpedited, dStepup, dUsed, dKpersistent>>
      BY <2>4 DEF D!SelectStepUp, D!device, D!Message
    <2>7. flight' = "response" /\ reply'.type = "select"
      BY <1>3, <2>6 DEF Answers, Reply
    <2>8. QED
      BY <1>3, <2>2, <2>4, <2>5, <2>6, <2>7 DEF AnswersSelect, OnlyMoves
  <1>4. QED
    BY <1>2, <1>3 DEF AnswersSelect

\* The answer to SELECT keeps the protocol.
LEMMA SelectAnswerKeeps ==
    ASSUME ProtocolInv, AnswersSelect
    PROVE  Mutual'
  <1>1. UNCHANGED <<readers, stage, s2, disturbed>>
    BY AnswersSend DEF Answering, AnswerSent
  <1>2. UNCHANGED <<rAwaited, rExpedited, rStepup, rEph>> /\ ~ R!Secured /\ rAwaited = "SELECT"
    BY <1>1, SelectAnswer DEF readers, R!Secured
  <1>3. DeviceReady' /\ CallOK' /\ FlightOK' /\ Between'
    BY <1>1, SelectAnswer, AnswerKeeps DEF Response
  <1>4. KeysOK' /\ (InStep => InStep')
    BY <1>1, <1>2, SelectAnswer, OnlyMovesKeeps
  <1>5. Selecting'
    BY <1>1, <1>2, <1>4, SelectAnswer DEF ProtocolInv, Selecting, InTransaction
  <1>6. Authenticating' /\ Exchanging'
    BY <1>2 DEF Authenticating, Halfway, Exchanging
  <1>7. QED
    BY <1>3, <1>4, <1>5, <1>6 DEF Mutual

\* The numbers that handshakes have on both sides.
LEMMA Numbers ==
    ASSUME ProtocolInv
    PROVE  /\ MaxEphemeral \in Nat
           /\ rEph \in 0 .. MaxEphemeral /\ rUsed \in 0 .. MaxEphemeral
           /\ dEph \in 0 .. MaxEphemeral /\ dUsed \in 0 .. MaxEphemeral
           /\ pair \in [0 .. MaxEphemeral -> 0 .. MaxEphemeral]
           /\ dKpersistent \in [{Identifier} -> 0 .. MaxEphemeral]
           /\ dKpersistent[Identifier] \in 0 .. MaxEphemeral
           /\ dKpersistent[Identifier] <= dUsed /\ dEph <= dUsed
           /\ Shared \in 0 .. MaxEphemeral /\ rLast[Credential] \in 0 .. MaxEphemeral
           /\ rLast = [c \in {Credential} |-> rLast[Credential]]
  <1>1. /\ MaxEphemeral \in Nat
        /\ rEph \in 0 .. MaxEphemeral /\ rUsed \in 0 .. MaxEphemeral
        /\ dEph \in 0 .. MaxEphemeral /\ dUsed \in 0 .. MaxEphemeral
        /\ pair \in [0 .. MaxEphemeral -> 0 .. MaxEphemeral]
        /\ dKpersistent \in [{Identifier} -> 0 .. MaxEphemeral]
        /\ rLast \in [{Credential} -> 0 .. MaxEphemeral]
    BY AccessProtocolAssumption DEF ProtocolInv, TypeOK, R!TypeOK, D!TypeOK, D!SessionOK, D!DeviceOK
  <1>2. dKpersistent[Identifier] \in 0 .. MaxEphemeral
    BY <1>1
  <1>3. dKpersistent[Identifier] <= dUsed
    <2>1. dKpersistent[Identifier] # 0 => dVerified[dKpersistent[Identifier]] = Identifier
      BY DEF ProtocolInv, D!DeviceInv, D!KpersistentVerified
    <2>2. dKpersistent[Identifier] # 0 => dKpersistent[Identifier] \in D!Handshakes
      BY <1>1, <1>2 DEF D!Handshakes
    <2>3. CASE dKpersistent[Identifier] # 0
      BY <2>1, <2>2, <2>3, AccessProtocolAssumption DEF ProtocolInv, D!DeviceInv, D!Numbered
    <2>4. CASE dKpersistent[Identifier] = 0
      BY <1>1, <2>4
    <2>5. QED
      BY <2>3, <2>4
  <1>4. dEph <= dUsed
    BY DEF ProtocolInv, D!DeviceInv, D!Numbered
  <1>5. QED
    BY <1>1, <1>2, <1>3, <1>4 DEF Shared

\* AUTH0 is answered with the device's next handshake, and with the Kpersistent it
\* has when it answers with a cryptogram of its own.
LEMMA Auth0Answer ==
    ASSUME ProtocolInv, AnswersAuth0
    PROVE  /\ InTransaction /\ rAwaited = "AUTH0" /\ flight = "command"
           /\ flight' = "response" /\ reply'.type = "auth0"
           /\ dPc' = "serving" /\ dLink' = "up"
           /\ dUsed' = dUsed + 1 /\ dUsed < MaxEphemeral /\ dEph' = dUsed'
           /\ pair' = [pair EXCEPT ![dUsed'] = rEph] /\ dKpersistent' = dKpersistent
           /\ \/ dState' = "AUTH0_STD_DONE" /\ reply'.cryptogram = 0
              \/ /\ dState' = "AUTH0_FAST_DONE" /\ reply'.cryptogram = Shared
                 /\ dExpedited' = D!NewEngine(dUsed', "fast")
  <1>1. Pending("AUTH0") /\ Undisturbed
    BY DEF AnswersAuth0, Answers
  <1>2. D!Auth0Unexpected \/ D!Auth0Fast(Identifier) \/ D!Auth0Standard(Identifier)
    BY DEF AnswersAuth0, Answers
  <1>3. ~ DeviceFailing
    BY <1>2 DEF DeviceFailing, D!Auth0Unexpected, D!Auth0Fast, D!Auth0Standard, D!TakeEphemeralKey,
                D!ReceiveCommand, D!Receive, D!Waiting
  <1>4. /\ InTransaction /\ rAwaited = "AUTH0" /\ flight = "command" /\ rLink = "up"
        /\ dLink = "up"
    BY <1>1, <1>3, Asked DEF R!Commands
  <1>5. ~ D!Auth0Unexpected
    BY <1>4 DEF ProtocolInv, Authenticating, D!Auth0Unexpected, D!UnexpectedState, D!Auth0States
  <1>6. pair' = [pair EXCEPT ![dUsed'] = rEph]
    BY <1>5 DEF AnswersAuth0, Answers
  <1>7. dPc' = "serving" /\ dLink' = "up"
    BY <1>1, <1>2, <1>4, <1>5, Delivers DEF D!Auth0Fast, D!Auth0Standard
  <1>8. /\ dUsed' = dUsed + 1 /\ dUsed < MaxEphemeral /\ dEph' = dUsed'
        /\ dKpersistent' = dKpersistent /\ dOut' = D!Message("auth0")
        /\ \/ dState' = "AUTH0_STD_DONE"
           \/ /\ dState' = "AUTH0_FAST_DONE"
              /\ dExpedited' = D!NewEngine(dUsed', "fast")
    BY <1>2, <1>5 DEF D!Auth0Fast, D!Auth0Standard, D!TakeEphemeralKey
  <1>9. dOut'.type = "auth0"
    BY <1>8 DEF D!Message
  <1>10. /\ flight' = "response" /\ reply'.type = "auth0"
         /\ dState' = "AUTH0_FAST_DONE" => reply'.cryptogram = Shared
         /\ dState' = "AUTH0_STD_DONE" => reply'.cryptogram = 0
    BY <1>9, AnswersSend DEF Answering, AnswerSent, Reply, Shared
  <1>11. QED
    BY <1>4, <1>6, <1>7, <1>8, <1>10

\* The device's new handshake is paired with the Reader's new one, which is later
\* than all others.
LEMMA Auth0AnswerKeeps ==
    ASSUME ProtocolInv, AnswersAuth0
    PROVE  Mutual'
  <1>1. UNCHANGED <<readers, stage, s2, disturbed>>
    BY AnswersSend DEF Answering, AnswerSent
  <1>2. UNCHANGED <<rAwaited, rExpedited, rStepup, rEph, rUsed, rLast, rGranted>>
        /\ rAwaited = "AUTH0"
    BY <1>1, Auth0Answer DEF readers
  <1>3. rEph = rUsed
    BY <1>2 DEF ProtocolInv, KeysOK, R!ReaderInv, R!EnginesOK, R!Handshaking
  <1>4. DeviceReady' /\ CallOK' /\ FlightOK' /\ Between'
    BY <1>1, <1>2, Auth0Answer, AnswerKeeps DEF Response
  <1>5. /\ pair'[dUsed'] = rEph
        /\ \A e \in 0 .. MaxEphemeral : e # dUsed' => pair'[e] = pair[e]
    BY Auth0Answer, Numbers
  <1>6. Shared' = Shared
    BY <1>5, Auth0Answer, Numbers DEF Shared
  <1>7. KeysOK'
    <2>1. \A e \in 0 .. MaxEphemeral : pair'[e] <= rUsed'
      BY <1>2, <1>3, <1>5, Numbers DEF ProtocolInv, KeysOK
    <2>2. ASSUME NEW e \in 0 .. MaxEphemeral, NEW f \in 0 .. MaxEphemeral, e <= f, f <= dUsed'
          PROVE  pair'[e] <= pair'[f]
      <3>1. CASE f = dUsed'
        BY <1>2, <1>3, <1>5, <2>1, <3>1, Numbers
      <3>2. CASE f # dUsed'
        <4>1. f <= dUsed /\ f # dUsed' /\ e # dUsed'
          BY <2>2, <3>2, Auth0Answer, Numbers
        <4>2. pair[e] <= pair[f]
          BY <2>2, <4>1 DEF ProtocolInv, KeysOK
        <4>3. QED
          BY <1>5, <4>1, <4>2
      <3>3. QED
        BY <3>1, <3>2
    <2>3. QED
      BY <1>2, <1>6, <2>1, <2>2, Auth0Answer DEF ProtocolInv, KeysOK
  <1>8. Selecting' /\ Exchanging'
    BY <1>2 DEF Selecting, Exchanging
  <1>9. Authenticating'
    <2>1. ASSUME reply'.cryptogram # 0
          PROVE  /\ reply'.cryptogram = Shared' /\ dState' = "AUTH0_FAST_DONE"
                 /\ Apart(R!NewEngine(rEph, "fast"), dExpedited, "fast")'
      <3>1. /\ reply'.cryptogram = Shared /\ dState' = "AUTH0_FAST_DONE"
            /\ dExpedited' = D!NewEngine(dUsed', "fast")
        BY <2>1, Auth0Answer
      <3>2. ~ R!Secured'
        BY <1>2 DEF R!Secured
      <3>3. QED
        BY <1>2, <1>5, <1>6, <3>1, <3>2 DEF Apart, R!NewEngine, D!NewEngine
    <2>2. dState' \in D!AfterAuth0 /\ pair'[dEph'] = rEph'
      BY <1>2, <1>5, Auth0Answer DEF D!AfterAuth0
    <2>3. InTransaction' => stage' = "granted" /\ rExpedited' = R!NoEngine
      BY <1>1, <1>2 DEF ProtocolInv, Authenticating, Halfway, InTransaction
    <2>4. QED
      BY <1>2, <2>1, <2>2, <2>3, Auth0Answer DEF Authenticating, Halfway
  <1>10. QED
    BY <1>4, <1>7, <1>8, <1>9 DEF Mutual

\* LOAD CERT is answered with success, whatever the certificate.
LEMMA LoadCertAnswer ==
    ASSUME ProtocolInv, AnswersLoadCert
    PROVE  /\ InTransaction /\ rAwaited = "LOAD_CERT" /\ flight = "command" /\ OnlyMoves
           /\ flight' = "response" /\ reply'.type = "load_cert"
           /\ dPc' = "serving" /\ dLink' = "up" /\ dState' = dState /\ dState \in D!AfterAuth0
  <1>1. Pending("LOAD_CERT") /\ Undisturbed /\ D!LoadCert
    BY DEF AnswersLoadCert, Answers
  <1>2. ~ DeviceFailing
    BY <1>1 DEF DeviceFailing, D!LoadCert, D!ReceiveCommand, D!Receive, D!Waiting
  <1>3. /\ InTransaction /\ rAwaited = "LOAD_CERT" /\ flight = "command" /\ rLink = "up"
        /\ dLink = "up"
    BY <1>1, <1>2, Asked DEF R!Commands
  <1>4. dState \in D!AfterAuth0
    BY <1>3 DEF ProtocolInv, Authenticating, Halfway
  <1>5. D!TransmitStatus("serve") /\ dOut' = D!Message("load_cert")
        /\ UNCHANGED <<dState, dEph, dExpedited, dStepup, dUsed, dKpersistent>>
    BY <1>1, <1>4 DEF D!LoadCert, D!UnexpectedState, D!device
  <1>6. dPc' = "serving" /\ dLink' = "up"
    BY <1>1, <1>3, <1>5, Delivers
  <1>7. flight' = "response" /\ reply'.type = "load_cert"
    BY <1>5, AnswersSend DEF Answering, AnswerSent, Reply, D!Message
  <1>8. QED
    BY <1>3, <1>4, <1>5, <1>6, <1>7 DEF AnswersLoadCert, OnlyMoves

\* The handshake goes on as it was.
LEMMA LoadCertAnswerKeeps ==
    ASSUME ProtocolInv, AnswersLoadCert
    PROVE  Mutual'
  <1>1. UNCHANGED <<readers, stage, s2, disturbed>>
    BY AnswersSend DEF Answering, AnswerSent
  <1>2. UNCHANGED <<rAwaited, rEph>> /\ rAwaited = "LOAD_CERT"
    BY <1>1, LoadCertAnswer DEF readers
  <1>3. dState' # "NONE"
    BY LoadCertAnswer DEF D!AfterAuth0
  <1>4. DeviceReady' /\ CallOK' /\ FlightOK' /\ Between'
    BY <1>1, <1>3, LoadCertAnswer, AnswerKeeps DEF Response
  <1>5. KeysOK'
    BY <1>1, LoadCertAnswer, OnlyMovesKeeps
  <1>6. Selecting' /\ Exchanging'
    BY <1>2 DEF Selecting, Exchanging
  <1>7. Authenticating'
    BY <1>1, <1>2, LoadCertAnswer DEF ProtocolInv, Authenticating, Halfway, OnlyMoves, InTransaction
  <1>8. QED
    BY <1>4, <1>5, <1>6, <1>7 DEF Mutual

\* AUTH1 is answered under the device's new standard engine, and its Kpersistent is
\* now of this handshake.
LEMMA Auth1Answer ==
    ASSUME ProtocolInv, AnswersAuth1
    PROVE  /\ InTransaction /\ rAwaited = "AUTH1" /\ flight = "command"
           /\ UNCHANGED <<dEph, dUsed, pair>> /\ pair[dEph] = rEph
           /\ flight' = "response" /\ reply'.type = "auth1"
           /\ reply'.nonce = <<dEph, "standard", 1>>
           /\ dPc' = "serving" /\ dLink' = "up" /\ dState' = "AUTH1_DONE"
           /\ dExpedited' = D!Encrypted(D!NewEngine(dEph, "standard"))
           /\ dStepup' = D!NewEngine(dEph, "stepup")
           /\ dKpersistent'[Identifier] = dEph
  <1>1. Pending("AUTH1") /\ Undisturbed /\ (D!Auth1 \/ D!Auth1Rejected)
    BY DEF AnswersAuth1, Answers
  <1>2. ~ DeviceFailing
    BY <1>1 DEF DeviceFailing, D!Auth1, D!Auth1Rejected, D!ReceiveCommand, D!Receive, D!Waiting
  <1>3. /\ InTransaction /\ rAwaited = "AUTH1" /\ flight = "command" /\ rLink = "up"
        /\ dLink = "up"
    BY <1>1, <1>2, Asked DEF R!Commands
  <1>4. dState \in D!AfterAuth0 /\ pair[dEph] = rEph
    BY <1>3 DEF ProtocolInv, Authenticating, Halfway
  <1>5. dReader = Identifier
    BY <1>4 DEF ProtocolInv, D!DeviceInv, D!HandshakeFresh
  <1>6. D!Auth1 /\ D!Transmit("serve")
    BY <1>4 DEF AnswersAuth1, Answers, D!Auth1
  <1>7. dPc' = "serving" /\ dLink' = "up"
    BY <1>1, <1>3, <1>6, Delivers
  <1>8. /\ dOut' = D!SecureMessage("auth1", D!NewEngine(dEph, "standard"))
        /\ UNCHANGED <<dEph, dUsed>> /\ dState' = "AUTH1_DONE"
        /\ dExpedited' = D!Encrypted(D!NewEngine(dEph, "standard"))
        /\ dStepup' = D!NewEngine(dEph, "stepup")
        /\ dKpersistent' = [dKpersistent EXCEPT ![dReader] = dEph]
    BY <1>6 DEF D!Auth1
  <1>9. dOut'.type = "auth1" /\ dOut'.nonce = <<dEph, "standard", 1>>
    BY <1>8 DEF D!SecureMessage, D!Nonce, D!NewEngine
  <1>10. /\ flight' = "response" /\ reply'.type = "auth1"
         /\ reply'.nonce = <<dEph, "standard", 1>>
    BY <1>9, AnswersSend DEF Answering, AnswerSent, Reply
  <1>11. dKpersistent'[Identifier] = dEph
    BY <1>5, <1>8, Numbers
  <1>12. QED
    BY <1>3, <1>4, <1>7, <1>8, <1>10, <1>11 DEF AnswersAuth1

\* The Reader, which made its engines when it sent AUTH1, is in step with it, and
\* has not stored a later Kpersistent than the device.
LEMMA Auth1AnswerKeeps ==
    ASSUME ProtocolInv, AnswersAuth1
    PROVE  Mutual'
  <1>1. UNCHANGED <<readers, stage, s2, disturbed>>
    BY AnswersSend DEF Answering, AnswerSent
  <1>2. UNCHANGED <<rAwaited, rReporting, rCall, rExpedited, rStepup, rEph, rUsed, rLast, rGranted>>
        /\ rAwaited = "AUTH1"
    BY <1>1, Auth1Answer DEF readers
  <1>3. /\ ~ rGranted /\ rExpedited = R!NewEngine(rEph, "standard")
        /\ rStepup = R!NewEngine(rEph, "stepup") /\ rEph # 0
    BY <1>2, Auth1Answer
       DEF ProtocolInv, Authenticating, R!ReaderInv, R!GrantsOK, R!EnginesOK, R!Handshaking
  <1>4. DeviceReady' /\ CallOK' /\ FlightOK' /\ Between'
    BY <1>1, <1>2, Auth1Answer, AnswerKeeps DEF Response
  <1>5. Shared' = pair[dEph]
    BY Auth1Answer DEF Shared
  <1>6. dEph = dUsed
    <2>1. dEph # 0
      BY Auth1Answer DEF ProtocolInv, D!DeviceInv, D!HandshakeFresh, Authenticating, Halfway
    <2>2. QED
      BY <2>1 DEF ProtocolInv, KeysOK
  <1>7. Shared <= pair[dEph]
    BY <1>6, Numbers DEF ProtocolInv, KeysOK, Shared
  <1>8. KeysOK'
    <2>1. rLast[Credential] <= Shared'
      BY <1>5, <1>7, Numbers DEF ProtocolInv, KeysOK
    <2>2. QED
      BY <1>2, <1>3, <2>1, Auth1Answer DEF ProtocolInv, KeysOK
  <1>9. Selecting' /\ Exchanging'
    BY <1>2 DEF Selecting, Exchanging
  <1>10. Authenticating'
    <2>1. InStep'
      BY <1>2, <1>3, Auth1Answer
         DEF InStep, Apart, R!Secured, R!Using, R!NewEngine, D!NewEngine, D!Encrypted
    <2>2. Sealed'
      BY <1>2, <1>3, Auth1Answer
         DEF Sealed, R!Using, R!NewEngine, D!NewEngine, D!Encrypted
    <2>3. reply'.nonce[1] = dKpersistent'[Identifier]
      BY Auth1Answer
    <2>4. QED
      BY <1>1, <1>2, <1>3, <2>1, <2>2, <2>3, Auth1Answer
         DEF ProtocolInv, Authenticating, Halfway, InTransaction
  <1>11. QED
    BY <1>4, <1>8, <1>9, <1>10 DEF Mutual

\* What the engines of both sides have.
LEMMA EngineNumbers ==
    ASSUME ProtocolInv
    PROVE  /\ MaxCounter \in Nat \ {0}
           /\ \A g \in {rExpedited, rStepup, dExpedited, dStepup} :
                 g.enc \in Nat /\ g.dec \in Nat /\ g.eph \in 0 .. MaxEphemeral
           /\ rExpedited.kind = "none" => rExpedited = R!NoEngine
           /\ rStepup.kind = "none" => rStepup = R!NoEngine
           /\ D!NoEngine.kind = "none"
  <1>1. /\ MaxCounter \in Nat \ {0} /\ MaxEphemeral \in Nat
    BY AccessProtocolAssumption
  <1>2. rExpedited \in R!Engines /\ rStepup \in R!Engines
    BY DEF ProtocolInv, TypeOK, R!TypeOK
  <1>3. dExpedited \in D!Engines /\ dStepup \in D!Engines
    BY DEF ProtocolInv, TypeOK, D!TypeOK, D!SessionOK
  <1>4. QED
    BY <1>1, <1>2, <1>3
       DEF ProtocolInv, R!ReaderInv, R!EnginesOK, R!Engines, D!Engines, R!Counters, D!Counters,
           D!NoEngine

\* The device's engine for a command of the Reader, and the Reader's.
Opposite == IF R!Using = "stepup" THEN dStepup ELSE dExpedited
Own      == IF R!Using = "stepup" THEN rStepup ELSE rExpedited

\* An EXCHANGE or ENVELOPE that is under way fits the engine the device takes for
\* it, which is far from its limit.
LEMMA CommandFits ==
    ASSUME ProtocolInv, InTransaction, flight = "command", rAwaited \in {"EXCHANGE", "ENVELOPE"}
    PROVE  /\ D!DecryptionEngine(rAwaited) = R!Using /\ R!Using \in {"expedited", "stepup"}
           /\ rAwaited = "EXCHANGE" => (R!Using = "stepup") = D!InStepUpPhase
           /\ Opposite # D!NoEngine /\ Verifies(rAwaited)
           /\ Own.enc = Opposite.dec + 1 /\ Opposite.enc = Own.dec
           /\ Opposite.dec < MaxCounter + 2 /\ Opposite.enc < MaxCounter + 2
           /\ Own.enc \in Nat /\ Own.dec \in Nat /\ Opposite.enc \in Nat /\ Opposite.dec \in Nat
  <1>1. /\ InStep /\ Sealed /\ ~ rReporting /\ R!Secured
        /\ R!Using \in {"expedited", "stepup"}
        /\ R!Using = "stepup" => rExpedited.kind = "standard"
    BY DEF ProtocolInv, FlightOK, Exchanging, R!Secured, TypeOK, R!TypeOK, R!Calls, R!Using
  <1>2. /\ D!DecryptionEngine(rAwaited) = R!Using
        /\ rAwaited = "EXCHANGE" => (R!Using = "stepup") = D!InStepUpPhase
    <2>1. CASE rAwaited = "EXCHANGE" /\ R!Using = "expedited"
      BY <2>1 DEF ProtocolInv, Exchanging, D!DecryptionEngine, D!InStepUpPhase
    <2>2. CASE rAwaited = "EXCHANGE" /\ R!Using = "stepup"
      BY <2>2 DEF ProtocolInv, Exchanging, D!DecryptionEngine, D!InStepUpPhase
    <2>3. CASE rAwaited = "ENVELOPE"
      BY <2>3 DEF ProtocolInv, Exchanging, D!DecryptionEngine
    <2>4. QED
      BY <1>1, <2>1, <2>2, <2>3
  <1>3. /\ pair[Opposite.eph] = Own.eph /\ Opposite.kind = Own.kind
        /\ Own.enc = Opposite.dec + 1 /\ Opposite.enc = Own.dec
    BY <1>1 DEF InStep, Apart, Opposite, Own
  <1>4. Own # R!NoEngine
    BY <1>1 DEF ProtocolInv, R!ReaderInv, R!EnginesOK, Own
  <1>5. Opposite # D!NoEngine
    BY <1>3, <1>4, EngineNumbers DEF Opposite, Own
  <1>6. rSent.nonce = <<pair[Opposite.eph], Opposite.kind, Opposite.dec>>
    BY <1>1 DEF Sealed, Opposite
  <1>7. Verifies(rAwaited)
    BY <1>1, <1>2, <1>5, <1>6 DEF Verifies, D!Deciphers, Opposite
  <1>8. Own.enc <= MaxCounter + 1 /\ Own.dec <= MaxCounter
    BY <1>1, EngineNumbers DEF ProtocolInv, R!ReaderInv, R!CountersOK, Own
  <1>9. /\ Own.enc \in Nat /\ Own.dec \in Nat /\ Opposite.enc \in Nat /\ Opposite.dec \in Nat
    BY EngineNumbers DEF Own, Opposite
  <1>10. Opposite.dec < MaxCounter + 2 /\ Opposite.enc < MaxCounter + 2
    BY <1>3, <1>8, <1>9, EngineNumbers
  <1>11. QED
    BY <1>1, <1>2, <1>3, <1>5, <1>7, <1>9, <1>10

\* What an answer under an engine leaves the engines like: one nonce further in
\* either direction, and the other engine as it is.
Enciphers ==
    /\ UNCHANGED <<dEph, dUsed, dKpersistent, pair>>
    /\ IF R!Using = "stepup"
       THEN dStepup' = D!Encrypted(D!Decrypted(dStepup)) /\ UNCHANGED dExpedited
       ELSE dExpedited' = D!Encrypted(D!Decrypted(dExpedited)) /\ UNCHANGED dStepup
    /\ reply'.nonce = D!Nonce(Opposite)

\* EXCHANGE is answered under the engine that deciphered it.
LEMMA ExchangeAnswer ==
    ASSUME ProtocolInv, AnswersExchange
    PROVE  /\ InTransaction /\ rAwaited = "EXCHANGE" /\ flight = "command" /\ Enciphers
           /\ flight' = "response" /\ reply'.type = "exchange"
           /\ dPc' = "serving" /\ dLink' = "up" /\ dState' # "NONE"
           /\ stage # "done" =>
                 dState' = IF R!Using = "stepup" THEN "STEPUP_EXCHANGE_DONE" ELSE "EXCHANGE_DONE"
  <1>1. Pending("EXCHANGE") /\ Undisturbed
    BY DEF AnswersExchange, Answers
  <1>2. ~ DeviceFailing
    BY DEF DeviceFailing, AnswersExchange, Answers, D!Exchange, D!ExchangeHandled, D!ReceiveUnverifiable,
           D!ExchangeOpaque, D!ExchangeUnexpected, D!ExchangeExhausted, D!ReceiveExchange,
           D!Receive, D!Waiting
  <1>3. /\ InTransaction /\ rAwaited = "EXCHANGE" /\ flight = "command" /\ rLink = "up"
        /\ dLink = "up"
    BY <1>1, <1>2, Asked DEF R!Commands
  <1>4. /\ Verifies("EXCHANGE") /\ D!DecryptionEngine("EXCHANGE") = R!Using
        /\ (R!Using = "stepup") = D!InStepUpPhase /\ R!Using \in {"expedited", "stepup"}
        /\ Opposite # D!NoEngine
        /\ Opposite.dec < MaxCounter + 2 /\ Opposite.enc < MaxCounter + 2
        /\ Opposite.enc \in Nat /\ Opposite.dec \in Nat
    BY <1>3, CommandFits
  <1>5. /\ D!ExpeditedAfter("EXCHANGE") = IF R!Using = "stepup" THEN dExpedited
                                          ELSE D!Decrypted(dExpedited)
        /\ D!StepupAfter("EXCHANGE") = IF R!Using = "stepup" THEN D!Decrypted(dStepup) ELSE dStepup
    BY <1>4 DEF D!ExpeditedAfter, D!StepupAfter, D!Deciphers, Opposite
  <1>6. D!ResponseEngine = D!Decrypted(Opposite)
    BY <1>4, <1>5 DEF D!ResponseEngine, Opposite
  <1>7. dState \in D!ExchangeStates
    BY <1>3, <1>4 DEF ProtocolInv, Exchanging, D!ExchangeStates
  <1>8. D!CountersValid(D!ResponseEngine)
    <2>1. dExpedited \in D!Engines /\ dStepup \in D!Engines
      BY DEF ProtocolInv, TypeOK, D!TypeOK, D!SessionOK
    <2>2. Opposite \in D!Engines
      BY <2>1 DEF Opposite
    <2>3. D!Decrypted(Opposite).enc = Opposite.enc /\ D!Decrypted(Opposite).dec = Opposite.dec + 1
      BY <2>2 DEF D!Decrypted, D!Engines
    <2>4. QED
      BY <1>4, <1>6, <2>3, EngineNumbers DEF D!CountersValid
  <1>9. ~ D!ExchangeUnexpected /\ ~ D!ExchangeExhausted
    BY <1>7, <1>8 DEF D!ExchangeUnexpected, D!ExchangeExhausted
  <1>10. /\ D!Exchange /\ UNCHANGED pair
         /\ (dState' = "TRANSACTION_COMPLETE") = (rReporting \/ stage = "done")
    BY <1>4, <1>9 DEF AnswersExchange, Answers
  <1>11. D!ExchangeHandled /\ D!ExchangeResponse("exchange", "serve")
    BY <1>10 DEF D!Exchange
  <1>12. dPc' = "serving" /\ dLink' = "up"
    BY <1>1, <1>3, <1>11, Delivers DEF D!ExchangeResponse
  <1>13. /\ dOut'.type = "exchange" /\ dOut'.nonce = D!Nonce(D!ResponseEngine)
    BY <1>11 DEF D!ExchangeResponse, D!SecureMessage
  <1>14. /\ flight' = "response" /\ reply'.type = "exchange"
         /\ reply'.nonce = D!Nonce(D!ResponseEngine)
    BY <1>13, AnswersSend DEF Answering, AnswerSent, Reply
  <1>15. D!Nonce(D!ResponseEngine) = D!Nonce(Opposite)
    <2>1. dExpedited \in D!Engines /\ dStepup \in D!Engines
      BY DEF ProtocolInv, TypeOK, D!TypeOK, D!SessionOK
    <2>2. Opposite \in D!Engines
      BY <2>1 DEF Opposite
    <2>3. QED
      BY <1>6, <2>2 DEF D!Nonce, D!Decrypted, D!Engines
  <1>16. Enciphers
    BY <1>4, <1>5, <1>6, <1>10, <1>11, <1>14, <1>15
       DEF Enciphers, D!ExchangeResponse, D!ExchangeHandled, Opposite
  <1>17. /\ dState' # "NONE"
         /\ stage # "done" =>
               dState' = IF R!Using = "stepup" THEN "STEPUP_EXCHANGE_DONE" ELSE "EXCHANGE_DONE"
    <2>1. ~ rReporting
      BY <1>3 DEF ProtocolInv, FlightOK
    <2>2. QED
      BY <1>4, <1>10, <1>11, <2>1 DEF D!ExchangeHandled
  <1>18. QED
    BY <1>3, <1>12, <1>14, <1>16, <1>17

\* Both sides have then used the same nonces, and the response is for the Reader's
\* engine.
LEMMA EnciphersKeeps ==
    ASSUME ProtocolInv, InTransaction, flight = "command", rAwaited \in {"EXCHANGE", "ENVELOPE"},
           Enciphers, UNCHANGED <<readers, stage, s2, disturbed>>, flight' = "response"
    PROVE  KeysOK' /\ InStep' /\ Sealed'
  <1>1. /\ InStep /\ Sealed /\ R!Secured /\ R!Using \in {"expedited", "stepup"}
        /\ Opposite.enc = Own.dec
    BY CommandFits DEF ProtocolInv, Exchanging, R!Secured
  <1>2. dExpedited \in D!Engines /\ dStepup \in D!Engines
    BY DEF ProtocolInv, TypeOK, D!TypeOK, D!SessionOK
  <1>3. ASSUME NEW g \in D!Engines
        PROVE  /\ D!Encrypted(D!Decrypted(g)).eph = g.eph /\ D!Encrypted(D!Decrypted(g)).kind = g.kind
               /\ D!Encrypted(D!Decrypted(g)).enc = g.enc + 1
               /\ D!Encrypted(D!Decrypted(g)).dec = g.dec + 1
    BY DEF D!Encrypted, D!Decrypted, D!Engines
  <1>4. /\ UNCHANGED <<rExpedited, rStepup, rEph, rAwaited, rReporting, rCall, rUsed, rLast, rGranted>>
        /\ R!Using' = R!Using /\ R!Secured' = R!Secured
    BY DEF readers, R!Using, R!Secured
  <1>5. KeysOK'
    BY <1>4 DEF ProtocolInv, KeysOK, Shared, Enciphers
  <1>6. CASE R!Using = "stepup"
    <2>1. /\ UNCHANGED <<dEph, dExpedited, pair>>
          /\ dStepup'.eph = dStepup.eph /\ dStepup'.kind = dStepup.kind
          /\ dStepup'.enc = dStepup.enc + 1 /\ dStepup'.dec = dStepup.dec + 1
          /\ reply'.nonce = <<dStepup.eph, dStepup.kind, dStepup.enc>>
      BY <1>2, <1>3, <1>6 DEF Enciphers, Opposite, D!Nonce
    <2>2. InStep'
      BY <1>1, <1>4, <1>6, <2>1 DEF InStep, Apart
    <2>3. Sealed'
      BY <1>1, <1>4, <1>6, <2>1 DEF Sealed, Own, Opposite
    <2>4. QED
      BY <1>5, <2>2, <2>3
  <1>7. CASE R!Using = "expedited"
    <2>1. /\ UNCHANGED <<dEph, dStepup, pair>>
          /\ dExpedited'.eph = dExpedited.eph /\ dExpedited'.kind = dExpedited.kind
          /\ dExpedited'.enc = dExpedited.enc + 1 /\ dExpedited'.dec = dExpedited.dec + 1
          /\ reply'.nonce = <<dExpedited.eph, dExpedited.kind, dExpedited.enc>>
      BY <1>2, <1>3, <1>7 DEF Enciphers, Opposite, D!Nonce
    <2>2. InStep'
      BY <1>1, <1>4, <1>7, <2>1 DEF InStep, Apart
    <2>3. Sealed'
      BY <1>1, <1>4, <1>7, <2>1 DEF Sealed, Own, Opposite
    <2>4. QED
      BY <1>5, <2>2, <2>3
  <1>8. QED
    BY <1>1, <1>6, <1>7

\* The exchange goes on, or is the last one.
LEMMA ExchangeAnswerKeeps ==
    ASSUME ProtocolInv, AnswersExchange
    PROVE  Mutual'
  <1>1. UNCHANGED <<readers, stage, s2, disturbed>>
    BY AnswersSend DEF Answering, AnswerSent
  <1>2. UNCHANGED <<rAwaited, rReporting, rCall, rExpedited>> /\ R!Using' = R!Using
        /\ rAwaited = "EXCHANGE"
    BY <1>1, ExchangeAnswer DEF readers, R!Using
  <1>3. DeviceReady' /\ CallOK' /\ FlightOK' /\ Between'
    BY <1>1, <1>2, ExchangeAnswer, AnswerKeeps DEF Response
  <1>4. KeysOK' /\ InStep' /\ Sealed'
    BY <1>1, <1>2, ExchangeAnswer, EnciphersKeeps
  <1>5. Selecting' /\ Authenticating'
    BY <1>2 DEF Selecting, Authenticating, Halfway
  <1>6. Exchanging'
    BY <1>1, <1>2, <1>4, ExchangeAnswer DEF ProtocolInv, Exchanging, InTransaction
  <1>7. QED
    BY <1>3, <1>4, <1>5, <1>6 DEF Mutual

\* ENVELOPE is answered with a document under the step-up engine.
LEMMA EnvelopeAnswer ==
    ASSUME ProtocolInv, AnswersEnvelope
    PROVE  /\ InTransaction /\ rAwaited = "ENVELOPE" /\ flight = "command" /\ Enciphers
           /\ flight' = "response" /\ reply'.type = "document"
           /\ dPc' = "serving" /\ dLink' = "up" /\ dState' = "ENVELOPE_DONE"
  <1>1. Pending("ENVELOPE") /\ Undisturbed
    BY DEF AnswersEnvelope, Answers
  <1>2. ~ DeviceFailing
    BY DEF DeviceFailing, AnswersEnvelope, Answers, D!Envelope, D!EnvelopeRejected, D!ReceiveUnverifiable,
           D!ReceiveCommand, D!Receive, D!Waiting
  <1>3. /\ InTransaction /\ rAwaited = "ENVELOPE" /\ flight = "command" /\ rLink = "up"
        /\ dLink = "up"
    BY <1>1, <1>2, Asked DEF R!Commands
  <1>4. Verifies("ENVELOPE") /\ Opposite # D!NoEngine /\ D!DecryptionEngine("ENVELOPE") = R!Using
    BY <1>3, CommandFits
  <1>5. R!Using = "stepup" /\ dState \in D!EnvelopeStates
    BY <1>3 DEF ProtocolInv, Exchanging, D!EnvelopeStates
  <1>6. dStepup # D!NoEngine /\ D!StepupAfter("ENVELOPE") = D!Decrypted(dStepup)
    BY <1>4, <1>5 DEF Opposite, D!StepupAfter, D!Deciphers
  <1>7. D!Envelope
    BY <1>4, <1>5, <1>6 DEF AnswersEnvelope, Answers, D!EnvelopeRejected
  <1>8. dPc' = "serving" /\ dLink' = "up"
    BY <1>1, <1>3, <1>7, Delivers DEF D!Envelope
  <1>9. /\ dOut' = D!SecureMessage("document", D!Decrypted(dStepup))
        /\ dStepup' = D!Encrypted(D!Decrypted(dStepup)) /\ dState' = "ENVELOPE_DONE"
        /\ UNCHANGED <<dEph, dExpedited, dUsed, dKpersistent>>
    BY <1>6, <1>7, <1>8 DEF D!Envelope
  <1>10. D!Nonce(D!Decrypted(dStepup)) = D!Nonce(dStepup)
    BY DEF ProtocolInv, TypeOK, D!TypeOK, D!SessionOK, D!Nonce, D!Decrypted, D!Engines
  <1>11. dOut'.type = "document" /\ dOut'.nonce = D!Nonce(dStepup)
    BY <1>9, <1>10 DEF D!SecureMessage
  <1>12. /\ flight' = "response" /\ reply'.type = "document"
         /\ reply'.nonce = D!Nonce(Opposite)
    BY <1>5, <1>11, AnswersSend DEF Answering, AnswerSent, Reply, Opposite
  <1>13. QED
    BY <1>3, <1>5, <1>8, <1>9, <1>12 DEF AnswersEnvelope, Enciphers

\* The device is then ready for the next request of documents.
LEMMA EnvelopeAnswerKeeps ==
    ASSUME ProtocolInv, AnswersEnvelope
    PROVE  Mutual'
  <1>1. UNCHANGED <<readers, stage, s2, disturbed>>
    BY AnswersSend DEF Answering, AnswerSent
  <1>2. UNCHANGED <<rAwaited, rReporting, rCall, rExpedited>> /\ R!Using' = R!Using
        /\ rAwaited = "ENVELOPE"
    BY <1>1, EnvelopeAnswer DEF readers, R!Using
  <1>3. DeviceReady' /\ CallOK' /\ FlightOK' /\ Between'
    BY <1>1, <1>2, EnvelopeAnswer, AnswerKeeps DEF Response
  <1>4. KeysOK' /\ InStep' /\ Sealed'
    BY <1>1, <1>2, EnvelopeAnswer, EnciphersKeeps
  <1>5. Selecting' /\ Authenticating'
    BY <1>2 DEF Selecting, Authenticating, Halfway
  <1>6. Exchanging'
    BY <1>1, <1>2, <1>4, EnvelopeAnswer DEF ProtocolInv, Exchanging, InTransaction
  <1>7. QED
    BY <1>3, <1>4, <1>5, <1>6 DEF Mutual

\* CONTROL FLOW is answered in any state and ends the device's session; or it is
\* refused, because of its S2.
LEMMA ControlFlowAnswer ==
    ASSUME ProtocolInv, AnswersControlFlow
    PROVE  /\ rAwaited = "CONTROL_FLOW" /\ flight = "command" /\ dEph' \in {0, dEph}
           /\ UNCHANGED <<dUsed, dKpersistent, pair>>
           /\ \/ /\ flight' = "response" /\ reply'.type = "control_flow"
                 /\ dPc' = "idle"
              \/ /\ s2 = "True" /\ dPc' = "parseFailed"
                 /\ dExc' \in {"NoDeviceConnectedError", "InvalidCommandError"}
  <1>1. Pending("CONTROL_FLOW") /\ UNCHANGED pair /\ AnswerSent
    BY AnswersSend DEF AnswersControlFlow, Answering
  <1>2. rAwaited = "CONTROL_FLOW" /\ flight = "command" /\ rLink = "up"
    BY <1>1 DEF ProtocolInv, CallOK, Pending, R!Commands
  <1>3. CASE D!ControlFlow
    <2>1. dPc = "serving"
      BY <1>3 DEF D!ControlFlow, D!ReceiveCommand, D!Receive, D!Waiting
    <2>2. ~ D!ThrowWhileSending("serve", "NoDeviceConnectedError") \/ dLink' # "down"
      BY <1>1, <1>2, <2>1 DEF AnswerSent, Undisturbed, ProtocolInv, DeviceReady
    <2>3. D!Complete("SELECT_DONE") /\ dOut' = D!Message("control_flow")
          /\ UNCHANGED <<dUsed, dKpersistent>>
      BY <1>3, <2>2 DEF D!ControlFlow, D!device
    <2>4. dPc' = "idle" /\ dEph' = 0
      BY <2>3 DEF D!Complete, D!TransactionTermination, D!EndSession
    <2>5. flight' = "response" /\ reply'.type = "control_flow"
      BY <1>1, <2>3 DEF AnswerSent, Reply, D!Message
    <2>6. QED
      BY <1>1, <1>2, <2>3, <2>4, <2>5
  <1>4. CASE s2 = "True" /\ D!ReceiveInvalid /\ dExc' # "InvalidINSError"
    <2>1. /\ dEph' \in {0, dEph} /\ UNCHANGED <<dUsed, dKpersistent>>
          /\ dPc' = "parseFailed"
          /\ dExc' \in {"NoDeviceConnectedError", "InvalidCommandError"}
      BY <1>4 DEF D!ReceiveInvalid, D!FailureProcess, D!FailureReported, D!FailureUnsent,
                  D!TransactionTermination, D!EndSession, D!session, D!device
    <2>2. QED
      BY <1>1, <1>2, <1>4, <2>1
  <1>5. QED
    BY <1>3, <1>4 DEF AnswersControlFlow, Answers

\* The device then waits for the next Reader while this one has yet to hear it.
LEMMA ControlFlowAnswerKeeps ==
    ASSUME ProtocolInv, AnswersControlFlow
    PROVE  Mutual'
  <1>1. UNCHANGED <<readers, stage, s2, disturbed>>
    BY AnswersSend DEF Answering, AnswerSent
  <1>2. UNCHANGED <<rAwaited, rEph, rUsed, rLast, rGranted>> /\ rAwaited = "CONTROL_FLOW"
    BY <1>1, ControlFlowAnswer DEF readers
  <1>3. KeysOK'
    BY <1>2, ControlFlowAnswer DEF ProtocolInv, KeysOK, Shared
  <1>4. CASE InTransaction
    <2>1. s2 # "True"
      BY <1>2, <1>4 DEF ProtocolInv, CallOK, InTransaction
    <2>2. DeviceReady' /\ CallOK' /\ FlightOK' /\ Between'
      BY <1>1, <1>2, <1>4, <2>1, ControlFlowAnswer, AnswerKeeps DEF Response
    <2>3. Selecting' /\ Authenticating' /\ Exchanging'
      BY <1>2 DEF Selecting, Authenticating, Halfway, Exchanging
    <2>4. QED
      BY <1>3, <2>2, <2>3 DEF Mutual
  <1>5. CASE ~ InTransaction
    <2>1. ~ InTransaction'
      BY <1>1, <1>5 DEF InTransaction
    <2>2. DeviceReady'
      BY ControlFlowAnswer DEF DeviceReady
    <2>3. CallOK'
      BY <1>1, <1>2 DEF ProtocolInv, CallOK, NoSpuriousFailure, readers
    <2>4. QED
      BY <1>3, <2>1, <2>2, <2>3, Outside
  <1>6. QED
    BY <1>4, <1>5

\* A device in a new session that hears the rest of a call that was given up ends
\* its program; the Reader is not in a transaction then.
LEMMA StrangerAnswerKeeps ==
    ASSUME ProtocolInv, AnswersStranger
    PROVE  Mutual'
  <1>1. AnswerSent /\ D!InitiationFails /\ UNCHANGED pair /\ flight = "command"
        /\ rSent.type # "SELECT"
    BY AnswersSend DEF AnswersStranger, Answering, Answers
  <1>2. UNCHANGED <<readers, stage, s2, disturbed>>
    BY <1>1 DEF AnswerSent
  <1>3. dPc = "initiation" /\ dPc' = "raised" /\ dEph' \in {dEph, 0}
        /\ UNCHANGED <<dUsed, dKpersistent>>
    BY <1>1 DEF D!InitiationFails, D!device, D!session, D!TransactionTermination, D!EndSession
  <1>4. ~ InTransaction
    BY <1>1, <1>3 DEF ProtocolInv, FlightOK
  <1>5. ~ InTransaction'
    BY <1>2, <1>4 DEF InTransaction
  <1>6. stage = "none" \/ rAwaited = "CONTROL_FLOW"
    BY <1>1, <1>3, <1>4 DEF ProtocolInv, CallOK, InTransaction, DeviceFailing
  <1>7. DeviceReady' /\ CallOK'
    BY <1>2, <1>3, <1>6 DEF ProtocolInv, DeviceReady, CallOK, NoSpuriousFailure, readers
  <1>8. KeysOK'
    BY <1>1, <1>2, <1>3 DEF ProtocolInv, KeysOK, Shared, readers
  <1>9. QED
    BY <1>5, <1>7, <1>8, Outside

\* Whatever the device answers keeps the protocol.
LEMMA AnsweringKeeps ==
    ASSUME ProtocolInv, Answering
    PROVE  Mutual'
  BY SelectAnswerKeeps, Auth0AnswerKeeps, LoadCertAnswerKeeps, Auth1AnswerKeeps,
     ExchangeAnswerKeeps, EnvelopeAnswerKeeps, ControlFlowAnswerKeeps, StrangerAnswerKeeps
     DEF Answering

\* A device that is failing has one more message to send, or ends its program.
LEMMA FailingGoesOn ==
    ASSUME ProtocolInv, DeviceGoesOn, DeviceFailing
    PROVE  Mutual'
  <1>1. /\ UNCHANGED <<readers, stage, pair, s2, disturbed>>
        /\ IF flight = "command" /\ dOut'.type # "none"
           THEN flight' = "response" /\ reply' = Reply(dOut', 0)
           ELSE UNCHANGED <<flight, reply>>
    BY DEF DeviceGoesOn
  <1>2. D!CatchParseFailure /\ dExc = "InvalidCommandError"
    BY DEF DeviceGoesOn, DeviceFailing, D!Connect, D!ReaderLeaves, D!Waiting,
           D!CatchInMainLoop, D!NotCaught, D!SessionMissing, D!CatchParseFailure
  <1>3. /\ dEph' \in {0, dEph} /\ UNCHANGED <<dUsed, dKpersistent>>
        /\ \/ dPc' = "idle" /\ dOut'.type = "error"
           \/ dPc' = "raised" /\ dOut'.type = "none"
    BY <1>2 DEF D!CatchParseFailure, D!TransactionTermination, D!EndSession, D!session, D!device,
                D!Silent, D!Message
  <1>4. ~ InTransaction'
    BY <1>1 DEF ProtocolInv, FlightOK, InTransaction
  <1>5. DeviceReady'
    BY <1>3 DEF DeviceReady
  <1>6. KeysOK'
    BY <1>1, <1>3 DEF ProtocolInv, KeysOK, Shared, readers
  <1>7. CallOK'
    <2>1. CASE flight = "command" /\ dPc' = "idle"
      <3>1. flight' = "response" /\ reply'.type = "error"
        BY <1>1, <1>3, <2>1 DEF Reply
      <3>2. QED
        BY <1>1, <3>1 DEF ProtocolInv, CallOK, NoSpuriousFailure, readers
    <2>2. CASE flight # "command" \/ dPc' # "idle"
      <3>1. UNCHANGED <<flight, reply>> /\ (flight = "command" => DeviceFailing')
        BY <1>1, <1>3, <2>2 DEF DeviceFailing
      <3>2. QED
        BY <1>1, <3>1 DEF ProtocolInv, CallOK, NoSpuriousFailure, readers
    <2>3. QED
      BY <2>1, <2>2
  <1>8. QED
    BY <1>4, <1>5, <1>6, <1>7, Outside

\* What another device does by itself sends nothing, and does not touch a
\* transaction that goes well: it has nothing to do there but to be ready for
\* SELECT.
LEMMA GoingOnKeeps ==
    ASSUME ProtocolInv, DeviceGoesOn, ~ DeviceFailing
    PROVE  Mutual'
  <1>1. /\ UNCHANGED <<readers, stage, pair, s2, disturbed>> /\ Undisturbed
        /\ dOut'.type = "none" => UNCHANGED <<flight, reply>>
    BY DEF DeviceGoesOn
  <1>2. dPc # "handleFailed" /\ (dPc = "serving" => dState # "NONE")
        /\ (dPc = "parseFailed" => dExc = "NoDeviceConnectedError")
    BY DEF ProtocolInv, DeviceReady, DeviceFailing
  <1>3. \/ rLink = "up" /\ D!Connect
        \/ rLink = "down" /\ D!ReaderLeaves
        \/ D!CatchParseFailure
    BY <1>2 DEF DeviceGoesOn, D!CatchInMainLoop, D!NotCaught, D!SessionMissing
  <1>4. /\ dOut'.type = "none" /\ dEph' \in {0, dEph} /\ UNCHANGED <<dUsed, dKpersistent>>
        /\ \/ dPc = "idle" /\ dPc' = "initiation" /\ dLink' = "up"
           \/ rLink = "down" /\ dPc' = "parseFailed" /\ dExc' = "NoDeviceConnectedError"
           \/ dPc = "parseFailed" /\ dPc' = "idle"
    <2>1. CASE rLink = "up" /\ D!Connect
      BY <2>1 DEF D!Connect, D!StartNewSession, D!device, D!Silent, D!Message
    <2>2. CASE rLink = "down" /\ D!ReaderLeaves
      BY <2>2 DEF D!ReaderLeaves, D!session, D!device, D!Silent, D!Message
    <2>3. CASE D!CatchParseFailure
      BY <1>2, <2>3 DEF D!CatchParseFailure, D!session, D!device, D!Silent, D!Message
    <2>4. QED
      BY <1>3, <2>1, <2>2, <2>3
  <1>5. UNCHANGED <<flight, reply>>
    BY <1>1, <1>4
  <1>6. DeviceReady'
    BY <1>4 DEF DeviceReady
  <1>7. KeysOK'
    BY <1>1, <1>4 DEF ProtocolInv, KeysOK, Shared, readers
  <1>8. CallOK'
    BY <1>1, <1>4, <1>5 DEF ProtocolInv, CallOK, NoSpuriousFailure, readers
  <1>9. ASSUME InTransaction'
        PROVE  FlightOK' /\ Selecting' /\ Authenticating' /\ Exchanging' /\ Between'
    <2>1. InTransaction /\ rLink = "up"
      BY <1>1, <1>9 DEF ProtocolInv, CallOK, InTransaction
    <2>2. /\ \/ rAwaited = "SELECT" /\ flight = "command" /\ stage = "selected"
             \/ rAwaited = "CONTROL_FLOW" /\ flight = "response"
          /\ ~ DeviceFailing' /\ dPc' # "serving"
      BY <1>4, <2>1 DEF ProtocolInv, FlightOK, DeviceFailing
    <2>3. FlightOK'
      BY <1>1, <1>5, <2>1, <2>2 DEF ProtocolInv, FlightOK, readers, InTransaction
    <2>4. Selecting' /\ Authenticating' /\ Exchanging' /\ Between'
      BY <1>1, <1>5, <2>1, <2>2
         DEF ProtocolInv, Selecting, Authenticating, Halfway, Exchanging, Between, readers,
             InTransaction
    <2>5. QED
      BY <2>3, <2>4
  <1>10. ASSUME ~ InTransaction'
         PROVE  FlightOK' /\ Selecting' /\ Authenticating' /\ Exchanging' /\ Between'
    BY <1>10 DEF FlightOK, Selecting, Authenticating, Exchanging, Between
  <1>11. QED
    BY <1>6, <1>7, <1>8, <1>9, <1>10 DEF Mutual

-----------------------------------------------------------------------------
(* The Reader receives.                                                     *)

\* The response to an encrypted command decrypts.
LEMMA AnswerReadable ==
    ASSUME ProtocolInv, InTransaction, flight = "response",
           rAwaited \in {"AUTH1", "EXCHANGE", "ENVELOPE"}
    PROVE  /\ Readable /\ InStep /\ Sealed /\ ~ rReporting /\ R!Secured
           /\ R!Using \in {"expedited", "stepup"}
           /\ R!Using = "stepup" => rExpedited.kind = "standard"
  <1>1. /\ InStep /\ Sealed /\ ~ rReporting /\ R!Using \in {"expedited", "stepup"}
        /\ R!Using = "stepup" => rExpedited.kind = "standard"
    BY DEF ProtocolInv, FlightOK, Authenticating, Exchanging, TypeOK, R!TypeOK, R!Calls, R!Using
  <1>2. reply.nonce = <<Opposite.eph, Opposite.kind, Own.dec>>
    BY <1>1 DEF Sealed, Opposite, Own
  <1>3. pair[Opposite.eph] = Own.eph /\ Opposite.kind = Own.kind
    BY <1>1 DEF InStep, Apart, Opposite, Own
  <1>4. Readable
    BY <1>2, <1>3 DEF Readable, Own
  <1>5. QED
    BY <1>1, <1>4 DEF R!Secured

\* The handler that a response meets is the one for the command it answers.
LEMMA Heard ==
    ASSUME ProtocolInv, Receiving, ~ disturbed
    PROVE  /\ InTransaction /\ flight = "response"
           /\ \/ rAwaited = "SELECT" /\ R!SelectAnswered
              \/ /\ rAwaited = "AUTH0"
                 /\ \/ R!Auth0Standard
                    \/ R!Auth0Fast(reply.cryptogram)
                    \/ R!CryptogramUnknown(reply.cryptogram)
              \/ rAwaited = "LOAD_CERT" /\ R!LoadCertAnswered
              \/ rAwaited = "AUTH1" /\ R!Auth1Accepted(Credential)
              \/ rAwaited = "EXCHANGE" /\ R!ExchangeAnswered
              \/ rAwaited = "ENVELOPE" /\ R!EnvelopeAnswered
              \/ rAwaited = "CONTROL_FLOW" /\ R!ControlFlowAnswered
  <1>1. flight = "response" /\ ResponseHandler
    BY DEF Receiving, Receives
  <1>2. rAwaited # "none"
    BY <1>1 DEF ResponseHandler, R!SelectAnswered, R!Auth0Standard, R!Auth0Fast,
          R!CryptogramUnknown, R!LoadCertAnswered, R!ControlFlowAnswered, R!ResponseStatus,
          R!Auth1Accepted, R!ExchangeAnswered, R!EnvelopeAnswered, R!ResponseUnverifiable,
          R!Answered, R!Commands
  <1>3. InTransaction /\ rAwaited \in R!Commands /\ reply.type = Response[rAwaited]
    BY <1>1, <1>2, Told
  <1>4. CASE rAwaited \in {"SELECT", "AUTH0", "LOAD_CERT", "CONTROL_FLOW"}
    BY <1>1, <1>3, <1>4 DEF ResponseHandler, Response
  <1>5. CASE rAwaited \in {"AUTH1", "EXCHANGE", "ENVELOPE"}
    <2>1. Readable
      BY <1>1, <1>3, <1>5, AnswerReadable
    <2>2. QED
      BY <1>1, <1>3, <1>5, <2>1 DEF ResponseHandler, Response
  <1>6. QED
    BY <1>3, <1>4, <1>5 DEF R!Commands

\* What receiving does to the field and to the device.
Receipt ==
    /\ stage' = IF rRaised' \/ ~ rAlive' THEN "none" ELSE stage
    /\ flight' = IF rSent'.type \in R!Commands THEN "command" ELSE "none"
    /\ s2' = "NONE" /\ UNCHANGED <<devices, reply, pair, disturbed>>

\* A call that returns keeps the protocol if what holds between calls does; it
\* raises an exception only to abort a fast transaction.
LEMMA ReturnKeeps ==
    ASSUME ProtocolInv, InTransaction, flight = "response", Receipt, rOptions' = rOptions,
           rAwaited' = "none", rReporting' = FALSE, rSent' = R!Silent,
           rRaised' => rOptions.handling = "ABORT",
           rAlive' => rLink' = "up" /\ dPc = "serving", KeysOK', Between'
    PROVE  Mutual'
  <1> USE DEF Receipt, devices, InTransaction
  <1>1. flight' = "none" /\ rSent'.type \notin R!Commands
    BY DEF R!Silent, R!Plain, R!Commands
  <1>2. DeviceReady'
    BY DEF ProtocolInv, DeviceReady
  <1>3. stage' # "none" => rAlive' /\ ~ rRaised' /\ rLink' = "up" /\ dPc = "serving" /\ ~ disturbed
    OBVIOUS
  <1>4. CallOK'
    BY <1>1, <1>3 DEF ProtocolInv, CallOK, NoSpuriousFailure
  <1>5. FlightOK'
    BY <1>1, <1>3 DEF FlightOK, DeviceFailing
  <1>6. Selecting' /\ Authenticating' /\ Exchanging'
    BY DEF Selecting, Authenticating, Halfway, Exchanging
  <1>7. QED
    BY <1>2, <1>4, <1>5, <1>6 DEF Mutual

\* A call that goes on with its next command in the same handshake keeps the
\* protocol if the command finds the device where it should be.
LEMMA SendKeeps ==
    ASSUME ProtocolInv, InTransaction, flight = "response", Receipt,
           rAwaited \in {"AUTH0", "LOAD_CERT"},
           UNCHANGED <<rOptions, rRaised, rLink, rAlive, rEph, rUsed, rLast, rGranted>>,
           rAwaited' \in {"LOAD_CERT", "AUTH1", "CONTROL_FLOW"}, rSent'.type = rAwaited',
           rReporting' => rAwaited' = "CONTROL_FLOW" /\ rOptions.handling = "ABORT",
           rAwaited' = "AUTH1" => rStepup' = R!NewEngine(rEph, "stepup")
    PROVE  Mutual'
  <1> USE DEF Receipt, devices, InTransaction
  <1>1. stage' = stage /\ stage = "granted" /\ flight' = "command" /\ dPc = "serving"
    BY DEF ProtocolInv, CallOK, Authenticating, FlightOK, R!Commands
  <1>2. KeysOK' /\ DeviceReady'
    BY DEF ProtocolInv, KeysOK, Shared, DeviceReady
  <1>3. CallOK'
    BY <1>1 DEF ProtocolInv, CallOK, NoSpuriousFailure
  <1>4. FlightOK'
    BY <1>1 DEF FlightOK, DeviceFailing
  <1>5. Selecting' /\ Exchanging' /\ Between'
    BY DEF Selecting, Exchanging, Between
  <1>6. Authenticating'
    BY <1>1 DEF ProtocolInv, Authenticating, Halfway
  <1>7. QED
    BY <1>2, <1>3, <1>4, <1>5, <1>6 DEF Mutual

\* SELECT has come back: the Reader goes on where the device is.
LEMMA SelectHeard ==
    ASSUME ProtocolInv, Receiving, ~ disturbed, R!SelectAnswered
    PROVE  Mutual'
  <1>1. InTransaction /\ flight = "response" /\ rAwaited = "SELECT" /\ Receipt
    BY Heard DEF Receiving, Receives, Receipt, R!SelectAnswered, R!Answered
  <1>2. /\ rAwaited' = "none" /\ rReporting' = FALSE /\ ~ rRaised' /\ rSent' = R!Silent
        /\ UNCHANGED <<rOptions, rLink, rAlive, rEph, rExpedited, rStepup, rGranted, rUsed, rLast>>
    BY DEF R!SelectAnswered, R!Returns, R!Ends, R!session, R!history
  <1>3. rAlive => rLink = "up" /\ dPc = "serving"
    BY <1>1 DEF ProtocolInv, CallOK, FlightOK, InTransaction
  <1>4. KeysOK'
    BY <1>1, <1>2 DEF ProtocolInv, KeysOK, Shared, Receipt, devices
  <1>5. InStep => InStep'
    BY <1>1, <1>2 DEF InStep, Apart, R!Secured, Receipt, devices
  <1>6. Between'
    BY <1>1, <1>2, <1>5 DEF ProtocolInv, Selecting, Between, InTransaction, Receipt, devices
  <1>7. QED
    BY <1>1, <1>2, <1>3, <1>4, <1>6, ReturnKeeps

\* AUTH0 of a standard transaction goes on, with or without a certificate.
LEMMA Auth0Heard ==
    ASSUME ProtocolInv, Receiving, ~ disturbed, R!Auth0Standard
    PROVE  Mutual'
  <1>1. InTransaction /\ flight = "response" /\ rAwaited = "AUTH0" /\ Receipt
    BY Heard DEF Receiving, Receives, Receipt, R!Auth0Standard, R!Answered
  <1>2. rOptions.cert /\ ~ rReporting
    BY <1>1 DEF ProtocolInv, CallOK, ReaderOptions, FlightOK
  <1>3. /\ UNCHANGED <<rOptions, rLink, rAlive, rEph, rUsed, rLast, rGranted, rRaised, rReporting>>
        /\ rAwaited' \in {"LOAD_CERT", "AUTH1"} /\ rSent' = R!Plain(rAwaited')
        /\ rAwaited' = "AUTH1" => rStepup' = R!NewEngine(rEph, "stepup")
    BY <1>2 DEF R!Auth0Standard, R!SendAuth1, R!SharedKeys, R!Awaits, R!history
  <1>4. rSent'.type = rAwaited'
    BY <1>3 DEF R!Plain
  <1>5. QED
    BY <1>1, <1>2, <1>3, <1>4, SendKeeps

\* LOAD CERT is followed by AUTH1.
LEMMA LoadCertHeard ==
    ASSUME ProtocolInv, Receiving, ~ disturbed, R!LoadCertAnswered
    PROVE  Mutual'
  <1>1. InTransaction /\ flight = "response" /\ rAwaited = "LOAD_CERT" /\ Receipt
    BY Heard DEF Receiving, Receives, Receipt, R!LoadCertAnswered, R!Answered
  <1>2. ~ rReporting
    BY <1>1 DEF ProtocolInv, FlightOK
  <1>3. /\ UNCHANGED <<rOptions, rLink, rAlive, rEph, rUsed, rLast, rGranted, rRaised, rReporting>>
        /\ rAwaited' = "AUTH1" /\ rSent'.type = "AUTH1"
        /\ rStepup' = R!NewEngine(rEph, "stepup")
    BY DEF R!LoadCertAnswered, R!SendAuth1, R!SharedKeys, R!Awaits, R!history, R!Plain
  <1>4. QED
    BY <1>1, <1>2, <1>3, SendKeeps

\* Without the Kpersistent of the cryptogram the transaction goes on with AUTH1 or,
\* if the Reader is told to, is aborted.
LEMMA UnknownHeard ==
    ASSUME ProtocolInv, Receiving, ~ disturbed, R!CryptogramUnknown(reply.cryptogram)
    PROVE  Mutual'
  <1>1. InTransaction /\ flight = "response" /\ rAwaited = "AUTH0" /\ Receipt
    BY Heard DEF Receiving, Receives, Receipt, R!CryptogramUnknown, R!Answered
  <1>2. /\ ~ rReporting /\ rOptions.mode = "READER" /\ rOptions.transport = "NFC"
        /\ rExpedited = R!NoEngine
    BY <1>1 DEF ProtocolInv, CallOK, ReaderOptions, FlightOK, Authenticating
  <1>3. UNCHANGED <<rOptions, rUsed, rLast>>
    BY DEF R!CryptogramUnknown
  <1>4. CASE R!SendAuth1 /\ UNCHANGED <<rLink, rAlive, rEph, rGranted>>
    <2>1. /\ UNCHANGED <<rRaised, rReporting>> /\ rAwaited' = "AUTH1" /\ rSent'.type = "AUTH1"
          /\ rStepup' = R!NewEngine(rEph, "stepup")
      BY <1>4 DEF R!SendAuth1, R!SharedKeys, R!Awaits, R!Plain
    <2>2. QED
      BY <1>1, <1>2, <1>3, <1>4, <2>1, SendKeeps
  <1>5. CASE /\ rOptions.handling = "ABORT"
             /\ R!FailureProcess("READER_STATUS", rExpedited, rStepup, rCredential)
    <2>1. ~ R!SecureReport("READER_STATUS", rExpedited)
      BY <1>2 DEF R!SecureReport
    <2>2. UNCHANGED <<rAlive, rEph, rGranted>>
          /\ \/ R!Raises /\ rSent' = R!Silent /\ UNCHANGED rLink
             \/ /\ rSent' = R!Plain("CONTROL_FLOW") /\ rAwaited' = "CONTROL_FLOW"
                /\ UNCHANGED <<rRaised, rLink>>
      BY <1>2, <1>5, <2>1 DEF R!FailureProcess, R!Session
    <2>3. CASE R!Raises /\ rSent' = R!Silent /\ UNCHANGED rLink
      <3>1. rAwaited' = "none" /\ rReporting' = FALSE /\ rRaised'
        BY <2>3 DEF R!Raises, R!Ends
      <3>2. rAlive' => rLink' = "up" /\ dPc = "serving"
        BY <1>1, <2>2, <2>3 DEF ProtocolInv, CallOK, FlightOK, InTransaction
      <3>3. KeysOK' /\ Between'
        BY <1>1, <1>3, <2>2, <3>1
           DEF ProtocolInv, KeysOK, Shared, Between, InTransaction, Receipt, devices
      <3>4. QED
        BY <1>1, <1>3, <1>5, <2>3, <3>1, <3>2, <3>3, ReturnKeeps
    <2>4. CASE /\ rSent' = R!Plain("CONTROL_FLOW") /\ rAwaited' = "CONTROL_FLOW"
               /\ UNCHANGED <<rRaised, rLink>>
      <3>1. rSent'.type = "CONTROL_FLOW"
        BY <2>4 DEF R!Plain
      <3>2. QED
        BY <1>1, <1>3, <1>5, <2>2, <2>4, <3>1, SendKeeps
    <2>5. QED
      BY <2>2, <2>3, <2>4
  <1>6. QED
    BY <1>4, <1>5 DEF R!CryptogramUnknown

\* What is in the Reader's fast cache is of the last handshake it completed.
LEMMA CacheIsLast ==
    ASSUME ProtocolInv, NEW i \in DOMAIN rCache
    PROVE  rCache[i].key = rLast[Credential] /\ rCache[i].key \in 1 .. MaxEphemeral
  <1>1. rCache \in Seq(R!Entries)
    BY DEF ProtocolInv, TypeOK, R!TypeOK
  <1>2. i \in 1 .. Len(rCache) /\ rCache[i] \in R!Entries
    BY <1>1
  <1>3. rCache[i].credential = Credential /\ rCache[i].key \in 1 .. MaxEphemeral
    BY <1>2 DEF R!Entries, R!Handshakes
  <1>4. rCache[i].key = rLast[rCache[i].credential]
    BY <1>2 DEF ProtocolInv, R!ReaderInv, R!CacheOK, R!CacheHoldsMostRecent
  <1>5. QED
    BY <1>3, <1>4

\* The cryptogram is of the Kpersistent that the Reader has cached: both have made
\* the same engine of it.
LEMMA CryptogramHeard ==
    ASSUME ProtocolInv, Receiving, ~ disturbed, R!Auth0Fast(reply.cryptogram)
    PROVE  Mutual'
  <1>1. InTransaction /\ flight = "response" /\ rAwaited = "AUTH0" /\ Receipt
    BY Heard DEF Receiving, Receives, Receipt, R!Auth0Fast, R!Answered
  <1>2. /\ rAwaited' = "none" /\ rReporting' = FALSE /\ ~ rRaised' /\ rSent' = R!Silent
        /\ UNCHANGED <<rOptions, rLink, rAlive, rEph, rUsed, rLast>>
        /\ rExpedited' = R!NewEngine(rEph, "fast")
    BY DEF R!Auth0Fast, R!Returns, R!Ends
  <1>3. PICK i \in R!Cryptogram(reply.cryptogram) : TRUE
    BY DEF R!Auth0Fast
  <1>4. rCache[i].key = reply.cryptogram /\ i \in DOMAIN rCache
    <2>1. rCache \in Seq(R!Entries)
      BY DEF ProtocolInv, TypeOK, R!TypeOK
    <2>2. QED
      BY <1>3, <2>1 DEF R!Cryptogram
  <1>5. reply.cryptogram = rLast[Credential] /\ reply.cryptogram # 0
    BY <1>4, CacheIsLast
  <1>6. /\ stage = "granted" /\ dState = "AUTH0_FAST_DONE" /\ reply.cryptogram = Shared
        /\ Apart(R!NewEngine(rEph, "fast"), dExpedited, "fast") /\ pair[dEph] = rEph
    BY <1>1, <1>5 DEF ProtocolInv, Authenticating, Halfway
  <1>7. rAlive => rLink = "up" /\ dPc = "serving"
    BY <1>1 DEF ProtocolInv, CallOK, FlightOK, InTransaction
  <1>8. KeysOK'
    BY <1>1, <1>2, <1>5, <1>6 DEF ProtocolInv, KeysOK, Shared, Receipt, devices
  <1>9. InStep'
    BY <1>1, <1>2, <1>6 DEF InStep, Apart, R!Secured, R!NewEngine, Receipt, devices
  <1>10. Between'
    BY <1>1, <1>2, <1>6, <1>9 DEF Between, Receipt, devices, R!NewEngine
  <1>11. QED
    BY <1>1, <1>2, <1>7, <1>8, <1>10, ReturnKeeps

\* The device's signature is accepted: its Kpersistent is the Reader's.
LEMMA Auth1Heard ==
    ASSUME ProtocolInv, Receiving, ~ disturbed, R!Auth1Accepted(Credential)
    PROVE  Mutual'
  <1>1. InTransaction /\ flight = "response" /\ rAwaited = "AUTH1" /\ Receipt
    BY Heard DEF Receiving, Receives, Receipt, R!Auth1Accepted, R!Answered
  <1>2. /\ rAwaited' = "none" /\ rReporting' = FALSE /\ ~ rRaised' /\ rSent' = R!Silent
        /\ UNCHANGED <<rOptions, rLink, rAlive, rEph, rStepup, rUsed>>
        /\ rExpedited' = R!ExpeditedAfter /\ rLast' = [rLast EXCEPT ![Credential] = rEph]
    BY DEF R!Auth1Accepted, R!Returns, R!Ends
  <1>3. Readable /\ InStep /\ R!Secured /\ R!Using = "expedited"
    BY <1>1, AnswerReadable DEF R!Using
  <1>4. /\ rExpedited = R!NewEngine(rEph, "standard") /\ rExpedited.kind = "standard"
        /\ rExpedited.eph = rEph
    BY <1>1 DEF ProtocolInv, R!ReaderInv, R!EnginesOK, R!NewEngine
  <1>5. /\ stage = "granted" /\ dState = "AUTH1_DONE"
        /\ reply.nonce[1] = dKpersistent[Identifier]
    BY <1>1 DEF ProtocolInv, Authenticating
  <1>6. Shared = rEph
    BY <1>3, <1>4, <1>5 DEF Readable, Shared
  <1>7. rLast'[Credential] = rEph
    BY <1>2, Numbers
  <1>8. rAlive => rLink = "up" /\ dPc = "serving"
    BY <1>1 DEF ProtocolInv, CallOK, FlightOK, InTransaction
  <1>9. KeysOK'
    <2>1. rEph # 0
      BY <1>1 DEF ProtocolInv, R!ReaderInv, R!EnginesOK, R!Handshaking
    <2>2. Shared' = rEph
      BY <1>1, <1>6 DEF Shared, Receipt, devices
    <2>3. QED
      BY <1>1, <1>2, <1>7, <2>1, <2>2, Numbers DEF ProtocolInv, KeysOK, Receipt, devices
  <1>10. /\ rExpedited'.eph = rExpedited.eph /\ rExpedited'.kind = "standard"
         /\ rExpedited'.enc = rExpedited.enc /\ rExpedited'.dec = rExpedited.dec + 1
    BY <1>2, <1>3, <1>4 DEF R!ExpeditedAfter, R!Decrypted, R!NewEngine
  <1>11. InStep'
    BY <1>1, <1>2, <1>3, <1>4, <1>10 DEF InStep, Apart, R!Secured, Receipt, devices
  <1>12. Between'
    BY <1>1, <1>2, <1>5, <1>10, <1>11 DEF Between, Receipt, devices
  <1>13. QED
    BY <1>1, <1>2, <1>8, <1>9, <1>12, ReturnKeeps

\* The Reader's engine, once it has decrypted, is in step again.
LEMMA DecryptedInStep ==
    ASSUME ProtocolInv, InTransaction, flight = "response", rAwaited \in {"EXCHANGE", "ENVELOPE"},
           Receipt, rAwaited' = "none", rEph' = rEph,
           rExpedited' = R!ExpeditedAfter, rStepup' = R!StepupAfter
    PROVE  InStep' /\ rExpedited'.kind = rExpedited.kind
  <1>1. /\ InStep /\ R!Secured /\ R!Using \in {"expedited", "stepup"}
        /\ R!Using = "stepup" => rExpedited.kind = "standard"
    BY AnswerReadable
  <1>2. rExpedited \in R!Engines /\ rStepup \in R!Engines
    BY DEF ProtocolInv, TypeOK, R!TypeOK
  <1>3. ASSUME NEW g \in R!Engines
        PROVE  /\ R!Decrypted(g).eph = g.eph /\ R!Decrypted(g).kind = g.kind
               /\ R!Decrypted(g).enc = g.enc /\ R!Decrypted(g).dec = g.dec + 1
    BY DEF R!Decrypted, R!Engines
  <1>4. ~ R!Secured'
    BY DEF R!Secured
  <1>5. CASE R!Using = "expedited"
    <2>1. /\ rStepup' = rStepup
          /\ rExpedited'.eph = rExpedited.eph /\ rExpedited'.kind = rExpedited.kind
          /\ rExpedited'.enc = rExpedited.enc /\ rExpedited'.dec = rExpedited.dec + 1
      BY <1>2, <1>3, <1>5 DEF R!ExpeditedAfter, R!StepupAfter
    <2>2. QED
      BY <1>1, <1>4, <1>5, <2>1 DEF InStep, Apart, Receipt, devices
  <1>6. CASE R!Using = "stepup"
    <2>1. /\ rExpedited' = rExpedited
          /\ rStepup'.eph = rStepup.eph /\ rStepup'.kind = rStepup.kind
          /\ rStepup'.enc = rStepup.enc /\ rStepup'.dec = rStepup.dec + 1
      BY <1>2, <1>3, <1>6 DEF R!ExpeditedAfter, R!StepupAfter
    <2>2. QED
      BY <1>1, <1>4, <1>6, <2>1 DEF InStep, Apart, Receipt, devices
  <1>7. QED
    BY <1>1, <1>5, <1>6

\* EXCHANGE has come back.
LEMMA ExchangeHeard ==
    ASSUME ProtocolInv, Receiving, ~ disturbed, R!ExchangeAnswered
    PROVE  Mutual'
  <1>1. InTransaction /\ flight = "response" /\ rAwaited = "EXCHANGE" /\ Receipt
    BY Heard DEF Receiving, Receives, Receipt, R!ExchangeAnswered, R!Answered
  <1>2. ~ rReporting /\ R!Using \in {"expedited", "stepup"}
    BY <1>1, AnswerReadable
  <1>3. /\ rAwaited' = "none" /\ rReporting' = FALSE /\ ~ rRaised' /\ rSent' = R!Silent
        /\ UNCHANGED <<rOptions, rLink, rAlive, rEph, rGranted, rUsed, rLast>>
        /\ rExpedited' = R!ExpeditedAfter /\ rStepup' = R!StepupAfter
    BY <1>2 DEF R!ExchangeAnswered, R!Returns, R!Ends, R!Session
  <1>4. InStep' /\ rExpedited'.kind = rExpedited.kind
    BY <1>1, <1>3, DecryptedInStep
  <1>5. rAlive => rLink = "up" /\ dPc = "serving"
    BY <1>1 DEF ProtocolInv, CallOK, FlightOK, InTransaction
  <1>6. KeysOK'
    BY <1>1, <1>3 DEF ProtocolInv, KeysOK, Shared, Receipt, devices
  <1>7. Between'
    BY <1>1, <1>2, <1>3, <1>4 DEF ProtocolInv, Exchanging, Between, InTransaction, Receipt, devices
  <1>8. QED
    BY <1>1, <1>3, <1>5, <1>6, <1>7, ReturnKeeps

\* A document has come back.
LEMMA EnvelopeHeard ==
    ASSUME ProtocolInv, Receiving, ~ disturbed, R!EnvelopeAnswered
    PROVE  Mutual'
  <1>1. InTransaction /\ flight = "response" /\ rAwaited = "ENVELOPE" /\ Receipt
    BY Heard DEF Receiving, Receives, Receipt, R!EnvelopeAnswered, R!Answered
  <1>2. R!Using = "stepup"
    BY <1>1 DEF ProtocolInv, Exchanging
  <1>3. /\ rAwaited' = "none" /\ rReporting' = FALSE /\ ~ rRaised' /\ rSent' = R!Silent
        /\ UNCHANGED <<rOptions, rLink, rAlive, rEph, rGranted, rUsed, rLast>>
        /\ rExpedited' = R!ExpeditedAfter /\ rStepup' = R!StepupAfter
    BY <1>2 DEF R!EnvelopeAnswered, R!Returns, R!Ends, R!Session, R!history, R!ExpeditedAfter
  <1>4. InStep' /\ rExpedited'.kind = rExpedited.kind
    BY <1>1, <1>3, DecryptedInStep
  <1>5. rAlive => rLink = "up" /\ dPc = "serving"
    BY <1>1 DEF ProtocolInv, CallOK, FlightOK, InTransaction
  <1>6. KeysOK'
    BY <1>1, <1>3 DEF ProtocolInv, KeysOK, Shared, Receipt, devices
  <1>7. Between'
    BY <1>1, <1>3, <1>4 DEF ProtocolInv, Exchanging, Between, InTransaction, Receipt, devices
  <1>8. QED
    BY <1>1, <1>3, <1>5, <1>6, <1>7, ReturnKeeps

\* CONTROL FLOW has come back, which ends the Reader's session.
LEMMA ControlFlowHeard ==
    ASSUME ProtocolInv, Receiving, ~ disturbed, R!ControlFlowAnswered
    PROVE  Mutual'
  <1>1. InTransaction /\ flight = "response" /\ rAwaited = "CONTROL_FLOW" /\ Receipt
    BY Heard DEF Receiving, Receives, Receipt, R!ControlFlowAnswered, R!Answered
  <1>2. rReporting => rOptions.handling = "ABORT"
    BY <1>1 DEF ProtocolInv, FlightOK
  <1>3. /\ rAwaited' = "none" /\ rReporting' = FALSE /\ rSent' = R!Silent
        /\ UNCHANGED <<rOptions, rUsed, rLast>>
        /\ rEph' = 0 /\ rGranted' = FALSE /\ rAlive' = FALSE
        /\ rRaised' => rOptions.handling = "ABORT"
    BY <1>2 DEF R!ControlFlowAnswered, R!Terminated, R!Returns, R!Ends, R!EndSession,
                R!NewSession, R!history
  <1>4. KeysOK'
    BY <1>1, <1>3 DEF ProtocolInv, KeysOK, Shared, Receipt, devices
  <1>5. Between'
    BY <1>1, <1>3 DEF Between, InTransaction, Receipt
  <1>6. QED
    BY <1>1, <1>3, <1>4, <1>5, ReturnKeeps

\* In a transaction that went wrong the Reader hears an error, or the end; it
\* reports the failure with CONTROL FLOW, if it has not yet.
LEMMA FailureHeard ==
    ASSUME ProtocolInv, Receiving, disturbed
    PROVE  Mutual'
  <1>1. Receipt /\ flight = "response" /\ ResponseHandler
    BY DEF Receiving, Receives, Receipt
  <1>2. rAwaited # "none"
    BY <1>1 DEF ResponseHandler, R!SelectAnswered, R!Auth0Standard, R!Auth0Fast,
          R!CryptogramUnknown, R!LoadCertAnswered, R!ControlFlowAnswered, R!ResponseStatus,
          R!Auth1Accepted, R!ExchangeAnswered, R!EnvelopeAnswered, R!ResponseUnverifiable,
          R!Answered, R!Commands
  <1>3. rAwaited = "CONTROL_FLOW" \/ (rAwaited = "SELECT" /\ reply.type = "error")
    BY <1>1, <1>2 DEF ProtocolInv, CallOK
  <1>4. R!ControlFlowAnswered \/ R!ResponseStatus
    BY <1>1, <1>3 DEF ResponseHandler, R!SelectAnswered, R!Auth0Standard, R!Auth0Fast,
          R!CryptogramUnknown, R!LoadCertAnswered, R!Auth1Accepted, R!ExchangeAnswered,
          R!EnvelopeAnswered, R!ResponseUnverifiable, R!Answered
  <1>5. /\ UNCHANGED <<rOptions, rUsed, rLast>> /\ rEph' \in {0, rEph}
        /\ rGranted' \in {FALSE, rGranted}
        /\ \/ rAwaited' = "none" /\ rSent' = R!Silent /\ (rRaised' \/ ~ rAlive')
           \/ /\ rAwaited' = "CONTROL_FLOW" /\ rSent' = R!Plain("CONTROL_FLOW")
              /\ UNCHANGED <<rRaised, rLink, rAlive>>
    <2>1. CASE R!ControlFlowAnswered
      BY <2>1 DEF R!ControlFlowAnswered, R!EndSession, R!NewSession, R!Returns, R!Ends,
                  R!Terminated, R!history
    <2>2. CASE R!ResponseStatus
      <3>1. R!FailureProcess("STATUS_WORD", rExpedited, rStepup, rCredential)
            /\ UNCHANGED <<rOptions, rUsed, rLast>>
        BY <1>3, <2>2 DEF R!ResponseStatus
      <3>2. rOptions.mode = "READER" /\ rOptions.transport = "NFC"
        BY DEF ProtocolInv, CallOK, ReaderOptions
      <3>3. QED
        BY <3>1, <3>2 DEF R!FailureProcess, R!SecureReport, R!Session, R!Raises, R!Ends
    <2>3. QED
      BY <1>4, <2>1, <2>2
  <1>6. ~ InTransaction' /\ disturbed'
    BY <1>1 DEF Receipt, InTransaction
  <1>7. DeviceReady'
    BY <1>1 DEF Receipt, ProtocolInv, DeviceReady, devices
  <1>8. KeysOK'
    <2>1. Shared' = Shared /\ UNCHANGED <<pair, dEph, dUsed>>
      BY <1>1 DEF Receipt, Shared, devices
    <2>2. rGranted' => rLast[Credential] = Shared /\ Shared # 0
      BY <1>5 DEF ProtocolInv, KeysOK
    <2>3. QED
      BY <1>5, <2>1, <2>2 DEF ProtocolInv, KeysOK
  <1>9. CallOK'
    <2>1. CASE rAwaited' = "none" /\ rSent' = R!Silent /\ (rRaised' \/ ~ rAlive')
      <3>1. stage' = "none" /\ rSent'.type \notin R!Commands
        BY <1>1, <2>1 DEF Receipt, R!Silent, R!Plain, R!Commands
      <3>2. QED
        BY <1>5, <1>6, <2>1, <3>1 DEF ProtocolInv, CallOK, NoSpuriousFailure
    <2>2. CASE /\ rAwaited' = "CONTROL_FLOW" /\ rSent' = R!Plain("CONTROL_FLOW")
               /\ UNCHANGED <<rRaised, rLink, rAlive>>
      <3>1. stage # "none" /\ stage' = stage /\ rSent'.type = "CONTROL_FLOW"
        BY <1>1, <1>2, <2>2 DEF Receipt, R!Plain, ProtocolInv, CallOK
      <3>2. QED
        BY <1>5, <1>6, <2>2, <3>1 DEF ProtocolInv, CallOK, NoSpuriousFailure
    <2>3. QED
      BY <1>5, <2>1, <2>2
  <1>10. QED
    BY <1>6, <1>7, <1>8, <1>9, Outside

\* Whatever the Reader hears keeps the protocol.
LEMMA ReceivingKeeps ==
    ASSUME ProtocolInv, Receiving
    PROVE  Mutual'
  BY FailureHeard, Heard, SelectHeard, Auth0Heard, CryptogramHeard, UnknownHeard, LoadCertHeard, Auth1Heard,
     ExchangeHeard, EnvelopeHeard, ControlFlowHeard

-----------------------------------------------------------------------------
(* The Reader's application.                                                *)

\* Between the calls of a transaction both sides are ready for the next one.
LEMMA Ready ==
    ASSUME ProtocolInv, stage # "none", R!Idle
    PROVE  /\ InTransaction /\ rAwaited = "none" /\ flight = "none" /\ dPc = "serving"
           /\ ~ rReporting /\ ~ rRaised /\ rAlive /\ rLink = "up" /\ ~ R!Secured
  <1>1. rAwaited = "none"
    BY DEF ProtocolInv, R!ReaderInv, R!ControlOK
  <1>2. InTransaction /\ ~ rRaised /\ rAlive /\ rLink = "up"
    BY <1>1 DEF ProtocolInv, CallOK, InTransaction
  <1>3. QED
    BY <1>1, <1>2 DEF ProtocolInv, FlightOK, R!Secured

\* What a call that sends a command does to the field.
Call(command, next) ==
    /\ rAwaited' = command /\ command \in R!Commands /\ rSent'.type = command
    /\ flight' = "command" /\ stage' = next /\ next # "none" /\ ~ rRaised'
    /\ s2' = "NONE"
    /\ UNCHANGED <<rReporting, rOptions, rLink, rAlive, devices, reply, pair, disturbed>>

\* A call keeps what does not depend on the command.
LEMMA CallKeeps ==
    ASSUME ProtocolInv, stage # "none", R!Idle, NEW command, NEW next, Call(command, next)
    PROVE  DeviceReady' /\ CallOK' /\ FlightOK' /\ Between'
  <1> USE Ready DEF Call, devices, InTransaction
  <1>1. DeviceReady'
    BY DEF ProtocolInv, DeviceReady
  <1>2. CallOK'
    BY DEF ProtocolInv, CallOK, NoSpuriousFailure, R!Commands
  <1>3. FlightOK'
    BY DEF FlightOK, DeviceFailing, R!Commands
  <1>4. Between'
    BY DEF Between, R!Commands
  <1>5. QED
    BY <1>1, <1>2, <1>3, <1>4

\* An encrypted command finds the device's engine one behind the Reader's.
LEMMA CallEnciphers ==
    ASSUME ProtocolInv, stage # "none", R!Idle, NEW command \in {"EXCHANGE", "ENVELOPE"}, NEW next,
           Call(command, next), InStep, rEph' = rEph,
           \/ /\ rCall'.engine = "expedited" /\ rExpedited' = R!Encrypted(rExpedited)
              /\ rStepup' = rStepup /\ rSent' = R!Secure(command, rExpedited)
           \/ /\ rCall'.engine = "stepup" /\ rExpedited.kind = "standard"
              /\ rExpedited' = rExpedited /\ rStepup' = R!Encrypted(rStepup)
              /\ rSent' = R!Secure(command, rStepup)
    PROVE  InStep' /\ Sealed' /\ R!Using' = rCall'.engine /\ rExpedited'.kind = rExpedited.kind
  <1>1. R!Secured' /\ R!Using' = rCall'.engine /\ ~ R!Secured
    BY Ready DEF Call, R!Secured, R!Using
  <1>2. rExpedited \in R!Engines /\ rStepup \in R!Engines
    BY DEF ProtocolInv, TypeOK, R!TypeOK
  <1>3. ASSUME NEW g \in R!Engines
        PROVE  /\ R!Encrypted(g).eph = g.eph /\ R!Encrypted(g).kind = g.kind
               /\ R!Encrypted(g).enc = g.enc + 1 /\ R!Encrypted(g).dec = g.dec
               /\ R!Secure(command, g).nonce = <<g.eph, g.kind, g.enc>>
    BY DEF R!Encrypted, R!Engines, R!Secure, R!Nonce
  <1>4. CASE /\ rCall'.engine = "expedited" /\ rExpedited' = R!Encrypted(rExpedited)
             /\ rStepup' = rStepup /\ rSent' = R!Secure(command, rExpedited)
    <2>1. /\ rExpedited'.eph = rExpedited.eph /\ rExpedited'.kind = rExpedited.kind
          /\ rExpedited'.enc = rExpedited.enc + 1 /\ rExpedited'.dec = rExpedited.dec
          /\ rSent'.nonce = <<rExpedited.eph, rExpedited.kind, rExpedited.enc>>
      BY <1>2, <1>3, <1>4
    <2>2. InStep'
      BY <1>1, <1>4, <2>1 DEF InStep, Apart, Call, devices
    <2>3. Sealed'
      BY <1>1, <1>4, <2>1 DEF Sealed, InStep, Apart, Call, devices
    <2>4. QED
      BY <1>1, <2>1, <2>2, <2>3
  <1>5. CASE /\ rCall'.engine = "stepup" /\ rExpedited.kind = "standard"
             /\ rExpedited' = rExpedited /\ rStepup' = R!Encrypted(rStepup)
             /\ rSent' = R!Secure(command, rStepup)
    <2>1. /\ rStepup'.eph = rStepup.eph /\ rStepup'.kind = rStepup.kind
          /\ rStepup'.enc = rStepup.enc + 1 /\ rStepup'.dec = rStepup.dec
          /\ rSent'.nonce = <<rStepup.eph, rStepup.kind, rStepup.enc>>
      BY <1>2, <1>3, <1>5
    <2>2. InStep'
      BY <1>1, <1>5, <2>1 DEF InStep, Apart, Call, devices
    <2>3. Sealed'
      BY <1>1, <1>5, <2>1 DEF Sealed, InStep, Apart, Call, devices
    <2>4. QED
      BY <1>1, <1>5, <2>2, <2>3
  <1>6. QED
    BY <1>4, <1>5

\* A transaction begins: SELECT finds the device wherever it was left.
LEMMA InitiatesKeeps ==
    ASSUME ProtocolInv, Initiates
    PROVE  Mutual'
  <1>1. /\ stage = "none" /\ R!TransactionInitiation /\ UNCHANGED <<devices, reply, pair>>
        /\ stage' = IF rRaised' THEN "none" ELSE "selected"
        /\ flight' = IF rSent'.type \in R!Commands THEN "command" ELSE "none"
        /\ s2' = "NONE" /\ disturbed' = (rLink' = "down" \/ DeviceFailing)
    BY DEF Initiates, Calls
  <1>2. rAwaited = "none" /\ ~ rReporting /\ rOptions \in ReaderOptions
    BY <1>1 DEF ProtocolInv, CallOK, R!ReaderInv, R!ControlOK
  <1>3. UNCHANGED <<rOptions, rUsed, rLast>>
    BY <1>1 DEF R!TransactionInitiation
  <1>4. DeviceReady'
    BY <1>1 DEF ProtocolInv, DeviceReady, devices
  <1>5. CASE /\ rLink' = "up" /\ R!NewSession(TRUE)
             /\ R!Begins(R!Call("initiation"), "SELECT") /\ rSent' = R!Plain("SELECT")
    <2>1. /\ rAwaited' = "SELECT" /\ ~ rReporting' /\ rRaised' = FALSE /\ rSent'.type = "SELECT"
          /\ rEph' = 0 /\ rGranted' = FALSE /\ rAlive' = TRUE /\ rExpedited' = R!NoEngine
      BY <1>2, <1>5 DEF R!Begins, R!NewSession, R!Plain
    <2>2. stage' = "selected" /\ flight' = "command" /\ disturbed' = DeviceFailing /\ DeviceFailing' = DeviceFailing
      BY <1>1, <1>5, <2>1 DEF R!Commands, DeviceFailing, devices
    <2>3. KeysOK'
      BY <1>1, <1>3, <2>1 DEF ProtocolInv, KeysOK, Shared, devices
    <2>4. CallOK'
      BY <1>1, <1>2, <1>3, <1>5, <2>1, <2>2 DEF CallOK, NoSpuriousFailure, devices
    <2>5. FlightOK'
      BY <1>1, <2>1, <2>2 DEF FlightOK, InTransaction, devices
    <2>6. Selecting' /\ Authenticating' /\ Exchanging' /\ Between'
      BY <2>1, <2>2 DEF Selecting, Authenticating, Halfway, Exchanging, Between
    <2>7. QED
      BY <1>4, <2>3, <2>4, <2>5, <2>6 DEF Mutual
  <1>6. CASE rLink' = "down" /\ R!Raises /\ rSent' = R!Silent /\ UNCHANGED <<rEph, rGranted>>
    <2>1. rAwaited' = "none" /\ rRaised' /\ rSent'.type \notin R!Commands
      BY <1>6 DEF R!Raises, R!Ends, R!Silent, R!Plain, R!Commands
    <2>2. stage' = "none" /\ disturbed'
      BY <1>1, <1>6, <2>1
    <2>3. KeysOK'
      BY <1>1, <1>3, <1>6 DEF ProtocolInv, KeysOK, Shared, devices
    <2>4. CallOK'
      BY <1>2, <1>3, <2>1, <2>2 DEF CallOK, NoSpuriousFailure
    <2>5. QED
      BY <1>4, <2>2, <2>3, <2>4
         DEF Mutual, FlightOK, Selecting, Authenticating, Exchanging, Between, InTransaction
  <1>7. QED
    BY <1>1, <1>2, <1>5, <1>6 DEF R!TransactionInitiation, ReaderOptions, R!session

\* An expedited transaction begins: both sides are without an engine.
LEMMA AuthenticatesKeeps ==
    ASSUME ProtocolInv, Authenticates, s2' = "NONE", UNCHANGED disturbed
    PROVE  Mutual'
  <1>1. stage = "selected" /\ R!Expedited /\ R!Idle
    BY DEF Authenticates, Calls, R!Expedited
  <1>2. rOptions.fast
    BY DEF ProtocolInv, CallOK, ReaderOptions
  <1>3. /\ rAwaited' = "AUTH0" /\ rRaised' = FALSE /\ rSent' = R!Plain("AUTH0")
        /\ rUsed' = rUsed + 1 /\ rEph' = rUsed + 1 /\ rGranted' = FALSE
        /\ UNCHANGED <<rReporting, rOptions, rLink, rAlive, rExpedited, rLast>>
    BY <1>1, <1>2 DEF R!Expedited, R!Begins, R!history
  <1>4. Call("AUTH0", "granted")
    BY <1>3 DEF Authenticates, Calls, Call, R!Plain, R!Commands
  <1>5. DeviceReady' /\ CallOK' /\ FlightOK' /\ Between'
    BY <1>1, <1>4, CallKeeps
  <1>6. KeysOK'
    BY <1>3, <1>4, Numbers DEF ProtocolInv, KeysOK, Shared, Call, devices
  <1>7. dState = "SELECT_DONE" /\ rExpedited = R!NoEngine
    BY <1>1, Ready DEF ProtocolInv, Between
  <1>8. Authenticating'
    BY <1>3, <1>4, <1>7 DEF Authenticating, Halfway, Call, devices
  <1>9. Selecting' /\ Exchanging'
    BY <1>3 DEF Selecting, Exchanging
  <1>10. QED
    BY <1>5, <1>6, <1>8, <1>9 DEF Mutual

\* EXCHANGE, in either phase.
LEMMA ExchangesKeeps ==
    ASSUME ProtocolInv, Exchanges, s2' = "NONE", UNCHANGED disturbed
    PROVE  Mutual'
  <1>1. PICK next \in {"granted", "exchanged", "done"} :
          /\ Calls(R!Exchange, next)
          /\ \/ stage = "granted" /\ next # "exchanged" /\ rCall'.engine = "expedited"
             \/ stage \in {"documents", "exchanged"} /\ next # "granted" /\ rCall'.engine = "stepup"
    BY DEF Exchanges
  <1>2. R!Exchange /\ R!Idle /\ stage # "none"
    BY <1>1 DEF Calls, R!Exchange
  <1>3. /\ rAwaited' = "EXCHANGE" /\ rRaised' = FALSE
        /\ UNCHANGED <<rReporting, rOptions, rLink, rAlive, rEph, rUsed, rGranted, rLast>>
        /\ \/ /\ rCall'.engine = "expedited" /\ rExpedited' = R!Encrypted(rExpedited)
              /\ rStepup' = rStepup /\ rSent' = R!Secure("EXCHANGE", rExpedited)
           \/ /\ rCall'.engine = "stepup"
              /\ rExpedited' = rExpedited /\ rStepup' = R!Encrypted(rStepup)
              /\ rSent' = R!Secure("EXCHANGE", rStepup)
    BY <1>2 DEF R!Exchange, R!Begins, R!Session, R!Call
  <1>4. rSent'.type = "EXCHANGE"
    BY <1>3 DEF R!Secure
  <1>5. Call("EXCHANGE", next)
    BY <1>1, <1>3, <1>4 DEF Calls, Call, R!Commands
  <1>6. DeviceReady' /\ CallOK' /\ FlightOK' /\ Between'
    BY <1>2, <1>5, CallKeeps
  <1>7. KeysOK'
    BY <1>3, <1>5 DEF ProtocolInv, KeysOK, Shared, Call, devices
  <1>8. /\ InStep
        /\ stage = "granted" => dState \in {"AUTH0_FAST_DONE", "AUTH1_DONE", "EXCHANGE_DONE"}
        /\ stage # "granted" => rExpedited.kind = "standard"
                                /\ dState \in {"ENVELOPE_DONE", "STEPUP_EXCHANGE_DONE"}
    BY <1>1, <1>2, Ready DEF ProtocolInv, Between
  <1>9. InStep' /\ Sealed' /\ R!Using' = rCall'.engine /\ rExpedited'.kind = rExpedited.kind
    BY <1>1, <1>2, <1>3, <1>5, <1>8, CallEnciphers
  <1>10. Exchanging'
    BY <1>1, <1>3, <1>5, <1>8, <1>9 DEF Exchanging, Call, devices
  <1>11. Selecting' /\ Authenticating'
    BY <1>3 DEF Selecting, Authenticating, Halfway
  <1>12. QED
    BY <1>6, <1>7, <1>10, <1>11 DEF Mutual

\* SELECT of the step-up AID finds the device behind AUTH1 of the same handshake.
LEMMA SelectsStepUpKeeps ==
    ASSUME ProtocolInv, stage = "granted", rExpedited.kind = "standard",
           Calls(R!Select, "stepup"), s2' = "NONE", UNCHANGED disturbed
    PROVE  Mutual'
  <1>1. R!Select /\ R!Idle
    BY DEF Calls, R!Select
  <1>2. /\ rAwaited' = "SELECT" /\ rRaised' = FALSE /\ rSent' = R!Plain("SELECT")
        /\ UNCHANGED <<rReporting, rOptions, rLink, rAlive, rEph, rUsed, rGranted, rLast,
                       rExpedited, rStepup>>
    BY <1>1 DEF R!Select, R!Begins, R!session, R!history
  <1>3. Call("SELECT", "stepup")
    BY <1>2 DEF Calls, Call, R!Plain, R!Commands
  <1>4. DeviceReady' /\ CallOK' /\ FlightOK' /\ Between'
    BY <1>1, <1>3, CallKeeps
  <1>5. KeysOK'
    BY <1>2, <1>3 DEF ProtocolInv, KeysOK, Shared, Call, devices
  <1>6. ~ R!Secured /\ InStep /\ dState \in {"AUTH1_DONE", "EXCHANGE_DONE"}
    BY <1>1, Ready DEF ProtocolInv, Between
  <1>7. InStep'
    BY <1>2, <1>3, <1>6 DEF InStep, Apart, R!Secured, Call, devices
  <1>8. Selecting'
    BY <1>2, <1>3, <1>6, <1>7 DEF Selecting, Call, devices
  <1>9. Authenticating' /\ Exchanging'
    BY <1>2 DEF Authenticating, Halfway, Exchanging
  <1>10. QED
    BY <1>4, <1>5, <1>8, <1>9 DEF Mutual

\* ENVELOPE finds it there too, or in the step-up phase.
LEMMA RequestsKeeps ==
    ASSUME ProtocolInv, stage \in {"granted", "stepup", "documents"},
           rExpedited.kind = "standard", Calls(R!Envelope, "documents"), s2' = "NONE",
           UNCHANGED disturbed
    PROVE  Mutual'
  <1>1. R!Envelope /\ R!Idle
    BY DEF Calls, R!Envelope
  <1>2. /\ rAwaited' = "ENVELOPE" /\ rRaised' = FALSE /\ rSent' = R!Secure("ENVELOPE", rStepup)
        /\ rCall'.engine = "stepup" /\ rExpedited' = rExpedited
        /\ rStepup' = R!Encrypted(rStepup)
        /\ UNCHANGED <<rReporting, rOptions, rLink, rAlive, rEph, rUsed, rGranted, rLast>>
    BY <1>1 DEF R!Envelope, R!Begins, R!Session, R!Call
  <1>3. rSent'.type = "ENVELOPE"
    BY <1>2 DEF R!Secure
  <1>4. Call("ENVELOPE", "documents")
    BY <1>2, <1>3 DEF Calls, Call, R!Commands
  <1>5. DeviceReady' /\ CallOK' /\ FlightOK' /\ Between'
    BY <1>1, <1>4, CallKeeps
  <1>6. KeysOK'
    BY <1>2, <1>4 DEF ProtocolInv, KeysOK, Shared, Call, devices
  <1>7. InStep /\ dState \in {"AUTH1_DONE", "EXCHANGE_DONE", "ENVELOPE_DONE", "SELECT_STEP_UP_DONE"}
    BY <1>1, Ready DEF ProtocolInv, Between
  <1>8. InStep' /\ Sealed' /\ R!Using' = "stepup"
    BY <1>1, <1>2, <1>4, <1>7, CallEnciphers
  <1>9. Exchanging'
    BY <1>2, <1>4, <1>7, <1>8 DEF Exchanging, Call, devices
  <1>10. Selecting' /\ Authenticating'
    BY <1>2 DEF Selecting, Authenticating, Halfway
  <1>11. QED
    BY <1>5, <1>6, <1>9, <1>10 DEF Mutual

\* The Reader leaves.
LEMMA FinishesKeeps ==
    ASSUME ProtocolInv, Finishes
    PROVE  Mutual'
  <1>1. /\ rAwaited' = "none" /\ rRaised' = FALSE /\ rEph' = 0 /\ rGranted' = FALSE
        /\ rSent' = R!Silent /\ UNCHANGED <<rOptions, rUsed, rLast>>
    BY DEF Finishes, Calls, R!TransactionTermination, R!Terminated, R!EndSession, R!NewSession,
           R!Ends, R!history
  <1>2. stage' = "none" /\ UNCHANGED <<devices, pair>> /\ rSent'.type \notin R!Commands
    BY <1>1 DEF Finishes, Calls, R!Silent, R!Plain, R!Commands
  <1>3. KeysOK'
    BY <1>1, <1>2 DEF ProtocolInv, KeysOK, Shared, devices
  <1>4. DeviceReady' /\ CallOK'
    BY <1>1, <1>2 DEF ProtocolInv, DeviceReady, CallOK, NoSpuriousFailure, devices
  <1>5. QED
    BY <1>2, <1>3, <1>4, Outside DEF InTransaction

\* Or it says so first; with an S2 that the device does not know this call fails.
LEMMA FinishesControlFlowKeeps ==
    ASSUME ProtocolInv, FinishesControlFlow
    PROVE  Mutual'
  <1>1. R!ControlFlow /\ R!Idle /\ stage = "granted" /\ Calls(R!ControlFlow, "finished")
    BY DEF FinishesControlFlow, Calls, R!ControlFlow
  <1>2. /\ rAwaited' = "CONTROL_FLOW" /\ rRaised' = FALSE /\ rSent' = R!Plain("CONTROL_FLOW")
        /\ UNCHANGED <<rReporting, rOptions, rLink, rAlive, rEph, rUsed, rGranted, rLast>>
    BY <1>1 DEF R!ControlFlow, R!Begins, R!session, R!history
  <1>3. /\ stage' = "finished" /\ rSent'.type = "CONTROL_FLOW" /\ flight' = "command"
        /\ UNCHANGED <<devices, reply, pair>>
    BY <1>1, <1>2 DEF Calls, R!Plain, R!Commands
  <1>4. KeysOK'
    BY <1>2, <1>3 DEF ProtocolInv, KeysOK, Shared, devices
  <1>5. CASE s2' = "NONE" /\ UNCHANGED disturbed
    <2>1. Call("CONTROL_FLOW", "finished")
      BY <1>2, <1>3, <1>5 DEF Call, R!Commands
    <2>2. DeviceReady' /\ CallOK' /\ FlightOK' /\ Between'
      BY <1>1, <2>1, CallKeeps
    <2>3. Selecting' /\ Authenticating' /\ Exchanging'
      BY <1>2 DEF Selecting, Authenticating, Halfway, Exchanging
    <2>4. QED
      BY <1>4, <2>2, <2>3 DEF Mutual
  <1>6. CASE s2' = "True" /\ disturbed' = TRUE
    <2>1. ~ InTransaction'
      BY <1>6 DEF InTransaction
    <2>2. DeviceReady'
      BY <1>3 DEF ProtocolInv, DeviceReady, devices
    <2>3. CallOK'
      BY <1>1, <1>2, <1>3, <1>6 DEF ProtocolInv, CallOK, NoSpuriousFailure
    <2>4. QED
      BY <1>4, <2>1, <2>2, <2>3, Outside
  <1>7. QED
    BY <1>5, <1>6 DEF FinishesControlFlow

\* Whatever the application calls keeps the protocol.
LEMMA ApplicationKeeps ==
    ASSUME ProtocolInv, Application
    PROVE  Mutual'
  BY InitiatesKeeps, AuthenticatesKeeps, ExchangesKeeps, SelectsStepUpKeeps, RequestsKeeps,
     FinishesKeeps, FinishesControlFlowKeeps DEF Application, StepsUp

\* The Reader is only left without an answer once the two have lost each other.
LEMMA LosingKeeps ==
    ASSUME ProtocolInv, NothingReceived \/ FieldLost
    PROVE  Mutual'
  <1>1. /\ R!ResponseLost /\ stage' = "none" /\ UNCHANGED <<devices, pair>>
        /\ disturbed' \in {disturbed, TRUE}
    BY DEF NothingReceived, FieldLost
  <1>2. /\ rAwaited # "none" /\ rAwaited' = "none" /\ rSent' = R!Silent
        /\ UNCHANGED <<rOptions, rEph, rUsed, rGranted, rLast>>
    BY <1>1 DEF R!ResponseLost, R!Raises, R!Ends, R!session, R!history
  <1>3. disturbed'
    <2>1. CASE NothingReceived
      <3>1. ~ InTransaction
        BY <2>1 DEF NothingReceived, ProtocolInv, FlightOK, DeviceFailing
      <3>2. stage # "none"
        BY <1>2 DEF ProtocolInv, CallOK
      <3>3. QED
        BY <2>1, <3>1, <3>2 DEF InTransaction, NothingReceived
    <2>2. CASE FieldLost
      BY <2>2 DEF FieldLost
    <2>3. QED
      BY <2>1, <2>2
  <1>4. rSent'.type \notin R!Commands
    BY <1>2 DEF R!Silent, R!Plain, R!Commands
  <1>5. KeysOK'
    BY <1>1, <1>2 DEF ProtocolInv, KeysOK, Shared, devices
  <1>6. DeviceReady' /\ CallOK'
    BY <1>1, <1>2, <1>3, <1>4 DEF ProtocolInv, DeviceReady, CallOK, NoSpuriousFailure, devices
  <1>7. QED
    BY <1>1, <1>5, <1>6
       DEF Mutual, FlightOK, Selecting, Authenticating, Exchanging, Between, InTransaction

-----------------------------------------------------------------------------
(* The invariant and the theorems.                                          *)

\* It holds before the first transaction.
LEMMA InitInv == Init => ProtocolInv
  <1> SUFFICES ASSUME Init PROVE ProtocolInv
    OBVIOUS
  <1> USE DEF Init
  <1>1. R!ReaderInv
    BY ReaderConstants, R!InitInv
  <1>2. D!DeviceInv
    BY DeviceConstants, D!InitInv
  <1>3. TypeOK
    <2>1. R!TypeOK /\ D!TypeOK
      BY <1>1, <1>2 DEF R!ReaderInv, D!DeviceInv
    <2>2. dOut \in D!Messages /\ dOut = D!Silent
      BY <2>1 DEF D!Init, D!TypeOK, D!ControlOK
    <2>3. reply \in [type : D!MessageTypes, nonce : D!Nonces, cryptogram : 0 .. MaxEphemeral]
      BY <2>2, AccessProtocolAssumption DEF NoReply, Reply, D!Messages
    <2>4. pair \in [0 .. MaxEphemeral -> 0 .. MaxEphemeral]
      <3>1. 0 \in 0 .. MaxEphemeral
        BY AccessProtocolAssumption
      <3>2. pair = [e \in 0 .. MaxEphemeral |-> 0]
        OBVIOUS
      <3>3. QED
        BY <3>1, <3>2
    <2>5. /\ flight \in {"none", "command", "response", "silence"}
          /\ s2 \in {"NONE", "True"} /\ disturbed \in BOOLEAN
          /\ stage \in {"none", "selected", "granted", "stepup", "documents", "exchanged",
                        "done", "finished"}
      OBVIOUS
    <2>6. QED
      BY <2>1, <2>3, <2>4, <2>5 DEF TypeOK
  <1>4. KeysOK
    <2>1. /\ rEph = 0 /\ rUsed = 0 /\ dEph = 0 /\ dUsed = 0 /\ rGranted = FALSE
          /\ dKpersistent[Identifier] = 0 /\ rLast[Credential] = 0
      BY DEF R!Init, D!Init
    <2>2. Shared = 0
      BY <2>1, AccessProtocolAssumption DEF Shared
    <2>3. QED
      BY <2>1, <2>2, AccessProtocolAssumption DEF KeysOK
  <1>5. DeviceReady
    BY DEF DeviceReady, D!Init
  <1>6. CallOK
    BY DEF CallOK, NoSpuriousFailure, R!Init, R!Silent, R!Plain, R!Commands
  <1>7. QED
    BY <1>1, <1>2, <1>3, <1>4, <1>5, <1>6
       DEF ProtocolInv, FlightOK, Selecting, Authenticating, Exchanging, Between, InTransaction

\* Every step of either side or of the field keeps it.
LEMMA NextInv == ProtocolInv /\ [Next]_vars => ProtocolInv'
  <1> SUFFICES ASSUME ProtocolInv, [Next]_vars PROVE ProtocolInv'
    OBVIOUS
  <1>1. TypeOK' /\ R!ReaderInv' /\ D!DeviceInv'
    BY TypesKept DEF ProtocolInv
  <1>2. Mutual'
    <2>1. CASE Next
      BY <2>1, ApplicationKeeps, AnsweringKeeps, FailingGoesOn, GoingOnKeeps, ReceivingKeeps, LosingKeeps DEF Next
    <2>2. CASE UNCHANGED vars
      BY <2>2 DEF vars, readers, devices, ProtocolInv, Mutual, KeysOK, Shared, DeviceReady, CallOK,
         NoSpuriousFailure, DeviceFailing, FlightOK, Selecting, Authenticating, Halfway, Exchanging, Between,
         InTransaction, InStep, Apart, Sealed, R!Secured, R!Using
    <2>3. QED
      BY <2>1, <2>2
  <1>3. QED
    BY <1>1, <1>2 DEF ProtocolInv, Mutual

\* Both sides, the field between them and what the application is in stay together
\* as ProtocolInv says, whoever moves and whenever the field is lost.
THEOREM ProtocolInvariant == Spec => []ProtocolInv
  BY InitInv, NextInv, PTL DEF Spec

\* Every variable of either side and of the field has its type.
THEOREM TypeCorrect == Spec => []TypeOK
  <1>1. ProtocolInv => TypeOK
    BY DEF ProtocolInv
  <1>2. QED
    BY <1>1, ProtocolInvariant, PTL

\* No call of the Reader fails while the field lasts, whatever earlier transactions
\* left behind on either side: unless the device's program had ended or was failing
\* when the transaction began, or the application's own S2 makes the device refuse.
THEOREM NoFailure == Spec => []NoSpuriousFailure
  <1>1. ProtocolInv => NoSpuriousFailure
    BY DEF ProtocolInv, CallOK
  <1>2. QED
    BY <1>1, ProtocolInvariant, PTL

\* Between calls the encryption engines of both sides are of the same handshake and
\* their counters fit.
THEOREM EnginesFit == Spec => []EnginesInStep
  <1>1. ProtocolInv => EnginesInStep
    <2> SUFFICES ASSUME ProtocolInv, R!Idle,
                        stage \in {"granted", "stepup", "documents", "exchanged"}
                 PROVE  /\ pair[dEph] = rEph /\ Fits(rExpedited, dExpedited)
                        /\ rExpedited.kind = "standard" => Fits(rStepup, dStepup)
      BY DEF EnginesInStep
    <2>1. InStep /\ ~ R!Secured
      BY Ready DEF ProtocolInv, Between
    <2>2. QED
      BY <2>1 DEF InStep, Apart, Fits
  <1>2. QED
    BY <1>1, ProtocolInvariant, PTL

\* The Kpersistent the Reader has cached is the device's, or one the device has
\* replaced since without the Reader hearing of it.
THEOREM KpersistentShared == Spec => []KpersistentAgrees
  <1>1. ProtocolInv => KpersistentAgrees
    <2> SUFFICES ASSUME ProtocolInv PROVE KpersistentAgrees
      OBVIOUS
    <2>1. \A i \in DOMAIN rCache : rCache[i].key <= Shared
      BY CacheIsLast DEF ProtocolInv, KeysOK
    <2>2. ASSUME rGranted
          PROVE  \E i \in DOMAIN rCache : rCache[i].key = Shared
      <3>1. rLast[Credential] = Shared /\ rLast[Credential] # 0 /\ rOptions.fast
        BY <2>2 DEF ProtocolInv, KeysOK, CallOK, ReaderOptions
      <3>2. rCache \in Seq(R!Entries)
        BY DEF ProtocolInv, TypeOK, R!TypeOK
      <3>3. R!Positions(Credential) # {} \/ Len(rCache) = 1
        BY <3>1 DEF ProtocolInv, R!ReaderInv, R!CacheOK, R!CacheHoldsMostRecent
      <3>4. PICK i \in 1 .. Len(rCache) : TRUE
        BY <3>2, <3>3 DEF R!Positions
      <3>5. i \in DOMAIN rCache
        BY <3>2, <3>4
      <3>6. QED
        BY <3>1, <3>5, CacheIsLast
    <2>3. QED
      BY <2>1, <2>2 DEF KpersistentAgrees
  <1>2. QED
    BY <1>1, ProtocolInvariant, PTL

\* The whole implements either side alone: what is proved of the Reader with any
\* User Device, and of the User Device with any Reader, holds of the two together.
THEOREM ImplementsSides == Spec => R!Spec /\ D!Spec
  <1>1. Init => R!Init /\ D!Init
    BY DEF Init
  <1>2. ProtocolInv /\ [Next]_vars => [R!Next]_(R!vars)
    <2>1. ProtocolInv => reply.cryptogram \in 0 .. MaxEphemeral
      BY DEF ProtocolInv, TypeOK
    <2>2. QED
      BY <2>1, ReaderSteps
  <1>3. [Next]_vars => [D!Next]_(D!vars)
    BY DeviceSteps
  <1>4. QED
    BY <1>1, <1>2, <1>3, ProtocolInvariant, PTL DEF Spec, R!Spec, D!Spec
=============================================================================
