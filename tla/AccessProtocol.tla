---------------------------- MODULE AccessProtocol ----------------------------
(***************************************************************************)
(* A Reader and a User Device over NFC, as the programs under examples/nfc   *)
(* run them: Reader and UserDevice, each an instance with variables of its   *)
(* own, joined by the field.  Its content is the Reader's last command       *)
(* (rSent) or the device's last response (reply); flight says which of them  *)
(* is on its way.                                                            *)
(*                                                                           *)
(* Both sides follow the protocol, so what each of them does with a message  *)
(* is decided by the message and not chosen: the restrictions below pick,    *)
(* among the steps the two modules allow, the one that fits.  What may go    *)
(* wrong is that they lose each other at any moment, and that the application *)
(* ends with a CONTROL FLOW the device does not know.                        *)
(*                                                                           *)
(* The instances are of the modules with the theorems about each side, which *)
(* AccessProtocolProofs uses.                                                *)
(***************************************************************************)
EXTENDS Naturals, Sequences

CONSTANTS
    Credential,     \* the device's access credential, known to the Reader
    NoCredential,
    Identifier,     \* the Reader's group identifier, listed by the credential
    NoReader,
    Handlings,      \* values of fast_transaction_handling to consider
    MaxEphemeral,   \* bound of the model on ephemeral keys of either side
    MaxCounter      \* bound of the model on counters

ASSUME AccessProtocolAssumption ==
    /\ NoCredential # Credential /\ NoReader # Identifier
    /\ Handlings \subseteq {"CONTINUE", "ABORT"}
    /\ MaxEphemeral \in Nat /\ MaxCounter \in Nat \ {0}

VARIABLES
    rOptions, rCall, rAwaited, rReporting, rRaised, rLink, rAlive, rEph,
    rExpedited, rStepup, rCredential, rGranted, rStarted, rUsed, rCache,
    rSent, rLast, rProof, rNonces, rTold,
    dPc, dExc, dLink, dResume, dState, dEph, dReader, dCert, dExpedited,
    dStepup, dUrsk, dUsed, dKpersistent, dAtomic, dOut, dVerified, dNonces,
    flight,     \* "none", "command", "response", or "silence": none will come
    reply,      \* the device's last response and the Kpersistent it is made with
    stage,      \* how far the Reader's application is in its transaction
    pair,       \* history: the Reader's handshake a device's handshake belongs to
    s2,         \* S2 of the CONTROL FLOW in the field: "NONE" or "True"
    disturbed   \* history: the field was lost since the transaction began, the
                \* device's program had ended before or was still failing, or
                \* the application passed an S2 that the enum does not have

ReaderOptions ==
    [transport : {"NFC"}, mode : {"READER"}, handling : Handlings,
     fast : {TRUE}, cert : {TRUE}, timer : {FALSE}]

R == INSTANCE ReaderProofs WITH
        Credentials <- {Credential}, Registered <- {Credential},
        Configurations <- ReaderOptions, CacheLimit <- 1,
        options <- rOptions, call <- rCall, awaited <- rAwaited,
        reporting <- rReporting, raised <- rRaised, link <- rLink, alive <- rAlive,
        eph <- rEph, expedited <- rExpedited, stepup <- rStepup,
        credential <- rCredential, granted <- rGranted, started <- rStarted,
        used <- rUsed, cache <- rCache, sent <- rSent, last <- rLast,
        proof <- rProof, nonces <- rNonces, told <- rTold

D == INSTANCE UserDeviceProofs WITH
        Readers <- {Identifier}, Known <- {Identifier}, Transport <- "NFC",
        Loop <- "main", TerminateAtEnd <- TRUE, TestMode <- FALSE,
        FastImplemented <- TRUE, HasMailbox <- FALSE, MaxCounter <- MaxCounter + 3,
        CounterLimit <- MaxCounter + 3,
        pc <- dPc, exc <- dExc, link <- dLink, resume <- dResume, state <- dState,
        eph <- dEph, reader <- dReader, cert <- dCert, expedited <- dExpedited,
        stepup <- dStepup, ursk <- dUrsk, used <- dUsed,
        kpersistent <- dKpersistent, atomic <- dAtomic, out <- dOut,
        verified <- dVerified, nonces <- dNonces

readers == <<rOptions, rCall, rAwaited, rReporting, rRaised, rLink, rAlive, rEph,
             rExpedited, rStepup, rCredential, rGranted, rStarted, rUsed, rCache,
             rSent, rLast, rProof, rNonces, rTold>>
devices == <<dPc, dExc, dLink, dResume, dState, dEph, dReader, dCert, dExpedited,
             dStepup, dUrsk, dUsed, dKpersistent, dAtomic, dOut, dVerified, dNonces>>
vars == <<readers, devices, flight, reply, stage, pair, s2, disturbed>>

\* A response, its nonce, and the handshake whose Kpersistent made its
\* cryptogram; 0 for none, or for the random one of a device without Kpersistent.
Reply(message, cryptogram) ==
    [type |-> message.type, nonce |-> message.nonce, cryptogram |-> cryptogram]
NoReply == Reply(D!Silent, 0)

Init ==
    /\ R!Init /\ D!Init
    /\ flight = "none" /\ stage = "none" /\ s2 = "NONE" /\ disturbed = FALSE
    /\ pair = [e \in 0 .. MaxEphemeral |-> 0] /\ reply = NoReply

-----------------------------------------------------------------------------
(* The Reader's application: the sequences of examples/nfc/reader.          *)

\* A call from one stage to another; an exception ends the transaction, and
\* what the call sends is in the field.
Calls(action, next) ==
    /\ action
    /\ stage' = IF rRaised' THEN "none" ELSE next
    /\ flight' = IF rSent'.type \in R!Commands THEN "command" ELSE "none"
    /\ UNCHANGED <<devices, reply, pair>>

\* The device's program has ended, or has a failure message still to send.
DeviceFailing == dPc = "raised" \/ (dPc = "parseFailed" /\ dExc = "InvalidCommandError")

Initiates ==
    /\ stage = "none"
    /\ Calls(R!TransactionInitiation, "selected")
    /\ s2' = "NONE" /\ disturbed' = (rLink' = "down" \/ DeviceFailing)

\* fast.py, standard.py, certificate.py, key_slot.py
Authenticates == stage = "selected" /\ Calls(R!Expedited, "granted")

\* mailbox.py and stepup.py; the last EXCHANGE of an example carries the reader
\* status.
Exchanges ==
    \/ /\ stage = "granted" /\ \E next \in {"granted", "done"} : Calls(R!Exchange, next)
       /\ rCall'.engine = "expedited"
    \/ /\ stage \in {"documents", "exchanged"}
       /\ \E next \in {"exchanged", "done"} : Calls(R!Exchange, next)
       /\ rCall'.engine = "stepup"

\* stepup.py; the step-up phase is only entered after a standard transaction, and
\* the documents come before its EXCHANGE: the device refuses ENVELOPE after it.
StepsUp ==
    /\ rExpedited.kind = "standard"
    /\ \/ stage = "granted" /\ Calls(R!Select, "stepup")
       \/ stage \in {"granted", "stepup", "documents"} /\ Calls(R!Envelope, "documents")

Finishes ==
    /\ stage \in {"granted", "done"} /\ Calls(R!TransactionTermination, "none")
    /\ s2' = "NONE" /\ UNCHANGED disturbed

\* CONTROL FLOW with a member of S2, or as key_slot.py: True, which is no member.
FinishesControlFlow ==
    /\ stage = "granted" /\ Calls(R!ControlFlow, "finished")
    /\ \/ s2' = "NONE" /\ UNCHANGED disturbed
       \/ s2' = "True" /\ disturbed' = TRUE

Application ==
    \/ Initiates \/ Finishes \/ FinishesControlFlow
    \/ (Authenticates \/ Exchanges \/ StepsUp) /\ s2' = "NONE" /\ UNCHANGED disturbed

-----------------------------------------------------------------------------
(* The User Device answers.                                                 *)

Pending(command) == flight = "command" /\ rSent.type = command

\* A response that fits in one message to a command with Le (the rest is
\* ApduChaining); the device finds the Reader gone only when it is.
Undisturbed ==
    /\ dPc' # "chaining" /\ dExc' # "ValueError"
    /\ dLink = "up" /\ dLink' = "down" => rLink = "down"

Answers(action) ==
    /\ action /\ Undisturbed
    /\ flight' = IF dOut'.type = "none" THEN "silence" ELSE "response"
    /\ reply' = Reply(dOut', IF dState' = "AUTH0_FAST_DONE" /\ dOut'.type = "auth0"
                              THEN pair[dKpersistent[Identifier]] ELSE 0)
    /\ UNCHANGED <<readers, stage, s2, disturbed>>

\* The command's tag verifies with the engine the device takes for it: same
\* keys, same derivation, same counter.
Verifies(ins) ==
    LET engine == IF D!DecryptionEngine(ins) = "stepup" THEN dStepup ELSE dExpedited
    IN  /\ D!Deciphers(ins)
        /\ rSent.nonce = <<pair[engine.eph], engine.kind, engine.dec>>

AnswersSelect ==
    /\ Pending("SELECT")
    /\ \/ stage = "selected" /\ Answers(D!InitiationSelect \/ D!SelectExpedited)
       \/ stage = "stepup" /\ Answers(D!InitiationRetry \/ D!SelectStepUp)
    /\ UNCHANGED pair

\* Mutant of AnswersAuth0: a device that finds no Kpersistent refuses.
AnswersAuth0OrRefuses ==
    /\ Pending("AUTH0")
    /\ \/ /\ Answers(D!Auth0Unexpected) /\ UNCHANGED pair
       \/ /\ Answers(IF rCall.name = "standard" THEN D!Auth0Standard(Identifier)
                     ELSE IF D!Cached(Identifier) THEN D!Auth0Fast(Identifier)
                     ELSE D!Auth0Rejected)
          /\ pair' = [pair EXCEPT ![dUsed'] = rEph]

AnswersAuth0 ==
    /\ Pending("AUTH0")
    /\ \/ /\ Answers(D!Auth0Unexpected) /\ UNCHANGED pair
       \/ /\ Answers(IF rCall.name = "fast" /\ D!Cached(Identifier)
                     THEN D!Auth0Fast(Identifier) ELSE D!Auth0Standard(Identifier))
          /\ pair' = [pair EXCEPT ![dUsed'] = rEph]

\* The Reader's certificate is valid and its signature verifies.
AnswersLoadCert ==
    /\ Pending("LOAD_CERT")
    /\ Answers(D!LoadCert) /\ dCert' \notin {"undecoded", "unverified"}
    /\ UNCHANGED pair

AnswersAuth1 ==
    /\ Pending("AUTH1")
    /\ Answers(IF dState \in D!AfterAuth0 THEN D!Auth1 ELSE D!Auth1Rejected)
    /\ UNCHANGED pair

\* A reader status, of the application or of the failure process, completes the
\* transaction.
AnswersExchange ==
    /\ Pending("EXCHANGE")
    /\ \/ Verifies("EXCHANGE") /\ Answers(D!Exchange) /\ dUrsk' = dUrsk
          /\ (dState' = "TRANSACTION_COMPLETE") = (rReporting \/ stage = "done")
       \/ ~ Verifies("EXCHANGE") /\ Answers(D!ReceiveUnverifiable \/ D!ExchangeOpaque)
       \/ Answers(D!ExchangeUnexpected \/ D!ExchangeExhausted)
    /\ UNCHANGED pair

AnswersEnvelope ==
    /\ Pending("ENVELOPE")
    /\ Answers(IF Verifies("ENVELOPE") THEN D!Envelope \/ D!EnvelopeRejected
               ELSE D!ReceiveUnverifiable \/ D!EnvelopeRejected)
    /\ UNCHANGED pair

\* parse_as_control_flow refuses an S2 the enum does not have: the device's
\* failure process answers, and CatchParseFailure runs it once more.
AnswersControlFlow ==
    /\ Pending("CONTROL_FLOW")
    /\ \/ s2 = "NONE" /\ Answers(D!ControlFlow)
       \/ s2 = "True" /\ Answers(D!ReceiveInvalid) /\ dExc' # "InvalidINSError"
    /\ UNCHANGED pair

\* A device that has started a new session expects SELECT.
AnswersStranger ==
    /\ flight = "command" /\ rSent.type # "SELECT"
    /\ Answers(D!InitiationFails)
    /\ UNCHANGED pair

Answering ==
    \/ AnswersSelect \/ AnswersAuth0 \/ AnswersLoadCert \/ AnswersAuth1
    \/ AnswersExchange \/ AnswersEnvelope \/ AnswersControlFlow \/ AnswersStranger

\* What the device does by itself.  A second failure message of its loop is
\* taken for the response to a command that has come meanwhile.
DeviceGoesOn ==
    /\ \/ rLink = "up" /\ D!Connect
       \/ rLink = "down" /\ D!ReaderLeaves
       \/ D!CatchParseFailure \/ D!CatchInMainLoop \/ D!NotCaught \/ D!SessionMissing
    /\ Undisturbed
    /\ IF flight = "command" /\ dOut'.type # "none"
       THEN flight' = "response" /\ reply' = Reply(dOut', 0)
       ELSE UNCHANGED <<flight, reply>>
    /\ UNCHANGED <<readers, stage, pair, s2, disturbed>>

-----------------------------------------------------------------------------
(* The Reader receives.                                                     *)

\* What the failure process sends is a CONTROL FLOW with S2.NONE.
Receives(action) ==
    /\ flight = "response" /\ action
    /\ stage' = IF rRaised' \/ ~ rAlive' THEN "none" ELSE stage
    /\ flight' = IF rSent'.type \in R!Commands THEN "command" ELSE "none"
    /\ s2' = "NONE"
    /\ UNCHANGED <<devices, reply, pair, disturbed>>

\* The response's tag verifies with the engine the Reader takes for it.
Readable ==
    LET engine == IF R!Using = "stepup" THEN rStepup ELSE rExpedited
    IN  <<pair[reply.nonce[1]], reply.nonce[2], reply.nonce[3]>>
           = <<engine.eph, engine.kind, engine.dec>>

ResponseHandler ==
    CASE reply.type = "select" -> R!SelectAnswered
      [] reply.type = "auth0" -> R!Auth0Standard \/ R!Auth0Fast(reply.cryptogram)
                                   \/ R!CryptogramUnknown(reply.cryptogram)
      [] reply.type = "load_cert" -> R!LoadCertAnswered
      [] reply.type = "control_flow" -> R!ControlFlowAnswered
      [] reply.type = "error" -> R!ResponseStatus
      [] reply.type = "auth1" /\ Readable -> R!Auth1Accepted(Credential)
      [] reply.type = "exchange" /\ Readable -> R!ExchangeAnswered
      [] reply.type = "document" /\ Readable -> R!EnvelopeAnswered
      [] OTHER -> R!ResponseUnverifiable

Receiving == Receives(ResponseHandler)

\* Mutant of NothingReceived: the Reader has no way to notice that the device's
\* loop has ended.
NothingReceivedFromHandler ==
    /\ flight = "silence"
    /\ R!ResponseLost
    /\ stage' = "none" /\ flight' = "none"
    /\ UNCHANGED <<devices, reply, pair, s2, disturbed>>

\* No response comes, and the Reader is still there to notice that: the device
\* handled the command without one, or its loop has ended.
NothingReceived ==
    /\ flight = "silence" \/ (flight = "command" /\ dPc = "raised")
    /\ R!ResponseLost
    /\ stage' = "none" /\ flight' = "none"
    /\ UNCHANGED <<devices, reply, pair, s2, disturbed>>

\* The device leaves the field during a call; what is in flight to it may still
\* reach it.
FieldLost ==
    /\ R!ResponseLost /\ rLink' = "down"
    /\ stage' = "none" /\ disturbed' = TRUE
    /\ UNCHANGED <<devices, flight, reply, pair, s2>>

-----------------------------------------------------------------------------
Next == Application \/ Answering \/ DeviceGoesOn \/ Receiving \/ NothingReceived
          \/ FieldLost

\* Both programs run; the application and the field owe nothing.
Spec == /\ Init /\ [][Next]_vars
        /\ WF_vars(Answering) /\ WF_vars(DeviceGoesOn)
        /\ WF_vars(Receiving) /\ WF_vars(NothingReceived)

-----------------------------------------------------------------------------
(* Properties.                                                              *)

\* The type invariants of both sides, and of the field between them.
TypeOK ==
    /\ R!TypeOK /\ D!TypeOK
    /\ flight \in {"none", "command", "response", "silence"}
    /\ stage \in {"none", "selected", "granted", "stepup", "documents", "exchanged",
                  "done", "finished"}
    /\ pair \in [0 .. MaxEphemeral -> 0 .. MaxEphemeral]
    /\ s2 \in {"NONE", "True"} /\ disturbed \in BOOLEAN
    /\ reply \in [type : D!MessageTypes, nonce : D!Nonces, cryptogram : 0 .. MaxEphemeral]

\* As long as the field is not lost no call of the Reader fails, whatever
\* earlier transactions left behind on either side: a session the device did not
\* see end, a Kpersistent only one side has stored, engines of an old handshake.
\* Unless the device's program had ended before the transaction began or was
\* still reporting a failure, the application passed handle_control_flow an S2
\* that the device does not know (key_slot.py:58), or the Reader was told to
\* abort a fast transaction without a Kpersistent (FastTransactionHandling.ABORT).
NoSpuriousFailure == rRaised /\ rOptions.handling = "CONTINUE" => disturbed

\* Between calls both sides hold engines of the same handshake with counters
\* that fit, in both phases.
Fits(reader, device) ==
    /\ pair[device.eph] = reader.eph /\ device.kind = reader.kind
    /\ device.dec = reader.enc /\ device.enc = reader.dec
EnginesInStep ==
    R!Idle /\ stage \in {"granted", "stepup", "documents", "exchanged"} =>
       /\ pair[dEph] = rEph /\ Fits(rExpedited, dExpedited)
       /\ rExpedited.kind = "standard" => Fits(rStepup, dStepup)

\* The Reader's handshake that the device's Kpersistent is of.
Shared == pair[dKpersistent[Identifier]]

\* Whom the Reader has let in holds the Kpersistent that the Reader has cached,
\* and the Reader never holds one the device does not have: only the device can
\* be ahead, when the response to AUTH1 is lost.
KpersistentAgrees ==
    /\ \A i \in DOMAIN rCache : rCache[i].key <= Shared
    /\ rGranted /\ R!Idle => \E i \in DOMAIN rCache : rCache[i].key = Shared

\* No call of the Reader waits for ever: there is always an answer, a failure
\* or the loss of the field.
CallEnds == rAwaited # "none" ~> rAwaited = "none"

-----------------------------------------------------------------------------
(* The inductive invariant behind them (AccessProtocolProofs).              *)

\* Both sides number their handshakes in the same order, and the one whose
\* Kpersistent the device holds is not older than the Reader's last one.
KeysOK ==
    /\ rEph \in {0, rUsed} /\ dEph \in {0, dUsed}
    /\ \A e \in 0 .. MaxEphemeral : pair[e] <= rUsed
    /\ \A e, f \in 0 .. MaxEphemeral : e <= f /\ f <= dUsed => pair[e] <= pair[f]
    /\ rLast[Credential] <= Shared
    /\ rGranted => rLast[Credential] = Shared /\ Shared # 0

\* A device whose loop goes on will serve the next SELECT.
DeviceReady ==
    /\ dPc \in {"idle", "initiation", "serving", "parseFailed", "raised"}
    /\ dPc \in {"initiation", "serving"} => dLink = "up"
    /\ dPc = "serving" => dState # "NONE"
    /\ dPc = "parseFailed" => dExc \in {"NoDeviceConnectedError", "InvalidCommandError"}

\* What is in the field is of the present call.  A transaction that begins with
\* a device that is failing comes no further than SELECT, one that ends with a
\* CONTROL FLOW the device refuses no further than that.
CallOK ==
    /\ rOptions \in ReaderOptions
    /\ rSent.type \in R!Commands => rSent.type = rAwaited
    /\ stage = "none" => rAwaited = "none"
    /\ rAwaited # "NOTIFICATION"
    /\ stage # "none" => rLink = "up" /\ rAlive /\ ~ rRaised
    /\ stage # "none" /\ disturbed =>
          \/ rAwaited = "CONTROL_FLOW"
          \/ /\ stage = "selected" /\ rAwaited = "SELECT"
             /\ \/ flight = "command" /\ DeviceFailing
                \/ flight = "response" /\ reply.type = "error"
    /\ rAwaited # "none" /\ s2 = "True" => disturbed
    /\ NoSpuriousFailure

InTransaction == stage # "none" /\ ~ disturbed

\* The answer to a command in a transaction that goes well.
Response == [SELECT |-> "select", AUTH0 |-> "auth0", LOAD_CERT |-> "load_cert",
             AUTH1 |-> "auth1", EXCHANGE |-> "exchange", ENVELOPE |-> "document",
             CONTROL_FLOW |-> "control_flow"]

\* In a transaction the command awaits the device, or its own answer the Reader,
\* and the device has not left.  The failure process only reports that a fast
\* transaction is aborted.
FlightOK == InTransaction =>
    /\ ~ DeviceFailing /\ flight # "silence"
    /\ (rAwaited = "none") = (flight = "none")
    /\ flight = "command" => rSent.type = rAwaited
    /\ flight = "response" => reply.type = Response[rAwaited]
    /\ dPc # "serving" => \/ rAwaited = "SELECT" /\ flight = "command" /\ stage = "selected"
                          \/ rAwaited = "CONTROL_FLOW" /\ flight = "response"
    /\ rReporting => rAwaited = "CONTROL_FLOW" /\ rOptions.handling = "ABORT"

\* An engine of the Reader and the device's: while a command is under way the
\* device has it still to decrypt, while its response is, the Reader.
Apart(reader, device, name) ==
    /\ pair[device.eph] = reader.eph /\ device.kind = reader.kind
    /\ reader.enc = IF R!Secured /\ R!Using = name /\ flight = "command"
                    THEN device.dec + 1 ELSE device.dec
    /\ device.enc = IF R!Secured /\ R!Using = name /\ flight = "response"
                    THEN reader.dec + 1 ELSE reader.dec
InStep ==
    /\ pair[dEph] = rEph /\ Apart(rExpedited, dExpedited, "expedited")
    /\ rExpedited.kind = "standard" => Apart(rStepup, dStepup, "stepup")

\* What is encrypted in the field is for the engine that the other side takes.
Sealed ==
    LET device == IF R!Using = "stepup" THEN dStepup ELSE dExpedited
        reader == IF R!Using = "stepup" THEN rStepup ELSE rExpedited
    IN  /\ flight = "command" => rSent.nonce = <<pair[device.eph], device.kind, device.dec>>
        /\ flight = "response" => reply.nonce = <<device.eph, device.kind, reader.dec>>

\* Where the device is while the Reader selects,
Selecting == InTransaction /\ rAwaited = "SELECT" =>
    \/ /\ stage = "selected" /\ rExpedited = R!NoEngine
       /\ flight = "response" => dState = "SELECT_DONE"
    \/ /\ stage = "stepup" /\ rExpedited.kind = "standard" /\ InStep
       /\ IF flight = "command" THEN dState \in {"AUTH1_DONE", "EXCHANGE_DONE"}
                                ELSE dState = "SELECT_STEP_UP_DONE"

\* during a handshake, which is halfway between the answer to AUTH0 and AUTH1,
Halfway == \/ rAwaited = "AUTH0" /\ flight = "response"
           \/ rAwaited = "LOAD_CERT"
           \/ rAwaited = "AUTH1" /\ flight = "command"
Authenticating == InTransaction =>
    /\ rAwaited \in {"AUTH0", "LOAD_CERT", "AUTH1"} => stage = "granted"
    /\ rAwaited = "AUTH0" =>
          /\ rExpedited = R!NoEngine
          /\ flight = "command" => dState = "SELECT_DONE"
          /\ flight = "response" /\ reply.cryptogram # 0 =>
                /\ reply.cryptogram = Shared /\ dState = "AUTH0_FAST_DONE"
                /\ Apart(R!NewEngine(rEph, "fast"), dExpedited, "fast")
    /\ Halfway => dState \in D!AfterAuth0 /\ pair[dEph] = rEph
    /\ rAwaited = "AUTH1" => rStepup = R!NewEngine(rEph, "stepup")
    /\ rAwaited = "AUTH1" /\ flight = "response" =>
          /\ dState = "AUTH1_DONE" /\ InStep /\ Sealed
          /\ reply.nonce[1] = dKpersistent[Identifier]

\* behind it,
Exchanging == InTransaction =>
    /\ rAwaited \in {"EXCHANGE", "ENVELOPE"} => InStep /\ Sealed
    /\ rAwaited = "EXCHANGE" /\ R!Using = "expedited" =>
          /\ stage \in {"granted", "done"}
          /\ flight = "command" => dState \in {"AUTH0_FAST_DONE", "AUTH1_DONE", "EXCHANGE_DONE"}
          /\ flight = "response" /\ stage = "granted" => dState = "EXCHANGE_DONE"
    /\ rAwaited = "EXCHANGE" /\ R!Using = "stepup" =>
          /\ stage \in {"exchanged", "done"} /\ rExpedited.kind = "standard"
          /\ flight = "command" => dState \in {"ENVELOPE_DONE", "STEPUP_EXCHANGE_DONE"}
          /\ flight = "response" /\ stage = "exchanged" => dState = "STEPUP_EXCHANGE_DONE"
    /\ rAwaited = "ENVELOPE" =>
          /\ stage = "documents" /\ R!Using = "stepup" /\ rExpedited.kind = "standard"
          /\ flight = "command" =>
                dState \in {"AUTH1_DONE", "EXCHANGE_DONE", "ENVELOPE_DONE", "SELECT_STEP_UP_DONE"}
          /\ flight = "response" => dState = "ENVELOPE_DONE"

\* and between calls.
Between == InTransaction /\ rAwaited = "none" =>
    /\ stage # "finished"
    /\ stage = "selected" => dState = "SELECT_DONE" /\ rExpedited = R!NoEngine
    /\ stage = "granted" =>
          /\ InStep /\ dState \in {"AUTH0_FAST_DONE", "AUTH1_DONE", "EXCHANGE_DONE"}
          /\ rExpedited.kind = "standard" => dState # "AUTH0_FAST_DONE"
    /\ stage \in {"stepup", "documents", "exchanged"} =>
          InStep /\ rExpedited.kind = "standard"
    /\ stage = "stepup" => dState = "SELECT_STEP_UP_DONE"
    /\ stage = "documents" => dState = "ENVELOPE_DONE"
    /\ stage = "exchanged" => dState = "STEPUP_EXCHANGE_DONE"

ProtocolInv ==
    /\ TypeOK /\ R!ReaderInv /\ D!DeviceInv
    /\ KeysOK /\ DeviceReady /\ CallOK
    /\ FlightOK /\ Selecting /\ Authenticating /\ Exchanging /\ Between
=============================================================================
