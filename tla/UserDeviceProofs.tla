-------------------------- MODULE UserDeviceProofs --------------------------
(***************************************************************************)
(* Proofs about UserDevice, for every set of readers, every configuration   *)
(* and every bound.                                                         *)
(*                                                                          *)
(* The argument: whatever the command, exception or loop, a step changes    *)
(* the session and the device in one of five ways (Dropped, Kept,           *)
(* NewHandshake, Auth1, Answered).  Lemma StepKinds goes through the        *)
(* actions once; each of the five ways is then shown to preserve DeviceInv. *)
(***************************************************************************)
EXTENDS UserDevice, TLAPS

-----------------------------------------------------------------------------
(* Engines.                                                                 *)

\* What the constructors of an engine return.
LEMMA EngineTypes ==
    /\ NoEngine \in Engines /\ NoEngine.eph = 0
    /\ \A e \in 0 .. MaxEphemeral, k \in {"fast", "standard", "stepup"} :
          /\ NewEngine(e, k) \in Engines /\ NewEngine(e, k) # NoEngine
          /\ NewEngine(e, k).eph = e /\ NewEngine(e, k).kind = k
          /\ NewEngine(e, k).enc = 1 /\ NewEngine(e, k).dec = 1
  BY UserDeviceAssumption, SMT DEF NoEngine, Engines, Counters, NewEngine

\* What encrypt and decrypt do to an engine.
LEMMA EngineSteps ==
    ASSUME NEW g \in Engines
    PROVE  /\ g.enc \in Nat /\ g.dec \in Nat /\ g.eph \in 0 .. MaxEphemeral
           /\ Encrypted(g).eph = g.eph /\ Encrypted(g).kind = g.kind
           /\ Encrypted(g).enc = g.enc + 1 /\ Encrypted(g).dec = g.dec
           /\ Decrypted(g).eph = g.eph /\ Decrypted(g).kind = g.kind
           /\ Decrypted(g).enc = g.enc /\ Decrypted(g).dec = g.dec + 1
           /\ g.enc <= MaxCounter => Encrypted(g) \in Engines
           /\ g.dec <= MaxCounter => Decrypted(g) \in Engines
           /\ Encrypted(g) # NoEngine /\ Decrypted(g) # NoEngine
           /\ Nonce(g) \in Nonces
           /\ Nonce(g)[1] = g.eph /\ Nonce(g)[2] = g.kind /\ Nonce(g)[3] = g.enc
  BY UserDeviceAssumption, SMT DEF Engines, Counters, Encrypted, Decrypted, Nonce, Nonces, NoEngine

\* The engine is the same one, but for a decryption.
Same(g, h) == h = g \/ (g # NoEngine /\ g.dec <= MaxCounter /\ h = Decrypted(g))

\* A decryption changes nothing that the properties look at.
LEMMA SameEngine ==
    ASSUME NEW g \in Engines, NEW h, Same(g, h)
    PROVE  /\ h \in Engines /\ h.eph = g.eph /\ h.kind = g.kind /\ h.enc = g.enc
           /\ h # NoEngine <=> g # NoEngine
  BY EngineSteps DEF Same

\* The engines after the decryption of a command.
LEMMA Decryption ==
    ASSUME SessionOK, WithinBound, NEW ins
    PROVE  /\ Same(expedited, ExpeditedAfter(ins)) /\ expedited.enc <= MaxCounter
           /\ Same(stepup, StepupAfter(ins)) /\ stepup.enc <= MaxCounter
  <1>1. /\ expedited \in Engines /\ stepup \in Engines
        /\ expedited.enc \in Nat /\ expedited.dec \in Nat
        /\ stepup.enc \in Nat /\ stepup.dec \in Nat
    BY EngineSteps DEF SessionOK
  <1>2. expedited.dec <= MaxCounter /\ stepup.dec <= MaxCounter
        /\ expedited.enc <= MaxCounter /\ stepup.enc <= MaxCounter
    BY <1>1, UserDeviceAssumption DEF WithinBound
  <1>3. QED
    BY <1>1, <1>2 DEF ExpeditedAfter, StepupAfter, Same, Deciphers

\* Messages are well formed; only secure ones carry a nonce.
LEMMA MessagesOK ==
    /\ \A t \in MessageTypes : Message(t) \in Messages /\ Message(t).nonce = NoNonce
                               /\ Message(t).type = t
    /\ \A t \in MessageTypes, g \in Engines :
          /\ SecureMessage(t, g) \in Messages /\ SecureMessage(t, g).nonce = Nonce(g)
          /\ SecureMessage(t, g).type = t
    /\ Silent \in Messages /\ Silent.nonce = NoNonce /\ Silent.type = "none"
  <1>1. NoNonce \in Nonces
    BY UserDeviceAssumption DEF NoNonce, Nonces
  <1>2. "none" \in MessageTypes
    BY DEF MessageTypes
  <1>3. QED
    BY <1>1, <1>2, EngineSteps DEF Messages, Message, SecureMessage, Silent

-----------------------------------------------------------------------------
(* The five ways of a step.                                                 *)

\* The step sends nothing that is encrypted.
Plain == out'.nonce = NoNonce /\ out'.type # "document"

\* A response that will end in ENVELOPE_DONE is still being fetched.
EnvelopePending == pc = "chaining" /\ resume = "envelope"

\* A phase is only entered from within it, or by handle_envelope.
PhaseKept ==
    /\ state' \in States
    /\ state' \in AfterAuth0 => state' = state
    /\ Active' /\ state' \in ExpeditedPhase => Active /\ state \in ExpeditedPhase
    /\ Active' /\ state' \in StepUpPhase =>
          Active /\ (state \in StepUpPhase \/ EnvelopePending \/ stepup' # NoEngine)
    /\ Active' /\ state' = "AUTH0_FAST_DONE" => Active

\* The session is ended or replaced by a new one.
Dropped ==
    /\ Plain
    /\ state' \in {"NONE", "SESSION_START"} /\ eph' = 0 /\ reader' = NoReader
    /\ cert' = "none" /\ expedited' = NoEngine /\ stepup' = NoEngine
    /\ ursk' = "unavailable"
    /\ used' \in 0 .. MaxEphemeral /\ used <= used'
    /\ UNCHANGED <<kpersistent, atomic, verified, nonces>>
    /\ ~ EnvelopePending'

\* Nothing but the phase, the certificate and a decryption counter moves.
Kept ==
    /\ Plain /\ PhaseKept
    /\ UNCHANGED <<eph, reader, used, kpersistent, verified, nonces>>
    /\ atomic' \in {"stopped", "started"} /\ cert' \in Certificates
    /\ ursk' \in {"unavailable", "available"}
    /\ Same(expedited, expedited') /\ Same(stepup, stepup')
    /\ EnvelopePending' => EnvelopePending

\* AUTH0: a new ephemeral key.
NewHandshake ==
    /\ Plain
    /\ used < MaxEphemeral /\ used' = used + 1 /\ eph' = used + 1
    /\ UNCHANGED <<cert, stepup, ursk, kpersistent, atomic, verified, nonces>>
    /\ \/ /\ ~ Active' /\ UNCHANGED <<state, expedited>> /\ reader' \in Readers \cup {reader}
       \/ /\ state' = "AUTH0_STD_DONE" /\ UNCHANGED expedited /\ reader' \in Readers
       \/ /\ state' = "AUTH0_FAST_DONE" /\ expedited' = NewEngine(used + 1, "fast")
          /\ reader' \in Readers /\ kpersistent[reader'] # 0
    /\ ~ EnvelopePending'

\* EXCHANGE or ENVELOPE: a response is encrypted.
Answered ==
    /\ PhaseKept /\ state' \notin AfterAuth0
    /\ UNCHANGED <<eph, reader, cert, used, kpersistent, verified>>
    /\ atomic' \in {"stopped", "started"} /\ ursk' \in {"unavailable", "available"}
    /\ \/ \E g : /\ Same(stepup, g) /\ g # NoEngine /\ g.enc <= MaxCounter
                 /\ stepup' = Encrypted(g) /\ Same(expedited, expedited')
                 /\ out'.nonce = Nonce(g) /\ nonces' = nonces \cup {Nonce(g)}
       \/ \E g : /\ Same(expedited, g) /\ g # NoEngine /\ g.enc <= MaxCounter
                 /\ expedited' = Encrypted(g) /\ Same(stepup, stepup')
                 /\ out'.nonce = Nonce(g) /\ nonces' = nonces \cup {Nonce(g)}
                 /\ out'.type # "document" /\ ~ EnvelopePending'

-----------------------------------------------------------------------------
(* The parts the actions are built from.                                    *)

\* failure_process that reaches the reader ends the session.
LEMMA FailureReportedStep ==
    ASSUME NEW at \in Locations, NEW e \in Exceptions, FailureReported(at, e),
           used' \in 0 .. MaxEphemeral, used <= used',
           UNCHANGED <<kpersistent, atomic, verified, nonces>>
    PROVE  ControlOK' /\ Dropped
  <1>1. out' \in Messages /\ Plain
    BY MessagesOK DEF FailureReported, Plain, MessageTypes
  <1>2. link' \in {"up", "down"} /\ resume' \in Continuations /\ ~ EnvelopePending'
    BY DEF FailureReported, TransactionTermination, Disconnect, Continuations, EnvelopePending
  <1>3. QED
    BY <1>1, <1>2 DEF ControlOK, Dropped, FailureReported, TransactionTermination, EndSession

\* One that does not reach it sends nothing.
LEMMA FailureUnsentStep ==
    ASSUME NEW at \in Locations, FailureUnsent(at)
    PROVE  ControlOK' /\ Plain /\ ~ EnvelopePending' /\ pc' = at
  BY MessagesOK DEF FailureUnsent, ControlOK, Plain, Exceptions, Continuations, EnvelopePending

\* An exception leaves the try block.
LEMMA ThrowStep ==
    ASSUME ControlOK, NEW e \in Exceptions, Throw(e)
    PROVE  ControlOK' /\ Plain /\ ~ EnvelopePending' /\ ~ Active'
  BY MessagesOK DEF Throw, ControlOK, Plain, Locations, Continuations, EnvelopePending, Active

\* Where a response can leave the loop.
LEMMA TransmitStep ==
    ASSUME NEW k \in Continuations, Transmit(k) \/ TransmitStatus(k)
    PROVE  /\ pc' \in Locations /\ exc' \in Exceptions /\ link' \in {"up", "down"}
           /\ resume' \in Continuations
           /\ EnvelopePending' => k = "envelope"
  BY DEF Transmit, TransmitStatus, Delivered, ThrowWhileSending, Locations, Exceptions,
         Continuations, EnvelopePending

\* A step that leaves session and device alone.
LEMMA UnchangedStep ==
    ASSUME TypeOK, Plain, UNCHANGED session, UNCHANGED device,
           Active' => Active, EnvelopePending' => EnvelopePending
    PROVE  Kept
  BY DEF TypeOK, SessionOK, DeviceOK, Kept, PhaseKept, Same, session, device

\* A step that decrypts a command and does nothing else to session and device.
LEMMA DecryptedStep ==
    ASSUME TypeOK, WithinBound, Plain, NEW ins, OnlyDecrypted(ins), UNCHANGED device,
           Active' => Active, EnvelopePending' => EnvelopePending
    PROVE  Kept
  <1>1. Same(expedited, expedited') /\ Same(stepup, stepup')
    BY Decryption DEF OnlyDecrypted, TypeOK
  <1>2. QED
    BY <1>1 DEF TypeOK, SessionOK, DeviceOK, Kept, PhaseKept, OnlyDecrypted, device

\* Both outcomes of failure_process in a handler that did no more than decrypt.
LEMMA FailureStep ==
    ASSUME TypeOK, Active, NEW at \in Locations, NEW e \in Exceptions, UNCHANGED device,
           \/ FailureProcess(at, e, UNCHANGED session)
           \/ WithinBound /\ \E ins \in {"EXCHANGE", "ENVELOPE"} :
                                FailureProcess(at, e, OnlyDecrypted(ins))
    PROVE  ControlOK' /\ (Dropped \/ Kept)
  <1>1. CASE FailureReported(at, e)
    BY <1>1, FailureReportedStep DEF device, TypeOK, DeviceOK
  <1>2. CASE FailureUnsent(at) /\ UNCHANGED session
    BY <1>2, FailureUnsentStep, UnchangedStep
  <1>3. CASE WithinBound /\ FailureUnsent(at)
             /\ \E ins \in {"EXCHANGE", "ENVELOPE"} : OnlyDecrypted(ins)
    BY <1>3, FailureUnsentStep, DecryptedStep
  <1>4. QED
    BY <1>1, <1>2, <1>3 DEF FailureProcess

\* handle_timeout ends the session, or finds no reader.
LEMMA HandleTimeoutStep ==
    ASSUME TypeOK, NEW at \in Locations, HandleTimeout(at), UNCHANGED device, at \notin {"chaining"},
           Active' => Active
    PROVE  ControlOK' /\ (Dropped \/ Kept)
  <1>1. ~ EnvelopePending' /\ pc' \in Locations /\ resume' \in Continuations /\ exc' \in Exceptions
    BY DEF HandleTimeout, EnvelopePending, Exceptions, Continuations
  <1>2. CASE UNCHANGED session /\ link' = "down" /\ out' = Silent
    BY <1>1, <1>2, MessagesOK, UnchangedStep DEF ControlOK, Plain
  <1>3. CASE TransactionTermination /\ out' = Message("event")
    <2>1. out' \in Messages /\ Plain
      BY <1>3, MessagesOK DEF Plain, MessageTypes
    <2>2. link' \in {"up", "down"}
      BY <1>3 DEF TransactionTermination, Disconnect
    <2>3. QED
      BY <1>1, <1>3, <2>1, <2>2
      DEF ControlOK, Dropped, TransactionTermination, EndSession, device, TypeOK, DeviceOK
  <1>4. QED
    BY <1>2, <1>3 DEF HandleTimeout

-----------------------------------------------------------------------------
(* Every action is one of the five.                                         *)

StepKind == Dropped \/ Kept \/ NewHandshake \/ Auth1 \/ Answered

\* transaction_initiation
LEMMA InitiationKinds ==
    ASSUME TypeOK, Connect \/ InitiationSelect \/ InitiationRetry \/ InitiationFails
    PROVE  ControlOK' /\ StepKind
  <1> USE DEF TypeOK
  <1>1. CASE Connect
    <2>1. out' \in Messages /\ Plain
      BY <1>1, MessagesOK DEF Connect, Plain, MessageTypes
    <2>2. ControlOK' /\ ~ EnvelopePending'
      BY <1>1, <2>1 DEF Connect, ControlOK, Locations, Exceptions, Continuations, EnvelopePending
    <2>3. Dropped
      BY <1>1, <2>1, <2>2 DEF Connect, StartNewSession, Dropped, DeviceOK, device
    <2>4. QED
      BY <2>2, <2>3 DEF StepKind
  <1>2. CASE InitiationSelect
    <2>1. out' \in Messages /\ Plain
      BY <1>2, MessagesOK DEF InitiationSelect, Plain, MessageTypes
    <2>2. ControlOK' /\ ~ EnvelopePending'
      BY <1>2, <2>1, TransmitStep DEF InitiationSelect, ControlOK, Continuations
    <2>3. Kept
      BY <1>2, <2>1, <2>2
      DEF InitiationSelect, Kept, PhaseKept, Same, States, AfterAuth0, ExpeditedPhase,
          StepUpPhase, SessionOK, DeviceOK, device
    <2>4. QED
      BY <2>2, <2>3 DEF StepKind
  <1>3. CASE InitiationRetry
    <2>1. out' \in Messages /\ Plain
      BY <1>3, MessagesOK DEF InitiationRetry, Plain, MessageTypes
    <2>2. ControlOK' /\ ~ EnvelopePending' /\ ~ Active'
      BY <1>3, <2>1 DEF InitiationRetry, ControlOK, EnvelopePending, Active
    <2>3. QED
      BY <1>3, <2>1, <2>2, UnchangedStep DEF InitiationRetry, StepKind
  <1>4. CASE InitiationFails
    <2>1. out' \in Messages /\ Plain
      BY <1>4, MessagesOK DEF InitiationFails, Plain, MessageTypes
    <2>2. ControlOK' /\ ~ EnvelopePending' /\ ~ Active'
      BY <1>4, <2>1
      DEF InitiationFails, TransactionTermination, Disconnect, ControlOK, EnvelopePending,
          Active, Locations, Exceptions, Continuations
    <2>3. CASE UNCHANGED session
      BY <1>4, <2>1, <2>2, <2>3, UnchangedStep DEF InitiationFails, StepKind
    <2>4. CASE TransactionTermination
      BY <1>4, <2>1, <2>2, <2>4
      DEF InitiationFails, StepKind, Dropped, TransactionTermination, EndSession, DeviceOK, device
    <2>5. QED
      BY <1>4, <2>3, <2>4 DEF InitiationFails
  <1>5. QED
    BY <1>1, <1>2, <1>3, <1>4

\* The first try block.
LEMMA ReceiveKinds ==
    ASSUME TypeOK,
           \/ SessionMissing \/ ReaderLeaves \/ ReceiveTimesOut \/ ReceiveRetry
           \/ ReceiveTruncated \/ ReceiveInvalid \/ ReceiveUncaught
           \/ ReceiveUnverifiable \/ ReceiveBadExchange \/ CatchParseFailure
    PROVE  ControlOK' /\ StepKind
  <1> USE DEF StepKind
  <1> DEFINE Quiet == SessionMissing \/ ReaderLeaves \/ ReceiveRetry \/ ReceiveTruncated
                      \/ ReceiveUncaught \/ ReceiveBadExchange
  <1>1. CASE Quiet
    <2>1. out' \in Messages /\ Plain
      BY <1>1, MessagesOK
      DEF SessionMissing, ReaderLeaves, ReceiveRetry, ReceiveTruncated, ReceiveUncaught,
          ReceiveBadExchange, Plain, MessageTypes
    <2>2. ControlOK' /\ ~ EnvelopePending'
      BY <1>1, <2>1
      DEF SessionMissing, ReaderLeaves, ReceiveRetry, ReceiveTruncated, ReceiveUncaught,
          ReceiveBadExchange, Receive, TypeOK, ControlOK, EnvelopePending, Locations, Exceptions
    <2>3. Active
      BY <1>1
      DEF SessionMissing, ReaderLeaves, ReceiveRetry, ReceiveTruncated, ReceiveUncaught,
          ReceiveBadExchange, Receive, Waiting, Active
    <2>4. CASE UNCHANGED <<session, device>>
      BY <2>1, <2>2, <2>3, <2>4, UnchangedStep
    <2>5. CASE ReceiveBadExchange
      BY <2>1, <2>2, <2>3, <2>5, DecryptedStep DEF ReceiveBadExchange
    <2>6. QED
      BY <1>1, <2>4, <2>5
      DEF SessionMissing, ReaderLeaves, ReceiveRetry, ReceiveTruncated, ReceiveUncaught
  <1>2. CASE ReceiveTimesOut
    BY <1>2, HandleTimeoutStep DEF ReceiveTimesOut, Locations, Waiting, Active
  <1>3. CASE ReceiveInvalid
    <2>1. Active
      BY <1>3 DEF ReceiveInvalid, Receive, Waiting, Active
    <2>2. PICK e \in {"InvalidCommandError", "InvalidINSError"} :
             FailureProcess("parseFailed", e, UNCHANGED session)
      BY <1>3 DEF ReceiveInvalid
    <2>3. e \in Exceptions /\ "parseFailed" \in Locations
      BY DEF Exceptions, Locations
    <2>4. QED
      BY <1>3, <2>1, <2>2, <2>3, FailureStep DEF ReceiveInvalid
  <1>4. CASE ReceiveUnverifiable
    <2>1. Active
      BY <1>4 DEF ReceiveUnverifiable, Receive, Waiting, Active
    <2>2. "InvalidCommandError" \in Exceptions /\ "parseFailed" \in Locations
      BY DEF Exceptions, Locations
    <2>3. QED
      BY <1>4, <2>1, <2>2, FailureStep DEF ReceiveUnverifiable
  <1>5. CASE CatchParseFailure
    <2>1. out' \in Messages /\ Plain
      BY <1>5, MessagesOK DEF CatchParseFailure, Plain, MessageTypes
    <2>2. ControlOK' /\ ~ EnvelopePending' /\ Active
      BY <1>5, <2>1
      DEF CatchParseFailure, TransactionTermination, Disconnect, TypeOK, ControlOK,
          EnvelopePending, Active, Locations, Exceptions, Continuations
    <2>3. CASE UNCHANGED session
      BY <1>5, <2>1, <2>2, <2>3, UnchangedStep DEF CatchParseFailure
    <2>4. CASE TransactionTermination
      BY <1>5, <2>1, <2>2, <2>4
      DEF CatchParseFailure, Dropped, TransactionTermination, EndSession, TypeOK, DeviceOK, device
    <2>5. QED
      BY <1>5, <2>3, <2>4 DEF CatchParseFailure
  <1>6. QED
    BY <1>1, <1>2, <1>3, <1>4, <1>5

\* failure_process and rejections of the second try block.
LEMMA RejectionKinds ==
    ASSUME TypeOK,
           \/ RejectWhileAtomic \/ ReceiveGetResponse \/ Auth0Unexpected
           \/ ExchangeUnexpected \/ ExchangeExhausted \/ ExchangeOpaque \/ EnvelopeRejected
    PROVE  ControlOK' /\ StepKind
  <1> USE DEF StepKind
  <1>0. /\ "handleFailed" \in Locations /\ "serving" \in Locations
        /\ {"none", "AccessProtocolError", "NotImplementedError", "AttributeError"} \subseteq Exceptions
    BY DEF Locations, Exceptions
  <1>1. Active
    BY DEF RejectWhileAtomic, ReceiveGetResponse, Auth0Unexpected, ExchangeUnexpected,
           ExchangeExhausted, ExchangeOpaque, EnvelopeRejected, ReceiveCommand,
           ReceiveExchange, Receive, Waiting, Active
  <1>2. CASE RejectWhileAtomic
    <2>1. CASE FailureProcess("handleFailed", "AccessProtocolError", UNCHANGED session)
      BY <1>0, <1>1, <1>2, <2>1, FailureStep DEF RejectWhileAtomic
    <2>2. CASE WithinBound /\ FailureUnsent("handleFailed") /\ OnlyDecrypted("ENVELOPE")
      BY <1>0, <1>1, <1>2, <2>2, FailureUnsentStep, DecryptedStep DEF RejectWhileAtomic
    <2>3. QED
      BY <1>2, <2>1, <2>2 DEF RejectWhileAtomic
  <1>3. CASE ReceiveGetResponse
    BY <1>0, <1>1, <1>3, ThrowStep, UnchangedStep DEF ReceiveGetResponse, TypeOK
  <1>4. CASE Auth0Unexpected
    BY <1>0, <1>1, <1>4, FailureStep DEF Auth0Unexpected, UnexpectedState
  <1>5. CASE ExchangeUnexpected
    BY <1>0, <1>1, <1>5, FailureStep DEF ExchangeUnexpected, ReceiveExchange
  <1>6. CASE ExchangeExhausted
    <2>1. CASE FailureReported("serving", "none")
      BY <1>0, <1>6, <2>1, FailureReportedStep DEF ExchangeExhausted, device, TypeOK, DeviceOK
    <2>2. CASE FailureUnsent("handleFailed") /\ OnlyDecrypted("EXCHANGE")
      BY <1>0, <1>1, <1>6, <2>2, FailureUnsentStep, DecryptedStep
      DEF ExchangeExhausted, ReceiveExchange
    <2>3. QED
      BY <1>6, <2>1, <2>2 DEF ExchangeExhausted
  <1>7. CASE ExchangeOpaque
    <2>1. ControlOK' /\ Plain /\ ~ EnvelopePending' /\ ~ Active'
      BY <1>0, <1>7, ThrowStep DEF ExchangeOpaque, TypeOK
    <2>2. QED
      BY <1>7, <2>1
      DEF ExchangeOpaque, Kept, PhaseKept, Same, AfterAuth0, States, TypeOK, SessionOK,
          DeviceOK, device
  <1>8. CASE EnvelopeRejected
    <2>1. CASE FailureProcess("handleFailed", "AccessProtocolError", OnlyDecrypted("ENVELOPE"))
      BY <1>0, <1>1, <1>8, <2>1, FailureStep DEF EnvelopeRejected
    <2>2. CASE Throw("AccessProtocolError") /\ UNCHANGED session
      BY <1>0, <1>1, <1>8, <2>2, ThrowStep, UnchangedStep DEF EnvelopeRejected, TypeOK
    <2>3. QED
      BY <1>8, <2>1, <2>2 DEF EnvelopeRejected
  <1>9. QED
    BY <1>2, <1>3, <1>4, <1>5, <1>6, <1>7, <1>8

\* SELECT and LOAD CERT, and AUTH1 when it is rejected.
LEMMA SelectKinds ==
    ASSUME TypeOK, SelectExpedited \/ SelectStepUp \/ LoadCert \/ Auth1Rejected
    PROVE  ControlOK' /\ StepKind
  <1> USE DEF StepKind
  <1>0. /\ "handleFailed" \in Locations /\ "AccessProtocolError" \in Exceptions
        /\ {"serve", "refuse"} \subseteq Continuations
        /\ {"select", "load_cert"} \subseteq MessageTypes
    BY DEF Locations, Exceptions, Continuations, MessageTypes
  <1>1. Active
    BY DEF SelectExpedited, SelectStepUp, LoadCert, Auth1Rejected, ReceiveCommand, Receive,
           Waiting, Active
  <1>2. CASE SelectExpedited
    <2>1. ControlOK' /\ Plain /\ ~ EnvelopePending'
      BY <1>0, <1>2, MessagesOK, TransmitStep DEF SelectExpedited, ControlOK, Plain
    <2>2. QED
      BY <1>2, <2>1
      DEF SelectExpedited, Kept, PhaseKept, Same, States, AfterAuth0, ExpeditedPhase,
          StepUpPhase, TypeOK, SessionOK, DeviceOK, device
  <1>3. CASE SelectStepUp
    <2>1. CASE Throw("AccessProtocolError") /\ UNCHANGED state
      BY <1>0, <1>1, <1>3, <2>1, ThrowStep, UnchangedStep DEF SelectStepUp, TypeOK, session
    <2>2. CASE /\ state \in {"AUTH1_DONE", "EXCHANGE_DONE"} /\ state' = "SELECT_STEP_UP_DONE"
               /\ out' = Message("select") /\ Transmit("serve")
      <3>1. ControlOK' /\ Plain /\ ~ EnvelopePending'
        BY <1>0, <2>2, MessagesOK, TransmitStep DEF ControlOK, Plain
      <3>2. QED
        BY <1>1, <1>3, <2>2, <3>1
        DEF SelectStepUp, Kept, PhaseKept, Same, States, AfterAuth0, ExpeditedPhase,
            StepUpPhase, TypeOK, SessionOK, DeviceOK, device
    <2>3. QED
      BY <1>3, <2>1, <2>2 DEF SelectStepUp
  <1>4. CASE LoadCert
    <2>1. CASE UnexpectedState(AfterAuth0)
      BY <1>0, <1>1, <1>4, <2>1, FailureStep DEF LoadCert, UnexpectedState
    <2>2. CASE /\ cert' \in {"undecoded", "unverified", "verified"}
               /\ out' = Message("load_cert")
               /\ TransmitStatus(IF TestMode /\ cert' # "verified" THEN "refuse" ELSE "serve")
               /\ UNCHANGED <<state, eph, reader, expedited, stepup, ursk>>
      <3>1. PICK k \in {"serve", "refuse"} : TransmitStatus(k)
        BY <2>2
      <3>2. ControlOK' /\ Plain /\ ~ EnvelopePending'
        BY <1>0, <2>2, <3>1, MessagesOK, TransmitStep DEF ControlOK, Plain
      <3>3. QED
        BY <1>1, <1>4, <2>2, <3>2
        DEF LoadCert, Kept, PhaseKept, Same, Certificates, TypeOK, SessionOK, DeviceOK, device
    <2>3. QED
      BY <1>4, <2>1, <2>2 DEF LoadCert
  <1>5. CASE Auth1Rejected
    <2>1. CASE UnexpectedState(AfterAuth0)
      BY <1>0, <1>1, <1>5, <2>1, FailureStep DEF Auth1Rejected, UnexpectedState
    <2>2. CASE FailureReported("handleFailed", "AccessProtocolError")
      BY <1>0, <1>5, <2>2, FailureReportedStep DEF Auth1Rejected, device, TypeOK, DeviceOK
    <2>3. ASSUME NEW c \in {cert, "undecoded", "unverified", "verified"},
                 FailureUnsent("handleFailed"), cert' = c,
                 UNCHANGED <<state, eph, reader, expedited, stepup, ursk>>
          PROVE  ControlOK' /\ Kept
      <3>1. ControlOK' /\ Plain /\ ~ EnvelopePending' /\ ~ Active'
        BY <1>0, <2>3, FailureUnsentStep DEF Active
      <3>2. QED
        BY <1>5, <2>3, <3>1
        DEF Auth1Rejected, Kept, PhaseKept, Same, Certificates, TypeOK, SessionOK, DeviceOK, device
    <2>4. QED
      BY <1>5, <2>1, <2>2, <2>3 DEF Auth1Rejected, FailureProcess
  <1>6. QED
    BY <1>2, <1>3, <1>4, <1>5

\* AUTH0 and AUTH1.
LEMMA HandshakeKinds ==
    ASSUME TypeOK,
           Auth0Rejected \/ (\E r \in Known : Auth0Standard(r) \/ Auth0Fast(r)) \/ Auth1
    PROVE  ControlOK' /\ StepKind
  <1> USE DEF StepKind
  <1>0. /\ "handleFailed" \in Locations
        /\ {"AccessProtocolError", "IndexError"} \subseteq Exceptions
        /\ "serve" \in Continuations /\ {"auth0", "auth1"} \subseteq MessageTypes
    BY DEF Locations, Exceptions, Continuations, MessageTypes
  <1>1. CASE Auth0Rejected
    <2>1. CASE FailureReported("handleFailed", "AccessProtocolError")
      <3>1. used' \in 0 .. MaxEphemeral /\ used <= used'
        BY <1>1, UserDeviceAssumption DEF Auth0Rejected, TakeEphemeralKey, TypeOK, DeviceOK
      <3>2. QED
        BY <1>0, <1>1, <2>1, <3>1, FailureReportedStep DEF Auth0Rejected
    <2>2. CASE /\ eph' = used + 1 /\ reader' \in Readers \cup {reader}
               /\ UNCHANGED <<state, cert, expedited, stepup, ursk>>
               /\ \/ FailureUnsent("handleFailed")
                  \/ Throw("AccessProtocolError") \/ Throw("IndexError")
      <3>1. ControlOK' /\ Plain /\ ~ EnvelopePending' /\ ~ Active'
        BY <1>0, <2>2, FailureUnsentStep, ThrowStep DEF Active, TypeOK
      <3>2. QED
        BY <1>1, <2>2, <3>1 DEF Auth0Rejected, TakeEphemeralKey, NewHandshake
    <2>3. QED
      BY <1>1, <2>1, <2>2 DEF Auth0Rejected, FailureProcess
  <1>2. ASSUME NEW r \in Known, Auth0Standard(r) \/ Auth0Fast(r)
        PROVE  ControlOK' /\ StepKind
    <2>1. ControlOK' /\ Plain /\ ~ EnvelopePending'
      BY <1>0, <1>2, MessagesOK, TransmitStep DEF Auth0Standard, Auth0Fast, ControlOK, Plain
    <2>2. QED
      BY <1>2, <2>1, UserDeviceAssumption
      DEF Auth0Standard, Auth0Fast, TakeEphemeralKey, Cached, NewHandshake
  <1>3. CASE Auth1
    <2>1. NewEngine(eph, "standard") \in Engines
      BY EngineTypes DEF TypeOK, SessionOK
    <2>2. QED
      BY <1>0, <1>3, <2>1, MessagesOK, TransmitStep DEF Auth1, ControlOK
  <1>4. QED
    BY <1>1, <1>2, <1>3

\* EXCHANGE and ENVELOPE, when they are answered.
LEMMA ExchangeKinds ==
    ASSUME TypeOK, PhaseReady, Exchange \/ ExchangeRefused \/ ExchangeRejected \/ Envelope
    PROVE  ControlOK' /\ StepKind
  <1> USE DEF StepKind
  <1>0. /\ "AccessProtocolError" \in Exceptions
        /\ {"serve", "refuse", "envelope"} \subseteq Continuations
        /\ {"exchange", "refusal", "document"} \subseteq MessageTypes
    BY DEF Exceptions, Continuations, MessageTypes
  <1>1. Active /\ WithinBound /\ pc = "serving" /\ pc # "chaining"
    BY DEF Exchange, ExchangeRefused, ExchangeRejected, ExchangeHandled, Envelope,
           ReceiveCommand, ReceiveExchange, Receive, Waiting, Active
  <1>2. /\ expedited \in Engines /\ stepup \in Engines
        /\ \A ins : /\ Same(expedited, ExpeditedAfter(ins)) /\ expedited.enc <= MaxCounter
                    /\ Same(stepup, StepupAfter(ins)) /\ stepup.enc <= MaxCounter
    BY <1>1, Decryption DEF TypeOK, SessionOK
  <1>3. \A ins : /\ ExpeditedAfter(ins) \in Engines /\ ExpeditedAfter(ins).enc <= MaxCounter
                 /\ ExpeditedAfter(ins) # NoEngine <=> expedited # NoEngine
                 /\ StepupAfter(ins) \in Engines /\ StepupAfter(ins).enc <= MaxCounter
                 /\ StepupAfter(ins) # NoEngine <=> stepup # NoEngine
    BY <1>2, SameEngine
  <1>4. ASSUME ExchangeHandled
        PROVE  /\ PhaseKept /\ state' \notin AfterAuth0
               /\ IF InStepUpPhase THEN stepup # NoEngine ELSE expedited # NoEngine
               /\ ~ InStepUpPhase => state' \notin StepUpPhase
               /\ ursk' \in {"unavailable", "available"}
    <2>1. InStepUpPhase => stepup # NoEngine
      BY <1>4 DEF ExchangeHandled, Deciphers, DecryptionEngine, InStepUpPhase
    <2>2. state = "SELECT_STEP_UP_DONE" => expedited # NoEngine
      BY <1>1, EngineTypes DEF PhaseReady, ExpeditedPhase
    <2>3. ~ InStepUpPhase => expedited # NoEngine
      BY <1>4, <2>2 DEF ExchangeHandled, ExchangeStates, Deciphers, DecryptionEngine, InStepUpPhase
    <2>4. /\ state' \in States /\ state' \notin AfterAuth0
          /\ ~ InStepUpPhase => state' \notin StepUpPhase
          /\ state' \in ExpeditedPhase => state \in ExpeditedPhase
          /\ state' \in StepUpPhase => state \in StepUpPhase
      BY <1>4 DEF ExchangeHandled, ExchangeStates, InStepUpPhase, States, AfterAuth0,
                  ExpeditedPhase, StepUpPhase
    <2>5. ursk' \in {"unavailable", "available"}
      BY <1>4 DEF ExchangeHandled, TypeOK, SessionOK
    <2>6. PhaseKept
      BY <1>1, <2>4 DEF PhaseKept, AfterAuth0
    <2>7. QED
      BY <2>1, <2>3, <2>4, <2>5, <2>6
  <1>5. ASSUME ExchangeHandled, NEW t \in {"exchange", "refusal"}, NEW k \in {"serve", "refuse"},
               ExchangeResponse(t, k), atomic' \in {"stopped", "started"}
        PROVE  ControlOK' /\ Answered
    <2>1. ResponseEngine \in Engines
      BY <1>3 DEF ResponseEngine
    <2>2. /\ out' \in Messages /\ out'.nonce = Nonce(ResponseEngine)
          /\ out'.type # "document"
      BY <1>0, <1>5, <2>1, MessagesOK DEF ExchangeResponse
    <2>3. ControlOK' /\ ~ EnvelopePending'
      BY <1>0, <1>5, <2>2, TransmitStep DEF ExchangeResponse, ControlOK
    <2>4. CASE InStepUpPhase
      BY <1>2, <1>3, <1>4, <1>5, <2>2, <2>3, <2>4
      DEF ExchangeResponse, ResponseEngine, ExchangeHandled, Answered
    <2>5. CASE ~ InStepUpPhase
      BY <1>2, <1>3, <1>4, <1>5, <2>2, <2>3, <2>5
      DEF ExchangeResponse, ResponseEngine, ExchangeHandled, Answered
    <2>6. QED
      BY <2>3, <2>4, <2>5
  <1>6. CASE Exchange
    <2>1. atomic' \in {"stopped", "started"}
      BY <1>6 DEF Exchange, TypeOK, DeviceOK
    <2>2. QED
      BY <1>5, <1>6, <2>1 DEF Exchange
  <1>7. CASE ExchangeRefused
    BY <1>5, <1>7 DEF ExchangeRefused, TypeOK, DeviceOK
  <1>8. CASE ExchangeRejected
    <2>1. ControlOK' /\ Plain /\ ~ EnvelopePending' /\ ~ Active'
      BY <1>0, <1>8, ThrowStep DEF ExchangeRejected, TypeOK
    <2>2. QED
      BY <1>2, <1>4, <1>8, <2>1
      DEF ExchangeRejected, ExchangeHandled, Kept, TypeOK, SessionOK, DeviceOK
  <1>9. CASE Envelope
    <2> DEFINE g == StepupAfter("ENVELOPE")
    <2>1. /\ g \in Engines /\ g # NoEngine /\ g.enc <= MaxCounter /\ Same(stepup, g)
          /\ stepup' = Encrypted(g) /\ stepup' # NoEngine
          /\ out' = SecureMessage("document", g) /\ nonces' = nonces \cup {Nonce(g)}
      BY <1>2, <1>3, <1>9, EngineSteps DEF Envelope
    <2>2. ControlOK' /\ out'.nonce = Nonce(g)
      BY <1>0, <1>9, <2>1, MessagesOK, TransmitStep DEF Envelope, ControlOK
    <2>3. PhaseKept /\ state' \notin AfterAuth0
      BY <1>1, <1>9, <2>1
      DEF Envelope, EnvelopeStates, PhaseKept, States, AfterAuth0, ExpeditedPhase, StepUpPhase
    <2>4. Same(expedited, expedited') /\ UNCHANGED <<eph, reader, cert, used, kpersistent, verified>>
          /\ atomic' \in {"stopped", "started"} /\ ursk' \in {"unavailable", "available"}
      BY <1>9 DEF Envelope, Same, TypeOK, SessionOK, DeviceOK
    <2>5. QED
      BY <2>1, <2>2, <2>3, <2>4 DEF Answered
  <1>10. QED
    BY <1>6, <1>7, <1>8, <1>9

\* The end of a transaction, chained responses, and the second try block's clauses.
LEMMA EndKinds ==
    ASSUME TypeOK, PhaseReady,
           \/ ControlFlow \/ BleCompletes \/ BleMessageHandled \/ BleMessageFails
           \/ ChainDone \/ ChainBroken \/ ChainTimesOut
           \/ CatchInMainLoop \/ CatchInSingle \/ NotCaught \/ CallAgain
    PROVE  ControlOK' /\ StepKind
  <1> USE DEF StepKind
  <1>0. /\ Locations = {"idle", "initiation", "serving", "chaining", "parseFailed",
                        "handleFailed", "returned", "raised"}
        /\ {"none", "AccessProtocolError", "NoDeviceConnectedError", "BLEMessageError",
            "NotImplementedError"} \subseteq Exceptions
        /\ Continuations = {"serve", "envelope", "refuse", "initiate"}
        /\ {"control_flow", "event"} \subseteq MessageTypes
    BY DEF Locations, Exceptions, Continuations, MessageTypes
  <1>1. \A m \in {Silent, Message("event"), Message("control_flow")} :
           m \in Messages /\ m.nonce = NoNonce /\ m.type # "document"
    BY <1>0, MessagesOK
  <1>2. ASSUME NEW s, s \in States \ AfterAuth0 \/ s = state, s \notin ExpeditedPhase \/ s = state,
               s \notin StepUpPhase \/ s = state,
               Complete(s), out' \in {Silent, Message("event"), Message("control_flow")},
               UNCHANGED device
        PROVE  ControlOK' /\ (Dropped \/ Kept)
    <2>1. ControlOK' /\ Plain /\ ~ EnvelopePending' /\ ~ Active'
      BY <1>0, <1>1, <1>2
      DEF Complete, TransactionTermination, Disconnect, ControlOK, Plain, EnvelopePending, Active
    <2>2. CASE TransactionTermination
      BY <1>2, <2>1, <2>2
      DEF Dropped, TransactionTermination, EndSession, TypeOK, DeviceOK, device
    <2>3. CASE state' = s /\ UNCHANGED <<eph, reader, cert, expedited, stepup, ursk>>
      BY <1>2, <2>1, <2>3
      DEF Kept, PhaseKept, Same, TypeOK, SessionOK, DeviceOK, device
    <2>4. QED
      BY <1>2, <2>2, <2>3 DEF Complete
  <1>3. ASSUME state' \in AfterBleMessage, Active, Plain, ~ EnvelopePending', UNCHANGED device,
               UNCHANGED <<eph, reader, cert, expedited, stepup, ursk>>
        PROVE  Kept
    BY <1>3
    DEF AfterBleMessage, Kept, PhaseKept, Same, States, AfterAuth0, ExpeditedPhase, StepUpPhase,
        TypeOK, SessionOK, DeviceOK, device
  <1>4. \A s \in AfterBleMessage \cup {"SELECT_DONE"} :
           /\ s \in States \ AfterAuth0 \/ s = state
           /\ s \notin ExpeditedPhase \/ s = state
           /\ s \notin StepUpPhase \/ s = state
    BY DEF AfterBleMessage, States, AfterAuth0, ExpeditedPhase, StepUpPhase
  <1>5. CASE ControlFlow
    <2>1. CASE Complete("SELECT_DONE")
      BY <1>2, <1>4, <1>5, <2>1 DEF ControlFlow
    <2>2. CASE /\ ThrowWhileSending("serve", "NoDeviceConnectedError")
               /\ link' = "down" /\ state' = "SELECT_DONE"
               /\ UNCHANGED <<eph, reader, cert, expedited, stepup, ursk>>
      <3>1. ControlOK' /\ Plain /\ ~ EnvelopePending' /\ ~ Active'
        BY <1>0, <1>1, <1>5, <2>2
        DEF ControlFlow, ThrowWhileSending, ControlOK, Plain, EnvelopePending, Active
      <3>2. QED
        BY <1>5, <2>2, <3>1
        DEF ControlFlow, Kept, PhaseKept, Same, States, AfterAuth0, TypeOK, SessionOK, DeviceOK,
            device
    <2>3. QED
      BY <1>5, <2>1, <2>2 DEF ControlFlow
  <1>6. CASE BleCompletes
    <2>1. PICK s \in AfterBleMessage :
             \/ Loop = "single" /\ Complete(s)
             \/ /\ Loop = "main" /\ state' = s
                /\ UNCHANGED <<pc, exc, link, resume, eph, reader, cert, expedited, stepup, ursk>>
      BY <1>6 DEF BleCompletes
    <2>2. CASE Complete(s)
      BY <1>2, <1>4, <1>6, <2>2 DEF BleCompletes
    <2>3. CASE /\ state' = s
               /\ UNCHANGED <<pc, exc, link, resume, eph, reader, cert, expedited, stepup, ursk>>
      <3>1. ControlOK' /\ Plain /\ ~ EnvelopePending' /\ Active
        BY <1>1, <1>6, <2>3
        DEF BleCompletes, Receive, Waiting, TypeOK, ControlOK, Plain, EnvelopePending, Active
      <3>2. QED
        BY <1>3, <1>6, <2>3, <3>1 DEF BleCompletes
    <2>4. QED
      BY <2>1, <2>2, <2>3
  <1>7. CASE BleMessageHandled
    <2>1. ControlOK' /\ Plain /\ ~ EnvelopePending' /\ Active
      BY <1>1, <1>7
      DEF BleMessageHandled, Receive, Waiting, TypeOK, ControlOK, Plain, EnvelopePending, Active
    <2>2. QED
      BY <1>7, <2>1, UnchangedStep DEF BleMessageHandled
  <1>8. CASE BleMessageFails
    <2>1. ControlOK' /\ Plain /\ ~ EnvelopePending' /\ Active
      BY <1>0, <1>1, <1>8
      DEF BleMessageFails, Throw, ThrowWhileSending, Receive, Waiting, TypeOK, ControlOK, Plain,
          EnvelopePending, Active
    <2>2. QED
      BY <1>3, <1>8, <2>1 DEF BleMessageFails
  <1>9. CASE ChainDone
    <2>1. ControlOK' /\ Plain /\ ~ EnvelopePending' /\ Active
      BY <1>0, <1>1, <1>9
      DEF ChainDone, Delivered, TypeOK, ControlOK, Plain, EnvelopePending, Active
    <2>2. CASE resume = "envelope"
      BY <1>9, <2>1, <2>2
      DEF ChainDone, Kept, PhaseKept, EnvelopePending, Same, States, AfterAuth0, ExpeditedPhase,
          StepUpPhase, TypeOK, SessionOK, DeviceOK, device
    <2>3. CASE resume # "envelope"
      BY <1>9, <2>1, <2>3, UnchangedStep DEF ChainDone, session
    <2>4. QED
      BY <2>2, <2>3
  <1>10. CASE ChainBroken
    <2>1. ControlOK' /\ Plain /\ ~ EnvelopePending' /\ ~ Active'
      BY <1>0, <1>1, <1>10
      DEF ChainBroken, ThrowWhileSending, TypeOK, ControlOK, Plain, EnvelopePending, Active
    <2>2. QED
      BY <1>10, <2>1, UnchangedStep DEF ChainBroken
  <1>11. CASE ChainTimesOut
    BY <1>0, <1>11, HandleTimeoutStep DEF ChainTimesOut, Active
  <1>12. CASE CatchInMainLoop \/ NotCaught \/ CallAgain
    <2>1. ControlOK' /\ Plain /\ ~ EnvelopePending' /\ ~ Active' /\ UNCHANGED <<session, device>>
      BY <1>0, <1>1, <1>12
      DEF CatchInMainLoop, NotCaught, CallAgain, TypeOK, ControlOK, Plain, EnvelopePending, Active
    <2>2. QED
      BY <2>1, UnchangedStep
  <1>13. CASE CatchInSingle
    <2>1. CASE FailureReported("returned", "none")
      BY <1>0, <1>13, <2>1, FailureReportedStep DEF CatchInSingle, device, TypeOK, DeviceOK
    <2>2. CASE FailureUnsent("raised") /\ UNCHANGED session
      <3>1. ControlOK' /\ Plain /\ ~ EnvelopePending' /\ ~ Active'
        BY <1>0, <2>2, FailureUnsentStep DEF Active
      <3>2. QED
        BY <1>13, <2>2, <3>1, UnchangedStep DEF CatchInSingle
    <2>3. CASE pc' = "raised" /\ out' = Silent /\ UNCHANGED <<exc, link, resume, session>>
      <3>1. ControlOK' /\ Plain /\ ~ EnvelopePending' /\ ~ Active'
        BY <1>0, <1>1, <2>3 DEF TypeOK, ControlOK, Plain, EnvelopePending, Active
      <3>2. QED
        BY <1>13, <2>3, <3>1, UnchangedStep DEF CatchInSingle
    <2>4. QED
      BY <1>13, <2>1, <2>2, <2>3 DEF CatchInSingle
  <1>14. QED
    BY <1>5, <1>6, <1>7, <1>8, <1>9, <1>10, <1>11, <1>12, <1>13

\* A step of the device is one of the five.
LEMMA StepKinds ==
    ASSUME TypeOK, PhaseReady, Next
    PROVE  ControlOK' /\ StepKind
  <1>1. CASE Connect \/ InitiationSelect \/ InitiationRetry \/ InitiationFails
    BY <1>1, InitiationKinds
  <1>2. CASE \/ SessionMissing \/ ReaderLeaves \/ ReceiveTimesOut \/ ReceiveRetry
             \/ ReceiveTruncated \/ ReceiveInvalid \/ ReceiveUncaught
             \/ ReceiveUnverifiable \/ ReceiveBadExchange \/ CatchParseFailure
    BY <1>2, ReceiveKinds
  <1>3. CASE \/ RejectWhileAtomic \/ ReceiveGetResponse \/ Auth0Unexpected
             \/ ExchangeUnexpected \/ ExchangeExhausted \/ ExchangeOpaque \/ EnvelopeRejected
    BY <1>3, RejectionKinds
  <1>4. CASE SelectExpedited \/ SelectStepUp \/ LoadCert \/ Auth1Rejected
    BY <1>4, SelectKinds
  <1>5. CASE Auth0Rejected \/ (\E r \in Known : Auth0Standard(r) \/ Auth0Fast(r)) \/ Auth1
    BY <1>5, HandshakeKinds
  <1>6. CASE Exchange \/ ExchangeRefused \/ ExchangeRejected \/ Envelope
    BY <1>6, ExchangeKinds
  <1>7. CASE \/ ControlFlow \/ BleCompletes \/ BleMessageHandled \/ BleMessageFails
             \/ ChainDone \/ ChainBroken \/ ChainTimesOut
             \/ CatchInMainLoop \/ CatchInSingle \/ NotCaught \/ CallAgain
    BY <1>7, EndKinds
  <1>8. QED
    BY <1>1, <1>2, <1>3, <1>4, <1>5, <1>6, <1>7 DEF Next

-----------------------------------------------------------------------------
(* Each of the five preserves the invariant.                                *)

\* The variables that the cases below do arithmetic on.
LEMMA Bounds ==
    ASSUME TypeOK
    PROVE  /\ used \in Nat /\ eph \in Nat /\ MaxEphemeral \in Nat
           /\ \A e \in Handshakes : e \in Nat
           /\ \A n \in nonces : n[1] \in Nat /\ n[3] \in Nat
           /\ expedited \in Engines /\ stepup \in Engines
           /\ expedited.eph \in Nat /\ expedited.enc \in Nat
           /\ stepup.eph \in Nat /\ stepup.enc \in Nat
  <1>1. \A n \in Nonces : n[1] \in Nat /\ n[3] \in Nat
    BY UserDeviceAssumption DEF Nonces
  <1>2. QED
    BY <1>1, UserDeviceAssumption, EngineSteps
    DEF TypeOK, SessionOK, DeviceOK, Handshakes

\* Ending or replacing the session.
LEMMA DroppedPreserves ==
    ASSUME DeviceInv, ControlOK', Dropped
    PROVE  DeviceInv'
  <1>1. SessionOK' /\ DeviceOK'
    BY EngineTypes, UserDeviceAssumption
    DEF DeviceInv, TypeOK, SessionOK, DeviceOK, Dropped, States, Certificates
  <1>2. Numbered' /\ used' \in Nat
    BY <1>1, Bounds, UserDeviceAssumption DEF DeviceInv, Numbered, Dropped, DeviceOK
  <1>3. EnginesTrusted' /\ NoncesBehind'
    BY DEF Dropped, EnginesTrusted, NoncesBehind
  <1>4. HandshakeFresh' /\ PhaseReady'
    BY DEF Dropped, HandshakeFresh, PhaseReady, AfterAuth0, ExpeditedPhase, StepUpPhase,
           EnvelopePending
  <1>5. KpersistentVerified' /\ DocumentsOnlyToVerified'
    BY DEF DeviceInv, Dropped, Plain, KpersistentVerified, DocumentsOnlyToVerified
  <1>6. QED
    BY <1>1, <1>2, <1>3, <1>4, <1>5 DEF DeviceInv, TypeOK

\* Moving inside a phase.
LEMMA KeptPreserves ==
    ASSUME DeviceInv, ControlOK', Kept
    PROVE  DeviceInv'
  <1>1. /\ expedited' \in Engines /\ expedited'.eph = expedited.eph
        /\ expedited'.kind = expedited.kind /\ expedited'.enc = expedited.enc
        /\ expedited' # NoEngine <=> expedited # NoEngine
        /\ stepup' \in Engines /\ stepup'.eph = stepup.eph
        /\ stepup'.kind = stepup.kind /\ stepup'.enc = stepup.enc
        /\ stepup' # NoEngine <=> stepup # NoEngine
    BY Bounds, SameEngine DEF DeviceInv, Kept
  <1>2. SessionOK' /\ DeviceOK'
    BY <1>1 DEF DeviceInv, TypeOK, SessionOK, DeviceOK, Kept, PhaseKept
  <1>3. Numbered'
    BY DEF DeviceInv, Numbered, Kept
  <1>4. EnginesTrusted'
    BY <1>1 DEF DeviceInv, EnginesTrusted, Kept
  <1>5. NoncesBehind'
    BY <1>1 DEF DeviceInv, NoncesBehind, Ahead, Kept
  <1>6. HandshakeFresh'
    BY DEF DeviceInv, HandshakeFresh, Kept, PhaseKept
  <1>7. PhaseReady'
    <2>1. Active' /\ state' \in ExpeditedPhase => expedited'.eph = eph' /\ eph' # 0
      BY <1>1 DEF DeviceInv, PhaseReady, Kept, PhaseKept
    <2>2. Active' /\ state' \in StepUpPhase => stepup' # NoEngine
      BY <1>1 DEF DeviceInv, PhaseReady, Kept, PhaseKept, EnvelopePending
    <2>3. Active' /\ state' = "AUTH0_FAST_DONE" => kpersistent'[reader'] # 0
      BY DEF DeviceInv, PhaseReady, Kept, PhaseKept, AfterAuth0
    <2>4. EnvelopePending' => stepup' # NoEngine
      BY <1>1 DEF DeviceInv, PhaseReady, Kept, EnvelopePending, Active
    <2>5. QED
      BY <2>1, <2>2, <2>3, <2>4 DEF PhaseReady, EnvelopePending
  <1>8. KpersistentVerified' /\ DocumentsOnlyToVerified'
    BY DEF DeviceInv, Kept, Plain, KpersistentVerified, DocumentsOnlyToVerified
  <1>9. QED
    BY <1>2, <1>3, <1>4, <1>5, <1>6, <1>7, <1>8 DEF DeviceInv, TypeOK

\* A new ephemeral key is larger than any that was used.
LEMMA NewHandshakePreserves ==
    ASSUME DeviceInv, ControlOK', NewHandshake
    PROVE  DeviceInv'
  <1> USE Bounds DEF DeviceInv
  <1>1. used + 1 \in Handshakes /\ used + 1 \in 0 .. MaxEphemeral
    BY UserDeviceAssumption DEF NewHandshake, Handshakes
  <1>2. /\ NewEngine(used + 1, "fast") \in Engines /\ NewEngine(used + 1, "fast") # NoEngine
        /\ NewEngine(used + 1, "fast").eph = used + 1
        /\ NewEngine(used + 1, "fast").kind = "fast"
        /\ NewEngine(used + 1, "fast").enc = 1
    BY <1>1, EngineTypes
  <1>3. verified[used + 1] = NoReader /\ \A n \in nonces : n[1] # used + 1
    BY <1>1 DEF Numbered
  <1>4. SessionOK' /\ DeviceOK'
    BY <1>1, <1>2 DEF TypeOK, SessionOK, DeviceOK, NewHandshake, States
  <1>5. Numbered'
    BY DEF Numbered, NewHandshake
  <1>6. EnginesTrusted'
    BY <1>2 DEF EnginesTrusted, NewHandshake
  <1>7. NoncesBehind'
    BY <1>2, <1>3 DEF NoncesBehind, Ahead, NewHandshake
  <1>8. HandshakeFresh'
    <2>1. state' \in AfterAuth0 => reader' \in Readers
      BY DEF NewHandshake, HandshakeFresh
    <2>2. QED
      BY <1>3, <2>1 DEF HandshakeFresh, NewHandshake
  <1>9. PhaseReady'
    BY <1>2 DEF PhaseReady, NewHandshake, ExpeditedPhase, StepUpPhase, EnvelopePending
  <1>10. KpersistentVerified' /\ DocumentsOnlyToVerified'
    BY DEF NewHandshake, Plain, KpersistentVerified, DocumentsOnlyToVerified
  <1>11. QED
    BY <1>4, <1>5, <1>6, <1>7, <1>8, <1>9, <1>10 DEF TypeOK

\* What AUTH1 finds: a fresh handshake.
LEMMA Auth1Facts ==
    ASSUME DeviceInv, Auth1
    PROVE  /\ eph \in Handshakes /\ eph \in 0 .. MaxEphemeral /\ reader \in Readers
           /\ verified[eph] = NoReader /\ \A n \in nonces : n[1] # eph
           /\ NewEngine(eph, "standard") \in Engines
           /\ Nonce(NewEngine(eph, "standard")) = <<eph, "standard", 1>>
           /\ out'.nonce = <<eph, "standard", 1>> /\ out'.type = "auth1"
           /\ nonces' = nonces \cup {<<eph, "standard", 1>>}
           /\ expedited' \in Engines /\ expedited' # NoEngine
           /\ expedited'.eph = eph /\ expedited'.kind = "standard" /\ expedited'.enc = 2
           /\ stepup' \in Engines /\ stepup' # NoEngine
           /\ stepup'.eph = eph /\ stepup'.kind = "stepup" /\ stepup'.enc = 1
  <1>1. /\ eph \in Handshakes /\ eph \in 0 .. MaxEphemeral /\ reader \in Readers
        /\ verified[eph] = NoReader /\ \A n \in nonces : n[1] # eph
    BY DEF DeviceInv, TypeOK, SessionOK, HandshakeFresh, Auth1, Handshakes
  <1>2. /\ NewEngine(eph, "standard") \in Engines
        /\ NewEngine(eph, "standard").eph = eph
        /\ NewEngine(eph, "standard").kind = "standard" /\ NewEngine(eph, "standard").enc = 1
        /\ stepup' \in Engines /\ stepup' # NoEngine
        /\ stepup'.eph = eph /\ stepup'.kind = "stepup" /\ stepup'.enc = 1
    BY <1>1, EngineTypes DEF Auth1
  <1>3. Nonce(NewEngine(eph, "standard")) = <<eph, "standard", 1>>
    BY <1>2 DEF Nonce
  <1>4. /\ out' = SecureMessage("auth1", NewEngine(eph, "standard"))
        /\ nonces' = nonces \cup {<<eph, "standard", 1>>}
        /\ expedited' = Encrypted(NewEngine(eph, "standard"))
    BY <1>3 DEF Auth1
  <1>5. out'.nonce = <<eph, "standard", 1>> /\ out'.type = "auth1"
    BY <1>2, <1>3, <1>4, MessagesOK DEF MessageTypes
  <1>6. /\ expedited' \in Engines /\ expedited' # NoEngine
        /\ expedited'.eph = eph /\ expedited'.kind = "standard" /\ expedited'.enc = 2
    BY <1>2, <1>4, EngineSteps, UserDeviceAssumption
  <1>7. QED
    BY <1>1, <1>2, <1>3, <1>4, <1>5, <1>6

\* AUTH1 turns a fresh handshake into a verified one.
LEMMA Auth1Preserves ==
    ASSUME DeviceInv, ControlOK', Auth1
    PROVE  DeviceInv'
  <1> USE Bounds, Auth1Facts DEF DeviceInv
  <1>1. /\ used' = used /\ eph' = eph /\ reader' = reader /\ state' = "AUTH1_DONE"
        /\ kpersistent' = [kpersistent EXCEPT ![reader] = eph]
        /\ verified' = [verified EXCEPT ![eph] = reader]
        /\ cert' \in Certificates /\ atomic' = atomic /\ ursk' = ursk
    BY DEF Auth1, TypeOK, SessionOK, Certificates
  <1>2. /\ verified'[eph] = reader /\ reader # NoReader
        /\ \A e \in Handshakes : e # eph => verified'[e] = verified[e]
        /\ \A e \in Handshakes : verified[e] # NoReader => verified'[e] = verified[e]
    BY <1>1, UserDeviceAssumption DEF TypeOK, DeviceOK
  <1>3. SessionOK' /\ DeviceOK'
    <2>1. <<eph, "standard", 1>> \in Nonces
      BY EngineSteps
    <2>2. QED
      BY <1>1, <2>1 DEF TypeOK, SessionOK, DeviceOK, States
  <1>4. Numbered'
    BY <1>1, <1>2 DEF Numbered
  <1>5. EnginesTrusted'
    BY <1>1, <1>2 DEF EnginesTrusted, Numbered, Handshakes
  <1>6. NoncesBehind'
    BY DEF NoncesBehind, Ahead
  <1>7. HandshakeFresh' /\ PhaseReady'
    <2>1. ~ EnvelopePending'
      BY TransmitStep DEF Auth1, Continuations
    <2>2. QED
      BY <1>1, <2>1
      DEF HandshakeFresh, PhaseReady, AfterAuth0, ExpeditedPhase, StepUpPhase, EnvelopePending,
          Handshakes
  <1>8. KpersistentVerified'
    <2>1. ASSUME NEW r \in Readers, kpersistent'[r] # 0
          PROVE  verified'[kpersistent'[r]] = r
      <3>1. CASE r = reader
        BY <1>1, <1>2, <3>1 DEF TypeOK, DeviceOK
      <3>2. CASE r # reader
        <4>1. kpersistent'[r] = kpersistent[r] /\ kpersistent[r] \in Handshakes
          BY <1>1, <2>1, <3>2 DEF TypeOK, DeviceOK, Handshakes
        <4>2. verified[kpersistent[r]] = r /\ r # NoReader
          BY <2>1, <4>1, UserDeviceAssumption DEF KpersistentVerified
        <4>3. QED
          BY <1>2, <4>1, <4>2
      <3>3. QED
        BY <3>1, <3>2
    <2>2. QED
      BY <2>1 DEF KpersistentVerified
  <1>9. DocumentsOnlyToVerified'
    BY DEF DocumentsOnlyToVerified
  <1>10. QED
    BY <1>3, <1>4, <1>5, <1>6, <1>7, <1>8, <1>9 DEF TypeOK

\* The engine g answers, as a step-up or as an expedited engine: it keeps its key
\* and moves past the nonce it uses.
Answers(g) ==
    /\ g # NoEngine /\ g.eph <= used /\ g.eph \in Nat /\ g.enc \in Nat
    /\ \/ /\ g.eph = stepup.eph /\ g.kind = stepup.kind /\ g.enc = stepup.enc
          /\ stepup # NoEngine
          /\ stepup' \in Engines /\ stepup' # NoEngine /\ stepup'.eph = g.eph
          /\ stepup'.kind = g.kind /\ stepup'.enc = g.enc + 1
          /\ Same(expedited, expedited')
       \/ /\ g.eph = expedited.eph /\ g.kind = expedited.kind /\ g.enc = expedited.enc
          /\ expedited # NoEngine
          /\ expedited' \in Engines /\ expedited' # NoEngine /\ expedited'.eph = g.eph
          /\ expedited'.kind = g.kind /\ expedited'.enc = g.enc + 1
          /\ Same(stepup, stepup')
          /\ out'.type # "document" /\ ~ EnvelopePending'
    /\ \A n \in nonces : n[1] = g.eph /\ n[2] = g.kind => n[3] < g.enc
    /\ Nonce(g) \in Nonces /\ Nonce(g)[1] = g.eph /\ Nonce(g)[2] = g.kind
    /\ Nonce(g)[3] = g.enc
    /\ out'.nonce = Nonce(g) /\ nonces' = nonces \cup {Nonce(g)}

\* One of the engines of the session answers.
LEMMA AnsweredFacts ==
    ASSUME DeviceInv, Answered
    PROVE  \E g \in Engines : Answers(g)
  <1> USE Bounds DEF DeviceInv
  <1>1. CASE \E g : /\ Same(stepup, g) /\ g # NoEngine /\ g.enc <= MaxCounter
                    /\ stepup' = Encrypted(g) /\ Same(expedited, expedited')
                    /\ out'.nonce = Nonce(g) /\ nonces' = nonces \cup {Nonce(g)}
    <2>1. PICK g : /\ Same(stepup, g) /\ g # NoEngine /\ g.enc <= MaxCounter
                   /\ stepup' = Encrypted(g) /\ Same(expedited, expedited')
                   /\ out'.nonce = Nonce(g) /\ nonces' = nonces \cup {Nonce(g)}
      BY <1>1
    <2>2. /\ g \in Engines /\ g.eph = stepup.eph /\ g.kind = stepup.kind /\ g.enc = stepup.enc
          /\ stepup # NoEngine
      BY <2>1, SameEngine
    <2>3. g.eph <= used /\ \A n \in nonces : n[1] = g.eph /\ n[2] = g.kind => n[3] < g.enc
      BY <2>2 DEF EnginesTrusted, NoncesBehind, Ahead
    <2>4. QED
      BY <2>1, <2>2, <2>3, EngineSteps DEF Answers
  <1>2. CASE \E g : /\ Same(expedited, g) /\ g # NoEngine /\ g.enc <= MaxCounter
                    /\ expedited' = Encrypted(g) /\ Same(stepup, stepup')
                    /\ out'.nonce = Nonce(g) /\ nonces' = nonces \cup {Nonce(g)}
                    /\ out'.type # "document" /\ ~ EnvelopePending'
    <2>1. PICK g : /\ Same(expedited, g) /\ g # NoEngine /\ g.enc <= MaxCounter
                   /\ expedited' = Encrypted(g) /\ Same(stepup, stepup')
                   /\ out'.nonce = Nonce(g) /\ nonces' = nonces \cup {Nonce(g)}
                   /\ out'.type # "document" /\ ~ EnvelopePending'
      BY <1>2
    <2>2. /\ g \in Engines /\ g.eph = expedited.eph /\ g.kind = expedited.kind
          /\ g.enc = expedited.enc /\ expedited # NoEngine
      BY <2>1, SameEngine
    <2>3. g.eph <= used /\ \A n \in nonces : n[1] = g.eph /\ n[2] = g.kind => n[3] < g.enc
      BY <2>2 DEF EnginesTrusted, NoncesBehind, Ahead
    <2>4. QED
      BY <2>1, <2>2, <2>3, EngineSteps DEF Answers
  <1>3. QED
    BY <1>1, <1>2 DEF Answered

\* An encrypted answer inside a phase.
LEMMA AnsweredPreserves ==
    ASSUME DeviceInv, ControlOK', Answered
    PROVE  DeviceInv'
  <1> USE Bounds DEF DeviceInv
  <1>1. PICK g \in Engines : Answers(g)
    BY AnsweredFacts
  <1>2. /\ expedited' \in Engines /\ expedited'.eph = expedited.eph
        /\ expedited'.kind = expedited.kind /\ expedited.enc <= expedited'.enc
        /\ expedited' # NoEngine <=> expedited # NoEngine
        /\ stepup' \in Engines /\ stepup'.eph = stepup.eph
        /\ stepup'.kind = stepup.kind /\ stepup.enc <= stepup'.enc
        /\ stepup' # NoEngine <=> stepup # NoEngine
        /\ expedited'.enc \in Nat /\ stepup'.enc \in Nat
    BY <1>1, SameEngine DEF Answers
  <1>3. /\ UNCHANGED <<eph, reader, cert, used, kpersistent, verified>>
        /\ PhaseKept /\ state' \notin AfterAuth0
    BY DEF Answered
  <1>4. SessionOK' /\ DeviceOK'
    BY <1>1, <1>2, <1>3 DEF TypeOK, SessionOK, DeviceOK, Answered, PhaseKept, Answers
  <1>5. Numbered'
    BY <1>1, <1>3 DEF Numbered, Answers
  <1>6. EnginesTrusted'
    BY <1>2, <1>3 DEF EnginesTrusted
  <1>7. NoncesBehind'
    <2>1. \A n \in nonces' : n \in nonces \/ (n[1] = g.eph /\ n[2] = g.kind /\ n[3] = g.enc)
      BY <1>1 DEF Answers
    <2>2. ASSUME NEW h, h.eph = g.eph, h.kind = g.kind, h.enc = g.enc + 1
          PROVE  \A n \in nonces' : n[1] = h.eph /\ n[2] = h.kind => n[3] < h.enc
      BY <1>1, <2>1, <2>2 DEF Answers
    <2>4. CASE /\ stepup # NoEngine /\ stepup.kind = g.kind /\ stepup'.eph = g.eph
               /\ stepup'.kind = g.kind /\ stepup'.enc = g.enc + 1
               /\ Same(expedited, expedited')
      <3>1. \A n \in nonces' : n[1] = stepup'.eph /\ n[2] = stepup'.kind => n[3] < stepup'.enc
        BY <2>2, <2>4
      <3>2. expedited # NoEngine => expedited.kind # g.kind /\ Ahead(expedited)
        BY <2>4 DEF EnginesTrusted, NoncesBehind
      <3>3. expedited'.enc = expedited.enc
        BY <2>4, SameEngine
      <3>4. expedited' # NoEngine =>
              \A n \in nonces' : n[1] = expedited'.eph /\ n[2] = expedited'.kind
                                    => n[3] < expedited'.enc
        BY <1>2, <2>1, <3>2, <3>3 DEF Ahead
      <3>5. QED
        BY <3>1, <3>4 DEF NoncesBehind, Ahead
    <2>5. CASE /\ expedited # NoEngine /\ expedited.kind = g.kind /\ expedited'.eph = g.eph
               /\ expedited'.kind = g.kind /\ expedited'.enc = g.enc + 1
               /\ Same(stepup, stepup')
      <3>1. \A n \in nonces' : n[1] = expedited'.eph /\ n[2] = expedited'.kind
                                  => n[3] < expedited'.enc
        BY <2>2, <2>5
      <3>2. stepup # NoEngine => stepup.kind # g.kind /\ Ahead(stepup)
        BY <2>5 DEF EnginesTrusted, NoncesBehind
      <3>3. stepup'.enc = stepup.enc
        BY <2>5, SameEngine
      <3>4. stepup' # NoEngine =>
              \A n \in nonces' : n[1] = stepup'.eph /\ n[2] = stepup'.kind => n[3] < stepup'.enc
        BY <1>2, <2>1, <3>2, <3>3 DEF Ahead
      <3>5. QED
        BY <3>1, <3>4 DEF NoncesBehind, Ahead
    <2>6. QED
      BY <1>1, <2>4, <2>5 DEF Answers
  <1>8. HandshakeFresh'
    BY <1>3 DEF HandshakeFresh
  <1>9. PhaseReady'
    <2>1. Active' /\ state' \in ExpeditedPhase => expedited'.eph = eph' /\ eph' # 0
      BY <1>2, <1>3 DEF PhaseReady, PhaseKept
    <2>2. Active' /\ state' \in StepUpPhase => stepup' # NoEngine
      BY <1>2, <1>3 DEF PhaseReady, PhaseKept, EnvelopePending
    <2>3. state' # "AUTH0_FAST_DONE"
      BY <1>3 DEF AfterAuth0
    <2>4. EnvelopePending' => stepup' # NoEngine
      BY <1>1, <1>2 DEF Answers
    <2>5. QED
      BY <2>1, <2>2, <2>3, <2>4 DEF PhaseReady, EnvelopePending
  <1>10. KpersistentVerified'
    BY <1>3 DEF KpersistentVerified
  <1>11. DocumentsOnlyToVerified'
    BY <1>1, <1>3 DEF DocumentsOnlyToVerified, EnginesTrusted, Answers
  <1>12. QED
    BY <1>4, <1>5, <1>6, <1>7, <1>8, <1>9, <1>10, <1>11 DEF TypeOK

-----------------------------------------------------------------------------
(* The theorems.                                                            *)

\* The device starts with nothing.
LEMMA InitInv == Init => DeviceInv
  <1> SUFFICES ASSUME Init PROVE DeviceInv
    OBVIOUS
  <1>1. TypeOK
    BY EngineTypes, MessagesOK, UserDeviceAssumption
    DEF Init, TypeOK, ControlOK, SessionOK, DeviceOK, Locations, Exceptions, Continuations,
        States, Certificates
  <1>2. Numbered
    BY UserDeviceAssumption DEF Init, Numbered
  <1>3. EnginesTrusted /\ NoncesBehind /\ HandshakeFresh /\ PhaseReady /\ KpersistentVerified
    BY DEF Init, EnginesTrusted, NoncesBehind, HandshakeFresh, PhaseReady, KpersistentVerified,
           AfterAuth0, Active
  <1>4. DocumentsOnlyToVerified
    BY MessagesOK DEF Init, DocumentsOnlyToVerified
  <1>5. QED
    BY <1>1, <1>2, <1>3, <1>4 DEF DeviceInv

\* No step leaves the invariant.
LEMMA NextInv == DeviceInv /\ [Next]_vars => DeviceInv'
  <1> SUFFICES ASSUME DeviceInv, [Next]_vars PROVE DeviceInv'
    OBVIOUS
  <1>1. CASE Next
    <2>1. ControlOK' /\ StepKind
      BY <1>1, StepKinds DEF DeviceInv
    <2>2. QED
      BY <2>1, DroppedPreserves, KeptPreserves, NewHandshakePreserves, Auth1Preserves,
         AnsweredPreserves DEF StepKind
  <1>2. CASE UNCHANGED vars
    BY <1>2
    DEF vars, session, device, DeviceInv, TypeOK, ControlOK, SessionOK, DeviceOK, Numbered,
        EnginesTrusted, NoncesBehind, Ahead, HandshakeFresh, PhaseReady, Active,
        KpersistentVerified, DocumentsOnlyToVerified
  <1>3. QED
    BY <1>1, <1>2

\* In every reachable state the whole invariant holds: the counters of every
\* engine are ahead of the nonces used, and handshakes are what they claim.
THEOREM DeviceInvariant == Spec => []DeviceInv
  BY InitInv, NextInv, PTL DEF Spec

\* Every variable of the device keeps its type, for any readers and bounds.
THEOREM TypeCorrect == Spec => []TypeOK
  <1>1. DeviceInv => TypeOK
    BY DEF DeviceInv
  <1>2. QED
    BY <1>1, DeviceInvariant, PTL

\* ENVELOPE never sends an access document under keys of a handshake in which no
\* reader was verified by AUTH1.
THEOREM DocumentsVerified == Spec => []DocumentsOnlyToVerified
  <1>1. DeviceInv => DocumentsOnlyToVerified
    BY DEF DeviceInv
  <1>2. QED
    BY <1>1, DeviceInvariant, PTL

\* AUTH0 only ever starts a fast transaction with a reader that an earlier AUTH1
\* verified under the same identifier.
THEOREM FastVerified == Spec => []FastOnlyForVerified
  <1>1. DeviceInv => FastOnlyForVerified
    BY DEF DeviceInv, FastOnlyForVerified, PhaseReady, Active, Talking
  <1>2. QED
    BY <1>1, DeviceInvariant, PTL

\* handle_exchange and handle_envelope find the engine they answer with, and in
\* the expedited phase it is the one of the current AUTH0 or AUTH1.
THEOREM EngineCurrent == Spec => []EngineOfThisHandshake
  <1>1. DeviceInv => EngineOfThisHandshake
    BY DEF DeviceInv, EngineOfThisHandshake, PhaseReady, Active, Talking
  <1>2. QED
    BY <1>1, DeviceInvariant, PTL

\* A response is never encrypted with a nonce that was used before.
LEMMA FreshNonce ==
    ASSUME DeviceInv, [Next]_vars, vars' # vars, out'.nonce # NoNonce
    PROVE  out'.nonce \notin nonces
  <1>1. StepKind
    BY StepKinds DEF DeviceInv
  <1>2. CASE Dropped \/ Kept \/ NewHandshake
    BY <1>2 DEF Dropped, Kept, NewHandshake, Plain
  <1>3. CASE Auth1
    BY <1>3, Auth1Facts
  <1>4. CASE Answered
    <2>1. PICK g \in Engines : Answers(g)
      BY <1>4, AnsweredFacts
    <2>2. QED
      BY <2>1 DEF Answers
  <1>5. QED
    BY <1>1, <1>2, <1>3, <1>4 DEF StepKind

\* Whatever sequence of commands, errors and sessions the device goes through, no
\* two of its responses share a key and a counter of EncryptionEngine.encrypt.
THEOREM NoncesFresh == Spec => NonceNeverReused
  <1>1. DeviceInv /\ [Next]_vars => [out'.nonce # NoNonce => out'.nonce \notin nonces]_vars
    BY FreshNonce
  <1>2. QED
    BY <1>1, DeviceInvariant, PTL DEF Spec, NonceNeverReused

-----------------------------------------------------------------------------
(* How single_transaction returns.                                          *)

\* A step that does not make single_transaction return without a session.
Returns == pc' = "returned" => state' = "NONE" /\ expedited' = NoEngine

\* Waiting for a message and its errors.
LEMMA WaitingReturns ==
    ASSUME Loop = "single",
           \/ Connect \/ InitiationSelect \/ InitiationRetry \/ InitiationFails
           \/ SessionMissing \/ ReaderLeaves \/ ReceiveTimesOut \/ ReceiveRetry
           \/ ReceiveTruncated \/ ReceiveInvalid \/ ReceiveUncaught
           \/ ReceiveUnverifiable \/ ReceiveBadExchange \/ CatchParseFailure
           \/ RejectWhileAtomic \/ ReceiveGetResponse
    PROVE  Returns
  <1> USE DEF Returns, FailureProcess, FailureReported, FailureUnsent, Transmit, Delivered,
              ThrowWhileSending
  <1>1. CASE Connect \/ InitiationSelect \/ InitiationRetry \/ InitiationFails
    BY <1>1 DEF Connect, InitiationSelect, InitiationRetry, InitiationFails
  <1>2. CASE SessionMissing \/ ReaderLeaves \/ ReceiveTimesOut \/ ReceiveRetry
    BY <1>2 DEF SessionMissing, ReaderLeaves, ReceiveTimesOut, HandleTimeout, ReceiveRetry
  <1>3. CASE ReceiveTruncated \/ ReceiveInvalid \/ ReceiveUncaught \/ ReceiveBadExchange
    BY <1>3 DEF ReceiveTruncated, ReceiveInvalid, ReceiveUncaught, ReceiveBadExchange
  <1>4. CASE ReceiveUnverifiable \/ RejectWhileAtomic \/ ReceiveGetResponse
    BY <1>4 DEF ReceiveUnverifiable, RejectWhileAtomic, ReceiveGetResponse, Throw
  <1>5. CASE CatchParseFailure
    BY <1>5 DEF CatchParseFailure, TransactionTermination, EndSession
  <1>6. QED
    BY <1>1, <1>2, <1>3, <1>4, <1>5

\* The handlers of the access protocol go on or raise.
LEMMA HandlerReturns ==
    ASSUME \/ SelectExpedited \/ SelectStepUp \/ Auth0Unexpected \/ Auth0Rejected
           \/ \E r \in Known : Auth0Standard(r) \/ Auth0Fast(r)
           \/ LoadCert \/ Auth1Rejected \/ Auth1
           \/ ExchangeUnexpected \/ ExchangeExhausted \/ Exchange
           \/ ExchangeRefused \/ ExchangeRejected \/ ExchangeOpaque
           \/ EnvelopeRejected \/ Envelope
    PROVE  pc' # "returned"
  <1> USE DEF FailureProcess, FailureReported, FailureUnsent, Transmit, TransmitStatus, Delivered,
              ThrowWhileSending, Throw, UnexpectedState
  <1>1. CASE SelectExpedited \/ SelectStepUp \/ Auth0Unexpected \/ LoadCert \/ Auth1Rejected
    BY <1>1 DEF SelectExpedited, SelectStepUp, Auth0Unexpected, LoadCert, Auth1Rejected
  <1>2. CASE Auth0Rejected
    BY <1>2 DEF Auth0Rejected
  <1>3. CASE \/ \E r \in Known : Auth0Standard(r) \/ Auth0Fast(r)
             \/ Auth1
    BY <1>3 DEF Auth0Standard, Auth0Fast, Auth1
  <1>4. CASE ExchangeUnexpected \/ ExchangeExhausted \/ ExchangeOpaque \/ EnvelopeRejected
    BY <1>4 DEF ExchangeUnexpected, ExchangeExhausted, ExchangeOpaque, EnvelopeRejected
  <1>5. CASE Exchange \/ ExchangeRefused \/ ExchangeRejected \/ Envelope
    BY <1>5 DEF Exchange, ExchangeRefused, ExchangeRejected, Envelope, ExchangeResponse
  <1>6. QED
    BY <1>1, <1>2, <1>3, <1>4, <1>5

\* The end of a transaction and the except clauses of the second try block.
LEMMA EndReturns ==
    ASSUME Loop = "single", TerminateAtEnd,
           \/ ControlFlow \/ BleCompletes \/ BleMessageHandled \/ BleMessageFails
           \/ ChainDone \/ ChainBroken \/ ChainTimesOut
           \/ CatchInMainLoop \/ CatchInSingle \/ NotCaught \/ CallAgain
    PROVE  Returns
  <1> USE DEF Returns, ThrowWhileSending, Delivered, Throw
  <1>1. CASE ControlFlow \/ BleCompletes
    BY <1>1, UserDeviceAssumption
    DEF ControlFlow, BleCompletes, Complete, TransactionTermination, EndSession
  <1>2. CASE BleMessageHandled \/ BleMessageFails
    BY <1>2 DEF BleMessageHandled, BleMessageFails, Receive, Waiting
  <1>3. CASE ChainDone \/ ChainBroken \/ ChainTimesOut
    BY <1>3 DEF ChainDone, ChainBroken, ChainTimesOut, HandleTimeout
  <1>4. CASE CatchInMainLoop \/ CatchInSingle \/ NotCaught \/ CallAgain
    BY <1>4 DEF CatchInMainLoop, CatchInSingle, NotCaught, CallAgain, FailureReported,
                FailureUnsent, TransactionTermination, EndSession
  <1>5. QED
    BY <1>1, <1>2, <1>3, <1>4

\* A single_transaction that was asked to terminate never returns with a session
\* or an engine, whichever command, failure or timeout made it return.
THEOREM NothingLeft == Spec => []NothingLeftOnReturn
  <1>1. Init => NothingLeftOnReturn
    BY DEF Init, NothingLeftOnReturn
  <1>2. NothingLeftOnReturn /\ [Next]_vars => NothingLeftOnReturn'
    <2> SUFFICES ASSUME NothingLeftOnReturn, [Next]_vars, Loop = "single", TerminateAtEnd
                 PROVE  Returns \/ (UNCHANGED <<pc, state, expedited>>)
      BY DEF NothingLeftOnReturn, Returns
    <2>1. CASE UNCHANGED vars
      BY <2>1 DEF vars, session
    <2>2. CASE Next
      BY <2>2, WaitingReturns, HandlerReturns, EndReturns DEF Next, Returns
    <2>3. QED
      BY <2>1, <2>2
  <1>3. QED
    BY <1>1, <1>2, PTL DEF Spec
=============================================================================
