---------------------------- MODULE ReaderProofs ----------------------------
(***************************************************************************)
(* Proofs about Reader, for every set of credentials, every configuration,  *)
(* every size of the fast cache and every bound.                            *)
(*                                                                          *)
(* The argument: a step of the Reader, whatever the command and however it  *)
(* was answered, is of one of ten kinds.  Lemma StepKinds goes through the  *)
(* actions once; each kind is then shown to preserve ReaderInv.             *)
(***************************************************************************)
EXTENDS Reader, SequenceTheorems, TLAPS

-----------------------------------------------------------------------------
(* Engines and messages.                                                    *)

\* What an engine of the Reader has.
LEMMA EngineTypes ==
    /\ NoEngine \in Engines /\ NoEngine.eph = 0 /\ NoEngine.kind = "none"
    /\ NoEngine.enc = 1 /\ NoEngine.dec = 1
    /\ \A e \in 0 .. MaxEphemeral, k \in {"fast", "standard", "stepup"} :
          /\ NewEngine(e, k) \in Engines /\ NewEngine(e, k) # NoEngine
          /\ NewEngine(e, k).eph = e /\ NewEngine(e, k).kind = k
          /\ NewEngine(e, k).enc = 1 /\ NewEngine(e, k).dec = 1
  BY ReaderAssumption, SMT DEF NoEngine, Engines, Counters, NewEngine

\* What encrypt and decrypt do to an engine.
LEMMA EngineSteps ==
    ASSUME NEW g \in Engines
    PROVE  /\ g.enc \in Nat /\ g.dec \in Nat /\ g.eph \in 0 .. MaxEphemeral
           /\ g.enc >= 1 /\ g.dec >= 1 /\ g.enc <= MaxCounter + 2 /\ g.dec <= MaxCounter + 2
           /\ Encrypted(g).eph = g.eph /\ Encrypted(g).kind = g.kind
           /\ Encrypted(g).enc = g.enc + 1 /\ Encrypted(g).dec = g.dec
           /\ Decrypted(g).eph = g.eph /\ Decrypted(g).kind = g.kind
           /\ Decrypted(g).enc = g.enc /\ Decrypted(g).dec = g.dec + 1
           /\ g.enc <= MaxCounter + 1 => Encrypted(g) \in Engines
           /\ g.dec <= MaxCounter + 1 => Decrypted(g) \in Engines
           /\ Encrypted(g) # NoEngine /\ Decrypted(g) # NoEngine
           /\ Nonce(g) \in Nonces
           /\ Nonce(g)[1] = g.eph /\ Nonce(g)[2] = g.kind /\ Nonce(g)[3] = g.enc
  BY ReaderAssumption, SMT DEF Engines, Counters, Encrypted, Decrypted, Nonce, Nonces, NoEngine

\* Messages are well formed; only secure ones carry a nonce.
LEMMA MessagesOK ==
    /\ \A t \in Commands \cup {"none", "error_event"} :
          Plain(t) \in Messages /\ Plain(t).nonce = NoNonce
    /\ \A t \in Commands, g \in Engines :
          Secure(t, g) \in Messages /\ Secure(t, g).nonce = Nonce(g)
    /\ Silent \in Messages /\ Silent.nonce = NoNonce
  <1>1. NoNonce \in Nonces
    BY ReaderAssumption DEF NoNonce, Nonces, Counters
  <1>2. QED
    BY <1>1, EngineSteps DEF Messages, Plain, Secure, Silent

\* The calls an application makes are calls.
LEMMA CallTypes ==
    /\ NoCall \in Calls /\ NoCall.name = "none"
    /\ \A n \in {"initiation", "select", "fast", "standard", "exchange", "envelope",
                 "control_flow"} :
          Call(n) \in Calls /\ Call(n).name = n /\ Call(n).engine = "expedited"
    /\ \A n \in {"exchange", "envelope"}, e \in {"expedited", "stepup"} :
          LET c == [Call(n) EXCEPT !.engine = e]
          IN  c \in Calls /\ c.name # "none" /\ c.engine = e
    /\ \A l, k \in BOOLEAN :
          LET c == [Call("standard") EXCEPT !.loadCert = l, !.keySlot = k]
          IN  c \in Calls /\ c.name # "none"
  BY DEF Calls, Call, NoCall

-----------------------------------------------------------------------------
(* The kinds of a step.                                                     *)

\* What no step does more than that with.
Base == UNCHANGED options /\ link' \in {"up", "down"} /\ raised' \in BOOLEAN

PlainSent == sent' \in Messages /\ sent'.nonce = NoNonce
Resting == call' = NoCall /\ awaited' = "none" /\ reporting' = FALSE
StorageKept == UNCHANGED <<used, cache, last, proof>>

\* x and s are the session's engines, the response possibly deciphered.
Deciphered(x, s) ==
    /\ x = expedited \/ (Secured /\ x = ExpeditedAfter)
    /\ s = stepup \/ (Secured /\ s = StepupAfter)

\* The response to AUTH1 names the credential.
Named(c) == c = credential \/ (awaited = "AUTH1" /\ c \in Credentials)

\* The call is over, the session goes on.
Finished ==
    /\ Base /\ PlainSent /\ Resting /\ StorageKept
    /\ UNCHANGED <<alive, eph, granted, nonces, told>>
    /\ Deciphered(expedited', stepup') /\ Named(credential')
    /\ started' \in {started, TRUE}

\* The call and the session are over.
Closed ==
    /\ Base /\ PlainSent /\ Resting /\ StorageKept /\ EndSession
    /\ UNCHANGED nonces /\ started' \in {started, TRUE}
    /\ UNCHANGED told \/ (alive /\ TellEvent)

\* transaction_initiation
Opened ==
    /\ Idle /\ Base /\ PlainSent /\ StorageKept /\ NewSession(TRUE)
    /\ started' = FALSE /\ nonces' = {} /\ told' = [commands |-> 0, events |-> 0]
    /\ call' = Call("initiation") /\ awaited' \in {"SELECT", "NOTIFICATION"}
    /\ UNCHANGED reporting

\* A command in plain.
Called ==
    /\ Idle /\ alive /\ Base /\ PlainSent /\ StorageKept
    /\ UNCHANGED <<session, started, nonces, told, reporting>>
    /\ call' \in Calls /\ call'.name # "none" /\ awaited' \in {"SELECT", "CONTROL_FLOW"}

\* A handshake begins, and may end at once.
Begun ==
    /\ Idle /\ alive /\ Base /\ PlainSent
    /\ used < MaxEphemeral /\ used' = used + 1 /\ eph' = used + 1 /\ granted' = FALSE
    /\ UNCHANGED <<alive, expedited, stepup, credential, started, cache, history>>
    /\ \/ Resting
       \/ /\ call' \in Calls /\ call'.name # "none" /\ awaited' = "AUTH0"
          /\ UNCHANGED reporting

\* LOAD CERT, or AUTH1 with its new engines.
Proceeded ==
    /\ awaited \in {"AUTH0", "LOAD_CERT"} /\ Base /\ PlainSent /\ StorageKept
    /\ UNCHANGED <<call, reporting, alive, eph, credential, granted, started, nonces, told>>
    /\ \/ awaited' = "LOAD_CERT" /\ UNCHANGED <<expedited, stepup>>
       \/ awaited' = "AUTH1" /\ SharedKeys

\* The application's EXCHANGE or ENVELOPE.
Enciphered ==
    /\ Idle /\ alive /\ Base /\ StorageKept
    /\ UNCHANGED <<alive, eph, credential, granted, started, told, reporting>>
    /\ call' \in Calls /\ call'.name # "none"
    /\ \E g \in {expedited, stepup}, t \in {"EXCHANGE", "ENVELOPE"} :
          /\ g # NoEngine /\ g.enc < MaxCounter /\ g.dec < MaxCounter
          /\ awaited' = t /\ sent' = Secure(t, g) /\ nonces' = nonces \cup {Nonce(g)}
          /\ \/ /\ g = expedited /\ call'.engine = "expedited"
                /\ expedited' = Encrypted(g) /\ UNCHANGED stepup
             \/ /\ g = stepup /\ call'.engine = "stepup"
                /\ stepup' = Encrypted(g) /\ UNCHANGED expedited

\* failure_process tells the User Device, once.
Reported ==
    /\ awaited # "none" /\ Base /\ StorageKept
    /\ ~ started /\ started' = TRUE /\ TellCommand
    /\ UNCHANGED <<call, alive, eph, granted>> /\ reporting' = TRUE
    /\ Named(credential')
    /\ \/ /\ awaited' = "CONTROL_FLOW" /\ PlainSent /\ UNCHANGED nonces
          /\ Deciphered(expedited', stepup')
       \/ /\ awaited' = "EXCHANGE"
          /\ \E x : /\ Deciphered(x, stepup') /\ x # NoEngine
                    /\ expedited' = Encrypted(x) /\ sent' = Secure("EXCHANGE", x)
                    /\ nonces' = nonces \cup {Nonce(x)}

\* A fast cache entry decrypted the cryptogram.
GrantedFast ==
    /\ awaited = "AUTH0" /\ Base /\ PlainSent /\ Resting
    /\ UNCHANGED <<alive, eph, stepup, started, used, cache, last, nonces, told>>
    /\ granted' = TRUE /\ expedited' = NewEngine(eph, "fast")
    /\ \E i \in 1 .. Len(cache) :
          credential' = cache[i].credential /\ proof' = <<eph, cache[i].credential>>

\* c signed the handshake.
GrantedStandard(c) ==
    /\ awaited = "AUTH1" /\ Base /\ PlainSent /\ Resting /\ c \in Credentials
    /\ UNCHANGED <<alive, eph, stepup, started, used, nonces, told>>
    /\ granted' = TRUE /\ expedited' = Decrypted(expedited)
    /\ credential' = c /\ proof' = <<eph, c>>
    /\ last' = [last EXCEPT ![c] = eph]
    /\ cache' = IF options.fast THEN Remembering(c, eph) ELSE cache

Kinds ==
    \/ Finished \/ Closed \/ Opened \/ Called \/ Begun \/ Proceeded \/ Enciphered
    \/ Reported \/ GrantedFast \/ \E c \in Credentials : GrantedStandard(c)

-----------------------------------------------------------------------------
(* Every step is of one of the kinds.                                       *)

\* An error event ends the session, or only the call.
LEMMA ErrorEventKind ==
    ASSUME ReaderInv, awaited # "none", NEW x, NEW s, NEW c,
           Deciphered(x, s), Named(c), ErrorEvent(x, s, c),
           UNCHANGED <<options, used, cache, last, proof, nonces>>,
           started' \in {started, TRUE}
    PROVE  Finished \/ Closed
  <1>1. alive
    BY DEF ReaderInv, ControlOK
  <1>2. CASE /\ sent' = Plain("error_event") /\ TellEvent /\ Terminated(TRUE)
    <2>1. Closed
      BY <1>1, <1>2, MessagesOK
         DEF Closed, Base, PlainSent, Resting, StorageKept, Terminated, EndSession, Ends, NoCall
    <2>2. QED BY <2>1
  <1>3. CASE /\ sent' = Silent /\ UNCHANGED told /\ link' = "down" /\ Session(x, s, c) /\ Raises
    <2>1. Finished
      BY <1>3, MessagesOK
         DEF Finished, Base, PlainSent, Resting, StorageKept, Session, Raises, Ends
    <2>2. QED BY <2>1
  <1>4. QED
    BY <1>2, <1>3 DEF ErrorEvent

\* So does failure_process, unless it reports the failure.
LEMMA FailureProcessKind ==
    ASSUME ReaderInv, awaited # "none", NEW f, NEW x, NEW s, NEW c,
           Deciphered(x, s), Named(c), FailureProcess(f, x, s, c),
           UNCHANGED <<options, used, cache, last, proof>>
    PROVE  Finished \/ Closed \/ Reported
  <1>0. link \in {"up", "down"} /\ raised \in BOOLEAN
    BY DEF ReaderInv, TypeOK
  <1>1. CASE /\ started /\ UNCHANGED <<started, link, nonces, told>>
             /\ sent' = Silent /\ Session(x, s, c) /\ Raises
    <2>1. Finished
      BY <1>0, <1>1, MessagesOK
         DEF Finished, Base, PlainSent, Resting, StorageKept, Session, Raises, Ends
    <2>2. QED BY <2>1
  <1>2. CASE /\ ~ started /\ started' = TRUE
             /\ sent' = Silent /\ UNCHANGED <<nonces, told>> /\ Terminated(TRUE)
    <2>1. Closed
      BY <1>2, MessagesOK
         DEF Closed, Base, PlainSent, Resting, StorageKept, Terminated, Ends
    <2>2. QED BY <2>1
  <1>3. CASE /\ ~ started /\ started' = TRUE /\ SecureReport(f, x)
             /\ sent' = Secure("EXCHANGE", x) /\ nonces' = nonces \cup {Nonce(x)}
             /\ TellCommand
             /\ awaited' = "EXCHANGE" /\ reporting' = TRUE /\ UNCHANGED <<call, raised, link>>
             /\ Session(Encrypted(x), s, c)
    <2>1. Reported
      BY <1>0, <1>3 DEF Reported, Base, StorageKept, Session, SecureReport
    <2>2. QED BY <2>1
  <1>4. CASE /\ ~ started /\ started' = TRUE
             /\ sent' = Plain("CONTROL_FLOW") /\ TellCommand /\ UNCHANGED nonces
             /\ awaited' = "CONTROL_FLOW" /\ reporting' = TRUE /\ UNCHANGED <<call, raised, link>>
             /\ Session(x, s, c)
    <2>1. Plain("CONTROL_FLOW") \in Messages /\ Plain("CONTROL_FLOW").nonce = NoNonce
      BY MessagesOK DEF Commands
    <2>2. Reported
      BY <1>0, <1>4, <2>1 DEF Reported, Base, PlainSent, StorageKept, Session
    <2>3. QED BY <2>2
  <1>5. CASE ~ started /\ started' = TRUE /\ UNCHANGED nonces /\ ErrorEvent(x, s, c)
    BY <1>5, ErrorEventKind
  <1>6. QED
    BY <1>1, <1>2, <1>3, <1>4, <1>5 DEF FailureProcess

\* The application's calls.
LEMMA CallKinds ==
    ASSUME ReaderInv, ApplicationCalls
    PROVE  Kinds
  <1> USE DEF Base, PlainSent, Resting, StorageKept, session, history
  <1>0. /\ link \in {"up", "down"} /\ raised \in BOOLEAN
        /\ Idle => awaited = "none"
    BY DEF ReaderInv, TypeOK, ControlOK
  <1>1. /\ \A t \in {"SELECT", "AUTH0", "CONTROL_FLOW"} :
              Plain(t) \in Messages /\ Plain(t).nonce = NoNonce
        /\ Silent \in Messages /\ Silent.nonce = NoNonce
    BY MessagesOK DEF Commands
  <1>2. CASE TransactionInitiation
    <2>1. CASE link' = "up"
      <3>1. CASE NewSession(TRUE)
        <4>1. Opened
          BY <1>0, <1>1, <1>2, <2>1, <3>1
             DEF TransactionInitiation, Opened, Begins, Raises, Ends
        <4>2. QED BY <4>1 DEF Kinds
      <3>2. QED
        BY <1>2, <2>1, <3>1 DEF TransactionInitiation
    <2>2. CASE link' # "up"
      <3>1. Finished
        BY <1>0, <1>1, <1>2, <2>2
           DEF TransactionInitiation, Finished, Raises, Ends, Deciphered, Named
      <3>2. QED BY <3>1 DEF Kinds
    <2>3. QED BY <2>1, <2>2
  <1>3. CASE CallRefused
    <2>1. Finished
      BY <1>0, <1>1, <1>3 DEF CallRefused, Finished, Raises, Ends, Deciphered, Named
    <2>2. QED BY <2>1 DEF Kinds
  <1>4. CASE Select \/ ControlFlow
    <2>1. Called
      BY <1>0, <1>1, <1>4, CallTypes DEF Select, ControlFlow, Called, Begins
    <2>2. QED BY <2>1 DEF Kinds
  <1>5. CASE Expedited
    <2>0. \/ \E c \in Calls : c.name # "none" /\ Begins(c, "AUTH0") /\ sent' = Plain("AUTH0")
          \/ Raises /\ sent' = Silent
      <3>1. CASE \E loadCert, keySlot \in BOOLEAN :
               /\ Begins([Call("standard") EXCEPT !.loadCert = loadCert, !.keySlot = keySlot],
                         "AUTH0")
               /\ sent' = Plain("AUTH0")
        BY <3>1, CallTypes
      <3>2. CASE Begins(Call("fast"), "AUTH0") /\ sent' = Plain("AUTH0")
        <4>1. Call("fast") \in Calls /\ Call("fast").name # "none"
          BY CallTypes
        <4>2. QED BY <3>2, <4>1
      <3>3. QED
        BY <1>5, <3>1, <3>2 DEF Expedited
    <2>1. Begun
      BY <1>0, <1>1, <1>5, <2>0 DEF Expedited, Begun, Begins, Raises, Ends
    <2>2. QED BY <2>1 DEF Kinds
  <1>6. CASE Exchange
    <2>1. PICK engine \in {"expedited", "stepup"} :
          LET used_engine == IF engine = "expedited" THEN expedited ELSE stepup IN
          /\ used_engine # NoEngine /\ used_engine.enc < MaxCounter
          /\ used_engine.dec < MaxCounter
          /\ Begins([Call("exchange") EXCEPT !.engine = engine], "EXCHANGE")
          /\ sent' = Secure("EXCHANGE", used_engine)
          /\ nonces' = nonces \cup {Nonce(used_engine)}
          /\ IF engine = "expedited"
             THEN Session(Encrypted(expedited), stepup, credential)
             ELSE Session(expedited, Encrypted(stepup), credential)
      BY <1>6 DEF Exchange
    <2>2. Enciphered
      <3>1. CASE engine = "expedited"
        BY <1>0, <1>6, <2>1, <3>1, CallTypes DEF Exchange, Enciphered, Begins, Session
      <3>2. CASE engine = "stepup"
        BY <1>0, <1>6, <2>1, <3>2, CallTypes DEF Exchange, Enciphered, Begins, Session
      <3>3. QED BY <3>1, <3>2
    <2>3. QED BY <2>2 DEF Kinds
  <1>7. CASE Envelope
    <2>1. Enciphered
      BY <1>0, <1>7, CallTypes DEF Envelope, Enciphered, Begins, Session
    <2>2. QED BY <2>1 DEF Kinds
  <1>8. CASE TransactionTermination
    <2>1. Closed
      BY <1>0, <1>1, <1>8 DEF TransactionTermination, Closed, Terminated, Ends
    <2>2. QED BY <2>1 DEF Kinds
  <1>9. QED
    BY <1>2, <1>3, <1>4, <1>5, <1>6, <1>7, <1>8 DEF ApplicationCalls

\* A failure process on the session's engines, as they are or after the response
\* has been deciphered.
LEMMA FailureKinds ==
    ASSUME ReaderInv, Failures \/ Auth0Refused \/ Auth1Rejected \/ ExchangeRejected
    PROVE  Kinds
  <1> USE DEF Base, PlainSent, Resting, StorageKept, session, history, Answered
  <1>0. /\ link \in {"up", "down"} /\ raised \in BOOLEAN
        /\ Silent \in Messages /\ Silent.nonce = NoNonce
    BY MessagesOK DEF ReaderInv, TypeOK
  <1>1. /\ Deciphered(expedited, stepup) /\ Named(credential)
        /\ Secured => Deciphered(ExpeditedAfter, StepupAfter)
        /\ Secured => Deciphered(ExpeditedAfter, stepup)
    BY DEF Deciphered, Named
  <1>2. CASE ResponseStatus \/ (ResponseMalformed /\ ~ StatusIsNoS2) \/ Auth0Refused
    <2>1. /\ awaited # "none" /\ UNCHANGED <<options, used, cache, last, proof>>
          /\ \E f \in {"READER_STATUS", "STATUS_WORD"} :
                FailureProcess(f, expedited, stepup, credential)
      BY <1>2 DEF ResponseStatus, ResponseMalformed, Auth0Refused, Commands
    <2>2. QED
      BY <1>1, <2>1, FailureProcessKind DEF Kinds
  <1>3. CASE ResponseUnverifiable
    <2>1. /\ awaited # "none" /\ UNCHANGED <<options, used, cache, last, proof>> /\ Secured
          /\ FailureProcess("READER_STATUS", ExpeditedAfter, StepupAfter, credential)
      BY <1>3 DEF ResponseUnverifiable, Secured
    <2>2. QED
      BY <1>1, <2>1, FailureProcessKind DEF Kinds
  <1>4. CASE ResponseUncaught \/ ResponseLost
    <2>1. Finished
      BY <1>0, <1>1, <1>4
         DEF ResponseUncaught, ResponseLost, Finished, Raises, Ends, Deciphered
    <2>2. QED BY <2>1 DEF Kinds
  <1>5. CASE ResponseTimesOut
    <2>1. /\ awaited # "none" /\ ErrorEvent(expedited, stepup, credential)
          /\ UNCHANGED <<options, used, cache, last, proof, nonces, started>>
      BY <1>5 DEF ResponseTimesOut, Commands
    <2>2. QED
      BY <1>1, <2>1, ErrorEventKind DEF Kinds
  <1>6. CASE Auth1Rejected
    <2>1. awaited = "AUTH1" /\ Secured /\ UNCHANGED <<options, used, cache, last, proof>>
      BY <1>6 DEF Auth1Rejected, Secured
    <2>2. CASE \E c \in Credentials \cup {credential} :
                  /\ FailureProcess("READER_STATUS", ExpeditedAfter, stepup, c)
      <3>1. PICK c \in Credentials \cup {credential} :
               FailureProcess("READER_STATUS", ExpeditedAfter, stepup, c)
        BY <2>2
      <3>2. Named(c)
        BY <2>1 DEF Named
      <3>3. QED
        BY <1>1, <2>1, <3>1, <3>2, FailureProcessKind DEF Kinds
    <2>3. CASE /\ Raises /\ Session(ExpeditedAfter, stepup, credential)
               /\ sent' = Silent /\ UNCHANGED <<link, started, nonces, told>>
      <3>1. Finished
        BY <1>0, <1>1, <2>1, <2>3 DEF Finished, Raises, Ends, Session
      <3>2. QED BY <3>1 DEF Kinds
    <2>4. QED
      BY <1>6, <2>2, <2>3 DEF Auth1Rejected
  <1>7. CASE ExchangeRejected
    <2>1. awaited = "EXCHANGE" /\ Secured /\ UNCHANGED <<options, used, cache, last, proof>>
      BY <1>7 DEF ExchangeRejected, Secured
    <2>2. CASE FailureProcess("B1_B2_ERROR", ExpeditedAfter, StepupAfter, credential)
      BY <1>1, <2>1, <2>2, FailureProcessKind DEF Kinds
    <2>3. CASE /\ Raises /\ Session(ExpeditedAfter, StepupAfter, credential)
               /\ sent' = Silent /\ UNCHANGED <<link, started, nonces, told>>
      <3>1. Finished
        BY <1>0, <1>1, <2>1, <2>3 DEF Finished, Raises, Ends, Session
      <3>2. QED BY <3>1 DEF Kinds
    <2>4. QED
      BY <1>7, <2>2, <2>3 DEF ExchangeRejected
  <1>8. CASE ResponseMalformed /\ StatusIsNoS2
    <2>1. Finished
      BY <1>0, <1>1, <1>8
         DEF ResponseMalformed, StatusIsNoS2, Finished, Raises, Ends, Session, Deciphered
    <2>2. QED BY <2>1 DEF Kinds
  <1>9. QED
    BY <1>2, <1>3, <1>4, <1>5, <1>6, <1>7, <1>8 DEF Failures

\* The responses that are accepted.
LEMMA ResponseKinds ==
    ASSUME ReaderInv, Responses
    PROVE  Kinds
  <1> USE DEF Base, PlainSent, Resting, StorageKept, session, history, Answered
  <1>0. /\ link \in {"up", "down"} /\ raised \in BOOLEAN
        /\ awaited # "none" => alive
    BY DEF ReaderInv, TypeOK, ControlOK
  <1>1. /\ \A t \in {"LOAD_CERT", "AUTH1"} :
              Plain(t) \in Messages /\ Plain(t).nonce = NoNonce
        /\ Silent \in Messages /\ Silent.nonce = NoNonce
    BY MessagesOK DEF Commands
  <1>2. /\ Deciphered(expedited, stepup) /\ Named(credential)
        /\ Secured => /\ Deciphered(ExpeditedAfter, StepupAfter)
                      /\ Deciphered(ExpeditedAfter, stepup)
                      /\ Deciphered(expedited, StepupAfter)
    BY DEF Deciphered, Named
  <1>3. CASE SelectAnswered \/ NotificationReceived
    <2>1. Finished
      BY <1>0, <1>1, <1>2, <1>3
         DEF SelectAnswered, NotificationReceived, Finished, Returns, Raises, Ends, Deciphered
    <2>2. QED BY <2>1 DEF Kinds
  <1>4. CASE Auth0Standard \/ LoadCertAnswered
    <2>1. CASE Raises /\ awaited' = "none"
      <3>1. Finished
        BY <1>0, <1>1, <1>2, <1>4, <2>1
           DEF Auth0Standard, LoadCertAnswered, SendAuth1, Awaits, Finished, Raises, Ends, Deciphered
      <3>2. QED BY <3>1 DEF Kinds
    <2>2. CASE ~ (Raises /\ awaited' = "none")
      <3>1. Proceeded
        BY <1>0, <1>1, <1>4, <2>2
           DEF Auth0Standard, LoadCertAnswered, SendAuth1, Awaits, Proceeded, Raises, Ends
      <3>2. QED BY <3>1 DEF Kinds
    <2>3. QED BY <2>1, <2>2
  <1>5. ASSUME NEW e \in 0 .. MaxEphemeral, Auth0Fast(e)
        PROVE  Kinds
    <2>1. GrantedFast
      BY <1>0, <1>1, <1>5 DEF Auth0Fast, GrantedFast, Cryptogram, Returns, Ends
    <2>2. QED BY <2>1 DEF Kinds
  <1>6. ASSUME NEW e \in 0 .. MaxEphemeral, CryptogramUnknown(e)
        PROVE  Kinds
    <2>1. CASE FailureProcess("READER_STATUS", expedited, stepup, credential)
      BY <1>2, <1>6, <2>1, FailureProcessKind DEF CryptogramUnknown, Kinds
    <2>2. CASE /\ SendAuth1
               /\ UNCHANGED <<link, alive, eph, credential, granted, started, nonces, told>>
      <3>1. Proceeded
        BY <1>0, <1>1, <1>6, <2>2 DEF CryptogramUnknown, SendAuth1, Awaits, Proceeded
      <3>2. QED BY <3>1 DEF Kinds
    <2>3. QED
      BY <1>6, <2>1, <2>2 DEF CryptogramUnknown
  <1>7. ASSUME NEW c \in Credentials, Auth1Accepted(c)
        PROVE  Kinds
    <2>1. GrantedStandard(c)
      BY <1>0, <1>1, <1>7
         DEF Auth1Accepted, GrantedStandard, ExpeditedAfter, Using, Returns, Ends
    <2>2. QED BY <2>1 DEF Kinds
  <1>8. CASE ExchangeAnswered
    <2>1. awaited = "EXCHANGE" /\ Secured /\ UNCHANGED <<options, started>>
      BY <1>8 DEF ExchangeAnswered, Secured
    <2>2. CASE ~ reporting
      <3>1. Finished
        BY <1>0, <1>1, <1>2, <1>8, <2>1, <2>2
           DEF ExchangeAnswered, Finished, Returns, Ends, Session
      <3>2. QED BY <3>1 DEF Kinds
    <2>3. CASE reporting /\ options.transport = "NFC"
      <3>1. Closed
        BY <1>0, <1>1, <1>8, <2>1, <2>3
           DEF ExchangeAnswered, FailureReported, Closed, Terminated, Ends
      <3>2. QED BY <3>1 DEF Kinds
    <2>4. CASE reporting /\ options.transport # "NFC"
      <3>1. ErrorEvent(ExpeditedAfter, stepup, credential)
        BY <1>8, <2>4 DEF ExchangeAnswered, FailureReported
      <3>2. Finished \/ Closed
        BY <1>2, <1>8, <2>1, <3>1, ErrorEventKind DEF ExchangeAnswered
      <3>3. QED BY <3>2 DEF Kinds
    <2>5. QED BY <2>2, <2>3, <2>4
  <1>9. CASE EnvelopeAnswered
    <2>1. Finished
      BY <1>0, <1>1, <1>2, <1>9
         DEF EnvelopeAnswered, Finished, Returns, Ends, Session, Secured
    <2>2. QED BY <2>1 DEF Kinds
  <1>10. CASE ControlFlowAnswered
    <2>1. Closed
      BY <1>0, <1>1, <1>10
         DEF ControlFlowAnswered, Closed, Terminated, EndSession, Returns, Ends
    <2>2. QED BY <2>1 DEF Kinds
  <1>11. CASE Auth0Refused \/ Auth1Rejected \/ ExchangeRejected
    BY <1>11, FailureKinds
  <1>12. QED
    BY <1>3, <1>4, <1>5, <1>6, <1>7, <1>8, <1>9, <1>10, <1>11 DEF Responses

\* Every step is of one of the ten kinds.
LEMMA StepKinds ==
    ASSUME ReaderInv, Next
    PROVE  Kinds
  BY CallKinds, FailureKinds, ResponseKinds DEF Next


-----------------------------------------------------------------------------
(* Every kind of step preserves the invariant.                              *)

\* A decryption leaves an engine of the same kind, handshake and encryption
\* counter, and within the bound of the model.
LEMMA DecipheredOK ==
    ASSUME ReaderInv, NEW x, NEW s, Deciphered(x, s)
    PROVE  /\ x \in Engines /\ s \in Engines
           /\ x.eph = expedited.eph /\ x.kind = expedited.kind /\ x.enc = expedited.enc
           /\ s.eph = stepup.eph /\ s.kind = stepup.kind /\ s.enc = stepup.enc
           /\ x.kind = "none" => x = NoEngine
           /\ s.kind = "none" => s = NoEngine
           /\ ~ started => x.dec <= MaxCounter + 1
           /\ s.dec <= MaxCounter + 1
  <1>1. expedited \in Engines /\ stepup \in Engines /\ MaxCounter \in Nat \ {0}
    BY ReaderAssumption DEF ReaderInv, TypeOK
  <1>2. /\ expedited.enc \in Nat /\ expedited.dec \in Nat
        /\ stepup.enc \in Nat /\ stepup.dec \in Nat
    BY <1>1, EngineSteps
  <1>3. /\ x.eph = expedited.eph /\ x.kind = expedited.kind /\ x.enc = expedited.enc
        /\ s.eph = stepup.eph /\ s.kind = stepup.kind /\ s.enc = stepup.enc
    BY <1>1, EngineSteps DEF Deciphered, ExpeditedAfter, StepupAfter
  <1>4. /\ expedited.kind = "none" => expedited = NoEngine
        /\ stepup.kind = "none" => stepup = NoEngine
        /\ Secured => (IF Using = "expedited" THEN expedited ELSE stepup) # NoEngine
    BY DEF ReaderInv, EnginesOK
  <1>5. /\ stepup.dec <= MaxCounter + 1
        /\ ~ started => expedited.dec <= MaxCounter + 1 /\ ~ reporting
        /\ Secured /\ ~ reporting =>
              (IF Using = "expedited" THEN expedited ELSE stepup).dec <= MaxCounter
        /\ reporting => expedited.dec <= MaxCounter + 1 /\ Using = "expedited"
    BY DEF ReaderInv, CountersOK, ControlOK, Using
  <1>6. CASE x = expedited
    <2>1. /\ x \in Engines /\ x.kind = "none" => x = NoEngine
          /\ ~ started => x.dec <= MaxCounter + 1
      BY <1>1, <1>4, <1>5, <1>6
    <2>2. CASE s = stepup
      BY <1>1, <1>3, <1>4, <1>5, <1>6, <2>1, <2>2
    <2>3. CASE Secured /\ s = Decrypted(stepup) /\ Using = "stepup"
      <3>1. stepup.dec <= MaxCounter
        BY <1>5, <2>3
      <3>2. QED
        BY <1>1, <1>2, <1>3, <1>4, <1>5, <1>6, <2>1, <2>3, <3>1, EngineSteps
    <2>4. QED
      BY <2>2, <2>3 DEF Deciphered, StepupAfter
  <1>7. CASE Secured /\ x = Decrypted(expedited) /\ Using = "expedited"
    <2>1. s = stepup
      BY <1>7 DEF Deciphered, StepupAfter
    <2>2. expedited.dec <= MaxCounter + 1 /\ (~ started => expedited.dec <= MaxCounter)
      BY <1>1, <1>2, <1>5, <1>7
    <2>3. x \in Engines /\ x.dec = expedited.dec + 1 /\ x # NoEngine
      BY <1>1, <1>7, <2>2, EngineSteps
    <2>4. x.kind # "none"
      BY <1>3, <1>4, <1>7
    <2>5. ~ started => x.dec <= MaxCounter + 1
      BY <1>1, <1>2, <2>2, <2>3
    <2>6. QED
      BY <1>1, <1>3, <1>4, <1>5, <2>1, <2>3, <2>4, <2>5
  <1>8. QED
    BY <1>6, <1>7 DEF Deciphered, ExpeditedAfter

\* What names a credential is a credential, and only the response to AUTH1 names
\* another one.
LEMMA NamedOK ==
    ASSUME ReaderInv, NEW c, Named(c)
    PROVE  /\ c \in Credentials \cup {NoCredential}
           /\ granted => c = credential
  BY DEF Named, ReaderInv, TypeOK, GrantsOK, Handshaking

\* The call is over: no engine but the one that deciphered the response moved.
LEMMA FinishedPreserves ==
    ASSUME ReaderInv, Finished
    PROVE  ReaderInv'
  <1> USE DEF Finished, Base, PlainSent, Resting, StorageKept
  <1>1. /\ expedited' \in Engines /\ stepup' \in Engines
        /\ expedited'.eph = expedited.eph /\ expedited'.kind = expedited.kind
        /\ expedited'.enc = expedited.enc
        /\ stepup'.eph = stepup.eph /\ stepup'.kind = stepup.kind /\ stepup'.enc = stepup.enc
        /\ expedited'.kind = "none" => expedited' = NoEngine
        /\ stepup'.kind = "none" => stepup' = NoEngine
        /\ ~ started => expedited'.dec <= MaxCounter + 1
        /\ stepup'.dec <= MaxCounter + 1
    BY DecipheredOK
  <1>2. /\ credential' \in Credentials \cup {NoCredential}
        /\ granted => credential' = credential
    BY NamedOK
  <1>3. NoCall \in Calls /\ NoCall.name = "none"
    BY CallTypes
  <1>4. TypeOK'
    BY <1>1, <1>2, <1>3 DEF ReaderInv, TypeOK
  <1>5. ControlOK'
    <2>1. started \in BOOLEAN /\ alive \in BOOLEAN
      BY DEF ReaderInv, TypeOK
    <2>2. QED
      BY <2>1 DEF ReaderInv, ControlOK, ToldOnce
  <1>6. EnginesOK'
    BY <1>1 DEF ReaderInv, EnginesOK, Handshaking, Secured
  <1>7. CountersOK'
    BY <1>1 DEF ReaderInv, CountersOK, Secured
  <1>8. NoncesOK'
    BY <1>1 DEF ReaderInv, NoncesOK
  <1>9. GrantsOK'
    BY <1>1, <1>2 DEF ReaderInv, GrantsOK, GrantedAuthentic, FastGrantsKnown, Handshaking
  <1>10. CacheOK'
    BY DEF ReaderInv, CacheOK, CacheHoldsMostRecent, Positions
  <1>11. QED
    BY <1>4, <1>5, <1>6, <1>7, <1>8, <1>9, <1>10 DEF ReaderInv

\* A new session, or none, has no engines and grants nothing.
LEMMA NewSessionPreserves ==
    ASSUME ReaderInv, NEW isAlive \in BOOLEAN, NewSession(isAlive),
           Base, PlainSent, StorageKept, reporting' = FALSE, started' \in BOOLEAN,
           nonces' \subseteq nonces, ControlOK',
           call' \in Calls, awaited' \in {"none", "SELECT", "NOTIFICATION"},
           told' \in [commands : Nat, events : Nat]
    PROVE  ReaderInv'
  <1> USE DEF Base, PlainSent, StorageKept, NewSession
  <1>1. /\ NoEngine \in Engines /\ NoEngine.eph = 0 /\ NoEngine.kind = "none"
        /\ NoEngine.enc = 1 /\ NoEngine.dec = 1 /\ MaxCounter \in Nat \ {0}
        /\ MaxEphemeral \in Nat
    BY EngineTypes, ReaderAssumption
  <1>2. TypeOK'
    <2>1. 0 \in 0 .. MaxEphemeral /\ eph' = 0
      BY <1>1
    <2>2. nonces' \in SUBSET Nonces
      BY DEF ReaderInv, TypeOK
    <2>3. QED
      BY <1>1, <2>1, <2>2 DEF ReaderInv, TypeOK, Commands
  <1>3. EnginesOK'
    BY <1>1 DEF ReaderInv, TypeOK, EnginesOK, Handshaking, Secured
  <1>4. CountersOK'
    BY <1>1 DEF CountersOK, Secured
  <1>5. NoncesOK'
    BY <1>1 DEF ReaderInv, NoncesOK
  <1>6. GrantsOK'
    BY DEF ReaderInv, GrantsOK, GrantedAuthentic, FastGrantsKnown, Handshaking
  <1>7. CacheOK'
    BY DEF ReaderInv, CacheOK, CacheHoldsMostRecent, Positions
  <1>8. QED
    BY <1>2, <1>3, <1>4, <1>5, <1>6, <1>7 DEF ReaderInv

\* transaction_termination, told with an error event or not.
LEMMA ClosedPreserves ==
    ASSUME ReaderInv, Closed
    PROVE  ReaderInv'
  <1> USE DEF Closed, Resting, EndSession
  <1>1. NoCall \in Calls /\ NoCall.name = "none"
    BY CallTypes
  <1>2. told \in [commands : Nat, events : Nat] /\ started \in BOOLEAN
    BY DEF ReaderInv, TypeOK
  <1>3. /\ told' \in [commands : Nat, events : Nat]
        /\ told'.commands = told.commands /\ told'.events <= 1
    BY <1>2 DEF ReaderInv, ControlOK, ToldOnce, TellEvent
  <1>4. ControlOK'
    BY <1>1, <1>2, <1>3 DEF ReaderInv, ControlOK, ToldOnce, NewSession
  <1>5. QED
    BY <1>1, <1>2, <1>3, <1>4, NewSessionPreserves

\* transaction_initiation starts with empty engines, nonces and reports.
LEMMA OpenedPreserves ==
    ASSUME ReaderInv, Opened
    PROVE  ReaderInv'
  <1> USE DEF Opened
  <1>1. Call("initiation") \in Calls /\ Call("initiation").name = "initiation"
    BY CallTypes
  <1>2. reporting = FALSE
    BY DEF ReaderInv, ControlOK, TypeOK
  <1>3. ControlOK'
    BY <1>1, <1>2 DEF ControlOK, ToldOnce, Idle, NewSession
  <1>4. QED
    BY <1>1, <1>2, <1>3, NewSessionPreserves

\* A command in plain touches nothing of the session.
LEMMA CalledPreserves ==
    ASSUME ReaderInv, Called
    PROVE  ReaderInv'
  <1> USE DEF Called, Base, PlainSent, StorageKept, session
  <1>1. reporting = FALSE /\ awaited = "none"
    BY DEF ReaderInv, ControlOK, TypeOK
  <1>2. TypeOK'
    BY DEF ReaderInv, TypeOK, Commands
  <1>3. ControlOK'
    BY <1>1 DEF ReaderInv, ControlOK, ToldOnce, Idle
  <1>4. EnginesOK'
    BY DEF ReaderInv, EnginesOK, Handshaking, Secured
  <1>5. CountersOK'
    BY <1>1 DEF ReaderInv, CountersOK, Secured
  <1>6. NoncesOK'
    BY DEF ReaderInv, NoncesOK
  <1>7. GrantsOK'
    BY DEF ReaderInv, GrantsOK, GrantedAuthentic, FastGrantsKnown, Handshaking
  <1>8. CacheOK'
    BY DEF ReaderInv, CacheOK, CacheHoldsMostRecent, Positions
  <1>9. QED
    BY <1>2, <1>3, <1>4, <1>5, <1>6, <1>7, <1>8 DEF ReaderInv

\* The ephemeral key is fresh: nobody has signed it and no nonce was made with it.
LEMMA BegunPreserves ==
    ASSUME ReaderInv, Begun
    PROVE  ReaderInv'
  <1> USE DEF Begun, Base, PlainSent, Resting, history
  <1>1. reporting = FALSE /\ awaited = "none" /\ NoCall \in Calls /\ NoCall.name = "none"
    BY CallTypes DEF ReaderInv, ControlOK, TypeOK
  <1>2. /\ used \in Nat /\ MaxEphemeral \in Nat
        /\ expedited.eph \in Nat /\ stepup.eph \in Nat
        /\ last \in [Credentials -> 0 .. MaxEphemeral]
        /\ nonces \in SUBSET Nonces
    BY ReaderAssumption, EngineSteps DEF ReaderInv, TypeOK
  <1>3. TypeOK'
    <2>1. used + 1 \in 0 .. MaxEphemeral
      BY <1>2
    <2>2. used' \in 0 .. MaxEphemeral /\ eph' \in 0 .. MaxEphemeral
      BY <2>1
    <2>3. /\ call' \in Calls /\ awaited' \in {"none", "AUTH0"} /\ reporting' = FALSE
      BY <1>1
    <2>4. QED
      BY <2>2, <2>3 DEF ReaderInv, TypeOK, Commands
  <1>4. ControlOK'
    BY <1>1 DEF ReaderInv, ControlOK, ToldOnce, Idle
  <1>5. EnginesOK'
    BY <1>2 DEF ReaderInv, EnginesOK, Handshaking, Secured
  <1>6. CountersOK'
    BY <1>1 DEF ReaderInv, CountersOK, Secured
  <1>7. NoncesOK'
    <2>1. \A n \in nonces : n[1] \in Nat /\ n[1] <= used
      BY <1>2 DEF ReaderInv, NoncesOK, Nonces
    <2>2. QED
      BY <1>2, <2>1 DEF ReaderInv, NoncesOK
  <1>8. GrantsOK'
    BY <1>2 DEF ReaderInv, GrantsOK, GrantedAuthentic, FastGrantsKnown, Handshaking
  <1>9. CacheOK'
    BY DEF ReaderInv, CacheOK, CacheHoldsMostRecent, Positions
  <1>10. QED
    BY <1>3, <1>4, <1>5, <1>6, <1>7, <1>8, <1>9 DEF ReaderInv

\* The engines derived before AUTH1 belong to a handshake without nonces.
LEMMA ProceededPreserves ==
    ASSUME ReaderInv, Proceeded
    PROVE  ReaderInv'
  <1> USE DEF Proceeded, Base, PlainSent, StorageKept
  <1>1. /\ ~ reporting /\ ~ Idle /\ alive /\ ~ granted /\ eph # 0
        /\ eph \in 0 .. MaxEphemeral /\ MaxCounter \in Nat \ {0} /\ eph <= used
    BY ReaderAssumption
       DEF ReaderInv, ControlOK, TypeOK, GrantsOK, EnginesOK, Handshaking
  <1>2. \/ /\ awaited' = "LOAD_CERT" /\ UNCHANGED <<expedited, stepup>>
        \/ /\ awaited' = "AUTH1" /\ SharedKeys
           /\ expedited' \in Engines /\ expedited' # NoEngine
           /\ expedited'.eph = eph /\ expedited'.kind = "standard"
           /\ expedited'.enc = 1 /\ expedited'.dec = 1
           /\ stepup' \in Engines /\ stepup' # NoEngine
           /\ stepup'.eph = eph /\ stepup'.kind = "stepup" /\ stepup'.enc = 1 /\ stepup'.dec = 1
    BY <1>1, EngineTypes DEF SharedKeys
  <1>3. TypeOK'
    BY <1>2 DEF ReaderInv, TypeOK, Commands
  <1>4. ControlOK'
    BY <1>1 DEF ReaderInv, ControlOK, ToldOnce, Idle
  <1>5. EnginesOK'
    BY <1>1, <1>2 DEF ReaderInv, EnginesOK, Handshaking, Secured, SharedKeys, Using
  <1>6. CountersOK'
    BY <1>1, <1>2 DEF ReaderInv, CountersOK, Secured, Using
  <1>7. NoncesOK'
    BY <1>2 DEF ReaderInv, NoncesOK
  <1>8. GrantsOK'
    BY <1>1 DEF ReaderInv, GrantsOK, GrantedAuthentic, FastGrantsKnown, Handshaking
  <1>9. CacheOK'
    BY DEF ReaderInv, CacheOK, CacheHoldsMostRecent, Positions
  <1>10. QED
    BY <1>3, <1>4, <1>5, <1>6, <1>7, <1>8, <1>9 DEF ReaderInv


\* An engine that exists encrypts: its nonce is new, and behind its counter now.
LEMMA FreshNonce ==
    ASSUME ReaderInv, NEW g \in Engines, g # NoEngine,
           \/ g.eph = expedited.eph /\ g.kind = expedited.kind /\ g.enc = expedited.enc
           \/ g.eph = stepup.eph /\ g.kind = stepup.kind /\ g.enc = stepup.enc
    PROVE  Nonce(g) \notin nonces
  <1>1. Nonce(g)[1] = g.eph /\ Nonce(g)[2] = g.kind /\ Nonce(g)[3] = g.enc /\ g.enc \in Nat
    BY EngineSteps
  <1>2. QED
    BY <1>1 DEF ReaderInv, NoncesOK

\* A command in the secure channel moves one counter past the nonce it used.
LEMMA EncipheredPreserves ==
    ASSUME ReaderInv, Enciphered
    PROVE  ReaderInv'
  <1> USE DEF Enciphered, Base, StorageKept
  <1>1. /\ ~ reporting /\ reporting \in BOOLEAN /\ alive
        /\ expedited \in Engines /\ stepup \in Engines
        /\ MaxCounter \in Nat \ {0}
    BY ReaderAssumption DEF ReaderInv, ControlOK, TypeOK
  <1>2. PICK g \in {expedited, stepup}, t \in {"EXCHANGE", "ENVELOPE"} :
          /\ g # NoEngine /\ g.enc < MaxCounter /\ g.dec < MaxCounter
          /\ awaited' = t /\ sent' = Secure(t, g) /\ nonces' = nonces \cup {Nonce(g)}
          /\ \/ /\ g = expedited /\ call'.engine = "expedited"
                /\ expedited' = Encrypted(g) /\ UNCHANGED stepup
             \/ /\ g = stepup /\ call'.engine = "stepup"
                /\ stepup' = Encrypted(g) /\ UNCHANGED expedited
    OBVIOUS
  <1>3. /\ g \in Engines /\ g.enc \in Nat /\ g.dec \in Nat
        /\ Encrypted(g) \in Engines /\ Encrypted(g) # NoEngine
        /\ Encrypted(g).eph = g.eph /\ Encrypted(g).kind = g.kind
        /\ Encrypted(g).enc = g.enc + 1 /\ Encrypted(g).dec = g.dec
        /\ Nonce(g) \in Nonces
        /\ Nonce(g)[1] = g.eph /\ Nonce(g)[2] = g.kind /\ Nonce(g)[3] = g.enc
        /\ Secure(t, g) \in Messages
    <2>1. g.enc \in Nat /\ g.enc <= MaxCounter + 1
      BY <1>1, <1>2, EngineSteps
    <2>2. t \in Commands
      BY <1>2 DEF Commands
    <2>3. QED
      BY <1>1, <1>2, <2>1, <2>2, EngineSteps, MessagesOK
  <1>4. /\ expedited'.eph = expedited.eph /\ expedited'.kind = expedited.kind
        /\ stepup'.eph = stepup.eph /\ stepup'.kind = stepup.kind
        /\ expedited' \in Engines /\ stepup' \in Engines
        /\ expedited'.dec = expedited.dec /\ stepup'.dec = stepup.dec
        /\ expedited.enc \in Nat /\ stepup.enc \in Nat
    BY <1>1, <1>2, <1>3, EngineSteps
  <1>5. TypeOK'
    BY <1>1, <1>2, <1>3, <1>4 DEF ReaderInv, TypeOK, Commands
  <1>6. ControlOK'
    BY <1>1, <1>2 DEF ReaderInv, ControlOK, ToldOnce, Idle
  <1>7. EnginesOK'
    <2>1. \/ g = expedited /\ expedited' = Encrypted(g) /\ Using' = "expedited" /\ UNCHANGED stepup
          \/ g = stepup /\ stepup' = Encrypted(g) /\ Using' = "stepup" /\ UNCHANGED expedited
      BY <1>1, <1>2 DEF Using
    <2>2. /\ g.kind # "none"
      BY <1>2 DEF ReaderInv, EnginesOK
    <2>3. QED
      BY <1>2, <1>3, <1>4, <2>1, <2>2 DEF ReaderInv, EnginesOK, Handshaking, Secured
  <1>8. CountersOK'
    <2>1. \/ g = expedited /\ Using' = "expedited" /\ expedited'.enc = g.enc + 1 /\ UNCHANGED stepup
          \/ g = stepup /\ Using' = "stepup" /\ stepup'.enc = g.enc + 1 /\ UNCHANGED expedited
      BY <1>1, <1>2, <1>3 DEF Using
    <2>2. g.enc + 1 <= MaxCounter /\ g.dec <= MaxCounter
      BY <1>1, <1>2, <1>3
    <2>3. QED
      BY <1>1, <1>2, <1>3, <1>4, <2>1, <2>2 DEF ReaderInv, CountersOK, Secured
  <1>9. NoncesOK'
    <2>1. /\ g.eph <= used /\ g.kind # "none"
          /\ expedited.kind # "stepup" /\ (g = stepup => g.kind = "stepup")
          /\ awaited' \notin {"AUTH0", "LOAD_CERT"}
          /\ stepup.kind \in {"none", "stepup"}
      BY <1>2 DEF ReaderInv, EnginesOK
    <2>2. ASSUME NEW n \in nonces
          PROVE  /\ n[1] <= used /\ n[2] # "none" /\ n[3] \in Nat
                 /\ n[1] = expedited'.eph /\ n[2] = expedited'.kind => n[3] < expedited'.enc
                 /\ n[1] = stepup'.eph /\ n[2] = stepup'.kind => n[3] < stepup'.enc
      <3>1. /\ n[3] \in Nat /\ n[1] <= used /\ n[2] # "none"
            /\ n[1] = expedited.eph /\ n[2] = expedited.kind => n[3] < expedited.enc
            /\ n[1] = stepup.eph /\ n[2] = stepup.kind => n[3] < stepup.enc
        BY <1>1 DEF ReaderInv, TypeOK, NoncesOK, Nonces, Counters
      <3>2. /\ expedited'.enc = expedited.enc \/ expedited'.enc = expedited.enc + 1
            /\ stepup'.enc = stepup.enc \/ stepup'.enc = stepup.enc + 1
        BY <1>2, <1>3
      <3>3. QED
        BY <1>4, <3>1, <3>2
    <2>3. /\ Nonce(g)[1] <= used /\ Nonce(g)[2] # "none"
          /\ Nonce(g)[1] = expedited'.eph /\ Nonce(g)[2] = expedited'.kind
                => Nonce(g)[3] < expedited'.enc
          /\ Nonce(g)[1] = stepup'.eph /\ Nonce(g)[2] = stepup'.kind
                => Nonce(g)[3] < stepup'.enc
      BY <1>2, <1>3, <1>4, <2>1
    <2>4. QED
      BY <1>2, <2>1, <2>2, <2>3 DEF NoncesOK
  <1>10. GrantsOK'
    BY <1>2, <1>4 DEF ReaderInv, GrantsOK, GrantedAuthentic, FastGrantsKnown, Handshaking
  <1>11. CacheOK'
    BY DEF ReaderInv, CacheOK, CacheHoldsMostRecent, Positions
  <1>12. QED
    BY <1>5, <1>6, <1>7, <1>8, <1>9, <1>10, <1>11 DEF ReaderInv

\* failure_process reports once, and moves the expedited counter if it enciphers.
LEMMA ReportedPreserves ==
    ASSUME ReaderInv, Reported
    PROVE  ReaderInv'
  <1> USE DEF Reported, Base, StorageKept
  <1>1. /\ alive /\ ~ Idle /\ MaxCounter \in Nat \ {0}
        /\ told \in [commands : Nat, events : Nat] /\ told.commands = 0 /\ told.events <= 1
        /\ ~ (told.events # 0)
        /\ expedited.enc <= MaxCounter /\ expedited.enc \in Nat
    BY ReaderAssumption, EngineSteps
       DEF ReaderInv, ControlOK, TypeOK, ToldOnce, CountersOK
  <1>2. /\ told' \in [commands : Nat, events : Nat]
        /\ told'.commands = 1 /\ told'.events = 0
    BY <1>1 DEF TellCommand
  <1>3. /\ credential' \in Credentials \cup {NoCredential}
        /\ granted => credential' = credential
    BY NamedOK
  <1>4. PICK x :
          /\ Deciphered(x, stepup')
          /\ \/ /\ awaited' = "CONTROL_FLOW" /\ PlainSent /\ UNCHANGED nonces
                /\ expedited' = x
             \/ /\ awaited' = "EXCHANGE" /\ x # NoEngine
                /\ expedited' = Encrypted(x) /\ sent' = Secure("EXCHANGE", x)
                /\ nonces' = nonces \cup {Nonce(x)}
    OBVIOUS
  <1>5. /\ x \in Engines /\ stepup' \in Engines
        /\ x.eph = expedited.eph /\ x.kind = expedited.kind /\ x.enc = expedited.enc
        /\ stepup'.eph = stepup.eph /\ stepup'.kind = stepup.kind /\ stepup'.enc = stepup.enc
        /\ x.kind = "none" => x = NoEngine
        /\ stepup'.kind = "none" => stepup' = NoEngine
        /\ x.dec <= MaxCounter + 1 /\ stepup'.dec <= MaxCounter + 1
    BY <1>4, DecipheredOK
  <1>6. /\ x.enc \in Nat /\ x.enc <= MaxCounter + 1
        /\ Encrypted(x) \in Engines /\ Encrypted(x) # NoEngine
        /\ Encrypted(x).eph = x.eph /\ Encrypted(x).kind = x.kind
        /\ Encrypted(x).enc = x.enc + 1 /\ Encrypted(x).dec = x.dec
        /\ Nonce(x) \in Nonces
        /\ Nonce(x)[1] = x.eph /\ Nonce(x)[2] = x.kind /\ Nonce(x)[3] = x.enc
        /\ Secure("EXCHANGE", x) \in Messages
    <2>1. x.enc \in Nat /\ x.enc <= MaxCounter + 1
      BY <1>1, <1>5
    <2>2. "EXCHANGE" \in Commands
      BY DEF Commands
    <2>3. QED
      BY <1>5, <2>1, <2>2, EngineSteps, MessagesOK
  <1>7. /\ expedited' \in Engines
        /\ expedited'.eph = expedited.eph /\ expedited'.kind = expedited.kind
        /\ expedited'.dec <= MaxCounter + 1
        /\ expedited'.enc \in {expedited.enc, expedited.enc + 1}
        /\ expedited'.kind = "none" => expedited' = NoEngine
    BY <1>4, <1>5, <1>6
  <1>8. /\ awaited' \in {"EXCHANGE", "CONTROL_FLOW"}
        /\ awaited' = "EXCHANGE" => Using' = "expedited" /\ expedited' # NoEngine
    BY <1>4, <1>6 DEF Using
  <1>9. TypeOK'
    <2>1. sent' \in Messages
      BY <1>4, <1>6 DEF PlainSent
    <2>2. nonces' \in SUBSET Nonces
      BY <1>4, <1>6 DEF ReaderInv, TypeOK
    <2>3. QED
      BY <1>2, <1>3, <1>5, <1>7, <1>8, <2>1, <2>2 DEF ReaderInv, TypeOK, Commands
  <1>10. ControlOK'
    BY <1>1, <1>2, <1>8 DEF ReaderInv, ControlOK, ToldOnce, Idle
  <1>11. EnginesOK'
    BY <1>5, <1>7, <1>8 DEF ReaderInv, EnginesOK, Handshaking, Secured
  <1>12. CountersOK'
    <2>1. expedited'.enc <= MaxCounter + 1
      BY <1>1, <1>7
    <2>2. QED
      BY <1>5, <1>7, <2>1 DEF ReaderInv, CountersOK
  <1>13. NoncesOK'
    <2>1. ASSUME NEW n \in nonces
          PROVE  /\ n[1] <= used /\ n[2] # "none"
                 /\ n[1] = expedited'.eph /\ n[2] = expedited'.kind => n[3] < expedited'.enc
                 /\ n[1] = stepup'.eph /\ n[2] = stepup'.kind => n[3] < stepup'.enc
      <3>1. /\ n[3] \in Nat /\ n[1] <= used /\ n[2] # "none"
            /\ n[1] = expedited.eph /\ n[2] = expedited.kind => n[3] < expedited.enc
            /\ n[1] = stepup.eph /\ n[2] = stepup.kind => n[3] < stepup.enc
        BY <1>1 DEF ReaderInv, TypeOK, NoncesOK, Nonces, Counters
      <3>2. QED
        BY <1>1, <1>5, <1>7, <3>1
    <2>2. CASE UNCHANGED nonces
      BY <1>8, <2>1, <2>2 DEF NoncesOK
    <2>3. CASE nonces' = nonces \cup {Nonce(x)} /\ x # NoEngine /\ expedited' = Encrypted(x)
      <3>1. /\ x.kind # "none" /\ x.kind # stepup.kind /\ x.eph <= used
        BY <1>5, <2>3 DEF ReaderInv, EnginesOK
      <3>2. /\ Nonce(x)[1] <= used /\ Nonce(x)[2] # "none"
            /\ Nonce(x)[3] < expedited'.enc /\ Nonce(x)[2] # stepup'.kind
        BY <1>5, <1>6, <2>3, <3>1
      <3>3. QED
        BY <1>8, <2>1, <2>3, <3>2 DEF NoncesOK
    <2>4. QED
      BY <1>4, <2>2, <2>3
  <1>14. GrantsOK'
    BY <1>3, <1>7, <1>8
       DEF ReaderInv, GrantsOK, GrantedAuthentic, FastGrantsKnown, Handshaking
  <1>15. CacheOK'
    BY DEF ReaderInv, CacheOK, CacheHoldsMostRecent, Positions
  <1>16. QED
    BY <1>9, <1>10, <1>11, <1>12, <1>13, <1>14, <1>15 DEF ReaderInv

\* The entries of the fast cache.
LEMMA CacheEntries ==
    ASSUME ReaderInv
    PROVE  /\ cache \in Seq(Entries) /\ Len(cache) \in Nat
           /\ \A i \in 1 .. Len(cache) :
                 /\ cache[i] \in Entries
                 /\ cache[i].credential \in Credentials /\ cache[i].key \in Handshakes
  <1>1. cache \in Seq(Entries)
    BY DEF ReaderInv, TypeOK
  <1>2. Len(cache) \in Nat /\ \A i \in 1 .. Len(cache) : cache[i] \in Entries
    BY <1>1
  <1>3. QED
    BY <1>1, <1>2 DEF Entries

\* The cache entry that fitted names a credential that signed before.
LEMMA GrantedFastPreserves ==
    ASSUME ReaderInv, GrantedFast
    PROVE  ReaderInv'
  <1> USE DEF GrantedFast, Base, PlainSent, Resting
  <1>1. /\ NoCall \in Calls /\ NoCall.name = "none" /\ MaxCounter \in Nat \ {0}
        /\ alive /\ eph # 0 /\ eph \in 0 .. MaxEphemeral /\ eph <= used
    BY CallTypes, ReaderAssumption
       DEF ReaderInv, ControlOK, TypeOK, EnginesOK, Handshaking
  <1>2. /\ expedited' \in Engines /\ expedited' # NoEngine
        /\ expedited'.eph = eph /\ expedited'.kind = "fast"
        /\ expedited'.enc = 1 /\ expedited'.dec = 1
    BY <1>1, EngineTypes
  <1>3. PICK i \in 1 .. Len(cache) :
           credential' = cache[i].credential /\ proof' = <<eph, cache[i].credential>>
    OBVIOUS
  <1>4. cache[i].credential \in Credentials /\ cache[i].key \in Handshakes
    BY CacheEntries
  <1>5. /\ last[cache[i].credential] = cache[i].key
        /\ last[cache[i].credential] < eph
    BY <1>4 DEF ReaderInv, CacheOK, CacheHoldsMostRecent, GrantsOK, Handshaking
  <1>6. last[cache[i].credential] \in 1 .. eph - 1
    BY <1>1, <1>4, <1>5, ReaderAssumption DEF Handshakes
  <1>7. TypeOK'
    BY <1>1, <1>2, <1>3, <1>4 DEF ReaderInv, TypeOK
  <1>8. ControlOK'
    BY <1>1 DEF ReaderInv, ControlOK, ToldOnce
  <1>9. EnginesOK'
    BY <1>1, <1>2 DEF ReaderInv, EnginesOK, Handshaking, Secured
  <1>10. CountersOK'
    BY <1>1, <1>2 DEF ReaderInv, CountersOK, Secured
  <1>11. NoncesOK'
    BY <1>2 DEF ReaderInv, NoncesOK
  <1>12. GrantsOK'
    BY <1>1, <1>2, <1>3, <1>6
       DEF ReaderInv, GrantsOK, GrantedAuthentic, FastGrantsKnown, Handshaking
  <1>13. CacheOK'
    BY DEF ReaderInv, CacheOK, CacheHoldsMostRecent, Positions
  <1>14. QED
    BY <1>7, <1>8, <1>9, <1>10, <1>11, <1>12, <1>13 DEF ReaderInv


-----------------------------------------------------------------------------
(* The fast cache.                                                          *)

\* remove_kpersistent takes out the one entry of the credential, if it is there,
\* and keeps the order of the others.
LEMMA ForgetOK ==
    ASSUME ReaderInv, NEW c \in Credentials
    PROVE  /\ Forget(c) \in Seq(Entries) /\ Len(Forget(c)) \in Nat
           /\ \/ Positions(c) = {} /\ Forget(c) = cache
              \/ \E i \in Positions(c) :
                    /\ Positions(c) = {i}
                    /\ Len(Forget(c)) = Len(cache) - 1
                    /\ \A k \in 1 .. Len(cache) - 1 :
                          Forget(c)[k] = IF k < i THEN cache[k] ELSE cache[k + 1]
  <1>1. /\ cache \in Seq(Entries) /\ Len(cache) \in Nat
        /\ \A i \in 1 .. Len(cache) : cache[i] \in Entries /\ cache[i].key \in Nat
    BY CacheEntries, ReaderAssumption DEF Handshakes
  <1>2. CASE Positions(c) = {}
    BY <1>1, <1>2 DEF Forget
  <1>3. CASE Positions(c) # {}
    <2>1. PICK i \in Positions(c) : TRUE
      BY <1>3
    <2>2. i \in 1 .. Len(cache) /\ i \in Nat
      BY <1>1, <2>1 DEF Positions
    <2>3. ASSUME NEW j \in Positions(c)
          PROVE  j = i
      <3>1. /\ j \in 1 .. Len(cache) /\ cache[j].credential = c /\ cache[i].credential = c
        BY <2>1 DEF Positions
      <3>2. cache[i].key = cache[j].key
        BY <2>2, <3>1 DEF ReaderInv, CacheOK, CacheHoldsMostRecent
      <3>3. ~ (i < j) /\ ~ (j < i)
        <4>1. /\ i < j => cache[i].key < cache[j].key
              /\ j < i => cache[j].key < cache[i].key
          BY <2>2, <3>1 DEF ReaderInv, CacheOK, CacheHoldsMostRecent
        <4>2. cache[i].key \in Nat /\ cache[j].key \in Nat
          BY <1>1, <2>2, <3>1
        <4>3. QED
          BY <3>2, <4>1, <4>2
      <3>4. QED
        BY <1>1, <2>2, <3>1, <3>3
    <2>4. Positions(c) = {i}
      BY <2>1, <2>3
    <2>5. i = CHOOSE k \in Positions(c) : \A j \in Positions(c) : k <= j
      BY <2>2, <2>4
    <2> DEFINE front == SubSeq(cache, 1, i - 1)
               back  == SubSeq(cache, i + 1, Len(cache))
    <2>6. Forget(c) = front \o back
      BY <1>3, <2>5 DEF Forget
    <2>7. /\ front \in Seq(Entries)
          /\ Len(front) = i - 1
          /\ \A k \in 1 .. i - 1 : front[k] = cache[k]
      <3>1. 1 \in Int /\ i - 1 \in Int /\ \A k \in 1 .. i - 1 : cache[k] \in Entries
        BY <1>1, <2>2
      <3>2. /\ front \in Seq(Entries)
            /\ Len(front) = IF 1 <= i - 1 THEN (i - 1) - 1 + 1 ELSE 0
            /\ \A k \in 1 .. (i - 1) - 1 + 1 : front[k] = cache[1 + k - 1]
        BY ONLY <3>1, SubSeqProperties
      <3>3. QED
        BY <2>2, <3>2
    <2>8. /\ back \in Seq(Entries)
          /\ Len(back) = Len(cache) - i
          /\ \A k \in 1 .. Len(cache) - i :
                back[k] = cache[i + k]
      <3>1. /\ i + 1 \in Int /\ Len(cache) \in Int
            /\ \A k \in i + 1 .. Len(cache) : cache[k] \in Entries
        BY <1>1, <2>2
      <3>2. /\ back \in Seq(Entries)
            /\ Len(back) =
                  IF i + 1 <= Len(cache) THEN Len(cache) - (i + 1) + 1 ELSE 0
            /\ \A k \in 1 .. Len(cache) - (i + 1) + 1 :
                  back[k] = cache[(i + 1) + k - 1]
        BY ONLY <3>1, SubSeqProperties
      <3>3. QED
        BY <1>1, <2>2, <3>2
    <2> HIDE DEF front, back
    <2>9. /\ Forget(c) \in Seq(Entries)
          /\ Len(Forget(c)) = Len(front) + Len(back)
          /\ \A k \in 1 .. Len(front) + Len(back) :
                Forget(c)[k] =
                   IF k <= Len(front) THEN front[k]
                   ELSE back[k - Len(front)]
      BY <2>6, <2>7, <2>8, ConcatProperties
    <2>10. Len(Forget(c)) = Len(cache) - 1 /\ Len(cache) - 1 \in Nat
      BY <1>1, <2>2, <2>7, <2>8, <2>9
    <2>11. ASSUME NEW k \in 1 .. Len(cache) - 1
           PROVE  Forget(c)[k] = IF k < i THEN cache[k] ELSE cache[k + 1]
      <3>0. /\ k \in 1 .. Len(front) + Len(back)
            /\ k <= Len(front) <=> k < i
            /\ k < i => k \in 1 .. i - 1
        BY <1>1, <2>2, <2>7, <2>8
      <3>1. CASE k < i
        BY <2>7, <2>9, <3>0, <3>1
      <3>2. CASE ~ (k < i)
        <4>1. k - (i - 1) \in 1 .. Len(cache) - i /\ i + (k - (i - 1)) = k + 1
          BY <1>1, <2>2, <3>2
        <4>2. Forget(c)[k] = back[k - (i - 1)]
          BY <2>7, <2>9, <3>0, <3>2
        <4>3. QED
          BY <2>8, <3>2, <4>1, <4>2
      <3>3. QED BY <3>1, <3>2
    <2>12. QED
      BY <2>1, <2>4, <2>9, <2>10, <2>11
  <1>4. QED
    BY <1>2, <1>3

\* What is left without the entry of c, entry by entry.
LEMMA ForgetKeeps ==
    ASSUME ReaderInv, NEW c \in Credentials
    PROVE  /\ Forget(c) \in Seq(Entries) /\ Len(Forget(c)) \in Nat
           /\ \A k \in 1 .. Len(Forget(c)) :
                 /\ Forget(c)[k] \in Entries /\ Forget(c)[k].credential \in Credentials \ {c}
                 /\ Forget(c)[k].key = last[Forget(c)[k].credential]
           /\ \A k, l \in 1 .. Len(Forget(c)) : k < l => Forget(c)[k].key < Forget(c)[l].key
           /\ \A j \in 1 .. Len(cache) :
                 cache[j].credential # c => \E k \in 1 .. Len(Forget(c)) : Forget(c)[k] = cache[j]
           /\ \A k \in 1 .. Len(Forget(c)) : cache[1].key <= Forget(c)[k].key
           /\ \/ Positions(c) = {} /\ Forget(c) = cache
              \/ Positions(c) # {} /\ Len(Forget(c)) = Len(cache) - 1
  <1> DEFINE rest == Forget(c)
  <1>1. /\ cache \in Seq(Entries) /\ Len(cache) \in Nat
        /\ \A i \in 1 .. Len(cache) :
              /\ cache[i] \in Entries /\ cache[i].key \in Nat
              /\ cache[i].credential \in Credentials
              /\ cache[i].key = last[cache[i].credential]
        /\ \A i, j \in 1 .. Len(cache) : i < j => cache[i].key < cache[j].key
    BY CacheEntries, ReaderAssumption
       DEF Handshakes, ReaderInv, CacheOK, CacheHoldsMostRecent
  <1>2. \A k \in 1 .. Len(cache) : cache[1].key <= cache[k].key
    <2>1. ASSUME NEW k \in 1 .. Len(cache)
          PROVE  cache[1].key <= cache[k].key
      <3>1. 1 \in 1 .. Len(cache) /\ (k = 1 \/ 1 < k)
        BY <1>1
      <3>2. cache[1].key \in Nat /\ cache[k].key \in Nat
        BY <1>1, <3>1
      <3>3. k = 1 \/ cache[1].key < cache[k].key
        BY <1>1, <3>1
      <3>4. QED
        BY <3>2, <3>3
    <2>2. QED BY <2>1
  <1>3. CASE Positions(c) = {} /\ rest = cache
    <2>1. \A k \in 1 .. Len(cache) : cache[k].credential # c
      BY <1>3 DEF Positions
    <2>2. QED
      BY <1>1, <1>2, <1>3, <2>1
  <1>4. CASE Positions(c) # {}
    <2>1. PICK i \in Positions(c) :
             /\ Positions(c) = {i}
             /\ Len(rest) = Len(cache) - 1
             /\ \A k \in 1 .. Len(cache) - 1 :
                   rest[k] = IF k < i THEN cache[k] ELSE cache[k + 1]
      BY <1>4, ForgetOK
    <2>2. rest \in Seq(Entries) /\ Len(rest) \in Nat
      BY ForgetOK
    <2> DEFINE at(k) == IF k < i THEN k ELSE k + 1
    <2>3. i \in 1 .. Len(cache)
      BY DEF Positions
    <2>4. \A j \in 1 .. Len(cache) : cache[j].credential = c <=> j = i
      BY <2>1 DEF Positions
    <2> HIDE DEF rest
    <2>5. \A k \in 1 .. Len(rest) :
             at(k) \in 1 .. Len(cache) /\ at(k) # i /\ rest[k] = cache[at(k)]
      BY <1>1, <2>1, <2>3
    <2>6. \A k, l \in 1 .. Len(rest) : k < l => at(k) < at(l)
      BY <1>1, <2>1, <2>3
    <2>7. \A j \in 1 .. Len(cache) :
             j # i => \E k \in 1 .. Len(rest) : at(k) = j
      <3>1. ASSUME NEW j \in 1 .. Len(cache), j # i
            PROVE  \E k \in 1 .. Len(rest) : at(k) = j
        <4>1. CASE j < i
          <5>1. j \in 1 .. Len(rest) /\ at(j) = j
            BY <1>1, <2>1, <2>3, <4>1
          <5>2. QED BY <5>1
        <4>2. CASE i < j
          <5>1. j - 1 \in 1 .. Len(rest) /\ at(j - 1) = j
            BY <1>1, <2>1, <2>3, <4>2
          <5>2. QED BY <5>1
        <4>3. QED
          BY <1>1, <2>3, <3>1, <4>1, <4>2
      <3>2. QED BY <3>1
    <2> HIDE DEF at
    <2>8. \A k \in 1 .. Len(rest) :
             /\ rest[k] \in Entries /\ rest[k].credential \in Credentials \ {c}
             /\ rest[k].key = last[rest[k].credential]
             /\ cache[1].key <= rest[k].key
      BY <1>1, <1>2, <2>4, <2>5
    <2>9. \A k, l \in 1 .. Len(rest) : k < l => rest[k].key < rest[l].key
      BY <1>1, <2>5, <2>6
    <2>10. \A j \in 1 .. Len(cache) :
             cache[j].credential # c => \E k \in 1 .. Len(rest) : rest[k] = cache[j]
      BY <2>4, <2>5, <2>7
    <2>11. QED
      BY <1>4, <2>1, <2>2, <2>8, <2>9, <2>10 DEF rest
  <1>5. QED
    BY <1>3, <1>4, ForgetOK

\* add_kpersistent keeps the credentials that signed most recently.
LEMMA RememberingOK ==
    ASSUME ReaderInv, NEW c \in Credentials, options.fast, UNCHANGED options,
           eph \in Handshakes, \A d \in Credentials : last[d] < eph,
           last' = [last EXCEPT ![c] = eph], cache' = Remembering(c, eph)
    PROVE  CacheHoldsMostRecent' /\ cache' \in Seq(Entries)
  <1> DEFINE rest   == Forget(c)
             longer == Append(rest, Entry(c, eph))
  <1>1. /\ rest \in Seq(Entries) /\ Len(rest) \in Nat
        /\ \A k \in 1 .. Len(rest) :
              /\ rest[k] \in Entries /\ rest[k].credential \in Credentials \ {c}
              /\ rest[k].key = last[rest[k].credential]
        /\ \A k, l \in 1 .. Len(rest) : k < l => rest[k].key < rest[l].key
        /\ \A j \in 1 .. Len(cache) :
              cache[j].credential # c => \E k \in 1 .. Len(rest) : rest[k] = cache[j]
        /\ \A k \in 1 .. Len(rest) : cache[1].key <= rest[k].key
        /\ \/ Positions(c) = {} /\ rest = cache
           \/ Positions(c) # {} /\ Len(rest) = Len(cache) - 1
    BY ForgetKeeps
  <1>2. /\ Len(cache) \in Nat /\ Len(cache) <= CacheLimit /\ CacheLimit \in Nat \ {0}
        /\ MaxEphemeral \in Nat /\ eph \in Nat
        /\ last \in [Credentials -> 0 .. MaxEphemeral]
        /\ \A d \in Credentials :
              /\ last[d] \in Nat /\ last'[d] = IF d = c THEN eph ELSE last[d]
        /\ \A i \in 1 .. Len(cache) : cache[i].key \in Nat /\ cache[i].credential \in Credentials
    <2>1. /\ Len(cache) \in Nat /\ CacheLimit \in Nat \ {0} /\ MaxEphemeral \in Nat
          /\ eph \in Nat /\ last \in [Credentials -> 0 .. MaxEphemeral]
      BY CacheEntries, ReaderAssumption DEF ReaderInv, TypeOK, Handshakes
    <2>2. Len(cache) <= CacheLimit
      BY DEF ReaderInv, CacheOK, CacheHoldsMostRecent
    <2>3. \A d \in Credentials :
             last[d] \in Nat /\ last'[d] = IF d = c THEN eph ELSE last[d]
      BY <2>1
    <2>4. \A i \in 1 .. Len(cache) :
             cache[i].key \in Nat /\ cache[i].credential \in Credentials
      BY <2>1, CacheEntries DEF Handshakes
    <2>5. QED
      BY <2>1, <2>2, <2>3, <2>4
  <1>3. Entry(c, eph) \in Entries /\ Entry(c, eph).credential = c /\ Entry(c, eph).key = eph
    BY DEF Entry, Entries
  <1> HIDE DEF rest
  <1>4. /\ longer \in Seq(Entries) /\ longer # << >> /\ Len(longer) = Len(rest) + 1
        /\ \A k \in 1 .. Len(rest) : longer[k] = rest[k]
        /\ longer[Len(rest) + 1] = Entry(c, eph)
    BY <1>1, <1>3, AppendProperties
  <1>5. cache' = IF Len(longer) > CacheLimit THEN Tail(longer) ELSE longer
    BY DEF Remembering, rest
  <1> HIDE DEF longer
  <1>6. \A k \in 1 .. Len(longer) :
           /\ longer[k].credential \in Credentials /\ longer[k].key \in Nat
           /\ longer[k].key = last'[longer[k].credential]
           /\ k = Len(longer) \/ (k \in 1 .. Len(rest) /\ longer[k] = rest[k])
           /\ Len(cache) # 0 => cache[1].key <= longer[k].key
    <2>1. ASSUME NEW k \in 1 .. Len(rest)
          PROVE  /\ longer[k] = rest[k]
                 /\ rest[k].credential \in Credentials /\ rest[k].key \in Nat
                 /\ rest[k].key = last'[rest[k].credential]
                 /\ Len(cache) # 0 => cache[1].key <= rest[k].key
      BY <1>1, <1>2, <1>4, <2>1
    <2>2. Len(cache) # 0 => cache[1].key <= eph
      <3>1. Len(cache) # 0 => 1 \in 1 .. Len(cache)
        BY <1>2
      <3>2. \A i \in 1 .. Len(cache) : cache[i].key = last[cache[i].credential]
        BY DEF ReaderInv, CacheOK, CacheHoldsMostRecent
      <3>3. QED
        BY <1>2, <3>1, <3>2
    <2>3. /\ longer[Len(longer)].credential = c /\ longer[Len(longer)].key = eph
          /\ last'[c] = eph
      BY <1>2, <1>3, <1>4
    <2>4. \A k \in 1 .. Len(longer) : k = Len(longer) \/ k \in 1 .. Len(rest)
      BY <1>1, <1>4
    <2>5. QED
      BY <1>2, <2>1, <2>2, <2>3, <2>4
  <1>7. \A k, l \in 1 .. Len(longer) : k < l => longer[k].key < longer[l].key
    <2>1. ASSUME NEW k \in 1 .. Len(longer), NEW l \in 1 .. Len(longer), k < l
          PROVE  longer[k].key < longer[l].key
      <3>1. k \in 1 .. Len(rest) /\ (l \in 1 .. Len(rest) \/ l = Len(rest) + 1)
        BY <1>1, <1>4, <2>1
      <3>2. CASE l \in 1 .. Len(rest)
        BY <1>1, <1>4, <2>1, <3>1, <3>2
      <3>3. CASE l = Len(rest) + 1
        <4>1. rest[k].key < eph
          BY <1>1, <1>2, <3>1
        <4>2. QED
          BY <1>3, <1>4, <3>1, <3>3, <4>1
      <3>4. QED BY <3>1, <3>2, <3>3
    <2>2. QED BY <2>1
  <1>8. \A d \in Credentials :
           last'[d] # 0 => \/ \E k \in 1 .. Len(longer) : longer[k].credential = d
                           \/ Len(cache) = CacheLimit /\ last'[d] < cache[1].key
    <2>1. ASSUME NEW d \in Credentials, last'[d] # 0
          PROVE  \/ \E k \in 1 .. Len(longer) : longer[k].credential = d
                 \/ Len(cache) = CacheLimit /\ last'[d] < cache[1].key
      <3>1. CASE d = c
        <4>1. Len(longer) \in 1 .. Len(longer) /\ longer[Len(longer)].credential = c
          BY <1>1, <1>3, <1>4
        <4>2. QED BY <3>1, <4>1
      <3>2. CASE d # c /\ Positions(d) = {}
        BY <1>2, <2>1, <3>2 DEF ReaderInv, CacheOK, CacheHoldsMostRecent
      <3>3. CASE d # c /\ Positions(d) # {}
        <4>1. PICK j \in 1 .. Len(cache) : cache[j].credential = d
          BY <3>3 DEF Positions
        <4>2. PICK k \in 1 .. Len(rest) : rest[k] = cache[j]
          BY <1>1, <3>3, <4>1
        <4>3. k \in 1 .. Len(longer) /\ longer[k].credential = d
          BY <1>1, <1>4, <4>1, <4>2
        <4>4. QED BY <4>3
      <3>4. QED BY <3>1, <3>2, <3>3
    <2>2. QED BY <2>1
  <1>9. CASE Len(longer) > CacheLimit
    <2>1. /\ cache' \in Seq(Entries) /\ Len(cache') = Len(longer) - 1
          /\ \A k \in 1 .. Len(cache') : cache'[k] = longer[k + 1]
      BY <1>4, <1>5, <1>9, HeadTailProperties
    <2>2. Len(cache') = CacheLimit /\ rest = cache /\ Len(longer) = CacheLimit + 1
      BY <1>1, <1>2, <1>4, <1>9, <2>1
    <2>3. \A k \in 1 .. Len(cache') : k + 1 \in 1 .. Len(longer) /\ cache'[k] = longer[k + 1]
      BY <1>2, <2>1, <2>2
    <2>4. \A k, l \in 1 .. Len(cache') : k < l => cache'[k].key < cache'[l].key
      <3>1. ASSUME NEW k \in 1 .. Len(cache'), NEW l \in 1 .. Len(cache'), k < l
            PROVE  cache'[k].key < cache'[l].key
        <4>1. k + 1 < l + 1
          BY <1>2, <2>2, <3>1
        <4>2. QED
          BY <1>7, <2>3, <4>1
      <3>2. QED BY <3>1
    <2>5. /\ 1 \in 1 .. Len(cache') /\ 1 \in 1 .. Len(longer) /\ 1 < 1 + 1
          /\ 1 + 1 \in 1 .. Len(longer) /\ cache'[1] = longer[1 + 1]
          /\ longer[1].key < cache'[1].key
          /\ longer[1] = cache[1] /\ Len(cache) # 0
      <3>1. /\ 1 \in 1 .. Len(cache') /\ 1 \in 1 .. Len(longer) /\ 1 < 1 + 1
            /\ 1 \in 1 .. Len(rest) /\ Len(rest) = Len(cache) /\ Len(cache) # 0
        BY <1>1, <1>2, <1>4, <2>2
      <3>2. /\ 1 + 1 \in 1 .. Len(longer) /\ cache'[1] = longer[1 + 1]
        BY <2>3, <3>1
      <3>3. longer[1] = cache[1]
        BY <1>4, <2>2, <3>1
      <3>4. QED
        BY <1>7, <3>1, <3>2, <3>3
    <2>6. ASSUME NEW d \in Credentials, last'[d] # 0, Positions(d)' = {}
          PROVE  last'[d] < cache'[1].key
      <3>1. \A k \in 1 .. Len(cache') : cache'[k].credential # d
        BY <2>6 DEF Positions
      <3>2. CASE \E k \in 1 .. Len(longer) : longer[k].credential = d
        <4>1. PICK k \in 1 .. Len(longer) : longer[k].credential = d
          BY <3>2
        <4>2. k = 1
          <5>1. CASE k # 1
            <6>1. k - 1 \in 1 .. Len(cache') /\ (k - 1) + 1 = k
              BY <1>2, <2>2, <5>1
            <6>2. QED
              BY <2>3, <3>1, <4>1, <6>1
          <5>2. QED BY <5>1
        <4>3. longer[1].key = last'[d]
          BY <1>6, <2>5, <4>1, <4>2
        <4>4. QED
          BY <2>5, <4>3
      <3>3. CASE Len(cache) = CacheLimit /\ last'[d] < cache[1].key
        <4>1. cache[1].key \in Nat /\ longer[1 + 1].key \in Nat /\ last'[d] \in Nat
          BY <1>2, <1>6, <2>5
        <4>2. QED
          BY <2>5, <3>3, <4>1
      <3>4. QED
        BY <1>8, <2>6, <3>2, <3>3
    <2>7. \A k \in 1 .. Len(cache') : cache'[k].key = last'[cache'[k].credential]
      BY <1>6, <2>3
    <2>8. Len(cache') <= CacheLimit
      BY <1>2, <2>2
    <2>9. QED
      BY <2>1, <2>2, <2>4, <2>6, <2>7, <2>8 DEF CacheHoldsMostRecent
  <1>10. CASE ~ (Len(longer) > CacheLimit)
    <2>1. cache' = longer /\ Len(longer) \in Nat /\ Len(longer) <= CacheLimit
      BY <1>1, <1>2, <1>4, <1>5, <1>10
    <2>2. ASSUME NEW d \in Credentials, last'[d] # 0, Positions(d)' = {}
          PROVE  Len(cache') = CacheLimit /\ last'[d] < cache'[1].key
      <3>1. \A k \in 1 .. Len(longer) : longer[k].credential # d
        BY <2>1, <2>2 DEF Positions
      <3>2. Len(cache) = CacheLimit /\ last'[d] < cache[1].key
        BY <1>8, <2>2, <3>1
      <3>3. /\ Len(longer) = CacheLimit /\ 1 \in 1 .. Len(longer) /\ Len(cache) # 0
            /\ 1 \in 1 .. Len(cache)
        BY <1>1, <1>2, <1>4, <2>1, <3>2
      <3>4. /\ cache[1].key <= longer[1].key
            /\ cache[1].key \in Nat /\ longer[1].key \in Nat /\ last'[d] \in Nat
        BY <1>2, <1>6, <3>3
      <3>5. QED
        BY <2>1, <3>2, <3>3, <3>4
    <2>3. QED
      BY <1>4, <1>6, <1>7, <2>1, <2>2 DEF CacheHoldsMostRecent
  <1>11. QED
    BY <1>9, <1>10


\* The signature is of this handshake, and the cache keeps its Kpersistent.
LEMMA GrantedStandardPreserves ==
    ASSUME ReaderInv, NEW c \in Credentials, GrantedStandard(c)
    PROVE  ReaderInv'
  <1> USE DEF GrantedStandard, Base, PlainSent, Resting
  <1>1. /\ NoCall \in Calls /\ NoCall.name = "none" /\ MaxCounter \in Nat \ {0}
        /\ alive /\ ~ granted /\ eph \in Handshakes /\ eph \in 0 .. MaxEphemeral /\ eph <= used
        /\ \A d \in Credentials : last[d] < eph
        /\ expedited = NewEngine(eph, "standard") /\ reporting = FALSE
        /\ last \in [Credentials -> 0 .. MaxEphemeral] /\ used \in Nat
    <2>1. /\ alive /\ eph \in 0 .. MaxEphemeral /\ used \in 0 .. MaxEphemeral
          /\ last \in [Credentials -> 0 .. MaxEphemeral]
          /\ eph # 0 /\ eph <= used /\ ~ granted /\ \A d \in Credentials : last[d] < eph
          /\ expedited = NewEngine(eph, "standard") /\ reporting = FALSE
      BY DEF ReaderInv, ControlOK, TypeOK, EnginesOK, GrantsOK, Handshaking
    <2>2. MaxEphemeral \in Nat /\ MaxCounter \in Nat \ {0}
      BY ReaderAssumption
    <2>3. eph \in Handshakes /\ used \in Nat
      BY <2>1, <2>2 DEF Handshakes
    <2>4. QED
      BY <2>1, <2>2, <2>3, CallTypes
  <1>2. /\ expedited \in Engines /\ expedited.eph = eph /\ expedited.kind = "standard"
        /\ expedited.enc = 1 /\ expedited.dec = 1
    BY <1>1, EngineTypes
  <1>3. /\ expedited' \in Engines /\ expedited' # NoEngine
        /\ expedited'.eph = eph /\ expedited'.kind = "standard"
        /\ expedited'.enc = 1 /\ expedited'.dec = 2
    <2>1. expedited.dec <= MaxCounter + 1
      BY <1>1, <1>2
    <2>2. QED
      BY <1>2, <2>1, EngineSteps
  <1>4. /\ last' \in [Credentials -> 0 .. MaxEphemeral]
        /\ \A d \in Credentials : last'[d] = IF d = c THEN eph ELSE last[d]
    BY <1>1
  <1>5. cache' \in Seq(Entries) /\ CacheOK'
    <2>1. CASE options.fast
      BY <1>1, <2>1, RememberingOK DEF CacheOK
    <2>2. CASE ~ options.fast
      <3>1. cache' = << >> /\ UNCHANGED options
        BY <2>2 DEF ReaderInv, CacheOK
      <3>2. Len(cache') = 0 /\ cache' \in Seq(Entries)
        BY <3>1, EmptySeq
      <3>3. 0 <= CacheLimit
        BY ReaderAssumption
      <3>4. QED
        BY <2>2, <3>1, <3>2, <3>3 DEF CacheOK, CacheHoldsMostRecent
    <2>3. QED BY <2>1, <2>2
  <1>6. TypeOK'
    BY <1>1, <1>3, <1>4, <1>5 DEF ReaderInv, TypeOK
  <1>7. ControlOK'
    <2>1. started \in BOOLEAN
      BY DEF ReaderInv, TypeOK
    <2>2. QED
      BY <1>1, <2>1 DEF ReaderInv, ControlOK, ToldOnce
  <1>8. EnginesOK'
    BY <1>1, <1>3 DEF ReaderInv, EnginesOK, Handshaking, Secured
  <1>9. CountersOK'
    BY <1>1, <1>3 DEF ReaderInv, CountersOK, Secured
  <1>10. NoncesOK'
    BY <1>2, <1>3 DEF ReaderInv, NoncesOK
  <1>11. GrantsOK'
    BY <1>1, <1>3, <1>4
       DEF ReaderInv, GrantsOK, GrantedAuthentic, FastGrantsKnown, Handshaking
  <1>12. QED
    BY <1>5, <1>6, <1>7, <1>8, <1>9, <1>10, <1>11 DEF ReaderInv

-----------------------------------------------------------------------------
(* The invariant and what follows from it.                                  *)

\* Init establishes the invariant.
LEMMA InitInv == Init => ReaderInv
  <1> SUFFICES ASSUME Init PROVE ReaderInv
    OBVIOUS
  <1> USE DEF Init
  <1>1. /\ NoCall \in Calls /\ NoCall.name = "none" /\ MaxCounter \in Nat \ {0}
        /\ MaxEphemeral \in Nat /\ CacheLimit \in Nat \ {0}
        /\ Configurations \subseteq Options
        /\ NoEngine \in Engines /\ NoEngine.eph = 0 /\ NoEngine.kind = "none"
        /\ NoEngine.enc = 1 /\ NoEngine.dec = 1 /\ Silent \in Messages
    BY CallTypes, ReaderAssumption, EngineTypes, MessagesOK
  <1>2. TypeOK
    <2>1. cache \in Seq(Entries)
      BY EmptySeq
    <2>2. options \in Options
      BY <1>1
    <2>3. /\ 0 \in 0 .. MaxEphemeral /\ told \in [commands : Nat, events : Nat]
          /\ last \in [Credentials -> 0 .. MaxEphemeral]
      BY <1>1
    <2>4. QED
      BY <1>1, <2>1, <2>2, <2>3 DEF TypeOK
  <1>3. ControlOK
    BY DEF ControlOK, ToldOnce
  <1>4. EnginesOK
    BY <1>1 DEF EnginesOK, Handshaking, Secured
  <1>5. CountersOK
    BY <1>1 DEF CountersOK, Secured
  <1>6. NoncesOK
    BY DEF NoncesOK
  <1>7. GrantsOK
    BY DEF GrantsOK, GrantedAuthentic, FastGrantsKnown, Handshaking
  <1>8. CacheOK
    <2>1. Len(cache) = 0 /\ 0 <= CacheLimit
      BY <1>1, EmptySeq
    <2>2. QED
      BY <2>1 DEF CacheOK, CacheHoldsMostRecent
  <1>9. QED
    BY <1>2, <1>3, <1>4, <1>5, <1>6, <1>7, <1>8 DEF ReaderInv

\* Every step, and stuttering, preserves it.
LEMMA NextInv == ReaderInv /\ [Next]_vars => ReaderInv'
  <1> SUFFICES ASSUME ReaderInv, [Next]_vars PROVE ReaderInv'
    OBVIOUS
  <1>1. CASE Next
    <2>1. Kinds
      BY <1>1, StepKinds
    <2>2. QED
      BY <2>1, FinishedPreserves, ClosedPreserves, OpenedPreserves, CalledPreserves,
         BegunPreserves, ProceededPreserves, EncipheredPreserves, ReportedPreserves,
         GrantedFastPreserves, GrantedStandardPreserves
         DEF Kinds
  <1>2. CASE UNCHANGED vars
    BY <1>2
       DEF vars, session, history, control, ReaderInv, TypeOK, ControlOK, EnginesOK, CountersOK,
           NoncesOK, GrantsOK, CacheOK, Idle, Handshaking, Secured, Using, ToldOnce,
           GrantedAuthentic, FastGrantsKnown, CacheHoldsMostRecent, Positions
  <1>3. QED
    BY <1>1, <1>2

\* The inductive invariant holds in every reachable state of the Reader.
THEOREM ReaderInvariant == Spec => []ReaderInv
  BY InitInv, NextInv, PTL DEF Spec

\* Every variable of the Reader keeps its type, for any credentials and bounds.
THEOREM TypeCorrect == Spec => []TypeOK
  <1>1. ReaderInv => TypeOK
    BY DEF ReaderInv
  <1>2. QED
    BY <1>1, ReaderInvariant, PTL

\* Whenever an expedited transaction has told the application that a credential
\* is authentic, that credential proved itself in the handshake of the present
\* ephemeral key, and the engine is of that handshake.
THEOREM Authentic == Spec => []GrantedAuthentic
  <1>1. ReaderInv => GrantedAuthentic
    BY DEF ReaderInv, GrantsOK
  <1>2. QED
    BY <1>1, ReaderInvariant, PTL

\* A fast transaction grants only to a credential whose signature an earlier
\* handshake verified, whatever the size of the cache.
THEOREM FastKnown == Spec => []FastGrantsKnown
  <1>1. ReaderInv => FastGrantsKnown
    BY DEF ReaderInv, GrantsOK
  <1>2. QED
    BY <1>1, ReaderInvariant, PTL

\* The fast cache holds the credentials that signed most recently, in that order,
\* each with the Kpersistent of its latest handshake, for every cache limit.
THEOREM CacheMostRecent == Spec => []CacheHoldsMostRecent
  <1>1. ReaderInv => CacheHoldsMostRecent
    BY DEF ReaderInv, CacheOK
  <1>2. QED
    BY <1>1, ReaderInvariant, PTL

\* Within a transaction the User Device is told of a failure by at most one
\* command and one event.
THEOREM ToldAtMostOnce == Spec => []ToldOnce
  <1>1. ReaderInv => ToldOnce
    BY DEF ReaderInv, ControlOK
  <1>2. QED
    BY <1>1, ReaderInvariant, PTL

\* A command that is encrypted takes a nonce that the transaction has not used.
LEMMA StepNonce ==
    ASSUME ReaderInv, Next
    PROVE  sent'.nonce # NoNonce => sent'.nonce \notin nonces
  <1>1. expedited \in Engines /\ stepup \in Engines
    BY DEF ReaderInv, TypeOK
  <1>2. ASSUME NEW t \in Commands, NEW g \in Engines, g # NoEngine, sent' = Secure(t, g),
               \/ g.eph = expedited.eph /\ g.kind = expedited.kind /\ g.enc = expedited.enc
               \/ g.eph = stepup.eph /\ g.kind = stepup.kind /\ g.enc = stepup.enc
        PROVE  sent'.nonce \notin nonces
    BY <1>2, FreshNonce, MessagesOK
  <1>3. "EXCHANGE" \in Commands /\ "ENVELOPE" \in Commands
    BY DEF Commands
  <1>4. CASE Enciphered
    BY <1>1, <1>2, <1>3, <1>4 DEF Enciphered
  <1>5. CASE Reported
    <2>1. CASE PlainSent
      BY <2>1 DEF PlainSent
    <2>2. CASE \E x : /\ Deciphered(x, stepup') /\ x # NoEngine
                      /\ sent' = Secure("EXCHANGE", x)
      <3>1. PICK x : Deciphered(x, stepup') /\ x # NoEngine /\ sent' = Secure("EXCHANGE", x)
        BY <2>2
      <3>2. x \in Engines /\ x.eph = expedited.eph /\ x.kind = expedited.kind
            /\ x.enc = expedited.enc
        BY <3>1, DecipheredOK
      <3>3. QED
        BY <1>2, <1>3, <3>1, <3>2
    <2>3. QED
      BY <1>5, <2>1, <2>2 DEF Reported
  <1>6. CASE PlainSent
    BY <1>6 DEF PlainSent
  <1>7. QED
    BY <1>4, <1>5, <1>6, StepKinds
       DEF Kinds, Finished, Closed, Opened, Called, Begun, Proceeded, GrantedFast,
           GrantedStandard

\* No two commands of a transaction are encrypted with the same key and counter.
THEOREM NoncesFresh == Spec => NonceNeverReused
  <1>1. ReaderInv /\ [Next]_vars => [sent'.nonce # NoNonce => sent'.nonce \notin nonces]_vars
    BY StepNonce
  <1>2. QED
    BY <1>1, ReaderInvariant, PTL DEF Spec, NonceNeverReused

=============================================================================
