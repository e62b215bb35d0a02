-------------------------------- MODULE Reader --------------------------------
(***************************************************************************)
(* The Reader of the access protocol (access_protocol/reader.py): the       *)
(* transactions an application runs with it, the session and the fast cache *)
(* it keeps, and the failure process.                                       *)
(*                                                                          *)
(* A step is what the Reader does between two awaits of the transport: the  *)
(* application's call up to the first command, or one response (or its loss) *)
(* up to the next command or the end of the call.  Whatever answers is      *)
(* unconstrained: any response to any command.  AccessProtocol puts the     *)
(* User Device of this repository there.                                    *)
(*                                                                          *)
(* Cryptography is symbolic, as in UserDevice: a handshake is the number of *)
(* the Reader's ephemeral key pair, an engine is the handshake, the         *)
(* derivation and two counters.                                             *)
(***************************************************************************)
EXTENDS Naturals, Sequences

CONSTANTS
    Credentials,     \* access credentials (public keys) of User Devices
    NoCredential,    \* session.credential_pubk not set yet
    Registered,      \* credentials that key_slot_list can look up
    Configurations,  \* arguments of the constructor to consider
    CacheLimit,      \* fast_cache_size_limit
    MaxEphemeral,    \* bound of the model on ephemeral keys ever used
    MaxCounter       \* bound of the model on an engine's counters

Options == [transport : {"NFC", "BLE"}, mode : {"TEST", "READER"},
            handling : {"CONTINUE", "ABORT"}, fast : BOOLEAN, cert : BOOLEAN,
            timer : BOOLEAN]

ASSUME ReaderAssumption ==
    /\ NoCredential \notin Credentials
    /\ Registered \subseteq Credentials
    /\ Configurations \subseteq Options
    /\ CacheLimit \in Nat \ {0}
    /\ MaxEphemeral \in Nat /\ MaxCounter \in Nat \ {0}

VARIABLES
    options,     \* the constructor's arguments, attributes of the Reader
    call,        \* the method the application is in
    awaited,     \* the command whose response is awaited
    reporting,   \* inside failure_process: its message awaits the answer
    raised,      \* the last call ended with an exception
    link,        \* whether the transport is connected
    alive,       \* session is not None
    eph,         \* session.reader_ephemeral, 0 when None
    expedited,   \* session.encryption_expedited
    stepup,      \* session.encryption_stepup
    credential,  \* session.credential_pubk
    granted,     \* the application was told that the credential is authentic
    started,     \* failure_process_started
    used,        \* ephemeral key pairs taken so far
    cache,       \* storage.fast_cache, a Kpersistent is named by its handshake
    sent,        \* the command or event the last step sent
    last,        \* history: the last handshake a credential signed
    proof,       \* history: the last handshake and who proved itself in it
    nonces,      \* history: the nonces the transaction's commands were encrypted with
    told         \* history: failure messages and error events of this transaction

control == <<call, awaited, reporting, raised>>
session == <<alive, eph, expedited, stepup, credential, granted>>
history == <<last, proof, nonces, told>>
vars    == <<options, control, link, session, started, used, cache, sent, history>>

-----------------------------------------------------------------------------
Commands == {"SELECT", "AUTH0", "LOAD_CERT", "AUTH1", "EXCHANGE", "ENVELOPE",
             "CONTROL_FLOW"}

Calls == [name : {"none", "initiation", "select", "fast", "standard", "exchange",
                  "envelope", "control_flow"},
          loadCert : BOOLEAN, keySlot : BOOLEAN, engine : {"expedited", "stepup"}]
Call(name) == [name |-> name, loadCert |-> FALSE, keySlot |-> FALSE,
               engine |-> "expedited"]
NoCall == Call("none")

Handshakes == 1 .. MaxEphemeral
Counters   == 1 .. MaxCounter + 2
Engines == [eph : 0 .. MaxEphemeral, kind : {"none", "fast", "standard", "stepup"},
            enc : Counters, dec : Counters]
NoEngine == [eph |-> 0, kind |-> "none", enc |-> 1, dec |-> 1]
Nonces   == (0 .. MaxEphemeral) \X {"none", "fast", "standard", "stepup"} \X Counters
NoNonce  == <<0, "none", 1>>

\* Mutant of NewEngine: the counters start at 0.
NewEngineAtZero(e, kind) == [eph |-> e, kind |-> kind, enc |-> 0, dec |-> 0]

\* EncryptionEngine.__init__: both counters start at 1.
NewEngine(e, kind) == [eph |-> e, kind |-> kind, enc |-> 1, dec |-> 1]
\* Mutant of Encrypted: only decrypt moves a counter.
EncryptedInPlace(engine) == engine

Encrypted(engine)  == [engine EXCEPT !.enc = @ + 1]
\* decrypt moves its counter also when the tag does not verify.
Decrypted(engine)  == [engine EXCEPT !.dec = @ + 1]
Nonce(engine)      == <<engine.eph, engine.kind, engine.enc>>

Plain(type)         == [type |-> type, nonce |-> NoNonce]
Secure(type, engine) == [type |-> type, nonce |-> Nonce(engine)]
Silent == Plain("none")
Messages == [type : Commands \cup {"none", "error_event"}, nonce : Nonces]

-----------------------------------------------------------------------------
(* ReaderStorage                                                            *)

Positions(c) == {i \in 1 .. Len(cache) : cache[i].credential = c}

\* remove_kpersistent: the first entry of the credential, if there is one.
Forget(c) ==
    IF Positions(c) = {} THEN cache
    ELSE LET i == CHOOSE i \in Positions(c) : \A j \in Positions(c) : i <= j
         IN  SubSeq(cache, 1, i - 1) \o SubSeq(cache, i + 1, Len(cache))

Entry(c, e) == [credential |-> c, key |-> e]

\* Mutant of Remembering: the old entry of the credential is not removed.
RememberingTwice(c, e) ==
    LET longer == Append(cache, Entry(c, e))
    IN  IF Len(longer) > CacheLimit THEN Tail(longer) ELSE longer

\* add_kpersistent: the newest entry is last, the oldest one makes room.
Remembering(c, e) ==
    LET longer == Append(Forget(c), Entry(c, e))
    IN  IF Len(longer) > CacheLimit THEN Tail(longer) ELSE longer

-----------------------------------------------------------------------------
(* Sessions and the ways in which a call goes on or ends.                   *)

\* ReaderSession.__init__
NewSession(isAlive) ==
    /\ alive' = isAlive /\ eph' = 0 /\ expedited' = NoEngine /\ stepup' = NoEngine
    /\ credential' = NoCredential /\ granted' = FALSE
EndSession == NewSession(FALSE)

\* The session with these engines and this credential.
Session(x, s, c) ==
    /\ expedited' = x /\ stepup' = s /\ credential' = c
    /\ UNCHANGED <<alive, eph, granted>>

\* The call returns or raises an exception.
Ends(exception) ==
    /\ call' = NoCall /\ awaited' = "none" /\ reporting' = FALSE /\ raised' = exception
Returns == Ends(FALSE)
Raises  == Ends(TRUE)

Awaits(command) == awaited' = command /\ UNCHANGED <<call, reporting, raised>>

\* transaction_termination, then the call ends.
Terminated(exception) == EndSession /\ link' = "down" /\ Ends(exception)

TellCommand == told' = [told EXCEPT !.commands = @ + 1]
TellEvent   == told' = [told EXCEPT !.events = @ + 1]

\* A general error event, then transaction_termination and the exception; if the
\* event cannot be sent the termination is skipped.
ErrorEvent(x, s, c) ==
    \/ /\ sent' = Plain("error_event") /\ TellEvent
       /\ Terminated(TRUE)
    \/ /\ sent' = Silent /\ UNCHANGED told
       /\ link' = "down" /\ Session(x, s, c) /\ Raises

\* The secure channel exists and the failure is one it can report.
SecureReport(failureState, x) == x # NoEngine /\ failureState = "READER_STATUS"

\* Mutant of FailureProcess: failure_process_started is not looked at.
FailureProcessAgain(failureState, x, s, c) ==
    /\ started' = TRUE
    /\ \/ /\ options.mode = "TEST"
          /\ sent' = Silent /\ UNCHANGED <<nonces, told>>
          /\ Terminated(TRUE)
       \/ /\ options.mode = "READER" /\ SecureReport(failureState, x)
          /\ sent' = Secure("EXCHANGE", x) /\ nonces' = nonces \cup {Nonce(x)}
          /\ TellCommand
          /\ awaited' = "EXCHANGE" /\ reporting' = TRUE /\ UNCHANGED <<call, raised, link>>
          /\ Session(Encrypted(x), s, c)
       \/ /\ options.mode = "READER" /\ ~ SecureReport(failureState, x)
          /\ options.transport = "NFC"
          /\ sent' = Plain("CONTROL_FLOW") /\ TellCommand /\ UNCHANGED nonces
          /\ awaited' = "CONTROL_FLOW" /\ reporting' = TRUE /\ UNCHANGED <<call, raised, link>>
          /\ Session(x, s, c)
       \/ /\ options.mode = "READER" /\ ~ SecureReport(failureState, x)
          /\ options.transport = "BLE"
          /\ UNCHANGED nonces
          /\ ErrorEvent(x, s, c)

\* failure_process, then raise.  The session's engines and credential are x, s
\* and c when it begins.
FailureProcess(failureState, x, s, c) ==
    \/ \* a failure is being handled already: return, then raise
       /\ started /\ UNCHANGED <<started, link, nonces, told>>
       /\ sent' = Silent /\ Session(x, s, c) /\ Raises
    \/ /\ ~ started /\ started' = TRUE
       /\ \/ \* ReaderMode.TEST sends no failure messages
             /\ options.mode = "TEST"
             /\ sent' = Silent /\ UNCHANGED <<nonces, told>>
             /\ Terminated(TRUE)
          \/ \* handle_exchange with the reader status, always expedited
             /\ options.mode = "READER" /\ SecureReport(failureState, x)
             /\ sent' = Secure("EXCHANGE", x) /\ nonces' = nonces \cup {Nonce(x)}
             /\ TellCommand
             /\ awaited' = "EXCHANGE" /\ reporting' = TRUE /\ UNCHANGED <<call, raised, link>>
             /\ Session(Encrypted(x), s, c)
          \/ \* handle_control_flow
             /\ options.mode = "READER" /\ ~ SecureReport(failureState, x)
             /\ options.transport = "NFC"
             /\ sent' = Plain("CONTROL_FLOW") /\ TellCommand /\ UNCHANGED nonces
             /\ awaited' = "CONTROL_FLOW" /\ reporting' = TRUE /\ UNCHANGED <<call, raised, link>>
             /\ Session(x, s, c)
          \/ \* BLE without a secure channel: the event is all
             /\ options.mode = "READER" /\ ~ SecureReport(failureState, x)
             /\ options.transport = "BLE"
             /\ UNCHANGED nonces
             /\ ErrorEvent(x, s, c)

-----------------------------------------------------------------------------
(* The application's calls.                                                 *)

Init ==
    /\ options \in Configurations
    /\ call = NoCall /\ awaited = "none" /\ reporting = FALSE /\ raised = FALSE
    /\ link = "down" /\ alive = FALSE /\ eph = 0 /\ expedited = NoEngine
    /\ stepup = NoEngine /\ credential = NoCredential /\ granted = FALSE
    /\ started = FALSE /\ used = 0 /\ cache = <<>> /\ sent = Silent
    /\ last = [c \in Credentials |-> 0]
    /\ proof = <<0, NoCredential>>
    /\ nonces = {} /\ told = [commands |-> 0, events |-> 0]

Idle == call.name = "none"

\* Begins call and awaits the response to its first command.
Begins(c, command) ==
    /\ call' = c /\ awaited' = command /\ UNCHANGED reporting /\ raised' = FALSE

\* transaction_initiation: a User Device is connected, the session is new.
TransactionInitiation ==
    /\ Idle /\ used < MaxEphemeral
    /\ \/ /\ link' = "up"
          /\ NewSession(TRUE) /\ started' = FALSE
          /\ told' = [commands |-> 0, events |-> 0] /\ nonces' = {}
          /\ IF options.transport = "NFC"
             THEN Begins(Call("initiation"), "SELECT") /\ sent' = Plain("SELECT")
             ELSE Begins(Call("initiation"), "NOTIFICATION") /\ sent' = Silent
       \/ /\ link' = "down" /\ Raises /\ sent' = Silent
          /\ UNCHANGED <<session, started, told, nonces>>
    /\ UNCHANGED <<options, used, cache, last, proof>>

\* A call that needs a session while there is none, or an engine that was not
\* created (EXCHANGE: EncryptionMissingError, ENVELOPE: encrypt of None).
CallRefused ==
    /\ Idle
    /\ ~ alive \/ NoEngine \in {expedited, stepup}
    /\ Raises
    /\ sent' = Silent
    /\ UNCHANGED <<options, link, session, started, used, cache, history>>

\* handle_select by the application (step-up AID, or the expedited one again).
Select ==
    /\ Idle /\ alive
    /\ Begins(Call("select"), "SELECT") /\ sent' = Plain("SELECT")
    /\ UNCHANGED <<options, link, session, started, used, cache, history>>

\* expedited_transaction_fast and expedited_transaction_standard: handle_auth0
\* takes an ephemeral key of its own and leaves the engines as they are.  A
\* fast transaction that is not implemented fails behind that.  (With keySlot
\* the application makes the calls of a standard transaction itself.)
Expedited ==
    /\ Idle /\ alive /\ used < MaxEphemeral
    /\ used' = used + 1 /\ eph' = used + 1 /\ granted' = FALSE
    /\ \/ /\ \E loadCert, keySlot \in BOOLEAN :
                Begins([Call("standard") EXCEPT !.loadCert = loadCert, !.keySlot = keySlot],
                       "AUTH0")
          /\ sent' = Plain("AUTH0")
       \/ options.fast /\ Begins(Call("fast"), "AUTH0") /\ sent' = Plain("AUTH0")
       \/ ~ options.fast /\ Raises /\ sent' = Silent
    /\ UNCHANGED <<options, link, alive, expedited, stepup, credential, started,
                   cache, history>>

\* handle_exchange: encrypted with the engine of the phase the caller names.
Exchange ==
    /\ Idle /\ alive
    /\ \E engine \in {"expedited", "stepup"} :
          LET used_engine == IF engine = "expedited" THEN expedited ELSE stepup IN
          /\ used_engine # NoEngine /\ used_engine.enc < MaxCounter
          /\ used_engine.dec < MaxCounter
          /\ Begins([Call("exchange") EXCEPT !.engine = engine], "EXCHANGE")
          /\ sent' = Secure("EXCHANGE", used_engine)
          /\ nonces' = nonces \cup {Nonce(used_engine)}
          /\ IF engine = "expedited"
             THEN Session(Encrypted(expedited), stepup, credential)
             ELSE Session(expedited, Encrypted(stepup), credential)
    /\ UNCHANGED <<options, link, started, used, cache, last, proof, told>>

\* handle_envelope
Envelope ==
    /\ Idle /\ alive /\ stepup # NoEngine
    /\ stepup.enc < MaxCounter /\ stepup.dec < MaxCounter
    /\ Begins([Call("envelope") EXCEPT !.engine = "stepup"], "ENVELOPE")
    /\ sent' = Secure("ENVELOPE", stepup) /\ nonces' = nonces \cup {Nonce(stepup)}
    /\ Session(expedited, Encrypted(stepup), credential)
    /\ UNCHANGED <<options, link, started, used, cache, last, proof, told>>

\* handle_control_flow by the application.
ControlFlow ==
    /\ Idle /\ alive
    /\ Begins(Call("control_flow"), "CONTROL_FLOW") /\ sent' = Plain("CONTROL_FLOW")
    /\ UNCHANGED <<options, link, session, started, used, cache, history>>

\* transaction_termination by the application.
TransactionTermination ==
    /\ Idle /\ alive
    /\ Terminated(FALSE) /\ sent' = Silent
    /\ UNCHANGED <<options, started, used, cache, history>>

-----------------------------------------------------------------------------
(* Responses.                                                               *)

Answered(command) == awaited = command /\ link = "up"

\* The engine that decrypts the response awaited, and the session's engines once
\* it has; the failure process always speaks with the expedited engine.
Using == IF awaited = "AUTH1" \/ reporting THEN "expedited" ELSE call.engine
ExpeditedAfter == IF Using = "expedited" THEN Decrypted(expedited) ELSE expedited
StepupAfter    == IF Using = "stepup" THEN Decrypted(stepup) ELSE stepup

\* SELECT, a response the Reader accepts.
SelectAnswered ==
    /\ Answered("SELECT")
    /\ Returns /\ sent' = Silent
    /\ UNCHANGED <<options, link, session, started, used, cache, history>>

\* wait_for_initiate_access_protocol_notification: no failure process at all;
\* only for a protocol version it does not support the Reader disconnects.
NotificationReceived ==
    /\ Answered("NOTIFICATION")
    /\ \/ Returns /\ UNCHANGED link
       \/ Raises /\ link' \in {"up", "down"}
    /\ sent' = Silent
    /\ UNCHANGED <<options, session, started, used, cache, history>>

\* derive_key_volatile: both engines are new.
SharedKeys ==
    expedited' = NewEngine(eph, "standard") /\ stepup' = NewEngine(eph, "stepup")

\* handle_auth1 up to its command.
SendAuth1 ==
    /\ SharedKeys
    /\ Awaits("AUTH1") /\ sent' = Plain("AUTH1")

\* AUTH0 of a standard transaction.
Auth0Standard ==
    /\ Answered("AUTH0") /\ call.name = "standard"
    /\ \/ ~ call.loadCert /\ SendAuth1
       \/ /\ call.loadCert /\ options.cert
          /\ Awaits("LOAD_CERT") /\ sent' = Plain("LOAD_CERT")
          /\ UNCHANGED <<expedited, stepup>>
       \/ /\ call.loadCert /\ ~ options.cert
          /\ Raises /\ sent' = Silent
          /\ UNCHANGED <<expedited, stepup>>
    /\ UNCHANGED <<options, link, alive, eph, credential, granted, started, used,
                   cache, history>>

\* The cryptogram was made with the Kpersistent of handshake e.
Cryptogram(e) == {i \in 1 .. Len(cache) : cache[i].key = e}

\* Mutant of Auth0Fast: the loop over the entries does not stop at the one found.
Auth0FastLastEntry(e) ==
    /\ Answered("AUTH0") /\ call.name = "fast"
    /\ \E i \in Cryptogram(e) :
          /\ expedited' = NewEngine(eph, "fast")
          /\ credential' = cache[Len(cache)].credential
          /\ proof' = <<eph, cache[i].credential>>
    /\ granted' = TRUE
    /\ Returns /\ sent' = Silent
    /\ UNCHANGED <<options, link, alive, eph, stepup, started, used, cache, last,
                   nonces, told>>

\* AUTH0 of a fast transaction: the first entry whose key decrypts the
\* cryptogram names the credential.
Auth0Fast(e) ==
    /\ Answered("AUTH0") /\ call.name = "fast"
    /\ \E i \in Cryptogram(e) :
          /\ \A j \in Cryptogram(e) : i <= j
          /\ expedited' = NewEngine(eph, "fast")
          /\ credential' = cache[i].credential
          /\ proof' = <<eph, cache[i].credential>>
    /\ granted' = TRUE
    /\ Returns /\ sent' = Silent
    /\ UNCHANGED <<options, link, alive, eph, stepup, started, used, cache, last,
                   nonces, told>>

\* No entry decrypts it: AUTH1 follows, or the transaction is aborted.
CryptogramUnknown(e) ==
    /\ Answered("AUTH0") /\ call.name = "fast" /\ Cryptogram(e) = {}
    /\ \/ /\ options.handling = "CONTINUE"
          /\ SendAuth1
          /\ UNCHANGED <<link, alive, eph, credential, granted, started, nonces, told>>
       \/ /\ options.handling = "ABORT"
          /\ FailureProcess("READER_STATUS", expedited, stepup, credential)
    /\ UNCHANGED <<options, used, cache, last, proof>>

\* A cryptogram in a standard transaction, none in a fast one, or an ephemeral
\* key that is no point of the curve.
Auth0Refused ==
    /\ Answered("AUTH0")
    /\ FailureProcess("READER_STATUS", expedited, stepup, credential)
    /\ UNCHANGED <<options, used, cache, last, proof>>

LoadCertAnswered ==
    /\ Answered("LOAD_CERT")
    /\ SendAuth1
    /\ UNCHANGED <<options, link, alive, eph, credential, granted, started, used,
                   cache, history>>

\* Mutant of Auth1Accepted: Kpersistent is stored in standard transactions only,
\* not when a fast one goes on with AUTH1.
Auth1AcceptedInStandard(c) ==
    /\ Answered("AUTH1")
    /\ call.keySlot => c \in Registered
    /\ expedited' = ExpeditedAfter /\ credential' = c /\ granted' = TRUE
    /\ UNCHANGED <<alive, eph, stepup>>
    /\ cache' = IF options.fast /\ call.name = "standard" THEN Remembering(c, eph) ELSE cache
    /\ last' = [last EXCEPT ![c] = eph] /\ proof' = <<eph, c>>
    /\ Returns /\ sent' = Silent
    /\ UNCHANGED <<options, link, started, used, nonces, told>>

\* AUTH1 decrypts and credential c, named by its key or looked up by its slot,
\* signed this handshake.
Auth1Accepted(c) ==
    /\ Answered("AUTH1")
    /\ call.keySlot => c \in Registered
    /\ expedited' = ExpeditedAfter /\ credential' = c /\ granted' = TRUE
    /\ UNCHANGED <<alive, eph, stepup>>
    /\ cache' = IF options.fast THEN Remembering(c, eph) ELSE cache
    /\ last' = [last EXCEPT ![c] = eph] /\ proof' = <<eph, c>>
    /\ Returns /\ sent' = Silent
    /\ UNCHANGED <<options, link, started, used, nonces, told>>

\* Mutant of Auth1Rejected: the Kpersistent is stored before the signature is
\* verified.
Auth1RejectedLate ==
    /\ Answered("AUTH1")
    /\ \E c \in Credentials :
          /\ cache' = Remembering(c, eph)
          /\ FailureProcess("READER_STATUS", ExpeditedAfter, stepup, c)
    /\ UNCHANGED <<options, used, last, proof>>

\* AUTH1 decrypts but is not accepted.
Auth1Rejected ==
    /\ Answered("AUTH1")
    /\ \/ \* the other kind of key than the one asked for, or a bad TLV sequence
          FailureProcess("READER_STATUS", ExpeditedAfter, stepup, credential)
       \/ \* the signature is not that of the credential named
          \E c \in Credentials :
             /\ call.keySlot => c \in Registered
             /\ FailureProcess("READER_STATUS", ExpeditedAfter, stepup, c)
       \/ \* no or no unique key of that slot, or the key is no point of the
          \* curve: raised without a failure process
          /\ Raises /\ Session(ExpeditedAfter, stepup, credential)
          /\ sent' = Silent /\ UNCHANGED <<link, started, nonces, told>>
    /\ UNCHANGED <<options, used, cache, last, proof>>

\* The failure process goes on after its message was answered.
FailureReported(x) ==
    \/ /\ options.transport = "NFC"
       /\ Terminated(TRUE) /\ sent' = Silent /\ UNCHANGED told
    \/ /\ options.transport = "BLE"
       /\ ErrorEvent(x, stepup, credential)

\* EXCHANGE decrypts with a success status.
ExchangeAnswered ==
    /\ Answered("EXCHANGE")
    /\ \/ /\ ~ reporting
          /\ Returns /\ sent' = Silent
          /\ Session(ExpeditedAfter, StepupAfter, credential)
          /\ UNCHANGED <<link, told>>
       \/ /\ reporting
          /\ FailureReported(ExpeditedAfter)
    /\ UNCHANGED <<options, started, used, cache, last, proof, nonces>>

\* EXCHANGE decrypts with an error status, or with other data than was asked for.
ExchangeRejected ==
    /\ Answered("EXCHANGE")
    /\ \/ FailureProcess("B1_B2_ERROR", ExpeditedAfter, StepupAfter, credential)
       \/ /\ Raises /\ Session(ExpeditedAfter, StepupAfter, credential)
          /\ sent' = Silent /\ UNCHANGED <<link, started, nonces, told>>
    /\ UNCHANGED <<options, used, cache, last, proof>>

EnvelopeAnswered ==
    /\ Answered("ENVELOPE")
    /\ Returns /\ sent' = Silent
    /\ Session(expedited, StepupAfter, credential)
    /\ UNCHANGED <<options, link, started, used, cache, history>>

\* CONTROL FLOW: session = None; the failure process then terminates.
ControlFlowAnswered ==
    /\ Answered("CONTROL_FLOW")
    /\ sent' = Silent
    /\ IF ~ reporting THEN EndSession /\ Returns /\ UNCHANGED link
                         ELSE Terminated(TRUE)
    /\ UNCHANGED <<options, started, used, cache, history>>

-----------------------------------------------------------------------------
(* What may come instead of an acceptable response.                         *)

\* An error status.  handle_envelope does not tell it from a bad format.
ResponseStatus ==
    /\ awaited \in Commands /\ link = "up"
    /\ FailureProcess(IF awaited = "ENVELOPE" THEN "READER_STATUS" ELSE "STATUS_WORD",
                      expedited, stepup, credential)
    /\ UNCHANGED <<options, used, cache, last, proof>>

\* failure_process of a CONTROL FLOW whose response is malformed is given a
\* ReaderStatus.  Without a secure channel S2 of it is a ValueError: nothing is
\* sent and the transaction is not terminated.
StatusIsNoS2 ==
    /\ awaited = "CONTROL_FLOW" /\ ~ started
    /\ options.mode = "READER" /\ options.transport = "NFC" /\ expedited = NoEngine

\* A response that is not of the format; SELECT: also an unknown AID,
\* application type or protocol version.
ResponseMalformed ==
    /\ awaited \in Commands /\ link = "up"
    /\ \/ /\ ~ StatusIsNoS2
          /\ FailureProcess("READER_STATUS", expedited, stepup, credential)
       \/ /\ StatusIsNoS2 /\ started' = TRUE
          /\ Raises /\ sent' = Silent
          /\ Session(expedited, stepup, credential) /\ UNCHANGED <<link, nonces, told>>
    /\ UNCHANGED <<options, used, cache, last, proof>>

\* The authentication tag does not verify.
ResponseUnverifiable ==
    /\ awaited \in {"AUTH1", "EXCHANGE", "ENVELOPE"} /\ link = "up"
    /\ FailureProcess("READER_STATUS", ExpeditedAfter, StepupAfter, credential)
    /\ UNCHANGED <<options, used, cache, last, proof>>

\* No clause of the handler catches what the parser raises: TlvError of
\* verifySequence (SELECT, AUTH0), InvalidCommandDataError (ENVELOPE), or over
\* BLE a message that is no response.
ResponseUncaught ==
    /\ awaited \in Commands /\ link = "up"
    /\ awaited \in {"SELECT", "AUTH0", "ENVELOPE"} \/ options.transport = "BLE"
    /\ Raises
    /\ sent' = Silent
    /\ UNCHANGED <<options, link, session, started, used, cache, history>>

\* The User Device has gone, or over NFC sends nothing.
ResponseLost ==
    /\ awaited # "none"
    /\ Raises
    /\ \/ link' = "down"
       \/ options.transport = "NFC" /\ link = "up" /\ UNCHANGED link
    /\ sent' = Silent
    /\ UNCHANGED <<options, session, started, used, cache, history>>

\* handle_timeout: event, termination, TimeoutError.  SELECT and CONTROL FLOW
\* are sent without a timeout.
ResponseTimesOut ==
    /\ awaited \in Commands \ {"SELECT", "CONTROL_FLOW"}
    /\ options.transport = "BLE" /\ options.timer /\ link = "up"
    /\ ErrorEvent(expedited, stepup, credential)
    /\ UNCHANGED <<options, started, used, cache, last, proof, nonces>>

-----------------------------------------------------------------------------
ApplicationCalls ==
    \/ TransactionInitiation \/ CallRefused \/ Select \/ Expedited \/ Exchange
    \/ Envelope \/ ControlFlow \/ TransactionTermination

Responses ==
    \/ SelectAnswered \/ NotificationReceived \/ Auth0Standard
    \/ \E e \in 0 .. MaxEphemeral : Auth0Fast(e) \/ CryptogramUnknown(e)
    \/ Auth0Refused \/ LoadCertAnswered
    \/ \E c \in Credentials : Auth1Accepted(c)
    \/ Auth1Rejected \/ ExchangeAnswered \/ ExchangeRejected
    \/ EnvelopeAnswered \/ ControlFlowAnswered

Failures ==
    \/ ResponseStatus \/ ResponseMalformed \/ ResponseUnverifiable
    \/ ResponseUncaught \/ ResponseLost \/ ResponseTimesOut

Next == ApplicationCalls \/ Responses \/ Failures

Spec == Init /\ [][Next]_vars

-----------------------------------------------------------------------------
(* Properties.                                                              *)

Entries == [credential : Credentials, key : Handshakes]

\* Every variable has its type; counters stay within the model's bound.
TypeOK ==
    /\ options \in Options
    /\ call \in Calls /\ awaited \in Commands \cup {"none", "NOTIFICATION"}
    /\ reporting \in BOOLEAN /\ raised \in BOOLEAN
    /\ link \in {"up", "down"} /\ alive \in BOOLEAN /\ started \in BOOLEAN
    /\ eph \in 0 .. MaxEphemeral /\ used \in 0 .. MaxEphemeral
    /\ expedited \in Engines /\ stepup \in Engines
    /\ credential \in Credentials \cup {NoCredential} /\ granted \in BOOLEAN
    /\ cache \in Seq(Entries) /\ sent \in Messages
    /\ last \in [Credentials -> 0 .. MaxEphemeral]
    /\ proof \in (0 .. MaxEphemeral) \X (Credentials \cup {NoCredential})
    /\ nonces \in SUBSET Nonces /\ told \in [commands : Nat, events : Nat]

\* When an expedited transaction has returned to the application, which then
\* opens the door, the credential in the session is the one that proved itself
\* in the handshake of the present ephemeral key, and the engine is of that
\* handshake: not of an earlier one of the session, nor of a fast cache entry
\* tried before the one that fitted.
GrantedAuthentic ==
    granted => /\ alive /\ proof = <<eph, credential>>
               /\ expedited.eph = eph

\* A fast transaction grants only to a credential whose signature an earlier
\* handshake verified, however often the cache was refilled since.
FastGrantsKnown ==
    granted /\ expedited.kind = "fast" => last[credential] \in 1 .. eph - 1

\* The fast cache holds exactly the CacheLimit credentials that signed most
\* recently, in that order, each with the Kpersistent of its latest handshake
\* (ReaderStorage.add_kpersistent: one entry per credential, oldest evicted).
CacheHoldsMostRecent ==
    /\ Len(cache) <= CacheLimit
    /\ \A i \in 1 .. Len(cache) : cache[i].key = last[cache[i].credential]
    /\ \A i, j \in 1 .. Len(cache) : i < j => cache[i].key < cache[j].key
    /\ options.fast =>
          \A c \in Credentials :
             last[c] # 0 /\ Positions(c) = {}
                => Len(cache) = CacheLimit /\ last[c] < cache[1].key

\* The User Device is told of a failure once: within a transaction at most one
\* failure command and one error event go out, although handlers, the nested
\* failure process and handle_timeout may each want to send one.
ToldOnce == told.commands <= 1 /\ told.events <= 1

\* No two commands are ever encrypted with the same key and counter.
NonceNeverReused == [][sent'.nonce # NoNonce => sent'.nonce \notin nonces]_vars

-----------------------------------------------------------------------------
(* The inductive invariant behind them (ReaderProofs).                      *)

\* AUTH0 has been sent and the credential is not known yet.
Handshaking == awaited \in {"AUTH0", "LOAD_CERT", "AUTH1"}
Secured == awaited \in {"AUTH1", "EXCHANGE", "ENVELOPE"}

\* A call without a session, or a report outside of the failure process, does
\* not happen; what the User Device was told is told within a failure process
\* or ends the session.
ControlOK ==
    /\ awaited # "none" => alive
    /\ Idle => awaited = "none"
    /\ reporting => started /\ awaited \in {"EXCHANGE", "CONTROL_FLOW"}
    /\ told.commands # 0 => started
    /\ told.events # 0 => ~ alive
    /\ ToldOnce

\* Engines are of the kind their attribute holds, the one in use exists, and
\* from the command AUTH1 to its answer the expedited one is new.
EnginesOK ==
    /\ expedited.kind \in {"none", "fast", "standard"} /\ stepup.kind \in {"none", "stepup"}
    /\ expedited.kind = "none" => expedited = NoEngine
    /\ stepup.kind = "none" => stepup = NoEngine
    /\ expedited.eph <= used /\ stepup.eph <= used /\ eph <= used
    /\ Handshaking => eph # 0
    /\ awaited = "AUTH1" => expedited = NewEngine(eph, "standard")
    /\ Secured => (IF Using = "expedited" THEN expedited ELSE stepup) # NoEngine

\* The counters stay in the model's bound: the failure process adds one to each.
CountersOK ==
    /\ expedited.enc <= MaxCounter + 1 /\ stepup.enc <= MaxCounter
    /\ stepup.dec <= MaxCounter + 1
    /\ ~ started => expedited.enc <= MaxCounter /\ expedited.dec <= MaxCounter + 1
    /\ Secured /\ ~ reporting =>
          (IF Using = "expedited" THEN expedited ELSE stepup).dec <= MaxCounter
    /\ reporting => expedited.dec <= MaxCounter + 1

\* No nonce of an engine is ahead of its counter, and a handshake whose engines
\* do not exist yet has none.
NoncesOK ==
    \A n \in nonces :
        /\ n[1] <= used /\ n[2] # "none"
        /\ n[1] = expedited.eph /\ n[2] = expedited.kind => n[3] < expedited.enc
        /\ n[1] = stepup.eph /\ n[2] = stepup.kind => n[3] < stepup.enc
        /\ awaited \in {"AUTH0", "LOAD_CERT"} => n[1] # eph

\* Nobody has signed the handshake that is going on.
GrantsOK ==
    /\ \A c \in Credentials : last[c] <= used
    /\ Handshaking => ~ granted /\ \A c \in Credentials : last[c] < eph
    /\ GrantedAuthentic /\ FastGrantsKnown

CacheOK == CacheHoldsMostRecent /\ (~ options.fast => cache = <<>>)

ReaderInv ==
    /\ TypeOK /\ ControlOK /\ EnginesOK /\ CountersOK /\ NoncesOK /\ GrantsOK /\ CacheOK
=============================================================================
