------------------------------ MODULE UserDevice ------------------------------
(***************************************************************************)
(* The User Device of the access protocol (access_protocol/user_device.py): *)
(* the session it keeps with a reader, its command handlers, the failure    *)
(* process, and the loop around them (main_loop or single_transaction).     *)
(*                                                                          *)
(* One action is one received message together with everything its handler  *)
(* does until the next await that depends on the reader.  A Python          *)
(* exception is a value of exc; the except clauses of the loop are actions  *)
(* of their own (pc = "parseFailed": first try block; pc = "handleFailed":  *)
(* second try block), so a handler that runs failure_process before it      *)
(* raises and a loop that runs it again are two steps, as in the code.      *)
(*                                                                          *)
(* Cryptography is symbolic: an ephemeral key pair is a number, an          *)
(* encryption engine is the key pair it was derived from, the derivation    *)
(* ("fast", "standard", "stepup") and its two counters.                     *)
(***************************************************************************)
EXTENDS Naturals

CONSTANTS
    Readers,          \* reader_group_sub_identifiers that AUTH0 may name
    Known,            \* those an access credential of the device lists
    NoReader,         \* no reader named yet
    Transport,        \* "NFC" or "BLE"
    Loop,             \* "main" (main_loop) or "single" (single_transaction)
    TerminateAtEnd,   \* terminate_at_end of single_transaction
    TestMode,         \* mode = UserMode.TEST
    FastImplemented,  \* fast_transaction_implemented
    HasMailbox,       \* mailbox is not None
    CounterLimit,     \* the 0xFFFF of check_counters_valid
    MaxCounter,       \* bound of the model on an engine's counters
    MaxEphemeral      \* bound of the model on ephemeral keys ever used

ASSUME UserDeviceAssumption ==
    /\ Known \subseteq Readers
    /\ NoReader \notin Readers
    /\ Transport \in {"NFC", "BLE"}
    /\ Loop \in {"main", "single"}
    /\ {TerminateAtEnd, TestMode, FastImplemented, HasMailbox} \subseteq BOOLEAN
    /\ CounterLimit \in Nat /\ MaxCounter \in Nat \ {0} /\ MaxEphemeral \in Nat

VARIABLES
    pc,          \* where the loop is
    exc,         \* the exception in flight or the one that ended the loop
    link,        \* whether the transport can still reach the reader
    resume,      \* what follows once a chained response is fetched entirely
    state,       \* session.state, "NONE" when session is None
    eph,         \* session.credential_ephemeral, 0 when None
    reader,      \* session.reader_group_sub_identifier
    cert,        \* what set_cert_and_verify made of the last certificate
    expedited,   \* session.encryption_expedited
    stepup,      \* session.encryption_stepup
    ursk,        \* session.ursk_available
    used,        \* ephemeral key pairs taken so far by this device
    kpersistent, \* storage.kpersistent_map, a key is named by its handshake
    atomic,      \* mailbox_session.started
    out,         \* the message the last step sent
    verified,    \* history: the reader whose signature handshake e accepted
    nonces       \* history: every (key, counter) a response was encrypted with

session == <<state, eph, reader, cert, expedited, stepup, ursk>>
device  == <<used, kpersistent, atomic, verified, nonces>>
vars    == <<pc, exc, link, resume, session, device, out>>

-----------------------------------------------------------------------------
States == {"NONE", "SESSION_START", "SELECT_DONE", "AUTH0_STD_DONE",
           "AUTH0_FAST_DONE", "AUTH1_DONE", "EXCHANGE_DONE",
           "SELECT_STEP_UP_DONE", "ENVELOPE_DONE", "STEPUP_EXCHANGE_DONE",
           "TRANSACTION_COMPLETE", "BLE_READER_STATUS_AP_COMPLETED"}

\* Classes of exceptions, by the clause that would catch them.
Exceptions == {"none", "InvalidINSError", "InvalidCommandError", "TlvError",
               "AccessProtocolError", "SessionError", "NoDeviceConnectedError",
               "TimeoutError", "ValueError", "AttributeError", "IndexError",
               "NotImplementedError", "BLEMessageError"}

Locations == {"idle", "initiation", "serving", "chaining", "parseFailed",
              "handleFailed", "returned", "raised"}

\* What the handler does after its response: nothing; move to ENVELOPE_DONE;
\* raise; return to transaction_initiation.
Continuations == {"serve", "envelope", "refuse", "initiate"}

Certificates == {"none", "undecoded", "unverified", "verified"}

Handshakes == 1 .. MaxEphemeral
Counters   == 1 .. MaxCounter + 1
Engines    == [eph : 0 .. MaxEphemeral, kind : {"none", "fast", "standard", "stepup"},
               enc : Counters, dec : Counters]

\* None, the attribute before an engine is created.
NoEngine == [eph |-> 0, kind |-> "none", enc |-> 1, dec |-> 1]

\* Mutant of NewEngine: the counters start at 0.
CountersFromZero(e, kind) == [eph |-> e, kind |-> kind, enc |-> 0, dec |-> 0]

\* EncryptionEngine.__init__: both counters start at 1.
NewEngine(e, kind) == [eph |-> e, kind |-> kind, enc |-> 1, dec |-> 1]

\* The key and counter that make the next nonce of an engine.
Nonce(engine) == <<engine.eph, engine.kind, engine.enc>>
Nonces  == (0 .. MaxEphemeral) \X {"none", "fast", "standard", "stepup"}
              \X (0 .. MaxCounter + 1)
NoNonce == <<0, "none", 0>>

\* encrypt / decrypt: each use of the engine moves its counter, also when the
\* verification of a decryption fails.
Encrypted(engine) == [engine EXCEPT !.enc = @ + 1]
Decrypted(engine) == [engine EXCEPT !.dec = @ + 1]

\* check_counters_valid
CountersValid(engine) == engine.enc < CounterLimit /\ engine.dec < CounterLimit

Message(type)            == [type |-> type, nonce |-> NoNonce]
SecureMessage(type, eng) == [type |-> type, nonce |-> Nonce(eng)]
MessageTypes == {"none", "error", "event", "initiate", "select", "auth0",
                 "load_cert", "auth1", "exchange", "refusal", "document",
                 "control_flow"}
Silent == Message("none")

-----------------------------------------------------------------------------
(* The session object.                                                      *)

\* start_new_session: UserSession.__init__
StartNewSession ==
    /\ state' = "SESSION_START" /\ eph' = 0 /\ reader' = NoReader
    /\ cert' = "none" /\ expedited' = NoEngine /\ stepup' = NoEngine
    /\ ursk' = "unavailable"

\* end_session: session = None, everything bound to the session is dropped.
\* The mailbox session is an attribute of the device and is left alone.
EndSession ==
    /\ state' = "NONE" /\ eph' = 0 /\ reader' = NoReader
    /\ cert' = "none" /\ expedited' = NoEngine /\ stepup' = NoEngine
    /\ ursk' = "unavailable"

\* transport_protocol.disconnect: BLE drops the connection; NFC waits up to a
\* second for the reader to leave the field, which may still be there then.
Disconnect == IF Transport = "BLE" THEN link' = "down" ELSE link' \in {"up", "down"}

\* Mutant of TransactionTermination: end_session is forgotten.
OnlyDisconnect == UNCHANGED session /\ Disconnect

\* transaction_termination
TransactionTermination == EndSession /\ Disconnect

\* failure_process, then e at location at.
FailureReported(at, e) ==
    /\ link = "up"
    /\ TransactionTermination
    /\ pc' = at /\ exc' = e /\ resume' = "serve"
    /\ out' = Message("error")

\* The error response cannot be sent: NoDeviceConnectedError replaces e and the
\* termination is skipped.
FailureUnsent(at) ==
    /\ pc' = at /\ exc' = "NoDeviceConnectedError" /\ resume' = "serve"
    /\ link' = "down" /\ out' = Silent

\* Either of them; kept is what an unsent response leaves of the session.
FailureProcess(at, e, kept) == FailureReported(at, e) \/ (FailureUnsent(at) /\ kept)

\* An exception raised by a handler that sent nothing.
Throw(e) ==
    /\ pc' = "handleFailed" /\ exc' = e /\ resume' = "serve"
    /\ out' = Silent /\ UNCHANGED link

\* The exception e while the response of kind k is being sent: the first
\* SELECT is handled outside of both try blocks.
ThrowWhileSending(k, e) ==
    /\ exc' = e /\ resume' = "serve"
    /\ pc' = IF k = "initiate" THEN "raised" ELSE "handleFailed"

\* The rest of the handler once its response is sent.
Delivered(k) ==
    /\ resume' = "serve"
    /\ IF k = "refuse"
       THEN pc' = "handleFailed" /\ exc' = "AccessProtocolError"
       ELSE pc' = "serving" /\ exc' = "none"

\* handle_chaining_send_response with response data: it fits in one message,
\* or is fetched piecewise with GET RESPONSE, or the reader is gone, or the
\* command had no Le and create_response_chain fails on a step of 0.
Transmit(k) ==
    \/ Delivered(k) /\ link' = "up"
    \/ pc' = "chaining" /\ exc' = "none" /\ resume' = k /\ link' = "up"
    \/ ThrowWhileSending(k, "NoDeviceConnectedError") /\ link' = "down"
    \/ ThrowWhileSending(k, "ValueError") /\ link' = "up"

\* A response without data is a single message.
TransmitStatus(k) ==
    \/ Delivered(k) /\ link' = "up"
    \/ ThrowWhileSending(k, "NoDeviceConnectedError") /\ link' = "down"

-----------------------------------------------------------------------------
(* Initiation.                                                              *)

Init ==
    /\ pc = "idle" /\ exc = "none" /\ link = "down" /\ resume = "serve"
    /\ state = "NONE" /\ eph = 0 /\ reader = NoReader /\ cert = "none"
    /\ expedited = NoEngine /\ stepup = NoEngine /\ ursk = "unavailable"
    /\ used = 0 /\ kpersistent = [r \in Readers |-> 0] /\ atomic = "stopped"
    /\ out = Silent
    /\ verified = [e \in Handshakes |-> NoReader] /\ nonces = {}

\* transaction_initiation up to its first message: a reader is connected, the
\* session is new; BLE announces itself, NFC waits for SELECT.
Connect ==
    /\ pc = "idle"
    /\ StartNewSession
    /\ resume' = "serve"
    /\ \/ /\ Transport = "NFC"
          /\ pc' = "initiation" /\ exc' = "none" /\ link' = "up" /\ out' = Silent
       \/ /\ Transport = "BLE"
          /\ pc' = "serving" /\ exc' = "none" /\ link' = "up"
          /\ out' = Message("initiate")
       \/ /\ Transport = "BLE"
          /\ pc' = "raised" /\ exc' = "NoDeviceConnectedError" /\ link' = "down"
          /\ out' = Silent
    /\ UNCHANGED device

\* The first command is SELECT with the expedited AID.
InitiationSelect ==
    /\ pc = "initiation"
    /\ state' = "SELECT_DONE"
    /\ out' = Message("select")
    /\ Transmit("initiate")
    /\ UNCHANGED <<eph, reader, cert, expedited, stepup, ursk, device>>

\* A GET DATA or a SELECT with another AID is refused and waited for again.
InitiationRetry ==
    /\ pc = "initiation"
    /\ out' = Message("error") /\ link' = "up"
    /\ UNCHANGED <<pc, exc, resume, session, device>>

\* Any other first command, or none, leaves transaction_initiation with an
\* exception that neither loop catches.
InitiationFails ==
    /\ pc = "initiation"
    /\ pc' = "raised" /\ resume' = "serve"
    /\ \/ \* a command handle_select does not accept, one too short to be
          \* a command, or one verifySequence rejects: nothing is answered
          /\ exc' \in {"AccessProtocolError", "InvalidCommandError", "TlvError"}
          /\ out' = Silent
          /\ UNCHANGED <<session, link>>
       \/ \* a command that does not parse: failure_process, then raise; for
          \* an unknown INS the wait is retried without a session
          /\ TransactionTermination
          /\ exc' \in {"InvalidCommandError", "SessionError"} /\ out' = Message("error")
       \/ \* the reader leaves first
          /\ exc' = "NoDeviceConnectedError" /\ out' = Silent /\ link' = "down"
          /\ UNCHANGED session
    /\ UNCHANGED device

-----------------------------------------------------------------------------
(* The loop's first try block: wait_for_message.                            *)

Waiting == pc = "serving" /\ state # "NONE"
Receive == Waiting /\ link = "up"

\* if self.session is None: raise SessionError, which no clause catches.
SessionMissing ==
    /\ pc = "serving" /\ state = "NONE"
    /\ pc' = "raised" /\ exc' = "SessionError"
    /\ out' = Silent
    /\ UNCHANGED <<link, resume, session, device>>

\* get_message finds the reader gone.
ReaderLeaves ==
    /\ Waiting
    /\ pc' = "parseFailed" /\ exc' = "NoDeviceConnectedError"
    /\ link' = "down" /\ out' = Silent
    /\ UNCHANGED <<resume, session, device>>

\* handle_timeout, then raise TimeoutError.  The BLE timer runs unless the last
\* response was one of those sent without a timeout (SELECT).
HandleTimeout(at) ==
    /\ Transport = "BLE"
    /\ state \notin {"SELECT_DONE", "SELECT_STEP_UP_DONE"}
    /\ pc' = at /\ resume' = "serve"
    /\ \/ /\ link = "up"
          /\ TransactionTermination
          /\ exc' = "TimeoutError" /\ out' = Message("event")
       \/ /\ exc' = "NoDeviceConnectedError" /\ link' = "down" /\ out' = Silent
          /\ UNCHANGED session

ReceiveTimesOut == Waiting /\ HandleTimeout("parseFailed") /\ UNCHANGED device

\* GET DATA, SELECT with wrong parameters or an unknown AID: an error response
\* that leaves the transaction as it is, and the loop waits again.
ReceiveRetry ==
    /\ Receive
    /\ pc' = "parseFailed"
    /\ \/ exc' = "InvalidINSError" /\ link' = "up" /\ out' = Message("error")
       \/ exc' = "NoDeviceConnectedError" /\ link' = "down" /\ out' = Silent
    /\ UNCHANGED <<resume, session, device>>

\* A message shorter than a command header, or with a wrong Lc, is rejected by
\* create_from_bytestring before the clauses that run failure_process.
ReceiveTruncated ==
    /\ Receive
    /\ pc' = "parseFailed" /\ exc' = "InvalidCommandError"
    /\ out' = Silent
    /\ UNCHANGED <<link, resume, session, device>>

\* parse_command raises: wrong CLA, P1, P2, Le or data, or an unknown INS.
ReceiveInvalid ==
    /\ Receive
    /\ \E e \in {"InvalidCommandError", "InvalidINSError"} :
          FailureProcess("parseFailed", e, UNCHANGED session)
    /\ UNCHANGED device

\* verifySequence raises TlvError (AUTH1, CONTROL FLOW), or a BLE message that
\* is no command arrives in the middle of a chained command: neither is an
\* InvalidCommandError, so no clause of the first try block catches it.
ReceiveUncaught ==
    /\ Receive
    /\ pc' = "raised" /\ out' = Silent
    /\ \/ exc' = "TlvError"
       \/ exc' = "AccessProtocolError" /\ Transport = "BLE"
    /\ UNCHANGED <<link, resume, session, device>>

\* The engine wait_for_message decrypts a command with.
DecryptionEngine(ins) ==
    IF \/ state \in {"AUTH0_STD_DONE", "AUTH0_FAST_DONE"}
       \/ ins = "EXCHANGE" /\ state \in {"AUTH1_DONE", "EXCHANGE_DONE"}
    THEN "expedited"
    ELSE IF state \in {"AUTH1_DONE", "EXCHANGE_DONE", "SELECT_STEP_UP_DONE",
                       "ENVELOPE_DONE", "STEPUP_EXCHANGE_DONE"}
         THEN "stepup" ELSE "none"

\* The two engines after that decryption; an engine that is None decrypts
\* nothing and the payload stays opaque.
Deciphers(ins) == \/ DecryptionEngine(ins) = "expedited" /\ expedited # NoEngine
                  \/ DecryptionEngine(ins) = "stepup" /\ stepup # NoEngine
ExpeditedAfter(ins) == IF DecryptionEngine(ins) = "expedited" /\ Deciphers(ins)
                       THEN Decrypted(expedited) ELSE expedited
StepupAfter(ins) == IF DecryptionEngine(ins) = "stepup" /\ Deciphers(ins)
                    THEN Decrypted(stepup) ELSE stepup
WithinBound == /\ expedited.enc < MaxCounter /\ expedited.dec < MaxCounter
               /\ stepup.enc < MaxCounter /\ stepup.dec < MaxCounter

\* The session of a command of that kind once it is decrypted, when its
\* handler changes nothing else.
OnlyDecrypted(ins) ==
    /\ expedited' = ExpeditedAfter(ins) /\ stepup' = StepupAfter(ins)
    /\ UNCHANGED <<state, eph, reader, cert, ursk>>

\* The authentication tag of an EXCHANGE or ENVELOPE does not verify, or the
\* plaintext is not a valid command: VerificationError, InvalidCommandError.
ReceiveUnverifiable ==
    /\ Receive /\ WithinBound
    /\ \E ins \in {"EXCHANGE", "ENVELOPE"} :
          /\ Deciphers(ins)
          /\ FailureProcess("parseFailed", "InvalidCommandError", OnlyDecrypted(ins))
    /\ UNCHANGED device

\* The decrypted EXCHANGE payload violates the TLV sequence.
ReceiveBadExchange ==
    /\ Receive /\ WithinBound
    /\ Deciphers("EXCHANGE")
    /\ OnlyDecrypted("EXCHANGE")
    /\ pc' = "raised" /\ exc' = "TlvError" /\ out' = Silent
    /\ UNCHANGED <<link, resume, device>>

\* The except clauses of the first try block.
CatchParseFailure ==
    /\ pc = "parseFailed"
    /\ resume' = "serve"
    /\ \/ /\ exc = "InvalidINSError"
          /\ pc' = "serving" /\ exc' = "none" /\ out' = Silent
          /\ UNCHANGED <<link, session>>
       \/ /\ exc = "InvalidCommandError" /\ link = "up"
          /\ TransactionTermination
          /\ pc' = (IF Loop = "main" THEN "idle" ELSE "returned")
          /\ exc' = "none" /\ out' = Message("error")
       \/ /\ exc = "InvalidCommandError"
          /\ pc' = "raised" /\ exc' = "NoDeviceConnectedError"
          /\ link' = "down" /\ out' = Silent
          /\ UNCHANGED session
       \/ /\ exc = "NoDeviceConnectedError"
          /\ pc' = (IF Loop = "main" THEN "idle" ELSE "raised")
          /\ exc' = (IF Loop = "main" THEN "none" ELSE exc)
          /\ out' = Silent
          /\ UNCHANGED <<link, session>>
       \/ /\ exc = "TimeoutError"
          /\ pc' = "raised" /\ out' = Silent
          /\ UNCHANGED <<exc, link, session>>
    /\ UNCHANGED device

-----------------------------------------------------------------------------
(* The second try block: the command handlers.                              *)

\* single_transaction accepts only EXCHANGE while an atomic session is open.
AtomicSessionOpen == Loop = "single" /\ atomic = "started"
ReceiveCommand == Receive /\ ~ AtomicSessionOpen

RejectWhileAtomic ==
    /\ Receive /\ AtomicSessionOpen
    /\ \/ FailureProcess("handleFailed", "AccessProtocolError", UNCHANGED session)
       \/ /\ Deciphers("ENVELOPE") /\ WithinBound
          /\ FailureUnsent("handleFailed") /\ OnlyDecrypted("ENVELOPE")
    /\ UNCHANGED device

\* The common first check of the handlers: a command in a state that does not
\* allow it is answered with INVALID_INSTRUCTION, then SessionError is raised.
UnexpectedState(valid) ==
    /\ state \notin valid
    /\ FailureProcess("handleFailed", "AccessProtocolError", UNCHANGED session)

\* GET RESPONSE outside of a chain parses, but no handler exists.
ReceiveGetResponse ==
    /\ ReceiveCommand
    /\ Throw("NotImplementedError")
    /\ UNCHANGED <<session, device>>

\* handle_select
SelectExpedited ==
    /\ ReceiveCommand
    /\ state' = "SELECT_DONE"
    /\ out' = Message("select")
    /\ Transmit("serve")
    /\ UNCHANGED <<eph, reader, cert, expedited, stepup, ursk, device>>

SelectStepUp ==
    /\ ReceiveCommand
    /\ \/ /\ state \in {"AUTH1_DONE", "EXCHANGE_DONE"}
          /\ state' = "SELECT_STEP_UP_DONE"
          /\ out' = Message("select")
          /\ Transmit("serve")
       \/ /\ state \notin {"AUTH1_DONE", "EXCHANGE_DONE"}
          /\ Throw("AccessProtocolError")
          /\ UNCHANGED state
    /\ UNCHANGED <<eph, reader, cert, expedited, stepup, ursk, device>>

\* handle_auth0.  BLE has no SELECT before it, and accepts it in any state.
Auth0States == IF Transport = "NFC" THEN {"SELECT_DONE"} ELSE States

Auth0Unexpected ==
    /\ ReceiveCommand
    /\ UnexpectedState(Auth0States)
    /\ UNCHANGED device

\* Every AUTH0 that is handled takes an ephemeral key pair of its own.
TakeEphemeralKey ==
    /\ ReceiveCommand /\ state \in Auth0States
    /\ used < MaxEphemeral
    /\ used' = used + 1

Auth0Rejected ==
    /\ TakeEphemeralKey
    /\ \/ \* the protocol version is not supported
          FailureProcess("handleFailed", "AccessProtocolError",
                         /\ eph' = used + 1
                         /\ UNCHANGED <<state, reader, cert, expedited, stepup, ursk>>)
       \/ \* the reader ephemeral key is not a point of the curve
          /\ Throw("AccessProtocolError")
          /\ eph' = used + 1
          /\ UNCHANGED <<state, reader, cert, expedited, stepup, ursk>>
       \/ \* no access credential lists the reader's group, or the transaction
          \* type is neither standard nor fast
          \E r \in Readers :
             /\ IF r \in Known THEN Throw("IndexError") ELSE Throw("AccessProtocolError")
             /\ eph' = used + 1 /\ reader' = r
             /\ UNCHANGED <<state, cert, expedited, stepup, ursk>>
    /\ UNCHANGED <<kpersistent, atomic, verified, nonces>>

\* Mutant of Cached: find_kpersistent's None is not looked at.
AlwaysCached(r) == FastImplemented

Cached(r) == FastImplemented /\ kpersistent[r] # 0

\* A standard transaction, or a fast one without a cached Kpersistent, which is
\* answered with a random cryptogram.
Auth0Standard(r) ==
    /\ TakeEphemeralKey
    /\ eph' = used + 1 /\ reader' = r
    /\ state' = "AUTH0_STD_DONE"
    /\ out' = Message("auth0")
    /\ Transmit("serve")
    /\ UNCHANGED <<cert, expedited, stepup, ursk, kpersistent, atomic, verified, nonces>>

\* Mutant of Auth0Fast: create_encryption_engine_expedited is forgotten.
Auth0FastWithoutEngine(r) ==
    /\ TakeEphemeralKey
    /\ Cached(r)
    /\ eph' = used + 1 /\ reader' = r
    /\ state' = "AUTH0_FAST_DONE"
    /\ out' = Message("auth0")
    /\ Transmit("serve")
    /\ UNCHANGED <<cert, expedited, stepup, ursk, kpersistent, atomic, verified, nonces>>

\* Mutant of Auth0Fast: the step-up engine is created with the expedited one.
Auth0FastWithStepUp(r) ==
    /\ TakeEphemeralKey
    /\ Cached(r)
    /\ eph' = used + 1 /\ reader' = r
    /\ expedited' = NewEngine(used + 1, "fast") /\ stepup' = NewEngine(used + 1, "stepup")
    /\ state' = "AUTH0_FAST_DONE"
    /\ out' = Message("auth0")
    /\ Transmit("serve")
    /\ UNCHANGED <<cert, ursk, kpersistent, atomic, verified, nonces>>

Auth0Fast(r) ==
    /\ TakeEphemeralKey
    /\ Cached(r)
    /\ eph' = used + 1 /\ reader' = r
    /\ expedited' = NewEngine(used + 1, "fast")
    /\ state' = "AUTH0_FAST_DONE"
    /\ out' = Message("auth0")
    /\ Transmit("serve")
    /\ UNCHANGED <<cert, stepup, ursk, kpersistent, atomic, verified, nonces>>

\* Mutant of AfterAuth0: AUTH1 is accepted again after AUTH1.
AfterAuth0OrAuth1 == {"AUTH0_STD_DONE", "AUTH0_FAST_DONE", "AUTH1_DONE"}

AfterAuth0 == {"AUTH0_STD_DONE", "AUTH0_FAST_DONE"}

\* handle_load_cert: answered with success whatever the certificate; UserMode
\* TEST raises afterwards when it is not valid.
LoadCert ==
    /\ ReceiveCommand
    /\ \/ UnexpectedState(AfterAuth0)
       \/ /\ state \in AfterAuth0
          /\ cert' \in {"undecoded", "unverified", "verified"}
          /\ out' = Message("load_cert")
          /\ TransmitStatus(IF TestMode /\ cert' # "verified" THEN "refuse" ELSE "serve")
          /\ UNCHANGED <<state, eph, reader, expedited, stepup, ursk>>
    /\ UNCHANGED device

\* handle_auth1 up to the check of the reader's signature.
Auth1Rejected ==
    /\ ReceiveCommand
    /\ \/ UnexpectedState(AfterAuth0)
       \/ \* the certificate is not valid, or the signature does not verify
          /\ state \in AfterAuth0
          /\ \E c \in {cert, "undecoded", "unverified", "verified"} :
                FailureProcess("handleFailed", "AccessProtocolError",
                               /\ cert' = c
                               /\ UNCHANGED <<state, eph, reader, expedited, stepup, ursk>>)
    /\ UNCHANGED device

\* The signature verifies: new engines for both phases, Kpersistent is stored
\* before the response is sent, and the response is encrypted.
Auth1 ==
    /\ ReceiveCommand
    /\ state \in AfterAuth0
    /\ \/ cert \in {"none", "verified"} /\ UNCHANGED cert
       \/ cert' = "verified"
    /\ LET engine == NewEngine(eph, "standard") IN
          /\ expedited' = Encrypted(engine)
          /\ out' = SecureMessage("auth1", engine)
          /\ nonces' = nonces \cup {Nonce(engine)}
    /\ stepup' = NewEngine(eph, "stepup")
    /\ kpersistent' = [kpersistent EXCEPT ![reader] = eph]
    /\ verified' = [verified EXCEPT ![eph] = reader]
    /\ state' = "AUTH1_DONE"
    /\ Transmit("serve")
    /\ UNCHANGED <<eph, reader, ursk, used, atomic>>

-----------------------------------------------------------------------------
(* EXCHANGE and ENVELOPE.                                                   *)

\* handle_exchange.  EXCHANGE is the command an open atomic session allows.
ReceiveExchange == Receive /\ WithinBound

ExchangeStates == {"AUTH0_FAST_DONE", "AUTH1_DONE", "EXCHANGE_DONE",
                   "ENVELOPE_DONE", "STEPUP_EXCHANGE_DONE", "SELECT_STEP_UP_DONE"}

ExchangeUnexpected ==
    /\ ReceiveExchange
    /\ state \notin ExchangeStates
    /\ FailureProcess("handleFailed", "AccessProtocolError", OnlyDecrypted("EXCHANGE"))
    /\ UNCHANGED device

\* The engine of the response, as the decryption of the command left it.  It is
\* chosen by other states than the one of the decryption: after SELECT of the
\* step-up AID the command is decrypted with stepup and answered with expedited.
InStepUpPhase == state \in {"ENVELOPE_DONE", "STEPUP_EXCHANGE_DONE"}
ResponseEngine == IF InStepUpPhase THEN StepupAfter("EXCHANGE")
                                   ELSE ExpeditedAfter("EXCHANGE")

\* A counter has reached its limit: failure_process and a plain return, so the
\* loop goes on without a session.
ExchangeExhausted ==
    /\ ReceiveExchange
    /\ state \in ExchangeStates
    /\ ~ CountersValid(ResponseEngine)
    /\ \/ FailureReported("serving", "none")
       \/ FailureUnsent("handleFailed") /\ OnlyDecrypted("EXCHANGE")
    /\ UNCHANGED device

\* An EXCHANGE that is handled: the phase is recorded first, a reader status
\* completes the transaction, and the URSK is made available at most once.
ExchangeHandled ==
    /\ ReceiveExchange
    /\ state \in ExchangeStates
    /\ CountersValid(ResponseEngine)
    /\ Deciphers("EXCHANGE")
    /\ state' \in {IF InStepUpPhase THEN "STEPUP_EXCHANGE_DONE" ELSE "EXCHANGE_DONE",
                   "TRANSACTION_COMPLETE"}
    /\ ursk' \in {ursk, "available"}
    /\ UNCHANGED <<eph, reader, cert, used, kpersistent, verified>>

\* create_exchange_response and response_exchange
ExchangeResponse(type, k) ==
    /\ IF InStepUpPhase
       THEN stepup' = Encrypted(ResponseEngine) /\ expedited' = ExpeditedAfter("EXCHANGE")
       ELSE expedited' = Encrypted(ResponseEngine) /\ stepup' = StepupAfter("EXCHANGE")
    /\ out' = SecureMessage(type, ResponseEngine)
    /\ nonces' = nonces \cup {Nonce(ResponseEngine)}
    /\ Transmit(k)

\* Every request is allowed: the mailbox commands are carried out and the
\* atomic session follows the flag they come with, if they come with one.
Exchange ==
    /\ ExchangeHandled
    /\ atomic' \in (IF HasMailbox THEN {"stopped", "started"} ELSE {atomic})
    /\ ExchangeResponse("exchange", "serve")

\* A request without a mailbox or out of its boundaries is answered with an
\* encrypted error, then AccessProtocolError is raised.
ExchangeRefused ==
    /\ ExchangeHandled
    /\ ExchangeResponse("refusal", "refuse")
    /\ UNCHANGED atomic

\* A second URSK request, a missing mailbox permission, a notification that is
\* not understood, a reader status not meant for BLE: nothing is answered.
ExchangeRejected ==
    /\ ExchangeHandled
    /\ expedited' = ExpeditedAfter("EXCHANGE") /\ stepup' = StepupAfter("EXCHANGE")
    /\ Throw("AccessProtocolError")
    /\ UNCHANGED <<atomic, nonces>>

\* Without an engine to decrypt it with, the command has no reader_status.
ExchangeOpaque ==
    /\ ReceiveExchange
    /\ state \in ExchangeStates
    /\ ~ Deciphers("EXCHANGE")
    /\ CountersValid(ResponseEngine)
    /\ state' = "EXCHANGE_DONE"
    /\ Throw("AttributeError")
    /\ UNCHANGED <<eph, reader, cert, expedited, stepup, ursk, device>>

\* handle_envelope
EnvelopeStates == {"AUTH1_DONE", "EXCHANGE_DONE", "ENVELOPE_DONE", "SELECT_STEP_UP_DONE"}

EnvelopeRejected ==
    /\ ReceiveCommand /\ WithinBound
    /\ \/ /\ state \notin EnvelopeStates
          /\ FailureProcess("handleFailed", "AccessProtocolError", OnlyDecrypted("ENVELOPE"))
       \/ /\ state \in EnvelopeStates /\ stepup = NoEngine
          /\ Throw("AccessProtocolError")
          /\ UNCHANGED session
    /\ UNCHANGED device

\* The documents are sent; only then the state moves on.
Envelope ==
    /\ ReceiveCommand /\ WithinBound
    /\ state \in EnvelopeStates /\ stepup # NoEngine
    /\ LET engine == StepupAfter("ENVELOPE") IN
          /\ stepup' = Encrypted(engine)
          /\ out' = SecureMessage("document", engine)
          /\ nonces' = nonces \cup {Nonce(engine)}
    /\ Transmit("envelope")
    /\ state' = IF pc' = "serving" THEN "ENVELOPE_DONE" ELSE state
    /\ UNCHANGED <<eph, reader, cert, expedited, ursk, used, kpersistent, atomic, verified>>

-----------------------------------------------------------------------------
(* The end of a transaction.                                                *)

\* What the loop does once the transaction is completed, the session's state
\* being s: main_loop reconnects, single_transaction returns and terminates
\* only if it was asked to.
Complete(s) ==
    /\ exc' = "none" /\ resume' = "serve"
    /\ \/ Loop = "main" /\ TransactionTermination /\ pc' = "idle"
       \/ Loop = "single" /\ TerminateAtEnd /\ TransactionTermination /\ pc' = "returned"
       \/ /\ Loop = "single" /\ ~ TerminateAtEnd
          /\ pc' = "returned" /\ state' = s /\ link' = "up"
          /\ UNCHANGED <<eph, reader, cert, expedited, stepup, ursk>>

\* handle_control_flow, in any state
ControlFlow ==
    /\ ReceiveCommand
    /\ out' = Message("control_flow")
    /\ \/ Complete("SELECT_DONE")
       \/ /\ ThrowWhileSending("serve", "NoDeviceConnectedError")
          /\ link' = "down" /\ state' = "SELECT_DONE"
          /\ UNCHANGED <<eph, reader, cert, expedited, stepup, ursk>>
    /\ UNCHANGED device

\* handle_ble_messages: Access Protocol Completed moves the state before it is
\* parsed; Reader Status Changed and Ranging leave it.  They complete a single
\* transaction, main_loop goes on.  An open atomic session is not looked at.
AfterBleMessage == {state, "BLE_READER_STATUS_AP_COMPLETED"}

BleCompletes ==
    /\ Receive /\ Transport = "BLE"
    /\ out' \in {Silent, Message("event")}
    /\ \E s \in AfterBleMessage :
          \/ Loop = "single" /\ Complete(s)
          \/ /\ Loop = "main" /\ state' = s
             /\ UNCHANGED <<pc, exc, link, resume, eph, reader, cert, expedited, stepup, ursk>>
    /\ UNCHANGED device

\* Events and the messages of the ranging service leave the session as it is,
\* some of them are answered.
BleMessageHandled ==
    /\ Receive /\ Transport = "BLE"
    /\ out' \in {Silent, Message("event")}
    /\ UNCHANGED <<pc, exc, link, resume, session, device>>

\* The message cannot be verified or is not expected, is malformed or carries an
\* invalid UWB parameter, or has no handler; or the answer finds no reader.
BleMessageFails ==
    /\ Receive /\ Transport = "BLE"
    /\ state' \in AfterBleMessage
    /\ \/ \E e \in {"AccessProtocolError", "BLEMessageError", "NotImplementedError"} : Throw(e)
       \/ /\ ThrowWhileSending("serve", "NoDeviceConnectedError")
          /\ link' = "down" /\ out' = Silent
    /\ UNCHANGED <<eph, reader, cert, expedited, stepup, ursk, device>>

-----------------------------------------------------------------------------
(* A response fetched piecewise: handle_chaining_send_response.             *)

\* GET RESPONSE until the last piece is sent; handle_envelope then moves on.
ChainDone ==
    /\ pc = "chaining" /\ link = "up"
    /\ Delivered(resume)
    /\ state' = IF resume = "envelope" THEN "ENVELOPE_DONE" ELSE state
    /\ out' = Silent
    /\ UNCHANGED <<link, eph, reader, cert, expedited, stepup, ursk, device>>

\* Any other command (TlvError is an AccessProtocolError too), or no reader.
ChainBroken ==
    /\ pc = "chaining"
    /\ out' = Silent
    /\ \/ ThrowWhileSending(resume, "AccessProtocolError") /\ UNCHANGED link
       \/ ThrowWhileSending(resume, "NoDeviceConnectedError") /\ link' = "down"
    /\ UNCHANGED <<session, device>>

ChainTimesOut == pc = "chaining" /\ HandleTimeout("handleFailed") /\ UNCHANGED device

-----------------------------------------------------------------------------
(* The except clauses of the second try block.                              *)

Caught == {"AccessProtocolError", "NoDeviceConnectedError"}

\* main_loop breaks out to transaction_initiation and keeps session and link.
CatchInMainLoop ==
    /\ pc = "handleFailed" /\ Loop = "main" /\ exc \in Caught
    /\ pc' = "idle" /\ exc' = "none" /\ out' = Silent
    /\ UNCHANGED <<link, resume, session, device>>

\* single_transaction runs failure_process, also when the handler already has.
CatchInSingle ==
    /\ pc = "handleFailed" /\ Loop = "single"
    /\ \/ exc = "AccessProtocolError" /\ FailureReported("returned", "none")
       \/ exc = "AccessProtocolError" /\ FailureUnsent("raised") /\ UNCHANGED session
       \/ /\ exc = "NoDeviceConnectedError"
          /\ pc' = "raised" /\ out' = Silent
          /\ UNCHANGED <<exc, link, resume, session>>
    /\ UNCHANGED device

NotCaught ==
    /\ pc = "handleFailed" /\ exc \notin Caught
    /\ pc' = "raised" /\ out' = Silent
    /\ UNCHANGED <<exc, link, resume, session, device>>

\* The application calls single_transaction again on the same device.
CallAgain ==
    /\ Loop = "single" /\ pc \in {"returned", "raised"}
    /\ pc' = "idle" /\ exc' = "none" /\ out' = Silent
    /\ UNCHANGED <<link, resume, session, device>>

-----------------------------------------------------------------------------
Next ==
    \/ Connect \/ InitiationSelect \/ InitiationRetry \/ InitiationFails
    \/ SessionMissing \/ ReaderLeaves \/ ReceiveTimesOut \/ ReceiveRetry
    \/ ReceiveTruncated \/ ReceiveInvalid \/ ReceiveUncaught
    \/ ReceiveUnverifiable \/ ReceiveBadExchange \/ CatchParseFailure
    \/ RejectWhileAtomic \/ ReceiveGetResponse
    \/ SelectExpedited \/ SelectStepUp
    \/ Auth0Unexpected \/ Auth0Rejected
    \/ \E r \in Known : Auth0Standard(r) \/ Auth0Fast(r)
    \/ LoadCert \/ Auth1Rejected \/ Auth1
    \/ ExchangeUnexpected \/ ExchangeExhausted \/ Exchange
    \/ ExchangeRefused \/ ExchangeRejected \/ ExchangeOpaque
    \/ EnvelopeRejected \/ Envelope
    \/ ControlFlow \/ BleCompletes \/ BleMessageHandled \/ BleMessageFails
    \/ ChainDone \/ ChainBroken \/ ChainTimesOut
    \/ CatchInMainLoop \/ CatchInSingle \/ NotCaught \/ CallAgain

Spec == Init /\ [][Next]_vars

-----------------------------------------------------------------------------
(* Properties.                                                              *)

Messages == [type : MessageTypes, nonce : Nonces]

ControlOK ==
    /\ pc \in Locations /\ exc \in Exceptions
    /\ link \in {"up", "down"} /\ resume \in Continuations
    /\ out \in Messages

SessionOK ==
    /\ state \in States /\ eph \in 0 .. MaxEphemeral
    /\ reader \in Readers \cup {NoReader} /\ cert \in Certificates
    /\ expedited \in Engines /\ stepup \in Engines
    /\ ursk \in {"unavailable", "available"}

DeviceOK ==
    /\ used \in 0 .. MaxEphemeral
    /\ kpersistent \in [Readers -> 0 .. MaxEphemeral]
    /\ atomic \in {"stopped", "started"}
    /\ verified \in [Handshakes -> Readers \cup {NoReader}]
    /\ nonces \in SUBSET Nonces

\* Every variable has its type; counters stay within the model's bound.
TypeOK == ControlOK /\ SessionOK /\ DeviceOK

\* The device is between two messages of a session that it may still serve.
Talking == pc \in {"serving", "chaining"}
ExpeditedPhase == {"AUTH0_FAST_DONE", "AUTH1_DONE", "EXCHANGE_DONE", "SELECT_STEP_UP_DONE"}
StepUpPhase    == {"ENVELOPE_DONE", "STEPUP_EXCHANGE_DONE"}

\* No two responses of the device, in whatever sessions, are ever encrypted with
\* the same key and counter: AES-GCM in EncryptionEngine.encrypt takes its nonce
\* from the counter alone, and handlers create engines and restart transactions
\* inside a session.
NonceNeverReused == [][out'.nonce # NoNonce => out'.nonce \notin nonces]_vars

\* Access documents are only sent under keys of a handshake in which AUTH1
\* verified the reader's signature, whichever states led to ENVELOPE.
DocumentsOnlyToVerified == out.type = "document" => verified[out.nonce[1]] # NoReader

\* Kpersistent is only stored for a verified reader.
KpersistentVerified == \A r \in Readers : kpersistent[r] # 0 => verified[kpersistent[r]] = r

\* A fast transaction only ever speaks to a reader whose signature an earlier
\* AUTH1 verified under that very identifier, although the cached Kpersistent
\* outlives sessions, lost responses and failures after AUTH1 stored it.
FastOnlyForVerified ==
    /\ KpersistentVerified
    /\ Talking /\ state = "AUTH0_FAST_DONE" => kpersistent[reader] # 0

\* In every state in which handle_exchange answers, the engine it picks exists
\* and, in the expedited states, was derived in the current handshake: an engine
\* left over from an earlier AUTH0 of the same session is never answered with.
EngineOfThisHandshake ==
    /\ Talking /\ state \in ExpeditedPhase => expedited.eph = eph /\ eph # 0
    /\ Talking /\ state \in StepUpPhase => stepup # NoEngine

\* A single transaction that is told to terminate never returns, with success
\* or after any failure, with session keys left.
NothingLeftOnReturn ==
    Loop = "single" /\ TerminateAtEnd /\ pc = "returned" => state = "NONE" /\ expedited = NoEngine

\* user_device.py:1059 "Step up phase can only be requested after standard
\* expedited phase": once step-up is selected, AUTH1 has verified the reader in
\* the present handshake, so that ENVELOPE finds no engine of an earlier one.
StepUpAfterStandard ==
    Talking /\ state \in {"SELECT_STEP_UP_DONE"} \cup StepUpPhase => verified[eph] # NoReader

\* user_device.py:790 failure_process "Destroys all session bound keys and
\* data.": no mailbox commands stay queued once the session has ended.
AtomicSessionEndsWithSession == state = "NONE" => atomic = "stopped"

-----------------------------------------------------------------------------
(* Why the properties hold: an invariant that every step preserves.         *)

\* Also while a message that is retried is being thrown away.
Active == pc \in {"serving", "chaining", "parseFailed"}

\* Ephemeral keys are numbered in the order they are taken.
Numbered ==
    /\ eph <= used
    /\ \A e \in Handshakes : verified[e] # NoReader => e <= used
    /\ \A n \in nonces : n[1] <= used

\* An engine belongs to a handshake, the step-up engine to one with AUTH1.
EnginesTrusted ==
    /\ expedited # NoEngine => expedited.eph # 0 /\ expedited.eph <= used
                               /\ expedited.kind \in {"fast", "standard"}
    /\ stepup # NoEngine => /\ stepup.eph # 0 /\ stepup.eph <= used
                            /\ stepup.kind = "stepup"
                            /\ verified[stepup.eph] # NoReader

\* Every counter an engine has used is behind its next one.
Ahead(engine) == \A n \in nonces : n[1] = engine.eph /\ n[2] = engine.kind => n[3] < engine.enc
NoncesBehind == /\ expedited # NoEngine => Ahead(expedited)
                /\ stepup # NoEngine => Ahead(stepup)

\* Between AUTH0 and AUTH1 the handshake has not been used for anything.
HandshakeFresh ==
    state \in AfterAuth0 => /\ eph # 0 /\ reader \in Readers
                            /\ verified[eph] = NoReader
                            /\ \A n \in nonces : n[1] # eph

\* The engines a phase needs are there.
PhaseReady ==
    Active => /\ state \in ExpeditedPhase => expedited.eph = eph /\ eph # 0
              /\ state \in StepUpPhase => stepup # NoEngine
              /\ state = "AUTH0_FAST_DONE" => kpersistent[reader] # 0
              /\ pc = "chaining" /\ resume = "envelope" => stepup # NoEngine

\* The strengthening of the invariants above that is inductive.
DeviceInv == /\ TypeOK /\ Numbered /\ EnginesTrusted /\ NoncesBehind
             /\ HandshakeFresh /\ PhaseReady /\ KpersistentVerified
             /\ DocumentsOnlyToVerified
=============================================================================
