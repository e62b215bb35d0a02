# Formal models of the Aliro actuator

The actuator is a Python implementation of the Aliro access protocol: a *Reader* (the lock) and a
*User Device* (the credential) that talk over NFC or over BLE with UWB ranging. This directory
holds TLA+ models of it, the TLC configurations that check them and TLAPS proofs about them. Paths
below are relative to `src/src/aliro_actuator/`.

    tlc -config UserDeviceMain.cfg MCUserDevice.tla      # check one run
    tlapm UserDeviceProofs.tla                           # check the proofs of a module

`PROJECT.json` lists the runs, for each definition the lines it models, for each checked property a
mutated definition that violates it, and the hazards the properties are aimed at.

## 1. Inventory of the system

| Component | State | Operations | Talks to | Modelled |
|---|---|---|---|---|
| User Device, `access_protocol/user_device.py` | session (state, ephemeral key, two encryption engines, certificate flags, URSK flag), cached Kpersistent per reader, mailbox session | `main_loop`, `single_transaction`, a `handle_*` per command, `failure_process`, `handle_timeout` | transport (awaits), APDU layer, mailbox, storage | `UserDevice` |
| Reader, `access_protocol/reader.py` | session with two engines, fast cache of 16 entries, failure guard | `transaction_initiation`, `expedited_transaction_fast` and `_standard`, `handle_*` per command, `failure_process`, `handle_timeout` | transport, APDU layer, storage | `Reader`, `AccessProtocol` |
| APDU layer, `access_protocol/apdu.py` | response length, extended-length flags | command and response chaining, parsing | called by both sides, awaits the transport | `ApduChaining` |
| Encryption, `access_protocol/encryption.py` | a key and a counter per direction | `encrypt`, `decrypt`, `check_counters_valid` | both sides | in `UserDevice`, `Reader`, `AccessProtocol` |
| Mailbox, `access_protocol/mailbox.py`, `MailboxSession` | bytes, queue of an atomic session | `read`, `write`, `set`, `check_boundaries` | `handle_exchange` | `Mailbox`, `MailboxStore` |
| TLV, `access_protocol/tlv.py` | none | encode, decode, `verifySequence` | APDU layer | its exceptions only |
| NFC transport and PN7160 driver, `transport_protocol/nfc.py`, `hw_driver/pn7160_driver` | module globals shared by two threads | callbacks of the NCI thread; `wait_for_reader`, `receive_message`, `send_message`, `disconnect` on a worker thread | NCI library (callbacks) | `NfcDriver` |
| BLE transport and Murata driver, `transport_protocol/ble_uwb.py`, `hw_driver/murata_driver` | connected devices, L2CAP channels, message queue, timer | connection set-up by both sides, `send_le_cb_data`, `wait_for_data`, `wait_for_confirm`, `disconnect` | serial port, one reader of it | `BleLink` |
| UWB, `hw_driver/murata_driver/uwb_driver.py` and the ranging handlers | ranging session | set-up M1 to M4, suspend, resume | BLE messages | no |
| Reader examples, `src/examples/nfc/reader` | none | sequences of Reader calls | Reader | `AccessProtocol` |
| Trust framework, access documents, BLE messages, codecs, log | little or none | library cryptography, encodings | - | outcomes only |

**What is hard in it.** Everything above the drivers is sequential asyncio code: there is one task
per device, and the interesting nondeterminism is what the *other* side sends in which state, where
the link fails, and which of two nested error handlers runs. A handler that meets an error usually
runs `failure_process` *and* raises, the loop may run it again, and `failure_process` itself may
fail; sessions, engines, cached keys and queued mailbox commands have different life times. Below
it, the NFC driver shares unlocked globals between the NCI library's thread and a worker thread, and
the BLE driver multiplexes confirmations, events and data over one serial reader. `PROJECT.json`
lists the hazards line by line.

**What makes each part correct.**

- *User Device*: no nonce is reused; documents only go to a reader that was authenticated; a fast
  transaction only runs with a reader authenticated before; the engine used is of the current handshake;
  a return leaves nothing of a session behind. (That failures leave nothing either, that the loop
  survives bad commands and that step-up only follows a standard transaction is what the code says of
  itself, and not so: section 3.)
- *NFC driver*: messages are returned once, in order, and to the transaction they belong to; nobody
  waits for ever for a reader that has gone.
- *Reader*: it opens only for the credential that proved itself in this handshake; the fast cache holds
  the credentials that signed last, one entry each; a failure is reported once; no nonce is reused.
- *Both sides together*: engines and Kpersistent agree whatever was lost before; no call of an
  application that uses the interface as it is meant fails without a loss; every call ends.
- *Chaining*: what is reassembled is what was split, for every Le and length.
- *Mailbox*: atomic sessions are all or nothing, accesses stay within boundaries.
- *BLE link*: data is delivered once and in order whatever events interleave; a confirm is that of the
  request it is taken for; set-up ends unless a side gives up and holds on to the link; every call ends
  when the connection does; no connection is forgotten.

## 2. The models

### UserDevice

One action is one received message together with all its handler does until the next message. The
correspondence is by name: `handle_auth1` is `Auth1` (success) and `Auth1Rejected` (every path that
ends in `failure_process` or an exception); `wait_for_message` is the `Receive...` actions;
`transaction_initiation` is `Connect` and `Initiation...`; the except clauses of the two loops are
`CatchParseFailure`, `CatchInMainLoop`, `CatchInSingle` and `NotCaught`, so that a double failure
process is two steps, as in the code.

- `pc` is the place in the loop, `exc` the Python exception in flight (classes are told apart only
  as far as an except clause tells them apart), `link` whether the reader can still be reached.
- `state`, `eph`, `reader`, `cert`, `expedited`, `stepup`, `ursk` are the attributes of
  `UserSession`; `state = "NONE"` is `session is None`.
- `used`, `kpersistent`, `atomic` belong to the device and outlive sessions.
- `out` is the last message sent; `verified` and `nonces` are history variables that no action reads.

Cryptography is symbolic. An ephemeral key pair is a number, fresh each time; an engine is the key
pair, the derivation ("fast", "standard", "stepup") and its two counters. Whether a signature, a
certificate or an authentication tag verifies is a nondeterministic outcome. The reader is
unconstrained: any command may arrive in any state.

Two loops (`Loop`), two transports (`Transport`) and the options of the constructor are constants.
`NfcDriver` shows what the transport below does; `UserDevice` uses its outcomes (a message, no
device) only. `NCIError` and the `TypeError` of the driver, which no loop catches, are left out.

### NfcDriver

The User Device's side of the PN7160 driver. Every read and every write of a global is a step: the
callbacks are cut into `Activated; Available; Notify`, `Deactivated; Unavailable; Notify` and
`DataReceived; Notify`, `receive_message` into `Receive; CheckData; SleepForData; WakeForData;
TakeData; ClearData`, and so on. The NCI library runs one callback at a time (external), the Driver
is called from one task, so there are two threads. `Condition.notify` without a waiter is lost;
a waiter is one that has entered `wait()`, which is a step after its test.

### Mailbox and MailboxStore

`Mailbox` has the bytes of the mailbox as a sequence, because `bytearray` slices are what its
methods assign: `AssignSlice` makes the sequence longer when a slice ends behind the end, as Python
does. `commands` is the queue of `MailboxSession`, `Executed` what `execute_commands` makes of it.
One `Exchange` is the part of `handle_exchange` from the checks to the response: reads first, then
sets before writes, queued or carried out. Of the session only the phase is kept (`UserDevice` has
the rest); what survives the end of a session here is exactly what survives it in the code.

`MailboxStore` is the promise, without a queue and without slices: cells, a committed copy and a
shadow copy on which every update of an open atomic session takes effect at once. The refinement
maps `store` to `data` and `shadow` to the data the queue would produce, so it says that deferring
the commands loses, repeats and reorders none, across sessions and failed responses.

### ApduChaining

The Reader's side (`handle_chaining_send_command`) and the User Device's two
(`handle_chaining_receive_command`, `handle_chaining_send_response`) with `create_command`,
`create_response` and the Le bookkeeping of `wait_for_message`. Where the code keeps a list of pieces
the model keeps the data that is left of it, and cuts the next piece off when it is sent. Bytes are
pairs of the command's number and a position, so a lost, repeated or foreign byte shows. Callers
are free: any command after any outcome, any response, an error response, an exception; a busy
event of either side, a lost link. `dirty` records that a chain has been given up on the present
link: after that the device takes what comes next for more of the old chain (it compares no
instructions, and the Reader looks at no status before its last piece), and nothing is promised.

A command has a class, which GET RESPONSE takes over: `interindustry` is class 00 (SELECT, ENVELOPE),
its negation class 80 (AUTH0, AUTH1, EXCHANGE, and the others). `RespondNext` sends the next part to
a GET RESPONSE of class 00 and refuses one of class 80 (`GiveUp`: `single_transaction` answers with an
error and ends, `main_loop` leaves for a new connection without a word), so that of the chained
responses only those to SELECT and ENVELOPE are got whole. Room, the longest part and the largest
number a byte can say are three independent constants: `CommandRoom`, `MaxResponse` and `MaxValueByte`
are 255, 256 and 255 over NFC and 239, 241 and 255 over BLE. `Sendable` is the limit of `create_command`
over BLE, 255 bytes; what is between `CommandRoom` and that is cut up.

### Reader

A step is what the Reader does between two awaits of the transport: an application's call up to its
first command, or one response (or its loss) up to the next command or the end of the call. `call`
is the method the application is in, `awaited` the command whose response is awaited, `reporting`
whether that command is one `failure_process` sent. Responses are unconstrained: `ExchangeAnswered`,
`Auth1Rejected` and their like are the paths of a handler, `ResponseStatus`, `ResponseMalformed`,
`ResponseUnverifiable`, `ResponseUncaught`, `ResponseLost` and `ResponseTimesOut` what may come
instead, in the order of the `except` clauses.

`FailureProcess(failureState, x, s, c)` is the code of `failure_process` up to its first await, with
the session as it is when the handler calls it. The rest of it, after the answer, is the second half
of `ExchangeAnswered` and `ControlFlowAnswered`. Because the command it sends is an ordinary
`handle_exchange`, a failed answer to it runs `failure_process` again; `started` is the guard
(`failure_process_started`) that makes the inner one return, and the exception then skips
`transaction_termination`: the session is left, which the docstring of `failure_process` does not
say. `ErrorEvent` has two outcomes, sent and terminated, or neither.

The fast cache is the sequence `fast_cache` with `remove_kpersistent` (`Forget`) and
`add_kpersistent` (`Remembering`). A Kpersistent is named by the handshake it was derived in, a
cryptogram by the Kpersistent it was made with. `last`, `proof`, `nonces` and `told` are history.

### AccessProtocol

`Reader` and `UserDevice`, each an `INSTANCE` with variables of its own, over an NFC field that may be
lost at any moment. The application makes the calls of the programs under `examples/nfc/reader`, in
their order; the device runs `main_loop`. Both sides follow the protocol, so what was a free choice in
the two modules is decided here: a tag verifies when key, derivation and counter agree (`Verifies`,
`Readable`), a fast transaction succeeds when the device's Kpersistent is in the Reader's cache. `s2` is
the S2 of a CONTROL FLOW: a member of the enum, or `True`, which `key_slot.py` passes and the device
refuses (`FinishesControlFlow`, `AnswersControlFlow`). `pair` maps a handshake of the device to that of
the Reader, since each numbers its own ephemeral keys. `disturbed` records that the field was lost in
this transaction, that it began with a device whose program had ended or had a failure message still to
send (`DeviceFailing`), or that the application has passed `True`. `stage` is how far the application
is: it makes no ENVELOPE after an EXCHANGE of the step-up phase ("exchanged"), which the device would
refuse (`user_device.py:1887-1894`). The modules instantiated are `ReaderProofs` and `UserDeviceProofs`,
so that the theorems about each side are at hand in the proofs about both. Every response fits into one
message here (`Undisturbed`): chained ones are the matter of `ApduChaining`, where those to AUTH0, AUTH1
and EXCHANGE fail.

### BleLink

Both sides of `ble_uwb.py` and of the Murata driver, down to one read of the serial port. `task` is
the list of requests the running coroutine still has to make, in the order of the code
(`ReaderSetup`, `DeviceSetup`, `SendLeCbData`, `DisconnectTask`, ...); `waiting` is whether
`wait_for_message` waits for the CONFIRM of the request or for its event. One `Read` is one turn of
the loop of `wait_for_message`: data that nobody waits for goes to `message_queue`,
CONNECTION_COMPLETE and CONNECTION_EVENT_DISCONNECTED update the driver whatever is waited for,
everything else is discarded. `Expires` gives up a read with a timeout and leaves the thread that
reads for it (`orphan`), which takes one packet more. The boards and the radio are external: a board
carries out one request at a time and in one step; the channel may be asked for by both sides, the
requests may lapse, and the link may be lost.

An answer may be an error, or say that the Reader's database lacks what is looked for. `Repeats` is
what asks again: `connect_le_psm` when the other side is not ready. `GivesUp` is every other error of
it and of the GATT steps (`ErrorReturnedError`, `GATTError`): the exception leaves `wait_for_connection`
with the link up, as only an unknown version is caught there. Then the side is `Abandoned`, and the
other one, which may wait for the write or the channel for ever, is freed when the link ends, by the
application's `disconnect` or by itself. The time limit of the driver is that of the application from
`initialization` on (`timer`, `Timed`), but enabled only once there is a channel.

`missed` records the two ways in which the code loses a packet for good, both reachable: the orphan
takes a packet that is then nobody's, and ATTRIBUTE_WRITTEN that comes while the Reader waits for the
confirm of another request is discarded, after which the Reader waits for the write and the User
Device for the channel. The properties except them, each by name.

The end of the module states what makes the safety properties inductive, `LinkInv` and `ConnectInv`;
section 4 says why they are what they are.

## 3. Runs

| Run | Expect | Question |
|---|---|---|
| `device_main` | pass | safety of an NFC device in `main_loop` |
| `device_single` | pass | the same over BLE, `single_transaction`, and that nothing is left on return |
| `device_step_up` | violation | does the step-up phase only follow a standard transaction? |
| `device_atomic` | violation | does the failure process destroy an open atomic session? |
| `nfc_driver` | pass | messages once, in order, and of this reader? |
| `nfc_lost_wakeup` | violation | does `receive_message` stop waiting when the reader is lost? |
| `mailbox` | pass | does the mailbox implement `MailboxStore`, keep its size, signal its data? |
| `chaining` | pass | do commands and responses arrive whole, within Le, and do chains end? |
| `mailbox_step_up` | violation | is the mailbox closed in the step-up phase? |
| `reader` | pass | whom does the Reader let in, what does its cache hold, what does it encrypt and report? |
| `access_protocol` | pass | do both sides agree over several transactions, and does nothing fail by itself? |
| `ble_link` | pass | is data delivered in order, are confirms matched, do set-up and calls end? |

**Bounds.** `MaxEphemeral = 3` handshakes let a Kpersistent be stored in the first, used by a fast
transaction in the second and overwritten or used again in a third; two readers tell a cached key of
one from the other. `CounterLimit = 3` instead of 0xFFFF makes exhaustion happen after two uses and
`MaxCounter` (3 or 4) stops an engine past that limit, which only ENVELOPE reaches, because it does
not look at the counters. Readers are symmetric in `device_main`; in `device_single` one reader is
known to no credential. `NfcDriver` has three activations, so that two readers can pass while a
method is between two of its steps, and three messages, so that one is overwritten while another is
being returned; `nfc_lost_wakeup` needs only two of each.

`Mailbox` has two bytes of three values and up to three queued commands, so that a session can hold
a command that hides another, one that fills and one that overlaps both; its requests end at the
last byte, beyond it, or start behind it. `MaxRequests = 1` of each kind still gives every request a
set, a write and a read of the same cells.

`ApduChaining` keeps the relations its limits meet in and not their size: over BLE `CommandRoom =
4`, `MaxResponse = 3`, `MaxValueByte = 4` for 239, 241 and 255, so that the longest command Lc can
say does not fit in one piece and a part of a response is shorter than a status can announce.
Commands have no data, fit, or are as long as Lc can say and take two pieces; responses have none,
fill a part exactly or take two; with Le 1 more is left than the status can say. Three commands of
either class let what the first leaves behind meet the third.

`Reader` has three credentials and a cache of two, so that one is evicted and signs again, and four
handshakes, enough to fill the cache, evict and use what is left in a fast transaction; one credential
can be looked up by its slot, the other two are symmetric. Three configurations cover both transports,
both modes, ABORT and CONTINUE, with and without fast transactions, certificate and timer.
`MaxCounter = 2` lets each engine encipher twice and once more in `failure_process`.

`AccessProtocol` has three handshakes on each side: a Kpersistent is made in the first, its
replacement may be lost on the way in the second, and the third meets what is left. Counters go to 3,
which is one EXCHANGE of each kind and a failure report.

`BleLink` is one session of one Reader and one User Device: two messages from the device, so that one
can overtake the other, one from the Reader, so that data crosses, and one lapse of a request for the
channel. The safety properties have also been checked with two messages and two lapses on each side,
13 million states; three of the four are proved for all bounds.

Deadlock is not checked: a device whose loop has ended, a driver whose field stays empty and two
programs that have used up the bounds stop.

**Violations.** Each quotes what the repository says and shows that the code does otherwise.

1. `StepUpAfterStandard`: the step-up AID is accepted after any EXCHANGE, that of a fast transaction
   included; after a standard transaction in the same session the step-up engine is still that one's.
2. `AtomicSessionEndsWithSession`: `mailbox_session` is not part of the session; `failure_process`
   leaves it open, with its queue.
3. `StopsWaitingWhenReaderLost`: the notification sent "so it can stop waiting" is lost when it
   falls between the test and `wait()`.
4. `NoStepUpAccess`: `handle_exchange` replaces `ENVELOPE_DONE` by `STEPUP_EXCHANGE_DONE` before it
   tests for `ENVELOPE_DONE`, so the refusal of mailbox requests in the step-up phase never fires.

**Other divergences.** The models have these paths too, and the properties hold with them; they are not
checked by runs of their own.

- `main_loop` should "keep running, even when receiving invalid commands" (`user_device.py:322`).
  `verifySequence` raises `TlvError`, which is no `InvalidCommandError`, so an AUTH1, CONTROL FLOW or
  EXCHANGE with its TLVs out of order ends it (`ReceiveUncaught`, `ReceiveBadExchange`); so does any
  exception of `transaction_initiation`, which is outside of both try blocks (`InitiationFails`), and the
  `ValueError` of `range()` for a SELECT without Le there (`InitiationSelect`).
- `failure_process` "Destroys all session bound keys and data" (`user_device.py:790`), but it sends before
  it terminates: when the reader has gone, session and keys stay (`FailureUnsent`).
- GET RESPONSE carries the class of its command (`apdu.py:1567`), and the device takes only class 00
  (`apdu.py:552`): a chained response to AUTH0, AUTH1 or EXCHANGE is never got whole, and `main_loop`
  leaves the GET RESPONSE unanswered (`RespondNext`), the case that `Answered` names last.
- `handle_control_flow(True)` "will indicate a success status" (`reader.py:1061`), but sends S2 `0x01`,
  which the device does not know; the call of `key_slot.py:58` ends in the report of a failure
  (`FinishesControlFlow`, `AnswersControlFlow`), the case that `NoSpuriousFailure` excuses as `disturbed`.

**Fairness.** `UserDevice`, `Reader` and `Mailbox` have none: their properties are safety properties.
`NfcDriver` assumes weak fairness of a callback that has begun (the library's thread is running) and of
a Driver method that has begun and is not blocked. `ApduChaining` assumes it of both sides, which are
tasks that run until they wait for a message; a device whose loop an exception has ended is exempt.
`AccessProtocol` assumes it of the device's loop and of the Reader's await of an answer that has come,
or that its driver reports missing. `BleLink` assumes it of each host, whose event loop runs a coroutine
when its packet is there, of each board, which answers what it is asked, and of the scan that sees the
advertising Reader; it assumes nothing of timeouts, of the application, or of what other devices send.
Nothing is assumed of the field: no reader need come, leave or send.

## 4. Proofs

`UserDeviceProofs` proves, for all constants that satisfy `UserDeviceAssumption`, that `DeviceInv`
is an invariant, and from it `TypeOK`, `DocumentsOnlyToVerified`, `FastOnlyForVerified`,
`EngineOfThisHandshake` and the action property `NonceNeverReused`. (It says nothing of the step-up
engine: violation 1.)

The safety properties are not inductive. That an engine never repeats a nonce needs that no nonce of
its key is ahead of its counter (`NoncesBehind`), that new engines get keys without a past
(`HandshakeFresh`: between AUTH0 and AUTH1 the ephemeral key is unverified and unused, so AUTH1 may
start its counters at 1), and that keys are numbered as they are taken (`Numbered`). That documents
go to verified readers needs that every step-up engine belongs to a verified handshake
(`EnginesTrusted`). That a phase finds its engine (`PhaseReady`) must include the moment in which a
retried message is thrown away and the piecewise sending of a document.

Most of the fifty actions change the session in one of a few ways. The proof has a lemma per way (a
step that leaves session and device alone, one that ends the session, one that only moves
counters, one that encrypts a response, one that takes a fresh ephemeral key) that shows `DeviceInv'`,
and shows of each action that it is one of them; `Auth0Fast` and `Auth1` have proofs of their own.

`NfcDriverProofs` proves `TypeOK`, `DriverInv` and from it `EachMessageOnce` and
`NoMessageOfEarlierReader`, for any number of readers and messages. The invariant says that what is in
`data_received` is newer than what was returned (`Ordered`) and, if a reader has been announced since,
is of that reader (`Announced`): it rests on `data_received = None` coming *before* `reader_available =
True`.

`ReaderProofs` proves `ReaderInv` and from it all six properties of the run `reader`, for all
credentials, configurations, cache sizes and bounds that satisfy `ReaderAssumption`. What makes them
inductive: during a handshake nothing is granted, nobody has signed it, and no nonce was made with its
key (`GrantsOK`, `NoncesOK`), so that AUTH1 may start with fresh counters; the engine in use exists
and its counters are within the bound (`EnginesOK`, `CountersOK`); a failure is only told by the one
`failure_process` that found `started` false (`ControlOK`); keys in the cache increase, hence a
credential has one position and `remove_kpersistent` keeps the order (`CacheOK`). Thirty ways to
answer a command come down to ten kinds of step (`Kinds`): lemma `StepKinds` goes through the
actions, then each kind is shown to preserve the invariant. `RememberingOK` is the argument for
`add_kpersistent`: what is evicted signed before everything that is kept.

`NothingLeftOnReturn` is the seventh property of `UserDevice`: how `single_transaction` comes to return
is followed back (`Returns`, `WaitingReturns`, `HandlerReturns`, `EndReturns`) to steps that have ended
the session, or have just found that there is none.

`MailboxProofs` proves all of the run `mailbox` for any size, bytes, requests and length of the
queue, and that `Mailbox` implements `MailboxStore`. `Executed` is a recursive function of the length
of the queue. What it computes is shown by induction over that length, which lemma `Induction` gets
from the well-foundedness of `<` on the numbers for a *set* of numbers (the library's induction
theorems speak of a predicate, which the provers cannot instantiate). From it: a queue can be carried
out in parts (`ExecutedInParts`), and what a cell holds afterwards is what the last command that
covers it wrote (`LastCommandWins`). The invariant says that every queued command fits into the
mailbox (`QueuedFits`), hence no assignment lengthens it; the refinement is `ExchangeServes`: the slice
that is read is what the store returns, and one more command in the queue is one more update of the
shadow.

`ApduChainingProofs` proves `CommandWhole`, `ResponseWhole` and `PartsFit` for all lengths of commands
and responses, all `Les`, any room, limits and classes, and either transport; all that is assumed of
them (`ChainingAssumption`) is true of the constants of the code. `ChainingInv` is stated in
`ApduChaining`: on a link on which no command was given up (`~ dirty`), the two sides take turns. There
is at most one message on its way that is no busy event, and it is in one of few situations: a piece on
its way, a piece acknowledged, a command handled, a part of the response on its way, GET RESPONSE on its
way, or nothing; and each says what was gathered, what is on its way and what is left, which together
are the command (or the response). The device may leave the link in any of them (`Gone`), by refusing
GET RESPONSE for one; then only what it had said is read (`Stopped`), which never completes a response.
A lemma per action shows which situation follows which; busy events disturb none (`BusyEvents`). A chain
has only parts of a response with success: that of AUTH0 with an error is of class 80 and ends at its
first GET RESPONSE.

`AccessProtocolProofs` proves all four safety properties of the run `access_protocol`, and that its
behaviours are behaviours of `Reader` and of `UserDevice` (`ImplementsSides`: each step is a step of
one side, or leaves its variables alone). Hence `ReaderInv` and `DeviceInv` hold of the composition
without a second proof, and `ProtocolInv` only says how the two sides and the field relate. Its parts:
keys are numbered alike on both sides, and the Reader's Kpersistent of the device is never newer than
the device's (`KeysOK`, which is what remains true when a response is lost after AUTH1); a device that
still runs will serve the next SELECT (`DeviceReady`); and, as long as a transaction is not
`disturbed`, what is in the field belongs to the call that runs (`CallOK`, `FlightOK`), the engines
agree up to the one message on its way (`InStep`, `Sealed`), and the device is in the state that the
Reader's next command needs, one part for each phase (`Selecting`, `Authenticating`, `Exchanging`,
`Between`). A call can therefore not fail of itself. A disturbance, the loss of the field or an S2
that is none, makes all but `KeysOK`, `DeviceReady` and `CallOK` vacuous.

`BleLinkProofs` proves `TypeOK`, `DeliveredInOrder` and `ConfirmsMatch` of `BleLink` for any number of
messages on either side and of lapses. That a message comes in order needs to say where all others are:
of the data that the other side's board has carried (`Carried`: all that was sent but what is still in
the serial line), what was returned, what is in `message_queue` and what is in the UART are together the
numbers from 1 up to it (`DataOK`, `InOrder`). For that, data must not come before the queue exists: it
follows CONNECTION_COMPLETE on the line, the last event of the set-up (`OpenedIn`), and who asks for the
channel is still waiting for the answer (`AskedIn`, `Answering`), no request but the last of the set-up
answers with anything the driver reacts to unasked (`Planned`, `Preparing`), and the link never comes up
a second time (`ConnectsOnce`). `ConfirmsMatch` needs to know which requests may be under way at once:
one, except that a `Disconnect` whose event timed out is followed by the `DeregisterLePsm` of the
clean-up, which is of another opcode group (`SerialOK`, `ConfirmsIn`). Everything is said of connections
that last: once a side has read DISCONNECTED, or lost a packet to an orphaned read, less holds, and
`Live`, `Frozen` and `Whole` say where. A step of a host leaves the other side alone (`UntouchedInv`). A
side that gives its set-up up keeps the link but never gets a channel or a queue (`Unopened`,
`GivenUpInv`), so nothing is promised of data on it. A step of a board changes nothing of the hosts but
what is on their lines (`Silent`), and is an answer to one side (`OwnInv`) and a report to the other
(`ListenInv`, `CompleteInv`, `DataInv`).

`BleConnectProofs` proves `NoForgottenLink`, on top of `LinkInv`. A side may fail to note a connection
only if CONNECTED comes while it waits for something else, for `connected_devices` changes only when
CONNECTED ends a request. So the invariant, `ConnectInv`, follows each side in two phases. Until it has
read CONNECTED its set-up is on its way to `Connect` or `WaitForConnectionEvent`, with nothing before
them that needs the link, hence nothing that can fail (`Approaching`: the programs of both set-ups have
that form, `SetupsNear`). While a Reader advertises, what is on its line and what it waits for are such
that a CONNECTED appended now would be taken (`Arrives`): it has begun to wait for the connection, or
the end of `StartAdvertising` is on the line before. The User Device connects only after it has seen a
Reader that advertises (`Sees`), and a Reader that advertises does so until it is connected to, so the
CONNECTED of both sides is put where it is taken. It comes once. Afterwards (`LinkedOK`) the side is
in `connected_devices` until it reads DISCONNECTED, and the first request of a `disconnect` is then
`Disconnect`, which stays in the serial line as long as the link is up. A step of a host moves its own
side within its phase or into the next (`ReadConn`, `WriteConn`, `SettledConn`), a step of a board that
does not make or end the link puts only harmless messages on the lines (`Mild`, `HearConn`), and the one
that makes it is `ConnectConn`.

Only model-checked: the liveness properties `Answered`, `CallEnds`, `SetupEnds` and `CallsEnd` (temporal
properties under fairness are outside of what TLAPS proves here).

## 5. Not modelled, and why

- UWB ranging (`uwb_driver.py`, M1 to M4, `ranging_loop`, RKE, the BLE session key): a second protocol
  beside access, whose steps are decided by UCI notifications of a radio the code does not describe.
- Contents of certificates and documents, key derivation, AES-GCM: library cryptography, symbolic.
- Pre-generated ephemeral keys: the application's list may repeat a pair; the model's are fresh.
- Formatting and parsing of APDUs, TLVs, BLE messages and GATT tables, logging, installation. Which
  exception a malformed one raises, and who catches it, is modelled.
- `handle_auth0_with_wrong_tag_value` and the other `command_*` helpers of tests: they send one
  command and check no answer.
- The tag side of the PN7160 driver at the granularity of single accesses (`wait_for_tag` has the
  unlocked test of `wait_for_reader`); `nfcTag_transceive` is one exchange that may be lost.
- The Murata boards are assumed to carry out a request in one step and to lose nothing on the serial
  line; the link layer's own retransmissions are below that.
- A Reader that meets a User Device of another protocol version over BLE, beyond the exception it
  raises.

## 6. Plan

Done: `UserDevice`, `NfcDriver`, `Reader`, `Mailbox` (refining `MailboxStore`), `ApduChaining`,
`AccessProtocol` (refining `Reader` and `UserDevice`) and `BleLink`, with proofs of all their safety
properties. What could come next, in this order:

1. `AccessProtocol` over BLE, with `BleLink` as its channel.
2. The ranging session of both sides: suspend and resume crossing each other.
3. Extended length in `ApduChaining`.
4. `NfcDriver` in tag mode; TLV sequences as functions against a reference.
