----------------------------- MODULE ApduChaining -----------------------------
(***************************************************************************)
(* Chaining of commands and responses (access_protocol/apdu.py): what       *)
(* handle_chaining_send_command of the Reader and the loops                 *)
(* handle_chaining_receive_command and handle_chaining_send_response of the *)
(* User Device do with one another over a link that may go down, with the   *)
(* Le of a command that limits the pieces of its response and the class of  *)
(* a command, which its GET RESPONSE repeats.  Extended length and          *)
(* skip_command are left out.                                               *)
(***************************************************************************)
EXTENDS Integers, Sequences

CONSTANTS
    Transport,          \* "NFC" or "BLE"
    CommandRoom,        \* apdu_command_length
    MaxResponse,        \* apdu_max_response_length
    MaxValueByte,       \* MAX_VALUE_BYTE: the most that Lc or the second byte
                        \* of a status can say
    CommandLengths,     \* lengths of the data of commands
    ResponseLengths,    \* and of responses, 0 for none
    Les,                \* the Le of commands, 0 for none
    Timers,             \* whether a message is sent with a timeout
    Secured,            \* there is a BLE engine
    MaxCommands, MaxBusy        \* bounds of the model

\* What Le 00 stands for: one more than a byte can say.
AnyLength == MaxValueByte + 1

\* The code has 255 for CommandRoom and 256 for MaxResponse over NFC, 239 and
\* 241 over BLE, 255 for MaxValueByte over either.
ASSUME ChainingAssumption ==
    /\ Transport \in {"NFC", "BLE"}
    /\ CommandRoom \in Nat \ 0 .. (IF Transport = "BLE" THEN 2 ELSE 0)
    /\ MaxValueByte \in Nat /\ MaxResponse \in 1 .. AnyLength
    /\ CommandLengths \subseteq Nat /\ ResponseLengths \subseteq Nat
    /\ Les \subseteq 0 .. AnyLength
    /\ Secured \in BOOLEAN /\ Timers \subseteq (IF Transport = "BLE" THEN BOOLEAN ELSE {FALSE})

VARIABLES
    reader,     \* "idle", "waiting", "done" or "failed"
    sent, rest, \* the command and what of its data has not been sent
    total,      \* what has been received of the response
    asked,      \* the Le of the last message sent
    expect_busy,\* was_timer_started() of the Reader's transport
    device,     \* "listening", "chained", "handling", "responding", or when it
                \* has left the loop or the link: "ended" after an error response,
                \* "left" without a word, "raised" from the handler of a command
    payload,    \* what has been received of the command
    interindustry,  \* its class is 00, that of SELECT and ENVELOPE, and not 80
    length,     \* apdu_response_length
    chunk, left,\* the pieces of the response and what of it has not been sent
    timer,      \* was_timer_started() of the device's transport
    toDevice, toReader,     \* messages on their way
    intended, dirty, commands, busies

readerVars == <<reader, sent, rest, total, asked, expect_busy>>
deviceVars == <<device, payload, interindustry, length, chunk, left, timer>>
\* intended: the response the handler gave; dirty: one side has given up a
\* command on this link because of a busy event; commands and busies count for
\* the bounds.
history    == <<intended, dirty, commands, busies>>
vars       == <<readerVars, deviceVars, toDevice, toReader, history>>

\* The data of the k-th command and of its response: bytes all different.
Bytes(k, n) == [i \in 1 .. n |-> <<k, i>>]

First(data, n) == IF Len(data) <= n THEN data ELSE SubSeq(data, 1, n)
After(data, n) == IF Len(data) <= n THEN <<>> ELSE SubSeq(data, n + 1, Len(data))

Command(data, chained, le, class) ==
    [type |-> "command", data |-> data, chained |-> chained, le |-> le, interindustry |-> class]
GetResponse(le, class) ==
    [type |-> "get", data |-> <<>>, chained |-> FALSE, le |-> le, interindustry |-> class]
Response(data, status, n) == [type |-> "response", data |-> data, status |-> status, left |-> n]
\* A busy event is known by its first byte, which in a session with a BLE
\* engine is a byte of the ciphertext: then it is seen only by chance.
Busy(seen) == [type |-> "busy", seen |-> seen]

-----------------------------------------------------------------------------
(* The algorithms.                                                          *)

\* create_command: over BLE Lc and Le take room, and data that is longer than Lc
\* can say raises a MessageTooLongError.
Room(data, le) == IF Transport = "NFC" THEN CommandRoom
                  ELSE CommandRoom - (IF data = <<>> THEN 0 ELSE 1) - (IF le = 0 THEN 0 ELSE 1)
Sendable(data) == Transport = "BLE" => Len(data) <= MaxValueByte

\* The next command of the chain: all but the last one have the chaining bit.
Piece(data, room, le, class) == Command(First(data, room), Len(data) > room, le, class)

\* Mutant of Final: the last piece is not recognised when it is full.
FinalIfNotFull(data, n) == Len(data) < n

\* create_response_chain: the piece is the last one
Final(data, n) == Len(data) <= n

\* The next response of the chain: the last one has the status of the handler,
\* the others say how much is left, as far as a byte can.
Part(data, n, status) ==
    IF Final(data, n) THEN Response(First(data, n), status, 0)
    ELSE Response(First(data, n), "MORE", IF Len(data) - n <= MaxValueByte THEN Len(data) - n ELSE 0)

\* Mutant of Limit: the Le of the command is ignored.
LimitOfDevice(le) == length

\* wait_for_message: the length of the pieces of the response to a command
Limit(le) == IF le < MaxResponse THEN le ELSE length

\* Mutant of Gathered: only the last piece is kept.
LastPiece(data, more) == more

\* handle_chaining_receive_command: total_payload.extend
Gathered(data, more) == data \o more

\* Mutant of Extended: an answer to GET RESPONSE replaces what there was.
Replaced(data, more) == more

\* handle_chaining_send_command: total_response_data.extend
Extended(data, more) == data \o more

-----------------------------------------------------------------------------
Init ==
    /\ reader = "idle" /\ sent = Command(<<>>, FALSE, 0, TRUE) /\ rest = <<>> /\ total = <<>> /\ asked = 0
    /\ expect_busy = FALSE
    /\ device = "listening" /\ payload = <<>> /\ interindustry = TRUE /\ length = MaxResponse
    /\ chunk = MaxResponse /\ left = <<>> /\ timer = FALSE
    /\ toDevice = <<>> /\ toReader = <<>>
    /\ intended = <<>> /\ dirty = FALSE /\ commands = 0 /\ busies = 0

(***************************************************************************)
(* The Reader.                                                              *)
(***************************************************************************)
SendPiece(data, le) ==
    LET room == Room(sent'.data, le) IN
    /\ toDevice' = Append(toDevice, Piece(data, room, le, sent'.interindustry))
    /\ rest' = After(data, room) /\ asked' = le

\* A caller may go on with another command after any outcome.
Start ==
    /\ reader # "waiting" /\ commands < MaxCommands
    /\ \E n \in CommandLengths, le \in Les, class \in BOOLEAN :
          /\ Sendable(Bytes(commands + 1, n))
          /\ sent' = Command(Bytes(commands + 1, n), FALSE, le, class)
          /\ SendPiece(sent'.data, le)
    /\ reader' = "waiting" /\ total' = <<>> /\ commands' = commands + 1
    /\ expect_busy' \in Timers
    /\ UNCHANGED <<deviceVars, toReader, intended, dirty, busies>>

\* A response to a piece that is not the last one is not looked at.
NextPiece ==
    /\ reader = "waiting" /\ rest # <<>>
    /\ toReader # <<>> /\ Head(toReader).type = "response"
    /\ toReader' = Tail(toReader)
    /\ UNCHANGED sent /\ SendPiece(rest, sent.le)
    /\ UNCHANGED <<reader, total, expect_busy, deviceVars, history>>

\* check_chaining_response: GET RESPONSE with the class of the command, success,
\* or InvalidStatusError
TakeResponse ==
    /\ reader = "waiting" /\ rest = <<>>
    /\ toReader # <<>> /\ Head(toReader).type = "response"
    /\ toReader' = Tail(toReader)
    /\ total' = Extended(total, Head(toReader).data)
    /\ \/ /\ Head(toReader).status = "MORE"
          /\ asked' = (IF Head(toReader).left = 0 THEN AnyLength ELSE Head(toReader).left)
          /\ toDevice' = Append(toDevice, GetResponse(asked', sent.interindustry))
          /\ UNCHANGED reader
       \/ /\ Head(toReader).status # "MORE"
          /\ reader' = (IF Head(toReader).status = "SUCCESS" THEN "done" ELSE "failed")
          /\ UNCHANGED <<asked, toDevice>>
    /\ UNCHANGED <<sent, rest, expect_busy, deviceVars, history>>

\* A busy event: while no timer runs, and when it is not seen to be one, it is
\* an UnexpectedBLEMessageError.
ReaderIsTold ==
    /\ reader = "waiting" /\ toReader # <<>> /\ Head(toReader).type = "busy"
    /\ toReader' = Tail(toReader)
    /\ \/ /\ expect_busy /\ Head(toReader).seen
          /\ UNCHANGED <<reader, dirty>>
       \/ /\ ~ (expect_busy /\ Head(toReader).seen)
          /\ reader' = "failed" /\ dirty' = TRUE
    /\ UNCHANGED <<sent, rest, total, asked, expect_busy, deviceVars, toDevice, intended,
                   commands, busies>>

(***************************************************************************)
(* The User Device.                                                         *)
(***************************************************************************)
DeviceGets(types) == toDevice # <<>> /\ Head(toDevice).type \in types /\ toDevice' = Tail(toDevice)
Reply(response)   == toReader' = Append(toReader, response)

\* A command without the chaining bit, or the last one of a chain, with all
\* data gathered: what counts is its Le.
Complete(data) ==
    /\ device' = "handling" /\ payload' = data /\ length' = Limit(Head(toDevice).le)
    /\ interindustry' = Head(toDevice).interindustry
    /\ UNCHANGED <<chunk, left, timer, toReader>>

\* One that is followed by others, acknowledged at once.  The timer is started
\* as it was.
Acknowledge(data) ==
    /\ device' = "chained" /\ payload' = data /\ Reply(Response(<<>>, "SUCCESS", 0))
    /\ UNCHANGED <<interindustry, length, chunk, left, timer>>

\* handle_chaining_receive_command does not look at the instructions of a chain.
\* (A GET RESPONSE to a device that listens is not sent here; see UserDevice.)
Receive ==
    /\ \/ /\ device = "listening" /\ DeviceGets({"command"})
          /\ IF Head(toDevice).chained THEN Acknowledge(Head(toDevice).data)
                                       ELSE Complete(Head(toDevice).data)
       \/ /\ device = "chained" /\ DeviceGets({"command", "get"})
          /\ LET data == Gathered(payload, Head(toDevice).data)
             IN  IF Head(toDevice).chained THEN Acknowledge(data) ELSE Complete(data)
    /\ UNCHANGED <<readerVars, history>>

\* create_response and the first part: a chain is needed when the data is longer
\* than Le; where that is 0 range() raises a ValueError.  Only AUTH0, of class 80,
\* has a response with data and an error.
Respond ==
    /\ device = "handling"
    /\ \E n \in ResponseLengths, status \in {"SUCCESS", "ERROR"} :
          LET data == Bytes(commands, n) IN
          /\ status = "SUCCESS" \/ n = 0 \/ ~ interindustry
          /\ \/ /\ n = 0 \/ length > 0
                /\ Reply(Part(data, length, status))
                /\ device' = (IF Final(data, length) THEN "listening" ELSE "responding")
                /\ chunk' = length /\ left' = After(data, length) /\ length' = MaxResponse
                /\ timer' \in Timers /\ intended' = data
             \/ /\ n > 0 /\ length = 0
                /\ device' = "raised"
                /\ UNCHANGED <<chunk, left, length, timer, toReader, intended>>
    /\ UNCHANGED <<readerVars, payload, interindustry, toDevice, dirty, commands, busies>>

\* An error response, sent without a timeout.
ReplyError == /\ Reply(Response(<<>>, "ERROR", 0))
              /\ length' = MaxResponse /\ timer' = FALSE

\* An unknown AID is answered and the next command awaited, the failure process
\* ends in transaction_termination.
Refuse ==
    /\ device = "handling" /\ ReplyError
    /\ device' \in {"listening", "ended"}
    /\ UNCHANGED <<readerVars, payload, interindustry, chunk, left, toDevice, history>>

\* An exception that leaves the loop, a TlvError for one: no response is created.
Raise ==
    /\ device = "handling"
    /\ device' = "raised"
    /\ UNCHANGED <<readerVars, payload, interindustry, length, chunk, left, timer, toDevice, toReader,
                   history>>

\* An AccessProtocolError from a handler: single_transaction runs the failure
\* process, main_loop sets up a new connection without a word.
GiveUp == \/ device' = "ended" /\ ReplyError
          \/ device' = "left" /\ UNCHANGED <<length, timer, toReader>>

\* The next part.  The last one has the status SUCCESS, on which the loop ends:
\* the chain of an error is not got as far, as its GET RESPONSE has class 80.
\* parse_as_get_response takes only class 00, anything else is an InvalidCLAError.
RespondNext ==
    /\ device = "responding" /\ DeviceGets({"get"})
    /\ \/ /\ Head(toDevice).interindustry
          /\ Reply(Part(left, chunk, "SUCCESS"))
          /\ device' = (IF Final(left, chunk) THEN "listening" ELSE "responding")
          /\ left' = After(left, chunk) /\ UNCHANGED <<length, timer>>
       \/ /\ ~ Head(toDevice).interindustry
          /\ GiveUp /\ UNCHANGED left
    /\ UNCHANGED <<readerVars, payload, interindustry, chunk, history>>

\* Any other command than GET RESPONSE is an InvalidINSError.
Interrupted ==
    /\ device = "responding" /\ DeviceGets({"command"})
    /\ GiveUp
    /\ UNCHANGED <<readerVars, payload, interindustry, chunk, left, history>>

\* A busy event while the device waits in a chain.  Without a timer, or unseen,
\* it is an error, which leaves both loops from "chained".
DeviceIsTold ==
    /\ device \in {"chained", "responding"} /\ DeviceGets({"busy"})
    /\ LET tolerated == timer /\ Head(toDevice).seen IN
       \/ /\ tolerated /\ UNCHANGED <<device, length, timer, toReader, dirty>>
       \/ /\ ~ tolerated /\ device = "chained"
          /\ device' = "left" /\ dirty' = TRUE
          /\ UNCHANGED <<length, timer, toReader>>
       \/ /\ ~ tolerated /\ device = "responding"
          /\ GiveUp /\ dirty' = TRUE
    /\ UNCHANGED <<readerVars, payload, interindustry, chunk, left, intended, commands, busies>>

\* The main loop skips a busy event if a timer runs, and handles it as any
\* other message otherwise.
BusyOutsideOfChain ==
    /\ device = "listening" /\ DeviceGets({"busy"})
    /\ UNCHANGED <<readerVars, deviceVars, toReader, history>>

(***************************************************************************)
(* The link.                                                                *)
(***************************************************************************)
\* Either side may tell the other over BLE that it needs more time.
TellBusy ==
    /\ Transport = "BLE" /\ busies < MaxBusy
    /\ busies' = busies + 1
    /\ \E seen \in {TRUE, ~ Secured} :
          \/ /\ device = "handling"
             /\ toReader' = Append(toReader, Busy(seen)) /\ UNCHANGED toDevice
          \/ /\ reader = "waiting" /\ toReader # <<>>
             /\ toDevice' = Append(toDevice, Busy(seen)) /\ UNCHANGED toReader
    /\ UNCHANGED <<readerVars, deviceVars, intended, dirty, commands>>

\* The link goes down, by itself or because of a timeout, and comes up again.
\* Both sides leave whatever they waited in.  A handler may or may not have
\* come to creating its response.
Reconnect ==
    /\ reader' = "idle" /\ rest' = <<>> /\ total' = <<>> /\ toDevice' = <<>> /\ toReader' = <<>>
    /\ dirty' = FALSE /\ device' = "listening"
    /\ length' \in (IF device = "handling" THEN {length, MaxResponse} ELSE {length})
    /\ UNCHANGED <<sent, asked, expect_busy, payload, interindustry, chunk, left, timer, intended, commands, busies>>

ReaderStep == NextPiece \/ TakeResponse \/ ReaderIsTold
DeviceStep == Receive \/ Respond \/ Refuse \/ Raise \/ RespondNext
              \/ Interrupted \/ DeviceIsTold \/ BusyOutsideOfChain
Next == Start \/ ReaderStep \/ DeviceStep \/ TellBusy \/ Reconnect

Spec == Init /\ [][Next]_vars
\* Both sides are tasks that go on unless they wait for a message.
FairSpec == Spec /\ WF_vars(ReaderStep) /\ WF_vars(DeviceStep)

-----------------------------------------------------------------------------
(* Properties.                                                              *)

\* What the device handles is the command that was sent, all of it and nothing
\* else, unless the Reader has given up a command on this link before, which
\* happens when a busy event comes without a timer or is not seen to be one.
CommandWhole == device = "handling" /\ ~ dirty => payload = sent.data

\* What the Reader gets is the response the handler gave, all of it, and to this
\* command: not the late one to an earlier command.
ResponseWhole ==
    reader = "done" /\ ~ dirty =>
        total = intended /\ \A i \in 1 .. Len(total) : total[i][1] = commands

\* No part is longer than the Le of the message it answers, GET RESPONSE with
\* the number that 61xx said included.
PartsFit ==
    ~ dirty => \A i \in 1 .. Len(toReader) :
                   toReader[i].type = "response" => Len(toReader[i].data) <= asked

\* The Reader does not wait for a response for ever, unless a command was given
\* up on the link because of a busy event, or the device has left it: by an
\* exception of the handler, after an error response that ended the transaction,
\* or because it refused the GET RESPONSE to a command of class 80.
Answered ==
    reader = "waiting" ~>
        \/ reader # "waiting" \/ dirty \/ device \in {"raised", "ended"}
        \/ device = "left" /\ ~ sent.interindustry /\ left # <<>>

-----------------------------------------------------------------------------
(* Why the safety properties hold: an invariant that every step preserves.  *)

Element == Nat \X Nat
Gone    == {"ended", "left", "raised"}
Busies  == [type : {"busy"}, seen : BOOLEAN]
MessagesToDevice == Busies \cup [type : {"command", "get"}, data : Seq(Element),
                                 chained : BOOLEAN, le : 0 .. AnyLength,
                                 interindustry : BOOLEAN]
MessagesToReader == Busies \cup [type : {"response"}, data : Seq(Element),
                                 status : {"MORE", "SUCCESS", "ERROR"}, left : 0 .. MaxValueByte]

TypeOK ==
    /\ reader \in {"idle", "waiting", "done", "failed"}
    /\ device \in {"listening", "chained", "handling", "responding"} \cup Gone
    /\ sent.data \in Seq(Element) /\ sent.le \in 0 .. AnyLength
    /\ sent.interindustry \in BOOLEAN /\ interindustry \in BOOLEAN
    /\ rest \in Seq(Element) /\ total \in Seq(Element) /\ payload \in Seq(Element)
    /\ left \in Seq(Element) /\ intended \in Seq(Element)
    /\ asked \in 0 .. AnyLength /\ length \in 0 .. MaxResponse /\ chunk \in 0 .. MaxResponse
    /\ toDevice \in Seq(MessagesToDevice) /\ toReader \in Seq(MessagesToReader)
    /\ commands \in Nat /\ dirty \in BOOLEAN

\* What counts of a queue are the messages that are no busy events: none, or
\* only m.
Quiet(q)   == \A i \in 1 .. Len(q) : q[i].type = "busy"
Only(q, m) == \E i \in 1 .. Len(q) :
                 /\ q[i] = m /\ m.type # "busy"
                 /\ \A j \in 1 .. Len(q) : j # i => q[j].type = "busy"

Responding == /\ reader = "waiting" /\ rest = <<>>
              /\ \A i \in 1 .. Len(intended) : intended[i][1] = commands

\* Reader and device take turns as long as the device has not left.
NoCommand == /\ reader # "waiting" /\ Quiet(toDevice) /\ Quiet(toReader) /\ device = "listening"

OnItsWay(m) ==
    /\ reader = "waiting" /\ total = <<>> /\ Only(toDevice, m) /\ Quiet(toReader)
    /\ m.type = "command" /\ asked = sent.le /\ m.le = sent.le /\ (m.chained <=> rest # <<>>)
    /\ \/ device = "listening" /\ m.data \o rest = sent.data
       \/ device = "chained" /\ payload \o (m.data \o rest) = sent.data

Acknowledged(m) ==
    /\ reader = "waiting" /\ total = <<>> /\ Quiet(toDevice) /\ Only(toReader, m)
    /\ m.data = <<>>
    /\ rest # <<>> /\ device = "chained" /\ payload \o rest = sent.data

Handled == /\ reader = "waiting" /\ rest = <<>> /\ total = <<>>
           /\ Quiet(toDevice) /\ Quiet(toReader)
           /\ device = "handling" /\ payload = sent.data /\ length <= asked

Answering(m) ==
    /\ Quiet(toDevice) /\ Only(toReader, m) /\ Len(m.data) <= asked
    /\ \/ /\ Responding /\ m.status = "MORE" /\ device = "responding" /\ left # <<>>
          /\ m.left = (IF Len(left) <= MaxValueByte THEN Len(left) ELSE 0)
          /\ total \o (m.data \o left) = intended
       \/ Responding /\ m.status = "SUCCESS" /\ device = "listening" /\ total \o m.data = intended
       \/ reader = "waiting" /\ rest = <<>> /\ m.status = "ERROR" /\ device = "listening"

Fetching(m) ==
    /\ Responding /\ Only(toDevice, m) /\ m.type = "get" /\ Quiet(toReader)
    /\ device = "responding" /\ left # <<>> /\ total \o left = intended
    /\ Len(First(left, chunk)) <= asked

\* Nothing comes from a device that has left any more but what it had said, of
\* which all but the first can only be errors without data.
Stopped ==
    /\ device \in Gone
    /\ \A i \in 1 .. Len(toReader) : toReader[i].type = "response" =>
          /\ Len(toReader[i].data) <= asked
          /\ toReader[i].status = "SUCCESS" => rest # <<>>
          /\ \/ toReader[i].data = <<>> /\ toReader[i].status = "ERROR"
             \/ /\ reader = "waiting"
                /\ \A j \in 1 .. i - 1 : toReader[j].type = "busy"

Completed == reader = "done" =>
                total = intended /\ \A i \in 1 .. Len(intended) : intended[i][1] = commands

InTurn == \/ NoCommand \/ Handled \/ Stopped
          \/ \E m \in MessagesToDevice : OnItsWay(m) \/ Fetching(m)
          \/ \E m \in MessagesToReader : Acknowledged(m) \/ Answering(m)

ChainingInv == TypeOK /\ (~ dirty => Completed /\ InTurn)
=============================================================================
