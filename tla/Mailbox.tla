-------------------------------- MODULE Mailbox --------------------------------
(***************************************************************************)
(* The mailbox of the User Device (access_protocol/mailbox.py), the atomic  *)
(* mailbox session (MailboxSession in user_device.py) and what an EXCHANGE  *)
(* command does with them, over any number of sessions with the Reader.     *)
(***************************************************************************)
EXTENDS Integers, Sequences

CONSTANTS
    Size,             \* len(data)
    Byte,             \* the values of a byte, 0 is one
    Reads,            \* read requests [offset, length]
    Sets,             \* set requests [offset, length, value]
    Writes,           \* write requests [offset, bytes]
    None,             \* no request, no answer
    ReadPermission, WritePermission,
    Loop,             \* "main" or "single": what is done with an open session
    MaxRequests,      \* bound of the model on requests of a kind in an EXCHANGE
    MaxCommands       \* bound of the model on the queue of a session

ASSUME MailboxAssumption ==
    /\ Size \in Nat /\ MaxRequests \in Nat /\ 0 \in Byte /\ Loop \in {"main", "single"}
    /\ {ReadPermission, WritePermission} \subseteq BOOLEAN
    /\ \A r \in Reads : r.offset \in Nat /\ r.length \in Nat
    /\ \A s \in Sets : s.offset \in Nat /\ s.length \in Nat /\ s.value \in Byte
    /\ \A w \in Writes : w = [offset |-> w.offset, bytes |-> w.bytes]
                          /\ w.offset \in Nat /\ w.bytes \in Seq(Byte)

VARIABLES
    data, data_set,   \* Mailbox
    started, commands,\* MailboxSession
    phase,            \* of the user session, "none" when there is none
    request, answer   \* what the last step carried out and answered

mailbox == <<data, data_set>>
queue   == <<started, commands>>
vars    == <<mailbox, queue, phase, request, answer>>

\* "expedited" stands for the states in which EXCHANGE is of the expedited
\* phase, "envelope" for ENVELOPE_DONE, "stepup" for STEPUP_EXCHANGE_DONE.
Phases == {"none", "expedited", "envelope", "stepup", "complete"}

UpTo(n, S) == UNION {[1 .. k -> S] : k \in 0 .. n}

\* The mailbox commands of an EXCHANGE.
Requests == [atomic : BOOLEAN, reads : UpTo(MaxRequests, Reads),
             sets : UpTo(MaxRequests, Sets), writes : UpTo(MaxRequests, Writes)]

-----------------------------------------------------------------------------
(* mailbox.py                                                               *)

\* data[offset : offset + len(bytes)] = bytes: a slice that starts or ends
\* behind the end is cut there, and the assignment then makes data longer.
AssignSlice(d, command) ==
    SubSeq(d, 1, command.offset) \o command.bytes
       \o SubSeq(d, command.offset + Len(command.bytes) + 1, Len(d))

\* data[offset : offset + length]
ReadSlice(read) == SubSeq(data, read.offset + 1, read.offset + read.length)

\* Mutant of InBoundaries: the length is forgotten.
OffsetInBoundaries(offset, length) == Len(data) >= offset

\* check_boundaries
InBoundaries(offset, length) == Len(data) >= offset + length

\* Mutant of Filling: value * length instead of the byte repeated.
FillingProduct(set) == [offset |-> set.offset, bytes |-> <<set.value * set.length>>]

\* set: length bytes of one value
Filling(set) == [offset |-> set.offset, bytes |-> [i \in 1 .. set.length |-> set.value]]

\* Mutant of Marked: write and set do not tell that there is data.
MarkedBefore(cs) == data_set

\* Every write and set marks the mailbox.
Marked(cs) == data_set \/ cs # <<>>

\* data_is_set, which the signaling bitmap of AUTH0 reports to the Reader
DataIsSet == data_set /\ \E i \in 1 .. Len(data) : data[i] # 0

-----------------------------------------------------------------------------
(* MailboxSession                                                           *)

\* add_set for the sets of a request, then add_write for its writes
Queued(r) == [k \in 1 .. Len(r.sets) |-> Filling(r.sets[k])] \o r.writes

\* execute_commands
Executed(d, cs) ==
    LET after[k \in 0 .. Len(cs)] == IF k = 0 THEN d ELSE AssignSlice(after[k - 1], cs[k])
    IN  after[Len(cs)]

\* Mutant of Stop: the queue is kept.
StopKeepingCommands(cs) == started' = FALSE /\ commands' = cs

\* stop
Stop(cs) == started' = FALSE /\ commands' = <<>>

-----------------------------------------------------------------------------
Init ==
    /\ data \in [1 .. Size -> Byte]
    /\ data_set = (\E i \in 1 .. Size : data[i] # 0)
    /\ started = FALSE /\ commands = <<>>
    /\ phase = "none" /\ request = None /\ answer = None

Nothing == request' = None /\ answer' = None

\* single_transaction rejects every command but EXCHANGE then.
RejectWhileAtomic == Loop = "single" /\ started

\* Up to the states in which EXCHANGE is accepted.  Over BLE AUTH0 also begins
\* another handshake within the session.
Authenticated ==
    /\ ~ RejectWhileAtomic
    /\ phase' = "expedited"
    /\ Nothing /\ UNCHANGED <<mailbox, queue>>

Envelope ==
    /\ phase \in {"expedited", "envelope"} /\ ~ RejectWhileAtomic
    /\ phase' = "envelope"
    /\ Nothing /\ UNCHANGED <<mailbox, queue>>

\* The session ends, for whatever reason; the mailbox session does not.
EndSession ==
    /\ phase # "none"
    /\ phase' = "none"
    /\ Nothing /\ UNCHANGED <<mailbox, queue>>

\* The permissions and boundaries handle_exchange checks.  The one of the
\* step-up phase is tested after that phase's state has been replaced.
Permitted(r) == /\ r.reads # <<>> => ReadPermission
                /\ r.sets \o r.writes # <<>> => WritePermission
Bounded(r) ==
    /\ \A k \in 1 .. Len(r.reads) : InBoundaries(r.reads[k].offset, r.reads[k].length)
    /\ \A k \in 1 .. Len(r.sets) : InBoundaries(r.sets[k].offset, r.sets[k].length)
    /\ \A k \in 1 .. Len(r.writes) : InBoundaries(r.writes[k].offset, Len(r.writes[k].bytes))

Exchanging == phase \in {"expedited", "envelope", "stepup"}

\* A request that is not permitted, out of boundaries or comes with a bad
\* notification: AccessProtocolError before anything is read or written.
ExchangeRefused ==
    /\ Exchanging
    /\ phase' = "none"
    /\ Nothing /\ UNCHANGED <<mailbox, queue>>

\* What a request does: it reads first.  In a session its updates are queued,
\* and carried out with the request that is not atomic any more; without one
\* they are carried out at once.
Update(r) ==
    LET cs == IF started THEN commands \o Queued(r) ELSE Queued(r) IN
    IF r.atomic
    THEN started' = TRUE /\ commands' = commands \o Queued(r) /\ UNCHANGED mailbox
    ELSE /\ data' = Executed(data, cs) /\ data_set' = Marked(cs)
         /\ IF started THEN Stop(cs) ELSE UNCHANGED queue

\* The answer is sent last; if it cannot be sent the updates are not undone.
Exchange(r) ==
    /\ Exchanging /\ Permitted(r) /\ Bounded(r)
    /\ Len(commands \o Queued(r)) <= MaxCommands
    /\ request' = r
    /\ Update(r)
    /\ \/ /\ phase' \in {IF phase = "expedited" THEN phase ELSE "stepup", "complete"}
          /\ answer' = [k \in 1 .. Len(r.reads) |-> ReadSlice(r.reads[k])]
       \/ phase' = "none" /\ answer' = None

\* An EXCHANGE without mailbox commands
ExchangeWithout ==
    /\ Exchanging
    /\ phase' \in {IF phase = "expedited" THEN phase ELSE "stepup", "complete"}
    /\ Nothing /\ UNCHANGED <<mailbox, queue>>

Next == Authenticated \/ Envelope \/ EndSession \/ ExchangeRefused \/ ExchangeWithout
        \/ \E r \in Requests : Exchange(r)

Spec == Init /\ [][Next]_vars

-----------------------------------------------------------------------------
(* Properties.                                                              *)

Commands == [offset : 0 .. Size, bytes : UpTo(Size, Byte)]

\* Bytes are bytes, and a session that is not open has no commands.
TypeOK ==
    /\ data \in UpTo(2 * Size, Byte) /\ data_set \in BOOLEAN
    /\ started \in BOOLEAN /\ commands \in Seq(Commands)
    /\ started \/ commands = <<>>
    /\ phase \in Phases /\ request \in Requests \cup {None}

\* The mailbox never grows or shrinks: a queued command that was within the
\* boundaries when it came still is when the session is committed, perhaps in
\* another transaction, without a check.
SizeKept == Len(data) = Size

\* The signaling bitmap reports data exactly when there is some, also after
\* sessions whose writes were queued, committed or overwritten with zeros.
SignalsData == DataIsSet <=> \E i \in 1 .. Len(data) : data[i] # 0

\* The queue of raw slice assignments behaves as MailboxStore: all or nothing,
\* reads see what is committed, no command is carried out twice or out of order.
Store == INSTANCE MailboxStore WITH store <- data, shadow <- Executed(data, commands)
ImplementsStore == Store!Spec

\* mailbox.py:69 "current spec does not allow step up mailbox usage": in the
\* step-up phase no request is carried out.
NoStepUpAccess ==
    phase = "stepup" /\ request # None
       => request.reads = <<>> /\ request.sets = <<>> /\ request.writes = <<>>
=============================================================================
