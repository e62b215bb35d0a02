------------------------------ MODULE MailboxStore ------------------------------
(***************************************************************************)
(* What the mailbox of a User Device promises to a Reader: a request reads  *)
(* what was committed before it, its updates take effect all at once, and   *)
(* those of an atomic session take effect together with the request that    *)
(* closes it, as if each had been applied to a copy as soon as it came.     *)
(***************************************************************************)
EXTENDS Integers, Sequences, FiniteSetsExt

CONSTANTS Size, Byte,
          Requests,  \* [atomic, reads, sets, writes] a Reader may send
          None       \* no request, no answer

VARIABLES store,     \* what is committed
          shadow,    \* the copy an open atomic session works on
          request,   \* the last request that was carried out
          answer     \* what it was answered with

vars == <<store, shadow, request, answer>>

\* A read and an update concern the Len(bytes) or length cells from an offset.
Slice(read) == [i \in 1 .. read.length |-> store[read.offset + i]]

\* The sets of a request, then its writes: a later update of a cell wins.
Updates(r) == [k \in 1 .. Len(r.sets) |->
                  [offset |-> r.sets[k].offset,
                   bytes  |-> [i \in 1 .. r.sets[k].length |-> r.sets[k].value]]]
              \o r.writes
Effect(r) ==
    [i \in 1 .. Size |->
        LET covering == {k \in 1 .. Len(Updates(r)) :
                            /\ i > Updates(r)[k].offset
                            /\ i <= Updates(r)[k].offset + Len(Updates(r)[k].bytes)}
        IN  IF covering = {} THEN shadow[i]
            ELSE LET last == Updates(r)[Max(covering)] IN last.bytes[i - last.offset]]

Init == /\ store \in [1 .. Size -> Byte] /\ shadow = store
        /\ request = None /\ answer = None

\* An atomic request opens or continues a session, any other one commits.
Serve(r) ==
    /\ request' = r
    /\ answer' \in {[k \in 1 .. Len(r.reads) |-> Slice(r.reads[k])], None}
    /\ shadow' = Effect(r)
    /\ store' = IF r.atomic THEN store ELSE Effect(r)

\* Anything else that happens leaves the mailbox and the session alone.
Other == request' = None /\ answer' = None /\ UNCHANGED <<store, shadow>>

Next == Other \/ \E r \in Requests : Serve(r)
Spec == Init /\ [][Next]_vars
=============================================================================
