------------------------------- MODULE MCMailbox -------------------------------
(* An instance of Mailbox for TLC: requests that overlap, fill all of the      *)
(* mailbox, end at its last byte or go beyond it.                              *)
EXTENDS Mailbox

MCReads  == {[offset |-> 0, length |-> 2], [offset |-> 1, length |-> 2]}
MCSets   == {[offset |-> 0, length |-> 2, value |-> 0], [offset |-> 0, length |-> 2, value |-> 2],
             [offset |-> 1, length |-> 2, value |-> 1]}
MCWrites == {[offset |-> 0, bytes |-> <<1, 0>>], [offset |-> 1, bytes |-> <<2>>],
             [offset |-> 2, bytes |-> <<2>>]}
=============================================================================
