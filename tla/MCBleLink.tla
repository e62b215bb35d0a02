------------------------------ MODULE MCBleLink ------------------------------
(* Instances of BleLink for TLC; the constants are here and in the .cfg file. *)
EXTENDS BleLink

\* Two messages from the User Device, so that one can overtake the other or be
\* lost before it, and one from the Reader, so that data crosses.
MCMaxSends == [s \in Side |-> IF s = "device" THEN 2 ELSE 1]
=============================================================================
