------------------------------ MODULE MCNfcDriver ------------------------------
(* Instances of NfcDriver for TLC; the bounds are in the .cfg files.         *)
EXTENDS NfcDriver
=============================================================================
