--------------------------- MODULE MCAccessProtocol ---------------------------
(* Instances of AccessProtocol for TLC; the constants are in the .cfg files.  *)
EXTENDS AccessProtocol
=============================================================================
