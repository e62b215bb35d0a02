---------------------------- MODULE MCUserDevice ----------------------------
(* Instances of UserDevice for TLC; the constants are in the .cfg files.     *)
EXTENDS UserDevice, TLC

\* Readers are interchangeable.
ReaderSymmetry == Permutations(Readers)
=============================================================================
