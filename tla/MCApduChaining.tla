----------------------------- MODULE MCApduChaining -----------------------------
(* Instances of ApduChaining for TLC.  Over BLE a command has room for two      *)
(* bytes of data with Le and three without: commands without data, of one piece *)
(* and of two, the latter as long as Lc can say.  Responses without data, of    *)
(* one piece and of two, the first as long as the device may send; with Le 1    *)
(* more is left than the status can say.                                        *)
EXTENDS ApduChaining

MCCommandLengths  == {0, 2, MaxValueByte}
MCResponseLengths == {0, MaxResponse, 2 * MaxResponse}
MCLes             == {0, 1, AnyLength}
=============================================================================
