------------------------------- MODULE MCReader -------------------------------
(* Instances of Reader for TLC.                                              *)
EXTENDS Reader, TLC

Configured(transport, mode, handling, fast, cert, timer) ==
    [transport |-> transport, mode |-> mode, handling |-> handling,
     fast |-> fast, cert |-> cert, timer |-> timer]

\* Both transports as in the examples, the modes, and a Reader without fast
\* transactions and certificate.
MCConfigurations ==
    {Configured("NFC", "READER", "ABORT", TRUE, TRUE, FALSE),
     Configured("BLE", "READER", "CONTINUE", TRUE, TRUE, TRUE),
     Configured("NFC", "TEST", "CONTINUE", FALSE, FALSE, FALSE)}

\* The credentials whose key slot is not registered are interchangeable.
MCSymmetry == Permutations(Credentials \ Registered)
=============================================================================
