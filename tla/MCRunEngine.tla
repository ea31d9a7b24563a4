----------------------------- MODULE MCRunEngine -----------------------------
(* Small instances of RunEngine for TLC.                                   *)
EXTENDS RunEngine

CONSTANTS b1, f1, o1   \* a batch, a Reference, an oversized case

=============================================================================
