-------------------------- MODULE MCObjectTransfer --------------------------
(* Small instances of ObjectTransfer for TLC.                              *)
EXTENDS ObjectTransfer

CONSTANTS m1, m2, s1   \* two contents of the manifest, a snapshot

=============================================================================
