----------------------------- MODULE MCProgress -----------------------------
(* Small instances of Progress for TLC. *)
EXTENDS Progress, TLC

CONSTANTS r1, r2

TwoThreads == {r1, r2}

=============================================================================
