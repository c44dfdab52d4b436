----------------------------- MODULE MCEditor -----------------------------
(* A small instance of Editor for TLC. *)
EXTENDS Editor

CONSTANTS w1, w2, d1, d2, d3, p1, p2

Windows == {w1, w2}
\* One for each window, and one that a window is about to show.
Documents == {d1, d2, d3}
Paths == {p1, p2}
=============================================================================
