---------------------------- MODULE MCExactCache ----------------------------
(* A small instance of the exact tier. *)
EXTENDS ExactCache

CONSTANTS ten1, ten2, h1, h2, a1, a2
=============================================================================
