----------------------------- MODULE MCListener -----------------------------
(* One source, two workers and two handlers one after the other. *)
EXTENDS Listener

CONSTANTS a1, h1, h2, w1, w2
=============================================================================
