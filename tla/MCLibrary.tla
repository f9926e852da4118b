------------------------------ MODULE MCLibrary ------------------------------
(* One session, in which two drivers drive a lap each. *)
EXTENDS Library

CONSTANT s1

MCKeys == {<<s1, 1, 1>>, <<s1, 2, 1>>}
=============================================================================
