---------------------------- MODULE MCFrameOrder ----------------------------
(* Bounded instances of FrameOrder. *)
EXTENDS FrameOrder, TLC

CONSTANTS s1, s2

\* Session ids are interchangeable.
Symmetric == Permutations(Sessions)

\* On track in one sector; lap times are 0, so none is recorded.
FailurePackets ==
  [lapNum : LapNums, time : {0}, sector : {0}, pit : {FALSE},
   invalid : {FALSE}, active : {TRUE}]
=============================================================================
