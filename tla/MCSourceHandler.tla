-------------------------- MODULE MCSourceHandler --------------------------
(* Bounded instances of SourceHandler. *)
EXTENDS SourceHandler, TLC

CONSTANTS s1, s2

\* Session ids are interchangeable.
Symmetric == Permutations(Sessions)

\* Lap data for the lap and sector life cycle: the first and the last sector
\* on track, the first in the pit lane (an entry does not look at the sector);
\* lap times are 0, so none is recorded.
LifecyclePackets ==
  {p \in [lapNum : LapNums, time : {0}, sector : {0, 2}, pit : BOOLEAN,
          invalid : {FALSE}, active : {TRUE}] : p.pit => p.sector = 0}
=============================================================================
