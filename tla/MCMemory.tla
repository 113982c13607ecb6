------------------------------ MODULE MCMemory ------------------------------
(* A small session in each of the modes of Memory.                         *)
EXTENDS Memory

MCMaxMessages == [m \in Modes |-> IF m = "exact" THEN 10 ELSE IF m = "serial" THEN 5 ELSE 4]

\* Rows of one second come back in any order, so a clock that stands still
\* leaves nothing out but the seconds that NothingForgotten tells apart.
MCMaxClock == [m \in Modes |-> IF m = "serial" THEN 1 ELSE 0]

\* Lessons are merged by requests that come one at a time.
MCMaxCandidates == [m \in Modes |-> IF m = "overlapping" THEN 0 ELSE 2]

Symmetry == Permutations(Requests)

=============================================================================
