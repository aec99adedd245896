----------------------------- MODULE MCScheduler -----------------------------
(***************************************************************************)
(* Instances of Scheduler for TLC.                                         *)
(***************************************************************************)
EXTENDS Scheduler

CONSTANTS p1, p2, p3

ThreeProcs == {p1, p2, p3}

\* Two levels; 0 and 3 are clamped into 1..2.
AllPriorities == {0, 1, 3}
TwoPriorities == {1, 2}

\* With one lock and one event: -1 and 1 name nothing, 0 names both, and 8 is
\* 0 again in an 8-valued word.  As a sleep, 8 is a counter of 0.
SafetyArgs   == {-1, 0, 1, 2, 8}
LivenessArgs == {0, 2, 8}

Symmetric == Permutations(Proc)
=============================================================================
