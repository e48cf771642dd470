--------------------------- MODULE MCObservation ----------------------------
(***************************************************************************)
(* A small instance of Observation: two threads, two observers.            *)
(***************************************************************************)
EXTENDS Observation, TLC

CONSTANTS t1, t2, s1, s2, p1, p2

MCThreads == {t1, t2}

MCSources == {s1, s2}
MCProcesses == {p1, p2}

\* The threads are alike, and so are the observers and the processes.
Alike == Permutations(MCThreads) \cup Permutations(MCSources)
         \cup Permutations(MCProcesses)
=============================================================================
