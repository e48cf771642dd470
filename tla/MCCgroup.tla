------------------------------ MODULE MCCgroup ------------------------------
(***************************************************************************)
(* Small instances of CgroupProvider.                                      *)
(***************************************************************************)
EXTENDS CgroupProvider, TLC

CONSTANTS t1, t2, d1, d2, g1, p1

MCThreads == {t1, t2}

\* Two domains whose names _safe_name maps to one.
Collide == d1 :> g1 @@ d2 :> g1

NoArgs == [name \in {} |-> 0]

Budget(args) == [domain |-> d1, action |-> "set_resource_budget", args |-> args]

\* Budgets of several files, the later of which may be missing or
\* malformed, and the freezer.
MCCommands ==
  {Budget("cpu_weight" :> 2 @@ "cpu_period_us" :> 7),
   Budget("cpu_weight" :> 2 @@ "memory_max_bytes" :> 1),
   Budget("cpu_weight" :> 4 @@ "io_max" :> Malformed),
   [domain |-> d1, action |-> "pause", args |-> NoArgs],
   [domain |-> d1, action |-> "resume", args |-> NoArgs]}
=============================================================================
