------------------------------- MODULE MCJob -------------------------------
(***************************************************************************)
(* A small instance of JobProvider.                                        *)
(***************************************************************************)
EXTENDS JobProvider, TLC

CONSTANTS t1, t2, d1, d2, p1, h1, h2

MCThreads == {t1, t2}
MCHandles == {h1, h2}

NoArgs == [f \in {} |-> 0]

Budget(d, args) == [domain |-> d, action |-> "set_resource_budget", args |-> args]

\* A share half-way between two units, with a byte and a half; an amount of memory
\* that wraps; a share above the bounds, as a text brings it, which is refused; a
\* pause; in the other domain an inspect with arguments that nobody looks at.
MCCommands ==
  {Budget(d1, "cpu_fraction" :> 5 @@ "job_memory_bytes" :> 3),
   Budget(d1, "job_memory_bytes" :> 11),
   Budget(d1, "cpu_fraction" :> 11),
   [domain |-> d1, action |-> "pause", args |-> NoArgs],
   [domain |-> d2, action |-> "inspect", args |-> "cpu_fraction" :> 8]}

Interchangeable == Permutations(MCThreads) \cup Permutations(MCHandles)
=============================================================================
