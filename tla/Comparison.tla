----------------------------- MODULE Comparison -----------------------------
(***************************************************************************)
(* compare_run_dirs, once it has read the runs: a set of runs goes in, a    *)
(* report comes out.  Statistics are abstracted to what they are made of.   *)
(***************************************************************************)
EXTENDS FiniteSets

\* A run as it was read: who it is, what its manifest says of it, its verdict and
\* its numbers.
Reading(run, manifest, correctness, metrics) ==
  [run |-> run, workload |-> manifest.workload, baseline |-> manifest.baseline,
   seed |-> manifest.seed, valid |-> correctness.valid, metrics |-> metrics.values]

Baselines(runs) == {r.baseline : r \in runs}
Of(runs, b)     == {r \in runs : r.baseline = b}
Valid(runs)     == {r \in runs : r.valid}

Bucket(runs, b) ==
  [run_count     |-> Cardinality(Of(runs, b)),
   valid_count   |-> Cardinality(Valid(Of(runs, b))),
   invalid_count |-> Cardinality(Of(runs, b) \ Valid(runs)),
   metrics       |-> {[run |-> r.run, values |-> r.metrics] : r \in Valid(Of(runs, b))}]

\* Seeds of all runs of a baseline, those included that are not valid and have
\* no part in its numbers.
Seeds(runs, b) == {r.seed : r \in Of(runs, b)}

Warnings(runs) ==
  {w \in {"MIXED_WORKLOADS", "BASELINE_SEED_SETS_DIFFER"} :
     \/ /\ w = "MIXED_WORKLOADS"
        /\ \E r, q \in runs : r.workload # q.workload
     \/ /\ w = "BASELINE_SEED_SETS_DIFFER"
        /\ \E b, c \in Baselines(runs) : Seeds(runs, b) # Seeds(runs, c)}

Report(runs) ==
  [valid_run_count          |-> Cardinality(Valid(runs)),
   invalid_run_count        |-> Cardinality(runs \ Valid(runs)),
   comparison_compatible    |-> Warnings(runs) = {},
   compatibility_warnings   |-> Warnings(runs),
   by_baseline              |-> [b \in Baselines(runs) |-> Bucket(runs, b)]]
=============================================================================
