--------------------------- MODULE BaselinePolicy ---------------------------
(***************************************************************************)
(* The policy a run of the benchmark is executed under: the summary of a    *)
(* workload goes to the governor of the baseline, and what it proposes, if  *)
(* anything, becomes the settings of the run.  Budgets, rates, pressure and *)
(* criticality are hundredths.                                             *)
(***************************************************************************)
EXTENDS AIPolicy

ASSUME HundredthsAssumption == One = 100

\* RulePolicy(), which the command line and the gates use.
DefaultPolicy ==
  [debt_low |-> 1, debt_high |-> 5, pressure_low |-> 35, pressure_high |-> 80,
   criticality_low |-> 30, criticality_high |-> 70,
   cpu_budget_min |-> 10, cpu_budget_max |-> 100,
   cpu_budget_step |-> 10, cpu_budget_max_delta |-> 10,
   temporal_rate_floor |-> 25, temporal_rate_ceiling |-> 400,
   temporal_rate_step |-> 50, temporal_rate_max_delta |-> 50, cooldown |-> 5]

ASSUME DefaultAssumption == Policy = DefaultPolicy

Workloads == {"A_ANCHORED", "B_ELASTIC_CPU", "C_EVENT_SPARSE", "D_CAUSAL_DAG",
              "E_MIXED"}

\* Workloads with logical time of their own, with a budget of CPU, with a graph.
Timed    == {"C_EVENT_SPARSE", "E_MIXED"}
Budgeted == {"B_ELASTIC_CPU", "D_CAUSAL_DAG", "E_MIXED"}
Causal   == {"D_CAUSAL_DAG", "E_MIXED"}

Measured ==
  [A_ANCHORED     |-> [debt |-> 0, pressure |-> 20, criticality |-> 80],
   B_ELASTIC_CPU  |-> [debt |-> 8, pressure |-> 75, criticality |-> 90],
   C_EVENT_SPARSE |-> [debt |-> 8, pressure |-> 30, criticality |-> 90],
   D_CAUSAL_DAG   |-> [debt |-> 7, pressure |-> 80, criticality |-> 95],
   E_MIXED        |-> [debt |-> 8, pressure |-> 85, criticality |-> 95]]

\* Well observed and never changed, so that the adapter always asks the model.
Summary(w) ==
  [role |-> IF w \in {"A_ANCHORED", "B_ELASTIC_CPU"} THEN "INTERACTIVE" ELSE "NORMAL",
   debt |-> Measured[w].debt, pressure |-> Measured[w].pressure,
   criticality |-> Measured[w].criticality, health |-> "HEALTHY",
   budget |-> 50, rate |-> One, profile |-> "NORMAL", paused |-> FALSE,
   supported |-> {op \in Operations :
                    \/ op = "SET_TEMPORAL_RATE" /\ w \in Timed
                    \/ op = "SET_CPU_BUDGET_FRACTION" /\ w \in Budgeted},
   waited |-> Policy.cooldown]

Drafted(operation, n) ==
  [kind |-> "draft",
   draft |-> [ours |-> TRUE, operation |-> operation, value |-> Number(n),
              cites |-> Evidence]]

Null == [kind |-> "null"]

\* Variant: the bound on one decision is forgotten.
FixtureUnbounded(s) ==
  IF "SET_TEMPORAL_RATE" \in AllowedOperations(s)
    THEN Drafted("SET_TEMPORAL_RATE", Policy.temporal_rate_ceiling)
  ELSE IF "SET_CPU_BUDGET_FRACTION" \in AllowedOperations(s)
    THEN Drafted("SET_CPU_BUDGET_FRACTION", Policy.cpu_budget_max)
  ELSE Null

\* _default_ai_model: as much as one decision may change.
Fixture(s) ==
  IF "SET_TEMPORAL_RATE" \in AllowedOperations(s)
    THEN Drafted("SET_TEMPORAL_RATE",
                 Least(Policy.temporal_rate_ceiling,
                       s.rate + Policy.temporal_rate_max_delta))
  ELSE IF "SET_CPU_BUDGET_FRACTION" \in AllowedOperations(s)
    THEN Drafted("SET_CPU_BUDGET_FRACTION",
                 Least(Policy.cpu_budget_max, s.budget + Policy.cpu_budget_max_delta))
  ELSE Null

\* Nothing came from the model within the time limit.
Silence == [kind |-> "silent"]

\* Variant: the rules are not asked in place of a model that is silent.
HeardOnly(s, reply) ==
  IF reply = Silence THEN Decision("TIMEOUT", {}) ELSE Judged(s, reply)

Heard(s, reply) ==
  IF reply = Silence THEN Fallback(s, "TIMEOUT") ELSE Judged(s, reply)

-----------------------------------------------------------------------------
\* A policy that governs nothing.
Plain(source) ==
  [source |-> source, status |-> "none", proposals |-> {}, fixed |-> {},
   temporal |-> FALSE, topology |-> FALSE]

\* Without a proposal the source is the one that was asked first, even when another
\* one decided.
Governed(w, asked, decision) ==
  [Plain(asked) EXCEPT
     !.source = IF decision.proposals = {} THEN asked
                ELSE (CHOOSE p \in decision.proposals : TRUE).source,
     !.status = decision.status, !.proposals = decision.proposals,
     !.temporal = w \in Timed, !.topology = w \in Causal]

\* _resolve_policy, of a workload and a baseline and what the model replies.
Resolved(w, b, reply) ==
  CASE b = "B0_NATIVE" -> Plain("NATIVE")
    [] b = "B1_FIXED"  -> [Plain("FIXED") EXCEPT
                             !.fixed = IF w \in {"B_ELASTIC_CPU", "E_MIXED"} THEN {60} ELSE {}]
    [] b = "B2_RULE"   -> Governed(w, "RULE", Decision("none", RuleDecide(Summary(w))))
    [] b = "B3_AI"     -> Governed(w, "AI", Heard(Summary(w), reply))

Budgets(p) ==
  {q.value.number : q \in {r \in p.proposals : r.operation = "SET_CPU_BUDGET_FRACTION"}}

\* _cpu_budget.
Budget(p) ==
  CHOOSE n \in IF Budgets(p) # {} THEN Budgets(p)
               ELSE IF p.fixed # {} THEN p.fixed ELSE {50} : TRUE

\* What of a policy a workload reacts to: a proposed rate is not among it.
Settings(p) ==
  [budget |-> Budget(p), temporal |-> p.temporal, topology |-> p.topology]
=============================================================================
