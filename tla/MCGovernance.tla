---------------------------- MODULE MCGovernance ----------------------------
(***************************************************************************)
(* A small instance of Governance.                                         *)
(***************************************************************************)
EXTENDS Governance

\* Steps that do not divide the ranges they are taken in, and are larger than
\* the bound on one decision.
MCPolicy ==
  [debt_low |-> 1, debt_high |-> 3, pressure_low |-> 1, pressure_high |-> 3,
   criticality_low |-> 1, criticality_high |-> 3,
   cpu_budget_min |-> 1, cpu_budget_max |-> 3,
   cpu_budget_step |-> 2, cpu_budget_max_delta |-> 1,
   temporal_rate_floor |-> 1, temporal_rate_ceiling |-> 5,
   temporal_rate_step |-> 3, temporal_rate_max_delta |-> 2, cooldown |-> 1]

Having(debt, pressure, criticality, health) ==
  [debt |-> debt, pressure |-> pressure, criticality |-> criticality,
   health |-> health]

\* Quiet, idle under pressure, critical with debt, critical on the low threshold of
\* debt, inside every band, and not observed.
MCSituations ==
  {Having(0, 0, 0, "HEALTHY"), Having(0, 3, 1, "HEALTHY"),
   Having(3, 2, 3, "HEALTHY"), Having(1, 1, 3, "HEALTHY"),
   Having(2, 2, 2, "HEALTHY"), Having(3, 3, 0, "STALE")}

Start(role, budget, rate, profile, paused, supported) ==
  [role |-> role, debt |-> 0, pressure |-> 0, criticality |-> 0,
   health |-> "HEALTHY", budget |-> budget, rate |-> rate, profile |-> profile,
   paused |-> paused, supported |-> supported, waited |-> 1]

\* Domains with every control, without a rate, and outside the envelope.
MCDomains ==
  {Start("BACKGROUND", 2, 2, "NORMAL", FALSE, Operations),
   Start("INTERACTIVE", 2, 2, "FORENSIC", FALSE, Operations),
   Start("NORMAL", 4, 7, "CUSTOM", TRUE, Operations),
   Start("BACKGROUND", 0, 0, "FORENSIC", TRUE, Operations \ {"SET_TEMPORAL_RATE"})}

Draft(operation, value) ==
  [kind |-> "draft",
   draft |-> [ours |-> TRUE, operation |-> operation, value |-> value,
              cites |-> {"seen"}]]

\* Drafts that fit and that do not, and every other kind of answer.
MCAnswers ==
  {[kind |-> k] : k \in {"raises", "times_out", "not_json", "malformed", "null",
                           "overflows"}}
  \cup {Draft("SET_TEMPORAL_RATE", Number(n)) : n \in {0, 1, 3, 5}}
  \cup {Draft("SET_CPU_BUDGET_FRACTION", Number(n)) : n \in {1, 2, 4}}
  \cup {Draft("SET_OBSERVATION_PROFILE", Name(x)) : x \in {"MINIMAL", "FOCUSED"}}
  \cup {Draft("SET_TEMPORAL_RATE", Name("NORMAL")), Draft("PAUSE", Flag(TRUE)),
        Draft("RESUME", Flag(TRUE)), Draft("PAUSE", Flag(FALSE)),
        [Draft("PAUSE", Flag(TRUE)) EXCEPT !.draft.ours = FALSE],
        [Draft("PAUSE", Flag(TRUE)) EXCEPT !.draft.cites = {"unknown"}]}
=============================================================================
