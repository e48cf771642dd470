---------------------------- MODULE RuleGovernor ----------------------------
(***************************************************************************)
(* The rule governor: a summary of a domain goes in, at most one proposal   *)
(* comes out.  Quantities are whole numbers of a unit of each kind.        *)
(***************************************************************************)
EXTENDS Integers

CONSTANTS
  Policy,           \* a RulePolicy
  One               \* the logical rate 1.0

Operations == {"SET_TEMPORAL_RATE", "SET_CPU_BUDGET_FRACTION",
               "SET_OBSERVATION_PROFILE", "PAUSE", "RESUME"}
Roles == {"INTERACTIVE", "NORMAL", "BACKGROUND"}
Profiles == {"MINIMAL", "NORMAL", "FOCUSED", "FORENSIC", "CUSTOM"}

IsPolicy(p) ==
  /\ \A name \in {"debt_low", "debt_high", "pressure_low", "pressure_high",
                  "criticality_low", "criticality_high", "cpu_budget_min",
                  "cpu_budget_max", "temporal_rate_floor",
                  "temporal_rate_ceiling", "cooldown"} : p[name] \in Nat
  /\ \A name \in {"cpu_budget_step", "cpu_budget_max_delta",
                  "temporal_rate_step", "temporal_rate_max_delta"} :
       p[name] \in Nat \ {0}
  /\ p.debt_low < p.debt_high
  /\ p.pressure_low < p.pressure_high
  /\ p.criticality_low < p.criticality_high
  /\ p.cpu_budget_min <= p.cpu_budget_max
  /\ p.temporal_rate_floor <= p.temporal_rate_ceiling

ASSUME PolicyAssumption == IsPolicy(Policy)
ASSUME OneAssumption == One \in Nat \ {0}

\* A GovernanceSummary.  supported are the operations its flags allow; waited is
\* the time since the last change, the cooldown when that is past or there was
\* none.
SummaryType ==
  [role : Roles, debt : Nat, pressure : Nat, criticality : Nat,
   health : {"HEALTHY", "STALE", "ERROR"}, budget : Nat, rate : Nat,
   profile : Profiles, paused : BOOLEAN, supported : SUBSET Operations,
   waited : 0..Policy.cooldown]

\* Values of the three types a proposal can have.
Number(n) == [number |-> n]
Name(x)   == [name |-> x]
Flag(b)   == [flag |-> b]

-----------------------------------------------------------------------------
Cooling(s) == s.waited < Policy.cooldown

Least(a, b)    == IF a < b THEN a ELSE b
Greatest(a, b) == IF a > b THEN a ELSE b

\* Variant: the bound on one decision is forgotten.
IncreaseByStep(value, step, max_delta, ceiling) == Least(ceiling, value + step)

Increase(value, step, max_delta, ceiling) ==
  Least(ceiling, value + Least(step, max_delta))

\* Variant: a step that would go below the floor is not taken.
DecreaseWhole(value, step, max_delta, floor) ==
  LET delta == Least(step, max_delta)
  IN  IF value - delta >= floor THEN value - delta ELSE value

Decrease(value, step, max_delta, floor) ==
  Greatest(floor, value - Least(step, max_delta))

MoreBudget(s) == Increase(s.budget, Policy.cpu_budget_step,
                          Policy.cpu_budget_max_delta, Policy.cpu_budget_max)
LessBudget(s) == Decrease(s.budget, Policy.cpu_budget_step,
                          Policy.cpu_budget_max_delta, Policy.cpu_budget_min)
FasterRate(s) == Increase(s.rate, Policy.temporal_rate_step,
                          Policy.temporal_rate_max_delta,
                          Policy.temporal_rate_ceiling)

\* Variant: unwinding goes down to the floor of the policy.
SlowerRateToFloor(s) == Decrease(s.rate, Policy.temporal_rate_step,
                                 Policy.temporal_rate_max_delta,
                                 Policy.temporal_rate_floor)

\* Unwinding stops at 1.0.
SlowerRate(s) == Decrease(s.rate, Policy.temporal_rate_step,
                          Policy.temporal_rate_max_delta,
                          Greatest(One, Policy.temporal_rate_floor))

\* Variant: debt is high from the low threshold on.
HighDebtFromLow(s) == s.debt >= Policy.debt_low

HighDebt(s) == s.debt >= Policy.debt_high
LowDebt(s)  == s.debt <= Policy.debt_low
Critical(s) == HighDebt(s) /\ s.criticality >= Policy.criticality_high
Quiet(s)    == LowDebt(s) /\ s.pressure <= Policy.pressure_low

Idle(s) == s.role = "BACKGROUND" /\ s.criticality <= Policy.criticality_low
Relief(s) == Idle(s) /\ s.pressure >= Policy.pressure_high

Rule(when, operation, value) ==
  [when |-> when, operation |-> operation, value |-> value]

PausedRules(s) == <<Rule(Critical(s), "RESUME", Flag(TRUE))>>

\* In the order the code tries them.
RunningRules(s) ==
  <<Rule(Relief(s) /\ LessBudget(s) < s.budget,
         "SET_CPU_BUDGET_FRACTION", Number(LessBudget(s))),
    Rule(Relief(s), "PAUSE", Flag(TRUE)),
    Rule(Critical(s) /\ FasterRate(s) > s.rate,
         "SET_TEMPORAL_RATE", Number(FasterRate(s))),
    Rule(Critical(s) /\ MoreBudget(s) > s.budget,
         "SET_CPU_BUDGET_FRACTION", Number(MoreBudget(s))),
    Rule(Critical(s) /\ s.profile \in {"MINIMAL", "NORMAL"},
         "SET_OBSERVATION_PROFILE", Name("FOCUSED")),
    Rule(Quiet(s) /\ s.rate > One /\ SlowerRate(s) < s.rate,
         "SET_TEMPORAL_RATE", Number(SlowerRate(s))),
    Rule(Idle(s) /\ Quiet(s) /\ s.profile # "MINIMAL",
         "SET_OBSERVATION_PROFILE", Name("MINIMAL"))>>

Rules(s) == IF s.paused THEN PausedRules(s) ELSE RunningRules(s)

\* Variant: what the domain supports is not looked at.
FittingUnsupported(s) == {i \in DOMAIN Rules(s) : Rules(s)[i].when}

Fitting(s) ==
  {i \in DOMAIN Rules(s) : Rules(s)[i].when /\ Rules(s)[i].operation \in s.supported}

Proposal(operation, value, source) ==
  [operation |-> operation, value |-> value, source |-> source]

\* decide: the proposal of the first rule that fits, none when the domain is not
\* well observed or was changed a short time ago.
RuleDecide(s) ==
  IF s.health # "HEALTHY" \/ Cooling(s) THEN {}
  ELSE {Proposal(Rules(s)[i].operation, Rules(s)[i].value, "RULE") :
          i \in {j \in Fitting(s) : \A k \in Fitting(s) : j <= k}}
=============================================================================
