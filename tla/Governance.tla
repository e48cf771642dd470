----------------------------- MODULE Governance -----------------------------
(***************************************************************************)
(* A domain governed in cycles, by the rules alone or by the AI adapter     *)
(* over them.  A cycle takes a summary of the domain, decides on it, in    *)
(* the adapter after a call of the model that may never return, and its    *)
(* proposal is carried out or not; meanwhile the domain goes on.           *)
(***************************************************************************)
EXTENDS AIPolicy

CONSTANTS
  Domains,          \* what the domain may be at the start
  Situations,       \* debt, pressure, criticality and health it may get into
  Nothing

ASSUME DomainsAssumption == \A d \in Domains : d \in SummaryType
ASSUME SituationsAssumption ==
  \A s \in Situations : /\ s.debt \in Nat /\ s.pressure \in Nat /\ s.criticality \in Nat
                        /\ s.health \in {"HEALTHY", "STALE", "ERROR"}

VARIABLES
  governor,         \* who decides: "RULE" or "AI"
  domain,           \* the domain, as the next summary will show it
  cycle             \* what the cycle under way is doing

vars == <<governor, domain, cycle>>

NoCycle == [at |-> "idle", summary |-> Nothing, decision |-> Nothing]

Decided(decision) ==
  cycle' = [NoCycle EXCEPT !.at = "decided", !.decision = decision]

-----------------------------------------------------------------------------
(* The cycle.                                                              *)

\* The rule governor decides at once.
Govern ==
  /\ cycle.at = "idle" /\ governor = "RULE"
  /\ Decided(Decision("RULE", RuleDecide(domain)))
  /\ UNCHANGED <<governor, domain>>

\* Variant: the adapter leaves the cooldown to the rules.
BlockedStale(s) == s.health # "HEALTHY"

\* No model is asked about a domain that is not well observed or was changed a short
\* time ago, and the rules are not asked instead.
Blocked(s) == s.health # "HEALTHY" \/ Cooling(s)

\* The adapter starts a worker that calls the model.
Ask ==
  /\ cycle.at = "idle" /\ governor = "AI"
  /\ \/ /\ Blocked(domain)
        /\ Decided(Decision("BLOCKED", {}))
     \/ /\ ~Blocked(domain)
        /\ cycle' = [NoCycle EXCEPT !.at = "waiting", !.summary = domain]
  /\ UNCHANGED <<governor, domain>>

Answered ==
  /\ cycle.at = "waiting"
  /\ \E a \in Answers : a.kind # "overflows" /\ Decided(Judged(cycle.summary, a))
  /\ UNCHANGED <<governor, domain>>

\* The exception leaves decide: the cycle ends without the rules having decided.
Escapes ==
  /\ cycle.at = "waiting"
  /\ \E a \in Answers : a.kind = "overflows"
  /\ cycle' = NoCycle
  /\ UNCHANGED <<governor, domain>>

\* Variant: a call that times out is taken for a model that abstains.
TimesOutAbstaining ==
  /\ cycle.at = "waiting"
  /\ Decided(Decision("TIMEOUT", {}))
  /\ UNCHANGED <<governor, domain>>

\* What the worker of this cycle says later goes into a queue nobody reads.
TimesOut ==
  /\ cycle.at = "waiting"
  /\ Decided(Fallback(cycle.summary, "TIMEOUT"))
  /\ UNCHANGED <<governor, domain>>

\* The domain after proposal p.
Changed(p) ==
  [domain EXCEPT
     !.rate    = IF p.operation = "SET_TEMPORAL_RATE" THEN p.value.number ELSE @,
     !.budget  = IF p.operation = "SET_CPU_BUDGET_FRACTION" THEN p.value.number ELSE @,
     !.profile = IF p.operation = "SET_OBSERVATION_PROFILE" THEN p.value.name ELSE @,
     !.paused  = IF p.operation \in {"PAUSE", "RESUME"} THEN p.operation = "PAUSE" ELSE @,
     !.waited  = 0]

\* The proposal is dispatched and takes effect.
Adopt ==
  /\ cycle.at = "decided"
  /\ \E p \in cycle.decision.proposals : domain' = Changed(p)
  /\ cycle' = NoCycle
  /\ UNCHANGED governor

\* It is refused, or fails.
Discard ==
  /\ cycle.at = "decided" /\ cycle.decision.proposals # {}
  /\ cycle' = NoCycle
  /\ UNCHANGED <<governor, domain>>

Pass ==
  /\ cycle.at = "decided" /\ cycle.decision.proposals = {}
  /\ cycle' = NoCycle
  /\ UNCHANGED <<governor, domain>>

-----------------------------------------------------------------------------
(* The domain and the clock.                                               *)

Move ==
  /\ \E s \in Situations :
       domain' = [domain EXCEPT !.debt = s.debt, !.pressure = s.pressure,
                                !.criticality = s.criticality, !.health = s.health]
  /\ UNCHANGED <<governor, cycle>>

Wait ==
  /\ domain.waited < Policy.cooldown
  /\ domain' = [domain EXCEPT !.waited = @ + 1]
  /\ UNCHANGED <<governor, cycle>>

-----------------------------------------------------------------------------
Init ==
  /\ governor \in {"RULE", "AI"}
  /\ domain \in Domains
  /\ cycle = NoCycle

Cycle ==
  Govern \/ Ask \/ Answered \/ Escapes \/ TimesOut \/ Adopt \/ Discard \/ Pass

Next == Cycle \/ Move \/ Wait

\* Time passes, and whoever runs the cycles goes on running them; a call of the model
\* ends by its timeout.
Fairness == WF_vars(Cycle) /\ WF_vars(Wait)

Spec == Init /\ [][Next]_vars /\ Fairness

-----------------------------------------------------------------------------
(* What governing in cycles achieves and never does.                       *)

Statuses == {"RULE", "OK", "ABSTAIN", "BLOCKED", "TIMEOUT", "INVALID_OUTPUT",
             "REJECTED", "ERROR"}

\* Every variable holds what the code can put there; a decision has at most one
\* proposal, and has it from the AI exactly when it is OK.
TypeOK ==
  /\ governor \in {"RULE", "AI"}
  /\ domain \in SummaryType
  /\ cycle.at \in {"idle", "waiting", "decided"}
  /\ cycle.summary \in SummaryType \cup {Nothing}
  /\ cycle.at = "decided" =>
       LET d == cycle.decision
       IN  /\ d.status \in Statuses
           /\ \A p, q \in d.proposals : p = q
           /\ \A p \in d.proposals : p.operation \in domain.supported
           /\ d.status = "OK" <=> \E p \in d.proposals : p.source = "AI"

\* A number moves by at most max_delta, and never out of the interval, or farther out.
Bounded(old, new, low, high, max_delta) ==
  /\ new - old <= max_delta /\ old - new <= max_delta
  /\ new > high => new <= old
  /\ new < low => new >= old

\* No cycle, whoever decided it and however long it took, moves rate or budget of
\* the domain by more than the bound on one decision or away from the envelope of the policy.
EnvelopeKept ==
  [][/\ Bounded(domain.rate, domain'.rate, Policy.temporal_rate_floor,
                Policy.temporal_rate_ceiling, Policy.temporal_rate_max_delta)
     /\ Bounded(domain.budget, domain'.budget, Policy.cpu_budget_min,
                Policy.cpu_budget_max, Policy.cpu_budget_max_delta)]_vars

\* No sequence of decisions, of the model and of the rules in turn, brings an
\* interactive domain below its normal speed.
InteractiveKeepsPace == domain.role = "INTERACTIVE" => domain.rate >= One

\* Two changes are at least the cooldown apart.
ChangesSpaced == [][Adopt => ~Cooling(domain)]_vars

\* From some time on the rules decide, since they always do or since the model is
\* silent, and what they propose is carried out.
Speaks   == cycle.at = "waiting" /\ cycle'.at # "waiting"
              /\ (cycle'.at = "decided" => cycle'.decision.status # "TIMEOUT")
Refused  == cycle.at = "decided" /\ cycle'.at = "idle" /\ domain' = domain
              /\ cycle.decision.proposals # {}
RulesDecide == <>[][~Speaks /\ ~Refused]_vars

Situation == <<domain.debt, domain.pressure, domain.criticality, domain.health>>
Controls  == <<domain.rate, domain.budget, domain.profile, domain.paused>>

\* When the situation stays as it is and the rules decide, the governor comes to
\* rest: no rule undoes what another did, in any situation.
Settles ==
  RulesDecide /\ <>[][UNCHANGED Situation]_vars => <>[][UNCHANGED Controls]_vars

\* A critical domain with a high debt that lasts is not left paused, and goes as fast as
\* the policy allows if it can, even when the model never answers.
Distressed ==
  /\ Critical(domain) /\ domain.health = "HEALTHY"
  /\ "RESUME" \in domain.supported

Helped ==
  /\ ~domain.paused
  /\ "SET_TEMPORAL_RATE" \in domain.supported =>
       domain.rate >= Policy.temporal_rate_ceiling

DebtIsFought == RulesDecide /\ <>[]Distressed => <>[]Helped

\* A rate that was raised comes back to 1.0 when the domain is quiet for long.
RateUnwinds ==
  RulesDecide
  /\ <>[](/\ Quiet(domain) /\ domain.health = "HEALTHY" /\ ~domain.paused
          /\ "SET_TEMPORAL_RATE" \in domain.supported)
  => <>[](domain.rate <= Greatest(One, Policy.temporal_rate_floor))
=============================================================================
