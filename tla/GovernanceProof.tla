--------------------------- MODULE GovernanceProof ---------------------------
(***************************************************************************)
(* For every policy, every domain and every model: what is proposed, by the *)
(* rules or by the model, keeps to the bounds of the policy, and still does *)
(* when it is carried out.                                                 *)
(***************************************************************************)
EXTENDS Governance, TLAPS

-----------------------------------------------------------------------------
(* What a proposal may be for a domain, or a summary of it, s.              *)

\* It asks for an operation the domain supports and for a value within bounds.
Fits(s, p) ==
  /\ p.operation \in Operations /\ p.operation \in s.supported
  /\ p.operation = "SET_TEMPORAL_RATE" =>
       /\ p.value.number \in Nat
       /\ Bounded(s.rate, p.value.number, Policy.temporal_rate_floor,
                  Policy.temporal_rate_ceiling, Policy.temporal_rate_max_delta)
       /\ s.role = "INTERACTIVE" /\ s.rate >= One => p.value.number >= One
  /\ p.operation = "SET_CPU_BUDGET_FRACTION" =>
       /\ p.value.number \in Nat
       /\ Bounded(s.budget, p.value.number, Policy.cpu_budget_min,
                  Policy.cpu_budget_max, Policy.cpu_budget_max_delta)
  /\ p.operation = "SET_OBSERVATION_PROFILE" => p.value.name \in Profiles

\* Two summaries that agree on what a governor may change, and on what it may not
\* read to judge a value: the situation in between may be another.
SameControls(s, d) ==
  /\ s.role = d.role /\ s.rate = d.rate /\ s.budget = d.budget
  /\ s.profile = d.profile /\ s.paused = d.paused /\ s.supported = d.supported

\* A decision says at most one thing, and the AI says it exactly when it is OK.
Sane(d) ==
  /\ d.status \in Statuses
  /\ \A p, q \in d.proposals : p = q
  /\ d.status = "OK" <=> \E p \in d.proposals : p.source = "AI"

WaitingOK ==
  cycle.at = "waiting" =>
    /\ cycle.summary \in SummaryType /\ SameControls(cycle.summary, domain)
    /\ ~Cooling(domain)

DecidedOK ==
  cycle.at = "decided" =>
    /\ Sane(cycle.decision)
    /\ \A p \in cycle.decision.proposals : Fits(domain, p) /\ ~Cooling(domain)

Inductive ==
  /\ governor \in {"RULE", "AI"} /\ domain \in SummaryType
  /\ cycle.at \in {"idle", "waiting", "decided"}
  /\ cycle.summary \in SummaryType \cup {Nothing}
  /\ WaitingOK /\ DecidedOK

-----------------------------------------------------------------------------
(* The rules and the adapter.                                              *)

\* The figures of the policy and of a summary are naturals.
LEMMA Figures ==
  ASSUME NEW s \in SummaryType
  PROVE  /\ s.rate \in Nat /\ s.budget \in Nat /\ One \in Nat \ {0}
         /\ Policy.cpu_budget_min \in Nat /\ Policy.cpu_budget_max \in Nat
         /\ Policy.cpu_budget_min <= Policy.cpu_budget_max
         /\ Policy.temporal_rate_floor \in Nat /\ Policy.temporal_rate_ceiling \in Nat
         /\ Policy.temporal_rate_floor <= Policy.temporal_rate_ceiling
         /\ Policy.cpu_budget_step \in Nat \ {0} /\ Policy.cpu_budget_max_delta \in Nat \ {0}
         /\ Policy.temporal_rate_step \in Nat \ {0}
         /\ Policy.temporal_rate_max_delta \in Nat \ {0}
  BY PolicyAssumption, OneAssumption DEF IsPolicy, SummaryType

\* Increase and Decrease move a figure by a step, or by the bound on one decision if
\* that is less, towards a limit and not past it.
LEMMA Moves ==
  ASSUME NEW v \in Nat, NEW step \in Nat \ {0}, NEW delta \in Nat \ {0}, NEW limit \in Nat
  PROVE  /\ Increase(v, step, delta, limit) > v =>
              /\ Increase(v, step, delta, limit) \in Nat
              /\ Increase(v, step, delta, limit) <= limit
              /\ Increase(v, step, delta, limit) - v <= delta
         /\ Decrease(v, step, delta, limit) < v =>
              /\ Decrease(v, step, delta, limit) \in Nat
              /\ Decrease(v, step, delta, limit) >= limit
              /\ v - Decrease(v, step, delta, limit) <= delta
  BY DEF Increase, Decrease, Least, Greatest

\* The number a rule proposes lies in the bounds.
LEMMA RuleNumbers ==
  ASSUME NEW s \in SummaryType
  PROVE  /\ \A n \in {LessBudget(s), MoreBudget(s)} :
              (n = LessBudget(s) /\ n < s.budget) \/ (n = MoreBudget(s) /\ n > s.budget) =>
                n \in Nat /\ Bounded(s.budget, n, Policy.cpu_budget_min,
                                     Policy.cpu_budget_max, Policy.cpu_budget_max_delta)
         /\ \A n \in {FasterRate(s), SlowerRate(s)} :
              (n = FasterRate(s) /\ n > s.rate) \/ (n = SlowerRate(s) /\ n < s.rate) =>
                /\ n \in Nat
                /\ Bounded(s.rate, n, Policy.temporal_rate_floor,
                           Policy.temporal_rate_ceiling, Policy.temporal_rate_max_delta)
                /\ s.rate >= One => n >= One
  <1>1. LessBudget(s) < s.budget =>
          /\ LessBudget(s) \in Nat
          /\ LessBudget(s) >= Policy.cpu_budget_min
          /\ s.budget - LessBudget(s) <= Policy.cpu_budget_max_delta
    BY Figures, Moves DEF LessBudget
  <1>2. MoreBudget(s) > s.budget =>
          /\ MoreBudget(s) \in Nat
          /\ MoreBudget(s) <= Policy.cpu_budget_max
          /\ MoreBudget(s) - s.budget <= Policy.cpu_budget_max_delta
    BY Figures, Moves DEF MoreBudget
  <1>3. FasterRate(s) > s.rate =>
          /\ FasterRate(s) \in Nat
          /\ FasterRate(s) <= Policy.temporal_rate_ceiling
          /\ FasterRate(s) - s.rate <= Policy.temporal_rate_max_delta
    BY Figures, Moves DEF FasterRate
  <1>4. SlowerRate(s) < s.rate =>
          /\ SlowerRate(s) \in Nat
          /\ SlowerRate(s) >= Greatest(One, Policy.temporal_rate_floor)
          /\ s.rate - SlowerRate(s) <= Policy.temporal_rate_max_delta
    <2>1. Greatest(One, Policy.temporal_rate_floor) \in Nat
      BY Figures DEF Greatest
    <2> QED BY <2>1, Figures, Moves DEF SlowerRate
  <1>5. SlowerRate(s) < s.rate =>
          SlowerRate(s) >= One /\ SlowerRate(s) >= Policy.temporal_rate_floor
    BY <1>4, Figures DEF Greatest
  <1> QED BY <1>1, <1>2, <1>3, <1>4, <1>5, Figures DEF Bounded

\* What holds of a rule that applies.
LEMMA RuleParts ==
  ASSUME NEW w, NEW o, NEW v
  PROVE  /\ Rule(w, o, v).when => w
         /\ Rule(w, o, v).operation = o /\ Rule(w, o, v).value = v
  <1>1. Rule(w, o, v).when => w
    BY Zenon DEF Rule
  <1>2. Rule(w, o, v).operation = o /\ Rule(w, o, v).value = v
    BY SMT DEF Rule
  <1> QED BY <1>1, <1>2

\* The rules that propose a number.
LEMMA NumberRules ==
  ASSUME NEW s
  PROVE  /\ RunningRules(s)[1] = Rule(Relief(s) /\ LessBudget(s) < s.budget,
                                      "SET_CPU_BUDGET_FRACTION", Number(LessBudget(s)))
         /\ RunningRules(s)[3] = Rule(Critical(s) /\ FasterRate(s) > s.rate,
                                      "SET_TEMPORAL_RATE", Number(FasterRate(s)))
         /\ RunningRules(s)[4] = Rule(Critical(s) /\ MoreBudget(s) > s.budget,
                                      "SET_CPU_BUDGET_FRACTION", Number(MoreBudget(s)))
         /\ RunningRules(s)[6] = Rule(Quiet(s) /\ s.rate > One /\ SlowerRate(s) < s.rate,
                                      "SET_TEMPORAL_RATE", Number(SlowerRate(s)))
  BY SMT DEF RunningRules

\* Every rule proposes what fits, if its condition holds and the domain supports it.
LEMMA RulesFit ==
  ASSUME NEW s \in SummaryType, NEW i \in Fitting(s), NEW source
  PROVE  Fits(s, Proposal(Rules(s)[i].operation, Rules(s)[i].value, source))
  <1> DEFINE p == Proposal(Rules(s)[i].operation, Rules(s)[i].value, source)
  <1>1. p.operation = Rules(s)[i].operation /\ p.value = Rules(s)[i].value
    BY DEF Proposal
  <1>2. /\ i \in DOMAIN Rules(s) /\ Rules(s)[i].when
        /\ Rules(s)[i].operation \in s.supported
    BY DEF Fitting
  <1>3. s.supported \subseteq Operations
    BY DEF SummaryType
  <1> HIDE DEF p
  <1>4. CASE s.paused
    <2>1. i = 1 /\ Rules(s)[i].operation = "RESUME"
      BY <1>2, <1>4 DEF Rules, PausedRules, Rule
    <2> QED BY <1>1, <1>2, <1>3, <2>1 DEF Fits, p
  <1>5. CASE ~s.paused
    <2>1. Rules(s) = RunningRules(s)
      BY <1>5 DEF Rules
    <2>2. i \in 1..7
      BY <1>2, <2>1 DEF RunningRules
    <2>3. CASE i = 1
      <3>1. Rules(s)[i] = Rule(Relief(s) /\ LessBudget(s) < s.budget,
                               "SET_CPU_BUDGET_FRACTION", Number(LessBudget(s)))
        BY <2>1, <2>3, NumberRules
      <3>2. LessBudget(s) < s.budget
        BY <1>2, <3>1, RuleParts, ZenonT(60)
      <3>3. p.operation = "SET_CPU_BUDGET_FRACTION" /\ p.value.number = LessBudget(s)
        BY <1>1, <3>1, RuleParts DEF Number
      <3> QED BY <1>1, <1>2, <1>3, <3>2, <3>3, RuleNumbers DEF Fits, p
    <2>4. CASE i = 2
      <3>1. p.operation = "PAUSE"
        BY <1>1, <1>2, <2>1, <2>4 DEF RunningRules, Rule
      <3> QED BY <1>1, <1>2, <1>3, <3>1 DEF Fits, p
    <2>5. CASE i = 3
      <3>1. Rules(s)[i] = Rule(Critical(s) /\ FasterRate(s) > s.rate,
                               "SET_TEMPORAL_RATE", Number(FasterRate(s)))
        BY <2>1, <2>5, NumberRules
      <3>2. FasterRate(s) > s.rate
        BY <1>2, <3>1, RuleParts, ZenonT(60)
      <3>3. p.operation = "SET_TEMPORAL_RATE" /\ p.value.number = FasterRate(s)
        BY <1>1, <3>1, RuleParts DEF Number
      <3> QED BY <1>1, <1>2, <1>3, <3>2, <3>3, RuleNumbers DEF Fits, p
    <2>6. CASE i = 4
      <3>1. Rules(s)[i] = Rule(Critical(s) /\ MoreBudget(s) > s.budget,
                               "SET_CPU_BUDGET_FRACTION", Number(MoreBudget(s)))
        BY <2>1, <2>6, NumberRules
      <3>2. MoreBudget(s) > s.budget
        BY <1>2, <3>1, RuleParts, ZenonT(60)
      <3>3. p.operation = "SET_CPU_BUDGET_FRACTION" /\ p.value.number = MoreBudget(s)
        BY <1>1, <3>1, RuleParts DEF Number
      <3> QED BY <1>1, <1>2, <1>3, <3>2, <3>3, RuleNumbers DEF Fits, p
    <2>7. CASE i \in {5, 7}
      <3>1. p.operation = "SET_OBSERVATION_PROFILE" /\ p.value.name \in {"FOCUSED", "MINIMAL"}
        BY <1>1, <1>2, <2>1, <2>7 DEF RunningRules, Rule, Name
      <3> QED BY <1>1, <1>2, <1>3, <3>1 DEF Fits, p, Profiles
    <2>8. CASE i = 6
      <3>1. Rules(s)[i] = Rule(Quiet(s) /\ s.rate > One /\ SlowerRate(s) < s.rate,
                               "SET_TEMPORAL_RATE", Number(SlowerRate(s)))
        BY <2>1, <2>8, NumberRules
      <3>2. SlowerRate(s) < s.rate
        BY <1>2, <3>1, RuleParts, ZenonT(60)
      <3>3. p.operation = "SET_TEMPORAL_RATE" /\ p.value.number = SlowerRate(s)
        BY <1>1, <3>1, RuleParts DEF Number
      <3> QED BY <1>1, <1>2, <1>3, <3>2, <3>3, RuleNumbers DEF Fits, p
    <2> QED BY <2>2, <2>3, <2>4, <2>5, <2>6, <2>7, <2>8
  <1> QED BY <1>4, <1>5 DEF p

\* The rules propose what fits, at most once, and only when no change is recent.
LEMMA RuleProposals ==
  ASSUME NEW s \in SummaryType
  PROVE  /\ \A p, q \in RuleDecide(s) : p = q
         /\ \A p \in RuleDecide(s) : Fits(s, p) /\ p.source = "RULE" /\ ~Cooling(s)
  <1> DEFINE First == {j \in Fitting(s) : \A k \in Fitting(s) : j <= k}
             Of(i) == Proposal(Rules(s)[i].operation, Rules(s)[i].value, "RULE")
  <1>1. CASE s.health # "HEALTHY" \/ Cooling(s)
    BY <1>1 DEF RuleDecide
  <1>2. CASE ~(s.health # "HEALTHY" \/ Cooling(s))
    <2>1. RuleDecide(s) = {Of(i) : i \in First}
      BY <1>2 DEF RuleDecide
    <2>2. Fitting(s) \subseteq Nat
      BY DEF Fitting, Rules, PausedRules, RunningRules
    <2>3. \A i, j \in First : i = j
      BY <2>2
    <2>4. \A i \in First : Fits(s, Of(i)) /\ Of(i).source = "RULE"
      BY RulesFit DEF Proposal
    <2> HIDE DEF First, Of
    <2> QED BY <1>2, <2>1, <2>3, <2>4
  <1> QED BY <1>1, <1>2

\* What the model proposes fits, once the adapter has accepted it.
LEMMA DraftsFit ==
  ASSUME NEW s \in SummaryType, NEW d, IsDraft(d), Acceptable(s, d)
  PROVE  Fits(s, Proposal(d.operation, d.value, "AI"))
  <1> DEFINE p == Proposal(d.operation, d.value, "AI")
  <1>1. p.operation = d.operation /\ p.value = d.value
    BY DEF Proposal
  <1>2. d.operation \in s.supported /\ d.operation \in Operations
    BY DEF Acceptable, AllowedOperations, IsDraft
  <1>3. ValueOK(s, d.operation, d.value)
    BY DEF Acceptable
  <1>4. IsNumber(d.value) => d.value.number \in Nat
    BY DEF IsDraft, IsNumber, IsName, Flag
  <1>5. d.operation = "SET_TEMPORAL_RATE" =>
          /\ d.value.number \in Nat
          /\ Bounded(s.rate, d.value.number, Policy.temporal_rate_floor,
                     Policy.temporal_rate_ceiling, Policy.temporal_rate_max_delta)
          /\ s.role = "INTERACTIVE" /\ s.rate >= One => d.value.number >= One
    BY <1>3, <1>4, Figures DEF ValueOK, Within, Bounded
  <1>6. d.operation = "SET_CPU_BUDGET_FRACTION" =>
          /\ d.value.number \in Nat
          /\ Bounded(s.budget, d.value.number, Policy.cpu_budget_min,
                     Policy.cpu_budget_max, Policy.cpu_budget_max_delta)
    BY <1>3, <1>4, Figures DEF ValueOK, Within, Bounded
  <1>7. d.operation = "SET_OBSERVATION_PROFILE" => d.value.name \in Profiles
    BY <1>3 DEF ValueOK, ProfileOK, Rank, Profiles
  <1> HIDE DEF p
  <1> QED BY <1>1, <1>2, <1>5, <1>6, <1>7 DEF Fits, p

\* A decision of the rules, under any status but OK, is sane and what it says fits.
LEMMA FallbackFits ==
  ASSUME NEW s \in SummaryType, NEW status \in Statuses \ {"OK"}
  PROVE  /\ Sane(Decision(status, RuleDecide(s)))
         /\ \A p \in Decision(status, RuleDecide(s)).proposals :
              Fits(s, p) /\ ~Cooling(s)
  <1>1. /\ Decision(status, RuleDecide(s)).status = status
        /\ Decision(status, RuleDecide(s)).proposals = RuleDecide(s)
    BY DEF Decision
  <1> QED BY <1>1, RuleProposals DEF Sane

\* So is what the adapter makes of any answer that does not overflow.
LEMMA JudgedFits ==
  ASSUME NEW s \in SummaryType, NEW a \in Answers, a.kind # "overflows"
  PROVE  /\ Sane(Judged(s, a))
         /\ \A p \in Judged(s, a).proposals : Fits(s, p)
  <1>1. IsAnswer(a)
    BY AnswersAssumption
  <1>2. CASE a.kind \in {"raises", "times_out"}
    BY <1>2, FallbackFits DEF Judged, Fallback, Statuses
  <1>3. CASE a.kind = "not_json"
    BY <1>3, FallbackFits DEF Judged, Fallback, Statuses
  <1>4. CASE a.kind = "malformed"
    BY <1>4, FallbackFits DEF Judged, Fallback, Statuses
  <1>5. CASE a.kind = "null"
    BY <1>5 DEF Judged, Decision, Sane, Statuses
  <1>6. CASE a.kind = "draft" /\ ~Acceptable(s, a.draft)
    BY <1>6, FallbackFits DEF Judged, Fallback, Statuses
  <1>7. CASE a.kind = "draft" /\ Acceptable(s, a.draft)
    <2> DEFINE p == Proposal(a.draft.operation, a.draft.value, "AI")
    <2>1. Judged(s, a) = Decision("OK", {p})
      BY <1>7 DEF Judged
    <2>2. Fits(s, p)
      BY <1>1, <1>7, DraftsFit DEF IsAnswer
    <2>3. p.source = "AI"
      BY DEF Proposal
    <2> HIDE DEF p
    <2> QED BY <2>1, <2>2, <2>3 DEF Decision, Sane, Statuses
  <1> QED BY <1>1, <1>2, <1>3, <1>4, <1>5, <1>6, <1>7 DEF IsAnswer

\* What fits a summary fits the domain, as long as nobody governed it since.
LEMMA StillFits ==
  ASSUME NEW s, NEW d, NEW p, SameControls(s, d), Fits(s, p)
  PROVE  Fits(d, p)
  BY DEF SameControls, Fits

\* A domain that a fitting proposal is carried out on stays one, in bounds.
LEMMA ChangedFits ==
  ASSUME domain \in SummaryType, NEW p, Fits(domain, p)
  PROVE  /\ Changed(p) \in SummaryType
         /\ Changed(p).role = domain.role
         /\ Bounded(domain.rate, Changed(p).rate, Policy.temporal_rate_floor,
                    Policy.temporal_rate_ceiling, Policy.temporal_rate_max_delta)
         /\ Bounded(domain.budget, Changed(p).budget, Policy.cpu_budget_min,
                    Policy.cpu_budget_max, Policy.cpu_budget_max_delta)
         /\ domain.role = "INTERACTIVE" /\ domain.rate >= One => Changed(p).rate >= One
  <1>1. /\ Changed(p).rate = IF p.operation = "SET_TEMPORAL_RATE"
                               THEN p.value.number ELSE domain.rate
        /\ Changed(p).budget = IF p.operation = "SET_CPU_BUDGET_FRACTION"
                                 THEN p.value.number ELSE domain.budget
        /\ Changed(p).role = domain.role
    BY DEF Changed, SummaryType
  <1>2. Policy.cooldown \in Nat
    BY PolicyAssumption DEF IsPolicy
  <1>3. Changed(p) \in SummaryType
    <2>1. /\ Changed(p).rate \in Nat /\ Changed(p).budget \in Nat
          /\ Changed(p).profile \in Profiles /\ Changed(p).paused \in BOOLEAN
      <3>1. Changed(p).rate \in Nat /\ Changed(p).budget \in Nat
        BY <1>1 DEF Fits, SummaryType
      <3>2. Changed(p).profile \in Profiles
        BY DEF Changed, Fits, SummaryType
      <3>3. Changed(p).paused \in BOOLEAN
        BY DEF Changed, SummaryType
      <3> QED BY <3>1, <3>2, <3>3
    <2>2. /\ Changed(p).waited = 0
          /\ Changed(p) = [domain EXCEPT !.rate = Changed(p).rate,
                            !.budget = Changed(p).budget, !.profile = Changed(p).profile,
                            !.paused = Changed(p).paused, !.waited = Changed(p).waited]
      BY DEF Changed, SummaryType
    <2>3. \A r, b \in Nat, f \in Profiles, h \in BOOLEAN, w \in 0..Policy.cooldown :
            [domain EXCEPT !.rate = r, !.budget = b, !.profile = f, !.paused = h,
                           !.waited = w] \in SummaryType
      BY DEF SummaryType
    <2>4. Changed(p).waited \in 0..Policy.cooldown
      BY <1>2, <2>2
    <2>5. [domain EXCEPT !.rate = Changed(p).rate, !.budget = Changed(p).budget,
                         !.profile = Changed(p).profile, !.paused = Changed(p).paused,
                         !.waited = Changed(p).waited] \in SummaryType
      BY <2>1, <2>3, <2>4, Zenon
    <2> QED BY <2>2, <2>5, Zenon
  <1>4. \A v \in Nat, low, high \in Nat, delta \in Nat : Bounded(v, v, low, high, delta)
    BY DEF Bounded
  <1> QED BY <1>1, <1>3, <1>4, Figures DEF Fits

-----------------------------------------------------------------------------
(* The invariant.                                                          *)

\* It holds at the start.
LEMMA Starts == Init => Inductive
  BY DomainsAssumption DEF Init, Inductive, NoCycle, WaitingOK, DecidedOK

\* What is decided at once, about the domain as it is.
LEMMA DecidesWell ==
  ASSUME Inductive, NEW d, Decided(d), UNCHANGED <<governor, domain>>, Sane(d),
         \A p \in d.proposals : Fits(domain, p) /\ ~Cooling(domain)
  PROVE  Inductive'
  <1>1. cycle'.at = "decided" /\ cycle'.decision = d /\ cycle'.summary = Nothing
    BY DEF Decided, NoCycle
  <1> QED BY <1>1 DEF Inductive, WaitingOK, DecidedOK, Cooling, Fits

\* Every step keeps it.
LEMMA Keeps ==
  ASSUME Inductive, [Next]_vars
  PROVE  Inductive'
  <1> USE DEF Inductive
  <1>0. SameControls(domain, domain) /\ Policy.cooldown \in Nat
    BY PolicyAssumption DEF SameControls, IsPolicy
  <1>1. CASE Govern
    <2>1. "RULE" \in Statuses \ {"OK"}
      BY DEF Statuses
    <2> QED BY <1>1, <2>1, FallbackFits, DecidesWell DEF Govern
  <1>2. CASE Ask
    <2>1. CASE Decided(Decision("BLOCKED", {}))
      <3>1. Sane(Decision("BLOCKED", {})) /\ Decision("BLOCKED", {}).proposals = {}
        BY DEF Sane, Decision, Statuses
      <3> QED BY <1>2, <2>1, <3>1, DecidesWell DEF Ask
    <2>2. CASE /\ ~Blocked(domain)
               /\ cycle' = [NoCycle EXCEPT !.at = "waiting", !.summary = domain]
      <3>1. cycle'.at = "waiting" /\ cycle'.summary = domain
        BY <2>2 DEF NoCycle
      <3>2. ~Cooling(domain) /\ UNCHANGED <<governor, domain>>
        BY <1>2, <2>2 DEF Ask, Blocked
      <3> QED BY <1>0, <3>1, <3>2 DEF WaitingOK, DecidedOK, Cooling, SameControls
    <2> QED BY <1>2, <2>1, <2>2 DEF Ask
  <1>3. CASE Answered
    <2>1. PICK a \in Answers : a.kind # "overflows" /\ Decided(Judged(cycle.summary, a))
      BY <1>3 DEF Answered
    <2>2. /\ cycle.summary \in SummaryType /\ SameControls(cycle.summary, domain)
          /\ ~Cooling(domain) /\ UNCHANGED <<governor, domain>>
      BY <1>3 DEF Answered, WaitingOK
    <2>3. /\ Sane(Judged(cycle.summary, a))
          /\ \A p \in Judged(cycle.summary, a).proposals : Fits(domain, p)
      BY <2>1, <2>2, JudgedFits, StillFits
    <2> QED BY <2>1, <2>2, <2>3, DecidesWell
  <1>4. CASE TimesOut
    <2>1. /\ cycle.summary \in SummaryType /\ SameControls(cycle.summary, domain)
          /\ ~Cooling(domain) /\ UNCHANGED <<governor, domain>>
      BY <1>4 DEF TimesOut, WaitingOK
    <2>2. "TIMEOUT" \in Statuses \ {"OK"}
      BY DEF Statuses
    <2>3. /\ Sane(Fallback(cycle.summary, "TIMEOUT"))
          /\ \A p \in Fallback(cycle.summary, "TIMEOUT").proposals : Fits(domain, p)
      BY <2>1, <2>2, FallbackFits, StillFits DEF Fallback
    <2> QED BY <1>4, <2>1, <2>3, DecidesWell DEF TimesOut
  <1>5. CASE Adopt
    <2>1. PICK p \in cycle.decision.proposals : domain' = Changed(p)
      BY <1>5 DEF Adopt
    <2>2. Fits(domain, p)
      BY <1>5 DEF Adopt, DecidedOK
    <2>3. cycle'.at = "idle" /\ cycle'.summary = Nothing /\ UNCHANGED governor
      BY <1>5 DEF Adopt, NoCycle
    <2> QED BY <2>1, <2>2, <2>3, ChangedFits DEF WaitingOK, DecidedOK
  <1>6. CASE Discard \/ Pass \/ Escapes
    BY <1>6 DEF Discard, Pass, Escapes, NoCycle, WaitingOK, DecidedOK
  <1>7. CASE Move \/ Wait
    <2>1. /\ domain' \in SummaryType /\ SameControls(domain, domain')
          /\ domain'.waited = domain.waited \/ Cooling(domain)
      <3>1. CASE Move
        <4>1. PICK s \in Situations :
                domain' = [domain EXCEPT !.debt = s.debt, !.pressure = s.pressure,
                                         !.criticality = s.criticality, !.health = s.health]
          BY <3>1 DEF Move
        <4> QED BY <4>1, SituationsAssumption DEF SummaryType, SameControls
      <3>2. CASE Wait
        BY <1>0, <3>2 DEF Wait, SummaryType, SameControls, Cooling
      <3> QED BY <1>7, <3>1, <3>2
    <2>2. UNCHANGED <<governor, cycle>>
      BY <1>7 DEF Move, Wait
    <2>3. WaitingOK'
      BY <2>1, <2>2 DEF WaitingOK, SameControls, Cooling
    <2>4. DecidedOK'
      <3> SUFFICES ASSUME cycle.at = "decided"
                   PROVE  /\ Sane(cycle.decision)
                          /\ \A p \in cycle.decision.proposals :
                               Fits(domain', p) /\ ~Cooling(domain')
        BY <2>2 DEF DecidedOK, Cooling, Fits, Sane
      <3> QED BY <2>1, StillFits DEF DecidedOK, Cooling
    <2> QED BY <2>1, <2>2, <2>3, <2>4
  <1>8. CASE UNCHANGED vars
    BY <1>8 DEF vars, WaitingOK, DecidedOK, SameControls, Cooling, Fits, Sane
  <1> QED BY <1>1, <1>2, <1>3, <1>4, <1>5, <1>6, <1>7, <1>8 DEF Next, Cycle

\* The invariant holds throughout.
LEMMA Invariance == Spec => []Inductive
  <1>1. Inductive /\ [Next]_vars => Inductive'
    BY Keeps
  <1> QED BY Starts, <1>1, PTL DEF Spec

-----------------------------------------------------------------------------
(* What follows.                                                           *)

\* A step that changes a control of the domain carries out a proposal that fits it,
\* and no other step changes its rate, its budget or its role.
LEMMA ChangesFit ==
  ASSUME Inductive, [Next]_vars
  PROVE  \/ /\ Adopt /\ ~Cooling(domain)
            /\ \E p : Fits(domain, p) /\ domain' = Changed(p)
         \/ /\ ~Adopt
            /\ domain'.rate = domain.rate /\ domain'.budget = domain.budget
            /\ domain'.role = domain.role
  <1>1. CASE Adopt
    BY <1>1 DEF Adopt, Inductive, DecidedOK
  <1>2. CASE ~Adopt
    <2>1. CASE Cycle
      BY <1>2, <2>1 DEF Cycle, Govern, Ask, Answered, Escapes, TimesOut, Discard, Pass
    <2>2. CASE Move
      BY <1>2, <2>2 DEF Move, Inductive, SummaryType
    <2>3. CASE Wait
      BY <1>2, <2>3 DEF Wait, Inductive, SummaryType
    <2> QED BY <1>2, <2>1, <2>2, <2>3 DEF Next, vars
  <1> QED BY <1>1, <1>2

\* Every variable holds what the code can put there: a decision has at most one
\* proposal, for an operation the domain supports, and from the AI exactly when it is OK.
THEOREM TypeCorrect == Spec => []TypeOK
  <1>1. Inductive => TypeOK
    BY DEF Inductive, TypeOK, DecidedOK, Sane, Fits
  <1> QED BY <1>1, Invariance, PTL

\* No cycle, of the rules or of the adapter, moves a number of the domain by more than
\* the bound of the policy on one decision, or away from its envelope.
THEOREM EnvelopeIsKept == Spec => EnvelopeKept
  <1>1. Inductive /\ [Next]_vars =>
          [/\ Bounded(domain.rate, domain'.rate, Policy.temporal_rate_floor,
                      Policy.temporal_rate_ceiling, Policy.temporal_rate_max_delta)
           /\ Bounded(domain.budget, domain'.budget, Policy.cpu_budget_min,
                      Policy.cpu_budget_max, Policy.cpu_budget_max_delta)]_vars
    <2> SUFFICES ASSUME Inductive, [Next]_vars
                 PROVE  /\ Bounded(domain.rate, domain'.rate, Policy.temporal_rate_floor,
                                   Policy.temporal_rate_ceiling,
                                   Policy.temporal_rate_max_delta)
                        /\ Bounded(domain.budget, domain'.budget, Policy.cpu_budget_min,
                                   Policy.cpu_budget_max, Policy.cpu_budget_max_delta)
      OBVIOUS
    <2>1. domain \in SummaryType
      BY DEF Inductive
    <2>2. CASE \E p : Fits(domain, p) /\ domain' = Changed(p)
      BY <2>1, <2>2, ChangedFits
    <2>3. CASE domain'.rate = domain.rate /\ domain'.budget = domain.budget
      BY <2>1, <2>3, Figures DEF Bounded
    <2> QED BY <2>2, <2>3, ChangesFit
  <1> QED BY <1>1, Invariance, PTL DEF Spec, EnvelopeKept

\* Two changes that are carried out are at least the cooldown apart, also when the
\* model was asked before, and answered after, the situation changed.
THEOREM ChangesAreSpaced == Spec => ChangesSpaced
  <1>1. Inductive /\ [Next]_vars => [Adopt => ~Cooling(domain)]_vars
    BY ChangesFit
  <1> QED BY <1>1, Invariance, PTL DEF Spec, ChangesSpaced

\* An interactive domain that starts at its normal speed or above it stays there.
THEOREM PaceIsKept == Spec /\ InteractiveKeepsPace => []InteractiveKeepsPace
  <1>1. InteractiveKeepsPace /\ Inductive /\ [Next]_vars => InteractiveKeepsPace'
    <2> SUFFICES ASSUME InteractiveKeepsPace, Inductive, [Next]_vars
                 PROVE  InteractiveKeepsPace'
      OBVIOUS
    <2>1. domain \in SummaryType
      BY DEF Inductive
    <2>2. CASE \E p : Fits(domain, p) /\ domain' = Changed(p)
      BY <2>1, <2>2, ChangedFits DEF InteractiveKeepsPace
    <2>3. CASE domain'.rate = domain.rate /\ domain'.role = domain.role
      BY <2>3 DEF InteractiveKeepsPace
    <2> QED BY <2>2, <2>3, ChangesFit
  <1> QED BY <1>1, Invariance, PTL DEF Spec
=============================================================================
