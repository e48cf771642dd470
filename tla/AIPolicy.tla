------------------------------ MODULE AIPolicy ------------------------------
(***************************************************************************)
(* The AI policy adapter's judgement of what the model answers: a draft is  *)
(* taken, or the rule governor decides instead.                            *)
(***************************************************************************)
EXTENDS RuleGovernor

CONSTANTS
  Evidence,         \* references the summary carries
  Answers           \* what the model may answer, see IsAnswer

IsNumber(v) == DOMAIN v = {"number"}
IsName(v)   == DOMAIN v = {"name"}

\* A draft names its target, an operation, a value of any JSON type and evidence.
IsDraft(d) ==
  /\ d.ours \in BOOLEAN            \* its target is the governed domain
  /\ d.operation \in Operations
  /\ \/ IsNumber(d.value) /\ d.value.number \in Nat
     \/ IsName(d.value)
     \/ d.value \in {Flag(TRUE), Flag(FALSE)}
  /\ d.cites \subseteq Evidence \cup {"unknown"}

\* One that overflows nests too deep for json.loads or is a number that is no float:
\* decide catches neither RecursionError nor OverflowError.
IsAnswer(a) ==
  \/ a.kind \in {"raises", "times_out", "not_json", "malformed", "null", "overflows"}
  \/ a.kind = "draft" /\ IsDraft(a.draft)

ASSUME AnswersAssumption == \A a \in Answers : IsAnswer(a)

-----------------------------------------------------------------------------
AllowedOperations(s) ==
  {op \in s.supported :
     /\ op \in {"SET_TEMPORAL_RATE", "PAUSE"} => ~s.paused
     /\ op = "RESUME" => s.paused}

\* _canonicalize_evidence.
Cited(cites) == cites \subseteq Evidence /\ (Evidence # {} => cites # {})

\* A number the policy allows next to the current one, and not the same.
Within(n, current, low, high, max_delta) ==
  /\ low <= n /\ n <= high
  /\ n - current <= max_delta /\ current - n <= max_delta
  /\ n # current

Rank == [MINIMAL |-> 0, NORMAL |-> 1, FOCUSED |-> 2, FORENSIC |-> 3]

\* Resolution may go up, and down only for quiet background work.
ProfileOK(s, profile) ==
  /\ profile \in DOMAIN Rank /\ s.profile \in DOMAIN Rank
  /\ Rank[profile] < Rank[s.profile] => s.profile # "FORENSIC" /\ Idle(s) /\ Quiet(s)
  /\ profile # s.profile

ValueOK(s, operation, v) ==
  \/ /\ operation = "SET_TEMPORAL_RATE" /\ IsNumber(v)
     /\ Within(v.number, s.rate, Policy.temporal_rate_floor,
               Policy.temporal_rate_ceiling, Policy.temporal_rate_max_delta)
     /\ s.role = "INTERACTIVE" => v.number >= One
  \/ /\ operation = "SET_CPU_BUDGET_FRACTION" /\ IsNumber(v)
     /\ Within(v.number, s.budget, Policy.cpu_budget_min, Policy.cpu_budget_max,
               Policy.cpu_budget_max_delta)
  \/ /\ operation = "SET_OBSERVATION_PROFILE" /\ IsName(v)
     /\ ProfileOK(s, v.name)
  \/ operation = "PAUSE" /\ v = Flag(TRUE) /\ Idle(s)
  \/ operation = "RESUME" /\ v = Flag(TRUE)

\* _validate_and_materialize.
Acceptable(s, d) ==
  /\ d.ours
  /\ d.operation \in AllowedOperations(s)
  /\ Cited(d.cites)
  /\ ValueOK(s, d.operation, d.value)

Decision(status, proposals) == [status |-> status, proposals |-> proposals]

Fallback(s, status) == Decision(status, RuleDecide(s))

\* decide, once the model has answered with what does not overflow: a string that is no
\* JSON or a value that is no object is INVALID_OUTPUT, an object of another shape is
\* REJECTED. A model may raise TimeoutError itself.
Judged(s, a) ==
  CASE a.kind = "raises"    -> Fallback(s, "ERROR")
    [] a.kind = "times_out" -> Fallback(s, "TIMEOUT")
    [] a.kind = "not_json"  -> Fallback(s, "INVALID_OUTPUT")
    [] a.kind = "malformed" -> Fallback(s, "REJECTED")
    [] a.kind = "null"      -> Decision("ABSTAIN", {})
    [] a.kind = "draft"     ->
         IF Acceptable(s, a.draft)
         THEN Decision("OK", {Proposal(a.draft.operation, a.draft.value, "AI")})
         ELSE Fallback(s, "REJECTED")
=============================================================================
