--------------------------- MODULE BenchmarkProof ---------------------------
(***************************************************************************)
(* For any number of users, runs and faults: what a command tells its user  *)
(* is backed by the disk and by what was run, and a comparison counts only  *)
(* what passed.                                                            *)
(***************************************************************************)
EXTENDS Benchmark, FiniteSetTheorems, SequenceTheorems, TLAPS

Members(s) == {s[i] : i \in DOMAIN s}

-----------------------------------------------------------------------------
(* Who uses a run, and what is known of one.                               *)

Writing(u) == job[u].at \in {"open", "fill"}

\* Nobody writes the run; nobody is about to run its workload.
Unwritten(r) == \A u \in Users : ~(Writing(u) /\ Run(u) = r)
Launched(r)  == \A u \in Users : Writing(u) /\ Run(u) = r => job[u].phase # "launch"

\* A verdict that is found in the run, or numbers that are, now or earlier.
Justified(r, verdict) == verdict.valid => outcome[r] # Nothing /\ Passes(outcome[r])
Numbered(r, numbers) ==
  \/ r \in upset /\ numbers.values = Nothing
  \/ outcome[r] # Nothing /\ numbers.values = Settings(outcome[r].policy)
  \/ outcome[r] = Nothing /\ Launched(r)

DirOK(r) == dir[r] # Nothing =>
  /\ dir[r] = [workload |-> dir[r].workload, baseline |-> dir[r].baseline,
               seed |-> dir[r].seed, files |-> [f \in Artifacts |-> File(r, f)]]
  /\ dir[r].workload \in Workloads /\ dir[r].baseline \in AnyBaseline
  /\ dir[r].seed \in Nat
  /\ \A f \in Artifacts : File(r, f) \in FileType(f) \cup {Missing, Torn}
  /\ Legible(r, "correctness") => Justified(r, File(r, "correctness"))
  /\ Legible(r, "metrics") => Numbered(r, File(r, "metrics"))

OutcomeOK(r) == outcome[r] # Nothing => dir[r] # Nothing /\ FellBack(r)

-----------------------------------------------------------------------------
(* What a process knows.                                                   *)

Gates(u) == job[u].at # "idle" /\ Command(u).kind = "gate"

\* Its state has the shape it should have.
ShapeOK(u) ==
  LET j == job[u]
  IN  /\ j = [at |-> j.at, command |-> j.command, todo |-> j.todo, run |-> j.run,
              phase |-> j.phase, left |-> j.left, records |-> j.records,
              unread |-> j.unread, part |-> j.part, read |-> j.read,
              passed |-> j.passed, report |-> j.report, exit |-> j.exit]
      /\ j.at \in Labels /\ j.exit \in Exits
      /\ j.todo \in Seq(AnyBaseline) /\ j.left \in Seq(Artifacts)
      /\ j.records \subseteq [run : RunIds, valid : BOOLEAN]
      /\ j.passed \subseteq 1..EarlierGates + 1
      /\ j.command \in IF j.at = "idle" THEN {Nothing} ELSE Commands[u]
      /\ j.phase \in IF Writing(u) THEN {"launch", "close", "handle"} ELSE {"none"}
      /\ j.at = "fill" => j.left # <<>>
      /\ j.at \notin {"choose", "read"} => j.read = {}
      /\ j.at \in {"gate", "examine", "publish"} => Gates(u)
      /\ j.at \in {"mkdir", "open", "fill"} => Command(u).kind # "compare"
      /\ j.at \in {"choose", "read"} => Command(u).kind \in {"gate", "compare"}
      /\ j.exit # "none" => j.at = "ended"
      /\ j.exit = "3" => Gates(u)

\* The run it fills is its own, and what it wrote is in the files.
WritingOK(u) == Writing(u) =>
  /\ Run(u) \in RunIds /\ dir[Run(u)] # Nothing
  /\ dir[Run(u)].workload = Command(u).workload /\ dir[Run(u)].seed = Command(u).seed
  /\ \A v \in Users : Writing(v) /\ Run(v) = Run(u) => v = u
  /\ \A f \in Members(Launch) :
       \/ job[u].phase = "launch" /\ f \in Members(job[u].left)
       \/ File(Run(u), f) = "whole"
  /\ job[u].phase = "launch" =>
       /\ outcome[Run(u)] = Nothing /\ Members(job[u].left) \subseteq Members(Launch)
       /\ \A f \in Members(Closing) : File(Run(u), f) = Missing
  /\ job[u].phase # "launch" =>
       /\ Members(job[u].left) \subseteq Members(Closing)
       /\ \A f \in Members(Closing) \ Members(job[u].left) :
            File(Run(u), f) = Content(u, f)
  /\ job[u].phase = "close" => outcome[Run(u)] # Nothing
  /\ job[u].phase = "handle" =>
       faults > 0 /\ (outcome[Run(u)] = Nothing \/ Run(u) \in upset)

\* A record tells of a run that is over, and tells what happened.
Settled(record) ==
  /\ dir[record.run] # Nothing /\ Unwritten(record.run)
  /\ Backed(record)
  /\ record.valid =>
       /\ outcome[record.run] # Nothing
       /\ File(record.run, "correctness").hash = outcome[record.run].hash
       /\ File(record.run, "metrics").policy = outcome[record.run].policy
  /\ \/ record.valid \/ faults > 0
     \/ outcome[record.run] # Nothing /\ ~Passes(outcome[record.run])

RecordsOK(u) == \A record \in job[u].records : Settled(record)

\* A reading that counts is of a workload that passed.
Counted(x) ==
  x.valid =>
    /\ x.run \in RunIds /\ outcome[x.run] # Nothing /\ Passes(outcome[x.run])
    /\ \/ x.metrics = Settings(outcome[x.run].policy)
       \/ x.run \in upset /\ x.metrics = Nothing

ReadFirst == <<"manifest", "metrics", "correctness">>

ReadingOK(u) ==
  /\ job[u].unread \subseteq {r \in RunIds : dir[r] # Nothing}
  /\ \A x \in job[u].read : Counted(x)
  /\ job[u].at = "read" =>
       /\ Run(u) \in RunIds /\ dir[Run(u)] # Nothing
       /\ Members(ReadFirst) \subseteq Members(job[u].left) \cup DOMAIN job[u].part
       /\ "correctness" \in DOMAIN job[u].part =>
            Justified(Run(u), job[u].part["correctness"])
       /\ "metrics" \in DOMAIN job[u].part => Numbered(Run(u), job[u].part["metrics"])

ReportOK(u) == job[u].report # Nothing =>
  \A b \in DOMAIN job[u].report.by_baseline :
    \A m \in job[u].report.by_baseline[b].metrics :
      /\ m.run \in RunIds /\ outcome[m.run] # Nothing /\ Passes(outcome[m.run])
      /\ \/ m.values = Settings(outcome[m.run].policy)
         \/ m.run \in upset /\ m.values = Nothing

-----------------------------------------------------------------------------
(* What the last gate knows.                                               *)

BaselinesOf(runs) == {dir[r].baseline : r \in runs}

Current(u) == IF Writing(u) THEN {Run(u)} ELSE {}
Pending(u) == IF Writing(u) THEN Len(job[u].todo) + 1 ELSE Len(job[u].todo)

\* The runs of the gate are of its workload, and in that the model is heard or silent.
OneWorkload(u) == \A r \in Runs(u) \cup Current(u) :
  /\ dir[r].workload = Command(u).workload /\ dir[r].seed = Command(u).seed
  /\ dir[r].baseline = "B3_AI" /\ outcome[r] # Nothing =>
       outcome[r].policy.status \in {"OK", "TIMEOUT"}

\* Every baseline has run, runs, or is yet to run, once.
OnPlan(u) ==
  /\ BaselinesOf(Runs(u) \cup Current(u)) \cup Members(job[u].todo) = AnyBaseline
  /\ Cardinality(Runs(u)) + Pending(u) = Len(BaselineOrder)

AllRan(u) ==
  /\ BaselinesOf(Runs(u)) = AnyBaseline
  /\ Cardinality(Runs(u)) = Len(BaselineOrder)

\* What the comparison reads of a run of the gate, which is over.
TrueReading(r) == Reading(r, dir[r], File(r, "correctness"), File(r, "metrics"))

Taking(u) == IF job[u].at = "read" THEN {Run(u)} ELSE {}

ReadsAll(u) ==
  /\ job[u].unread \subseteq Runs(u) /\ Taking(u) \subseteq Runs(u) \ job[u].unread
  /\ job[u].read = {TrueReading(r) : r \in Runs(u) \ (job[u].unread \cup Taking(u))}
  /\ job[u].at = "read" =>
       \A f \in DOMAIN job[u].part : job[u].part[f] = File(Run(u), f)

\* The gate may go on to fail for this, before and after its report.
Cause(u) ==
  \/ faults > 0
  \/ \E r \in Runs(u) :
       \/ ~Passes(outcome[r]) \/ outcome[r].policy.status = "TIMEOUT"
       \/ \E q \in Runs(u) : outcome[r].hash # outcome[q].hash

Last == EarlierGates + 1

GateOK(u) == Gates(u) =>
  /\ IsFiniteSet(Runs(u)) /\ OneWorkload(u)
  /\ job[u].at \in {"gate", "mkdir", "open", "fill"} => OnPlan(u)
  /\ job[u].at \in {"examine", "choose", "read"} => AllRan(u)
  /\ job[u].at \in {"choose", "read"} => Sound(u) /\ ReadsAll(u)
  /\ job[u].at = "publish" => Last \in job[u].passed \/ Cause(u)
  /\ Last \in job[u].passed =>
       /\ job[u].at \in {"publish", "ended"}
       /\ AllRan(u) /\ Sound(u) /\ AIHeard(u)
  /\ job[u].exit = "0" => Last \in job[u].passed
  /\ job[u].exit = "3" => FailedForCause(u)

UserOK(u) ==
  /\ ShapeOK(u) /\ WritingOK(u) /\ RecordsOK(u) /\ ReadingOK(u) /\ ReportOK(u)
  /\ GateOK(u)

Inductive ==
  /\ DOMAIN dir = RunIds /\ dir = [r \in RunIds |-> dir[r]]
  /\ job = [u \in Users |-> job[u]]
  /\ faults \in 0..MaxFaults
  /\ outcome \in [RunIds -> OutcomeType \cup {Nothing}]
  /\ upset \subseteq RunIds
  /\ \A r \in RunIds : DirOK(r) /\ OutcomeOK(r)
  /\ \A u \in Users : UserOK(u)

-----------------------------------------------------------------------------
(* Sequences and files.                                                    *)

\* What a sequence has, its head and its tail have.
LEMMA Rest ==
  ASSUME NEW S, NEW s \in Seq(S), s # <<>>
  PROVE  /\ Head(s) \in S /\ Tail(s) \in Seq(S)
         /\ Members(s) = {Head(s)} \cup Members(Tail(s))
         /\ Len(Tail(s)) \in Nat /\ Len(s) = Len(Tail(s)) + 1
  <1>1. Len(s) \in Nat \ {0} /\ DOMAIN s = 1..Len(s) /\ Head(s) = s[1]
    BY EmptySeq, LenProperties, SeqEqual
  <1>2. /\ Tail(s) \in Seq(S) /\ Len(Tail(s)) = Len(s) - 1
        /\ \A i \in 1..Len(Tail(s)) : Tail(s)[i] = s[i + 1]
    BY HeadTailProperties
  <1>3. DOMAIN Tail(s) = 1..Len(Tail(s))
    BY <1>2, LenProperties
  <1>4. Members(s) = {Head(s)} \cup Members(Tail(s))
    <2> DEFINE t == Tail(s)
    <2>1. DOMAIN t = 1..Len(s) - 1 /\ \A i \in 1..Len(s) - 1 : t[i] = s[i + 1]
      BY <1>1, <1>2, <1>3
    <2> HIDE DEF t
    <2>2. \A i \in 2..Len(s) : i - 1 \in DOMAIN t /\ t[i - 1] = s[i]
      BY <1>1, <2>1
    <2>3. \A i \in DOMAIN t : i + 1 \in DOMAIN s /\ t[i] = s[i + 1]
      BY <1>1, <2>1
    <2>4. DOMAIN s = {1} \cup 2..Len(s)
      BY <1>1
    <2>5. Members(s) \subseteq {Head(s)} \cup Members(t)
      BY <1>1, <2>2, <2>4 DEF Members
    <2>6. {Head(s)} \cup Members(t) \subseteq Members(s)
      BY <1>1, <2>3, <2>4 DEF Members
    <2> QED BY <2>5, <2>6 DEF t
  <1> QED BY <1>1, <1>2, <1>4

\* The files of each phase, by name.
LEMMA FilesByName ==
  /\ Members(Launch) = {"manifest", "config", "intents", "receipts"}
  /\ Members(Closing) = {"metrics", "correctness", "summary"}
  /\ Members(ReadFirst) = {"manifest", "metrics", "correctness"}
  /\ Artifacts = Members(Launch) \cup Members(Closing)
  /\ Members(<<>>) = {}
  /\ Launch \in Seq(Artifacts) /\ Closing \in Seq(Artifacts) /\ ReadFirst \in Seq(Artifacts)
  /\ Launch # <<>> /\ Closing # <<>>
  BY DEF Members, Launch, Closing, ReadFirst, Artifacts

\* The baselines in their order are those there are.
LEMMA BaselinesInOrder ==
  /\ BaselineOrder \in Seq(AnyBaseline) /\ Members(BaselineOrder) = AnyBaseline
  /\ Len(BaselineOrder) \in Nat \ {0} /\ AnyBaseline # {}
  <1>1. /\ Len(BaselineOrder) \in Nat \ {0}
        /\ DOMAIN BaselineOrder = 1..Len(BaselineOrder)
    BY BaselinesAssumption, EmptySeq, LenProperties, SeqEqual
  <1>2. BaselineOrder \in Seq(AnyBaseline)
    <2>1. BaselineOrder = [i \in 1..Len(BaselineOrder) |-> BaselineOrder[i]]
      BY <1>1, BaselinesAssumption, LenProperties
    <2> QED BY <1>1, <2>1, IsASeq DEF AnyBaseline
  <1> QED BY <1>1, <1>2 DEF Members, AnyBaseline

\* A file that has its content is legible.
LEMMA Whole ==
  ASSUME NEW f \in Artifacts, NEW x \in FileType(f)
  PROVE  x \in Contents /\ x \notin {Missing, Torn}
  <1>1. x \in Contents
    BY DEF FileType, Contents
  <1> QED BY <1>1, AbsentAssumption

\* A directory is not nothing.
LEMMA Placed ==
  ASSUME NEW d, NEW w \in Workloads, NEW b \in AnyBaseline, NEW s \in Nat, NEW g,
         \A f \in Artifacts : g[f] \in FileType(f) \cup {Missing, Torn},
         d = [workload |-> w, baseline |-> b, seed |-> s,
              files |-> [f \in Artifacts |-> g[f]]]
  PROVE  d # Nothing
  <1>1. \A f \in Artifacts : g[f] \in Contents \cup {Missing, Torn}
    BY Whole
  <1>2. [f \in Artifacts |-> g[f]] \in [Artifacts -> Contents \cup {Missing, Torn}]
    BY <1>1
  <1>3. d \in DirType
    BY <1>2 DEF DirType
  <1> QED BY <1>3, AbsentAssumption

\* What is written into a file is of the type of the file.
LEMMA ContentFits ==
  ASSUME NEW u \in Users, NEW f \in Artifacts,
         job[u].phase = "handle" \/ outcome[Run(u)] \in OutcomeType
           \/ f \in Members(Launch)
  PROVE  Content(u, f) \in FileType(f)
  <1>1. CASE f = "correctness"
    <2>1. Content(u, f) = Verdict(u) /\ FileType(f) = VerdictType
      BY <1>1 DEF Content, FileType
    <2>2. f \notin Members(Launch)
      BY <1>1, FilesByName
    <2>3. CASE job[u].phase = "handle"
      BY <2>1, <2>3 DEF Verdict, VerdictType
    <2>4. CASE job[u].phase # "handle"
      <3>1. Passes(outcome[Run(u)]) \in BOOLEAN
        BY DEF Passes
      <3>2. outcome[Run(u)].hash \in {o.hash : o \in Outcomes}
        BY <2>2, <2>4 DEF OutcomeType
      <3>3. \A b \in BOOLEAN, h \in {o.hash : o \in Outcomes} :
              [valid |-> b, hash |-> h, error |-> FALSE] \in VerdictType
        BY DEF VerdictType
      <3>4. [valid |-> Passes(outcome[Run(u)]), hash |-> outcome[Run(u)].hash,
             error |-> FALSE] \in VerdictType
        BY <3>1, <3>2, <3>3, Zenon
      <3>5. Verdict(u) = [valid |-> Passes(outcome[Run(u)]),
                          hash |-> outcome[Run(u)].hash, error |-> FALSE]
        BY <2>4, Zenon DEF Verdict
      <3> QED BY <2>1, <3>4, <3>5, Zenon
    <2> QED BY <2>3, <2>4
  <1>2. CASE f = "metrics"
    <2>1. f \notin Members(Launch)
      BY <1>2, FilesByName
    <2> QED BY <1>2, <2>1 DEF Content, FileType, Numbers, NumbersType, OutcomeType
  <1>3. CASE f = "summary"
    <2>1. Passes(outcome[Run(u)]) \in BOOLEAN
      BY DEF Passes
    <2>2. Content(u, f) = Verdict(u).valid /\ FileType(f) = BOOLEAN
      BY <1>3 DEF Content, FileType
    <2>3. Verdict(u).valid \in BOOLEAN
      <3>1. CASE job[u].phase = "handle"
        BY <3>1 DEF Verdict
      <3>2. CASE job[u].phase # "handle"
        <4>1. Verdict(u).valid = Passes(outcome[Run(u)])
          BY <3>2 DEF Verdict
        <4> QED BY <2>1, <4>1, Zenon
      <3> QED BY <3>1, <3>2
    <2> QED BY <2>2, <2>3
  <1>4. CASE f \notin {"correctness", "metrics", "summary"}
    BY <1>4 DEF Content, FileType
  <1> QED BY <1>1, <1>2, <1>3, <1>4

-----------------------------------------------------------------------------
(* Policies.                                                               *)

\* What the governor of the AI decides when the model is not taken is what the rules
\* decide.
LEMMA HeardOrRules ==
  ASSUME NEW s, NEW reply, reply = Silence \/ IsAnswer(reply), reply.kind # "overflows",
         Heard(s, reply).status \notin {"OK", "ABSTAIN"}
  PROVE  Heard(s, reply).proposals = RuleDecide(s)
  <1>1. \A status : /\ Fallback(s, status).proposals = RuleDecide(s)
                    /\ Fallback(s, status).status = status
    BY DEF Fallback, Decision
  <1>2. CASE reply = Silence
    BY <1>1, <1>2 DEF Heard
  <1>3. CASE reply # Silence
    <2>1. Heard(s, reply) = Judged(s, reply) /\ IsAnswer(reply)
      BY <1>3 DEF Heard
    <2>2. CASE reply.kind \in {"raises", "times_out", "not_json", "malformed"}
      BY <1>1, <2>1, <2>2 DEF Judged
    <2>3. CASE reply.kind = "null"
      BY <2>1, <2>3 DEF Judged, Decision
    <2>4. CASE reply.kind = "draft"
      BY <1>1, <2>1, <2>4 DEF Judged, Decision
    <2> QED BY <2>1, <2>2, <2>3, <2>4 DEF IsAnswer
  <1> QED BY <1>2, <1>3

\* The model of the command line answers in form.
LEMMA FixtureAnswers ==
  ASSUME NEW w \in Workloads
  PROVE  IsAnswer(Fixture(Summary(w))) /\ Fixture(Summary(w)).kind # "overflows"
  <1> DEFINE s == Summary(w)
  <1>1. s.rate = 100 /\ s.budget = 50 /\ Policy = DefaultPolicy
    BY HundredthsAssumption, DefaultAssumption DEF Summary
  <1> HIDE DEF s
  <1>2. \A o \in Operations, n \in Nat :
          IsAnswer(Drafted(o, n)) /\ Drafted(o, n).kind # "overflows"
    BY DEF IsAnswer, Drafted, IsDraft, IsNumber, Number
  <1>3. IsAnswer(Null) /\ Null.kind # "overflows"
    BY DEF IsAnswer, Null
  <1>4. /\ Least(Policy.temporal_rate_ceiling, s.rate + Policy.temporal_rate_max_delta) \in Nat
        /\ Least(Policy.cpu_budget_max, s.budget + Policy.cpu_budget_max_delta) \in Nat
    BY <1>1 DEF DefaultPolicy, Least
  <1>5. "SET_TEMPORAL_RATE" \in Operations /\ "SET_CPU_BUDGET_FRACTION" \in Operations
    BY DEF Operations
  <1>6. IsAnswer(Fixture(s)) /\ Fixture(s).kind # "overflows"
    BY <1>2, <1>3, <1>4, <1>5 DEF Fixture
  <1> QED BY <1>6 DEF s

\* A run of the AI whose model is not taken has the settings of the run of the rules.
LEMMA FallsBack ==
  ASSUME NEW w, NEW reply, reply = Silence \/ IsAnswer(reply), reply.kind # "overflows",
         Resolved(w, "B3_AI", reply).status \notin {"OK", "ABSTAIN"}
  PROVE  Settings(Resolved(w, "B3_AI", reply)) = Settings(Resolved(w, "B2_RULE", Silence))
  <1> DEFINE p == Resolved(w, "B3_AI", reply)
             q == Resolved(w, "B2_RULE", Silence)
             h == Heard(Summary(w), reply)
  <1>1. p = Governed(w, "AI", h)
        /\ q = Governed(w, "RULE", Decision("none", RuleDecide(Summary(w))))
    BY DEF Resolved
  <1>2. p.status = h.status /\ p.proposals = h.proposals /\ p.fixed = {}
        /\ p.temporal = (w \in Timed) /\ p.topology = (w \in Causal)
    BY <1>1 DEF Governed, Plain
  <1>3. q.proposals = RuleDecide(Summary(w)) /\ q.fixed = {}
        /\ q.temporal = (w \in Timed) /\ q.topology = (w \in Causal)
    BY <1>1 DEF Governed, Plain, Decision
  <1> HIDE DEF h
  <1>4. h.proposals = RuleDecide(Summary(w))
    BY <1>2, HeardOrRules DEF h
  <1> HIDE DEF p, q
  <1>5. Budget(p) = Budget(q)
    BY <1>2, <1>3, <1>4 DEF Budget, Budgets
  <1>6. p.temporal = q.temporal /\ p.topology = q.topology
    BY <1>2, <1>3
  <1>7. Settings(p) = Settings(q)
    BY <1>5, <1>6 DEF Settings
  <1> QED BY <1>7 DEF p, q

\* In the last gate the model is taken, unless it is silent.
LEMMA GateHears ==
  ASSUME NEW reply \in {Silence, Fixture(Summary("E_MIXED"))}
  PROVE  Resolved("E_MIXED", "B3_AI", reply).status \in {"OK", "TIMEOUT"}
  <1> DEFINE s == Summary("E_MIXED")
             h == Heard(s, reply)
  <1>1. Resolved("E_MIXED", "B3_AI", reply).status = h.status
    BY DEF Resolved, Governed, Plain
  <1>2. h.status \in {"OK", "TIMEOUT"}
    <2>1. CASE reply = Silence
      BY <2>1 DEF Heard, Fallback, Decision
    <2>2. CASE reply # Silence
      <3>1. /\ s.rate = 100 /\ s.role = "NORMAL" /\ s.paused = FALSE
            /\ "SET_TEMPORAL_RATE" \in s.supported
        BY HundredthsAssumption DEF Summary, Operations, Timed
      <3>2. reply = Fixture(s)
        BY <2>2
      <3>3. "SET_TEMPORAL_RATE" \in AllowedOperations(s)
        BY <3>1 DEF AllowedOperations
      <3> HIDE DEF s
      <3>4. Least(Policy.temporal_rate_ceiling, s.rate + Policy.temporal_rate_max_delta) = 150
        BY <3>1, DefaultAssumption DEF DefaultPolicy, Least
      <3>5. reply = Drafted("SET_TEMPORAL_RATE", 150)
        BY <3>2, <3>3, <3>4 DEF Fixture
      <3>6. /\ reply.kind = "draft" /\ reply.draft.ours = TRUE
            /\ reply.draft.operation = "SET_TEMPORAL_RATE"
            /\ reply.draft.value = Number(150) /\ reply.draft.cites = Evidence
        BY <3>5 DEF Drafted
      <3>7. ValueOK(s, "SET_TEMPORAL_RATE", Number(150))
        BY <3>1, DefaultAssumption
           DEF ValueOK, IsNumber, Number, Within, DefaultPolicy
      <3>8. Acceptable(s, reply.draft)
        BY <3>3, <3>6, <3>7 DEF Acceptable, Cited
      <3>9. h = Judged(s, reply)
        BY <2>2 DEF Heard
      <3>10. Judged(s, reply) =
               Decision("OK", {Proposal(reply.draft.operation, reply.draft.value, "AI")})
        BY <3>6, <3>8 DEF Judged
      <3> QED BY <3>9, <3>10 DEF Decision
    <2> QED BY <2>1, <2>2
  <1> QED BY <1>1, <1>2

-----------------------------------------------------------------------------
(* Comparison.                                                             *)

\* There are as many images as there are elements, when no two share one.
LEMMA Images ==
  ASSUME NEW S, IsFiniteSet(S), NEW g,
         \A x, y \in S : g[x] = g[y] => x = y
  PROVE  Cardinality({g[x] : x \in S}) = Cardinality(S)
  <1> DEFINE T == {g[x] : x \in S}
             k == [x \in S |-> g[x]]
  <1>1. k \in Bijection(S, T)
    <2>1. k \in [S -> T] /\ \A t \in T : \E x \in S : k[x] = t
      OBVIOUS
    <2>2. \A x, y \in S : k[x] = k[y] => x = y
      OBVIOUS
    <2> QED BY <2>1, <2>2 DEF Bijection, Injection, Surjection, IsInjective
  <1>2. ExistsBijection(S, T)
    BY <1>1 DEF ExistsBijection
  <1>3. Cardinality(T) = Cardinality(S)
    BY <1>2, FS_Bijection
  <1> QED BY <1>3

-----------------------------------------------------------------------------
(* What a step of one user leaves alone.                                   *)

\* A step of u changes the run u writes, or one that was nobody's; it sets the outcome
\* of a run only before u has launched it.
Frame(u) ==
  /\ \A v \in Users \ {u} : job'[v] = job[v]
  /\ Writing(u)' =>
       /\ Run(u)' \in RunIds
       /\ \/ dir[Run(u)'] = Nothing
          \/ /\ Writing(u) /\ Run(u)' = Run(u)
             /\ job'[u].phase = "launch" => job[u].phase = "launch"
  /\ \A r \in RunIds : dir[r] # Nothing =>
       /\ dir'[r] # Nothing
       /\ dir'[r].workload = dir[r].workload /\ dir'[r].baseline = dir[r].baseline
       /\ dir'[r].seed = dir[r].seed
       /\ dir'[r] = dir[r] \/ (Writing(u) /\ Run(u) = r)
  /\ \A r \in RunIds :
       \/ outcome'[r] = outcome[r]
       \/ Writing(u) /\ Run(u) = r /\ job[u].phase = "launch"
  /\ upset \subseteq upset' /\ (faults > 0 => faults' > 0)

\* A run that nobody writes stays as it is, and one that was launched keeps its outcome.
LEMMA Steady ==
  ASSUME Inductive, NEW u \in Users, Frame(u), NEW r \in RunIds, dir[r] # Nothing
  PROVE  /\ Unwritten(r) => dir'[r] = dir[r] /\ Unwritten(r)' /\ Launched(r)
         /\ Launched(r) => outcome'[r] = outcome[r] /\ Launched(r)'
         /\ outcome[r] # Nothing => outcome'[r] = outcome[r]
         /\ \A v \in Users \ {u} : Writing(v) /\ Run(v) = r =>
              dir'[r] = dir[r] /\ outcome'[r] = outcome[r]
  <1>1. \A v \in Users \ {u} : /\ Writing(v)' <=> Writing(v)
                               /\ Run(v)' = Run(v) /\ job'[v].phase = job[v].phase
    BY DEF Frame, Writing, Run
  <1>2. Writing(u)' /\ Run(u)' = r =>
          /\ Writing(u) /\ Run(u) = r
          /\ job'[u].phase = "launch" => job[u].phase = "launch"
    BY DEF Frame
  <1>3. Unwritten(r) => dir'[r] = dir[r] /\ Unwritten(r)' /\ Launched(r)
    BY <1>1, <1>2 DEF Frame, Unwritten, Launched
  <1>4. Launched(r) => outcome'[r] = outcome[r] /\ Launched(r)'
    BY <1>1, <1>2 DEF Frame, Launched
  <1>5. Writing(u) => WritingOK(u)
    BY DEF Inductive, UserOK
  <1>6. outcome[r] # Nothing => outcome'[r] = outcome[r]
    BY <1>5 DEF Frame, WritingOK
  <1>7. \A v \in Users \ {u} : Writing(v) /\ Run(v) = r =>
          dir'[r] = dir[r] /\ outcome'[r] = outcome[r]
    <2>1. \A v \in Users : Writing(v) /\ Writing(u) /\ Run(v) = Run(u) => v = u
      BY <1>5 DEF WritingOK
    <2> QED BY <2>1 DEF Frame
  <1> QED BY <1>3, <1>4, <1>6, <1>7

\* So what was found in a run stays true of it.
LEMMA KeepFindings ==
  ASSUME Inductive, NEW u \in Users, Frame(u), NEW r \in RunIds, dir[r] # Nothing, NEW x
  PROVE  /\ Justified(r, x) => Justified(r, x)'
         /\ Numbered(r, x) => Numbered(r, x)'
  <1>1. Justified(r, x) => Justified(r, x)'
    BY Steady DEF Justified
  <1>2. Numbered(r, x) => Numbered(r, x)'
    BY Steady DEF Numbered, Frame
  <1> QED BY <1>1, <1>2

\* A directory the step does not touch stays right.
LEMMA KeepDir ==
  ASSUME Inductive, NEW u \in Users, Frame(u), NEW r \in RunIds, dir'[r] = dir[r]
  PROVE  DirOK(r)'
  <1> SUFFICES ASSUME dir[r] # Nothing
               PROVE  DirOK(r)'
    BY DEF DirOK
  <1>1. DirOK(r)
    BY DEF Inductive
  <1>2. \A f \in Artifacts : File(r, f)' = File(r, f) /\ (Legible(r, f)' <=> Legible(r, f))
    BY DEF File, Legible
  <1>3. "correctness" \in Artifacts /\ "metrics" \in Artifacts
    BY FilesByName
  <1> QED BY <1>1, <1>2, <1>3, KeepFindings DEF DirOK, File

\* So does an outcome that stays.
LEMMA KeepOutcome ==
  ASSUME Inductive, NEW u \in Users, Frame(u), NEW r \in RunIds, outcome'[r] = outcome[r]
  PROVE  OutcomeOK(r)'
  BY DEF Inductive, OutcomeOK, FellBack, Frame

\* A record stays settled: nobody writes the run it tells of.
LEMMA KeepSettled ==
  ASSUME Inductive, NEW u \in Users, Frame(u), NEW record, record.run \in RunIds,
         Settled(record)
  PROVE  Settled(record)'
  <1>1. /\ dir'[record.run] = dir[record.run] /\ Unwritten(record.run)'
        /\ outcome'[record.run] = outcome[record.run]
    BY Steady DEF Settled
  <1>2. \A f \in Artifacts : /\ File(record.run, f)' = File(record.run, f)
                             /\ Legible(record.run, f)' <=> Legible(record.run, f)
    BY <1>1 DEF File, Legible
  <1>3. Backed(record)'
    BY <1>1, <1>2, FilesByName DEF Backed, Settled
  <1> QED BY <1>1, <1>2, <1>3, FilesByName DEF Settled, Frame

\* A reading that counts goes on to count.
LEMMA KeepCounted ==
  ASSUME Inductive, NEW u \in Users, Frame(u), NEW x, Counted(x)
  PROVE  Counted(x)'
  <1>1. \A r \in RunIds : outcome[r] # Nothing => outcome'[r] = outcome[r]
    BY Steady DEF Inductive, OutcomeOK
  <1> QED BY <1>1 DEF Counted, Frame

\* A report stays right, whoever has it.
LEMMA KeepReport ==
  ASSUME Inductive, NEW u \in Users, Frame(u), NEW v \in Users,
         job'[v].report = job[v].report
  PROVE  ReportOK(v)'
  <1>1. \A r \in RunIds : outcome[r] # Nothing => outcome'[r] = outcome[r]
    BY Steady DEF Inductive, OutcomeOK
  <1>2. ReportOK(v)
    BY DEF Inductive, UserOK
  <1> QED BY <1>1, <1>2 DEF ReportOK, Frame

\* So do the records a process holds.
LEMMA KeepRecords ==
  ASSUME Inductive, NEW u \in Users, Frame(u), NEW v \in Users,
         job'[v].records = job[v].records
  PROVE  RecordsOK(v)'
  <1>1. RecordsOK(v) /\ \A record \in job[v].records : record.run \in RunIds
    BY DEF Inductive, UserOK, ShapeOK
  <1> QED BY <1>1, KeepSettled DEF RecordsOK

\* What the gate concluded from its records stays true.
LEMMA KeepRuns ==
  ASSUME Inductive, NEW u \in Users, Frame(u), NEW v \in Users,
         job'[v].records = job[v].records
  PROVE  /\ Runs(v)' = Runs(v)
         /\ \A r \in Runs(v) : /\ r \in RunIds /\ dir'[r] = dir[r]
                               /\ outcome'[r] = outcome[r]
         /\ AllRan(v) => AllRan(v)'
         /\ Sound(v) => Sound(v)'
         /\ AIHeard(v) => AIHeard(v)'
         /\ Cause(v) => Cause(v)'
  <1>1. Runs(v)' = Runs(v)
    BY DEF Runs
  <1>2. \A r \in Runs(v) : /\ r \in RunIds /\ dir[r] # Nothing /\ Unwritten(r)
    <2>1. \A record \in job[v].records : record.run \in RunIds /\ Settled(record)
      BY DEF Inductive, UserOK, ShapeOK, RecordsOK
    <2> QED BY <2>1 DEF Settled, Runs
  <1>3. \A r \in Runs(v) : dir'[r] = dir[r] /\ outcome'[r] = outcome[r]
    BY <1>2, Steady
  <1>4. \A r \in Runs(v), f \in Artifacts :
          File(r, f)' = File(r, f) /\ (Legible(r, f)' <=> Legible(r, f))
    BY <1>3 DEF File, Legible
  <1>5. AllRan(v) => AllRan(v)'
    BY <1>1, <1>3 DEF AllRan, BaselinesOf
  <1>6. Sound(v) => Sound(v)'
    <2>1. AllValid(v)' <=> AllValid(v)
      BY DEF AllValid
    <2>2. Hashes(Runs(v))' = Hashes(Runs(v))
      BY <1>1, <1>4, FilesByName DEF Hashes
    <2> QED BY <1>1, <1>4, <2>1, <2>2, FilesByName DEF Sound
  <1>7. AIHeard(v) => AIHeard(v)'
    BY <1>1, <1>3, <1>4, FilesByName DEF AIHeard
  <1>8. Cause(v) => Cause(v)'
    BY <1>1, <1>3 DEF Cause, Frame
  <1> QED BY <1>1, <1>2, <1>3, <1>5, <1>6, <1>7, <1>8

\* Whoever does nothing keeps what it knew.
LEMMA KeepOthers ==
  ASSUME Inductive, NEW u \in Users, Frame(u), NEW v \in Users \ {u}
  PROVE  UserOK(v)'
  <1>1. job'[v] = job[v] /\ UserOK(v)
    BY DEF Frame, Inductive
  <1>2. ShapeOK(v)'
    BY <1>1 DEF UserOK, ShapeOK, Writing, Gates, Command
  <1>3. WritingOK(v)'
    <2> SUFFICES ASSUME Writing(v)
                 PROVE  WritingOK(v)'
      BY <1>1 DEF WritingOK, Writing
    <2>1. WritingOK(v) /\ Run(v)' = Run(v) /\ Run(v) \in RunIds /\ dir[Run(v)] # Nothing
      BY <1>1 DEF UserOK, WritingOK, Run
    <2>2. dir'[Run(v)] = dir[Run(v)] /\ outcome'[Run(v)] = outcome[Run(v)]
      BY <2>1, Steady
    <2>3. \A w \in Users : Writing(w)' /\ Run(w)' = Run(v) => w = v
      BY <2>1 DEF Frame, WritingOK, Writing, Run
    <2>4. \A f \in Artifacts : File(Run(v), f)' = File(Run(v), f)
      BY <2>1, <2>2 DEF File
    <2>5. \A f \in Artifacts : Content(v, f)' = Content(v, f)
      BY <1>1, <2>1, <2>2 DEF Content, Verdict, Numbers
    <2> QED BY <1>1, <2>1, <2>2, <2>3, <2>4, <2>5, FilesByName DEF WritingOK, Frame, Command
  <1>4. ReadingOK(v)'
    <2>1. \A x \in job[v].read : Counted(x)'
      BY <1>1, KeepCounted DEF UserOK, ReadingOK
    <2>2. \A r \in job[v].unread : r \in RunIds /\ dir'[r] # Nothing
      BY <1>1 DEF UserOK, ReadingOK, Frame
    <2>3. CASE job[v].at = "read"
      <3>1. Run(v)' = Run(v) /\ Run(v) \in RunIds /\ dir[Run(v)] # Nothing
        BY <1>1, <2>3 DEF UserOK, ReadingOK, Run
      <3>2. "correctness" \in DOMAIN job[v].part =>
              Justified(Run(v), job[v].part["correctness"])'
        BY <1>1, <2>3, <3>1, KeepFindings DEF UserOK, ReadingOK, Justified
      <3>3. "metrics" \in DOMAIN job[v].part => Numbered(Run(v), job[v].part["metrics"])'
        BY <1>1, <2>3, <3>1, KeepFindings DEF UserOK, ReadingOK, Numbered, Launched
      <3> QED BY <1>1, <2>1, <2>2, <2>3, <3>1, <3>2, <3>3
              DEF UserOK, ReadingOK, Frame
    <2> QED BY <1>1, <2>1, <2>2, <2>3 DEF ReadingOK
  <1>5. GateOK(v)'
    <2> SUFFICES ASSUME Gates(v)
                 PROVE  GateOK(v)'
      BY <1>1 DEF GateOK, Gates, Command
    <2>1. /\ Runs(v)' = Runs(v) /\ Current(v)' = Current(v) /\ Pending(v)' = Pending(v)
          /\ Taking(v)' = Taking(v) /\ Run(v)' = Run(v) /\ Command(v)' = Command(v)
      BY <1>1, KeepRuns DEF Current, Pending, Taking, Writing, Run, Command
    <2>2. \A r \in Runs(v) \cup Current(v) :
            /\ r \in RunIds /\ dir'[r].workload = dir[r].workload
            /\ dir'[r].baseline = dir[r].baseline /\ dir'[r].seed = dir[r].seed
            /\ outcome'[r] = outcome[r]
      <3>1. \A r \in Current(v) : r \in RunIds /\ dir[r] # Nothing /\ Writing(v) /\ Run(v) = r
        BY <1>1 DEF Current, UserOK, WritingOK
      <3>2. \A r \in Current(v) : dir'[r] = dir[r] /\ outcome'[r] = outcome[r]
        BY <3>1, Steady
      <3> QED BY <1>1, <3>1, <3>2, KeepRuns
    <2>3. OneWorkload(v) => OneWorkload(v)'
      BY <2>1, <2>2 DEF OneWorkload
    <2>4. OnPlan(v) => OnPlan(v)'
      <3>1. BaselinesOf(Runs(v) \cup Current(v))' = BaselinesOf(Runs(v) \cup Current(v))
        BY <2>1, <2>2 DEF BaselinesOf
      <3> QED BY <1>1, <2>1, <3>1 DEF OnPlan
    <2>5. ReadsAll(v) /\ job[v].at \in {"choose", "read"} => ReadsAll(v)'
      <3>1. \A r \in Runs(v) : dir'[r] = dir[r]
        BY <1>1, KeepRuns
      <3>2. \A r \in Runs(v) : TrueReading(r)' = TrueReading(r)
        BY <3>1 DEF TrueReading, File
      <3>3. \A f : \A r \in Runs(v) : File(r, f)' = File(r, f)
        BY <3>1 DEF File
      <3>4. job[v].at = "read" => Taking(v) = {Run(v)}
        BY DEF Taking
      <3> QED BY <1>1, <2>1, <3>2, <3>3, <3>4 DEF ReadsAll
    <2>6. FailedForCause(v) => FailedForCause(v)'
      BY <1>1, <2>1, <2>2 DEF FailedForCause, Frame
    <2>7. IsFiniteSet(Runs(v)) => IsFiniteSet(Runs(v))'
      BY <2>1
    <2> HIDE DEF Last
    <2> QED BY <1>1, <2>3, <2>4, <2>5, <2>6, <2>7, KeepRuns DEF UserOK, GateOK
  <1> QED BY <1>1, <1>2, <1>3, <1>4, <1>5, KeepReport, KeepRecords DEF UserOK

-----------------------------------------------------------------------------
(* Steps that change the process and nothing on disk.                      *)

\* When one process goes on, the others are where they were.
LEMMA OneMoves ==
  ASSUME Inductive, NEW u \in Users, NEW j, Become(u, j)
  PROVE  /\ job'[u] = j /\ \A v \in Users \ {u} : job'[v] = job[v]
         /\ job' = [v \in Users |-> job'[v]]
  BY DEF Inductive, Become

\* The parts of a step make the invariant.
LEMMA Together ==
  ASSUME Inductive, NEW u \in Users, Frame(u), UserOK(u)',
         job' = [v \in Users |-> job'[v]], faults' \in 0..MaxFaults,
         UNCHANGED <<dir, outcome>>, upset' \subseteq RunIds
  PROVE  Inductive'
  <1>1. \A v \in Users : UserOK(v)'
    BY KeepOthers
  <1>2. \A r \in RunIds : DirOK(r)' /\ OutcomeOK(r)'
    BY KeepDir, KeepOutcome
  <1>3. /\ DOMAIN dir = RunIds /\ dir = [r \in RunIds |-> dir[r]]
        /\ outcome \in [RunIds -> OutcomeType \cup {Nothing}]
    BY DEF Inductive
  <1> QED BY <1>1, <1>2, <1>3 DEF Inductive

\* A process that does not write afterwards frames its step.
LEMMA FrameAside ==
  ASSUME Inductive, NEW u \in Users, \A v \in Users \ {u} : job'[v] = job[v],
         job'[u].at \notin {"open", "fill"}, UNCHANGED <<dir, outcome>>,
         upset \subseteq upset', faults > 0 => faults' > 0
  PROVE  Frame(u)
  BY DEF Frame, Writing

\* So does one that goes on with the run it writes.
LEMMA FrameOnward ==
  ASSUME Inductive, NEW u \in Users, \A v \in Users \ {u} : job'[v] = job[v],
         Writing(u), job'[u].run = job[u].run,
         job'[u].phase = "launch" => job[u].phase = "launch", UNCHANGED <<dir, outcome>>,
         upset \subseteq upset', faults > 0 => faults' > 0
  PROVE  Frame(u)
  <1>1. Run(u) \in RunIds
    BY DEF Inductive, UserOK, WritingOK
  <1> QED BY <1>1 DEF Frame, Writing, Run

\* The runs of a gate stay of one workload when no new one is begun.
LEMMA KeepOneWorkload ==
  ASSUME Inductive, NEW u \in Users, Frame(u), Gates(u), UNCHANGED outcome,
         job'[u].command = job[u].command, Current(u)' \subseteq Current(u),
         Runs(u)' \subseteq Runs(u) \cup Current(u)
  PROVE  OneWorkload(u)'
  <1>1. \A r \in Runs(u) : r \in RunIds /\ dir[r] # Nothing
    <2>1. \A record \in job[u].records : record.run \in RunIds /\ Settled(record)
      BY DEF Inductive, UserOK, ShapeOK, RecordsOK
    <2> QED BY <2>1 DEF Settled, Runs
  <1>2. \A r \in Current(u) : r \in RunIds /\ dir[r] # Nothing
    BY DEF Inductive, UserOK, WritingOK, Current
  <1>3. \A r \in Runs(u) \cup Current(u) :
          /\ dir'[r].workload = dir[r].workload /\ dir'[r].baseline = dir[r].baseline
          /\ dir'[r].seed = dir[r].seed
    BY <1>1, <1>2 DEF Frame
  <1>4. OneWorkload(u)
    BY DEF Inductive, UserOK, GateOK
  <1> QED BY <1>3, <1>4 DEF OneWorkload, Command

\* The end of a process, with a code it is entitled to.
LEMMA ExitKeeps ==
  ASSUME Inductive, NEW u \in Users, NEW code \in Exits \ {"none"}, Exit(u, code),
         job[u].at # "idle", UNCHANGED <<dir, outcome, upset>>,
         faults' \in 0..MaxFaults, faults > 0 => faults' > 0,
         code = "0" /\ Gates(u) => Last \in job[u].passed,
         code = "3" => Gates(u) /\ FailedForCause(u)
  PROVE  Inductive'
  <1>0. UserOK(u) /\ upset \subseteq RunIds
    BY DEF Inductive
  <1>1. /\ job'[u] = [job[u] EXCEPT !.at = "ended", !.todo = <<>>, !.run = Nothing,
              !.phase = "none", !.left = <<>>, !.unread = {}, !.part = Nothing,
              !.read = {}, !.exit = code]
        /\ \A v \in Users \ {u} : job'[v] = job[v]
        /\ job' = [v \in Users |-> job'[v]]
    BY OneMoves DEF Exit
  <1>2. /\ job'[u].at = "ended" /\ job'[u].phase = "none" /\ job'[u].unread = {}
        /\ job'[u].read = {} /\ job'[u].exit = code
        /\ job'[u].records = job[u].records /\ job'[u].passed = job[u].passed
        /\ job'[u].report = job[u].report /\ job'[u].command = job[u].command
    BY <1>0, <1>1 DEF UserOK, ShapeOK
  <1>3. Frame(u)
    BY <1>1, <1>2, FrameAside
  <1>4. ShapeOK(u)'
    <2>1. <<>> \in Seq(AnyBaseline) /\ <<>> \in Seq(Artifacts)
      OBVIOUS
    <2> QED BY <1>0, <1>1, <1>2, <2>1
            DEF UserOK, ShapeOK, Writing, Gates, Command, Labels
  <1>5. WritingOK(u)' /\ ReadingOK(u)'
    BY <1>2 DEF WritingOK, Writing, ReadingOK
  <1>6. RecordsOK(u)' /\ ReportOK(u)'
    BY <1>2, <1>3, KeepRecords, KeepReport
  <1>7. GateOK(u)'
    <2> SUFFICES ASSUME Gates(u)'
                 PROVE  GateOK(u)'
      BY DEF GateOK
    <2>1. Gates(u) /\ GateOK(u)
      BY <1>0, <1>2 DEF Gates, Command, UserOK
    <2>2. Current(u)' = {}
      BY <1>2 DEF Current, Writing
    <2>3. OneWorkload(u)' /\ IsFiniteSet(Runs(u))'
      BY <1>2, <1>3, <2>1, <2>2, KeepOneWorkload, KeepRuns DEF GateOK
    <2>4. FailedForCause(u) => FailedForCause(u)'
      BY <1>2, <1>3, KeepRuns DEF FailedForCause
    <2> HIDE DEF Last
    <2> QED BY <1>2, <1>3, <2>1, <2>3, <2>4, KeepRuns DEF GateOK
  <1> QED BY <1>0, <1>1, <1>3, <1>4, <1>5, <1>6, <1>7, Together DEF UserOK

\* The end of the last gate, with a verdict it is entitled to.
LEMMA GatedKeeps ==
  ASSUME Inductive, NEW u \in Users, NEW passes \in BOOLEAN, Gated(u, passes),
         Gates(u), job[u].at \notin {"publish", "ended"},
         UNCHANGED <<dir, outcome, upset>>,
         faults' \in 0..MaxFaults, faults > 0 => faults' > 0,
         passes => AllRan(u) /\ Sound(u) /\ AIHeard(u),
         ~passes => Cause(u) \/ faults' > 0
  PROVE  Inductive'
  <1>0. UserOK(u) /\ upset \subseteq RunIds
    BY DEF Inductive
  <1>1. /\ job'[u] = [job[u] EXCEPT !.at = "publish", !.run = Nothing, !.todo = <<>>,
              !.phase = "none", !.left = <<>>, !.unread = {}, !.part = Nothing,
              !.read = {},
              !.passed = IF passes THEN job[u].passed \cup {Last} ELSE job[u].passed]
        /\ \A v \in Users \ {u} : job'[v] = job[v]
        /\ job' = [v \in Users |-> job'[v]]
    <2>1. Become(u, [job[u] EXCEPT !.at = "publish", !.run = Nothing, !.todo = <<>>,
              !.phase = "none", !.left = <<>>, !.unread = {}, !.part = Nothing,
              !.read = {},
              !.passed = IF passes THEN job[u].passed \cup {Last} ELSE job[u].passed])
      BY <1>0 DEF Gated, Last, UserOK, ShapeOK
    <2> QED BY <2>1, OneMoves
  <1>2. /\ job'[u].at = "publish" /\ job'[u].phase = "none" /\ job'[u].unread = {}
        /\ job'[u].read = {} /\ job'[u].exit = job[u].exit
        /\ job'[u].records = job[u].records
        /\ job'[u].passed = IF passes THEN job[u].passed \cup {Last} ELSE job[u].passed
        /\ job'[u].report = job[u].report /\ job'[u].command = job[u].command
    BY <1>0, <1>1 DEF UserOK, ShapeOK
  <1>3. Frame(u)
    BY <1>1, <1>2, FrameAside
  <1>4. ShapeOK(u)'
    <2>1. <<>> \in Seq(AnyBaseline) /\ <<>> \in Seq(Artifacts)
      OBVIOUS
    <2>2. job'[u].passed \subseteq 1..EarlierGates + 1
      BY <1>0, <1>2, GatesAssumption DEF UserOK, ShapeOK, Last
    <2>3. job[u].exit = "none" /\ job[u].command \in Commands[u]
      BY <1>0 DEF UserOK, ShapeOK, Gates
    <2> QED BY <1>0, <1>1, <1>2, <2>1, <2>2, <2>3
            DEF UserOK, ShapeOK, Writing, Gates, Command, Labels
  <1>5. WritingOK(u)' /\ ReadingOK(u)'
    BY <1>2 DEF WritingOK, Writing, ReadingOK
  <1>6. RecordsOK(u)' /\ ReportOK(u)'
    BY <1>2, <1>3, KeepRecords, KeepReport
  <1>7. GateOK(u)'
    <2>1. GateOK(u) /\ job[u].exit = "none"
      BY <1>0 DEF UserOK, ShapeOK
    <2>2. Current(u)' = {}
      BY <1>2 DEF Current, Writing
    <2>3. OneWorkload(u)' /\ IsFiniteSet(Runs(u))'
      BY <1>2, <1>3, <2>1, <2>2, KeepOneWorkload, KeepRuns DEF GateOK
    <2>4. Last \notin job[u].passed
      BY <2>1 DEF GateOK
    <2>5. ~passes => Cause(u)'
      BY <1>2, <1>3, KeepRuns DEF Cause
    <2> HIDE DEF Last
    <2> QED BY <1>2, <1>3, <2>1, <2>3, <2>4, <2>5, KeepRuns DEF GateOK
  <1> QED BY <1>0, <1>1, <1>3, <1>4, <1>5, <1>6, <1>7, Together DEF UserOK

-----------------------------------------------------------------------------
(* Ends of a process.                                                      *)

\* An exception that leaves run() or a comparison ends the process, or fails its gate.
LEMMA EscapeKeeps ==
  ASSUME Inductive, NEW u \in Users, NEW interrupt \in BOOLEAN, Escape(u, interrupt),
         job[u].at \notin {"idle", "ended"}, UNCHANGED <<dir, outcome, upset>>,
         faults' \in 0..MaxFaults, faults > 0 => faults' > 0,
         Gates(u) => faults' > 0
  PROVE  Inductive'
  <1>1. CASE Command(u).kind = "gate" /\ job[u].at # "publish" /\ ~interrupt
    <2>1. Gated(u, FALSE) /\ Gates(u)
      BY <1>1 DEF Escape, Gates
    <2> QED BY <1>1, <2>1, GatedKeeps
  <1>2. CASE ~(Command(u).kind = "gate" /\ job[u].at # "publish" /\ ~interrupt)
    <2>1. Exit(u, "raised")
      BY <1>2, Zenon DEF Escape
    <2> QED BY <2>1, ExitKeeps DEF Exits
  <1> QED BY <1>1, <1>2

\* A process may be killed between any two statements.
LEMMA KillKeeps ==
  ASSUME Inductive, NEW u \in Users, Kill(u)
  PROVE  Inductive'
  <1>1. faults \in 0..MaxFaults
    BY DEF Inductive
  <1>2. faults' \in 0..MaxFaults /\ faults' > 0
    BY <1>1, FaultsAssumption DEF Kill
  <1> QED BY <1>2, ExitKeeps DEF Kill, Exits

\* The report of the gates tells the exit code its gates have earned.
LEMMA PublishKeeps ==
  ASSUME Inductive, NEW u \in Users, Publish(u)
  PROVE  Inductive'
  <1> DEFINE code == IF job[u].passed = 1..EarlierGates + 1 THEN "0" ELSE "3"
  <1>0. faults \in 0..MaxFaults /\ UserOK(u) /\ UNCHANGED <<dir, outcome, upset, faults>>
    BY DEF Inductive, Publish
  <1>1. /\ Exit(u, code) /\ job[u].at = "publish" /\ Gates(u)
        /\ job[u].passed \subseteq 1..EarlierGates + 1
        /\ Last \in job[u].passed \/ Cause(u)
    BY <1>0, Zenon DEF Publish, UserOK, ShapeOK, GateOK
  <1>2. CASE job[u].passed = 1..EarlierGates + 1
    <2>1. Last \in job[u].passed
      BY <1>2, GatesAssumption DEF Last
    <2>2. code = "0"
      BY <1>2
    <2> HIDE DEF code
    <2> QED BY <1>0, <1>1, <2>1, <2>2, ExitKeeps DEF Exits
  <1>3. CASE job[u].passed # 1..EarlierGates + 1
    <2>1. ~(1..EarlierGates \subseteq job[u].passed) \/ Cause(u)
      <3>1. 1..EarlierGates + 1 = 1..EarlierGates \cup {Last}
        BY GatesAssumption DEF Last
      <3> QED BY <1>1, <1>3, <3>1
    <2>2. FailedForCause(u)
      BY <2>1 DEF FailedForCause, Cause
    <2>3. code = "3"
      BY <1>3
    <2> HIDE DEF code
    <2> QED BY <1>0, <1>1, <2>2, <2>3, ExitKeeps DEF Exits
  <1> QED BY <1>2, <1>3

-----------------------------------------------------------------------------
(* The command line and the gates, up to the comparison.                   *)

\* What a process begins with.
IsBlank(n) ==
  /\ n = [at |-> n.at, command |-> n.command, todo |-> n.todo, run |-> n.run,
          phase |-> n.phase, left |-> n.left, records |-> n.records,
          unread |-> n.unread, part |-> n.part, read |-> n.read,
          passed |-> n.passed, report |-> n.report, exit |-> n.exit]
  /\ n.todo = <<>> /\ n.phase = "none" /\ n.left = <<>> /\ n.records = {}
  /\ n.unread = {} /\ n.read = {} /\ n.passed = {} /\ n.report = Nothing
  /\ n.exit = "none" /\ n.at = "idle" /\ n.command = Nothing

\* That is what the process of a user is at first.
LEMMA NoJobIsBlank == IsBlank(NoJob)
  BY DEF NoJob, IsBlank

\* A command begins with nothing found out yet.
LEMMA StartKeeps ==
  ASSUME Inductive, NEW u \in Users, Start(u)
  PROVE  Inductive'
  <1>0. /\ UserOK(u) /\ faults \in 0..MaxFaults /\ upset \subseteq RunIds
        /\ UNCHANGED <<dir, faults, outcome, upset>>
    BY DEF Inductive, Start
  <1>1. \E c \in Commands[u], at \in {"gate", "mkdir", "choose"},
            todo \in Seq(AnyBaseline), unread \in SUBSET {r \in RunIds : dir[r] # Nothing} :
          /\ at = "gate" => c.kind = "gate" /\ todo = BaselineOrder
          /\ at = "mkdir" => c.kind \in {"run", "matrix"}
          /\ at = "choose" => c.kind = "compare"
          /\ \E j : /\ Become(u, j)
                   /\ \/ j = [[NoJob EXCEPT !.command = c] EXCEPT !.at = at, !.todo = todo]
                         /\ unread = {}
                      \/ j = [[NoJob EXCEPT !.command = c] EXCEPT !.at = at,
                                                                !.unread = unread]
                         /\ todo = <<>>
    <2>1. PICK c \in Commands[u] :
            LET fresh == [NoJob EXCEPT !.command = c]
            IN  \/ /\ c.kind \in {"run", "matrix", "gate"}
                   /\ Become(u, [fresh EXCEPT
                        !.at = IF c.kind = "gate" THEN "gate" ELSE "mkdir",
                        !.todo = Plan(c)])
                \/ /\ c.kind = "compare"
                   /\ \E dirs \in SUBSET {r \in RunIds : dir[r] # Nothing} :
                        Become(u, [fresh EXCEPT !.at = "choose", !.unread = dirs])
      BY DEF Start
    <2>2. IsCommand(c)
      BY CommandsAssumption
    <2>3. Plan(c) \in Seq(AnyBaseline) /\ (c.kind = "gate" => Plan(c) = BaselineOrder)
      <3>1. CASE c.kind = "run"
        <4>1. c.baseline \in AnyBaseline
          BY <2>2, <3>1 DEF IsCommand, AnyBaseline
        <4> QED BY <3>1, <4>1 DEF Plan
      <3>2. CASE c.kind # "run"
        BY <3>2, BaselinesInOrder DEF Plan
      <3> QED BY <3>1, <3>2
    <2>4. CASE c.kind = "compare"
      <3>1. PICK dirs \in SUBSET {r \in RunIds : dir[r] # Nothing} :
              Become(u, [[NoJob EXCEPT !.command = c] EXCEPT !.at = "choose", !.unread = dirs])
        BY <2>1, <2>4
      <3>2. <<>> \in Seq(AnyBaseline)
        OBVIOUS
      <3> HIDE DEF NoJob
      <3>3. \E j : /\ Become(u, j)
                   /\ j = [[NoJob EXCEPT !.command = c] EXCEPT !.at = "choose",
                                                              !.unread = dirs]
        BY <3>1
      <3> QED BY <2>4, <3>2, <3>3, Zenon
    <2>5. CASE c.kind # "compare"
      <3> DEFINE at == IF c.kind = "gate" THEN "gate" ELSE "mkdir"
      <3>1. Become(u, [[NoJob EXCEPT !.command = c] EXCEPT !.at = at, !.todo = Plan(c)])
        BY <2>1, <2>5
      <3>2. /\ at \in {"gate", "mkdir"} /\ (at = "gate" <=> c.kind = "gate")
            /\ c.kind \in {"run", "matrix", "gate"}
        BY <2>1, <2>5
      <3> HIDE DEF at
      <3>3. \E j : /\ Become(u, j)
                   /\ j = [[NoJob EXCEPT !.command = c] EXCEPT !.at = at, !.todo = Plan(c)]
        BY <3>1
      <3>4. (at = "gate" => c.kind = "gate" /\ Plan(c) = BaselineOrder)
            /\ (at = "mkdir" => c.kind \in {"run", "matrix"}) /\ at # "choose"
        BY <2>3, <3>2
      <3>5. /\ at \in {"gate", "mkdir", "choose"}
            /\ {} \in SUBSET {r \in RunIds : dir[r] # Nothing}
        BY <3>2
      <3> QED BY <2>3, <3>3, <3>4, <3>5, Zenon
    <2> QED BY <2>4, <2>5
  <1>2. PICK c \in Commands[u], at \in {"gate", "mkdir", "choose"},
             todo \in Seq(AnyBaseline), unread \in SUBSET {r \in RunIds : dir[r] # Nothing} :
          /\ at = "gate" => c.kind = "gate" /\ todo = BaselineOrder
          /\ at = "mkdir" => c.kind \in {"run", "matrix"}
          /\ at = "choose" => c.kind = "compare"
          /\ \E j : /\ Become(u, j)
                   /\ \/ j = [[NoJob EXCEPT !.command = c] EXCEPT !.at = at, !.todo = todo]
                         /\ unread = {}
                      \/ j = [[NoJob EXCEPT !.command = c] EXCEPT !.at = at,
                                                                !.unread = unread]
                         /\ todo = <<>>
    BY <1>1
  <1>3. /\ job'[u].at = at /\ job'[u].command = c /\ job'[u].todo = todo
        /\ job'[u].phase = "none" /\ job'[u].unread = unread /\ job'[u].left = <<>>
        /\ job'[u].read = {} /\ job'[u].exit = "none" /\ job'[u].records = {}
        /\ job'[u].passed = {} /\ job'[u].report = Nothing
        /\ job'[u] = [at |-> job'[u].at, command |-> job'[u].command,
              todo |-> job'[u].todo, run |-> job'[u].run,
              phase |-> job'[u].phase, left |-> job'[u].left, records |-> job'[u].records,
              unread |-> job'[u].unread, part |-> job'[u].part, read |-> job'[u].read,
              passed |-> job'[u].passed, report |-> job'[u].report, exit |-> job'[u].exit]
        /\ \A v \in Users \ {u} : job'[v] = job[v]
        /\ job' = [v \in Users |-> job'[v]]
    <2>1. PICK j :
            /\ Become(u, j)
            /\ \/ j = [[NoJob EXCEPT !.command = c] EXCEPT !.at = at, !.todo = todo]
                  /\ unread = {}
               \/ j = [[NoJob EXCEPT !.command = c] EXCEPT !.at = at, !.unread = unread]
                  /\ todo = <<>>
      BY <1>2
    <2>2. /\ job'[u] = j /\ \A v \in Users \ {u} : job'[v] = job[v]
          /\ job' = [v \in Users |-> job'[v]]
      BY <2>1, OneMoves
    <2>3. /\ j.at = at /\ j.command = c /\ j.todo = todo /\ j.unread = unread
          /\ j.phase = "none" /\ j.left = <<>> /\ j.records = {} /\ j.read = {}
          /\ j.passed = {} /\ j.report = Nothing /\ j.exit = "none"
          /\ j = [at |-> j.at, command |-> j.command, todo |-> j.todo, run |-> j.run,
                  phase |-> j.phase, left |-> j.left, records |-> j.records,
                  unread |-> j.unread, part |-> j.part, read |-> j.read,
                  passed |-> j.passed, report |-> j.report, exit |-> j.exit]
      <3> DEFINE n == NoJob
      <3>1. IsBlank(n)
        BY NoJobIsBlank
      <3>2. \/ j = [[n EXCEPT !.command = c] EXCEPT !.at = at, !.todo = todo]
               /\ unread = {}
            \/ j = [[n EXCEPT !.command = c] EXCEPT !.at = at, !.unread = unread]
               /\ todo = <<>>
        BY <2>1
      <3> HIDE DEF n
      <3> QED BY <3>1, <3>2 DEF IsBlank
    <2> QED BY <2>2, <2>3
  <1>4. Frame(u)
    BY <1>0, <1>3, FrameAside
  <1>5. ShapeOK(u)'
    <2>1. <<>> \in Seq(Artifacts)
      OBVIOUS
    <2> QED BY <1>2, <1>3, <2>1 DEF ShapeOK, Writing, Gates, Command, Labels, Exits
  <1>6. WritingOK(u)' /\ ReadingOK(u)' /\ RecordsOK(u)' /\ ReportOK(u)'
    BY <1>0, <1>2, <1>3 DEF WritingOK, Writing, ReadingOK, RecordsOK, ReportOK
  <1>7. GateOK(u)'
    <2> SUFFICES ASSUME Gates(u)'
                 PROVE  GateOK(u)'
      BY DEF GateOK
    <2>1. at = "gate" /\ todo = BaselineOrder
      BY <1>2, <1>3 DEF Gates, Command
    <2>2. Runs(u)' = {} /\ Current(u)' = {} /\ Pending(u)' = Len(BaselineOrder)
      BY <1>3, <2>1 DEF Runs, Current, Pending, Writing
    <2>3. OneWorkload(u)' /\ IsFiniteSet(Runs(u))'
      BY <2>2, FS_EmptySet DEF OneWorkload
    <2>4. OnPlan(u)'
      <3>1. Cardinality({}) = 0
        BY FS_EmptySet
      <3> QED BY <1>3, <2>1, <2>2, <3>1, BaselinesInOrder DEF OnPlan, BaselinesOf
    <2> QED BY <1>3, <2>1, <2>3, <2>4 DEF GateOK
  <1> QED BY <1>0, <1>3, <1>4, <1>5, <1>6, <1>7, Together DEF UserOK

\* The gates before the last one do not touch a run.
LEMMA EarlierOnesKeeps ==
  ASSUME Inductive, NEW u \in Users, EarlierOnes(u)
  PROVE  Inductive'
  <1>0. /\ UserOK(u) /\ faults \in 0..MaxFaults /\ upset \subseteq RunIds
        /\ UNCHANGED <<dir, faults, outcome, upset>> /\ job[u].at = "gate" /\ Gates(u)
    BY DEF Inductive, EarlierOnes, UserOK, ShapeOK
  <1>1. PICK passed \in SUBSET (1..EarlierGates) :
          Become(u, [job[u] EXCEPT !.at = "mkdir", !.passed = passed])
    BY DEF EarlierOnes
  <1>2. /\ job'[u] = [job[u] EXCEPT !.at = "mkdir", !.passed = passed]
        /\ \A v \in Users \ {u} : job'[v] = job[v]
        /\ job' = [v \in Users |-> job'[v]]
    BY <1>1, OneMoves
  <1>3. /\ job'[u].at = "mkdir" /\ job'[u].command = job[u].command
        /\ job'[u].todo = job[u].todo
        /\ job'[u].phase = "none" /\ job'[u].unread = job[u].unread
        /\ job'[u].read = job[u].read /\ job'[u].exit = "none"
        /\ job'[u].records = job[u].records
        /\ job'[u].passed = passed /\ job'[u].report = job[u].report
    BY <1>0, <1>2 DEF UserOK, ShapeOK, Writing
  <1>4. Frame(u)
    BY <1>0, <1>2, <1>3, FrameAside
  <1>5. ShapeOK(u)'
    <2>1. passed \subseteq 1..EarlierGates + 1
      BY GatesAssumption
    <2>2. Command(u).kind = "gate" /\ job[u].command \in Commands[u]
      BY <1>0 DEF Gates, UserOK, ShapeOK
    <2> QED BY <1>0, <1>2, <1>3, <2>1, <2>2
            DEF UserOK, ShapeOK, Writing, Gates, Command, Labels
  <1>6. WritingOK(u)' /\ ReadingOK(u)'
    BY <1>0, <1>3, <1>4, KeepCounted DEF WritingOK, Writing, UserOK, ReadingOK
  <1>7. RecordsOK(u)' /\ ReportOK(u)'
    BY <1>3, <1>4, KeepRecords, KeepReport
  <1>8. GateOK(u)'
    <2>1. Runs(u)' = Runs(u) /\ Current(u)' = {} /\ Current(u) = {}
          /\ Pending(u)' = Pending(u)
      BY <1>0, <1>3 DEF Runs, Current, Pending, Writing
    <2>2. GateOK(u) /\ Last \notin passed
      BY <1>0, GatesAssumption DEF UserOK, Last
    <2>3. OneWorkload(u)' /\ IsFiniteSet(Runs(u))'
      BY <1>0, <1>3, <1>4, <2>1, <2>2, KeepOneWorkload DEF GateOK
    <2>4. OnPlan(u)'
      BY <1>0, <1>3, <2>1, <2>2 DEF OnPlan, GateOK, BaselinesOf
    <2> HIDE DEF Last
    <2> QED BY <1>3, <2>2, <2>3, <2>4 DEF GateOK
  <1> QED BY <1>0, <1>2, <1>4, <1>5, <1>6, <1>7, <1>8, Together DEF UserOK

\* After the last record a command exits with 0 only if all of them are valid.
LEMMA FinishKeeps ==
  ASSUME Inductive, NEW u \in Users, Finish(u)
  PROVE  Inductive'
  <1>0. /\ UserOK(u) /\ faults \in 0..MaxFaults /\ upset \subseteq RunIds
        /\ UNCHANGED <<dir, faults, outcome, upset>>
        /\ job[u].at = "mkdir" /\ job[u].todo = <<>>
    BY DEF Inductive, Finish
  <1>1. CASE Command(u).kind # "gate"
    <2>1. PICK code \in {"0", "2"} : Exit(u, code)
      BY <1>1 DEF Finish
    <2> QED BY <1>0, <1>1, <2>1, ExitKeeps DEF Exits, Gates
  <1>2. CASE Command(u).kind = "gate"
    <2>1. /\ job'[u] = [job[u] EXCEPT !.at = "examine"]
          /\ \A v \in Users \ {u} : job'[v] = job[v]
          /\ job' = [v \in Users |-> job'[v]]
      BY <1>2, OneMoves DEF Finish
    <2>2. Gates(u) /\ GateOK(u)
      BY <1>0, <1>2 DEF Gates, UserOK
    <2>3. /\ job'[u].at = "examine" /\ job'[u].command = job[u].command
          /\ job'[u].phase = "none" /\ job'[u].unread = job[u].unread
          /\ job'[u].read = job[u].read /\ job'[u].exit = "none"
          /\ job'[u].records = job[u].records
          /\ job'[u].passed = job[u].passed /\ job'[u].report = job[u].report
      BY <1>0, <2>1 DEF UserOK, ShapeOK, Writing
    <2>4. Frame(u)
      BY <1>0, <2>1, <2>3, FrameAside
    <2>5. ShapeOK(u)'
      BY <1>0, <1>2, <2>1, <2>2, <2>3 DEF UserOK, ShapeOK, Writing, Gates, Command, Labels
    <2>6. WritingOK(u)' /\ ReadingOK(u)'
      BY <1>0, <2>3, <2>4, KeepCounted DEF WritingOK, Writing, UserOK, ReadingOK
    <2>7. RecordsOK(u)' /\ ReportOK(u)'
      BY <2>3, <2>4, KeepRecords, KeepReport
    <2>8. GateOK(u)'
      <3>1. Runs(u)' = Runs(u) /\ Current(u)' = {} /\ Current(u) = {}
        BY <1>0, <2>3 DEF Runs, Current, Writing
      <3>2. OneWorkload(u)' /\ IsFiniteSet(Runs(u))'
        BY <2>2, <1>0, <2>3, <2>4, <3>1, KeepOneWorkload DEF GateOK
      <3>3. AllRan(u)
        <4>1. Pending(u) = 0 /\ Members(job[u].todo) = {}
          BY <1>0, FilesByName DEF Pending, Writing
        <4>2. Cardinality(Runs(u)) \in Nat
          BY <2>2, FS_CardinalityType DEF GateOK
        <4>3. /\ BaselinesOf(Runs(u) \cup {}) \cup {} = AnyBaseline
              /\ Cardinality(Runs(u)) + 0 = Len(BaselineOrder)
          BY <1>0, <2>2, <3>1, <4>1 DEF GateOK, OnPlan
        <4>4. Runs(u) \cup {} = Runs(u)
          OBVIOUS
        <4> QED BY <4>2, <4>3, <4>4 DEF AllRan
      <3> HIDE DEF Last
      <3> QED BY <1>0, <2>2, <2>3, <2>4, <3>2, <3>3, KeepRuns DEF GateOK
    <2> QED BY <1>0, <2>1, <2>4, <2>5, <2>6, <2>7, <2>8, Together DEF UserOK
  <1> QED BY <1>1, <1>2

-----------------------------------------------------------------------------
(* A run comes back.                                                       *)

\* What the files of a run say when run() returns.
LEMMA ReturnsWell ==
  ASSUME Inductive, NEW u \in Users, job[u].at = "open", job[u].left = <<>>,
         job[u].phase \in {"close", "handle"}
  PROVE  /\ Verdict(u).valid \in BOOLEAN
         /\ Backed([run |-> Run(u), valid |-> Verdict(u).valid])
         /\ Verdict(u).valid =>
              /\ outcome[Run(u)] # Nothing
              /\ File(Run(u), "correctness").hash = outcome[Run(u)].hash
              /\ File(Run(u), "metrics").policy = outcome[Run(u)].policy
         /\ \/ Verdict(u).valid \/ faults > 0
            \/ outcome[Run(u)] # Nothing /\ ~Passes(outcome[Run(u)])
  <1> DEFINE r == Run(u)
  <1>0. WritingOK(u) /\ Writing(u) /\ r \in RunIds
    BY DEF Inductive, UserOK, WritingOK, Writing
  <1>1. outcome[r] # Nothing => outcome[r] \in OutcomeType
    BY <1>0 DEF Inductive
  <1>2. \A f \in Members(Closing) : File(r, f) = Content(u, f)
    BY <1>0, FilesByName DEF WritingOK
  <1>3. \A f \in Members(Launch) : File(r, f) = "whole"
    BY <1>0, FilesByName DEF WritingOK
  <1>4. job[u].phase = "handle" \/ outcome[r] \in OutcomeType
    BY <1>0, <1>1 DEF WritingOK
  <1>5. \A f \in Artifacts : Content(u, f) \in FileType(f)
    BY <1>4, ContentFits
  <1>6. \A f \in Artifacts : Legible(r, f)
    <2>1. \A f \in Members(Launch) : "whole" \in FileType(f)
      BY FilesByName DEF FileType
    <2>2. \A f \in Artifacts : File(r, f) \in FileType(f)
      BY <1>2, <1>3, <1>5, <2>1, FilesByName
    <2> QED BY <2>2, Whole DEF Legible
  <1>7. /\ File(r, "correctness") = Verdict(u) /\ File(r, "summary") = Verdict(u).valid
        /\ File(r, "metrics") = Numbers(u)
    BY <1>2, FilesByName DEF Content
  <1>8. Verdict(u).valid \in BOOLEAN
    <2>1. Content(u, "summary") \in FileType("summary")
      BY <1>5, FilesByName
    <2> QED BY <2>1 DEF Content, FileType
  <1>9. CASE job[u].phase = "handle"
    <2>1. Verdict(u).valid = FALSE /\ faults > 0
      BY <1>0, <1>9 DEF Verdict, WritingOK
    <2> QED BY <1>6, <1>7, <2>1 DEF Backed
  <1>10. CASE job[u].phase = "close"
    <2>1. /\ Verdict(u) = [valid |-> Passes(outcome[r]), hash |-> outcome[r].hash,
                           error |-> FALSE]
          /\ Numbers(u) = [values |-> Settings(outcome[r].policy),
                           policy |-> outcome[r].policy]
      BY <1>10, Zenon DEF Verdict, Numbers
    <2>2. /\ Verdict(u).valid <=> Passes(outcome[r])
          /\ Verdict(u).hash = outcome[r].hash
          /\ Numbers(u).values = Settings(outcome[r].policy)
          /\ Numbers(u).policy = outcome[r].policy
      <3> DEFINE b == Passes(outcome[r])
                 h == outcome[r].hash
      <3>1. b \in BOOLEAN
        BY DEF Passes
      <3>2. Verdict(u) = [valid |-> b, hash |-> h, error |-> FALSE]
        BY <2>1
      <3> HIDE DEF b, h
      <3>3. Verdict(u).valid = b /\ Verdict(u).hash = h
        BY <3>1, <3>2
      <3>4. Numbers(u).values = Settings(outcome[r].policy)
            /\ Numbers(u).policy = outcome[r].policy
        BY <2>1
      <3> QED BY <3>3, <3>4 DEF b, h
    <2>3. outcome[r] # Nothing /\ outcome[r].policy \in AnyPolicy
      BY <1>0, <1>1, <1>10 DEF WritingOK, OutcomeType
    <2>4. Settings(outcome[r].policy) # Nothing
      BY <2>3, AbsentAssumption
    <2> HIDE DEF r
    <2>5. Backed([run |-> r, valid |-> Verdict(u).valid])
      <3> DEFINE record == [run |-> r, valid |-> Verdict(u).valid]
      <3>1. record.run = r /\ record.valid = Verdict(u).valid
        BY <1>8
      <3> HIDE DEF record
      <3> QED BY <1>6, <1>7, <2>2, <2>4, <3>1 DEF Backed, record
    <2> QED BY <1>7, <1>8, <2>2, <2>3, <2>5 DEF r
  <1> QED BY <1>8, <1>9, <1>10

\* A run returns when its files are closed: its record is settled.
LEMMA ReturnKeeps ==
  ASSUME Inductive, NEW u \in Users, Return(u)
  PROVE  Inductive'
  <1>0. /\ UserOK(u) /\ faults \in 0..MaxFaults /\ upset \subseteq RunIds
        /\ UNCHANGED <<dir, faults, outcome, upset>>
        /\ job[u].at = "open" /\ job[u].left = <<>> /\ job[u].phase \in {"close", "handle"}
    BY DEF Inductive, Return
  <1> PICK new : new = [run |-> Run(u), valid |-> Verdict(u).valid]
    OBVIOUS
  <1>1. /\ job'[u] = [job[u] EXCEPT !.at = "mkdir", !.run = Nothing, !.phase = "none",
                                    !.records = job[u].records \cup {new}]
        /\ \A v \in Users \ {u} : job'[v] = job[v]
        /\ job' = [v \in Users |-> job'[v]]
    <2>1. Become(u, [job[u] EXCEPT !.at = "mkdir", !.run = Nothing, !.phase = "none",
                                   !.records = job[u].records \cup {new}])
      BY <1>0 DEF Return, UserOK, ShapeOK
    <2> QED BY <2>1, OneMoves
  <1>2. /\ Run(u) \in RunIds /\ dir[Run(u)] # Nothing /\ Writing(u)
        /\ \A v \in Users : Writing(v) /\ Run(v) = Run(u) => v = u
    BY <1>0 DEF UserOK, WritingOK, Writing
  <1>3. /\ Verdict(u).valid \in BOOLEAN /\ Backed(new)
        /\ Verdict(u).valid =>
             /\ outcome[Run(u)] # Nothing
             /\ File(Run(u), "correctness").hash = outcome[Run(u)].hash
             /\ File(Run(u), "metrics").policy = outcome[Run(u)].policy
        /\ \/ Verdict(u).valid \/ faults > 0
           \/ outcome[Run(u)] # Nothing /\ ~Passes(outcome[Run(u)])
    BY <1>0, ReturnsWell
  <1>4. new \in [run : RunIds, valid : BOOLEAN] /\ new.run = Run(u)
        /\ new.valid = Verdict(u).valid
    BY <1>2, <1>3
  <1>5. /\ job'[u].at = "mkdir" /\ job'[u].command = job[u].command
        /\ job'[u].todo = job[u].todo
        /\ job'[u].phase = "none" /\ job'[u].unread = job[u].unread
        /\ job'[u].read = job[u].read /\ job'[u].exit = job[u].exit
        /\ job'[u].records = job[u].records \cup {new}
        /\ job'[u].passed = job[u].passed /\ job'[u].report = job[u].report
        /\ job'[u].left = job[u].left
    BY <1>0, <1>1 DEF UserOK, ShapeOK
  <1>6. Frame(u)
    BY <1>0, <1>1, <1>5, FrameAside
  <1>7. ShapeOK(u)'
    BY <1>0, <1>1, <1>4, <1>5 DEF UserOK, ShapeOK, Writing, Gates, Command, Labels
  <1>8. WritingOK(u)' /\ ReadingOK(u)'
    BY <1>0, <1>5, <1>6, KeepCounted DEF WritingOK, Writing, UserOK, ReadingOK
  <1>9. ReportOK(u)'
    BY <1>5, <1>6, KeepReport
  <1>10. Unwritten(new.run)'
    BY <1>1, <1>2, <1>4, <1>5 DEF Unwritten, Writing, Run
  <1>11. RecordsOK(u)'
    <2>1. \A record \in job[u].records : Settled(record)'
      <3>1. \A record \in job[u].records : Settled(record) /\ record.run \in RunIds
        BY <1>0 DEF UserOK, ShapeOK, RecordsOK
      <3> QED BY <1>6, <3>1, KeepSettled
    <2>2. Settled(new)'
      <3>1. Backed(new)'
        BY <1>0, <1>3 DEF Backed, File, Legible
      <3> QED BY <1>0, <1>2, <1>3, <1>4, <1>10, <3>1 DEF Settled, File
    <2> QED BY <1>5, <2>1, <2>2 DEF RecordsOK
  <1>12. GateOK(u)'
    <2> SUFFICES ASSUME Gates(u)'
                 PROVE  GateOK(u)'
      BY DEF GateOK
    <2>1. Gates(u) /\ GateOK(u) /\ Runs(u)' = Runs(u) \cup {Run(u)}
          /\ Current(u)' = {} /\ Current(u) = {Run(u)}
      BY <1>0, <1>2, <1>4, <1>5 DEF UserOK, Gates, Command, Runs, Current, Writing
    <2>2. OneWorkload(u)'
      BY <1>0, <1>5, <1>6, <2>1, KeepOneWorkload
    <2>3. Run(u) \notin Runs(u)
      BY <1>0, <1>2 DEF UserOK, RecordsOK, Settled, Unwritten, Runs
    <2>4. /\ IsFiniteSet(Runs(u))' /\ Cardinality(Runs(u)) \in Nat
          /\ Cardinality(Runs(u))' = Cardinality(Runs(u)) + 1
      BY <2>1, <2>3, FS_AddElement, FS_CardinalityType DEF GateOK
    <2>5. Pending(u) = Pending(u)' + 1 /\ Pending(u)' \in Nat
      <3>1. Len(job[u].todo) \in Nat
        BY <1>0, LenProperties DEF UserOK, ShapeOK
      <3> QED BY <1>2, <1>5, <3>1 DEF Pending, Writing
    <2>6. OnPlan(u)'
      <3>1. OnPlan(u)
        BY <1>0, <2>1 DEF GateOK
      <3>2. BaselinesOf(Runs(u) \cup Current(u))' = BaselinesOf(Runs(u) \cup Current(u))
        BY <1>0, <2>1 DEF BaselinesOf
      <3> QED BY <1>5, <2>4, <2>5, <3>1, <3>2 DEF OnPlan
    <2>7. Last \notin job[u].passed /\ job[u].exit = "none"
      BY <1>0, <2>1 DEF GateOK, UserOK, ShapeOK
    <2> HIDE DEF Last
    <2> QED BY <1>5, <2>2, <2>4, <2>6, <2>7 DEF GateOK
  <1> QED BY <1>0, <1>1, <1>6, <1>7, <1>8, <1>9, <1>11, <1>12, Together DEF UserOK

-----------------------------------------------------------------------------
(* The last gate looks at its runs.                                        *)

\* What the records of the gate say, when nothing was raised and every workload passed.
LEMMA RunsOfRecords ==
  ASSUME Inductive, NEW u \in Users
  PROVE  /\ \A r \in Runs(u) : \A f \in Artifacts : Legible(r, f)
         /\ ~Cause(u) => AllValid(u)
         /\ AllValid(u) => \A r \in Runs(u) :
              /\ File(r, "correctness").valid
              /\ File(r, "correctness").hash = outcome[r].hash
              /\ File(r, "metrics").policy = outcome[r].policy
              /\ outcome[r] # Nothing
  <1>1. \A record \in job[u].records : Settled(record)
    BY DEF Inductive, UserOK, RecordsOK
  <1>2. \A r \in Runs(u) : \A f \in Artifacts : Legible(r, f)
    BY <1>1 DEF Runs, Settled, Backed
  <1>3. ~Cause(u) => AllValid(u)
    BY <1>1 DEF Runs, Settled, Cause, AllValid
  <1>4. \A record \in job[u].records : record.valid \in BOOLEAN
    BY DEF Inductive, UserOK, ShapeOK
  <1>5. AllValid(u) => \A r \in Runs(u) :
          /\ File(r, "correctness").valid
          /\ File(r, "correctness").hash = outcome[r].hash
          /\ File(r, "metrics").policy = outcome[r].policy
          /\ outcome[r] # Nothing
    BY <1>1, <1>4 DEF Runs, Settled, Backed, AllValid
  <1> QED BY <1>2, <1>3, <1>5

\* So it finds them sound, or there is a cause.
LEMMA ExaminesWell ==
  ASSUME Inductive, NEW u \in Users, AllRan(u), ~Cause(u)
  PROVE  Sound(u)
  <1>1. AllValid(u) /\ \A r \in Runs(u) : File(r, "correctness").hash = outcome[r].hash
    BY RunsOfRecords
  <1>2. \A r, q \in Runs(u) : outcome[r].hash = outcome[q].hash
    BY DEF Cause
  <1>3. PICK r \in Runs(u) : TRUE
    BY BaselinesInOrder DEF AllRan, BaselinesOf
  <1>4. Hashes(Runs(u)) = {outcome[r].hash}
    BY <1>1, <1>2, <1>3 DEF Hashes
  <1>5. Cardinality(Hashes(Runs(u))) = 1
    BY <1>4, FS_Singleton
  <1> QED BY <1>1, <1>5, RunsOfRecords, FilesByName DEF Sound, AllRan, Legible

\* The last gate compares only what it found sound, and fails for a cause.
LEMMA ExamineKeeps ==
  ASSUME Inductive, NEW u \in Users, Examine(u)
  PROVE  Inductive'
  <1>0. /\ UserOK(u) /\ faults \in 0..MaxFaults /\ upset \subseteq RunIds
        /\ UNCHANGED <<dir, faults, outcome, upset>>
        /\ job[u].at = "examine" /\ Gates(u) /\ AllRan(u)
    BY DEF Inductive, Examine, UserOK, ShapeOK, GateOK
  <1>1. CASE ~Sound(u)
    <2>1. Gated(u, FALSE) /\ Cause(u)
      BY <1>0, <1>1, ExaminesWell DEF Examine
    <2> QED BY <1>0, <2>1, GatedKeeps
  <1>2. CASE Sound(u)
    <2>1. /\ job'[u] = [job[u] EXCEPT !.at = "choose", !.unread = Runs(u)]
          /\ \A v \in Users \ {u} : job'[v] = job[v]
          /\ job' = [v \in Users |-> job'[v]]
      BY <1>2, OneMoves DEF Examine
    <2>2. /\ job'[u].at = "choose" /\ job'[u].command = job[u].command
          /\ job'[u].phase = "none" /\ job'[u].unread = Runs(u)
          /\ job'[u].read = job[u].read /\ job'[u].exit = "none"
          /\ job'[u].records = job[u].records
          /\ job'[u].passed = job[u].passed /\ job'[u].report = job[u].report
      BY <1>0, <2>1 DEF UserOK, ShapeOK, Writing
    <2>3. Frame(u)
      BY <1>0, <2>1, <2>2, FrameAside
    <2>4. ShapeOK(u)'
      <3>1. Command(u).kind = "gate"
        BY <1>0 DEF Gates
      <3> QED BY <1>0, <2>1, <2>2, <3>1
              DEF UserOK, ShapeOK, Writing, Gates, Command, Labels
    <2>5. \A r \in Runs(u) : r \in RunIds /\ dir[r] # Nothing
      <3>1. \A record \in job[u].records : record.run \in RunIds /\ Settled(record)
        BY <1>0 DEF UserOK, ShapeOK, RecordsOK
      <3> QED BY <3>1 DEF Settled, Runs
    <2>6. WritingOK(u)' /\ ReadingOK(u)'
      BY <1>0, <2>2, <2>3, <2>5, KeepCounted DEF WritingOK, Writing, UserOK, ReadingOK
    <2>7. RecordsOK(u)' /\ ReportOK(u)'
      BY <2>2, <2>3, KeepRecords, KeepReport
    <2>8. GateOK(u)'
      <3>1. Runs(u)' = Runs(u) /\ Current(u)' = {} /\ Taking(u)' = {} /\ GateOK(u)
        BY <1>0, <2>2 DEF Runs, Current, Writing, Taking, UserOK
      <3>2. OneWorkload(u)' /\ IsFiniteSet(Runs(u))'
        BY <1>0, <2>2, <2>3, <3>1, KeepOneWorkload DEF GateOK
      <3>3. ReadsAll(u)'
        BY <1>0, <2>2, <3>1 DEF ReadsAll, UserOK, ShapeOK
      <3>4. Last \notin job[u].passed
        BY <1>0, <3>1 DEF GateOK
      <3> HIDE DEF Last
      <3> QED BY <1>0, <1>2, <2>2, <2>3, <3>2, <3>3, <3>4, KeepRuns DEF GateOK
    <2> QED BY <1>0, <2>1, <2>3, <2>4, <2>6, <2>7, <2>8, Together DEF UserOK
  <1> QED BY <1>1, <1>2

-----------------------------------------------------------------------------
(* Runs are read.                                                          *)

\* A comparison takes the next directory of its list.
LEMMA ChooseKeeps ==
  ASSUME Inductive, NEW u \in Users, Choose(u)
  PROVE  Inductive'
  <1>0. /\ UserOK(u) /\ faults \in 0..MaxFaults /\ upset \subseteq RunIds
        /\ UNCHANGED <<dir, faults, outcome, upset>> /\ job[u].at = "choose"
    BY DEF Inductive, Choose
  <1>1. PICK r \in job[u].unread :
          Become(u, [job[u] EXCEPT !.at = "read", !.run = r,
            !.unread = job[u].unread \ {r},
            !.left = ReadFirst, !.part = [f \in {} |-> 0]])
    BY <1>0 DEF Choose, ReadFirst, UserOK, ShapeOK
  <1>2. /\ job'[u] = [job[u] EXCEPT !.at = "read", !.run = r,
            !.unread = job[u].unread \ {r},
            !.left = ReadFirst, !.part = [f \in {} |-> 0]]
        /\ \A v \in Users \ {u} : job'[v] = job[v]
        /\ job' = [v \in Users |-> job'[v]]
    BY <1>1, OneMoves
  <1>3. /\ job'[u].at = "read" /\ job'[u].command = job[u].command
        /\ job'[u].todo = job[u].todo /\ job'[u].run = r
        /\ job'[u].phase = "none" /\ job'[u].unread = job[u].unread \ {r}
        /\ job'[u].read = job[u].read /\ job'[u].exit = "none"
        /\ job'[u].records = job[u].records /\ job'[u].left = ReadFirst
        /\ job'[u].passed = job[u].passed /\ job'[u].report = job[u].report
        /\ job'[u].part = [f \in {} |-> 0]
    <2> HIDE DEF ReadFirst
    <2> QED BY <1>0, <1>2 DEF UserOK, ShapeOK, Writing
  <1>4. DOMAIN job'[u].part = {} /\ r \in RunIds /\ dir[r] # Nothing
    BY <1>0, <1>3 DEF UserOK, ReadingOK
  <1>5. Frame(u)
    BY <1>0, <1>2, <1>3, FrameAside
  <1>6. ShapeOK(u)'
    <2> HIDE DEF ReadFirst
    <2>1. job'[u] = [at |-> job'[u].at, command |-> job'[u].command,
              todo |-> job'[u].todo, run |-> job'[u].run,
              phase |-> job'[u].phase, left |-> job'[u].left, records |-> job'[u].records,
              unread |-> job'[u].unread, part |-> job'[u].part, read |-> job'[u].read,
              passed |-> job'[u].passed, report |-> job'[u].report, exit |-> job'[u].exit]
      BY <1>0, <1>2 DEF UserOK, ShapeOK
    <2> QED BY <1>0, <1>3, <2>1, FilesByName
            DEF UserOK, ShapeOK, Writing, Gates, Command, Labels
  <1>7. WritingOK(u)'
    BY <1>3 DEF WritingOK, Writing
  <1>8. ReadingOK(u)'
    <2>1. \A x \in job[u].read : Counted(x)'
      BY <1>0, <1>5, KeepCounted DEF UserOK, ReadingOK
    <2>2. \A x \in job[u].unread : x \in RunIds /\ dir[x] # Nothing
      BY <1>0 DEF UserOK, ReadingOK
    <2> HIDE DEF ReadFirst
    <2> QED BY <1>0, <1>3, <1>4, <2>1, <2>2 DEF ReadingOK, Run
  <1>9. RecordsOK(u)' /\ ReportOK(u)'
    BY <1>3, <1>5, KeepRecords, KeepReport
  <1>10. GateOK(u)'
    <2> SUFFICES ASSUME Gates(u)'
                 PROVE  GateOK(u)'
      BY DEF GateOK
    <2>1. Gates(u) /\ GateOK(u)
      BY <1>0, <1>3 DEF Gates, Command, UserOK
    <2>2. Current(u)' = {} /\ Taking(u)' = {r} /\ Taking(u) = {} /\ Runs(u)' = Runs(u)
      BY <1>0, <1>3 DEF Current, Writing, Taking, Run, Runs
    <2>3. OneWorkload(u)' /\ IsFiniteSet(Runs(u))'
      BY <1>0, <1>3, <1>5, <2>1, <2>2, KeepOneWorkload DEF GateOK
    <2>4. ReadsAll(u)'
      <3>1. ReadsAll(u)
        BY <1>0, <2>1 DEF GateOK
      <3>2. \A q : TrueReading(q)' = TrueReading(q)
        BY <1>0 DEF TrueReading, File
      <3>3. Runs(u) \ (job[u].unread \cup {}) = Runs(u) \ ((job[u].unread \ {r}) \cup {r})
        BY <1>1
      <3> QED BY <1>0, <1>1, <1>3, <1>4, <2>2, <3>1, <3>2, <3>3 DEF ReadsAll
    <2>5. Last \notin job[u].passed
      BY <1>0, <2>1 DEF GateOK
    <2> HIDE DEF Last
    <2> QED BY <1>0, <1>3, <1>5, <2>1, <2>3, <2>4, <2>5, KeepRuns DEF GateOK
  <1> QED BY <1>0, <1>2, <1>5, <1>6, <1>7, <1>8, <1>9, <1>10, Together DEF UserOK

\* What it reads was true of the run when it was read, and stays true of it.
LEMMA ReadFileKeeps ==
  ASSUME Inductive, NEW u \in Users, ReadFile(u)
  PROVE  Inductive'
  <1>0. /\ UserOK(u) /\ faults \in 0..MaxFaults /\ upset \subseteq RunIds
        /\ UNCHANGED <<dir, faults, outcome, upset>>
        /\ job[u].at = "read" /\ job[u].left # <<>>
    BY DEF Inductive, ReadFile
  <1>1. /\ Run(u) \in RunIds /\ dir[Run(u)] # Nothing
        /\ job[u].left \in Seq(Artifacts) /\ Head(job[u].left) \in Artifacts
        /\ Tail(job[u].left) \in Seq(Artifacts)
        /\ Members(job[u].left) = {Head(job[u].left)} \cup Members(Tail(job[u].left))
    <2>1. job[u].left \in Seq(Artifacts)
      BY <1>0 DEF UserOK, ShapeOK
    <2> QED BY <1>0, <2>1, Rest DEF UserOK, ReadingOK
  <1> PICK f \in Artifacts, rest \in Seq(Artifacts), r \in RunIds :
        f = Head(job[u].left) /\ rest = Tail(job[u].left) /\ r = Run(u)
    BY <1>1
  <1>2. CASE ~Legible(r, f)
    <2>1. ~Gates(u)
      <3> SUFFICES ASSUME Gates(u)
                   PROVE  FALSE
        OBVIOUS
      <3>1. r \in Runs(u)
        BY <1>0 DEF UserOK, GateOK, ReadsAll, Taking
      <3> QED BY <1>2, <3>1, RunsOfRecords
    <2>2. Escape(u, FALSE)
      BY <1>2, Zenon DEF ReadFile
    <2> QED BY <1>0, <2>1, <2>2, EscapeKeeps
  <1>3. CASE Legible(r, f)
    <2> PICK part : part = [g \in DOMAIN job[u].part \cup {f} |->
                              IF g = f THEN File(r, f) ELSE job[u].part[g]]
      OBVIOUS
    <2>1. /\ job'[u] = [job[u] EXCEPT !.left = rest, !.part = part]
          /\ \A v \in Users \ {u} : job'[v] = job[v]
          /\ job' = [v \in Users |-> job'[v]]
      <3>1. Become(u, [job[u] EXCEPT !.left = rest, !.part = part])
        BY <1>0, <1>3 DEF ReadFile, UserOK, ShapeOK
      <3> QED BY <3>1, OneMoves
    <2>2. /\ DOMAIN part = DOMAIN job[u].part \cup {f} /\ part[f] = File(r, f)
          /\ \A g \in DOMAIN job[u].part : g # f => part[g] = job[u].part[g]
      OBVIOUS
    <2>3. /\ job'[u].at = "read" /\ job'[u].command = job[u].command
          /\ job'[u].todo = job[u].todo /\ job'[u].run = job[u].run
          /\ job'[u].phase = "none" /\ job'[u].unread = job[u].unread
          /\ job'[u].read = job[u].read /\ job'[u].exit = "none"
          /\ job'[u].records = job[u].records /\ job'[u].left = rest
          /\ job'[u].passed = job[u].passed /\ job'[u].report = job[u].report
          /\ job'[u].part = part
      BY <1>0, <2>1 DEF UserOK, ShapeOK, Writing
    <2>4. Frame(u)
      BY <1>0, <2>1, <2>3, FrameAside
    <2>5. ShapeOK(u)'
      BY <1>0, <2>1, <2>3 DEF UserOK, ShapeOK, Writing, Gates, Command, Labels
    <2>6. WritingOK(u)'
      BY <2>3 DEF WritingOK, Writing
    <2>7. ReadingOK(u)'
      <3>1. \A x \in job[u].read : Counted(x)'
        BY <1>0, <2>4, KeepCounted DEF UserOK, ReadingOK
      <3>2. \A x \in job[u].unread : x \in RunIds /\ dir[x] # Nothing
        BY <1>0 DEF UserOK, ReadingOK
      <3>3. "correctness" \in DOMAIN part => Justified(r, part["correctness"])
        <4>1. CASE f = "correctness"
          <5>1. DirOK(r)
            BY DEF Inductive
          <5> QED BY <1>1, <1>3, <2>2, <4>1, <5>1 DEF DirOK
        <4>2. CASE f # "correctness"
          BY <1>0, <2>2, <4>2 DEF UserOK, ReadingOK
        <4> QED BY <4>1, <4>2
      <3>4. "metrics" \in DOMAIN part => Numbered(r, part["metrics"])
        <4>1. CASE f = "metrics"
          <5>1. DirOK(r)
            BY DEF Inductive
          <5> QED BY <1>1, <1>3, <2>2, <4>1, <5>1 DEF DirOK
        <4>2. CASE f # "metrics"
          BY <1>0, <2>2, <4>2 DEF UserOK, ReadingOK
        <4> QED BY <4>1, <4>2
      <3>5. Members(ReadFirst) \subseteq Members(rest) \cup DOMAIN part
        BY <1>0, <1>1, <2>2 DEF UserOK, ReadingOK
      <3>6. /\ "correctness" \in DOMAIN part => Justified(r, part["correctness"])'
            /\ "metrics" \in DOMAIN part => Numbered(r, part["metrics"])'
        <4>1. Launched(r)' <=> Launched(r)
          <5>1. \A v \in Users : /\ Writing(v)' <=> Writing(v)
                                 /\ Writing(v) => Run(v)' = Run(v) /\ v # u
                                 /\ v # u => job'[v].phase = job[v].phase
            BY <1>0, <2>1, <2>3 DEF Writing, Run
          <5> QED BY <5>1 DEF Launched
        <4> QED BY <1>0, <3>3, <3>4, <4>1 DEF Justified, Numbered
      <3>7. Run(u)' = r /\ Run(u)' \in RunIds
        BY <2>3 DEF Run
      <3> QED BY <1>0, <1>1, <2>3, <3>1, <3>2, <3>5, <3>6, <3>7 DEF ReadingOK
    <2>8. RecordsOK(u)' /\ ReportOK(u)'
      BY <2>3, <2>4, KeepRecords, KeepReport
    <2>9. GateOK(u)'
      <3> SUFFICES ASSUME Gates(u)'
                   PROVE  GateOK(u)'
        BY DEF GateOK
      <3>1. Gates(u) /\ GateOK(u)
        BY <1>0, <2>3 DEF Gates, Command, UserOK
      <3>2. Current(u)' = {} /\ Taking(u)' = Taking(u) /\ Runs(u)' = Runs(u)
            /\ Run(u)' = Run(u)
        BY <1>0, <2>3 DEF Current, Writing, Taking, Run, Runs
      <3>3. OneWorkload(u)' /\ IsFiniteSet(Runs(u))'
        BY <1>0, <2>3, <2>4, <3>1, <3>2, KeepOneWorkload DEF GateOK
      <3>4. ReadsAll(u)'
        <4>1. ReadsAll(u)
          BY <1>0, <3>1 DEF GateOK
        <4>2. \A q : TrueReading(q)' = TrueReading(q)
          BY <1>0 DEF TrueReading, File
        <4>3. \A g \in DOMAIN part : part[g] = File(r, g)
          BY <1>0, <2>2, <4>1 DEF ReadsAll
        <4>4. \A g \in DOMAIN part : File(r, g)' = File(r, g)
          BY <1>0 DEF File
        <4>5. job'[u].part = part /\ \A g \in DOMAIN part : part[g] = File(r, g)'
          <5>1. job'[u].part = part
            BY <2>3
          <5>2. \A g \in DOMAIN part : part[g] = File(r, g)'
            BY <4>3, <4>4
          <5> QED BY <5>1, <5>2
        <4>6. job'[u].read = {TrueReading(q)' :
                q \in Runs(u) \ (job[u].unread \cup Taking(u))}
          BY <2>3, <4>1, <4>2 DEF ReadsAll
        <4>7. job'[u].unread = job[u].unread /\ Run(u)' = r
          BY <2>3, <3>2 DEF Run
        <4> QED BY <3>2, <4>1, <4>5, <4>6, <4>7 DEF ReadsAll
      <3>5. Last \notin job[u].passed
        BY <1>0, <3>1 DEF GateOK
      <3> HIDE DEF Last
      <3> QED BY <1>0, <2>3, <2>4, <3>1, <3>3, <3>4, <3>5, KeepRuns DEF GateOK
    <2> QED BY <1>0, <2>1, <2>4, <2>5, <2>6, <2>7, <2>8, <2>9, Together DEF UserOK
  <1> QED BY <1>2, <1>3

\* The files read of a run, at different times, make a reading that counts.
LEMMA TakeRunKeeps ==
  ASSUME Inductive, NEW u \in Users, TakeRun(u)
  PROVE  Inductive'
  <1>0. /\ UserOK(u) /\ faults \in 0..MaxFaults /\ upset \subseteq RunIds
        /\ UNCHANGED <<dir, faults, outcome, upset>>
        /\ job[u].at = "read" /\ job[u].left = <<>>
    BY DEF Inductive, TakeRun
  <1> PICK x : x = Reading(Run(u), dir[Run(u)], job[u].part["correctness"],
                           job[u].part["metrics"])
    OBVIOUS
  <1>1. /\ job'[u] = [job[u] EXCEPT !.at = "choose", !.run = Nothing, !.part = Nothing,
                                    !.read = job[u].read \cup {x}]
        /\ \A v \in Users \ {u} : job'[v] = job[v]
        /\ job' = [v \in Users |-> job'[v]]
    <2>1. Become(u, [job[u] EXCEPT !.at = "choose", !.run = Nothing, !.part = Nothing,
                                   !.read = job[u].read \cup {x}])
      BY <1>0 DEF TakeRun, UserOK, ShapeOK
    <2> QED BY <2>1, OneMoves
  <1>2. /\ job'[u].at = "choose" /\ job'[u].command = job[u].command
        /\ job'[u].todo = job[u].todo
        /\ job'[u].phase = "none" /\ job'[u].unread = job[u].unread
        /\ job'[u].read = job[u].read \cup {x} /\ job'[u].exit = "none"
        /\ job'[u].records = job[u].records /\ job'[u].left = job[u].left
        /\ job'[u].passed = job[u].passed /\ job'[u].report = job[u].report
    BY <1>0, <1>1 DEF UserOK, ShapeOK, Writing
  <1>3. Frame(u)
    BY <1>0, <1>1, <1>2, FrameAside
  <1>4. ShapeOK(u)'
    BY <1>0, <1>1, <1>2 DEF UserOK, ShapeOK, Writing, Gates, Command, Labels
  <1>5. "correctness" \in DOMAIN job[u].part /\ "metrics" \in DOMAIN job[u].part
    BY <1>0, FilesByName DEF UserOK, ReadingOK
  <1>6. Counted(x)
    <2>1. /\ Justified(Run(u), job[u].part["correctness"]) /\ Run(u) \in RunIds
          /\ Numbered(Run(u), job[u].part["metrics"])
      BY <1>0, <1>5 DEF UserOK, ReadingOK
    <2>2. /\ x.run = Run(u) /\ x.metrics = job[u].part["metrics"].values
      BY DEF Reading
    <2>3. x.valid <=> job[u].part["correctness"].valid
      BY DEF Reading
    <2> QED BY <2>1, <2>2, <2>3 DEF Counted, Justified, Numbered
  <1>7. WritingOK(u)' /\ ReadingOK(u)'
    <2>1. \A y \in job[u].read \cup {x} : Counted(y)'
      BY <1>0, <1>3, <1>6, KeepCounted DEF UserOK, ReadingOK
    <2> QED BY <1>0, <1>2, <2>1 DEF WritingOK, Writing, UserOK, ReadingOK
  <1>8. RecordsOK(u)' /\ ReportOK(u)'
    BY <1>2, <1>3, KeepRecords, KeepReport
  <1>9. GateOK(u)'
    <2> SUFFICES ASSUME Gates(u)'
                 PROVE  GateOK(u)'
      BY DEF GateOK
    <2>1. Gates(u) /\ GateOK(u)
      BY <1>0, <1>2 DEF Gates, Command, UserOK
    <2>2. Current(u)' = {} /\ Taking(u)' = {} /\ Taking(u) = {Run(u)}
          /\ Runs(u)' = Runs(u)
      BY <1>0, <1>2 DEF Current, Writing, Taking, Run, Runs
    <2>3. OneWorkload(u)' /\ IsFiniteSet(Runs(u))'
      BY <1>0, <1>2, <1>3, <2>1, <2>2, KeepOneWorkload DEF GateOK
    <2>4. ReadsAll(u)'
      <3>1. ReadsAll(u)
        BY <1>0, <2>1 DEF GateOK
      <3>2. \A q : TrueReading(q)' = TrueReading(q)
        BY <1>0 DEF TrueReading, File
      <3>3. x = TrueReading(Run(u))
        BY <1>0, <1>5, <3>1 DEF ReadsAll, TrueReading
      <3>4. Runs(u) \ (job[u].unread \cup {}) =
              (Runs(u) \ (job[u].unread \cup {Run(u)})) \cup {Run(u)}
        BY <2>2, <3>1 DEF ReadsAll
      <3>5. job[u].read \cup {x} = {TrueReading(q) : q \in Runs(u) \ (job[u].unread \cup {})}
        BY <2>2, <3>1, <3>3, <3>4 DEF ReadsAll
      <3> QED BY <1>0, <1>2, <2>2, <3>1, <3>2, <3>5 DEF ReadsAll
    <2>5. Last \notin job[u].passed
      BY <1>0, <2>1 DEF GateOK
    <2> HIDE DEF Last
    <2> QED BY <1>0, <1>2, <1>3, <2>1, <2>3, <2>4, <2>5, KeepRuns DEF GateOK
  <1> QED BY <1>0, <1>1, <1>3, <1>4, <1>7, <1>8, <1>9, Together DEF UserOK

-----------------------------------------------------------------------------
(* The comparison.                                                         *)

\* What a report says, field by field.
LEMMA ReportParts ==
  ASSUME NEW runs
  PROVE  /\ Report(runs).comparison_compatible <=> Warnings(runs) = {}
         /\ Report(runs).valid_run_count = Cardinality(Valid(runs))
         /\ Report(runs).by_baseline = [b \in Baselines(runs) |-> Bucket(runs, b)]
  BY DEF Report

\* The last gate finds its runs comparable, all valid and the AI heard, or there is a
\* cause.
LEMMA ComparesWell ==
  ASSUME Inductive, NEW u \in Users, Gates(u), job[u].at = "choose", job[u].unread = {},
         ~Cause(u)
  PROVE  /\ Report(job[u].read).comparison_compatible
         /\ Report(job[u].read).valid_run_count = Len(BaselineOrder)
         /\ AIHeard(u)
  <1> DEFINE read == job[u].read
  <1>0. /\ GateOK(u) /\ OneWorkload(u) /\ AllRan(u) /\ ReadsAll(u) /\ IsFiniteSet(Runs(u))
    BY DEF Inductive, UserOK, GateOK
  <1>1. /\ AllValid(u)
        /\ \A r \in Runs(u) : /\ File(r, "correctness").valid
                              /\ File(r, "metrics").policy = outcome[r].policy
                              /\ outcome[r] # Nothing
    BY RunsOfRecords
  <1>2. read = {TrueReading(r) : r \in Runs(u)}
    <2>1. Taking(u) = {} /\ Runs(u) \ ({} \cup {}) = Runs(u)
      BY DEF Taking
    <2> QED BY <1>0, <2>1 DEF ReadsAll
  <1>3. \A r \in Runs(u) :
          /\ TrueReading(r).run = r
          /\ TrueReading(r).workload = Command(u).workload
          /\ TrueReading(r).seed = Command(u).seed
          /\ TrueReading(r).valid
    <2>1. \A r \in Runs(u) : dir[r].workload = Command(u).workload
                             /\ dir[r].seed = Command(u).seed
      BY <1>0 DEF OneWorkload
    <2>2. \A r : /\ TrueReading(r).run = r
                 /\ TrueReading(r).workload = dir[r].workload
                 /\ TrueReading(r).seed = dir[r].seed
                 /\ TrueReading(r).valid <=> File(r, "correctness").valid
      BY DEF TrueReading, Reading
    <2> QED BY <1>1, <2>1, <2>2
  <1> HIDE DEF read
  <1>4. Warnings(read) = {}
    <2>1. \A x, y \in read : x.workload = y.workload /\ x.seed = Command(u).seed
      BY <1>2, <1>3
    <2>2. \A b \in Baselines(read) : Seeds(read, b) = {Command(u).seed}
      BY <2>1 DEF Seeds, Baselines, Of
    <2> QED BY <2>1, <2>2 DEF Warnings
  <1>5. Cardinality(Valid(read)) = Len(BaselineOrder)
    <2>1. Valid(read) = read
      BY <1>2, <1>3 DEF Valid
    <2> DEFINE g == [r \in Runs(u) |-> TrueReading(r)]
    <2>2. \A x, y \in Runs(u) : g[x] = g[y] => x = y
      BY <1>3
    <2>3. {g[r] : r \in Runs(u)} = read
      BY <1>2
    <2> HIDE DEF g
    <2>4. Cardinality({g[r] : r \in Runs(u)}) = Cardinality(Runs(u))
      BY <1>0, <2>2, Images
    <2> QED BY <1>0, <2>1, <2>3, <2>4 DEF AllRan
  <1>6. AIHeard(u)
    <2>1. \A r \in Runs(u) : dir[r].baseline = "B3_AI" =>
            outcome[r].policy.status \in {"OK", "TIMEOUT"}
      BY <1>0, <1>1 DEF OneWorkload
    <2>2. \A r \in Runs(u) : outcome[r].policy.status # "TIMEOUT"
      BY DEF Cause
    <2> QED BY <1>1, <2>1, <2>2 DEF AIHeard
  <1> QED BY <1>4, <1>5, <1>6, ReportParts DEF read

\* The comparison tells only of readings that count; a gate passes by what it told.
LEMMA CompareKeeps ==
  ASSUME Inductive, NEW u \in Users, Compare(u)
  PROVE  Inductive'
  <1>0. /\ UserOK(u) /\ faults \in 0..MaxFaults /\ upset \subseteq RunIds
        /\ UNCHANGED <<dir, faults, outcome, upset>>
        /\ job[u].at = "choose" /\ job[u].unread = {}
    BY DEF Inductive, Compare
  <1>1. CASE Command(u).kind = "gate"
    <2> DEFINE passes == /\ Report(job[u].read).comparison_compatible
                         /\ Report(job[u].read).valid_run_count = Len(BaselineOrder)
                         /\ AIHeard(u)
    <2>1. Gates(u) /\ AllRan(u) /\ Sound(u)
      BY <1>0, <1>1 DEF Gates, UserOK, GateOK
    <2>2. Gated(u, passes)
      BY <1>1, Zenon DEF Compare
    <2>3. ~passes => Cause(u)
      BY <1>0, <2>1, ComparesWell
    <2>4. passes \in BOOLEAN /\ (passes => AIHeard(u))
      OBVIOUS
    <2> HIDE DEF passes
    <2> QED BY <1>0, <2>1, <2>2, <2>3, <2>4, GatedKeeps
  <1>2. CASE Command(u).kind = "compare" /\ Command(u).kind # "gate"
    <2> PICK report : report = Report(job[u].read)
      OBVIOUS
    <2>1. /\ job'[u] = [job[u] EXCEPT !.at = "ended", !.read = {}, !.report = report,
                                      !.exit = "0"]
          /\ \A v \in Users \ {u} : job'[v] = job[v]
          /\ job' = [v \in Users |-> job'[v]]
      <3>1. Become(u, [job[u] EXCEPT !.at = "ended", !.read = {}, !.report = report,
                                     !.exit = "0"])
        BY <1>2, Zenon DEF Compare
      <3> QED BY <3>1, OneMoves
    <2>2. /\ job'[u].at = "ended" /\ job'[u].command = job[u].command
          /\ job'[u].todo = job[u].todo
          /\ job'[u].phase = "none" /\ job'[u].unread = {}
          /\ job'[u].read = {} /\ job'[u].exit = "0"
          /\ job'[u].records = job[u].records /\ job'[u].left = job[u].left
          /\ job'[u].passed = job[u].passed /\ job'[u].report = report
      BY <1>0, <2>1 DEF UserOK, ShapeOK, Writing
    <2>3. Frame(u)
      BY <1>0, <2>1, <2>2, FrameAside
    <2>4. ShapeOK(u)'
      BY <1>0, <2>1, <2>2 DEF UserOK, ShapeOK, Writing, Gates, Command, Labels, Exits
    <2>5. WritingOK(u)' /\ ReadingOK(u)'
      BY <2>2 DEF WritingOK, Writing, ReadingOK
    <2>6. RecordsOK(u)'
      BY <2>2, <2>3, KeepRecords
    <2>7. ReportOK(u)'
      <3>1. \A x \in job[u].read : Counted(x)
        BY <1>0 DEF UserOK, ReadingOK
      <3>2. \A b \in DOMAIN report.by_baseline :
              report.by_baseline[b].metrics =
                {[run |-> x.run, values |-> x.metrics] : x \in Valid(Of(job[u].read, b))}
        <4>1. report.by_baseline = [b \in Baselines(job[u].read) |-> Bucket(job[u].read, b)]
          BY ReportParts
        <4>2. \A b : Bucket(job[u].read, b).metrics =
                {[run |-> x.run, values |-> x.metrics] : x \in Valid(Of(job[u].read, b))}
          BY DEF Bucket
        <4> QED BY <4>1, <4>2
      <3>3. \A b \in DOMAIN report.by_baseline : \A m \in report.by_baseline[b].metrics :
              \E x \in job[u].read : x.valid /\ m.run = x.run /\ m.values = x.metrics
        BY <3>2 DEF Valid, Of
      <3>4. \A b \in DOMAIN report.by_baseline : \A m \in report.by_baseline[b].metrics :
              /\ m.run \in RunIds /\ outcome[m.run] # Nothing /\ Passes(outcome[m.run])
              /\ \/ m.values = Settings(outcome[m.run].policy)
                 \/ m.run \in upset /\ m.values = Nothing
        BY <3>1, <3>3 DEF Counted
      <3> QED BY <1>0, <2>2, <3>4 DEF ReportOK
    <2>8. GateOK(u)'
      BY <1>2, <2>2 DEF GateOK, Gates, Command
    <2> QED BY <1>0, <2>1, <2>3, <2>4, <2>5, <2>6, <2>7, <2>8, Together DEF UserOK
  <1> QED BY <1>0, <1>1, <1>2 DEF Compare

-----------------------------------------------------------------------------
(* An exception.                                                           *)

\* An exception or interrupt goes to the handler of run(), or escapes.
LEMMA RaiseKeeps ==
  ASSUME Inductive, NEW u \in Users, Raise(u)
  PROVE  Inductive'
  <1>0. /\ UserOK(u) /\ faults \in 0..MaxFaults /\ upset \subseteq RunIds
        /\ UNCHANGED <<dir, outcome>> /\ job[u].at \notin {"idle", "ended"}
        /\ upset' = IF job[u].phase = "close" THEN upset \cup {Run(u)} ELSE upset
    BY DEF Inductive, Raise
  <1>1. faults' \in 0..MaxFaults /\ faults' > 0
    BY <1>0, FaultsAssumption DEF Raise
  <1>2. CASE ~(\/ job[u].phase = "close"
               \/ job[u].phase = "launch" /\ job[u].left = <<>>)
    <2>1. PICK interrupt \in BOOLEAN : Escape(u, interrupt)
      BY <1>2, Zenon DEF Raise
    <2> QED BY <1>0, <1>1, <1>2, <2>1, EscapeKeeps
  <1>3. CASE \/ job[u].phase = "close"
             \/ job[u].phase = "launch" /\ job[u].left = <<>>
    <2>1. /\ job'[u] = [job[u] EXCEPT !.at = "open", !.phase = "handle", !.left = Closing]
          /\ \A v \in Users \ {u} : job'[v] = job[v]
          /\ job' = [v \in Users |-> job'[v]]
      <3>1. Become(u, [job[u] EXCEPT !.at = "open", !.phase = "handle",
                                     !.left = Handling])
        BY <1>3, Zenon DEF Raise
      <3> HIDE DEF Closing
      <3> QED BY <3>1, OneMoves DEF Handling
    <2> HIDE DEF Closing
    <2>2. Writing(u) /\ WritingOK(u)
      BY <1>0, <1>3 DEF UserOK, ShapeOK
    <2>3. /\ Run(u) \in RunIds /\ dir[Run(u)] # Nothing
          /\ \A f \in Members(Launch) : File(Run(u), f) = "whole"
          /\ outcome[Run(u)] = Nothing \/ Run(u) \in upset'
      <3>1. job[u].phase = "launch" => Members(job[u].left) = {}
        BY <1>3, FilesByName
      <3> QED BY <1>0, <1>3, <2>2, <3>1 DEF WritingOK
    <2>4. /\ job'[u].at = "open" /\ job'[u].command = job[u].command
          /\ job'[u].todo = job[u].todo /\ job'[u].run = job[u].run
          /\ job'[u].phase = "handle" /\ job'[u].unread = job[u].unread
          /\ job'[u].read = job[u].read /\ job'[u].exit = job[u].exit
          /\ job'[u].records = job[u].records /\ job'[u].left = Closing
          /\ job'[u].passed = job[u].passed /\ job'[u].report = job[u].report
      BY <1>0, <2>1 DEF UserOK, ShapeOK
    <2>5. upset \subseteq upset' /\ upset' \subseteq RunIds
      BY <1>0, <2>3
    <2>6. Frame(u)
      BY <1>0, <1>1, <2>1, <2>2, <2>4, <2>5, FrameOnward
    <2>7. ShapeOK(u)'
      BY <1>0, <2>1, <2>2, <2>4, FilesByName
         DEF UserOK, ShapeOK, Writing, Gates, Command, Labels
    <2>8. WritingOK(u)'
      <3>1. /\ Run(u)' = Run(u) /\ Command(u)' = Command(u) /\ Writing(u)'
            /\ \A v \in Users : Writing(v)' /\ Run(v)' = Run(u) => v = u
        BY <2>1, <2>2, <2>4 DEF Run, Command, Writing, WritingOK
      <3>2. \A f : File(Run(u), f)' = File(Run(u), f)
        BY <1>0, <3>1 DEF File
      <3> QED BY <1>0, <1>1, <2>2, <2>3, <2>4, <3>1, <3>2 DEF WritingOK
    <2>9. ReadingOK(u)'
      BY <1>0, <2>4, <2>6, KeepCounted DEF UserOK, ReadingOK
    <2>10. RecordsOK(u)' /\ ReportOK(u)'
      BY <2>4, <2>6, KeepRecords, KeepReport
    <2>11. GateOK(u)'
      <3> SUFFICES ASSUME Gates(u)'
                   PROVE  GateOK(u)'
        BY DEF GateOK
      <3>1. Gates(u) /\ GateOK(u) /\ job[u].exit = "none"
        BY <1>0, <2>2, <2>4 DEF Gates, Command, UserOK, ShapeOK, Writing
      <3>2. Current(u)' = Current(u) /\ Pending(u)' = Pending(u) /\ Runs(u)' = Runs(u)
        BY <2>2, <2>4 DEF Current, Pending, Writing, Run, Runs
      <3>3. OneWorkload(u)' /\ IsFiniteSet(Runs(u))'
        BY <1>0, <2>4, <2>6, <3>1, <3>2, KeepOneWorkload DEF GateOK
      <3>4. OnPlan(u)'
        BY <1>0, <2>2, <2>4, <3>1, <3>2 DEF OnPlan, GateOK, BaselinesOf, Writing
      <3>5. Last \notin job[u].passed
        BY <2>2, <3>1 DEF GateOK, Writing
      <3> HIDE DEF Last
      <3> QED BY <2>4, <3>1, <3>3, <3>4, <3>5 DEF GateOK
    <2> QED BY <1>0, <1>1, <2>1, <2>5, <2>6, <2>7, <2>8, <2>9, <2>10, <2>11, Together
            DEF UserOK
  <1> QED BY <1>2, <1>3

-----------------------------------------------------------------------------
(* Steps that change the disk, or the outcome of a run.                     *)

\* The parts of such a step make the invariant.
LEMMA AllTogether ==
  ASSUME Inductive, NEW u \in Users, Frame(u), UserOK(u)',
         job' = [v \in Users |-> job'[v]], UNCHANGED <<faults, upset>>,
         dir' = [r \in RunIds |-> dir'[r]],
         outcome' \in [RunIds -> OutcomeType \cup {Nothing}],
         \A r \in RunIds : dir'[r] = dir[r] \/ DirOK(r)',
         \A r \in RunIds : outcome'[r] = outcome[r] \/ OutcomeOK(r)'
  PROVE  Inductive'
  <1>1. \A v \in Users : UserOK(v)'
    BY KeepOthers
  <1>2. \A r \in RunIds : DirOK(r)' /\ OutcomeOK(r)'
    BY KeepDir, KeepOutcome
  <1>3. /\ faults' \in 0..MaxFaults /\ upset' \subseteq RunIds /\ DOMAIN dir' = RunIds
    BY DEF Inductive
  <1> QED BY <1>1, <1>2, <1>3 DEF Inductive

\* A run begins in a directory nobody had.
LEMMA MakeDirectoryKeeps ==
  ASSUME Inductive, NEW u \in Users, MakeDirectory(u)
  PROVE  Inductive'
  <1>0. /\ UserOK(u) /\ UNCHANGED <<faults, outcome, upset>>
        /\ job[u].at = "mkdir" /\ job[u].todo # <<>>
        /\ DOMAIN dir = RunIds
        /\ outcome \in [RunIds -> OutcomeType \cup {Nothing}]
    BY DEF Inductive, MakeDirectory
  <1>1. /\ Head(job[u].todo) \in AnyBaseline /\ Tail(job[u].todo) \in Seq(AnyBaseline)
        /\ Members(job[u].todo) = {Head(job[u].todo)} \cup Members(Tail(job[u].todo))
        /\ Len(Tail(job[u].todo)) \in Nat /\ Len(job[u].todo) = Len(Tail(job[u].todo)) + 1
    <2>1. job[u].todo \in Seq(AnyBaseline)
      BY <1>0 DEF UserOK, ShapeOK
    <2> QED BY <1>0, <2>1, Rest
  <1> PICK b \in AnyBaseline, rest \in Seq(AnyBaseline) :
        b = Head(job[u].todo) /\ rest = Tail(job[u].todo)
    BY <1>1
  <1>2. PICK r \in RunIds :
          /\ dir[r] = Nothing
          /\ dir' = [dir EXCEPT ![r] = NewDirectory(Command(u), b)]
          /\ Become(u, [job[u] EXCEPT !.at = "open", !.run = r, !.phase = "launch",
                                      !.left = Launch, !.todo = rest])
    BY <1>0 DEF MakeDirectory, UserOK, ShapeOK
  <1> PICK d : d = NewDirectory(Command(u), b)
    OBVIOUS
  <1>3. Command(u).workload \in Workloads /\ Command(u).seed \in Nat
    BY <1>0, CommandsAssumption DEF UserOK, ShapeOK, Command, IsCommand
  <1>4. /\ d = [workload |-> Command(u).workload, baseline |-> b, seed |-> Command(u).seed,
                files |-> [f \in Artifacts |-> Missing]]
        /\ d.workload = Command(u).workload /\ d.baseline = b /\ d.seed = Command(u).seed
        /\ \A f \in Artifacts : d.files[f] = Missing
    BY DEF NewDirectory
  <1>5. d # Nothing
    <2> DEFINE g == [f \in Artifacts |-> Missing]
    <2>1. \A f \in Artifacts : g[f] \in FileType(f) \cup {Missing, Torn}
      OBVIOUS
    <2>2. g = [f \in Artifacts |-> g[f]]
      OBVIOUS
    <2>3. d = [workload |-> Command(u).workload, baseline |-> b, seed |-> Command(u).seed,
               files |-> g]
      BY <1>4
    <2> HIDE DEF g
    <2> QED BY <1>3, <2>1, <2>2, <2>3, Placed
  <1>6. /\ job'[u] = [job[u] EXCEPT !.at = "open", !.run = r, !.phase = "launch",
                                    !.left = Launch, !.todo = rest]
        /\ \A v \in Users \ {u} : job'[v] = job[v]
        /\ job' = [v \in Users |-> job'[v]]
    BY <1>2, OneMoves
  <1> HIDE DEF Launch
  <1>7. /\ job'[u].at = "open" /\ job'[u].command = job[u].command
        /\ job'[u].todo = rest /\ job'[u].run = r
        /\ job'[u].phase = "launch" /\ job'[u].unread = job[u].unread
        /\ job'[u].read = {} /\ job'[u].exit = "none"
        /\ job'[u].records = job[u].records /\ job'[u].left = Launch
        /\ job'[u].passed = job[u].passed /\ job'[u].report = job[u].report
    BY <1>0, <1>6 DEF UserOK, ShapeOK
  <1>8. /\ dir'[r] = d /\ \A q \in RunIds \ {r} : dir'[q] = dir[q]
        /\ dir' = [q \in RunIds |-> dir'[q]]
    BY <1>0, <1>2 DEF Inductive
  <1>9. Frame(u) /\ Run(u)' = r /\ Writing(u)'
    BY <1>0, <1>2, <1>6, <1>7, <1>8 DEF Frame, Writing, Run
  <1>10. outcome[r] = Nothing
    BY <1>2 DEF Inductive, OutcomeOK
  <1>11. DirOK(r)'
    <2>1. \A f \in Artifacts : File(r, f)' = Missing
      BY <1>4, <1>8 DEF File
    <2>2. ~Legible(r, "correctness")' /\ ~Legible(r, "metrics")'
      BY <2>1, FilesByName DEF Legible
    <2>3. [f \in Artifacts |-> File(r, f)]' = [f \in Artifacts |-> Missing]
      BY <2>1
    <2> QED BY <1>3, <1>4, <1>8, <2>1, <2>2, <2>3 DEF DirOK
  <1>12. ShapeOK(u)'
    <2>1. job'[u] = [at |-> job'[u].at, command |-> job'[u].command,
              todo |-> job'[u].todo, run |-> job'[u].run,
              phase |-> job'[u].phase, left |-> job'[u].left, records |-> job'[u].records,
              unread |-> job'[u].unread, part |-> job'[u].part, read |-> job'[u].read,
              passed |-> job'[u].passed, report |-> job'[u].report, exit |-> job'[u].exit]
      BY <1>0, <1>6 DEF UserOK, ShapeOK
    <2> QED BY <1>0, <1>7, <2>1, FilesByName
            DEF UserOK, ShapeOK, Writing, Gates, Command, Labels
  <1>13. WritingOK(u)'
    <2>1. \A v \in Users : Writing(v)' /\ Run(v)' = r => v = u
      <3>1. \A v \in Users \ {u} : Writing(v) => dir[Run(v)] # Nothing
        BY DEF Inductive, UserOK, WritingOK
      <3> QED BY <1>2, <1>6, <3>1 DEF Writing, Run
    <2>2. \A f \in Artifacts : File(r, f)' = Missing
      BY <1>4, <1>8 DEF File
    <2> QED BY <1>0, <1>4, <1>5, <1>7, <1>8, <1>9, <1>10, <2>1, <2>2, FilesByName
            DEF WritingOK, Command
  <1>14. ReadingOK(u)'
    <2>1. \A x \in job[u].unread : x \in RunIds /\ dir'[x] # Nothing
      BY <1>0, <1>9 DEF UserOK, ReadingOK, Frame
    <2> QED BY <1>7, <2>1 DEF ReadingOK
  <1>15. RecordsOK(u)' /\ ReportOK(u)'
    BY <1>7, <1>9, KeepRecords, KeepReport
  <1>16. GateOK(u)'
    <2> SUFFICES ASSUME Gates(u)'
                 PROVE  GateOK(u)'
      BY DEF GateOK
    <2>1. Gates(u) /\ GateOK(u)
      BY <1>0, <1>7 DEF Gates, Command, UserOK
    <2>2. /\ Current(u)' = {r} /\ Current(u) = {} /\ Runs(u)' = Runs(u)
          /\ \A q \in Runs(u) : q # r /\ dir'[q] = dir[q]
      <3>1. \A record \in job[u].records : record.run \in RunIds /\ Settled(record)
        BY <1>0 DEF UserOK, ShapeOK, RecordsOK
      <3> QED BY <1>0, <1>2, <1>7, <1>8, <3>1 DEF Current, Writing, Run, Runs, Settled
    <2>3. OneWorkload(u)'
      BY <1>0, <1>4, <1>7, <1>8, <1>10, <2>1, <2>2 DEF GateOK, OneWorkload, Command
    <2>4. IsFiniteSet(Runs(u))' /\ Cardinality(Runs(u)) \in Nat
      BY <2>1, <2>2, FS_CardinalityType DEF GateOK
    <2>5. OnPlan(u)'
      <3>1. OnPlan(u)
        BY <1>0, <2>1 DEF GateOK
      <3>2. BaselinesOf(Runs(u) \cup Current(u))' = BaselinesOf(Runs(u)) \cup {b}
        BY <1>4, <1>8, <2>2 DEF BaselinesOf
      <3>3. Runs(u) \cup Current(u) = Runs(u)
        BY <2>2
      <3>4. Pending(u)' = Len(rest) + 1 /\ Pending(u) = Len(rest) + 1
        BY <1>0, <1>1, <1>7 DEF Pending, Writing
      <3>5. Members(job[u].todo) = {b} \cup Members(rest)
        BY <1>1
      <3> QED BY <1>7, <2>2, <3>1, <3>2, <3>3, <3>4, <3>5 DEF OnPlan
    <2>6. Last \notin job[u].passed
      BY <1>0, <2>1 DEF GateOK
    <2> HIDE DEF Last
    <2> QED BY <1>7, <2>3, <2>4, <2>5, <2>6 DEF GateOK
  <1>17. UserOK(u)'
    BY <1>12, <1>13, <1>14, <1>15, <1>16 DEF UserOK
  <1> QED BY <1>0, <1>6, <1>8, <1>9, <1>11, <1>17, AllTogether

\* A gate that goes on with the run it writes is on its plan.
LEMMA StillOnPlan ==
  ASSUME Inductive, NEW u \in Users, Frame(u), Writing(u), Writing(u)',
         job'[u].run = job[u].run, job'[u].command = job[u].command,
         job'[u].todo = job[u].todo, job'[u].records = job[u].records,
         job'[u].passed = job[u].passed, job'[u].exit = job[u].exit,
         Gates(u) => OneWorkload(u)'
  PROVE  GateOK(u)'
  <1> SUFFICES ASSUME Gates(u)'
               PROVE  GateOK(u)'
    BY DEF GateOK
  <1>1. Gates(u) /\ GateOK(u) /\ job[u].exit = "none"
    BY DEF Inductive, UserOK, ShapeOK, Gates, Command, Writing
  <1>2. /\ Current(u)' = Current(u) /\ Pending(u)' = Pending(u) /\ Runs(u)' = Runs(u)
        /\ Current(u) = {Run(u)}
    BY DEF Current, Pending, Run, Runs
  <1>3. \A r \in Runs(u) \cup Current(u) : r \in RunIds /\ dir[r] # Nothing
    <2>1. \A record \in job[u].records : record.run \in RunIds /\ Settled(record)
      BY DEF Inductive, UserOK, ShapeOK, RecordsOK
    <2>2. Run(u) \in RunIds /\ dir[Run(u)] # Nothing
      BY DEF Inductive, UserOK, WritingOK
    <2> QED BY <1>2, <2>1, <2>2 DEF Settled, Runs
  <1>4. OnPlan(u)'
    <2>1. \A r \in Runs(u) \cup Current(u) : dir'[r].baseline = dir[r].baseline
      BY <1>3 DEF Frame
    <2>2. BaselinesOf(Runs(u) \cup Current(u))' = BaselinesOf(Runs(u) \cup Current(u))
      BY <1>2, <2>1 DEF BaselinesOf
    <2> QED BY <1>1, <1>2, <2>2 DEF OnPlan, GateOK, Writing
  <1>5. Last \notin job[u].passed /\ IsFiniteSet(Runs(u))'
    BY <1>1, <1>2 DEF GateOK, Writing
  <1> HIDE DEF Last
  <1> QED BY <1>1, <1>4, <1>5 DEF GateOK, Writing

\* The run directories, when a file is written.
Put(r, f, x) == [dir EXCEPT ![r].files[f] = x]

\* Nothing else is, then.
Written(r, f, x) ==
  /\ dir' = [q \in RunIds |-> dir'[q]] /\ \A q \in RunIds \ {r} : dir'[q] = dir[q]
  /\ dir'[r] = [workload |-> dir[r].workload, baseline |-> dir[r].baseline,
                seed |-> dir[r].seed, files |-> [g \in Artifacts |-> File(r, g)']]
  /\ dir'[r].workload = dir[r].workload /\ dir'[r].baseline = dir[r].baseline
  /\ dir'[r].seed = dir[r].seed
  /\ \A g \in Artifacts : File(r, g)' = IF g = f THEN x ELSE File(r, g)

\* What a step that writes a file has to go on.
LEMMA Writes ==
  ASSUME Inductive, NEW u \in Users, NEW r, r = Run(u), NEW f, NEW x, Writing(u),
         dir' = Put(r, f, x), f \in Artifacts,
         x \in FileType(f) \cup {Missing, Torn},
         \A v \in Users \ {u} : job'[v] = job[v],
         job'[u].run = job[u].run, job'[u].phase = job[u].phase,
         UNCHANGED <<faults, outcome, upset>>
  PROVE  Frame(u) /\ r \in RunIds /\ Written(r, f, x)
  <1>1. /\ r \in RunIds /\ dir[r] # Nothing /\ DirOK(r)
        /\ dir = [q \in RunIds |-> dir[q]]
    BY DEF Inductive, UserOK, WritingOK
  <1> PICK d, w, b, s, files :
        d = dir[r] /\ w = d.workload /\ b = d.baseline /\ s = d.seed /\ files = d.files
    OBVIOUS
  <1>2. /\ d = [workload |-> w, baseline |-> b, seed |-> s, files |-> files]
        /\ files = [g \in Artifacts |-> files[g]]
        /\ w \in Workloads /\ b \in AnyBaseline /\ s \in Nat
        /\ \A g \in Artifacts : files[g] \in FileType(g) \cup {Missing, Torn}
    BY <1>1 DEF DirOK, File
  <1>3. /\ dir'[r] = [d EXCEPT !.files = [d.files EXCEPT ![f] = x]]
        /\ \A q \in RunIds \ {r} : dir'[q] = dir[q]
        /\ dir' = [q \in RunIds |-> dir'[q]]
    BY <1>1 DEF Put
  <1> PICK new : new = [files EXCEPT ![f] = x]
    OBVIOUS
  <1>4. /\ new = [g \in Artifacts |-> new[g]]
        /\ \A g \in Artifacts : new[g] = IF g = f THEN x ELSE files[g]
    BY <1>2
  <1>5. dir'[r] = [workload |-> w, baseline |-> b, seed |-> s, files |-> new]
    BY <1>2, <1>3
  <1>6. /\ dir'[r].workload = w /\ dir'[r].baseline = b /\ dir'[r].seed = s
        /\ dir'[r].files = new
    BY <1>5
  <1>7. \A g \in Artifacts : File(r, g)' = IF g = f THEN x ELSE File(r, g)
    BY <1>4, <1>6 DEF File
  <1>8. [g \in Artifacts |-> File(r, g)'] = new
    BY <1>4, <1>6 DEF File
  <1>9. dir'[r] # Nothing
    <2>1. \A g \in Artifacts : new[g] \in FileType(g) \cup {Missing, Torn}
      BY <1>2, <1>4
    <2>2. dir'[r] = [workload |-> w, baseline |-> b, seed |-> s,
                     files |-> [g \in Artifacts |-> new[g]]]
      BY <1>4, <1>5
    <2> QED BY <1>2, <2>1, <2>2, Placed
  <1>10. Frame(u)
    <2>1. \A q \in RunIds : dir[q] # Nothing =>
            /\ dir'[q] # Nothing
            /\ dir'[q].workload = dir[q].workload /\ dir'[q].baseline = dir[q].baseline
            /\ dir'[q].seed = dir[q].seed
            /\ dir'[q] = dir[q] \/ (Writing(u) /\ Run(u) = q)
      <3> SUFFICES ASSUME NEW q \in RunIds, dir[q] # Nothing, q = r
                   PROVE  /\ dir'[q] # Nothing /\ dir'[q].workload = dir[q].workload
                          /\ dir'[q].baseline = dir[q].baseline
                          /\ dir'[q].seed = dir[q].seed
        BY <1>3
      <3> QED BY <1>6, <1>9
    <2> QED BY <1>1, <2>1 DEF Frame, Writing, Run
  <1> QED BY <1>1, <1>2, <1>3, <1>5, <1>6, <1>7, <1>8, <1>10 DEF Written

\* A file that is opened for writing is torn, and tells nothing.
LEMMA OpenKeeps ==
  ASSUME Inductive, NEW u \in Users, Open(u)
  PROVE  Inductive'
  <1>0. /\ UserOK(u) /\ WritingOK(u) /\ Writing(u)
        /\ UNCHANGED <<faults, outcome, upset>>
        /\ job[u].at = "open" /\ job[u].left # <<>>
        /\ outcome \in [RunIds -> OutcomeType \cup {Nothing}]
    BY DEF Inductive, Open, UserOK, Writing
  <1> PICK f, r : f = Head(job[u].left) /\ r = Run(u)
    OBVIOUS
  <1>1. f \in Artifacts /\ f \in Members(job[u].left)
    <2>1. job[u].left \in Seq(Artifacts)
      BY <1>0 DEF UserOK, ShapeOK
    <2> QED BY <1>0, <2>1, Rest
  <1>2. /\ job'[u] = [job[u] EXCEPT !.at = "fill"]
        /\ \A v \in Users \ {u} : job'[v] = job[v]
        /\ job' = [v \in Users |-> job'[v]]
    BY OneMoves DEF Open
  <1>3. /\ job'[u].at = "fill" /\ job'[u].command = job[u].command
        /\ job'[u].todo = job[u].todo /\ job'[u].run = job[u].run
        /\ job'[u].phase = job[u].phase /\ job'[u].unread = job[u].unread
        /\ job'[u].read = job[u].read /\ job'[u].exit = job[u].exit
        /\ job'[u].records = job[u].records /\ job'[u].left = job[u].left
        /\ job'[u].passed = job[u].passed /\ job'[u].report = job[u].report
    BY <1>0, <1>2 DEF UserOK, ShapeOK
  <1>4. /\ Frame(u) /\ dir' = [q \in RunIds |-> dir'[q]] /\ r \in RunIds
        /\ \A q \in RunIds \ {r} : dir'[q] = dir[q]
        /\ dir'[r] = [workload |-> dir[r].workload, baseline |-> dir[r].baseline,
                      seed |-> dir[r].seed, files |-> [g \in Artifacts |-> File(r, g)']]
        /\ dir'[r].workload = dir[r].workload /\ dir'[r].baseline = dir[r].baseline
        /\ dir'[r].seed = dir[r].seed
        /\ \A g \in Artifacts : File(r, g)' = IF g = f THEN Torn ELSE File(r, g)
    <2>1. dir' = Put(r, f, Torn)
      BY DEF Open, Put
    <2>2. Torn \in FileType(f) \cup {Missing, Torn}
      OBVIOUS
    <2>3. /\ \A v \in Users \ {u} : job'[v] = job[v]
          /\ job'[u].run = job[u].run /\ job'[u].phase = job[u].phase
          /\ UNCHANGED <<faults, outcome, upset>> /\ Writing(u)
      BY <1>0, <1>2, <1>3
    <2>4. r = Run(u) /\ f \in Artifacts
      BY <1>1
    <2>5. Frame(u) /\ r \in RunIds /\ Written(r, f, Torn)
      BY <2>1, <2>2, <2>3, <2>4, Writes
    <2> QED BY <2>5 DEF Written
  <1>5. dir[r] # Nothing /\ DirOK(r)
    BY <1>0, <1>4 DEF Inductive, WritingOK
  <1>6. DirOK(r)'
    <2>1. \A g \in Artifacts : Legible(r, g)' =>
            g # f /\ Legible(r, g) /\ File(r, g)' = File(r, g)
      BY <1>4 DEF Legible
    <2>2. Legible(r, "correctness")' => Justified(r, File(r, "correctness"))'
      <3> PICK y : y = File(r, "correctness")
        OBVIOUS
      <3>1. Justified(r, y) => Justified(r, y)'
        BY <1>4, <1>5, KeepFindings
      <3>2. Legible(r, "correctness")' => File(r, "correctness")' = y /\ Justified(r, y)
        BY <1>5, <2>1, FilesByName DEF DirOK
      <3> QED BY <3>1, <3>2 DEF Justified
    <2>3. Legible(r, "metrics")' => Numbered(r, File(r, "metrics"))'
      <3> PICK y : y = File(r, "metrics")
        OBVIOUS
      <3>1. Numbered(r, y) => Numbered(r, y)'
        BY <1>4, <1>5, KeepFindings
      <3>2. Legible(r, "metrics")' => File(r, "metrics")' = y /\ Numbered(r, y)
        BY <1>5, <2>1, FilesByName DEF DirOK
      <3> QED BY <3>1, <3>2 DEF Numbered, Launched
    <2> QED BY <1>4, <1>5, <2>2, <2>3 DEF DirOK
  <1>7. ShapeOK(u)'
    BY <1>0, <1>2, <1>3 DEF UserOK, ShapeOK, Writing, Gates, Command, Labels
  <1>8. /\ Run(u)' = r /\ Command(u)' = Command(u) /\ Writing(u)'
        /\ \A v \in Users : Writing(v)' /\ Run(v)' = r => v = u
    BY <1>0, <1>2, <1>3 DEF Run, Command, Writing, WritingOK
  <1>9. WritingOK(u)'
    <2>1. \A g : Content(u, g)' = Content(u, g)
      BY <1>0, <1>3 DEF Content, Verdict, Numbers, Run
    <2>2. job[u].phase = "launch" => f \in Members(Launch) /\ f \notin Members(Closing)
      BY <1>0, <1>1, FilesByName DEF WritingOK
    <2>3. job[u].phase # "launch" => f \in Members(Closing) /\ f \notin Members(Launch)
      BY <1>0, <1>1, FilesByName DEF WritingOK
    <2>4. dir'[r] # Nothing
      BY <1>4, <1>5 DEF Frame
    <2>5. \A g \in Artifacts : g # f => File(r, g)' = File(r, g)
      BY <1>4
    <2> QED BY <1>0, <1>1, <1>3, <1>4, <1>8, <2>1, <2>2, <2>3, <2>4, <2>5, FilesByName
            DEF WritingOK
  <1>10. ReadingOK(u)'
    BY <1>0, <1>3, <1>4, KeepCounted DEF UserOK, ReadingOK, Frame
  <1>11. RecordsOK(u)' /\ ReportOK(u)'
    BY <1>3, <1>4, KeepRecords, KeepReport
  <1>12. GateOK(u)'
    <2>1. Gates(u) => OneWorkload(u)'
      BY <1>0, <1>3, <1>4, <1>8, KeepOneWorkload DEF Current, Runs, Run
    <2> QED BY <1>0, <1>3, <1>4, <1>8, <2>1, StillOnPlan
  <1>13. UserOK(u)'
    BY <1>7, <1>9, <1>10, <1>11, <1>12 DEF UserOK
  <1> QED BY <1>0, <1>2, <1>4, <1>6, <1>13, AllTogether

\* A file that is filled tells what happened.
LEMMA FillKeeps ==
  ASSUME Inductive, NEW u \in Users, Fill(u)
  PROVE  Inductive'
  <1>0. /\ UserOK(u) /\ WritingOK(u) /\ Writing(u)
        /\ UNCHANGED <<faults, outcome, upset>>
        /\ job[u].at = "fill" /\ job[u].left # <<>>
        /\ outcome \in [RunIds -> OutcomeType \cup {Nothing}]
    BY DEF Inductive, Fill, UserOK, ShapeOK, Writing
  <1>1. /\ Head(job[u].left) \in Artifacts /\ Tail(job[u].left) \in Seq(Artifacts)
        /\ Members(job[u].left) = {Head(job[u].left)} \cup Members(Tail(job[u].left))
    <2>1. job[u].left \in Seq(Artifacts)
      BY <1>0 DEF UserOK, ShapeOK
    <2> QED BY <1>0, <2>1, Rest
  <1> PICK f \in Artifacts, rest \in Seq(Artifacts) :
        f = Head(job[u].left) /\ rest = Tail(job[u].left)
    BY <1>1
  <1> PICK r, x : r = Run(u) /\ x = Content(u, f)
    OBVIOUS
  <1>2. /\ job'[u] = [job[u] EXCEPT !.at = "open", !.left = rest]
        /\ \A v \in Users \ {u} : job'[v] = job[v]
        /\ job' = [v \in Users |-> job'[v]]
    <2>1. Become(u, [job[u] EXCEPT !.at = "open", !.left = rest])
      BY <1>0 DEF Fill, UserOK, ShapeOK
    <2> QED BY <2>1, OneMoves
  <1>3. /\ job'[u].at = "open" /\ job'[u].command = job[u].command
        /\ job'[u].todo = job[u].todo /\ job'[u].run = job[u].run
        /\ job'[u].phase = job[u].phase /\ job'[u].unread = job[u].unread
        /\ job'[u].read = job[u].read /\ job'[u].exit = job[u].exit
        /\ job'[u].records = job[u].records /\ job'[u].left = rest
        /\ job'[u].passed = job[u].passed /\ job'[u].report = job[u].report
    BY <1>0, <1>2 DEF UserOK, ShapeOK
  <1>4. /\ r \in RunIds /\ dir[r] # Nothing /\ DirOK(r)
        /\ outcome[r] # Nothing => outcome[r] \in OutcomeType
    BY <1>0 DEF Inductive, WritingOK
  <1>5. /\ job[u].phase = "launch" => f \in Members(Launch) /\ f \notin Members(Closing)
        /\ job[u].phase # "launch" => f \in Members(Closing) /\ f \notin Members(Launch)
    BY <1>0, <1>1, FilesByName DEF WritingOK
  <1>6. x \in FileType(f)
    <2>1. job[u].phase \in {"launch", "close", "handle"}
      BY <1>0 DEF UserOK, ShapeOK
    <2>2. \/ job[u].phase = "handle" \/ outcome[Run(u)] \in OutcomeType
          \/ f \in Members(Launch)
      BY <1>0, <1>4, <1>5, <2>1 DEF WritingOK
    <2> QED BY <2>2, ContentFits
  <1>7. /\ Frame(u) /\ dir' = [q \in RunIds |-> dir'[q]]
        /\ \A q \in RunIds \ {r} : dir'[q] = dir[q]
        /\ dir'[r] = [workload |-> dir[r].workload, baseline |-> dir[r].baseline,
                      seed |-> dir[r].seed, files |-> [g \in Artifacts |-> File(r, g)']]
        /\ dir'[r].workload = dir[r].workload /\ dir'[r].baseline = dir[r].baseline
        /\ dir'[r].seed = dir[r].seed
        /\ \A g \in Artifacts : File(r, g)' = IF g = f THEN x ELSE File(r, g)
    <2>1. dir' = Put(r, f, x)
      BY DEF Fill, Put
    <2>2. x \in FileType(f) \cup {Missing, Torn}
      BY <1>6
    <2>3. /\ \A v \in Users \ {u} : job'[v] = job[v]
          /\ job'[u].run = job[u].run /\ job'[u].phase = job[u].phase
          /\ UNCHANGED <<faults, outcome, upset>> /\ Writing(u)
      BY <1>0, <1>2, <1>3
    <2>4. r = Run(u)
      OBVIOUS
    <2>5. Frame(u) /\ r \in RunIds /\ Written(r, f, x)
      BY <2>1, <2>2, <2>3, <2>4, Writes
    <2> QED BY <2>5 DEF Written
  <1>8. /\ Run(u)' = r /\ Command(u)' = Command(u) /\ Writing(u)'
        /\ \A v \in Users : Writing(v)' /\ Run(v)' = r => v = u
    BY <1>0, <1>2, <1>3 DEF Run, Command, Writing, WritingOK
  <1>9. job[u].phase # "launch" => Launched(r)'
    BY <1>3, <1>8 DEF Launched
  <1>10. DirOK(r)'
    <2>1. \A g \in Artifacts : g # f =>
            (Legible(r, g)' <=> Legible(r, g)) /\ File(r, g)' = File(r, g)
      BY <1>7 DEF Legible
    <2>2. Legible(r, "correctness")' => Justified(r, File(r, "correctness"))'
      <3>1. CASE f = "correctness"
        <4>1. File(r, "correctness")' = x /\ x = Verdict(u)
          BY <1>7, <3>1, FilesByName DEF Content
        <4>2. job[u].phase \in {"close", "handle"}
          BY <1>0, <1>5, <3>1, FilesByName DEF UserOK, ShapeOK
        <4>3. Verdict(u).valid => outcome[r] # Nothing /\ Passes(outcome[r])
          BY <1>0, <4>2 DEF Verdict, WritingOK
        <4> QED BY <1>0, <4>1, <4>3 DEF Justified
      <3>2. CASE f # "correctness"
        BY <1>4, <1>7, <2>1, <3>2, FilesByName, KeepFindings DEF DirOK, Justified
      <3> QED BY <3>1, <3>2
    <2>3. Legible(r, "metrics")' => Numbered(r, File(r, "metrics"))'
      <3>1. CASE f = "metrics"
        <4>1. File(r, "metrics")' = x /\ x = Numbers(u)
          BY <1>7, <3>1, FilesByName DEF Content
        <4>2. job[u].phase \in {"close", "handle"}
          BY <1>0, <1>5, <3>1, FilesByName DEF UserOK, ShapeOK
        <4>3. CASE job[u].phase = "close"
          <5>1. Numbers(u).values = Settings(outcome[r].policy) /\ outcome[r] # Nothing
            BY <1>0, <4>3 DEF Numbers, WritingOK
          <5> QED BY <1>0, <4>1, <5>1 DEF Numbered
        <4>4. CASE job[u].phase = "handle"
          BY <1>0, <1>9, <4>1, <4>4 DEF Numbered, Numbers, WritingOK
        <4> QED BY <4>2, <4>3, <4>4
      <3>2. CASE f # "metrics"
        BY <1>4, <1>7, <2>1, <3>2, FilesByName, KeepFindings DEF DirOK, Numbered
      <3> QED BY <3>1, <3>2
    <2>4. \A g \in Artifacts : File(r, g)' \in FileType(g) \cup {Missing, Torn}
      BY <1>4, <1>6, <1>7 DEF DirOK
    <2> QED BY <1>4, <1>7, <2>2, <2>3, <2>4 DEF DirOK
  <1>11. ShapeOK(u)'
    BY <1>0, <1>2, <1>3 DEF UserOK, ShapeOK, Writing, Gates, Command, Labels
  <1>12. WritingOK(u)'
    <2>1. \A g : Content(u, g)' = Content(u, g)
      BY <1>0, <1>3 DEF Content, Verdict, Numbers, Run
    <2>2. dir'[r] # Nothing
      BY <1>4, <1>7 DEF Frame
    <2>3. \A g \in Artifacts : g # f => File(r, g)' = File(r, g)
      BY <1>7
    <2>4. File(r, f)' = x /\ (f \in Members(Launch) => x = "whole")
      BY <1>7, FilesByName DEF Content
    <2>5. Members(job[u].left) = {f} \cup Members(rest)
      BY <1>1
    <2> QED BY <1>0, <1>3, <1>4, <1>5, <1>7, <1>8, <2>1, <2>2, <2>3, <2>4, <2>5, FilesByName
            DEF WritingOK
  <1>13. ReadingOK(u)'
    BY <1>0, <1>3, <1>7, KeepCounted DEF UserOK, ReadingOK, Frame
  <1>14. RecordsOK(u)' /\ ReportOK(u)'
    BY <1>3, <1>7, KeepRecords, KeepReport
  <1>15. GateOK(u)'
    <2>1. Gates(u) => OneWorkload(u)'
      BY <1>0, <1>3, <1>7, <1>8, KeepOneWorkload DEF Current, Runs, Run
    <2> QED BY <1>0, <1>3, <1>7, <1>8, <2>1, StillOnPlan
  <1>16. UserOK(u)'
    BY <1>11, <1>12, <1>13, <1>14, <1>15 DEF UserOK
  <1> QED BY <1>0, <1>2, <1>7, <1>10, <1>16, AllTogether

\* What a workload returns is an outcome; the rules decided where the AI was not heard,
\* and in a gate the AI is heard or silent.
LEMMA WorksWell ==
  ASSUME NEW c, IsCommand(c), NEW b \in AnyBaseline, NEW o \in Outcomes,
         NEW reply \in Replies(c), NEW p, p = Resolved(c.workload, b, reply)
  PROVE  /\ [hash |-> o.hash, checks |-> o.checks, policy |-> p] \in OutcomeType
         /\ b = "B3_AI" /\ p.status \notin {"OK", "ABSTAIN"} =>
              Settings(p) = Settings(Resolved(c.workload, "B2_RULE", Silence))
         /\ c.kind = "gate" /\ b = "B3_AI" => p.status \in {"OK", "TIMEOUT"}
  <1> PICK w : w = c.workload
    OBVIOUS
  <1>1. w \in Workloads
    BY DEF IsCommand
  <1>2. reply \in {Silence} \cup Bearable \cup {Fixture(Summary(v)) : v \in Workloads}
    BY <1>1 DEF Replies
  <1>3. p \in AnyPolicy
    BY <1>1, <1>2 DEF AnyPolicy
  <1>4. [hash |-> o.hash, checks |-> o.checks, policy |-> p] \in OutcomeType
    BY <1>3, OutcomesAssumption DEF OutcomeType, IsOutcome
  <1>5. (reply = Silence \/ IsAnswer(reply)) /\ reply.kind # "overflows"
    BY <1>2, FixtureAnswers, AnswersAssumption DEF Bearable, Silence
  <1>6. b = "B3_AI" /\ p.status \notin {"OK", "ABSTAIN"} =>
          Settings(p) = Settings(Resolved(w, "B2_RULE", Silence))
    BY <1>5, FallsBack
  <1>7. c.kind = "gate" /\ b = "B3_AI" => p.status \in {"OK", "TIMEOUT"}
    <2> SUFFICES ASSUME c.kind = "gate", b = "B3_AI"
                 PROVE  p.status \in {"OK", "TIMEOUT"}
      OBVIOUS
    <2>1. w = "E_MIXED" /\ c.model = "default"
      BY DEF IsCommand
    <2>2. reply \in {Silence, Fixture(Summary("E_MIXED"))}
      BY <2>1 DEF Replies
    <2> QED BY <2>1, <2>2, GateHears
  <1> QED BY <1>4, <1>6, <1>7

\* A workload is run: its outcome is set once, before any of the closing files.
LEMMA WorkKeeps ==
  ASSUME Inductive, NEW u \in Users, Work(u)
  PROVE  Inductive'
  <1>0. /\ UserOK(u) /\ WritingOK(u) /\ Writing(u)
        /\ UNCHANGED <<dir, faults, upset>>
        /\ job[u].at = "open" /\ job[u].left = <<>> /\ job[u].phase = "launch"
        /\ outcome \in [RunIds -> OutcomeType \cup {Nothing}]
    BY DEF Inductive, Work, UserOK, Writing
  <1> PICK r, c : r = Run(u) /\ c = Command(u)
    OBVIOUS
  <1>1. /\ r \in RunIds /\ dir[r] # Nothing /\ DirOK(r) /\ outcome[r] = Nothing
        /\ dir[r].workload = c.workload /\ dir[r].baseline \in AnyBaseline
        /\ dir = [q \in RunIds |-> dir[q]]
    BY <1>0 DEF Inductive, WritingOK, DirOK
  <1>2. IsCommand(c)
    BY <1>0, CommandsAssumption DEF UserOK, ShapeOK, Command
  <1>3. PICK o \in Outcomes, reply \in Replies(c) :
          outcome' = [outcome EXCEPT ![r] =
            [hash |-> o.hash, checks |-> o.checks,
             policy |-> Resolved(c.workload, dir[r].baseline, reply)]]
    BY DEF Work
  <1> PICK b, p : b = dir[r].baseline /\ p = Resolved(c.workload, b, reply)
    OBVIOUS
  <1> PICK x : x = [hash |-> o.hash, checks |-> o.checks, policy |-> p]
    OBVIOUS
  <1>4. /\ x \in OutcomeType /\ x.policy = p
        /\ b = "B3_AI" /\ p.status \notin {"OK", "ABSTAIN"} =>
             Settings(p) = Settings(Resolved(c.workload, "B2_RULE", Silence))
        /\ c.kind = "gate" /\ b = "B3_AI" => p.status \in {"OK", "TIMEOUT"}
    BY <1>1, <1>2, WorksWell
  <1>5. /\ outcome'[r] = x /\ \A q \in RunIds \ {r} : outcome'[q] = outcome[q]
        /\ outcome' \in [RunIds -> OutcomeType \cup {Nothing}] /\ x # Nothing
    BY <1>0, <1>1, <1>3, <1>4, AbsentAssumption
  <1> HIDE DEF Closing
  <1>6. /\ job'[u] = [job[u] EXCEPT !.phase = "close", !.left = Closing]
        /\ \A v \in Users \ {u} : job'[v] = job[v]
        /\ job' = [v \in Users |-> job'[v]]
    BY OneMoves DEF Work
  <1>7. /\ job'[u].at = "open" /\ job'[u].command = job[u].command
        /\ job'[u].todo = job[u].todo /\ job'[u].run = job[u].run
        /\ job'[u].phase = "close" /\ job'[u].unread = job[u].unread
        /\ job'[u].read = job[u].read /\ job'[u].exit = job[u].exit
        /\ job'[u].records = job[u].records /\ job'[u].left = Closing
        /\ job'[u].passed = job[u].passed /\ job'[u].report = job[u].report
    BY <1>0, <1>6 DEF UserOK, ShapeOK
  <1>8. Frame(u)
    BY <1>0, <1>1, <1>5, <1>6, <1>7 DEF Frame, Writing, Run
  <1>9. OutcomeOK(r)'
    BY <1>0, <1>1, <1>4, <1>5 DEF OutcomeOK, FellBack
  <1>10. ShapeOK(u)'
    BY <1>0, <1>6, <1>7, FilesByName DEF UserOK, ShapeOK, Writing, Gates, Command, Labels
  <1>11. /\ Run(u)' = r /\ Command(u)' = c /\ Writing(u)'
         /\ \A v \in Users : Writing(v)' /\ Run(v)' = r => v = u
    BY <1>0, <1>6, <1>7 DEF Run, Command, Writing, WritingOK
  <1>12. WritingOK(u)'
    <2>1. \A f \in Members(Launch) : File(r, f)' = "whole"
      BY <1>0, FilesByName DEF WritingOK, File
    <2>2. Members(job'[u].left) = Members(Closing)
      BY <1>7
    <2> QED BY <1>0, <1>1, <1>5, <1>7, <1>11, <2>1, <2>2 DEF WritingOK
  <1>13. ReadingOK(u)'
    BY <1>0, <1>7, <1>8, KeepCounted DEF UserOK, ReadingOK, Frame
  <1>14. RecordsOK(u)' /\ ReportOK(u)'
    BY <1>7, <1>8, KeepRecords, KeepReport
  <1>15. GateOK(u)'
    <2>1. Gates(u) => OneWorkload(u)'
      <3> SUFFICES ASSUME Gates(u)
                   PROVE  OneWorkload(u)'
        OBVIOUS
      <3>1. OneWorkload(u) /\ Runs(u)' = Runs(u) /\ Current(u)' = {r} /\ Current(u) = {r}
        BY <1>0, <1>7, <1>11 DEF UserOK, GateOK, Runs, Current
      <3>2. \A q \in Runs(u) : q # r /\ q \in RunIds
        <4>1. \A record \in job[u].records : record.run \in RunIds /\ Settled(record)
          BY <1>0 DEF UserOK, ShapeOK, RecordsOK
        <4> QED BY <1>0, <4>1 DEF Settled, Unwritten, Runs
      <3>3. c.kind = "gate"
        BY DEF Gates
      <3> QED BY <1>0, <1>4, <1>5, <1>11, <3>1, <3>2, <3>3 DEF OneWorkload
    <2> QED BY <1>0, <1>7, <1>8, <1>11, <2>1, StillOnPlan
  <1>16. UserOK(u)'
    BY <1>10, <1>12, <1>13, <1>14, <1>15 DEF UserOK
  <1>17. \A q \in RunIds : dir'[q] = dir[q]
    BY <1>0
  <1> QED BY <1>0, <1>1, <1>5, <1>6, <1>8, <1>9, <1>16, <1>17, AllTogether

-----------------------------------------------------------------------------
(* The invariant, and what follows from it.                                *)

\* It holds before anything was asked for.
LEMMA InitKeeps == Init => Inductive
  <1> SUFFICES ASSUME Init
               PROVE  Inductive
    OBVIOUS
  <1>1. /\ dir = [r \in RunIds |-> Nothing] /\ job = [u \in Users |-> NoJob]
        /\ faults = 0 /\ outcome = [r \in RunIds |-> Nothing] /\ upset = {}
    BY DEF Init
  <1>2. \A u \in Users : job[u] = NoJob /\ IsBlank(job[u])
    BY <1>1, NoJobIsBlank
  <1>3. \A r \in RunIds : DirOK(r) /\ OutcomeOK(r)
    BY <1>1 DEF DirOK, OutcomeOK
  <1>4. \A u \in Users : UserOK(u)
    <2> SUFFICES ASSUME NEW u \in Users
                 PROVE  UserOK(u)
      OBVIOUS
    <2> PICK j : j = job[u]
      OBVIOUS
    <2>1. IsBlank(j) /\ j.at = "idle" /\ j.exit = "none"
      BY <1>2 DEF IsBlank
    <2>2. <<>> \in Seq(AnyBaseline) /\ <<>> \in Seq(Artifacts)
      OBVIOUS
    <2>3. ShapeOK(u)
      BY <2>1, <2>2 DEF IsBlank, ShapeOK, Labels, Exits, Writing, Gates
    <2>4. WritingOK(u) /\ GateOK(u)
      BY <2>1 DEF WritingOK, GateOK, Writing, Gates
    <2>5. RecordsOK(u) /\ ReadingOK(u) /\ ReportOK(u)
      BY <2>1 DEF IsBlank, RecordsOK, ReadingOK, ReportOK
    <2> QED BY <2>3, <2>4, <2>5 DEF UserOK
  <1>5. job = [u \in Users |-> job[u]] /\ DOMAIN dir = RunIds
        /\ dir = [r \in RunIds |-> dir[r]] /\ faults \in 0..MaxFaults
    BY <1>1, FaultsAssumption
  <1>6. outcome \in [RunIds -> OutcomeType \cup {Nothing}] /\ upset \subseteq RunIds
    BY <1>1
  <1> QED BY <1>3, <1>4, <1>5, <1>6 DEF Inductive

\* It holds as long as nothing moves.
LEMMA StandingKeeps ==
  ASSUME Inductive, UNCHANGED vars
  PROVE  Inductive'
  <1>1. /\ dir' = dir /\ job' = job /\ faults' = faults /\ outcome' = outcome
        /\ upset' = upset
    BY DEF vars
  <1>2. \A r \in RunIds : DirOK(r)' /\ OutcomeOK(r)'
    <2>1. \A r \in RunIds : DirOK(r)'
      BY <1>1 DEF Inductive, DirOK, File, Legible, Justified, Numbered, Launched, Writing,
                  Run
    <2>2. \A r \in RunIds : OutcomeOK(r)'
      BY <1>1 DEF Inductive, OutcomeOK, FellBack
    <2> QED BY <2>1, <2>2
  <1>3. \A u \in Users : UserOK(u)'
    <2> SUFFICES ASSUME NEW u \in Users
                 PROVE  UserOK(u)'
      OBVIOUS
    <2>1. UserOK(u)
      BY DEF Inductive
    <2>2. ShapeOK(u)'
      BY <1>1, <2>1 DEF UserOK, ShapeOK, Writing, Gates, Command
    <2>3. WritingOK(u)'
      BY <1>1, <2>1 DEF UserOK, WritingOK, Writing, Run, Command, File, Content, Verdict,
                        Numbers
    <2>4. RecordsOK(u)'
      BY <1>1, <2>1 DEF UserOK, RecordsOK, Settled, Unwritten, Backed, Writing, Run, File,
                        Legible
    <2>5. ReadingOK(u)'
      BY <1>1, <2>1 DEF UserOK, ReadingOK, Counted, Justified, Numbered, Launched, Writing,
                        Run
    <2>6. ReportOK(u)'
      BY <1>1, <2>1 DEF UserOK, ReportOK
    <2>7. GateOK(u)'
      <3>1. Runs(u)' = Runs(u) /\ Current(u)' = Current(u) /\ (Gates(u)' <=> Gates(u))
        BY <1>1 DEF Runs, Current, Writing, Run, Gates, Command
      <3>2. (OneWorkload(u)' <=> OneWorkload(u)) /\ (OnPlan(u)' <=> OnPlan(u))
        BY <1>1, <3>1 DEF OneWorkload, OnPlan, BaselinesOf, Pending, Writing, Command
      <3>3. (AllRan(u)' <=> AllRan(u)) /\ (AIHeard(u)' <=> AIHeard(u))
        BY <1>1, <3>1 DEF AllRan, BaselinesOf, AIHeard, File
      <3>4. Sound(u)' <=> Sound(u)
        BY <1>1, <3>1 DEF Sound, AllValid, File, Legible, Hashes
      <3>5. ReadsAll(u)' <=> ReadsAll(u)
        BY <1>1, <3>1 DEF ReadsAll, Taking, TrueReading, File, Run
      <3>6. (Cause(u)' <=> Cause(u)) /\ (FailedForCause(u)' <=> FailedForCause(u))
        BY <1>1, <3>1 DEF Cause, FailedForCause
      <3> QED BY <1>1, <2>1, <3>1, <3>2, <3>3, <3>4, <3>5, <3>6 DEF UserOK, GateOK
    <2> QED BY <2>2, <2>3, <2>4, <2>5, <2>6, <2>7 DEF UserOK
  <1> QED BY <1>1, <1>2, <1>3 DEF Inductive

\* Every step keeps it.
LEMMA NextKeeps ==
  ASSUME Inductive, [Next]_vars
  PROVE  Inductive'
  <1>1. CASE Next
    <2>1. PICK u \in Users : Start(u) \/ Go(u) \/ Raise(u) \/ Kill(u)
      BY <1>1 DEF Next
    <2>2. CASE Start(u)
      BY <2>2, StartKeeps
    <2>3. CASE Go(u)
      <3>1. CASE MakeDirectory(u)
        BY <3>1, MakeDirectoryKeeps
      <3>2. CASE Open(u)
        BY <3>2, OpenKeeps
      <3>3. CASE Fill(u)
        BY <3>3, FillKeeps
      <3>4. CASE Work(u)
        BY <3>4, WorkKeeps
      <3>5. CASE Return(u)
        BY <3>5, ReturnKeeps
      <3>6. CASE Finish(u)
        BY <3>6, FinishKeeps
      <3>7. CASE Choose(u)
        BY <3>7, ChooseKeeps
      <3>8. CASE ReadFile(u)
        BY <3>8, ReadFileKeeps
      <3>9. CASE TakeRun(u)
        BY <3>9, TakeRunKeeps
      <3>10. CASE Compare(u)
        BY <3>10, CompareKeeps
      <3>11. CASE EarlierOnes(u)
        BY <3>11, EarlierOnesKeeps
      <3>12. CASE Examine(u)
        BY <3>12, ExamineKeeps
      <3>13. CASE Publish(u)
        BY <3>13, PublishKeeps
      <3> QED BY <2>3, <3>1, <3>2, <3>3, <3>4, <3>5, <3>6, <3>7, <3>8, <3>9, <3>10,
                 <3>11, <3>12, <3>13 DEF Go
    <2>4. CASE Raise(u)
      BY <2>4, RaiseKeeps
    <2>5. CASE Kill(u)
      BY <2>5, KillKeeps
    <2> QED BY <2>1, <2>2, <2>3, <2>4, <2>5
  <1>2. CASE UNCHANGED vars
    BY <1>2, StandingKeeps
  <1> QED BY <1>1, <1>2

\* A reachable state is one of them.
LEMMA Reached == Spec => []Inductive
  BY InitKeeps, NextKeeps, PTL DEF Spec

\* Each file holds what run() writes into it, in whole or in part or not yet, and an
\* error is never told of a run that is called valid (benchmark/harness.py:103-148).
THEOREM TypeCorrect == Spec => []TypeOK
  <1>1. Inductive => TypeOK
    <2> SUFFICES ASSUME Inductive
                 PROVE  TypeOK
      OBVIOUS
    <2>1. \A r \in RunIds : dir[r] # Nothing =>
            \A f \in Artifacts : dir[r].files[f] \in FileType(f) \cup {Missing, Torn}
      BY DEF Inductive, DirOK, File
    <2>2. \A u \in Users :
            /\ job[u].at \in Labels /\ job[u].exit \in Exits
            /\ job[u].command \in Commands[u] \cup {Nothing}
            /\ job[u].records \subseteq [run : RunIds, valid : BOOLEAN]
            /\ job[u].passed \subseteq 1..EarlierGates + 1
      BY DEF Inductive, UserOK, ShapeOK
    <2> QED BY <2>1, <2>2 DEF Inductive, TypeOK
  <1> QED BY <1>1, Reached, PTL

\* What a user is told is backed by what is on disk and by what was run, whatever was
\* raised, interrupted or killed: every record, the exit code of the gates when they
\* pass, and a cause when they do not
\* (benchmark/harness.py:113-148, gates.py:30-81, gate_checks_governance.py:115-158).
THEOREM TellingIsBacked == Spec => []ToldIsBacked
  <1>1. Inductive => ToldIsBacked
    <2> SUFFICES ASSUME Inductive, NEW u \in Users
                 PROVE  /\ \A record \in job[u].records :
                             Backed(record) /\ (record.valid => FellBack(record.run))
                        /\ job[u].exit = "0" /\ Command(u).kind = "gate" =>
                             /\ {dir[r].baseline : r \in Runs(u)} = AnyBaseline
                             /\ AllValid(u) /\ AIHeard(u)
                             /\ Cardinality(Hashes(Runs(u))) = 1
                        /\ job[u].exit = "3" => FailedForCause(u)
      BY DEF ToldIsBacked
    <2>1. UserOK(u) /\ \A r \in RunIds : OutcomeOK(r)
      BY DEF Inductive
    <2>2. \A record \in job[u].records :
            Backed(record) /\ (record.valid => FellBack(record.run))
      BY <2>1 DEF UserOK, ShapeOK, RecordsOK, Settled, OutcomeOK
    <2>3. job[u].exit # "none" => job[u].at = "ended"
      BY <2>1 DEF UserOK, ShapeOK
    <2>4. ASSUME job[u].exit = "0", Command(u).kind = "gate"
          PROVE  /\ {dir[r].baseline : r \in Runs(u)} = AnyBaseline
                 /\ AllValid(u) /\ AIHeard(u) /\ Cardinality(Hashes(Runs(u))) = 1
      <3>1. GateOK(u) /\ Gates(u)
        BY <2>1, <2>3, <2>4 DEF UserOK, Gates
      <3>2. AllRan(u) /\ Sound(u) /\ AIHeard(u)
        BY <2>4, <3>1 DEF GateOK
      <3> QED BY <3>2 DEF AllRan, BaselinesOf, Sound
    <2>5. job[u].exit = "3" => FailedForCause(u)
      BY <2>1 DEF UserOK, ShapeOK, GateOK
    <2> QED BY <2>2, <2>4, <2>5
  <1> QED BY <1>1, Reached, PTL

\* A comparison counts only runs whose workload passed, even when it reads a directory
\* that is being written or was left half written, and with the numbers of the policy
\* the run had.  The exception: when something was raised after the workload had
\* returned, it may count the error that the handler wrote in place of the numbers, but
\* never numbers of another policy (metrics/compare.py:19-86, benchmark/harness.py:127).
THEOREM CountingIsSound == Spec => []CountedPassed
  <1>1. Inductive => CountedPassed
    BY DEF Inductive, UserOK, ReportOK, CountedPassed, Passes
  <1> QED BY <1>1, Reached, PTL
=============================================================================
