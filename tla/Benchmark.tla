------------------------------ MODULE Benchmark ------------------------------
(***************************************************************************)
(* The benchmark on disk.  Users run commands of the command line side by   *)
(* side: a run or a matrix of runs, each of which fills a directory of its  *)
(* own file by file; a comparison, which reads directories file by file;    *)
(* the gates, the last of which runs a matrix and compares it.  Any         *)
(* statement may raise or be interrupted, and any process be killed.        *)
(***************************************************************************)
EXTENDS Comparison, BaselinePolicy, Sequences, FiniteSetsExt

CONSTANTS
  Users,
  RunIds,           \* a new one for every run: as many as there are, a bound
  BaselineOrder,    \* BASELINES
  Commands,         \* what each user may ask for, see IsCommand
  Outcomes,         \* what a workload may return, see IsOutcome
  EarlierGates,     \* gates before the last one, six in the code
  MaxFaults,        \* bound on exceptions, interrupts and kills
  Missing, Torn,    \* of a file: not there; truncated or written in part
  Nothing

\* A hash of the state of the workload and its checks: none, all true, or not.
IsOutcome(o) == o.hash \in Nat /\ o.checks \in {"none", "hold", "fail"}

\* A run is asked for with the model of the command line or with one of the user's.
IsCommand(c) ==
  /\ c.workload \in Workloads /\ c.seed \in Nat /\ c.model \in {"default", "given"}
  /\ \/ c.kind = "run" /\ c.baseline \in {BaselineOrder[i] : i \in DOMAIN BaselineOrder}
     \/ c.kind \in {"matrix", "compare"}
     \/ c.kind = "gate" /\ c.workload = "E_MIXED" /\ c.model = "default"

ASSUME BaselinesAssumption ==
  /\ BaselineOrder # <<>>
  /\ BaselineOrder \in Seq({"B0_NATIVE", "B1_FIXED", "B2_RULE", "B3_AI"})
ASSUME CommandsAssumption == \A u \in Users : \A c \in Commands[u] : IsCommand(c)
ASSUME GatesAssumption == EarlierGates \in Nat
ASSUME FaultsAssumption == MaxFaults \in Nat
ASSUME OutcomesAssumption == \A o \in Outcomes : IsOutcome(o)
ASSUME FilesAssumption == Missing # Torn /\ Nothing \notin {Missing, Torn} \cup RunIds

\* Files in the order they are written: before the workload, and after it, be it by
\* its outcome or by the handler of its exception.
Launch  == <<"manifest", "config", "intents", "receipts">>
Closing == <<"metrics", "correctness", "summary">>

\* Variant: a metrics file that is there is left alone.
HandlingKept == <<"correctness", "summary">>

Handling == Closing

Artifacts == {Launch[i] : i \in DOMAIN Launch} \cup {Closing[i] : i \in DOMAIN Closing}

\* Answers of a user's model that decide survives; any other one raises, see Raise.
Bearable == {a \in Answers : a.kind # "overflows"}

\* What each artifact may say.
AnyBaseline == {BaselineOrder[i] : i \in DOMAIN BaselineOrder}
AnyPolicy ==
  {Resolved(w, b, reply) : w \in Workloads, b \in AnyBaseline,
     reply \in {Silence} \cup Bearable \cup {Fixture(Summary(w)) : w \in Workloads}}
NumbersType ==
  {[values |-> Settings(p), policy |-> p] : p \in AnyPolicy}
  \cup {[values |-> Nothing, policy |-> Plain("ERROR")]}
VerdictType ==
  {v \in [valid : BOOLEAN, hash : {o.hash : o \in Outcomes} \cup {Nothing},
          error : BOOLEAN] :
     v.error => ~v.valid /\ v.hash = Nothing}
OutcomeType ==
  [hash : {o.hash : o \in Outcomes}, checks : {"none", "hold", "fail"},
   policy : AnyPolicy]

FileType(f) ==
  CASE f = "correctness" -> VerdictType
    [] f = "metrics"     -> NumbersType
    [] f = "summary"     -> BOOLEAN
    [] OTHER             -> {"whole"}

Contents == VerdictType \cup NumbersType \cup BOOLEAN \cup {"whole"}
DirType ==
  [workload : Workloads, baseline : AnyBaseline, seed : Nat,
   files : [Artifacts -> Contents \cup {Missing, Torn}]]

ASSUME AbsentAssumption ==
  /\ Missing \notin Contents /\ Torn \notin Contents
  /\ Nothing \notin DirType /\ Nothing \notin OutcomeType
  /\ \A p \in AnyPolicy : Settings(p) # Nothing

VARIABLES
  dir,              \* run directories: Nothing, or their files
  job,              \* what each user's process is executing
  faults,           \* exceptions, interrupts and kills so far
  outcome,          \* history: what the workload of a run returned
  upset             \* history: runs that raised after their workload returned

vars == <<dir, job, faults, outcome, upset>>

NoJob ==
  [at |-> "idle", command |-> Nothing, todo |-> <<>>, run |-> Nothing,
   phase |-> "none", left |-> <<>>, records |-> {}, unread |-> {}, part |-> Nothing,
   read |-> {}, passed |-> {}, report |-> Nothing, exit |-> "none"]

Become(u, j) == job' = [job EXCEPT ![u] = j]
Command(u)   == job[u].command
Run(u)       == job[u].run

-----------------------------------------------------------------------------
(* The command line.                                                       *)

\* The baselines a command runs, in order.
Plan(c) == IF c.kind = "run" THEN <<c.baseline>> ELSE BaselineOrder

\* There are ids for these runs beside those that others have yet to begin.
Room(plan) ==
  Len(plan) + MapThenSumSet(LAMBDA u : Len(job[u].todo), Users)
    <= Cardinality({r \in RunIds : dir[r] = Nothing})

Start(u) ==
  /\ job[u].at \in {"idle", "ended"}
  /\ \E c \in Commands[u] :
       LET fresh == [NoJob EXCEPT !.command = c]
       IN  \/ /\ c.kind \in {"run", "matrix", "gate"}
              /\ Room(Plan(c))
              /\ Become(u, [fresh EXCEPT
                   !.at = IF c.kind = "gate" THEN "gate" ELSE "mkdir",
                   !.todo = Plan(c)])
           \/ /\ c.kind = "compare"
              /\ \E dirs \in SUBSET {r \in RunIds : dir[r] # Nothing} \ {{}} :
                   Become(u, [fresh EXCEPT !.at = "choose", !.unread = dirs])
  /\ UNCHANGED <<dir, faults, outcome, upset>>

\* A process comes to its end.  What it has found out stays, to speak about.
Exit(u, code) ==
  Become(u, [job[u] EXCEPT !.at = "ended", !.todo = <<>>, !.run = Nothing,
    !.phase = "none", !.left = <<>>, !.unread = {}, !.part = Nothing, !.read = {},
    !.exit = code])

AllValid(u) == \A record \in job[u].records : record.valid

\* The last gate is over, the report of the gates comes next.
Gated(u, passes) ==
  Become(u, [job[u] EXCEPT !.at = "publish", !.run = Nothing, !.todo = <<>>,
    !.phase = "none", !.left = <<>>, !.unread = {}, !.part = Nothing, !.read = {},
    !.passed = IF passes THEN @ \cup {EarlierGates + 1} ELSE @])

\* An exception leaves run() or the comparison: it ends the process, but in a gate it
\* is a failure of the gate unless it is an interrupt.
Escape(u, interrupt) ==
  IF Command(u).kind = "gate" /\ job[u].at # "publish" /\ ~interrupt
  THEN Gated(u, FALSE)
  ELSE Exit(u, "raised")

-----------------------------------------------------------------------------
(* BenchmarkHarness.run, of the next baseline of the matrix.                *)

NewDirectory(c, baseline) ==
  [workload |-> c.workload, baseline |-> baseline, seed |-> c.seed,
   files |-> [f \in Artifacts |-> Missing]]

MakeDirectory(u) ==
  /\ job[u].at = "mkdir" /\ job[u].todo # <<>>
  /\ \E r \in RunIds :
       /\ dir[r] = Nothing
       /\ dir' = [dir EXCEPT ![r] = NewDirectory(Command(u), Head(job[u].todo))]
       /\ Become(u, [job[u] EXCEPT !.at = "open", !.run = r, !.phase = "launch",
                                   !.left = Launch, !.todo = Tail(@)])
  /\ UNCHANGED <<faults, outcome, upset>>

\* Variant: an outcome is valid when no check fails.
PassesVacuously(o) == o.checks # "fail"

\* WorkloadOutcome.valid.
Passes(o) == o.checks = "hold"

\* Variant: the handler repeats the verdict of the workload.
VerdictRepeated(u) ==
  [valid |-> outcome[Run(u)] # Nothing /\ Passes(outcome[Run(u)]),
   hash  |-> IF job[u].phase = "handle" THEN Nothing ELSE outcome[Run(u)].hash,
   error |-> job[u].phase = "handle"]

\* What correctness.json says.
Verdict(u) ==
  IF job[u].phase = "handle" THEN [valid |-> FALSE, hash |-> Nothing, error |-> TRUE]
  ELSE [valid |-> Passes(outcome[Run(u)]), hash |-> outcome[Run(u)].hash, error |-> FALSE]

\* What metrics.json says: the numbers, which follow from the settings, and the
\* policy; after an exception, the time that passed and no policy.
Numbers(u) ==
  IF job[u].phase = "handle" THEN [values |-> Nothing, policy |-> Plain("ERROR")]
  ELSE [values |-> Settings(outcome[Run(u)].policy), policy |-> outcome[Run(u)].policy]

Content(u, f) ==
  CASE f = "correctness" -> Verdict(u)
    [] f = "metrics"     -> Numbers(u)
    [] f = "summary"     -> Verdict(u).valid
    [] OTHER             -> "whole"

\* write_text empties the file, then fills it.
Open(u) ==
  /\ job[u].at = "open" /\ job[u].left # <<>>
  /\ dir' = [dir EXCEPT ![Run(u)].files[Head(job[u].left)] = Torn]
  /\ Become(u, [job[u] EXCEPT !.at = "fill"])
  /\ UNCHANGED <<faults, outcome, upset>>

Fill(u) ==
  /\ job[u].at = "fill"
  /\ dir' = [dir EXCEPT
       ![Run(u)].files[Head(job[u].left)] = Content(u, Head(job[u].left))]
  /\ Become(u, [job[u] EXCEPT !.at = "open", !.left = Tail(@)])
  /\ UNCHANGED <<faults, outcome, upset>>

\* What a model may reply to the adapter.
Replies(c) ==
  {Silence} \cup
  IF c.model = "default" THEN {Fixture(Summary(c.workload))} ELSE Bearable

\* The policy is resolved and the workload run.
Work(u) ==
  /\ job[u].at = "open" /\ job[u].left = <<>> /\ job[u].phase = "launch"
  /\ \E o \in Outcomes, reply \in Replies(Command(u)) :
       outcome' = [outcome EXCEPT ![Run(u)] =
         [hash |-> o.hash, checks |-> o.checks,
          policy |-> Resolved(Command(u).workload, dir[Run(u)].baseline, reply)]]
  /\ Become(u, [job[u] EXCEPT !.phase = "close", !.left = Closing])
  /\ UNCHANGED <<dir, faults, upset>>

\* run returns its record, and the matrix goes on to the next baseline.
Return(u) ==
  /\ job[u].at = "open" /\ job[u].left = <<>> /\ job[u].phase \in {"close", "handle"}
  /\ Become(u, [job[u] EXCEPT
       !.at = "mkdir", !.run = Nothing, !.phase = "none",
       !.records = @ \cup {[run |-> Run(u), valid |-> Verdict(u).valid]}])
  /\ UNCHANGED <<dir, faults, outcome, upset>>

\* The last record: the command exits, or the gate looks at the runs.
Finish(u) ==
  /\ job[u].at = "mkdir" /\ job[u].todo = <<>>
  /\ \/ /\ Command(u).kind # "gate"
        /\ Exit(u, IF AllValid(u) THEN "0" ELSE "2")
     \/ /\ Command(u).kind = "gate"
        /\ Become(u, [job[u] EXCEPT !.at = "examine"])
  /\ UNCHANGED <<dir, faults, outcome, upset>>

\* A statement raises: an I/O error, an exception of the workload, a value that
\* cannot be encoded, an answer that overflows, or an interrupt.  Of the statements of run() those after the
\* launch are guarded: the handler takes whatever it is, and writes the closing
\* files itself.  What the earlier gates raise is their failure.
Raise(u) ==
  /\ job[u].at \notin {"idle", "ended"} /\ faults < MaxFaults
  /\ \E interrupt \in BOOLEAN :
       /\ job[u].at = "gate" => interrupt
       /\ IF \/ job[u].phase = "close"
             \/ job[u].phase = "launch" /\ job[u].left = <<>>
          THEN Become(u, [job[u] EXCEPT !.at = "open", !.phase = "handle",
                                        !.left = Handling])
          ELSE Escape(u, interrupt)
  /\ faults' = faults + 1
  /\ upset' = IF job[u].phase = "close" THEN upset \cup {Run(u)} ELSE upset
  /\ UNCHANGED <<dir, outcome>>

\* The process is killed, between any two statements.
Kill(u) ==
  /\ job[u].at \notin {"idle", "ended"} /\ faults < MaxFaults
  /\ Exit(u, "killed")
  /\ faults' = faults + 1
  /\ UNCHANGED <<dir, outcome, upset>>

-----------------------------------------------------------------------------
(* compare_run_dirs.                                                       *)

File(r, f)  == dir[r].files[f]
Legible(r, f) == File(r, f) \notin {Missing, Torn}

\* The next directory of the list.
Choose(u) ==
  /\ job[u].at = "choose"
  /\ \E r \in job[u].unread :
       Become(u, [job[u] EXCEPT !.at = "read", !.run = r, !.unread = @ \ {r},
         !.left = <<"manifest", "metrics", "correctness">>, !.part = [f \in {} |-> 0]])
  /\ UNCHANGED <<dir, faults, outcome, upset>>

ReadFile(u) ==
  /\ job[u].at = "read" /\ job[u].left # <<>>
  /\ LET f == Head(job[u].left)
     IN  IF Legible(Run(u), f)
         THEN Become(u, [job[u] EXCEPT !.left = Tail(@),
                !.part = [g \in DOMAIN @ \cup {f} |->
                            IF g = f THEN File(Run(u), f) ELSE @[g]]])
         ELSE Escape(u, FALSE)
  /\ UNCHANGED <<dir, faults, outcome, upset>>

TakeRun(u) ==
  /\ job[u].at = "read" /\ job[u].left = <<>>
  /\ Become(u, [job[u] EXCEPT !.at = "choose", !.run = Nothing, !.part = Nothing,
       !.read = @ \cup {Reading(Run(u), dir[Run(u)], job[u].part["correctness"],
                                job[u].part["metrics"])}])
  /\ UNCHANGED <<dir, faults, outcome, upset>>

-----------------------------------------------------------------------------
(* The gates.                                                              *)

\* Gates before the last one touch nothing of this; each passes with evidence, or
\* fails: by what it finds, by an exception, or for want of evidence.
EarlierOnes(u) ==
  /\ job[u].at = "gate"
  /\ \E passed \in SUBSET (1..EarlierGates) :
       Become(u, [job[u] EXCEPT !.at = "mkdir", !.passed = passed])
  /\ UNCHANGED <<dir, faults, outcome, upset>>

Runs(u) == {record.run : record \in job[u].records}

Hashes(runs) == {File(r, "correctness").hash : r \in runs}

\* Variant: the hashes are not compared.
SoundAnyHash(u) ==
  /\ Cardinality(Runs(u)) = Len(BaselineOrder) /\ AllValid(u)
  /\ \A r \in Runs(u) : \A f \in Artifacts : File(r, f) # Missing
  /\ \A r \in Runs(u) : Legible(r, "correctness")

\* What the last gate asks of its runs before it compares them.
Sound(u) ==
  /\ Cardinality(Runs(u)) = Len(BaselineOrder) /\ AllValid(u)
  /\ \A r \in Runs(u) : \A f \in Artifacts : File(r, f) # Missing
  /\ \A r \in Runs(u) : Legible(r, "correctness")
  /\ Cardinality(Hashes(Runs(u))) = 1

Examine(u) ==
  /\ job[u].at = "examine"
  /\ IF Sound(u) THEN Become(u, [job[u] EXCEPT !.at = "choose", !.unread = Runs(u)])
     ELSE Gated(u, FALSE)
  /\ UNCHANGED <<dir, faults, outcome, upset>>

\* The AI was heard in the run that is governed by it.
AIHeard(u) ==
  \A r \in Runs(u) : dir[r].baseline = "B3_AI" => File(r, "metrics").policy.status = "OK"

\* All is read: the comparison ends its process, or decides the last gate.
Compare(u) ==
  LET report == Report(job[u].read)
  IN  /\ job[u].at = "choose" /\ job[u].unread = {}
      /\ \/ /\ Command(u).kind = "gate"
            /\ Gated(u, /\ report.comparison_compatible
                        /\ report.valid_run_count = Len(BaselineOrder)
                        /\ AIHeard(u))
         \/ /\ Command(u).kind = "compare"
            /\ Become(u, [job[u] EXCEPT !.at = "ended", !.read = {},
                                        !.report = report, !.exit = "0"])
      /\ UNCHANGED <<dir, faults, outcome, upset>>

\* The report of the gates is written, and tells the exit code.
Publish(u) ==
  /\ job[u].at = "publish"
  /\ Exit(u, IF job[u].passed = 1..EarlierGates + 1 THEN "0" ELSE "3")
  /\ UNCHANGED <<dir, faults, outcome, upset>>

-----------------------------------------------------------------------------
Init ==
  /\ dir     = [r \in RunIds |-> Nothing]
  /\ job     = [u \in Users |-> NoJob]
  /\ faults  = 0
  /\ outcome = [r \in RunIds |-> Nothing]
  /\ upset   = {}

Go(u) ==
  \/ MakeDirectory(u) \/ Open(u) \/ Fill(u) \/ Work(u) \/ Return(u) \/ Finish(u)
  \/ Choose(u) \/ ReadFile(u) \/ TakeRun(u) \/ Compare(u)
  \/ EarlierOnes(u) \/ Examine(u) \/ Publish(u)

Next == \E u \in Users : Start(u) \/ Go(u) \/ Raise(u) \/ Kill(u)

Spec == Init /\ [][Next]_vars

-----------------------------------------------------------------------------
(* What the benchmark promises.                                            *)

Labels == {"idle", "mkdir", "open", "fill", "choose", "read", "gate", "examine",
           "publish", "ended"}
Exits == {"none", "0", "2", "3", "raised", "killed"}

\* Every file holds what run() writes into it, in whole or in part or not yet, and an
\* error is never told of a run that is called valid.
TypeOK ==
  /\ \A r \in RunIds : dir[r] # Nothing =>
       \A f \in Artifacts : dir[r].files[f] \in FileType(f) \cup {Missing, Torn}
  /\ \A u \in Users :
       /\ job[u].at \in Labels /\ job[u].exit \in Exits
       /\ job[u].command \in Commands[u] \cup {Nothing}
       /\ job[u].records \subseteq [run : RunIds, valid : BOOLEAN]
       /\ job[u].passed \subseteq 1..EarlierGates + 1
  /\ faults \in 0..MaxFaults
  /\ outcome \in [RunIds -> OutcomeType \cup {Nothing}]
  /\ upset \subseteq RunIds

\* What a record says of a run is what its directory says: every artifact is there in
\* whole, both verdicts are the one returned, and a valid one is that of a workload
\* which passed and whose numbers were kept.
Backed(record) ==
  /\ \A f \in Artifacts : Legible(record.run, f)
  /\ File(record.run, "correctness").valid = record.valid
  /\ File(record.run, "summary") = record.valid
  /\ record.valid => /\ Passes(outcome[record.run])
                     /\ File(record.run, "metrics").values # Nothing

\* In a run of the AI that was not heard the rules decided: it was the run of B2.
FellBack(r) ==
  LET p == outcome[r].policy
  IN  dir[r].baseline = "B3_AI" /\ p.status \notin {"OK", "ABSTAIN"} =>
        Settings(p) = Settings(Resolved(dir[r].workload, "B2_RULE", Silence))

\* The gates fail for a cause: an earlier gate, an exception, a workload that went
\* wrong, another state of it, or a model that was silent.
FailedForCause(u) ==
  \/ ~(1..EarlierGates \subseteq job[u].passed) \/ faults > 0
  \/ \E r \in Runs(u) :
       \/ ~Passes(outcome[r]) \/ outcome[r].policy.status = "TIMEOUT"
       \/ \E q \in Runs(u) : outcome[r].hash # outcome[q].hash

\* What a user is told is backed by what is on disk and by what was run, whatever was
\* raised, interrupted or killed: every record a run returned, and what its policy was;
\* if the gates pass, a valid run per baseline, all with one hash and the last with
\* its AI; if they fail, a cause.
ToldIsBacked ==
  \A u \in Users :
    /\ \A record \in job[u].records :
         Backed(record) /\ (record.valid => FellBack(record.run))
    /\ job[u].exit = "0" /\ Command(u).kind = "gate" =>
         /\ {dir[r].baseline : r \in Runs(u)} = AnyBaseline
         /\ AllValid(u) /\ AIHeard(u) /\ Cardinality(Hashes(Runs(u))) = 1
    /\ job[u].exit = "3" => FailedForCause(u)

\* A comparison takes numbers only from runs whose workload passed, even when it reads
\* a directory that is being written or was left half written; and they are the
\* numbers of the policy it ran under.  When something was raised after the workload had
\* returned they may be those of the error instead, which are none, beside the verdict
\* of the workload; they are never another policy's.
CountedPassed ==
  \A u \in Users : job[u].report # Nothing =>
    \A b \in DOMAIN job[u].report.by_baseline :
      \A m \in job[u].report.by_baseline[b].metrics :
        /\ outcome[m.run] # Nothing /\ outcome[m.run].checks = "hold"
        /\ \/ m.values = Settings(outcome[m.run].policy)
           \/ m.run \in upset /\ m.values = Nothing
=============================================================================
