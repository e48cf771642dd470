---------------------------- MODULE CgroupProof ----------------------------
(***************************************************************************)
(* Whatever the threads, domains, names and processes are: every cgroup has *)
(* one claim on it, a budget is written whole or reported as a failure, and *)
(* a confirmed pause or resume holds until somebody asks for the other.    *)
(***************************************************************************)
EXTENDS CgroupProvider, FiniteSetTheorems, TLAPS

-----------------------------------------------------------------------------
(* The inductive invariant.                                                *)

Confirmed(j) == j.at = "done" /\ j.result = "confirmed"

\* A command that came as far as its read-back.
ReadBack(j) ==
  \/ j.at \in {"realize", "verify"}
  \/ j.at = "done" /\ j.result \in {"confirmed", "mismatch", "raised"}

\* What a job has in hand at each of its labels.
HasTarget(j) ==
  /\ j.at \in {"attach", "record"} =>
       j.domain \in Domains /\ j.target.group = GroupName[j.domain]
  /\ j.at \in {"attach", "record", "remove", "write", "freeze", "wait", "realize",
               "verify"} \/ Confirmed(j) => j.target \in TargetType

HasCommand(j) ==
  /\ j.at \in {"find", "write", "freeze", "wait", "realize", "verify", "done"}
       => j.command \in Commands
  /\ j.at \in {"freeze", "wait"} => j.command.action \in {"pause", "resume"}
  /\ j.at = "write" => j.left # {} /\ j.before.files.settings \in SettingsType

\* What a command has written, of what it has to write.
Progress(j) ==
  j.command \in Commands =>
    LET plan == Plan(j.command)
    IN  /\ j.wrote \subseteq plan
        /\ j.at = "find" => j.wrote = {}
        /\ j.at = "write" => j.left \cup j.wrote = plan
        /\ ReadBack(j) /\ j.command.action = "set_resource_budget"
             => j.wrote = plan /\ plan # {}

JobOK(j) == j \in JobType /\ HasTarget(j) /\ HasCommand(j) /\ Progress(j)

ShapeOK == TypeOK /\ \A t \in Threads : JobOK(job[t])

\* The state a pause or a resume asks for.
Wanted(j) == j.command.action = "pause"

\* While a pause or a resume was the last to write the freezer of its group, the
\* request stands, and once it was seen to be met it stays met.
Holding(groups, t, j) ==
  LET g == groups[j.target.group]
  IN  /\ j.at \in {"wait", "realize", "verify"} \/ Confirmed(j)
      /\ j.command.action \in {"pause", "resume"}
      /\ g # Nothing /\ g.freezer = t
      => /\ g.freeze = Wanted(j)
         /\ j.at # "wait" => g.frozen = Wanted(j)

FreezeOK == \A t \in Threads : Holding(group, t, job[t])

Keeps(t) == job[t].at \in {"attach", "record", "remove"}
Kept(t)  == job[t].target.group

\* Claims are on groups that are there, and records on the groups of their domains.
PresentOK ==
  /\ \A d \in Domains : targets[d] # Nothing =>
       targets[d].group = GroupName[d] /\ group[targets[d].group] # Nothing
  /\ \A t \in Threads : Keeps(t) => group[Kept(t)] # Nothing
  /\ \A g \in leaked : group[g] # Nothing

\* No group has two claims on it.
SoleOK ==
  /\ \A t \in Threads : Keeps(t) =>
       /\ \A u \in Threads : Keeps(u) /\ Kept(u) = Kept(t) => u = t
       /\ \A d \in Domains : targets[d] # Nothing => targets[d].group # Kept(t)
       /\ Kept(t) \notin leaked
  /\ \A d \in Domains : targets[d] # Nothing =>
       /\ targets[d].group \notin leaked
       /\ \A e \in Domains :
            targets[e] # Nothing /\ targets[e].group = targets[d].group => e = d

\* No group is without a claim.
KnownOK ==
  \A g \in Groups : group[g] # Nothing =>
    \/ \E d \in Domains : targets[d] # Nothing /\ targets[d].group = g
    \/ \E t \in Threads : Keeps(t) /\ Kept(t) = g
    \/ g \in leaked

Inductive == ShapeOK /\ FreezeOK /\ PresentOK /\ SoleOK /\ KnownOK

-----------------------------------------------------------------------------
(* Lemmas about the operators of the model.                                *)

\* The files, one by one.
LEMMA FilesAre ==
  /\ FileNames = {"cpu.weight", "cpu.max", "memory.max", "io.weight", "io.max"}
  /\ DOMAIN Files = 1..5
  /\ \A i \in 1..5 : Files[i] \in FileNames
  BY DEF FileNames, Files

\* The file a budget writes next is one it has not written.
LEMMA FollowingIsLeft ==
  ASSUME NEW t, job[t].left \subseteq FileNames, job[t].left # {}
  PROVE  Following(t) \in job[t].left
  <1> DEFINE S == {i \in DOMAIN Files : Files[i] \in job[t].left}
  <1>1. S \subseteq 1..5 /\ \E i \in S : TRUE
    BY FilesAre DEF FileNames
  <1>2. \E i \in S : \A k \in S : i <= k
    <2>1. \A i \in 1..5 : i \in {1, 2, 3, 4, 5}
      OBVIOUS
    <2> DEFINE P(n) == n \in S
    <2>2. P(1) \/ P(2) \/ P(3) \/ P(4) \/ P(5)
      BY <1>1, <2>1
    <2>3. \A i \in S : i \in {1, 2, 3, 4, 5}
      BY <1>1
    <2> HIDE DEF S
    <2>4. CASE 1 \in S
      BY <2>3, <2>4
    <2>5. CASE 1 \notin S /\ 2 \in S
      BY <2>3, <2>5
    <2>6. CASE 1 \notin S /\ 2 \notin S /\ 3 \in S
      BY <2>3, <2>6
    <2>7. CASE 1 \notin S /\ 2 \notin S /\ 3 \notin S /\ 4 \in S
      BY <2>3, <2>7
    <2>8. CASE 1 \notin S /\ 2 \notin S /\ 3 \notin S /\ 4 \notin S /\ 5 \in S
      BY <2>3, <2>8
    <2> QED BY <2>2, <2>4, <2>5, <2>6, <2>7, <2>8
  <1>3. Min(S) \in S
    BY <1>2 DEF Min
  <1> QED BY <1>3 DEF Following

\* A budget is written to files of the kernel, and to one at least if it is well formed.
LEMMA PlanFits ==
  ASSUME NEW c \in Commands
  PROVE  /\ Plan(c) \subseteq FileNames
         /\ Plan(c) # {} => c.action = "set_resource_budget" /\ WellFormed(c.args)
         /\ c.action = "set_resource_budget" /\ WellFormed(c.args) =>
              Plan(c) = {f \in FileNames : Holds(f) \cap DOMAIN c.args # {}}
  BY DEF Plan

\* A record of each kind may have one of its fields replaced.
LEMMA GroupFields ==
  ASSUME NEW g \in GroupType
  PROVE  /\ \A s \in SettingsType : [g EXCEPT !.settings = s] \in GroupType
         /\ \A b \in BOOLEAN : [g EXCEPT !.frozen = b] \in GroupType
         /\ \A b \in BOOLEAN : [g EXCEPT !.freeze = b] \in GroupType
         /\ \A t \in Threads : [g EXCEPT !.freezer = t] \in GroupType
  BY DEF GroupType

\* A new group is well formed, and nobody has frozen it.
LEMMA NewGroupFits == NewGroup \in GroupType /\ NewGroup.freezer = Nothing
  <1> DEFINE s == [f \in Fields |-> Initial]
             G(a, b) == [settings |-> s, freeze |-> a, frozen |-> b, freezer |-> Nothing]
  <1>1. s \in SettingsType
    BY DEF SettingsType
  <1> HIDE DEF s
  <1>2. \A a, b \in BOOLEAN : G(a, b) \in GroupType /\ G(a, b).freezer = Nothing
    BY <1>1 DEF GroupType
  <1>3. NewGroup = G(FALSE, FALSE)
    BY DEF NewGroup, s
  <1> HIDE DEF G
  <1> QED BY <1>2, <1>3

\* What inspect reads of a registered domain.
LEMMA ViewFits ==
  ASSUME TypeOK, NEW d \in Domains, targets[d] # Nothing
  PROVE  /\ View(d) \in ViewType
         /\ group[targets[d].group] # Nothing =>
              View(d).files.settings \in SettingsType
  <1> DEFINE g == group[targets[d].group]
  <1>1. targets[d] \in TargetType /\ targets[d].pid \in Pids /\ targets[d].group \in Groups
    BY DEF TypeOK, TargetType
  <1>2. g \in GroupType \cup {Nothing}
    BY <1>1 DEF TypeOK
  <1>3. CASE g = Nothing
    BY <1>1, <1>3 DEF View, ViewType
  <1>4. CASE g # Nothing
    <2>1. g.settings \in SettingsType /\ g.frozen \in BOOLEAN
      BY <1>2, <1>4 DEF GroupType
    <2> DEFINE F(s, b) == [settings |-> s, frozen |-> b]
               V(f) == [pid |-> targets[d].pid, files |-> f]
    <2>2. \A s \in SettingsType, b \in BOOLEAN :
            /\ F(s, b) \in [settings : SettingsType, frozen : BOOLEAN]
            /\ F(s, b).settings = s
      OBVIOUS
    <2>3. \A f \in [settings : SettingsType, frozen : BOOLEAN] :
            V(f) \in ViewType /\ V(f).files = f
      BY <1>1 DEF ViewType
    <2>4. View(d) = V(F(g.settings, g.frozen))
      BY <1>4 DEF View
    <2> HIDE DEF g, F, V
    <2> QED BY <2>1, <2>2, <2>3, <2>4
  <1> QED BY <1>3, <1>4

\* A step of one thread gives it another job and leaves those of the others alone.
LEMMA Becoming ==
  ASSUME ShapeOK, NEW t \in Threads, NEW j, Become(t, j)
  PROVE  /\ job'[t] = j
         /\ \A u \in Threads \ {t} : job'[u] = job[u]
         /\ DOMAIN job' = Threads /\ job' = [u \in Threads |-> job'[u]]
  BY DEF ShapeOK, TypeOK, Become

\* A step that gives a thread a well-formed job keeps the shape.
LEMMA ShapeKept ==
  ASSUME ShapeOK, NEW t \in Threads, NEW j, Become(t, j), JobOK(j),
         group' \in [Groups -> GroupType \cup {Nothing}],
         home' \in [Pids -> Groups \cup {"outside", "gone"}],
         targets' \in [Domains -> TargetType \cup {Nothing}],
         leaked' \subseteq Groups
  PROVE  ShapeOK'
  <1>1. \A u \in Threads : JobOK(job'[u])
    BY Becoming DEF ShapeOK
  <1>2. job' \in [Threads -> JobType]
    BY <1>1, Becoming DEF JobOK
  <1>3. TypeOK'
    BY <1>2 DEF TypeOK
  <1>4. \A u \in Threads : JobOK(job[u])'
    BY <1>1 DEF JobOK, HasTarget, HasCommand, Progress, ReadBack, Confirmed
  <1> QED BY <1>3, <1>4 DEF ShapeOK

\* Freezers stay as they are for everyone whose group nobody else touches.
LEMMA FreezeKept ==
  ASSUME ShapeOK, FreezeOK, NEW t \in Threads, NEW j, Become(t, j), Holding(group', t, j),
         \A u \in Threads \ {t}, g \in Groups :
           group'[g] # Nothing /\ group'[g].freezer = u =>
             /\ group[g] # Nothing /\ group[g].freezer = u
             /\ group'[g].freeze = group[g].freeze
             /\ group'[g].frozen = group[g].frozen
  PROVE  FreezeOK'
  <1> SUFFICES ASSUME NEW u \in Threads PROVE Holding(group', u, job'[u])
    BY DEF FreezeOK
  <1>1. CASE u = t
    BY <1>1, Becoming DEF Holding, Wanted, Confirmed
  <1>2. CASE u # t
    <2>1. job'[u] = job[u] /\ Holding(group, u, job[u])
      BY <1>2, Becoming DEF FreezeOK
    <2>2. job[u].at \in {"wait", "realize", "verify"} \/ Confirmed(job[u])
            => job[u].target.group \in Groups
      BY DEF ShapeOK, JobOK, HasTarget, TargetType
    <2> QED BY <1>2, <2>1, <2>2 DEF Holding, Wanted, Confirmed
  <1> QED BY <1>1, <1>2

\* A step that leaves targets, claims and the groups that are there alone.
LEMMA ClaimsKept ==
  ASSUME PresentOK, SoleOK, KnownOK, ShapeOK, UNCHANGED <<targets, leaked>>,
         \A g \in Groups : group'[g] = Nothing <=> group[g] = Nothing,
         \A u \in Threads :
           /\ Keeps(u)' <=> Keeps(u)
           /\ Keeps(u) => job'[u].target = job[u].target
  PROVE  PresentOK' /\ SoleOK' /\ KnownOK'
  <1>1. /\ \A d \in Domains : targets[d] # Nothing => targets[d].group \in Groups
        /\ \A u \in Threads : Keeps(u) => Kept(u) \in Groups
        /\ leaked \subseteq Groups
    BY DEF ShapeOK, TypeOK, TargetType, JobOK, HasTarget, Keeps, Kept
  <1>2. PresentOK'
    BY <1>1 DEF PresentOK, Keeps, Kept
  <1>3. SoleOK'
    BY DEF SoleOK, Keeps, Kept
  <1>4. KnownOK'
    BY DEF KnownOK, Keeps, Kept
  <1> QED BY <1>2, <1>3, <1>4

\* A job may have some of its fields replaced.
LEMMA JobFields ==
  ASSUME NEW j \in JobType
  PROVE  /\ \A v \in Labels : [j EXCEPT !.at = v] \in JobType
         /\ \A v \in TargetType \cup {Nothing} : [j EXCEPT !.target = v] \in JobType
         /\ \A v \in ViewType \cup {Nothing} : [j EXCEPT !.before = v] \in JobType
         /\ \A v \in SUBSET FileNames : [j EXCEPT !.left = v] \in JobType
         /\ \A v \in ViewType \cup {Nothing} : [j EXCEPT !.realized = v] \in JobType
         /\ \A v \in SUBSET Domains : [j EXCEPT !.rest = v] \in JobType
         /\ \A v \in SUBSET FileNames : [j EXCEPT !.wrote = v] \in JobType
         /\ \A v \in Results : [j EXCEPT !.result = v] \in JobType
  BY DEF JobType

\* The jobs a method starts with.
LEMMA NewJobsFit ==
  /\ NoJob \in JobType
  /\ \A c \in Commands : [NoJob EXCEPT !.at = "find", !.command = c] \in JobType
  /\ \A r \in SUBSET Domains : [NoJob EXCEPT !.at = "close", !.rest = r] \in JobType
  /\ \A d \in Domains, g \in TargetType :
       [NoJob EXCEPT !.at = "attach", !.domain = d, !.target = g] \in JobType
  BY DEF NoJob, JobType, Labels, Results

\* A thread that is at rest has nothing in hand.
LEMMA IdleFits ==
  ASSUME NEW t \in Threads
  PROVE  JobOK(NoJob) /\ NoJob.at = "idle" /\ Holding(group, t, NoJob)
  <1>1. NoJob.at = "idle" /\ NoJob.command = Nothing
    BY DEF NoJob
  <1> QED BY <1>1, NewJobsFit, AbsentAssumption
      DEF JobOK, HasTarget, HasCommand, Progress, Confirmed, Holding

\* A step that gives a thread the job j, and touches no group, target or claim.
LEMMA QuietJob ==
  ASSUME Inductive, NEW t \in Threads, NEW j, Become(t, j), JobOK(j), Holding(group, t, j),
         UNCHANGED <<group, targets, leaked>>,
         home' \in [Pids -> Groups \cup {"outside", "gone"}],
         j.at \in {"attach", "record", "remove"} <=> Keeps(t),
         Keeps(t) => j.target = job[t].target
  PROVE  Inductive'
  <1>1. ShapeOK /\ FreezeOK /\ PresentOK /\ SoleOK /\ KnownOK
    BY DEF Inductive
  <1>2. ShapeOK'
    BY <1>1, ShapeKept DEF ShapeOK, TypeOK
  <1>3. FreezeOK'
    <2>1. Holding(group', t, j)
      BY DEF Holding, Confirmed, Wanted
    <2> QED BY <1>1, <2>1, FreezeKept
  <1>4. /\ job'[t] = j
        /\ \A u \in Threads \ {t} : job'[u] = job[u]
    BY <1>1, Becoming
  <1>5. \A u \in Threads :
          /\ Keeps(u)' <=> Keeps(u)
          /\ Keeps(u) => job'[u].target = job[u].target
    BY <1>4 DEF Keeps
  <1>6. PresentOK' /\ SoleOK' /\ KnownOK'
    BY <1>1, <1>5, ClaimsKept
  <1> QED BY <1>2, <1>3, <1>6 DEF Inductive

\* A command ends with a result other than a failure only when it is verified.
LEMMA Ending ==
  ASSUME Inductive, NEW t \in Threads, NEW r \in Results, End(t, r), ~Keeps(t),
         job[t].command \in Commands,
         r = "failed" \/ job[t].at = "verify",
         UNCHANGED <<group, home, targets, leaked>>
  PROVE  Inductive'
  <1> DEFINE j == [job[t] EXCEPT !.at = "done", !.before = Nothing, !.left = {},
                                 !.realized = Nothing, !.result = r]
  <1>1. Become(t, j)
    BY DEF End
  <1>2. JobOK(job[t]) /\ Holding(group, t, job[t]) /\ TypeOK
    BY DEF Inductive, ShapeOK, FreezeOK
  <1>3. j \in JobType
    <2> DEFINE a == [job[t] EXCEPT !.at = "done"]
               b == [a EXCEPT !.before = Nothing]
               c == [b EXCEPT !.left = {}]
               d == [c EXCEPT !.realized = Nothing]
    <2>1. a \in JobType
      BY <1>2, JobFields DEF JobOK, Labels
    <2>2. b \in JobType
      BY <2>1, JobFields
    <2>3. c \in JobType
      BY <2>2, JobFields
    <2>4. d \in JobType
      BY <2>3, JobFields
    <2>5. [d EXCEPT !.result = r] \in JobType
      BY <2>4, JobFields
    <2> QED BY <2>5
  <1>4. /\ j.at = "done" /\ j.result = r
        /\ j.target = job[t].target /\ j.command = job[t].command
        /\ j.wrote = job[t].wrote
    BY <1>2 DEF JobOK, JobType
  <1> HIDE DEF j
  <1>5. JobOK(j)
    <2>1. HasTarget(j) /\ HasCommand(j)
      BY <1>2, <1>4 DEF JobOK, HasTarget, HasCommand, Confirmed
    <2>2. Progress(j)
      BY <1>2, <1>4 DEF JobOK, Progress, ReadBack
    <2> QED BY <1>3, <2>1, <2>2 DEF JobOK
  <1>6. Holding(group, t, j)
    BY <1>2, <1>4 DEF Holding, Confirmed, Wanted
  <1> QED BY <1>1, <1>2, <1>4, <1>5, <1>6, QuietJob DEF TypeOK

\* A command starts with nothing written.
LEMMA CallStep ==
  ASSUME Inductive, NEW t \in Threads, Call(t)
  PROVE  Inductive'
  <1>1. PICK c \in Commands : Become(t, [NoJob EXCEPT !.at = "find", !.command = c])
    BY DEF Call
  <1> DEFINE j == [NoJob EXCEPT !.at = "find", !.command = c]
  <1>2. /\ j \in JobType /\ j.at = "find" /\ j.command = c /\ j.wrote = {}
        /\ ~Keeps(t) /\ UNCHANGED <<group, home, targets, leaked>>
    BY <1>1, NewJobsFit DEF Call, Free, Keeps, NoJob
  <1>3. Become(t, j)
    BY <1>1
  <1> HIDE DEF j
  <1>4. JobOK(j)
    BY <1>2 DEF JobOK, HasTarget, HasCommand, Progress, Confirmed, ReadBack
  <1>5. Holding(group, t, j)
    BY <1>2 DEF Holding, Confirmed
  <1> QED BY <1>2, <1>3, <1>4, <1>5, QuietJob DEF Inductive, ShapeOK, TypeOK

\* A command that is let through has a group that is there, and its plan ahead of it.
LEMMA FindStep ==
  ASSUME Inductive, NEW t \in Threads, FindTarget(t)
  PROVE  Inductive'
  <1> DEFINE c == Command(t)
             g == targets[c.domain]
             j == [job[t] EXCEPT !.at = FirstLabel(c), !.target = g,
                                 !.before = View(c.domain), !.left = Plan(c)]
  <1>1. /\ JobOK(job[t]) /\ job[t] \in JobType /\ job[t].at = "find" /\ c \in Commands
        /\ job[t].command = c /\ job[t].wrote = {}
        /\ ~Keeps(t) /\ UNCHANGED <<group, home, targets, leaked>> /\ TypeOK
    BY DEF FindTarget, Inductive, ShapeOK, JobOK, HasCommand, Progress, Command, Keeps
  <1>2. /\ c.domain \in Domains
        /\ c.action \in {"inspect", "pause", "resume", "set_resource_budget"}
    BY <1>1, CommandsAssumption DEF IsCommand
  <1>3. CASE End(t, "failed")
    BY <1>1, <1>3, Ending DEF Results
  <1>4. CASE /\ g # Nothing /\ Become(t, j)
             /\ c.action = "set_resource_budget" => Plan(c) # {}
    <2>1. g \in TargetType /\ group[g.group] # Nothing
      BY <1>1, <1>2, <1>4 DEF TypeOK, Inductive, PresentOK
    <2>2. /\ View(c.domain) \in ViewType
          /\ View(c.domain).files.settings \in SettingsType
      BY <1>1, <1>2, <1>4, <2>1, ViewFits
    <2>3. Plan(c) \subseteq FileNames
      BY <1>1, PlanFits
    <2>4. FirstLabel(c) \in {"freeze", "realize", "write"}
      BY <1>2 DEF FirstLabel
    <2>5. /\ FirstLabel(c) = "freeze" <=> c.action \in {"pause", "resume"}
          /\ FirstLabel(c) = "write" <=> c.action = "set_resource_budget"
      BY <1>2 DEF FirstLabel
    <2>6. j \in JobType
      <3> DEFINE x == [job[t] EXCEPT !.at = FirstLabel(c)]
                 y == [x EXCEPT !.target = g]
                 z == [y EXCEPT !.before = View(c.domain)]
      <3>1. x \in JobType
        BY <1>1, <2>4, JobFields DEF Labels
      <3>2. y \in JobType
        BY <2>1, <3>1, JobFields
      <3>3. z \in JobType
        BY <2>2, <3>2, JobFields
      <3>4. [z EXCEPT !.left = Plan(c)] \in JobType
        BY <2>3, <3>3, JobFields
      <3> QED BY <3>4
    <2>7. /\ j.at = FirstLabel(c) /\ j.target = g /\ j.before = View(c.domain)
          /\ j.left = Plan(c) /\ j.command = c /\ j.wrote = {}
      BY <1>1 DEF JobType
    <2>8. Become(t, j)
      BY <1>4
    <2> HIDE DEF j, c, g
    <2>9. JobOK(j)
      <3>1. HasTarget(j)
        BY <2>1, <2>4, <2>7 DEF HasTarget, Confirmed
      <3>2. HasCommand(j)
        BY <1>1, <1>4, <2>2, <2>4, <2>5, <2>7 DEF HasCommand
      <3>3. Progress(j)
        BY <2>4, <2>5, <2>7 DEF Progress, ReadBack
      <3> QED BY <2>6, <3>1, <3>2, <3>3 DEF JobOK
    <2>10. Holding(group, t, j)
      BY <2>4, <2>5, <2>7 DEF Holding, Confirmed
    <2> QED BY <1>1, <2>4, <2>7, <2>8, <2>9, <2>10, QuietJob DEF TypeOK
  <1> QED BY <1>3, <1>4 DEF FindTarget

\* What a wait has seen is what the command asked for.
LEMMA WaitStep ==
  ASSUME Inductive, NEW t \in Threads, Reached(t)
  PROVE  Inductive'
  <1> DEFINE j == [job[t] EXCEPT !.at = "realize"]
  <1>1. /\ JobOK(job[t]) /\ job[t] \in JobType /\ job[t].at = "wait"
        /\ Holding(group, t, job[t]) /\ Become(t, j) /\ TypeOK
        /\ ~Keeps(t) /\ UNCHANGED <<group, home, targets, leaked>>
    BY DEF Reached, Goto, Inductive, ShapeOK, FreezeOK, JobOK, Keeps
  <1>2. group[job[t].target.group].frozen = Wanted(job[t])
    BY DEF Reached, Group, Target, Command, Wanted
  <1>3. /\ j \in JobType /\ j.at = "realize" /\ j.target = job[t].target
        /\ j.command = job[t].command /\ j.wrote = job[t].wrote
        /\ Wanted(j) = Wanted(job[t])
    <2>1. j \in JobType
      BY <1>1, JobFields DEF Labels
    <2> QED BY <1>1, <2>1 DEF JobType, Wanted
  <1> HIDE DEF j
  <1>4. JobOK(j)
    <2>1. HasTarget(j)
      BY <1>1, <1>3 DEF JobOK, HasTarget, Confirmed
    <2>2. HasCommand(j)
      BY <1>1, <1>3 DEF JobOK, HasCommand
    <2>3. Progress(j)
      BY <1>1, <1>3 DEF JobOK, HasCommand, Progress, ReadBack
    <2> QED BY <1>3, <2>1, <2>2, <2>3 DEF JobOK
  <1>5. Holding(group, t, j)
    BY <1>1, <1>2, <1>3 DEF Holding, Confirmed
  <1> QED BY <1>1, <1>3, <1>4, <1>5, QuietJob DEF TypeOK

\* The read-back changes nothing that was promised.
LEMMA ReadStep ==
  ASSUME Inductive, NEW t \in Threads, Realize(t)
  PROVE  Inductive'
  <1> DEFINE d == Command(t).domain
             j == [job[t] EXCEPT !.at = "verify", !.realized = View(d)]
  <1>1. /\ JobOK(job[t]) /\ job[t] \in JobType /\ job[t].at = "realize"
        /\ Holding(group, t, job[t]) /\ TypeOK /\ job[t].command \in Commands
        /\ ~Keeps(t) /\ UNCHANGED <<group, home, targets, leaked>>
    BY DEF Realize, Inductive, ShapeOK, FreezeOK, JobOK, HasCommand, Keeps
  <1>2. d \in Domains
    BY <1>1, CommandsAssumption DEF IsCommand, Command
  <1>3. CASE End(t, "failed")
    BY <1>1, <1>3, Ending DEF Results
  <1>4. CASE targets[d] # Nothing /\ Become(t, j)
    <2>1. View(d) \in ViewType
      BY <1>1, <1>2, <1>4, ViewFits
    <2>2. j \in JobType
      <3>1. [job[t] EXCEPT !.at = "verify"] \in JobType
        BY <1>1, JobFields DEF Labels
      <3>2. [[job[t] EXCEPT !.at = "verify"] EXCEPT !.realized = View(d)] \in JobType
        BY <2>1, <3>1, JobFields
      <3> QED BY <3>2
    <2>3. /\ j.at = "verify" /\ j.target = job[t].target
          /\ j.command = job[t].command /\ j.wrote = job[t].wrote
      BY <1>1 DEF JobType
    <2>4. Become(t, j)
      BY <1>4
    <2> HIDE DEF j
    <2>5. JobOK(j)
      <3>1. HasTarget(j)
        BY <1>1, <2>3 DEF JobOK, HasTarget, Confirmed
      <3>2. HasCommand(j)
        BY <1>1, <2>3 DEF JobOK, HasCommand
      <3>3. Progress(j)
        BY <1>1, <2>3 DEF JobOK, Progress, ReadBack
      <3> QED BY <2>2, <3>1, <3>2, <3>3 DEF JobOK
    <2>6. Holding(group, t, j)
      BY <1>1, <2>3 DEF Holding, Confirmed, Wanted
    <2> QED BY <1>1, <2>3, <2>4, <2>5, <2>6, QuietJob DEF TypeOK
  <1> QED BY <1>3, <1>4 DEF Realize

\* The ways a command ends.
LEMMA EndStep ==
  ASSUME Inductive, NEW t \in Threads,
         WriteFails(t) \/ FreezeFails(t) \/ TimesOut(t) \/ Verify(t)
  PROVE  Inductive'
  <1>1. /\ job[t].at \in {"write", "freeze", "wait", "verify"}
        /\ UNCHANGED <<group, home, targets, leaked>>
    BY DEF WriteFails, FreezeFails, TimesOut, Verify
  <1>2. job[t].command \in Commands /\ ~Keeps(t)
    BY <1>1 DEF Inductive, ShapeOK, JobOK, HasCommand, Keeps
  <1>3. PICK r \in Results : End(t, r) /\ (r = "failed" \/ job[t].at = "verify")
    <2>1. CASE WriteFails(t) \/ FreezeFails(t) \/ TimesOut(t)
      BY <2>1 DEF WriteFails, FreezeFails, TimesOut, Results
    <2>2. CASE Verify(t)
      <3>1. (\E r \in Results : End(t, r)) /\ job[t].at = "verify"
        BY <2>2 DEF Verify, Results
      <3> QED BY <3>1
    <2> QED BY <2>1, <2>2
  <1> QED BY <1>1, <1>2, <1>3, Ending

\* A step of one thread that changes a group that stays there.
LEMMA TouchGroup ==
  ASSUME Inductive, NEW t \in Threads, NEW j, Become(t, j), JobOK(j), Holding(group', t, j),
         NEW g \in Groups, NEW new \in GroupType, group[g] # Nothing,
         group' = [group EXCEPT ![g] = new],
         \A u \in Threads \ {t} : new.freezer = u =>
           /\ group[g].freezer = u
           /\ new.freeze = group[g].freeze /\ new.frozen = group[g].frozen,
         UNCHANGED <<home, targets, leaked>>,
         j.at \notin {"attach", "record", "remove"}, ~Keeps(t)
  PROVE  Inductive'
  <1>1. ShapeOK /\ FreezeOK /\ PresentOK /\ SoleOK /\ KnownOK
    BY DEF Inductive
  <1>2. /\ group' \in [Groups -> GroupType \cup {Nothing}]
        /\ group'[g] = new /\ new # Nothing
        /\ \A h \in Groups \ {g} : group'[h] = group[h]
    BY <1>1, AbsentAssumption DEF ShapeOK, TypeOK
  <1>3. ShapeOK'
    BY <1>1, <1>2, ShapeKept DEF ShapeOK, TypeOK
  <1>4. \A u \in Threads \ {t}, h \in Groups :
          group'[h] # Nothing /\ group'[h].freezer = u =>
            /\ group[h] # Nothing /\ group[h].freezer = u
            /\ group'[h].freeze = group[h].freeze
            /\ group'[h].frozen = group[h].frozen
    BY <1>2
  <1>5. FreezeOK'
    BY <1>1, <1>4, FreezeKept
  <1>6. /\ job'[t] = j
        /\ \A u \in Threads \ {t} : job'[u] = job[u]
    BY <1>1, Becoming
  <1>7. \A u \in Threads :
          /\ Keeps(u)' <=> Keeps(u)
          /\ Keeps(u) => job'[u].target = job[u].target
    BY <1>6 DEF Keeps
  <1>8. PresentOK' /\ SoleOK' /\ KnownOK'
    BY <1>1, <1>2, <1>7, ClaimsKept
  <1> QED BY <1>3, <1>5, <1>8 DEF Inductive

\* The settings a write leaves are settings.
LEMMA WrittenFits ==
  ASSUME ShapeOK, NEW t \in Threads, job[t].at = "write", NEW file \in FileNames,
         Writable(t, file)
  PROVE  Written(t, file) \in SettingsType
  <1>1. JobOK(job[t]) /\ TypeOK
    BY DEF ShapeOK
  <1>2. Group(t) \in GroupType
    BY <1>1 DEF JobOK, HasTarget, TypeOK, TargetType, Group, Target, Writable
  <1>3. Group(t).settings \in SettingsType
    BY <1>2 DEF GroupType
  <1>4. \A f \in Fields : f \in Holds(file) => Value(t, f) \in Nat \cup {Initial}
    <2> SUFFICES ASSUME NEW f \in Fields, f \in Holds(file)
                 PROVE  Value(t, f) \in Nat \cup {Initial}
      OBVIOUS
    <2>1. CASE f \in Named(t)
      <3>1. Value(t, f) \in Values
        BY <1>1, <2>1, CommandsAssumption
           DEF JobOK, HasCommand, IsCommand, Value, Named, Command
      <3> QED BY <3>1 DEF Writable, Values
    <2>2. CASE f \notin Named(t)
      BY <1>1, <2>2 DEF JobOK, HasCommand, Value, SettingsType
    <2> QED BY <2>1, <2>2
  <1> QED BY <1>3, <1>4 DEF Written, SettingsType

\* A file that is written is done with.
LEMMA WriteStep ==
  ASSUME Inductive, NEW t \in Threads, WriteFile(t)
  PROVE  Inductive'
  <1> DEFINE f == Following(t)
             g == Target(t).group
             s == Written(t, f)
             new == [group[g] EXCEPT !.settings = s]
             j == [job[t] EXCEPT
                     !.at    = IF job[t].left = {f} THEN "realize" ELSE "write",
                     !.left  = @ \ {f},
                     !.wrote = @ \cup {f}]
  <1>1. /\ JobOK(job[t]) /\ job[t] \in JobType /\ job[t].at = "write"
        /\ job[t].left # {} /\ ~Keeps(t) /\ TypeOK
        /\ job[t].command \in Commands
        /\ UNCHANGED <<home, targets, leaked>>
    BY DEF WriteFile, Inductive, ShapeOK, JobOK, HasCommand, Keeps
  <1>2. f \in job[t].left /\ f \in FileNames /\ job[t].left \subseteq FileNames
        /\ job[t].wrote \subseteq FileNames
    <2>1. job[t].left \subseteq FileNames /\ job[t].wrote \subseteq FileNames
      BY <1>1 DEF JobType
    <2> QED BY <1>1, <2>1, FollowingIsLeft
  <1>3. Writable(t, f) /\ group[g] # Nothing /\ g \in Groups
    BY <1>1 DEF WriteFile, Writable, Group, Target, JobOK, HasTarget, TargetType
  <1>4. s \in SettingsType
    BY <1>1, <1>2, <1>3, WrittenFits DEF Inductive
  <1>5. group[g] \in GroupType
    BY <1>1, <1>3 DEF TypeOK
  <1>6. group' = [group EXCEPT ![g] = new] /\ Become(t, j)
    BY DEF WriteFile, Advance
  <1>7. /\ new \in GroupType /\ new.freezer = group[g].freezer
        /\ new.freeze = group[g].freeze /\ new.frozen = group[g].frozen
    <2> HIDE DEF s, g
    <2>1. new \in GroupType
      BY <1>4, <1>5, GroupFields
    <2> QED BY <1>5, <2>1 DEF GroupType
  <1>8. /\ j \in JobType /\ j.target = job[t].target /\ j.command = job[t].command
        /\ j.at = IF job[t].left = {f} THEN "realize" ELSE "write"
        /\ j.left = job[t].left \ {f} /\ j.wrote = job[t].wrote \cup {f}
        /\ j.before = job[t].before
    <2> DEFINE at == IF job[t].left = {f} THEN "realize" ELSE "write"
               left == job[t].left \ {f}
               wrote == job[t].wrote \cup {f}
               a == [job[t] EXCEPT !.at = at]
               b == [a EXCEPT !.left = left]
               c == [b EXCEPT !.wrote = wrote]
    <2>1. at \in Labels /\ left \in SUBSET FileNames /\ wrote \in SUBSET FileNames
      BY <1>2 DEF Labels
    <2>2. j = [job[t] EXCEPT !.at = at, !.left = left, !.wrote = wrote]
      BY <1>1 DEF JobType
    <2> HIDE DEF j, at, left, wrote
    <2>3. a \in JobType
      BY <1>1, <2>1, JobFields
    <2>4. b \in JobType
      BY <2>1, <2>3, JobFields
    <2>5. c \in JobType
      BY <2>1, <2>4, JobFields
    <2>6. j = c
      BY <2>2
    <2>7. /\ j.target = job[t].target /\ j.command = job[t].command /\ j.at = at
          /\ j.left = left /\ j.wrote = wrote /\ j.before = job[t].before
      BY <1>1, <2>2 DEF JobType
    <2> QED BY <2>5, <2>6, <2>7 DEF at, left, wrote
  <1> HIDE DEF j, new, s, f, g
  <1>9. JobOK(j)
    <2>1. HasTarget(j)
      BY <1>1, <1>8 DEF JobOK, HasTarget, Confirmed
    <2>2. HasCommand(j)
      BY <1>1, <1>2, <1>8 DEF JobOK, HasCommand
    <2>3. Progress(j)
      <3>1. /\ job[t].left \cup job[t].wrote = Plan(job[t].command)
        BY <1>1 DEF JobOK, Progress
      <3> QED BY <1>2, <1>8, <3>1 DEF Progress, ReadBack
    <2> QED BY <1>8, <2>1, <2>2, <2>3 DEF JobOK
  <1>10. Holding(group', t, j)
    <2>1. j.left \cup j.wrote # {} /\ j.left \cup j.wrote = Plan(j.command)
      BY <1>1, <1>2, <1>8 DEF JobOK, Progress
    <2>2. j.command.action = "set_resource_budget"
      BY <1>1, <1>8, <2>1, PlanFits
    <2> QED BY <2>2 DEF Holding
  <1>11. /\ j.at \notin {"attach", "record", "remove"}
         /\ \A u \in Threads \ {t} : new.freezer = u =>
              /\ group[g].freezer = u
              /\ new.freeze = group[g].freeze /\ new.frozen = group[g].frozen
    BY <1>7, <1>8
  <1> QED BY <1>1, <1>3, <1>6, <1>7, <1>9, <1>10, <1>11, TouchGroup

\* The one who writes the freezer is the one whose request stands.
LEMMA FreezeStep ==
  ASSUME Inductive, NEW t \in Threads, Freeze(t)
  PROVE  Inductive'
  <1> DEFINE g == Target(t).group
             want == Command(t).action = "pause"
             mid == [group[g] EXCEPT !.freeze = want]
             new == [mid EXCEPT !.freezer = t]
             j == [job[t] EXCEPT !.at = "wait"]
  <1>1. /\ JobOK(job[t]) /\ job[t] \in JobType /\ job[t].at = "freeze"
        /\ ~Keeps(t) /\ TypeOK /\ job[t].command \in Commands
        /\ UNCHANGED <<home, targets, leaked>> /\ Become(t, j)
    BY DEF Freeze, Goto, Inductive, ShapeOK, JobOK, HasCommand, Keeps
  <1>2. group[g] # Nothing /\ g \in Groups
    BY <1>1 DEF Freeze, Group, Target, JobOK, HasTarget, TargetType
  <1>3. group[g] \in GroupType
    BY <1>1, <1>2 DEF TypeOK
  <1>4. group' = [group EXCEPT ![g] = new]
    BY <1>1, <1>2, <1>3 DEF Freeze, TypeOK, GroupType
  <1>5. /\ new \in GroupType /\ new.freezer = t
        /\ new.freeze = want
    <2>1. want \in BOOLEAN
      OBVIOUS
    <2> HIDE DEF g, want
    <2>2. mid \in GroupType
      BY <1>3, <2>1, GroupFields
    <2>3. mid.freeze = want
      BY <1>3 DEF GroupType
    <2> HIDE DEF mid
    <2>4. new \in GroupType
      BY <2>2, GroupFields
    <2>5. new.freezer = t /\ new.freeze = mid.freeze
      BY <2>2 DEF GroupType
    <2> QED BY <2>3, <2>4, <2>5
  <1>6. /\ j \in JobType /\ j.at = "wait" /\ j.target = job[t].target
        /\ j.command = job[t].command /\ j.wrote = job[t].wrote
    <2>1. j \in JobType
      BY <1>1, JobFields DEF Labels
    <2> QED BY <1>1, <2>1 DEF JobType
  <1>7. Wanted(j) = want /\ j.target.group = g /\ group'[g] = new
    BY <1>1, <1>2, <1>4, <1>6 DEF Wanted, Command, Target, TypeOK
  <1> HIDE DEF j, new, want, g
  <1>8. JobOK(j)
    <2>1. HasTarget(j)
      BY <1>1, <1>6 DEF JobOK, HasTarget, Confirmed
    <2>2. HasCommand(j)
      BY <1>1, <1>6 DEF JobOK, HasCommand
    <2>3. Progress(j)
      BY <1>1, <1>6 DEF JobOK, Progress, ReadBack
    <2> QED BY <1>6, <2>1, <2>2, <2>3 DEF JobOK
  <1>9. Holding(group', t, j)
    BY <1>5, <1>6, <1>7 DEF Holding, Wanted
  <1> QED BY <1>1, <1>2, <1>4, <1>5, <1>6, <1>8, <1>9, TouchGroup

\* Steps of registration and unregistration that leave groups and records alone.
LEMMA PassingStep ==
  ASSUME Inductive, NEW t \in Threads, AttachProcess(t) \/ Unregister(t) \/ Closed(t)
  PROVE  Inductive'
  <1>1. JobOK(job[t]) /\ job[t] \in JobType /\ TypeOK
    BY DEF Inductive, ShapeOK, JobOK
  <1>2. CASE AttachProcess(t)
    <2> DEFINE j == [job[t] EXCEPT !.at = "record"]
    <2>1. /\ job[t].at = "attach" /\ Become(t, j) /\ UNCHANGED <<group, targets, leaked>>
          /\ home' = [home EXCEPT ![job[t].target.pid] = job[t].target.group]
      BY <1>2 DEF AttachProcess, Goto
    <2>2. job[t].target \in TargetType /\ Keeps(t)
      BY <1>1, <2>1 DEF JobOK, HasTarget, Keeps
    <2>3. home' \in [Pids -> Groups \cup {"outside", "gone"}]
      BY <1>1, <2>1, <2>2 DEF TypeOK, TargetType
    <2>4. /\ j \in JobType /\ j.at = "record" /\ j.target = job[t].target
          /\ j.domain = job[t].domain /\ j.command = job[t].command
          /\ j.wrote = job[t].wrote
      <3>1. j \in JobType
        BY <1>1, JobFields DEF Labels
      <3> QED BY <1>1, <3>1 DEF JobType
    <2> HIDE DEF j
    <2>5. JobOK(j)
      BY <1>1, <2>1, <2>4
         DEF JobOK, HasTarget, HasCommand, Progress, Confirmed, ReadBack
    <2>6. Holding(group, t, j)
      BY <2>4 DEF Holding, Confirmed
    <2> QED BY <2>1, <2>2, <2>3, <2>4, <2>5, <2>6, QuietJob
  <1>3. CASE Unregister(t)
    <2>1. PICK domains \in SUBSET Domains :
            Become(t, [NoJob EXCEPT !.at = "close", !.rest = domains])
      BY <1>3 DEF Unregister, Close
    <2> DEFINE j == [NoJob EXCEPT !.at = "close", !.rest = domains]
    <2>2. ~Keeps(t) /\ UNCHANGED <<group, home, targets, leaked>>
      BY <1>3 DEF Unregister, Close, Free, Keeps
    <2>3. j \in JobType /\ j.at = "close" /\ j.command = Nothing
      BY NewJobsFit DEF NoJob
    <2>4. Become(t, j)
      BY <2>1
    <2> HIDE DEF j
    <2>5. JobOK(j)
      BY <2>3, AbsentAssumption DEF JobOK, HasTarget, HasCommand, Progress, Confirmed
    <2>6. Holding(group, t, j)
      BY <2>3 DEF Holding, Confirmed
    <2> QED BY <1>1, <2>2, <2>3, <2>4, <2>5, <2>6, QuietJob DEF TypeOK
  <1>4. CASE Closed(t)
    <2>1. /\ ~Keeps(t) /\ UNCHANGED <<group, home, targets, leaked>>
          /\ Become(t, NoJob)
      BY <1>4 DEF Closed, Keeps
    <2>2. JobOK(NoJob) /\ NoJob.at = "idle" /\ Holding(group, t, NoJob)
      BY IdleFits
    <2> QED BY <1>1, <2>1, <2>2, QuietJob DEF TypeOK
  <1> QED BY <1>2, <1>3, <1>4

\* A new group has one claim, the thread that will record it.
LEMMA CreateStep ==
  ASSUME Inductive, NEW t \in Threads, NEW d \in Domains, NEW p \in Pids,
         CreateGroup(t, d, p)
  PROVE  Inductive'
  <1> DEFINE g == GroupName[d]
             mine == [pid |-> p, group |-> g]
             j == [NoJob EXCEPT !.at = "attach", !.domain = d, !.target = mine]
  <1>1. /\ targets[d] = Nothing /\ group[g] = Nothing /\ g \in Groups
        /\ group' = [group EXCEPT ![g] = NewGroup]
        /\ Become(t, j) /\ UNCHANGED <<home, targets, leaked>> /\ ~Keeps(t)
    BY DEF CreateGroup, Free, Keeps, Groups
  <1>2. /\ ShapeOK /\ FreezeOK /\ PresentOK /\ SoleOK /\ KnownOK /\ TypeOK
    BY DEF Inductive, ShapeOK
  <1>3. mine \in TargetType /\ mine.group = g
    BY <1>1 DEF TargetType
  <1> HIDE DEF mine
  <1>4. /\ j \in JobType /\ j.at = "attach" /\ j.domain = d /\ j.target = mine
        /\ j.command = Nothing
    BY <1>3, NewJobsFit DEF NoJob
  <1> HIDE DEF j
  <1>5. JobOK(j)
    BY <1>3, <1>4, AbsentAssumption
       DEF JobOK, HasTarget, HasCommand, Progress, Confirmed
  <1>6. /\ group' \in [Groups -> GroupType \cup {Nothing}]
        /\ group'[g] # Nothing /\ group'[g].freezer = Nothing
        /\ \A h \in Groups \ {g} : group'[h] = group[h]
    BY <1>1, <1>2, NewGroupFits, AbsentAssumption DEF TypeOK
  <1> HIDE DEF g
  <1>7. ShapeOK'
    BY <1>1, <1>2, <1>5, <1>6, ShapeKept DEF TypeOK
  <1>8. FreezeOK'
    <2>1. Holding(group', t, j)
      BY <1>4 DEF Holding, Confirmed
    <2>2. \A u \in Threads \ {t}, h \in Groups :
            group'[h] # Nothing /\ group'[h].freezer = u =>
              /\ group[h] # Nothing /\ group[h].freezer = u
              /\ group'[h].freeze = group[h].freeze
              /\ group'[h].frozen = group[h].frozen
      BY <1>6, AbsentAssumption
    <2> QED BY <1>1, <1>2, <2>1, <2>2, FreezeKept
  <1>9. job'[t] = j /\ \A u \in Threads \ {t} : job'[u] = job[u]
    BY <1>1, <1>2, Becoming
  <1>10. /\ \A e \in Domains : targets[e] # Nothing => targets[e].group \in Groups \ {g}
         /\ \A u \in Threads : Keeps(u) => Kept(u) \in Groups \ {g}
         /\ leaked \subseteq Groups \ {g}
    <2>1. /\ \A e \in Domains : targets[e] # Nothing => targets[e].group \in Groups
          /\ \A u \in Threads : Keeps(u) => Kept(u) \in Groups
          /\ leaked \subseteq Groups
      BY <1>2 DEF ShapeOK, TypeOK, TargetType, JobOK, HasTarget, Keeps, Kept
    <2> QED BY <1>1, <1>2, <2>1 DEF PresentOK
  <1>11. PresentOK'
    BY <1>1, <1>2, <1>3, <1>4, <1>6, <1>9, <1>10 DEF PresentOK, Keeps, Kept
  <1>12. SoleOK'
    BY <1>1, <1>2, <1>3, <1>4, <1>9, <1>10 DEF SoleOK, Keeps, Kept
  <1>13. KnownOK'
    BY <1>1, <1>2, <1>3, <1>4, <1>6, <1>9, <1>10 DEF KnownOK, Keeps, Kept
  <1> QED BY <1>7, <1>8, <1>11, <1>12, <1>13 DEF Inductive

\* A thread removes the group it alone has a claim on.
LEMMA RemoveStep ==
  ASSUME Inductive, NEW t \in Threads, AttachFails(t) \/ RemoveGroup(t)
  PROVE  Inductive'
  <1> DEFINE g == Kept(t)
  <1>1. /\ Keeps(t) /\ group' = [group EXCEPT ![g] = Nothing]
        /\ UNCHANGED <<home, targets, leaked>>
    BY DEF AttachFails, RemoveGroup, Keeps, Kept
  <1>2. /\ ShapeOK /\ FreezeOK /\ PresentOK /\ SoleOK /\ KnownOK /\ TypeOK
        /\ JobOK(job[t])
    BY DEF Inductive, ShapeOK
  <1>3. PICK j : /\ Become(t, j) /\ JobOK(j) /\ j.at \in {"idle", "close"}
    <2>1. CASE AttachFails(t)
      BY <2>1, IdleFits DEF AttachFails
    <2>2. CASE RemoveGroup(t)
      <3> DEFINE i == [job[t] EXCEPT !.at = "close", !.target = Nothing]
      <3>1. i \in JobType
        <4>1. [job[t] EXCEPT !.at = "close"] \in JobType
          BY <1>2, JobFields DEF JobOK, Labels
        <4>2. [[job[t] EXCEPT !.at = "close"] EXCEPT !.target = Nothing] \in JobType
          BY <4>1, JobFields
        <4> QED BY <4>2
      <3>2. /\ i.at = "close" /\ i.command = job[t].command /\ i.wrote = job[t].wrote
            /\ job[t].at = "remove"
        BY <1>2, <2>2 DEF JobOK, JobType, RemoveGroup
      <3>3. Become(t, i)
        BY <2>2 DEF RemoveGroup
      <3> HIDE DEF i
      <3>4. JobOK(i)
        BY <1>2, <3>1, <3>2
           DEF JobOK, HasTarget, HasCommand, Progress, Confirmed, ReadBack
      <3> QED BY <3>2, <3>3, <3>4
    <2> QED BY <2>1, <2>2
  <1>4. /\ g \in Groups
        /\ \A e \in Domains : targets[e] # Nothing => targets[e].group \in Groups
        /\ \A u \in Threads : Keeps(u) => Kept(u) \in Groups
        /\ leaked \subseteq Groups
    BY <1>1, <1>2 DEF ShapeOK, TypeOK, TargetType, JobOK, HasTarget, Keeps, Kept
  <1>5. /\ group' \in [Groups -> GroupType \cup {Nothing}]
        /\ group'[g] = Nothing
        /\ \A h \in Groups \ {g} : group'[h] = group[h]
    BY <1>1, <1>2, <1>4 DEF TypeOK
  <1>6. /\ \A e \in Domains : targets[e] # Nothing => targets[e].group # g
        /\ \A u \in Threads \ {t} : Keeps(u) => Kept(u) # g
        /\ g \notin leaked
    BY <1>1, <1>2 DEF SoleOK
  <1> HIDE DEF g
  <1>7. ShapeOK'
    BY <1>1, <1>2, <1>3, <1>5, ShapeKept DEF TypeOK
  <1>8. FreezeOK'
    <2>1. Holding(group', t, j)
      BY <1>3 DEF Holding, Confirmed
    <2> QED BY <1>2, <1>3, <1>5, <2>1, FreezeKept
  <1>9. job'[t] = j /\ \A u \in Threads \ {t} : job'[u] = job[u]
    BY <1>2, <1>3, Becoming
  <1>10. PresentOK'
    BY <1>1, <1>2, <1>3, <1>4, <1>5, <1>6, <1>9 DEF PresentOK, Keeps, Kept
  <1>11. SoleOK'
    BY <1>1, <1>2, <1>3, <1>9 DEF SoleOK, Keeps, Kept
  <1>12. KnownOK'
    BY <1>1, <1>2, <1>3, <1>5, <1>6, <1>9 DEF g, KnownOK, Keeps, Kept
  <1> QED BY <1>7, <1>8, <1>10, <1>11, <1>12 DEF Inductive

\* A record takes over its group from the thread: its domain had no record, because
\* that would be of the same group.
LEMMA RecordStep ==
  ASSUME Inductive, NEW t \in Threads, RecordTarget(t)
  PROVE  Inductive'
  <1> DEFINE d   == job[t].domain
             new == job[t].target
  <1>1. /\ job[t].at = "record" /\ Become(t, NoJob)
        /\ targets' = [targets EXCEPT ![d] = new]
        /\ UNCHANGED <<group, home, leaked>> /\ Keeps(t)
    BY DEF RecordTarget, Keeps
  <1>2. /\ ShapeOK /\ FreezeOK /\ PresentOK /\ SoleOK /\ KnownOK /\ TypeOK
        /\ JobOK(job[t])
    BY DEF Inductive, ShapeOK
  <1>3. /\ d \in Domains /\ new \in TargetType /\ new.group = GroupName[d]
        /\ new # Nothing /\ Kept(t) = new.group
    BY <1>1, <1>2, AbsentAssumption DEF JobOK, HasTarget, Kept
  <1>4. targets[d] = Nothing
    BY <1>1, <1>2, <1>3 DEF PresentOK, SoleOK
  <1>5. /\ targets' \in [Domains -> TargetType \cup {Nothing}]
        /\ targets'[d] = new
        /\ \A e \in Domains \ {d} : targets'[e] = targets[e]
    BY <1>1, <1>2, <1>3 DEF TypeOK
  <1> HIDE DEF d, new
  <1>6. ShapeOK'
    BY <1>1, <1>2, <1>5, IdleFits, ShapeKept DEF TypeOK
  <1>7. FreezeOK'
    <2>1. Holding(group', t, NoJob)
      BY IdleFits DEF Holding, Confirmed
    <2> QED BY <1>1, <1>2, <2>1, FreezeKept
  <1>8. job'[t] = NoJob /\ \A u \in Threads \ {t} : job'[u] = job[u]
    BY <1>1, <1>2, Becoming
  <1>9. NoJob.at = "idle"
    BY DEF NoJob
  <1>10. PresentOK'
    BY <1>1, <1>2, <1>3, <1>5, <1>8, <1>9 DEF PresentOK, Keeps, Kept
  <1>11. SoleOK'
    BY <1>1, <1>2, <1>3, <1>4, <1>5, <1>8, <1>9 DEF SoleOK, Keeps, Kept
  <1>12. KnownOK'
    BY <1>1, <1>2, <1>3, <1>4, <1>5, <1>8, <1>9 DEF KnownOK, Keeps, Kept
  <1> QED BY <1>6, <1>7, <1>10, <1>11, <1>12 DEF Inductive

\* A thread takes over the group of the record it forgets.
LEMMA ForgetStep ==
  ASSUME Inductive, NEW t \in Threads, ForgetTarget(t)
  PROVE  Inductive'
  <1>1. PICK d \in job[t].rest :
          /\ targets' = [targets EXCEPT ![d] = Nothing]
          /\ Become(t, [job[t] EXCEPT
               !.at = IF targets[d] = Nothing THEN "close" ELSE "remove",
               !.rest = @ \ {d}, !.target = targets[d]])
    BY DEF ForgetTarget
  <1> DEFINE at == IF targets[d] = Nothing THEN "close" ELSE "remove"
             rest == job[t].rest \ {d}
             old == targets[d]
             j == [job[t] EXCEPT !.at = at, !.rest = rest, !.target = old]
  <1>2. /\ ShapeOK /\ FreezeOK /\ PresentOK /\ SoleOK /\ KnownOK /\ TypeOK
        /\ JobOK(job[t]) /\ job[t] \in JobType
    BY DEF Inductive, ShapeOK, JobOK
  <1>3. d \in Domains /\ rest \subseteq Domains /\ old \in TargetType \cup {Nothing}
    BY <1>2 DEF JobType, TypeOK
  <1>4. /\ Become(t, j) /\ UNCHANGED <<group, home, leaked>> /\ ~Keeps(t)
        /\ job[t].at = "close"
    <2>1. j = [job[t] EXCEPT
                 !.at = IF targets[d] = Nothing THEN "close" ELSE "remove",
                 !.rest = @ \ {d}, !.target = targets[d]]
      BY <1>2 DEF JobType
    <2> QED BY <1>1, <2>1 DEF ForgetTarget, Keeps
  <1>5. /\ at \in {"close", "remove"}
        /\ at = "remove" <=> old # Nothing
    OBVIOUS
  <1> HIDE DEF at, rest, old
  <1>6. /\ j \in JobType /\ j.at = at /\ j.target = old
        /\ j.command = job[t].command /\ j.wrote = job[t].wrote
    <2> DEFINE a == [job[t] EXCEPT !.at = at]
               b == [a EXCEPT !.rest = rest]
    <2>1. a \in JobType
      BY <1>2, <1>5, JobFields DEF Labels
    <2>2. b \in JobType
      BY <1>3, <2>1, JobFields
    <2>3. [b EXCEPT !.target = old] \in JobType
      BY <1>3, <2>2, JobFields
    <2>4. j \in JobType
      BY <2>3
    <2> QED BY <1>2, <2>4 DEF JobType
  <1> HIDE DEF j
  <1>7. JobOK(j)
    <2>1. HasTarget(j)
      BY <1>3, <1>5, <1>6 DEF HasTarget, Confirmed
    <2>2. HasCommand(j)
      BY <1>5, <1>6 DEF HasCommand
    <2>3. Progress(j)
      BY <1>2, <1>5, <1>6 DEF JobOK, Progress, ReadBack
    <2> QED BY <1>6, <2>1, <2>2, <2>3 DEF JobOK
  <1>8. /\ targets' \in [Domains -> TargetType \cup {Nothing}]
        /\ targets'[d] = Nothing
        /\ \A e \in Domains \ {d} : targets'[e] = targets[e]
    BY <1>1, <1>2, <1>3 DEF TypeOK
  <1>9. ShapeOK'
    BY <1>2, <1>4, <1>7, <1>8, ShapeKept DEF TypeOK
  <1>10. FreezeOK'
    <2>1. Holding(group', t, j)
      BY <1>5, <1>6 DEF Holding, Confirmed
    <2> QED BY <1>2, <1>4, <2>1, FreezeKept
  <1>11. job'[t] = j /\ \A u \in Threads \ {t} : job'[u] = job[u]
    BY <1>2, <1>4, Becoming
  <1>12. PresentOK'
    BY <1>2, <1>3, <1>4, <1>5, <1>6, <1>8, <1>11 DEF old, PresentOK, Keeps, Kept
  <1>13. SoleOK'
    BY <1>2, <1>3, <1>4, <1>5, <1>6, <1>8, <1>11 DEF old, SoleOK, Keeps, Kept
  <1>14. KnownOK'
    BY <1>2, <1>3, <1>4, <1>5, <1>6, <1>8, <1>11 DEF old, KnownOK, Keeps, Kept
  <1> QED BY <1>9, <1>10, <1>12, <1>13, <1>14 DEF Inductive

\* The group that could not be removed is nobody's from then on.
LEMMA LeakStep ==
  ASSUME Inductive, NEW t \in Threads, RemoveFails(t)
  PROVE  Inductive'
  <1> DEFINE g == Kept(t)
  <1>1. /\ Keeps(t) /\ leaked' = leaked \cup {g} /\ Become(t, NoJob)
        /\ UNCHANGED <<group, home, targets>>
    BY DEF RemoveFails, Keeps, Kept
  <1>2. /\ ShapeOK /\ FreezeOK /\ PresentOK /\ SoleOK /\ KnownOK /\ TypeOK
        /\ JobOK(job[t])
    BY DEF Inductive, ShapeOK
  <1>3. g \in Groups /\ group[g] # Nothing
    BY <1>1, <1>2 DEF JobOK, HasTarget, TargetType, Keeps, Kept, PresentOK
  <1>4. ShapeOK'
    BY <1>1, <1>2, <1>3, IdleFits, ShapeKept DEF TypeOK
  <1>5. FreezeOK'
    <2>1. Holding(group', t, NoJob)
      BY IdleFits DEF Holding, Confirmed
    <2> QED BY <1>1, <1>2, <2>1, FreezeKept
  <1>6. /\ job'[t] = NoJob /\ \A u \in Threads \ {t} : job'[u] = job[u]
        /\ NoJob.at = "idle"
    BY <1>1, <1>2, Becoming DEF NoJob
  <1>7. PresentOK'
    BY <1>1, <1>2, <1>3, <1>6 DEF PresentOK, Keeps, Kept
  <1>8. SoleOK'
    BY <1>1, <1>2, <1>6 DEF SoleOK, Keeps, Kept
  <1>9. KnownOK'
    BY <1>1, <1>2, <1>6 DEF KnownOK, Keeps, Kept
  <1> QED BY <1>4, <1>5, <1>7, <1>8, <1>9 DEF Inductive

\* The kernel does what was last asked of it.
LEMMA SettleStep ==
  ASSUME Inductive, NEW g \in Groups, Settle(g)
  PROVE  Inductive'
  <1> DEFINE new == [group[g] EXCEPT !.frozen = group[g].freeze]
  <1>1. /\ group[g] # Nothing /\ group' = [group EXCEPT ![g] = new]
        /\ UNCHANGED <<home, targets, job, leaked>>
    BY DEF Settle
  <1>2. /\ ShapeOK /\ FreezeOK /\ PresentOK /\ SoleOK /\ KnownOK /\ TypeOK
        /\ \A u \in Threads : JobOK(job[u])
    BY DEF Inductive, ShapeOK
  <1>3. group[g] \in GroupType
    BY <1>1, <1>2 DEF TypeOK
  <1>4. group[g].freeze \in BOOLEAN
    BY <1>3 DEF GroupType
  <1>5. /\ new \in GroupType /\ new.freezer = group[g].freezer
        /\ new.freeze = group[g].freeze /\ new.frozen = group[g].freeze
    <2>1. new \in GroupType
      BY <1>3, <1>4, GroupFields
    <2> QED BY <1>3, <2>1 DEF GroupType
  <1> HIDE DEF new
  <1>6. /\ group' \in [Groups -> GroupType \cup {Nothing}]
        /\ group'[g] = new /\ new # Nothing
        /\ \A h \in Groups \ {g} : group'[h] = group[h]
    BY <1>1, <1>2, <1>5, AbsentAssumption DEF TypeOK
  <1>7. ShapeOK'
    <2>1. \A u \in Threads : JobOK(job[u])'
      BY <1>1, <1>2 DEF JobOK, HasTarget, HasCommand, Progress, ReadBack, Confirmed
    <2> QED BY <1>1, <1>2, <1>6, <2>1 DEF ShapeOK, TypeOK
  <1>8. FreezeOK'
    <2> SUFFICES ASSUME NEW u \in Threads PROVE Holding(group', u, job'[u])
      BY DEF FreezeOK
    <2>1. job'[u] = job[u] /\ Holding(group, u, job[u])
      BY <1>1, <1>2 DEF FreezeOK
    <2>2. job[u].at \in {"wait", "realize", "verify"} \/ Confirmed(job[u])
            => job[u].target.group \in Groups
      BY <1>2 DEF JobOK, HasTarget, TargetType
    <2> QED BY <1>1, <1>5, <1>6, <2>1, <2>2 DEF Holding
  <1>9. \A u \in Threads :
          /\ Keeps(u)' <=> Keeps(u)
          /\ Keeps(u) => job'[u].target = job[u].target
    BY <1>1 DEF Keeps
  <1>10. PresentOK' /\ SoleOK' /\ KnownOK'
    BY <1>1, <1>2, <1>6, <1>9, ClaimsKept
  <1> QED BY <1>7, <1>8, <1>10 DEF Inductive

\* Steps that change neither groups nor records nor jobs.
LEMMA StillStep ==
  ASSUME Inductive, UNCHANGED <<group, targets, job, leaked>>,
         home' \in [Pids -> Groups \cup {"outside", "gone"}]
  PROVE  Inductive'
  BY DEF Inductive, ShapeOK, TypeOK, JobOK, HasTarget, HasCommand, Progress, ReadBack,
         Confirmed, FreezeOK, Holding, Wanted, PresentOK, SoleOK, KnownOK, Keeps, Kept

-----------------------------------------------------------------------------
(* The theorems.                                                           *)

\* There are no groups and no claims at the start.
LEMMA InitInductive == Init => Inductive
  <1> SUFFICES ASSUME Init PROVE Inductive
    OBVIOUS
  <1>1. \A t \in Threads : job[t] = NoJob
    BY DEF Init
  <1>2. \A t \in Threads : JobOK(job[t]) /\ job[t].at = "idle"
    BY <1>1, IdleFits
  <1>3. TypeOK
    BY NewJobsFit DEF Init, TypeOK
  <1>4. FreezeOK
    BY <1>2 DEF FreezeOK, Holding, Confirmed
  <1> QED BY <1>2, <1>3, <1>4
      DEF Init, Inductive, ShapeOK, PresentOK, SoleOK, KnownOK, Keeps, Kept

\* Every step keeps the invariant, by the lemma for its kind.
LEMMA NextInductive == Inductive /\ [Next]_vars => Inductive'
  <1> SUFFICES ASSUME Inductive, [Next]_vars PROVE Inductive'
    OBVIOUS
  <1>1. CASE \E t \in Threads : Begin(t) \/ Step(t)
    <2>1. PICK t \in Threads : Begin(t) \/ Step(t)
      BY <1>1
    <2>2. CASE Call(t)
      BY <2>2, CallStep
    <2>3. CASE \E d \in Domains, p \in Pids : CreateGroup(t, d, p)
      BY <2>3, CreateStep
    <2>4. CASE AttachProcess(t) \/ Unregister(t) \/ Closed(t)
      BY <2>4, PassingStep
    <2>5. CASE AttachFails(t) \/ RemoveGroup(t)
      BY <2>5, RemoveStep
    <2>6. CASE RecordTarget(t)
      BY <2>6, RecordStep
    <2>7. CASE ForgetTarget(t)
      BY <2>7, ForgetStep
    <2>8. CASE RemoveFails(t)
      BY <2>8, LeakStep
    <2>9. CASE FindTarget(t)
      BY <2>9, FindStep
    <2>10. CASE WriteFile(t)
      BY <2>10, WriteStep
    <2>11. CASE WriteFails(t) \/ FreezeFails(t) \/ TimesOut(t) \/ Verify(t)
      BY <2>11, EndStep
    <2>12. CASE Freeze(t)
      BY <2>12, FreezeStep
    <2>13. CASE Reached(t)
      BY <2>13, WaitStep
    <2>14. CASE Realize(t)
      BY <2>14, ReadStep
    <2> QED BY <2>1, <2>2, <2>3, <2>4, <2>5, <2>6, <2>7, <2>8, <2>9, <2>10, <2>11,
               <2>12, <2>13, <2>14 DEF Begin, Step
  <1>2. CASE \E g \in Groups : Settle(g)
    BY <1>2, SettleStep
  <1>3. CASE \E p \in Pids : Exit(p)
    <2>1. /\ UNCHANGED <<group, targets, job, leaked>>
          /\ home' \in [Pids -> Groups \cup {"outside", "gone"}]
      BY <1>3 DEF Exit, Inductive, ShapeOK, TypeOK
    <2> QED BY <2>1, StillStep
  <1>4. CASE UNCHANGED vars
    <2>1. /\ UNCHANGED <<group, targets, job, leaked>>
          /\ home' \in [Pids -> Groups \cup {"outside", "gone"}]
      BY <1>4 DEF vars, Inductive, ShapeOK, TypeOK
    <2> QED BY <2>1, StillStep
  <1> QED BY <1>1, <1>2, <1>3, <1>4 DEF Next

\* Every variable holds what the code and the kernel can put there, and no setting
\* is one that the kernel refuses, for any threads, domains, names and processes.
THEOREM TypeCorrect == Spec => []TypeOK
  <1>1. Inductive => TypeOK
    BY DEF Inductive, ShapeOK
  <1> QED BY <1>1, InitInductive, NextInductive, PTL DEF Spec

\* The size of a set that has at most one element.
LEMMA AtMostOne ==
  ASSUME NEW S, \A x, y \in S : x = y
  PROVE  Cardinality(S) = IF S = {} THEN 0 ELSE 1
  <1>1. CASE S = {}
    BY <1>1, FS_EmptySet
  <1>2. CASE S # {}
    <2>1. PICK x \in S : S = {x}
      BY <1>2
    <2> QED BY <1>2, <2>1, FS_Singleton
  <1> QED BY <1>1, <1>2

\* What the parts of the invariant say of one group.
LEMMA InductiveAccounts == Inductive => GroupsAccounted
  <1> SUFFICES ASSUME Inductive, NEW g \in Groups
               PROVE  Claims(g) = IF group[g] = Nothing THEN 0 ELSE 1
    BY DEF GroupsAccounted
  <1> DEFINE R == Records(g)
             H == Holders(g)
             L == IF g \in leaked THEN 1 ELSE 0
  <1>1. H = {t \in Threads : Keeps(t) /\ Kept(t) = g}
    BY DEF Holders, Keeps, Kept
  <1>2. \A d, e \in R : d = e
    BY DEF Records, Inductive, SoleOK
  <1>3. \A t, u \in H : t = u
    BY <1>1 DEF Inductive, SoleOK
  <1>4. Cardinality(R) = IF R = {} THEN 0 ELSE 1
    BY <1>2, AtMostOne
  <1>5. Cardinality(H) = IF H = {} THEN 0 ELSE 1
    BY <1>3, AtMostOne
  <1>6. Claims(g) = Cardinality(R) + Cardinality(H) + L
    BY DEF Claims
  <1>7. /\ H # {} => R = {} /\ g \notin leaked
        /\ R # {} => g \notin leaked
    BY <1>1 DEF Records, Inductive, SoleOK
  <1>8. group[g] # Nothing <=> R # {} \/ H # {} \/ g \in leaked
    BY <1>1 DEF Records, Inductive, PresentOK, KnownOK
  <1> HIDE DEF R, H
  <1> QED BY <1>4, <1>5, <1>6, <1>7, <1>8

\* Every group that is there has exactly one claim on it and no claim is on a group
\* that is not, for any number of threads, domains and names that collide.
THEOREM GroupsHaveOneClaim == Spec => []GroupsAccounted
  BY InitInductive, NextInductive, InductiveAccounts, PTL DEF Spec

\* A budget that came as far as its read-back has written every file it names, and
\* one that is not well formed none, whatever the budgets are.
THEOREM BudgetsAreWhole == Spec => []BudgetIsWhole
  <1>1. Inductive => BudgetIsWhole
    <2> SUFFICES ASSUME Inductive, NEW t \in Threads, Ended(t, "set_resource_budget")
                 PROVE  LET named == {f \in FileNames : Holds(f) \cap Named(t) # {}}
                        IN  /\ job[t].result \in {"confirmed", "mismatch", "raised"}
                                 => job[t].wrote = named
                            /\ ~WellFormed(Command(t).args) => job[t].wrote = {}
      BY DEF BudgetIsWhole
    <2>1. job[t].at = "done" /\ Command(t).action = "set_resource_budget"
      BY DEF Ended
    <2>2. JobOK(job[t]) /\ Command(t) \in Commands
      BY <2>1 DEF Inductive, ShapeOK, JobOK, HasCommand, Command
    <2>3. /\ job[t].wrote \subseteq Plan(Command(t))
          /\ job[t].result \in {"confirmed", "mismatch", "raised"} =>
               job[t].wrote = Plan(Command(t)) /\ Plan(Command(t)) # {}
      BY <2>1, <2>2 DEF JobOK, Progress, ReadBack, Command
    <2>4. ~WellFormed(Command(t).args) => Plan(Command(t)) = {}
      BY DEF Plan
    <2>5. WellFormed(Command(t).args) =>
            Plan(Command(t)) = {f \in FileNames : Holds(f) \cap Named(t) # {}}
      BY <2>1 DEF Plan, Named
    <2> QED BY <2>3, <2>4, <2>5
  <1> QED BY <1>1, InitInductive, NextInductive, PTL DEF Spec

\* A pause or resume that was confirmed holds until somebody asks for the other,
\* whatever the others do to the group and its domain.
THEOREM FreezesHold == Spec => []ConfirmedFreezeHolds
  <1>1. Inductive => ConfirmedFreezeHolds
    <2> SUFFICES ASSUME Inductive, NEW t \in Threads, NEW action \in {"pause", "resume"},
                        Ended(t, action), job[t].result = "confirmed",
                        Group(t) # Nothing, Group(t).freezer = t
                 PROVE  Group(t).frozen = (action = "pause")
      BY DEF ConfirmedFreezeHolds
    <2>1. /\ Confirmed(job[t]) /\ job[t].at = "done" /\ job[t].command.action = action
          /\ group[job[t].target.group] = Group(t)
      BY DEF Ended, Confirmed, Group, Target, Command
    <2>2. Holding(group, t, job[t])
      BY DEF Inductive, FreezeOK
    <2>3. Group(t).frozen = Wanted(job[t])
      BY <2>1, <2>2 DEF Holding
    <2> QED BY <2>1, <2>3 DEF Wanted
  <1> QED BY <1>1, InitInductive, NextInductive, PTL DEF Spec

-----------------------------------------------------------------------------
(* The provider implements Custody.                                        *)

\* A group is there while somebody keeps it, and whoever does is all that keeps it.
Custodians ==
  \A g \in Groups :
    /\ group[g] = Nothing <=> Keepers(g) = {}
    /\ \A d \in Records(g) : Keepers(g) = {<<"record", d>>}
    /\ \A t \in Holders(g) : Keepers(g) = {<<"thread", t>>}
    /\ g \in leaked => Keepers(g) = {<<"nobody", g>>}

\* The provider's invariant leaves a group one keeper at most, and no group without.
LEMMA InductiveKeeps == Inductive => Custodians
  <1> SUFFICES ASSUME Inductive, NEW g \in Groups
               PROVE  /\ group[g] = Nothing <=> Keepers(g) = {}
                      /\ \A d \in Records(g) : Keepers(g) = {<<"record", d>>}
                      /\ \A t \in Holders(g) : Keepers(g) = {<<"thread", t>>}
                      /\ g \in leaked => Keepers(g) = {<<"nobody", g>>}
    BY DEF Custodians
  <1>1. /\ \A d, e \in Records(g) : d = e
        /\ \A t, u \in Holders(g) : t = u
    BY DEF Records, Holders, Inductive, SoleOK, Keeps, Kept
  <1>2. /\ Holders(g) # {} => Records(g) = {} /\ g \notin leaked
        /\ Records(g) # {} => g \notin leaked
    BY DEF Records, Holders, Inductive, SoleOK, Keeps, Kept
  <1>3. group[g] # Nothing <=> Records(g) # {} \/ Holders(g) # {} \/ g \in leaked
    BY DEF Records, Holders, Inductive, PresentOK, KnownOK, Keeps, Kept
  <1>4. ASSUME NEW d \in Records(g)
        PROVE  Keepers(g) = {<<"record", d>>}
    <2>1. Records(g) = {d} /\ Holders(g) = {} /\ leaked \cap {g} = {}
      BY <1>1, <1>2
    <2> QED BY <2>1 DEF Keepers
  <1>5. ASSUME NEW t \in Holders(g)
        PROVE  Keepers(g) = {<<"thread", t>>}
    <2>1. Records(g) = {} /\ Holders(g) = {t} /\ leaked \cap {g} = {}
      BY <1>1, <1>2
    <2> QED BY <2>1 DEF Keepers
  <1>6. ASSUME g \in leaked
        PROVE  Keepers(g) = {<<"nobody", g>>}
    <2>1. Records(g) = {} /\ Holders(g) = {} /\ leaked \cap {g} = {g}
      BY <1>2, <1>6
    <2> QED BY <2>1 DEF Keepers
  <1>7. Keepers(g) = {} <=> Records(g) = {} /\ Holders(g) = {} /\ g \notin leaked
    BY DEF Keepers
  <1> QED BY <1>3, <1>4, <1>5, <1>6, <1>7

\* Nobody keeps a group without a part in it.
LEMMA EmptyHands ==
  ASSUME NEW t \in Threads, ~Keeps(t)
  PROVE  \A g \in Groups : <<"thread", t>> \notin Keepers(g)
  BY DEF Keepers, Holders, Keeps

\* A domain without a record keeps no group.
LEMMA NoRecord ==
  ASSUME NEW d \in Domains, targets[d] = Nothing
  PROVE  \A g \in Groups : <<"record", d>> \notin Keepers(g)
  BY DEF Keepers, Records

\* A group stays with its keeper if records, holders and what is lost stay.
LEMMA Unmoved ==
  ASSUME NEW g \in Groups,
         \A d \in Domains : d \in Records(g)' <=> d \in Records(g),
         \A t \in Threads : t \in Holders(g)' <=> t \in Holders(g),
         g \in leaked' <=> g \in leaked
  PROVE  Keepers(g)' = Keepers(g)
  <1>1. Records(g)' = Records(g) /\ Holders(g)' = Holders(g)
    BY DEF Records, Holders
  <1>2. leaked' \cap {g} = leaked \cap {g}
    OBVIOUS
  <1> QED BY <1>1, <1>2 DEF Keepers

\* One group passes from hand to hand.
LEMMA Passing ==
  ASSUME NEW g \in Groups, NEW keepers, Keepers(g)' = keepers,
         \A h \in Groups \ {g} : Keepers(h)' = Keepers(h)
  PROVE  [h \in Groups |-> Keepers(h)]' = [[h \in Groups |-> Keepers(h)] EXCEPT ![g] = keepers]
  OBVIOUS

\* Whoever has it next is not who had it.
LEMMA Moving ==
  ASSUME NEW g \in Groups, Keepers(g)' # Keepers(g)
  PROVE  Ledger!Moves(g)
  BY DEF Ledger!Moves

\* Other groups stay where they are when one thread passes its group on or gets one.
LEMMA OthersUnmoved ==
  ASSUME NEW t \in Threads, NEW g \in Groups, UNCHANGED targets,
         \A u \in Threads \ {t} : job'[u] = job[u],
         Keeps(t) => Kept(t) = g, Keeps(t)' => Kept(t)' = g,
         \A h \in Groups \ {g} : h \in leaked' <=> h \in leaked
  PROVE  \A h \in Groups \ {g} : Keepers(h)' = Keepers(h)
  <1> TAKE h \in Groups \ {g}
  <1>1. \A d \in Domains : d \in Records(h)' <=> d \in Records(h)
    BY DEF Records
  <1>2. t \notin Holders(h) /\ t \notin Holders(h)'
    BY DEF Holders, Keeps, Kept
  <1>3. \A u \in Threads : u \in Holders(h)' <=> u \in Holders(h)
    BY <1>2 DEF Holders
  <1> QED BY <1>1, <1>3, Unmoved

\* A step that leaves records and holders alone is no business of the ledger.
LEMMA QuietLedger ==
  ASSUME Custodians, Custodians', UNCHANGED <<targets, leaked>>,
         \A u \in Threads :
           /\ Keeps(u)' <=> Keeps(u)
           /\ Keeps(u) => job'[u].target = job[u].target
  PROVE  UNCHANGED Ledger!vars
  <1>1. \A g \in Groups : Keepers(g)' = Keepers(g)
    <2> TAKE g \in Groups
    <2>1. \A d \in Domains : d \in Records(g)' <=> d \in Records(g)
      BY DEF Records
    <2>2. \A t \in Threads : t \in Holders(g)' <=> t \in Holders(g)
      BY DEF Holders, Keeps
    <2> QED BY <2>1, <2>2, Unmoved
  <1>2. \A g \in Groups : group'[g] = Nothing <=> group[g] = Nothing
    BY <1>1 DEF Custodians
  <1> QED BY <1>1, <1>2 DEF Ledger!vars

\* Commands, attaching and the bounds of a call pass no group on.
LEMMA CommandsKeepLedger ==
  ASSUME Inductive, Custodians, Custodians', NEW t \in Threads,
         \/ Call(t) \/ FindTarget(t) \/ WriteFile(t) \/ WriteFails(t) \/ Freeze(t)
         \/ FreezeFails(t) \/ Reached(t) \/ TimesOut(t) \/ Realize(t) \/ Verify(t)
         \/ AttachProcess(t) \/ Unregister(t) \/ Closed(t)
  PROVE  UNCHANGED Ledger!vars
  <1>1. ShapeOK /\ job[t] \in JobType
    BY DEF Inductive, ShapeOK, JobOK
  <1>2. UNCHANGED <<targets, leaked>>
    BY DEF Call, FindTarget, WriteFile, WriteFails, Freeze, FreezeFails, Reached, TimesOut,
           Realize, Verify, AttachProcess, Unregister, Close, Closed
  <1>3. PICK j : /\ Become(t, j)
                 /\ j.at \in {"attach", "record", "remove"} <=> Keeps(t)
                 /\ Keeps(t) => j.target = job[t].target
    <2>1. CASE Call(t) \/ Unregister(t) \/ Closed(t)
      BY <2>1 DEF Call, Unregister, Close, Closed, Free, NoJob, Keeps
    <2>2. CASE AttachProcess(t)
      BY <1>1, <2>2 DEF AttachProcess, Goto, JobType, Keeps
    <2>3. CASE WriteFile(t)
      BY <1>1, <2>3 DEF WriteFile, Advance, JobType, Keeps
    <2>4. CASE Freeze(t) \/ Reached(t)
      BY <1>1, <2>4 DEF Freeze, Reached, Goto, JobType, Keeps
    <2>5. CASE (\E r : End(t, r)) /\ ~Keeps(t)
      BY <1>1, <2>5 DEF End, JobType
    <2>6. CASE FindTarget(t)
      <3>1. Command(t) \in Commands
        BY <2>6 DEF FindTarget, Inductive, ShapeOK, JobOK, HasCommand, Command
      <3>2. FirstLabel(Command(t)) \in {"freeze", "realize", "write"}
        BY <3>1, CommandsAssumption DEF FirstLabel, IsCommand
      <3>3. ~Keeps(t)
        BY <2>6 DEF FindTarget, Keeps
      <3>4. CASE \E r : End(t, r)
        BY <2>5, <3>3, <3>4
      <3>5. CASE Become(t, [job[t] EXCEPT
                   !.at = FirstLabel(Command(t)), !.target = targets[Command(t).domain],
                   !.before = View(Command(t).domain), !.left = Plan(Command(t))])
        BY <1>1, <3>2, <3>3, <3>5 DEF JobType
      <3> QED BY <2>6, <3>4, <3>5 DEF FindTarget
    <2>7. CASE Realize(t)
      BY <1>1, <2>5, <2>7 DEF Realize, JobType, Keeps
    <2>8. CASE WriteFails(t) \/ FreezeFails(t) \/ TimesOut(t) \/ Verify(t)
      BY <2>5, <2>8 DEF WriteFails, FreezeFails, TimesOut, Verify, Keeps
    <2> QED BY <2>1, <2>2, <2>3, <2>4, <2>6, <2>7, <2>8
  <1>4. \A u \in Threads :
          /\ Keeps(u)' <=> Keeps(u)
          /\ Keeps(u) => job'[u].target = job[u].target
    BY <1>1, <1>3, Becoming DEF Keeps
  <1> QED BY <1>2, <1>4, QuietLedger

\* The group that is created is in its maker's hand alone.
LEMMA CreateMakes ==
  ASSUME Inductive, Custodians, Custodians', NEW t \in Threads, NEW d \in Domains,
         NEW p \in Pids, CreateGroup(t, d, p)
  PROVE  \E g \in Groups : Ledger!Moves(g) /\ Ledger!Make(t, g)
  <1> DEFINE g == GroupName[d]
             j == [NoJob EXCEPT !.at = "attach", !.domain = d,
                                !.target = [pid |-> p, group |-> g]]
  <1>1. /\ group[g] = Nothing /\ g \in Groups /\ UNCHANGED <<targets, leaked>>
        /\ ~Keeps(t) /\ Become(t, j)
    BY DEF CreateGroup, Free, Keeps, Groups
  <1>2. j.at = "attach" /\ j.target.group = g
    BY DEF NoJob
  <1> HIDE DEF g, j
  <1>3. /\ job'[t] = j
        /\ \A u \in Threads \ {t} : job'[u] = job[u]
    BY <1>1, Becoming DEF Inductive
  <1>4. Keepers(g)' = {<<"thread", t>>}
    <2>1. t \in Holders(g)'
      BY <1>2, <1>3 DEF Holders, g
    <2> QED BY <1>1, <2>1 DEF Custodians
  <1>5. \A h \in Groups \ {g} : Keepers(h)' = Keepers(h)
    BY <1>1, <1>2, <1>3, OthersUnmoved DEF Kept
  <1>6. [h \in Groups |-> Keepers(h)]'
          = [[h \in Groups |-> Keepers(h)] EXCEPT ![g] = {<<"thread", t>>}]
    BY <1>1, <1>4, <1>5, Passing
  <1>7. {h \in Groups : group'[h] # Nothing} = {h \in Groups : group[h] # Nothing} \cup {g}
    <2>1. \A h \in Groups : group'[h] # Nothing <=> h = g \/ group[h] # Nothing
      BY <1>4, <1>5 DEF Custodians
    <2> QED BY <1>1, <2>1
  <1>8. \A h \in Groups : <<"thread", t>> \notin Keepers(h)
    BY <1>1, EmptyHands
  <1>9. Ledger!Moves(g)
    <2>1. Keepers(g) = {}
      BY <1>1 DEF Custodians
    <2> QED BY <1>1, <1>4, <2>1, Moving
  <1> QED BY <1>1, <1>6, <1>7, <1>8, <1>9 DEF Ledger!Make, Ledger!EmptyHanded, Ledger!Hand

\* Only the thread that has a group in hand removes it.
LEMMA RemovingDisposes ==
  ASSUME Inductive, Inductive', Custodians, Custodians', NEW t \in Threads,
         AttachFails(t) \/ RemoveGroup(t)
  PROVE  \E g \in Groups : Ledger!Moves(g) /\ Ledger!Dispose(t, g)
  <1>1. /\ Keeps(t) /\ group' = [group EXCEPT ![Kept(t)] = Nothing]
        /\ UNCHANGED <<targets, leaked>> /\ JobOK(job[t]) /\ TypeOK
    BY DEF AttachFails, RemoveGroup, Keeps, Kept, Inductive, ShapeOK
  <1>2. PICK g \in Groups : g = Kept(t)
    BY <1>1 DEF JobOK, HasTarget, TargetType, Keeps, Kept
  <1>3. /\ ~Keeps(t)'
        /\ \A u \in Threads \ {t} : job'[u] = job[u]
    <2>1. PICK j : Become(t, j) /\ j.at \in {"idle", "close"}
      <3>1. CASE AttachFails(t)
        BY <3>1 DEF AttachFails, NoJob
      <3>2. CASE RemoveGroup(t)
        <4> DEFINE j == [job[t] EXCEPT !.at = "close", !.target = Nothing]
        <4>1. Become(t, j) /\ j.at = "close"
          BY <1>1, <3>2 DEF RemoveGroup, JobOK, JobType
        <4> HIDE DEF j
        <4> QED BY <4>1
      <3> QED BY <3>1, <3>2
    <2> QED BY <2>1, Becoming DEF Keeps, Inductive
  <1>4. Keepers(g) = {<<"thread", t>>}
    <2>1. t \in Holders(g)
      BY <1>1, <1>2 DEF Holders, Keeps, Kept
    <2> QED BY <1>2, <2>1 DEF Custodians
  <1>5. Keepers(g)' = {}
    <2>1. group'[g] = Nothing
      BY <1>1, <1>2 DEF TypeOK
    <2> QED BY <2>1 DEF Custodians
  <1>6. \A h \in Groups \ {g} : Keepers(h)' = Keepers(h)
    BY <1>1, <1>2, <1>3, OthersUnmoved
  <1>7. [h \in Groups |-> Keepers(h)]' = [[h \in Groups |-> Keepers(h)] EXCEPT ![g] = {}]
    BY <1>2, <1>5, <1>6, Passing
  <1>8. {h \in Groups : group'[h] # Nothing} = {h \in Groups : group[h] # Nothing} \ {g}
    BY <1>5, <1>6 DEF Custodians
  <1>9. Ledger!Moves(g)
    BY <1>4, <1>5, Moving
  <1> QED BY <1>2, <1>4, <1>7, <1>8, <1>9 DEF Ledger!Dispose, Ledger!Hand

\* A group that could not be removed is kept by nobody.
LEMMA FailingAbandons ==
  ASSUME Inductive, Custodians, Custodians', NEW t \in Threads, RemoveFails(t)
  PROVE  \E g \in Groups : Ledger!Moves(g) /\ Ledger!Abandon(t, g)
  <1>1. /\ Keeps(t) /\ leaked' = leaked \cup {Kept(t)} /\ Become(t, NoJob)
        /\ UNCHANGED targets /\ JobOK(job[t])
    BY DEF RemoveFails, Keeps, Kept, Inductive, ShapeOK
  <1>2. PICK g \in Groups : g = Kept(t)
    BY <1>1 DEF JobOK, HasTarget, TargetType, Keeps, Kept
  <1>3. /\ ~Keeps(t)'
        /\ \A u \in Threads \ {t} : job'[u] = job[u]
    BY <1>1, Becoming DEF Keeps, Inductive, NoJob
  <1>4. Keepers(g) = {<<"thread", t>>} /\ Keepers(g)' = {<<"nobody", g>>}
    <2>1. t \in Holders(g) /\ g \in leaked'
      BY <1>1, <1>2 DEF Holders, Keeps, Kept
    <2> QED BY <2>1 DEF Custodians
  <1>5. \A h \in Groups \ {g} : Keepers(h)' = Keepers(h)
    BY <1>1, <1>2, <1>3, OthersUnmoved
  <1>6. [h \in Groups |-> Keepers(h)]'
          = [[h \in Groups |-> Keepers(h)] EXCEPT ![g] = {<<"nobody", g>>}]
    BY <1>4, <1>5, Passing
  <1>7. {h \in Groups : group'[h] # Nothing} = {h \in Groups : group[h] # Nothing}
    BY <1>4, <1>5 DEF Custodians
  <1>8. Ledger!Moves(g)
    <2>1. <<"thread", t>> # <<"nobody", g>>
      OBVIOUS
    <2> QED BY <1>4, <2>1, Moving
  <1> QED BY <1>4, <1>6, <1>7, <1>8 DEF Ledger!Abandon, Ledger!Pass, Ledger!Hand, Ledger!Nobody

\* A record of the domain would be of the group the thread has in hand.
LEMMA RecordingEnters ==
  ASSUME Inductive, Custodians, Custodians', NEW t \in Threads, RecordTarget(t)
  PROVE  \E d \in Domains, g \in Groups : Ledger!Moves(g) /\ Ledger!Enter(t, d, g)
  <1>1. /\ Keeps(t) /\ JobOK(job[t]) /\ job[t].at = "record" /\ TypeOK
        /\ PresentOK /\ SoleOK
    BY DEF RecordTarget, Keeps, Inductive, ShapeOK
  <1>2. PICK d \in Domains, g \in Groups, new \in TargetType :
          /\ job[t].domain = d /\ job[t].target = new /\ new.group = g /\ g = GroupName[d]
    BY <1>1 DEF JobOK, HasTarget, TargetType
  <1>3. /\ targets' = [targets EXCEPT ![d] = new] /\ Become(t, NoJob) /\ UNCHANGED leaked
        /\ new # Nothing
    BY <1>2, AbsentAssumption DEF RecordTarget
  <1>4. targets[d] = Nothing
    BY <1>1, <1>2 DEF PresentOK, SoleOK, Kept
  <1>5. /\ targets'[d] = new
        /\ \A e \in Domains \ {d} : targets'[e] = targets[e]
    BY <1>1, <1>3 DEF TypeOK
  <1>6. /\ ~Keeps(t)'
        /\ \A u \in Threads \ {t} : job'[u] = job[u]
    BY <1>3, Becoming DEF Keeps, Inductive, NoJob
  <1>7. Keepers(g) = {<<"thread", t>>} /\ Keepers(g)' = {<<"record", d>>}
    <2>1. t \in Holders(g) /\ d \in Records(g)'
      BY <1>1, <1>2, <1>3, <1>5 DEF Holders, Records
    <2> QED BY <2>1 DEF Custodians
  <1>8. ASSUME NEW h \in Groups \ {g}
        PROVE  Keepers(h)' = Keepers(h)
    <2>1. \A e \in Domains : e \in Records(h)' <=> e \in Records(h)
      BY <1>2, <1>4, <1>5 DEF Records
    <2>2. t \notin Holders(h) /\ t \notin Holders(h)'
      BY <1>2, <1>6 DEF Holders, Keeps
    <2>3. \A u \in Threads : u \in Holders(h)' <=> u \in Holders(h)
      BY <1>6, <2>2 DEF Holders
    <2> QED BY <1>3, <2>1, <2>3, Unmoved
  <1>9. [h \in Groups |-> Keepers(h)]'
          = [[h \in Groups |-> Keepers(h)] EXCEPT ![g] = {<<"record", d>>}]
    BY <1>7, <1>8, Passing
  <1>10. {h \in Groups : group'[h] # Nothing} = {h \in Groups : group[h] # Nothing}
    BY <1>7, <1>8 DEF Custodians
  <1>11. \A h \in Groups : <<"record", d>> \notin Keepers(h)
    BY <1>4, NoRecord
  <1>12. Ledger!Enter(t, d, g)
    BY <1>7, <1>9, <1>10, <1>11 DEF Ledger!Enter, Ledger!Pass, Ledger!Hand, Ledger!Record
  <1>13. Ledger!Moves(g)
    <2>1. <<"thread", t>> # <<"record", d>>
      OBVIOUS
    <2> QED BY <1>7, <2>1, Moving
  <1> QED BY <1>12, <1>13

\* Taking a domain's record away passes its group to the thread that will remove it.
LEMMA ForgettingTakes ==
  ASSUME Inductive, Custodians, Custodians', NEW t \in Threads, ForgetTarget(t)
  PROVE  \/ UNCHANGED Ledger!vars
         \/ \E d \in Domains, g \in Groups : Ledger!Moves(g) /\ Ledger!Take(t, d, g)
  <1>1. /\ ~Keeps(t) /\ UNCHANGED leaked /\ job[t] \in JobType
        /\ TypeOK /\ PresentOK
    BY DEF ForgetTarget, Keeps, Inductive, ShapeOK, JobOK
  <1>2. PICK d \in Domains :
          /\ targets' = [targets EXCEPT ![d] = Nothing]
          /\ Become(t, [job[t] EXCEPT
               !.at = IF targets[d] = Nothing THEN "close" ELSE "remove",
               !.rest = @ \ {d}, !.target = targets[d]])
    BY <1>1 DEF ForgetTarget, JobType
  <1>3. /\ job'[t].at = IF targets[d] = Nothing THEN "close" ELSE "remove"
        /\ job'[t].target = targets[d]
        /\ \A u \in Threads \ {t} : job'[u] = job[u]
    <2> DEFINE j == [job[t] EXCEPT
                       !.at = IF targets[d] = Nothing THEN "close" ELSE "remove",
                       !.rest = @ \ {d}, !.target = targets[d]]
    <2>1. /\ j.at = IF targets[d] = Nothing THEN "close" ELSE "remove"
          /\ j.target = targets[d] /\ Become(t, j)
      BY <1>1, <1>2 DEF JobType
    <2> HIDE DEF j
    <2> QED BY <2>1, Becoming DEF Inductive
  <1>4. CASE targets[d] = Nothing
    <2>1. targets' = targets
      BY <1>1, <1>2, <1>4 DEF TypeOK
    <2>2. \A u \in Threads :
            /\ Keeps(u)' <=> Keeps(u)
            /\ Keeps(u) => job'[u].target = job[u].target
      BY <1>1, <1>3, <1>4 DEF Keeps
    <2> QED BY <1>1, <2>1, <2>2, QuietLedger
  <1>5. CASE targets[d] # Nothing
    <2>1. PICK g \in Groups : g = targets[d].group
      BY <1>1, <1>5 DEF TypeOK, TargetType
    <2>2. /\ Keepers(g) = {<<"record", d>>}
          /\ Keepers(g)' = {<<"thread", t>>}
      <3>1. d \in Records(g) /\ t \in Holders(g)'
        BY <1>3, <1>5, <2>1 DEF Records, Holders
      <3> QED BY <3>1 DEF Custodians
    <2>3. ASSUME NEW h \in Groups \ {g}
          PROVE  Keepers(h)' = Keepers(h)
      <3>1. \A e \in Domains : e \in Records(h)' <=> e \in Records(h)
        BY <1>1, <1>2, <2>1 DEF TypeOK, Records
      <3>2. t \notin Holders(h) /\ t \notin Holders(h)'
        BY <1>1, <1>3, <1>5, <2>1 DEF Holders, Keeps
      <3>3. \A u \in Threads : u \in Holders(h)' <=> u \in Holders(h)
        BY <1>3, <3>2 DEF Holders
      <3> QED BY <1>1, <3>1, <3>3, Unmoved
    <2>4. [h \in Groups |-> Keepers(h)]'
            = [[h \in Groups |-> Keepers(h)] EXCEPT ![g] = {<<"thread", t>>}]
      BY <2>2, <2>3, Passing
    <2>5. {h \in Groups : group'[h] # Nothing} = {h \in Groups : group[h] # Nothing}
      BY <2>2, <2>3 DEF Custodians
    <2>6. \A h \in Groups : <<"thread", t>> \notin Keepers(h)
      BY <1>1, EmptyHands
    <2>7. Ledger!Take(t, d, g)
      BY <2>2, <2>4, <2>5, <2>6
         DEF Ledger!Take, Ledger!Pass, Ledger!EmptyHanded, Ledger!Hand, Ledger!Record
    <2>8. Ledger!Moves(g)
      <3>1. <<"thread", t>> # <<"record", d>>
        OBVIOUS
      <3> QED BY <2>2, <3>1, Moving
    <2> QED BY <2>7, <2>8
  <1> QED BY <1>4, <1>5

\* Every step of the provider is a step of the ledger or none.
LEMMA StepsKeepLedger ==
  ASSUME Inductive, Inductive', Custodians, Custodians', [Next]_vars
  PROVE  [Ledger!Next]_Ledger!vars
  <1>1. CASE UNCHANGED <<targets, job, leaked>>
    BY <1>1, QuietLedger DEF Keeps
  <1>2. CASE \E t \in Threads : Begin(t) \/ Step(t)
    <2>1. PICK t \in Threads : Begin(t) \/ Step(t)
      BY <1>2
    <2>2. CASE \E d \in Domains, p \in Pids : CreateGroup(t, d, p)
      BY <2>2, CreateMakes DEF Ledger!Next
    <2>3. CASE AttachFails(t) \/ RemoveGroup(t)
      BY <2>3, RemovingDisposes DEF Ledger!Next
    <2>4. CASE RemoveFails(t)
      BY <2>4, FailingAbandons DEF Ledger!Next
    <2>5. CASE RecordTarget(t)
      BY <2>5, RecordingEnters DEF Ledger!Next
    <2>6. CASE ForgetTarget(t)
      BY <2>6, ForgettingTakes DEF Ledger!Next
    <2>7. CASE UNCHANGED Ledger!vars
      BY <2>7
    <2> QED BY <2>1, <2>2, <2>3, <2>4, <2>5, <2>6, <2>7, CommandsKeepLedger
            DEF Begin, Step
  <1> QED BY <1>1, <1>2 DEF Next, Settle, Exit, vars

\* The provider starts with no group there.
LEMMA LedgerStarts == Init => Ledger!Init
  <1> SUFFICES ASSUME Init PROVE Ledger!Init
    OBVIOUS
  <1>1. \A g \in Groups : group[g] = Nothing
    BY DEF Init
  <1>2. \A g \in Groups : Keepers(g) = {}
    BY <1>1, InitInductive, InductiveKeeps DEF Custodians
  <1> QED BY <1>1, <1>2 DEF Ledger!Init

\* The provider implements Custody for any threads, domains, names and processes:
\* every step passes at most one group from its only keeper to another, or loses the
\* one it cannot remove.
THEOREM CgroupKeepsCustody == Spec => KeepsCustody
  <1>1. Inductive => Custodians
    BY InductiveKeeps
  <1>2. Inductive /\ Inductive' /\ [Next]_vars => [Ledger!Next]_Ledger!vars
    <2>1. Inductive' => Custodians'
      BY <1>1, PTL
    <2> QED BY <1>1, <2>1, StepsKeepLedger
  <1> QED BY <1>2, InitInductive, NextInductive, LedgerStarts, PTL
          DEF Spec, KeepsCustody, Ledger!Spec
=============================================================================
