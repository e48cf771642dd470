------------------------------ MODULE JobProof ------------------------------
(***************************************************************************)
(* Whatever the threads, domains, processes and handles are: every open     *)
(* handle has exactly one keeper, a command sets limits on the job of its   *)
(* own domain alone, unless its record was withdrawn, and a confirmed      *)
(* budget is in force, unless somebody set or registered its domain.       *)
(***************************************************************************)
EXTENDS JobProvider, TLAPS

-----------------------------------------------------------------------------
(* The inductive invariant.                                                *)

\* The fields of a job, and what the proofs ask of them.
JobShape(j) ==
  /\ DOMAIN j = {"at", "command", "domain", "target", "left", "realized", "rest",
                 "result"}
  /\ j.at \in Labels /\ j.rest \subseteq Domains
  /\ j.command \in Commands \cup {Nothing}
  /\ j.at \in {"assign", "record"} => j.domain \in Domains
  /\ j.at \in {"find", "set", "signal", "realize", "read", "verify", "compare"}
       => j.command \in Commands
  /\ j.at \in {"assign", "record", "release", "set", "signal", "read", "compare"}
       => j.target \in TargetType

ShapeOK ==
  /\ open \in [Handles -> Domains \cup {Nothing}]
  /\ targets \in [Domains -> TargetType \cup {Nothing}]
  /\ DOMAIN job = Threads /\ job = [t \in Threads |-> job[t]]
  /\ \A t \in Threads : JobShape(job[t])
  /\ lost \subseteq Handles

Holds(t) == job[t].at \in {"assign", "record", "release"}
Handle(t) == job[t].target.handle

\* No keeper has a closed handle, and records open the jobs of their domains.
OpenOK ==
  /\ \A d \in Domains : targets[d] # Nothing => open[targets[d].handle] = d
  /\ \A t \in Threads :
       /\ Holds(t) => open[Handle(t)] # Nothing
       /\ job[t].at \in {"assign", "record"} => open[Handle(t)] = job[t].domain
  /\ \A h \in lost : open[h] # Nothing

\* No handle has two keepers; two records have different ones by OpenOK.
SoleOK ==
  /\ \A t \in Threads : Holds(t) =>
       /\ \A u \in Threads : Holds(u) /\ Handle(u) = Handle(t) => u = t
       /\ \A d \in Domains : targets[d] # Nothing => targets[d].handle # Handle(t)
       /\ Handle(t) \notin lost
  /\ \A d \in Domains : targets[d] # Nothing => targets[d].handle \notin lost

\* No open handle is without a keeper.
KnownOK ==
  \A h \in Handles : open[h] # Nothing =>
    \/ \E d \in Domains : targets[d] # Nothing /\ targets[d].handle = h
    \/ \E t \in Threads : Holds(t) /\ Handle(t) = h
    \/ h \in lost

Inductive == ShapeOK /\ OpenOK /\ SoleOK /\ KnownOK

-----------------------------------------------------------------------------
(* Lemmas.                                                                 *)

\* A step of one thread gives it another job and leaves those of the others alone.
LEMMA Becoming ==
  ASSUME ShapeOK, NEW t \in Threads, NEW j, Become(t, j)
  PROVE  /\ job'[t] = j
         /\ \A u \in Threads \ {t} : job'[u] = job[u]
         /\ DOMAIN job' = Threads /\ job' = [u \in Threads |-> job'[u]]
  BY DEF ShapeOK, Become

\* A step that gives a thread a well-formed job keeps the shape.
LEMMA ShapeKept ==
  ASSUME ShapeOK, NEW t \in Threads, NEW j, Become(t, j), JobShape(j),
         open' \in [Handles -> Domains \cup {Nothing}],
         targets' \in [Domains -> TargetType \cup {Nothing}],
         lost' \subseteq Handles
  PROVE  ShapeOK'
  <1>1. \A u \in Threads : JobShape(job'[u])
    BY Becoming DEF ShapeOK
  <1> QED BY <1>1, Becoming DEF ShapeOK, JobShape

\* A step that leaves handles and records alone, of a thread that holds what it
\* held or nothing before and after, disturbs nothing.
LEMMA Quiet ==
  ASSUME Inductive, ShapeOK', UNCHANGED <<open, targets, lost>>,
         \A u \in Threads :
           /\ Holds(u)' <=> Holds(u)
           /\ Holds(u) => job'[u].target = job[u].target
           /\ job'[u].at \in {"assign", "record"} => job[u].at \in {"assign", "record"}
           /\ job'[u].at \in {"assign", "record"} => job'[u].domain = job[u].domain
  PROVE  Inductive'
  <1>2. OpenOK'
    BY DEF Inductive, OpenOK, Holds, Handle
  <1>3. SoleOK'
    BY DEF Inductive, SoleOK, Holds, Handle
  <1>4. KnownOK'
    BY DEF Inductive, KnownOK, Holds, Handle
  <1> QED BY <1>2, <1>3, <1>4 DEF Inductive

\* The same of a step that gives a thread the job j.
LEMMA QuietJob ==
  ASSUME Inductive, NEW t \in Threads, NEW j, Become(t, j), JobShape(j),
         UNCHANGED <<open, targets, lost>>,
         j.at \in {"assign", "record", "release"} <=> Holds(t),
         Holds(t) => j.target = job[t].target,
         j.at \in {"assign", "record"} =>
           job[t].at \in {"assign", "record"} /\ j.domain = job[t].domain
  PROVE  Inductive'
  <1>1. ShapeOK'
    BY ShapeKept DEF Inductive, ShapeOK
  <1>2. ShapeOK
    BY DEF Inductive
  <1>3. /\ job'[t] = j
        /\ \A u \in Threads \ {t} : job'[u] = job[u]
    BY <1>2, Becoming
  <1>4. \A u \in Threads :
          /\ Holds(u)' <=> Holds(u)
          /\ Holds(u) => job'[u].target = job[u].target
          /\ job'[u].at \in {"assign", "record"} => job[u].at \in {"assign", "record"}
          /\ job'[u].at \in {"assign", "record"} => job'[u].domain = job[u].domain
    BY <1>3 DEF Holds
  <1> QED BY <1>1, <1>4, Quiet

\* A thread that ends a command holds no handle.
LEMMA Ending ==
  ASSUME Inductive, NEW t \in Threads, NEW r \in Results, End(t, r), ~Holds(t),
         UNCHANGED <<open, targets, lost>>
  PROVE  Inductive'
  <1> DEFINE j == [job[t] EXCEPT !.at = "done", !.target = Nothing, !.left = {},
                                 !.realized = Nothing, !.result = r]
  <1>1. Become(t, j)
    BY DEF End
  <1>2. JobShape(job[t])
    BY DEF Inductive, ShapeOK
  <1>3. JobShape(j) /\ j.at = "done"
    BY <1>2 DEF JobShape, Labels
  <1> HIDE DEF j
  <1> QED BY <1>1, <1>3, QuietJob

\* The steps of a command.
LEMMA CommandStep ==
  ASSUME Inductive, NEW t \in Threads,
         \/ Call(t) \/ FindTarget(t) \/ SetLimit(t) \/ SetFails(t) \/ Signal(t)
         \/ LookUp(t) \/ QueryFails(t) \/ Realize(t) \/ Verify(t)
  PROVE  Inductive'
  <1>1. JobShape(job[t])
    BY DEF Inductive, ShapeOK
  <1>2. \A d \in Domains : targets[d] # Nothing => targets[d] \in TargetType
    BY DEF Inductive, ShapeOK
  <1>3. \A c \in Commands : c.domain \in Domains /\ c.action \in Actions
    BY CommandsAssumption DEF IsCommand
  <1>4. CASE Call(t)
    <2>1. PICK c \in Commands : Become(t, [NoJob EXCEPT !.at = "find", !.command = c])
      BY <1>4 DEF Call
    <2> DEFINE j == [NoJob EXCEPT !.at = "find", !.command = c]
    <2>2. JobShape(j) /\ j.at = "find"
      BY DEF JobShape, NoJob, Labels
    <2>3. ~Holds(t)
      BY <1>4 DEF Call, Free, Holds
    <2>4. UNCHANGED <<open, targets, lost>>
      BY <1>4 DEF Call, system
    <2>5. Become(t, j)
      BY <2>1
    <2> HIDE DEF j
    <2> QED BY <2>2, <2>3, <2>4, <2>5, QuietJob
  <1>5. CASE FindTarget(t)
    <2> DEFINE c == Command(t)
               j == [job[t] EXCEPT !.at = FirstLabel(c), !.target = targets[c.domain],
                                   !.left = DOMAIN c.args]
    <2>1. ~Holds(t) /\ UNCHANGED <<open, targets, lost>> /\ c \in Commands
      BY <1>1, <1>5 DEF FindTarget, Holds, system, JobShape, Command
    <2>2. CASE End(t, "failed")
      BY <2>1, <2>2, Ending DEF Results
    <2>3. CASE targets[c.domain] # Nothing /\ Become(t, j)
      <3>1. FirstLabel(c) \in {"signal", "realize", "set"}
        BY <2>1, <1>3 DEF FirstLabel, Actions
      <3>2. targets[c.domain] \in TargetType
        BY <2>1, <2>3, <1>2, <1>3
      <3>3. JobShape(j) /\ j.at = FirstLabel(c)
        <4>1. job[t].command \in Commands
          BY <2>1 DEF Command
        <4> QED BY <1>1, <3>1, <3>2, <4>1 DEF JobShape, Labels
      <3> HIDE DEF j
      <3> QED BY <2>1, <2>3, <3>1, <3>3, QuietJob
    <2> QED BY <1>5, <2>2, <2>3 DEF FindTarget
  <1>6. CASE SetLimit(t)
    <2> DEFINE j == [job[t] EXCEPT
                       !.at = IF job[t].left = {Following(t)} THEN "realize" ELSE "set",
                       !.left = @ \ {Following(t)}]
    <2>1. /\ ~Holds(t) /\ UNCHANGED <<open, targets, lost>>
          /\ job[t].at = "set" /\ Become(t, j)
      BY <1>6 DEF SetLimit, Holds, Advance
    <2>2. JobShape(j) /\ j.at \in {"realize", "set"}
      BY <1>1, <2>1 DEF JobShape, Labels
    <2> HIDE DEF j
    <2> QED BY <2>1, <2>2, QuietJob
  <1>7. CASE SetFails(t)
    BY <1>7, Ending DEF SetFails, Holds, system, Results
  <1>8. CASE Signal(t)
    <2> DEFINE j == [job[t] EXCEPT !.at = "realize"]
    <2>1. ~Holds(t) /\ UNCHANGED <<open, targets, lost>> /\ job[t].at = "signal"
      BY <1>8 DEF Signal, Holds
    <2>2. CASE End(t, "failed")
      BY <2>1, <2>2, Ending DEF Results
    <2>3. CASE Become(t, j)
      <3>1. JobShape(j) /\ j.at = "realize"
        BY <1>1, <2>1 DEF JobShape, Labels
      <3> HIDE DEF j
      <3> QED BY <2>1, <2>3, <3>1, QuietJob
    <2> QED BY <1>8, <2>2, <2>3 DEF Signal, Goto
  <1>9. CASE LookUp(t)
    <2> DEFINE now == targets[Command(t).domain]
               j == [job[t] EXCEPT !.target = now,
                       !.at = IF job[t].at = "verify" THEN "compare" ELSE "read"]
    <2>1. /\ ~Holds(t) /\ UNCHANGED <<open, targets, lost>>
          /\ job[t].at \in {"realize", "verify"} /\ Command(t) \in Commands
      BY <1>1, <1>9 DEF LookUp, Holds, system, JobShape, Command
    <2>2. CASE \E r \in Results : End(t, r)
      BY <2>1, <2>2, Ending
    <2>3. CASE now # Nothing /\ Become(t, j)
      <3>1. now \in TargetType
        BY <2>1, <2>3, <1>2, <1>3
      <3>2. JobShape(j) /\ j.at \in {"compare", "read"}
        BY <1>1, <2>1, <3>1 DEF JobShape, Labels
      <3> HIDE DEF j
      <3> QED BY <2>1, <2>3, <3>2, QuietJob
    <2> QED BY <1>9, <2>2, <2>3 DEF LookUp, Results
  <1>10. CASE QueryFails(t)
    <2>1. PICK r \in Results : End(t, r)
      BY <1>10 DEF QueryFails, Results
    <2> QED BY <1>10, <2>1, Ending DEF QueryFails, Holds, system
  <1>11. CASE Realize(t)
    <2> DEFINE j == [job[t] EXCEPT !.at = "verify", !.target = Nothing,
                                   !.realized = View(Target(t))]
    <2>1. /\ ~Holds(t) /\ UNCHANGED <<open, targets, lost>>
          /\ job[t].at = "read" /\ Become(t, j)
      BY <1>11 DEF Realize, Holds, system
    <2>2. JobShape(j) /\ j.at = "verify"
      BY <1>1, <2>1 DEF JobShape, Labels
    <2> HIDE DEF j
    <2> QED BY <2>1, <2>2, QuietJob
  <1>12. CASE Verify(t)
    <2>1. Outcome(t) \in Results
      BY DEF Outcome, Results
    <2> QED BY <1>12, <2>1, Ending DEF Verify, Holds, system
  <1> QED BY <1>4, <1>5, <1>6, <1>7, <1>8, <1>9, <1>10, <1>11, <1>12

\* Steps of registration and unregistration that leave handles and records alone.
LEMMA PassingStep ==
  ASSUME Inductive, NEW t \in Threads, Assign(t) \/ Unregister(t) \/ Closed(t)
  PROVE  Inductive'
  <1>1. JobShape(job[t])
    BY DEF Inductive, ShapeOK
  <1>2. CASE Assign(t)
    <2> DEFINE j == [job[t] EXCEPT !.at = "record"]
    <2>1. job[t].at = "assign" /\ Become(t, j) /\ UNCHANGED <<open, targets, lost>>
      BY <1>2 DEF Assign, Goto, system
    <2>2. /\ JobShape(j) /\ j.at = "record"
          /\ j.target = job[t].target /\ j.domain = job[t].domain
      BY <1>1, <2>1 DEF JobShape, Labels
    <2>3. Holds(t)
      BY <2>1 DEF Holds
    <2> HIDE DEF j
    <2> QED BY <2>1, <2>2, <2>3, QuietJob
  <1>3. CASE Unregister(t)
    <2>1. PICK domains \in SUBSET Domains :
            Become(t, [NoJob EXCEPT !.at = "close", !.rest = domains])
      BY <1>3 DEF Unregister
    <2> DEFINE j == [NoJob EXCEPT !.at = "close", !.rest = domains]
    <2>2. ~Holds(t) /\ UNCHANGED <<open, targets, lost>>
      BY <1>3 DEF Unregister, Free, Holds, system
    <2>3. JobShape(j) /\ j.at = "close" /\ Become(t, j)
      BY <2>1 DEF JobShape, NoJob, Labels
    <2> HIDE DEF j
    <2> QED BY <2>2, <2>3, QuietJob
  <1>4. CASE Closed(t)
    <2>1. ~Holds(t) /\ UNCHANGED <<open, targets, lost>> /\ Become(t, NoJob)
      BY <1>4 DEF Closed, Holds, system
    <2>2. JobShape(NoJob) /\ NoJob.at = "idle"
      BY DEF JobShape, NoJob, Labels
    <2> QED BY <2>1, <2>2, QuietJob
  <1> QED BY <1>2, <1>3, <1>4

\* A new handle has one keeper, the thread that will record it: nobody kept it
\* while it was closed.
LEMMA CreateStep ==
  ASSUME Inductive, NEW t \in Threads, NEW d \in Domains, NEW p \in Pids,
         CreateJob(t, d, p)
  PROVE  Inductive'
  <1>1. PICK h \in Handles :
          /\ open[h] = Nothing
          /\ open' = [open EXCEPT ![h] = d]
          /\ Become(t, [NoJob EXCEPT !.at = "assign", !.domain = d,
                                     !.target = [pid |-> p, handle |-> h]])
    BY DEF CreateJob
  <1> DEFINE j == [NoJob EXCEPT !.at = "assign", !.domain = d,
                                !.target = [pid |-> p, handle |-> h]]
  <1>2. /\ ~Holds(t) /\ UNCHANGED <<targets, lost>> /\ Become(t, j)
        /\ open \in [Handles -> Domains \cup {Nothing}] /\ d # Nothing
    BY <1>1, AbsentAssumption DEF CreateJob, Free, Holds, Inductive, ShapeOK
  <1>3. /\ JobShape(j) /\ j.at = "assign" /\ j.domain = d
        /\ j.target \in TargetType /\ j.target.handle = h
    BY DEF JobShape, NoJob, Labels, TargetType
  <1> HIDE DEF j
  <1>4. ShapeOK'
    BY <1>1, <1>2, <1>3, ShapeKept DEF Inductive, ShapeOK
  <1>5. job'[t] = j /\ \A u \in Threads \ {t} : job'[u] = job[u]
    BY <1>2, Becoming DEF Inductive
  <1>6. /\ open'[h] = d
        /\ \A g \in Handles \ {h} : open'[g] = open[g]
        /\ \A e \in Domains : targets[e] # Nothing => targets[e].handle \in Handles \ {h}
        /\ \A u \in Threads : Holds(u) => Handle(u) \in Handles \ {h}
        /\ lost \subseteq Handles \ {h}
    <2>1. \A e \in Domains : targets[e] # Nothing => targets[e].handle \in Handles
      BY DEF Inductive, ShapeOK, TargetType
    <2>2. \A u \in Threads : Holds(u) => Handle(u) \in Handles
      BY DEF Inductive, ShapeOK, JobShape, TargetType, Holds, Handle
    <2> QED BY <1>1, <1>2, <2>1, <2>2, AbsentAssumption DEF Inductive, OpenOK, ShapeOK
  <1>7. OpenOK'
    BY <1>2, <1>3, <1>5, <1>6 DEF Inductive, OpenOK, Holds, Handle
  <1>8. SoleOK'
    BY <1>2, <1>3, <1>5, <1>6 DEF Inductive, SoleOK, Holds, Handle
  <1>9. KnownOK'
    BY <1>2, <1>3, <1>5, <1>6 DEF Inductive, KnownOK, Holds, Handle
  <1> QED BY <1>4, <1>7, <1>8, <1>9 DEF Inductive

\* A thread closes the handle it alone keeps.
LEMMA CloseStep ==
  ASSUME Inductive, NEW t \in Threads, AssignFails(t) \/ Release(t)
  PROVE  Inductive'
  <1> DEFINE h == Handle(t)
  <1>1. /\ Holds(t) /\ open' = [open EXCEPT ![h] = Nothing]
        /\ UNCHANGED <<targets, lost>>
    BY DEF AssignFails, Release, Holds, Handle
  <1>2. PICK j : /\ Become(t, j) /\ JobShape(j)
                 /\ j.at \notin {"assign", "record", "release"}
    <2>1. CASE AssignFails(t)
      <3>1. JobShape(NoJob) /\ NoJob.at = "idle"
        BY DEF JobShape, NoJob, Labels
      <3> QED BY <2>1, <3>1 DEF AssignFails
    <2>2. CASE Release(t)
      <3> DEFINE i == [job[t] EXCEPT !.at = "close", !.target = Nothing]
      <3>1. JobShape(i) /\ i.at = "close"
        BY DEF Inductive, ShapeOK, JobShape, Labels
      <3>2. Become(t, i)
        BY <2>2 DEF Release
      <3> HIDE DEF i
      <3> QED BY <3>1, <3>2
    <2> QED BY <2>1, <2>2
  <1>3. /\ h \in Handles /\ open \in [Handles -> Domains \cup {Nothing}]
        /\ \A e \in Domains : targets[e] # Nothing => targets[e].handle \in Handles
        /\ \A u \in Threads : Holds(u) => Handle(u) \in Handles
        /\ lost \subseteq Handles
    BY <1>1 DEF Inductive, ShapeOK, JobShape, TargetType, Holds, Handle
  <1>4. ShapeOK'
    BY <1>1, <1>2, <1>3, ShapeKept DEF Inductive, ShapeOK
  <1>5. job'[t] = j /\ \A u \in Threads \ {t} : job'[u] = job[u]
    BY <1>2, Becoming DEF Inductive
  <1> HIDE DEF h
  <1>6. /\ open'[h] = Nothing
        /\ \A g \in Handles \ {h} : open'[g] = open[g]
    BY <1>1, <1>3
  <1>7. /\ \A e \in Domains : targets[e] # Nothing => targets[e].handle # h
        /\ \A u \in Threads \ {t} : Holds(u) => Handle(u) # h
        /\ h \notin lost
    BY <1>1 DEF h, Inductive, SoleOK
  <1>8. OpenOK'
    BY <1>1, <1>2, <1>3, <1>5, <1>6, <1>7 DEF Inductive, OpenOK, Holds, Handle
  <1>9. SoleOK'
    BY <1>1, <1>2, <1>5, <1>7 DEF Inductive, SoleOK, Holds, Handle
  <1>10. KnownOK'
    BY <1>1, <1>2, <1>3, <1>5, <1>6, <1>7 DEF h, Inductive, KnownOK, Holds, Handle
  <1> QED BY <1>4, <1>8, <1>9, <1>10 DEF Inductive

\* A record takes over its handle from the thread; the handle of a record that was
\* there is lost.
LEMMA RecordStep ==
  ASSUME Inductive, NEW t \in Threads, Record(t)
  PROVE  Inductive'
  <1> DEFINE d   == job[t].domain
             old == targets[d]
             new == job[t].target
  <1>1. /\ job[t].at = "record" /\ Become(t, NoJob) /\ UNCHANGED open
        /\ targets' = [targets EXCEPT ![d] = new]
        /\ lost' = IF old = Nothing THEN lost ELSE lost \cup {old.handle}
    BY DEF Record, system
  <1>2. /\ d \in Domains /\ new \in TargetType /\ new # Nothing
        /\ targets \in [Domains -> TargetType \cup {Nothing}]
        /\ old # Nothing => old.handle \in Handles
    BY <1>1, AbsentAssumption DEF Inductive, ShapeOK, JobShape, TargetType
  <1>3. JobShape(NoJob) /\ NoJob.at = "idle"
    BY DEF JobShape, NoJob, Labels
  <1>4. ShapeOK'
    <2>1. /\ targets' \in [Domains -> TargetType \cup {Nothing}]
          /\ lost' \subseteq Handles
          /\ open' \in [Handles -> Domains \cup {Nothing}]
      BY <1>1, <1>2 DEF Inductive, ShapeOK
    <2> QED BY <1>1, <1>3, <2>1, ShapeKept DEF Inductive
  <1>5. job'[t] = NoJob /\ \A u \in Threads \ {t} : job'[u] = job[u]
    BY <1>1, Becoming DEF Inductive
  <1>6. Holds(t) /\ Handle(t) = new.handle /\ open[new.handle] = d
    <2>1. Holds(t) /\ Handle(t) = new.handle
      BY <1>1 DEF Holds, Handle
    <2> QED BY <1>1, <2>1 DEF Inductive, OpenOK, Handle
  <1>7. /\ targets'[d] = new
        /\ \A e \in Domains \ {d} : targets'[e] = targets[e]
    BY <1>1, <1>2
  <1> HIDE DEF d, old, new
  <1>8. OpenOK'
    BY <1>1, <1>2, <1>3, <1>5, <1>6, <1>7 DEF old, Inductive, OpenOK, Holds, Handle
  <1>9. SoleOK'
    <2>1. Holds(t) /\ Handle(t) = new.handle
      BY <1>1 DEF new, Holds, Handle
    <2>2. \A u \in Threads \ {t} :
            Holds(u) => Handle(u) # new.handle /\ (old # Nothing => Handle(u) # old.handle)
      BY <1>2, <2>1 DEF old, Inductive, SoleOK
    <2>3. old # Nothing => old.handle # new.handle
      BY <1>2, <2>1 DEF old, Inductive, SoleOK
    <2>4. \A e \in Domains \ {d} :
            targets[e] # Nothing => (old # Nothing => targets[e].handle # old.handle)
      BY <1>2 DEF old, Inductive, OpenOK
    <2> QED BY <1>1, <1>2, <1>3, <1>5, <1>7, <2>1, <2>2, <2>3, <2>4
            DEF Inductive, SoleOK, Holds, Handle
  <1>10. KnownOK'
    BY <1>1, <1>2, <1>3, <1>5, <1>6, <1>7 DEF old, new, Inductive, KnownOK, Holds, Handle
  <1> QED BY <1>4, <1>8, <1>9, <1>10 DEF Inductive

\* A thread takes over the handle of the record it removes.
LEMMA PopStep ==
  ASSUME Inductive, NEW t \in Threads, Pop(t)
  PROVE  Inductive'
  <1>1. PICK d \in job[t].rest :
          /\ targets' = [targets EXCEPT ![d] = Nothing]
          /\ Become(t, [job[t] EXCEPT
               !.at = IF targets[d] = Nothing THEN "close" ELSE "release",
               !.rest = @ \ {d}, !.target = targets[d]])
    BY DEF Pop
  <1> DEFINE j == [job[t] EXCEPT
                     !.at = IF targets[d] = Nothing THEN "close" ELSE "release",
                     !.rest = @ \ {d}, !.target = targets[d]]
  <1>2. ~Holds(t) /\ UNCHANGED <<open, lost>> /\ Become(t, j)
    BY <1>1 DEF Pop, Holds, system
  <1>3. /\ d \in Domains /\ JobShape(job[t])
        /\ targets \in [Domains -> TargetType \cup {Nothing}]
    BY <1>1 DEF Inductive, ShapeOK, JobShape
  <1>4. /\ JobShape(j) /\ j.target = targets[d]
        /\ j.at = IF targets[d] = Nothing THEN "close" ELSE "release"
    BY <1>3 DEF JobShape, Labels
  <1> HIDE DEF j
  <1>5. ShapeOK'
    BY <1>1, <1>2, <1>3, <1>4, ShapeKept DEF Inductive, ShapeOK
  <1>6. job'[t] = j /\ \A u \in Threads \ {t} : job'[u] = job[u]
    BY <1>2, Becoming DEF Inductive
  <1>7. /\ targets'[d] = Nothing
        /\ \A e \in Domains \ {d} : targets'[e] = targets[e]
    BY <1>1, <1>3
  <1>8. OpenOK'
    BY <1>2, <1>3, <1>4, <1>6, <1>7, AbsentAssumption
       DEF Inductive, OpenOK, Holds, Handle
  <1>9. SoleOK'
    <2>1. \A e \in Domains \ {d} :
            targets[e] # Nothing /\ targets[d] # Nothing
              => targets[e].handle # targets[d].handle
      BY <1>3 DEF Inductive, OpenOK
    <2> QED BY <1>2, <1>3, <1>4, <1>6, <1>7, <2>1 DEF Inductive, SoleOK, Holds, Handle
  <1>10. KnownOK'
    BY <1>2, <1>3, <1>4, <1>6, <1>7 DEF Inductive, KnownOK, Holds, Handle
  <1> QED BY <1>5, <1>8, <1>9, <1>10 DEF Inductive

-----------------------------------------------------------------------------
(* The theorems.                                                           *)

\* Nothing is open and nobody holds anything at the start.
LEMMA InitInductive == Init => Inductive
  BY AbsentAssumption
     DEF Init, Inductive, ShapeOK, OpenOK, SoleOK, KnownOK, JobShape, NoJob, Labels,
         Holds, Handle

\* Every step keeps the invariant, by the lemma for its kind.
LEMMA NextInductive == Inductive /\ [Next]_vars => Inductive'
  <1> SUFFICES ASSUME Inductive, [Next]_vars PROVE Inductive'
    OBVIOUS
  <1>1. CASE \E t \in Threads : Begin(t) \/ Continue(t)
    <2>1. PICK t \in Threads : Begin(t) \/ Continue(t)
      BY <1>1
    <2>2. CASE \/ Call(t) \/ FindTarget(t) \/ SetLimit(t) \/ SetFails(t) \/ Signal(t)
              \/ LookUp(t) \/ QueryFails(t) \/ Realize(t) \/ Verify(t)
      BY <2>2, CommandStep
    <2>3. CASE Assign(t) \/ Unregister(t) \/ Closed(t)
      BY <2>3, PassingStep
    <2>4. CASE \E d \in Domains, p \in Pids : CreateJob(t, d, p)
      BY <2>4, CreateStep
    <2>5. CASE AssignFails(t) \/ Release(t)
      BY <2>5, CloseStep
    <2>6. CASE Record(t)
      BY <2>6, RecordStep
    <2>7. CASE Pop(t)
      BY <2>7, PopStep
    <2> QED BY <2>1, <2>2, <2>3, <2>4, <2>5, <2>6, <2>7 DEF Begin, Continue
  <1>2. CASE \E p \in Pids : Exit(p) \/ Reuse(p)
    <2>1. UNCHANGED <<open, targets, job, lost>>
      BY <1>2 DEF Exit, Reuse
    <2> QED BY <2>1 DEF Inductive, ShapeOK, OpenOK, SoleOK, KnownOK, Holds, Handle
  <1>3. CASE UNCHANGED vars
    BY <1>3 DEF vars, Inductive, ShapeOK, OpenOK, SoleOK, KnownOK, Holds, Handle
  <1> QED BY <1>1, <1>2, <1>3 DEF Next

\* What the parts of the invariant say of one handle.
LEMMA InductiveAccounts == Inductive => HandlesAccounted
  <1> SUFFICES ASSUME Inductive, NEW h \in Handles
               PROVE  IF open[h] = Nothing THEN Keepers(h) = {}
                      ELSE \E k \in Keepers(h) : Keepers(h) = {k}
    BY DEF HandlesAccounted
  <1>1. CASE open[h] = Nothing
    <2>1. Records(h) = {}
      BY <1>1, AbsentAssumption DEF Records, Inductive, OpenOK
    <2>2. Holders(h) = {}
      BY <1>1 DEF Holders, Inductive, OpenOK, Holds, Handle
    <2>3. lost \cap {h} = {}
      BY <1>1 DEF Inductive, OpenOK
    <2> QED BY <1>1, <2>1, <2>2, <2>3 DEF Keepers
  <1>2. CASE open[h] # Nothing
    <2>1. \A d, e \in Records(h) : d = e
      BY DEF Records, Inductive, OpenOK
    <2>2. \A t, u \in Holders(h) : t = u
      BY DEF Holders, Inductive, SoleOK, Holds, Handle
    <2>3. /\ Holders(h) # {} => Records(h) = {} /\ h \notin lost
          /\ Records(h) # {} => h \notin lost
      BY DEF Records, Holders, Inductive, SoleOK, Holds, Handle
    <2>4. Records(h) # {} \/ Holders(h) # {} \/ h \in lost
      BY <1>2 DEF Records, Holders, Inductive, KnownOK, Holds, Handle
    <2>5. CASE Records(h) # {}
      <3>1. PICK d \in Records(h) : Records(h) = {d}
        BY <2>1, <2>5
      <3>2. Keepers(h) = {<<"record", d>>}
        BY <2>3, <2>5, <3>1 DEF Keepers
      <3> QED BY <1>2, <3>2
    <2>6. CASE Holders(h) # {}
      <3>1. PICK t \in Holders(h) : Holders(h) = {t}
        BY <2>2, <2>6
      <3>2. Keepers(h) = {<<"thread", t>>}
        BY <2>3, <2>6, <3>1 DEF Keepers
      <3> QED BY <1>2, <3>2
    <2>7. CASE h \in lost
      <3>1. Records(h) = {} /\ Holders(h) = {}
        BY <2>3, <2>7
      <3>2. Keepers(h) = {<<"nobody", h>>}
        BY <2>7, <3>1 DEF Keepers
      <3> QED BY <1>2, <3>2
    <2> QED BY <2>4, <2>5, <2>6, <2>7
  <1> QED BY <1>1, <1>2

\* Every open handle has exactly one keeper and no keeper has a closed one, for any
\* number of threads, domains, processes and handles.
THEOREM HandlesKept == Spec => []HandlesAccounted
  BY InitInductive, NextInductive, InductiveAccounts, PTL DEF Spec

\* A step of the thread that sets a limit; what the others do sets none.
LEMMA OneSets ==
  ASSUME Inductive, [Next]_vars, NEW t \in Threads, Sets(t)
  PROVE  SetLimit(t) \/ SetFails(t)
  <1>1. job # job'
    BY DEF Sets
  <1>2. PICK u \in Threads : Begin(u) \/ Continue(u)
    BY <1>1 DEF Next, vars, Exit, Reuse
  <1>3. \E j : Become(u, j)
    <2>1. CASE Begin(u)
      BY <2>1 DEF Begin, Call, CreateJob, Unregister
    <2>2. CASE Continue(u)
      BY <2>2 DEF Continue, Assign, AssignFails, Record, Pop, Release, Closed, FindTarget,
         SetLimit, SetFails, Signal, LookUp, QueryFails, Realize, Verify, End, Goto, Advance
    <2> QED BY <1>2, <2>1, <2>2
  <1>4. u = t
    BY <1>3, Becoming DEF Sets, Inductive
  <1>5. job[t].at = "set"
    BY DEF Sets
  <1> QED BY <1>2, <1>4, <1>5 DEF Begin, Continue, Call, CreateJob, Unregister, Free, Assign,
          AssignFails, Record, Pop, Release, Closed, FindTarget, Signal, LookUp, QueryFails,
          Realize, Verify

\* A command sets limits on the job object of its own domain, unless the record it
\* started from was withdrawn or replaced, for any number of threads and domains.
THEOREM JobKept == Spec => KeepsToItsJob
  <1>1. Inductive /\ [Next]_vars =>
          [\A t \in Threads :
             Sets(t) /\ targets[Command(t).domain] = Target(t)
               => \A d \in Domains \ {Command(t).domain} : limit'[d] = limit[d]]_vars
    <2> SUFFICES ASSUME Inductive, [Next]_vars, NEW t \in Threads, Sets(t),
                        targets[Command(t).domain] = Target(t),
                        NEW d \in Domains \ {Command(t).domain}
                 PROVE  limit'[d] = limit[d]
      OBVIOUS
    <2>1. CASE SetFails(t)
      BY <2>1 DEF SetFails, system
    <2>2. CASE SetLimit(t)
      <3>1. Command(t).domain \in Domains /\ Target(t) \in TargetType
        BY <2>2, CommandsAssumption
           DEF SetLimit, Inductive, ShapeOK, JobShape, Command, Target, IsCommand
      <3>2. Opened(t) = Command(t).domain
        BY <3>1, AbsentAssumption DEF Inductive, OpenOK, Opened, TargetType
      <3> QED BY <2>2, <3>2 DEF SetLimit
    <2> QED BY <2>1, <2>2, OneSets
  <1> QED BY <1>1, InitInductive, NextInductive, PTL DEF Spec, KeepsToItsJob

-----------------------------------------------------------------------------
(* The types, and what is in force of a budget that nobody disturbs: they   *)
(* are inductive together with the invariant above.                        *)

Confirmed(j) == j.at = "done" /\ j.result = "confirmed"

\* A budget sets what it names, and only a budget sets anything.
Course(j) ==
  /\ j.at = "set" => j.left # {} /\ j.left \subseteq DOMAIN j.command.args
  /\ j.at = "signal" => j.command.action \in {"pause", "resume"}
  /\ j.at = "done" => j.command \in Commands

\* Of the limits a budget names, those in fields are in force.
Met(limits, c, fields) ==
  \A f \in fields : Meets(f, limits[c.domain][f], c.args[f])

\* How far an undisturbed budget is, unless the record it started from is gone: then
\* the domain has none, and the command cannot be confirmed.
OnCourse(records, limits, j) ==
  LET c == j.command
      rec == records[c.domain]
  IN  c \in Commands /\ c.action = "set_resource_budget" =>
        /\ j.at = "set" /\ rec # Nothing =>
             rec = j.target /\ Met(limits, c, DOMAIN c.args \ j.left)
        /\ j.at \in {"realize", "read", "verify"} /\ rec # Nothing =>
             Met(limits, c, DOMAIN c.args)
        /\ j.at = "compare" \/ Confirmed(j) => Met(limits, c, DOMAIN c.args)

CourseOK ==
  /\ \A t \in Threads : Course(job[t])
  /\ \A t \in alone : OnCourse(targets, limit, job[t])

Typed == TypeOK /\ CourseOK

-----------------------------------------------------------------------------
(* Lemmas about limits.                                                    *)

\* Division with remainder.
LEMMA Division ==
  ASSUME NEW a \in Nat, NEW u \in Nat \ {0}
  PROVE  /\ a \div u \in Nat /\ a % u \in 0..(u - 1)
         /\ a = u * (a \div u) + (a % u)
  OBVIOUS

\* Products of naturals grow with their factors.
LEMMA Growth ==
  ASSUME NEW a \in Nat, NEW b \in Nat, NEW u \in Nat, a <= b
  PROVE  u * a \in Nat /\ u * b \in Nat /\ u * a <= u * b /\ u * (a + 1) = u * a + u
  OBVIOUS

\* The multiple of a unit below a number, and the next one when the number is no
\* nearer to the one below, stay within bounds that are whole numbers of units.
LEMMA Between ==
  ASSUME NEW v \in Nat, NEW q \in Nat, NEW k \in Nat, NEW r \in Nat, r < Step,
         v = Step * q + r
  PROVE  /\ v >= Step * k => Step * q >= Step * k
         /\ v <= Step * k /\ r > 0 => Step * (q + 1) <= Step * k
         /\ v <= Step * k => Step * q <= Step * k
  <1>1. Step \in Nat \ {0} /\ Step * q \in Nat /\ Step * k \in Nat
    BY UnitAssumption
  <1>2. k <= q => Step * k <= Step * q
    BY <1>1, Growth
  <1>3. q + 1 <= k => Step * (q + 1) <= Step * k
    BY <1>1, Growth
  <1>4. Step * (q + 1) = Step * q + Step
    BY <1>1, Growth
  <1>5. v >= Step * k => k <= q
    BY <1>1, <1>3, <1>4
  <1>6. v <= Step * k /\ r > 0 => q + 1 <= k
    BY <1>1, <1>2
  <1> QED BY <1>1, <1>2, <1>3, <1>4, <1>5, <1>6

\* Rounding to the unit of Windows loses half a unit at most, whichever way a tie
\* goes, and does not leave the bounds, which are whole numbers of units.
LEMMA Rounding ==
  ASSUME NEW v \in Nat
  PROVE  /\ Rounded(v) \in Nat
         /\ 2 * Rounded(v) <= 2 * v + Step /\ 2 * v <= 2 * Rounded(v) + Step
         /\ v >= Least => Rounded(v) >= Least
         /\ v <= Whole => Rounded(v) <= Whole
  <1> DEFINE q == v \div Step
             r == v % Step
             kl == Least \div Step
             kw == Whole \div Step
  <1>1. Step \in Nat \ {0}
    BY UnitAssumption
  <1>2. q \in Nat /\ r \in Nat /\ r < Step /\ v = Step * q + r
    BY <1>1, Division
  <1>3. /\ kl \in Nat /\ Step * kl = Least
        /\ kw \in Nat /\ Step * kw = Whole
    <2>1. kl \in Nat /\ Least = Step * kl + (Least % Step)
      BY <1>1, UnitAssumption, Division
    <2>2. kw \in Nat /\ Whole = Step * kw + (Whole % Step)
      BY <1>1, UnitAssumption, Division
    <2>3. Step * kl \in Nat /\ Step * kw \in Nat
      BY <1>1, <2>1, <2>2, Growth
    <2> HIDE DEF kl, kw
    <2> QED BY <2>1, <2>2, <2>3, UnitAssumption
  <1>4. Rounded(v) = IF RoundsDown(v) THEN q * Step ELSE (q + 1) * Step
    BY DEF Rounded
  <1>5. /\ RoundsDown(v) => 2 * r <= Step
        /\ ~RoundsDown(v) => 2 * r >= Step
    BY <1>1, <1>2 DEF RoundsDown
  <1> HIDE DEF q, r, kl, kw
  <1>6. /\ v >= Least => Step * q >= Least
        /\ v <= Whole /\ r > 0 => Step * (q + 1) <= Whole
        /\ v <= Whole => Step * q <= Whole
    BY <1>1, <1>2, <1>3, Between
  <1>7. /\ Step * q \in Nat /\ q * Step = Step * q
        /\ (q + 1) * Step = Step * q + Step /\ Step * (q + 1) = Step * q + Step
    BY <1>1, <1>2, Growth
  <1>8. CASE RoundsDown(v)
    <2>1. Rounded(v) = Step * q /\ 2 * r <= Step
      BY <1>4, <1>5, <1>7, <1>8
    <2> QED BY <1>1, <1>2, <1>6, <1>7, <2>1
  <1>9. CASE ~RoundsDown(v)
    <2>1. Rounded(v) = Step * q + Step /\ 2 * r >= Step
      BY <1>4, <1>5, <1>7, <1>9
    <2>2. v >= Least => Rounded(v) >= Least
      BY <1>1, <1>2, <1>6, <1>7, <2>1, UnitAssumption
    <2>3. v <= Whole => Rounded(v) <= Whole
      BY <1>1, <1>2, <1>6, <1>7, <2>1
    <2> QED BY <1>1, <1>2, <1>7, <2>1, <2>2, <2>3
  <1> QED BY <1>8, <1>9

\* A c_size_t holds the whole bytes of any amount it has room for.
LEMMA Cutting ==
  ASSUME NEW v \in Nat
  PROVE  LET got == (v \div Byte) % Size
         IN  /\ got \in 0..(Size - 1)
             /\ v < Size * Byte => got * Byte <= v /\ v < (got + 1) * Byte
  <1> DEFINE q == v \div Byte
             r == v % Byte
             got == q % Size
  <1>1. Byte \in Nat \ {0} /\ Size \in Nat \ {0}
    BY UnitAssumption
  <1>2. q \in Nat /\ r \in Nat /\ r < Byte /\ v = Byte * q + r
    BY <1>1, Division
  <1> HIDE DEF q, r
  <1>3. got \in 0..(Size - 1)
    BY <1>1, <1>2, Division
  <1>4. Byte * q \in Nat /\ Byte * Size \in Nat
    BY <1>1, <1>2, Growth
  <1>5. ASSUME v < Size * Byte PROVE q < Size
    <2> SUFFICES ASSUME Size <= q PROVE FALSE
      BY <1>1, <1>2
    <2>1. Byte * Size <= Byte * q
      BY <1>1, <1>2, Growth
    <2>2. Size * Byte = Byte * Size
      BY <1>1
    <2> QED BY <1>2, <1>4, <1>5, <2>1, <2>2
  <1>6. ASSUME v < Size * Byte PROVE got = q
    BY <1>1, <1>2, <1>5, <1>6
  <1>7. q * Byte = Byte * q /\ (q + 1) * Byte = Byte * q + Byte
    BY <1>1, <1>2
  <1>8. v < Size * Byte => got * Byte <= v /\ v < (got + 1) * Byte
    <2> HIDE DEF got
    <2> QED BY <1>1, <1>2, <1>4, <1>6, <1>7
  <1> QED BY <1>3, <1>8 DEF q

\* A limit that was accepted is one the job object keeps, and it meets what was asked.
LEMMA StoredFits ==
  ASSUME NEW f \in Fields, NEW v \in Nat \cup {Malformed}, Accepted(f, v)
  PROVE  Stored(f, v) \in Nat /\ Keepable(f, Stored(f, v)) /\ Meets(f, Stored(f, v), v)
  <1>1. v \in Nat
    BY DEF Accepted
  <1>2. CASE f = "cpu_fraction"
    <2>1. v >= Least /\ v <= Whole
      BY <1>1, <1>2, UnitAssumption DEF Accepted
    <2>2. Stored(f, v) = Rounded(v)
      BY <1>2 DEF Stored
    <2>3. /\ Stored(f, v) \in Nat
          /\ 2 * Stored(f, v) <= 2 * v + Step /\ 2 * v <= 2 * Stored(f, v) + Step
          /\ Stored(f, v) >= Least /\ Stored(f, v) <= Whole
      BY <1>1, <2>1, <2>2, Rounding
    <2>4. Stored(f, v) # Nothing
      BY <2>3, AbsentAssumption
    <2>5. Stored(f, v) \in Least..Whole
      BY <2>3, UnitAssumption
    <2> QED BY <1>2, <2>3, <2>4, <2>5 DEF Keepable, Meets
  <1>3. CASE f = "job_memory_bytes"
    <2>1. Stored(f, v) = (v \div Byte) % Size
      BY <1>3 DEF Stored
    <2>2. /\ Stored(f, v) \in 0..(Size - 1)
          /\ v < Size * Byte =>
               Stored(f, v) * Byte <= v /\ v < (Stored(f, v) + 1) * Byte
      BY <1>1, <2>1, Cutting
    <2>3. Stored(f, v) \in Nat /\ Stored(f, v) # Nothing
      BY <2>2, AbsentAssumption, UnitAssumption
    <2> QED BY <1>3, <2>2, <2>3 DEF Keepable, Meets
  <1> QED BY <1>2, <1>3 DEF Fields

\* The limit a budget sets next is one it names.
LEMMA FollowingIsLeft ==
  ASSUME NEW t, job[t].left \subseteq Fields, job[t].left # {}
  PROVE  Following(t) \in job[t].left /\ Following(t) \in Fields
  BY DEF Following, Fields

\* A job may have some of its fields replaced.
LEMMA JobFields ==
  ASSUME NEW j \in JobType
  PROVE  /\ \A v \in Labels : [j EXCEPT !.at = v] \in JobType
         /\ \A v \in TargetType \cup {Nothing} : [j EXCEPT !.target = v] \in JobType
         /\ \A v \in SUBSET Fields : [j EXCEPT !.left = v] \in JobType
         /\ \A v \in ViewType \cup {Nothing} : [j EXCEPT !.realized = v] \in JobType
         /\ \A v \in SUBSET Domains : [j EXCEPT !.rest = v] \in JobType
         /\ \A v \in Results : [j EXCEPT !.result = v] \in JobType
  BY DEF JobType

\* The jobs a method starts with.
LEMMA NewJobsFit ==
  /\ NoJob \in JobType
  /\ \A c \in Commands : [NoJob EXCEPT !.at = "find", !.command = c] \in JobType
  /\ \A r \in SUBSET Domains : [NoJob EXCEPT !.at = "close", !.rest = r] \in JobType
  /\ \A d \in Domains, g \in TargetType :
       [NoJob EXCEPT !.at = "assign", !.domain = d, !.target = g] \in JobType
  BY DEF NoJob, JobType, Labels, Results

\* What inspect reads through a handle that is open.
LEMMA ViewFits ==
  ASSUME TypeOK, NEW g \in TargetType, open[g.handle] # Nothing
  PROVE  View(g) \in ViewType
  <1>1. g.pid \in Pids /\ g.handle \in Handles
    BY DEF TargetType
  <1>2. limit[open[g.handle]] \in LimitsType
    BY <1>1 DEF TypeOK
  <1> DEFINE V(l, s) == [pid |-> g.pid, limits |-> l, suspended |-> s]
  <1>3. \A l \in LimitsType, s \in BOOLEAN \cup {Nothing} : V(l, s) \in ViewType
    BY <1>1 DEF ViewType
  <1>4. (IF process[g.pid] = "dead" THEN Nothing ELSE process[g.pid] = "suspended")
          \in BOOLEAN \cup {Nothing}
    OBVIOUS
  <1>5. View(g) = V(limit[open[g.handle]],
                    IF process[g.pid] = "dead" THEN Nothing
                    ELSE process[g.pid] = "suspended")
    BY DEF View
  <1> HIDE DEF V
  <1> QED BY <1>2, <1>3, <1>4, <1>5

-----------------------------------------------------------------------------
(* The steps.                                                              *)

\* What stays true of the types and courses when one thread gets the job j.
LEMMA Changing ==
  ASSUME Typed, NEW t \in Threads, NEW j, Become(t, j), j \in JobType, Course(j),
         open' \in [Handles -> Domains \cup {Nothing}],
         limit' \in [Domains -> LimitsType],
         \A d \in Domains, f \in Fields :
           limit'[d][f] # Nothing => Keepable(f, limit'[d][f]),
         process' \in [Pids -> {"running", "suspended", "dead"}],
         targets' \in [Domains -> TargetType \cup {Nothing}],
         lost' \subseteq Handles, alone' \subseteq alone \cup {t},
         t \in alone' => OnCourse(targets', limit', j),
         \A u \in alone' \ {t} : job[u].command \in Commands =>
           LET d == job[u].command.domain
           IN  limit'[d] = limit[d] /\ targets'[d] \in {targets[d], Nothing}
  PROVE  Typed'
  <1>1. TypeOK /\ CourseOK
    BY DEF Typed
  <1>2. /\ job'[t] = j /\ \A u \in Threads \ {t} : job'[u] = job[u]
        /\ job' \in [Threads -> JobType]
    BY <1>1 DEF TypeOK, Become
  <1>3. TypeOK'
    <2>1. alone' \subseteq Threads
      BY <1>1 DEF TypeOK
    <2> QED BY <1>2, <2>1 DEF TypeOK, Keepable
  <1>4. \A u \in Threads : Course(job'[u])
    BY <1>1, <1>2 DEF CourseOK
  <1>5. ASSUME NEW u \in alone' PROVE OnCourse(targets', limit', job'[u])
    <2>1. CASE u = t
      BY <1>2, <2>1
    <2>2. CASE u # t
      <3>1. /\ u \in alone /\ u \in Threads /\ job'[u] = job[u]
            /\ OnCourse(targets, limit, job[u])
        BY <1>1, <1>2, <2>2 DEF TypeOK, CourseOK
      <3> QED BY <2>2, <3>1 DEF OnCourse, Met
    <2> QED BY <2>1, <2>2
  <1> QED BY <1>3, <1>4, <1>5 DEF Typed, CourseOK, Course, OnCourse, Met, Confirmed, Meets

\* The same of a step that leaves handles, limits and records alone.
LEMMA QuietCourse ==
  ASSUME Typed, NEW t \in Threads, NEW j, Become(t, j), j \in JobType, Course(j),
         UNCHANGED <<open, limit, targets, lost>>,
         process' \in [Pids -> {"running", "suspended", "dead"}],
         alone' \subseteq alone \cup {t},
         t \in alone' => OnCourse(targets, limit, j)
  PROVE  Typed'
  BY Changing DEF Typed, TypeOK

\* A command ends confirmed only from its comparison.
LEMMA EndCourse ==
  ASSUME Typed, Inductive, NEW t \in Threads, NEW r \in Results, End(t, r),
         r # "confirmed" \/ job[t].at = "compare",
         job[t].at \in {"find", "set", "signal", "realize", "read", "verify", "compare"},
         UNCHANGED <<system, targets, lost, alone>>
  PROVE  Typed'
  <1> DEFINE j == [job[t] EXCEPT !.at = "done", !.target = Nothing, !.left = {},
                                 !.realized = Nothing, !.result = r]
  <1>1. /\ TypeOK /\ job[t] \in JobType
        /\ t \in alone => OnCourse(targets, limit, job[t])
    BY DEF Typed, TypeOK, CourseOK
  <1>2. j \in JobType
    <2> DEFINE a == [job[t] EXCEPT !.at = "done"]
               b == [a EXCEPT !.target = Nothing]
               c == [b EXCEPT !.left = {}]
               d == [c EXCEPT !.realized = Nothing]
    <2>1. a \in JobType
      BY <1>1, JobFields DEF Labels
    <2>2. b \in JobType
      BY <2>1, JobFields
    <2>3. c \in JobType
      BY <2>2, JobFields
    <2>4. d \in JobType
      BY <2>3, JobFields
    <2>5. [d EXCEPT !.result = r] \in JobType
      BY <2>4, JobFields
    <2> QED BY <2>5
  <1>3. j.at = "done" /\ j.result = r /\ j.command = job[t].command
    BY <1>1 DEF JobType
  <1>4. Become(t, j)
    BY DEF End
  <1> HIDE DEF j
  <1>5. Course(j)
    BY <1>3 DEF Course, Inductive, ShapeOK, JobShape
  <1>6. t \in alone => OnCourse(targets, limit, j)
    BY <1>1, <1>3 DEF OnCourse, Confirmed
  <1> QED BY <1>1, <1>2, <1>4, <1>5, <1>6, QuietCourse DEF TypeOK, system

\* A job on which no promise rests: it is at none of the labels of one.
LEMMA NoPromise ==
  ASSUME NEW j, NEW records, NEW limits,
         j.at \in {"idle", "assign", "record", "close", "release", "find", "signal"}
  PROVE  OnCourse(records, limits, j)
  BY DEF OnCourse, Confirmed

\* The command steps that leave limits alone.
LEMMA CommandCourse ==
  ASSUME Typed, Inductive, NEW t \in Threads,
         \/ Call(t) \/ FindTarget(t) \/ SetFails(t) \/ Signal(t)
         \/ LookUp(t) \/ QueryFails(t) \/ Realize(t) \/ Verify(t)
  PROVE  Typed'
  <1>1. /\ TypeOK /\ job[t] \in JobType /\ JobShape(job[t]) /\ Course(job[t])
        /\ t \in alone => OnCourse(targets, limit, job[t])
    BY DEF Typed, TypeOK, CourseOK, Inductive, ShapeOK
  <1>2. \A c \in Commands : /\ c.domain \in Domains /\ c.action \in Actions
                            /\ DOMAIN c.args \subseteq Fields
    BY CommandsAssumption DEF IsCommand
  <1>3. CASE Call(t)
    <2>1. PICK c \in Commands : Become(t, [NoJob EXCEPT !.at = "find", !.command = c])
      BY <1>3 DEF Call
    <2> DEFINE j == [NoJob EXCEPT !.at = "find", !.command = c]
    <2>2. j \in JobType /\ j.at = "find"
      BY NewJobsFit DEF NoJob
    <2>3. /\ Become(t, j) /\ alone' = alone \cup {t}
          /\ UNCHANGED <<open, limit, process, targets, lost>>
      BY <1>3, <2>1 DEF Call, system
    <2> HIDE DEF j
    <2>4. Course(j)
      BY <2>2 DEF Course
    <2> QED BY <1>1, <2>2, <2>3, <2>4, NoPromise, QuietCourse DEF TypeOK
  <1>4. CASE FindTarget(t)
    <2> DEFINE c == Command(t)
               g == targets[c.domain]
               j == [job[t] EXCEPT !.at = FirstLabel(c), !.target = g,
                                   !.left = DOMAIN c.args]
    <2>1. /\ UNCHANGED <<system, targets, lost, alone>>
          /\ job[t].command = c /\ c \in Commands /\ job[t].at = "find"
      BY <1>1, <1>4 DEF FindTarget, JobShape, Command
    <2>2. CASE End(t, "failed")
      BY <2>1, <2>2, EndCourse DEF Results
    <2>3. CASE /\ g # Nothing /\ Become(t, j)
               /\ ~(c.action = "set_resource_budget" /\ DOMAIN c.args = {})
      <3>1. /\ FirstLabel(c) \in {"signal", "realize", "set"}
            /\ FirstLabel(c) = "signal" => c.action \in {"pause", "resume"}
            /\ FirstLabel(c) = "realize" => c.action # "set_resource_budget"
            /\ FirstLabel(c) = "set" => DOMAIN c.args # {}
        BY <1>2, <2>1, <2>3 DEF FirstLabel, Actions
      <3>2. g \in TargetType /\ DOMAIN c.args \in SUBSET Fields
        BY <1>1, <1>2, <2>1, <2>3 DEF TypeOK
      <3> HIDE DEF c, g
      <3>3. j \in JobType
        <4> DEFINE a == [job[t] EXCEPT !.at = FirstLabel(c)]
                   b == [a EXCEPT !.target = g]
        <4>1. a \in JobType
          BY <1>1, <3>1, JobFields DEF Labels
        <4>2. b \in JobType
          BY <3>2, <4>1, JobFields
        <4>3. [b EXCEPT !.left = DOMAIN c.args] \in JobType
          BY <3>2, <4>2, JobFields
        <4> QED BY <4>3
      <3>4. /\ j.at = FirstLabel(c) /\ j.target = g /\ j.left = DOMAIN c.args
            /\ j.command = c
        BY <1>1, <2>1 DEF JobType
      <3> HIDE DEF j
      <3>5. Course(j)
        BY <3>1, <3>4 DEF Course
      <3>6. OnCourse(targets, limit, j)
        BY <3>1, <3>4 DEF g, OnCourse, Met, Confirmed
      <3> QED BY <1>1, <2>1, <2>3, <3>3, <3>5, <3>6, QuietCourse DEF TypeOK, system
    <2> QED BY <1>4, <2>2, <2>3 DEF FindTarget
  <1>5. CASE SetFails(t)
    BY <1>5, EndCourse DEF SetFails, Results
  <1>6. CASE Signal(t)
    <2> DEFINE j == [job[t] EXCEPT !.at = "realize"]
    <2>1. /\ job[t].at = "signal" /\ UNCHANGED <<open, limit, targets, lost, alone>>
          /\ Target(t) \in TargetType
      BY <1>1, <1>6 DEF Signal, JobShape, Target
    <2>2. CASE End(t, "failed") /\ UNCHANGED process
      BY <2>1, <2>2, EndCourse DEF Results, system
    <2>3. CASE Become(t, j) /\ process' = [process EXCEPT ![Target(t).pid] =
                 IF Command(t).action = "pause" THEN "suspended" ELSE "running"]
      <3>1. process' \in [Pids -> {"running", "suspended", "dead"}]
        BY <1>1, <2>1, <2>3 DEF TypeOK, TargetType
      <3>2. j \in JobType
        BY <1>1, JobFields DEF Labels
      <3>3. j.at = "realize" /\ j.command = job[t].command
        BY <1>1 DEF JobType
      <3> HIDE DEF j
      <3>4. Course(j)
        BY <3>3 DEF Course
      <3>5. OnCourse(targets, limit, j)
        BY <1>1, <2>1, <3>3 DEF Course, OnCourse
      <3> QED BY <2>1, <2>3, <3>1, <3>2, <3>4, <3>5, QuietCourse
    <2> QED BY <1>6, <2>2, <2>3 DEF Signal, Goto
  <1>7. CASE LookUp(t)
    <2> DEFINE now == targets[Command(t).domain]
               at == IF job[t].at = "verify" THEN "compare" ELSE "read"
               j == [job[t] EXCEPT !.target = now, !.at = at]
    <2>1. /\ UNCHANGED <<system, targets, lost, alone>>
          /\ job[t].at \in {"realize", "verify"} /\ job[t].command \in Commands
          /\ Command(t) = job[t].command
      BY <1>1, <1>7 DEF LookUp, JobShape, Command
    <2>2. CASE \E r \in Results : r # "confirmed" /\ End(t, r)
      BY <2>1, <2>2, EndCourse
    <2>3. CASE now # Nothing /\ Become(t, j)
      <3>1. now \in TargetType
        BY <1>1, <1>2, <2>1, <2>3 DEF TypeOK
      <3>2. at \in {"compare", "read"}
        OBVIOUS
      <3> HIDE DEF now, at
      <3>3. j \in JobType
        <4> DEFINE a == [job[t] EXCEPT !.target = now]
        <4>1. a \in JobType
          BY <1>1, <3>1, JobFields
        <4>2. [a EXCEPT !.at = at] \in JobType
          BY <3>2, <4>1, JobFields DEF Labels
        <4> QED BY <4>2
      <3>4. j.at = at /\ j.command = job[t].command
        BY <1>1 DEF JobType
      <3> HIDE DEF j
      <3>5. Course(j)
        BY <3>2, <3>4 DEF Course
      <3>6. t \in alone => OnCourse(targets, limit, j)
        BY <1>1, <2>1, <2>3, <3>2, <3>4 DEF now, OnCourse, Confirmed
      <3> QED BY <1>1, <2>1, <2>3, <3>3, <3>5, <3>6, QuietCourse DEF TypeOK, system
    <2> QED BY <1>7, <2>2, <2>3 DEF LookUp, Results
  <1>8. CASE QueryFails(t)
    <2>1. PICK r \in Results : End(t, r) /\ r # "confirmed"
      BY <1>8 DEF QueryFails, Results
    <2> QED BY <1>8, <2>1, EndCourse DEF QueryFails
  <1>9. CASE Realize(t)
    <2> DEFINE view == View(Target(t))
               j == [job[t] EXCEPT !.at = "verify", !.target = Nothing,
                                   !.realized = view]
    <2>1. /\ UNCHANGED <<system, targets, lost, alone>>
          /\ job[t].at = "read" /\ Become(t, j)
          /\ Target(t) \in TargetType /\ open[Target(t).handle] # Nothing
      BY <1>1, <1>9 DEF Realize, JobShape, Target, Opened
    <2>2. view \in ViewType
      BY <1>1, <2>1, ViewFits
    <2> HIDE DEF view
    <2>3. j \in JobType
      <3> DEFINE a == [job[t] EXCEPT !.at = "verify"]
                 b == [a EXCEPT !.target = Nothing]
      <3>1. a \in JobType
        BY <1>1, JobFields DEF Labels
      <3>2. b \in JobType
        BY <3>1, JobFields
      <3>3. [b EXCEPT !.realized = view] \in JobType
        BY <2>2, <3>2, JobFields
      <3> QED BY <3>3
    <2>4. j.at = "verify" /\ j.command = job[t].command
      BY <1>1 DEF JobType
    <2> HIDE DEF j
    <2>5. Course(j)
      BY <2>4 DEF Course
    <2>6. t \in alone => OnCourse(targets, limit, j)
      BY <1>1, <2>1, <2>4 DEF OnCourse, Confirmed
    <2> QED BY <1>1, <2>1, <2>3, <2>5, <2>6, QuietCourse DEF TypeOK, system
  <1>10. CASE Verify(t)
    <2>1. Outcome(t) \in Results
      BY DEF Outcome, Results
    <2> QED BY <1>10, <2>1, EndCourse DEF Verify
  <1> QED BY <1>3, <1>4, <1>5, <1>6, <1>7, <1>8, <1>9, <1>10

\* A new limit is one the system keeps, and meets what the budget asked for; who
\* has a command for the domain it was set for is disturbed.
LEMMA SetCourse ==
  ASSUME Typed, Inductive, NEW t \in Threads, SetLimit(t)
  PROVE  Typed'
  <1> DEFINE c == Command(t)
             f == Following(t)
             e == Opened(t)
             v == Stored(f, c.args[f])
             at == IF job[t].left = {f} THEN "realize" ELSE "set"
             left == job[t].left \ {f}
             j == [job[t] EXCEPT !.at = at, !.left = left]
  <1>1. /\ TypeOK /\ job[t] \in JobType /\ JobShape(job[t]) /\ Course(job[t])
        /\ t \in alone => OnCourse(targets, limit, job[t])
        /\ job[t].at = "set" /\ job[t].command = c /\ c \in Commands
        /\ Target(t) = job[t].target /\ Target(t) \in TargetType
    BY DEF SetLimit, Typed, TypeOK, CourseOK, Inductive, ShapeOK, JobShape, Command, Target
  <1>2. /\ job[t].left \subseteq Fields /\ job[t].left # {}
        /\ job[t].left \subseteq DOMAIN c.args
    BY <1>1 DEF JobType, Course
  <1>3. f \in job[t].left /\ f \in Fields /\ f \in DOMAIN c.args
    BY <1>2, FollowingIsLeft
  <1>4. c.args[f] \in Nat \cup {Malformed} /\ c.domain \in Domains
    BY <1>1, <1>3, CommandsAssumption DEF IsCommand
  <1>5. e \in Domains /\ Accepted(f, c.args[f])
    BY <1>1 DEF SetLimit, Settable, Opened, TypeOK, TargetType
  <1>6. v \in Nat /\ Keepable(f, v) /\ Meets(f, v, c.args[f])
    BY <1>3, <1>4, <1>5, StoredFits
  <1>7. /\ limit' = [limit EXCEPT ![e][f] = v]
        /\ UNCHANGED <<open, process, targets, lost>>
        /\ alone' = {u \in alone : u = t \/ job[u].command = Nothing
                                          \/ job[u].command.domain # e}
    BY DEF SetLimit, Disturb
  <1>8. Become(t, j)
    <2>1. j = [job[t] EXCEPT
                 !.at = IF job[t].left = {Following(t)} THEN "realize" ELSE "set",
                 !.left = @ \ {Following(t)}]
      BY <1>1 DEF JobType
    <2> QED BY <2>1 DEF SetLimit, Advance
  <1>9. at \in {"realize", "set"} /\ (at = "realize" <=> left = {})
    BY <1>3
  <1>10. left \in SUBSET Fields /\ left \subseteq DOMAIN c.args
    BY <1>2
  <1>11. DOMAIN c.args \ left = (DOMAIN c.args \ job[t].left) \cup {f}
    BY <1>3
  <1> HIDE DEF at, left, v, e, f, c
  <1>12. j \in JobType
    <2> DEFINE a == [job[t] EXCEPT !.at = at]
    <2>1. a \in JobType
      BY <1>1, <1>9, JobFields DEF Labels
    <2>2. [a EXCEPT !.left = left] \in JobType
      BY <1>10, <2>1, JobFields
    <2> QED BY <2>2
  <1>13. /\ j.at = at /\ j.left = left /\ j.command = c
         /\ j.target = job[t].target
    BY <1>1 DEF JobType
  <1> HIDE DEF j
  <1>14. Course(j)
    BY <1>9, <1>10, <1>13 DEF Course
  <1>15. /\ limit' \in [Domains -> LimitsType]
         /\ limit'[e][f] = v
         /\ \A d \in Domains \ {e} : limit'[d] = limit[d]
         /\ \A g \in Fields \ {f} : limit'[e][g] = limit[e][g]
    <2>1. limit[e] \in [Fields -> Nat \cup {Nothing}]
      BY <1>1, <1>5 DEF TypeOK, LimitsType
    <2>2. limit' = [limit EXCEPT ![e] = [limit[e] EXCEPT ![f] = v]]
      BY <1>7
    <2>3. [limit[e] EXCEPT ![f] = v] \in LimitsType
      BY <1>6, <2>1 DEF LimitsType
    <2> QED BY <1>1, <1>3, <1>5, <2>1, <2>2, <2>3 DEF TypeOK
  <1>16. \A d \in Domains, g \in Fields :
           limit'[d][g] # Nothing => Keepable(g, limit'[d][g])
    <2> SUFFICES ASSUME NEW d \in Domains, NEW g \in Fields, limit'[d][g] # Nothing
                 PROVE  Keepable(g, limit'[d][g])
      OBVIOUS
    <2>1. CASE d = e /\ g = f
      BY <1>6, <1>15, <2>1
    <2>2. CASE ~(d = e /\ g = f)
      BY <1>1, <1>15, <2>2 DEF TypeOK
    <2> QED BY <2>1, <2>2
  <1>17. t \in alone' => OnCourse(targets', limit', j)
    <2> SUFFICES ASSUME t \in alone, c.action = "set_resource_budget",
                        targets[c.domain] # Nothing
                 PROVE  targets[c.domain] = j.target
                        /\ Met(limit', c, DOMAIN c.args \ left)
      BY <1>7, <1>9, <1>13 DEF OnCourse, Confirmed
    <2>1. /\ targets[c.domain] = job[t].target
          /\ Met(limit, c, DOMAIN c.args \ job[t].left)
      BY <1>1 DEF OnCourse
    <2>2. c.domain = e
      BY <1>1, <1>4, <2>1 DEF e, Opened, Inductive, OpenOK
    <2>3. \A g \in DOMAIN c.args : g \in Fields
      BY <1>1, CommandsAssumption DEF IsCommand
    <2>4. \A g \in DOMAIN c.args \ left : Meets(g, limit'[c.domain][g], c.args[g])
      <3> SUFFICES ASSUME NEW g \in DOMAIN c.args \ left
                   PROVE  Meets(g, limit'[c.domain][g], c.args[g])
        OBVIOUS
      <3>1. CASE g = f
        BY <1>6, <1>15, <2>2, <3>1
      <3>2. CASE g # f
        BY <1>11, <1>15, <2>1, <2>2, <2>3, <3>2 DEF Met
      <3> QED BY <3>1, <3>2
    <2> QED BY <1>13, <2>1, <2>4 DEF Met
  <1>18. \A u \in alone' \ {t} : job[u].command \in Commands =>
           LET d == job[u].command.domain
           IN  limit'[d] = limit[d] /\ targets'[d] \in {targets[d], Nothing}
    <2> SUFFICES ASSUME NEW u \in alone' \ {t}, job[u].command \in Commands
                 PROVE  LET d == job[u].command.domain
                        IN  limit'[d] = limit[d] /\ targets'[d] \in {targets[d], Nothing}
      OBVIOUS
    <2>1. job[u].command.domain \in Domains \ {e}
      BY <1>7, CommandsAssumption, AbsentAssumption DEF IsCommand
    <2> QED BY <1>7, <1>15, <2>1
  <1>19. /\ open' \in [Handles -> Domains \cup {Nothing}]
         /\ process' \in [Pids -> {"running", "suspended", "dead"}]
         /\ targets' \in [Domains -> TargetType \cup {Nothing}]
         /\ lost' \subseteq Handles /\ alone' \subseteq alone \cup {t}
    BY <1>1, <1>7 DEF TypeOK
  <1> QED BY <1>8, <1>12, <1>14, <1>15, <1>16, <1>17, <1>18, <1>19, Changing

\* Registration and unregistration: a record appears or is replaced only under the
\* commands of those it disturbs, and an object loses its limits only when nobody
\* has it open.
LEMMA RegistrationCourse ==
  ASSUME Typed, Inductive, NEW t \in Threads,
         \/ \E d \in Domains, p \in Pids : CreateJob(t, d, p)
         \/ Unregister(t) \/ Assign(t) \/ AssignFails(t) \/ Record(t) \/ Pop(t)
         \/ Release(t) \/ Closed(t)
  PROVE  Typed'
  <1>1. /\ TypeOK /\ job[t] \in JobType /\ JobShape(job[t])
        /\ \A u \in alone : job[u].command \in Commands =>
             job[u].command # Nothing /\ job[u].command.domain \in Domains
    BY CommandsAssumption, AbsentAssumption
       DEF Typed, TypeOK, Inductive, ShapeOK, IsCommand
  <1>2. /\ NoJob \in JobType /\ NoJob.at = "idle"
        /\ Course(NoJob) /\ OnCourse(targets', limit', NoJob)
    <2>1. NoJob \in JobType /\ NoJob.at = "idle"
      BY NewJobsFit DEF NoJob
    <2> QED BY <2>1, NoPromise DEF Course
  <1>3. CASE \E d \in Domains, p \in Pids : CreateJob(t, d, p)
    <2>1. PICK d \in Domains, p \in Pids : CreateJob(t, d, p)
      BY <1>3
    <2>2. PICK h \in Handles :
            /\ open' = [open EXCEPT ![h] = d]
            /\ Become(t, [NoJob EXCEPT !.at = "assign", !.domain = d,
                                       !.target = [pid |-> p, handle |-> h]])
      BY <2>1 DEF CreateJob
    <2> DEFINE g == [pid |-> p, handle |-> h]
               j == [NoJob EXCEPT !.at = "assign", !.domain = d, !.target = g]
    <2>3. Become(t, j) /\ g \in TargetType
      BY <2>2 DEF TargetType
    <2> HIDE DEF g
    <2>4. j \in JobType /\ j.at = "assign"
      BY <2>3, NewJobsFit DEF NoJob
    <2> HIDE DEF j
    <2>5. Course(j) /\ OnCourse(targets', limit', j)
      BY <2>4, NoPromise DEF Course
    <2>6. /\ UNCHANGED <<process, targets, lost>>
          /\ alone' = {u \in alone : u = t \/ job[u].command = Nothing
                                            \/ job[u].command.domain # d}
          /\ limit' = limit \/ limit' = [limit EXCEPT ![d] = NoLimits]
      BY <2>1 DEF CreateJob, Disturb
    <2>7. NoLimits \in LimitsType /\ \A f \in Fields : NoLimits[f] = Nothing
      BY DEF NoLimits, LimitsType
    <2>8. /\ limit' \in [Domains -> LimitsType]
          /\ \A e \in Domains \ {d} : limit'[e] = limit[e]
          /\ \A e \in Domains, f \in Fields :
               limit'[e][f] # Nothing => Keepable(f, limit'[e][f])
      <3>1. CASE limit' = limit
        BY <1>1, <3>1 DEF TypeOK
      <3>2. CASE limit' = [limit EXCEPT ![d] = NoLimits]
        <4>1. /\ limit' \in [Domains -> LimitsType] /\ limit'[d] = NoLimits
              /\ \A e \in Domains \ {d} : limit'[e] = limit[e]
          BY <1>1, <2>7, <3>2 DEF TypeOK
        <4> QED BY <1>1, <2>7, <4>1 DEF TypeOK
      <3> QED BY <2>6, <3>1, <3>2
    <2>9. \A u \in alone' \ {t} : job[u].command \in Commands =>
            LET e == job[u].command.domain
            IN  limit'[e] = limit[e] /\ targets'[e] \in {targets[e], Nothing}
      BY <1>1, <2>6, <2>8
    <2>10. /\ open' \in [Handles -> Domains \cup {Nothing}]
           /\ process' \in [Pids -> {"running", "suspended", "dead"}]
           /\ targets' \in [Domains -> TargetType \cup {Nothing}]
           /\ lost' \subseteq Handles /\ alone' \subseteq alone \cup {t}
      BY <1>1, <2>2, <2>6 DEF TypeOK
    <2> QED BY <2>3, <2>4, <2>5, <2>8, <2>9, <2>10, Changing
  <1>4. CASE Unregister(t)
    <2>1. PICK domains \in SUBSET Domains :
            Become(t, [NoJob EXCEPT !.at = "close", !.rest = domains])
      BY <1>4 DEF Unregister
    <2> DEFINE j == [NoJob EXCEPT !.at = "close", !.rest = domains]
    <2>2. Become(t, j) /\ j \in JobType /\ j.at = "close"
      BY <2>1, NewJobsFit DEF NoJob
    <2> HIDE DEF j
    <2>3. Course(j) /\ OnCourse(targets, limit, j)
      BY <2>2, NoPromise DEF Course
    <2> QED BY <1>1, <1>4, <2>2, <2>3, QuietCourse DEF Unregister, system, TypeOK
  <1>5. CASE Assign(t)
    <2> DEFINE j == [job[t] EXCEPT !.at = "record"]
    <2>1. j \in JobType
      BY <1>1, JobFields DEF Labels
    <2>2. j.at = "record" /\ Become(t, j)
      BY <1>1, <1>5 DEF JobType, Assign, Goto
    <2> HIDE DEF j
    <2>3. Course(j) /\ OnCourse(targets, limit, j)
      BY <2>2, NoPromise DEF Course
    <2> QED BY <1>1, <1>5, <2>1, <2>2, <2>3, QuietCourse DEF Assign, system, TypeOK
  <1>6. CASE AssignFails(t)
    <2>1. /\ Become(t, NoJob) /\ UNCHANGED <<limit, process, targets, lost, alone>>
          /\ open' = [open EXCEPT ![job[t].target.handle] = Nothing]
      BY <1>6 DEF AssignFails
    <2>2. open' \in [Handles -> Domains \cup {Nothing}]
      BY <1>1, <2>1 DEF TypeOK
    <2> QED BY <1>1, <1>2, <2>1, <2>2, Changing DEF TypeOK
  <1>7. CASE Record(t)
    <2> DEFINE d == job[t].domain
    <2>1. /\ Become(t, NoJob) /\ UNCHANGED system
          /\ targets' = [targets EXCEPT ![d] = job[t].target]
          /\ lost' = IF targets[d] = Nothing THEN lost
                     ELSE lost \cup {targets[d].handle}
          /\ alone' = {u \in alone : u = t \/ job[u].command = Nothing
                                            \/ job[u].command.domain # d}
          /\ d \in Domains /\ job[t].target \in TargetType
      BY <1>1, <1>7 DEF Record, Disturb, JobShape
    <2> HIDE DEF d
    <2>2. /\ targets' \in [Domains -> TargetType \cup {Nothing}]
          /\ \A e \in Domains \ {d} : targets'[e] = targets[e]
      BY <1>1, <2>1 DEF TypeOK
    <2>3. lost' \subseteq Handles
      BY <1>1, <2>1 DEF TypeOK, TargetType
    <2>4. \A u \in alone' \ {t} : job[u].command \in Commands =>
            LET e == job[u].command.domain
            IN  limit'[e] = limit[e] /\ targets'[e] \in {targets[e], Nothing}
      BY <1>1, <2>1, <2>2 DEF system
    <2> QED BY <1>1, <1>2, <2>1, <2>2, <2>3, <2>4, Changing DEF TypeOK, system
  <1>8. CASE Pop(t)
    <2>1. PICK d \in job[t].rest :
            /\ targets' = [targets EXCEPT ![d] = Nothing]
            /\ Become(t, [job[t] EXCEPT
                 !.at = IF targets[d] = Nothing THEN "close" ELSE "release",
                 !.rest = @ \ {d}, !.target = targets[d]])
      BY <1>8 DEF Pop
    <2> DEFINE at == IF targets[d] = Nothing THEN "close" ELSE "release"
               rest == job[t].rest \ {d}
               old == targets[d]
               j == [job[t] EXCEPT !.at = at, !.rest = rest, !.target = old]
    <2>2. /\ d \in Domains /\ rest \in SUBSET Domains /\ old \in TargetType \cup {Nothing}
          /\ at \in {"close", "release"}
      BY <1>1 DEF JobType, TypeOK
    <2>3. Become(t, j)
      <3>1. j = [job[t] EXCEPT
                   !.at = IF targets[d] = Nothing THEN "close" ELSE "release",
                   !.rest = @ \ {d}, !.target = targets[d]]
        BY <1>1 DEF JobType
      <3> QED BY <2>1, <3>1
    <2> HIDE DEF at, rest, old
    <2>4. j \in JobType /\ j.at = at
      <3> DEFINE a == [job[t] EXCEPT !.at = at]
                 b == [a EXCEPT !.rest = rest]
      <3>1. a \in JobType
        BY <1>1, <2>2, JobFields DEF Labels
      <3>2. b \in JobType
        BY <2>2, <3>1, JobFields
      <3>3. [b EXCEPT !.target = old] \in JobType
        BY <2>2, <3>2, JobFields
      <3>4. j \in JobType
        BY <3>3
      <3> QED BY <1>1, <3>4 DEF JobType
    <2> HIDE DEF j
    <2>5. Course(j) /\ OnCourse(targets', limit', j)
      BY <2>2, <2>4, NoPromise DEF Course
    <2>6. /\ targets' \in [Domains -> TargetType \cup {Nothing}]
          /\ \A e \in Domains : targets'[e] \in {targets[e], Nothing}
      BY <1>1, <2>1, <2>2 DEF TypeOK
    <2>7. UNCHANGED <<open, limit, process, lost, alone>>
      BY <1>8 DEF Pop, system
    <2>8. \A u \in alone' \ {t} : job[u].command \in Commands =>
            LET e == job[u].command.domain
            IN  limit'[e] = limit[e] /\ targets'[e] \in {targets[e], Nothing}
      BY <1>1, <2>6, <2>7
    <2> QED BY <1>1, <2>3, <2>4, <2>5, <2>6, <2>7, <2>8, Changing DEF TypeOK
  <1>9. CASE Release(t)
    <2> DEFINE j == [job[t] EXCEPT !.at = "close", !.target = Nothing]
    <2>1. /\ Become(t, j) /\ UNCHANGED <<limit, process, targets, lost, alone>>
          /\ open' = [open EXCEPT ![job[t].target.handle] = Nothing]
      BY <1>9 DEF Release
    <2>2. open' \in [Handles -> Domains \cup {Nothing}]
      BY <1>1, <2>1 DEF TypeOK
    <2>3. j \in JobType
      <3>1. [job[t] EXCEPT !.at = "close"] \in JobType
        BY <1>1, JobFields DEF Labels
      <3>2. [[job[t] EXCEPT !.at = "close"] EXCEPT !.target = Nothing] \in JobType
        BY <3>1, JobFields
      <3> QED BY <3>2
    <2>4. j.at = "close"
      BY <1>1 DEF JobType
    <2> HIDE DEF j
    <2>5. Course(j) /\ OnCourse(targets', limit', j)
      BY <2>4, NoPromise DEF Course
    <2> QED BY <1>1, <2>1, <2>2, <2>3, <2>5, Changing DEF TypeOK
  <1>10. CASE Closed(t)
    <2>1. OnCourse(targets, limit, NoJob)
      BY <1>2, NoPromise
    <2> QED BY <1>1, <1>2, <1>10, <2>1, QuietCourse DEF Closed, system, TypeOK
  <1> QED BY <1>3, <1>4, <1>5, <1>6, <1>7, <1>8, <1>9, <1>10

\* What the processes do disturbs neither records nor limits.
LEMMA StillCourse ==
  ASSUME Typed, UNCHANGED <<open, limit, targets, job, lost, alone>>,
         process' \in [Pids -> {"running", "suspended", "dead"}]
  PROVE  Typed'
  <1>1. TypeOK'
    BY DEF Typed, TypeOK
  <1>2. \A t \in Threads : Course(job[t])'
    BY DEF Typed, CourseOK, Course
  <1>3. \A t \in alone : OnCourse(targets, limit, job[t])'
    BY DEF Typed, CourseOK, OnCourse
  <1> QED BY <1>1, <1>2, <1>3 DEF Typed, CourseOK

\* Nothing is set and no command runs at the start.
LEMMA InitTyped == Init => Typed
  <1> SUFFICES ASSUME Init PROVE Typed
    OBVIOUS
  <1>1. NoLimits \in LimitsType /\ \A f \in Fields : NoLimits[f] = Nothing
    BY DEF NoLimits, LimitsType
  <1>2. NoJob \in JobType /\ NoJob.at = "idle"
    BY NewJobsFit DEF NoJob
  <1>3. TypeOK
    BY <1>1, <1>2 DEF Init, TypeOK
  <1>4. CourseOK
    BY <1>2 DEF Init, CourseOK, Course
  <1> QED BY <1>3, <1>4 DEF Typed

\* Every step keeps types and courses, by the lemma for its kind.
LEMMA NextTyped == Typed /\ Inductive /\ [Next]_vars => Typed'
  <1> SUFFICES ASSUME Typed, Inductive, [Next]_vars PROVE Typed'
    OBVIOUS
  <1>1. CASE \E t \in Threads : Begin(t) \/ Continue(t)
    <2>1. PICK t \in Threads : Begin(t) \/ Continue(t)
      BY <1>1
    <2>2. CASE \/ Call(t) \/ FindTarget(t) \/ SetFails(t) \/ Signal(t)
              \/ LookUp(t) \/ QueryFails(t) \/ Realize(t) \/ Verify(t)
      BY <2>2, CommandCourse
    <2>3. CASE SetLimit(t)
      BY <2>3, SetCourse
    <2>4. CASE \/ \E d \in Domains, p \in Pids : CreateJob(t, d, p)
              \/ Unregister(t) \/ Assign(t) \/ AssignFails(t) \/ Record(t) \/ Pop(t)
              \/ Release(t) \/ Closed(t)
      BY <2>4, RegistrationCourse
    <2> QED BY <2>1, <2>2, <2>3, <2>4 DEF Begin, Continue
  <1>2. CASE \E p \in Pids : Exit(p) \/ Reuse(p)
    <2>1. /\ UNCHANGED <<open, limit, targets, job, lost, alone>>
          /\ process' \in [Pids -> {"running", "suspended", "dead"}]
      BY <1>2 DEF Exit, Reuse, Typed, TypeOK
    <2> QED BY <2>1, StillCourse
  <1>3. CASE UNCHANGED vars
    <2>1. /\ UNCHANGED <<open, limit, targets, job, lost, alone>>
          /\ process' \in [Pids -> {"running", "suspended", "dead"}]
      BY <1>3 DEF vars, Typed, TypeOK
    <2> QED BY <2>1, StillCourse
  <1> QED BY <1>1, <1>2, <1>3 DEF Next

\* Types and courses hold throughout, beside the invariant above.
LEMMA AlwaysTyped == Spec => []Typed
  BY InitInductive, NextInductive, InitTyped, NextTyped, PTL DEF Spec

\* Every variable holds what the code and the system can put there, and rounding takes
\* no share of the CPU out of its bounds, for any commands, threads, domains and units.
THEOREM TypeCorrect == Spec => []TypeOK
  <1>1. Typed => TypeOK
    BY DEF Typed
  <1> QED BY <1>1, AlwaysTyped, PTL

\* A confirmed budget is in force with every limit it named, to half a unit of the
\* share of the CPU and to the whole bytes of an amount of memory that a c_size_t holds,
\* unless its domain was set or registered anew by another thread.
THEOREM BudgetsHold == Spec => []BudgetHolds
  <1>1. Typed => BudgetHolds
    <2> SUFFICES ASSUME Typed, NEW t \in alone, job[t].at = "done",
                        job[t].result = "confirmed",
                        Command(t).action = "set_resource_budget",
                        NEW f \in DOMAIN Command(t).args
                 PROVE  Meets(f, limit[Command(t).domain][f], Command(t).args[f])
      BY DEF BudgetHolds
    <2>1. OnCourse(targets, limit, job[t]) /\ Confirmed(job[t])
      BY DEF Typed, CourseOK, Confirmed
    <2>2. Command(t) \in Commands
      BY DEF Typed, CourseOK, Course, TypeOK, Command
    <2> QED BY <2>1, <2>2 DEF OnCourse, Met, Command
  <1> QED BY <1>1, AlwaysTyped, PTL

-----------------------------------------------------------------------------
(* The provider implements Custody.                                        *)

\* Whoever keeps a handle is all that keeps it.
Custodians ==
  \A h \in Handles :
    /\ open[h] = Nothing => Keepers(h) = {}
    /\ \A d \in Records(h) : Keepers(h) = {<<"record", d>>}
    /\ \A t \in Holders(h) : Keepers(h) = {<<"thread", t>>}
    /\ h \in lost => Keepers(h) = {<<"nobody", h>>}

\* The provider's invariant leaves a handle one keeper at most.
LEMMA InductiveKeeps == Inductive => Custodians
  <1> SUFFICES ASSUME Inductive, NEW h \in Handles
               PROVE  /\ open[h] = Nothing => Keepers(h) = {}
                      /\ \A d \in Records(h) : Keepers(h) = {<<"record", d>>}
                      /\ \A t \in Holders(h) : Keepers(h) = {<<"thread", t>>}
                      /\ h \in lost => Keepers(h) = {<<"nobody", h>>}
    BY DEF Custodians
  <1>1. IF open[h] = Nothing THEN Keepers(h) = {}
        ELSE \E k \in Keepers(h) : Keepers(h) = {k}
    BY InductiveAccounts DEF HandlesAccounted
  <1>2. /\ \A d \in Records(h) : <<"record", d>> \in Keepers(h)
        /\ \A t \in Holders(h) : <<"thread", t>> \in Keepers(h)
        /\ h \in lost => <<"nobody", h>> \in Keepers(h)
    BY DEF Keepers
  <1> QED BY <1>1, <1>2

\* Nobody keeps a handle without a part in it.
LEMMA EmptyHands ==
  ASSUME NEW t \in Threads, ~Holds(t)
  PROVE  \A h \in Handles : <<"thread", t>> \notin Keepers(h)
  BY DEF Keepers, Holders, Holds

\* A domain without a record keeps no handle.
LEMMA NoRecord ==
  ASSUME NEW d \in Domains, targets[d] = Nothing
  PROVE  \A h \in Handles : <<"record", d>> \notin Keepers(h)
  BY DEF Keepers, Records

\* A handle stays with its keeper if records, holders and what is lost stay.
LEMMA Unmoved ==
  ASSUME NEW h \in Handles,
         \A d \in Domains : d \in Records(h)' <=> d \in Records(h),
         \A t \in Threads : t \in Holders(h)' <=> t \in Holders(h),
         h \in lost' <=> h \in lost
  PROVE  Keepers(h)' = Keepers(h)
  <1>1. Records(h)' = Records(h) /\ Holders(h)' = Holders(h)
    BY DEF Records, Holders
  <1>2. lost' \cap {h} = lost \cap {h}
    OBVIOUS
  <1> QED BY <1>1, <1>2 DEF Keepers

\* One handle passes from hand to hand.
LEMMA Passing ==
  ASSUME NEW h \in Handles, NEW keepers, Keepers(h)' = keepers,
         \A g \in Handles \ {h} : Keepers(g)' = Keepers(g)
  PROVE  [g \in Handles |-> Keepers(g)]' = [[g \in Handles |-> Keepers(g)] EXCEPT ![h] = keepers]
  OBVIOUS

\* Whoever has it next is not who had it.
LEMMA Moving ==
  ASSUME NEW h \in Handles, Keepers(h)' # Keepers(h)
  PROVE  Ledger!Moves(h)
  BY DEF Ledger!Moves

\* A step of a command, or one that touches neither handles nor records, is no
\* business of the ledger.
LEMMA QuietLedger ==
  ASSUME UNCHANGED <<open, targets, lost>>,
         \A u \in Threads :
           /\ Holds(u)' <=> Holds(u)
           /\ Holds(u) => job'[u].target = job[u].target
  PROVE  UNCHANGED Ledger!vars
  <1>1. \A h \in Handles : Keepers(h)' = Keepers(h)
    <2> TAKE h \in Handles
    <2>1. \A d \in Domains : d \in Records(h)' <=> d \in Records(h)
      BY DEF Records
    <2>2. \A t \in Threads : t \in Holders(h)' <=> t \in Holders(h)
      BY DEF Holders, Holds
    <2> QED BY <2>1, <2>2, Unmoved
  <1> QED BY <1>1 DEF Ledger!vars

\* Commands, assigning and the bounds of a call pass no handle on.
LEMMA CommandsKeepLedger ==
  ASSUME Inductive, NEW t \in Threads,
         \/ Call(t) \/ FindTarget(t) \/ SetLimit(t) \/ SetFails(t) \/ Signal(t)
         \/ LookUp(t) \/ QueryFails(t) \/ Realize(t) \/ Verify(t)
         \/ Assign(t) \/ Unregister(t) \/ Closed(t)
  PROVE  UNCHANGED Ledger!vars
  <1>1. ShapeOK /\ JobShape(job[t])
    BY DEF Inductive, ShapeOK
  <1>2. UNCHANGED <<open, targets, lost>>
    BY DEF Call, FindTarget, SetLimit, SetFails, Signal, LookUp, QueryFails, Realize,
           Verify, Assign, Unregister, Closed, system
  <1>3. PICK j : /\ Become(t, j)
                 /\ j.at \in {"assign", "record", "release"} <=> Holds(t)
                 /\ Holds(t) => j.target = job[t].target
    <2>1. CASE Call(t) \/ Unregister(t) \/ Closed(t)
      BY <2>1 DEF Call, Unregister, Closed, Free, NoJob, Holds
    <2>2. CASE Assign(t)
      BY <1>1, <2>2 DEF Assign, Goto, JobShape, Holds
    <2>3. CASE SetLimit(t)
      BY <1>1, <2>3 DEF SetLimit, Advance, JobShape, Holds
    <2>4. CASE Realize(t)
      BY <1>1, <2>4 DEF Realize, JobShape, Holds
    <2>5. CASE (\E r : End(t, r)) /\ ~Holds(t)
      BY <1>1, <2>5 DEF End, JobShape
    <2>6. CASE FindTarget(t)
      <3>1. Command(t) \in Commands
        BY <1>1, <2>6 DEF FindTarget, JobShape, Command
      <3>2. FirstLabel(Command(t)) \in {"signal", "realize", "set"}
        BY <3>1, CommandsAssumption DEF FirstLabel, IsCommand, Actions
      <3>3. ~Holds(t)
        BY <2>6 DEF FindTarget, Holds
      <3>4. CASE \E r : End(t, r)
        BY <2>5, <3>3, <3>4
      <3>5. CASE Become(t, [job[t] EXCEPT
                   !.at = FirstLabel(Command(t)), !.target = targets[Command(t).domain],
                   !.left = DOMAIN Command(t).args])
        BY <1>1, <3>2, <3>3, <3>5 DEF JobShape
      <3> QED BY <2>6, <3>4, <3>5 DEF FindTarget
    <2>7. CASE Signal(t)
      BY <1>1, <2>5, <2>7 DEF Signal, Goto, JobShape, Holds
    <2>8. CASE LookUp(t)
      BY <1>1, <2>5, <2>8 DEF LookUp, JobShape, Holds
    <2>9. CASE SetFails(t) \/ QueryFails(t) \/ Verify(t)
      BY <2>5, <2>9 DEF SetFails, QueryFails, Verify, Holds
    <2> QED BY <2>1, <2>2, <2>3, <2>4, <2>6, <2>7, <2>8, <2>9
  <1>4. \A u \in Threads :
          /\ Holds(u)' <=> Holds(u)
          /\ Holds(u) => job'[u].target = job[u].target
    BY <1>1, <1>3, Becoming DEF Holds
  <1> QED BY <1>2, <1>4, QuietLedger

\* The handle that is opened is in its maker's hand alone.
LEMMA CreateMakes ==
  ASSUME Inductive, Custodians, Custodians', NEW t \in Threads, NEW d \in Domains,
         NEW p \in Pids, CreateJob(t, d, p)
  PROVE  \E h \in Handles : Ledger!Moves(h) /\ Ledger!Make(t, h)
  <1>1. PICK h \in Handles :
          /\ open[h] = Nothing
          /\ open' = [open EXCEPT ![h] = d]
          /\ Become(t, [NoJob EXCEPT !.at = "assign", !.domain = d,
                                     !.target = [pid |-> p, handle |-> h]])
    BY DEF CreateJob
  <1>2. /\ ~Holds(t) /\ UNCHANGED <<targets, lost>>
        /\ open \in [Handles -> Domains \cup {Nothing}] /\ d # Nothing
    BY AbsentAssumption DEF CreateJob, Free, Holds, Inductive, ShapeOK
  <1>3. /\ job'[t].at = "assign" /\ job'[t].target.handle = h
        /\ \A u \in Threads \ {t} : job'[u] = job[u]
    <2> DEFINE j == [NoJob EXCEPT !.at = "assign", !.domain = d,
                                  !.target = [pid |-> p, handle |-> h]]
    <2>1. j.at = "assign" /\ j.target.handle = h
      BY DEF NoJob
    <2>2. Become(t, j)
      BY <1>1
    <2> HIDE DEF j
    <2> QED BY <2>1, <2>2, Becoming DEF Inductive
  <1>4. Keepers(h)' = {<<"thread", t>>}
    <2>1. t \in Holders(h)'
      BY <1>3 DEF Holders
    <2> QED BY <2>1 DEF Custodians
  <1>5. ASSUME NEW g \in Handles \ {h}
        PROVE  Keepers(g)' = Keepers(g)
    <2>1. \A e \in Domains : e \in Records(g)' <=> e \in Records(g)
      BY <1>2 DEF Records
    <2>2. \A u \in Threads : u \in Holders(g)' <=> u \in Holders(g)
      BY <1>2, <1>3 DEF Holders, Holds
    <2> QED BY <1>2, <2>1, <2>2, Unmoved
  <1>6. [g \in Handles |-> Keepers(g)]'
          = [[g \in Handles |-> Keepers(g)] EXCEPT ![h] = {<<"thread", t>>}]
    BY <1>4, <1>5, Passing
  <1>7. {g \in Handles : open'[g] # Nothing} = {g \in Handles : open[g] # Nothing} \cup {h}
    BY <1>1, <1>2
  <1>8. \A g \in Handles : <<"thread", t>> \notin Keepers(g)
    BY <1>2, EmptyHands
  <1>9. Ledger!Moves(h)
    <2>1. Keepers(h) = {}
      BY <1>1 DEF Custodians
    <2> QED BY <1>4, <2>1, Moving
  <1> QED BY <1>1, <1>6, <1>7, <1>8, <1>9 DEF Ledger!Make, Ledger!EmptyHanded, Ledger!Hand

\* Only the thread that has a handle in hand closes it.
LEMMA ClosingDisposes ==
  ASSUME Inductive, Custodians, Custodians', NEW t \in Threads, AssignFails(t) \/ Release(t)
  PROVE  \E h \in Handles : Ledger!Moves(h) /\ Ledger!Dispose(t, h)
  <1>1. /\ Holds(t) /\ open' = [open EXCEPT ![Handle(t)] = Nothing]
        /\ UNCHANGED <<targets, lost>> /\ JobShape(job[t])
        /\ open \in [Handles -> Domains \cup {Nothing}]
    BY DEF AssignFails, Release, Holds, Handle, Inductive, ShapeOK
  <1>2. PICK h \in Handles : h = Handle(t)
    BY <1>1 DEF JobShape, TargetType, Holds, Handle
  <1>3. /\ ~Holds(t)'
        /\ \A u \in Threads \ {t} : job'[u] = job[u]
    <2>1. PICK j : Become(t, j) /\ j.at \in {"idle", "close"}
      <3>1. CASE AssignFails(t)
        BY <3>1 DEF AssignFails, NoJob
      <3>2. CASE Release(t)
        <4> DEFINE j == [job[t] EXCEPT !.at = "close", !.target = Nothing]
        <4>1. Become(t, j) /\ j.at = "close"
          BY <1>1, <3>2 DEF Release, JobShape
        <4> HIDE DEF j
        <4> QED BY <4>1
      <3> QED BY <3>1, <3>2
    <2> QED BY <2>1, Becoming DEF Holds, Inductive
  <1>4. Keepers(h) = {<<"thread", t>>}
    <2>1. t \in Holders(h)
      BY <1>1, <1>2 DEF Holders, Holds, Handle
    <2> QED BY <1>2, <2>1 DEF Custodians
  <1>5. Keepers(h)' = {}
    BY <1>1, <1>2 DEF Custodians
  <1>6. ASSUME NEW g \in Handles \ {h}
        PROVE  Keepers(g)' = Keepers(g)
    <2>1. \A e \in Domains : e \in Records(g)' <=> e \in Records(g)
      BY <1>1 DEF Records
    <2>2. t \notin Holders(g) /\ t \notin Holders(g)'
      BY <1>2, <1>3 DEF Holders, Holds, Handle
    <2>3. \A u \in Threads : u \in Holders(g)' <=> u \in Holders(g)
      BY <1>3, <2>2 DEF Holders, Holds
    <2> QED BY <1>1, <2>1, <2>3, Unmoved
  <1>7. [g \in Handles |-> Keepers(g)]' = [[g \in Handles |-> Keepers(g)] EXCEPT ![h] = {}]
    BY <1>2, <1>5, <1>6, Passing
  <1>8. {g \in Handles : open'[g] # Nothing} = {g \in Handles : open[g] # Nothing} \ {h}
    BY <1>1, <1>2
  <1>9. Ledger!Moves(h)
    BY <1>2, <1>4, <1>5, Moving
  <1> QED BY <1>2, <1>4, <1>7, <1>8, <1>9 DEF Ledger!Dispose, Ledger!Hand

\* Popping a domain's record passes its handle to the thread that will close it.
LEMMA PoppingTakes ==
  ASSUME Inductive, Custodians, Custodians', NEW t \in Threads, Pop(t)
  PROVE  \/ UNCHANGED Ledger!vars
         \/ \E d \in Domains, h \in Handles : Ledger!Moves(h) /\ Ledger!Take(t, d, h)
  <1>1. PICK d \in job[t].rest :
          /\ targets' = [targets EXCEPT ![d] = Nothing]
          /\ Become(t, [job[t] EXCEPT
               !.at = IF targets[d] = Nothing THEN "close" ELSE "release",
               !.rest = @ \ {d}, !.target = targets[d]])
    BY DEF Pop
  <1>2. /\ ~Holds(t) /\ UNCHANGED <<open, lost>> /\ d \in Domains /\ JobShape(job[t])
        /\ targets \in [Domains -> TargetType \cup {Nothing}]
    BY <1>1 DEF Pop, Holds, system, Inductive, ShapeOK, JobShape
  <1>3. /\ job'[t].at = IF targets[d] = Nothing THEN "close" ELSE "release"
        /\ job'[t].target = targets[d]
        /\ \A u \in Threads \ {t} : job'[u] = job[u]
    <2> DEFINE j == [job[t] EXCEPT
                       !.at = IF targets[d] = Nothing THEN "close" ELSE "release",
                       !.rest = @ \ {d}, !.target = targets[d]]
    <2>1. /\ j.at = IF targets[d] = Nothing THEN "close" ELSE "release"
          /\ j.target = targets[d] /\ Become(t, j)
      BY <1>1, <1>2 DEF JobShape
    <2> HIDE DEF j
    <2> QED BY <2>1, Becoming DEF Inductive
  <1>4. CASE targets[d] = Nothing
    <2>1. targets' = targets
      BY <1>1, <1>2, <1>4
    <2>2. \A u \in Threads :
            /\ Holds(u)' <=> Holds(u)
            /\ Holds(u) => job'[u].target = job[u].target
      BY <1>2, <1>3, <1>4 DEF Holds
    <2> QED BY <1>2, <2>1, <2>2, QuietLedger
  <1>5. CASE targets[d] # Nothing
    <2>1. PICK h \in Handles : h = targets[d].handle
      BY <1>2, <1>5 DEF TargetType
    <2>2. Keepers(h) = {<<"record", d>>}
      <3>1. d \in Records(h)
        BY <1>2, <1>5, <2>1 DEF Records
      <3> QED BY <2>1, <3>1 DEF Custodians
    <2>3. Keepers(h)' = {<<"thread", t>>}
      <3>1. t \in Holders(h)'
        BY <1>3, <1>5, <2>1 DEF Holders
      <3> QED BY <2>1, <3>1 DEF Custodians
    <2>4. ASSUME NEW g \in Handles \ {h}
          PROVE  Keepers(g)' = Keepers(g)
      <3>1. \A e \in Domains : e \in Records(g)' <=> e \in Records(g)
        BY <1>1, <1>2, <2>1 DEF Records
      <3>2. t \notin Holders(g) /\ t \notin Holders(g)'
        BY <1>2, <1>3, <1>5, <2>1 DEF Holders, Holds
      <3>3. \A u \in Threads : u \in Holders(g)' <=> u \in Holders(g)
        BY <1>3, <3>2 DEF Holders, Holds
      <3> QED BY <1>2, <3>1, <3>3, Unmoved
    <2>5. [g \in Handles |-> Keepers(g)]'
            = [[g \in Handles |-> Keepers(g)] EXCEPT ![h] = {<<"thread", t>>}]
      BY <2>1, <2>3, <2>4, Passing
    <2>6. \A g \in Handles : <<"thread", t>> \notin Keepers(g)
      BY <1>2, EmptyHands
    <2>7. Ledger!Take(t, d, h)
      BY <1>2, <2>1, <2>2, <2>5, <2>6
         DEF Ledger!Take, Ledger!Pass, Ledger!EmptyHanded, Ledger!Hand, Ledger!Record
    <2>8. Ledger!Moves(h)
      <3>1. <<"thread", t>> # <<"record", d>>
        OBVIOUS
      <3> QED BY <2>1, <2>2, <2>3, <3>1, Moving
    <2> QED BY <1>2, <2>1, <2>7, <2>8
  <1> QED BY <1>4, <1>5

\* Recording passes the handle to the domain, and loses the one recorded before.
LEMMA RecordingEnters ==
  ASSUME Inductive, Custodians, Custodians', NEW t \in Threads, Record(t)
  PROVE  \E d \in Domains, h \in Handles :
           Ledger!Moves(h) /\ (Ledger!Enter(t, d, h) \/ Ledger!Overwrite(t, d, h))
  <1>0. PICK d \in Domains, h \in Handles, new \in TargetType :
          /\ job[t].at = "record" /\ job[t].domain = d /\ job[t].target = new
          /\ new.handle = h
    BY DEF Record, Inductive, ShapeOK, JobShape, TargetType
  <1>1. /\ Become(t, NoJob) /\ UNCHANGED open
        /\ targets' = [targets EXCEPT ![d] = new]
        /\ lost' = IF targets[d] = Nothing THEN lost ELSE lost \cup {targets[d].handle}
    BY <1>0 DEF Record, system
  <1>2. /\ targets \in [Domains -> TargetType \cup {Nothing}] /\ new # Nothing
        /\ targets[d] # Nothing => targets[d].handle \in Handles
    BY AbsentAssumption DEF Inductive, ShapeOK, TargetType
  <1>3. /\ ~Holds(t)' /\ Holds(t)
        /\ \A u \in Threads \ {t} : job'[u] = job[u]
    BY <1>0, <1>1, Becoming DEF Inductive, NoJob, Holds
  <1>4. Keepers(h) = {<<"thread", t>>}
    <2>1. t \in Holders(h)
      BY <1>0 DEF Holders
    <2> QED BY <1>2, <2>1 DEF Custodians
  <1>5. Keepers(h)' = {<<"record", d>>}
    <2>1. d \in Records(h)'
      BY <1>0, <1>1, <1>2 DEF Records
    <2> QED BY <1>2, <2>1 DEF Custodians
  <1>6. \A g \in Handles \ {h} :
          \A u \in Threads : u \in Holders(g)' <=> u \in Holders(g)
    <2> TAKE g \in Handles \ {h}
    <2>1. t \notin Holders(g) /\ t \notin Holders(g)'
      BY <1>0, <1>3 DEF Holders, Holds
    <2> QED BY <1>3, <2>1 DEF Holders, Holds
  <1>7. targets'[d] = new /\ \A e \in Domains \ {d} : targets'[e] = targets[e]
    BY <1>1, <1>2
  <1>7a. Ledger!Moves(h)
    <2>1. <<"thread", t>> # <<"record", d>>
      OBVIOUS
    <2> QED BY <1>2, <1>4, <1>5, <2>1, Moving
  <1>8. CASE targets[d] = Nothing
    <2>1. ASSUME NEW g \in Handles \ {h}
          PROVE  Keepers(g)' = Keepers(g)
      <3>1. \A e \in Domains : e \in Records(g)' <=> e \in Records(g)
        BY <1>0, <1>2, <1>7, <1>8 DEF Records
      <3> QED BY <1>1, <1>6, <1>8, <3>1, Unmoved
    <2>2. \A g \in Handles : <<"record", d>> \notin Keepers(g)
      BY <1>2, <1>8, NoRecord
    <2>3. [g \in Handles |-> Keepers(g)]'
            = [[g \in Handles |-> Keepers(g)] EXCEPT ![h] = {<<"record", d>>}]
      BY <1>2, <1>5, <2>1, Passing
    <2>4. Ledger!Enter(t, d, h)
      BY <1>1, <1>2, <1>4, <2>2, <2>3
         DEF Ledger!Enter, Ledger!Pass, Ledger!Hand, Ledger!Record
    <2> QED BY <1>2, <1>7a, <2>4
  <1>9. CASE targets[d] # Nothing
    <2>1. PICK s \in Handles : s = targets[d].handle /\ s \in lost'
      BY <1>1, <1>2, <1>9
    <2>2. Keepers(s) = {<<"record", d>>}
      <3>1. d \in Records(s)
        BY <1>2, <1>9, <2>1 DEF Records
      <3> QED BY <2>1, <3>1 DEF Custodians
    <2>3. Keepers(s)' = {<<"nobody", s>>}
      BY <2>1 DEF Custodians
    <2>4. s # h
      <3>1. <<"thread", t>> # <<"record", d>>
        OBVIOUS
      <3>2. Keepers(s) # Keepers(h)
        BY <1>4, <2>2, <3>1
      <3> QED BY <3>2
    <2>5. ASSUME NEW g \in Handles \ {h, s}
          PROVE  Keepers(g)' = Keepers(g)
      <3>1. \A e \in Domains : e \in Records(g)' <=> e \in Records(g)
        BY <1>0, <1>2, <1>7, <1>9, <2>1 DEF Records
      <3>2. g \in lost' <=> g \in lost
        BY <1>1, <1>9, <2>1
      <3> QED BY <1>6, <3>1, <3>2, Unmoved
    <2>6. [g \in Handles |-> Keepers(g)]'
            = [[g \in Handles |-> Keepers(g)] EXCEPT ![h] = {<<"record", d>>},
                                                      ![s] = {<<"nobody", s>>}]
      BY <1>2, <1>5, <2>1, <2>3, <2>4, <2>5
    <2>7. Ledger!Overwrite(t, d, h)
      BY <1>1, <1>2, <1>4, <2>1, <2>2, <2>6
         DEF Ledger!Overwrite, Ledger!Hand, Ledger!Record, Ledger!Nobody
    <2> QED BY <1>2, <1>7a, <2>7
  <1> QED BY <1>8, <1>9

\* Every step of the provider is a step of the ledger or none.
LEMMA StepsKeepLedger ==
  ASSUME Inductive, Custodians, Custodians', [Next]_vars
  PROVE  [Ledger!Next]_Ledger!vars
  <1>1. CASE UNCHANGED <<open, targets, job, lost>>
    BY <1>1, QuietLedger DEF Holds
  <1>2. CASE \E t \in Threads : Begin(t) \/ Continue(t)
    <2>1. PICK t \in Threads : Begin(t) \/ Continue(t)
      BY <1>2
    <2>2. CASE \E d \in Domains, p \in Pids : CreateJob(t, d, p)
      BY <2>2, CreateMakes DEF Ledger!Next
    <2>3. CASE AssignFails(t) \/ Release(t)
      BY <2>3, ClosingDisposes DEF Ledger!Next
    <2>4. CASE Pop(t)
      BY <2>4, PoppingTakes DEF Ledger!Next
    <2>5. CASE Record(t)
      BY <2>5, RecordingEnters DEF Ledger!Next
    <2>6. CASE UNCHANGED Ledger!vars
      BY <2>6
    <2> QED BY <2>1, <2>2, <2>3, <2>4, <2>5, <2>6, CommandsKeepLedger DEF Begin, Continue
  <1> QED BY <1>1, <1>2 DEF Next, Exit, Reuse, vars

\* The provider starts with no handle open.
LEMMA LedgerStarts == Init => Ledger!Init
  <1> SUFFICES ASSUME Init PROVE Ledger!Init
    OBVIOUS
  <1>1. {h \in Handles : open[h] # Nothing} = {}
    BY DEF Init
  <1>2. \A h \in Handles : Keepers(h) = {}
    BY <1>1, InitInductive, InductiveKeeps DEF Custodians
  <1> QED BY <1>1, <1>2 DEF Ledger!Init

\* The provider implements Custody for any threads, domains, processes and handles:
\* every step passes at most one handle from its only keeper to another, or loses the
\* one whose record it overwrites.
THEOREM JobKeepsCustody == Spec => KeepsCustody
  <1>1. Inductive => Custodians
    BY InductiveKeeps
  <1>2. Inductive /\ Inductive' /\ [Next]_vars => [Ledger!Next]_Ledger!vars
    <2>1. Inductive' => Custodians'
      BY <1>1, PTL
    <2> QED BY <1>1, <2>1, StepsKeepLedger
  <1> QED BY <1>2, InitInductive, NextInductive, LedgerStarts, PTL
          DEF Spec, KeepsCustody, Ledger!Spec
=============================================================================
