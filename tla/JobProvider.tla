----------------------------- MODULE JobProvider -----------------------------
(***************************************************************************)
(* WindowsJobProvider over the job objects and processes of Windows, shared *)
(* by several threads: registration creates a job object and keeps a handle *)
(* to it, a budget sets its limits one class at a time, a pause suspends   *)
(* whichever process has the registered number, unregistration closes the   *)
(* handle.  The provider has no lock, and the system uses the value of a    *)
(* closed handle, and the number of a dead process, again.                 *)
(***************************************************************************)
EXTENDS Naturals

CONSTANTS
  Threads,
  Domains,
  Pids,
  Handles,          \* values a handle may have
  Commands,         \* intents the dispatcher lets through, see IsCommand
  Least,            \* the lowest CPU share, and a whole CPU, in some unit
  Whole,
  Step,             \* that unit times Step is 1/10000, in which Windows counts
  Byte,             \* parts of a byte: an amount of memory need not be whole
  Size,             \* what a c_size_t counts up to, 2^64 where the system has 64 bits
  Malformed,        \* a value that float() or int() refuses, "1.5" or NaN for int()
  Nothing

Fields == {"cpu_fraction", "job_memory_bytes"}

Actions == {"inspect", "pause", "resume", "set_resource_budget"}

IsCommand(c) ==
  /\ c.domain \in Domains /\ c.action \in Actions
  /\ DOMAIN c.args \subseteq Fields
  /\ \A f \in DOMAIN c.args : c.args[f] \in Nat \cup {Malformed}

ASSUME CommandsAssumption == \A c \in Commands : IsCommand(c)
ASSUME AbsentAssumption ==
  /\ Malformed \notin Nat /\ Nothing \notin Threads \cup Domains \cup Handles \cup Nat
  /\ Nothing \notin [pid : Pids, handle : Handles] \cup Commands
ASSUME UnitAssumption ==
  /\ Step \in Nat \ {0} /\ Byte \in Nat \ {0} /\ Size \in Nat \ {0}
  /\ Least \in Nat \ {0} /\ Whole \in Nat
  /\ Least % Step = 0 /\ Whole % Step = 0

VARIABLES
  open,             \* handle to the domain whose job object it opens, or Nothing
  limit,            \* settings of the job object that has the domain's name
  process,          \* the state of whatever process has a number
  targets,          \* _targets
  job,              \* what each thread is executing
  lost,             \* history: handles whose record was overwritten
  alone             \* history: threads nobody has disturbed in their command

vars == <<open, limit, process, targets, job, lost, alone>>

system == <<open, limit, process>>

NoJob ==
  [at |-> "idle", command |-> Nothing, domain |-> Nothing, target |-> Nothing,
   left |-> {}, realized |-> Nothing, rest |-> {}, result |-> "none"]

Free(t) == job[t].at \in {"idle", "done"}

Become(t, j)   == job' = [job EXCEPT ![t] = j]
Goto(t, label) == Become(t, [job[t] EXCEPT !.at = label])

NoLimits == [f \in Fields |-> Nothing]

\* A thread sets a limit of a domain or registers it, under the commands of others.
Disturb(t, d) ==
  alone' = {u \in alone : u = t \/ job[u].command = Nothing
                               \/ job[u].command.domain # d}

-----------------------------------------------------------------------------
(* register_target.                                                        *)

\* CreateJobObjectW under the domain's name: another handle to the object if
\* somebody has it open, else a new object without limits.
CreateJob(t, d, p) ==
  /\ Free(t) /\ targets[d] = Nothing
  /\ \E h \in Handles :
       /\ open[h] = Nothing
       /\ open' = [open EXCEPT ![h] = d]
       /\ Become(t, [NoJob EXCEPT !.at = "assign", !.domain = d,
                                  !.target = [pid |-> p, handle |-> h]])
  /\ limit' = IF \E h \in Handles : open[h] = d THEN limit
              ELSE [limit EXCEPT ![d] = NoLimits]
  /\ Disturb(t, d)
  /\ UNCHANGED <<process, targets, lost>>

Assign(t) ==
  /\ job[t].at = "assign"
  /\ process[job[t].target.pid] # "dead"
  /\ Goto(t, "record")
  /\ UNCHANGED <<system, targets, lost, alone>>

\* Variant: the new job object is not closed.
AssignFailsOpen(t) ==
  /\ job[t].at = "assign"
  /\ Become(t, NoJob)
  /\ UNCHANGED <<system, targets, lost, alone>>

\* There is no such process, or it may not be put into a job.
AssignFails(t) ==
  /\ job[t].at = "assign"
  /\ open' = [open EXCEPT ![job[t].target.handle] = Nothing]
  /\ Become(t, NoJob)
  /\ UNCHANGED <<limit, process, targets, lost, alone>>

\* The domain may have been registered since it was looked at: its record is
\* overwritten, and nobody has its handle any more.
Record(t) ==
  LET old == targets[job[t].domain]
  IN  /\ job[t].at = "record"
      /\ targets' = [targets EXCEPT ![job[t].domain] = job[t].target]
      /\ lost' = IF old = Nothing THEN lost ELSE lost \cup {old.handle}
      /\ Disturb(t, job[t].domain)
      /\ Become(t, NoJob)
      /\ UNCHANGED system

-----------------------------------------------------------------------------
(* unregister_target of one domain, and close, which goes through those     *)
(* that are registered when it starts.                                     *)

Unregister(t) ==
  /\ Free(t)
  /\ LET registered == {d \in Domains : targets[d] # Nothing}
     IN  \E domains \in {{d} : d \in registered} \cup {registered} :
           Become(t, [NoJob EXCEPT !.at = "close", !.rest = domains])
  /\ UNCHANGED <<system, targets, lost, alone>>

\* Variant: the record is read, not taken.
Read(t) ==
  /\ job[t].at = "close"
  /\ \E d \in job[t].rest :
       Become(t, [job[t] EXCEPT
         !.at = IF targets[d] = Nothing THEN "close" ELSE "release",
         !.rest = @ \ {d}, !.target = targets[d]])
  /\ UNCHANGED <<system, targets, lost, alone>>

\* The record is taken out first; a domain that has none is passed over.
Pop(t) ==
  /\ job[t].at = "close"
  /\ \E d \in job[t].rest :
       /\ targets' = [targets EXCEPT ![d] = Nothing]
       /\ Become(t, [job[t] EXCEPT
            !.at = IF targets[d] = Nothing THEN "close" ELSE "release",
            !.rest = @ \ {d}, !.target = targets[d]])
  /\ UNCHANGED <<system, lost, alone>>

\* The handle is closed; suspension and limits stay with the process.
Release(t) ==
  /\ job[t].at = "release"
  /\ open' = [open EXCEPT ![job[t].target.handle] = Nothing]
  /\ Become(t, [job[t] EXCEPT !.at = "close", !.target = Nothing])
  /\ UNCHANGED <<limit, process, targets, lost, alone>>

Closed(t) ==
  /\ job[t].at = "close" /\ job[t].rest = {}
  /\ Become(t, NoJob)
  /\ UNCHANGED <<system, targets, lost, alone>>

-----------------------------------------------------------------------------
(* apply, and the verify that follows it in dispatch.                       *)

End(t, result) ==
  Become(t, [job[t] EXCEPT !.at = "done", !.target = Nothing, !.left = {},
                           !.realized = Nothing, !.result = result])

Command(t) == job[t].command
Target(t)  == job[t].target

\* Whose job object the handle that apply keeps opens now.
Opened(t) == open[Target(t).handle]

\* What inspect reads of a target, through the handle it has looked up; psutil
\* tells nothing of a dead process.
View(target) ==
  [pid       |-> target.pid,
   limits    |-> limit[open[target.handle]],
   suspended |-> IF process[target.pid] = "dead" THEN Nothing
                 ELSE process[target.pid] = "suspended"]

Call(t) ==
  /\ Free(t)
  /\ \E c \in Commands : Become(t, [NoJob EXCEPT !.at = "find", !.command = c])
  /\ alone' = alone \cup {t}
  /\ UNCHANGED <<system, targets, lost>>

FirstLabel(c) ==
  CASE c.action \in {"pause", "resume"} -> "signal"
    [] c.action = "inspect" -> "realize"
    [] c.action = "set_resource_budget" -> "set"

\* The target is looked up and read, and a budget must name something.  Nobody looks at
\* what was read; that reading fails once the record is withdrawn is what looking the
\* target up later does.
FindTarget(t) ==
  LET c == Command(t)
      empty == c.action = "set_resource_budget" /\ DOMAIN c.args = {}
  IN  /\ job[t].at = "find"
      /\ \/ (targets[c.domain] = Nothing \/ empty) /\ End(t, "failed")
         \/ /\ targets[c.domain] # Nothing /\ ~empty
            /\ Become(t, [job[t] EXCEPT
                 !.at = FirstLabel(c), !.target = targets[c.domain],
                 !.left = DOMAIN c.args])
      /\ UNCHANGED <<system, targets, lost, alone>>

\* The limit a thread sets next: the share of the CPU comes first.
Following(t) ==
  IF "cpu_fraction" \in job[t].left THEN "cpu_fraction" ELSE "job_memory_bytes"

\* What set_cpu_hard_cap and set_job_memory_limit take; the dispatcher tests the
\* bounds of numbers only, and a text may stand for any number. int() has cut off
\* the fraction of an amount of memory by then.
Accepted(f, v) ==
  /\ v # Malformed
  /\ f = "cpu_fraction" => v \in Least..Whole
  /\ f = "job_memory_bytes" => v \div Byte >= 1

\* round(): to the nearest unit of Windows, and to the even one of two as near. The
\* share asked for is what the float product fraction * 10000.0 makes of it.
RoundsDown(v) ==
  \/ 2 * (v % Step) < Step
  \/ 2 * (v % Step) = Step /\ (v \div Step) % 2 = 0

Rounded(v) == (IF RoundsDown(v) THEN v \div Step ELSE v \div Step + 1) * Step

\* A share of the CPU is rounded; whole bytes go into a c_size_t, which wraps.
Stored(f, v) == IF f = "cpu_fraction" THEN Rounded(v) ELSE (v \div Byte) % Size

\* Variant: the dispatcher is trusted to have checked the bounds.
SettableAny(t) == Opened(t) # Nothing

Settable(t) ==
  /\ Opened(t) # Nothing
  /\ Accepted(Following(t), Command(t).args[Following(t)])

Advance(t) ==
  Become(t, [job[t] EXCEPT
    !.at = IF job[t].left = {Following(t)} THEN "realize" ELSE "set",
    !.left = @ \ {Following(t)}])

\* One class of limits, of whatever object the handle opens.
SetLimit(t) ==
  LET f == Following(t)
  IN  /\ job[t].at = "set" /\ Settable(t)
      /\ limit'  = [limit EXCEPT ![Opened(t)][f] = Stored(f, Command(t).args[f])]
      /\ Disturb(t, Opened(t))
      /\ Advance(t)
      /\ UNCHANGED <<open, process, targets, lost>>

\* Variant: a limit that cannot be set is passed over.
SetSkips(t) ==
  /\ job[t].at = "set" /\ ~Settable(t)
  /\ Advance(t)
  /\ UNCHANGED <<system, targets, lost, alone>>

\* The value or the system refuses: apply raises, and what it has set stays.
SetFails(t) ==
  /\ job[t].at = "set"
  /\ End(t, "failed")
  /\ UNCHANGED <<system, targets, lost, alone>>

\* suspend_process and resume_process act on whoever has the number now.
Signal(t) ==
  LET p == Target(t).pid
  IN  /\ job[t].at = "signal"
      /\ \/ process[p] = "dead" /\ End(t, "failed") /\ UNCHANGED process
         \/ /\ process[p] # "dead"
            /\ process' = [process EXCEPT ![p] =
                 IF Command(t).action = "pause" THEN "suspended" ELSE "running"]
            /\ Goto(t, "realize")
      /\ UNCHANGED <<open, limit, targets, lost, alone>>

\* inspect begins with the record the domain has by now: for the read-back of
\* apply, and for verify, whose exception leaves dispatch.
LookUp(t) ==
  /\ job[t].at \in {"realize", "verify"}
  /\ LET now == targets[Command(t).domain]
     IN  \/ /\ now = Nothing
            /\ End(t, IF job[t].at = "verify" THEN "raised" ELSE "failed")
         \/ /\ now # Nothing
            /\ Become(t, [job[t] EXCEPT !.target = now,
                 !.at = IF job[t].at = "verify" THEN "compare" ELSE "read"])
  /\ UNCHANGED <<system, targets, lost, alone>>

\* The handle was closed in the meantime.
QueryFails(t) ==
  /\ job[t].at \in {"read", "compare"}
  /\ Opened(t) = Nothing
  /\ End(t, IF job[t].at = "compare" THEN "raised" ELSE "failed")
  /\ UNCHANGED <<system, targets, lost, alone>>

Realize(t) ==
  /\ job[t].at = "read"
  /\ Opened(t) # Nothing
  /\ Become(t, [job[t] EXCEPT !.at = "verify", !.target = Nothing,
                              !.realized = View(Target(t))])
  /\ UNCHANGED <<system, targets, lost, alone>>

\* Suspension of a process is PARTIAL at best; a mismatch is a failure.
Outcome(t) ==
  CASE View(Target(t)) # job[t].realized -> "mismatch"
    [] Command(t).action \in {"pause", "resume"} -> "partial"
    [] OTHER -> "confirmed"

Verify(t) ==
  /\ job[t].at = "compare"
  /\ Opened(t) # Nothing
  /\ End(t, Outcome(t))
  /\ UNCHANGED <<system, targets, lost, alone>>

-----------------------------------------------------------------------------
(* The processes of the machine.                                           *)

Exit(p) ==
  /\ process[p] # "dead"
  /\ process' = [process EXCEPT ![p] = "dead"]
  /\ UNCHANGED <<open, limit, targets, job, lost, alone>>

\* A number of a dead process is given to another one.
Reuse(p) ==
  /\ process[p] = "dead"
  /\ process' = [process EXCEPT ![p] = "running"]
  /\ UNCHANGED <<open, limit, targets, job, lost, alone>>

-----------------------------------------------------------------------------
Init ==
  /\ open    = [h \in Handles |-> Nothing]
  /\ limit   = [d \in Domains |-> NoLimits]
  /\ process = [p \in Pids |-> "running"]
  /\ targets = [d \in Domains |-> Nothing]
  /\ job     = [t \in Threads |-> NoJob]
  /\ lost    = {}
  /\ alone   = {}

Begin(t) ==
  \/ Call(t)
  \/ \E d \in Domains, p \in Pids : CreateJob(t, d, p)
  \/ Unregister(t)

Continue(t) ==
  \/ Assign(t) \/ AssignFails(t) \/ Record(t)
  \/ Pop(t) \/ Release(t) \/ Closed(t)
  \/ FindTarget(t) \/ SetLimit(t) \/ SetFails(t) \/ Signal(t)
  \/ LookUp(t) \/ QueryFails(t) \/ Realize(t) \/ Verify(t)

Next ==
  \/ \E t \in Threads : Begin(t) \/ Continue(t)
  \/ \E p \in Pids : Exit(p) \/ Reuse(p)

Spec == Init /\ [][Next]_vars

-----------------------------------------------------------------------------
(* What the provider promises.                                             *)

Labels == {"idle", "assign", "record", "close", "release", "find", "set",
           "signal", "realize", "read", "verify", "compare", "done"}
Results == {"none", "confirmed", "partial", "mismatch", "failed", "raised"}

LimitsType == [Fields -> Nat \cup {Nothing}]
TargetType == [pid : Pids, handle : Handles]
ViewType ==
  [pid : Pids, limits : LimitsType, suspended : BOOLEAN \cup {Nothing}]

JobType ==
  [at : Labels, command : Commands \cup {Nothing}, domain : Domains \cup {Nothing},
   target : TargetType \cup {Nothing}, left : SUBSET Fields,
   realized : ViewType \cup {Nothing}, rest : SUBSET Domains, result : Results]

\* What a job object may have for a limit: a share the backend admits, and whatever
\* a c_size_t holds.
Keepable(f, v) ==
  /\ f = "cpu_fraction" => v \in Least..Whole
  /\ f = "job_memory_bytes" => v \in 0..(Size - 1)

\* Every variable holds what the code and the system can put there; rounding takes
\* no share of the CPU out of the bounds that the backend tests before it rounds.
TypeOK ==
  /\ open \in [Handles -> Domains \cup {Nothing}]
  /\ limit \in [Domains -> LimitsType]
  /\ process \in [Pids -> {"running", "suspended", "dead"}]
  /\ targets \in [Domains -> TargetType \cup {Nothing}]
  /\ job \in [Threads -> JobType]
  /\ lost \subseteq Handles /\ alone \subseteq Threads
  /\ \A d \in Domains, f \in Fields :
       limit[d][f] # Nothing => Keepable(f, limit[d][f])

\* Who is to close a handle: the record of a domain, a thread that is about to
\* record it or to close it, or nobody, once a record was overwritten.
Records(h) == {d \in Domains : targets[d] # Nothing /\ targets[d].handle = h}
Holders(h) == {t \in Threads : /\ job[t].at \in {"assign", "record", "release"}
                               /\ job[t].target.handle = h}
Keepers(h) ==
  {<<"record", d>> : d \in Records(h)} \cup {<<"thread", t>> : t \in Holders(h)}
  \cup {<<"nobody", g>> : g \in lost \cap {h}}

\* Every open handle has exactly one keeper and no keeper has a closed one,
\* whoever registers and unregisters at the same time: no handle is closed twice,
\* which could close that of another domain, and none is stranded but those whose
\* record two racing registrations of one domain overwrote.
HandlesAccounted ==
  \A h \in Handles :
    IF open[h] = Nothing THEN Keepers(h) = {}
    ELSE \E k \in Keepers(h) : Keepers(h) = {k}

Ledger == INSTANCE Custody WITH
  Resources <- Handles, Losses <- {"overwritten"},
  there     <- {h \in Handles : open[h] # Nothing},
  keepers   <- [h \in Handles |-> Keepers(h)]

\* A handle goes from the thread that got it to the record of a domain, from there
\* to the one thread that takes the record out, and only the thread that has it in
\* hand closes it; a racing registration that overwrites the record is the only way
\* to lose one, and a lost handle never comes back.
KeepsCustody == Ledger!Spec

Sets(t) == job[t].at = "set" /\ job'[t] # job[t]

\* A command sets limits on the job object of its own domain, unless the record
\* it started from was withdrawn or replaced while it was on its way.
KeepsToItsJob ==
  [][\A t \in Threads :
       Sets(t) /\ targets[Command(t).domain] = Target(t)
         => \A d \in Domains \ {Command(t).domain} : limit'[d] = limit[d]]_vars

\* What a limit may be after a value was asked for: within half a unit of Windows of
\* a share of the CPU, and the whole bytes of an amount of memory that a c_size_t
\* holds. Of a larger amount nothing is promised: it wraps, and is CONFIRMED.
Meets(f, got, asked) ==
  /\ got # Nothing
  /\ f = "cpu_fraction" =>
       2 * got <= 2 * asked + Step /\ 2 * asked <= 2 * got + Step
  /\ f = "job_memory_bytes" /\ asked < Size * Byte =>
       got * Byte <= asked /\ asked < (got + 1) * Byte

\* A CONFIRMED budget is in force with every limit it named, up to the rounding that
\* Meets admits, unless another thread has set a limit of the domain, or registered
\* it anew, since the command began.
BudgetHolds ==
  \A t \in alone :
    /\ job[t].at = "done" /\ job[t].result = "confirmed"
    /\ Command(t).action = "set_resource_budget"
    => \A f \in DOMAIN Command(t).args :
         Meets(f, limit[Command(t).domain][f], Command(t).args[f])
=============================================================================
