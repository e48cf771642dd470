--------------------------- MODULE CgroupProvider ---------------------------
(***************************************************************************)
(* CgroupV2Provider over the kernel's cgroup files, called by several      *)
(* threads that share it: registration makes a group per target, commands  *)
(* write its control files one by one, unregistration and close remove it. *)
(* The provider has no lock.                                               *)
(*                                                                         *)
(* A thread's job is the method it is executing; its label names the       *)
(* statement about to run.  A command's job is the part of dispatch() past *)
(* the claim: apply, then verify.                                          *)
(***************************************************************************)
EXTENDS Sequences, FiniteSetsExt

CONSTANTS
  Threads,
  Domains,
  Pids,             \* processes that may be registered
  GroupName,        \* the name _safe_name makes of each domain
  Controls,         \* files the kernel provides in a group
  Commands,         \* intents the dispatcher lets through, see IsCommand
  Initial,          \* what a setting is in a new group
  Rejected,         \* a value that int() or the kernel refuses
  Malformed,        \* an io_max that _format_io_max refuses
  Nothing

Fields == {"cpu_weight", "cpu_quota_us", "cpu_period_us", "memory_max_bytes",
           "io_weight", "io_max"}

\* The files apply writes, in its order, and the fields each one holds.
Files == <<"cpu.weight", "cpu.max", "memory.max", "io.weight", "io.max">>

Holds(file) ==
  CASE file = "cpu.weight" -> {"cpu_weight"}
    [] file = "cpu.max"    -> {"cpu_quota_us", "cpu_period_us"}
    [] file = "memory.max" -> {"memory_max_bytes"}
    [] file = "io.weight"  -> {"io_weight"}
    [] file = "io.max"     -> {"io_max"}

FileNames == {Files[i] : i \in DOMAIN Files}
Values == Nat \cup {Initial, Rejected, Malformed}

IsCommand(c) ==
  /\ c.domain \in Domains
  /\ c.action \in {"inspect", "pause", "resume", "set_resource_budget"}
  /\ \A name \in DOMAIN c.args : c.args[name] \in Values

ASSUME NamesAssumption == \A d \in Domains : GroupName[d] # Nothing
ASSUME ControlsAssumption == Controls \subseteq FileNames \cup {"cgroup.freeze"}
ASSUME CommandsAssumption == \A c \in Commands : IsCommand(c)
ASSUME ValuesAssumption == {Initial, Rejected, Malformed} \cap Nat = {}

Groups == {GroupName[d] : d \in Domains}

SettingsType == [Fields -> Nat \cup {Initial}]
TargetType == [pid : Pids, group : Groups]
GroupType ==
  [settings : SettingsType, freeze : BOOLEAN, frozen : BOOLEAN,
   freezer : Threads \cup {Nothing}]

ASSUME AbsentAssumption ==
  Nothing \notin Threads \cup Commands \cup TargetType \cup GroupType

VARIABLES
  group,            \* the cgroup file system: name to group, or Nothing
  home,             \* where each process is: a group, "outside" or "gone"
  targets,          \* _targets
  job,              \* what each thread is executing
  leaked            \* history: groups whose removal failed

vars == <<group, home, targets, job, leaked>>

\* freezer is history: the thread that last wrote cgroup.freeze of this group.
NewGroup ==
  [settings |-> [f \in Fields |-> Initial], freeze |-> FALSE, frozen |-> FALSE,
   freezer |-> Nothing]

NoJob ==
  [at |-> "idle", command |-> Nothing, domain |-> Nothing, target |-> Nothing,
   before |-> Nothing, left |-> {}, realized |-> Nothing, rest |-> {},
   wrote |-> {}, result |-> "none"]

Free(t) == job[t].at \in {"idle", "done"}

Become(t, j)  == job' = [job EXCEPT ![t] = j]
Goto(t, label) == Become(t, [job[t] EXCEPT !.at = label])

Procs(g) == {p \in Pids : home[p] = g}

-----------------------------------------------------------------------------
(* register_target.                                                        *)

\* Variant: create_group takes a group that is there already.
CreateGroupShared(t, d, p) ==
  /\ Free(t)
  /\ targets[d] = Nothing
  /\ group' = [group EXCEPT ![GroupName[d]] = IF @ = Nothing THEN NewGroup ELSE @]
  /\ Become(t, [NoJob EXCEPT !.at = "attach", !.domain = d,
                             !.target = [pid |-> p, group |-> GroupName[d]]])
  /\ UNCHANGED <<home, targets, leaked>>

\* A domain that is registered or a name that is taken makes the call raise and
\* changes nothing.
CreateGroup(t, d, p) ==
  /\ Free(t)
  /\ targets[d] = Nothing /\ group[GroupName[d]] = Nothing
  /\ group' = [group EXCEPT ![GroupName[d]] = NewGroup]
  /\ Become(t, [NoJob EXCEPT !.at = "attach", !.domain = d,
                             !.target = [pid |-> p, group |-> GroupName[d]]])
  /\ UNCHANGED <<home, targets, leaked>>

AttachProcess(t) ==
  /\ job[t].at = "attach"
  /\ home[job[t].target.pid] # "gone"
  /\ home' = [home EXCEPT ![job[t].target.pid] = job[t].target.group]
  /\ Goto(t, "record")
  /\ UNCHANGED <<group, targets, leaked>>

\* Variant: the new group stays behind.
AttachFailsDirty(t) ==
  /\ job[t].at = "attach"
  /\ Become(t, NoJob)
  /\ UNCHANGED <<group, home, targets, leaked>>

\* The kernel refuses the process: it is gone, or not ours to move.  The new
\* group is removed and the call raises.
AttachFails(t) ==
  /\ job[t].at = "attach"
  /\ group' = [group EXCEPT ![job[t].target.group] = Nothing]
  /\ Become(t, NoJob)
  /\ UNCHANGED <<home, targets, leaked>>

RecordTarget(t) ==
  /\ job[t].at = "record"
  /\ targets' = [targets EXCEPT ![job[t].domain] = job[t].target]
  /\ Become(t, NoJob)
  /\ UNCHANGED <<group, home, leaked>>

-----------------------------------------------------------------------------
(* unregister_target(d), and close, which does the same to every domain     *)
(* registered when it starts.                                              *)

Close(t, domains) ==
  /\ Free(t)
  /\ Become(t, [NoJob EXCEPT !.at = "close", !.rest = domains])
  /\ UNCHANGED <<group, home, targets, leaked>>

Unregister(t) ==
  \/ \E d \in Domains : targets[d] # Nothing /\ Close(t, {d})
  \/ Close(t, {d \in Domains : targets[d] # Nothing})

\* The target is forgotten first; a domain that is not registered is passed over.
ForgetTarget(t) ==
  /\ job[t].at = "close"
  /\ \E d \in job[t].rest :
       /\ targets' = [targets EXCEPT ![d] = Nothing]
       /\ Become(t, [job[t] EXCEPT
            !.at = IF targets[d] = Nothing THEN "close" ELSE "remove",
            !.rest = @ \ {d}, !.target = targets[d]])
  /\ UNCHANGED <<group, home, leaked>>

Closed(t) ==
  /\ job[t].at = "close" /\ job[t].rest = {}
  /\ Become(t, NoJob)
  /\ UNCHANGED <<group, home, targets, leaked>>

RemoveGroup(t) ==
  /\ job[t].at = "remove"
  /\ Procs(job[t].target.group) = {}
  /\ group' = [group EXCEPT ![job[t].target.group] = Nothing]
  /\ Become(t, [job[t] EXCEPT !.at = "close", !.target = Nothing])
  /\ UNCHANGED <<home, targets, leaked>>

\* The kernel keeps a group that has processes: rmdir raises, and the domains
\* close has not come to stay registered.
RemoveFails(t) ==
  /\ job[t].at = "remove"
  /\ Procs(job[t].target.group) # {}
  /\ leaked' = leaked \cup {job[t].target.group}
  /\ Become(t, NoJob)
  /\ UNCHANGED <<group, home, targets>>

-----------------------------------------------------------------------------
(* apply.                                                                  *)

\* A command ends, with its receipt's outcome.
End(t, result) ==
  Become(t, [job[t] EXCEPT !.at = "done", !.before = Nothing, !.left = {},
                           !.realized = Nothing, !.result = result])

Command(t)  == job[t].command
Named(t)    == DOMAIN Command(t).args
Target(t)   == job[t].target
Group(t)    == group[Target(t).group]

\* inspect of a registered domain.  Of a group that is not there every value is
\* None.
View(d) ==
  LET g == group[targets[d].group]
  IN  [pid |-> targets[d].pid,
       files |-> IF g = Nothing THEN Nothing
                 ELSE [settings |-> g.settings, frozen |-> g.frozen]]

Call(t) ==
  /\ Free(t)
  /\ \E c \in Commands : Become(t, [NoJob EXCEPT !.at = "find", !.command = c])
  /\ UNCHANGED <<group, home, targets, leaked>>

\* What a budget must be before its first file is written.
WellFormed(args) ==
  /\ DOMAIN args # {}
  /\ DOMAIN args \subseteq Fields
  /\ "io_max" \in DOMAIN args => args["io_max"] # Malformed

\* Variant: the io_max is looked at when its turn comes.
PlanLate(c) ==
  IF c.action = "set_resource_budget" /\ DOMAIN c.args \subseteq Fields
  THEN {f \in FileNames : Holds(f) \cap DOMAIN c.args # {}} ELSE {}

\* The files a budget is written to.
Plan(c) ==
  IF c.action = "set_resource_budget" /\ WellFormed(c.args)
  THEN {f \in FileNames : Holds(f) \cap DOMAIN c.args # {}} ELSE {}

FirstLabel(c) ==
  CASE c.action \in {"pause", "resume"} -> "freeze"
    [] c.action = "inspect" -> "realize"
    [] c.action = "set_resource_budget" -> "write"

\* The target is looked up, its group read, and the arguments of a budget tested.  The
\* code looks the target up once more to read it; a domain that was registered anew in
\* between has a group of the same name, and no more is used of the first look-up, so
\* that the two are one as of the second.
FindTarget(t) ==
  /\ job[t].at = "find"
  /\ LET c == Command(t)
         sound == c.action = "set_resource_budget" => Plan(c) # {}
     IN  \/ /\ targets[c.domain] = Nothing \/ ~sound
            /\ End(t, "failed")
         \/ /\ targets[c.domain] # Nothing /\ sound
            /\ Become(t, [job[t] EXCEPT
                 !.at = FirstLabel(c), !.target = targets[c.domain],
                 !.before = View(c.domain), !.left = Plan(c)])
  /\ UNCHANGED <<group, home, targets, leaked>>

\* Variant: the field that is not named is not read from before.
ValueUnread(t, field) ==
  IF field \in Named(t) THEN Command(t).args[field] ELSE Nothing

\* A file that holds two fields takes the one that is not named from before.
Value(t, field) ==
  IF field \in Named(t) THEN Command(t).args[field]
  ELSE job[t].before.files.settings[field]

Writable(t, file) ==
  /\ Group(t) # Nothing
  /\ file \in Controls
  /\ \A f \in Holds(file) : Value(t, f) \notin {Rejected, Malformed}

Written(t, file) ==
  [f \in Fields |->
     IF f \in Holds(file) THEN Value(t, f) ELSE Group(t).settings[f]]

\* The file a budget writes next.
Following(t) == Files[Min({i \in DOMAIN Files : Files[i] \in job[t].left})]

Advance(t, wrote) ==
  Become(t, [job[t] EXCEPT
    !.at    = IF job[t].left = {Following(t)} THEN "realize" ELSE "write",
    !.left  = @ \ {Following(t)},
    !.wrote = @ \cup wrote])

WriteFile(t) ==
  /\ job[t].at = "write"
  /\ Writable(t, Following(t))
  /\ group' = [group EXCEPT
       ![Target(t).group].settings = Written(t, Following(t))]
  /\ Advance(t, {Following(t)})
  /\ UNCHANGED <<home, targets, leaked>>

\* Variant: a control that is missing is passed over.
WriteSkips(t) ==
  /\ job[t].at = "write"
  /\ ~Writable(t, Following(t))
  /\ Advance(t, {})
  /\ UNCHANGED <<group, home, targets, leaked>>

\* apply raises, and what it has written stays.
WriteFails(t) ==
  /\ job[t].at = "write"
  /\ ~Writable(t, Following(t))
  /\ End(t, "failed")
  /\ UNCHANGED <<group, home, targets, leaked>>

\* Variant: apply does not wait for the kernel.
FreezeOnly(t) ==
  /\ job[t].at = "freeze"
  /\ Group(t) # Nothing /\ "cgroup.freeze" \in Controls
  /\ group' = [group EXCEPT
       ![Target(t).group].freeze  = (Command(t).action = "pause"),
       ![Target(t).group].freezer = t]
  /\ Goto(t, "realize")
  /\ UNCHANGED <<home, targets, leaked>>

Freeze(t) ==
  /\ job[t].at = "freeze"
  /\ Group(t) # Nothing /\ "cgroup.freeze" \in Controls
  /\ group' = [group EXCEPT
       ![Target(t).group].freeze  = (Command(t).action = "pause"),
       ![Target(t).group].freezer = t]
  /\ Goto(t, "wait")
  /\ UNCHANGED <<home, targets, leaked>>

FreezeFails(t) ==
  /\ job[t].at = "freeze"
  /\ Group(t) = Nothing \/ "cgroup.freeze" \notin Controls
  /\ End(t, "failed")
  /\ UNCHANGED <<group, home, targets, leaked>>

\* _wait_frozen sees the state it waits for.
Reached(t) ==
  /\ job[t].at = "wait"
  /\ Group(t) # Nothing /\ Group(t).frozen = (Command(t).action = "pause")
  /\ Goto(t, "realize")
  /\ UNCHANGED <<group, home, targets, leaked>>

\* Variant: the wait has no deadline while there is a group.
TimesOutGone(t) ==
  /\ job[t].at = "wait"
  /\ Group(t) = Nothing
  /\ End(t, "failed")
  /\ UNCHANGED <<group, home, targets, leaked>>

\* The deadline passes, however the kernel is getting on; the request to freeze
\* or thaw stays in force.
TimesOut(t) ==
  /\ job[t].at = "wait"
  /\ End(t, "failed")
  /\ UNCHANGED <<group, home, targets, leaked>>

\* apply reads the domain back, through whatever is registered by now.
Realize(t) ==
  /\ job[t].at = "realize"
  /\ \/ targets[Command(t).domain] = Nothing /\ End(t, "failed")
     \/ /\ targets[Command(t).domain] # Nothing
        /\ Become(t, [job[t] EXCEPT !.at = "verify",
                                    !.realized = View(Command(t).domain)])
  /\ UNCHANGED <<group, home, targets, leaked>>

\* verify, whose exception leaves dispatch.
Verify(t) ==
  /\ job[t].at = "verify"
  /\ \/ targets[Command(t).domain] = Nothing /\ End(t, "raised")
     \/ /\ targets[Command(t).domain] # Nothing
        /\ End(t, IF View(Command(t).domain) = job[t].realized
                  THEN "confirmed" ELSE "mismatch")
  /\ UNCHANGED <<group, home, targets, leaked>>

-----------------------------------------------------------------------------
(* The kernel and the processes.                                           *)

\* The processes of a group are frozen or thawed some time after the request.
Settle(g) ==
  /\ group[g] # Nothing /\ group[g].frozen # group[g].freeze
  /\ group' = [group EXCEPT ![g].frozen = group[g].freeze]
  /\ UNCHANGED <<home, targets, job, leaked>>

Exit(p) ==
  /\ home[p] # "gone"
  /\ home' = [home EXCEPT ![p] = "gone"]
  /\ UNCHANGED <<group, targets, job, leaked>>

-----------------------------------------------------------------------------
Init ==
  /\ group   = [g \in Groups |-> Nothing]
  /\ home    = [p \in Pids |-> "outside"]
  /\ targets = [d \in Domains |-> Nothing]
  /\ job     = [t \in Threads |-> NoJob]
  /\ leaked  = {}

Begin(t) ==
  \/ Call(t)
  \/ \E d \in Domains, p \in Pids : CreateGroup(t, d, p)
  \/ Unregister(t)

Step(t) ==
  \/ AttachProcess(t) \/ AttachFails(t) \/ RecordTarget(t)
  \/ ForgetTarget(t) \/ Closed(t) \/ RemoveGroup(t) \/ RemoveFails(t)
  \/ FindTarget(t) \/ WriteFile(t) \/ WriteFails(t)
  \/ Freeze(t) \/ FreezeFails(t) \/ Reached(t) \/ TimesOut(t)
  \/ Realize(t) \/ Verify(t)

Next ==
  \/ \E t \in Threads : Begin(t) \/ Step(t)
  \/ \E g \in Groups : Settle(g)
  \/ \E p \in Pids : Exit(p)

\* A method that was called goes on; what it waits for in _wait_frozen ends by
\* its deadline.  The kernel is not promised to freeze anything in time.
Fairness == \A t \in Threads : WF_vars(Step(t))

Spec == Init /\ [][Next]_vars /\ Fairness

-----------------------------------------------------------------------------
(* What the provider promises.                                             *)

Labels == {"idle", "attach", "record", "close", "remove", "find", "write",
           "freeze", "wait", "realize", "verify", "done"}
Results == {"none", "confirmed", "mismatch", "failed", "raised"}

ViewType ==
  [pid : Pids,
   files : {Nothing} \cup [settings : SettingsType, frozen : BOOLEAN]]

JobType ==
  [at : Labels, command : Commands \cup {Nothing}, domain : Domains \cup {Nothing},
   target : TargetType \cup {Nothing}, before : ViewType \cup {Nothing},
   left : SUBSET FileNames, realized : ViewType \cup {Nothing},
   rest : SUBSET Domains, wrote : SUBSET FileNames, result : Results]

\* Every variable holds what the code and the kernel can put there; no setting is
\* ever one that the kernel refuses.
TypeOK ==
  /\ group \in [Groups -> GroupType \cup {Nothing}]
  /\ home \in [Pids -> Groups \cup {"outside", "gone"}]
  /\ targets \in [Domains -> TargetType \cup {Nothing}]
  /\ job \in [Threads -> JobType]
  /\ leaked \subseteq Groups

\* The claims on a group: domains it is registered for, threads that are making
\* or removing it, and the failure that abandoned it.
Records(g) == {d \in Domains : targets[d] # Nothing /\ targets[d].group = g}
Holders(g) == {t \in Threads : /\ job[t].at \in {"attach", "record", "remove"}
                               /\ job[t].target.group = g}
Claims(g) ==
  Cardinality(Records(g)) + Cardinality(Holders(g)) + (IF g \in leaked THEN 1 ELSE 0)

\* Every group there is has exactly one claim on it, and no claim is on a group
\* that is not there: threads registering and unregistering the same domain, or
\* domains whose names collide, never share or strand a group, except one whose
\* removal the kernel refused, which is never used again.
GroupsAccounted ==
  \A g \in Groups : Claims(g) = IF group[g] = Nothing THEN 0 ELSE 1

\* The same claims, by name.
Keepers(g) ==
  {<<"record", d>> : d \in Records(g)} \cup {<<"thread", t>> : t \in Holders(g)}
  \cup {<<"nobody", h>> : h \in leaked \cap {g}}

Ledger == INSTANCE Custody WITH
  Resources <- Groups, Losses <- {"undisposed"},
  there     <- {g \in Groups : group[g] # Nothing},
  keepers   <- [g \in Groups |-> Keepers(g)]

\* A group goes from the thread that made it to the record of a domain, from there to
\* the one thread that forgets the record, and only the thread that has it in hand
\* removes it; no registration overwrites a record, a refused removal is the only way
\* to lose a group, and a lost group is never made again.
KeepsCustody == Ledger!Spec

Ended(t, action) ==
  job[t].at = "done" /\ Command(t).action = action

\* A budget that came as far as its read-back has written every file it names,
\* and one that is not well formed has written none.
BudgetIsWhole ==
  \A t \in Threads : Ended(t, "set_resource_budget") =>
    LET named == {f \in FileNames : Holds(f) \cap Named(t) # {}}
    IN  /\ job[t].result \in {"confirmed", "mismatch", "raised"} => job[t].wrote = named
        /\ ~WellFormed(Command(t).args) => job[t].wrote = {}

\* A CONFIRMED pause found its group frozen, and a resume found it thawed, and it
\* still is unless somebody asked for the other since.
ConfirmedFreezeHolds ==
  \A t \in Threads : \A action \in {"pause", "resume"} :
    /\ Ended(t, action) /\ job[t].result = "confirmed"
    /\ Group(t) # Nothing /\ Group(t).freezer = t
    => Group(t).frozen = (action = "pause")

\* Every method comes to its end, whatever the kernel and the others do.
JobsEnd == \A t \in Threads : ~Free(t) ~> Free(t)
=============================================================================
