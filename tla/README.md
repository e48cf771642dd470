# PHOSPHOR Spacetime: TLA+ models, checks and proofs

PHOSPHOR Spacetime observes software domains (processes, synthetic runtimes),
keeps a derived picture of them, and changes how fast and with what resources
they run. A change is a *command intent*; it is validated against what the
provider can do and what a grant allows, carried out by the provider at most once
per idempotency key, read back, and answered with a receipt. Governors (rules, or
an AI model behind limits) propose such changes.

Everything here is translated from `src/src/phosphor_spacetime/` (called `P/`
below). `PROJECT.json` maps each definition to the lines it stands for.

## Inventory

| component | source | state it keeps | operations | interacts with |
|---|---|---|---|---|
| dispatcher | `P/control/dispatcher.py` | none of its own | `dispatch` | validator, store, provider |
| validator | `P/control/validator.py` | none | `validate_intent` | reads intent, domain, capability, grant, clock |
| authority and idempotency | `P/governance/authority.py` | claimed keys, receipts, one lock | `authorizes`, `claim`, `complete`, `record_for` | shared by all dispatches |
| intents, receipts | `P/control/intent.py`, `receipts.py` | immutable requests; a receipt is mutated by dispatch until recorded | constructors | |
| synthetic runtime | `P/providers/synthetic_runtime.py` | clock, rate, remainder, pause flag, state, heap, sequence, generator | schedule, step, quanta, jump, run_until, pause, snapshot, restore | driven by its owner and by the provider |
| synthetic provider | same file | targets, snapshots | `apply`, `verify`, registration | the runtimes |
| Linux cgroup provider | `P/providers/linux_cgroup.py` | targets, one cgroup each | `apply`, `verify`, registration, `close` | the kernel's cgroup files |
| Windows job provider | `P/providers/windows_job.py` | targets, a handle to a job object each | the same | job objects, handles, process suspension |
| mock provider | `P/providers/mock.py` | a domain's state | the same | test double |
| domain registry | `P/registry/domains.py` | domains, lifecycle, parents | register, attach, detach | dispatch reads the lifecycle of the same object |
| rule governor | `P/governance/rule_governor.py` | none; works on summaries | `decide` | its proposals change the next summary |
| AI policy adapter | `P/governance/ai_policy.py` | none between calls; one worker and queue per call | `decide` | AI backend with a time limit; rule governor as fallback |
| observation | `P/observation/` | subscribers; domain to PID | publish, sample | callbacks; psutil |
| projection, IR | `P/projection/`, `P/ir/` | field sources, conflicts, evidence | `apply`, `refresh_staleness`, `apply_patch` | consumes observation events |
| benchmark harness | `P/benchmark/` | a directory per run | `run`, `run_matrix` | files; the governors set its policy |
| metrics comparison | `P/metrics/` | none | `compare_run_dirs` | reads run directories |
| gates, CLI, contracts | `P/gates.py`, `P/gate_*.py`, `P/cli.py`, `P/contracts.py` | none | self-checks | all of the above |

Hard behaviours, in the order of what is at stake:

1. **Dispatch.** Two critical sections of the store (lookup, claim) with
   validation between them; refusals recorded without a claim; provider calls
   outside any lock; `verify` outside the `try` that guards `apply`; the runtime
   advancing, and its registration changing, between any two statements.
   Correct means: at most one mutation per key, no receipt that claims what was
   not done, every claim resolved, no mutation without a grant.
2. **The runtime.** Two execution modes that must agree; exceptions in the middle
   of a loop; snapshots that rewind everything. Correct means: events run once,
   in order, at their tick, whichever way the clock gets there.
3. **Resource providers.** Several system calls per command without rollback;
   a bounded wait for an asynchronous freeze; targets forgotten before their
   group is removed or their handle closed; handles and process numbers that the
   system uses again. Correct means: no group or handle is shared, closed twice or
   stranded, a confirmed budget is in force, and on the right domain.
4. **Governors.** A feedback loop with hysteresis, cooldown and limits; a worker
   that may answer after its time limit.
5. **Projection.** Events out of order and from several sources; ownership of
   fields; staleness.
6. **Benchmark.** Seven files per run, written one after the other, rewritten by an
   exception handler that may fail itself, read by comparisons meanwhile. Correct
   means: what a record, a comparison or the gates say is backed by what is on disk
   and by what was run.

## Modules

| module | what it is |
|---|---|
| `CommandOnce` | abstract: what the control plane promises of one key |
| `Dispatch` | dispatcher, validator, store, synthetic provider, around them the registry, the clock and the runtimes |
| `MCDispatch` | its instances |
| `DispatchProof` | inductive invariant and safety theorems of `Dispatch`, and the proof that it implements `CommandOnce` |
| `SyntheticRuntime` | the runtime in full |
| `RuntimeProof` | inductive invariant and safety theorems of `SyntheticRuntime` |
| `RuntimeTwins` | two runtimes given the same commands, one driven by ticks, one by jumps |
| `TwinsProof` | proof that the twins agree |
| `MCRuntime`, `MCTwins` | their instances |
| `Custody` | abstract: what a resource provider promises of the groups or handles it makes |
| `CgroupProvider`, `MCCgroup` | the Linux provider over the kernel's cgroup files, shared by threads; its instance |
| `CgroupProof` | inductive invariant and safety theorems of `CgroupProvider`, and the proof that it implements `Custody` |
| `JobProvider`, `MCJob` | the Windows provider over job objects, handles and processes, shared by threads; its instance |
| `JobProof` | the same for `JobProvider` |
| `Projection` | the projector and `apply_patch`, functions from snapshot to snapshot |
| `Observation`, `MCObservation` | process observers, bus and projector around one domain; its instances |
| `ObservationProof` | inductive invariant and safety theorems of `Observation` |
| `RuleGovernor` | the rules, a function from summary to proposals |
| `AIPolicy` | what the AI adapter makes of an answer of the model, over the rules |
| `Governance`, `MCGovernance` | a domain governed in cycles by either; its instance |
| `GovernanceProof` | inductive invariant and safety theorems of `Governance` |
| `BaselinePolicy` | the policy of each baseline of the benchmark, over `AIPolicy` |
| `Comparison` | `compare_run_dirs` once it has read: runs to a report |
| `Benchmark`, `MCBenchmark` | users who run, compare and gate over run directories, with exceptions and kills; its instance |
| `BenchmarkProof` | inductive invariant and safety theorems of `Benchmark` |

### Dispatch

A caller is a thread in `dispatch()`. `pc` names the statement it is about to run,
`request` the arguments, `receipt` the local receipt, `target` and `taken` the
locals of `apply`. `claimed` and `receipts` are the fields of `IdempotencyStore`;
its lock makes `claim`, `complete` and `record_for` one step each, and nothing is
held between them.

| label | action | code |
|---|---|---|
| idle | `Call` | dispatch is called with any of `Requests` |
| lookup | `Lookup` | `record_for`, return the prior receipt |
| validate | `Validate` | health, capability, `validate_intent`, the refusal's receipt |
| refuse | `Refuse` | `complete` with the refusal, return |
| claim | `Claim` | `claim` |
| lost | `Lost` | `record_for` again or IDEMPOTENCY_IN_PROGRESS, return |
| apply | `FindTarget` | `_target`, `before`; raises if not registered |
| mutate | `Inspect` ... `Restore`, `Misfit` | the branch of `apply` for the action; `Misfit` where it raises |
| realize | `Realize` | `inspect` after the mutation; raises with the effect in place if unregistered |
| verify | `Verify`, `VerifyRaised` | `verify`; the exception leaves dispatch |
| finish | `Finish` | `complete`, return |

Around it: `Advance` (the runtime's owner drives it), `Clock`, `Attach` and
`Detach` (the registry changes the very object dispatch was given),
`RegisterRuntime` and `UnregisterRuntime` (which drops the domain's snapshots).

`Refusals(r)` lists the ten reasons of a refusal in the order the code tests them;
`Reason` is the first that holds. An argument is a record of what the code tells
apart: whether a bound bites on it (on numbers only, and not on NaN) and what `float`
makes of it. A runtime is reduced to tick, rate and pause flag, which is what the
commands and the comparison of `verify` need; `SyntheticRuntime` has the rest.
`inspect` reads these in one step here; in the code it reads them field by field.

`applied` (mutations per key) and `wedged` (keys whose holder left by an
exception) are history variables; no guard reads them.

Not in `Dispatch`: identifiers, timestamps and evidence of receipts, the text of
errors, PARTIAL results (no synthetic action gives one), a restart (the store is
in memory by design, so a restart forgets it).

### CommandOnce

Per key: a lease that goes open, held, closed; at most one effect, only under the
lease; an outcome. Success needs the effect; a closed key never takes effect. It
is as weak as the code is: a refusal may be recorded at any time, over a success,
and a holder may abandon its lease with nothing recorded. `Promise` in `Dispatch`
maps a key to `open` when unclaimed, `held` while a caller owns it, `closed`
otherwise.

### SyntheticRuntime

One record per runtime, methods as actions. A method that loops (`step`,
`advance_wall_quanta`, `run_until`, `event_jump`) becomes a job with one action per
turn of its loop, because an event that cannot be executed raises in the middle
and leaves the rest undone: `Raise` pops the event and drops the job. Rates and
the remainder are floats, that is, multiples of `1/Units`; a call of `advance_wall_quanta`
multiplies and adds, and each time `Float` rounds the exact result to a float that is at most
`Slack` away. With `Units` a large enough power of two (2^1074) every double is such a
multiple, so nothing is assumed of the rates; 0.1 is the double 0.1. To split the sum into ticks
and remainder is exact, there as here. A tick is an integer, as `schedule_event` is annotated:
it compares the raw value and stores `int()` of it, so a fraction such as 1.5 at tick 1
would be overdue at once. Payloads are operations on keys with
numbers, non-numbers or missing values. The generator keeps the code's shape with
a small modulus. `log`, `failed`, `granted`, `walked` and `calls` are history; like the
rest of the record they are rewound by `restore`, so properties over them speak of
the timeline a runtime is on.

The metrics are left out: no method reads them. `run_until` in tick mode is
`Step(target - tick)`.

### RuntimeTwins

Every command goes to both twins when both are idle; `RunBothUntil` runs one by
ticks and the other by jumps. `Semantic` is the payload of the state hash.
`Harmless` says of payloads that none of them can raise, whatever ran before: each names
a key and a value, and what is added to is only ever set to numbers.

### Custody

What both resource providers promise of what they make, with no system call in sight. A
resource that is there has one keeper: the thread that has it in hand, the record of a
domain, or nobody when it is lost. A thread that has nothing in hand makes one (`Make`),
enters it into the record of a domain that has none (`Enter`), takes it out of a record
(`Take`), disposes of what it has in hand (`Dispose`). So one resource at most passes on
in a step, a thread has one at most, and what is lost stays lost.

| action | `CgroupProvider`: groups | `JobProvider`: handles |
|---|---|---|
| `Make` | `CreateGroup` | `CreateJob` |
| `Enter` | `RecordTarget` | `Record` |
| `Overwrite` | never | `Record` of a domain registered since |
| `Take` | `ForgetTarget` | `Pop` |
| `Dispose` | `AttachFails`, `RemoveGroup` | `AssignFails`, `Release` |
| `Abandon` | `RemoveFails` | never |

`Losses` names the ways a provider loses a resource. Each has one way and not the other's:
the name of a group is taken by the time the group is there, which is what keeps a second
registration of the domain away from its record. A job object has the name of its domain
too (`PHOSPHOR-Spacetime-<domain>`), but to create one whose name is taken is no error: it
gives another handle to the same object, so on Windows the second registration gets as far
as the record and overwrites it. Closing a handle cannot fail in the model,
removing a group can. `GroupsAccounted` and `HandlesAccounted`, that what is there has one
keeper and what is not has none, are what the promise says of one state: `Custody` starts
with nothing there and each of its steps keeps it. The runs therefore check `KeepsCustody`
alone, and the two invariants are theorems, since the proofs start from them.

### CgroupProvider

Threads share one provider, which has no lock. A thread's `job` is the method it is
executing with its locals; its label names the next statement. `group` is the file
system of the dedicated subtree, `home` says in whose `cgroup.procs` each process is,
`targets` is `_targets`.

| label | actions | code |
|---|---|---|
| idle, done | `Call`, `CreateGroup`, `Unregister` | dispatch comes to `apply`; `register_target` up to the new group; `unregister_target` and `close` |
| attach, record | `AttachProcess`, `AttachFails`, `RecordTarget` | the rest of `register_target` |
| close, remove | `ForgetTarget`, `RemoveGroup`, `RemoveFails`, `Closed` | the loop of `close`; a failing `rmdir` leaves it |
| find | `FindTarget` | `_target`, `before`, the tests of a budget |
| write | `WriteFile`, `WriteFails` | one control file of a budget |
| freeze, wait | `Freeze`, `FreezeFails`, `Reached`, `TimesOut` | `cgroup.freeze` and `_wait_frozen` |
| realize, verify | `Realize`, `Verify` | the read-back and dispatch's second reading |

The kernel is `Settle` (frozen some time after it was asked) and `Exit` (a process
ends); it refuses to remove a group that has processes, and to move a process that
is gone or not ours. `freezer`, `wrote` and `leaked` are history.

Abstracted: a reading of a group (`inspect`) is one step, and so are the test for a
registered domain and the `mkdir` that follows it, which is what makes the name taken;
that the target is looked up twice before a command starts (in `apply` and in `inspect`) is one
step as of the second, because a domain registered anew in between has a group of the same
name; `close` goes through the domains in any order instead of the dictionary's; a control is
there for all groups or for none; processes do not fork and numbers are not reused.
The claim and the completion of the key around `apply` are those of `Dispatch`.

### JobProvider

As in `CgroupProvider` threads share a provider without a lock, and a thread's `job` is
the method it executes. `open` says whose job object a value of a handle opens now;
a closed value is free to be given out again. The job object of a domain is named after
it, so `limit` is per domain: `CreateJob` gives another handle to the object if one is
open, else a new object without limits. `process` is what has a number now.

| label | actions | code |
|---|---|---|
| idle, done | `Call`, `CreateJob`, `Unregister` | dispatch comes to `apply`; `register_target` up to the new job; `unregister_target`, `close` |
| assign, record | `Assign`, `AssignFails`, `Record` | the rest of `register_target`; a domain registered since is overwritten |
| close, release | `Pop`, `Release`, `Closed` | the record is taken out, then its handle closed |
| find | `FindTarget` | `_target`, `before`, the test for an empty budget |
| set | `SetLimit`, `SetFails` | the CPU cap, then the memory limit, each of whatever object the handle opens |
| signal | `Signal` | suspend or resume whichever process has the number |
| realize, read | `LookUp`, `Realize`, `QueryFails` | the read-back of `apply`, which looks the target up again |
| verify, compare | `LookUp`, `Verify`, `QueryFails` | the same for `verify`, whose exception leaves dispatch |

The system is `Exit` and `Reuse` of a number. What is set is not what was asked (`Stored`).
A share of the CPU is rounded to the unit of Windows, half-way to the even one (`RoundsDown`);
an amount of memory may come as a fraction, since the dispatcher tests bounds and not
types: `int()` cuts it to whole bytes before the backend tests it, and a `c_size_t` wraps.
So `BudgetHolds` promises a share to half a unit, and of memory the whole bytes of
what was asked, of an amount that a `c_size_t` holds; a larger one wraps and is CONFIRMED all the
same. A limit may also be refused by the system, whatever its value (`SetFails`). What
Windows makes of an amount inside (to pages, say) is not in the code, and `inspect` reads back
what was stored. `Malformed` is what `float()` or `int()` refuses: a text that is no number,
`"1.5"` for `int()`, an infinity or NaN. `lost` (handles whose record was overwritten) and
`alone` (threads whose command nobody disturbed) are history. Abstracted: the reading of a target is one
step once it is looked up, and the test for a registered domain goes with the creation of the job;
`before` is not compared with anything; whether the process is ours was decided by the
caller of `register_target`; assigning may fail for any reason; an I/O error of a
call on an open handle is not modelled.

### Projection and Observation

`Projection` has the projector as operators: `Carried` is which fields an event
writes, `Taken` those it may write, `Disagreements` the conflicts it leaves; `Projected`
is `ObservationProjector.apply`, `Refreshed` is `refresh_staleness`. A domain is `value`
and `owner` (`_field_sources`) per field, `conflicts` and `evidence`. Paths that always
change together are one field: `last_event_id` with `last_source`, `error_code` with
`error_detail`, the leaves of `resources.process`. A conflict is kept as field and event.

In `Observation` a thread takes an event from `Sample` (the time and the PID) over `Read`
(psutil finds whichever process has the number, or fails) to `Publish`, and through the
subscribers one by one: `Project` for the projector, `Notify` for any other, whose
exception is recorded and makes no difference. Threads may use one observer, so its
events overtake each other and the clock. `Refresh` is `refresh_staleness`; nothing in
`P/` calls it by itself, so no liveness is claimed. `said` (what each source last said
of each field, in the order of projection) is history.

Assumed: the subscriber that keeps the snapshot replaces it in one step (no code in `P/`
does it; the projector only returns a new snapshot). psutil's several readings are one step;
the observers report HEALTHY and ERROR only, as `ProcessObserver` does.

### RuleGovernor, AIPolicy, Governance

`RuleDecide(s)` is `decide`: `RunningRules(s)` lists the rules in the order the code tries
them, each with its condition, its operation and its value; the first that fits and is
supported makes the proposal. Quantities are whole numbers of some unit, so arithmetic is
exact (the code's floats have a tolerance of 1e-12 in the adapter). A summary says how long
ago the last change was, up to the cooldown.

`Judged(s, a)` is the adapter after an answer `a`: an exception (TIMEOUT if it is a
`TimeoutError` of the model's own), a text that is no JSON, an object of the wrong shape,
`null`, or a draft, which `Acceptable` takes or not. Everything but `null` and an acceptable
draft falls back to the rules, with one exception: an answer that *overflows*, JSON nested too
deep for the parser or an integer too large for a float. `decide` catches neither
`RecursionError` nor `OverflowError`; they leave it (`Escapes`), the cycle ends, and the rules
are not asked. In the benchmark such an answer is an exception of the run (`Raise`).

`Governance` closes the loop that `P/` leaves to its caller. A cycle takes a summary
(`Govern`, `Ask`), decides at once or after a call of the model (`Answered`, `TimesOut`),
and its proposal takes effect or not (`Adopt`, `Discard`, `Pass`); the situation of the domain
moves at any time (`Move`). `last_policy_change_at` is taken to be when the caller
carried a proposal out. A model that answers after its time limit answers into the
queue of its own call, which nobody reads, so there is no action for it.

### BaselinePolicy, Comparison and Benchmark

`Resolved(w, b, reply)` is `_resolve_policy`: for a workload, a baseline and what the model
replies. B2 asks `RuleDecide` and B3 `Judged`, the very operators of the governors, about the
`Summary` the harness makes up for the workload, under `DefaultPolicy` (the figures of
`RulePolicy`, in hundredths). `Settings` is what of a policy a workload reacts to. `Report`
is what `compare_run_dirs` makes of runs, with a metric as the set of values its
statistics are computed from.

In `Benchmark` a user is a process of the command line; `job` is the command it executes
with the locals of `run`, `compare_run_dirs` and `GateRunner`; `dir` is the disk.

| label | actions | code |
|---|---|---|
| idle, ended | `Start` | the command line |
| mkdir | `MakeDirectory`, `Finish` | the next run of a matrix, or its end |
| open, fill | `Open`, `Fill` | `write_text` empties a file, then fills it |
| open, nothing left | `Work`, `Return` | policy and workload, after the launch files; the record, after the closing ones |
| choose, read | `Choose`, `ReadFile`, `TakeRun`, `Compare` | `compare_run_dirs` directory by directory, file by file |
| gate, examine, publish | `EarlierOnes`, `Examine`, `Publish` | the gates before the last, what the last asks of its runs, the report |

`phase` says which files a run is writing: those before the workload, those after it, or
those of the handler. `Raise` is an exception or an interrupt at any statement: between the
launch and the return of `run` the handler takes it and writes the closing files again,
its own exceptions leave `run`, those of the comparison and of a gate end the process or fail the
gate. `Kill` ends a process anywhere. `outcome` (what a workload returned and under
which policy) and `upset` (runs that raised after it) are history.

A workload is any of `Outcomes`; a hash stands for its final state. Run ids are new by
construction (time and UUID), and `exist_ok=False` would refuse one that is not; so two
users who fill directories share nothing, and the instance has one of them.

## Runs

| run | question | result |
|---|---|---|
| `dispatch_race` | two threads, three dispatches, two keys, everything else moving | holds, with liveness and refinement |
| `dispatch_kinds` | one thread, every action, every reason to refuse, two providers | holds |
| `runtime` | one runtime, every method, raising events | holds, with termination |
| `runtime_twins` | ticks against jumps, events that can be executed | equal |
| `false_success` | is a CONFIRMED pause a pause? | no |
| `confirmed_replaced` | is a recorded success final? | no |
| `twins_raise` | ticks against jumps when an event raises | they differ |
| `cgroup` | two threads, every method of the Linux provider, two domains with one group name | holds, with termination and refinement |
| `job` | two threads, every method of the Windows provider, handles and process numbers used again | holds, with refinement |
| `observation` | two threads, two observers, three events, subscribers and registrations that change | holds |
| `governance` | four domains, six situations, nineteen answers of the model | holds, with liveness |
| `benchmark` | gates, a matrix or a run against a comparison, one exception, interrupt or kill anywhere | holds |

Bounds. Two callers and three calls are the smallest instance in which one dispatch
of a key is between lookup and claim while another is anywhere, and a third
interferes under another key or repeats after both; a second grant, provider or
domain adds nothing to a race and is left to `dispatch_kinds`. `MaxNow = 1` puts the
clock before or past every deadline. `MaxTick = 1` lets the runtime move once
between two readings. `dispatch_kinds` has two calls so that a restore can follow
its snapshot and a repeat its original. The runtime has three events within two or
three ticks: two at one tick and one elsewhere, all orders; rates of three
quarters and one and a half ticks per quantum and two quanta, so that remainders carry; quarters
below one tick and halves above, rounded to even, so that both the product and the sum of a call
may be rounded. `cgroup` has two
threads, the smallest number that races; two domains whose names collide are both the
case of one domain registered twice and that of two domains, and one process is
what a group needs to be busy. `memory.max` is missing and one `io_max` malformed, so
that a budget fails after its first file and before it. `observation` has three events,
the smallest number with a late event between two of another source, a stale age of one and
two ticks of the clock, so that an event can be fresh when taken and stale when it arrives.
`governance` has steps that do not divide their ranges and exceed the bound on a decision,
domains inside and outside the limits, and one situation in each band of the thresholds.
`job` has two handles for two domains, so that a value is free again only after somebody
closed it and goes to whoever comes first; one budget has both limits, a share half-way
between two units and a byte and a half, one an amount of memory that wraps, one a share out
of bounds; a limit may be refused after the first was set.
`benchmark` has two run ids, a whole matrix of the two baselines that differ most, B0 and B3
(the other two differ from these in their policy only, and B2 is in `FellBack` as what B3
falls back to); two hashes; checks that hold, fail and are none; answers that are taken,
refused and absent. One fault (`MaxFaults`) at any statement: a second one could only
leave behind for good what a comparison already finds while the handler is writing.
`EarlierGates` is one for the six that are alike.

Fairness. `Dispatch`: weak fairness of the steps of a caller that is inside
`dispatch()`, since no statement of it waits for anything but the store's lock, which
is never held across a call. Nothing is promised of calls, clock, runtimes and
registry. `SyntheticRuntime`: weak fairness of the turns of a job; nothing waits in
a method. `CgroupProvider`: weak fairness of the steps of a method that was called; the
only wait, `_wait_frozen`, ends by its deadline, and the kernel is promised nothing.
`Governance`: weak fairness of the cycle and of the clock, that is, whoever governs goes on
doing so; the adapter itself waits for nothing but its queue, with a time limit. The
answer of the model and the success of a proposal are not promised: where a property
needs them or their absence it says so (`RulesDecide`).

`JobProvider` and `Benchmark` claim safety only and assume no fairness: a command waits for
nothing, and a benchmark may be killed at any time.

What the three violations show is told in `findings` of `PROJECT.json`, each with the
sentence of the repository it contradicts:

* **False success.** `apply` reads `realized` after mutating, `verify` compares a
  second reading with that one, never with what was asked. A resume between
  `pause()` and the first reading is invisible to both.
* **A success is replaced.** A dispatch that found no receipt, and is refused
  after another dispatch claimed the key, records its refusal over the other's receipt.
* **Ticks and jumps differ** once an event raised: its siblings stay in the heap
  behind the clock; ticks go past them, jumps refuse to.

Seen while modelling, and no run spent on it:

* `verify` raises when the target was unregistered after `apply`; nothing is recorded, and
  the key answers IN_PROGRESS for ever (`wedged`; `ClaimAccounted` makes it the only exception).
* `cpu.max` is written from a reading made at the start of `apply`, so of two commands racing
  for quota and period one can be undone.
* The handle `apply` looked up may be closed by `unregister_target` and given to the job of
  another domain: the budget lands there, and may be CONFIRMED once the first domain is
  registered again. `KeepsToItsJob` and `BudgetHolds` except exactly that.
* Two racing registrations of a domain overwrite a record, and nobody closes its handle
  (`lost`). Pause and resume act on whoever has the process number. Unregistering neither
  resumes a process nor lifts its limits. A number given as text passes the dispatcher's
  bounds; the memory limit is then refused after the CPU cap was set.
* An amount of memory that a `c_size_t` does not hold wraps, and the budget is CONFIRMED with
  what is left of it; a fraction of a byte is cut (`BudgetHolds` promises the whole bytes).
* An answer of the AI that overflows leaves `decide` as an exception, and the rules are not
  asked in its place (`Escapes`).
* An event without an error removes the domain's error even when another source owns it;
  that source's health stays, and no conflict tells of it (`NothingIsSilent` excepts it).
* An AI draft that lowers a FORENSIC or CUSTOM profile is refused, after which the rules may
  set MINIMAL for quiet background work; a background domain the rules paused is not resumed
  by a rule unless it becomes critical; workers whose model never returns are never stopped.
* A run interrupted after its verdict was written has the handler's metrics beside the
  workload's verdict until the handler is through, for good if the handler is cut short too;
  a comparison counts them (`upset`). `CountedPassed` and `CountingIsSound` except exactly
  this, and say that it counts nothing else then; `docs/validation/M9_COMPARISON.md` promises
  numbers of valid runs only. Seed sets are compared over invalid runs as well. A run of B3 without a
  proposal tells the source AI even when the rules decided. A proposed rate influences no
  workload: in E_MIXED the settings of B2 and B3 are equal.

## Proofs

Every invariant and every safety action property a passing run checks is a theorem, for all
values of the constants that satisfy the modules' `ASSUME`s, and so is every refinement of an
abstract specification. What the runs check on two threads and two domains
holds for any number of callers, threads, users, runtimes, domains, names, handles, events,
policies, answers and bounds.

| module | theorem | says |
|---|---|---|
| `DispatchProof` | `TypeCorrect` | types |
| | `AppliedOnce` | at most one mutation per key |
| | `ClaimsAccounted` | a claim without a receipt has exactly one owner or is wedged |
| | `SuccessApplied` | CONFIRMED only of an applied key |
| | `SettledForGood` | a settled key stays settled and is not applied under again |
| | `ChangesAreGranted` | a runtime changes only by its own advance or under a grant that was cited and names actor, target, action and epoch |
| | `DispatchKeepsPromise` | `Dispatch` implements `CommandOnce` |
| `RuntimeProof` | `TypeCorrect` | types |
| | `ExecutionIsInOrder` | events run at their tick, in the order of tick and number |
| | `EventsAreKept` | every number handed out is executed, raised or pending, once |
| | `OverdueIsExplained` | the clock passes a pending event only after one raised |
| | `RateStaysKept` | ticks and remainder are what the quanta granted, but for two roundings a call |
| `TwinsProof` | `TwinsAgree` | ticks and jumps come to the same state, for payloads that cannot raise |
| `CgroupProof` | `TypeCorrect` | types |
| | `GroupsHaveOneClaim` | every group has exactly one claim, no claim is on a missing group |
| | `BudgetsAreWhole` | a budget that was read back has written every file it names |
| | `FreezesHold` | a confirmed pause or resume holds until the other is asked for |
| | `CgroupKeepsCustody` | the Linux provider implements `Custody` |
| `JobProof` | `TypeCorrect` | types; no limit is one the backend refuses |
| | `HandlesKept` | every open handle has exactly one keeper, no keeper a closed one |
| | `JobKept` | limits go to the job of the command's own domain, unless its record was withdrawn |
| | `BudgetsHold` | a confirmed budget is in force, to half a unit and whole bytes, unless its domain was set since or the amount of memory wraps |
| | `JobKeepsCustody` | the Windows provider implements `Custody` |
| `ObservationProof` | `TypeCorrect` | types |
| | `FieldsAreOwned` | a field shows what its owner said last |
| | `ErrorsAreExplained` | with one source, error and its explanation come together |
| | `NothingIsLost` | an event does what it says or leaves a conflict |
| | `HealthIsFresh` | healthy means observed within the time that counts as fresh |
| | `PublishedWasApplied` | no publication passes the projector without being projected |
| `GovernanceProof` | `TypeCorrect` | types; one proposal at most, of the AI exactly when it is OK |
| | `EnvelopeIsKept` | no decision moves a figure past its bound or out of its envelope |
| | `ChangesAreSpaced` | changes carried out are a cooldown apart |
| | `PaceIsKept` | an interactive domain that starts at normal speed stays there |
| `BenchmarkProof` | `TypeCorrect` | types; every file holds what `run` writes, or part of it, or nothing |
| | `TellingIsBacked` | records and exit codes are backed by the disk and by what was run |
| | `CountingIsSound` | a comparison counts only what passed, with its own numbers, or with those of an error raised after it had passed |

### Assumptions

They are named in the module that declares the constants, and TLC evaluates them in the
runs. They say three kinds of things. What the code's constructors and schemas admit:
`RequestsAssumption`, `CommandsAssumption`, `PayloadsAssumption`, `PolicyAssumption`
(the ranges `RulePolicy` validates), `DomainsAssumption`, `SituationsAssumption`,
`AnswersAssumption`, `OutcomesAssumption`, `BaselinesAssumption`. That bounds and units are
numbers: `BoundsAssumption`, `UnitsAssumption`, `UnitAssumption`, `FloatAssumption`,
`OneAssumption`, `StaleAfterAssumption`, `GatesAssumption`, `FaultsAssumption`. That values which stand for
an absence are none of the values: `NothingAssumption`, `AbsentAssumption`,
`FilesAssumption`, `NamesAssumption`, `ValuesAssumption`. Two fix a figure because the code
does: `HundredthsAssumption` and `DefaultAssumption`, since the harness is only ever built
with `RulePolicy()` (`P/benchmark/harness.py:53`). `PaceIsKept` alone has an assumption
about the start: the code takes any rate for an interactive domain, and promises only not to
slow it below normal. `TwinsAgree` has a hypothesis of its own, `Harmless(Payloads)`. It is
needed: without it the run `twins_raise` finds the twins apart. And it can be met: `MCTwins`
has TLC evaluate it on the payloads of `runtime_twins`, which satisfy it, and on the others,
which do not.

### The invariants, and why they are needed

**Dispatch.** `Inductive` has five parts. `TypeOK`. `FrameOK`: what locals a label implies (a caller
past FindTarget has a target, one at finish a receipt). `HoldersOK`: an owner's key
is claimed and two owners have different keys; this is what `claim` gives and
`complete` must not take away. `ProgressOK`: an owner before its mutation has a key
with no mutation, one after it a key with at most one. `LedgerOK`: per key, an
unclaimed key has no receipt and no mutation, a success has one mutation, a claimed
key without a receipt is owned or wedged. `AtMostOneApply` alone is not inductive: a
step of `Pause` needs to know that nobody has applied under the key, which takes
`HoldersOK` and `ProgressOK` together. One lemma per part and step
(`TypeStep`, `FrameStep`, `HoldersStep`, `ProgressStep`, `LedgerStep`), each with
one case per action. `ChangesAreGranted` adds `GateOK`: whoever is past validation has a
request with a grant that fits, which holds because the arguments of a call never change
and validation lets nothing else past (`AuthorizedIsGranted`, reason by reason).

`DispatchKeepsPromise` adds `DraftsOK` (what the local receipt of a caller may say at
each label: before `finish`, success only of an applied key), and maps each action to a
step of `CommandOnce`: `Claim` to `Lease`, the mutations to `Effect`, `Finish` to
`Close`, `VerifyRaised` to `Abandon`, `Refuse` to `Refuse`, the rest to stuttering
(`QuietStep`). `SoleOwner` is why the lease closes when its owner leaves.

**Runtime.** `Sound(x, j)` holds of every runtime with its job, and of every snapshot, which is
what `restore` needs. `Past`: what was executed or raised came before all that is pending, so
that the next event is in order. `Passed`: nothing pending is behind the clock unless
something raised; at the tick itself only inside `_process_due_events`. `Counted`: the
numbers executed, raised and pending are 0 up to `nextSeq`, and as many as that; the
second half is what makes them disjoint. `Worth`: what was granted is what was walked and the
remainder, to two roundings per call; `Slack = 0`, rates that a float holds exactly with room to
spare, makes it an equation. `OnTime` bounds the turns that are left. `EarliestIs` says that the heap has a
first event (from well-foundedness of the naturals).

**Twins.** While one twin is in the middle of its ticks and the other of its jumps, their states
differ, so `SameHash` says nothing of such a state. `Matched` does: both are on their way to
the same tick (`End`), and one of them *leads to* the other. `LeadsTo(x, y, end)` is a finite
history of runtimes from `x` to `y`, without their clocks, each of which is the one before it
after its earliest event, and all these events are due by `end`. A turn that executes an event
takes the first link off the history (`BehindExecutes`) or adds one at its end
(`AheadExecutes`); a turn that only moves the clock changes no history. `Tame`
carries `Harmless` through every step: what is pending was asked for by some payload, and
what is added to is a number. So nothing raises, and `Passed` of the runtime's own invariant
says that nothing pending is behind the clock: a jump is never refused, and a twin at rest has
no event left that is due by `End`. Then the history has no links, and the twins are equal.

**Linux provider.** Each of three properties needs a part of its own. Groups: `PresentOK` (claims are on
groups that are there, records on the group of their domain), `SoleOK` (no group has two),
`KnownOK` (none has none); a claim is a record, a thread between two steps, or a leak.
Budgets: `Progress` says, of the files a budget names, which are written and which are left at
each label. Freezing: `FreezeOK` says that while a command was the last to write the freezer,
its request stands, and once it was seen to be met stays met.

**Windows provider.** One invariant of four parts: `ShapeOK` (what a thread holds at its label),
`OpenOK` (records, holders and lost handles are open, records on the job of their own
domain), `SoleOK` (no handle has two of them), `KnownOK` (an open handle has one).
`HandlesAccounted` alone is not inductive: that a thread which registers may put its handle
into the record takes that the handle opens the job of the domain it registers, which
`OpenOK` says of the thread before there is a record. One lemma per kind of step
(`CommandStep`, `PassingStep`, `CreateStep`, `CloseStep`, `RecordStep`, `PopStep`).
`JobKept` follows from `OpenOK`: while the record a command started from is there, its handle
opens the job of the command's domain; `OneSets` says that nobody else sets a limit.
For budgets `CourseOK` joins them: of an undisturbed budget the limits it is through with are in
force, unless its record is gone, and then it cannot be confirmed. `Rounding` and `Cutting` are the
arithmetic of a limit: rounding to the unit of Windows moves a share by half a unit at most and
not out of the bounds; cutting and wrapping keep the whole bytes of what a `c_size_t` holds.

**Custody.** Both refinements rest on the invariants above, through `Custodians`: whoever keeps
a group or handle is all that keeps it. With that before and after a step the new keepers
of the one resource a step handles need not be computed, only one of them exhibited; and
a keeper of any other resource is a record or a thread the step did not touch (`Unmoved`).
One lemma per action of `Custody`, and `CommandsKeepLedger` for all that stutters.
`RecordingEnters` is where the providers part: on Linux `PresentOK` and `SoleOK` exclude a
record of the domain whose group the thread has in hand, on Windows there may be one, and its
handle is lost.

**Observation.** `OwnersOK` says that health and the time of observation have one owner, and that
whoever owns a field has spoken; without it a refresh could call a domain stale by the time
of another source. `HoldsWell` says of an event in a thread's hands that it has an error or a
sample and not both.

**Governance.** The adapter asks about a summary and answers later. `WaitingOK` says that
what a governor may change is meanwhile as in the summary, though the situation may be
another; `DecidedOK` that a proposal fits the domain as it is now (`Fits`) and not in its
cooldown. `RulesFit` and `JudgedFits` carry the bounds through the rules and
through an acceptable draft.

**Benchmark.** `Frame(u)` is the spine: a step of one user changes no run but the one that user
writes, and sets an outcome only before it has launched it. From it follows for every
other user, once and for all steps (`KeepOthers`), that what was found stays true. `DirOK` says
what a legible verdict or legible numbers prove of the run; `WritingOK` what a process has
written so far; `Settled` what a record proves, and that nobody writes its run any more;
`ReadingOK` what was read so far of a directory that may be written meanwhile; `GateOK` that the
gate is on its plan (every baseline has run, runs or is yet to run, once) and, when it
fails, has a cause. `FellBack` comes from the governors themselves: `HeardOrRules` says
that an adapter which does not answer OK or ABSTAIN proposes what the rules do, and
`GateHears` that in the gate the built-in model is accepted or silent.

Two statements changed because their proof did not go through. `BudgetHolds` had spoken of any
confirmed command with arguments; the validator does let an `inspect` carry arguments
(`P/control/validator.py:31-37`), which set nothing, so it now says that the command is a
budget, and `MCJob` has such an `inspect`. In `CgroupProvider` what a budget has left to write
is a set of files in the order of `Files`, no longer a sequence: the same steps, and a set
can be reasoned about without recursion.

### Only model-checked

* Liveness: `ClaimsResolve`, `MethodsEnd`, `JobsEnd`, `Settles`, `DebtIsFought`, `RateUnwinds`.
  The prover does not reach fairness and ENABLED.
* The three violations are counterexamples, and need no proof.

## Not modelled, and the plan

What could still be added is an abstract register per field (owner and last statement) that
`Observation` implements; `FieldsAreOwned` and `NothingIsLost` already say of every state and
step what it would say. Proofs of liveness wait for a prover that reaches fairness.

Partly modelled:

* **Domain registry.** `attach` and `detach` are in the environment of `Dispatch`. `register`,
  parents and children are a dictionary that nothing else in the code reads.
* **Harness.** The built-in workloads are computations on numbers and hashes; here they return
  any outcome. Memory of their own they have none.
* **Gates.** The gates before the last are scenarios over the components above, each a
  test of its own; here they pass or fail.
* **Command line and contracts.** Commands and exit codes; not the parsing of arguments and
  schemas.

Left out for good: the ctypes layer of Windows below the calls it makes, the fake backends, and
the mock provider, a test double whose behaviour is a part of the synthetic one.
