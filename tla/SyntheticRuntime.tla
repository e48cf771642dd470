-------------------------- MODULE SyntheticRuntime --------------------------
(***************************************************************************)
(* The deterministic discrete-event runtime: a logical clock, a heap of    *)
(* scheduled events, a rate that turns wall quanta into ticks, and         *)
(* snapshots.  A runtime is driven by one thread; its methods do not       *)
(* interleave, but an event that cannot be executed raises in the middle   *)
(* of whatever method was running and leaves the rest of it undone.  A     *)
(* method that loops is therefore a job with one action per turn of its    *)
(* loop, and no other method starts before the job is over.                *)
(*                                                                         *)
(* A command addresses a set of runtimes, so that RuntimeTwins can give    *)
(* the same command to several.                                            *)
(***************************************************************************)
EXTENDS Sequences, FiniteSetsExt

CONSTANTS
  Runtimes,         \* SyntheticRuntime objects
  StateKeys,        \* keys of the semantic state
  Payloads,         \* what schedule_event may be given, see PayloadType
  Absent,           \* a key that is not in the state, or not in the payload
  NotANumber,       \* a JSON value that is not a number
  Units,            \* a rate of 1.0, rates and remainders being multiples of 1/Units
  Rates,            \* the rates a caller asks for
  Float,            \* the float an exact result is rounded to, in 1/Units
  Slack,            \* what rounding a result of advance_wall_quanta may change
  A, C, M,          \* the linear congruential generator
  Seed,
  MaxTick, MaxEvents, MaxQuanta   \* bounds: clock, events scheduled, quanta a call

ASSUME UnitsAssumption == Units \in Nat \ {0}
ASSUME GeneratorAssumption == A \in Nat /\ C \in Nat /\ M \in Nat \ {0} /\ Seed \in 0..(M - 1)
ASSUME RuntimeBounds == MaxTick \in Nat /\ MaxEvents \in Nat /\ MaxQuanta \in Nat
ASSUME AbsentAssumption == Absent \notin Int \cup {NotANumber} \cup StateKeys

StateValues == Int \cup {NotANumber}

\* value is the value of set and add, and the low end of random_add, whose high
\* end is value + span.
PayloadType ==
  [op : {"set", "add", "random_add"}, key : StateKeys \cup {Absent},
   value : StateValues \cup {Absent}, span : Int]

ASSUME PayloadsAssumption == Payloads \subseteq PayloadType

MinRate == 0
MaxRate == 20 * Units

\* What remainder and quanta may be worth before the last rounding.
MaxTotal == MaxQuanta * MaxRate + Units + Slack

\* The doubles of a machine are multiples of 1/Units for a power of two as Units.
ASSUME FloatAssumption ==
  /\ Slack \in Nat /\ Float \in [0..MaxTotal -> Nat]
  /\ \A n \in 0..MaxTotal : Float[n] <= n + Slack /\ n <= Float[n] + Slack

VARIABLES
  rt,               \* the runtimes
  job,              \* what is left of the method each runtime is executing
  saved             \* the snapshot a caller holds of each runtime, if any

vars == <<rt, job, saved>>

\* log, failed, granted, walked and calls are history: events executed, events whose
\* execution raised, ticks (in 1/Units) earned by wall quanta, of these the ticks
\* handed to step(), and the calls that did so.
Fresh ==
  [tick |-> 0, rate |-> Units, remainder |-> 0, paused |-> FALSE,
   state |-> [k \in StateKeys |-> Absent], events |-> {}, nextSeq |-> 0,
   rng |-> Seed, log |-> <<>>, failed |-> {}, granted |-> 0, walked |-> 0,
   calls |-> 0]

\* left: turns of step() to go; goal: target of run_until in event_jump mode, 0
\* for none; due: inside _process_due_events.
NoJob == [left |-> 0, goal |-> 0, due |-> FALSE]

Idle(r) == job[r] = NoJob

-----------------------------------------------------------------------------
(* The heap.                                                               *)

Precedes(e, f) == e.tick < f.tick \/ (e.tick = f.tick /\ e.seq < f.seq)

\* Variant: events of one tick leave the heap last in, first out.
LastIn(events) ==
  CHOOSE e \in events :
    \A f \in events \ {e} : e.tick < f.tick \/ (e.tick = f.tick /\ e.seq > f.seq)

Earliest(events) == CHOOSE e \in events : \A f \in events \ {e} : Precedes(e, f)

DueNow(x) == x.events # {} /\ Earliest(x.events).tick = x.tick

-----------------------------------------------------------------------------
(* _execute_event.                                                         *)

Number(value) == value \in Int
Old(x, e) == IF x.state[e.key] = Absent THEN 0 ELSE x.state[e.key]

Executable(x, e) ==
  /\ e.key # Absent
  /\ \/ e.op = "set" /\ e.value # Absent
     \/ e.op = "add" /\ Number(e.value) /\ Number(Old(x, e))
     \/ e.op = "random_add" /\ Number(e.value) /\ e.span >= 0 /\ Number(Old(x, e))

NextRandom(x) == (A * x.rng + C) % M

NewValue(x, e) ==
  CASE e.op = "set"        -> e.value
    [] e.op = "add"        -> Old(x, e) + e.value
    [] e.op = "random_add" -> Old(x, e) + e.value + (NextRandom(x) % (e.span + 1))

Popped(x) == [x EXCEPT !.events = @ \ {Earliest(@)}]

Executed(x) ==
  LET e == Earliest(x.events)
  IN  [Popped(x) EXCEPT
        !.state[e.key] = NewValue(x, e),
        !.rng = IF e.op = "random_add" THEN NextRandom(x) ELSE @,
        !.log = Append(@, [at |-> x.tick, tick |-> e.tick, seq |-> e.seq])]

-----------------------------------------------------------------------------
(* The methods.  Command(R, F) runs a method that only changes the runtime. *)

Command(R, Changed(_)) ==
  /\ \A r \in R : Idle(r)
  /\ rt' = [r \in Runtimes |-> IF r \in R THEN Changed(rt[r]) ELSE rt[r]]
  /\ UNCHANGED <<job, saved>>

Planned(x, at, payload) ==
  [x EXCEPT !.events = @ \cup {[tick |-> at, seq |-> x.nextSeq, op |-> payload.op,
                               key |-> payload.key, value |-> payload.value,
                               span |-> payload.span]},
            !.nextSeq = @ + 1]

\* Variant: the current tick is accepted.
ScheduleNow(R, at, payload) ==
  /\ \A r \in R : at >= rt[r].tick /\ rt[r].nextSeq < MaxEvents
  /\ Command(R, LAMBDA x : Planned(x, at, payload))

\* schedule_event refuses a tick that is not in the future, and looks at the
\* operation but not at the rest of the payload. A tick is whole, as annotated: a
\* fraction would be tested as it is and cut off by int() afterwards.
ScheduleEvent(R, at, payload) ==
  /\ \A r \in R : at > rt[r].tick /\ rt[r].nextSeq < MaxEvents
  /\ Command(R, LAMBDA x : Planned(x, at, payload))

SetRate(R, rate) ==
  /\ rate \in MinRate..MaxRate
  /\ Command(R, LAMBDA x : [x EXCEPT !.rate = rate])

Pause(R)  == Command(R, LAMBDA x : [x EXCEPT !.paused = TRUE])
Resume(R) == Command(R, LAMBDA x : [x EXCEPT !.paused = FALSE])

Snapshot(R) ==
  /\ \A r \in R : Idle(r)
  /\ saved' = [r \in Runtimes |-> IF r \in R THEN {rt[r]} ELSE saved[r]]
  /\ UNCHANGED <<rt, job>>

\* Variant: the heap is not restored.
RestoreWithoutHeap(R) ==
  /\ \A r \in R : Idle(r) /\ saved[r] # {}
  /\ rt' = [r \in Runtimes |->
             IF r \in R
             THEN [(CHOOSE x \in saved[r] : TRUE) EXCEPT !.events = rt[r].events]
             ELSE rt[r]]
  /\ UNCHANGED <<job, saved>>

Restore(R) ==
  /\ \A r \in R : Idle(r) /\ saved[r] # {}
  /\ rt' = [r \in Runtimes |->
             IF r \in R THEN CHOOSE x \in saved[r] : TRUE ELSE rt[r]]
  /\ UNCHANGED <<job, saved>>

\* A looping method starts on the runtimes R, each with a job of its own.
Start(R, Job(_)) ==
  /\ \A r \in R : Idle(r) /\ ~rt[r].paused
  /\ job' = [r \in Runtimes |-> IF r \in R THEN Job(r) ELSE job[r]]
  /\ UNCHANGED saved

Steps(n) == [NoJob EXCEPT !.left = n]

\* step(units), and run_until(tick + units) in tick mode.
Step(R, units) ==
  /\ \A r \in R : rt[r].tick + units <= MaxTick
  /\ units > 0
  /\ Start(R, LAMBDA r : Steps(units))
  /\ UNCHANGED rt

\* Variant: the remainder of earlier quanta is dropped.
TotalAfresh(x, quanta) == Float[quanta * x.rate]

\* What quanta are worth, in 1/Units: product and sum are rounded, while cutting the
\* total into whole ticks and a fraction is exact.
Total(x, quanta) == Float[x.remainder + Float[quanta * x.rate]]

\* Variant: the whole ticks stay in the remainder.
GrantedTwice(x, quanta) ==
  [x EXCEPT !.remainder = Total(x, quanta), !.calls = @ + 1,
            !.granted = @ + quanta * x.rate,
            !.walked = @ + (Total(x, quanta) \div Units)]

Granted(x, quanta) ==
  [x EXCEPT !.remainder = Total(x, quanta) % Units, !.calls = @ + 1,
            !.granted = @ + quanta * x.rate,
            !.walked = @ + (Total(x, quanta) \div Units)]

\* The fraction of a tick left over is stored before the ticks are taken.
AdvanceWallQuanta(R, quanta) ==
  /\ \A r \in R : rt[r].tick + (Total(rt[r], quanta) \div Units) <= MaxTick
  /\ Start(R, LAMBDA r : Steps(Total(rt[r], quanta) \div Units))
  /\ rt' = [r \in Runtimes |-> IF r \in R THEN Granted(rt[r], quanta) ELSE rt[r]]

\* run_until(target) in event_jump mode.
RunUntilJump(R, target) ==
  /\ \A r \in R : rt[r].tick < target
  /\ target <= MaxTick
  /\ Start(R, LAMBDA r : [NoJob EXCEPT !.goal = target])
  /\ UNCHANGED rt

\* event_jump(): on an overdue head it raises and changes nothing.
EventJump(R) ==
  /\ \A r \in R : rt[r].events # {} /\ Earliest(rt[r].events).tick > rt[r].tick
  /\ Start(R, LAMBDA r : [NoJob EXCEPT !.due = TRUE])
  /\ rt' = [r \in Runtimes |->
       IF r \in R THEN [rt[r] EXCEPT !.tick = Earliest(rt[r].events).tick] ELSE rt[r]]

-----------------------------------------------------------------------------
(* The turns of a job.                                                     *)

Become(r, x, j) ==
  /\ rt'  = [rt EXCEPT ![r] = x]
  /\ job' = [job EXCEPT ![r] = j]
  /\ UNCHANGED saved

\* One turn of step(): the clock advances, then the due events are processed.
Tick(r) ==
  /\ job[r].left > 0 /\ ~job[r].due
  /\ Become(r, [rt[r] EXCEPT !.tick = @ + 1],
               [job[r] EXCEPT !.left = @ - 1, !.due = TRUE])

\* One turn of _process_due_events.
Execute(r) ==
  /\ job[r].due /\ DueNow(rt[r])
  /\ Executable(rt[r], Earliest(rt[r].events))
  /\ Become(r, Executed(rt[r]), job[r])

\* _execute_event raises: the event is gone, and the exception leaves the method.
Raise(r) ==
  /\ job[r].due /\ DueNow(rt[r])
  /\ ~Executable(rt[r], Earliest(rt[r].events))
  /\ Become(r, [Popped(rt[r]) EXCEPT !.failed = @ \cup {Earliest(rt[r].events)}], NoJob)

Drained(r) ==
  /\ job[r].due /\ ~DueNow(rt[r])
  /\ Become(r, rt[r], [job[r] EXCEPT !.due = FALSE])

\* Variant: events at the target itself are left for later.
Before(r) == rt[r].events # {} /\ Earliest(rt[r].events).tick < job[r].goal

Within(r) == rt[r].events # {} /\ Earliest(rt[r].events).tick <= job[r].goal

\* One turn of run_until: the clock jumps to the earliest event.
Jump(r) ==
  /\ job[r].goal > 0 /\ ~job[r].due /\ Within(r)
  /\ Earliest(rt[r].events).tick > rt[r].tick
  /\ Become(r, [rt[r] EXCEPT !.tick = Earliest(rt[r].events).tick],
               [job[r] EXCEPT !.due = TRUE])

\* Variant: event_jump returns 0 on an overdue event instead.
Stall(r) ==
  /\ job[r].goal > 0 /\ ~job[r].due /\ Within(r)
  /\ Earliest(rt[r].events).tick <= rt[r].tick
  /\ Become(r, rt[r], job[r])

\* event_jump raises on an overdue event, and run_until with it.
Refuse(r) ==
  /\ job[r].goal > 0 /\ ~job[r].due /\ Within(r)
  /\ Earliest(rt[r].events).tick <= rt[r].tick
  /\ Become(r, rt[r], NoJob)

\* No event is left before the target: the clock jumps there.
Land(r) ==
  /\ job[r].goal > 0 /\ ~job[r].due /\ ~Within(r)
  /\ Become(r, [rt[r] EXCEPT !.tick = IF @ < job[r].goal THEN job[r].goal ELSE @], NoJob)

Turn(r) == \/ Tick(r) \/ Execute(r) \/ Raise(r) \/ Drained(r)
           \/ Jump(r) \/ Refuse(r) \/ Land(r)

-----------------------------------------------------------------------------
Init ==
  /\ rt    = [r \in Runtimes |-> Fresh]
  /\ job   = [r \in Runtimes |-> NoJob]
  /\ saved = [r \in Runtimes |-> {}]

\* The commands that are the same in both modes of execution.
Control(R) ==
  \/ \E at \in 1..MaxTick, payload \in Payloads : ScheduleEvent(R, at, payload)
  \/ \E rate \in Rates : SetRate(R, rate)
  \/ Pause(R) \/ Resume(R) \/ Snapshot(R) \/ Restore(R)
  \/ \E quanta \in 1..MaxQuanta : AdvanceWallQuanta(R, quanta)

Drive(R) ==
  \/ \E units \in 1..MaxTick : Step(R, units)
  \/ \E target \in 1..MaxTick : RunUntilJump(R, target)
  \/ EventJump(R)

Next == \E r \in Runtimes : Control({r}) \/ Drive({r}) \/ Turn(r)

\* A method that was called goes on to its end: nothing in it waits.
Fairness == \A r \in Runtimes : WF_vars(Turn(r))

Spec == Init /\ [][Next]_vars /\ Fairness

-----------------------------------------------------------------------------
(* What a runtime promises.                                                *)

EventType ==
  [tick : 1..MaxTick, seq : 0..MaxEvents, op : {"set", "add", "random_add"},
   key : StateKeys \cup {Absent}, value : StateValues \cup {Absent}, span : Int]

RuntimeType ==
  [tick : 0..MaxTick, rate : MinRate..MaxRate, remainder : 0..(Units - 1),
   paused : BOOLEAN, state : [StateKeys -> StateValues \cup {Absent}],
   events : SUBSET EventType, nextSeq : 0..MaxEvents, rng : 0..(M - 1),
   log : Seq([at : Nat, tick : Nat, seq : Nat]), failed : SUBSET EventType,
   granted : Nat, walked : Nat, calls : Nat]

JobType == [left : 0..MaxTick, goal : 0..MaxTick, due : BOOLEAN]

\* Every field of a runtime, a snapshot and a job holds what the code can put
\* there; in particular the remainder stays below one tick.
TypeOK ==
  /\ rt \in [Runtimes -> RuntimeType]
  /\ job \in [Runtimes -> JobType]
  /\ \A r \in Runtimes : saved[r] \subseteq RuntimeType

\* An event is left behind the clock only after an event before it raised:
\* whatever mix of step, jump, quanta and restore moved the clock there.
OverdueOnlyAfterFailure ==
  \A r \in Runtimes : \A e \in rt[r].events :
    Idle(r) /\ e.tick <= rt[r].tick => \E f \in rt[r].failed : Precedes(f, e)

\* Events are executed at their own tick, in the order of tick and sequence,
\* also across a restore that rewinds the clock and reuses sequence numbers.
ExecutedInOrder ==
  \A r \in Runtimes :
    LET log == rt[r].log
    IN  /\ \A i \in DOMAIN log : log[i].at = log[i].tick
        /\ \A i, j \in DOMAIN log : i < j => Precedes(log[i], log[j])

Numbers(S) == {e.seq : e \in S}

\* No event is lost, duplicated or executed twice: the sequence numbers handed
\* out are those executed, those that raised and those pending, each once.
EveryEventOnce ==
  \A r \in Runtimes :
    LET x == rt[r]
        executed == {x.log[i].seq : i \in DOMAIN x.log}
    IN  /\ executed \cup Numbers(x.failed) \cup Numbers(x.events) = 0..(x.nextSeq - 1)
        /\ Len(x.log) + Cardinality(x.failed) + Cardinality(x.events) = x.nextSeq

\* Wall quanta are worth their rate: the ticks they were turned into and the
\* remainder make up what was granted, under any sequence of rate changes, pauses and
\* restores, but for the two roundings of each call, which may add up.
RateIsKept ==
  \A r \in Runtimes :
    LET x == rt[r]
        made == Units * x.walked + x.remainder
    IN  x.granted <= made + 2 * Slack * x.calls /\ made <= x.granted + 2 * Slack * x.calls

\* Every method comes to its end, by returning or by raising.
MethodsEnd == \A r \in Runtimes : ~Idle(r) ~> Idle(r)
=============================================================================
