----------------------------- MODULE TwinsProof -----------------------------
(***************************************************************************)
(* For any payloads that cannot raise, any generator and any mixture of    *)
(* commands: whichever twin is ahead, the other will execute the same      *)
(* events with the same results before it comes to rest.                   *)
(***************************************************************************)
EXTENDS RuntimeTwins, RuntimeProof

-----------------------------------------------------------------------------
(* The invariant.                                                          *)

\* The event is what some payload asked for.
Sent(e) ==
  \E p \in Payloads :
    e.op = p.op /\ e.key = p.key /\ e.value = p.value /\ e.span = p.span

\* Nothing has raised, and nothing that is pending will.
Tame(x) ==
  /\ x.failed = {}
  /\ \A e \in x.events : Sent(e)
  /\ \A k \in StateKeys :
       \/ x.state[k] = Absent \/ Number(x.state[k])
       \/ \A p \in Payloads : p.key = k => p.op = "set"

\* A runtime but for its clock.
Timeless(x) == [x EXCEPT !.tick = 0]

\* The runtime that has gone on to its earliest event and executed it.
Advanced(x) ==
  Timeless(Executed([x EXCEPT !.tick = Earliest(x.events).tick]))

Open(x, end) == x.events # {} /\ Earliest(x.events).tick <= end

\* Executing events up to the tick end makes y of x, sooner or later.
LeadsTo(x, y, end) ==
  \E n \in Nat : \E h \in [0..n -> RuntimeType] :
    /\ h[0] = Timeless(x) /\ h[n] = Timeless(y)
    /\ \A i \in 0..(n - 1) : Open(h[i], end) /\ h[i + 1] = Advanced(h[i])

\* The tick at which a twin will come to rest.
End(r) == IF job[r].goal > 0 THEN job[r].goal ELSE rt[r].tick + job[r].left

Paired(r, q) ==
  /\ End(r) = End(q) /\ saved[r] = saved[q]
  /\ LeadsTo(rt[r], rt[q], End(r)) \/ LeadsTo(rt[q], rt[r], End(r))

Calm ==
  \A r \in Runtimes :
    /\ Tame(rt[r]) /\ \A x \in saved[r] : Tame(x)
    /\ job[r].goal > 0 => rt[r].tick <= job[r].goal

Matched == Inductive /\ Calm /\ Paired(Ticker, Jumper)

-----------------------------------------------------------------------------
(* Runtimes that cannot raise.                                             *)

\* What a payload asked for can be executed.
LEMMA TameExecutes ==
  ASSUME Harmless(Payloads), NEW x \in RuntimeType, Tame(x), NEW e \in x.events
  PROVE  Executable(x, e)
  <1>1. PICK p \in Payloads :
          e.op = p.op /\ e.key = p.key /\ e.value = p.value /\ e.span = p.span
    BY DEF Tame, Sent
  <1>2. p \in PayloadType /\ p.key # Absent /\ p.value # Absent
    BY PayloadsAssumption DEF Harmless
  <1>3. p.op \in {"set", "add", "random_add"} /\ p.key \in StateKeys
    BY <1>2 DEF PayloadType
  <1>4. ASSUME p.op # "set"
        PROVE  Number(e.value) /\ Number(Old(x, e))
    <2>1. Number(e.value)
      BY <1>1, <1>4 DEF Harmless
    <2>2. x.state[e.key] = Absent \/ Number(x.state[e.key])
      BY <1>1, <1>3, <1>4 DEF Tame
    <2> QED BY <2>1, <2>2 DEF Old, Number
  <1>5. p.op = "random_add" => e.span >= 0
    BY <1>1 DEF Harmless
  <1> QED BY <1>1, <1>2, <1>3, <1>4, <1>5 DEF Executable

\* What executing an event does to each field.
LEMMA ExecutedFields ==
  ASSUME NEW x \in RuntimeType
  PROVE  LET e == Earliest(x.events)
             y == Executed(x)
         IN  /\ y.failed = x.failed /\ y.events = x.events \ {e} /\ y.tick = x.tick
             /\ y.state = [x.state EXCEPT ![e.key] = NewValue(x, e)]
  BY DEF Executed, Popped, RuntimeType

\* Executing an event of a harmless payload raises no failure and plans nothing.
LEMMA ExecutedIsTame ==
  ASSUME Harmless(Payloads), NEW x \in RuntimeType, Tame(x), Counted(x), x.events # {}
  PROVE  Tame(Executed(x))
  <1> DEFINE e == Earliest(x.events)
             y == Executed(x)
  <1>1. e \in x.events /\ e \in EventType
    BY Pops
  <1>2. /\ y.failed = {} /\ y.events = x.events \ {e}
        /\ y.state = [x.state EXCEPT ![e.key] = NewValue(x, e)]
    BY ExecutedFields DEF Tame
  <1> HIDE DEF e, y
  <1>3. Executable(x, e)
    BY <1>1, TameExecutes
  <1>4. e.key \in StateKeys /\ NewValue(x, e) \in StateValues
    BY <1>1, <1>3, NewValues
  <1>5. PICK p \in Payloads :
          e.op = p.op /\ e.key = p.key /\ e.value = p.value /\ e.span = p.span
    BY <1>1 DEF Tame, Sent
  <1>6. Number(NewValue(x, e)) \/ \A q \in Payloads : q.key = e.key => q.op = "set"
    <2>1. CASE e.op = "set"
      <3>1. NewValue(x, e) = p.value
        BY <1>5, <2>1 DEF NewValue
      <3> QED BY <1>5, <3>1 DEF Harmless
    <2>2. CASE e.op # "set"
      <3>1. e.value \in Int /\ Old(x, e) \in Int
        BY <1>3, <2>2 DEF Executable, Number
      <3>2. CASE e.op = "add"
        BY <3>1, <3>2 DEF NewValue, Number
      <3>3. CASE e.op = "random_add"
        <4>1. e.span + 1 \in Nat \ {0}
          BY <1>1, <1>3, <3>3 DEF Executable, EventType
        <4>2. NextRandom(x) \in Nat
          BY <1>1, <1>3, NewValues, GeneratorAssumption
        <4>3. NextRandom(x) % (e.span + 1) \in Int
          BY <4>1, <4>2, WholeTicks
        <4> QED BY <3>1, <3>3, <4>3 DEF NewValue, Number
      <3> QED BY <1>3, <2>2, <3>2, <3>3 DEF Executable
    <2> QED BY <2>1, <2>2
  <1>7. \A k \in StateKeys : y.state[k] = IF k = e.key THEN NewValue(x, e) ELSE x.state[k]
    BY <1>2, <1>4 DEF RuntimeType
  <1> QED BY <1>2, <1>6, <1>7 DEF Tame, y

-----------------------------------------------------------------------------
(* Executions.                                                             *)

\* The clock is all that a runtime and its timeless form differ in.
LEMMA TimelessFields ==
  ASSUME NEW x \in RuntimeType
  PROVE  /\ Timeless(x) \in RuntimeType /\ Timeless(x).events = x.events
         /\ \A n : [Timeless(x) EXCEPT !.tick = n] = [x EXCEPT !.tick = n]
         /\ [x EXCEPT !.tick = x.tick] = x
         /\ \A n : Timeless([x EXCEPT !.tick = n]) = Timeless(x)
  <1>1. 0 \in 0..MaxTick
    BY RuntimeBounds
  <1>2. Timeless(x) \in RuntimeType
    BY <1>1, Fields DEF Timeless
  <1> QED BY <1>2 DEF Timeless, RuntimeType

\* Runtimes that are the same but for their clocks, at the same tick, are the same.
LEMMA SameTime ==
  ASSUME NEW x \in RuntimeType, NEW y \in RuntimeType,
         Timeless(x) = Timeless(y), x.tick = y.tick
  PROVE  x = y
  <1>1. x = [Timeless(x) EXCEPT !.tick = x.tick] /\ y = [Timeless(y) EXCEPT !.tick = y.tick]
    BY TimelessFields
  <1> QED BY <1>1

\* Executing a due event is an advance, clock or no clock.
LEMMA ExecutionAdvances ==
  ASSUME NEW x \in RuntimeType, DueNow(x)
  PROVE  Timeless(Executed(x)) = Advanced(Timeless(x))
  <1>1. [Timeless(x) EXCEPT !.tick = Earliest(x.events).tick] = x
    BY TimelessFields DEF DueNow
  <1> QED BY <1>1, TimelessFields DEF Advanced

\* A runtime leads to itself in no turns, whatever its tick.
LEMMA LeadsToItself ==
  ASSUME NEW x \in RuntimeType, NEW y \in RuntimeType, Timeless(x) = Timeless(y), NEW end
  PROVE  LeadsTo(x, y, end)
  <1> DEFINE h == [i \in 0..0 |-> Timeless(x)]
  <1>1. h \in [0..0 -> RuntimeType] /\ h[0] = Timeless(x)
    BY TimelessFields
  <1>2. 0..(0 - 1) = {}
    OBVIOUS
  <1> HIDE DEF h
  <1> QED BY <1>1, <1>2 DEF LeadsTo

\* The one that is ahead goes on.
LEMMA AheadExecutes ==
  ASSUME NEW x \in RuntimeType, NEW y \in RuntimeType, NEW end \in Nat, LeadsTo(x, y, end),
         DueNow(y), y.tick <= end, Executed(y) \in RuntimeType
  PROVE  LeadsTo(x, Executed(y), end)
  <1>0. PICK n \in Nat : \E h \in [0..n -> RuntimeType] :
          /\ h[0] = Timeless(x) /\ h[n] = Timeless(y)
          /\ \A i \in 0..(n - 1) : Open(h[i], end) /\ h[i + 1] = Advanced(h[i])
    BY DEF LeadsTo
  <1>1. PICK h \in [0..n -> RuntimeType] :
          /\ h[0] = Timeless(x) /\ h[n] = Timeless(y)
          /\ \A i \in 0..(n - 1) : Open(h[i], end) /\ h[i + 1] = Advanced(h[i])
    BY <1>0
  <1> DEFINE g == [i \in 0..(n + 1) |-> IF i = n + 1 THEN Timeless(Executed(y)) ELSE h[i]]
  <1>2. /\ n + 1 \in Nat /\ g \in [0..(n + 1) -> RuntimeType]
        /\ g[n + 1] = Timeless(Executed(y))
        /\ \A i \in 0..n : g[i] = h[i]
    BY <1>1, TimelessFields
  <1> HIDE DEF g
  <1>3. Open(h[n], end)
    BY <1>1, TimelessFields DEF Open, DueNow
  <1>4. g[n + 1] = Advanced(h[n])
    BY <1>1, <1>2, ExecutionAdvances
  <1>5. ASSUME NEW i \in 0..n
        PROVE  Open(g[i], end) /\ g[i + 1] = Advanced(g[i])
    <2>1. CASE i = n
      BY <1>2, <1>3, <1>4, <2>1
    <2>2. CASE i # n
      <3>1. i \in 0..(n - 1) /\ i + 1 \in 0..n
        BY <2>2
      <3> QED BY <1>1, <1>2, <3>1
    <2> QED BY <2>1, <2>2
  <1>6. g[0] = Timeless(x) /\ 0..((n + 1) - 1) = 0..n
    BY <1>1, <1>2
  <1> QED BY <1>2, <1>5, <1>6 DEF LeadsTo

\* The one that is behind executes what the other has executed already.
LEMMA BehindExecutes ==
  ASSUME NEW x \in RuntimeType, NEW y \in RuntimeType, NEW end, LeadsTo(x, y, end),
         DueNow(x), Executed(x) \in RuntimeType
  PROVE  Timeless(x) = Timeless(y) \/ LeadsTo(Executed(x), y, end)
  <1>0. PICK n \in Nat : \E h \in [0..n -> RuntimeType] :
          /\ h[0] = Timeless(x) /\ h[n] = Timeless(y)
          /\ \A i \in 0..(n - 1) : Open(h[i], end) /\ h[i + 1] = Advanced(h[i])
    BY DEF LeadsTo
  <1>1. PICK h \in [0..n -> RuntimeType] :
          /\ h[0] = Timeless(x) /\ h[n] = Timeless(y)
          /\ \A i \in 0..(n - 1) : Open(h[i], end) /\ h[i + 1] = Advanced(h[i])
    BY <1>0
  <1>2. CASE n = 0
    BY <1>1, <1>2
  <1>3. CASE n # 0
    <2> DEFINE g == [i \in 0..(n - 1) |-> h[i + 1]]
    <2>1. n - 1 \in Nat /\ \A i \in 0..(n - 1) : i + 1 \in 0..n
      BY <1>3
    <2>2. /\ g \in [0..(n - 1) -> RuntimeType]
          /\ \A i \in 0..(n - 1) : g[i] = h[i + 1]
      BY <1>1, <2>1
    <2> HIDE DEF g
    <2>3. g[0] = Timeless(Executed(x))
      <3>1. 0 \in 0..(n - 1) /\ 0 + 1 = 1
        BY <2>1
      <3>2. h[1] = Advanced(h[0])
        BY <1>1, <3>1
      <3> QED BY <1>1, <2>2, <3>1, <3>2, ExecutionAdvances
    <2>4. g[n - 1] = Timeless(y)
      <3>1. n - 1 \in 0..(n - 1) /\ (n - 1) + 1 = n
        BY <2>1
      <3> QED BY <1>1, <2>2, <3>1
    <2>5. \A i \in 0..((n - 1) - 1) : Open(g[i], end) /\ g[i + 1] = Advanced(g[i])
      <3> TAKE i \in 0..((n - 1) - 1)
      <3>1. i \in 0..(n - 1) /\ i + 1 \in 0..(n - 1)
        BY <2>1
      <3>2. Open(h[i + 1], end) /\ h[(i + 1) + 1] = Advanced(h[i + 1])
        BY <1>1, <3>1
      <3> QED BY <2>2, <3>1, <3>2
    <2> QED BY <2>1, <2>2, <2>3, <2>4, <2>5 DEF LeadsTo
  <1> QED BY <1>2, <1>3

\* One that has no event left to execute is not behind.
LEMMA ClosedIsAhead ==
  ASSUME NEW x \in RuntimeType, NEW y \in RuntimeType, NEW end, LeadsTo(x, y, end),
         ~Open(x, end)
  PROVE  Timeless(x) = Timeless(y)
  <1>0. PICK n \in Nat : \E h \in [0..n -> RuntimeType] :
          /\ h[0] = Timeless(x) /\ h[n] = Timeless(y)
          /\ \A i \in 0..(n - 1) : Open(h[i], end) /\ h[i + 1] = Advanced(h[i])
    BY DEF LeadsTo
  <1>1. PICK h \in [0..n -> RuntimeType] :
          /\ h[0] = Timeless(x) /\ h[n] = Timeless(y)
          /\ \A i \in 0..(n - 1) : Open(h[i], end) /\ h[i + 1] = Advanced(h[i])
    BY <1>0
  <1>2. ~Open(h[0], end)
    BY <1>1, TimelessFields DEF Open
  <1>3. n = 0
    <2>1. n # 0 => 0 \in 0..(n - 1)
      OBVIOUS
    <2> QED BY <1>1, <1>2, <2>1
  <1> QED BY <1>1, <1>3

-----------------------------------------------------------------------------
(* Between methods.                                                        *)

\* A twin at rest has executed all that it was to execute.
LEMMA RestIsClosed ==
  ASSUME Inductive, Calm, NEW r \in Runtimes, Idle(r)
  PROVE  End(r) = rt[r].tick /\ ~Open(rt[r], End(r))
  <1>1. /\ rt[r] \in RuntimeType /\ Passed(rt[r], FALSE) /\ Counted(rt[r]) /\ rt[r].tick \in Nat
    <2>1. Sound(rt[r], NoJob) /\ NoJob.due = FALSE
      BY DEF Inductive, Idle, NoJob
    <2>2. rt[r] \in RuntimeType
      BY DEF Inductive
    <2>3. rt[r].tick \in 0..MaxTick
      BY <2>2 DEF RuntimeType
    <2>4. Passed(rt[r], FALSE) /\ Counted(rt[r])
      BY <2>1 DEF Sound
    <2>5. rt[r].tick \in Nat
      BY <2>3, RuntimeBounds
    <2> QED BY <2>2, <2>4, <2>5
  <1>2. End(r) = rt[r].tick
    BY <1>1 DEF End, Idle, NoJob
  <1>3. ASSUME Open(rt[r], End(r))
        PROVE  FALSE
    <2>1. Earliest(rt[r].events) \in rt[r].events /\ Earliest(rt[r].events) \in EventType
      BY <1>1, <1>3, Pops DEF Open
    <2>2. Earliest(rt[r].events).tick \in Nat
      BY <2>1 DEF EventType
    <2>3. rt[r].failed = {}
      BY DEF Calm, Tame
    <2> QED BY <1>1, <1>2, <1>3, <2>1, <2>2, <2>3 DEF Open, Passed
  <1> QED BY <1>2, <1>3

\* Twins that are both at rest are the same.
LEMMA RestIsSame ==
  ASSUME Matched, Idle(Ticker), Idle(Jumper)
  PROVE  rt[Ticker] = rt[Jumper] /\ saved[Ticker] = saved[Jumper]
  <1>1. /\ Ticker \in Runtimes /\ Jumper \in Runtimes
        /\ rt[Ticker] \in RuntimeType /\ rt[Jumper] \in RuntimeType
    BY TwinsAssumption DEF Matched, Inductive
  <1>2. /\ End(Ticker) = rt[Ticker].tick /\ ~Open(rt[Ticker], End(Ticker))
        /\ End(Jumper) = rt[Jumper].tick /\ ~Open(rt[Jumper], End(Jumper))
    BY <1>1, RestIsClosed DEF Matched
  <1>3. Timeless(rt[Ticker]) = Timeless(rt[Jumper])
    BY <1>1, <1>2, ClosedIsAhead DEF Matched, Paired
  <1> QED BY <1>1, <1>2, <1>3, SameTime DEF Matched, Paired

\* Twins that are the same, and will come to rest at the same tick, are matched.
LEMMA SameIsMatched ==
  ASSUME Inductive, Calm, rt[Ticker] = rt[Jumper], saved[Ticker] = saved[Jumper],
         End(Ticker) = End(Jumper)
  PROVE  Matched
  <1>1. rt[Ticker] \in RuntimeType /\ rt[Jumper] \in RuntimeType
    BY TwinsAssumption DEF Inductive
  <1>2. LeadsTo(rt[Ticker], rt[Jumper], End(Ticker))
    BY <1>1, LeadsToItself
  <1> QED BY <1>2 DEF Matched, Paired

\* Neither the clock nor what wall quanta were worth, neither rate nor pause is what
\* an event may fail of.
LEMMA TameFields ==
  ASSUME NEW x, NEW y, Tame(x),
         y.events = x.events, y.failed = x.failed, y.state = x.state
  PROVE  Tame(y)
  BY DEF Tame

\* Planning, changing rate, pausing, jumping and granting time leave a runtime tame.
LEMMA CommandsAreTame ==
  ASSUME NEW x \in RuntimeType, Tame(x)
  PROVE  /\ \A at \in 1..MaxTick, p \in Payloads : Tame(Planned(x, at, p))
         /\ \A v : Tame([x EXCEPT !.rate = v]) /\ Tame([x EXCEPT !.paused = v])
                   /\ Tame([x EXCEPT !.tick = v])
         /\ \A quanta : Tame(Granted(x, quanta))
  <1>1. ASSUME NEW at \in 1..MaxTick, NEW p \in Payloads
        PROVE  Tame(Planned(x, at, p))
    <2> DEFINE e == [tick |-> at, seq |-> x.nextSeq, op |-> p.op, key |-> p.key,
                     value |-> p.value, span |-> p.span]
               y == Planned(x, at, p)
    <2>1. Sent(e)
      BY DEF Sent
    <2>2. y.events = x.events \cup {e} /\ y.failed = x.failed /\ y.state = x.state
      BY DEF Planned, RuntimeType
    <2> HIDE DEF e, y
    <2>3. Tame(y)
      BY <2>1, <2>2 DEF Tame
    <2> QED BY <2>3 DEF y
  <1>2. \A v : Tame([x EXCEPT !.rate = v]) /\ Tame([x EXCEPT !.paused = v])
               /\ Tame([x EXCEPT !.tick = v])
    BY DEF Tame, RuntimeType
  <1>3. ASSUME NEW quanta
        PROVE  Tame(Granted(x, quanta))
    <2> DEFINE y == Granted(x, quanta)
    <2>1. y.events = x.events /\ y.failed = x.failed /\ y.state = x.state
      BY DEF Granted, RuntimeType
    <2> HIDE DEF y
    <2>2. Tame(y)
      BY <2>1, TameFields
    <2> QED BY <2>2 DEF y
  <1> QED BY <1>1, <1>2, <1>3

\* The twins start alike, with nothing planned.
LEMMA TwinsStart == Init => Matched
  <1> SUFFICES ASSUME Init PROVE Matched
    OBVIOUS
  <1>1. Inductive
    BY Starts
  <1>2. Tame(Fresh) /\ \A r \in Runtimes : rt[r] = Fresh /\ job[r] = NoJob /\ saved[r] = {}
    BY DEF Init, Tame, Fresh
  <1>3. Calm
    BY <1>2 DEF Calm, NoJob
  <1>4. End(Ticker) = End(Jumper)
    BY <1>2, TwinsAssumption DEF End
  <1> QED BY <1>1, <1>2, <1>3, <1>4, SameIsMatched, TwinsAssumption

\* A command given to both finds them the same and leaves them the same.
LEMMA ControlMatches ==
  ASSUME Matched, Control(Runtimes)
  PROVE  Matched'
  <1>1. Inductive' /\ Ticker \in Runtimes /\ Jumper \in Runtimes
    BY ControlKeeps, TwinsAssumption DEF Matched
  <1>2. \A r \in Runtimes : Idle(r) /\ job[r] = NoJob
    BY DEF Control, ScheduleEvent, SetRate, Pause, Resume, Command, Snapshot, Restore,
           AdvanceWallQuanta, Start, Idle
  <1>3. rt[Ticker] = rt[Jumper] /\ saved[Ticker] = saved[Jumper]
    BY <1>1, <1>2, RestIsSame
  <1>4. \A r \in Runtimes : rt[r] \in RuntimeType /\ Tame(rt[r]) /\ \A x \in saved[r] : Tame(x)
    BY DEF Matched, Inductive, Calm
  <1> DEFINE Same == /\ rt'[Ticker] = rt'[Jumper] /\ job'[Ticker] = job'[Jumper]
                     /\ saved'[Ticker] = saved'[Jumper]
             Fine == \A r \in Runtimes :
                       job'[r].goal = 0 /\ Tame(rt'[r]) /\ \A x \in saved'[r] : Tame(x)
  <1>5. \A r \in Runtimes : job[r].goal = 0
    BY <1>2 DEF NoJob
  <1>6. ASSUME NEW at \in 1..MaxTick, NEW p \in Payloads, ScheduleEvent(Runtimes, at, p)
        PROVE  Same /\ Fine
    <2>1. /\ job' = job /\ saved' = saved
          /\ rt' = [r \in Runtimes |-> Planned(rt[r], at, p)]
      BY <1>6 DEF ScheduleEvent, Command
    <2>2. \A r \in Runtimes : Tame(Planned(rt[r], at, p))
      BY <1>4, CommandsAreTame
    <2>3. Same
      BY <1>1, <1>2, <1>3, <2>1
    <2>4. Fine
      BY <1>4, <1>5, <2>1, <2>2
    <2> QED BY <2>3, <2>4
  <1>7. ASSUME NEW rate \in Rates, SetRate(Runtimes, rate)
        PROVE  Same /\ Fine
    <2>1. /\ job' = job /\ saved' = saved
          /\ rt' = [r \in Runtimes |-> [rt[r] EXCEPT !.rate = rate]]
      BY <1>7 DEF SetRate, Command
    <2>2. \A r \in Runtimes : Tame([rt[r] EXCEPT !.rate = rate])
      BY <1>4, CommandsAreTame
    <2>3. Same
      BY <1>1, <1>2, <1>3, <2>1
    <2>4. Fine
      BY <1>4, <1>5, <2>1, <2>2
    <2> QED BY <2>3, <2>4
  <1>8. ASSUME NEW p \in BOOLEAN, UNCHANGED <<job, saved>>,
               rt' = [r \in Runtimes |-> [rt[r] EXCEPT !.paused = p]]
        PROVE  Same /\ Fine
    <2>1. \A r \in Runtimes : Tame([rt[r] EXCEPT !.paused = p])
      BY <1>4, CommandsAreTame
    <2>2. Same
      BY <1>1, <1>2, <1>3, <1>8
    <2>3. Fine
      BY <1>4, <1>5, <1>8, <2>1
    <2> QED BY <2>2, <2>3
  <1>9. ASSUME Pause(Runtimes) \/ Resume(Runtimes)
        PROVE  Same /\ Fine
    <2>1. PICK p \in BOOLEAN : /\ UNCHANGED <<job, saved>>
                               /\ rt' = [r \in Runtimes |-> [rt[r] EXCEPT !.paused = p]]
      BY <1>9 DEF Pause, Resume, Command
    <2> QED BY <1>8, <2>1
  <1>10. ASSUME Snapshot(Runtimes)
         PROVE  Same /\ Fine
    <2>1. rt' = rt /\ job' = job /\ saved' = [r \in Runtimes |-> {rt[r]}]
      BY <1>10 DEF Snapshot
    <2>2. Same
      BY <1>1, <1>2, <1>3, <2>1
    <2>3. Fine
      BY <1>4, <1>5, <2>1
    <2> QED BY <2>2, <2>3
  <1>11. ASSUME Restore(Runtimes)
         PROVE  Same /\ Fine
    <2> DEFINE held(r) == CHOOSE x \in saved[r] : TRUE
    <2>1. /\ \A r \in Runtimes : saved[r] # {}
          /\ job' = job /\ saved' = saved
      BY <1>11 DEF Restore
    <2>2. rt' = [r \in Runtimes |-> held(r)]
      BY <1>11 DEF Restore
    <2>3. held(Ticker) = held(Jumper) /\ \A r \in Runtimes : held(r) \in saved[r]
      BY <1>3, <2>1
    <2> HIDE DEF held
    <2>4. Same
      BY <1>1, <1>2, <1>3, <2>1, <2>2, <2>3
    <2>5. Fine
      BY <1>4, <1>5, <2>1, <2>2, <2>3
    <2> QED BY <2>4, <2>5
  <1>12. ASSUME NEW quanta \in 1..MaxQuanta, AdvanceWallQuanta(Runtimes, quanta)
         PROVE  Same /\ Fine
    <2>1. /\ saved' = saved
          /\ rt' = [r \in Runtimes |-> Granted(rt[r], quanta)]
          /\ job' = [r \in Runtimes |-> Steps(Total(rt[r], quanta) \div Units)]
      BY <1>12 DEF AdvanceWallQuanta, Start
    <2>2. \A n : Steps(n).goal = 0
      BY DEF Steps, NoJob
    <2>3. \A r \in Runtimes : Tame(Granted(rt[r], quanta))
      BY <1>4, CommandsAreTame
    <2>4. Same
      BY <1>1, <1>3, <2>1
    <2>5. Fine
      BY <1>4, <2>1, <2>2, <2>3
    <2> QED BY <2>4, <2>5
  <1> HIDE DEF Same, Fine
  <1>13. Same /\ Fine
    BY <1>6, <1>7, <1>9, <1>10, <1>11, <1>12 DEF Control
  <1> QED
    <2>1. Calm' /\ End(Ticker)' = End(Jumper)'
      BY <1>13 DEF Same, Fine, Calm, End
    <2>2. (Inductive /\ Calm /\ rt[Ticker] = rt[Jumper] /\ saved[Ticker] = saved[Jumper]
            /\ End(Ticker) = End(Jumper) => Matched)'
      BY SameIsMatched, PTL
    <2> QED BY <1>1, <1>13, <2>1, <2>2 DEF Same

\* A common target is where both will come to rest.
LEMMA RunBothMatches ==
  ASSUME Matched, NEW target \in 1..MaxTick, RunBothUntil(target)
  PROVE  Matched'
  <1>1. /\ Ticker \in Runtimes /\ Jumper \in Runtimes /\ Ticker # Jumper
        /\ \A r \in Runtimes : r = Ticker \/ r = Jumper
    BY TwinsAssumption
  <1>2. /\ \A r \in Runtimes : Idle(r) /\ job[r] = NoJob /\ rt[r].tick <= target
        /\ UNCHANGED <<rt, saved>>
        /\ job' = [r \in Runtimes |->
             IF rt[r].tick = target THEN NoJob
             ELSE IF r = Ticker THEN Steps(target - rt[r].tick)
             ELSE [NoJob EXCEPT !.goal = target]]
    BY DEF RunBothUntil, Idle
  <1>3. rt[Ticker] = rt[Jumper] /\ saved[Ticker] = saved[Jumper]
    BY <1>1, <1>2, RestIsSame
  <1>4. \A r \in Runtimes : Sound(rt[r], NoJob) /\ rt[r] \in RuntimeType /\ rt[r].tick \in Nat
    BY <1>2, RuntimeBounds DEF Matched, Inductive, RuntimeType
  <1>5. target \in 0..MaxTick /\ target > 0 /\ MaxTick \in Nat
    BY RuntimeBounds
  <1>6. ASSUME NEW r \in Runtimes
        PROVE  /\ job'[r] \in JobType /\ job'[r].due = FALSE /\ OnTime(rt[r], job'[r])
               /\ job'[r].goal > 0 => rt[r].tick <= job'[r].goal
               /\ End(r)' = target
    <2>1. CASE rt[r].tick = target
      <3>1. job'[r] = NoJob /\ NoJob \in JobType
        BY <1>2, <2>1, Jobs
      <3> QED BY <1>2, <1>4, <1>5, <2>1, <3>1 DEF NoJob, OnTime, End
    <2>2. CASE rt[r].tick # target /\ r = Ticker
      <3> DEFINE n == target - rt[r].tick
      <3>1. n \in 0..MaxTick /\ n > 0 /\ rt[r].tick + n = target
        BY <1>2, <1>4, <1>5, <2>2
      <3>2. job'[r] = Steps(n)
        BY <1>2, <2>2
      <3> HIDE DEF n
      <3>3. /\ Steps(n) \in JobType /\ Steps(n).left = n /\ Steps(n).goal = 0
            /\ Steps(n).due = FALSE
        BY <3>1, Jobs
      <3>4. job'[r].left = n /\ job'[r].goal = 0 /\ rt'[r] = rt[r]
        BY <1>2, <3>2, <3>3
      <3>5. End(r)' = target
        BY <3>1, <3>4 DEF End
      <3> QED BY <1>5, <3>1, <3>2, <3>3, <3>5 DEF OnTime
    <2>3. CASE rt[r].tick # target /\ r # Ticker
      <3> DEFINE k == [NoJob EXCEPT !.goal = target]
      <3>1. k \in JobType /\ k.left = 0 /\ k.goal = target /\ k.due = FALSE
        BY <1>5, Jobs
      <3>2. job'[r] = k
        BY <1>2, <2>3
      <3> HIDE DEF k
      <3>3. End(r)' = target
        BY <1>5, <3>1, <3>2 DEF End
      <3>4. OnTime(rt[r], k) /\ rt[r].tick <= target
        BY <1>2, <1>4, <1>5, <3>1 DEF OnTime
      <3> QED BY <3>1, <3>2, <3>3, <3>4
    <2> QED BY <2>1, <2>2, <2>3
  <1>7. Inductive'
    <2>1. \A r \in Runtimes : Sound(rt[r], job'[r])
      <3> TAKE r \in Runtimes
      <3>1. NoJob.due = FALSE
        BY DEF NoJob
      <3> QED BY <1>4, <1>6, <3>1, OtherJob
    <2>2. /\ rt' = [r \in Runtimes |-> rt'[r]] /\ job' = [r \in Runtimes |-> job'[r]]
          /\ \A r \in Runtimes : Sound(rt'[r], job'[r])
      BY <1>2, <2>1 DEF Matched, Inductive
    <2> QED BY <1>2, <2>2, AllBecome DEF Matched
  <1>8. Calm' /\ End(Ticker)' = End(Jumper)'
    BY <1>1, <1>2, <1>6 DEF Matched, Calm
  <1>9. (Inductive /\ Calm /\ rt[Ticker] = rt[Jumper] /\ saved[Ticker] = saved[Jumper]
          /\ End(Ticker) = End(Jumper) => Matched)'
    BY SameIsMatched, PTL
  <1> QED BY <1>2, <1>3, <1>7, <1>8, <1>9

-----------------------------------------------------------------------------
(* Inside a method.                                                        *)

\* It does not matter which twin is named first.
LEMMA EitherOrder ==
  ASSUME NEW r \in Runtimes, NEW q \in Runtimes, r # q
  PROVE  /\ Paired(Ticker, Jumper) <=> Paired(r, q)
         /\ Paired(Ticker, Jumper)' <=> Paired(r, q)'
  <1>1. CASE r = Ticker /\ q = Jumper
    BY <1>1
  <1>2. CASE r = Jumper /\ q = Ticker
    BY <1>2 DEF Paired
  <1> QED BY <1>1, <1>2, TwinsAssumption

\* A turn that only moves the clock, or only the job, brings neither twin ahead.
LEMMA OnlyClock ==
  ASSUME Matched, Inductive', NEW r \in Runtimes, NEW x, NEW j, Become(r, x, j),
         Tame(x), Timeless(x) = Timeless(rt[r]), j.goal > 0 => x.tick <= j.goal,
         End(r)' = End(r)
  PROVE  Matched'
  <1>1. PICK q \in Runtimes : q # r /\ \A p \in Runtimes : p = r \/ p = q
    BY TwinsAssumption
  <1>2. /\ rt'[r] = x /\ job'[r] = j /\ rt'[q] = rt[q] /\ job'[q] = job[q] /\ saved' = saved
    BY <1>1 DEF Become, Matched, Inductive
  <1>3. Calm'
    BY <1>1, <1>2 DEF Matched, Calm
  <1>4. Paired(r, q)
    BY <1>1, EitherOrder DEF Matched
  <1>5. End(q)' = End(q) /\ End(r)' = End(r)
    BY <1>2 DEF End
  <1>6. \A end : /\ LeadsTo(rt[r], rt[q], end) => LeadsTo(x, rt[q], end)
                 /\ LeadsTo(rt[q], rt[r], end) => LeadsTo(rt[q], x, end)
    BY DEF LeadsTo
  <1>7. Paired(r, q)'
    BY <1>2, <1>4, <1>5, <1>6 DEF Paired
  <1>8. Paired(Ticker, Jumper)' <=> Paired(r, q)'
    BY <1>1, EitherOrder
  <1> QED BY <1>3, <1>7, <1>8 DEF Matched

\* A twin that executes an event gets ahead, or makes up for what the other did.
LEMMA ExecutionMatches ==
  ASSUME Harmless(Payloads), Matched, Inductive', NEW r \in Runtimes, Execute(r)
  PROVE  Matched'
  <1> DEFINE x == rt[r]
             y == Executed(x)
             end == End(r)
  <1>1. PICK q \in Runtimes : q # r /\ \A p \in Runtimes : p = r \/ p = q
    BY TwinsAssumption
  <1>2. /\ x \in RuntimeType /\ rt[q] \in RuntimeType /\ Counted(x) /\ Tame(x)
        /\ x.events # {} /\ DueNow(x)
    BY DEF Execute, DueNow, Matched, Inductive, Sound, Calm
  <1>3. /\ rt'[r] = y /\ rt'[q] = rt[q] /\ job' = job /\ saved' = saved
    BY <1>1 DEF Execute, Become, Matched, Inductive
  <1>4. y \in RuntimeType /\ Tame(y) /\ y.tick = x.tick
    <2>1. y \in RuntimeType
      BY <1>3 DEF Inductive
    <2> QED BY <1>2, <2>1, ExecutedIsTame, ExecutedFields
  <1>5. end \in Nat /\ x.tick <= end
    <2>1. x.tick \in Nat /\ job[r].left \in Nat /\ job[r].goal \in Nat
      <3>1. x.tick \in 0..MaxTick /\ job[r] \in JobType
        BY <1>2 DEF RuntimeType, Matched, Inductive
      <3> QED BY <3>1, RuntimeBounds DEF JobType
    <2>2. job[r].goal > 0 => x.tick <= job[r].goal
      BY DEF Matched, Calm
    <2> QED BY <2>1, <2>2 DEF End
  <1>6. Calm'
    BY <1>1, <1>3, <1>4 DEF Matched, Calm
  <1>7. End(q)' = End(q) /\ End(r)' = end
    BY <1>3, <1>4 DEF End
  <1>8. Paired(r, q)
    BY <1>1, EitherOrder DEF Matched
  <1> HIDE DEF x, y, end
  <1>9. LeadsTo(y, rt[q], end) \/ LeadsTo(rt[q], y, end)
    <2>1. ASSUME LeadsTo(rt[q], x, end)
          PROVE  LeadsTo(rt[q], y, end)
      BY <1>2, <1>4, <1>5, <2>1, AheadExecutes DEF y
    <2>2. ASSUME LeadsTo(x, rt[q], end)
          PROVE  LeadsTo(y, rt[q], end) \/ LeadsTo(rt[q], x, end)
      <3>1. Timeless(x) = Timeless(rt[q]) \/ LeadsTo(y, rt[q], end)
        BY <1>2, <1>4, <2>2, BehindExecutes DEF y
      <3> QED BY <1>2, <3>1, LeadsToItself
    <2>3. LeadsTo(x, rt[q], end) \/ LeadsTo(rt[q], x, end)
      BY <1>8 DEF Paired, x, end
    <2> QED BY <2>1, <2>2, <2>3
  <1>10. Paired(r, q)'
    BY <1>3, <1>7, <1>8, <1>9 DEF Paired, end
  <1>11. Paired(Ticker, Jumper)' <=> Paired(r, q)'
    BY <1>1, EitherOrder
  <1> QED BY <1>6, <1>10, <1>11 DEF Matched

\* A turn of one twin's loop keeps the twins on the way to the same end.
LEMMA TurnMatches ==
  ASSUME Harmless(Payloads), Matched, NEW r \in Runtimes, Turn(r)
  PROVE  Matched'
  <1> DEFINE x == rt[r]
             j == job[r]
             e == Earliest(x.events)
  <1>1. Inductive'
    BY TurnsKeep DEF Matched
  <1>2. /\ x \in RuntimeType /\ j \in JobType /\ Counted(x) /\ Tame(x) /\ OnTime(x, j)
        /\ Passed(x, j.due) /\ (j.goal > 0 => x.tick <= j.goal)
    BY DEF Matched, Inductive, Sound, Calm
  <1>3. x.events # {} => e \in x.events /\ e \in EventType
    BY <1>2, Pops
  <1>4. /\ x.tick \in Nat /\ j.left \in Nat /\ j.goal \in Nat
        /\ x.events # {} => e.tick \in Nat
    <2>1. x.tick \in 0..MaxTick
      BY <1>2 DEF RuntimeType
    <2>2. j.left \in 0..MaxTick /\ j.goal \in 0..MaxTick
      BY <1>2 DEF JobType
    <2>3. x.events # {} => e.tick \in 1..MaxTick
      BY <1>3 DEF EventType
    <2> QED BY <2>1, <2>2, <2>3, RuntimeBounds
  <1>5. j.goal > 0 => j.left = 0
    BY <1>2, <1>4 DEF OnTime
  <1>6. \A y, k : Become(r, y, k) => rt'[r] = y /\ job'[r] = k
    BY DEF Become, Matched, Inductive
  <1>7. ASSUME NEW tick, NEW k, Become(r, [x EXCEPT !.tick = tick], k),
               k.goal > 0 => tick <= k.goal, End(r)' = End(r)
        PROVE  Matched'
    <2> DEFINE y == [x EXCEPT !.tick = tick]
    <2>1. Tame(y) /\ Timeless(y) = Timeless(x) /\ y.tick = tick
      <3>1. y.tick = tick
        BY <1>2 DEF RuntimeType
      <3> QED BY <1>2, <3>1, CommandsAreTame, TimelessFields
    <2>2. Become(r, y, k)
      BY <1>7
    <2> HIDE DEF y
    <2> QED BY <1>1, <1>7, <2>1, <2>2, OnlyClock
  <1>8. CASE Tick(r)
    <2> DEFINE k == [j EXCEPT !.left = @ - 1, !.due = TRUE]
    <2>1. j.left > 0 /\ Become(r, [x EXCEPT !.tick = x.tick + 1], k)
      BY <1>8 DEF Tick
    <2>2. k.left = j.left - 1 /\ k.goal = j.goal
      BY <1>2, <2>1, Jobs
    <2>3. j.goal = 0
      BY <1>2, <2>1 DEF OnTime
    <2>4. rt'[r].tick = x.tick + 1 /\ job'[r].left = j.left - 1 /\ job'[r].goal = 0
      <3>1. [x EXCEPT !.tick = x.tick + 1].tick = x.tick + 1
        BY <1>2 DEF RuntimeType
      <3> QED BY <1>6, <2>1, <2>2, <2>3, <3>1
    <2>5. End(r)' = End(r)
      BY <1>4, <2>3, <2>4 DEF End
    <2> HIDE DEF k
    <2> QED BY <1>7, <2>1, <2>2, <2>3, <2>5
  <1>9. CASE Execute(r)
    BY <1>1, <1>9, ExecutionMatches
  <1>10. CASE Raise(r)
    BY <1>2, <1>3, <1>10, TameExecutes DEF Raise, DueNow
  <1>11. CASE Drained(r)
    <2> DEFINE k == [j EXCEPT !.due = FALSE]
    <2>1. Become(r, x, k) /\ k.left = j.left /\ k.goal = j.goal
      BY <1>2, <1>11 DEF Drained, JobType
    <2>2. End(r)' = End(r)
      BY <1>6, <2>1 DEF End
    <2>3. Become(r, [x EXCEPT !.tick = x.tick], k)
      BY <1>2, <2>1, TimelessFields
    <2> HIDE DEF k
    <2> QED BY <1>2, <1>7, <2>1, <2>2, <2>3
  <1>12. CASE Jump(r)
    <2> DEFINE k == [j EXCEPT !.due = TRUE]
    <2>1. /\ Become(r, [x EXCEPT !.tick = e.tick], k) /\ k.goal = j.goal
          /\ j.goal > 0 /\ e.tick <= j.goal
      BY <1>2, <1>12 DEF Jump, Within, JobType
    <2>2. job'[r].goal = j.goal
      BY <1>6, <2>1
    <2>3. End(r)' = End(r)
      BY <2>1, <2>2 DEF End
    <2> HIDE DEF k, e
    <2> QED BY <1>7, <2>1, <2>3
  <1>13. CASE Refuse(r)
    <2>1. x.events # {} /\ e.tick <= x.tick /\ j.due = FALSE
      BY <1>2, <1>13 DEF Refuse, Within, JobType
    <2>2. x.failed # {}
      BY <1>2, <1>3, <1>4, <2>1 DEF Passed
    <2> QED BY <1>2, <2>2 DEF Tame
  <1>14. CASE Land(r)
    <2>1. /\ j.goal > 0
          /\ Become(r, [x EXCEPT !.tick = IF x.tick < j.goal THEN j.goal ELSE x.tick], NoJob)
      BY <1>14 DEF Land
    <2>2. (IF x.tick < j.goal THEN j.goal ELSE x.tick) = j.goal
      BY <1>2, <1>4, <2>1
    <2>3. Become(r, [x EXCEPT !.tick = j.goal], NoJob)
      BY <2>1, <2>2
    <2>4. rt'[r].tick = j.goal /\ job'[r] = NoJob
      <3>1. [x EXCEPT !.tick = j.goal].tick = j.goal
        BY <1>2 DEF RuntimeType
      <3> QED BY <1>6, <2>3, <3>1
    <2>5. End(r)' = End(r) /\ NoJob.goal = 0
      <3>1. NoJob.goal = 0 /\ NoJob.left = 0
        BY DEF NoJob
      <3> QED BY <1>4, <2>1, <2>4, <3>1 DEF End
    <2> QED BY <1>7, <2>3, <2>5
  <1> QED BY <1>8, <1>9, <1>10, <1>11, <1>12, <1>13, <1>14 DEF Turn

-----------------------------------------------------------------------------
\* Unless a payload can raise, run_until comes to the same state by ticks and by event
\* jumps: whenever both twins are at rest their state hashes are the same.
THEOREM TwinsAgree ==
  ASSUME Harmless(Payloads)
  PROVE  TwinsSpec => []SameHash
  <1>1. Matched /\ [TwinsNext]_vars => Matched'
    <2> SUFFICES ASSUME Matched, [TwinsNext]_vars
                 PROVE  Matched'
      OBVIOUS
    <2>1. CASE UNCHANGED vars
      BY <2>1 DEF vars, Matched, Inductive, Calm, Paired, End
    <2>2. CASE TwinsNext
      BY <2>2, ControlMatches, RunBothMatches, TurnMatches DEF TwinsNext
    <2> QED BY <2>1, <2>2
  <1>2. Matched => SameHash
    BY RestIsSame DEF SameHash
  <1> QED BY TwinsStart, <1>1, <1>2, PTL DEF TwinsSpec
=============================================================================
