---------------------------- MODULE RuntimeProof ----------------------------
(***************************************************************************)
(* For any number of runtimes, any events and any generator: a runtime      *)
(* executes its events in order and each once, and its clock earns what    *)
(* its rate grants, but for the rounding of each call.                     *)
(***************************************************************************)
EXTENDS SyntheticRuntime, FiniteSetTheorems, SequenceTheorems, WellFoundedInduction, TLAPS

-----------------------------------------------------------------------------
(* The invariant, of a runtime x whose method has the job j left.           *)

\* The job ends within the bound of the clock, and it steps or runs to a target.
OnTime(x, j) == x.tick + j.left <= MaxTick /\ (j.left > 0 => j.goal = 0)

\* No call has rounded off or up more than two roundings may.
Worth(x) ==
  LET made == Units * x.walked + x.remainder
  IN  x.granted <= made + 2 * Slack * x.calls /\ made <= x.granted + 2 * Slack * x.calls

\* What was executed or has raised came before all that is pending.
Past(x) ==
  /\ \A i \in DOMAIN x.log :
       /\ x.log[i].at = x.log[i].tick /\ x.log[i].tick <= x.tick
       /\ \A e \in x.events : Precedes(x.log[i], e)
  /\ \A i, k \in DOMAIN x.log : i < k => Precedes(x.log[i], x.log[k])
  /\ \A f \in x.failed : f.tick <= x.tick /\ \A e \in x.events : Precedes(f, e)

\* The clock has passed nothing that is pending unless something raised; the events
\* of the tick itself are executed as long as the job is inside _process_due_events.
Passed(x, due) ==
  \A e \in x.events :
    e.tick < x.tick \/ (e.tick = x.tick /\ ~due) => x.failed # {}

Executions(x) == {x.log[i].seq : i \in DOMAIN x.log}

Counted(x) ==
  /\ IsFiniteSet(x.events) /\ IsFiniteSet(x.failed)
  /\ Executions(x) \cup Numbers(x.failed) \cup Numbers(x.events) = 0..(x.nextSeq - 1)
  /\ Len(x.log) + Cardinality(x.failed) + Cardinality(x.events) = x.nextSeq
  /\ \A e, f \in x.events : e.seq = f.seq => e = f

Sound(x, j) ==
  /\ x \in RuntimeType /\ j \in JobType
  /\ OnTime(x, j) /\ Worth(x) /\ Past(x) /\ Passed(x, j.due) /\ Counted(x)

Inductive ==
  /\ rt \in [Runtimes -> RuntimeType] /\ job \in [Runtimes -> JobType]
  /\ saved \in [Runtimes -> SUBSET RuntimeType]
  /\ \A r \in Runtimes : Sound(rt[r], job[r])
  /\ \A r \in Runtimes : \A x \in saved[r] : Sound(x, NoJob)

-----------------------------------------------------------------------------
(* The heap.                                                               *)

\* A set of naturals has a least element.
LEMMA LeastNatural ==
  ASSUME NEW S, S \subseteq Nat, S # {}
  PROVE  \E n \in S : \A m \in S : n <= m
  <1> DEFINE R == OpToRel(<, Nat)
  <1>1. PICK n \in S : \A m \in S : <<m, n>> \notin R
    <2>1. IsWellFoundedOn(R, Nat)
      BY NatLessThanWellFounded
    <2> HIDE DEF R
    <2> QED BY <2>1, WFMin
  <1>2. \A m \in S : ~(m < n)
    BY <1>1 DEF OpToRel
  <1> QED BY <1>2

\* A heap that is not empty has an earliest event.
LEMMA EarliestIs ==
  ASSUME NEW x \in RuntimeType, Counted(x), x.events # {}
  PROVE  /\ Earliest(x.events) \in x.events
         /\ \A f \in x.events \ {Earliest(x.events)} : Precedes(Earliest(x.events), f)
  <1>1. x.events \subseteq EventType
    BY DEF RuntimeType
  <1>2. \A e \in x.events : e.tick \in Nat /\ e.seq \in Nat
    BY <1>1, RuntimeBounds DEF EventType
  <1>3. PICK n \in {e.tick : e \in x.events} : \A m \in {e.tick : e \in x.events} : n <= m
    <2>1. {e.tick : e \in x.events} \subseteq Nat /\ {e.tick : e \in x.events} # {}
      BY <1>2
    <2> QED BY <2>1, LeastNatural
  <1> DEFINE First == {e \in x.events : e.tick = n}
  <1>4. PICK q \in {e.seq : e \in First} : \A m \in {e.seq : e \in First} : q <= m
    <2>1. {e.seq : e \in First} \subseteq Nat /\ {e.seq : e \in First} # {}
      BY <1>2, <1>3
    <2> QED BY <2>1, LeastNatural
  <1>5. PICK e \in x.events : e.tick = n /\ e.seq = q
    BY <1>4
  <1>6. ASSUME NEW f \in x.events \ {e}
        PROVE  Precedes(e, f)
    <2>1. n <= f.tick
      BY <1>3
    <2>2. f.tick = n => q <= f.seq
      BY <1>4
    <2>3. e.seq # f.seq
      BY <1>6 DEF Counted
    <2> QED BY <1>2, <1>5, <2>1, <2>2, <2>3 DEF Precedes
  <1> QED BY <1>6 DEF Earliest

-----------------------------------------------------------------------------
(* What the methods make of a runtime.                                     *)

\* A total in parts of a tick is whole ticks and a remainder below one tick.
LEMMA WholeTicks ==
  ASSUME NEW a \in Nat, NEW u \in Nat \ {0}
  PROVE  /\ a \div u \in Nat /\ a % u \in 0..(u - 1)
         /\ a = u * (a \div u) + (a % u)
  OBVIOUS

\* The distributive law, and that a product of naturals is one.
LEMMA Products ==
  ASSUME NEW a \in Nat, NEW b \in Nat, NEW c \in Nat
  PROVE  a * b \in Nat /\ a * (b + c) = a * b + a * c
  OBVIOUS

\* A product of naturals grows with its factors.
LEMMA ProductsGrow ==
  ASSUME NEW a \in Nat, NEW b \in Nat, NEW c \in Nat, NEW d \in Nat, a <= c, b <= d
  PROVE  a * b \in Nat /\ c * d \in Nat /\ a * b <= c * d
  <1>1. a * b \in Nat /\ a * d \in Nat /\ c * d \in Nat
    OBVIOUS
  <1>2. a * b <= a * d
    OBVIOUS
  <1>3. a * d <= c * d
    OBVIOUS
  <1> QED BY <1>1, <1>2, <1>3

\* What is executed has a tick and a sequence number.
LEMMA LogEntries ==
  ASSUME NEW x \in RuntimeType
  PROVE  /\ Len(x.log) \in Nat /\ DOMAIN x.log = 1..Len(x.log)
         /\ \A i \in DOMAIN x.log :
              x.log[i].at \in Nat /\ x.log[i].tick \in Nat /\ x.log[i].seq \in Nat
  <1>1. x.log \in Seq([at : Nat, tick : Nat, seq : Nat])
    BY DEF RuntimeType
  <1>2. Len(x.log) \in Nat /\ DOMAIN x.log = 1..Len(x.log)
    BY <1>1, LenProperties
  <1>3. \A i \in DOMAIN x.log : x.log[i] \in [at : Nat, tick : Nat, seq : Nat]
    BY <1>1, <1>2, ElementOfSeq
  <1> QED BY <1>2, <1>3

\* What is pending and what has raised has a tick and a sequence number.
LEMMA Events ==
  ASSUME NEW x \in RuntimeType
  PROVE  \A e \in x.events \cup x.failed : e.tick \in Nat /\ e.seq \in Nat
  BY RuntimeBounds DEF RuntimeType, EventType

\* A runtime stays one when a field gets another value of its kind.
LEMMA Fields ==
  ASSUME NEW x \in RuntimeType
  PROVE  /\ \A v \in MinRate..MaxRate : [x EXCEPT !.rate = v] \in RuntimeType
         /\ \A v \in BOOLEAN : [x EXCEPT !.paused = v] \in RuntimeType
         /\ \A v \in 0..MaxTick : [x EXCEPT !.tick = v] \in RuntimeType
         /\ \A v \in 0..(Units - 1), n \in Nat, g \in Nat, w \in Nat :
              [x EXCEPT !.remainder = v, !.calls = n, !.granted = g, !.walked = w]
                \in RuntimeType
         /\ \A v \in SUBSET EventType, n \in 0..MaxEvents :
              [x EXCEPT !.events = v, !.nextSeq = n] \in RuntimeType
         /\ \A v, w \in SUBSET EventType :
              [x EXCEPT !.events = v, !.failed = w] \in RuntimeType
         /\ \A v \in SUBSET EventType, st \in [StateKeys -> StateValues \cup {Absent}],
               g \in 0..(M - 1), l \in Seq([at : Nat, tick : Nat, seq : Nat]) :
              [x EXCEPT !.events = v, !.state = st, !.rng = g, !.log = l] \in RuntimeType
  BY DEF RuntimeType

\* A job that is as far inside _process_due_events is as sound as long as it is on time.
LEMMA OtherJob ==
  ASSUME NEW x, NEW j, Sound(x, j), NEW k \in JobType, OnTime(x, k), k.due = j.due
  PROVE  Sound(x, k)
  BY DEF Sound

\* Neither rate nor pause is what the promises are about.
LEMMA RateAndPause ==
  ASSUME NEW x, NEW j, Sound(x, j), NEW y \in RuntimeType,
         \/ \E rate : y = [x EXCEPT !.rate = rate]
         \/ \E paused : y = [x EXCEPT !.paused = paused]
  PROVE  Sound(y, j)
  <1>1. x \in RuntimeType
    BY DEF Sound
  <1>2. /\ y.events = x.events /\ y.nextSeq = x.nextSeq /\ y.tick = x.tick
        /\ y.log = x.log /\ y.failed = x.failed
        /\ y.granted = x.granted /\ y.walked = x.walked /\ y.remainder = x.remainder
        /\ y.calls = x.calls
    BY <1>1 DEF RuntimeType
  <1> QED BY <1>2 DEF Sound, OnTime, Worth, Past, Passed, Counted, Executions

\* What is scheduled comes after everything there was.
LEMMA PlannedIsSound ==
  ASSUME NEW x, Sound(x, NoJob), NEW at \in 1..MaxTick, NEW payload \in PayloadType,
         at > x.tick, x.nextSeq < MaxEvents
  PROVE  Sound(Planned(x, at, payload), NoJob)
  <1> DEFINE e == [tick |-> at, seq |-> x.nextSeq, op |-> payload.op, key |-> payload.key,
                   value |-> payload.value, span |-> payload.span]
             y == Planned(x, at, payload)
  <1>1. /\ x \in RuntimeType /\ NoJob \in JobType /\ OnTime(x, NoJob)
        /\ Worth(x) /\ Past(x) /\ Passed(x, NoJob.due) /\ Counted(x)
    BY DEF Sound
  <1>2. e \in EventType /\ e.tick = at /\ e.seq = x.nextSeq
    BY <1>1, RuntimeBounds DEF EventType, PayloadType, RuntimeType
  <1>3. y = [x EXCEPT !.events = @ \cup {e}, !.nextSeq = @ + 1]
    BY DEF Planned
  <1> HIDE DEF e, y
  <1>4. /\ y \in RuntimeType
        /\ y.events = x.events \cup {e} /\ y.nextSeq = x.nextSeq + 1
        /\ y.tick = x.tick /\ y.log = x.log /\ y.failed = x.failed
        /\ y.granted = x.granted /\ y.walked = x.walked /\ y.remainder = x.remainder
        /\ y.calls = x.calls
    <2> DEFINE v == x.events \cup {e}
               n == x.nextSeq + 1
    <2>1. y = [x EXCEPT !.events = v, !.nextSeq = n]
      BY <1>1, <1>3 DEF RuntimeType
    <2>2. v \in SUBSET EventType /\ n \in 0..MaxEvents
      BY <1>1, <1>2, RuntimeBounds DEF RuntimeType
    <2> HIDE DEF v, n
    <2>3. y \in RuntimeType
      BY <1>1, <2>1, <2>2, Fields
    <2>4. /\ y.events = v /\ y.nextSeq = n
          /\ y.tick = x.tick /\ y.log = x.log /\ y.failed = x.failed
          /\ y.granted = x.granted /\ y.walked = x.walked /\ y.remainder = x.remainder
          /\ y.calls = x.calls
      BY <1>1, <2>1 DEF RuntimeType
    <2> QED BY <2>3, <2>4 DEF v, n
  <1>5. x.tick \in Nat /\ x.nextSeq \in Nat
    BY <1>1 DEF RuntimeType
  <1>6. Past(y)
    <2>1. \A i \in DOMAIN x.log : x.log[i].tick \in Nat
      BY <1>1, LogEntries
    <2>2. \A f \in x.failed : f.tick \in Nat
      BY <1>1, Events
    <2> QED BY <1>1, <1>2, <1>4, <1>5, <2>1, <2>2 DEF Past, Precedes
  <1>7. Passed(y, NoJob.due)
    BY <1>1, <1>2, <1>4, <1>5 DEF Passed
  <1>8. Counted(y)
    <2>1. \A f \in x.events : f.seq \in 0..(x.nextSeq - 1)
      BY <1>1 DEF Counted, Numbers
    <2>2. e \notin x.events
      BY <1>2, <1>5, <2>1
    <2>3. IsFiniteSet(y.events) /\ Cardinality(y.events) = Cardinality(x.events) + 1
      <3>1. IsFiniteSet(x.events) /\ y.events = x.events \cup {e}
        BY <1>1, <1>4 DEF Counted
      <3> QED BY <2>2, <3>1, FS_AddElement
    <2>4. Numbers(y.events) = Numbers(x.events) \cup {x.nextSeq} /\ Executions(y) = Executions(x)
      BY <1>2, <1>4 DEF Numbers, Executions
    <2>5. 0..(y.nextSeq - 1) = 0..(x.nextSeq - 1) \cup {x.nextSeq}
      BY <1>4, <1>5
    <2>6. Cardinality(x.events) \in Nat /\ Cardinality(x.failed) \in Nat /\ Len(x.log) \in Nat
      BY <1>1, FS_CardinalityType, LenProperties DEF Counted, RuntimeType
    <2>7. \A f, g \in y.events : f.seq = g.seq => f = g
      BY <1>1, <1>2, <1>4, <1>5, <2>1 DEF Counted
    <2>8. Executions(y) \cup Numbers(y.failed) \cup Numbers(y.events) = 0..(y.nextSeq - 1)
      <3>1. Executions(x) \cup Numbers(x.failed) \cup Numbers(x.events) = 0..(x.nextSeq - 1)
        BY <1>1 DEF Counted
      <3> QED BY <1>4, <2>4, <2>5, <3>1
    <2>9. Len(y.log) + Cardinality(y.failed) + Cardinality(y.events) = y.nextSeq
      BY <1>1, <1>4, <1>5, <2>3, <2>6 DEF Counted
    <2>10. IsFiniteSet(y.failed)
      BY <1>1, <1>4 DEF Counted
    <2> QED BY <2>3, <2>7, <2>8, <2>9, <2>10 DEF Counted
  <1>9. OnTime(y, NoJob) /\ Worth(y)
    BY <1>1, <1>4 DEF OnTime, Worth
  <1> QED BY <1>1, <1>4, <1>6, <1>7, <1>8, <1>9 DEF Sound, y

\* Quanta are worth their rate and the remainder, to two roundings.
LEMMA TotalIsClose ==
  ASSUME NEW x \in RuntimeType, NEW quanta \in 1..MaxQuanta
  PROVE  LET total == Total(x, quanta)
             exact == x.remainder + quanta * x.rate
         IN  /\ total \in Nat /\ exact \in Nat
             /\ total <= exact + 2 * Slack /\ exact <= total + 2 * Slack
  <1> DEFINE p == quanta * x.rate
             most == MaxQuanta * MaxRate
             f == Float[p]
  <1>1. /\ quanta \in Nat /\ quanta <= MaxQuanta /\ MaxQuanta \in Nat
        /\ x.rate \in Nat /\ x.rate <= MaxRate /\ MaxRate \in Nat
        /\ x.remainder \in Nat /\ x.remainder <= Units - 1 /\ Units \in Nat
        /\ Slack \in Nat
    BY UnitsAssumption, RuntimeBounds, FloatAssumption DEF RuntimeType, MinRate, MaxRate
  <1>2. p \in Nat /\ most \in Nat /\ p <= most
    BY <1>1, ProductsGrow
  <1>3. MaxTotal = most + Units + Slack
    BY DEF MaxTotal
  <1> HIDE DEF p, most
  <1>4. p \in 0..MaxTotal
    BY <1>1, <1>2, <1>3
  <1>5. f \in Nat /\ f <= p + Slack /\ p <= f + Slack
    BY <1>4, FloatAssumption
  <1> HIDE DEF f
  <1>6. x.remainder + f \in 0..MaxTotal
    BY <1>1, <1>2, <1>3, <1>5
  <1>7. /\ Float[x.remainder + f] \in Nat
        /\ Float[x.remainder + f] <= x.remainder + f + Slack
        /\ x.remainder + f <= Float[x.remainder + f] + Slack
    BY <1>6, FloatAssumption
  <1>8. Total(x, quanta) = Float[x.remainder + f]
    BY DEF Total, f, p
  <1>9. Total(x, quanta) \in Nat /\ x.remainder + p \in Nat
    BY <1>1, <1>2, <1>7, <1>8
  <1>10. /\ Total(x, quanta) <= x.remainder + p + 2 * Slack
         /\ x.remainder + p <= Total(x, quanta) + 2 * Slack
    BY <1>1, <1>2, <1>5, <1>7, <1>8
  <1> QED BY <1>9, <1>10 DEF p

\* Ticks and remainder are what the quanta are worth, to two roundings.
LEMMA GrantedIsSound ==
  ASSUME NEW x, Sound(x, NoJob), NEW quanta \in 1..MaxQuanta,
         x.tick + (Total(x, quanta) \div Units) <= MaxTick
  PROVE  Sound(Granted(x, quanta), Steps(Total(x, quanta) \div Units))
  <1> DEFINE y == Granted(x, quanta)
             q == Total(x, quanta) \div Units
             m == Total(x, quanta) % Units
  <1>1. /\ x \in RuntimeType /\ NoJob \in JobType /\ OnTime(x, NoJob)
        /\ Worth(x) /\ Past(x) /\ Passed(x, NoJob.due) /\ Counted(x)
    BY DEF Sound
  <1>2. /\ x.rate \in Nat /\ x.remainder \in Nat /\ x.granted \in Nat /\ x.walked \in Nat
        /\ Units \in Nat \ {0} /\ x.tick \in Nat /\ x.calls \in Nat /\ quanta \in Nat
        /\ Slack \in Nat
    BY <1>1, UnitsAssumption, FloatAssumption, RuntimeBounds DEF RuntimeType, MinRate, MaxRate
  <1>3. quanta * x.rate \in Nat
    BY <1>2, Products
  <1>4. /\ Total(x, quanta) \in Nat
        /\ Total(x, quanta) <= x.remainder + quanta * x.rate + 2 * Slack
        /\ x.remainder + quanta * x.rate <= Total(x, quanta) + 2 * Slack
    BY <1>1, TotalIsClose
  <1>5. q \in Nat /\ m \in 0..(Units - 1) /\ Total(x, quanta) = Units * q + m
    BY <1>2, <1>4, WholeTicks
  <1>6. y = [x EXCEPT !.remainder = m, !.calls = @ + 1, !.granted = @ + quanta * x.rate,
                      !.walked = @ + q]
    BY DEF Granted
  <1> HIDE DEF y, q, m
  <1>7. /\ y \in RuntimeType
        /\ y.granted = x.granted + quanta * x.rate /\ y.walked = x.walked + q
        /\ y.remainder = m /\ y.calls = x.calls + 1
        /\ y.events = x.events /\ y.nextSeq = x.nextSeq
        /\ y.tick = x.tick /\ y.log = x.log /\ y.failed = x.failed
    <2> DEFINE g == x.granted + quanta * x.rate
               w == x.walked + q
               n == x.calls + 1
    <2>1. y = [x EXCEPT !.remainder = m, !.calls = n, !.granted = g, !.walked = w]
      BY <1>1, <1>6 DEF RuntimeType
    <2>2. g \in Nat /\ w \in Nat /\ n \in Nat
      BY <1>2, <1>3, <1>5
    <2> HIDE DEF g, w, n
    <2>3. y \in RuntimeType
      BY <1>1, <1>5, <2>1, <2>2, Fields
    <2>4. /\ y.granted = g /\ y.walked = w /\ y.remainder = m /\ y.calls = n
          /\ y.events = x.events /\ y.nextSeq = x.nextSeq
          /\ y.tick = x.tick /\ y.log = x.log /\ y.failed = x.failed
      BY <1>1, <2>1 DEF RuntimeType
    <2> QED BY <2>3, <2>4 DEF g, w, n
  <1>8. Worth(y)
    <2> DEFINE a == Units * x.walked
               b == Units * q
               c == quanta * x.rate
               e == 2 * Slack
               k == e * x.calls
    <2>1. /\ a \in Nat /\ b \in Nat /\ c \in Nat /\ m \in Nat /\ e \in Nat /\ k \in Nat
          /\ Units * (x.walked + q) = a + b /\ e * (x.calls + 1) = k + e
      <3>1. e \in Nat
        BY <1>2
      <3> HIDE DEF e
      <3>2. e * x.calls \in Nat /\ e * (x.calls + 1) = e * x.calls + e * 1
        BY <1>2, <3>1, Products
      <3>3. e * 1 = e
        BY <3>1
      <3> QED BY <1>2, <1>3, <1>5, <3>1, <3>2, <3>3, Products
    <2>2. /\ b + m <= x.remainder + c + e /\ x.remainder + c <= b + m + e
      BY <1>4, <1>5
    <2>3. x.granted <= a + x.remainder + k /\ a + x.remainder <= x.granted + k
      BY <1>1 DEF Worth
    <2> HIDE DEF a, b, c, e, k
    <2>4. /\ x.granted + c <= a + b + m + (k + e)
          /\ a + b + m <= x.granted + c + (k + e)
      BY <1>2, <2>1, <2>2, <2>3
    <2>5. /\ y.granted = x.granted + c /\ Units * y.walked + y.remainder = a + b + m
          /\ 2 * Slack * y.calls = k + e
      BY <1>7, <2>1 DEF c, e
    <2> QED BY <2>4, <2>5 DEF Worth
  <1>9. Past(y) /\ Passed(y, FALSE) /\ Counted(y)
    BY <1>1, <1>7 DEF Past, Passed, Counted, Executions, NoJob
  <1>10. /\ Steps(q) \in JobType /\ Steps(q).left = q /\ Steps(q).goal = 0
         /\ Steps(q).due = FALSE
    <2>1. q \in 0..MaxTick /\ 0 \in 0..MaxTick
      BY <1>2, <1>5, RuntimeBounds DEF q
    <2> QED BY <2>1 DEF Steps, NoJob, JobType
  <1>11. OnTime(y, Steps(q))
    BY <1>7, <1>10 DEF OnTime, q
  <1> QED BY <1>7, <1>8, <1>9, <1>10, <1>11 DEF Sound, y, q

\* The clock may be moved to any tick that is not past what is pending.
LEMMA ClockIsSound ==
  ASSUME NEW x, NEW j, Sound(x, j), ~j.due, NEW tick \in 0..MaxTick, tick >= x.tick,
         NEW k \in JobType, OnTime([x EXCEPT !.tick = tick], k),
         \A e \in x.events : e.tick > x.tick =>
           e.tick > tick \/ (e.tick = tick /\ k.due)
  PROVE  Sound([x EXCEPT !.tick = tick], k)
  <1> DEFINE y == [x EXCEPT !.tick = tick]
  <1>1. /\ x \in RuntimeType /\ Worth(x) /\ Past(x) /\ Passed(x, FALSE) /\ Counted(x)
    BY DEF Sound, JobType
  <1>2. /\ y \in RuntimeType /\ y.tick = tick /\ x.tick \in Nat
        /\ y.granted = x.granted /\ y.walked = x.walked /\ y.remainder = x.remainder
        /\ y.calls = x.calls
        /\ y.events = x.events /\ y.nextSeq = x.nextSeq
        /\ y.log = x.log /\ y.failed = x.failed
    <2>1. y \in RuntimeType
      BY <1>1, Fields
    <2>2. /\ y.tick = tick
          /\ y.granted = x.granted /\ y.walked = x.walked /\ y.remainder = x.remainder
          /\ y.calls = x.calls
          /\ y.events = x.events /\ y.nextSeq = x.nextSeq
          /\ y.log = x.log /\ y.failed = x.failed
      BY <1>1 DEF RuntimeType
    <2>3. x.tick \in Nat
      BY <1>1 DEF RuntimeType
    <2> QED BY <2>1, <2>2, <2>3
  <1> HIDE DEF y
  <1>3. Past(y)
    <2>1. \A i \in DOMAIN x.log : x.log[i].tick \in Nat
      BY <1>1, LogEntries
    <2>2. \A f \in x.failed : f.tick \in Nat
      BY <1>1, Events
    <2> QED BY <1>1, <1>2, <2>1, <2>2, RuntimeBounds DEF Past
  <1>4. Passed(y, k.due)
    <2>1. \A e \in x.events : e.tick \in Nat
      BY <1>1, Events
    <2> QED BY <1>1, <1>2, <2>1, RuntimeBounds DEF Passed
  <1>5. Worth(y) /\ Counted(y)
    BY <1>1, <1>2 DEF Worth, Counted, Executions
  <1> QED BY <1>2, <1>3, <1>4, <1>5 DEF Sound, y

\* Taking the earliest event off the heap.
LEMMA Pops ==
  ASSUME NEW x \in RuntimeType, Counted(x), x.events # {}
  PROVE  LET e == Earliest(x.events)
             rest == x.events \ {e}
         IN  /\ e \in EventType /\ e \in x.events /\ rest \in SUBSET EventType
             /\ IsFiniteSet(rest) /\ Cardinality(rest) = Cardinality(x.events) - 1
             /\ Cardinality(x.events) \in Nat /\ Cardinality(x.failed) \in Nat
             /\ Numbers(x.events) = Numbers(rest) \cup {e.seq}
             /\ \A f \in rest : Precedes(e, f)
  <1> DEFINE e == Earliest(x.events)
  <1>1. e \in x.events /\ \A f \in x.events \ {e} : Precedes(e, f)
    BY EarliestIs
  <1> HIDE DEF e
  <1>2. x.events \subseteq EventType
    BY DEF RuntimeType
  <1>3. /\ IsFiniteSet(x.events \ {e})
        /\ Cardinality(x.events \ {e}) = Cardinality(x.events) - 1
    BY <1>1, FS_RemoveElement DEF Counted
  <1>4. Cardinality(x.events) \in Nat /\ Cardinality(x.failed) \in Nat
    BY FS_CardinalityType DEF Counted
  <1>5. Numbers(x.events) = Numbers(x.events \ {e}) \cup {e.seq}
    BY <1>1 DEF Numbers
  <1> QED BY <1>1, <1>2, <1>3, <1>4, <1>5 DEF e

\* The generator stays in its range, and a key gets a value.
LEMMA NewValues ==
  ASSUME NEW x \in RuntimeType, NEW e \in EventType, Executable(x, e)
  PROVE  /\ e.key \in StateKeys /\ NewValue(x, e) \in StateValues
         /\ NextRandom(x) \in 0..(M - 1)
  <1>1. e.key \in StateKeys
    BY DEF Executable, EventType
  <1>2. NextRandom(x) \in 0..(M - 1)
    <2>1. A \in Nat /\ C \in Nat /\ M \in Nat \ {0} /\ x.rng \in Nat
      BY GeneratorAssumption DEF RuntimeType
    <2>2. A * x.rng \in Nat
      BY <2>1, Products
    <2>3. A * x.rng + C \in Nat
      BY <2>1, <2>2
    <2> QED BY <2>1, <2>3, WholeTicks DEF NextRandom
  <1>3. CASE e.op = "set"
    <2>1. NewValue(x, e) = e.value
      BY <1>3 DEF NewValue
    <2>2. e.value \in StateValues
      BY <1>3 DEF Executable, EventType
    <2> QED BY <1>1, <1>2, <2>1, <2>2
  <1>4. CASE e.op = "add"
    <2>1. NewValue(x, e) = Old(x, e) + e.value
      BY <1>4 DEF NewValue
    <2>2. Old(x, e) \in Int /\ e.value \in Int
      BY <1>4 DEF Executable, Number
    <2>3. Old(x, e) + e.value \in StateValues
      BY <2>2 DEF StateValues
    <2> QED BY <1>1, <1>2, <2>1, <2>3
  <1>5. CASE e.op = "random_add"
    <2>1. e.value \in Int /\ Old(x, e) \in Int /\ e.span + 1 \in Nat \ {0}
      BY <1>5 DEF Executable, Number, EventType
    <2>2. NextRandom(x) \in Nat
      BY <1>2, GeneratorAssumption
    <2>3. NextRandom(x) % (e.span + 1) \in Int
      BY <2>1, <2>2, WholeTicks
    <2>4. NewValue(x, e) = Old(x, e) + e.value + (NextRandom(x) % (e.span + 1))
      BY <1>5 DEF NewValue
    <2>5. NewValue(x, e) \in StateValues
      BY <2>1, <2>3, <2>4 DEF StateValues
    <2> QED BY <1>1, <1>2, <2>5
  <1> QED BY <1>1, <1>2, <1>3, <1>4, <1>5 DEF EventType

\* Executing the earliest event, when it is due, keeps the order and the count.
LEMMA ExecutedIsSound ==
  ASSUME NEW x, NEW j, Sound(x, j), DueNow(x), Executable(x, Earliest(x.events))
  PROVE  Sound(Executed(x), j)
  <1> DEFINE e == Earliest(x.events)
             rest == x.events \ {e}
             entry == [at |-> x.tick, tick |-> e.tick, seq |-> e.seq]
             log == Append(x.log, entry)
             y == Executed(x)
  <1>1. /\ x \in RuntimeType /\ j \in JobType /\ OnTime(x, j)
        /\ Worth(x) /\ Past(x) /\ Passed(x, j.due) /\ Counted(x)
    BY DEF Sound
  <1>2. x.events # {} /\ e.tick = x.tick
    BY DEF DueNow
  <1>3. /\ e \in EventType /\ e \in x.events /\ rest \in SUBSET EventType
        /\ IsFiniteSet(rest) /\ Cardinality(rest) = Cardinality(x.events) - 1
        /\ Cardinality(x.events) \in Nat /\ Cardinality(x.failed) \in Nat
        /\ Numbers(x.events) = Numbers(rest) \cup {e.seq}
        /\ \A f \in rest : Precedes(e, f)
    BY <1>1, <1>2, Pops
  <1>4. /\ e.key \in StateKeys /\ NewValue(x, e) \in StateValues
        /\ NextRandom(x) \in 0..(M - 1)
    BY <1>1, <1>3, NewValues
  <1>5. e.tick \in Nat /\ e.seq \in Nat
    BY <1>1, <1>3, Events
  <1>6. /\ log \in Seq([at : Nat, tick : Nat, seq : Nat])
        /\ Len(log) = Len(x.log) + 1 /\ Len(x.log) \in Nat
        /\ DOMAIN x.log = 1..Len(x.log) /\ DOMAIN log = 1..(Len(x.log) + 1)
        /\ \A i \in DOMAIN x.log : log[i] = x.log[i]
        /\ log[Len(x.log) + 1] = entry
    <2>1. x.log \in Seq([at : Nat, tick : Nat, seq : Nat])
      BY <1>1 DEF RuntimeType
    <2>2. entry \in [at : Nat, tick : Nat, seq : Nat]
      BY <1>2, <1>5
    <2> HIDE DEF entry
    <2>3. Len(x.log) \in Nat /\ DOMAIN x.log = 1..Len(x.log)
      BY <1>1, LogEntries
    <2> QED BY <2>1, <2>2, <2>3, AppendProperties, LenProperties
  <1>7. /\ y \in RuntimeType
        /\ y.events = rest /\ y.log = log /\ y.nextSeq = x.nextSeq
        /\ y.tick = x.tick /\ y.failed = x.failed
        /\ y.granted = x.granted /\ y.walked = x.walked /\ y.remainder = x.remainder
        /\ y.calls = x.calls
    <2> DEFINE st == [x.state EXCEPT ![e.key] = NewValue(x, e)]
               g == IF e.op = "random_add" THEN NextRandom(x) ELSE x.rng
    <2>1. y = [x EXCEPT !.events = rest, !.state = st, !.rng = g, !.log = log]
      BY <1>1 DEF Executed, Popped, RuntimeType
    <2>2. st \in [StateKeys -> StateValues \cup {Absent}] /\ g \in 0..(M - 1)
      BY <1>1, <1>4 DEF RuntimeType
    <2> HIDE DEF st, g, log, rest, y
    <2>3. y \in RuntimeType
      BY <1>1, <1>3, <1>6, <2>1, <2>2, Fields
    <2>4. /\ y.events = rest /\ y.log = log /\ y.nextSeq = x.nextSeq
          /\ y.tick = x.tick /\ y.failed = x.failed
          /\ y.granted = x.granted /\ y.walked = x.walked /\ y.remainder = x.remainder
          /\ y.calls = x.calls
      BY <1>1, <2>1 DEF RuntimeType
    <2> QED BY <2>3, <2>4
  <1> HIDE DEF y, log, e
  <1>8. Past(y)
    <2>1. \A i \in DOMAIN y.log :
            \/ i \in DOMAIN x.log /\ y.log[i] = x.log[i]
            \/ i = Len(x.log) + 1 /\ y.log[i] = entry
      <3> HIDE DEF rest, entry
      <3>1. \A i \in DOMAIN log : i \in DOMAIN x.log \/ i = Len(x.log) + 1
        BY <1>6
      <3>2. y.log = log
        BY <1>7
      <3> QED BY <1>6, <3>1, <3>2
    <2>2. \A f \in rest : Precedes(entry, f)
      BY <1>3 DEF Precedes
    <2>3. \A i \in DOMAIN x.log : Precedes(x.log[i], entry)
      BY <1>1, <1>3 DEF Past, Precedes
    <2>4. x.tick \in Nat
      BY <1>1 DEF RuntimeType
    <2>5. \A i \in DOMAIN y.log :
            /\ y.log[i].at = y.log[i].tick /\ y.log[i].tick <= y.tick
            /\ \A f \in y.events : Precedes(y.log[i], f)
      BY <1>1, <1>2, <1>7, <2>1, <2>2, <2>4 DEF Past
    <2>6. \A i, k \in DOMAIN y.log : i < k => Precedes(y.log[i], y.log[k])
      <3> SUFFICES ASSUME NEW i \in DOMAIN y.log, NEW k \in DOMAIN y.log, i < k
                   PROVE  Precedes(y.log[i], y.log[k])
        OBVIOUS
      <3>1. i \in DOMAIN x.log /\ y.log[i] = x.log[i]
        BY <1>6, <1>7, <2>1
      <3> QED BY <1>1, <2>1, <2>3, <3>1 DEF Past
    <2>7. \A f \in y.failed : f.tick <= y.tick /\ \A p \in y.events : Precedes(f, p)
      BY <1>1, <1>7 DEF Past
    <2> QED BY <2>5, <2>6, <2>7 DEF Past
  <1>9. Passed(y, j.due) /\ OnTime(y, j) /\ Worth(y)
    BY <1>1, <1>7 DEF Passed, OnTime, Worth
  <1>10. Counted(y)
    <2>1. Executions(y) = Executions(x) \cup {e.seq}
      <3>0. \A i \in DOMAIN log :
              (i \in DOMAIN x.log /\ log[i].seq = x.log[i].seq) \/ log[i].seq = e.seq
        <4> HIDE DEF rest, entry
        <4>1. \A i \in DOMAIN log : i \in DOMAIN x.log \/ i = Len(x.log) + 1
          BY <1>6
        <4>2. log[Len(x.log) + 1].seq = e.seq
          BY <1>6 DEF entry
        <4>3. \A i \in DOMAIN x.log : log[i] = x.log[i]
          BY <1>6
        <4> QED BY <4>1, <4>2, <4>3
      <3>1. Executions(y) \subseteq Executions(x) \cup {e.seq}
        BY <1>7, <3>0 DEF Executions
      <3>2. \A i \in DOMAIN x.log : i \in DOMAIN log /\ log[i].seq = x.log[i].seq
        <4>1. \A i \in DOMAIN x.log : i \in DOMAIN log
          BY <1>6
        <4> QED BY <1>6, <4>1
      <3>3. Len(x.log) + 1 \in DOMAIN log /\ log[Len(x.log) + 1].seq = e.seq
        BY <1>6
      <3> QED BY <1>7, <3>1, <3>2, <3>3 DEF Executions
    <2>2. Executions(y) \cup Numbers(y.failed) \cup Numbers(y.events) = 0..(y.nextSeq - 1)
      BY <1>1, <1>3, <1>7, <2>1 DEF Counted
    <2>3. Len(y.log) + Cardinality(y.failed) + Cardinality(y.events) = y.nextSeq
      <3>1. Len(x.log) + Cardinality(x.failed) + Cardinality(x.events) = x.nextSeq
        BY <1>1 DEF Counted
      <3>2. Len(y.log) = Len(x.log) + 1 /\ Len(x.log) \in Nat
        BY <1>6, <1>7
      <3>3. Cardinality(y.events) = Cardinality(x.events) - 1 /\ y.failed = x.failed
        BY <1>3, <1>7
      <3> QED BY <1>3, <1>7, <3>1, <3>2, <3>3
    <2> QED BY <1>1, <1>3, <1>7, <2>2, <2>3 DEF Counted
  <1> QED BY <1>1, <1>7, <1>8, <1>9, <1>10 DEF Sound, y

\* An event that raises is gone, and is the last that is executed of its method.
LEMMA RaisedIsSound ==
  ASSUME NEW x, NEW j, Sound(x, j), DueNow(x)
  PROVE  Sound([Popped(x) EXCEPT !.failed = @ \cup {Earliest(x.events)}], NoJob)
  <1> DEFINE e == Earliest(x.events)
             rest == x.events \ {e}
             fails == x.failed \cup {e}
             y == [Popped(x) EXCEPT !.failed = @ \cup {e}]
  <1>1. /\ x \in RuntimeType /\ Worth(x) /\ Past(x) /\ Counted(x)
    BY DEF Sound
  <1>2. x.events # {} /\ e.tick = x.tick
    BY DEF DueNow
  <1>3. /\ e \in EventType /\ e \in x.events /\ rest \in SUBSET EventType
        /\ IsFiniteSet(rest) /\ Cardinality(rest) = Cardinality(x.events) - 1
        /\ Cardinality(x.events) \in Nat /\ Cardinality(x.failed) \in Nat
        /\ Numbers(x.events) = Numbers(rest) \cup {e.seq}
        /\ \A f \in rest : Precedes(e, f)
    BY <1>1, <1>2, Pops
  <1>4. e.tick \in Nat /\ e.seq \in Nat
    BY <1>1, <1>3, Events
  <1>5. /\ y \in RuntimeType
        /\ y.events = rest /\ y.failed = fails /\ y.nextSeq = x.nextSeq
        /\ y.tick = x.tick /\ y.log = x.log
        /\ y.granted = x.granted /\ y.walked = x.walked /\ y.remainder = x.remainder
        /\ y.calls = x.calls
    <2>1. y = [x EXCEPT !.events = rest, !.failed = fails]
      BY <1>1 DEF Popped, RuntimeType
    <2>2. fails \in SUBSET EventType
      BY <1>1, <1>3 DEF RuntimeType
    <2> HIDE DEF fails, rest, y
    <2>3. y \in RuntimeType
      BY <1>1, <1>3, <2>1, <2>2, Fields
    <2>4. /\ y.events = rest /\ y.failed = fails /\ y.nextSeq = x.nextSeq
          /\ y.tick = x.tick /\ y.log = x.log
          /\ y.granted = x.granted /\ y.walked = x.walked /\ y.remainder = x.remainder
          /\ y.calls = x.calls
      BY <1>1, <2>1 DEF RuntimeType
    <2> QED BY <2>3, <2>4
  <1> HIDE DEF y, e
  <1>6. Past(y)
    <2>1. x.tick \in Nat
      BY <1>1 DEF RuntimeType
    <2> QED BY <1>1, <1>2, <1>3, <1>5, <2>1 DEF Past
  <1>7. y.tick \in Nat /\ y.tick <= MaxTick /\ NoJob \in JobType
    BY <1>5, RuntimeBounds DEF RuntimeType, JobType, NoJob
  <1>8. OnTime(y, NoJob) /\ Worth(y) /\ Passed(y, NoJob.due)
    BY <1>1, <1>5, <1>7 DEF OnTime, Worth, Passed, NoJob
  <1>9. Counted(y)
    <2>1. e \notin x.failed
      BY <1>1, <1>3, <1>4 DEF Past, Precedes
    <2>2. IsFiniteSet(fails) /\ Cardinality(fails) = Cardinality(x.failed) + 1
      BY <1>1, <2>1, FS_AddElement DEF Counted
    <2>3. Numbers(fails) = Numbers(x.failed) \cup {e.seq} /\ Executions(y) = Executions(x)
      BY <1>5 DEF Numbers, Executions
    <2>4. Executions(y) \cup Numbers(y.failed) \cup Numbers(y.events) = 0..(y.nextSeq - 1)
      BY <1>1, <1>3, <1>5, <2>3 DEF Counted
    <2>5. Len(y.log) + Cardinality(y.failed) + Cardinality(y.events) = y.nextSeq
      <3>1. Len(x.log) + Cardinality(x.failed) + Cardinality(x.events) = x.nextSeq
        BY <1>1 DEF Counted
      <3>2. Len(x.log) \in Nat
        BY <1>1, LogEntries
      <3> QED BY <1>3, <1>5, <2>2, <3>1, <3>2
    <2> QED BY <1>1, <1>3, <1>5, <2>2, <2>4, <2>5 DEF Counted
  <1> QED BY <1>5, <1>6, <1>7, <1>8, <1>9 DEF Sound, y, e

-----------------------------------------------------------------------------
(* The steps.                                                              *)

\* A new runtime is sound.
LEMMA Starts == Init => Inductive
  <1>1. NoJob \in JobType
    BY RuntimeBounds DEF NoJob, JobType
  <1>2. Fresh \in RuntimeType
    <2>1. Fresh.log \in Seq([at : Nat, tick : Nat, seq : Nat])
      BY DEF Fresh
    <2>2. /\ 0 \in 0..MaxTick /\ Units \in MinRate..MaxRate /\ 0 \in 0..(Units - 1)
          /\ 0 \in 0..MaxEvents /\ Seed \in 0..(M - 1)
      BY UnitsAssumption, GeneratorAssumption, RuntimeBounds DEF MinRate, MaxRate
    <2>3. [k \in StateKeys |-> Absent] \in [StateKeys -> StateValues \cup {Absent}]
      OBVIOUS
    <2> QED BY <2>1, <2>2, <2>3 DEF Fresh, RuntimeType
  <1>3. OnTime(Fresh, NoJob) /\ Past(Fresh) /\ Passed(Fresh, NoJob.due)
    BY RuntimeBounds DEF OnTime, Past, Passed, Fresh, NoJob
  <1>4. Worth(Fresh)
    BY UnitsAssumption, FloatAssumption DEF Worth, Fresh
  <1>5. Counted(Fresh)
    <2>1. /\ Fresh.events = {} /\ Fresh.failed = {} /\ Fresh.log = <<>> /\ Fresh.nextSeq = 0
      BY DEF Fresh
    <2>2. Executions(Fresh) = {} /\ Numbers(Fresh.events) = {} /\ Numbers(Fresh.failed) = {}
      BY <2>1 DEF Executions, Numbers
    <2>3. 0..(0 - 1) = {} /\ Len(<<>>) = 0
      OBVIOUS
    <2> QED BY <2>1, <2>2, <2>3, FS_EmptySet DEF Counted
  <1>6. Sound(Fresh, NoJob)
    BY <1>1, <1>2, <1>3, <1>4, <1>5 DEF Sound
  <1> QED BY <1>1, <1>2, <1>6 DEF Init, Inductive

\* A job stays one when a field gets another value of its kind.
LEMMA JobFields ==
  ASSUME NEW j \in JobType, NEW n \in 0..MaxTick, NEW b \in BOOLEAN
  PROVE  /\ [j EXCEPT !.left = n] \in JobType /\ [j EXCEPT !.goal = n] \in JobType
         /\ [j EXCEPT !.due = b] \in JobType
         /\ [j EXCEPT !.left = n, !.due = b] \in JobType
  <1>1. [j EXCEPT !.left = n] \in JobType /\ [j EXCEPT !.goal = n] \in JobType
    BY DEF JobType
  <1>2. \A k \in JobType : [k EXCEPT !.due = b] \in JobType
    BY DEF JobType
  <1>3. [[j EXCEPT !.left = n] EXCEPT !.due = b] \in JobType
    BY <1>1, <1>2
  <1> QED BY <1>1, <1>2, <1>3 DEF JobType

\* The jobs that methods start with, and those their loops leave.
LEMMA Jobs ==
  /\ NoJob \in JobType
  /\ \A n \in 0..MaxTick :
       LET step == Steps(n)
           run  == [NoJob EXCEPT !.goal = n]
       IN  /\ step \in JobType /\ step.left = n /\ step.goal = 0 /\ step.due = FALSE
           /\ run \in JobType /\ run.left = 0 /\ run.goal = n /\ run.due = FALSE
  /\ LET jump == [NoJob EXCEPT !.due = TRUE]
     IN  jump \in JobType /\ jump.left = 0 /\ jump.goal = 0 /\ jump.due = TRUE
  /\ \A j \in JobType : j.left > 0 =>
       LET next == [j EXCEPT !.left = @ - 1, !.due = TRUE]
       IN  /\ next \in JobType /\ next.due = TRUE
           /\ next.left = j.left - 1 /\ next.goal = j.goal
  <1>1. 0 \in 0..MaxTick /\ NoJob \in JobType
    BY RuntimeBounds DEF NoJob, JobType
  <1>2. \A n \in 0..MaxTick :
          /\ Steps(n) \in JobType /\ Steps(n).left = n
          /\ Steps(n).goal = 0 /\ Steps(n).due = FALSE
    <2>1. \A n \in 0..MaxTick : Steps(n) \in JobType
      BY <1>1, JobFields DEF Steps
    <2> QED BY <2>1 DEF Steps, NoJob
  <1>3. \A n \in 0..MaxTick :
          /\ [NoJob EXCEPT !.goal = n] \in JobType /\ [NoJob EXCEPT !.goal = n].left = 0
          /\ [NoJob EXCEPT !.goal = n].goal = n /\ [NoJob EXCEPT !.goal = n].due = FALSE
    <2>1. \A n \in 0..MaxTick : [NoJob EXCEPT !.goal = n] \in JobType
      BY <1>1, JobFields
    <2> QED BY <2>1 DEF NoJob
  <1>4. /\ [NoJob EXCEPT !.due = TRUE] \in JobType /\ [NoJob EXCEPT !.due = TRUE].left = 0
        /\ [NoJob EXCEPT !.due = TRUE].goal = 0 /\ [NoJob EXCEPT !.due = TRUE].due = TRUE
    <2>1. [NoJob EXCEPT !.due = TRUE] \in JobType
      BY <1>1, JobFields
    <2> QED BY <2>1 DEF NoJob
  <1>5. ASSUME NEW j \in JobType, j.left > 0
        PROVE  LET next == [j EXCEPT !.left = @ - 1, !.due = TRUE]
               IN  /\ next \in JobType /\ next.due = TRUE
                   /\ next.left = j.left - 1 /\ next.goal = j.goal
    <2>1. j.left - 1 \in 0..MaxTick
      BY <1>5, RuntimeBounds DEF JobType
    <2>2. [j EXCEPT !.left = j.left - 1, !.due = TRUE] \in JobType
      BY <2>1, JobFields
    <2> QED BY <2>2 DEF JobType
  <1> QED BY <1>1, <1>2, <1>3, <1>4, <1>5

\* One runtime, and its job, may become what is sound.
LEMMA Becomes ==
  ASSUME Inductive, NEW r \in Runtimes, NEW x, NEW j, Sound(x, j),
         rt' = [rt EXCEPT ![r] = x], job' = [job EXCEPT ![r] = j], UNCHANGED saved
  PROVE  Inductive'
  <1>1. x \in RuntimeType /\ j \in JobType
    BY DEF Sound
  <1>2. /\ rt' \in [Runtimes -> RuntimeType] /\ job' \in [Runtimes -> JobType]
        /\ rt'[r] = x /\ job'[r] = j
        /\ \A q \in Runtimes \ {r} : rt'[q] = rt[q] /\ job'[q] = job[q]
    BY <1>1 DEF Inductive
  <1>3. \A q \in Runtimes : Sound(rt'[q], job'[q])
    BY <1>2 DEF Inductive
  <1> QED BY <1>2, <1>3 DEF Inductive

\* A method on one runtime replaces one runtime and one job.
LEMMA One ==
  ASSUME Inductive, NEW r \in Runtimes, NEW x, NEW j
  PROVE  /\ [q \in Runtimes |-> IF q \in {r} THEN x ELSE rt[q]] = [rt EXCEPT ![r] = x]
         /\ [q \in Runtimes |-> IF q \in {r} THEN j ELSE job[q]] = [job EXCEPT ![r] = j]
         /\ rt = [rt EXCEPT ![r] = rt[r]] /\ job = [job EXCEPT ![r] = job[r]]
  BY DEF Inductive

\* A command may make of every runtime what is sound.
LEMMA AllBecome ==
  ASSUME Inductive, rt' = [q \in Runtimes |-> rt'[q]], job' = [q \in Runtimes |-> job'[q]],
         \A q \in Runtimes : Sound(rt'[q], job'[q]), UNCHANGED saved
  PROVE  Inductive'
  <1>1. \A q \in Runtimes : rt'[q] \in RuntimeType /\ job'[q] \in JobType
    BY DEF Sound
  <1>2. rt' \in [Runtimes -> RuntimeType] /\ job' \in [Runtimes -> JobType]
    BY <1>1
  <1> QED BY <1>2 DEF Inductive

\* Scheduling, rate and pause keep the invariant, whatever runtimes they address.
LEMMA CommandsKeep ==
  ASSUME Inductive, NEW R \in SUBSET Runtimes,
         \/ \E at \in 1..MaxTick, payload \in Payloads : ScheduleEvent(R, at, payload)
         \/ \E rate \in Rates : SetRate(R, rate)
         \/ Pause(R) \/ Resume(R)
  PROVE  Inductive'
  <1>1. /\ \A q \in Runtimes : Sound(rt[q], job[q]) /\ rt[q] \in RuntimeType
        /\ job = [q \in Runtimes |-> job[q]]
    BY DEF Inductive
  <1>2. ASSUME NEW at \in 1..MaxTick, NEW payload \in Payloads, ScheduleEvent(R, at, payload)
        PROVE  Inductive'
    <2>1. /\ \A q \in R : job[q] = NoJob /\ at > rt[q].tick /\ rt[q].nextSeq < MaxEvents
          /\ UNCHANGED <<job, saved>>
          /\ rt' = [q \in Runtimes |-> IF q \in R THEN Planned(rt[q], at, payload) ELSE rt[q]]
      BY <1>2 DEF ScheduleEvent, Command, Idle
    <2>2. \A q \in R : Sound(Planned(rt[q], at, payload), NoJob)
      BY <1>1, <2>1, PlannedIsSound, PayloadsAssumption
    <2>3. \A q \in Runtimes : Sound(rt'[q], job'[q])
      BY <1>1, <2>1, <2>2
    <2> QED BY <1>1, <2>1, <2>3, AllBecome
  <1>3. ASSUME NEW rate \in Rates, SetRate(R, rate)
        PROVE  Inductive'
    <2>1. /\ rate \in MinRate..MaxRate /\ UNCHANGED <<job, saved>>
          /\ rt' = [q \in Runtimes |-> IF q \in R THEN [rt[q] EXCEPT !.rate = rate]
                                       ELSE rt[q]]
      BY <1>3 DEF SetRate, Command
    <2>2. \A q \in Runtimes : Sound([rt[q] EXCEPT !.rate = rate], job[q])
      <3> TAKE q \in Runtimes
      <3>1. [rt[q] EXCEPT !.rate = rate] \in RuntimeType
        BY <1>1, <2>1, Fields
      <3> QED BY <1>1, <3>1, RateAndPause
    <2>3. \A q \in Runtimes : Sound(rt'[q], job'[q])
      BY <1>1, <2>1, <2>2
    <2> QED BY <1>1, <2>1, <2>3, AllBecome
  <1>4. ASSUME NEW p \in BOOLEAN, UNCHANGED <<job, saved>>,
               rt' = [q \in Runtimes |-> IF q \in R THEN [rt[q] EXCEPT !.paused = p]
                                         ELSE rt[q]]
        PROVE  Inductive'
    <2>1. \A q \in Runtimes : Sound([rt[q] EXCEPT !.paused = p], job[q])
      <3> TAKE q \in Runtimes
      <3>1. [rt[q] EXCEPT !.paused = p] \in RuntimeType
        BY <1>1, Fields
      <3> QED BY <1>1, <3>1, RateAndPause
    <2>2. \A q \in Runtimes : Sound(rt'[q], job'[q])
      BY <1>1, <1>4, <2>1
    <2> QED BY <1>1, <1>4, <2>2, AllBecome
  <1>5. CASE Pause(R)
    BY <1>4, <1>5 DEF Pause, Command
  <1>6. CASE Resume(R)
    BY <1>4, <1>6 DEF Resume, Command
  <1> QED BY <1>2, <1>3, <1>5, <1>6

\* Snapshots are of sound runtimes, and restoring one makes a sound runtime.
LEMMA SnapshotsKeep ==
  ASSUME Inductive, NEW R \in SUBSET Runtimes, Snapshot(R) \/ Restore(R)
  PROVE  Inductive'
  <1>1. /\ \A q \in Runtimes : Sound(rt[q], job[q]) /\ rt[q] \in RuntimeType
        /\ \A q \in Runtimes : \A x \in saved[q] : Sound(x, NoJob)
        /\ job = [q \in Runtimes |-> job[q]]
    BY DEF Inductive
  <1>2. CASE Snapshot(R)
    <2>1. /\ \A q \in R : job[q] = NoJob
          /\ UNCHANGED <<rt, job>>
          /\ saved' = [q \in Runtimes |-> IF q \in R THEN {rt[q]} ELSE saved[q]]
      BY <1>2 DEF Snapshot, Idle
    <2>2. saved' \in [Runtimes -> SUBSET RuntimeType]
      BY <1>1, <2>1 DEF Inductive
    <2>3. \A q \in Runtimes : \A x \in saved'[q] : Sound(x, NoJob)
      BY <1>1, <2>1 DEF Inductive
    <2> QED BY <2>1, <2>2, <2>3 DEF Inductive
  <1>3. CASE Restore(R)
    <2> DEFINE held(q) == CHOOSE x \in saved[q] : TRUE
    <2>1. /\ \A q \in R : job[q] = NoJob /\ saved[q] # {}
          /\ UNCHANGED <<job, saved>>
      BY <1>3 DEF Restore, Idle
    <2>2. rt' = [q \in Runtimes |-> IF q \in R THEN held(q) ELSE rt[q]]
      BY <1>3 DEF Restore
    <2>3. \A q \in R : held(q) \in saved[q]
      BY <2>1
    <2> HIDE DEF held
    <2>4. \A q \in Runtimes : Sound(rt'[q], job'[q])
      BY <1>1, <2>1, <2>2, <2>3
    <2> QED BY <1>1, <2>1, <2>2, <2>4, AllBecome
  <1> QED BY <1>2, <1>3

\* Wall quanta leave sound runtimes with the ticks they are worth to go.
LEMMA QuantaKeep ==
  ASSUME Inductive, NEW R \in SUBSET Runtimes,
         NEW quanta \in 1..MaxQuanta, AdvanceWallQuanta(R, quanta)
  PROVE  Inductive'
  <1> DEFINE ticks(q) == Total(rt[q], quanta) \div Units
  <1>1. \A q \in Runtimes : Sound(rt[q], job[q])
    BY DEF Inductive
  <1>2. /\ \A q \in R : job[q] = NoJob /\ rt[q].tick + ticks(q) <= MaxTick
        /\ UNCHANGED saved
        /\ rt' = [q \in Runtimes |-> IF q \in R THEN Granted(rt[q], quanta) ELSE rt[q]]
        /\ job' = [q \in Runtimes |-> IF q \in R THEN Steps(ticks(q)) ELSE job[q]]
    BY DEF AdvanceWallQuanta, Start, Idle
  <1>3. \A q \in R : Sound(Granted(rt[q], quanta), Steps(ticks(q)))
    BY <1>1, <1>2, GrantedIsSound
  <1> HIDE DEF ticks
  <1>4. \A q \in Runtimes : Sound(rt'[q], job'[q])
    BY <1>1, <1>2, <1>3
  <1> QED BY <1>2, <1>4, AllBecome

\* Every command that is the same in both modes of execution keeps the invariant.
LEMMA ControlKeeps ==
  ASSUME Inductive, NEW R \in SUBSET Runtimes, Control(R)
  PROVE  Inductive'
  BY CommandsKeep, SnapshotsKeep, QuantaKeep DEF Control

\* So do the methods that loop, when they start.
LEMMA StartsKeep ==
  ASSUME Inductive, NEW r \in Runtimes, Drive({r})
  PROVE  Inductive'
  <1>1. Sound(rt[r], job[r]) /\ rt[r] \in RuntimeType /\ rt[r].tick \in Nat
    BY DEF Inductive, RuntimeType
  <1>2. ASSUME NEW units \in 1..MaxTick, Step({r}, units)
        PROVE  Inductive'
    <2>1. /\ job[r] = NoJob /\ rt[r].tick + units <= MaxTick /\ UNCHANGED <<rt, saved>>
          /\ job' = [q \in Runtimes |-> IF q \in {r} THEN Steps(units) ELSE job[q]]
      BY <1>2 DEF Step, Start, Idle
    <2>2. /\ Steps(units) \in JobType /\ OnTime(rt[r], Steps(units))
          /\ Steps(units).due = NoJob.due
      <3>1. units \in 0..MaxTick
        BY RuntimeBounds
      <3> QED BY <2>1, <3>1, Jobs DEF NoJob, OnTime
    <2>3. Sound(rt[r], Steps(units))
      BY <1>1, <2>1, <2>2, OtherJob
    <2> QED BY <2>1, <2>3, One, Becomes
  <1>3. ASSUME NEW target \in 1..MaxTick, RunUntilJump({r}, target)
        PROVE  Inductive'
    <2> DEFINE k == [NoJob EXCEPT !.goal = target]
    <2>1. /\ job[r] = NoJob /\ UNCHANGED <<rt, saved>>
          /\ job' = [q \in Runtimes |-> IF q \in {r} THEN k ELSE job[q]]
      BY <1>3 DEF RunUntilJump, Start, Idle
    <2>2. k \in JobType /\ OnTime(rt[r], k) /\ k.due = NoJob.due
      <3>1. target \in 0..MaxTick /\ rt[r].tick <= MaxTick
        BY <1>1, RuntimeBounds DEF RuntimeType
      <3>2. k \in JobType /\ k.left = 0 /\ k.due = FALSE
        BY <3>1, Jobs
      <3> QED BY <1>1, <3>1, <3>2 DEF OnTime, NoJob
    <2>3. Sound(rt[r], k)
      BY <1>1, <2>1, <2>2, OtherJob
    <2> HIDE DEF k
    <2> QED BY <2>1, <2>3, One, Becomes
  <1>4. CASE EventJump({r})
    <2> DEFINE k == [NoJob EXCEPT !.due = TRUE]
               e == Earliest(rt[r].events)
               y == [rt[r] EXCEPT !.tick = e.tick]
    <2>1. /\ job[r] = NoJob /\ rt[r].events # {} /\ e.tick > rt[r].tick /\ UNCHANGED saved
          /\ job' = [q \in Runtimes |-> IF q \in {r} THEN k ELSE job[q]]
          /\ rt' = [q \in Runtimes |-> IF q \in {r}
                                       THEN [rt[q] EXCEPT !.tick = Earliest(rt[q].events).tick]
                                       ELSE rt[q]]
      BY <1>4 DEF EventJump, Start, Idle
    <2>2. rt' = [rt EXCEPT ![r] = y] /\ job' = [job EXCEPT ![r] = k]
      BY <2>1 DEF Inductive
    <2>3. /\ e \in EventType /\ e \in rt[r].events
          /\ \A f \in rt[r].events \ {e} : Precedes(e, f)
      BY <1>1, <2>1, Pops DEF Sound
    <2> HIDE DEF e
    <2>4. e.tick \in 0..MaxTick /\ k \in JobType /\ k.due = TRUE
      <3>1. e.tick \in 0..MaxTick
        BY <2>3, RuntimeBounds DEF EventType
      <3>2. k \in JobType /\ k.due = TRUE
        BY Jobs
      <3> QED BY <3>1, <3>2
    <2>5. OnTime(y, k)
      <3>1. y.tick = e.tick /\ k.left = 0
        BY <1>1, Jobs DEF RuntimeType
      <3> QED BY <2>4, <3>1 DEF OnTime
    <2>6. \A f \in rt[r].events : f.tick > e.tick \/ f.tick = e.tick
      BY <2>3 DEF Precedes
    <2>7. Sound(y, k)
      BY <1>1, <2>1, <2>4, <2>5, <2>6, ClockIsSound DEF NoJob
    <2> HIDE DEF y, k
    <2> QED BY <2>1, <2>2, <2>7, Becomes
  <1> QED BY <1>2, <1>3, <1>4 DEF Drive

\* And every turn of their loops.
LEMMA TurnsKeep ==
  ASSUME Inductive, NEW r \in Runtimes, Turn(r)
  PROVE  Inductive'
  <1> DEFINE x == rt[r]
             j == job[r]
             e == Earliest(x.events)
  <1>1. /\ Sound(x, j) /\ x \in RuntimeType /\ j \in JobType
        /\ OnTime(x, j) /\ Passed(x, j.due) /\ Counted(x) /\ Past(x)
    BY DEF Inductive, Sound
  <1>2. x.tick \in 0..MaxTick /\ x.tick \in Nat /\ x.events \subseteq EventType
    BY <1>1, RuntimeBounds DEF RuntimeType
  <1>3. x.events # {} =>
          /\ e \in EventType /\ e \in x.events
          /\ \A f \in x.events \ {e} : Precedes(e, f)
    BY <1>1, Pops
  <1>4. \A f \in x.events : f.tick \in 1..MaxTick
    BY <1>2 DEF EventType
  <1>5. NoJob \in JobType /\ NoJob.due = FALSE /\ OnTime(x, NoJob)
    BY <1>2, RuntimeBounds DEF NoJob, JobType, OnTime
  <1>6. \A y, k : Become(r, y, k) /\ Sound(y, k) => Inductive'
    BY Becomes DEF Become
  <1> HIDE DEF x, j, e
  <1>7. CASE Tick(r)
    <2> DEFINE k == [j EXCEPT !.left = @ - 1, !.due = TRUE]
               y == [x EXCEPT !.tick = @ + 1]
    <2>1. j.left > 0 /\ ~j.due /\ Become(r, y, k)
      BY <1>7 DEF Tick, x, j
    <2>2. k \in JobType /\ k.due = TRUE /\ k.left = j.left - 1 /\ k.goal = j.goal
      BY <1>1, <2>1, Jobs
    <2>3. x.tick + 1 \in 0..MaxTick
      BY <1>1, <1>2, <2>1, RuntimeBounds DEF OnTime, JobType
    <2>4. y = [x EXCEPT !.tick = x.tick + 1] /\ y.tick = x.tick + 1
      BY <1>1 DEF RuntimeType
    <2>5. OnTime(y, k)
      BY <1>1, <1>2, <2>1, <2>2, <2>4 DEF OnTime, JobType
    <2>6. \A f \in x.events : f.tick > x.tick => f.tick > x.tick + 1 \/ f.tick = x.tick + 1
      BY <1>2, <1>4
    <2> HIDE DEF y, k
    <2>7. Sound(y, k)
      BY <1>1, <1>2, <2>1, <2>2, <2>3, <2>4, <2>5, <2>6, ClockIsSound
    <2> QED BY <1>6, <2>1, <2>7
  <1>8. CASE Execute(r)
    <2>1. DueNow(x) /\ Executable(x, Earliest(x.events)) /\ Become(r, Executed(x), j)
      BY <1>8 DEF Execute, x, j
    <2> QED BY <1>1, <1>6, <2>1, ExecutedIsSound
  <1>9. CASE Raise(r)
    <2> DEFINE y == [Popped(x) EXCEPT !.failed = @ \cup {Earliest(x.events)}]
    <2>1. DueNow(x) /\ Become(r, y, NoJob)
      BY <1>9 DEF Raise, x
    <2>2. Sound(y, NoJob)
      BY <1>1, <2>1, RaisedIsSound
    <2> HIDE DEF y
    <2> QED BY <1>6, <2>1, <2>2
  <1>10. CASE Drained(r)
    <2> DEFINE k == [j EXCEPT !.due = FALSE]
    <2>1. j.due /\ ~DueNow(x) /\ Become(r, x, k)
      BY <1>10 DEF Drained, x, j
    <2>2. k \in JobType /\ k.due = FALSE /\ k.left = j.left /\ k.goal = j.goal
      BY <1>1 DEF JobType
    <2> HIDE DEF k
    <2>3. OnTime(x, k)
      BY <1>1, <2>2 DEF OnTime
    <2>4. Passed(x, FALSE)
      <3> SUFFICES ASSUME NEW f \in x.events, f.tick < x.tick \/ f.tick = x.tick
                   PROVE  x.failed # {}
        BY DEF Passed
      <3>1. e.tick # x.tick
        BY <2>1 DEF DueNow, e
      <3>2. e.tick <= f.tick
        BY <1>3, <1>4 DEF Precedes
      <3>3. e.tick < x.tick
        BY <1>2, <1>3, <1>4, <3>1, <3>2
      <3> QED BY <1>1, <1>3, <3>3 DEF Passed
    <2>5. Sound(x, k)
      BY <1>1, <2>2, <2>3, <2>4 DEF Sound
    <2> QED BY <1>6, <2>1, <2>5
  <1>11. CASE Jump(r)
    <2> DEFINE k == [j EXCEPT !.due = TRUE]
               y == [x EXCEPT !.tick = e.tick]
    <2>1. /\ j.goal > 0 /\ ~j.due /\ x.events # {} /\ e.tick > x.tick
          /\ Become(r, y, k)
      BY <1>11 DEF Jump, Within, x, j, e
    <2>2. k \in JobType /\ k.due = TRUE /\ k.left = j.left /\ k.goal = j.goal
      BY <1>1 DEF JobType
    <2>3. e.tick \in 0..MaxTick /\ e.tick >= x.tick
      BY <1>2, <1>3, <1>4, <2>1, RuntimeBounds
    <2>4. y.tick = e.tick
      BY <1>1 DEF RuntimeType
    <2>5. OnTime(y, k)
      <3>1. k.left = 0
        BY <1>1, <2>1, <2>2, RuntimeBounds DEF OnTime, JobType
      <3> QED BY <2>3, <2>4, <3>1 DEF OnTime
    <2>6. \A f \in x.events : f.tick > e.tick \/ f.tick = e.tick
      BY <1>3, <2>1 DEF Precedes
    <2> HIDE DEF k
    <2>7. Sound(y, k)
      BY <1>1, <2>1, <2>2, <2>3, <2>5, <2>6, ClockIsSound
    <2> QED BY <1>6, <2>1, <2>7
  <1>12. CASE Refuse(r)
    <2>1. ~j.due /\ Become(r, x, NoJob)
      BY <1>12 DEF Refuse, x, j
    <2>2. Sound(x, NoJob)
      BY <1>1, <1>5, <2>1, OtherJob DEF JobType
    <2> QED BY <1>6, <2>1, <2>2
  <1>13. CASE Land(r)
    <2> DEFINE n == IF x.tick < j.goal THEN j.goal ELSE x.tick
               y == [x EXCEPT !.tick = n]
    <2>1. ~j.due /\ ~(x.events # {} /\ e.tick <= j.goal) /\ Become(r, y, NoJob)
      BY <1>1, <1>13 DEF Land, Within, x, j, e, RuntimeType
    <2>2. n \in 0..MaxTick /\ n >= x.tick
      BY <1>1, <1>2, RuntimeBounds DEF JobType
    <2>3. y.tick = n
      BY <1>1 DEF RuntimeType
    <2>4. OnTime(y, NoJob)
      BY <2>2, <2>3, RuntimeBounds DEF OnTime, NoJob
    <2>5. \A f \in x.events : f.tick > x.tick => f.tick > n
      <3> SUFFICES ASSUME NEW f \in x.events, f.tick > x.tick
                   PROVE  f.tick > n
        OBVIOUS
      <3>1. f.tick \in Nat /\ e.tick \in Nat /\ j.goal \in Nat
        BY <1>1, <1>3, <1>4, RuntimeBounds DEF JobType
      <3>2. e.tick > j.goal
        BY <2>1, <3>1
      <3>3. e.tick <= f.tick
        BY <1>3, <3>1 DEF Precedes
      <3> QED BY <1>2, <3>1, <3>2, <3>3
    <2> HIDE DEF n
    <2>6. Sound(y, NoJob)
      BY <1>1, <1>5, <2>1, <2>2, <2>4, <2>5, ClockIsSound
    <2> QED BY <1>6, <2>1, <2>6
  <1> QED BY <1>7, <1>8, <1>9, <1>10, <1>11, <1>12, <1>13 DEF Turn

\* The invariant holds throughout.
LEMMA Invariance == Spec => []Inductive
  <1>1. Inductive /\ [Next]_vars => Inductive'
    <2> SUFFICES ASSUME Inductive, [Next]_vars
                 PROVE  Inductive'
      OBVIOUS
    <2>1. CASE UNCHANGED vars
      BY <2>1 DEF vars, Inductive
    <2>2. ASSUME NEW r \in Runtimes, Control({r}) \/ Drive({r}) \/ Turn(r)
          PROVE  Inductive'
      BY <2>2, ControlKeeps, StartsKeep, TurnsKeep
    <2> QED BY <2>1, <2>2 DEF Next
  <1> QED BY Starts, <1>1, PTL DEF Spec

-----------------------------------------------------------------------------
(* What follows.                                                           *)

\* Every field of a runtime, of a snapshot and of a job holds what the code can put
\* there.
THEOREM TypeCorrect == Spec => []TypeOK
  <1>1. Inductive => TypeOK
    BY DEF Inductive, TypeOK
  <1> QED BY <1>1, Invariance, PTL

\* Whatever moved the clock past an event that is pending, an earlier event raised.
THEOREM OverdueIsExplained == Spec => []OverdueOnlyAfterFailure
  <1>1. Inductive => OverdueOnlyAfterFailure
    <2> SUFFICES ASSUME Inductive, NEW r \in Runtimes, NEW e \in rt[r].events,
                        Idle(r), e.tick <= rt[r].tick
                 PROVE  \E f \in rt[r].failed : Precedes(f, e)
      BY DEF OverdueOnlyAfterFailure
    <2>1. /\ rt[r] \in RuntimeType /\ Past(rt[r]) /\ Passed(rt[r], FALSE)
      <3>1. Sound(rt[r], NoJob)
        BY DEF Inductive, Idle
      <3> QED BY <3>1 DEF Sound, NoJob
    <2>2. e.tick \in Nat /\ rt[r].tick \in Nat
      <3>1. e.tick \in Nat
        BY <2>1, Events
      <3>2. rt[r].tick \in Nat
        BY <2>1, RuntimeBounds DEF RuntimeType
      <3> QED BY <3>1, <3>2
    <2>3. rt[r].failed # {}
      BY <2>1, <2>2 DEF Passed
    <2> QED BY <2>1, <2>3 DEF Past
  <1> QED BY <1>1, Invariance, PTL

\* Events are executed at their tick, in the order of tick and sequence number.
THEOREM ExecutionIsInOrder == Spec => []ExecutedInOrder
  <1>1. Inductive => ExecutedInOrder
    BY DEF Inductive, Sound, Past, ExecutedInOrder
  <1> QED BY <1>1, Invariance, PTL

\* Every sequence number handed out is executed, raised or pending, and only one of these.
THEOREM EventsAreKept == Spec => []EveryEventOnce
  <1>1. Inductive => EveryEventOnce
    BY DEF Inductive, Sound, Counted, Executions, EveryEventOnce
  <1> QED BY <1>1, Invariance, PTL

\* Ticks taken and the remainder are what the quanta granted, to two roundings a call.
THEOREM RateStaysKept == Spec => []RateIsKept
  <1>1. Inductive => RateIsKept
    BY DEF Inductive, Sound, Worth, RateIsKept
  <1> QED BY <1>1, Invariance, PTL
=============================================================================
