---------------------------- MODULE RuntimeTwins ----------------------------
(***************************************************************************)
(* Two runtimes that are given the same commands, except that one is run   *)
(* tick by tick and the other by event jumps.                              *)
(***************************************************************************)
EXTENDS SyntheticRuntime

CONSTANTS Ticker, Jumper

ASSUME TwinsAssumption == Runtimes = {Ticker, Jumper} /\ Ticker # Jumper

\* run_until(target), in tick mode on one and in event_jump mode on the other;
\* it refuses a target behind the clock and does nothing on a paused runtime.
RunBothUntil(target) ==
  /\ \A r \in Runtimes : Idle(r) /\ ~rt[r].paused /\ rt[r].tick <= target
  /\ job' = [r \in Runtimes |->
       IF rt[r].tick = target THEN NoJob
       ELSE IF r = Ticker THEN Steps(target - rt[r].tick)
       ELSE [NoJob EXCEPT !.goal = target]]
  /\ UNCHANGED <<rt, saved>>

TwinsNext ==
  \/ Control(Runtimes)
  \/ \E target \in 1..MaxTick : RunBothUntil(target)
  \/ \E r \in Runtimes : Turn(r)

TwinsSpec == Init /\ [][TwinsNext]_vars /\ \A r \in Runtimes : WF_vars(Turn(r))

\* Payloads none of which can raise, whatever was executed before: all name a key
\* and a value, and what is added to stays a number.
Harmless(payloads) ==
  \A p \in payloads :
    /\ p.key # Absent /\ p.value # Absent
    /\ p.op # "set" => \A q \in payloads : q.key = p.key => Number(q.value)
    /\ p.op = "random_add" => p.span >= 0

\* What the state hash is computed from.
Semantic(x) ==
  [tick |-> x.tick, rate |-> x.rate, remainder |-> x.remainder, paused |-> x.paused,
   state |-> x.state, events |-> x.events, nextSeq |-> x.nextSeq, rng |-> x.rng]

\* Tick execution and event jumps produce the same state hash: whenever both
\* twins are at rest they are in the same semantic state.
SameHash ==
  Idle(Ticker) /\ Idle(Jumper) => Semantic(rt[Ticker]) = Semantic(rt[Jumper])
=============================================================================
