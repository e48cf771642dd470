----------------------------- MODULE MCRuntime ------------------------------
(***************************************************************************)
(* Small instances of SyntheticRuntime.                                    *)
(***************************************************************************)
EXTENDS SyntheticRuntime

CONSTANTS counter, ticking, jumping

Event(op, key, value, span) == [op |-> op, key |-> key, value |-> value, span |-> span]

\* Payloads every state can execute.
Sound == {Event("set", counter, 2, 0), Event("random_add", counter, 1, 2)}

\* With one that never can (no value) and one that some states make impossible
\* (adding to what is not a number).
Risky ==
  {Event("set", counter, Absent, 0), Event("set", counter, NotANumber, 0),
   Event("add", counter, 1, 0)}

\* Floats with all parts of a tick below one tick and every other part above; of two
\* as near, the one with the even count.
Coarse ==
  [n \in 0..MaxTotal |->
    IF n <= Units \/ n % 2 = 0 THEN n ELSE IF n % 4 = 1 THEN n - 1 ELSE n + 1]

\* An addition that a text makes impossible.
Mixed == {Event("set", counter, NotANumber, 0), Event("add", counter, 1, 0)}
=============================================================================
