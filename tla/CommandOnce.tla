---------------------------- MODULE CommandOnce ----------------------------
(***************************************************************************)
(* What the control plane promises of one idempotency key, with no         *)
(* dispatcher, provider or thread in sight: a key is leased at most once,  *)
(* a leased key takes effect at most once, success is only ever recorded   *)
(* for a key that took effect, and a closed key never takes effect again.  *)
(*                                                                         *)
(* The promise is as weak as the code: a refusal may be recorded at any    *)
(* time, over whatever the ledger already held, and a lease may close with *)
(* nothing recorded.                                                       *)
(***************************************************************************)
EXTENDS Naturals

CONSTANT Keys       \* idempotency keys

VARIABLES
  lease,            \* "open", "held" or "closed", of every key
  effects,          \* how many times the command of a key took effect
  outcome           \* what the ledger holds for a key

vars == <<lease, effects, outcome>>

Leases   == {"open", "held", "closed"}
Outcomes == {"none", "refused", "failed", "success"}

Init ==
  /\ lease   = [k \in Keys |-> "open"]
  /\ effects = [k \in Keys |-> 0]
  /\ outcome = [k \in Keys |-> "none"]

Lease(k) ==
  /\ lease[k] = "open"
  /\ lease' = [lease EXCEPT ![k] = "held"]
  /\ UNCHANGED <<effects, outcome>>

Effect(k) ==
  /\ lease[k] = "held"
  /\ effects[k] = 0
  /\ effects' = [effects EXCEPT ![k] = 1]
  /\ UNCHANGED <<lease, outcome>>

\* The holder records how its command ended.
Close(k) ==
  /\ lease[k] = "held"
  /\ lease' = [lease EXCEPT ![k] = "closed"]
  /\ \E o \in {"failed", "success"} :
       /\ o = "success" => effects[k] = 1
       /\ outcome' = [outcome EXCEPT ![k] = o]
  /\ UNCHANGED effects

\* The holder stops without recording anything.
Abandon(k) ==
  /\ lease[k] = "held"
  /\ lease' = [lease EXCEPT ![k] = "closed"]
  /\ UNCHANGED <<effects, outcome>>

Refuse(k) ==
  /\ lease' = [lease EXCEPT ![k] = IF @ = "open" THEN "closed" ELSE @]
  /\ outcome' = [outcome EXCEPT ![k] = "refused"]
  /\ UNCHANGED effects

Next == \E k \in Keys : Lease(k) \/ Effect(k) \/ Close(k) \/ Abandon(k) \/ Refuse(k)

Spec == Init /\ [][Next]_vars
=============================================================================
