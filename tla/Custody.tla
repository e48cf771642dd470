------------------------------ MODULE Custody ------------------------------
(***************************************************************************)
(* What a resource provider promises of the resources it makes for its     *)
(* domains (a cgroup, a handle to a job object), with no kernel, command   *)
(* or statement of the provider in sight: whatever is there is in the      *)
(* keeping of exactly one thread or one record, only its keeper passes it  *)
(* on, and only the thread that has it in hand disposes of it.             *)
(*                                                                         *)
(* What is lost stays there and is never passed on; a provider has its own *)
(* way of losing something, and no other.                                  *)
(***************************************************************************)

CONSTANTS
  Resources, Domains, Threads,
  Losses            \* ways to lose a resource: "overwritten", "undisposed"

VARIABLES
  there,            \* resources there are
  keepers           \* who keeps each of them

vars == <<there, keepers>>

Hand(t)   == <<"thread", t>>
Record(d) == <<"record", d>>
Nobody(r) == <<"nobody", r>>

EmptyHanded(t) == \A r \in Resources : Hand(t) \notin keepers[r]

Pass(r, k) ==
  /\ keepers' = [keepers EXCEPT ![r] = {k}]
  /\ UNCHANGED there

Init ==
  /\ there   = {}
  /\ keepers = [r \in Resources |-> {}]

\* A thread makes a resource that is not there.
Make(t, r) ==
  /\ r \notin there /\ EmptyHanded(t)
  /\ there' = there \cup {r}
  /\ keepers' = [keepers EXCEPT ![r] = {Hand(t)}]

Enter(t, d, r) ==
  /\ keepers[r] = {Hand(t)}
  /\ \A s \in Resources : Record(d) \notin keepers[s]
  /\ Pass(r, Record(d))

\* The domain has a record by now, and nobody has what was recorded any more.
Overwrite(t, d, r) ==
  /\ "overwritten" \in Losses
  /\ keepers[r] = {Hand(t)}
  /\ \E s \in Resources :
       /\ keepers[s] = {Record(d)}
       /\ keepers' = [keepers EXCEPT ![r] = {Record(d)}, ![s] = {Nobody(s)}]
  /\ UNCHANGED there

Take(t, d, r) ==
  /\ keepers[r] = {Record(d)} /\ EmptyHanded(t)
  /\ Pass(r, Hand(t))

Dispose(t, r) ==
  /\ keepers[r] = {Hand(t)}
  /\ there' = there \ {r}
  /\ keepers' = [keepers EXCEPT ![r] = {}]

\* It could not be disposed of.
Abandon(t, r) ==
  /\ "undisposed" \in Losses
  /\ keepers[r] = {Hand(t)}
  /\ Pass(r, Nobody(r))

\* A resource changes hands.
Moves(r) == keepers'[r] # keepers[r]

Next ==
  \E r \in Resources : Moves(r) /\ \E t \in Threads :
    \/ Make(t, r) \/ Dispose(t, r) \/ Abandon(t, r)
    \/ \E d \in Domains : Enter(t, d, r) \/ Overwrite(t, d, r) \/ Take(t, d, r)

Spec == Init /\ [][Next]_vars
=============================================================================
