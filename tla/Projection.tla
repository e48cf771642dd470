----------------------------- MODULE Projection -----------------------------
(***************************************************************************)
(* ObservationProjector and apply_patch: what a domain's derived state      *)
(* becomes when an observation event is projected into it, and when its    *)
(* staleness is refreshed.  Both are functions from snapshot to snapshot.  *)
(*                                                                         *)
(* The paths an event writes are reduced to those that can disagree on     *)
(* their own: last_event_id and last_source are one, so are error_code and *)
(* error_detail, and the leaves of resources.process.                      *)
(***************************************************************************)
EXTENDS Integers

CONSTANTS
  Sources,          \* names under which observers report
  StaleAfter,       \* stale_after
  Nothing

ASSUME StaleAfterAssumption == StaleAfter \in Nat \ {0}
ASSUME SourcesAssumption == Nothing \notin Sources

Fields ==
  {"health", "last_observed_at", "last_event", "error", "process"}

\* owner is _field_sources.  conflicts and evidence are lists in the code; an
\* event adds at most one conflict per field and one reference.  Of a conflict
\* the two values and sources are left out.
NoObservation ==
  [value     |-> [f \in Fields |-> Nothing],
   owner     |-> [f \in Fields |-> Nothing],
   conflicts |-> {},
   evidence  |-> {}]

Stale(at, now) == now - at > StaleAfter

\* Variant: an event is as healthy as it says.
HealthAsSaid(e, now) == e.health

\* A healthy event that took too long to arrive is stale; any other health is
\* taken as it is.
Health(e, now) ==
  IF e.health = "HEALTHY" /\ Stale(e.at, now) THEN "STALE" ELSE e.health

Incoming(e, now) ==
  [f \in Fields |->
     CASE f = "health"           -> Health(e, now)
       [] f = "last_observed_at" -> e.at
       [] f = "last_event"       -> e.id
       [] f = "error"            -> e.error
       [] f = "process"          -> e.process]

\* The fields of the patch: an error only if there is one, a sample only
\* from an event that is not an error.
Carried(e) ==
  {"health", "last_observed_at", "last_event"}
  \cup (IF e.error # Nothing THEN {"error"} ELSE {})
  \cup (IF e.health # "ERROR" THEN {"process"} ELSE {})

\* A field belongs to the first source that writes it; others may not change it.
Taken(d, e) == {f \in Carried(e) : d.owner[f] \in {Nothing, e.source}}

\* Variant: a disagreement about health is not worth a record.
DisagreementsButHealth(d, e, now) ==
  {[field |-> f, event |-> e.id] :
     f \in {g \in Carried(e) \ (Taken(d, e) \cup {"health"}) :
              d.value[g] # Incoming(e, now)[g]}}

Disagreements(d, e, now) ==
  {[field |-> f, event |-> e.id] :
     f \in {g \in Carried(e) \ Taken(d, e) : d.value[g] # Incoming(e, now)[g]}}

\* apply_patch.
Patched(d, e, now) ==
  [value     |-> [f \in Fields |-> IF f \in Taken(d, e) THEN Incoming(e, now)[f]
                                   ELSE d.value[f]],
   owner     |-> [f \in Fields |-> IF f \in Taken(d, e) THEN e.source
                                   ELSE d.owner[f]],
   conflicts |-> d.conflicts \cup Disagreements(d, e, now),
   evidence  |-> d.evidence \cup {e.id}]

\* Variant: a late event takes no error back.
ClearedIfFresh(d, e, now) ==
  IF e.error = Nothing /\ Health(e, now) = "HEALTHY"
  THEN [d EXCEPT !.value["error"] = Nothing, !.owner["error"] = Nothing]
  ELSE d

\* Variant: the source of the error is not forgotten with it.
ClearedKeepsOwner(d, e, now) ==
  IF e.error = Nothing THEN [d EXCEPT !.value["error"] = Nothing] ELSE d

\* An event without an error takes back the error there is, whoever reported it.
Cleared(d, e, now) ==
  IF e.error = Nothing
  THEN [d EXCEPT !.value["error"] = Nothing, !.owner["error"] = Nothing]
  ELSE d

\* ObservationProjector.apply.
Projected(d, e, now) == Cleared(Patched(d, e, now), e, now)

\* ObservationProjector.refresh_staleness.
Refreshed(d, now) ==
  IF /\ d.value["last_observed_at"] # Nothing
     /\ Stale(d.value["last_observed_at"], now)
     /\ d.value["health"] \notin {"ERROR", "STALE"}
  THEN [d EXCEPT !.value["health"] = "STALE"]
  ELSE d
=============================================================================
