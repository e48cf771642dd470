---------------------------- MODULE Observation -----------------------------
(***************************************************************************)
(* One registered domain under observation: threads that sample it through *)
(* process observers and publish what they saw on the bus, the projector   *)
(* among the bus's subscribers.  The PID is a number: whatever process has *)
(* it when it is read is what is observed.                                 *)
(*                                                                         *)
(* A thread takes one event from sampling to the end of its publication;   *)
(* its label names the statement about to run.  Threads may use the same   *)
(* observer, so the events of one source may overtake each other.          *)
(***************************************************************************)
EXTENDS Projection, SequencesExt

CONSTANTS
  Threads,
  Audience,         \* who may subscribe; "projector" is one of them
  Refusals,         \* the codes of the ways a reading can fail
  MaxEvents,        \* bound: events sampled
  MaxNow,           \* bound: the clock
  Processes         \* those that have the PID at one time or another

ASSUME AudienceAssumption == "projector" \in Audience

ErrorCodes == {"PID_NOT_REGISTERED"} \cup Refusals

Healths == {"HEALTHY", "STALE", "ERROR"}

ASSUME NothingAssumption ==
  Nothing \notin Nat \cup Healths \cup ErrorCodes \cup Processes
ASSUME BoundsAssumption == MaxEvents \in Nat /\ MaxNow \in Nat

VARIABLES
  now,
  registered,       \* the observers that know the PID: _pids
  subscribers,      \* _subscribers
  thread,           \* what each thread is doing
  events,           \* how many events there were
  domain,           \* the domain in the snapshot
  said              \* history: what each source last said of each field

vars == <<now, registered, subscribers, thread, events, domain,
          said>>

NoEvent == [at |-> "idle", event |-> Nothing, left |-> <<>>]

Become(t, j) == thread' = [thread EXCEPT ![t] = j]

-----------------------------------------------------------------------------
(* ProcessObserver.                                                        *)

Register(s) ==
  /\ registered' = registered \cup {s}
  /\ UNCHANGED <<now, subscribers, thread, events, domain, said>>

Unregister(s) ==
  /\ registered' = registered \ {s}
  /\ UNCHANGED <<now, subscribers, thread, events, domain, said>>

Event(s, health, error, process) ==
  [id |-> events + 1, source |-> s, at |-> now,
   health |-> health, error |-> error, process |-> process]

\* sample, up to the reading: the time is taken and the PID looked up first.
Sample(t, s) ==
  /\ thread[t].at = "idle"
  /\ events < MaxEvents
  /\ events' = events + 1
  /\ \/ /\ s \in registered
        /\ Become(t, [NoEvent EXCEPT
             !.at = "read", !.event = Event(s, "HEALTHY", Nothing, Nothing)])
     \/ /\ s \notin registered
        /\ Become(t, [NoEvent EXCEPT
             !.at = "sampled",
             !.event = Event(s, "ERROR", "PID_NOT_REGISTERED", Nothing)])
  /\ UNCHANGED <<now, registered, subscribers, domain, said>>

\* Variant: the health is not set.
FailedHealthy(t, code) ==
  Become(t, [thread[t] EXCEPT !.at = "sampled", !.event.error = code])

Failed(t, code) ==
  Become(t, [thread[t] EXCEPT !.at = "sampled", !.event.health = "ERROR",
                              !.event.error = code])

\* psutil reads whatever process has the number by now, if there is one and the
\* system lets it.
Read(t) ==
  /\ thread[t].at = "read"
  /\ \/ \E p \in Processes :
          Become(t, [thread[t] EXCEPT !.at = "sampled", !.event.process = p])
     \/ \E code \in Refusals : Failed(t, code)
  /\ UNCHANGED <<now, registered, subscribers, events, domain, said>>

-----------------------------------------------------------------------------
(* ObserverBus.                                                            *)

Subscribe(a) ==
  /\ a \notin ToSet(subscribers)
  /\ subscribers' = Append(subscribers, a)
  /\ UNCHANGED <<now, registered, thread, events, domain, said>>

\* publish returns when no subscriber is left.
Onward(t, left) ==
  Become(t, IF left = <<>> THEN NoEvent
            ELSE [thread[t] EXCEPT !.at = "publish", !.left = left])

\* publish goes through the subscribers there are when it starts.
Publish(t) ==
  /\ thread[t].at = "sampled"
  /\ Onward(t, subscribers)
  /\ UNCHANGED <<now, registered, subscribers, events, domain, said>>

Calling(t, a) ==
  thread[t].at = "publish" /\ Head(thread[t].left) = a

\* What the source says from now on: an error is taken back by silence.
Statement(e) ==
  [f \in Fields |-> IF f \in Carried(e) \cup {"error"} THEN Incoming(e, now)[f]
                    ELSE said[e.source][f]]

\* The subscriber that keeps the snapshot.
Project(t) ==
  /\ Calling(t, "projector")
  /\ domain' = Projected(domain, thread[t].event, now)
  /\ said' = [said EXCEPT ![thread[t].event.source] = Statement(thread[t].event)]
  /\ Onward(t, Tail(thread[t].left))
  /\ UNCHANGED <<now, registered, subscribers, events>>

\* Variant: an exception of a subscriber ends the publication.
NotifyRaises(t) ==
  /\ \E a \in Audience \ {"projector"} : Calling(t, a)
  /\ \E left \in {<<>>, Tail(thread[t].left)} : Onward(t, left)
  /\ UNCHANGED <<now, registered, subscribers, events, domain, said>>

\* Another subscriber returns, or raises and is recorded as a failure: it makes no
\* difference to those after it.
Notify(t) ==
  /\ \E a \in Audience \ {"projector"} : Calling(t, a)
  /\ Onward(t, Tail(thread[t].left))
  /\ UNCHANGED <<now, registered, subscribers, events, domain, said>>

-----------------------------------------------------------------------------
(* The owner of the snapshot, and the clock.                               *)

Refresh ==
  /\ domain' = Refreshed(domain, now)
  /\ UNCHANGED <<now, registered, subscribers, thread, events, said>>

Clock ==
  /\ now < MaxNow
  /\ now' = now + 1
  /\ UNCHANGED <<registered, subscribers, thread, events, domain,
                 said>>

-----------------------------------------------------------------------------
Init ==
  /\ now = 0
  /\ registered = {}
  /\ subscribers = <<>>
  /\ thread = [t \in Threads |-> NoEvent]
  /\ events = 0
  /\ domain = NoObservation
  /\ said = [s \in Sources |-> [f \in Fields |-> Nothing]]

Step(t) ==
  \/ (\E s \in Sources : Sample(t, s)) \/ Read(t) \/ Publish(t) \/ Project(t) \/ Notify(t)

Next ==
  \/ \E t \in Threads : Step(t)
  \/ \E s \in Sources : Register(s) \/ Unregister(s)
  \/ \E a \in Audience : Subscribe(a)
  \/ Refresh \/ Clock

Spec == Init /\ [][Next]_vars

-----------------------------------------------------------------------------
(* What observation and projection promise.                                *)

ValueType ==
  [health : Healths \cup {Nothing}, last_observed_at : 0..MaxNow \cup {Nothing},
   last_event : 1..MaxEvents \cup {Nothing}, error : ErrorCodes \cup {Nothing},
   process : Processes \cup {Nothing}]

EventType ==
  [id : 1..MaxEvents, source : Sources, at : 0..MaxNow, health : Healths,
   error : ErrorCodes \cup {Nothing}, process : Processes \cup {Nothing}]

\* Every variable holds what the code can put there, and a healthy event that was read
\* has a sample.
TypeOK ==
  /\ now \in 0..MaxNow /\ events \in 0..MaxEvents
  /\ registered \subseteq Sources
  /\ subscribers \in Seq(Audience)
  /\ \A t \in Threads :
       /\ thread[t].at \in {"idle", "read", "sampled", "publish"}
       /\ thread[t].event \in EventType \cup {Nothing}
       /\ thread[t].at \in {"sampled", "publish"} =>
            (thread[t].event.process = Nothing <=> thread[t].event.health = "ERROR")
  /\ domain.value \in ValueType
  /\ domain.owner \in [Fields -> Sources \cup {Nothing}]
  /\ domain.evidence \subseteq 1..MaxEvents
  /\ said \in [Sources -> ValueType]

\* What a domain shows in a field is what the owner of the field said last, whoever
\* else reported in between; only a refresh may turn its health stale.
FieldsFromOwner ==
  \A f \in Fields :
    IF domain.owner[f] = Nothing THEN domain.value[f] = Nothing
    ELSE \/ domain.value[f] = said[domain.owner[f]][f]
         \/ f = "health" /\ domain.value[f] = "STALE" /\ said[domain.owner[f]][f] = "HEALTHY"

\* Nothing an event says is lost in silence: the domain shows it afterwards or has
\* a conflict that names the event; and nothing but an error that another source
\* owns is changed by it.
NothingIsSilent ==
  [][\A t \in Threads : Project(t) =>
       LET e == thread[t].event
       IN  /\ \A f \in Carried(e) :
                \/ domain'.value[f] = Incoming(e, now)[f]
                \/ [field |-> f, event |-> e.id] \in domain'.conflicts
           /\ \A f \in Fields \ {"error"} :
                domain.owner[f] \in Sources \ {e.source}
                => domain'.value[f] = domain.value[f]]_vars

\* The health of the domain is looked at.
Rechecked ==
  \/ Refresh
  \/ \E t \in Threads : /\ Project(t)
                        /\ thread[t].event.source = domain'.owner["health"]

\* Whenever the health of a domain is looked at, by a refresh or by an event of the
\* source that owns it, it is healthy only if its last observation is fresh; late
\* events do not bring a domain back to health.
HealthyIsFresh ==
  [][Rechecked /\ domain'.value["health"] = "HEALTHY"
     => ~Stale(domain'.value["last_observed_at"], now)]_vars

\* As long as one source reports, a domain in error says why, and a domain that
\* is not in error shows none.
ErrorExplained ==
  (\E s \in Sources : \A r \in Sources \ {s} : said[r]["last_event"] = Nothing)
  => (domain.value["health"] = "ERROR" <=> domain.value["error"] # Nothing)

\* An event whose publication has passed the projector's turn was projected: what
\* other subscribers do, and who subscribes meanwhile, takes nobody out of the
\* audience there was when the publication started.
PublishedIsApplied ==
  [][\A t \in Threads :
       /\ thread[t].at = "publish" /\ "projector" \in ToSet(thread[t].left)
       /\ thread'[t].at # "publish" \/ "projector" \notin ToSet(thread'[t].left)
       => thread[t].event.id \in domain'.evidence]_vars
=============================================================================
