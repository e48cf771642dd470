-------------------------- MODULE ObservationProof --------------------------
(***************************************************************************)
(* For any number of threads, observers and subscribers: what the snapshot  *)
(* of a domain shows comes from the sources it names, and an event does     *)
(* what it says or leaves a trace.                                         *)
(***************************************************************************)
EXTENDS Observation, SequenceTheorems, TLAPS

-----------------------------------------------------------------------------
(* The invariant.                                                          *)

ThreadType ==
  [at : {"idle", "read", "sampled", "publish"}, event : EventType \cup {Nothing},
   left : Seq(Audience)]

\* An event that a thread holds: until it is read it is one of a healthy domain
\* without a sample; from then on it has an error or a sample.
HoldsWell(j) ==
  /\ j.at # "idle" => j.event \in EventType
  /\ j.at = "read" => /\ j.event.health = "HEALTHY" /\ j.event.error = Nothing
                      /\ j.event.process = Nothing
  /\ j.at \in {"sampled", "publish"} =>
       /\ j.event.error # Nothing <=> j.event.health = "ERROR"
       /\ j.event.process = Nothing <=> j.event.health = "ERROR"
  /\ j.at = "publish" => j.left # <<>>

ThreadsOK ==
  /\ thread \in [Threads -> ThreadType]
  /\ \A t \in Threads : HoldsWell(thread[t])

DomainType ==
  [value : ValueType, owner : [Fields -> Sources \cup {Nothing}],
   conflicts : SUBSET [field : Fields, event : 1..MaxEvents],
   evidence : SUBSET (1..MaxEvents)]

\* Health and time of the observation have one owner, and with it a value; who
\* owns something has spoken.
OwnersOK ==
  /\ domain.owner["health"] = domain.owner["last_observed_at"]
  /\ domain.owner["health"] # Nothing =>
       /\ domain.value["health"] \in Healths
       /\ domain.value["last_observed_at"] \in Nat
  /\ \A f \in Fields :
       domain.owner[f] # Nothing => said[domain.owner[f]]["last_event"] # Nothing

Inductive ==
  /\ now \in 0..MaxNow /\ events \in 0..MaxEvents
  /\ registered \subseteq Sources
  /\ subscribers \in Seq(Audience)
  /\ ThreadsOK
  /\ domain \in DomainType
  /\ said \in [Sources -> ValueType]
  /\ OwnersOK
  /\ FieldsFromOwner
  /\ ErrorExplained

\* Before the first sample no field has a value, an owner or an error.
LEMMA Starts == Init => Inductive
  <1> SUFFICES ASSUME Init PROVE Inductive
    OBVIOUS
  <1>1. now \in 0..MaxNow /\ events \in 0..MaxEvents
    BY BoundsAssumption DEF Init
  <1>2. ThreadsOK
    <2>1. NoEvent \in ThreadType
      BY DEF NoEvent, ThreadType
    <2>2. HoldsWell(NoEvent)
      BY DEF NoEvent, HoldsWell
    <2> QED BY <2>1, <2>2 DEF Init, ThreadsOK
  <1>3. domain \in DomainType /\ said \in [Sources -> ValueType]
    BY DEF Init, DomainType, NoObservation, ValueType, Fields
  <1>4. OwnersOK /\ FieldsFromOwner
    BY DEF Init, OwnersOK, FieldsFromOwner, NoObservation, Fields
  <1>5. ErrorExplained
    BY NothingAssumption DEF Init, ErrorExplained, NoObservation, Fields, Healths
  <1> QED BY <1>1, <1>2, <1>3, <1>4, <1>5 DEF Init, Inductive

-----------------------------------------------------------------------------
(* Projection.                                                             *)

\* What an event says in each field.
LEMMA Says ==
  ASSUME NEW e, NEW n
  PROVE  /\ Incoming(e, n)["health"] = Health(e, n)
         /\ Incoming(e, n)["last_observed_at"] = e.at
         /\ Incoming(e, n)["last_event"] = e.id
         /\ Incoming(e, n)["error"] = e.error
         /\ Incoming(e, n)["process"] = e.process
         /\ e.health = "ERROR" <=> Health(e, n) = "ERROR"
  BY DEF Incoming, Fields, Health

\* An event has values of the right kinds to say.
LEMMA SaysWell ==
  ASSUME NEW e \in EventType, NEW n
  PROVE  Incoming(e, n) \in ValueType /\ Health(e, n) \in Healths
  <1>1. Health(e, n) \in Healths
    BY DEF Health, EventType, Healths
  <1>2. Incoming(e, n) = [f \in Fields |-> Incoming(e, n)[f]]
    <2> DEFINE says(f) == CASE f = "health"           -> Health(e, n)
                            [] f = "last_observed_at" -> e.at
                            [] f = "last_event"       -> e.id
                            [] f = "error"            -> e.error
                            [] f = "process"          -> e.process
    <2>1. Incoming(e, n) = [f \in Fields |-> says(f)]
      BY DEF Incoming
    <2> HIDE DEF says
    <2> QED BY <2>1
  <1> HIDE DEF Incoming
  <1> QED BY <1>1, <1>2, Says DEF ValueType, EventType, Fields

\* Projection field by field: a field the event takes shows what it says, the others
\* stay, and an event without an error takes the error back.
LEMMA Projects ==
  ASSUME NEW d \in DomainType, NEW e \in EventType, NEW n
  PROVE  /\ \A f \in Fields :
              /\ f # "error" \/ e.error # Nothing =>
                   /\ Projected(d, e, n).value[f] =
                        IF f \in Taken(d, e) THEN Incoming(e, n)[f] ELSE d.value[f]
                   /\ Projected(d, e, n).owner[f] =
                        IF f \in Taken(d, e) THEN e.source ELSE d.owner[f]
              /\ f = "error" /\ e.error = Nothing =>
                   Projected(d, e, n).value[f] = Nothing /\ Projected(d, e, n).owner[f] = Nothing
         /\ Projected(d, e, n).conflicts = d.conflicts \cup Disagreements(d, e, n)
         /\ Projected(d, e, n).evidence = d.evidence \cup {e.id}
  <1>1. CASE e.error = Nothing
    BY <1>1 DEF Projected, Cleared, Patched, Fields
  <1>2. CASE e.error # Nothing
    BY <1>2 DEF Projected, Cleared, Patched
  <1> QED BY <1>1, <1>2

\* Projection makes a domain of a domain.
LEMMA ProjectsWell ==
  ASSUME NEW d \in DomainType, NEW e \in EventType, NEW n
  PROVE  Projected(d, e, n) \in DomainType
  <1>1. Patched(d, e, n) \in DomainType
    <2>1. Patched(d, e, n).value \in ValueType
      <3> DEFINE V == [f \in Fields |-> IF f \in Taken(d, e) THEN Incoming(e, n)[f]
                                        ELSE d.value[f]]
      <3>1. Incoming(e, n) \in ValueType /\ d.value \in ValueType
        BY SaysWell DEF DomainType
      <3>2. V \in ValueType
        BY <3>1 DEF ValueType, Fields
      <3> QED BY <3>2 DEF Patched
    <2>2. Patched(d, e, n).owner \in [Fields -> Sources \cup {Nothing}]
      BY DEF Patched, DomainType, EventType
    <2>3. Disagreements(d, e, n) \subseteq [field : Fields, event : 1..MaxEvents]
      BY DEF Disagreements, Carried, Fields, EventType
    <2>4. Patched(d, e, n).conflicts \subseteq [field : Fields, event : 1..MaxEvents]
      BY <2>3 DEF Patched, DomainType
    <2>5. Patched(d, e, n).evidence \subseteq 1..MaxEvents
      BY DEF Patched, DomainType, EventType
    <2>6. Patched(d, e, n) = [value |-> Patched(d, e, n).value,
                              owner |-> Patched(d, e, n).owner,
                              conflicts |-> Patched(d, e, n).conflicts,
                              evidence |-> Patched(d, e, n).evidence]
      BY DEF Patched
    <2> QED BY <2>1, <2>2, <2>4, <2>5, <2>6 DEF DomainType
  <1>2. \A p \in DomainType : [p EXCEPT !.value["error"] = Nothing,
                                        !.owner["error"] = Nothing] \in DomainType
    BY DEF DomainType, ValueType, Fields
  <1> QED BY <1>1, <1>2 DEF Projected, Cleared

\* Refreshing touches health alone, which it turns stale unless it is an error.
LEMMA Refreshes ==
  ASSUME NEW d \in DomainType, NEW n
  PROVE  /\ Refreshed(d, n) \in DomainType
         /\ Refreshed(d, n).owner = d.owner
         /\ \A f \in Fields \ {"health"} : Refreshed(d, n).value[f] = d.value[f]
         /\ \/ Refreshed(d, n).value["health"] = d.value["health"]
            \/ /\ Refreshed(d, n).value["health"] = "STALE"
               /\ d.value["health"] # "ERROR" /\ d.value["health"] # "STALE"
               /\ d.value["last_observed_at"] # Nothing
  BY DEF Refreshed, DomainType, ValueType, Fields, Healths

-----------------------------------------------------------------------------
(* The steps.                                                              *)

\* A thread may become what holds an event well.
LEMMA Becomes ==
  ASSUME ThreadsOK, NEW t \in Threads, NEW j \in ThreadType, HoldsWell(j), Become(t, j)
  PROVE  ThreadsOK'
  BY DEF ThreadsOK, Become

\* As publish does between two subscribers, and at its end.
LEMMA GoesOn ==
  ASSUME ThreadsOK, NEW t \in Threads, thread[t].at \in {"sampled", "publish"},
         NEW left \in Seq(Audience), Onward(t, left)
  PROVE  ThreadsOK'
  <1>1. CASE left = <<>>
    <2>1. NoEvent \in ThreadType /\ HoldsWell(NoEvent)
      BY DEF NoEvent, ThreadType, HoldsWell
    <2> QED BY <1>1, <2>1, Becomes DEF Onward
  <1>2. CASE left # <<>>
    <2> DEFINE j == [thread[t] EXCEPT !.at = "publish", !.left = left]
    <2>1. j \in ThreadType /\ HoldsWell(j)
      BY <1>2 DEF ThreadsOK, ThreadType, HoldsWell
    <2> QED BY <1>2, <2>1, Becomes DEF Onward
  <1> QED BY <1>1, <1>2

\* Who is called is the first of those left, and the others are left then.
LEMMA Calls ==
  ASSUME ThreadsOK, NEW t \in Threads, NEW a, Calling(t, a)
  PROVE  /\ thread[t].event \in EventType /\ Tail(thread[t].left) \in Seq(Audience)
         /\ thread[t].at = "publish" /\ thread[t].left \in Seq(Audience)
         /\ thread[t].left # <<>>
         /\ thread[t].event.error # Nothing <=> thread[t].event.health = "ERROR"
  <1>1. thread[t] \in ThreadType /\ HoldsWell(thread[t]) /\ thread[t].at = "publish"
    BY DEF ThreadsOK, Calling
  <1>2. thread[t].left \in Seq(Audience) /\ thread[t].left # <<>>
    BY <1>1 DEF ThreadType, HoldsWell
  <1>3. Tail(thread[t].left) \in Seq(Audience)
    BY <1>2, HeadTailProperties
  <1> QED BY <1>1, <1>2, <1>3 DEF HoldsWell

\* The fields of an event that has no error do not hold the error; a field an event
\* carries and its source owns is one it takes.
LEMMA Takes ==
  ASSUME NEW d \in DomainType, NEW e \in EventType
  PROVE  /\ Taken(d, e) \subseteq Carried(e) /\ Carried(e) \subseteq Fields
         /\ {"health", "last_observed_at", "last_event"} \subseteq Carried(e)
         /\ "error" \in Carried(e) <=> e.error # Nothing
         /\ \A f \in Carried(e) : f \in Taken(d, e) <=> d.owner[f] \in {Nothing, e.source}
  BY DEF Taken, Carried, Fields

\* What the source says after its event was projected.
LEMMA Speaks ==
  ASSUME said \in [Sources -> ValueType], NEW e \in EventType,
         said' = [said EXCEPT ![e.source] = Statement(e)]
  PROVE  /\ said' \in [Sources -> ValueType]
         /\ \A r \in Sources \ {e.source} : said'[r] = said[r]
         /\ \A f \in Fields :
              said'[e.source][f] = IF f \in Carried(e) \cup {"error"} THEN Incoming(e, now)[f]
                                   ELSE said[e.source][f]
         /\ said'[e.source]["last_event"] # Nothing
  <1>1. e.source \in Sources /\ said[e.source] \in ValueType
    BY DEF EventType
  <1>2. Statement(e) \in ValueType
    <2>1. Incoming(e, now) \in ValueType
      BY SaysWell
    <2> QED BY <1>1, <2>1 DEF Statement, ValueType, Fields
  <1>3. said'[e.source] = Statement(e) /\ \A r \in Sources \ {e.source} : said'[r] = said[r]
    BY <1>1
  <1>4. said'[e.source]["last_event"] # Nothing
    <2>1. e.id \in Nat
      BY BoundsAssumption DEF EventType
    <2>2. said'[e.source]["last_event"] = e.id
      BY <1>3, Says DEF Statement, Carried, Fields
    <2> QED BY <2>1, <2>2, NothingAssumption
  <1> HIDE DEF Statement
  <1>5. said' \in [Sources -> ValueType]
    BY <1>1, <1>2
  <1> QED BY <1>3, <1>4, <1>5 DEF Statement

\* An event that is projected leaves the invariant.
LEMMA ProjectKeeps ==
  ASSUME Inductive, NEW t \in Threads, Project(t)
  PROVE  Inductive'
  <1> DEFINE e == thread[t].event
  <1>1. /\ e \in EventType /\ Tail(thread[t].left) \in Seq(Audience)
        /\ thread[t].at = "publish"
        /\ e.error # Nothing <=> e.health = "ERROR"
    BY Calls DEF Inductive, Project
  <1>2. /\ domain \in DomainType /\ said \in [Sources -> ValueType]
        /\ OwnersOK /\ FieldsFromOwner /\ e.source \in Sources
    BY <1>1 DEF Inductive, EventType
  <1>3. ThreadsOK'
    BY <1>1, GoesOn DEF Inductive, Project
  <1>4. /\ domain' = Projected(domain, e, now) /\ said' = [said EXCEPT ![e.source] = Statement(e)]
        /\ UNCHANGED <<now, registered, subscribers, events>>
    BY DEF Project
  <1> HIDE DEF e
  <1>5. domain' \in DomainType /\ said' \in [Sources -> ValueType]
    BY <1>1, <1>2, <1>4, ProjectsWell, Speaks
  <1>6. OwnersOK'
    <2>1. /\ domain'.owner["health"] = domain'.owner["last_observed_at"]
          /\ domain'.owner["health"] # Nothing =>
               /\ domain'.value["health"] \in Healths
               /\ domain'.value["last_observed_at"] \in Nat
      <3>1. "health" \in Taken(domain, e) <=> "last_observed_at" \in Taken(domain, e)
        BY <1>1, <1>2, Takes DEF OwnersOK
      <3>2. Incoming(e, now)["health"] \in Healths /\ Incoming(e, now)["last_observed_at"] \in Nat
        BY <1>1, Says, SaysWell, BoundsAssumption DEF EventType
      <3>3. \A f \in {"health", "last_observed_at"} :
              /\ domain'.value[f] = IF f \in Taken(domain, e) THEN Incoming(e, now)[f]
                                    ELSE domain.value[f]
              /\ domain'.owner[f] = IF f \in Taken(domain, e) THEN e.source
                                    ELSE domain.owner[f]
        BY <1>1, <1>2, <1>4, Projects DEF Fields
      <3> QED BY <1>2, <3>1, <3>2, <3>3 DEF OwnersOK
    <2>2. ASSUME NEW f \in Fields, domain'.owner[f] # Nothing
          PROVE  said'[domain'.owner[f]]["last_event"] # Nothing
      <3>1. domain'.owner[f] = e.source \/ domain'.owner[f] = domain.owner[f]
        BY <1>1, <1>2, <1>4, <2>2, Projects
      <3>2. CASE domain'.owner[f] = e.source
        BY <1>1, <1>2, <1>4, <3>2, Speaks
      <3>3. CASE domain'.owner[f] = domain.owner[f] /\ domain.owner[f] # e.source
        <4>1. domain.owner[f] \in Sources \ {e.source}
          BY <1>2, <2>2, <3>3 DEF DomainType
        <4> QED BY <1>1, <1>2, <1>4, <2>2, <3>3, <4>1, Speaks DEF OwnersOK
      <3> QED BY <3>1, <3>2, <3>3
    <2> QED BY <2>1, <2>2 DEF OwnersOK
  <1>7. FieldsFromOwner'
    <2> SUFFICES ASSUME NEW f \in Fields
                 PROVE  IF domain'.owner[f] = Nothing THEN domain'.value[f] = Nothing
                        ELSE \/ domain'.value[f] = said'[domain'.owner[f]][f]
                             \/ /\ f = "health" /\ domain'.value[f] = "STALE"
                                /\ said'[domain'.owner[f]][f] = "HEALTHY"
      BY DEF FieldsFromOwner
    <2>0. domain.owner[f] \in Sources \cup {Nothing}
      BY <1>2 DEF DomainType
    <2>1. CASE f = "error" /\ e.error = Nothing
      BY <1>1, <1>2, <1>4, <2>1, Projects
    <2>2. CASE f # "error" \/ e.error # Nothing
      <3>1. /\ domain'.value[f] = IF f \in Taken(domain, e) THEN Incoming(e, now)[f]
                                  ELSE domain.value[f]
            /\ domain'.owner[f] = IF f \in Taken(domain, e) THEN e.source ELSE domain.owner[f]
        BY <1>1, <1>2, <1>4, <2>2, Projects
      <3>2. CASE f \in Taken(domain, e)
        <4>1. said'[e.source][f] = Incoming(e, now)[f]
          BY <1>1, <1>2, <1>4, <3>2, Speaks, Takes
        <4> QED BY <1>2, <3>1, <3>2, <4>1, SourcesAssumption
      <3>3. CASE f \notin Taken(domain, e) /\ domain.owner[f] = e.source
        <4>1. f \notin Carried(e) \cup {"error"}
          BY <1>1, <1>2, <2>2, <3>3, Takes
        <4>2. said'[e.source][f] = said[e.source][f]
          BY <1>1, <1>2, <1>4, <4>1, Speaks
        <4> QED BY <1>2, <3>1, <3>3, <4>2 DEF FieldsFromOwner
      <3>4. CASE f \notin Taken(domain, e) /\ domain.owner[f] # e.source
        <4>1. domain.owner[f] # Nothing => said'[domain.owner[f]] = said[domain.owner[f]]
          BY <1>1, <1>2, <1>4, <2>0, <3>4, Speaks
        <4> QED BY <1>2, <3>1, <3>4, <4>1 DEF FieldsFromOwner
      <3> QED BY <3>2, <3>3, <3>4
    <2> QED BY <2>1, <2>2
  <1>8. ErrorExplained'
    <2> SUFFICES ASSUME NEW s \in Sources,
                        \A r \in Sources \ {s} : said'[r]["last_event"] = Nothing
                 PROVE  domain'.value["health"] = "ERROR" <=> domain'.value["error"] # Nothing
      BY DEF ErrorExplained
    <2>1. s = e.source
      BY <1>1, <1>2, <1>4, Speaks
    <2>2. \A r \in Sources \ {s} : said[r]["last_event"] = Nothing
      BY <1>1, <1>2, <1>4, <2>1, Speaks
    <2>3. \A f \in Fields : domain.owner[f] \in {Nothing, e.source}
      BY <1>2, <2>1, <2>2 DEF OwnersOK, DomainType
    <2>4. Carried(e) = Taken(domain, e)
      BY <1>1, <1>2, <2>3, Takes
    <2>5. domain'.value["health"] = Health(e, now)
      BY <1>1, <1>2, <1>4, <2>4, Projects, Takes, Says DEF Fields
    <2>6. domain'.value["error"] = e.error
      BY <1>1, <1>2, <1>4, <2>4, Projects, Takes, Says DEF Fields
    <2> QED BY <1>1, <2>5, <2>6, Says
  <1> QED BY <1>3, <1>4, <1>5, <1>6, <1>7, <1>8 DEF Inductive

\* So does a refresh.
LEMMA RefreshKeeps ==
  ASSUME Inductive, Refresh
  PROVE  Inductive'
  <1>1. /\ domain \in DomainType /\ said \in [Sources -> ValueType]
        /\ OwnersOK /\ FieldsFromOwner /\ ErrorExplained
    BY DEF Inductive
  <1>2. /\ domain' = Refreshed(domain, now)
        /\ UNCHANGED <<now, registered, subscribers, thread, events, said>>
    BY DEF Refresh
  <1>3. /\ domain' \in DomainType /\ domain'.owner = domain.owner
        /\ \A f \in Fields \ {"health"} : domain'.value[f] = domain.value[f]
        /\ \/ domain'.value["health"] = domain.value["health"]
           \/ /\ domain'.value["health"] = "STALE"
              /\ domain.value["health"] # "ERROR" /\ domain.value["health"] # "STALE"
              /\ domain.value["last_observed_at"] # Nothing
    BY <1>1, <1>2, Refreshes
  <1>4. OwnersOK'
    BY <1>1, <1>2, <1>3 DEF OwnersOK, Fields, Healths
  <1>5. FieldsFromOwner'
    <2>1. CASE domain'.value["health"] = domain.value["health"]
      BY <1>1, <1>2, <1>3, <2>1 DEF FieldsFromOwner
    <2>2. CASE /\ domain'.value["health"] = "STALE"
               /\ domain.value["health"] # "ERROR" /\ domain.value["health"] # "STALE"
               /\ domain.value["last_observed_at"] # Nothing
      <3>1. domain.owner["health"] # Nothing
        BY <1>1, <2>2 DEF OwnersOK, FieldsFromOwner, Fields
      <3>2. domain.value["health"] = "HEALTHY" /\ said[domain.owner["health"]]["health"] = "HEALTHY"
        BY <1>1, <2>2, <3>1 DEF OwnersOK, FieldsFromOwner, Fields, Healths
      <3> QED BY <1>1, <1>2, <1>3, <2>2, <3>1, <3>2 DEF FieldsFromOwner
    <2> QED BY <1>3, <2>1, <2>2
  <1>6. ErrorExplained'
    BY <1>1, <1>2, <1>3 DEF ErrorExplained, Fields
  <1> QED BY <1>2, <1>3, <1>4, <1>5, <1>6 DEF Inductive, ThreadsOK
\* What is left of the invariant when a step changes neither the domain nor what was
\* said of it.
LEMMA SameDomain ==
  ASSUME Inductive, UNCHANGED <<domain, said>>
  PROVE  domain' \in DomainType /\ said' \in [Sources -> ValueType]
         /\ OwnersOK' /\ FieldsFromOwner' /\ ErrorExplained'
  BY DEF Inductive, OwnersOK, FieldsFromOwner, ErrorExplained

\* Sampling leaves it,
LEMMA SampleKeeps ==
  ASSUME Inductive, NEW t \in Threads, NEW s \in Sources, Sample(t, s)
  PROVE  Inductive'
  <1>1. /\ ThreadsOK /\ events' = events + 1 /\ events' \in 0..MaxEvents
        /\ UNCHANGED <<now, registered, subscribers, domain, said>>
    BY BoundsAssumption DEF Inductive, Sample
  <1>2. ThreadsOK'
    <2>1. /\ Event(s, "HEALTHY", Nothing, Nothing) \in EventType
          /\ Event(s, "ERROR", "PID_NOT_REGISTERED", Nothing) \in EventType
      BY BoundsAssumption DEF Inductive, Sample, Event, EventType, Healths, ErrorCodes
    <2>2. CASE Become(t, [NoEvent EXCEPT
                 !.at = "read", !.event = Event(s, "HEALTHY", Nothing, Nothing)])
      <3> DEFINE j == [NoEvent EXCEPT !.at = "read",
                                      !.event = Event(s, "HEALTHY", Nothing, Nothing)]
      <3>1. j \in ThreadType
        <4>1. NoEvent \in ThreadType
          BY DEF NoEvent, ThreadType
        <4>2. \A k \in ThreadType, v \in EventType :
                [k EXCEPT !.at = "read", !.event = v] \in ThreadType
          BY DEF ThreadType
        <4> QED BY <2>1, <4>1, <4>2
      <3>2. HoldsWell(j)
        BY <2>1 DEF NoEvent, HoldsWell, Event
      <3> QED BY <1>1, <2>2, <3>1, <3>2, Becomes
    <2>3. CASE Become(t, [NoEvent EXCEPT
                 !.at = "sampled",
                 !.event = Event(s, "ERROR", "PID_NOT_REGISTERED", Nothing)])
      <3> DEFINE j == [NoEvent EXCEPT
                         !.at = "sampled",
                         !.event = Event(s, "ERROR", "PID_NOT_REGISTERED", Nothing)]
      <3>1. j \in ThreadType
        <4>1. NoEvent \in ThreadType
          BY DEF NoEvent, ThreadType
        <4>2. \A k \in ThreadType, v \in EventType :
                [k EXCEPT !.at = "sampled", !.event = v] \in ThreadType
          BY DEF ThreadType
        <4> QED BY <2>1, <4>1, <4>2
      <3>2. "PID_NOT_REGISTERED" # Nothing
        BY NothingAssumption DEF ErrorCodes
      <3>3. HoldsWell(j)
        BY <2>1, <3>2 DEF NoEvent, HoldsWell, Event
      <3> QED BY <1>1, <2>3, <3>1, <3>3, Becomes
    <2> QED BY <2>2, <2>3 DEF Sample
  <1> QED BY <1>1, <1>2, SameDomain DEF Inductive

\* the reading of the process, or its failure, does,
LEMMA ReadKeeps ==
  ASSUME Inductive, NEW t \in Threads, Read(t)
  PROVE  Inductive'
  <1>1. /\ ThreadsOK /\ thread[t] \in ThreadType /\ thread[t].event \in EventType
        /\ thread[t].event.health = "HEALTHY" /\ thread[t].event.error = Nothing
        /\ UNCHANGED <<now, registered, subscribers, events, domain, said>>
    BY DEF Inductive, Read, ThreadsOK, HoldsWell
  <1>2. ThreadsOK'
    <2>1. ASSUME NEW p \in Processes,
                 Become(t, [thread[t] EXCEPT !.at = "sampled", !.event.process = p])
          PROVE  ThreadsOK'
      <3> DEFINE j == [thread[t] EXCEPT !.at = "sampled", !.event.process = p]
      <3>1. j.at = "sampled" /\ j.left = thread[t].left
        BY <1>1 DEF ThreadType
      <3>2. /\ j.event \in EventType /\ j.event.error = Nothing
            /\ j.event.health = "HEALTHY" /\ j.event.process = p
        BY <1>1 DEF ThreadType, EventType
      <3>3. j \in ThreadType
        BY <1>1, <3>2 DEF ThreadType
      <3>4. HoldsWell(j)
        BY <3>1, <3>2, NothingAssumption DEF HoldsWell
      <3> QED BY <1>1, <2>1, <3>3, <3>4, Becomes
    <2>2. ASSUME NEW code \in Refusals, Failed(t, code)
          PROVE  ThreadsOK'
      <3> DEFINE j == [thread[t] EXCEPT !.at = "sampled", !.event.health = "ERROR",
                                        !.event.error = code]
      <3>1. j.at = "sampled" /\ j.left = thread[t].left
        BY <1>1 DEF ThreadType
      <3>2. /\ j.event \in EventType /\ j.event.error = code
            /\ j.event.health = "ERROR" /\ j.event.process = Nothing
        BY <1>1 DEF ThreadType, EventType, ErrorCodes, Healths, Inductive, ThreadsOK,
                    HoldsWell, Read
      <3>3. j \in ThreadType
        BY <1>1, <3>2 DEF ThreadType
      <3>4. HoldsWell(j)
        BY <3>1, <3>2, NothingAssumption DEF HoldsWell, ErrorCodes
      <3> QED BY <1>1, <2>2, <3>3, <3>4, Becomes DEF Failed
    <2> QED BY <2>1, <2>2 DEF Read
  <1> QED BY <1>1, <1>2, SameDomain DEF Inductive

\* and so does every other step.
LEMMA Keeps ==
  ASSUME Inductive, [Next]_vars
  PROVE  Inductive'
  <1>1. ASSUME NEW t \in Threads, Publish(t) \/ Notify(t)
        PROVE  Inductive'
    <2>1. ThreadsOK'
      <3>1. CASE Publish(t)
        BY <3>1, GoesOn DEF Inductive, Publish
      <3>2. CASE Notify(t)
        <4>1. PICK a \in Audience : Calling(t, a)
          BY <3>2 DEF Notify
        <4> QED BY <3>2, <4>1, Calls, GoesOn DEF Inductive, Notify
      <3> QED BY <1>1, <3>1, <3>2
    <2>2. UNCHANGED <<now, registered, subscribers, events, domain, said>>
      BY <1>1 DEF Publish, Notify
    <2> QED BY <2>1, <2>2, SameDomain DEF Inductive
  <1>2. ASSUME NEW s \in Sources, Register(s) \/ Unregister(s)
        PROVE  Inductive'
    BY <1>2, SameDomain DEF Inductive, Register, Unregister, ThreadsOK
  <1>3. ASSUME NEW a \in Audience, Subscribe(a)
        PROVE  Inductive'
    <2>1. subscribers' \in Seq(Audience)
      BY <1>3, AppendProperties DEF Inductive, Subscribe
    <2> QED BY <1>3, <2>1, SameDomain DEF Inductive, Subscribe, ThreadsOK
  <1>4. CASE Clock
    BY <1>4, SameDomain, BoundsAssumption DEF Inductive, Clock, ThreadsOK
  <1>5. CASE UNCHANGED vars
    BY <1>5, SameDomain DEF Inductive, vars, ThreadsOK
  <1> QED BY <1>1, <1>2, <1>3, <1>4, <1>5, SampleKeeps, ReadKeeps, ProjectKeeps,
             RefreshKeeps DEF Next, Step

\* The invariant holds throughout.
LEMMA Invariance == Spec => []Inductive
  <1>1. Inductive /\ [Next]_vars => Inductive'
    BY Keeps
  <1> QED BY Starts, <1>1, PTL DEF Spec

-----------------------------------------------------------------------------
(* What follows.                                                           *)

\* Every variable holds what the code can put there, and an event that was read has a
\* sample exactly when it is not an error.
THEOREM TypeCorrect == Spec => []TypeOK
  <1>1. Inductive => TypeOK
    BY DEF Inductive, TypeOK, ThreadsOK, ThreadType, HoldsWell, DomainType
  <1> QED BY <1>1, Invariance, PTL

\* What the domain shows is what the owner of the field said last, or a refresh of it,
\* in whatever order threads publish and reports arrive.
THEOREM FieldsAreOwned == Spec => []FieldsFromOwner
  <1>1. Inductive => FieldsFromOwner
    BY DEF Inductive
  <1> QED BY <1>1, Invariance, PTL

\* With one source that reports, the domain is in error exactly when it shows why.
THEOREM ErrorsAreExplained == Spec => []ErrorExplained
  <1>1. Inductive => ErrorExplained
    BY DEF Inductive
  <1> QED BY <1>1, Invariance, PTL

\* An event changes what it carries or leaves a conflict that names it, and touches
\* nothing another source owns but the error.
THEOREM NothingIsLost == Spec => NothingIsSilent
  <1>1. Inductive /\ [Next]_vars =>
          [\A t \in Threads : Project(t) =>
             LET e == thread[t].event
             IN  /\ \A f \in Carried(e) :
                      \/ domain'.value[f] = Incoming(e, now)[f]
                      \/ [field |-> f, event |-> e.id] \in domain'.conflicts
                 /\ \A f \in Fields \ {"error"} :
                      domain.owner[f] \in Sources \ {e.source}
                      => domain'.value[f] = domain.value[f]]_vars
    <2> SUFFICES ASSUME Inductive, NEW t \in Threads, Project(t)
                 PROVE  LET e == thread[t].event
                        IN  /\ \A f \in Carried(e) :
                                 \/ domain'.value[f] = Incoming(e, now)[f]
                                 \/ [field |-> f, event |-> e.id] \in domain'.conflicts
                            /\ \A f \in Fields \ {"error"} :
                                 domain.owner[f] \in Sources \ {e.source}
                                 => domain'.value[f] = domain.value[f]
      OBVIOUS
    <2> DEFINE e == thread[t].event
    <2>1. e \in EventType /\ domain \in DomainType /\ domain' = Projected(domain, e, now)
      BY Calls DEF Inductive, Project
    <2> HIDE DEF e
    <2>2. ASSUME NEW f \in Carried(e)
          PROVE  \/ domain'.value[f] = Incoming(e, now)[f]
                 \/ [field |-> f, event |-> e.id] \in domain'.conflicts
      <3>1. f \in Fields /\ (f # "error" \/ e.error # Nothing)
        BY <2>1, Takes
      <3>2. /\ domain'.value[f] = IF f \in Taken(domain, e) THEN Incoming(e, now)[f]
                                  ELSE domain.value[f]
            /\ domain'.conflicts = domain.conflicts \cup Disagreements(domain, e, now)
        BY <2>1, <3>1, Projects
      <3> QED BY <3>2 DEF Disagreements
    <2>3. ASSUME NEW f \in Fields \ {"error"}, domain.owner[f] \in Sources \ {e.source}
          PROVE  domain'.value[f] = domain.value[f]
      <3>1. f \notin Taken(domain, e)
        BY <2>3, SourcesAssumption DEF Taken
      <3> QED BY <2>1, <3>1, Projects
    <2> QED BY <2>2, <2>3 DEF e
  <1> QED BY <1>1, Invariance, PTL DEF Spec, NothingIsSilent

\* A domain that is found healthy, by a refresh or by an event of the owner of its
\* health, was observed within the time it counts as fresh.
THEOREM HealthIsFresh == Spec => HealthyIsFresh
  <1>1. Inductive /\ [Next]_vars =>
          [Rechecked /\ domain'.value["health"] = "HEALTHY"
           => ~Stale(domain'.value["last_observed_at"], now)]_vars
    <2> SUFFICES ASSUME Inductive, Rechecked, domain'.value["health"] = "HEALTHY"
                 PROVE  ~Stale(domain'.value["last_observed_at"], now)
      OBVIOUS
    <2>1. domain \in DomainType /\ OwnersOK /\ FieldsFromOwner
      BY DEF Inductive
    <2>2. CASE Refresh
      <3>1. domain' = Refreshed(domain, now)
        BY <2>2 DEF Refresh
      <3>2. /\ domain'.value["health"] = domain.value["health"]
            /\ domain'.value["last_observed_at"] = domain.value["last_observed_at"]
        BY <2>1, <3>1, Refreshes DEF Fields
      <3>3. domain.owner["health"] # Nothing
        BY <2>1, <3>2, NothingAssumption DEF FieldsFromOwner, Fields, Healths
      <3>4. domain.value["last_observed_at"] # Nothing
        BY <2>1, <3>3, NothingAssumption DEF OwnersOK
      <3>5. CASE Stale(domain.value["last_observed_at"], now)
        <4>1. domain'.value["health"] = "STALE"
          BY <2>1, <3>1, <3>2, <3>4, <3>5 DEF Refreshed, DomainType, ValueType
        <4> QED BY <4>1
      <3> QED BY <3>2, <3>5
    <2>3. ASSUME NEW t \in Threads, Project(t),
                 thread[t].event.source = domain'.owner["health"]
          PROVE  ~Stale(domain'.value["last_observed_at"], now)
      <3> DEFINE e == thread[t].event
      <3>1. e \in EventType /\ domain' = Projected(domain, e, now)
        BY <2>3, Calls DEF Inductive, Project
      <3>2. e.source = domain'.owner["health"]
        BY <2>3
      <3> HIDE DEF e
      <3>3. domain'.owner["health"] = IF "health" \in Taken(domain, e) THEN e.source
                                      ELSE domain.owner["health"]
        BY <2>1, <3>1, Projects DEF Fields
      <3>4. "health" \in Taken(domain, e) /\ "last_observed_at" \in Taken(domain, e)
        BY <2>1, <3>1, <3>2, <3>3, Takes DEF OwnersOK
      <3>5. /\ domain'.value["health"] = Health(e, now)
            /\ domain'.value["last_observed_at"] = e.at
        BY <2>1, <3>1, <3>4, Projects, Says DEF Fields
      <3> QED BY <3>5 DEF Health
    <2> QED BY <2>2, <2>3 DEF Rechecked
  <1> QED BY <1>1, Invariance, PTL DEF Spec, HealthyIsFresh

\* The projector's turn in a publication does not pass without the event being
\* projected.
THEOREM PublishedWasApplied == Spec => PublishedIsApplied
  <1>1. Inductive /\ [Next]_vars =>
          [\A t \in Threads :
             /\ thread[t].at = "publish" /\ "projector" \in ToSet(thread[t].left)
             /\ thread'[t].at # "publish" \/ "projector" \notin ToSet(thread'[t].left)
             => thread[t].event.id \in domain'.evidence]_vars
    <2> SUFFICES ASSUME Inductive, Next, NEW t \in Threads,
                        thread[t].at = "publish", "projector" \in ToSet(thread[t].left),
                        thread'[t].at # "publish"
                          \/ "projector" \notin ToSet(thread'[t].left)
                 PROVE  thread[t].event.id \in domain'.evidence
      BY DEF vars
    <2>1. ThreadsOK /\ domain \in DomainType
      BY DEF Inductive
    <2>2. thread'[t] # thread[t]
      OBVIOUS
    <2>3. \A u \in Threads : \A j : Become(u, j) => u = t
      BY <2>1, <2>2 DEF Become, ThreadsOK
    <2>4. Notify(t) \/ Project(t)
      BY <2>2, <2>3 DEF Next, Step, Sample, Read, Failed, Publish, Project, Notify, Onward,
                  Register, Unregister, Subscribe, Refresh, Clock
    <2>5. CASE Project(t)
      <3>1. thread[t].event \in EventType
        BY <2>1, <2>5, Calls DEF Project
      <3> QED BY <2>1, <2>5, <3>1, Projects DEF Project
    <2>6. CASE Notify(t)
      <3> DEFINE left == thread[t].left
      <3>1. PICK a \in Audience \ {"projector"} : Calling(t, a)
        BY <2>6 DEF Notify
      <3>2. /\ left \in Seq(Audience) /\ left # <<>> /\ Head(left) # "projector"
            /\ Tail(left) \in Seq(Audience)
        BY <2>1, <3>1, Calls DEF Calling
      <3>3. "projector" \in ToSet(Tail(left))
        <4>1. PICK i \in 1..Len(left) : left[i] = "projector"
          BY <3>2 DEF ToSet
        <4>2. i # 1
          BY <3>2, <4>1
        <4>3. i - 1 \in 1..Len(Tail(left)) /\ Tail(left)[i - 1] = left[i]
          BY <3>2, <4>1, <4>2
        <4> QED BY <3>2, <4>1, <4>3 DEF ToSet
      <3>4. Tail(left) # <<>>
        BY <3>3 DEF ToSet
      <3>5. thread'[t].at = "publish" /\ thread'[t].left = Tail(left)
        BY <2>1, <2>6, <3>4 DEF Notify, Onward, Become, ThreadsOK, ThreadType
      <3> QED BY <3>3, <3>5
    <2> QED BY <2>4, <2>5, <2>6
  <1> QED BY <1>1, Invariance, PTL DEF Spec, PublishedIsApplied
=============================================================================
