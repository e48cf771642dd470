----------------------------- MODULE MCDispatch -----------------------------
(***************************************************************************)
(* Small instances of Dispatch.                                            *)
(***************************************************************************)
EXTENDS Dispatch, TLC

CONSTANTS c1, c2, p1, p2, d1, d2, k1, k2, r1, r2

MCCallers == {c1, c2}
OneCaller == {c1}

\* The grant of the operator: every action on d1, at the epoch of p1.
Lease(expires) ==
  [id |-> "g", actor |-> "op", targets |-> {d1}, actions |-> Actions,
   fence |-> 1, expires |-> expires]

NoArguments == [name \in {} |-> 0]
Argument(name, num, val) == [n \in {name} |-> [num |-> num, val |-> val]]

Order(key, action, args) ==
  [key |-> key, actor |-> "op", target |-> d1, action |-> action, args |-> args,
   required |-> {action}, authority |-> "g", expires |-> Never]

\* intent handed to the dispatcher of p1 with the domain d1 and a lasting grant.
Ask(intent) ==
  [intent |-> intent, domain |-> d1, grant |-> Lease(Never), provider |-> p1]

OneProvider == {p1}
OneDomain   == {d1}
Epoch1      == p1 :> 1
Healthy1    == p1 :> "HEALTHY"

\* A pause whose intent expires, that several callers race with, and a resume
\* that interferes under another key.
RaceRequests ==
  {Ask([Order(k1, "pause", NoArguments) EXCEPT !.expires = 1]),
   Ask(Order(k2, "resume", NoArguments))}

\* Every action of the provider, with arguments that fit and that do not, and
\* every reason to refuse.
Epochs  == p1 :> 1 @@ p2 :> 2
Healths == p1 :> "HEALTHY" @@ p2 :> "FAILED"

KindRequests ==
  {Ask(Order(k1, "snapshot", NoArguments)),
   Ask(Order(k2, "restore", Argument("snapshot_id", FALSE, 1))),
   Ask(Order(k1, "set_temporal_rate", Argument("rate", FALSE, 5))),
   Ask(Order(k1, "set_temporal_rate", Argument("rate", FALSE, 25))),
   Ask(Order(k2, "set_temporal_rate", Argument("rate", TRUE, 25))),
   Ask(Order(k1, "pause", Argument("other", TRUE, 1))),
   Ask(Order(k2, "inspect", NoArguments)),
   Ask(Order(k1, "set_resource_budget", NoArguments)),
   [Ask(Order(k2, "pause", NoArguments)) EXCEPT !.grant = Lease(1)],
   [Ask(Order(k1, "resume", NoArguments)) EXCEPT !.grant = NoGrant],
   [Ask(Order(k2, "pause", NoArguments)) EXCEPT !.grant.fence = 2],
   [Ask(Order(k1, "pause", NoArguments)) EXCEPT !.domain = d2],
   [Ask(Order(k1, "pause", NoArguments)) EXCEPT !.provider = p2],
   Ask([Order(k1, "pause", NoArguments) EXCEPT !.required = {}]),
   Ask([Order(k1, "pause", NoArguments) EXCEPT !.actor = "stranger"]),
   Ask([Order(k1, "pause", NoArguments) EXCEPT !.authority = "h"])}

=============================================================================
