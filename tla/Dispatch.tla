------------------------------ MODULE Dispatch ------------------------------
(***************************************************************************)
(* The control plane: dispatch(), the validator and authority gate it      *)
(* asks, the idempotency store it shares with every other dispatch, and    *)
(* the SyntheticRuntimeProvider that carries the command out, while the    *)
(* runtimes advance, domains are attached and detached, and runtimes are   *)
(* registered and unregistered underneath it.                              *)
(*                                                                         *)
(* A caller is a thread inside dispatch(); pc names the statement it is    *)
(* about to run.  The store's lock makes claim, complete and record_for    *)
(* one step each; nothing is held between them, so any other caller may    *)
(* run there, and likewise between the parts of apply and verify.          *)
(***************************************************************************)
EXTENDS Sequences, FiniteSetsExt

CONSTANTS
  Callers,          \* threads that call dispatch()
  Requests,         \* the argument tuples of dispatch(), see IsRequest
  Keys,             \* idempotency keys
  Domains,          \* ids of the registered domains
  Providers,        \* SyntheticRuntimeProvider instances
  Epoch,            \* provider_ref.epoch of each provider
  Health,           \* health of each provider
  Runtimes,         \* SyntheticRuntime objects
  Never,            \* expires_at is None
  NoGrant,          \* dispatch(grant=None)
  Nothing,          \* an absent request, receipt, runtime or observation
  MaxCalls, MaxNow, MaxTick      \* bounds: dispatches, clock, runtime ticks

PlainActions == {"inspect", "pause", "resume", "snapshot"}
NativeActions == PlainActions \cup {"restore"}
Actions ==
  NativeActions \cup
  {"set_temporal_rate", "set_resource_budget", "set_observation_profile"}

MinRate == 0
MaxRate == 20

Times == 0..MaxNow
Deadlines == Times \cup {Never}

\* An argument: num says that bounds bite on it, that is, isinstance(value, (int,
\* float)) and not NaN, which is neither below nor above a bound; val is float(value),
\* -1 where that raises or is NaN, or the identity of a snapshot id.
Values == [num : BOOLEAN, val : Int]

GrantType ==
  [id : STRING, actor : STRING, targets : SUBSET Domains,
   actions : SUBSET Actions, fence : Nat, expires : Deadlines]

\* intent.args maps the names of the arguments given to Values.
IsRequest(r) ==
  /\ r.domain \in Domains
  /\ r.provider \in Providers
  /\ r.grant \in GrantType \cup {NoGrant}
  /\ r.intent.key \in Keys
  /\ r.intent.actor \in STRING
  /\ r.intent.target \in Domains
  /\ r.intent.action \in Actions
  /\ \A name \in DOMAIN r.intent.args : r.intent.args[name] \in Values
  /\ r.intent.required \subseteq Actions
  /\ r.intent.authority \in STRING
  /\ r.intent.expires \in Deadlines

RuntimeStates == [tick : 0..MaxTick, rate : MinRate..MaxRate, paused : BOOLEAN]
RefusalCodes ==
  {"PROVIDER_UNAVAILABLE", "INTENT_EXPIRED", "TARGET_MISMATCH",
   "DOMAIN_UNAVAILABLE", "CAPABILITY_MISSING", "CAPABILITY_UNSUPPORTED",
   "CAPABILITY_NOT_DECLARED", "ARGUMENT_OUT_OF_BOUNDS", "AUTHORITY_DENIED",
   "STALE_FENCE"}
FailureCodes == {"PROVIDER_APPLY_FAILED", "FAILED_VERIFICATION"}
Codes == RefusalCodes \cup FailureCodes \cup {"NONE"}
Receipts ==
  [status : {"CONFIRMED", "FAILED"}, code : Codes, action : Actions,
   realized : RuntimeStates \cup {Nothing}]
Snapshots ==
  [provider : Providers, domain : Domains, id : Nat, saved : RuntimeStates]

ASSUME RequestsAssumption == \A r \in Requests : IsRequest(r)
ASSUME ProvidersAssumption ==
  Epoch \in [Providers -> Nat] /\ Health \in [Providers -> STRING]
ASSUME BoundsAssumption == MaxCalls \in Nat /\ MaxNow \in Nat /\ MaxTick \in Nat
ASSUME NothingAssumption ==
  /\ Nothing \notin Requests \cup Receipts \cup Runtimes \cup RuntimeStates
  /\ Never \notin Nat
  /\ NoGrant \notin GrantType

VARIABLES
  pc,               \* the statement each caller is about to run
  request,          \* the arguments of its dispatch()
  target,           \* apply's local runtime
  taken,            \* the snapshot apply took, 0 for none
  receipt,          \* dispatch's local receipt
  claimed,          \* IdempotencyStore._claimed
  receipts,         \* IdempotencyStore._receipts
  targets,          \* _targets of each provider: domain to runtime
  snapshots,        \* _snapshots of the providers
  minted,           \* snapshot ids handed out so far
  runtime,          \* the state of each runtime
  lifecycle,        \* lifecycle of each domain in the registry
  now,              \* the wall clock
  calls,            \* dispatches started, for the bound MaxCalls
  applied,          \* history: provider mutations carried out under a key
  wedged            \* history: keys whose holder left dispatch by an exception

frame  == <<pc, request, target, taken, receipt>>
ledger == <<claimed, receipts>>
held   == <<targets, snapshots, minted>>
world  == <<runtime, lifecycle, now>>
ghosts == <<applied, wedged>>
vars   == <<frame, ledger, held, world, calls, ghosts>>

Key(c)    == request[c].intent.key
Intent(c) == request[c].intent

-----------------------------------------------------------------------------
(* The validator and the authority gate.                                   *)

Expired(deadline) == deadline # Never /\ now >= deadline

Authorizes(grant, intent) ==
  /\ grant.actor = intent.actor
  /\ intent.target \in grant.targets
  /\ intent.action \in grant.actions
  /\ ~Expired(grant.expires)

\* What a provider declares of an action; bounded names the arguments that
\* carry the bounds MinRate..MaxRate.
Capability(provider, action) ==
  [name    |-> action,
   support |-> IF action \in NativeActions \cup {"set_temporal_rate"}
               THEN "SUPPORTED" ELSE "UNSUPPORTED",
   epoch   |-> Epoch[provider],
   bounded |-> IF action = "set_temporal_rate" THEN {"rate"} ELSE {}]

\* A bound speaks only of arguments that are present and numeric.
WithinBounds(args, bounded) ==
  \A name \in bounded \cap DOMAIN args :
    args[name].num => args[name].val \in MinRate..MaxRate

\* Why r may be refused, the reasons in the order they are tested.
Refusals(r) ==
  LET intent     == r.intent
      capability == Capability(r.provider, intent.action)
      granted    == r.grant # NoGrant /\ intent.authority = r.grant.id
                                      /\ Authorizes(r.grant, intent)
  IN  <<[code |-> "PROVIDER_UNAVAILABLE",
         holds |-> Health[r.provider] \notin {"HEALTHY", "DEGRADED"}],
        [code |-> "INTENT_EXPIRED",  holds |-> Expired(intent.expires)],
        [code |-> "TARGET_MISMATCH", holds |-> intent.target # r.domain],
        [code |-> "DOMAIN_UNAVAILABLE",
         holds |-> lifecycle[r.domain] \in {"DETACHED", "FAILED"}],
        [code |-> "CAPABILITY_MISSING",
         holds |-> capability.name # intent.action],
        [code |-> "CAPABILITY_UNSUPPORTED",
         holds |-> capability.support = "UNSUPPORTED"],
        [code |-> "CAPABILITY_NOT_DECLARED",
         holds |-> intent.action \notin intent.required],
        [code |-> "ARGUMENT_OUT_OF_BOUNDS",
         holds |-> ~WithinBounds(intent.args, capability.bounded)],
        [code |-> "AUTHORITY_DENIED", holds |-> ~granted],
        [code |-> "STALE_FENCE",
         holds |-> granted /\ r.grant.fence # capability.epoch]>>

\* Variant: the authority gate is left out.
Ungoverned(r) == \A i \in 1..8 : ~Refusals(r)[i].holds

Authorized(r) == \A i \in DOMAIN Refusals(r) : ~Refusals(r)[i].holds
Reason(r) ==
  Refusals(r)[Min({i \in DOMAIN Refusals(r) : Refusals(r)[i].holds})].code

-----------------------------------------------------------------------------
(* dispatch(), one action per statement.                                   *)

Goto(c, label) == pc' = [pc EXCEPT ![c] = label]

\* Control leaves dispatch(), with whatever it returned or raised.
Return(c) ==
  /\ Goto(c, "idle")
  /\ request' = [request EXCEPT ![c] = Nothing]
  /\ target'  = [target EXCEPT ![c] = Nothing]
  /\ taken'   = [taken EXCEPT ![c] = 0]
  /\ receipt' = [receipt EXCEPT ![c] = Nothing]

\* dispatch builds a receipt with ActuationReceipt.failed.
Fail(c, code) ==
  receipt' = [receipt EXCEPT ![c] =
    [status |-> "FAILED", code |-> code, action |-> Intent(c).action,
     realized |-> Nothing]]

Call(c) ==
  /\ pc[c] = "idle"
  /\ calls < MaxCalls
  /\ calls' = calls + 1
  /\ \E r \in Requests : request' = [request EXCEPT ![c] = r]
  /\ Goto(c, "lookup")
  /\ UNCHANGED <<target, taken, receipt, ledger, held, world, ghosts>>

\* A key with a terminal receipt is answered from the ledger.
Lookup(c) ==
  /\ pc[c] = "lookup"
  /\ \/ receipts[Key(c)] # Nothing /\ Return(c)
     \/ /\ receipts[Key(c)] = Nothing
        /\ Goto(c, "validate")
        /\ UNCHANGED <<request, target, taken, receipt>>
  /\ UNCHANGED <<ledger, held, world, calls, ghosts>>

Validate(c) ==
  /\ pc[c] = "validate"
  /\ \/ /\ Authorized(request[c])
        /\ Goto(c, "claim")
        /\ UNCHANGED receipt
     \/ /\ ~Authorized(request[c])
        /\ Fail(c, Reason(request[c]))
        /\ Goto(c, "refuse")
  /\ UNCHANGED <<request, target, taken, ledger, held, world, calls, ghosts>>

\* Variant: complete keeps no failures.
CompleteSuccess(c) ==
  /\ claimed'  = claimed \cup {Key(c)}
  /\ receipts' = [receipts EXCEPT ![Key(c)] =
                    IF receipt[c].status = "FAILED" THEN @ ELSE receipt[c]]
  /\ Return(c)
  /\ UNCHANGED <<held, world, calls, ghosts>>

\* Variant: complete does not claim the key.
CompleteUnclaimed(c) ==
  /\ receipts' = [receipts EXCEPT ![Key(c)] = receipt[c]]
  /\ Return(c)
  /\ UNCHANGED <<claimed, held, world, calls, ghosts>>

\* IdempotencyStore.complete, then dispatch returns.
Complete(c) ==
  /\ claimed'  = claimed \cup {Key(c)}
  /\ receipts' = [receipts EXCEPT ![Key(c)] = receipt[c]]
  /\ Return(c)
  /\ UNCHANGED <<held, world, calls, ghosts>>

\* A refusal is recorded without having claimed the key.
Refuse(c) == pc[c] = "refuse" /\ Complete(c)

\* Variant: claim succeeds on every call.
ClaimAnyway(c) ==
  /\ pc[c] = "claim"
  /\ claimed' = claimed \cup {Key(c)}
  /\ Goto(c, "apply")
  /\ UNCHANGED <<request, target, taken, receipt, receipts, held, world, calls, ghosts>>

Claim(c) ==
  /\ pc[c] = "claim"
  /\ \/ /\ Key(c) \notin claimed
        /\ claimed' = claimed \cup {Key(c)}
        /\ Goto(c, "apply")
     \/ /\ Key(c) \in claimed
        /\ Goto(c, "lost")
        /\ UNCHANGED claimed
  /\ UNCHANGED <<request, target, taken, receipt, receipts, held, world, calls, ghosts>>

\* Variant: the loser takes over a key that has no receipt.
LostTakesOver(c) ==
  /\ pc[c] = "lost"
  /\ IF receipts[Key(c)] = Nothing
     THEN Goto(c, "apply") /\ UNCHANGED <<request, target, taken, receipt>>
     ELSE Return(c)
  /\ UNCHANGED <<ledger, held, world, calls, ghosts>>

\* The loser answers with the ledger's receipt, or with a receipt
\* IDEMPOTENCY_IN_PROGRESS that it does not record.
Lost(c) ==
  /\ pc[c] = "lost"
  /\ Return(c)
  /\ UNCHANGED <<ledger, held, world, calls, ghosts>>

-----------------------------------------------------------------------------
(* provider.apply(intent): find the runtime, act on it, read it back.      *)

\* Variant: the failed receipt says CONFIRMED.
ApplyRaisedConfirmed(c) ==
  /\ receipt' = [receipt EXCEPT ![c] =
       [status |-> "CONFIRMED", code |-> "NONE", action |-> Intent(c).action,
        realized |-> Nothing]]
  /\ Goto(c, "finish")

\* apply raised: dispatch turns the exception into a failed receipt.
ApplyRaised(c) ==
  /\ Fail(c, "PROVIDER_APPLY_FAILED")
  /\ Goto(c, "finish")

Registered(c) == targets[request[c].provider][Intent(c).target]

FindTarget(c) ==
  /\ pc[c] = "apply"
  /\ \/ /\ Registered(c) # Nothing
        /\ target' = [target EXCEPT ![c] = Registered(c)]
        /\ Goto(c, "mutate")
        /\ UNCHANGED receipt
     \/ /\ Registered(c) = Nothing
        /\ ApplyRaised(c)
        /\ UNCHANGED target
  /\ UNCHANGED <<request, taken, ledger, held, world, calls, ghosts>>

Actuating(c, action, names) ==
  /\ pc[c] = "mutate"
  /\ Intent(c).action = action
  /\ DOMAIN Intent(c).args = names

Alter(c, state) ==
  /\ runtime' = [runtime EXCEPT ![target[c]] = state]
  /\ applied' = [applied EXCEPT ![Key(c)] = @ + 1]
  /\ Goto(c, "realize")
  /\ UNCHANGED <<request, target, receipt, ledger, targets, lifecycle, now, calls, wedged>>

Current(c) == runtime[target[c]]

Inspect(c) ==
  /\ Actuating(c, "inspect", {})
  /\ Alter(c, Current(c))
  /\ UNCHANGED <<taken, snapshots, minted>>

Pause(c) ==
  /\ Actuating(c, "pause", {})
  /\ Alter(c, [Current(c) EXCEPT !.paused = TRUE])
  /\ UNCHANGED <<taken, snapshots, minted>>

Resume(c) ==
  /\ Actuating(c, "resume", {})
  /\ Alter(c, [Current(c) EXCEPT !.paused = FALSE])
  /\ UNCHANGED <<taken, snapshots, minted>>

\* Variant: set_rate takes any number.
SetAnyRate(c) ==
  /\ Actuating(c, "set_temporal_rate", {"rate"})
  /\ Alter(c, [Current(c) EXCEPT !.rate = Intent(c).args["rate"].val])
  /\ UNCHANGED <<taken, snapshots, minted>>

\* A rate given as text passes the bounds check, is parsed here and tested
\* by set_rate.
SetRate(c) ==
  /\ Actuating(c, "set_temporal_rate", {"rate"})
  /\ Intent(c).args["rate"].val \in MinRate..MaxRate
  /\ Alter(c, [Current(c) EXCEPT !.rate = Intent(c).args["rate"].val])
  /\ UNCHANGED <<taken, snapshots, minted>>

\* The snapshot is stored under the domain even if that was unregistered
\* since FindTarget.
Snapshot(c) ==
  /\ Actuating(c, "snapshot", {})
  /\ minted' = minted + 1
  /\ taken' = [taken EXCEPT ![c] = minted']
  /\ snapshots' = snapshots \cup
       {[provider |-> request[c].provider, domain |-> Intent(c).target,
         id |-> minted', saved |-> Current(c)]}
  /\ Alter(c, Current(c))

\* The snapshots a provider holds under an id given as text.
Stored(c) ==
  {s \in snapshots : /\ s.provider = request[c].provider
                     /\ s.domain = Intent(c).target
                     /\ s.id = Intent(c).args["snapshot_id"].val
                     /\ ~Intent(c).args["snapshot_id"].num}

Restore(c) ==
  /\ Actuating(c, "restore", {"snapshot_id"})
  /\ \E s \in Stored(c) : Alter(c, s.saved)
  /\ UNCHANGED <<taken, snapshots, minted>>

\* The intents apply carries out; it raises on every other.
Performable(c) ==
  LET intent == Intent(c)
      names  == DOMAIN intent.args
  IN  \/ intent.action \in PlainActions /\ names = {}
      \/ /\ intent.action = "set_temporal_rate" /\ names = {"rate"}
         /\ intent.args["rate"].val \in MinRate..MaxRate
      \/ intent.action = "restore" /\ names = {"snapshot_id"} /\ Stored(c) # {}

Misfit(c) ==
  /\ pc[c] = "mutate"
  /\ ~Performable(c)
  /\ ApplyRaised(c)
  /\ UNCHANGED <<request, target, taken, ledger, held, world, calls, ghosts>>

\* Variant: apply waits for the domain to be registered again.
RealizeWaits(c) ==
  /\ pc[c] = "realize"
  /\ Registered(c) # Nothing
  /\ receipt' = [receipt EXCEPT ![c] =
       [status |-> "CONFIRMED", code |-> "NONE", action |-> Intent(c).action,
        realized |-> runtime[Registered(c)]]]
  /\ Goto(c, "verify")
  /\ UNCHANGED <<request, target, taken, ledger, held, world, calls, ghosts>>

\* apply reads the domain's runtime back through _targets, which may name
\* another runtime by now, or none: then it raises with its effect in place.
Realize(c) ==
  /\ pc[c] = "realize"
  /\ \/ /\ Registered(c) # Nothing
        /\ receipt' = [receipt EXCEPT ![c] =
             [status |-> "CONFIRMED", code |-> "NONE", action |-> Intent(c).action,
              realized |-> runtime[Registered(c)]]]
        /\ Goto(c, "verify")
     \/ Registered(c) = Nothing /\ ApplyRaised(c)
  /\ UNCHANGED <<request, target, taken, ledger, held, world, calls, ghosts>>

-----------------------------------------------------------------------------
(* provider.verify(receipt), outside dispatch's try.                       *)

\* The observation agrees with what apply read back; a snapshot must also
\* still be stored and equal the observation.
Agrees(c) ==
  LET observed == runtime[Registered(c)]
  IN  /\ observed = receipt[c].realized
      /\ receipt[c].action = "snapshot" =>
           \E s \in snapshots : /\ s.provider = request[c].provider
                                /\ s.domain = Intent(c).target
                                /\ s.id = taken[c]
                                /\ s.saved = observed

Verify(c) ==
  /\ pc[c] = "verify"
  /\ Registered(c) # Nothing
  /\ receipt' = [receipt EXCEPT
       ![c].status = IF Agrees(c) THEN @ ELSE "FAILED",
       ![c].code   = IF Agrees(c) THEN @ ELSE "FAILED_VERIFICATION"]
  /\ Goto(c, "finish")
  /\ UNCHANGED <<request, target, taken, ledger, held, world, calls, ghosts>>

\* inspect raises in verify and the exception leaves dispatch: the key stays
\* claimed and nothing is recorded for it.
VerifyRaised(c) ==
  /\ pc[c] = "verify"
  /\ Registered(c) = Nothing
  /\ Return(c)
  /\ wedged' = wedged \cup {Key(c)}
  /\ UNCHANGED <<ledger, held, world, calls, applied>>

Finish(c) == pc[c] = "finish" /\ Complete(c)

-----------------------------------------------------------------------------
(* What goes on around dispatch().                                         *)

\* step, run_until, event_jump: a runtime advances unless it is paused.
Advance(r) ==
  /\ ~runtime[r].paused
  /\ runtime[r].tick < MaxTick
  /\ runtime' = [runtime EXCEPT ![r].tick = @ + 1]
  /\ UNCHANGED <<frame, ledger, held, lifecycle, now, calls, ghosts>>

Clock ==
  /\ now < MaxNow
  /\ now' = now + 1
  /\ UNCHANGED <<frame, ledger, held, runtime, lifecycle, calls, ghosts>>

Attach(d) ==
  /\ lifecycle' = [lifecycle EXCEPT ![d] = "ATTACHED"]
  /\ UNCHANGED <<frame, ledger, held, runtime, now, calls, ghosts>>

Detach(d) ==
  /\ lifecycle' = [lifecycle EXCEPT ![d] = "DETACHED"]
  /\ UNCHANGED <<frame, ledger, held, runtime, now, calls, ghosts>>

RegisterRuntime(p, d, r) ==
  /\ targets[p][d] = Nothing
  /\ targets' = [targets EXCEPT ![p][d] = r]
  /\ UNCHANGED <<frame, ledger, snapshots, minted, world, calls, ghosts>>

\* The domain's snapshots go with its runtime; the runtime itself lives on.
UnregisterRuntime(p, d) ==
  /\ targets' = [targets EXCEPT ![p][d] = Nothing]
  /\ snapshots' = {s \in snapshots : ~(s.provider = p /\ s.domain = d)}
  /\ UNCHANGED <<frame, ledger, minted, world, calls, ghosts>>

-----------------------------------------------------------------------------
Init ==
  /\ pc        = [c \in Callers |-> "idle"]
  /\ request   = [c \in Callers |-> Nothing]
  /\ target    = [c \in Callers |-> Nothing]
  /\ taken     = [c \in Callers |-> 0]
  /\ receipt   = [c \in Callers |-> Nothing]
  /\ claimed   = {}
  /\ receipts  = [k \in Keys |-> Nothing]
  /\ targets   = [p \in Providers |-> [d \in Domains |-> Nothing]]
  /\ snapshots = {}
  /\ minted    = 0
  /\ runtime   = [r \in Runtimes |-> [tick |-> 0, rate |-> 1, paused |-> FALSE]]
  /\ lifecycle = [d \in Domains |-> "REGISTERED"]
  /\ now       = 0
  /\ calls     = 0
  /\ applied   = [k \in Keys |-> 0]
  /\ wedged    = {}

Actuate(c) ==
  \/ Inspect(c) \/ Pause(c) \/ Resume(c) \/ SetRate(c) \/ Snapshot(c) \/ Restore(c)

\* One statement of a dispatch under way.
Step(c) ==
  \/ Lookup(c) \/ Validate(c) \/ Refuse(c) \/ Claim(c) \/ Lost(c)
  \/ FindTarget(c) \/ Actuate(c) \/ Misfit(c) \/ Realize(c)
  \/ Verify(c) \/ VerifyRaised(c) \/ Finish(c)

Environment ==
  \/ \E r \in Runtimes : Advance(r)
  \/ Clock
  \/ \E d \in Domains : Attach(d) \/ Detach(d)
  \/ \E p \in Providers, d \in Domains :
       UnregisterRuntime(p, d) \/ \E r \in Runtimes : RegisterRuntime(p, d, r)

Next == Environment \/ \E c \in Callers : Call(c) \/ Step(c)

\* A thread inside dispatch() goes on running: no statement of it waits for
\* anything but the store's lock, which is never held across a call.  Whether
\* anyone calls, and what the runtimes and the registry do, is not promised.
Fairness == \A c \in Callers : WF_vars(Step(c))

Spec == Init /\ [][Next]_vars /\ Fairness

-----------------------------------------------------------------------------
(* The promises of dispatch() and the store.                               *)

Labels == {"idle", "lookup", "validate", "refuse", "claim", "lost", "apply",
           "mutate", "realize", "verify", "finish"}

\* Every variable holds what the code can put there.
TypeOK ==
  /\ pc \in [Callers -> Labels]
  /\ request \in [Callers -> Requests \cup {Nothing}]
  /\ target \in [Callers -> Runtimes \cup {Nothing}]
  /\ taken \in [Callers -> Nat]
  /\ receipt \in [Callers -> Receipts \cup {Nothing}]
  /\ claimed \subseteq Keys
  /\ receipts \in [Keys -> Receipts \cup {Nothing}]
  /\ targets \in [Providers -> [Domains -> Runtimes \cup {Nothing}]]
  /\ snapshots \subseteq Snapshots
  /\ minted \in Nat
  /\ runtime \in [Runtimes -> RuntimeStates]
  /\ lifecycle \in [Domains -> {"REGISTERED", "ATTACHED", "DETACHED"}]
  /\ now \in Times
  /\ calls \in 0..MaxCalls
  /\ applied \in [Keys -> Nat]
  /\ wedged \subseteq Keys

\* A caller that won the claim of its key and has not left dispatch yet.
Owns(c, k) ==
  /\ pc[c] \in {"apply", "mutate", "realize", "verify", "finish"}
  /\ Key(c) = k

\* However many dispatches share a key, and however they interleave with each
\* other and with refusals of the same key, at most one of them reaches the
\* runtime: the ledger's check at entry alone would not give that.
AtMostOneApply == \A k \in Keys : applied[k] <= 1

\* A claimed key without a receipt is accounted for: exactly one caller is
\* still working on it, or its holder left by an exception of verify.  No
\* other path out of dispatch leaks a claim.
ClaimAccounted ==
  \A k \in claimed :
    /\ receipts[k] = Nothing => k \in wedged \/ \E c \in Callers : Owns(c, k)
    /\ \A c, d \in Callers : Owns(c, k) /\ Owns(d, k) => c = d

\* The ledger says CONFIRMED only of a key whose command reached a runtime.
SuccessWasApplied ==
  \A k \in Keys :
    receipts[k] # Nothing /\ receipts[k].status = "CONFIRMED" => applied[k] = 1

\* A key that has a receipt and nobody at work on it is settled for good: no
\* dispatch gets hold of it and none mutates under it again.  This holds of a
\* refusal too, which claims nothing before it is recorded, although others
\* may have passed the gate already and be about to claim.
Settled(k) == receipts[k] # Nothing /\ \A c \in Callers : ~Owns(c, k)

SettledIsFinal ==
  [][\A k \in Keys : Settled(k) => Settled(k)' /\ applied'[k] = applied[k]]_vars

\* The intent cites the grant handed over with it, which names its actor, action and
\* target under the epoch of the provider, and asks for the capability it uses.
Granted(r) ==
  /\ r.grant # NoGrant /\ r.intent.authority = r.grant.id
  /\ r.intent.actor = r.grant.actor
  /\ r.intent.action \in r.grant.actions \cap r.intent.required
  /\ r.intent.target \in r.grant.targets
  /\ r.grant.fence = Epoch[r.provider]

\* Whenever a rate, a pause flag or the tick of a runtime changes other than by
\* its own advance, a dispatch with a grant for its actor, action and target under
\* the epoch of the provider, and a declared capability, is what changed it.
OnlyGrantedChanges ==
  [][\A r \in Runtimes :
       \/ runtime'[r] = runtime[r]
       \/ runtime'[r] = [runtime[r] EXCEPT !.tick = @ + 1]
       \/ \E c \in Callers : target[c] = r /\ Granted(request[c])]_vars

\* Every claim is resolved: a receipt is recorded, or verify raised.
ClaimsResolve ==
  \A k \in Keys :
    k \in claimed ~> (receipts[k] # Nothing \/ k \in wedged)

(***************************************************************************)
(* Each key implements CommandOnce.                                        *)
(***************************************************************************)
LeaseOf(k) ==
  IF k \notin claimed THEN "open"
  ELSE IF \E c \in Callers : Owns(c, k) THEN "held" ELSE "closed"

OutcomeOf(k) ==
  IF receipts[k] = Nothing THEN "none"
  ELSE IF receipts[k].status = "CONFIRMED" THEN "success"
  ELSE IF receipts[k].code \in FailureCodes THEN "failed" ELSE "refused"

Promise == INSTANCE CommandOnce WITH
  lease   <- [k \in Keys |-> LeaseOf(k)],
  effects <- applied,
  outcome <- [k \in Keys |-> OutcomeOf(k)]

\* Every dispatch step is a step of CommandOnce or leaves its state alone.
KeepsPromise == Promise!Spec

-----------------------------------------------------------------------------
(* What the documents say and the code does not do.                        *)

\* M10: false success is forbidden.  A pause that ends CONFIRMED was in force
\* when the provider read its own effect back.
NoFalseSuccess ==
  \A k \in Keys :
    receipts[k] # Nothing /\ receipts[k].status = "CONFIRMED"
      /\ receipts[k].action = "pause" => receipts[k].realized.paused

\* The control gate calls the recorded receipt of a key terminal and expects
\* every duplicate to be given it: a CONFIRMED receipt is never replaced.
ConfirmedIsTerminal ==
  [][\A k \in Keys :
       receipts[k] # Nothing /\ receipts[k].status = "CONFIRMED"
         => receipts'[k] = receipts[k]]_vars
=============================================================================
