--------------------------- MODULE DispatchProof ---------------------------
(***************************************************************************)
(* What Dispatch guarantees for every set of callers, requests, keys,      *)
(* domains, providers and runtimes.                                        *)
(***************************************************************************)
EXTENDS Dispatch, TLAPS

\* A nonempty set of the numbers of the checks has a least element.
LEMMA LeastCheck ==
  ASSUME NEW S \in SUBSET (1..10), S # {}
  PROVE  Min(S) \in S
<1>1. \E x \in S : \A y \in S : x <= y
  <2>1. CASE S \cap (1..3) # {}
    BY <2>1
  <2>2. CASE S \cap (1..3) = {} /\ S \cap (4..6) # {}
    BY <2>2
  <2>3. CASE S \cap (1..6) = {} /\ S \cap (7..8) # {}
    BY <2>3
  <2>4. CASE S \cap (1..8) = {}
    <3>1. \A y \in S : y = 9 \/ y = 10
      BY <2>4
    <3>2. CASE 9 \in S
      BY <3>1, <3>2
    <3>3. CASE S = {10}
      BY <3>3
    <3>4. QED
      BY <3>1, <3>2, <3>3
  <2>5. QED
    BY <2>1, <2>2, <2>3, <2>4
<1>2. QED
  BY <1>1 DEF Min

\* The reason the gate gives for a refusal is one of the validator's codes.
LEMMA ReasonIsRefusal ==
  ASSUME NEW r, ~Authorized(r)
  PROVE  Reason(r) \in RefusalCodes
<1> DEFINE failing == {i \in DOMAIN Refusals(r) : Refusals(r)[i].holds}
<1>1. DOMAIN Refusals(r) = 1..10
  BY DEF Refusals
<1>2. failing # {} /\ failing \in SUBSET (1..10)
  BY <1>1 DEF Authorized
<1>3. Min(failing) \in 1..10
  BY <1>2, LeastCheck
<1>4. \A i \in 1..10 : Refusals(r)[i].code \in RefusalCodes
  BY DEF Refusals, RefusalCodes
<1>5. QED
  BY <1>3, <1>4 DEF Reason

-----------------------------------------------------------------------------
(***************************************************************************)
(* The inductive invariant.  AtMostOneApply alone is not inductive: it     *)
(* needs to know that a caller about to act owns its key, that nobody else *)
(* does, and that nothing was applied under the key so far.                *)
(***************************************************************************)
Busy(c) == pc[c] # "idle"

\* The locals of dispatch and apply are there when they are used.
FrameOK ==
  \A c \in Callers :
    /\ Busy(c) => request[c] \in Requests
    /\ pc[c] \in {"refuse", "verify", "finish"} => receipt[c] \in Receipts
    /\ pc[c] = "mutate" => target[c] \in Runtimes

Holds(c) == pc[c] \in {"apply", "mutate", "realize", "verify", "finish"}

\* A claimed key has at most one holder, and the holder's key is claimed.
HoldersOK ==
  /\ \A c \in Callers : Holds(c) => Key(c) \in claimed
  /\ \A c, d \in Callers : Holds(c) /\ Holds(d) /\ Key(c) = Key(d) => c = d

\* What a holder's statement says of the mutations under its key.
ProgressOK ==
  \A c \in Callers :
    /\ pc[c] \in {"apply", "mutate"} => applied[Key(c)] = 0
    /\ pc[c] \in {"realize", "verify"} => applied[Key(c)] = 1
    /\ pc[c] = "finish" /\ receipt[c].status = "CONFIRMED" => applied[Key(c)] = 1
    /\ pc[c] = "refuse" => receipt[c].status = "FAILED"

\* What the ledger says of a key.
KeyOK(k) ==
  /\ k \notin claimed => applied[k] = 0 /\ receipts[k] = Nothing
  /\ applied[k] <= 1
  /\ receipts[k] # Nothing /\ receipts[k].status = "CONFIRMED" => applied[k] = 1
  /\ k \in claimed /\ receipts[k] = Nothing =>
       k \in wedged \/ \E c \in Callers : Holds(c) /\ Key(c) = k

LedgerOK == \A k \in Keys : KeyOK(k)

Inductive == TypeOK /\ FrameOK /\ HoldersOK /\ ProgressOK /\ LedgerOK


USE RequestsAssumption, ProvidersAssumption, BoundsAssumption, NothingAssumption

\* A caller in the middle of a call has a request whose parts are of their types.
LEMMA RequestOfBusy ==
  ASSUME TypeOK, FrameOK, NEW c \in Callers, Busy(c)
  PROVE  /\ request[c] \in Requests
         /\ Key(c) \in Keys
         /\ request[c].provider \in Providers
         /\ Intent(c).target \in Domains
         /\ Intent(c).action \in Actions
         /\ Registered(c) \in Runtimes \cup {Nothing}
BY DEF TypeOK, FrameOK, Key, Intent, IsRequest, Registered

\* A receipt that dispatch builds for a failure is one of the ledger's.
LEMMA FailedReceipt ==
  ASSUME TypeOK, FrameOK, NEW c \in Callers, Busy(c), NEW code \in Codes, Fail(c, code)
  PROVE  /\ receipt' \in [Callers -> Receipts \cup {Nothing}]
         /\ receipt'[c] \in Receipts
         /\ receipt'[c].status = "FAILED"
         /\ receipt'[c].code = code
         /\ \A d \in Callers \ {c} : receipt'[d] = receipt[d]
<1>1. Intent(c).action \in Actions
  BY RequestOfBusy
<1>2. [status |-> "FAILED", code |-> code, action |-> Intent(c).action,
       realized |-> Nothing] \in Receipts
  BY <1>1 DEF Receipts
<1>3. QED
  BY <1>2 DEF Fail, TypeOK

\* The provider leaves every runtime in a state a runtime can be in.
LEMMA AlteredTypes ==
  ASSUME TypeOK, FrameOK, NEW c \in Callers, pc[c] = "mutate",
         NEW state \in RuntimeStates, Alter(c, state), taken' \in [Callers -> Nat],
         snapshots' \subseteq Snapshots, minted' \in Nat
  PROVE  TypeOK'
<1>1. Key(c) \in Keys
  BY RequestOfBusy DEF Busy
<1>2. pc' \in [Callers -> Labels]
  BY DEF Alter, Goto, TypeOK, Labels
<1>3. runtime' \in [Runtimes -> RuntimeStates]
  BY DEF Alter, TypeOK, FrameOK
<1>4. applied' \in [Keys -> Nat]
  BY <1>1 DEF Alter, TypeOK
<1>5. QED
  BY <1>2, <1>3, <1>4 DEF Alter, TypeOK, ledger

\* A caller that changes a runtime has one before it, with a whole state.
LEMMA CurrentState ==
  ASSUME TypeOK, FrameOK, NEW c \in Callers, pc[c] = "mutate"
  PROVE  /\ Current(c) \in RuntimeStates
         /\ Current(c) = [tick |-> Current(c).tick, rate |-> Current(c).rate,
                          paused |-> Current(c).paused]
BY DEF Current, TypeOK, FrameOK, RuntimeStates

\* The types are preserved by every action.
\* The types are preserved by every action.
\* The types are preserved by every action.
LEMMA TypeStep ==
  ASSUME TypeOK, FrameOK, Next
  PROVE  TypeOK'
<1>1. ASSUME NEW c \in Callers, Call(c) PROVE TypeOK'
  BY <1>1, RequestOfBusy DEF Call, Goto, Busy, TypeOK, FrameOK, Labels, frame, ledger, held, world, ghosts
<1>2. ASSUME NEW c \in Callers, Lookup(c) PROVE TypeOK'
  <2>1. CASE Return(c)
    BY <1>2, <2>1 DEF Lookup, Return, Goto, TypeOK, Labels, ledger, held, world, ghosts
  <2>2. CASE Goto(c, "validate") /\ UNCHANGED <<request, target, taken, receipt>>
    BY <1>2, <2>2 DEF Lookup, Goto, TypeOK, Labels, ledger, held, world, ghosts
  <2>3. QED
    BY <1>2, <2>1, <2>2 DEF Lookup
<1>3. ASSUME NEW c \in Callers, Validate(c) PROVE TypeOK'
  <2>1. CASE Goto(c, "claim") /\ UNCHANGED receipt
    BY <1>3, <2>1 DEF Validate, Goto, TypeOK, Labels, ledger, held, world, ghosts
  <2>2. CASE ~Authorized(request[c]) /\ Fail(c, Reason(request[c])) /\ Goto(c, "refuse")
    <3>1. Reason(request[c]) \in Codes
      BY <2>2, ReasonIsRefusal DEF Codes
    <3>2. receipt' \in [Callers -> Receipts \cup {Nothing}]
      BY <1>3, <2>2, <3>1, FailedReceipt DEF Validate, Busy
    <3>3. QED
      BY <1>3, <2>2, <3>2 DEF Validate, Goto, TypeOK, Labels, ledger, held, world, ghosts
  <2>3. QED
    BY <1>3, <2>1, <2>2 DEF Validate
<1>4. ASSUME NEW c \in Callers, Refuse(c) PROVE TypeOK'
  BY <1>4, RequestOfBusy DEF Refuse, Complete, Return, Goto, Busy, TypeOK, FrameOK, Labels, frame, ledger, held, world, ghosts
<1>5. ASSUME NEW c \in Callers, Claim(c) PROVE TypeOK'
  BY <1>5, RequestOfBusy DEF Claim, Goto, Busy, TypeOK, FrameOK, Labels, frame, ledger, held, world, ghosts
<1>6. ASSUME NEW c \in Callers, Lost(c) PROVE TypeOK'
  BY <1>6, RequestOfBusy DEF Lost, Return, Goto, Busy, TypeOK, FrameOK, Labels, frame, ledger, held, world, ghosts
<1>7. ASSUME NEW c \in Callers, FindTarget(c) PROVE TypeOK'
  <2>1. CASE Registered(c) # Nothing /\ target' = [target EXCEPT ![c] = Registered(c)]
              /\ Goto(c, "mutate") /\ UNCHANGED receipt
    BY <1>7, <2>1, RequestOfBusy DEF FindTarget, Busy, Goto, TypeOK, Labels, ledger, held, world, ghosts
  <2>2. CASE ApplyRaised(c) /\ UNCHANGED target
    <3>1. receipt' \in [Callers -> Receipts \cup {Nothing}]
      BY <1>7, <2>2, FailedReceipt DEF FindTarget, ApplyRaised, Busy, Codes, FailureCodes
    <3>2. QED
      BY <1>7, <2>2, <3>1 DEF FindTarget, ApplyRaised, Goto, TypeOK, Labels, ledger, held, world, ghosts
  <2>3. QED
    BY <1>7, <2>1, <2>2 DEF FindTarget
<1>8. ASSUME NEW c \in Callers, Inspect(c) PROVE TypeOK'
  <2>1. pc[c] = "mutate"
    BY <1>8 DEF Inspect, Actuating
  <2>2. Current(c) \in RuntimeStates
    BY <1>8, <2>1, CurrentState DEF Inspect, RuntimeStates
  <2>3. taken' \in [Callers -> Nat] /\ snapshots' \subseteq Snapshots /\ minted' \in Nat
    BY <1>8 DEF Inspect, TypeOK
  <2>4. QED
    BY <1>8, <2>1, <2>2, <2>3, AlteredTypes DEF Inspect
<1>9. ASSUME NEW c \in Callers, Pause(c) PROVE TypeOK'
  <2>1. pc[c] = "mutate"
    BY <1>9 DEF Pause, Actuating
  <2>2. [Current(c) EXCEPT !.paused = TRUE] \in RuntimeStates
    BY <1>9, <2>1, CurrentState DEF Pause, RuntimeStates
  <2>3. taken' \in [Callers -> Nat] /\ snapshots' \subseteq Snapshots /\ minted' \in Nat
    BY <1>9 DEF Pause, TypeOK
  <2>4. QED
    BY <1>9, <2>1, <2>2, <2>3, AlteredTypes DEF Pause
<1>10. ASSUME NEW c \in Callers, Resume(c) PROVE TypeOK'
  <2>1. pc[c] = "mutate"
    BY <1>10 DEF Resume, Actuating
  <2>2. [Current(c) EXCEPT !.paused = FALSE] \in RuntimeStates
    BY <1>10, <2>1, CurrentState DEF Resume, RuntimeStates
  <2>3. taken' \in [Callers -> Nat] /\ snapshots' \subseteq Snapshots /\ minted' \in Nat
    BY <1>10 DEF Resume, TypeOK
  <2>4. QED
    BY <1>10, <2>1, <2>2, <2>3, AlteredTypes DEF Resume
<1>11. ASSUME NEW c \in Callers, SetRate(c) PROVE TypeOK'
  <2>1. pc[c] = "mutate"
    BY <1>11 DEF SetRate, Actuating
  <2>2. [Current(c) EXCEPT !.rate = Intent(c).args["rate"].val] \in RuntimeStates
    BY <1>11, <2>1, CurrentState DEF SetRate, RuntimeStates
  <2>3. taken' \in [Callers -> Nat] /\ snapshots' \subseteq Snapshots /\ minted' \in Nat
    BY <1>11 DEF SetRate, TypeOK
  <2>4. QED
    BY <1>11, <2>1, <2>2, <2>3, AlteredTypes DEF SetRate
<1>12. ASSUME NEW c \in Callers, Snapshot(c) PROVE TypeOK'
  <2>1. pc[c] = "mutate"
    BY <1>12 DEF Snapshot, Actuating
  <2>2. Current(c) \in RuntimeStates
    BY <2>1, CurrentState
  <2>3. taken' \in [Callers -> Nat] /\ minted' \in Nat
    BY <1>12 DEF Snapshot, TypeOK
  <2>4. snapshots' \subseteq Snapshots
    BY <1>12, <2>1, <2>2, <2>3, RequestOfBusy DEF Snapshot, Snapshots, TypeOK, Busy
  <2>5. QED
    BY <1>12, <2>1, <2>2, <2>3, <2>4, AlteredTypes DEF Snapshot
<1>13. ASSUME NEW c \in Callers, Restore(c) PROVE TypeOK'
  <2>1. pc[c] = "mutate"
    BY <1>13 DEF Restore, Actuating
  <2>2. PICK s \in Stored(c) : Alter(c, s.saved)
    BY <1>13 DEF Restore
  <2>3. s.saved \in RuntimeStates
    BY DEF Stored, TypeOK, Snapshots
  <2>4. QED
    BY <1>13, <2>1, <2>2, <2>3, AlteredTypes DEF Restore, TypeOK
<1>14. ASSUME NEW c \in Callers, Misfit(c) PROVE TypeOK'
  <2>1. receipt' \in [Callers -> Receipts \cup {Nothing}]
    BY <1>14, FailedReceipt DEF Misfit, ApplyRaised, Busy, Codes, FailureCodes
  <2>2. QED
    BY <1>14, <2>1 DEF Misfit, ApplyRaised, Goto, TypeOK, Labels, ledger, held, world, ghosts
<1>15. ASSUME NEW c \in Callers, Realize(c) PROVE TypeOK'
  <2>1. CASE Registered(c) # Nothing
    <3>1. receipt' \in [Callers -> Receipts \cup {Nothing}]
      BY <1>15, <2>1, RequestOfBusy DEF Realize, Busy, TypeOK, Receipts, Codes
    <3>2. QED
      BY <1>15, <2>1, <3>1 DEF Realize, Goto, TypeOK, Labels, ledger, held, world, ghosts
  <2>2. CASE Registered(c) = Nothing
    <3>1. receipt' \in [Callers -> Receipts \cup {Nothing}]
      BY <1>15, <2>2, FailedReceipt DEF Realize, ApplyRaised, Busy, Codes, FailureCodes
    <3>2. QED
      BY <1>15, <2>2, <3>1 DEF Realize, ApplyRaised, Goto, TypeOK, Labels, ledger, held, world, ghosts
  <2>3. QED
    BY <2>1, <2>2
<1>16. ASSUME NEW c \in Callers, Verify(c) PROVE TypeOK'
  <2>1. receipt[c] \in Receipts
    BY <1>16 DEF Verify, FrameOK
  <2>2. receipt' \in [Callers -> Receipts \cup {Nothing}]
    BY <1>16, <2>1 DEF Verify, TypeOK, Receipts, Codes, FailureCodes
  <2>3. QED
    BY <1>16, <2>2 DEF Verify, Goto, TypeOK, Labels, ledger, held, world, ghosts
<1>17. ASSUME NEW c \in Callers, VerifyRaised(c) PROVE TypeOK'
  BY <1>17, RequestOfBusy DEF VerifyRaised, Return, Goto, Busy, TypeOK, FrameOK, Labels, frame, ledger, held, world, ghosts
<1>18. ASSUME NEW c \in Callers, Finish(c) PROVE TypeOK'
  BY <1>18, RequestOfBusy DEF Finish, Complete, Return, Goto, Busy, TypeOK, FrameOK, Labels, frame, ledger, held, world, ghosts
<1>19. ASSUME NEW r \in Runtimes, Advance(r)
      PROVE  TypeOK'
  <2>1. runtime[r] \in RuntimeStates /\ runtime[r].tick \in Nat
    BY <1>19, BoundsAssumption DEF TypeOK, RuntimeStates
  <2>2. [runtime[r] EXCEPT !.tick = @ + 1] \in RuntimeStates
    BY <1>19, <2>1, BoundsAssumption DEF Advance, RuntimeStates
  <2>3. runtime' \in [Runtimes -> RuntimeStates]
    BY <1>19, <2>2 DEF Advance, TypeOK
  <2>4. QED
    BY <1>19, <2>3 DEF Advance, TypeOK, frame, ledger, held, ghosts
<1>20. ASSUME Clock
      PROVE  TypeOK'
  BY <1>20 DEF Clock, Times, TypeOK, frame, ledger, held, world, ghosts
<1>21. ASSUME NEW d \in Domains, Attach(d) \/ Detach(d)
      PROVE  TypeOK'
  BY <1>21 DEF Attach, Detach, TypeOK, frame, ledger, held, world, ghosts
<1>22. ASSUME NEW p \in Providers, NEW d \in Domains, NEW r \in Runtimes,
             RegisterRuntime(p, d, r)
      PROVE  TypeOK'
  BY <1>22 DEF RegisterRuntime, TypeOK, frame, ledger, held, world, ghosts
<1>23. ASSUME NEW p \in Providers, NEW d \in Domains, UnregisterRuntime(p, d)
      PROVE  TypeOK'
  BY <1>23 DEF UnregisterRuntime, TypeOK, frame, ledger, held, world, ghosts
<1>24. QED
  BY <1>1, <1>2, <1>3, <1>4, <1>5, <1>6, <1>7, <1>8, <1>9, <1>10, <1>11,
     <1>12, <1>13, <1>14, <1>15, <1>16, <1>17, <1>18, <1>19, <1>20, <1>21,
     <1>22, <1>23
     DEF Next, Environment, Step, Actuate

\* The locals stay valid where they are used.
LEMMA FrameStep ==
  ASSUME TypeOK, FrameOK, Next
  PROVE  FrameOK'
<1>1. ASSUME NEW c \in Callers, Call(c) PROVE FrameOK'
  BY <1>1, RequestOfBusy DEF Call, Goto, Busy, TypeOK, FrameOK
<1>2. ASSUME NEW c \in Callers, Lookup(c) PROVE FrameOK'
  BY <1>2, RequestOfBusy DEF Lookup, Return, Goto, Busy, TypeOK, FrameOK
<1>3. ASSUME NEW c \in Callers, Validate(c) PROVE FrameOK'
  <2>1. ~Authorized(request[c]) => Reason(request[c]) \in Codes
    BY ReasonIsRefusal DEF Codes
  <2>2. QED
    BY <1>3, <2>1, FailedReceipt DEF Validate, Goto, Busy, TypeOK, FrameOK
<1>4. ASSUME NEW c \in Callers, Refuse(c) PROVE FrameOK'
  BY <1>4, RequestOfBusy DEF Refuse, Complete, Return, Goto, Busy, TypeOK,
     FrameOK
<1>5. ASSUME NEW c \in Callers, Claim(c) PROVE FrameOK'
  BY <1>5, RequestOfBusy DEF Claim, Goto, Busy, TypeOK, FrameOK
<1>6. ASSUME NEW c \in Callers, Lost(c) PROVE FrameOK'
  BY <1>6, RequestOfBusy DEF Lost, Return, Goto, Busy, TypeOK, FrameOK
<1>7. ASSUME NEW c \in Callers, FindTarget(c) PROVE FrameOK'
  <2>1. CASE Registered(c) # Nothing
    BY <1>7, <2>1, RequestOfBusy DEF FindTarget, Goto, Busy, TypeOK, FrameOK
  <2>2. CASE Registered(c) = Nothing
    BY <1>7, <2>2, FailedReceipt DEF FindTarget, ApplyRaised, Goto, Busy, TypeOK,
       FrameOK, Codes, FailureCodes
  <2>3. QED
    BY <2>1, <2>2
<1>8. ASSUME NEW c \in Callers, Actuate(c) PROVE FrameOK'
  <2>1. pc[c] = "mutate" /\ \E state : Alter(c, state)
    BY <1>8 DEF Actuate, Actuating, Inspect, Pause, Resume, SetRate, Snapshot, Restore
  <2>2. QED
    BY <2>1 DEF Alter, Goto, Busy, TypeOK, FrameOK
<1>9. ASSUME NEW c \in Callers, Misfit(c) PROVE FrameOK'
  BY <1>9, FailedReceipt DEF Misfit, ApplyRaised, Goto, Busy, TypeOK, FrameOK,
     Codes, FailureCodes
<1>10. ASSUME NEW c \in Callers, Realize(c) PROVE FrameOK'
  <2>1. CASE Registered(c) # Nothing
    BY <1>10, <2>1, RequestOfBusy DEF Realize, Goto, Busy, TypeOK, FrameOK, Receipts, Codes
  <2>2. CASE Registered(c) = Nothing
    BY <1>10, <2>2, FailedReceipt DEF Realize, ApplyRaised, Goto, Busy, TypeOK,
       FrameOK, Codes, FailureCodes
  <2>3. QED
    BY <2>1, <2>2
<1>11. ASSUME NEW c \in Callers, Verify(c) PROVE FrameOK'
  <2>1. receipt'[c] \in Receipts
    <3>1. receipt[c] \in Receipts
      BY <1>11 DEF Verify, FrameOK
    <3>2. \/ receipt'[c] = receipt[c]
          \/ receipt'[c] = [receipt[c] EXCEPT !.status = "FAILED",
                                              !.code = "FAILED_VERIFICATION"]
      BY <1>11, <3>1 DEF Verify, TypeOK, Receipts
    <3>3. QED
      BY <3>1, <3>2 DEF Receipts, Codes, FailureCodes
  <2>2. QED
    BY <1>11, <2>1 DEF Verify, Goto, Busy, TypeOK, FrameOK
<1>12. ASSUME NEW c \in Callers, VerifyRaised(c) PROVE FrameOK'
  BY <1>12, RequestOfBusy DEF VerifyRaised, Return, Goto, Busy, TypeOK, FrameOK
<1>13. ASSUME NEW c \in Callers, Finish(c) PROVE FrameOK'
  BY <1>13, RequestOfBusy DEF Finish, Complete, Return, Goto, Busy, TypeOK,
     FrameOK
<1>14. ASSUME NEW r \in Runtimes, Advance(r)
      PROVE  FrameOK'
  BY <1>14 DEF Advance, Busy, FrameOK, frame
<1>15. ASSUME Clock
      PROVE  FrameOK'
  BY <1>15 DEF Clock, Busy, FrameOK, frame
<1>16. ASSUME NEW d \in Domains, Attach(d) \/ Detach(d)
      PROVE  FrameOK'
  BY <1>16 DEF Attach, Detach, Busy, FrameOK, frame
<1>17. ASSUME NEW p \in Providers, NEW d \in Domains, NEW r \in Runtimes,
             RegisterRuntime(p, d, r)
      PROVE  FrameOK'
  BY <1>17 DEF RegisterRuntime, Busy, FrameOK, frame
<1>18. ASSUME NEW p \in Providers, NEW d \in Domains, UnregisterRuntime(p, d)
      PROVE  FrameOK'
  BY <1>18 DEF UnregisterRuntime, Busy, FrameOK, frame
<1>19. QED
  BY <1>1, <1>2, <1>3, <1>4, <1>5, <1>6, <1>7, <1>8, <1>9, <1>10, <1>11,
     <1>12, <1>13, <1>14, <1>15, <1>16, <1>17, <1>18 DEF Next, Environment,
     Step

\* Claiming is the only way to become a holder, and it finds the key unclaimed.
LEMMA HoldersStep ==
  ASSUME TypeOK, FrameOK, HoldersOK, Next
  PROVE  HoldersOK'
<1>1. ASSUME NEW c \in Callers, Call(c) PROVE HoldersOK'
  BY <1>1 DEF Call, Goto, Holds, Key, Intent, TypeOK, HoldersOK, ledger
<1>2. ASSUME NEW c \in Callers, Lookup(c) PROVE HoldersOK'
  <2>1. pc'[c] \in {"idle", "validate"} /\ claimed' = claimed
    BY <1>2 DEF Lookup, Return, Goto, TypeOK, ledger
  <2>2. \A d \in Callers \ {c} : pc'[d] = pc[d] /\ request'[d] = request[d]
    BY <1>2 DEF Lookup, Return, Goto, TypeOK
  <2>3. QED
    BY <2>1, <2>2 DEF Holds, Key, Intent, HoldersOK
<1>3. ASSUME NEW c \in Callers, Validate(c) PROVE HoldersOK'
  <2>1. pc'[c] \in {"claim", "refuse"} /\ claimed' = claimed
    BY <1>3 DEF Validate, Goto, TypeOK, ledger
  <2>2. \A d \in Callers \ {c} : pc'[d] = pc[d] /\ request'[d] = request[d]
    BY <1>3 DEF Validate, Goto, TypeOK
  <2>3. QED
    BY <2>1, <2>2 DEF Holds, Key, Intent, HoldersOK
<1>4. ASSUME NEW c \in Callers, Refuse(c) PROVE HoldersOK'
  BY <1>4 DEF Refuse, Complete, Return, Goto, Holds, Key, Intent, TypeOK,
     HoldersOK, ledger
<1>5. ASSUME NEW c \in Callers, Claim(c) PROVE HoldersOK'
  BY <1>5 DEF Claim, Goto, Holds, Key, Intent, TypeOK, HoldersOK, ledger
<1>6. ASSUME NEW c \in Callers, Lost(c) PROVE HoldersOK'
  BY <1>6 DEF Lost, Return, Goto, Holds, Key, Intent, TypeOK, HoldersOK, ledger
<1>7. ASSUME NEW c \in Callers, FindTarget(c) PROVE HoldersOK'
  BY <1>7 DEF FindTarget, ApplyRaised, Fail, Goto, Holds, Key, Intent, TypeOK,
     HoldersOK, ledger
<1>8. ASSUME NEW c \in Callers, Actuate(c) PROVE HoldersOK'
  <2>1. PICK state : pc[c] = "mutate" /\ Alter(c, state)
    BY <1>8 DEF Actuate, Actuating, Inspect, Pause, Resume, SetRate, Snapshot, Restore
  <2>2. QED
    BY <2>1 DEF Alter, Goto, Holds, Key, Intent, TypeOK, HoldersOK, ledger
<1>9. ASSUME NEW c \in Callers, Misfit(c) PROVE HoldersOK'
  BY <1>9 DEF Misfit, ApplyRaised, Fail, Goto, Holds, Key, Intent, TypeOK,
     HoldersOK, ledger
<1>10. ASSUME NEW c \in Callers, Realize(c) PROVE HoldersOK'
  BY <1>10 DEF Realize, ApplyRaised, Fail, Goto, Holds, Key, Intent, TypeOK,
     HoldersOK, ledger
<1>11. ASSUME NEW c \in Callers, Verify(c) PROVE HoldersOK'
  BY <1>11 DEF Verify, Goto, Holds, Key, Intent, TypeOK, HoldersOK, ledger
<1>12. ASSUME NEW c \in Callers, VerifyRaised(c) PROVE HoldersOK'
  BY <1>12 DEF VerifyRaised, Return, Goto, Holds, Key, Intent, TypeOK,
     HoldersOK, ledger
<1>13. ASSUME NEW c \in Callers, Finish(c) PROVE HoldersOK'
  BY <1>13 DEF Finish, Complete, Return, Goto, Holds, Key, Intent, TypeOK,
     HoldersOK, ledger
<1>14. ASSUME NEW r \in Runtimes, Advance(r)
      PROVE  HoldersOK'
  BY <1>14 DEF Advance, Holds, Key, Intent, HoldersOK, frame, ledger
<1>15. ASSUME Clock
      PROVE  HoldersOK'
  BY <1>15 DEF Clock, Holds, Key, Intent, HoldersOK, frame, ledger
<1>16. ASSUME NEW d \in Domains, Attach(d) \/ Detach(d)
      PROVE  HoldersOK'
  BY <1>16 DEF Attach, Detach, Holds, Key, Intent, HoldersOK, frame, ledger
<1>17. ASSUME NEW p \in Providers, NEW d \in Domains, NEW r \in Runtimes,
             RegisterRuntime(p, d, r)
      PROVE  HoldersOK'
  BY <1>17 DEF RegisterRuntime, Holds, Key, Intent, HoldersOK, frame, ledger
<1>18. ASSUME NEW p \in Providers, NEW d \in Domains, UnregisterRuntime(p, d)
      PROVE  HoldersOK'
  BY <1>18 DEF UnregisterRuntime, Holds, Key, Intent, HoldersOK, frame, ledger
<1>19. QED
  BY <1>1, <1>2, <1>3, <1>4, <1>5, <1>6, <1>7, <1>8, <1>9, <1>10, <1>11,
     <1>12, <1>13, <1>14, <1>15, <1>16, <1>17, <1>18 DEF Next, Environment,
     Step

\* Only the holder of a key mutates under it, and only once.
LEMMA ProgressStep ==
  ASSUME TypeOK, FrameOK, HoldersOK, ProgressOK, LedgerOK, Next
  PROVE  ProgressOK'
<1>1. ASSUME NEW c \in Callers, Call(c) PROVE ProgressOK'
  BY <1>1 DEF Call, Goto, Holds, Key, Intent, TypeOK, FrameOK, HoldersOK,
     ProgressOK, LedgerOK, KeyOK, Busy, ghosts
<1>2. ASSUME NEW c \in Callers, Lookup(c) PROVE ProgressOK'
  BY <1>2 DEF Lookup, Return, Goto, Holds, Key, Intent, TypeOK, FrameOK,
     HoldersOK, ProgressOK, LedgerOK, KeyOK, Busy, ghosts
<1>3. ASSUME NEW c \in Callers, Validate(c) PROVE ProgressOK'
  BY <1>3 DEF Validate, Fail, Goto, Holds, Key, Intent, TypeOK, FrameOK,
     HoldersOK, ProgressOK, LedgerOK, KeyOK, Busy, ghosts
<1>4. ASSUME NEW c \in Callers, Refuse(c) PROVE ProgressOK'
  BY <1>4 DEF Refuse, Complete, Return, Goto, Holds, Key, Intent, TypeOK,
     FrameOK, HoldersOK, ProgressOK, LedgerOK, KeyOK, Busy, ghosts
<1>5. ASSUME NEW c \in Callers, Claim(c) PROVE ProgressOK'
  <2>1. Key(c) \in Keys
    BY <1>5, RequestOfBusy DEF Claim, Busy
  <2>2. CASE Key(c) \notin claimed
    BY <1>5, <2>1, <2>2 DEF Claim, Goto, Key, Intent, TypeOK, ProgressOK, LedgerOK, KeyOK, ghosts
  <2>3. CASE Key(c) \in claimed
    BY <1>5, <2>3 DEF Claim, Goto, Key, Intent, TypeOK, ProgressOK, ghosts
  <2>4. QED
    BY <2>2, <2>3
<1>6. ASSUME NEW c \in Callers, Lost(c) PROVE ProgressOK'
  BY <1>6 DEF Lost, Return, Goto, Holds, Key, Intent, TypeOK, FrameOK,
     HoldersOK, ProgressOK, LedgerOK, KeyOK, Busy, ghosts
<1>7. ASSUME NEW c \in Callers, FindTarget(c) PROVE ProgressOK'
  BY <1>7 DEF FindTarget, ApplyRaised, Fail, Goto, Holds, Key, Intent, TypeOK,
     FrameOK, HoldersOK, ProgressOK, LedgerOK, KeyOK, Busy, ghosts
<1>8. ASSUME NEW c \in Callers, Actuate(c) PROVE ProgressOK'
  <2>1. PICK state : pc[c] = "mutate" /\ Alter(c, state)
    BY <1>8 DEF Actuate, Actuating, Inspect, Pause, Resume, SetRate, Snapshot, Restore
  <2>2. Key(c) \in Keys
    BY <2>1, RequestOfBusy DEF Busy
  <2>3. QED
    BY <2>1, <2>2 DEF Alter, Goto, Holds, Key, Intent, TypeOK, HoldersOK, ProgressOK, ledger
<1>9. ASSUME NEW c \in Callers, Misfit(c) PROVE ProgressOK'
  BY <1>9 DEF Misfit, ApplyRaised, Fail, Goto, Holds, Key, Intent, TypeOK,
     FrameOK, HoldersOK, ProgressOK, LedgerOK, KeyOK, Busy, ghosts
<1>10. ASSUME NEW c \in Callers, Realize(c) PROVE ProgressOK'
  BY <1>10 DEF Realize, ApplyRaised, Fail, Goto, Holds, Key, Intent, TypeOK,
     FrameOK, HoldersOK, ProgressOK, LedgerOK, KeyOK, Busy, ghosts
<1>11. ASSUME NEW c \in Callers, Verify(c) PROVE ProgressOK'
  BY <1>11 DEF Verify, Goto, Holds, Key, Intent, TypeOK, FrameOK, HoldersOK,
     ProgressOK, LedgerOK, KeyOK, Busy, ghosts
<1>12. ASSUME NEW c \in Callers, VerifyRaised(c) PROVE ProgressOK'
  BY <1>12 DEF VerifyRaised, Return, Goto, Holds, Key, Intent, TypeOK, FrameOK,
     HoldersOK, ProgressOK, LedgerOK, KeyOK, Busy, ghosts
<1>13. ASSUME NEW c \in Callers, Finish(c) PROVE ProgressOK'
  BY <1>13 DEF Finish, Complete, Return, Goto, Holds, Key, Intent, TypeOK,
     FrameOK, HoldersOK, ProgressOK, LedgerOK, KeyOK, Busy, ghosts
<1>14. ASSUME NEW r \in Runtimes, Advance(r)
      PROVE  ProgressOK'
  BY <1>14 DEF Advance, Key, Intent, ProgressOK, frame, ghosts
<1>15. ASSUME Clock
      PROVE  ProgressOK'
  BY <1>15 DEF Clock, Key, Intent, ProgressOK, frame, ghosts
<1>16. ASSUME NEW d \in Domains, Attach(d) \/ Detach(d)
      PROVE  ProgressOK'
  BY <1>16 DEF Attach, Detach, Key, Intent, ProgressOK, frame, ghosts
<1>17. ASSUME NEW p \in Providers, NEW d \in Domains, NEW r \in Runtimes,
             RegisterRuntime(p, d, r)
      PROVE  ProgressOK'
  BY <1>17 DEF RegisterRuntime, Key, Intent, ProgressOK, frame, ghosts
<1>18. ASSUME NEW p \in Providers, NEW d \in Domains, UnregisterRuntime(p, d)
      PROVE  ProgressOK'
  BY <1>18 DEF UnregisterRuntime, Key, Intent, ProgressOK, frame, ghosts
<1>19. QED
  BY <1>1, <1>2, <1>3, <1>4, <1>5, <1>6, <1>7, <1>8, <1>9, <1>10, <1>11,
     <1>12, <1>13, <1>14, <1>15, <1>16, <1>17, <1>18 DEF Next, Environment,
     Step

\* The ledger stays true: a holder that goes leaves a receipt or wedges its key.
LEMMA LedgerStep ==
  ASSUME TypeOK, FrameOK, HoldersOK, ProgressOK, LedgerOK, Next
  PROVE  LedgerOK'
<1>1. ASSUME NEW c \in Callers, Call(c) PROVE LedgerOK'
  BY <1>1 DEF Call, Goto, Holds, Busy, TypeOK, HoldersOK, ProgressOK, LedgerOK,
     KeyOK, Key, Intent, ledger, ghosts
<1>2. ASSUME NEW c \in Callers, Lookup(c) PROVE LedgerOK'
  BY <1>2 DEF Lookup, Return, Goto, Holds, Busy, TypeOK, HoldersOK, ProgressOK,
     LedgerOK, KeyOK, Key, Intent, ledger, ghosts
<1>3. ASSUME NEW c \in Callers, Validate(c) PROVE LedgerOK'
  BY <1>3 DEF Validate, Fail, Goto, Holds, Busy, TypeOK, HoldersOK, ProgressOK,
     LedgerOK, KeyOK, Key, Intent, ledger, ghosts
<1>4. ASSUME NEW c \in Callers, Refuse(c) PROVE LedgerOK'
  <2>1. Key(c) \in Keys /\ receipt[c] \in Receipts /\ receipt[c] # Nothing
    BY <1>4, RequestOfBusy DEF Refuse, Busy, FrameOK
  <2>2. receipt[c].status = "CONFIRMED" => applied[Key(c)] = 1
    BY <1>4 DEF Refuse, ProgressOK
  <2>3. /\ claimed' = claimed \cup {Key(c)}
        /\ receipts' = [receipts EXCEPT ![Key(c)] = receipt[c]]
        /\ applied' = applied /\ wedged' = wedged
    BY <1>4 DEF Refuse, Complete, ghosts
  <2>4. \A d \in Callers \ {c} : pc'[d] = pc[d] /\ request'[d] = request[d]
    BY <1>4 DEF Refuse, Complete, Return, Goto, TypeOK
  <2>5. SUFFICES ASSUME NEW k \in Keys
                 PROVE  KeyOK(k)'
    BY DEF LedgerOK
  <2>6. CASE k = Key(c)
    BY <2>1, <2>2, <2>3, <2>6 DEF LedgerOK, KeyOK, TypeOK
  <2>7. CASE k # Key(c)
    <3>1. \A d \in Callers : Holds(d) /\ Key(d) = k => (Holds(d) /\ Key(d) = k)'
      BY <2>4, <2>7 DEF Holds, Key, Intent
    <3>2. QED
      BY <2>1, <2>3, <2>7, <3>1 DEF LedgerOK, KeyOK, TypeOK
  <2>8. QED
    BY <2>6, <2>7
<1>5. ASSUME NEW c \in Callers, Claim(c) PROVE LedgerOK'
  BY <1>5 DEF Claim, Goto, Holds, Busy, TypeOK, HoldersOK, ProgressOK,
     LedgerOK, KeyOK, Key, Intent, ledger, ghosts
<1>6. ASSUME NEW c \in Callers, Lost(c) PROVE LedgerOK'
  BY <1>6 DEF Lost, Return, Goto, Holds, Busy, TypeOK, HoldersOK, ProgressOK,
     LedgerOK, KeyOK, Key, Intent, ledger, ghosts
<1>7. ASSUME NEW c \in Callers, FindTarget(c) PROVE LedgerOK'
  BY <1>7 DEF FindTarget, ApplyRaised, Fail, Goto, Holds, Busy, TypeOK,
     HoldersOK, ProgressOK, LedgerOK, KeyOK, Key, Intent, ledger, ghosts
<1>8. ASSUME NEW c \in Callers, Actuate(c) PROVE LedgerOK'
  <2>1. PICK state : pc[c] = "mutate" /\ Alter(c, state)
    BY <1>8 DEF Actuate, Actuating, Inspect, Pause, Resume, SetRate, Snapshot, Restore
  <2>2. Key(c) \in Keys
    BY <2>1, RequestOfBusy DEF Busy
  <2>3. QED
    BY <2>1, <2>2 DEF Alter, Goto, Holds, Key, Intent, TypeOK, HoldersOK, ProgressOK, LedgerOK, KeyOK, ledger
<1>9. ASSUME NEW c \in Callers, Misfit(c) PROVE LedgerOK'
  BY <1>9 DEF Misfit, ApplyRaised, Fail, Goto, Holds, Busy, TypeOK, HoldersOK,
     ProgressOK, LedgerOK, KeyOK, Key, Intent, ledger, ghosts
<1>10. ASSUME NEW c \in Callers, Realize(c) PROVE LedgerOK'
  BY <1>10 DEF Realize, ApplyRaised, Fail, Goto, Holds, Busy, TypeOK, HoldersOK,
     ProgressOK, LedgerOK, KeyOK, Key, Intent, ledger, ghosts
<1>11. ASSUME NEW c \in Callers, Verify(c) PROVE LedgerOK'
  BY <1>11 DEF Verify, Goto, Holds, Busy, TypeOK, HoldersOK, ProgressOK,
     LedgerOK, KeyOK, Key, Intent, ledger, ghosts
<1>12. ASSUME NEW c \in Callers, VerifyRaised(c) PROVE LedgerOK'
  BY <1>12 DEF VerifyRaised, Return, Goto, Holds, Busy, TypeOK, HoldersOK,
     ProgressOK, LedgerOK, KeyOK, Key, Intent, ledger, ghosts
<1>13. ASSUME NEW c \in Callers, Finish(c) PROVE LedgerOK'
  <2>1. Key(c) \in Keys /\ receipt[c] \in Receipts /\ receipt[c] # Nothing
    BY <1>13, RequestOfBusy DEF Finish, Busy, FrameOK
  <2>2. receipt[c].status = "CONFIRMED" => applied[Key(c)] = 1
    BY <1>13 DEF Finish, ProgressOK
  <2>3. /\ claimed' = claimed \cup {Key(c)}
        /\ receipts' = [receipts EXCEPT ![Key(c)] = receipt[c]]
        /\ applied' = applied /\ wedged' = wedged
    BY <1>13 DEF Finish, Complete, ghosts
  <2>4. \A d \in Callers \ {c} : pc'[d] = pc[d] /\ request'[d] = request[d]
    BY <1>13 DEF Finish, Complete, Return, Goto, TypeOK
  <2>5. SUFFICES ASSUME NEW k \in Keys
                 PROVE  KeyOK(k)'
    BY DEF LedgerOK
  <2>6. CASE k = Key(c)
    BY <2>1, <2>2, <2>3, <2>6 DEF LedgerOK, KeyOK, TypeOK
  <2>7. CASE k # Key(c)
    <3>1. \A d \in Callers : Holds(d) /\ Key(d) = k => (Holds(d) /\ Key(d) = k)'
      BY <2>4, <2>7 DEF Holds, Key, Intent
    <3>2. QED
      BY <2>1, <2>3, <2>7, <3>1 DEF LedgerOK, KeyOK, TypeOK
  <2>8. QED
    BY <2>6, <2>7
<1>14. ASSUME NEW r \in Runtimes, Advance(r)
      PROVE  LedgerOK'
  BY <1>14 DEF Advance, Holds, Key, Intent, LedgerOK, KeyOK, frame, ledger,
     ghosts
<1>15. ASSUME Clock
      PROVE  LedgerOK'
  BY <1>15 DEF Clock, Holds, Key, Intent, LedgerOK, KeyOK, frame, ledger,
     ghosts
<1>16. ASSUME NEW d \in Domains, Attach(d) \/ Detach(d)
      PROVE  LedgerOK'
  BY <1>16 DEF Attach, Detach, Holds, Key, Intent, LedgerOK, KeyOK, frame,
     ledger, ghosts
<1>17. ASSUME NEW p \in Providers, NEW d \in Domains, NEW r \in Runtimes,
             RegisterRuntime(p, d, r)
      PROVE  LedgerOK'
  BY <1>17 DEF RegisterRuntime, Holds, Key, Intent, LedgerOK, KeyOK, frame,
     ledger, ghosts
<1>18. ASSUME NEW p \in Providers, NEW d \in Domains, UnregisterRuntime(p, d)
      PROVE  LedgerOK'
  BY <1>18 DEF UnregisterRuntime, Holds, Key, Intent, LedgerOK, KeyOK, frame,
     ledger, ghosts
<1>19. QED
  BY <1>1, <1>2, <1>3, <1>4, <1>5, <1>6, <1>7, <1>8, <1>9, <1>10, <1>11,
     <1>12, <1>13, <1>14, <1>15, <1>16, <1>17, <1>18 DEF Next, Environment,
     Step

\* The dispatcher starts with nothing claimed, applied or answered.
LEMMA InitInductive == Init => Inductive
<1> SUFFICES ASSUME Init PROVE Inductive
  OBVIOUS
<1>1. TypeOK
  BY DEF Init, TypeOK, Labels, RuntimeStates, MinRate, MaxRate, Times
<1>2. FrameOK /\ HoldersOK /\ ProgressOK
  BY DEF Init, FrameOK, Busy, HoldersOK, Holds, ProgressOK
<1>3. LedgerOK
  BY DEF Init, LedgerOK, KeyOK
<1>4. QED
  BY <1>1, <1>2, <1>3 DEF Inductive

\* Every step of a caller or of its surroundings keeps the invariant.
LEMMA InductiveStep == Inductive /\ [Next]_vars => Inductive'
<1>1. CASE Next
  BY <1>1, TypeStep, FrameStep, HoldersStep, ProgressStep, LedgerStep DEF Inductive
<1>2. CASE UNCHANGED vars
  <2>1. Inductive => TypeOK'
    BY <1>2 DEF Inductive, TypeOK, vars, frame, ledger, held, world, ghosts
  <2>2. Inductive => FrameOK' /\ HoldersOK'
    BY <1>2 DEF Inductive, FrameOK, HoldersOK, Busy, Holds, Key, Intent, vars, frame, ledger
  <2>3. Inductive => ProgressOK'
    BY <1>2 DEF Inductive, ProgressOK, Key, Intent, vars, frame, ghosts
  <2>4. Inductive => LedgerOK'
    BY <1>2 DEF Inductive, LedgerOK, KeyOK, Holds, Key, Intent, vars, frame, ledger, ghosts
  <2>5. QED
    BY <2>1, <2>2, <2>3, <2>4 DEF Inductive
<1>3. QED
  BY <1>1, <1>2

\* The inductive invariant holds for any callers, requests, providers and bounds.
THEOREM Invariance == Spec => []Inductive
<1>1. Init => Inductive
  BY InitInductive
<1>2. Inductive /\ [Next]_vars => Inductive'
  BY InductiveStep
<1>3. QED
  BY <1>1, <1>2, PTL DEF Spec

-----------------------------------------------------------------------------
(* What follows from it.                                                   *)

\* Every variable of the dispatcher, store and provider keeps its type.
THEOREM TypeCorrect == Spec => []TypeOK
<1>1. Inductive => TypeOK
  BY DEF Inductive
<1>2. QED
  BY <1>1, Invariance, PTL

\* No interleaving of dispatches mutates a runtime twice under one key.
THEOREM AppliedOnce == Spec => []AtMostOneApply
<1>1. Inductive => AtMostOneApply
  BY DEF Inductive, LedgerOK, KeyOK, AtMostOneApply
<1>2. QED
  BY <1>1, Invariance, PTL

\* A claim without a receipt has one holder, or its holder left by an
\* exception of verify.
THEOREM ClaimsAccounted == Spec => []ClaimAccounted
<1>1. Inductive => ClaimAccounted
  <2> SUFFICES ASSUME Inductive, NEW k \in claimed
               PROVE  /\ receipts[k] = Nothing => k \in wedged \/ \E c \in Callers : Owns(c, k)
                      /\ \A c, d \in Callers : Owns(c, k) /\ Owns(d, k) => c = d
    BY DEF ClaimAccounted
  <2>1. \A c \in Callers : Owns(c, k) <=> Holds(c) /\ Key(c) = k
    BY DEF Owns, Holds
  <2>2. QED
    BY <2>1 DEF Inductive, LedgerOK, KeyOK, HoldersOK, TypeOK
<1>2. QED
  BY <1>1, Invariance, PTL

\* A CONFIRMED receipt is only ever recorded for a command that reached a
\* runtime.
THEOREM SuccessApplied == Spec => []SuccessWasApplied
<1>1. Inductive => SuccessWasApplied
  BY DEF Inductive, LedgerOK, KeyOK, SuccessWasApplied
<1>2. QED
  BY <1>1, Invariance, PTL

\* A settled key stays settled: a claim needs an unclaimed key, and the key of
\* a receipt is claimed.
THEOREM SettledForGood == Spec => SettledIsFinal
<1>1. ASSUME Inductive, Next, NEW k \in Keys, Settled(k)
      PROVE  Settled(k)' /\ applied'[k] = applied[k]
  <2>1. k \in claimed
    BY <1>1 DEF Inductive, LedgerOK, KeyOK, Settled
  <2>2. receipts'[k] # Nothing
    <3>1. ASSUME NEW c \in Callers, Refuse(c) \/ Finish(c) PROVE receipts'[k] # Nothing
      BY <1>1, <3>1 DEF Inductive, FrameOK, TypeOK, Settled, Refuse, Finish, Complete
    <3>2. (\A c \in Callers : ~(Refuse(c) \/ Finish(c))) => receipts' = receipts
      BY <1>1 DEF Next, Environment, Step, Actuate, Call, Lookup, Validate, Claim,
         Lost, FindTarget, Inspect, Pause, Resume, SetRate, Snapshot, Restore, Alter,
         Misfit, Realize, Verify, VerifyRaised, Advance, Clock, Attach, Detach,
         RegisterRuntime, UnregisterRuntime, ledger
    <3>3. QED
      BY <1>1, <3>1, <3>2 DEF Settled
  <2>3. ASSUME NEW c \in Callers, Call(c) \/ Step(c)
        PROVE  (\A d \in Callers : ~Owns(d, k))' /\ applied'[k] = applied[k]
    <3>1. \A d \in Callers \ {c} : pc'[d] = pc[d] /\ request'[d] = request[d]
      BY <1>1, <2>3 DEF Inductive, TypeOK, Step, Actuate, Call, Lookup, Validate,
         Refuse, Finish, Complete, Claim, Lost, FindTarget, Inspect, Pause, Resume,
         SetRate, Snapshot, Restore, Alter, Misfit, ApplyRaised, Realize, Verify,
         VerifyRaised, Goto, Return
    <3>2. ~Owns(c, k)'
      BY <1>1, <2>1, <2>3 DEF Inductive, TypeOK, Settled, Owns, Key, Intent, Step,
         Actuate, Actuating, Call, Lookup, Validate, Refuse, Finish, Complete, Claim,
         Lost, FindTarget, Inspect, Pause, Resume, SetRate, Snapshot, Restore, Alter,
         Misfit, ApplyRaised, Realize, Verify, VerifyRaised, Goto, Return
    <3>3. applied'[k] = applied[k]
      <4>1. CASE Actuate(c)
        BY <1>1, <4>1 DEF Inductive, TypeOK, Settled, Owns, Actuate, Actuating,
           Inspect, Pause, Resume, SetRate, Snapshot, Restore, Alter
      <4>2. CASE ~Actuate(c)
        BY <2>3, <4>2 DEF Step, Call, Lookup, Validate, Refuse, Finish, Complete,
           Claim, Lost, FindTarget, Misfit, Realize, Verify, VerifyRaised, ghosts
      <4>3. QED
        BY <4>1, <4>2
    <3>4. QED
      BY <1>1, <3>1, <3>2, <3>3 DEF Settled, Owns, Key, Intent
  <2>4. CASE Environment
    BY <1>1, <2>2, <2>4 DEF Settled, Owns, Key, Intent, Environment, Advance, Clock,
       Attach, Detach, RegisterRuntime, UnregisterRuntime, frame, ghosts
  <2>5. QED
    BY <1>1, <2>2, <2>3, <2>4 DEF Next, Settled
<1>2. Inductive /\ [Next]_vars
        => [\A k \in Keys : Settled(k) => Settled(k)' /\ applied'[k] = applied[k]]_vars
  BY <1>1
<1>3. QED
  BY <1>2, Invariance, PTL DEF Spec, SettledIsFinal

-----------------------------------------------------------------------------
(***************************************************************************)
(* Who changes a runtime.  The gate is asked before the key is claimed, and *)
(* what it granted is still true of the request when apply acts, however   *)
(* long that takes.                                                        *)
(***************************************************************************)
\* Past the gate and up to its mutation, a dispatch has the grant it needs.
GateOK ==
  \A c \in Callers :
    pc[c] \in {"claim", "apply", "mutate"} => Granted(request[c])

\* A request that no check refuses has the grant it cites, for its actor, its action
\* and its target, under the epoch of its provider.
LEMMA AuthorizedIsGranted ==
  ASSUME NEW r, Authorized(r)
  PROVE  Granted(r)
<1> DEFINE granted == r.grant # NoGrant /\ r.intent.authority = r.grant.id
                                        /\ Authorizes(r.grant, r.intent)
<1>1. DOMAIN Refusals(r) = 1..10
  BY DEF Refusals
<1>2. /\ ~Refusals(r)[7].holds /\ ~Refusals(r)[9].holds /\ ~Refusals(r)[10].holds
  BY <1>1 DEF Authorized
<1>3. Refusals(r)[7].holds = (r.intent.action \notin r.intent.required)
  BY DEF Refusals
<1>4. Refusals(r)[9].holds = ~granted
  BY DEF Refusals
<1>5. Refusals(r)[10].holds = (granted /\ r.grant.fence # Epoch[r.provider])
  BY DEF Refusals, Capability
<1>6. r.intent.action \in r.intent.required
  BY <1>2, <1>3
<1>7. granted
  BY <1>2, <1>4
<1>8. r.grant.fence = Epoch[r.provider]
  <2> HIDE DEF granted
  <2> QED BY <1>2, <1>5, <1>7
<1>9. QED
  BY <1>6, <1>7, <1>8 DEF Granted, Authorizes

\* Every step keeps the gate's word: the request of a dispatch does not change, and
\* only an authorized one is let past.
LEMMA GateStep == Inductive /\ GateOK /\ [Next]_vars => GateOK'
<1> SUFFICES ASSUME Inductive, GateOK, [Next]_vars PROVE GateOK'
  OBVIOUS
<1>1. TypeOK
  BY DEF Inductive
<1>2. CASE \E c \in Callers : Call(c) \/ Step(c)
  <2>1. PICK c \in Callers : Call(c) \/ Step(c)
    BY <1>2
  <2>2. \A d \in Callers \ {c} : pc'[d] = pc[d] /\ request'[d] = request[d]
    BY <1>1, <2>1 DEF TypeOK, Step, Actuate, Call, Lookup, Validate,
       Refuse, Finish, Complete, Claim, Lost, FindTarget, Inspect, Pause, Resume,
       SetRate, Snapshot, Restore, Alter, Misfit, ApplyRaised, Realize, Verify,
       VerifyRaised, Goto, Return
  <2>3. pc'[c] \in {"claim", "apply", "mutate"} => Granted(request'[c])
    <3>1. CASE Validate(c)
      BY <1>1, <3>1, AuthorizedIsGranted DEF Validate, Goto, TypeOK
    <3>2. CASE Claim(c) \/ FindTarget(c)
      BY <1>1, <3>2 DEF Claim, FindTarget, ApplyRaised, Goto, TypeOK, GateOK
    <3>3. CASE ~(Validate(c) \/ Claim(c) \/ FindTarget(c))
      <4>1. pc'[c] \notin {"claim", "apply", "mutate"}
        BY <1>1, <2>1, <3>3 DEF TypeOK, Step, Actuate, Call, Lookup, Refuse, Finish,
           Complete, Lost, Inspect, Pause, Resume, SetRate, Snapshot, Restore, Alter,
           Misfit, ApplyRaised, Realize, Verify, VerifyRaised, Goto, Return
      <4>2. QED
        BY <4>1
    <3>4. QED
      BY <3>1, <3>2, <3>3
  <2>4. QED
    BY <2>2, <2>3 DEF GateOK
<1>3. CASE Environment \/ UNCHANGED vars
  <2>1. UNCHANGED <<pc, request>>
    BY <1>3 DEF Environment, Advance, Clock, Attach, Detach, RegisterRuntime,
       UnregisterRuntime, frame, vars
  <2>2. QED
    BY <2>1 DEF GateOK
<1>4. QED
  BY <1>2, <1>3 DEF Next

\* A runtime changes other than by its own advance only through a dispatch that has
\* a grant for the actor, the action, the target and the epoch, for any requests and
\* grants.
THEOREM ChangesAreGranted == Spec => OnlyGrantedChanges
<1>1. ASSUME Inductive, GateOK, Next, NEW r \in Runtimes
      PROVE  \/ runtime'[r] = runtime[r]
             \/ runtime'[r] = [runtime[r] EXCEPT !.tick = @ + 1]
             \/ \E c \in Callers : target[c] = r /\ Granted(request[c])
  <2>1. CASE Environment
    <3>1. CASE \E s \in Runtimes : Advance(s)
      BY <1>1, <3>1 DEF Advance, Inductive, TypeOK
    <3>2. CASE ~\E s \in Runtimes : Advance(s)
      BY <2>1, <3>2 DEF Environment, Clock, Attach, Detach, RegisterRuntime,
         UnregisterRuntime, world
    <3>3. QED
      BY <3>1, <3>2
  <2>2. CASE \E c \in Callers : Call(c) \/ Step(c)
    <3>1. PICK c \in Callers : Call(c) \/ Step(c)
      BY <2>2
    <3>2. CASE Actuate(c)
      <4>1. pc[c] = "mutate" /\ \E s : runtime' = [runtime EXCEPT ![target[c]] = s]
        BY <3>2 DEF Actuate, Actuating, Inspect, Pause, Resume, SetRate, Snapshot,
           Restore, Alter
      <4>2. Granted(request[c])
        BY <1>1, <4>1 DEF GateOK
      <4>3. QED
        BY <1>1, <4>1, <4>2 DEF Inductive, TypeOK
    <3>3. CASE ~Actuate(c)
      BY <3>1, <3>3 DEF Step, Call, Lookup, Validate, Refuse, Finish, Complete,
         Claim, Lost, FindTarget, Misfit, Realize, Verify, VerifyRaised, world
    <3>4. QED
      BY <3>2, <3>3
  <2>3. QED
    BY <1>1, <2>1, <2>2 DEF Next
<1>2. Inductive /\ GateOK /\ [Next]_vars
        => [\A r \in Runtimes :
              \/ runtime'[r] = runtime[r]
              \/ runtime'[r] = [runtime[r] EXCEPT !.tick = @ + 1]
              \/ \E c \in Callers : target[c] = r /\ Granted(request[c])]_vars
  BY <1>1
<1>3. Init => GateOK
  BY DEF Init, GateOK
<1>4. QED
  BY <1>2, <1>3, GateStep, Invariance, PTL DEF Spec, OnlyGrantedChanges

-----------------------------------------------------------------------------
(* Every key keeps the promise of CommandOnce.                             *)

(***************************************************************************)
(* The outcome of a key is read off the code of its receipt, so the proof  *)
(* needs to know what codes the receipts under construction carry.         *)
(***************************************************************************)
DraftsOK ==
  \A c \in Callers :
    /\ pc[c] = "verify" => receipt[c].status = "CONFIRMED"
    /\ pc[c] = "refuse" => receipt[c].status = "FAILED" /\ receipt[c].code \in RefusalCodes
    /\ pc[c] = "finish" /\ receipt[c].status # "CONFIRMED"
         => receipt[c].code \in FailureCodes

\* A caller's receipt is drafted with a code of this call, whatever step comes next.
LEMMA DraftsStep ==
  ASSUME Inductive, DraftsOK, [Next]_vars
  PROVE  DraftsOK'
<1> USE DEF Inductive
<1>1. ASSUME NEW c \in Callers, Fail(c, "PROVIDER_APPLY_FAILED"), Busy(c)
      PROVE  /\ receipt'[c].code \in FailureCodes
             /\ receipt'[c].status = "FAILED"
             /\ \A d \in Callers \ {c} : receipt'[d] = receipt[d]
  BY <1>1, FailedReceipt DEF Codes, FailureCodes
<1>2. ASSUME NEW c \in Callers, Validate(c) PROVE DraftsOK'
  <2>1. CASE Authorized(request[c])
    BY <1>2, <2>1 DEF Validate, Goto, TypeOK, DraftsOK
  <2>2. CASE ~Authorized(request[c])
    <3>1. Reason(request[c]) \in RefusalCodes
      BY <2>2, ReasonIsRefusal
    <3>2. QED
      BY <1>2, <2>2, <3>1, FailedReceipt DEF Validate, Goto, TypeOK, DraftsOK, Busy, Codes
  <2>3. QED
    BY <2>1, <2>2
<1>3. ASSUME NEW c \in Callers, FindTarget(c) \/ Misfit(c) \/ Realize(c)
      PROVE  DraftsOK'
  <2>1. CASE ApplyRaised(c)
    BY <1>1, <1>3, <2>1 DEF FindTarget, Misfit, Realize, ApplyRaised, Goto, TypeOK, DraftsOK, Busy
  <2>2. CASE ~ApplyRaised(c)
    BY <1>3, <2>2 DEF FindTarget, Misfit, Realize, Goto, TypeOK, DraftsOK
  <2>3. QED
    BY <2>1, <2>2
<1>4. ASSUME NEW c \in Callers, Verify(c) PROVE DraftsOK'
  <2>1. receipt[c] \in Receipts /\ receipt[c].status = "CONFIRMED"
    BY <1>4 DEF Verify, FrameOK, DraftsOK
  <2>2. receipt'[c].status # "CONFIRMED" => receipt'[c].code \in FailureCodes
    BY <1>4, <2>1 DEF Verify, TypeOK, Receipts, FailureCodes
  <2>3. QED
    BY <1>4, <2>2 DEF Verify, Goto, TypeOK, DraftsOK
<1>5. ASSUME NEW c \in Callers, Call(c) \/ Claim(c) \/ Actuate(c) PROVE DraftsOK'
  BY <1>5 DEF Call, Claim, Actuate, Inspect, Pause, Resume, SetRate, Snapshot,
     Restore, Alter, Goto, TypeOK, DraftsOK
<1>6. ASSUME NEW c \in Callers, Return(c) PROVE DraftsOK'
  BY <1>6 DEF Return, Goto, TypeOK, DraftsOK
<1>7. ASSUME NEW c \in Callers, Lookup(c) \/ Lost(c) \/ Refuse(c) \/ Finish(c) \/ VerifyRaised(c)
      PROVE  DraftsOK'
  BY <1>6, <1>7 DEF Lookup, Lost, Refuse, Finish, Complete, VerifyRaised, Goto, TypeOK, DraftsOK
<1>8. CASE Environment
  BY <1>8 DEF Environment, Advance, Clock, Attach, Detach, RegisterRuntime,
     UnregisterRuntime, frame, DraftsOK
<1>9. CASE UNCHANGED vars
  BY <1>9 DEF vars, frame, DraftsOK
<1>10. QED
  BY <1>2, <1>3, <1>4, <1>5, <1>7, <1>8, <1>9 DEF Next, Step

-----------------------------------------------------------------------------
\* Two states that agree on the ledger, on who owns what and on the mutations
\* look the same through the refinement mapping.
LEMMA SameView ==
  ASSUME ledger' = ledger, applied' = applied,
         \A c \in Callers, k \in Keys : Owns(c, k)' <=> Owns(c, k)
  PROVE  UNCHANGED Promise!vars
<1>1. ASSUME NEW k \in Keys PROVE LeaseOf(k)' = LeaseOf(k) /\ OutcomeOf(k)' = OutcomeOf(k)
  BY DEF LeaseOf, OutcomeOf, ledger
<1>2. QED
  BY <1>1 DEF Promise!vars

Quiet(c) ==
  \/ Call(c) \/ Lookup(c) \/ Validate(c) \/ Lost(c) \/ FindTarget(c) \/ Misfit(c)
  \/ Realize(c) \/ Verify(c) \/ (Claim(c) /\ Key(c) \in claimed)

\* Most statements of dispatch are invisible to the promise.
LEMMA QuietStep ==
  ASSUME Inductive, NEW c \in Callers, Quiet(c)
  PROVE  UNCHANGED Promise!vars
<1>1. ledger' = ledger /\ applied' = applied
  BY DEF Quiet, Call, Lookup, Validate, Lost, FindTarget, Misfit, Realize, Verify,
     Claim, ledger, ghosts
<1>2. ASSUME NEW d \in Callers, NEW k \in Keys PROVE Owns(d, k)' <=> Owns(d, k)
  <2>1. CASE d # c
    BY <2>1 DEF Inductive, TypeOK, Owns, Key, Intent, Quiet, Call, Lookup, Validate,
       Lost, FindTarget, Misfit, ApplyRaised, Realize, Verify, Claim, Goto, Return
  <2>2. CASE d = c
    BY <2>2 DEF Inductive, TypeOK, Owns, Key, Intent, Quiet, Call, Lookup, Validate,
       Lost, FindTarget, Misfit, ApplyRaised, Realize, Verify, Claim, Goto, Return
  <2>3. QED
    BY <2>1, <2>2
<1>3. QED
  BY <1>1, <1>2, SameView

\* A step that touches one key leaves the view of every other key alone.
LEMMA OtherKeys ==
  ASSUME Inductive, NEW c \in Callers, NEW k \in Keys, k # Key(c), Busy(c),
         claimed' = claimed \/ claimed' = claimed \cup {Key(c)},
         receipts'[k] = receipts[k],
         \A d \in Callers \ {c} : Owns(d, k)' <=> Owns(d, k),
         ~Owns(c, k)'
  PROVE  LeaseOf(k)' = LeaseOf(k) /\ OutcomeOf(k)' = OutcomeOf(k)
<1>1. ~Owns(c, k)
  BY DEF Owns
<1>2. \A d \in Callers : Owns(d, k)' <=> Owns(d, k)
  BY <1>1
<1>3. QED
  BY <1>2 DEF LeaseOf, OutcomeOf

\* Winning the claim is the promise's lease of the key.
LEMMA ClaimLeases ==
  ASSUME Inductive, NEW c \in Callers, Claim(c), Key(c) \notin claimed
  PROVE  Promise!Lease(Key(c))
<1>0. PICK key \in Keys : key = Key(c)
  BY RequestOfBusy DEF Inductive, Busy, Claim
<1>1. key \in Keys /\ Busy(c)
  BY <1>0, RequestOfBusy DEF Inductive, Claim, Busy
<1>2. /\ claimed' = claimed \cup {key} /\ receipts' = receipts /\ applied' = applied
      /\ pc' = [pc EXCEPT ![c] = "apply"] /\ request' = request
  BY <1>0 DEF Claim, Goto, ghosts
<1>3. Owns(c, key)' /\ \A k \in Keys \ {key} : ~Owns(c, k)'
  BY <1>0, <1>2 DEF Owns, Key, Intent, Inductive, TypeOK
<1>4. \A d \in Callers \ {c}, k \in Keys : Owns(d, k)' <=> Owns(d, k)
  BY <1>0, <1>2 DEF Owns, Key, Intent, Inductive, TypeOK
<1>5. LeaseOf(key) = "open" /\ LeaseOf(key)' = "held" /\ OutcomeOf(key)' = OutcomeOf(key)
  BY <1>0, <1>2, <1>3 DEF LeaseOf, OutcomeOf
<1>6. \A k \in Keys \ {key} : LeaseOf(k)' = LeaseOf(k) /\ OutcomeOf(k)' = OutcomeOf(k)
  BY <1>0, <1>1, <1>2, <1>3, <1>4, OtherKeys
<1>7. QED
  BY <1>0, <1>1, <1>2, <1>5, <1>6 DEF Promise!Lease

\* An actuator that runs is the one effect the key's lease allows.
LEMMA ActuateTakesEffect ==
  ASSUME Inductive, NEW c \in Callers, Actuate(c)
  PROVE  Promise!Effect(Key(c))
<1>0. PICK key \in Keys : key = Key(c)
  BY RequestOfBusy DEF Inductive, Busy, Actuate, Actuating,
     Inspect, Pause, Resume, SetRate, Snapshot, Restore
<1>1. PICK state : pc[c] = "mutate" /\ Alter(c, state)
  BY DEF Actuate, Actuating, Inspect, Pause, Resume, SetRate, Snapshot, Restore
<1>2. key \in Keys /\ Owns(c, key) /\ key \in claimed /\ applied[key] = 0
  BY <1>0, <1>1, RequestOfBusy DEF Inductive, Busy, Owns, HoldersOK, Holds, ProgressOK
<1>3. \A d \in Callers, k \in Keys : Owns(d, k)' <=> Owns(d, k)
  BY <1>0, <1>1 DEF Alter, Goto, Owns, Key, Intent, Inductive, TypeOK
<1>4. \A k \in Keys : LeaseOf(k)' = LeaseOf(k) /\ OutcomeOf(k)' = OutcomeOf(k)
  BY <1>0, <1>1, <1>3 DEF Alter, LeaseOf, OutcomeOf, ledger
<1>5. LeaseOf(key) = "held"
  BY <1>0, <1>2 DEF LeaseOf
<1>6. applied' = [applied EXCEPT ![key] = 1]
  BY <1>0, <1>1, <1>2 DEF Alter, Inductive, TypeOK
<1>7. QED
  BY <1>0, <1>2, <1>4, <1>5, <1>6 DEF Promise!Effect

\* dispatch returns, or is left by an exception.
LEMMA Leaving ==
  ASSUME Inductive, NEW c \in Callers, Return(c)
  PROVE  /\ \A k \in Keys : ~Owns(c, k)'
         /\ \A d \in Callers \ {c}, k \in Keys : Owns(d, k)' <=> Owns(d, k)
BY DEF Return, Goto, Owns, Key, Intent, Inductive, TypeOK

\* A holder is the only owner of its key, so the key is closed when it goes.
LEMMA SoleOwner ==
  ASSUME Inductive, NEW c \in Callers, Owns(c, Key(c))
  PROVE  \A d \in Callers \ {c} : ~Owns(d, Key(c))
BY DEF Inductive, HoldersOK, Holds, Owns

\* Storing the receipt of a call that was applied closes the lease with its outcome.
LEMMA FinishCloses ==
  ASSUME Inductive, DraftsOK, NEW c \in Callers, Finish(c)
  PROVE  Promise!Close(Key(c))
<1>0. PICK key \in Keys : key = Key(c)
  BY RequestOfBusy DEF Inductive, Busy, Finish
<1>1. /\ key \in Keys /\ Busy(c) /\ Owns(c, key) /\ key \in claimed
      /\ receipt[c] \in Receipts /\ receipt[c] # Nothing
  BY <1>0, RequestOfBusy, NothingAssumption
     DEF Inductive, Finish, Busy, Owns, HoldersOK, Holds, FrameOK
<1>2. /\ claimed' = claimed \cup {key} /\ applied' = applied
      /\ receipts' = [receipts EXCEPT ![key] = receipt[c]] /\ Return(c)
  BY <1>0 DEF Finish, Complete, ghosts
<1>3. receipts'[key] = receipt[c] /\ \A k \in Keys \ {key} : receipts'[k] = receipts[k]
  BY <1>0, <1>1, <1>2 DEF Inductive, TypeOK
<1>4. LeaseOf(key) = "held" /\ LeaseOf(key)' = "closed"
  BY <1>0, <1>1, <1>2, SoleOwner, Leaving DEF LeaseOf
<1>5. \A k \in Keys \ {key} : LeaseOf(k)' = LeaseOf(k) /\ OutcomeOf(k)' = OutcomeOf(k)
  BY <1>0, <1>1, <1>2, <1>3, Leaving, OtherKeys
<1>6. /\ OutcomeOf(key)' \in {"failed", "success"}
      /\ OutcomeOf(key)' = "success" => applied[key] = 1
  BY <1>0, <1>1, <1>3 DEF OutcomeOf, DraftsOK, Inductive, ProgressOK, Finish
<1>7. QED
  BY <1>0, <1>1, <1>2, <1>4, <1>5, <1>6 DEF Promise!Close

\* A verify that raises ends the lease without an outcome.
LEMMA VerifyRaisedAbandons ==
  ASSUME Inductive, NEW c \in Callers, VerifyRaised(c)
  PROVE  Promise!Abandon(Key(c))
<1>0. PICK key \in Keys : key = Key(c)
  BY RequestOfBusy DEF Inductive, Busy, VerifyRaised
<1>1. key \in Keys /\ Busy(c) /\ Owns(c, key) /\ key \in claimed
  BY <1>0, RequestOfBusy DEF Inductive, VerifyRaised, Busy, Owns, HoldersOK, Holds
<1>2. claimed' = claimed /\ receipts' = receipts /\ applied' = applied /\ Return(c)
  BY <1>0 DEF VerifyRaised, ledger
<1>3. LeaseOf(key) = "held" /\ LeaseOf(key)' = "closed" /\ OutcomeOf(key)' = OutcomeOf(key)
  BY <1>0, <1>1, <1>2, SoleOwner, Leaving DEF LeaseOf, OutcomeOf
<1>4. \A k \in Keys \ {key} : LeaseOf(k)' = LeaseOf(k) /\ OutcomeOf(k)' = OutcomeOf(k)
  BY <1>0, <1>1, <1>2, Leaving, OtherKeys
<1>5. QED
  BY <1>0, <1>1, <1>2, <1>3, <1>4 DEF Promise!Abandon

\* Storing the receipt of a refused call leaves the key closed, and never applied.
LEMMA RefuseRefuses ==
  ASSUME Inductive, DraftsOK, NEW c \in Callers, Refuse(c)
  PROVE  Promise!Refuse(Key(c))
<1>0. PICK key \in Keys : key = Key(c)
  BY RequestOfBusy DEF Inductive, Busy, Refuse
<1>1. /\ key \in Keys /\ Busy(c) /\ \A k \in Keys : ~Owns(c, k)
      /\ receipt[c] \in Receipts /\ receipt[c] # Nothing
  BY <1>0, RequestOfBusy, NothingAssumption DEF Inductive, Refuse, Busy, Owns, FrameOK
<1>2. /\ claimed' = claimed \cup {key} /\ applied' = applied
      /\ receipts' = [receipts EXCEPT ![key] = receipt[c]] /\ Return(c)
  BY <1>0 DEF Refuse, Complete, ghosts
<1>3. receipts'[key] = receipt[c] /\ \A k \in Keys \ {key} : receipts'[k] = receipts[k]
  BY <1>0, <1>1, <1>2 DEF Inductive, TypeOK
<1>4. \A d \in Callers, k \in Keys : Owns(d, k)' <=> Owns(d, k)
  BY <1>0, <1>1, <1>2, Leaving
<1>5. LeaseOf(key)' = IF LeaseOf(key) = "open" THEN "closed" ELSE LeaseOf(key)
  <2>1. CASE key \in claimed
    BY <1>0, <1>2, <1>4, <1>1, <2>1 DEF LeaseOf
  <2>2. CASE key \notin claimed
    <3>1. \A d \in Callers : ~Owns(d, key)
      BY <1>0, <2>2 DEF Inductive, HoldersOK, Holds, Owns
    <3>2. QED
      BY <1>0, <1>1, <1>2, <1>4, <2>2, <3>1 DEF LeaseOf
  <2>3. QED
    BY <2>1, <2>2
<1>6. \A k \in Keys \ {key} : LeaseOf(k)' = LeaseOf(k) /\ OutcomeOf(k)' = OutcomeOf(k)
  BY <1>0, <1>1, <1>2, <1>3, Leaving, OtherKeys
<1>7. OutcomeOf(key)' = "refused"
  BY <1>0, <1>1, <1>3 DEF OutcomeOf, DraftsOK, Refuse, RefusalCodes, FailureCodes
<1>8. QED
  BY <1>0, <1>1, <1>2, <1>5, <1>6, <1>7 DEF Promise!Refuse

\* The dispatcher starts where the promise does.
LEMMA InitKeeps == Init => Promise!Init
<1> SUFFICES ASSUME Init PROVE Promise!Init
  OBVIOUS
<1>1. \A k \in Keys : LeaseOf(k) = "open" /\ OutcomeOf(k) = "none"
  BY DEF Init, LeaseOf, OutcomeOf
<1>2. QED
  BY <1>1 DEF Init, Promise!Init

\* Every step of the dispatcher is a step of the promise or none.
LEMMA StepKeeps ==
  ASSUME Inductive, DraftsOK, [Next]_vars
  PROVE  [Promise!Next]_Promise!vars
<1>1. CASE Environment
  <2>1. ledger' = ledger /\ frame' = frame /\ applied' = applied
    BY <1>1 DEF Environment, Advance, Clock, Attach, Detach, RegisterRuntime,
       UnregisterRuntime, ghosts
  <2>2. QED
    BY <2>1, SameView DEF frame, Owns, Key, Intent
<1>2. CASE UNCHANGED vars
  BY <1>2, SameView DEF vars, frame, ghosts, Owns, Key, Intent
<1>3. ASSUME NEW c \in Callers, Call(c) \/ Step(c)
      PROVE  [Promise!Next]_Promise!vars
  <2>1. CASE Quiet(c)
    BY <2>1, QuietStep
  <2>2. CASE ~Quiet(c)
    <3>1. Key(c) \in Keys
      BY <1>3, <2>2, RequestOfBusy DEF Inductive, Quiet, Step, Claim, Actuate, Actuating,
         Inspect, Pause, Resume, SetRate, Snapshot, Restore, Refuse, Finish,
         VerifyRaised, Busy
    <3>2. \/ Claim(c) /\ Key(c) \notin claimed
          \/ Actuate(c) \/ Finish(c) \/ VerifyRaised(c) \/ Refuse(c)
      BY <1>3, <2>2 DEF Quiet, Step
    <3>3. \/ Promise!Lease(Key(c)) \/ Promise!Effect(Key(c)) \/ Promise!Close(Key(c))
          \/ Promise!Abandon(Key(c)) \/ Promise!Refuse(Key(c))
      BY <3>2, ClaimLeases, ActuateTakesEffect, FinishCloses, VerifyRaisedAbandons,
         RefuseRefuses
    <3>4. QED
      BY <3>1, <3>3 DEF Promise!Next
  <2>3. QED
    BY <2>1, <2>2
<1>4. QED
  BY <1>1, <1>2, <1>3 DEF Next

\* Dispatch implements CommandOnce, key by key: a key is leased and takes effect
\* at most once, and success is recorded only of one that took effect.
THEOREM DispatchKeepsPromise == Spec => KeepsPromise
<1>1. Init => Inductive /\ DraftsOK /\ Promise!Init
  BY InitInductive, InitKeeps DEF Init, DraftsOK
<1>2. Inductive /\ DraftsOK /\ [Next]_vars => (Inductive /\ DraftsOK)'
  BY InductiveStep, DraftsStep
<1>3. Inductive /\ DraftsOK /\ [Next]_vars => [Promise!Next]_Promise!vars
  BY StepKeeps
<1>4. QED
  BY <1>1, <1>2, <1>3, PTL DEF Spec, KeepsPromise, Promise!Spec
=============================================================================
