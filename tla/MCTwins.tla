------------------------------ MODULE MCTwins -------------------------------
(***************************************************************************)
(* Small instances of RuntimeTwins, with the payloads of MCRuntime.        *)
(***************************************************************************)
EXTENDS RuntimeTwins, MCRuntime

ASSUME PayloadsAreTold == Harmless(Sound) /\ ~Harmless(Risky) /\ ~Harmless(Mixed)
=============================================================================
