-------------------------- MODULE MCCorkScheduler --------------------------
(***************************************************************************)
(* Model-checking instance of CorkScheduler: three validators, one key     *)
(* that is nobody's orchestrator, one managed cellar and one unmanaged     *)
(* address, two encoded calls (so two conflicting calls to the cellar can  *)
(* be voted at the same height) and three blocks.                          *)
(***************************************************************************)
EXTENDS CorkScheduler

CONSTANTS v1, v2, v3, s1, s2, s3, s4

MCValidators == {v1, v2, v3}
MCSigners == {s1, s2, s3, s4}
MCOrchestrator == (s1 :> v1 @@ s2 :> v2 @@ s3 :> v3 @@ s4 :> NoValidator)

\* Last powers the staking module may leave: v1 alone holds exactly the
\* 2/3 threshold; all three equal (unanimity needed); nothing bonded.
MCPowerProfiles ==
  { (v1 :> 2 @@ v2 :> 1 @@ v3 :> 0),
    (v1 :> 1 @@ v2 :> 1 @@ v3 :> 1),
    (v1 :> 0 @@ v2 :> 0 @@ v3 :> 0) }

\* Equal stake only: with a 1/3 threshold every single vote wins, so two
\* calls can be approved in one block and their order decides the nonces.
MCEqualPower == { (v1 :> 1 @@ v2 :> 1 @@ v3 :> 1) }
=============================================================================
