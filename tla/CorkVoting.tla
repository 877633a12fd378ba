----------------------------- MODULE CorkVoting -----------------------------
(***************************************************************************)
(* What the scheduled-cork protocol promises, without its data structures. *)
(*                                                                         *)
(* A validator casts a ballot for a managed cellar and a future height; a  *)
(* later ballot of the same validator for the same height replaces the     *)
(* earlier one.  When a height closes, every cork whose ballots hold a     *)
(* share of the bonded power at least the vote threshold is appended to    *)
(* the bridge in one step, each with the next invalidation nonce, and the  *)
(* height's ballots are discarded.  The order of the winners within a      *)
(* height is left open here.                                               *)
(***************************************************************************)
EXTENDS Integers, FiniteSets, Sequences, SequencesExt, FiniteSetsExt

CONSTANTS Validators, Targets, CellarIDs, Calls, PowerProfiles,
          ThresholdNum, ThresholdDen, MaxHeight

Heights == 1..MaxHeight
Corks == [target : Targets, call : Calls]
Ballots == [height : Heights, validator : Validators, cork : Corks]

VARIABLES height, phase, ballots, bridge

vars == <<height, phase, ballots, bridge>>

\* The ballots cast for height h.
BallotsAt(h) == {b \in ballots : b.height = h}

\* The share of power behind cork c at h reaches the threshold, and some
\* power is bonded at all.
Wins(c, h, power) ==
  LET backing == MapThenSumSet(LAMBDA b : power[b.validator],
                               {b \in BallotsAt(h) : b.cork = c})
      bonded  == MapThenSumSet(LAMBDA v : power[v], Validators)
  IN  bonded > 0 /\ backing * ThresholdDen >= ThresholdNum * bonded

\* The bridge entry of cork c emitted at h with nonce k.
Entry(c, h, k) ==
  [nonce |-> k, scope |-> <<c.target, c.call>>, target |-> c.target,
   call |-> c.call, height |-> h]

AInit ==
  /\ height = 1
  /\ phase = "deliver"
  /\ ballots = {}
  /\ bridge = <<>>

\* Validator v casts a ballot for cork c at a strictly later height.
Cast(v, c, h) ==
  /\ phase = "deliver"
  /\ h > height
  /\ c.target \in CellarIDs
  /\ ballots' = {b \in ballots : ~(b.height = h /\ b.validator = v)}
                  \cup {[height |-> h, validator |-> v, cork |-> c]}
  /\ UNCHANGED <<height, phase, bridge>>

\* The current height closes: its winners reach the bridge, in some order,
\* with consecutive fresh nonces; its ballots are gone.
Close ==
  /\ phase = "deliver"
  /\ \E power \in PowerProfiles :
       LET winners == {c \in {b.cork : b \in BallotsAt(height)} :
                         Wins(c, height, power)}
       IN  \E order \in SetToSeqs(winners) :
             bridge' = bridge \o
                       [i \in 1..Len(order) |->
                          Entry(order[i], height, Len(bridge) + i)]
  /\ ballots' = ballots \ BallotsAt(height)
  /\ phase' = "ended"
  /\ UNCHANGED height

Advance ==
  /\ phase = "ended"
  /\ height < MaxHeight
  /\ height' = height + 1
  /\ phase' = "deliver"
  /\ UNCHANGED <<ballots, bridge>>

ANext ==
  \/ \E v \in Validators, c \in Corks, h \in Heights : Cast(v, c, h)
  \/ Close
  \/ Advance

ASpec == AInit /\ [][ANext]_vars /\ WF_vars(Close) /\ WF_vars(Advance)
=============================================================================
