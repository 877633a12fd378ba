--------------------------- MODULE CorkScheduler ---------------------------
(***************************************************************************)
(* The scheduled-cork lifecycle of the Sommelier cork module.              *)
(*                                                                         *)
(* Validators (through their orchestrator keys) submit MsgScheduleCork for *)
(* a future block height (x/cork/keeper/msg_server.go, ScheduleCork).  At  *)
(* the end of every block the cork EndBlocker (x/cork/keeper/abci.go)      *)
(* tallies the votes scheduled for the current height against the stake-   *)
(* weighted VoteThreshold, deletes them, and hands every winning cork to   *)
(* the gravity bridge as a contract call carrying a fresh invalidation     *)
(* nonce.  The tally and the vote store (GetApprovedScheduledCorks,        *)
(* SetScheduledCork, IncrementInvalidationNonce) live in keeper.go, which  *)
(* is not part of the sources at hand: they are modelled from the spec.    *)
(*                                                                         *)
(***************************************************************************)
EXTENDS Integers, FiniteSets, Sequences, SequencesExt, FiniteSetsExt, TLC

CONSTANTS
  Validators,     \* validator operator addresses
  Signers,        \* orchestrator (delegate) keys that may sign a message
  Orchestrator,   \* gravity's delegate mapping: Signers -> Validators \cup {NoValidator}
  NoValidator,    \* GetOrchestratorValidatorAddress returned nil
  Targets,        \* contract addresses a cork may name (integers: they are ordered)
  CellarIDs,      \* the managed cellar addresses (HasCellarID)
  Calls,          \* encoded contract calls (integers: they are ordered)
  Malformed,      \* calls the bridge rejects and drops when handed over
  PowerProfiles,  \* last validator powers the staking EndBlocker may leave behind
  ThresholdNum,   \* VoteThreshold = ThresholdNum / ThresholdDen
  ThresholdDen,
  MaxHeight,      \* last block height explored (modelling bound)
  MaxCorks,       \* bound on the MsgScheduleCork accepted over the run
  NoCork          \* empty slot of the vote store

ASSUME CellarIDs \subseteq Targets /\ Malformed \subseteq Calls
ASSUME Orchestrator \in [Signers -> Validators \cup {NoValidator}]
ASSUME PowerProfiles \subseteq [Validators -> Nat]
ASSUME ThresholdNum \in Nat /\ ThresholdDen \in Nat \ {0} /\ ThresholdNum <= ThresholdDen
ASSUME MaxHeight \in Nat \ {0} /\ MaxCorks \in Nat

Heights == 1..MaxHeight

\* types.Cork: the target contract and the ABI-encoded call.
Corks == [target : Targets, call : Calls]

\* Cork.InvalidationScope(): a hash of the target address and the call.
\* A collision-free hash is modelled as the pair it is computed from.
InvalidationScope(c) == <<c.target, c.call>>

\* gravity ContractCallTx as queued by CreateContractCallTx.  "height" is a
\* history field (the block that emitted it), not part of the bridge's data.
ContractCallTxs == [nonce : Nat, scope : Targets \X Calls, target : Targets,
                    call : Calls, height : Heights]

Responses == {"none", "ok", "ErrUnauthorized", "ErrUnmanagedCellarAddress",
              "ErrSchedulingInThePast"}

VARIABLES
  height,             \* ctx.BlockHeight()
  phase,              \* "deliver" while txs run, "ended" once EndBlock ran
  scheduledCorks,     \* vote store: height -> validator -> cork
  castThisBlock,      \* history: <<height, validator>> votes written in this block
  corkCount,          \* IncrementValidatorCorkCount counters
  invalidationNonce,  \* the cork module's invalidation nonce
  outgoing,           \* contract calls handed to the bridge
  response            \* result of the last MsgScheduleCork

vars == <<height, phase, scheduledCorks, castThisBlock, corkCount,
          invalidationNonce, outgoing, response>>

-----------------------------------------------------------------------------
(***************************************************************************)
(* Collaborators.                                                          *)
(***************************************************************************)

\* StakingKeeper.GetLastTotalPower: the sum of the last validator powers.
GetLastTotalPower(power) == MapThenSumSet(LAMBDA v : power[v], Validators)

\* k.HasCellarID(ctx, common.HexToAddress(target))
HasCellarID(target) == target \in CellarIDs

\* Mutant: the past check written with < lets a cork target the current block.
SchedulingInThePastStrict(h) == h < height

\* msg.BlockHeight <= uint64(ctx.BlockHeight())
SchedulingInThePast(h) == h <= height

-----------------------------------------------------------------------------
(***************************************************************************)
(* The vote store and the tally (keeper.go, modelled from the spec).       *)
(***************************************************************************)

\* SetScheduledCork: the vote of val for height h replaces any earlier one.
SetScheduledCork(store, h, val, cork) == [store EXCEPT ![h][val] = cork]

\* Mutant: the height's slot itself is overwritten by the empty marker
\* instead of emptying each validator's vote.
DeleteScheduledCorksWholeHeight(store, h) == [store EXCEPT ![h] = NoCork]

\* Mutant: the tallied votes are never deleted.
DeleteScheduledCorksForgotten(store, h) == store

\* Deleting every vote of height h once it has been tallied.
DeleteScheduledCorks(store, h) ==
  [store EXCEPT ![h] = [v \in Validators |-> NoCork]]

\* Sum of the last powers of the validators whose vote at h is cork c.
GroupPower(store, h, c, power) ==
  MapThenSumSet(LAMBDA v : power[v], {v \in Validators : store[h][v] = c})

\* Mutant: the threshold compared without the zero-total-power short cut.
QuorumReachedNoZeroCheck(groupPower, totalPower) ==
  groupPower * ThresholdDen >= ThresholdNum * totalPower

\* groupPower / totalPower >= VoteThreshold, with no approval at zero power.
QuorumReached(groupPower, totalPower) ==
  /\ totalPower > 0
  /\ groupPower * ThresholdDen >= ThresholdNum * totalPower

\* GetApprovedScheduledCorks: of the distinct corks voted for height h (one
\* vote group per cork), those whose group reaches quorum.
GetApprovedScheduledCorks(store, h, power) ==
  {c \in {store[h][v] : v \in Validators} \ {NoCork} :
     QuorumReached(GroupPower(store, h, c, power), GetLastTotalPower(power))}

\* The orders in which the approved corks can come out of the tally: one,
\* sorted by group key (target, then call).
ApprovedOrders(approved) ==
  {SetToSortSeq(approved, LAMBDA a, b : a.target < b.target \/
                                         (a.target = b.target /\ a.call < b.call))}

-----------------------------------------------------------------------------
(***************************************************************************)
(* submitContractCall: IncrementInvalidationNonce, then CreateContractCallTx*)
(* on the bridge, which queues the call unless it rejects the payload.     *)
(***************************************************************************)

\* Mutant: the counter is bumped once per block instead of once per cork.
IncrementInvalidationNonceOncePerBlock(i) == invalidationNonce + 1

\* The nonce the i-th winning cork of this block receives.
IncrementInvalidationNonce(i) == invalidationNonce + i

CreateContractCallTx(nonce, c) ==
  IF c.call \in Malformed THEN <<>>
  ELSE << [nonce |-> nonce, scope |-> InvalidationScope(c), target |-> c.target,
           call |-> c.call, height |-> height] >>

\* Mutant: every iteration submits the loop variable's last value (the
\* range variable captured by address instead of copied).
SubmitContractCallsCapturedLoopVar(winners) ==
  FlattenSeq([i \in 1..Len(winners) |->
                CreateContractCallTx(IncrementInvalidationNonce(i), winners[Len(winners)])])

\* The loop "for _, wv := range winningScheduledVotes { submitContractCall }".
SubmitContractCalls(winners) ==
  FlattenSeq([i \in 1..Len(winners) |->
                CreateContractCallTx(IncrementInvalidationNonce(i), winners[i])])

-----------------------------------------------------------------------------
(***************************************************************************)
(* Actions.                                                                *)
(***************************************************************************)

Init ==
  /\ height = 1
  /\ phase = "deliver"
  /\ scheduledCorks = [h \in Heights |-> [v \in Validators |-> NoCork]]
  /\ castThisBlock = {}
  /\ corkCount = [v \in Validators |-> 0]
  /\ invalidationNonce = 0
  /\ outgoing = <<>>
  /\ response = "none"

\* MsgScheduleCork signed by signer for block h, delivered in this block.
ScheduleCork(signer, cork, h) ==
  LET validatorAddr == Orchestrator[signer] IN
  /\ phase = "deliver"
  /\ \/ /\ validatorAddr = NoValidator
        /\ response' = "ErrUnauthorized"
        /\ UNCHANGED <<scheduledCorks, castThisBlock, corkCount>>
     \/ /\ validatorAddr # NoValidator
        /\ ~HasCellarID(cork.target)
        /\ response' = "ErrUnmanagedCellarAddress"
        /\ UNCHANGED <<scheduledCorks, castThisBlock, corkCount>>
     \/ /\ validatorAddr # NoValidator
        /\ HasCellarID(cork.target)
        /\ SchedulingInThePast(h)
        /\ response' = "ErrSchedulingInThePast"
        /\ UNCHANGED <<scheduledCorks, castThisBlock, corkCount>>
     \/ /\ validatorAddr # NoValidator
        /\ HasCellarID(cork.target)
        /\ ~SchedulingInThePast(h)
        /\ MapThenSumSet(LAMBDA v : corkCount[v], Validators) < MaxCorks
        /\ scheduledCorks' = SetScheduledCork(scheduledCorks, h, validatorAddr, cork)
        /\ castThisBlock' = castThisBlock \cup {<<h, validatorAddr>>}
        /\ corkCount' = [corkCount EXCEPT ![validatorAddr] = @ + 1]
        /\ response' = "ok"
  /\ UNCHANGED <<height, phase, invalidationNonce, outgoing>>

\* End of block: the staking EndBlocker (ordered before cork's in app.go)
\* leaves the last validator powers; the cork EndBlocker then tallies the
\* current height, deletes its votes and submits the winners in order.
EndBlocker ==
  /\ phase = "deliver"
  /\ \E power \in PowerProfiles :
       LET approved == GetApprovedScheduledCorks(scheduledCorks, height, power) IN
       \E order \in ApprovedOrders(approved) :
         /\ outgoing' = outgoing \o SubmitContractCalls(order)
         /\ invalidationNonce' = IncrementInvalidationNonce(Cardinality(approved))
  /\ scheduledCorks' = DeleteScheduledCorks(scheduledCorks, height)
  /\ phase' = "ended"
  /\ UNCHANGED <<height, castThisBlock, corkCount, response>>

\* Commit and the next BeginBlock (the cork BeginBlocker does nothing).
NextBlock ==
  /\ phase = "ended"
  /\ height < MaxHeight
  /\ height' = height + 1
  /\ phase' = "deliver"
  /\ castThisBlock' = {}
  /\ response' = "none"
  /\ UNCHANGED <<scheduledCorks, corkCount, invalidationNonce, outgoing>>

\* The explored prefix of the chain ends after the last EndBlock.
Halted ==
  /\ phase = "ended"
  /\ height = MaxHeight
  /\ UNCHANGED vars

Next ==
  \/ \E s \in Signers, c \in Corks, h \in Heights : ScheduleCork(s, c, h)
  \/ EndBlocker
  \/ NextBlock
  \/ Halted

\* Blocks keep being produced: EndBlock and the move to the next height are
\* driven by consensus, not by any submitter.
Fairness == WF_vars(EndBlocker) /\ WF_vars(NextBlock)

Spec == Init /\ [][Next]_vars /\ Fairness

-----------------------------------------------------------------------------
(***************************************************************************)
(* Properties.                                                             *)
(***************************************************************************)

TypeOK ==
  /\ height \in Heights
  /\ phase \in {"deliver", "ended"}
  /\ scheduledCorks \in [Heights -> [Validators -> Corks \cup {NoCork}]]
  /\ castThisBlock \subseteq Heights \X Validators
  /\ corkCount \in [Validators -> 0..MaxCorks]
  /\ invalidationNonce \in Nat
  /\ outgoing \in Seq(ContractCallTxs)
  /\ response \in Responses

\* Vote lifetime (ScheduleCork's height check against the EndBlocker's
\* tally of the current height): a vote still pending for the current
\* height was not cast in the current block, so it is never tallied in the
\* block that cast it, and no vote survives the EndBlock of its target
\* height, so none is left behind untallied.
VoteLifetime ==
  \A h \in Heights, v \in Validators :
    scheduledCorks[h][v] # NoCork =>
      /\ h = height => <<h, v>> \notin castThisBlock
      /\ \/ height < h
         \/ height = h /\ phase = "deliver"

\* No double submission (EndBlocker's loop over the tally result): the
\* bridge never receives the same cork twice for the same height.
NoDoubleSubmission ==
  \A i, j \in 1..Len(outgoing) :
    i # j =>
      \/ outgoing[i].height # outgoing[j].height
      \/ InvalidationScope(outgoing[i]) # InvalidationScope(outgoing[j])

\* Nonces (IncrementInvalidationNonce in submitContractCall): the calls
\* queued on the bridge carry the nonces 1, 2, ... in queue order with no
\* gap and no reuse, and the module's counter is the last one handed out.
NoncesGapless ==
  /\ \A i \in 1..Len(outgoing) : outgoing[i].nonce = i
  /\ invalidationNonce = Len(outgoing)

\* No conflicting calls (the one-vote-per-validator store, the threshold
\* comparison and the zero-power case together): two different calls to
\* the same contract are never both approved at the same height.
NoConflictingCalls ==
  \A i, j \in 1..Len(outgoing) :
    /\ outgoing[i].height = outgoing[j].height
    /\ outgoing[i].target = outgoing[j].target
    => outgoing[i].call = outgoing[j].call

\* Every vote is eventually tallied and removed from the store (liveness of
\* the per-block EndBlocker under continuous block production).
EveryVoteResolved ==
  \A h \in Heights, v \in Validators :
    scheduledCorks[h][v] # NoCork ~> scheduledCorks[h][v] = NoCork


\* Refinement of the abstract protocol (CorkVoting): the vote store read as
\* a set of ballots and the bridge queue are a behaviour of the
\* abstract specification, under the same fairness.  This relates the
\* whole handler chain (ScheduleCork's checks, SetScheduledCork, the tally,
\* the deletion, the winners' sort and the nonce arithmetic of
\* submitContractCall) to what it must achieve, step by step.
Voting == INSTANCE CorkVoting WITH
  ballots <- {[height |-> h, validator |-> v, cork |-> scheduledCorks[h][v]] :
                <<h, v>> \in {p \in Heights \X Validators :
                                scheduledCorks[p[1]][p[2]] # NoCork}},
  bridge  <- outgoing

ImplementsCorkVoting == Voting!ASpec
=============================================================================
