------------------------- MODULE AxelarCorkMiddleware -------------------------
(***************************************************************************)
(* The ICS-20 transfer stack of the Sommelier app with the axelarcork IBC  *)
(* middleware (x/axelarcork/ibc_middleware.go) in front of the transfer    *)
(* module.  The middleware passes every channel and packet callback that   *)
(* the IBC router hands it through to the transfer module, and filters     *)
(* outgoing packets in SendPacket through ValidateAxelarPacket before the  *)
(* ICS4 wrapper (the channel keeper) commits them.                         *)
(*                                                                         *)
(* IBC core (channel keeper) and the transfer module are ibc-go code, not  *)
(* in the sources: they are the environment, reduced to what the           *)
(* middleware's callbacks hand over and receive back.  The counterparty    *)
(* chain and the relayer are the environment too: the relayer may deliver  *)
(* an acknowledgement, a timeout, both (the later one is rejected because  *)
(* the commitment is gone), duplicates, or nothing at all.                 *)
(*                                                                         *)
(* Two wiring facts of app/app.go are constants: which ICS4 wrapper the    *)
(* transfer keeper sends through, and whether the keeper value the         *)
(* middleware holds was constructed (see AppWiring).                       *)
(***************************************************************************)
EXTENDS Integers, FiniteSets, ModuleAccounts

CONSTANTS
  Channels,            \* channels bound to the transfer port
  Data,                \* ICS-20 packet payloads (denom, amount, receiver)
  ValidSends,          \* ValidateAxelarPacket accepts <<channel, data>> iff it is in here
  Receiver,            \* the receiver address each payload names
  Orders,              \* channel orderings a handshake may ask for
  Versions,            \* versions a handshake may carry
  TransferIcs4Wrapper, \* "channel" or "middleware": what the transfer keeper sends through
  MiddlewareKeeper,    \* "built" or "zero": the axelarcork keeper value the middleware holds
  MaxSeq               \* packets sent and received per channel (modelling bound)

ASSUME ValidSends \subseteq Channels \X Data /\ DOMAIN Receiver = Data
ASSUME TransferIcs4Wrapper \in {"channel", "middleware"}
ASSUME MiddlewareKeeper \in {"built", "zero"}
ASSUME MaxSeq \in Nat \ {0}

\* ibc-transfer types.Version
Ics20Version == "ics20-1"

ChanStates == {"UNINIT", "INIT", "TRYOPEN", "OPEN", "CLOSED"}
Seqs == 1..MaxSeq
Packets == [ch : Channels, seq : Seqs, data : Data]
Outcomes == {"ack_ok", "ack_error", "timeout"}
Acks == {"ok", "error"}

VARIABLES
  channel,      \* channel ends on the transfer port (IBC core)
  nextSeqSend,  \* next send sequence per channel (IBC core)
  commitments,  \* packets sent and neither acknowledged nor timed out (IBC core)
  resolved,     \* history: sent packets with the way they were resolved
  escrow,       \* transfer escrow balance per channel (one token per packet)
  receipts,     \* packets received from the counterparty with the ack written
  vouchers      \* vouchers minted per channel for received packets

vars == <<channel, nextSeqSend, commitments, resolved, escrow, receipts, vouchers>>

-----------------------------------------------------------------------------
(***************************************************************************)
(* The transfer module's callbacks (ibc-go, environment).  Each returns    *)
(* what the middleware hands back to IBC core.                             *)
(***************************************************************************)

\* ValidateTransferChannelParams plus the version check of OnChanOpenInit:
\* an empty version is replaced by ics20-1, any other must equal it.
TransferOnChanOpenInit(order, version) ==
  IF order = "UNORDERED" /\ version \in {"", Ics20Version}
  THEN [err |-> FALSE, version |-> Ics20Version]
  ELSE [err |-> TRUE, version |-> ""]

TransferOnChanOpenTry(order, counterpartyVersion) ==
  IF order = "UNORDERED" /\ counterpartyVersion = Ics20Version
  THEN [err |-> FALSE, version |-> Ics20Version]
  ELSE [err |-> TRUE, version |-> ""]

TransferOnChanOpenAck(counterpartyVersion) == counterpartyVersion /= Ics20Version

\* onRecvPacket: an error ack when the bank keeper blocks the receiver.
TransferOnRecvPacket(data) ==
  IF BlockedAddr(Receiver[data]) THEN "error" ELSE "ok"

-----------------------------------------------------------------------------
(***************************************************************************)
(* The middleware (ibc_middleware.go).                                     *)
(***************************************************************************)

OnChanOpenInit(order, version) == TransferOnChanOpenInit(order, version)

OnChanOpenTry(order, counterpartyVersion) ==
  TransferOnChanOpenTry(order, counterpartyVersion)

\* Mutant: the acknowledgement is not handed to the transfer module.
OnChanOpenAckSwallowed(counterpartyVersion) == FALSE

\* TRUE when the callback returns an error.
OnChanOpenAck(counterpartyVersion) == TransferOnChanOpenAck(counterpartyVersion)

\* OnChanOpenConfirm and OnChanCloseConfirm: the transfer module accepts.
OnChanOpenConfirm == FALSE
OnChanCloseConfirm == FALSE

\* Mutant: the middleware returns a nil acknowledgement (an asynchronous
\* ack that is never written) instead of the transfer module's.
OnRecvPacketNilAck(data) == "nil"

\* Mutant: the middleware answers with its own success acknowledgement
\* after calling the transfer module, overriding the error ack.
OnRecvPacketOverridingAck(data) == "ok"

OnRecvPacket(data) == TransferOnRecvPacket(data)

\* Mutant: the timeout is not handed to the transfer module, so no refund.
OnTimeoutPacketSwallowed(p) == FALSE

\* TRUE when the transfer module refunds the escrowed tokens.  Refunds
\* happen on a timeout (OnTimeoutPacket) and on an error acknowledgement
\* (OnAcknowledgementPacket); a success ack leaves the tokens escrowed.
OnTimeoutPacket(p) == TRUE
OnAcknowledgementPacket(p, ack) == ack = "error"

\* SendPacket: ValidateAxelarPacket, then the ICS4 wrapper.  "deny" returns
\* sequence 0 with the error, which fails the transfer transaction; the
\* keeper's zero value has no store and no ICS4 wrapper, so using it panics,
\* which also fails the transaction.
SendPacket(ch, data) ==
  CASE MiddlewareKeeper = "zero"    -> "panic"
    [] <<ch, data>> \notin ValidSends -> "deny"
    [] OTHER                        -> "forward"

\* The transfer keeper's ics4Wrapper.SendPacket as wired in app.go: either
\* straight to the channel keeper or through the middleware.
TransferSendPacket(ch, data) ==
  IF TransferIcs4Wrapper = "channel" THEN "forward" ELSE SendPacket(ch, data)

-----------------------------------------------------------------------------
(***************************************************************************)
(* Actions: IBC core handlers and MsgTransfer, each calling the callback   *)
(* of the middleware the IBC router gives it.  A callback error fails the  *)
(* transaction, so it is a step that changes nothing and is left out.      *)
(***************************************************************************)

Init ==
  /\ channel = [c \in Channels |-> [state |-> "UNINIT", order |-> "UNORDERED",
                                    version |-> ""]]
  /\ nextSeqSend = [c \in Channels |-> 1]
  /\ commitments = {}
  /\ resolved = {}
  /\ escrow = [c \in Channels |-> 0]
  /\ receipts = {}
  /\ vouchers = [c \in Channels |-> 0]

UnchangedPackets == UNCHANGED <<nextSeqSend, commitments, resolved, escrow,
                                receipts, vouchers>>

ChanOpenInit(ch, order, version) ==
  LET r == OnChanOpenInit(order, version) IN
  /\ channel[ch].state = "UNINIT"
  /\ ~r.err
  /\ channel' = [channel EXCEPT ![ch] = [state |-> "INIT", order |-> order,
                                         version |-> r.version]]
  /\ UnchangedPackets

ChanOpenTry(ch, order, counterpartyVersion) ==
  LET r == OnChanOpenTry(order, counterpartyVersion) IN
  /\ channel[ch].state = "UNINIT"
  /\ ~r.err
  /\ channel' = [channel EXCEPT ![ch] = [state |-> "TRYOPEN", order |-> order,
                                         version |-> r.version]]
  /\ UnchangedPackets

\* Core stores the counterparty's version once the app accepted it.
ChanOpenAck(ch, counterpartyVersion) ==
  /\ channel[ch].state = "INIT"
  /\ ~OnChanOpenAck(counterpartyVersion)
  /\ channel' = [channel EXCEPT ![ch].state = "OPEN",
                                ![ch].version = counterpartyVersion]
  /\ UnchangedPackets

ChanOpenConfirm(ch) ==
  /\ channel[ch].state = "TRYOPEN"
  /\ ~OnChanOpenConfirm
  /\ channel' = [channel EXCEPT ![ch].state = "OPEN"]
  /\ UnchangedPackets

\* The counterparty closed its end; OnChanCloseInit on this side is always
\* refused by the transfer module and never changes anything.
ChanCloseConfirm(ch) ==
  /\ channel[ch].state \in {"INIT", "TRYOPEN", "OPEN"}
  /\ ~OnChanCloseConfirm
  /\ channel' = [channel EXCEPT ![ch].state = "CLOSED"]
  /\ UnchangedPackets

\* MsgTransfer: the transfer keeper escrows one token and calls its ICS4
\* wrapper; a refused or panicking SendPacket reverts the escrow with the
\* whole transaction.  IBC core refuses a closed or unknown channel.
Transfer(ch, data) ==
  /\ channel[ch].state \in {"INIT", "TRYOPEN", "OPEN"}
  /\ nextSeqSend[ch] <= MaxSeq
  /\ TransferSendPacket(ch, data) = "forward"
  /\ commitments' = commitments \cup
                      {[ch |-> ch, seq |-> nextSeqSend[ch], data |-> data]}
  /\ nextSeqSend' = [nextSeqSend EXCEPT ![ch] = @ + 1]
  /\ escrow' = [escrow EXCEPT ![ch] = @ + 1]
  /\ UNCHANGED <<channel, resolved, receipts, vouchers>>

\* Resolving a sent packet: IBC core deletes the commitment first, so the
\* second of an ack and a timeout relayed for one packet is rejected.
Resolve(p, outcome, refund) ==
  /\ commitments' = commitments \ {p}
  /\ resolved' = resolved \cup {[ch |-> p.ch, seq |-> p.seq, data |-> p.data,
                                   outcome |-> outcome]}
  /\ escrow' = IF refund THEN [escrow EXCEPT ![p.ch] = @ - 1] ELSE escrow
  /\ UNCHANGED <<channel, nextSeqSend, receipts, vouchers>>

AcknowledgePacket(p, ack) ==
  /\ p \in commitments
  /\ channel[p.ch].state = "OPEN"
  /\ Resolve(p, IF ack = "ok" THEN "ack_ok" ELSE "ack_error",
             OnAcknowledgementPacket(p, ack))

\* TimeoutPacket, or TimeoutOnClose once the counterparty closed.
TimeoutPacket(p) ==
  /\ p \in commitments
  /\ Resolve(p, "timeout", OnTimeoutPacket(p))

\* RecvPacket of the counterparty's packet seq on an unordered channel: in
\* any order, once (the receipt rejects a duplicate relay).  The ack the
\* middleware returns is written synchronously; an ok ack mints a voucher.
RecvPacket(ch, seq, data) ==
  LET ack == OnRecvPacket(data) IN
  /\ channel[ch].state = "OPEN"
  /\ ~\E r \in receipts : r.ch = ch /\ r.seq = seq
  /\ receipts' = receipts \cup {[ch |-> ch, seq |-> seq, data |-> data, ack |-> ack]}
  /\ vouchers' = IF TransferOnRecvPacket(data) = "ok"
                  THEN [vouchers EXCEPT ![ch] = @ + 1] ELSE vouchers
  /\ UNCHANGED <<channel, nextSeqSend, commitments, resolved, escrow>>

Next ==
  \/ \E ch \in Channels, o \in Orders, v \in Versions :
        ChanOpenInit(ch, o, v) \/ ChanOpenTry(ch, o, v)
  \/ \E ch \in Channels, v \in Versions : ChanOpenAck(ch, v)
  \/ \E ch \in Channels : ChanOpenConfirm(ch) \/ ChanCloseConfirm(ch)
  \/ \E ch \in Channels, d \in Data : Transfer(ch, d)
  \/ \E p \in commitments : \/ \E a \in Acks : AcknowledgePacket(p, a)
                             \/ TimeoutPacket(p)
  \/ \E ch \in Channels, s \in Seqs, d \in Data : RecvPacket(ch, s, d)

Spec == Init /\ [][Next]_vars

-----------------------------------------------------------------------------
TypeOK ==
  /\ channel \in [Channels -> [state : ChanStates, order : Orders \cup {"UNORDERED"},
                               version : Versions \cup {"", Ics20Version}]]
  /\ nextSeqSend \in [Channels -> 1..MaxSeq + 1]
  /\ commitments \subseteq Packets
  /\ resolved \subseteq [ch : Channels, seq : Seqs, data : Data, outcome : Outcomes]
  /\ escrow \in [Channels -> 0..MaxSeq]
  /\ receipts \subseteq [ch : Channels, seq : Seqs, data : Data, ack : Acks]
  /\ vouchers \in [Channels -> 0..MaxSeq]

-----------------------------------------------------------------------------
(***************************************************************************)
(* Properties.                                                             *)
(***************************************************************************)

\* Every packet ever committed on a channel, resolved or not.
Sent == commitments \cup {[ch |-> r.ch, seq |-> r.seq, data |-> r.data] : r \in resolved}

\* Escrow conservation across the middleware's OnAcknowledgementPacket and
\* OnTimeoutPacket pass-throughs: whatever order the relayer delivers acks
\* and timeouts in, and however many it duplicates, a channel's escrow holds
\* exactly one token per packet still in flight plus one per packet the
\* counterparty acknowledged with success.
EscrowBalanced ==
  \A ch \in Channels :
    escrow[ch] = Cardinality({p \in commitments : p.ch = ch})
                 + Cardinality({r \in resolved : r.ch = ch /\ r.outcome = "ack_ok"})

\* The acknowledgement the middleware's OnRecvPacket returns to IBC core
\* tells the counterparty whether to refund its sender: a success ack is
\* written exactly for the received packets the transfer module minted
\* vouchers for, so tokens are neither duplicated nor lost.
VouchersBalanced ==
  \A ch \in Channels :
    vouchers[ch] = Cardinality({r \in receipts : r.ch = ch /\ r.ack = "ok"})

\* The channel handshake callbacks pass the transfer module's version
\* negotiation through: a channel on the transfer port only ever opens
\* unordered and with the ICS-20 version, whatever versions and orders the
\* two handshake directions propose.
OpenChannelsAreIcs20 ==
  \A ch \in Channels :
    channel[ch].state = "OPEN" =>
      channel[ch].order = "UNORDERED" /\ channel[ch].version = Ics20Version

\* The bank keeper built with BlockedAddrs() (maccPerms and
\* allowedReceivingModAcc) and the transfer module's receive path: however
\* the relayer delivers, no ICS-20 packet addressed to a module account is
\* acknowledged with success, so no module account is credited from
\* another chain (the sender is refunded instead).
NoVouchersToModuleAccounts ==
  \A r \in receipts : r.ack = "ok" => Receiver[r.data] \notin ModuleAccountAddrs

\* SendPacket's purpose: no ICS-20 packet that ValidateAxelarPacket denies
\* is ever committed on a channel (ibc_middleware.go:66-69).
OnlyValidatedPacketsSent ==
  \A p \in Sent : <<p.ch, p.data>> \in ValidSends

====
