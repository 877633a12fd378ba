------------------------ MODULE MCAxelarCorkMiddleware ------------------------
(***************************************************************************)
(* Instance of AxelarCorkMiddleware for TLC: a channel to Axelar, on which *)
(* ValidateAxelarPacket accepts only the well-formed payload d1, and a     *)
(* channel to another chain, on which it lets every ICS-20 packet pass.    *)
(***************************************************************************)
EXTENDS AxelarCorkMiddleware

CONSTANTS axelar, other, d1, d2

MCChannels == {axelar, other}
MCData == {d1, d2}
\* d1 pays a user account; d2 pays the cellarfees module account.
MCReceiver == d1 :> <<"account", "user">> @@ d2 :> ModuleAddress("cellarfees")
MCValidSends == {<<axelar, d1>>, <<other, d1>>, <<other, d2>>}
====
