------------------------------- MODULE MCCustody -------------------------------
(***************************************************************************)
(* Instances of Custody for TLC: channels a and b of alice on two chains,  *)
(* a2 a second one of hers on a's chain, c a channel of carol, x one with  *)
(* another counterparty.                                                   *)
(***************************************************************************)
EXTENDS Custody, TLC

MCOwner == [k \in Channels |-> IF k = "c" THEN "carol" ELSE "alice"]
MCChain == [k \in Channels |-> IF k \in {"b", "c"} THEN "celo" ELSE "polygon"]
MCBroker == Channels \ {"x"}
NoResizes == {}
Withdrawals == {<<-1, 0>>}
\* Deposits and withdrawals without allocations.
PlainResizes == {<<1, 0>>, <<-1, 0>>}
\* Allocations, alone and with a withdrawal of all.
Allocations == {<<0, 1>>}
AllocateAndWithdraw == {<<-2, 1>>}
MixedResizes == {<<1, 0>>, <<-1, 1>>}
===============================================================================
