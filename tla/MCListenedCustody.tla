--------------------------- MODULE MCListenedCustody ---------------------------
(***************************************************************************)
(* Instances of ListenedCustody for TLC: a channel of alice with the       *)
(* broker, and x with another counterparty.                                *)
(***************************************************************************)
EXTENDS ListenedCustody, TLC

MCOwner == [k \in Channels |-> "alice"]
MCBroker == Channels \ {"x"}
MCResizes == {<<1, 0>>}
===============================================================================
