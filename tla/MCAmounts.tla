------------------------------- MODULE MCAmounts -------------------------------
(***************************************************************************)
(* Instances of Amounts for TLC: a channel in a token of 18 decimals and   *)
(* one in a coarser token, whose unit is two quanta, with words of three   *)
(* bits (Half = 4): deposits that fit, that wrap and that are refused.     *)
(***************************************************************************)
EXTENDS Amounts, TLC

MCUnit == [c \in Channels |-> IF c = "fine" THEN 1 ELSE 2]

\* Allocating a unit, withdrawing one, depositing while one is taken back,
\* depositing a whole word, and withdrawing while so much is allocated that no
\* row can hold it.
MCResizes == {<<0, 1>>, <<-1, 0>>, <<2, -1>>, <<8, 0>>, <<-1, 3>>}
===============================================================================
