--------------------------------- MODULE MCAuth ---------------------------------
(***************************************************************************)
(* Instance of Auth for TLC: two connections of alice, who may also hold   *)
(* challenges asked for bob's address.                                     *)
(***************************************************************************)
EXTENDS Auth

MCKeyOf == [c \in Conns |-> "alice"]
===============================================================================
