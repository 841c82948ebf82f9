----------------------------- MODULE MCConnections -----------------------------
(***************************************************************************)
(* Instances of Connections for TLC: Alice and Bob take part in the app    *)
(* session; both connections are of Alice, or the second one of Bob.       *)
(***************************************************************************)
EXTENDS Connections

CONSTANTS
    c1, c2, alice, bob,
    First, Second,      \* bounds on the messages of c1 and of c2
    Events              \* bound on the events of a listener

MCKeysOf == [c \in Conns |-> IF c = c1 THEN {alice} ELSE {alice, bob}]

MCMembers == <<alice, bob>>

MCMaxServed == [g \in Goroutines |->
    CASE g = c1 -> First [] g = c2 -> Second [] OTHER -> Events]
===============================================================================
