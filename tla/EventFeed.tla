------------------------------- MODULE EventFeed -------------------------------
(***************************************************************************)
(* What the rest of the clearnode may expect of a chain's event listener   *)
(* (eth_listener.go): while a subscription lives, the contract's events    *)
(* reach the handler one by one, in the order they were sent.  When it     *)
(* ends, the latest of those that wait are lost, or all of them, and those *)
(* sent until there is a new one are never seen.                           *)
(*                                                                         *)
(* EthListener implements this with its buffers and its back-off.          *)
(***************************************************************************)
EXTENDS Sequences, SequencesExt

VARIABLES
    live,       \* whether there is a subscription that receives events
    pending     \* the events it received that no handler has taken

vars == <<live, pending>>

Init == live \in BOOLEAN /\ pending = <<>>

\* A live subscription receives an event.
Receive ==
    /\ live /\ UNCHANGED live
    /\ pending' # <<>> /\ Front(pending') = pending

\* The handler takes the oldest one.
Take ==
    /\ pending # <<>> /\ pending' = Tail(pending)
    /\ UNCHANGED live

\* The subscription ends.
End ==
    /\ live /\ live' = FALSE
    /\ IsPrefix(pending', pending)

\* What an ended subscription left is dropped.
Drop == ~live /\ UNCHANGED live /\ pending' = <<>>

Renew == ~live /\ live' = TRUE /\ pending' = <<>>

Next == Receive \/ Take \/ End \/ Drop \/ Renew

Spec == Init /\ [][Next]_vars
===============================================================================
