------------------------------- MODULE AppEscrow -------------------------------
(***************************************************************************)
(* What app sessions promise (docs/Clearnode.protocol.md, "Creating" and   *)
(* "Closing a Virtual Application"): a wallet per participant and asset, a *)
(* pot per session that is filled once out of the wallets of participants  *)
(* that signed, and paid out once, in full, to wallets.                    *)
(*                                                                         *)
(* AppSession implements this for serial transactions and plain requests.  *)
(* The new values of wallets and pots are constrained, not computed: the   *)
(* module is a property to check, not a specification to execute.          *)
(***************************************************************************)
EXTENDS Integers, Functions

CONSTANTS Addresses, SessionIds, Assets

VARIABLES
    wallet,     \* funds of each address in each asset
    pot,        \* funds of each session, by the participant that brought them
    status      \* "none", "open" or "closed"

vars == <<wallet, pot, status>>

Purses == Addresses \X Assets

Empty == [k \in Purses |-> 0]

OfAsset(purse, a) == SumFunctionOnSet([p \in Addresses |-> purse[<<p, a>>]], Addresses)

Init ==
    /\ wallet = Empty
    /\ pot = [s \in SessionIds |-> Empty]
    /\ status = [s \in SessionIds |-> "none"]

\* An event of a custody contract changes one wallet.  Closing a channel can
\* take out of it what a session holds, so the wallet may be overdrawn.
CustodyEntry ==
    /\ \E k \in Purses : wallet' = [wallet EXCEPT ![k] = wallet'[k]]
    /\ UNCHANGED <<pot, status>>

\* The pot receives exactly what leaves the wallets, and no wallet gives more
\* than it holds.
FundPot(s) ==
    /\ status[s] = "none" /\ status' = [status EXCEPT ![s] = "open"]
    /\ pot' = [pot EXCEPT ![s] = pot'[s]]
    /\ \A k \in Purses :
          /\ pot'[s][k] >= 0
          /\ pot'[s][k] > 0 => pot'[s][k] <= wallet[k]
          /\ wallet'[k] = wallet[k] - pot'[s][k]

\* The pot is emptied and the wallets receive all of it, asset by asset.
PayOut(s) ==
    /\ status[s] = "open" /\ status' = [status EXCEPT ![s] = "closed"]
    /\ pot' = [pot EXCEPT ![s] = Empty]
    /\ \A k \in Purses : wallet'[k] >= wallet[k]
    /\ \A a \in Assets :
          OfAsset(wallet', a) - OfAsset(wallet, a) = OfAsset(pot[s], a)

Next == CustodyEntry \/ \E s \in SessionIds : FundPot(s) \/ PayOut(s)

Spec == Init /\ [][Next]_vars
===============================================================================
