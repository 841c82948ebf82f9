-------------------------------- MODULE Ledger --------------------------------
(***************************************************************************)
(* The double-entry ledger of the clearnode (ledger.go).                   *)
(*                                                                         *)
(* The table `ledger` is append only; the program reads it only through    *)
(* sums of credits minus debits, so the model keeps, for every key the     *)
(* queries group by, that sum.  A key is an account id (a participant's    *)
(* unified account is named by the address itself, an app session's        *)
(* account by the session id), the participant column and the asset.       *)
(* Amounts are integers in the smallest unit the table stores.             *)
(***************************************************************************)
EXTENDS Integers, FiniteSets, Functions

CONSTANTS
    Addresses,      \* address strings, as the ledger and the sessions store them
    SessionIds,     \* app session ids (hashes of app definitions)
    Assets          \* asset symbols

\* A session id is a 32-byte hash and an address has 20 bytes.
ASSUME AccountsDisjoint == Addresses \cap SessionIds = {}
ASSUME FinitelyManyAddresses == IsFiniteSet(Addresses)

AccountIds == Addresses \cup SessionIds

Keys == AccountIds \X Addresses \X Assets

\* The key of a participant's unified account.
Unified(p, a) == <<p, p, a>>

\* The key of participant p's share of the account of session s.
Escrow(s, p, a) == <<s, p, a>>

Ledgers == [Keys -> Int]

EmptyLedger == [k \in Keys |-> 0]

\* One inserted row: a credit for a positive amount, a debit for a negative
\* one, no row for zero.
Record(entries, k, amount) == [entries EXCEPT ![k] = @ + amount]

\* The sum a transaction reads: committed rows and the rows it inserted itself.
Balance(committed, own, k) == committed[k] + own[k]

\* The rows of a transaction become visible to others all at once.
Apply(committed, own) == [k \in Keys |-> committed[k] + own[k]]

\* Everything the ledger holds of one asset, over all accounts.
Total(entries, a) == SumFunctionOnSet(entries, AccountIds \X Addresses \X {a})
===============================================================================
