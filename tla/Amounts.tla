-------------------------------- MODULE Amounts --------------------------------
(***************************************************************************)
(* The amounts of one participant's channels: what the custody handlers    *)
(* and the channel requests do to numbers (custody.go, handlers.go).       *)
(*                                                                         *)
(* On chain an amount is a whole number of token units, as large as it     *)
(* likes.  A row of `channels` holds it as a BIGINT: events are narrowed   *)
(* to 64 bits and what then has the highest bit set cannot be saved, which *)
(* drops the event.  The ledger holds decimals, here counted in quanta: a  *)
(* unit of a token is Unit[c] = 10^(18 - decimals) of them.  App sessions  *)
(* move any number of quanta, a close pays whole units.                    *)
(*                                                                         *)
(* Custody has the interleavings; here an event is handled before the next *)
(* one happens, and a request reads its row and the balance at once.       *)
(***************************************************************************)
EXTENDS Integers, FiniteSets, Functions

CONSTANTS
    Channels,           \* of the participant with the broker, each on its own chain
    Unit,               \* [Channels -> quanta in a unit of the channel's token]
    Half,               \* 2^63, in units
    Deposits,           \* amounts a channel may be created with
    Resizes,            \* <<resize_amount, allocate_amount>> of requests
    Bets,               \* quanta app sessions lock and pay
    Others,             \* quanta other participants have in app sessions
    MaxVersion,         \* bound on a channel's version
    MaxSigned,          \* bound on states the participant holds
    None

ASSUME FinitelyMany == IsFiniteSet(Channels)
ASSUME UnitsType == Unit \in [Channels -> Nat \ {0}] /\ Half \in Nat \ {0}
ASSUME AmountsType == Deposits \subseteq Nat /\ Resizes \subseteq Int \X Int
ASSUME BetsType == Bets \subseteq Nat /\ Others \in Nat
ASSUME BoundsType == MaxVersion \in Nat /\ MaxSigned \in Nat

Events == [kind : {"Created", "Joined", "Resized", "Closed"}, channel : Channels,
           deltas : Int \X Int]

ASSUME NoneIsNoEvent == None \notin Events

VARIABLES
    contract,           \* the contracts' view of each channel
    pending,            \* the event that is not handled, or None
    rows,               \* the table `channels`
    signed,             \* states signed by the broker and still acceptable
    balance,            \* the participant's unified balance, in quanta
    pool,               \* quanta in app sessions
    wallet,             \* quanta taken out of the contracts, less deposits
    allocated           \* quanta allocated to channels, for Backed

vars == <<contract, pending, rows, signed, balance, pool, wallet, allocated>>

Word == 2 * Half

\* uint64(x.Int64()): the low bits, of a negative number as well.
LowBits(n) == n % Word

\* Mutant: the column is as wide as the field.
Fits(n) == n < Word

\* What a BIGINT column takes of a uint64.
Storable(n) == n < Half

Init ==
    /\ contract = [c \in Channels |-> [status |-> "void", amount |-> 0, version |-> 0]]
    /\ pending = None
    /\ rows = [c \in Channels |-> [status |-> "none", amount |-> 0, version |-> 0]]
    /\ signed = {}
    /\ balance = 0 /\ pool = Others /\ wallet = 0 /\ allocated = 0

-------------------------------------------------------------------------------
\* The contracts.

Event(kind, c, deltas) == [kind |-> kind, channel |-> c, deltas |-> deltas]

OnCreate(c, amount) ==
    /\ pending = None /\ contract[c].status = "void"
    /\ contract' = [contract EXCEPT ![c].status = "initial", ![c].amount = amount]
    /\ pending' = Event("Created", c, <<amount, 0>>)
    /\ wallet' = wallet - amount * Unit[c]
    /\ UNCHANGED <<rows, signed, balance, pool, allocated>>

\* The join that HandleCreated sent.
MineJoin(c) ==
    /\ pending = None /\ contract[c].status = "initial" /\ rows[c].status = "joining"
    /\ contract' = [contract EXCEPT ![c].status = "active"]
    /\ pending' = Event("Joined", c, <<0, 0>>)
    /\ UNCHANGED <<rows, signed, balance, pool, wallet, allocated>>

Acceptable(s, on) == on.status = "active" /\ s.version > on.version

StillAcceptable(c, on) == {s \in signed : s.channel = c => Acceptable(s, on)}

SubmitResize(s) ==
    LET c == s.channel
        on == [contract[c] EXCEPT !.amount = s.amount, !.version = s.version]
    IN  /\ s \in signed /\ ~s.close /\ pending = None
        /\ Acceptable(s, contract[c]) /\ s.version <= MaxVersion
        /\ s.amount = contract[c].amount + s.deltas[1] + s.deltas[2]
        /\ contract' = [contract EXCEPT ![c] = on]
        /\ pending' = Event("Resized", c, s.deltas)
        /\ wallet' = wallet - s.deltas[1] * Unit[c]
        /\ signed' = StillAcceptable(c, on)
        /\ UNCHANGED <<rows, balance, pool, allocated>>

SubmitClose(s) ==
    LET c == s.channel
        on == [status |-> "final", amount |-> 0, version |-> s.version]
    IN  /\ s \in signed /\ s.close /\ pending = None
        /\ Acceptable(s, contract[c])
        /\ s.amount + s.broker = contract[c].amount
        /\ contract' = [contract EXCEPT ![c] = on]
        /\ pending' = Event("Closed", c, <<0, 0>>)
        /\ wallet' = wallet + s.amount * Unit[c]
        /\ signed' = StillAcceptable(c, on)
        /\ UNCHANGED <<rows, balance, pool, allocated>>

-------------------------------------------------------------------------------
\* The event handlers.

Handles(kind) == pending # None /\ pending.kind = kind /\ pending' = None

HandleCreated ==
    LET c == pending.channel
        amount == LowBits(pending.deltas[1])
    IN  /\ Handles("Created")
        /\ Storable(amount)
        /\ rows' = [rows EXCEPT ![c] = [status |-> "joining", amount |-> amount, version |-> 0]]
        /\ UNCHANGED <<contract, signed, balance, pool, wallet, allocated>>

\* Mutant: joining bumps the version, as resizing and closing do.
JoinedBumpsVersion ==
    LET c == pending.channel
    IN  /\ Handles("Joined")
        /\ rows' = [rows EXCEPT ![c].status = "open", ![c].version = @ + 1]
        /\ balance' = balance + rows[c].amount * Unit[c]
        /\ UNCHANGED <<contract, signed, pool, wallet, allocated>>

HandleJoined ==
    LET c == pending.channel
    IN  /\ Handles("Joined")
        /\ rows' = [rows EXCEPT ![c].status = "open"]
        /\ balance' = balance + rows[c].amount * Unit[c]
        /\ UNCHANGED <<contract, signed, pool, wallet, allocated>>

\* The rows after a resize.
Resized(c, amount) == [rows EXCEPT ![c].amount = amount, ![c].version = @ + 1]

\* Mutant: only the participant's change counts.
ChangeOnly(c, deltas) == LowBits(rows[c].amount + LowBits(deltas[1]))

\* int64 arithmetic on the row's amount and both changes.
NewAmount(c, deltas) == LowBits(rows[c].amount + LowBits(deltas[1]) + LowBits(deltas[2]))

\* Mutant: withdrawals are not recorded.
ResizedRecordsDeposits ==
    LET c == pending.channel
        d == pending.deltas
        amount == NewAmount(c, d)
    IN  /\ Handles("Resized")
        /\ Storable(amount)
        /\ rows' = Resized(c, amount)
        /\ balance' = balance + (IF d[1] > 0 THEN d[1] ELSE 0) * Unit[c]
        /\ allocated' = allocated + d[2] * Unit[c]
        /\ UNCHANGED <<contract, signed, pool, wallet>>

\* The row gets what is left of both changes, the ledger all of the first one.
HandleResized ==
    LET c == pending.channel
        d == pending.deltas
        amount == NewAmount(c, d)
    IN  /\ Handles("Resized")
        /\ Storable(amount)
        /\ rows' = Resized(c, amount)
        /\ balance' = balance + d[1] * Unit[c]
        /\ allocated' = allocated + d[2] * Unit[c]
        /\ UNCHANGED <<contract, signed, pool, wallet>>

\* The column does not take the amount: the handler logs the error and returns.
DropEvent ==
    /\ \/ Handles("Created") /\ ~Storable(LowBits(pending.deltas[1]))
       \/ Handles("Resized") /\ ~Storable(NewAmount(pending.channel, pending.deltas))
    /\ UNCHANGED <<contract, rows, signed, balance, pool, wallet, allocated>>

\* Mutant: the debit is in units of the ledger.
ClosedDebitsQuanta ==
    LET c == pending.channel
    IN  /\ Handles("Closed")
        /\ rows' = [rows EXCEPT ![c] = [status |-> "closed", amount |-> 0, version |-> @.version + 1]]
        /\ balance' = balance - rows[c].amount
        /\ UNCHANGED <<contract, signed, pool, wallet, allocated>>

HandleClosed ==
    LET c == pending.channel
    IN  /\ Handles("Closed")
        /\ rows' = [rows EXCEPT ![c] = [status |-> "closed", amount |-> 0, version |-> @.version + 1]]
        /\ balance' = balance - rows[c].amount * Unit[c]
        /\ UNCHANGED <<contract, signed, pool, wallet, allocated>>

-------------------------------------------------------------------------------
\* Channel requests.

\* The balance in units of the channel's token, truncated towards zero.
RawBalance(c) ==
    IF balance >= 0 THEN balance \div Unit[c] ELSE -((-balance) \div Unit[c])

Sign(s) ==
    /\ signed' = IF Acceptable(s, contract[s.channel])
                    \/ (contract[s.channel].status = "initial" /\ s.version > 0)
                 THEN signed \cup {s} ELSE signed
    /\ UNCHANGED <<contract, pending, rows, balance, pool, wallet, allocated>>

SignResize(c, r) ==
    LET amount == rows[c].amount + r[2]
    IN  /\ rows[c].status # "none" /\ Cardinality(signed) < MaxSigned
        /\ RawBalance(c) >= amount
        /\ amount + r[1] >= 0
        /\ Sign([channel |-> c, close |-> FALSE, version |-> rows[c].version + 1,
                 amount |-> amount + r[1], broker |-> 0, deltas |-> r])

SignClose(c) ==
    LET amount == RawBalance(c)
    IN  /\ rows[c].status # "none" /\ Cardinality(signed) < MaxSigned
        /\ balance >= 0 /\ amount <= rows[c].amount
        /\ Sign([channel |-> c, close |-> TRUE, version |-> rows[c].version + 1,
                 amount |-> amount, broker |-> rows[c].amount - amount, deltas |-> <<0, 0>>])

-------------------------------------------------------------------------------
\* App sessions, as what their commits do to the balance.

LockFunds(n) ==
    /\ 0 < n /\ n <= balance
    /\ balance' = balance - n /\ pool' = pool + n
    /\ UNCHANGED <<contract, pending, rows, signed, wallet, allocated>>

PayOut(n) ==
    /\ 0 < n /\ n <= pool
    /\ balance' = balance + n /\ pool' = pool - n
    /\ UNCHANGED <<contract, pending, rows, signed, wallet, allocated>>

Handle == HandleCreated \/ HandleJoined \/ HandleResized \/ HandleClosed \/ DropEvent

Next ==
    \/ \E c \in Channels :
        \/ \E amount \in Deposits : OnCreate(c, amount)
        \/ MineJoin(c)
        \/ \E r \in Resizes : SignResize(c, r)
        \/ SignClose(c)
    \/ \E s \in signed : SubmitResize(s) \/ SubmitClose(s)
    \/ Handle
    \/ \E n \in Bets : LockFunds(n) \/ PayOut(n)

Spec == Init /\ [][Next]_vars

-------------------------------------------------------------------------------
\* Properties.

TypeOK ==
    /\ contract \in [Channels -> [status : {"void", "initial", "active", "final"},
                                  amount : Nat, version : Nat]]
    /\ pending \in Events \cup {None}
    /\ rows \in [Channels -> [status : {"none", "joining", "open", "closed"},
                              amount : 0..(Half - 1), version : Nat]]
    /\ signed \subseteq [channel : Channels, close : BOOLEAN, version : Nat, amount : Nat,
                         broker : Nat, deltas : Int \X Int]
    /\ balance \in Int /\ pool \in Nat /\ wallet \in Int /\ allocated \in Int

\* No event of channel c waits to be handled.
Settled(c) == pending = None \/ pending.channel # c

\* The handlers dropped an event of channel c.
Missed(c) ==
    /\ Settled(c)
    /\ \/ contract[c].status # "void" /\ rows[c].status = "none"
       \/ rows[c].version # contract[c].version

\* Unless an event was dropped, a row has the low bits of what its contract
\* holds, after any number of resizes (custody.go:136, 158, 309-314).
RowsAreLowBits ==
    \A c \in Channels :
        Settled(c) /\ ~Missed(c) => rows[c].amount = LowBits(contract[c].amount)

\* A channel that missed an event, or whose row is only part of its amount,
\* never changes again: no state the broker signs for it fits the contract.
AstrayIsFrozen ==
    [][\A c \in Channels :
          /\ contract[c].status = "active" /\ Settled(c)
          /\ rows[c].version # contract[c].version \/ rows[c].amount # contract[c].amount
          => contract'[c] = contract[c]]_vars

Open == {c \in Channels : rows[c].status = "open"}

\* While every row is what its contract holds, balance and app sessions make
\* up the rows to the last quantum, whatever the tokens' decimals.
Backed ==
    (\A c \in Channels : Settled(c) /\ rows[c].status # "joining"
                           /\ rows[c].amount = contract[c].amount) =>
        balance + pool + allocated
            = Others + SumFunctionOnSet([c \in Channels |-> rows[c].amount * Unit[c]], Open)

\* What the participant has in its wallet, balance and app sessions never
\* exceeds what the others put in: units that a close, an allocation or a
\* withdrawal pays out are debited, and a balance below a unit is not paid.
NothingGained == wallet + balance + pool <= Others

\* The same, unless an event was dropped.
GainsOnlyByDrops ==
    pending = None /\ (\A c \in Channels : ~Missed(c)) => NothingGained

\* "These events credit participants' balances" (docs/Clearnode.protocol.md:12):
\* an open channel's row, which is what was credited, is what was deposited.
CreditedInFull ==
    \A c \in Channels :
        rows[c].status = "open" /\ Settled(c) => rows[c].amount = contract[c].amount

\* Nothing is gained by what the handlers drop either.
DropsAreSafe == pending = None => NothingGained
===============================================================================
