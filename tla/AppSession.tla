------------------------------ MODULE AppSession ------------------------------
(***************************************************************************)
(* App sessions: HandleCreateApplication and HandleCloseApplication        *)
(* (handlers.go) at the granularity of the SQL statements they issue.      *)
(*                                                                         *)
(* Every authenticated connection has a goroutine that runs one handler at *)
(* a time (ws.go); each handler is one database transaction.  Under        *)
(* PostgreSQL the transaction runs at the default isolation, READ          *)
(* COMMITTED: a SELECT sees the rows committed when it starts and the      *)
(* transaction's own, an INSERT of a taken session id and an UPDATE of a   *)
(* row another transaction has updated wait for that transaction to end.   *)
(* Under SQLite (shared cache) a transaction that wrote never overlaps     *)
(* another one that commits: a conflicting statement fails and its         *)
(* transaction rolls back, so committed transactions are serial.           *)
(*                                                                         *)
(* Inserted ledger rows are invisible outside their transaction and never  *)
(* conflict, so a SELECT and the INSERTs that follow it form one step.     *)
(***************************************************************************)
EXTENDS Ledger, Sequences, Folds

CONSTANTS
    Workers,            \* connection goroutines
    Driver,             \* the database driver, "postgres" or "sqlite"
    Lower,              \* [Addresses -> lower-case form], strings.ToLower
    Definition,         \* [SessionIds -> app definition]; the id is its hash
    DefaultQuorum,      \* what gorm stores for quorum 0 (`default:100`)
    CreateRequests,     \* create_app_session requests clients may send
    CloseRequests,      \* close_app_session requests clients may send
    CustodyAmounts,     \* what a custody event may add to a unified account
    MaxFunds,           \* bound on a unified account, for model checking
    NoRequest           \* an idle worker's request

Rows == [participant : Addresses, asset : Assets, amount : Int]

AppDefinitions ==
    [participants : Seq(Addresses), weights : Seq(Int), quorum : Int]

ASSUME DriverKnown == Driver \in {"postgres", "sqlite"}
ASSUME DefinitionType == Definition \in [SessionIds -> AppDefinitions]
ASSUME CreateRequestsType ==
    CreateRequests \subseteq [session : SessionIds, rows : Seq(Rows), signers : SUBSET Addresses]
ASSUME CloseRequestsType ==
    CloseRequests \subseteq [session : SessionIds, rows : Seq(Rows), sigs : Seq(Addresses)]
ASSUME CustodyAmountsType == CustodyAmounts \subseteq Int /\ MaxFunds \in Int
ASSUME NoRequestDistinct == NoRequest \notin CreateRequests \cup CloseRequests

VARIABLES
    ledger,             \* committed ledger sums
    sessions,           \* committed status of each session id, "none" if no row
    tx                  \* the transaction of each worker

vars == <<ledger, sessions, tx>>

(***************************************************************************)
(* A transaction: its handler's next statement (pc), the request, the next *)
(* allocation row, the sums of the ledger rows it inserted, and the local  *)
(* maps of the close handler: the balances still to read, and what they    *)
(* and the allocations add up to for each asset.                           *)
(***************************************************************************)
Statements == {"idle", "create", "inserted", "sum", "updated"}

Closing == {"sum", "updated"}
Creating == {"create", "inserted"}

NoFunds == [a \in Assets |-> 0]

Idle == [pc |-> "idle", req |-> NoRequest, row |-> 1, own |-> EmptyLedger,
         todo |-> {}, funds |-> NoFunds, allocated |-> NoFunds]

Transactions ==
    [pc : Statements, req : CreateRequests \cup CloseRequests \cup {NoRequest},
     row : Nat \ {0}, own : Ledgers, todo : SUBSET (Nat \X Assets),
     funds : [Assets -> Int], allocated : [Assets -> Int]]

Init ==
    /\ ledger = EmptyLedger
    /\ sessions = [s \in SessionIds |-> "none"]
    /\ tx = [w \in Workers |-> Idle]

-------------------------------------------------------------------------------
\* Request data.

Participants(s) == Definition[s].participants

\* gorm replaces a zero quorum by the column default.
Quorum(s) == IF Definition[s].quorum = 0 THEN DefaultQuorum ELSE Definition[s].quorum

LowerSet(seq) == {Lower[seq[i]] : i \in DOMAIN seq}

AssetsOf(rows) == {rows[i].asset : i \in DOMAIN rows}

\* The handler's checks of the request's shape, before any statement.
WellFormedCreate(r) ==
    LET n == Len(Participants(r.session))
    IN  n >= 2 /\ Len(r.rows) = n /\ Len(Definition[r.session].weights) = n

WellFormedClose(r) ==
    /\ r.rows # <<>>
    /\ \A i \in DOMAIN r.rows : r.rows[i].amount >= 0

\* The weight of a signer: the map of weights keeps the last of equal keys.
WeightOf(s, low) ==
    LET named == {i \in DOMAIN Participants(s) : Lower[Participants(s)[i]] = low}
        last == CHOOSE i \in named : \A j \in named : j <= i
    IN  Definition[s].weights[last]

TotalWeight(s, lows) ==
    MapThenFoldSet(+, 0, LAMBDA low : WeightOf(s, low),
                   LAMBDA S : CHOOSE x \in S : TRUE, lows)

\* Distinct signers, all participants with positive weight, reaching the quorum.
Authorised(s, sigs) ==
    /\ \A i, j \in DOMAIN sigs : Lower[sigs[i]] = Lower[sigs[j]] => i = j
    /\ LowerSet(sigs) \subseteq LowerSet(Participants(s))
    /\ \A low \in LowerSet(sigs) : WeightOf(s, low) > 0
    /\ TotalWeight(s, LowerSet(sigs)) >= Quorum(s)

-------------------------------------------------------------------------------
\* Isolation.

\* SQLite: no other transaction is in flight.
MayBegin == Driver = "sqlite" => \A v \in Workers : tx[v].pc = "idle"

\* No other transaction holds the row of session s (inserted or updated it).
RowFree(w, s) ==
    \A v \in Workers \ {w} :
        tx[v].pc \in {"inserted", "updated"} => tx[v].req.session # s

Visible(w, k) == Balance(ledger, tx[w].own, k)

-------------------------------------------------------------------------------
\* create_app_session.

\* Mutant: a signature of anybody is enough for a row.
SignedForAny(w, row) == row.amount > 0 => tx[w].req.signers # {}

\* A row that is not zero needs the signature of the participant it names.
SignedFor(w, row) == row.amount > 0 => row.participant \in tx[w].req.signers

\* Mutant: the balance is read outside the transaction.
SufficientCommitted(w, row) ==
    row.amount <= ledger[Unified(row.participant, row.asset)]

SufficientFunds(w, row) ==
    row.amount <= Visible(w, Unified(row.participant, row.asset))

\* A row of the allocations moves to the session's account.
Fund(own, s, row) ==
    Record(Record(own, Unified(row.participant, row.asset), -row.amount),
           Escrow(s, row.participant, row.asset), row.amount)

BeginCreate(w, r) ==
    /\ tx[w].pc = "idle" /\ MayBegin
    /\ WellFormedCreate(r)
    /\ tx' = [tx EXCEPT ![w] = [Idle EXCEPT !.pc = "create", !.req = r]]
    /\ UNCHANGED <<ledger, sessions>>

CreateRow(w) ==
    LET t == tx[w]
        row == t.req.rows[t.row]
    IN  /\ t.pc = "create" /\ t.row <= Len(t.req.rows)
        /\ row.amount >= 0
        /\ SignedFor(w, row)
        /\ SufficientFunds(w, row)
        /\ tx' = [tx EXCEPT ![w].own = Fund(@, t.req.session, row), ![w].row = @ + 1]
        /\ UNCHANGED <<ledger, sessions>>

\* Mutant: no unique index.
InsertAnySession(w) ==
    LET t == tx[w]
    IN  /\ t.pc = "create" /\ t.row > Len(t.req.rows)
        /\ tx' = [tx EXCEPT ![w].pc = "inserted"]
        /\ UNCHANGED <<ledger, sessions>>

\* The unique index on session_id: a committed row makes the INSERT fail, an
\* uncommitted one makes it wait.
InsertSession(w) ==
    LET t == tx[w]
    IN  /\ t.pc = "create" /\ t.row > Len(t.req.rows)
        /\ sessions[t.req.session] = "none"
        /\ RowFree(w, t.req.session)
        /\ tx' = [tx EXCEPT ![w].pc = "inserted"]
        /\ UNCHANGED <<ledger, sessions>>

\* Mutant: the status a channel starts with.
CommitJoining(w) ==
    /\ tx[w].pc = "inserted"
    /\ ledger' = Apply(ledger, tx[w].own)
    /\ sessions' = [sessions EXCEPT ![tx[w].req.session] = "joining"]
    /\ tx' = [tx EXCEPT ![w] = Idle]

CommitCreate(w) ==
    /\ tx[w].pc = "inserted"
    /\ ledger' = Apply(ledger, tx[w].own)
    /\ sessions' = [sessions EXCEPT ![tx[w].req.session] = "open"]
    /\ tx' = [tx EXCEPT ![w] = Idle]

-------------------------------------------------------------------------------
\* close_app_session.

\* The balances the handler adds up: every participant's, for the request's assets.
BalancesToSum(r) == (DOMAIN Participants(r.session)) \X AssetsOf(r.rows)

\* Mutant: signatures are not weighed.
BeginUnweighedClose(w, r) ==
    /\ tx[w].pc = "idle" /\ MayBegin
    /\ WellFormedClose(r)
    /\ sessions[r.session] = "open"
    /\ tx' = [tx EXCEPT ![w] = [Idle EXCEPT !.pc = "sum", !.req = r,
                                            !.todo = BalancesToSum(r)]]
    /\ UNCHANGED <<ledger, sessions>>

BeginClose(w, r) ==
    /\ tx[w].pc = "idle" /\ MayBegin
    /\ WellFormedClose(r)
    /\ sessions[r.session] = "open"
    /\ Authorised(r.session, r.sigs)
    /\ tx' = [tx EXCEPT ![w] = [Idle EXCEPT !.pc = "sum", !.req = r,
                                            !.todo = BalancesToSum(r)]]
    /\ UNCHANGED <<ledger, sessions>>

\* Participants in their order, the assets of each in any (a Go map's) order.
SumBalance(w, i, a) ==
    LET t == tx[w]
        k == Escrow(t.req.session, Participants(t.req.session)[i], a)
    IN  /\ t.pc = "sum"
        /\ \A x \in t.todo : i <= x[1]
        /\ tx' = [tx EXCEPT ![w].todo = @ \ {<<i, a>>},
                            ![w].funds[a] = @ + Visible(w, k)]
        /\ UNCHANGED <<ledger, sessions>>

\* The participant is in the session and in no earlier row.
Placeable(w, row) ==
    LET t == tx[w]
    IN  /\ Lower[row.participant] \in LowerSet(Participants(t.req.session))
        /\ \A i \in 1..(t.row - 1) :
               Lower[t.req.rows[i].participant] # Lower[row.participant]

\* Mutant: the allocation is debited instead of the share.
SettleAllocation(own, s, row, share) ==
    Record(Record(own, Escrow(s, row.participant, row.asset), -row.amount),
           Unified(row.participant, row.asset), row.amount)

\* The participant's share is debited, the allocation is credited.
Settle(own, s, row, share) ==
    Record(Record(own, Escrow(s, row.participant, row.asset), -share),
           Unified(row.participant, row.asset), row.amount)

DistributeRow(w) ==
    LET t == tx[w]
        row == t.req.rows[t.row]
        share == Visible(w, Escrow(t.req.session, row.participant, row.asset))
    IN  /\ t.pc = "sum" /\ t.todo = {} /\ t.row <= Len(t.req.rows)
        /\ Placeable(w, row)
        /\ tx' = [tx EXCEPT ![w].own = Settle(@, t.req.session, row, share),
                            ![w].allocated[row.asset] = @ + row.amount,
                            ![w].row = @ + 1]
        /\ UNCHANGED <<ledger, sessions>>

\* Mutant: allocations may exceed the funds.
EveryoneHasRow(w) == Len(tx[w].req.rows) = Len(Participants(tx[w].req.session))

\* Mutant: participants without a row get nothing.
FundsExhausted(w) == \A a \in AssetsOf(tx[w].req.rows) : tx[w].funds[a] = tx[w].allocated[a]

\* Every participant has a row, and each asset's allocations exhaust its funds.
FullyRedistributed(w) ==
    LET t == tx[w]
    IN  /\ Len(t.req.rows) = Len(Participants(t.req.session))
        /\ \A a \in AssetsOf(t.req.rows) : t.funds[a] = t.allocated[a]

\* UPDATE ... WHERE id = <key of the row read by BeginClose>: not its status.
UpdateSession(w) ==
    LET t == tx[w]
    IN  /\ t.pc = "sum" /\ t.todo = {} /\ t.row > Len(t.req.rows)
        /\ FullyRedistributed(w)
        /\ RowFree(w, t.req.session)
        /\ tx' = [tx EXCEPT ![w].pc = "updated"]
        /\ UNCHANGED <<ledger, sessions>>

\* Mutant: the funds are paid out and the session stays open.
CommitPayout(w) ==
    /\ tx[w].pc = "updated"
    /\ ledger' = Apply(ledger, tx[w].own)
    /\ tx' = [tx EXCEPT ![w] = Idle]
    /\ UNCHANGED sessions

CommitClose(w) ==
    /\ tx[w].pc = "updated"
    /\ ledger' = Apply(ledger, tx[w].own)
    /\ sessions' = [sessions EXCEPT ![tx[w].req.session] = "closed"]
    /\ tx' = [tx EXCEPT ![w] = Idle]

-------------------------------------------------------------------------------
\* A check fails, a statement fails, or the process stops: nothing is kept.
Rollback(w) ==
    /\ tx[w].pc # "idle"
    /\ tx' = [tx EXCEPT ![w] = Idle]
    /\ UNCHANGED <<ledger, sessions>>

\* A custody event handler's transaction: one row on a unified account.
CustodyEntry(p, a, n) ==
    /\ MayBegin
    /\ ledger[Unified(p, a)] + n \in (-MaxFunds)..MaxFunds
    /\ ledger' = Record(ledger, Unified(p, a), n)
    /\ UNCHANGED <<sessions, tx>>

Next ==
    \/ \E w \in Workers :
        \/ \E r \in CreateRequests : BeginCreate(w, r)
        \/ CreateRow(w)
        \/ InsertSession(w)
        \/ CommitCreate(w)
        \/ \E r \in CloseRequests : BeginClose(w, r)
        \/ \E x \in tx[w].todo : SumBalance(w, x[1], x[2])
        \/ DistributeRow(w)
        \/ UpdateSession(w)
        \/ CommitClose(w)
        \/ Rollback(w)
    \/ \E p \in Addresses, a \in Assets, n \in CustodyAmounts : CustodyEntry(p, a, n)

Spec == Init /\ [][Next]_vars

-------------------------------------------------------------------------------
\* Properties.

TypeOK ==
    /\ ledger \in Ledgers
    /\ sessions \in [SessionIds -> {"none", "open", "closed"}]
    /\ tx \in [Workers -> Transactions]

CustodyStep == UNCHANGED <<sessions, tx>>

\* A unified account loses funds only to a custody event or when a create
\* request commits that its owner signed (handlers.go, HandleCreateApplication),
\* however transactions overlap.
DebitAuthorised ==
    [][\A p \in Addresses, a \in Assets :
          ledger'[Unified(p, a)] < ledger[Unified(p, a)] =>
             \/ CustodyStep
             \/ \E w \in Workers : /\ tx[w].pc = "inserted" /\ tx'[w] = Idle
                                   /\ p \in tx[w].req.signers]_vars

\* An app session's account loses funds only in the step that closes it on a
\* request whose signers carry the quorum (handlers.go, HandleCloseApplication).
EscrowReleaseAuthorised ==
    [][\A s \in SessionIds, p \in Addresses, a \in Assets :
          ledger'[Escrow(s, p, a)] < ledger[Escrow(s, p, a)] =>
             /\ sessions'[s] = "closed"
             /\ \E w \in Workers : /\ tx[w].pc = "updated" /\ tx'[w] = Idle
                                   /\ tx[w].req.session = s
                                   /\ Authorised(s, tx[w].req.sigs)]_vars

\* A session is created once, and a closed one is never opened or created again.
StatusMonotone ==
    [][\A s \in SessionIds :
          sessions'[s] # sessions[s] =>
             <<sessions[s], sessions'[s]>> \in {<<"none", "open">>, <<"open", "closed">>}]_vars

\* The funds of a session do not change while it stays as it is: they come with
\* its creation and go with its closing, and a closed session's are final.
FundsMoveWithStatus ==
    [][\A s \in SessionIds :
          (\E p \in Addresses, a \in Assets :
              ledger'[Escrow(s, p, a)] # ledger[Escrow(s, p, a)])
          => sessions'[s] # sessions[s]]_vars

\* The same for sessions that stay open: overlapping transactions cannot fund
\* or pay out an open session without closing it.
OpenFundsFrozen ==
    [][\A s \in SessionIds :
          sessions[s] = "open" /\ sessions'[s] = "open" =>
             \A p \in Addresses, a \in Assets :
                ledger'[Escrow(s, p, a)] = ledger[Escrow(s, p, a)]]_vars

\* No participant spends funds it does not have: "All participants have
\* sufficient funds" (docs/Clearnode.protocol.md:20).
NoOverdraft ==
    \A p \in Addresses, a \in Assets : ledger[Unified(p, a)] >= 0

\* No app session pays out more than a participant's share of it.
EscrowNonNegative ==
    \A s \in SessionIds, p \in Addresses, a \in Assets : ledger[Escrow(s, p, a)] >= 0

\* A definition that some close request can satisfy: its participants are
\* distinct, and some of them, with positive weights, carry the stored quorum.
Redeemable(s) ==
    /\ \A i, j \in DOMAIN Participants(s) :
           Lower[Participants(s)[i]] = Lower[Participants(s)[j]] => i = j
    /\ \E lows \in SUBSET LowerSet(Participants(s)) :
           /\ \A low \in lows : WeightOf(s, low) > 0
           /\ TotalWeight(s, lows) >= Quorum(s)

\* Only such a session is ever closed.  create_app_session takes any definition
\* (handlers.go, HandleCreateApplication): the funds of another one stay locked.
OnlyRedeemableClose ==
    \A s \in SessionIds : sessions[s] = "closed" => Redeemable(s)

\* Only custody events change what the ledger holds in all: creating and
\* closing sessions moves funds and neither makes nor loses any.
Conservation ==
    [][CustodyStep \/ \A a \in Assets : Total(ledger', a) = Total(ledger, a)]_vars

\* Closing drains a session: nothing is left in a closed session's account.
ClosedSessionsEmpty ==
    \A s \in SessionIds : sessions[s] = "closed" =>
        \A p \in Addresses, a \in Assets : ledger[Escrow(s, p, a)] = 0

-------------------------------------------------------------------------------
\* The abstract promise, with unified accounts as wallets and the sessions'
\* accounts as pots.
Escrows == INSTANCE AppEscrow WITH
    wallet <- [k \in Addresses \X Assets |-> ledger[Unified(k[1], k[2])]],
    pot <- [s \in SessionIds |->
               [k \in Addresses \X Assets |-> ledger[Escrow(s, k[1], k[2])]]],
    status <- sessions

\* Creating a session fills its pot out of its signers' wallets and closing it
\* pays all of it out, each in one step (docs/Clearnode.protocol.md:17-38).
Promise == Escrows!Spec

-------------------------------------------------------------------------------
\* For which requests the handlers keep it.

OneAsset(s, a) ==
    \A r \in CreateRequests \cup CloseRequests :
        r.session = s => \A i \in DOMAIN r.rows : r.rows[i].asset = a

Members(s) == Range(Participants(s))

\* The requests about one session name one asset; those that create a session
\* which can be closed have rows for its participants only, and those that close
\* it spell a participant as its definition does.  The handlers check none of
\* it (MCAppSession_left_asset.cfg, MCAppSession_crossed_assets.cfg,
\* MCAppSession_stranger.cfg and MCAppSession_spelling.cfg show what follows).
PlainRequests ==
    /\ \A s \in SessionIds : \E a \in Assets : OneAsset(s, a)
    /\ \A r \in CreateRequests : Redeemable(r.session) =>
           \A i \in DOMAIN r.rows : r.rows[i].participant \in Members(r.session)
    /\ \A r \in CloseRequests : \A i \in DOMAIN r.rows, p \in Members(r.session) :
           Lower[r.rows[i].participant] = Lower[p] => r.rows[i].participant = p
===============================================================================
