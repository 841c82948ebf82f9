--------------------------- MODULE AppSessionProofs ---------------------------
(***************************************************************************)
(* Proofs about AppSession for every value of its constants and both       *)
(* drivers, however transactions overlap: type correctness, who authorised *)
(* a movement of funds, and the life of a session.  What serial            *)
(* transactions add is in AppSessionSerialProofs.                          *)
(***************************************************************************)
EXTENDS AppSession, FiniteSetTheorems, FunctionTheorems, TLAPS

-------------------------------------------------------------------------------
\* Ledger entries.

\* The keys of unified and session accounts are keys, and never the same.
LEMMA AccountKeys ==
    ASSUME NEW p \in Addresses, NEW s \in SessionIds, NEW a \in Assets
    PROVE  /\ Unified(p, a) \in Keys
           /\ Escrow(s, p, a) \in Keys
           /\ \A q \in Addresses, b \in Assets :
                 /\ Unified(q, b) # Escrow(s, p, a)
                 /\ Unified(q, b) = Unified(p, a) => q = p /\ b = a
           /\ \A r \in SessionIds, q \in Addresses, b \in Assets :
                 Escrow(r, q, b) = Escrow(s, p, a) => r = s /\ q = p /\ b = a
BY AccountsDisjoint DEF Unified, Escrow, Keys, AccountIds

LEMMA UnifiedKey ==
    ASSUME NEW p \in Addresses, NEW a \in Assets PROVE Unified(p, a) \in Keys
BY DEF Unified, Keys, AccountIds

\* Inserting a row changes one sum, by the row's amount.
LEMMA RecordEntry ==
    ASSUME NEW e \in Ledgers, NEW k \in Keys, NEW n \in Int
    PROVE  /\ Record(e, k, n) \in Ledgers
           /\ \A j \in Keys : Record(e, k, n)[j] = IF j = k THEN e[j] + n ELSE e[j]
<1>1. e \in [Keys -> Int]
  BY DEF Ledgers
<1>2. [e EXCEPT ![k] = @ + n] \in [Keys -> Int]
  BY <1>1
<1>3. \A j \in Keys : [e EXCEPT ![k] = @ + n][j] = IF j = k THEN e[j] + n ELSE e[j]
  BY <1>1
<1> QED
  BY <1>2, <1>3 DEF Record, Ledgers

\* Committing adds a transaction's sums to the committed ones.
LEMMA ApplyEntries ==
    ASSUME NEW e \in Ledgers, NEW own \in Ledgers
    PROVE  /\ Apply(e, own) \in Ledgers
           /\ \A k \in Keys : Apply(e, own)[k] = e[k] + own[k]
BY DEF Apply, Ledgers

LEMMA EmptyEntries == EmptyLedger \in Ledgers /\ \A k \in Keys : EmptyLedger[k] = 0
BY DEF EmptyLedger, Ledgers

-------------------------------------------------------------------------------
\* Requests.

LEMMA IdleType == Idle \in Transactions
BY EmptyEntries DEF Idle, Transactions, Statements, NoFunds

LEMMA CreateRow_Typed ==
    ASSUME NEW r \in CreateRequests, NEW i \in 1..Len(r.rows)
    PROVE  r.session \in SessionIds /\ r.rows[i] \in Rows
BY CreateRequestsType

LEMMA CloseRow_Typed ==
    ASSUME NEW r \in CloseRequests
    PROVE  /\ r.session \in SessionIds
           /\ r.rows \in Seq(Rows)
           /\ \A i \in 1..Len(r.rows) : r.rows[i] \in Rows
BY CloseRequestsType

LEMMA ToSumType ==
    ASSUME NEW r \in CloseRequests
    PROVE  BalancesToSum(r) \in SUBSET (Nat \X Assets)
<1>1. Definition[r.session].participants \in Seq(Addresses)
  BY CloseRow_Typed, DefinitionType DEF AppDefinitions
<1>2. DOMAIN Participants(r.session) \subseteq Nat
  BY <1>1 DEF Participants
<1>3. AssetsOf(r.rows) \subseteq Assets
  BY CloseRow_Typed DEF AssetsOf, Rows
<1> QED
  BY <1>2, <1>3 DEF BalancesToSum

\* The rows of a create and of a close, as ledger entries.
LEMMA FundEntries ==
    ASSUME NEW own \in Ledgers, NEW s \in SessionIds, NEW row \in Rows
    PROVE  /\ Fund(own, s, row) \in Ledgers
           /\ \A k \in Keys :
                 Fund(own, s, row)[k] =
                    IF k = Unified(row.participant, row.asset) THEN own[k] - row.amount
                    ELSE IF k = Escrow(s, row.participant, row.asset)
                         THEN own[k] + row.amount ELSE own[k]
<1> DEFINE p == row.participant
           a == row.asset
           n == row.amount
           e == Record(own, Unified(p, a), -n)
<1>1. p \in Addresses /\ a \in Assets /\ n \in Int
  BY DEF Rows
<1>2. -n \in Int
  BY <1>1
<1>u. Unified(p, a) \in Keys
  BY <1>1, UnifiedKey
<1>e. Escrow(s, p, a) \in Keys
  BY <1>1, AccountKeys
<1>3. /\ e \in Ledgers
      /\ \A k \in Keys : e[k] = IF k = Unified(p, a) THEN own[k] + (-n) ELSE own[k]
  BY <1>2, <1>u, RecordEntry
<1>4. /\ Record(e, Escrow(s, p, a), n) \in Ledgers
      /\ \A k \in Keys : Record(e, Escrow(s, p, a), n)[k] =
                            IF k = Escrow(s, p, a) THEN e[k] + n ELSE e[k]
  BY <1>1, <1>3, <1>e, RecordEntry
<1>5. Unified(p, a) # Escrow(s, p, a)
  BY <1>1, AccountKeys
<1>6. \A k \in Keys : own[k] \in Int
  BY DEF Ledgers
<1> QED
  BY <1>1, <1>3, <1>4, <1>5, <1>6 DEF Fund

LEMMA SettleEntries ==
    ASSUME NEW own \in Ledgers, NEW s \in SessionIds, NEW row \in Rows, NEW share \in Int
    PROVE  /\ Settle(own, s, row, share) \in Ledgers
           /\ \A k \in Keys :
                 Settle(own, s, row, share)[k] =
                    IF k = Escrow(s, row.participant, row.asset) THEN own[k] - share
                    ELSE IF k = Unified(row.participant, row.asset)
                         THEN own[k] + row.amount ELSE own[k]
<1> DEFINE p == row.participant
           a == row.asset
           n == row.amount
           e == Record(own, Escrow(s, p, a), -share)
<1>1. p \in Addresses /\ a \in Assets /\ n \in Int
  BY DEF Rows
<1>2. -share \in Int
  OBVIOUS
<1>u. Unified(p, a) \in Keys
  BY <1>1, UnifiedKey
<1>e. Escrow(s, p, a) \in Keys
  BY <1>1, AccountKeys
<1>3. /\ e \in Ledgers
      /\ \A k \in Keys : e[k] = IF k = Escrow(s, p, a) THEN own[k] + (-share) ELSE own[k]
  BY <1>2, <1>e, RecordEntry
<1>4. /\ Record(e, Unified(p, a), n) \in Ledgers
      /\ \A k \in Keys : Record(e, Unified(p, a), n)[k] =
                            IF k = Unified(p, a) THEN e[k] + n ELSE e[k]
  BY <1>1, <1>3, <1>u, RecordEntry
<1>5. Unified(p, a) # Escrow(s, p, a)
  BY <1>1, AccountKeys
<1>6. \A k \in Keys : own[k] \in Int
  BY DEF Ledgers
<1> QED
  BY <1>1, <1>3, <1>4, <1>5, <1>6 DEF Settle

-------------------------------------------------------------------------------
\* The inductive invariant of any interleaving.

\* The uncommitted entries of a create debit only its signers, and fund only
\* the session it creates.
CreateEntries(t) ==
    \A p \in Addresses, a \in Assets :
        /\ t.own[Unified(p, a)] < 0 => p \in t.req.signers
        /\ \A s \in SessionIds :
              /\ t.own[Escrow(s, p, a)] >= 0
              /\ s # t.req.session => t.own[Escrow(s, p, a)] = 0

\* Those of a close only credit participants, and only touch its session.
CloseEntries(t) ==
    \A p \in Addresses, a \in Assets :
        /\ t.own[Unified(p, a)] >= 0
        /\ \A s \in SessionIds : s # t.req.session => t.own[Escrow(s, p, a)] = 0

TransactionOK(t) ==
    /\ t.pc \in Creating => t.req \in CreateRequests /\ CreateEntries(t)
    /\ t.pc \in Closing =>
          /\ t.req \in CloseRequests
          /\ WellFormedClose(t.req)
          /\ Authorised(t.req.session, t.req.sigs)
          /\ t.todo \subseteq BalancesToSum(t.req)
          /\ CloseEntries(t)

\* An inserted row is of a session nobody else has created; a closing one exists.
RowsLocked ==
    /\ \A w \in Workers : tx[w].pc = "inserted" => sessions[tx[w].req.session] = "none"
    /\ \A w \in Workers : tx[w].pc \in Closing => sessions[tx[w].req.session] # "none"
    /\ \A v, w \in Workers :
          tx[v].pc = "inserted" /\ tx[w].pc = "inserted"
             /\ tx[v].req.session = tx[w].req.session => v = w

IndInv == TypeOK /\ (\A w \in Workers : TransactionOK(tx[w])) /\ RowsLocked

\* What a step of one worker leaves alone, and what it must establish.
LEMMA OneWorker ==
    ASSUME TypeOK, \A v \in Workers : TransactionOK(tx[v]),
           NEW w \in Workers, NEW t \in Transactions, TransactionOK(t),
           tx' = [tx EXCEPT ![w] = t]
    PROVE  /\ tx' \in [Workers -> Transactions]
           /\ \A v \in Workers : TransactionOK(tx'[v])
           /\ tx'[w] = t
           /\ \A v \in Workers \ {w} : tx'[v] = tx[v]
<1>1. tx \in [Workers -> Transactions]
  BY DEF TypeOK
<1>2. /\ tx' \in [Workers -> Transactions]
      /\ tx'[w] = t
      /\ \A v \in Workers \ {w} : tx'[v] = tx[v]
  BY <1>1
<1>3. \A v \in Workers : TransactionOK(tx'[v])
  BY <1>2
<1> QED
  BY <1>2, <1>3

LEMMA IdleOK == TransactionOK(Idle) /\ Idle.pc = "idle"
BY DEF Idle, TransactionOK, Creating, Closing

LEMMA InitInv == Init => IndInv
<1> SUFFICES ASSUME Init PROVE IndInv
  OBVIOUS
<1>1. TypeOK
  BY EmptyEntries, IdleType DEF Init, TypeOK
<1>2. \A w \in Workers : TransactionOK(tx[w])
  BY IdleOK DEF Init
<1>3. RowsLocked
  BY IdleOK DEF Init, RowsLocked, Closing
<1> QED
  BY <1>1, <1>2, <1>3 DEF IndInv

\* A transaction that begins has recorded nothing.
LEMMA BeginCreateType ==
    ASSUME NEW r \in CreateRequests
    PROVE  LET t == [Idle EXCEPT !.pc = "create", !.req = r]
           IN  /\ t \in Transactions /\ TransactionOK(t)
               /\ t.pc = "create" /\ t.req = r /\ t.own = EmptyLedger
<1> DEFINE t == [Idle EXCEPT !.pc = "create", !.req = r]
<1>1. t \in Transactions /\ t.pc = "create" /\ t.req = r /\ t.own = EmptyLedger
  BY IdleType DEF Idle, Transactions, Statements
<1> HIDE DEF t
<1>2. CreateEntries(t)
  BY <1>1, EmptyEntries, UnifiedKey, AccountKeys DEF CreateEntries
<1>3. TransactionOK(t)
  BY <1>1, <1>2 DEF TransactionOK, Closing
<1> QED
  BY <1>1, <1>3 DEF t

LEMMA BeginCloseType ==
    ASSUME NEW r \in CloseRequests, WellFormedClose(r), Authorised(r.session, r.sigs)
    PROVE  LET t == [Idle EXCEPT !.pc = "sum", !.req = r, !.todo = BalancesToSum(r)]
           IN  /\ t \in Transactions /\ TransactionOK(t)
               /\ t.pc = "sum" /\ t.req = r /\ t.own = EmptyLedger
               /\ t.todo = BalancesToSum(r) /\ t.row = 1
               /\ t.funds = NoFunds /\ t.allocated = NoFunds
<1> DEFINE t == [Idle EXCEPT !.pc = "sum", !.req = r, !.todo = BalancesToSum(r)]
<1>1. /\ t \in Transactions /\ t.pc = "sum" /\ t.req = r /\ t.own = EmptyLedger
      /\ t.todo = BalancesToSum(r) /\ t.row = 1
      /\ t.funds = NoFunds /\ t.allocated = NoFunds
  BY IdleType, ToSumType DEF Idle, Transactions, Statements
<1> HIDE DEF t
<1>2. CloseEntries(t)
  BY <1>1, EmptyEntries, UnifiedKey, AccountKeys DEF CloseEntries
<1>3. TransactionOK(t)
  BY <1>1, <1>2 DEF TransactionOK, Creating
<1> QED
  BY <1>1, <1>3 DEF t

\* A step of one worker that leaves the committed state alone and neither
\* inserts a session nor begins a close keeps the invariant.
LEMMA QuietStep ==
    ASSUME IndInv, NEW w \in Workers, NEW t \in Transactions, TransactionOK(t),
           tx' = [tx EXCEPT ![w] = t], UNCHANGED <<ledger, sessions>>,
           t.pc = "inserted" =>
              /\ sessions[t.req.session] = "none"
              /\ \A v \in Workers \ {w} :
                    tx[v].pc = "inserted" => tx[v].req.session # t.req.session,
           t.pc \in Closing => sessions[t.req.session] # "none"
    PROVE  IndInv'
<1>1. /\ tx' \in [Workers -> Transactions]
      /\ \A v \in Workers : TransactionOK(tx'[v])
      /\ tx'[w] = t
      /\ \A v \in Workers \ {w} : tx'[v] = tx[v]
  BY OneWorker DEF IndInv
<1>2. TypeOK'
  BY <1>1 DEF IndInv, TypeOK
<1>3. RowsLocked'
  BY <1>1 DEF IndInv, RowsLocked
<1> QED
  BY <1>1, <1>2, <1>3 DEF IndInv

LEMMA BeginCreateInv ==
    ASSUME IndInv, NEW w \in Workers, NEW r \in CreateRequests, BeginCreate(w, r)
    PROVE  IndInv'
<1> DEFINE t == [Idle EXCEPT !.pc = "create", !.req = r]
<1>1. /\ t \in Transactions /\ TransactionOK(t) /\ t.pc = "create"
      /\ tx' = [tx EXCEPT ![w] = t]
      /\ UNCHANGED <<ledger, sessions>>
  BY BeginCreateType DEF BeginCreate
<1> HIDE DEF t
<1> QED
  BY <1>1, QuietStep DEF Closing

LEMMA NextRowType ==
    ASSUME NEW u \in Transactions, NEW e \in Ledgers
    PROVE  LET t == [u EXCEPT !.own = e, !.row = u.row + 1]
           IN  t \in Transactions /\ t.pc = u.pc /\ t.req = u.req /\ t.own = e
<1>1. u.row + 1 \in Nat \ {0}
  BY DEF Transactions
<1> QED
  BY <1>1 DEF Transactions

\* One more row of the create's allocations.
LEMMA CreateRowEntries ==
    ASSUME IndInv, NEW w \in Workers, CreateRow(w)
    PROVE  \E t \in Transactions :
              /\ tx' = [tx EXCEPT ![w] = t]
              /\ TransactionOK(t)
              /\ t.pc = "create" /\ t.req = tx[w].req
              /\ t.own = Fund(tx[w].own, tx[w].req.session, tx[w].req.rows[tx[w].row])
<1> DEFINE u == tx[w]
           row == u.req.rows[u.row]
           t == [u EXCEPT !.own = Fund(u.own, u.req.session, row), !.row = u.row + 1]
<1>1. u \in Transactions /\ TransactionOK(u) /\ u.pc = "create"
  BY DEF IndInv, TypeOK, CreateRow
<1>2. /\ u.own \in Ledgers /\ u.row \in Nat \ {0}
      /\ u.req \in CreateRequests /\ CreateEntries(u)
  BY <1>1 DEF Transactions, TransactionOK, Creating
<1>3. u.row \in 1..Len(u.req.rows)
  <2>1. Len(u.req.rows) \in Nat
    BY <1>2, CreateRequestsType
  <2> QED
    BY <1>2, <2>1 DEF CreateRow
<1>4. u.req.session \in SessionIds /\ row \in Rows
  BY <1>2, <1>3, CreateRow_Typed
<1>5. /\ row.participant \in Addresses /\ row.asset \in Assets
      /\ row.amount \in Int /\ row.amount >= 0
      /\ row.amount > 0 => row.participant \in u.req.signers
  BY <1>4 DEF Rows, CreateRow, SignedFor
<1>6. /\ Fund(u.own, u.req.session, row) \in Ledgers
      /\ \A k \in Keys :
            Fund(u.own, u.req.session, row)[k] =
               IF k = Unified(row.participant, row.asset) THEN u.own[k] - row.amount
               ELSE IF k = Escrow(u.req.session, row.participant, row.asset)
                    THEN u.own[k] + row.amount ELSE u.own[k]
  BY <1>2, <1>4, FundEntries
<1>7. /\ t \in Transactions /\ t.pc = "create" /\ t.req = u.req
      /\ t.own = Fund(u.own, u.req.session, row)
  BY <1>1, <1>6, NextRowType
<1>8. tx' = [tx EXCEPT ![w] = t]
  BY <1>1 DEF CreateRow, IndInv, TypeOK, Transactions
<1> HIDE DEF t
<1>9. CreateEntries(t)
  <2> SUFFICES ASSUME NEW p \in Addresses, NEW a \in Assets
               PROVE  /\ t.own[Unified(p, a)] < 0 => p \in t.req.signers
                      /\ \A s \in SessionIds :
                            /\ t.own[Escrow(s, p, a)] >= 0
                            /\ s # t.req.session => t.own[Escrow(s, p, a)] = 0
    BY DEF CreateEntries
  <2>1. \A k \in Keys : u.own[k] \in Int
    BY <1>2 DEF Ledgers
  <2>2. t.own[Unified(p, a)] < 0 => p \in t.req.signers
    <3>1. Unified(p, a) # Escrow(u.req.session, row.participant, row.asset)
      BY <1>4, <1>5, AccountKeys
    <3>2. t.own[Unified(p, a)] =
             IF Unified(p, a) = Unified(row.participant, row.asset)
             THEN u.own[Unified(p, a)] - row.amount ELSE u.own[Unified(p, a)]
      BY <1>6, <1>7, <3>1, UnifiedKey
    <3>3. Unified(p, a) = Unified(row.participant, row.asset) => p = row.participant
      BY DEF Unified
    <3>4. u.own[Unified(p, a)] < 0 => p \in u.req.signers
      BY <1>2 DEF CreateEntries
    <3>5. u.own[Unified(p, a)] \in Int
      BY <2>1, UnifiedKey
    <3>6. CASE row.amount > 0
      BY <1>5, <1>7, <3>2, <3>3, <3>4, <3>6
    <3>7. CASE row.amount = 0
      BY <1>7, <3>2, <3>4, <3>5, <3>7
    <3> QED
      BY <1>5, <3>6, <3>7
  <2>3. ASSUME NEW s \in SessionIds
        PROVE  /\ t.own[Escrow(s, p, a)] >= 0
               /\ s # t.req.session => t.own[Escrow(s, p, a)] = 0
    <3>1. /\ Escrow(s, p, a) \in Keys
          /\ Escrow(s, p, a) # Unified(row.participant, row.asset)
      BY <1>5, AccountKeys
    <3>2. t.own[Escrow(s, p, a)] =
             IF Escrow(s, p, a) = Escrow(u.req.session, row.participant, row.asset)
             THEN u.own[Escrow(s, p, a)] + row.amount ELSE u.own[Escrow(s, p, a)]
      BY <1>6, <1>7, <3>1
    <3>3. Escrow(s, p, a) = Escrow(u.req.session, row.participant, row.asset)
             => s = u.req.session
      BY DEF Escrow
    <3>4. /\ u.own[Escrow(s, p, a)] >= 0
          /\ s # u.req.session => u.own[Escrow(s, p, a)] = 0
      BY <1>2 DEF CreateEntries
    <3>5. u.own[Escrow(s, p, a)] \in Int
      BY <2>1, <3>1
    <3> QED
      BY <1>5, <1>7, <3>2, <3>3, <3>4, <3>5
  <2> QED
    BY <2>2, <2>3
<1>10. TransactionOK(t)
  BY <1>2, <1>7, <1>9 DEF TransactionOK, Closing
<1> QED
  BY <1>7, <1>8, <1>10

LEMMA CreateRowInv ==
    ASSUME IndInv, NEW w \in Workers, CreateRow(w) PROVE IndInv'
<1>1. PICK t \in Transactions : /\ tx' = [tx EXCEPT ![w] = t]
                                /\ TransactionOK(t)
                                /\ t.pc = "create"
  BY CreateRowEntries
<1>2. UNCHANGED <<ledger, sessions>>
  BY DEF CreateRow
<1> QED
  BY <1>1, <1>2, QuietStep DEF Closing

LEMMA InsertSessionInv ==
    ASSUME IndInv, NEW w \in Workers, InsertSession(w) PROVE IndInv'
<1> DEFINE u == tx[w]
           t == [u EXCEPT !.pc = "inserted"]
<1>1. u \in Transactions /\ TransactionOK(u) /\ u.pc = "create"
  BY DEF IndInv, TypeOK, InsertSession
<1>2. /\ t \in Transactions /\ t.pc = "inserted"
      /\ t.req = u.req /\ t.own = u.own
  BY <1>1 DEF Transactions, Statements
<1>3. tx' = [tx EXCEPT ![w] = t] /\ UNCHANGED <<ledger, sessions>>
  BY DEF InsertSession
<1> HIDE DEF t
<1>4. CreateEntries(t)
  BY <1>1, <1>2 DEF TransactionOK, Creating, CreateEntries
<1>5. TransactionOK(t)
  BY <1>1, <1>2, <1>4 DEF TransactionOK, Creating, Closing
<1>6. /\ sessions[t.req.session] = "none"
      /\ \A v \in Workers \ {w} :
            tx[v].pc = "inserted" => tx[v].req.session # t.req.session
  BY <1>2 DEF InsertSession, RowFree
<1> QED
  BY <1>2, <1>3, <1>5, <1>6, QuietStep DEF Closing

\* What a commit does to the transactions and the ledger.
LEMMA CommitStep ==
    ASSUME IndInv, NEW w \in Workers,
           ledger' = Apply(ledger, tx[w].own), tx' = [tx EXCEPT ![w] = Idle]
    PROVE  /\ ledger' \in Ledgers
           /\ \A k \in Keys : ledger'[k] = ledger[k] + tx[w].own[k]
           /\ tx' \in [Workers -> Transactions]
           /\ \A v \in Workers : TransactionOK(tx'[v])
           /\ tx'[w] = Idle
           /\ \A v \in Workers \ {w} : tx'[v] = tx[v]
<1>1. ledger \in Ledgers /\ tx[w].own \in Ledgers
  BY DEF IndInv, TypeOK, Transactions
<1>2. ledger' \in Ledgers /\ \A k \in Keys : ledger'[k] = ledger[k] + tx[w].own[k]
  BY <1>1, ApplyEntries
<1>3. Idle \in Transactions /\ TransactionOK(Idle)
  BY IdleType, IdleOK
<1> QED
  BY <1>2, <1>3, OneWorker DEF IndInv

\* A creating transaction names a session.
LEMMA CreatingSession ==
    ASSUME IndInv, NEW w \in Workers, tx[w].pc \in Creating
    PROVE  tx[w].req \in CreateRequests /\ tx[w].req.session \in SessionIds
<1>1. tx[w].req \in CreateRequests
  BY DEF IndInv, TransactionOK
<1> QED
  BY <1>1, CreateRequestsType

LEMMA ClosingSession ==
    ASSUME IndInv, NEW w \in Workers, tx[w].pc \in Closing
    PROVE  tx[w].req \in CloseRequests /\ tx[w].req.session \in SessionIds
<1>1. tx[w].req \in CloseRequests
  BY DEF IndInv, TransactionOK
<1> QED
  BY <1>1, CloseRequestsType

LEMMA CommitCreateInv ==
    ASSUME IndInv, NEW w \in Workers, CommitCreate(w) PROVE IndInv'
<1> DEFINE s == tx[w].req.session
<1>1. /\ ledger' \in Ledgers
      /\ tx' \in [Workers -> Transactions]
      /\ \A v \in Workers : TransactionOK(tx'[v])
      /\ tx'[w].pc = "idle"
      /\ \A v \in Workers \ {w} : tx'[v] = tx[v]
  BY CommitStep, IdleOK DEF CommitCreate
<1>2. sessions' = [sessions EXCEPT ![s] = "open"] /\ tx[w].pc = "inserted"
  BY DEF CommitCreate
<1>3. s \in SessionIds
  BY <1>2, CreatingSession DEF Creating
<1>4. sessions \in [SessionIds -> {"none", "open", "closed"}]
  BY DEF IndInv, TypeOK
<1>5. TypeOK'
  BY <1>1, <1>2, <1>4 DEF TypeOK
<1>6. \A v \in Workers \ {w} : tx[v].pc = "inserted" => tx[v].req.session # s
  BY <1>2 DEF IndInv, RowsLocked
<1>7. \A v \in Workers : tx[v].pc \in Creating \cup Closing => tx[v].req.session \in SessionIds
  BY CreatingSession, ClosingSession
<1>8. RowsLocked'
  BY <1>1, <1>2, <1>3, <1>4, <1>6, <1>7 DEF IndInv, RowsLocked, Closing, Creating
<1> QED
  BY <1>1, <1>5, <1>8 DEF IndInv

LEMMA CommitCloseInv ==
    ASSUME IndInv, NEW w \in Workers, CommitClose(w) PROVE IndInv'
<1> DEFINE s == tx[w].req.session
<1>1. /\ ledger' \in Ledgers
      /\ tx' \in [Workers -> Transactions]
      /\ \A v \in Workers : TransactionOK(tx'[v])
      /\ tx'[w].pc = "idle"
      /\ \A v \in Workers \ {w} : tx'[v] = tx[v]
  BY CommitStep, IdleOK DEF CommitClose
<1>2. sessions' = [sessions EXCEPT ![s] = "closed"] /\ tx[w].pc = "updated"
  BY DEF CommitClose
<1>3. s \in SessionIds /\ sessions[s] # "none"
  BY <1>2, ClosingSession DEF Closing, IndInv, RowsLocked
<1>4. sessions \in [SessionIds -> {"none", "open", "closed"}]
  BY DEF IndInv, TypeOK
<1>5. TypeOK'
  BY <1>1, <1>2, <1>4 DEF TypeOK
<1>6. \A v \in Workers : tx[v].pc = "inserted" => tx[v].req.session # s
  BY <1>3 DEF IndInv, RowsLocked
<1>7. \A v \in Workers : tx[v].pc \in Creating \cup Closing => tx[v].req.session \in SessionIds
  BY CreatingSession, ClosingSession
<1>8. RowsLocked'
  BY <1>1, <1>2, <1>3, <1>4, <1>6, <1>7 DEF IndInv, RowsLocked, Closing, Creating
<1> QED
  BY <1>1, <1>5, <1>8 DEF IndInv

LEMMA BeginCloseInv ==
    ASSUME IndInv, NEW w \in Workers, NEW r \in CloseRequests, BeginClose(w, r)
    PROVE  IndInv'
<1> DEFINE t == [Idle EXCEPT !.pc = "sum", !.req = r, !.todo = BalancesToSum(r)]
<1>1. /\ t \in Transactions /\ TransactionOK(t) /\ t.pc = "sum" /\ t.req = r
      /\ tx' = [tx EXCEPT ![w] = t]
      /\ UNCHANGED <<ledger, sessions>>
      /\ sessions[r.session] # "none"
  BY BeginCloseType DEF BeginClose
<1> HIDE DEF t
<1> QED
  BY <1>1, QuietStep

\* A worker's view of an account.
LEMMA VisibleType ==
    ASSUME IndInv, NEW w \in Workers, NEW k \in Keys
    PROVE  Visible(w, k) = ledger[k] + tx[w].own[k] /\ Visible(w, k) \in Int
BY DEF Visible, Balance, IndInv, TypeOK, Transactions, Ledgers

\* One more balance of a participant.
LEMMA SumBalanceEntries ==
    ASSUME IndInv, NEW w \in Workers, NEW x \in tx[w].todo, SumBalance(w, x[1], x[2])
    PROVE  LET u == tx[w]
               k == Escrow(u.req.session, Participants(u.req.session)[x[1]], x[2])
           IN  /\ k \in Keys
               /\ \E t \in Transactions :
                     /\ tx' = [tx EXCEPT ![w] = t]
                     /\ TransactionOK(t)
                     /\ t.pc = "sum" /\ t.req = u.req /\ t.own = u.own /\ t.row = u.row
                     /\ t.todo = u.todo \ {<<x[1], x[2]>>}
                     /\ t.funds = [u.funds EXCEPT ![x[2]] = @ + Visible(w, k)]
                     /\ t.allocated = u.allocated
<1> DEFINE u == tx[w]
           i == x[1]
           a == x[2]
           k == Escrow(u.req.session, Participants(u.req.session)[i], a)
           t == [u EXCEPT !.todo = u.todo \ {<<i, a>>}, !.funds[a] = u.funds[a] + Visible(w, k)]
<1>1. u \in Transactions /\ TransactionOK(u) /\ u.pc = "sum"
  BY DEF IndInv, TypeOK, SumBalance
<1>2. /\ u.req \in CloseRequests /\ WellFormedClose(u.req)
      /\ Authorised(u.req.session, u.req.sigs)
      /\ u.todo \subseteq BalancesToSum(u.req) /\ CloseEntries(u)
  BY <1>1 DEF TransactionOK, Closing
<1>3. u.req.session \in SessionIds /\ Participants(u.req.session) \in Seq(Addresses)
  BY <1>2, CloseRow_Typed, DefinitionType DEF Participants, AppDefinitions
<1>4. i \in DOMAIN Participants(u.req.session) /\ a \in Assets
  BY <1>1, <1>2 DEF BalancesToSum, Transactions
<1>5. k \in Keys
  <2>1. Participants(u.req.session)[i] \in Addresses
    BY <1>3, <1>4
  <2> QED
    BY <1>3, <1>4, <2>1, AccountKeys
<1>6. Visible(w, k) \in Int
  BY <1>5, VisibleType
<1>12. /\ u.todo \ {<<i, a>>} \in SUBSET (Nat \X Assets)
       /\ [u.funds EXCEPT ![a] = u.funds[a] + Visible(w, k)] \in [Assets -> Int]
  <2>1. u.todo \in SUBSET (Nat \X Assets) /\ u.funds \in [Assets -> Int]
    BY <1>1 DEF Transactions
  <2>2. u.funds[a] + Visible(w, k) \in Int
    BY <1>4, <1>6, <2>1
  <2> QED
    BY <2>1, <2>2
<1> HIDE DEF k
<1>7. /\ t \in Transactions /\ t.pc = "sum" /\ t.req = u.req /\ t.own = u.own
      /\ t.todo = u.todo \ {<<i, a>>} /\ t.row = u.row /\ t.allocated = u.allocated
      /\ t.funds = [u.funds EXCEPT ![a] = u.funds[a] + Visible(w, k)]
  BY <1>1, <1>12 DEF Transactions
<1>8. tx' = [tx EXCEPT ![w] = t] 
  BY <1>1 DEF SumBalance, k, IndInv, TypeOK, Transactions
<1> HIDE DEF t
<1>9. TransactionOK(t)
  BY <1>2, <1>7 DEF TransactionOK, Creating, CloseEntries
<1> QED
  BY <1>5, <1>7, <1>8, <1>9 DEF k

LEMMA SumBalanceInv ==
    ASSUME IndInv, NEW w \in Workers, NEW x \in tx[w].todo, SumBalance(w, x[1], x[2])
    PROVE  IndInv'
<1>1. PICK t \in Transactions : /\ tx' = [tx EXCEPT ![w] = t]
                                /\ TransactionOK(t)
                                /\ t.pc = "sum" /\ t.req = tx[w].req
  BY SumBalanceEntries
<1>2. UNCHANGED <<ledger, sessions>> /\ tx[w].pc = "sum"
  BY DEF SumBalance
<1>3. sessions[t.req.session] # "none"
  BY <1>1, <1>2 DEF IndInv, RowsLocked, Closing
<1> QED
  BY <1>1, <1>2, <1>3, QuietStep

\* One more row of the close's allocations.
LEMMA DistributeRowEntries ==
    ASSUME IndInv, NEW w \in Workers, DistributeRow(w)
    PROVE  LET u == tx[w]
               row == u.req.rows[u.row]
               share == Visible(w, Escrow(u.req.session, row.participant, row.asset))
           IN  /\ row \in Rows /\ row.amount >= 0 /\ share \in Int
               /\ \E t \in Transactions :
                     /\ tx' = [tx EXCEPT ![w] = t]
                     /\ TransactionOK(t)
                     /\ t.pc = "sum" /\ t.req = u.req
                     /\ t.own = Settle(u.own, u.req.session, row, share)
                     /\ t.row = u.row + 1 /\ t.todo = u.todo /\ t.funds = u.funds
                     /\ t.allocated = [u.allocated EXCEPT ![row.asset] = @ + row.amount]
<1> DEFINE u == tx[w]
           row == u.req.rows[u.row]
           share == Visible(w, Escrow(u.req.session, row.participant, row.asset))
           e == Settle(u.own, u.req.session, row, share)
           t == [u EXCEPT !.own = e, !.allocated[row.asset] = u.allocated[row.asset] + row.amount,
                          !.row = u.row + 1]
<1>1. u \in Transactions /\ TransactionOK(u) /\ u.pc = "sum"
  BY DEF IndInv, TypeOK, DistributeRow
<1>2. /\ u.own \in Ledgers /\ u.row \in Nat \ {0}
      /\ u.req \in CloseRequests /\ WellFormedClose(u.req)
      /\ Authorised(u.req.session, u.req.sigs)
      /\ u.todo \subseteq BalancesToSum(u.req) /\ CloseEntries(u)
  BY <1>1 DEF Transactions, TransactionOK, Closing
<1>3. /\ u.req.session \in SessionIds /\ row \in Rows
      /\ u.row \in DOMAIN u.req.rows
  <2>1. u.req.session \in SessionIds /\ u.req.rows \in Seq(Rows)
    BY <1>2, CloseRow_Typed
  <2>3. u.row <= Len(u.req.rows)
    BY DEF DistributeRow
  <2>4. Len(u.req.rows) \in Nat
    BY <2>1
  <2>2. u.row \in 1..Len(u.req.rows)
    BY <1>2, <2>3, <2>4
  <2> QED
    BY <2>1, <2>2
<1>4. /\ row.participant \in Addresses /\ row.asset \in Assets
      /\ row.amount \in Int /\ row.amount >= 0
  BY <1>2, <1>3 DEF Rows, WellFormedClose
<1>5. share \in Int
  BY <1>3, <1>4, AccountKeys, VisibleType
<1> HIDE DEF share
<1>6. /\ e \in Ledgers
      /\ \A k \in Keys :
            e[k] = IF k = Escrow(u.req.session, row.participant, row.asset)
                   THEN u.own[k] - share
                   ELSE IF k = Unified(row.participant, row.asset)
                        THEN u.own[k] + row.amount ELSE u.own[k]
  BY <1>2, <1>3, <1>5, SettleEntries, SMTT(30)
<1>7. tx' = [tx EXCEPT ![w] = t]
  BY <1>1 DEF DistributeRow, share, IndInv, TypeOK, Transactions
<1> HIDE DEF e
<1>8. u.allocated[row.asset] + row.amount \in Int /\ u.row + 1 \in Nat \ {0}
  BY <1>1, <1>2, <1>4 DEF Transactions
<1> HIDE DEF row
<1>9. /\ t \in Transactions /\ t.pc = "sum" /\ t.req = u.req /\ t.own = e
      /\ t.todo = u.todo /\ t.row = u.row + 1 /\ t.funds = u.funds
      /\ t.allocated = [u.allocated EXCEPT ![row.asset] = @ + row.amount]
  BY <1>1, <1>6, <1>8 DEF Transactions
<1> HIDE DEF t
<1>10. CloseEntries(t)
  <2> SUFFICES ASSUME NEW p \in Addresses, NEW a \in Assets
               PROVE  /\ e[Unified(p, a)] >= 0
                      /\ \A s \in SessionIds : s # u.req.session => e[Escrow(s, p, a)] = 0
    BY <1>9 DEF CloseEntries
  <2>1. e[Unified(p, a)] >= 0
    <3>1. /\ Unified(p, a) \in Keys
          /\ Unified(p, a) # Escrow(u.req.session, row.participant, row.asset)
      BY <1>3, <1>4, UnifiedKey, AccountKeys
    <3>2. u.own[Unified(p, a)] \in Int /\ u.own[Unified(p, a)] >= 0
      BY <1>2, <3>1 DEF CloseEntries, Ledgers
    <3> QED
      BY <1>4, <1>6, <3>1, <3>2
  <2>2. ASSUME NEW s \in SessionIds, s # u.req.session PROVE e[Escrow(s, p, a)] = 0
    <3>1. /\ Escrow(s, p, a) \in Keys
          /\ Escrow(s, p, a) # Unified(row.participant, row.asset)
          /\ Escrow(s, p, a) # Escrow(u.req.session, row.participant, row.asset)
      BY <1>3, <1>4, <2>2, AccountKeys
    <3> QED
      BY <1>2, <1>6, <2>2, <3>1 DEF CloseEntries
  <2> QED
    BY <2>1, <2>2
<1>11. TransactionOK(t)
  BY <1>2, <1>9, <1>10 DEF TransactionOK, Creating
<1> QED
  BY <1>3, <1>4, <1>5, <1>7, <1>9, <1>11 DEF e, row, share

LEMMA DistributeRowInv ==
    ASSUME IndInv, NEW w \in Workers, DistributeRow(w) PROVE IndInv'
<1>1. PICK t \in Transactions : /\ tx' = [tx EXCEPT ![w] = t]
                                /\ TransactionOK(t)
                                /\ t.pc = "sum" /\ t.req = tx[w].req
  BY DistributeRowEntries
<1>2. UNCHANGED <<ledger, sessions>> /\ tx[w].pc = "sum"
  BY DEF DistributeRow
<1>3. sessions[t.req.session] # "none"
  BY <1>1, <1>2 DEF IndInv, RowsLocked, Closing
<1> QED
  BY <1>1, <1>2, <1>3, QuietStep

LEMMA UpdateSessionInv ==
    ASSUME IndInv, NEW w \in Workers, UpdateSession(w) PROVE IndInv'
<1> DEFINE u == tx[w]
           t == [u EXCEPT !.pc = "updated"]
<1>1. u \in Transactions /\ TransactionOK(u) /\ u.pc = "sum"
  BY DEF IndInv, TypeOK, UpdateSession
<1>2. /\ t \in Transactions /\ t.pc = "updated"
      /\ t.req = u.req /\ t.own = u.own /\ t.todo = u.todo
  BY <1>1 DEF Transactions, Statements
<1>3. tx' = [tx EXCEPT ![w] = t] /\ UNCHANGED <<ledger, sessions>>
  BY DEF UpdateSession
<1> HIDE DEF t
<1>4. TransactionOK(t)
  BY <1>1, <1>2 DEF TransactionOK, Creating, Closing, CloseEntries
<1>5. sessions[t.req.session] # "none"
  BY <1>1, <1>2 DEF IndInv, RowsLocked, Closing
<1> QED
  BY <1>2, <1>3, <1>4, <1>5, QuietStep

LEMMA RollbackInv ==
    ASSUME IndInv, NEW w \in Workers, Rollback(w) PROVE IndInv'
BY IdleType, IdleOK, QuietStep DEF Rollback, Closing

LEMMA CustodyEntryInv ==
    ASSUME IndInv, NEW p \in Addresses, NEW a \in Assets, NEW n \in CustodyAmounts,
           CustodyEntry(p, a, n)
    PROVE  IndInv'
<1>1. ledger' \in Ledgers
  BY CustodyAmountsType, UnifiedKey, RecordEntry DEF CustodyEntry, IndInv, TypeOK
<1> QED
  BY <1>1 DEF CustodyEntry, IndInv, TypeOK, RowsLocked

LEMMA StepInv == IndInv /\ [Next]_vars => IndInv'
<1> SUFFICES ASSUME IndInv, [Next]_vars PROVE IndInv'
  OBVIOUS
<1>1. ASSUME NEW w \in Workers, NEW r \in CreateRequests, BeginCreate(w, r) PROVE IndInv'
  BY <1>1, BeginCreateInv
<1>2. ASSUME NEW w \in Workers, CreateRow(w) PROVE IndInv'
  BY <1>2, CreateRowInv
<1>3. ASSUME NEW w \in Workers, InsertSession(w) PROVE IndInv'
  BY <1>3, InsertSessionInv
<1>4. ASSUME NEW w \in Workers, CommitCreate(w) PROVE IndInv'
  BY <1>4, CommitCreateInv
<1>5. ASSUME NEW w \in Workers, NEW r \in CloseRequests, BeginClose(w, r) PROVE IndInv'
  BY <1>5, BeginCloseInv
<1>6. ASSUME NEW w \in Workers, NEW x \in tx[w].todo, SumBalance(w, x[1], x[2]) PROVE IndInv'
  BY <1>6, SumBalanceInv
<1>7. ASSUME NEW w \in Workers, DistributeRow(w) PROVE IndInv'
  BY <1>7, DistributeRowInv
<1>8. ASSUME NEW w \in Workers, UpdateSession(w) PROVE IndInv'
  BY <1>8, UpdateSessionInv
<1>9. ASSUME NEW w \in Workers, CommitClose(w) PROVE IndInv'
  BY <1>9, CommitCloseInv
<1>10. ASSUME NEW w \in Workers, Rollback(w) PROVE IndInv'
  BY <1>10, RollbackInv
<1>11. ASSUME NEW p \in Addresses, NEW a \in Assets, NEW n \in CustodyAmounts,
              CustodyEntry(p, a, n)
       PROVE IndInv'
  BY <1>11, CustodyEntryInv
<1>12. CASE UNCHANGED vars
  BY <1>12 DEF vars, IndInv, TypeOK, RowsLocked
<1> QED
  BY <1>1, <1>2, <1>3, <1>4, <1>5, <1>6, <1>7, <1>8, <1>9, <1>10, <1>11, <1>12 DEF Next

THEOREM Invariance == Spec => []IndInv
BY InitInv, StepInv, PTL DEF Spec

\* The variables keep their types, whatever the requests and the driver.
THEOREM TypeCorrect == Spec => []TypeOK
<1>1. IndInv => TypeOK
  BY DEF IndInv
<1> QED
  BY <1>1, Invariance, PTL

-------------------------------------------------------------------------------
\* Who moves funds, however transactions overlap.

\* Only a commit or a custody event changes what is committed.
LEMMA CommittedChange ==
    ASSUME Next
    PROVE  \/ UNCHANGED <<ledger, sessions>>
           \/ \E w \in Workers : CommitCreate(w) \/ CommitClose(w)
           \/ \E p \in Addresses, a \in Assets, n \in CustodyAmounts : CustodyEntry(p, a, n)
BY DEF Next, BeginCreate, CreateRow, InsertSession, BeginClose, SumBalance,
       DistributeRow, UpdateSession, Rollback

\* A custody event touches no session.
LEMMA CustodyKeepsEscrow ==
    ASSUME IndInv, NEW q \in Addresses, NEW b \in Assets, NEW n \in CustodyAmounts,
           CustodyEntry(q, b, n)
    PROVE  \A s \in SessionIds, p \in Addresses, a \in Assets :
              ledger'[Escrow(s, p, a)] = ledger[Escrow(s, p, a)]
<1> SUFFICES ASSUME NEW s \in SessionIds, NEW p \in Addresses, NEW a \in Assets
             PROVE  ledger'[Escrow(s, p, a)] = ledger[Escrow(s, p, a)]
  OBVIOUS
<1>1. ledger \in Ledgers /\ n \in Int
  BY CustodyAmountsType DEF IndInv, TypeOK
<1>2. Escrow(s, p, a) \in Keys /\ Unified(q, b) # Escrow(s, p, a)
  BY AccountKeys
<1>3. Unified(q, b) \in Keys
  BY UnifiedKey
<1>4. Record(ledger, Unified(q, b), n)[Escrow(s, p, a)] = ledger[Escrow(s, p, a)]
  BY <1>1, <1>2, <1>3, RecordEntry
<1> QED
  BY <1>4 DEF CustodyEntry

\* A create's commit funds the account of its session only.
LEMMA CommitCreateEscrow ==
    ASSUME IndInv, NEW w \in Workers, CommitCreate(w)
    PROVE  \A s \in SessionIds, p \in Addresses, a \in Assets :
              /\ ledger'[Escrow(s, p, a)] >= ledger[Escrow(s, p, a)]
              /\ s # tx[w].req.session =>
                    ledger'[Escrow(s, p, a)] = ledger[Escrow(s, p, a)]
<1> SUFFICES ASSUME NEW s \in SessionIds, NEW p \in Addresses, NEW a \in Assets
             PROVE  /\ ledger'[Escrow(s, p, a)] >= ledger[Escrow(s, p, a)]
                    /\ s # tx[w].req.session =>
                          ledger'[Escrow(s, p, a)] = ledger[Escrow(s, p, a)]
  OBVIOUS
<1> DEFINE k == Escrow(s, p, a)
<1>1. k \in Keys
  BY AccountKeys
<1>2. ledger'[k] = ledger[k] + tx[w].own[k]
  BY <1>1, CommitStep DEF CommitCreate
<1>3. ledger[k] \in Int /\ tx[w].own[k] \in Int
  BY <1>1 DEF IndInv, TypeOK, Ledgers, Transactions
<1>4. CreateEntries(tx[w])
  BY DEF CommitCreate, IndInv, TransactionOK, Creating
<1>5. tx[w].own[k] >= 0 /\ (s # tx[w].req.session => tx[w].own[k] = 0)
  BY <1>4 DEF CreateEntries
<1> HIDE DEF k
<1>6. ledger'[k] >= ledger[k] /\ (s # tx[w].req.session => ledger'[k] = ledger[k])
  BY <1>2, <1>3, <1>5
<1> QED
  BY <1>6 DEF k

\* A close's commit changes the account of its session only, and debits no
\* unified account.
LEMMA CommitCloseEntries ==
    ASSUME IndInv, NEW w \in Workers, CommitClose(w)
    PROVE  \A p \in Addresses, a \in Assets :
              /\ ledger'[Unified(p, a)] >= ledger[Unified(p, a)]
              /\ \A s \in SessionIds : s # tx[w].req.session =>
                    ledger'[Escrow(s, p, a)] = ledger[Escrow(s, p, a)]
<1> SUFFICES ASSUME NEW p \in Addresses, NEW a \in Assets
             PROVE  /\ ledger'[Unified(p, a)] >= ledger[Unified(p, a)]
                    /\ \A s \in SessionIds : s # tx[w].req.session =>
                          ledger'[Escrow(s, p, a)] = ledger[Escrow(s, p, a)]
  OBVIOUS
<1>1. \A k \in Keys : ledger'[k] = ledger[k] + tx[w].own[k]
  BY CommitStep DEF CommitClose
<1>2. \A k \in Keys : ledger[k] \in Int /\ tx[w].own[k] \in Int
  BY DEF IndInv, TypeOK, Ledgers, Transactions
<1>3. CloseEntries(tx[w])
  BY DEF CommitClose, IndInv, TransactionOK, Closing
<1>4. ledger'[Unified(p, a)] >= ledger[Unified(p, a)]
  <2>1. tx[w].own[Unified(p, a)] >= 0
    BY <1>3 DEF CloseEntries
  <2> QED
    BY <1>1, <1>2, <2>1, UnifiedKey
<1>5. ASSUME NEW s \in SessionIds, s # tx[w].req.session
      PROVE  ledger'[Escrow(s, p, a)] = ledger[Escrow(s, p, a)]
  <2>1. tx[w].own[Escrow(s, p, a)] = 0
    BY <1>3, <1>5 DEF CloseEntries
  <2> QED
    BY <1>1, <1>2, <2>1, AccountKeys
<1> QED
  BY <1>4, <1>5

\* A unified account loses funds only to a custody event or to a create its
\* owner signed, for any number of overlapping transactions.
THEOREM DebitsAreAuthorised == Spec => DebitAuthorised
<1> DEFINE A == \A p \in Addresses, a \in Assets :
          ledger'[Unified(p, a)] < ledger[Unified(p, a)] =>
             \/ CustodyStep
             \/ \E w \in Workers : /\ tx[w].pc = "inserted" /\ tx'[w] = Idle
                                   /\ p \in tx[w].req.signers
<1>1. ASSUME IndInv, Next PROVE A
  <2> SUFFICES ASSUME NEW p \in Addresses, NEW a \in Assets,
                      ledger'[Unified(p, a)] < ledger[Unified(p, a)]
               PROVE  \/ CustodyStep
                      \/ \E w \in Workers : /\ tx[w].pc = "inserted" /\ tx'[w] = Idle
                                            /\ p \in tx[w].req.signers
    OBVIOUS
  <2>1. ledger[Unified(p, a)] \in Int
    BY <1>1, UnifiedKey DEF IndInv, TypeOK, Ledgers
  <2>2. CASE UNCHANGED <<ledger, sessions>>
    BY <2>1, <2>2
  <2>3. ASSUME NEW w \in Workers, CommitCreate(w)
        PROVE  tx[w].pc = "inserted" /\ tx'[w] = Idle /\ p \in tx[w].req.signers
    <3>1. tx[w].pc = "inserted" /\ tx'[w] = Idle
      BY <1>1, <2>3, CommitStep DEF CommitCreate
    <3>2. ledger'[Unified(p, a)] = ledger[Unified(p, a)] + tx[w].own[Unified(p, a)]
      BY <1>1, <2>3, CommitStep, UnifiedKey DEF CommitCreate
    <3>3. tx[w].own[Unified(p, a)] \in Int
      BY <1>1, UnifiedKey DEF IndInv, TypeOK, Ledgers, Transactions
    <3>4. tx[w].own[Unified(p, a)] < 0
      BY <2>1, <3>2, <3>3
    <3> QED
      BY <1>1, <3>1, <3>4 DEF IndInv, TransactionOK, Creating, CreateEntries
  <2>4. ASSUME NEW w \in Workers, CommitClose(w) PROVE FALSE
    <3>1. ledger'[Unified(p, a)] >= ledger[Unified(p, a)]
      BY <1>1, <2>4, CommitCloseEntries
    <3>2. ledger'[Unified(p, a)] \in Int
      BY <1>1, <2>4, CommitStep, UnifiedKey DEF CommitClose, Ledgers
    <3> QED
      BY <2>1, <3>1, <3>2
  <2>5. ASSUME NEW q \in Addresses, NEW b \in Assets, NEW n \in CustodyAmounts,
               CustodyEntry(q, b, n)
        PROVE  CustodyStep
    BY <2>5 DEF CustodyEntry, CustodyStep
  <2> QED
    BY <1>1, <2>2, <2>3, <2>4, <2>5, CommittedChange
<1>2. IndInv /\ [Next]_vars => [A]_vars
  BY <1>1
<1> QED
  BY <1>2, Invariance, PTL DEF Spec, DebitAuthorised

\* An app session's account loses funds only in the step that closes it, on a
\* request whose distinct signers carry the quorum.
THEOREM EscrowReleasesAreAuthorised == Spec => EscrowReleaseAuthorised
<1> DEFINE Released(s) == /\ sessions'[s] = "closed"
                          /\ \E w \in Workers : /\ tx[w].pc = "updated" /\ tx'[w] = Idle
                                                /\ tx[w].req.session = s
                                                /\ Authorised(s, tx[w].req.sigs)
           A == \A s \in SessionIds, p \in Addresses, a \in Assets :
                   ledger'[Escrow(s, p, a)] < ledger[Escrow(s, p, a)] => Released(s)
<1>1. ASSUME IndInv, Next PROVE A
  <2> SUFFICES ASSUME NEW s \in SessionIds, NEW p \in Addresses, NEW a \in Assets,
                      ledger'[Escrow(s, p, a)] < ledger[Escrow(s, p, a)]
               PROVE  Released(s)
    OBVIOUS
  <2>1. ledger[Escrow(s, p, a)] \in Int
    BY <1>1, AccountKeys DEF IndInv, TypeOK, Ledgers
  <2>2. ledger'[Escrow(s, p, a)] # ledger[Escrow(s, p, a)]
    BY <2>1
  <2>3. ~UNCHANGED ledger
    BY <2>1
  <2>4. ASSUME NEW w \in Workers, CommitCreate(w) PROVE FALSE
    <3>1. ledger'[Escrow(s, p, a)] >= ledger[Escrow(s, p, a)]
      BY <1>1, <2>4, CommitCreateEscrow
    <3>2. ledger'[Escrow(s, p, a)] \in Int
      BY <1>1, <2>4, CommitStep, AccountKeys DEF CommitCreate, Ledgers
    <3> QED
      BY <2>1, <3>1, <3>2
  <2>5. ASSUME NEW w \in Workers, CommitClose(w) PROVE Released(s)
    <3>1. s = tx[w].req.session
      BY <1>1, <2>2, <2>5, CommitCloseEntries
    <3>2. tx[w].pc = "updated" /\ sessions' = [sessions EXCEPT ![s] = "closed"]
      BY <2>5, <3>1 DEF CommitClose
    <3>3. tx'[w] = Idle
      BY <1>1, <2>5, CommitStep DEF CommitClose
    <3>4. Authorised(s, tx[w].req.sigs)
      BY <1>1, <3>1, <3>2 DEF IndInv, TransactionOK, Closing
    <3>5. sessions'[s] = "closed"
      BY <1>1, <3>2 DEF IndInv, TypeOK
    <3> QED
      BY <3>1, <3>2, <3>3, <3>4, <3>5
  <2>6. ASSUME NEW q \in Addresses, NEW b \in Assets, NEW n \in CustodyAmounts,
               CustodyEntry(q, b, n)
        PROVE  FALSE
    BY <1>1, <2>2, <2>6, CustodyKeepsEscrow
  <2> QED
    BY <1>1, <2>3, <2>4, <2>5, <2>6, CommittedChange
<1>2. IndInv /\ [Next]_vars => [A]_vars
  BY <1>1
<1> QED
  BY <1>2, Invariance, PTL DEF Spec, EscrowReleaseAuthorised

\* The status of a session and its funds change in the same commits.
LEMMA StatusChange ==
    ASSUME IndInv, Next, NEW s \in SessionIds
    PROVE  \/ /\ sessions'[s] = sessions[s]
              /\ sessions[s] = "open" =>
                    \A p \in Addresses, a \in Assets :
                       ledger'[Escrow(s, p, a)] = ledger[Escrow(s, p, a)]
           \/ sessions[s] = "none" /\ sessions'[s] = "open"
           \/ sessions[s] \in {"open", "closed"} /\ sessions'[s] = "closed"
<1> DEFINE Same == /\ sessions'[s] = sessions[s]
                   /\ \A p \in Addresses, a \in Assets :
                         ledger'[Escrow(s, p, a)] = ledger[Escrow(s, p, a)]
<1>1. sessions \in [SessionIds -> {"none", "open", "closed"}]
  BY DEF IndInv, TypeOK
<1>2. CASE UNCHANGED <<ledger, sessions>>
  BY <1>2
<1>3. ASSUME NEW w \in Workers, CommitCreate(w)
      PROVE  Same \/ (sessions[s] = "none" /\ sessions'[s] = "open")
  <2>1. CASE s = tx[w].req.session
    BY <1>1, <1>3, <2>1 DEF CommitCreate, IndInv, RowsLocked
  <2>2. CASE s # tx[w].req.session
    BY <1>1, <1>3, <2>2, CommitCreateEscrow DEF CommitCreate
  <2> QED
    BY <2>1, <2>2
<1>4. ASSUME NEW w \in Workers, CommitClose(w)
      PROVE  Same \/ (sessions[s] \in {"open", "closed"} /\ sessions'[s] = "closed")
  <2>1. CASE s = tx[w].req.session
    BY <1>1, <1>4, <2>1 DEF CommitClose, IndInv, RowsLocked, Closing
  <2>2. CASE s # tx[w].req.session
    BY <1>1, <1>4, <2>2, CommitCloseEntries DEF CommitClose
  <2> QED
    BY <2>1, <2>2
<1>5. ASSUME NEW q \in Addresses, NEW b \in Assets, NEW n \in CustodyAmounts,
             CustodyEntry(q, b, n)
      PROVE  Same
  BY <1>5, CustodyKeepsEscrow DEF CustodyEntry
<1> QED
  BY <1>2, <1>3, <1>4, <1>5, CommittedChange

\* Sessions are created once and never reopened, and the funds of an open one
\* stay put, for any number of overlapping transactions.
THEOREM StatusIsMonotone == Spec => StatusMonotone
<1> DEFINE A == \A s \in SessionIds :
          sessions'[s] # sessions[s] =>
             <<sessions[s], sessions'[s]>> \in {<<"none", "open">>, <<"open", "closed">>}
<1>1. IndInv /\ [Next]_vars => [A]_vars
  BY StatusChange
<1> QED
  BY <1>1, Invariance, PTL DEF Spec, StatusMonotone

THEOREM OpenFundsAreFrozen == Spec => OpenFundsFrozen
<1> DEFINE A == \A s \in SessionIds :
          sessions[s] = "open" /\ sessions'[s] = "open" =>
             \A p \in Addresses, a \in Assets :
                ledger'[Escrow(s, p, a)] = ledger[Escrow(s, p, a)]
<1>1. IndInv /\ [Next]_vars => [A]_vars
  BY StatusChange
<1> QED
  BY <1>1, Invariance, PTL DEF Spec, OpenFundsFrozen

-------------------------------------------------------------------------------
(***************************************************************************)
(* Which sessions can be closed at all, for every definition, request and  *)
(* driver: the rows of a close are of distinct participants and as many as *)
(* the definition has, so participants that are not distinct have none, by *)
(* the pigeonhole principle; and its signers carry the quorum.             *)
(***************************************************************************)

\* If as many names are distinct and all among others, those are distinct too.
LEMMA DistinctNames ==
    ASSUME NEW S, IsFiniteSet(S), NEW T, NEW f \in Injection(S, T), NEW g \in Surjection(S, T)
    PROVE  g \in Injection(S, T) /\ f \in Surjection(S, T)
<1>1. IsFiniteSet(T) /\ Cardinality(T) <= Cardinality(S)
  BY FS_Surjection
<1>2. Cardinality(S) <= Cardinality(T)
  BY <1>1, FS_Injection
<1>3. Cardinality(T) = Cardinality(S)
  BY <1>1, <1>2, FS_CardinalityType
<1> QED
  BY <1>1, <1>3, FS_Injection, FS_Surjection

-------------------------------------------------------------------------------
\* The inductive invariant about closing.

\* The rows a close has placed, and what a complete one says of its session.
Placed(t) ==
    t.pc = "sum" =>
        /\ \A i \in 1..(t.row - 1) :
              Lower[t.req.rows[i].participant] \in LowerSet(Participants(t.req.session))
        /\ \A i, j \in 1..(t.row - 1) :
              Lower[t.req.rows[i].participant] = Lower[t.req.rows[j].participant] => i = j

CloseOK(t) ==
    /\ Placed(t)
    /\ t.pc = "updated" => Redeemable(t.req.session)

CloseInv ==
    /\ \A w \in Workers : CloseOK(tx[w])
    /\ OnlyRedeemableClose

LEMMA CloseInit == Init => CloseInv
BY DEF Init, CloseInv, CloseOK, Placed, Idle, OnlyRedeemableClose

\* A step of one worker that commits nothing has its transaction to look at.
LEMMA QuietClose ==
    ASSUME IndInv, CloseInv, NEW w \in Workers, NEW t, CloseOK(t),
           tx' = [tx EXCEPT ![w] = t], UNCHANGED sessions
    PROVE  CloseInv'
<1>1. \A v \in Workers : CloseOK(tx'[v])
  BY DEF CloseInv, IndInv, TypeOK
<1> QED
  BY <1>1 DEF CloseInv, CloseOK, Placed, OnlyRedeemableClose

LEMMA DistributeClose ==
    ASSUME IndInv, CloseInv, NEW w \in Workers, DistributeRow(w) PROVE CloseInv'
<1> DEFINE u == tx[w]
           row == u.req.rows[u.row]
           share == Visible(w, Escrow(u.req.session, row.participant, row.asset))
           own == Settle(u.own, u.req.session, row, share)
           t == [u EXCEPT !.own = own, !.allocated[row.asset] = @ + row.amount,
                          !.row = u.row + 1]
<1>1. u \in Transactions /\ u.row \in Nat \ {0}
  BY DEF IndInv, TypeOK, Transactions
<1>2. tx' = [tx EXCEPT ![w] = t]
  BY <1>1 DEF DistributeRow, IndInv, TypeOK, Transactions
<1>3. t.pc = "sum" /\ t.req = u.req /\ t.row = u.row + 1 /\ u.pc = "sum"
  BY <1>1 DEF Transactions, DistributeRow
<1> HIDE DEF t
<1>4. Placed(u) /\ Placeable(w, row)
  BY DEF CloseInv, CloseOK, DistributeRow
<1>5. Placed(t)
  <2>1. 1..(t.row - 1) = (1..(u.row - 1)) \cup {u.row}
    BY <1>1, <1>3
  <2>2. \A i \in 1..(u.row - 1) : i # u.row
    BY <1>1
  <2> QED
    BY <1>3, <1>4, <2>1, <2>2 DEF Placed, Placeable
<1>6. CloseOK(t)
  BY <1>3, <1>5 DEF CloseOK
<1> QED
  BY <1>2, <1>6, QuietClose DEF t, DistributeRow

\* When all rows are placed, the participants are distinct and each has a row.
LEMMA EveryoneHasOneRow ==
    ASSUME IndInv, CloseInv, NEW w \in Workers, UpdateSession(w)
    PROVE  LET u == tx[w]
               s == u.req.session
           IN  /\ \A i, j \in DOMAIN Participants(s) :
                     Lower[Participants(s)[i]] = Lower[Participants(s)[j]] => i = j
               /\ \A j \in DOMAIN Participants(s) :
                     \E i \in 1..(u.row - 1) :
                        /\ i \in DOMAIN u.req.rows
                        /\ Lower[u.req.rows[i].participant] = Lower[Participants(s)[j]]
<1> DEFINE u == tx[w]
           s == u.req.session
           n == Len(u.req.rows)
<1>1. u \in Transactions /\ TransactionOK(u) /\ u.pc = "sum" /\ u.row \in Nat \ {0}
  BY DEF IndInv, TypeOK, UpdateSession, Transactions
<1>2. u.req \in CloseRequests
  BY <1>1 DEF TransactionOK, Closing
<1>3. s \in SessionIds /\ u.req.rows \in Seq(Rows) /\ Participants(s) \in Seq(Addresses)
  BY <1>2, CloseRow_Typed, DefinitionType DEF Participants, AppDefinitions
<1>4. /\ n \in Nat /\ Len(Participants(s)) = n
      /\ DOMAIN Participants(s) = 1..n /\ DOMAIN u.req.rows = 1..n
      /\ 1..n \subseteq 1..(u.row - 1)
  BY <1>1, <1>3 DEF UpdateSession, FullyRedistributed
<1> DEFINE I == 1..n
           Names == LowerSet(Participants(s))
           placed == [i \in I |-> Lower[u.req.rows[i].participant]]
           named == [i \in I |-> Lower[Participants(s)[i]]]
<1>5. IsFiniteSet(I)
  BY <1>4, FS_Interval
<1>6. Placed(u)
  BY DEF CloseInv, CloseOK
<1>7. /\ placed \in [I -> Names]
      /\ \A i, j \in I : placed[i] = placed[j] => i = j
  BY <1>1, <1>4, <1>6 DEF Placed
<1>8. named \in [I -> Names] /\ \A x \in Names : \E i \in I : named[i] = x
  BY <1>4 DEF LowerSet
<1>9. /\ \A i, j \in I : named[i] = named[j] => i = j
      /\ \A x \in Names : \E i \in I : placed[i] = x
  <2> HIDE DEF placed, named, I, Names
  <2>1. placed \in Injection(I, Names)
    BY <1>7, Fun_IsInj
  <2>2. named \in Surjection(I, Names)
    BY <1>8, Fun_IsSurj
  <2>3. named \in Injection(I, Names) /\ placed \in Surjection(I, Names)
    BY <1>5, <2>1, <2>2, DistinctNames
  <2>4. \A i, j \in I : named[i] = named[j] => i = j
    BY <2>3, Fun_InjectionProperties, Zenon
  <2>5. \A x \in Names : \E i \in I : placed[i] = x
    BY <2>3, Fun_SurjectionProperties, Zenon
  <2> QED
    BY <2>4, <2>5
<1>10. \A j \in DOMAIN Participants(s) : Lower[Participants(s)[j]] \in Names
  BY DEF LowerSet
<1> QED
  BY <1>4, <1>9, <1>10

LEMMA UpdateClose ==
    ASSUME IndInv, CloseInv, NEW w \in Workers, UpdateSession(w) PROVE CloseInv'
<1> DEFINE u == tx[w]
           s == u.req.session
           t == [u EXCEPT !.pc = "updated"]
<1>1. u \in Transactions /\ TransactionOK(u) /\ u.pc = "sum"
  BY DEF IndInv, TypeOK, UpdateSession
<1>2. u.req \in CloseRequests /\ Authorised(s, u.req.sigs)
  BY <1>1 DEF TransactionOK, Closing
<1>3. \A i, j \in DOMAIN Participants(s) :
         Lower[Participants(s)[i]] = Lower[Participants(s)[j]] => i = j
  BY EveryoneHasOneRow
<1>4. /\ LowerSet(u.req.sigs) \in SUBSET LowerSet(Participants(s))
      /\ \A low \in LowerSet(u.req.sigs) : WeightOf(s, low) > 0
      /\ TotalWeight(s, LowerSet(u.req.sigs)) >= Quorum(s)
  BY <1>2 DEF Authorised
<1>5. Redeemable(s)
  BY <1>3, <1>4 DEF Redeemable
<1>6. t.pc = "updated" /\ t.req = u.req
  BY <1>1 DEF Transactions
<1> HIDE DEF t
<1>7. CloseOK(t)
  BY <1>5, <1>6 DEF CloseOK, Placed
<1> QED
  BY <1>7, QuietClose DEF t, UpdateSession

LEMMA CommitCloses ==
    ASSUME IndInv, CloseInv, NEW w \in Workers, CommitClose(w) PROVE CloseInv'
<1>1. Redeemable(tx[w].req.session)
  BY DEF CloseInv, CloseOK, CommitClose
<1>2. \A s \in SessionIds : sessions'[s] = "closed" => sessions[s] = "closed" \/ s = tx[w].req.session
  BY DEF CommitClose, IndInv, TypeOK
<1>3. \A v \in Workers : CloseOK(tx'[v])
  BY DEF CommitClose, CloseInv, IndInv, TypeOK, CloseOK, Placed, Idle
<1>4. \A s \in SessionIds : sessions'[s] = "closed" => Redeemable(s)
  BY <1>1, <1>2 DEF CloseInv, OnlyRedeemableClose
<1> QED
  BY <1>3, <1>4 DEF CloseInv, CloseOK, Placed, OnlyRedeemableClose

LEMMA CloseStep == IndInv /\ CloseInv /\ [Next]_vars => CloseInv'
<1> SUFFICES ASSUME IndInv, CloseInv, [Next]_vars PROVE CloseInv'
  OBVIOUS
<1>0. CloseOK(Idle)
  BY DEF CloseOK, Placed, Idle
<1>1. ASSUME NEW w \in Workers, NEW r \in CreateRequests, BeginCreate(w, r) PROVE CloseInv'
  <2> DEFINE t == [Idle EXCEPT !.pc = "create", !.req = r]
  <2>1. CloseOK(t)
    BY DEF CloseOK, Placed, Idle
  <2> QED
    BY <1>1, <2>1, QuietClose DEF BeginCreate
<1>2. ASSUME NEW w \in Workers, CreateRow(w) PROVE CloseInv'
  <2>1. PICK t \in Transactions :
            tx' = [tx EXCEPT ![w] = t] /\ t.pc = "create" /\ UNCHANGED sessions
    BY <1>2, CreateRowEntries DEF CreateRow
  <2>2. CloseOK(t)
    BY <2>1 DEF CloseOK, Placed
  <2> QED
    BY <2>1, <2>2, QuietClose
<1>3. ASSUME NEW w \in Workers, InsertSession(w) PROVE CloseInv'
  <2> DEFINE t == [tx[w] EXCEPT !.pc = "inserted"]
  <2>1. t.pc = "inserted"
    BY DEF IndInv, TypeOK, Transactions
  <2>2. CloseOK(t)
    BY <2>1 DEF CloseOK, Placed
  <2> HIDE DEF t
  <2> QED
    BY <1>3, <2>2, QuietClose DEF InsertSession, t
<1>4. ASSUME NEW w \in Workers, CommitCreate(w) PROVE CloseInv'
  <2>1. \A s \in SessionIds : sessions'[s] = "closed" => sessions[s] = "closed"
    BY <1>4 DEF CommitCreate, IndInv, TypeOK
  <2>2. \A v \in Workers : CloseOK(tx'[v])
    BY <1>0, <1>4 DEF CommitCreate, CloseInv, IndInv, TypeOK
  <2> QED
    BY <2>1, <2>2 DEF CloseInv, CloseOK, Placed, OnlyRedeemableClose
<1>5. ASSUME NEW w \in Workers, NEW r \in CloseRequests, BeginClose(w, r) PROVE CloseInv'
  <2> DEFINE t == [Idle EXCEPT !.pc = "sum", !.req = r, !.todo = BalancesToSum(r)]
  <2>1. CloseOK(t)
    BY DEF CloseOK, Placed, Idle
  <2> QED
    BY <1>5, <2>1, QuietClose DEF BeginClose
<1>6. ASSUME NEW w \in Workers, NEW x \in tx[w].todo, SumBalance(w, x[1], x[2]) PROVE CloseInv'
  <2> DEFINE u == tx[w]
             k == Escrow(u.req.session, Participants(u.req.session)[x[1]], x[2])
             t == [u EXCEPT !.todo = @ \ {<<x[1], x[2]>>}, !.funds[x[2]] = @ + Visible(w, k)]
  <2>1. t.pc = u.pc /\ t.req = u.req /\ t.row = u.row
    BY DEF IndInv, TypeOK, Transactions
  <2>2. tx' = [tx EXCEPT ![w] = t] /\ UNCHANGED sessions
    BY <1>6 DEF SumBalance, IndInv, TypeOK, Transactions
  <2> HIDE DEF t
  <2>3. CloseOK(t)
    BY <2>1 DEF CloseOK, Placed, CloseInv
  <2> QED
    BY <2>2, <2>3, QuietClose
<1>7. ASSUME NEW w \in Workers, DistributeRow(w) PROVE CloseInv'
  BY <1>7, DistributeClose
<1>8. ASSUME NEW w \in Workers, UpdateSession(w) PROVE CloseInv'
  BY <1>8, UpdateClose
<1>9. ASSUME NEW w \in Workers, CommitClose(w) PROVE CloseInv'
  BY <1>9, CommitCloses
<1>10. ASSUME NEW w \in Workers, Rollback(w) PROVE CloseInv'
  BY <1>0, <1>10, QuietClose DEF Rollback
<1>11. ASSUME NEW p \in Addresses, NEW a \in Assets, NEW n \in CustodyAmounts,
              CustodyEntry(p, a, n)
       PROVE CloseInv'
  BY <1>11 DEF CustodyEntry, CloseInv, CloseOK, Placed, OnlyRedeemableClose
<1>12. CASE UNCHANGED vars
  BY <1>12 DEF vars, CloseInv, CloseOK, Placed, OnlyRedeemableClose
<1> QED
  BY <1>1, <1>2, <1>3, <1>4, <1>5, <1>6, <1>7, <1>8, <1>9, <1>10, <1>11, <1>12 DEF Next

\* Under both drivers and any overlap, only sessions whose definition some close
\* request can satisfy are ever closed.
THEOREM OnlyRedeemableCloses == Spec => []OnlyRedeemableClose
<1>1. CloseInv => OnlyRedeemableClose
  BY DEF CloseInv
<1> QED
  BY <1>1, CloseInit, CloseStep, Invariance, PTL DEF Spec
===============================================================================
