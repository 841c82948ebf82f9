------------------------ MODULE AppSessionSerialProofs ------------------------
(***************************************************************************)
(* What serial transactions (SQLite) add to AppSessionProofs: a closing    *)
(* session is still open, so its funds move only with its status, and      *)
(* what a transaction checks is what it commits against, so it overdraws   *)
(* no account.  Under PostgreSQL both fail (MCAppSession_double_close.cfg, *)
(* MCAppSession_overdraft.cfg).  The second half adds up what a close      *)
(* reads and writes, row by row, and shows that the handlers implement     *)
(* AppEscrow and conserve funds.                                           *)
(***************************************************************************)
EXTENDS AppSessionProofs, Sums

\* One transaction at a time, none of an idle worker, and a closing session open.
Serial ==
    /\ \A v, w \in Workers : tx[v].pc # "idle" /\ tx[w].pc # "idle" => v = w
    /\ \A w \in Workers : tx[w].pc = "idle" => tx[w].own = EmptyLedger
    /\ \A w \in Workers : tx[w].pc \in Closing => sessions[tx[w].req.session] = "open"

SerialInv == IndInv /\ Serial

LEMMA SerialInit == Init => SerialInv
<1> SUFFICES ASSUME Init PROVE SerialInv
  OBVIOUS
<1>1. \A w \in Workers : tx[w].pc = "idle" /\ tx[w].own = EmptyLedger
  BY DEF Init, Idle
<1> QED
  BY <1>1, InitInv DEF SerialInv, Serial, Closing

\* The step of a worker that is, or becomes, the only active one.
LEMMA SerialWorker ==
    ASSUME TypeOK, Serial, NEW w \in Workers, NEW t,
           tx' = [tx EXCEPT ![w] = t], UNCHANGED sessions,
           tx[w].pc # "idle" \/ (\A v \in Workers : tx[v].pc = "idle"),
           t.pc = "idle" => t.own = EmptyLedger,
           t.pc \in Closing => sessions[t.req.session] = "open"
    PROVE  Serial'
<1>1. /\ tx'[w] = t
      /\ \A v \in Workers \ {w} : tx'[v] = tx[v]
  BY DEF TypeOK
<1>2. \A v \in Workers \ {w} : tx[v].pc = "idle"
  BY DEF Serial
<1> QED
  BY <1>1, <1>2 DEF Serial, Closing

LEMMA SerialStep ==
    ASSUME Driver = "sqlite" PROVE SerialInv /\ [Next]_vars => SerialInv'
<1> SUFFICES ASSUME SerialInv, [Next]_vars PROVE Serial'
  BY StepInv DEF SerialInv
<1> USE DEF SerialInv
<1>0. TypeOK /\ tx \in [Workers -> Transactions]
  BY DEF IndInv, TypeOK
<1>1. ASSUME NEW w \in Workers, NEW r \in CreateRequests, BeginCreate(w, r) PROVE Serial'
  <2> DEFINE t == [Idle EXCEPT !.pc = "create", !.req = r]
  <2>1. t.pc = "create" /\ tx' = [tx EXCEPT ![w] = t]
    BY <1>1, BeginCreateType DEF BeginCreate
  <2> HIDE DEF t
  <2> QED
    BY <1>0, <1>1, <2>1, SerialWorker DEF BeginCreate, MayBegin, Closing
<1>2. ASSUME NEW w \in Workers, CreateRow(w) PROVE Serial'
  <2>1. PICK t \in Transactions : tx' = [tx EXCEPT ![w] = t] /\ t.pc = "create"
    BY <1>2, CreateRowEntries
  <2> QED
    BY <1>0, <1>2, <2>1, SerialWorker DEF CreateRow, Closing
<1>3. ASSUME NEW w \in Workers, InsertSession(w) PROVE Serial'
  <2> DEFINE t == [tx[w] EXCEPT !.pc = "inserted"]
  <2>1. t.pc = "inserted" /\ tx' = [tx EXCEPT ![w] = t] /\ tx[w].pc # "idle"
    BY <1>0, <1>3 DEF InsertSession, Transactions
  <2> HIDE DEF t
  <2> QED
    BY <1>0, <1>3, <2>1, SerialWorker DEF InsertSession, Closing
<1>4. ASSUME NEW w \in Workers, CommitCreate(w) \/ CommitClose(w) PROVE Serial'
  <2>1. /\ \A v \in Workers \ {w} : tx[v].pc = "idle"
        /\ \A v \in Workers : tx'[v].pc = "idle" /\ tx'[v].own = EmptyLedger
    BY <1>0, <1>4 DEF CommitCreate, CommitClose, Serial, Idle
  <2> QED
    BY <2>1 DEF Serial, Closing
<1>5. ASSUME NEW w \in Workers, NEW r \in CloseRequests, BeginClose(w, r) PROVE Serial'
  <2> DEFINE t == [Idle EXCEPT !.pc = "sum", !.req = r, !.todo = BalancesToSum(r)]
  <2>1. /\ t.pc = "sum" /\ t.req = r /\ tx' = [tx EXCEPT ![w] = t]
        /\ sessions[r.session] = "open"
    BY <1>5, BeginCloseType DEF BeginClose
  <2> HIDE DEF t
  <2> QED
    BY <1>0, <1>5, <2>1, SerialWorker DEF BeginClose, MayBegin
<1>6. ASSUME NEW w \in Workers, NEW x \in tx[w].todo, SumBalance(w, x[1], x[2]) PROVE Serial'
  <2> DEFINE k == Escrow(tx[w].req.session, Participants(tx[w].req.session)[x[1]], x[2])
             t == [tx[w] EXCEPT !.todo = tx[w].todo \ {<<x[1], x[2]>>},
                                !.funds[x[2]] = tx[w].funds[x[2]] + Visible(w, k)]
  <2>1. t.pc = tx[w].pc /\ t.req = tx[w].req
    BY <1>0 DEF Transactions
  <2>2. tx[w].pc = "sum" /\ sessions[tx[w].req.session] = "open" /\ UNCHANGED sessions
    BY <1>6 DEF SumBalance, Serial, Closing
  <2>3. tx' = [tx EXCEPT ![w] = t]
    BY <1>0, <1>6 DEF SumBalance, Transactions
  <2> HIDE DEF t
  <2> QED
    BY <1>0, <2>1, <2>2, <2>3, SerialWorker
<1>7. ASSUME NEW w \in Workers, DistributeRow(w) PROVE Serial'
  <2>1. PICK t \in Transactions :
           tx' = [tx EXCEPT ![w] = t] /\ t.pc = "sum" /\ t.req = tx[w].req
    BY <1>7, DistributeRowEntries
  <2>2. tx[w].pc = "sum" /\ sessions[tx[w].req.session] = "open" /\ UNCHANGED sessions
    BY <1>7 DEF DistributeRow, Serial, Closing
  <2> QED
    BY <1>0, <2>1, <2>2, SerialWorker
<1>8. ASSUME NEW w \in Workers, UpdateSession(w) PROVE Serial'
  <2> DEFINE t == [tx[w] EXCEPT !.pc = "updated"]
  <2>1. t.pc = "updated" /\ t.req = tx[w].req /\ tx' = [tx EXCEPT ![w] = t]
    BY <1>0, <1>8 DEF UpdateSession, Transactions
  <2>2. tx[w].pc = "sum" /\ sessions[tx[w].req.session] = "open"
    BY <1>8 DEF UpdateSession, Serial, Closing
  <2> HIDE DEF t
  <2> QED
    BY <1>0, <1>8, <2>1, <2>2, SerialWorker DEF UpdateSession
<1>9. ASSUME NEW w \in Workers, Rollback(w) PROVE Serial'
  <2>1. Idle.pc = "idle" /\ Idle.own = EmptyLedger
    BY DEF Idle
  <2> QED
    BY <1>0, <1>9, <2>1, SerialWorker DEF Rollback, Closing
<1>10. ASSUME NEW p \in Addresses, NEW a \in Assets, NEW n \in CustodyAmounts,
              CustodyEntry(p, a, n)
       PROVE Serial'
  BY <1>10 DEF CustodyEntry, Serial
<1>11. CASE UNCHANGED vars
  BY <1>11 DEF vars, Serial
<1> QED
  BY <1>1, <1>2, <1>3, <1>4, <1>5, <1>6, <1>7, <1>8, <1>9, <1>10, <1>11 DEF Next

\* The funds of a session come with its creation and go with its closing.
THEOREM FundsFollowStatus ==
    ASSUME Driver = "sqlite" PROVE Spec => FundsMoveWithStatus
<1> DEFINE A == \A s \in SessionIds :
          (\E p \in Addresses, a \in Assets :
              ledger'[Escrow(s, p, a)] # ledger[Escrow(s, p, a)])
          => sessions'[s] # sessions[s]
<1>1. ASSUME SerialInv, Next PROVE A
  <2> SUFFICES ASSUME NEW s \in SessionIds, sessions'[s] = sessions[s]
               PROVE  \A p \in Addresses, a \in Assets :
                         ledger'[Escrow(s, p, a)] = ledger[Escrow(s, p, a)]
    OBVIOUS
  <2>0. IndInv /\ sessions \in [SessionIds -> {"none", "open", "closed"}]
    BY <1>1 DEF SerialInv, IndInv, TypeOK
  <2>1. CASE UNCHANGED <<ledger, sessions>>
    BY <2>1
  <2>2. ASSUME NEW w \in Workers, CommitCreate(w) PROVE s # tx[w].req.session
    BY <2>0, <2>2 DEF CommitCreate, IndInv, RowsLocked
  <2>3. ASSUME NEW w \in Workers, CommitClose(w) PROVE s # tx[w].req.session
    BY <1>1, <2>0, <2>3 DEF CommitClose, SerialInv, Serial, Closing
  <2> QED
    BY <1>1, <2>0, <2>1, <2>2, <2>3, CommittedChange, CommitCreateEscrow,
       CommitCloseEntries, CustodyKeepsEscrow
<1>2. SerialInv /\ [Next]_vars => [A]_vars
  BY <1>1
<1> QED
  BY <1>2, SerialInit, SerialStep, PTL DEF Spec, FundsMoveWithStatus

-------------------------------------------------------------------------------
\* No session overdraws an account, whatever custody events do.

\* What a transaction has debited so far was there.
CoveredIn(t, l) == \A k \in Keys : t.own[k] < 0 => l[k] + t.own[k] >= 0

Covered == \A w \in Workers : CoveredIn(tx[w], ledger)

CoveredInv == SerialInv /\ Covered

LEMMA CoveredInit == Init => CoveredInv
BY SerialInit, EmptyEntries DEF Init, CoveredInv, Covered, CoveredIn, Idle

\* A step of one worker that leaves what is committed alone.
LEMMA CoveredWorker ==
    ASSUME TypeOK, Covered, NEW w \in Workers, NEW t,
           tx' = [tx EXCEPT ![w] = t], UNCHANGED ledger,
           CoveredIn(t, ledger)
    PROVE  Covered'
<1>1. /\ tx'[w] = t
      /\ \A v \in Workers \ {w} : tx'[v] = tx[v]
  BY DEF TypeOK
<1> QED
  BY <1>1 DEF Covered

LEMMA NothingOwnCovered ==
    ASSUME NEW t, t.own = EmptyLedger, NEW l PROVE CoveredIn(t, l)
BY EmptyEntries DEF CoveredIn

\* The row a create is about to insert.
LEMMA CreatingRow ==
    ASSUME IndInv, NEW w \in Workers, CreateRow(w)
    PROVE  LET u == tx[w]
           IN  /\ u.own \in Ledgers /\ ledger \in Ledgers
               /\ u.req.session \in SessionIds /\ u.req.rows[u.row] \in Rows
<1> DEFINE u == tx[w]
<1>1. /\ u.req \in CreateRequests /\ u.req.session \in SessionIds
      /\ u.row \in Nat \ {0} /\ u.own \in Ledgers /\ ledger \in Ledgers
  BY CreatingSession DEF CreateRow, Creating, IndInv, TypeOK, Transactions
<1>2. Len(u.req.rows) \in Nat
  BY <1>1, CreateRequestsType
<1>3. u.row <= Len(u.req.rows)
  BY DEF CreateRow
<1>4. u.row \in 1..Len(u.req.rows)
  BY <1>1, <1>2, <1>3
<1> QED
  BY <1>1, <1>4, CreateRow_Typed

LEMMA CoveredStep ==
    ASSUME Driver = "sqlite" PROVE CoveredInv /\ [Next]_vars => CoveredInv'
<1> SUFFICES ASSUME CoveredInv, [Next]_vars PROVE Covered'
  BY SerialStep DEF CoveredInv
<1>0. /\ IndInv /\ TypeOK /\ Covered /\ SerialInv
      /\ tx \in [Workers -> Transactions]
  BY DEF CoveredInv, SerialInv, IndInv, TypeOK
<1>1. ASSUME NEW w \in Workers, NEW r \in CreateRequests, BeginCreate(w, r) PROVE Covered'
  <2> DEFINE t == [Idle EXCEPT !.pc = "create", !.req = r]
  <2>1. t.own = EmptyLedger /\ tx' = [tx EXCEPT ![w] = t] /\ UNCHANGED ledger
    BY <1>1, BeginCreateType DEF BeginCreate
  <2> HIDE DEF t
  <2> QED
    BY <1>0, <2>1, NothingOwnCovered, CoveredWorker
<1>2. ASSUME NEW w \in Workers, CreateRow(w) PROVE Covered'
  <2> DEFINE u == tx[w]
             row == u.req.rows[u.row]
  <2>1. PICK t \in Transactions : /\ tx' = [tx EXCEPT ![w] = t]
                                  /\ t.own = Fund(u.own, u.req.session, row)
    BY <1>0, <1>2, CreateRowEntries
  <2>2. u.req.session \in SessionIds /\ u.own \in Ledgers /\ ledger \in Ledgers
    BY <1>0, <1>2, CreatingRow
  <2>3. row \in Rows
    BY <1>0, <1>2, CreatingRow
  <2>4. UNCHANGED ledger /\ row.amount >= 0
        /\ row.amount <= Visible(w, Unified(row.participant, row.asset))
    BY <1>2 DEF CreateRow, SufficientFunds
  <2>5. /\ row.amount \in Int
        /\ Unified(row.participant, row.asset) \in Keys
    BY <2>3, UnifiedKey DEF Rows
  <2>6. row.amount <= ledger[Unified(row.participant, row.asset)]
                        + u.own[Unified(row.participant, row.asset)]
    BY <1>0, <2>4, <2>5, VisibleType
  <2>7. \A k \in Keys :
           t.own[k] = IF k = Unified(row.participant, row.asset) THEN u.own[k] - row.amount
                      ELSE IF k = Escrow(u.req.session, row.participant, row.asset)
                           THEN u.own[k] + row.amount ELSE u.own[k]
    BY <2>1, <2>2, <2>3, FundEntries
  <2> HIDE DEF row
  <2>8. CoveredIn(t, ledger)
    <3> SUFFICES ASSUME NEW k \in Keys, t.own[k] < 0 PROVE ledger[k] + t.own[k] >= 0
      BY DEF CoveredIn
    <3>1. /\ ledger[k] \in Int /\ u.own[k] \in Int
          /\ u.own[k] < 0 => ledger[k] + u.own[k] >= 0
      BY <1>0, <2>2 DEF Ledgers, Covered, CoveredIn
    <3> QED
      BY <2>4, <2>5, <2>6, <2>7, <3>1
  <2> QED
    BY <1>0, <2>1, <2>4, <2>8, CoveredWorker
<1>3. ASSUME NEW w \in Workers, InsertSession(w) \/ UpdateSession(w) PROVE Covered'
  <2>1. PICK pc : tx' = [tx EXCEPT ![w] = [tx[w] EXCEPT !.pc = pc]]
    BY <1>3 DEF InsertSession, UpdateSession
  <2>2. UNCHANGED ledger /\ [tx[w] EXCEPT !.pc = pc].own = tx[w].own
    BY <1>0, <1>3 DEF InsertSession, UpdateSession, Transactions
  <2> QED
    BY <1>0, <2>1, <2>2, CoveredWorker DEF Covered, CoveredIn
<1>4. ASSUME NEW w \in Workers, CommitCreate(w) \/ CommitClose(w) PROVE Covered'
  <2>1. tx' = [tx EXCEPT ![w] = Idle] /\ tx[w].pc # "idle"
    BY <1>4 DEF CommitCreate, CommitClose
  <2>2. \A v \in Workers : tx'[v].own = EmptyLedger
    BY <1>0, <2>1 DEF SerialInv, Serial, Idle
  <2> QED
    BY <2>2, NothingOwnCovered DEF Covered
<1>5. ASSUME NEW w \in Workers, NEW r \in CloseRequests, BeginClose(w, r) PROVE Covered'
  <2> DEFINE t == [Idle EXCEPT !.pc = "sum", !.req = r, !.todo = BalancesToSum(r)]
  <2>1. t.own = EmptyLedger /\ tx' = [tx EXCEPT ![w] = t] /\ UNCHANGED ledger
    BY <1>5, BeginCloseType DEF BeginClose
  <2> HIDE DEF t
  <2> QED
    BY <1>0, <2>1, NothingOwnCovered, CoveredWorker
<1>6. ASSUME NEW w \in Workers, NEW x \in tx[w].todo, SumBalance(w, x[1], x[2]) PROVE Covered'
  <2> DEFINE k == Escrow(tx[w].req.session, Participants(tx[w].req.session)[x[1]], x[2])
             t == [tx[w] EXCEPT !.todo = tx[w].todo \ {<<x[1], x[2]>>},
                                !.funds[x[2]] = tx[w].funds[x[2]] + Visible(w, k)]
  <2>1. t.own = tx[w].own
    BY <1>0 DEF Transactions
  <2>2. UNCHANGED ledger
    BY <1>6 DEF SumBalance
  <2>3. tx' = [tx EXCEPT ![w] = t]
    BY <1>0, <1>6 DEF SumBalance, Transactions
  <2> HIDE DEF t
  <2> QED
    BY <1>0, <2>1, <2>2, <2>3, CoveredWorker DEF Covered, CoveredIn
<1>7. ASSUME NEW w \in Workers, DistributeRow(w) PROVE Covered'
  <2> DEFINE u == tx[w]
             row == u.req.rows[u.row]
             key == Escrow(u.req.session, row.participant, row.asset)
             share == Visible(w, key)
  <2>1. PICK t \in Transactions : /\ tx' = [tx EXCEPT ![w] = t]
                                  /\ t.own = Settle(u.own, u.req.session, row, share)
    BY <1>0, <1>7, DistributeRowEntries
  <2>2. row \in Rows /\ row.amount >= 0 /\ share \in Int
    BY <1>0, <1>7, DistributeRowEntries
  <2>3. /\ u.req.session \in SessionIds /\ u.own \in Ledgers /\ ledger \in Ledgers
        /\ UNCHANGED ledger
    BY <1>0, <1>7, ClosingSession DEF DistributeRow, Closing, TypeOK, Transactions
  <2>4. row.amount \in Int /\ key \in Keys
    BY <2>2, <2>3, AccountKeys DEF Rows
  <2>5. share = ledger[key] + u.own[key]
    BY <1>0, <2>4, VisibleType
  <2>6. \A k \in Keys :
           t.own[k] = IF k = key THEN u.own[k] - share
                      ELSE IF k = Unified(row.participant, row.asset)
                           THEN u.own[k] + row.amount ELSE u.own[k]
    BY <2>1, <2>2, <2>3, SettleEntries
  <2> HIDE DEF share, key, row
  <2>7. CoveredIn(t, ledger)
    <3> SUFFICES ASSUME NEW k \in Keys, t.own[k] < 0 PROVE ledger[k] + t.own[k] >= 0
      BY DEF CoveredIn
    <3>1. /\ ledger[k] \in Int /\ u.own[k] \in Int
          /\ u.own[k] < 0 => ledger[k] + u.own[k] >= 0
      BY <1>0, <2>3 DEF Ledgers, Covered, CoveredIn
    <3> QED
      BY <2>2, <2>4, <2>5, <2>6, <3>1
  <2> QED
    BY <1>0, <2>1, <2>3, <2>7, CoveredWorker
<1>9. ASSUME NEW w \in Workers, Rollback(w) PROVE Covered'
  <2>1. Idle.own = EmptyLedger
    BY DEF Idle
  <2> QED
    BY <1>0, <1>9, <2>1, NothingOwnCovered, CoveredWorker DEF Rollback
<1>10. ASSUME NEW p \in Addresses, NEW a \in Assets, NEW n \in CustodyAmounts,
              CustodyEntry(p, a, n)
       PROVE Covered'
  <2>1. UNCHANGED tx /\ \A v \in Workers : tx[v].own = EmptyLedger
    BY <1>0, <1>10 DEF CustodyEntry, MayBegin, SerialInv, Serial
  <2> QED
    BY <2>1, NothingOwnCovered DEF Covered
<1>11. CASE UNCHANGED vars
  BY <1>0, <1>11 DEF vars, Covered, CoveredIn
<1> QED
  BY <1>1, <1>2, <1>3, <1>4, <1>5, <1>6, <1>7, <1>9, <1>10, <1>11 DEF CoveredInv, Next

\* A commit takes no account below zero that was not below before.
LEMMA CommitNonNegative ==
    ASSUME CoveredInv, NEW w \in Workers, CommitCreate(w) \/ CommitClose(w), NEW k \in Keys
    PROVE  ledger[k] >= 0 => ledger'[k] >= 0
<1>1. ledger'[k] = ledger[k] + tx[w].own[k]
  BY CommitStep DEF CoveredInv, SerialInv, CommitCreate, CommitClose
<1>2. ledger[k] \in Int /\ tx[w].own[k] \in Int
  BY DEF CoveredInv, SerialInv, IndInv, TypeOK, Transactions, Ledgers
<1>3. tx[w].own[k] < 0 => ledger[k] + tx[w].own[k] >= 0
  BY DEF CoveredInv, Covered, CoveredIn
<1> QED
  BY <1>1, <1>2, <1>3

\* No participant spends more than it has: what a create checks is what it
\* commits against.  Custody events may overdraw an account, so the theorem is
\* about those that only credit.
THEOREM NothingOverdrawn ==
    ASSUME Driver = "sqlite", CustodyAmounts \subseteq Nat
    PROVE  Spec => []NoOverdraft
<1>1. Init => NoOverdraft
  BY EmptyEntries, UnifiedKey DEF Init, NoOverdraft
<1>2. CoveredInv /\ NoOverdraft /\ [Next]_vars => NoOverdraft'
  <2> SUFFICES ASSUME CoveredInv, NoOverdraft, [Next]_vars,
                      NEW p \in Addresses, NEW a \in Assets
               PROVE  ledger'[Unified(p, a)] >= 0
    BY DEF NoOverdraft
  <2>0. /\ Unified(p, a) \in Keys /\ ledger[Unified(p, a)] >= 0
        /\ ledger \in Ledgers
    BY UnifiedKey DEF NoOverdraft, CoveredInv, SerialInv, IndInv, TypeOK
  <2>1. CASE UNCHANGED ledger
    BY <2>0, <2>1
  <2>2. ASSUME NEW w \in Workers, CommitCreate(w) \/ CommitClose(w)
        PROVE  ledger'[Unified(p, a)] >= 0
    BY <2>0, <2>2, CommitNonNegative
  <2>3. ASSUME NEW q \in Addresses, NEW b \in Assets, NEW n \in CustodyAmounts,
               CustodyEntry(q, b, n)
        PROVE  ledger'[Unified(p, a)] >= 0
    <3>1. ledger' = Record(ledger, Unified(q, b), n) /\ n \in Int /\ n >= 0
      BY <2>3 DEF CustodyEntry
    <3>2. Unified(q, b) \in Keys /\ ledger[Unified(p, a)] \in Int
      BY <2>0, UnifiedKey DEF Ledgers
    <3> HIDE DEF Unified
    <3>3. ledger'[Unified(p, a)] = IF Unified(p, a) = Unified(q, b)
                                   THEN ledger[Unified(p, a)] + n ELSE ledger[Unified(p, a)]
      BY <2>0, <3>1, <3>2, RecordEntry
    <3> QED
      BY <2>0, <3>1, <3>2, <3>3
  <2> QED
    BY <2>1, <2>2, <2>3, CommittedChange DEF vars
<1> QED
  BY <1>1, <1>2, CoveredInit, CoveredStep, PTL DEF Spec

\* No session pays out more than the share of a participant that it debits.
THEOREM NothingOverpaid ==
    ASSUME Driver = "sqlite" PROVE Spec => []EscrowNonNegative
<1>1. Init => EscrowNonNegative
  BY EmptyEntries, AccountKeys DEF Init, EscrowNonNegative
<1>2. CoveredInv /\ EscrowNonNegative /\ [Next]_vars => EscrowNonNegative'
  <2> SUFFICES ASSUME CoveredInv, EscrowNonNegative, [Next]_vars,
                      NEW s \in SessionIds, NEW p \in Addresses, NEW a \in Assets
               PROVE  ledger'[Escrow(s, p, a)] >= 0
    BY DEF EscrowNonNegative
  <2>0. Escrow(s, p, a) \in Keys /\ ledger[Escrow(s, p, a)] >= 0 /\ IndInv
    BY AccountKeys DEF EscrowNonNegative, CoveredInv, SerialInv
  <2>1. CASE UNCHANGED ledger
    BY <2>0, <2>1
  <2>2. ASSUME NEW w \in Workers, CommitCreate(w) \/ CommitClose(w)
        PROVE  ledger'[Escrow(s, p, a)] >= 0
    BY <2>0, <2>2, CommitNonNegative
  <2>3. ASSUME NEW q \in Addresses, NEW b \in Assets, NEW n \in CustodyAmounts,
               CustodyEntry(q, b, n)
        PROVE  ledger'[Escrow(s, p, a)] >= 0
    BY <2>0, <2>3, CustodyKeepsEscrow
  <2> QED
    BY <2>1, <2>2, <2>3, CommittedChange DEF vars
<1> QED
  BY <1>1, <1>2, CoveredInit, CoveredStep, PTL DEF Spec

-------------------------------------------------------------------------------
\* What the handlers promise of a session's funds, for plain requests.

\* What the account of a session can hold.
MayHold(s, p, a) == OneAsset(s, a) /\ (Redeemable(s) => p \in Members(s))

\* Only open sessions hold funds.
SessionFunds ==
    \A s \in SessionIds, p \in Addresses, a \in Assets :
        ledger[Escrow(s, p, a)] # 0 => sessions[s] = "open" /\ MayHold(s, p, a)

\* The rows of a create move funds from participants to their shares.
CreateMoves(t) ==
    \A p \in Addresses, a \in Assets :
        /\ t.own[Unified(p, a)] = -t.own[Escrow(t.req.session, p, a)]
        /\ t.own[Escrow(t.req.session, p, a)] # 0 => MayHold(t.req.session, p, a)

\* A row of a close has debited the share.
Debited(t, p, a) ==
    \E i \in 1..(t.row - 1) : t.req.rows[i].participant = p /\ t.req.rows[i].asset = a

\* The participants whose balance is still to be read.
Unread(t, a) == {i \in DOMAIN Participants(t.req.session) : <<i, a>> \in t.todo}

\* The shares of a session, participant by participant and by address, and what
\* a transaction credits, when l is committed.
Shares(l, s, a) == [i \in DOMAIN Participants(s) |-> l[Escrow(s, Participants(s)[i], a)]]
Pot(l, s, a) == [p \in Addresses |-> l[Escrow(s, p, a)]]
Credits(t, a) == [p \in Addresses |-> t.own[Unified(p, a)]]

\* The rows of a close empty the shares they name, and the handler's sums are
\* those of the shares read and of the credits.
CloseMoves(t, l) ==
    LET s == t.req.session
    IN  /\ t.todo # {} => t.row = 1
        /\ \A p \in Addresses, a \in Assets :
              IF Debited(t, p, a) THEN l[Escrow(s, p, a)] + t.own[Escrow(s, p, a)] = 0
                                  ELSE t.own[Escrow(s, p, a)] = 0
        /\ \A a \in Assets :
              /\ t.allocated[a] = SumFunctionOnSet(Credits(t, a), Addresses)
              /\ a \notin AssetsOf(t.req.rows) => t.allocated[a] = 0
        /\ \A a \in AssetsOf(t.req.rows) :
              t.funds[a] + SumFunctionOnSet(Shares(l, s, a), Unread(t, a)) =
                 SumFunctionOnSet(Shares(l, s, a), DOMAIN Participants(s))

\* A close that has passed its checks pays out all of the session.
PaysOut(t, l) ==
    /\ \A p \in Addresses, a \in Assets :
          l[Escrow(t.req.session, p, a)] + t.own[Escrow(t.req.session, p, a)] = 0
    /\ \A a \in Assets :
          SumFunctionOnSet(Credits(t, a), Addresses) =
             SumFunctionOnSet(Pot(l, t.req.session, a), Addresses)

MovesOK(t, l) ==
    /\ t.pc \in Creating => CreateMoves(t)
    /\ t.pc = "sum" => CloseMoves(t, l)
    /\ t.pc = "updated" => PaysOut(t, l)

MovesInv ==
    /\ CoveredInv /\ CloseInv
    /\ SessionFunds
    /\ \A w \in Workers : MovesOK(tx[w], ledger)

LEMMA EntriesType ==
    ASSUME NEW e \in Ledgers, NEW s \in SessionIds, NEW p \in Addresses, NEW a \in Assets
    PROVE  e[Unified(p, a)] \in Int /\ e[Escrow(s, p, a)] \in Int
BY UnifiedKey, AccountKeys DEF Ledgers

LEMMA OneAssetRow ==
    ASSUME PlainRequests, NEW r \in CreateRequests \cup CloseRequests,
           r.session \in SessionIds, NEW i \in DOMAIN r.rows
    PROVE  OneAsset(r.session, r.rows[i].asset)
BY DEF PlainRequests, OneAsset

LEMMA IdleMoves == ASSUME NEW t, t.pc = "idle", NEW l PROVE MovesOK(t, l)
BY DEF MovesOK, Creating

\* What a worker's step that commits nothing must establish.
LEMMA MovesWorker ==
    ASSUME TypeOK, \A v \in Workers : MovesOK(tx[v], ledger),
           NEW w \in Workers, NEW t, tx' = [tx EXCEPT ![w] = t], UNCHANGED ledger,
           MovesOK(t, ledger)
    PROVE  \A v \in Workers : MovesOK(tx'[v], ledger')
<1>1. /\ tx'[w] = t
      /\ \A v \in Workers \ {w} : tx'[v] = tx[v]
  BY DEF TypeOK
<1> QED
  BY <1>1

\* One more row of a create.
LEMMA CreateRowMoves ==
    ASSUME PlainRequests, IndInv, NEW w \in Workers, CreateRow(w), CreateMoves(tx[w])
    PROVE  \E t \in Transactions : tx' = [tx EXCEPT ![w] = t] /\ MovesOK(t, ledger)
<1> DEFINE u == tx[w]
           s == u.req.session
           row == u.req.rows[u.row]
           p0 == row.participant
           a0 == row.asset
           n == row.amount
<1>1. PICK t \in Transactions :
         /\ tx' = [tx EXCEPT ![w] = t]
         /\ t.pc = "create" /\ t.req = u.req /\ t.own = Fund(u.own, s, row)
  BY CreateRowEntries
<1>2. /\ u.req \in CreateRequests /\ s \in SessionIds
      /\ u.row \in Nat \ {0} /\ u.own \in Ledgers
  BY CreatingSession DEF CreateRow, Creating, IndInv, TypeOK, Transactions
<1>3. u.row \in 1..Len(u.req.rows) /\ u.row \in DOMAIN u.req.rows
  <2>1. u.req.rows \in Seq(Rows)
    BY <1>2, CreateRequestsType
  <2>2. Len(u.req.rows) \in Nat /\ DOMAIN u.req.rows = 1..Len(u.req.rows)
    BY <2>1
  <2>3. u.row <= Len(u.req.rows)
    BY DEF CreateRow
  <2> QED
    BY <1>2, <2>2, <2>3
<1>4. row \in Rows /\ p0 \in Addresses /\ a0 \in Assets /\ n \in Int
  BY <1>2, <1>3, CreateRow_Typed DEF Rows
<1>5. \A k \in Keys :
         t.own[k] = IF k = Unified(p0, a0) THEN u.own[k] - n
                    ELSE IF k = Escrow(s, p0, a0) THEN u.own[k] + n ELSE u.own[k]
  BY <1>1, <1>2, <1>4, FundEntries
<1>6. MayHold(s, p0, a0)
  <2>1. OneAsset(s, a0)
    BY <1>2, <1>3, OneAssetRow
  <2>2. Redeemable(s) => p0 \in Members(s)
    BY <1>2, <1>3 DEF PlainRequests
  <2> QED
    BY <2>1, <2>2 DEF MayHold
<1> HIDE DEF p0, a0, n, row
<1>7. CreateMoves(t)
  <2> SUFFICES ASSUME NEW p \in Addresses, NEW a \in Assets
               PROVE  /\ t.own[Unified(p, a)] = -t.own[Escrow(s, p, a)]
                      /\ t.own[Escrow(s, p, a)] # 0 => MayHold(s, p, a)
    BY <1>1 DEF CreateMoves
  <2>1. /\ Unified(p, a) \in Keys /\ Escrow(s, p, a) \in Keys
        /\ Unified(p, a) # Escrow(s, p0, a0) /\ Unified(p0, a0) # Escrow(s, p, a)
        /\ Unified(p, a) = Unified(p0, a0) => p = p0 /\ a = a0
        /\ Escrow(s, p, a) = Escrow(s, p0, a0) => p = p0 /\ a = a0
    BY <1>2, <1>4, UnifiedKey, AccountKeys
  <2>2. /\ u.own[Unified(p, a)] = -u.own[Escrow(s, p, a)]
        /\ u.own[Escrow(s, p, a)] # 0 => MayHold(s, p, a)
        /\ u.own[Unified(p, a)] \in Int /\ u.own[Escrow(s, p, a)] \in Int
    BY <1>2, EntriesType DEF CreateMoves
  <2>3. CASE p = p0 /\ a = a0
    <3>1. /\ t.own[Unified(p, a)] = u.own[Unified(p, a)] - n
          /\ t.own[Escrow(s, p, a)] = u.own[Escrow(s, p, a)] + n
      BY <1>5, <2>1, <2>3
    <3> QED
      BY <1>4, <1>6, <2>2, <2>3, <3>1
  <2>4. CASE ~(p = p0 /\ a = a0)
    <3>1. /\ t.own[Unified(p, a)] = u.own[Unified(p, a)]
          /\ t.own[Escrow(s, p, a)] = u.own[Escrow(s, p, a)]
      BY <1>5, <2>1, <2>4
    <3> QED
      BY <2>2, <3>1
  <2> QED
    BY <2>3, <2>4
<1> QED
  BY <1>1, <1>7 DEF MovesOK

\* Participants and their shares.
LEMMA SharesType ==
    ASSUME NEW l \in Ledgers, NEW s \in SessionIds, NEW a \in Assets
    PROVE  LET P == Participants(s)
               f == Shares(l, s, a)
           IN  /\ P \in Seq(Addresses)
               /\ IsFiniteSet(DOMAIN P)
               /\ \A i \in DOMAIN P : /\ P[i] \in Addresses
                                      /\ f[i] = l[Escrow(s, P[i], a)]
                                      /\ f[i] \in Int
               /\ \A I \in SUBSET DOMAIN P : IsFiniteSet(I) /\ SumFunctionOnSet(f, I) \in Int
<1> DEFINE P == Participants(s)
           f == Shares(l, s, a)
<1>1. P \in Seq(Addresses)
  BY DefinitionType DEF Participants, AppDefinitions
<1>2. DOMAIN P = 1..Len(P) /\ Len(P) \in Nat
  BY <1>1
<1>3. IsFiniteSet(DOMAIN P)
  BY <1>2, FS_Interval
<1>4. \A i \in DOMAIN P : P[i] \in Addresses
  BY <1>1
<1>5. \A i \in DOMAIN P : f[i] = l[Escrow(s, P[i], a)]
  BY DEF Shares
<1>6. \A i \in DOMAIN P : f[i] \in Int
  BY <1>4, <1>5, EntriesType
<1> HIDE DEF f, P
<1>7. ASSUME NEW I \in SUBSET DOMAIN P
      PROVE  IsFiniteSet(I) /\ SumFunctionOnSet(f, I) \in Int
  <2>1. IsFiniteSet(I)
    BY <1>3, FS_Subset
  <2> QED
    BY <1>6, <2>1, SumInt
<1> QED
  BY <1>1, <1>3, <1>4, <1>5, <1>6, <1>7 DEF f, P

LEMMA CreditsType ==
    ASSUME NEW t \in Transactions, NEW a \in Assets
    PROVE  \A p \in Addresses : /\ Credits(t, a)[p] = t.own[Unified(p, a)]
                                /\ Credits(t, a)[p] \in Int
BY UnifiedKey DEF Credits, Transactions, Ledgers

\* A close begins: nothing is read, debited or credited.
LEMMA BeginCloseMoves ==
    ASSUME IndInv, NEW w \in Workers, NEW r \in CloseRequests, BeginClose(w, r)
    PROVE  \E t \in Transactions : tx' = [tx EXCEPT ![w] = t] /\ MovesOK(t, ledger)
<1> DEFINE t == [Idle EXCEPT !.pc = "sum", !.req = r, !.todo = BalancesToSum(r)]
           s == r.session
<1>1. /\ t \in Transactions
      /\ t.pc = "sum" /\ t.req = r /\ t.own = EmptyLedger
      /\ t.todo = BalancesToSum(r) /\ t.row = 1
      /\ t.funds = NoFunds /\ t.allocated = NoFunds
      /\ tx' = [tx EXCEPT ![w] = t]
  BY BeginCloseType DEF BeginClose
<1> HIDE DEF t
<1>2. s \in SessionIds /\ ledger \in Ledgers /\ AssetsOf(r.rows) \subseteq Assets
  BY CloseRow_Typed DEF IndInv, TypeOK, AssetsOf, Rows
<1>3. \A p \in Addresses, a \in Assets :
         t.own[Escrow(s, p, a)] = 0 /\ t.own[Unified(p, a)] = 0 /\ ~Debited(t, p, a)
  BY <1>1, <1>2, EmptyEntries, UnifiedKey, AccountKeys DEF Debited
<1>4. ASSUME NEW a \in Assets
      PROVE  t.allocated[a] = 0 /\ SumFunctionOnSet(Credits(t, a), Addresses) = 0
  <2>1. \A p \in Addresses : Credits(t, a)[p] = 0
    BY <1>1, <1>3, CreditsType
  <2> QED
    BY <1>1, <2>1, FinitelyManyAddresses, SumZero DEF NoFunds
<1>5. ASSUME NEW a \in AssetsOf(r.rows)
      PROVE  t.funds[a] + SumFunctionOnSet(Shares(ledger, s, a), Unread(t, a)) =
                SumFunctionOnSet(Shares(ledger, s, a), DOMAIN Participants(s))
  <2>1. Unread(t, a) = DOMAIN Participants(s)
    BY <1>1, <1>5 DEF Unread, BalancesToSum
  <2>2. SumFunctionOnSet(Shares(ledger, s, a), DOMAIN Participants(s)) \in Int
    BY <1>2, SharesType
  <2>3. t.funds[a] = 0
    BY <1>1, <1>2 DEF NoFunds
  <2> QED
    BY <2>1, <2>2, <2>3
<1>6. CloseMoves(t, ledger)
  BY <1>1, <1>3, <1>4, <1>5 DEF CloseMoves
<1> QED
  BY <1>1, <1>6 DEF MovesOK, Creating

\* One more balance is read: the committed one, since no row is distributed yet.
LEMMA SumBalanceMoves ==
    ASSUME IndInv, NEW w \in Workers, NEW x \in tx[w].todo, SumBalance(w, x[1], x[2]),
           CloseMoves(tx[w], ledger)
    PROVE  \E t \in Transactions : tx' = [tx EXCEPT ![w] = t] /\ MovesOK(t, ledger)
<1> DEFINE u == tx[w]
           s == u.req.session
           P == Participants(s)
           i0 == x[1]
           a0 == x[2]
           k == Escrow(s, P[i0], a0)
<1>1. PICK t \in Transactions :
         /\ tx' = [tx EXCEPT ![w] = t]
         /\ t.pc = "sum" /\ t.req = u.req /\ t.own = u.own /\ t.row = u.row
         /\ t.todo = u.todo \ {<<i0, a0>>}
         /\ t.funds = [u.funds EXCEPT ![a0] = @ + Visible(w, k)]
         /\ t.allocated = u.allocated
  BY SumBalanceEntries
<1>2. /\ u.req \in CloseRequests /\ s \in SessionIds /\ u \in Transactions
      /\ ledger \in Ledgers /\ u.todo \subseteq BalancesToSum(u.req)
      /\ AssetsOf(u.req.rows) \subseteq Assets
  <2>1. u.pc \in Closing
    BY DEF SumBalance, Closing
  <2> QED
    BY <2>1, ClosingSession, CloseRow_Typed, SMTT(30)
       DEF IndInv, TypeOK, TransactionOK, AssetsOf, Rows
<1>3. i0 \in DOMAIN P /\ a0 \in AssetsOf(u.req.rows) /\ x = <<i0, a0>>
  BY <1>2 DEF BalancesToSum
<1>4. Visible(w, k) = Shares(ledger, s, a0)[i0] /\ Visible(w, k) \in Int
  <2>1. P[i0] \in Addresses /\ Shares(ledger, s, a0)[i0] = ledger[k]
    BY <1>2, <1>3, SharesType
  <2>2. u.row = 1
    BY DEF CloseMoves
  <2>3. ~Debited(u, P[i0], a0)
    BY <2>2 DEF Debited
  <2>4. u.own[k] = 0
    BY <1>2, <1>3, <2>1, <2>3 DEF CloseMoves
  <2>5. k \in Keys
    BY <1>2, <1>3, <2>1, AccountKeys
  <2>6. Visible(w, k) = ledger[k] + u.own[k] /\ ledger[k] \in Int
    BY <1>2, <2>5, VisibleType DEF Ledgers
  <2> QED
    BY <2>1, <2>4, <2>6
<1> HIDE DEF k
<1>5. ASSUME NEW a \in AssetsOf(u.req.rows)
      PROVE  t.funds[a] + SumFunctionOnSet(Shares(ledger, s, a), Unread(t, a)) =
                SumFunctionOnSet(Shares(ledger, s, a), DOMAIN P)
  <2> DEFINE f == Shares(ledger, s, a)
  <2>0. a \in Assets
    BY <1>2
  <2>1. u.funds[a] + SumFunctionOnSet(f, Unread(u, a)) = SumFunctionOnSet(f, DOMAIN P)
    BY <1>5 DEF CloseMoves
  <2>2. u.funds \in [Assets -> Int]
    BY <1>2 DEF Transactions
  <2>3. Unread(u, a) \in SUBSET DOMAIN P /\ Unread(t, a) \in SUBSET DOMAIN P
    BY <1>1 DEF Unread
  <2>4. CASE a = a0
    <3>1. t.funds[a] = u.funds[a] + f[i0]
      BY <1>1, <1>4, <2>0, <2>2, <2>4
    <3>2. i0 \in Unread(u, a) /\ Unread(t, a) = Unread(u, a) \ {i0}
      BY <1>1, <1>3, <2>4 DEF Unread
    <3>3. /\ IsFiniteSet(Unread(u, a))
          /\ \A i \in Unread(u, a) : f[i] \in Int
          /\ SumFunctionOnSet(f, Unread(t, a)) \in Int
      BY <1>2, <2>0, <2>3, SharesType
    <3> HIDE DEF f
    <3>4. SumFunctionOnSet(f, Unread(u, a)) = f[i0] + SumFunctionOnSet(f, Unread(t, a))
      BY <3>2, <3>3, SumRemove
    <3>5. u.funds[a] \in Int /\ f[i0] \in Int
      BY <2>0, <2>2, <3>2, <3>3
    <3> QED
      BY <2>1, <3>1, <3>3, <3>4, <3>5 DEF f
  <2>5. CASE a # a0
    <3>1. t.funds[a] = u.funds[a]
      BY <1>1, <2>0, <2>2, <2>5
    <3>2. Unread(t, a) = Unread(u, a)
      BY <1>1, <2>5 DEF Unread
    <3> QED
      BY <2>1, <3>1, <3>2
  <2> QED
    BY <2>4, <2>5
<1>6. \A a \in Assets : Credits(t, a) = Credits(u, a)
  BY <1>1 DEF Credits
<1>7. \A p \in Addresses, a \in Assets : Debited(t, p, a) <=> Debited(u, p, a)
  BY <1>1 DEF Debited
<1>8. t.todo # {} => t.row = 1
  BY <1>1 DEF CloseMoves
<1>9. \A p \in Addresses, a \in Assets :
         IF Debited(t, p, a) THEN ledger[Escrow(s, p, a)] + t.own[Escrow(s, p, a)] = 0
                             ELSE t.own[Escrow(s, p, a)] = 0
  BY <1>1, <1>7 DEF CloseMoves
<1>10. \A a \in Assets : /\ t.allocated[a] = SumFunctionOnSet(Credits(t, a), Addresses)
                         /\ a \notin AssetsOf(u.req.rows) => t.allocated[a] = 0
  BY <1>1, <1>6 DEF CloseMoves
<1>11. CloseMoves(t, ledger)
  BY <1>1, <1>5, <1>8, <1>9, <1>10 DEF CloseMoves
<1> QED
  BY <1>1, <1>11 DEF MovesOK, Creating

LEMMA OneMore ==
    ASSUME NEW k \in Nat \ {0}, NEW m, m = k + 1 PROVE 1..(m - 1) = (1..(k - 1)) \cup {k}
OBVIOUS

\* One more row of a close: it empties the share it names and credits its amount.
LEMMA DistributeRowMoves ==
    ASSUME IndInv, NEW w \in Workers, DistributeRow(w), CloseMoves(tx[w], ledger)
    PROVE  \E t \in Transactions : tx' = [tx EXCEPT ![w] = t] /\ MovesOK(t, ledger)
<1> DEFINE u == tx[w]
           s == u.req.session
           row == u.req.rows[u.row]
           p0 == row.participant
           a0 == row.asset
           n == row.amount
           share == Visible(w, Escrow(s, p0, a0))
<1>1. /\ row \in Rows /\ share \in Int
      /\ \E t \in Transactions :
            /\ tx' = [tx EXCEPT ![w] = t]
            /\ t.pc = "sum" /\ t.req = u.req
            /\ t.own = Settle(u.own, s, row, share)
            /\ t.row = u.row + 1 /\ t.todo = u.todo /\ t.funds = u.funds
            /\ t.allocated = [u.allocated EXCEPT ![a0] = @ + n]
  BY DistributeRowEntries
<1>2. PICK t \in Transactions :
         /\ tx' = [tx EXCEPT ![w] = t]
         /\ t.pc = "sum" /\ t.req = u.req
         /\ t.own = Settle(u.own, s, row, share)
         /\ t.row = u.row + 1 /\ t.todo = u.todo /\ t.funds = u.funds
         /\ t.allocated = [u.allocated EXCEPT ![a0] = @ + n]
  BY <1>1
<1>3. /\ u.req \in CloseRequests /\ s \in SessionIds /\ u \in Transactions
      /\ u.own \in Ledgers /\ ledger \in Ledgers /\ u.row \in Nat \ {0}
      /\ u.allocated \in [Assets -> Int]
      /\ u.todo = {}
  <2>1. u.pc \in Closing /\ u.todo = {}
    BY DEF DistributeRow, Closing
  <2> QED
    BY <2>1, ClosingSession DEF IndInv, TypeOK, Transactions
<1>4. p0 \in Addresses /\ a0 \in Assets /\ n \in Int
  BY <1>1 DEF Rows
<1>5. /\ Escrow(s, p0, a0) \in Keys /\ Unified(p0, a0) \in Keys
      /\ share = ledger[Escrow(s, p0, a0)] + u.own[Escrow(s, p0, a0)]
  BY <1>3, <1>4, AccountKeys, UnifiedKey, VisibleType
<1>6. a0 \in AssetsOf(u.req.rows)
  <2>1. u.req.rows \in Seq(Rows)
    BY <1>3, CloseRow_Typed
  <2>2. Len(u.req.rows) \in Nat /\ DOMAIN u.req.rows = 1..Len(u.req.rows)
    BY <2>1
  <2>3. u.row <= Len(u.req.rows)
    BY DEF DistributeRow
  <2>4. u.row \in DOMAIN u.req.rows
    BY <1>3, <2>2, <2>3
  <2> QED
    BY <2>4 DEF AssetsOf
<1> HIDE DEF share
<1>7. \A k \in Keys :
         t.own[k] = IF k = Escrow(s, p0, a0) THEN u.own[k] - share
                    ELSE IF k = Unified(p0, a0) THEN u.own[k] + n ELSE u.own[k]
  <2>1. t.own = Settle(u.own, s, row, share)
    BY <1>2
  <2>2. u.own \in Ledgers /\ s \in SessionIds /\ row \in Rows /\ share \in Int
    BY <1>1, <1>3
  <2> QED
    BY <2>1, <2>2, SettleEntries
<1>8. \A p \in Addresses, a \in Assets :
         Debited(t, p, a) <=> Debited(u, p, a) \/ (p = p0 /\ a = a0)
  <2>1. 1..(t.row - 1) = (1..(u.row - 1)) \cup {u.row}
    BY <1>2, <1>3, OneMore
  <2> QED
    BY <1>2, <2>1 DEF Debited
<1> HIDE DEF p0, a0, n, row
<1>9. ASSUME NEW p \in Addresses, NEW a \in Assets
      PROVE  IF Debited(t, p, a) THEN ledger[Escrow(s, p, a)] + t.own[Escrow(s, p, a)] = 0
                                 ELSE t.own[Escrow(s, p, a)] = 0
  <2>1. /\ Escrow(s, p, a) \in Keys /\ Escrow(s, p, a) # Unified(p0, a0)
        /\ Escrow(s, p, a) = Escrow(s, p0, a0) => p = p0 /\ a = a0
    BY <1>3, <1>4, AccountKeys
  <2>2. IF Debited(u, p, a) THEN ledger[Escrow(s, p, a)] + u.own[Escrow(s, p, a)] = 0
                            ELSE u.own[Escrow(s, p, a)] = 0
    BY DEF CloseMoves
  <2>3. u.own[Escrow(s, p, a)] \in Int /\ ledger[Escrow(s, p, a)] \in Int
    BY <1>3, EntriesType
  <2>4. CASE p = p0 /\ a = a0
    <3>1. t.own[Escrow(s, p, a)] = u.own[Escrow(s, p, a)] - share
      BY <1>7, <2>1, <2>4
    <3> QED
      BY <1>5, <1>8, <2>3, <2>4, <3>1
  <2>5. CASE ~(p = p0 /\ a = a0)
    <3>1. t.own[Escrow(s, p, a)] = u.own[Escrow(s, p, a)]
      BY <1>7, <2>1, <2>5
    <3> QED
      BY <1>8, <2>2, <2>5, <3>1
  <2> QED
    BY <2>4, <2>5
<1>10. ASSUME NEW a \in Assets
       PROVE  /\ t.allocated[a] = SumFunctionOnSet(Credits(t, a), Addresses)
              /\ a \notin AssetsOf(u.req.rows) => t.allocated[a] = 0
  <2>1. /\ u.allocated[a] = SumFunctionOnSet(Credits(u, a), Addresses)
        /\ a \notin AssetsOf(u.req.rows) => u.allocated[a] = 0
    BY DEF CloseMoves
  <2>2. \A p \in Addresses : /\ Credits(t, a)[p] = t.own[Unified(p, a)]
                             /\ Credits(u, a)[p] = u.own[Unified(p, a)]
                             /\ Credits(t, a)[p] \in Int /\ Credits(u, a)[p] \in Int
    BY <1>3, CreditsType
  <2>3. \A p \in Addresses :
           /\ Unified(p, a) \in Keys /\ Unified(p, a) # Escrow(s, p0, a0)
           /\ Unified(p, a) = Unified(p0, a0) => p = p0 /\ a = a0
    BY <1>3, <1>4, UnifiedKey, AccountKeys
  <2>4. CASE a = a0
    <3>1. \A p \in Addresses : p # p0 => Credits(t, a)[p] = Credits(u, a)[p]
      BY <1>7, <2>2, <2>3
    <3>2. Credits(t, a)[p0] = Credits(u, a)[p0] + n
      BY <1>4, <1>7, <2>2, <2>3, <2>4
    <3>3. SumFunctionOnSet(Credits(t, a), Addresses) =
             SumFunctionOnSet(Credits(u, a), Addresses)
                + (Credits(t, a)[p0] - Credits(u, a)[p0])
      BY <1>4, <2>2, <3>1, FinitelyManyAddresses, SumChange
    <3>4. t.allocated[a] = u.allocated[a] + n /\ u.allocated[a] \in Int
      BY <1>2, <1>3, <2>4
    <3>5. Credits(u, a)[p0] \in Int
      BY <1>4, <2>2
    <3>6. t.allocated[a] = SumFunctionOnSet(Credits(t, a), Addresses)
      BY <1>4, <2>1, <3>2, <3>3, <3>4, <3>5
    <3> QED
      BY <1>6, <2>4, <3>6
  <2>5. CASE a # a0
    <3>1. \A p \in Addresses : Credits(t, a)[p] = Credits(u, a)[p]
      BY <1>7, <2>2, <2>3, <2>5
    <3>2. SumFunctionOnSet(Credits(t, a), Addresses) = SumFunctionOnSet(Credits(u, a), Addresses)
      BY <3>1, FinitelyManyAddresses, SumSame
    <3>3. t.allocated[a] = u.allocated[a]
      BY <1>2, <1>3, <2>5
    <3> QED
      BY <2>1, <3>2, <3>3
  <2> QED
    BY <2>4, <2>5
<1>11. t.todo = {}
  BY <1>2, <1>3
<1>12. \A a \in AssetsOf(u.req.rows) :
          t.funds[a] + SumFunctionOnSet(Shares(ledger, s, a), Unread(t, a)) =
             SumFunctionOnSet(Shares(ledger, s, a), DOMAIN Participants(s))
  BY <1>2 DEF CloseMoves, Unread
<1>13. CloseMoves(t, ledger)
  BY <1>2, <1>9, <1>10, <1>11, <1>12 DEF CloseMoves
<1> QED
  BY <1>2, <1>13 DEF MovesOK, Creating

\* A close passes its checks.  Everyone has a row, so every share is debited; the
\* sums agree, so what is credited of each asset is what the shares were.
LEMMA UpdateSessionMoves ==
    ASSUME PlainRequests, IndInv, CloseInv, SessionFunds,
           NEW w \in Workers, UpdateSession(w), CloseMoves(tx[w], ledger)
    PROVE  \E t : tx' = [tx EXCEPT ![w] = t] /\ MovesOK(t, ledger)
<1> DEFINE u == tx[w]
           s == u.req.session
           P == Participants(s)
           rows == u.req.rows
           t == [u EXCEPT !.pc = "updated"]
<1>1. /\ u.req \in CloseRequests /\ s \in SessionIds /\ u \in Transactions
      /\ ledger \in Ledgers /\ WellFormedClose(u.req)
      /\ u.todo = {} /\ u.pc = "sum"
  <2>1. u.pc \in Closing /\ u.todo = {} /\ u.pc = "sum"
    BY DEF UpdateSession, Closing
  <2> QED
    BY <2>1, ClosingSession DEF IndInv, TypeOK, TransactionOK
<1>2. /\ t.pc = "updated" /\ t.req = u.req /\ t.own = u.own
      /\ tx' = [tx EXCEPT ![w] = t]
  BY <1>1 DEF UpdateSession, Transactions
<1> HIDE DEF t
<1>3. /\ P \in Seq(Addresses) /\ Members(s) = {P[i] : i \in DOMAIN P}
      /\ Members(s) \subseteq Addresses
  BY <1>1, DefinitionType DEF Members, Range, Participants, AppDefinitions
<1>4. Redeemable(s)
  <2>1. CloseInv'
    BY UpdateClose
  <2>2. tx'[w] = t
    BY <1>2 DEF IndInv, TypeOK
  <2> QED
    BY <1>2, <2>1, <2>2 DEF CloseInv, CloseOK
<1>5. PICK i0 \in DOMAIN rows : \A a \in Assets : OneAsset(s, a) => rows[i0].asset = a
  <2>1. rows \in Seq(Rows) /\ rows # <<>>
    BY <1>1, CloseRow_Typed DEF WellFormedClose
  <2>2. 1 \in DOMAIN rows
    BY <2>1
  <2> QED
    BY <1>1, <2>2 DEF OneAsset
<1>6. \A a \in Assets : OneAsset(s, a) => a \in AssetsOf(rows)
  BY <1>5 DEF AssetsOf
<1>7. ASSUME NEW p \in Addresses, NEW a \in Assets, ledger[Escrow(s, p, a)] # 0
      PROVE  OneAsset(s, a) /\ p \in Members(s)
  BY <1>1, <1>4, <1>7 DEF SessionFunds, MayHold
<1>8. ASSUME NEW p \in Addresses, NEW a \in Assets
      PROVE  ledger[Escrow(s, p, a)] + u.own[Escrow(s, p, a)] = 0
  <2>1. IF Debited(u, p, a) THEN ledger[Escrow(s, p, a)] + u.own[Escrow(s, p, a)] = 0
                            ELSE u.own[Escrow(s, p, a)] = 0
    BY <1>8 DEF CloseMoves
  <2>2. CASE ledger[Escrow(s, p, a)] = 0
    BY <2>1, <2>2
  <2>3. CASE ledger[Escrow(s, p, a)] # 0
    <3>1. OneAsset(s, a) /\ p \in Members(s)
      BY <1>7, <2>3
    <3>2. PICK j \in DOMAIN P : P[j] = p
      BY <1>3, <3>1
    <3>3. PICK i \in 1..(u.row - 1) :
             i \in DOMAIN rows /\ Lower[rows[i].participant] = Lower[P[j]]
      BY EveryoneHasOneRow
    <3>4. rows[i].participant = p
      BY <1>1, <3>1, <3>2, <3>3 DEF PlainRequests
    <3>5. rows[i].asset = a
      BY <1>1, <3>1, <3>3 DEF OneAsset
    <3>6. Debited(u, p, a)
      BY <3>3, <3>4, <3>5 DEF Debited
    <3> QED
      BY <2>1, <3>6
  <2> QED
    BY <2>2, <2>3
<1>9. ASSUME NEW a \in Assets
      PROVE  SumFunctionOnSet(Credits(u, a), Addresses) = SumFunctionOnSet(Pot(ledger, s, a), Addresses)
  <2> DEFINE f == Shares(ledger, s, a)
             g == Pot(ledger, s, a)
  <2>1. u.allocated[a] = SumFunctionOnSet(Credits(u, a), Addresses)
    BY DEF CloseMoves
  <2>2. \A p \in Addresses : g[p] = ledger[Escrow(s, p, a)] /\ g[p] \in Int
    BY <1>1, EntriesType DEF Pot
  <2>3. CASE a \in AssetsOf(rows)
    <3>1. u.funds[a] = u.allocated[a]
      BY <2>3 DEF UpdateSession, FullyRedistributed
    <3>2. u.funds[a] + SumFunctionOnSet(f, Unread(u, a)) = SumFunctionOnSet(f, DOMAIN P)
      BY <2>3 DEF CloseMoves
    <3>3. Unread(u, a) = {}
      BY <1>1 DEF Unread
    <3>4. SumFunctionOnSet(f, {}) = 0
      BY SumEmpty
    <3>5. u.funds[a] \in Int
      BY <1>1 DEF Transactions
    <3>6. u.funds[a] = SumFunctionOnSet(f, DOMAIN P)
      BY <3>2, <3>3, <3>4, <3>5
    <3>7. SumFunctionOnSet(f, DOMAIN P) = SumFunctionOnSet(g, Members(s))
      <4>1. /\ IsFiniteSet(DOMAIN P)
            /\ \A i \in DOMAIN P : f[i] \in Int /\ g[P[i]] = f[i]
        BY <1>1, <2>2, SharesType
      <4>2. \A i, j \in DOMAIN P : P[i] = P[j] => i = j
        BY <1>4 DEF Redeemable
      <4> HIDE DEF f, g, P
      <4>3. SumFunctionOnSet(f, DOMAIN P) = SumFunctionOnSet(g, {P[i] : i \in DOMAIN P})
        BY <4>1, <4>2, SumImage
      <4> QED
        BY <1>3, <4>3 DEF P
    <3>8. SumFunctionOnSet(g, Members(s)) = SumFunctionOnSet(g, Addresses)
      <4>1. \A p \in Addresses : g[p] = IF p \in Members(s) THEN g[p] ELSE 0
        BY <1>7, <2>2
      <4> HIDE DEF g
      <4> QED
        BY <1>3, <2>2, <4>1, FinitelyManyAddresses, SumOver
    <3> QED
      BY <2>1, <3>1, <3>6, <3>7, <3>8
  <2>4. CASE a \notin AssetsOf(rows)
    <3>1. u.allocated[a] = 0
      BY <2>4 DEF CloseMoves
    <3>2. \A p \in Addresses : g[p] = 0
      BY <1>6, <1>7, <2>2, <2>4
    <3> HIDE DEF g
    <3>3. SumFunctionOnSet(g, Addresses) = 0
      BY <3>2, FinitelyManyAddresses, SumZero
    <3> QED
      BY <2>1, <3>1, <3>3 DEF g
  <2> QED
    BY <2>3, <2>4
<1>10. \A a \in Assets : Credits(t, a) = Credits(u, a)
  BY <1>2 DEF Credits
<1>11. PaysOut(t, ledger)
  BY <1>2, <1>8, <1>9, <1>10 DEF PaysOut
<1> QED
  BY <1>2, <1>11 DEF MovesOK, Creating

-------------------------------------------------------------------------------
\* The invariant holds.

LEMMA MovesInit == Init => MovesInv
<1> SUFFICES ASSUME Init PROVE MovesInv
  OBVIOUS
<1>1. CoveredInv /\ CloseInv
  BY CoveredInit, CloseInit
<1>2. SessionFunds
  BY EmptyEntries, AccountKeys DEF Init, SessionFunds
<1>3. \A w \in Workers : MovesOK(tx[w], ledger)
  BY IdleMoves DEF Init, Idle
<1> QED
  BY <1>1, <1>2, <1>3 DEF MovesInv

\* A create funds a session that had nothing.
LEMMA CommitCreateFunds ==
    ASSUME MovesInv, NEW w \in Workers, CommitCreate(w)
    PROVE  LET t == tx[w]
               s == t.req.session
           IN  /\ s \in SessionIds /\ sessions[s] = "none"
               /\ \A p \in Addresses, a \in Assets :
                     /\ ledger[Escrow(s, p, a)] = 0
                     /\ ledger'[Escrow(s, p, a)] = t.own[Escrow(s, p, a)]
                     /\ ledger'[Escrow(s, p, a)] >= 0
                     /\ ledger'[Escrow(s, p, a)] > 0 =>
                           ledger'[Escrow(s, p, a)] <= ledger[Unified(p, a)]
                     /\ ledger'[Escrow(s, p, a)] # 0 => MayHold(s, p, a)
                     /\ ledger'[Unified(p, a)] =
                           ledger[Unified(p, a)] - t.own[Escrow(s, p, a)]
                     /\ \A r \in SessionIds \ {s} :
                           ledger'[Escrow(r, p, a)] = ledger[Escrow(r, p, a)]
<1> DEFINE t == tx[w]
           s == t.req.session
<1>1. IndInv /\ Covered /\ SessionFunds
  BY DEF MovesInv, CoveredInv, SerialInv
<1>2. t.pc = "inserted" /\ t.pc \in Creating
  BY DEF CommitCreate, Creating
<1>3. s \in SessionIds /\ sessions[s] = "none"
  BY <1>1, <1>2, CreatingSession DEF IndInv, RowsLocked
<1>4. CreateMoves(t) /\ CreateEntries(t)
  BY <1>1, <1>2 DEF MovesInv, MovesOK, IndInv, TransactionOK
<1>5. \A k \in Keys : /\ ledger'[k] = ledger[k] + t.own[k]
                      /\ ledger[k] \in Int /\ t.own[k] \in Int
                      /\ t.own[k] < 0 => ledger[k] + t.own[k] >= 0
  <2>1. \A k \in Keys : ledger'[k] = ledger[k] + t.own[k]
    BY <1>1, CommitStep DEF CommitCreate
  <2>2. ledger \in Ledgers /\ t.own \in Ledgers
    BY <1>1 DEF IndInv, TypeOK, Transactions
  <2> QED
    BY <1>1, <2>1, <2>2 DEF Ledgers, Covered, CoveredIn
<1>6. ASSUME NEW p \in Addresses, NEW a \in Assets
      PROVE  /\ ledger[Escrow(s, p, a)] = 0
             /\ ledger'[Escrow(s, p, a)] = t.own[Escrow(s, p, a)]
             /\ ledger'[Escrow(s, p, a)] >= 0
             /\ ledger'[Escrow(s, p, a)] > 0 =>
                   ledger'[Escrow(s, p, a)] <= ledger[Unified(p, a)]
             /\ ledger'[Escrow(s, p, a)] # 0 => MayHold(s, p, a)
             /\ ledger'[Unified(p, a)] = ledger[Unified(p, a)] - t.own[Escrow(s, p, a)]
             /\ \A r \in SessionIds \ {s} :
                   ledger'[Escrow(r, p, a)] = ledger[Escrow(r, p, a)]
  <2>1. Unified(p, a) \in Keys /\ Escrow(s, p, a) \in Keys
    BY <1>3, UnifiedKey, AccountKeys
  <2>2. ledger[Escrow(s, p, a)] = 0
    BY <1>1, <1>3 DEF SessionFunds
  <2>3. /\ t.own[Unified(p, a)] = -t.own[Escrow(s, p, a)]
        /\ t.own[Escrow(s, p, a)] # 0 => MayHold(s, p, a)
        /\ t.own[Escrow(s, p, a)] >= 0
    BY <1>3, <1>4 DEF CreateMoves, CreateEntries
  <2>4. ledger'[Escrow(s, p, a)] = t.own[Escrow(s, p, a)] /\ ledger'[Escrow(s, p, a)] >= 0
    BY <1>5, <2>1, <2>2, <2>3
  <2>5. /\ ledger'[Unified(p, a)] = ledger[Unified(p, a)] - t.own[Escrow(s, p, a)]
        /\ ledger'[Escrow(s, p, a)] > 0 =>
              ledger'[Escrow(s, p, a)] <= ledger[Unified(p, a)]
    BY <1>5, <2>1, <2>3, <2>4
  <2>6. ASSUME NEW r \in SessionIds \ {s}
        PROVE  ledger'[Escrow(r, p, a)] = ledger[Escrow(r, p, a)]
    <3>1. t.own[Escrow(r, p, a)] = 0 /\ Escrow(r, p, a) \in Keys
      BY <1>4, AccountKeys DEF CreateEntries
    <3> QED
      BY <1>5, <3>1
  <2> QED
    BY <2>2, <2>3, <2>4, <2>5, <2>6
<1> QED
  BY <1>3, <1>6

\* A close empties its session.
LEMMA CommitCloseFunds ==
    ASSUME MovesInv, NEW w \in Workers, CommitClose(w)
    PROVE  LET t == tx[w]
               s == t.req.session
           IN  /\ s \in SessionIds /\ sessions[s] = "open" /\ PaysOut(t, ledger)
               /\ \A p \in Addresses, a \in Assets :
                     /\ ledger'[Escrow(s, p, a)] = 0
                     /\ ledger'[Unified(p, a)] = ledger[Unified(p, a)] + t.own[Unified(p, a)]
                     /\ \A r \in SessionIds \ {s} :
                           ledger'[Escrow(r, p, a)] = ledger[Escrow(r, p, a)]
<1> DEFINE t == tx[w]
           s == t.req.session
<1>1. IndInv /\ Serial
  BY DEF MovesInv, CoveredInv, SerialInv
<1>2. t.pc = "updated" /\ t.pc \in Closing
  BY DEF CommitClose, Closing
<1>3. s \in SessionIds /\ sessions[s] = "open"
  BY <1>1, <1>2, ClosingSession DEF Serial
<1>4. PaysOut(t, ledger)
  BY <1>2 DEF MovesInv, MovesOK
<1>5. \A k \in Keys : /\ ledger'[k] = ledger[k] + t.own[k]
                      /\ ledger[k] \in Int /\ t.own[k] \in Int
  <2>1. \A k \in Keys : ledger'[k] = ledger[k] + t.own[k]
    BY <1>1, CommitStep DEF CommitClose
  <2>2. ledger \in Ledgers /\ t.own \in Ledgers
    BY <1>1 DEF IndInv, TypeOK, Transactions
  <2> QED
    BY <2>1, <2>2 DEF Ledgers
<1>6. ASSUME NEW p \in Addresses, NEW a \in Assets
      PROVE  /\ ledger'[Escrow(s, p, a)] = 0
             /\ ledger'[Unified(p, a)] = ledger[Unified(p, a)] + t.own[Unified(p, a)]
             /\ \A r \in SessionIds \ {s} :
                   ledger'[Escrow(r, p, a)] = ledger[Escrow(r, p, a)]
  <2>1. Unified(p, a) \in Keys /\ Escrow(s, p, a) \in Keys
    BY <1>3, UnifiedKey, AccountKeys
  <2>2. ledger[Escrow(s, p, a)] + t.own[Escrow(s, p, a)] = 0
    BY <1>4 DEF PaysOut
  <2>3. ledger'[Escrow(s, p, a)] = 0
    BY <1>5, <2>1, <2>2
  <2> QED
    BY <1>1, <1>5, <2>1, <2>3, CommitCloseEntries
<1> QED
  BY <1>3, <1>4, <1>6

LEMMA MovesStep ==
    ASSUME Driver = "sqlite", PlainRequests
    PROVE  MovesInv /\ [Next]_vars => MovesInv'
<1> SUFFICES ASSUME MovesInv, [Next]_vars
             PROVE  SessionFunds' /\ \A v \in Workers : MovesOK(tx'[v], ledger')
  BY CoveredStep, CloseStep DEF MovesInv, CoveredInv, SerialInv
<1>0. /\ IndInv /\ TypeOK /\ Serial /\ CloseInv /\ SessionFunds
      /\ tx \in [Workers -> Transactions]
      /\ sessions \in [SessionIds -> {"none", "open", "closed"}]
      /\ \A v \in Workers : MovesOK(tx[v], ledger)
  BY DEF MovesInv, CoveredInv, SerialInv, IndInv, TypeOK
<1> DEFINE Kept == SessionFunds' /\ \A v \in Workers : MovesOK(tx'[v], ledger')
<1>q. ASSUME UNCHANGED <<ledger, sessions>> PROVE SessionFunds'
  BY <1>0, <1>q DEF SessionFunds
<1>w. ASSUME NEW w \in Workers, NEW t, tx' = [tx EXCEPT ![w] = t], MovesOK(t, ledger),
             UNCHANGED <<ledger, sessions>>
      PROVE  Kept
  BY <1>0, <1>q, <1>w, MovesWorker
<1>1. ASSUME NEW w \in Workers, NEW r \in CreateRequests, BeginCreate(w, r) PROVE Kept
  <2> DEFINE t == [Idle EXCEPT !.pc = "create", !.req = r]
  <2>1. /\ t.pc = "create" /\ t.own = EmptyLedger /\ t.req = r
        /\ tx' = [tx EXCEPT ![w] = t] /\ UNCHANGED <<ledger, sessions>>
    BY <1>1, BeginCreateType DEF BeginCreate
  <2> HIDE DEF t
  <2>2. r.session \in SessionIds
    BY CreateRequestsType
  <2>3. CreateMoves(t)
    BY <2>1, <2>2, EmptyEntries, UnifiedKey, AccountKeys DEF CreateMoves
  <2>4. MovesOK(t, ledger)
    BY <2>1, <2>3 DEF MovesOK
  <2> QED
    BY <1>w, <2>1, <2>4
<1>2. ASSUME NEW w \in Workers, CreateRow(w) PROVE Kept
  <2>1. CreateMoves(tx[w]) /\ UNCHANGED <<ledger, sessions>>
    BY <1>0, <1>2 DEF CreateRow, MovesOK, Creating
  <2>2. PICK t \in Transactions : tx' = [tx EXCEPT ![w] = t] /\ MovesOK(t, ledger)
    BY <1>0, <1>2, <2>1, CreateRowMoves
  <2> QED
    BY <1>w, <2>1, <2>2
<1>3. ASSUME NEW w \in Workers, InsertSession(w) PROVE Kept
  <2> DEFINE t == [tx[w] EXCEPT !.pc = "inserted"]
  <2>1. /\ t.pc = "inserted" /\ t.req = tx[w].req /\ t.own = tx[w].own
        /\ tx' = [tx EXCEPT ![w] = t] /\ UNCHANGED <<ledger, sessions>>
    BY <1>0, <1>3 DEF InsertSession, Transactions
  <2>2. CreateMoves(tx[w])
    BY <1>0, <1>3 DEF InsertSession, MovesOK, Creating
  <2> HIDE DEF t
  <2>3. MovesOK(t, ledger)
    BY <2>1, <2>2 DEF MovesOK, CreateMoves
  <2> QED
    BY <1>w, <2>1, <2>3
<1>4. ASSUME NEW w \in Workers, CommitCreate(w) \/ CommitClose(w)
      PROVE  \A v \in Workers : MovesOK(tx'[v], ledger')
  <2>1. \A v \in Workers : tx'[v].pc = "idle"
    BY <1>0, <1>4 DEF CommitCreate, CommitClose, Serial, Idle
  <2> QED
    BY <2>1, IdleMoves
<1>5. ASSUME NEW w \in Workers, CommitCreate(w) PROVE SessionFunds'
  <2> DEFINE s0 == tx[w].req.session
  <2>1. sessions' = [sessions EXCEPT ![s0] = "open"]
    BY <1>5 DEF CommitCreate
  <2> SUFFICES ASSUME NEW s \in SessionIds, NEW p \in Addresses, NEW a \in Assets,
                      ledger'[Escrow(s, p, a)] # 0
               PROVE  sessions'[s] = "open" /\ MayHold(s, p, a)
    BY DEF SessionFunds
  <2>2. CASE s = s0
    <3>1. MayHold(s, p, a)
      BY <1>5, <2>2, CommitCreateFunds
    <3> QED
      BY <1>0, <2>1, <2>2, <3>1
  <2>3. CASE s # s0
    <3>1. s \in SessionIds \ {s0}
      BY <2>3
    <3> HIDE DEF s0
    <3>2. ledger'[Escrow(s, p, a)] = ledger[Escrow(s, p, a)]
      BY <1>5, <3>1, CommitCreateFunds DEF s0
    <3> QED
      BY <1>0, <2>1, <2>3, <3>2 DEF SessionFunds
  <2> QED
    BY <2>2, <2>3
<1>6. ASSUME NEW w \in Workers, CommitClose(w) PROVE SessionFunds'
  <2> DEFINE s0 == tx[w].req.session
  <2>1. sessions' = [sessions EXCEPT ![s0] = "closed"]
    BY <1>6 DEF CommitClose
  <2> SUFFICES ASSUME NEW s \in SessionIds, NEW p \in Addresses, NEW a \in Assets,
                      ledger'[Escrow(s, p, a)] # 0
               PROVE  sessions'[s] = "open" /\ MayHold(s, p, a)
    BY DEF SessionFunds
  <2>2. s # s0
    BY <1>6, CommitCloseFunds
  <2>3. s \in SessionIds \ {s0}
    BY <2>2
  <2> HIDE DEF s0
  <2>4. ledger'[Escrow(s, p, a)] = ledger[Escrow(s, p, a)]
    BY <1>6, <2>3, CommitCloseFunds DEF s0
  <2> QED
    BY <1>0, <2>1, <2>2, <2>4 DEF SessionFunds
<1>7. ASSUME NEW w \in Workers, NEW r \in CloseRequests, BeginClose(w, r) PROVE Kept
  <2>1. PICK t \in Transactions : tx' = [tx EXCEPT ![w] = t] /\ MovesOK(t, ledger)
    BY <1>0, <1>7, BeginCloseMoves
  <2> QED
    BY <1>7, <1>w, <2>1 DEF BeginClose
<1>8. ASSUME NEW w \in Workers, NEW x \in tx[w].todo, SumBalance(w, x[1], x[2]) PROVE Kept
  <2>1. CloseMoves(tx[w], ledger) /\ UNCHANGED <<ledger, sessions>>
    BY <1>0, <1>8 DEF SumBalance, MovesOK
  <2>2. PICK t \in Transactions : tx' = [tx EXCEPT ![w] = t] /\ MovesOK(t, ledger)
    BY <1>0, <1>8, <2>1, SumBalanceMoves
  <2> QED
    BY <1>w, <2>1, <2>2
<1>9. ASSUME NEW w \in Workers, DistributeRow(w) PROVE Kept
  <2>1. CloseMoves(tx[w], ledger) /\ UNCHANGED <<ledger, sessions>>
    BY <1>0, <1>9 DEF DistributeRow, MovesOK
  <2>2. PICK t \in Transactions : tx' = [tx EXCEPT ![w] = t] /\ MovesOK(t, ledger)
    BY <1>0, <1>9, <2>1, DistributeRowMoves
  <2> QED
    BY <1>w, <2>1, <2>2
<1>10. ASSUME NEW w \in Workers, UpdateSession(w) PROVE Kept
  <2>1. CloseMoves(tx[w], ledger) /\ UNCHANGED <<ledger, sessions>>
    BY <1>0, <1>10 DEF UpdateSession, MovesOK
  <2>2. PICK t : tx' = [tx EXCEPT ![w] = t] /\ MovesOK(t, ledger)
    BY <1>0, <1>10, <2>1, UpdateSessionMoves
  <2> QED
    BY <1>w, <2>1, <2>2
<1>11. ASSUME NEW w \in Workers, Rollback(w) PROVE Kept
  <2>1. MovesOK(Idle, ledger)
    BY IdleMoves, IdleOK
  <2> QED
    BY <1>11, <1>w, <2>1 DEF Rollback
<1>12. ASSUME NEW p \in Addresses, NEW a \in Assets, NEW n \in CustodyAmounts,
              CustodyEntry(p, a, n)
       PROVE Kept
  <2>1. UNCHANGED <<sessions, tx>> /\ \A v \in Workers : tx[v].pc = "idle"
    BY <1>12 DEF CustodyEntry, MayBegin
  <2>2. \A v \in Workers : MovesOK(tx'[v], ledger')
    BY <2>1, IdleMoves
  <2>3. \A s \in SessionIds, q \in Addresses, b \in Assets :
           ledger'[Escrow(s, q, b)] = ledger[Escrow(s, q, b)]
    BY <1>0, <1>12, CustodyKeepsEscrow
  <2>4. SessionFunds'
    BY <1>0, <2>1, <2>3 DEF SessionFunds
  <2> QED
    BY <2>2, <2>4
<1>13. CASE UNCHANGED vars
  BY <1>0, <1>13, <1>q DEF vars
<1> QED
  BY <1>1, <1>2, <1>3, <1>4, <1>5, <1>6, <1>7, <1>8, <1>9, <1>10, <1>11, <1>12, <1>13 DEF Next

LEMMA MovesHold ==
    ASSUME Driver = "sqlite", PlainRequests
    PROVE  Spec => []MovesInv
BY MovesInit, MovesStep, PTL DEF Spec

-------------------------------------------------------------------------------
\* Every step is one of AppEscrow or changes none of its variables.

LEMMA CreateFundsPot ==
    ASSUME MovesInv, NEW w \in Workers, CommitCreate(w)
    PROVE  Escrows!FundPot(tx[w].req.session)
<1> DEFINE s == tx[w].req.session
           Wallet(l) == [k \in Addresses \X Assets |-> l[Unified(k[1], k[2])]]
           Pots(l) == [r \in SessionIds |->
                          [k \in Addresses \X Assets |-> l[Escrow(r, k[1], k[2])]]]
<1>1. /\ s \in SessionIds /\ sessions[s] = "none"
      /\ sessions' = [sessions EXCEPT ![s] = "open"]
  BY CommitCreateFunds DEF CommitCreate
<1>2. /\ ledger \in Ledgers
      /\ \A p \in Addresses, a \in Assets :
            /\ ledger'[Escrow(s, p, a)] = tx[w].own[Escrow(s, p, a)]
            /\ tx[w].own[Escrow(s, p, a)] \in Int
            /\ ledger'[Escrow(s, p, a)] >= 0
            /\ ledger[Unified(p, a)] \in Int
            /\ ledger'[Escrow(s, p, a)] > 0 =>
                  ledger'[Escrow(s, p, a)] <= ledger[Unified(p, a)]
            /\ ledger'[Unified(p, a)] = ledger[Unified(p, a)] - tx[w].own[Escrow(s, p, a)]
            /\ \A r \in SessionIds \ {s} :
                  ledger'[Escrow(r, p, a)] = ledger[Escrow(r, p, a)]
  <2>1. ledger \in Ledgers /\ tx[w].own \in Ledgers
    BY DEF MovesInv, CoveredInv, SerialInv, IndInv, TypeOK, Transactions
  <2> QED
    BY <1>1, <2>1, CommitCreateFunds, EntriesType
<1> HIDE DEF s
<1>3. Pots(ledger') = [Pots(ledger) EXCEPT ![s] = Pots(ledger')[s]]
  <2>1. ASSUME NEW r \in SessionIds \ {s} PROVE Pots(ledger')[r] = Pots(ledger)[r]
    BY <1>2
  <2> QED
    BY <1>1, <2>1
<1>4. ASSUME NEW k \in Addresses \X Assets
      PROVE  /\ Pots(ledger')[s][k] >= 0
             /\ Pots(ledger')[s][k] > 0 => Pots(ledger')[s][k] <= Wallet(ledger)[k]
             /\ Wallet(ledger')[k] = Wallet(ledger)[k] - Pots(ledger')[s][k]
  <2>1. /\ Pots(ledger')[s][k] = ledger'[Escrow(s, k[1], k[2])]
        /\ Wallet(ledger)[k] = ledger[Unified(k[1], k[2])]
        /\ Wallet(ledger')[k] = ledger'[Unified(k[1], k[2])]
    BY <1>1
  <2>2. k[1] \in Addresses /\ k[2] \in Assets
    OBVIOUS
  <2> HIDE DEF Pots, Wallet
  <2> QED
    BY <1>2, <2>1, <2>2
<1> QED
  BY <1>1, <1>3, <1>4 DEF Escrows!FundPot, Escrows!Purses, s

LEMMA ClosePaysOut ==
    ASSUME MovesInv, NEW w \in Workers, CommitClose(w)
    PROVE  Escrows!PayOut(tx[w].req.session)
<1> DEFINE s == tx[w].req.session
           t == tx[w]
           Wallet(l) == [k \in Addresses \X Assets |-> l[Unified(k[1], k[2])]]
           Pots(l) == [r \in SessionIds |->
                          [k \in Addresses \X Assets |-> l[Escrow(r, k[1], k[2])]]]
           Sum(purse, a) == SumFunctionOnSet([p \in Addresses |-> purse[<<p, a>>]], Addresses)
<1>1. /\ s \in SessionIds /\ sessions[s] = "open" /\ PaysOut(t, ledger)
      /\ sessions' = [sessions EXCEPT ![s] = "closed"]
  BY CommitCloseFunds DEF CommitClose
<1>2. \A p \in Addresses, a \in Assets :
         /\ ledger'[Escrow(s, p, a)] = 0
         /\ ledger[Unified(p, a)] \in Int /\ t.own[Unified(p, a)] \in Int
         /\ t.own[Unified(p, a)] >= 0
         /\ ledger'[Unified(p, a)] = ledger[Unified(p, a)] + t.own[Unified(p, a)]
         /\ \A r \in SessionIds \ {s} :
               ledger'[Escrow(r, p, a)] = ledger[Escrow(r, p, a)]
  <2>1. ledger \in Ledgers /\ t.own \in Ledgers /\ CloseEntries(t)
    BY DEF MovesInv, CoveredInv, SerialInv, IndInv, TypeOK, Transactions, TransactionOK,
           CommitClose, Closing
  <2> QED
    BY <1>1, <2>1, CommitCloseFunds, EntriesType DEF CloseEntries
<1> HIDE DEF s, t
<1>3. Pots(ledger') = [Pots(ledger) EXCEPT ![s] = [k \in Addresses \X Assets |-> 0]]
  <2>1. ASSUME NEW r \in SessionIds \ {s} PROVE Pots(ledger')[r] = Pots(ledger)[r]
    BY <1>2
  <2>2. Pots(ledger')[s] = [k \in Addresses \X Assets |-> 0]
    BY <1>1, <1>2
  <2> QED
    BY <1>1, <2>1, <2>2
<1>4. \A k \in Addresses \X Assets : Wallet(ledger')[k] >= Wallet(ledger)[k]
  BY <1>2
<1>5. ASSUME NEW a \in Assets
      PROVE  Sum(Wallet(ledger'), a) - Sum(Wallet(ledger), a) = Sum(Pots(ledger)[s], a)
  <2> DEFINE before == [p \in Addresses |-> Wallet(ledger)[<<p, a>>]]
             after == [p \in Addresses |-> Wallet(ledger')[<<p, a>>]]
             credit == Credits(t, a)
  <2>1. \A p \in Addresses : /\ before[p] = ledger[Unified(p, a)]
                             /\ after[p] = ledger'[Unified(p, a)]
                             /\ credit[p] = t.own[Unified(p, a)]
    BY DEF Credits
  <2>2. [p \in Addresses |-> Pots(ledger)[s][<<p, a>>]] = Pot(ledger, s, a)
    BY <1>1 DEF Pot
  <2>3. SumFunctionOnSet(credit, Addresses) = SumFunctionOnSet(Pot(ledger, s, a), Addresses)
    BY <1>1 DEF PaysOut, s, t
  <2> HIDE DEF before, after, credit
  <2>4. \A p \in Addresses :
           before[p] \in Int /\ credit[p] \in Int /\ after[p] = before[p] + credit[p]
    BY <1>2, <2>1
  <2>5. SumFunctionOnSet(after, Addresses) =
           SumFunctionOnSet(before, Addresses) + SumFunctionOnSet(credit, Addresses)
    BY <2>4, FinitelyManyAddresses, SumPlus
  <2>6. SumFunctionOnSet(before, Addresses) \in Int /\ SumFunctionOnSet(credit, Addresses) \in Int
    BY <2>4, FinitelyManyAddresses, SumInt
  <2>7. SumFunctionOnSet(after, Addresses) - SumFunctionOnSet(before, Addresses)
           = SumFunctionOnSet(Pot(ledger, s, a), Addresses)
    BY <2>3, <2>5, <2>6
  <2> QED
    BY <2>2, <2>7 DEF before, after
<1>6. \A a \in Assets :
         Escrows!OfAsset(Wallet(ledger'), a) - Escrows!OfAsset(Wallet(ledger), a)
            = Escrows!OfAsset(Pots(ledger)[s], a)
  <2>1. \A purse, a : Escrows!OfAsset(purse, a) = Sum(purse, a)
    BY DEF Escrows!OfAsset, Escrows!SumFunctionOnSet, Escrows!FoldFunctionOnSet,
           Escrows!MapThenFoldSet, SumFunctionOnSet, FoldFunctionOnSet, MapThenFoldSet
  <2> HIDE DEF Sum, Wallet, Pots
  <2> QED
    BY <1>5, <2>1
<1>7. Pots(ledger') = [Pots(ledger) EXCEPT ![s] = Escrows!Empty]
  BY <1>3 DEF Escrows!Empty, Escrows!Purses
<1> QED
  BY <1>1, <1>4, <1>6, <1>7 DEF Escrows!PayOut, Escrows!Purses, s

LEMMA CustodyEntryAllowed ==
    ASSUME MovesInv,
           NEW p \in Addresses, NEW a \in Assets, NEW n \in CustodyAmounts,
           CustodyEntry(p, a, n)
    PROVE  Escrows!CustodyEntry
<1> DEFINE Wallet(l) == [k \in Addresses \X Assets |-> l[Unified(k[1], k[2])]]
           Pots(l) == [r \in SessionIds |->
                          [k \in Addresses \X Assets |-> l[Escrow(r, k[1], k[2])]]]
           u == Unified(p, a)
<1>1. IndInv /\ ledger \in Ledgers /\ u \in Keys
  BY UnifiedKey DEF MovesInv, CoveredInv, SerialInv, IndInv, TypeOK
<1>2. n \in Int
  BY CustodyAmountsType
<1>3. UNCHANGED sessions /\ ledger' = Record(ledger, u, n)
  BY DEF CustodyEntry
<1> HIDE DEF u
<1>4. \A k \in Keys : ledger'[k] = IF k = u THEN ledger[k] + n ELSE ledger[k]
  BY <1>1, <1>2, <1>3, RecordEntry
<1>5. Pots(ledger') = Pots(ledger)
  BY <1>1, CustodyKeepsEscrow
<1>6. \A q \in Addresses, b \in Assets :
         ledger'[Unified(q, b)] = IF q = p /\ b = a THEN ledger[Unified(q, b)] + n
                                  ELSE ledger[Unified(q, b)]
  <2>1. \A q \in Addresses, b \in Assets :
           Unified(q, b) \in Keys /\ (Unified(q, b) = u <=> q = p /\ b = a)
    BY UnifiedKey DEF u, Unified
  <2> QED
    BY <1>4, <2>1
<1>7. \A q \in Addresses, b \in Assets : ledger[Unified(q, b)] \in Int
  BY <1>1, UnifiedKey DEF Ledgers
<1> DEFINE k0 == <<p, a>>
<1>8. k0 \in Addresses \X Assets
  OBVIOUS
<1>9. \A k \in Addresses \X Assets : k # k0 => Wallet(ledger')[k] = Wallet(ledger)[k]
  BY <1>6
<1>10. Wallet(ledger') = [Wallet(ledger) EXCEPT ![k0] = Wallet(ledger')[k0]]
  <2>1. Wallet(ledger') = [k \in Addresses \X Assets |-> Wallet(ledger')[k]]
    OBVIOUS
  <2> QED
    BY <1>8, <1>9, <2>1
<1> QED
  BY <1>3, <1>5, <1>8, <1>10 DEF Escrows!CustodyEntry, Escrows!Purses

\* With serial transactions and plain requests the handlers, statement by
\* statement, keep what app sessions promise: creating one fills its pot out of
\* wallets that hold the funds and closing it pays all of it out, each in one
\* step (handlers.go:192-292, 377-590).
THEOREM SessionsKeepPromise ==
    ASSUME Driver = "sqlite", PlainRequests
    PROVE  Spec => Promise
<1>1. Init => Escrows!Init
  <2> SUFFICES ASSUME Init PROVE Escrows!Init
    OBVIOUS
  <2>1. \A p \in Addresses, a \in Assets :
           ledger[Unified(p, a)] = 0 /\ \A s \in SessionIds : ledger[Escrow(s, p, a)] = 0
    BY EmptyEntries, UnifiedKey, AccountKeys DEF Init
  <2>2. \A s \in SessionIds :
           [k \in Addresses \X Assets |-> ledger[Escrow(s, k[1], k[2])]] = Escrows!Empty
    BY <2>1 DEF Escrows!Empty, Escrows!Purses
  <2>3. [k \in Addresses \X Assets |-> ledger[Unified(k[1], k[2])]] = Escrows!Empty
    BY <2>1 DEF Escrows!Empty, Escrows!Purses
  <2> QED
    BY <2>2, <2>3 DEF Init, Escrows!Init
<1>2. MovesInv /\ [Next]_vars => [Escrows!Next]_Escrows!vars
  <2> SUFFICES ASSUME MovesInv, [Next]_vars PROVE Escrows!Next \/ UNCHANGED Escrows!vars
    OBVIOUS
  <2>1. ASSUME UNCHANGED <<ledger, sessions>> PROVE UNCHANGED Escrows!vars
    BY <2>1 DEF Escrows!vars
  <2>2. ASSUME NEW w \in Workers, CommitCreate(w) PROVE Escrows!Next
    BY <2>2, CreateFundsPot, CommitCreateFunds DEF Escrows!Next
  <2>3. ASSUME NEW w \in Workers, CommitClose(w) PROVE Escrows!Next
    BY <2>3, ClosePaysOut, CommitCloseFunds DEF Escrows!Next
  <2>4. ASSUME NEW p \in Addresses, NEW a \in Assets, NEW n \in CustodyAmounts,
               CustodyEntry(p, a, n)
        PROVE  Escrows!Next
    BY <2>4, CustodyEntryAllowed DEF Escrows!Next
  <2> QED
    BY <2>1, <2>2, <2>3, <2>4, CommittedChange DEF vars
<1> QED
  BY <1>1, <1>2, MovesHold, PTL DEF Spec, Promise, Escrows!Spec

\* A closed session is empty (handlers.go:503-590).
THEOREM NothingStaysBehind ==
    ASSUME Driver = "sqlite", PlainRequests
    PROVE  Spec => []ClosedSessionsEmpty
<1>1. MovesInv => ClosedSessionsEmpty
  BY DEF MovesInv, SessionFunds, ClosedSessionsEmpty
<1> QED
  BY <1>1, MovesHold, PTL

(***************************************************************************)
(* What sessions do keeps the sum of all accounts.                         *)
(***************************************************************************)

\* Handlers insert rows of unified accounts and of sessions only: none in the
\* account of one participant for another.
Straight(own) ==
    \A q, p \in Addresses, a \in Assets : q # p => own[<<q, p, a>>] = 0

AllStraight == \A w \in Workers : Straight(tx[w].own)

LEMMA CrossKey ==
    ASSUME NEW q \in Addresses, NEW p \in Addresses, NEW a \in Assets, q # p
    PROVE  /\ <<q, p, a>> \in Keys
           /\ \A r \in Addresses, b \in Assets : <<q, p, a>> # Unified(r, b)
           /\ \A s \in SessionIds, r \in Addresses, b \in Assets : <<q, p, a>> # Escrow(s, r, b)
BY AccountsDisjoint DEF Unified, Escrow, Keys, AccountIds

LEMMA EmptyStraight == Straight(EmptyLedger)
BY EmptyEntries, CrossKey DEF Straight

LEMMA StraightWorker ==
    ASSUME TypeOK, AllStraight, NEW w \in Workers, NEW t,
           tx' = [tx EXCEPT ![w] = t], Straight(t.own)
    PROVE  AllStraight'
<1>1. /\ tx'[w] = t
      /\ \A v \in Workers \ {w} : tx'[v] = tx[v]
  BY DEF TypeOK
<1> QED
  BY <1>1 DEF AllStraight

LEMMA StraightInit == Init => AllStraight
BY EmptyStraight DEF Init, AllStraight, Idle

LEMMA StraightStep == IndInv /\ AllStraight /\ [Next]_vars => AllStraight'
<1> SUFFICES ASSUME IndInv, AllStraight, [Next]_vars PROVE AllStraight'
  OBVIOUS
<1>0. TypeOK /\ tx \in [Workers -> Transactions]
  BY DEF IndInv, TypeOK
<1>1. ASSUME NEW w \in Workers, NEW r \in CreateRequests, BeginCreate(w, r) PROVE AllStraight'
  <2> DEFINE t == [Idle EXCEPT !.pc = "create", !.req = r]
  <2>1. t.own = EmptyLedger /\ tx' = [tx EXCEPT ![w] = t]
    BY <1>1, BeginCreateType DEF BeginCreate
  <2> HIDE DEF t
  <2> QED
    BY <1>0, <2>1, EmptyStraight, StraightWorker
<1>2. ASSUME NEW w \in Workers, CreateRow(w) PROVE AllStraight'
  <2> DEFINE u == tx[w]
             s == u.req.session
             row == u.req.rows[u.row]
  <2>1. PICK t \in Transactions : tx' = [tx EXCEPT ![w] = t] /\ t.own = Fund(u.own, s, row)
    BY <1>2, CreateRowEntries
  <2>2. u.own \in Ledgers /\ s \in SessionIds /\ row \in Rows
    BY <1>2, CreatingRow
  <2>3. \A k \in Keys :
           k # Unified(row.participant, row.asset) /\ k # Escrow(s, row.participant, row.asset)
              => t.own[k] = u.own[k]
    BY <2>1, <2>2, FundEntries
  <2>4. row.participant \in Addresses /\ row.asset \in Assets
    BY <2>2 DEF Rows
  <2> HIDE DEF row, s
  <2>5. Straight(t.own)
    BY <2>2, <2>3, <2>4, CrossKey DEF AllStraight, Straight
  <2> QED
    BY <1>0, <2>1, <2>5, StraightWorker
<1>3. ASSUME NEW w \in Workers, InsertSession(w) \/ UpdateSession(w) PROVE AllStraight'
  <2>1. PICK pc : tx' = [tx EXCEPT ![w] = [tx[w] EXCEPT !.pc = pc]]
    BY <1>3 DEF InsertSession, UpdateSession
  <2>2. [tx[w] EXCEPT !.pc = pc].own = tx[w].own
    BY <1>0, <1>3 DEF Transactions
  <2> QED
    BY <1>0, <2>1, <2>2, StraightWorker DEF AllStraight
<1>4. ASSUME NEW w \in Workers, CommitCreate(w) \/ CommitClose(w) \/ Rollback(w)
      PROVE  AllStraight'
  <2>1. tx' = [tx EXCEPT ![w] = Idle] /\ Idle.own = EmptyLedger
    BY <1>4 DEF CommitCreate, CommitClose, Rollback, Idle
  <2> QED
    BY <1>0, <2>1, EmptyStraight, StraightWorker
<1>5. ASSUME NEW w \in Workers, NEW r \in CloseRequests, BeginClose(w, r) PROVE AllStraight'
  <2> DEFINE t == [Idle EXCEPT !.pc = "sum", !.req = r, !.todo = BalancesToSum(r)]
  <2>1. t.own = EmptyLedger /\ tx' = [tx EXCEPT ![w] = t]
    BY <1>5, BeginCloseType DEF BeginClose
  <2> HIDE DEF t
  <2> QED
    BY <1>0, <2>1, EmptyStraight, StraightWorker
<1>6. ASSUME NEW w \in Workers, NEW x \in tx[w].todo, SumBalance(w, x[1], x[2])
      PROVE  AllStraight'
  <2> DEFINE k == Escrow(tx[w].req.session, Participants(tx[w].req.session)[x[1]], x[2])
             t == [tx[w] EXCEPT !.todo = tx[w].todo \ {<<x[1], x[2]>>},
                                !.funds[x[2]] = tx[w].funds[x[2]] + Visible(w, k)]
  <2>1. t.own = tx[w].own
    BY <1>0 DEF Transactions
  <2>2. tx' = [tx EXCEPT ![w] = t]
    BY <1>0, <1>6 DEF SumBalance, Transactions
  <2> HIDE DEF t
  <2> QED
    BY <1>0, <2>1, <2>2, StraightWorker DEF AllStraight
<1>7. ASSUME NEW w \in Workers, DistributeRow(w) PROVE AllStraight'
  <2> DEFINE u == tx[w]
             s == u.req.session
             row == u.req.rows[u.row]
             share == Visible(w, Escrow(s, row.participant, row.asset))
  <2>1. PICK t \in Transactions : /\ tx' = [tx EXCEPT ![w] = t]
                                  /\ t.own = Settle(u.own, s, row, share)
    BY <1>7, DistributeRowEntries
  <2>2. row \in Rows /\ share \in Int
    BY <1>7, DistributeRowEntries
  <2>3. u.own \in Ledgers /\ s \in SessionIds
    BY <1>0, <1>7, ClosingSession DEF IndInv, DistributeRow, Closing, TypeOK, Transactions
  <2>4. \A k \in Keys :
           k # Unified(row.participant, row.asset) /\ k # Escrow(s, row.participant, row.asset)
              => t.own[k] = u.own[k]
    BY <2>1, <2>2, <2>3, SettleEntries
  <2>5. row.participant \in Addresses /\ row.asset \in Assets
    BY <2>2 DEF Rows
  <2> HIDE DEF row, s, share
  <2>6. Straight(t.own)
    BY <2>3, <2>4, <2>5, CrossKey DEF AllStraight, Straight
  <2> QED
    BY <1>0, <2>1, <2>6, StraightWorker
<1>8. CASE UNCHANGED tx
  BY <1>8 DEF AllStraight
<1>9. ASSUME NEW p \in Addresses, NEW a \in Assets, NEW n \in CustodyAmounts,
             CustodyEntry(p, a, n)
      PROVE  AllStraight'
  BY <1>8, <1>9 DEF CustodyEntry
<1>10. CASE UNCHANGED vars
  BY <1>8, <1>10 DEF vars
<1> QED
  BY <1>1, <1>2, <1>3, <1>4, <1>5, <1>6, <1>7, <1>9, <1>10 DEF Next

\* The sum of a transaction's entries is that of its unified accounts and of its
\* session's account.
LEMMA EntriesAddUp ==
    ASSUME IsFiniteSet(SessionIds), NEW own \in Ledgers, NEW s \in SessionIds, NEW a \in Assets,
           Straight(own),
           \A r \in SessionIds \ {s}, p \in Addresses : own[Escrow(r, p, a)] = 0
    PROVE  /\ IsFiniteSet(AccountIds \X Addresses \X {a})
           /\ Total(own, a) = SumFunctionOnSet([p \in Addresses |-> own[Unified(p, a)]], Addresses)
                              + SumFunctionOnSet([p \in Addresses |-> own[Escrow(s, p, a)]], Addresses)
<1> DEFINE K == AccountIds \X Addresses \X {a}
           UK == {Unified(p, a) : p \in Addresses}
           EK == {Escrow(s, p, a) : p \in Addresses}
           fu == [k \in K |-> IF k \in UK THEN own[k] ELSE 0]
           fe == [k \in K |-> IF k \in EK THEN own[k] ELSE 0]
           u == [p \in Addresses |-> own[Unified(p, a)]]
           e == [p \in Addresses |-> own[Escrow(s, p, a)]]
<1>1. IsFiniteSet(K)
  <2>1. IsFiniteSet(AccountIds)
    BY FinitelyManyAddresses, FS_Union DEF AccountIds
  <2>2. IsFiniteSet({a})
    BY FS_Singleton
  <2>3. IsFiniteSet(AccountIds \X Addresses)
    BY <2>1, FinitelyManyAddresses, FS_Product
  <2>4. IsFiniteSet((AccountIds \X Addresses) \X {a})
    BY <2>2, <2>3, FS_Product
  <2> DEFINE pack == [x \in (AccountIds \X Addresses) \X {a} |-> <<x[1][1], x[1][2], x[2]>>]
  <2>5. pack \in Surjection((AccountIds \X Addresses) \X {a}, K)
    <3>1. ASSUME NEW k \in K PROVE \E x \in (AccountIds \X Addresses) \X {a} : pack[x] = k
      <4>1. /\ <<<<k[1], k[2]>>, k[3]>> \in (AccountIds \X Addresses) \X {a}
            /\ k = <<k[1], k[2], k[3]>>
        OBVIOUS
      <4> QED
        BY <4>1
    <3>2. pack \in [(AccountIds \X Addresses) \X {a} -> K]
      OBVIOUS
    <3> QED
      BY <3>1, <3>2 DEF Surjection
  <2> HIDE DEF pack
  <2> QED
    BY <2>4, <2>5, FS_Surjection
<1>2. /\ UK \subseteq K /\ EK \subseteq K /\ K \subseteq Keys
      /\ \A k \in K : own[k] \in Int
  BY DEF Unified, Escrow, Keys, AccountIds, Ledgers
<1>3. ASSUME NEW k \in K PROVE own[k] = fu[k] + fe[k]
  <2>1. PICK i \in AccountIds, p \in Addresses : k = <<i, p, a>>
    OBVIOUS
  <2>2. CASE i = p
    <3>1. p \in Addresses /\ k = Unified(p, a)
      BY <2>1, <2>2 DEF Unified
    <3>2. \A q \in Addresses : Unified(p, a) # Escrow(s, q, a)
      BY <3>1, AccountKeys
    <3>3. k \in UK /\ k \notin EK
      BY <3>1, <3>2
    <3> QED
      BY <1>2, <3>3
  <2>3. CASE i \in Addresses /\ i # p
    <3>1. own[k] = 0
      BY <2>1, <2>3 DEF Straight
    <3> QED
      BY <3>1
  <2>4. CASE i = s
    <3>1. k \in EK /\ k \notin UK
      BY <2>1, <2>4, AccountKeys DEF Escrow
    <3> QED
      BY <1>2, <3>1
  <2>5. CASE i \in SessionIds \ {s}
    <3>1. own[k] = 0
      BY <2>1, <2>5 DEF Escrow
    <3> QED
      BY <3>1
  <2> QED
    BY <2>1, <2>2, <2>3, <2>4, <2>5 DEF AccountIds
<1>4. \A k \in K : /\ fu[k] \in Int /\ fe[k] \in Int
                   /\ fu[k] = IF k \in UK THEN own[k] ELSE 0
                   /\ fe[k] = IF k \in EK THEN own[k] ELSE 0
  BY <1>2
<1>5. /\ \A p \in Addresses : /\ u[p] \in Int /\ own[Unified(p, a)] = u[p]
                              /\ e[p] \in Int /\ own[Escrow(s, p, a)] = e[p]
      /\ \A p, q \in Addresses : /\ Unified(p, a) = Unified(q, a) => p = q
                                 /\ Escrow(s, p, a) = Escrow(s, q, a) => p = q
  BY EntriesType DEF Unified, Escrow
<1> DEFINE hu == [p \in Addresses |-> Unified(p, a)]
           he == [p \in Addresses |-> Escrow(s, p, a)]
<1>6. SumFunctionOnSet(u, Addresses) = SumFunctionOnSet(own, UK)
  <2>1. {hu[p] : p \in Addresses} = UK
    OBVIOUS
  <2>2. /\ \A p \in Addresses : u[p] \in Int /\ own[hu[p]] = u[p]
        /\ \A p, q \in Addresses : hu[p] = hu[q] => p = q
    BY <1>5
  <2> HIDE DEF hu, u, UK
  <2> QED
    BY <2>1, <2>2, FinitelyManyAddresses, SumImage
<1>7. SumFunctionOnSet(e, Addresses) = SumFunctionOnSet(own, EK)
  <2>1. {he[p] : p \in Addresses} = EK
    OBVIOUS
  <2>2. /\ \A p \in Addresses : e[p] \in Int /\ own[he[p]] = e[p]
        /\ \A p, q \in Addresses : he[p] = he[q] => p = q
    BY <1>5
  <2> HIDE DEF he, e, EK
  <2> QED
    BY <2>1, <2>2, FinitelyManyAddresses, SumImage
<1> HIDE DEF K, UK, EK, fu, fe, u, e
<1>8. SumFunctionOnSet(own, UK) = SumFunctionOnSet(fu, K)
  BY <1>1, <1>2, <1>4, SumOver
<1>9. SumFunctionOnSet(own, EK) = SumFunctionOnSet(fe, K)
  BY <1>1, <1>2, <1>4, SumOver
<1>10. SumFunctionOnSet(own, K) = SumFunctionOnSet(fu, K) + SumFunctionOnSet(fe, K)
  BY <1>1, <1>3, <1>4, SumPlus
<1> QED
  BY <1>1, <1>6, <1>7, <1>8, <1>9, <1>10 DEF Total, K, u, e

\* A commit whose entries add up to nothing keeps the total.
LEMMA BalancedCommit ==
    ASSUME IsFiniteSet(SessionIds), IndInv, AllStraight, NEW w \in Workers,
           CommitCreate(w) \/ CommitClose(w), tx[w].req.session \in SessionIds,
           NEW a \in Assets,
           \A r \in SessionIds \ {tx[w].req.session}, p \in Addresses :
              tx[w].own[Escrow(r, p, a)] = 0,
           SumFunctionOnSet([p \in Addresses |-> tx[w].own[Unified(p, a)]], Addresses)
             + SumFunctionOnSet([p \in Addresses |-> tx[w].own[Escrow(tx[w].req.session, p, a)]],
                                Addresses) = 0
    PROVE  Total(ledger', a) = Total(ledger, a)
<1> DEFINE own == tx[w].own
           s == tx[w].req.session
           K == AccountIds \X Addresses \X {a}
<1>1. own \in Ledgers /\ ledger \in Ledgers /\ Straight(own) /\ s \in SessionIds
  BY DEF IndInv, TypeOK, Transactions, AllStraight
<1>2. \A k \in Keys : ledger'[k] = ledger[k] + own[k]
  BY CommitStep DEF CommitCreate, CommitClose
<1>3. K \subseteq Keys
  BY DEF Keys
<1>4. \A k \in K : ledger[k] \in Int /\ own[k] \in Int /\ ledger'[k] = ledger[k] + own[k]
  BY <1>1, <1>2, <1>3 DEF Ledgers
<1> HIDE DEF own, s
<1>5. IsFiniteSet(K) /\ Total(own, a) = 0
  BY <1>1, EntriesAddUp DEF own, s
<1> HIDE DEF K
<1>6. SumFunctionOnSet(ledger', K) = SumFunctionOnSet(ledger, K) + SumFunctionOnSet(own, K)
  BY <1>4, <1>5, SumPlus
<1>7. SumFunctionOnSet(ledger, K) \in Int
  BY <1>4, <1>5, SumInt
<1> QED
  BY <1>5, <1>6, <1>7 DEF Total, K

\* Only custody events change what the ledger holds of an asset: with serial
\* transactions and plain requests, creating and closing sessions neither makes
\* nor loses funds (MCAppSession_double_close.cfg and
\* MCAppSession_crossed_assets.cfg show that both are needed).
THEOREM FundsAreConserved ==
    ASSUME Driver = "sqlite", PlainRequests, IsFiniteSet(SessionIds)
    PROVE  Spec => Conservation
<1> DEFINE A == CustodyStep \/ \A a \in Assets : Total(ledger', a) = Total(ledger, a)
<1>1. ASSUME MovesInv, AllStraight, Next PROVE A
  <2>0. IndInv
    BY <1>1 DEF MovesInv, CoveredInv, SerialInv
  <2>1. CASE UNCHANGED <<ledger, sessions>>
    BY <2>1 DEF Total
  <2>2. ASSUME NEW p \in Addresses, NEW b \in Assets, NEW n \in CustodyAmounts,
               CustodyEntry(p, b, n)
        PROVE  CustodyStep
    BY <2>2 DEF CustodyEntry, CustodyStep
  <2>3. ASSUME NEW w \in Workers, CommitCreate(w), NEW a \in Assets
        PROVE  Total(ledger', a) = Total(ledger, a)
    <3> DEFINE t == tx[w]
               s == t.req.session
               u == [p \in Addresses |-> t.own[Unified(p, a)]]
               e == [p \in Addresses |-> t.own[Escrow(s, p, a)]]
               z == [p \in Addresses |-> 0]
    <3>1. t.pc \in Creating
      BY <2>3 DEF CommitCreate, Creating
    <3>2. /\ s \in SessionIds /\ t.own \in Ledgers /\ CreateMoves(t)
          /\ \A r \in SessionIds \ {s}, p \in Addresses : t.own[Escrow(r, p, a)] = 0
      BY <1>1, <2>0, <3>1, CreatingSession
         DEF MovesInv, MovesOK, IndInv, TypeOK, Transactions, TransactionOK, CreateEntries
    <3>3. \A p \in Addresses : u[p] \in Int /\ e[p] \in Int /\ z[p] = u[p] + e[p]
      BY <3>2, EntriesType DEF CreateMoves
    <3>4. \A p \in Addresses : z[p] = 0
      OBVIOUS
    <3> HIDE DEF u, e, z
    <3>5. SumFunctionOnSet(z, Addresses) = SumFunctionOnSet(u, Addresses) + SumFunctionOnSet(e, Addresses)
      BY <3>3, FinitelyManyAddresses, SumPlus
    <3>6. SumFunctionOnSet(z, Addresses) = 0
      BY <3>4, FinitelyManyAddresses, SumZero
    <3>7. SumFunctionOnSet(u, Addresses) + SumFunctionOnSet(e, Addresses) = 0
      BY <3>5, <3>6
    <3> QED
      BY <1>1, <2>0, <2>3, <3>2, <3>7, BalancedCommit DEF u, e
  <2>4. ASSUME NEW w \in Workers, CommitClose(w), NEW a \in Assets
        PROVE  Total(ledger', a) = Total(ledger, a)
    <3> DEFINE t == tx[w]
               s == t.req.session
               u == Credits(t, a)
               pot == Pot(ledger, s, a)
               e == [p \in Addresses |-> t.own[Escrow(s, p, a)]]
               z == [p \in Addresses |-> 0]
    <3>1. t.pc = "updated" /\ t.pc \in Closing
      BY <2>4 DEF CommitClose, Closing
    <3>2. /\ s \in SessionIds /\ t.own \in Ledgers /\ ledger \in Ledgers /\ PaysOut(t, ledger)
          /\ \A r \in SessionIds \ {s}, p \in Addresses : t.own[Escrow(r, p, a)] = 0
      BY <1>1, <2>0, <3>1, ClosingSession
         DEF MovesInv, MovesOK, IndInv, TypeOK, Transactions, TransactionOK, CloseEntries
    <3>3. \A p \in Addresses : pot[p] \in Int /\ e[p] \in Int /\ z[p] = pot[p] + e[p]
      BY <3>2, EntriesType DEF PaysOut, Pot
    <3>4. \A p \in Addresses : z[p] = 0
      OBVIOUS
    <3>5. SumFunctionOnSet(u, Addresses) = SumFunctionOnSet(pot, Addresses)
      BY <3>2 DEF PaysOut
    <3> HIDE DEF u, e, z, pot
    <3>6. SumFunctionOnSet(z, Addresses) = SumFunctionOnSet(pot, Addresses) + SumFunctionOnSet(e, Addresses)
      BY <3>3, FinitelyManyAddresses, SumPlus
    <3>7. SumFunctionOnSet(z, Addresses) = 0
      BY <3>4, FinitelyManyAddresses, SumZero
    <3>8. SumFunctionOnSet(u, Addresses) + SumFunctionOnSet(e, Addresses) = 0
      BY <3>5, <3>6, <3>7
    <3> QED
      BY <1>1, <2>0, <2>4, <3>2, <3>8, BalancedCommit DEF u, e, Credits
  <2> QED
    BY <1>1, <2>1, <2>2, <2>3, <2>4, CommittedChange
<1>2. MovesInv /\ AllStraight /\ [Next]_vars => [A]_vars
  BY <1>1
<1>3. MovesInv => IndInv
  BY DEF MovesInv, CoveredInv, SerialInv
<1>4. Spec => []MovesInv
  BY MovesHold
<1>5. Spec => []AllStraight
  BY <1>3, <1>4, StraightInit, StraightStep, PTL DEF Spec
<1> QED
  BY <1>2, <1>4, <1>5, PTL DEF Spec, Conservation
===============================================================================
