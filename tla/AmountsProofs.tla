----------------------------- MODULE AmountsProofs -----------------------------
(***************************************************************************)
(* Proofs about Amounts, for every width, unit and amount: its types, that *)
(* rows have the low bits of their contracts' amounts unless an event was  *)
(* dropped, that a channel whose row differs is frozen, and what balance,  *)
(* sessions and wallet sum up to.                                          *)
(***************************************************************************)
EXTENDS Amounts, Sums, TLAPS

-------------------------------------------------------------------------------
\* Remainders and quotients.

LEMMA Remainder ==
    ASSUME NEW n \in Int, NEW w \in Nat \ {0}
    PROVE  /\ n % w \in 0..(w - 1)
           /\ n \div w \in Int
           /\ n = (n \div w) * w + (n % w)
BY SMTT(30)

LEMMA RemainderOf ==
    ASSUME NEW q \in Int, NEW r \in Int, NEW w \in Nat \ {0}, r >= 0, r < w
    PROVE  (q * w + r) % w = r
BY SMTT(60)

\* Adding and narrowing commute.
LEMMA RemainderOfSum ==
    ASSUME NEW a \in Int, NEW b \in Int, NEW w \in Nat \ {0}
    PROVE  ((a % w) + b) % w = (a + b) % w
<1> DEFINE q == a \div w
           c == (a % w) + b
           k == c \div w
           r == c % w
<1>1. q \in Int /\ a % w \in Int /\ a = q * w + (a % w)
  BY Remainder
<1>2. c \in Int
  BY <1>1
<1> HIDE DEF c, q
<1>3. k \in Int /\ r \in 0..(w - 1) /\ c = k * w + r
  BY <1>2, Remainder
<1>4. a + b = q * w + c
  BY <1>1 DEF c
<1> HIDE DEF k, r
<1>5. a + b = (q + k) * w + r
  <2>1. (q + k) * w = q * w + k * w
    BY <1>1, <1>3, SMT
  <2> QED
    BY <1>1, <1>3, <1>4, <2>1
<1>6. q + k \in Int /\ r \in Int /\ r >= 0 /\ r < w
  BY <1>1, <1>3
<1>7. (a + b) % w = r
  <2> DEFINE m == q + k
  <2>1. m \in Int
    BY <1>6
  <2>2. a + b = m * w + r
    BY <1>5
  <2> HIDE DEF m
  <2>3. (m * w + r) % w = r
    BY <1>6, <2>1, RemainderOf
  <2> QED
    BY <2>2, <2>3
<1> QED
  BY <1>7 DEF r, c

LEMMA WordType == Word \in Nat \ {0} /\ Half \in Nat \ {0}
BY UnitsType DEF Word

LEMMA LowBitsType == ASSUME NEW n \in Int PROVE LowBits(n) \in Nat
BY WordType, Remainder DEF LowBits

\* Narrowing a summand changes nothing.
LEMMA LowBitsOfTerm ==
    ASSUME NEW a \in Int, NEW b \in Int
    PROVE  LowBits(LowBits(a) + b) = LowBits(a + b)
BY WordType, RemainderOfSum DEF LowBits

LEMMA LowBitsOfSum ==
    ASSUME NEW n \in Int, NEW x \in Int, NEW y \in Int
    PROVE  LowBits(n + LowBits(x) + LowBits(y)) = LowBits(n + x + y)
<1> DEFINE lx == LowBits(x)
           ly == LowBits(y)
<1>1. lx \in Int /\ ly \in Int
  BY LowBitsType
<1>2. \A b \in Int : LowBits(lx + b) = LowBits(x + b) /\ LowBits(ly + b) = LowBits(y + b)
  BY LowBitsOfTerm
<1> HIDE DEF lx, ly
<1>3. LowBits(lx + (n + ly)) = LowBits(x + (n + ly))
  <2>1. n + ly \in Int
    BY <1>1
  <2> QED
    BY <1>2, <2>1
<1>4. LowBits(ly + (n + x)) = LowBits(y + (n + x))
  <2>1. n + x \in Int
    OBVIOUS
  <2> QED
    BY <1>2, <2>1
<1>5. /\ n + lx + ly = lx + (n + ly)
      /\ x + (n + ly) = ly + (n + x)
      /\ y + (n + x) = n + x + y
  BY <1>1
<1>6. LowBits(n + lx + ly) = LowBits(n + x + y)
  BY <1>3, <1>4, <1>5
<1> QED
  BY <1>6 DEF lx, ly

LEMMA RawBalanceType ==
    ASSUME NEW c \in Channels, balance \in Int
    PROVE  RawBalance(c) \in Int /\ (balance >= 0 => RawBalance(c) >= 0)
<1>1. Unit[c] \in Nat \ {0}
  BY UnitsType
<1> DEFINE u == Unit[c]
<1> HIDE DEF u
<1>2. /\ balance \div u \in Int
      /\ (-balance) \div u \in Int
      /\ balance >= 0 => balance \div u >= 0
  BY <1>1, SMTT(30) DEF u
<1> QED
  BY <1>2 DEF RawBalance, u

-------------------------------------------------------------------------------
\* The inductive invariant.

\* A row is behind its contract or as far; what is as far has its low bits.
RowsInv ==
    \A c \in Channels :
        /\ rows[c].version <= contract[c].version
        /\ contract[c].status = "void" => rows[c].status = "none" /\ contract[c].amount = 0
        /\ contract[c].status = "initial" => contract[c].version = 0
        /\ rows[c].status = "none" =>
               /\ contract[c].status \in {"void", "initial"}
               /\ contract[c].version = 0 /\ rows[c].amount = 0
        /\ rows[c].status # "none" /\ rows[c].version = contract[c].version =>
               rows[c].amount = LowBits(contract[c].amount)

\* The event to handle takes the row to its contract.
PendingInv ==
    LET c == pending.channel
        d == pending.deltas
    IN  pending # None =>
            /\ contract[c].status # "void"
            /\ rows[c].status = "none" <=> pending.kind = "Created"
            /\ pending.kind = "Created" => contract[c].amount = d[1]
            /\ pending.kind = "Joined" => rows[c].version = contract[c].version
            /\ pending.kind \in {"Resized", "Closed"} => rows[c].version + 1 = contract[c].version
            /\ pending.kind = "Resized" => contract[c].amount = rows[c].amount + d[1] + d[2]
            /\ pending.kind = "Closed" => contract[c].amount = 0

\* A signed state is at most one version ahead of its row, and starts from its amount.
SignedInv ==
    \A s \in signed :
        LET row == rows[s.channel]
        IN  /\ row.status # "none" /\ s.version <= row.version + 1
            /\ s.version = row.version + 1 =>
                   IF s.close THEN s.amount + s.broker = row.amount
                              ELSE s.amount = row.amount + s.deltas[1] + s.deltas[2]

IInv == TypeOK /\ RowsInv /\ PendingInv /\ SignedInv

LEMMA InitKeeps == Init => IInv
<1> SUFFICES ASSUME Init PROVE IInv
  OBVIOUS
<1>1. TypeOK
  <2>1. 0 \in 0..(Half - 1)
    BY UnitsType
  <2> QED
    BY <2>1, BetsType DEF Init, TypeOK
<1> QED
  BY <1>1, NoneIsNoEvent DEF Init, IInv, RowsInv, PendingInv, SignedInv

\* Products of amounts and units are quanta.
LEMMA QuantaType == ASSUME NEW c \in Channels, NEW n \in Int PROVE n * Unit[c] \in Int
BY UnitsType

\* What the column takes of narrowed amounts.
LEMMA StorableType ==
    ASSUME NEW n \in Int, Storable(LowBits(n)) PROVE LowBits(n) \in 0..(Half - 1)
BY LowBitsType, UnitsType DEF Storable

LEMMA NarrowZero == LowBits(0) = 0
<1>1. (0 * Word + 0) % Word = 0
  BY WordType, RemainderOf
<1> QED
  BY <1>1, WordType DEF LowBits

LEMMA OnCreateKeeps ==
    ASSUME IInv, NEW c \in Channels, NEW amount \in Deposits, OnCreate(c, amount)
    PROVE  IInv'
<1> USE DEF IInv
<1>0. amount \in Nat /\ amount * Unit[c] \in Int
  BY AmountsType, QuantaType
<1>1. pending' = Event("Created", c, <<amount, 0>>) /\ pending' \in Events
  BY <1>0 DEF OnCreate, Event, Events
<1>2. TypeOK'
  <2>1. contract' \in [Channels -> [status : {"void", "initial", "active", "final"},
                                    amount : Nat, version : Nat]]
    BY <1>0 DEF TypeOK, OnCreate
  <2> QED
    BY <1>0, <1>1, <2>1 DEF TypeOK, OnCreate
<1>3. RowsInv'
  BY <1>0 DEF TypeOK, RowsInv, OnCreate
<1>4. PendingInv'
  BY <1>0, <1>1 DEF TypeOK, RowsInv, PendingInv, OnCreate, Event
<1>5. SignedInv'
  BY DEF SignedInv, OnCreate
<1> QED
  BY <1>2, <1>3, <1>4, <1>5

LEMMA MineJoinKeeps ==
    ASSUME IInv, NEW c \in Channels, MineJoin(c)
    PROVE  IInv'
<1> USE DEF IInv
<1>1. pending' = Event("Joined", c, <<0, 0>>) /\ pending' \in Events
  BY DEF MineJoin, Event, Events
<1>2. TypeOK'
  BY <1>1 DEF TypeOK, MineJoin
<1>3. RowsInv'
  BY DEF TypeOK, RowsInv, MineJoin
<1>4. PendingInv'
  BY <1>1 DEF TypeOK, RowsInv, PendingInv, MineJoin, Event
<1>5. SignedInv'
  BY DEF SignedInv, MineJoin
<1> QED
  BY <1>2, <1>3, <1>4, <1>5

\* A state that a contract accepts starts from what the contract holds.
LEMMA AcceptedFits ==
    ASSUME IInv, NEW s \in signed, Acceptable(s, contract[s.channel])
    PROVE  LET c == s.channel
           IN  /\ c \in Channels /\ contract[c].status = "active"
               /\ rows[c].status # "none"
               /\ rows[c].version = contract[c].version
               /\ s.version = contract[c].version + 1
               /\ IF s.close THEN s.amount + s.broker = rows[c].amount
                             ELSE s.amount = rows[c].amount + s.deltas[1] + s.deltas[2]
<1> DEFINE c == s.channel
<1>1. /\ c \in Channels /\ s.version \in Nat
      /\ rows[c].version \in Nat /\ contract[c].version \in Nat
  BY DEF IInv, TypeOK
<1>2. contract[c].status = "active" /\ s.version > contract[c].version
  BY DEF Acceptable
<1>3. rows[c].version <= contract[c].version
  BY <1>1 DEF IInv, RowsInv
<1>4. /\ rows[c].status # "none" /\ s.version <= rows[c].version + 1
      /\ s.version = rows[c].version + 1 =>
             IF s.close THEN s.amount + s.broker = rows[c].amount
                        ELSE s.amount = rows[c].amount + s.deltas[1] + s.deltas[2]
  BY DEF IInv, SignedInv
<1>5. rows[c].version = contract[c].version /\ s.version = rows[c].version + 1
  BY <1>1, <1>2, <1>3, <1>4
<1> QED
  BY <1>1, <1>2, <1>4, <1>5

LEMMA StillSigned ==
    ASSUME NEW c, NEW on PROVE StillAcceptable(c, on) \subseteq signed
BY DEF StillAcceptable

LEMMA SubmitResizeKeeps ==
    ASSUME IInv, NEW s \in signed, SubmitResize(s)
    PROVE  IInv'
<1> USE DEF IInv
<1> DEFINE c == s.channel
           d == s.deltas
           on == [contract[c] EXCEPT !.amount = s.amount, !.version = s.version]
<1>1. /\ c \in Channels /\ s.amount \in Nat /\ s.version \in Nat /\ d \in Int \X Int
      /\ s.close = FALSE
  BY DEF TypeOK, SubmitResize
<1>2. /\ contract[c].status = "active" /\ rows[c].status # "none"
      /\ rows[c].version = contract[c].version /\ s.version = contract[c].version + 1
      /\ s.amount = rows[c].amount + d[1] + d[2]
  BY <1>1, AcceptedFits DEF SubmitResize
<1>3. /\ contract' = [contract EXCEPT ![c] = on]
      /\ pending' = Event("Resized", c, d)
      /\ wallet' = wallet - d[1] * Unit[c]
      /\ signed' \subseteq signed
      /\ UNCHANGED <<rows, balance, pool, allocated>>
  BY StillSigned DEF SubmitResize
<1>4. /\ on \in [status : {"void", "initial", "active", "final"}, amount : Nat, version : Nat]
      /\ on.status = "active" /\ on.amount = s.amount /\ on.version = s.version
  <2> DEFINE was == contract[c]
  <2>1. /\ was \in [status : {"void", "initial", "active", "final"}, amount : Nat, version : Nat]
        /\ was.status = "active"
    BY <1>1, <1>2 DEF TypeOK
  <2> HIDE DEF was
  <2>2. on = [was EXCEPT !.amount = s.amount, !.version = s.version]
    BY DEF was
  <2> HIDE DEF on
  <2> QED
    BY <1>1, <2>1, <2>2
<1> HIDE DEF c, d, on
<1>5. /\ pending' \in Events /\ pending' # None
      /\ pending'.kind = "Resized" /\ pending'.channel = c /\ pending'.deltas = d
  BY <1>1, <1>3, NoneIsNoEvent DEF Event, Events, c, d
<1>6. contract'[c] = on /\ \A other \in Channels : other # c => contract'[other] = contract[other]
  BY <1>1, <1>3 DEF TypeOK
<1>7. TypeOK'
  <2>1. d[1] * Unit[c] \in Int
    BY <1>1, QuantaType DEF c, d
  <2>2. contract' \in [Channels -> [status : {"void", "initial", "active", "final"},
                                    amount : Nat, version : Nat]]
    BY <1>1, <1>3, <1>4 DEF TypeOK, c, d
  <2> QED
    BY <1>3, <1>5, <2>1, <2>2 DEF TypeOK
<1>8. RowsInv'
  BY <1>1, <1>2, <1>3, <1>4, <1>6 DEF TypeOK, RowsInv, c
<1>9. PendingInv'
  BY <1>1, <1>2, <1>3, <1>4, <1>5, <1>6 DEF TypeOK, PendingInv, c
<1>10. SignedInv'
  BY <1>3 DEF SignedInv
<1> QED
  BY <1>7, <1>8, <1>9, <1>10

LEMMA SubmitCloseKeeps ==
    ASSUME IInv, NEW s \in signed, SubmitClose(s)
    PROVE  IInv'
<1> USE DEF IInv
<1> DEFINE c == s.channel
           on == [status |-> "final", amount |-> 0, version |-> s.version]
<1>1. c \in Channels /\ s.amount \in Nat /\ s.version \in Nat /\ s.close
  BY DEF TypeOK, SubmitClose
<1>2. /\ contract[c].status = "active" /\ rows[c].status # "none"
      /\ rows[c].version = contract[c].version /\ s.version = contract[c].version + 1
  BY <1>1, AcceptedFits DEF SubmitClose
<1>3. /\ contract' = [contract EXCEPT ![c] = on]
      /\ pending' = Event("Closed", c, <<0, 0>>)
      /\ wallet' = wallet + s.amount * Unit[c]
      /\ signed' \subseteq signed
      /\ UNCHANGED <<rows, balance, pool, allocated>>
  BY StillSigned DEF SubmitClose
<1>4. on \in [status : {"void", "initial", "active", "final"}, amount : Nat, version : Nat]
  BY <1>1
<1>5. on.status = "final" /\ on.amount = 0 /\ on.version = s.version
  OBVIOUS
<1> HIDE DEF c, on
<1>6. /\ pending' \in Events /\ pending' # None
      /\ pending'.kind = "Closed" /\ pending'.channel = c
  BY <1>1, <1>3, NoneIsNoEvent DEF Event, Events, c
<1>7. contract'[c] = on /\ \A other \in Channels : other # c => contract'[other] = contract[other]
  BY <1>1, <1>3 DEF TypeOK
<1>8. TypeOK'
  <2>1. s.amount * Unit[c] \in Int
    BY <1>1, QuantaType DEF c
  <2>2. contract' \in [Channels -> [status : {"void", "initial", "active", "final"},
                                    amount : Nat, version : Nat]]
    BY <1>1, <1>3, <1>4 DEF TypeOK, c
  <2> QED
    BY <1>3, <1>6, <2>1, <2>2 DEF TypeOK
<1>9. RowsInv'
  BY <1>1, <1>2, <1>3, <1>5, <1>7 DEF TypeOK, RowsInv, c
<1>10. PendingInv'
  BY <1>1, <1>2, <1>3, <1>5, <1>6, <1>7 DEF TypeOK, PendingInv, c
<1>11. SignedInv'
  BY <1>3 DEF SignedInv
<1> QED
  BY <1>8, <1>9, <1>10, <1>11

\* The pending event, and what the invariant says of its channel.
LEMMA PendingFacts ==
    ASSUME IInv, pending # None
    PROVE  LET c == pending.channel
               d == pending.deltas
           IN  /\ c \in Channels /\ d[1] \in Int /\ d[2] \in Int
               /\ contract[c] \in [status : {"void", "initial", "active", "final"},
                                   amount : Nat, version : Nat]
               /\ rows[c] \in [status : {"none", "joining", "open", "closed"},
                               amount : 0..(Half - 1), version : Nat]
               /\ rows[c].amount \in Nat
               /\ rows[c].amount * Unit[c] \in Int
               /\ d[1] * Unit[c] \in Int /\ d[2] * Unit[c] \in Int
<1>1. pending \in Events
  BY DEF IInv, TypeOK
<1>2. pending.channel \in Channels /\ pending.deltas \in Int \X Int
  BY <1>1 DEF Events
<1>3. rows[pending.channel].amount \in 0..(Half - 1)
  BY <1>2 DEF IInv, TypeOK
<1>4. rows[pending.channel].amount \in Nat
  BY <1>3, UnitsType
<1> QED
  BY <1>2, <1>4, QuantaType DEF IInv, TypeOK

\* Handling an event leaves the contracts and the signed states, and replaces one row.
LEMMA HandlingKeeps ==
    ASSUME IInv, pending # None, NEW row,
           row \in [status : {"none", "joining", "open", "closed"},
                    amount : 0..(Half - 1), version : Nat],
           rows' = [rows EXCEPT ![pending.channel] = row],
           pending' = None,
           UNCHANGED <<contract, signed, pool, wallet>>,
           balance' \in Int, allocated' \in Int,
           row.status # "none",
           row.version = contract[pending.channel].version,
           row.amount = LowBits(contract[pending.channel].amount),
           \/ row.version > rows[pending.channel].version
           \/ row.amount = rows[pending.channel].amount /\ row.version = rows[pending.channel].version
           \/ rows[pending.channel].status = "none"
    PROVE  IInv'
<1> USE DEF IInv
<1> DEFINE c == pending.channel
<1>1. c \in Channels
  BY PendingFacts
<1>2. rows'[c] = row /\ \A other \in Channels : other # c => rows'[other] = rows[other]
  BY <1>1 DEF TypeOK
<1>3. TypeOK'
  <2>1. rows' \in [Channels -> [status : {"none", "joining", "open", "closed"},
                                amount : 0..(Half - 1), version : Nat]]
    BY <1>1 DEF TypeOK
  <2> QED
    BY <2>1 DEF TypeOK
<1>4. contract[c].status # "void" /\ contract[c].version \in Nat /\ rows[c].version \in Nat
  BY <1>1 DEF TypeOK, PendingInv
<1> HIDE DEF c
<1>5. RowsInv'
  <2> SUFFICES ASSUME NEW k \in Channels
               PROVE  /\ rows'[k].version <= contract[k].version
                      /\ contract[k].status = "void" => rows'[k].status = "none" /\ contract[k].amount = 0
                      /\ contract[k].status = "initial" => contract[k].version = 0
                      /\ rows'[k].status = "none" =>
                             /\ contract[k].status \in {"void", "initial"}
                             /\ contract[k].version = 0 /\ rows'[k].amount = 0
                      /\ rows'[k].status # "none" /\ rows'[k].version = contract[k].version =>
                             rows'[k].amount = LowBits(contract[k].amount)
    BY DEF RowsInv, LowBits, Word
  <2>1. CASE k = c
    BY <1>1, <1>2, <1>4, <2>1 DEF RowsInv, c
  <2>2. CASE k # c
    BY <1>2, <2>2 DEF RowsInv
  <2> QED
    BY <2>1, <2>2
<1>6. PendingInv'
  BY DEF PendingInv
<1>7. SignedInv'
  <2> SUFFICES ASSUME NEW s \in signed
               PROVE  /\ rows'[s.channel].status # "none"
                      /\ s.version <= rows'[s.channel].version + 1
                      /\ s.version = rows'[s.channel].version + 1 =>
                             IF s.close THEN s.amount + s.broker = rows'[s.channel].amount
                             ELSE s.amount = rows'[s.channel].amount + s.deltas[1] + s.deltas[2]
    BY DEF SignedInv
  <2>1. s.channel \in Channels /\ s.version \in Nat
    BY DEF TypeOK
  <2>2. CASE s.channel = c
    BY <1>2, <1>4, <2>1, <2>2 DEF SignedInv, c
  <2>3. CASE s.channel # c
    BY <1>2, <2>1, <2>3 DEF SignedInv
  <2> QED
    BY <2>2, <2>3
<1> QED
  BY <1>3, <1>5, <1>6, <1>7

LEMMA HandleCreatedKeeps == ASSUME IInv, HandleCreated PROVE IInv'
<1> DEFINE c == pending.channel
           amount == LowBits(pending.deltas[1])
           row == [status |-> "joining", amount |-> amount, version |-> 0]
<1>1. /\ pending # None /\ pending.kind = "Created" /\ pending' = None /\ Storable(amount)
      /\ rows' = [rows EXCEPT ![c] = row]
      /\ UNCHANGED <<contract, signed, balance, pool, wallet, allocated>>
  BY DEF HandleCreated, Handles
<1>2. amount \in 0..(Half - 1)
  BY <1>1, PendingFacts, StorableType
<1>3. rows[c].status = "none" /\ contract[c].amount = pending.deltas[1] /\ contract[c].version = 0
  BY <1>1, PendingFacts DEF IInv, RowsInv, PendingInv
<1>4. balance' \in Int /\ allocated' \in Int
  BY <1>1 DEF IInv, TypeOK
<1>5. row \in [status : {"none", "joining", "open", "closed"}, amount : 0..(Half - 1), version : Nat]
  BY <1>2
<1>6. row.status # "none" /\ row.version = contract[c].version /\ row.amount = LowBits(contract[c].amount)
  BY <1>3
<1> HIDE DEF row
<1> QED
  BY <1>1, <1>3, <1>4, <1>5, <1>6, HandlingKeeps DEF c

LEMMA HandleJoinedKeeps == ASSUME IInv, HandleJoined PROVE IInv'
<1> DEFINE c == pending.channel
           row == [rows[c] EXCEPT !.status = "open"]
<1>1. /\ pending # None /\ pending.kind = "Joined" /\ pending' = None
      /\ rows' = [rows EXCEPT ![c] = row]
      /\ balance' = balance + rows[c].amount * Unit[c]
      /\ UNCHANGED <<contract, signed, pool, wallet, allocated>>
  BY DEF HandleJoined, Handles
<1>2. rows[c] \in [status : {"none", "joining", "open", "closed"},
                   amount : 0..(Half - 1), version : Nat]
  BY <1>1, PendingFacts
<1>3. rows[c].version = contract[c].version /\ rows[c].amount = LowBits(contract[c].amount)
  BY <1>1, PendingFacts DEF IInv, RowsInv, PendingInv
<1>4. balance' \in Int /\ allocated' \in Int
  BY <1>1, PendingFacts DEF IInv, TypeOK
<1>5. /\ row \in [status : {"none", "joining", "open", "closed"},
                   amount : 0..(Half - 1), version : Nat]
      /\ row.status = "open" /\ row.amount = rows[c].amount /\ row.version = rows[c].version
  BY <1>2
<1> HIDE DEF row
<1> QED
  BY <1>1, <1>3, <1>4, <1>5, HandlingKeeps DEF c

LEMMA HandleResizedKeeps == ASSUME IInv, HandleResized PROVE IInv'
<1> DEFINE c == pending.channel
           d == pending.deltas
           amount == NewAmount(c, d)
           row == [rows[c] EXCEPT !.amount = amount, !.version = @ + 1]
<1>1. /\ pending # None /\ pending.kind = "Resized" /\ pending' = None /\ Storable(amount)
      /\ balance' = balance + d[1] * Unit[c]
      /\ allocated' = allocated + d[2] * Unit[c]
      /\ UNCHANGED <<contract, signed, pool, wallet>>
  BY DEF HandleResized, Handles
<1>2. /\ c \in Channels /\ d[1] \in Int /\ d[2] \in Int /\ rows[c].amount \in Nat
      /\ rows[c] \in [status : {"none", "joining", "open", "closed"},
                      amount : 0..(Half - 1), version : Nat]
      /\ d[1] * Unit[c] \in Int /\ d[2] * Unit[c] \in Int
  BY <1>1, PendingFacts
<1>3. rows' = [rows EXCEPT ![c] = row]
  BY <1>2 DEF HandleResized, Resized, IInv, TypeOK
<1>4. /\ rows[c].status # "none" /\ rows[c].version + 1 = contract[c].version
      /\ contract[c].amount = rows[c].amount + d[1] + d[2]
  BY <1>1, <1>2 DEF IInv, PendingInv
<1>5. balance' \in Int /\ allocated' \in Int
  BY <1>1, <1>2 DEF IInv, TypeOK
<1>6. amount = LowBits(contract[c].amount)
  <2> DEFINE n == rows[c].amount
             x == d[1]
             y == d[2]
  <2>1. n \in Int /\ x \in Int /\ y \in Int
    BY <1>2
  <2> HIDE DEF n, x, y
  <2>2. LowBits(n + LowBits(x) + LowBits(y)) = LowBits(n + x + y)
    BY <2>1, LowBitsOfSum
  <2> QED
    BY <1>4, <2>2 DEF NewAmount, n, x, y
<1>7. amount \in 0..(Half - 1)
  <2>1. contract[c].amount \in Int
    BY <1>2, <1>4
  <2> QED
    BY <1>1, <1>6, <2>1, StorableType
<1> HIDE DEF amount, c, d
<1>8. /\ row \in [status : {"none", "joining", "open", "closed"},
                   amount : 0..(Half - 1), version : Nat]
      /\ row.status = rows[c].status /\ row.amount = amount /\ row.version = rows[c].version + 1
  <2> DEFINE was == rows[c]
  <2>1. was \in [status : {"none", "joining", "open", "closed"},
                 amount : 0..(Half - 1), version : Nat]
    BY <1>2
  <2>2. row = [was EXCEPT !.amount = amount, !.version = was.version + 1]
    OBVIOUS
  <2> HIDE DEF row, was
  <2>3. /\ row \in [status : {"none", "joining", "open", "closed"},
                     amount : 0..(Half - 1), version : Nat]
        /\ row.status = was.status /\ row.amount = amount /\ row.version = was.version + 1
    <3> DEFINE next == was.version + 1
    <3>1. row = [was EXCEPT !.amount = amount, !.version = next] /\ next \in Nat
      BY <2>1, <2>2
    <3> HIDE DEF next
    <3>2. /\ row \in [status : {"none", "joining", "open", "closed"},
                       amount : 0..(Half - 1), version : Nat]
          /\ row.status = was.status /\ row.amount = amount /\ row.version = next
      BY <1>7, <2>1, <3>1
    <3> QED
      BY <3>2 DEF next
  <2> QED
    BY <2>3 DEF was
<1> HIDE DEF row
<1>9. row.version > rows[c].version
  BY <1>2, <1>8
<1> QED
  BY <1>1, <1>3, <1>4, <1>5, <1>6, <1>8, <1>9, HandlingKeeps DEF c

LEMMA HandleClosedKeeps == ASSUME IInv, HandleClosed PROVE IInv'
<1> DEFINE c == pending.channel
           row == [status |-> "closed", amount |-> 0, version |-> rows[c].version + 1]
<1>1. /\ pending # None /\ pending.kind = "Closed" /\ pending' = None
      /\ balance' = balance - rows[c].amount * Unit[c]
      /\ UNCHANGED <<contract, signed, pool, wallet, allocated>>
  BY DEF HandleClosed, Handles
<1>2. /\ c \in Channels
      /\ rows[c] \in [status : {"none", "joining", "open", "closed"},
                      amount : 0..(Half - 1), version : Nat]
      /\ rows[c].amount * Unit[c] \in Int
  BY <1>1, PendingFacts
<1>3. rows' = [rows EXCEPT ![c] = row]
  BY <1>2 DEF HandleClosed, IInv, TypeOK
<1>4. rows[c].version + 1 = contract[c].version /\ contract[c].amount = 0
  BY <1>1, <1>2 DEF IInv, PendingInv
<1>5. balance' \in Int /\ allocated' \in Int
  BY <1>1, <1>2 DEF IInv, TypeOK
<1>6. 0 \in 0..(Half - 1)
  BY UnitsType
<1>7. /\ row \in [status : {"none", "joining", "open", "closed"},
                   amount : 0..(Half - 1), version : Nat]
      /\ row.status = "closed" /\ row.amount = 0 /\ row.version = rows[c].version + 1
  BY <1>2, <1>6
<1> HIDE DEF row
<1>8. row.version > rows[c].version
  BY <1>2, <1>7
<1>9. row.amount = LowBits(contract[c].amount)
  BY <1>4, <1>7, NarrowZero
<1> QED
  BY <1>1, <1>3, <1>4, <1>5, <1>7, <1>8, <1>9, HandlingKeeps DEF c

LEMMA DropEventKeeps == ASSUME IInv, DropEvent PROVE IInv'
<1>1. pending' = None /\ UNCHANGED <<contract, rows, signed, balance, pool, wallet, allocated>>
  BY DEF DropEvent, Handles
<1> QED
  BY <1>1 DEF IInv, TypeOK, RowsInv, PendingInv, SignedInv, LowBits, Word

\* A state joins the signed ones if it starts from its row.
LEMMA SignKeeps ==
    ASSUME IInv, NEW s, Sign(s),
           s \in [channel : Channels, close : BOOLEAN, version : Nat, amount : Nat,
                  broker : Nat, deltas : Int \X Int],
           rows[s.channel].status # "none",
           s.version = rows[s.channel].version + 1,
           IF s.close THEN s.amount + s.broker = rows[s.channel].amount
                      ELSE s.amount = rows[s.channel].amount + s.deltas[1] + s.deltas[2]
    PROVE  IInv'
<1> USE DEF IInv
<1>1. signed' \subseteq signed \cup {s}
      /\ UNCHANGED <<contract, pending, rows, balance, pool, wallet, allocated>>
  BY DEF Sign
<1>2. TypeOK'
  BY <1>1 DEF TypeOK
<1>3. RowsInv' /\ PendingInv'
  BY <1>1 DEF RowsInv, PendingInv, LowBits, Word
<1>4. SignedInv'
  <2>1. s.version <= rows[s.channel].version + 1
    BY DEF TypeOK
  <2> QED
    BY <1>1, <2>1 DEF SignedInv
<1> QED
  BY <1>2, <1>3, <1>4

LEMMA SignResizeKeeps ==
    ASSUME IInv, NEW c \in Channels, NEW r \in Resizes, SignResize(c, r)
    PROVE  IInv'
<1> DEFINE amount == rows[c].amount + r[2] + r[1]
           s == [channel |-> c, close |-> FALSE, version |-> rows[c].version + 1,
                 amount |-> amount, broker |-> 0, deltas |-> r]
<1>1. r \in Int \X Int /\ r[1] \in Int /\ r[2] \in Int
  BY AmountsType
<1>2. rows[c].amount \in Nat /\ rows[c].version \in Nat
  <2>1. rows[c].amount \in 0..(Half - 1) /\ rows[c].version \in Nat
    BY DEF IInv, TypeOK
  <2> QED
    BY <2>1, UnitsType
<1>3. rows[c].status # "none" /\ amount >= 0 /\ Sign(s)
  BY DEF SignResize
<1>4. amount \in Nat /\ amount = rows[c].amount + r[1] + r[2]
  BY <1>1, <1>2, <1>3
<1> HIDE DEF amount
<1>5. /\ s \in [channel : Channels, close : BOOLEAN, version : Nat, amount : Nat,
                 broker : Nat, deltas : Int \X Int]
      /\ s.channel = c /\ s.close = FALSE /\ s.version = rows[c].version + 1
      /\ s.amount = amount /\ s.deltas = r
  BY <1>1, <1>2, <1>4
<1> HIDE DEF s
<1> QED
  BY <1>3, <1>4, <1>5, SignKeeps

LEMMA SignCloseKeeps ==
    ASSUME IInv, NEW c \in Channels, SignClose(c)
    PROVE  IInv'
<1> DEFINE amount == RawBalance(c)
           broker == rows[c].amount - amount
           s == [channel |-> c, close |-> TRUE, version |-> rows[c].version + 1,
                 amount |-> amount, broker |-> broker, deltas |-> <<0, 0>>]
<1>1. rows[c].amount \in Nat /\ rows[c].version \in Nat
  <2>1. rows[c].amount \in 0..(Half - 1) /\ rows[c].version \in Nat
    BY DEF IInv, TypeOK
  <2> QED
    BY <2>1, UnitsType
<1>2. rows[c].status # "none" /\ balance >= 0 /\ amount <= rows[c].amount /\ Sign(s)
  BY DEF SignClose
<1>3. amount \in Nat
  <2>1. balance \in Int
    BY DEF IInv, TypeOK
  <2> QED
    BY <1>2, <2>1, RawBalanceType
<1> HIDE DEF amount
<1>4. broker \in Nat /\ amount + broker = rows[c].amount
  BY <1>1, <1>2, <1>3
<1> HIDE DEF broker
<1>5. /\ s \in [channel : Channels, close : BOOLEAN, version : Nat, amount : Nat,
                 broker : Nat, deltas : Int \X Int]
      /\ s.channel = c /\ s.close /\ s.version = rows[c].version + 1
      /\ s.amount = amount /\ s.broker = broker
  BY <1>1, <1>3, <1>4
<1> HIDE DEF s
<1> QED
  BY <1>2, <1>4, <1>5, SignKeeps

LEMMA FundsKeep ==
    ASSUME IInv, NEW n \in Bets, LockFunds(n) \/ PayOut(n)
    PROVE  IInv'
<1>1. n \in Nat /\ balance \in Int /\ pool \in Nat
  BY BetsType DEF IInv, TypeOK
<1>2. UNCHANGED <<contract, pending, rows, signed, wallet, allocated>>
  BY DEF LockFunds, PayOut
<1>3. balance' \in Int /\ pool' \in Nat
  BY <1>1 DEF LockFunds, PayOut
<1> QED
  BY <1>2, <1>3 DEF IInv, TypeOK, RowsInv, PendingInv, SignedInv, LowBits, Word

LEMMA NextKeeps == IInv /\ [Next]_vars => IInv'
<1> SUFFICES ASSUME IInv, [Next]_vars PROVE IInv'
  OBVIOUS
<1>1. CASE UNCHANGED vars
  BY <1>1 DEF vars, IInv, TypeOK, RowsInv, PendingInv, SignedInv, LowBits, Word
<1>2. CASE Next
  BY <1>2, OnCreateKeeps, MineJoinKeeps, SignResizeKeeps, SignCloseKeeps, SubmitResizeKeeps,
     SubmitCloseKeeps, HandleCreatedKeeps, HandleJoinedKeeps, HandleResizedKeeps,
     HandleClosedKeeps, DropEventKeeps, FundsKeep DEF Next, Handle
<1> QED
  BY <1>1, <1>2

LEMMA InvariantHolds == Spec => []IInv
BY InitKeeps, NextKeeps, PTL DEF Spec

-------------------------------------------------------------------------------
\* Types, and rows with the low bits of what their contracts hold.

\* Every variable has its type: a row holds what its column can, whatever the
\* contract's amount.
THEOREM AmountsTyped == Spec => []TypeOK
<1>1. IInv => TypeOK
  BY DEF IInv
<1> QED
  BY <1>1, InvariantHolds, PTL

\* Unless an event of it was dropped, a row has the low bits of what its contract
\* holds, however often the channel was resized and by whatever amounts.
THEOREM RowsKeepLowBits == Spec => []RowsAreLowBits
<1>1. IInv => RowsAreLowBits
  <2> SUFFICES ASSUME IInv, NEW c \in Channels, Settled(c), ~Missed(c)
               PROVE  rows[c].amount = LowBits(contract[c].amount)
    BY DEF RowsAreLowBits
  <2>1. CASE rows[c].status = "none"
    <3>1. contract[c].status = "void"
      BY <2>1 DEF Missed
    <3>2. contract[c].amount = 0 /\ rows[c].amount = 0
      BY <2>1, <3>1 DEF IInv, RowsInv
    <3> QED
      BY <3>2, NarrowZero
  <2>2. CASE rows[c].status # "none"
    BY <2>2 DEF IInv, RowsInv, Missed
  <2> QED
    BY <2>1, <2>2
<1> QED
  BY <1>1, InvariantHolds, PTL

-------------------------------------------------------------------------------
\* Sums over the rows of a status.

Row == [status : {"none", "joining", "open", "closed"}, amount : 0..(Half - 1), version : Nat]

\* The quanta of a channel whose row has the status st.
Quanta(st) ==
    [c \in Channels |-> IF rows[c].status = st THEN rows[c].amount * Unit[c] ELSE 0]

Total(st) == SumFunctionOnSet(Quanta(st), Channels)

LEMMA RowQuanta ==
    ASSUME NEW c \in Channels, NEW row \in Row
    PROVE  row.amount \in Nat /\ row.amount * Unit[c] \in Nat
<1>1. row.amount \in 0..(Half - 1)
  BY DEF Row
<1>2. row.amount \in Nat
  BY <1>1, UnitsType
<1>3. Unit[c] \in Nat
  BY UnitsType
<1> QED
  BY <1>2, <1>3

LEMMA QuantaAreNat ==
    ASSUME rows \in [Channels -> Row], NEW st
    PROVE  \A c \in Channels : Quanta(st)[c] \in Nat
BY RowQuanta DEF Quanta

LEMMA TotalIsNat == ASSUME rows \in [Channels -> Row], NEW st PROVE Total(st) \in Nat
BY QuantaAreNat, FinitelyMany, SumNat DEF Total

\* What one changed row does to the sums.
LEMMA OneRowChanges ==
    ASSUME rows \in [Channels -> Row], NEW c \in Channels, NEW row \in Row, NEW st,
           rows' = [rows EXCEPT ![c] = row]
    PROVE  Total(st)' = Total(st) + ((IF row.status = st THEN row.amount * Unit[c] ELSE 0)
                                      - Quanta(st)[c])
<1>1. rows' \in [Channels -> Row]
  OBVIOUS
<1> DEFINE f == Quanta(st)
           g == Quanta(st)'
<1>2. \A y \in Channels : f[y] \in Nat /\ g[y] \in Nat
  <2>1. \A y \in Channels : f[y] \in Nat
    BY QuantaAreNat
  <2>2. \A y \in Channels : g[y] \in Nat
    BY <1>1, RowQuanta DEF Quanta
  <2> QED
    BY <2>1, <2>2
<1>3. \A y \in Channels : y # c => g[y] = f[y]
  BY DEF Quanta
<1>4. g[c] = IF row.status = st THEN row.amount * Unit[c] ELSE 0
  BY DEF Quanta
<1> HIDE DEF f, g
<1>5. SumFunctionOnSet(g, Channels) = SumFunctionOnSet(f, Channels) + (g[c] - f[c])
  BY <1>2, <1>3, FinitelyMany, SumChange
<1> QED
  BY <1>4, <1>5 DEF Total, f, g

LEMMA TotalKept == ASSUME NEW st, rows' = rows PROVE Total(st)' = Total(st)
BY DEF Total, Quanta

-------------------------------------------------------------------------------
\* Rows are credited when their contract becomes active, and once.

StatusInv ==
    /\ \A c \in Channels : Settled(c) /\ contract[c].status = "active" => rows[c].status = "open"
    /\ pending # None =>
          /\ pending.kind = "Joined" => rows[pending.channel].status = "joining"
          /\ pending.kind \in {"Resized", "Closed"} => rows[pending.channel].status = "open"
          /\ pending.kind = "Created" => contract[pending.channel].status = "initial"
          /\ pending.kind = "Resized" => contract[pending.channel].status = "active"
          /\ pending.kind = "Closed" => contract[pending.channel].status = "final"

\* An accepted state is of a channel whose row is open.
LEMMA AcceptedIsOpen ==
    ASSUME IInv, StatusInv, NEW s \in signed, pending = None, Acceptable(s, contract[s.channel])
    PROVE  rows[s.channel].status = "open"
BY AcceptedFits DEF StatusInv, Settled

LEMMA StatusInit == Init => StatusInv
BY DEF Init, StatusInv

LEMMA StatusNext == ASSUME IInv, StatusInv, [Next]_vars PROVE StatusInv'
<1> USE DEF Settled
<1>0. /\ contract \in [Channels -> [status : {"void", "initial", "active", "final"},
                                    amount : Nat, version : Nat]]
      /\ rows \in [Channels -> Row]
      /\ pending # None => pending.channel \in Channels
      /\ pending # None => contract[pending.channel].status # "void"
      /\ pending # None => (rows[pending.channel].status = "none" <=> pending.kind = "Created")
  BY DEF IInv, TypeOK, Row, Events, PendingInv
<1>1. ASSUME NEW c \in Channels, NEW amount \in Deposits, OnCreate(c, amount) PROVE StatusInv'
  BY <1>0, <1>1, NoneIsNoEvent DEF OnCreate, Event, StatusInv
<1>2. ASSUME NEW c \in Channels, MineJoin(c) PROVE StatusInv'
  <2>1. /\ pending' \in Events /\ pending' # None
        /\ pending'.kind = "Joined" /\ pending'.channel = c
    BY <1>2, NoneIsNoEvent DEF MineJoin, Event, Events
  <2>2. contract' = [contract EXCEPT ![c].status = "active"] /\ rows' = rows /\ pending = None
        /\ rows[c].status = "joining"
    BY <1>2 DEF MineJoin
  <2> QED
    BY <1>0, <2>1, <2>2 DEF StatusInv
<1>3. ASSUME NEW s \in signed, SubmitResize(s) PROVE StatusInv'
  <2>1. s.channel \in Channels /\ rows[s.channel].status = "open" /\ contract[s.channel].status = "active"
    BY <1>3, AcceptedIsOpen, AcceptedFits DEF SubmitResize
  <2> QED
    BY <1>0, <1>3, <2>1 DEF SubmitResize, Event, StatusInv
<1>4. ASSUME NEW s \in signed, SubmitClose(s) PROVE StatusInv'
  <2>1. s.channel \in Channels /\ rows[s.channel].status = "open" /\ contract[s.channel].status = "active"
    BY <1>4, AcceptedIsOpen, AcceptedFits DEF SubmitClose
  <2> QED
    BY <1>0, <1>4, <2>1 DEF SubmitClose, Event, StatusInv
<1>5. CASE HandleCreated
  BY <1>0, <1>5 DEF HandleCreated, Handles, StatusInv
<1>6. CASE HandleJoined
  BY <1>0, <1>6 DEF HandleJoined, Handles, StatusInv
<1>7. CASE HandleResized
  BY <1>0, <1>7 DEF HandleResized, Resized, Handles, StatusInv
<1>8. CASE HandleClosed
  BY <1>0, <1>8 DEF HandleClosed, Handles, StatusInv
<1>9. CASE DropEvent
  BY <1>0, <1>9 DEF DropEvent, Handles, StatusInv
<1>10. CASE UNCHANGED <<contract, pending, rows>>
  BY <1>10 DEF StatusInv
<1>11. ASSUME NEW c \in Channels, NEW r \in Resizes, SignResize(c, r) PROVE StatusInv'
  BY <1>10, <1>11 DEF SignResize, Sign
<1>12. ASSUME NEW c \in Channels, SignClose(c) PROVE StatusInv'
  BY <1>10, <1>12 DEF SignClose, Sign
<1>13. ASSUME NEW n \in Bets, LockFunds(n) \/ PayOut(n) PROVE StatusInv'
  BY <1>10, <1>13 DEF LockFunds, PayOut
<1>14. CASE UNCHANGED vars
  BY <1>10, <1>14 DEF vars
<1> QED
  BY <1>1, <1>2, <1>3, <1>4, <1>5, <1>6, <1>7, <1>8, <1>9, <1>11, <1>12, <1>13, <1>14
  DEF Next, Handle

-------------------------------------------------------------------------------
\* Channels that have gone astray.

\* No step changes a channel whose row is not what its contract holds: the
\* states the broker signs for it fit the row, and the contract refuses them.
LEMMA AstrayStays ==
    ASSUME IInv, [Next]_vars, NEW c \in Channels, contract[c].status = "active", Settled(c),
           rows[c].version # contract[c].version \/ rows[c].amount # contract[c].amount
    PROVE  contract'[c] = contract[c] /\ rows'[c] = rows[c] /\ Settled(c)'
<1> DEFINE Goal == contract'[c] = contract[c] /\ rows'[c] = rows[c] /\ Settled(c)'
<1>0. /\ contract \in [Channels -> [status : {"void", "initial", "active", "final"},
                                    amount : Nat, version : Nat]]
      /\ rows \in [Channels -> [status : {"none", "joining", "open", "closed"},
                                amount : 0..(Half - 1), version : Nat]]
  BY DEF IInv, TypeOK
<1>1. ASSUME NEW k \in Channels, NEW amount \in Deposits, OnCreate(k, amount) PROVE Goal
  BY <1>0, <1>1 DEF OnCreate, Event, Settled
<1>2. ASSUME NEW k \in Channels, MineJoin(k) PROVE Goal
  BY <1>0, <1>2 DEF MineJoin, Event, Settled
<1>3. ASSUME NEW s \in signed, SubmitResize(s) PROVE Goal
  <2>1. s.channel # c
    <3> SUFFICES ASSUME s.channel = c PROVE FALSE
      OBVIOUS
    <3>1. /\ rows[c].version = contract[c].version
          /\ s.amount = rows[c].amount + s.deltas[1] + s.deltas[2]
          /\ s.amount = contract[c].amount + s.deltas[1] + s.deltas[2]
      BY <1>3, AcceptedFits DEF SubmitResize
    <3>2. rows[c].amount \in 0..(Half - 1) /\ contract[c].amount \in Nat
      BY <1>0
    <3>3. s.deltas[1] \in Int /\ s.deltas[2] \in Int
      BY DEF IInv, TypeOK
    <3>4. rows[c].amount = contract[c].amount
      BY <3>1, <3>2, <3>3, UnitsType
    <3> QED
      BY <3>1, <3>4
  <2> QED
    BY <1>0, <1>3, <2>1 DEF SubmitResize, Event, Settled
<1>4. ASSUME NEW s \in signed, SubmitClose(s) PROVE Goal
  <2>1. s.channel # c
    <3> SUFFICES ASSUME s.channel = c PROVE FALSE
      OBVIOUS
    <3>1. /\ rows[c].version = contract[c].version
          /\ s.amount + s.broker = rows[c].amount
          /\ s.amount + s.broker = contract[c].amount
      BY <1>4, AcceptedFits DEF SubmitClose
    <3> QED
      BY <3>1
  <2> QED
    BY <1>0, <1>4, <2>1 DEF SubmitClose, Event, Settled
<1>5. CASE Handle
  <2>1. contract' = contract /\ pending' = None
    BY <1>5 DEF Handle, HandleCreated, HandleJoined, HandleResized, HandleClosed, DropEvent, Handles
  <2>2. pending # None /\ pending.channel # c
    BY <1>5 DEF Handle, HandleCreated, HandleJoined, HandleResized, HandleClosed, DropEvent,
       Handles, Settled
  <2>3. \/ rows' = rows
        \/ \E row : rows' = [rows EXCEPT ![pending.channel] = row]
    BY <1>5 DEF Handle, HandleCreated, HandleJoined, HandleResized, Resized, HandleClosed, DropEvent
  <2> QED
    BY <1>0, <2>1, <2>2, <2>3 DEF Settled
<1>6. CASE UNCHANGED <<contract, rows, pending>>
  BY <1>6 DEF Settled
<1>7. ASSUME NEW k \in Channels, NEW r \in Resizes, SignResize(k, r) PROVE Goal
  BY <1>6, <1>7 DEF SignResize, Sign
<1>8. ASSUME NEW k \in Channels, SignClose(k) PROVE Goal
  BY <1>6, <1>8 DEF SignClose, Sign
<1>9. ASSUME NEW n \in Bets, LockFunds(n) \/ PayOut(n) PROVE Goal
  BY <1>6, <1>9 DEF LockFunds, PayOut
<1>10. CASE UNCHANGED vars
  BY <1>6, <1>10 DEF vars
<1> QED
  BY <1>1, <1>2, <1>3, <1>4, <1>5, <1>7, <1>8, <1>9, <1>10 DEF Next

\* No step changes a channel whose row is not what its contract holds.
THEOREM AstrayStaysFrozen == Spec => AstrayIsFrozen
<1> DEFINE Frozen == \A c \in Channels :
                        /\ contract[c].status = "active" /\ Settled(c)
                        /\ rows[c].version # contract[c].version \/ rows[c].amount # contract[c].amount
                        => contract'[c] = contract[c]
<1>1. IInv /\ [Next]_vars => Frozen
  BY AstrayStays
<1>2. Spec => [][Frozen]_vars
  BY <1>1, InvariantHolds, PTL DEF Spec
<1> QED
  BY <1>2 DEF AstrayIsFrozen

-------------------------------------------------------------------------------
\* What an event is worth to the rows, and to the participant.

\* A channel's row is only part of what the contract holds.
PartOnly ==
    \E c \in Channels :
        Settled(c) /\ contract[c].status = "active" /\ rows[c].amount # contract[c].amount

\* A channel's row missed an event.
FellBehind ==
    \E c \in Channels :
        Settled(c) /\ contract[c].status = "active" /\ rows[c].version # contract[c].version

LEMMA AstrayForever ==
    ASSUME IInv, [Next]_vars
    PROVE  (PartOnly => PartOnly') /\ (FellBehind => FellBehind')
<1>1. ASSUME NEW c \in Channels, Settled(c), contract[c].status = "active",
             rows[c].amount # contract[c].amount
      PROVE  PartOnly'
  BY <1>1, AstrayStays DEF PartOnly
<1>2. ASSUME NEW c \in Channels, Settled(c), contract[c].status = "active",
             rows[c].version # contract[c].version
      PROVE  FellBehind'
  BY <1>2, AstrayStays DEF FellBehind
<1> QED
  BY <1>1, <1>2 DEF PartOnly, FellBehind

\* Balance and sessions make up the open rows.
Even == balance + pool + allocated = Others + Total("open")

\* Of the event that waits, what is yet to be credited to the participant.
Due ==
    LET c == pending.channel
    IN  IF pending = None THEN 0
        ELSE IF pending.kind \in {"Created", "Resized"} THEN pending.deltas[1] * Unit[c]
        ELSE IF pending.kind = "Closed" THEN -(rows[c].amount * Unit[c])
        ELSE 0

\* The participant has no more than it put in, nor will have.
NothingDue == wallet + balance + pool + Due + Total("joining") <= Others

QuantaInv == (Even \/ PartOnly) /\ (NothingDue \/ FellBehind)

LEMMA Numbers ==
    ASSUME IInv
    PROVE  /\ rows \in [Channels -> Row]
           /\ balance \in Int /\ pool \in Nat /\ wallet \in Int /\ allocated \in Int
           /\ Others \in Nat /\ Total("open") \in Nat /\ Total("joining") \in Nat
           /\ Due \in Int
           /\ pending # None =>
                  /\ pending.channel \in Channels
                  /\ pending.deltas[1] \in Int /\ pending.deltas[2] \in Int
                  /\ rows[pending.channel].amount \in Nat
                  /\ rows[pending.channel].amount * Unit[pending.channel] \in Int
                  /\ pending.deltas[1] * Unit[pending.channel] \in Int
                  /\ pending.deltas[2] * Unit[pending.channel] \in Int
<1>1. rows \in [Channels -> Row]
  BY DEF IInv, TypeOK, Row
<1>2. balance \in Int /\ pool \in Nat /\ wallet \in Int /\ allocated \in Int
  BY DEF IInv, TypeOK
<1>3. Others \in Nat /\ Total("open") \in Nat /\ Total("joining") \in Nat
  BY <1>1, BetsType, TotalIsNat
<1>4. ASSUME pending # None
      PROVE  /\ pending.channel \in Channels
             /\ pending.deltas[1] \in Int /\ pending.deltas[2] \in Int
             /\ rows[pending.channel].amount \in Nat
             /\ rows[pending.channel].amount * Unit[pending.channel] \in Int
             /\ pending.deltas[1] * Unit[pending.channel] \in Int
             /\ pending.deltas[2] * Unit[pending.channel] \in Int
  BY <1>4, PendingFacts
<1>5. Due \in Int
  BY <1>4 DEF Due
<1> QED
  BY <1>1, <1>2, <1>3, <1>4, <1>5

\* What leaves the rows and the balance, the sessions and the wallet in sum.
LEMMA SumsKept ==
    ASSUME IInv, rows' = rows, allocated' = allocated,
           balance' + pool' = balance + pool, balance' \in Int, pool' \in Int,
           wallet' \in Int, Due' \in Int, wallet' + Due' <= wallet + Due
    PROVE  (Even => Even') /\ (NothingDue => NothingDue')
<1>1. Total("open")' = Total("open") /\ Total("joining")' = Total("joining")
  BY TotalKept
<1>2. Others' = Others
  OBVIOUS
<1> QED
  BY <1>1, <1>2, Numbers DEF Even, NothingDue

LEMMA QuantaInit == Init => QuantaInv
<1> SUFFICES ASSUME Init PROVE QuantaInv
  OBVIOUS
<1>1. ASSUME NEW st \in {"open", "joining"} PROVE Total(st) = 0
  <2>1. \A c \in Channels : Quanta(st)[c] = 0
    BY DEF Init, Quanta
  <2> QED
    BY <2>1, FinitelyMany, SumZero DEF Total
<1> QED
  BY <1>1, BetsType DEF Init, QuantaInv, Even, NothingDue, Due

-------------------------------------------------------------------------------
\* The steps of the contracts.

LEMMA CreateKeepsSums ==
    ASSUME IInv, NEW c \in Channels, NEW amount \in Deposits, OnCreate(c, amount)
    PROVE  (Even => Even') /\ (NothingDue => NothingDue')
<1>1. amount \in Int /\ amount * Unit[c] \in Int
  BY AmountsType, QuantaType
<1>2. /\ pending = None /\ pending' = Event("Created", c, <<amount, 0>>)
      /\ pending' \in Events /\ pending' # None
  BY <1>1, AmountsType, NoneIsNoEvent DEF OnCreate, Event, Events
<1>3. Due = 0 /\ Due' = amount * Unit[c]
  BY <1>2 DEF Due, Event
<1>4. wallet' = wallet - amount * Unit[c]
      /\ UNCHANGED <<rows, signed, balance, pool, allocated>>
  BY DEF OnCreate
<1>5. wallet' + Due' <= wallet + Due /\ wallet' \in Int /\ Due' \in Int
  BY <1>1, <1>3, <1>4, Numbers
<1> QED
  BY <1>4, <1>5, Numbers, SumsKept

LEMMA JoinKeepsSums ==
    ASSUME IInv, NEW c \in Channels, MineJoin(c)
    PROVE  (Even => Even') /\ (NothingDue => NothingDue')
<1>1. /\ pending = None /\ pending' = Event("Joined", c, <<0, 0>>)
      /\ pending' \in Events /\ pending' # None
  BY NoneIsNoEvent DEF MineJoin, Event, Events
<1>2. Due = 0 /\ Due' = 0
  BY <1>1 DEF Due, Event
<1>3. UNCHANGED <<rows, signed, balance, pool, wallet, allocated>>
  BY DEF MineJoin
<1> QED
  BY <1>2, <1>3, Numbers, SumsKept

LEMMA ResizeKeepsSums ==
    ASSUME IInv, NEW s \in signed, SubmitResize(s)
    PROVE  (Even => Even') /\ (NothingDue => NothingDue')
<1> DEFINE c == s.channel
           d == s.deltas
<1>1. c \in Channels /\ d \in Int \X Int /\ d[1] * Unit[c] \in Int
  BY QuantaType DEF IInv, TypeOK
<1>2. /\ pending = None /\ pending' = Event("Resized", c, d)
      /\ pending' \in Events /\ pending' # None
  BY <1>1, NoneIsNoEvent DEF SubmitResize, Event, Events
<1>3. Due = 0 /\ Due' = d[1] * Unit[c]
  BY <1>2 DEF Due, Event
<1>4. wallet' = wallet - d[1] * Unit[c] /\ UNCHANGED <<rows, balance, pool, allocated>>
  BY DEF SubmitResize
<1> HIDE DEF c, d
<1>5. wallet' + Due' <= wallet + Due /\ wallet' \in Int /\ Due' \in Int
  BY <1>1, <1>3, <1>4, Numbers
<1> QED
  BY <1>4, <1>5, Numbers, SumsKept

\* A close pays no more than the row it will debit.
LEMMA CloseKeepsSums ==
    ASSUME IInv, NEW s \in signed, SubmitClose(s)
    PROVE  (Even => Even') /\ (NothingDue => NothingDue')
<1> DEFINE c == s.channel
           paid == s.amount * Unit[c]
           row == rows[c].amount * Unit[c]
<1>1. c \in Channels /\ s.amount \in Nat /\ s.broker \in Nat /\ rows[c] \in Row
  BY Numbers DEF IInv, TypeOK
<1>2. s.amount + s.broker = rows[c].amount
  BY AcceptedFits DEF SubmitClose
<1>3. paid \in Nat /\ row \in Nat /\ paid <= row
  <2>1. Unit[c] \in Nat /\ rows[c].amount \in Nat
    BY <1>1, RowQuanta, UnitsType
  <2> DEFINE u == Unit[c]
             b == s.broker
             a == s.amount
  <2>2. u \in Nat /\ a \in Nat /\ b \in Nat
    BY <1>1, <2>1
  <2> HIDE DEF a, b, u
  <2>3. a * u \in Nat /\ b * u \in Nat /\ (a + b) * u = a * u + b * u
    BY <2>2, SMT
  <2> QED
    BY <1>2, <2>3 DEF a, b, u
<1>4. /\ pending = None /\ pending' = Event("Closed", c, <<0, 0>>)
      /\ pending' \in Events /\ pending' # None
  BY <1>1, NoneIsNoEvent DEF SubmitClose, Event, Events
<1>5. wallet' = wallet + paid /\ UNCHANGED <<rows, balance, pool, allocated>>
  BY DEF SubmitClose
<1>6. Due = 0 /\ Due' = -row
  BY <1>4, <1>5 DEF Due, Event
<1> HIDE DEF paid, row
<1>7. wallet' + Due' <= wallet + Due /\ wallet' \in Int /\ Due' \in Int
  BY <1>3, <1>5, <1>6, Numbers
<1> QED
  BY <1>5, <1>7, Numbers, SumsKept

-------------------------------------------------------------------------------
\* The event handlers.

LEMMA LowBitsOfNat == ASSUME NEW n \in Nat PROVE LowBits(n) \in Nat /\ LowBits(n) <= n
<1> DEFINE q == n \div Word
           r == n % Word
<1>1. q \in Int /\ r \in 0..(Word - 1) /\ n = q * Word + r /\ Word \in Nat \ {0}
  BY WordType, Remainder
<1>2. q >= 0
  BY WordType, SMTT(30)
<1> HIDE DEF q, r
<1>3. q * Word >= 0
  BY <1>1, <1>2, SMT
<1>4. r \in Nat /\ r <= n
  BY <1>1, <1>3
<1> QED
  BY <1>4 DEF LowBits, r

\* A created channel is credited with no more than was deposited.
LEMMA HandleCreatedKeepsSums ==
    ASSUME IInv, StatusInv, HandleCreated
    PROVE  (Even => Even') /\ (NothingDue => NothingDue')
<1> DEFINE c == pending.channel
           n == pending.deltas[1]
           row == [status |-> "joining", amount |-> LowBits(n), version |-> 0]
           credit == LowBits(n) * Unit[c]
           deposit == n * Unit[c]
<1>1. /\ pending # None /\ pending.kind = "Created" /\ pending' = None
      /\ Storable(LowBits(n)) /\ rows' = [rows EXCEPT ![c] = row]
      /\ UNCHANGED <<contract, signed, balance, pool, wallet, allocated>>
  BY DEF HandleCreated, Handles
<1>2. c \in Channels /\ n \in Nat /\ rows[c].status = "none"
  BY <1>1, Numbers DEF IInv, TypeOK, PendingInv
<1>3. credit \in Nat /\ deposit \in Nat /\ credit <= deposit
  <2> DEFINE u == Unit[c]
             low == LowBits(n)
  <2>1. u \in Nat /\ low \in Nat /\ n \in Nat /\ low <= n
    BY <1>2, LowBitsOfNat, UnitsType
  <2> HIDE DEF u, low, n
  <2>2. low * u \in Nat /\ n * u \in Nat /\ low * u <= n * u
    BY <2>1, SMTT(30)
  <2> QED
    BY <2>2 DEF u, low
<1>4. row \in Row /\ row.status = "joining" /\ row.amount = LowBits(n)
  BY <1>1, <1>2, StorableType DEF Row
<1>5. Quanta("joining")[c] = 0 /\ Quanta("open")[c] = 0
  BY <1>2 DEF Quanta
<1>6. Due = deposit /\ Due' = 0
  BY <1>1 DEF Due
<1> HIDE DEF c, n, row
<1>7. Total("joining")' = Total("joining")
          + ((IF row.status = "joining" THEN row.amount * Unit[c] ELSE 0) - Quanta("joining")[c])
  BY <1>1, <1>2, <1>4, Numbers, OneRowChanges
<1>8. Total("open")' = Total("open")
          + ((IF row.status = "open" THEN row.amount * Unit[c] ELSE 0) - Quanta("open")[c])
  BY <1>1, <1>2, <1>4, Numbers, OneRowChanges
<1>9. Total("joining")' = Total("joining") + (credit - 0)
  BY <1>4, <1>5, <1>7
<1>10. Total("open")' = Total("open") + (0 - 0)
  BY <1>4, <1>5, <1>8
<1> HIDE DEF credit, deposit
<1> QED
  BY <1>1, <1>3, <1>6, <1>9, <1>10, Numbers DEF Even, NothingDue

LEMMA HandleJoinedKeepsSums ==
    ASSUME IInv, StatusInv, HandleJoined
    PROVE  (Even => Even') /\ (NothingDue => NothingDue')
<1> DEFINE c == pending.channel
           row == [rows[c] EXCEPT !.status = "open"]
           credit == rows[c].amount * Unit[c]
<1>1. /\ pending # None /\ pending.kind = "Joined" /\ pending' = None
      /\ rows' = [rows EXCEPT ![c] = row]
      /\ balance' = balance + credit
      /\ UNCHANGED <<contract, signed, pool, wallet, allocated>>
  BY DEF HandleJoined, Handles
<1>2. c \in Channels /\ credit \in Int /\ rows[c] \in Row /\ rows[c].status = "joining"
  BY <1>1, Numbers DEF StatusInv
<1>3. row \in Row /\ row.status = "open" /\ row.amount = rows[c].amount
  BY <1>2 DEF Row
<1>4. Quanta("joining")[c] = credit /\ Quanta("open")[c] = 0
  BY <1>2 DEF Quanta
<1>5. Due = 0 /\ Due' = 0
  BY <1>1 DEF Due
<1> HIDE DEF row, c
<1>6. Total("joining")' = Total("joining")
          + ((IF row.status = "joining" THEN row.amount * Unit[c] ELSE 0) - Quanta("joining")[c])
  BY <1>1, <1>2, <1>3, Numbers, OneRowChanges
<1>7. Total("open")' = Total("open")
          + ((IF row.status = "open" THEN row.amount * Unit[c] ELSE 0) - Quanta("open")[c])
  BY <1>1, <1>2, <1>3, Numbers, OneRowChanges
<1>8. Total("joining")' = Total("joining") + (0 - credit)
  BY <1>3, <1>4, <1>6
<1>9. Total("open")' = Total("open") + (credit - 0)
  BY <1>3, <1>4, <1>7
<1> HIDE DEF credit
<1> QED
  BY <1>1, <1>2, <1>5, <1>8, <1>9, Numbers DEF Even, NothingDue

\* A resize that fits the row is balanced, one that does not leaves it behind for ever.
LEMMA HandleResizedKeepsSums ==
    ASSUME IInv, StatusInv, HandleResized
    PROVE  (Even => Even' \/ PartOnly') /\ (NothingDue => NothingDue')
<1> DEFINE c == pending.channel
           x == pending.deltas[1]
           y == pending.deltas[2]
           n == rows[c].amount
           u == Unit[c]
           amount == NewAmount(c, pending.deltas)
           row == [rows[c] EXCEPT !.amount = amount, !.version = @ + 1]
<1>1. /\ pending # None /\ pending.kind = "Resized" /\ pending' = None /\ Storable(amount)
      /\ balance' = balance + x * u
      /\ allocated' = allocated + y * u
      /\ UNCHANGED <<contract, signed, pool, wallet>>
  BY DEF HandleResized, Handles
<1>2. /\ c \in Channels /\ n \in Nat /\ x \in Int /\ y \in Int
      /\ rows[c] \in Row /\ rows[c].status = "open" /\ contract[c].status = "active"
      /\ contract[c].amount \in Nat /\ contract[c].amount = n + x + y
  BY <1>1, Numbers DEF StatusInv, IInv, TypeOK, PendingInv
<1>3. rows' = [rows EXCEPT ![c] = row]
  BY <1>2 DEF HandleResized, Resized, IInv, TypeOK
<1>4. amount = LowBits(contract[c].amount)
  <2> HIDE DEF n, x, y
  <2>1. LowBits(n + LowBits(x) + LowBits(y)) = LowBits(n + x + y)
    BY <1>2, LowBitsOfSum
  <2> QED
    BY <1>2, <2>1 DEF NewAmount, n, x, y
<1>5. amount \in 0..(Half - 1) /\ amount \in Nat
  BY <1>1, <1>2, <1>4, StorableType, UnitsType
<1>6. Quanta("joining")[c] = 0 /\ Quanta("open")[c] = n * u
  BY <1>2 DEF Quanta
<1>7. Due = x * u /\ Due' = 0
  BY <1>1 DEF Due
<1> HIDE DEF amount
<1>8. row \in Row /\ row.status = "open" /\ row.amount = amount
  <2> DEFINE was == rows[c]
             next == was.version + 1
  <2>1. was \in Row /\ was.status = "open" /\ next \in Nat
        /\ row = [was EXCEPT !.amount = amount, !.version = next]
    BY <1>2 DEF Row
  <2> HIDE DEF was, next
  <2> QED
    BY <1>5, <2>1 DEF Row
<1> HIDE DEF row
<1>9. rows'[c] = row
  BY <1>2, <1>3, Numbers
<1> HIDE DEF c
<1>10. Total("joining")' = Total("joining")
          + ((IF row.status = "joining" THEN row.amount * Unit[c] ELSE 0) - Quanta("joining")[c])
  BY <1>2, <1>3, <1>8, Numbers, OneRowChanges
<1>11. Total("open")' = Total("open")
          + ((IF row.status = "open" THEN row.amount * Unit[c] ELSE 0) - Quanta("open")[c])
  BY <1>2, <1>3, <1>8, Numbers, OneRowChanges
<1>12. Total("joining")' = Total("joining") + (0 - 0)
  BY <1>6, <1>8, <1>10
<1>13. Total("open")' = Total("open") + (amount * u - n * u)
  BY <1>6, <1>8, <1>11
<1>14. u \in Nat
  BY <1>2, UnitsType
<1> HIDE DEF u, n, x, y
<1>15. x * u \in Int /\ y * u \in Int /\ n * u \in Int /\ amount * u \in Int
  BY <1>2, <1>5, <1>14
<1>16. NothingDue => NothingDue'
  BY <1>1, <1>7, <1>12, <1>15, Numbers DEF NothingDue
<1>17. CASE amount = contract[c].amount
  <2>1. amount * u = n * u + x * u + y * u
    <3>1. amount = n + x + y
      BY <1>2, <1>17
    <3>2. (n + x + y) * u = n * u + x * u + y * u
      BY <1>2, <1>14, SMT
    <3> QED
      BY <3>1, <3>2
  <2>2. Even => Even'
    BY <1>1, <1>13, <1>15, <2>1, Numbers DEF Even
  <2> QED
    BY <1>16, <2>2
<1>18. CASE amount # contract[c].amount
  <2>1. rows'[c].amount = amount /\ contract'[c] = contract[c]
    BY <1>1, <1>8, <1>9
  <2>2. contract'[c].status = "active" /\ rows'[c].amount # contract'[c].amount
    BY <1>2, <1>18, <2>1
  <2>3. PartOnly'
    BY <1>1, <1>2, <2>2 DEF PartOnly, Settled
  <2> QED
    BY <1>16, <2>3
<1> QED
  BY <1>17, <1>18

LEMMA HandleClosedKeepsSums ==
    ASSUME IInv, StatusInv, HandleClosed
    PROVE  (Even => Even') /\ (NothingDue => NothingDue')
<1> DEFINE c == pending.channel
           row == [status |-> "closed", amount |-> 0, version |-> rows[c].version + 1]
           debit == rows[c].amount * Unit[c]
<1>1. /\ pending # None /\ pending.kind = "Closed" /\ pending' = None
      /\ balance' = balance - debit
      /\ UNCHANGED <<contract, signed, pool, wallet, allocated>>
  BY DEF HandleClosed, Handles
<1>2. c \in Channels /\ debit \in Int /\ rows[c] \in Row /\ rows[c].status = "open"
  BY <1>1, Numbers DEF StatusInv
<1>3. rows' = [rows EXCEPT ![c] = row]
  BY <1>2 DEF HandleClosed, IInv, TypeOK
<1>4. row \in Row /\ row.status = "closed"
  BY <1>2, UnitsType DEF Row
<1>5. Quanta("joining")[c] = 0 /\ Quanta("open")[c] = debit
  BY <1>2 DEF Quanta
<1>6. Due = -debit /\ Due' = 0
  BY <1>1 DEF Due
<1> HIDE DEF row, c
<1>7. Total("joining")' = Total("joining")
          + ((IF row.status = "joining" THEN row.amount * Unit[c] ELSE 0) - Quanta("joining")[c])
  BY <1>2, <1>3, <1>4, Numbers, OneRowChanges
<1>8. Total("open")' = Total("open")
          + ((IF row.status = "open" THEN row.amount * Unit[c] ELSE 0) - Quanta("open")[c])
  BY <1>2, <1>3, <1>4, Numbers, OneRowChanges
<1>9. Total("joining")' = Total("joining") + (0 - 0)
  BY <1>4, <1>5, <1>7
<1>10. Total("open")' = Total("open") + (0 - debit)
  BY <1>4, <1>5, <1>8
<1> HIDE DEF debit
<1>11. Total("joining")' = Total("joining") /\ Total("open")' = Total("open") - debit
  BY <1>2, <1>9, <1>10, Numbers
<1>12. balance' = balance - debit /\ UNCHANGED <<pool, wallet, allocated>>
  BY <1>1
<1>13. Even => Even'
  <2>1. balance \in Int /\ pool \in Int /\ allocated \in Int /\ Others \in Int /\ debit \in Int
    BY <1>2, Numbers
  <2>2. Total("open") \in Int
    BY Numbers
  <2> QED
    BY <1>11, <1>12, <2>1, <2>2 DEF Even
<1>14. NothingDue => NothingDue'
  BY <1>2, <1>6, <1>11, <1>12, Numbers DEF NothingDue
<1> QED
  BY <1>13, <1>14

\* A deposit that is dropped was paid all the same; a resize that is dropped
\* leaves the channel behind for ever.
LEMMA DropKeepsSums ==
    ASSUME IInv, StatusInv, DropEvent
    PROVE  (Even => Even') /\ (NothingDue => NothingDue' \/ FellBehind')
<1> DEFINE c == pending.channel
           n == pending.deltas[1]
<1>1. /\ pending # None /\ pending.kind \in {"Created", "Resized"} /\ pending' = None
      /\ UNCHANGED <<contract, rows, signed, balance, pool, wallet, allocated>>
  BY DEF DropEvent, Handles
<1>2. c \in Channels
  BY <1>1, Numbers
<1>3. Even => Even'
  BY <1>1, TotalKept DEF Even
<1>4. CASE pending.kind = "Created"
  <2>1. n \in Nat
    BY <1>1, <1>2, <1>4 DEF IInv, TypeOK, PendingInv
  <2>2. Due = n * Unit[c] /\ Due' = 0
    BY <1>1 DEF Due
  <2>3. n * Unit[c] >= 0
    <3>1. Unit[c] \in Nat
      BY <1>2, UnitsType
    <3> HIDE DEF n
    <3> QED
      BY <2>1, <3>1
  <2>4. Total("joining")' = Total("joining")
    BY <1>1, TotalKept
  <2>5. NothingDue => NothingDue'
    <3> DEFINE lost == n * Unit[c]
    <3>1. Due = lost /\ lost >= 0 /\ Due' = 0
      BY <2>2, <2>3
    <3> HIDE DEF lost, c, n
    <3> QED
      BY <1>1, <2>4, <3>1, Numbers DEF NothingDue
  <2> QED
    BY <1>3, <2>5
<1>5. CASE pending.kind = "Resized"
  <2>1. contract[c].status = "active" /\ rows[c].version + 1 = contract[c].version
    BY <1>1, <1>5 DEF StatusInv, IInv, PendingInv
  <2>2. rows[c].version \in Nat
    BY <1>2, Numbers DEF Row
  <2>3. FellBehind'
    BY <1>1, <1>2, <2>1, <2>2 DEF FellBehind, Settled
  <2> QED
    BY <1>3, <2>3
<1> QED
  BY <1>1, <1>4, <1>5

-------------------------------------------------------------------------------
\* Requests, app sessions, and the theorems.

LEMMA QuantaNext == ASSUME IInv, IInv', StatusInv, QuantaInv, [Next]_vars PROVE QuantaInv'
<1>0. (PartOnly => PartOnly') /\ (FellBehind => FellBehind')
  BY AstrayForever
<1> DEFINE Kept == (Even => Even' \/ PartOnly') /\ (NothingDue => NothingDue' \/ FellBehind')
<1>1. ASSUME NEW c \in Channels, NEW amount \in Deposits, OnCreate(c, amount) PROVE Kept
  BY <1>1, CreateKeepsSums
<1>2. ASSUME NEW c \in Channels, MineJoin(c) PROVE Kept
  BY <1>2, JoinKeepsSums
<1>3. ASSUME NEW s \in signed, SubmitResize(s) PROVE Kept
  BY <1>3, ResizeKeepsSums
<1>4. ASSUME NEW s \in signed, SubmitClose(s) PROVE Kept
  BY <1>4, CloseKeepsSums
<1>5. ASSUME Handle PROVE Kept
  <2>1. CASE HandleCreated
    BY <2>1, HandleCreatedKeepsSums
  <2>2. CASE HandleJoined
    BY <2>2, HandleJoinedKeepsSums
  <2>3. CASE HandleResized
    BY <2>3, HandleResizedKeepsSums
  <2>4. CASE HandleClosed
    BY <2>4, HandleClosedKeepsSums
  <2>5. CASE DropEvent
    BY <2>5, DropKeepsSums
  <2> QED
    BY <1>5, <2>1, <2>2, <2>3, <2>4, <2>5 DEF Handle
<1>6. ASSUME UNCHANGED <<pending, rows, wallet, allocated>>, balance' + pool' = balance + pool
      PROVE  Kept
  <2>1. Due' = Due /\ balance' \in Int /\ pool' \in Int /\ wallet' \in Int
    BY <1>6 DEF Due, IInv, TypeOK
  <2>2. wallet' + Due' <= wallet + Due
    BY <1>6, <2>1, Numbers
  <2> QED
    BY <1>6, <2>1, <2>2, Numbers, SumsKept
<1>7. ASSUME NEW c \in Channels, NEW r \in Resizes, SignResize(c, r) PROVE Kept
  BY <1>6, <1>7 DEF SignResize, Sign
<1>8. ASSUME NEW c \in Channels, SignClose(c) PROVE Kept
  BY <1>6, <1>8 DEF SignClose, Sign
<1>9. ASSUME NEW n \in Bets, LockFunds(n) \/ PayOut(n) PROVE Kept
  <2>1. balance' + pool' = balance + pool
    BY <1>9, BetsType, Numbers DEF LockFunds, PayOut
  <2> QED
    BY <1>6, <1>9, <2>1 DEF LockFunds, PayOut
<1>10. ASSUME UNCHANGED vars PROVE Kept
  BY <1>6, <1>10 DEF vars
<1> HIDE DEF Kept
<1>11. Kept
  BY <1>1, <1>2, <1>3, <1>4, <1>5, <1>7, <1>8, <1>9, <1>10 DEF Next
<1> QED
  BY <1>0, <1>11 DEF QuantaInv, Kept

LEMMA SumsHold == Spec => [](IInv /\ StatusInv /\ QuantaInv)
<1>1. Init => IInv /\ StatusInv /\ QuantaInv
  BY InitKeeps, StatusInit, QuantaInit
<1>2. (IInv /\ StatusInv /\ QuantaInv) /\ [Next]_vars => (IInv /\ StatusInv /\ QuantaInv)'
  BY NextKeeps, StatusNext, QuantaNext
<1> QED
  BY <1>1, <1>2, PTL DEF Spec

\* While every row is what its contract holds, balance and app sessions make up
\* the open rows to the last quantum, for any precisions and word width.
THEOREM BalanceIsBacked == Spec => []Backed
<1>1. IInv /\ StatusInv /\ QuantaInv => Backed
  <2> SUFFICES ASSUME IInv, StatusInv, QuantaInv,
                      \A c \in Channels : Settled(c) /\ rows[c].status # "joining"
                                             /\ rows[c].amount = contract[c].amount
               PROVE  balance + pool + allocated
                        = Others + SumFunctionOnSet([c \in Channels |-> rows[c].amount * Unit[c]], Open)
    BY DEF Backed
  <2> DEFINE f == [c \in Channels |-> rows[c].amount * Unit[c]]
             g == Quanta("open")
  <2>1. Even
    BY DEF QuantaInv, PartOnly
  <2>2. \A c \in Channels : f[c] \in Int
    BY Numbers, RowQuanta
  <2>3. \A c \in Channels : g[c] = IF c \in Open THEN f[c] ELSE 0
    BY DEF Quanta, Open
  <2>4. Open \subseteq Channels
    BY DEF Open
  <2> HIDE DEF f, g
  <2>5. SumFunctionOnSet(f, Open) = SumFunctionOnSet(g, Channels)
    BY <2>2, <2>3, <2>4, FinitelyMany, SumOver
  <2>6. SumFunctionOnSet(g, Channels) = Total("open")
    BY DEF Total, g
  <2> QED
    BY <2>1, <2>5, <2>6 DEF Even, f
<1> QED
  BY <1>1, SumsHold, PTL

\* Whatever wraps and is rounded, and whatever is resized and closed, what the
\* participant has is no more than what it and the others put in, as long as
\* no event was dropped.
THEOREM NothingIsGained == Spec => []GainsOnlyByDrops
<1>1. IInv /\ StatusInv /\ QuantaInv => GainsOnlyByDrops
  <2> SUFFICES ASSUME IInv, StatusInv, QuantaInv, pending = None, \A c \in Channels : ~Missed(c)
               PROVE  wallet + balance + pool <= Others
    BY DEF GainsOnlyByDrops, NothingGained
  <2>1. ~FellBehind
    BY DEF FellBehind, Missed
  <2>2. NothingDue /\ Due = 0
    BY <2>1 DEF QuantaInv, Due
  <2> QED
    BY <2>2, Numbers DEF NothingDue
<1> QED
  BY <1>1, SumsHold, PTL
===============================================================================
