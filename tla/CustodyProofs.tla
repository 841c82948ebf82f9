----------------------------- MODULE CustodyProofs -----------------------------
(***************************************************************************)
(* Proofs about Custody, for any number of channels, owners, chains,       *)
(* workers and failures: its types, that rows never run ahead of their     *)
(* contracts, and that a state the broker signed is about the amount that  *)
(* the contract holds whenever the contract can take it.  Without failures *)
(* rows become what their contracts are, and without allocations balances  *)
(* are backed by channels.                                                 *)
(***************************************************************************)
EXTENDS Custody, Sums, SequenceTheorems, TLAPS

-------------------------------------------------------------------------------
\* The inductive invariant.

OnChain == [status : {"void", "initial", "active", "final"}, amount : Int, version : Nat]

RowType == [status : Statuses, amount : Int, version : Nat]

EventType == [kind : {"Created", "Joined", "Resized", "Closed"}, channel : Channels,
              deltas : Int \X Int, version : Nat, amount : Int]

\* Events that a newer state of the channel causes.
Bumps(e) == e.kind \in {"Resized", "Closed"}

\* A row is no newer than its contract, and has its amount when as new.
RowInv(on, row) ==
    /\ row.version <= on.version
    /\ row.status \in {"open", "closed"} => on.status \in {"active", "final"}
    /\ row.status = "closed" => on.status = "final"
    /\ on.status = "void" => on.version = 0 /\ row.status = "none"
    /\ row.status # "none" /\ row.version = on.version => row.amount = on.amount

RowsInv == \A c \in Channels : RowInv(contract[c], rows[c])

\* An event that waits is no newer than its contract, and newer than its row,
\* whose amount it takes further.
EventInv(e, on, row) ==
    /\ on.status # "void" /\ e.version <= on.version
    /\ e.version = on.version => e.amount = on.amount
    /\ e.kind = "Created" => e.version = 0 /\ e.amount = e.deltas[1]
    /\ e.kind = "Joined" => on.status \in {"active", "final"}
    /\ e.kind = "Closed" => on.status = "final" /\ e.amount = 0
    /\ Bumps(e) => e.version > 0
    /\ Bumps(e) /\ row.status # "none" =>
          /\ row.version < e.version
          /\ e.kind = "Resized" /\ e.version = row.version + 1 =>
                e.amount = row.amount + e.deltas[1] + e.deltas[2]

\* What the events of a channel say of later ones.
Follows(e, f) ==
    e.channel = f.channel /\ Bumps(f) =>
        /\ e.version < f.version
        /\ f.kind = "Resized" /\ f.version = e.version + 1 =>
              f.amount = e.amount + f.deltas[1] + f.deltas[2]

QueueInv ==
    \A n \in Chains :
        /\ \A i \in 1..Len(queue[n]) :
              LET e == queue[n][i]
              IN  Chain[e.channel] = n /\ EventInv(e, contract[e.channel], rows[e.channel])
        /\ \A i, j \in 1..Len(queue[n]) : i < j => Follows(queue[n][i], queue[n][j])

\* What was read of a channel is its contract's amount, or an older one.
ReadFits(on, version, amount) ==
    /\ on.status # "void" /\ version <= on.version
    /\ version = on.version => amount = on.amount

\* The amount that a signed state starts from.
Base(s) == IF s.close THEN s.amount + s.broker ELSE s.amount - Deltas(s)[1] - Deltas(s)[2]

CallsInv ==
    \A w \in Workers :
        calls[w] # NoCall =>
            /\ calls[w].channel \in Channels
            /\ ReadFits(contract[calls[w].channel], calls[w].version, calls[w].amount)

SignedInv == \A s \in signed : ReadFits(contract[s.channel], s.version - 1, Base(s))

ListenerInv == \A n \in Chains : listener[n].pc # "select" => listener[n].channel \in Channels

IInv == TypeOK /\ RowsInv /\ QueueInv /\ CallsInv /\ SignedInv /\ ListenerInv

LEMMA Types ==
    ASSUME TypeOK
    PROVE  /\ contract \in [Channels -> OnChain] /\ rows \in [Channels -> RowType]
           /\ queue \in [Chains -> Seq(EventType)]
           /\ \A c \in Channels : Chain[c] \in Chains /\ Owner[c] \in Owners
BY ChannelsAreOwned DEF TypeOK, OnChain, RowType, EventType

\* A balance that goes up or down.
LEMMA Adjusted ==
    ASSUME NEW S, NEW f \in [S -> Int], NEW x \in S, NEW n \in Int
    PROVE  /\ [f EXCEPT ![x] = @ + n] \in [S -> Int]
           /\ [f EXCEPT ![x] = @ - n] \in [S -> Int]
OBVIOUS

LEMMA AccountTypes ==
    ASSUME TypeOK
    PROVE  /\ wallet \in [Owners -> Int] /\ ledger \in [Owners -> Int]
           /\ \A c \in Channels : Owner[c] \in Owners
BY ChannelsAreOwned DEF TypeOK

\* The events of a queue, one by one.
LEMMA QueueFacts ==
    ASSUME TypeOK, QueueInv, NEW n \in Chains
    PROVE  /\ queue[n] \in Seq(EventType) /\ Len(queue[n]) \in Nat
           /\ \A i \in 1..Len(queue[n]) :
                 LET e == queue[n][i]
                 IN  /\ e \in EventType /\ Chain[e.channel] = n
                     /\ EventInv(e, contract[e.channel], rows[e.channel])
           /\ \A i, j \in 1..Len(queue[n]) : i < j => Follows(queue[n][i], queue[n][j])
<1>1. queue[n] \in Seq(EventType)
  BY Types
<1>2. Len(queue[n]) \in Nat /\ \A i \in 1..Len(queue[n]) : queue[n][i] \in EventType
  BY <1>1, LenProperties, ElementOfSeq
<1> QED
  BY <1>1, <1>2 DEF QueueInv

-------------------------------------------------------------------------------
\* Steps of the contracts.

\* How an event's kind relates a channel on chain before it and after.
Moves(kind, was, on, d) ==
    \/ /\ kind = "Created" /\ was.status = "void"
       /\ on.status = "initial" /\ on.version = 0 /\ on.amount = d[1]
    \/ /\ kind = "Joined" /\ was.status = "initial"
       /\ on.status = "active" /\ on.version = was.version /\ on.amount = was.amount
    \/ /\ kind = "Resized" /\ was.status = "active"
       /\ on.status = "active" /\ on.version > was.version
       /\ on.amount = was.amount + d[1] + d[2]
    \/ /\ kind = "Closed" /\ was.status = "active"
       /\ on.status = "final" /\ on.version > was.version /\ on.amount = 0

\* What a move leaves of the channel, whatever its kind.
LEMMA MoveFacts ==
    ASSUME NEW kind, NEW d, NEW was \in OnChain, NEW on \in OnChain, NEW row \in RowType,
           Moves(kind, was, on, d), RowInv(was, row)
    PROVE  /\ was.version <= on.version /\ on.status # "void" /\ was.status # "final"
           /\ was.status \in {"active", "final"} => on.status \in {"active", "final"}
           /\ was.status # "void" /\ was.version = on.version => was.amount = on.amount
           /\ RowInv(on, row)
<1>1. /\ was.version \in Nat /\ on.version \in Nat /\ row.version \in Nat
      /\ was.version <= on.version /\ on.status # "void" /\ was.status # "final"
      /\ was.status \in {"active", "final"} => on.status \in {"active", "final"}
      /\ was.status # "void" /\ was.version = on.version => was.amount = on.amount
  BY DEF Moves, OnChain, RowType, RowInv
<1>2. row.version <= on.version /\ (row.version = on.version => row.version = was.version /\ was.version = on.version)
  BY <1>1 DEF RowInv
<1> QED
  BY <1>1, <1>2 DEF RowInv

LEMMA EventKept ==
    ASSUME NEW kind, NEW d, NEW was \in OnChain, NEW on \in OnChain, NEW row,
           Moves(kind, was, on, d), NEW e \in EventType, EventInv(e, was, row)
    PROVE  EventInv(e, on, row)
<1>1. e.version \in Nat /\ was.version \in Nat /\ on.version \in Nat
  BY DEF EventType, OnChain
<1>2. CASE kind = "Joined"
  BY <1>2 DEF EventInv, Moves
<1>3. CASE kind # "Joined"
  <2>1. was.status = "active" /\ on.status \in {"active", "final"} /\ on.version > was.version
    BY <1>3 DEF Moves, EventInv
  <2>2. e.version <= on.version /\ e.version # on.version
    BY <1>1, <2>1 DEF EventInv
  <2> QED
    BY <2>1, <2>2 DEF EventInv
<1> QED
  BY <1>2, <1>3

LEMMA ReadKept ==
    ASSUME NEW kind, NEW d, NEW was \in OnChain, NEW on \in OnChain,
           Moves(kind, was, on, d), NEW version \in Int, NEW amount, ReadFits(was, version, amount)
    PROVE  ReadFits(on, version, amount)
<1>1. was.version \in Nat /\ on.version \in Nat
  BY DEF OnChain
<1> QED
  BY <1>1 DEF Moves, ReadFits

\* The new event says what is so, and follows the earlier ones.
LEMMA EventAdded ==
    ASSUME NEW kind \in {"Created", "Joined", "Resized", "Closed"},
           NEW d \in Int \X Int, NEW was \in OnChain, NEW on \in OnChain, NEW row \in RowType,
           Moves(kind, was, on, d), RowInv(was, row), NEW e \in EventType,
           e.kind = kind, e.deltas = d, e.version = on.version, e.amount = on.amount
    PROVE  /\ EventInv(e, on, row)
           /\ \A f \in EventType : EventInv(f, was, row) => Follows(f, e)
<1>1. /\ row.version \in Nat /\ row.amount \in Int /\ on.version \in Nat /\ on.amount \in Int
      /\ d[1] \in Int /\ d[2] \in Int /\ was.version \in Nat /\ was.amount \in Int
  BY DEF OnChain, RowType
<1>2. EventInv(e, on, row)
  <2>1. CASE kind \in {"Created", "Joined"}
    <3>1. ~Bumps(e) /\ on.status # "void"
      BY <2>1 DEF Moves, Bumps
    <3>2. /\ e.version <= on.version /\ e.amount = on.amount
          /\ e.kind = "Created" => e.version = 0 /\ e.amount = e.deltas[1]
          /\ e.kind = "Joined" => on.status = "active"
      BY <1>1, <2>1 DEF Moves
    <3> QED
      BY <2>1, <3>1, <3>2 DEF EventInv
  <2>2. CASE kind \in {"Resized", "Closed"}
    <3>1. /\ was.status = "active" /\ on.version > was.version
          /\ kind = "Resized" => on.status = "active" /\ on.amount = was.amount + d[1] + d[2]
          /\ kind = "Closed" => on.status = "final" /\ on.amount = 0
      BY <2>2 DEF Moves
    <3>2. on.version > 0 /\ row.version < on.version
      BY <1>1, <3>1 DEF RowInv
    <3>3. kind = "Resized" /\ row.status # "none" /\ on.version = row.version + 1 =>
             on.amount = row.amount + d[1] + d[2]
      <4> SUFFICES ASSUME kind = "Resized", row.status # "none", on.version = row.version + 1
                   PROVE  row.amount = was.amount
        BY <1>1, <3>1
      <4>1. row.version = was.version
        BY <1>1, <3>1 DEF RowInv
      <4> QED
        BY <4>1 DEF RowInv
    <3> QED
      BY <1>1, <2>2, <3>1, <3>2, <3>3 DEF EventInv, Bumps
  <2> QED
    BY <2>1, <2>2
<1>3. ASSUME NEW f \in EventType, EventInv(f, was, row) PROVE Follows(f, e)
  <2> SUFFICES ASSUME Bumps(e)
               PROVE  /\ f.version < e.version
                      /\ e.kind = "Resized" /\ e.version = f.version + 1 =>
                             e.amount = f.amount + e.deltas[1] + e.deltas[2]
    BY DEF Follows
  <2>1. f.version \in Nat /\ f.amount \in Int
    BY DEF EventType
  <2>2. f.version <= was.version /\ (f.version = was.version => f.amount = was.amount)
    BY <1>3 DEF EventInv
  <2>3. on.version > was.version /\ (kind = "Resized" => on.amount = was.amount + d[1] + d[2])
    BY DEF Moves, Bumps
  <2> QED
    BY <1>1, <2>1, <2>2, <2>3
<1> QED
  BY <1>2, <1>3

LEMMA Emitted ==
    ASSUME TypeOK, NEW kind \in {"Created", "Joined", "Resized", "Closed"},
           NEW c \in Channels, NEW d \in Int \X Int, NEW on \in OnChain,
           Emit(kind, c, d, on)
    PROVE  LET e == [kind |-> kind, channel |-> c, deltas |-> d,
                     version |-> on.version, amount |-> on.amount]
           IN  /\ e \in EventType
               /\ queue' \in [Chains -> Seq(EventType)]
               /\ \A n \in Chains : n # Chain[c] => queue'[n] = queue[n]
               /\ queue'[Chain[c]] \in {queue[Chain[c]], Append(queue[Chain[c]], e)}
<1> DEFINE e == [kind |-> kind, channel |-> c, deltas |-> d,
                 version |-> on.version, amount |-> on.amount]
           n == Chain[c]
<1>1. e \in EventType
  BY DEF EventType, OnChain
<1>2. queue \in [Chains -> Seq(EventType)] /\ n \in Chains
  BY Types
<1>3. queue' = queue \/ queue' = [queue EXCEPT ![n] = Append(queue[n], e)]
  BY <1>2 DEF Emit
<1> HIDE DEF e, n
<1>4. Append(queue[n], e) \in Seq(EventType)
  BY <1>1, <1>2, AppendProperties
<1>5. /\ queue' \in [Chains -> Seq(EventType)]
      /\ \A m \in Chains : m # n => queue'[m] = queue[m]
      /\ queue'[n] \in {queue[n], Append(queue[n], e)}
  BY <1>2, <1>3, <1>4
<1> QED
  BY <1>1, <1>5 DEF e, n

LEMMA ContractStep ==
    ASSUME IInv,
           NEW c \in Channels, NEW on \in OnChain,
           NEW kind \in {"Created", "Joined", "Resized", "Closed"}, NEW d \in Int \X Int,
           Moves(kind, contract[c], on, d),
           contract' = [contract EXCEPT ![c] = on],
           Emit(kind, c, d, on),
           signed' \subseteq signed,
           UNCHANGED <<subscribed, listener, rows, ledger, pool, calls, faults>>,
           wallet' \in [Owners -> Int], joins' \subseteq joins
    PROVE  IInv'
<1> DEFINE e == [kind |-> kind, channel |-> c, deltas |-> d,
                 version |-> on.version, amount |-> on.amount]
           was == contract[c]
           row == rows[c]
<1>1. /\ contract' \in [Channels -> OnChain] /\ was \in OnChain /\ row \in RowType
      /\ \A k \in Channels : contract'[k] = IF k = c THEN on ELSE contract[k]
  BY Types DEF IInv
<1>2. /\ e \in EventType
      /\ queue' \in [Chains -> Seq(EventType)]
      /\ \A n \in Chains : n # Chain[c] => queue'[n] = queue[n]
      /\ queue'[Chain[c]] \in {queue[Chain[c]], Append(queue[Chain[c]], e)}
  BY Emitted DEF IInv
<1>3. e.channel = c /\ e.kind = kind /\ e.deltas = d /\ e.version = on.version /\ e.amount = on.amount
  OBVIOUS
<1>4. RowInv(was, row)
  BY DEF IInv, RowsInv
<1>5. Moves(kind, was, on, d)
  OBVIOUS
<1> HIDE DEF e
<1>6. EventInv(e, on, row) /\ \A f \in EventType : EventInv(f, was, row) => Follows(f, e)
  BY <1>1, <1>2, <1>3, <1>4, <1>5, EventAdded
<1>7. RowInv(on, row)
  BY <1>1, <1>4, <1>5, MoveFacts
<1>8. \A f \in EventType : EventInv(f, was, row) => EventInv(f, on, row)
  BY <1>1, <1>5, EventKept
<1>9. \A v \in Int : \A a : ReadFits(was, v, a) => ReadFits(on, v, a)
  BY <1>1, <1>5, ReadKept
<1> HIDE DEF was, row
<1>10. TypeOK'
  BY <1>1, <1>2 DEF IInv, TypeOK, OnChain, EventType
<1>11. RowsInv'
  BY <1>1, <1>7 DEF IInv, RowsInv, row
<1>12. QueueInv'
  <2> SUFFICES ASSUME NEW n \in Chains
               PROVE  /\ \A i \in 1..Len(queue'[n]) :
                             LET f == queue'[n][i]
                             IN  /\ Chain[f.channel] = n
                                 /\ EventInv(f, contract'[f.channel], rows[f.channel])
                      /\ \A i, j \in 1..Len(queue'[n]) : i < j => Follows(queue'[n][i], queue'[n][j])
    BY DEF QueueInv
  <2> DEFINE q == queue[n]
  <2>1. /\ q \in Seq(EventType) /\ Len(q) \in Nat
        /\ \A i \in 1..Len(q) :
              /\ q[i] \in EventType /\ Chain[q[i].channel] = n
              /\ EventInv(q[i], contract[q[i].channel], rows[q[i].channel])
        /\ \A i, j \in 1..Len(q) : i < j => Follows(q[i], q[j])
    BY QueueFacts DEF IInv
  <2> HIDE DEF q
  <2>2. \A i \in 1..Len(q) : EventInv(q[i], contract'[q[i].channel], rows[q[i].channel])
    <3> TAKE i \in 1..Len(q)
    <3>1. q[i].channel \in Channels
      BY <2>1 DEF EventType
    <3>2. CASE q[i].channel = c
      BY <1>1, <1>8, <2>1, <3>2 DEF was, row
    <3>3. CASE q[i].channel # c
      BY <1>1, <2>1, <3>1, <3>3
    <3> QED
      BY <3>2, <3>3
  <2>3. CASE queue'[n] = q
    BY <2>1, <2>2, <2>3
  <2>4. CASE n = Chain[c] /\ queue'[n] = Append(q, e)
    <3> DEFINE t == Append(q, e)
    <3>1. /\ Len(t) = Len(q) + 1 /\ t[Len(q) + 1] = e
          /\ \A i \in 1..Len(q) : t[i] = q[i]
      BY <1>2, <2>1, AppendProperties
    <3> HIDE DEF t
    <3>2. \A i \in 1..Len(q) : Follows(q[i], e)
      <4> TAKE i \in 1..Len(q)
      <4>1. CASE q[i].channel = c
        BY <1>6, <2>1, <4>1 DEF was, row
      <4>2. CASE q[i].channel # c
        BY <1>3, <4>2 DEF Follows
      <4> QED
        BY <4>1, <4>2
    <3>3. EventInv(e, contract'[e.channel], rows[e.channel]) /\ Chain[e.channel] = n
      BY <1>1, <1>3, <1>6, <2>4 DEF row
    <3>4. \A i \in 1..Len(t) :
             /\ Chain[t[i].channel] = n
             /\ EventInv(t[i], contract'[t[i].channel], rows[t[i].channel])
      <4> TAKE i \in 1..Len(t)
      <4>1. i \in 1..Len(q) \/ i = Len(q) + 1
        BY <2>1, <3>1
      <4> QED
        BY <2>1, <2>2, <3>1, <3>3, <4>1
    <3>5. \A i, j \in 1..Len(t) : i < j => Follows(t[i], t[j])
      <4> TAKE i, j \in 1..Len(t)
      <4> SUFFICES ASSUME i < j PROVE Follows(t[i], t[j])
        OBVIOUS
      <4>1. i \in 1..(Len(q) + 1) /\ j \in 1..(Len(q) + 1)
        BY <3>1
      <4>2. i \in 1..Len(q) /\ (j \in 1..Len(q) \/ j = Len(q) + 1)
        BY <2>1, <4>1
      <4> QED
        BY <2>1, <3>1, <3>2, <4>2
    <3> QED
      BY <2>4, <3>4, <3>5 DEF t
  <2> QED
    BY <1>2, <2>3, <2>4 DEF q
<1>13. CallsInv'
  <2> SUFFICES ASSUME NEW w \in Workers, calls[w] # NoCall
               PROVE  /\ calls[w].channel \in Channels
                      /\ ReadFits(contract'[calls[w].channel], calls[w].version, calls[w].amount)
    BY DEF CallsInv
  <2>1. /\ calls[w].channel \in Channels /\ calls[w].version \in Int
        /\ ReadFits(contract[calls[w].channel], calls[w].version, calls[w].amount)
    BY DEF IInv, TypeOK, CallsInv
  <2> QED
    BY <1>1, <1>9, <2>1 DEF was
<1>14. SignedInv'
  <2> SUFFICES ASSUME NEW s \in signed
               PROVE  ReadFits(contract'[s.channel], s.version - 1, Base(s))
    BY DEF SignedInv
  <2>1. /\ s.channel \in Channels /\ s.version - 1 \in Int
        /\ ReadFits(contract[s.channel], s.version - 1, Base(s))
    BY DEF IInv, TypeOK, SignedInv
  <2> QED
    BY <1>1, <1>9, <2>1 DEF was
<1>15. ListenerInv'
  BY DEF IInv, ListenerInv
<1> QED
  BY <1>10, <1>11, <1>12, <1>13, <1>14, <1>15 DEF IInv

LEMMA OnCreateKeeps ==
    ASSUME IInv, NEW c \in Channels, NEW amount \in Deposits, OnCreate(c, amount)
    PROVE  IInv'
<1> DEFINE on == [status |-> "initial", amount |-> amount, version |-> 0]
           d == <<amount, 0>>
<1>1. /\ contract[c].status = "void" /\ contract' = [contract EXCEPT ![c] = on]
      /\ wallet' = [wallet EXCEPT ![Owner[c]] = @ - amount]
      /\ Emit("Created", c, d, contract'[c])
      /\ UNCHANGED <<joins, subscribed, listener, rows, ledger, pool, calls, signed, faults>>
  BY DEF OnCreate
<1>2. amount \in Int /\ d \in Int \X Int /\ d[1] = amount
  BY AmountsAreNatural
<1>3. on \in OnChain /\ on.status = "initial" /\ on.version = 0 /\ on.amount = amount
  BY <1>2 DEF OnChain
<1> HIDE DEF on, d
<1>4. contract'[c] = on
  BY <1>1, Types DEF IInv
<1>5. Moves("Created", contract[c], on, d)
  BY <1>1, <1>2, <1>3 DEF Moves
<1>6. wallet' \in [Owners -> Int]
  BY <1>1, <1>2, AccountTypes, Adjusted DEF IInv
<1> QED
  BY <1>1, <1>2, <1>3, <1>4, <1>5, <1>6, ContractStep

LEMMA JoinsKeep ==
    ASSUME IInv, NEW c \in Channels, MineJoin(c) \/ OtherJoins(c)
    PROVE  IInv'
<1> DEFINE was == contract[c]
           on == [was EXCEPT !.status = "active"]
           d == <<0, 0>>
<1>1. /\ was.status = "initial" /\ joins' \subseteq joins
      /\ contract' = [contract EXCEPT ![c] = on]
      /\ Emit("Joined", c, d, contract'[c])
      /\ UNCHANGED <<wallet, subscribed, listener, rows, ledger, pool, calls, signed, faults>>
  <2>1. CASE MineJoin(c)
    BY <2>1 DEF MineJoin
  <2>2. CASE OtherJoins(c)
    BY <2>2 DEF OtherJoins
  <2> QED
    BY <2>1, <2>2
<1>2. d \in Int \X Int
  OBVIOUS
<1>3. was \in OnChain
  BY Types DEF IInv
<1> HIDE DEF was, d
<1>4. on \in OnChain /\ on.status = "active" /\ on.version = was.version /\ on.amount = was.amount
  BY <1>3 DEF OnChain
<1> HIDE DEF on
<1>5. contract'[c] = on
  BY <1>1, Types DEF IInv
<1>6. Moves("Joined", contract[c], on, d)
  BY <1>1, <1>4 DEF Moves, was
<1>7. wallet' \in [Owners -> Int]
  BY <1>1 DEF IInv, TypeOK
<1> QED
  BY <1>1, <1>2, <1>4, <1>5, <1>6, <1>7, ContractStep

LEMMA SignedType ==
    ASSUME TypeOK, NEW s \in signed
    PROVE  /\ s.channel \in Channels /\ s.version \in Nat /\ s.amount \in Int /\ s.broker \in Int
           /\ s.close \in BOOLEAN
           /\ Deltas(s) \in Int \X Int /\ Deltas(s)[1] \in Int /\ Deltas(s)[2] \in Int
           /\ StillAcceptable(s.channel, contract'[s.channel]) \subseteq signed
<1>1. s.intentions \in Int \X Int
  BY DEF TypeOK
<1>2. -s.intentions[1] \in Int /\ s.intentions[2] \in Int
  BY <1>1
<1> QED
  BY <1>2 DEF TypeOK, Deltas, StillAcceptable

LEMMA SubmitResizeKeeps == ASSUME IInv, NEW s \in signed, SubmitResize(s) PROVE IInv'
<1> DEFINE c == s.channel
           d == Deltas(s)
           was == contract[c]
           on == [was EXCEPT !.amount = s.amount, !.version = s.version]
<1>1. /\ was.status = "active" /\ s.version > was.version
      /\ s.amount = was.amount + d[1] + d[2]
      /\ contract' = [contract EXCEPT ![c] = on]
      /\ wallet' = [wallet EXCEPT ![Owner[c]] = @ - d[1]]
      /\ signed' \subseteq signed
      /\ Emit("Resized", c, d, on)
      /\ UNCHANGED <<joins, subscribed, listener, rows, ledger, pool, calls, faults>>
  <2>1. StillAcceptable(c, on) \subseteq signed
    BY DEF StillAcceptable
  <2> QED
    BY <2>1 DEF SubmitResize, Acceptable
<1>2. c \in Channels /\ s.version \in Nat /\ s.amount \in Int /\ d \in Int \X Int /\ d[1] \in Int
  BY SignedType DEF IInv
<1>3. was \in OnChain
  BY <1>2, Types DEF IInv
<1> HIDE DEF c, d, was
<1>4. on \in OnChain /\ on.status = was.status /\ on.version = s.version /\ on.amount = s.amount
  BY <1>2, <1>3 DEF OnChain
<1> HIDE DEF on
<1>5. Moves("Resized", contract[c], on, d)
  BY <1>1, <1>4 DEF Moves, was
<1>6. wallet' \in [Owners -> Int]
  BY <1>1, <1>2, AccountTypes, Adjusted DEF IInv
<1> QED
  BY <1>1, <1>2, <1>4, <1>5, <1>6, ContractStep

LEMMA SubmitCloseKeeps == ASSUME IInv, NEW s \in signed, SubmitClose(s) PROVE IInv'
<1> DEFINE c == s.channel
           d == <<0, 0>>
           was == contract[c]
           on == [status |-> "final", amount |-> 0, version |-> s.version]
<1>1. /\ was.status = "active" /\ s.version > was.version
      /\ contract' = [contract EXCEPT ![c] = on]
      /\ wallet' = [wallet EXCEPT ![Owner[c]] = @ + s.amount]
      /\ signed' \subseteq signed
      /\ Emit("Closed", c, d, on)
      /\ UNCHANGED <<joins, subscribed, listener, rows, ledger, pool, calls, faults>>
  <2>1. StillAcceptable(c, on) \subseteq signed
    BY DEF StillAcceptable
  <2> QED
    BY <2>1 DEF SubmitClose, Acceptable
<1>2. c \in Channels /\ s.version \in Nat /\ s.amount \in Int /\ d \in Int \X Int
  BY SignedType DEF IInv
<1>3. on \in OnChain /\ on.status = "final" /\ on.version = s.version /\ on.amount = 0
  BY <1>2 DEF OnChain
<1> HIDE DEF c, d, was, on
<1>4. Moves("Closed", contract[c], on, d)
  BY <1>1, <1>3 DEF Moves, was
<1>5. wallet' \in [Owners -> Int]
  BY <1>1, <1>2, AccountTypes, Adjusted DEF IInv
<1> QED
  BY <1>1, <1>2, <1>3, <1>4, <1>5, ContractStep

-------------------------------------------------------------------------------
\* Steps of the listeners.

\* Taking the next event, with what the handler makes of the channel's row.
LEMMA TakeKeeps ==
    ASSUME TypeOK, RowsInv, QueueInv, NEW n \in Chains, queue[n] # <<>>, Take(n),
           NEW e, e = Head(queue[n]), NEW c, c = e.channel,
           NEW row \in RowType, rows' = [rows EXCEPT ![c] = row],
           UNCHANGED contract,
           RowInv(contract[c], row),
           \A f \in EventType :
              f.channel = c /\ Follows(e, f) /\ EventInv(f, contract[c], rows[c]) =>
                  EventInv(f, contract[c], row)
    PROVE  /\ queue' \in [Chains -> Seq(EventType)] /\ rows' \in [Channels -> RowType]
           /\ RowsInv' /\ QueueInv'
<1> DEFINE q == queue[n]
           t == Tail(q)
<1>1. /\ q \in Seq(EventType) /\ Len(q) \in Nat
      /\ \A i \in 1..Len(q) :
            /\ q[i] \in EventType /\ Chain[q[i].channel] = n
            /\ EventInv(q[i], contract[q[i].channel], rows[q[i].channel])
      /\ \A i, j \in 1..Len(q) : i < j => Follows(q[i], q[j])
  BY QueueFacts
<1>2. /\ t \in Seq(EventType) /\ Len(t) = Len(q) - 1
      /\ \A i \in 1..Len(t) : t[i] = q[i + 1]
      /\ e = q[1] /\ 1 \in 1..Len(q)
  BY <1>1, HeadTailProperties
<1>3. c \in Channels /\ Chain[c] = n
  BY <1>1, <1>2 DEF EventType
<1>4. /\ rows' \in [Channels -> RowType]
      /\ \A k \in Channels : rows'[k] = IF k = c THEN row ELSE rows[k]
  BY <1>3, Types
<1>5. /\ queue' \in [Chains -> Seq(EventType)]
      /\ \A m \in Chains : queue'[m] = IF m = n THEN t ELSE queue[m]
  BY <1>2, Types DEF Take
<1>6. RowsInv'
  BY <1>4 DEF RowsInv
<1> HIDE DEF q, t
<1>7. QueueInv'
  <2> SUFFICES ASSUME NEW m \in Chains
               PROVE  /\ \A i \in 1..Len(queue'[m]) :
                             LET f == queue'[m][i]
                             IN  /\ Chain[f.channel] = m
                                 /\ EventInv(f, contract[f.channel], rows'[f.channel])
                      /\ \A i, j \in 1..Len(queue'[m]) : i < j => Follows(queue'[m][i], queue'[m][j])
    BY DEF QueueInv
  <2>1. CASE m # n
    <3>1. queue'[m] = queue[m]
      BY <1>5, <2>1
    <3>2. \A i \in 1..Len(queue[m]) :
             /\ queue[m][i].channel \in Channels /\ Chain[queue[m][i].channel] = m
             /\ EventInv(queue[m][i], contract[queue[m][i].channel], rows[queue[m][i].channel])
      BY QueueFacts DEF EventType
    <3>3. \A i \in 1..Len(queue[m]) : queue[m][i].channel # c
      BY <1>3, <2>1, <3>2
    <3> QED
      BY <1>4, <3>1, <3>2, <3>3, QueueFacts
  <2>2. CASE m = n
    <3>1. \A i \in 1..Len(t) : i + 1 \in 1..Len(q) /\ 1 < i + 1
      BY <1>1, <1>2
    <3>2. \A i \in 1..Len(t) : EventInv(t[i], contract[t[i].channel], rows'[t[i].channel])
      <4> TAKE i \in 1..Len(t)
      <4>1. /\ t[i] \in EventType /\ Follows(e, t[i])
            /\ EventInv(t[i], contract[t[i].channel], rows[t[i].channel])
        BY <1>1, <1>2, <3>1
      <4>2. CASE t[i].channel = c
        BY <1>3, <1>4, <4>1, <4>2
      <4>3. CASE t[i].channel # c
        BY <1>4, <4>1, <4>3 DEF EventType
      <4> QED
        BY <4>2, <4>3
    <3>3. \A i \in 1..Len(t) : Chain[t[i].channel] = n
      BY <1>1, <1>2, <3>1
    <3>4. \A i, j \in 1..Len(t) : i < j => Follows(t[i], t[j])
      <4> TAKE i, j \in 1..Len(t)
      <4> SUFFICES ASSUME i < j PROVE Follows(t[i], t[j])
        OBVIOUS
      <4>1. i + 1 < j + 1
        OBVIOUS
      <4> QED
        BY <1>1, <1>2, <3>1, <4>1
    <3>5. queue'[m] = t
      BY <1>5, <2>2
    <3> QED
      BY <2>2, <3>2, <3>3, <3>4, <3>5
  <2> QED
    BY <2>1, <2>2
<1> QED
  BY <1>4, <1>5, <1>6, <1>7

\* What the taken event says.
LEMMA HeadFacts ==
    ASSUME TypeOK, RowsInv, QueueInv, NEW n \in Chains, queue[n] # <<>>
    PROVE  LET e == Head(queue[n])
               c == e.channel
           IN  /\ e \in EventType /\ c \in Channels
               /\ contract[c] \in OnChain /\ rows[c] \in RowType
               /\ e.deltas[1] \in Int /\ e.deltas[2] \in Int
               /\ RowInv(contract[c], rows[c]) /\ EventInv(e, contract[c], rows[c])
<1>1. Head(queue[n]) = queue[n][1] /\ 1 \in 1..Len(queue[n])
  <2>1. queue[n] \in Seq(EventType)
    BY QueueFacts
  <2> QED
    BY <2>1
<1>2. LET e == Head(queue[n])
      IN  e \in EventType /\ EventInv(e, contract[e.channel], rows[e.channel])
  BY <1>1, QueueFacts
<1> QED
  BY <1>2, Types DEF EventType, RowsInv

\* Each handler takes the row to where later events start from.
LEMMA CreatedFits ==
    ASSUME NEW e \in EventType, NEW on \in OnChain, NEW old, NEW row \in RowType,
           EventInv(e, on, old), e.kind = "Created",
           row.status = "joining", row.amount = e.deltas[1], row.version = 0
    PROVE  /\ RowInv(on, row)
           /\ \A f \in EventType :
                 f.channel = e.channel /\ Follows(e, f) /\ EventInv(f, on, old) => EventInv(f, on, row)
<1>1. e.version = 0 /\ e.amount = row.amount /\ on.status # "void" /\ on.version \in Nat
  BY DEF EventInv, OnChain
<1>2. RowInv(on, row)
  BY <1>1 DEF RowInv, EventInv
<1>3. ASSUME NEW f \in EventType, f.channel = e.channel, Follows(e, f), EventInv(f, on, old)
      PROVE  EventInv(f, on, row)
  <2>1. Bumps(f) => /\ f.version > 0
                    /\ f.kind = "Resized" /\ f.version = 1 =>
                           f.amount = row.amount + f.deltas[1] + f.deltas[2]
    BY <1>1, <1>3 DEF Follows, EventInv
  <2> QED
    BY <1>3, <2>1 DEF EventInv
<1> QED
  BY <1>2, <1>3

LEMMA JoinedFits ==
    ASSUME NEW e, NEW on \in OnChain, NEW old \in RowType, NEW row \in RowType,
           EventInv(e, on, old), RowInv(on, old), e.kind = "Joined", old.status # "none",
           row.status = "open", row.amount = old.amount, row.version = old.version
    PROVE  /\ RowInv(on, row)
           /\ \A f \in EventType :
                 f.channel = e.channel /\ Follows(e, f) /\ EventInv(f, on, old) => EventInv(f, on, row)
<1>1. RowInv(on, row)
  BY DEF RowInv, EventInv
<1>2. ASSUME NEW f \in EventType, EventInv(f, on, old) PROVE EventInv(f, on, row)
  BY <1>2 DEF EventInv
<1> QED
  BY <1>1, <1>2

LEMMA BumpFits ==
    ASSUME NEW e \in EventType, NEW on \in OnChain, NEW old \in RowType, NEW row \in RowType,
           EventInv(e, on, old), RowInv(on, old), Bumps(e), old.status # "none",
           row.version = old.version + 1, row.status # "none",
           e.kind = "Resized" => row.status = old.status
                                 /\ row.amount = old.amount + e.deltas[1] + e.deltas[2],
           e.kind = "Closed" => row.status = "closed" /\ row.amount = 0
    PROVE  /\ RowInv(on, row)
           /\ \A f \in EventType :
                 f.channel = e.channel /\ Follows(e, f) /\ EventInv(f, on, old) => EventInv(f, on, row)
<1>1. /\ e.version \in Nat /\ on.version \in Nat /\ old.version \in Nat
      /\ e.kind = "Resized" \/ e.kind = "Closed"
  BY DEF EventType, OnChain, RowType, Bumps
<1>2. /\ old.version < e.version /\ e.version <= on.version /\ on.status # "void"
      /\ e.version = on.version => e.amount = on.amount
      /\ e.kind = "Closed" => on.status = "final"
  BY DEF EventInv
<1>3. e.version = row.version => e.amount = row.amount
  BY <1>1, <1>2 DEF EventInv
<1>4. row.version <= e.version /\ row.version <= on.version
  BY <1>1, <1>2
<1>5. row.version = on.version => row.amount = on.amount
  BY <1>1, <1>2, <1>3, <1>4
<1>6. RowInv(on, row)
  BY <1>1, <1>2, <1>4, <1>5 DEF RowInv
<1>7. ASSUME NEW f \in EventType, f.channel = e.channel, Follows(e, f), EventInv(f, on, old)
      PROVE  EventInv(f, on, row)
  <2>1. f.version \in Nat
    BY DEF EventType
  <2>2. CASE ~Bumps(f)
    BY <1>7, <2>2 DEF EventInv
  <2>3. CASE Bumps(f)
    <3>1. /\ e.version < f.version
          /\ f.kind = "Resized" /\ f.version = e.version + 1 =>
                f.amount = e.amount + f.deltas[1] + f.deltas[2]
      BY <1>7, <2>3 DEF Follows
    <3>2. row.version < f.version /\ f.version > 0
      BY <1>1, <1>4, <2>1, <3>1
    <3>3. f.kind = "Resized" /\ f.version = row.version + 1 =>
             f.amount = row.amount + f.deltas[1] + f.deltas[2]
      BY <1>1, <1>3, <1>4, <2>1, <3>1
    <3> QED
      BY <1>7, <2>3, <3>2, <3>3 DEF EventInv
  <2> QED
    BY <2>2, <2>3
<1> QED
  BY <1>6, <1>7

ListenerType == [pc : {"select", "join", "record"}, channel : Channels \cup {None}, credit : Int]

LEMMA BusyKeeps ==
    ASSUME TypeOK, ListenerInv, NEW n \in Chains, NEW pc \in {"join", "record"},
           NEW c \in Channels, NEW credit \in Int, Busy(n, pc, c, credit)
    PROVE  listener' \in [Chains -> ListenerType] /\ ListenerInv'
<1> DEFINE l == [pc |-> pc, channel |-> c, credit |-> credit]
<1>1. l \in ListenerType /\ l.channel \in Channels
  BY DEF ListenerType
<1>2. listener \in [Chains -> ListenerType] /\ listener' = [listener EXCEPT ![n] = l]
  BY DEF TypeOK, ListenerType, Busy
<1> HIDE DEF l
<1>3. listener' \in [Chains -> ListenerType]
      /\ \A m \in Chains : listener'[m] = IF m = n THEN l ELSE listener[m]
  BY <1>1, <1>2
<1> QED
  BY <1>1, <1>3 DEF ListenerInv

LEMMA IdleKeeps ==
    ASSUME TypeOK, ListenerInv, NEW n \in Chains, Idle(n)
    PROVE  listener' \in [Chains -> ListenerType] /\ ListenerInv'
<1>1. Selecting \in ListenerType /\ Selecting.pc = "select"
  BY DEF ListenerType, Selecting
<1>2. listener \in [Chains -> ListenerType] /\ listener' = [listener EXCEPT ![n] = Selecting]
  BY DEF TypeOK, ListenerType, Idle
<1>3. listener' \in [Chains -> ListenerType]
      /\ \A m \in Chains : listener'[m] = IF m = n THEN Selecting ELSE listener[m]
  BY <1>1, <1>2
<1> QED
  BY <1>1, <1>3 DEF ListenerInv

\* What the database and the listeners do does not touch what requests read.
LEMMA OffChainStep ==
    ASSUME IInv, UNCHANGED <<contract, wallet, signed>>,
           joins' \subseteq Channels, subscribed' \in [Chains -> BOOLEAN],
           queue' \in [Chains -> Seq(EventType)], listener' \in [Chains -> ListenerType],
           rows' \in [Channels -> RowType], ledger' \in [Owners -> Int],
           pool' \in Nat, faults' \in Nat,
           UNCHANGED calls \/ calls' = [w \in Workers |-> NoCall],
           RowsInv', QueueInv', ListenerInv'
    PROVE  IInv'
<1>1. calls' \in [Workers -> [channel : Channels \cup {None}, amount : Int, version : Nat,
                             resize : Int \X Int, close : BOOLEAN]]
      /\ CallsInv'
  <2>1. CASE UNCHANGED calls
    BY <2>1 DEF IInv, TypeOK, CallsInv
  <2>2. CASE calls' = [w \in Workers |-> NoCall]
    <3>1. NoCall \in [channel : Channels \cup {None}, amount : Int, version : Nat,
                      resize : Int \X Int, close : BOOLEAN]
      BY DEF NoCall
    <3>2. \A w \in Workers : calls'[w] = NoCall
      BY <2>2
    <3>3. CallsInv'
      BY <3>2 DEF CallsInv
    <3> QED
      BY <2>2, <3>1, <3>3
  <2> QED
    BY <2>1, <2>2
<1>2. TypeOK'
  BY <1>1 DEF IInv, TypeOK, EventType, ListenerType, RowType
<1>3. SignedInv'
  BY DEF IInv, SignedInv
<1> QED
  BY <1>1, <1>2, <1>3 DEF IInv

LEMMA RestTypes ==
    ASSUME TypeOK
    PROVE  /\ joins \subseteq Channels /\ subscribed \in [Chains -> BOOLEAN]
           /\ listener \in [Chains -> ListenerType] /\ pool \in Nat /\ faults \in Nat
           /\ ledger \in [Owners -> Int]
BY DEF TypeOK, ListenerType

LEMMA HandleCreatedKeeps == ASSUME IInv, NEW n \in Chains, HandleCreated(n) PROVE IInv'
<1> DEFINE e == Head(queue[n])
           c == e.channel
           row == [status |-> "joining", amount |-> e.deltas[1], version |-> 0]
<1>1. /\ queue[n] # <<>> /\ e.kind = "Created" /\ Take(n)
      /\ rows' = [rows EXCEPT ![c] = row]
      /\ Busy(n, "join", c, 0)
      /\ UNCHANGED <<contract, wallet, joins, subscribed, ledger, pool, calls, signed, faults>>
  BY DEF HandleCreated, HeadIs, chainVars
<1>2. /\ e \in EventType /\ c \in Channels /\ contract[c] \in OnChain /\ e.deltas[1] \in Int
      /\ EventInv(e, contract[c], rows[c])
  BY <1>1, HeadFacts DEF IInv
<1>3. row \in RowType /\ row.status = "joining" /\ row.amount = e.deltas[1] /\ row.version = 0
  BY <1>2 DEF RowType, Statuses
<1> HIDE DEF row, e
<1>4. /\ RowInv(contract[c], row)
      /\ \A f \in EventType :
            f.channel = c /\ Follows(e, f) /\ EventInv(f, contract[c], rows[c]) =>
                EventInv(f, contract[c], row)
  BY <1>1, <1>2, <1>3, CreatedFits
<1>5. /\ queue' \in [Chains -> Seq(EventType)] /\ rows' \in [Channels -> RowType]
      /\ RowsInv' /\ QueueInv'
  BY <1>1, <1>3, <1>4, TakeKeeps DEF IInv, e
<1>6. listener' \in [Chains -> ListenerType] /\ ListenerInv'
  BY <1>1, <1>2, BusyKeeps DEF IInv
<1> QED
  BY <1>1, <1>5, <1>6, RestTypes, OffChainStep DEF IInv

LEMMA HandleJoinedKeeps == ASSUME IInv, NEW n \in Chains, HandleJoined(n) PROVE IInv'
<1> DEFINE e == Head(queue[n])
           c == e.channel
           old == rows[c]
           row == [old EXCEPT !.status = "open"]
<1>1. /\ queue[n] # <<>> /\ e.kind = "Joined" /\ Take(n) /\ old.status # "none"
      /\ rows' = [rows EXCEPT ![c] = row]
      /\ ledger' = [ledger EXCEPT ![Owner[c]] = @ + old.amount]
      /\ UNCHANGED <<contract, wallet, joins, subscribed, listener, pool, calls, signed, faults>>
  BY DEF HandleJoined, HeadIs, chainVars
<1>2. /\ e \in EventType /\ c \in Channels /\ contract[c] \in OnChain /\ old \in RowType
      /\ RowInv(contract[c], old) /\ EventInv(e, contract[c], old)
  BY <1>1, HeadFacts DEF IInv
<1> HIDE DEF e, old
<1>3. /\ row \in RowType /\ row.status = "open" /\ row.amount = old.amount
      /\ row.version = old.version /\ old.amount \in Int
  BY <1>2 DEF RowType, Statuses
<1> HIDE DEF row
<1>4. /\ RowInv(contract[c], row)
      /\ \A f \in EventType :
            f.channel = c /\ Follows(e, f) /\ EventInv(f, contract[c], old) =>
                EventInv(f, contract[c], row)
  BY <1>1, <1>2, <1>3, JoinedFits
<1>5. /\ queue' \in [Chains -> Seq(EventType)] /\ rows' \in [Channels -> RowType]
      /\ RowsInv' /\ QueueInv'
  BY <1>1, <1>3, <1>4, TakeKeeps DEF IInv, e, old
<1>6. ledger' \in [Owners -> Int]
  BY <1>1, <1>2, <1>3, AccountTypes, Adjusted DEF IInv
<1>7. listener' \in [Chains -> ListenerType] /\ ListenerInv'
  BY <1>1, RestTypes DEF IInv, ListenerInv
<1> QED
  BY <1>1, <1>5, <1>6, <1>7, RestTypes, OffChainStep DEF IInv

LEMMA HandleClosedKeeps == ASSUME IInv, NEW n \in Chains, HandleClosed(n) PROVE IInv'
<1> DEFINE e == Head(queue[n])
           c == e.channel
           old == rows[c]
           row == [status |-> "closed", amount |-> 0, version |-> old.version + 1]
<1>1. /\ queue[n] # <<>> /\ e.kind = "Closed" /\ Take(n) /\ old.status # "none"
      /\ rows' = [rows EXCEPT ![c] = row]
      /\ ledger' = [ledger EXCEPT ![Owner[c]] = @ - old.amount]
      /\ UNCHANGED <<contract, wallet, joins, subscribed, listener, pool, calls, signed, faults>>
  BY DEF HandleClosed, HeadIs, chainVars
<1>2. /\ e \in EventType /\ c \in Channels /\ contract[c] \in OnChain /\ old \in RowType
      /\ RowInv(contract[c], old) /\ EventInv(e, contract[c], old) /\ Bumps(e)
  BY <1>1, HeadFacts DEF IInv, Bumps
<1> HIDE DEF e, old
<1>3. /\ row \in RowType /\ row.status = "closed" /\ row.amount = 0
      /\ row.version = old.version + 1 /\ old.amount \in Int
  BY <1>2 DEF RowType, Statuses
<1> HIDE DEF row
<1>4. /\ RowInv(contract[c], row)
      /\ \A f \in EventType :
            f.channel = c /\ Follows(e, f) /\ EventInv(f, contract[c], old) =>
                EventInv(f, contract[c], row)
  BY <1>1, <1>2, <1>3, BumpFits
<1>5. /\ queue' \in [Chains -> Seq(EventType)] /\ rows' \in [Channels -> RowType]
      /\ RowsInv' /\ QueueInv'
  BY <1>1, <1>3, <1>4, TakeKeeps DEF IInv, e, old
<1>6. ledger' \in [Owners -> Int]
  BY <1>1, <1>2, <1>3, AccountTypes, Adjusted DEF IInv
<1>7. listener' \in [Chains -> ListenerType] /\ ListenerInv'
  BY <1>1, RestTypes DEF IInv, ListenerInv
<1> QED
  BY <1>1, <1>5, <1>6, <1>7, RestTypes, OffChainStep DEF IInv

LEMMA HandleResizedKeeps == ASSUME IInv, NEW n \in Chains, HandleResized(n) PROVE IInv'
<1> DEFINE e == Head(queue[n])
           c == e.channel
           old == rows[c]
           amount == old.amount + e.deltas[1] + e.deltas[2]
           version == old.version + 1
           row == [old EXCEPT !.amount = amount, !.version = version]
<1>1. /\ queue[n] # <<>> /\ e.kind = "Resized" /\ Take(n) /\ old.status # "none"
      /\ Busy(n, "record", c, e.deltas[1])
      /\ UNCHANGED <<contract, wallet, joins, subscribed, ledger, pool, calls, signed, faults>>
  BY DEF HandleResized, HeadIs, chainVars
<1>2. /\ e \in EventType /\ c \in Channels /\ contract[c] \in OnChain /\ old \in RowType
      /\ e.deltas[1] \in Int /\ e.deltas[2] \in Int
      /\ RowInv(contract[c], old) /\ EventInv(e, contract[c], old) /\ Bumps(e)
  BY <1>1, HeadFacts DEF IInv, Bumps
<1>3. rows' = [rows EXCEPT ![c] = row]
  BY DEF HandleResized
<1>4. amount \in Int /\ version \in Nat
  BY <1>2 DEF RowType
<1>5. amount = old.amount + e.deltas[1] + e.deltas[2] /\ version = old.version + 1
  OBVIOUS
<1> HIDE DEF e, old, amount, version
<1>6. /\ row \in RowType /\ row.status = old.status /\ row.amount = amount
      /\ row.version = version
  BY <1>2, <1>4 DEF RowType
<1> HIDE DEF row
<1>7. /\ RowInv(contract[c], row)
      /\ \A f \in EventType :
            f.channel = c /\ Follows(e, f) /\ EventInv(f, contract[c], old) =>
                EventInv(f, contract[c], row)
  BY <1>1, <1>2, <1>5, <1>6, BumpFits
<1>8. /\ queue' \in [Chains -> Seq(EventType)] /\ rows' \in [Channels -> RowType]
      /\ RowsInv' /\ QueueInv'
  BY <1>1, <1>3, <1>6, <1>7, TakeKeeps DEF IInv, e, old
<1>9. listener' \in [Chains -> ListenerType] /\ ListenerInv'
  BY <1>1, <1>2, BusyKeeps DEF IInv
<1> QED
  BY <1>1, <1>8, <1>9, RestTypes, OffChainStep DEF IInv

\* An event that is taken and changes no row.
LEMMA IgnoreKeeps ==
    ASSUME IInv, NEW n \in Chains, queue[n] # <<>>, Take(n),
           UNCHANGED <<chainVars, subscribed, listener, rows, ledger, pool, calls, signed>>,
           faults' \in Nat
    PROVE  IInv'
<1> DEFINE e == Head(queue[n])
           c == e.channel
           row == rows[c]
<1>1. c \in Channels /\ row \in RowType /\ RowInv(contract[c], row)
  BY HeadFacts DEF IInv
<1>2. rows' = [rows EXCEPT ![c] = row]
  BY <1>1, Types DEF IInv
<1>3. \A f \in EventType :
         f.channel = c /\ Follows(e, f) /\ EventInv(f, contract[c], rows[c]) =>
             EventInv(f, contract[c], row)
  OBVIOUS
<1> HIDE DEF e, row
<1>4. /\ queue' \in [Chains -> Seq(EventType)] /\ rows' \in [Channels -> RowType]
      /\ RowsInv' /\ QueueInv'
  BY <1>1, <1>2, <1>3, TakeKeeps DEF IInv, e, chainVars
<1>5. listener' \in [Chains -> ListenerType] /\ ListenerInv'
  BY RestTypes DEF IInv, ListenerInv
<1> QED
  BY <1>4, <1>5, RestTypes, OffChainStep DEF IInv, chainVars

\* Queues that lose events from their ends.
LEMMA PrefixKeeps ==
    ASSUME TypeOK, QueueInv, UNCHANGED <<contract, rows>>,
           queue' \in [Chains -> Seq(EventType)],
           \A n \in Chains :
              /\ Len(queue'[n]) <= Len(queue[n])
              /\ \A i \in 1..Len(queue'[n]) : queue'[n][i] = queue[n][i]
    PROVE  QueueInv'
<1> SUFFICES ASSUME NEW n \in Chains
             PROVE  /\ \A i \in 1..Len(queue'[n]) :
                           LET f == queue'[n][i]
                           IN  /\ Chain[f.channel] = n
                               /\ EventInv(f, contract[f.channel], rows[f.channel])
                    /\ \A i, j \in 1..Len(queue'[n]) : i < j => Follows(queue'[n][i], queue'[n][j])
  BY DEF QueueInv
<1>1. Len(queue'[n]) \in Nat /\ Len(queue[n]) \in Nat
  BY QueueFacts, LenProperties
<1>2. \A i \in 1..Len(queue'[n]) : i \in 1..Len(queue[n]) /\ queue'[n][i] = queue[n][i]
  BY <1>1
<1> QED
  BY <1>2, QueueFacts

LEMMA CutKeeps ==
    ASSUME IInv, queue' \in [Chains -> Seq(EventType)],
           \A n \in Chains :
              /\ Len(queue'[n]) <= Len(queue[n])
              /\ \A i \in 1..Len(queue'[n]) : queue'[n][i] = queue[n][i],
           UNCHANGED <<chainVars, rows, ledger, pool, signed>>,
           subscribed' \in [Chains -> BOOLEAN], faults' \in Nat,
           listener' \in [Chains -> ListenerType], ListenerInv',
           UNCHANGED calls \/ calls' = [w \in Workers |-> NoCall]
    PROVE  IInv'
<1>1. QueueInv'
  BY PrefixKeeps DEF IInv, chainVars
<1>2. RowsInv' /\ rows' \in [Channels -> RowType]
  BY Types DEF IInv, RowsInv, chainVars
<1> QED
  BY <1>1, <1>2, RestTypes, OffChainStep DEF IInv, chainVars

LEMMA SubscriptionLostKeeps == ASSUME IInv, NEW n \in Chains, SubscriptionLost(n) PROVE IInv'
<1>1. PICK k \in 0..Len(queue[n]) : queue' = [queue EXCEPT ![n] = SubSeq(@, 1, k)]
  BY DEF SubscriptionLost
<1>2. /\ subscribed' = [subscribed EXCEPT ![n] = FALSE] /\ faults' = faults + 1
      /\ UNCHANGED <<chainVars, listener, rows, ledger, pool, calls, signed>>
  BY DEF SubscriptionLost, Fault
<1> DEFINE t == SubSeq(queue[n], 1, k)
<1>3. /\ queue \in [Chains -> Seq(EventType)] /\ Len(queue[n]) \in Nat
      /\ \A i \in 1..Len(queue[n]) : queue[n][i] \in EventType
  BY QueueFacts, Types DEF IInv
<1>4. t \in Seq(EventType) /\ Len(t) = k /\ \A i \in 1..k : t[i] = queue[n][i]
  <2>1. 1 \in Int /\ k \in Nat /\ \A i \in 1..k : queue[n][i] \in EventType
    BY <1>3
  <2>2. t \in Seq(EventType) /\ Len(t) = (IF 1 <= k THEN k - 1 + 1 ELSE 0)
        /\ \A i \in 1..(k - 1 + 1) : t[i] = queue[n][1 + i - 1]
    BY <2>1, SubSeqProperties
  <2> QED
    BY <2>1, <2>2
<1> HIDE DEF t
<1>5. /\ queue' \in [Chains -> Seq(EventType)]
      /\ \A m \in Chains : queue'[m] = IF m = n THEN t ELSE queue[m]
  BY <1>1, <1>3, <1>4 DEF t
<1>6. \A m \in Chains : /\ Len(queue'[m]) <= Len(queue[m])
                        /\ \A i \in 1..Len(queue'[m]) : queue'[m][i] = queue[m][i]
  <2> TAKE m \in Chains
  <2>1. CASE m = n
    BY <1>3, <1>4, <1>5, <2>1
  <2>2. CASE m # n
    <3>1. Len(queue[m]) \in Nat
      BY QueueFacts DEF IInv
    <3> QED
      BY <1>5, <2>2, <3>1
  <2> QED
    BY <2>1, <2>2
<1>7. subscribed' \in [Chains -> BOOLEAN] /\ faults' \in Nat
  BY <1>2, RestTypes DEF IInv
<1>8. listener' \in [Chains -> ListenerType] /\ ListenerInv'
  BY <1>2, RestTypes DEF IInv, ListenerInv
<1> QED
  BY <1>2, <1>5, <1>6, <1>7, <1>8, CutKeeps

LEMMA EmptyIsCut ==
    ASSUME IInv, NEW n \in Chains
    PROVE  /\ <<>> \in Seq(EventType) /\ Len(<<>>) <= Len(queue[n])
           /\ \A i \in 1..Len(<<>>) : <<>>[i] = queue[n][i]
<1>1. Len(queue[n]) \in Nat
  BY QueueFacts DEF IInv
<1> QED
  BY <1>1

LEMMA AbandonKeeps == ASSUME IInv, NEW n \in Chains, Abandon(n) PROVE IInv'
<1>1. /\ queue' = [queue EXCEPT ![n] = <<>>]
      /\ UNCHANGED <<chainVars, subscribed, listener, rows, ledger, pool, calls, signed, faults>>
  BY DEF Abandon
<1>2. /\ queue' \in [Chains -> Seq(EventType)]
      /\ \A m \in Chains : queue'[m] = IF m = n THEN <<>> ELSE queue[m]
  BY <1>1, EmptyIsCut, Types DEF IInv
<1>3. \A m \in Chains : /\ Len(queue'[m]) <= Len(queue[m])
                        /\ \A i \in 1..Len(queue'[m]) : queue'[m][i] = queue[m][i]
  <2> TAKE m \in Chains
  <2>1. Len(queue[m]) \in Nat
    BY QueueFacts DEF IInv
  <2> QED
    BY <1>2, <2>1, EmptyIsCut
<1>4. subscribed' \in [Chains -> BOOLEAN] /\ faults' \in Nat
  BY <1>1, RestTypes DEF IInv
<1>5. listener' \in [Chains -> ListenerType] /\ ListenerInv'
  BY <1>1, RestTypes DEF IInv, ListenerInv
<1> QED
  BY <1>1, <1>2, <1>3, <1>4, <1>5, CutKeeps

LEMMA SubscribeKeeps == ASSUME IInv, NEW n \in Chains, Subscribe(n) PROVE IInv'
<1>1. /\ subscribed' = [subscribed EXCEPT ![n] = TRUE]
      /\ UNCHANGED <<chainVars, queue, listener, rows, ledger, pool, calls, signed, faults>>
  BY DEF Subscribe
<1> QED
  BY <1>1 DEF IInv, TypeOK, RowsInv, QueueInv, CallsInv, SignedInv, ListenerInv, chainVars

LEMMA CrashKeeps == ASSUME IInv, Crash PROVE IInv'
<1>1. /\ subscribed' = [n \in Chains |-> FALSE] /\ queue' = [n \in Chains |-> <<>>]
      /\ listener' = [n \in Chains |-> Selecting]
      /\ calls' = [w \in Workers |-> NoCall] /\ faults' = faults + 1
      /\ UNCHANGED <<chainVars, rows, ledger, pool, signed>>
  BY DEF Crash, Fault
<1>2. queue' \in [Chains -> Seq(EventType)]
  BY <1>1, EmptyIsCut
<1>3. \A m \in Chains : /\ Len(queue'[m]) <= Len(queue[m])
                        /\ \A i \in 1..Len(queue'[m]) : queue'[m][i] = queue[m][i]
  BY <1>1, EmptyIsCut
<1>4. subscribed' \in [Chains -> BOOLEAN] /\ faults' \in Nat
  BY <1>1, RestTypes DEF IInv
<1>5. listener' \in [Chains -> ListenerType] /\ ListenerInv'
  BY <1>1 DEF ListenerInv, ListenerType, Selecting
<1> QED
  BY <1>1, <1>2, <1>3, <1>4, <1>5, CutKeeps

\* The rest of a handler: nothing but the listener, and one balance or the joins.
LEMMA FinishKeeps ==
    ASSUME IInv, NEW n \in Chains, Idle(n),
           UNCHANGED <<contract, wallet, subscribed, queue, rows, pool, calls, signed>>,
           joins' \subseteq Channels, ledger' \in [Owners -> Int], faults' \in Nat
    PROVE  IInv'
<1>1. queue' \in [Chains -> Seq(EventType)] /\ rows' \in [Channels -> RowType]
  BY Types DEF IInv
<1>2. RowsInv' /\ QueueInv'
  BY DEF IInv, RowsInv, QueueInv
<1>3. listener' \in [Chains -> ListenerType] /\ ListenerInv'
  BY IdleKeeps DEF IInv
<1> QED
  BY <1>1, <1>2, <1>3, RestTypes, OffChainStep DEF IInv

LEMMA JoinKeeps == ASSUME IInv, NEW n \in Chains, Join(n) PROVE IInv'
<1>1. /\ listener[n].pc = "join" /\ Idle(n) /\ joins' = joins \cup {listener[n].channel}
      /\ UNCHANGED <<contract, wallet, subscribed, queue, rows, ledger, pool, calls, signed, faults>>
  BY DEF Join
<1>2. listener[n].channel \in Channels
  BY <1>1 DEF IInv, ListenerInv
<1>3. joins' \subseteq Channels /\ ledger' \in [Owners -> Int] /\ faults' \in Nat
  BY <1>1, <1>2, RestTypes DEF IInv
<1> QED
  BY <1>1, <1>3, FinishKeeps

LEMMA RecordResizeKeeps == ASSUME IInv, NEW n \in Chains, RecordResize(n) PROVE IInv'
<1> DEFINE l == listener[n]
<1>1. /\ l.pc = "record" /\ Idle(n)
      /\ ledger' = [ledger EXCEPT ![Owner[l.channel]] = @ + l.credit]
      /\ UNCHANGED <<contract, wallet, joins, subscribed, queue, rows, pool, calls, signed, faults>>
  BY DEF RecordResize, chainVars
<1>2. l.channel \in Channels /\ l.credit \in Int
  BY <1>1, RestTypes DEF IInv, ListenerInv, ListenerType
<1> HIDE DEF l
<1>3. ledger' \in [Owners -> Int]
  BY <1>1, <1>2, AccountTypes, Adjusted DEF IInv
<1>4. joins' \subseteq Channels /\ faults' \in Nat
  BY <1>1, RestTypes DEF IInv
<1> QED
  BY <1>1, <1>3, <1>4, FinishKeeps

LEMMA HandlerFailsKeeps == ASSUME IInv, NEW n \in Chains, HandlerFails(n) PROVE IInv'
<1>1. /\ faults' = faults + 1
      /\ UNCHANGED <<chainVars, subscribed, rows, ledger, pool, calls, signed>>
      /\ \/ queue[n] # <<>> /\ Take(n) /\ UNCHANGED listener
         \/ Idle(n) /\ UNCHANGED queue
  BY DEF HandlerFails, Fault
<1>2. /\ faults' \in Nat /\ joins' \subseteq Channels /\ ledger' \in [Owners -> Int]
      /\ UNCHANGED <<contract, wallet>>
  BY <1>1, RestTypes DEF IInv, chainVars
<1> QED
  BY <1>1, <1>2, IgnoreKeeps, FinishKeeps

-------------------------------------------------------------------------------
\* Steps of requests and of app sessions.

CallType == [channel : Channels \cup {None}, amount : Int, version : Nat,
             resize : Int \X Int, close : BOOLEAN]

StateType == [channel : Channels, close : BOOLEAN, version : Nat, amount : Int,
              broker : Int, intentions : Int \X Int]

LEMMA RequestTypes ==
    ASSUME TypeOK PROVE calls \in [Workers -> CallType] /\ signed \subseteq StateType
BY DEF TypeOK, CallType, StateType

LEMMA RequestStep ==
    ASSUME IInv,
           UNCHANGED <<chainVars, subscribed, queue, listener, rows, faults>>,
           calls' \in [Workers -> CallType], signed' \subseteq StateType,
           ledger' \in [Owners -> Int], pool' \in Nat,
           CallsInv', SignedInv'
    PROVE  IInv'
<1> USE DEF chainVars
<1>1. TypeOK'
  BY DEF IInv, TypeOK, CallType, StateType
<1>2. RowsInv' /\ QueueInv' /\ ListenerInv'
  BY DEF IInv, RowsInv, QueueInv, ListenerInv
<1> QED
  BY <1>1, <1>2 DEF IInv

LEMMA ReadChannelKeeps ==
    ASSUME IInv, NEW w \in Workers, NEW c \in Channels, NEW resize \in Int \X Int,
           NEW close \in BOOLEAN, ReadChannel(w, c, resize, close)
    PROVE  IInv'
<1> DEFINE call == [channel |-> c, amount |-> rows[c].amount, version |-> rows[c].version,
                    resize |-> resize, close |-> close]
<1>1. /\ calls' = [calls EXCEPT ![w] = call] /\ rows[c].status # "none"
      /\ UNCHANGED <<chainVars, subscribed, queue, listener, rows, ledger, pool, signed, faults>>
  BY DEF ReadChannel
<1>2. rows[c] \in RowType /\ RowInv(contract[c], rows[c])
  BY Types DEF IInv, RowsInv
<1>3. /\ call \in CallType /\ call.channel = c
      /\ call.version = rows[c].version /\ call.amount = rows[c].amount
  BY <1>2 DEF CallType, RowType
<1> HIDE DEF call
<1>4. ReadFits(contract[c], call.version, call.amount)
  BY <1>1, <1>2, <1>3 DEF ReadFits, RowInv
<1>5. /\ calls' \in [Workers -> CallType]
      /\ \A v \in Workers : calls'[v] = IF v = w THEN call ELSE calls[v]
  BY <1>1, <1>3, RequestTypes DEF IInv
<1>6. CallsInv'
  <2> SUFFICES ASSUME NEW v \in Workers, calls'[v] # NoCall
               PROVE  /\ calls'[v].channel \in Channels
                      /\ ReadFits(contract[calls'[v].channel], calls'[v].version, calls'[v].amount)
    BY <1>1 DEF CallsInv, chainVars
  <2>1. CASE v = w
    BY <1>3, <1>4, <1>5, <2>1
  <2>2. CASE v # w
    BY <1>5, <2>2 DEF IInv, CallsInv
  <2> QED
    BY <2>1, <2>2
<1>7. SignedInv' /\ signed' \subseteq StateType
  BY <1>1, RequestTypes DEF IInv, SignedInv, chainVars
<1>8. ledger' \in [Owners -> Int] /\ pool' \in Nat
  BY <1>1, RestTypes DEF IInv
<1> QED
  BY <1>1, <1>5, <1>6, <1>7, <1>8, RequestStep

\* A worker that is done with its request.
LEMMA DoneKeeps ==
    ASSUME IInv, NEW w \in Workers, calls' = [calls EXCEPT ![w] = NoCall], UNCHANGED contract
    PROVE  calls' \in [Workers -> CallType] /\ CallsInv'
<1>1. NoCall \in CallType
  BY DEF NoCall, CallType
<1>2. /\ calls' \in [Workers -> CallType]
      /\ \A v \in Workers : calls'[v] = NoCall \/ calls'[v] = calls[v]
  BY <1>1, RequestTypes DEF IInv
<1>3. CallsInv'
  <2> SUFFICES ASSUME NEW v \in Workers, calls'[v] # NoCall
               PROVE  /\ calls'[v].channel \in Channels
                      /\ ReadFits(contract[calls'[v].channel], calls'[v].version, calls'[v].amount)
    BY DEF CallsInv
  <2> QED
    BY <1>2 DEF IInv, CallsInv
<1> QED
  BY <1>2, <1>3

LEMMA SignKeeps ==
    ASSUME IInv, NEW w \in Workers, NEW s \in StateType, Sign(w, s),
           ReadFits(contract[s.channel], s.version - 1, Base(s))
    PROVE  IInv'
<1>1. /\ calls' = [calls EXCEPT ![w] = NoCall] /\ signed' \subseteq signed \cup {s}
      /\ UNCHANGED <<chainVars, subscribed, queue, listener, rows, ledger, pool, faults>>
  BY DEF Sign
<1>2. calls' \in [Workers -> CallType] /\ CallsInv'
  BY <1>1, DoneKeeps DEF chainVars
<1>3. signed' \subseteq StateType
  BY <1>1, RequestTypes DEF IInv
<1>4. SignedInv'
  <2> SUFFICES ASSUME NEW t \in signed' PROVE ReadFits(contract[t.channel], t.version - 1, Base(t))
    BY <1>1 DEF SignedInv, chainVars
  <2> QED
    BY <1>1 DEF IInv, SignedInv
<1>5. ledger' \in [Owners -> Int] /\ pool' \in Nat
  BY <1>1, RestTypes DEF IInv
<1> QED
  BY <1>1, <1>2, <1>3, <1>4, <1>5, RequestStep

LEMMA CallFacts ==
    ASSUME IInv, NEW w \in Workers, calls[w] # NoCall
    PROVE  LET call == calls[w]
           IN  /\ call \in CallType /\ call.channel \in Channels
               /\ call.resize[1] \in Int /\ call.resize[2] \in Int
               /\ call.amount \in Int /\ call.version \in Nat
               /\ ledger[Owner[call.channel]] \in Int
               /\ ReadFits(contract[call.channel], call.version, call.amount)
<1>1. calls[w] \in CallType /\ calls[w].channel \in Channels
  BY RequestTypes DEF IInv, CallsInv
<1>2. ReadFits(contract[calls[w].channel], calls[w].version, calls[w].amount)
  BY DEF IInv, CallsInv
<1>3. ledger[Owner[calls[w].channel]] \in Int
  BY <1>1, AccountTypes DEF IInv
<1> QED
  BY <1>1, <1>2, <1>3 DEF CallType

LEMMA SignResizeKeeps == ASSUME IInv, NEW w \in Workers, SignResize(w) PROVE IInv'
<1> DEFINE call == calls[w]
           r == call.resize
           amount == call.amount + r[2] + r[1]
           s == [channel |-> call.channel, close |-> FALSE, version |-> call.version + 1,
                 amount |-> amount, broker |-> 0, intentions |-> <<-r[1], r[2]>>]
<1>1. call # NoCall /\ Sign(w, s)
  BY DEF SignResize, ResizeState
<1>2. /\ call.channel \in Channels /\ r[1] \in Int /\ r[2] \in Int
      /\ call.amount \in Int /\ call.version \in Nat
      /\ ReadFits(contract[call.channel], call.version, call.amount)
  BY <1>1, CallFacts
<1>3. amount \in Int /\ amount = call.amount + r[2] + r[1]
  BY <1>2
<1> HIDE DEF call, r, amount
<1>4. /\ s \in StateType /\ s.channel = call.channel /\ s.close = FALSE
      /\ s.version = call.version + 1 /\ s.amount = amount
      /\ s.intentions[1] = -r[1] /\ s.intentions[2] = r[2]
  BY <1>2, <1>3 DEF StateType
<1> HIDE DEF s
<1>5. Base(s) = call.amount
  <2>1. Deltas(s)[1] = r[1] /\ Deltas(s)[2] = r[2]
    BY <1>2, <1>4 DEF Deltas
  <2> QED
    BY <1>2, <1>3, <1>4, <2>1 DEF Base
<1>6. s.version - 1 = call.version
  BY <1>2, <1>4
<1> QED
  BY <1>1, <1>2, <1>4, <1>5, <1>6, SignKeeps

LEMMA SignCloseKeeps == ASSUME IInv, NEW w \in Workers, SignClose(w) PROVE IInv'
<1> DEFINE call == calls[w]
           balance == ledger[Owner[call.channel]]
           broker == call.amount - balance
           s == [channel |-> call.channel, close |-> TRUE, version |-> call.version + 1,
                 amount |-> balance, broker |-> broker, intentions |-> <<0, 0>>]
<1>1. call # NoCall /\ Sign(w, s)
  BY DEF SignClose, CloseState
<1>2. /\ call.channel \in Channels /\ balance \in Int
      /\ call.amount \in Int /\ call.version \in Nat
      /\ ReadFits(contract[call.channel], call.version, call.amount)
  BY <1>1, CallFacts
<1>3. broker \in Int /\ balance + broker = call.amount
  BY <1>2
<1> HIDE DEF call, balance, broker
<1>4. /\ s \in StateType /\ s.channel = call.channel /\ s.close
      /\ s.version = call.version + 1 /\ s.amount = balance /\ s.broker = broker
  BY <1>2, <1>3 DEF StateType
<1> HIDE DEF s
<1>5. Base(s) = call.amount
  BY <1>3, <1>4 DEF Base
<1>6. s.version - 1 = call.version
  BY <1>2, <1>4
<1> QED
  BY <1>1, <1>2, <1>4, <1>5, <1>6, SignKeeps

LEMMA RefuseKeeps == ASSUME IInv, NEW w \in Workers, Refuse(w) PROVE IInv'
<1>1. /\ calls' = [calls EXCEPT ![w] = NoCall]
      /\ UNCHANGED <<chainVars, subscribed, queue, listener, rows, ledger, pool, signed, faults>>
  BY DEF Refuse
<1>2. calls' \in [Workers -> CallType] /\ CallsInv'
  BY <1>1, DoneKeeps DEF chainVars
<1>3. SignedInv' /\ signed' \subseteq StateType
  BY <1>1, RequestTypes DEF IInv, SignedInv, chainVars
<1>4. ledger' \in [Owners -> Int] /\ pool' \in Nat
  BY <1>1, RestTypes DEF IInv
<1> QED
  BY <1>1, <1>2, <1>3, <1>4, RequestStep

LEMMA FundsKeep ==
    ASSUME IInv, NEW o \in Owners, NEW n \in Bets, LockFunds(o, n) \/ PayOut(o, n)
    PROVE  IInv'
<1>1. n \in Nat /\ pool \in Nat /\ ledger \in [Owners -> Int]
  BY AmountsAreNatural, RestTypes DEF IInv
<1>2. UNCHANGED <<chainVars, subscribed, queue, listener, rows, calls, signed, faults>>
  BY DEF LockFunds, PayOut
<1>3. ledger' \in [Owners -> Int] /\ pool' \in Nat
  <2>1. CASE LockFunds(o, n)
    BY <1>1, <2>1, Adjusted DEF LockFunds
  <2>2. CASE PayOut(o, n)
    BY <1>1, <2>2, Adjusted DEF PayOut
  <2> QED
    BY <2>1, <2>2
<1>4. /\ calls' \in [Workers -> CallType] /\ CallsInv'
      /\ SignedInv' /\ signed' \subseteq StateType
  BY <1>2, RequestTypes DEF IInv, CallsInv, SignedInv, chainVars
<1> QED
  BY <1>2, <1>3, <1>4, RequestStep

-------------------------------------------------------------------------------
\* Every step keeps the invariant.

LEMMA InitHolds == Init => IInv
<1> SUFFICES ASSUME Init PROVE IInv
  OBVIOUS
<1>1. TypeOK
  BY BoundsType DEF Init, TypeOK, Selecting, NoCall, Statuses
<1>2. RowsInv
  BY DEF Init, RowsInv, RowInv
<1>3. QueueInv
  BY DEF Init, QueueInv
<1>4. CallsInv /\ SignedInv /\ ListenerInv
  BY DEF Init, CallsInv, SignedInv, ListenerInv, Selecting
<1> QED
  BY <1>1, <1>2, <1>3, <1>4 DEF IInv

LEMMA HandleKeeps == ASSUME IInv, NEW n \in Chains, Handle(n) PROVE IInv'
<1>1. CASE IgnoreCreated(n) \/ IgnoreUnknown(n)
  <2>1. /\ queue[n] # <<>> /\ Take(n)
        /\ UNCHANGED <<chainVars, subscribed, listener, rows, ledger, pool, calls, signed, faults>>
    BY <1>1 DEF IgnoreCreated, IgnoreUnknown, HeadIs
  <2>2. faults' \in Nat
    BY <2>1, RestTypes DEF IInv
  <2> QED
    BY <2>1, <2>2, IgnoreKeeps
<1> QED
  BY <1>1, HandleCreatedKeeps, JoinKeeps, HandleJoinedKeeps, HandleClosedKeeps,
     HandleResizedKeeps, RecordResizeKeeps DEF Handle

LEMMA NextHolds == IInv /\ [Next]_vars => IInv'
<1> SUFFICES ASSUME IInv, [Next]_vars PROVE IInv'
  OBVIOUS
<1>1. CASE UNCHANGED vars
  BY <1>1 DEF vars, IInv, TypeOK, RowsInv, QueueInv, CallsInv, SignedInv, ListenerInv
<1>2. ASSUME NEW c \in Channels, NEW w \in Workers, NEW r \in Resizes, ReadChannel(w, c, r, FALSE)
      PROVE  IInv'
  <2>1. r \in Int \X Int
    BY ResizesType
  <2> QED
    BY <1>2, <2>1, ReadChannelKeeps
<1>3. ASSUME NEW c \in Channels, NEW w \in Workers, ReadChannel(w, c, <<0, 0>>, TRUE)
      PROVE  IInv'
  <2>1. <<0, 0>> \in Int \X Int
    OBVIOUS
  <2> QED
    BY <1>3, <2>1, ReadChannelKeeps
<1>4. CASE Next
  BY <1>2, <1>3, <1>4, OnCreateKeeps, JoinsKeep, SubmitResizeKeeps, SubmitCloseKeeps, HandleKeeps,
     HandlerFailsKeeps, SubscriptionLostKeeps, AbandonKeeps, SubscribeKeeps, CrashKeeps, SignResizeKeeps,
     SignCloseKeeps, RefuseKeeps, FundsKeep DEF Next
<1> QED
  BY <1>1, <1>4

LEMMA InvariantHolds == Spec => []IInv
BY InitHolds, NextHolds, PTL DEF Spec

-------------------------------------------------------------------------------
\* The theorems.

\* Every variable has its type, whatever fails: of a listener, an event or a request.
THEOREM CustodyTyped == Spec => []TypeOK
<1>1. IInv => TypeOK
  BY DEF IInv
<1> QED
  BY <1>1, InvariantHolds, PTL

\* Whatever events are lost, the database never runs ahead of a contract.
THEOREM RowsStayBehind == Spec => []RowsBehindContract
<1>1. IInv => RowsBehindContract
  BY DEF IInv, RowsInv, RowInv, RowsBehindContract
<1> QED
  BY <1>1, InvariantHolds, PTL

\* Whatever fails and however requests interleave with events, a signed state that
\* its contract can take is about the amount the contract holds.
THEOREM SignedStatesFit == Spec => []AcceptableStatesFit
<1>1. IInv => AcceptableStatesFit
  <2> SUFFICES ASSUME IInv, NEW s \in signed, Acceptable(s, contract[s.channel])
               PROVE  contract[s.channel].amount =
                          IF s.close THEN s.amount + s.broker
                          ELSE s.amount - Deltas(s)[1] - Deltas(s)[2]
    BY DEF AcceptableStatesFit
  <2>1. s.channel \in Channels /\ s.version \in Nat
    BY SignedType DEF IInv
  <2>2. contract[s.channel].version \in Nat
    BY <2>1, Types DEF IInv, OnChain
  <2>3. s.version > contract[s.channel].version /\ s.version - 1 <= contract[s.channel].version
    BY DEF Acceptable, IInv, SignedInv, ReadFits
  <2>4. s.version - 1 = contract[s.channel].version
    BY <2>1, <2>2, <2>3
  <2>5. contract[s.channel].amount = Base(s)
    BY <2>4 DEF IInv, SignedInv, ReadFits
  <2> QED
    BY <2>5 DEF Base
<1> QED
  BY <1>1, InvariantHolds, PTL

-------------------------------------------------------------------------------
(***************************************************************************)
(* Without failures, the events of a channel that wait are a trail of      *)
(* states from its row to its contract: the handlers make each state of it *)
(* the row's, one by one.                                                  *)
(***************************************************************************)

\* What a row says of its channel on chain.
Mirror(row) == [row EXCEPT !.status = StatusOnChain[@]]

StatusAfter == [Created |-> "joining", Joined |-> "open", Resized |-> "open", Closed |-> "closed"]

\* The row once event e is handled.
After(e) == [status |-> StatusAfter[e.kind], amount |-> e.amount, version |-> e.version]

\* The event's handler takes the row there.
Leads(row, e) ==
    \/ /\ e.kind = "Joined" /\ row.status = "joining"
       /\ e.amount = row.amount /\ e.version = row.version
    \/ /\ e.kind = "Resized" /\ row.status = "open"
       /\ e.amount = row.amount + e.deltas[1] + e.deltas[2] /\ e.version = row.version + 1
    \/ /\ e.kind = "Closed" /\ row.status = "open"
       /\ e.amount = 0 /\ e.version = row.version + 1

About(q, c) == {i \in 1..Len(q) : q[i].channel = c}

\* From the row to the first event of c, from one to the next, from the last to the contract.
Trail(q, c, on, row) ==
    /\ About(q, c) = {} /\ row.status # "none" => on = Mirror(row)
    /\ \A i \in About(q, c) :
          /\ (\A j \in About(q, c) : i <= j) /\ row.status # "none" => Leads(row, q[i])
          /\ \A j \in About(q, c) :
                i < j /\ (\A k \in About(q, c) : k <= i \/ j <= k) => Leads(After(q[i]), q[j])
          /\ (\A j \in About(q, c) : j <= i) => on = Mirror(After(q[i]))

LEMMA AfterType ==
    ASSUME NEW e \in EventType
    PROVE  After(e) \in RowType /\ After(e).status # "none"
BY DEF After, StatusAfter, EventType, RowType, Statuses

\* A new event of the channel.
LEMMA TrailExtended ==
    ASSUME NEW q \in Seq(EventType), NEW e \in EventType, NEW c \in Channels, e.channel = c,
           NEW was, NEW row \in RowType, Trail(q, c, was, row),
           \A r \in RowType : r.status # "none" /\ was = Mirror(r) => Leads(r, e)
    PROVE  Trail(Append(q, e), c, Mirror(After(e)), row)
<1> DEFINE t == Append(q, e)
           n == Len(q)
<1>1. /\ n \in Nat /\ Len(t) = n + 1 /\ t[n + 1] = e
      /\ \A i \in 1..n : t[i] = q[i] /\ q[i] \in EventType
  BY AppendProperties, LenProperties, ElementOfSeq
<1>2. About(t, c) = About(q, c) \cup {n + 1}
  <2> HIDE DEF t, n
  <2>1. 1..(n + 1) = (1..n) \cup {n + 1}
    BY <1>1
  <2> QED
    BY <1>1, <2>1 DEF About, n
<1>3. \A i \in About(q, c) : i \in 1..n /\ i \in Int /\ i < n + 1 /\ t[i] = q[i] /\ q[i] \in EventType
  BY <1>1 DEF About
<1> HIDE DEF t, n
<1>4. About(t, c) # {}
  BY <1>2
<1>5. ASSUME NEW i \in About(t, c), \A j \in About(t, c) : i <= j, row.status # "none"
      PROVE  Leads(row, t[i])
  <2>1. CASE i \in About(q, c)
    BY <1>2, <1>3, <1>5, <2>1 DEF Trail
  <2>2. CASE i = n + 1
    <3>1. ASSUME NEW j \in About(q, c) PROVE FALSE
      <4>1. j \in About(t, c) /\ j \in Int /\ j < n + 1
        BY <1>2, <1>3
      <4>2. n + 1 <= j
        BY <1>5, <2>2, <4>1
      <4> QED
        BY <1>1, <4>1, <4>2
    <3>2. About(q, c) = {}
      BY <3>1
    <3> QED
      BY <1>1, <1>5, <2>2, <3>2 DEF Trail
  <2> QED
    BY <1>2, <2>1, <2>2
<1>6. ASSUME NEW i \in About(t, c), NEW j \in About(t, c), i < j,
             \A k \in About(t, c) : k <= i \/ j <= k
      PROVE  Leads(After(t[i]), t[j])
  <2>1. i \in About(q, c)
    BY <1>1, <1>2, <1>3, <1>6
  <2>2. CASE j \in About(q, c)
    BY <1>2, <1>3, <1>6, <2>1, <2>2 DEF Trail
  <2>3. CASE j = n + 1
    <3>1. \A k \in About(q, c) : k <= i
      BY <1>1, <1>2, <1>3, <1>6, <2>1, <2>3
    <3>2. was = Mirror(After(q[i]))
      BY <2>1, <3>1 DEF Trail
    <3>3. After(q[i]) \in RowType /\ After(q[i]).status # "none"
      BY <1>3, <2>1, AfterType
    <3> QED
      BY <1>1, <1>3, <2>1, <2>3, <3>2, <3>3
  <2> QED
    BY <1>2, <2>2, <2>3
<1>7. ASSUME NEW i \in About(t, c), \A j \in About(t, c) : j <= i
      PROVE  Mirror(After(e)) = Mirror(After(t[i]))
  <2>1. i = n + 1
    BY <1>1, <1>2, <1>3, <1>7
  <2> QED
    BY <1>1, <2>1
<1>8. Trail(t, c, Mirror(After(e)), row)
  BY <1>4, <1>5, <1>6, <1>7 DEF Trail
<1> QED
  BY <1>8 DEF t

\* A new event of another channel.
LEMMA TrailKept ==
    ASSUME NEW q \in Seq(EventType), NEW e \in EventType, NEW c, e.channel # c,
           NEW on, NEW row, Trail(q, c, on, row)
    PROVE  Trail(Append(q, e), c, on, row)
<1> DEFINE t == Append(q, e)
           n == Len(q)
<1>1. n \in Nat /\ Len(t) = n + 1 /\ t[n + 1] = e /\ \A i \in 1..n : t[i] = q[i]
  BY AppendProperties, LenProperties
<1>2. About(t, c) = About(q, c)
  <2> HIDE DEF t, n
  <2>1. 1..(n + 1) = (1..n) \cup {n + 1}
    BY <1>1
  <2> QED
    BY <1>1, <2>1 DEF About, n
<1>3. \A i \in About(q, c) : t[i] = q[i]
  BY <1>1 DEF About
<1> HIDE DEF t, n
<1>4. Trail(t, c, on, row)
  BY <1>2, <1>3 DEF Trail
<1> QED
  BY <1>4 DEF t

\* The oldest event is taken: of another channel, or of this one.
LEMMA TrailTaken ==
    ASSUME NEW q \in Seq(EventType), q # <<>>, NEW c, NEW on, NEW row, Trail(q, c, on, row)
    PROVE  /\ Head(q) \in EventType
           /\ Head(q).channel = c /\ row.status # "none" => Leads(row, Head(q))
           /\ Head(q).channel = c => Trail(Tail(q), c, on, After(Head(q)))
           /\ Head(q).channel # c \/ row.status = "none" => Trail(Tail(q), c, on, row)
<1> DEFINE t == Tail(q)
           A == About(q, c)
           B == About(t, c)
<1>1. /\ Len(q) \in Nat /\ Len(q) > 0 /\ Len(t) = Len(q) - 1
      /\ Head(q) = q[1] /\ Head(q) \in EventType
      /\ \A i \in 1..Len(t) : t[i] = q[i + 1]
  BY HeadTailProperties, LenProperties
<1>2. \A i \in B : i \in Int /\ 1 <= i /\ i + 1 \in A /\ t[i] = q[i + 1]
  BY <1>1 DEF About
<1>3. \A i \in A : i \in Int /\ 1 <= i /\ (i # 1 => i - 1 \in B /\ t[i - 1] = q[i])
  BY <1>1 DEF About
<1>4. 1 \in A <=> Head(q).channel = c
  BY <1>1 DEF About
<1>5. \A i \in B : (\A j \in B : j <= i) => (\A j \in A : j <= i + 1)
  BY <1>2, <1>3
<1>6. \A i, j \in B : i < j /\ (\A k \in B : k <= i \/ j <= k) =>
          i + 1 < j + 1 /\ \A k \in A : k <= i + 1 \/ j + 1 <= k
  <2> SUFFICES ASSUME NEW i \in B, NEW j \in B, i < j, \A k \in B : k <= i \/ j <= k
               PROVE  i + 1 < j + 1 /\ \A k \in A : k <= i + 1 \/ j + 1 <= k
    OBVIOUS
  <2>1. i \in Int /\ j \in Int /\ 1 <= i
    BY <1>2
  <2>2. ASSUME NEW k \in A PROVE k <= i + 1 \/ j + 1 <= k
    <3>1. k \in Int /\ (k # 1 => k - 1 <= i \/ j <= k - 1)
      BY <1>3
    <3> QED
      BY <2>1, <3>1
  <2> QED
    BY <2>1, <2>2
<1>7. \A i \in B : (\A j \in B : i <= j) => (\A j \in A : j = 1 \/ i + 1 <= j)
  BY <1>2, <1>3
<1> HIDE DEF t, A, B
<1>8. /\ \A i \in B : (\A j \in B : j <= i) => on = Mirror(After(t[i]))
      /\ \A i, j \in B : i < j /\ (\A k \in B : k <= i \/ j <= k) => Leads(After(t[i]), t[j])
  BY <1>2, <1>5, <1>6 DEF Trail, A
<1>9. ASSUME Head(q).channel = c, row.status # "none" PROVE Leads(row, Head(q))
  BY <1>1, <1>3, <1>4, <1>9 DEF Trail, A
<1>10. ASSUME Head(q).channel = c PROVE Trail(t, c, on, After(Head(q)))
  <2>1. B = {} => on = Mirror(After(Head(q)))
    <3>1. B = {} => \A j \in A : j <= 1
      BY <1>3
    <3> QED
      BY <1>1, <1>4, <1>10, <3>1 DEF Trail, A
  <2>2. \A i \in B : (\A j \in B : i <= j) => Leads(After(Head(q)), t[i])
    <3> SUFFICES ASSUME NEW i \in B, \A j \in B : i <= j PROVE Leads(After(q[1]), q[i + 1])
      BY <1>1, <1>2
    <3>1. 1 \in A /\ i + 1 \in A /\ 1 < i + 1 /\ \A k \in A : k <= 1 \/ i + 1 <= k
      BY <1>2, <1>4, <1>7, <1>10
    <3> QED
      BY <3>1 DEF Trail, A
  <2> QED
    BY <1>8, <2>1, <2>2 DEF Trail, B
<1>11. ASSUME Head(q).channel # c \/ row.status = "none" PROVE Trail(t, c, on, row)
  <2>1. B = {} /\ row.status # "none" => on = Mirror(row)
    BY <1>3, <1>4, <1>11 DEF Trail, A
  <2>2. \A i \in B : (\A j \in B : i <= j) /\ row.status # "none" => Leads(row, t[i])
    <3> SUFFICES ASSUME NEW i \in B, \A j \in B : i <= j, row.status # "none"
                 PROVE  Leads(row, q[i + 1])
      BY <1>2
    <3>1. i + 1 \in A /\ \A k \in A : i + 1 <= k
      BY <1>2, <1>4, <1>7, <1>11
    <3> QED
      BY <3>1 DEF Trail, A
  <2> QED
    BY <1>8, <2>1, <2>2 DEF Trail, B
<1> QED
  BY <1>1, <1>9, <1>10, <1>11 DEF t

\* Every subscription lives, and every channel has its trail.
Reliable ==
    /\ \A n \in Chains : subscribed[n]
    /\ \A c \in Channels : Trail(queue[Chain[c]], c, contract[c], rows[c])

LEMMA ReliableInit == Init => Reliable
<1> SUFFICES ASSUME Init PROVE Reliable
  OBVIOUS
<1>1. \A c \in Channels : Chain[c] \in Chains /\ queue[Chain[c]] = <<>> /\ rows[c].status = "none"
  BY ChannelsAreOwned DEF Init
<1>2. \A c \in Channels : About(<<>>, c) = {}
  BY DEF About
<1> QED
  BY <1>1, <1>2 DEF Init, Reliable, Trail

\* A contract's step adds an event that leads to where the contract is then.
LEMMA EventLeads ==
    ASSUME NEW kind \in {"Created", "Joined", "Resized", "Closed"}, NEW d \in Int \X Int,
           NEW was \in OnChain, NEW on \in OnChain, Moves(kind, was, on, d),
           on.version <= was.version + 1,
           NEW e \in EventType, e.kind = kind, e.deltas = d,
           e.version = on.version, e.amount = on.amount
    PROVE  /\ on = Mirror(After(e))
           /\ \A r \in RowType : r.status # "none" /\ was = Mirror(r) => Leads(r, e)
<1>1. on.status = StatusOnChain[StatusAfter[kind]]
  BY DEF Moves, StatusOnChain, StatusAfter
<1>2. on = Mirror(After(e))
  BY <1>1 DEF Mirror, After, OnChain
<1>3. ASSUME NEW r \in RowType, r.status # "none", was = Mirror(r) PROVE Leads(r, e)
  <2>1. /\ was.status = StatusOnChain[r.status] /\ was.amount = r.amount /\ was.version = r.version
        /\ r.status \in {"joining", "open", "closed"}
        /\ was.version \in Nat /\ on.version \in Nat
    BY <1>3 DEF Mirror, RowType, OnChain, Statuses
  <2>2. /\ was.status = "initial" => r.status = "joining"
        /\ was.status = "active" => r.status = "open"
        /\ was.status # "void"
    BY <2>1 DEF StatusOnChain
  <2>3. on.version > was.version => on.version = r.version + 1
    BY <2>1
  <2> QED
    BY <2>1, <2>2, <2>3 DEF Moves, Leads
<1> QED
  BY <1>2, <1>3

LEMMA ContractReliable ==
    ASSUME IInv, Reliable,
           NEW c \in Channels, NEW on \in OnChain,
           NEW kind \in {"Created", "Joined", "Resized", "Closed"}, NEW d \in Int \X Int,
           Moves(kind, contract[c], on, d), on.version <= contract[c].version + 1,
           contract' = [contract EXCEPT ![c] = on],
           Emit(kind, c, d, on),
           UNCHANGED <<subscribed, rows>>
    PROVE  Reliable'
<1> DEFINE e == [kind |-> kind, channel |-> c, deltas |-> d,
                 version |-> on.version, amount |-> on.amount]
           was == contract[c]
<1>1. /\ e \in EventType /\ queue \in [Chains -> Seq(EventType)]
      /\ e.channel = c /\ e.kind = kind /\ e.deltas = d /\ e.version = on.version /\ e.amount = on.amount
      /\ was \in OnChain /\ contract \in [Channels -> OnChain] /\ rows \in [Channels -> RowType]
      /\ \A k \in Channels : Chain[k] \in Chains
  BY Emitted, Types DEF IInv
<1>2. queue' = [queue EXCEPT ![Chain[c]] = Append(queue[Chain[c]], e)]
  BY <1>1 DEF Reliable, Emit
<1> HIDE DEF e
<1>3. on = Mirror(After(e)) /\ \A r \in RowType : r.status # "none" /\ was = Mirror(r) => Leads(r, e)
  BY <1>1, EventLeads
<1>4. ASSUME NEW k \in Channels PROVE Trail(queue'[Chain[k]], k, contract'[k], rows[k])
  <2> DEFINE q == queue[Chain[k]]
  <2>0. q \in Seq(EventType) /\ Trail(q, k, contract[k], rows[k]) /\ rows[k] \in RowType
    BY <1>1 DEF Reliable
  <2>1. CASE k = c
    <3>1. queue'[Chain[k]] = Append(q, e) /\ contract'[k] = on
      BY <1>1, <1>2, <2>1
    <3> HIDE DEF q
    <3> QED
      BY <1>1, <1>3, <2>0, <2>1, <3>1, TrailExtended
  <2>2. CASE k # c
    <3>1. queue'[Chain[k]] \in {q, Append(q, e)} /\ contract'[k] = contract[k]
      BY <1>1, <1>2, <2>2
    <3> HIDE DEF q
    <3> QED
      BY <1>1, <2>0, <2>2, <3>1, TrailKept
  <2> QED
    BY <2>1, <2>2
<1> QED
  BY <1>4 DEF Reliable

\* A listener takes an event and its row goes where the event leads; a channel
\* without a row may stay so.
LEMMA TakeReliable ==
    ASSUME IInv, Reliable, NEW n \in Chains, queue[n] # <<>>, Take(n),
           UNCHANGED <<contract, subscribed>>,
           NEW e, e = Head(queue[n]),
           \/ UNCHANGED rows /\ rows[e.channel].status = "none"
           \/ rows' = [rows EXCEPT ![e.channel] = After(e)]
    PROVE  Reliable'
<1>1. /\ queue \in [Chains -> Seq(EventType)] /\ rows \in [Channels -> RowType]
      /\ e \in EventType /\ e.channel \in Channels
      /\ \A k \in Channels : Chain[k] \in Chains
  BY HeadFacts, Types DEF IInv
<1>2. Chain[e.channel] = n
  <2>1. queue[n] \in Seq(EventType) /\ Head(queue[n]) = queue[n][1] /\ 1 \in 1..Len(queue[n])
    BY <1>1
  <2> QED
    BY <2>1 DEF IInv, QueueInv
<1>3. queue' = [queue EXCEPT ![n] = Tail(queue[n])]
  BY <1>1 DEF Take
<1>4. ASSUME NEW k \in Channels PROVE Trail(queue'[Chain[k]], k, contract[k], rows'[k])
  <2> DEFINE q == queue[Chain[k]]
  <2>0. q \in Seq(EventType) /\ Trail(q, k, contract[k], rows[k])
    BY <1>1 DEF Reliable
  <2>1. CASE Chain[k] # n
    <3>1. queue'[Chain[k]] = q /\ rows'[k] = rows[k]
      BY <1>1, <1>2, <1>3, <2>1
    <3> QED
      BY <2>0, <3>1
  <2>2. CASE Chain[k] = n
    <3>1. queue'[Chain[k]] = Tail(q) /\ Head(q) = e /\ q # <<>>
      BY <1>1, <1>3, <2>2
    <3>2. rows'[k] = rows[k] \/ (k = e.channel /\ rows'[k] = After(e))
      BY <1>1
    <3>3. k = e.channel => rows'[k] = After(e) \/ (rows'[k] = rows[k] /\ rows[k].status = "none")
      BY <1>1
    <3> HIDE DEF q
    <3> QED
      BY <2>0, <3>1, <3>2, <3>3, TrailTaken
  <2> QED
    BY <2>1, <2>2
<1> QED
  BY <1>4 DEF Reliable

\* What the oldest event of a chain says of its channel's row.
LEMMA HeadLeads ==
    ASSUME IInv, Reliable, NEW n \in Chains, queue[n] # <<>>
    PROVE  LET e == Head(queue[n])
               row == rows[e.channel]
           IN  row.status # "none" => Leads(row, e)
<1> DEFINE e == Head(queue[n])
<1>1. /\ queue[n] \in Seq(EventType) /\ e.channel \in Channels
      /\ e = queue[n][1] /\ 1 \in 1..Len(queue[n])
  <2>1. queue[n] \in Seq(EventType)
    BY Types DEF IInv
  <2>2. e.channel \in Channels
    BY HeadFacts DEF IInv
  <2> QED
    BY <2>1, <2>2
<1>2. Chain[e.channel] = n
  BY <1>1 DEF IInv, QueueInv
<1> HIDE DEF e
<1>3. Trail(queue[n], e.channel, contract[e.channel], rows[e.channel])
  BY <1>1, <1>2 DEF Reliable
<1> QED
  BY <1>1, <1>3, TrailTaken DEF e

\* The handlers, when every event has its trail: each row goes where the event leads.
LEMMA CreatedReliably ==
    ASSUME IInv, Reliable, NEW n \in Chains, HandleCreated(n)
    PROVE  LET e == Head(queue[n])
           IN  /\ queue[n] # <<>> /\ Take(n) /\ e \in EventType /\ e.channel \in Channels
               /\ rows[e.channel].status = "none" /\ After(e).status = "joining"
               /\ rows' = [rows EXCEPT ![e.channel] = After(e)]
<1> DEFINE e == Head(queue[n])
<1>1. /\ queue[n] # <<>> /\ e.kind = "Created" /\ Take(n) /\ rows[e.channel].status = "none"
      /\ rows' = [rows EXCEPT ![e.channel] = [status |-> "joining", amount |-> e.deltas[1],
                                              version |-> 0]]
  BY DEF HandleCreated, HeadIs
<1>2. e \in EventType /\ e.channel \in Channels /\ EventInv(e, contract[e.channel], rows[e.channel])
  BY <1>1, HeadFacts DEF IInv
<1> HIDE DEF e
<1>3. After(e) = [status |-> "joining", amount |-> e.deltas[1], version |-> 0]
  BY <1>1, <1>2 DEF EventInv, After, StatusAfter
<1>4. After(e).status = "joining"
  BY <1>3
<1> QED
  BY <1>1, <1>2, <1>3, <1>4 DEF e

LEMMA JoinedReliably ==
    ASSUME IInv, Reliable, NEW n \in Chains, HandleJoined(n)
    PROVE  LET e == Head(queue[n])
               row == rows[e.channel]
           IN  /\ queue[n] # <<>> /\ Take(n) /\ e \in EventType /\ e.channel \in Channels
               /\ row \in RowType /\ row.status = "joining"
               /\ After(e).status = "open" /\ After(e).amount = row.amount
               /\ rows' = [rows EXCEPT ![e.channel] = After(e)]
               /\ ledger' = [ledger EXCEPT ![Owner[e.channel]] = @ + row.amount]
<1> DEFINE e == Head(queue[n])
           row == rows[e.channel]
<1>1. /\ queue[n] # <<>> /\ e.kind = "Joined" /\ Take(n) /\ row.status # "none"
      /\ rows' = [rows EXCEPT ![e.channel] = [row EXCEPT !.status = "open"]]
      /\ ledger' = [ledger EXCEPT ![Owner[e.channel]] = @ + row.amount]
  BY DEF HandleJoined, HeadIs
<1>2. e \in EventType /\ e.channel \in Channels /\ row \in RowType
  BY <1>1, HeadFacts DEF IInv
<1>3. Leads(row, e)
  BY <1>1, HeadLeads
<1> HIDE DEF e, row
<1>4. After(e) = [row EXCEPT !.status = "open"] /\ row.status = "joining"
  BY <1>1, <1>2, <1>3 DEF Leads, After, StatusAfter, RowType
<1>5. After(e).status = "open" /\ After(e).amount = row.amount
  BY <1>2, <1>4 DEF RowType
<1> QED
  BY <1>1, <1>2, <1>4, <1>5 DEF e, row

LEMMA ClosedReliably ==
    ASSUME IInv, Reliable, NEW n \in Chains, HandleClosed(n)
    PROVE  LET e == Head(queue[n])
               row == rows[e.channel]
           IN  /\ queue[n] # <<>> /\ Take(n) /\ e \in EventType /\ e.channel \in Channels
               /\ row \in RowType /\ row.status = "open"
               /\ After(e).status = "closed"
               /\ rows' = [rows EXCEPT ![e.channel] = After(e)]
               /\ ledger' = [ledger EXCEPT ![Owner[e.channel]] = @ - row.amount]
<1> DEFINE e == Head(queue[n])
           row == rows[e.channel]
<1>1. /\ queue[n] # <<>> /\ e.kind = "Closed" /\ Take(n) /\ row.status # "none"
      /\ rows' = [rows EXCEPT ![e.channel] = [status |-> "closed", amount |-> 0,
                                              version |-> row.version + 1]]
      /\ ledger' = [ledger EXCEPT ![Owner[e.channel]] = @ - row.amount]
  BY DEF HandleClosed, HeadIs
<1>2. e \in EventType /\ e.channel \in Channels /\ row \in RowType
  BY <1>1, HeadFacts DEF IInv
<1>3. Leads(row, e)
  BY <1>1, HeadLeads
<1> HIDE DEF e, row
<1>4. /\ After(e) = [status |-> "closed", amount |-> 0, version |-> row.version + 1]
      /\ row.status = "open"
  BY <1>1, <1>2, <1>3 DEF Leads, After, StatusAfter
<1>5. After(e).status = "closed"
  BY <1>4
<1> QED
  BY <1>1, <1>2, <1>4, <1>5 DEF e, row

LEMMA ResizedReliably ==
    ASSUME IInv, Reliable, NEW n \in Chains, HandleResized(n)
    PROVE  LET e == Head(queue[n])
               row == rows[e.channel]
           IN  /\ queue[n] # <<>> /\ Take(n) /\ e \in EventType /\ e.channel \in Channels
               /\ e.kind = "Resized" /\ row \in RowType /\ row.status = "open"
               /\ After(e).status = "open"
               /\ After(e).amount = row.amount + e.deltas[1] + e.deltas[2]
               /\ rows' = [rows EXCEPT ![e.channel] = After(e)]
<1> DEFINE e == Head(queue[n])
           row == rows[e.channel]
           next == [row EXCEPT !.amount = @ + e.deltas[1] + e.deltas[2], !.version = @ + 1]
<1>1. /\ queue[n] # <<>> /\ e.kind = "Resized" /\ Take(n) /\ row.status # "none"
      /\ rows' = [rows EXCEPT ![e.channel] = [row EXCEPT !.amount = @ + e.deltas[1] + e.deltas[2],
                                                         !.version = @ + 1]]
  <2>1. rows \in [Channels -> RowType] /\ Head(queue[n]).channel \in Channels
    BY HeadFacts, Types DEF IInv, HandleResized, HeadIs
  <2> QED
    BY <2>1 DEF HandleResized, HeadIs, RowType
<1>2. /\ e \in EventType /\ e.channel \in Channels /\ row \in RowType
      /\ e.deltas[1] \in Int /\ e.deltas[2] \in Int
  BY <1>1, HeadFacts DEF IInv
<1>3. Leads(row, e)
  BY <1>1, HeadLeads
<1> HIDE DEF e, row
<1>4. /\ next.status = row.status /\ next.amount = row.amount + e.deltas[1] + e.deltas[2]
      /\ next.version = row.version + 1 /\ row.status = "open"
      /\ e.amount = next.amount /\ e.version = next.version
  BY <1>1, <1>2, <1>3 DEF Leads, RowType
<1>5. After(e) = next
  <2>1. next \in RowType
    <3>1. row.amount + e.deltas[1] + e.deltas[2] \in Int /\ row.version + 1 \in Nat
      BY <1>2 DEF RowType
    <3> QED
      BY <1>2, <3>1 DEF RowType
  <2> HIDE DEF next
  <2>2. next = [status |-> next.status, amount |-> next.amount, version |-> next.version]
    BY <2>1 DEF RowType
  <2> QED
    BY <1>1, <1>4, <2>2 DEF After, StatusAfter
<1>6. After(e).status = "open" /\ After(e).amount = row.amount + e.deltas[1] + e.deltas[2]
  BY <1>4, <1>5
<1> QED
  BY <1>1, <1>2, <1>4, <1>5, <1>6 DEF e, row

\* A channel whose event is ignored has no row.
LEMMA IgnoredReliably ==
    ASSUME IInv, Reliable, NEW n \in Chains, IgnoreCreated(n) \/ IgnoreUnknown(n)
    PROVE  /\ queue[n] # <<>> /\ Take(n)
           /\ rows[Head(queue[n]).channel].status = "none"
           /\ UNCHANGED <<contract, subscribed, listener, rows, ledger, pool>>
<1>1. CASE IgnoreCreated(n)
  <2>1. queue[n] # <<>> /\ Head(queue[n]).kind = "Created"
    BY <1>1 DEF IgnoreCreated, HeadIs
  <2>2. rows[Head(queue[n]).channel].status = "none"
    BY <2>1, HeadLeads DEF Leads
  <2> QED
    BY <1>1, <2>1, <2>2 DEF IgnoreCreated, chainVars
<1>2. CASE IgnoreUnknown(n)
  BY <1>2 DEF IgnoreUnknown, HeadIs, chainVars
<1> QED
  BY <1>1, <1>2

LEMMA HandleReliable == ASSUME IInv, Reliable, NEW n \in Chains, Handle(n) PROVE Reliable'
<1>1. UNCHANGED <<contract, subscribed>>
  BY DEF Handle, HandleCreated, IgnoreCreated, Join, HandleJoined, HandleClosed, HandleResized,
         RecordResize, IgnoreUnknown, chainVars
<1>2. CASE HandleCreated(n)
  BY <1>1, <1>2, CreatedReliably, TakeReliable
<1>3. CASE HandleJoined(n)
  BY <1>1, <1>3, JoinedReliably, TakeReliable
<1>4. CASE HandleClosed(n)
  BY <1>1, <1>4, ClosedReliably, TakeReliable
<1>5. CASE HandleResized(n)
  BY <1>1, <1>5, ResizedReliably, TakeReliable
<1>6. CASE IgnoreCreated(n) \/ IgnoreUnknown(n)
  BY <1>1, <1>6, IgnoredReliably, TakeReliable
<1>7. CASE Join(n) \/ RecordResize(n)
  BY <1>7 DEF Join, RecordResize, Reliable, chainVars
<1> QED
  BY <1>2, <1>3, <1>4, <1>5, <1>6, <1>7 DEF Handle

\* The contract takes a state of the version after its own.
LEMMA NextVersion ==
    ASSUME IInv, NEW s \in signed, Acceptable(s, contract[s.channel])
    PROVE  s.version = contract[s.channel].version + 1
<1>1. s.channel \in Channels /\ s.version \in Nat
  BY SignedType DEF IInv
<1>2. contract[s.channel].version \in Nat
  BY <1>1, Types DEF IInv, OnChain
<1> QED
  BY <1>1, <1>2 DEF Acceptable, IInv, SignedInv, ReadFits

LEMMA ContractsReliable ==
    ASSUME IInv, Reliable,
           \/ \E c \in Channels :
                 \/ \E amount \in Deposits : OnCreate(c, amount)
                 \/ MineJoin(c) \/ OtherJoins(c)
           \/ \E s \in signed : SubmitResize(s) \/ SubmitClose(s)
    PROVE  Reliable'
<1>0. contract \in [Channels -> OnChain] /\ <<0, 0>> \in Int \X Int
  BY Types DEF IInv
<1>1. ASSUME NEW c \in Channels, NEW amount \in Deposits, OnCreate(c, amount) PROVE Reliable'
  <2> DEFINE on == [status |-> "initial", amount |-> amount, version |-> 0]
             d == <<amount, 0>>
  <2>1. /\ on \in OnChain /\ d \in Int \X Int /\ d[1] = amount
        /\ on.status = "initial" /\ on.version = 0 /\ on.amount = amount
    BY AmountsAreNatural DEF OnChain
  <2>2. /\ contract' = [contract EXCEPT ![c] = on] /\ contract[c].status = "void"
        /\ contract'[c] = on
    BY <1>0, <1>1 DEF OnCreate
  <2>3. Emit("Created", c, d, on) /\ UNCHANGED <<subscribed, rows>>
    BY <1>1, <2>2 DEF OnCreate
  <2> HIDE DEF on, d
  <2>4. Moves("Created", contract[c], on, d) /\ on.version <= contract[c].version + 1
    BY <1>0, <2>1, <2>2 DEF Moves, OnChain
  <2> QED
    BY <2>1, <2>2, <2>3, <2>4, ContractReliable
<1>2. ASSUME NEW c \in Channels, MineJoin(c) \/ OtherJoins(c) PROVE Reliable'
  <2> DEFINE on == [contract[c] EXCEPT !.status = "active"]
  <2>1. /\ on \in OnChain /\ on.status = "active" /\ on.version = contract[c].version
        /\ on.amount = contract[c].amount /\ contract[c].version \in Nat
    BY <1>0 DEF OnChain
  <2>2. /\ contract' = [contract EXCEPT ![c] = on] /\ contract[c].status = "initial"
        /\ contract'[c] = on
    BY <1>0, <1>2 DEF MineJoin, OtherJoins, OnChain
  <2>3. Emit("Joined", c, <<0, 0>>, on) /\ UNCHANGED <<subscribed, rows>>
    BY <1>2, <2>2 DEF MineJoin, OtherJoins
  <2> HIDE DEF on
  <2>4. Moves("Joined", contract[c], on, <<0, 0>>) /\ on.version <= contract[c].version + 1
    BY <2>1, <2>2 DEF Moves
  <2> QED
    BY <1>0, <2>1, <2>2, <2>3, <2>4, ContractReliable
<1>3. ASSUME NEW s \in signed, SubmitResize(s) PROVE Reliable'
  <2> DEFINE c == s.channel
             d == Deltas(s)
             on == [contract[c] EXCEPT !.amount = s.amount, !.version = s.version]
  <2>1. /\ c \in Channels /\ s.version \in Nat /\ s.amount \in Int /\ d \in Int \X Int
        /\ contract[c] \in OnChain
    BY <1>0, SignedType DEF IInv
  <2>2. /\ contract' = [contract EXCEPT ![c] = on] /\ contract[c].status = "active"
        /\ s.version > contract[c].version /\ s.amount = contract[c].amount + d[1] + d[2]
        /\ Emit("Resized", c, d, on) /\ UNCHANGED <<subscribed, rows>>
    BY <1>3 DEF SubmitResize, Acceptable
  <2>3. s.version = contract[c].version + 1
    BY <1>3, NextVersion DEF SubmitResize
  <2> HIDE DEF c, d
  <2>4. on \in OnChain /\ on.status = "active" /\ on.version = s.version /\ on.amount = s.amount
    BY <2>1, <2>2 DEF OnChain
  <2> HIDE DEF on
  <2>5. Moves("Resized", contract[c], on, d) /\ on.version <= contract[c].version + 1
    BY <2>1, <2>2, <2>3, <2>4 DEF Moves, OnChain
  <2> QED
    BY <2>1, <2>2, <2>4, <2>5, ContractReliable
<1>4. ASSUME NEW s \in signed, SubmitClose(s) PROVE Reliable'
  <2> DEFINE c == s.channel
             on == [status |-> "final", amount |-> 0, version |-> s.version]
  <2>1. c \in Channels /\ s.version \in Nat /\ contract[c] \in OnChain
    BY <1>0, SignedType DEF IInv
  <2>2. /\ contract' = [contract EXCEPT ![c] = on] /\ contract[c].status = "active"
        /\ s.version > contract[c].version
        /\ Emit("Closed", c, <<0, 0>>, on) /\ UNCHANGED <<subscribed, rows>>
    BY <1>4 DEF SubmitClose, Acceptable
  <2>3. s.version = contract[c].version + 1
    BY <1>4, NextVersion DEF SubmitClose
  <2>4. on \in OnChain /\ on.status = "final" /\ on.version = s.version /\ on.amount = 0
    BY <2>1 DEF OnChain
  <2> HIDE DEF c, on
  <2>5. Moves("Closed", contract[c], on, <<0, 0>>) /\ on.version <= contract[c].version + 1
    BY <2>1, <2>2, <2>3, <2>4 DEF Moves, OnChain
  <2> QED
    BY <1>0, <2>1, <2>2, <2>4, <2>5, ContractReliable
<1> QED
  BY <1>1, <1>2, <1>3, <1>4

LEMMA NoFailures ==
    ASSUME MaxFaults = 0, IInv, Reliable
    PROVE  /\ ~Crash
           /\ \A n \in Chains : /\ ~HandlerFails(n) /\ ~SubscriptionLost(n)
                               /\ ~Abandon(n) /\ ~Subscribe(n)
<1>1. ~Fault
  BY DEF Fault, IInv, TypeOK
<1> QED
  BY <1>1 DEF HandlerFails, SubscriptionLost, Crash, Abandon, Subscribe, Reliable

\* Without failures nothing else touches the events, the contracts or the rows.
LEMMA ReliableHolds ==
    ASSUME MaxFaults = 0 PROVE IInv /\ Reliable /\ [Next]_vars => Reliable'
<1> SUFFICES ASSUME IInv, Reliable, [Next]_vars PROVE Reliable'
  OBVIOUS
<1>1. CASE UNCHANGED <<contract, subscribed, queue, rows>>
  BY <1>1 DEF Reliable
<1>2. ASSUME NEW w \in Workers,
             \/ \E c \in Channels :
                   (\E r \in Resizes : ReadChannel(w, c, r, FALSE)) \/ ReadChannel(w, c, <<0, 0>>, TRUE)
             \/ SignResize(w) \/ SignClose(w) \/ Refuse(w)
      PROVE  UNCHANGED <<contract, subscribed, queue, rows>>
  BY <1>2 DEF ReadChannel, SignResize, SignClose, Sign, Refuse, chainVars
<1>3. ASSUME NEW o \in Owners, NEW n \in Bets, LockFunds(o, n) \/ PayOut(o, n)
      PROVE  UNCHANGED <<contract, subscribed, queue, rows>>
  BY <1>3 DEF LockFunds, PayOut, chainVars
<1>4. CASE UNCHANGED vars
  BY <1>1, <1>4 DEF vars
<1> QED
  BY <1>1, <1>2, <1>3, <1>4, NoFailures, HandleReliable, ContractsReliable DEF Next

\* Without failures, a channel whose events are all handled is in the database
\* what it is on chain.
THEOREM RowsMirror == ASSUME MaxFaults = 0 PROVE Spec => []RowsMirrorContract
<1>1. IInv /\ Reliable => RowsMirrorContract
  <2> SUFFICES ASSUME IInv, Reliable, NEW c \in Channels, rows[c].status # "none",
                      \A i \in DOMAIN queue[Chain[c]] : queue[Chain[c]][i].channel # c
               PROVE  contract[c] = Mirror(rows[c])
    BY DEF RowsMirrorContract, Mirror
  <2>1. About(queue[Chain[c]], c) = {}
    <3>1. queue[Chain[c]] \in Seq(EventType)
      BY Types DEF IInv
    <3> QED
      BY <3>1 DEF About
  <2> QED
    BY <2>1 DEF Reliable, Trail
<1> QED
  BY <1>1, ReliableInit, ReliableHolds, InvariantHolds, PTL DEF Spec

-------------------------------------------------------------------------------
(***************************************************************************)
(* Without failures and allocations, what the unified balances and the app *)
(* sessions hold, and what the listeners are about to record, is what the  *)
(* open channels do.                                                       *)
(***************************************************************************)

\* Nothing that resizes a channel allocates funds to it.
Unallocated ==
    /\ \A n \in Chains : \A i \in 1..Len(queue[n]) : queue[n][i].deltas[2] = 0
    /\ \A s \in signed : s.intentions[2] = 0
    /\ \A w \in Workers : calls[w].resize[2] = 0

LEMMA UnallocatedInit == Init => Unallocated
BY DEF Init, Unallocated, NoCall

LEMMA EmitUnallocated ==
    ASSUME IInv, Unallocated,
           NEW kind \in {"Created", "Joined", "Resized", "Closed"},
           NEW c \in Channels, NEW d \in Int \X Int, d[2] = 0, NEW on \in OnChain,
           Emit(kind, c, d, on), signed' \subseteq signed, UNCHANGED calls
    PROVE  Unallocated'
<1> DEFINE e == [kind |-> kind, channel |-> c, deltas |-> d,
                 version |-> on.version, amount |-> on.amount]
<1>1. /\ e \in EventType /\ queue \in [Chains -> Seq(EventType)]
      /\ \A n \in Chains : n # Chain[c] => queue'[n] = queue[n]
      /\ queue'[Chain[c]] \in {queue[Chain[c]], Append(queue[Chain[c]], e)}
  BY Emitted, Types DEF IInv
<1>2. e.deltas[2] = 0
  OBVIOUS
<1> HIDE DEF e
<1>3. ASSUME NEW n \in Chains, NEW i \in 1..Len(queue'[n]) PROVE queue'[n][i].deltas[2] = 0
  <2> DEFINE q == queue[n]
  <2>1. q \in Seq(EventType) /\ queue'[n] \in {q, Append(q, e)}
    BY <1>1
  <2>2. \A k \in 1..Len(q) : q[k].deltas[2] = 0
    BY DEF Unallocated
  <2> HIDE DEF q
  <2>3. CASE queue'[n] = q
    BY <1>3, <2>2, <2>3
  <2>4. CASE queue'[n] = Append(q, e)
    <3>1. /\ Len(q) \in Nat /\ Len(Append(q, e)) = Len(q) + 1
          /\ Append(q, e)[Len(q) + 1] = e
          /\ \A k \in 1..Len(q) : Append(q, e)[k] = q[k]
      BY <1>1, <2>1, AppendProperties, LenProperties
    <3>2. i \in 1..Len(q) \/ i = Len(q) + 1
      BY <1>3, <2>4, <3>1
    <3> QED
      BY <1>2, <2>2, <2>4, <3>1, <3>2
  <2> QED
    BY <2>1, <2>3, <2>4
<1> QED
  BY <1>3 DEF Unallocated

LEMMA TakeUnallocated ==
    ASSUME IInv, Unallocated, NEW n \in Chains, queue[n] # <<>>, Take(n),
           UNCHANGED <<signed, calls>>
    PROVE  Unallocated'
<1>1. queue \in [Chains -> Seq(EventType)] /\ queue' = [queue EXCEPT ![n] = Tail(queue[n])]
  BY Types DEF IInv, Take
<1>2. ASSUME NEW m \in Chains, NEW i \in 1..Len(queue'[m]) PROVE queue'[m][i].deltas[2] = 0
  <2> DEFINE q == queue[m]
  <2>1. q \in Seq(EventType) /\ (queue'[m] = q \/ (m = n /\ queue'[m] = Tail(q)))
    BY <1>1
  <2>2. \A k \in 1..Len(q) : q[k].deltas[2] = 0
    BY DEF Unallocated
  <2>3. m = n => q # <<>>
    OBVIOUS
  <2> HIDE DEF q
  <2>4. CASE queue'[m] = q
    BY <1>2, <2>2, <2>4
  <2>5. CASE m = n /\ queue'[m] = Tail(q)
    <3>1. Len(q) \in Nat /\ Len(Tail(q)) = Len(q) - 1 /\ \A k \in 1..Len(Tail(q)) : Tail(q)[k] = q[k + 1]
      BY <2>1, <2>3, <2>5, HeadTailProperties, LenProperties
    <3>2. i + 1 \in 1..Len(q)
      BY <1>2, <2>5, <3>1
    <3> QED
      BY <1>2, <2>2, <2>5, <3>1, <3>2
  <2> QED
    BY <2>1, <2>4, <2>5
<1> QED
  BY <1>2 DEF Unallocated

LEMMA UnallocatedHolds ==
    ASSUME MaxFaults = 0, \A r \in Resizes : r[2] = 0
    PROVE  IInv /\ Reliable /\ Unallocated /\ [Next]_vars => Unallocated'
<1> SUFFICES ASSUME IInv, Reliable, Unallocated, [Next]_vars PROVE Unallocated'
  OBVIOUS
<1>0. contract \in [Channels -> OnChain] /\ calls \in [Workers -> CallType]
  BY Types, RequestTypes DEF IInv
<1>1. ASSUME NEW c \in Channels, NEW amount \in Deposits, OnCreate(c, amount) PROVE Unallocated'
  <2> DEFINE on == [status |-> "initial", amount |-> amount, version |-> 0]
  <2>1. on \in OnChain /\ <<amount, 0>> \in Int \X Int /\ <<amount, 0>>[2] = 0
    BY AmountsAreNatural DEF OnChain
  <2>2. Emit("Created", c, <<amount, 0>>, on)
    BY <1>0, <1>1 DEF OnCreate
  <2> HIDE DEF on
  <2> QED
    BY <1>1, <2>1, <2>2, EmitUnallocated DEF OnCreate
<1>2. ASSUME NEW c \in Channels, MineJoin(c) \/ OtherJoins(c) PROVE Unallocated'
  <2>1. contract'[c] \in OnChain /\ Emit("Joined", c, <<0, 0>>, contract'[c])
    BY <1>0, <1>2 DEF MineJoin, OtherJoins, OnChain
  <2> QED
    BY <1>2, <2>1, EmitUnallocated DEF MineJoin, OtherJoins
<1>3. ASSUME NEW s \in signed, SubmitResize(s) PROVE Unallocated'
  <2> DEFINE c == s.channel
             d == Deltas(s)
             on == [contract[c] EXCEPT !.amount = s.amount, !.version = s.version]
  <2>1. c \in Channels /\ d \in Int \X Int /\ on \in OnChain
    BY <1>0, SignedType DEF IInv, OnChain
  <2>2. d[2] = 0
    BY DEF Unallocated, Deltas
  <2>3. Emit("Resized", c, d, on) /\ signed' \subseteq signed /\ UNCHANGED calls
    BY <1>3 DEF SubmitResize, StillAcceptable
  <2> HIDE DEF c, d, on
  <2> QED
    BY <2>1, <2>2, <2>3, EmitUnallocated
<1>4. ASSUME NEW s \in signed, SubmitClose(s) PROVE Unallocated'
  <2> DEFINE c == s.channel
             on == [status |-> "final", amount |-> 0, version |-> s.version]
  <2>1. c \in Channels /\ on \in OnChain /\ <<0, 0>> \in Int \X Int /\ <<0, 0>>[2] = 0
    BY SignedType DEF IInv, OnChain
  <2>2. Emit("Closed", c, <<0, 0>>, on) /\ signed' \subseteq signed /\ UNCHANGED calls
    BY <1>4 DEF SubmitClose, StillAcceptable
  <2> HIDE DEF c, on
  <2> QED
    BY <2>1, <2>2, EmitUnallocated
<1>5. ASSUME NEW n \in Chains, Handle(n) PROVE Unallocated'
  <2>1. UNCHANGED <<signed, calls>>
    BY <1>5 DEF Handle, HandleCreated, IgnoreCreated, Join, HandleJoined, HandleClosed,
                HandleResized, RecordResize, IgnoreUnknown
  <2>2. UNCHANGED queue \/ (queue[n] # <<>> /\ Take(n))
    BY <1>5 DEF Handle, HandleCreated, IgnoreCreated, Join, HandleJoined, HandleClosed,
                HandleResized, RecordResize, IgnoreUnknown, HeadIs
  <2>3. CASE UNCHANGED queue
    BY <2>1, <2>3 DEF Unallocated
  <2> QED
    BY <2>1, <2>2, <2>3, TakeUnallocated
<1>6. ASSUME NEW w \in Workers, NEW c \in Channels, NEW r \in Resizes \cup {<<0, 0>>}, NEW close,
             ReadChannel(w, c, r, close)
      PROVE  Unallocated'
  <2>1. r[2] = 0 /\ UNCHANGED <<queue, signed>>
    BY <1>6 DEF ReadChannel
  <2>2. \A v \in Workers : calls'[v].resize = IF v = w THEN r ELSE calls[v].resize
    BY <1>0, <1>6 DEF ReadChannel
  <2> QED
    BY <2>1, <2>2 DEF Unallocated
<1>7. ASSUME NEW w \in Workers, SignResize(w) \/ SignClose(w) \/ Refuse(w) PROVE Unallocated'
  <2>1. UNCHANGED queue /\ calls' = [calls EXCEPT ![w] = NoCall]
    BY <1>7 DEF SignResize, SignClose, Sign, Refuse
  <2>2. \A v \in Workers : calls'[v] \in {NoCall, calls[v]}
    BY <1>0, <2>1
  <2>3. \A s \in signed' : s.intentions[2] = 0
    <3>1. ResizeState(calls[w]).intentions[2] = 0
      BY DEF Unallocated, ResizeState
    <3>2. CloseState(calls[w], ledger[Owner[calls[w].channel]]).intentions[2] = 0
      BY DEF CloseState
    <3>3. signed' \subseteq signed \cup {ResizeState(calls[w]),
                                         CloseState(calls[w], ledger[Owner[calls[w].channel]])}
      BY <1>7 DEF SignResize, SignClose, Sign, Refuse
    <3> QED
      BY <3>1, <3>2, <3>3 DEF Unallocated
  <2> QED
    BY <2>1, <2>2, <2>3 DEF Unallocated, NoCall
<1>8. ASSUME NEW o \in Owners, NEW n \in Bets, LockFunds(o, n) \/ PayOut(o, n) PROVE Unallocated'
  BY <1>8 DEF LockFunds, PayOut, Unallocated
<1>9. CASE UNCHANGED vars
  BY <1>9 DEF vars, Unallocated
<1> QED
  BY <1>1, <1>2, <1>3, <1>4, <1>5, <1>6, <1>7, <1>8, <1>9, NoFailures DEF Next

\* What a listener is about to record, and what an open channel holds.
DueOf(l) == IF l.pc = "record" THEN l.credit ELSE 0
FundsOf(row) == IF row.status = "open" THEN row.amount ELSE 0

Due == [n \in Chains |-> DueOf(listener[n])]
Funds == [c \in Channels |-> FundsOf(rows[c])]

Balances == SumFunctionOnSet(ledger, Owners)
Recording == SumFunctionOnSet(Due, Chains)
Held == SumFunctionOnSet(Funds, Channels)

Balanced == Balances + pool + Recording = Held

LEMMA SumTypes == ASSUME TypeOK PROVE Balances \in Int /\ Recording \in Int /\ Held \in Int /\ pool \in Int
<1>1. \A o \in Owners : ledger[o] \in Int
  BY RestTypes
<1>2. \A n \in Chains : Due[n] \in Int
  BY RestTypes DEF ListenerType, Due, DueOf
<1>3. \A c \in Channels : Funds[c] \in Int
  BY Types DEF RowType, Funds, FundsOf
<1>4. pool \in Int
  BY RestTypes
<1> HIDE DEF Due, Funds
<1> QED
  BY <1>1, <1>2, <1>3, <1>4, FinitelyMany, SumInt DEF Balances, Recording, Held

LEMMA BalancesMove ==
    ASSUME TypeOK, NEW o \in Owners, NEW x \in Int,
           ledger' = [ledger EXCEPT ![o] = @ + x] \/ ledger' = [ledger EXCEPT ![o] = @ - (-x)]
    PROVE  Balances' = Balances + x
<1>1. ledger \in [Owners -> Int]
  BY RestTypes
<1>2. \A p \in Owners : /\ ledger[p] \in Int /\ ledger'[p] \in Int
                        /\ ledger'[p] = IF p = o THEN ledger[p] + x ELSE ledger[p]
  BY <1>1
<1>3. SumFunctionOnSet(ledger', Owners) = SumFunctionOnSet(ledger, Owners) + (ledger'[o] - ledger[o])
  BY <1>2, FinitelyMany, SumChange
<1>4. ledger'[o] - ledger[o] = x
  BY <1>2
<1> QED
  BY <1>3, <1>4 DEF Balances

LEMMA RecordingMoves ==
    ASSUME TypeOK, NEW n \in Chains, NEW l \in ListenerType,
           listener' = [listener EXCEPT ![n] = l]
    PROVE  Recording' = Recording + (DueOf(l) - DueOf(listener[n]))
<1>1. listener \in [Chains -> ListenerType]
  BY RestTypes
<1>2. \A m \in Chains : /\ Due[m] \in Int /\ Due'[m] \in Int
                        /\ m # n => Due'[m] = Due[m]
  BY <1>1 DEF Due, DueOf, ListenerType
<1>3. Due'[n] = DueOf(l) /\ Due[n] = DueOf(listener[n])
  BY <1>1 DEF Due
<1> HIDE DEF Due
<1>4. SumFunctionOnSet(Due', Chains) = SumFunctionOnSet(Due, Chains) + (Due'[n] - Due[n])
  BY <1>2, FinitelyMany, SumChange
<1> QED
  BY <1>3, <1>4 DEF Recording

LEMMA HeldMoves ==
    ASSUME TypeOK, NEW c \in Channels, NEW row \in RowType, rows' = [rows EXCEPT ![c] = row]
    PROVE  Held' = Held + (FundsOf(row) - FundsOf(rows[c]))
<1>1. rows \in [Channels -> RowType]
  BY Types
<1>2. \A k \in Channels : /\ Funds[k] \in Int /\ Funds'[k] \in Int
                          /\ k # c => Funds'[k] = Funds[k]
  BY <1>1 DEF Funds, FundsOf, RowType
<1>3. Funds'[c] = FundsOf(row) /\ Funds[c] = FundsOf(rows[c])
  BY <1>1 DEF Funds
<1> HIDE DEF Funds
<1>4. SumFunctionOnSet(Funds', Channels) = SumFunctionOnSet(Funds, Channels) + (Funds'[c] - Funds[c])
  BY <1>2, FinitelyMany, SumChange
<1> QED
  BY <1>3, <1>4 DEF Held

LEMMA BalancedInit == Init => Balanced
<1> SUFFICES ASSUME Init PROVE Balanced
  OBVIOUS
<1>1. /\ \A o \in Owners : ledger[o] = 0
      /\ \A n \in Chains : Due[n] = 0
      /\ \A c \in Channels : Funds[c] = 0
  BY DEF Init, Selecting, Due, DueOf, Funds, FundsOf
<1> HIDE DEF Due, Funds
<1>2. Balances = 0 /\ Recording = 0 /\ Held = 0
  BY <1>1, FinitelyMany, SumZero DEF Balances, Recording, Held
<1> QED
  BY <1>2 DEF Init, Balanced

LEMMA HandleBalanced ==
    ASSUME IInv, Reliable, Unallocated, Balanced, NEW n \in Chains, Handle(n)
    PROVE  Balanced'
<1> DEFINE e == Head(queue[n])
           c == e.channel
<1>0. /\ TypeOK /\ listener \in [Chains -> ListenerType]
      /\ Balances \in Int /\ Recording \in Int /\ Held \in Int /\ pool \in Int
      /\ \A k \in Channels : Owner[k] \in Owners
  BY RestTypes, SumTypes, AccountTypes DEF IInv
<1>1. UNCHANGED pool
  BY DEF Handle, HandleCreated, IgnoreCreated, Join, HandleJoined, HandleClosed, HandleResized,
         RecordResize, IgnoreUnknown
<1>2. CASE UNCHANGED <<ledger, listener, rows>>
  BY <1>1, <1>2 DEF Balanced, Balances, Recording, Due, Held, Funds
<1>3. CASE HandleCreated(n)
  <2> DEFINE l == [pc |-> "join", channel |-> c, credit |-> 0]
  <2>1. /\ e \in EventType /\ c \in Channels /\ rows[c].status = "none"
        /\ After(e).status = "joining" /\ rows' = [rows EXCEPT ![c] = After(e)]
    BY <1>3, CreatedReliably
  <2>2. /\ listener[n].pc = "select" /\ listener' = [listener EXCEPT ![n] = l]
        /\ UNCHANGED ledger
    BY <1>3 DEF HandleCreated, HeadIs, Busy
  <2>3. l \in ListenerType /\ DueOf(l) = 0 /\ DueOf(listener[n]) = 0
    BY <2>1, <2>2 DEF ListenerType, DueOf
  <2>4. After(e) \in RowType /\ FundsOf(After(e)) = 0 /\ FundsOf(rows[c]) = 0
    BY <2>1, AfterType DEF FundsOf
  <2> HIDE DEF e, c, l
  <2>5. Recording' = Recording + (0 - 0)
    BY <1>0, <2>2, <2>3, RecordingMoves
  <2>6. Held' = Held + (0 - 0)
    BY <1>0, <2>1, <2>4, HeldMoves
  <2>7. Balances' = Balances
    BY <2>2 DEF Balances
  <2> QED
    BY <1>0, <1>1, <2>5, <2>6, <2>7 DEF Balanced
<1>4. CASE HandleJoined(n)
  <2>1. /\ e \in EventType /\ c \in Channels /\ rows[c] \in RowType /\ rows[c].status = "joining"
        /\ After(e).status = "open" /\ After(e).amount = rows[c].amount
        /\ rows' = [rows EXCEPT ![c] = After(e)]
        /\ ledger' = [ledger EXCEPT ![Owner[c]] = @ + rows[c].amount]
    BY <1>4, JoinedReliably
  <2>2. UNCHANGED listener
    BY <1>4 DEF HandleJoined
  <2>3. /\ After(e) \in RowType /\ FundsOf(After(e)) = rows[c].amount /\ FundsOf(rows[c]) = 0
        /\ rows[c].amount \in Int
    BY <2>1, AfterType DEF FundsOf, RowType
  <2> HIDE DEF e, c
  <2>4. Balances' = Balances + rows[c].amount
    BY <1>0, <2>1, <2>3, BalancesMove
  <2>5. Held' = Held + (rows[c].amount - 0)
    BY <1>0, <2>1, <2>3, HeldMoves
  <2>6. Recording' = Recording
    BY <2>2 DEF Recording, Due
  <2> QED
    BY <1>0, <1>1, <2>3, <2>4, <2>5, <2>6 DEF Balanced
<1>5. CASE HandleClosed(n)
  <2>1. /\ e \in EventType /\ c \in Channels /\ rows[c] \in RowType /\ rows[c].status = "open"
        /\ After(e).status = "closed"
        /\ rows' = [rows EXCEPT ![c] = After(e)]
        /\ ledger' = [ledger EXCEPT ![Owner[c]] = @ - rows[c].amount]
    BY <1>5, ClosedReliably
  <2>2. UNCHANGED listener
    BY <1>5 DEF HandleClosed
  <2>3. /\ After(e) \in RowType /\ FundsOf(After(e)) = 0 /\ FundsOf(rows[c]) = rows[c].amount
        /\ rows[c].amount \in Int
    BY <2>1, AfterType DEF FundsOf, RowType
  <2> HIDE DEF e, c
  <2>4. Balances' = Balances + (-rows[c].amount)
    <3>1. -rows[c].amount \in Int /\ -(-rows[c].amount) = rows[c].amount
      BY <2>3
    <3> QED
      BY <1>0, <2>1, <3>1, BalancesMove
  <2>5. Held' = Held + (0 - rows[c].amount)
    BY <1>0, <2>1, <2>3, HeldMoves
  <2>6. Recording' = Recording
    BY <2>2 DEF Recording, Due
  <2> QED
    BY <1>0, <1>1, <2>3, <2>4, <2>5, <2>6 DEF Balanced
<1>6. CASE HandleResized(n)
  <2> DEFINE l == [pc |-> "record", channel |-> c, credit |-> e.deltas[1]]
  <2>1. /\ e \in EventType /\ c \in Channels /\ rows[c] \in RowType /\ rows[c].status = "open"
        /\ queue[n] # <<>>
        /\ After(e).status = "open"
        /\ After(e).amount = rows[c].amount + e.deltas[1] + e.deltas[2]
        /\ rows' = [rows EXCEPT ![c] = After(e)]
    BY <1>6, ResizedReliably
  <2>2. /\ listener[n].pc = "select" /\ listener' = [listener EXCEPT ![n] = l]
        /\ UNCHANGED ledger
    BY <1>6 DEF HandleResized, HeadIs, Busy
  <2>3. e.deltas[2] = 0 /\ e.deltas[1] \in Int
    <3>1. queue[n] \in Seq(EventType)
      BY Types DEF IInv
    <3>2. e = queue[n][1] /\ 1 \in 1..Len(queue[n])
      BY <2>1, <3>1
    <3> QED
      BY <2>1, <3>2 DEF Unallocated, EventType
  <2>4. l \in ListenerType /\ DueOf(l) = e.deltas[1] /\ DueOf(listener[n]) = 0
    BY <2>1, <2>2, <2>3 DEF ListenerType, DueOf
  <2>5. /\ After(e) \in RowType /\ FundsOf(After(e)) = rows[c].amount + e.deltas[1]
        /\ FundsOf(rows[c]) = rows[c].amount /\ rows[c].amount \in Int
    BY <2>1, <2>3, AfterType DEF FundsOf, RowType
  <2> HIDE DEF e, c, l
  <2>6. Recording' = Recording + (e.deltas[1] - 0)
    BY <1>0, <2>2, <2>4, RecordingMoves
  <2>7. Held' = Held + ((rows[c].amount + e.deltas[1]) - rows[c].amount)
    BY <1>0, <2>1, <2>5, HeldMoves
  <2>8. Balances' = Balances
    BY <2>2 DEF Balances
  <2> QED
    BY <1>0, <1>1, <2>3, <2>5, <2>6, <2>7, <2>8 DEF Balanced
<1>7. CASE RecordResize(n)
  <2> DEFINE o == Owner[listener[n].channel]
             x == listener[n].credit
  <2>1. /\ listener[n].pc = "record" /\ listener' = [listener EXCEPT ![n] = Selecting]
        /\ ledger' = [ledger EXCEPT ![o] = @ + x] /\ UNCHANGED rows
    BY <1>7 DEF RecordResize, Idle
  <2>2. o \in Owners /\ x \in Int /\ Selecting \in ListenerType
    BY <1>0, <2>1 DEF IInv, ListenerInv, ListenerType, Selecting
  <2>3. DueOf(Selecting) = 0 /\ DueOf(listener[n]) = x
    BY <2>1 DEF DueOf, Selecting
  <2> HIDE DEF o, x
  <2>4. Recording' = Recording + (0 - x)
    BY <1>0, <2>1, <2>2, <2>3, RecordingMoves
  <2>5. Balances' = Balances + x
    BY <1>0, <2>1, <2>2, BalancesMove
  <2>6. Held' = Held
    BY <2>1 DEF Held, Funds
  <2> QED
    BY <1>0, <1>1, <2>2, <2>4, <2>5, <2>6 DEF Balanced
<1>8. CASE Join(n)
  <2>1. /\ listener[n].pc = "join" /\ listener' = [listener EXCEPT ![n] = Selecting]
        /\ UNCHANGED <<ledger, rows>>
    BY <1>8 DEF Join, Idle
  <2>2. Selecting \in ListenerType /\ DueOf(Selecting) = 0 /\ DueOf(listener[n]) = 0
    BY <2>1 DEF DueOf, Selecting, ListenerType
  <2>3. Recording' = Recording + (0 - 0)
    BY <1>0, <2>1, <2>2, RecordingMoves
  <2>4. Balances' = Balances /\ Held' = Held
    BY <2>1 DEF Balances, Held, Funds
  <2> QED
    BY <1>0, <1>1, <2>3, <2>4 DEF Balanced
<1>9. CASE IgnoreCreated(n) \/ IgnoreUnknown(n)
  BY <1>2, <1>9, IgnoredReliably
<1> QED
  BY <1>3, <1>4, <1>5, <1>6, <1>7, <1>8, <1>9 DEF Handle

LEMMA BalancedHolds ==
    ASSUME MaxFaults = 0
    PROVE  IInv /\ Reliable /\ Unallocated /\ Balanced /\ [Next]_vars => Balanced'
<1> SUFFICES ASSUME IInv, Reliable, Unallocated, Balanced, [Next]_vars PROVE Balanced'
  OBVIOUS
<1>1. CASE UNCHANGED <<ledger, pool, listener, rows>>
  BY <1>1 DEF Balanced, Balances, Recording, Due, Held, Funds
<1>2. ASSUME \/ \E c \in Channels :
                   \/ \E amount \in Deposits : OnCreate(c, amount)
                   \/ MineJoin(c) \/ OtherJoins(c)
             \/ \E s \in signed : SubmitResize(s) \/ SubmitClose(s)
      PROVE  UNCHANGED <<ledger, pool, listener, rows>>
  BY <1>2 DEF OnCreate, MineJoin, OtherJoins, SubmitResize, SubmitClose
<1>3. ASSUME NEW w \in Workers,
             \/ \E c \in Channels :
                   (\E r \in Resizes : ReadChannel(w, c, r, FALSE)) \/ ReadChannel(w, c, <<0, 0>>, TRUE)
             \/ SignResize(w) \/ SignClose(w) \/ Refuse(w)
      PROVE  UNCHANGED <<ledger, pool, listener, rows>>
  BY <1>3 DEF ReadChannel, SignResize, SignClose, Sign, Refuse
<1>4. ASSUME NEW o \in Owners, NEW n \in Bets, LockFunds(o, n) \/ PayOut(o, n) PROVE Balanced'
  <2>1. /\ n \in Int /\ Balances \in Int /\ Recording \in Int /\ Held \in Int /\ pool \in Int
        /\ TypeOK
    BY AmountsAreNatural, SumTypes DEF IInv
  <2>2. UNCHANGED <<listener, rows>>
    BY <1>4 DEF LockFunds, PayOut
  <2>3. Recording' = Recording /\ Held' = Held
    BY <2>2 DEF Recording, Due, Held, Funds
  <2>4. CASE LockFunds(o, n)
    <3>1. -n \in Int /\ -(-n) = n /\ pool' = pool + n /\ ledger' = [ledger EXCEPT ![o] = @ - n]
      BY <2>1, <2>4 DEF LockFunds
    <3>2. Balances' = Balances + (-n)
      BY <2>1, <3>1, BalancesMove
    <3> QED
      BY <2>1, <2>3, <3>1, <3>2 DEF Balanced
  <2>5. CASE PayOut(o, n)
    <3>1. Balances' = Balances + n /\ pool' = pool - n
      BY <2>1, <2>5, BalancesMove DEF PayOut
    <3> QED
      BY <2>1, <2>3, <3>1 DEF Balanced
  <2> QED
    BY <1>4, <2>4, <2>5
<1>5. CASE UNCHANGED vars
  BY <1>1, <1>5 DEF vars
<1> QED
  BY <1>1, <1>2, <1>3, <1>4, <1>5, NoFailures, HandleBalanced DEF Next

\* Without failures and allocations, unified balances and app sessions together hold
\* exactly what the open channels do, whenever no listener is between a row and its
\* ledger entry.
THEOREM LedgerIsBacked ==
    ASSUME MaxFaults = 0, \A r \in Resizes : r[2] = 0
    PROVE  Spec => []LedgerBacked
<1>1. IInv /\ Balanced => LedgerBacked
  <2> SUFFICES ASSUME IInv, Balanced, \A n \in Chains : listener[n].pc # "record"
               PROVE  Balances + pool
                        = SumFunctionOnSet([c \in Channels |-> rows[c].amount],
                                           {c \in Channels : rows[c].status = "open"})
    BY DEF LedgerBacked, Balances
  <2>1. Recording = 0
    <3>1. \A n \in Chains : Due[n] = 0
      BY DEF Due, DueOf
    <3> HIDE DEF Due
    <3> QED
      BY <3>1, FinitelyMany, SumZero DEF Recording
  <2> DEFINE f == [c \in Channels |-> rows[c].amount]
             Open == {c \in Channels : rows[c].status = "open"}
  <2>2. SumFunctionOnSet(f, Open) = Held
    <3>1. Open \subseteq Channels /\ \A c \in Channels : f[c] \in Int
      BY Types DEF IInv, RowType
    <3>2. \A c \in Channels : Funds[c] = IF c \in Open THEN f[c] ELSE 0
      BY DEF Funds, FundsOf
    <3> HIDE DEF f, Open, Funds
    <3> QED
      BY <3>1, <3>2, FinitelyMany, SumOver DEF Held
  <2>3. Balances \in Int /\ pool \in Int
    BY SumTypes DEF IInv
  <2> QED
    BY <2>1, <2>2, <2>3 DEF Balanced
<1> QED
  BY <1>1, ReliableInit, ReliableHolds, UnallocatedInit, UnallocatedHolds, BalancedInit,
     BalancedHolds, InvariantHolds, PTL DEF Spec
===============================================================================
