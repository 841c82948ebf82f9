--------------------------- MODULE EthListenerProofs ---------------------------
(***************************************************************************)
(* Proofs about EthListener, for every capacity, limit and number of logs: *)
(* its types, that logs are handled in the order they were written, that   *)
(* it implements EventFeed, and how long it waits before it gives up.      *)
(* And about ListenedCustody, for every set of channels, amounts and       *)
(* requests as well: handlers that run on it do what Custody says.         *)
(***************************************************************************)
EXTENDS ListenedCustody, Sums, FiniteSetTheorems, SequenceTheorems, TLAPS

-------------------------------------------------------------------------------
\* The latest of a chain's logs: fewest of the others are later.

LEMMA LatestExists ==
    ASSUME NEW n \in Nat, NEW S, S \subseteq 1..n, S # {}
    PROVE  Max(S) \in S /\ \A x \in S : Max(S) >= x
<1> DEFINE Later(k) == {x \in S : x > k}
           T == {Later(k) : k \in S}
<1>1. IsFiniteSet(S) /\ \A k \in S : IsFiniteSet(Later(k))
  <2>1. IsFiniteSet(1..n)
    BY FS_Interval
  <2>2. IsFiniteSet(S)
    BY <2>1, FS_Subset
  <2>3. \A k \in S : Later(k) \subseteq S
    OBVIOUS
  <2> QED
    BY <2>2, <2>3, FS_Subset
<1>2. T \subseteq FiniteSubsetsOf(S) /\ T # {}
  BY <1>1 DEF FiniteSubsetsOf
<1>3. PICK U \in T : \A V \in T : ~(<<V, U>> \in StrictSubsetOrdering(S))
  BY <1>2, FS_StrictSubsetOrderingWellFounded, WFMin
<1>4. PICK m \in S : U = Later(m)
  OBVIOUS
<1>5. \A x \in S : m >= x
  <2> SUFFICES ASSUME NEW x \in S, ~(m >= x) PROVE FALSE
    OBVIOUS
  <2>1. x \in Int /\ m \in Int /\ \A y \in S : y \in Int
    OBVIOUS
  <2>2. x \in Later(m) /\ x \notin Later(x)
    BY <2>1
  <2>3. Later(x) \subseteq Later(m)
    <3> SUFFICES ASSUME NEW y \in S, y > x PROVE y > m
      OBVIOUS
    <3> QED
      BY <2>1
  <2>4. <<Later(x), U>> \in StrictSubsetOrdering(S)
    <3>1. U \subseteq S /\ Later(x) \subseteq S /\ Later(x) \subseteq U /\ Later(x) # U
      BY <1>4, <2>2, <2>3
    <3> HIDE DEF Later
    <3> QED
      BY <3>1 DEF StrictSubsetOrdering
  <2> QED
    BY <1>3, <2>4
<1>6. \E x \in S : \A y \in S : x >= y
  BY <1>5
<1> QED
  BY <1>6 DEF Max

-------------------------------------------------------------------------------
\* Messages in sequence, as to the logs they report.

\* The logs that a sequence reports as written.
Logs(s) == {s[i].log : i \in {k \in DOMAIN s : ~s[k].removed}}

Ordered(s) ==
    \A i, j \in DOMAIN s :
        i < j /\ ~s[i].removed /\ ~s[j].removed => s[i].log < s[j].log

\* Every log of S is older than every log of T.
Older(S, T) == \A a \in S, b \in T : a < b

LEMMA LogsOfAppend ==
    ASSUME NEW s \in Seq(Messages), NEW m \in Messages
    PROVE  /\ m.removed => Logs(Append(s, m)) \subseteq Logs(s)
           /\ Logs(Append(s, m)) \subseteq Logs(s) \cup {m.log}
<1>1. /\ DOMAIN Append(s, m) = (DOMAIN s) \cup {Len(s) + 1}
      /\ \A i \in DOMAIN s : Append(s, m)[i] = s[i]
      /\ Append(s, m)[Len(s) + 1] = m
  BY AppendProperties, LenProperties
<1> QED
  BY <1>1 DEF Logs

LEMMA LogsOfTail ==
    ASSUME NEW s \in Seq(Messages), s # <<>>
    PROVE  /\ Logs(Tail(s)) \subseteq Logs(s)
           /\ ~Head(s).removed => Head(s).log \in Logs(s)
<1>1. \A i \in DOMAIN Tail(s) : i + 1 \in DOMAIN s /\ Tail(s)[i] = s[i + 1]
  BY HeadTailProperties, LenProperties
<1>2. Head(s) = s[1] /\ 1 \in DOMAIN s
  OBVIOUS
<1> QED
  BY <1>1, <1>2 DEF Logs

LEMMA OrderedAppend ==
    ASSUME NEW s \in Seq(Messages), NEW m \in Messages, Ordered(s),
           m.removed \/ Older(Logs(s), {m.log})
    PROVE  Ordered(Append(s, m))
<1> DEFINE t == Append(s, m)
<1>1. /\ DOMAIN t = (DOMAIN s) \cup {Len(s) + 1} /\ DOMAIN s = 1..Len(s) /\ Len(s) \in Nat
      /\ \A i \in DOMAIN s : t[i] = s[i]
      /\ t[Len(s) + 1] = m
  BY AppendProperties, LenProperties
<1> HIDE DEF t
<1>2. \A i, j \in DOMAIN t : i < j => i \in DOMAIN s /\ (j \in DOMAIN s \/ j = Len(s) + 1)
  BY <1>1
<1>3. \A i \in DOMAIN s : ~s[i].removed /\ ~m.removed => s[i].log < m.log
  BY DEF Older, Logs
<1>4. Ordered(t)
  BY <1>1, <1>2, <1>3 DEF Ordered
<1> QED
  BY <1>4 DEF t

LEMMA OrderedTail ==
    ASSUME NEW s \in Seq(Messages), s # <<>>, Ordered(s)
    PROVE  /\ Ordered(Tail(s))
           /\ ~Head(s).removed => Older({Head(s).log}, Logs(Tail(s)))
<1> DEFINE t == Tail(s)
<1>1. \A i \in DOMAIN t : i \in Nat \ {0} /\ i + 1 \in DOMAIN s /\ t[i] = s[i + 1]
  BY HeadTailProperties, LenProperties
<1>2. Head(s) = s[1] /\ 1 \in DOMAIN s
  OBVIOUS
<1> HIDE DEF t
<1>3. Ordered(t)
  BY <1>1 DEF Ordered
<1>4. \A i \in DOMAIN t : 1 < i + 1
  BY <1>1
<1>5. \A i \in DOMAIN t : ~s[1].removed /\ ~t[i].removed => s[1].log < t[i].log
  BY <1>1, <1>2, <1>4 DEF Ordered
<1>6. ~s[1].removed => Older({s[1].log}, Logs(t))
  BY <1>5 DEF Older, Logs
<1> QED
  BY <1>2, <1>3, <1>6 DEF t

-------------------------------------------------------------------------------
\* The inductive invariant: types, what the goroutine's place says of the
\* subscription, and the order of what was handled and what waits.

Control ==
    /\ pc \in {"wait", "subscribe", "exited"} => subscription = "none"
    /\ pc = "subscribe" => backOffCount <= MaxBackOff
    /\ subscription # "live" => feed = <<>>

Order ==
    /\ Ordered(handled) /\ Ordered(channel) /\ Ordered(feed)
    /\ Older(Logs(handled), Logs(channel))
    /\ Older(Logs(handled), Logs(feed))
    /\ Older(Logs(channel), Logs(feed))
    /\ Logs(handled) \cup Logs(channel) \cup Logs(feed) \subseteq 1..written

IInv == TypeOK /\ Control /\ Order

LEMMA NoLogs == Logs(<<>>) = {} /\ Ordered(<<>>)
BY DEF Logs, Ordered

LEMMA InitHolds == Init => IInv
<1> SUFFICES ASSUME Init PROVE IInv
  OBVIOUS
<1>1. TypeOK
  BY SizesType DEF Init, TypeOK
<1>2. Control
  BY DEF Init, Control
<1>3. Order
  BY NoLogs DEF Init, Order, Older
<1> QED
  BY <1>1, <1>2, <1>3 DEF IInv

LEMMA DelayType == ASSUME NEW n \in Nat PROVE Delay(n) \in Nat
<1>1. XorTwo(n) \in Int
  BY DEF XorTwo
<1> QED
  BY <1>1 DEF Delay

\* What the library does with a message that is a new log, or a withdrawal.
LEMMA DeliverKeeps ==
    ASSUME IInv, NEW m \in Messages, Deliver(m),
           UNCHANGED goroutine,
           written' \in Nat, written' >= written,
           m.removed \/ (m.log = written' /\ written' > written)
    PROVE  /\ feed' \in Seq(Messages) /\ subscription' \in {"none", "live", "failed"}
           /\ Control' /\ Order'
<1> USE DEF IInv, library, goroutine
<1>0. written \in Nat /\ feed \in Seq(Messages) /\ 1..written \subseteq 1..(written')
  BY DEF TypeOK
<1>1. CASE UNCHANGED library
  BY <1>0, <1>1 DEF TypeOK, Control, Order
<1>2. CASE feed' = Append(feed, m) /\ subscription = "live" /\ UNCHANGED subscription
  <2>1. Control'
    BY <1>2 DEF Control
  <2>2. Logs(feed') \subseteq Logs(feed) \cup {m.log} /\ (m.removed => Logs(feed') \subseteq Logs(feed))
    BY <1>0, <1>2, LogsOfAppend
  <2>3. ~m.removed => /\ Older(Logs(handled), {m.log}) /\ Older(Logs(channel), {m.log})
                      /\ Older(Logs(feed), {m.log}) /\ m.log \in 1..(written')
    BY <1>0 DEF Order, Older
  <2>4. Ordered(feed')
    BY <1>0, <1>2, <2>3, OrderedAppend DEF Order
  <2>5. Older(Logs(handled), Logs(feed')) /\ Older(Logs(channel), Logs(feed'))
    BY <2>2, <2>3 DEF Order, Older
  <2>6. Logs(handled) \cup Logs(channel) \cup Logs(feed') \subseteq 1..(written')
    BY <1>0, <2>2, <2>3 DEF Order
  <2>7. Order'
    BY <2>4, <2>5, <2>6 DEF Order
  <2> QED
    BY <1>0, <1>2, <2>1, <2>7 DEF TypeOK
<1> QED
  BY <1>1, <1>2 DEF Deliver

LEMMA NextHolds == IInv /\ [Next]_vars => IInv'
<1> SUFFICES ASSUME IInv, [Next]_vars PROVE IInv'
  OBVIOUS
<1> USE DEF IInv, node, library, goroutine
<1>0. /\ feed \in Seq(Messages) /\ channel \in Seq(Messages) /\ handled \in Seq(Messages)
      /\ <<>> \in Seq(Messages)
  BY DEF TypeOK
<1>1. CASE WriteLog
  <2> DEFINE m == [log |-> written + 1, removed |-> FALSE]
  <2>1. m \in Messages /\ m.log = written + 1
    BY DEF TypeOK, Messages
  <2>2. /\ Deliver(m) /\ written' = written + 1
        /\ UNCHANGED <<withdrawn, reachable, goroutine>>
    BY <1>1 DEF WriteLog
  <2>3. written' \in Nat /\ written' > written /\ written' >= written /\ m.log = written'
    BY <2>1, <2>2 DEF TypeOK
  <2> HIDE DEF m
  <2>4. /\ feed' \in Seq(Messages) /\ subscription' \in {"none", "live", "failed"}
        /\ Control' /\ Order'
    BY <2>1, <2>2, <2>3, DeliverKeeps
  <2> QED
    BY <2>2, <2>3, <2>4 DEF TypeOK
<1>2. CASE WithdrawLog
  <2> DEFINE log == Max((1..written) \ withdrawn)
             m == [log |-> log, removed |-> TRUE]
  <2>1. log \in 1..written
    BY <1>2, LatestExists DEF WithdrawLog, TypeOK
  <2>2. m \in Messages /\ m.removed
    BY <2>1 DEF TypeOK, Messages
  <2>3. /\ Deliver(m) /\ withdrawn' = withdrawn \cup {log}
        /\ UNCHANGED <<written, reachable, goroutine>>
    BY <1>2 DEF WithdrawLog
  <2>4. written' \in Nat /\ written' >= written
    BY <2>3 DEF TypeOK
  <2> HIDE DEF m, log
  <2>5. /\ feed' \in Seq(Messages) /\ subscription' \in {"none", "live", "failed"}
        /\ Control' /\ Order'
    BY <2>2, <2>3, <2>4, DeliverKeeps
  <2> QED
    BY <2>1, <2>3, <2>5 DEF TypeOK
<1>3. CASE Disconnect
  <2>1. /\ feed' = <<>> /\ reachable' = FALSE
        /\ subscription' = (IF subscription = "live" THEN "failed" ELSE subscription)
        /\ UNCHANGED <<written, withdrawn, goroutine>>
    BY <1>3 DEF Disconnect
  <2>2. Control' /\ Order'
    BY <1>0, <2>1, NoLogs DEF Control, Order, Older
  <2> QED
    BY <1>0, <2>1, <2>2 DEF TypeOK
<1>4. CASE Reconnect
  BY <1>4 DEF Reconnect, TypeOK, Control, Order
<1>5. CASE Forward
  <2> DEFINE m == Head(feed)
  <2>1. /\ feed # <<>> /\ subscription = "live"
        /\ channel' = Append(channel, m) /\ feed' = Tail(feed)
        /\ UNCHANGED <<node, subscription, pc, backOffCount, waited, handled>>
    BY <1>5 DEF Forward
  <2>2. m \in Messages /\ Tail(feed) \in Seq(Messages)
    BY <1>0, <2>1, HeadTailProperties
  <2>3. /\ Logs(feed') \subseteq Logs(feed) /\ Ordered(feed')
        /\ ~m.removed => m.log \in Logs(feed) /\ Older({m.log}, Logs(feed'))
    BY <1>0, <2>1, LogsOfTail, OrderedTail DEF Order
  <2> HIDE DEF m
  <2>4. /\ Logs(channel') \subseteq Logs(channel) \cup {m.log}
        /\ m.removed => Logs(channel') \subseteq Logs(channel)
        /\ channel' \in Seq(Messages)
    BY <1>0, <2>1, <2>2, LogsOfAppend
  <2>5. Ordered(channel')
    <3>1. m.removed \/ Older(Logs(channel), {m.log})
      BY <2>3 DEF Order, Older
    <3> QED
      BY <1>0, <2>1, <2>2, <3>1, OrderedAppend DEF Order
  <2>6. /\ Older(Logs(handled), Logs(channel')) /\ Older(Logs(handled), Logs(feed'))
        /\ Older(Logs(channel'), Logs(feed'))
    BY <2>3, <2>4 DEF Order, Older
  <2>7. Order'
    BY <2>1, <2>3, <2>4, <2>5, <2>6 DEF Order
  <2>8. Control'
    BY <2>1 DEF Control
  <2> QED
    BY <2>1, <2>2, <2>4, <2>7, <2>8 DEF TypeOK
<1>6. CASE BackOff
  <2>1. /\ pc = "wait" /\ pc' = "subscribe" /\ backOffCount <= MaxBackOff
        /\ waited' = waited + Delay(backOffCount)
        /\ UNCHANGED <<node, library, channel, backOffCount, handled>>
    BY <1>6 DEF BackOff
  <2>2. waited' \in Nat
    <3>1. backOffCount \in Nat /\ waited \in Nat
      BY SizesType DEF TypeOK
    <3>2. Delay(backOffCount) \in Nat
      BY <3>1, DelayType
    <3> QED
      BY <2>1, <3>1, <3>2
  <2>3. Control' /\ Order'
    BY <2>1 DEF Control, Order
  <2> QED
    BY <2>1, <2>2, <2>3 DEF TypeOK
<1>7. CASE GiveUp
  BY <1>7 DEF GiveUp, TypeOK, Control, Order
<1>8. CASE SubscribeFails
  <2>1. /\ channel' = <<>> /\ backOffCount' = backOffCount + 1 /\ pc' = "wait" /\ pc = "subscribe"
        /\ UNCHANGED <<node, library, waited, handled>>
    BY <1>8 DEF SubscribeFails
  <2>2. backOffCount' \in 0..(MaxBackOff + 1)
    BY <2>1, SizesType DEF TypeOK, Control
  <2>3. Control' /\ Order'
    BY <1>0, <2>1, NoLogs DEF Control, Order, Older
  <2> QED
    BY <1>0, <2>1, <2>2, <2>3 DEF TypeOK
<1>9. CASE Subscribe
  <2>1. /\ channel' = <<>> /\ feed' = <<>> /\ subscription' = "live"
        /\ backOffCount' = 0 /\ waited' = 0 /\ pc' = "select"
        /\ UNCHANGED <<node, handled>>
    BY <1>9 DEF Subscribe
  <2>2. Control' /\ Order'
    BY <1>0, <2>1, NoLogs DEF Control, Order, Older
  <2> QED
    BY <1>0, <2>1, <2>2, SizesType DEF TypeOK
<1>10. CASE TakeLog
  <2> DEFINE m == Head(channel)
  <2>1. /\ channel # <<>> /\ channel' = Tail(channel) /\ pc' = "handle"
        /\ handled' = Append(handled, m)
        /\ UNCHANGED <<node, library, backOffCount, waited>>
    BY <1>10 DEF TakeLog
  <2>2. m \in Messages /\ Tail(channel) \in Seq(Messages)
    BY <1>0, <2>1, HeadTailProperties
  <2>3. /\ Logs(channel') \subseteq Logs(channel) /\ Ordered(channel')
        /\ ~m.removed => m.log \in Logs(channel) /\ Older({m.log}, Logs(channel'))
    BY <1>0, <2>1, LogsOfTail, OrderedTail DEF Order
  <2> HIDE DEF m
  <2>4. /\ Logs(handled') \subseteq Logs(handled) \cup {m.log}
        /\ m.removed => Logs(handled') \subseteq Logs(handled)
        /\ handled' \in Seq(Messages)
    BY <1>0, <2>1, <2>2, LogsOfAppend
  <2>5. Ordered(handled')
    <3>1. m.removed \/ Older(Logs(handled), {m.log})
      BY <2>3 DEF Order, Older
    <3> QED
      BY <1>0, <2>1, <2>2, <3>1, OrderedAppend DEF Order
  <2>6. /\ Older(Logs(handled'), Logs(channel')) /\ Older(Logs(handled'), Logs(feed))
        /\ Older(Logs(channel'), Logs(feed))
    BY <2>3, <2>4 DEF Order, Older
  <2>7. Order'
    BY <2>1, <2>3, <2>4, <2>5, <2>6 DEF Order
  <2>8. Control'
    BY <2>1 DEF Control
  <2> QED
    BY <2>1, <2>2, <2>4, <2>7, <2>8 DEF TypeOK
<1>11. CASE HandlerReturns
  BY <1>11 DEF HandlerReturns, TypeOK, Control, Order
<1>12. CASE TakeError
  <2>1. /\ feed' = <<>> /\ subscription' = "none" /\ pc' = "wait"
        /\ UNCHANGED <<node, channel, backOffCount, waited, handled>>
    BY <1>12 DEF TakeError
  <2>2. Control' /\ Order'
    BY <1>0, <2>1, NoLogs DEF Control, Order, Older
  <2> QED
    BY <1>0, <2>1, <2>2 DEF TypeOK
<1>13. CASE UNCHANGED vars
  BY <1>13 DEF vars, TypeOK, Control, Order
<1>14. CASE Overflow
  <2>1. /\ feed' = <<>> /\ subscription = "live" /\ subscription' = "failed"
        /\ UNCHANGED <<node, goroutine>>
    BY <1>14 DEF Overflow
  <2>2. Control' /\ Order'
    BY <1>0, <2>1, NoLogs DEF Control, Order, Older
  <2> QED
    BY <1>0, <2>1, <2>2 DEF TypeOK
<1> QED
  BY <1>1, <1>2, <1>3, <1>4, <1>5, <1>6, <1>7, <1>8, <1>9, <1>10, <1>11, <1>12, <1>13, <1>14
     DEF Next, Goroutine

LEMMA InvariantHolds == Spec => []IInv
BY InitHolds, NextHolds, PTL DEF Spec

-------------------------------------------------------------------------------
\* The theorems.

\* Every variable has its type; the failures counted never pass the limit by more than one.
THEOREM ListenerTyped == Spec => []TypeOK
<1>1. IInv => TypeOK
  BY DEF IInv
<1> QED
  BY <1>1, InvariantHolds, PTL

\* However often the subscription ends, whatever is lost with it and however far
\* the chain reorganises, the handler gets logs in the order they were written.
THEOREM HandlesInOrder == Spec => []HandledInOrder
<1>1. IInv => HandledInOrder
  BY DEF IInv, Order, Ordered, HandledInOrder
<1> QED
  BY <1>1, InvariantHolds, PTL

-------------------------------------------------------------------------------
\* How long the goroutine has slept since there was a subscription.

\* All the delays up to the one after failure n.
Slept(n) == SumFunctionOnSet([k \in 1..n |-> Delay(k)], 1..n)

Patience ==
    /\ pc = "wait" => waited = Slept(backOffCount - 1)
    /\ pc = "subscribe" => waited = Slept(backOffCount)
    /\ pc \in {"select", "handle"} => backOffCount = 0 /\ waited = 0
    /\ pc = "exited" => waited = Slept(MaxBackOff)

LEMMA SleptNone == ASSUME NEW n \in Int, n <= 0 PROVE Slept(n) = 0
<1>1. 1..n = {}
  OBVIOUS
<1> QED
  BY <1>1, SumEmpty DEF Slept

LEMMA SleptMore == ASSUME NEW n \in Nat \ {0} PROVE Slept(n) = Slept(n - 1) + Delay(n)
<1> DEFINE f == [k \in 1..n |-> Delay(k)]
           g == [k \in 1..(n - 1) |-> Delay(k)]
<1>1. IsFiniteSet(1..n) /\ IsFiniteSet(1..(n - 1))
  BY FS_Interval
<1>2. n \in 1..n /\ (1..n) \ {n} = 1..(n - 1)
  OBVIOUS
<1>3. \A k \in 1..n : f[k] \in Int
  BY DelayType
<1>4. \A k \in 1..(n - 1) : f[k] = g[k] /\ g[k] \in Int
  BY <1>2, DelayType
<1>5. f[n] = Delay(n) /\ Delay(n) \in Int
  BY DelayType
<1> HIDE DEF f, g
<1>6. SumFunctionOnSet(f, 1..n) = f[n] + SumFunctionOnSet(f, 1..(n - 1))
  BY <1>1, <1>2, <1>3, SumRemove
<1>7. SumFunctionOnSet(f, 1..(n - 1)) = SumFunctionOnSet(g, 1..(n - 1))
  BY <1>1, <1>4, SumSame
<1>8. SumFunctionOnSet(g, 1..(n - 1)) \in Int
  BY <1>1, <1>4, SumInt
<1> QED
  BY <1>5, <1>6, <1>7, <1>8 DEF Slept, f, g

LEMMA PatienceInit == Init => Patience
BY SleptNone DEF Init, Patience

LEMMA PatienceHolds == IInv /\ Patience /\ [Next]_vars => Patience'
<1> SUFFICES ASSUME IInv, Patience, [Next]_vars PROVE Patience'
  OBVIOUS
<1>0. backOffCount \in 0..(MaxBackOff + 1) /\ MaxBackOff \in Nat /\ waited \in Nat
  BY SizesType DEF IInv, TypeOK
<1>1. CASE UNCHANGED <<pc, backOffCount, waited>>
  BY <1>1 DEF Patience
<1>2. CASE BackOff
  <2>1. pc = "wait" /\ pc' = "subscribe" /\ backOffCount' = backOffCount
        /\ waited' = Slept(backOffCount - 1) + Delay(backOffCount)
    BY <1>2 DEF BackOff, Patience
  <2>2. Slept(backOffCount) = Slept(backOffCount - 1) + Delay(backOffCount)
    <3>1. CASE backOffCount = 0
      BY <3>1, SleptNone DEF Delay
    <3>2. CASE backOffCount # 0
      BY <1>0, <3>2, SleptMore
    <3> QED
      BY <3>1, <3>2
  <2> QED
    BY <2>1, <2>2 DEF Patience
<1>3. CASE GiveUp
  <2>1. backOffCount - 1 = MaxBackOff
    BY <1>0, <1>3 DEF GiveUp
  <2> QED
    BY <1>3, <2>1 DEF GiveUp, Patience
<1>4. CASE SubscribeFails
  <2>1. backOffCount' - 1 = backOffCount /\ pc = "subscribe" /\ pc' = "wait" /\ waited' = waited
    BY <1>0, <1>4 DEF SubscribeFails
  <2> QED
    BY <2>1 DEF Patience
<1>5. CASE Subscribe
  BY <1>5 DEF Subscribe, Patience
<1>6. CASE TakeLog \/ HandlerReturns
  BY <1>6 DEF TakeLog, HandlerReturns, Patience
<1>7. CASE TakeError
  BY <1>7, SleptNone DEF TakeError, Patience
<1>8. CASE WriteLog \/ WithdrawLog \/ Disconnect \/ Reconnect \/ Forward \/ Overflow
             \/ UNCHANGED vars
  BY <1>1, <1>8 DEF WriteLog, WithdrawLog, Disconnect, Reconnect, Forward, Overflow, vars, goroutine
<1> QED
  BY <1>2, <1>3, <1>4, <1>5, <1>6, <1>7, <1>8 DEF Next, Goroutine

\* The process ends only after every delay of the back-off in a row, and without
\* a subscription.
THEOREM GivesUpAfterAllDelays == Spec => []GivesUpLate
<1>1. IInv /\ Patience => GivesUpLate
  BY DEF IInv, Control, Patience, Slept, GivesUpLate
<1> QED
  BY <1>1, PatienceInit, PatienceHolds, InvariantHolds, PTL DEF Spec

-------------------------------------------------------------------------------
\* The refinement: what waits in the channel and in the library is one queue.

LEMMA FrontOfAppend ==
    ASSUME NEW s \in Seq(Messages), NEW m \in Messages
    PROVE  Append(s, m) # <<>> /\ Feed!Front(Append(s, m)) = s
<1>1. /\ Append(s, m) \in Seq(Messages) /\ Append(s, m) # <<>>
      /\ Len(Append(s, m)) = Len(s) + 1 /\ Len(s) \in Nat
      /\ \A i \in 1..Len(s) : Append(s, m)[i] = s[i]
  BY AppendProperties, LenProperties
<1>2. Feed!Front(Append(s, m)) = SubSeq(Append(s, m), 1, Len(s))
  BY <1>1 DEF Feed!Front
<1> DEFINE t == SubSeq(Append(s, m), 1, Len(s))
<1>3. t \in Seq(Messages) /\ Len(t) = Len(s) /\ \A i \in 1..Len(s) : t[i] = s[i]
  <2>1. 1 \in Int /\ Len(s) \in Int /\ \A i \in 1..Len(s) : Append(s, m)[i] \in Messages
    BY <1>1
  <2> QED
    BY <1>1, <2>1, SubSeqProperties
<1>4. t = s
  BY <1>3, SeqEqual
<1> QED
  BY <1>1, <1>2, <1>4

LEMMA PrefixOfConcat ==
    ASSUME NEW s \in Seq(Messages), NEW t \in Seq(Messages)
    PROVE  Feed!IsPrefix(s, s \o t)
<1>1. /\ Len(s) \in Nat /\ Len(t) \in Nat /\ s \o t \in Seq(Messages)
      /\ Len(s \o t) = Len(s) + Len(t)
      /\ \A i \in 1..Len(s) : (s \o t)[i] = s[i] /\ s[i] \in Messages
  BY ConcatProperties, LenProperties
<1> DEFINE u == SubSeq(s \o t, 1, Len(s))
<1>2. u \in Seq(Messages) /\ Len(u) = Len(s) /\ \A i \in 1..Len(s) : u[i] = s[i]
  <2>1. 1 \in Int /\ Len(s) \in Int /\ \A i \in 1..Len(s) : (s \o t)[i] \in Messages
    BY <1>1
  <2> QED
    BY <1>1, <2>1, SubSeqProperties
<1>3. u = s
  BY <1>2, SeqEqual
<1>4. SubSeq(s, 1, Len(s)) = s
  BY SubSeqFull
<1> QED
  BY <1>1, <1>3, <1>4 DEF Feed!IsPrefix

LEMMA AppendToConcat ==
    ASSUME NEW s \in Seq(Messages), NEW t \in Seq(Messages), NEW m \in Messages
    PROVE  s \o Append(t, m) = Append(s \o t, m)
<1>1. <<m>> \in Seq(Messages) /\ s \o t \in Seq(Messages)
  BY ConcatProperties
<1>2. Append(t, m) = t \o <<m>> /\ Append(s \o t, m) = (s \o t) \o <<m>>
  BY <1>1, AppendIsConcat
<1> QED
  BY <1>1, <1>2, ConcatAssociative

LEMMA HeadMoves ==
    ASSUME NEW s \in Seq(Messages), NEW t \in Seq(Messages), t # <<>>
    PROVE  Append(s, Head(t)) \o Tail(t) = s \o t
<1> DEFINE m == Head(t)
           r == Tail(t)
<1>1. m \in Messages /\ r \in Seq(Messages) /\ <<m>> \in Seq(Messages)
  BY HeadTailProperties
<1>2. t = <<m>> \o r
  OBVIOUS
<1>3. Append(s, m) = s \o <<m>>
  BY <1>1, AppendIsConcat
<1> HIDE DEF m, r
<1>4. (s \o <<m>>) \o r = s \o (<<m>> \o r)
  BY <1>1, ConcatAssociative
<1> QED
  BY <1>2, <1>3, <1>4 DEF m, r

LEMMA TailOfConcat ==
    ASSUME NEW s \in Seq(Messages), NEW t \in Seq(Messages), s # <<>>
    PROVE  s \o t # <<>> /\ Tail(s \o t) = Tail(s) \o t
OBVIOUS

LEMMA DeliverRefines ==
    ASSUME IInv, NEW m \in Messages, Deliver(m), UNCHANGED channel
    PROVE  Feed!Receive \/ UNCHANGED Feed!vars
<1> DEFINE p == channel \o feed
<1>0. channel \in Seq(Messages) /\ feed \in Seq(Messages) /\ p \in Seq(Messages)
  BY ConcatProperties DEF IInv, TypeOK
<1>1. CASE subscription # "live"
  BY <1>1 DEF Deliver, library, Feed!vars
<1>2. CASE subscription = "live" /\ feed' = Append(feed, m) /\ UNCHANGED subscription
  <2>1. channel' \o feed' = Append(p, m)
    BY <1>0, <1>2, AppendToConcat
  <2>2. Append(p, m) # <<>> /\ Feed!Front(Append(p, m)) = p
    BY <1>0, FrontOfAppend
  <2> QED
    BY <1>2, <2>1, <2>2 DEF Feed!Receive
<1> QED
  BY <1>1, <1>2 DEF Deliver

LEMMA NextRefines == IInv /\ [Next]_vars => [Feed!Next]_Feed!vars
<1> SUFFICES ASSUME IInv, [Next]_vars PROVE Feed!Next \/ UNCHANGED Feed!vars
  OBVIOUS
<1> USE DEF node, library, goroutine
<1>0. /\ channel \in Seq(Messages) /\ feed \in Seq(Messages)
      /\ channel \o <<>> = channel /\ <<>> \o <<>> = <<>>
  BY ConcatEmptySeq DEF IInv, TypeOK
<1>1. CASE WriteLog
  <2>1. [log |-> written + 1, removed |-> FALSE] \in Messages
    BY DEF IInv, TypeOK, Messages
  <2> QED
    BY <1>1, <2>1, DeliverRefines DEF WriteLog, Feed!Next
<1>2. CASE WithdrawLog
  <2> DEFINE log == Max((1..written) \ withdrawn)
  <2>1. log \in 1..written
    BY <1>2, LatestExists DEF WithdrawLog, IInv, TypeOK
  <2>2. [log |-> log, removed |-> TRUE] \in Messages
    BY <2>1 DEF IInv, TypeOK, Messages
  <2> QED
    BY <1>2, <2>2, DeliverRefines DEF WithdrawLog, Feed!Next
<1>3. CASE Disconnect
  <2>1. channel' \o feed' = channel
    BY <1>0, <1>3 DEF Disconnect
  <2>2. CASE subscription = "live"
    <3>1. Feed!IsPrefix(channel, channel \o feed)
      BY <1>0, PrefixOfConcat
    <3> QED
      BY <1>3, <2>1, <2>2, <3>1 DEF Disconnect, Feed!End, Feed!Next
  <2>3. CASE subscription # "live"
    <3>1. feed = <<>>
      BY <2>3 DEF IInv, Control
    <3> QED
      BY <1>0, <1>3, <2>1, <2>3, <3>1 DEF Disconnect, Feed!vars
  <2> QED
    BY <2>2, <2>3
<1>4. CASE Reconnect \/ BackOff \/ GiveUp \/ HandlerReturns \/ UNCHANGED vars
  BY <1>4 DEF Reconnect, BackOff, GiveUp, HandlerReturns, vars, Feed!vars
<1>5. CASE Forward
  <2>1. channel' \o feed' = channel \o feed
    BY <1>0, <1>5, HeadMoves DEF Forward
  <2> QED
    BY <1>5, <2>1 DEF Forward, Feed!vars
<1>6. CASE SubscribeFails
  <2>1. subscription = "none" /\ feed = <<>> /\ pc = "subscribe"
    BY <1>6 DEF SubscribeFails, IInv, Control
  <2>2. channel' \o feed' = <<>>
    BY <1>0, <1>6, <2>1 DEF SubscribeFails
  <2> QED
    BY <1>6, <2>1, <2>2 DEF SubscribeFails, Feed!Drop, Feed!Next
<1>7. CASE Subscribe
  <2>1. subscription = "none"
    BY <1>7 DEF Subscribe, IInv, Control
  <2> QED
    BY <1>0, <1>7, <2>1 DEF Subscribe, Feed!Renew, Feed!Next
<1>8. CASE TakeLog
  <2>1. channel \o feed # <<>> /\ channel' \o feed' = Tail(channel \o feed)
    BY <1>0, <1>8, TailOfConcat DEF TakeLog
  <2> QED
    BY <1>8, <2>1 DEF TakeLog, Feed!Take, Feed!Next
<1>9. CASE TakeError
  <2>1. feed = <<>> /\ subscription = "failed"
    BY <1>9 DEF TakeError, IInv, Control
  <2> QED
    BY <1>9, <2>1 DEF TakeError, Feed!vars
<1>10. CASE Overflow
  <2>1. channel' \o feed' = channel
    BY <1>0, <1>10 DEF Overflow
  <2>2. Feed!IsPrefix(channel, channel \o feed)
    BY <1>0, PrefixOfConcat
  <2> QED
    BY <1>10, <2>1, <2>2 DEF Overflow, Feed!End, Feed!Next
<1> QED
  BY <1>1, <1>2, <1>3, <1>4, <1>5, <1>6, <1>7, <1>8, <1>9, <1>10 DEF Next, Goroutine

\* The listener is an EventFeed: while a subscription lives its events are handled
\* one by one and in order; what ends with it is cut off from the end.
THEOREM ListenerIsFeed == Spec => ImplementsFeed
<1>1. Init => Feed!Init
  BY DEF Init, Feed!Init
<1> QED
  BY <1>1, NextRefines, InvariantHolds, PTL DEF Spec, ImplementsFeed, Feed!Spec

-------------------------------------------------------------------------------
(***************************************************************************)
(* The composition: handlers that run on the listener's logs implement     *)
(* Custody until a log is withdrawn.                                       *)
(***************************************************************************)

\* The events of messages, of a given list of logs.
EventsIn(l, messages) == [i \in 1..Len(messages) |-> l[messages[i].log].event]

LEMMA EventsAreIn == \A messages : EventsOf(messages) = EventsIn(logs, messages)
BY DEF EventsOf, EventsIn

\* All of the messages are about logs that are in the list.
Known(n, messages) == \A i \in 1..Len(messages) : messages[i].log \in 1..n

\* A sequence of unknown elements: what is needed of `logs`.
IsSequence(l) == \E S : l \in Seq(S)

Events(l) == {l[i].event : i \in Nat}

LEMMA EventsAreSequence ==
    ASSUME NEW l, NEW s \in Seq(Messages)
    PROVE  /\ EventsIn(l, s) \in Seq(Events(l))
           /\ Len(EventsIn(l, s)) = Len(s)
           /\ \A i \in 1..Len(s) : EventsIn(l, s)[i] = l[s[i].log].event
<1> DEFINE e == EventsIn(l, s)
<1>1. Len(s) \in Nat /\ \A i \in 1..Len(s) : s[i].log \in Nat
  <2>1. ASSUME NEW i \in 1..Len(s) PROVE s[i].log \in Nat
    <3>1. s[i] \in Messages
      BY ElementOfSeq
    <3> QED
      BY <3>1 DEF Messages
  <2> QED
    BY <2>1, LenProperties
<1>2. e \in [1..Len(s) -> Events(l)]
  BY <1>1 DEF EventsIn, Events
<1>3. e \in Seq(Events(l))
  BY <1>1, <1>2, SeqDef
<1>4. DOMAIN e = 1..Len(s)
  BY DEF EventsIn
<1>5. Len(e) = Len(s)
  BY <1>1, <1>3, <1>4, LenProperties
<1> QED
  BY <1>3, <1>5 DEF EventsIn

LEMMA EventsOfNone == ASSUME NEW l PROVE EventsIn(l, <<>>) = <<>>
<1>1. <<>> \in Seq(Messages) /\ Len(<<>>) = 0
  OBVIOUS
<1>2. EventsIn(l, <<>>) \in Seq(Events(l)) /\ Len(EventsIn(l, <<>>)) = 0
  BY <1>1, EventsAreSequence
<1> QED
  BY <1>2, EmptySeq

\* The event of the first message is the first event.
LEMMA FirstEvent ==
    ASSUME NEW l, NEW s \in Seq(Messages), s # <<>>
    PROVE  /\ EventsIn(l, s) # <<>>
           /\ Head(EventsIn(l, s)) = l[Head(s).log].event
           /\ Tail(EventsIn(l, s)) = EventsIn(l, Tail(s))
<1> DEFINE e == EventsIn(l, s)
           t == EventsIn(l, Tail(s))
<1>1. Len(s) \in Nat /\ Len(s) # 0 /\ s[1] = Head(s)
  BY EmptySeq, LenProperties
<1>2. e \in Seq(Events(l)) /\ Len(e) = Len(s) /\ \A i \in 1..Len(s) : e[i] = l[s[i].log].event
  BY EventsAreSequence
<1>3. Tail(s) \in Seq(Messages) /\ Len(Tail(s)) = Len(s) - 1
      /\ \A i \in 1..Len(Tail(s)) : Tail(s)[i] = s[i + 1]
  BY HeadTailProperties
<1>4. /\ t \in Seq(Events(l)) /\ Len(t) = Len(s) - 1
      /\ \A i \in 1..(Len(s) - 1) : t[i] = l[s[i + 1].log].event
  <2>1. /\ t \in Seq(Events(l)) /\ Len(t) = Len(Tail(s))
        /\ \A i \in 1..Len(Tail(s)) : t[i] = l[Tail(s)[i].log].event
    BY <1>3, EventsAreSequence
  <2>2. ASSUME NEW i \in 1..(Len(s) - 1) PROVE t[i] = l[s[i + 1].log].event
    <3>1. i \in 1..Len(Tail(s)) /\ Tail(s)[i] = s[i + 1]
      BY <1>3
    <3>2. t[i] = l[Tail(s)[i].log].event
      BY <2>1, <3>1
    <3> QED
      BY <3>1, <3>2
  <2> QED
    BY <1>3, <2>1, <2>2
<1> HIDE DEF e, t
<1>5. e # <<>> /\ Head(e) = e[1]
  BY <1>1, <1>2
<1>6. Tail(e) \in Seq(Events(l)) /\ Len(Tail(e)) = Len(s) - 1
      /\ \A i \in 1..(Len(s) - 1) : Tail(e)[i] = l[s[i + 1].log].event
  <2>1. Tail(e) \in Seq(Events(l)) /\ Len(Tail(e)) = Len(e) - 1
        /\ \A i \in 1..Len(Tail(e)) : Tail(e)[i] = e[i + 1]
    BY <1>2, <1>5, HeadTailProperties
  <2> QED
    BY <1>1, <1>2, <2>1
<1>7. Tail(e) = t
  BY <1>4, <1>6, SeqEqual
<1>8. 1 \in 1..Len(s)
  BY <1>1
<1> QED
  BY <1>1, <1>2, <1>5, <1>7, <1>8 DEF e, t

\* A new log and its message add its event.
LEMMA EventAppended ==
    ASSUME NEW l, IsSequence(l), NEW s \in Seq(Messages), Known(Len(l), s),
           NEW m \in Messages, m.log = Len(l) + 1, NEW r
    PROVE  EventsIn(Append(l, r), Append(s, m)) = Append(EventsIn(l, s), r.event)
<1> DEFINE k == Append(l, r)
           t == Append(s, m)
           e == EventsIn(l, s)
           f == EventsIn(k, t)
           S == Events(l) \cup Events(k) \cup {r.event}
<1>1. PICK T : l \in Seq(T)
  BY DEF IsSequence
<1>2. l \in Seq(T \cup {r}) /\ Len(l) \in Nat
  BY <1>1, SeqMonotonic, LenProperties
<1>3. /\ \A i \in 1..Len(l) : k[i] = l[i]
      /\ k[Len(l) + 1] = r
  BY <1>2, AppendProperties
<1>4. /\ t \in Seq(Messages) /\ Len(t) = Len(s) + 1 /\ Len(s) \in Nat
      /\ \A i \in 1..Len(s) : t[i] = s[i]
      /\ t[Len(s) + 1] = m
  BY AppendProperties, LenProperties
<1>5. e \in Seq(S) /\ Len(e) = Len(s) /\ \A i \in 1..Len(s) : e[i] = l[s[i].log].event
  BY EventsAreSequence, SeqMonotonic
<1>6. /\ f \in Seq(S) /\ Len(f) = Len(t)
      /\ \A i \in 1..Len(t) : f[i] = k[t[i].log].event
  <2>1. /\ f \in Seq(Events(k)) /\ Len(f) = Len(t)
        /\ \A i \in 1..Len(t) : f[i] = k[t[i].log].event
    BY <1>4, EventsAreSequence
  <2> HIDE DEF f
  <2>2. f \in Seq(S)
    BY <2>1, SeqMonotonic
  <2> QED
    BY <2>1, <2>2
<1>0. r.event \in S
  OBVIOUS
<1> HIDE DEF k, t, e, f, S
<1>7. /\ Append(e, r.event) \in Seq(S) /\ Len(Append(e, r.event)) = Len(s) + 1
      /\ \A i \in 1..Len(s) : Append(e, r.event)[i] = e[i]
      /\ Append(e, r.event)[Len(s) + 1] = r.event
  BY <1>0, <1>5, AppendProperties
<1>8. ASSUME NEW i \in 1..Len(s) PROVE f[i] = e[i]
  <2>1. i \in 1..Len(t) /\ t[i] = s[i] /\ s[i].log \in 1..Len(l)
    BY <1>4 DEF Known
  <2>2. k[s[i].log] = l[s[i].log]
    BY <1>3, <2>1
  <2>3. f[i] = k[s[i].log].event /\ e[i] = l[s[i].log].event
    BY <1>5, <1>6, <2>1
  <2> QED
    BY <2>2, <2>3
<1>9. f[Len(s) + 1] = r.event
  BY <1>3, <1>4, <1>6
<1>10. \A i \in 1..(Len(s) + 1) : f[i] = Append(e, r.event)[i]
  BY <1>4, <1>7, <1>8, <1>9
<1> QED
  BY <1>4, <1>6, <1>7, <1>10, SeqEqual DEF k, t, e, f

\* More logs leave the events of known messages.
LEMMA EventsKept ==
    ASSUME NEW l, IsSequence(l), NEW s \in Seq(Messages), Known(Len(l), s), NEW r
    PROVE  EventsIn(Append(l, r), s) = EventsIn(l, s)
<1>1. PICK T : l \in Seq(T)
  BY DEF IsSequence
<1>2. l \in Seq(T \cup {r}) /\ Len(l) \in Nat
  BY <1>1, SeqMonotonic, LenProperties
<1>3. \A i \in 1..Len(l) : Append(l, r)[i] = l[i]
  BY <1>2, AppendProperties
<1> QED
  BY <1>3 DEF EventsIn, Known

\* The events of the first messages are the first events.
LEMMA EventsCut ==
    ASSUME NEW l, NEW s \in Seq(Messages), NEW t \in Seq(Messages)
    PROVE  /\ Len(s) \in 0..Len(EventsIn(l, s \o t))
           /\ EventsIn(l, s) = SubSeq(EventsIn(l, s \o t), 1, Len(s))
<1> DEFINE u == s \o t
           e == EventsIn(l, u)
           f == EventsIn(l, s)
<1>1. /\ Len(s) \in Nat /\ Len(t) \in Nat /\ u \in Seq(Messages)
      /\ Len(u) = Len(s) + Len(t)
      /\ \A i \in 1..Len(s) : u[i] = s[i]
  BY ConcatProperties, LenProperties
<1>2. e \in Seq(Events(l)) /\ Len(e) = Len(u) /\ \A i \in 1..Len(u) : e[i] = l[u[i].log].event
  BY <1>1, EventsAreSequence
<1>3. /\ f \in Seq(Events(l)) /\ Len(f) = Len(s)
      /\ \A i \in 1..Len(s) : f[i] = l[s[i].log].event
  BY EventsAreSequence
<1> DEFINE c == SubSeq(e, 1, Len(s))
<1> HIDE DEF u, e, f
<1>4. Len(s) \in 0..Len(e)
  BY <1>1, <1>2
<1>5. c \in Seq(Events(l)) /\ Len(c) = Len(s) /\ \A i \in 1..Len(s) : c[i] = e[i]
  <2>1. 1 \in Int /\ Len(s) \in Int /\ \A i \in 1..Len(s) : e[i] \in Events(l)
    BY <1>1, <1>2, ElementOfSeq
  <2> QED
    BY <1>1, <2>1, SubSeqProperties
<1> HIDE DEF c
<1>6. ASSUME NEW i \in 1..Len(s) PROVE c[i] = f[i]
  <2>1. i \in 1..Len(u) /\ u[i] = s[i]
    BY <1>1
  <2>2. c[i] = e[i] /\ f[i] = l[s[i].log].event
    BY <1>3, <1>5
  <2>3. e[i] = l[u[i].log].event
    BY <1>2, <2>1
  <2> QED
    BY <2>1, <2>2, <2>3
<1>7. c = f
  BY <1>3, <1>5, <1>6, SeqEqual
<1> QED
  BY <1>4, <1>7 DEF c, e, f, u

-------------------------------------------------------------------------------
\* What holds until a log is withdrawn: what Custody's steps need of the shape of
\* its variables, where the goroutine is, and that messages are about logs.

Shape ==
    /\ contract = [c \in Channels |-> contract[c]]
    /\ listener = [n \in Chains |-> listener[n]]
    /\ calls = [w \in Workers |-> calls[w]]
    /\ \A w \in Workers : calls[w] # C!NoCall => calls[w].channel \in Channels
    /\ \A s \in signed : s.channel \in Channels

Places ==
    /\ pc \in {"wait", "subscribe", "select", "handle", "exited"}
    /\ pc \in {"wait", "subscribe", "exited"} => subscription = "none"
    /\ subscription # "live" => feed = <<>>
    /\ pc # "handle" => listener[Watched].pc = "select"

LogsFit ==
    /\ written \in Nat /\ IsSequence(logs) /\ Len(logs) = written
    /\ channel \in Seq(Messages) /\ feed \in Seq(Messages)
    /\ Known(written, channel) /\ Known(written, feed)

Composed == Shape /\ Places /\ LogsFit

LEMMA KnownMore ==
    ASSUME NEW n \in Nat, NEW k \in Nat, n <= k, NEW s, Known(n, s)
    PROVE  Known(k, s)
BY DEF Known

LEMMA KnownAppend ==
    ASSUME NEW n \in Nat, NEW s \in Seq(Messages), Known(n, s),
           NEW m \in Messages, m.log \in 1..n
    PROVE  Append(s, m) \in Seq(Messages) /\ Known(n, Append(s, m))
<1>1. /\ Append(s, m) \in Seq(Messages) /\ Len(Append(s, m)) = Len(s) + 1 /\ Len(s) \in Nat
      /\ \A i \in 1..Len(s) : Append(s, m)[i] = s[i]
      /\ Append(s, m)[Len(s) + 1] = m
  BY AppendProperties, LenProperties
<1>2. ASSUME NEW i \in 1..(Len(s) + 1) PROVE Append(s, m)[i].log \in 1..n
  <2>1. CASE i = Len(s) + 1
    BY <1>1, <2>1
  <2>2. CASE i \in 1..Len(s)
    BY <1>1, <2>2 DEF Known
  <2> QED
    BY <1>1, <2>1, <2>2
<1> QED
  BY <1>1, <1>2 DEF Known

LEMMA KnownTail ==
    ASSUME NEW n \in Nat, NEW s \in Seq(Messages), Known(n, s), s # <<>>
    PROVE  /\ Head(s) \in Messages /\ Head(s).log \in 1..n
           /\ Tail(s) \in Seq(Messages) /\ Known(n, Tail(s))
<1>1. /\ Head(s) \in Messages /\ Tail(s) \in Seq(Messages) /\ Len(Tail(s)) = Len(s) - 1
      /\ \A i \in 1..Len(Tail(s)) : Tail(s)[i] = s[i + 1]
      /\ Len(s) \in Nat \ {0} /\ Head(s) = s[1]
  BY HeadTailProperties, EmptySeq
<1>2. Head(s).log \in 1..n
  BY <1>1 DEF Known
<1>3. ASSUME NEW i \in 1..Len(Tail(s)) PROVE Tail(s)[i].log \in 1..n
  <2>1. i + 1 \in 1..Len(s)
    BY <1>1
  <2> QED
    BY <1>1, <2>1 DEF Known
<1> QED
  BY <1>1, <1>2, <1>3 DEF Known

LEMMA KnownConcat ==
    ASSUME NEW n \in Nat, NEW s \in Seq(Messages), NEW t \in Seq(Messages),
           Known(n, s), Known(n, t)
    PROVE  s \o t \in Seq(Messages) /\ Known(n, s \o t)
<1>1. /\ s \o t \in Seq(Messages) /\ Len(s \o t) = Len(s) + Len(t)
      /\ Len(s) \in Nat /\ Len(t) \in Nat
      /\ \A i \in 1..Len(s) : (s \o t)[i] = s[i]
      /\ \A i \in 1..Len(t) : (s \o t)[Len(s) + i] = t[i]
  BY ConcatProperties, LenProperties
<1>2. ASSUME NEW i \in 1..(Len(s) + Len(t)) PROVE (s \o t)[i].log \in 1..n
  <2>1. CASE i \in 1..Len(s)
    BY <1>1, <2>1 DEF Known
  <2>2. CASE i > Len(s)
    <3>1. i - Len(s) \in 1..Len(t) /\ i = Len(s) + (i - Len(s))
      BY <1>1, <2>2
    <3> HIDE DEF Known
    <3>2. (s \o t)[i] = t[i - Len(s)]
      BY <1>1, <3>1
    <3> QED
      BY <3>1, <3>2 DEF Known
  <2> QED
    BY <1>1, <2>1, <2>2
<1> QED
  BY <1>1, <1>2 DEF Known

LEMMA KnownNone == ASSUME NEW n PROVE <<>> \in Seq(Messages) /\ Known(n, <<>>)
BY DEF Known

LEMMA PendingIs ==
    /\ Pending = IF pc \in {"select", "handle"} THEN EventsIn(logs, channel \o feed) ELSE <<>>
    /\ Pending' = IF pc' \in {"select", "handle"} THEN EventsIn(logs', channel' \o feed')
                 ELSE <<>>
BY DEF Pending, EventsOf, EventsIn

LEMMA TakenIs ==
    /\ Taken = IF pc = "select" /\ channel # <<>> THEN EventsIn(logs, <<Head(channel)>>) ELSE <<>>
    /\ Taken' = IF pc' = "select" /\ channel' # <<>> THEN EventsIn(logs', <<Head(channel')>>)
               ELSE <<>>
BY DEF Taken, EventsOf, EventsIn

\* Functions that an EXCEPT changed.
LEMMA ExceptShape ==
    ASSUME NEW D, NEW f, f = [x \in D |-> f[x]], NEW a \in D, NEW v, NEW g,
           g = [f EXCEPT ![a] = v]
    PROVE  g = [x \in D |-> g[x]] /\ g[a] = v /\ \A x \in D : x # a => g[x] = f[x]
<1>1. DOMAIN f = D
  OBVIOUS
<1>2. g = [x \in D |-> IF x = a THEN v ELSE f[x]]
  BY <1>1
<1> QED
  BY <1>2

-------------------------------------------------------------------------------
\* Custody's contract.

\* A log of the contract is an event that Custody emits.
LEMMA LogEmits ==
    ASSUME Composed, NEW kind, NEW c \in Channels, NEW d, NEW on, Log(kind, c, d, on)
    PROVE  /\ C!Emit(kind, c, d, on)
           /\ LogsFit' /\ UNCHANGED <<subscription, pc, withdrawn>>
           /\ subscription # "live" => UNCHANGED feed
<1> USE DEF Composed
<1> DEFINE e == [kind |-> kind, channel |-> c, deltas |-> d,
                 version |-> on.version, amount |-> on.amount]
           r == [event |-> e, contract |-> contract, wallet |-> wallet, signed |-> signed]
           m == [log |-> written + 1, removed |-> FALSE]
<1>1. /\ written' = written + 1 /\ logs' = Append(logs, r) /\ Deliver(m)
      /\ UNCHANGED <<withdrawn, reachable, goroutine>>
  BY DEF Log, WriteLog
<1>2. UNCHANGED <<channel, pc, subscription>>
  BY <1>1 DEF goroutine, Deliver, library
<1>3. /\ written \in Nat /\ Len(logs) = written /\ IsSequence(logs)
      /\ channel \in Seq(Messages) /\ feed \in Seq(Messages)
      /\ Known(written, channel) /\ Known(written, feed)
  BY DEF LogsFit
<1>4. m \in Messages /\ m.log = Len(logs) + 1 /\ m.log \in 1..(written')
  BY <1>1, <1>3 DEF Messages
<1>5. r.event = e
  OBVIOUS
<1> HIDE DEF m, r
<1>6. IsSequence(logs') /\ Len(logs') = written'
  <2>1. PICK T : logs \in Seq(T)
    BY <1>3 DEF IsSequence
  <2>2. logs \in Seq(T \cup {r})
    BY <2>1, SeqMonotonic
  <2>3. logs' \in Seq(T \cup {r}) /\ Len(logs') = Len(logs) + 1
    BY <1>1, <2>2, AppendProperties
  <2> QED
    BY <1>1, <1>3, <2>3 DEF IsSequence
<1>7. Known(written', channel) /\ Known(written', feed) /\ written' \in Nat
  BY <1>1, <1>3, KnownMore
<1>8. LogsFit'
  <2>1. CASE feed' = feed
    BY <1>2, <1>3, <1>6, <1>7, <2>1 DEF LogsFit
  <2>2. CASE feed' = Append(feed, m)
    <3>1. feed' \in Seq(Messages) /\ Known(written', feed')
      BY <1>3, <1>4, <1>7, <2>2, KnownAppend
    <3> QED
      BY <1>2, <1>3, <1>6, <1>7, <3>1 DEF LogsFit
  <2> QED
    BY <1>1, <2>1, <2>2 DEF Deliver, library
<1>9. Pending' = IF subscription = "live" THEN Append(Pending, e) ELSE Pending
  <2> DEFINE p == channel \o feed
  <2>1. p \in Seq(Messages) /\ Known(Len(logs), p)
    BY <1>3, KnownConcat
  <2>2. CASE subscription = "live"
    <3>1. pc \in {"select", "handle"}
      BY <2>2 DEF Places
    <3>2. channel' \o feed' = Append(p, m)
      BY <1>1, <1>2, <1>3, <1>4, <2>2, AppendToConcat DEF Deliver
    <3> HIDE DEF p
    <3>3. EventsIn(logs', Append(p, m)) = Append(EventsIn(logs, p), e)
      <4> HIDE DEF e
      <4>1. EventsIn(Append(logs, r), Append(p, m)) = Append(EventsIn(logs, p), r.event)
        BY <1>3, <1>4, <2>1, EventAppended
      <4> QED
        BY <1>1, <1>5, <4>1
    <3> QED
      BY <1>2, <2>2, <3>1, <3>2, <3>3, PendingIs DEF p
  <2>3. CASE subscription # "live"
    <3>1. channel' \o feed' = p
      BY <1>1, <1>2, <2>3 DEF Deliver, library
    <3> HIDE DEF p
    <3>2. EventsIn(logs', p) = EventsIn(logs, p)
      BY <1>1, <1>3, <2>1, EventsKept
    <3> QED
      BY <1>2, <2>3, <3>1, <3>2, PendingIs DEF p
  <2> QED
    BY <2>2, <2>3
<1>10. C!Emit(kind, c, d, on)
  <2>1. Chain[c] = Watched
    BY DEF Chain
  <2> HIDE DEF e
  <2>2. [n \in Chains |-> Pending'] = IF subscription = "live"
                                      THEN [[n \in Chains |-> Pending] EXCEPT
                                               ![Watched] = Append(@, e)]
                                      ELSE [n \in Chains |-> Pending]
    BY <1>9 DEF Chains
  <2> QED
    BY <2>1, <2>2 DEF C!Emit, Chains, e
<1>11. subscription # "live" => UNCHANGED feed
  BY <1>1 DEF Deliver, library
<1> QED
  BY <1>1, <1>2, <1>8, <1>10, <1>11

LEMMA PlacesKept ==
    ASSUME Places, UNCHANGED <<pc, subscription, listener>>,
           subscription # "live" => UNCHANGED feed
    PROVE  Places'
BY DEF Places

LEMMA ContractImplements ==
    ASSUME Composed,
           \/ \E c \in Channels : (\E amount \in Deposits : OnCreate(c, amount)) \/ OnJoin(c)
           \/ \E s \in signed : OnResize(s) \/ OnClose(s)
    PROVE  Composed' /\ C!Next
<1> USE DEF Composed
<1>1. ASSUME NEW c \in Channels, NEW amount \in Deposits, OnCreate(c, amount)
      PROVE  Composed' /\ C!OnCreate(c, amount)
  <2> DEFINE on == [status |-> "initial", amount |-> amount, version |-> 0]
  <2>1. Log("Created", c, <<amount, 0>>, on) /\ H!OnCreate(c, amount)
    BY <1>1 DEF OnCreate
  <2>2. contract' = [contract EXCEPT ![c] = on]
    BY <2>1 DEF H!OnCreate
  <2> HIDE DEF on
  <2>3. contract' = [k \in Channels |-> contract'[k]] /\ contract'[c] = on
    BY <2>2, ExceptShape DEF Shape
  <2>4. /\ C!Emit("Created", c, <<amount, 0>>, on)
        /\ LogsFit' /\ UNCHANGED <<subscription, pc, withdrawn>>
        /\ subscription # "live" => UNCHANGED feed
    BY <2>1, LogEmits
  <2>5. UNCHANGED <<joins, listener, rows, ledger, pool, calls, signed, faults>>
    BY <2>1 DEF H!OnCreate
  <2>6. Places' /\ Shape'
    BY <2>3, <2>4, <2>5, PlacesKept DEF Shape
  <2>7. C!OnCreate(c, amount)
    BY <2>1, <2>3, <2>4, <2>5 DEF H!OnCreate, C!OnCreate
  <2> QED
    BY <2>4, <2>6, <2>7
<1>2. ASSUME NEW c \in Channels, OnJoin(c)
      PROVE  Composed' /\ (C!MineJoin(c) \/ C!OtherJoins(c))
  <2> DEFINE on == [contract[c] EXCEPT !.status = "active"]
  <2>1. Log("Joined", c, <<0, 0>>, on) /\ (H!MineJoin(c) \/ H!OtherJoins(c))
    BY <1>2 DEF OnJoin
  <2>2. contract' = [contract EXCEPT ![c] = on]
    BY <2>1 DEF H!MineJoin, H!OtherJoins
  <2> HIDE DEF on
  <2>3. contract' = [k \in Channels |-> contract'[k]] /\ contract'[c] = on
    BY <2>2, ExceptShape DEF Shape
  <2>4. /\ C!Emit("Joined", c, <<0, 0>>, on)
        /\ LogsFit' /\ UNCHANGED <<subscription, pc, withdrawn>>
        /\ subscription # "live" => UNCHANGED feed
    BY <2>1, LogEmits
  <2>5. UNCHANGED <<wallet, listener, rows, ledger, pool, calls, signed, faults>>
    BY <2>1 DEF H!MineJoin, H!OtherJoins
  <2>6. Places' /\ Shape'
    BY <2>3, <2>4, <2>5, PlacesKept DEF Shape
  <2>7. C!MineJoin(c) \/ C!OtherJoins(c)
    BY <2>1, <2>3, <2>4, <2>5 DEF H!MineJoin, H!OtherJoins, C!MineJoin, C!OtherJoins
  <2> QED
    BY <2>4, <2>6, <2>7
<1>3. ASSUME NEW s \in signed, OnResize(s) PROVE Composed' /\ C!SubmitResize(s)
  <2> DEFINE c == s.channel
             on == [contract[c] EXCEPT !.amount = s.amount, !.version = s.version]
             d == H!Deltas(s)
  <2>1. Log("Resized", c, d, on) /\ H!SubmitResize(s) /\ c \in Channels
    BY <1>3 DEF OnResize, Shape
  <2>2. contract' = [contract EXCEPT ![c] = on] /\ signed' = H!StillAcceptable(c, on)
        /\ UNCHANGED <<joins, listener, rows, ledger, pool, calls, faults>>
    BY <2>1 DEF H!SubmitResize
  <2> HIDE DEF on
  <2>3. contract' = [k \in Channels |-> contract'[k]]
    BY <2>1, <2>2, ExceptShape DEF Shape
  <2>4. /\ C!Emit("Resized", c, d, on)
        /\ LogsFit' /\ UNCHANGED <<subscription, pc, withdrawn>>
        /\ subscription # "live" => UNCHANGED feed
    BY <2>1, LogEmits
  <2>5. signed' \subseteq signed
    BY <2>2 DEF H!StillAcceptable
  <2>6. Places' /\ Shape'
    BY <2>2, <2>3, <2>4, <2>5, PlacesKept DEF Shape
  <2>7. C!SubmitResize(s)
    BY <2>1, <2>2, <2>4 DEF on, H!SubmitResize, C!SubmitResize, H!Deltas, C!Deltas,
       H!Acceptable, C!Acceptable, H!StillAcceptable, C!StillAcceptable
  <2> QED
    BY <2>4, <2>6, <2>7
<1>4. ASSUME NEW s \in signed, OnClose(s) PROVE Composed' /\ C!SubmitClose(s)
  <2> DEFINE c == s.channel
             on == [status |-> "final", amount |-> 0, version |-> s.version]
  <2>1. Log("Closed", c, <<0, 0>>, on) /\ H!SubmitClose(s) /\ c \in Channels
    BY <1>4 DEF OnClose, Shape
  <2>2. contract' = [contract EXCEPT ![c] = on] /\ signed' = H!StillAcceptable(c, on)
        /\ UNCHANGED <<joins, listener, rows, ledger, pool, calls, faults>>
    BY <2>1 DEF H!SubmitClose
  <2> HIDE DEF on
  <2>3. contract' = [k \in Channels |-> contract'[k]]
    BY <2>1, <2>2, ExceptShape DEF Shape
  <2>4. /\ C!Emit("Closed", c, <<0, 0>>, on)
        /\ LogsFit' /\ UNCHANGED <<subscription, pc, withdrawn>>
        /\ subscription # "live" => UNCHANGED feed
    BY <2>1, LogEmits
  <2>5. signed' \subseteq signed
    BY <2>2 DEF H!StillAcceptable
  <2>6. Places' /\ Shape'
    BY <2>2, <2>3, <2>4, <2>5, PlacesKept DEF Shape
  <2>7. C!SubmitClose(s)
    BY <2>1, <2>2, <2>4 DEF on, H!SubmitClose, C!SubmitClose,
       H!Acceptable, C!Acceptable, H!StillAcceptable, C!StillAcceptable
  <2> QED
    BY <2>4, <2>6, <2>7
<1> QED
  BY <1>1, <1>2, <1>3, <1>4 DEF C!Next

-------------------------------------------------------------------------------
\* Custody's handlers.

\* What a handler takes is what the goroutine takes, and Custody's first event.
LEMMA TakingTakes ==
    ASSUME Composed, TakeLog \/ UNCHANGED vars, UNCHANGED logs, Taken # <<>>, H!Take(Watched)
    PROVE  /\ Pending # <<>> /\ Head(Pending) = Head(Taken)
           /\ C!Take(Watched) /\ UNCHANGED [n \in Chains |-> subscription = "live"]
           /\ pc' = "handle" /\ LogsFit' /\ UNCHANGED <<subscription, feed, withdrawn>>
<1> USE DEF Composed
<1>1. /\ channel \in Seq(Messages) /\ feed \in Seq(Messages) /\ written \in Nat
      /\ Known(written, channel)
  BY DEF LogsFit
<1>2. pc = "select" /\ channel # <<>>
  BY TakenIs
<1> DEFINE m == Head(channel)
           p == channel \o feed
<1>3. /\ m \in Messages /\ Tail(channel) \in Seq(Messages) /\ Known(written, Tail(channel))
  BY <1>1, <1>2, KnownTail
<1>4. p \in Seq(Messages) /\ p # <<>> /\ Tail(p) = Tail(channel) \o feed /\ Head(p) = m
  <2>1. p \in Seq(Messages)
    BY <1>1, ConcatProperties
  <2>2. p # <<>> /\ Tail(p) = Tail(channel) \o feed
    BY <1>1, <1>2, TailOfConcat
  <2>3. Len(channel) \in Nat \ {0} /\ Len(p) \in Nat \ {0} /\ p[1] = channel[1]
    BY <1>1, <1>2, <2>1, <2>2, EmptySeq, ConcatProperties
  <2> QED
    BY <1>1, <2>1, <2>2, <2>3
<1> HIDE DEF m, p
<1>5. Pending = EventsIn(logs, p) /\ Taken = EventsIn(logs, <<m>>)
  BY <1>2, PendingIs, TakenIs DEF p, m
<1>6. /\ Pending # <<>> /\ Head(Pending) = logs[m.log].event
      /\ Tail(Pending) = EventsIn(logs, Tail(p))
  BY <1>4, <1>5, FirstEvent
<1>7. <<m>> \in Seq(Messages) /\ <<m>> # <<>> /\ Head(<<m>>) = m /\ Tail(<<m>>) = <<>>
  BY <1>3
<1>8. Head(Taken) = logs[m.log].event /\ Tail(Taken) = <<>>
  <2>1. Head(Taken) = logs[m.log].event /\ Tail(Taken) = EventsIn(logs, <<>>)
    BY <1>5, <1>7, FirstEvent
  <2> QED
    BY <2>1, EventsOfNone
<1>9. Taken' = Tail(Taken)
  <2>1. [n \in Chains |-> Taken'] = [[n \in Chains |-> Taken] EXCEPT ![Watched] = Tail(@)]
    BY DEF H!Take
  <2>2. Watched \in Chains
    BY DEF Chains
  <2> QED
    BY <2>1, <2>2
<1>10. TakeLog
  <2> SUFFICES ASSUME UNCHANGED vars PROVE FALSE
    OBVIOUS
  <2>1. Taken' = Taken
    BY TakenIs DEF vars, goroutine
  <2> QED
    BY <1>8, <1>9, <2>1
<1>11. /\ channel' = Tail(channel) /\ pc' = "handle"
       /\ UNCHANGED <<node, library>>
  BY <1>10 DEF TakeLog
<1>12. LogsFit' /\ UNCHANGED <<subscription, feed, withdrawn>>
  BY <1>1, <1>3, <1>11 DEF LogsFit, node, library
<1>13. Pending' = Tail(Pending)
  BY <1>4, <1>6, <1>11, <1>12, PendingIs
<1>14. C!Take(Watched)
  <2>1. [n \in Chains |-> Pending'] = [[n \in Chains |-> Pending] EXCEPT ![Watched] = Tail(@)]
    BY <1>13 DEF Chains
  <2> QED
    BY <2>1 DEF C!Take
<1> QED
  BY <1>6, <1>8, <1>11, <1>12, <1>14

LEMMA StandsStill ==
    ASSUME UNCHANGED <<vars, logs>>
    PROVE  /\ UNCHANGED [n \in Chains |-> Pending]
           /\ UNCHANGED [n \in Chains |-> subscription = "live"]
<1>1. Pending' = Pending
  BY PendingIs DEF vars, goroutine, library
<1> QED
  BY <1>1 DEF vars, library

\* A handler in the middle of its work leaves the goroutine where it is.
LEMMA WorkingStays ==
    ASSUME Composed, TakeLog \/ UNCHANGED vars, listener[Watched].pc # "select"
    PROVE  UNCHANGED vars
BY DEF Composed, Places, TakeLog

LEMMA HandlingImplements ==
    ASSUME Composed, Handling
    PROVE  Composed' /\ C!Next
<1> USE DEF Composed
<1> DEFINE n == Watched
           P == [k \in Chains |-> Pending]
           Q == [k \in Chains |-> Taken]
<1>0. n \in Chains /\ P[n] = Pending /\ Q[n] = Taken
  BY DEF Chains
<1>1. (TakeLog \/ UNCHANGED vars) /\ UNCHANGED logs
  BY DEF Handling
<1>2. ASSUME Taken # <<>>, H!Take(n), UNCHANGED <<contract, calls, signed>>,
             listener' = [k \in Chains |-> listener'[k]]
      PROVE  /\ Composed' /\ Pending # <<>> /\ Head(Pending) = Head(Taken)
             /\ C!Take(n) /\ UNCHANGED [k \in Chains |-> subscription = "live"]
  <2>1. /\ Pending # <<>> /\ Head(Pending) = Head(Taken)
        /\ C!Take(n) /\ UNCHANGED [k \in Chains |-> subscription = "live"]
        /\ pc' = "handle" /\ LogsFit' /\ UNCHANGED <<subscription, feed, withdrawn>>
    BY <1>1, <1>2, TakingTakes
  <2>2. Shape'
    BY <1>2 DEF Shape
  <2>3. Places'
    BY <2>1 DEF Places
  <2> QED
    BY <2>1, <2>2, <2>3
<1>3. ASSUME listener[n].pc # "select", UNCHANGED <<contract, calls, signed>>,
             listener' = [k \in Chains |-> listener'[k]]
      PROVE  /\ Composed'
             /\ UNCHANGED P /\ UNCHANGED [k \in Chains |-> subscription = "live"]
  <2>1. UNCHANGED vars
    BY <1>1, <1>3, WorkingStays
  <2>2. Shape'
    BY <1>3 DEF Shape
  <2>3. Places' /\ LogsFit'
    BY <1>1, <1>3, <2>1 DEF Places, LogsFit, vars, node, library, goroutine
  <2> QED
    BY <1>1, <2>1, <2>2, <2>3, StandsStill
<1>4. \A pc_, c_, k_ : H!Busy(n, pc_, c_, k_) <=> C!Busy(n, pc_, c_, k_)
  BY DEF H!Busy, C!Busy
<1>5. H!Idle(n) <=> C!Idle(n)
  BY DEF H!Idle, C!Idle, H!Selecting, C!Selecting
<1>6. \A pc_, c_, k_ : H!Busy(n, pc_, c_, k_) => listener' = [k \in Chains |-> listener'[k]]
  BY DEF H!Busy, Shape
<1>7. H!Idle(n) => listener' = [k \in Chains |-> listener'[k]]
  BY DEF H!Idle, Shape
<1>8. UNCHANGED listener => listener' = [k \in Chains |-> listener'[k]]
  BY DEF Shape
<1>9. \A kind : H!HeadIs(n, kind) => Taken # <<>> /\ listener[n].pc = "select"
                                     /\ Head(Taken).kind = kind
  BY <1>0 DEF H!HeadIs
<1>10. \A kind : listener[n].pc = "select" /\ Pending # <<>> /\ Head(Pending).kind = kind
                 => C!HeadIs(n, kind)
  BY <1>0 DEF C!HeadIs
<1>11. \A c : H!ExistingOpenChannels(c) = C!ExistingOpenChannels(c)
  BY DEF H!ExistingOpenChannels, C!ExistingOpenChannels
<1>12. H!Fault <=> C!Fault
  BY DEF H!Fault, C!Fault
<1>13. C!Handle(n) \/ C!HandlerFails(n) => C!Next
  BY <1>0 DEF C!Next
<1> HIDE DEF Composed
<1> USE DEF H!chainVars, C!chainVars
<1>14. CASE H!HandleCreated(n)
  <2>1. /\ Taken # <<>> /\ H!Take(n) /\ UNCHANGED <<contract, calls, signed>>
        /\ listener' = [k \in Chains |-> listener'[k]]
    BY <1>6, <1>9, <1>14 DEF H!HandleCreated
  <2>2. C!HandleCreated(n)
    BY <1>0, <1>2, <1>4, <1>9, <1>10, <1>11, <1>14, <2>1 DEF H!HandleCreated, C!HandleCreated
  <2> QED
    BY <1>2, <1>13, <2>1, <2>2 DEF C!Handle
<1>15. CASE H!IgnoreCreated(n)
  <2>1. /\ Taken # <<>> /\ H!Take(n) /\ UNCHANGED <<contract, calls, signed>>
        /\ listener' = [k \in Chains |-> listener'[k]]
    BY <1>8, <1>9, <1>15 DEF H!IgnoreCreated
  <2>2. C!IgnoreCreated(n)
    BY <1>0, <1>2, <1>9, <1>10, <1>11, <1>15, <2>1 DEF H!IgnoreCreated, C!IgnoreCreated
  <2> QED
    BY <1>2, <1>13, <2>1, <2>2 DEF C!Handle
<1>16. CASE H!Join(n)
  <2>1. /\ listener[n].pc # "select" /\ UNCHANGED <<contract, calls, signed>>
        /\ listener' = [k \in Chains |-> listener'[k]]
    BY <1>7, <1>16 DEF H!Join
  <2>2. C!Join(n)
    BY <1>3, <1>5, <1>16, <2>1 DEF H!Join, C!Join
  <2> QED
    BY <1>3, <1>13, <2>1, <2>2 DEF C!Handle
<1>17. CASE H!HandleJoined(n)
  <2>1. /\ Taken # <<>> /\ H!Take(n) /\ UNCHANGED <<contract, calls, signed>>
        /\ listener' = [k \in Chains |-> listener'[k]]
    BY <1>8, <1>9, <1>17 DEF H!HandleJoined
  <2>2. C!HandleJoined(n)
    BY <1>0, <1>2, <1>9, <1>10, <1>17, <2>1 DEF H!HandleJoined, C!HandleJoined
  <2> QED
    BY <1>2, <1>13, <2>1, <2>2 DEF C!Handle
<1>18. CASE H!HandleClosed(n)
  <2>1. /\ Taken # <<>> /\ H!Take(n) /\ UNCHANGED <<contract, calls, signed>>
        /\ listener' = [k \in Chains |-> listener'[k]]
    BY <1>8, <1>9, <1>18 DEF H!HandleClosed
  <2>2. C!HandleClosed(n)
    BY <1>0, <1>2, <1>9, <1>10, <1>18, <2>1 DEF H!HandleClosed, C!HandleClosed
  <2> QED
    BY <1>2, <1>13, <2>1, <2>2 DEF C!Handle
<1>19. CASE H!HandleResized(n)
  <2>1. /\ Taken # <<>> /\ H!Take(n) /\ UNCHANGED <<contract, calls, signed>>
        /\ listener' = [k \in Chains |-> listener'[k]]
    BY <1>6, <1>9, <1>19 DEF H!HandleResized
  <2>2. C!HandleResized(n)
    BY <1>0, <1>2, <1>4, <1>9, <1>10, <1>19, <2>1 DEF H!HandleResized, C!HandleResized
  <2> QED
    BY <1>2, <1>13, <2>1, <2>2 DEF C!Handle
<1>20. CASE H!RecordResize(n)
  <2>1. /\ listener[n].pc # "select" /\ UNCHANGED <<contract, calls, signed>>
        /\ listener' = [k \in Chains |-> listener'[k]]
    BY <1>7, <1>20 DEF H!RecordResize
  <2>2. C!RecordResize(n)
    BY <1>3, <1>5, <1>20, <2>1 DEF H!RecordResize, C!RecordResize
  <2> QED
    BY <1>3, <1>13, <2>1, <2>2 DEF C!Handle
<1>21. CASE H!IgnoreUnknown(n)
  <2>1. /\ Taken # <<>> /\ H!Take(n) /\ UNCHANGED <<contract, calls, signed>>
        /\ listener' = [k \in Chains |-> listener'[k]]
    BY <1>8, <1>9, <1>21 DEF H!IgnoreUnknown
  <2>2. C!IgnoreUnknown(n)
    BY <1>0, <1>2, <1>9, <1>10, <1>21, <2>1 DEF H!IgnoreUnknown, C!IgnoreUnknown
  <2> QED
    BY <1>2, <1>13, <2>1, <2>2 DEF C!Handle
<1>22. CASE H!HandlerFails(n)
  <2>1. CASE listener[n].pc = "select"
    <3>1. /\ Taken # <<>> /\ H!Take(n) /\ UNCHANGED <<contract, calls, signed>>
          /\ listener' = [k \in Chains |-> listener'[k]]
      BY <1>0, <1>8, <1>22, <2>1 DEF H!HandlerFails
    <3>2. C!HandlerFails(n)
      BY <1>0, <1>2, <1>12, <1>22, <2>1, <3>1 DEF H!HandlerFails, C!HandlerFails
    <3> QED
      BY <1>2, <1>13, <3>1, <3>2
  <2>2. CASE listener[n].pc # "select"
    <3>1. /\ UNCHANGED <<contract, calls, signed>>
          /\ listener' = [k \in Chains |-> listener'[k]]
      BY <1>7, <1>22, <2>2 DEF H!HandlerFails
    <3>2. C!HandlerFails(n)
      BY <1>3, <1>5, <1>12, <1>22, <2>2, <3>1 DEF H!HandlerFails, C!HandlerFails
    <3> QED
      BY <1>3, <1>13, <2>2, <3>1, <3>2
  <2> QED
    BY <2>1, <2>2
<1> QED
  BY <1>14, <1>15, <1>16, <1>17, <1>18, <1>19, <1>20, <1>21, <1>22 DEF Handling, H!Handle

-------------------------------------------------------------------------------
\* Subscriptions, requests and the end of the process.

\* Custody's variables outside of the listener.
Rest == <<contract, wallet, joins, listener, rows, ledger, pool, calls, signed, faults>>

LEMMA Stutters ==
    ASSUME UNCHANGED Rest, Pending' = Pending,
           (subscription' = "live") <=> (subscription = "live")
    PROVE  UNCHANGED C!vars
BY DEF Rest, C!vars

LEMMA ShapeKept == Shape /\ UNCHANGED <<contract, listener, calls, signed>> => Shape'
BY DEF Shape

\* A subscription that ends cuts Custody's queue off where the channel ends.
LEMMA EndImplements ==
    ASSUME Composed, EndSubscription
    PROVE  Composed' /\ [C!Next]_(C!vars)
<1> USE DEF Composed
<1>1. /\ subscription' = IF subscription = "live" THEN "failed" ELSE subscription
      /\ feed' = <<>> /\ UNCHANGED <<written, withdrawn, goroutine>>
      /\ subscription = "live" => H!Fault
      /\ subscription # "live" => UNCHANGED faults
      /\ UNCHANGED <<chainVars, listener, rows, ledger, pool, calls, signed, logs>>
  BY DEF EndSubscription, Disconnect, Overflow, node
<1>2. /\ channel \in Seq(Messages) /\ feed \in Seq(Messages) /\ UNCHANGED <<channel, pc>>
  BY <1>1 DEF LogsFit, goroutine
<1>3. Composed'
  <2>1. Shape'
    BY <1>1, ShapeKept DEF chainVars
  <2>2. Places'
    BY <1>1, <1>2 DEF Places
  <2>3. LogsFit'
    BY <1>1, <1>2, KnownNone DEF LogsFit
  <2> QED
    BY <2>1, <2>2, <2>3
<1>4. CASE subscription # "live"
  <2>1. feed' = feed /\ subscription' = subscription
    BY <1>1, <1>4 DEF Places
  <2>2. Pending' = Pending
    BY <1>1, <1>2, <2>1, PendingIs
  <2>3. UNCHANGED Rest
    BY <1>1, <1>4 DEF Rest, chainVars
  <2> QED
    BY <1>3, <2>1, <2>2, <2>3, Stutters
<1>5. CASE subscription = "live"
  <2>1. pc \in {"select", "handle"}
    BY <1>5 DEF Places
  <2>2. Pending = EventsIn(logs, channel \o feed)
    BY <2>1, PendingIs
  <2>3. Pending' = EventsIn(logs, channel)
    <3>1. channel \o <<>> = channel
      BY <1>2, ConcatEmptySeq
    <3> QED
      BY <1>1, <1>2, <2>1, <3>1, PendingIs
  <2>4. Len(channel) \in 0..Len(Pending) /\ Pending' = SubSeq(Pending, 1, Len(channel))
    BY <1>2, <2>2, <2>3, EventsCut
  <2>5. Watched \in Chains /\ Chains = {Watched}
    BY DEF Chains
  <2>6. C!SubscriptionLost(Watched)
    <3>1. C!Fault /\ subscription' # "live"
      BY <1>1, <1>5 DEF H!Fault, C!Fault
    <3>2. [n \in Chains |-> Pending'] =
             [[n \in Chains |-> Pending] EXCEPT ![Watched] = SubSeq(@, 1, Len(channel))]
      BY <2>4, <2>5
    <3>3. [n \in Chains |-> subscription' = "live"] =
             [[n \in Chains |-> subscription = "live"] EXCEPT ![Watched] = FALSE]
      BY <2>5, <3>1
    <3>4. [n \in Chains |-> Pending][Watched] = Pending
          /\ [n \in Chains |-> subscription = "live"][Watched]
      BY <1>5, <2>5
    <3> QED
      BY <1>1, <2>4, <3>1, <3>2, <3>3, <3>4 DEF C!SubscriptionLost, C!chainVars, chainVars
  <2> QED
    BY <1>3, <2>5, <2>6 DEF C!Next
<1> QED
  BY <1>4, <1>5

LEMMA SubscribingImplements ==
    ASSUME Composed, Subscribing
    PROVE  Composed' /\ [C!Next]_(C!vars)
<1> USE DEF Composed, node, library, goroutine
<1>0. /\ channel \in Seq(Messages) /\ feed \in Seq(Messages) /\ written \in Nat
      /\ Known(written, channel) /\ Known(written, feed)
      /\ Watched \in Chains /\ Chains = {Watched}
  BY DEF LogsFit, Chains
<1>1. UNCHANGED Rest /\ UNCHANGED logs
  BY DEF Subscribing, Rest, custody, chainVars
<1>2. Shape'
  BY <1>1, ShapeKept DEF Rest
<1>3. ASSUME UNCHANGED written,
             channel' \in Seq(Messages), feed' \in Seq(Messages),
             Known(written, channel'), Known(written, feed')
      PROVE  LogsFit'
  BY <1>1, <1>3 DEF LogsFit
<1>4. CASE Reconnect
  <2>1. UNCHANGED <<written, subscription, feed, channel, pc>>
    BY <1>4 DEF Reconnect
  <2>2. Places' /\ LogsFit'
    BY <1>0, <1>1, <1>3, <2>1 DEF Places, Rest
  <2>3. Pending' = Pending
    BY <1>1, <2>1, PendingIs
  <2> QED
    BY <1>1, <1>2, <2>1, <2>2, <2>3, Stutters
<1>5. CASE Forward
  <2>1. /\ subscription = "live" /\ feed # <<>>
        /\ channel' = Append(channel, Head(feed)) /\ feed' = Tail(feed)
        /\ UNCHANGED <<written, subscription, pc>>
    BY <1>5 DEF Forward
  <2>2. LogsFit'
    <3>1. /\ Head(feed) \in Messages /\ Head(feed).log \in 1..written
          /\ feed' \in Seq(Messages) /\ Known(written, feed')
      BY <1>0, <2>1, KnownTail
    <3>2. channel' \in Seq(Messages) /\ Known(written, channel')
      BY <1>0, <2>1, <3>1, KnownAppend
    <3> QED
      BY <1>3, <2>1, <3>1, <3>2
  <2>3. Places'
    BY <1>1, <2>1 DEF Places, Rest
  <2>4. Pending' = Pending
    <3>1. channel' \o feed' = channel \o feed
      BY <1>0, <2>1, HeadMoves
    <3> QED
      BY <1>1, <2>1, <3>1, PendingIs
  <2> QED
    BY <1>1, <1>2, <2>1, <2>2, <2>3, <2>4, Stutters
<1>6. CASE BackOff \/ GiveUp
  <2>1. /\ pc = "wait" /\ pc' \in {"subscribe", "exited"}
        /\ UNCHANGED <<written, subscription, feed, channel>>
    BY <1>6 DEF BackOff, GiveUp
  <2>2. Places' /\ LogsFit'
    BY <1>0, <1>1, <1>3, <2>1 DEF Places, Rest
  <2>3. Pending' = Pending
    BY <2>1, PendingIs
  <2> QED
    BY <1>1, <1>2, <2>1, <2>2, <2>3, Stutters
<1>7. CASE SubscribeFails
  <2>1. /\ pc = "subscribe" /\ pc' = "wait" /\ channel' = <<>>
        /\ UNCHANGED <<written, subscription, feed>>
    BY <1>7 DEF SubscribeFails
  <2>2. Places' /\ LogsFit'
    BY <1>0, <1>1, <1>3, <2>1, KnownNone DEF Places, Rest
  <2>3. Pending' = Pending
    BY <2>1, PendingIs
  <2> QED
    BY <1>1, <1>2, <2>1, <2>2, <2>3, Stutters
<1>8. CASE Subscribe
  <2>1. /\ pc = "subscribe" /\ pc' = "select" /\ channel' = <<>> /\ feed' = <<>>
        /\ subscription' = "live" /\ subscription = "none"
        /\ listener[Watched].pc = "select" /\ UNCHANGED written
    BY <1>8 DEF Subscribe, Places
  <2>2. Places' /\ LogsFit'
    BY <1>0, <1>1, <1>3, <2>1, KnownNone DEF Places, Rest
  <2>3. Pending = <<>> /\ Pending' = <<>>
    <3>1. <<>> \o <<>> = <<>>
      OBVIOUS
    <3> QED
      BY <2>1, <3>1, PendingIs, EventsOfNone
  <2>4. C!Subscribe(Watched)
    <3>1. [n \in Chains |-> subscription' = "live"] =
             [[n \in Chains |-> subscription = "live"] EXCEPT ![Watched] = TRUE]
      BY <1>0, <2>1
    <3> QED
      BY <1>0, <1>1, <2>1, <2>3, <3>1 DEF C!Subscribe, C!chainVars, Rest
  <2> QED
    BY <1>0, <1>2, <2>2, <2>4 DEF C!Next
<1>9. CASE TakeError
  <2>1. /\ pc = "select" /\ pc' = "wait" /\ feed' = <<>>
        /\ subscription = "failed" /\ subscription' = "none"
        /\ listener[Watched].pc = "select" /\ UNCHANGED <<written, channel>>
    BY <1>9 DEF TakeError, Places
  <2>2. Places' /\ LogsFit'
    BY <1>0, <1>1, <1>3, <2>1, KnownNone DEF Places, Rest
  <2>3. Pending' = <<>>
    BY <2>1, PendingIs
  <2>4. CASE Pending = <<>>
    BY <1>1, <1>2, <2>1, <2>2, <2>3, <2>4, Stutters
  <2>5. CASE Pending # <<>>
    <3>1. [n \in Chains |-> Pending'] = [[n \in Chains |-> Pending] EXCEPT ![Watched] = <<>>]
      BY <1>0, <2>3
    <3>2. [n \in Chains |-> subscription' = "live"] = [n \in Chains |-> subscription = "live"]
      BY <2>1
    <3>3. [n \in Chains |-> Pending][Watched] = Pending
          /\ ~[n \in Chains |-> subscription = "live"][Watched]
      BY <1>0, <2>1
    <3>4. C!Abandon(Watched)
      BY <1>1, <2>1, <2>5, <3>1, <3>2, <3>3 DEF C!Abandon, C!chainVars, Rest
    <3> QED
      BY <1>0, <1>2, <2>2, <3>4 DEF C!Next
  <2> QED
    BY <2>4, <2>5
<1> QED
  BY <1>4, <1>5, <1>6, <1>7, <1>8, <1>9 DEF Subscribing

LEMMA ReturnImplements ==
    ASSUME Composed, Return
    PROVE  Composed' /\ [C!Next]_(C!vars)
<1> USE DEF Composed
<1>1. /\ pc = "handle" /\ pc' = "select" /\ listener[Watched].pc = "select"
      /\ UNCHANGED <<written, subscription, feed, channel, logs>> /\ UNCHANGED Rest
  BY DEF Return, HandlerReturns, node, library, custody, chainVars, Rest
<1>2. Shape' /\ Places' /\ LogsFit'
  BY <1>1, ShapeKept DEF Places, LogsFit, Rest
<1>3. Pending' = Pending
  BY <1>1, PendingIs
<1> QED
  BY <1>1, <1>2, <1>3, Stutters

LEMMA RestartImplements ==
    ASSUME Composed, Restart
    PROVE  Composed' /\ C!Next
<1> USE DEF Composed
<1>1. /\ subscription' = "none" /\ feed' = <<>> /\ channel' = <<>> /\ pc' = "wait"
      /\ UNCHANGED <<written, withdrawn, logs>> /\ H!Crash
  BY DEF Restart, node
<1>2. /\ listener' = [n \in Chains |-> H!Selecting] /\ calls' = [w \in Workers |-> H!NoCall]
      /\ UNCHANGED <<contract, wallet, joins, rows, ledger, pool, signed>> /\ H!Fault
  BY <1>1 DEF H!Crash, H!chainVars
<1>3. Watched \in Chains /\ H!NoCall = C!NoCall /\ H!Selecting = C!Selecting
      /\ C!Selecting.pc = "select"
  BY DEF Chains, H!NoCall, C!NoCall, H!Selecting, C!Selecting
<1>4. Shape'
  BY <1>2, <1>3 DEF Shape
<1>5. Places' /\ LogsFit'
  <2>1. listener'[Watched].pc = "select"
    BY <1>2, <1>3
  <2> QED
    BY <1>1, <2>1, KnownNone DEF Places, LogsFit
<1>6. Pending' = <<>>
  BY <1>1, PendingIs
<1>7. C!Crash
  <2>1. [n \in Chains |-> subscription' = "live"] = [n \in Chains |-> FALSE]
    BY <1>1
  <2>2. C!Fault
    BY <1>2 DEF H!Fault, C!Fault
  <2> QED
    BY <1>2, <1>3, <1>6, <2>1, <2>2 DEF C!Crash, C!chainVars
<1> QED
  BY <1>4, <1>5, <1>7 DEF C!Next

\* Requests of users, which the listener is not concerned with.
LEMMA RequestImplements ==
    ASSUME Composed, Request
    PROVE  Composed' /\ C!Next
<1> USE DEF Composed, H!chainVars, C!chainVars
<1>1. UNCHANGED vars /\ UNCHANGED logs
  BY DEF Request
<1>2. /\ UNCHANGED [n \in Chains |-> Pending]
      /\ UNCHANGED [n \in Chains |-> subscription = "live"]
  BY <1>1, StandsStill
<1>3. ASSUME UNCHANGED listener PROVE Places' /\ LogsFit'
  BY <1>1, <1>3 DEF Places, LogsFit, vars, node, library, goroutine
<1>4. H!NoCall = C!NoCall
  BY DEF H!NoCall, C!NoCall
<1>5. ASSUME NEW w \in Workers, NEW call, calls' = [calls EXCEPT ![w] = call],
             call # C!NoCall => call.channel \in Channels,
             UNCHANGED <<contract, listener>>,
             \A s \in signed' : s.channel \in Channels
      PROVE  Shape'
  <2>1. calls' = [v \in Workers |-> calls'[v]] /\ calls'[w] = call
        /\ \A v \in Workers : v # w => calls'[v] = calls[v]
    BY <1>5, ExceptShape DEF Shape
  <2>2. \A v \in Workers : calls'[v] # C!NoCall => calls'[v].channel \in Channels
    BY <1>5, <2>1 DEF Shape
  <2> QED
    BY <1>5, <2>1, <2>2 DEF Shape, C!NoCall
<1>6. ASSUME NEW w \in Workers, NEW c \in Channels, NEW r, NEW b, H!ReadChannel(w, c, r, b)
      PROVE  Composed' /\ C!ReadChannel(w, c, r, b)
  <2> DEFINE call == [channel |-> c, amount |-> rows[c].amount, version |-> rows[c].version,
                      resize |-> r, close |-> b]
  <2>1. /\ calls' = [calls EXCEPT ![w] = call]
        /\ UNCHANGED <<contract, listener, signed>>
    BY <1>6 DEF H!ReadChannel
  <2>2. call.channel \in Channels
    OBVIOUS
  <2>3. \A s \in signed' : s.channel \in Channels
    BY <2>1 DEF Shape
  <2> HIDE DEF call
  <2>4. Shape'
    BY <1>5, <2>1, <2>2, <2>3
  <2>5. H!Outstanding = C!Outstanding
    <3>1. {v \in Workers : calls[v] # H!NoCall} = {v \in Workers : calls[v] # C!NoCall}
      BY <1>4
    <3>2. \A S : H!Cardinality(S) = C!Cardinality(S)
      BY Zenon DEF H!Cardinality, C!Cardinality
    <3> QED
      BY <3>1, <3>2 DEF H!Outstanding, C!Outstanding
  <2>6. C!ReadChannel(w, c, r, b)
    BY <1>2, <1>4, <1>6, <2>5 DEF H!ReadChannel, C!ReadChannel
  <2> QED
    BY <1>3, <2>1, <2>4, <2>6
<1>7. ASSUME NEW w \in Workers, NEW s, H!Sign(w, s), s.channel \in Channels
      PROVE  Composed' /\ C!Sign(w, s)
  <2>1. /\ calls' = [calls EXCEPT ![w] = C!NoCall]
        /\ UNCHANGED <<contract, listener>> /\ signed' \subseteq signed \cup {s}
    BY <1>4, <1>7 DEF H!Sign
  <2>2. \A t \in signed' : t.channel \in Channels
    BY <1>7, <2>1 DEF Shape
  <2>3. Shape'
    BY <1>5, <2>1, <2>2
  <2>4. C!Sign(w, s)
    BY <1>2, <1>4, <1>7 DEF H!Sign, C!Sign, H!Acceptable, C!Acceptable
  <2> QED
    BY <1>3, <2>1, <2>3, <2>4
<1>8. ASSUME NEW w \in Workers, H!SignResize(w) PROVE Composed' /\ C!SignResize(w)
  <2>1. /\ calls[w] # C!NoCall /\ H!ResizeState(calls[w]).channel \in Channels
        /\ H!Sign(w, H!ResizeState(calls[w]))
    BY <1>4, <1>8 DEF H!SignResize, H!ResizeState, Shape
  <2>2. Composed' /\ C!Sign(w, H!ResizeState(calls[w]))
    BY <1>7, <2>1
  <2>3. H!ResizeState(calls[w]) = C!ResizeState(calls[w])
    BY DEF H!ResizeState, C!ResizeState
  <2> QED
    BY <1>8, <2>1, <2>2, <2>3 DEF H!SignResize, C!SignResize, H!Resizable, C!Resizable
<1>9. ASSUME NEW w \in Workers, H!SignClose(w) PROVE Composed' /\ C!SignClose(w)
  <2> DEFINE balance == ledger[Owner[calls[w].channel]]
  <2>1. /\ calls[w] # C!NoCall /\ H!CloseState(calls[w], balance).channel \in Channels
        /\ H!Sign(w, H!CloseState(calls[w], balance))
    BY <1>4, <1>9 DEF H!SignClose, H!CloseState, Shape
  <2>2. Composed' /\ C!Sign(w, H!CloseState(calls[w], balance))
    BY <1>7, <2>1
  <2>3. H!CloseState(calls[w], balance) = C!CloseState(calls[w], balance)
    BY DEF H!CloseState, C!CloseState
  <2> QED
    BY <1>9, <2>1, <2>2, <2>3 DEF H!SignClose, C!SignClose, H!Closable, C!Closable
<1>10. ASSUME NEW w \in Workers, H!Refuse(w) PROVE Composed' /\ C!Refuse(w)
  <2>1. /\ calls' = [calls EXCEPT ![w] = C!NoCall]
        /\ UNCHANGED <<contract, listener, signed>>
    BY <1>4, <1>10 DEF H!Refuse
  <2>2. \A s \in signed' : s.channel \in Channels
    BY <2>1 DEF Shape
  <2>3. Shape'
    BY <1>5, <2>1, <2>2
  <2>4. C!Refuse(w)
    BY <1>2, <1>4, <1>10 DEF H!Refuse, C!Refuse, H!Resizable, C!Resizable, H!Closable, C!Closable
  <2> QED
    BY <1>3, <2>1, <2>3, <2>4
<1>11. ASSUME NEW o \in Owners, NEW k \in Bets, H!LockFunds(o, k) \/ H!PayOut(o, k)
       PROVE  Composed' /\ (C!LockFunds(o, k) \/ C!PayOut(o, k))
  <2>1. UNCHANGED <<contract, listener, calls, signed>>
    BY <1>11 DEF H!LockFunds, H!PayOut
  <2>2. Composed'
    BY <1>3, <2>1, ShapeKept
  <2> QED
    BY <1>2, <1>11, <2>2 DEF H!LockFunds, H!PayOut, C!LockFunds, C!PayOut
<1> HIDE DEF Composed
<1> QED
  BY <1>6, <1>8, <1>9, <1>10, <1>11 DEF Request, C!Next

-------------------------------------------------------------------------------
\* The composed system.

LEMMA NothingWithdrawn == SystemNext /\ withdrawn' = {} => withdrawn = {}
<1> SUFFICES ASSUME SystemNext, withdrawn' = {} PROVE withdrawn = {}
  OBVIOUS
<1>1. withdrawn \subseteq withdrawn'
  BY DEF SystemNext, OnCreate, OnJoin, OnResize, OnClose, Log, WriteLog, Reorganise,
     WithdrawLog, EndSubscription, Disconnect, Overflow, Handling, TakeLog, Return,
     HandlerReturns, Subscribing, Reconnect, Forward, BackOff, GiveUp, SubscribeFails,
     Subscribe, TakeError, Restart, Request, vars, node
<1> QED
  BY <1>1

LEMMA ReorganiseWithdraws == Reorganise => withdrawn' # {}
BY DEF Reorganise, WithdrawLog

LEMMA SystemImplements ==
    ASSUME withdrawn = {} => Composed, [SystemNext]_systemVars
    PROVE  /\ (withdrawn = {} => Composed)'
           /\ [withdrawn' = {} => C!Next]_(C!vars)
<1>1. CASE UNCHANGED systemVars
  <2>1. UNCHANGED Rest /\ UNCHANGED vars /\ UNCHANGED logs
    BY <1>1 DEF systemVars, custody, chainVars, Rest
  <2>2. UNCHANGED C!vars
    <3>1. Pending' = Pending /\ subscription' = subscription
      BY <2>1, PendingIs DEF vars, goroutine, library
    <3> QED
      BY <2>1, <3>1, Stutters
  <2>3. Composed => Composed'
    BY <2>1, ShapeKept DEF Composed, Places, LogsFit, vars, node, library, goroutine, Rest
  <2>4. withdrawn' = withdrawn
    BY <2>1 DEF vars, node
  <2> QED
    BY <2>2, <2>3, <2>4
<1>2. CASE SystemNext /\ withdrawn' # {}
  BY <1>2
<1>3. CASE SystemNext /\ withdrawn' = {}
  <2>1. Composed
    BY <1>3, NothingWithdrawn
  <2>2. ~Reorganise
    BY <1>3, ReorganiseWithdraws
  <2>3. Composed' /\ [C!Next]_(C!vars)
    BY <1>3, <2>1, <2>2, ContractImplements, EndImplements, HandlingImplements,
       ReturnImplements, SubscribingImplements, RestartImplements, RequestImplements
       DEF SystemNext
  <2> QED
    BY <2>3
<1> QED
  BY <1>1, <1>2, <1>3

LEMMA SystemStarts == SystemInit => C!Init /\ Composed
<1> SUFFICES ASSUME SystemInit PROVE C!Init /\ Composed
  OBVIOUS
<1>1. /\ written = 0 /\ subscription = "live" /\ feed = <<>> /\ channel = <<>>
      /\ pc = "select" /\ logs = <<>> /\ C!Init
  BY DEF SystemInit
<1>2. Watched \in Chains /\ C!Selecting.pc = "select"
  BY DEF Chains, C!Selecting
<1>3. Shape
  BY <1>1 DEF Shape, C!Init
<1>4. Places
  BY <1>1, <1>2 DEF Places, C!Init
<1>5. LogsFit
  <2>1. logs \in Seq({}) /\ Len(logs) = 0
    BY <1>1
  <2> QED
    BY <1>1, <2>1, KnownNone DEF LogsFit, IsSequence
<1> QED
  BY <1>1, <1>3, <1>4, <1>5 DEF Composed

\* Until a log is withdrawn, handlers that run on the logs that the listener takes
\* do only what Custody allows, whatever the buffers hold, however often the
\* subscription or the process ends: what is proved of Custody is true of them.
THEOREM HandlersImplementCustody == SystemSpec => ImplementsCustody
<1> DEFINE Step == [withdrawn' = {} => C!Next]_(C!vars)
           I == withdrawn = {} => Composed
<1>1. SystemInit => C!Init /\ I
  BY SystemStarts
<1>2. I /\ [SystemNext]_systemVars => I' /\ Step
  BY SystemImplements
<1> QED
  BY <1>1, <1>2, PTL DEF SystemSpec, ImplementsCustody
===============================================================================
