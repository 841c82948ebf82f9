------------------------------ MODULE EthListener ------------------------------
(***************************************************************************)
(* The event listener of one chain (listenEvents, eth_listener.go): a      *)
(* goroutine that subscribes to the custody contract's logs, hands them to *)
(* the event handler one by one, and subscribes again, after a delay, when *)
(* the subscription ends or cannot be made.  After too many failures in a  *)
(* row it ends the whole process.                                          *)
(*                                                                         *)
(* External: the node, which may be out of reach and which withdraws logs  *)
(* when its chain reorganises, and the client library, which keeps a queue *)
(* between the connection and the listener's channel.  It ends the         *)
(* subscription when the connection fails or the queue is full, and what   *)
(* is in the queue is lost with it.                                        *)
(***************************************************************************)
EXTENDS Integers, Sequences, FiniteSetsExt, Functions

CONSTANTS
    Capacity,           \* of the listener's channel (100)
    QueueLimit,         \* of the library's queue
    MaxBackOff,         \* maxBackOffCount
    MaxLogs,            \* bound on the logs the contract writes
    MaxReorgs           \* bound on the logs the chain withdraws

ASSUME SizesType == Capacity \in Nat \ {0} /\ QueueLimit \in Nat /\ MaxBackOff \in Nat
ASSUME BoundsType == MaxLogs \in Nat /\ MaxReorgs \in Nat

VARIABLES
    written,            \* logs the contract wrote; they are numbered
    withdrawn,          \* those that a reorganisation took off the chain
    reachable,          \* whether the node can be reached
    subscription,       \* "none", "live" or "failed" (its error waits)
    feed,               \* messages sent to the library that it has not passed on
    channel,            \* currentCh: what waits for the select
    pc,                 \* the goroutine: "wait", "subscribe", "select", "handle" or "exited"
    backOffCount,
    waited,             \* seconds slept since there was a subscription
    handled             \* the messages given to the handler, for the properties

node == <<written, withdrawn, reachable>>
library == <<subscription, feed>>
goroutine == <<channel, pc, backOffCount, waited, handled>>
vars == <<node, library, goroutine>>

Messages == [log : Nat \ {0}, removed : BOOLEAN]

Init ==
    /\ written = 0 /\ withdrawn = {} /\ reachable \in BOOLEAN
    /\ subscription = "none" /\ feed = <<>> /\ channel = <<>>
    /\ pc = "wait" /\ backOffCount = 0 /\ waited = 0 /\ handled = <<>>

-------------------------------------------------------------------------------
\* The node and the client library.

\* A live subscription is sent a message.
Deliver(message) ==
    IF subscription = "live" THEN feed' = Append(feed, message) /\ UNCHANGED subscription
    ELSE UNCHANGED library

WriteLog ==
    /\ written < MaxLogs /\ pc # "exited"
    /\ written' = written + 1
    /\ Deliver([log |-> written + 1, removed |-> FALSE])
    /\ UNCHANGED <<withdrawn, reachable, goroutine>>

\* The chain loses its latest log and the node sends it again, as removed.
WithdrawLog ==
    LET log == Max((1..written) \ withdrawn)
    IN  /\ (1..written) \ withdrawn # {} /\ pc # "exited"
        /\ Cardinality(withdrawn) < MaxReorgs
        /\ withdrawn' = withdrawn \cup {log}
        /\ Deliver([log |-> log, removed |-> TRUE])
        /\ UNCHANGED <<written, reachable, goroutine>>

\* The node gets out of reach: a live subscription fails.
Disconnect ==
    /\ reachable /\ reachable' = FALSE /\ pc # "exited"
    /\ subscription' = IF subscription = "live" THEN "failed" ELSE subscription
    /\ feed' = <<>>
    /\ UNCHANGED <<written, withdrawn, goroutine>>

Reconnect ==
    /\ ~reachable /\ reachable' = TRUE /\ pc # "exited"
    /\ UNCHANGED <<written, withdrawn, library, goroutine>>

\* The library passes a message on when the channel has room.
Forward ==
    /\ subscription = "live" /\ feed # <<>> /\ Len(channel) < Capacity
    /\ channel' = Append(channel, Head(feed)) /\ feed' = Tail(feed)
    /\ UNCHANGED <<node, subscription, pc, backOffCount, waited, handled>>

\* One message more than the library's queue takes ends the subscription, if no
\* other is passed on before the library reads it.
Overflow ==
    /\ subscription = "live" /\ Len(feed) > QueueLimit
    /\ subscription' = "failed" /\ feed' = <<>>
    /\ UNCHANGED <<node, goroutine>>

-------------------------------------------------------------------------------
\* The goroutine.

\* 2^n in Go is an exclusive or.
XorTwo(n) == IF (n \div 2) % 2 = 1 THEN n - 2 ELSE n + 2

\* What waitForBackOffTimeout sleeps: a negative duration is none.
Delay(n) == IF n > 0 /\ XorTwo(n) > 1 THEN XorTwo(n) - 1 ELSE 0

\* Mutant: there is no limit.
BackOffForever ==
    /\ pc = "wait"
    /\ waited' = waited + Delay(backOffCount)
    /\ pc' = "subscribe"
    /\ UNCHANGED <<node, library, channel, backOffCount, handled>>

BackOff ==
    /\ pc = "wait" /\ backOffCount <= MaxBackOff
    /\ waited' = waited + Delay(backOffCount)
    /\ pc' = "subscribe"
    /\ UNCHANGED <<node, library, channel, backOffCount, handled>>

\* The fatal log entry ends the process, and with it the other chains' listeners.
GiveUp ==
    /\ pc = "wait" /\ backOffCount > MaxBackOff
    /\ pc' = "exited"
    /\ UNCHANGED <<node, library, channel, backOffCount, waited, handled>>

SubscribeFails ==
    /\ pc = "subscribe" /\ ~reachable
    /\ channel' = <<>>
    /\ backOffCount' = backOffCount + 1 /\ pc' = "wait"
    /\ UNCHANGED <<node, library, waited, handled>>

\* Mutant: the count goes on where the last failures left it.
SubscribeKeepsCount ==
    /\ pc = "subscribe" /\ reachable
    /\ channel' = <<>>
    /\ subscription' = "live" /\ feed' = <<>>
    /\ waited' = 0 /\ pc' = "select"
    /\ UNCHANGED <<node, backOffCount, handled>>

\* Mutant: the subscription gets the channel that the last one left.
SubscribeOldChannel ==
    /\ pc = "subscribe" /\ reachable
    /\ subscription' = "live" /\ feed' = <<>>
    /\ backOffCount' = 0 /\ waited' = 0 /\ pc' = "select"
    /\ UNCHANGED <<node, channel, handled>>

\* A new channel and a subscription to the logs from now on.
Subscribe ==
    /\ pc = "subscribe" /\ reachable
    /\ channel' = <<>>
    /\ subscription' = "live" /\ feed' = <<>>
    /\ backOffCount' = 0 /\ waited' = 0 /\ pc' = "select"
    /\ UNCHANGED <<node, handled>>

\* Mutant: the message stays in the channel.
PeekLog ==
    /\ pc = "select" /\ channel # <<>>
    /\ handled' = Append(handled, Head(channel)) /\ pc' = "handle"
    /\ UNCHANGED <<node, library, channel, backOffCount, waited>>

\* The select takes a log, whether or not an error waits as well.
TakeLog ==
    /\ pc = "select" /\ channel # <<>>
    /\ channel' = Tail(channel)
    /\ handled' = Append(handled, Head(channel)) /\ pc' = "handle"
    /\ UNCHANGED <<node, library, backOffCount, waited>>

\* Mutant: the loop subscribes whether or not it has a subscription.
HandlerResubscribes ==
    /\ pc = "handle" /\ pc' = "wait"
    /\ UNCHANGED <<node, library, channel, backOffCount, waited, handled>>

HandlerReturns ==
    /\ pc = "handle" /\ pc' = "select"
    /\ UNCHANGED <<node, library, channel, backOffCount, waited, handled>>

\* Mutant: the ended subscription is kept, so no other one is made.
KeepFailed ==
    /\ pc = "select" /\ subscription = "failed"
    /\ subscription' = "none" /\ feed' = <<>>
    /\ UNCHANGED <<node, goroutine>>

\* The select takes the error, whether or not logs wait as well.
TakeError ==
    /\ pc = "select" /\ subscription = "failed"
    /\ subscription' = "none" /\ feed' = <<>> /\ pc' = "wait"
    /\ UNCHANGED <<node, channel, backOffCount, waited, handled>>

Goroutine ==
    \/ BackOff \/ GiveUp \/ SubscribeFails \/ Subscribe
    \/ TakeLog \/ HandlerReturns \/ TakeError

Next ==
    \/ WriteLog \/ WithdrawLog \/ Disconnect \/ Reconnect \/ Forward \/ Overflow
    \/ Goroutine

Spec == Init /\ [][Next]_vars

\* The goroutines run; that the handler returns is an assumption on it.
FairSpec == Spec /\ WF_vars(Forward) /\ WF_vars(Goroutine)

-------------------------------------------------------------------------------
\* Properties.

TypeOK ==
    /\ written \in Nat /\ withdrawn \subseteq 1..written /\ reachable \in BOOLEAN
    /\ subscription \in {"none", "live", "failed"}
    /\ feed \in Seq(Messages) /\ channel \in Seq(Messages) /\ handled \in Seq(Messages)
    /\ pc \in {"wait", "subscribe", "select", "handle", "exited"}
    /\ backOffCount \in 0..(MaxBackOff + 1) /\ waited \in Nat

\* The handler gets logs in the order the chain wrote them and each one once,
\* over all subscriptions; only the withdrawals in between repeat one.
HandledInOrder ==
    \A i, j \in DOMAIN handled :
        i < j /\ ~handled[i].removed /\ ~handled[j].removed => handled[i].log < handled[j].log

\* The process gives up only when the node was out of reach at every attempt
\* since there was a subscription, the last one after all the delays.
GivesUpLate ==
    pc = "exited" =>
        /\ waited = SumFunctionOnSet([n \in 1..MaxBackOff |-> Delay(n)], 1..MaxBackOff)
        /\ subscription = "none"

Waiting(log) == \E i \in DOMAIN (channel \o feed) : (channel \o feed)[i].log = log

Handled(log) == \E i \in DOMAIN handled : handled[i].log = log

\* A log that a live subscription received is handled unless it ends.
LiveLogsHandled ==
    \A log \in 1..MaxLogs :
        Waiting(log) /\ subscription = "live" ~> Handled(log) \/ subscription # "live"

Feed == INSTANCE EventFeed WITH live <- subscription = "live", pending <- channel \o feed

\* With its buffers, delays and failures the listener is an EventFeed: the
\* channel and the library's queue are one queue, cut off from its end or
\* dropped (eth_listener.go:47-84).
ImplementsFeed == Feed!Spec

\* A failed subscription is replaced, or the process ends.
Resubscribes == subscription # "live" ~> subscription = "live" \/ pc = "exited"

\* "exponential backoff between retries" (eth_listener.go:89): a later attempt
\* waits longer than the ones before it.
BackOffGrows == \A n \in 1..backOffCount : n > 1 => Delay(n) > Delay(n - 1)

\* No log is handled twice.
HandledOnce ==
    \A i, j \in DOMAIN handled : handled[i].log = handled[j].log => i = j
===============================================================================
