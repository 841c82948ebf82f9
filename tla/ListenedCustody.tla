---------------------------- MODULE ListenedCustody ----------------------------
(***************************************************************************)
(* The event handlers of Custody on the listener of EthListener: what the  *)
(* contract reports is a log that the node sends, and a handler runs on    *)
(* the log that listenEvents took from its channel (eth_listener.go:75).   *)
(* Of Custody's chains there is one, Watched.  The composed system shows   *)
(* that Custody's queue, its lost subscriptions and its new ones are what  *)
(* the listener does, as long as the chain takes no log back.  A withdrawn *)
(* log goes to the same handler, which takes it for one more event; that   *)
(* is here and not in Custody.                                             *)
(***************************************************************************)
EXTENDS EthListener

CONSTANTS
    Channels, Owners, Owner, BrokerChannels, Workers, Deposits, Resizes, Bets,
    MaxVersion, MaxSigned, MaxFaults, None,     \* as in Custody
    Watched                                     \* the chain

Chains == {Watched}
Chain == [c \in Channels |-> Watched]

VARIABLES
    contract, wallet, joins, listener, rows, ledger, pool, calls, signed, faults,
    logs        \* of each log its event, and what the chain was before it

chainVars == <<contract, wallet, joins>>
custody == <<chainVars, listener, rows, ledger, pool, calls, signed, faults>>
systemVars == <<vars, custody, logs>>

EventsOf(messages) == [i \in 1..Len(messages) |-> logs[messages[i].log].event]

\* The events that the goroutine will take unless the subscription ends.
Pending == IF pc \in {"select", "handle"} THEN EventsOf(channel \o feed) ELSE <<>>

C == INSTANCE Custody WITH
        subscribed <- [n \in Chains |-> subscription = "live"],
        queue <- [n \in Chains |-> Pending]

\* What the select takes next.  The handlers of Custody run on this alone, so
\* that nothing they or the contract do can depend on what else waits.
Taken == IF pc = "select" /\ channel # <<>> THEN EventsOf(<<Head(channel)>>) ELSE <<>>

H == INSTANCE Custody WITH
        subscribed <- [n \in Chains |-> FALSE],
        queue <- [n \in Chains |-> Taken]

\* From the first subscription on, as in Custody.
SystemInit ==
    /\ written = 0 /\ withdrawn = {} /\ reachable = TRUE
    /\ subscription = "live" /\ feed = <<>> /\ channel = <<>>
    /\ pc = "select" /\ backOffCount = 0 /\ waited = 0 /\ handled = <<>>
    /\ logs = <<>>
    /\ C!Init

-------------------------------------------------------------------------------
\* The contract writes a log for each of its events, which leave a channel as `on`.
Log(kind, c, deltas, on) ==
    /\ WriteLog
    /\ logs' = Append(logs, [event |-> [kind |-> kind, channel |-> c, deltas |-> deltas,
                                        version |-> on.version, amount |-> on.amount],
                             contract |-> contract, wallet |-> wallet, signed |-> signed])

OnCreate(c, amount) ==
    /\ Log("Created", c, <<amount, 0>>, [status |-> "initial", amount |-> amount, version |-> 0])
    /\ H!OnCreate(c, amount)

OnJoin(c) ==
    /\ Log("Joined", c, <<0, 0>>, [contract[c] EXCEPT !.status = "active"])
    /\ H!MineJoin(c) \/ H!OtherJoins(c)

OnResize(s) ==
    /\ Log("Resized", s.channel, H!Deltas(s),
           [contract[s.channel] EXCEPT !.amount = s.amount, !.version = s.version])
    /\ H!SubmitResize(s)

OnClose(s) ==
    /\ Log("Closed", s.channel, <<0, 0>>,
           [status |-> "final", amount |-> 0, version |-> s.version])
    /\ H!SubmitClose(s)

\* The chain is what it was before its latest log, and can take again what it
\* took with it.
Reorganise ==
    LET log == logs[Max((1..written) \ withdrawn)]
    IN  /\ WithdrawLog
        /\ contract' = log.contract /\ wallet' = log.wallet
        /\ signed' = signed \cup log.signed
        /\ joins' = IF log.event.kind = "Joined" /\ log.event.channel \in BrokerChannels
                    THEN joins \cup {log.event.channel} ELSE joins
        /\ UNCHANGED <<listener, rows, ledger, pool, calls, faults, logs>>

\* The subscription ends, which is a failure of Custody's.
EndSubscription ==
    /\ Disconnect \/ Overflow
    /\ IF subscription = "live" THEN H!Fault ELSE UNCHANGED faults
    /\ UNCHANGED <<chainVars, listener, rows, ledger, pool, calls, signed, logs>>

\* A handler starts with the log that the select takes, and goes on from there.
Handling ==
    /\ TakeLog \/ UNCHANGED vars
    /\ UNCHANGED logs
    /\ H!Handle(Watched) \/ H!HandlerFails(Watched)

Return ==
    /\ HandlerReturns /\ listener[Watched].pc = "select"
    /\ UNCHANGED <<custody, logs>>

\* What happens to the subscription between the handlers.
Subscribing ==
    /\ \/ Reconnect \/ Forward \/ BackOff \/ GiveUp \/ SubscribeFails \/ Subscribe
       \/ TakeError
    /\ UNCHANGED <<custody, logs>>

\* The process ends, if it has not given up already, and starts again.
Restart ==
    /\ subscription' = "none" /\ feed' = <<>> /\ channel' = <<>>
    /\ pc' = "wait" /\ backOffCount' = 0 /\ waited' = 0
    /\ UNCHANGED <<node, handled, logs>>
    /\ H!Crash

Request ==
    /\ pc # "exited" /\ UNCHANGED <<vars, logs>>
    /\ \/ \E w \in Workers :
            \/ \E c \in Channels : \/ \E r \in Resizes : H!ReadChannel(w, c, r, FALSE)
                                   \/ H!ReadChannel(w, c, <<0, 0>>, TRUE)
            \/ H!SignResize(w) \/ H!SignClose(w) \/ H!Refuse(w)
       \/ \E o \in Owners, n \in Bets : H!LockFunds(o, n) \/ H!PayOut(o, n)

SystemNext ==
    \/ \E c \in Channels : (\E amount \in Deposits : OnCreate(c, amount)) \/ OnJoin(c)
    \/ \E s \in signed : OnResize(s) \/ OnClose(s)
    \/ Reorganise
    \/ EndSubscription \/ Handling \/ Return \/ Subscribing
    \/ Restart
    \/ Request

SystemSpec == SystemInit /\ [][SystemNext]_systemVars

-------------------------------------------------------------------------------
\* Properties.

\* While no log was withdrawn, handlers on the listener do what Custody says:
\* its events come in the order of the contract and none is added, those that
\* are lost are lost with a subscription or at the end of the process.
ImplementsCustody == C!Init /\ [][withdrawn' = {} => C!Next]_(C!vars)

\* Balances are backed by channels (Custody), whatever the chain takes back.
StaysBacked == C!LedgerBacked
===============================================================================
