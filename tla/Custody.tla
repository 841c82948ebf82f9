-------------------------------- MODULE Custody --------------------------------
(***************************************************************************)
(* Channels: the custody contracts, their event listeners and handlers     *)
(* (eth_listener.go, custody.go, channel.go), and the resize and close     *)
(* states the broker signs on request (HandleResizeChannel,                *)
(* HandleCloseChannel in handlers.go).                                     *)
(*                                                                         *)
(* One goroutine per chain takes events from a buffered subscription and   *)
(* handles them one by one.  Only that goroutine writes the rows of the    *)
(* chain's channels.  RPC handlers read a channel row and then a balance,  *)
(* in no transaction, sign what follows from the two, and record nothing:  *)
(* the user submits a signed state to the contract, or not.                *)
(*                                                                         *)
(* The contract is external and modelled from its use: it takes a state    *)
(* with a newer version whose amounts add up, and reports it as an event.  *)
(* All chains' tokens stand for one asset, amounts are in its unit.        *)
(***************************************************************************)
EXTENDS Integers, Sequences, FiniteSets, Functions

CONSTANTS
    Channels, Owners, Chains,
    Owner,              \* [Channels -> Owners], participant A
    Chain,              \* [Channels -> Chains]
    BrokerChannels,     \* the channels whose participant B is the broker
    Workers,            \* connection goroutines that serve channel requests
    Deposits,           \* amounts a channel may be created with
    Resizes,            \* <<resize_amount, allocate_amount>> of requests
    Bets,               \* amounts app sessions lock and pay
    MaxVersion,         \* bound on a channel's version
    MaxSigned,          \* bound on states that users hold or have asked for
    MaxFaults,          \* bound on failures, lost subscriptions and crashes
    None

ASSUME FinitelyMany == IsFiniteSet(Channels) /\ IsFiniteSet(Owners) /\ IsFiniteSet(Chains)
ASSUME ChannelsAreOwned == Owner \in [Channels -> Owners] /\ Chain \in [Channels -> Chains]
ASSUME AmountsAreNatural == Deposits \subseteq Nat /\ Bets \subseteq Nat
ASSUME ResizesType == Resizes \subseteq Int \X Int
ASSUME NoneIsNoChannel == None \notin Channels
ASSUME BoundsType == MaxVersion \in Nat /\ MaxSigned \in Nat /\ MaxFaults \in Nat

VARIABLES
    contract,           \* the contracts' view of each channel
    wallet,             \* what each owner took out of the contracts, less deposits
    joins,              \* join transactions of the broker that are not mined
    subscribed,         \* whether a chain's subscription is up
    queue,              \* its events that are not handled
    listener,           \* what its goroutine is doing
    rows,               \* the table `channels`
    ledger,             \* unified balances
    pool,               \* funds of all app sessions
    calls,              \* the channel request each worker serves
    signed,             \* states signed by the broker and still acceptable
    faults              \* failures so far

chainVars == <<contract, wallet, joins>>
vars == <<contract, wallet, joins, subscribed, queue, listener, rows, ledger, pool,
          calls, signed, faults>>

Selecting == [pc |-> "select", channel |-> None, credit |-> 0]

NoCall == [channel |-> None, amount |-> 0, version |-> 0, resize |-> <<0, 0>>, close |-> FALSE]

Init ==
    /\ contract = [c \in Channels |-> [status |-> "void", amount |-> 0, version |-> 0]]
    /\ wallet = [o \in Owners |-> 0]
    /\ joins = {}
    /\ subscribed = [n \in Chains |-> TRUE]
    /\ queue = [n \in Chains |-> <<>>]
    /\ listener = [n \in Chains |-> Selecting]
    /\ rows = [c \in Channels |-> [status |-> "none", amount |-> 0, version |-> 0]]
    /\ ledger = [o \in Owners |-> 0]
    /\ pool = 0
    /\ calls = [w \in Workers |-> NoCall]
    /\ signed = {}
    /\ faults = 0

-------------------------------------------------------------------------------
\* The custody contracts.

\* An event reaches the listener only through a live subscription.  Version
\* and amount are those of the channel after the event; no handler reads them.
Emit(kind, c, deltas, on) ==
    LET n == Chain[c]
        e == [kind |-> kind, channel |-> c, deltas |-> deltas,
              version |-> on.version, amount |-> on.amount]
    IN  queue' = IF subscribed[n] THEN [queue EXCEPT ![n] = Append(@, e)] ELSE queue

OnCreate(c, amount) ==
    /\ contract[c].status = "void"
    /\ contract' = [contract EXCEPT ![c] = [status |-> "initial", amount |-> amount,
                                            version |-> 0]]
    /\ wallet' = [wallet EXCEPT ![Owner[c]] = @ - amount]
    /\ Emit("Created", c, <<amount, 0>>, contract'[c])
    /\ UNCHANGED <<joins, subscribed, listener, rows, ledger, pool, calls, signed, faults>>

MineJoin(c) ==
    /\ c \in joins /\ joins' = joins \ {c}
    /\ contract[c].status = "initial"
    /\ contract' = [contract EXCEPT ![c].status = "active"]
    /\ Emit("Joined", c, <<0, 0>>, contract'[c])
    /\ UNCHANGED <<wallet, subscribed, listener, rows, ledger, pool, calls, signed, faults>>

\* The counterparty of a channel that is not the broker's joins it.
OtherJoins(c) ==
    /\ c \notin BrokerChannels /\ contract[c].status = "initial"
    /\ contract' = [contract EXCEPT ![c].status = "active"]
    /\ Emit("Joined", c, <<0, 0>>, contract'[c])
    /\ UNCHANGED <<wallet, joins, subscribed, listener, rows, ledger, pool, calls, signed,
                   faults>>

\* The broker's signed intentions carry the negated resize amount.
Deltas(state) == <<-state.intentions[1], state.intentions[2]>>

Acceptable(state, on) == on.status = "active" /\ state.version > on.version

\* States the contract can still take once channel c is as `on` says.
StillAcceptable(c, on) == {s \in signed : s.channel = c => Acceptable(s, on)}

SubmitResize(state) ==
    LET c == state.channel
        d == Deltas(state)
        on == [contract[c] EXCEPT !.amount = state.amount, !.version = state.version]
    IN  /\ state \in signed /\ ~state.close
        /\ Acceptable(state, contract[c]) /\ state.version <= MaxVersion
        /\ state.amount = contract[c].amount + d[1] + d[2]
        /\ contract' = [contract EXCEPT ![c] = on]
        /\ wallet' = [wallet EXCEPT ![Owner[c]] = @ - d[1]]
        /\ signed' = StillAcceptable(c, on)
        /\ Emit("Resized", c, d, on)
        /\ UNCHANGED <<joins, subscribed, listener, rows, ledger, pool, calls, faults>>

SubmitClose(state) ==
    LET c == state.channel
        on == [status |-> "final", amount |-> 0, version |-> state.version]
    IN  /\ state \in signed /\ state.close
        /\ Acceptable(state, contract[c])
        /\ state.amount + state.broker = contract[c].amount
        /\ contract' = [contract EXCEPT ![c] = on]
        /\ wallet' = [wallet EXCEPT ![Owner[c]] = @ + state.amount]
        /\ signed' = StillAcceptable(c, on)
        /\ Emit("Closed", c, <<0, 0>>, on)
        /\ UNCHANGED <<joins, subscribed, listener, rows, ledger, pool, calls, faults>>

-------------------------------------------------------------------------------
\* The listener's event handlers.

\* The next event of chain n is of a kind, and taking it.
HeadIs(n, kind) ==
    /\ listener[n].pc = "select" /\ queue[n] # <<>>
    /\ Head(queue[n]).kind = kind

Take(n) == queue' = [queue EXCEPT ![n] = Tail(@)]

Busy(n, pc, c, credit) ==
    listener' = [listener EXCEPT ![n] = [pc |-> pc, channel |-> c, credit |-> credit]]

Idle(n) == listener' = [listener EXCEPT ![n] = Selecting]

\* Open channels of the same participant on the same chain.
ExistingOpenChannels(c) ==
    {d \in Channels : /\ Owner[d] = Owner[c] /\ Chain[d] = Chain[c]
                      /\ rows[d].status = "open"}

\* A channel of the broker with no other open one gets a row, then a join.
HandleCreated(n) ==
    LET e == Head(queue[n])
        c == e.channel
    IN  /\ HeadIs(n, "Created") /\ Take(n)
        /\ c \in BrokerChannels /\ ExistingOpenChannels(c) = {} /\ rows[c].status = "none"
        /\ rows' = [rows EXCEPT ![c] = [status |-> "joining", amount |-> e.deltas[1],
                                        version |-> 0]]
        /\ Busy(n, "join", c, 0)
        /\ UNCHANGED <<chainVars, subscribed, ledger, pool, calls, signed, faults>>

IgnoreCreated(n) ==
    LET c == Head(queue[n]).channel
    IN  /\ HeadIs(n, "Created") /\ Take(n)
        /\ \/ c \notin BrokerChannels
           \/ ExistingOpenChannels(c) # {}
           \/ rows[c].status # "none"
        /\ UNCHANGED <<chainVars, subscribed, listener, rows, ledger, pool, calls, signed,
                       faults>>

\* Mutant: the join is never sent.
SkipJoin(n) ==
    /\ listener[n].pc = "join" /\ Idle(n)
    /\ UNCHANGED <<chainVars, subscribed, queue, rows, ledger, pool, calls, signed, faults>>

Join(n) ==
    /\ listener[n].pc = "join" /\ Idle(n)
    /\ joins' = joins \cup {listener[n].channel}
    /\ UNCHANGED <<contract, wallet, subscribed, queue, rows, ledger, pool, calls, signed,
                   faults>>

\* Mutant: joining bumps the version, as resizing and closing do.
JoinedBumpsVersion(n) ==
    LET c == Head(queue[n]).channel
    IN  /\ HeadIs(n, "Joined") /\ Take(n)
        /\ rows[c].status # "none"
        /\ rows' = [rows EXCEPT ![c].status = "open", ![c].version = @ + 1]
        /\ ledger' = [ledger EXCEPT ![Owner[c]] = @ + rows[c].amount]
        /\ UNCHANGED <<chainVars, subscribed, listener, pool, calls, signed, faults>>

\* Mutant: the channel is credited and its status left.
JoinedKeepsStatus(n) ==
    LET c == Head(queue[n]).channel
    IN  /\ HeadIs(n, "Joined") /\ Take(n)
        /\ rows[c].status # "none"
        /\ ledger' = [ledger EXCEPT ![Owner[c]] = @ + rows[c].amount]
        /\ UNCHANGED <<chainVars, subscribed, listener, rows, pool, calls, signed, faults>>

HandleJoined(n) ==
    LET c == Head(queue[n]).channel
    IN  /\ HeadIs(n, "Joined") /\ Take(n)
        /\ rows[c].status # "none"
        /\ rows' = [rows EXCEPT ![c].status = "open"]
        /\ ledger' = [ledger EXCEPT ![Owner[c]] = @ + rows[c].amount]
        /\ UNCHANGED <<chainVars, subscribed, listener, pool, calls, signed, faults>>

\* Mutant: the amount is cleared before it is debited.
ClosedDebitsNothing(n) ==
    LET c == Head(queue[n]).channel
    IN  /\ HeadIs(n, "Closed") /\ Take(n)
        /\ rows[c].status # "none"
        /\ rows' = [rows EXCEPT ![c] = [status |-> "closed", amount |-> 0,
                                        version |-> @.version + 1]]
        /\ UNCHANGED <<chainVars, subscribed, listener, ledger, pool, calls, signed, faults>>

\* Mutant: the contract's status is stored.
ClosedIsFinal(n) ==
    LET c == Head(queue[n]).channel
    IN  /\ HeadIs(n, "Closed") /\ Take(n)
        /\ rows[c].status # "none"
        /\ ledger' = [ledger EXCEPT ![Owner[c]] = @ - rows[c].amount]
        /\ rows' = [rows EXCEPT ![c] = [status |-> "final", amount |-> 0,
                                        version |-> @.version + 1]]
        /\ UNCHANGED <<chainVars, subscribed, listener, pool, calls, signed, faults>>

\* Mutant: the amount is cleared and the status left.
ClosedKeepsStatus(n) ==
    LET c == Head(queue[n]).channel
    IN  /\ HeadIs(n, "Closed") /\ Take(n)
        /\ rows[c].status # "none"
        /\ ledger' = [ledger EXCEPT ![Owner[c]] = @ - rows[c].amount]
        /\ rows' = [rows EXCEPT ![c].amount = 0, ![c].version = @ + 1]
        /\ UNCHANGED <<chainVars, subscribed, listener, pool, calls, signed, faults>>

HandleClosed(n) ==
    LET c == Head(queue[n]).channel
    IN  /\ HeadIs(n, "Closed") /\ Take(n)
        /\ rows[c].status # "none"
        /\ ledger' = [ledger EXCEPT ![Owner[c]] = @ - rows[c].amount]
        /\ rows' = [rows EXCEPT ![c] = [status |-> "closed", amount |-> 0,
                                        version |-> @.version + 1]]
        /\ UNCHANGED <<chainVars, subscribed, listener, pool, calls, signed, faults>>

\* Mutant: only the participant's change counts.
ResizedForgetsAllocation(n) ==
    LET e == Head(queue[n])
        c == e.channel
    IN  /\ HeadIs(n, "Resized") /\ Take(n)
        /\ rows[c].status # "none"
        /\ rows' = [rows EXCEPT ![c].amount = @ + e.deltas[1], ![c].version = @ + 1]
        /\ Busy(n, "record", c, e.deltas[1])
        /\ UNCHANGED <<chainVars, subscribed, ledger, pool, calls, signed, faults>>

\* Mutant: the version stays as it is.
ResizedKeepsVersion(n) ==
    LET e == Head(queue[n])
        c == e.channel
    IN  /\ HeadIs(n, "Resized") /\ Take(n)
        /\ rows[c].status # "none"
        /\ rows' = [rows EXCEPT ![c].amount = @ + e.deltas[1] + e.deltas[2]]
        /\ Busy(n, "record", c, e.deltas[1])
        /\ UNCHANGED <<chainVars, subscribed, ledger, pool, calls, signed, faults>>

\* The row is saved outside of the transaction that records the ledger entry.
HandleResized(n) ==
    LET e == Head(queue[n])
        c == e.channel
    IN  /\ HeadIs(n, "Resized") /\ Take(n)
        /\ rows[c].status # "none"
        /\ rows' = [rows EXCEPT ![c].amount = @ + e.deltas[1] + e.deltas[2],
                                ![c].version = @ + 1]
        /\ Busy(n, "record", c, e.deltas[1])
        /\ UNCHANGED <<chainVars, subscribed, ledger, pool, calls, signed, faults>>

RecordResize(n) ==
    /\ listener[n].pc = "record" /\ Idle(n)
    /\ ledger' = [ledger EXCEPT ![Owner[listener[n].channel]] = @ + listener[n].credit]
    /\ UNCHANGED <<chainVars, subscribed, queue, rows, pool, calls, signed, faults>>

\* Joined, Closed and Resized of a channel that has no row.
IgnoreUnknown(n) ==
    /\ \E kind \in {"Joined", "Closed", "Resized"} : HeadIs(n, kind)
    /\ rows[Head(queue[n]).channel].status = "none"
    /\ Take(n)
    /\ UNCHANGED <<chainVars, subscribed, listener, rows, ledger, pool, calls, signed, faults>>

-------------------------------------------------------------------------------
\* Failures.

Fault == faults < MaxFaults /\ faults' = faults + 1

\* A database error or a failing join call: the handler logs it and returns.
HandlerFails(n) ==
    /\ Fault
    /\ \/ listener[n].pc = "select" /\ queue[n] # <<>> /\ Take(n) /\ UNCHANGED listener
       \/ listener[n].pc # "select" /\ Idle(n) /\ UNCHANGED queue
    /\ UNCHANGED <<chainVars, subscribed, rows, ledger, pool, calls, signed>>

\* The subscription ends, whatever the listener does.  What is already in the
\* listener's channel may still be handled, what is not is lost.
SubscriptionLost(n) ==
    /\ Fault
    /\ subscribed[n]
    /\ subscribed' = [subscribed EXCEPT ![n] = FALSE]
    /\ \E k \in 0..Len(queue[n]) : queue' = [queue EXCEPT ![n] = SubSeq(@, 1, k)]
    /\ UNCHANGED <<chainVars, listener, rows, ledger, pool, calls, signed>>

\* The select takes the error: what the channel still holds is never read.
Abandon(n) ==
    /\ ~subscribed[n] /\ listener[n].pc = "select" /\ queue[n] # <<>>
    /\ queue' = [queue EXCEPT ![n] = <<>>]
    /\ UNCHANGED <<chainVars, subscribed, listener, rows, ledger, pool, calls, signed, faults>>

\* A new channel and a new subscription, which asks for no past events.
Subscribe(n) ==
    /\ ~subscribed[n] /\ listener[n].pc = "select" /\ queue[n] = <<>>
    /\ subscribed' = [subscribed EXCEPT ![n] = TRUE]
    /\ UNCHANGED <<chainVars, queue, listener, rows, ledger, pool, calls, signed, faults>>

Crash ==
    /\ Fault
    /\ subscribed' = [n \in Chains |-> FALSE]
    /\ queue' = [n \in Chains |-> <<>>]
    /\ listener' = [n \in Chains |-> Selecting]
    /\ calls' = [w \in Workers |-> NoCall]
    /\ UNCHANGED <<chainVars, rows, ledger, pool, signed>>

-------------------------------------------------------------------------------
\* Channel requests: the row is read first, the balance when signing.

Outstanding ==
    Cardinality(signed) + Cardinality({w \in Workers : calls[w] # NoCall})

ReadChannel(w, c, resize, close) ==
    /\ calls[w] = NoCall
    /\ rows[c].status # "none"
    /\ Outstanding < MaxSigned
    /\ calls' = [calls EXCEPT ![w] =
                    [channel |-> c, amount |-> rows[c].amount, version |-> rows[c].version,
                     resize |-> resize, close |-> close]]
    /\ UNCHANGED <<chainVars, subscribed, queue, listener, rows, ledger, pool, signed, faults>>

\* A signed state that the contract will never take is forgotten at once.
Sign(w, state) ==
    /\ calls' = [calls EXCEPT ![w] = NoCall]
    /\ signed' = IF Acceptable(state, contract[state.channel])
                    \/ (contract[state.channel].status = "initial" /\ state.version > 0)
                 THEN signed \cup {state} ELSE signed
    /\ UNCHANGED <<chainVars, subscribed, queue, listener, rows, ledger, pool, faults>>

\* "insufficient unified balance", "new channel amount must be positive"
Resizable(call, balance) ==
    /\ balance >= call.amount + call.resize[2]
    /\ call.amount + call.resize[2] + call.resize[1] >= 0

\* "insufficient funds", "resize this channel first"
Closable(call, balance) == balance >= 0 /\ call.amount >= balance

ResizeState(call) ==
    [channel |-> call.channel, close |-> FALSE, version |-> call.version + 1,
     amount |-> call.amount + call.resize[2] + call.resize[1], broker |-> 0,
     intentions |-> <<-call.resize[1], call.resize[2]>>]

CloseState(call, balance) ==
    [channel |-> call.channel, close |-> TRUE, version |-> call.version + 1,
     amount |-> balance, broker |-> call.amount - balance, intentions |-> <<0, 0>>]

SignResize(w) ==
    LET call == calls[w]
    IN  /\ call # NoCall /\ ~call.close
        /\ Resizable(call, ledger[Owner[call.channel]])
        /\ Sign(w, ResizeState(call))

SignClose(w) ==
    LET call == calls[w]
        balance == ledger[Owner[call.channel]]
    IN  /\ call # NoCall /\ call.close
        /\ Closable(call, balance)
        /\ Sign(w, CloseState(call, balance))

Refuse(w) ==
    LET call == calls[w]
        balance == ledger[Owner[call.channel]]
    IN  /\ call # NoCall
        /\ ~IF call.close THEN Closable(call, balance) ELSE Resizable(call, balance)
        /\ calls' = [calls EXCEPT ![w] = NoCall]
        /\ UNCHANGED <<chainVars, subscribed, queue, listener, rows, ledger, pool, signed,
                       faults>>

-------------------------------------------------------------------------------
\* App sessions, as what their commits do to unified balances (AppEscrow).

LockFunds(o, n) ==
    /\ 0 < n /\ n <= ledger[o]
    /\ ledger' = [ledger EXCEPT ![o] = @ - n]
    /\ pool' = pool + n
    /\ UNCHANGED <<chainVars, subscribed, queue, listener, rows, calls, signed, faults>>

PayOut(o, n) ==
    /\ 0 < n /\ n <= pool
    /\ ledger' = [ledger EXCEPT ![o] = @ + n]
    /\ pool' = pool - n
    /\ UNCHANGED <<chainVars, subscribed, queue, listener, rows, calls, signed, faults>>

-------------------------------------------------------------------------------
Handle(n) ==
    \/ HandleCreated(n) \/ IgnoreCreated(n) \/ Join(n)
    \/ HandleJoined(n) \/ HandleClosed(n)
    \/ HandleResized(n) \/ RecordResize(n)
    \/ IgnoreUnknown(n)

Next ==
    \/ \E c \in Channels :
        \/ \E amount \in Deposits : OnCreate(c, amount)
        \/ MineJoin(c) \/ OtherJoins(c)
        \/ \E w \in Workers :
            \/ \E r \in Resizes : ReadChannel(w, c, r, FALSE)
            \/ ReadChannel(w, c, <<0, 0>>, TRUE)
    \/ \E s \in signed : SubmitResize(s) \/ SubmitClose(s)
    \/ \E n \in Chains :
        \/ Handle(n)
        \/ HandlerFails(n) \/ SubscriptionLost(n) \/ Abandon(n) \/ Subscribe(n)
    \/ Crash
    \/ \E w \in Workers : SignResize(w) \/ SignClose(w) \/ Refuse(w)
    \/ \E o \in Owners, n \in Bets : LockFunds(o, n) \/ PayOut(o, n)

Spec == Init /\ [][Next]_vars

\* Events keep being handled, subscriptions are renewed and joins are mined.
FairSpec ==
    /\ Spec
    /\ \A n \in Chains : WF_vars(Handle(n)) /\ WF_vars(Subscribe(n))
    /\ \A c \in Channels : WF_vars(MineJoin(c))

-------------------------------------------------------------------------------
\* Properties.

Statuses == {"none", "joining", "open", "closed"}

TypeOK ==
    /\ contract \in [Channels -> [status : {"void", "initial", "active", "final"},
                                  amount : Int, version : Nat]]
    /\ wallet \in [Owners -> Int]
    /\ joins \subseteq Channels
    /\ subscribed \in [Chains -> BOOLEAN]
    /\ queue \in [Chains -> Seq([kind : {"Created", "Joined", "Resized", "Closed"},
                                 channel : Channels, deltas : Int \X Int,
                                 version : Nat, amount : Int])]
    /\ listener \in [Chains -> [pc : {"select", "join", "record"},
                                channel : Channels \cup {None}, credit : Int]]
    /\ rows \in [Channels -> [status : Statuses, amount : Int, version : Nat]]
    /\ ledger \in [Owners -> Int]
    /\ pool \in Nat
    /\ calls \in [Workers -> [channel : Channels \cup {None}, amount : Int, version : Nat,
                              resize : Int \X Int, close : BOOLEAN]]
    /\ signed \subseteq [channel : Channels, close : BOOLEAN, version : Nat, amount : Int,
                         broker : Int, intentions : Int \X Int]
    /\ faults \in Nat

\* The database never runs ahead of a contract, whatever events are lost.
RowsBehindContract ==
    \A c \in Channels :
        /\ rows[c].version <= contract[c].version
        /\ rows[c].status \in {"open", "closed"} => contract[c].status \in {"active", "final"}
        /\ rows[c].status = "closed" => contract[c].status = "final"

\* A signed state that its contract can take is about the amount the contract
\* holds: the handlers' two reads (handlers.go:685-732, 824-862), requests
\* signed twice and lost events only make states that are out of date.
AcceptableStatesFit ==
    \A s \in signed : Acceptable(s, contract[s.channel]) =>
        contract[s.channel].amount =
            IF s.close THEN s.amount + s.broker
            ELSE s.amount - Deltas(s)[1] - Deltas(s)[2]

\* Between events, without allocations and failures: unified balances and app
\* sessions together hold exactly what the open channels do.
LedgerBacked ==
    (\A n \in Chains : listener[n].pc # "record") =>
        SumFunctionOnSet(ledger, Owners) + pool
            = SumFunctionOnSet([c \in Channels |-> rows[c].amount],
                               {c \in Channels : rows[c].status = "open"})

StatusOnChain == [none |-> "void", joining |-> "initial", open |-> "active", closed |-> "final"]

\* Without failures a channel with no pending event is in the database what
\* it is on chain.
RowsMirrorContract ==
    \A c \in Channels :
        rows[c].status # "none"
          /\ (\A i \in DOMAIN queue[Chain[c]] : queue[Chain[c]][i].channel # c)
        => contract[c] = [rows[c] EXCEPT !.status = StatusOnChain[@]]

\* "existing open channel on the same network between participant and broker"
\* (channel.go:94): there is at most one (custody.go:144).
OneOpenChannel ==
    \A c, d \in Channels :
        /\ rows[c].status = "open" /\ rows[d].status = "open"
        /\ Owner[c] = Owner[d] /\ Chain[c] = Chain[d]
        => c = d

\* No participant owes the broker.
UnifiedNonNegative == \A o \in Owners : ledger[o] >= 0

\* Participants together never take more out of the contracts than they put in.
Solvent == SumFunctionOnSet(wallet, Owners) <= 0

\* A resize changes the row and the ledger or neither: "a complete audit trail
\* of all financial operations" (docs/Entities.md:54).
ResizeIsRecorded ==
    [][\A n \in Chains :
          listener[n].pc = "record" /\ listener'[n].pc # "record" =>
             LET o == Owner[listener[n].channel]
             IN  ledger'[o] = ledger[o] + listener[n].credit]_vars

\* The broker left c alone: when its Created event was handled, its owner had
\* another open channel on the chain (custody.go:144-154).
Declined(c) ==
    /\ contract[c].status = "initial" /\ rows[c].status = "none"
    /\ \A i \in DOMAIN queue[Chain[c]] : queue[Chain[c]][i].channel # c
    /\ \E d \in Channels \ {c} : /\ Owner[d] = Owner[c] /\ Chain[d] = Chain[c]
                               /\ rows[d].status \in {"open", "closed"}

\* A channel opened with the broker is joined by it, unless its owner had an
\* open one already, and that one lives or has lived.
BrokerJoins ==
    \A c \in BrokerChannels :
        contract[c].status = "initial" ~> contract[c].status # "initial" \/ Declined(c)

\* "These events credit participants' balances" (docs/Clearnode.protocol.md:12):
\* a channel joined on chain is eventually open, and so credited.
JoinedIsCredited ==
    \A c \in BrokerChannels :
        contract[c].status = "active" ~> rows[c].status \in {"open", "closed"}

\* A channel closed on chain is eventually closed, and so debited.
CloseIsRecorded ==
    \A c \in BrokerChannels : contract[c].status = "final" ~> rows[c].status = "closed"
===============================================================================
