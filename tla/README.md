# A TLA+ verification of clearnode

Clearnode keeps the off-chain ledger of a state-channel network. Users open
channels with its broker on several chains, what they deposit appears in a
*unified balance*, application sessions lock and redistribute these balances,
and the broker signs states with which users resize or close their channels on
chain. This directory models the program in TLA+, checks the models with TLC
and proves theorems about them with TLAPS.

Paths such as `handlers.go:377` are relative to `src/`; `PROJECT.json` maps every
definition to the lines it stands for.

## 1. The system

| component | state | operations | works with |
|---|---|---|---|
| **Ledger** (`ledger.go`) | append-only table of debits and credits per account, participant, asset | `Record`, `Balance`, reports | every handler that moves funds |
| **App sessions** (`app_session.go`, `handlers.go`) | table of sessions: definition, status | `create_app_session`, `close_app_session`, queries | one database transaction each; ledger; balance updates |
| **Channels** (`channel.go`) | table of channels: status, amount, version | created and changed by custody events | custody handlers write, RPC handlers read |
| **Event listener** (`eth_listener.go`) | one subscription and one goroutine per chain, a channel of 100 logs, back-off counter | subscribe, take a log or an error, back off, end the process | custody contract, event handlers |
| **Custody handlers** (`custody.go`) | none of their own | Created (then `Join`), Joined, Closed, Resized | channels, ledger, contract, client updates |
| **Channel requests** (`handlers.go`) | none: what is signed is not recorded | `resize_channel`, `close_channel` | read channels and ledger; the user submits the signed state |
| **Authentication** (`auth.go`, `ws.go`) | challenges by token, sessions by address | generate, validate, refresh, clean up | connections |
| **Connections** (`ws.go`) | registry of one connection per address; a goroutine per connection | register, serve, forward, update, leave, shut down | all handlers; listeners send through it |
| **RPC history** (`rpc_store.go`) | append-only log | store, list | connections |
| **RPC and signatures** (`rpc.go`, `signer.go`), **assets** (`asset.go`), **metrics**, **configuration**, **database set-up** | read-only or start-up state | pure functions, counters, migrations | all |

They interact in four ways: through the database (RPC goroutines and one
listener goroutine per chain, transactions at the default isolation), through
the custody contracts (states signed off chain come back as events), through the
registry of connections (any goroutine may write to any client), and through the
sessions that connections of one address share.

What is hard here, and which properties make each component correct:

* **App sessions.** Two transactions overlap between reading a balance and
  debiting it, or between reading a status and changing it; a handler fails
  between two rows; requests name participants and assets as they please.
  Correct: nothing is spent twice or without its owner's signature, a session is
  funded once and paid out once, in full, on a quorum.
* **Channels.** Signed states are submitted late, twice or never; events are
  delayed or lost with the subscription; the process stops between two writes;
  the join transaction fails. Correct: the database follows the contracts and
  never runs ahead, what it owes is what the contracts hold, every channel is
  joined, credited and debited eventually.
* **Event listener.** A select over logs and errors, a queue of the library behind
  the channel, a node that comes and goes and reorganises. Correct: logs are
  handled in order and once, a failed subscription is renewed, the process gives
  up only after all of its delays.
* **Amounts.** 256-bit amounts become 64-bit rows and decimals of the ledger,
  balances become token units again. Correct: rows keep what fits them, nothing
  is gained by rounding or wrapping.
* **Authentication.** Several connections race for a challenge, time passes
  between a check and its use, the clean-up works with an old clock. Correct: a
  challenge authenticates once, expiry is final until a new answer, limits hold
  and room returns.
* **Connections.** Connections of one address replace each other, several
  goroutines write to one client, clients stop reading. Correct: messages reach
  the right client, in order; nothing is kept of a connection that is gone.

`PROJECT.json` lists each hazard at its line with the properties aimed at it.

## 2. Modules

| module | models | state and actions |
|---|---|---|
| `Ledger` | the ledger as sums per key; used by `AppSession` | `Record`, `Balance`, `Apply` (a commit) |
| `AppSession` | both session handlers, SQL statement by SQL statement, for `Workers` concurrent transactions | `ledger`, `sessions` are what is committed; `tx[w]` holds a transaction's next statement, its own uncommitted rows and the handler's local maps. `BeginCreate`, `CreateRow`, `InsertSession`, `CommitCreate`; `BeginClose`, `SumBalance`, `DistributeRow`, `UpdateSession`, `CommitClose`; `Rollback` at any point; `CustodyEntry` changes a unified balance. `Promise` maps it to `AppEscrow`, and `PlainRequests` says of which requests |
| `AppEscrow` | abstract specification: a wallet per participant, a pot per session, filled in one step and paid out in one step | `CustodyEntry`, `FundPot`, `PayOut` |
| `MCAppSession` | requests and definitions for TLC | |
| `Custody` | contracts (external), subscription and queue per chain, listener goroutine, handlers, channel rows, ledger, signed states | an action per event handler, two for those that are not atomic (`HandleCreated`/`Join`, `HandleResized`/`RecordResize`); `ReadChannel` and `SignResize`/`SignClose` for the two reads of a request; `SubmitResize`/`SubmitClose` by the user; `HandlerFails`, `SubscriptionLost`, `Abandon`, `Subscribe`, `Crash` |
| `MCCustody` | channels, owners and requests for TLC | |
| `Auth` | challenges, sessions, the clean-up goroutine and time | `GenerateChallenge`, `ValidateChallenge`, `RejectChallenge`, `ValidateSession` and `UpdateSession` as two critical sections, `CleanUp`/`CleanChallenges`/`CleanSessions`, `Tick` |
| `MCAuth` | two connections of one address | |
| `Connections` | the registry, each connection's goroutine, listeners as senders, the writer of each connection | a goroutine's pending sends are `jobs`: `ReadBalances`, `LookUp` (under the lock; a sender skips itself), `NextWriter` (an error response sets the connection's write deadline, `limited`, until it is written), `Deliver`/`WriteFails`; `Register`, `Serve`, `ChangeSession`, `Forward`, `Reject`, `Unregister`, `HangUp`, `CloseAllConnections` |
| `MCConnections` | two connections, of one address or two | |
| `EventFeed` | abstract specification of a subscription: events in order while it lives, the latest or all of them lost when it ends | `Receive`, `Take`, `End`, `Drop`, `Renew` |
| `EthListener` | the goroutine of one chain with its channel; the node and the library's queue (external) | `BackOff`, `GiveUp`, `Subscribe`/`SubscribeFails`, `TakeLog`, `HandlerReturns`, `TakeError`; `Forward` and `Overflow` of the library; `WriteLog`, `WithdrawLog`, `Disconnect`, `Reconnect` of the node. `Feed` maps channel and queue to `EventFeed` |
| `ListenedCustody` | the handlers of `Custody` on the listener of one chain | what the contract does is a log of the node (`OnCreate`, `OnJoin`, `OnResize`, `OnClose`), a handler runs on the log the `select` took (`Handling`, `Return`); `Reorganise` takes back a log with what the chain did; `EndSubscription`, `Restart` |
| `MCListenedCustody` | two channels of one chain | |
| `Amounts` | the arithmetic of custody handlers and channel requests | `HandleCreated`, `HandleJoined`, `HandleResized`, `HandleClosed`, `DropEvent` (the column refuses the amount), `SignResize`, `SignClose`; contracts and app sessions as in `Custody` |
| `MCAmounts` | two tokens, words of three bits | |
| `Sums` | lemmas about sums of functions over finite sets, for the four components below that keep such sums | |
| `AppSessionProofs`, `AppSessionSerialProofs`, `CustodyProofs`, `EthListenerProofs`, `AmountsProofs`, `AuthProofs`, `ConnectionsProofs` | the theorems | |

`EthListener` implements `EventFeed`, which says what a subscription may do with
the logs it carries. `ListenedCustody` composes the listener with `Custody`: an
event of the contract is a log, the listener's channel and the library's queue
carry it, and the handlers run on what the goroutine takes and on nothing else
that waits. As long as no log was withdrawn every step of the composition is one
that `Custody` allows (`ImplementsCustody`), so what is shown of `Custody` holds
of its handlers on this listener; a withdrawn log is handed to them as well
(`eth_listener.go:75`), and is not covered (section 6). The
other modules are not composed, they only meet in the ledger: `AppSession` sees
custody events as `CustodyEntry`; `Custody` and `Amounts` see app sessions as
`LockFunds` and `PayOut`, which is what `AppSession` does to one participant's
balance when a transaction commits.

Operators marked *Mutant* are variants of the definition after them with a
plausible bug. No specification uses them; replacing the definition by one makes
the property named in `PROJECT.json` fail, which shows that the property is about
the code.

### What the models abstract

* Amounts are integers; addresses, sessions and assets are members of small sets.
  In `AppSession` addresses keep what the code depends on: their spelling (`Lower`).
* Signatures are the set or sequence of recovered signers of a request.
* `AppSession`: under PostgreSQL (READ COMMITTED) a `SELECT` sees what is
  committed, the unique index and row locks make a statement wait, and nothing
  else conflicts. Under SQLite, statements of transactions that conflict fail, so
  committed transactions are serial. A quorum of zero is stored as
  the column's default.
* `Custody`: all tokens stand for one asset in its unit. The intentions of a
  signed resize state carry the negated resize amount (`handlers.go:753`), and
  the contract is taken to report `<<resize, allocate>>` as the deltas of its
  event, which is how the handler reads them. A channel's Created event emits
  version 0; each accepted state has a newer version. A chain takes no log back:
  the handlers look at no log's `Removed`, so a reorganisation gives them events
  that are not in `Custody` (`ListenedCustody` has them).
* `ListenedCustody`: one chain, from its first subscription on. A reorganisation
  takes back the latest log with all that the chain did since the log before;
  what was signed off chain stays.
* `Auth`: time is what is left of each lifetime; the time between reading the
  clock and taking the lock is modelled for the clean-up only. That a missing
  `0x` is added to an address is left out.
* `Connections`: a `NextWriter` while another writer is open ends that one, which
  sends its message if it was written already and loses it if not (the library
  flushes it). The write deadline of an error response is the connection's, so
  it limits whoever writes until it is reset; how long it is is left out. What two writes do when they overlap
  below that (the library may panic) is left out. What balances are is a version
  number. Requests that change nothing in the module are `Serve`. Events are about
  the members of `Owners`, the addresses that have a channel.
* `EthListener`: logs are numbered as the chain writes them; a withdrawn one is
  sent again, marked as removed. What the handler does is in `Custody`, here it
  takes some time. Seconds slept are counted, not modelled as time.
* `Amounts`: the ledger counts in *quanta* of its 18th decimal, and a unit of a
  token is a number of them (`Unit`). The width of a word is a constant: `Half` is
  2^63 in the code. `big.Int.Int64` of a large number is undefined by Go's
  documentation and keeps the low bits in its implementation, which is modelled.
  An event is handled before the next one happens and a request reads at once:
  the interleavings are those of `Custody`.

## 3. Running

    tlc -workers 2 -config MCCustody_reliable.cfg MCCustody.tla
    tlapm AuthProofs.tla

A cfg belongs to the module that its name begins with.

### Passing runs

| run | what it asks | bounds, and why they are enough |
|---|---|---|
| `sqlite` | serial transactions: no overdraft, no negative share, funds move only with a status, only redeemable sessions close, and the statement-level handlers implement `AppEscrow` | one worker (transactions are serial under this driver), up to two units per account, canonical spelling and one asset: without these last two the code does not keep the promise (section 6). Sessions: one that either participant can close, one whose definition repeats a participant, one whose weights do not reach the quorum. Rows repeat participants, closes have fewer rows than there are participants |
| `postgres` | overlapping transactions: who may debit or release, one-way status, frozen open sessions | two sessions and two workers: every pair of create and close, of the same or different sessions, with every interleaving of statements. Sessions of quorum 1 and of quorum 0 (stored as 100) |
| `reliable` | without failures: backing of balances, rows as on chain, joining, crediting and closing in the end | two channels of one owner and chain, so a second one meets a first that is joining, open or closed, and one with another counterparty; two states signed, one unit of bets between two users, versions up to 2: a resize and a close, and stale signed states. Resizes only withdraw; `faulty` and the theorems have the others |
| `faulty` | with one failure, lost subscription or crash at any point: the database stays behind the contract and signed states fit | two channels of one owner on two chains, allocations between them, two signed states. One fault may come between any two steps, and a lost subscription may keep any part of what waits. Combinations of two faults are beyond this bound; the theorems of `CustodyProofs` hold for any number of them |
| `listener` | order, renewal and the end of a chain's listener, and that it is an `EventFeed` | channel of two logs, a library queue of one, so both fill up; five logs and two withdrawals, so a log comes while another is handled, one waits in the channel and one in the queue, and the next one ends the subscription; the real limit of five failures |
| `amounts` | the arithmetic of rows and balances | words of three bits (`Half` = 4), one token as fine as the ledger and one of two quanta a unit; deposits that fit (2), wrap (9) or cannot be saved (5); requests that deposit, withdraw, allocate, deposit a whole word, and withdraw below what is allocated; two resizes per channel, two signed states, one quantum of bets |
| `auth` | see `Auth` below | two connections, three tokens and two pending ones (the limit is reached and refilled), lifetimes of one tick and a clean-up up to one tick late: before, at and after each expiry happen |
| `connections` | registry, order and addressees | two connections that are of one address or of two; three messages on the first, since two forwards come after the request that creates the session; an event about the other address, so a listener writes to a recipient meanwhile; a stalled client, a reconnection. The second connection only receives |

The properties, in words:

* `Promise`: creating a session takes exactly what the pot receives out of wallets
  that hold it, in one step; closing empties the pot into wallets, asset by
  asset, in one step.
* `DebitAuthorised`, `EscrowReleaseAuthorised`, `StatusMonotone`,
  `OpenFundsFrozen` hold under both drivers; `NoOverdraft`, `EscrowNonNegative` and
  `FundsMoveWithStatus` only with serial transactions (section 5).
* `OnlyRedeemableClose`: a session that closed has distinct participants whose
  weights reach its quorum. Any other definition takes funds and never gives them
  back (`handlers.go:503`, `550`), and nothing in the create refuses it.
* `LedgerBacked`: balances and sessions together are the amounts of the open
  channels. `RowsMirrorContract`: a channel without pending events is in the
  database what it is on chain. `BrokerJoins`:
  the broker joins each channel opened with it, unless its Created event found
  another open channel of the same owner and chain (`custody.go:144-154`), which
  leaves it unjoined for ever. `RowsBehindContract`: whatever is lost, the row's
  version and status do not pass the contract's. `AcceptableStatesFit`: a signed
  state the contract would still take was computed from the amount it holds, so
  stale reads only make states that are refused.
* `ImplementsFeed`: the listener with its buffers is an `EventFeed`.
* `HandledInOrder`: over all subscriptions the handler gets logs in the order they
  were written, and each once but for its withdrawal. `GivesUpLate`: the process
  ends only when the node was out of reach at every attempt since there was a
  subscription, after all the delays. These are 2, none, 0, 5 and 6 seconds, 13
  in all, since `2^n - 1` is an exclusive or in Go. `LiveLogsHandled`: a log that a
  live subscription received is handled unless the subscription ends.
  `Resubscribes`: a subscription that ended is replaced or the process ends.
* `RowsAreLowBits`: unless the handler dropped an event, a row has the low bits of
  what its contract holds, after any resizes. `AstrayIsFrozen`: a channel whose row
  is off is never changed by a signed state. `Backed`: while rows are
  right, balance and sessions make up the rows to the last quantum.
  `GainsOnlyByDrops`: wrapping and truncation never give a participant what others
  put in, unless an event was dropped.
* `ChallengeAuthenticatesOnce`, `PendingBounded`, `KeptUntilExpiry`,
  `RoomReturns` say what their names do. `ExpiredNeedsAnswer` admits one exception
  the code has: a session may expire between `ValidateSession` and
  `UpdateSession` (`ws.go:179-187`), and the refresh then revives it without an
  answer.
* `RegistryLive`: the registry holds no connection whose goroutine is gone.
  `InOrder`: responses of a connection (each once at most) and forwards of each
  sender arrive in order, whichever writers are ended on the way.
  `DeliveredToAddressee`: whatever is looked up while connections come and go, a
  client gets only what concerns its address.

Deadlock is checked for `AppSession` and `Auth`. The other runs set
`CHECK_DEADLOCK FALSE`, since a bounded instance rightly stops: `Custody` and
`Amounts` when the channels are closed or the versions used up, `Connections` when
its connections are gone, `EthListener` when the process has ended.

### Fairness

* `Custody` (`reliable`): the listener's goroutine takes and handles pending
  events, a sent join is mined, an interrupted subscription is renewed. The
  goroutine loops for ever over its `select`, and with both a pending event and
  an error Go's `select` picks either; weak fairness on handling (`Handle`), on
  subscribing (`Subscribe`) and on mining (`MineJoin`) is what the scheduler and a
  working node give, if the handler returns. That is an assumption on the
  database, the node (`custody.go:85-104` has no deadline) and the users: a handler
  ends by writing to its participant's connection, and blocks if the client does
  not read (`ws.go:521`), as `MCConnections_slow_client` shows. That users
  send requests or submit what was signed is not assumed.
* `EthListener`: the library's goroutine and the listener's run (weak fairness of
  `Forward` and of `Goroutine` as a whole: the `select` may take any ready case).
  That the event handler returns is an assumption on it: it waits for the database
  and, for a join, for the node without a deadline (`custody.go:85-104`). Nothing is
  assumed of the node.
* `Auth`: time passes, and the ticker's goroutine is scheduled and gets the locks.
* `Connections` (`liveness` below): goroutines that can take a step take it. A
  write to a client that does not read is not enabled, as the code has no
  deadline there.

## 4. What TLC checks and what is proved

| theorem | run that checks it | says, for every value of the constants |
|---|---|---|
| `AppSessionProofs!TypeCorrect` | `sqlite` | types, both drivers |
| `DebitsAreAuthorised` | `postgres` | unified balances shrink only with a custody event or a create their owner signed |
| `EscrowReleasesAreAuthorised` | `postgres` | sessions' funds leave only at a close that carries the quorum |
| `StatusIsMonotone`, `OpenFundsAreFrozen` | `postgres` | the life of a session, and of its funds |
| `OnlyRedeemableCloses` | `sqlite` | any definitions: only distinct participants that reach the quorum ever close |
| `AppSessionSerialProofs!FundsFollowStatus`, `NothingOverpaid` | `sqlite` | serial transactions: funds move with a session's status, no share is negative, whatever custody events do to balances |
| `NothingOverdrawn` | `sqlite` | serial transactions and custody events that only credit: no balance is negative |
| `SessionsKeepPromise` | `sqlite` | serial transactions and plain requests, any custody events: the handlers, statement by statement, implement `AppEscrow` |
| `FundsAreConserved` | | under the same conditions and with finitely many sessions, only custody events change what the ledger holds of an asset (`Conservation`, which the code violates without either of the conditions: `double_close`, and `MCAppSession_crossed_assets` in section 6) |
| `NothingStaysBehind` | | under the same conditions the account of a closed session is empty (`ClosedSessionsEmpty`, which other requests violate, section 6) |
| `CustodyProofs!CustodyTyped`, `RowsStayBehind`, `SignedStatesFit` | `faulty` | any chains, channels, requests, and any number of failures, lost subscriptions and crashes |
| `RowsMirror` | `reliable` | without failures: a channel whose events are all handled is in the database what it is on chain, however requests, resizes and events interleave |
| `LedgerIsBacked` | `reliable` | without failures and allocations: balances and sessions together are the amounts of the open channels |
| `EthListenerProofs!ListenerTyped`, `HandlesInOrder`, `ListenerIsFeed` | `listener` | any sizes of channel and queue, any limit of failures, any withdrawals; the last one is the refinement of `EventFeed` |
| `HandlersImplementCustody` | | any sizes, channels, requests and faults: until a log is withdrawn, the handlers on the listener implement `Custody` (`ImplementsCustody`, run by hand: section 6) |
| `GivesUpAfterAllDelays` | `listener` | any limit of failures: the process ends only after the sum of all the delays |
| `AmountsProofs!AmountsTyped`, `RowsKeepLowBits`, `AstrayStaysFrozen` | `amounts` | any word width (so 2^64), any precisions, any deposits and requests |
| `BalanceIsBacked`, `NothingIsGained` | `amounts` | the same for any finite set of channels: what balance and sessions add up to, and that rounding and wrapping never give a participant what others put in |
| `AuthProofs!TypeCorrect`, `ChallengesAnsweredOnce`, `ChallengesBounded`, `NothingRemovedEarly`, `ExpiryIsFinal` | `auth` | any number of connections and tokens, any limits and lifetimes, any delay of the clean-up |
| `ConnectionsProofs!ConnectionsTyped`, `RegistryStaysLive`, `ClientsSeeOrder`, `OnlyAddressees` | `connections` | any connections, listeners, participants and addresses, in any order of steps |

## 5. The proofs

The assumptions are those the modules declare of their constants: sets and
functions of the right type, sizes that are natural numbers, a session id is no
address, a listener is no connection, `None` is no token, event or connection. The sets that sums range over are
finite: the addresses of `Ledger`, the chains, channels and owners of `Custody`,
the channels of `Amounts`. A theorem with further hypotheses has them in its `ASSUME`: the
database driver (`Driver`), no failures (`MaxFaults = 0`), no request that
allocates, custody events that only credit, or `PlainRequests`, of which the
`sqlite` run evaluates that its requests satisfy it (`PlainOnes`).

**Sums.** The models add up balances and rows with the folds of the
community modules, and a fold over a finite set is defined by recursion on that
set. `Sums` unfolds the definition once (`SumUnfolds`) and takes the facts the proofs
need from it: a sum without one element, a sum after one entry changed
(`SumChange`), sums of two functions, over a subset outside of which there is nothing,
and under a renaming (`SumPlus`, `SumOver`, `SumImage`). Each is an induction on
finite sets; since the library's rule for it takes an operator, the lemmas look for
a smallest counterexample instead (`SmallestSet`, from `WFMin`).

**App sessions.** None of the action properties follows from the type invariant:
a commit adds what the transaction inserted, statements ago. `IndInv` says, of
each transaction at each statement, what its uncommitted entries can be: a create
only debits unified accounts of its signers and credits its own session, a close
only debits the participants' shares of its own session, and only if its request
was authorised when it began; the statuses that the unique index and the row
lock protect match the statement. The lemmas `FundEntries` and `SettleEntries`
say what one row adds. With it each property is one case of the commit.

Serial transactions need `Serial`: at most one transaction is active, an idle one
has no entries, and a closing session is still open. `Covered` adds that
what a transaction has debited from an account so far was there: that is what the
balance checks before each debit preserve, as long as nobody else debits. A commit
then takes no account below zero (`CommitNonNegative`); only a custody event can.
Under PostgreSQL `Covered` is not inductive, and `MCAppSession_overdraft` shows why.

`OnlyRedeemableClose` needs what a close has checked so far: `Placed` says that the
rows placed name distinct participants. When all rows are placed they are as many
as the definition has participants, so by the pigeonhole principle
(`DistinctNames`) the definition repeats nobody.

`Promise` is about what is committed, and a commit adds what several statements
left in a transaction. `MovesInv` says what that is, at each statement.
`CreateMoves`: what a create has put into its session's account it has taken from
the wallet of the same participant. `CloseMoves`: of each participant and asset, the
share is debited if a row placed so far names them and untouched if not; the map
of sums (`funds`) lacks exactly the balances not read yet, and the map of payments
(`allocated`) is the sum of what has been credited. When the checks pass,
everyone has a row (`EveryoneHasOneRow`, the pigeonhole principle again), so every share is
debited, and the two maps agree, so the credits add up to the pot (`PaysOut`).
`SessionFunds` says that only an open session holds funds, of its one asset and, if it
can ever close, of its participants; so a close finds nothing in the account that it
does not read. The abstract step is then the commit, and every other step
stutters. For `FundsAreConserved` the total over all accounts is split into unified
accounts and the session's (`EntriesAddUp`; `Straight` says that there are no others),
and what a commit adds to the two cancels. `PlainRequests` is needed exactly where the
code compares less than it should: without one asset per session or with another spelling of a participant it is false
(`MCAppSession_left_asset`, `_crossed_assets`, `_spelling`).

**Custody.** Neither `RowsBehindContract` nor `AcceptableStatesFit` is inductive, since
a row is written from an event that was emitted long before. `EventInv` relates an event that waits to its
contract (it is no newer) and to its row (the row is older, and the event's deltas
take the row's amount to the event's); `Follows` says the same of two events of a
channel that wait, and `QueueInv` is preserved by taking the head and by losing any
suffix, which is all that failures do. `RowInv` follows from the head's. What a
request read, and what was signed from it, is the contract's amount or an
older one (`ReadFits`): a contract takes a state only with the next
version, and then the amount must fit.

Without failures the row can be predicted. `Trail` follows a channel from its row
over its waiting events to its contract: the row leads to the first of them
(`Leads`), what each leaves the row as leads to the next, and the last leaves it as the
contract is. The contracts' steps extend the trail, the handlers take its head, and
both halves are lemmas about one queue (`TrailExtended`, `TrailTaken`), used for
whatever chain the channel is on. Without events the trail is `RowsMirrorContract`.
`Balanced` is `LedgerBacked` with what a listener between the row and the ledger
entry of a resize still has to record (`Recording`); each handler moves one balance,
one row and one listener by amounts that cancel. It needs the trail, since
only open rows count and so each event must find its row in the status it expects,
and `Unallocated`, since an allocation changes a row but no balance.

**Listener.** `Control` says where the goroutine can be without a subscription and
`Order` that what was handled, the channel and the queue, in this order, hold
increasing logs. With these each step is one of `EventFeed` or a stutter: the
library's `Forward` leaves the concatenation as it is, the end of a subscription
cuts off the queue, a new one drops the channel. `Patience` says how long the
goroutine has slept at each point of its loop, as a sum over the failures so far.

`HandlersImplementCustody` has the invariant `withdrawn = {} => Composed`: the logs
that wait are logs that were written (`LogsFit`), a handler runs only while the
goroutine handles (`Places`), and what the steps update has the shape of functions
(`Shape`). `Custody`'s queue is then the events of channel and queue behind each
other. A log that the node writes is `Emit` (`LogEmits`), or an event nobody sees;
what the `select` takes is the head (`TakingTakes`); the end of a subscription is
`SubscriptionLost` with a prefix that remains; what the goroutine does between the
handlers is `Abandon`, `Subscribe` or a stutter. A log that is withdrawn ends the
invariant's premise, and nothing is claimed from there on.

**Amounts.** `PendingInv` says that the event to be handled takes the row to its
contract, `SignedInv` that a signed state starts from the row's amount or is too
old. The lemmas on `LowBits` (the low bits of a sum are those of the sum of low
bits) carry `RowsAreLowBits` over a resize. The step of `AstrayIsFrozen` then is
arithmetic: a state accepted by the contract has the amount of the row.

`Backed` and `GainsOnlyByDrops` hold of rows that are right, and a wrong row need not stay
the only thing that is wrong. So the invariants are alternatives: `Even` (balance, sessions and
allocations make up the open rows) or a row that has only part of its contract; and
`NothingDue` (the participant has no more than it put in, counting the credit of the
event that waits and the rows that are joining) or an event was dropped. What makes an alternative
inductive is that a row once astray is astray for ever (`AstrayForever`, from
`AstrayIsFrozen`). The handlers credit the event's amount and save the narrowed one,
and `LowBitsOfNat` says that narrowing only loses.

**Authentication.** `ChallengeAuthenticatesOnce` is not inductive: nothing
in it keeps a token that authenticated from being pending. `TokensSpent` does: the
token of a connection is used or gone. `SpentStays` (no step makes it pending
again) and `TokenGiven` (a token is given only by a pending challenge) are the
two halves of the step. `PendingBounded` follows from `PendingGrowth`: a step
removes challenges or adds one when there was room. `ExpiryIsFinal` needs no more than
types: time does not give back a lifetime (`LessIsExpired`), so what is valid
again was renewed by one of the two steps that renew.

**Connections.** `RegistryLive` is inductive with the types of registry and
connections: a goroutine registers itself while in its loop, and what its
deferred function deletes covers its own entry because an entry is filed under
the connection's own address. `InOrder` and `DeliveredToAddressee` are about what a
client has received and need what is still on its way. `JobsFit`: the
responses and forwards a goroutine has still to send are all of the message it
read last, and a response is its last job. `WriterFits`: a connection's writer
belongs to a goroutine that is writing to it, so a message that a `NextWriter` sends
for another goroutine is that goroutine's current one. `InboxFits`: an inbox holds only
messages for its address, of requests read already, and no response newer than the
one still to be sent; a response that another writer sent or lost is no longer to be
sent, although its goroutine has yet to notice (`Unsent`). A goroutine has nothing
to send before it is registered (`Idle`). A response is a goroutine's own write to
its own client, so no other goroutine can reorder it, whichever writer it ends.

Only model-checked: all liveness, which needs `ENABLED` and fairness (`BrokerJoins`,
`JoinedIsCredited`, `CloseIsRecorded`, `RoomReturns`, `LiveLogsHandled`, `Resubscribes`),
and that the properties of section 6 fail where it says so.

## 6. Where the code does not do what is written of it

Listed as violation runs and findings:

| run | property | what happens |
|---|---|---|
| `double_close` | `Conservation` | two overlapping closes of one session both pay it out |
| `lost_event` | `JoinedIsCredited` | a Joined event during a lost subscription is never seen |
| `reconnect` | `OpenIsRegistered` | the end of an old connection unregisters the new one |
| `large_deposit` | `CreditedInFull` | a deposit of 2^64 units or more is credited as its low bits |

Further counterexamples, with a cfg each, run by hand:

| cfg | property | what happens |
|---|---|---|
| `MCAppSession_overdraft` | `NoOverdraft` | two overlapping creates of different sessions spend the same balance |
| `MCAppSession_crossed_assets` | `Conservation` | rows that give each participant the other one's asset pass the sums and debit nothing |
| `MCAppSession_spelling` | `ClosedSessionsEmpty` | rows in another spelling pass the check of names and debit empty shares (`handlers.go:523-533`) |
| `MCAppSession_left_asset` | `ClosedSessionsEmpty` | assets the request does not name stay behind |
| `MCAppSession_stranger` | `ClosedSessionsEmpty` | an address that is no participant funds a session and cannot get it back |
| `MCCustody_allocated_twice` | `Solvent` | one balance is allocated into two channels and withdrawn from both |
| `MCCustody_two_open` | `OneOpenChannel` | the check for an open channel overlooks one that is joining |
| `MCCustody_allocated_close` | `UnifiedNonNegative` | closing debits allocations that were never credited |
| `MCCustody_locked_close` | `UnifiedNonNegative` | a close state pays a balance that is locked in a session meanwhile |
| `MCCustody_half_resize` | `ResizeIsRecorded` | the row is saved outside of the transaction (`custody.go:320`) |
| `MCCustody_lost_join` | `BrokerJoins` | a crash or a failing call after the row was stored: the channel is never joined |
| `MCConnections_stale_balance` | `ClientsUpToDate` | balances read first are sent last, over newer ones |
| `MCConnections_closed_routing` | `ClosedNotRouted` | messages of a closed session are still forwarded ("message routing is discontinued", `docs/Clearnode.protocol.md:38`) |
| `MCConnections_slow_client` | `ListenersNeverBlock` | a client that does not read blocks a chain's listener |
| `MCConnections_left_deadline` | `ReadersStayConnected` | an error response that another writer ends leaves its write deadline behind (`ws.go:487`), and a later message breaks the connection of a client that reads |
| `MCAmounts_dropped_resize` | `DropsAreSafe` | a withdrawal whose new amount the column refuses is paid on chain and never debited |
| `EthListener_back_off` | `BackOffGrows` | delays of 2, none, 0, 5, 6 seconds ("exponential backoff between retries", `eth_listener.go:89`) |
| `EthListener_reorg` | `HandledOnce` | the withdrawal of a log is handled as if it were one more log |
| `MCListenedCustody_joined_again` | `StaysBacked` | a reorganisation withdraws a Joined log and the channel is credited again, without any fault |

Three more pass: `MCListenedCustody_composed` (`ImplementsCustody`, with one end of
the subscription or restart and one withdrawal at any point; one chain with a
channel of the broker's and another one, a buffer of one log each and four logs,
enough to create, join, resize and close; the back-off is left to
`listener`), `MCConnections_liveness` (without a client that stops reading,
listeners return and closed connections leave the registry) and
`MCAppSession_odd_rows` (the invariants of `sqlite` and `FundsMoveWithStatus` with
two workers and rows of two assets, a stranger's spelling and negative
amounts).

## 7. Plan

Done: all modules of section 2 and the theorems of section 4. Left, in order:

1. A composition of `AppSession` and `Custody` over one ledger, with
   `CustodyEntry` and `LockFunds`/`PayOut` identified. The two share only balances,
   and the product of their states is beyond TLC in the runs' bounds.
2. Two faults combined in `Custody` as a run (the safety theorems cover them; what
   liveness remains then is not checked).
3. What `Custody` and `Amounts` still say of balances with allocations: an invariant that
   accounts for what channels hold beyond their deposits.

## Not modelled

* RPC encoding and signatures (`rpc.go`, `signer.go`): pure functions; the models
  take the recovered signers.
* RPC history (`rpc_store.go`), metrics (`metrics.go`): written and never read by
  the logic; queries and pagination change no state.
* Assets (`asset.go`): a read-only table; decimals are `Unit` in `Amounts`, a token
  that is missing from the table is not modelled.
* Configuration, database set-up and migrations, deployment files, the test
  client. The unique indexes and defaults of the tables are in the models.
* A nil channel in `HandleResizeChannel` panics (`handlers.go:702`), which ends one
  connection and changes nothing else. Overlapping writes to one WebSocket below
  the message, and sums beyond `DECIMAL(64,18)`, are left out.
