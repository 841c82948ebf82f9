------------------------------ MODULE Connections ------------------------------
(***************************************************************************)
(* WebSocket connections: the registry of authenticated connections, the   *)
(* goroutine that serves each of them (HandleConnection in ws.go), and the *)
(* messages it, the other connections' goroutines and the event listeners  *)
(* send to clients.                                                        *)
(*                                                                         *)
(* A goroutine's pending sends are its jobs.  A send to an address looks   *)
(* the connection up under the lock and writes to it outside of the lock,  *)
(* in two steps: NextWriter and the write that Close ends.  A connection   *)
(* has one writer; a NextWriter ends the one before and sends what it      *)
(* holds, which is its message or nothing yet.  Writes overlapping further *)
(* than that are a data race, whose other outcomes (a panic) are left out. *)
(***************************************************************************)
EXTENDS Integers, Sequences

CONSTANTS
    Conns,              \* connections, each opened once
    Addresses,
    KeysOf,             \* [Conns -> SUBSET Addresses], whose keys its client has
    Listeners,          \* event listeners, one per chain
    Members,            \* participants of the app session, a sequence
    Owners,             \* addresses with a channel, which events are about
    None,               \* no connection, no goroutine, no address
    MayStall,           \* connections whose client may stop reading
    DatabaseFails,      \* whether balances may be unreadable
    MaxServed           \* bounds on the messages or events of a goroutine

Goroutines == Conns \cup Listeners

ASSUME KeysOfType == KeysOf \in [Conns -> SUBSET Addresses]
ASSUME MembersType == Members \in Seq(Addresses)
ASSUME OwnersType == Owners \subseteq Addresses
ASSUME ListenersType == Listeners \cap Conns = {}
ASSUME DatabaseFailsType == DatabaseFails \in BOOLEAN
ASSUME NoneIsNone == None \notin Goroutines

VARIABLES
    registry,           \* h.connections: by address
    conns,              \* place in HandleConnection, its address and its socket
    jobs,               \* by goroutine: what it still has to send
    writer,             \* by connection: whose message is being written
    limited,            \* connections with a write deadline
    inbox,              \* by connection: what its client, while connected, received
    balance,            \* by address: version of its balances
    session,            \* status of the app session
    served              \* by goroutine: messages or events read

vars == <<registry, conns, jobs, writer, limited, inbox, balance, session, served>>

\* Messages: what they are about, and their number or the version they show.
Message(kind, about, n) == [kind |-> kind, about |-> about, n |-> n]

\* Jobs: a balance update, a message to an address, a message to a connection.
BalanceUpdate(a) == [op |-> "balance", to |-> a, msg |-> None]
Send(a, m) == [op |-> "send", to |-> a, msg |-> m]
Write(c, m) == [op |-> "write", to |-> c, msg |-> m]

ChannelUpdate(kind, a) == Send(a, Message(kind, a, 0))

IsMember(a) == \E i \in DOMAIN Members : Members[i] = a

Response(c, kind) == Write(c, Message(kind, c, served[c] + 1))

\* The inbox of a client that received nothing.
Nothing == [balances |-> None, messages |-> <<>>]

Init ==
    /\ registry = [a \in Addresses |-> None]
    /\ conns = [c \in Conns |-> [pc |-> "new", address |-> None, socket |-> "closed"]]
    /\ jobs = [g \in Goroutines |-> <<>>]
    /\ writer = [c \in Conns |-> None]
    /\ limited = {}
    /\ inbox = [c \in Conns |-> Nothing]
    /\ balance = [a \in Addresses |-> 0]
    /\ session = "none"
    /\ served = [g \in Goroutines |-> 0]

\* The sockets of C are closed, at either end; what their clients received and
\* what was being written to them matters no more.
Close(C) ==
    /\ conns' = [c \in Conns |-> IF c \in C THEN [conns[c] EXCEPT !.socket = "closed"]
                                           ELSE conns[c]]
    /\ inbox' = [c \in Conns |-> IF c \in C THEN Nothing ELSE inbox[c]]
    /\ writer' = [c \in Conns |-> IF c \in C THEN None ELSE writer[c]]
    /\ limited' = limited \ C

-------------------------------------------------------------------------------
\* HandleConnection.

\* The client connects and authenticates with its address (module Auth).
Connect(c, a) ==
    /\ conns[c].pc = "new"
    /\ conns' = [conns EXCEPT ![c] = [pc |-> "register", address |-> a, socket |-> "open"]]
    /\ UNCHANGED <<registry, jobs, writer, limited, inbox, balance, session, served>>

Register(c) ==
    LET a == conns[c].address
    IN  /\ conns[c].pc = "register"
        /\ registry' = [registry EXCEPT ![a] = c]
        /\ conns' = [conns EXCEPT ![c].pc = "loop"]
        /\ jobs' = [jobs EXCEPT ![c] = <<ChannelUpdate("channels", a), BalanceUpdate(a)>>]
        /\ UNCHANGED <<writer, limited, inbox, balance, session, served>>

\* Its goroutine waits for a message.
Waits(c) == conns[c].pc = "loop" /\ jobs[c] = <<>>

\* It reads one, which leaves it with the jobs js.
Reads(c, js) ==
    /\ Waits(c)
    /\ conns[c].socket # "closed"
    /\ served[c] < MaxServed[c]
    /\ served' = [served EXCEPT ![c] = @ + 1]
    /\ jobs' = [jobs EXCEPT ![c] = js]
    /\ UNCHANGED <<registry, writer, limited, inbox>>

\* Requests that change nothing here: answered, refused or, without a request
\* in the message, ignored.
Serve(c) ==
    /\ \E js \in {<<Response(c, "answer")>>, <<Response(c, "error")>>, <<>>} : Reads(c, js)
    /\ UNCHANGED <<conns, balance, session>>

\* create_app_session and close_app_session move the balances of all of the
\* participants; the requester is told of its own.
ChangeSession(c) ==
    /\ Reads(c, <<BalanceUpdate(conns[c].address), Response(c, "answer")>>)
    /\ \/ session = "none" /\ session' = "open"
       \/ session = "open" /\ session' = "closed"
    /\ balance' = [a \in Addresses |-> balance[a] + IF IsMember(a) THEN 1 ELSE 0]
    /\ UNCHANGED conns

\* Mutant: a message is forwarded by a goroutine of its own.
ForwardAtOnce(c) ==
    /\ session # "none"
    /\ conns[c].pc = "loop" /\ conns[c].socket # "closed" /\ served[c] < MaxServed[c]
    /\ served' = [served EXCEPT ![c] = @ + 1]
    /\ jobs' = [jobs EXCEPT ![c] = [i \in DOMAIN Members |->
                    Send(Members[i], Message("forward", c, served[c] + 1))] \o @]
    /\ UNCHANGED <<registry, conns, writer, limited, inbox, balance, session>>

\* A message with the session's id goes to its participants, but its sender.
Forward(c) ==
    /\ session # "none"
    /\ Reads(c, [i \in DOMAIN Members |->
                    Send(Members[i], Message("forward", c, served[c] + 1))])
    /\ UNCHANGED <<conns, balance, session>>

\* The session of its address expired, or the message is not well formed.
Reject(c) ==
    /\ Reads(c, <<Response(c, "error")>>)
    /\ conns' = [conns EXCEPT ![c].pc = "leaving"]
    /\ UNCHANGED <<balance, session>>

ReadFails(c) ==
    /\ Waits(c)
    /\ conns[c].socket = "closed"
    /\ conns' = [conns EXCEPT ![c].pc = "leaving"]
    /\ UNCHANGED <<registry, jobs, writer, limited, inbox, balance, session, served>>

Leaves(c) ==
    /\ conns[c].pc = "leaving" /\ jobs[c] = <<>>
    /\ conns' = [conns EXCEPT ![c].pc = "left"]

\* Mutant: the goroutine ends without its deferred function.
LeaveRegistered(c) ==
    /\ Leaves(c)
    /\ UNCHANGED <<registry, jobs, writer, limited, inbox, balance, session, served>>

\* The deferred functions: first the entry of the address is deleted, whichever
\* connection it holds, ...
Unregister(c) ==
    /\ Leaves(c)
    /\ registry' = [registry EXCEPT ![conns[c].address] = None]
    /\ UNCHANGED <<jobs, writer, limited, inbox, balance, session, served>>

\* ... and then the connection closed.
HangUp(c) ==
    /\ conns[c].pc = "left" /\ conns[c].socket # "closed"
    /\ Close({c})
    /\ UNCHANGED <<registry, jobs, balance, session, served>>

-------------------------------------------------------------------------------
\* Sends.

HasJob(g, op) == jobs[g] # <<>> /\ Head(jobs[g]).op = op

Job(g) == Head(jobs[g])

JobDone(g) == jobs' = [jobs EXCEPT ![g] = Tail(@)]

JobBecomes(g, j) == jobs' = [jobs EXCEPT ![g] = <<j>> \o Tail(@)]

\* sendBalanceUpdate reads the balances, unless the database fails.
ReadBalances(g) ==
    LET a == Job(g).to
    IN  /\ HasJob(g, "balance")
        /\ \/ JobBecomes(g, Send(a, Message("balance", a, balance[a])))
           \/ DatabaseFails /\ JobDone(g)
        /\ UNCHANGED <<registry, conns, writer, limited, inbox, balance, session, served>>

\* A message its own sender forwards is not for itself.
IsOwn(j) == j.msg.kind = "forward" /\ conns[j.msg.about].address = j.to

\* The connection c that there is for an address, if any, is written to.
UsesIt(g, c) == IF c = None THEN JobDone(g) ELSE JobBecomes(g, Write(c, Job(g).msg))

\* Mutant: the connection is used whether or not there is one.
LookUpUnchecked(g) ==
    /\ HasJob(g, "send")
    /\ JobBecomes(g, Write(registry[Job(g).to], Job(g).msg))
    /\ UNCHANGED <<registry, conns, writer, limited, inbox, balance, session, served>>

\* Mutant: the sender gets its own message.
LookUpOwn(g) ==
    /\ HasJob(g, "send")
    /\ UsesIt(g, registry[Job(g).to])
    /\ UNCHANGED <<registry, conns, writer, limited, inbox, balance, session, served>>

LookUp(g) ==
    /\ HasJob(g, "send")
    /\ IF IsOwn(Job(g)) THEN JobDone(g) ELSE UsesIt(g, registry[Job(g).to])
    /\ UNCHANGED <<registry, conns, writer, limited, inbox, balance, session, served>>

Writable(c) == conns[c].socket \in {"open", "stalled"}

IsError(g) == Job(g).msg.kind = "error"

\* sendErrorResponse sets a deadline for the writes to its connection, whoever
\* writes, and so also for the message that is being written.
SetWriteDeadline(g) ==
    LET c == Job(g).to
    IN  /\ HasJob(g, "write") /\ IsError(g)
        /\ Writable(c) /\ c \notin limited
        /\ limited' = limited \cup {c}
        /\ UNCHANGED <<registry, conns, jobs, writer, inbox, balance, session, served>>

\* What a client keeps: its last balances, and responses and forwards in order.
Received(c, m) ==
    CASE m.kind = "balance" -> [inbox EXCEPT ![c].balances = m]
      [] m.kind \in {"answer", "error", "forward"} -> [inbox EXCEPT ![c].messages = Append(@, m)]
      [] OTHER -> inbox

\* The message of the writer before is sent if it holds it, unless the client
\* does not read: then it is waited for.
NextWriter(g) ==
    LET c == Job(g).to
        before == writer[c]
    IN  /\ HasJob(g, "write")
        /\ \/ ~Writable(c) /\ JobDone(g) /\ UNCHANGED <<writer, inbox>>
           \/ /\ Writable(c) /\ (IsError(g) => c \in limited)
              /\ before = None \/ conns[c].socket = "open"
              /\ \/ UNCHANGED inbox
                 \/ before # None /\ inbox' = Received(c, Job(before).msg)
              /\ writer' = [writer EXCEPT ![c] = g]
              /\ JobBecomes(g, [Job(g) EXCEPT !.op = "finish"])
        /\ UNCHANGED <<registry, conns, limited, balance, session, served>>

\* The message arrives if the writer is still this goroutine's.
Deliver(g) ==
    LET c == Job(g).to
    IN  /\ HasJob(g, "finish") /\ writer[c] = g /\ conns[c].socket = "open"
        /\ inbox' = Received(c, Job(g).msg)
        /\ writer' = [writer EXCEPT ![c] = None]
        /\ limited' = IF IsError(g) THEN limited \ {c} ELSE limited
        /\ JobDone(g)
        /\ UNCHANGED <<registry, conns, balance, session, served>>

\* The goroutine of c is sending an error response.
Refuses(c) == (HasJob(c, "write") \/ HasJob(c, "finish")) /\ IsError(c)

\* The deadline passes: of a client that does not read, or one that was left.
TimesOut(c) == c \in limited /\ (conns[c].socket = "stalled" \/ ~Refuses(c))

\* "Error writing ...": the writer was ended, or the connection is closed or
\* misses its deadline, after which no write to it succeeds.  Without a
\* deadline a message to a client that does not read waits on.  The deadline
\* of an error response stays if it is ended before it is all written.
WriteFails(g) ==
    LET c == Job(g).to
        ended == writer[c] # g
        timesOut == ~ended /\ TimesOut(c)
    IN  /\ HasJob(g, "finish")
        /\ ended \/ ~Writable(c) \/ timesOut
        /\ writer' = IF ended THEN writer ELSE [writer EXCEPT ![c] = None]
        /\ conns' = IF timesOut THEN [conns EXCEPT ![c].socket = "broken"] ELSE conns
        /\ \/ ~timesOut /\ UNCHANGED limited
           \/ (timesOut \/ IsError(g)) /\ limited' = limited \ {c}
        /\ JobDone(g)
        /\ UNCHANGED <<registry, inbox, balance, session, served>>

Sends(g) ==
    \/ ReadBalances(g) \/ LookUp(g)
    \/ SetWriteDeadline(g) \/ NextWriter(g) \/ Deliver(g) \/ WriteFails(g)

-------------------------------------------------------------------------------
\* Events, clients and shutdown.

\* The custody handlers tell a channel's participant of its balances and its
\* channel, of the channel alone when it was only created.
HandleEvent(l, a) ==
    /\ jobs[l] = <<>>
    /\ served[l] < MaxServed[l]
    /\ served' = [served EXCEPT ![l] = @ + 1]
    /\ \/ /\ balance' = [balance EXCEPT ![a] = @ + 1]
          /\ jobs' = [jobs EXCEPT ![l] = <<BalanceUpdate(a), ChannelUpdate("channel", a)>>]
       \/ /\ jobs' = [jobs EXCEPT ![l] = <<ChannelUpdate("channel", a)>>]
          /\ UNCHANGED balance
    /\ UNCHANGED <<registry, conns, writer, limited, inbox, session>>

ClientCloses(c) ==
    /\ conns[c].socket # "closed"
    /\ Close({c})
    /\ UNCHANGED <<registry, jobs, balance, session, served>>

ClientStalls(c) ==
    /\ c \in MayStall /\ conns[c].socket = "open"
    /\ conns' = [conns EXCEPT ![c].socket = "stalled"]
    /\ UNCHANGED <<registry, jobs, writer, limited, inbox, balance, session, served>>

Registered == {registry[a] : a \in Addresses} \ {None}

CloseAllConnections ==
    /\ \E c \in Registered : conns[c].socket # "closed"
    /\ Close(Registered)
    /\ UNCHANGED <<registry, jobs, balance, session, served>>

\* What the goroutine of a connection does by itself.
Proceeds(c) == Register(c) \/ ReadFails(c) \/ Unregister(c) \/ HangUp(c)

Next ==
    \/ \E c \in Conns :
        \/ \E a \in KeysOf[c] : Connect(c, a)
        \/ Proceeds(c)
        \/ Serve(c)
        \/ ChangeSession(c)
        \/ Forward(c)
        \/ Reject(c)
        \/ ClientCloses(c)
        \/ ClientStalls(c)
    \/ \E g \in Goroutines : Sends(g)
    \/ \E l \in Listeners, a \in Owners : HandleEvent(l, a)
    \/ CloseAllConnections

Spec == Init /\ [][Next]_vars

\* The scheduler runs every goroutine that is not blocked.
FairSpec ==
    /\ Spec
    /\ \A g \in Goroutines : WF_vars(Sends(g))
    /\ \A c \in Conns : WF_vars(Proceeds(c))

-------------------------------------------------------------------------------
\* Properties.

Messages ==
    [kind : {"channels", "channel", "balance"}, about : Addresses, n : Nat]
        \cup [kind : {"answer", "error", "forward"}, about : Conns, n : Nat]

Jobs ==
    [op : {"balance"}, to : Addresses, msg : {None}]
        \cup [op : {"send"}, to : Addresses, msg : Messages]
        \cup [op : {"write", "finish"}, to : Conns, msg : Messages]

TypeOK ==
    /\ registry \in [Addresses -> Conns \cup {None}]
    /\ conns \in [Conns -> [pc : {"new", "register", "loop", "leaving", "left"},
                            address : Addresses \cup {None},
                            socket : {"open", "stalled", "broken", "closed"}]]
    /\ jobs \in [Goroutines -> Seq(Jobs)]
    /\ writer \in [Conns -> Goroutines \cup {None}]
    /\ limited \subseteq Conns
    /\ inbox \in [Conns -> [balances : Messages \cup {None}, messages : Seq(Messages)]]
    /\ balance \in [Addresses -> Nat]
    /\ session \in {"none", "open", "closed"}
    /\ served \in [Goroutines -> Nat]

\* The registry holds no connection whose goroutine has gone, and each under
\* the address it authenticated (ws.go:141-152).
RegistryLive ==
    \A a \in Addresses : registry[a] # None =>
        conns[registry[a]].address = a /\ conns[registry[a]].pc \in {"loop", "leaving"}

\* A client sees the answers to its requests in their order, one for each at
\* most, and the messages that another connection forwards to it in theirs
\* (ws.go:164-366), although several goroutines write to its connection.
InOrder ==
    \A c \in Conns :
        LET ms == inbox[c].messages
        IN  \A i, j \in DOMAIN ms :
                i < j /\ ms[i].about = ms[j].about
                    => /\ ms[i].n <= ms[j].n
                       /\ ms[j].kind # "forward" => ms[i].n < ms[j].n

\* A client receives only what concerns its own address, and no message it
\* forwarded itself, whichever connections of it come and go meanwhile
\* (ws.go:408-415, 516-521).
DeliveredToAddressee ==
    \A c \in Conns :
        /\ inbox[c].balances # None => inbox[c].balances.about = conns[c].address
        /\ \A i \in DOMAIN inbox[c].messages :
              LET m == inbox[c].messages[i]
              IN  IF m.kind = "forward"
                  THEN IsMember(conns[c].address) /\ conns[m.about].address # conns[c].address
                  ELSE m.about = c

\* Some client does not read what is being written to it.
SomeoneStalls == \E c \in Conns : conns[c].socket = "stalled"

\* A connection that is closed leaves the registry, unless its goroutine waits
\* for a client that does not read (ws.go:146-152; forwards have no deadline).
ClosedIsForgotten ==
    \A c \in Conns :
        c \in Registered /\ conns[c].socket = "closed" ~> c \notin Registered \/ SomeoneStalls

\* A listener comes back to its chain's events unless a client does not read
\* what it sends (custody.go:293, ws.go:521).
ListenersReturn ==
    \A l \in Listeners : jobs[l] # <<>> ~> jobs[l] = <<>> \/ SomeoneStalls

\* What the documents say and the code does not ensure.

\* "The server automatically sends balance updates to clients" (API.md:622): a
\* client that is connected and welcomed can be found.
OpenIsRegistered ==
    \A c \in Conns :
        conns[c].pc = "loop" /\ conns[c].socket = "open" /\ jobs[c] = <<>>
            => registry[conns[c].address] # None

\* "The balance update provides the latest balances" (API.md:647): when nothing
\* is left to send, the last update a client got shows its balances.
ClientsUpToDate ==
    (\A g \in Goroutines : jobs[g] = <<>>) =>
        \A c \in Conns :
            conns[c].pc = "loop" /\ inbox[c].balances # None
                => inbox[c].balances.n = balance[conns[c].address]

\* "message routing is discontinued" (Clearnode.protocol.md:38).
ClosedNotRouted ==
    [][session = "closed" =>
         \A c \in Conns : jobs[c] = <<>> =>
             (\A i \in DOMAIN jobs'[c] :
                 jobs'[c][i].op = "send" => jobs'[c][i].msg.kind # "forward")]_vars

\* "a short write deadline to prevent blocking on unresponsive clients"
\* (ws.go:475): a client that reads does not lose its connection to one.
ReadersStayConnected ==
    [][\A c \in Conns :
         conns[c].socket = "open" => conns'[c].socket # "broken"]_vars

\* "to prevent blocking on unresponsive clients" (ws.go:475), for listeners.
ListenersNeverBlock == \A l \in Listeners : jobs[l] # <<>> ~> jobs[l] = <<>>
===============================================================================
