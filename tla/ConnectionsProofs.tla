--------------------------- MODULE ConnectionsProofs ---------------------------
(***************************************************************************)
(* Proofs about Connections, for any connections, addresses, listeners and *)
(* participants: the registry never holds a connection that is gone, and   *)
(* clients receive what concerns them, in order.                           *)
(***************************************************************************)
EXTENDS Connections, TLAPS

\* The part of the type invariant that the registry depends on.
Placed ==
    /\ registry \in [Addresses -> Conns \cup {None}]
    /\ conns \in [Conns -> [pc : {"new", "register", "loop", "leaving", "left"},
                            address : Addresses \cup {None},
                            socket : {"open", "stalled", "broken", "closed"}]]

\* A connection's place and address, without its socket.
SamePlace(c) == conns'[c].pc = conns[c].pc /\ conns'[c].address = conns[c].address

LEMMA SendPlaces ==
    ASSUME Placed, NEW g \in Goroutines, Sends(g)
    PROVE  Placed' /\ registry' = registry /\ \A c \in Conns : SamePlace(c)
<1>1. registry' = registry
  BY DEF Sends, ReadBalances, LookUp, SetWriteDeadline, NextWriter, Deliver, WriteFails
<1>2. conns' = conns \/ \E d : conns' = [conns EXCEPT ![d].socket = "broken"]
  BY DEF Sends, ReadBalances, LookUp, SetWriteDeadline, NextWriter, Deliver, WriteFails
<1>3. CASE conns' = conns
  BY <1>1, <1>3 DEF Placed, SamePlace
<1>4. ASSUME NEW d, conns' = [conns EXCEPT ![d].socket = "broken"]
      PROVE  Placed' /\ registry' = registry /\ \A c \in Conns : SamePlace(c)
  BY <1>1, <1>4 DEF Placed, SamePlace
<1> QED
  BY <1>2, <1>3, <1>4

LEMMA ClosePlaces ==
    ASSUME Placed, NEW C, Close(C), registry' = registry
    PROVE  Placed' /\ \A c \in Conns : SamePlace(c)
BY DEF Close, Placed, SamePlace

\* Every step keeps the places typed and the registry's entries alive.
LEMMA StepLive == Placed /\ RegistryLive /\ [Next]_vars => Placed' /\ RegistryLive'
<1> SUFFICES ASSUME Placed, RegistryLive, [Next]_vars PROVE Placed' /\ RegistryLive'
  OBVIOUS
<1>1. \A a \in Addresses : registry[a] # None => registry[a] \in Conns
  BY DEF Placed
<1>2. ASSUME Placed', registry' = registry, \A c \in Conns : SamePlace(c)
      PROVE  Placed' /\ RegistryLive'
  BY <1>1, <1>2 DEF RegistryLive, SamePlace
<1>3. ASSUME NEW c \in Conns, NEW a \in KeysOf[c], Connect(c, a)
      PROVE  Placed' /\ RegistryLive'
  <2>1. a \in Addresses
    BY KeysOfType
  <2>2. Placed' /\ registry' = registry
    BY <1>3, <2>1 DEF Connect, Placed
  <2>3. \A d \in Conns : d # c => SamePlace(d)
    BY <1>3 DEF Connect, Placed, SamePlace
  <2>4. \A b \in Addresses : registry[b] # c \/ registry[b] = None
    BY <1>3 DEF Connect, RegistryLive
  <2> QED
    BY <1>1, <2>2, <2>3, <2>4 DEF RegistryLive, SamePlace
<1>4. ASSUME NEW c \in Conns, Register(c) PROVE Placed' /\ RegistryLive'
  <2> DEFINE a == conns[c].address
  <2>1. /\ registry' = [registry EXCEPT ![a] = c]
        /\ conns' = [conns EXCEPT ![c].pc = "loop"]
    BY <1>4 DEF Register
  <2>2. Placed'
    BY <2>1 DEF Placed
  <2>3. conns'[c].pc = "loop" /\ conns'[c].address = a
    BY <2>1 DEF Placed
  <2>4. \A d \in Conns : d # c => SamePlace(d)
    BY <2>1 DEF Placed, SamePlace
  <2>5. \A b \in Addresses : registry[b] # c \/ registry[b] = None
    BY <1>4 DEF Register, RegistryLive
  <2>6. \A b \in Addresses : IF b = a THEN registry'[b] = c ELSE registry'[b] = registry[b]
    BY <2>1 DEF Placed
  <2> QED
    BY <1>1, <2>2, <2>3, <2>4, <2>5, <2>6 DEF RegistryLive, SamePlace
<1>5. ASSUME NEW c \in Conns, ReadFails(c) \/ Reject(c) PROVE Placed' /\ RegistryLive'
  <2>1. conns' = [conns EXCEPT ![c].pc = "leaving"] /\ registry' = registry
    BY <1>5 DEF ReadFails, Reject, Reads
  <2>2. Placed'
    BY <2>1 DEF Placed
  <2>3. \A d \in Conns : /\ conns'[d].address = conns[d].address
                         /\ conns'[d].pc \in {conns[d].pc, "leaving"}
    BY <2>1 DEF Placed
  <2> QED
    BY <1>1, <2>1, <2>2, <2>3 DEF RegistryLive
<1>6. ASSUME NEW c \in Conns, Unregister(c) PROVE Placed' /\ RegistryLive'
  <2>1. /\ conns' = [conns EXCEPT ![c].pc = "left"]
        /\ registry' = [registry EXCEPT ![conns[c].address] = None]
    BY <1>6 DEF Unregister, Leaves
  <2>2. Placed'
    BY <2>1 DEF Placed
  <2>3. \A d \in Conns : d # c => SamePlace(d)
    BY <2>1 DEF Placed, SamePlace
  <2>4. \A b \in Addresses : registry'[b] = IF b = conns[c].address THEN None ELSE registry[b]
    BY <2>1 DEF Placed
  <2>5. \A b \in Addresses : registry'[b] # None => registry'[b] = registry[b] /\ registry[b] # c
    BY <2>4 DEF RegistryLive
  <2> QED
    BY <1>1, <2>2, <2>3, <2>5 DEF RegistryLive, SamePlace
<1>7. ASSUME NEW c \in Conns, HangUp(c) \/ ClientCloses(c) PROVE Placed' /\ RegistryLive'
  BY <1>2, <1>7, ClosePlaces DEF HangUp, ClientCloses
<1>8. CASE CloseAllConnections
  BY <1>2, <1>8, ClosePlaces DEF CloseAllConnections
<1>9. ASSUME NEW c \in Conns, ClientStalls(c) PROVE Placed' /\ RegistryLive'
  <2>1. conns' = [conns EXCEPT ![c].socket = "stalled"] /\ registry' = registry
    BY <1>9 DEF ClientStalls
  <2>2. Placed' /\ \A d \in Conns : SamePlace(d)
    BY <2>1 DEF Placed, SamePlace
  <2> QED
    BY <1>2, <2>1, <2>2
<1>10. ASSUME NEW g \in Goroutines, Sends(g) PROVE Placed' /\ RegistryLive'
  BY <1>2, <1>10, SendPlaces
<1>11. CASE UNCHANGED <<registry, conns>>
  BY <1>2, <1>11 DEF Placed, SamePlace
<1>12. ASSUME NEW c \in Conns, Serve(c) \/ ChangeSession(c) \/ Forward(c)
       PROVE  Placed' /\ RegistryLive'
  BY <1>11, <1>12 DEF Serve, ChangeSession, Forward, Reads
<1>13. ASSUME NEW l \in Listeners, NEW a \in Owners, HandleEvent(l, a)
       PROVE  Placed' /\ RegistryLive'
  BY <1>11, <1>13 DEF HandleEvent
<1> QED
  BY <1>3, <1>4, <1>5, <1>6, <1>7, <1>8, <1>9, <1>10, <1>11, <1>12, <1>13
     DEF Next, Proceeds, vars

\* The registry holds no connection whose goroutine has gone, and each under
\* the address it authenticated (ws.go:141-152), for any number of connections
\* of an address that come and go.
THEOREM RegistryStaysLive == Spec => []RegistryLive
<1>1. Init => Placed /\ RegistryLive
  BY DEF Init, Placed, RegistryLive
<1>2. Placed /\ RegistryLive /\ [Next]_vars => (Placed /\ RegistryLive)'
  BY StepLive
<1> QED
  BY <1>1, <1>2, PTL DEF Spec

-------------------------------------------------------------------------------
\* What the pending sends and the clients' inboxes hold.

Responses == {"answer", "error"}

Updates == {"balance", "channel", "channels"}

\* The message m is one for the connection c.
Addressed(c, m) ==
    /\ m.kind \in Updates => m.about = conns[c].address
    /\ m.kind \in Responses => m.about = c
    /\ m.kind = "forward" => IsMember(conns[c].address) /\ conns[m.about].address # conns[c].address
    /\ m.kind \notin Updates => conns[m.about].pc # "new"

\* The job j is one that g can have: its own responses and forwards, all of
\* the message it read last.
JobFits(g, j) ==
    /\ j.op = "send" => IF j.msg.kind = "forward" THEN IsMember(j.to)
                        ELSE j.msg.kind \in Updates /\ j.msg.about = j.to
    /\ j.op \in {"write", "finish"} => conns[j.to].pc # "new" /\ Addressed(j.to, j.msg)
    /\ j.op # "balance" /\ j.msg.kind \notin Updates =>
           j.msg.about = g /\ j.msg.n = served[g] /\ conns[g].pc # "new"

IsResponse(j) == j.op \in {"write", "finish"} /\ j.msg.kind \in Responses

\* Jobs fit, and a response is sent last.
FitAt(g, i) ==
    JobFits(g, jobs[g][i]) /\ (IsResponse(jobs[g][i]) => i = Len(jobs[g]))

JobsFit == \A g \in Goroutines : \A i \in DOMAIN jobs[g] : FitAt(g, i)

\* c still has to send a response: one whose writer was ended is not sent any
\* more, or was when its writer was ended.
Unsent(c) ==
    \E i \in DOMAIN jobs[c] :
        /\ IsResponse(jobs[c][i])
        /\ i = 1 /\ jobs[c][i].op = "finish" => writer[c] = c

\* What the inbox of c holds is for c, of messages read already, and before a
\* response that is still to be sent.
Fits(c, m) ==
    /\ m.kind \notin Updates
    /\ Addressed(c, m)
    /\ m.n <= served[m.about]
    /\ m.kind \in Responses /\ Unsent(c) => m.n < served[c]

InboxAt(c) ==
    /\ conns[c].pc = "new" => inbox[c] = Nothing
    /\ inbox[c].balances # None =>
           inbox[c].balances.kind = "balance" /\ Addressed(c, inbox[c].balances)
    /\ \A k \in DOMAIN inbox[c].messages : Fits(c, inbox[c].messages[k])

InboxFits == \A c \in Conns : InboxAt(c)

HasAddress == \A c \in Conns : conns[c].pc # "new" => conns[c].address \in Addresses

\* The writer of a connection is a goroutine that is writing to it.
WriterFits ==
    \A c \in Conns, h \in Goroutines : writer[c] = h =>
        HasJob(h, "finish") /\ Job(h).to = c

\* A goroutine has nothing to send before its connection is registered.
Idle == \A c \in Conns : conns[c].pc \in {"new", "register"} => jobs[c] = <<>>

IInv ==
    /\ TypeOK /\ HasAddress /\ RegistryLive
    /\ Idle /\ WriterFits
    /\ JobsFit /\ InboxFits /\ InOrder

-------------------------------------------------------------------------------
\* Types.

LEMMA MessageTypes ==
    /\ \A k \in Updates, a \in Addresses, n \in Nat : Message(k, a, n) \in Messages
    /\ \A k \in Responses \cup {"forward"}, c \in Conns, n \in Nat : Message(k, c, n) \in Messages
BY DEF Message, Messages, Updates, Responses

LEMMA MessageCases ==
    ASSUME NEW m \in Messages
    PROVE  /\ m.n \in Nat
           /\ \/ m.kind \in Updates /\ m.kind \notin Responses \cup {"forward"} /\ m.about \in Addresses
              \/ m.kind \in Responses \cup {"forward"} /\ m.kind \notin Updates /\ m.about \in Conns
BY DEF Messages, Updates, Responses

LEMMA JobTypes ==
    /\ \A a \in Addresses : BalanceUpdate(a) \in Jobs
    /\ \A a \in Addresses, m \in Messages : Send(a, m) \in Jobs
    /\ \A c \in Conns, m \in Messages : Write(c, m) \in Jobs
BY DEF Jobs, BalanceUpdate, Send, Write

LEMMA JobCases ==
    ASSUME NEW j \in Jobs
    PROVE  \/ j.op = "balance" /\ j.to \in Addresses /\ j.msg = None
           \/ j.op = "send" /\ j.to \in Addresses /\ j.msg \in Messages
           \/ j.op \in {"write", "finish"} /\ j.to \in Conns /\ j.msg \in Messages
BY DEF Jobs

\* The first of some jobs, and what its goroutine's jobs become.
LEMMA FirstJob ==
    ASSUME TypeOK, NEW g \in Goroutines, jobs[g] # <<>>
    PROVE  /\ Job(g) \in Jobs /\ Job(g) = jobs[g][1] /\ 1 \in DOMAIN jobs[g]
           /\ Tail(jobs[g]) \in Seq(Jobs)
           /\ Len(Tail(jobs[g])) = Len(jobs[g]) - 1
           /\ \A i \in DOMAIN Tail(jobs[g]) :
                 i + 1 \in DOMAIN jobs[g] /\ Tail(jobs[g])[i] = jobs[g][i + 1]
<1>1. jobs[g] \in Seq(Jobs)
  BY DEF TypeOK
<1> QED
  BY <1>1 DEF Job

LEMMA JobsBecome ==
    ASSUME TypeOK, NEW g \in Goroutines, jobs[g] # <<>>, NEW j \in Jobs, JobBecomes(g, j)
    PROVE  /\ jobs' \in [Goroutines -> Seq(Jobs)]
           /\ Len(jobs'[g]) = Len(jobs[g]) /\ jobs'[g][1] = j
           /\ \A i \in DOMAIN jobs'[g] :
                 i # 1 => i \in DOMAIN jobs[g] /\ jobs'[g][i] = jobs[g][i]
           /\ \A h \in Goroutines : h # g => jobs'[h] = jobs[h]
<1>1. jobs[g] \in Seq(Jobs) /\ jobs \in [Goroutines -> Seq(Jobs)]
  BY DEF TypeOK
<1>2. <<j>> \o Tail(jobs[g]) \in Seq(Jobs)
  BY <1>1
<1>3. jobs' = [jobs EXCEPT ![g] = <<j>> \o Tail(jobs[g])]
  BY DEF JobBecomes
<1>4. jobs' \in [Goroutines -> Seq(Jobs)] /\ jobs'[g] = <<j>> \o Tail(jobs[g])
  BY <1>1, <1>2, <1>3
<1>5. \A h \in Goroutines : h # g => jobs'[h] = jobs[h]
  BY <1>1, <1>3
<1> QED
  BY <1>1, <1>4, <1>5

LEMMA JobIsDone ==
    ASSUME TypeOK, NEW g \in Goroutines, jobs[g] # <<>>, JobDone(g)
    PROVE  /\ jobs' \in [Goroutines -> Seq(Jobs)]
           /\ jobs'[g] = Tail(jobs[g])
           /\ \A h \in Goroutines : h # g => jobs'[h] = jobs[h]
<1>1. jobs \in [Goroutines -> Seq(Jobs)]
  BY DEF TypeOK
<1>2. jobs' = [jobs EXCEPT ![g] = Tail(jobs[g])]
  BY DEF JobDone
<1> QED
  BY <1>1, <1>2, FirstJob

LEMMA GoroutinesAre == Conns \subseteq Goroutines /\ Listeners \subseteq Goroutines
BY DEF Goroutines

LEMMA ReadsTyped ==
    ASSUME TypeOK, NEW c \in Conns, NEW js \in Seq(Jobs), Reads(c, js)
    PROVE  /\ jobs' \in [Goroutines -> Seq(Jobs)] /\ served' \in [Goroutines -> Nat]
           /\ jobs'[c] = js /\ served'[c] = served[c] + 1
           /\ \A h \in Goroutines : h # c => jobs'[h] = jobs[h] /\ served'[h] = served[h]
BY GoroutinesAre DEF TypeOK, Reads

LEMMA ResponsesTyped ==
    ASSUME TypeOK, NEW c \in Conns, NEW k \in Responses PROVE Response(c, k) \in Jobs
<1>1. served[c] + 1 \in Nat
  BY GoroutinesAre DEF TypeOK
<1> QED
  BY <1>1, MessageTypes, JobTypes DEF Response

\* The jobs of a forward: one for each participant.
LEMMA ForwardsTyped ==
    ASSUME TypeOK, NEW c \in Conns
    PROVE  [i \in DOMAIN Members |-> Send(Members[i], Message("forward", c, served[c] + 1))]
               \in Seq(Jobs)
<1>1. served[c] + 1 \in Nat
  BY GoroutinesAre DEF TypeOK
<1>2. Message("forward", c, served[c] + 1) \in Messages
  BY <1>1, MessageTypes
<1>3. \A i \in DOMAIN Members :
          Send(Members[i], Message("forward", c, served[c] + 1)) \in Jobs
  BY <1>2, JobTypes, MembersType
<1>4. DOMAIN Members = 1..Len(Members) /\ Len(Members) \in Nat
  BY MembersType
<1> QED
  BY <1>3, <1>4

LEMMA CloseTyped ==
    ASSUME TypeOK, NEW C, Close(C)
    PROVE  /\ conns' \in [Conns -> [pc : {"new", "register", "loop", "leaving", "left"},
                                    address : Addresses \cup {None},
                                    socket : {"open", "stalled", "broken", "closed"}]]
           /\ writer' \in [Conns -> Goroutines \cup {None}]
           /\ limited' \subseteq Conns
           /\ inbox' \in [Conns -> [balances : Messages \cup {None}, messages : Seq(Messages)]]
<1>1. Nothing \in [balances : Messages \cup {None}, messages : Seq(Messages)]
  BY DEF Nothing
<1> QED
  BY <1>1 DEF Close, TypeOK

LEMMA ReceivedTyped ==
    ASSUME TypeOK, NEW c \in Conns, NEW m \in Messages, inbox' = Received(c, m)
    PROVE  inbox' \in [Conns -> [balances : Messages \cup {None}, messages : Seq(Messages)]]
<1>1. Append(inbox[c].messages, m) \in Seq(Messages)
  BY DEF TypeOK
<1> QED
  BY <1>1 DEF Received, TypeOK

LEMMA SendTyped == ASSUME TypeOK, WriterFits, NEW g \in Goroutines, Sends(g) PROVE TypeOK'
<1>1. CASE ReadBalances(g)
  <2>1. jobs[g] # <<>> /\ Job(g).op = "balance"
    BY <1>1 DEF ReadBalances, HasJob, Job
  <2>2. Job(g).to \in Addresses
    BY <2>1, FirstJob, JobCases
  <2>3. Send(Job(g).to, Message("balance", Job(g).to, balance[Job(g).to])) \in Jobs
    <3>1. balance[Job(g).to] \in Nat
      BY <2>2 DEF TypeOK
    <3> QED
      BY <2>2, <3>1, MessageTypes, JobTypes DEF Updates
  <2>4. jobs' \in [Goroutines -> Seq(Jobs)]
    BY <1>1, <2>1, <2>3, JobsBecome, JobIsDone DEF ReadBalances
  <2> QED
    BY <1>1, <2>4 DEF ReadBalances, TypeOK
<1>2. CASE LookUp(g)
  <2>1. jobs[g] # <<>> /\ Job(g).op = "send"
    BY <1>2 DEF LookUp, HasJob, Job
  <2>2. Job(g).to \in Addresses /\ Job(g).msg \in Messages
    BY <2>1, FirstJob, JobCases
  <2>3. registry[Job(g).to] # None => Write(registry[Job(g).to], Job(g).msg) \in Jobs
    BY <2>2, JobTypes DEF TypeOK
  <2>4. jobs' \in [Goroutines -> Seq(Jobs)]
    BY <1>2, <2>1, <2>3, JobsBecome, JobIsDone DEF LookUp, UsesIt
  <2> QED
    BY <1>2, <2>4 DEF LookUp, TypeOK
<1>3. CASE NextWriter(g)
  <2>1. jobs[g] # <<>> /\ Job(g).op = "write"
    BY <1>3 DEF NextWriter, HasJob, Job
  <2>2. Job(g) \in Jobs /\ Job(g).to \in Conns /\ Job(g).msg \in Messages
    BY <2>1, FirstJob, JobCases
  <2>3. [Job(g) EXCEPT !.op = "finish"] \in Jobs
    BY <2>1, <2>2 DEF Jobs
  <2>4. jobs' \in [Goroutines -> Seq(Jobs)]
    BY <1>3, <2>1, <2>3, JobsBecome, JobIsDone DEF NextWriter
  <2>5. writer' \in [Conns -> Goroutines \cup {None}]
    BY <1>3, <2>2 DEF NextWriter, TypeOK
  <2>6. inbox' \in [Conns -> [balances : Messages \cup {None}, messages : Seq(Messages)]]
    <3>1. CASE UNCHANGED inbox
      BY <3>1 DEF TypeOK
    <3>2. CASE ~UNCHANGED inbox
      <4>1. PICK c \in Conns, h \in Goroutines :
                h = writer[c] /\ h # None /\ inbox' = Received(c, Job(h).msg)
        BY <1>3, <2>2, <3>2 DEF NextWriter, TypeOK
      <4>2. jobs[h] # <<>> /\ Job(h).op = "finish"
        BY <4>1 DEF WriterFits, HasJob, Job
      <4>3. Job(h).msg \in Messages
        BY <4>2, FirstJob, JobCases
      <4> QED
        BY <4>1, <4>3, ReceivedTyped
    <3> QED
      BY <3>1, <3>2
  <2> QED
    BY <1>3, <2>4, <2>5, <2>6 DEF NextWriter, TypeOK
<1>4. CASE Deliver(g)
  <2>1. jobs[g] # <<>> /\ Job(g).op = "finish"
    BY <1>4 DEF Deliver, HasJob, Job
  <2>2. Job(g).to \in Conns /\ Job(g).msg \in Messages
    BY <2>1, FirstJob, JobCases
  <2>3. jobs' \in [Goroutines -> Seq(Jobs)]
    BY <1>4, <2>1, JobIsDone DEF Deliver
  <2>4. inbox' \in [Conns -> [balances : Messages \cup {None}, messages : Seq(Messages)]]
    BY <1>4, <2>2, ReceivedTyped DEF Deliver
  <2>5. writer' \in [Conns -> Goroutines \cup {None}]
    BY <1>4 DEF Deliver, TypeOK
  <2> QED
    BY <1>4, <2>3, <2>4, <2>5 DEF Deliver, TypeOK
<1>5. CASE WriteFails(g)
  <2>1. jobs[g] # <<>> /\ Job(g).op = "finish"
    BY <1>5 DEF WriteFails, HasJob, Job
  <2>2. jobs' \in [Goroutines -> Seq(Jobs)]
    BY <1>5, <2>1, JobIsDone DEF WriteFails
  <2>3. writer' \in [Conns -> Goroutines \cup {None}]
    BY <1>5 DEF WriteFails, TypeOK
  <2>4. Placed'
    BY <1>5, SendPlaces DEF TypeOK, Placed, Sends
  <2> QED
    BY <1>5, <2>2, <2>3, <2>4 DEF WriteFails, TypeOK, Placed
<1>6. CASE SetWriteDeadline(g)
  <2>1. jobs[g] # <<>> /\ Job(g).op = "write"
    BY <1>6 DEF SetWriteDeadline, HasJob, Job
  <2>2. Job(g).to \in Conns
    BY <2>1, FirstJob, JobCases
  <2> QED
    BY <1>6, <2>2 DEF SetWriteDeadline, TypeOK
<1> QED
  BY <1>1, <1>2, <1>3, <1>4, <1>5, <1>6 DEF Sends

LEMMA ConnectionTyped ==
    ASSUME TypeOK, HasAddress, NEW c \in Conns,
           Proceeds(c) \/ ClientCloses(c) \/ ClientStalls(c)
    PROVE  TypeOK'
<1>1. CASE Register(c)
  <2> DEFINE a == conns[c].address
  <2>1. conns' = [conns EXCEPT ![c].pc = "loop"]
    BY <1>1 DEF Register
  <2>2. conns' \in [Conns -> [pc : {"new", "register", "loop", "leaving", "left"},
                              address : Addresses \cup {None},
                              socket : {"open", "stalled", "broken", "closed"}]]
    BY <2>1 DEF TypeOK
  <2>3. registry' \in [Addresses -> Conns \cup {None}]
    BY <1>1 DEF Register, TypeOK
  <2>4. jobs' \in [Goroutines -> Seq(Jobs)]
    <3>3. a \in Addresses
      BY <1>1 DEF Register, HasAddress
    <3>1. ChannelUpdate("channels", a) \in Jobs /\ BalanceUpdate(a) \in Jobs
      BY <3>3, MessageTypes, JobTypes DEF ChannelUpdate, Updates
    <3>2. <<ChannelUpdate("channels", a), BalanceUpdate(a)>> \in Seq(Jobs)
      BY <3>1
    <3> HIDE DEF a
    <3> QED
      BY <1>1, <3>2, GoroutinesAre DEF Register, TypeOK, a
  <2> QED
    BY <1>1, <2>2, <2>3, <2>4 DEF Register, TypeOK
<1>2. CASE ReadFails(c)
  BY <1>2 DEF ReadFails, TypeOK
<1>3. CASE Unregister(c)
  BY <1>3 DEF Unregister, Leaves, TypeOK
<1>4. CASE HangUp(c) \/ ClientCloses(c)
  BY <1>4, CloseTyped DEF HangUp, ClientCloses, TypeOK
<1>5. CASE ClientStalls(c)
  BY <1>5 DEF ClientStalls, TypeOK
<1> QED
  BY <1>1, <1>2, <1>3, <1>4, <1>5 DEF Proceeds

LEMMA StepTyped == TypeOK /\ HasAddress /\ WriterFits /\ [Next]_vars => TypeOK'
<1> SUFFICES ASSUME TypeOK, HasAddress, WriterFits, [Next]_vars PROVE TypeOK'
  OBVIOUS
<1>1. ASSUME NEW c \in Conns, NEW a \in KeysOf[c], Connect(c, a) PROVE TypeOK'
  <2>1. a \in Addresses
    BY KeysOfType
  <2> QED
    BY <1>1, <2>1 DEF Connect, TypeOK
<1>2. ASSUME NEW c \in Conns, Serve(c) PROVE TypeOK'
  <2>1. PICK js \in {<<Response(c, "answer")>>, <<Response(c, "error")>>, <<>>} : Reads(c, js)
    BY <1>2 DEF Serve
  <2>2. Response(c, "answer") \in Jobs /\ Response(c, "error") \in Jobs
    BY ResponsesTyped DEF Responses
  <2>3. /\ <<Response(c, "answer")>> \in Seq(Jobs)
        /\ <<Response(c, "error")>> \in Seq(Jobs)
        /\ <<>> \in Seq(Jobs)
    BY <2>2
  <2>4. js \in Seq(Jobs)
    BY <2>1, <2>3, Zenon
  <2>5. jobs' \in [Goroutines -> Seq(Jobs)] /\ served' \in [Goroutines -> Nat]
    BY <2>1, <2>4, ReadsTyped
  <2>6. UNCHANGED <<registry, conns, writer, limited, inbox, balance, session>>
    BY <1>2, <2>1 DEF Serve, Reads
  <2> QED
    BY <2>5, <2>6 DEF TypeOK
<1>3. ASSUME NEW c \in Conns, ChangeSession(c) PROVE TypeOK'
  <2> DEFINE js == <<BalanceUpdate(conns[c].address), Response(c, "answer")>>
  <2>1. conns[c].address \in Addresses
    BY <1>3 DEF ChangeSession, Reads, Waits, HasAddress
  <2>2. js \in Seq(Jobs)
    BY <2>1, JobTypes, ResponsesTyped DEF Responses
  <2>3. Reads(c, js)
    BY <1>3 DEF ChangeSession
  <2>4. jobs' \in [Goroutines -> Seq(Jobs)] /\ served' \in [Goroutines -> Nat]
    <3> HIDE DEF js
    <3> QED
      BY <2>2, <2>3, ReadsTyped
  <2>5. balance' \in [Addresses -> Nat]
    BY <1>3 DEF ChangeSession, TypeOK
  <2>6. session' \in {"none", "open", "closed"}
    BY <1>3 DEF ChangeSession
  <2>7. UNCHANGED <<registry, conns, writer, limited, inbox>>
    BY <1>3 DEF ChangeSession, Reads
  <2> QED
    BY <2>4, <2>5, <2>6, <2>7 DEF TypeOK
<1>4. ASSUME NEW c \in Conns, Forward(c) PROVE TypeOK'
  <2>1. jobs' \in [Goroutines -> Seq(Jobs)] /\ served' \in [Goroutines -> Nat]
    BY <1>4, ForwardsTyped, ReadsTyped DEF Forward
  <2>2. UNCHANGED <<registry, conns, writer, limited, inbox, balance, session>>
    BY <1>4 DEF Forward, Reads
  <2> QED
    BY <2>1, <2>2 DEF TypeOK
<1>5. ASSUME NEW c \in Conns, Reject(c) PROVE TypeOK'
  <2>1. <<Response(c, "error")>> \in Seq(Jobs)
    BY ResponsesTyped DEF Responses
  <2>2. jobs' \in [Goroutines -> Seq(Jobs)] /\ served' \in [Goroutines -> Nat]
    BY <1>5, <2>1, ReadsTyped DEF Reject
  <2>3. UNCHANGED <<registry, writer, limited, inbox, balance, session>>
    BY <1>5 DEF Reject, Reads
  <2>4. conns' = [conns EXCEPT ![c].pc = "leaving"]
    BY <1>5 DEF Reject
  <2> QED
    BY <2>2, <2>3, <2>4 DEF TypeOK
<1>6. ASSUME NEW c \in Conns, Proceeds(c) \/ ClientCloses(c) \/ ClientStalls(c) PROVE TypeOK'
  BY <1>6, ConnectionTyped
<1>7. ASSUME NEW g \in Goroutines, Sends(g) PROVE TypeOK'
  BY <1>7, SendTyped
<1>8. ASSUME NEW l \in Listeners, NEW a \in Owners, HandleEvent(l, a) PROVE TypeOK'
  <2>1. a \in Addresses /\ l \in Goroutines
    BY OwnersType, GoroutinesAre
  <2>2. BalanceUpdate(a) \in Jobs /\ ChannelUpdate("channel", a) \in Jobs
    BY <2>1, MessageTypes, JobTypes DEF ChannelUpdate, Updates
  <2>3. /\ <<BalanceUpdate(a), ChannelUpdate("channel", a)>> \in Seq(Jobs)
        /\ <<ChannelUpdate("channel", a)>> \in Seq(Jobs)
    BY <2>2
  <2>4. jobs' \in [Goroutines -> Seq(Jobs)]
    BY <1>8, <2>1, <2>3 DEF HandleEvent, TypeOK
  <2>5. balance' \in [Addresses -> Nat] /\ served' \in [Goroutines -> Nat]
    BY <1>8, <2>1, SMTT(30) DEF HandleEvent, TypeOK
  <2> QED
    BY <1>8, <2>4, <2>5 DEF HandleEvent, TypeOK
<1>9. CASE CloseAllConnections
  BY <1>9, CloseTyped DEF CloseAllConnections, TypeOK
<1>10. CASE UNCHANGED vars
  BY <1>10 DEF vars, TypeOK
<1> QED
  BY <1>1, <1>2, <1>3, <1>4, <1>5, <1>6, <1>7, <1>8, <1>9, <1>10 DEF Next

-------------------------------------------------------------------------------
\* Pending sends.

\* A connection that has an address keeps it.
Settled ==
    \A c \in Conns : conns[c].pc # "new" => /\ conns'[c].pc # "new"
                                            /\ conns'[c].address = conns[c].address

LEMMA StepSettled ==
    ASSUME TypeOK, HasAddress, [Next]_vars PROVE Settled /\ HasAddress'
<1>1. ASSUME NEW c \in Conns, NEW a \in KeysOf[c], Connect(c, a) PROVE Settled /\ HasAddress'
  <2>1. a \in Addresses
    BY KeysOfType
  <2>2. conns[c].pc = "new" /\ conns'[c].pc = "register" /\ conns'[c].address = a
    BY <1>1 DEF Connect, TypeOK
  <2>3. \A d \in Conns : d # c => conns'[d] = conns[d]
    BY <1>1 DEF Connect, TypeOK
  <2> QED
    BY <2>1, <2>2, <2>3 DEF Settled, HasAddress
<1>2. ASSUME \A c \in Conns : SamePlace(c) PROVE Settled /\ HasAddress'
  BY <1>2 DEF SamePlace, Settled, HasAddress
<1>3. ASSUME NEW c \in Conns, NEW p \in {"loop", "leaving", "left"}, conns[c].pc # "new",
             conns' = [conns EXCEPT ![c].pc = p]
      PROVE  Settled /\ HasAddress'
  <2>1. conns'[c].pc # "new" /\ conns'[c].address = conns[c].address
    BY <1>3 DEF TypeOK
  <2>2. \A d \in Conns : d # c => conns'[d] = conns[d]
    BY <1>3 DEF TypeOK
  <2> QED
    BY <1>3, <2>1, <2>2 DEF Settled, HasAddress
<1>4. ASSUME NEW c \in Conns, Register(c) PROVE Settled /\ HasAddress'
  BY <1>3, <1>4 DEF Register
<1>5. ASSUME NEW c \in Conns, ReadFails(c) \/ Reject(c) PROVE Settled /\ HasAddress'
  BY <1>3, <1>5 DEF ReadFails, Reject, Reads, Waits
<1>6. ASSUME NEW c \in Conns, Unregister(c) PROVE Settled /\ HasAddress'
  BY <1>3, <1>6 DEF Unregister, Leaves
<1>7. Placed
  BY DEF TypeOK, Placed
<1>8. ASSUME NEW c \in Conns, HangUp(c) \/ ClientCloses(c) PROVE Settled /\ HasAddress'
  BY <1>2, <1>7, <1>8, ClosePlaces DEF HangUp, ClientCloses
<1>9. CASE CloseAllConnections
  BY <1>2, <1>7, <1>9, ClosePlaces DEF CloseAllConnections
<1>10. ASSUME NEW c \in Conns, ClientStalls(c) PROVE Settled /\ HasAddress'
  <2>1. conns' = [conns EXCEPT ![c].socket = "stalled"]
    BY <1>10 DEF ClientStalls
  <2> QED
    BY <1>2, <2>1 DEF TypeOK, SamePlace
<1>11. ASSUME NEW g \in Goroutines, Sends(g) PROVE Settled /\ HasAddress'
  BY <1>2, <1>7, <1>11, SendPlaces
<1>12. CASE UNCHANGED conns
  BY <1>2, <1>12 DEF SamePlace
<1>13. ASSUME NEW c \in Conns, Serve(c) \/ ChangeSession(c) \/ Forward(c)
       PROVE  Settled /\ HasAddress'
  BY <1>12, <1>13 DEF Serve, ChangeSession, Forward
<1>14. ASSUME NEW l \in Listeners, NEW a \in Owners, HandleEvent(l, a) PROVE Settled /\ HasAddress'
  BY <1>12, <1>14 DEF HandleEvent
<1> QED
  BY <1>1, <1>4, <1>5, <1>6, <1>8, <1>9, <1>10, <1>11, <1>12, <1>13, <1>14 DEF Next, Proceeds, vars

LEMMA StaysAddressed ==
    ASSUME Settled, NEW c \in Conns, conns[c].pc # "new", NEW m \in Messages, Addressed(c, m)
    PROVE  Addressed(c, m)'
<1>1. CASE m.kind \in Updates
  BY <1>1, MessageCases DEF Addressed, Settled
<1>2. CASE m.kind \notin Updates
  <2>1. m.about \in Conns /\ conns[m.about].pc # "new"
    BY <1>2, MessageCases DEF Addressed
  <2>2. /\ conns'[c].address = conns[c].address
        /\ conns'[m.about].address = conns[m.about].address
        /\ conns'[m.about].pc # "new"
    BY <2>1 DEF Settled
  <2> QED
    BY <1>2, <2>2 DEF Addressed
<1> QED
  BY <1>1, <1>2

LEMMA JobStaysFit ==
    ASSUME Settled, NEW g \in Goroutines, NEW j \in Jobs, JobFits(g, j), served'[g] = served[g]
    PROVE  JobFits(g, j)'
<1>1. j.op \in {"write", "finish"} => conns'[j.to].pc # "new" /\ Addressed(j.to, j.msg)'
  BY StaysAddressed, JobCases DEF JobFits, Settled
<1>2. j.op # "balance" /\ j.msg.kind \notin Updates => g \in Conns /\ conns'[g].pc # "new"
  <2> SUFFICES ASSUME j.op # "balance", j.msg.kind \notin Updates
               PROVE  g \in Conns /\ conns'[g].pc # "new"
    OBVIOUS
  <2>1. j.msg \in Messages
    BY JobCases
  <2>2. j.msg.about \in Conns
    BY <2>1, MessageCases
  <2> QED
    BY <2>2 DEF JobFits, Settled
<1> QED
  BY <1>1, <1>2 DEF JobFits

LEMMA SameJobsFit ==
    ASSUME TypeOK, JobsFit, Settled, NEW g \in Goroutines,
           jobs'[g] = jobs[g], served'[g] = served[g]
    PROVE  \A i \in DOMAIN jobs'[g] : FitAt(g, i)'
<1> SUFFICES ASSUME NEW i \in DOMAIN jobs'[g] PROVE FitAt(g, i)'
  OBVIOUS
<1>1. i \in DOMAIN jobs[g] /\ jobs[g][i] \in Jobs
  BY DEF TypeOK
<1>2. FitAt(g, i)
  BY <1>1 DEF JobsFit
<1> QED
  BY <1>1, <1>2, JobStaysFit DEF FitAt

\* A message is read: what its goroutine then has to send fits.
LEMMA ReadsFit ==
    ASSUME TypeOK, JobsFit, Settled, NEW c \in Conns, NEW js \in Seq(Jobs), Reads(c, js),
           \A i \in DOMAIN js : JobFits(c, js[i])' /\ (IsResponse(js[i]) => i = Len(js))
    PROVE  JobsFit'
<1>1. ASSUME NEW h \in Goroutines, h # c PROVE \A i \in DOMAIN jobs'[h] : FitAt(h, i)'
  <2>1. jobs'[h] = jobs[h] /\ served'[h] = served[h]
    BY <1>1, ReadsTyped
  <2> QED
    BY <2>1, SameJobsFit
<1>2. \A i \in DOMAIN jobs'[c] : FitAt(c, i)'
  <2>1. jobs'[c] = js
    BY ReadsTyped
  <2> QED
    BY <2>1 DEF FitAt
<1> QED
  BY <1>1, <1>2 DEF JobsFit

LEMMA ResponseFits ==
    ASSUME Settled, NEW c \in Conns, NEW k \in Responses, conns[c].pc # "new",
           served'[c] = served[c] + 1, NEW j, j = Response(c, k)
    PROVE  JobFits(c, j)' /\ IsResponse(j)
<1>1. /\ j.op = "write" /\ j.to = c
      /\ j.msg = Message(k, c, served[c] + 1)
  BY DEF Response, Write
<1>2. j.msg.kind = k /\ j.msg.about = c /\ j.msg.n = served'[c]
  BY <1>1 DEF Message
<1>3. conns'[c].pc # "new"
  BY DEF Settled
<1>4. k \notin Updates /\ k # "forward" /\ k \in Responses
  BY DEF Responses, Updates
<1>5. Addressed(c, j.msg)'
  BY <1>2, <1>3, <1>4 DEF Addressed
<1>6. JobFits(c, j)'
  BY <1>1, <1>2, <1>3, <1>5 DEF JobFits
<1>7. IsResponse(j)
  BY <1>1, <1>2, <1>4 DEF IsResponse
<1> QED
  BY <1>6, <1>7

LEMMA UpdateFits ==
    ASSUME NEW g, NEW a, NEW m, m.kind \in Updates, m.about = a
    PROVE  /\ JobFits(g, Send(a, m)) /\ JobFits(g, Send(a, m))'
           /\ ~IsResponse(Send(a, m))
           /\ JobFits(g, BalanceUpdate(a)) /\ JobFits(g, BalanceUpdate(a))'
           /\ ~IsResponse(BalanceUpdate(a))
<1>1. Send(a, m).op = "send" /\ Send(a, m).to = a /\ Send(a, m).msg = m
  BY DEF Send
<1>2. BalanceUpdate(a).op = "balance"
  BY DEF BalanceUpdate
<1>3. m.kind # "forward"
  BY DEF Updates
<1> QED
  BY <1>1, <1>2, <1>3 DEF JobFits, IsResponse

\* One of g's jobs becomes another one, which fits.
LEMMA BecomesFit ==
    ASSUME TypeOK, JobsFit, Settled, UNCHANGED served, NEW g \in Goroutines, jobs[g] # <<>>,
           NEW j \in Jobs, JobBecomes(g, j), JobFits(g, j)',
           IsResponse(j) => IsResponse(Job(g))
    PROVE  JobsFit'
<1>1. ASSUME NEW h \in Goroutines, h # g PROVE \A i \in DOMAIN jobs'[h] : FitAt(h, i)'
  BY <1>1, JobsBecome, SameJobsFit
<1>2. ASSUME NEW i \in DOMAIN jobs'[g] PROVE FitAt(g, i)'
  <2>1. Len(jobs'[g]) = Len(jobs[g])
    BY JobsBecome
  <2>2. CASE i = 1
    <3>1. jobs'[g][i] = j
      BY <2>2, JobsBecome
    <3>2. IsResponse(j) => 1 = Len(jobs[g])
      BY FirstJob DEF JobsFit, FitAt
    <3> QED
      BY <2>1, <2>2, <3>1, <3>2 DEF FitAt
  <2>3. CASE i # 1
    <3>1. i \in DOMAIN jobs[g] /\ jobs'[g][i] = jobs[g][i]
      BY <1>2, <2>3, JobsBecome
    <3>2. FitAt(g, i) /\ jobs[g][i] \in Jobs
      BY <3>1 DEF JobsFit, TypeOK
    <3> QED
      BY <2>1, <3>1, <3>2, JobStaysFit DEF FitAt
  <2> QED
    BY <2>2, <2>3
<1> QED
  BY <1>1, <1>2 DEF JobsFit

LEMMA DoneFit ==
    ASSUME TypeOK, JobsFit, Settled, UNCHANGED served, NEW g \in Goroutines, jobs[g] # <<>>,
           JobDone(g)
    PROVE  JobsFit'
<1>1. ASSUME NEW h \in Goroutines, h # g PROVE \A i \in DOMAIN jobs'[h] : FitAt(h, i)'
  BY <1>1, JobIsDone, SameJobsFit
<1>2. ASSUME NEW i \in DOMAIN jobs'[g] PROVE FitAt(g, i)'
  <2>1. jobs'[g] = Tail(jobs[g]) /\ i \in DOMAIN Tail(jobs[g])
    BY <1>2, JobIsDone
  <2>2. i + 1 \in DOMAIN jobs[g] /\ jobs'[g][i] = jobs[g][i + 1] /\ Len(jobs'[g]) = Len(jobs[g]) - 1
    BY <2>1, FirstJob
  <2>3. FitAt(g, i + 1) /\ jobs[g][i + 1] \in Jobs /\ jobs[g] \in Seq(Jobs)
    BY <2>2 DEF JobsFit, TypeOK
  <2>4. JobFits(g, jobs[g][i])'
    BY <2>2, <2>3, JobStaysFit DEF FitAt
  <2>5. IsResponse(jobs'[g][i]) => i = Len(jobs'[g])
    BY <2>2, <2>3 DEF FitAt
  <2> QED
    BY <2>4, <2>5 DEF FitAt
<1> QED
  BY <1>1, <1>2 DEF JobsFit

LEMMA SendFits ==
    ASSUME TypeOK, RegistryLive, JobsFit, Settled, NEW g \in Goroutines, Sends(g)
    PROVE  JobsFit'
<1>1. UNCHANGED served
  BY DEF Sends, ReadBalances, LookUp, SetWriteDeadline, NextWriter, Deliver, WriteFails
<1>2. jobs[g] # <<>>
  BY DEF Sends, ReadBalances, LookUp, SetWriteDeadline, NextWriter, Deliver, WriteFails, HasJob
<1>3. Job(g) \in Jobs /\ JobFits(g, Job(g))
  BY <1>2, FirstJob DEF JobsFit, FitAt
<1>4. CASE JobDone(g)
  BY <1>1, <1>2, <1>4, DoneFit
<1>5. CASE ReadBalances(g)
  <2> DEFINE a == Job(g).to
  <2>1. Job(g).op = "balance"
    BY <1>5 DEF ReadBalances, HasJob, Job
  <2>2. a \in Addresses
    BY <1>3, <2>1, JobCases
  <2>3. balance[a] \in Nat
    BY <2>2 DEF TypeOK
  <2>4. PICK j : j = Send(a, Message("balance", a, balance[a]))
    OBVIOUS
  <2>5. j \in Jobs
    BY <2>2, <2>3, <2>4, MessageTypes, JobTypes DEF Updates
  <2>6. PICK m : m = Message("balance", a, balance[a])
    OBVIOUS
  <2>7. m.kind \in Updates /\ m.about = a
    BY <2>6 DEF Message, Updates
  <2>8. JobFits(g, j)' /\ ~IsResponse(j)
    <3>1. PICK b : b = a
      OBVIOUS
    <3>2. j = Send(b, m) /\ m.about = b
      BY <2>4, <2>6, <2>7, <3>1
    <3> QED
      BY <2>7, <3>2, UpdateFits
  <2>9. JobBecomes(g, j) \/ JobDone(g)
    BY <1>5, <2>4 DEF ReadBalances
  <2> QED
    BY <1>1, <1>2, <1>4, <2>5, <2>8, <2>9, BecomesFit
<1>6. CASE LookUp(g)
  <2>1. Job(g).op = "send"
    BY <1>6 DEF LookUp, HasJob, Job
  <2>2. Job(g).to \in Addresses /\ Job(g).msg \in Messages
    BY <1>3, <2>1, JobCases
  <2>3. PICK m : m = Job(g).msg
    OBVIOUS
  <2>4. PICK a : a = Job(g).to
    OBVIOUS
  <2>5. PICK c : c = registry[a]
    OBVIOUS
  <2>6. CASE c # None /\ ~IsOwn(Job(g))
    <3>1. c \in Conns /\ conns[c].address = a /\ conns[c].pc # "new"
      <4>1. a \in Addresses /\ registry[a] # None
        BY <2>2, <2>4, <2>5, <2>6
      <4>2. registry[a] \in Conns
        BY <4>1 DEF TypeOK
      <4>3. conns[registry[a]].address = a /\ conns[registry[a]].pc # "new"
        BY <4>1 DEF RegistryLive
      <4> QED
        BY <2>5, <4>2, <4>3
    <3>2. PICK j : j = Write(c, m)
      OBVIOUS
    <3>3. j.op = "write" /\ j.to = c /\ j.msg = m /\ j \in Jobs
      BY <2>2, <2>3, <3>1, <3>2, JobTypes DEF Write
    <3>4. JobBecomes(g, j)
      BY <1>6, <2>3, <2>4, <2>5, <2>6, <3>2 DEF LookUp, UsesIt
    <3>5. m.kind = "forward" => IsMember(a) /\ conns[m.about].address # a
      BY <1>3, <2>1, <2>3, <2>4, <2>6 DEF JobFits, IsOwn
    <3>6. m.kind # "forward" => m.kind \in Updates /\ m.about = a
      BY <1>3, <2>1, <2>3, <2>4 DEF JobFits
    <3>7. m.kind \notin Responses
      BY <3>6 DEF Updates, Responses
    <3>8. m.kind \notin Updates => m.about = g /\ m.n = served[g] /\ conns[g].pc # "new"
      BY <1>3, <2>1, <2>3 DEF JobFits
    <3>9. Addressed(c, m)
      BY <3>1, <3>5, <3>6, <3>7, <3>8 DEF Addressed, Updates
    <3>10. JobFits(g, j) /\ ~IsResponse(j)
      BY <3>1, <3>3, <3>7, <3>8, <3>9 DEF JobFits, IsResponse
    <3>11. JobFits(g, j)'
      BY <1>1, <3>3, <3>10, JobStaysFit
    <3> QED
      BY <1>1, <1>2, <3>3, <3>4, <3>10, <3>11, BecomesFit
  <2>7. CASE c = None \/ IsOwn(Job(g))
    BY <1>4, <1>6, <2>4, <2>5, <2>7 DEF LookUp, UsesIt
  <2> QED
    BY <2>6, <2>7
<1>7. CASE NextWriter(g)
  <2>1. Job(g).op = "write"
    BY <1>7 DEF NextWriter, HasJob, Job
  <2>2. Job(g).to \in Conns /\ Job(g).msg \in Messages
    BY <1>3, <2>1, JobCases
  <2>3. PICK j : j = [Job(g) EXCEPT !.op = "finish"]
    OBVIOUS
  <2>4. j \in Jobs
    BY <1>3, <2>1, <2>2, <2>3 DEF Jobs
  <2>5. j.op = "finish" /\ j.to = Job(g).to /\ j.msg = Job(g).msg
    BY <1>3, <2>1, <2>3 DEF Jobs
  <2>6. JobFits(g, j)
    BY <1>3, <2>1, <2>5 DEF JobFits
  <2>7. JobFits(g, j)'
    BY <1>1, <2>4, <2>6, JobStaysFit
  <2>8. IsResponse(j) => IsResponse(Job(g))
    BY <2>1, <2>5 DEF IsResponse
  <2>9. JobBecomes(g, j) \/ JobDone(g)
    BY <1>7, <2>3 DEF NextWriter
  <2> QED
    BY <1>1, <1>2, <1>4, <2>4, <2>7, <2>8, <2>9, BecomesFit
<1>8. CASE Deliver(g) \/ WriteFails(g)
  BY <1>4, <1>8 DEF Deliver, WriteFails
<1>9. CASE SetWriteDeadline(g)
  <2>1. \A h \in Goroutines : \A i \in DOMAIN jobs'[h] : FitAt(h, i)'
    BY <1>9, SameJobsFit DEF SetWriteDeadline
  <2> QED
    BY <2>1 DEF JobsFit
<1> QED
  BY <1>5, <1>6, <1>7, <1>8, <1>9 DEF Sends

LEMMA StepFits ==
    ASSUME TypeOK, HasAddress, RegistryLive, JobsFit, [Next]_vars
    PROVE  JobsFit'
<1>1. Settled
  BY StepSettled
<1>2. CASE UNCHANGED <<jobs, served>>
  <2>1. \A h \in Goroutines : \A i \in DOMAIN jobs'[h] : FitAt(h, i)'
    BY <1>1, <1>2, SameJobsFit
  <2> QED
    BY <2>1 DEF JobsFit
<1>3. ASSUME NEW c \in Conns, Register(c) PROVE JobsFit'
  <2> DEFINE u == ChannelUpdate("channels", conns[c].address)
             b == BalanceUpdate(conns[c].address)
  <2>1. c \in Goroutines /\ UNCHANGED served /\ jobs' = [jobs EXCEPT ![c] = <<u, b>>]
    BY <1>3, GoroutinesAre DEF Register
  <2>2. jobs'[c] = <<u, b>> /\ \A h \in Goroutines : h # c => jobs'[h] = jobs[h]
    <3> HIDE DEF u, b
    <3> QED
      BY <2>1 DEF TypeOK
  <2>3. ASSUME NEW h \in Goroutines, h # c PROVE \A i \in DOMAIN jobs'[h] : FitAt(h, i)'
    BY <1>1, <2>1, <2>2, <2>3, SameJobsFit
  <2>4. PICK x, y, a : x = u /\ y = b /\ a = conns[c].address
    OBVIOUS
  <2>5. PICK m : m = Message("channels", a, 0)
    OBVIOUS
  <2>6. m.kind \in Updates /\ m.about = a
    BY <2>5 DEF Message, Updates
  <2>7. JobFits(c, x)' /\ JobFits(c, y)' /\ ~IsResponse(x) /\ ~IsResponse(y)
    <3>1. x = Send(a, m) /\ y = BalanceUpdate(a)
      BY <2>4, <2>5 DEF ChannelUpdate
    <3> QED
      BY <2>6, <3>1, UpdateFits
  <2>8. \A i \in DOMAIN jobs'[c] : FitAt(c, i)'
    <3>1. jobs'[c] = <<x, y>>
      BY <2>2, <2>4
    <3>2. ASSUME NEW i \in DOMAIN jobs'[c] PROVE jobs'[c][i] = x \/ jobs'[c][i] = y
      BY <3>1, <3>2
    <3> QED
      BY <2>7, <3>2 DEF FitAt
  <2> QED
    BY <2>3, <2>8 DEF JobsFit
<1>4. ASSUME NEW c \in Conns, NEW js \in Seq(Jobs), Reads(c, js),
             NEW k \in Responses, js = <<Response(c, k)>>
      PROVE  JobsFit'
  <2>1. conns[c].pc # "new" /\ served'[c] = served[c] + 1
    BY <1>4, ReadsTyped DEF Reads, Waits
  <2>2. PICK j : j = Response(c, k)
    OBVIOUS
  <2>3. JobFits(c, j)' /\ IsResponse(j)
    BY <1>1, <2>1, <2>2, ResponseFits
  <2>4. \A i \in DOMAIN js : JobFits(c, js[i])' /\ (IsResponse(js[i]) => i = Len(js))
    BY <1>4, <2>2, <2>3
  <2> QED
    BY <1>1, <1>4, <2>4, ReadsFit
<1>5. ASSUME NEW c \in Conns, Serve(c) PROVE JobsFit'
  <2>1. PICK js \in {<<Response(c, "answer")>>, <<Response(c, "error")>>, <<>>} : Reads(c, js)
    BY <1>5 DEF Serve
  <2>2. <<Response(c, "answer")>> \in Seq(Jobs) /\ <<Response(c, "error")>> \in Seq(Jobs)
    BY ResponsesTyped DEF Responses
  <2>3. CASE js = <<>>
    <3>1. js \in Seq(Jobs) /\ DOMAIN js = {}
      BY <2>3
    <3> QED
      BY <1>1, <2>1, <3>1, ReadsFit
  <2>4. CASE js # <<>>
    BY <1>4, <2>1, <2>2, <2>4 DEF Responses
  <2> QED
    BY <2>3, <2>4
<1>6. ASSUME NEW c \in Conns, ChangeSession(c) PROVE JobsFit'
  <2>1. PICK a, b, j : /\ a = conns[c].address
                       /\ b = BalanceUpdate(a) /\ j = Response(c, "answer")
    OBVIOUS
  <2>2. a \in Addresses /\ conns[c].pc # "new"
    BY <1>6, <2>1 DEF ChangeSession, Reads, Waits, HasAddress
  <2>3. b \in Jobs /\ j \in Jobs
    BY <2>1, <2>2, JobTypes, ResponsesTyped DEF Responses
  <2>4. PICK js \in Seq(Jobs) : js = <<b, j>>
    <3>1. <<b, j>> \in Seq(Jobs)
      BY <2>3
    <3> QED
      BY <3>1, Zenon
  <2>5. Reads(c, js)
    BY <1>6, <2>1, <2>4 DEF ChangeSession
  <2>6. JobFits(c, b)' /\ ~IsResponse(b)
    <3>1. PICK m : m = Message("balance", a, 0)
      OBVIOUS
    <3>2. m.kind \in Updates /\ m.about = a
      BY <3>1 DEF Message, Updates
    <3> QED
      BY <2>1, <3>2, UpdateFits
  <2>7. JobFits(c, j)'
    <3>1. served'[c] = served[c] + 1
      BY <2>5, ReadsTyped
    <3> QED
      BY <1>1, <2>1, <2>2, <3>1, ResponseFits DEF Responses
  <2>8. \A i \in DOMAIN js : JobFits(c, js[i])' /\ (IsResponse(js[i]) => i = Len(js))
    BY <2>4, <2>6, <2>7
  <2> QED
    BY <1>1, <2>5, <2>8, ReadsFit
<1>7. ASSUME NEW c \in Conns, Forward(c) PROVE JobsFit'
  <2>1. PICK m : m = Message("forward", c, served[c] + 1)
    OBVIOUS
  <2>2. PICK js : js = [i \in DOMAIN Members |-> Send(Members[i], m)]
    OBVIOUS
  <2>3. js \in Seq(Jobs) /\ Reads(c, js)
    BY <1>7, <2>1, <2>2, ForwardsTyped DEF Forward
  <2>4. conns'[c].pc # "new" /\ served'[c] = served[c] + 1
    BY <1>1, <2>3, ReadsTyped DEF Reads, Waits, Settled
  <2>5. m.kind = "forward" /\ m.about = c /\ m.n = served'[c]
    BY <2>1, <2>4 DEF Message
  <2>6. ASSUME NEW i \in DOMAIN js
        PROVE  JobFits(c, js[i])' /\ ~IsResponse(js[i])
    <3>1. i \in DOMAIN Members /\ js[i] = Send(Members[i], m)
      BY <2>2
    <3>2. js[i].op = "send" /\ js[i].to = Members[i] /\ js[i].msg = m
      BY <3>1 DEF Send
    <3>3. IsMember(Members[i])
      BY <3>1 DEF IsMember
    <3> QED
      BY <2>4, <2>5, <3>2, <3>3 DEF JobFits, IsResponse
  <2> QED
    BY <1>1, <2>3, <2>6, ReadsFit
<1>8. ASSUME NEW c \in Conns, Reject(c) PROVE JobsFit'
  <2>1. <<Response(c, "error")>> \in Seq(Jobs) /\ Reads(c, <<Response(c, "error")>>)
    BY <1>8, ResponsesTyped DEF Reject, Responses
  <2> QED
    BY <1>4, <2>1 DEF Responses
<1>9. ASSUME NEW g \in Goroutines, Sends(g) PROVE JobsFit'
  BY <1>1, <1>9, SendFits
<1>10. ASSUME NEW l \in Listeners, NEW a \in Owners, HandleEvent(l, a) PROVE JobsFit'
  <2>1. PICK b, u, m : /\ b = BalanceUpdate(a) /\ u = ChannelUpdate("channel", a)
                       /\ m = Message("channel", a, 0)
    OBVIOUS
  <2>2. m.kind \in Updates /\ m.about = a
    BY <2>1 DEF Message, Updates
  <2>3. JobFits(l, b)' /\ JobFits(l, u)' /\ ~IsResponse(b) /\ ~IsResponse(u)
    <3>1. u = Send(a, m)
      BY <2>1 DEF ChannelUpdate
    <3> QED
      BY <2>1, <2>2, <3>1, UpdateFits
  <2>4. jobs' = [jobs EXCEPT ![l] = <<b, u>>] \/ jobs' = [jobs EXCEPT ![l] = <<u>>]
    BY <1>10, <2>1 DEF HandleEvent
  <2>5. /\ jobs'[l] = <<b, u>> \/ jobs'[l] = <<u>>
        /\ \A h \in Goroutines : h # l => jobs'[h] = jobs[h] /\ served'[h] = served[h]
    BY <1>10, <2>4, GoroutinesAre DEF HandleEvent, TypeOK
  <2>6. ASSUME NEW h \in Goroutines, h # l PROVE \A i \in DOMAIN jobs'[h] : FitAt(h, i)'
    BY <1>1, <2>5, <2>6, SameJobsFit
  <2>7. ASSUME NEW i \in DOMAIN jobs'[l] PROVE FitAt(l, i)'
    <3>1. jobs'[l][i] = b \/ jobs'[l][i] = u
      BY <2>5, <2>7
    <3> QED
      BY <2>3, <3>1 DEF FitAt
  <2> QED
    BY <2>6, <2>7 DEF JobsFit
<1>11. ASSUME NEW c \in Conns, NEW a \in KeysOf[c], Connect(c, a) PROVE JobsFit'
  BY <1>2, <1>11 DEF Connect
<1>12. ASSUME NEW c \in Conns,
              ReadFails(c) \/ Unregister(c) \/ HangUp(c) \/ ClientCloses(c) \/ ClientStalls(c)
       PROVE  JobsFit'
  BY <1>2, <1>12 DEF ReadFails, Unregister, HangUp, ClientCloses, ClientStalls
<1>13. CASE CloseAllConnections
  BY <1>2, <1>13 DEF CloseAllConnections
<1> QED
  BY <1>2, <1>3, <1>5, <1>6, <1>7, <1>8, <1>9, <1>10, <1>11, <1>12, <1>13
     DEF Next, Proceeds, vars

-------------------------------------------------------------------------------
\* Inboxes.

OrderAt(c) ==
    \A i, j \in DOMAIN inbox[c].messages :
        i < j /\ inbox[c].messages[i].about = inbox[c].messages[j].about
            => /\ inbox[c].messages[i].n <= inbox[c].messages[j].n
               /\ inbox[c].messages[j].kind # "forward" =>
                      inbox[c].messages[i].n < inbox[c].messages[j].n

LEMMA OrderIs == InOrder <=> \A c \in Conns : OrderAt(c)
BY DEF InOrder, OrderAt

\* A response to send is to a message read just now, or was one to send before.
Fresh(c) == Unsent(c)' => served'[c] > served[c] \/ Unsent(c)

NoEarlier(c) == served[c] <= served'[c]

LEMMA EmptyInbox ==
    ASSUME NEW c, inbox'[c] = Nothing PROVE InboxAt(c)' /\ OrderAt(c)'
<1>1. inbox'[c].balances = None /\ inbox'[c].messages = <<>>
  BY DEF Nothing
<1>2. DOMAIN inbox'[c].messages = {}
  BY <1>1
<1> QED
  BY <1>1, <1>2 DEF InboxAt, OrderAt

\* A message that was read is before the responses to send.
LEMMA StaysFit ==
    ASSUME TypeOK, TypeOK', JobsFit, JobsFit', Settled, NEW c \in Conns, conns[c].pc # "new",
           \A d \in Conns : NoEarlier(d), Fresh(c),
           NEW m \in Messages, Fits(c, m)
    PROVE  Fits(c, m)'
<1>1. Addressed(c, m)'
  BY StaysAddressed DEF Fits
<1>2. m.kind \notin Updates /\ m.about \in Conns /\ m.n \in Nat
  BY MessageCases DEF Fits
<1>3. served[m.about] \in Nat /\ served'[m.about] \in Nat /\ served[c] \in Nat /\ served'[c] \in Nat
  BY <1>2, GoroutinesAre DEF TypeOK
<1>4. m.n <= served'[m.about]
  BY <1>2, <1>3 DEF Fits, NoEarlier
<1>5. m.kind \in Responses /\ Unsent(c)' => m.n < served'[c]
  <2> SUFFICES ASSUME m.kind \in Responses, Unsent(c)' PROVE m.n < served'[c]
    OBVIOUS
  <2>1. m.about = c /\ m.n <= served[c]
    BY DEF Fits, Addressed
  <2>2. CASE served'[c] > served[c]
    BY <1>2, <1>3, <2>1, <2>2
  <2>3. CASE Unsent(c)
    <3>1. m.n < served[c]
      BY <2>3 DEF Fits
    <3> QED
      BY <1>2, <1>3, <3>1 DEF NoEarlier
  <2> QED
    BY <2>2, <2>3 DEF Fresh
<1> QED
  BY <1>1, <1>2, <1>4, <1>5 DEF Fits

LEMMA InboxStays ==
    ASSUME TypeOK, TypeOK', JobsFit, JobsFit', Settled, NEW c \in Conns, InboxAt(c), OrderAt(c),
           \A d \in Conns : NoEarlier(d), Fresh(c),
           inbox'[c] = inbox[c] \/ inbox'[c] = Nothing
    PROVE  InboxAt(c)' /\ OrderAt(c)'
<1>1. CASE inbox'[c] = Nothing
  BY <1>1, EmptyInbox
<1>2. CASE inbox'[c] = inbox[c] /\ conns[c].pc = "new"
  BY <1>2, EmptyInbox DEF InboxAt
<1>3. CASE inbox'[c] = inbox[c] /\ conns[c].pc # "new"
  <2>1. OrderAt(c)'
    BY <1>3 DEF OrderAt
  <2>2. conns'[c].pc # "new"
    BY <1>3 DEF Settled
  <2>3. inbox[c].balances # None =>
            inbox'[c].balances.kind = "balance" /\ Addressed(c, inbox[c].balances)'
    <3>1. inbox[c].balances # None => inbox[c].balances \in Messages
      BY DEF TypeOK
    <3>2. inbox[c].balances # None =>
              inbox[c].balances.kind = "balance" /\ Addressed(c, inbox[c].balances)
      BY DEF InboxAt
    <3>3. ASSUME NEW m \in Messages, Addressed(c, m) PROVE Addressed(c, m)'
      BY <1>3, <3>3, StaysAddressed
    <3> QED
      BY <1>3, <3>1, <3>2, <3>3 DEF Addressed
  <2>4. ASSUME NEW k \in DOMAIN inbox'[c].messages PROVE Fits(c, inbox[c].messages[k])'
    <3>1. k \in DOMAIN inbox[c].messages /\ inbox'[c].messages[k] = inbox[c].messages[k]
      BY <1>3
    <3>2. inbox[c].messages[k] \in Messages /\ Fits(c, inbox[c].messages[k])
      BY <3>1 DEF TypeOK, InboxAt
    <3>3. ASSUME NEW m \in Messages, Fits(c, m) PROVE Fits(c, m)'
      BY <1>3, <3>3, StaysFit
    <3>4. PICK m \in Messages : m = inbox[c].messages[k]
      BY <3>2
    <3>5. Fits(c, m)'
      BY <3>2, <3>3, <3>4
    <3> QED
      BY <3>1, <3>4, <3>5
  <2> QED
    BY <1>3, <2>1, <2>2, <2>3, <2>4 DEF InboxAt
<1> QED
  BY <1>1, <1>2, <1>3

\* A message that arrives is one that the inbox may end with.
LEMMA ReceivedFits ==
    ASSUME TypeOK, TypeOK', JobsFit, JobsFit', Settled, UNCHANGED <<served, conns>>,
           NEW g \in Goroutines, HasJob(g, "finish"), writer[Job(g).to] = g,
           inbox' = Received(Job(g).to, Job(g).msg),
           IsResponse(Job(g)) => ~Unsent(g)',
           \A d \in Conns : NoEarlier(d) /\ Fresh(d), InboxFits, \A d \in Conns : OrderAt(d),
           NEW c \in Conns
    PROVE  InboxAt(c)' /\ OrderAt(c)'
<1>1. jobs[g] # <<>> /\ Job(g).op = "finish"
  BY DEF HasJob, Job
<1>2. /\ Job(g) \in Jobs /\ Job(g) = jobs[g][1] /\ 1 \in DOMAIN jobs[g]
      /\ Job(g).to \in Conns /\ Job(g).msg \in Messages
  BY <1>1, FirstJob, JobCases
<1>3. FitAt(g, 1)
  BY <1>2 DEF JobsFit
<1>4. UNCHANGED <<served, conns>> /\ inbox' = Received(Job(g).to, Job(g).msg)
  OBVIOUS
<1>5. InboxAt(c) /\ OrderAt(c)
  BY DEF InboxFits
<1>6. CASE inbox'[c] = inbox[c]
  BY <1>5, <1>6, InboxStays
<1>7. CASE inbox'[c] # inbox[c]
  <2>1. PICK m \in Messages : m = Job(g).msg
    BY <1>2
  <2>2. Job(g).to = c
    BY <1>2, <1>4, <1>7 DEF Received, TypeOK
  <2>3. conns[c].pc # "new" /\ Addressed(c, m)
    BY <1>1, <1>2, <1>3, <2>1, <2>2 DEF FitAt, JobFits
  <2>4. Addressed(c, m)' /\ conns'[c].pc # "new"
    BY <2>3, StaysAddressed DEF Settled
  <2>5. CASE m.kind = "balance"
    <3>1. inbox'[c] = [inbox[c] EXCEPT !.balances = m]
      BY <1>4, <2>1, <2>2, <2>5 DEF Received, TypeOK
    <3>2. inbox'[c].balances = m /\ inbox'[c].messages = inbox[c].messages
      BY <3>1 DEF TypeOK
    <3>3. OrderAt(c)'
      BY <1>5, <3>2 DEF OrderAt
    <3>4. ASSUME NEW k \in DOMAIN inbox'[c].messages PROVE Fits(c, inbox[c].messages[k])'
      <4>1. PICK x \in Messages : x = inbox[c].messages[k]
        BY <3>2, <3>4 DEF TypeOK
      <4>2. Fits(c, x)
        BY <1>5, <3>2, <3>4, <4>1 DEF InboxAt
      <4>3. Fits(c, x)'
        BY <2>3, <4>2, StaysFit
      <4> QED
        BY <3>2, <4>1, <4>3
    <3> QED
      BY <2>4, <2>5, <3>2, <3>3, <3>4 DEF InboxAt
  <2>6. CASE m.kind # "balance"
    <3> DEFINE ms == inbox[c].messages  n == Len(ms)
    <3>1. m.kind \in Responses \cup {"forward"}
      BY <1>4, <1>7, <2>1, <2>6 DEF Received, Responses
    <3>2. /\ m.kind \notin Updates /\ m.about \in Conns /\ m.n \in Nat
          /\ m.about = g /\ m.n = served[g]
      <4>1. m.kind \notin Updates
        BY <3>1 DEF Responses, Updates
      <4>2. m.about \in Conns /\ m.n \in Nat
        BY <4>1, MessageCases
      <4> QED
        BY <1>1, <1>2, <1>3, <2>1, <4>1, <4>2 DEF FitAt, JobFits
    <3>3. inbox' = [inbox EXCEPT ![c].messages = Append(@, m)]
      BY <1>4, <2>1, <2>2, <3>1 DEF Received, Responses
    <3>4. inbox'[c].messages = Append(ms, m) /\ inbox'[c].balances = inbox[c].balances
      BY <3>3 DEF TypeOK
    <3>5. ms \in Seq(Messages) /\ n \in Nat
      BY DEF TypeOK
    <3>6. /\ DOMAIN inbox'[c].messages = 1 .. n + 1 /\ DOMAIN ms = 1 .. n
          /\ inbox'[c].messages[n + 1] = m
          /\ \A k \in 1 .. n : inbox'[c].messages[k] = ms[k]
      <4> HIDE DEF ms
      <4> QED
        BY <3>4, <3>5
    \* The message itself.
    <3>7. Fits(c, m)'
      <4>1. m.n <= served'[m.about]
        BY <1>4, <3>2, GoroutinesAre DEF TypeOK
      <4>2. m.kind \in Responses => ~Unsent(c)'
        <5> SUFFICES ASSUME m.kind \in Responses PROVE ~Unsent(c)'
          OBVIOUS
        <5>1. g = c
          BY <2>3, <3>2 DEF Addressed
        <5>2. IsResponse(Job(g))
          BY <1>1, <2>1 DEF IsResponse
        <5> QED
          BY <5>1, <5>2
      <4> QED
        BY <2>4, <3>2, <4>1, <4>2 DEF Fits
    \* The messages before it.
    <3>8. ASSUME NEW k \in 1 .. n
          PROVE  /\ ms[k] \in Messages /\ Fits(c, ms[k]) /\ Fits(c, inbox[c].messages[k])'
                 /\ ms[k].about = m.about =>
                        ms[k].n <= m.n /\ (m.kind # "forward" => ms[k].n < m.n)
      <4>1. PICK x \in Messages : x = ms[k]
        BY <3>5, <3>8
      <4>2. Fits(c, x)
        BY <1>5, <3>6, <4>1 DEF InboxAt
      <4>3. Fits(c, x)'
        BY <2>3, <4>2, StaysFit
      <4>4. x.about = m.about => x.n <= m.n
        BY <3>2, <4>2 DEF Fits
      <4>5. x.about = m.about /\ m.kind # "forward" => x.n < m.n
        <5> SUFFICES ASSUME x.about = m.about, m.kind # "forward" PROVE x.n < m.n
          OBVIOUS
        <5>1. m.about = c /\ m.kind \in Responses
          BY <2>3, <3>1 DEF Addressed
        <5>2. x.kind \in Responses
          <6>1. x.kind # "forward"
            BY <4>2, <5>1 DEF Fits, Addressed
          <6> QED
            BY <4>2, <6>1, MessageCases DEF Fits
        <5>3. g = c /\ writer[c] = c
          BY <2>2, <3>2, <5>1
        <5>4. IsResponse(jobs[c][1]) /\ 1 \in DOMAIN jobs[c]
          BY <1>1, <1>2, <2>1, <5>1, <5>3 DEF IsResponse
        <5>5. Unsent(c)
          BY <5>3, <5>4 DEF Unsent
        <5>6. m.n = served[c]
          BY <3>2, <5>3
        <5> QED
          BY <4>2, <5>2, <5>5, <5>6 DEF Fits
      <4> QED
        BY <3>6, <4>1, <4>2, <4>3, <4>4, <4>5
    <3> HIDE DEF ms, n
    <3>9. OrderAt(c)'
      <4> SUFFICES ASSUME NEW i \in 1 .. n + 1, NEW j \in 1 .. n + 1, i < j,
                          inbox'[c].messages[i].about = inbox'[c].messages[j].about
                   PROVE  /\ inbox'[c].messages[i].n <= inbox'[c].messages[j].n
                          /\ inbox'[c].messages[j].kind # "forward" =>
                                 inbox'[c].messages[i].n < inbox'[c].messages[j].n
        BY <3>6 DEF OrderAt
      <4>1. CASE j = n + 1
        <5>1. i \in 1 .. n
          BY <3>5, <4>1
        <5>2. inbox'[c].messages[j] = m /\ inbox'[c].messages[i] = ms[i]
          BY <3>6, <4>1, <5>1
        <5>3. ms[i].about = m.about =>
                  ms[i].n <= m.n /\ (m.kind # "forward" => ms[i].n < m.n)
          BY <3>8, <5>1
        <5> QED
          BY <5>2, <5>3
      <4>2. CASE j # n + 1
        <5>1. i \in 1 .. n /\ j \in 1 .. n
          BY <3>5, <4>2
        <5>2. ms = inbox[c].messages
          BY DEF ms
        <5> QED
          BY <1>5, <3>6, <5>1, <5>2 DEF OrderAt
      <4> QED
        BY <4>1, <4>2
    <3>10. inbox'[c].balances # None =>
               inbox'[c].balances.kind = "balance" /\ Addressed(c, inbox[c].balances)'
      <4>1. ASSUME NEW x \in Messages, Addressed(c, x) PROVE Addressed(c, x)'
        BY <2>3, <4>1, StaysAddressed
      <4>2. inbox[c].balances # None =>
                /\ inbox[c].balances \in Messages /\ inbox[c].balances.kind = "balance"
                /\ Addressed(c, inbox[c].balances)
        BY <1>5 DEF InboxAt, TypeOK
      <4> QED
        BY <3>4, <4>1, <4>2 DEF Addressed
    <3>11. \A k \in 1 .. n + 1 : Fits(c, inbox[c].messages[k])'
      <4> SUFFICES ASSUME NEW k \in 1 .. n + 1 PROVE Fits(c, inbox[c].messages[k])'
        OBVIOUS
      <4>1. CASE k = n + 1
        BY <3>6, <3>7, <4>1 DEF Fits, Addressed
      <4>2. CASE k # n + 1
        <5>1. k \in 1 .. n
          BY <3>5, <4>2
        <5> QED
          BY <3>8, <5>1, Zenon
      <4> QED
        BY <4>1, <4>2
    <3> QED
      BY <2>4, <3>6, <3>9, <3>10, <3>11 DEF InboxAt
  <2> QED
    BY <2>5, <2>6
<1> QED
  BY <1>6, <1>7

LEMMA DeliverFits ==
    ASSUME TypeOK, TypeOK', JobsFit, JobsFit', Settled, NEW g \in Goroutines, Deliver(g),
           \A d \in Conns : NoEarlier(d) /\ Fresh(d), InboxFits, \A d \in Conns : OrderAt(d),
           NEW c \in Conns
    PROVE  InboxAt(c)' /\ OrderAt(c)'
<1>1. jobs[g] # <<>> /\ HasJob(g, "finish") /\ JobDone(g)
  BY DEF Deliver, HasJob
<1>2. ASSUME IsResponse(Job(g)) PROVE ~Unsent(g)'
  <2>1. FitAt(g, 1) /\ Job(g) = jobs[g][1]
    BY <1>1, FirstJob DEF JobsFit
  <2>2. Len(jobs[g]) = 1
    BY <1>2, <2>1 DEF FitAt
  <2>3. jobs'[g] = Tail(jobs[g]) /\ Tail(jobs[g]) \in Seq(Jobs) /\ Len(Tail(jobs[g])) = 0
    BY <1>1, <2>2, JobIsDone, FirstJob
  <2>4. \A q \in Seq(Jobs) : Len(q) = 0 => DOMAIN q = {}
    OBVIOUS
  <2>5. DOMAIN jobs'[g] = {}
    BY <2>3, <2>4
  <2> QED
    BY <2>5 DEF Unsent
<1> QED
  BY <1>1, <1>2, ReceivedFits DEF Deliver

\* So does sending what the writer before holds: it is not sent a second time.
LEMMA FlushFits ==
    ASSUME TypeOK, TypeOK', JobsFit, JobsFit', WriterFits, Settled,
           NEW g \in Goroutines, NextWriter(g), ~UNCHANGED inbox,
           \A d \in Conns : NoEarlier(d) /\ Fresh(d), InboxFits, \A d \in Conns : OrderAt(d),
           NEW c \in Conns
    PROVE  InboxAt(c)' /\ OrderAt(c)'
<1>1. jobs[g] # <<>> /\ Job(g).op = "write"
  BY DEF NextWriter, HasJob, Job
<1>2. Job(g).to \in Conns /\ Job(g).msg \in Messages
  BY <1>1, FirstJob, JobCases
<1>3. PICK e \in Conns, h \in Goroutines :
          /\ e = Job(g).to /\ h = writer[e] /\ h # None
          /\ inbox' = Received(e, Job(h).msg)
  BY <1>2 DEF NextWriter, TypeOK
<1>4. HasJob(h, "finish") /\ Job(h).to = e /\ h # g
  BY <1>1, <1>3 DEF WriterFits, HasJob, Job
<1>5. jobs[h] # <<>> /\ jobs'[h] = jobs[h] /\ writer'[e] = g
  <2>1. jobs[h] # <<>>
    BY <1>4 DEF HasJob
  <2>2. writer' = [writer EXCEPT ![e] = g] /\ JobBecomes(g, [Job(g) EXCEPT !.op = "finish"])
    BY <1>3 DEF NextWriter
  <2>3. jobs'[h] = jobs[h]
    BY <1>4, <2>2 DEF JobBecomes, TypeOK
  <2> QED
    BY <2>1, <2>2, <2>3 DEF TypeOK
<1>6. ASSUME IsResponse(Job(h)) PROVE ~Unsent(h)'
  <2>1. FitAt(h, 1) /\ Job(h) = jobs[h][1] /\ Job(h) \in Jobs /\ jobs[h] \in Seq(Jobs)
    BY <1>5, FirstJob DEF JobsFit, TypeOK
  <2>2. Len(jobs[h]) = 1
    BY <1>6, <2>1 DEF FitAt
  <2>3. \A i \in DOMAIN jobs'[h] : i = 1
    BY <1>5, <2>1, <2>2
  <2>4. jobs'[h][1].op = "finish" /\ Job(h).op = "finish"
    BY <1>4, <1>5, <2>1 DEF HasJob, Job
  <2>5. Job(h).msg.about = e /\ Job(h).msg.about = h
    BY <1>4, <1>6, <2>1, <2>4 DEF FitAt, JobFits, Addressed, IsResponse, Responses, Updates
  <2> QED
    BY <1>4, <1>5, <2>3, <2>4, <2>5 DEF Unsent
<1>7. UNCHANGED <<served, conns>>
  BY DEF NextWriter
<1>8. \A d \in Conns : NoEarlier(d) /\ Fresh(d)
  OBVIOUS
<1> QED
  BY <1>3, <1>4, <1>6, <1>7, <1>8, ReceivedFits

LEMMA SendFresh ==
    ASSUME TypeOK, JobsFit, NEW g \in Goroutines, Sends(g), NEW c \in Conns
    PROVE  NoEarlier(c) /\ Fresh(c)
<1>1. c \in Goroutines /\ served'[c] = served[c] /\ served[c] \in Nat
  BY GoroutinesAre DEF TypeOK, Sends, ReadBalances, LookUp, SetWriteDeadline, NextWriter, Deliver, WriteFails
<1>2. NoEarlier(c)
  BY <1>1 DEF NoEarlier
<1>3. jobs[g] # <<>>
  BY DEF Sends, ReadBalances, LookUp, SetWriteDeadline, NextWriter, Deliver, WriteFails, HasJob
<1>4. Job(g) \in Jobs /\ Job(g) = jobs[g][1] /\ 1 \in DOMAIN jobs[g]
  BY <1>3, FirstJob
\* The jobs of the others stay, and none of them becomes a writer.
<1>11. ASSUME c # g, jobs'[c] = jobs[c] PROVE Fresh(c)
  <2>1. writer'[c] = c => writer[c] = c
    BY <1>11, NoneIsNone, GoroutinesAre DEF Sends, ReadBalances, LookUp, SetWriteDeadline,
       NextWriter, Deliver, WriteFails, TypeOK
  <2> QED
    BY <1>11, <2>1 DEF Fresh, Unsent
<1>5. CASE JobDone(g)
  <2>1. CASE c = g
    <3>1. jobs'[c] = Tail(jobs[g])
      BY <1>3, <1>5, <2>1, JobIsDone
    <3>2. ASSUME NEW i \in DOMAIN jobs'[c], IsResponse(jobs'[c][i])
          PROVE  \E k \in DOMAIN jobs[c] : IsResponse(jobs[c][k]) /\ k # 1
      <4>1. i + 1 \in DOMAIN jobs[c] /\ jobs'[c][i] = jobs[c][i + 1] /\ i + 1 # 1
        BY <1>3, <2>1, <3>1, <3>2, FirstJob
      <4> QED
        BY <3>2, <4>1
    <3>3. Unsent(c)' => Unsent(c)
      BY <3>2 DEF Unsent
    <3> QED
      BY <1>2, <3>3 DEF Fresh
  <2>2. CASE c # g
    <3>1. jobs'[c] = jobs[c]
      BY <1>1, <1>3, <1>5, <2>2, JobIsDone
    <3> QED
      BY <1>2, <1>11, <2>2, <3>1
  <2> QED
    BY <2>1, <2>2
<1>6. ASSUME NEW j \in Jobs, JobBecomes(g, j),
             IsResponse(j) => IsResponse(Job(g)) /\ Job(g).op = "write"
      PROVE  Fresh(c)
  <2>1. CASE c = g
    <3>1. ASSUME NEW i \in DOMAIN jobs'[c], IsResponse(jobs'[c][i])
          PROVE  /\ i \in DOMAIN jobs[c] /\ IsResponse(jobs[c][i])
                 /\ i = 1 => jobs[c][i].op = "write"
      <4>1. CASE i = 1
        BY <1>3, <1>4, <1>6, <2>1, <3>1, <4>1, JobsBecome
      <4>2. CASE i # 1
        BY <1>3, <1>6, <2>1, <3>1, <4>2, JobsBecome
      <4> QED
        BY <4>1, <4>2
    <3> QED
      BY <3>1 DEF Fresh, Unsent
  <2>2. CASE c # g
    BY <1>1, <1>3, <1>6, <1>11, <2>2, JobsBecome
  <2> QED
    BY <2>1, <2>2
<1>7. CASE ReadBalances(g)
  <2> DEFINE a == Job(g).to
  <2>1. Job(g).op = "balance"
    BY <1>7 DEF ReadBalances, HasJob, Job
  <2>2. a \in Addresses
    BY <1>4, <2>1, JobCases
  <2>3. balance[a] \in Nat
    BY <2>2 DEF TypeOK
  <2>4. PICK j : j = Send(a, Message("balance", a, balance[a]))
    OBVIOUS
  <2>5. j \in Jobs
    BY <2>2, <2>3, <2>4, MessageTypes, JobTypes DEF Updates
  <2>6. ~IsResponse(j)
    BY <2>4 DEF Send, IsResponse
  <2>7. JobBecomes(g, j) \/ JobDone(g)
    BY <1>7, <2>4 DEF ReadBalances
  <2> QED
    BY <1>2, <1>5, <1>6, <2>5, <2>6, <2>7
<1>8. CASE LookUp(g)
  <2>1. Job(g).op = "send"
    BY <1>8 DEF LookUp, HasJob, Job
  <2>2. Job(g).to \in Addresses /\ Job(g).msg \in Messages
    BY <1>4, <2>1, JobCases
  <2>3. PICK d, j : d = registry[Job(g).to] /\ j = Write(d, Job(g).msg)
    OBVIOUS
  <2>4. CASE JobBecomes(g, j) /\ d # None
    <3>1. d \in Conns
      BY <2>2, <2>3, <2>4 DEF TypeOK
    <3>2. j \in Jobs
      BY <2>2, <2>3, <3>1, JobTypes
    <3>3. ~IsResponse(j)
      <4>1. j.msg = Job(g).msg
        BY <2>3 DEF Write
      <4>2. JobFits(g, Job(g))
        BY <1>4 DEF JobsFit, FitAt
      <4> QED
        BY <2>1, <4>1, <4>2 DEF JobFits, IsResponse, Updates, Responses
    <3> QED
      BY <1>2, <1>6, <2>4, <3>2, <3>3
  <2> QED
    BY <1>2, <1>5, <1>8, <2>3, <2>4 DEF LookUp, UsesIt
<1>9. CASE NextWriter(g)
  <2>1. Job(g).op = "write"
    BY <1>9 DEF NextWriter, HasJob, Job
  <2>2. Job(g).to \in Conns /\ Job(g).msg \in Messages
    BY <1>4, <2>1, JobCases
  <2>3. PICK j : j = [Job(g) EXCEPT !.op = "finish"]
    OBVIOUS
  <2>4. j \in Jobs
    BY <1>4, <2>1, <2>2, <2>3 DEF Jobs
  <2>5. IsResponse(j) => IsResponse(Job(g)) /\ Job(g).op = "write"
    BY <1>4, <2>1, <2>3 DEF IsResponse, Jobs
  <2>6. JobBecomes(g, j) \/ JobDone(g)
    BY <1>9, <2>3 DEF NextWriter
  <2> QED
    BY <1>2, <1>5, <1>6, <2>4, <2>5, <2>6
<1>10. CASE Deliver(g) \/ WriteFails(g)
  BY <1>5, <1>10 DEF Deliver, WriteFails
<1>12. CASE SetWriteDeadline(g)
  BY <1>2, <1>12 DEF SetWriteDeadline, Fresh, Unsent
<1> QED
  BY <1>7, <1>8, <1>9, <1>10, <1>12 DEF Sends

LEMMA StepFresh ==
    ASSUME TypeOK, TypeOK', JobsFit, JobsFit', HasAddress, [Next]_vars, NEW c \in Conns
    PROVE  NoEarlier(c) /\ Fresh(c)
<1>1. c \in Goroutines /\ served[c] \in Nat
  BY GoroutinesAre DEF TypeOK
<1>2. CASE jobs'[c] = jobs[c] /\ served'[c] = served[c] /\ writer'[c] \in {writer[c], None}
  BY <1>1, <1>2, NoneIsNone DEF NoEarlier, Fresh, Unsent
<1>3. CASE served'[c] = served[c] + 1
  BY <1>1, <1>3 DEF NoEarlier, Fresh
<1>4. ASSUME NEW d \in Conns, Register(d) PROVE NoEarlier(c) /\ Fresh(c)
  <2>1. CASE c # d
    BY <1>1, <1>2, <1>4, <2>1 DEF Register, TypeOK
  <2>2. CASE c = d
    <3>1. PICK u, b : u = ChannelUpdate("channels", conns[d].address)
                      /\ b = BalanceUpdate(conns[d].address)
      OBVIOUS
    <3>2. jobs'[c] = <<u, b>> /\ served'[c] = served[c]
      BY <1>1, <1>4, <2>2, <3>1 DEF Register, TypeOK
    <3>3. ~IsResponse(u) /\ ~IsResponse(b)
      BY <3>1 DEF ChannelUpdate, Send, BalanceUpdate, IsResponse
    <3>4. \A i \in DOMAIN jobs'[c] : ~IsResponse(jobs'[c][i])
      BY <3>2, <3>3
    <3> QED
      BY <1>1, <3>2, <3>4 DEF NoEarlier, Fresh, Unsent
  <2> QED
    BY <2>1, <2>2
<1>5. ASSUME NEW d \in Conns, Serve(d) \/ ChangeSession(d) \/ Forward(d) \/ Reject(d)
      PROVE  NoEarlier(c) /\ Fresh(c)
  <2>1. PICK js : Reads(d, js)
    BY <1>5 DEF Serve, ChangeSession, Forward, Reject
  <2>2. IF c = d THEN served'[c] = served[c] + 1
        ELSE jobs'[c] = jobs[c] /\ served'[c] = served[c] /\ writer'[c] = writer[c]
    BY <1>1, <2>1 DEF Reads, TypeOK
  <2> QED
    BY <1>2, <1>3, <2>2
<1>6. ASSUME NEW g \in Goroutines, Sends(g) PROVE NoEarlier(c) /\ Fresh(c)
  BY <1>6, SendFresh
<1>7. ASSUME NEW l \in Listeners, NEW a \in Owners, HandleEvent(l, a)
      PROVE  NoEarlier(c) /\ Fresh(c)
  <2>1. IF c = l THEN served'[c] = served[c] + 1
        ELSE jobs'[c] = jobs[c] /\ served'[c] = served[c] /\ writer'[c] = writer[c]
    BY <1>1, <1>7 DEF HandleEvent, TypeOK
  <2> QED
    BY <1>2, <1>3, <2>1
<1>8. CASE UNCHANGED <<jobs, served>> /\ writer'[c] \in {writer[c], None}
  BY <1>2, <1>8
<1>9. ASSUME NEW d \in Conns,
             \/ \E a \in KeysOf[d] : Connect(d, a)
             \/ ReadFails(d) \/ Unregister(d) \/ HangUp(d) \/ ClientCloses(d) \/ ClientStalls(d)
      PROVE  NoEarlier(c) /\ Fresh(c)
  BY <1>8, <1>9 DEF Connect, ReadFails, Unregister, HangUp, ClientCloses, ClientStalls, Close
<1>10. CASE CloseAllConnections
  BY <1>8, <1>10 DEF CloseAllConnections, Close
<1> QED
  BY <1>4, <1>5, <1>6, <1>7, <1>8, <1>9, <1>10 DEF Next, Proceeds, vars

LEMMA StepInbox ==
    ASSUME IInv, TypeOK', JobsFit', [Next]_vars, NEW c \in Conns
    PROVE  InboxAt(c)' /\ OrderAt(c)'
<1>1. /\ TypeOK /\ HasAddress /\ JobsFit /\ InboxFits /\ InboxAt(c)
      /\ \A d \in Conns : OrderAt(d)
  BY OrderIs DEF IInv, InboxFits
<1>2. Settled /\ \A d \in Conns : NoEarlier(d) /\ Fresh(d)
  BY <1>1, StepSettled, StepFresh
<1>3. CASE inbox'[c] = inbox[c] \/ inbox'[c] = Nothing
  BY <1>1, <1>2, <1>3, InboxStays
<1>4. ASSUME NEW g \in Goroutines, Sends(g) PROVE InboxAt(c)' /\ OrderAt(c)'
  <2>1. CASE Deliver(g)
    BY <1>1, <1>2, <2>1, DeliverFits
  <2>2. CASE NextWriter(g) /\ ~UNCHANGED inbox
    BY <1>1, <1>2, <2>2, FlushFits DEF IInv
  <2>3. CASE UNCHANGED inbox
    BY <1>3, <2>3
  <2> QED
    BY <1>4, <2>1, <2>2, <2>3
       DEF Sends, ReadBalances, LookUp, SetWriteDeadline, NextWriter, WriteFails
<1>5. ASSUME NEW C, Close(C) PROVE InboxAt(c)' /\ OrderAt(c)'
  BY <1>3, <1>5 DEF Close
<1>6. CASE UNCHANGED inbox
  BY <1>3, <1>6
<1>7. ASSUME NEW d \in Conns,
             \/ \E a \in KeysOf[d] : Connect(d, a)
             \/ Register(d) \/ ReadFails(d) \/ Unregister(d) \/ ClientStalls(d)
             \/ Serve(d) \/ ChangeSession(d) \/ Forward(d) \/ Reject(d)
      PROVE  InboxAt(c)' /\ OrderAt(c)'
  BY <1>6, <1>7 DEF Connect, Register, ReadFails, Unregister, ClientStalls,
                    Serve, ChangeSession, Forward, Reject, Reads
<1>8. ASSUME NEW d \in Conns, HangUp(d) \/ ClientCloses(d) PROVE InboxAt(c)' /\ OrderAt(c)'
  BY <1>5, <1>8 DEF HangUp, ClientCloses
<1>9. CASE CloseAllConnections
  BY <1>5, <1>9 DEF CloseAllConnections
<1>10. ASSUME NEW l \in Listeners, NEW a \in Owners, HandleEvent(l, a)
       PROVE  InboxAt(c)' /\ OrderAt(c)'
  BY <1>6, <1>10 DEF HandleEvent
<1> QED
  BY <1>4, <1>6, <1>7, <1>8, <1>9, <1>10 DEF Next, Proceeds, vars

-------------------------------------------------------------------------------
\* Writers.

LEMMA StepIdle == TypeOK /\ Idle /\ [Next]_vars => Idle'
<1> SUFFICES ASSUME TypeOK, Idle, [Next]_vars PROVE Idle'
  OBVIOUS
<1>1. ASSUME \A c \in Conns : conns'[c].pc \in {"new", "register"} =>
                 conns[c].pc \in {"new", "register"} /\ (jobs[c] = <<>> => jobs'[c] = <<>>)
      PROVE  Idle'
  BY <1>1 DEF Idle
<1>9. ASSUME NEW c \in Conns, NEW a \in KeysOf[c], Connect(c, a) PROVE Idle'
  <2>1. jobs' = jobs /\ conns[c].pc = "new"
    BY <1>9 DEF Connect
  <2>2. \A d \in Conns : d # c => conns'[d] = conns[d]
    BY <1>9 DEF Connect, TypeOK
  <2> QED
    BY <1>1, <2>1, <2>2
<1>2. ASSUME NEW c \in Conns, ReadFails(c) \/ Unregister(c) \/ ClientStalls(c)
      PROVE  Idle'
  <2>1. jobs' = jobs
    BY <1>2 DEF ReadFails, Unregister, Leaves, ClientStalls
  <2>2. \/ \E p \in {"leaving", "left"} : conns' = [conns EXCEPT ![c].pc = p]
        \/ conns' = [conns EXCEPT ![c].socket = "stalled"]
    BY <1>2 DEF ReadFails, Unregister, Leaves, ClientStalls
  <2>3. \A d \in Conns : d # c => conns'[d] = conns[d]
    BY <1>2 DEF ReadFails, Unregister, Leaves, ClientStalls, TypeOK
  <2>4. conns'[c].pc \in {"new", "register"} => conns[c].pc \in {"new", "register"}
    <3>1. ASSUME NEW p \in {"leaving", "left"}, conns' = [conns EXCEPT ![c].pc = p]
          PROVE  conns'[c].pc = p
      BY <3>1 DEF TypeOK
    <3>2. CASE conns' = [conns EXCEPT ![c].socket = "stalled"]
      BY <3>2 DEF TypeOK
    <3> QED
      BY <2>2, <3>1, <3>2
  <2>5. \A d \in Conns : conns'[d].pc \in {"new", "register"} => conns[d].pc \in {"new", "register"}
    BY <2>3, <2>4
  <2> QED
    BY <1>1, <2>1, <2>5
<1>3. ASSUME NEW c \in Conns, Register(c) PROVE Idle'
  <2>1. conns' = [conns EXCEPT ![c].pc = "loop"]
    BY <1>3 DEF Register
  <2>2. conns'[c].pc = "loop"
    BY <2>1 DEF TypeOK
  <2>3. \A d \in Conns : d # c => conns'[d] = conns[d] /\ jobs'[d] = jobs[d]
    BY <1>3, <2>1, GoroutinesAre DEF Register, TypeOK
  <2> QED
    BY <1>1, <2>2, <2>3
<1>4. ASSUME NEW c \in Conns, \/ Serve(c) \/ ChangeSession(c) \/ Forward(c) \/ Reject(c)
      PROVE  Idle'
  <2>1. PICK js : Reads(c, js)
    BY <1>4 DEF Serve, ChangeSession, Forward, Reject
  <2>2. conns[c].pc = "loop" /\ \A d \in Conns : d # c => jobs'[d] = jobs[d]
    BY <2>1, GoroutinesAre DEF Reads, Waits, TypeOK
  <2>3. conns' = conns \/ conns' = [conns EXCEPT ![c].pc = "leaving"]
    BY <1>4 DEF Serve, ChangeSession, Forward, Reject
  <2>4. \A d \in Conns : conns'[d].pc \in {conns[d].pc, "leaving"}
    BY <2>3 DEF TypeOK
  <2> QED
    BY <1>1, <2>2, <2>3, <2>4 DEF TypeOK
<1>5. ASSUME NEW g \in Goroutines, Sends(g) PROVE Idle'
  <2>1. \A c \in Conns : SamePlace(c)
    BY <1>5, SendPlaces DEF Placed, TypeOK
  <2>2. ASSUME NEW c \in Conns, jobs[c] = <<>> PROVE jobs'[c] = <<>>
    <3>1. c # g
      BY <1>5, <2>2 DEF Sends, ReadBalances, LookUp, SetWriteDeadline, NextWriter, Deliver,
                        WriteFails, HasJob
    <3>2. jobs'[c] = jobs[c]
      BY <1>5, <3>1, GoroutinesAre
         DEF Sends, ReadBalances, LookUp, UsesIt, SetWriteDeadline, NextWriter, Deliver,
             WriteFails, JobDone, JobBecomes, TypeOK
    <3> QED
      BY <2>2, <3>2
  <2> QED
    BY <1>1, <2>1, <2>2 DEF SamePlace
<1>6. ASSUME NEW l \in Listeners, NEW a \in Owners, HandleEvent(l, a) PROVE Idle'
  <2>1. \A c \in Conns : c # l
    BY ListenersType
  <2> QED
    BY <1>1, <1>6, <2>1, GoroutinesAre DEF HandleEvent, TypeOK
<1>7. ASSUME NEW C, Close(C), UNCHANGED jobs PROVE Idle'
  BY <1>1, <1>7 DEF Close, TypeOK
<1>8. CASE UNCHANGED vars
  BY <1>8 DEF vars, Idle
<1> QED
  <2>1. ASSUME NEW c \in Conns, HangUp(c) \/ ClientCloses(c) PROVE Idle'
    BY <1>7, <2>1 DEF HangUp, ClientCloses
  <2>2. CASE CloseAllConnections
    BY <1>7, <2>2 DEF CloseAllConnections
  <2>3. ASSUME NEW c \in Conns,
               \/ \E a \in KeysOf[c] : Connect(c, a)
               \/ Proceeds(c) \/ Serve(c) \/ ChangeSession(c) \/ Forward(c) \/ Reject(c)
               \/ ClientCloses(c) \/ ClientStalls(c)
        PROVE  Idle'
    <3>1. CASE \E a \in KeysOf[c] : Connect(c, a)
      BY <1>9, <3>1
    <3>4. CASE ReadFails(c) \/ Unregister(c) \/ ClientStalls(c)
      BY <1>2, <3>4
    <3>2. CASE Serve(c) \/ ChangeSession(c) \/ Forward(c) \/ Reject(c)
      BY <1>4, <3>2
    <3>3. CASE Register(c) \/ HangUp(c) \/ ClientCloses(c)
      BY <1>3, <2>1, <3>3
    <3> QED
      BY <2>3, <3>1, <3>2, <3>3, <3>4 DEF Proceeds
  <2>4. CASE Next
    BY <1>5, <1>6, <2>2, <2>3, <2>4 DEF Next
  <2> QED
    BY <1>8, <2>4

LEMMA SendWriter ==
    ASSUME TypeOK, WriterFits, NEW g \in Goroutines, Sends(g) PROVE WriterFits'
<1>1. jobs[g] # <<>>
  BY DEF Sends, ReadBalances, LookUp, SetWriteDeadline, NextWriter, Deliver, WriteFails, HasJob
<1>2. \A h \in Goroutines : h # g => jobs'[h] = jobs[h]
  BY DEF Sends, ReadBalances, LookUp, UsesIt, SetWriteDeadline, NextWriter, Deliver,
         WriteFails, JobDone, JobBecomes, TypeOK
\* A writer that stays one is another goroutine, which goes on.
<1>3. ASSUME NEW c \in Conns, NEW h \in Goroutines, writer[c] = h, h # g
      PROVE  HasJob(h, "finish")' /\ (Job(h).to)' = c
  BY <1>2, <1>3 DEF WriterFits, HasJob, Job
<1>4. ASSUME UNCHANGED writer, ~HasJob(g, "finish") PROVE WriterFits'
  BY <1>3, <1>4 DEF WriterFits
<1>5. CASE NextWriter(g) /\ ~UNCHANGED writer
  <2>1. Job(g).op = "write" /\ ~HasJob(g, "finish")
    BY <1>5 DEF NextWriter, HasJob, Job
  <2>2. Job(g) \in Jobs /\ Job(g).to \in Conns /\ Job(g).msg \in Messages
    BY <1>1, <2>1, FirstJob, JobCases
  <2>3. PICK c \in Conns, j \in Jobs :
            c = Job(g).to /\ j = [Job(g) EXCEPT !.op = "finish"] /\ j.op = "finish" /\ j.to = c
    <3>1. PICK j : j = [Job(g) EXCEPT !.op = "finish"]
      OBVIOUS
    <3>2. j \in Jobs /\ j.op = "finish" /\ j.to = Job(g).to
      BY <2>1, <2>2, <3>1 DEF Jobs
    <3> QED
      BY <2>2, <3>1, <3>2
  <2>4. JobBecomes(g, j) /\ writer' = [writer EXCEPT ![c] = g]
    BY <1>5, <2>3 DEF NextWriter
  <2>5. jobs'[g] # <<>> /\ Head(jobs'[g]) = j
    <3>1. Len(jobs'[g]) = Len(jobs[g]) /\ jobs'[g][1] = j /\ jobs'[g] \in Seq(Jobs)
      BY <1>1, <2>4, JobsBecome
    <3>2. Len(jobs[g]) # 0
      BY <1>1 DEF TypeOK
    <3> QED
      BY <3>1, <3>2
  <2>6. HasJob(g, "finish")' /\ (Job(g).to)' = c
    BY <2>3, <2>5 DEF HasJob, Job
  <2>7. writer'[c] = g /\ \A d \in Conns : d # c => writer'[d] = writer[d]
    BY <2>4 DEF TypeOK
  <2>8. ASSUME NEW d \in Conns, NEW h \in Goroutines, writer'[d] = h
        PROVE  HasJob(h, "finish")' /\ (Job(h).to)' = d
    <3>1. CASE d = c
      BY <2>6, <2>7, <2>8, <3>1
    <3>2. CASE d # c
      <4>1. writer[d] = h
        BY <2>7, <2>8, <3>2
      <4>2. h # g
        BY <2>1, <4>1 DEF WriterFits
      <4> QED
        BY <1>3, <4>1, <4>2
    <3> QED
      BY <3>1, <3>2
  <2> QED
    BY <2>8 DEF WriterFits
<1>6. CASE Deliver(g) \/ WriteFails(g)
  <2>1. PICK c : c = Job(g).to
    OBVIOUS
  <2>2. writer' = [writer EXCEPT ![c] = None] \/ (writer' = writer /\ writer[c] # g)
    BY <1>6, <2>1 DEF Deliver, WriteFails
  <2>3. ASSUME NEW d \in Conns, NEW h \in Goroutines, writer'[d] = h
        PROVE  HasJob(h, "finish")' /\ (Job(h).to)' = d
    <3>1. writer[d] = h /\ (d = c => writer' = writer)
      BY <2>2, <2>3, NoneIsNone DEF TypeOK
    <3>2. h # g
      <4>1. h = g => c = d
        BY <2>1, <3>1 DEF WriterFits
      <4> QED
        BY <2>2, <3>1, <4>1, NoneIsNone DEF TypeOK
    <3> QED
      BY <1>3, <3>1, <3>2
  <2> QED
    BY <2>3 DEF WriterFits
<1>7. ASSUME \/ ReadBalances(g) \/ LookUp(g) \/ SetWriteDeadline(g)
             \/ NextWriter(g) /\ UNCHANGED writer
      PROVE  UNCHANGED writer /\ ~HasJob(g, "finish")
  BY <1>7 DEF ReadBalances, LookUp, SetWriteDeadline, NextWriter, HasJob
<1> QED
  BY <1>4, <1>5, <1>6, <1>7 DEF Sends

LEMMA StepWriter == TypeOK /\ Idle /\ WriterFits /\ [Next]_vars => WriterFits'
<1> SUFFICES ASSUME TypeOK, Idle, WriterFits, [Next]_vars PROVE WriterFits'
  OBVIOUS
<1>1. ASSUME \A c \in Conns : writer'[c] \in {writer[c], None},
             \A h \in Goroutines : jobs[h] # <<>> => jobs'[h] = jobs[h]
      PROVE  WriterFits'
  <2>1. ASSUME NEW c \in Conns, NEW h \in Goroutines, writer'[c] = h
        PROVE  HasJob(h, "finish")' /\ (Job(h).to)' = c
    <3>1. writer[c] = h
      BY <1>1, <2>1, NoneIsNone
    <3>2. HasJob(h, "finish") /\ Job(h).to = c
      BY <3>1 DEF WriterFits
    <3>3. jobs'[h] = jobs[h]
      BY <1>1, <3>2 DEF HasJob
    <3> QED
      BY <3>2, <3>3 DEF HasJob, Job
  <2> QED
    BY <2>1 DEF WriterFits
<1>9. ASSUME NEW c \in Conns, NEW a \in KeysOf[c], Connect(c, a) PROVE WriterFits'
  BY <1>1, <1>9 DEF Connect
<1>2. ASSUME NEW c \in Conns, ReadFails(c) \/ Unregister(c) \/ ClientStalls(c)
      PROVE  WriterFits'
  BY <1>1, <1>2 DEF ReadFails, Unregister, ClientStalls
<1>3. ASSUME NEW c \in Conns, Register(c) PROVE WriterFits'
  <2>1. jobs[c] = <<>> /\ UNCHANGED writer
    BY <1>3 DEF Register, Idle
  <2>2. \A h \in Goroutines : h # c => jobs'[h] = jobs[h]
    BY <1>3 DEF Register, TypeOK
  <2> QED
    BY <1>1, <2>1, <2>2
<1>4. ASSUME NEW c \in Conns, Serve(c) \/ ChangeSession(c) \/ Forward(c) \/ Reject(c)
      PROVE  WriterFits'
  <2>1. PICK js : Reads(c, js)
    BY <1>4 DEF Serve, ChangeSession, Forward, Reject
  <2>2. jobs[c] = <<>> /\ UNCHANGED writer /\ \A h \in Goroutines : h # c => jobs'[h] = jobs[h]
    BY <2>1 DEF Reads, Waits, TypeOK
  <2> QED
    BY <1>1, <2>2
<1>5. ASSUME NEW g \in Goroutines, Sends(g) PROVE WriterFits'
  BY <1>5, SendWriter
<1>6. ASSUME NEW l \in Listeners, NEW a \in Owners, HandleEvent(l, a) PROVE WriterFits'
  <2>1. jobs[l] = <<>> /\ UNCHANGED writer /\ \A h \in Goroutines : h # l => jobs'[h] = jobs[h]
    BY <1>6 DEF HandleEvent, TypeOK
  <2> QED
    BY <1>1, <2>1
<1>7. ASSUME NEW C, Close(C), UNCHANGED jobs PROVE WriterFits'
  BY <1>1, <1>7 DEF Close
<1>8. CASE UNCHANGED vars
  BY <1>1, <1>8 DEF vars
<1> QED
  <2>1. ASSUME NEW c \in Conns, HangUp(c) \/ ClientCloses(c) PROVE WriterFits'
    BY <1>7, <2>1 DEF HangUp, ClientCloses
  <2>2. CASE CloseAllConnections
    BY <1>7, <2>2 DEF CloseAllConnections
  <2>3. ASSUME NEW c \in Conns,
               \/ \E a \in KeysOf[c] : Connect(c, a)
               \/ Proceeds(c) \/ Serve(c) \/ ChangeSession(c) \/ Forward(c) \/ Reject(c)
               \/ ClientCloses(c) \/ ClientStalls(c)
        PROVE  WriterFits'
    <3>1. CASE \E a \in KeysOf[c] : Connect(c, a)
      BY <1>9, <3>1
    <3>4. CASE ReadFails(c) \/ Unregister(c) \/ ClientStalls(c)
      BY <1>2, <3>4
    <3>2. CASE Serve(c) \/ ChangeSession(c) \/ Forward(c) \/ Reject(c)
      BY <1>4, <3>2
    <3>3. CASE Register(c) \/ HangUp(c) \/ ClientCloses(c)
      BY <1>3, <2>1, <3>3
    <3> QED
      BY <2>3, <3>1, <3>2, <3>3, <3>4 DEF Proceeds
  <2>4. CASE Next
    BY <1>5, <1>6, <2>2, <2>3, <2>4 DEF Next
  <2> QED
    BY <1>8, <2>4

-------------------------------------------------------------------------------
\* The theorems.

LEMMA InitHolds == Init => IInv
<1> SUFFICES ASSUME Init PROVE IInv
  OBVIOUS
<1>1. TypeOK
  <2>1. Nothing \in [balances : Messages \cup {None}, messages : Seq(Messages)]
    BY DEF Nothing
  <2> QED
    BY <2>1 DEF Init, TypeOK
<1>2. HasAddress /\ RegistryLive /\ Idle /\ WriterFits
  BY GoroutinesAre, NoneIsNone DEF Init, HasAddress, RegistryLive, Idle, WriterFits
<1>3. JobsFit
  <2>1. \A g \in Goroutines : DOMAIN jobs[g] = {}
    BY DEF Init
  <2> QED
    BY <2>1 DEF JobsFit
<1>4. InboxFits /\ InOrder
  <2>1. ASSUME NEW c \in Conns
        PROVE  inbox[c] = Nothing /\ inbox[c].balances = None /\ DOMAIN inbox[c].messages = {}
    BY DEF Init, Nothing
  <2> QED
    BY <2>1 DEF InboxFits, InboxAt, InOrder
<1> QED
  BY <1>1, <1>2, <1>3, <1>4 DEF IInv

LEMMA StepHolds == IInv /\ [Next]_vars => IInv'
<1> SUFFICES ASSUME IInv, [Next]_vars PROVE IInv'
  OBVIOUS
<1>1. TypeOK' /\ HasAddress'
  BY StepTyped, StepSettled DEF IInv
<1>2. RegistryLive'
  BY StepLive DEF IInv, TypeOK, Placed
<1>3. JobsFit'
  BY StepFits DEF IInv
<1>7. Idle' /\ WriterFits'
  BY StepIdle, StepWriter DEF IInv
<1>4. \A c \in Conns : InboxAt(c)' /\ OrderAt(c)'
  BY <1>1, <1>3, StepInbox
<1>5. InboxFits'
  BY <1>4 DEF InboxFits
<1>6. InOrder'
  BY <1>4 DEF InOrder, OrderAt
<1> QED
  BY <1>1, <1>2, <1>3, <1>5, <1>6, <1>7 DEF IInv

\* The registry, the sockets, the pending sends and the inboxes keep their
\* types (ws.go:24-59).
THEOREM ConnectionsTyped == Spec => []TypeOK
<1>1. IInv => TypeOK
  BY DEF IInv
<1> QED
  BY <1>1, InitHolds, StepHolds, PTL DEF Spec

\* However many connections, listeners and participants there are, a client sees
\* the answers to its requests once and in order, and the messages forwarded
\* to it in the order their sender sent them (ws.go:164-366).
THEOREM ClientsSeeOrder == Spec => []InOrder
<1>1. IInv => InOrder
  BY DEF IInv
<1> QED
  BY <1>1, InitHolds, StepHolds, PTL DEF Spec

\* What a client receives is about its own address, and nothing it forwarded
\* comes back to it, whichever of its connections come and go (ws.go:408-415).
THEOREM OnlyAddressees == Spec => []DeliveredToAddressee
<1>1. IInv => DeliveredToAddressee
  <2> SUFFICES ASSUME IInv, NEW c \in Conns
               PROVE  /\ inbox[c].balances # None => inbox[c].balances.about = conns[c].address
                      /\ \A k \in DOMAIN inbox[c].messages :
                            LET m == inbox[c].messages[k]
                            IN  IF m.kind = "forward"
                                THEN /\ IsMember(conns[c].address)
                                     /\ conns[m.about].address # conns[c].address
                                ELSE m.about = c
    BY DEF DeliveredToAddressee
  <2>1. InboxAt(c)
    BY DEF IInv, InboxFits
  <2>2. inbox[c].balances # None => inbox[c].balances.about = conns[c].address
    BY <2>1 DEF InboxAt, Addressed, Updates
  <2>3. ASSUME NEW m \in Messages, Fits(c, m)
        PROVE  IF m.kind = "forward"
               THEN IsMember(conns[c].address) /\ conns[m.about].address # conns[c].address
               ELSE m.about = c
    BY <2>3, MessageCases DEF Fits, Addressed
  <2>4. \A k \in DOMAIN inbox[c].messages : inbox[c].messages[k] \in Messages
    BY DEF IInv, TypeOK
  <2> QED
    BY <2>1, <2>2, <2>3, <2>4 DEF InboxAt
<1> QED
  BY <1>1, InitHolds, StepHolds, PTL DEF Spec

===============================================================================
