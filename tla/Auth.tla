---------------------------------- MODULE Auth ----------------------------------
(***************************************************************************)
(* Authentication: challenges and sessions of the AuthManager (auth.go),   *)
(* as the WebSocket handler uses them (ws.go).                             *)
(*                                                                         *)
(* A connection asks for challenges and answers one with a signature; then *)
(* each of its messages is accepted if the session of its address is       *)
(* valid, and refreshes that session.  All connections of an address share *)
(* one session.  Checking and refreshing are two critical sections, and a  *)
(* background goroutine removes what has expired in two more, both with    *)
(* the time it read before them.                                           *)
(*                                                                         *)
(* Time is kept as what is left of each lifetime: negative once the time   *)
(* is after the expiry.                                                    *)
(***************************************************************************)
EXTENDS Integers, FiniteSets

CONSTANTS
    Conns,              \* connections, each opened once
    Addresses,
    KeyOf,              \* [Conns -> Addresses], whose key the client signs with
    Tokens,             \* challenge tokens, random and never repeated
    None,               \* no token, no address
    MaxChallenges,      \* pending challenges (1000)
    ChallengeTTL,       \* lifetime of a challenge (5 minutes)
    UsedTTL,            \* what an answered one keeps of it (30 seconds)
    SessionTTL,         \* lifetime of a session without messages (24 hours)
    MaxLag              \* bound on the time that passes during a clean-up

ASSUME KeyOfType == KeyOf \in [Conns -> Addresses]
ASSUME TokensAreFinite == IsFiniteSet(Tokens) /\ None \notin Tokens
ASSUME LifetimesType ==
    /\ MaxChallenges \in Nat /\ ChallengeTTL \in Nat /\ UsedTTL \in Nat
    /\ SessionTTL \in Nat /\ MaxLag \in Nat

VARIABLES
    challenges,         \* by token: "fresh" before it is issued, "gone" when removed
    sessions,           \* by address: whether it has an entry and what is left of it
    conns,              \* each connection's place in HandleConnection
    cleaner             \* the clean-up goroutine, and the time since it read the clock

vars == <<challenges, sessions, conns, cleaner>>

\* No lifetime is followed below Floor: it is expired for any clean-up.
Floor == -(MaxLag + 1)

Stored(t) == challenges[t].state \in {"pending", "used"}

Pending == {t \in Tokens : Stored(t)}

Valid(a) == sessions[a].known /\ sessions[a].left >= 0

\* A challenge and a session that the maps do not hold.
Absent(state) == [state |-> state, address |-> None, left |-> 0]

NoSession == [known |-> FALSE, left |-> 0]

Init ==
    /\ challenges = [t \in Tokens |-> Absent("fresh")]
    /\ sessions = [a \in Addresses |-> NoSession]
    /\ conns = [c \in Conns |-> [pc |-> "auth", token |-> None]]
    /\ cleaner = [pc |-> "wait", lag |-> 0]

-------------------------------------------------------------------------------
\* Challenges.

\* Mutant: an off-by-one in the limit.
RoomForOneMore == Cardinality(Pending) <= MaxChallenges

HasRoom == Cardinality(Pending) < MaxChallenges

\* Anybody may ask for a challenge for any address.
GenerateChallenge(c, t, a) ==
    /\ conns[c].pc = "auth"
    /\ challenges[t].state = "fresh"
    /\ HasRoom
    /\ challenges' = [challenges EXCEPT ![t] = [state |-> "pending", address |-> a,
                                                left |-> ChallengeTTL]]
    /\ UNCHANGED <<sessions, conns, cleaner>>

\* The answer of connection c, signed for its address, to challenge t.
Answers(c, t) ==
    /\ conns[c].pc = "auth"
    /\ Stored(t)
    /\ challenges[t].address = KeyOf[c]

\* The connection is authenticated unless the response cannot be sent.
Welcome(c, t) ==
    \/ conns' = [conns EXCEPT ![c] = [pc |-> "loop", token |-> t]]
    \/ UNCHANGED conns

Register(a) == sessions' = [sessions EXCEPT ![a] = [known |-> TRUE, left |-> SessionTTL]]

\* Mutant: the challenge is not marked.
ValidateUnmarked(c, t) ==
    /\ Answers(c, t)
    /\ challenges[t].state = "pending" /\ challenges[t].left >= 0
    /\ challenges' = [challenges EXCEPT ![t].left = UsedTTL]
    /\ Register(KeyOf[c])
    /\ Welcome(c, t)
    /\ UNCHANGED cleaner

\* Mutant: the challenge keeps its lifetime.
ValidateUnshortened(c, t) ==
    /\ Answers(c, t)
    /\ challenges[t].state = "pending" /\ challenges[t].left >= 0
    /\ challenges' = [challenges EXCEPT ![t].state = "used"]
    /\ Register(KeyOf[c])
    /\ Welcome(c, t)
    /\ UNCHANGED cleaner

ValidateChallenge(c, t) ==
    /\ Answers(c, t)
    /\ challenges[t].state = "pending" /\ challenges[t].left >= 0
    /\ challenges' = [challenges EXCEPT ![t].state = "used", ![t].left = UsedTTL]
    /\ Register(KeyOf[c])
    /\ Welcome(c, t)
    /\ UNCHANGED cleaner

\* "challenge expired", "challenge already used"
RejectChallenge(c, t) ==
    /\ Answers(c, t)
    /\ challenges[t].state = "used" \/ challenges[t].left < 0
    /\ challenges' = [challenges EXCEPT ![t] = Absent("gone")]
    /\ UNCHANGED <<sessions, conns, cleaner>>

-------------------------------------------------------------------------------
\* Messages of authenticated connections.

\* Mutant: an entry is enough, whatever its age.
AcceptKnown(c) ==
    /\ conns[c].pc = "loop"
    /\ conns' = [conns EXCEPT ![c].pc = IF sessions[KeyOf[c]].known
                                        THEN "validated" ELSE "closed"]
    /\ UNCHANGED <<challenges, sessions, cleaner>>

\* "Session expired. Please re-authenticate.": the connection is closed.
ValidateSession(c) ==
    /\ conns[c].pc = "loop"
    /\ conns' = [conns EXCEPT ![c].pc = IF Valid(KeyOf[c]) THEN "validated" ELSE "closed"]
    /\ UNCHANGED <<challenges, sessions, cleaner>>

\* The message is served, whether or not there is still an entry to refresh.
UpdateSession(c) ==
    LET a == KeyOf[c]
    IN  /\ conns[c].pc = "validated"
        /\ sessions' = IF sessions[a].known
                       THEN [sessions EXCEPT ![a].left = SessionTTL] ELSE sessions
        /\ conns' = [conns EXCEPT ![c].pc = "loop"]
        /\ UNCHANGED <<challenges, cleaner>>

Disconnect(c) ==
    /\ conns[c].pc \in {"auth", "loop"}
    /\ conns' = [conns EXCEPT ![c].pc = "closed"]
    /\ UNCHANGED <<challenges, sessions, cleaner>>

-------------------------------------------------------------------------------
\* The clean-up goroutine and time.

CleanUp ==
    /\ cleaner.pc = "wait"
    /\ cleaner' = [pc |-> "challenges", lag |-> 0]
    /\ UNCHANGED <<challenges, sessions, conns>>

\* Whether what has `left` left had expired when the clean-up read the clock.
HadExpired(left) == left + cleaner.lag < 0

\* Mutant: answered challenges are left to their second answer.
CleanUnanswered ==
    /\ cleaner.pc = "challenges"
    /\ challenges' = [t \in Tokens |->
                         IF challenges[t].state = "pending" /\ HadExpired(challenges[t].left)
                         THEN Absent("gone") ELSE challenges[t]]
    /\ cleaner' = [cleaner EXCEPT !.pc = "sessions"]
    /\ UNCHANGED <<sessions, conns>>

CleanChallenges ==
    /\ cleaner.pc = "challenges"
    /\ challenges' = [t \in Tokens |->
                         IF Stored(t) /\ HadExpired(challenges[t].left)
                         THEN Absent("gone") ELSE challenges[t]]
    /\ cleaner' = [cleaner EXCEPT !.pc = "sessions"]
    /\ UNCHANGED <<sessions, conns>>

\* Mutant: a session is taken for older than it is by the clean-up's delay.
CleanEarly ==
    /\ cleaner.pc = "sessions"
    /\ sessions' = [a \in Addresses |->
                       IF sessions[a].known /\ sessions[a].left - cleaner.lag < 0
                       THEN NoSession ELSE sessions[a]]
    /\ cleaner' = [pc |-> "wait", lag |-> 0]
    /\ UNCHANGED <<challenges, conns>>

CleanSessions ==
    /\ cleaner.pc = "sessions"
    /\ sessions' = [a \in Addresses |->
                       IF sessions[a].known /\ HadExpired(sessions[a].left)
                       THEN NoSession ELSE sessions[a]]
    /\ cleaner' = [pc |-> "wait", lag |-> 0]
    /\ UNCHANGED <<challenges, conns>>

Less(left) == IF left > Floor THEN left - 1 ELSE left

Tick ==
    /\ cleaner.pc # "wait" => cleaner.lag < MaxLag
    /\ challenges' = [t \in Tokens |->
                         IF Stored(t) THEN [challenges[t] EXCEPT !.left = Less(@)]
                         ELSE challenges[t]]
    /\ sessions' = [a \in Addresses |->
                       IF sessions[a].known THEN [sessions[a] EXCEPT !.left = Less(@)]
                       ELSE sessions[a]]
    /\ cleaner' = IF cleaner.pc = "wait" THEN cleaner ELSE [cleaner EXCEPT !.lag = @ + 1]
    /\ UNCHANGED conns

Clean == CleanUp \/ CleanChallenges \/ CleanSessions

Next ==
    \/ \E c \in Conns :
        \/ \E t \in Tokens :
            \/ \E a \in Addresses : GenerateChallenge(c, t, a)
            \/ ValidateChallenge(c, t)
            \/ RejectChallenge(c, t)
        \/ ValidateSession(c)
        \/ UpdateSession(c)
        \/ Disconnect(c)
    \/ Clean
    \/ Tick

Spec == Init /\ [][Next]_vars

\* Time passes, the ticker ticks and its goroutine gets the locks.
FairSpec == Spec /\ WF_vars(Tick) /\ WF_vars(Clean)

-------------------------------------------------------------------------------
\* Properties.

TypeOK ==
    /\ challenges \in [Tokens -> [state : {"fresh", "pending", "used", "gone"},
                                  address : Addresses \cup {None}, left : Int]]
    /\ \A t \in Tokens : challenges[t].state = "used" => challenges[t].left <= UsedTTL
    /\ sessions \in [Addresses -> [known : BOOLEAN, left : Int]]
    /\ conns \in [Conns -> [pc : {"auth", "loop", "validated", "closed"},
                            token : Tokens \cup {None}]]
    /\ cleaner \in [pc : {"wait", "challenges", "sessions"}, lag : Nat]

\* A challenge authenticates at most one connection (auth.go:106-113), however
\* answers, expiry and clean-up interleave.
ChallengeAuthenticatesOnce ==
    \A c, d \in Conns : conns[c].token = conns[d].token /\ conns[c].token # None => c = d

\* There are never more challenges than the limit (auth.go:71).
PendingBounded == Cardinality(Pending) <= MaxChallenges

\* The clean-up removes no session that is still valid, and no challenge that
\* could still be answered, late as its clock may be (auth.go:165-187).
KeptUntilExpiry ==
    [][/\ \A a \in Addresses : Valid(a) => sessions'[a].known
       /\ \A t \in Tokens : challenges[t].state = "pending" /\ challenges[t].left >= 0
             => challenges'[t].state # "gone"]_vars

\* A message is accepted only while the session of its address is valid, and a
\* session without entry or past its lifetime becomes valid only when its
\* address answers a challenge, or by a message that was accepted before
\* (ws.go:179-187: it may expire between the check and the refresh).
ExpiredNeedsAnswer ==
    [][/\ \A c \in Conns : conns'[c].pc = "validated" /\ conns[c].pc # "validated"
             => Valid(KeyOf[c])
       /\ \A a \in Addresses : ~Valid(a) /\ Valid(a)' =>
             \/ \E t \in Tokens : /\ challenges[t].state = "pending"
                                  /\ challenges'[t].state = "used"
                                  /\ challenges[t].address = a
             \/ \E c \in Conns : /\ KeyOf[c] = a
                                 /\ conns[c].pc = "validated" /\ conns'[c].pc = "loop"]_vars

\* A full store of challenges has room again, answered challenges included.
RoomReturns == (Cardinality(Pending) = MaxChallenges) ~> HasRoom
===============================================================================
