------------------------------- MODULE AuthProofs -------------------------------
(***************************************************************************)
(* Proofs about Auth, for any connections, tokens and lifetimes: its type  *)
(* invariant, that a challenge authenticates once, the limit on challenges *)
(* and what the clean-up and the two-step refresh of sessions preserve.    *)
(***************************************************************************)
EXTENDS Auth, FiniteSetTheorems, TLAPS

-------------------------------------------------------------------------------
\* Types.

Challenge == [state : {"fresh", "pending", "used", "gone"},
              address : Addresses \cup {None}, left : Int]

LEMMA InitTyped == Init => TypeOK
BY KeyOfType, TokensAreFinite DEF Init, TypeOK, Absent, NoSession

LEMMA LessTyped == \A n \in Int : Less(n) \in Int /\ Less(n) <= n
BY LifetimesType DEF Less, Floor

LEMMA StepTyped == TypeOK /\ [Next]_vars => TypeOK'
<1> SUFFICES ASSUME TypeOK, [Next]_vars PROVE TypeOK'
  OBVIOUS
<1> USE KeyOfType, LifetimesType DEF Challenge
<1>1. ASSUME NEW c \in Conns, NEW t \in Tokens, NEW a \in Addresses, GenerateChallenge(c, t, a)
      PROVE  TypeOK'
  <2> DEFINE new == [state |-> "pending", address |-> a, left |-> ChallengeTTL]
  <2>1. challenges' = [challenges EXCEPT ![t] = new] /\ UNCHANGED <<sessions, conns, cleaner>>
    BY <1>1 DEF GenerateChallenge
  <2>2. new \in Challenge /\ new.state # "used"
    OBVIOUS
  <2> HIDE DEF new
  <2> QED
    BY <2>1, <2>2 DEF TypeOK
<1>2. ASSUME NEW c \in Conns, NEW t \in Tokens, ValidateChallenge(c, t) PROVE TypeOK'
  <2> DEFINE new == [challenges[t] EXCEPT !.state = "used", !.left = UsedTTL]
  <2>1. challenges[t] \in Challenge
    BY DEF TypeOK
  <2>2. new \in Challenge /\ new.left <= UsedTTL
    <3> DEFINE marked == [challenges[t] EXCEPT !.state = "used"]
    <3>1. marked \in Challenge /\ marked.state = "used"
      BY <2>1
    <3>2. new = [marked EXCEPT !.left = UsedTTL]
      OBVIOUS
    <3> HIDE DEF new, marked
    <3>3. new \in Challenge /\ new.left = UsedTTL
      BY <3>1, <3>2
    <3> QED
      BY <3>3
  <2>3. challenges' = [challenges EXCEPT ![t] = new]
    BY <1>2, <2>1 DEF ValidateChallenge, TypeOK
  <2>4. UNCHANGED cleaner /\ sessions' \in [Addresses -> [known : BOOLEAN, left : Int]]
    BY <1>2 DEF ValidateChallenge, Register, TypeOK
  <2>5. conns' \in [Conns -> [pc : {"auth", "loop", "validated", "closed"},
                              token : Tokens \cup {None}]]
    <3>1. CASE conns' = conns
      BY <3>1 DEF TypeOK
    <3>2. CASE conns' = [conns EXCEPT ![c] = [pc |-> "loop", token |-> t]]
      BY <3>2 DEF TypeOK
    <3> QED
      BY <1>2, <3>1, <3>2 DEF ValidateChallenge, Welcome
  <2> HIDE DEF new
  <2>6. /\ challenges' \in [Tokens -> Challenge]
        /\ \A u \in Tokens : challenges'[u].state = "used" => challenges'[u].left <= UsedTTL
    BY <2>2, <2>3 DEF TypeOK
  <2> QED
    BY <2>4, <2>5, <2>6 DEF TypeOK
<1>3. ASSUME NEW c \in Conns, NEW t \in Tokens, RejectChallenge(c, t) PROVE TypeOK'
  BY <1>3 DEF RejectChallenge, Absent, TypeOK
<1>4. ASSUME NEW c \in Conns, ValidateSession(c) PROVE TypeOK'
  BY <1>4 DEF ValidateSession, TypeOK
<1>5. ASSUME NEW c \in Conns, UpdateSession(c) PROVE TypeOK'
  <2>1. sessions' \in [Addresses -> [known : BOOLEAN, left : Int]]
    BY <1>5 DEF UpdateSession, TypeOK
  <2>2. conns' \in [Conns -> [pc : {"auth", "loop", "validated", "closed"},
                              token : Tokens \cup {None}]]
    BY <1>5 DEF UpdateSession, TypeOK
  <2> QED
    BY <1>5, <2>1, <2>2 DEF UpdateSession, TypeOK
<1>6. ASSUME NEW c \in Conns, Disconnect(c) PROVE TypeOK'
  BY <1>6 DEF Disconnect, TypeOK
<1>7. CASE CleanUp
  BY <1>7 DEF CleanUp, TypeOK
<1>8. CASE CleanChallenges
  BY <1>8 DEF CleanChallenges, Absent, TypeOK
<1>9. CASE CleanSessions
  BY <1>9 DEF CleanSessions, NoSession, TypeOK
<1>10. CASE Tick
  <2>1. ASSUME NEW t \in Tokens
        PROVE  /\ challenges'[t] \in Challenge
               /\ challenges'[t].state = "used" => challenges'[t].left <= UsedTTL
    <3> DEFINE less == Less(challenges[t].left)
    <3>1. challenges[t] \in Challenge /\ (challenges[t].state = "used" => challenges[t].left <= UsedTTL)
      BY DEF TypeOK
    <3>2. less \in Int /\ less <= challenges[t].left
      BY <3>1, LessTyped
    <3>3. challenges'[t] = [challenges[t] EXCEPT !.left = less] \/ challenges'[t] = challenges[t]
      BY <1>10 DEF Tick
    <3> HIDE DEF less
    <3> QED
      BY <3>1, <3>2, <3>3
  <2>2. challenges' = [t \in Tokens |-> challenges'[t]]
    BY <1>10 DEF Tick
  <2>3. challenges' \in [Tokens -> Challenge]
    BY <2>1, <2>2
  <2>4. sessions' \in [Addresses -> [known : BOOLEAN, left : Int]]
    BY <1>10, LessTyped DEF Tick, TypeOK
  <2>5. conns' = conns /\ cleaner' \in [pc : {"wait", "challenges", "sessions"}, lag : Nat]
    BY <1>10 DEF Tick, TypeOK
  <2> QED
    BY <2>1, <2>3, <2>4, <2>5 DEF TypeOK
<1>11. CASE UNCHANGED vars
  BY <1>11 DEF vars, TypeOK
<1> QED
  BY <1>1, <1>2, <1>3, <1>4, <1>5, <1>6, <1>7, <1>8, <1>9, <1>10, <1>11 DEF Next, Clean

\* Every variable keeps its type (the maps and goroutines of auth.go), and an
\* answered challenge is kept for UsedTTL at most.
THEOREM TypeCorrect == Spec => []TypeOK
<1>1. Init => TypeOK
  BY InitTyped
<1>2. TypeOK /\ [Next]_vars => TypeOK'
  BY StepTyped
<1> QED
  BY <1>1, <1>2, PTL DEF Spec

-------------------------------------------------------------------------------
\* Challenges are answered once.

\* Whoever authenticated did so with a challenge nobody can answer any more:
\* this is what makes the property inductive.
Spent(t) == challenges[t].state \in {"used", "gone"}

TokensSpent == \A c \in Conns : conns[c].token # None => Spent(conns[c].token)

AnsweredOnce == TypeOK /\ TokensSpent /\ ChallengeAuthenticatesOnce

\* No step makes a spent challenge pending again.
LEMMA SpentStays ==
    ASSUME TypeOK, [Next]_vars, NEW t \in Tokens, Spent(t)
    PROVE  Spent(t)'
<1> USE DEF Spent, TypeOK
<1>1. ASSUME NEW c \in Conns, NEW u \in Tokens, NEW a \in Addresses, GenerateChallenge(c, u, a)
      PROVE  Spent(t)'
  BY <1>1 DEF GenerateChallenge
<1>2. ASSUME NEW c \in Conns, NEW u \in Tokens, ValidateChallenge(c, u) PROVE Spent(t)'
  BY <1>2 DEF ValidateChallenge
<1>3. ASSUME NEW c \in Conns, NEW u \in Tokens, RejectChallenge(c, u) PROVE Spent(t)'
  BY <1>3 DEF RejectChallenge, Absent
<1>4. CASE CleanChallenges
  BY <1>4 DEF CleanChallenges, Absent
<1>5. CASE Tick
  BY <1>5 DEF Tick
<1>6. CASE UNCHANGED challenges
  BY <1>6
<1> QED
  BY <1>1, <1>2, <1>3, <1>4, <1>5, <1>6
     DEF Next, Clean, ValidateSession, UpdateSession, Disconnect, CleanUp, CleanSessions, vars

\* A connection gets a token only from a challenge that was pending.
LEMMA TokenGiven ==
    ASSUME TypeOK, [Next]_vars
    PROVE  \/ \A c \in Conns : conns'[c].token = conns[c].token
           \/ \E d \in Conns, t \in Tokens :
                 /\ challenges[t].state = "pending" /\ Spent(t)'
                 /\ conns'[d].token = t
                 /\ \A c \in Conns \ {d} : conns'[c].token = conns[c].token
<1> USE DEF TypeOK
<1> DEFINE Same == \A c \in Conns : conns'[c].token = conns[c].token
<1>1. ASSUME NEW d \in Conns, NEW t \in Tokens, ValidateChallenge(d, t)
      PROVE  \/ Same
             \/ /\ challenges[t].state = "pending" /\ Spent(t)'
                /\ conns'[d].token = t
                /\ \A c \in Conns \ {d} : conns'[c].token = conns[c].token
  <2>1. challenges[t].state = "pending" /\ Spent(t)'
    BY <1>1 DEF ValidateChallenge, Spent
  <2>2. CASE UNCHANGED conns
    BY <2>2
  <2>3. CASE conns' = [conns EXCEPT ![d] = [pc |-> "loop", token |-> t]]
    BY <2>1, <2>3
  <2> QED
    BY <1>1, <2>2, <2>3 DEF ValidateChallenge, Welcome
<1>2. ASSUME NEW c \in Conns, ValidateSession(c) \/ UpdateSession(c) \/ Disconnect(c)
      PROVE  Same
  BY <1>2 DEF ValidateSession, UpdateSession, Disconnect
<1>3. CASE UNCHANGED conns
  BY <1>3
<1> QED
  BY <1>1, <1>2, <1>3
     DEF Next, Clean, GenerateChallenge, RejectChallenge, CleanUp, CleanChallenges,
         CleanSessions, Tick, vars

LEMMA StepAnswersOnce == AnsweredOnce /\ [Next]_vars => AnsweredOnce'
<1> SUFFICES ASSUME AnsweredOnce, [Next]_vars PROVE AnsweredOnce'
  OBVIOUS
<1>1. TypeOK /\ TokensSpent /\ ChallengeAuthenticatesOnce
  BY DEF AnsweredOnce
<1>2. TypeOK'
  BY <1>1, StepTyped
<1>3. \A c \in Conns : conns[c].token \in Tokens \cup {None}
  BY <1>1 DEF TypeOK
<1>4. \A c \in Conns : conns[c].token # None =>
         Spent(conns[c].token) /\ challenges'[conns[c].token].state \in {"used", "gone"}
  <2> SUFFICES ASSUME NEW c \in Conns, conns[c].token # None
               PROVE  Spent(conns[c].token) /\ challenges'[conns[c].token].state \in {"used", "gone"}
    OBVIOUS
  <2> DEFINE t == conns[c].token
  <2>1. t \in Tokens /\ Spent(t)
    BY <1>1, <1>3 DEF TokensSpent
  <2>2. challenges'[t].state \in {"used", "gone"}
    BY <1>1, <2>1, SpentStays DEF Spent
  <2> QED
    BY <2>1, <2>2 DEF Spent
<1>5. CASE \A c \in Conns : conns'[c].token = conns[c].token
  <2>1. TokensSpent'
    BY <1>4, <1>5 DEF TokensSpent, Spent
  <2>2. ChallengeAuthenticatesOnce'
    BY <1>1, <1>5 DEF ChallengeAuthenticatesOnce
  <2> QED
    BY <1>2, <2>1, <2>2 DEF AnsweredOnce
<1>6. ASSUME NEW d \in Conns, NEW t \in Tokens,
             challenges[t].state = "pending", Spent(t)', conns'[d].token = t,
             \A c \in Conns \ {d} : conns'[c].token = conns[c].token
      PROVE  AnsweredOnce'
  <2>1. \A c \in Conns : conns[c].token # t
    BY <1>4, <1>6, TokensAreFinite DEF Spent
  <2>2. TokensSpent'
    BY <1>4, <1>6 DEF TokensSpent, Spent
  <2>3. ChallengeAuthenticatesOnce'
    BY <1>1, <1>6, <2>1 DEF ChallengeAuthenticatesOnce
  <2> QED
    BY <1>2, <2>2, <2>3 DEF AnsweredOnce
<1> QED
  BY <1>1, <1>5, <1>6, TokenGiven

\* A challenge authenticates at most one connection (auth.go:106-113), for any
\* number of connections racing for it, expiry and clean-up included.
THEOREM ChallengesAnsweredOnce == Spec => []ChallengeAuthenticatesOnce
<1>1. Init => AnsweredOnce
  BY InitTyped DEF Init, AnsweredOnce, TokensSpent, ChallengeAuthenticatesOnce
<1>2. AnsweredOnce /\ [Next]_vars => AnsweredOnce'
  BY StepAnswersOnce
<1>3. AnsweredOnce => ChallengeAuthenticatesOnce
  BY DEF AnsweredOnce
<1> QED
  BY <1>1, <1>2, <1>3, PTL DEF Spec

-------------------------------------------------------------------------------
\* The limit on challenges.

\* A step leaves the stored challenges as they are or fewer, or adds one when
\* there is room.
LEMMA PendingGrowth ==
    ASSUME TypeOK, [Next]_vars
    PROVE  \/ Pending' \subseteq Pending
           \/ HasRoom /\ \E t \in Tokens : Pending' \subseteq Pending \cup {t}
<1> USE DEF TypeOK, Pending, Stored
<1>1. ASSUME NEW c \in Conns, NEW t \in Tokens, NEW a \in Addresses, GenerateChallenge(c, t, a)
      PROVE  HasRoom /\ Pending' \subseteq Pending \cup {t}
  BY <1>1 DEF GenerateChallenge
<1>2. ASSUME NEW c \in Conns, NEW t \in Tokens, ValidateChallenge(c, t)
      PROVE  Pending' \subseteq Pending
  BY <1>2 DEF ValidateChallenge
<1>3. ASSUME NEW c \in Conns, NEW t \in Tokens, RejectChallenge(c, t)
      PROVE  Pending' \subseteq Pending
  BY <1>3 DEF RejectChallenge, Absent
<1>4. CASE CleanChallenges
  BY <1>4 DEF CleanChallenges, Absent
<1>5. CASE Tick
  BY <1>5 DEF Tick
<1>6. CASE UNCHANGED challenges
  BY <1>6
<1> QED
  BY <1>1, <1>2, <1>3, <1>4, <1>5, <1>6
     DEF Next, Clean, ValidateSession, UpdateSession, Disconnect, CleanUp, CleanSessions, vars

LEMMA PendingFinite == IsFiniteSet(Pending) /\ Cardinality(Pending) \in Nat
<1>1. Pending \subseteq Tokens
  BY DEF Pending
<1> QED
  BY <1>1, TokensAreFinite, FS_Subset, FS_CardinalityType

LEMMA StepBounded == TypeOK /\ PendingBounded /\ [Next]_vars => PendingBounded'
<1> SUFFICES ASSUME TypeOK, PendingBounded, [Next]_vars PROVE PendingBounded'
  OBVIOUS
<1>1. CASE Pending' \subseteq Pending
  <2>1. Cardinality(Pending') <= Cardinality(Pending)
    BY <1>1, PendingFinite, FS_Subset
  <2>2. Cardinality(Pending') \in Nat
    BY <1>1, PendingFinite, FS_Subset, FS_CardinalityType
  <2> QED
    BY <2>1, <2>2, PendingFinite, LifetimesType DEF PendingBounded
<1>2. ASSUME HasRoom, NEW t \in Tokens, Pending' \subseteq Pending \cup {t}
      PROVE  PendingBounded'
  <2>1. /\ IsFiniteSet(Pending \cup {t})
        /\ Cardinality(Pending \cup {t}) <= Cardinality(Pending) + 1
    <3>1. /\ IsFiniteSet(Pending \cup {t})
          /\ \/ Cardinality(Pending \cup {t}) = Cardinality(Pending)
             \/ Cardinality(Pending \cup {t}) = Cardinality(Pending) + 1
      <4> DEFINE P == Pending
      <4>1. IsFiniteSet(P)
        BY PendingFinite
      <4> HIDE DEF P
      <4>2. /\ IsFiniteSet(P \cup {t})
            /\ \/ Cardinality(P \cup {t}) = Cardinality(P)
               \/ Cardinality(P \cup {t}) = Cardinality(P) + 1
        BY <4>1, FS_AddElement
      <4> QED
        BY <4>2 DEF P
    <3> QED
      BY <3>1, PendingFinite
  <2>2. Cardinality(Pending') <= Cardinality(Pending \cup {t})
    BY <1>2, <2>1, FS_Subset
  <2>3. Cardinality(Pending') \in Nat /\ Cardinality(Pending \cup {t}) \in Nat
    BY <1>2, <2>1, FS_Subset, FS_CardinalityType
  <2> QED
    BY <1>2, <2>1, <2>2, <2>3, PendingFinite, LifetimesType DEF PendingBounded, HasRoom
<1> QED
  BY <1>1, <1>2, PendingGrowth

\* There are never more challenges than the limit (auth.go:71).
THEOREM ChallengesBounded == Spec => []PendingBounded
<1>1. Init => TypeOK /\ PendingBounded
  <2>1. Init => Pending = {}
    BY DEF Init, Pending, Stored, Absent
  <2> QED
    BY <2>1, InitTyped, FS_EmptySet, LifetimesType DEF PendingBounded
<1>2. TypeOK /\ PendingBounded /\ [Next]_vars => (TypeOK /\ PendingBounded)'
  BY StepTyped, StepBounded
<1> QED
  BY <1>1, <1>2, PTL DEF Spec

-------------------------------------------------------------------------------
\* Expiry.

\* The clean-up removes nothing that is still valid, late as its clock may be
\* (auth.go:165-187).
THEOREM NothingRemovedEarly == Spec => KeptUntilExpiry
<1> DEFINE Kept == /\ \A a \in Addresses : Valid(a) => sessions'[a].known
                   /\ \A t \in Tokens :
                         challenges[t].state = "pending" /\ challenges[t].left >= 0
                            => challenges'[t].state # "gone"
<1>1. ASSUME TypeOK, [Next]_vars PROVE Kept
  <2> USE <1>1 DEF TypeOK, Valid
  <2>1. ASSUME NEW c \in Conns, NEW t \in Tokens, NEW a \in Addresses, GenerateChallenge(c, t, a)
        PROVE  Kept
    BY <2>1 DEF GenerateChallenge
  <2>2. ASSUME NEW c \in Conns, NEW t \in Tokens, ValidateChallenge(c, t) PROVE Kept
    BY <2>2, KeyOfType DEF ValidateChallenge, Register
  <2>3. ASSUME NEW c \in Conns, NEW t \in Tokens, RejectChallenge(c, t) PROVE Kept
    BY <2>3 DEF RejectChallenge
  <2>4. ASSUME NEW c \in Conns, UpdateSession(c) PROVE Kept
    BY <2>4, KeyOfType DEF UpdateSession
  <2>5. CASE CleanChallenges
    BY <2>5 DEF CleanChallenges, HadExpired
  <2>6. CASE CleanSessions
    BY <2>6 DEF CleanSessions, HadExpired
  <2>7. CASE Tick
    BY <2>7 DEF Tick
  <2>8. CASE UNCHANGED <<challenges, sessions>>
    BY <2>8
  <2> QED
    BY <2>1, <2>2, <2>3, <2>4, <2>5, <2>6, <2>7, <2>8
       DEF Next, Clean, ValidateSession, Disconnect, CleanUp, vars
<1>2. TypeOK /\ [Next]_vars => [Kept]_vars
  BY <1>1
<1> QED
  BY <1>2, TypeCorrect, PTL DEF Spec, KeptUntilExpiry

\* What time leaves of a lifetime is no more than before, so an expired session
\* does not come back by waiting.
LEMMA LessIsExpired == \A n \in Int : n < 0 => Less(n) < 0
BY LifetimesType DEF Less, Floor

\* A message is accepted only while the session of its address is valid, and
\* what has expired becomes valid only by an answer to a challenge of that
\* address or by the refresh after a message that was accepted before
\* (ws.go:179-187, auth.go:93-162), however many connections share the session.
THEOREM ExpiryIsFinal == Spec => ExpiredNeedsAnswer
<1> DEFINE Accepted(c) == conns'[c].pc = "validated" /\ conns[c].pc # "validated"
                             => Valid(KeyOf[c])
           Revived(a) == ~Valid(a) /\ Valid(a)'
           Answered(a) == \E t \in Tokens : /\ challenges[t].state = "pending"
                                            /\ challenges'[t].state = "used"
                                            /\ challenges[t].address = a
           Refreshed(a) == \E c \in Conns : /\ KeyOf[c] = a
                                            /\ conns[c].pc = "validated" /\ conns'[c].pc = "loop"
           Final ==
               /\ \A c \in Conns : conns'[c].pc = "validated" /\ conns[c].pc # "validated"
                                      => Valid(KeyOf[c])
               /\ \A a \in Addresses : ~Valid(a) /\ Valid(a)' =>
                     \/ \E t \in Tokens : /\ challenges[t].state = "pending"
                                          /\ challenges'[t].state = "used"
                                          /\ challenges[t].address = a
                     \/ \E c \in Conns : /\ KeyOf[c] = a
                                         /\ conns[c].pc = "validated" /\ conns'[c].pc = "loop"
<1>1. ASSUME TypeOK, [Next]_vars PROVE Final
  <2> USE <1>1 DEF TypeOK, Valid
  <2>1. ASSUME NEW c \in Conns, NEW t \in Tokens, ValidateChallenge(c, t) PROVE Final
    <3>1. \A d \in Conns : conns'[d].pc = conns[d].pc \/ conns'[d].pc = "loop"
      BY <2>1 DEF ValidateChallenge, Welcome
    <3>2. \A a \in Addresses : a # KeyOf[c] => sessions'[a] = sessions[a]
      BY <2>1, KeyOfType DEF ValidateChallenge, Register
    <3>3. Answered(KeyOf[c])
      BY <2>1 DEF ValidateChallenge, Answers
    <3> QED
      BY <3>1, <3>2, <3>3
  <2>2. ASSUME NEW c \in Conns, ValidateSession(c) PROVE Final
    BY <2>2 DEF ValidateSession
  <2>3. ASSUME NEW c \in Conns, UpdateSession(c) PROVE Final
    <3>1. conns[c].pc = "validated" /\ conns' = [conns EXCEPT ![c].pc = "loop"]
      BY <2>3 DEF UpdateSession
    <3>2. \A d \in Conns : Accepted(d)
      BY <3>1
    <3>3. \A a \in Addresses : a # KeyOf[c] => sessions'[a] = sessions[a]
      BY <2>3, KeyOfType DEF UpdateSession
    <3>4. Refreshed(KeyOf[c])
      BY <3>1
    <3> QED
      BY <3>2, <3>3, <3>4
  <2>4. ASSUME NEW c \in Conns, Disconnect(c) PROVE Final
    BY <2>4 DEF Disconnect
  <2>5. CASE CleanSessions
    BY <2>5 DEF CleanSessions, NoSession
  <2>6. CASE Tick
    <3>1. conns' = conns
      BY <2>6 DEF Tick
    <3>2. ASSUME NEW a \in Addresses PROVE ~Revived(a)
      <4>1. sessions[a] \in [known : BOOLEAN, left : Int]
        OBVIOUS
      <4>2. sessions'[a] = IF sessions[a].known
                           THEN [sessions[a] EXCEPT !.left = Less(sessions[a].left)]
                           ELSE sessions[a]
        BY <2>6 DEF Tick
      <4>3. CASE sessions[a].known
        <5>1. sessions'[a].known = sessions[a].known /\ sessions'[a].left = Less(sessions[a].left)
          BY <4>1, <4>2, <4>3
        <5> QED
          BY <4>1, <5>1, LessIsExpired, LessTyped
      <4>4. CASE ~sessions[a].known
        BY <4>2, <4>4
      <4> QED
        BY <4>3, <4>4
    <3> QED
      BY <3>1, <3>2
  <2>7. CASE UNCHANGED <<sessions, conns>>
    BY <2>7
  <2> QED
    BY <2>1, <2>2, <2>3, <2>4, <2>5, <2>6, <2>7
       DEF Next, Clean, GenerateChallenge, RejectChallenge, CleanUp, CleanChallenges, vars
<1>2. TypeOK /\ [Next]_vars => [Final]_vars
  BY <1>1
<1> QED
  BY <1>2, TypeCorrect, PTL DEF Spec, ExpiredNeedsAnswer
===============================================================================
