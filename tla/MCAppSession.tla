----------------------------- MODULE MCAppSession -----------------------------
(***************************************************************************)
(* Instances of AppSession for TLC.  "Alice" and "Bob" are checksummed     *)
(* addresses as the signer recovers them; "alice" is the first one in      *)
(* lower case, which requests may contain as well; "Carol" takes no part   *)
(* in the applications.                                                    *)
(***************************************************************************)
EXTENDS AppSession, TLC

MCLower == ("Alice" :> "alice") @@ ("Bob" :> "bob") @@ ("Carol" :> "carol") @@ ("alice" :> "alice")

\* s1: either participant alone reaches the quorum.  s2: a quorum of zero,
\* stored as the default, which takes both.  twice: one address takes part as
\* two.  light: the same quorum of zero, which nobody reaches.
MCDefinition ==
    [s \in SessionIds |->
        CASE s = "s1" ->
             [participants |-> <<"Alice", "Bob">>, weights |-> <<1, 1>>, quorum |-> 1]
          [] s = "s2" ->
             [participants |-> <<"Alice", "Bob">>, weights |-> <<60, 40>>, quorum |-> 0]
          [] s = "twice" ->
             [participants |-> <<"Alice", "Alice">>, weights |-> <<1, 1>>, quorum |-> 1]
          [] s = "light" ->
             [participants |-> <<"Alice", "Bob">>, weights |-> <<1, -1>>, quorum |-> 0]]

Row(p, a, n) == [participant |-> p, asset |-> a, amount |-> n]

Create(s, rows, S) == [session |-> s, rows |-> rows, signers |-> S]
Close(s, rows, sigs) == [session |-> s, rows |-> rows, sigs |-> sigs]

\* One asset, canonical spelling; rows that repeat a participant as well, and
\* closes with a row less than there are participants.
PlainCreates ==
    {Create(s, <<Row("Alice", "usd", x), Row(q, "usd", y)>>, S) :
        s \in SessionIds, x \in 0..2, q \in {"Alice", "Bob"}, y \in 0..1,
        S \in {{"Alice"}, {"Alice", "Bob"}}}

PlainCloses ==
    {Close(s, rows, sigs) :
        s \in SessionIds,
        rows \in {<<Row("Alice", "usd", x), Row("Bob", "usd", y)>> : x \in 0..2, y \in 0..1}
                 \cup {<<Row("Alice", "usd", 1), Row("Alice", "usd", 0)>>,
                        <<Row("Alice", "usd", 2)>>},
        sigs \in {<<"Alice">>, <<"Bob", "Alice">>, <<"Alice", "Alice">>}}

\* These are plain requests, as the proof of the promise asks for.
ASSUME PlainOnes ==
    CreateRequests = PlainCreates /\ CloseRequests = PlainCloses => PlainRequests

\* The requests of a run with overlapping transactions: few amounts, a create
\* that spends one participant's funds twice, closes by one or by both.
OverlapCreates ==
    {Create(s, rows, S) :
        s \in SessionIds, S \in {{"Alice"}, {"Alice", "Bob"}},
        rows \in {<<Row("Alice", "usd", 1), Row("Bob", "usd", 0)>>,
                  <<Row("Alice", "usd", 0), Row("Bob", "usd", 1)>>}}

OverlapCloses ==
    {Close(s, rows, sigs) :
        s \in SessionIds, sigs \in {<<"Alice">>, <<"Alice", "Bob">>},
        rows \in {<<Row("Alice", "usd", 1), Row("Bob", "usd", 0)>>,
                  <<Row("Bob", "usd", 1), Row("Alice", "usd", 0)>>}}

\* Either asset, rows that repeat a participant or name it in lower case.
AnyRows ==
    {<<Row(p, a, 1), Row(q, b, y)>> :
        p \in Addresses, q \in {"Alice", "Bob"}, a \in Assets, b \in Assets, y \in {0, 1}}

AnyCreates ==
    {Create("s1", rows, S) :
        rows \in AnyRows \cup {<<Row("Alice", "usd", -1), Row("Bob", "usd", 0)>>},
        S \in {{"Alice"}, {"Alice", "Bob"}}}

AnyCloses ==
    {Close("s1", rows, sigs) :
        rows \in AnyRows \cup {<<>>, <<Row("Alice", "usd", 2)>>},
        sigs \in {<<"Alice">>, <<"Alice", "Alice">>}}

\* A third address allocates to an application it is no participant of.
StrangerCreates ==
    {Create("s1", <<Row("Alice", "usd", 0), Row(p, "usd", 1)>>, {p}) : p \in {"Bob", "Carol"}}

WorkerSymmetry == Permutations(Workers)
===============================================================================
