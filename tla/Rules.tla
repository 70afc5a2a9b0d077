---------------------------------- MODULE Rules ----------------------------------
(***************************************************************************)
(* The pure functions of the game, each against a reference definition: a  *)
(* state is one input, and stays.  Fingerprints adds the fingerprints.      *)
(***************************************************************************)
EXTENDS Values, Submission, Scoring

Conf == INSTANCE Config

CONSTANTS
    TextPool,     \* <<what is before an object, the object, what is after it>>
    ReplyPool,    \* replies of a model
    MatchPool,    \* sequences of judged holes
    EntryPool,    \* sequences of history entries
    ConfigPool    \* configuration documents

\* The cap on a message leaves room for an implementation.
ASSUME RulesAssumption ==
    /\ MaxTests \in Nat /\ MaxBytes \in Nat \ {0}
    /\ ReplyPool \subseteq ModelReplies /\ MatchPool \subseteq Seq(JudgedHoles)
    /\ HistoryHoles \in Nat \ {0} /\ HistoryChars \in Nat
    /\ EntryPool \subseteq Seq(HistoryEntries)

VARIABLE subject

Init ==
    \/ \E a, b \in ValuePool : subject = [kind |-> "values", a |-> a, b |-> b]
    \/ \E t \in TextPool : subject = [kind |-> "text", parts |-> t]
    \/ \E r \in ReplyPool, n \in 1..MaxTests : subject = [kind |-> "reply", reply |-> r, max |-> n]
    \/ \E m \in MatchPool : subject = [kind |-> "match", holes |-> m]
    \/ \E e \in EntryPool : subject = [kind |-> "history", entries |-> e]
    \/ \E d \in ConfigPool : subject = [kind |-> "config", data |-> d]

Next == UNCHANGED subject

Spec == Init /\ [][Next]_subject

Hole == 3

(***************************************************************************)
(* Values.                                                                 *)
(***************************************************************************)

\* Canonicalisation refuses exactly what has no JSON form within the depth
\* (NaN, sets, keys that are not strings), and the one equality of what it
\* lets through is equality of what the raw values stood for: 1 is 1.0 and
\* not True, a tuple is a list, and the order of keys does not matter.
EqualIsEquality ==
    subject.kind = "values" =>
        LET a == Canon(subject.a)
            b == Canon(subject.b)
        IN /\ a = Bad <=> ~Representable(subject.a)
           /\ Bad \notin {a, b} => (Equal(a, b) <=> Denoted(subject.a) = Denoted(subject.b))

(***************************************************************************)
(* Replies.                                                                *)
(***************************************************************************)

\* The span found in a text that holds a JSON object is that object: braces
\* and quotes inside its strings, and whatever follows it, do not matter.
SpanIsTheObject ==
    subject.kind = "text" =>
        LET parts == subject.parts
        IN BalancedSpan(parts[1] \o parts[2] \o parts[3]) = parts[2]

\* What the player sends passes the server's own checks, whole: it is valid
\* for its hole, fits a message, and every test it carries reaches the
\* engine.  A reply that comes to nothing has no usable implementation.
WireIsAccepted ==
    subject.kind = "reply" =>
        LET message == PlayersMessage(subject.reply, Hole)
            payload == ParseReply(subject.reply)
        IN /\ message = NoMessage =>
                  payload = NoMessage \/ payload.impl \in {"blank", "wide", "long"}
           /\ message \notin {NoMessage, RaisesTypeError} =>
                  LET clean == Sanitize(message, Hole, MaxTests)
                  IN /\ Validate(message, Hole) = "valid"
                     /\ MessageSize(message.impl, message.tests.entries) <= MaxBytes
                     /\ clean.tests = message.tests.entries /\ clean.dropped = 0

\* The server binds what the player sends to the reply it came from, read
\* again with the cap of the window, unless the player, which knows only
\* the general cap, sent more tests than the window takes: those are
\* dropped and counted on one side only.
BoundWithinTheWindow ==
    subject.kind = "reply" =>
        LET message == PlayersMessage(subject.reply, Hole)
        IN message \notin {NoMessage, RaisesTypeError} =>
               Binds(subject.reply, message, Hole, subject.max)
                   <=> Len(message.tests.entries) <= subject.max

(***************************************************************************)
(* Scores and history.                                                     *)
(***************************************************************************)

\* The killer test of the endcard is a breach by the winner, in the hole of
\* its largest swing; an earlier hole, then a lower index, goes first.
\* Without a winner, or a breach of the winner's, there is none.
KillerIsDecisive ==
    subject.kind = "match" =>
        LET holes == subject.holes
            perHole == PerHole(holes)
            shots == Shots(holes)
            champions == Winners(MatchScores(perHole))
            theirs == {n \in DOMAIN shots :
                          shots[n].slot \in champions /\ shots[n].outcome = "breach"}
            killer == KillerTest(shots, perHole, MatchScores(perHole))
            Swing(n) == perHole[shots[n].hole][shots[n].slot]
        IN IF theirs = {} THEN killer = None
           ELSE LET best == {n \in theirs : \A k \in theirs : Swing(n) >= Swing(k)}
                IN killer = shots[Min(best)]

\* An entry of the history keeps the first tests of both seats, as many as
\* fit, the longer list cut first and the opponents' at a tie.
FairCut(before, after) ==
    LET y == Len(after.yours)
        t == Len(after.theirs)
    IN /\ after.yours = SubSeq(before.yours, 1, y) /\ after.theirs = SubSeq(before.theirs, 1, t)
       /\ y < Len(before.yours) => t <= y
       /\ t < Len(before.theirs) => y <= t + 1

Cut(entry, y, t) == [entry EXCEPT !.yours = SubSeq(@, 1, y), !.theirs = SubSeq(@, 1, t)]
TestsLeft(entry) == Len(entry.yours) + Len(entry.theirs)
Fits(entry) == EntrySize(entry) <= HistoryChars
FairCuts(entry) ==
    {c \in {Cut(entry, y, t) : y \in 0..Len(entry.yours), t \in 0..Len(entry.theirs)} :
        FairCut(entry, c) /\ Fits(c)}

\* What is shown is the longest of the fair cuts that fit, or no test at all when
\* none fits.
BestCut(before, after) ==
    IF FairCuts(before) = {} THEN TestsLeft(after) = 0
    ELSE after \in FairCuts(before) /\ \A c \in FairCuts(before) : TestsLeft(c) <= TestsLeft(after)

\* A seat is shown its newest holes, in order, each within the limit and cut
\* no further than that asks (when something could still be cut).
HistoryIsRecent ==
    subject.kind = "history" =>
        LET entries == subject.entries
            shown == HistoryAfter(entries)
            skipped == Len(entries) - Len(shown)
        IN /\ Len(shown) = (IF Len(entries) < HistoryHoles THEN Len(entries) ELSE HistoryHoles)
           /\ \A i \in DOMAIN shown : BestCut(entries[skipped + i], shown[i])

(***************************************************************************)
(* Configuration.                                                          *)
(***************************************************************************)

\* Nothing in a configuration that is accepted is ignored, and its public
\* form, which is in the replay, names neither tokens nor profiles and makes
\* the same configuration again with them.
ConfigRoundTrips ==
    subject.kind = "config" /\ Conf!Accepted(subject.data) =>
        LET data == subject.data
            config == Conf!FromDict(data)
            public == Conf!ToDict(config)
            again == [k \in DOMAIN public \cup Conf!Private |->
                         IF k \in Conf!Private THEN config[k] ELSE public[k]]
        IN /\ DOMAIN data \subseteq DOMAIN config \cup {"num_agents"}
           /\ \A k \in DOMAIN data \ {"num_agents", "deck"} : config[k][2] = data[k][2]
           /\ DOMAIN public \cap Conf!Private = {}
           /\ Conf!Accepted(again) /\ Conf!FromDict(again) = config
================================================================================
