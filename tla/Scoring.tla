-------------------------------- MODULE Scoring ---------------------------------
(***************************************************************************)
(* scoring.py, and the history a seat is shown (Engine._history_push).     *)
(*                                                                         *)
(* A hole is what its judgement leaves: for each seat the outcomes of its  *)
(* tests, in order, and its par failures.  A test of a history entry is    *)
(* its share of the entry's characters.                                    *)
(***************************************************************************)
EXTENDS Integers, Sequences, SequencesExt, FiniteSetsExt

CONSTANTS
    HistoryHoles,  \* HISTORY_HOLES
    HistoryChars   \* MAX_HISTORY_CHARS, in shares

Slots == {0, 1}
None == [hole |-> 0]
Outcomes == {"breach", "held", "illegal"}
JudgedHoles == [outcomes : [Slots -> Seq(Outcomes)], parFails : [Slots -> Nat]]

Breaches(hole, s) ==
    Cardinality({i \in DOMAIN hole.outcomes[s] : hole.outcomes[s][i] = "breach"})

HoleScore(hole) ==
    LET delta == (Breaches(hole, 0) + hole.parFails[1]) - (Breaches(hole, 1) + hole.parFails[0])
    IN [s \in Slots |-> IF s = 0 THEN delta ELSE -delta]

PerHole(holes) == [h \in DOMAIN holes |-> HoleScore(holes[h])]

Plus(a, b) == [s \in Slots |-> a[s] + b[s]]
Zero == [s \in Slots |-> 0]

MatchScores(perHole) ==
    LET total[n \in 0..Len(perHole)] ==
          IF n = 0 THEN Zero ELSE Plus(total[n - 1], perHole[n])
    IN total[Len(perHole)]

Winners(scores) == {s \in Slots : scores[s] > scores[1 - s]}

\* The shots of a match in the order they were fired.
Fired(holes, h, s) ==
    [i \in DOMAIN holes[h].outcomes[s] |->
        [hole |-> h, slot |-> s, idx |-> i, outcome |-> holes[h].outcomes[s][i]]]

AfterRound(shots, holes, h) == shots \o (Fired(holes, h, 0) \o Fired(holes, h, 1))

Shots(holes) ==
    LET shots[h \in 0..Len(holes)] ==
          IF h = 0 THEN <<>> ELSE AfterRound(shots[h - 1], holes, h)
    IN shots[Len(holes)]

\* Mutant: the last of the best.
LaterKey(a, b) == a[1] < b[1] \/ (a[1] = b[1] /\ (a[2] > b[2] \/ (a[2] = b[2] /\ a[3] > b[3])))

Before(a, b) ==
    a[1] < b[1] \/ (a[1] = b[1] /\ (a[2] < b[2] \/ (a[2] = b[2] /\ a[3] < b[3])))

\* The breach of the winner in the hole with its largest swing, the earliest
\* hole and the lowest index first.
Key(shot, perHole) == <<-perHole[shot.hole][shot.slot], shot.hole, shot.idx>>

Better(best, shot, perHole, champions) ==
    IF /\ shot.outcome = "breach" /\ shot.slot \in champions
       /\ best # None => Before(Key(shot, perHole), Key(best, perHole))
    THEN shot ELSE best

KillerTest(shots, perHole, scores) ==
    LET best[n \in 0..Len(shots)] ==
          IF n = 0 THEN None
          ELSE Better(best[n - 1], shots[n], perHole, Winners(scores))
    IN best[Len(shots)]

(***************************************************************************)
(* The history.                                                            *)
(***************************************************************************)
HistoryEntries == [rest : Nat, yours : Seq(Nat), theirs : Seq(Nat)]

Size(tests) == FoldLeft(+, 0, tests)
EntrySize(entry) == entry.rest + Size(entry.yours) + Size(entry.theirs)

\* Mutant: one's own tests go first.
PopOwnFirst(entry) ==
    IF Len(entry.yours) >= Len(entry.theirs)
    THEN [entry EXCEPT !.yours = Front(@)]
    ELSE [entry EXCEPT !.theirs = Front(@)]

Pop(entry) ==
    IF Len(entry.theirs) >= Len(entry.yours)
    THEN [entry EXCEPT !.theirs = Front(@)]
    ELSE [entry EXCEPT !.yours = Front(@)]

\* Tests are popped one by one until the entry fits, or none is left.
Trimmed(entry) ==
    LET all == Len(entry.yours) + Len(entry.theirs)
        after[n \in 0..all] == IF n = 0 THEN entry ELSE Pop(after[n - 1])
    IN after[Min({n \in 0..all : EntrySize(after[n]) <= HistoryChars} \cup {all})]

Kept(history) ==
    SubSeq(history, IF Len(history) > HistoryHoles THEN Len(history) - HistoryHoles + 1 ELSE 1,
           Len(history))

HistoryPush(history, entry) == Kept(Append(history, Trimmed(entry)))
HistoryAfter(entries) ==
    LET shown[n \in 0..Len(entries)] ==
          IF n = 0 THEN <<>> ELSE HistoryPush(shown[n - 1], entries[n])
    IN shown[Len(entries)]
================================================================================
