---------------------------- MODULE HoleLoopProofs -----------------------------
(***************************************************************************)
(* Theorems about HoleLoop, for any number of holes, submissions and par   *)
(* tests, and any clock settings.                                          *)
(***************************************************************************)
EXTENDS HoleLoop, FiniteSetTheorems, WellFoundedInduction, TLAPS

(***************************************************************************)
(* The waits.                                                              *)
(***************************************************************************)
LEMMA MinOfTwo ==
    ASSUME NEW a \in Int, NEW b \in Int
    PROVE  Min({a, b}) = IF a <= b THEN a ELSE b
<1>1. \A x \in {a, b} : (\A y \in {a, b} : x <= y) <=> x = IF a <= b THEN a ELSE b
  OBVIOUS
<1> QED
  BY <1>1 DEF Min

LEMMA MaxOfTwo ==
    ASSUME NEW a \in Int, NEW b \in Int
    PROVE  Max({a, b}) = IF a >= b THEN a ELSE b
<1>1. \A x \in {a, b} : (\A y \in {a, b} : x >= y) <=> x = IF a >= b THEN a ELSE b
  OBVIOUS
<1> QED
  BY <1>1 DEF Max

LEMMA ClockConstants ==
    /\ Holes \in Nat /\ ParTests \in Nat
    /\ Budget \in Nat /\ Reserve \in Nat /\ Spacing \in Nat /\ ConnectWait \in Nat
    /\ ReportTime \in Nat /\ HoleWait \in Nat /\ RetryWait \in Nat /\ MinWait \in Nat
    /\ BatchTime \in Nat
BY HoleLoopAssumption DEF Times

\* A wait lasts at most its deadline, and leaves no less than nothing of the
\* clock, or than the shortest wait takes of it.
LEMMA WaitBounds ==
    ASSUME NEW l \in Int
    PROVE  LET again == AgainWait(l) IN
           /\ again \in Nat
           /\ again <= RetryWait
           /\ l - again >= 0 \/ l - again >= l - MinWait
<1>1. Max({MinWait, l}) = IF MinWait >= l THEN MinWait ELSE l
  BY MaxOfTwo, ClockConstants
<1>2. AgainWait(l) = IF RetryWait <= Max({MinWait, l}) THEN RetryWait ELSE Max({MinWait, l})
  BY <1>1, MinOfTwo, ClockConstants DEF AgainWait
<1> QED
  BY <1>1, <1>2, ClockConstants

LEMMA FirstWaitBounds ==
    ASSUME left \in Int
    PROVE  /\ FirstWait \in Nat
           /\ FirstWait <= HoleWait
           /\ left - FirstWait >= 0 \/ left - FirstWait >= left - MinWait
<1>1. Max({MinWait, left}) = IF MinWait >= left THEN MinWait ELSE left
  BY MaxOfTwo, ClockConstants
<1>2. FirstWait = IF HoleWait <= Max({MinWait, left}) THEN HoleWait ELSE Max({MinWait, left})
  BY <1>1, MinOfTwo, ClockConstants DEF FirstWait
<1> QED
  BY <1>1, <1>2, ClockConstants

LEMMA SpaceWaitType ==
    ASSUME left \in Int, lastReveal \in Int
    PROVE  SpaceWait \in Int
<1>1. Spacing - (lastReveal - left) \in Int
  BY ClockConstants
<1>2. Max({0, Spacing - (lastReveal - left)}) \in Int
  BY <1>1, MaxOfTwo
<1> QED
  BY <1>2 DEF SpaceWait

LEMMA SpaceWaitBounds ==
    ASSUME left \in Int, lastReveal \in Int, left <= lastReveal
    PROVE  SpaceWait \in 0..Spacing
<1>1. Spacing - (lastReveal - left) \in Int /\ Spacing - (lastReveal - left) <= Spacing
  BY ClockConstants
<1>2. Max({0, Spacing - (lastReveal - left)}) =
        IF 0 >= Spacing - (lastReveal - left) THEN 0 ELSE Spacing - (lastReveal - left)
  BY <1>1, MaxOfTwo
<1> QED
  BY <1>1, <1>2, ClockConstants DEF SpaceWait

LEMMA ConnectBounds ==
    ASSUME NEW missing \in SUBSET Seats,
           NEW d \in 0..(Min({ConnectWait, Budget}) + ReportTime * Cardinality(missing))
    PROVE  d \in Nat
<1>1. Min({ConnectWait, Budget}) \in Nat
  BY MinOfTwo, ClockConstants
<1>2. Cardinality(missing) \in Nat
  <2>1. IsFiniteSet(Seats)
    <3>1. Seats = {0} \cup {1}
      BY DEF Seats
    <3> QED
      BY <3>1, FS_Singleton, FS_AddElement
  <2>2. IsFiniteSet(missing)
    BY <2>1, FS_Subset
  <2> QED
    BY <2>2, FS_CardinalityType
<1>3. ReportTime * Cardinality(missing) \in Nat
  BY <1>2, ClockConstants
<1> QED
  BY <1>1, <1>3

(***************************************************************************)
(* What is counted in a hole.                                              *)
(***************************************************************************)
LEMMA JudgedType ==
    ASSUME NEW sub \in Submissions \cup {<<>>}, NEW r \in Judged(sub)
    PROVE  r \in Seq(Reasons)
<1>1. sub \in Seq(Test)
  <2>1. CASE sub \in Submissions
    BY <2>1, HoleLoopAssumption
  <2>2. CASE sub = <<>>
    BY <2>2
  <2> QED
    BY <2>1, <2>2
<1>2. PICK answer \in [DOMAIN sub -> RefAnswers] : r = [i \in DOMAIN sub |-> Reason(sub, answer, i)]
  BY DEF Judged
<1>3. \A i \in DOMAIN sub : Reason(sub, answer, i) \in Reasons
  <2> SUFFICES ASSUME NEW i \in DOMAIN sub PROVE Reason(sub, answer, i) \in Reasons
    OBVIOUS
  <2>1. sub[i].form \in BadForms \cup {"ok"}
    <3>1. sub[i] \in Test
      BY <1>1
    <3> QED
      BY <3>1 DEF Test
  <2>2. answer[i] \in Answers
    BY HoleLoopAssumption
  <2> QED
    BY <2>1, <2>2 DEF Reason, Reasons, Answers
<1> QED
  BY <1>1, <1>2, <1>3

LEMMA LegalCount ==
    ASSUME legality \in [Seats -> Seq(Reasons)], NEW s \in Seats
    PROVE  /\ Legal(s) \in SUBSET Nat
           /\ IsFiniteSet(Legal(s))
           /\ Cardinality(Legal(s)) \in Nat
           /\ Len(legality[s]) \in Nat
           /\ Len(legality[s]) - Cardinality(Legal(s)) \in Nat
<1>1. Len(legality[s]) \in Nat /\ Legal(s) \in SUBSET (1..Len(legality[s]))
  BY DEF Legal
<1>2. IsFiniteSet(1..Len(legality[s])) /\ Cardinality(1..Len(legality[s])) = Len(legality[s])
  BY <1>1, FS_Interval
<1>3. IsFiniteSet(Legal(s)) /\ Cardinality(Legal(s)) <= Len(legality[s])
  BY <1>1, <1>2, FS_Subset
<1>4. Cardinality(Legal(s)) \in Nat
  BY <1>3, FS_CardinalityType
<1> QED
  BY <1>1, <1>3, <1>4

LEMMA BreachesType ==
    ASSUME legality \in [Seats -> Seq(Reasons)], NEW s \in Seats
    PROVE  Breaches(s) \in Nat
<1>1. IsFiniteSet(Legal(s))
  BY LegalCount
<1>2. IsFiniteSet(Legal(s) \ batch[Other(s)].held)
  BY <1>1, FS_Subset
<1> QED
  BY <1>2, FS_CardinalityType DEF Breaches

LEMMA ParFailsType ==
    ASSUME NEW s \in Seats
    PROVE  ParFails(s) \in Nat
<1>1. IsFiniteSet(Pars)
  BY FS_Interval, ClockConstants DEF Pars
<1>2. IsFiniteSet(Pars \ batch[s].passed)
  BY <1>1, FS_Subset
<1> QED
  BY <1>2, FS_CardinalityType DEF ParFails

\* hole_score is zero-sum, and each seat's share of it is what it broke and
\* the other failed, less what was broken of it and it failed.
LEMMA ScoreShares ==
    ASSUME legality \in [Seats -> Seq(Reasons)]
    PROVE  /\ Score \in [Seats -> Int]
           /\ \A s \in Seats :
                Score[s] = (Breaches(s) + ParFails(Other(s))) - (Breaches(Other(s)) + ParFails(s))
<1> DEFINE b == [s \in Seats |-> Breaches(s)]
           p == [s \in Seats |-> ParFails(s)]
           delta == (b[0] + p[1]) - (b[1] + p[0])
<1>1. /\ 0 \in Seats /\ 1 \in Seats /\ Other(0) = 1 /\ Other(1) = 0
      /\ \A s \in Seats : s = 0 \/ s = 1
  BY DEF Seats, Other
<1>2. /\ Breaches(0) \in Nat /\ Breaches(1) \in Nat
      /\ ParFails(0) \in Nat /\ ParFails(1) \in Nat
  BY <1>1, BreachesType, ParFailsType
<1>3. b[0] = Breaches(0) /\ b[1] = Breaches(1) /\ p[0] = ParFails(0) /\ p[1] = ParFails(1)
  BY <1>1
<1>4. Score = [s \in Seats |-> IF s = 0 THEN delta ELSE -delta]
  BY DEF Score, HoleScore
<1> HIDE DEF b, p
<1>5. delta = (Breaches(0) + ParFails(1)) - (Breaches(1) + ParFails(0)) /\ delta \in Int
  BY <1>2, <1>3
<1> HIDE DEF delta
<1> QED
  BY <1>1, <1>2, <1>4, <1>5

LEMMA OtherSeat == \A s \in Seats : Other(s) \in Seats
BY DEF Seats, Other

LEMMA TallySum ==
    ASSUME NEW t \in Tally, NEW score \in Int, NEW b \in Nat, NEW taken \in Nat,
           NEW p \in Nat, NEW f \in Nat, NEW i \in Nat
    PROVE  [t EXCEPT !.score = @ + score, !.breaches = @ + b, !.taken = @ + taken,
                     !.parFails = @ + p, !.fired = @ + f, !.illegal = @ + i] \in Tally
<1>1. /\ t.score + score \in Int /\ t.breaches + b \in Nat /\ t.taken + taken \in Nat
      /\ t.parFails + p \in Nat /\ t.fired + f \in Nat /\ t.illegal + i \in Nat
  BY DEF Tally
<1>2. \A a \in Int, c, d, e, g, h \in Nat :
        [t EXCEPT !.score = a, !.breaches = c, !.taken = d,
                  !.parFails = e, !.fired = g, !.illegal = h] \in Tally
  BY DEF Tally
<1> QED
  BY <1>1, <1>2

LEMMA TalliedType ==
    ASSUME legality \in [Seats -> Seq(Reasons)], tallies \in [Seats -> Tally], NEW s \in Seats
    PROVE  Tallied(s) \in Tally
<1>1. Breaches(s) \in Nat /\ Breaches(Other(s)) \in Nat
  BY BreachesType, OtherSeat
<1>2. ParFails(s) \in Nat /\ Score[s] \in Int
  BY ParFailsType, ScoreShares
<1>3. Cardinality(Legal(s)) \in Nat /\ Len(legality[s]) - Cardinality(Legal(s)) \in Nat
  BY LegalCount
<1> QED
  BY <1>1, <1>2, <1>3, TallySum DEF Tallied

LEMMA RecordedType ==
    ASSUME TypeOK, NEW s \in Seats
    PROVE  Recorded(s) \in SeatRecord
<1>1. legality[s] \in Seq(Reasons) /\ legality \in [Seats -> Seq(Reasons)]
  BY DEF TypeOK
<1>2. [i \in DOMAIN legality[s] |->
          IF i \notin Legal(s) THEN "illegal"
          ELSE IF i \in batch[Other(s)].held THEN "held" ELSE "breach"] \in Seq(Shots)
  BY <1>1 DEF Shots
<1>3. fallback[s] \in BOOLEAN /\ batch[s].broken \in BOOLEAN
  BY DEF TypeOK, Result
<1>4. ParFails(s) \in Nat /\ Score[s] \in Int
  BY <1>1, ParFailsType, ScoreShares
<1> QED
  BY <1>2, <1>3, <1>4 DEF Recorded, SeatRecord

(***************************************************************************)
(* Type correctness, with the counters of holes: in a hole, the current    *)
(* one is the next to be played.                                           *)
(***************************************************************************)
InHole == phase \in {"collecting", "checking", "firing", "faulted"}
AtRest == phase \in {"connecting", "between", "complete", "deadline"}

Counted ==
    /\ AtRest => holesPlayed = hole
    /\ InHole => hole = holesPlayed + 1
    /\ InHole \/ AtRest => Len(perHole) = holesPlayed
    /\ phase = "connecting" => hole = 0
    /\ phase = "complete" => holesPlayed = Holes
    /\ phase = "deadline" => holesPlayed < Holes
    /\ CompleteWhenAllPlayed

Typed == TypeOK /\ Counted

LEMMA TypedInit == Init => Typed
<1> SUFFICES ASSUME Init PROVE Typed
  OBVIOUS
<1>1. NoTally \in Tally
  BY DEF NoTally, Tally
<1>2. NoResult \in Result
  BY DEF NoResult, Result
<1>3. NoTests \in [Seats -> Submissions \cup {<<>>}] /\ NoTests \in [Seats -> Seq(Reasons)]
  BY DEF NoTests
<1>4. TypeOK
  BY <1>1, <1>2, <1>3, ClockConstants
     DEF Init, TypeOK, Phases, NoFallback, NoRuns, NoBatch
<1>5. Counted
  BY DEF Init, Counted, InHole, AtRest, CompleteWhenAllPlayed
<1> QED
  BY <1>4, <1>5 DEF Typed

LEMMA TypedLoop ==
    ASSUME Typed, AwaitConnections \/ BeginHole \/ StopAtDeadline \/ Complete
    PROVE  Typed'
<1> USE ClockConstants DEF Typed, TypeOK, Counted, InHole, AtRest, Phases, Ended, limits, play,
                           ledger, CompleteWhenAllPlayed
<1>1. CASE AwaitConnections
  <2>1. left' \in Int
    BY <1>1, ConnectBounds DEF AwaitConnections
  <2> QED
    BY <1>1, <2>1 DEF AwaitConnections
<1>2. CASE BeginHole
  <2>1. SpaceWait \in Int
    BY SpaceWaitType
  <2> QED
    BY <1>2, <2>1 DEF BeginHole, NextHole
<1>3. CASE StopAtDeadline
  BY <1>3 DEF StopAtDeadline
<1>4. CASE Complete
  BY <1>4 DEF Complete
<1> QED
  BY <1>1, <1>2, <1>3, <1>4

LEMMA CollectTimes ==
    ASSUME left \in Int, NEW d \in 0..FirstWait, NEW retried \in BOOLEAN,
           NEW e \in 0..(IF retried THEN AgainWait(left - d) ELSE 0)
    PROVE  /\ left - d - e \in Int
           /\ left - d - e >= left - HoleWait - RetryWait
           /\ left - d - e >= -MinWait \/ left - d - e >= left - 2 * MinWait
<1>1. /\ d \in Nat /\ d <= FirstWait /\ FirstWait \in Nat /\ FirstWait <= HoleWait
      /\ left - FirstWait >= 0 \/ left - FirstWait >= left - MinWait
  BY FirstWaitBounds
<1>2. left - d \in Int
  BY <1>1
<1>3. /\ AgainWait(left - d) \in Nat
      /\ AgainWait(left - d) <= RetryWait
      /\ (left - d) - AgainWait(left - d) >= 0
           \/ (left - d) - AgainWait(left - d) >= (left - d) - MinWait
  BY <1>2, WaitBounds
<1>4. e \in Nat /\ (e <= AgainWait(left - d) \/ e = 0)
  BY <1>3
<1>5. left - d >= left - HoleWait /\ (left - d >= 0 \/ left - d >= left - MinWait)
  BY <1>1, ClockConstants
<1>6. /\ (left - d) - e >= (left - d) - RetryWait
      /\ (left - d) - e >= 0 \/ (left - d) - e >= (left - d) - MinWait
  BY <1>2, <1>3, <1>4, ClockConstants
<1>7. left - d - e \in Int /\ left - d - e = (left - d) - e
  BY <1>2, <1>4
<1> QED
  BY <1>2, <1>5, <1>6, <1>7, ClockConstants

LEMMA TypedCollect ==
    ASSUME Typed, Collect
    PROVE  Typed'
<1> USE DEF Typed, TypeOK, Counted, InHole, AtRest, Phases, Ended, CompleteWhenAllPlayed
<1>1. left' \in Int
  BY CollectTimes DEF Collect
<1>2. fallback' \in [Seats -> BOOLEAN]
  BY DEF Collect
<1>3. \A s \in Seats :
        [tallies[s] EXCEPT !.fallbacks = @ + IF fallback'[s] THEN 1 ELSE 0] \in Tally
  <2>1. \A t \in Tally, n \in {0, 1} : [t EXCEPT !.fallbacks = @ + n] \in Tally
    <3>1. \A t \in Tally, n \in {0, 1} : t.fallbacks + n \in Nat
      BY DEF Tally
    <3>2. \A t \in Tally, n \in Nat : [t EXCEPT !.fallbacks = n] \in Tally
      BY DEF Tally
    <3> QED
      BY <3>1, <3>2
  <2>2. \A s \in Seats : tallies[s] \in Tally /\ (IF fallback'[s] THEN 1 ELSE 0) \in {0, 1}
    OBVIOUS
  <2> QED
    BY <2>1, <2>2
<1>4. tallies' \in [Seats -> Tally]
  BY <1>3 DEF Collect
<1> QED
  BY <1>1, <1>2, <1>4 DEF Collect

LEMMA TypedSandbox ==
    ASSUME Typed, Check \/ CheckFault \/ (\E d \in Seats : RunEnds(d) \/ RunFault(d))
    PROVE  Typed'
<1> USE DEF Typed, TypeOK, Counted, InHole, AtRest, Phases, Ended, limits, play, ledger,
            CompleteWhenAllPlayed
<1>1. CASE Check
  <2>1. legality' \in [Seats -> Seq(Reasons)]
    <3>1. PICK r0 \in Judged(submissions[0]), r1 \in Judged(submissions[1]) :
             legality' = [s \in Seats |-> IF s = 0 THEN r0 ELSE r1]
      BY <1>1 DEF Check
    <3>2. submissions[0] \in Submissions \cup {<<>>} /\ submissions[1] \in Submissions \cup {<<>>}
      BY DEF Seats
    <3>3. r0 \in Seq(Reasons) /\ r1 \in Seq(Reasons)
      BY <3>2, JudgedType
    <3> QED
      BY <3>1, <3>3
  <2>2. left' \in Int
    BY <1>1, ClockConstants DEF Check
  <2> QED
    BY <1>1, <2>1, <2>2 DEF Check
<1>2. CASE CheckFault
  BY <1>2 DEF CheckFault
<1>3. ASSUME NEW d \in Seats, RunEnds(d)
      PROVE  Typed'
  <2>1. PICK broken \in BOOLEAN, held \in SUBSET Legal(Other(d)), passed \in SUBSET Pars :
           batch' = [batch EXCEPT ![d] = [broken |-> broken, held |-> held, passed |-> passed]]
    BY <1>3 DEF RunEnds
  <2>2. Legal(Other(d)) \in SUBSET Nat
    BY LegalCount, OtherSeat
  <2>3. [broken |-> broken, held |-> held, passed |-> passed] \in Result
    BY <2>2 DEF Result
  <2> QED
    BY <1>3, <2>1, <2>3 DEF RunEnds
<1>4. ASSUME NEW d \in Seats, RunFault(d)
      PROVE  Typed'
  BY <1>4 DEF RunFault
<1> QED
  BY <1>1, <1>2, <1>3, <1>4

LEMMA ForgetType ==
    ASSUME Forget
    PROVE  /\ submissions' \in [Seats -> Submissions \cup {<<>>}]
           /\ fallback' \in [Seats -> BOOLEAN]
           /\ legality' \in [Seats -> Seq(Reasons)]
           /\ runs' \in [Seats -> {"idle", "running", "done", "failed"}]
           /\ batch' \in [Seats -> Result]
<1>1. NoResult \in Result
  BY DEF NoResult, Result
<1> QED
  BY <1>1 DEF Forget, NoTests, NoFallback, NoRuns, NoBatch

LEMMA TypedApplied ==
    ASSUME Typed, ApplyHole \/ ApplyRaises
    PROVE  Typed'
<1> USE DEF Typed, TypeOK
<1>1. tallies' \in [Seats -> Tally]
  BY TalliedType DEF ApplyHole, ApplyRaises
<1>2. perHole' \in Seq([Seats -> Int]) /\ Len(perHole') = Len(perHole) + 1
  <2>1. Score \in [Seats -> Int]
    BY ScoreShares
  <2>2. perHole \in Seq([Seats -> Int])
    OBVIOUS
  <2>3. perHole' = Append(perHole, Score)
    BY DEF ApplyHole, ApplyRaises
  <2> HIDE DEF Typed, TypeOK
  <2> QED
    BY <2>1, <2>2, <2>3
<1>3. CASE ApplyHole
  <2>1. hole \in 1..Holes /\ hole = holesPlayed + 1 /\ Len(perHole') = hole
    BY <1>2, <1>3, ClockConstants DEF ApplyHole, Fired, Counted, InHole
  <2>2. [hole |-> hole, seats |-> [s \in Seats |-> Recorded(s)]] \in HoleRecord
    BY <2>1, RecordedType DEF HoleRecord
  <2>3. replay' \in Seq(HoleRecord)
    BY <1>3, <2>2 DEF ApplyHole
  <2>4. left' \in Int
    BY <1>3, ClockConstants DEF ApplyHole
  <2>5. TypeOK'
    BY <1>1, <1>2, <1>3, <2>3, <2>4, ForgetType DEF ApplyHole, Phases, Ended
  <2>6. Counted'
    BY <1>3, <2>1, ClockConstants
       DEF ApplyHole, Fired, Counted, InHole, AtRest, OutOfTime, CompleteWhenAllPlayed
  <2> QED
    BY <2>5, <2>6
<1>4. CASE ApplyRaises
  <2>1. TypeOK'
    BY <1>1, <1>2, <1>4, ForgetType DEF ApplyRaises, Phases, limits
  <2>2. Counted'
    BY <1>4 DEF ApplyRaises, Counted, InHole, AtRest, CompleteWhenAllPlayed
  <2> QED
    BY <2>1, <2>2
<1> QED
  BY <1>3, <1>4

LEMMA TypedEnding ==
    ASSUME Typed, Interrupted \/ Publish \/ Withhold
    PROVE  Typed'
<1> USE DEF Typed, TypeOK, Counted, InHole, AtRest, Phases, Ended, limits, play, ledger
<1>1. CASE Publish
  <2>1. DocHoles \in Nat
    BY ClockConstants DEF DocHoles
  <2>2. [reason |-> phase, holes |-> DocHoles, tallies |-> tallies] \in Document
    BY <1>1, <2>1 DEF Publish, Document
  <2>3. phase = "complete" <=> DocHoles = Holes
    BY <1>1, ClockConstants DEF Publish, DocHoles
  <2>4. CompleteWhenAllPlayed'
    BY <1>1, <2>3 DEF Publish, CompleteWhenAllPlayed
  <2> QED
    BY <1>1, <2>2, <2>4 DEF Publish
<1>2. CASE Interrupted
  BY <1>2 DEF Interrupted, CompleteWhenAllPlayed
<1>3. CASE Withhold
  BY <1>3 DEF Withhold, CompleteWhenAllPlayed
<1> QED
  BY <1>1, <1>2, <1>3

LEMMA TypedNext == Typed /\ [Next]_vars => Typed'
<1> SUFFICES ASSUME Typed, [Next]_vars PROVE Typed'
  OBVIOUS
<1>1. CASE UNCHANGED vars
  BY <1>1 DEF vars, limits, play, ledger, Typed, TypeOK, Counted, InHole, AtRest,
              CompleteWhenAllPlayed
<1> QED
  BY <1>1, TypedLoop, TypedCollect, TypedSandbox, TypedApplied, TypedEnding
     DEF Next, Engine, Terminated

LEMMA TypedHolds == Spec => []Typed
<1> QED
  BY TypedInit, TypedNext, PTL DEF Spec

\* Every variable keeps its type: no tally of a seat is ever negative but its
\* score, and no hole is recorded beyond the last.
THEOREM TypeCorrect == Spec => []TypeOK
<1>1. Typed => TypeOK
  BY DEF Typed
<1> QED
  BY <1>1, TypedHolds, PTL

\* A published match is said to be complete exactly when all its holes are
\* counted, through a fault or a deadline in the last hole too.
THEOREM CompletionIsTrue == Spec => []CompleteWhenAllPlayed
<1>1. Typed => CompleteWhenAllPlayed
  BY DEF Typed, Counted
<1> QED
  BY <1>1, TypedHolds, PTL

(***************************************************************************)
(* The wall clock.  What is left of it is bounded phase by phase; a hole   *)
(* begins with at least the reserve, less the gap before its reveal; what  *)
(* follows takes its waits from that, or the shortest ones.                *)
(***************************************************************************)
LeastAtReveal == -Spacing
LeastCollected == LeastAtReveal - 2 * MinWait
LeastChecked == LeastCollected - BatchTime
LeastFired == LeastChecked - BatchTime

ClockInv ==
    /\ left <= lastReveal
    /\ phase = "collecting" => left >= LeastAtReveal
    /\ phase = "checking" => left >= LeastCollected
    /\ phase = "firing" => left >= LeastChecked
    /\ hole > 0 => left >= LeastFired

Shortfall == Reserve - (Spacing + HoleWait + RetryWait + 2 * BatchTime)

BudgetInv ==
    /\ phase = "collecting" => left >= Shortfall + HoleWait + RetryWait + 2 * BatchTime
    /\ phase = "checking" => left >= Shortfall + 2 * BatchTime
    /\ phase = "firing" => left >= Shortfall + BatchTime
    /\ hole > 0 => left >= Shortfall

LEMMA LeastOrder ==
    /\ LeastAtReveal \in Int /\ LeastCollected \in Int /\ LeastChecked \in Int
    /\ LeastFired \in Int /\ Shortfall \in Int
    /\ Shortfall + HoleWait + RetryWait + 2 * BatchTime = Reserve - Spacing
    /\ LeastAtReveal = -Spacing
    /\ LeastCollected = -Spacing - 2 * MinWait
    /\ LeastChecked = -Spacing - 2 * MinWait - BatchTime
    /\ LeastFired = -(Spacing + 2 * MinWait + 2 * BatchTime)
BY ClockConstants DEF LeastAtReveal, LeastCollected, LeastChecked, LeastFired, Shortfall

LEMMA ClockInit == Init => ClockInv /\ BudgetInv
BY ClockConstants DEF Init, ClockInv, BudgetInv

LEMMA ClockKept ==
    ASSUME Typed, ClockInv, BudgetInv, UNCHANGED limits, UNCHANGED hole,
           UNCHANGED phase \/ phase' \notin {"collecting", "checking", "firing"}
    PROVE  (ClockInv /\ BudgetInv)'
BY DEF ClockInv, BudgetInv, limits, Shortfall, LeastAtReveal, LeastCollected, LeastChecked,
       LeastFired

LEMMA ClockNext == Typed /\ ClockInv /\ BudgetInv /\ [Next]_vars => (ClockInv /\ BudgetInv)'
<1> SUFFICES ASSUME Typed, ClockInv, BudgetInv, [Next]_vars PROVE (ClockInv /\ BudgetInv)'
  OBVIOUS
<1> USE ClockConstants, LeastOrder
<1>1. left \in Int /\ lastReveal \in Int /\ hole \in Nat /\ left <= lastReveal
  BY DEF Typed, TypeOK, ClockInv
<1>2. CASE AwaitConnections
  <2>1. PICK d \in Nat : left' = left - d
    BY <1>2, ConnectBounds DEF AwaitConnections
  <2> QED
    BY <1>1, <1>2, <2>1 DEF AwaitConnections, ClockInv, BudgetInv, Typed, Counted
<1>3. CASE BeginHole
  <2>1. SpaceWait \in 0..Spacing
    BY <1>1, SpaceWaitBounds
  <2>2. left >= Reserve /\ left' = left - SpaceWait /\ lastReveal' = left' /\ phase' = "collecting"
    BY <1>3 DEF BeginHole, HoleFits
  <2>3. left' >= Reserve - Spacing /\ left' \in Int
    BY <1>1, <2>1, <2>2
  <2>4. left' >= Shortfall + HoleWait + RetryWait + 2 * BatchTime
    BY <2>3
  <2> QED
    BY <2>2, <2>3, <2>4 DEF ClockInv, BudgetInv
<1>4. CASE Collect
  <2>1. PICK d \in 0..FirstWait, retried \in BOOLEAN :
        \E e \in 0..(IF retried THEN AgainWait(left - d) ELSE 0) : left' = left - d - e
    BY <1>4 DEF Collect
  <2>2. PICK e \in 0..(IF retried THEN AgainWait(left - d) ELSE 0) : left' = left - d - e
    BY <2>1
  <2>3. /\ left' \in Int
        /\ left' >= left - HoleWait - RetryWait
        /\ left' >= -MinWait \/ left' >= left - 2 * MinWait
    BY <1>1, <2>2, CollectTimes
  <2>4. left' <= left
    <3>1. d \in Nat
      BY <1>1, FirstWaitBounds
    <3>2. e \in Nat
      BY <1>1, <3>1, WaitBounds
    <3> QED
      BY <1>1, <2>2, <3>1, <3>2
  <2>5. left >= LeastAtReveal /\ left >= Shortfall + HoleWait + RetryWait + 2 * BatchTime
    BY <1>4 DEF Collect, ClockInv, BudgetInv
  <2>6. phase' = "checking" /\ hole' = hole /\ lastReveal' = lastReveal
    BY <1>4 DEF Collect
  <2>7. left' >= LeastCollected
    BY <1>1, <2>3, <2>5
  <2>8. left' >= Shortfall + 2 * BatchTime
    BY <1>1, <2>3, <2>5
  <2> QED
    BY <1>1, <2>3, <2>4, <2>6, <2>7, <2>8 DEF ClockInv, BudgetInv
<1>5. CASE Check
  <2>1. PICK d \in 0..BatchTime : left' = left - d
    BY <1>5 DEF Check
  <2> QED
    BY <1>1, <1>5, <2>1 DEF Check, ClockInv, BudgetInv
<1>6. CASE ApplyHole
  <2>1. PICK d \in 0..BatchTime : left' = left - d
    BY <1>6 DEF ApplyHole
  <2>2. phase' \in {"deadline", "between"} /\ hole' = hole /\ lastReveal' = lastReveal
    BY <1>6 DEF ApplyHole
  <2>3. left >= LeastChecked /\ left >= Shortfall + BatchTime
    BY <1>6 DEF ApplyHole, Fired, ClockInv, BudgetInv
  <2> QED
    BY <1>1, <2>1, <2>2, <2>3 DEF ClockInv, BudgetInv
<1>7. CASE StopAtDeadline \/ Complete \/ CheckFault \/ ApplyRaises \/ Publish \/ Withhold
           \/ Interrupted
  BY <1>7, ClockKept DEF StopAtDeadline, Complete, CheckFault, ApplyRaises, Publish, Withhold,
                         Interrupted
<1>8. ASSUME NEW d \in Seats, RunEnds(d) \/ RunFault(d)
      PROVE  (ClockInv /\ BudgetInv)'
  BY <1>8, ClockKept DEF RunEnds, RunFault
<1>9. CASE UNCHANGED vars
  BY <1>9, ClockKept DEF vars
<1> QED
  BY <1>2, <1>3, <1>4, <1>5, <1>6, <1>7, <1>8, <1>9 DEF Next, Engine, Terminated

LEMMA ClockHolds == Spec => [](ClockInv /\ BudgetInv)
<1>1. Init => Typed /\ ClockInv /\ BudgetInv
  BY TypedInit, ClockInit
<1>2. Typed /\ ClockInv /\ BudgetInv /\ [Next]_vars => (Typed /\ ClockInv /\ BudgetInv)'
  BY TypedNext, ClockNext
<1> QED
  BY <1>1, <1>2, PTL DEF Spec

\* A hole that is started overruns the budget by no more than the reserve lacks,
\* and, whatever the configuration, by no more than what no deadline cuts.
THEOREM BudgetIsKept == Spec => []BudgetKept
<1>1. ClockInv /\ BudgetInv => BudgetKept
  BY LeastOrder DEF ClockInv, BudgetInv, BudgetKept, Shortfall
<1> QED
  BY <1>1, ClockHolds, PTL

(***************************************************************************)
(* Scores.                                                                 *)
(***************************************************************************)
LEMMA ScoresInit == Init => ScoresFollowTallies
BY DEF Init, ScoresFollowTallies, NoTally, Seats, Other

LEMMA ScoresApplied ==
    ASSUME Typed, ScoresFollowTallies, tallies' = [s \in Seats |-> Tallied(s)]
    PROVE  ScoresFollowTallies'
<1>1. legality \in [Seats -> Seq(Reasons)] /\ tallies \in [Seats -> Tally]
  BY DEF Typed, TypeOK
<1> SUFFICES ASSUME NEW s \in Seats
             PROVE  LET us == tallies'[s] them == tallies'[Other(s)] IN
                    /\ us.taken = them.breaches
                    /\ us.score = (us.breaches + them.parFails) - (them.breaches + us.parFails)
  BY DEF ScoresFollowTallies
<1> DEFINE o == Other(s)
<1>2. o \in Seats /\ Other(o) = s
  BY DEF Seats, Other
<1>3. /\ Breaches(s) \in Nat /\ Breaches(o) \in Nat
      /\ ParFails(s) \in Nat /\ ParFails(o) \in Nat
  BY <1>1, <1>2, BreachesType, ParFailsType
<1>4. Score[s] = (Breaches(s) + ParFails(o)) - (Breaches(o) + ParFails(s))
  BY <1>1, ScoreShares
<1>5. /\ tallies'[s].taken = tallies[s].taken + Breaches(o)
      /\ tallies'[s].score = tallies[s].score + Score[s]
      /\ tallies'[s].breaches = tallies[s].breaches + Breaches(s)
      /\ tallies'[s].parFails = tallies[s].parFails + ParFails(s)
  BY <1>1 DEF Tallied, Tally
<1>6. /\ tallies'[o].breaches = tallies[o].breaches + Breaches(o)
      /\ tallies'[o].parFails = tallies[o].parFails + ParFails(o)
  BY <1>1, <1>2 DEF Tallied, Tally
<1>7. /\ tallies[s].taken = tallies[o].breaches
      /\ tallies[s].score = (tallies[s].breaches + tallies[o].parFails)
                              - (tallies[o].breaches + tallies[s].parFails)
  BY DEF ScoresFollowTallies
<1>8. /\ tallies[s].breaches \in Nat /\ tallies[o].breaches \in Nat
      /\ tallies[s].parFails \in Nat /\ tallies[o].parFails \in Nat
  BY <1>1, <1>2 DEF Tally
<1> HIDE DEF o
<1> QED
  BY <1>3, <1>4, <1>5, <1>6, <1>7, <1>8 DEF o

LEMMA ScoresNext == Typed /\ ScoresFollowTallies /\ [Next]_vars => ScoresFollowTallies'
<1> SUFFICES ASSUME Typed, ScoresFollowTallies, [Next]_vars PROVE ScoresFollowTallies'
  OBVIOUS
<1>1. CASE ApplyHole \/ ApplyRaises
  BY <1>1, ScoresApplied DEF ApplyHole, ApplyRaises
<1>2. CASE Collect
  <2>1. \A s \in Seats :
          /\ tallies'[s].taken = tallies[s].taken
          /\ tallies'[s].score = tallies[s].score
          /\ tallies'[s].breaches = tallies[s].breaches
          /\ tallies'[s].parFails = tallies[s].parFails
    BY <1>2 DEF Collect, Typed, TypeOK, Tally
  <2> QED
    BY <2>1, OtherSeat DEF ScoresFollowTallies
<1>3. CASE UNCHANGED tallies
  BY <1>3 DEF ScoresFollowTallies
<1> QED
  BY <1>1, <1>2, <1>3
     DEF Next, Engine, Terminated, AwaitConnections, BeginHole, StopAtDeadline, Complete, Check,
         CheckFault, RunEnds, RunFault, Interrupted, Publish, Withhold, vars, ledger

\* A match's scores follow from its tallies, and so are zero-sum, after every
\* hole and in whatever way the episode ends.
THEOREM ScoresFollow == Spec => []ScoresFollowTallies
<1>1. Init => Typed /\ ScoresFollowTallies
  BY TypedInit, ScoresInit
<1>2. Typed /\ ScoresFollowTallies /\ [Next]_vars => (Typed /\ ScoresFollowTallies)'
  BY TypedNext, ScoresNext
<1> QED
  BY <1>1, <1>2, PTL DEF Spec

(***************************************************************************)
(* Duplicates.                                                             *)
(***************************************************************************)
LEMMA LeastNumber ==
    ASSUME NEW T \in SUBSET Nat, T # {}
    PROVE  \E m \in T : \A x \in T : m <= x
<1> DEFINE R == OpToRel(<, Nat)
<1>1. IsWellFoundedOn(R, Nat)
  BY NatLessThanWellFounded
<1>2. \A x, y \in Nat : <<x, y>> \in R <=> x < y
  BY DEF OpToRel
<1> HIDE DEF R
<1>3. PICK m \in T : \A x \in T : ~(<<x, m>> \in R)
  BY <1>1, WFMin
<1>4. ASSUME NEW x \in T PROVE m <= x
  <2>1. m \in Nat /\ x \in Nat /\ ~(<<x, m>> \in R)
    BY <1>3
  <2>2. ~(x < m)
    BY <1>2, <2>1
  <2> QED
    BY <2>1, <2>2
<1> QED
  BY <1>4

\* Of the tests that pass the reference with the arguments of one that does,
\* the first is legal, and no other.
LEMMA FirstIsLegal ==
    ASSUME NEW sub \in Seq(Test), NEW answer \in [DOMAIN sub -> RefAnswers],
           NEW i \in DOMAIN sub, Reason(sub, answer, i) \in {"legal", "duplicate"}
    PROVE  \E m \in DOMAIN sub :
             {j \in DOMAIN sub : Reason(sub, answer, j) = "legal" /\ sub[j].key = sub[i].key} = {m}
<1> DEFINE T == {j \in Runnable(sub) : answer[j] = "match" /\ sub[j].key = sub[i].key}
<1>1. DOMAIN sub \in SUBSET Nat
  OBVIOUS
<1>2. \A j \in DOMAIN sub : sub[j] \in Test /\ answer[j] \in Answers
  BY HoleLoopAssumption
<1>3. \A j \in DOMAIN sub : sub[j].form \in BadForms \cup {"ok"}
  BY <1>2 DEF Test
<1>4. \A j \in DOMAIN sub :
        Reason(sub, answer, j) \in {"legal", "duplicate"}
          <=> j \in Runnable(sub) /\ answer[j] = "match"
  BY <1>2, <1>3 DEF Reason, Runnable, BadForms, Answers
<1>5. i \in T /\ T \in SUBSET Nat
  BY <1>1, <1>4 DEF Runnable
<1>6. PICK m \in T : \A x \in T : m <= x
  BY <1>5, LeastNumber
<1>7. \A j \in T : Seen(sub, answer, j) <=> j # m
  <2> SUFFICES ASSUME NEW j \in T PROVE Seen(sub, answer, j) <=> j # m
    OBVIOUS
  <2>1. ASSUME j # m PROVE Seen(sub, answer, j)
    BY <1>5, <1>6, <2>1 DEF Seen
  <2>2. ASSUME Seen(sub, answer, j) PROVE j # m
    <3>1. PICK k \in Runnable(sub) : k < j /\ answer[k] = "match" /\ sub[k].key = sub[j].key
      BY <2>2 DEF Seen
    <3>2. k \in T /\ k < j
      BY <3>1
    <3> QED
      BY <1>5, <1>6, <3>2
  <2> QED
    BY <2>1, <2>2
<1>8. \A j \in DOMAIN sub :
        Reason(sub, answer, j) = "legal"
          <=> j \in Runnable(sub) /\ answer[j] = "match" /\ ~Seen(sub, answer, j)
  BY <1>2, <1>3 DEF Reason, Runnable, BadForms, Answers
<1>9. T \in SUBSET DOMAIN sub
  BY DEF Runnable
<1>10. \A j \in DOMAIN sub :
         Reason(sub, answer, j) = "legal" /\ sub[j].key = sub[i].key <=> j = m
  BY <1>6, <1>7, <1>8, <1>9
<1> QED
  BY <1>6, <1>9, <1>10

JudgedInv == phase = "firing" => \A s \in Seats : legality[s] \in Judged(submissions[s])

LEMMA JudgedNext == Typed /\ JudgedInv /\ [Next]_vars => JudgedInv'
<1> SUFFICES ASSUME Typed, JudgedInv, [Next]_vars PROVE JudgedInv'
  OBVIOUS
<1>1. CASE Check
  <2>1. PICK r0 \in Judged(submissions[0]), r1 \in Judged(submissions[1]) :
           legality' = [s \in Seats |-> IF s = 0 THEN r0 ELSE r1]
    BY <1>1 DEF Check
  <2>2. submissions' = submissions
    BY <1>1 DEF Check
  <2> QED
    BY <2>1, <2>2 DEF JudgedInv, Seats
<1>2. CASE UNCHANGED <<submissions, legality>> /\ (phase' = "firing" => phase = "firing")
  BY <1>2 DEF JudgedInv
<1>3. CASE phase' # "firing"
  BY <1>3 DEF JudgedInv
<1> QED
  BY <1>1, <1>2, <1>3
     DEF Next, Engine, Terminated, AwaitConnections, BeginHole, StopAtDeadline, Complete, Collect,
         CheckFault, RunEnds, RunFault, ApplyHole, ApplyRaises, Interrupted, Publish, Withhold,
         vars, play, Ended

\* Whatever a seat submits and whatever the reference answers, each argument
\* list that passes is fired exactly once.
THEOREM FiredOnce == Spec => []FiredOncePerKey
<1>1. Typed /\ JudgedInv => FiredOncePerKey
  <2> SUFFICES ASSUME Typed, JudgedInv, phase = "firing", NEW s \in Seats,
                      NEW i \in DOMAIN submissions[s],
                      legality[s][i] \in {"legal", "duplicate"}
               PROVE  Cardinality({j \in Legal(s) :
                                     submissions[s][j].key = submissions[s][i].key}) = 1
    BY DEF FiredOncePerKey
  <2> DEFINE sub == submissions[s]
  <2>1. sub \in Seq(Test)
    <3>1. sub \in Submissions \/ sub = <<>>
      BY DEF Typed, TypeOK
    <3> QED
      BY <3>1, HoleLoopAssumption
  <2>2. PICK answer \in [DOMAIN sub -> RefAnswers] :
           legality[s] = [j \in DOMAIN sub |-> Reason(sub, answer, j)]
    BY DEF JudgedInv, Judged
  <2>3. {j \in Legal(s) : sub[j].key = sub[i].key} =
        {j \in DOMAIN sub : Reason(sub, answer, j) = "legal" /\ sub[j].key = sub[i].key}
    BY <2>2 DEF Legal
  <2>4. Reason(sub, answer, i) \in {"legal", "duplicate"}
    BY <2>2
  <2> HIDE DEF sub
  <2>5. PICK m \in DOMAIN sub :
          {j \in DOMAIN sub : Reason(sub, answer, j) = "legal" /\ sub[j].key = sub[i].key} = {m}
    BY <2>1, <2>4, FirstIsLegal DEF sub
  <2> QED
    BY <2>3, <2>5, FS_Singleton DEF sub
<1>2. Init => Typed /\ JudgedInv
  BY TypedInit DEF Init, JudgedInv
<1>3. Typed /\ JudgedInv /\ [Next]_vars => (Typed /\ JudgedInv)'
  BY TypedNext, JudgedNext
<1> QED
  BY <1>1, <1>2, <1>3, PTL DEF Spec

(***************************************************************************)
(* The abstract episode.                                                   *)
(***************************************************************************)
LEMMA StepRefines == Typed /\ [Next]_vars => [Episode!Next]_(Episode!vars)
<1> SUFFICES ASSUME Typed, [Next]_vars PROVE [Episode!Next]_(Episode!vars)
  OBVIOUS
<1> USE DEF Stage, Ended, Episode!Next, Episode!vars
<1>1. CASE UNCHANGED <<phase, hole, holesPlayed>>
  BY <1>1
<1>2. CASE AwaitConnections
  BY <1>2 DEF AwaitConnections
<1>3. CASE BeginHole
  <2>1. Episode!OpenHole
    BY <1>3 DEF BeginHole, NextHole, Typed, Counted, AtRest, Episode!OpenHole
  <2> QED
    BY <2>1
<1>4. CASE StopAtDeadline \/ Complete \/ CheckFault
  <2>1. Episode!End
    BY <1>4 DEF StopAtDeadline, Complete, CheckFault, Episode!End
  <2> QED
    BY <2>1
<1>5. CASE Collect
  <2>1. Episode!Judge
    BY <1>5 DEF Collect, Episode!Judge
  <2> QED
    BY <2>1
<1>6. CASE Check
  BY <1>6 DEF Check
<1>7. ASSUME NEW d \in Seats, RunEnds(d) \/ RunFault(d)
      PROVE  [Episode!Next]_(Episode!vars)
  <2>1. CASE phase = "firing" /\ phase' = "faulted"
    <3>1. Episode!End
      BY <1>7, <2>1 DEF RunEnds, RunFault, Episode!End
    <3> QED
      BY <3>1
  <2> QED
    BY <1>1, <1>7, <2>1 DEF RunEnds, RunFault
<1>8. CASE ApplyHole
  <2>1. Episode!Score
    BY <1>8 DEF ApplyHole, Fired, Episode!Score
  <2> QED
    BY <2>1
<1>9. CASE ApplyRaises
  <2>1. Episode!End
    BY <1>9 DEF ApplyRaises, Fired, Episode!End
  <2> QED
    BY <2>1
<1>10. CASE Interrupted
  <2>1. CASE phase \in Ended
    BY <1>10, <2>1 DEF Interrupted
  <2>2. CASE phase \notin Ended
    <3>1. Episode!End
      BY <1>10, <2>2 DEF Interrupted, Typed, TypeOK, Phases, Episode!End
    <3> QED
      BY <3>1
  <2> QED
    BY <2>1, <2>2
<1>11. CASE Publish
  <2>1. Episode!Publish
    BY <1>11 DEF Publish, Episode!Publish
  <2> QED
    BY <2>1
<1>12. CASE Withhold
  <2>1. Episode!Withhold
    BY <1>12 DEF Withhold, Episode!Withhold
  <2> QED
    BY <2>1
<1> QED
  BY <1>1, <1>2, <1>3, <1>4, <1>5, <1>6, <1>7, <1>8, <1>9, <1>10, <1>11, <1>12
     DEF Next, Engine, Terminated, vars

\* The hole loop implements the abstract episode.
THEOREM MatchRefined == Spec => ImplementsMatch
<1>1. Init => Episode!Init
  BY DEF Init, Episode!Init, Stage, Ended
<1> QED
  BY <1>1, TypedHolds, StepRefines, PTL DEF Spec, ImplementsMatch, Episode!Spec

(***************************************************************************)
(* Totals.  A total is defined by recursion on how much of the list has    *)
(* been added up; the partial sums exist and are unique because there is   *)
(* no first place where they fail.                                         *)
(***************************************************************************)
PartialSums(f, n, t) ==
    /\ t \in [0..n -> Int]
    /\ t[0] = 0
    /\ \A i \in 1..n : t[i] = t[i - 1] + f[i]

LEMMA SumsOfPart ==
    ASSUME NEW f \in Seq(Int), NEW n \in 1..Len(f), NEW t, PartialSums(f, n - 1, t)
    PROVE  PartialSums(f, n, [i \in 0..n |-> IF i = n THEN t[n - 1] + f[n] ELSE t[i]])
<1> DEFINE u == [i \in 0..n |-> IF i = n THEN t[n - 1] + f[n] ELSE t[i]]
<1>1. n \in Nat /\ n >= 1 /\ n - 1 \in 0..(n - 1) /\ f[n] \in Int
  OBVIOUS
<1>2. t \in [0..(n - 1) -> Int] /\ t[n - 1] \in Int
  BY <1>1 DEF PartialSums
<1>3. u \in [0..n -> Int]
  <2> SUFFICES ASSUME NEW i \in 0..n PROVE u[i] \in Int
    OBVIOUS
  <2>1. CASE i = n
    BY <2>1, <1>1, <1>2
  <2>2. CASE i # n
    BY <2>2, <1>1, <1>2
  <2> QED
    BY <2>1, <2>2
<1>4. u[0] = 0
  BY <1>1 DEF PartialSums
<1>5. ASSUME NEW i \in 1..n PROVE u[i] = u[i - 1] + f[i]
  <2>1. u[i - 1] = t[i - 1]
    BY <1>1
  <2>2. CASE i = n
    BY <2>1, <2>2
  <2>3. CASE i # n
    <3>1. i \in 1..(n - 1) /\ i \in 0..n
      BY <2>3, <1>1
    <3> QED
      BY <3>1, <2>1, <2>3 DEF PartialSums
  <2> QED
    BY <2>2, <2>3
<1> QED
  BY <1>3, <1>4, <1>5 DEF PartialSums

LEMMA SumsExist ==
    ASSUME NEW f \in Seq(Int)
    PROVE  \E t : PartialSums(f, Len(f), t)
<1> DEFINE T == {n \in 0..Len(f) : ~\E t : PartialSums(f, n, t)}
<1>1. Len(f) \in Nat
  OBVIOUS
<1>2. CASE T = {}
  BY <1>1, <1>2
<1>3. CASE T # {}
  <2>1. PICK m \in T : \A x \in T : m <= x
    <3>1. T \in SUBSET Nat
      BY <1>1
    <3> HIDE DEF T
    <3> QED
      BY <1>3, <3>1, LeastNumber
  <2>2. m # 0
    <3>1. PartialSums(f, 0, [i \in 0..0 |-> 0])
      BY DEF PartialSums
    <3> QED
      BY <3>1, <2>1
  <2>3. m \in 1..Len(f) /\ m - 1 \in 0..Len(f) /\ ~(m <= m - 1)
    BY <2>1, <2>2
  <2>4. m - 1 \notin T
    BY <2>1, <2>3
  <2>5. PICK t : PartialSums(f, m - 1, t)
    BY <2>3, <2>4
  <2>6. PartialSums(f, m, [i \in 0..m |-> IF i = m THEN t[m - 1] + f[m] ELSE t[i]])
    BY <2>3, <2>5, SumsOfPart
  <2> QED
    BY <2>1, <2>6
<1> QED
  BY <1>2, <1>3

LEMMA SumsAgree ==
    ASSUME NEW f, NEW n \in Nat, NEW t, NEW u, PartialSums(f, n, t),
           u[0] = 0, \A i \in 1..n : u[i] = u[i - 1] + f[i]
    PROVE  u[n] = t[n]
<1> DEFINE T == {i \in 0..n : u[i] # t[i]}
<1>1. CASE n \notin T
  BY <1>1
<1>2. CASE T # {}
  <2>1. PICK m \in T : \A x \in T : m <= x
    <3>1. T \in SUBSET Nat
      OBVIOUS
    <3> HIDE DEF T
    <3> QED
      BY <1>2, <3>1, LeastNumber
  <2>2. m # 0
    BY <2>1 DEF PartialSums
  <2>3. m \in 1..n /\ m - 1 \in 0..n /\ ~(m <= m - 1)
    BY <2>1, <2>2
  <2>4. u[m - 1] = t[m - 1]
    BY <2>1, <2>3
  <2>5. u[m] = t[m]
    BY <2>3, <2>4 DEF PartialSums
  <2> QED
    BY <2>1, <2>5
<1> QED
  BY <1>1, <1>2

LEMMA TotalIsLast ==
    ASSUME NEW f \in Seq(Int), NEW t, PartialSums(f, Len(f), t)
    PROVE  Total(f) = t[Len(f)]
<1> DEFINE n == Len(f)
           Sums(g) == g = [i \in 0..n |-> IF i = 0 THEN 0 ELSE g[i - 1] + f[i]]
           upTo == CHOOSE g : Sums(g)
<1>1. n \in Nat
  OBVIOUS
<1>2. Total(f) = upTo[n]
  BY Zenon DEF Total
<1> HIDE DEF n
<1>3. Sums(t)
  <2>1. t \in [0..n -> Int] /\ t[0] = 0 /\ \A i \in 1..n : t[i] = t[i - 1] + f[i]
    BY DEF PartialSums, n
  <2>2. \A i \in 0..n : t[i] = IF i = 0 THEN 0 ELSE t[i - 1] + f[i]
    BY <1>1, <2>1
  <2> QED
    BY <2>1, <2>2
<1>4. Sums(upTo)
  BY <1>3, Zenon
<1> HIDE DEF upTo
<1>5. upTo[0] = 0 /\ \A i \in 1..n : upTo[i] = upTo[i - 1] + f[i]
  BY <1>1, <1>4
<1>6. PartialSums(f, n, t)
  BY DEF n
<1>7. upTo[n] = t[n]
  BY <1>1, <1>5, <1>6, SumsAgree
<1> QED
  BY <1>2, <1>7 DEF n

\* Adding up one number more adds it to the total.
LEMMA TotalAppend ==
    ASSUME NEW f \in Seq(Int), NEW g \in Seq(Int),
           Len(g) = Len(f) + 1, \A i \in 1..Len(f) : g[i] = f[i]
    PROVE  Total(g) = Total(f) + g[Len(g)] /\ Total(f) \in Int
<1> DEFINE n == Len(f)
<1>1. n \in Nat /\ Len(g) = n + 1
  OBVIOUS
<1>2. PICK t : PartialSums(g, n + 1, t)
  BY <1>1, SumsExist
<1>3. Total(g) = t[n + 1]
  BY <1>1, <1>2, TotalIsLast
<1>4. PICK u : PartialSums(f, n, u)
  BY SumsExist
<1>5. Total(f) = u[n]
  BY <1>4, TotalIsLast
<1> HIDE DEF n
<1>6. t[0] = 0 /\ (\A i \in 1..n : t[i] = t[i - 1] + g[i]) /\ t[n + 1] = t[n] + g[n + 1]
  <2>1. \A i \in 1..(n + 1) : t[i] = t[i - 1] + g[i]
    BY <1>2 DEF PartialSums
  <2>2. (n + 1) \in 1..(n + 1) /\ (n + 1) - 1 = n /\ 1..n \subseteq 1..(n + 1)
    BY <1>1
  <2> QED
    BY <2>1, <2>2, <1>2 DEF PartialSums
<1>7. \A i \in 1..n : t[i] = t[i - 1] + f[i]
  BY <1>6 DEF n
<1>8. n \in 0..n
  BY <1>1
<1>9. t[n] = u[n]
  BY <1>1, <1>4, <1>6, <1>7, SumsAgree
<1>10. u[n] \in Int
  BY <1>4, <1>8 DEF PartialSums
<1> QED
  BY <1>1, <1>3, <1>5, <1>6, <1>9, <1>10

LEMMA TotalOfNone == Total(<<>>) = 0
<1>1. PartialSums(<<>>, 0, [i \in 0..0 |-> 0])
  BY DEF PartialSums
<1>2. <<>> \in Seq(Int) /\ Len(<<>>) = 0
  OBVIOUS
<1>3. Total(<<>>) = [i \in 0..0 |-> 0][Len(<<>>)]
  BY <1>1, <1>2, TotalIsLast
<1> QED
  BY <1>2, <1>3

(***************************************************************************)
(* Results and replay.                                                     *)
(***************************************************************************)
Columns(s, field) == [i \in DOMAIN replay |-> HoleTally(replay[i], s)[field]]

\* Until run raises, the tallies, the number of holes and the replay say the
\* same.
StoryInv ==
    /\ phase \notin {"raised", "withheld"} =>
          /\ TalliesAgree(tallies)
          /\ holesPlayed = Len(replay)
          /\ Len(perHole) = Len(replay)
    /\ phase # "published" => doc = NoDoc
    /\ DocumentAgreesWithReplay

LEMMA CountTo == \A n \in Nat : IsFiniteSet(1..n) /\ Cardinality(1..n) = n
BY FS_Interval

LEMMA CountType ==
    ASSUME NEW shots \in Seq(Shots), NEW outcomes
    PROVE  Count(shots, outcomes) \in Nat
<1>1. Len(shots) \in Nat /\ DOMAIN shots = 1..Len(shots)
  OBVIOUS
<1>2. IsFiniteSet(DOMAIN shots) /\ {i \in DOMAIN shots : shots[i] \in outcomes} \subseteq DOMAIN shots
  BY <1>1, FS_Interval
<1>3. IsFiniteSet({i \in DOMAIN shots : shots[i] \in outcomes})
  BY <1>2, FS_Subset
<1> QED
  BY <1>3, FS_CardinalityType DEF Count

LEMMA HoleTallyType ==
    ASSUME NEW record \in HoleRecord, NEW s \in Seats, NEW field \in Recounted
    PROVE  HoleTally(record, s)[field] \in Int
<1>1. record.seats[s] \in SeatRecord /\ record.seats[Other(s)] \in SeatRecord
  BY OtherSeat DEF HoleRecord
<1>2. /\ record.seats[s].score \in Int /\ record.seats[s].parFails \in Nat
      /\ record.seats[s].shots \in Seq(Shots) /\ record.seats[Other(s)].shots \in Seq(Shots)
  BY <1>1 DEF SeatRecord
<1>3. /\ Count(record.seats[s].shots, {"breach"}) \in Nat
      /\ Count(record.seats[Other(s)].shots, {"breach"}) \in Nat
      /\ Count(record.seats[s].shots, {"held", "breach"}) \in Nat
      /\ Count(record.seats[s].shots, {"illegal"}) \in Nat
  BY <1>2, CountType
<1>4. LET t == HoleTally(record, s) IN
      /\ t["score"] \in Int /\ t["parFails"] \in Int /\ t["breaches"] \in Int
      /\ t["taken"] \in Int /\ t["fired"] \in Int /\ t["illegal"] \in Int
  BY <1>2, <1>3 DEF HoleTally
<1> QED
  BY <1>4 DEF Recounted

\* The shots that are recorded count what the tallies count.
LEMMA RecordedCounts ==
    ASSUME TypeOK, NEW s \in Seats
    PROVE  /\ Count(Recorded(s).shots, {"breach"}) = Breaches(s)
           /\ Count(Recorded(s).shots, {"held", "breach"}) = Cardinality(Legal(s))
           /\ Count(Recorded(s).shots, {"illegal"}) = Len(legality[s]) - Cardinality(Legal(s))
<1> DEFINE L == legality[s]
           held == batch[Other(s)].held
           shots == [i \in DOMAIN L |->
                        IF i \notin Legal(s) THEN "illegal"
                        ELSE IF i \in held THEN "held" ELSE "breach"]
<1>1. Recorded(s).shots = shots
  BY DEF Recorded
<1>2. /\ Legal(s) \subseteq DOMAIN L /\ DOMAIN L = 1..Len(L) /\ Len(L) \in Nat
      /\ IsFiniteSet(Legal(s)) /\ Cardinality(Legal(s)) \in Nat
  BY LegalCount DEF TypeOK, Legal
<1> HIDE DEF L
<1>3. /\ {i \in DOMAIN shots : shots[i] \in {"breach"}} = Legal(s) \ held
      /\ {i \in DOMAIN shots : shots[i] \in {"held", "breach"}} = Legal(s)
      /\ {i \in DOMAIN shots : shots[i] \in {"illegal"}} = DOMAIN L \ Legal(s)
  <2> HIDE DEF held
  <2> QED
    BY <1>2
<1> HIDE DEF shots
<1>4. IsFiniteSet(DOMAIN L) /\ Cardinality(DOMAIN L) = Len(L)
  <2>1. IsFiniteSet(1..Len(L)) /\ Cardinality(1..Len(L)) = Len(L)
    BY <1>2, CountTo
  <2> QED
    BY <1>2, <2>1
<1>5. Cardinality(DOMAIN L \ Legal(s)) = Len(L) - Cardinality(Legal(s))
  <2>1. (DOMAIN L) \cap Legal(s) = Legal(s)
    BY <1>2
  <2>2. Cardinality(DOMAIN L \ Legal(s)) = Cardinality(DOMAIN L) - Cardinality(DOMAIN L \cap Legal(s))
    BY <1>4, FS_Difference
  <2> QED
    BY <1>4, <2>1, <2>2
<1> QED
  BY <1>1, <1>3, <1>5 DEF Count, Breaches, L, held

\* Applying a hole adds to each tally what its record tells.
LEMMA TalliedByRecord ==
    ASSUME TypeOK, NEW record, record.seats = [s \in Seats |-> Recorded(s)],
           NEW s \in Seats, NEW field \in Recounted
    PROVE  Tallied(s)[field] = tallies[s][field] + HoleTally(record, s)[field]
<1> DEFINE t == HoleTally(record, s)
           o == Other(s)
<1>1. o \in Seats /\ record.seats[s] = Recorded(s) /\ record.seats[o] = Recorded(o)
  BY OtherSeat
<1>2. tallies[s] \in Tally
  BY DEF TypeOK
<1>3. /\ t["score"] = Score[s] /\ t["parFails"] = ParFails(s)
      /\ t["breaches"] = Breaches(s) /\ t["taken"] = Breaches(o)
      /\ t["fired"] = Cardinality(Legal(s))
      /\ t["illegal"] = Len(legality[s]) - Cardinality(Legal(s))
  <2>1. Recorded(s).score = Score[s] /\ Recorded(s).parFails = ParFails(s)
    BY DEF Recorded
  <2>2. /\ t["score"] = Recorded(s).score /\ t["parFails"] = Recorded(s).parFails
        /\ t["breaches"] = Count(Recorded(s).shots, {"breach"})
        /\ t["taken"] = Count(Recorded(o).shots, {"breach"})
        /\ t["fired"] = Count(Recorded(s).shots, {"held", "breach"})
        /\ t["illegal"] = Count(Recorded(s).shots, {"illegal"})
    BY <1>1 DEF HoleTally
  <2> QED
    BY <1>1, <2>1, <2>2, RecordedCounts
<1> HIDE DEF t
<1>4. /\ Tallied(s)["score"] = tallies[s]["score"] + Score[s]
      /\ Tallied(s)["parFails"] = tallies[s]["parFails"] + ParFails(s)
      /\ Tallied(s)["breaches"] = tallies[s]["breaches"] + Breaches(s)
      /\ Tallied(s)["taken"] = tallies[s]["taken"] + Breaches(o)
      /\ Tallied(s)["fired"] = tallies[s]["fired"] + Cardinality(Legal(s))
      /\ Tallied(s)["illegal"] =
            tallies[s]["illegal"] + (Len(legality[s]) - Cardinality(Legal(s)))
  BY <1>2 DEF Tallied, Tally
<1> HIDE DEF o
<1>5. Tallied(s)[field] = tallies[s][field] + t[field]
  BY <1>3, <1>4 DEF Recounted
<1> QED
  BY <1>5 DEF t

LEMMA StoryApplied ==
    ASSUME Typed, TalliesAgree(tallies), ApplyHole
    PROVE  TalliesAgree(tallies)' /\ Len(replay') = Len(replay) + 1
<1> DEFINE record == [hole |-> hole, seats |-> [s \in Seats |-> Recorded(s)]]
<1>1. replay \in Seq(HoleRecord) /\ replay' \in Seq(HoleRecord)
  <2>1. Typed'
    BY TypedApplied
  <2> QED
    BY <2>1 DEF Typed, TypeOK
<1>2. replay' = Append(replay, record) /\ tallies' = [s \in Seats |-> Tallied(s)]
  BY DEF ApplyHole
<1>3. record.seats = [s \in Seats |-> Recorded(s)]
  OBVIOUS
<1> HIDE DEF record
<1>4. /\ Len(replay) \in Nat /\ Len(replay') = Len(replay) + 1
      /\ DOMAIN replay = 1..Len(replay) /\ DOMAIN replay' = 1..Len(replay')
      /\ replay'[Len(replay')] = record
      /\ \A i \in 1..Len(replay) : replay'[i] = replay[i]
  BY <1>1, <1>2
<1>5. ASSUME NEW s \in Seats, NEW field \in Recounted
      PROVE  tallies'[s][field] = Total(Columns(s, field)')
  <2> DEFINE f == Columns(s, field)
             g == [i \in DOMAIN replay' |-> HoleTally(replay'[i], s)[field]]
  <2>1. \A r \in HoleRecord : HoleTally(r, s)[field] \in Int
    BY HoleTallyType
  <2>2. f \in Seq(Int) /\ Len(f) = Len(replay)
    <3>1. \A i \in 1..Len(replay) : replay[i] \in HoleRecord
      BY <1>1
    <3> QED
      BY <1>4, <2>1, <3>1 DEF Columns
  <2>3. g \in Seq(Int) /\ Len(g) = Len(replay')
    <3>1. \A i \in 1..Len(replay') : replay'[i] \in HoleRecord
      BY <1>1
    <3> QED
      BY <1>4, <2>1, <3>1
  <2>4. \A i \in 1..Len(f) : g[i] = f[i]
    BY <1>4, <2>2 DEF Columns
  <2>5. g[Len(g)] = HoleTally(record, s)[field]
    BY <1>4, <2>3
  <2>6. tallies[s][field] = Total(f)
    BY DEF TalliesAgree, Columns
  <2>7. tallies'[s][field] = tallies[s][field] + HoleTally(record, s)[field]
    BY <1>2, <1>3, TalliedByRecord DEF Typed
  <2>8. Columns(s, field)' = g
    BY DEF Columns
  <2> HIDE DEF f, g
  <2>9. Total(g) = Total(f) + g[Len(g)]
    BY <1>4, <2>2, <2>3, <2>4, TotalAppend
  <2> QED
    BY <2>5, <2>6, <2>7, <2>8, <2>9
<1> QED
  BY <1>4, <1>5 DEF TalliesAgree, Columns

LEMMA StoryInit == Init => StoryInv
<1> SUFFICES ASSUME Init PROVE StoryInv
  OBVIOUS
<1>1. replay = <<>> /\ holesPlayed = 0 /\ perHole = <<>> /\ doc = NoDoc
  BY DEF Init
<1>2. \A s \in Seats, field \in Recounted : tallies[s][field] = 0
  BY DEF Init, NoTally, Recounted
<1>3. \A s \in Seats, field \in Recounted : Columns(s, field) = <<>>
  BY <1>1 DEF Columns
<1>4. TalliesAgree(tallies)
  BY <1>2, <1>3, TotalOfNone DEF TalliesAgree, Columns
<1> QED
  BY <1>1, <1>4 DEF StoryInv, DocumentAgreesWithReplay

LEMMA StoryNext == Typed /\ StoryInv /\ [Next]_vars => StoryInv'
<1> SUFFICES ASSUME Typed, StoryInv, [Next]_vars PROVE StoryInv'
  OBVIOUS
<1> DEFINE Same == UNCHANGED <<replay, perHole, holesPlayed>>
           SameTallies == \A s \in Seats, field \in Recounted :
                             tallies'[s][field] = tallies[s][field]
           SamePhase == /\ phase \in {"raised", "withheld"} => phase' \in {"raised", "withheld"}
                        /\ phase = "published" => phase' = "published"
<1>1. ASSUME Same, SameTallies, SamePhase, UNCHANGED doc PROVE StoryInv'
  BY <1>1 DEF StoryInv, TalliesAgree, DocumentAgreesWithReplay
<1>2. CASE ApplyHole
  <2>1. phase = "firing" /\ holesPlayed' = hole /\ perHole' = Append(perHole, Score) /\ doc' = doc
    BY <1>2 DEF ApplyHole, Fired
  <2>2. TalliesAgree(tallies) /\ holesPlayed = Len(replay) /\ Len(perHole) = Len(replay) /\ doc = NoDoc
    BY <2>1 DEF StoryInv
  <2>3. TalliesAgree(tallies)' /\ Len(replay') = Len(replay) + 1
    BY <1>2, <2>2, StoryApplied
  <2>4. hole = holesPlayed + 1
    BY <2>1 DEF Typed, Counted, InHole
  <2>5. Len(perHole') = Len(perHole) + 1
    BY <2>1 DEF Typed, TypeOK
  <2> QED
    BY <2>1, <2>2, <2>3, <2>4, <2>5 DEF StoryInv, DocumentAgreesWithReplay
<1>3. CASE ApplyRaises
  BY <1>3 DEF ApplyRaises, Fired, StoryInv, DocumentAgreesWithReplay
<1>4. CASE Collect
  <2>1. SameTallies
    BY <1>4 DEF Collect, Typed, TypeOK, Tally, Recounted
  <2> QED
    BY <1>1, <1>4, <2>1 DEF Collect
<1>5. CASE Publish
  <2>1. phase \in Ended /\ phase' = "published" /\ UNCHANGED <<replay, perHole, holesPlayed, tallies>>
        /\ doc' = [reason |-> phase, holes |-> DocHoles, tallies |-> tallies]
    BY <1>5 DEF Publish, ledger
  <2>2. phase \notin {"raised", "withheld"}
    BY <2>1 DEF Ended
  <2>3. TalliesAgree(tallies) /\ holesPlayed = Len(replay) /\ Len(perHole) = Len(replay)
    BY <2>2 DEF StoryInv
  <2>4. doc'.holes = Len(replay) /\ doc'.tallies = tallies
    BY <2>1, <2>3 DEF DocHoles
  <2>5. TalliesAgree(tallies)' /\ TalliesAgree(doc.tallies)'
    BY <2>1, <2>3, <2>4 DEF TalliesAgree
  <2> QED
    BY <2>1, <2>3, <2>4, <2>5 DEF StoryInv, DocumentAgreesWithReplay
<1>6. ASSUME AwaitConnections \/ BeginHole \/ StopAtDeadline \/ Complete PROVE StoryInv'
  <2>1. Same /\ SameTallies /\ SamePhase /\ UNCHANGED doc
    BY <1>6 DEF AwaitConnections, BeginHole, StopAtDeadline, Complete, ledger
  <2> QED
    BY <1>1, <2>1
<1>7. ASSUME \/ Check \/ CheckFault \/ \E d \in Seats : RunEnds(d) \/ RunFault(d)
      PROVE  StoryInv'
  <2>1. Same /\ SameTallies /\ SamePhase /\ UNCHANGED doc
    BY <1>7 DEF Check, CheckFault, RunEnds, RunFault, ledger
  <2> QED
    BY <1>1, <2>1
<1>8. ASSUME Interrupted \/ Withhold \/ Terminated \/ UNCHANGED vars PROVE StoryInv'
  <2>1. Same /\ SameTallies /\ SamePhase /\ UNCHANGED doc
    BY <1>8 DEF Interrupted, Withhold, Terminated, Ended, vars, ledger
  <2> QED
    BY <1>1, <2>1
<1> QED
  BY <1>2, <1>3, <1>4, <1>5, <1>6, <1>7, <1>8 DEF Next, Engine

\* Results and replay tell the same story, after every hole and however the
\* match ends: a hole is in both or in neither, for any number of holes.
THEOREM DocumentAgrees == Spec => []DocumentAgreesWithReplay
<1>1. Init => Typed /\ StoryInv
  BY TypedInit, StoryInit
<1>2. Typed /\ StoryInv /\ [Next]_vars => (Typed /\ StoryInv)'
  BY TypedNext, StoryNext
<1>3. StoryInv => DocumentAgreesWithReplay
  BY DEF StoryInv
<1> QED
  BY <1>1, <1>2, <1>3, PTL DEF Spec
================================================================================
