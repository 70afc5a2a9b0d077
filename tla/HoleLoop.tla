-------------------------------- MODULE HoleLoop -------------------------------
(***************************************************************************)
(* Engine.run hole by hole: the wall clock, the legality gate, the cross   *)
(* fire in two sandboxes, the tallies and the replay, and the results      *)
(* run_episode makes of them (engine.py, scoring.py, results.py).          *)
(*                                                                         *)
(* How submissions are collected is SeatWindow's; here a seat submits some *)
(* tests, or the fallback's.  A test is its arguments, as the fingerprint  *)
(* that tells duplicates apart, and its form.  What a sandbox answers is   *)
(* any outcome it can have.                                                *)
(*                                                                         *)
(* Time is counted in ticks: an action takes up to what the code lets it.  *)
(***************************************************************************)
EXTENDS Integers, Sequences, FiniteSets, FiniteSetsExt

CONSTANTS
    Holes,        \* config.holes
    ParTests,     \* config.par_tests_per_hole
    Keys,         \* fingerprints of the tests' arguments
    Submissions,  \* the lists of tests a seat can submit in a hole
    RefAnswers,   \* what the reference can make of a test it is given
    Budget,       \* config.wall_clock_budget_seconds
    Reserve,      \* config.hole_reserve_seconds
    Spacing,      \* config.min_hole_spacing_seconds
    ConnectWait,  \* config.player_connect_timeout_seconds
    ReportTime,   \* most that reporting a missing player takes (uris.py)
    HoleWait,     \* config.hole_deadline_seconds
    RetryWait,    \* config.retry_deadline_seconds
    MinWait,      \* the second a batch gets however late it is
    BatchTime     \* most that one sandbox run takes, its drain included

Times == {Budget, Reserve, Spacing, ConnectWait, ReportTime, HoleWait, RetryWait,
          MinWait, BatchTime}
BadForms == {"not_json", "arity", "oversize"}
Test == [key : Keys, form : BadForms \cup {"ok"}]
Answers == {"match", "ref_mismatch", "ref_error", "ref_timeout"}

ASSUME HoleLoopAssumption ==
    /\ {Holes, ParTests} \subseteq Nat
    /\ Times \subseteq Nat
    /\ Submissions \subseteq Seq(Test)
    /\ RefAnswers \subseteq Answers

Seats == 0..1
Other(s) == 1 - s

VARIABLES
    phase,        \* where run and run_episode stand
    hole,         \* Engine.current_hole
    holesPlayed,  \* Engine.holes_played
    left,         \* what _wall_remaining returns
    lastReveal,   \* what it returned at the last reveal
    submissions,  \* each seat's tests of this hole
    fallback,     \* whether a seat plays the fallback in this hole
    legality,     \* each test's reason, as _legality leaves it
    runs,         \* the sandbox run of each seat's implementation
    batch,        \* what each of them returned
    perHole,      \* Engine.per_hole
    tallies,      \* Engine.outcomes
    replay,       \* the hole records of the replay
    doc           \* the results document

limits == <<left, lastReveal>>
play == <<submissions, fallback, legality, runs, batch>>
ledger == <<perHole, tallies, replay>>
vars == <<phase, hole, holesPlayed, limits, play, ledger, doc>>

Ended == {"complete", "deadline", "faulted"}
Phases == {"connecting", "between", "collecting", "checking", "firing", "raised",
           "published", "withheld"} \cup Ended

Reasons == BadForms \cup (Answers \ {"match"}) \cup {"duplicate", "legal"}
Pars == 1..ParTests
Shots == {"held", "breach", "illegal"}

Tally == [score : Int, breaches : Nat, taken : Nat, parFails : Nat, fired : Nat,
          illegal : Nat, fallbacks : Nat]
SeatRecord == [fallback : BOOLEAN, broken : BOOLEAN, shots : Seq(Shots),
               parFails : Nat, score : Int]
HoleRecord == [hole : 1..Holes, seats : [Seats -> SeatRecord]]
Result == [broken : BOOLEAN, held : SUBSET Nat, passed : SUBSET Pars]
Document == [reason : Ended, holes : Nat, tallies : [Seats -> Tally]]

NoTally == [score |-> 0, breaches |-> 0, taken |-> 0, parFails |-> 0, fired |-> 0,
            illegal |-> 0, fallbacks |-> 0]
NoResult == [broken |-> FALSE, held |-> {}, passed |-> {}]
NoDoc == [reason |-> "none"]

TypeOK ==
    /\ phase \in Phases
    /\ hole \in 0..Holes
    /\ holesPlayed \in 0..Holes
    /\ left \in Int
    /\ lastReveal \in Int
    /\ submissions \in [Seats -> Submissions \cup {<<>>}]
    /\ fallback \in [Seats -> BOOLEAN]
    /\ legality \in [Seats -> Seq(Reasons)]
    /\ runs \in [Seats -> {"idle", "running", "done", "failed"}]
    /\ batch \in [Seats -> Result]
    /\ perHole \in Seq([Seats -> Int])
    /\ tallies \in [Seats -> Tally]
    /\ replay \in Seq(HoleRecord)
    /\ doc \in Document \cup {NoDoc}

NoTests == [s \in Seats |-> <<>>]
NoFallback == [s \in Seats |-> FALSE]
NoRuns == [s \in Seats |-> "idle"]
NoBatch == [s \in Seats |-> NoResult]

Init ==
    /\ phase = "connecting"
    /\ hole = 0
    /\ holesPlayed = 0
    /\ left = Budget
    /\ lastReveal = Budget
    /\ submissions = NoTests
    /\ fallback = NoFallback
    /\ legality = NoTests
    /\ runs = NoRuns
    /\ batch = NoBatch
    /\ perHole = <<>>
    /\ tallies = [s \in Seats |-> NoTally]
    /\ replay = <<>>
    /\ doc = NoDoc

--------------------------------------------------------------------------------
(***************************************************************************)
(* The loop of run and the wall clock.                                     *)
(***************************************************************************)

\* Seats are waited for together, and each missing one is then reported.
AwaitConnections ==
    /\ phase = "connecting"
    /\ phase' = "between"
    /\ \E missing \in SUBSET Seats :
       \E d \in 0..(Min({ConnectWait, Budget}) + ReportTime * Cardinality(missing)) :
          left' = left - d
    /\ UNCHANGED <<hole, holesPlayed, lastReveal, play, ledger, doc>>

\* Mutant: the hole is started whatever is left.
HoleFitsAlways == TRUE

HoleFits == left >= Reserve

\* _space_holes sleeps for what is left of the gap since the last reveal.
SpaceWait == IF hole = 0 THEN 0 ELSE Max({0, Spacing - (lastReveal - left)})

\* Mutant: holes are counted from zero.
NextHoleFromZero == holesPlayed

NextHole == holesPlayed + 1

BeginHole ==
    /\ phase = "between"
    /\ holesPlayed < Holes
    /\ HoleFits
    /\ phase' = "collecting"
    /\ hole' = NextHole
    /\ left' = left - SpaceWait
    /\ lastReveal' = left'
    /\ UNCHANGED <<holesPlayed, play, ledger, doc>>

StopAtDeadline ==
    /\ phase = "between"
    /\ holesPlayed < Holes
    /\ ~HoleFits
    /\ phase' = "deadline"
    /\ UNCHANGED <<hole, holesPlayed, limits, play, ledger, doc>>

Complete ==
    /\ phase = "between"
    /\ holesPlayed = Holes
    /\ phase' = "complete"
    /\ UNCHANGED <<hole, holesPlayed, limits, play, ledger, doc>>

FirstWait == Min({HoleWait, Max({MinWait, left})})
AgainWait(l) == Min({RetryWait, Max({MinWait, l})})

\* A seat plays the fallback only after a second batch.
Collect ==
    /\ phase = "collecting"
    /\ \E d \in 0..FirstWait, retried \in BOOLEAN :
       \E e \in 0..(IF retried THEN AgainWait(left - d) ELSE 0) :
          /\ left' = left - d - e
          /\ fallback' \in [Seats -> IF retried THEN BOOLEAN ELSE {FALSE}]
    /\ submissions' \in [Seats -> Submissions]
    /\ tallies' = [s \in Seats |->
                      [tallies[s] EXCEPT !.fallbacks = @ + IF fallback'[s] THEN 1 ELSE 0]]
    /\ phase' = "checking"
    /\ UNCHANGED <<hole, holesPlayed, lastReveal, legality, runs, batch, perHole, replay, doc>>

--------------------------------------------------------------------------------
(***************************************************************************)
(* _legality and _cross_fire.                                              *)
(***************************************************************************)
Runnable(sub) == {i \in DOMAIN sub : sub[i].form = "ok"}

\* Mutant: what was seen is not only what passed.
SeenAny(sub, answer, i) ==
    \E j \in Runnable(sub) : j < i /\ sub[j].key = sub[i].key

\* An earlier test with the same arguments has passed the reference.
Seen(sub, answer, i) ==
    \E j \in Runnable(sub) : j < i /\ answer[j] = "match" /\ sub[j].key = sub[i].key

Reason(sub, answer, i) ==
    IF sub[i].form # "ok" THEN sub[i].form
    ELSE IF answer[i] # "match" THEN answer[i]
    ELSE IF Seen(sub, answer, i) THEN "duplicate"
    ELSE "legal"

Judged(sub) ==
    {[i \in DOMAIN sub |-> Reason(sub, answer, i)] : answer \in [DOMAIN sub -> RefAnswers]}

\* The reference answers each test that can be run; one it does not get to is
\* a timeout.  With nothing to run no sandbox is started.
Check ==
    /\ phase = "checking"
    /\ \E r0 \in Judged(submissions[0]), r1 \in Judged(submissions[1]) :
          legality' = [s \in Seats |-> IF s = 0 THEN r0 ELSE r1]
    /\ \E d \in 0..(IF \E s \in Seats : Runnable(submissions[s]) # {} THEN BatchTime ELSE 0) :
          left' = left - d
    /\ phase' = "firing"
    /\ runs' = [s \in Seats |-> "running"]
    /\ UNCHANGED <<hole, holesPlayed, lastReveal, submissions, fallback, batch, ledger, doc>>

\* The reference cannot be run, or did not load: SandboxError.
CheckFault ==
    /\ phase = "checking"
    /\ \E s \in Seats : Runnable(submissions[s]) # {}
    /\ phase' = "faulted"
    /\ UNCHANGED <<hole, holesPlayed, limits, play, ledger, doc>>

Legal(s) == {i \in DOMAIN legality[s] : legality[s][i] = "legal"}

\* The sandbox of seat d's implementation returns: what held of the other
\* seat's legal tests, and the par tests passed.  A call without a result
\* fails.  An implementation that did not load has no result; one whose output
\* passed the 4 MiB limit is broken too, and its results count.
RunEnds(d) ==
    /\ runs[d] = "running"
    /\ runs' = [runs EXCEPT ![d] = "done"]
    /\ \E broken \in BOOLEAN, held \in SUBSET Legal(Other(d)), passed \in SUBSET Pars :
          batch' = [batch EXCEPT ![d] = [broken |-> broken, held |-> held, passed |-> passed]]
    /\ UNCHANGED <<phase, hole, holesPlayed, limits, submissions, fallback, legality, ledger, doc>>

\* Mutant: gather keeps the exception as a result.
RunFaultKept(d) ==
    /\ runs[d] = "running"
    /\ runs' = [runs EXCEPT ![d] = "failed"]
    /\ UNCHANGED <<phase, hole, holesPlayed, limits, submissions, fallback, legality, batch,
                   ledger, doc>>

\* The runner cannot be spawned: gather raises at once, and the other seat's
\* run goes on.
RunFault(d) ==
    /\ runs[d] = "running"
    /\ runs' = [runs EXCEPT ![d] = "failed"]
    /\ phase' = IF phase = "firing" THEN "faulted" ELSE phase
    /\ UNCHANGED <<hole, holesPlayed, limits, submissions, fallback, legality, batch, ledger, doc>>

--------------------------------------------------------------------------------
(***************************************************************************)
(* The end of _play_hole: the score, the tallies and the records.          *)
(***************************************************************************)
Breaches(s) == Cardinality(Legal(s) \ batch[Other(s)].held)
ParFails(s) == Cardinality(Pars \ batch[s].passed)

\* Mutant: the par tests count for the seat that failed them.
HoleScoreSwapped(b, p) ==
    LET delta == (b[0] + p[0]) - (b[1] + p[1]) IN [s \in Seats |-> IF s = 0 THEN delta ELSE -delta]

\* scoring.hole_score
HoleScore(b, p) ==
    LET delta == (b[0] + p[1]) - (b[1] + p[0]) IN [s \in Seats |-> IF s = 0 THEN delta ELSE -delta]

Score == HoleScore([s \in Seats |-> Breaches(s)], [s \in Seats |-> ParFails(s)])

\* SeatOutcome.score is the sum of hole_scores.
Tallied(s) ==
    [tallies[s] EXCEPT !.score = @ + Score[s],
                       !.breaches = @ + Breaches(s),
                       !.taken = @ + Breaches(Other(s)),
                       !.parFails = @ + ParFails(s),
                       !.fired = @ + Cardinality(Legal(s)),
                       !.illegal = @ + (Len(legality[s]) - Cardinality(Legal(s)))]

Recorded(s) ==
    [fallback |-> fallback[s],
     broken |-> batch[s].broken,
     shots |-> [i \in DOMAIN legality[s] |->
                   IF i \notin Legal(s) THEN "illegal"
                   ELSE IF i \in batch[Other(s)].held THEN "held" ELSE "breach"],
     parFails |-> ParFails(s),
     score |-> Score[s]]

Fired == phase = "firing" /\ \A d \in Seats : runs[d] = "done"

\* The locals of _play_hole are gone.
Forget ==
    /\ submissions' = NoTests
    /\ fallback' = NoFallback
    /\ legality' = NoTests
    /\ runs' = NoRuns
    /\ batch' = NoBatch

\* Mutant: the last hole is no exception.
OutOfTimeEver(l) == l <= 0

OutOfTime(l) == l <= 0 /\ hole < Holes

\* The hole is applied, and run looks at the clock before it goes on.
ApplyHole ==
    /\ Fired
    /\ \E d \in 0..BatchTime : left' = left - d
    /\ perHole' = Append(perHole, Score)
    /\ tallies' = [s \in Seats |-> Tallied(s)]
    /\ replay' = Append(replay, [hole |-> hole, seats |-> [s \in Seats |-> Recorded(s)]])
    /\ holesPlayed' = hole
    /\ phase' = IF OutOfTime(left') THEN "deadline" ELSE "between"
    /\ Forget
    /\ UNCHANGED <<hole, lastReveal, doc>>

\* The journal's spool refuses the application: the hole is in the tallies, not
\* in the replay, and run raises.
ApplyRaises ==
    /\ Fired
    /\ perHole' = Append(perHole, Score)
    /\ tallies' = [s \in Seats |-> Tallied(s)]
    /\ phase' = "raised"
    /\ Forget
    /\ UNCHANGED <<hole, holesPlayed, limits, replay, doc>>

--------------------------------------------------------------------------------
(***************************************************************************)
(* run_episode: results, a fault document, or nothing.                     *)
(***************************************************************************)

\* A signal, an owner that does not settle in time, or a sandbox run that raises
\* anything but a SandboxError (its job could not be sent).
Interrupted ==
    /\ phase \notin {"raised", "published", "withheld"}
    /\ phase' = "raised"
    /\ UNCHANGED <<hole, holesPlayed, limits, play, ledger, doc>>

\* Mutant: the hole that was begun counts, whether or not it was resolved.
DocHolesBegun == hole

\* holes_played of a result, or the length of hole_scores in a fault document.
DocHoles == IF phase = "faulted" THEN Len(perHole) ELSE holesPlayed

Publish ==
    /\ phase \in Ended
    /\ doc' = [reason |-> phase, holes |-> DocHoles, tallies |-> tallies]
    /\ phase' = "published"
    /\ UNCHANGED <<hole, holesPlayed, limits, play, ledger>>

\* run has raised, a player's owners do not join, or the journal refuses.
Withhold ==
    /\ phase \in Ended \cup {"raised"}
    /\ phase' = "withheld"
    /\ UNCHANGED <<hole, holesPlayed, limits, play, ledger, doc>>

Over == phase \in {"published", "withheld"}

Engine ==
    \/ AwaitConnections
    \/ BeginHole
    \/ StopAtDeadline
    \/ Complete
    \/ Collect
    \/ Check
    \/ CheckFault
    \/ ApplyHole
    \/ ApplyRaises
    \/ Publish
    \/ Withhold

\* The process is on its way out.
Terminated == Over /\ UNCHANGED vars

Next ==
    \/ Engine
    \/ \E d \in Seats : RunEnds(d) \/ RunFault(d)
    \/ Interrupted
    \/ Terminated

Spec == Init /\ [][Next]_vars

(***************************************************************************)
(* Every wait of the engine is bounded, and so is every sandbox run.       *)
(***************************************************************************)
Fairness ==
    /\ WF_vars(Engine)
    /\ \A d \in Seats : WF_vars(RunEnds(d) \/ RunFault(d))

FairSpec == Spec /\ Fairness

--------------------------------------------------------------------------------
(***************************************************************************)
(* Safety                                                                  *)
(***************************************************************************)

\* How far a hole that is started can overrun the budget: by what the reserve
\* lacks of the gap, both batches and both rounds of sandboxes, so not at all
\* with a reserve that covers them; and, whatever the reserve, by no more than
\* the gap, two shortest batches and the sandboxes.  The guard looks at the
\* clock before the gap is slept, so the gap counts.
BudgetKept ==
    hole > 0 =>
        /\ left >= Reserve - (Spacing + HoleWait + RetryWait + 2 * BatchTime)
        /\ left >= -(Spacing + 2 * MinWait + 2 * BatchTime)

\* The tests that pass the reference are fired, each argument list once: the
\* seen set neither lets one through twice nor drops the only one.
FiredOncePerKey ==
    phase = "firing" => \A s \in Seats :
        \A i \in DOMAIN submissions[s] : legality[s][i] \in {"legal", "duplicate"} =>
            Cardinality({j \in Legal(s) : submissions[s][j].key = submissions[s][i].key}) = 1

\* The results a match is ranked by follow from its tallies, and are zero-sum:
\* what one seat's tests broke is what the other's code lost.
ScoresFollowTallies ==
    \A s \in Seats :
        LET us == tallies[s] them == tallies[Other(s)] IN
        /\ us.taken = them.breaches
        /\ us.score = (us.breaches + them.parFails) - (them.breaches + us.parFails)

Count(shots, outcomes) == Cardinality({i \in DOMAIN shots : shots[i] \in outcomes})

\* What a hole record says of a seat, as a tally.
HoleTally(record, s) ==
    LET us == record.seats[s] them == record.seats[Other(s)] IN
    [score |-> us.score,
     breaches |-> Count(us.shots, {"breach"}),
     taken |-> Count(them.shots, {"breach"}),
     parFails |-> us.parFails,
     fired |-> Count(us.shots, {"held", "breach"}),
     illegal |-> Count(us.shots, {"illegal"})]

Total(f) ==
    LET upTo[i \in 0..Len(f)] == IF i = 0 THEN 0 ELSE upTo[i - 1] + f[i] IN upTo[Len(f)]

Recounted == {"score", "breaches", "taken", "parFails", "fired", "illegal"}

TalliesAgree(ts) ==
    \A s \in Seats : \A field \in Recounted :
        ts[s][field] = Total([i \in DOMAIN replay |-> HoleTally(replay[i], s)[field]])

\* Results and replay are published together, and tell the same story: every
\* tally but the fallbacks is that of the recorded holes, and so is their
\* number, in a fault document too.
DocumentAgreesWithReplay ==
    doc # NoDoc => doc.holes = Len(replay) /\ TalliesAgree(doc.tallies)

\* A match is said to be complete exactly when every hole of it was resolved.
CompleteWhenAllPlayed ==
    doc # NoDoc => (doc.reason = "complete" <=> doc.holes = Holes)

--------------------------------------------------------------------------------
(***************************************************************************)
(* The abstract episode, and liveness                                      *)
(***************************************************************************)
Stage ==
    CASE phase \in {"connecting", "between"} -> "between"
      [] phase = "collecting" -> "open"
      [] phase \in {"checking", "firing"} -> "judging"
      [] phase \in Ended \cup {"raised"} -> "ending"
      [] OTHER -> phase

Episode == INSTANCE Match WITH stage <- Stage, opened <- hole, scored <- holesPlayed

\* The hole loop, with its clock, its sandboxes and their faults, goes through
\* the holes as Match has them go.
ImplementsMatch == Episode!Spec

\* The episode ends, whatever the sandboxes do.
EpisodeEnds == <>Over
================================================================================
