--------------------------- MODULE PublicationProofs ---------------------------
(***************************************************************************)
(* Publication implements Archive, keeps its evidence and exits with 0     *)
(* only when it has published, for every number of runs, holes, attempts   *)
(* and spectators.                                                         *)
(***************************************************************************)
EXTENDS Publication, TLAPS

Finishing == {"finishing", "staging", "synced"}
Public == {"broadcast", "delivering", "results", "replay", "grace"}

\* The parts of the invariant that are about the order of things.
Stored(a) == destination[a] # "none" => stores[a] = [run |-> run, whole |-> TRUE]
Settled(a) == Stored(a) \/ a \in errors

Ordered ==
    /\ stage # "off" => run \in Runs /\ code = "none"
    /\ stage \in Finishing \cup Public => run \in joined
    /\ stage \in Public \ {"broadcast"} => run \in told
    /\ stage \in {"playing", "stopping"} \cup Finishing /\ journaled => archive = NoRun
    /\ stage \in Finishing => journaled
    /\ stage \in {"staging", "synced"} => staging.run = run
    /\ stage = "synced" => staging.whole
    /\ stage \in Public /\ journaled => archive = run

Exact ==
    /\ stage \in {"replay", "grace"} => Settled("results")
    /\ stage = "grace" => Settled("replay")
    /\ stage = "cleanup" /\ outcome = "result" =>
           /\ run \in told
           /\ journaled => archive = run
           /\ \A a \in Artifacts : Stored(a)
    /\ ZeroMeansPublished

(***************************************************************************)
(* Type correctness, with the order.                                       *)
(***************************************************************************)

\* The initial state of Publication has its type and its order.
LEMMA InitOrdered == Init => PublicationTypeOK /\ Ordered /\ Exact
  <1>. SUFFICES ASSUME Init PROVE PublicationTypeOK /\ Ordered /\ Exact
    OBVIOUS
  <1>1. PublicationTypeOK
    <2>. Holes \in Nat /\ HttpAttempts \in Nat /\ HttpAttempts > 1 /\ MaxRuns \in Nat
      BY PublicationAssumption
    <2>1. Nothing \in Seen /\ 0 \in 0..MaxRuns /\ 0 \in 0..Holes /\ 0 \in 0..(HttpAttempts - 1)
      BY DEF Nothing, Seen, Done
    <2>3. Empty \in Store
      BY DEF Empty, Store, NoRun
    <2>2. [s \in Spectators |-> Nothing] \in [Spectators -> Seen]
      BY <2>1
    <2>. QED
      BY <2>1, <2>2, <2>3 DEF Init, PublicationTypeOK, Stages, NoRun
  <1>2. Ordered /\ Exact
    BY DEF Init, Ordered, Exact, ZeroMeansPublished, Finishing, Public, NoRun
  <1>. QED
    BY <1>1, <1>2

\* A step of the process or the disk keeps the types and the order.
LEMMA EpisodeOrdered ==
  ASSUME PublicationTypeOK, Ordered, Episode
  PROVE  PublicationTypeOK' /\ Ordered'
  <1>. USE PublicationAssumption DEF PublicationTypeOK, Ordered, Stages, Store, Runs,
           NoRun, Seen, Nothing, Done, Finishing, Public, process, disk, public,
           history, feed
  <1>1. CASE PlayEnds
    BY <1>1 DEF PlayEnds
  <1>2. CASE OwnersJoin
    <2>1. run \in Runs /\ joined' = joined \cup {run}
      BY <1>2 DEF OwnersJoin
    <2>2. joined' \subseteq Runs /\ told' \subseteq joined'
      BY <1>2, <2>1 DEF OwnersJoin
    <2>3. Ordered'
      BY <1>2, <2>1 DEF OwnersJoin
    <2>. QED
      BY <1>2, <2>2, <2>3 DEF OwnersJoin
  <1>3. CASE OwnersUnsettled
    BY <1>3 DEF OwnersUnsettled, Leave
  <1>4. CASE CreateStaging
    BY <1>4 DEF CreateStaging, Empty
  <1>5. CASE SyncStaging
    BY <1>5 DEF SyncStaging
  <1>6. CASE Replace
    BY <1>6 DEF Replace, Empty
  <1>7. CASE Broadcast
    <2>1. run \in joined /\ told' = told \cup {run} /\ joined' = joined
      BY <1>7 DEF Broadcast
    <2>2. joined' \subseteq Runs /\ told' \subseteq joined'
      BY <2>1
    <2>3. seen' \in [Spectators -> Seen]
      <3>1. Done \in Seen
        OBVIOUS
      <3>. QED
        BY <1>7, <3>1 DEF Broadcast
    <2>4. sending' \in [Spectators -> {"idle", "progress", "done"}]
      BY <1>7 DEF Broadcast
    <2>5. Ordered'
      BY <1>7, <2>1 DEF Broadcast
    <2>. QED
      BY <1>7, <2>2, <2>3, <2>4, <2>5 DEF Broadcast
  <1>8. CASE BroadcastEnds
    BY <1>8 DEF BroadcastEnds
  <1>9. ASSUME NEW a \in Artifacts, Skip(a)
        PROVE  PublicationTypeOK' /\ Ordered'
    BY <1>9 DEF Skip, Writing, Over, Following, Artifacts
  <1>10. ASSUME NEW a \in Artifacts, OpenFile(a)
         PROVE  PublicationTypeOK' /\ Ordered'
    BY <1>10 DEF OpenFile, Writing, Put, Artifacts
  <1>11. ASSUME NEW a \in Artifacts, FileWritten(a)
         PROVE  PublicationTypeOK' /\ Ordered'
    BY <1>11 DEF FileWritten, Writing, Over, Following, Put, Artifacts
  <1>12. ASSUME NEW a \in Artifacts, PutSucceeds(a)
         PROVE  PublicationTypeOK' /\ Ordered'
    BY <1>12 DEF PutSucceeds, Writing, Over, Following, Put, Artifacts
  <1>13. ASSUME NEW a \in Artifacts, PutFails(a)
         PROVE  PublicationTypeOK' /\ Ordered'
    <2>. USE DEF Writing, Over, Following, Put, Artifacts
    <2>4. run \in Runs /\ stage = a
      BY <1>13 DEF PutFails
    <2>1. stores' \in [Artifacts -> Store]
      <3>1. CASE stores' = stores
        BY <3>1
      <3>2. CASE stores' = [stores EXCEPT ![a] = [run |-> run, whole |-> TRUE]]
        BY <3>2, <2>4
      <3>. QED
        BY <1>13, <3>1, <3>2 DEF PutFails
    <2>5. UNCHANGED <<journaled, destination, run, outcome, signalled, code, disk, history,
                      feed>>
      BY <1>13 DEF PutFails
    <2>2. CASE LastAttempt
      <3>1. Over(a, TRUE)
        BY <1>13, <2>2 DEF PutFails
      <3>. QED
        BY PublicationAssumption, <3>1, <2>1, <2>4, <2>5
    <2>3. CASE ~LastAttempt
      <3>. HttpAttempts \in Nat /\ HttpAttempts > 1
        BY PublicationAssumption
      <3>1. attempt' = attempt + 1 /\ UNCHANGED <<stage, errors>>
        BY <1>13, <2>3 DEF PutFails
      <3>2. attempt' \in 0..(HttpAttempts - 1)
        BY <3>1, <2>3 DEF LastAttempt
      <3>. QED
        BY <2>1, <2>4, <2>5, <3>1, <3>2
    <2>. QED
      BY <2>2, <2>3
  <1>14. CASE Cancelled
    BY <1>14 DEF Cancelled, Awaiting, Artifacts
  <1>15. CASE GraceOver
    BY <1>15 DEF GraceOver, Leave
  <1>16. CASE Exit
    BY <1>16 DEF Exit
  <1>. QED
    BY <1>1, <1>2, <1>3, <1>4, <1>5, <1>6, <1>7, <1>8, <1>9, <1>10, <1>11, <1>12,
       <1>13, <1>14, <1>15, <1>16 DEF Episode

\* So does a step of the world around the process.
LEMMA WorldOrdered ==
  ASSUME PublicationTypeOK, Ordered, World
  PROVE  PublicationTypeOK' /\ Ordered'
  <1>. USE PublicationAssumption DEF PublicationTypeOK, Ordered, Stages, Store, Runs,
           NoRun, Seen, Finishing, Public, process, disk, public, history, feed
  <1>1. CASE Start
    <2>. Holes \in Nat /\ MaxRuns \in Nat /\ HttpAttempts \in Nat /\ HttpAttempts > 1
      OBVIOUS
    <2>1. Nothing \in Seen /\ 0 \in 0..Holes /\ 0 \in 0..(HttpAttempts - 1)
      BY DEF Nothing, Done
    <2>2. seen' \in [Spectators -> Seen]
      BY <1>1, <2>1 DEF Start
    <2>3. run' \in 1..MaxRuns
      BY <1>1 DEF Start, Up
    <2>4. spool' \in 0..MaxRuns
      BY <1>1, <2>3 DEF Start
    <2>5. /\ place' \in [Spectators -> {"out", "greeting", "in", "gone"}]
          /\ sending' \in [Spectators -> {"idle", "progress", "done"}]
      BY <1>1 DEF Start
    <2>6. PublicationTypeOK'
      <3>1. stage' \in {"off", "playing"} /\ code' \in {"none", "one"}
        BY <1>1 DEF Start
      <3>2. /\ outcome' = "none" /\ signalled' = "no" /\ errors' = {} /\ attempt' = 0
            /\ hole' = 0 /\ documented' = FALSE
            /\ UNCHANGED <<journaled, destination, staging, archive, stores, joined, told>>
        BY <1>1 DEF Start
      <3>. QED
        <4>1. run' \in 0..MaxRuns /\ errors' \subseteq Artifacts
          BY <2>3, <3>2
        <4>2. stage' \in Stages /\ code' \in {"none", "zero", "one", "killed"}
          BY <3>1
        <4>3. hole' \in 0..Holes /\ attempt' \in 0..(HttpAttempts - 1)
          BY <2>1, <3>2
        <4>. QED
          BY <2>2, <2>4, <2>5, <3>2, <4>1, <4>2, <4>3
    <2>7. Ordered'
      <3>1. stage' \in {"off", "playing"} /\ UNCHANGED <<journaled, archive>>
        BY <1>1 DEF Start
      <3>2. stage' = "playing" => code' = "none"
        BY <1>1 DEF Start
      <3>3. stage' = "playing" /\ journaled => archive = NoRun
        BY <1>1 DEF Start, JournalOpens
      <3>. QED
        BY <2>3, <3>1, <3>2, <3>3
    <2>. QED
      BY <2>6, <2>7
  <1>2. CASE Progress
    <2>1. hole' \in 0..Holes /\ hole' \in Seen
      BY <1>2 DEF Progress, Nothing, Done
    <2>2. seen' \in [Spectators -> Seen]
      BY <1>2, <2>1 DEF Progress
    <2>3. sending' \in [Spectators -> {"idle", "progress", "done"}]
      BY <1>2 DEF Progress
    <2>. QED
      BY <1>2, <2>1, <2>2, <2>3 DEF Progress
  <1>3. CASE Signal
    BY <1>3 DEF Signal
  <1>4. CASE Crash
    BY <1>4 DEF Crash
  <1>5. CASE FinishRaises
    BY <1>5 DEF FinishRaises, Leave
  <1>6. CASE WriterUnsettled
    BY <1>6 DEF WriterUnsettled, Leave
  <1>7. ASSUME NEW a \in Artifacts, FileFails(a)
        PROVE  PublicationTypeOK' /\ Ordered'
    BY <1>7 DEF FileFails, Writing, Over, Following, Artifacts
  <1>8. ASSUME NEW s \in Spectators, Connect(s)
        PROVE  PublicationTypeOK' /\ Ordered'
    <2>1. Snapshot \in Seen
      BY DEF Snapshot, Nothing, Done
    <2>. QED
      BY <1>8, <2>1 DEF Connect
  <1>9. ASSUME NEW s \in Spectators,
               Greeted(s) \/ Disconnect(s) \/ Drained(s) \/ Delivered(s)
        PROVE  PublicationTypeOK' /\ Ordered'
    <2>1. UNCHANGED <<journaled, destination, process, disk, public, history, hole,
                      documented, seen>>
      BY <1>9 DEF Greeted, Disconnect, Drained, Delivered
    <2>2. place' \in [Spectators -> {"out", "greeting", "in", "gone"}]
      <3>1. PICK here \in {"in", "gone"} : place' \in {place, [place EXCEPT ![s] = here]}
        BY <1>9 DEF Greeted, Disconnect, Drained, Delivered
      <3>. QED
        BY <3>1
    <2>3. sending' \in {sending, [sending EXCEPT ![s] = "idle"]}
      BY <1>9 DEF Greeted, Disconnect, Drained, Delivered
    <2>4. sending' \in [Spectators -> {"idle", "progress", "done"}]
      BY <2>3
    <2>. QED
      BY <2>1, <2>2, <2>4
  <1>. QED
    BY <1>1, <1>2, <1>3, <1>4, <1>5, <1>6, <1>7, <1>8, <1>9 DEF World

(***************************************************************************)
(* Exit code 0 means published.                                            *)
(***************************************************************************)

\* What Exact says stands through every step that writes no artifact, ends
\* none and does not leave the process.
LEMMA ExactStands ==
  ASSUME PublicationTypeOK, Ordered, Exact,
         UNCHANGED <<journaled, destination, run, code, archive, stores, errors>>,
         told \subseteq told',
         \/ UNCHANGED <<stage, outcome>>
         \/ stage' \notin {"replay", "grace", "off"} /\ code = "none"
                /\ (stage' = "cleanup" => outcome' # "result")
  PROVE  Exact'
  BY DEF Exact, ZeroMeansPublished, Settled, Stored, Artifacts

\* A step of the process or of the world keeps Exact.
LEMMA StepExact ==
  ASSUME PublicationTypeOK, Ordered, Exact, Episode \/ World
  PROVE  Exact'
  <1>. USE DEF process, disk, public, history, feed
  <1>1. CASE PlayEnds \/ OwnersUnsettled \/ CreateStaging \/ SyncStaging \/ Broadcast
             \/ FinishRaises \/ WriterUnsettled
    <2>1. code = "none"
      BY <1>1 DEF PlayEnds, OwnersUnsettled, CreateStaging, SyncStaging, Broadcast,
                  FinishRaises, WriterUnsettled, Ordered
    <2>. QED
      BY <1>1, <2>1, ExactStands
      DEF PlayEnds, OwnersUnsettled, CreateStaging, SyncStaging, Broadcast,
          FinishRaises, WriterUnsettled, Leave
  <1>2. CASE OwnersJoin \/ BroadcastEnds
    <2>1. code = "none"
      BY <1>2 DEF OwnersJoin, BroadcastEnds, Ordered
    <2>. QED
      BY <1>2, <2>1, ExactStands DEF OwnersJoin, BroadcastEnds
  <1>3. CASE Cancelled
    <2>1. code = "none"
      BY <1>3 DEF Cancelled, Awaiting, Artifacts, Ordered
    <2>. QED
      BY <1>3, <2>1, ExactStands DEF Cancelled
  <1>4. CASE Progress \/ Signal
    BY <1>4, ExactStands DEF Progress, Signal
  <1>5. ASSUME NEW s \in Spectators,
               Connect(s) \/ Greeted(s) \/ Disconnect(s) \/ Drained(s) \/ Delivered(s)
        PROVE  Exact'
    BY <1>5, ExactStands DEF Connect, Greeted, Disconnect, Drained, Delivered
  <1>6. CASE Replace
    BY <1>6 DEF Replace, Exact, ZeroMeansPublished, Ordered
  <1>7. ASSUME NEW a \in Artifacts,
               Skip(a) \/ OpenFile(a) \/ FileWritten(a) \/ FileFails(a) \/ PutSucceeds(a)
                   \/ PutFails(a)
        PROVE  Exact'
    <2>1. /\ stage = a
          /\ code = "none" /\ code' = "none"
          /\ UNCHANGED <<destination, run>>
          /\ stage' \in {a, Following(a)}
          /\ \A b \in Artifacts \ {a} : stores'[b] = stores[b]
          /\ errors \subseteq errors'
      BY <1>7 DEF PublicationTypeOK, Ordered, Skip, OpenFile, FileWritten, FileFails, PutSucceeds, PutFails,
                  Writing, Over, Put, Artifacts
    <2>2. stage' # a => Settled(a)'
      BY <1>7, <2>1
      DEF PublicationTypeOK, Skip, OpenFile, FileWritten, FileFails, PutSucceeds, PutFails, Over, Put,
          Settled, Stored
    <2>3. \A b \in Artifacts \ {a} : Settled(b) => Settled(b)'
      BY <2>1 DEF Settled, Stored
    <2>. QED
      BY <2>1, <2>2, <2>3 DEF Exact, ZeroMeansPublished, Following, Artifacts
  <1>8. CASE GraceOver
    BY <1>8 DEF GraceOver, Leave, Exact, ZeroMeansPublished, Ordered, Public, Settled,
                Stored, Artifacts
  <1>9. CASE Exit
    BY <1>9 DEF Exit, Exact, ZeroMeansPublished, Ordered, Stored
  <1>10. CASE Start \/ Crash
    BY <1>10 DEF Start, Crash, Exact, ZeroMeansPublished
  <1>. QED
    BY <1>1, <1>2, <1>3, <1>4, <1>5, <1>6, <1>7, <1>8, <1>9, <1>10 DEF Episode, World

Invariant == PublicationTypeOK /\ Ordered /\ Exact

\* The invariant is inductive.
LEMMA NextInvariant == Invariant /\ [Next]_vars => Invariant'
  <1>. SUFFICES ASSUME Invariant, [Next]_vars PROVE Invariant'
    OBVIOUS
  <1>1. CASE Episode
    BY <1>1, EpisodeOrdered, StepExact DEF Invariant
  <1>2. CASE World
    BY <1>2, WorldOrdered, StepExact DEF Invariant
  <1>3. CASE UNCHANGED vars
    BY <1>3 DEF Invariant, vars, process, disk, public, history, feed, PublicationTypeOK,
                Ordered, Exact, ZeroMeansPublished, Settled, Stored, Stages, Artifacts
  <1>. QED
    BY <1>1, <1>2, <1>3 DEF Next, Idle

\* Every reachable state of the process and its destinations has its type
\* and its order.
THEOREM InvariantHolds == Spec => []Invariant
  <1>1. Init => Invariant
    BY InitOrdered DEF Invariant
  <1>. QED
    BY <1>1, NextInvariant, PTL DEF Spec

\* Exit code 0 of a match that was played out means that everything was
\* published.
THEOREM ZeroIsPublished == Spec => []ZeroMeansPublished
  <1>1. Invariant => ZeroMeansPublished
    BY DEF Invariant, Exact
  <1>. QED
    BY <1>1, InvariantHolds, PTL

\* Publication has its type.
THEOREM PublicationTyped == Spec => []PublicationTypeOK
  <1>1. Invariant => PublicationTypeOK
    BY DEF Invariant
  <1>. QED
    BY <1>1, InvariantHolds, PTL

(***************************************************************************)
(* Evidence, and the abstract archive.                                     *)
(***************************************************************************)

\* No run loses the evidence of another.
THEOREM EvidenceStays == Spec => EvidenceKept
  <1>1. Invariant /\ [Next]_vars =>
            [/\ spool # NoRun => spool' = spool
             /\ staging.run # NoRun =>
                    \/ staging'.run = staging.run
                    \/ staging.whole /\ archive' = staging.run]_vars
    <2>. SUFFICES ASSUME Invariant, Next
                  PROVE  /\ spool # NoRun => spool' = spool
                         /\ staging.run # NoRun =>
                                \/ staging'.run = staging.run
                                \/ staging.whole /\ archive' = staging.run
      OBVIOUS
    <2>. USE DEF process, disk, public, history, feed
    <2>1. CASE Start
      BY <2>1 DEF Start, JournalOpens
    <2>2. CASE CreateStaging
      BY <2>2 DEF CreateStaging, Empty
    <2>3. CASE SyncStaging
      BY <2>3 DEF SyncStaging, Invariant, PublicationTypeOK, Store
    <2>4. CASE Replace
      BY <2>4 DEF Replace, Invariant, Ordered
    <2>5. CASE UNCHANGED <<spool, staging>>
      BY <2>5
    <2>6. CASE Episode
      BY <2>2, <2>3, <2>4, <2>5, <2>6
      DEF Episode, PlayEnds, OwnersJoin, OwnersUnsettled, Broadcast, BroadcastEnds, Skip,
          OpenFile, FileWritten, PutSucceeds, PutFails, Cancelled, GraceOver, Exit
    <2>7. CASE World
      BY <2>1, <2>5, <2>7
      DEF World, Progress, Signal, Crash, FinishRaises, WriterUnsettled, FileFails, Connect,
          Greeted, Disconnect, Drained, Delivered
    <2>. QED
      BY <2>5, <2>6, <2>7 DEF Next, Idle, vars
  <1>. QED
    BY <1>1, InvariantHolds, PTL DEF Spec, EvidenceKept

Written == {stores[a].run : a \in Artifacts} \ {NoRun}

\* A step that leaves the archive's state alone is a stutter of Archive.
LEMMA Stutters ==
  ASSUME UNCHANGED <<journaled, joined, archive, told, stores>>
  PROVE  UNCHANGED <<journaled, joined, archive, told, Written>>
  BY DEF Written

\* A write of an artifact is a Write of Archive.
LEMMA WriteMaps ==
  ASSUME Invariant, NEW a \in Artifacts, stage = a,
         UNCHANGED <<journaled, joined, archive, told>>,
         NEW whole \in BOOLEAN,
         stores' = [stores EXCEPT ![a] = [run |-> run, whole |-> whole]]
  PROVE  Promise!Write(run) /\ run \in Runs
  <1>1. run \in told /\ run \in Runs /\ run # NoRun
    BY DEF Invariant, Ordered, Public, Artifacts, Runs, NoRun
  <1>2. stores \in [Artifacts -> Store]
    BY DEF Invariant, PublicationTypeOK
  <1>3. stores'[a].run = run /\ \A b \in Artifacts \ {a} : stores'[b] = stores[b]
    BY <1>2
  <1>4. Written' = (Written \cap Written') \cup {run}
    BY <1>1, <1>3 DEF Written
  <1>. QED
    BY <1>1, <1>4 DEF Promise!Write, Written

\* Every step of Publication is a step of Archive, or leaves it alone.
LEMMA StepMaps ==
  ASSUME Invariant, Next
  PROVE  Promise!ArchiveNext \/ UNCHANGED <<journaled, joined, archive, told, Written>>
  <1>. USE DEF process, disk, public, history, feed
  <1>1. CASE OwnersJoin
    <2>1. run \in Runs
      BY <1>1 DEF OwnersJoin, Invariant, Ordered
    <2>2. Promise!Join(run)
      BY <1>1 DEF OwnersJoin, Promise!Join
    <2>. QED
      BY <2>1, <2>2 DEF Promise!ArchiveNext
  <1>2. CASE Replace
    <2>1. run \in Runs /\ Promise!Seal(run)
      BY <1>2 DEF Replace, Promise!Seal, Invariant, Ordered, Finishing
    <2>. QED
      BY <2>1 DEF Promise!ArchiveNext
  <1>3. CASE Broadcast
    <2>1. run \in Runs /\ Promise!Announce(run)
      BY <1>3 DEF Broadcast, Promise!Announce, Invariant, Ordered, Public
    <2>. QED
      BY <2>1 DEF Promise!ArchiveNext
  <1>4. ASSUME NEW a \in Artifacts,
               OpenFile(a) \/ FileWritten(a) \/ PutSucceeds(a) \/ PutFails(a)
        PROVE  Promise!ArchiveNext \/ UNCHANGED <<journaled, joined, archive, told, Written>>
    <2>1. stage = a /\ UNCHANGED <<journaled, joined, archive, told>>
      BY <1>4 DEF OpenFile, FileWritten, PutSucceeds, PutFails, Writing
    <2>2. \/ UNCHANGED stores
          \/ \E whole \in BOOLEAN :
                 stores' = [stores EXCEPT ![a] = [run |-> run, whole |-> whole]]
      BY <1>4 DEF OpenFile, FileWritten, PutSucceeds, PutFails, Put
    <2>3. CASE UNCHANGED stores
      BY <2>1, <2>3, Stutters
    <2>4. ASSUME NEW whole \in BOOLEAN,
                 stores' = [stores EXCEPT ![a] = [run |-> run, whole |-> whole]]
          PROVE  Promise!ArchiveNext
      <3>1. Promise!Write(run) /\ run \in Runs
        BY <2>1, <2>4, WriteMaps
      <3>. QED
        BY <3>1 DEF Promise!ArchiveNext, Promise!Write, Written
    <2>. QED
      BY <2>2, <2>3, <2>4
  <1>5. CASE UNCHANGED <<journaled, joined, archive, told, stores>>
    BY <1>5, Stutters
  <1>6. CASE Episode
    BY <1>1, <1>2, <1>3, <1>4, <1>5, <1>6
    DEF Episode, PlayEnds, OwnersUnsettled, CreateStaging, SyncStaging, BroadcastEnds, Skip,
        Cancelled, GraceOver, Exit
  <1>7. CASE World
    BY <1>5, <1>7
    DEF World, Start, Progress, Signal, Crash, FinishRaises, WriterUnsettled, FileFails,
        Connect, Greeted, Disconnect, Drained, Delivered
  <1>. QED
    BY <1>5, <1>6, <1>7 DEF Next, Idle, vars

\* Publication implements Archive: the archive is sealed once and after the
\* joins, done is said after it, artifacts are written after done.
THEOREM PublicationImplementsArchive == Spec => ImplementsArchive
  <1>1. Init => Promise!ArchiveInit
    BY DEF Init, Promise!ArchiveInit, Empty, NoRun
  <1>2. Invariant /\ [Next]_vars => [Promise!ArchiveNext]_(Promise!archiveVars)
    <2>. SUFFICES ASSUME Invariant, [Next]_vars
                  PROVE  Promise!ArchiveNext
                            \/ UNCHANGED <<journaled, joined, archive, told, Written>>
      BY DEF Promise!archiveVars, Written
    <2>1. CASE Next
      BY <2>1, StepMaps
    <2>2. CASE UNCHANGED vars
      BY <2>2, Stutters DEF vars, disk, public, history
    <2>. QED
      BY <2>1, <2>2
  <1>. QED
    BY <1>1, <1>2, InvariantHolds, PTL DEF Spec, ImplementsArchive, Promise!ArchiveSpec
================================================================================
