------------------------------ MODULE Publication ------------------------------
(***************************************************************************)
(* From the end of play to the exit of the game process: run_episode's     *)
(* tail, Journal.finish, the done broadcast, the spectators of /global,    *)
(* the artifact writes and async_main's exit code (server.py, journal.py,  *)
(* uris.py).  The process may be killed between any two steps and started  *)
(* again on the same destinations.                                         *)
(*                                                                         *)
(* Play is SeatWindow's and HoleLoop's; here it counts holes and ends, and *)
(* the owners join or do not.  The steps of Journal.finish have no await   *)
(* between them: only a crash comes there.                                 *)
(***************************************************************************)
EXTENDS Integers, FiniteSets

CONSTANTS
    Spectators,    \* sockets on /global
    Holes,         \* holes of a match
    HttpAttempts,  \* HTTP_ATTEMPTS of uris.py
    MaxRuns        \* bound: times the process is started

ASSUME PublicationAssumption ==
    {Holes, HttpAttempts, MaxRuns} \subseteq Nat /\ HttpAttempts > 1

VARIABLES
    journaled,    \* COGAME_SAVE_TRAJECTORY_URI is set
    destination,  \* where each artifact goes
    run,          \* the run of the process that is the last one
    stage,        \* where it stands; "off": it is not running
    outcome,      \* what engine.run, or what came after it, ended with
    signalled,    \* a SIGTERM or SIGINT: none, received, or the episode was cancelled
    code,         \* its exit code
    spool,        \* the run whose spool file exists
    staging,      \* the staging file
    archive,      \* the run whose complete archive stands at the final path
    stores,       \* what each artifact's destination holds
    attempt,      \* attempts made of the current write
    errors,       \* the artifacts _write_artifacts failed to write
    joined,       \* the runs whose owners joined
    told,         \* the runs that broadcast done
    hole,         \* GameServer.current_hole
    documented,   \* results_doc is there
    place,        \* where each spectator stands
    seen,         \* the last thing it was told
    sending       \* what the task that sends to it is doing

process == <<run, stage, outcome, signalled, code>>
disk == <<spool, staging, archive>>
public == <<stores, attempt, errors>>
history == <<joined, told>>
feed == <<hole, documented, place, seen, sending>>
vars == <<journaled, destination, process, disk, public, history, feed>>

Runs == 1..MaxRuns
NoRun == 0
Artifacts == {"results", "replay"}
Stages == {"off", "playing", "stopping", "finishing", "staging", "synced",
           "broadcast", "delivering", "results", "replay", "grace", "cleanup"}
Store == [run : Runs \cup {NoRun}, whole : BOOLEAN]
Empty == [run |-> NoRun, whole |-> FALSE]

\* What a spectator was told: nothing, the hole of a status or progress
\* message, or the result.
Nothing == -1
Done == Holes + 1
Seen == Nothing..Done

PublicationTypeOK ==
    /\ journaled \in BOOLEAN
    /\ destination \in [Artifacts -> {"none", "file", "http"}]
    /\ run \in 0..MaxRuns
    /\ stage \in Stages
    /\ outcome \in {"none", "result", "fault", "error", "cancelled"}
    /\ signalled \in {"no", "asked", "seen"}
    /\ code \in {"none", "zero", "one", "killed"}
    /\ spool \in 0..MaxRuns
    /\ staging \in Store
    /\ archive \in 0..MaxRuns
    /\ stores \in [Artifacts -> Store]
    /\ attempt \in 0..(HttpAttempts - 1)
    /\ errors \subseteq Artifacts
    /\ joined \subseteq Runs
    /\ told \subseteq joined
    /\ hole \in 0..Holes
    /\ documented \in BOOLEAN
    /\ place \in [Spectators -> {"out", "greeting", "in", "gone"}]
    /\ seen \in [Spectators -> Seen]
    /\ sending \in [Spectators -> {"idle", "progress", "done"}]

Init ==
    /\ journaled \in BOOLEAN
    /\ destination \in [Artifacts -> {"none", "file", "http"}]
    /\ run = 0
    /\ stage = "off"
    /\ outcome = "none"
    /\ signalled = "no"
    /\ code = "none"
    /\ spool = NoRun
    /\ staging = Empty
    /\ archive = NoRun
    /\ stores = [a \in Artifacts |-> Empty]
    /\ attempt = 0
    /\ errors = {}
    /\ joined = {}
    /\ told = {}
    /\ hole = 0
    /\ documented = FALSE
    /\ place = [s \in Spectators |-> "out"]
    /\ seen = [s \in Spectators |-> Nothing]
    /\ sending = [s \in Spectators |-> "idle"]

Up == stage # "off"
Reading(s) == place[s] = "in"

\* Where the episode's task waits, and the other tasks run.
Awaiting ==
    \/ stage \in {"playing", "stopping", "delivering", "grace", "cleanup"}
    \/ stage = "broadcast" /\ \E s \in Spectators : sending[s] = "progress"
    \/ stage \in Artifacts /\ destination[stage] = "http"

(***************************************************************************)
(* The process and its private archive.                                    *)
(***************************************************************************)

\* Mutant: the spool is opened without O_EXCL.
JournalReopens == archive = NoRun

\* Journal.__init__ opens the spool with O_EXCL, and not at all beside an
\* archive; a refusal ends the process before it serves anything.
JournalOpens == archive = NoRun /\ spool = NoRun

Start ==
    /\ ~Up
    /\ run < MaxRuns
    /\ run' = run + 1
    /\ outcome' = "none"
    /\ signalled' = "no"
    /\ errors' = {}
    /\ attempt' = 0
    /\ hole' = 0
    /\ documented' = FALSE
    /\ place' = [s \in Spectators |-> "out"]
    /\ seen' = [s \in Spectators |-> Nothing]
    /\ sending' = [s \in Spectators |-> "idle"]
    /\ IF journaled => JournalOpens
       THEN /\ stage' = "playing"
            /\ code' = "none"
            /\ spool' = IF journaled THEN run' ELSE spool
       ELSE /\ stage' = "off"
            /\ code' = "one"
            /\ UNCHANGED spool
    /\ UNCHANGED <<journaled, destination, staging, archive, stores, joined, told>>

\* An exception, or the cancellation, leaves run_episode.
Leave(with) ==
    /\ stage' = "cleanup"
    /\ outcome' = with

PlayEnds ==
    /\ stage = "playing"
    /\ outcome' \in {"result", "fault", "error"}
    /\ stage' = "stopping"
    /\ UNCHANGED <<journaled, destination, run, signalled, code, disk, public,
                   history, feed>>

\* run_episode's finally: every player's owner stops, and says whether its
\* evidence joined, before the cleanup deadline.  From there to the
\* broadcast nothing is awaited.
OwnersJoin ==
    /\ stage = "stopping"
    /\ joined' = joined \cup {run}
    /\ IF outcome \in {"error", "cancelled"}
       THEN stage' = "cleanup" /\ UNCHANGED documented
       ELSE /\ documented' = TRUE
            /\ stage' = IF journaled THEN "finishing" ELSE "broadcast"
    /\ UNCHANGED <<journaled, destination, run, outcome, signalled, code, disk, public,
                   told, hole, place, seen, sending>>

\* Mutant: owners that do not join are left behind.
PublishAnyway ==
    /\ stage = "stopping"
    /\ stage' = "broadcast"
    /\ UNCHANGED <<journaled, destination, run, outcome, signalled, code, disk, public,
                   history, feed>>

OwnersUnsettled ==
    /\ stage = "stopping"
    /\ Leave("error")
    /\ UNCHANGED <<journaled, destination, run, signalled, code, disk, public,
                   history, feed>>

\* finish appends the terminal record and creates the staging file; before,
\* it may find evidence that disagrees with what was played, and after, the
\* disk may fail it.
CreateStaging ==
    /\ stage = "finishing"
    /\ staging = Empty
    /\ staging' = [run |-> run, whole |-> FALSE]
    /\ stage' = "staging"
    /\ UNCHANGED <<journaled, destination, run, outcome, signalled, code, spool, archive,
                   public, history, feed>>

FinishRaises ==
    /\ stage \in {"finishing", "staging", "synced"}
    /\ Leave("error")
    /\ UNCHANGED <<journaled, destination, run, signalled, code, disk, public,
                   history, feed>>

SyncStaging ==
    /\ stage = "staging"
    /\ staging' = [staging EXCEPT !.whole = TRUE]
    /\ stage' = "synced"
    /\ UNCHANGED <<journaled, destination, run, outcome, signalled, code, spool, archive,
                   public, history, feed>>

\* os.replace, and the journal is sealed.
Replace ==
    /\ stage = "synced"
    /\ archive' = staging.run
    /\ staging' = Empty
    /\ stage' = "broadcast"
    /\ UNCHANGED <<journaled, destination, run, outcome, signalled, code, spool, public,
                   history, feed>>

(***************************************************************************)
(* /global and the done broadcast.                                         *)
(***************************************************************************)

Snapshot == IF documented THEN Done ELSE hole

\* _handle_global writes the status of the moment, waits until it is
\* drained, and only then joins the set of spectators.
Connect(s) ==
    /\ Awaiting /\ stage # "cleanup"
    /\ place[s] = "out"
    /\ place' = [place EXCEPT ![s] = "greeting"]
    /\ seen' = [seen EXCEPT ![s] = Snapshot]
    /\ UNCHANGED <<journaled, destination, process, disk, public, history, hole,
                   documented, sending>>

Greeted(s) ==
    /\ Awaiting
    /\ place[s] = "greeting"
    /\ place' = [place EXCEPT ![s] = "in"]
    /\ UNCHANGED <<journaled, destination, process, disk, public, history, hole,
                   documented, seen, sending>>

Disconnect(s) ==
    /\ Awaiting
    /\ place[s] \in {"greeting", "in"}
    /\ place' = [place EXCEPT ![s] = "gone"]
    /\ sending' = [sending EXCEPT ![s] = "idle"]
    /\ UNCHANGED <<journaled, destination, process, disk, public, history, hole,
                   documented, seen>>

\* A spectator whose last message is still being drained misses this one.
Deaf(s) == sending[s] # "idle"

\* _on_progress at the end of a hole; the task it makes for a spectator
\* writes at its first step, and nothing of the feed comes before.
Progress ==
    /\ stage = "playing"
    /\ hole < Holes
    /\ hole' = hole + 1
    /\ LET heard == {s \in Spectators : Reading(s) /\ ~Deaf(s)}
       IN /\ seen' = [s \in Spectators |-> IF s \in heard THEN hole' ELSE seen[s]]
          /\ sending' = [s \in Spectators |->
                            IF s \in heard THEN "progress" ELSE sending[s]]
    /\ UNCHANGED <<journaled, destination, process, disk, public, history, documented,
                   place>>

Drained(s) ==
    /\ Awaiting
    /\ sending[s] = "progress"
    /\ sending' = [sending EXCEPT ![s] = "idle"]
    /\ UNCHANGED <<journaled, destination, process, disk, public, history, hole,
                   documented, place, seen>>

\* Mutant: done is one more message of _broadcast_global.
AudienceIdle == {s \in Spectators : Reading(s) /\ ~Deaf(s)}

\* Done goes to every spectator that is in the set, once the tasks that
\* were still sending have been cancelled.
Audience == {s \in Spectators : Reading(s)}

Broadcast ==
    /\ stage = "broadcast"
    /\ stage' = "delivering"
    /\ told' = told \cup {run}
    /\ seen' = [s \in Spectators |-> IF s \in Audience THEN Done ELSE seen[s]]
    /\ sending' = [s \in Spectators |-> IF s \in Audience THEN "done" ELSE "idle"]
    /\ UNCHANGED <<journaled, destination, run, outcome, signalled, code, disk, public,
                   joined, hole, documented, place>>

\* A task that sends, or that closes a socket, outlives its cancellation.
WriterUnsettled ==
    /\ \/ stage = "broadcast" /\ \E s \in Spectators : sending[s] = "progress"
       \/ stage = "delivering" /\ \E s \in Spectators : sending[s] = "done"
    /\ Leave("error")
    /\ UNCHANGED <<journaled, destination, run, signalled, code, disk, public,
                   history, feed>>

\* The message is out and the close handshake is over.
Delivered(s) ==
    /\ Awaiting
    /\ sending[s] = "done"
    /\ sending' = [sending EXCEPT ![s] = "idle"]
    /\ place' = [place EXCEPT ![s] = "gone"]
    /\ UNCHANGED <<journaled, destination, process, disk, public, history, hole,
                   documented, seen>>

\* Mutant: no deadline for the deliveries.
BroadcastWaits ==
    /\ stage = "delivering"
    /\ \A s \in Spectators : sending[s] # "done"
    /\ stage' = "results"
    /\ attempt' = 0
    /\ UNCHANGED <<journaled, destination, run, outcome, signalled, code, disk, stores,
                   errors, history, feed>>

\* Every delivery is over, or was cancelled at the deadline.
BroadcastEnds ==
    /\ stage = "delivering"
    /\ stage' = "results"
    /\ attempt' = 0
    /\ sending' = [s \in Spectators |-> "idle"]
    /\ UNCHANGED <<journaled, destination, run, outcome, signalled, code, disk, stores,
                   errors, history, hole, documented, place, seen>>

(***************************************************************************)
(* The artifacts.                                                          *)
(***************************************************************************)

Writing(a) == stage = a
Following(a) == IF a = "results" THEN "replay" ELSE "grace"

\* Mutant: the errors of the writes are dropped on both paths.
OverQuietly(a, failed) ==
    /\ stage' = Following(a)
    /\ attempt' = 0
    /\ UNCHANGED errors

\* The write of a is over; a failed one is noted.
Over(a, failed) ==
    /\ stage' = Following(a)
    /\ attempt' = 0
    /\ errors' = IF failed THEN errors \cup {a} ELSE errors

Put(a, whole) == stores' = [stores EXCEPT ![a] = [run |-> run, whole |-> whole]]

Skip(a) ==
    /\ Writing(a)
    /\ destination[a] = "none"
    /\ Over(a, FALSE)
    /\ UNCHANGED <<journaled, destination, run, outcome, signalled, code, disk, stores,
                   history, feed>>

\* write_bytes truncates the file first; it awaits nothing.
OpenFile(a) ==
    /\ Writing(a)
    /\ destination[a] = "file"
    /\ attempt = 0
    /\ attempt' = 1
    /\ Put(a, FALSE)
    /\ UNCHANGED <<journaled, destination, process, disk, errors, history, feed>>

FileWritten(a) ==
    /\ Writing(a)
    /\ destination[a] = "file"
    /\ attempt = 1
    /\ Put(a, TRUE)
    /\ Over(a, FALSE)
    /\ UNCHANGED <<journaled, destination, run, outcome, signalled, code, disk, history,
                   feed>>

FileFails(a) ==
    /\ Writing(a)
    /\ destination[a] = "file"
    /\ Over(a, TRUE)
    /\ UNCHANGED <<journaled, destination, run, outcome, signalled, code, disk, stores,
                   history, feed>>

PutSucceeds(a) ==
    /\ Writing(a)
    /\ destination[a] = "http"
    /\ Put(a, TRUE)
    /\ Over(a, FALSE)
    /\ UNCHANGED <<journaled, destination, run, outcome, signalled, code, disk, history,
                   feed>>

\* The last attempt that fails fails the write.
LastAttempt == attempt + 1 = HttpAttempts

\* The destination may have the document although its answer was lost.
PutFails(a) ==
    /\ Writing(a)
    /\ destination[a] = "http"
    /\ Put(a, TRUE) \/ UNCHANGED stores
    /\ IF LastAttempt
       THEN Over(a, TRUE)
       ELSE attempt' = attempt + 1 /\ UNCHANGED <<stage, errors>>
    /\ UNCHANGED <<journaled, destination, run, outcome, signalled, code, disk, history,
                   feed>>

(***************************************************************************)
(* Signals, exit and crash.                                                *)
(***************************************************************************)

Signal ==
    /\ Up
    /\ signalled = "no"
    /\ signalled' = "asked"
    /\ UNCHANGED <<journaled, destination, run, stage, outcome, code, disk, public,
                   history, feed>>

\* The episode's task is cancelled once, where it waits.  Play still stops
\* the players' owners; a cancellation during the cleanup replaces what
\* the episode had come to.
Cancelled ==
    /\ signalled = "asked"
    /\ Awaiting
    /\ signalled' = "seen"
    /\ outcome' = "cancelled"
    /\ stage' = IF stage = "playing" THEN "stopping" ELSE "cleanup"
    /\ UNCHANGED <<journaled, destination, run, code, disk, public, history, feed>>

\* The fault path drops the errors of the writes.
GraceOver ==
    /\ stage = "grace"
    /\ Leave(IF outcome = "result" /\ errors # {} THEN "error" ELSE outcome)
    /\ UNCHANGED <<journaled, destination, run, signalled, code, disk, public,
                   history, feed>>

\* async_main closes the HTTP server and run_owned joins what is left; that
\* may take longer than the deadline.
Exit ==
    /\ stage = "cleanup"
    /\ stage' = "off"
    /\ code' \in IF outcome = "error" THEN {"one"} ELSE {"zero", "one"}
    /\ UNCHANGED <<journaled, destination, run, outcome, signalled, disk, public,
                   history, feed>>

Crash ==
    /\ Up
    /\ stage' = "off"
    /\ code' = "killed"
    /\ UNCHANGED <<journaled, destination, run, outcome, signalled, disk, public,
                   history, feed>>

Idle == ~Up /\ run = MaxRuns /\ UNCHANGED vars

Episode ==
    \/ PlayEnds \/ OwnersJoin \/ OwnersUnsettled
    \/ CreateStaging \/ SyncStaging \/ Replace
    \/ Broadcast \/ BroadcastEnds
    \/ \E a \in Artifacts :
           Skip(a) \/ OpenFile(a) \/ FileWritten(a) \/ PutSucceeds(a) \/ PutFails(a)
    \/ Cancelled \/ GraceOver \/ Exit

World ==
    \/ Start \/ Progress \/ Signal \/ Crash
    \/ FinishRaises \/ WriterUnsettled
    \/ \E a \in Artifacts : FileFails(a)
    \/ \E s \in Spectators :
           Connect(s) \/ Greeted(s) \/ Disconnect(s) \/ Drained(s) \/ Delivered(s)

Next == Episode \/ World \/ Idle

Spec == Init /\ [][Next]_vars

\* Every wait of the process has a deadline: play's is HoleLoop's, the
\* others' the cleanup budget, DONE_SEND_TIMEOUT_SECONDS and the timeouts of
\* uris.py.
FairSpec == Spec /\ WF_vars(Episode)

(***************************************************************************)
(* Properties.                                                             *)
(***************************************************************************)

Promise == INSTANCE Archive
    WITH written <- {stores[a].run : a \in Artifacts} \ {NoRun}

\* Over every run and every crash the archive stands complete at most once,
\* of a run whose owners joined; done is said after it, the artifacts are
\* written after done (run_episode, Journal.finish).
ImplementsArchive == Promise!ArchiveSpec

\* No run loses the evidence of an earlier one, and a staged archive goes
\* nowhere but to the final path (Journal.__init__, finish).
EvidenceKept ==
    [][/\ spool # NoRun => spool' = spool
       /\ staging.run # NoRun =>
              \/ staging'.run = staging.run
              \/ staging.whole /\ archive' = staging.run]_vars

\* A process that played to the end and exits with 0 has said done, left a
\* complete archive if it was asked for one, and written every artifact
\* whole, whatever failed on the way (run_episode, write_uri).
ZeroMeansPublished ==
    code = "zero" /\ outcome = "result" =>
        /\ run \in told
        /\ journaled => archive = run
        /\ \A a \in Artifacts :
               destination[a] # "none" => stores[a] = [run |-> run, whole |-> TRUE]

\* A spectator that follows the match when it is over is told the result,
\* even if an earlier message has not left yet, unless it leaves or the
\* process fails, is stopped or is killed (_broadcast_done).
ReadersHearDone ==
    \A s \in Spectators :
        stage = "broadcast" /\ Reading(s) ~>
            \/ seen[s] = Done
            \/ ~Reading(s)
            \/ outcome \in {"error", "cancelled"} \/ code = "killed"

\* No spectator, player or destination keeps the process from ending.
ProcessEnds == Up ~> ~Up
================================================================================
