-------------------------------- MODULE Sandbox --------------------------------
(***************************************************************************)
(* One batch of calls: Sandbox.run (sandbox.py), the child it spawns       *)
(* (sandbox_runner.py), and what the batch says of each call.              *)
(*                                                                         *)
(* The parent owns the spawn, the child, a reader of each stream, the      *)
(* writer of the job and a wait for the exit; the batch deadline, the      *)
(* output limit and a cancellation may cut any of them at any time.  The   *)
(* submitted code is anything: it may print, hang, or end the child.  What *)
(* it prints is read with the runner's own lines, and may read like them.  *)
(* A line of output stands for a fixed share of the output limit.          *)
(***************************************************************************)
EXTENDS Integers, Sequences

CONSTANTS
    Calls,     \* the number of calls of the batch
    MaxLines,  \* MAX_RECEIVED_STREAM_BYTES, in lines
    MaxNoise   \* bound: what the submitted code prints itself on stdout

ASSUME SandboxAssumption == {Calls, MaxLines, MaxNoise} \subseteq Nat

VARIABLES
    phase,       \* where run stands
    failure,     \* the exception on its way out of it
    spawned,     \* create_subprocess_exec
    child,       \* where the runner stands
    ended,       \* how it ended
    at,          \* the call it is at
    answers,     \* what it made of each call
    written,     \* the lines it flushed to stdout
    unfinished,  \* the submitted code left a line without its end
    noise,       \* how much it has printed
    spilled,     \* it has written more than the limit to stderr
    killed,      \* proc.kill()
    read,        \* lines taken from the pipe
    kept,        \* lines that are whole in the capture
    flooded,     \* the reader of stderr has seen the limit
    tasks,       \* stdout, stderr, the job's writer and proc.wait()
    workdir,     \* the private working directory
    outcome      \* what run came to

runner == <<child, ended, at, answers, written, unfinished, noise, spilled>>
capture == <<read, kept, flooded>>
parent == <<phase, failure, spawned, killed, capture, tasks, workdir, outcome>>
vars == <<runner, parent>>

Ids == 0..(Calls - 1)
Kinds == {"ok", "error", "timeout", "bad_value"}
Streams == {"stdout", "stderr", "job", "wait"}
Phases == {"spawning", "running", "reaping", "draining", "ended"}

\* A line, by what _parse makes of it: the verdict of the runner on a call, what
\* the submitted code claims of one (whatever that is), a reason why the
\* implementation is broken, or nothing.
Line == [id : Ids \cup {-1}, kind : Kinds \cup {"claimed", "broken", "noise"}]
Claim(i) == [id |-> i, kind |-> "claimed"]
BrokenLine == [id |-> -1, kind |-> "broken"]
Noise == [id |-> -1, kind |-> "noise"]

Limit == read > MaxLines \/ flooded
Alive == child \in {"reading", "loading", "calling"}
Joined(t) == tasks[t] \in {"done", "failed"}

SandboxTypeOK ==
    /\ phase \in Phases
    /\ failure \in {"none", "acquisition", "spawn", "cancelled"}
    /\ spawned \in {"pending", "error", "child"}
    /\ child \in {"none", "reading", "loading", "calling", "exited"}
    /\ ended \in {"no", "finished", "broken", "died", "killed"}
    /\ at \in 0..Calls
    /\ answers \in [Ids -> Kinds \cup {"none"}]
    /\ written \in Seq(Line)
    /\ unfinished \in BOOLEAN
    /\ noise \in 0..MaxNoise
    /\ spilled \in BOOLEAN
    /\ killed \in BOOLEAN
    /\ read \in 0..Len(written)
    /\ kept \in 0..read
    /\ flooded \in BOOLEAN
    /\ tasks \in [Streams -> {"none", "running", "done", "failed"}]
    /\ workdir \in {"there", "removed", "kept"}
    /\ outcome \in {"none", "returned", "sandbox_error", "unsettled", "raised",
                    "cancelled", "interrupted"}

Init ==
    /\ phase = "spawning"
    /\ failure = "none"
    /\ spawned = "pending"
    /\ child = "none"
    /\ ended = "no"
    /\ at = 0
    /\ answers = [i \in Ids |-> "none"]
    /\ written = <<>>
    /\ unfinished = FALSE
    /\ noise = 0
    /\ spilled = FALSE
    /\ killed = FALSE
    /\ read = 0
    /\ kept = 0
    /\ flooded = FALSE
    /\ tasks = [t \in Streams |-> "none"]
    /\ workdir = "there"
    /\ outcome = "none"

(***************************************************************************)
(* The runner.                                                             *)
(***************************************************************************)

\* The job is read to its end before anything else.
ReadJob ==
    /\ child = "reading"
    /\ tasks["job"] = "done"
    /\ child' = "loading"
    /\ UNCHANGED <<ended, at, answers, written, unfinished, noise, spilled, parent>>

\* The code of the submission runs in the runner's process and shares its
\* stdout: it may print lines, those of a verdict or of a broken implementation
\* among them, or leave one unfinished.
Prints ==
    /\ child \in {"loading", "calling"}
    /\ noise < MaxNoise
    /\ noise' = noise + 1
    /\ \/ unfinished' = TRUE /\ UNCHANGED written
       \/ /\ unfinished' = FALSE
          /\ \E line \in {Noise, BrokenLine} \cup {Claim(i) : i \in Ids} :
                 written' = Append(written, line)
    /\ UNCHANGED <<child, ended, at, answers, spilled, parent>>

Spills ==
    /\ child \in {"loading", "calling"}
    /\ spilled' = TRUE
    /\ UNCHANGED <<child, ended, at, answers, written, unfinished, noise, parent>>

\* How _parse reads a line of the runner.  After an unfinished one it is no
\* JSON; nor is it when a value or a message in it holds a line separator, where
\* splitlines cuts and which json.dumps does not escape.
Readings(line) ==
    IF unfinished THEN {Noise} ELSE IF line.kind = "timeout" THEN {line} ELSE {line, Noise}

\* _emit writes a line and flushes it.
Emit(line) ==
    /\ \E read_as \in Readings(line) : written' = Append(written, read_as)
    /\ unfinished' = FALSE

Loads ==
    /\ child = "loading"
    /\ child' = "calling"
    /\ UNCHANGED <<ended, at, answers, written, unfinished, noise, spilled, parent>>

\* A bad source, or no solve in it.
Breaks ==
    /\ child = "loading"
    /\ Emit(BrokenLine)
    /\ child' = "exited"
    /\ ended' = "broken"
    /\ UNCHANGED <<at, answers, noise, spilled, parent>>

\* One call of solve: a value that canon takes or refuses, an exception, or
\* the alarm of the call's CPU budget.
Call ==
    /\ child = "calling"
    /\ at < Calls
    /\ \E kind \in Kinds :
           /\ answers' = [answers EXCEPT ![at] = kind]
           /\ Emit([id |-> at, kind |-> kind])
    /\ at' = at + 1
    /\ UNCHANGED <<child, ended, noise, spilled, parent>>

Finishes ==
    /\ child = "calling"
    /\ at = Calls
    /\ child' = "exited"
    /\ ended' = "finished"
    /\ UNCHANGED <<at, answers, written, unfinished, noise, spilled, parent>>

\* The restrictions cannot be installed, the code ends the process, the
\* alarm hits an exception handler; or the kill does it.
Dies ==
    /\ Alive
    /\ child' = "exited"
    /\ ended' = IF killed THEN "killed" ELSE "died"
    /\ UNCHANGED <<at, answers, written, unfinished, noise, spilled, parent>>

(***************************************************************************)
(* run: the spawn and the streams.                                         *)
(***************************************************************************)

\* The process is there.  It is noticed at the next step of run, which
\* starts the tasks; once the cleanup has begun there is no job to send.
Spawns ==
    /\ spawned = "pending"
    /\ phase \in {"spawning", "reaping"}
    /\ spawned' = "child"
    /\ child' = "reading"
    /\ UNCHANGED <<ended, at, answers, written, unfinished, noise, spilled, phase, failure,
                   killed, capture, tasks, workdir, outcome>>

SpawnFails ==
    /\ spawned = "pending"
    /\ phase \in {"spawning", "reaping"}
    /\ spawned' = "error"
    /\ UNCHANGED <<runner, phase, failure, killed, capture, tasks, workdir, outcome>>

Reap(with) ==
    /\ phase' = "reaping"
    /\ failure' = with

\* After the first wait.
StartStreams ==
    /\ phase = "spawning"
    /\ spawned = "child"
    /\ phase' = "running"
    /\ tasks' = [t \in Streams |-> "running"]
    /\ UNCHANGED <<runner, failure, spawned, killed, capture, workdir, outcome>>

NoRunner ==
    /\ phase = "spawning"
    /\ \/ spawned = "error" /\ Reap("spawn")
       \/ spawned = "pending" /\ Reap("acquisition")
    /\ UNCHANGED <<runner, spawned, killed, capture, tasks, workdir, outcome>>

Ends(t, how) == tasks' = [tasks EXCEPT ![t] = how]

\* The capture ends one byte past the limit: somewhere in the line that goes
\* past it, or at its end.
Kept ==
    IF read < MaxLines THEN {read + 1}
    ELSE IF read = MaxLines THEN {read, read + 1} ELSE {kept}

\* receive drains the pipe, beyond the limit too; it ends at EOF.
Receive ==
    /\ tasks["stdout"] = "running"
    /\ read < Len(written)
    /\ read' = read + 1
    /\ kept' \in Kept
    /\ UNCHANGED <<runner, phase, failure, spawned, killed, flooded, tasks, workdir, outcome>>

ReceiveStderr ==
    /\ tasks["stderr"] = "running"
    /\ spilled
    /\ flooded' = TRUE
    /\ UNCHANGED <<runner, phase, failure, spawned, killed, read, kept, tasks, workdir, outcome>>

\* Mutant: what the pipe still holds when the child ends is left there.
Abandoned == child = "exited"

AtEOF == child = "exited" /\ read = Len(written)

StdoutEnds ==
    /\ tasks["stdout"] = "running"
    /\ AtEOF
    /\ Ends("stdout", "done")
    /\ UNCHANGED <<runner, phase, failure, spawned, killed, capture, workdir, outcome>>

StderrEnds ==
    /\ tasks["stderr"] = "running"
    /\ child = "exited"
    /\ flooded = spilled
    /\ Ends("stderr", "done")
    /\ UNCHANGED <<runner, phase, failure, spawned, killed, capture, workdir, outcome>>

Waited ==
    /\ tasks["wait"] = "running"
    /\ child = "exited"
    /\ Ends("wait", "done")
    /\ UNCHANGED <<runner, phase, failure, spawned, killed, capture, workdir, outcome>>

\* The job is drained while the runner reads; if the runner goes first the
\* pipe breaks.
JobSent ==
    /\ tasks["job"] = "running"
    /\ \/ Ends("job", "done")
       \/ child = "exited" /\ Ends("job", "failed")
    /\ UNCHANGED <<runner, phase, failure, spawned, killed, capture, workdir, outcome>>

\* Mutant: no batch deadline.
LoopWaits ==
    /\ phase = "running"
    /\ Limit \/ \A t \in Streams : Joined(t)
    /\ Reap("none")
    /\ UNCHANGED <<runner, spawned, killed, capture, tasks, workdir, outcome>>

\* Everything has ended, the output is too long, or the batch deadline has
\* passed.
LoopEnds ==
    /\ phase = "running"
    /\ Reap("none")
    /\ UNCHANGED <<runner, spawned, killed, capture, tasks, workdir, outcome>>

\* The episode is being stopped.  In the cleanup nothing catches it.
Cancel ==
    \/ /\ phase \in {"spawning", "running"}
       /\ Reap("cancelled")
       /\ UNCHANGED <<runner, spawned, killed, capture, tasks, workdir, outcome>>
    \/ /\ phase \in {"reaping", "draining"}
       /\ failure # "cancelled"
       /\ phase' = "ended"
       /\ outcome' = "interrupted"
       /\ UNCHANGED <<runner, failure, spawned, killed, capture, tasks, workdir>>

(***************************************************************************)
(* run: the cleanup.                                                       *)
(***************************************************************************)

\* A child is killed unless its exit has been seen; one that came late gets
\* its readers here.
Kill ==
    /\ phase = "reaping"
    /\ spawned = "child"
    /\ killed' = (tasks["wait"] # "done")
    /\ tasks' = IF tasks["wait"] = "none"
                THEN [t \in Streams |-> IF t = "job" THEN "none" ELSE "running"]
                ELSE tasks
    /\ phase' = "draining"
    /\ UNCHANGED <<runner, failure, spawned, capture, workdir, outcome>>

Raised ==
    CASE failure = "none" -> IF tasks["job"] = "failed" THEN "raised" ELSE "returned"
      [] failure = "spawn" -> "sandbox_error"
      [] failure = "acquisition" -> "unsettled"
      [] failure = "cancelled" -> "cancelled"

Leave ==
    /\ phase' = "ended"
    /\ workdir' = "removed"
    /\ outcome' = Raised

\* Mutant: the readers have ended, and that is enough.
ReadersJoined == tasks["stdout"] # "running" /\ tasks["stderr"] # "running"

\* The tasks of run have all ended.
AllJoined == \A t \in Streams : tasks[t] # "running"

Drained ==
    /\ phase = "draining"
    /\ AllJoined
    /\ Leave
    /\ UNCHANGED <<runner, failure, spawned, killed, capture, tasks>>

\* A spawn that failed owns nothing.
NothingAcquired ==
    /\ phase = "reaping"
    /\ spawned = "error"
    /\ Leave
    /\ UNCHANGED <<runner, failure, spawned, killed, capture, tasks>>

\* The drain deadline: what has not ended is cancelled, and the capture stays.
DrainDeadline ==
    /\ \/ phase = "draining" /\ ~AllJoined
       \/ phase = "reaping" /\ spawned = "pending"
    /\ phase' = "ended"
    /\ workdir' = "kept"
    /\ outcome' = "unsettled"
    /\ UNCHANGED <<runner, failure, spawned, killed, capture, tasks>>

(***************************************************************************)
(* What the batch says.                                                    *)
(***************************************************************************)

Captured == SubSeq(written, 1, kept)

Last(numbers) == CHOOSE n \in numbers : \A m \in numbers : m <= n

\* _parse and BatchResult.get: what the last line about a call says, then the
\* reason why the batch is broken, then a timeout.
Results(i) == {n \in DOMAIN Captured : Captured[n].id = i}
Broken == Limit \/ \E n \in DOMAIN Captured : Captured[n].kind = "broken"

Get(i) ==
    IF Results(i) # {} THEN Captured[Last(Results(i))].kind
    ELSE IF Broken THEN "broken" ELSE "timeout"

Over == phase = "ended" /\ UNCHANGED vars

Runner == ReadJob \/ Prints \/ Spills \/ Loads \/ Breaks \/ Call \/ Finishes \/ Dies

Run ==
    \/ StartStreams \/ NoRunner \/ LoopEnds
    \/ Kill \/ Drained \/ NothingAcquired \/ DrainDeadline

Next ==
    \/ Runner \/ Run \/ Over
    \/ Spawns \/ SpawnFails \/ Receive \/ ReceiveStderr \/ StdoutEnds \/ StderrEnds \/ Waited \/ JobSent
    \/ Cancel

Spec == Init /\ [][Next]_vars

\* Only the parent's own steps and its deadlines are fair: nothing is asked
\* of the child, its streams or the kernel.
FairSpec == Spec /\ WF_vars(Run)

(***************************************************************************)
(* Properties.                                                             *)
(***************************************************************************)

Returned == outcome = "returned"

\* A batch that returns says of a call what the runner made of it, when the
\* runner's line came within the limit and the submitted code claimed nothing of
\* that call after it, however the child ended; a claim that came before does not
\* count.  Without any claim no call is given a verdict but its own.  Of a call
\* that no line is about it says that it timed out, or that it was broken if some
\* line or the amount of output says so.
VerdictsTrue ==
    Returned => \A i \in Ids :
        LET about == {n \in DOMAIN written : written[n].id = i}
            claims == {n \in about : written[n].kind = "claimed"}
        IN /\ \A n \in about \ claims :
                  n <= MaxLines /\ (\A m \in claims : m < n) => Get(i) = answers[i]
           /\ claims = {} => Get(i) \in {answers[i], "broken", "timeout"}
           /\ about = {} =>
                  (Get(i) = "broken" <=>
                       \/ Len(written) > MaxLines \/ spilled
                       \/ \E n \in DOMAIN written : written[n].kind = "broken")

\* Nothing of a batch is left behind by a run that says it is over: the
\* child has exited, every task has ended and the directory is gone.  What
\* is unresolved keeps its directory (docs/TRAINING.md, Sandbox.run).
NothingLeft ==
    /\ workdir = "removed" => ~Alive /\ \A t \in Streams : tasks[t] # "running"
    /\ outcome \in {"returned", "raised", "sandbox_error", "cancelled"} =>
           workdir = "removed"
    /\ phase = "ended" /\ (Alive \/ \E t \in Streams : tasks[t] = "running") =>
           outcome \in {"unsettled", "interrupted"}

\* A harness fault, which ends the episode, is a runner that could not be
\* spawned; nothing that a submission does makes one.
FaultIsTheHarness == outcome = "sandbox_error" => child = "none" /\ written = <<>>

\* An implementation is called in order and once for each call, and is not
\* called again once its batch is over.
CallsInOrder ==
    [][\A i \in Ids : answers'[i] # answers[i] =>
           /\ answers[i] = "none"
           /\ \A j \in Ids : j < i => answers[j] # "none"
           /\ outcome \in {"none", "unsettled", "interrupted"}]_vars

\* A batch ends, whatever the child and its streams do.
RunEnds == <>(phase = "ended")
================================================================================
