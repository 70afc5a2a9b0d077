----------------------------- MODULE SandboxProofs -----------------------------
(***************************************************************************)
(* What a batch says of a call is what the runner made of it, unless the   *)
(* submitted code claims something of the call itself, and nothing of the  *)
(* batch is left behind, for every number of calls, output limit and       *)
(* amount of what the code prints.                                         *)
(***************************************************************************)
EXTENDS Sandbox, WellFoundedInduction, TLAPS

\* The parent's bookkeeping: what has started, what has ended, and which
\* exception is on its way.
Owned ==
    /\ spawned # "child" => child = "none" /\ \A t \in Streams : tasks[t] = "none"
    /\ spawned = "child" => child # "none"
    /\ phase = "spawning" => \A t \in Streams : tasks[t] = "none"
    /\ phase = "running" =>
           spawned = "child" /\ \A t \in Streams : tasks[t] # "none"
    /\ phase = "draining" =>
           spawned = "child" /\ \A t \in Streams \ {"job"} : tasks[t] # "none"
    /\ tasks["stdout"] = "none" <=> tasks["wait"] = "none"
    /\ tasks["stderr"] = "none" <=> tasks["wait"] = "none"
    /\ tasks["job"] # "none" => tasks["stdout"] # "none"
    /\ tasks["stdout"] # "failed" /\ tasks["wait"] # "failed" /\ tasks["stderr"] # "failed"
    /\ tasks["stdout"] = "done" => AtEOF
    /\ tasks["stderr"] = "done" => child = "exited" /\ flooded = spilled
    /\ flooded => spilled
    /\ tasks["wait"] = "done" => child = "exited"
    /\ failure = "spawn" => spawned = "error"
    /\ failure = "acquisition" => phase # "spawning"

Settled ==
    /\ phase = "ended" <=> outcome # "none"
    /\ workdir = "removed" =>
           /\ phase = "ended"
           /\ \A t \in Streams : tasks[t] # "running"
           /\ \/ spawned = "error"
              \/ tasks["wait"] = "done" /\ tasks["stdout"] = "done" /\ tasks["stderr"] = "done"
           /\ outcome # "unsettled" => failure # "acquisition"
    /\ outcome \in {"returned", "raised", "sandbox_error", "cancelled"} =>
           workdir = "removed"
    /\ outcome = "sandbox_error" => failure = "spawn"
    /\ outcome = "returned" => failure = "none" /\ spawned = "child"
    /\ phase \in {"running", "draining"} => spawned = "child"
    /\ phase = "reaping" /\ failure = "none" => spawned = "child"

\* The capture holds what was read, up to the limit or the line that passes it.
Clipped == IF read <= MaxLines THEN kept = read ELSE kept \in {MaxLines, MaxLines + 1}

\* The runner's bookkeeping: a line about a call that the submitted code did not
\* claim has its answer.
Answered ==
    /\ child \in {"none", "reading", "loading"} => at = 0
    /\ child = "none" => written = <<>>
    /\ \A i \in Ids : answers[i] # "none" <=> i < at
    /\ \A n \in DOMAIN written :
           written[n].id \in Ids /\ written[n].kind # "claimed" =>
               written[n].id < at /\ written[n].kind = answers[written[n].id]
    /\ child = "exited" <=> ended # "no"

IInv == SandboxTypeOK /\ Owned /\ Settled /\ Clipped /\ Answered

(***************************************************************************)
(* The invariant is inductive.                                             *)
(***************************************************************************)

\* The initial state satisfies it.
LEMMA InitIInv == Init => IInv
  <1>. SUFFICES ASSUME Init PROVE IInv
    OBVIOUS
  <1>. Calls \in Nat /\ MaxLines \in Nat /\ MaxNoise \in Nat
    BY SandboxAssumption
  <1>1. SandboxTypeOK
    <2>1. written \in Seq(Line) /\ read \in 0..Len(written) /\ kept \in 0..read
      BY DEF Init
    <2>2. at \in 0..Calls /\ noise \in 0..MaxNoise
      BY DEF Init
    <2>. QED
      BY <2>1, <2>2 DEF Init, SandboxTypeOK, Phases
  <1>2. Owned /\ Settled /\ Clipped
    BY DEF Init, Owned, Settled, Clipped, Streams, AtEOF
  <1>3. Answered
    BY DEF Init, Answered, Ids
  <1>. QED
    BY <1>1, <1>2, <1>3 DEF IInv

\* Appending a line keeps the rest of the output.
LEMMA AppendLine ==
  ASSUME written \in Seq(Line), NEW line \in Line, written' = Append(written, line)
  PROVE  /\ written' \in Seq(Line)
         /\ Len(written') = Len(written) + 1
         /\ \A n \in DOMAIN written' :
                \/ n \in DOMAIN written /\ written'[n] = written[n]
                \/ written'[n] = line
  OBVIOUS

\* A line of the runner about a call.
Own(line) == line.id \in Ids /\ line.kind # "claimed"
Verdict(i, kind) == [id |-> i, kind |-> kind]

\* The lines there are, and which of them are the runner's about a call.
LEMMA Lines ==
  /\ Noise \in Line /\ ~Own(Noise)
  /\ BrokenLine \in Line /\ ~Own(BrokenLine)
  /\ \A i \in Ids : Claim(i) \in Line /\ ~Own(Claim(i))
  /\ \A i \in Ids, kind \in Kinds : Verdict(i, kind) \in Line
  BY DEF Noise, BrokenLine, Claim, Verdict, Line, Own, Ids

\* Any other line leaves what is known of the answers as it is.
LEMMA OtherLine ==
  ASSUME SandboxTypeOK, Answered, NEW line \in Line, ~Own(line),
         written' = Append(written, line), UNCHANGED <<at, answers>>
  PROVE  \A n \in DOMAIN written' :
             Own(written'[n]) =>
                 written'[n].id < at' /\ written'[n].kind = answers'[written'[n].id]
  <1>. SUFFICES ASSUME NEW n \in DOMAIN written', Own(written'[n])
                PROVE  written'[n].id < at' /\ written'[n].kind = answers'[written'[n].id]
    OBVIOUS
  <1>1. n \in DOMAIN written /\ written'[n] = written[n]
    BY AppendLine DEF SandboxTypeOK
  <1>. QED
    BY <1>1 DEF Answered, Own

\* A step of the runner leaves the parent alone and keeps the invariant.
LEMMA RunnerStep ==
  ASSUME IInv, Runner
  PROVE  IInv'
  <1>. USE DEF parent, capture
  <1>0. SandboxTypeOK /\ Owned /\ Settled /\ Clipped /\ Answered
    BY DEF IInv
  <1>a. /\ UNCHANGED parent /\ Alive /\ spawned = "child"
        /\ tasks["stdout"] # "done" /\ tasks["stderr"] # "done" /\ tasks["wait"] # "done"
        /\ spawned' = "child" /\ (spilled => spilled')
    <2>1. UNCHANGED parent /\ Alive /\ (spilled => spilled')
      BY DEF Runner, ReadJob, Prints, Spills, Loads, Breaks, Call, Finishes, Dies, Alive
    <2>. QED
      BY <2>1, <1>0 DEF Owned, Alive, AtEOF, SandboxTypeOK
  <1>b. \/ UNCHANGED written /\ UNCHANGED <<at, answers>>
        \/ \E line \in Line :
               ~Own(line) /\ written' = Append(written, line) /\ UNCHANGED <<at, answers>>
        \/ \E line \in Line, kind \in Kinds :
               /\ written' = Append(written, line) /\ line \in {Noise, Verdict(at, kind)}
               /\ answers' = [answers EXCEPT ![at] = kind]
               /\ at \in Ids /\ at' = at + 1
    <2>1. CASE Call
      <3>1. at \in Ids
        BY <1>0, <2>1, SandboxAssumption DEF Call, Ids, SandboxTypeOK
      <3>2. PICK kind \in Kinds : /\ answers' = [answers EXCEPT ![at] = kind]
                                  /\ Emit(Verdict(at, kind))
        BY <2>1 DEF Call, Verdict
      <3>3. PICK line \in {Noise, Verdict(at, kind)} : written' = Append(written, line)
        BY <3>2 DEF Emit, Readings
      <3>4. line \in Line
        BY <3>1, <3>3, Lines
      <3>. QED
        BY <2>1, <3>1, <3>2, <3>3, <3>4 DEF Call
    <2>2. CASE Breaks
      <3>1. PICK line \in {Noise, BrokenLine} : written' = Append(written, line)
        BY <2>2 DEF Breaks, Emit, Readings
      <3>. QED
        BY <2>2, <3>1, Lines DEF Breaks
    <2>3. CASE Prints
      BY <2>3, Lines DEF Prints
    <2>4. CASE ReadJob \/ Spills \/ Loads \/ Finishes \/ Dies
      BY <2>4 DEF ReadJob, Spills, Loads, Finishes, Dies
    <2>. QED
      BY <2>1, <2>2, <2>3, <2>4 DEF Runner
  <1>c. /\ child' # "none" /\ written' \in Seq(Line) /\ Len(written') >= Len(written)
        /\ read' \in 0..Len(written') /\ kept' \in 0..read'
    <2>1. written' \in Seq(Line) /\ Len(written') >= Len(written)
      BY <1>0, <1>b, AppendLine DEF SandboxTypeOK
    <2>2. child' # "none"
      BY <1>0 DEF Runner, ReadJob, Prints, Spills, Loads, Breaks, Call, Finishes, Dies, Alive
    <2>. QED
      BY <1>0, <1>a, <2>1, <2>2 DEF SandboxTypeOK
  <1>1. Owned'
    BY <1>0, <1>a, <1>c DEF Owned, AtEOF
  <1>2. Settled' /\ Clipped'
    BY <1>0, <1>a DEF Settled, Clipped
  <1>3. SandboxTypeOK'
    <2>. USE <1>0, <1>a, <1>c DEF SandboxTypeOK
    <2>1. CASE Prints
      <3>1. noise' \in 0..MaxNoise
        BY <2>1, SandboxAssumption DEF Prints
      <3>2. unfinished' \in BOOLEAN /\ UNCHANGED <<child, ended, at, answers, spilled>>
        BY <2>1 DEF Prints
      <3>. QED
        BY <3>1, <3>2
    <2>2. CASE Call
      <3>1. PICK kind \in Kinds : /\ answers' = [answers EXCEPT ![at] = kind]
                                  /\ Emit([id |-> at, kind |-> kind])
        BY <2>2 DEF Call
      <3>2. answers' \in [Ids -> Kinds \cup {"none"}]
        BY <3>1
      <3>3. at' \in 0..Calls
        BY <2>2, SandboxAssumption DEF Call
      <3>4. unfinished' \in BOOLEAN /\ UNCHANGED <<child, ended, noise, spilled>>
        BY <2>2, <3>1 DEF Call, Emit
      <3>. QED
        BY <3>2, <3>3, <3>4
    <2>3. CASE Breaks
      BY <2>3 DEF Breaks, Emit
    <2>4. CASE ReadJob
      BY <2>4 DEF ReadJob
    <2>5. CASE Spills
      BY <2>5 DEF Spills
    <2>6. CASE Loads
      BY <2>6 DEF Loads
    <2>7. CASE Finishes
      BY <2>7 DEF Finishes
    <2>8. CASE Dies
      BY <2>8 DEF Dies
    <2>. QED
      BY <2>1, <2>2, <2>3, <2>4, <2>5, <2>6, <2>7, <2>8 DEF Runner
  <1>4. \A n \in DOMAIN written' :
            Own(written'[n]) =>
                written'[n].id < at' /\ written'[n].kind = answers'[written'[n].id]
    <2>1. CASE UNCHANGED written /\ UNCHANGED <<at, answers>>
      BY <1>0, <2>1 DEF Answered, Own
    <2>2. CASE \E line \in Line :
                   ~Own(line) /\ written' = Append(written, line) /\ UNCHANGED <<at, answers>>
      BY <1>0, <2>2, OtherLine
    <2>3. CASE \E line \in Line, kind \in Kinds :
                   /\ written' = Append(written, line) /\ line \in {Noise, Verdict(at, kind)}
                   /\ answers' = [answers EXCEPT ![at] = kind]
                   /\ at \in Ids /\ at' = at + 1
      <3>1. PICK line \in Line, kind \in Kinds :
                /\ written' = Append(written, line)
                /\ line \in {Noise, Verdict(at, kind)}
                /\ answers' = [answers EXCEPT ![at] = kind]
                /\ at \in Ids /\ at' = at + 1
        BY <2>3
      <3>2. at \in Ids /\ at \in Nat /\ at' = at + 1
        BY <3>1, SandboxAssumption DEF Ids
      <3>. SUFFICES ASSUME NEW n \in DOMAIN written', Own(written'[n])
                    PROVE  written'[n].id < at' /\ written'[n].kind = answers'[written'[n].id]
        OBVIOUS
      <3>3. CASE n \in DOMAIN written /\ written'[n] = written[n]
        <4>1. /\ written[n].id < at /\ written[n].id \in Ids /\ written[n].id # at
              /\ written[n].kind = answers[written[n].id]
          BY <1>0, <3>3 DEF Answered, Own, Ids
        <4>2. answers'[written[n].id] = answers[written[n].id]
          BY <1>0, <3>1, <4>1 DEF SandboxTypeOK
        <4>. QED
          BY <3>2, <3>3, <4>1, <4>2 DEF Ids
      <3>4. CASE written'[n] = line
        <4>1. line = Verdict(at, kind)
          BY <3>1, <3>4, Lines
        <4>2. answers'[at] = kind
          BY <1>0, <3>1, <3>2 DEF SandboxTypeOK
        <4>. QED
          BY <3>2, <3>4, <4>1, <4>2 DEF Verdict
      <3>. QED
        BY <1>0, <3>1, <3>3, <3>4, AppendLine DEF SandboxTypeOK
    <2>. QED
      BY <1>b, <2>1, <2>2, <2>3
  <1>5. Answered'
    <2>. USE <1>0 DEF Answered
    <2>1. \A i \in Ids : answers'[i] # "none" <=> i < at'
      <3>1. CASE Call
        <4>1. PICK kind \in Kinds : answers' = [answers EXCEPT ![at] = kind]
          BY <3>1 DEF Call
        <4>2. at \in Nat /\ at' = at + 1 /\ kind # "none"
          BY <3>1, SandboxAssumption DEF Call, SandboxTypeOK, Kinds
        <4>. QED
          BY <4>1, <4>2 DEF SandboxTypeOK, Ids
      <3>2. CASE ~Call
        <4>1. UNCHANGED <<at, answers>>
          BY <3>2 DEF Runner, ReadJob, Prints, Spills, Loads, Breaks, Finishes, Dies
        <4>. QED
          BY <4>1
      <3>. QED
        BY <3>1, <3>2
    <2>2. /\ child' \in {"none", "reading", "loading"} => at' = 0
          /\ child' = "exited" <=> ended' # "no"
      BY <1>a DEF Runner, ReadJob, Prints, Spills, Loads, Breaks, Call, Finishes, Dies, Alive
    <2>. QED
      BY <1>c, <1>4, <2>1, <2>2 DEF Own
  <1>. QED
    BY <1>1, <1>2, <1>3, <1>5 DEF IInv

\* A step of the parent, its streams or the spawn keeps it too.
LEMMA ParentStep ==
  ASSUME IInv,
         Run \/ Over \/ Spawns \/ SpawnFails \/ Receive \/ ReceiveStderr
             \/ StdoutEnds \/ StderrEnds \/ Waited \/ JobSent \/ Cancel
  PROVE  IInv'
  <1>. USE DEF runner, capture, SandboxTypeOK, Phases, Streams
  <1>0. SandboxTypeOK /\ Owned /\ Settled /\ Clipped /\ Answered
    BY DEF IInv
  <1>1. CASE Over
    BY <1>1, <1>0 DEF Over, vars, parent, IInv, Owned, Settled, Clipped, Answered, AtEOF
  <1>2. CASE Spawns
    BY <1>2, <1>0 DEF Spawns, IInv, Owned, Settled, Clipped, Answered, AtEOF
  <1>3. ASSUME UNCHANGED runner
        PROVE  Answered'
    BY <1>3, <1>0 DEF Answered
  <1>4. CASE SpawnFails
    BY <1>4, <1>3, <1>0 DEF SpawnFails, IInv, Owned, Settled, Clipped, AtEOF
  <1>5. CASE Receive
    <2>1. /\ read' = read + 1 /\ kept' \in Kept /\ tasks["stdout"] = "running"
          /\ UNCHANGED <<runner, phase, failure, spawned, killed, flooded, tasks, workdir, outcome>>
          /\ read \in Nat /\ kept \in 0..read /\ MaxLines \in Nat /\ Len(written) \in Nat
      BY <1>5, <1>0, SandboxAssumption DEF Receive
    <2>2. read' \in 0..Len(written')
      BY <1>5, <2>1 DEF Receive
    <2>3. kept' \in 0..read' /\ Clipped'
      <3>1. CASE read < MaxLines
        BY <2>1, <3>1, <1>0 DEF Kept, Clipped
      <3>2. CASE read = MaxLines
        BY <2>1, <3>2, <1>0 DEF Kept, Clipped
      <3>3. CASE read > MaxLines
        BY <2>1, <3>3, <1>0 DEF Kept, Clipped
      <3>. QED
        BY <2>1, <3>1, <3>2, <3>3
    <2>4. Owned' /\ Settled'
      BY <2>1, <1>0 DEF Owned, Settled, AtEOF
    <2>5. SandboxTypeOK'
      BY <2>1, <2>2, <2>3, <1>0
    <2>. QED
      BY <2>1, <2>3, <2>4, <2>5, <1>3 DEF IInv
  <1>18. CASE ReceiveStderr
    BY <1>18, <1>3, <1>0 DEF ReceiveStderr, IInv, Owned, Settled, Clipped, AtEOF
  <1>6. CASE StdoutEnds
    BY <1>6, <1>3, <1>0 DEF StdoutEnds, Ends, IInv, Owned, Settled, Clipped, AtEOF
  <1>7. CASE StderrEnds
    BY <1>7, <1>3, <1>0 DEF StderrEnds, Ends, IInv, Owned, Settled, Clipped, AtEOF
  <1>8. CASE Waited
    BY <1>8, <1>3, <1>0 DEF Waited, Ends, IInv, Owned, Settled, Clipped, AtEOF
  <1>9. CASE JobSent
    BY <1>9, <1>3, <1>0 DEF JobSent, Ends, IInv, Owned, Settled, Clipped, AtEOF
  <1>10. CASE Cancel
    BY <1>10, <1>3, <1>0 DEF Cancel, Reap, IInv, Owned, Settled, Clipped, AtEOF
  <1>11. CASE StartStreams
    BY <1>11, <1>3, <1>0 DEF StartStreams, IInv, Owned, Settled, Clipped, AtEOF
  <1>12. CASE NoRunner
    BY <1>12, <1>3, <1>0 DEF NoRunner, Reap, IInv, Owned, Settled, Clipped, AtEOF
  <1>13. CASE LoopEnds
    BY <1>13, <1>3, <1>0 DEF LoopEnds, Reap, IInv, Owned, Settled, Clipped, AtEOF
  <1>14. CASE Kill
    <2>1. /\ phase = "reaping" /\ phase' = "draining" /\ spawned = "child"
          /\ UNCHANGED <<runner, failure, spawned, capture, workdir, outcome>>
          /\ workdir # "removed"
      BY <1>14, <1>0 DEF Kill, Settled
    <2>2. CASE tasks["wait"] = "none"
      <3>1. tasks' = [t \in Streams |-> IF t = "job" THEN "none" ELSE "running"]
        BY <1>14, <2>2 DEF Kill
      <3>2. /\ tasks' \in [Streams -> {"none", "running", "done", "failed"}]
            /\ tasks'["stdout"] = "running" /\ tasks'["wait"] = "running"
            /\ tasks'["stderr"] = "running" /\ tasks'["job"] = "none"
        BY <3>1
      <3>3. SandboxTypeOK'
        BY <1>14, <2>1, <3>2, <1>0 DEF Kill
      <3>4. Owned' /\ Settled' /\ Clipped'
        BY <2>1, <3>2, <1>0 DEF Owned, Settled, Clipped, AtEOF
      <3>. QED
        BY <2>1, <3>3, <3>4, <1>3 DEF IInv
    <2>3. CASE tasks["wait"] # "none"
      <3>1. tasks' = tasks
        BY <1>14, <2>3 DEF Kill
      <3>2. SandboxTypeOK'
        BY <1>14, <2>1, <3>1, <1>0 DEF Kill
      <3>3. tasks["stdout"] # "none"
        BY <2>3, <1>0 DEF Owned
      <3>4. tasks["stderr"] # "none"
        BY <2>3, <1>0 DEF Owned
      <3>5. Owned' /\ Settled' /\ Clipped'
        BY <2>1, <2>3, <3>1, <3>3, <3>4, <1>0 DEF Owned, Settled, Clipped, AtEOF
      <3>. QED
        BY <2>1, <3>2, <3>5, <1>3 DEF IInv
    <2>. QED
      BY <2>2, <2>3
  <1>15. CASE Drained
    <2>1. /\ tasks["wait"] = "done" /\ tasks["stdout"] = "done" /\ tasks["stderr"] = "done"
          /\ \A t \in Streams : tasks[t] # "running"
      BY <1>15, <1>0 DEF Drained, AllJoined, Owned
    <2>2. /\ phase = "draining" /\ phase' = "ended" /\ workdir' = "removed"
          /\ UNCHANGED <<runner, failure, spawned, killed, capture, tasks>>
          /\ outcome' = Raised /\ spawned = "child"
      BY <1>15, <1>0 DEF Drained, Leave, Owned
    <2>3. /\ outcome' \in {"returned", "sandbox_error", "unsettled", "raised", "cancelled"}
          /\ outcome' = "sandbox_error" => failure = "spawn"
          /\ outcome' = "returned" => failure = "none"
          /\ outcome' # "unsettled" => failure # "acquisition"
      BY <2>2, <1>0 DEF Raised
    <2>4. SandboxTypeOK' /\ Owned' /\ Clipped'
      BY <2>2, <2>3, <1>0 DEF Owned, Clipped, AtEOF
    <2>5. Settled'
      BY <2>1, <2>2, <2>3, <1>0 DEF Settled
    <2>. QED
      BY <2>2, <2>4, <2>5, <1>3 DEF IInv
  <1>16. CASE NothingAcquired
    <2>1. /\ phase = "reaping" /\ phase' = "ended" /\ workdir' = "removed"
          /\ UNCHANGED <<runner, failure, spawned, killed, capture, tasks>>
          /\ outcome' = Raised /\ spawned = "error"
      BY <1>16 DEF NothingAcquired, Leave
    <2>2. \A t \in Streams : tasks[t] = "none"
      BY <2>1, <1>0 DEF Owned
    <2>3. failure # "none"
      BY <2>1, <1>0 DEF Settled
    <2>4. /\ outcome' \in {"sandbox_error", "unsettled", "cancelled"}
          /\ outcome' = "sandbox_error" => failure = "spawn"
          /\ outcome' # "unsettled" => failure # "acquisition"
      BY <2>1, <2>3, <1>0 DEF Raised
    <2>5. SandboxTypeOK' /\ Owned' /\ Clipped'
      BY <2>1, <2>4, <1>0 DEF Owned, Clipped, AtEOF
    <2>6. Settled'
      <3>1. \A t \in Streams : tasks'[t] # "running"
        BY <2>1, <2>2
      <3>2. phase' = "ended" /\ workdir' = "removed" /\ spawned' = "error" /\ failure' = failure
        BY <2>1
      <3>. QED
        BY <3>1, <3>2, <2>4 DEF Settled
    <2>. QED
      BY <2>1, <2>5, <2>6, <1>3 DEF IInv
  <1>17. CASE DrainDeadline
    BY <1>17, <1>3, <1>0 DEF DrainDeadline, AllJoined, IInv, Owned, Settled, Clipped, AtEOF
  <1>. QED
    BY <1>1, <1>2, <1>4, <1>5, <1>6, <1>7, <1>8, <1>9, <1>10, <1>11, <1>12, <1>13, <1>14,
       <1>15, <1>16, <1>17, <1>18 DEF Run

\* Every reachable state satisfies the invariant.
THEOREM InvariantHolds == Spec => []IInv
  <1>1. IInv /\ [Next]_vars => IInv'
    <2>. SUFFICES ASSUME IInv, [Next]_vars PROVE IInv'
      OBVIOUS
    <2>1. CASE Runner
      BY <2>1, RunnerStep
    <2>2. CASE UNCHANGED vars
      BY <2>2 DEF vars, runner, parent, capture, IInv, SandboxTypeOK, Owned, Settled, Clipped,
                     Answered, AtEOF
    <2>3. CASE Next /\ ~Runner
      BY <2>3, ParentStep DEF Next
    <2>. QED
      BY <2>1, <2>2, <2>3
  <1>. QED
    BY <1>1, InitIInv, PTL DEF Spec

(***************************************************************************)
(* The properties.                                                         *)
(***************************************************************************)

\* The state of a batch has its type.
THEOREM SandboxTyped == Spec => []SandboxTypeOK
  <1>1. IInv => SandboxTypeOK
    BY DEF IInv
  <1>. QED
    BY <1>1, InvariantHolds, PTL

\* A run that says it is over has left nothing behind.
THEOREM NothingIsLeft == Spec => []NothingLeft
  <1>1. IInv => NothingLeft
    BY DEF IInv, SandboxTypeOK, Owned, Settled, NothingLeft, Alive, Streams, AtEOF
  <1>. QED
    BY <1>1, InvariantHolds, PTL

\* Only a failed spawn is a fault of the harness.
THEOREM FaultOfTheHarness == Spec => []FaultIsTheHarness
  <1>1. IInv => FaultIsTheHarness
    BY DEF IInv, SandboxTypeOK, Owned, Settled, Answered, FaultIsTheHarness
  <1>. QED
    BY <1>1, InvariantHolds, PTL

\* The numbers between two numbers that are in a set have a greatest one.
LEMMA LastNumber ==
  ASSUME NEW top \in Nat, NEW numbers \in SUBSET (1..top), numbers # {}
  PROVE  /\ Last(numbers) \in numbers
         /\ \A m \in numbers : m <= Last(numbers)
  <1>. DEFINE below == {top - n : n \in numbers}
              R == OpToRel(<, Nat)
  <1>0. \A n \in numbers : n \in Nat /\ top - n \in Nat
    OBVIOUS
  <1>1. below \in SUBSET Nat /\ below # {}
    <2>1. PICK n \in numbers : TRUE
      OBVIOUS
    <2>2. top - n \in below
      OBVIOUS
    <2>3. \A y \in below : y \in Nat
      BY <1>0
    <2>. QED
      BY <2>2, <2>3
  <1>2. IsWellFoundedOn(R, Nat)
    BY NatLessThanWellFounded
  <1>3. \A x, y \in Nat : <<x, y>> \in R <=> x < y
    BY DEF OpToRel
  <1>. HIDE DEF R, below
  <1>4. PICK x \in below : \A y \in below : ~(<<y, x>> \in R)
    BY <1>1, <1>2, WFMin
  <1>5. \A y \in below : x <= y
    <2>. TAKE y \in below
    <2>1. x \in Nat /\ y \in Nat /\ ~(y < x)
      BY <1>1, <1>3, <1>4
    <2>. QED
      BY <2>1
  <1>6. PICK n \in numbers : x = top - n
    BY DEF below
  <1>7. \A m \in numbers : m <= n
    <2>. TAKE m \in numbers
    <2>1. top - m \in below
      BY DEF below
    <2>2. top - n <= top - m
      BY <1>5, <1>6, <2>1
    <2>. QED
      BY <1>0, <2>2
  <1>. QED
    BY <1>6, <1>7 DEF Last

\* What was captured of the output when the batch returned: all of it within the
\* limit, and past it at most the line that passes it.
LEMMA CapturedLines ==
  ASSUME IInv, Returned
  PROVE  /\ read = Len(written) /\ Len(written) \in Nat
         /\ kept \in 0..Len(written)
         /\ DOMAIN written = 1..Len(written)
         /\ DOMAIN Captured = 1..kept
         /\ \A n \in DOMAIN Captured : Captured[n] = written[n]
         /\ \A n \in DOMAIN written : n <= MaxLines => n <= kept
         /\ Limit <=> Len(written) > MaxLines \/ spilled
         /\ ~Limit => kept = Len(written)
  <1>. USE SandboxAssumption
  <1>1. read = Len(written) /\ written \in Seq(Line) /\ kept \in 0..read /\ flooded = spilled
    BY DEF IInv, SandboxTypeOK, Owned, Settled, Returned, AtEOF
  <1>2. Len(written) \in Nat /\ DOMAIN written = 1..Len(written)
    BY <1>1
  <1>3. /\ DOMAIN Captured = 1..kept
        /\ \A n \in DOMAIN Captured : Captured[n] = written[n]
    BY <1>1, <1>2 DEF Captured
  <1>4. Limit <=> Len(written) > MaxLines \/ spilled
    BY <1>1 DEF Limit
  <1>5. ~Limit => kept = Len(written)
    BY <1>1, <1>2 DEF Limit, IInv, Clipped
  <1>6. \A n \in DOMAIN written : n <= MaxLines => n <= kept
    BY <1>1, <1>2 DEF IInv, Clipped
  <1>. QED
    BY <1>1, <1>2, <1>3, <1>4, <1>5, <1>6

\* What the batch says of a call is one of the captured lines about it, and the
\* last one.
LEMMA LastLine ==
  ASSUME IInv, Returned, NEW i \in Ids, Results(i) # {}
  PROVE  /\ Last(Results(i)) \in DOMAIN written
         /\ Get(i) = written[Last(Results(i))].kind
         /\ written[Last(Results(i))].id = i
         /\ \A n \in DOMAIN written : written[n].id = i /\ n <= kept => n <= Last(Results(i))
  <1>1. Results(i) \in SUBSET (1..kept) /\ kept \in Nat
    BY CapturedLines DEF Results
  <1>2. Last(Results(i)) \in Results(i) /\ \A m \in Results(i) : m <= Last(Results(i))
    BY <1>1, LastNumber
  <1>3. \A n \in DOMAIN written : written[n].id = i /\ n <= kept => n \in Results(i)
    BY CapturedLines DEF Results
  <1>4. /\ Last(Results(i)) \in DOMAIN written
        /\ Captured[Last(Results(i))] = written[Last(Results(i))]
        /\ Captured[Last(Results(i))].id = i
    BY <1>2, CapturedLines DEF Results
  <1>. QED
    BY <1>2, <1>3, <1>4 DEF Get

\* Of a call that the submitted code claimed nothing of after the runner's line,
\* the batch says what the runner made of it, whenever that line came within the
\* limit; with no claim of it at all it says nothing else; and without a line
\* about it, that it was broken or timed out, as the output says.
THEOREM VerdictsAreTrue == Spec => []VerdictsTrue
  <1>1. IInv => VerdictsTrue
    <2>. SUFFICES ASSUME IInv, Returned PROVE VerdictsTrue
      BY DEF VerdictsTrue
    <2>. SUFFICES ASSUME NEW i \in Ids
                  PROVE  LET about == {n \in DOMAIN written : written[n].id = i}
                             claims == {n \in about : written[n].kind = "claimed"}
                         IN /\ \A n \in about \ claims :
                                   n <= MaxLines /\ (\A m \in claims : m < n) =>
                                       Get(i) = answers[i]
                            /\ claims = {} => Get(i) \in {answers[i], "broken", "timeout"}
                            /\ about = {} =>
                                   (Get(i) = "broken" <=>
                                        \/ Len(written) > MaxLines \/ spilled
                                        \/ \E n \in DOMAIN written : written[n].kind = "broken")
      BY DEF VerdictsTrue
    <2>. DEFINE about == {n \in DOMAIN written : written[n].id = i}
                claims == {n \in about : written[n].kind = "claimed"}
    <2>1. \A n \in about \ claims : written[n].kind = answers[i]
      BY DEF IInv, Answered
    <2>2. Results(i) # {} => Last(Results(i)) \in about /\ Get(i) = written[Last(Results(i))].kind
      BY LastLine
    <2>3. Results(i) = {} => Get(i) = IF Broken THEN "broken" ELSE "timeout"
      BY DEF Get
    <2>4. ASSUME NEW n \in about \ claims, n <= MaxLines, \A m \in claims : m < n
          PROVE  Get(i) = answers[i]
      <3>1. n \in DOMAIN written /\ written[n].id = i /\ n <= kept /\ n \in Nat
        BY <2>4, CapturedLines
      <3>2. n \in Results(i)
        BY <3>1, CapturedLines DEF Results
      <3>3. n <= Last(Results(i)) /\ Last(Results(i)) \in Nat
        BY <3>1, <3>2, LastLine, CapturedLines
      <3>4. Last(Results(i)) \notin claims
        BY <2>4, <3>1, <3>3
      <3>. QED
        BY <2>1, <2>2, <3>2, <3>4
    <2>5. claims = {} => Get(i) \in {answers[i], "broken", "timeout"}
      BY <2>1, <2>2, <2>3
    <2>6. ASSUME about = {}
          PROVE  Get(i) = "broken" <=>
                     \/ Len(written) > MaxLines \/ spilled
                     \/ \E n \in DOMAIN written : written[n].kind = "broken"
      <3>1. Results(i) = {}
        BY <2>2, <2>6
      <3>2. Broken <=> \/ Len(written) > MaxLines \/ spilled
                       \/ \E n \in DOMAIN written : written[n].kind = "broken"
        BY CapturedLines DEF Broken
      <3>. QED
        BY <2>3, <3>1, <3>2
    <2>. QED
      BY <2>4, <2>5, <2>6
  <1>. QED
    BY <1>1, InvariantHolds, PTL

\* Calls are made in order, once each, and never after the batch is over.
THEOREM CallsAreInOrder == Spec => CallsInOrder
  <1>1. IInv /\ [Next]_vars =>
            [\A i \in Ids : answers'[i] # answers[i] =>
                /\ answers[i] = "none"
                /\ \A j \in Ids : j < i => answers[j] # "none"
                /\ outcome \in {"none", "unsettled", "interrupted"}]_vars
    <2>. SUFFICES ASSUME IInv, Next, NEW i \in Ids, answers'[i] # answers[i]
                  PROVE  /\ answers[i] = "none"
                         /\ \A j \in Ids : j < i => answers[j] # "none"
                         /\ outcome \in {"none", "unsettled", "interrupted"}
      OBVIOUS
    <2>1. Call
      <3>1. ~UNCHANGED answers
        OBVIOUS
      <3>. QED
        BY <3>1
        DEF Next, Runner, Run, Over, vars, runner, ReadJob, Prints, Spills, Loads, Breaks,
            Finishes, Dies, StartStreams, NoRunner, LoopEnds, Kill, Drained, NothingAcquired,
            DrainDeadline, Spawns, SpawnFails, Receive, ReceiveStderr, StdoutEnds, StderrEnds, Waited,
            JobSent, Cancel
    <2>2. i = at
      BY <2>1 DEF Call, IInv, SandboxTypeOK
    <2>3. answers[i] = "none" /\ \A j \in Ids : j < i => answers[j] # "none"
      BY <2>2, SandboxAssumption DEF IInv, SandboxTypeOK, Answered, Ids
    <2>4. outcome \in {"none", "unsettled", "interrupted"}
      BY <2>1 DEF Call, IInv, SandboxTypeOK, Owned, Settled, AtEOF
    <2>. QED
      BY <2>3, <2>4
  <1>. QED
    BY <1>1, InvariantHolds, PTL DEF Spec, CallsInOrder
================================================================================
