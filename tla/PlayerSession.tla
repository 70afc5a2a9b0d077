----------------------------- MODULE PlayerSession -----------------------------
(***************************************************************************)
(* One seat played by players/client.py, over the seat of SeatWindow.      *)
(*                                                                         *)
(* SeatWindow's player is anybody.  Here it is the player of this          *)
(* repository: one connection, one worker per observation, the policy's    *)
(* call to its language model, the writer of its private snapshots, and    *)
(* the stop it has to acknowledge.  Two queues carry the frames.  Every    *)
(* step of the server is one of SeatWindow; the question is what the two   *)
(* ends of the protocol do to each other.                                  *)
(*                                                                         *)
(* The player is one asyncio loop too.  The worker, the call, each writer  *)
(* and the receiving loop (main) are tasks; a task that is cancelled sees  *)
(* it at its next await.                                                   *)
(***************************************************************************)
EXTENDS SeatWindow, Sequences

CONSTANTS
    Own,       \* the seat that players/client.py plays
    MaxFrames, \* bound: frames of the player on their way
    MaxFaults  \* bound: kinds of fault after which the world adds no other one

ASSUME SessionAssumption == Seats = {Own} /\ MaxJoins = 1 /\ MaxAttempts > 0

VARIABLES
    main,      \* where _play_connection stands
    stop,      \* it has had a Stop
    acked,     \* it has had EvidenceReceived
    worker,    \* the task of answer()
    call,      \* the task of policy.submission() and of the native call in it
    reader,    \* response_reader_joined of each attempt
    writers,   \* every ProgressWriter so far; the last one is the current one
    toPlayer,  \* frames on their way to the player
    toServer,  \* frames on their way to the server
    refused,   \* the server has refused a packet of this player
    faults     \* what went wrong in the world around the player

playerVars == <<main, stop, acked, worker, call, reader, writers>>
wireVars == <<toPlayer, toServer, refused, faults>>
sessionVars == <<vars, playerVars, wireVars>>

MainStates == {"connecting", "loop", "settling", "joining", "draining", "closing",
               "flushing", "done", "failed"}
WorkerStates == {"none", "calling", "expired", "cancelling", "finishing", "done",
                 "cancelled", "failed"}
CallStates == {"none", "thinking", "queued", "asked", "open", "closing", "ended",
               "cancelled", "raised"}
\* What can go wrong around the player: in its timing, the network, the model
\* service or the server's process, in what the model replies, which may not be
\* read or not fit the window, and in a profile that came too late for one.
Faults == {"late", "unregistered", "drop", "unjoined", "stalled", "interrupted",
           "signal", "unreadable", "wide", "stale"}

Snapshot == [attempt : AttemptIds, reader : Readers]
Writer == [window : Windows, latest : Seq(Snapshot), closed : BOOLEAN,
           task : {"running", "done", "cancelled"}]
CallState == [step : CallStates, attempts : SUBSET AttemptIds,
              attempt : AttemptIds \cup {NoAttempt}, good : BOOLEAN,
              cancel : {"no", "asked", "seen"}]

NoCall == [step |-> "none", attempts |-> {}, attempt |-> NoAttempt, good |-> FALSE,
           cancel |-> "no"]

\* Frames, by what the other end does with them.
Plain(type) == [type |-> type]
Observed(w) == [type |-> "observation", window |-> w]
Started(w, snapshot) ==
    [type |-> "attempt_started", window |-> w, attempt |-> snapshot.attempt,
     reader |-> snapshot.reader]
\* fits: the server reads the same control from the reply, under its own cap.
Action(w, selected, fits) ==
    [type |-> "action", window |-> w, selected |-> selected, fits |-> fits]

ToPlayer == {Plain(t) : t \in {"welcome", "stop", "evidence", "done", "close"}}
                \cup {Observed(w) : w \in Windows}
ToServer == {Plain("ready"), Plain("stopped")}
                \cup {Started(w, s) : w \in Windows, s \in Snapshot}
                \cup {Action(w, a, f) : w \in Windows, a \in AttemptIds \cup {NoAttempt},
                                         f \in BOOLEAN}

\* One snapshot for each attempt.
IsDictionary(latest) ==
    \A i, j \in DOMAIN latest : latest[i].attempt = latest[j].attempt => i = j

SessionTypeOK ==
    /\ TypeOK
    /\ main \in MainStates
    /\ stop \in BOOLEAN
    /\ acked \in BOOLEAN
    /\ worker \in WorkerStates
    /\ call \in CallState
    /\ reader \in [AttemptIds -> Readers \cup {"none"}]
    /\ writers \in Seq(Writer)
    /\ \A i \in DOMAIN writers : IsDictionary(writers[i].latest)
    /\ toPlayer \in Seq(ToPlayer)
    /\ toServer \in Seq(ToServer)
    /\ refused \in BOOLEAN
    /\ faults \in SUBSET Faults

SessionInit ==
    /\ Init
    /\ main = "connecting"
    /\ stop = FALSE
    /\ acked = FALSE
    /\ worker = "none"
    /\ call = NoCall
    /\ reader = [a \in AttemptIds |-> "none"]
    /\ writers = <<>>
    /\ toPlayer = <<>>
    /\ toServer = <<>>
    /\ refused = FALSE
    /\ faults = {}

WorkerLive == worker \in {"calling", "expired", "cancelling", "finishing"}
CallLive == call.step \in {"thinking", "queued", "asked", "open", "closing"}
Gone == main \in {"done", "failed"}

\* Mutant: an attempt that got no response counts as one that reads it.
AllRead == \A a \in call.attempts : reader[a] = "joined"

\* policy.readers_joined, over the attempts of the last submission.
PlayerReadersJoined == \A a \in call.attempts : reader[a] # "open"

\* Frames to an end that has gone are lost; one to a full socket waits.
Tell(frames) == toPlayer' = IF Gone THEN toPlayer ELSE toPlayer \o frames
TellIf(condition, frames) == IF condition THEN Tell(frames) ELSE UNCHANGED toPlayer
Send(frame) ==
    /\ Len(toServer) < MaxFrames
    /\ toServer' = IF link[Own] = "down" \/ phase = "failed" THEN toServer
                   ELSE Append(toServer, frame)
Fault(f) == Cardinality(faults) < MaxFaults /\ faults' = faults \cup {f}

--------------------------------------------------------------------------------
(***************************************************************************)
(* ProgressWriter: one task that sends the latest snapshot of each attempt.*)
(***************************************************************************)
Current == Len(writers)
Window == writers[Current].window

\* Mutant: snapshots are queued, not replaced.
PutLast(latest, snapshot) == Append(latest, snapshot)

\* The dictionary latest keeps one snapshot for each attempt, in the order the
\* attempts came in.
Put(latest, snapshot) ==
    IF \E i \in DOMAIN latest : latest[i].attempt = snapshot.attempt
    THEN [i \in DOMAIN latest |->
             IF latest[i].attempt = snapshot.attempt THEN snapshot ELSE latest[i]]
    ELSE Append(latest, snapshot)

Handed(w, snapshot) == [w EXCEPT !.latest = Put(w.latest, snapshot)]

\* update: the native call of the current window hands over a snapshot.
Update(a, r) ==
    writers' = [writers EXCEPT ![Current] = Handed(@, [attempt |-> a, reader |-> r])]

\* A sealed writer ends when there is nothing left to send.
Rest(w) ==
    IF w.task = "running" /\ w.closed /\ w.latest = <<>> THEN [w EXCEPT !.task = "done"] ELSE w

Shortened(w) == Rest([w EXCEPT !.latest = Tail(w.latest)])

\* _write takes the first snapshot, and goes on when the socket has taken it.
WriterSend(i) ==
    /\ writers[i].task = "running"
    /\ writers[i].latest # <<>>
    /\ Send(Started(writers[i].window, Head(writers[i].latest)))
    /\ writers' = [writers EXCEPT ![i] = Shortened(@)]
    /\ UNCHANGED <<vars, main, stop, acked, worker, call, reader, toPlayer, refused, faults>>

\* finish begins: no more updates.
Sealing(w) == Rest([w EXCEPT !.closed = TRUE])

Sealed(ws) == IF ws = <<>> THEN ws ELSE [ws EXCEPT ![Len(ws)] = Sealing(@)]

\* Mutant: the writers of earlier windows go on.
LeftRunning(w) == w

\* lifecycle.settle_owner cancels every writer but the current one.
Abandoned(w) == IF w.task = "running" THEN [w EXCEPT !.task = "cancelled"] ELSE w

\* Mutant: nobody waits for the writer.
DrainedAlways == TRUE

Drained == writers # <<>> => writers[Current].task = "done"

--------------------------------------------------------------------------------
(***************************************************************************)
(* LLMPolicy.submission and native.complete: attempts, one after another.  *)
(***************************************************************************)
CallStep(step) == call' = [call EXCEPT !.step = step]
CallOnly == UNCHANGED <<vars, main, stop, acked, worker, wireVars>>

\* The identifier of an attempt is a new UUID.
Fresh == {a \in AttemptIds : reader[a] = "none"}

\* A new attempt, at first or after a transient failure and its backoff.
TryAttempt ==
    /\ call.step = "thinking"
    /\ Cardinality(call.attempts) < MaxAttempts
    /\ Fresh # {}
    /\ LET a == CHOOSE a \in Fresh : TRUE IN
          /\ reader' = [reader EXCEPT ![a] = "unknown"]
          /\ call' = [call EXCEPT !.step = "queued", !.attempt = a,
                                  !.attempts = @ \cup {a}, !.good = FALSE]
    /\ UNCHANGED writers
    /\ CallOnly

\* The policy is scripted, or degrades: no budget left, or a failure that is
\* permanent or the last one allowed.
Degrade ==
    /\ call.step = "thinking"
    /\ call' = [call EXCEPT !.step = "ended", !.attempt = NoAttempt]
    /\ UNCHANGED <<reader, writers>>
    /\ CallOnly

\* The call has its share of the capacity: the first snapshot, and the request.
Request ==
    /\ call.step = "queued"
    /\ CallStep("asked")
    /\ Update(call.attempt, "unknown")
    /\ UNCHANGED reader
    /\ CallOnly

\* The response headers arrive: from here on a reader is open.
Headers ==
    /\ call.step = "asked"
    /\ CallStep("open")
    /\ reader' = [reader EXCEPT ![call.attempt] = "open"]
    /\ Update(call.attempt, "open")
    /\ CallOnly

\* The response is complete and well-formed, or the request fails or runs out
\* of time; the transport is then closed.
ResponseEnds ==
    /\ call.step \in {"queued", "asked", "open"}
    /\ \E good \in {FALSE} \cup {call.step = "open"} :
          call' = [call EXCEPT !.step = "closing", !.good = good]
    /\ UNCHANGED <<reader, writers>>
    /\ CallOnly

\* What submission makes of an attempt that is over: it returns, tries again, or
\* has been cancelled.
After(c) ==
    IF c.cancel # "no" THEN "cancelled" ELSE IF c.good THEN "ended" ELSE "thinking"

Settled(r) == IF r = "open" THEN "joined" ELSE r

\* Mutant: the last snapshot is not written.
ClosedQuietly ==
    /\ call.step = "closing"
    /\ CallStep(After(call))
    /\ reader' = [reader EXCEPT ![call.attempt] = Settled(@)]
    /\ UNCHANGED writers
    /\ CallOnly

\* The transport is closed: the last snapshot, and the call returns what it
\* selects.  A refusal or a reply that cannot be parsed selects nothing.
Closed ==
    /\ call.step = "closing"
    /\ \E selected \in {call.attempt} \cup (IF call.good THEN {NoAttempt} ELSE {}) :
          call' = [call EXCEPT !.step = After(call), !.attempt = selected]
    /\ reader' = [reader EXCEPT ![call.attempt] = Settled(@)]
    /\ Update(call.attempt, Settled(reader[call.attempt]))
    /\ CallOnly

\* The transport does not close in time: complete raises, with the reader open,
\* unless the worker that waits for it has given up first.
CloseStuck ==
    /\ call.step = "closing"
    /\ CallStep("raised")
    /\ Update(call.attempt, reader[call.attempt])
    /\ worker' \in {worker} \cup IF worker \in {"expired", "cancelling"} THEN {"failed"} ELSE {}
    /\ Fault("unjoined")
    /\ UNCHANGED <<vars, main, stop, acked, reader, toPlayer, toServer, refused>>

(***************************************************************************)
(* A cancellation that the task sees before anything else happens to it.   *)
(* In the request, complete goes on to close the transport; if it is       *)
(* closing it already, the cancellation ends that too.                     *)
(***************************************************************************)
AskCancel(c) ==
    IF ~CallLive \/ c.cancel # "no" THEN c
    ELSE CASE c.step = "thinking" -> [c EXCEPT !.cancel = "seen", !.step = "cancelled"]
           [] c.step = "closing" -> [c EXCEPT !.cancel = "asked"]
           [] OTHER -> [c EXCEPT !.cancel = "seen", !.step = "closing", !.good = FALSE]

\* The closing is interrupted: what is left of it is joined, but the last
\* snapshot is not written, and the reader may never be recorded as joined.
CloseInterrupted ==
    /\ call.cancel = "asked"
    /\ call.step = "closing"
    /\ call' = [call EXCEPT !.cancel = "seen", !.step = "cancelled"]
    /\ reader' \in {reader, [reader EXCEPT ![call.attempt] = Settled(@)]}
    /\ Fault("interrupted")
    /\ UNCHANGED <<vars, main, stop, acked, worker, writers, toPlayer, toServer, refused>>

Policy ==
    \/ TryAttempt
    \/ Degrade
    \/ Request
    \/ Headers
    \/ ResponseEnds
    \/ Closed
    \/ CloseStuck
    \/ CloseInterrupted

--------------------------------------------------------------------------------
(***************************************************************************)
(* answer: the worker of one observation.                                  *)
(***************************************************************************)
WorkerStep(step) == worker' = step

\* The call is over before the deadline: the answer is ready, and the writer is
\* sealed.
GotPayload ==
    /\ worker = "calling"
    /\ call.step \in {"ended", "raised"}
    /\ IF call.step = "ended" /\ PlayerReadersJoined
       THEN WorkerStep("finishing") /\ writers' = Sealed(writers)
       ELSE WorkerStep("failed") /\ UNCHANGED writers
    /\ UNCHANGED <<vars, main, stop, acked, call, reader, wireVars>>

\* Three seconds before the window's deadline the call is cancelled.
Deadline ==
    /\ worker = "calling"
    /\ CallLive
    /\ WorkerStep("expired")
    /\ call' = AskCancel(call)
    /\ UNCHANGED <<vars, main, stop, acked, reader, writers, wireVars>>

\* The call has joined: the fallback is the answer.
Fallback ==
    /\ worker = "expired"
    /\ ~CallLive
    /\ IF PlayerReadersJoined
       THEN /\ WorkerStep("finishing")
            /\ writers' = Sealed(writers)
            /\ call' = [call EXCEPT !.attempt = NoAttempt]
       ELSE WorkerStep("failed") /\ UNCHANGED <<writers, call>>
    /\ UNCHANGED <<vars, main, stop, acked, reader, wireVars>>

\* What the model replied makes answer raise: a number for its tests in
\* normalize_submission, or a value that is no JSON in the Action.
Unreadable ==
    /\ \/ worker = "calling" /\ call.step = "ended" /\ PlayerReadersJoined
       \/ worker = "finishing" /\ Drained
    /\ call.attempt # NoAttempt
    /\ WorkerStep("failed")
    /\ Fault("unreadable")
    /\ UNCHANGED <<vars, main, stop, acked, call, reader, writers, toPlayer, toServer, refused>>

\* Every snapshot is sent, and then the action.  A reply with more tests than
\* the window's cap, which the player does not know, is sent with all of them
\* (BoundWithinTheWindow of Rules says which replies fit).
Submit ==
    /\ worker = "finishing"
    /\ Drained
    /\ WorkerStep("done")
    /\ \/ Send(Action(Window, call.attempt, TRUE)) /\ UNCHANGED faults
       \/ /\ call.attempt # NoAttempt
          /\ Send(Action(Window, call.attempt, FALSE))
          /\ Fault("wide")
    /\ UNCHANGED <<vars, main, stop, acked, call, reader, writers, toPlayer, refused>>

\* The socket does not take the frames in time.
FinishStuck ==
    /\ worker = "finishing"
    /\ WorkerStep("failed")
    /\ writers' = [writers EXCEPT ![Current] = Abandoned(@)]
    /\ Fault("stalled")
    /\ UNCHANGED <<vars, main, stop, acked, call, reader, toPlayer, toServer, refused>>

\* Cancelled by the receiving loop, the worker joins its call and ends.
WorkerCancelled ==
    /\ worker = "cancelling"
    /\ ~CallLive
    /\ WorkerStep("cancelled")
    /\ UNCHANGED <<vars, main, stop, acked, call, reader, writers, wireVars>>

Worker ==
    \/ GotPayload
    \/ Deadline
    \/ Fallback
    \/ Unreadable
    \/ Submit
    \/ FinishStuck
    \/ WorkerCancelled

--------------------------------------------------------------------------------
(***************************************************************************)
(* _play_connection: the receiving loop.                                   *)
(***************************************************************************)
\* The loop cancels the worker, and the worker its call.
CancelWorker ==
    IF WorkerLive
    THEN worker' = "cancelling" /\ call' = AskCancel(call)
    ELSE UNCHANGED <<worker, call>>

Ready == Plain("ready")
Stopped == Plain("stopped")

\* Connect, and the welcome, which is answered with Ready when it comes.
Join ==
    /\ main = "connecting"
    /\ phase # "failed"
    /\ Connect(Own)
    /\ main' = "loop"
    /\ Tell(<<Plain("welcome")>>)
    /\ UNCHANGED <<stop, acked, worker, call, reader, writers, toServer, refused, faults>>

NeverJoins ==
    /\ main = "connecting"
    /\ main' = "failed"
    /\ UNCHANGED <<vars, stop, acked, worker, call, reader, writers, wireVars>>

\* The next frame; a worker that has failed is looked at first.
Frame(type) ==
    /\ main = "loop"
    /\ worker # "failed"
    /\ toPlayer # <<>>
    /\ Head(toPlayer).type = type

Take == toPlayer' = Tail(toPlayer)

OnWelcome ==
    /\ Frame("welcome")
    /\ Take
    /\ Send(Ready)
    /\ UNCHANGED <<vars, playerVars, refused, faults>>

\* A worker and its writer for this window.
StartWorker ==
    /\ worker' = "calling"
    /\ call' = [NoCall EXCEPT !.step = "thinking"]
    /\ writers' = Append(writers, [window |-> Head(toPlayer).window, latest |-> <<>>,
                                   closed |-> FALSE,
                                   task |-> "running"])
    /\ main' = "loop"
    /\ Take

\* The connection is given up; finally cancels the worker.
GiveUp == main' = "closing" /\ CancelWorker /\ UNCHANGED writers

OnObservation ==
    /\ Frame("observation")
    /\ IF WorkerLive /\ ~stop
       THEN main' = "settling" /\ CancelWorker /\ UNCHANGED <<writers, toPlayer>>
       ELSE IF stop \/ ~PlayerReadersJoined THEN GiveUp /\ Take
       ELSE StartWorker
    /\ UNCHANGED <<vars, stop, acked, reader, toServer, refused, faults>>

\* The previous worker has joined.
PreviousJoined ==
    /\ main = "settling"
    /\ ~WorkerLive
    /\ IF worker = "failed" \/ ~PlayerReadersJoined THEN GiveUp /\ Take ELSE StartWorker
    /\ UNCHANGED <<vars, stop, acked, reader, toServer, refused, faults>>

\* Stop: the worker is cancelled.  The same stop again changes nothing.
OnStop ==
    /\ Frame("stop")
    /\ Take
    /\ stop' = TRUE
    /\ IF stop THEN UNCHANGED <<main, worker, call>> ELSE main' = "joining" /\ CancelWorker
    /\ UNCHANGED <<vars, acked, reader, writers, toServer, refused, faults>>

\* Worker, call and the writers of earlier windows have joined; the current
\* writer is sealed.
OwnersStopped ==
    /\ main = "joining"
    /\ ~WorkerLive /\ ~CallLive
    /\ IF PlayerReadersJoined
       THEN /\ main' = "draining"
            /\ writers' = Sealed([i \in DOMAIN writers |->
                                     IF i = Current THEN writers[i] ELSE Abandoned(writers[i])])
            /\ UNCHANGED <<worker, call>>
       ELSE GiveUp
    /\ UNCHANGED <<vars, stop, acked, reader, wireVars>>

SendStopped ==
    /\ main = "draining"
    /\ Drained
    /\ Send(Stopped)
    /\ main' = "loop"
    /\ UNCHANGED <<vars, stop, acked, worker, call, reader, writers, toPlayer, refused, faults>>

\* The socket does not take the snapshots, or the Stopped, in time.
DrainStuck ==
    /\ main = "draining"
    /\ main' = "closing"
    /\ writers' = [i \in DOMAIN writers |-> Abandoned(writers[i])]
    /\ Fault("stalled")
    /\ UNCHANGED <<vars, stop, acked, worker, call, reader, toPlayer, toServer, refused>>

OnEvidence ==
    /\ Frame("evidence")
    /\ Take
    /\ IF stop THEN acked' = TRUE /\ UNCHANGED <<main, worker, call, writers>>
               ELSE GiveUp /\ UNCHANGED acked
    /\ UNCHANGED <<vars, stop, reader, toServer, refused, faults>>

\* The process ends, and what it holds goes with it.
Leave(how) ==
    /\ main' = how
    /\ worker' = "none"
    /\ call' = NoCall
    /\ writers' = <<>>
    /\ toPlayer' = <<>>

\* Mutant: only the result ends the session.
OnResult ==
    /\ Frame("done")
    /\ IF acked THEN Leave("done") ELSE Take /\ GiveUp
    /\ UNCHANGED <<vars, stop, acked, reader, toServer, refused, faults>>

\* Done, or the close of the socket, ends an acknowledged session.
OnEnd ==
    /\ Frame("done") \/ Frame("close")
    /\ IF acked THEN Leave("done") ELSE Take /\ GiveUp
    /\ UNCHANGED <<vars, stop, acked, reader, toServer, refused, faults>>

\* worker.result() raises.
WorkerFailed ==
    /\ main = "loop"
    /\ worker = "failed"
    /\ GiveUp
    /\ UNCHANGED <<vars, stop, acked, reader, wireVars>>

\* The finally of _play_connection: the worker has joined, the writer is sealed.
Flush ==
    /\ main = "closing"
    /\ ~WorkerLive /\ ~CallLive
    /\ main' = "flushing"
    /\ writers' = IF PlayerReadersJoined THEN Sealed(writers) ELSE writers
    /\ UNCHANGED <<vars, stop, acked, worker, call, reader, wireVars>>

\* The process exits, the current writer drained or not.
Exit ==
    /\ main = "flushing"
    /\ Leave("failed")
    /\ UNCHANGED <<vars, stop, acked, reader, toServer, refused, faults>>

Main ==
    \/ Join
    \/ NeverJoins
    \/ OnWelcome
    \/ OnObservation
    \/ PreviousJoined
    \/ OnStop
    \/ OwnersStopped
    \/ SendStopped
    \/ DrainStuck
    \/ OnEvidence
    \/ OnEnd
    \/ WorkerFailed
    \/ Flush
    \/ Exit

--------------------------------------------------------------------------------
(***************************************************************************)
(* The server's end: steps of SeatWindow, and the frames they move.        *)
(***************************************************************************)
Live == phase # "failed"
Close == Plain("close")

\* The window was issued with the profile of the configuration, and the player
\* has registered another one.
Stale(w) == "stale" \in faults /\ adm[Own].windows[w] = "default"

\* What deliver accepts, in the order of its tests: progress compares the
\* request of an attempt with the window's, and bind_model_action the control
\* of a native action with the reply's.
Accepts(frame) ==
    /\ ~sealed[Own]
    /\ CASE frame.type = "ready" ->
              ~registered[Own] /\ ~stopMessage[Own] /\ \A w \in Windows : ~Issued(adm[Own], w)
         [] frame.type = "attempt_started" ->
              /\ MayProgress(adm[Own], frame.window, frame.attempt, frame.reader)
              /\ ~Stale(frame.window)
         [] frame.type = "action" ->
              /\ MayConsume(adm[Own], frame.window, frame.selected)
              /\ frame.fits
         [] frame.type = "stopped" -> stopMessage[Own] /\ ~HasUnsettledReaders(adm[Own])

\* Mutant: deliver sets the result of a future that is done.
DeliveredTwice(frame) ==
    CASE frame.type = "ready" -> DeliverReady(Own)
      [] frame.type = "attempt_started" ->
           /\ DeliverStarted(Own)
           /\ adm' = [adm EXCEPT ![Own] = Progress(@, frame.window, frame.attempt, frame.reader)]
      [] frame.type = "action" ->
           /\ adm' = [adm EXCEPT ![Own] = Consume(@, frame.window, frame.selected)]
           /\ fut' = [fut EXCEPT ![Own] = "action"]
           /\ UNCHANGED <<engineVars, linkVars, pending, seen, stopVars>>
      [] frame.type = "stopped" -> DeliverStopped(Own)

\* What deliver does with it; the control of an action is always valid here,
\* for it has been through normalize_submission.
Delivered(frame) ==
    CASE frame.type = "ready" -> DeliverReady(Own)
      [] frame.type = "attempt_started" ->
           /\ DeliverStarted(Own)
           /\ adm' = [adm EXCEPT ![Own] = Progress(@, frame.window, frame.attempt, frame.reader)]
      [] frame.type = "action" ->
           /\ DeliverAction(Own)
           /\ adm' = [adm EXCEPT ![Own] = Consume(@, frame.window, frame.selected)]
           /\ Resolve(Own, "action")
      [] frame.type = "stopped" -> DeliverStopped(Own)

Receive ==
    /\ Live
    /\ link[Own] = "up" /\ toServer # <<>>
    /\ Accepts(Head(toServer))
    /\ Delivered(Head(toServer))
    /\ toServer' = Tail(toServer)
    /\ UNCHANGED <<playerVars, toPlayer, refused, faults>>

\* deliver raises: the connection is closed with all that was on its way.
Refuse ==
    /\ Live
    /\ link[Own] = "up" /\ toServer # <<>>
    /\ ~Accepts(Head(toServer))
    /\ Disconnect(Own)
    /\ toServer' = <<>>
    /\ Tell(<<Close>>)
    /\ refused' = TRUE
    /\ UNCHANGED <<playerVars, faults>>

\* The stop, or the pending observation, follows a welcome that was slow.
Welcomed ==
    /\ Live
    /\ Greet(Own)
    /\ Tell(IF stopMessage[Own] THEN <<Plain("stop")>>
            ELSE IF pending[Own] # NoWindow THEN <<Observed(pending[Own])>> ELSE <<>>)
    /\ UNCHANGED <<playerVars, toServer, refused, faults>>

\* The player has gone, and the server sees the socket closed.
Hangup ==
    /\ Live
    /\ Gone
    /\ link[Own] = "greeting" \/ toServer = <<>>
    /\ Disconnect(Own)
    /\ toServer' = <<>>
    /\ UNCHANGED <<playerVars, toPlayer, refused, faults>>

\* The observation that main is settling for has been received, and stays first.
Received == IF main = "settling" THEN 1 ELSE 0

\* The network drops the connection, and frames with it.
Drop ==
    /\ Live
    /\ ~Gone
    /\ Disconnect(Own)
    /\ \E n \in Received..Len(toPlayer) : toPlayer' = Append(SubSeq(toPlayer, 1, n), Close)
    /\ toServer' = <<>>
    /\ Fault("drop")
    /\ UNCHANGED <<playerVars, refused>>

\* A window is issued.  The server may do so, or stop, before it has read Ready:
\* the player was too slow to connect.  If it reads Ready when it has built the
\* window and not issued it yet, the window keeps the profile of before, which
\* may be another one.
Observe ==
    /\ phase = "asking"
    /\ Ask(Own)
    /\ TellIf(Connected(Own), <<Observed(Round)>>)
    /\ \/ faults' = IF registered[Own] THEN faults ELSE faults \cup {"unregistered"}
       \/ registered[Own] /\ offer[Own] = "default" /\ faults' = faults \cup {"stale"}
    /\ UNCHANGED <<playerVars, toServer, refused>>

\* The call ends without an answer while the player is connected: whatever the
\* player still sends for the window is late.
Unheard ==
    /\ \/ phase = "asking" /\ (SendFailed(Own) \/ TimedOut(Own))
       \/ Cancelled(Own)
    /\ faults' = IF Connected(Own) THEN faults \cup {"late"} ELSE faults
    /\ UNCHANGED <<playerVars, toPlayer, toServer, refused>>

Stopping == phase \in {"stopping", "aborting"}

TellStop ==
    /\ Stopping
    /\ SealUnused(Own) \/ SendStop(Own)
    /\ TellIf(Connected(Own), <<Plain("stop")>>)
    /\ faults' = IF registered[Own] THEN faults ELSE faults \cup {"unregistered"}
    /\ UNCHANGED <<playerVars, toServer, refused>>

TellEvidence ==
    /\ Stopping
    /\ StopAcknowledged(Own)
    /\ TellIf(stopper'[Own] = "acking", <<Plain("evidence")>>)
    /\ UNCHANGED <<playerVars, toServer, refused, faults>>

\* _broadcast_done: the result, and the socket is closed.
TellDone ==
    /\ Publish
    /\ TellIf(Connected(Own), <<Plain("done"), Close>>)
    /\ UNCHANGED <<playerVars, toServer, refused, faults>>

\* The grace after publication is over, and the process ends.
Shutdown ==
    /\ phase = "published"
    /\ Disconnect(Own)
    /\ Tell(<<Close>>)
    /\ toServer' = <<>>
    /\ UNCHANGED <<playerVars, refused, faults>>

\* The process ends without a result, or a signal has it stop its calls first.
Fail ==
    /\ \/ Withhold /\ UNCHANGED faults
       \/ Signal /\ Fault("signal")
    /\ IF phase' = "failed"
       THEN TellIf(Connected(Own), <<Close>>) /\ toServer' = <<>>
       ELSE UNCHANGED <<toPlayer, toServer>>
    /\ UNCHANGED <<playerVars, refused>>

\* The steps of the server that move no frame.
Quiet ==
    /\ \/ phase = "asking" /\ (Sent(Own) \/ Expire(Own))
       \/ Answered(Own)
       \/ Stopping /\ (StopSent(Own) \/ EvidenceSent(Own) \/ StopOverdue(Own))
       \/ Engine
    /\ UNCHANGED <<playerVars, wireVars>>

Server ==
    \/ Receive
    \/ Refuse
    \/ Observe
    \/ Unheard
    \/ TellStop
    \/ TellEvidence
    \/ TellDone
    \/ Shutdown
    \/ Quiet

\* The server is on its way out; that the player ends too is SessionEnds.
Ended == Terminated /\ UNCHANGED sessionVars

SessionNext ==
    \/ Main
    \/ Worker
    \/ Policy
    \/ \E i \in DOMAIN writers : WriterSend(i)
    \/ Server
    \/ Welcomed
    \/ Hangup
    \/ Drop
    \/ Fail
    \/ Ended

SessionSpec == SessionInit /\ [][SessionNext]_sessionVars

(***************************************************************************)
(* Fairness: both event loops run their ready tasks, and armed timers fire.*)
(* Nothing is assumed of the network or of what the model service answers; *)
(* a call, a close and a drain are each under a deadline.                  *)
(***************************************************************************)
SessionFairness ==
    /\ WF_sessionVars(Main)
    /\ WF_sessionVars(Worker)
    /\ WF_sessionVars(Policy)
    /\ WF_sessionVars(Observe \/ Unheard \/ Quiet)
    /\ WF_sessionVars(TellStop \/ TellEvidence)
    /\ WF_sessionVars(TellDone \/ Shutdown \/ (Withhold /\ Fail))

FairSession == SessionSpec /\ SessionFairness

--------------------------------------------------------------------------------
(***************************************************************************)
(* Safety                                                                  *)
(***************************************************************************)
\* deliver refuses a packet of this player only if the window it belongs to was
\* closed on a connected player, Ready came after the first window or while it was
\* made, a last snapshot was never written, or the reply had more tests than the
\* window's cap: no other order of snapshots, actions, observations and stops.
RefusedOnlyWhenLate ==
    refused => faults \cap {"late", "unregistered", "interrupted", "stale", "wide"} # {}

GaveUp == main \in {"closing", "flushing"} /\ Connected(Own) /\ Live

\* The player gives up a connection that is open only when something went wrong
\* around it or with what the model replied: no order of observations, answers and
\* stops, and no signal to the server, makes it quit.
GivesUpOnlyOnFault == GaveUp => faults \ {"signal"} # {}

\* Nothing follows Stopped on the wire: no action of a worker that was cancelled,
\* no snapshot of a writer that was left behind.
StoppedIsLast ==
    /\ \A i \in DOMAIN toServer : toServer[i] = Stopped => i = Len(toServer)
    /\ stopped[Own] => toServer = <<>>

\* The player says Stopped, and results are public, only when no worker, call or
\* writer of the player is left and every reader has joined.
PlayerJoined ==
    ~WorkerLive /\ ~CallLive /\ PlayerReadersJoined
        /\ \A i \in DOMAIN writers : writers[i].task # "running"

StoppedMeansJoined ==
    (\E i \in DOMAIN toServer : toServer[i] = Stopped) \/ stopped[Own] => PlayerJoined

\* What is published of the attempts is what became of them: each attempt the
\* player began is in the evidence, with its final snapshot.
EvidenceComplete ==
    phase = "published" /\ stopMessage[Own] /\ faults \cap {"late", "interrupted"} = {} =>
        \A a \in AttemptIds :
            reader[a] # "none" => /\ adm[Own].attempts[a].window # NoWindow
                                  /\ adm[Own].attempts[a].reader = reader[a]

\* engine.py: a seat that is not connected in time "plays the literalist fallback
\* until it connects", so a player is not refused for having connected late.
LateJoinerPlays == refused => faults \cap {"late", "interrupted", "stale", "wide"} # {}

\* The server's side of a session is the seat of SeatWindow.
ImplementsSeatWindow == Spec

\* The player's process ends, whatever the server and the network do.
SessionEnds == <>Gone
================================================================================
