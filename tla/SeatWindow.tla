------------------------------- MODULE SeatWindow ------------------------------
(***************************************************************************)
(* The seats of one episode, from the first observation to publication.    *)
(*                                                                         *)
(* Per seat: its websocket, its Admission, the call of get_submission the  *)
(* engine has out, and the stop handshake (class WsSeat of server.py).     *)
(* For the episode: the rounds of Engine._collect and the end of           *)
(* GameServer.run_episode.  The server is one asyncio loop, so the code    *)
(* between two awaits is one action, and every await is a point where      *)
(* other actions interleave.                                               *)
(*                                                                         *)
(* The player is not trusted to follow the protocol: any packet can arrive *)
(* on a socket that is being read.  A packet the server refuses raises     *)
(* through _read_player and costs the connection, which is one of the      *)
(* things Disconnect stands for.                                           *)
(*                                                                         *)
(* Time is abstract: a deadline may pass whenever the code waits for it.   *)
(***************************************************************************)
EXTENDS Admission

CONSTANTS
    Seats,       \* the seats of the match (two in the code)
    Holes,       \* config.holes
    BadReplies,  \* the causes a bad frame or a bad submission can be given
    MaxJoins     \* bound: connections accepted per seat

HoleNumbers == 1..Holes

ASSUME SeatWindowAssumption ==
    /\ Holes \in Nat
    /\ MaxJoins \in Nat
    /\ Windows = HoleNumbers \X BOOLEAN
    /\ BadReplies \subseteq {"malformed", "oversize", "wrong_hole"}

VARIABLES
    phase,       \* where Engine.run and run_episode stand
    hole,        \* Engine.current_hole
    holesPlayed, \* Engine.holes_played
    retry,       \* which of the two batches of _collect is out
    offer,       \* profile in the payload _collect built for each seat
    ask,         \* each seat's get_submission task
    reply,       \* what _batch has for each seat: a window and an outcome
    decision,    \* what each hole installed for each seat
    adm,         \* WsSeat.admission
    link,        \* WsSeat.ws: none, attaching, or being read
    joins,       \* connections accepted so far (MaxJoins bounds them)
    everConnected, registered, pending, fut, seen,   \* fields of WsSeat
    stopMessage, stopped, sealed,                    \* fields of WsSeat
    stopper      \* each seat's stop_owner task

engineVars == <<phase, hole, holesPlayed, retry, offer, ask, reply, decision>>
linkVars == <<link, joins, everConnected, registered>>
windowVars == <<pending, fut, seen>>
stopVars == <<stopMessage, stopped, sealed, stopper>>
vars == <<engineVars, adm, linkVars, windowVars, stopVars>>

Phases == {"between", "asking", "judging", "cancelling", "stopping", "aborting",
           "published", "failed"}
AskStates == {"idle", "ready", "sending", "waiting", "expired", "returned"}
StopperStates == {"idle", "sending", "awaiting", "acking", "joined", "unjoined", "crashed"}
FallbackCauses == {"timeout", "malformed", "oversize", "disconnected", "host_error"}
Outcomes == FallbackCauses \cup {"wrong_hole", "action"}
Reply == [window : Windows \cup {NoWindow}, outcome : Outcomes \cup {"none"}]
Decision == [window : Windows \cup {NoWindow}, cause : FallbackCauses \cup {"none"}]

NoReply == [window |-> NoWindow, outcome |-> "none"]
Unplayed == [window |-> NoWindow, cause |-> "none"]

Over == phase \in {"published", "failed"}
Connected(s) == link[s] # "down"
Round == <<hole, retry>>
InCall(s) == ask[s] \in {"sending", "waiting", "expired"}

TypeOK ==
    /\ phase \in Phases
    /\ hole \in 0..Holes
    /\ holesPlayed \in 0..Holes
    /\ retry \in BOOLEAN
    /\ offer \in [Seats -> Profiles]
    /\ ask \in [Seats -> AskStates]
    /\ reply \in [Seats -> Reply]
    /\ decision \in [HoleNumbers -> [Seats -> Decision]]
    /\ adm \in [Seats -> AdmissionState]
    /\ link \in [Seats -> {"down", "greeting", "up"}]
    /\ joins \in [Seats -> 0..MaxJoins]
    /\ everConnected \in [Seats -> BOOLEAN]
    /\ registered \in [Seats -> BOOLEAN]
    /\ pending \in [Seats -> Windows \cup {NoWindow}]
    /\ fut \in [Seats -> BadReplies \cup {"open", "cancelled", "action"}]
    /\ seen \in [Seats -> BOOLEAN]
    /\ stopMessage \in [Seats -> BOOLEAN]
    /\ stopped \in [Seats -> BOOLEAN]
    /\ sealed \in [Seats -> BOOLEAN]
    /\ stopper \in [Seats -> StopperStates]

Init ==
    /\ phase = "between"
    /\ hole = 0
    /\ holesPlayed = 0
    /\ retry = FALSE
    /\ offer = [s \in Seats |-> "default"]
    /\ ask = [s \in Seats |-> "idle"]
    /\ reply = [s \in Seats |-> NoReply]
    /\ decision = [h \in HoleNumbers |-> [s \in Seats |-> Unplayed]]
    /\ adm = [s \in Seats |-> EmptyAdmission]
    /\ link = [s \in Seats |-> "down"]
    /\ joins = [s \in Seats |-> 0]
    /\ everConnected = [s \in Seats |-> FALSE]
    /\ registered = [s \in Seats |-> FALSE]
    /\ pending = [s \in Seats |-> NoWindow]
    /\ fut = [s \in Seats |-> "open"]
    /\ seen = [s \in Seats |-> FALSE]
    /\ stopMessage = [s \in Seats |-> FALSE]
    /\ stopped = [s \in Seats |-> FALSE]
    /\ sealed = [s \in Seats |-> FALSE]
    /\ stopper = [s \in Seats |-> "idle"]

--------------------------------------------------------------------------------
(***************************************************************************)
(* The connection: _handle_player, attach and detach.                      *)
(***************************************************************************)

\* A socket is accepted while the seat has none; welcome is written at once,
\* and attach suspends until it is sent.
Connect(s) ==
    /\ ~Connected(s)
    /\ joins[s] < MaxJoins
    /\ link' = [link EXCEPT ![s] = "greeting"]
    /\ joins' = [joins EXCEPT ![s] = @ + 1]
    /\ everConnected' = [everConnected EXCEPT ![s] = TRUE]
    /\ UNCHANGED <<engineVars, adm, registered, windowVars, stopVars>>

\* attach goes on after welcome: it sends the stop, or else the pending
\* observation, and _read_player begins.
Greet(s) ==
    /\ link[s] = "greeting"
    /\ link' = [link EXCEPT ![s] = "up"]
    /\ seen' = [seen EXCEPT ![s] = @ \/ (~stopMessage[s] /\ pending[s] # NoWindow)]
    /\ UNCHANGED <<engineVars, adm, joins, everConnected, registered, pending, fut,
                   stopVars>>

\* The socket closes, a heartbeat is missed, a send in attach fails, or deliver
\* raises on a packet it refuses: detach runs.
Disconnect(s) ==
    /\ Connected(s)
    /\ link' = [link EXCEPT ![s] = "down"]
    /\ UNCHANGED <<engineVars, adm, joins, everConnected, registered, windowVars,
                   stopVars>>

(***************************************************************************)
(* deliver: one packet of the player, on a socket being read.              *)
(***************************************************************************)
Reading(s) == link[s] = "up" /\ ~sealed[s]

\* Ready registers the profile once, before the first window and the stop.
DeliverReady(s) ==
    /\ Reading(s)
    /\ ~registered[s]
    /\ \A w \in Windows : ~Issued(adm[s], w)
    /\ ~stopMessage[s]
    /\ registered' = [registered EXCEPT ![s] = TRUE]
    /\ UNCHANGED <<engineVars, adm, link, joins, everConnected, windowVars, stopVars>>

\* Started: a first or later snapshot of a native attempt.
DeliverStarted(s) ==
    /\ Reading(s)
    /\ \E w \in Windows, a \in AttemptIds, r \in Readers :
          /\ MayProgress(adm[s], w, a, r)
          /\ adm' = [adm EXCEPT ![s] = Progress(@, w, a, r)]
    /\ UNCHANGED <<engineVars, linkVars, windowVars, stopVars>>

\* fut.set_result, unless the future is done.
Resolve(s, outcome) ==
    fut' = IF fut[s] = "open" THEN [fut EXCEPT ![s] = outcome] ELSE fut

\* Action: admission consumes the window, then the submission is validated.  A
\* native action has been validated by bind_model_action; a scripted one may
\* turn out to be bad.
DeliverAction(s) ==
    /\ Reading(s)
    /\ \E w \in Windows, selected \in AttemptIds \cup {NoAttempt} :
          /\ MayConsume(adm[s], w, selected)
          /\ adm' = [adm EXCEPT ![s] = Consume(@, w, selected)]
          /\ \/ Resolve(s, "action")
             \/ /\ selected = NoAttempt
                /\ \E cause \in BadReplies : Resolve(s, cause)
    /\ UNCHANGED <<engineVars, linkVars, pending, seen, stopVars>>

\* deliver_bad: a frame that is too long or is not JSON.
DeliverBad(s) ==
    /\ link[s] = "up"
    /\ pending[s] # NoWindow
    /\ \E cause \in BadReplies \ {"wrong_hole"} : Resolve(s, cause)
    /\ UNCHANGED <<engineVars, adm, linkVars, pending, seen, stopVars>>

\* Stopped: the player says it has joined its owners.
DeliverStopped(s) ==
    /\ Reading(s)
    /\ stopMessage[s]
    /\ ~HasUnsettledReaders(adm[s])
    /\ stopped' = [stopped EXCEPT ![s] = TRUE]
    /\ UNCHANGED <<engineVars, adm, linkVars, windowVars, stopMessage, sealed, stopper>>

Deliver(s) ==
    \/ DeliverReady(s)
    \/ DeliverStarted(s)
    \/ DeliverAction(s)
    \/ DeliverBad(s)
    \/ DeliverStopped(s)

--------------------------------------------------------------------------------
(***************************************************************************)
(* get_submission: the call the engine has out to a seat it asks.  What    *)
(* raises in it, _batch turns into host_error.                             *)
(***************************************************************************)

\* The call begins: the window is issued, and sent if the seat is connected.
\* (Admission never refuses the window: WindowAlwaysIssued below.)
Ask(s) ==
    /\ ask[s] = "ready"
    /\ MayIssue(adm[s], Round)
    /\ adm' = [adm EXCEPT ![s] = Issue(@, Round, offer[s])]
    /\ pending' = [pending EXCEPT ![s] = Round]
    /\ fut' = [fut EXCEPT ![s] = "open"]
    /\ seen' = [seen EXCEPT ![s] = Connected(s)]
    /\ ask' = [ask EXCEPT ![s] = IF Connected(s) THEN "sending" ELSE "waiting"]
    /\ UNCHANGED <<phase, hole, holesPlayed, retry, offer, reply, decision, linkVars,
                   stopVars>>

\* The call ends with an outcome; its finally closes the window, and the future
\* goes with it.
Return(s, outcome) ==
    /\ ask' = [ask EXCEPT ![s] = "returned"]
    /\ reply' = [reply EXCEPT ![s] = [window |-> Round, outcome |-> outcome]]
    /\ adm' = [adm EXCEPT ![s] = CloseWindow(@, Round)]
    /\ pending' = [pending EXCEPT ![s] = NoWindow]
    /\ fut' = [fut EXCEPT ![s] = "open"]
    /\ UNCHANGED <<phase, hole, holesPlayed, retry, offer, decision, linkVars, seen, stopVars>>

\* The observation is sent.
Sent(s) ==
    /\ ask[s] = "sending"
    /\ ask' = [ask EXCEPT ![s] = "waiting"]
    /\ UNCHANGED <<phase, hole, holesPlayed, retry, offer, reply, decision, adm, linkVars,
                   windowVars, stopVars>>

\* The socket fails, or the deadline passes, while the observation is sent.
SendFailed(s) ==
    /\ ask[s] = "sending"
    /\ Return(s, "host_error")

\* The future has a result when wait_for looks.
Answered(s) ==
    /\ ask[s] = "waiting"
    /\ fut[s] \in BadReplies \cup {"action"}
    /\ Return(s, fut[s])

\* Mutant: the deadline is only armed for a connected seat.
ExpireConnected(s) ==
    /\ ask[s] = "waiting"
    /\ fut[s] = "open"
    /\ Connected(s)
    /\ ask' = [ask EXCEPT ![s] = "expired"]
    /\ fut' = [fut EXCEPT ![s] = "cancelled"]
    /\ UNCHANGED <<phase, hole, holesPlayed, retry, offer, reply, decision, adm, linkVars,
                   pending, seen, stopVars>>

\* The deadline passes: wait_for cancels the future and waits for that to be
\* seen, with the window still active.
Expire(s) ==
    /\ ask[s] = "waiting"
    /\ fut[s] = "open"
    /\ ask' = [ask EXCEPT ![s] = "expired"]
    /\ fut' = [fut EXCEPT ![s] = "cancelled"]
    /\ UNCHANGED <<phase, hole, holesPlayed, retry, offer, reply, decision, adm, linkVars,
                   pending, seen, stopVars>>

\* wait_for raises TimeoutError.
TimedOut(s) ==
    /\ ask[s] = "expired"
    /\ Return(s, IF seen[s] THEN "timeout" ELSE "disconnected")

\* The task is cancelled.  One that has not started never does; one that has
\* runs its finally.
Cancelled(s) ==
    /\ phase = "cancelling"
    /\ ask[s] = "ready" \/ InCall(s)
    /\ ask' = [ask EXCEPT ![s] = "returned"]
    /\ IF InCall(s)
       THEN /\ adm' = [adm EXCEPT ![s] = CloseWindow(@, Round)]
            /\ pending' = [pending EXCEPT ![s] = NoWindow]
            /\ fut' = [fut EXCEPT ![s] = "open"]
       ELSE UNCHANGED <<adm, pending, fut>>
    /\ UNCHANGED <<phase, hole, holesPlayed, retry, offer, reply, decision, linkVars, seen,
                   stopVars>>

--------------------------------------------------------------------------------
(***************************************************************************)
(* Engine.run and _collect: two batches at most, then the fallback.        *)
(***************************************************************************)

\* The payloads are built, and a task is made to ask each of these seats.
Open(seats) ==
    /\ offer' = [s \in Seats |-> IF registered[s] THEN "registered" ELSE "default"]
    /\ ask' = [s \in Seats |-> IF s \in seats THEN "ready" ELSE "idle"]

BeginHole ==
    /\ phase = "between"
    /\ hole < Holes
    /\ phase' = "asking"
    /\ hole' = hole + 1
    /\ retry' = FALSE
    /\ reply' = [s \in Seats |-> NoReply]
    /\ Open(Seats)
    /\ UNCHANGED <<holesPlayed, decision, adm, linkVars, windowVars, stopVars>>

\* Mutant: a batch is over when one of its seats has returned.
FirstReturned == \E s \in Seats : ask[s] = "returned"

BatchJoined == \A s \in Seats : ask[s] \in {"idle", "returned"}

Unanswered == {s \in Seats : reply[s].outcome # "action"}

RetryBatch ==
    /\ phase = "asking"
    /\ BatchJoined
    /\ ~retry
    /\ Unanswered # {}
    /\ retry' = TRUE
    /\ Open(Unanswered)
    /\ UNCHANGED <<phase, hole, holesPlayed, reply, decision, adm, linkVars, windowVars,
                   stopVars>>

\* A seat with no submission after both batches plays the fallback; a cause
\* the counters do not have is counted as a timeout.
Installed(r) ==
    IF r.outcome = "action"
    THEN [window |-> r.window, cause |-> "none"]
    ELSE [window |-> NoWindow,
          cause |-> IF r.outcome \in FallbackCauses THEN r.outcome ELSE "timeout"]

\* Mutant: the fallback is installed without the retry.
CollectedAtOnce == BatchJoined

Collected == BatchJoined /\ (retry \/ Unanswered = {})

Install ==
    /\ phase = "asking"
    /\ Collected
    /\ phase' = "judging"
    /\ decision' = [decision EXCEPT ![hole] = [s \in Seats |-> Installed(reply[s])]]
    /\ ask' = [s \in Seats |-> "idle"]
    /\ reply' = [s \in Seats |-> NoReply]
    /\ UNCHANGED <<hole, holesPlayed, retry, offer, adm, linkVars, windowVars, stopVars>>

\* The sandbox judges the hole, and it is applied.
HoleScored ==
    /\ phase = "judging"
    /\ phase' = "between"
    /\ holesPlayed' = hole
    /\ UNCHANGED <<hole, retry, offer, ask, reply, decision, adm, linkVars, windowVars,
                   stopVars>>

\* Mutant: the fault costs the hole, and run goes on to the next one.
SandboxFaultSkipped ==
    /\ phase = "judging"
    /\ phase' = "between"
    /\ UNCHANGED <<hole, holesPlayed, retry, offer, ask, reply, decision, adm, linkVars,
                   windowVars, stopVars>>

\* The sandbox cannot be run (SandboxError): the hole is not applied.
SandboxFault ==
    /\ phase = "judging"
    /\ phase' = "stopping"
    /\ UNCHANGED <<hole, holesPlayed, retry, offer, ask, reply, decision, adm, linkVars,
                   windowVars, stopVars>>

\* The sandbox does not join its process, or the journal or the replay cannot
\* record the hole: run raises what run_episode does not catch.
EngineRaises ==
    /\ phase = "judging"
    /\ phase' = "aborting"
    /\ UNCHANGED <<hole, holesPlayed, retry, offer, ask, reply, decision, adm, linkVars,
                   windowVars, stopVars>>

\* Every hole is played, or the wall clock allows no other one.
EndRun ==
    /\ phase = "between"
    /\ phase' = "stopping"
    /\ UNCHANGED <<hole, holesPlayed, retry, offer, ask, reply, decision, adm, linkVars,
                   windowVars, stopVars>>

(***************************************************************************)
(* SIGTERM or SIGINT: run_owned cancels run_episode at its await.  In a    *)
(* batch, gather cancels the calls, and _batch joins them.                 *)
(***************************************************************************)
Signal ==
    /\ ~Over
    /\ phase # "cancelling"
    /\ phase' = CASE phase = "asking" -> "cancelling"
                  [] phase \in {"between", "judging"} -> "aborting"
                  [] OTHER -> "failed"
    /\ UNCHANGED <<hole, holesPlayed, retry, offer, ask, reply, decision, adm, linkVars,
                   windowVars, stopVars>>

CallsCancelled ==
    /\ phase = "cancelling"
    /\ BatchJoined
    /\ phase' = "aborting"
    /\ ask' = [s \in Seats |-> "idle"]
    /\ reply' = [s \in Seats |-> NoReply]
    /\ UNCHANGED <<hole, holesPlayed, retry, offer, decision, adm, linkVars, windowVars,
                   stopVars>>

--------------------------------------------------------------------------------
(***************************************************************************)
(* stop_owner, one task per seat, and the publication they guard.          *)
(***************************************************************************)
Stopper(s, state) == stopper' = [stopper EXCEPT ![s] = state]

\* A seat that never connected has no player to stop.
SealUnused(s) ==
    /\ stopper[s] = "idle"
    /\ ~everConnected[s]
    /\ adm' = [adm EXCEPT ![s] = StopAdmission(@)]
    /\ sealed' = [sealed EXCEPT ![s] = TRUE]
    /\ Stopper(s, "joined")
    /\ UNCHANGED <<engineVars, linkVars, windowVars, stopMessage, stopped>>

SendStop(s) ==
    /\ stopper[s] = "idle"
    /\ everConnected[s]
    /\ adm' = [adm EXCEPT ![s] = StopAdmission(@)]
    /\ stopMessage' = [stopMessage EXCEPT ![s] = TRUE]
    /\ Stopper(s, IF Connected(s) THEN "sending" ELSE "awaiting")
    /\ UNCHANGED <<engineVars, linkVars, windowVars, stopped, sealed>>

StopSent(s) ==
    /\ stopper[s] = "sending"
    /\ Stopper(s, "awaiting")
    /\ UNCHANGED <<engineVars, adm, linkVars, windowVars, stopMessage, stopped, sealed>>

\* Stopped has been received.  The readers are checked again, and the socket
\* is asserted to be there still.
StopAcknowledged(s) ==
    /\ stopper[s] = "awaiting"
    /\ stopped[s]
    /\ Stopper(s, CASE HasUnsettledReaders(adm[s]) -> "unjoined"
                    [] ~HasUnsettledReaders(adm[s]) /\ Connected(s) -> "acking"
                    [] OTHER -> "crashed")
    /\ UNCHANGED <<engineVars, adm, linkVars, windowVars, stopMessage, stopped, sealed>>

\* EvidenceReceived is sent.
EvidenceSent(s) ==
    /\ stopper[s] = "acking"
    /\ sealed' = [sealed EXCEPT ![s] = TRUE]
    /\ Stopper(s, "joined")
    /\ UNCHANGED <<engineVars, adm, linkVars, windowVars, stopMessage, stopped>>

\* Mutant: nothing bounds the wait for Stopped.
StopOverdueSending(s) ==
    /\ stopper[s] \in {"sending", "acking"}
    /\ Stopper(s, "unjoined")
    /\ UNCHANGED <<engineVars, adm, linkVars, windowVars, stopMessage, stopped, sealed>>

\* The cleanup deadline passes, or a send fails.
StopOverdue(s) ==
    /\ stopper[s] \in {"sending", "awaiting", "acking"}
    /\ Stopper(s, "unjoined")
    /\ UNCHANGED <<engineVars, adm, linkVars, windowVars, stopMessage, stopped, sealed>>

\* The journal binds each native action it finds accepted in a hole that was
\* not a fallback to the control the engine installed; the controls of two
\* windows are taken to differ.
AcceptedIn(s, h) ==
    {w \in {h} \X BOOLEAN : adm[s].accepted[w] \in AttemptIds}

JournalAgrees ==
    \A s \in Seats, h \in 1..holesPlayed :
        decision[h][s].cause = "none" =>
            AcceptedIn(s, h) \subseteq {decision[h][s].window}

\* Mutant: publication waits for no player that has gone away.
OwnersJoinedOrGone == \A s \in Seats : stopper[s] = "joined" \/ ~Connected(s)

OwnersJoined == \A s \in Seats : stopper[s] = "joined"

\* Journal.finish checks the readers again: a snapshot can arrive after Stopped.
ReadersJoined == \A s \in Seats : ~HasUnsettledReaders(adm[s])

Publish ==
    /\ phase = "stopping"
    /\ OwnersJoined
    /\ ReadersJoined
    /\ JournalAgrees
    /\ phase' = "published"
    /\ UNCHANGED <<hole, holesPlayed, retry, offer, ask, reply, decision, adm, linkVars,
                   windowVars, stopVars>>

\* run has raised, an owner is left unjoined, or the journal refuses:
\* run_episode raises.
Withhold ==
    /\ phase \in {"stopping", "aborting"}
    /\ \A s \in Seats : stopper[s] \in {"joined", "unjoined", "crashed"}
    /\ phase = "stopping" => ~(OwnersJoined /\ ReadersJoined /\ JournalAgrees)
    /\ phase' = "failed"
    /\ UNCHANGED <<hole, holesPlayed, retry, offer, ask, reply, decision, adm, linkVars,
                   windowVars, stopVars>>

--------------------------------------------------------------------------------
\* A process that has failed serves nobody.
Player(s) ==
    /\ phase # "failed"
    /\ Connect(s) \/ Greet(s) \/ Disconnect(s) \/ Deliver(s)

\* A call that is cancelled once its future has a result still returns it
\* (wait_for), and its batch drops it.
Call(s) ==
    \/ /\ phase = "asking"
       /\ Ask(s) \/ Sent(s) \/ SendFailed(s) \/ Expire(s) \/ TimedOut(s)
    \/ Answered(s)
    \/ Cancelled(s)

Engine ==
    \/ BeginHole
    \/ RetryBatch
    \/ Install
    \/ HoleScored
    \/ SandboxFault
    \/ EngineRaises
    \/ EndRun
    \/ CallsCancelled

Stop(s) ==
    /\ phase \in {"stopping", "aborting"}
    /\ \/ SealUnused(s)
       \/ SendStop(s)
       \/ StopSent(s)
       \/ StopAcknowledged(s)
       \/ EvidenceSent(s)
       \/ StopOverdue(s)

\* The process is on its way out.
Terminated == Over /\ UNCHANGED vars

Next ==
    \/ \E s \in Seats : Player(s) \/ Call(s) \/ Stop(s)
    \/ Engine
    \/ Signal
    \/ Publish
    \/ Withhold
    \/ Terminated

Spec == Init /\ [][Next]_vars

(***************************************************************************)
(* Fairness: the event loop runs every ready task, and a timer that is     *)
(* armed fires.  Nothing is assumed of a player, the network or a signal.  *)
(***************************************************************************)
Fairness ==
    /\ \A s \in Seats : WF_vars(Call(s)) /\ WF_vars(Stop(s))
    /\ WF_vars(Engine)
    /\ WF_vars(Publish \/ Withhold)

FairSpec == Spec /\ Fairness

--------------------------------------------------------------------------------
(***************************************************************************)
(* Safety                                                                  *)
(***************************************************************************)

\* The window an action may still be consumed in is the one whose future
\* deliver is about to resolve: the assertion in deliver after consume, which
\* a window left active by a call that has returned would break.
ActiveWindowPending ==
    \A s \in Seats : adm[s].active # NoWindow => pending[s] = adm[s].active

\* A call to get_submission never has its window refused: the previous one is
\* closed, admission is not stopping and the window is new, however deliveries,
\* timeouts and disconnections of the previous calls interleaved.
WindowAlwaysIssued ==
    \A s \in Seats : ask[s] = "ready" => MayIssue(adm[s], Round)

\* What a hole installs as a seat's own submission was accepted by admission in
\* a window of that hole: an answer that is late for its window never plays
\* another one.
InstalledWasAccepted ==
    \A h \in HoleNumbers, s \in Seats :
        LET w == decision[h][s].window IN
        w # NoWindow => w[1] = h /\ adm[s].accepted[w] # NoAction

\* A seat plays the fallback only after both its windows of the hole were
\* issued to it: no interleaving costs a seat its retry.
FallbackAfterRetry ==
    \A h \in HoleNumbers, s \in Seats :
        decision[h][s].cause # "none" =>
            \A again \in BOOLEAN : Issued(adm[s], <<h, again>>)

\* Results are public only when every seat is sealed, every player that was
\* sent a stop has acknowledged it, and no native response reader is open;
\* sealing keeps it so, whatever the players still send.
PublishedJoined ==
    phase = "published" =>
        \A s \in Seats :
            /\ sealed[s]
            /\ stopMessage[s] => stopped[s]
            /\ ~HasUnsettledReaders(adm[s])

\* A window holds at most as many attempts as the source retry policy allows.
AttemptBudget ==
    \A s \in Seats, w \in Windows : Cardinality(Rows(adm[s], w)) <= MaxAttempts

(***************************************************************************)
(* The inductive invariant behind these (SeatWindowProofs).                *)
(***************************************************************************)
CallOwnsWindow(s) ==
    /\ pending[s] = IF InCall(s) THEN Round ELSE NoWindow
    /\ adm[s].active # NoWindow =>
          InCall(s) /\ adm[s].active = Round /\ adm[s].accepted[Round] = NoAction
    /\ InCall(s) => Issued(adm[s], Round)
    /\ InCall(s) /\ fut[s] = "action" => adm[s].accepted[Round] # NoAction

WindowsInOrder(s) ==
    /\ \A w \in Windows :
          /\ Issued(adm[s], w) => w[1] <= hole /\ (w = <<hole, TRUE>> => retry)
          /\ adm[s].accepted[w] # NoAction => Issued(adm[s], w)
    /\ ask[s] = "ready" => ~Issued(adm[s], Round)

BatchKept(s) ==
    phase = "asking" =>
        /\ ask[s] = "returned" => Issued(adm[s], Round)
        /\ ask[s] = "idle" => retry /\ reply[s].outcome = "action"
        /\ retry /\ ask[s] # "idle" => Issued(adm[s], <<hole, FALSE>>)
        /\ reply[s].outcome = "action" =>
              /\ reply[s].window \in Windows
              /\ reply[s].window[1] = hole
              /\ adm[s].accepted[reply[s].window] # NoAction

StopInOrder(s) ==
    /\ adm[s].stopping \/ stopper[s] # "idle" => 
          phase \in {"stopping", "aborting", "published", "failed"}
    /\ stopper[s] = "idle" => ~stopMessage[s]
    /\ stopper[s] = "joined" <=> sealed[s]
    /\ stopper[s] \in {"acking", "joined"} /\ stopMessage[s] => stopped[s]

WindowInv ==
    /\ \A s \in Seats : CallOwnsWindow(s) /\ WindowsInOrder(s) /\ BatchKept(s)
    /\ InstalledWasAccepted
    /\ FallbackAfterRetry

StopInv ==
    /\ \A s \in Seats : StopInOrder(s)
    /\ PublishedJoined
    /\ phase = "published" => OwnersJoined

(***************************************************************************)
(* Action properties                                                       *)
(***************************************************************************)

\* Once admission stops, no window, attempt or action is added: what the
\* journal will bind is fixed but for the later snapshots of known attempts.
StopFreezes ==
    [][\A s \in Seats : adm[s].stopping =>
          /\ adm'[s].windows = adm[s].windows
          /\ adm'[s].accepted = adm[s].accepted
          /\ \A a \in AttemptIds :
                adm'[s].attempts[a].window = adm[s].attempts[a].window]_vars

\* Evidence only grows: an issued window keeps its profile, an attempt its
\* window, and a reader that has joined stays joined.
EvidenceMonotone ==
    [][\A s \in Seats :
          /\ \A w \in Windows :
                Issued(adm[s], w) => adm'[s].windows[w] = adm[s].windows[w]
          /\ \A a \in AttemptIds :
                /\ adm[s].attempts[a].window # NoWindow =>
                      adm'[s].attempts[a].window = adm[s].attempts[a].window
                /\ adm[s].attempts[a].reader = "joined" =>
                      adm'[s].attempts[a].reader = "joined"]_vars

\* A window is consumed at most once: a second action, sent before the call
\* that waits for the first one resumes, is refused.
OneActionPerWindow ==
    [][\A s \in Seats, w \in Windows :
          adm[s].accepted[w] # NoAction => adm'[s].accepted[w] = adm[s].accepted[w]]_vars

(***************************************************************************)
(* Stated by the code or its documents, and not true of it (README).       *)
(***************************************************************************)

\* Journal._decisions_for_application raises unless the control of every native
\* action accepted in a hole is the one the engine installed.
AcceptedControlInstalled == JournalAgrees

(***************************************************************************)
(* The abstract episode: holes are opened in order, judged only once both  *)
(* seats' submissions are installed, and nothing is published while a hole *)
(* is going on.                                                            *)
(***************************************************************************)
Stage ==
    CASE phase = "asking" -> "open"
      [] phase \in {"cancelling", "stopping", "aborting"} -> "ending"
      [] phase = "failed" -> "withheld"
      [] OTHER -> phase

Episode == INSTANCE Match WITH stage <- Stage, opened <- hole, scored <- holesPlayed

\* Engine.run and run_episode, over the seats' calls and whatever the players
\* and signals do, go through the holes as Match has them go.
ImplementsMatch == Episode!Spec

(***************************************************************************)
(* Liveness                                                                *)
(***************************************************************************)

\* Every hole that is opened is judged, whatever the players do, unless a signal
\* ends the episode: a seat that is silent or gone costs the other seat a
\* deadline, not the match.
HoleResolves == (phase = "asking") ~> (phase = "judging" \/ Over)

\* The episode ends, with its results published or withheld.
EpisodeEnds == <>Over

================================================================================
