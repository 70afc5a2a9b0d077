# A formal model of CoGolf

CoGolf is a two-seat match of code golf: each hole shows both seats the same
specification, collects one implementation and a few tests from each, fires each
seat's legal tests at the other's code in a sandbox, and scores the hole. This
directory holds TLA+ modules translated from the Python under `src/`, the TLC
configurations that check them on small instances, and proofs for every value of
the constants.

## 1. The system

| part | state | operations | talks to |
|---|---|---|---|
| Engine (`engine.py`) | hole, holes played, scores, per-seat history, wall deadline | run, `_collect`, `_batch`, `_legality`, `_cross_fire`, `_play_hole` | seats (`get_submission`), sandbox, observers (replay, journal, progress) |
| Seat (`server.py` `WsSeat`) | socket, pending window and future, stop handshake, sealed | attach, detach, deliver, deliver_bad, get_submission, stop_owner | engine, player socket, admission, journal |
| Admission (`private_window.py`) | issued windows, active window, native attempts, accepted actions, stopping | issue, progress, consume, close_window, stop_admission | seat, journal |
| Episode (`server.py` `GameServer`) | results document, scores, spectators and their send tasks | run_episode, `_broadcast_done`, `_write_artifacts`, `_on_progress`, `_report_player_failure` | engine, seats, journal, URIs |
| Journal (`journal.py`) | spool, windows, applications, sealed | window, progress, applied, finish | admission, file system |
| Ownership (`lifecycle.py`) | owner tree, tasks, deadlines, stopping | owned_task, settle, settle_owner, own_until, run_owned | everything that starts a task; signals |
| Sandbox (`sandbox.py`, `sandbox_runner.py`) | child process, streams, capture | run, `_parse`; runner main | engine, operating system |
| Submission and values (`submission.py`, `values.py`) | none | validate, sanitize, parse, normalize, canon, equal, fingerprint | seat, engine, player |
| Scoring (`scoring.py`) | none | hole_score, match_scores, cumulative, winner, killer_test | engine |
| URIs (`uris.py`) | none | bounded retries of reads and writes | episode |
| Player client (`players/`) | worker, progress writers, native attempts, stop, acknowledged | `_play_connection`, `answer`, ProgressWriter, native completion, policies | server socket, language model |
| Configuration (`config.py`) | none | from_dict, to_dict | episode, replay |
| Viewers, training tools, build | - | presentation and offline work | replay file |

The server is one asyncio loop: the code between two awaits is atomic, and every
await is a place where packets, timeouts, disconnections and signals interleave.
The hard behaviours are therefore in the seat (a future cancelled by a deadline
while an answer is on its way, reconnections inside a window, a stop handshake
with an untrusted player), in the engine's two rounds over two concurrent seats,
in publication (which must happen only after every owner has joined, and may be cut
short by a signal or a crash at any step), in the sandbox (a child that is not
trusted, five tasks and two deadlines), and in the player, which is an asyncio
loop of its own and has to keep its snapshots, its action and its stop in order.

What makes each part correct:

- *Admission*: one window at a time; one action per window; evidence only grows;
  a bounded number of attempts; nothing new after the stop.
- *Seat*: an answer counts only in the window it was asked for; the engine's call
  always returns by its deadline; a sealed seat is closed for good.
- *Engine*: both seats are asked together, only the unanswered are asked again, a
  fallback needs both windows; scores are zero-sum and follow from the verdicts.
- *Episode*: results are public only when every owner has joined; the done
  message precedes the artifacts.
- *Journal*: what it binds is what the engine installed.
- *Ownership*: a scope ends only when every descendant has been observed to end.
- *Sandbox*: a batch answers every call; the prefix received survives a kill.
- *Player client*: it reports joined owners only when they are, sends no action
  after a stop, delivers the last snapshot of every attempt first, and the server
  refuses nothing of it that is in time and fits its window.
- *Submission and values*: what the player sends passes the server's checks whole;
  equality, canonical form and fingerprint agree.
- *Scoring, history, configuration*: the functions return what they say.

## 2. The modules

### Admission, and SeatWindow over it

`Admission` is the class of the same name as operators on a record: each method is
an operator from a record to the next, and its `raise` statements are the `May...`
predicate of the method. A window's UUID is replaced by the hole and round that
issue it, which are as unique; a snapshot of a native attempt by its window and
what it says of its response reader.

`SeatWindow` is the seats of one episode:

| code | module |
|---|---|
| `_handle_player`, `attach`, `detach` | `Connect`, `Greet`, `Disconnect` (`link` is the socket: down, being greeted, being read) |
| `_read_player`, `deliver`, `deliver_bad` | `DeliverReady`, `DeliverStarted`, `DeliverAction`, `DeliverBad`, `DeliverStopped` |
| `get_submission`, `_send_pending` and `ask` in `_batch` | `Ask`, `Sent`, `SendFailed`, `Answered`, `Expire`, `TimedOut`, `Cancelled` (`ask` is the task's place in it) |
| `_collect`, `_batch` | `BeginHole`, `RetryBatch`, `Install` |
| the rest of `Engine.run` | `HoleScored`, `SandboxFault`, `EngineRaises`, `EndRun` |
| `run_owned` on a signal | `Signal`, `CallsCancelled` |
| `stop_owner` | `SealUnused`, `SendStop`, `StopSent`, `StopAcknowledged`, `EvidenceSent`, `StopOverdue` |
| the end of `run_episode`, `Journal.finish` | `Publish`, `Withhold` |

The player is any sequence of well-formed packets, connections and
disconnections; a packet the server refuses raises in `deliver` and costs the
connection, which `Disconnect` covers. `wait_for` is the one of Python 3.11 (the
image of the Dockerfile): a deadline cancels the future and the call resumes only
afterwards (`Expire`, `TimedOut`), and a call cancelled when its future already
has a result returns it (`Answered` stays enabled while cancelling). Locals of a
Python call (`reply`, `offer`, the future) return to their initial value when the
call ends.

Time is abstract: where the code waits for a deadline, the deadline may pass.

### HoleLoop

`HoleLoop` is the same episode from the engine's side: what a hole does with two
submissions, and how long it takes.

| code | module |
|---|---|
| `_await_connections`, `_space_holes` | `AwaitConnections`, `SpaceWait` |
| the loop of `Engine.run` | `BeginHole`, `StopAtDeadline`, `Complete`, `NextHole`, `HoleFits`, `OutOfTime` |
| `_collect`, by its results and its time | `Collect`, `FirstWait`, `AgainWait` |
| `_legality` | `Check`, `CheckFault` (the reference cannot be run), `Reason`, `Seen` |
| `_cross_fire`, `Sandbox.run` | `RunEnds`, `RunFault`, one run per implementation, `Fired` when `gather` returns |
| `hole_score`, the end of `_play_hole`, `_hole_record` | `HoleScore`, `Tallied`, `Recorded`, `ApplyHole` |
| `Journal.applied` raising | `ApplyRaises` (between the tallies and the replay) |
| the ends of `run_episode`, `fault_results_doc` | `Interrupted`, `Publish`, `Withhold`, `DocHoles` |

A test is the fingerprint of its arguments and its form (`ok`, or what is wrong
with it before it is run); `RefAnswers` is what the reference can make of it. A
sandbox run returns any set of the tests it was given as held and any set of par
tests as passed, with or without the mark `broken`: an implementation that did
not load has no result, and one whose output passed the limit is marked and its
results still count. A run that has failed raises out of `gather` at once and
leaves the other one going.

Time is a number of ticks left, `left`, which may be negative: every wait takes
any time up to the bound the code gives it (`wait_for` with the minimum of the
configured deadline and what is left, never less than `MinWait`). The three
constants `ReportTime`, `MinWait` and `BatchTime` stand for bounds that are not in
the configuration: the retries of a failure report, the `max(1.0, ...)` of
`_collect`, and the limits of one sandbox run with its drain.

### Match

`Match` is the abstract episode: a hole is opened after the previous one was
scored, judged once collected, then scored or discarded, and the end is published
or withheld. `SeatWindow` and `HoleLoop` both implement it, by the
mappings `Stage`, `hole` and `holesPlayed` at the end of each module. The two detailed
modules meet there: what `SeatWindow` leaves to `HoleScored` and `SandboxFault` is
`HoleLoop` from `Check` to `ApplyHole`, and what `HoleLoop` leaves to `Collect` is
`SeatWindow` from `BeginHole` to `Install`.

### PlayerSession, over SeatWindow

`PlayerSession` EXTENDS `SeatWindow` with the player of this repository in place of
an arbitrary one, and two queues of frames. Every step of the server is an action of
`SeatWindow` conjoined with the frames it moves (`ImplementsSeatWindow`). Its proofs
are in three modules, each over the one before: `PlayerSessionProofs` (what each task
may do at each place, and the refinement), `PlayerStopProofs` (the greeting and the
stop) and `PlayerEvidenceProofs` (what the packets say of the attempts).

| code | module |
|---|---|
| `ProgressWriter.update`, `_write`, `finish` | `Update` and `Put`, `WriterSend` and `Rest`, `Sealed` and `Drained` |
| `LLMPolicy.submission` | `TryAttempt`, `Degrade`, `After` |
| `native.complete` | `Request`, `Headers`, `ResponseEnds`, `Closed`, `CloseStuck`, `CloseInterrupted` |
| `own_until`, `settle`, `settle_owner` | `AskCancel`, `CancelWorker`, `Abandoned` |
| `answer` | `GotPayload`, `Deadline`, `Fallback`, `Unreadable`, `Submit`, `FinishStuck`, `WorkerCancelled` |
| `_play_connection`, `play_episode` | `Join`, `NeverJoins`, `OnWelcome`, `OnObservation`, `PreviousJoined`, `OnStop`, `OwnersStopped`, `SendStopped`, `DrainStuck`, `OnEvidence`, `OnEnd`, `WorkerFailed`, `Flush`, `Exit` |
| `deliver` and the sends of the seat | `Accepts`, `Receive`, `Refuse`, `Welcomed`, `Observe`, `Unheard`, `TellStop`, `TellEvidence`, `TellDone`, `Shutdown` |

A cancellation is seen at the next await of the task it was asked of; in the middle
of a request it makes `complete` close its transport, and while it is closing it
ends that too. `faults` records what went wrong around the player (a dropped
connection, a window closed on a connected player, a stop or a window before `Ready`
was read, a stuck socket, a transport that does not close, an interrupted close, a
signal to the server) and what no order of events would put right: a reply of the model on
which `answer` raises (`unreadable`), a reply with more tests than the match's cap
(`wide`), and a window built before `Ready` was read and issued after it, with another
profile than the player's (`stale`). So a property can say that nothing goes wrong
*without* a cause. Each of the last three is a choice the model always has where the code
can meet it: `Unreadable` beside `GotPayload` and `Submit`, the field `fits` of an action,
which `Accepts` asks for as `bind_model_action` compares controls, and `Stale`, by which
`Accepts` refuses a snapshot whose request is not the window's.

### Publication and Archive

`Publication` is the process from the end of play to its exit, over several runs on
the same destinations: `run_episode` after `Engine.run`, `Journal.__init__` and
`finish`, `_broadcast_done`, `/global`, `_write_artifacts`, `write_uri`, and the exit
code. What stands on the disk and at the destinations (`spool`, `staging`, `archive`,
`stores`) survives `Crash` and `Exit`; everything else is reset by `Start`. Where the
code awaits nothing (`Journal.finish`, a file write) only a crash comes between two
steps; elsewhere a signal, spectators and progress do (`Awaiting`).

`Archive` is what publication promises over every run and crash: owners join, then the
archive is sealed, once and for ever, then the world is told, then artifacts are
written. `Publication` implements it.

### Sandbox

`Sandbox` is one batch: `Sandbox.run` with its spawn, its readers, the writer of the
job, the wait, both deadlines, the output limit of each stream, and its cleanup (`Kill`,
`Drained`, `DrainDeadline`, `NothingAcquired`); the runner's `main` (`ReadJob` to
`Finishes`), whose stdout the submitted code shares and which may end anywhere (`Dies`);
and what `_parse` and `BatchResult.get` make of the output (`Captured`, `Broken`, `Get`).
What the submitted code prints (`Prints`) may be noise, an unfinished line, a record about
any call (`Claim`, with any content) or one that says the implementation is broken
(`BrokenLine`): `_parse` takes them like the runner's. A line of the runner may be lost to
`_parse` too, behind an unfinished one or by a separator in its text (`Readings`), and the
line that goes past the limit is whole in the capture only if it ends on the last byte
kept (`Kept`). Its outcomes are those of `HoleLoop`: `returned` is `RunEnds`,
`sandbox_error` is `RunFault` (or `CheckFault`), and the others raise through the
engine (`Interrupted`).

### Values, Submission, Scoring, Config, Rules and Fingerprints

The pure functions, one module for each file they come from. A value is a tagged
tuple and a fingerprint a sequence of tokens; a text is a sequence of the characters
that `balanced_span` tells apart; a reply, a message and a history entry are their
shapes and sizes; a configuration is a record of typed values. `Rules` states each
function against a reference definition that is not written the way the code is
(`Denoted`, `Representable`, `BestCut`, the largest swing), and its states are the
inputs. The functions of `Values` recur on what is left of the depth, over a pool of
values that holds the items of its members, so that a proof can reach `Rules`. The
rendering of `fingerprint` is a recursive operator, and stands with its property in
`Fingerprints`. There a string has a spelling (`Spelling`), which `Render` splices into the
text as the code does, with no quotes and no escapes; two values that are the same have
one fingerprint, and the converse is stated of those whose strings hold none of its marks
(`Clear`).

## 3. The runs

| run | instance | shows |
|---|---|---|
| `reconnect` | one seat, one hole (two windows), two attempts, two connections, malformed and wrong-hole replies, limit 1 attempt per window | the assertion in `deliver`, and what a step may never do to evidence |
| `pair` | two seats, one hole, scripted actions only | the engine is never refused a window; the retry and the publication guard over concurrent seats |
| `liveness` | one seat, two holes | nothing of one window or hole counts in another; every opened hole is judged and the episode ends; the seats implement `Match` |
| `hole` | one hole, up to two tests a seat with two argument lists and a wrong arity, one par test, time left out | the legality gate under every answer of the reference, scores and tallies |
| `clock` | two holes, one test, a budget of 6 with a reserve of 5, waits of 1 to 3, faults and interruptions everywhere | both bounds of the overrun, `complete` means complete, the document over two holes, the loop implements `Match`, the episode ends |
| `player` | the repository's player and its seat, two windows, one native attempt, one kind of fault a behaviour and those it brings, one frame of the player at a time on the wire | neither end quits the other without a fault, nothing follows `Stopped`, the published evidence holds every attempt |
| `session` | a scripted player, faults unbounded, two frames on the wire | the player's process ends whatever happens, and the server's side is `SeatWindow`'s |
| `publication` | two runs of the process, two holes, two HTTP attempts, one spectator, every combination of destinations | what is public, archived and told stays in order over crashes and signals, exit code 0 means published, the process ends |
| `sandbox` | two calls, an output limit of two lines, one line, whole or not, that the submitted code prints | what a batch says of a call is what the runner made of it unless the code claimed otherwise last; nothing is left behind; the batch ends |
| `rules` | pools of inputs | the pure functions are what their references say |
| `journal` | one seat, one hole | counterexample, section 6 |
| `late_join` | as `player` | counterexample, section 6 |

The type invariants of `SeatWindow`, `HoleLoop`, `Publication` and `Sandbox` and their
bookkeeping (`AttemptBudget`, `StopFreezes`, `OneActionPerWindow`, `FaultIsTheHarness`,
`CallsInOrder`) are proved (section 4), so no run repeats them; `SessionTypeOK`, which
includes `SeatWindow`'s, is checked in `player` as well as proved.

*Bounds.* Two windows are enough for a late answer to meet the next window, two
holes for it to meet the next hole, and two attempts with a limit of one for the
limit to bite (a constant; the code's is 4). `MaxJoins` bounds only
the number of connections: two give a connection before and one after any other
event. The seats of `SeatWindow` interact only through `BatchJoined`, `Collected`
and `OwnersJoined`, so the runs with one seat cover everything but those, and
`pair` covers those. In `HoleLoop` two tests with the same
arguments are enough for the gate (its rule relates one test to an earlier one),
two holes for a score to accumulate and for a hole to be discarded after one that
counts. In `clock` the reserve does not cover the waits (5 against 1 + 3 + 1 + 2), so
that a hole can overrun, and the budget of 6 lets the second hole be
started, refused for the reserve, and cut off by a negative clock; `hole` has no
waits, so that the clock multiplies nothing. Symmetry
is used for attempts and seats, and in no run that checks liveness.

`MaxFrames` bounds the frames of the player on their way: with one, a frame is on the
wire while everything else happens, and the writer and the worker wait for it as they do
for a full socket. `MaxFaults` bounds the kinds of fault that the world adds in one
behaviour of `player` (a fault may be followed by those it causes); `session` has them
all, a signal together with any other among them. In `Publication` `MaxRuns` is the
number of starts: two let a restart meet every state a crash can leave, and a third
would meet the same kinds. `HttpAttempts` of two has a first and a last attempt. One
spectator is enough, since spectators are told and joined one by one and no guard
relates two of them but `some send is still going on`; an instance with two was checked
as well (2.4 million states) and is not kept. In `Sandbox` two calls give an order, two
lines of limit a prefix that is cut at every place, before, at the end of and inside a
line. `MaxNoise` of one is a claim on either call before or after its verdict, a broken
record, or an unfinished line before any of the runner's: what `_parse` makes of a line
depends on the one before it and on the later ones with its identity. The safety
properties were checked with two as well (15.4 million states). In `rules` numbers are
counted in halves, floats are exact up to `Exact` = 4 (the code's is 2^53) and end at
`Largest` = 10, so that integers that round up, round down and overflow all occur; one
of the three strings is spelled with the rendering's own marks, so that it and a list of
the other two are one text; nesting reaches one past `MaxDepth` = 2; replies have up to
four tests with a cap of three and a message of five shares; histories have up to three
entries with room for two; matches have up to three holes.

*Fairness.* The event loop runs every ready task and armed timers fire: weak
fairness of each seat's call (whose waiting always has a deadline), of the stop
tasks (bounded by the cleanup deadline), of the engine and of the end of the
episode. Nothing is assumed of players, sockets, the sandbox's verdict or signals. In
`HoleLoop`, weak fairness of the engine (each of its waits has a bound) and of each
sandbox run (the batch limit kills the child and the drain is bounded). In
`PlayerSession`, of each of the player's own loops (call, close, drain and answer are
all under a deadline) and of the server's steps that end by a deadline, and nothing of
the network: frames may stay on the wire for ever. In `Publication`,
`WF_vars(Episode)`: the steps of the episode's task, each bounded by the cleanup
budget, `DONE_SEND_TIMEOUT_SECONDS` or the timeouts of `uris.py`; deliveries,
drains and crashes are not fair. In `Sandbox`, `WF_vars(Run)`: the parent's steps and
deadlines, and nothing of the child, its streams or the kernel.

## 4. The proofs

`SeatWindowProofs` holds the lemmas about Admission's operators and
the theorems about `Spec`, for any seats, holes, attempts and limits, from the two
assumptions on the constants (`AdmissionAssumption`, `SeatWindowAssumption`).

1. `Typed` (the type invariant, and that calls are out only while a hole is
   asked or cancelled) is inductive: `TypeCorrect`.
2. `AdmissionStep`: every step moves each seat's admission by one of its methods,
   called where the method does not raise. With it, `AttemptInv` (rows within the
   limit; an attempt that has not started says nothing) is inductive
   (`AttemptsBounded`), and steps freeze a stopping admission (`StopIsFinal`).
3. `WindowInv` ties the window to the call that owns it: the pending window is
   the call's (`CallOwnsWindow`), windows are issued in the order of rounds and
   only once (`WindowsInOrder`), and what a batch has collected was accepted in
   this hole (`BatchKept`). None of the safety properties is inductive without
   it: that an installed answer was accepted depends on what the future, the
   reply and the window had in common two steps earlier. From it:
   `InstalledAccepted`, `FallbackNeedsRetry`, `ActiveIsPending`, and, because no
   action is in the active window yet, `EvidenceGrows` and `ConsumedOnce`.
4. `StopInv` orders the handshake (`StopInOrder`): sealed exactly when joined, and
   acknowledged before. A sealed seat reads no packet, so its readers cannot
   reopen after publication: `PublicationIsJoined`. With `WindowInv` it gives
   `EngineNeverRefused`.

5. `Typed` with `CountersAgree` (between two holes, every opened one has been
   scored) makes every step a step of `Match` or a stutter:
   `MatchRefined`.

`HoleLoopProofs` holds the theorems of `HoleLoop`, from `HoleLoopAssumption` (the
bounds and waits are naturals, submissions are sequences of tests), for every
configuration.

1. `Typed` is the type invariant and `Counted`, which relates the phase to the
   three counts of holes: the current one, those played, and the scores. Its last
   conjunct is `CompleteWhenAllPlayed`; without the others it is not inductive,
   since the document copies a counter two steps after it was advanced.
   `TypeCorrect`, `CompletionIsTrue`.
2. `ClockInv` bounds what is left of the clock in each phase whatever the reserve,
   `BudgetInv` bounds it from the reserve; each phase passes on what its waits leave
   (`BudgetIsKept`). No relation between the reserve and the waits is assumed.
3. `ScoresFollowTallies` is inductive over `Typed`: `ScoresApplied` is the
   arithmetic of one hole (`ScoresFollow`).
4. `JudgedInv` keeps a hole's reasons among those the gate can give, and
   `FirstIsLegal` shows that of the tests with one argument list the first that passes
   the reference is legal and every later one a duplicate; the least such number
   (`LeastNumber`) comes from the well-foundedness of the naturals. `FiredOnce`.
5. `MatchRefined`, as for the seats, from `Typed` alone.
6. `DocumentAgrees`: `StoryInv` says that until `run` raises, the tallies are the
   sums of the recorded holes and the number of holes is their number. `Total` is a
   recursive function: `TotalIsLast` gives its value from any sequence of partial sums,
   `SumsExist` finds one (a least length without one would have a predecessor with
   one), and `TotalAppend` adds the hole that `StoryApplied` records.

`PublicationProofs` holds the theorems of `Publication`, from
`PublicationAssumption` (naturals, and more than one HTTP attempt), for any number of
runs, holes, spectators and attempts.

1. `Ordered` says what each stage has behind it (the owners' join, the archive, the
   broadcast), and `Exact` what has become of each artifact by the stage its write is
   over. Neither property that matters is inductive alone: exit code 0 is set three
   stages after the last write, from the outcome and the noted errors only. With the
   type invariant they make `Invariant` (`InvariantHolds`), and `ZeroIsPublished` and
   `PublicationTyped` follow.
2. `EvidenceStays`: a staging file belongs to the run that is staging or to one that
   crashed, and the spool's exclusive creation keeps a later run from reaching it.
3. `PublicationImplementsArchive`: each step is a step of `Archive` or a stutter; the
   invariant supplies the guards of `Seal`, `Announce` and `Write`.

`SandboxProofs` holds the theorems of `Sandbox`, from `SandboxAssumption` (naturals).

1. `Owned` relates the spawn, the tasks and the child; `Settled` the outcome, the
   directory and the exception on its way; `Answered` the lines of the output, the
   answers and the call the runner is at: a line about a call is the runner's verdict or
   a claim. Together with the types they are `IInv` (`InvariantHolds`, `SandboxTyped`).
2. `VerdictsAreTrue`: a batch that returned has joined its readers, which end at the
   end of the streams, so what was captured is the output or its lines up to the limit
   (`CapturedLines`). The last line about a call decides, and there is one
   (`LastNumber`, from the well-foundedness of the naturals): the runner writes one at
   most, so it is that one unless a claim follows (`LastLine`).
3. `NothingIsLeft`, `FaultOfTheHarness` and `CallsAreInOrder` follow from `Owned`,
   `Settled` and `Answered`.

The three modules of `PlayerSession` prove its theorems from `SessionAssumption` (one
seat, one connection of the player, an attempt at least) and the two of `SeatWindow`, for any windows,
attempts, limits, frames and faults.

`PlayerSessionProofs`:

1. `SeatRefined` (`ImplementsSeatWindow`): each step of the session is one of the seat
   or leaves the seat alone (`PlayerIsOutside` for the player's own tasks). So `Inv` and
   `StopInv` of `SeatWindowProofs` hold in every session, and are part of `SessionBase`.
2. `Base` adds the types, and where the player's tasks can be: `Books` (the writers, the
   window each is for and what is still to be sent), `Tasks` (worker, call and reader
   agree on what is going on) and `Places` (what `main` has behind it at each place).
   `SessionTypes`.

`PlayerStopProofs`, three invariants, each inductive over the ones before:

1. `ReadersKnown`: a reader is open because its request is going on, or because a close
   was stuck or interrupted; a worker fails for no other reason, or for a full socket, or
   for a reply it cannot read.
2. `Greeting`: the welcome is the first frame of all and `Ready` the first one back, and
   a seat that is asked or stopped before `Ready` was read is marked so.
3. `Ending`: what stop, evidence and the end are behind on the wire (`Saying`), and that a
   player which has said `Stopped` has no task left that says or opens anything (`Silent`).

From them `NoGivingUp`, `StoppedLast` and `StoppedJoined`. `Stopped` alone
says little: it is sent by `main` when the worker is joined, but that no writer or
reader survives it depends on what the worker had joined several steps before.

`PlayerEvidenceProofs`: what is said of an attempt stands on one line, the server's row
of it, then the frames on the wire, then what the current writer has still to send
(`Said`).

1. `Order` is the state of that line while nothing has gone wrong and both ends are
   there (`Working`): one window at a time is worked in (`WorkInOrder`), an observation
   on its way is the first of its window (`AskInOrder`), a frame belongs to the active
   window and an action comes last, behind the join of what it selects
   (`FramesInOrder`), what is said is true and no join is taken back (`Honest`), the
   attempts of a window are within its limit (`InBudget`), and each attempt that began
   has been told of (`Complete`). None of these is inductive without the others.
2. `Fitting` says of every action on the wire that it fits or that a wide reply was recorded.
3. `PacketsAccepted`: each guard of `deliver` is a consequence of `Order` and `Fitting` at
   the head of the line, so a refusal has one of the causes in `faults`.
4. `Unrecorded` starts the line empty; `Recorded` keeps what it said once `Stopped` was
   received, when the connection may go. `EvidenceKept` follows: published means
   sealed, sealed with a stop means acknowledged, and acknowledged means recorded.

`PlayerSessionProofs` also composes the refinements: `SessionPlaysMatch` takes a session
through `SeatWindow` to `Match`, so that a match played with this player's process is an
abstract episode in which what is installed was accepted and a fallback follows a retry.

`RulesProofs` holds the theorems of the pure functions. Each says its property of every
value of the constants, from `RulesAssumption` and `ValuesAssumption` where it needs
them: pools of numbers, texts, replies, matches and values of any size, the values
closed under their items. A loop of the code is a recursive function over positions. Its
equations come first, either from a partial function of each length (a least length
without one would have a predecessor with one) or from an invariant of the positions
reached, and the rest of a proof is about the equations.

1. `ConfigSurvives`: a configuration document that is accepted loses no field, and its
   public form with the private fields makes the same configuration: the checks of
   `from_dict` are idempotent over its conversions (`MadeAgain`). No assumption at all.
2. `HistoryShown`: a seat is shown its newest holes, each by the longest fair cut that
   fits. Popping a test of the longer list goes through every fair cut, longest first
   (`OneFairCut`), and stops at the first that fits.
3. `WireAccepted` and `BoundInWindow`: what the player makes of a reply passes the
   server's checks whole, and `bind_model_action` accepts it exactly when it has no more
   tests than the window takes. Both rest on the tests taken under a cap being the first
   of those taken under a larger one.
4. `KillerDecisive`: the killer test is the first of the winner's breaches with the
   largest swing. There is at most one winner, and the shots of one seat stand in the
   order of holes and indices, so the key that the code maximises breaks ties as their
   places do.
5. `SpanFound`: where a text holds an object and opens no brace before it, `balanced_span`
   returns that object, whatever follows and however deep it is (`TextsWithObjects`). The
   bodies of strings and the members of objects are the least sets closed under their rules
   (`BodiesClosed` and `MembersClosed`: the rules do close them, so there are such
   texts). A scan of two texts one after the other is the scan of the second from where
   the first left it (`ScanOn`), so each rule can be shown by itself to leave the scan at
   the depth it found.
6. `OneEquality`: `json_equal` on canonical values says that they denote the same, by
   induction on the depth that is left (`ValuesAgree`).

Every invariant above was checked by TLC on the instance of its run before it was
proved.

Only model-checked: the liveness properties `HoleResolves`, `EpisodeEnds`, `SessionEnds`,
`ReadersHearDone`, `ProcessEnds` and `RunEnds` (fairness and ENABLED are out of the
prover's reach); `FingerprintAgrees`, the one invariant without a theorem, since its
rendering is a recursive operator and what it says, which values have one text, is an
induction over data; and the two disagreements, which are counterexamples.

## 5. Hazards

`PROJECT.json` lists each at its line with the properties aimed at it. The two
without a property are ones where the models follow the code into something its
documents do not say (`engine.py:365` and `server.py:170`, section 6).

## 6. Where the code and its documents disagree

Shown by a run:

- `journal` (`AcceptedControlInstalled`): `deliver` records an action as accepted
  before it looks whether the future is done. If the deadline has just cancelled
  the future, the action is accepted and never installed; the retry's action is
  installed, and `Journal._decisions_for_application` raises on the difference,
  which withholds the whole match.
- `late_join` (`LateJoinerPlays`): `engine.py:219` says a seat that is not connected in
  time plays the fallback "until it connects". A player that connects later answers
  `welcome` with `Ready`, which `deliver` refuses once a window was issued
  (`server.py:200`; PROTOCOL.md:233 agrees with the code); the connection is lost and the player gives up. It never
  acknowledges the stop, so the match is withheld too.

Met while modelling. The models follow the code in all of them; the module or
definition where each can be seen is in parentheses:

- PROTOCOL.md:121 drops the tests past the cap. A native player normalizes its reply
  with the general cap of five, and `bind_model_action` reads it again with
  the match's: with a lower cap and more tests, `dropped_tests` differs and the action
  is refused, with the connection (`BoundWithinTheWindow` says exactly when; the fault
  `wide` of `RefusedOnlyWhenLate`).
- PROTOCOL.md:215 gives a late seat a retry and then the fallback. An action or a first
  snapshot that arrives after the server closed its window is refused and costs the
  connection; the player has no other one, so the match is withheld
  (`RefusedOnlyWhenLate`, the fault `late`).
- A cancellation that arrives while `native.complete` is closing its transport skips
  `response_reader_joined` and the last snapshot (`native.py:430-445`), after which the
  player cannot join (`CloseInterrupted`).
- The writer of an earlier window that still has a snapshot to send when the stop comes
  is cancelled, and that snapshot is lost (`Abandoned`).
- RULES.md:63 calls a duplicate "the same arguments". Two integers beyond 2^53 that round
  to one float collide, and so do strings with the separators in them, since they are not
  escaped: `["a,s:b"]` and `["a","b"]` (`FingerprintAgrees` and its `Clear` say what is
  left); an
  integer beyond the floats raises `OverflowError` out of `_legality`, which ends the
  episode (`Raised`).
- RULES.md:121 and PROTOCOL.md:33 have the artifacts of a fault written. The fault path
  ignores the errors of the writes (`server.py:592`), and a signal during the writes or
  the grace exits with 0 as well (`GraceOver`, `Exit`; `ZeroMeansPublished` is about
  matches that were played).
- A spectator whose greeting is still being sent when `_broadcast_done` gathers the
  sockets is never told the result (`Greeted`; `ReadersHearDone` is about those that
  read).
- A restart after a crash is refused by its own spool (`JournalOpens`), so file
  artifacts that the crash tore stay torn.
- A cancellation in the `finally` of `Sandbox.run` leaves the child and its directory
  (`Cancel`, the outcome `interrupted`).
- A child that dies before it has read its job breaks the pipe; the error is no
  `SandboxError`, so it ends the episode instead of the hole (`Raised` of `Sandbox`).
- RULES.md:71 says a shot held when the implementation returns an equal value. `_parse` reads
  the stream that the implementation prints to, and takes a printed record with a call's
  identity for a verdict on it, the last one counting, and a printed `"kind": "broken"` for
  a broken implementation (`Claim`, `BrokenLine`; `VerdictsTrue` is about calls of which
  nothing was claimed later).
- A line that the submitted code leaves unfinished swallows the next verdict. So does a
  value or message with U+2028, U+2029 or U+0085 in it, which `json.dumps` leaves as they
  are and `splitlines` cuts at (`Readings`). The alarm of a call may hit an exception
  handler of the runner (`Dies`).
- What goes past the limit on stderr alone marks the batch broken, with all its verdicts
  received (`flooded`).
- `normalize_submission` returns a message or None, its docstring says; a reply whose
  `tests` is a number that is not zero raises `TypeError` (`RaisesTypeError`), and so does,
  with an error of its own, an `Action` whose arguments are not JSON, such as `NaN`: the
  player quits (`Unreadable`).
- PROTOCOL.md:143-144 promises the registered profile in every observation; one built
  just before `Ready` was accepted has the default, and the player's first snapshot, made
  with its own, is refused (`Stale`).
- The assertion before `EvidenceReceived` fails if the socket closes after `Stopped` and
  before the task resumes (`StopAcknowledged`).
- `results.py:21-25` counts a seat as disconnected when it "had no connection for the
  whole hole"; `get_submission` resets what it has seen in every window, and the
  retry's cause replaces the first one, so a seat that was connected in the first
  window only counts as disconnected.
- TRAINING.md:21-22 has the final file written "only after the engine and every admitted
  player owner join"; after the first sandbox fault `gather` raises while the other run
  goes on, and the fault document and the journal are made final beside it (`RunFault`).
- `submission.py:55-56` says a submission for another hole is dropped and the hole
  keeps waiting; `deliver` resolves the future with it, which ends the window
  (`DeliverAction` with a reply of `BadReplies`).
- PROTOCOL.md:166-169 says a broken implementation fails every shot; one marked
  broken for its output (`sandbox.py:248`) keeps the results received, which may hold.
- RULES.md:120-121 says a discarded hole leaves the scores as of the last resolved
  one, "never half-scored"; its fallbacks (`engine.py:365`) stay in the fault document.

## 7. Not modelled

- The tree of owners of `lifecycle.py` as a data structure. Its effects are: wherever a
  modelled part settles, cancels or abandons a task, the module has the outcomes that
  `settle` can have there.
- The contents of the journal's records and of the replay: their order and the moment
  they become final are modelled, their layout is not.
- The contents of prompts, guidance, decks, baselines and the generated policy tables:
  fixed data, with no state and no order. The policies appear as what they send.
- A line of output on which `json.loads` fails with another error than a JSON error (nesting
  beyond the interpreter's stack, an integer of thousands of digits): `_parse` raises it out
  of `Sandbox.run`, after its cleanup.
- The kernel's limits and the restrictions of the runner: whatever they do to the child
  is `Dies`.
- `resolver.py` and the HTTP and WebSocket libraries: an address is found or the player
  never joins; a socket keeps the order of its frames until it is lost.
- The viewers, the browser client, the replay server and its static files, the training tools and the
  build: they read a finished match or run outside it.
