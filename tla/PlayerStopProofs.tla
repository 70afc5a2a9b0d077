---------------------------- MODULE PlayerStopProofs ----------------------------
(***************************************************************************)
(* Theorems about how a session ends, for any windows, attempts and        *)
(* limits: what the player gives up on, and what Stopped says of it.       *)
(*                                                                         *)
(* Three invariants, each inductive over the ones before it: where an open *)
(* reader can come from, how far the greeting has gone, and how far the    *)
(* stop has.                                                               *)
(***************************************************************************)
EXTENDS PlayerSessionProofs

--------------------------------------------------------------------------------
(***************************************************************************)
(* Open readers.                                                           *)
(***************************************************************************)
ReaderFaults == {"unjoined", "interrupted"}

\* A reader is open because the request is going on, or a close went wrong.
OpenReaders ==
    /\ \A a \in AttemptIds : reader[a] = "open" => Gone \/ a \in call.attempts
    /\ \A a \in call.attempts : reader[a] = "open" =>
          \/ a = call.attempt /\ call.step \in {"open", "closing"}
          \/ faults \cap ReaderFaults # {}
    /\ call.step = "raised" => "unjoined" \in faults

\* A worker fails because a reader stayed open, or a socket was full.
FailedWorker ==
    worker = "failed" => faults \cap {"unjoined", "interrupted", "stalled", "unreadable"} # {}

DrainingInOrder ==
    main = "draining" =>
        /\ PlayerReadersJoined
        /\ \A i \in DOMAIN writers : writers[i].task = "running" => i = Current

\* What the books say of the readers that are not joined.
ReadersKnown == OpenReaders /\ FailedWorker /\ DrainingInOrder

\* Without a call that is going on, an open reader is a fault.
LEMMA UnjoinedIsFault ==
    ASSUME OpenReaders, ~CallLive, ~PlayerReadersJoined
    PROVE  faults \cap ReaderFaults # {}
BY DEF OpenReaders, CallLive, PlayerReadersJoined

\* No reader is open in a process that is about to start a worker.
LEMMA JoinedIsNoneOpen ==
    ASSUME OpenReaders, PlayerReadersJoined, ~Gone
    PROVE  \A a \in AttemptIds : reader[a] # "open"
BY DEF OpenReaders, PlayerReadersJoined

LEMMA OpenKept ==
    ASSUME OpenReaders, reader' = reader, faults \subseteq faults', Gone => Gone',
           call'.attempts = call.attempts,
           call.step \in {"open", "closing"} /\ call.attempt \in call.attempts
                /\ reader[call.attempt] = "open" =>
             call'.attempt = call.attempt /\ call'.step \in {"open", "closing"},
           call'.step = "raised" => call.step = "raised"
    PROVE  OpenReaders'
BY DEF OpenReaders

LEMMA OpenByPolicy ==
    ASSUME Base, OpenReaders, Policy
    PROVE  OpenReaders'
<1>0. /\ call \in CallState /\ call.attempts \subseteq AttemptIds
      /\ reader \in [AttemptIds -> Readers \cup {"none"}]
      /\ call.step \in {"queued", "asked", "open", "closing"} => call.attempt \in call.attempts
      /\ main' = main /\ (Gone <=> Gone')
      /\ faults \subseteq faults'
  <2>1. main' = main /\ faults \subseteq faults'
    BY TaskSteps DEF TaskStep
  <2> QED
    BY <2>1, BaseShape DEF Base, Books, Gone
<1>1. CASE TryAttempt
  <2>1. PICK a \in AttemptIds : /\ call.step = "thinking"
             /\ reader' = [reader EXCEPT ![a] = "unknown"]
             /\ call' = [call EXCEPT !.step = "queued", !.attempt = a,
                                  !.attempts = call.attempts \cup {a}, !.good = FALSE]
    BY <1>1 DEF TryAttempt, Fresh
  <2>2. call'.step = "queued" /\ call'.attempts = call.attempts \cup {a}
    BY <1>0, <2>1 DEF CallState
  <2> QED
    BY <1>0, <2>1, <2>2 DEF OpenReaders
<1>2. CASE Degrade \/ Request \/ ResponseEnds
  <2>1. /\ reader' = reader
        /\ call.step = "thinking" \/ call'.attempt = call.attempt
        /\ call'.attempts = call.attempts
        /\ call.step = "open" => call'.step = "closing"
        /\ call.step # "closing" /\ call'.step # "raised"
    BY <1>0, <1>2 DEF Degrade, Request, ResponseEnds, CallStep, CallState, CallOnly
  <2> QED
    BY <1>0, <2>1 DEF OpenReaders
<1>3. CASE Headers
  <2>1. /\ reader' = [reader EXCEPT ![call.attempt] = "open"]
        /\ call.step = "asked" /\ call'.step = "open"
        /\ call'.attempt = call.attempt /\ call'.attempts = call.attempts
    BY <1>0, <1>3 DEF Headers, CallStep, CallState
  <2> QED
    BY <1>0, <2>1 DEF OpenReaders
<1>4. CASE Closed
  <2>1. /\ reader' = [reader EXCEPT ![call.attempt] = Settled(@)]
        /\ call.step = "closing" /\ call'.step \in {"cancelled", "ended", "thinking"}
        /\ call'.attempts = call.attempts
    BY <1>0, <1>4 DEF Closed, CallState, After
  <2>2. reader'[call.attempt] # "open" /\ \A a \in AttemptIds : a # call.attempt => reader'[a] = reader[a]
    BY <1>0, <2>1 DEF Settled
  <2> QED
    BY <1>0, <2>1, <2>2 DEF OpenReaders
<1>5. CASE CloseStuck
  <2>1. /\ reader' = reader /\ call'.attempts = call.attempts
        /\ faults' = faults \cup {"unjoined"}
    BY <1>0, <1>5 DEF CloseStuck, CallStep, CallState, Fault
  <2> QED
    BY <1>0, <2>1 DEF OpenReaders, ReaderFaults
<1>6. CASE CloseInterrupted
  <2>1. /\ reader' \in {reader, [reader EXCEPT ![call.attempt] = Settled(@)]}
        /\ call'.attempts = call.attempts /\ call'.step = "cancelled"
        /\ faults' = faults \cup {"interrupted"}
    BY <1>0, <1>6 DEF CloseInterrupted, CallState, Fault
  <2>2. \A a \in AttemptIds : reader'[a] = "open" => reader[a] = "open"
    BY <1>0, <2>1 DEF Settled
  <2> QED
    BY <1>0, <2>1, <2>2 DEF OpenReaders, ReaderFaults
<1> QED
  BY <1>1, <1>2, <1>3, <1>4, <1>5, <1>6 DEF Policy

LEMMA OpenByCancel ==
    ASSUME Base, OpenReaders, CancelWorker, reader' = reader, faults \subseteq faults', ~Gone
    PROVE  OpenReaders'
<1>1. /\ call'.attempts = call.attempts /\ call'.attempt = call.attempt
      /\ call.step \in {"open", "closing"} => call'.step \in {"open", "closing"}
      /\ call'.step = "raised" => call.step = "raised"
  BY CancelFacts
<1> QED
  BY <1>1, OpenKept

LEMMA OpenByWorker ==
    ASSUME Base, OpenReaders, FailedWorker, Worker
    PROVE  OpenReaders' /\ FailedWorker'
<1>0. /\ call \in CallState /\ (Gone <=> Gone') /\ faults \subseteq faults'
      /\ (call.step = "raised" => "unjoined" \in faults)
  <2>1. main' = main /\ faults \subseteq faults'
    BY TaskSteps DEF TaskStep
  <2> QED
    BY <2>1, BaseShape DEF Gone, OpenReaders
<1>1. CASE GotPayload
  <2>1. /\ UNCHANGED <<call, reader, faults>> /\ call.step \in {"ended", "raised"}
        /\ worker' = "failed" => call.step = "raised" \/ ~PlayerReadersJoined
    BY <1>1 DEF GotPayload, WorkerStep, wireVars
  <2>2. worker' = "failed" => faults \cap ReaderFaults # {}
    BY <1>0, <2>1, UnjoinedIsFault DEF CallLive, ReaderFaults
  <2>3. OpenReaders'
    BY <1>0, <2>1, OpenKept
  <2> QED
    BY <2>1, <2>2, <2>3 DEF FailedWorker, ReaderFaults
<1>2. CASE Deadline
  <2>1. /\ UNCHANGED <<reader, faults>> /\ worker' = "expired" /\ call' = AskCancel(call)
    BY <1>2 DEF Deadline, WorkerStep, wireVars
  <2>2. /\ call'.attempts = call.attempts /\ call'.attempt = call.attempt
        /\ call.step \in {"open", "closing"} => call'.step \in {"open", "closing"}
        /\ call'.step = "raised" => call.step = "raised"
    BY <1>0, <2>1, AskCancelFacts
  <2>3. OpenReaders'
    BY <1>0, <2>1, <2>2, OpenKept
  <2> QED
    BY <2>1, <2>3 DEF FailedWorker
<1>3. CASE Fallback
  <2>1. /\ UNCHANGED <<reader, faults>> /\ ~CallLive
        /\ worker' = "failed" => ~PlayerReadersJoined
        /\ call'.step = call.step /\ call'.attempts = call.attempts
    BY <1>0, <1>3 DEF Fallback, WorkerStep, wireVars, CallState
  <2>2. worker' = "failed" => faults \cap ReaderFaults # {}
    BY <2>1, UnjoinedIsFault
  <2>3. OpenReaders'
    BY <1>0, <2>1, OpenKept DEF CallLive
  <2> QED
    BY <2>1, <2>2, <2>3 DEF FailedWorker, ReaderFaults
<1>4. CASE Submit \/ WorkerCancelled
  <2>1. UNCHANGED <<call, reader>> /\ worker' # "failed"
    BY <1>4 DEF Submit, WorkerCancelled, WorkerStep, wireVars
  <2> QED
    BY <1>0, <2>1, OpenKept DEF FailedWorker
<1>5. CASE FinishStuck
  <2>1. UNCHANGED <<call, reader>> /\ faults' = faults \cup {"stalled"}
    BY <1>5 DEF FinishStuck, Fault
  <2> QED
    BY <1>0, <2>1, OpenKept DEF FailedWorker
<1>6. CASE Unreadable
  <2>1. UNCHANGED <<call, reader>> /\ faults' = faults \cup {"unreadable"}
    BY <1>6 DEF Unreadable, Fault
  <2> QED
    BY <1>0, <2>1, OpenKept DEF FailedWorker
<1> QED
  BY <1>1, <1>2, <1>3, <1>4, <1>5, <1>6 DEF Worker

LEMMA FailedByPolicy ==
    ASSUME FailedWorker, Policy
    PROVE  FailedWorker'
<1>1. /\ worker' = worker /\ faults \subseteq faults'
      \/ "unjoined" \in faults'
  BY DEF Policy, TryAttempt, Degrade, Request, Headers, ResponseEnds, Closed, CloseStuck,
     CloseInterrupted, CallOnly, Fault, wireVars
<1> QED
  BY <1>1 DEF FailedWorker

\* A task of the player moves, while main drains, only if it is the writer.
LEMMA DrainingByTask ==
    ASSUME Base, DrainingInOrder, TaskStep
    PROVE  DrainingInOrder'
<1> SUFFICES ASSUME main' = "draining" PROVE DrainingInOrder'
  BY DEF DrainingInOrder
<1>1. main = "draining" /\ ~WorkerLive /\ ~CallLive
  BY TaskSteps DEF Base, Places
<1>2. ~Worker /\ ~Policy
  BY <1>1 DEF Worker, Policy, WorkerLive, CallLive, GotPayload, Deadline, Fallback, Unreadable, Submit,
     FinishStuck, WorkerCancelled, TryAttempt, Degrade, Request, Headers, ResponseEnds, Closed,
     CloseStuck, CloseInterrupted
<1>3. PICK i \in DOMAIN writers : WriterSend(i)
  BY <1>2 DEF TaskStep
<1>4. /\ writers[i].task = "running" /\ UNCHANGED <<call, reader>>
      /\ writers' = [writers EXCEPT ![i] = Shortened(@)]
  BY <1>3 DEF WriterSend
<1>5. i = Current /\ Len(writers') = Len(writers) /\ DOMAIN writers' = DOMAIN writers
  BY <1>1, <1>4, BaseShape DEF DrainingInOrder
<1>6. \A j \in DOMAIN writers' : writers'[j].task = "running" => j = Current
  BY <1>1, <1>4, <1>5 DEF DrainingInOrder
<1> QED
  BY <1>1, <1>4, <1>5, <1>6 DEF DrainingInOrder, PlayerReadersJoined, Current

\* Only the current writer goes on when the owners have stopped.
LEMMA DrainWriters ==
    ASSUME Base, writers' = Sealed([i \in DOMAIN writers |->
                                IF i = Current THEN writers[i] ELSE Abandoned(writers[i])])
    PROVE  /\ DOMAIN writers' = DOMAIN writers /\ Current' = Current
           /\ \A i \in DOMAIN writers' : writers'[i].task = "running" => i = Current
<1> DEFINE us == [i \in DOMAIN writers |->
                     IF i = Current THEN writers[i] ELSE Abandoned(writers[i])]
<1>0. /\ \A i \in DOMAIN writers : us[i] = IF i = Current THEN writers[i] ELSE Abandoned(writers[i])
      /\ writers' = Sealed(us)
  OBVIOUS
<1>1. us \in [DOMAIN writers -> Writer]
      /\ \A i \in DOMAIN writers : us[i] \in {writers[i], Abandoned(writers[i])}
  BY BaseShape, AbandonedFacts
<1> HIDE DEF us
<1>2. Quieter(writers, us)
  BY <1>1, BaseShape, MappedFacts
<1>3. us \in Seq(Writer) /\ Len(us) = Len(writers)
  BY <1>2 DEF Quieter
<1>4. Quieter(us, writers')
  BY <1>0, <1>3, SealedFacts
<1>5. DOMAIN writers' = 1..Len(writers) /\ Len(writers') = Len(writers)
  BY <1>3, <1>4, QuieterShape
<1>6. ASSUME NEW i \in 1..Len(writers), i # Current
      PROVE  writers'[i].task # "running"
  <2>1. us[i].task # "running"
    BY <1>0, <1>6, BaseShape, AbandonedFacts
  <2> QED
    BY <1>3, <1>4, <2>1 DEF Quieter
<1> QED
  BY <1>5, <1>6, BaseShape DEF Current

LEMMA OpenByStart ==
    ASSUME Base, OpenReaders, PlayerReadersJoined, ~Gone, reader' = reader, StartWorker
    PROVE  OpenReaders' /\ FailedWorker' /\ DrainingInOrder'
<1>1. call'.step = "thinking" /\ call'.attempts = {} /\ worker' = "calling" /\ main' = "loop"
  BY DEF StartWorker, NoCall
<1>2. \A a \in AttemptIds : reader[a] # "open"
  BY JoinedIsNoneOpen
<1> QED
  BY <1>1, <1>2 DEF OpenReaders, FailedWorker, DrainingInOrder

LEMMA OpenByGiveUp ==
    ASSUME Base, OpenReaders, FailedWorker, GiveUp, reader' = reader, faults' = faults, ~Gone
    PROVE  OpenReaders' /\ FailedWorker' /\ DrainingInOrder'
<1>1. CancelWorker /\ main' = "closing"
  BY DEF GiveUp
<1>2. OpenReaders'
  BY <1>1, OpenByCancel
<1>3. worker' = "failed" => worker = "failed"
  BY <1>1, CancelFacts
<1> QED
  BY <1>1, <1>2, <1>3 DEF FailedWorker, DrainingInOrder

LEMMA OpenByLeave ==
    ASSUME NEW how \in {"done", "failed"}, Leave(how)
    PROVE  OpenReaders' /\ FailedWorker' /\ DrainingInOrder'
BY DEF Leave, NoCall, OpenReaders, FailedWorker, DrainingInOrder, Gone

LEMMA ReadersByMain ==
    ASSUME Base, ReadersKnown, Main
    PROVE  OpenReaders' /\ FailedWorker' /\ DrainingInOrder'
<1> USE DEF Gone, Frame
<1>0. OpenReaders /\ FailedWorker /\ DrainingInOrder
  BY DEF ReadersKnown
<1>1. CASE Join \/ NeverJoins \/ OnWelcome \/ SendStopped \/ DrainStuck \/ Flush
  <2>1. /\ UNCHANGED <<worker, call, reader>> /\ (Gone => Gone')
        /\ main' # "draining"
    BY <1>1 DEF Join, NeverJoins, OnWelcome, SendStopped, DrainStuck, Flush, playerVars
  <2>2. faults \subseteq faults'
    BY <1>1, MainQueues
  <2>3. OpenReaders'
    BY <1>0, <2>1, <2>2, OpenKept
  <2> QED
    BY <1>0, <2>1, <2>2, <2>3 DEF FailedWorker, DrainingInOrder
<1>2. CASE OnObservation
  <2>1. ~Gone /\ UNCHANGED <<reader, faults>>
    BY <1>2 DEF OnObservation
  <2>2. CASE main' = "settling" /\ CancelWorker
    <3>1. worker' = "failed" => worker = "failed"
      BY <2>2, CancelFacts
    <3> QED
      BY <1>0, <2>1, <2>2, <3>1, OpenByCancel DEF FailedWorker, DrainingInOrder
  <2>3. CASE GiveUp
    BY <1>0, <2>1, <2>3, OpenByGiveUp
  <2>4. CASE PlayerReadersJoined /\ StartWorker
    BY <1>0, <2>1, <2>4, OpenByStart
  <2> QED
    BY <1>2, <2>2, <2>3, <2>4 DEF OnObservation
<1>3. CASE PreviousJoined
  <2>1. ~Gone /\ UNCHANGED <<reader, faults>>
    BY <1>3 DEF PreviousJoined
  <2>2. CASE GiveUp
    BY <1>0, <2>1, <2>2, OpenByGiveUp
  <2>3. CASE PlayerReadersJoined /\ StartWorker
    BY <1>0, <2>1, <2>3, OpenByStart
  <2> QED
    BY <1>3, <2>2, <2>3 DEF PreviousJoined
<1>4. CASE OnStop
  <2>1. ~Gone /\ main' # "draining" /\ UNCHANGED <<reader, faults>>
        /\ ((UNCHANGED <<worker, call>>) \/ CancelWorker)
    BY <1>4 DEF OnStop
  <2>2. worker' = "failed" => worker = "failed"
    BY <2>1, CancelFacts
  <2>3. OpenReaders'
    BY <1>0, <2>1, OpenByCancel, OpenKept
  <2> QED
    BY <1>0, <2>1, <2>2, <2>3 DEF FailedWorker, DrainingInOrder
<1>5. CASE OwnersStopped
  <2>1. ~Gone /\ UNCHANGED <<reader, faults>>
    BY <1>5 DEF OwnersStopped, wireVars
  <2>2. CASE GiveUp
    BY <1>0, <2>1, <2>2, OpenByGiveUp
  <2>3. CASE ~GiveUp
    <3>1. /\ PlayerReadersJoined /\ UNCHANGED <<worker, call>>
          /\ writers' = Sealed([i \in DOMAIN writers |->
                                IF i = Current THEN writers[i] ELSE Abandoned(writers[i])])
      BY <1>5, <2>3 DEF OwnersStopped
    <3>2. OpenReaders'
      BY <1>0, <2>1, <3>1, OpenKept
    <3>3. DrainingInOrder'
      BY <2>1, <3>1, DrainWriters DEF DrainingInOrder, PlayerReadersJoined
    <3> QED
      BY <1>0, <2>1, <3>1, <3>2, <3>3 DEF FailedWorker
  <2> QED
    BY <2>2, <2>3
<1>6. CASE OnEvidence
  <2>1. ~Gone /\ UNCHANGED <<reader, faults>>
    BY <1>6 DEF OnEvidence
  <2>2. CASE GiveUp
    BY <1>0, <2>1, <2>2, OpenByGiveUp
  <2>3. CASE UNCHANGED <<main, worker, call, writers>>
    <3>1. OpenReaders'
      BY <1>0, <2>1, <2>3, OpenKept
    <3> QED
      BY <1>0, <1>6, <2>1, <2>3, <3>1 DEF FailedWorker, DrainingInOrder, OnEvidence
  <2> QED
    BY <1>6, <2>2, <2>3 DEF OnEvidence
<1>7. CASE OnEnd
  <2>1. ~Gone /\ UNCHANGED <<reader, faults>>
    BY <1>7 DEF OnEnd
  <2> QED
    BY <1>0, <1>7, <2>1, OpenByGiveUp, OpenByLeave DEF OnEnd
<1>8. CASE WorkerFailed
  <2>1. ~Gone /\ GiveUp /\ UNCHANGED <<reader, faults>>
    BY <1>8 DEF WorkerFailed, wireVars
  <2> QED
    BY <1>0, <2>1, OpenByGiveUp
<1>9. CASE Exit
  BY <1>9, OpenByLeave DEF Exit
<1> QED
  BY <1>1, <1>2, <1>3, <1>4, <1>5, <1>6, <1>7, <1>8, <1>9 DEF Main

\* The server opens no reader, and forgets no fault.
LEMMA FaultsStay ==
    ASSUME Base, [SessionNext]_sessionVars
    PROVE  faults \subseteq faults'
<1>1. CASE Main
  BY <1>1, MainQueues
<1>2. CASE TaskStep
  BY <1>2, TaskSteps
<1>3. CASE ServerStep
  BY <1>3 DEF ServerStep, Server, Receive, Refuse, Observe, Unheard, TellStop, TellEvidence, TellDone,
     Shutdown, Quiet, Welcomed, Hangup, Drop, Fail, Ended, wireVars, sessionVars, Fault
<1> QED
  BY <1>1, <1>2, <1>3 DEF SessionNext, TaskStep, ServerStep, sessionVars, wireVars

LEMMA ReadersNext == SessionBase /\ ReadersKnown /\ [SessionNext]_sessionVars => ReadersKnown'
<1> SUFFICES ASSUME SessionBase, ReadersKnown, [SessionNext]_sessionVars PROVE ReadersKnown'
  OBVIOUS
<1>1. Base /\ OpenReaders /\ FailedWorker /\ DrainingInOrder /\ faults \subseteq faults'
  BY FaultsStay DEF SessionBase, ReadersKnown
<1>2. CASE Main
  BY <1>2, <1>1, ReadersByMain DEF ReadersKnown
<1>3. CASE TaskStep
  <2>1. DrainingInOrder'
    BY <1>1, <1>3, DrainingByTask
  <2>2. CASE Policy
    BY <1>1, <2>1, <2>2, OpenByPolicy, FailedByPolicy DEF ReadersKnown
  <2>3. CASE Worker
    BY <1>1, <2>1, <2>3, OpenByWorker DEF ReadersKnown
  <2>4. CASE \E i \in DOMAIN writers : WriterSend(i)
    <3>1. UNCHANGED <<main, worker, call, reader, faults>>
      BY <2>4 DEF WriterSend
    <3> QED
      BY <1>1, <2>1, <3>1, OpenKept DEF ReadersKnown, FailedWorker, Gone
  <2> QED
    BY <1>3, <2>2, <2>3, <2>4 DEF TaskStep
<1>4. CASE ServerStep \/ UNCHANGED sessionVars
  <2>1. UNCHANGED playerVars
    BY <1>1, <1>4, ServerQueues, TypesSplit DEF sessionVars, SessionBase, Base, Inv
  <2>2. OpenReaders'
    BY <1>1, <2>1, OpenKept DEF playerVars, Gone
  <2> QED
    BY <1>1, <2>1, <2>2 DEF ReadersKnown, playerVars, FailedWorker, DrainingInOrder, PlayerReadersJoined, Current
<1> QED
  BY <1>2, <1>3, <1>4 DEF SessionNext, TaskStep, ServerStep

--------------------------------------------------------------------------------
(***************************************************************************)
(* What a step of the server adds to the frames for the player.            *)
(***************************************************************************)
Grown(types) ==
    /\ toPlayer' \in Seq(ToPlayer)
    /\ Len(toPlayer) <= Len(toPlayer')
    /\ \A i \in 1..Len(toPlayer) : toPlayer'[i] = toPlayer[i]
    /\ \A i \in 1..Len(toPlayer') : i > Len(toPlayer) => ~Gone /\ toPlayer'[i].type \in types

LEMMA GrownSame ==
    ASSUME SessionTypeOK, toPlayer' = toPlayer, NEW types
    PROVE  Grown(types)
<1>1. toPlayer \in Seq(ToPlayer) /\ Len(toPlayer) \in Nat
  BY QueueFacts DEF SessionTypeOK
<1> QED
  BY <1>1 DEF Grown

LEMMA GrownOne ==
    ASSUME SessionTypeOK, toPlayer' \in Seq(ToPlayer), NEW types, NEW x, x.type \in types,
           OneMore(x)
    PROVE  Grown(types)
<1>1. toPlayer \in Seq(ToPlayer) /\ Len(toPlayer) \in Nat
  BY QueueFacts DEF SessionTypeOK
<1>2. CASE toPlayer' = toPlayer
  BY <1>2, GrownSame
<1>3. CASE ~Gone /\ Longer(toPlayer, toPlayer', x)
  <2>1. Len(toPlayer') = Len(toPlayer) + 1
        /\ \A i \in 1..Len(toPlayer) : toPlayer'[i] = toPlayer[i]
    BY <1>3 DEF Longer
  <2>2. \A i \in 1..Len(toPlayer') : i > Len(toPlayer) => toPlayer'[i] = x
    BY <1>1, <1>3, <2>1 DEF Longer
  <2> QED
    BY <1>1, <1>3, <2>1, <2>2 DEF Grown
<1> QED
  BY <1>2, <1>3 DEF OneMore

LEMMA ServerGrows ==
    ASSUME SessionTypeOK, Typed
    PROVE  /\ Receive \/ Unheard \/ Quiet \/ Hangup \/ Ended => Grown({})
           /\ Refuse \/ Shutdown \/ Fail => Grown({"close"})
           /\ Observe => Grown({"observation"})
           /\ TellStop => Grown({"stop"})
           /\ TellEvidence => Grown({"evidence"})
           /\ TellDone => Grown({"done", "close"})
           /\ Welcomed => Grown({"stop", "observation"})
<1>0. toPlayer \in Seq(ToPlayer) /\ Len(toPlayer) \in Nat
  BY QueueFacts DEF SessionTypeOK
<1>1. /\ Close.type = "close"
      /\ \A t \in {"stop", "evidence", "done"} : Plain(t).type = t
      /\ \A w \in Windows : Observed(w).type = "observation"
  BY DEF Plain, Close, Observed
<1>2. ASSUME Receive \/ Unheard \/ Quiet \/ Hangup \/ Ended
      PROVE  Grown({})
  <2>1. toPlayer' = toPlayer
    BY <1>2 DEF Receive, Unheard, Quiet, Hangup, Ended, wireVars, sessionVars
  <2> QED
    BY <2>1, GrownSame
<1>3. ASSUME Refuse \/ Shutdown \/ Fail
      PROVE  Grown({"close"})
  <2>1. toPlayer' \in Seq(ToPlayer) /\ OneMore(Close) /\ Close.type \in {"close"}
    BY <1>1, <1>3, ServerTells
  <2> QED
    BY <2>1, GrownOne
<1>4. ASSUME Observe
      PROVE  Grown({"observation"})
  <2>1. toPlayer' \in Seq(ToPlayer) /\ OneMore(Observed(Round)) /\ Round \in Windows
    BY <1>4, ServerTells DEF OneMore
  <2>2. Observed(Round).type \in {"observation"}
    BY <1>1, <2>1
  <2> QED
    BY <2>1, <2>2, GrownOne
<1>5. ASSUME TellStop
      PROVE  Grown({"stop"})
  <2>1. toPlayer' \in Seq(ToPlayer) /\ OneMore(Plain("stop")) /\ Plain("stop").type \in {"stop"}
    BY <1>1, <1>5, ServerTells
  <2> QED
    BY <2>1, GrownOne
<1>6. ASSUME TellEvidence
      PROVE  Grown({"evidence"})
  <2>1. toPlayer' \in Seq(ToPlayer) /\ OneMore(Plain("evidence")) /\ Plain("evidence").type \in {"evidence"}
    BY <1>1, <1>6, ServerTells DEF OneMore
  <2> QED
    BY <2>1, GrownOne
<1>7. ASSUME TellDone
      PROVE  Grown({"done", "close"})
  <2>1. CASE toPlayer' = toPlayer
    BY <2>1, GrownSame
  <2>2. CASE toPlayer' # toPlayer
    <3>1. /\ toPlayer' \in Seq(ToPlayer) /\ ~Gone
          /\ Len(toPlayer') = Len(toPlayer) + 2
          /\ \A i \in 1..Len(toPlayer) : toPlayer'[i] = toPlayer[i]
          /\ toPlayer'[Len(toPlayer) + 1] = Plain("done")
          /\ toPlayer'[Len(toPlayer) + 2] = Close
      BY <1>7, <2>2, TellDoneFacts
    <3>2. \A i \in 1..Len(toPlayer') : i > Len(toPlayer) => i = Len(toPlayer) + 1 \/ i = Len(toPlayer) + 2
      BY <1>0, <3>1
    <3>3. \A i \in 1..Len(toPlayer') : i > Len(toPlayer) => toPlayer'[i].type \in {"done", "close"}
      BY <1>1, <3>1, <3>2
    <3> QED
      BY <1>0, <3>1, <3>3 DEF Grown
  <2> QED
    BY <2>1, <2>2
<1>8. ASSUME Welcomed
      PROVE  Grown({"stop", "observation"})
  <2>1. /\ toPlayer' \in Seq(ToPlayer)
        /\ \E x : OneMore(x) /\ x.type \in {"stop", "observation"}
    <3>1. CASE toPlayer' = toPlayer
      BY <1>0, <1>1, <3>1 DEF OneMore
    <3>2. CASE toPlayer' # toPlayer
      BY <1>1, <1>8, <3>2, ServerTells DEF OneMore
    <3> QED
      BY <3>1, <3>2
  <2> QED
    BY <2>1, GrownOne
<1> QED
  BY <1>2, <1>3, <1>4, <1>5, <1>6, <1>7, <1>8

--------------------------------------------------------------------------------
(***************************************************************************)
(* The greeting: welcome, Ready, and the first window or the stop.         *)
(***************************************************************************)
IssuedAny == \E w \in Windows : Issued(adm[Own], w)

\* The server has begun with the seat: Ready comes too late from now on.
Begun == IssuedAny \/ stopMessage[Own] \/ sealed[Own]

Linked ==
    /\ link[Own] = "down" \/ phase = "failed" => toServer = <<>>
    /\ link[Own] # "down" \/ registered[Own] \/ stopMessage[Own] => everConnected[Own]
    /\ link[Own] = "greeting" => ~registered[Own]

\* The welcome is the first frame of all, and Ready the first one back.
Welcoming ==
    /\ \A i \in DOMAIN toPlayer : toPlayer[i].type = "welcome" =>
          /\ i = 1 /\ main = "loop" /\ writers = <<>> /\ toServer = <<>>
          /\ ~stop /\ ~acked /\ ~registered[Own]
    /\ Connected(Own) /\ Live /\ ~registered[Own] =>
          \/ toPlayer # <<>> /\ toPlayer[1].type = "welcome"
          \/ toServer # <<>> /\ toServer[1] = Ready
    /\ \A i \in DOMAIN toServer : toServer[i] = Ready => i = 1 /\ ~registered[Own]

Registering ==
    /\ stopped[Own] => registered[Own]
    /\ stopper[Own] \in {"sending", "awaiting", "acking"} => stopMessage[Own]
    /\ sealed[Own] /\ ~stopMessage[Own] => "unregistered" \in faults
    /\ "unregistered" \in faults => ~registered[Own] /\ Begun
    /\ Begun => registered[Own] \/ "unregistered" \in faults

\* The action of this player is always valid, and no frame of it is a bad one.
Futures == fut[Own] \in {"open", "cancelled", "action"}

Greeting == Linked /\ Welcoming /\ Registering /\ Futures

LEMMA QueueShapes ==
    ASSUME Base
    PROVE  /\ toPlayer \in Seq(ToPlayer) /\ DOMAIN toPlayer = 1..Len(toPlayer) /\ Len(toPlayer) \in Nat
           /\ toPlayer = <<>> <=> Len(toPlayer) = 0
           /\ \A i \in 1..Len(toPlayer) : toPlayer[i] \in ToPlayer
           /\ toPlayer # <<>> => Head(toPlayer) = toPlayer[1] /\ Shorter(toPlayer, Tail(toPlayer))
                                 /\ Tail(toPlayer) \in Seq(ToPlayer)
           /\ toServer \in Seq(ToServer) /\ DOMAIN toServer = 1..Len(toServer) /\ Len(toServer) \in Nat
           /\ toServer = <<>> <=> Len(toServer) = 0
           /\ \A i \in 1..Len(toServer) : toServer[i] \in ToServer
           /\ toServer # <<>> => Head(toServer) = toServer[1] /\ Shorter(toServer, Tail(toServer))
                                 /\ Tail(toServer) \in Seq(ToServer)
BY QueueFacts DEF Base, WireTypes

LEMMA QueueShapesPrime ==
    ASSUME WireTypes'
    PROVE  /\ DOMAIN toPlayer' = 1..Len(toPlayer') /\ Len(toPlayer') \in Nat
           /\ toPlayer' = <<>> <=> Len(toPlayer') = 0
           /\ DOMAIN toServer' = 1..Len(toServer') /\ Len(toServer') \in Nat
           /\ toServer' = <<>> <=> Len(toServer') = 0
BY QueueFacts DEF WireTypes

\* While the welcome is on its way the player has nothing else to do.
LEMMA WelcomeFirst ==
    ASSUME Base, Welcoming, NEW i \in DOMAIN toPlayer, toPlayer[i].type = "welcome"
    PROVE  /\ toPlayer # <<>> /\ Head(toPlayer).type = "welcome" /\ i = 1
           /\ main = "loop" /\ worker = "none" /\ call.step = "none" /\ writers = <<>>
           /\ toServer = <<>>
           /\ ~TaskStep
           /\ Main => OnWelcome
<1>1. /\ i = 1 /\ main = "loop" /\ writers = <<>> /\ toServer = <<>>
      /\ toPlayer # <<>> /\ Head(toPlayer).type = "welcome"
  BY QueueShapes DEF Welcoming
<1>2. worker = "none" /\ call.step = "none" /\ DOMAIN writers = {}
  BY <1>1, BaseShape DEF Base, Tasks
<1>3. ~TaskStep
  BY <1>2 DEF TaskStep, Worker, Policy, WorkerLive, CallLive, GotPayload, Deadline, Fallback, Unreadable, Submit,
     FinishStuck, WorkerCancelled, TryAttempt, Degrade, Request, Headers, ResponseEnds, Closed,
     CloseStuck, CloseInterrupted
<1>4. Main => OnWelcome
  BY <1>1, <1>2 DEF Main, Join, NeverJoins, OnObservation, PreviousJoined, OnStop, OwnersStopped,
     SendStopped, DrainStuck, OnEvidence, OnEnd, WorkerFailed, Flush, Exit, Frame
<1> QED
  BY <1>1, <1>2, <1>3, <1>4

LEMMA GreetingByTask ==
    ASSUME Base, Greeting, TaskStep
    PROVE  Greeting'
<1>0. /\ UNCHANGED <<vars, main, stop, acked, toPlayer>> /\ WireTypes'
      /\ toServer' = toServer \/
           /\ link[Own] # "down" /\ Live
           /\ \E x \in ToServer : /\ Longer(toServer, toServer', x)
                                  /\ x.type \in {"attempt_started", "action"}
      /\ "unregistered" \in faults' <=> "unregistered" \in faults
  BY TaskSteps
<1>1. UNCHANGED <<link, phase, registered, stopMessage, everConnected, stopped, stopper, sealed, adm, fut>>
  BY <1>0 DEF vars, engineVars, linkVars, windowVars, stopVars
<1>2. \A i \in DOMAIN toPlayer : toPlayer[i].type # "welcome"
  BY WelcomeFirst DEF Greeting
<1>3. Linked'
  BY <1>0, <1>1 DEF Greeting, Linked, Live
<1>4. /\ toServer # <<>> => toServer' # <<>> /\ toServer'[1] = toServer[1]
      /\ \A i \in DOMAIN toServer' : toServer'[i] = Ready => i \in DOMAIN toServer /\ toServer[i] = Ready
  <2>1. CASE toServer' = toServer
    BY <2>1
  <2>2. CASE toServer' # toServer
    <3>1. PICK x \in ToServer : Longer(toServer, toServer', x) /\ x.type \in {"attempt_started", "action"}
      BY <1>0, <2>2
    <3>2. x # Ready
      BY <3>1 DEF Ready, Plain
    <3> QED
      BY <1>0, <3>1, <3>2, QueueShapes, QueueShapesPrime DEF Longer
  <2> QED
    BY <2>1, <2>2
<1>5. Welcoming'
  <2>1. /\ \A i \in DOMAIN toPlayer' : toPlayer'[i].type # "welcome"
        /\ \A i \in DOMAIN toServer' : toServer'[i] = Ready => i = 1 /\ ~registered'[Own]
    BY <1>0, <1>1, <1>2, <1>4 DEF Greeting, Welcoming
  <2>2. Connected(Own)' /\ Live' /\ ~registered'[Own] =>
          toServer' # <<>> /\ toServer'[1] = Ready
    BY <1>1, <1>2, <1>4, QueueShapes DEF Greeting, Welcoming, Connected, Live
  <2> QED
    BY <2>1, <2>2 DEF Welcoming
<1>6. Registering' /\ Futures'
  BY <1>0, <1>1 DEF Greeting, Registering, Futures, Begun, IssuedAny
<1> QED
  BY <1>3, <1>5, <1>6 DEF Greeting

\* The receiving loop takes frames from the front.
LEMMA MainTakes ==
    ASSUME Base, Main, ~Join
    PROVE  \/ toPlayer' = toPlayer
           \/ toPlayer # <<>> /\ toPlayer' = Tail(toPlayer)
           \/ toPlayer' = <<>>
<1>1. CASE OnObservation \/ PreviousJoined \/ OnWelcome \/ OnStop \/ OnEvidence \/ OnEnd
  <2>1. toPlayer # <<>> \/ main = "settling"
    BY <1>1 DEF OnObservation, PreviousJoined, OnWelcome, OnStop, OnEvidence, OnEnd, Frame
  <2>2. toPlayer # <<>>
    BY <2>1 DEF Base, Places
  <2> QED
    BY <1>1, <2>2 DEF OnObservation, PreviousJoined, OnWelcome, OnStop, OnEvidence, OnEnd, Take,
       StartWorker, Leave
<1>2. CASE NeverJoins \/ OwnersStopped \/ SendStopped \/ DrainStuck \/ WorkerFailed \/ Flush \/ Exit
  BY <1>2 DEF NeverJoins, OwnersStopped, SendStopped, DrainStuck, WorkerFailed, Flush, Exit, Leave, wireVars
<1> QED
  BY <1>1, <1>2 DEF Main

LEMMA GreetingByMain ==
    ASSUME Base, Greeting, Main
    PROVE  Greeting'
<1>0. /\ WireTypes' /\ SessionTypeOK
      /\ "unregistered" \in faults' <=> "unregistered" \in faults
      /\ ~Join => UNCHANGED vars
      /\ (OnWelcome => Send(Ready)) /\ (SendStopped => Send(Stopped))
      /\ OnWelcome \/ SendStopped \/ toServer' = toServer
      /\ Ready \in ToServer /\ Stopped \in ToServer
  BY MainQueues, BaseShape, ServerFrames
<1>1. CASE Join
  <2>1. /\ phase # "failed" /\ phase' = phase /\ link'[Own] = "greeting" /\ everConnected'[Own]
        /\ UNCHANGED <<registered, stopMessage, stopped, stopper, sealed, adm, fut,
                       stop, acked, writers, toServer>>
        /\ main = "connecting" /\ main' = "loop"
    BY <1>1, OwnSeat DEF Join, Connect, engineVars, windowVars, stopVars, SessionTypeOK, TypeOK, Base
  <2>2. /\ toPlayer = <<>> /\ toServer = <<>> /\ writers = <<>> /\ ~registered[Own] /\ ~stop /\ ~acked
    BY <2>1 DEF Base, Places
  <2>3. Longer(toPlayer, toPlayer', Plain("welcome"))
    BY <1>0, <1>1, TellFacts, PlayerFrames DEF Join, Gone
  <2>4. Len(toPlayer') = 1 /\ toPlayer'[1].type = "welcome"
    BY <2>2, <2>3, QueueShapes DEF Longer, Plain
  <2>5. Linked'
    BY <2>1, <2>2 DEF Linked
  <2>6. Welcoming'
    BY <1>0, <2>1, <2>2, <2>4, QueueShapes, QueueShapesPrime DEF Welcoming
  <2>7. Registering' /\ Futures'
    BY <1>0, <2>1 DEF Greeting, Registering, Futures, Begun, IssuedAny
  <2> QED
    BY <2>5, <2>6, <2>7 DEF Greeting
<1>2. ASSUME ~Join
      PROVE  /\ UNCHANGED <<link, phase, registered, stopMessage, everConnected, stopped, stopper, sealed, adm, fut>>
             /\ Registering' /\ Futures'
  <2>1. UNCHANGED <<link, phase, registered, stopMessage, everConnected, stopped, stopper, sealed, adm, fut>>
    BY <1>0, <1>2 DEF vars, engineVars, linkVars, windowVars, stopVars
  <2> QED
    BY <1>0, <2>1 DEF Greeting, Registering, Futures, Begun, IssuedAny
<1>3. CASE OnWelcome
  <2>1. /\ toPlayer # <<>> /\ Head(toPlayer).type = "welcome" /\ toPlayer' = Tail(toPlayer)
        /\ ~Join /\ Send(Ready)
    BY <1>0, <1>3 DEF OnWelcome, Frame, Take, Join
  <2>2. toServer = <<>> /\ ~registered[Own]
    BY <2>1, QueueShapes DEF Greeting, Welcoming
  <2>3. \A i \in DOMAIN toPlayer' : toPlayer'[i].type # "welcome"
    <3>1. \A i \in 1..Len(toPlayer) : i # 1 => toPlayer[i].type # "welcome"
      BY QueueShapes DEF Greeting, Welcoming
    <3>2. Len(toPlayer) \in Nat /\ Len(toPlayer) > 0 /\ Shorter(toPlayer, toPlayer')
      BY <2>1, QueueShapes
    <3>3. \A i \in 1..Len(toPlayer') : i + 1 \in 1..Len(toPlayer) /\ i + 1 # 1 /\ toPlayer'[i] = toPlayer[i + 1]
      BY <3>2 DEF Shorter
    <3> QED
      BY <1>0, <3>1, <3>3, QueueShapesPrime
  <2>4. IF link[Own] = "down" \/ phase = "failed"
        THEN toServer' = toServer ELSE Longer(toServer, toServer', Ready)
    BY <1>0, <2>1, SendFacts
  <2>5. IF link[Own] = "down" \/ phase = "failed"
        THEN toServer' = <<>> ELSE Len(toServer') = 1 /\ toServer'[1] = Ready
    BY <2>2, <2>4, QueueShapes DEF Longer
  <2>6. Linked'
    BY <1>2, <2>1, <2>5 DEF Greeting, Linked
  <2>7. \A i \in DOMAIN toServer' : toServer'[i] = Ready => i = 1 /\ ~registered'[Own]
    BY <1>0, <1>2, <2>1, <2>2, <2>5, QueueShapesPrime
  <2>8. Connected(Own)' /\ Live' => toServer' # <<>> /\ toServer'[1] = Ready
    BY <1>0, <1>2, <2>1, <2>5, QueueShapesPrime DEF Connected, Live
  <2>9. Welcoming'
    BY <2>3, <2>7, <2>8 DEF Welcoming
  <2> QED
    BY <1>2, <2>1, <2>6, <2>9 DEF Greeting
<1>4. CASE ~Join /\ ~OnWelcome
  <2>1. \A i \in DOMAIN toPlayer : toPlayer[i].type # "welcome"
    BY <1>4, WelcomeFirst DEF Greeting
  <2>2. \A i \in DOMAIN toPlayer' : toPlayer'[i].type # "welcome"
    <3>1. CASE toPlayer # <<>> /\ toPlayer' = Tail(toPlayer)
      BY <1>0, <2>1, <3>1, QueueShapes, QueueShapesPrime DEF Shorter
    <3>2. CASE toPlayer' = <<>>
      BY <1>0, <3>2, QueueShapesPrime
    <3> QED
      BY <1>4, <2>1, <3>1, <3>2, MainTakes
  <2>3. \/ toServer' = toServer
        \/ Longer(toServer, toServer', Stopped) /\ link[Own] # "down" /\ phase # "failed"
    BY <1>0, <1>4, SendFacts
  <2>4. Linked'
    BY <1>2, <1>4, <2>3 DEF Greeting, Linked
  <2>5. /\ toServer # <<>> => toServer' # <<>> /\ toServer'[1] = toServer[1]
        /\ \A i \in DOMAIN toServer' : toServer'[i] = Ready => i \in DOMAIN toServer /\ toServer[i] = Ready
    <3>1. Stopped # Ready
      BY DEF Stopped, Ready, Plain
    <3>2. CASE Longer(toServer, toServer', Stopped)
      BY <1>0, <3>1, <3>2, QueueShapes, QueueShapesPrime DEF Longer
    <3> QED
      BY <2>3, <3>2
  <2>6. Welcoming'
    <3>1. \A i \in DOMAIN toServer' : toServer'[i] = Ready => i = 1 /\ ~registered'[Own]
      BY <1>2, <1>4, <2>5 DEF Greeting, Welcoming
    <3>2. Connected(Own)' /\ Live' /\ ~registered'[Own] => toServer' # <<>> /\ toServer'[1] = Ready
      BY <1>2, <1>4, <2>1, <2>5, QueueShapes DEF Greeting, Welcoming, Connected, Live
    <3> QED
      BY <2>2, <3>1, <3>2 DEF Welcoming
  <2> QED
    BY <1>2, <1>4, <2>4, <2>6 DEF Greeting
<1> QED
  BY <1>1, <1>3, <1>4

--------------------------------------------------------------------------------
(***************************************************************************)
(* What a step of the server does to the seat.                             *)
(***************************************************************************)

\* The connection closes.
Closing == Refuse \/ Hangup \/ Drop \/ Shutdown

LEMMA ClosingSeat ==
    ASSUME TypeOK, Closing
    PROVE  /\ link' = [link EXCEPT ![Own] = "down"] /\ link'[Own] = "down" /\ toServer' = <<>>
           /\ link[Own] # "down"
           /\ UNCHANGED <<phase, hole, retry, adm, joins, everConnected, registered, pending, fut, seen,
                          ask, stopMessage, stopped, sealed, stopper, playerVars>>
           /\ faults' = faults \/ faults' = faults \cup {"drop"}
<1>1. /\ Disconnect(Own) /\ toServer' = <<>> /\ UNCHANGED playerVars
      /\ faults' = faults \/ faults' = faults \cup {"drop"}
  BY DEF Closing, Refuse, Hangup, Drop, Shutdown, Fault
<1> QED
  BY <1>1, OwnSeat DEF Disconnect, Connected, engineVars, windowVars, stopVars, TypeOK

\* The first frame is received.
LEMMA ReceiveSeat ==
    ASSUME SessionTypeOK, Receive
    PROVE  /\ toServer # <<>> /\ toServer' = Tail(toServer) /\ link[Own] = "up" /\ Live
           /\ UNCHANGED <<phase, hole, retry, ask, link, joins, everConnected, pending, seen,
                          stopMessage, sealed, stopper, toPlayer, refused, faults, playerVars>>
           /\ ~sealed[Own]
           /\ \/ /\ Head(toServer).type = "ready" /\ registered'[Own] /\ UNCHANGED <<adm, fut, stopped>>
                 /\ ~registered[Own] /\ ~stopMessage[Own] /\ \A w \in Windows : ~Issued(adm[Own], w)
              \/ /\ Head(toServer).type = "attempt_started" /\ UNCHANGED <<registered, fut, stopped>>
                 /\ MayProgress(adm[Own], Head(toServer).window, Head(toServer).attempt, Head(toServer).reader)
                 /\ adm'[Own] = Progress(adm[Own], Head(toServer).window, Head(toServer).attempt,
                                         Head(toServer).reader)
              \/ /\ Head(toServer).type = "action" /\ UNCHANGED <<registered, stopped>>
                 /\ MayConsume(adm[Own], Head(toServer).window, Head(toServer).selected)
                 /\ adm'[Own] = Consume(adm[Own], Head(toServer).window, Head(toServer).selected)
                 /\ fut'[Own] = IF fut[Own] = "open" THEN "action" ELSE fut[Own]
              \/ /\ Head(toServer).type = "stopped" /\ UNCHANGED <<registered, adm, fut>>
                 /\ stopMessage[Own] /\ stopped'[Own]
                 /\ ~HasUnsettledReaders(adm[Own])
<1> DEFINE f == Head(toServer)
<1>0. /\ Own \in Seats
      /\ adm \in [Seats -> AdmissionState] /\ stopped \in [Seats -> BOOLEAN] /\ registered \in [Seats -> BOOLEAN]
      /\ fut \in [Seats -> BadReplies \cup {"open", "cancelled", "action"}]
  BY OwnSeat DEF SessionTypeOK, TypeOK
<1>1. /\ toServer # <<>> /\ toServer' = Tail(toServer) /\ link[Own] = "up" /\ Live
      /\ UNCHANGED <<toPlayer, refused, faults, playerVars>>
      /\ Accepts(f) /\ Delivered(f) /\ ~sealed[Own]
  BY DEF Receive, Accepts
<1>2. f.type \in {"ready", "attempt_started", "action", "stopped"}
  BY <1>1, FrameTypes
<1> HIDE DEF f
<1>3. CASE f.type = "ready"
  <2>1. DeliverReady(Own)
    BY <1>1, <1>3 DEF Delivered
  <2> QED
    BY <1>0, <1>1, <1>3, <2>1 DEF DeliverReady, engineVars, windowVars, stopVars, f
<1>4. CASE f.type = "attempt_started"
  <2>1. /\ DeliverStarted(Own)
        /\ adm' = [adm EXCEPT ![Own] = Progress(@, f.window, f.attempt, f.reader)]
        /\ MayProgress(adm[Own], f.window, f.attempt, f.reader)
    BY <1>1, <1>4 DEF Delivered, Accepts
  <2>2. adm'[Own] = Progress(adm[Own], f.window, f.attempt, f.reader)
    BY <1>0, <2>1
  <2>3. UNCHANGED <<engineVars, linkVars, windowVars, stopVars>>
    BY <2>1 DEF DeliverStarted
  <2> QED
    BY <1>1, <1>4, <2>1, <2>2, <2>3 DEF engineVars, linkVars, windowVars, stopVars, f
<1>5. CASE f.type = "action"
  <2>1. /\ DeliverAction(Own)
        /\ adm' = [adm EXCEPT ![Own] = Consume(@, f.window, f.selected)]
        /\ MayConsume(adm[Own], f.window, f.selected)
        /\ Resolve(Own, "action")
    BY <1>1, <1>5 DEF Delivered, Accepts
  <2>2. /\ adm'[Own] = Consume(adm[Own], f.window, f.selected)
        /\ fut'[Own] = IF fut[Own] = "open" THEN "action" ELSE fut[Own]
    BY <1>0, <2>1 DEF Resolve
  <2>3. UNCHANGED <<engineVars, linkVars, pending, seen, stopVars>>
    BY <2>1 DEF DeliverAction
  <2> QED
    BY <1>1, <1>5, <2>1, <2>2, <2>3 DEF engineVars, linkVars, stopVars, f
<1>6. CASE f.type = "stopped"
  <2>1. DeliverStopped(Own)
    BY <1>1, <1>6 DEF Delivered
  <2> QED
    BY <1>0, <1>1, <1>6, <2>1 DEF DeliverStopped, engineVars, linkVars, windowVars, stopVars, f
<1> QED
  BY <1>2, <1>3, <1>4, <1>5, <1>6

\* A window is issued, or the stop begins.
LEMMA ObserveSeat ==
    ASSUME SessionTypeOK, Typed, Observe
    PROVE  /\ UNCHANGED <<phase, hole, retry, link, joins, everConnected, registered, stopMessage, stopped,
                          sealed, stopper, toServer, refused, playerVars>>
           /\ Round \in Windows /\ phase = "asking"
           /\ ask[Own] = "ready" /\ MayIssue(adm[Own], Round)
           /\ \E profile \in Profiles : adm'[Own] = Issue(adm[Own], Round, profile)
           /\ pending'[Own] = Round /\ fut'[Own] = "open" /\ Issued(adm'[Own], Round)
           /\ faults' \in IF registered[Own] THEN {faults, faults \cup {"stale"}}
                         ELSE {faults \cup {"unregistered"}}
<1>1. /\ Ask(Own) /\ UNCHANGED <<playerVars, toServer, refused>> /\ phase = "asking"
      /\ faults' \in IF registered[Own] THEN {faults, faults \cup {"stale"}}
                         ELSE {faults \cup {"unregistered"}}
  BY DEF Observe
<1>2. /\ Own \in Seats /\ Round \in Windows /\ offer[Own] \in Profiles
      /\ adm \in [Seats -> AdmissionState] /\ adm[Own] \in AdmissionState
      /\ pending \in [Seats -> Windows \cup {NoWindow}]
      /\ fut \in [Seats -> BadReplies \cup {"open", "cancelled", "action"}]
  BY <1>1, OwnSeat, RoundIsWindow DEF SessionTypeOK, TypeOK
<1>3. adm'[Own] = Issue(adm[Own], Round, offer[Own])
  BY <1>1, <1>2 DEF Ask
<1>4. Issued(adm'[Own], Round)
  BY <1>2, <1>3 DEF Issue, Issued, AdmissionState, Profiles
<1>5. /\ UNCHANGED <<phase, hole, retry, linkVars, stopVars>> /\ ask[Own] = "ready" /\ MayIssue(adm[Own], Round)
      /\ pending'[Own] = Round /\ fut'[Own] = "open"
  BY <1>1, <1>2 DEF Ask
<1> QED
  BY <1>1, <1>2, <1>3, <1>4, <1>5 DEF linkVars, stopVars

LEMMA TellStopSeat ==
    ASSUME SessionTypeOK, TellStop
    PROVE  /\ UNCHANGED <<phase, hole, retry, ask, link, joins, everConnected, registered, pending, fut, seen,
                          stopped, toServer, refused, playerVars>>
           /\ adm'[Own] = StopAdmission(adm[Own])
           /\ phase \in {"stopping", "aborting"} /\ stopper[Own] = "idle"
           /\ \/ ~everConnected[Own] /\ stopMessage' = stopMessage /\ sealed'[Own] /\ stopper'[Own] = "joined"
              \/ /\ everConnected[Own] /\ stopMessage'[Own] /\ sealed' = sealed
                 /\ stopper'[Own] \in {"sending", "awaiting"}
           /\ faults' = IF registered[Own] THEN faults ELSE faults \cup {"unregistered"}
<1>1. /\ Own \in Seats /\ adm \in [Seats -> AdmissionState] /\ sealed \in [Seats -> BOOLEAN]
      /\ stopMessage \in [Seats -> BOOLEAN] /\ stopper \in [Seats -> StopperStates]
  BY OwnSeat DEF SessionTypeOK, TypeOK
<1> QED
  BY <1>1 DEF TellStop, Stopping, SealUnused, SendStop, Stopper, engineVars, linkVars, windowVars

\* Whatever else the server does.
Otherwise == Unheard \/ TellEvidence \/ TellDone \/ Quiet \/ Fail \/ Ended \/ Welcomed

LEMMA OtherwiseSeat ==
    ASSUME SessionTypeOK, Otherwise
    PROVE  /\ UNCHANGED <<registered, everConnected, joins, stopMessage, stopped, refused, playerVars>>
           /\ adm'[Own] = adm[Own] \/ adm'[Own] = CloseWindow(adm[Own], Round)
           /\ toServer' = toServer \/ (phase' = "failed" /\ toServer' = <<>>)
           /\ phase' = "failed" /\ phase # "failed" => toServer' = <<>>
           /\ phase = "failed" => phase' = "failed"
           /\ link'[Own] = link[Own] \/ (link[Own] = "greeting" /\ link'[Own] = "up")
           /\ sealed'[Own] = sealed[Own] \/ stopper[Own] = "acking"
           /\ stopper'[Own] \in {"sending", "awaiting", "acking"} =>
                 stopper[Own] \in {"sending", "awaiting", "acking"}
           /\ fut'[Own] = fut[Own] \/ fut'[Own] \in {"open", "cancelled"}
           /\ faults \subseteq faults' /\ faults' \subseteq faults \cup {"late", "signal"}
<1>0. /\ Own \in Seats /\ adm \in [Seats -> AdmissionState] /\ sealed \in [Seats -> BOOLEAN]
      /\ link \in [Seats -> {"down", "greeting", "up"}] /\ stopper \in [Seats -> StopperStates]
      /\ fut \in [Seats -> BadReplies \cup {"open", "cancelled", "action"}]
  BY OwnSeat DEF SessionTypeOK, TypeOK
<1>1. ASSUME NEW outcome, Return(Own, outcome)
      PROVE  /\ UNCHANGED <<phase, linkVars, stopVars>>
             /\ adm'[Own] = CloseWindow(adm[Own], Round) /\ fut'[Own] = "open"
  BY <1>0, <1>1 DEF Return
<1>2. CASE Unheard
  <2>1. /\ UNCHANGED <<phase, linkVars, stopVars>>
        /\ adm'[Own] = adm[Own] \/ adm'[Own] = CloseWindow(adm[Own], Round)
        /\ fut'[Own] = fut[Own] \/ fut'[Own] = "open"
    <3>1. CASE SendFailed(Own) \/ TimedOut(Own)
      BY <1>1, <3>1 DEF SendFailed, TimedOut
    <3>2. CASE Cancelled(Own)
      BY <1>0, <3>2 DEF Cancelled
    <3> QED
      BY <1>2, <3>1, <3>2 DEF Unheard
  <2> QED
    BY <1>2, <2>1 DEF Unheard, linkVars, stopVars
<1>3. CASE TellEvidence
  BY <1>0, <1>3 DEF TellEvidence, StopAcknowledged, Stopper, engineVars, linkVars, windowVars
<1>4. CASE TellDone
  BY <1>0, <1>4 DEF TellDone, Publish, linkVars, windowVars, stopVars
<1>5. CASE Quiet
  <2>0. UNCHANGED <<playerVars, wireVars>>
    BY <1>5 DEF Quiet
  <2>1. CASE Sent(Own) \/ Expire(Own)
    BY <1>0, <2>0, <2>1 DEF Sent, Expire, wireVars, linkVars, windowVars, stopVars
  <2>2. CASE Answered(Own)
    BY <1>1, <2>0, <2>2 DEF Answered, wireVars, linkVars, stopVars
  <2>3. CASE StopSent(Own) \/ EvidenceSent(Own) \/ StopOverdue(Own)
    BY <1>0, <2>0, <2>3 DEF StopSent, EvidenceSent, StopOverdue, Stopper, wireVars, engineVars, linkVars, windowVars
  <2>4. CASE Engine
    BY <1>0, <2>0, <2>4 DEF Engine, BeginHole, RetryBatch, Install, HoleScored, SandboxFault,
       EngineRaises, EndRun, CallsCancelled, wireVars, linkVars, windowVars, stopVars
  <2> QED
    BY <1>5, <2>1, <2>2, <2>3, <2>4 DEF Quiet
<1>6. CASE Fail
  <2>1. UNCHANGED <<adm, linkVars, windowVars, stopVars, playerVars, refused>> /\ phase # "failed"
    BY <1>6 DEF Fail, Withhold, Signal, Over
  <2>2. faults' = faults \/ faults' = faults \cup {"signal"}
    BY <1>6 DEF Fail, Fault
  <2>3. IF phase' = "failed" THEN toServer' = <<>> ELSE toServer' = toServer
    BY <1>6 DEF Fail
  <2> QED
    BY <1>0, <2>1, <2>2, <2>3 DEF linkVars, windowVars, stopVars
<1>7. CASE Ended
  <2>1. UNCHANGED <<phase, adm, linkVars, windowVars, stopVars, playerVars, wireVars>>
    BY <1>7 DEF Ended, sessionVars, vars, engineVars
  <2> QED
    BY <1>0, <2>1 DEF wireVars, linkVars, windowVars, stopVars
<1>8. CASE Welcomed
  BY <1>0, <1>8 DEF Welcomed, Greet, engineVars, stopVars
<1> QED
  BY <1>2, <1>3, <1>4, <1>5, <1>6, <1>7, <1>8 DEF Otherwise

LEMMA OtherwiseGrows ==
    ASSUME SessionTypeOK, Typed, Otherwise
    PROVE  Grown({"stop", "observation", "evidence", "done", "close"})
BY ServerGrows DEF Otherwise, Grown

LEMMA ServerStepKinds ==
    ServerStep => Receive \/ Closing \/ Observe \/ TellStop \/ Otherwise
BY DEF ServerStep, Server, Closing, Otherwise

\* The welcome stays where it is while the server tells more.
LEMMA WelcomeStays ==
    ASSUME Base, NEW types, Grown(types), "welcome" \notin types
    PROVE  /\ \A i \in DOMAIN toPlayer' : toPlayer'[i].type = "welcome" =>
                  i \in DOMAIN toPlayer /\ toPlayer[i].type = "welcome"
           /\ toPlayer # <<>> => toPlayer' # <<>> /\ toPlayer'[1] = toPlayer[1]
<1>1. /\ toPlayer' \in Seq(ToPlayer) /\ Len(toPlayer) <= Len(toPlayer')
      /\ \A i \in 1..Len(toPlayer) : toPlayer'[i] = toPlayer[i]
      /\ \A i \in 1..Len(toPlayer') : i > Len(toPlayer) => toPlayer'[i].type \in types
  BY DEF Grown
<1>2. DOMAIN toPlayer' = 1..Len(toPlayer') /\ Len(toPlayer') \in Nat /\ (toPlayer' = <<>> <=> Len(toPlayer') = 0)
  BY <1>1, QueueFacts
<1>3. DOMAIN toPlayer = 1..Len(toPlayer) /\ Len(toPlayer) \in Nat /\ (toPlayer = <<>> <=> Len(toPlayer) = 0)
  BY QueueShapes
<1>4. ASSUME NEW i \in 1..Len(toPlayer'), toPlayer'[i].type = "welcome"
      PROVE  i \in 1..Len(toPlayer) /\ toPlayer[i].type = "welcome"
  <2>1. ~(i > Len(toPlayer))
    BY <1>1, <1>4
  <2>2. i \in 1..Len(toPlayer)
    BY <1>3, <2>1
  <2> QED
    BY <1>1, <1>4, <2>2
<1> QED
  BY <1>1, <1>2, <1>3, <1>4

\* Windows are only added, and only by an observation.
LEMMA WindowsStay ==
    ASSUME SessionTypeOK
    PROVE  /\ \A w : CloseWindow(adm[Own], w).windows = adm[Own].windows
           /\ StopAdmission(adm[Own]).windows = adm[Own].windows
           /\ \A w, a, r : Progress(adm[Own], w, a, r).windows = adm[Own].windows
           /\ \A w, a : Consume(adm[Own], w, a).windows = adm[Own].windows
<1>1. adm[Own] \in AdmissionState
  BY OwnSeat DEF SessionTypeOK, TypeOK
<1> QED
  BY <1>1 DEF AdmissionState, CloseWindow, StopAdmission, Progress, Consume

LEMMA IssuedStays ==
    ASSUME adm'[Own].windows = adm[Own].windows
    PROVE  IssuedAny' <=> IssuedAny
BY DEF IssuedAny, Issued

LEMMA GreetingByReceive ==
    ASSUME Base, Greeting, WireTypes', Receive
    PROVE  Greeting'
<1>0. /\ SessionTypeOK
      /\ toServer # <<>> /\ toServer' = Tail(toServer) /\ link[Own] = "up" /\ Live
      /\ UNCHANGED <<phase, link, joins, everConnected, pending, seen,
                     stopMessage, sealed, stopper, toPlayer, refused, faults, playerVars>>
      /\ ~sealed[Own]
  BY BaseShape, ReceiveSeat
<1> DEFINE f == Head(toServer)
<1>1. \/ /\ f.type = "ready" /\ registered'[Own] /\ UNCHANGED <<adm, fut, stopped>>
         /\ ~registered[Own] /\ ~stopMessage[Own] /\ \A w \in Windows : ~Issued(adm[Own], w)
      \/ f.type = "attempt_started" /\ UNCHANGED <<registered, fut, stopped>>
      \/ f.type = "action" /\ UNCHANGED <<registered, stopped>> /\ fut'[Own] \in {fut[Own], "action"}
      \/ f.type = "stopped" /\ UNCHANGED <<registered, adm, fut>>
  BY <1>0, ReceiveSeat
<1>2. adm'[Own].windows = adm[Own].windows
  BY <1>0, ReceiveSeat, WindowsStay
<1>3. f = toServer[1] /\ f \in ToServer /\ toServer[1] \in ToServer
  BY <1>0, QueueShapes
<1> HIDE DEF f
<1>4. \A i \in DOMAIN toPlayer : toPlayer[i].type # "welcome"
  BY <1>0 DEF Greeting, Welcoming
<1>5. f.type # "ready" => registered[Own] /\ registered' = registered
  <2>1. toServer[1] = Ready => f.type = "ready"
    BY <1>3 DEF Ready, Plain
  <2>2. ~registered[Own] => toServer[1] = Ready
    BY <1>0, <1>4, QueueShapes DEF Greeting, Welcoming, Connected, Live
  <2> QED
    BY <1>1, <2>1, <2>2
<1>6. registered'[Own]
  BY <1>1, <1>5
<1>7. Linked'
  BY <1>0, <1>6 DEF Greeting, Linked, Live
<1>8. \A i \in DOMAIN toServer' : toServer'[i] # Ready
  <2>1. \A i \in 1..Len(toServer) : i # 1 => toServer[i] # Ready
    BY QueueShapes DEF Greeting, Welcoming
  <2>2. Len(toServer) \in Nat /\ Shorter(toServer, toServer')
    BY <1>0, QueueShapes
  <2>3. \A i \in 1..Len(toServer') : i + 1 \in 1..Len(toServer) /\ i + 1 # 1 /\ toServer'[i] = toServer[i + 1]
    BY <2>2 DEF Shorter
  <2> QED
    BY <2>1, <2>3, QueueShapesPrime
<1>9. Welcoming'
  BY <1>0, <1>4, <1>6, <1>8 DEF Welcoming
<1>10. Registering'
  <2>1. IssuedAny' <=> IssuedAny
    BY <1>2, IssuedStays
  <2>2. ~registered[Own] => ~Begun
    BY <1>0, <1>1, <1>5 DEF Begun, IssuedAny
  <2>3. "unregistered" \notin faults
    BY <1>1, <1>5, <2>2 DEF Greeting, Registering
  <2> QED
    BY <1>0, <1>6, <2>1, <2>3 DEF Greeting, Registering, Begun
<1>11. Futures'
  BY <1>1 DEF Greeting, Futures
<1> QED
  BY <1>7, <1>9, <1>10, <1>11 DEF Greeting

LEMMA GreetingByClosing ==
    ASSUME Base, Typed, Greeting, WireTypes', Closing
    PROVE  Greeting'
<1>0. /\ SessionTypeOK /\ link'[Own] = "down" /\ toServer' = <<>>
      /\ UNCHANGED <<phase, adm, everConnected, registered, fut, stopMessage, stopped, sealed, stopper, playerVars>>
      /\ "unregistered" \in faults' <=> "unregistered" \in faults
      /\ link[Own] # "down"
  BY ClosingSeat, BaseShape DEF Base
<1>1. Linked'
  BY <1>0 DEF Greeting, Linked
<1>2. \A i \in DOMAIN toPlayer' : toPlayer'[i].type = "welcome" =>
         i \in DOMAIN toPlayer /\ toPlayer[i].type = "welcome"
  <2>1. CASE Refuse \/ Hangup \/ Shutdown
    <3>1. Grown({"close"})
      BY <1>0, <2>1, ServerGrows DEF Grown
    <3> QED
      BY <3>1, WelcomeStays
  <2>2. CASE Drop
    <3>1. PICK n \in Received..Len(toPlayer) : Cut(toPlayer, toPlayer', n, Close)
      BY <1>0, <2>2, DropFacts
    <3>2. n \in Int /\ n >= 0 /\ n <= Len(toPlayer)
      BY <3>1, QueueShapes DEF Received
    <3>3. Close.type # "welcome"
      BY DEF Close, Plain
    <3> QED
      BY <3>1, <3>2, <3>3, QueueShapes, QueueShapesPrime DEF Cut
  <2> QED
    BY <2>1, <2>2 DEF Closing
<1>3. Welcoming'
  <2>1. \A i \in DOMAIN toPlayer' : toPlayer'[i].type = "welcome" =>
          /\ i = 1 /\ main = "loop" /\ writers = <<>> /\ ~stop /\ ~acked /\ ~registered[Own]
    BY <1>2 DEF Greeting, Welcoming
  <2>2. DOMAIN toServer' = {} /\ UNCHANGED <<main, writers, stop, acked>>
    BY <1>0, QueueShapesPrime DEF playerVars
  <2> QED
    BY <1>0, <2>1, <2>2 DEF Welcoming, Connected
<1>4. Registering' /\ Futures'
  BY <1>0 DEF Greeting, Registering, Futures, Begun, IssuedAny
<1> QED
  BY <1>1, <1>3, <1>4 DEF Greeting

LEMMA GreetingByServer ==
    ASSUME Base, Typed, Greeting, WireTypes', ServerStep
    PROVE  Greeting'
<1>0. SessionTypeOK
  BY BaseShape
<1>1. CASE Receive
  BY <1>1, GreetingByReceive
<1>2. CASE Closing
  BY <1>2, GreetingByClosing
<1>3. CASE Observe \/ TellStop \/ Otherwise
  <2>1. /\ UNCHANGED <<everConnected, registered, stopped, playerVars>>
        /\ toServer' = toServer \/ (phase' = "failed" /\ toServer' = <<>>)
        /\ phase' = "failed" /\ phase # "failed" => toServer' = <<>>
        /\ phase = "failed" => phase' = "failed"
        /\ link'[Own] = link[Own] \/ (link[Own] = "greeting" /\ link'[Own] = "up")
        /\ fut'[Own] = fut[Own] \/ fut'[Own] \in {"open", "cancelled"}
        /\ stopMessage'[Own] => stopMessage[Own] \/ everConnected[Own]
    BY <1>0, <1>3, ObserveSeat, TellStopSeat, OtherwiseSeat DEF Base
  <2>2. Linked' /\ Futures'
    BY <2>1 DEF Greeting, Linked, Futures
  <2>3. Grown({"stop", "observation", "evidence", "done", "close"})
    BY <1>0, <1>3, ServerGrows, OtherwiseGrows DEF Grown
  <2>4. /\ \A i \in DOMAIN toPlayer' : toPlayer'[i].type = "welcome" =>
               i \in DOMAIN toPlayer /\ toPlayer[i].type = "welcome"
        /\ toPlayer # <<>> => toPlayer' # <<>> /\ toPlayer'[1] = toPlayer[1]
    BY <2>3, WelcomeStays
  <2>5. Welcoming'
    <3>1. DOMAIN toServer' = {} \/ toServer' = toServer
      BY <2>1, QueueShapesPrime
    <3>2. Live' /\ Connected(Own)' => Live /\ Connected(Own) /\ toServer' = toServer
      BY <2>1 DEF Live, Connected
    <3>3. /\ \A i \in DOMAIN toServer' : toServer'[i] = Ready => i = 1 /\ ~registered'[Own]
          /\ Connected(Own)' /\ Live' /\ ~registered'[Own] =>
                \/ toPlayer' # <<>> /\ toPlayer'[1].type = "welcome"
                \/ toServer' # <<>> /\ toServer'[1] = Ready
      BY <2>1, <2>4, <3>1, <3>2 DEF Greeting, Welcoming
    <3>4. \A i \in DOMAIN toPlayer' : toPlayer'[i].type = "welcome" =>
              /\ i = 1 /\ main' = "loop" /\ writers' = <<>> /\ toServer' = <<>>
              /\ ~stop' /\ ~acked' /\ ~registered'[Own]
      BY <2>1, <2>4 DEF Greeting, Welcoming, playerVars
    <3> QED
      BY <3>3, <3>4 DEF Welcoming
  <2>6. Registering'
    <3>1. CASE Observe
      <4>1. IssuedAny' /\ UNCHANGED <<stopMessage, sealed, stopper>>
            /\ faults' \in IF registered[Own] THEN {faults, faults \cup {"stale"}}
                           ELSE {faults \cup {"unregistered"}}
        BY <1>0, <3>1, ObserveSeat DEF IssuedAny
      <4> QED
        BY <2>1, <4>1 DEF Greeting, Registering, Begun
    <3>2. CASE TellStop
      <4>1. /\ adm'[Own].windows = adm[Own].windows
            /\ \/ ~everConnected[Own] /\ stopMessage' = stopMessage /\ sealed'[Own] /\ stopper'[Own] = "joined"
               \/ everConnected[Own] /\ stopMessage'[Own] /\ sealed' = sealed
            /\ faults' = IF registered[Own] THEN faults ELSE faults \cup {"unregistered"}
        BY <1>0, <3>2, TellStopSeat, WindowsStay
      <4>2. IssuedAny' <=> IssuedAny
        BY <4>1, IssuedStays
      <4>3. Begun' /\ (~everConnected[Own] => ~registered[Own])
        BY <4>1 DEF Begun, Greeting, Linked
      <4> QED
        BY <2>1, <4>1, <4>2, <4>3 DEF Greeting, Registering, Begun
    <3>3. CASE Otherwise
      <4>1. /\ adm'[Own].windows = adm[Own].windows /\ stopMessage' = stopMessage
            /\ sealed'[Own] = sealed[Own] \/ stopper[Own] = "acking"
            /\ stopper'[Own] \in {"sending", "awaiting", "acking"} =>
                  stopper[Own] \in {"sending", "awaiting", "acking"}
            /\ "unregistered" \in faults' <=> "unregistered" \in faults
        BY <1>0, <3>3, OtherwiseSeat, WindowsStay
      <4>2. IssuedAny' <=> IssuedAny
        BY <4>1, IssuedStays
      <4>3. Begun' <=> Begun
        BY <4>1, <4>2 DEF Begun, Greeting, Registering
      <4> QED
        BY <2>1, <4>1, <4>2, <4>3 DEF Greeting, Registering
    <3> QED
      BY <1>3, <3>1, <3>2, <3>3
  <2> QED
    BY <2>2, <2>5, <2>6 DEF Greeting
<1> QED
  BY <1>1, <1>2, <1>3, ServerStepKinds

LEMMA GreetingInit == SessionInit => Greeting
<1> SUFFICES ASSUME SessionInit PROVE Greeting
  OBVIOUS
<1>1. /\ toPlayer = <<>> /\ toServer = <<>> /\ faults = {} /\ DOMAIN toPlayer = {} /\ DOMAIN toServer = {}
  BY EmptySeq DEF SessionInit
<1>2. /\ link[Own] = "down" /\ ~registered[Own] /\ ~stopped[Own] /\ ~stopMessage[Own] /\ ~sealed[Own]
      /\ stopper[Own] = "idle" /\ fut[Own] = "open" /\ ~IssuedAny
  BY OwnSeat DEF SessionInit, Init, IssuedAny, Issued, EmptyAdmission
<1> QED
  BY <1>1, <1>2 DEF Greeting, Linked, Welcoming, Registering, Futures, Begun, Connected

LEMMA GreetingNext == SessionBase /\ Greeting /\ [SessionNext]_sessionVars => Greeting'
<1> SUFFICES ASSUME SessionBase, Greeting, [SessionNext]_sessionVars PROVE Greeting'
  OBVIOUS
<1>1. Base /\ Typed /\ WireTypes'
  BY BaseNext DEF SessionBase, Base, Inv
<1>2. CASE UNCHANGED sessionVars
  <2>1. UNCHANGED <<link, phase, registered, stopMessage, everConnected, stopped, stopper, sealed, adm, fut,
                    playerVars, wireVars>>
    BY <1>2 DEF sessionVars, vars, engineVars, linkVars, windowVars, stopVars
  <2>2. Linked' /\ Welcoming'
    BY <2>1 DEF Greeting, Linked, Welcoming, Connected, Live, playerVars, wireVars
  <2>3. Registering' /\ Futures'
    BY <2>1 DEF Greeting, Registering, Futures, Begun, IssuedAny, wireVars
  <2> QED
    BY <2>2, <2>3 DEF Greeting
<1> QED
  BY <1>1, <1>2, GreetingByTask, GreetingByMain, GreetingByServer DEF SessionNext, TaskStep, ServerStep

--------------------------------------------------------------------------------
(***************************************************************************)
(* The ending: stop, Stopped, the evidence, and the result.                *)
(***************************************************************************)
Never(type) == \A i \in DOMAIN toPlayer : toPlayer[i].type # type

StopOnItsWay == \E i \in DOMAIN toServer : toServer[i] = Stopped

StopSaid == stopped[Own] \/ StopOnItsWay

\* What has been told to the player, in which order.
Saying ==
    /\ stop \/ ~Never("stop") => stopMessage[Own]
    /\ acked \/ ~Never("evidence") => stopped[Own]
    /\ stop => Never("observation")
    /\ \A i, j \in DOMAIN toPlayer :
          toPlayer[i].type = "stop" /\ toPlayer[j].type = "observation" => j < i
    /\ ~Gone /\ Connected(Own) /\ stopper[Own] \in {"acking", "joined"} /\ stopMessage[Own] =>
          acked \/ ~Never("evidence")
    /\ \A i \in DOMAIN toPlayer :
          toPlayer[i].type \in {"done", "close"} /\ Connected(Own) /\ Live =>
             \/ acked \/ "unregistered" \in faults
             \/ \E j \in DOMAIN toPlayer : j < i /\ toPlayer[j].type = "evidence"

\* Once it has said Stopped the player does nothing any more but read.
Silent ==
    StopSaid =>
        /\ stop
        /\ main \in {"loop", "closing", "flushing", "done", "failed"}
        /\ ~WorkerLive /\ ~CallLive
        /\ \A i \in DOMAIN writers : writers[i].task # "running"
        /\ writers # <<>> => writers[Current].task = "done"
        /\ \A a \in AttemptIds : reader[a] # "open"

Ending == Saying /\ Silent /\ StoppedIsLast

LEMMA SilentNoTask ==
    ASSUME Silent, StopSaid
    PROVE  ~TaskStep
BY DEF Silent, TaskStep, Worker, Policy, WorkerLive, CallLive, GotPayload, Deadline, Fallback, Unreadable, Submit,
   FinishStuck, WorkerCancelled, TryAttempt, Degrade, Request, Headers, ResponseEnds, Closed,
   CloseStuck, CloseInterrupted, WriterSend

LEMMA EndingByTask ==
    ASSUME Base, Ending, TaskStep
    PROVE  Ending'
<1>0. /\ UNCHANGED <<vars, main, stop, acked, toPlayer>> /\ WireTypes'
      /\ toServer' = toServer \/
           \E x \in ToServer : /\ Longer(toServer, toServer', x)
                               /\ x.type \in {"attempt_started", "action"}
      /\ faults \subseteq faults'
  BY TaskSteps
<1>1. UNCHANGED <<link, phase, stopMessage, stopped, stopper>>
  BY <1>0 DEF vars, engineVars, linkVars, stopVars
<1>2. ~StopSaid
  BY SilentNoTask DEF Ending
<1>3. \A i \in DOMAIN toServer' : toServer'[i] # Stopped
  <2>1. CASE toServer' = toServer
    BY <1>2, <2>1 DEF StopSaid, StopOnItsWay
  <2>2. CASE toServer' # toServer
    <3>1. PICK x \in ToServer : Longer(toServer, toServer', x) /\ x.type \in {"attempt_started", "action"}
      BY <1>0, <2>2
    <3>2. x # Stopped
      BY <3>1 DEF Stopped, Plain
    <3> QED
      BY <1>0, <1>2, <3>1, <3>2, QueueShapes, QueueShapesPrime DEF Longer, StopSaid, StopOnItsWay
  <2> QED
    BY <2>1, <2>2
<1>4. ~StopSaid' /\ ~stopped'[Own]
  BY <1>1, <1>2, <1>3 DEF StopSaid, StopOnItsWay
<1>5. Silent' /\ StoppedIsLast'
  BY <1>3, <1>4 DEF Silent, StoppedIsLast
<1>6. Saying'
  BY <1>0, <1>1 DEF Ending, Saying, Never, Gone, Connected, Live
<1> QED
  BY <1>5, <1>6 DEF Ending

\* The frames that are left when the first one has been taken.
LEMMA TailFrames ==
    ASSUME Base, WireTypes', toPlayer # <<>>, toPlayer' = Tail(toPlayer)
    PROVE  /\ 1 \in DOMAIN toPlayer /\ Head(toPlayer) = toPlayer[1]
           /\ \A i \in DOMAIN toPlayer' : /\ i + 1 \in DOMAIN toPlayer
                                          /\ toPlayer'[i] = toPlayer[i + 1]
           /\ \A i \in DOMAIN toPlayer : /\ i \in Nat
                                         /\ i # 1 => /\ i - 1 \in DOMAIN toPlayer'
                                                     /\ toPlayer'[i - 1] = toPlayer[i]
<1>1. Shorter(toPlayer, toPlayer') /\ Len(toPlayer) \in Nat /\ DOMAIN toPlayer = 1..Len(toPlayer)
      /\ Head(toPlayer) = toPlayer[1]
  BY QueueShapes
<1>2. DOMAIN toPlayer' = 1..Len(toPlayer') /\ Len(toPlayer') = Len(toPlayer) - 1 /\ Len(toPlayer) > 0
  BY <1>1, QueueShapesPrime DEF Shorter
<1>3. \A i \in 1..Len(toPlayer') : toPlayer'[i] = toPlayer[i + 1]
  BY <1>1 DEF Shorter
<1>4. ASSUME NEW i \in 1..Len(toPlayer), i # 1
      PROVE  i - 1 \in 1..Len(toPlayer') /\ toPlayer'[i - 1] = toPlayer[i]
  <2>1. i - 1 \in 1..Len(toPlayer') /\ (i - 1) + 1 = i
    BY <1>1, <1>2, <1>4
  <2> QED
    BY <1>3, <2>1
<1> QED
  BY <1>1, <1>2, <1>3, <1>4

\* The receiving loop takes a frame, and believes what it says, or the process ends.
Reads ==
    \/ toPlayer' = toPlayer /\ stop' = stop /\ acked' = acked
    \/ /\ toPlayer # <<>> /\ toPlayer' = Tail(toPlayer)
       /\ stop' = stop \/ (stop' /\ toPlayer[1].type = "stop")
       /\ acked' = acked \/ (acked' /\ toPlayer[1].type = "evidence")
       /\ toPlayer[1].type = "evidence" => acked'
    \/ toPlayer' = <<>> /\ Gone' /\ stop' = stop /\ acked' = acked

LEMMA MainReads ==
    ASSUME Base, Ending, Main, ~Join
    PROVE  Reads /\ (Gone => Gone')
<1>0. toPlayer # <<>> => Head(toPlayer) = toPlayer[1] /\ 1 \in DOMAIN toPlayer
  BY QueueShapes
<1>1. CASE NeverJoins \/ OwnersStopped \/ SendStopped \/ DrainStuck \/ WorkerFailed \/ Flush
  BY <1>1 DEF NeverJoins, OwnersStopped, SendStopped, DrainStuck, WorkerFailed, Flush, wireVars,
     Reads, Gone, GiveUp
<1>2. CASE OnWelcome \/ OnStop
  <2>1. /\ toPlayer # <<>> /\ toPlayer' = Tail(toPlayer) /\ acked' = acked /\ ~Gone
        /\ Head(toPlayer).type \in {"welcome", "stop"}
        /\ stop' = stop \/ (stop' /\ Head(toPlayer).type = "stop")
    <3>1. CASE OnWelcome
      BY <3>1 DEF OnWelcome, Frame, Take, playerVars, Gone
    <3>2. CASE OnStop
      BY <3>2 DEF OnStop, Frame, Take, Gone
    <3> QED
      BY <1>2, <3>1, <3>2
  <2>2. toPlayer[1].type \in {"welcome", "stop"} /\ (stop' = stop \/ (stop' /\ toPlayer[1].type = "stop"))
    BY <1>0, <2>1
  <2>3. toPlayer[1].type # "evidence"
    BY <2>2
  <2>4. acked' = acked \/ (acked' /\ toPlayer[1].type = "evidence")
    BY <2>1
  <2>5. stop' = stop \/ (stop' /\ toPlayer[1].type = "stop")
    BY <2>2
  <2>6. toPlayer[1].type = "evidence" => acked'
    BY <2>3
  <2> QED
    BY <2>1, <2>4, <2>5, <2>6 DEF Reads
<1>3. CASE OnObservation \/ PreviousJoined
  <2>1. /\ toPlayer # <<>> /\ Head(toPlayer).type = "observation"
    BY <1>3 DEF OnObservation, PreviousJoined, Frame, Base, Places
  <2>2. /\ toPlayer' = toPlayer \/ toPlayer' = Tail(toPlayer)
        /\ stop' = stop /\ acked' = acked /\ ~Gone
    BY <1>3 DEF OnObservation, PreviousJoined, Frame, Take, StartWorker, Gone
  <2> QED
    BY <1>0, <2>1, <2>2 DEF Reads
<1>4. CASE OnEvidence
  <2>1. toPlayer # <<>> /\ toPlayer' = Tail(toPlayer) /\ Head(toPlayer).type = "evidence" /\ ~Gone
        /\ stop' = stop /\ (stop => acked')
    BY <1>4 DEF OnEvidence, Frame, Take, Gone
  <2>2. stop
    BY <1>0, <2>1 DEF Ending, Saying, Silent, StopSaid, Never
  <2> QED
    BY <1>0, <2>1, <2>2 DEF Reads
<1>5. CASE OnEnd \/ Exit
  <2>1. CASE toPlayer' = <<>> /\ Gone'
    BY <1>5, <2>1 DEF OnEnd, Exit, Reads
  <2>2. CASE ~(toPlayer' = <<>> /\ Gone')
    <3>1. toPlayer # <<>> /\ toPlayer' = Tail(toPlayer) /\ Head(toPlayer).type \in {"done", "close"} /\ ~Gone
          /\ stop' = stop /\ acked' = acked
      BY <1>5, <2>2 DEF OnEnd, Exit, Frame, Take, Leave, Gone
    <3> QED
      BY <1>0, <3>1 DEF Reads
  <2>3. Gone => Gone'
    BY <1>5 DEF OnEnd, Exit, Frame, Leave, Gone
  <2> QED
    BY <2>1, <2>2, <2>3
<1> QED
  BY <1>1, <1>2, <1>3, <1>4, <1>5 DEF Main

LEMMA SayingByReading ==
    ASSUME Base, Saying, WireTypes', UNCHANGED <<link, phase, stopMessage, stopped, stopper>>,
           Reads, Gone => Gone', faults \subseteq faults'
    PROVE  Saying'
<1>1. CASE toPlayer' = toPlayer /\ stop' = stop /\ acked' = acked
  BY <1>1 DEF Saying, Never, Connected, Live
<1>2. CASE toPlayer' = <<>> /\ Gone' /\ stop' = stop /\ acked' = acked
  <2>1. DOMAIN toPlayer' = {}
    BY <1>2, QueueShapesPrime
  <2> QED
    BY <1>2, <2>1 DEF Saying, Never
<1>3. CASE /\ toPlayer # <<>> /\ toPlayer' = Tail(toPlayer)
           /\ stop' = stop \/ (stop' /\ toPlayer[1].type = "stop")
           /\ acked' = acked \/ (acked' /\ toPlayer[1].type = "evidence")
           /\ toPlayer[1].type = "evidence" => acked'
  <2>0. /\ 1 \in DOMAIN toPlayer
        /\ \A i \in DOMAIN toPlayer' : /\ i + 1 \in DOMAIN toPlayer
                                       /\ toPlayer'[i] = toPlayer[i + 1]
        /\ \A i \in DOMAIN toPlayer : /\ i \in Nat
                                      /\ i # 1 => /\ i - 1 \in DOMAIN toPlayer'
                                                  /\ toPlayer'[i - 1] = toPlayer[i]
    BY <1>3, TailFrames
  <2>1. DOMAIN toPlayer \subseteq Nat /\ DOMAIN toPlayer' \subseteq Nat /\ \A i \in DOMAIN toPlayer : i >= 1
    BY QueueShapes, QueueShapesPrime
  <2>2. \A type : ~Never(type)' => ~Never(type)
    BY <2>0 DEF Never
  <2>3. acked => acked'
    BY <1>3
  <2>4. stop' \/ ~Never("stop")' => stopMessage'[Own]
    BY <1>3, <2>0, <2>2 DEF Saying, Never
  <2>5. acked' \/ ~Never("evidence")' => stopped'[Own]
    BY <1>3, <2>0, <2>2 DEF Saying, Never
  <2>6. stop' => Never("observation")'
    <3>1. CASE stop
      BY <2>2, <3>1 DEF Saying
    <3>2. CASE stop' /\ ~stop
      <4>1. toPlayer[1].type = "stop"
        BY <1>3, <3>2
      <4>2. \A j \in DOMAIN toPlayer : toPlayer[j].type = "observation" => j < 1
        BY <2>0, <4>1 DEF Saying
      <4> QED
        BY <2>0, <2>1, <4>2 DEF Never
    <3> QED
      BY <3>1, <3>2
  <2>7. ASSUME NEW i \in DOMAIN toPlayer', NEW j \in DOMAIN toPlayer',
               toPlayer'[i].type = "stop", toPlayer'[j].type = "observation"
        PROVE  j < i
    <3>1. j + 1 < i + 1
      BY <2>0, <2>7 DEF Saying
    <3> QED
      BY <2>1, <3>1
  <2>8. ~Gone' /\ Connected(Own)' /\ stopper'[Own] \in {"acking", "joined"} /\ stopMessage'[Own] =>
          acked' \/ ~Never("evidence")'
    <3>1. SUFFICES ASSUME ~Gone, Connected(Own), stopper[Own] \in {"acking", "joined"}, stopMessage[Own], ~acked'
                   PROVE  ~Never("evidence")'
      BY DEF Connected
    <3>2. PICK i \in DOMAIN toPlayer : toPlayer[i].type = "evidence"
      BY <2>3, <3>1 DEF Saying, Never
    <3>3. i # 1
      BY <1>3, <3>1, <3>2
    <3> QED
      BY <2>0, <3>2, <3>3 DEF Never
  <2>9. ASSUME NEW i \in DOMAIN toPlayer', toPlayer'[i].type \in {"done", "close"}, Connected(Own)', Live',
               ~acked', "unregistered" \notin faults'
        PROVE  \E j \in DOMAIN toPlayer' : j < i /\ toPlayer'[j].type = "evidence"
    <3>1. PICK j \in DOMAIN toPlayer : j < i + 1 /\ toPlayer[j].type = "evidence"
      BY <2>0, <2>3, <2>9 DEF Saying, Connected, Live
    <3>2. j # 1
      BY <1>3, <2>9, <3>1
    <3>3. j - 1 \in DOMAIN toPlayer' /\ toPlayer'[j - 1] = toPlayer[j] /\ j - 1 < i
      BY <2>0, <2>1, <3>1, <3>2
    <3> QED
      BY <3>1, <3>3
  <2> QED
    BY <2>4, <2>5, <2>6, <2>7, <2>8, <2>9 DEF Saying
<1> QED
  BY <1>1, <1>2, <1>3 DEF Reads

\* The snapshots are drained, and Stopped is the last word.
LEMMA EndingBySendStopped ==
    ASSUME Base, ReadersKnown, Ending, WireTypes', SendStopped
    PROVE  Silent' /\ StoppedIsLast'
<1>1. /\ main = "draining" /\ Drained /\ main' = "loop" /\ Send(Stopped)
      /\ UNCHANGED <<vars, stop, acked, worker, call, reader, writers>>
  BY DEF SendStopped
<1>2. stop /\ ~WorkerLive /\ ~CallLive /\ ~Gone
  BY <1>1 DEF Base, Places, Gone
<1>3. /\ \A i \in DOMAIN writers : writers[i].task # "running"
      /\ writers # <<>> => writers[Current].task = "done"
  BY <1>1 DEF ReadersKnown, DrainingInOrder, Drained
<1>4. \A a \in AttemptIds : reader[a] # "open"
  BY <1>1, <1>2, JoinedIsNoneOpen DEF ReadersKnown, DrainingInOrder
<1>5. Silent'
  BY <1>1, <1>2, <1>3, <1>4 DEF Silent, WorkerLive, CallLive, Current
<1>6. ~stopped[Own] /\ ~stopped'[Own] /\ \A i \in DOMAIN toServer : toServer[i] # Stopped
  <2>1. ~StopSaid
    BY <1>1 DEF Ending, Silent
  <2>2. stopped' = stopped
    BY <1>1 DEF vars, stopVars
  <2> QED
    BY <2>1, <2>2 DEF StopSaid, StopOnItsWay
<1>7. Longer(toServer, toServer', Stopped) \/ toServer' = toServer
  BY <1>1, BaseShape, SendFacts, ServerFrames
<1>8. \A i \in DOMAIN toServer' : toServer'[i] = Stopped => i = Len(toServer')
  <2>1. CASE toServer' = toServer
    BY <1>6, <2>1
  <2>2. CASE Longer(toServer, toServer', Stopped)
    <3>1. DOMAIN toServer = 1..Len(toServer) /\ Len(toServer) \in Nat /\ DOMAIN toServer' = 1..Len(toServer')
      BY QueueShapes, QueueShapesPrime
    <3>2. Len(toServer') = Len(toServer) + 1 /\ \A i \in 1..Len(toServer) : toServer'[i] = toServer[i]
      BY <2>2 DEF Longer
    <3> QED
      BY <1>6, <3>1, <3>2
  <2> QED
    BY <1>7, <2>1, <2>2
<1>9. StoppedIsLast'
  BY <1>6, <1>8, Zenon DEF StoppedIsLast
<1> QED
  BY <1>5, <1>9

\* A process that has said Stopped does nothing but read and leave.
LEMMA SilentByMain ==
    ASSUME Base, Greeting, Ending, StopSaid, Main
    PROVE  /\ Silent' /\ toServer' = toServer /\ UNCHANGED vars
           /\ ~GiveUp \/ OnEnd \/ WorkerFailed
<1>0. /\ stop
      /\ main \in {"loop", "closing", "flushing", "done", "failed"}
      /\ ~WorkerLive /\ ~CallLive
      /\ \A i \in DOMAIN writers : writers[i].task # "running"
      /\ writers # <<>> => writers[Current].task = "done"
      /\ \A a \in AttemptIds : reader[a] # "open"
      /\ Never("observation")
  BY DEF Ending, Silent, Saying
<1>1. /\ toPlayer # <<>> => Head(toPlayer) = toPlayer[1] /\ 1 \in DOMAIN toPlayer
      /\ writers \in Seq(Writer)
  BY QueueShapes, BaseShape
<1>2. ~Join /\ ~NeverJoins /\ ~OnObservation /\ ~PreviousJoined /\ ~OwnersStopped /\ ~SendStopped /\ ~DrainStuck
  BY <1>0, <1>1 DEF Join, NeverJoins, OnObservation, PreviousJoined, OwnersStopped, SendStopped, DrainStuck,
     Frame, Never
<1>3. ~OnWelcome
  BY <1>0, <1>1 DEF OnWelcome, Frame, Greeting, Welcoming
<1>4. toServer' = toServer /\ UNCHANGED vars
  BY <1>2, <1>3, MainQueues
<1>5. ASSUME UNCHANGED <<stop, worker, call, reader, writers>>,
             main' \in {"loop", "closing", "flushing", "done", "failed"}
      PROVE  Silent'
  BY <1>0, <1>5 DEF Silent, WorkerLive, CallLive, Current
<1>6. CASE OnStop \/ OnEvidence
  <2>1. UNCHANGED <<stop, worker, call, reader, writers>> /\ main' = main
    BY <1>0, <1>6 DEF OnStop, OnEvidence
  <2>2. ~GiveUp
    BY <1>6, <2>1 DEF GiveUp, OnStop, OnEvidence, Frame
  <2> QED
    BY <1>0, <1>4, <1>5, <2>1, <2>2
<1>7. ASSUME NEW how \in {"done", "failed"}, Leave(how), UNCHANGED <<stop, reader>>
      PROVE  Silent' /\ ~GiveUp
  BY <1>0, <1>7 DEF Leave, NoCall, Silent, WorkerLive, CallLive, GiveUp
<1>8. ASSUME GiveUp, UNCHANGED <<stop, reader>>
      PROVE  Silent'
  BY <1>0, <1>5, <1>8 DEF GiveUp, CancelWorker
<1>9. CASE OnEnd \/ WorkerFailed \/ Exit
  BY <1>4, <1>7, <1>8, <1>9 DEF OnEnd, WorkerFailed, Exit
<1>10. CASE Flush
  <2>1. /\ UNCHANGED <<stop, worker, call, reader>> /\ main' = "flushing"
        /\ writers' \in {writers, Sealed(writers)}
    BY <1>10 DEF Flush
  <2>2. CASE writers' = Sealed(writers) /\ writers # <<>>
    <3>1. Quieter(writers, writers')
      BY <1>1, <2>2, SealedFacts
    <3>2. /\ DOMAIN writers' = 1..Len(writers) /\ DOMAIN writers = 1..Len(writers)
          /\ Len(writers') = Len(writers) /\ Len(writers) \in 1..Len(writers)
      BY <1>1, <2>2, <3>1, QuieterShape
    <3>3. /\ DOMAIN writers' = DOMAIN writers /\ Len(writers') = Len(writers)
          /\ \A i \in DOMAIN writers : writers'[i].task = writers[i].task
          /\ Len(writers) \in DOMAIN writers
      BY <1>0, <3>1, <3>2 DEF Quieter
    <3>4. ~GiveUp
      BY <1>10, <2>1 DEF GiveUp, Flush
    <3> QED
      BY <1>0, <1>4, <2>1, <2>2, <3>3, <3>4 DEF Silent, WorkerLive, CallLive, Current
  <2>3. CASE writers' = writers
    BY <1>0, <1>4, <1>5, <2>1, <2>3 DEF GiveUp
  <2> QED
    BY <2>1, <2>2, <2>3 DEF Sealed
<1> QED
  BY <1>2, <1>3, <1>6, <1>9, <1>10 DEF Main

LEMMA EndingByMain ==
    ASSUME Base, ReadersKnown, Greeting, Ending, Main
    PROVE  Ending'
<1>0. WireTypes' /\ faults \subseteq faults'
  BY MainQueues
<1>1. CASE Join
  <2>1. /\ UNCHANGED <<registered, stopMessage, stopped, stopper, stop, acked, toServer>>
        /\ main = "connecting"
    BY <1>1 DEF Join, Connect, stopVars
  <2>2. toPlayer = <<>> /\ toServer = <<>> /\ ~stop /\ ~acked /\ ~everConnected[Own] /\ ~registered[Own]
    BY <2>1 DEF Base, Places
  <2>3. ~stopMessage[Own] /\ ~stopped[Own] /\ DOMAIN toServer = {}
    BY <2>2, QueueShapes DEF Greeting, Linked, Registering
  <2>4. Longer(toPlayer, toPlayer', Plain("welcome"))
    BY <1>1, <2>1, BaseShape, TellFacts, PlayerFrames DEF Join, Gone
  <2>5. \A i \in DOMAIN toPlayer' : toPlayer'[i].type = "welcome"
    BY <1>0, <2>2, <2>4, QueueShapes, QueueShapesPrime DEF Longer, Plain
  <2>6. Saying'
    BY <2>1, <2>2, <2>3, <2>5 DEF Saying, Never
  <2> QED
    BY <2>1, <2>3, <2>6 DEF Ending, Silent, StoppedIsLast, StopSaid, StopOnItsWay
<1>2. CASE ~Join
  <2>1. UNCHANGED <<link, phase, stopMessage, stopped, stopper>>
    BY <1>2, MainQueues DEF vars, engineVars, linkVars, stopVars
  <2>2. Saying'
    BY <1>0, <1>2, <2>1, MainReads, SayingByReading DEF Ending
  <2>3. CASE StopSaid
    <3>1. Silent' /\ toServer' = toServer
      BY <2>3, SilentByMain
    <3> QED
      BY <2>1, <2>2, <3>1 DEF Ending, StoppedIsLast
  <2>4. CASE SendStopped
    BY <1>0, <2>2, <2>4, EndingBySendStopped DEF Ending
  <2>5. CASE ~StopSaid /\ ~SendStopped
    <3>1. ~stopped'[Own]
      BY <2>1, <2>5 DEF StopSaid
    <3>2. \A i \in DOMAIN toServer' : toServer'[i] # Stopped
      <4>1. CASE toServer' = toServer
        BY <2>5, <4>1 DEF StopSaid, StopOnItsWay
      <4>2. CASE toServer' # toServer
        <5>1. Send(Ready)
          BY <2>5, <4>2, MainQueues
        <5>2. Longer(toServer, toServer', Ready)
          BY <4>2, <5>1, BaseShape, SendFacts, ServerFrames
        <5>3. Ready # Stopped
          BY DEF Ready, Stopped, Plain
        <5> QED
          BY <1>0, <2>5, <5>2, <5>3, QueueShapes, QueueShapesPrime DEF Longer, StopSaid, StopOnItsWay
      <4> QED
        BY <4>1, <4>2
    <3> QED
      BY <2>2, <3>1, <3>2 DEF Ending, Silent, StoppedIsLast, StopSaid, StopOnItsWay
  <2> QED
    BY <2>3, <2>4, <2>5
<1> QED
  BY <1>1, <1>2

\* The server cannot make the player say anything.
LEMMA SilentByServer ==
    ASSUME Base, Typed, Ending, WireTypes', ServerStep
    PROVE  Silent' /\ StoppedIsLast'
<1>0. SessionTypeOK
  BY BaseShape
<1>1. UNCHANGED playerVars
  BY <1>0, ServerQueues
<1>2. CASE Receive
  <2>1. /\ toServer # <<>> /\ toServer' = Tail(toServer)
        /\ \/ UNCHANGED stopped
           \/ Head(toServer).type = "stopped" /\ stopped'[Own]
    BY <1>0, <1>2, ReceiveSeat
  <2>2. /\ Shorter(toServer, toServer') /\ 1 \in DOMAIN toServer /\ Head(toServer) = toServer[1]
        /\ DOMAIN toServer = 1..Len(toServer) /\ Len(toServer) \in Nat /\ DOMAIN toServer' = 1..Len(toServer')
        /\ toServer' = <<>> <=> Len(toServer') = 0
        /\ toServer[1] \in ToServer
    BY <2>1, QueueShapes, QueueShapesPrime
  <2>3. /\ \A i \in DOMAIN toServer' : i + 1 \in DOMAIN toServer /\ toServer'[i] = toServer[i + 1]
        /\ Len(toServer') = Len(toServer) - 1
    BY <2>2 DEF Shorter
  <2>4. ~stopped[Own]
    BY <2>1 DEF Ending, StoppedIsLast
  <2>5. stopped'[Own] => toServer[1] = Stopped
    BY <2>1, <2>2, <2>4, ServerFrames
  <2>6. StoppedIsLast'
    <3>1. \A i \in DOMAIN toServer' : toServer'[i] = Stopped => i = Len(toServer')
      BY <2>2, <2>3 DEF Ending, StoppedIsLast
    <3>2. stopped'[Own] => toServer' = <<>>
      BY <2>2, <2>3, <2>5 DEF Ending, StoppedIsLast
    <3> QED
      BY <3>1, <3>2 DEF StoppedIsLast
  <2>7. StopSaid' => StopSaid
    BY <2>2, <2>3, <2>4, <2>5 DEF StopSaid, StopOnItsWay
  <2> QED
    BY <1>1, <2>6, <2>7 DEF Ending, Silent, playerVars, WorkerLive, CallLive, Current
<1>3. CASE ~Receive
  <2>1. stopped' = stopped /\ toServer' \in {toServer, <<>>}
    <3>1. Closing \/ Observe \/ TellStop \/ Otherwise
      BY <1>3, ServerStepKinds
    <3>2. TypeOK
      BY DEF Base
    <3>3. CASE Closing
      BY <3>2, <3>3, ClosingSeat
    <3>4. CASE Observe \/ TellStop \/ Otherwise
      BY <1>0, <3>4, ObserveSeat, TellStopSeat, OtherwiseSeat
    <3> QED
      BY <3>1, <3>3, <3>4
  <2>2. toServer' = <<>> => DOMAIN toServer' = {}
    BY QueueShapesPrime
  <2>3. StopSaid' => StopSaid
    BY <2>1, <2>2 DEF StopSaid, StopOnItsWay
  <2>4. StoppedIsLast'
    BY <2>1, <2>2 DEF Ending, StoppedIsLast
  <2> QED
    BY <1>1, <2>3, <2>4 DEF Ending, Silent, playerVars, WorkerLive, CallLive, Current
<1> QED
  BY <1>2, <1>3

\* Where the frames of the player are after a step of the server.
LEMMA GrownFrames ==
    ASSUME Base, WireTypes', NEW types, Grown(types)
    PROVE  /\ \A i \in DOMAIN toPlayer : i \in DOMAIN toPlayer' /\ toPlayer'[i] = toPlayer[i] /\ i \in Nat
           /\ \A i \in DOMAIN toPlayer' : i \notin DOMAIN toPlayer =>
                 /\ toPlayer'[i].type \in types /\ ~Gone /\ i \in Nat
                 /\ \A j \in DOMAIN toPlayer : j < i
<1>1. /\ Len(toPlayer) <= Len(toPlayer')
      /\ \A i \in 1..Len(toPlayer) : toPlayer'[i] = toPlayer[i]
      /\ \A i \in 1..Len(toPlayer') : i > Len(toPlayer) => ~Gone /\ toPlayer'[i].type \in types
  BY DEF Grown
<1>2. /\ DOMAIN toPlayer = 1..Len(toPlayer) /\ Len(toPlayer) \in Nat
      /\ DOMAIN toPlayer' = 1..Len(toPlayer') /\ Len(toPlayer') \in Nat
  BY QueueShapes, QueueShapesPrime
<1> QED
  BY <1>1, <1>2

\* What the server may tell the player, and when.
LEMMA SayingByTelling ==
    ASSUME Base, Saying, WireTypes', UNCHANGED <<main, stop, acked>>,
           NEW types, Grown(types),
           "stop" \notin types \/ "observation" \notin types,
           stopMessage[Own] => stopMessage'[Own] /\ "observation" \notin types,
           stopped[Own] => stopped'[Own],
           "stop" \in types => stopMessage'[Own],
           "evidence" \in types => stopped'[Own],
           Connected(Own)' => Connected(Own), Live' => Live, faults \subseteq faults',
           ~Gone /\ Connected(Own)' /\ stopper'[Own] \in {"acking", "joined"} /\ stopMessage'[Own] =>
               acked \/ ~Never("evidence")',
           Connected(Own)' /\ Live' /\ types \cap {"done", "close"} # {} =>
               acked \/ "unregistered" \in faults \/ ~Never("evidence")
    PROVE  Saying'
<1>0. /\ \A i \in DOMAIN toPlayer : i \in DOMAIN toPlayer' /\ toPlayer'[i] = toPlayer[i] /\ i \in Nat
      /\ \A i \in DOMAIN toPlayer' : i \notin DOMAIN toPlayer =>
            /\ toPlayer'[i].type \in types /\ ~Gone /\ i \in Nat
            /\ \A j \in DOMAIN toPlayer : j < i
  BY GrownFrames
<1>1. \A type : ~Never(type)' => ~Never(type) \/ type \in types
  BY <1>0 DEF Never
<1>2. stop' \/ ~Never("stop")' => stopMessage'[Own]
  BY <1>1 DEF Saying
<1>3. acked' \/ ~Never("evidence")' => stopped'[Own]
  BY <1>1 DEF Saying
<1>4. stop' => Never("observation")'
  BY <1>1 DEF Saying
<1>5. ASSUME NEW i \in DOMAIN toPlayer', NEW j \in DOMAIN toPlayer',
             toPlayer'[i].type = "stop", toPlayer'[j].type = "observation"
      PROVE  j < i
  <2>1. CASE i \in DOMAIN toPlayer
    <3>1. stopMessage[Own]
      BY <1>0, <1>5, <2>1 DEF Saying, Never
    <3>2. j \in DOMAIN toPlayer
      BY <1>0, <1>5, <3>1
    <3> QED
      BY <1>0, <1>5, <2>1, <3>2 DEF Saying
  <2>2. CASE i \notin DOMAIN toPlayer
    <3>1. "stop" \in types /\ \A k \in DOMAIN toPlayer : k < i
      BY <1>0, <1>5, <2>2
    <3>2. j \in DOMAIN toPlayer
      BY <1>0, <1>5, <3>1
    <3> QED
      BY <3>1, <3>2
  <2> QED
    BY <2>1, <2>2
<1>6. ASSUME NEW i \in DOMAIN toPlayer', toPlayer'[i].type \in {"done", "close"}, Connected(Own)', Live',
             ~acked', "unregistered" \notin faults'
      PROVE  \E j \in DOMAIN toPlayer' : j < i /\ toPlayer'[j].type = "evidence"
  <2>1. CASE i \in DOMAIN toPlayer
    <3>1. PICK j \in DOMAIN toPlayer : j < i /\ toPlayer[j].type = "evidence"
      BY <1>0, <1>6, <2>1 DEF Saying
    <3> QED
      BY <1>0, <3>1
  <2>2. CASE i \notin DOMAIN toPlayer
    <3>1. types \cap {"done", "close"} # {} /\ \A k \in DOMAIN toPlayer : k < i
      BY <1>0, <1>6, <2>2
    <3>2. PICK j \in DOMAIN toPlayer : toPlayer[j].type = "evidence"
      BY <1>6, <3>1 DEF Never
    <3> QED
      BY <1>0, <3>1, <3>2
  <2> QED
    BY <2>1, <2>2
<1>7. ~Gone' /\ Connected(Own)' /\ stopper'[Own] \in {"acking", "joined"} /\ stopMessage'[Own] =>
        acked' \/ ~Never("evidence")'
  BY DEF Gone
<1> QED
  BY <1>2, <1>3, <1>4, <1>5, <1>6, <1>7 DEF Saying

LEMMA SayingByServer ==
    ASSUME SessionBase, Greeting, Ending, WireTypes', ServerStep
    PROVE  Saying'
<1>0. /\ SessionTypeOK /\ Typed /\ Base /\ Saying /\ StopInOrder(Own)
      /\ faults \subseteq faults'
      /\ UNCHANGED playerVars
  <2>1. Base /\ Typed /\ SessionTypeOK
    BY BaseShape DEF SessionBase, Inv
  <2>2. StopInOrder(Own)
    BY OwnSeat DEF SessionBase, StopInv
  <2> QED
    BY <2>1, <2>2, ServerQueues, FaultsStay DEF Ending, SessionNext, ServerStep
<1>1. CASE Receive
  <2>1. /\ UNCHANGED <<phase, link, stopMessage, stopper, toPlayer>>
        /\ stopped[Own] => stopped'[Own]
    BY <1>0, <1>1, ReceiveSeat
  <2>2. Grown({})
    BY <1>0, <2>1, GrownSame
  <2>3. Connected(Own)' = Connected(Own) /\ Live' = Live /\ Never("evidence")' = Never("evidence")
    BY <2>1 DEF Connected, Live, Never
  <2> QED
    BY <1>0, <2>1, <2>2, <2>3, SayingByTelling DEF playerVars, Saying
<1>2. CASE Closing
  <2>1. /\ link'[Own] = "down" /\ UNCHANGED <<stopMessage, stopped>>
    BY <1>0, <1>2, ClosingSeat DEF Base
  <2>2. \A i \in DOMAIN toPlayer' :
           \/ i \in DOMAIN toPlayer /\ toPlayer'[i] = toPlayer[i]
           \/ toPlayer'[i].type = "close"
    <3>1. CASE Refuse \/ Hangup \/ Shutdown
      <4>1. Grown({"close"})
        BY <1>0, <3>1, ServerGrows DEF Grown
      <4> QED
        BY <1>0, <4>1, GrownFrames
    <3>2. CASE Drop
      <4>1. PICK n \in Received..Len(toPlayer) : Cut(toPlayer, toPlayer', n, Close)
        BY <1>0, <3>2, DropFacts
      <4>2. n \in Int /\ n >= 0 /\ n <= Len(toPlayer)
        BY <1>0, <4>1, QueueShapes DEF Received
      <4>3. Close.type = "close"
        BY DEF Close, Plain
      <4> QED
        BY <1>0, <4>1, <4>2, <4>3, QueueShapes, QueueShapesPrime DEF Cut
    <3> QED
      BY <1>2, <3>1, <3>2 DEF Closing
  <2>3. \A type : type # "close" /\ ~Never(type)' => ~Never(type)
    BY <2>2 DEF Never
  <2>4. \A i, j \in DOMAIN toPlayer' :
           toPlayer'[i].type = "stop" /\ toPlayer'[j].type = "observation" => j < i
    BY <2>2 DEF Saying, Ending
  <2> QED
    BY <1>0, <2>1, <2>3, <2>4 DEF Saying, Connected, playerVars
<1>3. CASE Observe
  <2>1. /\ UNCHANGED <<phase, link, stopMessage, stopped, stopper>> /\ phase = "asking"
    BY <1>0, <1>3, ObserveSeat
  <2>2. ~stopMessage[Own] /\ Grown({"observation"})
    BY <1>0, <1>3, <2>1, ServerGrows DEF StopInOrder
  <2> QED
    BY <1>0, <2>1, <2>2, SayingByTelling DEF playerVars, Connected, Live
<1>4. CASE TellStop
  <2>1. /\ UNCHANGED <<phase, link, stopped>> /\ stopper[Own] = "idle"
        /\ \/ ~everConnected[Own] /\ stopMessage' = stopMessage
           \/ stopMessage'[Own] /\ stopper'[Own] \in {"sending", "awaiting"}
    BY <1>0, <1>4, TellStopSeat
  <2>2. ~stopMessage[Own] /\ Grown({"stop"})
    BY <1>0, <1>4, <2>1, ServerGrows DEF StopInOrder
  <2>3. ~everConnected[Own] => Grown({})
    <3>1. ~everConnected[Own] => toPlayer' = toPlayer
      BY <1>0, <1>4, ServerTells DEF Greeting, Linked, Connected
    <3> QED
      BY <1>0, <3>1, GrownSame
  <2>4. CASE ~everConnected[Own] /\ stopMessage' = stopMessage
    BY <1>0, <2>1, <2>2, <2>3, <2>4, SayingByTelling DEF playerVars, Connected, Live
  <2>5. CASE stopMessage'[Own] /\ stopper'[Own] \in {"sending", "awaiting"}
    BY <1>0, <2>1, <2>2, <2>5, SayingByTelling DEF playerVars, Connected, Live
  <2> QED
    BY <2>1, <2>4, <2>5
<1>5. CASE TellEvidence
  <2>1. /\ UNCHANGED <<phase, link, stopMessage, stopped>> /\ stopped[Own]
        /\ stopper'[Own] \in {"unjoined", "acking", "crashed"}
    BY <1>0, <1>5, OwnSeat DEF TellEvidence, StopAcknowledged, Stopper, engineVars, linkVars, SessionTypeOK, TypeOK
  <2>2. Grown({"evidence"})
    BY <1>0, <1>5, ServerGrows
  <2>3. ~Gone /\ stopper'[Own] = "acking" => ~Never("evidence")'
    <3>1. SUFFICES ASSUME ~Gone, stopper'[Own] = "acking" PROVE ~Never("evidence")'
      OBVIOUS
    <3>2. Longer(toPlayer, toPlayer', Plain("evidence"))
      BY <1>0, <1>5, <3>1, ServerTells
    <3>3. Len(toPlayer) + 1 \in DOMAIN toPlayer' /\ toPlayer'[Len(toPlayer) + 1].type = "evidence"
      BY <1>0, <3>2, QueueShapes, QueueShapesPrime DEF Longer, Plain
    <3> QED
      BY <3>3 DEF Never
  <2> QED
    BY <1>0, <2>1, <2>2, <2>3, SayingByTelling DEF playerVars, Connected, Live
<1>6. CASE TellDone
  <2>1. /\ UNCHANGED <<link, stopMessage, stopped, stopper>> /\ stopper[Own] = "joined" /\ phase = "stopping"
    BY <1>6, OwnSeat DEF TellDone, Publish, linkVars, stopVars, OwnersJoined
  <2>2. Grown({"done", "close"})
    BY <1>0, <1>6, ServerGrows
  <2>3. sealed[Own]
    BY <1>0, <2>1 DEF StopInOrder
  <2>4. ~stopMessage[Own] => "unregistered" \in faults
    BY <2>3 DEF Greeting, Registering
  <2>5. ~Gone /\ Connected(Own) /\ stopMessage[Own] => acked \/ ~Never("evidence")
    BY <1>0, <2>1 DEF Saying
  <2>6. Connected(Own)' = Connected(Own) /\ Live
    BY <2>1 DEF Connected, Live
  <2>7. CASE Gone
    <3>1. toPlayer' = toPlayer
      BY <1>0, <2>7, ServerQueues
    <3>2. Grown({})
      BY <1>0, <3>1, GrownSame
    <3> QED
      BY <1>0, <2>1, <2>6, <2>7, <3>2, SayingByTelling DEF playerVars
  <2>8. CASE ~Gone
    <3>1. ~Never("evidence") => ~Never("evidence")'
      BY <1>0, <2>2, GrownFrames DEF Never
    <3> QED
      BY <1>0, <2>1, <2>2, <2>4, <2>5, <2>6, <2>8, <3>1, SayingByTelling DEF playerVars
  <2> QED
    BY <2>7, <2>8
<1>7. CASE Fail
  <2>1. UNCHANGED <<link, stopMessage, stopped, stopper>> /\ phase # "failed"
    BY <1>7 DEF Fail, Withhold, Signal, linkVars, stopVars, Over
  <2>2. Grown({"close"})
    BY <1>0, <1>7, ServerGrows
  <2>3. phase' # "failed" => Grown({})
    BY <1>0, <1>7, ServerTells, GrownSame
  <2>4. ~Never("evidence") => ~Never("evidence")'
    BY <1>0, <2>2, GrownFrames DEF Never
  <2>5. Connected(Own)' = Connected(Own) /\ (Live' <=> phase' # "failed")
    BY <2>1 DEF Connected, Live
  <2>6. ~Gone /\ Connected(Own) /\ stopper[Own] \in {"acking", "joined"} /\ stopMessage[Own] =>
          acked \/ ~Never("evidence")
    BY <1>0 DEF Saying
  <2>7. CASE phase' # "failed"
    BY <1>0, <2>1, <2>3, <2>4, <2>5, <2>6, <2>7, SayingByTelling DEF playerVars, Live
  <2>8. CASE phase' = "failed"
    BY <1>0, <2>1, <2>2, <2>4, <2>5, <2>6, <2>8, SayingByTelling DEF playerVars
  <2> QED
    BY <2>7, <2>8
<1>8. CASE Welcomed
  <2>1. /\ UNCHANGED <<phase, stopMessage, stopped, stopper>>
        /\ Connected(Own)
    BY <1>8 DEF Welcomed, Greet, engineVars, stopVars, Connected
  <2>2. \E types : /\ Grown(types)
                   /\ types = {} \/ (types = {"stop"} /\ stopMessage[Own])
                      \/ (types = {"observation"} /\ ~stopMessage[Own])
    <3>1. toPlayer' \in Seq(ToPlayer)
          /\ \/ toPlayer' = toPlayer
             \/ ~Gone /\ stopMessage[Own] /\ Longer(toPlayer, toPlayer', Plain("stop"))
             \/ /\ ~Gone /\ ~stopMessage[Own] /\ pending[Own] \in Windows
                /\ Longer(toPlayer, toPlayer', Observed(pending[Own]))
      BY <1>0, <1>8, ServerTells
    <3>2. CASE toPlayer' = toPlayer
      BY <1>0, <3>2, GrownSame
    <3>3. CASE ~Gone /\ stopMessage[Own] /\ Longer(toPlayer, toPlayer', Plain("stop"))
      <4>1. Plain("stop").type \in {"stop"}
        BY DEF Plain
      <4>2. Grown({"stop"})
        BY <1>0, <3>1, <3>3, <4>1, GrownOne DEF OneMore
      <4> QED
        BY <3>3, <4>2
    <3>4. CASE ~Gone /\ ~stopMessage[Own] /\ Longer(toPlayer, toPlayer', Observed(pending[Own]))
      <4>1. Observed(pending[Own]).type \in {"observation"}
        BY DEF Observed
      <4>2. Grown({"observation"})
        BY <1>0, <3>1, <3>4, <4>1, GrownOne DEF OneMore
      <4> QED
        BY <3>4, <4>2
    <3> QED
      BY <3>1, <3>2, <3>3, <3>4
  <2>3. PICK types : /\ Grown(types)
                     /\ types = {} \/ (types = {"stop"} /\ stopMessage[Own])
                        \/ (types = {"observation"} /\ ~stopMessage[Own])
    BY <2>2
  <2>4. ~Never("evidence") => ~Never("evidence")'
    BY <1>0, <2>3, GrownFrames DEF Never
  <2>5. /\ "stop" \notin types \/ "observation" \notin types
        /\ stopMessage[Own] => "observation" \notin types
        /\ "stop" \in types => stopMessage[Own]
        /\ "evidence" \notin types /\ types \cap {"done", "close"} = {}
    BY <2>3
  <2>6. ~Gone /\ Connected(Own) /\ stopper[Own] \in {"acking", "joined"} /\ stopMessage[Own] =>
          acked \/ ~Never("evidence")
    BY <1>0 DEF Saying
  <2> QED
    BY <1>0, <2>1, <2>3, <2>4, <2>5, <2>6, SayingByTelling DEF playerVars, Live
<1>9. CASE Unheard \/ Quiet \/ Ended
  <2>1. /\ UNCHANGED <<stopMessage, stopped, toPlayer>>
        /\ phase = "failed" => phase' = "failed"
        /\ link' = link
        /\ stopper'[Own] \in {"acking", "joined"} => stopper[Own] \in {"acking", "joined"}
    <3>1. /\ UNCHANGED <<stopMessage, stopped>>
          /\ phase = "failed" => phase' = "failed"
      BY <1>0, <1>9, OtherwiseSeat DEF Otherwise
    <3>2. CASE Unheard
      BY <3>1, <3>2 DEF Unheard, SendFailed, TimedOut, Cancelled, Return, linkVars, stopVars
    <3>3. CASE Quiet
      BY <1>0, <3>1, <3>3, OwnSeat DEF Quiet, wireVars, Sent, Expire, Answered, Return, StopSent, EvidenceSent,
         StopOverdue, Stopper, Engine, BeginHole, RetryBatch, Install, HoleScored, SandboxFault, EngineRaises,
         EndRun, CallsCancelled, linkVars, stopVars, SessionTypeOK, TypeOK
    <3>4. CASE Ended
      BY <3>4 DEF Ended, sessionVars, wireVars, vars, engineVars, linkVars, stopVars
    <3> QED
      BY <1>9, <3>2, <3>3, <3>4
  <2>2. Grown({})
    BY <1>0, <2>1, GrownSame
  <2>3. Connected(Own)' = Connected(Own) /\ (Live' => Live) /\ Never("evidence")' = Never("evidence")
    BY <2>1 DEF Connected, Live, Never
  <2>4. ~Gone /\ Connected(Own) /\ stopper[Own] \in {"acking", "joined"} /\ stopMessage[Own] =>
          acked \/ ~Never("evidence")
    BY <1>0 DEF Saying
  <2> QED
    BY <1>0, <2>1, <2>2, <2>3, <2>4, SayingByTelling DEF playerVars
<1> QED
  BY <1>1, <1>2, <1>3, <1>4, <1>5, <1>6, <1>7, <1>8, <1>9 DEF ServerStep, Server, Closing

LEMMA EndingInit == SessionInit => Ending
<1> SUFFICES ASSUME SessionInit PROVE Ending
  OBVIOUS
<1>1. /\ toPlayer = <<>> /\ toServer = <<>> /\ DOMAIN toPlayer = {} /\ DOMAIN toServer = {}
      /\ ~stop /\ ~acked
  BY EmptySeq DEF SessionInit
<1>2. ~stopped[Own] /\ ~stopMessage[Own]
  BY OwnSeat DEF SessionInit, Init
<1> QED
  BY <1>1, <1>2 DEF Ending, Saying, Silent, StoppedIsLast, StopSaid, StopOnItsWay, Never

LEMMA EndingNext ==
    SessionBase /\ ReadersKnown /\ Greeting /\ Ending /\ [SessionNext]_sessionVars => Ending'
<1> SUFFICES ASSUME SessionBase, ReadersKnown, Greeting, Ending, [SessionNext]_sessionVars PROVE Ending'
  OBVIOUS
<1>1. Base /\ Typed /\ WireTypes'
  BY BaseNext DEF SessionBase, Base, Inv
<1>2. CASE UNCHANGED sessionVars
  <2>1. UNCHANGED <<link, phase, stopMessage, stopped, stopper, playerVars, wireVars>>
    BY <1>2 DEF sessionVars, vars, engineVars, linkVars, stopVars
  <2>2. Saying'
    BY <2>1 DEF Ending, Saying, Never, Gone, Connected, Live, playerVars, wireVars
  <2>3. Silent' /\ StoppedIsLast'
    BY <2>1 DEF Ending, Silent, StoppedIsLast, StopSaid, StopOnItsWay, playerVars, wireVars, WorkerLive,
       CallLive, Current
  <2> QED
    BY <2>2, <2>3 DEF Ending
<1>3. CASE ServerStep
  BY <1>1, <1>3, SayingByServer, SilentByServer DEF Ending
<1> QED
  BY <1>1, <1>2, <1>3, EndingByTask, EndingByMain DEF SessionNext, TaskStep, ServerStep

--------------------------------------------------------------------------------
(***************************************************************************)
(* What the player gives up on.                                            *)
(***************************************************************************)
LEMMA GivingUpByMain ==
    ASSUME Base, ReadersKnown, Greeting, Ending, GivesUpOnlyOnFault, Main
    PROVE  GivesUpOnlyOnFault'
<1>0. /\ faults \subseteq faults'
      /\ toPlayer # <<>> => Head(toPlayer) = toPlayer[1] /\ 1 \in DOMAIN toPlayer
      /\ \A i \in DOMAIN toPlayer : i \in Nat /\ i >= 1
      /\ CallLive => WorkerLive
      /\ OpenReaders /\ FailedWorker
  BY MainQueues, QueueShapes DEF Base, Tasks, WorkerLive, ReadersKnown
<1> SUFFICES ASSUME main' \in {"closing", "flushing"}, Connected(Own)', Live'
             PROVE  faults' \ {"signal"} # {}
  BY DEF GivesUpOnlyOnFault, GaveUp
<1>1. ~Join /\ Connected(Own) /\ Live
  <2>1. ~Join
    BY DEF Join
  <2>2. UNCHANGED <<link, phase>>
    BY <2>1, MainQueues DEF vars, engineVars, linkVars
  <2> QED
    BY <2>1, <2>2 DEF Connected, Live
<1>2. CASE ~CallLive /\ ~PlayerReadersJoined
  <2>1. faults \cap ReaderFaults # {}
    BY <1>0, <1>2, UnjoinedIsFault
  <2> QED
    BY <1>0, <2>1 DEF ReaderFaults
<1>3. CASE worker = "failed"
  BY <1>0, <1>3 DEF FailedWorker
<1>4. CASE main \in {"closing", "flushing"}
  BY <1>0, <1>1, <1>4 DEF GivesUpOnlyOnFault, GaveUp
<1>5. CASE DrainStuck
  BY <1>5 DEF DrainStuck, Fault
<1>6. CASE OnObservation
  <2>1. Head(toPlayer).type = "observation" /\ toPlayer # <<>> /\ (stop \/ (~PlayerReadersJoined /\ ~WorkerLive))
    BY <1>6 DEF OnObservation, Frame, GiveUp, StartWorker
  <2>2. ~stop
    BY <1>0, <2>1 DEF Ending, Saying, Never
  <2> QED
    BY <1>0, <1>2, <2>1, <2>2
<1>7. CASE PreviousJoined \/ OwnersStopped \/ WorkerFailed
  <2>1. worker = "failed" \/ (~WorkerLive /\ ~PlayerReadersJoined)
    BY <1>7 DEF PreviousJoined, OwnersStopped, WorkerFailed, StartWorker
  <2> QED
    BY <1>0, <1>2, <1>3, <2>1
<1>8. CASE OnEnd
  <2>1. toPlayer # <<>> /\ Head(toPlayer).type \in {"done", "close"} /\ ~acked
    BY <1>8 DEF OnEnd, Frame, Leave
  <2>2. "unregistered" \in faults \/ \E j \in DOMAIN toPlayer : j < 1
    BY <1>0, <1>1, <2>1 DEF Ending, Saying
  <2> QED
    BY <1>0, <2>2
<1>9. CASE OnEvidence
  <2>1. toPlayer # <<>> /\ Head(toPlayer).type = "evidence" /\ ~stop
    BY <1>9 DEF OnEvidence, Frame, GiveUp
  <2> QED
    BY <1>0, <2>1 DEF Ending, Saying, Silent, StopSaid, Never
<1>10. ASSUME OnWelcome \/ OnStop \/ SendStopped \/ Flush \/ Exit \/ NeverJoins
       PROVE  main \in {"closing", "flushing"}
  BY <1>10 DEF OnWelcome, OnStop, SendStopped, Flush, Exit, NeverJoins, Leave, Frame, playerVars
<1> QED
  BY <1>1, <1>4, <1>5, <1>6, <1>7, <1>8, <1>9, <1>10 DEF Main

\* The server opens no connection, and a process that has failed stays so.
LEMMA ConnectionStays ==
    ASSUME SessionTypeOK, Typed, ServerStep
    PROVE  (Connected(Own)' => Connected(Own)) /\ (Live' => Live) /\ UNCHANGED playerVars
<1>0. TypeOK
  BY DEF Typed
<1>1. link'[Own] = link[Own] \/ link'[Own] = "down" \/ link[Own] = "greeting"
  BY <1>0, ServerStepKinds, ReceiveSeat, ClosingSeat, ObserveSeat, TellStopSeat, OtherwiseSeat
<1>2. phase' = phase \/ (phase = "failed" => phase' = "failed")
  BY <1>0, ServerStepKinds, ReceiveSeat, ClosingSeat, ObserveSeat, TellStopSeat, OtherwiseSeat
<1> QED
  BY <1>1, <1>2, ServerQueues DEF Connected, Live

LEMMA GivingUpNext ==
    SessionBase /\ ReadersKnown /\ Greeting /\ Ending /\ GivesUpOnlyOnFault /\ [SessionNext]_sessionVars
        => GivesUpOnlyOnFault'
<1> SUFFICES ASSUME SessionBase, ReadersKnown, Greeting, Ending, GivesUpOnlyOnFault, [SessionNext]_sessionVars
             PROVE  GivesUpOnlyOnFault'
  OBVIOUS
<1>1. Base /\ Typed /\ SessionTypeOK /\ faults \subseteq faults'
  BY BaseShape, FaultsStay DEF SessionBase, Inv
<1>2. CASE Main
  BY <1>1, <1>2, GivingUpByMain
<1>3. CASE TaskStep
  <2>1. main' = main /\ link' = link /\ phase' = phase
    BY <1>1, <1>3, TaskSteps DEF vars, engineVars, linkVars
  <2> QED
    BY <1>1, <2>1 DEF GivesUpOnlyOnFault, GaveUp, Connected, Live
<1>4. CASE ServerStep
  BY <1>1, <1>4, ConnectionStays DEF GivesUpOnlyOnFault, GaveUp, playerVars
<1>5. CASE UNCHANGED sessionVars
  BY <1>1, <1>5 DEF GivesUpOnlyOnFault, GaveUp, Connected, Live, sessionVars, playerVars, vars, engineVars, linkVars
<1> QED
  BY <1>2, <1>3, <1>4, <1>5 DEF SessionNext, TaskStep, ServerStep

--------------------------------------------------------------------------------
(***************************************************************************)
(* Theorems                                                                *)
(***************************************************************************)
StopSafety == SessionBase /\ ReadersKnown /\ Greeting /\ Ending /\ GivesUpOnlyOnFault

LEMMA StopSafetyInit == SessionInit => StopSafety
<1> SUFFICES ASSUME SessionInit PROVE ReadersKnown /\ GivesUpOnlyOnFault
  BY BaseInit, GreetingInit, EndingInit DEF StopSafety
<1> QED
  BY DEF SessionInit, ReadersKnown, OpenReaders, FailedWorker, DrainingInOrder, NoCall, GivesUpOnlyOnFault, GaveUp

LEMMA StopSafetyHolds == SessionSpec => []StopSafety
<1>1. StopSafety /\ [SessionNext]_sessionVars => StopSafety'
  BY BaseNext, ReadersNext, GreetingNext, EndingNext, GivingUpNext DEF StopSafety
<1> QED
  BY <1>1, StopSafetyInit, PTL DEF SessionSpec

\* The player gives up a connection that is open only when something went wrong
\* around it, in whatever order observations, answers, stops and signals come: a
\* reader that would not join, a socket that would not take a frame, a reply of the
\* model that answer could not read, or a server that began before it had read Ready.
THEOREM NoGivingUp == SessionSpec => []GivesUpOnlyOnFault
BY StopSafetyHolds, PTL DEF StopSafety

\* No frame of a cancelled worker or a forgotten writer follows Stopped.
THEOREM StoppedLast == SessionSpec => []StoppedIsLast
BY StopSafetyHolds, PTL DEF StopSafety, Ending

\* When Stopped is said, worker, call, writers and readers have joined, and from
\* then on none begins: what _play_connection awaits before it sends Stopped.
THEOREM StoppedJoined == SessionSpec => []StoppedMeansJoined
<1>1. StopSafety => StoppedMeansJoined
  <2>1. SUFFICES ASSUME Silent, Base, StopSaid PROVE PlayerJoined
    BY DEF StopSafety, SessionBase, Ending, StoppedMeansJoined, StopSaid, StopOnItsWay
  <2>2. call.attempts \subseteq AttemptIds
    BY <2>1, BaseShape
  <2> QED
    BY <2>1, <2>2 DEF Silent, PlayerJoined, PlayerReadersJoined
<1> QED
  BY <1>1, StopSafetyHolds, PTL
================================================================================
