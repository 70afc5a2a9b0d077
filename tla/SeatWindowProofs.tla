--------------------------- MODULE SeatWindowProofs ----------------------------
(***************************************************************************)
(* Theorems about SeatWindow, for any seats, holes, attempts and limits.   *)
(***************************************************************************)
EXTENDS SeatWindow, FiniteSetTheorems, TLAPS

--------------------------------------------------------------------------------
(***************************************************************************)
(* What each method of Admission returns and preserves, for any number of  *)
(* windows and attempts.                                                   *)
(***************************************************************************)

\* The initial admission is well formed.
LEMMA EmptyType == EmptyAdmission \in AdmissionState
BY DEF EmptyAdmission, AdmissionState, Readers

\* issue keeps an admission well formed.
LEMMA IssueType ==
    ASSUME NEW ad \in AdmissionState, NEW w \in Windows, NEW profile \in Profiles
    PROVE  Issue(ad, w, profile) \in AdmissionState
BY DEF Issue, AdmissionState

\* progress keeps an admission well formed.
LEMMA ProgressType ==
    ASSUME NEW ad \in AdmissionState, NEW w \in Windows, NEW a \in AttemptIds,
           NEW reader \in Readers
    PROVE  Progress(ad, w, a, reader) \in AdmissionState
BY DEF Progress, AdmissionState

\* consume keeps an admission well formed.
LEMMA ConsumeType ==
    ASSUME NEW ad \in AdmissionState, NEW w \in Windows,
           NEW selected \in AttemptIds \cup {NoAttempt}
    PROVE  Consume(ad, w, selected) \in AdmissionState
BY DEF Consume, AdmissionState

\* close_window and stop_admission keep an admission well formed.
LEMMA CloseType ==
    ASSUME NEW ad \in AdmissionState, NEW w \in Windows
    PROVE  /\ CloseWindow(ad, w) \in AdmissionState
           /\ StopAdmission(ad) \in AdmissionState
BY DEF CloseWindow, StopAdmission, AdmissionState

--------------------------------------------------------------------------------
(***************************************************************************)
(* The limit on attempts.                                                  *)
(***************************************************************************)
WithinBudget(ad) ==
    \A w \in Windows :
        IsFiniteSet(Rows(ad, w)) /\ Cardinality(Rows(ad, w)) <= MaxAttempts

\* No attempt has started in the initial admission.
LEMMA EmptyWithinBudget == WithinBudget(EmptyAdmission)
<1> SUFFICES ASSUME NEW w \in Windows
             PROVE  /\ IsFiniteSet(Rows(EmptyAdmission, w))
                    /\ Cardinality(Rows(EmptyAdmission, w)) <= MaxAttempts
  BY DEF WithinBudget
<1>1. Rows(EmptyAdmission, w) = {}
  BY AdmissionAssumption DEF Rows, EmptyAdmission
<1> QED
  BY <1>1, FS_EmptySet, AdmissionAssumption

\* A method that touches no attempt leaves the budget as it was.
LEMMA SameAttemptsWithinBudget ==
    ASSUME NEW ad, NEW next, WithinBudget(ad), next.attempts = ad.attempts
    PROVE  WithinBudget(next)
<1>1. \A w \in Windows : Rows(next, w) = Rows(ad, w)
  BY DEF Rows
<1> QED
  BY <1>1 DEF WithinBudget

\* progress adds an attempt to the active window only below the limit, and
\* moves no attempt from one window to another.
LEMMA ProgressWithinBudget ==
    ASSUME NEW ad \in AdmissionState, WithinBudget(ad),
           NEW w \in Windows, NEW a \in AttemptIds, NEW reader \in Readers,
           MayProgress(ad, w, a, reader)
    PROVE  WithinBudget(Progress(ad, w, a, reader))
<1> DEFINE next == Progress(ad, w, a, reader)
<1>1. \A b \in AttemptIds :
         next.attempts[b].window = IF b = a THEN w ELSE ad.attempts[b].window
  BY DEF Progress, AdmissionState
<1>2. SUFFICES ASSUME NEW v \in Windows
               PROVE  IsFiniteSet(Rows(next, v)) /\ Cardinality(Rows(next, v)) <= MaxAttempts
  BY DEF WithinBudget
<1>3. IsFiniteSet(Rows(ad, v)) /\ Cardinality(Rows(ad, v)) <= MaxAttempts
  BY DEF WithinBudget
<1>4. CASE ad.attempts[a].window = w
  <2>1. Rows(next, v) = Rows(ad, v)
    BY <1>1, <1>4 DEF Rows
  <2> QED
    BY <2>1, <1>3
<1>5. CASE ad.attempts[a].window # w
  <2>1. /\ ad.attempts[a].window = NoWindow
        /\ Cardinality(Rows(ad, w)) < MaxAttempts
    BY <1>5 DEF MayProgress, MayStart, MayUpdate
  <2>2. CASE v # w
    <3>1. Rows(next, v) = Rows(ad, v)
      BY <1>1, <2>1, <2>2, AdmissionAssumption DEF Rows
    <3> QED
      BY <3>1, <1>3
  <2>3. CASE v = w
    <3>1. Rows(next, v) = Rows(ad, v) \cup {a} /\ a \notin Rows(ad, v)
      BY <1>1, <1>5, <2>3 DEF Rows
    <3>2. IsFiniteSet(Rows(next, v)) /\ Cardinality(Rows(next, v)) = Cardinality(Rows(ad, v)) + 1
      BY <3>1, <1>3, FS_AddElement
    <3>3. Cardinality(Rows(ad, v)) \in Nat
      BY <1>3, FS_CardinalityType
    <3> QED
      BY <3>2, <3>3, <2>1, <2>3, AdmissionAssumption
  <2> QED
    BY <2>2, <2>3
<1> QED
  BY <1>4, <1>5

--------------------------------------------------------------------------------
(***************************************************************************)
(* Evidence only grows: windows, actions and attempts are never rewritten, *)
(* and a joined reader stays joined.                                       *)
(***************************************************************************)
Extends(old, new) ==
    /\ \A w \in Windows :
          /\ Issued(old, w) => new.windows[w] = old.windows[w]
          /\ old.accepted[w] # NoAction => new.accepted[w] = old.accepted[w]
    /\ \A a \in AttemptIds :
          /\ old.attempts[a].window # NoWindow =>
                new.attempts[a].window = old.attempts[a].window
          /\ old.attempts[a].reader = "joined" => new.attempts[a].reader = "joined"

\* Whatever touches none of the three dictionaries extends them.
LEMMA SameExtends ==
    ASSUME NEW old, NEW new, new.windows = old.windows, new.accepted = old.accepted,
           new.attempts = old.attempts
    PROVE  Extends(old, new)
BY DEF Extends

\* progress extends what it finds, when an attempt that has not started has no
\* joined reader.
LEMMA ProgressExtends ==
    ASSUME NEW ad \in AdmissionState, NEW w \in Windows, NEW a \in AttemptIds,
           NEW reader \in Readers, MayProgress(ad, w, a, reader),
           ad.attempts[a].window = NoWindow => ad.attempts[a].reader # "joined"
    PROVE  Extends(ad, Progress(ad, w, a, reader))
<1>1. ad.attempts[a].window # NoWindow => ad.attempts[a].window = w
  BY DEF MayProgress, MayStart, MayUpdate
<1>2. ad.attempts[a].reader = "joined" => reader = "joined"
  BY DEF MayProgress, MayStart, MayUpdate
<1>3. \A b \in AttemptIds :
         Progress(ad, w, a, reader).attempts[b] =
            IF b = a THEN [window |-> w, reader |-> reader] ELSE ad.attempts[b]
  BY DEF Progress, AdmissionState
<1>4. /\ Progress(ad, w, a, reader).windows = ad.windows
      /\ Progress(ad, w, a, reader).accepted = ad.accepted
  BY DEF Progress, AdmissionState
<1>5. \A b \in AttemptIds :
         /\ ad.attempts[b].window # NoWindow =>
               Progress(ad, w, a, reader).attempts[b].window = ad.attempts[b].window
         /\ ad.attempts[b].reader = "joined" =>
               Progress(ad, w, a, reader).attempts[b].reader = "joined"
  BY <1>1, <1>2, <1>3
<1> QED
  BY <1>4, <1>5 DEF Extends

--------------------------------------------------------------------------------
(***************************************************************************)
(* Type correctness needs to know that Round is a window while a call is   *)
(* out, hence that calls are out only in a hole that is being asked, or    *)
(* whose calls are being cancelled.                                        *)
(***************************************************************************)
CallsWhileAsking ==
    /\ phase \in {"asking", "cancelling", "judging"} => hole \in HoleNumbers
    /\ \A s \in Seats : ask[s] = "ready" \/ InCall(s) => phase \in {"asking", "cancelling"}

Typed == TypeOK /\ CallsWhileAsking

LEMMA RoundIsWindow ==
    ASSUME Typed, phase \in {"asking", "cancelling"}
    PROVE  Round \in Windows
BY SeatWindowAssumption DEF Typed, TypeOK, CallsWhileAsking, Round

LEMMA TypedInit == Init => Typed
<1> SUFFICES ASSUME Init PROVE Typed
  OBVIOUS
<1>1. \A s \in Seats : adm[s] \in AdmissionState
  BY EmptyType DEF Init
<1>2. NoReply \in Reply /\ Unplayed \in Decision
  BY DEF NoReply, Reply, Unplayed, Decision
<1>3. /\ phase \in Phases /\ hole \in 0..Holes /\ holesPlayed \in 0..Holes
      /\ joins \in [Seats -> 0..MaxJoins]
  BY SeatWindowAssumption DEF Init, Phases
<1>4. TypeOK
  BY <1>1, <1>2, <1>3, EmptyType DEF Init, TypeOK, Profiles, AskStates, StopperStates
<1>5. CallsWhileAsking
  BY DEF Init, CallsWhileAsking, InCall
<1> QED
  BY <1>4, <1>5 DEF Typed

LEMMA TypedPlayer ==
    ASSUME Typed, NEW s \in Seats, Player(s)
    PROVE  Typed'
<1> USE DEF Typed, engineVars, linkVars, windowVars, stopVars, CallsWhileAsking, InCall
<1>1. CASE Connect(s)
  BY <1>1, SeatWindowAssumption DEF Connect, Connected, TypeOK
<1>2. CASE Greet(s)
  BY <1>2 DEF Greet, TypeOK
<1>3. CASE Disconnect(s)
  BY <1>3 DEF Disconnect, TypeOK
<1>4. CASE DeliverReady(s)
  BY <1>4 DEF DeliverReady, TypeOK
<1>5. CASE DeliverStarted(s)
  <2>1. PICK w \in Windows, a \in AttemptIds, r \in Readers :
           adm' = [adm EXCEPT ![s] = Progress(@, w, a, r)]
    BY <1>5 DEF DeliverStarted
  <2>2. Progress(adm[s], w, a, r) \in AdmissionState
    BY ProgressType DEF TypeOK
  <2> QED
    BY <1>5, <2>1, <2>2 DEF DeliverStarted, TypeOK
<1>6. CASE DeliverAction(s)
  <2>1. PICK w \in Windows, selected \in AttemptIds \cup {NoAttempt} :
           adm' = [adm EXCEPT ![s] = Consume(@, w, selected)]
    BY <1>6 DEF DeliverAction
  <2>2. Consume(adm[s], w, selected) \in AdmissionState
    BY ConsumeType DEF TypeOK
  <2>3. fut' \in [Seats -> BadReplies \cup {"open", "cancelled", "action"}]
    BY <1>6 DEF DeliverAction, Resolve, TypeOK
  <2> QED
    BY <1>6, <2>1, <2>2, <2>3 DEF DeliverAction, TypeOK
<1>7. CASE DeliverBad(s)
  BY <1>7 DEF DeliverBad, Resolve, TypeOK
<1>8. CASE DeliverStopped(s)
  BY <1>8 DEF DeliverStopped, TypeOK
<1> QED
  BY <1>1, <1>2, <1>3, <1>4, <1>5, <1>6, <1>7, <1>8 DEF Player, Deliver

LEMMA TypedReturn ==
    ASSUME Typed, NEW s \in Seats, InCall(s), NEW outcome \in Outcomes, Return(s, outcome)
    PROVE  Typed'
<1> USE DEF Typed, engineVars, linkVars, windowVars, stopVars, CallsWhileAsking, InCall
<1>1. Round \in Windows
  BY RoundIsWindow DEF TypeOK
<1>2. CloseWindow(adm[s], Round) \in AdmissionState
  BY <1>1, CloseType DEF TypeOK
<1>3. [window |-> Round, outcome |-> outcome] \in Reply
  BY <1>1 DEF Reply
<1> QED
  BY <1>1, <1>2, <1>3 DEF Return, TypeOK, AskStates

LEMMA TypedCall ==
    ASSUME Typed, NEW s \in Seats, Call(s)
    PROVE  Typed'
<1> USE DEF engineVars, linkVars, windowVars, stopVars
<1>1. CASE Ask(s)
  <2>1. Round \in Windows
    BY <1>1, RoundIsWindow DEF Ask, Typed, CallsWhileAsking
  <2>2. Issue(adm[s], Round, offer[s]) \in AdmissionState
    BY <2>1, IssueType DEF Typed, TypeOK
  <2>3. TypeOK'
    <3>1. /\ seen' \in [Seats -> BOOLEAN]
          /\ ask' \in [Seats -> AskStates]
      BY <1>1 DEF Ask, Typed, TypeOK, AskStates, Connected
    <3>2. /\ adm' \in [Seats -> AdmissionState]
          /\ pending' \in [Seats -> Windows \cup {NoWindow}]
          /\ fut' \in [Seats -> BadReplies \cup {"open", "cancelled", "action"}]
      BY <1>1, <2>1, <2>2 DEF Ask, Typed, TypeOK
    <3> QED
      BY <1>1, <3>1, <3>2 DEF Ask, Typed, TypeOK
  <2>4. CallsWhileAsking'
    BY <1>1 DEF Ask, Typed, TypeOK, CallsWhileAsking, InCall
  <2> QED
    BY <2>3, <2>4 DEF Typed
<1>2. CASE Sent(s)
  BY <1>2 DEF Sent, Typed, TypeOK, CallsWhileAsking, InCall, AskStates
<1>3. CASE SendFailed(s)
  BY <1>3, TypedReturn DEF SendFailed, InCall, Outcomes, FallbackCauses
<1>4. CASE Answered(s)
  BY <1>4, TypedReturn, SeatWindowAssumption DEF Answered, InCall, Outcomes, FallbackCauses
<1>5. CASE Expire(s)
  BY <1>5 DEF Expire, Typed, TypeOK, CallsWhileAsking, InCall, AskStates
<1>6. CASE TimedOut(s)
  BY <1>6, TypedReturn DEF TimedOut, InCall, Outcomes, FallbackCauses
<1>7. CASE Cancelled(s)
  <2>1. Round \in Windows
    BY <1>7, RoundIsWindow DEF Cancelled
  <2>2. CloseWindow(adm[s], Round) \in AdmissionState
    BY <2>1, CloseType DEF Typed, TypeOK
  <2>3. /\ adm' \in [Seats -> AdmissionState]
        /\ ask' \in [Seats -> AskStates]
        /\ pending' \in [Seats -> Windows \cup {NoWindow}]
        /\ fut' \in [Seats -> BadReplies \cup {"open", "cancelled", "action"}]
    BY <1>7, <2>2 DEF Cancelled, Typed, TypeOK, AskStates
  <2> QED
    BY <1>7, <2>3 DEF Cancelled, Typed, TypeOK, CallsWhileAsking, InCall
<1> QED
  BY <1>1, <1>2, <1>3, <1>4, <1>5, <1>6, <1>7 DEF Call

LEMMA TypedEngine ==
    ASSUME Typed, Engine \/ Signal
    PROVE  Typed'
<1> USE DEF Typed, TypeOK, engineVars, linkVars, windowVars, stopVars, CallsWhileAsking,
            InCall, Phases, AskStates
<1>1. CASE BeginHole
  <2>1. NoReply \in Reply
    BY DEF NoReply, Reply
  <2>2. hole' \in HoleNumbers /\ hole' \in 0..Holes
    BY <1>1, SeatWindowAssumption DEF BeginHole, HoleNumbers
  <2>3. /\ offer' \in [Seats -> Profiles]
        /\ ask' \in [Seats -> AskStates]
        /\ reply' \in [Seats -> Reply]
    BY <1>1, <2>1 DEF BeginHole, Open, Profiles
  <2> QED
    BY <1>1, <2>2, <2>3 DEF BeginHole
<1>2. CASE RetryBatch
  BY <1>2 DEF RetryBatch, Open, Profiles
<1>3. CASE Install
  <2>1. \A s \in Seats : Installed(reply[s]) \in Decision
    BY DEF Installed, Decision, Reply, Outcomes, FallbackCauses
  <2>2. NoReply \in Reply
    BY DEF NoReply, Reply
  <2> QED
    BY <1>3, <2>1, <2>2 DEF Install
<1>4. CASE HoleScored
  BY <1>4, SeatWindowAssumption DEF HoleScored
<1>5. CASE SandboxFault
  BY <1>5 DEF SandboxFault
<1>6. CASE EndRun \/ EngineRaises
  BY <1>6 DEF EndRun, EngineRaises
<1>7. CASE CallsCancelled
  <2>1. NoReply \in Reply
    BY DEF NoReply, Reply
  <2> QED
    BY <1>7, <2>1 DEF CallsCancelled
<1>8. CASE Signal
  <2>1. phase' \in {"cancelling", "aborting", "failed"} /\ (phase' = "cancelling" <=> phase = "asking")
    BY <1>8 DEF Signal, Over
  <2> QED
    BY <1>8, <2>1 DEF Signal
<1> QED
  BY <1>1, <1>2, <1>3, <1>4, <1>5, <1>6, <1>7, <1>8 DEF Engine

LEMMA TypedStop ==
    ASSUME Typed, NEW s \in Seats, Stop(s)
    PROVE  Typed'
<1> USE DEF Typed, TypeOK, engineVars, linkVars, windowVars, stopVars, CallsWhileAsking,
            InCall, Stopper, StopperStates
<1>0. StopAdmission(adm[s]) \in AdmissionState
  <2>1. adm[s] \in AdmissionState
    OBVIOUS
  <2> QED
    BY <2>1 DEF StopAdmission, AdmissionState
<1>1. CASE SealUnused(s)
  BY <1>0, <1>1 DEF SealUnused
<1>2. CASE SendStop(s)
  BY <1>0, <1>2 DEF SendStop
<1>3. CASE StopSent(s)
  BY <1>3 DEF StopSent
<1>4. CASE StopAcknowledged(s)
  BY <1>4 DEF StopAcknowledged
<1>5. CASE EvidenceSent(s)
  BY <1>5 DEF EvidenceSent
<1>6. CASE StopOverdue(s)
  BY <1>6 DEF StopOverdue
<1> QED
  BY <1>1, <1>2, <1>3, <1>4, <1>5, <1>6 DEF Stop

LEMMA TypedNext == Typed /\ [Next]_vars => Typed'
<1> SUFFICES ASSUME Typed, [Next]_vars PROVE Typed'
  OBVIOUS
<1>1. ASSUME NEW s \in Seats, Player(s) \/ Call(s) \/ Stop(s)
      PROVE  Typed'
  BY <1>1, TypedPlayer, TypedCall, TypedStop
<1>2. CASE Engine \/ Signal
  BY <1>2, TypedEngine
<1>3. CASE Publish \/ Withhold
  BY <1>3 DEF Publish, Withhold, Typed, TypeOK, CallsWhileAsking, InCall, Phases, linkVars,
              windowVars, stopVars
<1>4. CASE UNCHANGED vars
  BY <1>4 DEF vars, engineVars, linkVars, windowVars, stopVars, Typed, TypeOK,
              CallsWhileAsking, InCall, Round
<1> QED
  BY <1>1, <1>2, <1>3, <1>4 DEF Next, Terminated

\* Every variable keeps its type in every reachable state, for any seats, holes,
\* attempts and limits: WsSeat, Admission and the engine's bookkeeping of them.
THEOREM TypeCorrect == Spec => []TypeOK
<1>1. Spec => []Typed
  BY TypedInit, TypedNext, PTL DEF Spec
<1>2. Typed => TypeOK
  BY DEF Typed
<1> QED
  BY <1>1, <1>2, PTL

--------------------------------------------------------------------------------
(***************************************************************************)
(* Every step moves each seat's admission by one of its methods, called    *)
(* where the method does not raise, or leaves it as it was.                *)
(***************************************************************************)
AdmissionStep(old, new) ==
    \/ new = old
    \/ \E w \in Windows, profile \in Profiles :
          MayIssue(old, w) /\ new = Issue(old, w, profile)
    \/ \E w \in Windows, a \in AttemptIds, r \in Readers :
          MayProgress(old, w, a, r) /\ new = Progress(old, w, a, r)
    \/ \E w \in Windows, selected \in AttemptIds \cup {NoAttempt} :
          MayConsume(old, w, selected) /\ new = Consume(old, w, selected)
    \/ new = CloseWindow(old, Round)
    \/ new = StopAdmission(old)

LEMMA AdmissionMoves ==
    ASSUME Typed, [Next]_vars, NEW t \in Seats
    PROVE  AdmissionStep(adm[t], adm'[t])
<1> USE DEF AdmissionStep
<1>0. CASE adm' = adm
  BY <1>0
<1>1. ASSUME NEW s \in Seats, DeliverStarted(s)
      PROVE  AdmissionStep(adm[t], adm'[t])
  BY <1>1 DEF DeliverStarted, Typed, TypeOK
<1>2. ASSUME NEW s \in Seats, DeliverAction(s)
      PROVE  AdmissionStep(adm[t], adm'[t])
  BY <1>2 DEF DeliverAction, Typed, TypeOK
<1>3. ASSUME NEW s \in Seats, Ask(s)
      PROVE  AdmissionStep(adm[t], adm'[t])
  <2>1. Round \in Windows
    BY <1>3, RoundIsWindow DEF Ask, Typed, CallsWhileAsking
  <2>2. offer[s] \in Profiles
    BY DEF Typed, TypeOK
  <2> QED
    BY <1>3, <2>1, <2>2 DEF Ask, Typed, TypeOK
<1>4. ASSUME NEW s \in Seats, NEW outcome, Return(s, outcome)
      PROVE  AdmissionStep(adm[t], adm'[t])
  BY <1>4 DEF Return, Typed, TypeOK
<1>5. ASSUME NEW s \in Seats, SealUnused(s) \/ SendStop(s)
      PROVE  AdmissionStep(adm[t], adm'[t])
  BY <1>5 DEF SealUnused, SendStop, Typed, TypeOK
<1>6. ASSUME NEW s \in Seats, Player(s)
      PROVE  AdmissionStep(adm[t], adm'[t])
  BY <1>0, <1>1, <1>2, <1>6
     DEF Player, Deliver, Connect, Greet, Disconnect, DeliverReady, DeliverBad, DeliverStopped
<1>7. ASSUME NEW s \in Seats, Call(s)
      PROVE  AdmissionStep(adm[t], adm'[t])
  <2>1. CASE Cancelled(s)
    BY <2>1 DEF Cancelled, Typed, TypeOK
  <2> QED
    BY <1>0, <1>3, <1>4, <1>7, <2>1 DEF Call, Sent, Expire, SendFailed, Answered, TimedOut
<1>8. ASSUME NEW s \in Seats, Stop(s)
      PROVE  AdmissionStep(adm[t], adm'[t])
  BY <1>0, <1>5, <1>8 DEF Stop, StopSent, StopAcknowledged, EvidenceSent, StopOverdue
<1>9. CASE Engine \/ Signal \/ Publish \/ Withhold \/ Terminated \/ UNCHANGED vars
  BY <1>0, <1>9 DEF Engine, BeginHole, RetryBatch, Install, HoleScored, SandboxFault,
     EngineRaises, EndRun, CallsCancelled, Signal, Publish, Withhold, Terminated, vars
<1> QED
  BY <1>6, <1>7, <1>8, <1>9 DEF Next

--------------------------------------------------------------------------------
(***************************************************************************)
(* Attempts: the limit, and an attempt that has not started says nothing.  *)
(***************************************************************************)
AttemptInv ==
    \A s \in Seats :
        /\ WithinBudget(adm[s])
        /\ \A a \in AttemptIds :
              adm[s].attempts[a].window = NoWindow => adm[s].attempts[a].reader = "unknown"

LEMMA AttemptInit == Init => AttemptInv
BY EmptyWithinBudget DEF Init, AttemptInv, EmptyAdmission

LEMMA AttemptNext == Typed /\ AttemptInv /\ [Next]_vars => AttemptInv'
<1> SUFFICES ASSUME Typed, AttemptInv, [Next]_vars, NEW s \in Seats
             PROVE  /\ WithinBudget(adm'[s])
                    /\ \A a \in AttemptIds :
                          adm'[s].attempts[a].window = NoWindow =>
                              adm'[s].attempts[a].reader = "unknown"
  BY DEF AttemptInv, WithinBudget, Rows
<1> DEFINE old == adm[s]
           new == adm'[s]
<1>1. old \in AdmissionState
  BY DEF Typed, TypeOK
<1>2. /\ WithinBudget(old)
      /\ \A a \in AttemptIds :
            old.attempts[a].window = NoWindow => old.attempts[a].reader = "unknown"
  BY DEF AttemptInv
<1>3. CASE new.attempts = old.attempts
  BY <1>2, <1>3, SameAttemptsWithinBudget
<1>4. ASSUME NEW w \in Windows, NEW b \in AttemptIds, NEW r \in Readers,
             MayProgress(old, w, b, r), new = Progress(old, w, b, r)
      PROVE  /\ WithinBudget(new)
             /\ \A a \in AttemptIds :
                   new.attempts[a].window = NoWindow => new.attempts[a].reader = "unknown"
  <2>1. WithinBudget(new)
    BY <1>1, <1>2, <1>4, ProgressWithinBudget
  <2>2. new.attempts = [old.attempts EXCEPT ![b] = [window |-> w, reader |-> r]]
    BY <1>1, <1>4 DEF Progress, AdmissionState
  <2>3. \A a \in AttemptIds :
           new.attempts[a] = IF a = b THEN [window |-> w, reader |-> r] ELSE old.attempts[a]
    BY <1>1, <2>2 DEF AdmissionState
  <2> QED
    BY <1>2, <2>1, <2>3, AdmissionAssumption
<1>5. AdmissionStep(old, new)
  BY AdmissionMoves
<1>6. \/ new.attempts = old.attempts
      \/ \E w \in Windows, a \in AttemptIds, r \in Readers :
            MayProgress(old, w, a, r) /\ new = Progress(old, w, a, r)
  BY <1>1, <1>5 DEF AdmissionStep, Issue, Consume, CloseWindow, StopAdmission, AdmissionState
<1> QED
  BY <1>3, <1>4, <1>6

\* A window never holds more native attempts than the source retry policy
\* allows, for any limit and any number of attempt identifiers.
THEOREM AttemptsBounded == Spec => []AttemptBudget
<1>1. Spec => []Typed
  BY TypedInit, TypedNext, PTL DEF Spec
<1>2. Spec => []AttemptInv
  BY <1>1, AttemptInit, AttemptNext, PTL DEF Spec
<1>3. AttemptInv => AttemptBudget
  BY DEF AttemptInv, AttemptBudget, WithinBudget
<1> QED
  BY <1>2, <1>3, PTL

--------------------------------------------------------------------------------
(***************************************************************************)
(* What a step may do to the evidence.                                     *)
(***************************************************************************)
Frozen(old, new) ==
    old.stopping =>
        /\ new.windows = old.windows
        /\ new.accepted = old.accepted
        /\ \A a \in AttemptIds : new.attempts[a].window = old.attempts[a].window

LEMMA FrozenStep ==
    ASSUME NEW old \in AdmissionState, NEW new, AdmissionStep(old, new)
    PROVE  Frozen(old, new)
<1>1. ASSUME NEW w \in Windows, NEW a \in AttemptIds, NEW r \in Readers,
             MayProgress(old, w, a, r), new = Progress(old, w, a, r)
      PROVE  Frozen(old, new)
  <2>1. old.stopping => old.attempts[a].window = w
    BY <1>1 DEF MayProgress, MayStart, MayUpdate
  <2> QED
    BY <1>1, <2>1 DEF Frozen, Progress, AdmissionState
<1>2. CASE new = CloseWindow(old, Round) \/ new = StopAdmission(old)
  BY <1>2 DEF Frozen, CloseWindow, StopAdmission, AdmissionState
<1>3. CASE \/ \E w \in Windows, profile \in Profiles : MayIssue(old, w)
           \/ \E w \in Windows, selected \in AttemptIds \cup {NoAttempt} :
                 MayConsume(old, w, selected)
           \/ new = old
  BY <1>3 DEF Frozen, MayIssue, MayConsume
<1> QED
  BY <1>1, <1>2, <1>3 DEF AdmissionStep

\* Once a seat's admission stops, no window, attempt or action is added to it:
\* what the journal binds at publication is what was there at the stop.
THEOREM StopIsFinal == Spec => StopFreezes
<1>1. Spec => []Typed
  BY TypedInit, TypedNext, PTL DEF Spec
<1>2. Typed /\ [Next]_vars => [\A s \in Seats : Frozen(adm[s], adm'[s])]_vars
  <2> SUFFICES ASSUME Typed, [Next]_vars, NEW s \in Seats
               PROVE  Frozen(adm[s], adm'[s])
    OBVIOUS
  <2>1. adm[s] \in AdmissionState
    BY DEF Typed, TypeOK
  <2> QED
    BY <2>1, AdmissionMoves, FrozenStep
<1>3. Spec => [][\A s \in Seats : Frozen(adm[s], adm'[s])]_vars
  BY <1>1, <1>2, PTL DEF Spec
<1> QED
  BY <1>3 DEF StopFreezes, Frozen

LEMMA ExtendsStep ==
    ASSUME NEW old \in AdmissionState, NEW new, AdmissionStep(old, new),
           \A a \in AttemptIds :
              old.attempts[a].window = NoWindow => old.attempts[a].reader = "unknown",
           old.active # NoWindow => old.accepted[old.active] = NoAction
    PROVE  Extends(old, new)
<1>1. ASSUME NEW w \in Windows, NEW a \in AttemptIds, NEW r \in Readers,
             MayProgress(old, w, a, r), new = Progress(old, w, a, r)
      PROVE  Extends(old, new)
  BY <1>1, ProgressExtends
<1>2. ASSUME NEW w \in Windows, NEW profile \in Profiles,
             MayIssue(old, w), new = Issue(old, w, profile)
      PROVE  Extends(old, new)
  BY <1>2 DEF Extends, Issue, MayIssue, Issued, AdmissionState
<1>3. ASSUME NEW w \in Windows, NEW selected \in AttemptIds \cup {NoAttempt},
             MayConsume(old, w, selected), new = Consume(old, w, selected)
      PROVE  Extends(old, new)
  BY <1>3, AdmissionAssumption DEF Extends, Consume, MayConsume, AdmissionState
<1>4. CASE new = old \/ new = CloseWindow(old, Round) \/ new = StopAdmission(old)
  <2>1. /\ new.windows = old.windows
        /\ new.accepted = old.accepted
        /\ new.attempts = old.attempts
    BY <1>4 DEF CloseWindow, StopAdmission, AdmissionState
  <2> QED
    BY <2>1, SameExtends
<1> QED
  BY <1>1, <1>2, <1>3, <1>4 DEF AdmissionStep

--------------------------------------------------------------------------------
(***************************************************************************)
(* Windows, calls and decisions.                                           *)
(***************************************************************************)
Inv == Typed /\ AttemptInv /\ WindowInv

LEMMA Grows ==
    ASSUME Inv, [Next]_vars, NEW s \in Seats
    PROVE  Extends(adm[s], adm'[s])
<1>1. adm[s] \in AdmissionState
  BY DEF Inv, Typed, TypeOK
<1>2. adm[s].active # NoWindow => adm[s].accepted[adm[s].active] = NoAction
  BY DEF Inv, WindowInv, CallOwnsWindow
<1>3. \A a \in AttemptIds :
         adm[s].attempts[a].window = NoWindow => adm[s].attempts[a].reader = "unknown"
  BY DEF Inv, AttemptInv
<1> QED
  BY <1>1, <1>2, <1>3, AdmissionMoves, ExtendsStep DEF Inv

\* The installed decisions stay justified while none is added.
LEMMA DecisionsKept ==
    ASSUME Inv, [Next]_vars, decision' = decision
    PROVE  InstalledWasAccepted' /\ FallbackAfterRetry'
<1>1. \A h \in HoleNumbers, s \in Seats :
         decision[h][s].window \in Windows \cup {NoWindow}
  BY DEF Inv, Typed, TypeOK, Decision
<1>2. ASSUME NEW h \in HoleNumbers, NEW again \in BOOLEAN
      PROVE  <<h, again>> \in Windows
  BY SeatWindowAssumption
<1>3. InstalledWasAccepted'
  BY <1>1, Grows DEF Inv, WindowInv, InstalledWasAccepted, Extends
<1>4. FallbackAfterRetry'
  BY <1>2, Grows DEF Inv, WindowInv, FallbackAfterRetry, Extends, Issued
<1> QED
  BY <1>3, <1>4

SeatKept(s) == CallOwnsWindow(s) /\ WindowsInOrder(s) /\ BatchKept(s)

\* A seat whose call, round and reply stay as they are: its windows and actions
\* are the same, and its active window may have been closed.
LEMMA SeatUntouched ==
    ASSUME NEW s \in Seats, SeatKept(s), UNCHANGED <<phase, hole, retry>>,
           ask'[s] = ask[s], reply'[s] = reply[s], pending'[s] = pending[s],
           adm'[s].windows = adm[s].windows, adm'[s].accepted = adm[s].accepted,
           adm'[s].active = adm[s].active \/ adm'[s].active = NoWindow,
           fut'[s] = fut[s] \/ fut'[s] # "action"
    PROVE  SeatKept(s)'
BY DEF SeatKept, CallOwnsWindow, WindowsInOrder, BatchKept, InCall, Round, Issued

LEMMA KeptByPlayer ==
    ASSUME Inv, NEW s \in Seats, Player(s), NEW t \in Seats
    PROVE  SeatKept(t)'
<1> USE DEF engineVars, windowVars
<1>0. /\ SeatKept(t)
      /\ adm[s] \in AdmissionState
      /\ fut \in [Seats -> BadReplies \cup {"open", "cancelled", "action"}]
  BY DEF Inv, WindowInv, SeatKept, Typed, TypeOK
<1>1. CASE Connect(s) \/ Greet(s) \/ Disconnect(s) \/ DeliverReady(s) \/ DeliverStopped(s)
  BY <1>0, <1>1, SeatUntouched DEF Connect, Greet, Disconnect, DeliverReady, DeliverStopped
<1>2. CASE DeliverStarted(s)
  <2>1. PICK w \in Windows, a \in AttemptIds, r \in Readers :
           adm' = [adm EXCEPT ![s] = Progress(@, w, a, r)]
    BY <1>2 DEF DeliverStarted
  <2>2. /\ adm'[t].windows = adm[t].windows
        /\ adm'[t].accepted = adm[t].accepted
        /\ adm'[t].active = adm[t].active
    BY <1>0, <2>1 DEF Progress, AdmissionState, Inv, Typed, TypeOK
  <2> QED
    BY <1>0, <1>2, <2>2, SeatUntouched DEF DeliverStarted
<1>3. CASE DeliverAction(s)
  <2>1. PICK w \in Windows, selected \in AttemptIds \cup {NoAttempt} :
           /\ MayConsume(adm[s], w, selected)
           /\ adm' = [adm EXCEPT ![s] = Consume(@, w, selected)]
    BY <1>3 DEF DeliverAction
  <2>2. CASE t # s
    <3>1. adm'[t] = adm[t] /\ fut'[t] = fut[t]
      BY <1>0, <1>3, <2>1, <2>2 DEF DeliverAction, Resolve, Inv, Typed, TypeOK
    <3> QED
      BY <1>0, <1>3, <2>2, <3>1, SeatUntouched DEF DeliverAction
  <2>3. CASE t = s
    <3>1. w = Round /\ InCall(s)
      BY <2>1, AdmissionAssumption
         DEF MayConsume, Inv, WindowInv, CallOwnsWindow
    <3>2. /\ adm'[s].windows = adm[s].windows
          /\ adm'[s].active = NoWindow
          /\ adm'[s].accepted = [adm[s].accepted EXCEPT ![w] = selected]
      BY <1>0, <2>1 DEF Consume, AdmissionState, Inv, Typed, TypeOK
    <3>3. /\ adm'[s].accepted[w] # NoAction
          /\ \A v \in Windows : v # w => adm'[s].accepted[v] = adm[s].accepted[v]
      BY <1>0, <3>2, AdmissionAssumption DEF AdmissionState
    <3>4. SeatKept(s)
      BY <1>0, <2>3
    <3>5. /\ UNCHANGED <<phase, hole, retry, ask, reply, pending>>
          /\ UNCHANGED Round
      BY <1>3 DEF DeliverAction, Round
    <3>6. CallOwnsWindow(s)'
      BY <3>1, <3>2, <3>3, <3>4, <3>5 DEF SeatKept, CallOwnsWindow, InCall, Issued
    <3>7. WindowsInOrder(s)'
      BY <3>1, <3>2, <3>3, <3>4, <3>5
         DEF SeatKept, CallOwnsWindow, WindowsInOrder, InCall, Issued
    <3>8. BatchKept(s)'
      BY <3>2, <3>3, <3>4, <3>5 DEF SeatKept, BatchKept, Issued
    <3> QED
      BY <2>3, <3>6, <3>7, <3>8 DEF SeatKept
  <2> QED
    BY <2>2, <2>3
<1>4. CASE DeliverBad(s)
  <2>1. fut'[t] = fut[t] \/ fut'[t] # "action"
    BY <1>0, <1>4, SeatWindowAssumption DEF DeliverBad, Resolve
  <2> QED
    BY <1>0, <1>4, <2>1, SeatUntouched DEF DeliverBad
<1> QED
  BY <1>1, <1>2, <1>3, <1>4 DEF Player, Deliver

LEMMA KeptByReturn ==
    ASSUME Inv, NEW s \in Seats, InCall(s), NEW outcome, Return(s, outcome),
           outcome = "action" => fut[s] = "action",
           NEW t \in Seats
    PROVE  SeatKept(t)'
<1>0. SeatKept(t) /\ adm[t] \in AdmissionState /\ Round \in Windows
  BY RoundIsWindow DEF Inv, WindowInv, SeatKept, Typed, TypeOK, CallsWhileAsking
<1>1. CASE t # s
  BY <1>0, <1>1, SeatUntouched DEF Return, Inv, Typed, TypeOK
<1>2. CASE t = s
  <2>1. /\ ask'[s] = "returned"
        /\ reply'[s] = [window |-> Round, outcome |-> outcome]
        /\ pending'[s] = NoWindow
        /\ UNCHANGED <<phase, hole, retry, Round>>
    BY DEF Return, Inv, Typed, TypeOK, Round
  <2>2. /\ adm'[s].windows = adm[s].windows
        /\ adm'[s].accepted = adm[s].accepted
        /\ adm'[s].active = NoWindow
    BY <1>0, <1>2 DEF Return, CloseWindow, SeatKept, CallOwnsWindow, AdmissionState, Inv,
       Typed, TypeOK
  <2>3. CallOwnsWindow(s)'
    BY <2>1, <2>2 DEF CallOwnsWindow, InCall
  <2>4. WindowsInOrder(s)'
    BY <1>0, <1>2, <2>1, <2>2 DEF SeatKept, WindowsInOrder, Issued
  <2>5. BatchKept(s)'
    <3>1. Round[1] = hole /\ Issued(adm[s], Round)
      BY <1>0, <1>2 DEF Round, SeatKept, CallOwnsWindow
    <3>2. outcome = "action" => adm[s].accepted[Round] # NoAction
      BY <1>0, <1>2 DEF SeatKept, CallOwnsWindow
    <3>3. ask[s] # "idle"
      BY DEF InCall
    <3> QED
      BY <1>0, <1>2, <2>1, <2>2, <3>1, <3>2, <3>3 DEF SeatKept, BatchKept, Issued
  <2> QED
    BY <1>2, <2>3, <2>4, <2>5 DEF SeatKept
<1> QED
  BY <1>1, <1>2

LEMMA KeptByAsk ==
    ASSUME Inv, NEW s \in Seats, Ask(s), NEW t \in Seats
    PROVE  SeatKept(t)'
<1>0. SeatKept(t) /\ adm[t] \in AdmissionState /\ Round \in Windows
  BY RoundIsWindow DEF Inv, WindowInv, SeatKept, Typed, TypeOK, CallsWhileAsking, Ask
<1>1. CASE t # s
  BY <1>0, <1>1, SeatUntouched DEF Ask, Inv, Typed, TypeOK
<1>2. CASE t = s
  <2>1. /\ ask'[s] \in {"sending", "waiting"}
        /\ pending'[s] = Round
        /\ fut'[s] = "open"
        /\ UNCHANGED <<phase, hole, retry, reply, Round>>
    BY DEF Ask, Inv, Typed, TypeOK, Round
  <2>2. offer[s] \in Profiles /\ ask[s] = "ready" /\ ~Issued(adm[s], Round)
    BY DEF Ask, MayIssue, Inv, Typed, TypeOK
  <2>3. /\ adm'[s].windows = [adm[s].windows EXCEPT ![Round] = offer[s]]
        /\ adm'[s].accepted = adm[s].accepted
        /\ adm'[s].active = Round
    BY <1>0, <1>2 DEF Ask, Issue, AdmissionState, Inv, Typed, TypeOK
  <2>4. /\ adm'[s].windows[Round] # "unissued"
        /\ \A w \in Windows : w # Round => adm'[s].windows[w] = adm[s].windows[w]
    BY <1>0, <1>2, <2>2, <2>3 DEF AdmissionState, Profiles
  <2>5. CallOwnsWindow(s)'
    <3>1. adm[s].accepted[Round] = NoAction
      BY <1>0, <1>2, <2>2 DEF SeatKept, WindowsInOrder
    <3> QED
      BY <2>1, <2>3, <2>4, <3>1 DEF CallOwnsWindow, InCall, Issued
  <2>6. WindowsInOrder(s)'
    <3>1. Round[1] <= hole /\ (Round = <<hole, TRUE>> => retry)
      <4>1. hole \in Int /\ hole <= hole
        BY DEF Inv, Typed, TypeOK
      <4>2. Round[1] = hole
        BY DEF Round
      <4>3. Round = <<hole, TRUE>> => retry = TRUE
        BY DEF Round
      <4> QED
        BY <4>1, <4>2, <4>3
    <3> QED
      BY <1>0, <1>2, <2>1, <2>3, <2>4, <3>1 DEF SeatKept, WindowsInOrder, Issued
  <2>7. BatchKept(s)'
    <3>1. phase = "asking" => <<hole, FALSE>> \in Windows
      BY SeatWindowAssumption DEF Inv, Typed, CallsWhileAsking
    <3>2. phase = "asking" /\ retry => Issued(adm[s], <<hole, FALSE>>)
      BY <1>0, <1>2, <2>2 DEF SeatKept, BatchKept
    <3>3. phase = "asking" /\ retry => <<hole, FALSE>> # Round
      BY DEF Round
    <3>4. phase = "asking" /\ retry => Issued(adm[s], <<hole, FALSE>>)'
      BY <2>1, <2>4, <3>1, <3>2, <3>3 DEF Issued
    <3>5. phase = "asking" /\ reply[s].outcome = "action" =>
             /\ reply[s].window \in Windows
             /\ reply[s].window[1] = hole
             /\ adm[s].accepted[reply[s].window] # NoAction
      BY <1>0, <1>2 DEF SeatKept, BatchKept
    <3> QED
      BY <2>1, <2>3, <3>4, <3>5 DEF BatchKept
  <2> QED
    BY <1>2, <2>5, <2>6, <2>7 DEF SeatKept
<1> QED
  BY <1>1, <1>2

LEMMA KeptByCall ==
    ASSUME Inv, NEW s \in Seats, Call(s), NEW t \in Seats
    PROVE  SeatKept(t)'
<1>0. SeatKept(t)
  BY DEF Inv, WindowInv, SeatKept
<1>1. CASE Sent(s) \/ Expire(s)
  <2>1. /\ UNCHANGED <<phase, hole, retry, reply, decision, adm, pending, Round>>
        /\ ask'[t] = ask[t] \/ (InCall(t) /\ InCall(t)')
        /\ fut'[t] = fut[t] \/ fut'[t] # "action"
        /\ ask'[t] = ask[t] \/ ask'[t] \in {"waiting", "expired"}
    BY <1>1 DEF Sent, Expire, InCall, Round, Inv, Typed, TypeOK, windowVars
  <2> QED
    BY <1>0, <2>1 DEF SeatKept, CallOwnsWindow, WindowsInOrder, BatchKept, InCall, Issued
<1>2. CASE SendFailed(s)
  BY <1>2, KeptByReturn DEF SendFailed, InCall
<1>3. CASE Answered(s)
  BY <1>3, KeptByReturn DEF Answered, InCall
<1>4. CASE TimedOut(s)
  BY <1>4, KeptByReturn DEF TimedOut, InCall
<1>5. CASE Cancelled(s)
  <2>0. adm[t] \in AdmissionState
    BY DEF Inv, Typed, TypeOK
  <2>1. /\ phase # "asking" /\ UNCHANGED <<phase, hole, retry, reply, Round>>
        /\ ask'[t] = ask[t] \/ (t = s /\ ask'[t] = "returned")
    BY <1>5 DEF Cancelled, Round, Inv, Typed, TypeOK
  <2>2. CASE t # s
    <3>1. adm'[t] = adm[t] /\ pending'[t] = pending[t] /\ fut'[t] = fut[t] /\ ask'[t] = ask[t]
      BY <1>5, <2>2 DEF Cancelled, Inv, Typed, TypeOK
    <3> QED
      BY <1>0, <2>1, <3>1, SeatUntouched
  <2>3. CASE t = s
    <3>1. ask'[s] = "returned"
      BY <1>5 DEF Cancelled, Inv, Typed, TypeOK
    <3>2. /\ adm'[s].windows = adm[s].windows
          /\ adm'[s].accepted = adm[s].accepted
          /\ adm'[s].active = NoWindow /\ pending'[s] = NoWindow
      BY <1>0, <1>5, <2>0, <2>3
         DEF Cancelled, CloseWindow, SeatKept, CallOwnsWindow, AdmissionState, Inv, Typed, TypeOK
    <3> QED
      BY <1>0, <2>1, <2>3, <3>1, <3>2
         DEF SeatKept, CallOwnsWindow, WindowsInOrder, BatchKept, InCall, Issued
  <2> QED
    BY <2>2, <2>3
<1> QED
  BY <1>1, <1>2, <1>3, <1>4, <1>5, KeptByAsk DEF Call

\* Steps that leave the round: no call is out, and none is begun.
LEMMA KeptOutsideRound ==
    ASSUME Inv, NEW t \in Seats, ~InCall(t), ~InCall(t)', ask'[t] # "ready",
           phase' # "asking", UNCHANGED <<hole, retry, adm, pending>>
    PROVE  SeatKept(t)'
<1>1. SeatKept(t)
  BY DEF Inv, WindowInv, SeatKept
<1> QED
  BY <1>1 DEF SeatKept, CallOwnsWindow, WindowsInOrder, BatchKept, Issued, Round

LEMMA KeptByBeginHole ==
    ASSUME Inv, BeginHole, NEW t \in Seats
    PROVE  SeatKept(t)'
<1> USE DEF windowVars
<1>0. /\ SeatKept(t)
      /\ hole \in Nat
      /\ \A w \in Windows : w[1] \in Nat
  BY SeatWindowAssumption DEF Inv, WindowInv, SeatKept, Typed, TypeOK, HoleNumbers
<1>1. /\ ~InCall(t) /\ ask[t] # "ready"
      /\ ask'[t] = "ready" /\ reply'[t] = NoReply /\ ~retry' /\ hole' = hole + 1
      /\ UNCHANGED <<adm, pending>>
  BY DEF BeginHole, Open, Inv, Typed, CallsWhileAsking
<1>2. Round' = <<hole + 1, FALSE>> /\ Round' \in Windows
  <2>1. retry' = FALSE /\ hole' = hole + 1
    BY DEF BeginHole
  <2>2. Round' = <<hole + 1, FALSE>>
    BY <2>1 DEF Round
  <2>3. hole \in Nat /\ hole < Holes /\ Holes \in Nat
    BY <1>0, SeatWindowAssumption DEF BeginHole
  <2>4. hole + 1 \in HoleNumbers
    BY <2>3 DEF HoleNumbers
  <2> QED
    BY <2>2, <2>4, SeatWindowAssumption
<1>3. CallOwnsWindow(t)'
  BY <1>0, <1>1 DEF SeatKept, CallOwnsWindow, InCall
<1>4. WindowsInOrder(t)'
  <2>1. ASSUME NEW w \in Windows, Issued(adm[t], w)
        PROVE  w[1] <= hole + 1 /\ w # <<hole + 1, TRUE>> /\ w # Round'
    <3>1. w[1] <= hole /\ w[1] \in Nat /\ hole \in Nat
      BY <1>0, <2>1 DEF SeatKept, WindowsInOrder
    <3>2. w[1] <= hole + 1 /\ w[1] # hole + 1
      BY <3>1
    <3>3. hole + 1 = <<hole + 1, TRUE>>[1] /\ hole + 1 = <<hole + 1, FALSE>>[1]
      OBVIOUS
    <3>4. w # <<hole + 1, TRUE>> /\ w # <<hole + 1, FALSE>>
      BY <3>2, <3>3
    <3> QED
      BY <1>2, <3>2, <3>4
  <2>2. ~Issued(adm[t], Round')
    BY <1>2, <2>1
  <2> QED
    BY <1>0, <1>1, <2>1, <2>2 DEF SeatKept, WindowsInOrder, Issued
<1>5. BatchKept(t)'
  BY <1>1 DEF BatchKept, NoReply
<1> QED
  BY <1>3, <1>4, <1>5 DEF SeatKept

LEMMA KeptByRetryBatch ==
    ASSUME Inv, RetryBatch, NEW t \in Seats
    PROVE  SeatKept(t)'
<1> USE DEF windowVars
<1>0. SeatKept(t) /\ <<hole, FALSE>> \in Windows /\ <<hole, TRUE>> \in Windows
  BY SeatWindowAssumption
     DEF RetryBatch, Inv, WindowInv, SeatKept, Typed, CallsWhileAsking
<1>1. /\ ask[t] = "returned"
      /\ phase = "asking" /\ ~retry /\ retry'
      /\ UNCHANGED <<phase, hole, reply, adm, pending>>
      /\ Round = <<hole, FALSE>> /\ Round' = <<hole, TRUE>>
  <2>1. ask[t] # "idle"
    BY <1>0 DEF RetryBatch, SeatKept, BatchKept
  <2>2. retry = FALSE /\ retry' = TRUE
    BY DEF RetryBatch, Inv, Typed, TypeOK
  <2> QED
    BY <2>1, <2>2 DEF RetryBatch, BatchJoined, Round
<1>2. ask'[t] = IF reply[t].outcome # "action" THEN "ready" ELSE "idle"
  BY DEF RetryBatch, Open, Unanswered
<1>3. ~InCall(t) /\ ~InCall(t)'
  BY <1>1, <1>2 DEF InCall
<1>4. CallOwnsWindow(t)'
  BY <1>0, <1>1, <1>3 DEF SeatKept, CallOwnsWindow
<1>5. WindowsInOrder(t)'
  <2>1. ~Issued(adm[t], <<hole, TRUE>>)
    BY <1>0, <1>1 DEF SeatKept, WindowsInOrder
  <2> QED
    BY <1>0, <1>1, <2>1 DEF SeatKept, WindowsInOrder, Issued
<1>6. BatchKept(t)'
  <2>1. Issued(adm[t], <<hole, FALSE>>)
    BY <1>0, <1>1 DEF SeatKept, BatchKept
  <2> QED
    BY <1>0, <1>1, <1>2, <2>1 DEF SeatKept, BatchKept, Issued
<1> QED
  BY <1>4, <1>5, <1>6 DEF SeatKept

LEMMA KeptByEngine ==
    ASSUME Inv, Engine \/ Signal \/ Publish \/ Withhold, NEW t \in Seats
    PROVE  SeatKept(t)'
<1>1. CASE Install
  <2>1. ~InCall(t) /\ ~InCall(t)' /\ ask'[t] = "idle" /\ phase' # "asking"
    BY <1>1 DEF Install, Collected, BatchJoined, InCall
  <2> QED
    BY <1>1, <2>1, KeptOutsideRound DEF Install, windowVars
<1>2. CASE HoleScored \/ SandboxFault \/ EngineRaises \/ EndRun \/ Publish \/ Withhold
  <2>1. ~InCall(t) /\ ~InCall(t)' /\ ask'[t] # "ready" /\ phase' # "asking"
    BY <1>2 DEF HoleScored, SandboxFault, EngineRaises, EndRun, Publish, Withhold, Inv, Typed,
       CallsWhileAsking, InCall
  <2> QED
    BY <1>2, <2>1, KeptOutsideRound
       DEF HoleScored, SandboxFault, EngineRaises, EndRun, Publish, Withhold, windowVars
<1>3. CASE CallsCancelled
  <2>1. ~InCall(t) /\ ~InCall(t)' /\ ask'[t] = "idle" /\ phase' # "asking"
    BY <1>3 DEF CallsCancelled, BatchJoined, InCall
  <2> QED
    BY <1>3, <2>1, KeptOutsideRound DEF CallsCancelled, windowVars
<1>4. CASE Signal
  <2>1. phase' # "asking"
    BY <1>4 DEF Signal, Over
  <2>2. SeatKept(t)
    BY DEF Inv, WindowInv, SeatKept
  <2> QED
    BY <1>4, <2>1, <2>2
       DEF Signal, SeatKept, CallOwnsWindow, WindowsInOrder, BatchKept, InCall, Round, Issued,
           windowVars
<1> QED
  BY <1>1, <1>2, <1>3, <1>4, KeptByBeginHole, KeptByRetryBatch DEF Engine

LEMMA KeptByStop ==
    ASSUME Inv, NEW s \in Seats, Stop(s), NEW t \in Seats
    PROVE  SeatKept(t)'
<1>0. SeatKept(t) /\ adm[s] \in AdmissionState
  BY DEF Inv, WindowInv, SeatKept, Typed, TypeOK
<1>1. CASE SealUnused(s) \/ SendStop(s)
  <2>1. /\ adm'[t].windows = adm[t].windows
        /\ adm'[t].accepted = adm[t].accepted
        /\ adm'[t].active = adm[t].active \/ adm'[t].active = NoWindow
    <3>1. adm' = [adm EXCEPT ![s] = StopAdmission(@)] /\ adm \in [Seats -> AdmissionState]
      BY <1>1 DEF SealUnused, SendStop, Inv, Typed, TypeOK
    <3>2. CASE t # s
      BY <3>1, <3>2
    <3>3. CASE t = s
      <4>1. adm'[s] = [adm[s] EXCEPT !.stopping = TRUE, !.active = NoWindow]
        BY <3>1 DEF StopAdmission
      <4> QED
        BY <1>0, <3>3, <4>1 DEF AdmissionState
    <3> QED
      BY <3>2, <3>3
  <2> QED
    BY <1>0, <1>1, <2>1, SeatUntouched DEF SealUnused, SendStop, engineVars, windowVars
<1>2. CASE StopSent(s) \/ StopAcknowledged(s) \/ EvidenceSent(s) \/ StopOverdue(s)
  BY <1>0, <1>2, SeatUntouched
     DEF StopSent, StopAcknowledged, EvidenceSent, StopOverdue, engineVars, windowVars
<1> QED
  BY <1>1, <1>2 DEF Stop

\* What Install adds is justified by the replies it installs.
LEMMA DecisionsInstalled ==
    ASSUME Inv, Install
    PROVE  InstalledWasAccepted' /\ FallbackAfterRetry'
<1>0. /\ hole \in HoleNumbers
      /\ phase = "asking"
      /\ UNCHANGED adm
      /\ decision' = [decision EXCEPT ![hole] = [s \in Seats |-> Installed(reply[s])]]
      /\ decision \in [HoleNumbers -> [Seats -> Decision]]
  BY DEF Install, Inv, Typed, TypeOK, CallsWhileAsking
<1>1. ASSUME NEW s \in Seats
      PROVE  /\ LET w == Installed(reply[s]).window IN
                w # NoWindow => w[1] = hole /\ adm[s].accepted[w] # NoAction
             /\ Installed(reply[s]).cause # "none" =>
                   \A again \in BOOLEAN : Issued(adm[s], <<hole, again>>)
  <2>0. BatchKept(s)
    BY DEF Inv, WindowInv
  <2>1. CASE reply[s].outcome = "action"
    BY <1>0, <2>0, <2>1 DEF BatchKept, Installed
  <2>2. CASE reply[s].outcome # "action"
    <3>1. retry /\ ask[s] = "returned"
      BY <1>0, <2>0, <2>2 DEF Install, Collected, BatchJoined, Unanswered, BatchKept
    <3>2. retry = TRUE
      BY <3>1 DEF Inv, Typed, TypeOK
    <3>3. Issued(adm[s], <<hole, TRUE>>) /\ Issued(adm[s], <<hole, FALSE>>)
      BY <1>0, <2>0, <3>1, <3>2 DEF BatchKept, Round
    <3>4. \A again \in BOOLEAN : Issued(adm[s], <<hole, again>>)
      BY <3>3
    <3>5. Installed(reply[s]).window = NoWindow
      BY <2>2 DEF Installed
    <3> QED
      BY <3>4, <3>5
  <2> QED
    BY <2>1, <2>2
<1>2. ASSUME NEW h \in HoleNumbers, NEW s \in Seats
      PROVE  decision'[h][s] = IF h = hole THEN Installed(reply[s]) ELSE decision[h][s]
  BY <1>0
<1>3. InstalledWasAccepted'
  BY <1>0, <1>1, <1>2 DEF Inv, WindowInv, InstalledWasAccepted
<1>4. FallbackAfterRetry'
  BY <1>0, <1>1, <1>2 DEF Inv, WindowInv, FallbackAfterRetry
<1> QED
  BY <1>3, <1>4

LEMMA InvInit == Init => Inv
<1> SUFFICES ASSUME Init PROVE WindowInv
  BY TypedInit, AttemptInit DEF Inv
<1>1. \A s \in Seats : CallOwnsWindow(s) /\ WindowsInOrder(s) /\ BatchKept(s)
  BY DEF Init, EmptyAdmission, CallOwnsWindow, WindowsInOrder, BatchKept, InCall, Issued
<1>2. InstalledWasAccepted /\ FallbackAfterRetry
  BY DEF Init, InstalledWasAccepted, FallbackAfterRetry, Unplayed
<1> QED
  BY <1>1, <1>2 DEF WindowInv

LEMMA InvNext == Inv /\ [Next]_vars => Inv'
<1> SUFFICES ASSUME Inv, [Next]_vars PROVE WindowInv'
  BY TypedNext, AttemptNext DEF Inv
<1>1. ASSUME NEW t \in Seats PROVE SeatKept(t)'
  <2>1. ASSUME NEW s \in Seats, Player(s) \/ Call(s) \/ Stop(s)
        PROVE  SeatKept(t)'
    BY <2>1, KeptByPlayer, KeptByCall, KeptByStop
  <2>2. CASE Engine \/ Signal \/ Publish \/ Withhold
    BY <2>2, KeptByEngine
  <2>3. CASE UNCHANGED vars
    <3>1. SeatKept(t)
      BY DEF Inv, WindowInv, SeatKept
    <3> QED
      BY <2>3, <3>1, SeatUntouched DEF vars, engineVars, windowVars
  <2> QED
    BY <2>1, <2>2, <2>3 DEF Next, Terminated
<1>2. InstalledWasAccepted' /\ FallbackAfterRetry'
  <2>1. CASE Install
    BY <2>1, DecisionsInstalled
  <2>2. CASE ~Install
    <3>1. decision' = decision
      BY <2>2 DEF Next, Player, Call, Stop, Engine, Terminated, Connect, Greet, Disconnect,
         Deliver, DeliverReady, DeliverStarted, DeliverAction, DeliverBad, DeliverStopped,
         Ask, Sent, SendFailed, Answered, Expire, TimedOut, Return, BeginHole, RetryBatch,
         HoleScored, SandboxFault, EngineRaises, EndRun, CallsCancelled, Signal, Cancelled, SealUnused, SendStop, StopSent,
         StopAcknowledged, EvidenceSent, StopOverdue, Publish, Withhold, vars, engineVars
    <3> QED
      BY <3>1, DecisionsKept
  <2> QED
    BY <2>1, <2>2
<1> QED
  BY <1>1, <1>2 DEF WindowInv, SeatKept

LEMMA InvHolds == Spec => []Inv
BY InvInit, InvNext, PTL DEF Spec

\* An answer is installed only if admission accepted it in a window of that very
\* hole, however late answers, retries and reconnections interleave.
THEOREM InstalledAccepted == Spec => []InstalledWasAccepted
<1>1. Inv => InstalledWasAccepted
  BY DEF Inv, WindowInv
<1> QED
  BY <1>1, InvHolds, PTL

\* No interleaving costs a seat the second window of a hole it is given the
\* fallback for.
THEOREM FallbackNeedsRetry == Spec => []FallbackAfterRetry
<1>1. Inv => FallbackAfterRetry
  BY DEF Inv, WindowInv
<1> QED
  BY <1>1, InvHolds, PTL

\* The assertion deliver makes after consume holds: the active window is the one
\* whose future is pending.
THEOREM ActiveIsPending == Spec => []ActiveWindowPending
<1>1. Inv => ActiveWindowPending
  BY DEF Inv, WindowInv, CallOwnsWindow, ActiveWindowPending
<1> QED
  BY <1>1, InvHolds, PTL

\* Evidence is never rewritten, and a joined reader never reopens.
THEOREM EvidenceGrows == Spec => EvidenceMonotone
<1>1. Inv /\ [Next]_vars => [\A s \in Seats : Extends(adm[s], adm'[s])]_vars
  BY Grows
<1>2. Spec => [][\A s \in Seats : Extends(adm[s], adm'[s])]_vars
  BY <1>1, InvHolds, PTL DEF Spec
<1>3. ASSUME \A s \in Seats : Extends(adm[s], adm'[s])
      PROVE  \A s \in Seats :
          /\ \A w \in Windows :
                Issued(adm[s], w) => adm'[s].windows[w] = adm[s].windows[w]
          /\ \A a \in AttemptIds :
                /\ adm[s].attempts[a].window # NoWindow =>
                      adm'[s].attempts[a].window = adm[s].attempts[a].window
                /\ adm[s].attempts[a].reader = "joined" =>
                      adm'[s].attempts[a].reader = "joined"
  BY <1>3 DEF Extends
<1> QED
  BY <1>2, <1>3, PTL DEF EvidenceMonotone

\* A window is consumed at most once.
THEOREM ConsumedOnce == Spec => OneActionPerWindow
<1>1. Inv /\ [Next]_vars =>
        [\A s \in Seats, w \in Windows :
           adm[s].accepted[w] # NoAction => adm'[s].accepted[w] = adm[s].accepted[w]]_vars
  BY Grows DEF Extends
<1> QED
  BY <1>1, InvHolds, PTL DEF Spec, OneActionPerWindow

--------------------------------------------------------------------------------
(***************************************************************************)
(* The stop handshake.  Three facts of each step are enough: what it does  *)
(* to the seat's handshake, that admission only stops while the episode is *)
(* stopping, and that a sealed seat's readers are out of reach.            *)
(***************************************************************************)
StopBegun == phase \in {"stopping", "aborting", "published", "failed"}

\* A seat whose handshake, and whose admission's stopping flag, a step leaves
\* alone is still in order, if the episode does not leave the stop.
LEMMA StopUntouched ==
    ASSUME NEW s \in Seats, StopInOrder(s), StopBegun => StopBegun',
           stopper'[s] = stopper[s], stopMessage'[s] = stopMessage[s],
           sealed'[s] = sealed[s], stopped[s] => stopped'[s],
           adm'[s].stopping = adm[s].stopping
    PROVE  StopInOrder(s)'
BY DEF StopInOrder, StopBegun

\* The methods a packet or a call uses leave stopping alone.
LEMMA StoppingKept ==
    ASSUME NEW a \in AdmissionState
    PROVE  /\ \A w \in Windows, p \in Profiles : Issue(a, w, p).stopping = a.stopping
           /\ \A w \in Windows, i \in AttemptIds, r \in Readers :
                 Progress(a, w, i, r).stopping = a.stopping
           /\ \A w \in Windows, i \in AttemptIds \cup {NoAttempt} :
                 Consume(a, w, i).stopping = a.stopping
           /\ \A w : CloseWindow(a, w).stopping = a.stopping
BY DEF Issue, Progress, Consume, CloseWindow, AdmissionState

\* A player and the engine's call leave every handshake in order.
LEMMA OrderedByPlayer ==
    ASSUME Typed, NEW s \in Seats, Player(s) \/ Call(s), NEW t \in Seats, StopInOrder(t)
    PROVE  StopInOrder(t)'
<1> USE DEF engineVars, linkVars, windowVars, stopVars, StopBegun
<1>0. adm \in [Seats -> AdmissionState] /\ offer \in [Seats -> Profiles]
  BY DEF Typed, TypeOK
<1>1. CASE Connect(s) \/ Greet(s) \/ Disconnect(s)
  BY <1>1, StopUntouched DEF Connect, Greet, Disconnect
<1>2. CASE DeliverReady(s) \/ DeliverBad(s)
  BY <1>2, StopUntouched DEF DeliverReady, DeliverBad
<1>3. CASE DeliverStarted(s)
  <2>1. adm'[t].stopping = adm[t].stopping
    BY <1>0, <1>3, StoppingKept DEF DeliverStarted
  <2> QED
    BY <1>3, <2>1, StopUntouched DEF DeliverStarted
<1>4. CASE DeliverAction(s)
  <2>1. adm'[t].stopping = adm[t].stopping
    BY <1>0, <1>4, StoppingKept DEF DeliverAction
  <2> QED
    BY <1>4, <2>1, StopUntouched DEF DeliverAction
<1>5. CASE DeliverStopped(s)
  <2>1. stopped[t] => stopped'[t]
    BY <1>5 DEF DeliverStopped, Typed, TypeOK
  <2> QED
    BY <1>5, <2>1, StopUntouched DEF DeliverStopped
<1>6. CASE Ask(s)
  <2>1. adm'[t].stopping = adm[t].stopping
    BY <1>0, <1>6, StoppingKept, RoundIsWindow DEF Ask, Typed, CallsWhileAsking
  <2> QED
    BY <1>6, <2>1, StopUntouched DEF Ask
<1>7. CASE Sent(s) \/ Expire(s)
  BY <1>7, StopUntouched DEF Sent, Expire
<1>9. CASE Cancelled(s)
  <2>1. adm'[t].stopping = adm[t].stopping
    BY <1>0, <1>9, StoppingKept DEF Cancelled
  <2> QED
    BY <1>9, <2>1, StopUntouched DEF Cancelled
<1>8. CASE SendFailed(s) \/ Answered(s) \/ TimedOut(s)
  <2>1. PICK outcome : Return(s, outcome)
    BY <1>8 DEF SendFailed, Answered, TimedOut
  <2>2. adm'[t].stopping = adm[t].stopping
    BY <1>0, <2>1, StoppingKept DEF Return
  <2> QED
    BY <2>1, <2>2, StopUntouched DEF Return
<1> QED
  BY <1>1, <1>2, <1>3, <1>4, <1>5, <1>6, <1>7, <1>8, <1>9 DEF Player, Deliver, Call

\* stop_owner moves its own seat's handshake forward, in order.
LEMMA OrderedByStop ==
    ASSUME Typed, NEW s \in Seats, Stop(s), NEW t \in Seats, StopInOrder(t)
    PROVE  StopInOrder(t)'
<1> USE DEF engineVars, linkVars, windowVars, stopVars, StopBegun
<1>0. /\ adm \in [Seats -> AdmissionState] /\ stopper \in [Seats -> StopperStates]
      /\ stopMessage \in [Seats -> BOOLEAN] /\ sealed \in [Seats -> BOOLEAN]
  BY DEF Typed, TypeOK
<1>1. CASE t # s
  <2>1. /\ stopper'[t] = stopper[t] /\ stopMessage'[t] = stopMessage[t]
        /\ sealed'[t] = sealed[t] /\ stopped'[t] = stopped[t]
        /\ adm'[t] = adm[t] /\ phase' = phase
    BY <1>0, <1>1 DEF Stop, SealUnused, SendStop, StopSent, StopAcknowledged, EvidenceSent,
       StopOverdue, Stopper
  <2> QED
    BY <2>1, StopUntouched
<1>2. CASE t = s /\ SealUnused(s)
  <2>1. /\ phase' = phase /\ StopBegun /\ stopper'[s] = "joined" /\ sealed'[s]
        /\ stopMessage'[s] = stopMessage[s] /\ ~stopMessage[s]
    BY <1>0, <1>2 DEF Stop, SealUnused, Stopper, StopInOrder
  <2> QED
    BY <1>2, <2>1 DEF StopInOrder
<1>3. CASE t = s /\ SendStop(s)
  <2>1. /\ phase' = phase /\ StopBegun /\ stopper'[s] \in {"sending", "awaiting"}
        /\ sealed'[s] = sealed[s] /\ ~sealed[s]
    BY <1>0, <1>3 DEF Stop, SendStop, Stopper, StopInOrder
  <2> QED
    BY <1>3, <2>1 DEF StopInOrder
<1>4. CASE t = s /\ (StopSent(s) \/ StopOverdue(s))
  <2>1. /\ phase' = phase /\ stopper[s] \in {"sending", "awaiting", "acking"}
        /\ stopper'[s] \in {"awaiting", "unjoined"}
        /\ sealed'[s] = sealed[s] /\ ~sealed[s] /\ adm' = adm
    BY <1>0, <1>4 DEF StopSent, StopOverdue, Stopper, StopInOrder
  <2> QED
    BY <1>4, <2>1 DEF StopInOrder
<1>5. CASE t = s /\ StopAcknowledged(s)
  <2>1. /\ phase' = phase /\ stopper[s] = "awaiting"
        /\ stopper'[s] \in {"unjoined", "acking", "crashed"} /\ stopped'[s]
        /\ sealed'[s] = sealed[s] /\ ~sealed[s] /\ adm' = adm
    BY <1>0, <1>5 DEF StopAcknowledged, Stopper, StopInOrder
  <2> QED
    BY <1>5, <2>1 DEF StopInOrder
<1>6. CASE t = s /\ EvidenceSent(s)
  <2>1. /\ phase' = phase /\ stopper[s] = "acking" /\ stopper'[s] = "joined" /\ sealed'[s]
        /\ stopMessage' = stopMessage /\ stopped' = stopped /\ adm' = adm
    BY <1>0, <1>6 DEF EvidenceSent, Stopper
  <2> QED
    BY <1>6, <2>1 DEF StopInOrder
<1> QED
  BY <1>1, <1>2, <1>3, <1>4, <1>5, <1>6 DEF Stop

\* The engine does not leave the stop, and touches no handshake.
LEMMA OrderedByEngine ==
    ASSUME Engine \/ Signal \/ Publish \/ Withhold \/ UNCHANGED vars, NEW t \in Seats, StopInOrder(t)
    PROVE  StopInOrder(t)'
<1>1. /\ adm' = adm /\ stopper' = stopper /\ stopMessage' = stopMessage
      /\ sealed' = sealed /\ stopped' = stopped
  BY DEF Engine, BeginHole, RetryBatch, Install, HoleScored, SandboxFault, EngineRaises, EndRun,
     CallsCancelled, Signal, Over, Publish,
     Withhold, vars, engineVars, stopVars
<1>2. StopBegun => StopBegun'
  BY DEF Engine, BeginHole, RetryBatch, Install, HoleScored, SandboxFault, EngineRaises, EndRun,
     CallsCancelled, Signal, Over, Publish,
     Withhold, vars, engineVars, StopBegun
<1> QED
  BY <1>1, <1>2, StopUntouched

\* Publication needs every seat sealed, and a sealed seat takes no packet: its
\* readers, its stop and its acknowledgement stay as they were.
LEMMA PublicationKept ==
    ASSUME Typed, StopInv, [Next]_vars, phase' = "published"
    PROVE  OwnersJoined' /\ \A s \in Seats : ~HasUnsettledReaders(adm'[s])
<1> USE DEF engineVars, linkVars, windowVars, stopVars
<1>1. CASE Publish
  BY <1>1 DEF Publish, OwnersJoined, ReadersJoined
<1>2. CASE ~Publish
  <2>1. phase = "published"
    BY <1>2 DEF Next, Player, Call, Stop, Engine, Terminated, Connect, Greet, Disconnect,
       Deliver, DeliverReady, DeliverStarted, DeliverAction, DeliverBad, DeliverStopped,
       Ask, Sent, SendFailed, Answered, Expire, TimedOut, Return, BeginHole, RetryBatch,
       Install, HoleScored, SandboxFault, EngineRaises, EndRun, CallsCancelled, Signal, Cancelled, SealUnused, SendStop, StopSent,
       StopAcknowledged, EvidenceSent, StopOverdue, Withhold, vars
  <2>2. /\ OwnersJoined
        /\ \A s \in Seats : sealed[s] /\ ~HasUnsettledReaders(adm[s])
    BY <2>1 DEF StopInv, PublishedJoined
  <2>3. \A s \in Seats : ~InCall(s) /\ ask[s] # "ready"
    BY <2>1 DEF Typed, CallsWhileAsking
  <2>4. adm' = adm /\ stopper' = stopper
    BY <1>2, <2>1, <2>2, <2>3
       DEF Next, Player, Call, Stop, Engine, Terminated, Connect, Greet, Disconnect,
       Deliver, DeliverReady, DeliverStarted, DeliverAction, DeliverBad, DeliverStopped,
       Reading, InCall, OwnersJoined,
       Ask, Sent, SendFailed, Answered, Expire, TimedOut, BeginHole, RetryBatch,
       Install, HoleScored, SandboxFault, EngineRaises, EndRun, CallsCancelled, Signal, Cancelled, SealUnused, SendStop, StopSent,
       StopAcknowledged, EvidenceSent, StopOverdue, Withhold, vars
  <2> QED
    BY <2>2, <2>4 DEF OwnersJoined
<1> QED
  BY <1>1, <1>2

LEMMA StopInit == Init => StopInv
BY DEF Init, StopInv, StopInOrder, PublishedJoined, EmptyAdmission

LEMMA StopNext == Typed /\ StopInv /\ [Next]_vars => StopInv'
<1> SUFFICES ASSUME Typed, StopInv, [Next]_vars PROVE StopInv'
  OBVIOUS
<1>1. ASSUME NEW t \in Seats PROVE StopInOrder(t)'
  <2>1. StopInOrder(t)
    BY DEF StopInv
  <2> QED
    BY <2>1, OrderedByPlayer, OrderedByStop, OrderedByEngine DEF Next, Terminated
<1>2. phase' = "published" => OwnersJoined'
  BY PublicationKept
<1>3. PublishedJoined'
  <2> SUFFICES ASSUME phase' = "published", NEW s \in Seats
               PROVE  sealed'[s] /\ (stopMessage'[s] => stopped'[s])
                      /\ ~HasUnsettledReaders(adm'[s])
    BY DEF PublishedJoined
  <2>1. stopper'[s] = "joined" /\ ~HasUnsettledReaders(adm'[s])
    BY PublicationKept DEF OwnersJoined
  <2> QED
    BY <1>1, <2>1 DEF StopInOrder
<1> QED
  BY <1>1, <1>2, <1>3 DEF StopInv

LEMMA StopHolds == Spec => []StopInv
<1>1. Init => Typed /\ StopInv
  BY TypedInit, StopInit
<1>2. Typed /\ StopInv /\ [Next]_vars => (Typed /\ StopInv)'
  BY TypedNext, StopNext
<1> QED
  BY <1>1, <1>2, PTL DEF Spec

\* Published results rest on owners that are all joined, for good.
THEOREM PublicationIsJoined == Spec => []PublishedJoined
<1>1. StopInv => PublishedJoined
  BY DEF StopInv
<1> QED
  BY <1>1, StopHolds, PTL

\* Admission never refuses the engine a window.
THEOREM EngineNeverRefused == Spec => []WindowAlwaysIssued
<1>1. Inv /\ StopInv => WindowAlwaysIssued
  <2> SUFFICES ASSUME Inv, StopInv, NEW s \in Seats, ask[s] = "ready"
               PROVE  MayIssue(adm[s], Round)
    BY DEF WindowAlwaysIssued
  <2>1. phase \in {"asking", "cancelling"} /\ ~InCall(s)
    BY DEF Inv, Typed, CallsWhileAsking, InCall
  <2>2. adm[s].active = NoWindow /\ ~Issued(adm[s], Round)
    BY <2>1 DEF Inv, WindowInv, CallOwnsWindow, WindowsInOrder
  <2>3. ~adm[s].stopping
    BY <2>1 DEF StopInv, StopInOrder
  <2> QED
    BY <2>2, <2>3 DEF MayIssue
<1> QED
  BY <1>1, InvHolds, StopHolds, PTL

(***************************************************************************)
(* The abstract episode.  Only the phase and the two hole counters matter  *)
(* to it, and between two holes those counters agree.                      *)
(***************************************************************************)
CountersAgree == phase = "between" => holesPlayed = hole

LEMMA PhaseKept ==
    ASSUME NEW s \in Seats, Player(s) \/ Call(s) \/ Stop(s)
    PROVE  UNCHANGED <<phase, hole, holesPlayed>>
<1>1. CASE Player(s)
  BY <1>1 DEF Player, Connect, Greet, Disconnect, Deliver, DeliverReady, DeliverStarted,
             DeliverAction, DeliverBad, DeliverStopped, engineVars
<1>2. CASE Call(s)
  BY <1>2 DEF Call, Ask, Sent, SendFailed, Answered, Expire, TimedOut, Cancelled, Return
<1>3. CASE Stop(s)
  BY <1>3 DEF Stop, SealUnused, SendStop, StopSent, StopAcknowledged, EvidenceSent,
             StopOverdue, engineVars
<1> QED
  BY <1>1, <1>2, <1>3

LEMMA CountersNext == Typed /\ CountersAgree /\ [Next]_vars => CountersAgree'
<1> SUFFICES ASSUME Typed, CountersAgree, [Next]_vars PROVE CountersAgree'
  OBVIOUS
<1> USE DEF CountersAgree
<1>1. CASE UNCHANGED <<phase, hole, holesPlayed>>
  BY <1>1
<1>2. CASE Engine
  BY <1>2 DEF Engine, BeginHole, RetryBatch, Install, HoleScored, SandboxFault, EngineRaises,
             EndRun, CallsCancelled
<1>3. CASE Signal \/ Publish \/ Withhold
  BY <1>3 DEF Signal, Publish, Withhold
<1> QED
  BY <1>1, <1>2, <1>3, PhaseKept DEF Next, Terminated, vars, engineVars

LEMMA StepRefines == Typed /\ CountersAgree /\ [Next]_vars => [Episode!Next]_(Episode!vars)
<1> SUFFICES ASSUME Typed, CountersAgree, [Next]_vars PROVE [Episode!Next]_(Episode!vars)
  OBVIOUS
<1> USE DEF Stage, Episode!Next, Episode!vars
<1>1. CASE UNCHANGED <<phase, hole, holesPlayed>>
  BY <1>1
<1>2. CASE BeginHole
  <2>1. Episode!OpenHole
    BY <1>2 DEF BeginHole, CountersAgree, Episode!OpenHole
  <2> QED
    BY <2>1
<1>3. CASE Install
  <2>1. Episode!Judge
    BY <1>3 DEF Install, Episode!Judge
  <2> QED
    BY <2>1
<1>4. CASE HoleScored
  <2>1. Episode!Score
    BY <1>4 DEF HoleScored, Episode!Score
  <2> QED
    BY <2>1
<1>5. CASE SandboxFault \/ EngineRaises \/ EndRun
  <2>1. Episode!End
    BY <1>5 DEF SandboxFault, EngineRaises, EndRun, Episode!End
  <2> QED
    BY <2>1
<1>6. CASE RetryBatch \/ CallsCancelled
  BY <1>6 DEF RetryBatch, CallsCancelled
<1>7. CASE Signal
  <2>1. CASE phase \in {"asking", "between", "judging"}
    <3>1. Episode!End
      BY <1>7, <2>1 DEF Signal, Episode!End
    <3> QED
      BY <3>1
  <2>2. CASE phase \in {"stopping", "aborting"}
    <3>1. Episode!Withhold
      BY <1>7, <2>2 DEF Signal, Episode!Withhold
    <3> QED
      BY <3>1
  <2> QED
    BY <1>7, <2>1, <2>2 DEF Signal, Over, Typed, TypeOK, Phases
<1>8. CASE Publish
  <2>1. Episode!Publish
    BY <1>8 DEF Publish, Episode!Publish
  <2> QED
    BY <2>1
<1>9. CASE Withhold
  <2>1. Episode!Withhold
    BY <1>9 DEF Withhold, Episode!Withhold
  <2> QED
    BY <2>1
<1> QED
  BY <1>1, <1>2, <1>3, <1>4, <1>5, <1>6, <1>7, <1>8, <1>9, PhaseKept
     DEF Next, Engine, Terminated, vars, engineVars

\* The seats, the engine and publication implement the abstract episode.
THEOREM MatchRefined == Spec => ImplementsMatch
<1>1. Init => Episode!Init
  BY DEF Init, Episode!Init, Stage
<1>2. Init => Typed /\ CountersAgree
  BY TypedInit DEF Init, CountersAgree
<1>3. Typed /\ CountersAgree /\ [Next]_vars => (Typed /\ CountersAgree)'
  BY TypedNext, CountersNext
<1> QED
  BY <1>1, <1>2, <1>3, StepRefines, PTL DEF Spec, ImplementsMatch, Episode!Spec

================================================================================
