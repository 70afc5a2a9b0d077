-------------------------- MODULE PlayerSessionProofs --------------------------
(***************************************************************************)
(* Theorems about PlayerSession, for any windows, attempts and limits: the *)
(* server's end of a session is a seat of SeatWindow, and what the two     *)
(* ends may still do to each other once either has begun to leave.         *)
(***************************************************************************)
EXTENDS PlayerSession, SeatWindowProofs, SequenceTheorems

LEMMA OwnSeat == Own \in Seats /\ Seats = {Own}
BY SessionAssumption

--------------------------------------------------------------------------------
(***************************************************************************)
(* Refinement: each step of a session is one of the seat, or none of it.   *)
(***************************************************************************)

\* The player's own steps touch nothing of the server, except that it connects.
LEMMA PlayerIsOutside ==
    ASSUME Main \/ Worker \/ Policy \/ \E i \in DOMAIN writers : WriterSend(i)
    PROVE  Player(Own) \/ UNCHANGED vars
<1>1. CASE Main
  BY <1>1 DEF Main, Join, Player, NeverJoins, OnWelcome, OnObservation, PreviousJoined, OnStop,
     OwnersStopped, SendStopped, DrainStuck, OnEvidence, OnEnd, WorkerFailed, Flush, Exit
<1>2. CASE Worker
  BY <1>2 DEF Worker, GotPayload, Deadline, Fallback, Unreadable, Submit, FinishStuck, WorkerCancelled
<1>3. CASE Policy
  BY <1>3 DEF Policy, TryAttempt, Degrade, Request, Headers, ResponseEnds, Closed, CloseStuck,
     CloseInterrupted, CallOnly
<1>4. CASE \E i \in DOMAIN writers : WriterSend(i)
  BY <1>4 DEF WriterSend
<1> QED
  BY <1>1, <1>2, <1>3, <1>4

\* A frame of this player is one of four.
LEMMA FrameTypes ==
    ASSUME SessionTypeOK, toServer # <<>>
    PROVE  /\ Head(toServer) \in ToServer
           /\ Head(toServer).type \in {"ready", "attempt_started", "action", "stopped"}
<1>1. Head(toServer) \in ToServer
  BY HeadTailProperties DEF SessionTypeOK
<1> QED
  BY <1>1 DEF ToServer, Plain, Started, Action

LEMMA ReceiveIsDeliver ==
    ASSUME SessionTypeOK, Receive
    PROVE  Player(Own)
<1>1. Head(toServer).type \in {"ready", "attempt_started", "action", "stopped"}
  BY FrameTypes DEF Receive
<1>2. Delivered(Head(toServer)) => Deliver(Own)
  BY <1>1 DEF Delivered, Deliver
<1> QED
  BY <1>2 DEF Receive, Player, Live

LEMMA SessionIsSeat ==
    ASSUME SessionTypeOK, [SessionNext]_sessionVars
    PROVE  [Next]_vars
<1> USE OwnSeat
<1>1. CASE Main \/ Worker \/ Policy \/ \E i \in DOMAIN writers : WriterSend(i)
  BY <1>1, PlayerIsOutside DEF Next
<1>2. CASE Receive
  BY <1>2, ReceiveIsDeliver DEF Next
<1>3. CASE Refuse \/ Welcomed \/ Hangup \/ Drop
  BY <1>3 DEF Refuse, Welcomed, Hangup, Drop, Live, Next, Player
<1>4. CASE Observe \/ Unheard
  BY <1>4 DEF Observe, Unheard, Next, Call
<1>5. CASE TellStop \/ TellEvidence
  BY <1>5 DEF TellStop, TellEvidence, Stopping, Next, Stop
<1>6. CASE TellDone \/ Shutdown \/ Fail
  BY <1>6 DEF TellDone, Shutdown, Fail, Next, Player
<1>7. CASE Quiet
  BY <1>7 DEF Quiet, Stopping, Next, Call, Stop
<1>8. CASE Ended \/ UNCHANGED sessionVars
  BY <1>8 DEF Ended, sessionVars
<1> QED
  BY <1>1, <1>2, <1>3, <1>4, <1>5, <1>6, <1>7, <1>8 DEF SessionNext, Server

--------------------------------------------------------------------------------
(***************************************************************************)
(* What the operations do to the queues and to the writers.                *)
(***************************************************************************)
Longer(q, r, x) ==
    /\ Len(r) = Len(q) + 1
    /\ \A i \in 1..Len(q) : r[i] = q[i]
    /\ r[Len(q) + 1] = x

Shorter(q, r) ==
    /\ Len(q) > 0
    /\ Len(r) = Len(q) - 1
    /\ \A i \in 1..Len(r) : r[i] = q[i + 1]

\* A queue is a function on an interval, which is empty or has a head.
LEMMA QueueFacts ==
    ASSUME NEW S, NEW q \in Seq(S)
    PROVE  /\ Len(q) \in Nat /\ DOMAIN q = 1..Len(q)
           /\ \A i \in 1..Len(q) : q[i] \in S
           /\ q = <<>> <=> Len(q) = 0
           /\ q # <<>> => Head(q) = q[1] /\ Tail(q) \in Seq(S) /\ Shorter(q, Tail(q))
<1>1. Len(q) \in Nat /\ DOMAIN q = 1..Len(q) /\ \A i \in 1..Len(q) : q[i] \in S
  BY LenProperties, ElementOfSeq
<1>2. q = <<>> <=> Len(q) = 0
  BY EmptySeq
<1>3. ASSUME q # <<>>
      PROVE  Head(q) = q[1] /\ Tail(q) \in Seq(S) /\ Shorter(q, Tail(q))
  <2>1. Tail(q) \in Seq(S) /\ Len(Tail(q)) = Len(q) - 1
        /\ \A i \in 1..Len(Tail(q)) : Tail(q)[i] = q[i + 1]
    BY <1>3, HeadTailProperties
  <2>2. Head(q) = q[1]
    OBVIOUS
  <2> QED
    BY <1>1, <1>2, <1>3, <2>1, <2>2 DEF Shorter
<1> QED
  BY <1>1, <1>2, <1>3

LEMMA AppendIsLonger ==
    ASSUME NEW S, NEW q \in Seq(S), NEW x \in S
    PROVE  /\ Append(q, x) \in Seq(S) /\ Longer(q, Append(q, x), x)
           /\ q \o <<x>> = Append(q, x)
           /\ q \o <<>> = q
BY AppendProperties, AppendIsConcat, ConcatEmptySeq DEF Longer

\* What the frames hold.
LEMMA PlayerFrames ==
    /\ \A t \in {"welcome", "stop", "evidence", "done", "close"} : Plain(t) \in ToPlayer
    /\ \A w \in Windows : Observed(w) \in ToPlayer
    /\ \A f \in ToPlayer :
          /\ f.type \in {"welcome", "stop", "evidence", "done", "close", "observation"}
          /\ f.type = "observation" => f.window \in Windows
<1>1. /\ \A t \in {"welcome", "stop", "evidence", "done", "close"} : Plain(t) \in ToPlayer
      /\ \A w \in Windows : Observed(w) \in ToPlayer
  BY DEF ToPlayer
<1>2. ASSUME NEW t \in {"welcome", "stop", "evidence", "done", "close"}
      PROVE  Plain(t).type = t
  BY DEF Plain
<1>3. ASSUME NEW w \in Windows
      PROVE  Observed(w).type = "observation" /\ Observed(w).window = w
  BY DEF Observed
<1>4. ASSUME NEW f \in ToPlayer
      PROVE  \/ \E t \in {"welcome", "stop", "evidence", "done", "close"} : f = Plain(t)
             \/ \E w \in Windows : f = Observed(w)
  BY DEF ToPlayer
<1> QED
  BY <1>1, <1>2, <1>3, <1>4

LEMMA ServerFrames ==
    /\ Ready \in ToServer /\ Stopped \in ToServer
    /\ \A w \in Windows, s \in Snapshot : Started(w, s) \in ToServer
    /\ \A w \in Windows, a \in AttemptIds \cup {NoAttempt}, fits \in BOOLEAN :
             Action(w, a, fits) \in ToServer
    /\ \A f \in ToServer :
          /\ f.type \in {"ready", "stopped", "attempt_started", "action"}
          /\ f.type = "ready" => f = Ready
          /\ f.type = "stopped" => f = Stopped
          /\ f.type = "attempt_started" =>
                f.window \in Windows /\ f.attempt \in AttemptIds /\ f.reader \in Readers
          /\ f.type = "action" =>
                /\ f.window \in Windows /\ f.selected \in AttemptIds \cup {NoAttempt}
                /\ f.fits \in BOOLEAN
<1>1. /\ Ready \in ToServer /\ Stopped \in ToServer
      /\ \A w \in Windows, s \in Snapshot : Started(w, s) \in ToServer
      /\ \A w \in Windows, a \in AttemptIds \cup {NoAttempt}, fits \in BOOLEAN :
             Action(w, a, fits) \in ToServer
  BY DEF ToServer, Ready, Stopped
<1>2. Ready.type = "ready" /\ Stopped.type = "stopped"
  BY DEF Ready, Stopped, Plain
<1>3. ASSUME NEW w \in Windows, NEW s \in Snapshot
      PROVE  /\ Started(w, s).type = "attempt_started" /\ Started(w, s).window = w
             /\ Started(w, s).attempt \in AttemptIds /\ Started(w, s).reader \in Readers
  BY DEF Started, Snapshot
<1>4. ASSUME NEW w \in Windows, NEW a \in AttemptIds \cup {NoAttempt}, NEW fits \in BOOLEAN
      PROVE  /\ Action(w, a, fits).type = "action" /\ Action(w, a, fits).window = w
             /\ Action(w, a, fits).selected = a /\ Action(w, a, fits).fits = fits
  BY DEF Action
<1>5. ASSUME NEW f \in ToServer
      PROVE  \/ f = Ready \/ f = Stopped
             \/ \E w \in Windows, s \in Snapshot : f = Started(w, s)
             \/ \E w \in Windows, a \in AttemptIds \cup {NoAttempt}, fits \in BOOLEAN :
                    f = Action(w, a, fits)
  BY DEF ToServer, Ready, Stopped
<1> QED
  BY <1>1, <1>2, <1>3, <1>4, <1>5

\* A frame told is the last one on its way, unless the player has gone.
LEMMA TellFacts ==
    ASSUME SessionTypeOK, NEW x \in ToPlayer, Tell(<<x>>)
    PROVE  /\ toPlayer' \in Seq(ToPlayer)
           /\ IF Gone THEN toPlayer' = toPlayer ELSE Longer(toPlayer, toPlayer', x)
<1>1. toPlayer \in Seq(ToPlayer)
  BY DEF SessionTypeOK
<1>2. /\ toPlayer \o <<x>> \in Seq(ToPlayer)
      /\ Longer(toPlayer, toPlayer \o <<x>>, x)
  BY <1>1, AppendIsLonger
<1> QED
  BY <1>1, <1>2 DEF Tell

LEMMA TellIfFacts ==
    ASSUME SessionTypeOK, NEW x \in ToPlayer, NEW c \in BOOLEAN, TellIf(c, <<x>>)
    PROVE  /\ toPlayer' \in Seq(ToPlayer)
           /\ IF c /\ ~Gone THEN Longer(toPlayer, toPlayer', x) ELSE toPlayer' = toPlayer
BY TellFacts DEF TellIf, SessionTypeOK

\* A frame sent is the last one on its way, unless nobody reads the socket.
LEMMA SendFacts ==
    ASSUME SessionTypeOK, NEW x \in ToServer, Send(x)
    PROVE  /\ toServer' \in Seq(ToServer)
           /\ IF link[Own] = "down" \/ phase = "failed"
              THEN toServer' = toServer ELSE Longer(toServer, toServer', x)
BY AppendIsLonger DEF SessionTypeOK, Send

\* The snapshots a writer still has to send, as a set.
Members(q) == {q[i] : i \in DOMAIN q}

LEMMA PutFacts ==
    ASSUME NEW q \in Seq(Snapshot), IsDictionary(q), NEW s \in Snapshot
    PROVE  /\ Put(q, s) \in Seq(Snapshot) /\ IsDictionary(Put(q, s))
           /\ Members(Put(q, s)) = {t \in Members(q) : t.attempt # s.attempt} \cup {s}
<1> Len(q) \in Nat /\ DOMAIN q = 1..Len(q) /\ \A i \in 1..Len(q) : q[i] \in Snapshot
  BY QueueFacts
<1>1. CASE \E i \in DOMAIN q : q[i].attempt = s.attempt
  <2> DEFINE r == [i \in 1..Len(q) |-> IF q[i].attempt = s.attempt THEN s ELSE q[i]]
  <2>1. Put(q, s) = r
    BY <1>1 DEF Put
  <2>2. r \in [1..Len(q) -> Snapshot] /\ DOMAIN r = 1..Len(q)
    OBVIOUS
  <2>3. r \in Seq(Snapshot)
    BY <2>2, SeqDef
  <2>4. IsDictionary(r)
    BY <2>2 DEF IsDictionary
  <2>5. Members(r) = {t \in Members(q) : t.attempt # s.attempt} \cup {s}
    <3>1. ASSUME NEW t \in Members(r)
          PROVE  t \in {u \in Members(q) : u.attempt # s.attempt} \cup {s}
      BY <2>2 DEF Members
    <3>2. ASSUME NEW t \in Members(q), t.attempt # s.attempt
          PROVE  t \in Members(r)
      <4>1. PICK i \in 1..Len(q) : t = q[i]
        BY DEF Members
      <4>2. r[i] = t
        BY <4>1, <3>2
      <4> QED
        BY <2>2, <4>2 DEF Members
    <3>3. s \in Members(r)
      <4>1. PICK i \in 1..Len(q) : q[i].attempt = s.attempt
        BY <1>1
      <4>2. r[i] = s
        BY <4>1
      <4> QED
        BY <2>2, <4>2 DEF Members
    <3> QED
      BY <3>1, <3>2, <3>3
  <2> QED
    BY <2>1, <2>3, <2>4, <2>5
<1>2. CASE ~\E i \in DOMAIN q : q[i].attempt = s.attempt
  <2> DEFINE r == Append(q, s)
  <2>1. Put(q, s) = r
    BY <1>2 DEF Put
  <2>2. r \in Seq(Snapshot) /\ Longer(q, r, s)
    BY AppendIsLonger
  <2>3. DOMAIN r = 1..(Len(q) + 1) /\ r[Len(q) + 1] = s /\ \A i \in 1..Len(q) : r[i] = q[i]
    BY <2>2, QueueFacts DEF Longer
  <2> HIDE DEF r
  <2>4. IsDictionary(r)
    BY <1>2, <2>3 DEF IsDictionary
  <2>5. Members(r) = Members(q) \cup {s}
    BY <2>3 DEF Members
  <2>6. \A t \in Members(q) : t.attempt # s.attempt
    BY <1>2 DEF Members
  <2> QED
    BY <2>1, <2>2, <2>4, <2>5, <2>6
<1> QED
  BY <1>1, <1>2

LEMMA RestOfDictionary ==
    ASSUME NEW q \in Seq(Snapshot), IsDictionary(q), q # <<>>
    PROVE  /\ Tail(q) \in Seq(Snapshot) /\ IsDictionary(Tail(q))
           /\ Head(q) \in Snapshot /\ Head(q) \in Members(q)
           /\ Members(Tail(q)) = Members(q) \ {Head(q)}
           /\ \A t \in Members(q) : t # Head(q) => t.attempt # Head(q).attempt
<1> DEFINE r == Tail(q)
<1>1. /\ Len(q) \in Nat /\ Len(q) > 0 /\ DOMAIN q = 1..Len(q) /\ Head(q) = q[1]
      /\ \A i \in 1..Len(q) : q[i] \in Snapshot
      /\ r \in Seq(Snapshot) /\ DOMAIN r = 1..(Len(q) - 1)
      /\ \A i \in 1..(Len(q) - 1) : r[i] = q[i + 1]
  BY QueueFacts DEF Shorter
<1>2. \A i, j \in 1..Len(q) : q[i].attempt = q[j].attempt => i = j
  BY <1>1 DEF IsDictionary
<1> HIDE DEF r
<1>3. IsDictionary(r)
  <2> SUFFICES ASSUME NEW i \in 1..(Len(q) - 1), NEW j \in 1..(Len(q) - 1), r[i].attempt = r[j].attempt
               PROVE  i = j
    BY <1>1 DEF IsDictionary
  <2>1. i + 1 \in 1..Len(q) /\ j + 1 \in 1..Len(q)
    BY <1>1
  <2>2. q[i + 1].attempt = q[j + 1].attempt
    BY <1>1
  <2>3. i + 1 = j + 1
    BY <1>2, <2>1, <2>2
  <2> QED
    BY <2>3
<1>4. \A t \in Members(q) : t # Head(q) => t.attempt # Head(q).attempt
  BY <1>1, <1>2 DEF Members
<1>5. Members(r) = Members(q) \ {Head(q)}
  <2>1. ASSUME NEW t \in Members(r)
        PROVE  t \in Members(q) /\ t # Head(q)
    <3>1. PICK i \in 1..(Len(q) - 1) : t = r[i]
      BY <1>1 DEF Members
    <3>2. i + 1 \in 1..Len(q) /\ t = q[i + 1] /\ i + 1 # 1 /\ 1 \in 1..Len(q)
      BY <1>1, <3>1
    <3> QED
      BY <1>1, <1>2, <3>2 DEF Members
  <2>2. ASSUME NEW t \in Members(q), t # Head(q)
        PROVE  t \in Members(r)
    <3>1. PICK i \in 1..Len(q) : t = q[i]
      BY <1>1 DEF Members
    <3>2. i - 1 \in 1..(Len(q) - 1) /\ r[i - 1] = t
      BY <1>1, <2>2, <3>1
    <3> QED
      BY <1>1, <3>2 DEF Members
  <2> QED
    BY <2>1, <2>2
<1>6. Head(q) \in Snapshot /\ Head(q) \in Members(q)
  BY <1>1 DEF Members
<1> QED
  BY <1>1, <1>3, <1>4, <1>5, <1>6 DEF r

\* A writer that is done has nothing left to send.
Sound(w) ==
    /\ w \in Writer
    /\ IsDictionary(w.latest)
    /\ w.task = "done" => w.latest = <<>>

\* Writers are told to end, one way or the other.
Quieter(ws, us) ==
    /\ us \in Seq(Writer)
    /\ Len(us) = Len(ws)
    /\ \A i \in 1..Len(ws) :
          /\ us[i].window = ws[i].window
          /\ us[i].latest = ws[i].latest
          /\ us[i].task # ws[i].task =>
                /\ ws[i].task = "running"
                /\ us[i].task = "done" => ws[i].latest = <<>>

LEMMA RestFacts ==
    ASSUME NEW w \in Writer
    PROVE  /\ Rest(w) \in Writer
           /\ Rest(w).window = w.window /\ Rest(w).latest = w.latest /\ Rest(w).closed = w.closed
           /\ Rest(w).task # w.task => w.task = "running" /\ w.closed /\ Rest(w).task = "done" /\ w.latest = <<>>
BY DEF Rest, Writer

LEMMA SealingFacts ==
    ASSUME NEW w \in Writer
    PROVE  /\ Sealing(w) \in Writer
           /\ Sealing(w).window = w.window /\ Sealing(w).latest = w.latest
           /\ Sealing(w).task # w.task =>
                 w.task = "running" /\ Sealing(w).task = "done" /\ w.latest = <<>>
<1> DEFINE c == [w EXCEPT !.closed = TRUE]
<1>1. c \in Writer /\ c.window = w.window /\ c.latest = w.latest /\ c.task = w.task
  BY DEF Writer
<1>2. Sealing(w) = Rest(c)
  BY DEF Sealing
<1> HIDE DEF c
<1> QED
  BY <1>1, <1>2, RestFacts

LEMMA AbandonedFacts ==
    ASSUME NEW w \in Writer
    PROVE  /\ Abandoned(w) \in Writer
           /\ Abandoned(w).window = w.window /\ Abandoned(w).latest = w.latest
           /\ Abandoned(w).task = IF w.task = "running" THEN "cancelled" ELSE w.task
BY DEF Abandoned, Writer

LEMMA ShortenedFacts ==
    ASSUME NEW w \in Writer, IsDictionary(w.latest), w.latest # <<>>
    PROVE  /\ Shortened(w) \in Writer
           /\ Shortened(w).window = w.window /\ Shortened(w).latest = Tail(w.latest)
           /\ Shortened(w).closed = w.closed
           /\ Shortened(w).task # w.task =>
                 w.task = "running" /\ w.closed /\ Shortened(w).task = "done" /\ Tail(w.latest) = <<>>
<1> DEFINE c == [w EXCEPT !.latest = Tail(w.latest)]
<1>1. w.latest \in Seq(Snapshot)
  BY DEF Writer
<1>2. Tail(w.latest) \in Seq(Snapshot)
  BY <1>1, RestOfDictionary
<1>3. c \in Writer /\ c.window = w.window /\ c.latest = Tail(w.latest) /\ c.closed = w.closed
      /\ c.task = w.task
  BY <1>2 DEF Writer
<1>4. Shortened(w) = Rest(c)
  BY DEF Shortened
<1> HIDE DEF c
<1>5. /\ Rest(c) \in Writer
      /\ Rest(c).window = c.window /\ Rest(c).latest = c.latest /\ Rest(c).closed = c.closed
      /\ Rest(c).task # c.task =>
            c.task = "running" /\ c.closed /\ Rest(c).task = "done" /\ c.latest = <<>>
  BY <1>3, RestFacts
<1> QED
  BY <1>3, <1>4, <1>5

LEMMA HandedFacts ==
    ASSUME NEW w \in Writer, IsDictionary(w.latest), NEW s \in Snapshot
    PROVE  /\ Handed(w, s) \in Writer
           /\ IsDictionary(Handed(w, s).latest)
           /\ Members(Handed(w, s).latest) =
                 {t \in Members(w.latest) : t.attempt # s.attempt} \cup {s}
           /\ Handed(w, s).window = w.window /\ Handed(w, s).closed = w.closed
           /\ Handed(w, s).task = w.task
<1>1. w.latest \in Seq(Snapshot)
  BY DEF Writer
<1>2. /\ Put(w.latest, s) \in Seq(Snapshot) /\ IsDictionary(Put(w.latest, s))
      /\ Members(Put(w.latest, s)) = {t \in Members(w.latest) : t.attempt # s.attempt} \cup {s}
  BY <1>1, PutFacts
<1> DEFINE p == Put(w.latest, s)
<1>3. Handed(w, s) = [w EXCEPT !.latest = p]
  BY DEF Handed
<1> HIDE DEF p
<1>4. p \in Seq(Snapshot)
  BY <1>2 DEF p
<1>5. /\ [w EXCEPT !.latest = p] \in Writer
      /\ [w EXCEPT !.latest = p].latest = p /\ [w EXCEPT !.latest = p].window = w.window
      /\ [w EXCEPT !.latest = p].closed = w.closed /\ [w EXCEPT !.latest = p].task = w.task
  BY <1>4 DEF Writer
<1> QED
  BY <1>2, <1>3, <1>5 DEF p

LEMMA SealedFacts ==
    ASSUME NEW ws \in Seq(Writer)
    PROVE  Quieter(ws, Sealed(ws))
<1>1. CASE ws = <<>>
  BY <1>1, QueueFacts DEF Sealed, Quieter
<1>2. CASE ws # <<>>
  <2> DEFINE n == Len(ws)
             w == Sealing(ws[n])
  <2>1. n \in 1..Len(ws) /\ \A i \in 1..Len(ws) : ws[i] \in Writer
    BY <1>2, QueueFacts
  <2>2. w \in Writer
    BY <2>1, SealingFacts
  <2>3. Sealed(ws) = [ws EXCEPT ![n] = w]
    BY <1>2 DEF Sealed
  <2>4. /\ [ws EXCEPT ![n] = w] \in Seq(Writer)
        /\ Len([ws EXCEPT ![n] = w]) = Len(ws)
        /\ \A j \in 1..Len(ws) : [ws EXCEPT ![n] = w][j] = IF j = n THEN w ELSE ws[j]
    BY <2>1, <2>2, ExceptSeq
  <2>5. /\ w.window = ws[n].window /\ w.latest = ws[n].latest
        /\ w.task # ws[n].task => ws[n].task = "running" /\ w.task = "done" /\ ws[n].latest = <<>>
    BY <2>1, SealingFacts
  <2> HIDE DEF w
  <2> QED
    BY <2>3, <2>4, <2>5 DEF Quieter
<1> QED
  BY <1>1, <1>2

LEMMA MappedFacts ==
    ASSUME NEW ws \in Seq(Writer), NEW us \in [DOMAIN ws -> Writer],
           \A i \in DOMAIN ws : us[i] \in {ws[i], Abandoned(ws[i])}
    PROVE  Quieter(ws, us)
<1>1. Len(ws) \in Nat /\ DOMAIN ws = 1..Len(ws) /\ \A i \in 1..Len(ws) : ws[i] \in Writer
  BY QueueFacts
<1>2. us \in Seq(Writer) /\ Len(us) = Len(ws)
  <2>1. us \in Seq(Writer)
    BY <1>1, SeqDef
  <2> QED
    BY <1>1, <2>1, LenProperties
<1>3. \A i \in 1..Len(ws) :
          /\ Abandoned(ws[i]).window = ws[i].window /\ Abandoned(ws[i]).latest = ws[i].latest
          /\ Abandoned(ws[i]).task = IF ws[i].task = "running" THEN "cancelled" ELSE ws[i].task
  BY <1>1, AbandonedFacts
<1> QED
  BY <1>1, <1>2, <1>3 DEF Quieter

LEMMA QuieterTwice ==
    ASSUME NEW ws \in Seq(Writer), NEW us, NEW vs, Quieter(ws, us), Quieter(us, vs)
    PROVE  Quieter(ws, vs)
BY QueueFacts DEF Quieter

\* The current writer has been handed a snapshot.
Updated(s) ==
    /\ writers' \in Seq(Writer) /\ Len(writers') = Len(writers)
    /\ \A i \in 1..Len(writers) :
          /\ IsDictionary(writers'[i].latest)
          /\ writers'[i].window = writers[i].window
          /\ writers'[i].closed = writers[i].closed
          /\ writers'[i].task = writers[i].task
          /\ i # Current => writers'[i] = writers[i]
    /\ Members(writers'[Current].latest) =
          {t \in Members(writers[Current].latest) : t.attempt # s.attempt} \cup {s}

LEMMA UpdateFacts ==
    ASSUME SessionTypeOK, writers # <<>>, NEW a \in AttemptIds, NEW r \in Readers, Update(a, r)
    PROVE  Updated([attempt |-> a, reader |-> r])
<1> DEFINE s == [attempt |-> a, reader |-> r]
           h == Handed(writers[Current], s)
<1>1. /\ writers \in Seq(Writer) /\ Current \in 1..Len(writers)
      /\ \A i \in 1..Len(writers) : writers[i] \in Writer /\ IsDictionary(writers[i].latest)
  BY QueueFacts DEF SessionTypeOK, Current
<1>2. s \in Snapshot
  BY DEF Snapshot
<1> HIDE DEF s
<1>3. /\ h \in Writer /\ IsDictionary(h.latest)
      /\ Members(h.latest) =
            {t \in Members(writers[Current].latest) : t.attempt # s.attempt} \cup {s}
      /\ h.window = writers[Current].window /\ h.closed = writers[Current].closed
      /\ h.task = writers[Current].task
  BY <1>1, <1>2, HandedFacts
<1>4. writers' = [writers EXCEPT ![Current] = h]
  BY DEF Update, s
<1> HIDE DEF h
<1>5. /\ [writers EXCEPT ![Current] = h] \in Seq(Writer)
      /\ Len([writers EXCEPT ![Current] = h]) = Len(writers)
      /\ \A j \in 1..Len(writers) :
            [writers EXCEPT ![Current] = h][j] = IF j = Current THEN h ELSE writers[j]
  BY <1>1, <1>3, ExceptSeq
<1> QED
  BY <1>1, <1>3, <1>4, <1>5 DEF Updated, s

LEMMA UpdatedShape ==
    ASSUME SessionTypeOK, writers # <<>>, NEW s, Updated(s)
    PROVE  /\ DOMAIN writers' = 1..Len(writers) /\ writers' # <<>>
           /\ Current' = Current /\ Current \in 1..Len(writers)
<1>1. writers \in Seq(Writer) /\ writers' \in Seq(Writer) /\ Len(writers') = Len(writers)
  BY DEF SessionTypeOK, Updated
<1>2. Len(writers) \in Nat /\ Len(writers) # 0 /\ DOMAIN writers' = 1..Len(writers')
  BY <1>1, QueueFacts
<1>3. writers' # <<>>
  BY <1>1, <1>2, EmptySeq
<1> QED
  BY <1>1, <1>2, <1>3 DEF Current

\* What AskCancel does to a call.
LEMMA AskCancelFacts ==
    ASSUME call \in CallState
    PROVE  /\ AskCancel(call) \in CallState
           /\ AskCancel(call).attempts = call.attempts /\ AskCancel(call).attempt = call.attempt
           /\ AskCancel(call) # call =>
                 /\ CallLive
                 /\ \/ call.step = "thinking" /\ AskCancel(call).step = "cancelled"
                    \/ /\ call.step = "closing" /\ AskCancel(call).step = "closing"
                       /\ AskCancel(call).good = call.good
                    \/ /\ call.step \in {"queued", "asked", "open"}
                       /\ AskCancel(call).step = "closing" /\ AskCancel(call).good = FALSE
<1>1. CASE ~CallLive \/ call.cancel # "no"
  <2>1. AskCancel(call) = call
    BY <1>1 DEF AskCancel, CallLive
  <2> QED
    BY <2>1
<1>2. CASE CallLive /\ call.cancel = "no"
  <2>1. CASE call.step = "thinking"
    <3>1. AskCancel(call) = [call EXCEPT !.cancel = "seen", !.step = "cancelled"]
      BY <1>2, <2>1 DEF AskCancel
    <3> QED
      BY <1>2, <2>1, <3>1 DEF CallState, CallStates
  <2>2. CASE call.step = "closing"
    <3>1. AskCancel(call) = [call EXCEPT !.cancel = "asked"]
      BY <1>2, <2>2 DEF AskCancel
    <3> QED
      BY <1>2, <2>2, <3>1 DEF CallState, CallStates
  <2>3. CASE call.step \notin {"thinking", "closing"}
    <3>1. AskCancel(call) = [call EXCEPT !.cancel = "seen", !.step = "closing", !.good = FALSE]
      BY <1>2, <2>3 DEF AskCancel
    <3> QED
      BY <1>2, <2>3, <3>1 DEF CallState, CallStates, CallLive
  <2> QED
    BY <2>1, <2>2, <2>3
<1> QED
  BY <1>1, <1>2

--------------------------------------------------------------------------------
(***************************************************************************)
(* The player's own books: what its tasks know of each other.              *)
(***************************************************************************)
PlayerTypes ==
    /\ main \in MainStates
    /\ stop \in BOOLEAN
    /\ acked \in BOOLEAN
    /\ worker \in WorkerStates
    /\ call \in CallState
    /\ reader \in [AttemptIds -> Readers \cup {"none"}]
    /\ writers \in Seq(Writer)
    /\ \A i \in DOMAIN writers : IsDictionary(writers[i].latest)

WireTypes ==
    /\ toPlayer \in Seq(ToPlayer)
    /\ toServer \in Seq(ToServer)
    /\ refused \in BOOLEAN
    /\ faults \in SUBSET Faults

\* An attempt is the call's own, and its reader is where the call is.
Books ==
    /\ call.step \in {"queued", "asked", "open", "closing"} => call.attempt \in call.attempts
    /\ call.step \in {"queued", "asked"} => reader[call.attempt] = "unknown"
    /\ call.step = "open" => reader[call.attempt] = "open"
    /\ call.step = "closing" => reader[call.attempt] \in {"unknown", "open"}
    /\ call.step = "closing" /\ call.good => reader[call.attempt] = "open"
    /\ \A a \in call.attempts : reader[a] # "none"
    /\ IsFiniteSet(call.attempts) /\ Cardinality(call.attempts) <= MaxAttempts
    /\ (call.step = "ended" \/ worker = "finishing") /\ call.attempt # NoAttempt =>
          call.attempt \in call.attempts /\ reader[call.attempt] = "joined"

\* A call that is going on has a worker and a writer that is open.
Tasks ==
    /\ CallLive => /\ worker \in {"calling", "expired", "cancelling"}
                   /\ writers[Current].task = "running" /\ ~writers[Current].closed
    /\ call.step = "none" <=> writers = <<>>
    /\ worker = "none" <=> writers = <<>>
    /\ worker = "done" => writers[Current].task = "done"
    /\ \A i \in DOMAIN writers : writers[i].task = "done" => writers[i].latest = <<>>

\* What the receiving loop knows where it stands.
Places ==
    /\ main = "connecting" =>
          /\ toPlayer = <<>> /\ toServer = <<>> /\ writers = <<>> /\ link[Own] = "down"
          /\ ~stop /\ ~acked /\ ~registered[Own] /\ ~everConnected[Own]
          /\ \A a \in AttemptIds : reader[a] = "none"
    /\ main = "settling" =>
          /\ toPlayer # <<>> /\ Head(toPlayer).type = "observation" /\ ~stop
          /\ worker \in {"cancelling", "cancelled", "failed"}
    /\ main \in {"joining", "draining"} => stop
    /\ main \in {"joining", "draining", "closing", "flushing"} =>
          worker \notin {"calling", "expired", "finishing"}
    /\ main \in {"draining", "flushing"} => ~WorkerLive /\ ~CallLive
    /\ Gone => writers = <<>> /\ toPlayer = <<>>

Base == TypeOK /\ PlayerTypes /\ WireTypes /\ Books /\ Tasks /\ Places

LEMMA TypesSplit == SessionTypeOK <=> TypeOK /\ PlayerTypes /\ WireTypes
BY DEF SessionTypeOK, PlayerTypes, WireTypes

LEMMA BasePolicy ==
    ASSUME Base, Policy
    PROVE  PlayerTypes' /\ Books' /\ Tasks' /\ Places'
<1> USE DEF CallLive, WorkerLive, Gone
<1>1. /\ SessionTypeOK
      /\ writers \in Seq(Writer) /\ DOMAIN writers = 1..Len(writers) /\ Len(writers) \in Nat
      /\ call \in CallState
      /\ reader \in [AttemptIds -> Readers \cup {"none"}]
      /\ call.attempts \subseteq AttemptIds
      /\ writers # <<>> => Current \in 1..Len(writers)
  BY TypesSplit, QueueFacts DEF Base, PlayerTypes, CallState, Current
<1>2. CASE TryAttempt
  <2>1. PICK a \in AttemptIds : /\ reader[a] = "none"
             /\ reader' = [reader EXCEPT ![a] = "unknown"]
             /\ call' = [call EXCEPT !.step = "queued", !.attempt = a,
                                  !.attempts = call.attempts \cup {a}, !.good = FALSE]
    BY <1>2 DEF TryAttempt, Fresh
  <2>2. /\ call' \in CallState /\ call'.step = "queued" /\ call'.attempt = a
        /\ call'.attempts = call.attempts \cup {a}
    BY <1>1, <2>1 DEF CallState, CallStates
  <2>3. IsFiniteSet(call'.attempts) /\ Cardinality(call'.attempts) <= MaxAttempts
    BY <1>2, <2>2, FS_AddElement, FS_CardinalityType, AdmissionAssumption DEF Base, Books, TryAttempt
  <2>4. PlayerTypes'
    BY <1>1, <1>2, <2>1, <2>2 DEF Base, PlayerTypes, TryAttempt, CallOnly, Readers
  <2>5. Books'
    BY <1>1, <1>2, <2>1, <2>2, <2>3 DEF Base, Books, Tasks, TryAttempt, CallOnly
  <2>6. Tasks'
    BY <1>1, <1>2, <2>1, <2>2 DEF Base, Tasks, TryAttempt, CallOnly, Current
  <2>7. Places'
    BY <1>1, <1>2, <2>1, <2>2 DEF Base, Places, TryAttempt, CallOnly, vars, linkVars, wireVars, Tasks
  <2> QED
    BY <2>4, <2>5, <2>6, <2>7
<1>3. CASE Degrade
  <2>2. call' \in CallState /\ call'.step = "ended" /\ call'.attempt = NoAttempt /\ call'.attempts = call.attempts
    BY <1>1, <1>3 DEF Degrade, CallState, CallStates
  <2>4. PlayerTypes'
    BY <1>1, <1>3, <2>2 DEF Base, PlayerTypes, Degrade, CallOnly
  <2>5. Books'
    BY <1>1, <1>3, <2>2 DEF Base, Books, Degrade, CallOnly, Tasks
  <2>6. Tasks'
    BY <1>1, <1>3, <2>2 DEF Base, Tasks, Degrade, CallOnly, Current
  <2>7. Places'
    BY <1>1, <1>3, <2>2 DEF Base, Places, Degrade, CallOnly, vars, linkVars, wireVars
  <2> QED
    BY <2>4, <2>5, <2>6, <2>7
<1>4. CASE Request
  <2>1. /\ call' \in CallState /\ call'.step = "asked" /\ call'.attempt = call.attempt
        /\ call'.attempts = call.attempts
    BY <1>1, <1>4 DEF Request, CallStep, CallState, CallStates
  <2>2. Updated([attempt |-> call.attempt, reader |-> "unknown"])
    BY <1>1, <1>4, UpdateFacts DEF Base, Books, Tasks, Request, Readers
  <2>3. /\ writers # <<>> /\ writers' # <<>> /\ DOMAIN writers' = 1..Len(writers)
        /\ Current' = Current
    <3>1. writers # <<>>
      BY <1>1, <1>4 DEF Base, Tasks, Request
    <3> QED
      BY <1>1, <2>2, <3>1, UpdatedShape
  <2>4. PlayerTypes'
    BY <1>1, <1>4, <2>1, <2>2, <2>3 DEF Base, PlayerTypes, Updated, Request, CallOnly
  <2>5. Books'
    BY <1>1, <1>4, <2>1 DEF Base, Books, Tasks, Request, CallOnly
  <2>6. Tasks'
    BY <1>1, <1>4, <2>1, <2>2, <2>3 DEF Base, Tasks, Request, CallOnly, Updated
  <2>7. Places'
    BY <1>1, <1>4, <2>1, <2>3 DEF Base, Places, Request, CallOnly, vars, linkVars, wireVars
  <2> QED
    BY <2>4, <2>5, <2>6, <2>7
<1>5. CASE Headers
  <2>1. /\ call' \in CallState /\ call'.step = "open" /\ call'.attempt = call.attempt
        /\ call'.attempts = call.attempts /\ reader' = [reader EXCEPT ![call.attempt] = "open"]
    BY <1>1, <1>5 DEF Headers, CallStep, CallState, CallStates
  <2>2. Updated([attempt |-> call.attempt, reader |-> "open"])
    BY <1>1, <1>5, UpdateFacts DEF Base, Books, Tasks, Headers, Readers
  <2>3. /\ writers # <<>> /\ writers' # <<>> /\ DOMAIN writers' = 1..Len(writers)
        /\ Current' = Current
    <3>1. writers # <<>>
      BY <1>1, <1>5 DEF Base, Tasks, Headers
    <3> QED
      BY <1>1, <2>2, <3>1, UpdatedShape
  <2>4. PlayerTypes'
    BY <1>1, <1>5, <2>1, <2>2, <2>3 DEF Base, PlayerTypes, Updated, Headers, CallOnly, Readers
  <2>5. Books'
    BY <1>1, <1>5, <2>1 DEF Base, Books, Tasks, Headers, CallOnly
  <2>6. Tasks'
    BY <1>1, <1>5, <2>1, <2>2, <2>3 DEF Base, Tasks, Headers, CallOnly, Updated
  <2>7. Places'
    BY <1>1, <1>5, <2>1, <2>3 DEF Base, Places, Headers, CallOnly, vars, linkVars, wireVars
  <2> QED
    BY <2>4, <2>5, <2>6, <2>7
<1>6. CASE ResponseEnds
  <2>1. /\ call' \in CallState /\ call'.step = "closing" /\ call'.attempt = call.attempt
        /\ call'.attempts = call.attempts /\ call'.good => call.step = "open"
    BY <1>1, <1>6 DEF ResponseEnds, CallState, CallStates
  <2>4. PlayerTypes'
    BY <1>1, <1>6, <2>1 DEF Base, PlayerTypes, ResponseEnds, CallOnly
  <2>5. Books'
    BY <1>1, <1>6, <2>1 DEF Base, Books, Tasks, ResponseEnds, CallOnly
  <2>6. Tasks'
    BY <1>1, <1>6, <2>1 DEF Base, Tasks, ResponseEnds, CallOnly, Current
  <2>7. Places'
    BY <1>1, <1>6, <2>1 DEF Base, Places, ResponseEnds, CallOnly, vars, linkVars, wireVars
  <2> QED
    BY <2>4, <2>5, <2>6, <2>7
<1>7. CASE Closed
  <2>1. /\ call' \in CallState /\ call'.step \in {"cancelled", "ended", "thinking"}
        /\ call'.attempts = call.attempts
        /\ call'.step = "ended" => call.good /\ call'.attempt \in {call.attempt, NoAttempt}
    BY <1>1, <1>7 DEF Closed, After, CallState, CallStates
  <2>2. call.attempt \in AttemptIds /\ reader[call.attempt] \in {"unknown", "open"}
    BY <1>1, <1>7 DEF Closed, Base, Books
  <2>3. reader' = [reader EXCEPT ![call.attempt] = Settled(reader[call.attempt])]
    BY <1>7 DEF Closed
  <2>4. Settled(reader[call.attempt]) = IF reader[call.attempt] = "open" THEN "joined" ELSE "unknown"
    BY <2>2 DEF Settled
  <2>8. Updated([attempt |-> call.attempt, reader |-> Settled(reader[call.attempt])])
    BY <1>1, <1>7, <2>2, <2>4, UpdateFacts DEF Base, Tasks, Closed, Readers
  <2>9. /\ writers # <<>> /\ writers' # <<>> /\ DOMAIN writers' = 1..Len(writers)
        /\ Current' = Current
    <3>1. writers # <<>>
      BY <1>1, <1>7 DEF Base, Tasks, Closed
    <3> QED
      BY <1>1, <2>8, <3>1, UpdatedShape
  <2>14. reader' \in [AttemptIds -> Readers \cup {"none"}]
    BY <1>1, <2>3, <2>4 DEF Readers
  <2>10. PlayerTypes'
    BY <1>1, <1>7, <2>1, <2>8, <2>9, <2>14 DEF Base, PlayerTypes, Updated, Closed, CallOnly
  <2>11. Books'
    BY <1>1, <1>7, <2>1, <2>2, <2>3, <2>4 DEF Base, Books, Tasks, Closed, CallOnly
  <2>12. Tasks'
    BY <1>1, <1>7, <2>1, <2>8, <2>9 DEF Base, Tasks, Closed, CallOnly, Updated
  <2>13. Places'
    BY <1>1, <1>7, <2>1, <2>9 DEF Base, Places, Closed, CallOnly, vars, linkVars, wireVars
  <2> QED
    BY <2>10, <2>11, <2>12, <2>13
<1>8. CASE CloseStuck
  <2>1. /\ call' \in CallState /\ call'.step = "raised" /\ call'.attempt = call.attempt
        /\ call'.attempts = call.attempts
    BY <1>1, <1>8 DEF CloseStuck, CallStep, CallState, CallStates
  <2>2. Updated([attempt |-> call.attempt, reader |-> reader[call.attempt]])
    BY <1>1, <1>8, UpdateFacts DEF Base, Books, Tasks, CloseStuck, Readers
  <2>3. /\ writers # <<>> /\ writers' # <<>> /\ DOMAIN writers' = 1..Len(writers)
        /\ Current' = Current
    <3>1. writers # <<>>
      BY <1>1, <1>8 DEF Base, Tasks, CloseStuck
    <3> QED
      BY <1>1, <2>2, <3>1, UpdatedShape
  <2>8. worker' = worker \/ (worker \in {"expired", "cancelling"} /\ worker' = "failed")
    BY <1>8 DEF CloseStuck
  <2>9. worker \in {"calling", "expired", "cancelling"}
    BY <1>8 DEF CloseStuck, Base, Tasks
  <2>4. PlayerTypes'
    BY <1>1, <1>8, <2>1, <2>2, <2>3, <2>8 DEF Base, PlayerTypes, Updated, CloseStuck, WorkerStates
  <2>5. Books'
    BY <1>1, <1>8, <2>1, <2>8, <2>9 DEF Base, Books, CloseStuck
  <2>6. Tasks'
    BY <1>1, <1>8, <2>1, <2>2, <2>3, <2>8, <2>9 DEF Base, Tasks, CloseStuck, Updated
  <2>7. Places'
    BY <1>1, <1>8, <2>1, <2>3, <2>8, <2>9 DEF Base, Places, CloseStuck, vars, linkVars
  <2> QED
    BY <2>4, <2>5, <2>6, <2>7
<1>9. CASE CloseInterrupted
  <2>1. /\ call' \in CallState /\ call'.step = "cancelled" /\ call'.attempt = call.attempt
        /\ call'.attempts = call.attempts
    BY <1>1, <1>9 DEF CloseInterrupted, CallState, CallStates
  <2>2. call.attempt \in AttemptIds /\ reader[call.attempt] \in {"unknown", "open"}
    BY <1>1, <1>9 DEF CloseInterrupted, Base, Books
  <2>3. \/ reader' = reader
        \/ reader' = [reader EXCEPT ![call.attempt] = Settled(reader[call.attempt])]
    BY <1>9 DEF CloseInterrupted
  <2>8. Settled(reader[call.attempt]) = IF reader[call.attempt] = "open" THEN "joined" ELSE "unknown"
    BY <2>2 DEF Settled
  <2>4. PlayerTypes'
    BY <1>1, <1>9, <2>1, <2>3, <2>8 DEF Base, PlayerTypes, CloseInterrupted, Readers
  <2>5. Books'
    BY <1>1, <1>9, <2>1, <2>2, <2>3, <2>8 DEF Base, Books, Tasks, CloseInterrupted
  <2>6. Tasks'
    BY <1>1, <1>9, <2>1 DEF Base, Tasks, CloseInterrupted, Current
  <2>7. Places'
    BY <1>1, <1>9, <2>1, <2>3, <2>8 DEF Base, Places, CloseInterrupted, vars, linkVars, Tasks
  <2> QED
    BY <2>4, <2>5, <2>6, <2>7
<1> QED
  BY <1>2, <1>3, <1>4, <1>5, <1>6, <1>7, <1>8, <1>9 DEF Policy

\* The shape of writers that are told to end.
LEMMA QuieterShape ==
    ASSUME NEW ws \in Seq(Writer), NEW us, Quieter(ws, us)
    PROVE  /\ DOMAIN us = 1..Len(ws) /\ DOMAIN ws = 1..Len(ws) /\ Len(us) = Len(ws)
           /\ us = <<>> <=> ws = <<>>
           /\ ws # <<>> => Len(ws) \in 1..Len(ws)
           /\ (\A i \in DOMAIN ws : Sound(ws[i])) => \A i \in DOMAIN us : Sound(us[i])
<1>1. us \in Seq(Writer) /\ Len(us) = Len(ws)
  BY DEF Quieter
<1>2. /\ Len(ws) \in Nat /\ DOMAIN us = 1..Len(ws) /\ DOMAIN ws = 1..Len(ws)
      /\ us = <<>> <=> Len(us) = 0
      /\ ws = <<>> <=> Len(ws) = 0
      /\ \A i \in 1..Len(us) : us[i] \in Writer
  BY <1>1, QueueFacts
<1>3. ASSUME NEW i \in 1..Len(ws), Sound(ws[i])
      PROVE  Sound(us[i])
  BY <1>1, <1>2, <1>3 DEF Sound, Quieter
<1> QED
  BY <1>1, <1>2, <1>3

LEMMA BaseShape ==
    ASSUME Base
    PROVE  /\ SessionTypeOK
           /\ writers \in Seq(Writer) /\ DOMAIN writers = 1..Len(writers) /\ Len(writers) \in Nat
           /\ Current = Len(writers)
           /\ writers = <<>> <=> Len(writers) = 0
           /\ \A i \in 1..Len(writers) : writers[i] \in Writer /\ Sound(writers[i])
           /\ call \in CallState /\ call.attempts \subseteq AttemptIds
           /\ reader \in [AttemptIds -> Readers \cup {"none"}]
<1>1. writers \in Seq(Writer)
  BY DEF Base, PlayerTypes
<1>2. /\ DOMAIN writers = 1..Len(writers) /\ Len(writers) \in Nat
      /\ writers = <<>> <=> Len(writers) = 0
      /\ \A i \in 1..Len(writers) : writers[i] \in Writer
  BY <1>1, QueueFacts
<1> QED
  BY <1>1, <1>2, TypesSplit DEF Base, PlayerTypes, Tasks, CallState, Current, Sound

LEMMA QuieterSame ==
    ASSUME NEW ws \in Seq(Writer)
    PROVE  Quieter(ws, ws)
BY DEF Quieter

\* Writers that are told to end do not disturb what the tasks know of each other.
LEMMA QuietTasks ==
    ASSUME Base, Quieter(writers, writers'),
           CallLive' => /\ CallLive /\ writers' = writers
                        /\ worker' \in {"calling", "expired", "cancelling"},
           worker' = "done" => writers # <<>> /\ writers[Current].task = "done",
           worker' = "none" <=> worker = "none",
           call'.step = "none" <=> call.step = "none"
    PROVE  /\ writers' \in Seq(Writer) /\ \A i \in DOMAIN writers' : IsDictionary(writers'[i].latest)
           /\ writers' = <<>> <=> writers = <<>>
           /\ Tasks'
<1>1. /\ DOMAIN writers' = 1..Len(writers) /\ Len(writers') = Len(writers)
      /\ writers' = <<>> <=> writers = <<>>
      /\ \A i \in 1..Len(writers) : Sound(writers'[i])
  BY BaseShape, QuieterShape
<1>2. worker' = "done" => writers'[Current].task = "done"
  BY BaseShape DEF Quieter
<1>3. CallLive' => writers'[Current].task = "running" /\ ~writers'[Current].closed
  BY DEF Base, Tasks
<1>4. Current' = Current
  BY <1>1 DEF Current
<1>5. \A i \in DOMAIN writers' : writers'[i].task = "done" => writers'[i].latest = <<>>
  BY <1>1 DEF Sound
<1>6. Tasks'
  BY <1>1, <1>2, <1>3, <1>4, <1>5 DEF Base, Tasks
<1> QED
  BY <1>1, <1>6 DEF Quieter, Sound

LEMMA BaseWriterSend ==
    ASSUME Base, NEW i \in DOMAIN writers, WriterSend(i)
    PROVE  PlayerTypes' /\ Books' /\ Tasks' /\ Places'
<1> USE DEF CallLive, WorkerLive, Gone
<1>1. /\ writers[i] \in Writer /\ Sound(writers[i]) /\ i \in 1..Len(writers)
      /\ writers # <<>>
  BY BaseShape
<1> DEFINE w == Shortened(writers[i])
<1>2. /\ w \in Writer /\ w.window = writers[i].window /\ w.latest = Tail(writers[i].latest)
      /\ w.closed = writers[i].closed
      /\ w.task # writers[i].task =>
            writers[i].task = "running" /\ writers[i].closed /\ w.task = "done" /\ w.latest = <<>>
  BY <1>1, ShortenedFacts DEF WriterSend, Sound
<1>3. IsDictionary(w.latest)
  BY <1>1, <1>2, RestOfDictionary DEF WriterSend, Sound, Writer
<1>4. writers' = [writers EXCEPT ![i] = w]
  BY DEF WriterSend
<1>5. writers[i].task = "running"
  BY DEF WriterSend
<1> HIDE DEF w
<1>6. /\ writers' \in Seq(Writer) /\ Len(writers') = Len(writers)
      /\ \A j \in 1..Len(writers) : writers'[j] = IF j = i THEN w ELSE writers[j]
  BY <1>1, <1>2, <1>4, BaseShape, ExceptSeq
<1>7. DOMAIN writers' = 1..Len(writers) /\ writers' # <<>> /\ Current' = Current
  BY <1>1, <1>6, BaseShape, QueueFacts DEF Current
<1>8. PlayerTypes'
  BY <1>3, <1>6, <1>7, BaseShape DEF Base, PlayerTypes, WriterSend
<1>11. call' = call /\ worker' = worker
  BY DEF WriterSend
<1>12. ASSUME CallLive
       PROVE  writers'[Current].task = "running" /\ ~writers'[Current].closed
  <2>1. Current \in 1..Len(writers) /\ writers[Current].task = "running" /\ ~writers[Current].closed
    BY <1>1, <1>12, BaseShape DEF Base, Tasks
  <2> QED
    BY <1>2, <1>6, <2>1
<1>13. worker = "done" => writers'[Current].task = "done"
  BY <1>1, <1>5, <1>6, BaseShape DEF Base, Tasks
<1>14. \A j \in DOMAIN writers' : writers'[j].task = "done" => writers'[j].latest = <<>>
  BY <1>2, <1>5, <1>6, <1>7, BaseShape DEF Sound
<1>9. Tasks'
  BY <1>1, <1>7, <1>11, <1>12, <1>13, <1>14 DEF Base, Tasks
<1>10. Books'
  BY DEF Base, Books, WriterSend
<1>15. Places'
  BY <1>1, <1>7 DEF Base, Places, WriterSend, vars, linkVars
<1> QED
  BY <1>8, <1>9, <1>10, <1>15

LEMMA BaseWorker ==
    ASSUME Base, Worker
    PROVE  PlayerTypes' /\ Books' /\ Tasks' /\ Places'
<1> USE DEF WorkerLive, Gone
<1>1. Quieter(writers, writers) /\ Quieter(writers, Sealed(writers))
  BY BaseShape, QuieterSame, SealedFacts
<1>2. CASE GotPayload
  <2>1. /\ worker = "calling" /\ worker' \in {"finishing", "failed"} /\ ~CallLive /\ call' = call
        /\ writers' = writers \/ writers' = Sealed(writers)
        /\ worker' = "finishing" => call.step = "ended"
    BY <1>2 DEF GotPayload, WorkerStep, CallLive
  <2>2. /\ writers' \in Seq(Writer) /\ \A i \in DOMAIN writers' : IsDictionary(writers'[i].latest)
        /\ writers' = <<>> <=> writers = <<>>
        /\ Tasks'
    BY <1>1, <2>1, QuietTasks DEF CallLive
  <2>3. PlayerTypes'
    BY <1>2, <2>1, <2>2 DEF GotPayload, Base, PlayerTypes, WorkerStates
  <2>4. Books'
    BY <1>2, <2>1 DEF GotPayload, Base, Books
  <2>5. Places'
    BY <1>2, <2>1, <2>2 DEF GotPayload, Base, Places, Tasks, vars, linkVars, wireVars
  <2> QED
    BY <2>2, <2>3, <2>4, <2>5
<1>3. CASE Deadline
  <2>1. worker = "calling" /\ CallLive /\ worker' = "expired" /\ writers' = writers
        /\ call' = AskCancel(call)
    BY <1>3 DEF Deadline, WorkerStep
  <2>2. /\ call' \in CallState /\ call'.attempts = call.attempts /\ call'.attempt = call.attempt
        /\ call'.step # "none" /\ call.step # "none"
        /\ call' # call =>
              \/ call.step = "thinking" /\ call'.step = "cancelled"
              \/ call.step = "closing" /\ call'.step = "closing" /\ call'.good = call.good
              \/ /\ call.step \in {"queued", "asked", "open"}
                 /\ call'.step = "closing" /\ call'.good = FALSE
    BY <2>1, BaseShape, AskCancelFacts DEF CallLive
  <2>3. /\ writers' \in Seq(Writer) /\ \A i \in DOMAIN writers' : IsDictionary(writers'[i].latest)
        /\ writers' = <<>> <=> writers = <<>>
        /\ Tasks'
    BY <1>1, <2>1, <2>2, QuietTasks
  <2>4. PlayerTypes'
    BY <1>3, <2>1, <2>2 DEF Deadline, Base, PlayerTypes, WorkerStates
  <2>5. Books'
    BY <1>3, <2>1, <2>2 DEF Deadline, Base, Books
  <2>6. Places'
    BY <1>3, <2>1, <2>2 DEF Deadline, Base, Places, vars, linkVars, wireVars, CallLive
  <2> QED
    BY <2>3, <2>4, <2>5, <2>6
<1>4. CASE Fallback
  <2>1. /\ worker = "expired" /\ worker' \in {"finishing", "failed"} /\ ~CallLive
        /\ writers' = writers \/ writers' = Sealed(writers)
        /\ call' \in CallState /\ call'.step = call.step /\ call'.attempts = call.attempts
        /\ call'.attempt \in {call.attempt, NoAttempt}
        /\ worker' = "finishing" => call'.attempt = NoAttempt
    BY <1>4, BaseShape DEF Fallback, WorkerStep, CallState
  <2>2. /\ writers' \in Seq(Writer) /\ \A i \in DOMAIN writers' : IsDictionary(writers'[i].latest)
        /\ writers' = <<>> <=> writers = <<>>
        /\ Tasks'
    BY <1>1, <2>1, QuietTasks DEF CallLive
  <2>3. PlayerTypes'
    BY <1>4, <2>1, <2>2 DEF Fallback, Base, PlayerTypes, WorkerStates
  <2>4. Books'
    BY <1>4, <2>1 DEF Fallback, Base, Books, CallLive
  <2>5. Places'
    BY <1>4, <2>1, <2>2 DEF Fallback, Base, Places, vars, linkVars, wireVars, CallLive, Tasks
  <2> QED
    BY <2>2, <2>3, <2>4, <2>5
<1>5. CASE Submit
  <2>1. /\ worker = "finishing" /\ worker' = "done" /\ call' = call /\ writers' = writers /\ ~CallLive
        /\ writers # <<>> /\ writers[Current].task = "done"
    BY <1>5 DEF Submit, WorkerStep, Drained, Base, Tasks
  <2>2. /\ writers' \in Seq(Writer) /\ \A i \in DOMAIN writers' : IsDictionary(writers'[i].latest)
        /\ Tasks'
    BY <1>1, <2>1, QuietTasks DEF CallLive
  <2>3. PlayerTypes'
    BY <1>5, <2>1, <2>2 DEF Submit, Base, PlayerTypes, WorkerStates
  <2>4. Books'
    BY <1>5, <2>1 DEF Submit, Base, Books
  <2>5. Places'
    BY <1>5, <2>1 DEF Submit, Base, Places, vars, linkVars, CallLive
  <2> QED
    BY <2>2, <2>3, <2>4, <2>5
<1>6. CASE FinishStuck
  <2>1. /\ worker = "finishing" /\ worker' = "failed" /\ call' = call /\ ~CallLive /\ writers # <<>>
        /\ writers' = [writers EXCEPT ![Current] = Abandoned(writers[Current])]
    BY <1>6 DEF FinishStuck, WorkerStep, Base, Tasks
  <2>2. Quieter(writers, writers')
    <3>1. writers' \in [DOMAIN writers -> Writer]
      BY <2>1, BaseShape, AbandonedFacts
    <3>2. \A i \in DOMAIN writers : writers'[i] \in {writers[i], Abandoned(writers[i])}
      BY <2>1, BaseShape
    <3> QED
      BY <3>1, <3>2, BaseShape, MappedFacts
  <2>3. /\ writers' \in Seq(Writer) /\ \A i \in DOMAIN writers' : IsDictionary(writers'[i].latest)
        /\ writers' = <<>> <=> writers = <<>>
        /\ Tasks'
    BY <2>1, <2>2, QuietTasks DEF CallLive
  <2>4. PlayerTypes'
    BY <1>6, <2>1, <2>3 DEF FinishStuck, Base, PlayerTypes, WorkerStates
  <2>5. Books'
    BY <1>6, <2>1 DEF FinishStuck, Base, Books
  <2>6. Places'
    BY <1>6, <2>1, <2>3 DEF FinishStuck, Base, Places, vars, linkVars, CallLive
  <2> QED
    BY <2>3, <2>4, <2>5, <2>6
<1>7. CASE WorkerCancelled
  <2>1. worker = "cancelling" /\ worker' = "cancelled" /\ call' = call /\ writers' = writers /\ ~CallLive
    BY <1>7 DEF WorkerCancelled, WorkerStep
  <2>2. /\ writers' \in Seq(Writer) /\ \A i \in DOMAIN writers' : IsDictionary(writers'[i].latest)
        /\ Tasks'
    BY <1>1, <2>1, QuietTasks DEF CallLive
  <2>3. PlayerTypes'
    BY <1>7, <2>1, <2>2 DEF WorkerCancelled, Base, PlayerTypes, WorkerStates
  <2>4. Books'
    BY <1>7, <2>1 DEF WorkerCancelled, Base, Books
  <2>5. Places'
    BY <1>7, <2>1 DEF WorkerCancelled, Base, Places, vars, linkVars, wireVars, CallLive
  <2> QED
    BY <2>2, <2>3, <2>4, <2>5
<1>8. CASE Unreadable
  <2>1. /\ worker \in {"calling", "finishing"} /\ worker' = "failed" /\ call' = call
        /\ writers' = writers /\ ~CallLive
    BY <1>8 DEF Unreadable, WorkerStep, CallLive, Base, Tasks
  <2>2. /\ writers' \in Seq(Writer) /\ \A i \in DOMAIN writers' : IsDictionary(writers'[i].latest)
        /\ Tasks'
    BY <1>1, <2>1, QuietTasks DEF CallLive
  <2>3. PlayerTypes'
    BY <1>8, <2>1, <2>2 DEF Unreadable, Base, PlayerTypes, WorkerStates
  <2>4. Books'
    BY <1>8, <2>1 DEF Unreadable, Base, Books
  <2>5. Places'
    BY <1>8, <2>1 DEF Unreadable, Base, Places, vars, linkVars, CallLive
  <2> QED
    BY <2>2, <2>3, <2>4, <2>5
<1> QED
  BY <1>2, <1>3, <1>4, <1>5, <1>6, <1>7, <1>8 DEF Worker

\* What the tasks of the player are made of.
TaskTypes ==
    /\ worker \in WorkerStates
    /\ call \in CallState
    /\ reader \in [AttemptIds -> Readers \cup {"none"}]
    /\ writers \in Seq(Writer)
    /\ \A i \in DOMAIN writers : IsDictionary(writers[i].latest)

\* The worker is left alone, and writers may be told to end.
LEMMA SameBooks ==
    ASSUME Base, UNCHANGED <<worker, call, reader>>, Quieter(writers, writers'),
           CallLive => writers' = writers
    PROVE  /\ TaskTypes' /\ Books' /\ Tasks'
           /\ writers' = <<>> <=> writers = <<>>
<1>1. CallLive' => CallLive /\ worker' \in {"calling", "expired", "cancelling"}
  BY DEF CallLive, Base, Tasks
<1>2. worker' = "done" => writers # <<>> /\ writers[Current].task = "done"
  BY DEF Base, Tasks
<1>3. /\ writers' \in Seq(Writer) /\ \A i \in DOMAIN writers' : IsDictionary(writers'[i].latest)
      /\ writers' = <<>> <=> writers = <<>>
      /\ Tasks'
  BY <1>1, <1>2, QuietTasks
<1>4. Books'
  BY DEF Base, Books
<1> QED
  BY <1>3, <1>4 DEF TaskTypes, Base, PlayerTypes

\* The worker is cancelled, if there is one.
LEMMA CancelFacts ==
    ASSUME Base, CancelWorker
    PROVE  /\ worker' = IF WorkerLive THEN "cancelling" ELSE worker
           /\ call' \in CallState /\ call'.attempts = call.attempts /\ call'.attempt = call.attempt
           /\ call' # call =>
                 /\ CallLive
                 /\ \/ call.step = "thinking" /\ call'.step = "cancelled"
                    \/ call.step = "closing" /\ call'.step = "closing" /\ call'.good = call.good
                    \/ /\ call.step \in {"queued", "asked", "open"}
                       /\ call'.step = "closing" /\ call'.good = FALSE
<1>1. call \in CallState
  BY BaseShape
<1>2. CASE WorkerLive
  <2>1. worker' = "cancelling" /\ call' = AskCancel(call)
    BY <1>2 DEF CancelWorker
  <2> QED
    BY <1>1, <1>2, <2>1, AskCancelFacts
<1>3. CASE ~WorkerLive
  BY <1>1, <1>3 DEF CancelWorker
<1> QED
  BY <1>2, <1>3

LEMMA CancelBooks ==
    ASSUME Base, CancelWorker, reader' = reader, writers' = writers
    PROVE  /\ TaskTypes' /\ Books' /\ Tasks'
           /\ worker' \notin {"calling", "expired", "finishing"}
<1>1. Quieter(writers, writers')
  BY BaseShape, QuieterSame
<1>2. /\ CallLive' => CallLive /\ WorkerLive /\ worker' = "cancelling"
      /\ worker' = "done" => writers # <<>> /\ writers[Current].task = "done"
      /\ worker' = "none" <=> worker = "none"
      /\ call'.step = "none" <=> call.step = "none"
      /\ worker' \notin {"calling", "expired", "finishing"}
      /\ worker' \in WorkerStates
  BY CancelFacts DEF CallLive, WorkerLive, Base, Tasks, PlayerTypes, WorkerStates
<1>3. Tasks'
  BY <1>1, <1>2, QuietTasks
<1>4. Books'
  BY CancelFacts, <1>2 DEF Base, Books, CallLive
<1> QED
  BY <1>2, <1>3, <1>4, CancelFacts DEF TaskTypes, Base, PlayerTypes

\* A worker is started for the window of the observation in hand.
LEMMA StartFacts ==
    ASSUME Base, toPlayer # <<>>, Head(toPlayer).type = "observation", StartWorker
    PROVE  LET w == [window |-> toPlayer[1].window, latest |-> <<>>, closed |-> FALSE,
                     task |-> "running"]
           IN  /\ toPlayer[1].window \in Windows
               /\ w \in Writer
               /\ writers' \in Seq(Writer) /\ Longer(writers, writers', w)
               /\ DOMAIN writers' = 1..(Len(writers) + 1) /\ writers' # <<>>
               /\ Current' = Len(writers) + 1
               /\ worker' = "calling" /\ main' = "loop"
               /\ call' = [NoCall EXCEPT !.step = "thinking"]
               /\ toPlayer' = Tail(toPlayer)
<1> DEFINE w == [window |-> toPlayer[1].window, latest |-> <<>>, closed |-> FALSE,
                 task |-> "running"]
<1>1. Head(toPlayer) = toPlayer[1] /\ toPlayer[1] \in ToPlayer
  BY QueueFacts DEF Base, WireTypes
<1>2. toPlayer[1].window \in Windows
  BY <1>1, PlayerFrames
<1>3. <<>> \in Seq(Snapshot)
  BY EmptySeq
<1>4. w \in Writer
  BY <1>2, <1>3 DEF Writer
<1>5. writers' = Append(writers, w)
  BY <1>1 DEF StartWorker
<1> HIDE DEF w
<1>6. writers' \in Seq(Writer) /\ Longer(writers, writers', w)
  BY <1>4, <1>5, BaseShape, AppendIsLonger
<1>7. DOMAIN writers' = 1..(Len(writers) + 1) /\ writers' # <<>> /\ Current' = Len(writers) + 1
  BY <1>6, BaseShape, QueueFacts DEF Longer, Current
<1> QED
  BY <1>2, <1>4, <1>6, <1>7 DEF StartWorker, Take, w

LEMMA StartBooks ==
    ASSUME Base, toPlayer # <<>>, Head(toPlayer).type = "observation", StartWorker, reader' = reader
    PROVE  /\ TaskTypes' /\ Books' /\ Tasks'
           /\ worker' = "calling" /\ main' = "loop" /\ writers' # <<>> /\ toPlayer' = Tail(toPlayer)
<1> DEFINE w == [window |-> toPlayer[1].window, latest |-> <<>>, closed |-> FALSE,
                 task |-> "running"]
<1>1. /\ w \in Writer
      /\ writers' \in Seq(Writer) /\ Longer(writers, writers', w)
      /\ DOMAIN writers' = 1..(Len(writers) + 1) /\ writers' # <<>>
      /\ Current' = Len(writers) + 1
      /\ worker' = "calling" /\ main' = "loop"
      /\ call' = [NoCall EXCEPT !.step = "thinking"]
      /\ toPlayer' = Tail(toPlayer)
  BY StartFacts
<1>2. w.latest = <<>> /\ w.task = "running" /\ w.closed = FALSE
  OBVIOUS
<1>3. IsDictionary(w.latest)
  BY <1>2 DEF IsDictionary
<1> HIDE DEF w
<1>4. /\ call' \in CallState /\ call'.step = "thinking" /\ call'.attempts = {}
      /\ call'.attempt = NoAttempt
  BY <1>1 DEF NoCall, CallState, CallStates
<1>5. \A i \in DOMAIN writers' : Sound(writers'[i])
  BY <1>1, <1>2, <1>3, BaseShape DEF Longer, Sound
<1>6. writers'[Current'].task = "running" /\ ~writers'[Current'].closed
  BY <1>1, <1>2 DEF Longer
<1>7. Tasks'
  BY <1>1, <1>4, <1>5, <1>6 DEF Tasks, Sound
<1>8. Books'
  <2>1. IsFiniteSet({}) /\ Cardinality({}) <= MaxAttempts
    BY FS_EmptySet, AdmissionAssumption
  <2> QED
    BY <1>1, <1>4, <2>1 DEF Books
<1> QED
  BY <1>1, <1>4, <1>5, <1>7, <1>8 DEF TaskTypes, Base, PlayerTypes, WorkerStates, Sound

\* The process has gone, and its tasks with it.
LEMMA LeaveBooks ==
    ASSUME Base, NEW how \in {"done", "failed"}, Leave(how), reader' = reader
    PROVE  /\ TaskTypes' /\ Books' /\ Tasks'
           /\ main' = how /\ writers' = <<>> /\ toPlayer' = <<>> /\ worker' = "none"
<1>1. /\ main' = how /\ worker' = "none" /\ call' = NoCall /\ writers' = <<>> /\ toPlayer' = <<>>
  BY DEF Leave
<1>2. /\ NoCall \in CallState /\ NoCall.step = "none" /\ NoCall.attempts = {}
  BY DEF NoCall, CallState, CallStates
<1>3. writers' \in Seq(Writer) /\ DOMAIN writers' = {}
  BY <1>1, EmptySeq
<1>4. TaskTypes'
  BY <1>1, <1>2, <1>3 DEF TaskTypes, Base, PlayerTypes, WorkerStates
<1>5. Tasks'
  BY <1>1, <1>2, <1>3 DEF Tasks, CallLive
<1>6. Books'
  BY <1>1, <1>2, FS_EmptySet, AdmissionAssumption DEF Books
<1> QED
  BY <1>1, <1>4, <1>5, <1>6

\* What becomes of the writers when the owners have stopped.
LEMMA StoppedWriters ==
    ASSUME Base
    PROVE  Quieter(writers, Sealed([i \in DOMAIN writers |->
                                IF i = Current THEN writers[i] ELSE Abandoned(writers[i])]))
<1> DEFINE us == [i \in DOMAIN writers |->
                     IF i = Current THEN writers[i] ELSE Abandoned(writers[i])]
<1>1. us \in [DOMAIN writers -> Writer]
      /\ \A i \in DOMAIN writers : us[i] \in {writers[i], Abandoned(writers[i])}
  BY BaseShape, AbandonedFacts
<1> HIDE DEF us
<1>2. Quieter(writers, us)
  BY <1>1, BaseShape, MappedFacts
<1>3. us \in Seq(Writer)
  BY <1>2 DEF Quieter
<1>4. Quieter(us, Sealed(us))
  BY <1>3, SealedFacts
<1>5. Quieter(writers, Sealed(us))
  BY <1>2, <1>4, BaseShape, QuieterTwice
<1> QED
  BY <1>5 DEF us

LEMMA BaseMain ==
    ASSUME Base, Main
    PROVE  PlayerTypes' /\ Books' /\ Tasks' /\ Places'
<1> USE DEF CallLive, WorkerLive, Gone
<1>1. CASE Join
  <2>1. UNCHANGED <<worker, call, reader, writers>>
    BY <1>1 DEF Join
  <2>2. TaskTypes' /\ Books' /\ Tasks'
    BY <2>1, BaseShape, QuieterSame, SameBooks
  <2> QED
    BY <1>1, <2>1, <2>2 DEF Join, PlayerTypes, TaskTypes, Base, MainStates, Places
<1>2. CASE NeverJoins
  <2>1. UNCHANGED <<worker, call, reader, writers>>
    BY <1>2 DEF NeverJoins
  <2>2. TaskTypes' /\ Books' /\ Tasks'
    BY <2>1, BaseShape, QuieterSame, SameBooks
  <2> QED
    BY <1>2, <2>1, <2>2 DEF NeverJoins, PlayerTypes, TaskTypes, Base, MainStates, Places, vars, linkVars, wireVars
<1>3. CASE OnWelcome
  <2>1. UNCHANGED playerVars /\ main = "loop"
    BY <1>3 DEF OnWelcome, Frame
  <2>2. TaskTypes' /\ Books' /\ Tasks'
    BY <2>1, BaseShape, QuieterSame, SameBooks DEF playerVars
  <2> QED
    BY <2>1, <2>2 DEF PlayerTypes, TaskTypes, Base, Places, playerVars
<1>4. CASE OnObservation
  <2>1. main = "loop" /\ toPlayer # <<>> /\ Head(toPlayer).type = "observation" /\ worker # "failed"
        /\ UNCHANGED <<vars, stop, acked, reader>>
    BY <1>4 DEF OnObservation, Frame
  <2>2. CASE WorkerLive /\ ~stop
    <3>1. main' = "settling" /\ CancelWorker /\ UNCHANGED <<writers, toPlayer>>
      BY <1>4, <2>2 DEF OnObservation
    <3>2. TaskTypes' /\ Books' /\ Tasks' /\ worker' = "cancelling"
      BY <2>1, <2>2, <3>1, CancelBooks, CancelFacts
    <3> QED
      BY <2>1, <2>2, <3>1, <3>2 DEF PlayerTypes, TaskTypes, Base, MainStates, Places
  <2>3. CASE ~(WorkerLive /\ ~stop) /\ (stop \/ ~PlayerReadersJoined)
    <3>1. main' = "closing" /\ CancelWorker /\ UNCHANGED writers
      BY <1>4, <2>3 DEF OnObservation, GiveUp
    <3>2. TaskTypes' /\ Books' /\ Tasks' /\ worker' \notin {"calling", "expired", "finishing"}
      BY <2>1, <3>1, CancelBooks
    <3> QED
      BY <2>1, <3>1, <3>2 DEF PlayerTypes, TaskTypes, Base, MainStates, Places
  <2>4. CASE ~(WorkerLive /\ ~stop) /\ ~(stop \/ ~PlayerReadersJoined)
    <3>1. StartWorker
      BY <1>4, <2>4 DEF OnObservation
    <3>2. TaskTypes' /\ Books' /\ Tasks' /\ main' = "loop"
      BY <2>1, <3>1, StartBooks
    <3> QED
      BY <2>1, <3>2 DEF PlayerTypes, TaskTypes, Base, MainStates, Places
  <2> QED
    BY <2>2, <2>3, <2>4
<1>5. CASE PreviousJoined
  <2>1. main = "settling" /\ ~WorkerLive /\ toPlayer # <<>> /\ Head(toPlayer).type = "observation"
        /\ UNCHANGED <<vars, stop, acked, reader>>
    BY <1>5 DEF PreviousJoined, Base, Places
  <2>2. CASE worker = "failed" \/ ~PlayerReadersJoined
    <3>1. main' = "closing" /\ CancelWorker /\ UNCHANGED writers
      BY <1>5, <2>2 DEF PreviousJoined, GiveUp
    <3>2. TaskTypes' /\ Books' /\ Tasks' /\ worker' \notin {"calling", "expired", "finishing"}
      BY <2>1, <3>1, CancelBooks
    <3> QED
      BY <2>1, <3>1, <3>2 DEF PlayerTypes, TaskTypes, Base, MainStates, Places
  <2>3. CASE ~(worker = "failed" \/ ~PlayerReadersJoined)
    <3>1. StartWorker
      BY <1>5, <2>3 DEF PreviousJoined
    <3>2. TaskTypes' /\ Books' /\ Tasks' /\ main' = "loop"
      BY <2>1, <3>1, StartBooks
    <3> QED
      BY <2>1, <3>2 DEF PlayerTypes, TaskTypes, Base, MainStates, Places
  <2> QED
    BY <2>2, <2>3
<1>6. CASE OnStop
  <2>1. main = "loop" /\ worker # "failed" /\ stop' = TRUE
        /\ UNCHANGED <<vars, acked, reader, writers>>
    BY <1>6 DEF OnStop, Frame
  <2>2. CASE stop
    <3>1. UNCHANGED <<main, worker, call>>
      BY <1>6, <2>2 DEF OnStop
    <3>2. TaskTypes' /\ Books' /\ Tasks'
      BY <2>1, <3>1, BaseShape, QuieterSame, SameBooks
    <3> QED
      BY <2>1, <3>1, <3>2 DEF PlayerTypes, TaskTypes, Base, Places
  <2>3. CASE ~stop
    <3>1. main' = "joining" /\ CancelWorker
      BY <1>6, <2>3 DEF OnStop
    <3>2. TaskTypes' /\ Books' /\ Tasks' /\ worker' \notin {"calling", "expired", "finishing"}
      BY <2>1, <3>1, CancelBooks
    <3> QED
      BY <2>1, <3>1, <3>2 DEF PlayerTypes, TaskTypes, Base, MainStates, Places
  <2> QED
    BY <2>2, <2>3
<1>7. CASE OwnersStopped
  <2>1. main = "joining" /\ ~WorkerLive /\ ~CallLive /\ UNCHANGED <<vars, stop, acked, reader>>
    BY <1>7 DEF OwnersStopped
  <2>2. CASE PlayerReadersJoined
    <3>1. /\ main' = "draining" /\ UNCHANGED <<worker, call>>
          /\ writers' = Sealed([i \in DOMAIN writers |->
                                   IF i = Current THEN writers[i] ELSE Abandoned(writers[i])])
      BY <1>7, <2>2 DEF OwnersStopped
    <3>2. Quieter(writers, writers')
      BY <3>1, StoppedWriters
    <3>3. TaskTypes' /\ Books' /\ Tasks'
      BY <2>1, <3>1, <3>2, SameBooks
    <3> QED
      BY <2>1, <3>1, <3>3 DEF PlayerTypes, TaskTypes, Base, MainStates, Places
  <2>3. CASE ~PlayerReadersJoined
    <3>1. main' = "closing" /\ CancelWorker /\ UNCHANGED writers
      BY <1>7, <2>3 DEF OwnersStopped, GiveUp
    <3>2. TaskTypes' /\ Books' /\ Tasks' /\ worker' \notin {"calling", "expired", "finishing"}
      BY <2>1, <3>1, CancelBooks
    <3> QED
      BY <2>1, <3>1, <3>2 DEF PlayerTypes, TaskTypes, Base, MainStates, Places
  <2> QED
    BY <2>2, <2>3
<1>8. CASE SendStopped
  <2>1. main = "draining" /\ main' = "loop" /\ UNCHANGED <<stop, acked, worker, call, reader, writers>>
    BY <1>8 DEF SendStopped
  <2>2. TaskTypes' /\ Books' /\ Tasks'
    BY <2>1, BaseShape, QuieterSame, SameBooks
  <2> QED
    BY <2>1, <2>2 DEF PlayerTypes, TaskTypes, Base, MainStates, Places
<1>9. CASE DrainStuck
  <2>1. /\ main = "draining" /\ main' = "closing" /\ UNCHANGED <<stop, acked, worker, call, reader>>
        /\ writers' = [i \in DOMAIN writers |-> Abandoned(writers[i])]
        /\ ~WorkerLive /\ ~CallLive
    BY <1>9 DEF DrainStuck, Base, Places
  <2>2. Quieter(writers, writers')
    <3>1. writers' \in [DOMAIN writers -> Writer]
          /\ \A i \in DOMAIN writers : writers'[i] \in {writers[i], Abandoned(writers[i])}
      BY <2>1, BaseShape, AbandonedFacts
    <3> QED
      BY <3>1, BaseShape, MappedFacts
  <2>3. TaskTypes' /\ Books' /\ Tasks'
    BY <2>1, <2>2, SameBooks
  <2> QED
    BY <2>1, <2>3 DEF PlayerTypes, TaskTypes, Base, MainStates, Places
<1>10. CASE OnEvidence
  <2>1. main = "loop" /\ worker # "failed" /\ UNCHANGED <<vars, stop, reader>>
    BY <1>10 DEF OnEvidence, Frame
  <2>2. CASE stop
    <3>1. acked' = TRUE /\ UNCHANGED <<main, worker, call, writers>>
      BY <1>10, <2>2 DEF OnEvidence
    <3>2. TaskTypes' /\ Books' /\ Tasks'
      BY <2>1, <3>1, BaseShape, QuieterSame, SameBooks
    <3> QED
      BY <2>1, <3>1, <3>2 DEF PlayerTypes, TaskTypes, Base, Places
  <2>3. CASE ~stop
    <3>1. main' = "closing" /\ CancelWorker /\ UNCHANGED <<writers, acked>>
      BY <1>10, <2>3 DEF OnEvidence, GiveUp
    <3>2. TaskTypes' /\ Books' /\ Tasks' /\ worker' \notin {"calling", "expired", "finishing"}
      BY <2>1, <3>1, CancelBooks
    <3> QED
      BY <2>1, <3>1, <3>2 DEF PlayerTypes, TaskTypes, Base, MainStates, Places
  <2> QED
    BY <2>2, <2>3
<1>11. CASE OnEnd
  <2>1. main = "loop" /\ worker # "failed" /\ UNCHANGED <<vars, stop, acked, reader>>
    BY <1>11 DEF OnEnd, Frame
  <2>2. CASE acked
    <3>1. Leave("done")
      BY <1>11, <2>2 DEF OnEnd
    <3>2. TaskTypes' /\ Books' /\ Tasks' /\ main' = "done" /\ writers' = <<>> /\ toPlayer' = <<>>
      BY <2>1, <3>1, LeaveBooks
    <3> QED
      BY <2>1, <3>2 DEF PlayerTypes, TaskTypes, Base, MainStates, Places
  <2>3. CASE ~acked
    <3>1. main' = "closing" /\ CancelWorker /\ UNCHANGED writers
      BY <1>11, <2>3 DEF OnEnd, GiveUp
    <3>2. TaskTypes' /\ Books' /\ Tasks' /\ worker' \notin {"calling", "expired", "finishing"}
      BY <2>1, <3>1, CancelBooks
    <3> QED
      BY <2>1, <3>1, <3>2 DEF PlayerTypes, TaskTypes, Base, MainStates, Places
  <2> QED
    BY <2>2, <2>3
<1>12. CASE WorkerFailed
  <2>1. main = "loop" /\ UNCHANGED <<vars, stop, acked, reader>>
        /\ main' = "closing" /\ CancelWorker /\ UNCHANGED writers
    BY <1>12 DEF WorkerFailed, GiveUp
  <2>2. TaskTypes' /\ Books' /\ Tasks' /\ worker' \notin {"calling", "expired", "finishing"}
    BY <2>1, CancelBooks
  <2> QED
    BY <2>1, <2>2 DEF PlayerTypes, TaskTypes, Base, MainStates, Places
<1>13. CASE Flush
  <2>1. /\ main = "closing" /\ main' = "flushing" /\ ~WorkerLive /\ ~CallLive
        /\ UNCHANGED <<stop, acked, worker, call, reader>>
        /\ writers' = writers \/ writers' = Sealed(writers)
    BY <1>13 DEF Flush
  <2>2. Quieter(writers, writers')
    BY <2>1, BaseShape, QuieterSame, SealedFacts
  <2>3. TaskTypes' /\ Books' /\ Tasks'
    BY <2>1, <2>2, SameBooks
  <2> QED
    BY <2>1, <2>3 DEF PlayerTypes, TaskTypes, Base, MainStates, Places
<1>14. CASE Exit
  <2>1. main = "flushing" /\ Leave("failed") /\ UNCHANGED <<vars, stop, acked, reader>>
    BY <1>14 DEF Exit
  <2>2. TaskTypes' /\ Books' /\ Tasks' /\ main' = "failed" /\ writers' = <<>> /\ toPlayer' = <<>>
    BY <2>1, LeaveBooks
  <2> QED
    BY <2>1, <2>2 DEF PlayerTypes, TaskTypes, Base, MainStates, Places
<1> QED
  BY <1>1, <1>2, <1>3, <1>4, <1>5, <1>6, <1>7, <1>8, <1>9, <1>10, <1>11, <1>12, <1>13, <1>14 DEF Main

--------------------------------------------------------------------------------
(***************************************************************************)
(* The frames on their way, step by step.                                  *)
(***************************************************************************)

\* A queue cut short, and one last frame.
Cut(q, r, n, x) ==
    /\ Len(r) = n + 1
    /\ \A i \in 1..n : r[i] = q[i]
    /\ r[n + 1] = x

LEMMA LongerIsCut ==
    ASSUME NEW q, NEW r, NEW x, Longer(q, r, x)
    PROVE  Cut(q, r, Len(q), x)
BY DEF Longer, Cut

LEMMA DropFacts ==
    ASSUME SessionTypeOK, Drop
    PROVE  /\ toPlayer' \in Seq(ToPlayer)
           /\ \E n \in Received..Len(toPlayer) : Cut(toPlayer, toPlayer', n, Close)
           /\ toServer' = <<>> /\ toServer' \in Seq(ToServer)
<1>1. PICK n \in Received..Len(toPlayer) : toPlayer' = Append(SubSeq(toPlayer, 1, n), Close)
  BY DEF Drop
<1>2. toPlayer \in Seq(ToPlayer) /\ Len(toPlayer) \in Nat /\ n \in Int /\ n >= 0 /\ n <= Len(toPlayer)
  BY QueueFacts DEF SessionTypeOK, Received
<1>3. Close \in ToPlayer
  BY PlayerFrames DEF Close
<1>4. \A i \in 1..n : toPlayer[i] \in ToPlayer
  BY <1>2, QueueFacts
<1> DEFINE p == SubSeq(toPlayer, 1, n)
<1>5. p \in Seq(ToPlayer) /\ Len(p) = n /\ \A i \in 1..n : p[i] = toPlayer[i]
  <2>1. /\ SubSeq(toPlayer, 1, n) \in Seq(ToPlayer)
        /\ Len(SubSeq(toPlayer, 1, n)) = IF 1 <= n THEN n - 1 + 1 ELSE 0
        /\ \A i \in 1..(n - 1 + 1) : SubSeq(toPlayer, 1, n)[i] = toPlayer[1 + i - 1]
    BY <1>2, <1>4, SubSeqProperties
  <2> QED
    BY <1>2, <2>1
<1> HIDE DEF p
<1>6. Append(p, Close) \in Seq(ToPlayer) /\ Longer(p, Append(p, Close), Close)
  BY <1>3, <1>5, AppendIsLonger
<1>7. Cut(toPlayer, Append(p, Close), n, Close)
  BY <1>2, <1>5, <1>6 DEF Longer, Cut
<1>8. <<>> \in Seq(ToServer)
  BY EmptySeq
<1> QED
  BY <1>1, <1>6, <1>7, <1>8 DEF p, Drop

\* Two frames at once: the result, and the close.
LEMMA TellDoneFacts ==
    ASSUME SessionTypeOK, TellDone
    PROVE  /\ toPlayer' \in Seq(ToPlayer)
           /\ toPlayer' = toPlayer \/
                 /\ ~Gone /\ Connected(Own)
                 /\ Len(toPlayer') = Len(toPlayer) + 2
                 /\ \A i \in 1..Len(toPlayer) : toPlayer'[i] = toPlayer[i]
                 /\ toPlayer'[Len(toPlayer) + 1] = Plain("done")
                 /\ toPlayer'[Len(toPlayer) + 2] = Close
<1> DEFINE d == <<Plain("done"), Close>>
<1>1. toPlayer \in Seq(ToPlayer) /\ Len(toPlayer) \in Nat
  BY QueueFacts DEF SessionTypeOK
<1>2. Plain("done") \in ToPlayer /\ Close \in ToPlayer
  BY PlayerFrames DEF Close
<1>3. d \in Seq(ToPlayer) /\ Len(d) = 2 /\ d[1] = Plain("done") /\ d[2] = Close
  BY <1>2
<1>4. toPlayer' = toPlayer \/ (~Gone /\ Connected(Own) /\ toPlayer' = toPlayer \o d)
  BY DEF TellDone, TellIf, Tell
<1> HIDE DEF d
<1>5. /\ toPlayer \o d \in Seq(ToPlayer)
      /\ Len(toPlayer \o d) = Len(toPlayer) + 2
      /\ \A i \in 1..(Len(toPlayer) + 2) :
            (toPlayer \o d)[i] = IF i <= Len(toPlayer) THEN toPlayer[i] ELSE d[i - Len(toPlayer)]
  <2>1. toPlayer \in Seq(ToPlayer) /\ d \in Seq(ToPlayer)
    BY <1>1, <1>3
  <2>2. /\ toPlayer \o d \in Seq(ToPlayer)
        /\ Len(toPlayer \o d) = Len(toPlayer) + Len(d)
        /\ \A i \in 1..Len(toPlayer) + Len(d) :
              (toPlayer \o d)[i] = IF i <= Len(toPlayer) THEN toPlayer[i] ELSE d[i - Len(toPlayer)]
    BY <2>1, ConcatProperties, Zenon
  <2> QED
    BY <1>3, <2>2
<1>6. \A i \in 1..Len(toPlayer) : (toPlayer \o d)[i] = toPlayer[i]
  BY <1>1, <1>5
<1>7. \A n \in Nat : n + 1 \in 1..(n + 2) /\ n + 2 \in 1..(n + 2) /\ ~(n + 1 <= n) /\ ~(n + 2 <= n)
                       /\ (n + 1) - n = 1 /\ (n + 2) - n = 2
  OBVIOUS
<1>8. /\ (toPlayer \o d)[Len(toPlayer) + 1] = d[1]
      /\ (toPlayer \o d)[Len(toPlayer) + 2] = d[2]
  <2>1. \A i \in 1..(Len(toPlayer) + 2) : ~(i <= Len(toPlayer)) => (toPlayer \o d)[i] = d[i - Len(toPlayer)]
    BY <1>5
  <2> QED
    BY <1>1, <1>7, <2>1, Zenon
<1> QED
  BY <1>1, <1>3, <1>4, <1>5, <1>6, <1>8

\* One frame at most: the other steps of the server.
OneMore(x) == toPlayer' = toPlayer \/ (~Gone /\ Longer(toPlayer, toPlayer', x))

LEMMA ServerTells ==
    ASSUME SessionTypeOK, Typed
    PROVE  /\ Refuse => toPlayer' \in Seq(ToPlayer) /\ OneMore(Close)
           /\ Shutdown => toPlayer' \in Seq(ToPlayer) /\ OneMore(Close)
           /\ TellStop => toPlayer' \in Seq(ToPlayer) /\ OneMore(Plain("stop"))
                             /\ (toPlayer' # toPlayer => Connected(Own))
           /\ Fail => toPlayer' \in Seq(ToPlayer) /\ OneMore(Close)
                             /\ (phase' # "failed" => toPlayer' = toPlayer)
           /\ TellEvidence => toPlayer' \in Seq(ToPlayer)
                 /\ IF stopper'[Own] = "acking" /\ ~Gone
                    THEN Longer(toPlayer, toPlayer', Plain("evidence")) ELSE toPlayer' = toPlayer
           /\ Observe => toPlayer' \in Seq(ToPlayer) /\ Round \in Windows
                 /\ IF Connected(Own) /\ ~Gone
                    THEN Longer(toPlayer, toPlayer', Observed(Round)) ELSE toPlayer' = toPlayer
           /\ Welcomed => toPlayer' \in Seq(ToPlayer)
                 /\ \/ toPlayer' = toPlayer
                    \/ ~Gone /\ stopMessage[Own] /\ Longer(toPlayer, toPlayer', Plain("stop"))
                    \/ /\ ~Gone /\ ~stopMessage[Own] /\ pending[Own] \in Windows
                       /\ Longer(toPlayer, toPlayer', Observed(pending[Own]))
<1>0. /\ toPlayer \in Seq(ToPlayer) /\ Close \in ToPlayer /\ Plain("stop") \in ToPlayer
      /\ Plain("evidence") \in ToPlayer
  BY PlayerFrames DEF SessionTypeOK, Close
<1>1. ASSUME Refuse PROVE toPlayer' \in Seq(ToPlayer) /\ OneMore(Close)
  BY <1>0, <1>1, TellFacts DEF Refuse, OneMore
<1>2. ASSUME Shutdown PROVE toPlayer' \in Seq(ToPlayer) /\ OneMore(Close)
  BY <1>0, <1>2, TellFacts DEF Shutdown, OneMore
<1>3. ASSUME TellStop
      PROVE  /\ toPlayer' \in Seq(ToPlayer) /\ OneMore(Plain("stop"))
             /\ toPlayer' # toPlayer => Connected(Own)
  <2>1. TellIf(Connected(Own), <<Plain("stop")>>) /\ Connected(Own) \in BOOLEAN
    BY <1>3 DEF TellStop, Connected
  <2> QED
    BY <1>0, <2>1, TellIfFacts DEF OneMore
<1>4. ASSUME Fail
      PROVE  /\ toPlayer' \in Seq(ToPlayer) /\ OneMore(Close)
             /\ phase' # "failed" => toPlayer' = toPlayer
  <2>1. CASE phase' = "failed"
    <3>1. TellIf(Connected(Own), <<Close>>) /\ Connected(Own) \in BOOLEAN
      BY <1>4, <2>1 DEF Fail, Connected
    <3> QED
      BY <1>0, <2>1, <3>1, TellIfFacts DEF OneMore
  <2>2. CASE phase' # "failed"
    BY <1>0, <1>4, <2>2 DEF Fail, OneMore
  <2> QED
    BY <2>1, <2>2
<1>5. ASSUME TellEvidence
      PROVE  /\ toPlayer' \in Seq(ToPlayer)
             /\ IF stopper'[Own] = "acking" /\ ~Gone
                THEN Longer(toPlayer, toPlayer', Plain("evidence")) ELSE toPlayer' = toPlayer
  <2> DEFINE c == stopper'[Own] = "acking"
  <2>1. TellIf(c, <<Plain("evidence")>>) /\ c \in BOOLEAN
    BY <1>5 DEF TellEvidence
  <2> HIDE DEF c
  <2>2. /\ toPlayer' \in Seq(ToPlayer)
        /\ IF c /\ ~Gone THEN Longer(toPlayer, toPlayer', Plain("evidence")) ELSE toPlayer' = toPlayer
    BY <1>0, <2>1, TellIfFacts
  <2> QED
    BY <2>2 DEF c
<1>6. ASSUME Observe
      PROVE  /\ toPlayer' \in Seq(ToPlayer) /\ Round \in Windows
             /\ IF Connected(Own) /\ ~Gone
                THEN Longer(toPlayer, toPlayer', Observed(Round)) ELSE toPlayer' = toPlayer
  <2>1. TellIf(Connected(Own), <<Observed(Round)>>) /\ Connected(Own) \in BOOLEAN
    BY <1>6 DEF Observe, Connected
  <2>2. Round \in Windows
    BY <1>6, RoundIsWindow DEF Observe
  <2>3. Observed(Round) \in ToPlayer
    BY <2>2, PlayerFrames
  <2> QED
    BY <2>1, <2>2, <2>3, TellIfFacts
<1>7. ASSUME Welcomed
      PROVE  /\ toPlayer' \in Seq(ToPlayer)
             /\ \/ toPlayer' = toPlayer
                \/ ~Gone /\ stopMessage[Own] /\ Longer(toPlayer, toPlayer', Plain("stop"))
                \/ /\ ~Gone /\ ~stopMessage[Own] /\ pending[Own] \in Windows
                   /\ Longer(toPlayer, toPlayer', Observed(pending[Own]))
  <2>1. CASE stopMessage[Own]
    <3>1. Tell(<<Plain("stop")>>)
      BY <1>7, <2>1 DEF Welcomed
    <3> QED
      BY <1>0, <2>1, <3>1, TellFacts
  <2>2. CASE ~stopMessage[Own] /\ pending[Own] # NoWindow
    <3>1. Tell(<<Observed(pending[Own])>>) /\ pending[Own] \in Windows
      BY <1>7, <2>2, OwnSeat DEF Welcomed, Typed, TypeOK
    <3>2. Observed(pending[Own]) \in ToPlayer
      BY <3>1, PlayerFrames
    <3> QED
      BY <2>2, <3>1, <3>2, TellFacts
  <2>3. CASE ~stopMessage[Own] /\ pending[Own] = NoWindow
    <3>1. Tell(<<>>)
      BY <1>7, <2>3 DEF Welcomed
    <3>2. toPlayer \o <<>> = toPlayer
      BY <1>0, ConcatEmptySeq
    <3> QED
      BY <1>0, <3>1, <3>2 DEF Tell
  <2> QED
    BY <2>1, <2>2, <2>3
<1> QED
  BY <1>1, <1>2, <1>3, <1>4, <1>5, <1>6, <1>7

\* What the server's steps do to the two queues.
ServerStep == Server \/ Welcomed \/ Hangup \/ Drop \/ Fail \/ Ended

LEMMA ServerQueues ==
    ASSUME SessionTypeOK, Typed, ServerStep
    PROVE  /\ toPlayer' \in Seq(ToPlayer)
           /\ Gone \/ ~Connected(Own) => toPlayer' = toPlayer
           /\ main = "settling" /\ toPlayer # <<>> => toPlayer' # <<>> /\ Head(toPlayer') = Head(toPlayer)
           /\ toServer' = toServer \/ toServer' = <<>> \/ (toServer # <<>> /\ toServer' = Tail(toServer))
           /\ toServer' \in Seq(ToServer)
           /\ UNCHANGED playerVars
<1> DEFINE Head1(r) == Len(r) > 0 /\ r[1] = toPlayer[1]
<1> DEFINE Goal == /\ toPlayer' \in Seq(ToPlayer)
                   /\ Gone \/ ~Connected(Own) => toPlayer' = toPlayer
                   /\ main = "settling" /\ Len(toPlayer) > 0 => Head1(toPlayer')
<1> DEFINE Sent1 == /\ toServer' = toServer \/ toServer' = <<>> \/ (toServer # <<>> /\ toServer' = Tail(toServer))
                    /\ UNCHANGED playerVars
<1>0. /\ toPlayer \in Seq(ToPlayer) /\ toServer \in Seq(ToServer) /\ Len(toPlayer) \in Nat
      /\ Connected(Own) \in BOOLEAN
  BY QueueFacts DEF SessionTypeOK, Connected
<1>1. ASSUME NEW x, Longer(toPlayer, toPlayer', x), Len(toPlayer) > 0
      PROVE  Head1(toPlayer')
  BY <1>0, <1>1 DEF Longer
<1>2. ASSUME Receive \/ Unheard \/ Quiet \/ Hangup \/ Ended PROVE Goal /\ Sent1
  <2>1. toPlayer' = toPlayer /\ Sent1
    BY <1>2 DEF Receive, Unheard, Quiet, Hangup, Ended, wireVars, sessionVars, playerVars
  <2> QED
    BY <1>0, <2>1
<1>3. ASSUME Refuse \/ Shutdown PROVE Goal /\ Sent1
  <2>1. OneMore(Close) /\ toPlayer' \in Seq(ToPlayer)
    BY <1>3, ServerTells
  <2>2. Sent1 /\ Connected(Own)
    BY <1>3 DEF Refuse, Shutdown, Disconnect
  <2>3. Gone => toPlayer' = toPlayer
    BY <2>1 DEF OneMore
  <2>4. main = "settling" /\ Len(toPlayer) > 0 => Head1(toPlayer')
    BY <2>1, <1>1 DEF OneMore
  <2> QED
    BY <2>1, <2>2, <2>3, <2>4
<1>4. ASSUME Observe PROVE Goal /\ Sent1
  <2>1. /\ toPlayer' \in Seq(ToPlayer)
        /\ IF Connected(Own) /\ ~Gone
           THEN Longer(toPlayer, toPlayer', Observed(Round)) ELSE toPlayer' = toPlayer
    BY <1>4, ServerTells
  <2>2. Sent1
    BY <1>4 DEF Observe
  <2> QED
    BY <1>1, <2>1, <2>2
<1>5. ASSUME TellStop PROVE Goal /\ Sent1
  <2>1. toPlayer' \in Seq(ToPlayer) /\ OneMore(Plain("stop")) /\ (toPlayer' # toPlayer => Connected(Own))
    BY <1>5, ServerTells
  <2>2. Sent1
    BY <1>5 DEF TellStop
  <2> QED
    BY <1>1, <2>1, <2>2 DEF OneMore
<1>6. ASSUME TellEvidence PROVE Goal /\ Sent1
  <2>1. /\ toPlayer' \in Seq(ToPlayer)
        /\ IF stopper'[Own] = "acking" /\ ~Gone
           THEN Longer(toPlayer, toPlayer', Plain("evidence")) ELSE toPlayer' = toPlayer
    BY <1>6, ServerTells
  <2>2. stopper'[Own] = "acking" => Connected(Own)
    BY <1>6, OwnSeat DEF TellEvidence, StopAcknowledged, Stopper, Typed, TypeOK
  <2>3. Sent1
    BY <1>6 DEF TellEvidence
  <2> QED
    BY <1>1, <2>1, <2>2, <2>3
<1>7. ASSUME TellDone PROVE Goal /\ Sent1
  <2>1. /\ toPlayer' \in Seq(ToPlayer)
        /\ toPlayer' = toPlayer \/
              /\ ~Gone /\ Connected(Own)
              /\ Len(toPlayer') = Len(toPlayer) + 2
              /\ \A i \in 1..Len(toPlayer) : toPlayer'[i] = toPlayer[i]
    BY <1>7, TellDoneFacts
  <2>2. Sent1
    BY <1>7 DEF TellDone
  <2> QED
    BY <1>0, <2>1, <2>2
<1>8. ASSUME Fail PROVE Goal /\ Sent1
  <2>1. toPlayer' \in Seq(ToPlayer) /\ OneMore(Close)
    BY <1>8, ServerTells
  <2>2. ~Connected(Own) => toPlayer' = toPlayer
    BY <1>8 DEF Fail, TellIf
  <2>3. Sent1
    BY <1>8 DEF Fail
  <2> QED
    BY <1>1, <2>1, <2>2, <2>3 DEF OneMore
<1>9. ASSUME Welcomed PROVE Goal /\ Sent1
  <2>1. toPlayer' \in Seq(ToPlayer) /\ \E x : OneMore(x)
    BY <1>9, ServerTells DEF OneMore
  <2>2. Sent1 /\ Connected(Own)
    BY <1>9 DEF Welcomed, Greet, Connected
  <2> QED
    BY <1>1, <2>1, <2>2 DEF OneMore
<1>10. ASSUME Drop PROVE Goal /\ Sent1
  <2>1. PICK n \in Received..Len(toPlayer) : Cut(toPlayer, toPlayer', n, Close)
    BY <1>10, DropFacts
  <2>2. toPlayer' \in Seq(ToPlayer) /\ toServer' = <<>>
    BY <1>10, DropFacts
  <2>3. ~Gone /\ Connected(Own) /\ UNCHANGED playerVars
    BY <1>10 DEF Drop, Disconnect
  <2>4. main = "settling" => n \in Nat /\ n >= 1
    BY <1>0, <2>1 DEF Received
  <2>5. main = "settling" => Head1(toPlayer')
    BY <2>1, <2>4 DEF Cut
  <2> QED
    BY <2>2, <2>3, <2>5
<1>11. Goal /\ Sent1
  BY <1>2, <1>3, <1>4, <1>5, <1>6, <1>7, <1>8, <1>9, <1>10 DEF ServerStep, Server
<1>12. toServer' \in Seq(ToServer)
  <2>1. <<>> \in Seq(ToServer)
    BY EmptySeq
  <2> QED
    BY <1>0, <1>11, <2>1, QueueFacts
<1>13. main = "settling" /\ toPlayer # <<>> => toPlayer' # <<>> /\ Head(toPlayer') = Head(toPlayer)
  BY <1>0, <1>11, QueueFacts
<1> QED
  BY <1>11, <1>12, <1>13

\* Of the server's variables, a player that has not connected sees none move.
LEMMA BaseServer ==
    ASSUME Base, Typed, ServerStep
    PROVE  PlayerTypes' /\ WireTypes' /\ Books' /\ Tasks' /\ Places'
<1>1. SessionTypeOK
  BY TypesSplit DEF Base
<1>2. /\ toPlayer' \in Seq(ToPlayer) /\ toServer' \in Seq(ToServer)
      /\ Gone \/ ~Connected(Own) => toPlayer' = toPlayer
      /\ main = "settling" /\ toPlayer # <<>> => toPlayer' # <<>> /\ Head(toPlayer') = Head(toPlayer)
      /\ toServer = <<>> => toServer' = <<>>
      /\ UNCHANGED playerVars
  BY <1>1, ServerQueues
<1>3. WireTypes'
  <2>1. refused' \in BOOLEAN
    BY DEF ServerStep, Server, Receive, Refuse, Observe, Unheard, TellStop, TellEvidence, TellDone,
       Shutdown, Quiet, Welcomed, Hangup, Drop, Fail, Ended, wireVars, sessionVars, Base, WireTypes
  <2>2. faults' = faults \/ \E f \in Faults : faults' = faults \cup {f}
    BY DEF ServerStep, Server, Receive, Refuse, Observe, Unheard, TellStop, TellEvidence, TellDone,
       Shutdown, Quiet, Welcomed, Hangup, Drop, Fail, Ended, wireVars, sessionVars, Fault, Faults
  <2> QED
    BY <1>2, <2>1, <2>2 DEF WireTypes, Base
<1>4. ASSUME link[Own] = "down"
      PROVE  link' = link /\ registered' = registered /\ everConnected' = everConnected
  <2>1. CASE Receive \/ Refuse \/ Shutdown \/ Welcomed \/ Hangup \/ Drop
    BY <1>4, <2>1 DEF Receive, Refuse, Shutdown, Welcomed, Hangup, Drop, Disconnect, Greet, Connected
  <2>2. CASE Observe \/ Unheard
    BY <2>2 DEF Observe, Unheard, Ask, SendFailed, TimedOut, Return, Cancelled, linkVars
  <2>3. CASE TellStop \/ TellEvidence \/ TellDone
    BY <2>3 DEF TellStop, TellEvidence, TellDone, SealUnused, SendStop, StopAcknowledged, Publish, linkVars
  <2>4. CASE Quiet
    BY <2>4 DEF Quiet, Sent, Expire, Answered, Return, StopSent, EvidenceSent, StopOverdue, Engine,
       BeginHole, RetryBatch, Install, HoleScored, SandboxFault, EngineRaises, EndRun, CallsCancelled, linkVars
  <2>5. CASE Fail \/ Ended
    BY <2>5 DEF Fail, Withhold, Signal, Ended, Terminated, vars, linkVars
  <2> QED
    BY <2>1, <2>2, <2>3, <2>4, <2>5 DEF ServerStep, Server
<1>5. PlayerTypes' /\ Books'
  BY <1>2 DEF PlayerTypes, Books, playerVars, Base
<1>6. Tasks'
  BY <1>2 DEF Tasks, playerVars, Base, CallLive, Current
<1>7. Places'
  <2>1. main = "connecting" => toPlayer' = <<>> /\ toServer' = <<>> /\ link'[Own] = "down"
                               /\ ~registered'[Own] /\ ~everConnected'[Own]
    BY <1>2, <1>4 DEF Base, Places, Connected
  <2>2. main = "settling" => toPlayer' # <<>> /\ Head(toPlayer').type = "observation"
    BY <1>2 DEF Base, Places
  <2> QED
    BY <1>2, <2>1, <2>2 DEF Base, Places, playerVars, WorkerLive, CallLive, Gone
<1> QED
  BY <1>3, <1>5, <1>6, <1>7

\* The tasks of the player send snapshots and actions, and meet faults.
TaskStep == Worker \/ Policy \/ \E i \in DOMAIN writers : WriterSend(i)

LEMMA TaskSteps ==
    ASSUME Base, TaskStep
    PROVE  /\ UNCHANGED <<vars, main, stop, acked, toPlayer, refused>>
           /\ WireTypes'
           /\ toServer' = toServer \/
                /\ link[Own] # "down" /\ Live
                /\ \E x \in ToServer : /\ Longer(toServer, toServer', x)
                                       /\ x.type \in {"attempt_started", "action"}
           /\ faults \subseteq faults'
           /\ faults' \subseteq faults \cup {"unjoined", "interrupted", "stalled", "unreadable", "wide"}
           /\ worker = "none" <=> worker' = "none"
<1>0. /\ SessionTypeOK /\ Len(writers) \in Nat /\ DOMAIN writers = 1..Len(writers)
      /\ \A i \in DOMAIN writers : writers[i] \in Writer
      /\ writers # <<>> => Current \in DOMAIN writers
  BY TypesSplit, QueueFacts DEF Base, PlayerTypes, Current
<1>1. CASE Policy
  <2>1. UNCHANGED <<vars, main, stop, acked, toPlayer, toServer, refused>>
    BY <1>1 DEF Policy, TryAttempt, Degrade, Request, Headers, ResponseEnds, Closed, CloseStuck,
       CloseInterrupted, CallOnly, wireVars
  <2>2. worker' = worker \/ (worker \in {"expired", "cancelling"} /\ worker' = "failed")
    BY <1>1 DEF Policy, TryAttempt, Degrade, Request, Headers, ResponseEnds, Closed, CloseStuck,
       CloseInterrupted, CallOnly
  <2>3. faults' = faults \/ faults' = faults \cup {"unjoined"} \/ faults' = faults \cup {"interrupted"}
    BY <1>1 DEF Policy, TryAttempt, Degrade, Request, Headers, ResponseEnds, Closed, CloseStuck,
       CloseInterrupted, CallOnly, wireVars, Fault
  <2> QED
    BY <2>1, <2>2, <2>3 DEF Base, WireTypes, Faults
<1>2. CASE GotPayload \/ Deadline \/ Fallback \/ WorkerCancelled
  <2>1. UNCHANGED <<vars, main, stop, acked, wireVars>>
    BY <1>2 DEF GotPayload, Deadline, Fallback, WorkerCancelled
  <2>2. worker # "none" /\ worker' # "none"
    BY <1>2 DEF GotPayload, Deadline, Fallback, WorkerCancelled, WorkerStep
  <2> QED
    BY <2>1, <2>2 DEF wireVars, Base, WireTypes
<1>3. CASE Submit
  <2>1. /\ UNCHANGED <<vars, main, stop, acked, writers, toPlayer, refused>>
        /\ worker = "finishing" /\ worker' = "done"
        /\ faults' \in {faults, faults \cup {"wide"}}
        /\ \E fits \in BOOLEAN : Send(Action(Window, call.attempt, fits))
    BY <1>3 DEF Submit, WorkerStep, Fault
  <2>2. Window \in Windows /\ call.attempt \in AttemptIds \cup {NoAttempt}
    BY <1>0, <2>1 DEF Base, Tasks, PlayerTypes, Writer, CallState, Window
  <2>3. \A fits \in BOOLEAN : /\ Action(Window, call.attempt, fits) \in ToServer
                             /\ Action(Window, call.attempt, fits).type = "action"
    BY <2>2, ServerFrames DEF Action
  <2>4. PICK x \in ToServer : x.type = "action" /\ Send(x)
    BY <2>1, <2>3
  <2>5. /\ toServer' \in Seq(ToServer)
        /\ IF link[Own] = "down" \/ phase = "failed"
           THEN toServer' = toServer ELSE Longer(toServer, toServer', x)
    BY <1>0, <2>4, SendFacts
  <2> QED
    BY <2>1, <2>4, <2>5 DEF Base, WireTypes, Faults, Live
<1>4. CASE FinishStuck
  BY <1>4 DEF FinishStuck, WorkerStep, Fault, Base, WireTypes, Faults
<1>7. CASE Unreadable
  BY <1>7 DEF Unreadable, WorkerStep, Fault, Base, WireTypes, Faults
<1>5. ASSUME NEW i \in DOMAIN writers, WriterSend(i)
      PROVE  /\ UNCHANGED <<vars, main, stop, acked, worker, toPlayer, refused, faults>>
             /\ \E x \in ToServer : Send(x) /\ x.type = "attempt_started"
  <2>1. writers[i] \in Writer /\ writers[i].latest # <<>> /\ writers[i].latest \in Seq(Snapshot)
    BY <1>0, <1>5 DEF WriterSend, Writer
  <2>2. Head(writers[i].latest) \in Snapshot /\ writers[i].window \in Windows
    BY <2>1, HeadTailProperties DEF Writer
  <2>3. /\ Started(writers[i].window, Head(writers[i].latest)) \in ToServer
        /\ Started(writers[i].window, Head(writers[i].latest)).type = "attempt_started"
    BY <2>2, ServerFrames DEF Started
  <2> QED
    BY <1>5, <2>3 DEF WriterSend
<1>6. CASE \E i \in DOMAIN writers : WriterSend(i)
  <2>1. PICK x \in ToServer : Send(x) /\ x.type = "attempt_started"
    BY <1>5, <1>6
  <2>2. UNCHANGED <<vars, main, stop, acked, worker, toPlayer, refused, faults>>
    BY <1>5, <1>6
  <2>3. /\ toServer' \in Seq(ToServer)
        /\ IF link[Own] = "down" \/ phase = "failed"
           THEN toServer' = toServer ELSE Longer(toServer, toServer', x)
    BY <1>0, <2>1, SendFacts
  <2> QED
    BY <2>1, <2>2, <2>3 DEF Base, WireTypes, Live
<1> QED
  BY <1>1, <1>2, <1>3, <1>4, <1>6, <1>7 DEF TaskStep, Worker

\* The receiving loop takes frames in turn, and sends two of its own.
LEMMA MainQueues ==
    ASSUME Base, Main
    PROVE  /\ UNCHANGED refused
           /\ WireTypes'
           /\ faults' = faults \/ (DrainStuck /\ faults' = faults \cup {"stalled"})
           /\ ~Join => UNCHANGED vars
           /\ (OnWelcome => Send(Ready)) /\ (SendStopped => Send(Stopped))
           /\ OnWelcome \/ SendStopped \/ toServer' = toServer
<1>0. SessionTypeOK /\ toPlayer \in Seq(ToPlayer) /\ Ready \in ToServer /\ Stopped \in ToServer
  BY TypesSplit, ServerFrames DEF Base, WireTypes
<1>1. /\ UNCHANGED refused
      /\ faults' = faults \/ (DrainStuck /\ faults' = faults \cup {"stalled"})
      /\ ~Join => UNCHANGED vars
      /\ (OnWelcome => Send(Ready)) /\ (SendStopped => Send(Stopped))
      /\ OnWelcome \/ SendStopped \/ UNCHANGED toServer
  BY DEF Main, Join, NeverJoins, OnWelcome, OnObservation, PreviousJoined, OnStop, OwnersStopped,
     SendStopped, DrainStuck, OnEvidence, OnEnd, WorkerFailed, Flush, Exit, wireVars, playerVars, Fault
<1>2. toPlayer # <<>> => Tail(toPlayer) \in Seq(ToPlayer)
  BY <1>0, QueueFacts
<1>3. toPlayer' \in Seq(ToPlayer)
  <2>1. CASE Join
    BY <1>0, <2>1, TellFacts, PlayerFrames DEF Join
  <2>2. <<>> \in Seq(ToPlayer)
    BY EmptySeq
  <2>3. CASE OnObservation \/ PreviousJoined \/ OnWelcome \/ OnStop \/ OnEvidence \/ OnEnd
    <3>1. toPlayer # <<>> \/ main = "settling"
      BY <2>3 DEF OnObservation, PreviousJoined, OnWelcome, OnStop, OnEvidence, OnEnd, Frame
    <3>2. toPlayer # <<>>
      BY <3>1 DEF Base, Places
    <3>3. toPlayer' = toPlayer \/ toPlayer' = Tail(toPlayer) \/ toPlayer' = <<>>
      BY <2>3 DEF OnObservation, PreviousJoined, OnWelcome, OnStop, OnEvidence, OnEnd, Take, StartWorker, Leave
    <3> QED
      BY <1>0, <1>2, <2>2, <3>2, <3>3
  <2>4. CASE NeverJoins \/ OwnersStopped \/ SendStopped \/ DrainStuck \/ WorkerFailed \/ Flush \/ Exit
    <3>1. toPlayer' = toPlayer \/ toPlayer' = <<>>
      BY <2>4 DEF NeverJoins, OwnersStopped, SendStopped, DrainStuck, WorkerFailed, Flush, Exit, Leave, wireVars
    <3> QED
      BY <1>0, <2>2, <3>1
  <2> QED
    BY <2>1, <2>3, <2>4 DEF Main
<1>4. toServer' \in Seq(ToServer)
  BY <1>0, <1>1, SendFacts DEF SessionTypeOK
<1>5. WireTypes'
  BY <1>1, <1>3, <1>4 DEF WireTypes, Base, Faults
<1> QED
  BY <1>1, <1>5

--------------------------------------------------------------------------------
(***************************************************************************)
(* The seat's invariant and the player's books, together: types, and the   *)
(* refinement.                                                             *)
(***************************************************************************)
SessionBase == Inv /\ StopInv /\ Base

LEMMA BaseInit == SessionInit => SessionBase
<1> SUFFICES ASSUME SessionInit PROVE Base
  BY InvInit, StopInit DEF SessionInit, SessionBase
<1>1. TypeOK
  BY TypedInit DEF SessionInit, Typed
<1>2. <<>> \in Seq(ToPlayer) /\ <<>> \in Seq(ToServer) /\ <<>> \in Seq(Writer) /\ DOMAIN <<>> = {}
  BY EmptySeq
<1>3. NoCall \in CallState /\ NoCall.step = "none" /\ NoCall.attempts = {}
  BY DEF NoCall, CallState, CallStates
<1>4. PlayerTypes
  BY <1>2, <1>3 DEF SessionInit, PlayerTypes, MainStates, WorkerStates
<1>5. WireTypes
  BY <1>2 DEF SessionInit, WireTypes
<1>6. IsFiniteSet({}) /\ Cardinality({}) <= MaxAttempts
  BY FS_EmptySet, SessionAssumption, AdmissionAssumption
<1>7. Books
  BY <1>3, <1>6 DEF SessionInit, Books
<1>8. Tasks
  BY <1>2, <1>3 DEF SessionInit, Tasks, CallLive
<1>9. Places
  BY OwnSeat DEF SessionInit, Init, Places, Gone
<1> QED
  BY <1>1, <1>4, <1>5, <1>7, <1>8, <1>9 DEF Base

LEMMA BaseNext == SessionBase /\ [SessionNext]_sessionVars => SessionBase'
<1> SUFFICES ASSUME SessionBase, [SessionNext]_sessionVars PROVE SessionBase'
  OBVIOUS
<1>1. SessionTypeOK /\ Base /\ Typed
  BY TypesSplit DEF SessionBase, Base, Inv
<1>2. [Next]_vars
  BY <1>1, SessionIsSeat
<1>3. Inv' /\ StopInv'
  BY <1>1, <1>2, InvNext, StopNext DEF SessionBase
<1>4. PlayerTypes' /\ WireTypes' /\ Books' /\ Tasks' /\ Places'
  <2>1. CASE Main
    BY <1>1, <2>1, BaseMain, MainQueues
  <2>2. CASE TaskStep
    BY <1>1, <2>2, BaseWorker, BasePolicy, BaseWriterSend, TaskSteps DEF TaskStep
  <2>3. CASE ServerStep
    BY <1>1, <2>3, BaseServer
  <2>4. CASE UNCHANGED sessionVars
    <3>1. UNCHANGED <<playerVars, wireVars, link, registered, everConnected>>
      BY <2>4 DEF sessionVars, vars, linkVars
    <3>2. PlayerTypes' /\ Books'
      BY <1>1, <3>1 DEF PlayerTypes, Books, playerVars, Base
    <3>3. WireTypes'
      BY <1>1, <3>1 DEF WireTypes, wireVars, Base
    <3>4. Tasks'
      BY <1>1, <3>1 DEF Tasks, playerVars, Base, CallLive, Current
    <3>5. Places'
      BY <1>1, <3>1 DEF Places, playerVars, wireVars, Base, CallLive, WorkerLive, Gone
    <3> QED
      BY <3>2, <3>3, <3>4, <3>5
  <2> QED
    BY <2>1, <2>2, <2>3, <2>4 DEF SessionNext, TaskStep, ServerStep
<1>5. TypeOK'
  BY <1>3 DEF Inv, Typed
<1> QED
  BY <1>3, <1>4, <1>5 DEF SessionBase, Base

LEMMA BaseHolds == SessionSpec => []SessionBase
BY BaseInit, BaseNext, PTL DEF SessionSpec

\* Queues, writers, tasks and the seat keep their types: every snapshot on its
\* way is one of an attempt, and no writer has two of the same attempt.
THEOREM SessionTypes == SessionSpec => []SessionTypeOK
<1>1. SessionBase => SessionTypeOK
  BY TypesSplit DEF SessionBase, Base
<1> QED
  BY <1>1, BaseHolds, PTL

\* The server of a session is the seat of SeatWindow: whatever this player sends
\* is something that anybody may have sent, and every theorem about the seat holds
\* of a session.
THEOREM SeatRefined == SessionSpec => ImplementsSeatWindow
<1>1. SessionInit => Init
  BY DEF SessionInit
<1>2. SessionBase /\ [SessionNext]_sessionVars => [Next]_vars
  BY SessionIsSeat, TypesSplit DEF SessionBase, Base
<1> QED
  BY <1>1, <1>2, BaseHolds, PTL DEF SessionSpec, ImplementsSeatWindow, Spec

\* Through the seat, a session of this player is an episode of Match, and what its
\* holes install was accepted in their own windows, or is a fallback after both.
THEOREM SessionPlaysMatch ==
    SessionSpec => ImplementsMatch /\ [](InstalledWasAccepted /\ FallbackAfterRetry)
<1>1. SessionSpec => Spec
  BY SeatRefined DEF ImplementsSeatWindow
<1> QED
  BY <1>1, MatchRefined, InstalledAccepted, FallbackNeedsRetry, PTL
================================================================================
