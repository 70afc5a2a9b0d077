-------------------------- MODULE PlayerEvidenceProofs --------------------------
(***************************************************************************)
(* Theorems about what a player's packets say, for any windows, attempts   *)
(* and limits: which of them the server refuses, and what it has on record *)
(* of the attempts when it publishes.                                      *)
(*                                                                         *)
(* What is said of an attempt stands on one line: the server's row of it,  *)
(* then the frames on their way, then what the current writer has still to *)
(* send.  While nothing has gone wrong the line is in order, and its last  *)
(* word is what the player knows.                                          *)
(***************************************************************************)
EXTENDS PlayerStopProofs

--------------------------------------------------------------------------------
(***************************************************************************)
(* The line of words.                                                      *)
(***************************************************************************)
Active == adm[Own].active
Row(a) == adm[Own].attempts[a]
Latest == IF writers = <<>> THEN {} ELSE Members(writers[Current].latest)
IsStart(p) == p \in DOMAIN toServer /\ toServer[p].type = "attempt_started"
IsAction(p) == p \in DOMAIN toServer /\ toServer[p].type = "action"

\* At place p of the line, the reader of attempt a is said to be r.
Said(p, a, r) ==
    \/ p = 0 /\ Row(a).window # NoWindow /\ Row(a).reader = r
    \/ IsStart(p) /\ toServer[p].attempt = a /\ toServer[p].reader = r
    \/ p = Len(toServer) + 1 /\ [attempt |-> a, reader |-> r] \in Latest

\* What is said is true of the player, and nobody takes a join back.
Honest ==
    /\ \A p \in Nat, a \in AttemptIds, r \in Readers : Said(p, a, r) =>
          reader[a] # "none" /\ (r = "joined" => reader[a] = "joined")
    /\ \A p, q \in Nat, a \in AttemptIds, r \in Readers :
          Said(p, a, "joined") /\ Said(q, a, r) /\ p <= q => r = "joined"

\* The last word on an attempt is what the player knows of it.
Told(a) ==
    \E p \in Nat :
        /\ Said(p, a, reader[a])
        /\ \A q \in Nat, r \in Readers : Said(q, a, r) => q <= p

\* Nothing moves on the line.
LEMMA SameWords ==
    ASSUME adm'[Own].attempts = adm[Own].attempts, toServer' = toServer, Latest' = Latest
    PROVE  \A p, a, r : Said(p, a, r)' <=> Said(p, a, r)
BY DEF Said, Row, IsStart

LEMMA SameHonest ==
    ASSUME \A p, a, r : Said(p, a, r)' <=> Said(p, a, r), reader' = reader, Honest
    PROVE  /\ Honest' /\ \A a \in AttemptIds : Told(a) => Told(a)'
BY DEF Honest, Told

\* The places of the line.
LEMMA WordPlaces ==
    ASSUME Base
    PROVE  /\ Len(toServer) \in Nat /\ DOMAIN toServer = 1..Len(toServer)
           /\ \A p \in Nat : \A a, r :
                 /\ p = 0 => (Said(p, a, r) <=> Row(a).window # NoWindow /\ Row(a).reader = r)
                 /\ p \in 1..Len(toServer) =>
                       (Said(p, a, r) <=> IsStart(p) /\ toServer[p].attempt = a /\ toServer[p].reader = r)
                 /\ p = Len(toServer) + 1 =>
                       (Said(p, a, r) <=> [attempt |-> a, reader |-> r] \in Latest)
                 /\ Said(p, a, r) => p <= Len(toServer) + 1
<1>1. Len(toServer) \in Nat /\ DOMAIN toServer = 1..Len(toServer)
  BY QueueShapes
<1> QED
  BY <1>1 DEF Said, IsStart

LEMMA WordPlacesPrime ==
    ASSUME WireTypes'
    PROVE  /\ Len(toServer') \in Nat /\ DOMAIN toServer' = 1..Len(toServer')
           /\ \A p \in Nat : \A a, r :
                 /\ p = 0 => (Said(p, a, r)' <=> Row(a)'.window # NoWindow /\ Row(a)'.reader = r)
                 /\ p \in 1..Len(toServer') =>
                       (Said(p, a, r)' <=> IsStart(p)' /\ toServer'[p].attempt = a /\ toServer'[p].reader = r)
                 /\ p = Len(toServer') + 1 =>
                       (Said(p, a, r)' <=> [attempt |-> a, reader |-> r] \in Latest')
                 /\ Said(p, a, r)' => p <= Len(toServer') + 1
<1>1. Len(toServer') \in Nat /\ DOMAIN toServer' = 1..Len(toServer')
  BY QueueShapesPrime
<1> QED
  BY <1>1 DEF Said, IsStart

\* A frame that says nothing of an attempt joins the frames on their way.
LEMMA PushedWords ==
    ASSUME Base, WireTypes', adm'[Own].attempts = adm[Own].attempts, Latest' = Latest,
           NEW x, x.type # "attempt_started", Longer(toServer, toServer', x)
    PROVE  \A p, q \in Nat : \A a, r : q = Len(toServer) + 1 =>
              (Said(p, a, r)' <=> (p < q /\ Said(p, a, r)) \/ (p = q + 1 /\ Said(q, a, r)))
<1> DEFINE n == Len(toServer)
<1>1. /\ n \in Nat /\ Len(toServer') = n + 1
      /\ \A i \in 1..n : toServer'[i] = toServer[i]
      /\ toServer'[n + 1].type # "attempt_started"
  BY WordPlaces DEF Longer
<1>2. \A p \in 1..n : IsStart(p)' <=> IsStart(p)
  BY <1>1, WordPlaces, WordPlacesPrime DEF IsStart
<1>3. \A p \in Nat : p = n + 1 => ~IsStart(p)'
  BY <1>1 DEF IsStart
<1>4. \A a : Row(a)' = Row(a)
  BY DEF Row
<1>5. SUFFICES ASSUME NEW p \in Nat, NEW a, NEW r, NEW q \in Nat, q = n + 1
               PROVE  Said(p, a, r)' <=> (p < q /\ Said(p, a, r)) \/ (p = q + 1 /\ Said(q, a, r))
  OBVIOUS
<1>6. /\ p = 0 => (Said(p, a, r) <=> Row(a).window # NoWindow /\ Row(a).reader = r)
      /\ p \in 1..n => (Said(p, a, r) <=> IsStart(p) /\ toServer[p].attempt = a /\ toServer[p].reader = r)
      /\ Said(q, a, r) <=> [attempt |-> a, reader |-> r] \in Latest
  BY <1>5, WordPlaces
<1>7. /\ p = 0 => (Said(p, a, r)' <=> Row(a)'.window # NoWindow /\ Row(a)'.reader = r)
      /\ p \in 1..(n + 1) =>
            (Said(p, a, r)' <=> IsStart(p)' /\ toServer'[p].attempt = a /\ toServer'[p].reader = r)
      /\ p = n + 2 => (Said(p, a, r)' <=> [attempt |-> a, reader |-> r] \in Latest')
      /\ p > n + 2 => ~Said(p, a, r)'
  BY <1>1, WordPlacesPrime
<1> HIDE DEF n
<1>8. CASE p = 0
  BY <1>1, <1>4, <1>5, <1>6, <1>7, <1>8
<1>9. CASE p \in 1..n
  BY <1>1, <1>2, <1>5, <1>6, <1>7, <1>9
<1>10. CASE p = n + 1
  BY <1>1, <1>3, <1>5, <1>6, <1>7, <1>10
<1>11. CASE p > n + 1
  BY <1>1, <1>5, <1>6, <1>7, <1>11
<1> QED
  BY <1>1, <1>8, <1>9, <1>10, <1>11

LEMMA PushedHonest ==
    ASSUME Base, Honest, reader' = reader,
           \A p, q \in Nat : \A a, r : q = Len(toServer) + 1 =>
              (Said(p, a, r)' <=> (p < q /\ Said(p, a, r)) \/ (p = q + 1 /\ Said(q, a, r)))
    PROVE  /\ Honest' /\ \A a \in AttemptIds : Told(a) => Told(a)'
<1>1. PICK n \in Nat : n = Len(toServer) + 1
  BY WordPlaces
<1>2. \A p \in Nat : \A a, r :
         Said(p, a, r)' <=> (p < n /\ Said(p, a, r)) \/ (p = n + 1 /\ Said(n, a, r))
  BY <1>1
<1>3. \A p \in Nat : \A a, r : Said(p, a, r) => p <= n
  BY <1>1, WordPlaces
<1>4. Honest'
  BY <1>2, <1>3 DEF Honest
<1>5. ASSUME NEW a \in AttemptIds, Told(a) PROVE Told(a)'
  <2>1. PICK p \in Nat : Said(p, a, reader[a]) /\ \A q \in Nat, r \in Readers : Said(q, a, r) => q <= p
    BY <1>5 DEF Told
  <2>2. CASE p < n
    <3>1. Said(p, a, reader[a])'
      BY <1>2, <2>1, <2>2 
    <3>2. \A q \in Nat, r \in Readers : Said(q, a, r)' => q <= p
      BY <1>2, <2>1, <2>2
    <3> QED
      BY <3>1, <3>2 DEF Told
  <2>3. CASE p = n
    <3> DEFINE m == n + 1
    <3>1. m \in Nat /\ \A x : x = reader[a] => Said(m, a, x)'
      BY <1>2, <2>1, <2>3
    <3>2. \A q \in Nat, r \in Readers : Said(q, a, r)' => q <= m
      BY <1>2
    <3> HIDE DEF m
    <3> QED
      BY <3>1, <3>2 DEF Told
  <2> QED
    BY <1>3, <2>1, <2>2, <2>3
<1> QED
  BY <1>4, <1>5

\* A writer sends its first snapshot: the word moves from its latest to the frames.
LEMMA SentWords ==
    ASSUME Base, WireTypes', adm'[Own].attempts = adm[Own].attempts,
           NEW h \in Snapshot, h \in Latest, Latest' = Latest \ {h},
           \A t \in Latest : t # h => t.attempt # h.attempt,
           NEW x, x.type = "attempt_started", x.attempt = h.attempt, x.reader = h.reader,
           Longer(toServer, toServer', x)
    PROVE  \A p, q \in Nat : \A a \in AttemptIds, r \in Readers : q = Len(toServer) + 1 =>
              /\ Said(q, h.attempt, r) <=> r = h.reader
              /\ Said(p, a, r)' <=> \/ p < q /\ Said(p, a, r)
                                    \/ p = q /\ a = h.attempt /\ r = h.reader
                                    \/ p = q + 1 /\ a # h.attempt /\ Said(q, a, r)
<1> DEFINE n == Len(toServer)
<1>1. /\ n \in Nat /\ Len(toServer') = n + 1
      /\ \A i \in 1..n : toServer'[i] = toServer[i]
      /\ toServer'[n + 1] = x
  BY WordPlaces DEF Longer
<1>2. \A p \in 1..n : IsStart(p)' <=> IsStart(p)
  BY <1>1, WordPlaces, WordPlacesPrime DEF IsStart
<1>3. \A p \in Nat : p = n + 1 => IsStart(p)'
  BY <1>1, WordPlacesPrime DEF IsStart
<1>4. \A a : Row(a)' = Row(a)
  BY DEF Row
<1>5. SUFFICES ASSUME NEW p \in Nat, NEW a \in AttemptIds, NEW r \in Readers, NEW q \in Nat, q = n + 1
               PROVE  /\ Said(q, h.attempt, r) <=> r = h.reader
                      /\ Said(p, a, r)' <=> \/ p < q /\ Said(p, a, r)
                                            \/ p = q /\ a = h.attempt /\ r = h.reader
                                            \/ p = q + 1 /\ a # h.attempt /\ Said(q, a, r)
  OBVIOUS
<1>6. /\ p = 0 => (Said(p, a, r) <=> Row(a).window # NoWindow /\ Row(a).reader = r)
      /\ p \in 1..n => (Said(p, a, r) <=> IsStart(p) /\ toServer[p].attempt = a /\ toServer[p].reader = r)
      /\ Said(q, a, r) <=> [attempt |-> a, reader |-> r] \in Latest
      /\ Said(q, h.attempt, r) <=> [attempt |-> h.attempt, reader |-> r] \in Latest
  BY <1>5, WordPlaces
<1>7. /\ p = 0 => (Said(p, a, r)' <=> Row(a)'.window # NoWindow /\ Row(a)'.reader = r)
      /\ p \in 1..(n + 1) =>
            (Said(p, a, r)' <=> IsStart(p)' /\ toServer'[p].attempt = a /\ toServer'[p].reader = r)
      /\ p = n + 2 => (Said(p, a, r)' <=> [attempt |-> a, reader |-> r] \in Latest')
      /\ Said(p, a, r)' => p <= n + 2
  BY <1>1, WordPlacesPrime
<1>8. h = [attempt |-> h.attempt, reader |-> h.reader]
  BY DEF Snapshot
<1>9. [attempt |-> h.attempt, reader |-> r] \in Latest <=> r = h.reader
  BY <1>8
<1>10. [attempt |-> a, reader |-> r] \in Latest' <=> a # h.attempt /\ [attempt |-> a, reader |-> r] \in Latest
  BY <1>8
<1> HIDE DEF n
<1>11. CASE p = 0
  BY <1>1, <1>4, <1>5, <1>6, <1>7, <1>9, <1>11
<1>12. CASE p \in 1..n
  BY <1>1, <1>2, <1>5, <1>6, <1>7, <1>9, <1>12
<1>13. CASE p = n + 1
  BY <1>1, <1>3, <1>5, <1>6, <1>7, <1>9, <1>13
<1>14. CASE p > n + 1
  BY <1>1, <1>5, <1>6, <1>7, <1>9, <1>10, <1>14
<1> QED
  BY <1>1, <1>11, <1>12, <1>13, <1>14

LEMMA SentHonest ==
    ASSUME Base, Honest, reader' = reader, NEW h \in Snapshot,
           \A p, q \in Nat : \A a \in AttemptIds, r \in Readers : q = Len(toServer) + 1 =>
              /\ Said(q, h.attempt, r) <=> r = h.reader
              /\ Said(p, a, r)' <=> \/ p < q /\ Said(p, a, r)
                                    \/ p = q /\ a = h.attempt /\ r = h.reader
                                    \/ p = q + 1 /\ a # h.attempt /\ Said(q, a, r)
    PROVE  /\ Honest'
           /\ \A a \in AttemptIds : reader[a] # "none" /\ Told(a) => Told(a)'
<1>1. PICK n \in Nat : n = Len(toServer) + 1
  BY WordPlaces
<1>2. h.attempt \in AttemptIds /\ h.reader \in Readers /\ "joined" \in Readers
  BY DEF Snapshot, Readers
<1>3. ASSUME NEW r \in Readers PROVE Said(n, h.attempt, r) <=> r = h.reader
  BY <1>1, <1>2
<1>4. \A p \in Nat : \A a \in AttemptIds, r \in Readers :
         Said(p, a, r)' <=> \/ p < n /\ Said(p, a, r)
                            \/ p = n /\ a = h.attempt /\ r = h.reader
                            \/ p = n + 1 /\ a # h.attempt /\ Said(n, a, r)
  BY <1>1
<1>5. \A p \in Nat : \A a, r : Said(p, a, r) => p <= n
  BY <1>1, WordPlaces
<1>6. Honest'
  BY <1>3, <1>4, <1>5, <1>2 DEF Honest
<1>7. ASSUME NEW a \in AttemptIds, Told(a), reader[a] # "none" PROVE Told(a)'
  <2>1. reader[a] \in Readers
    BY <1>7, BaseShape
  <2>2. PICK p \in Nat : Said(p, a, reader[a]) /\ \A q \in Nat, r \in Readers : Said(q, a, r) => q <= p
    BY <1>7 DEF Told
  <2>3. CASE p < n
    <3>1. a # h.attempt
      BY <1>3, <1>2, <2>2, <2>3
    <3>2. Said(p, a, reader[a])'
      BY <1>4, <2>1, <2>2, <2>3 
    <3>3. \A q \in Nat, r \in Readers : Said(q, a, r)' => q <= p
      BY <1>4, <2>2, <2>3, <3>1
    <3> QED
      BY <3>2, <3>3 DEF Told
  <2>4. CASE p = n /\ a = h.attempt
    <3>1. reader[a] = h.reader
      BY <1>3, <2>1, <2>2, <2>4
    <3>2. Said(p, a, reader[a])'
      BY <1>4, <2>1, <2>4, <3>1
    <3>3. \A q \in Nat, r \in Readers : Said(q, a, r)' => q <= p
      BY <1>4, <2>4
    <3> QED
      BY <3>2, <3>3 DEF Told
  <2>5. CASE p = n /\ a # h.attempt
    <3> DEFINE m == n + 1
    <3>1. m \in Nat /\ \A x : x = reader[a] => Said(m, a, x)'
      BY <1>4, <2>1, <2>2, <2>5
    <3>2. \A q \in Nat, r \in Readers : Said(q, a, r)' => q <= m
      BY <1>4
    <3> HIDE DEF m
    <3> QED
      BY <3>1, <3>2 DEF Told
  <2> QED
    BY <1>5, <2>2, <2>3, <2>4, <2>5
<1> QED
  BY <1>6, <1>7

\* The current writer is handed a snapshot: it replaces the one of the same attempt.
LEMMA UpdatedWords ==
    ASSUME Base, WireTypes', adm'[Own].attempts = adm[Own].attempts, toServer' = toServer,
           NEW s \in Snapshot,
           Latest' = {t \in Latest : t.attempt # s.attempt} \cup {s}
    PROVE  \A p, q \in Nat : \A a \in AttemptIds, r \in Readers : q = Len(toServer) + 1 =>
              (Said(p, a, r)' <=> \/ p < q /\ Said(p, a, r)
                                  \/ p = q /\ a = s.attempt /\ r = s.reader
                                  \/ p = q /\ a # s.attempt /\ Said(q, a, r))
<1>1. Len(toServer) \in Nat
  BY WordPlaces
<1>2. \A p : IsStart(p)' <=> IsStart(p)
  BY DEF IsStart
<1>3. \A a : Row(a)' = Row(a)
  BY DEF Row
<1>4. SUFFICES ASSUME NEW p \in Nat, NEW a \in AttemptIds, NEW r \in Readers, NEW q \in Nat,
                      q = Len(toServer) + 1
               PROVE  Said(p, a, r)' <=> \/ p < q /\ Said(p, a, r)
                                         \/ p = q /\ a = s.attempt /\ r = s.reader
                                         \/ p = q /\ a # s.attempt /\ Said(q, a, r)
  OBVIOUS
<1>5. s = [attempt |-> s.attempt, reader |-> s.reader]
  BY DEF Snapshot
<1>6. [attempt |-> a, reader |-> r] \in Latest' <=>
         \/ a = s.attempt /\ r = s.reader
         \/ a # s.attempt /\ [attempt |-> a, reader |-> r] \in Latest
  BY <1>5
<1>7. CASE p < q
  BY <1>1, <1>2, <1>3, <1>4, <1>7 DEF Said
<1>8. CASE p = q
  BY <1>1, <1>4, <1>6, <1>8, WordPlaces, WordPlacesPrime
<1>9. CASE p > q
  <2>1. Said(p, a, r)' => p <= Len(toServer) + 1
    BY WordPlacesPrime
  <2> QED
    BY <1>1, <1>4, <1>9, <2>1
<1> QED
  BY <1>4, <1>7, <1>8, <1>9

LEMMA UpdatedHonest ==
    ASSUME Base, Honest, NEW s \in Snapshot,
           \A a \in AttemptIds : a # s.attempt => reader'[a] = reader[a],
           reader'[s.attempt] = s.reader, reader[s.attempt] = "joined" => s.reader = "joined",
           \A p, q \in Nat : \A a \in AttemptIds, r \in Readers : q = Len(toServer) + 1 =>
              (Said(p, a, r)' <=> \/ p < q /\ Said(p, a, r)
                                  \/ p = q /\ a = s.attempt /\ r = s.reader
                                  \/ p = q /\ a # s.attempt /\ Said(q, a, r))
    PROVE  /\ Honest' /\ Told(s.attempt)'
           /\ \A a \in AttemptIds : a # s.attempt /\ reader[a] # "none" /\ Told(a) => Told(a)'
<1>1. PICK n \in Nat : n = Len(toServer) + 1
  BY WordPlaces
<1>2. s.attempt \in AttemptIds /\ s.reader \in Readers /\ "joined" \in Readers /\ "none" \notin Readers
  BY DEF Snapshot, Readers
<1>3. \A p \in Nat : \A a \in AttemptIds, r \in Readers :
         Said(p, a, r)' <=> \/ p < n /\ Said(p, a, r)
                            \/ p = n /\ a = s.attempt /\ r = s.reader
                            \/ p = n /\ a # s.attempt /\ Said(n, a, r)
  BY <1>1
<1>4. \A p \in Nat : \A a, r : Said(p, a, r) => p <= n
  BY <1>1, WordPlaces
<1>5. Honest'
  <2>1. \A p \in Nat, a \in AttemptIds, r \in Readers : Said(p, a, r)' =>
           reader'[a] # "none" /\ (r = "joined" => reader'[a] = "joined")
    BY <1>2, <1>3 DEF Honest
  <2>2. ASSUME NEW p \in Nat, NEW q \in Nat, NEW a \in AttemptIds, NEW r \in Readers,
               Said(p, a, "joined")', Said(q, a, r)', p <= q
        PROVE  r = "joined"
    <3>1. CASE a # s.attempt
      BY <1>2, <1>3, <2>2, <3>1 DEF Honest
    <3>2. CASE a = s.attempt
      <4>1. s.reader = "joined"
        BY <1>2, <1>3, <2>2, <3>2 DEF Honest
      <4>2. q < n => p < n /\ Said(p, a, "joined") /\ Said(q, a, r)
        BY <1>2, <1>3, <2>2, <3>2
      <4> QED
        BY <1>2, <1>3, <2>2, <3>2, <4>1, <4>2 DEF Honest
    <3> QED
      BY <3>1, <3>2
  <2> QED
    BY <2>1, <2>2 DEF Honest
<1>6. Told(s.attempt)'
  <2>1. \A x : x = reader'[s.attempt] => Said(n, s.attempt, x)'
    BY <1>2, <1>3
  <2>2. \A q \in Nat, r \in Readers : Said(q, s.attempt, r)' => q <= n
    BY <1>2, <1>3
  <2> QED
    BY <2>1, <2>2 DEF Told
<1>7. ASSUME NEW a \in AttemptIds, a # s.attempt, reader[a] # "none", Told(a) PROVE Told(a)'
  <2>1. reader[a] \in Readers /\ reader'[a] = reader[a]
    BY <1>7, BaseShape
  <2>2. PICK p \in Nat : Said(p, a, reader[a]) /\ \A q \in Nat, r \in Readers : Said(q, a, r) => q <= p
    BY <1>7 DEF Told
  <2>3. \A x : x = reader'[a] => Said(p, a, x)'
    BY <1>3, <1>4, <1>7, <2>1, <2>2
  <2>4. \A q \in Nat, r \in Readers : Said(q, a, r)' => q <= p
    BY <1>3, <1>7, <2>2
  <2> QED
    BY <2>3, <2>4 DEF Told
<1> QED
  BY <1>5, <1>6, <1>7

\* The line moves one place up, and the word that was next, f told as x if one
\* was (starts), is the row of f now.
Advanced(f, x, starts) ==
    \A p \in Nat : \A a \in AttemptIds, r \in Readers :
        /\ Said(1, a, r) => starts /\ a = f /\ r = x
        /\ starts => Said(1, f, x)
        /\ Said(p, a, r)' <=> \/ p = 0 /\ starts /\ a = f /\ r = x
                              \/ p = 0 /\ ~(starts /\ a = f) /\ Said(0, a, r)
                              \/ p # 0 /\ Said(p + 1, a, r)

\* The first frame is received: what it says of an attempt is the server's row of
\* it now, and the others are one place nearer.
LEMMA TakenWords ==
    ASSUME Base, WireTypes', Latest' = Latest, Shorter(toServer, toServer'),
           NEW f, NEW x, NEW starts \in BOOLEAN, starts => f \in AttemptIds /\ x \in Readers,
           starts <=> IsStart(1),
           starts => toServer[1].attempt = f /\ toServer[1].reader = x,
           \A a \in AttemptIds, r \in Readers :
              (Row(a)'.window # NoWindow /\ Row(a)'.reader = r) <=>
                 \/ starts /\ a = f /\ r = x
                 \/ ~(starts /\ a = f) /\ Said(0, a, r)
    PROVE  Advanced(f, x, starts)
<1> DEFINE n == Len(toServer)
<1>1. /\ n \in Nat /\ n > 0 /\ Len(toServer') = n - 1
      /\ \A i \in 1..(n - 1) : toServer'[i] = toServer[i + 1]
  BY WordPlaces DEF Shorter
<1>2. \A p \in 1..(n - 1) : IsStart(p)' <=> IsStart(p + 1)
  BY <1>1, WordPlaces, WordPlacesPrime DEF IsStart
<1>3. SUFFICES ASSUME NEW p \in Nat, NEW a \in AttemptIds, NEW r \in Readers
               PROVE  /\ Said(1, a, r) => starts /\ a = f /\ r = x
                      /\ starts => Said(1, f, x)
                      /\ Said(p, a, r)' <=> \/ p = 0 /\ starts /\ a = f /\ r = x
                                            \/ p = 0 /\ ~(starts /\ a = f) /\ Said(0, a, r)
                                            \/ p # 0 /\ Said(p + 1, a, r)
  BY DEF Advanced
<1>4. /\ p + 1 \in 1..n => (Said(p + 1, a, r) <=> /\ IsStart(p + 1) /\ toServer[p + 1].attempt = a
                                                 /\ toServer[p + 1].reader = r)
      /\ p = n => (Said(p + 1, a, r) <=> [attempt |-> a, reader |-> r] \in Latest)
      /\ Said(p + 1, a, r) => p <= n
  <2> DEFINE m == p + 1
  <2>1. m \in Nat
    OBVIOUS
  <2>2. /\ m \in 1..n => (Said(m, a, r) <=> IsStart(m) /\ toServer[m].attempt = a /\ toServer[m].reader = r)
        /\ m = n + 1 => (Said(m, a, r) <=> [attempt |-> a, reader |-> r] \in Latest)
        /\ Said(m, a, r) => m <= n + 1
    <3> HIDE DEF m
    <3> QED
      BY <2>1, WordPlaces
  <2> QED
    BY <1>1, <2>2
<1>5. /\ p = 0 => (Said(p, a, r)' <=> Row(a)'.window # NoWindow /\ Row(a)'.reader = r)
      /\ p \in 1..(n - 1) =>
            (Said(p, a, r)' <=> IsStart(p)' /\ toServer'[p].attempt = a /\ toServer'[p].reader = r)
      /\ p = n => (Said(p, a, r)' <=> [attempt |-> a, reader |-> r] \in Latest')
      /\ Said(p, a, r)' => p <= n
  BY <1>1, WordPlacesPrime
<1>6. /\ Said(1, a, r) => starts /\ a = f /\ r = x
      /\ starts => Said(1, f, x)
  <2>1. PICK one \in Nat : one = 1 /\ one \in 1..n
    BY <1>1
  <2>2. \A y, z : Said(one, y, z) <=> IsStart(one) /\ toServer[one].attempt = y /\ toServer[one].reader = z
    BY <2>1, WordPlaces
  <2> QED
    BY <2>1, <2>2
<1> HIDE DEF n
<1>7. CASE p = 0
  BY <1>5, <1>6, <1>7
<1>8. CASE p \in 1..(n - 1)
  BY <1>1, <1>2, <1>4, <1>5, <1>6, <1>8
<1>9. CASE p = n
  BY <1>1, <1>4, <1>5, <1>6, <1>9
<1>10. CASE p > n
  BY <1>1, <1>4, <1>5, <1>6, <1>10
<1> QED
  BY <1>1, <1>7, <1>8, <1>9, <1>10

LEMMA TakenHonest ==
    ASSUME Base, Honest, reader' = reader,
           NEW f, NEW x, NEW starts \in BOOLEAN, starts => f \in AttemptIds /\ x \in Readers,
           Advanced(f, x, starts)
    PROVE  /\ Honest'
           /\ \A a \in AttemptIds : reader[a] # "none" /\ Told(a) => Told(a)'
<1>0. \A p \in Nat : \A a \in AttemptIds, r \in Readers :
              /\ Said(1, a, r) => starts /\ a = f /\ r = x
              /\ starts => Said(1, f, x)
              /\ Said(p, a, r)' <=> \/ p = 0 /\ starts /\ a = f /\ r = x
                                    \/ p = 0 /\ ~(starts /\ a = f) /\ Said(0, a, r)
                                    \/ p # 0 /\ Said(p + 1, a, r)
  BY DEF Advanced
<1>1. "joined" \in Readers /\ "none" \notin Readers
  BY DEF Readers
<1>2. \A p \in Nat, a \in AttemptIds, r \in Readers : Said(p, a, r)' =>
         reader'[a] # "none" /\ (r = "joined" => reader'[a] = "joined")
  BY <1>0 DEF Honest
<1>3. ASSUME NEW p \in Nat, NEW q \in Nat, NEW a \in AttemptIds, NEW r \in Readers,
             Said(p, a, "joined")', Said(q, a, r)', p <= q
      PROVE  r = "joined"
  <2>1. CASE starts /\ a = f /\ p = 0
    <3>1. Said(1, a, "joined")
      BY <1>0, <1>1, <1>3, <2>1
    <3>2. CASE q = 0
      BY <1>0, <1>3, <2>1, <1>1, <3>2
    <3>3. CASE q # 0
      <4>1. Said(q + 1, a, r) /\ q + 1 \in Nat /\ 1 <= q + 1
        BY <1>0, <1>3, <3>3
      <4> QED
        BY <3>1, <4>1 DEF Honest
    <3> QED
      BY <3>2, <3>3
  <2>2. CASE ~(starts /\ a = f /\ p = 0)
    <3> DEFINE here == IF p = 0 THEN 0 ELSE p + 1
               there == IF q = 0 THEN 0 ELSE q + 1
    <3>1. Said(here, a, "joined") /\ Said(there, a, r)
      BY <1>0, <1>1, <1>3, <2>2
    <3>2. here \in Nat /\ there \in Nat /\ here <= there
      BY <1>3
    <3> HIDE DEF here, there
    <3> QED
      BY <3>1, <3>2 DEF Honest
  <2> QED
    BY <2>1, <2>2
<1>4. ASSUME NEW a \in AttemptIds, Told(a), reader[a] # "none" PROVE Told(a)'
  <2>1. reader[a] \in Readers
    BY <1>4, BaseShape
  <2>2. PICK p \in Nat : Said(p, a, reader[a]) /\ \A q \in Nat, r \in Readers : Said(q, a, r) => q <= p
    BY <1>4 DEF Told
  <2> DEFINE m == IF p = 0 THEN 0 ELSE p - 1
  <2>3. m \in Nat
    OBVIOUS
  <2>4. p = 0 => ~(starts /\ a = f)
    BY <1>0, <2>2
  <2>5. m = 0 \/ m + 1 = p
    OBVIOUS
  <2>6. \A z : z = reader[a] => Said(m, a, z)'
    <3>1. CASE p = 0
      BY <1>0, <2>1, <2>2, <2>4, <3>1
    <3>2. CASE p = 1
      BY <1>0, <2>1, <2>2, <3>2
    <3>3. CASE p > 1
      BY <1>0, <2>1, <2>2, <2>3, <3>3
    <3> QED
      BY <3>1, <3>2, <3>3
  <2>7. \A q \in Nat, r \in Readers : Said(q, a, r)' => q <= m
    <3> SUFFICES ASSUME NEW q \in Nat, NEW r \in Readers, Said(q, a, r)', q # 0
                 PROVE  q <= m
      BY <2>3
    <3>1. Said(q + 1, a, r) /\ q + 1 \in Nat
      BY <1>0
    <3> QED
      BY <3>1, <2>2
  <2> HIDE DEF m
  <2> QED
    BY <2>3, <2>6, <2>7 DEF Told
<1> QED
  BY <1>2, <1>3, <1>4 DEF Honest

\* The current writer has nothing to send any more.
LEMMA ForgottenHonest ==
    ASSUME Base, WireTypes', Honest, reader' = reader, toServer' = toServer,
           adm'[Own].attempts = adm[Own].attempts, Latest' = {}
    PROVE  /\ Honest'
           /\ \A p \in Nat : \A a, r : Said(p, a, r)' <=> p <= Len(toServer) /\ Said(p, a, r)
<1>1. Len(toServer) \in Nat
  BY WordPlaces
<1>2. ASSUME NEW p \in Nat, NEW a, NEW r
      PROVE  Said(p, a, r)' <=> p <= Len(toServer) /\ Said(p, a, r)
  <2>1. \A z : Row(z)' = Row(z)
    BY DEF Row
  <2>2. CASE p <= Len(toServer)
    BY <1>1, <2>1, <2>2 DEF Said, IsStart
  <2>3. CASE p = Len(toServer) + 1
    BY <1>1, <2>3, WordPlacesPrime
  <2>4. CASE p > Len(toServer) + 1
    <3>1. Said(p, a, r)' => p <= Len(toServer) + 1
      BY WordPlacesPrime
    <3> QED
      BY <1>1, <2>4, <3>1
  <2> QED
    BY <1>1, <2>2, <2>3, <2>4
<1>3. Honest'
  BY <1>2 DEF Honest
<1> QED
  BY <1>2, <1>3

--------------------------------------------------------------------------------
(***************************************************************************)
(* A session in order.                                                     *)
(***************************************************************************)
Clean == faults \cap {"late", "interrupted", "unregistered"} = {}

\* Nothing has gone wrong yet, and the two ends can hear each other.
Working == Clean /\ Connected(Own) /\ Live

\* A worker works in the window that is active, and its writer alone has words.
WorkInOrder ==
    /\ worker \notin {"cancelling", "cancelled"} /\ main # "settling"
    /\ main \in {"joining", "draining"} => worker # "failed"
    /\ WorkerLive => main = "loop" /\ Active = Window
    /\ \A k \in DOMAIN writers :
          /\ Issued(adm[Own], writers[k].window)
          /\ writers[k].task = "running" =>
                k = Current /\ (writers[k].latest # <<>> => Active = Window)

\* An observation on its way is the first the player hears of its window.
AskInOrder ==
    /\ \A i \in DOMAIN toPlayer : toPlayer[i].type = "observation" =>
          /\ toPlayer[i].window = Active
          /\ ~WorkerLive
          /\ \A j \in DOMAIN toPlayer : toPlayer[j].type = "observation" => j = i
          /\ \A p \in DOMAIN toServer : ~IsStart(p) /\ ~IsAction(p)
          /\ \A k \in DOMAIN writers : writers[k].window # Active
          /\ \A a \in AttemptIds : Row(a).window # Active
    /\ \A a \in AttemptIds : Row(a).window # NoWindow => Issued(adm[Own], Row(a).window)

\* What is on its way to the server belongs to the active window, and an action
\* is the last of it, behind the join of the attempt that it selects.
FramesInOrder ==
    /\ \A p \in DOMAIN toServer : IsStart(p) \/ IsAction(p) =>
          toServer[p].window = Active /\ (writers # <<>> => Window = Active)
    /\ \A p \in DOMAIN toServer : IsStart(p) =>
          Row(toServer[p].attempt).window \in {NoWindow, Active}
    /\ \A p \in DOMAIN toServer : IsAction(p) =>
          /\ p = Len(toServer) /\ ~WorkerLive
          /\ \A k \in DOMAIN writers : writers[k].task # "running"
          /\ toServer[p].selected # NoAttempt =>
                /\ Row(toServer[p].selected).window \in {NoWindow, Active}
                /\ \E q \in Nat : q <= Len(toServer) /\ Said(q, toServer[p].selected, "joined")

\* The attempts of the active window are the call's, and within its limit.
InBudget ==
    /\ writers # <<>> /\ Window = Active =>
          /\ \A p \in Nat, a \in AttemptIds, r \in Readers :
                p # 0 /\ Said(p, a, r) => a \in call.attempts
          /\ \A a \in AttemptIds : Row(a).window = Active => a \in call.attempts
          /\ \A a \in call.attempts : Row(a).window \in {NoWindow, Active}
    /\ Active # NoWindow =>
          \E S \in SUBSET AttemptIds :
             /\ IsFiniteSet(S) /\ Cardinality(S) <= MaxAttempts
             /\ \A a \in AttemptIds : Row(a).window = Active => a \in S
             /\ \A p \in DOMAIN toServer : IsStart(p) => toServer[p].attempt \in S

\* The reader of an attempt moves before its snapshot is written.
Busy(a) == a = call.attempt /\ call.step \in {"queued", "closing"}

\* The player has not given up, or has said Stopped before it did.
Intact == StopOnItsWay \/ (worker # "failed" /\ main \notin {"closing", "flushing", "done", "failed"})

\* Every attempt that the player began has been told of.
Complete == Intact => \A a \in AttemptIds : reader[a] # "none" => Told(a) \/ Busy(a)

Order == WorkInOrder /\ AskInOrder /\ FramesInOrder /\ Honest /\ InBudget /\ Complete

\* Everything known of a session that has not gone wrong.
Known == SessionBase /\ ReadersKnown /\ Greeting /\ Ending

--------------------------------------------------------------------------------
(***************************************************************************)
(* What a session in order cannot do.                                      *)
(***************************************************************************)
LEMMA LatestFacts ==
    ASSUME Base
    PROVE  /\ Latest \subseteq Snapshot
           /\ writers = <<>> => Latest = {}
           /\ writers # <<>> =>
                 /\ Current \in DOMAIN writers /\ Window \in Windows
                 /\ writers[Current].latest \in Seq(Snapshot) /\ IsDictionary(writers[Current].latest)
                 /\ Latest = Members(writers[Current].latest)
                 /\ Latest = {} <=> writers[Current].latest = <<>>
           /\ writers # <<>> /\ writers[Current].task = "done" => Latest = {}
<1>1. CASE writers = <<>>
  BY <1>1 DEF Latest
<1>2. CASE writers # <<>>
  <2>1. Current \in DOMAIN writers /\ writers[Current] \in Writer /\ Sound(writers[Current])
    BY <1>2, BaseShape
  <2>2. /\ writers[Current].latest \in Seq(Snapshot) /\ Window \in Windows
        /\ IsDictionary(writers[Current].latest)
        /\ writers[Current].task = "done" => writers[Current].latest = <<>>
    BY <2>1 DEF Writer, Window, Sound
  <2> DEFINE q == writers[Current].latest
  <2>3. Latest = Members(q)
    BY <1>2 DEF Latest
  <2>4. DOMAIN q = 1..Len(q) /\ Len(q) \in Nat /\ (\A i \in 1..Len(q) : q[i] \in Snapshot) /\ (q = <<>> <=> Len(q) = 0)
    BY <2>2, QueueFacts
  <2> HIDE DEF q
  <2>5. \A t : t \in Members(q) <=> \E i \in 1..Len(q) : t = q[i]
    BY <2>4 DEF Members
  <2>6. Members(q) \subseteq Snapshot
    BY <2>4, <2>5
  <2>7. q # <<>> => q[1] \in Members(q)
    BY <2>4, <2>5
  <2>8. q = <<>> => Members(q) = {}
    BY <2>4, <2>5
  <2> QED
    BY <1>2, <2>1, <2>2, <2>3, <2>6, <2>7, <2>8 DEF q
<1> QED
  BY <1>1, <1>2

LEMMA QuietLatest ==
    ASSUME Base, Quieter(writers, writers')
    PROVE  /\ Latest' = Latest /\ (writers' = <<>> <=> writers = <<>>)
           /\ DOMAIN writers' = DOMAIN writers /\ Current' = Current
           /\ writers # <<>> => Window' = Window /\ Current \in DOMAIN writers
           /\ \A k \in DOMAIN writers : /\ writers'[k].window = writers[k].window
                                        /\ writers'[k].latest = writers[k].latest
                                        /\ writers'[k].task = "running" => writers[k].task = "running"
<1>1. writers \in Seq(Writer) /\ Len(writers) \in Nat
  BY BaseShape
<1>2. /\ DOMAIN writers' = 1..Len(writers) /\ DOMAIN writers = 1..Len(writers)
      /\ Len(writers') = Len(writers) /\ (writers' = <<>> <=> writers = <<>>)
      /\ writers # <<>> => Len(writers) \in 1..Len(writers)
  BY <1>1, QuieterShape
<1>3. \A k \in 1..Len(writers) : /\ writers'[k].window = writers[k].window
                                 /\ writers'[k].latest = writers[k].latest
                                 /\ writers'[k].task = "running" => writers[k].task = "running"
  BY DEF Quieter
<1> QED
  BY <1>2, <1>3 DEF Latest, Window, Current

\* Admission is closed once the episode stops, and an active window is issued.
LEMMA ActiveFacts ==
    ASSUME SessionBase
    PROVE  /\ Active \in Windows \cup {NoWindow} /\ NoWindow \notin Windows
           /\ Active # NoWindow =>
                 /\ Active \in Windows /\ Issued(adm[Own], Active) /\ ~adm[Own].stopping
                 /\ ~stopMessage[Own] /\ InCall(Own) /\ Active = Round
                 /\ adm[Own].accepted[Round] = NoAction /\ pending[Own] # NoWindow
           /\ phase \in {"stopping", "aborting", "published"} => Active = NoWindow
<1>1. /\ CallOwnsWindow(Own) /\ StopInOrder(Own) /\ TypeOK /\ CallsWhileAsking
  BY OwnSeat DEF SessionBase, Inv, Typed, WindowInv, StopInv
<1>2. Active \in Windows \cup {NoWindow} /\ NoWindow \notin Windows
  BY <1>1, OwnSeat, AdmissionAssumption DEF TypeOK, AdmissionState, Active
<1>3. Active # NoWindow => phase \in {"asking", "cancelling"}
  BY <1>1, OwnSeat DEF CallOwnsWindow, CallsWhileAsking, InCall, Active
<1> QED
  BY <1>1, <1>2, <1>3 DEF CallOwnsWindow, StopInOrder, Active

\* A session that is in order was in order from its first connection.
LEMMA WorkingStays ==
    ASSUME Base, Typed, [SessionNext]_sessionVars, Working', ~Join
    PROVE  Working
<1>1. faults \subseteq faults' /\ SessionTypeOK
  BY FaultsStay, BaseShape
<1>2. (Connected(Own)' => Connected(Own)) /\ (Live' => Live)
  <2>1. CASE Main
    BY <2>1, MainQueues DEF vars, engineVars, linkVars, Connected, Live
  <2>2. CASE TaskStep
    BY <2>2, TaskSteps DEF vars, engineVars, linkVars, Connected, Live
  <2>3. CASE ServerStep
    BY <1>1, <2>3, ConnectionStays
  <2>4. CASE UNCHANGED sessionVars
    BY <2>4 DEF sessionVars, vars, engineVars, linkVars, Connected, Live
  <2> QED
    BY <2>1, <2>2, <2>3, <2>4 DEF SessionNext, TaskStep, ServerStep
<1> QED
  BY <1>1, <1>2 DEF Working, Clean

\* The receiving loop never finds a worker at work: no observation comes before
\* the answer to the last one, and no stop while a window is active.
LEMMA MainIdle ==
    ASSUME Known, Working, WorkInOrder, AskInOrder, Main, ~Join
    PROVE  ~WorkerLive
<1>1. /\ SessionBase /\ Base /\ Saying /\ Silent /\ Welcoming
      /\ Clean /\ Connected(Own) /\ Live
  BY DEF Known, SessionBase, Ending, Greeting, Working
<1>2. SUFFICES ASSUME WorkerLive PROVE FALSE
  OBVIOUS
<1>3. main = "loop" /\ worker # "none" /\ worker # "failed" /\ writers # <<>>
  <2>1. main = "loop" /\ worker # "none" /\ worker # "failed"
    BY <1>2 DEF WorkInOrder, WorkerLive
  <2> QED
    BY <1>1, <2>1 DEF Base, Tasks
<1>4. Active = Window /\ Window \in Windows
  BY <1>1, <1>2, <1>3, LatestFacts DEF WorkInOrder
<1>5. ~stopMessage[Own]
  BY <1>1, <1>4, ActiveFacts
<1>6. ~StopSaid
  BY <1>1, <1>2 DEF Silent
<1>7. ~stop /\ ~acked /\ Never("stop") /\ Never("evidence")
  BY <1>1, <1>5, <1>6 DEF Saying, StopSaid
<1>8. toPlayer # <<>> => 1 \in DOMAIN toPlayer /\ Head(toPlayer) = toPlayer[1]
  BY <1>1, QueueShapes
<1>9. ~Join /\ ~NeverJoins /\ ~PreviousJoined /\ ~OwnersStopped /\ ~SendStopped /\ ~DrainStuck
      /\ ~WorkerFailed /\ ~Flush /\ ~Exit
  BY <1>3 DEF NeverJoins, PreviousJoined, OwnersStopped, SendStopped, DrainStuck, WorkerFailed, Flush, Exit
<1>10. ~OnWelcome
  BY <1>1, <1>3, <1>8 DEF OnWelcome, Frame, Welcoming
<1>11. ~OnObservation
  BY <1>2, <1>8 DEF OnObservation, Frame, AskInOrder
<1>12. ~OnStop /\ ~OnEvidence
  BY <1>7, <1>8 DEF OnStop, OnEvidence, Frame, Never
<1>13. ~OnEnd
  <2>1. SUFFICES ASSUME OnEnd PROVE FALSE
    OBVIOUS
  <2>2. 1 \in DOMAIN toPlayer /\ toPlayer[1].type \in {"done", "close"}
    BY <1>8, <2>1 DEF OnEnd, Frame
  <2> QED
    BY <1>1, <1>7, <2>2 DEF Saying, Clean, Never
<1> QED
  BY <1>9, <1>10, <1>11, <1>12, <1>13 DEF Main

\* The kinds of step the receiving loop takes then.
Ends == {"closing", "flushing", "done", "failed"}

Takes == toPlayer' = toPlayer \/ (toPlayer # <<>> /\ toPlayer' = Tail(toPlayer))

\* It reads and stands elsewhere; writers may be told to end.
Stands ==
    /\ UNCHANGED <<worker, call, toServer>>
    /\ Quieter(writers, writers')
    /\ Takes
    /\ main' # "settling"
    /\ main \in Ends => main' \in Ends
    /\ main' \in {"joining", "draining"} => worker # "failed"

\* The process ends.
Leaves ==
    /\ main' \in {"done", "failed"} /\ worker' = "none" /\ call' = NoCall
    /\ writers' = <<>> /\ toPlayer' = <<>> /\ toServer' = toServer

\* It says Ready, or Stopped.
Speaks ==
    /\ UNCHANGED <<worker, call, writers>>
    /\ Takes
    /\ main \in {"loop", "draining"} /\ main' = "loop"
    /\ main = "loop" => worker # "failed"
    /\ toServer = <<>> \/ Active = NoWindow
    /\ \E x \in {Ready, Stopped} : Longer(toServer, toServer', x)

\* It starts a worker.
Begins ==
    /\ main = "loop" /\ worker \in {"none", "done"}
    /\ toPlayer # <<>> /\ Head(toPlayer).type = "observation"
    /\ StartWorker
    /\ toServer' = toServer

LEMMA MainKinds ==
    ASSUME Known, Working, WorkInOrder, AskInOrder, Main, ~Join
    PROVE  UNCHANGED <<vars, reader>> /\ (Stands \/ Leaves \/ Speaks \/ Begins)
<1>1. ~WorkerLive
  BY MainIdle
<1>2. /\ SessionBase /\ Base /\ Saying /\ Greeting /\ SessionTypeOK
      /\ link[Own] # "down" /\ phase # "failed"
  BY BaseShape DEF Known, SessionBase, Ending, Working, Connected, Live
<1>3. /\ main # "settling" /\ worker \notin {"cancelling", "cancelled"}
      /\ main \in {"joining", "draining"} => worker # "failed"
  BY DEF WorkInOrder
<1>4. UNCHANGED <<vars, reader>>
  <2>1. UNCHANGED vars
    BY <1>2, MainQueues
  <2>2. UNCHANGED reader
    BY DEF Main, NeverJoins, OnWelcome, OnObservation, PreviousJoined, OnStop, OwnersStopped,
       SendStopped, DrainStuck, OnEvidence, OnEnd, WorkerFailed, Flush, Exit, playerVars
  <2> QED
    BY <2>1, <2>2
<1>5. Quieter(writers, writers) /\ writers \in Seq(Writer)
  BY <1>2, BaseShape, QuieterSame
<1>6. toPlayer # <<>> => Head(toPlayer) = toPlayer[1] /\ 1 \in DOMAIN toPlayer
  BY <1>2, QueueShapes
<1>7. CancelWorker => UNCHANGED <<worker, call>>
  BY <1>1 DEF CancelWorker
<1>8. GiveUp => UNCHANGED <<worker, call, writers>> /\ main' = "closing"
  BY <1>7 DEF GiveUp
<1>9. CASE OnObservation
  <2>1. CASE GiveUp /\ Take
    BY <1>5, <1>8, <1>9, <2>1 DEF OnObservation, Stands, Takes, Take, Frame, Ends
  <2>2. CASE StartWorker
    <3>1. worker \in {"none", "done"} /\ main = "loop"
      BY <1>1, <1>2, <1>3, <1>9 DEF OnObservation, Frame, Base, PlayerTypes, WorkerStates, WorkerLive
    <3> QED
      BY <1>9, <2>2, <3>1 DEF OnObservation, Begins, Frame
  <2> QED
    BY <1>1, <1>9, <2>1, <2>2, <1>4 DEF OnObservation
<1>10. CASE OnWelcome
  <2>1. toServer = <<>>
    BY <1>2, <1>6, <1>10 DEF OnWelcome, Frame, Greeting, Welcoming
  <2>2. Longer(toServer, toServer', Ready)
    BY <1>2, <1>10, SendFacts, ServerFrames DEF OnWelcome
  <2> QED
    BY <1>4, <1>10, <2>1, <2>2 DEF OnWelcome, Frame, Speaks, Takes, Take, playerVars
<1>11. CASE SendStopped
  <2>1. stop
    BY <1>2, <1>11 DEF SendStopped, Base, Places
  <2>2. stopMessage[Own]
    BY <1>2, <2>1 DEF Saying
  <2>3. Active = NoWindow
    BY <1>2, <2>2, ActiveFacts
  <2>4. Longer(toServer, toServer', Stopped)
    BY <1>2, <1>11, SendFacts, ServerFrames DEF SendStopped
  <2> QED
    BY <1>4, <1>11, <2>3, <2>4 DEF SendStopped, Speaks, Takes
<1>12. CASE OnStop \/ OnEvidence \/ WorkerFailed \/ NeverJoins
  BY <1>3, <1>4, <1>5, <1>7, <1>8, <1>12 DEF OnStop, OnEvidence, WorkerFailed, NeverJoins, Stands, Takes, Take, Frame,
     Ends, wireVars
<1>13. CASE OnEnd \/ Exit
  BY <1>3, <1>4, <1>5, <1>8, <1>13 DEF OnEnd, Exit, Leave, Leaves, Stands, Takes, Take, Frame, Ends
<1>14. CASE OwnersStopped
  BY <1>3, <1>4, <1>5, <1>8, <1>14, <1>2, StoppedWriters DEF OwnersStopped, Stands, Takes, Ends, wireVars
<1>15. CASE DrainStuck
  <2>1. Quieter(writers, writers')
    <3>1. writers' \in [DOMAIN writers -> Writer] /\ \A i \in DOMAIN writers : writers'[i] = Abandoned(writers[i])
      <4>1. \A i \in DOMAIN writers : Abandoned(writers[i]) \in Writer
        BY <1>2, BaseShape, AbandonedFacts
      <4> QED
        BY <1>15, <4>1 DEF DrainStuck
    <3> QED
      BY <1>5, <3>1, MappedFacts
  <2> QED
    BY <1>4, <1>15, <2>1 DEF DrainStuck, Stands, Takes, Ends
<1>16. CASE Flush
  <2>1. Quieter(writers, writers')
    BY <1>5, <1>16, SealedFacts DEF Flush
  <2> QED
    BY <1>4, <1>16, <2>1 DEF Flush, Stands, Takes, Ends, wireVars
<1> QED
  BY <1>3, <1>9, <1>10, <1>11, <1>12, <1>13, <1>14, <1>15, <1>16 DEF Main, PreviousJoined

--------------------------------------------------------------------------------
(***************************************************************************)
(* Steps of the receiving loop.                                            *)
(***************************************************************************)
SameSeat ==
    /\ adm'[Own].attempts = adm[Own].attempts /\ adm'[Own].active = adm[Own].active
    /\ adm'[Own].windows = adm[Own].windows

LEMMA SameSeatFacts ==
    ASSUME SameSeat
    PROVE  /\ Active' = Active /\ \A a : Row(a)' = Row(a)
           /\ \A w : Issued(adm'[Own], w) <=> Issued(adm[Own], w)
BY DEF SameSeat, Active, Row, Issued

LEMMA FramesStay ==
    ASSUME FramesInOrder, SameSeat, toServer' = toServer,
           writers' # <<>> => writers # <<>> /\ Window' = Window,
           \A k \in DOMAIN writers' : writers'[k].task = "running" =>
              k \in DOMAIN writers /\ writers[k].task = "running",
           WorkerLive' => WorkerLive,
           \A q \in Nat : \A a : q <= Len(toServer) /\ Said(q, a, "joined") => Said(q, a, "joined")'
    PROVE  FramesInOrder'
<1>1. Active' = Active /\ (\A a : Row(a)' = Row(a)) /\ (\A p : IsStart(p)' <=> IsStart(p)) /\ (\A p : IsAction(p)' <=> IsAction(p))
  BY SameSeatFacts DEF IsStart, IsAction
<1>2. ASSUME NEW p \in DOMAIN toServer', IsAction(p)'
      PROVE  /\ p = Len(toServer') /\ ~WorkerLive'
             /\ \A k \in DOMAIN writers' : writers'[k].task # "running"
             /\ toServer'[p].selected # NoAttempt =>
                   /\ Row(toServer[p].selected)'.window \in {NoWindow, Active'}
                   /\ \E q \in Nat : q <= Len(toServer') /\ Said(q, toServer[p].selected, "joined")'
  <2>1. /\ p \in DOMAIN toServer /\ IsAction(p) /\ p = Len(toServer) /\ ~WorkerLive
        /\ \A k \in DOMAIN writers : writers[k].task # "running"
        /\ toServer[p].selected # NoAttempt =>
              /\ Row(toServer[p].selected).window \in {NoWindow, Active}
              /\ \E q \in Nat : q <= Len(toServer) /\ Said(q, toServer[p].selected, "joined")
    BY <1>1, <1>2 DEF FramesInOrder
  <2> QED
    BY <1>1, <2>1
<1>3. \A p \in DOMAIN toServer' : IsStart(p)' \/ IsAction(p)' =>
          toServer'[p].window = Active' /\ (writers' # <<>> => Window' = Active')
  BY <1>1 DEF FramesInOrder
<1>4. \A p \in DOMAIN toServer' : IsStart(p)' => Row(toServer[p].attempt)'.window \in {NoWindow, Active'}
  BY <1>1 DEF FramesInOrder
<1> QED
  BY <1>2, <1>3, <1>4 DEF FramesInOrder

LEMMA BudgetStays ==
    ASSUME InBudget, SameSeat, toServer' = toServer, call'.attempts = call.attempts,
           writers' # <<>> => writers # <<>> /\ Window' = Window,
           \A p \in Nat : \A a, r : Said(p, a, r)' => Said(p, a, r)
    PROVE  InBudget'
<1>1. Active' = Active /\ (\A a : Row(a)' = Row(a)) /\ (\A p : IsStart(p)' <=> IsStart(p))
  BY SameSeatFacts DEF IsStart
<1> QED
  BY <1>1 DEF InBudget

LEMMA CompleteStays ==
    ASSUME Complete, Intact' => Intact, reader' = reader,
           \A a \in AttemptIds : reader[a] # "none" /\ Told(a) => Told(a)',
           \A a \in AttemptIds : Busy(a) => Told(a)' \/ Busy(a)'
    PROVE  Complete'
BY DEF Complete

LEMMA AskStays ==
    ASSUME AskInOrder, SameSeat, NEW d \in {0, 1},
           \A i \in DOMAIN toPlayer' :
              i \in Nat /\ i + d \in DOMAIN toPlayer /\ toPlayer'[i] = toPlayer[i + d],
           \A p : (IsStart(p)' => IsStart(p)) /\ (IsAction(p)' => IsAction(p)),
           \A k \in DOMAIN writers' : k \in DOMAIN writers /\ writers'[k].window = writers[k].window,
           WorkerLive' => WorkerLive
    PROVE  AskInOrder'
<1>1. Active' = Active /\ (\A a : Row(a)' = Row(a)) /\ \A w : Issued(adm'[Own], w) <=> Issued(adm[Own], w)
  BY SameSeatFacts
<1>2. ASSUME NEW i \in DOMAIN toPlayer', toPlayer'[i].type = "observation"
      PROVE  /\ toPlayer'[i].window = Active' /\ ~WorkerLive'
             /\ \A j \in DOMAIN toPlayer' : toPlayer'[j].type = "observation" => j = i
             /\ \A p \in DOMAIN toServer' : ~IsStart(p)' /\ ~IsAction(p)'
             /\ \A k \in DOMAIN writers' : writers'[k].window # Active'
             /\ \A a \in AttemptIds : Row(a)'.window # Active'
  <2>1. i + d \in DOMAIN toPlayer /\ toPlayer'[i] = toPlayer[i + d]
    BY <1>2
  <2>2. /\ toPlayer'[i].window = Active /\ ~WorkerLive
        /\ \A j \in DOMAIN toPlayer : toPlayer[j].type = "observation" => j = i + d
        /\ \A p \in DOMAIN toServer : ~IsStart(p) /\ ~IsAction(p)
        /\ \A k \in DOMAIN writers : writers[k].window # Active
        /\ \A a \in AttemptIds : Row(a).window # Active
    BY <1>2, <2>1 DEF AskInOrder
  <2>3. \A p \in DOMAIN toServer' : ~IsStart(p)' /\ ~IsAction(p)'
    BY <2>2 DEF IsStart, IsAction
  <2>4. \A j \in DOMAIN toPlayer' : toPlayer'[j].type = "observation" => j = i
    <3> SUFFICES ASSUME NEW j \in DOMAIN toPlayer', toPlayer'[j].type = "observation"
                 PROVE  j = i
      OBVIOUS
    <3>1. j + d = i + d /\ j \in Nat /\ i \in Nat /\ d \in Nat
      BY <2>1, <2>2
    <3> QED
      BY <3>1
  <2> QED
    BY <1>1, <2>2, <2>3, <2>4
<1> QED
  BY <1>1, <1>2 DEF AskInOrder

LEMMA TakesFrames ==
    ASSUME Base, WireTypes', Takes
    PROVE  \E d \in {0, 1} : \A i \in DOMAIN toPlayer' :
              i \in Nat /\ i + d \in DOMAIN toPlayer /\ toPlayer'[i] = toPlayer[i + d]
<1>1. CASE toPlayer' = toPlayer
  <2>1. \A i \in DOMAIN toPlayer' :
           i \in Nat /\ i + 0 \in DOMAIN toPlayer /\ toPlayer'[i] = toPlayer[i + 0]
    BY <1>1, QueueShapes
  <2> QED
    BY <2>1
<1>2. CASE toPlayer # <<>> /\ toPlayer' = Tail(toPlayer)
  <2>1. \A i \in DOMAIN toPlayer' :
           i \in Nat /\ i + 1 \in DOMAIN toPlayer /\ toPlayer'[i] = toPlayer[i + 1]
    BY <1>2, TailFrames, QueueShapesPrime
  <2> QED
    BY <2>1
<1> QED
  BY <1>1, <1>2 DEF Takes

LEMMA OrderByStands ==
    ASSUME Known, Order, ~WorkerLive, WireTypes', UNCHANGED <<vars, reader>>, Stands
    PROVE  Order'
<1>1. /\ Base /\ WorkInOrder /\ AskInOrder /\ FramesInOrder /\ Honest /\ InBudget /\ Complete
      /\ UNCHANGED <<worker, call, toServer, reader>> /\ Quieter(writers, writers') /\ Takes
      /\ main' # "settling" /\ (main \in Ends => main' \in Ends)
      /\ main' \in {"joining", "draining"} => worker # "failed"
  BY DEF Known, SessionBase, Order, Stands
<1>2. SameSeat
  BY DEF SameSeat, vars
<1>3. /\ Latest' = Latest /\ (writers' = <<>> <=> writers = <<>>)
      /\ DOMAIN writers' = DOMAIN writers /\ Current' = Current
      /\ writers # <<>> => Window' = Window /\ Current \in DOMAIN writers
      /\ \A k \in DOMAIN writers : /\ writers'[k].window = writers[k].window
                                   /\ writers'[k].latest = writers[k].latest
                                   /\ writers'[k].task = "running" => writers[k].task = "running"
  BY <1>1, QuietLatest
<1>4. \A p, a, r : Said(p, a, r)' <=> Said(p, a, r)
  BY <1>1, <1>2, <1>3, SameWords DEF SameSeat
<1>5. Honest' /\ \A a \in AttemptIds : Told(a) => Told(a)'
  BY <1>1, <1>4, SameHonest
<1>6. ~WorkerLive'
  BY <1>1 DEF WorkerLive
<1>7. WorkInOrder'
  <2>1. Active' = Active /\ \A w : Issued(adm'[Own], w) <=> Issued(adm[Own], w)
    BY <1>2, SameSeatFacts
  <2>2. \A k \in DOMAIN writers : writers # <<>>
    BY <1>1, BaseShape
  <2> QED
    BY <1>1, <1>3, <1>6, <2>1, <2>2 DEF WorkInOrder
<1>8. AskInOrder'
  <2>1. PICK d \in {0, 1} : \A i \in DOMAIN toPlayer' :
              i \in Nat /\ i + d \in DOMAIN toPlayer /\ toPlayer'[i] = toPlayer[i + d]
    BY <1>1, TakesFrames
  <2>2. \A p : (IsStart(p)' => IsStart(p)) /\ (IsAction(p)' => IsAction(p))
    BY <1>1 DEF IsStart, IsAction
  <2> QED
    BY <1>1, <1>2, <1>3, <1>6, <2>1, <2>2, AskStays
<1>9. FramesInOrder'
  BY <1>1, <1>2, <1>3, <1>4, <1>6, FramesStay
<1>10. InBudget'
  BY <1>1, <1>2, <1>3, <1>4, BudgetStays
<1>11. Complete'
  <2>1. Intact' => Intact
    BY <1>1 DEF Intact, StopOnItsWay, Ends
  <2>2. \A a : Busy(a)' <=> Busy(a)
    BY <1>1 DEF Busy
  <2> QED
    BY <1>1, <1>5, <2>1, <2>2, CompleteStays
<1> QED
  BY <1>5, <1>7, <1>8, <1>9, <1>10, <1>11 DEF Order

LEMMA OrderByLeaves ==
    ASSUME Known, Order, WireTypes', UNCHANGED <<vars, reader>>, Leaves
    PROVE  Order'
<1>1. /\ Base /\ WorkInOrder /\ AskInOrder /\ FramesInOrder /\ Honest /\ InBudget /\ Complete /\ Silent
      /\ main' \in {"done", "failed"} /\ worker' = "none" /\ call' = NoCall
      /\ writers' = <<>> /\ toPlayer' = <<>> /\ toServer' = toServer /\ reader' = reader
  BY DEF Known, SessionBase, Order, Leaves, Ending
<1>2. SameSeat
  BY DEF SameSeat, vars
<1>3. Latest' = {} /\ DOMAIN writers' = {} /\ DOMAIN toPlayer' = {} /\ ~WorkerLive'
  BY <1>1 DEF Latest, WorkerLive
<1>4. Honest' /\ \A p \in Nat : \A a, r : Said(p, a, r)' <=> p <= Len(toServer) /\ Said(p, a, r)
  BY <1>1, <1>2, <1>3, ForgottenHonest DEF SameSeat
<1>5. WorkInOrder'
  BY <1>1, <1>3 DEF WorkInOrder
<1>6. AskInOrder'
  BY <1>1, <1>2, <1>3, SameSeatFacts DEF AskInOrder
<1>7. FramesInOrder'
  BY <1>1, <1>2, <1>3, <1>4, FramesStay
<1>8. InBudget'
  <2>1. Active' = Active /\ (\A a : Row(a)' = Row(a)) /\ (\A p : IsStart(p)' <=> IsStart(p))
    BY <1>1, <1>2, SameSeatFacts DEF IsStart
  <2> QED
    BY <1>1, <2>1 DEF InBudget
<1>9. Complete'
  <2>1. SUFFICES ASSUME Intact' PROVE Complete'
    BY DEF Complete
  <2>2. StopOnItsWay
    BY <1>1, <2>1 DEF Intact, StopOnItsWay
  <2>3. Intact /\ ~CallLive /\ (writers # <<>> => writers[Current].task = "done")
    BY <1>1, <2>2 DEF Intact, Silent, StopSaid
  <2>4. Latest' = Latest
    BY <1>1, <1>3, <2>3, LatestFacts
  <2>5. \A p, a, r : Said(p, a, r)' <=> Said(p, a, r)
    BY <1>1, <1>2, <2>4, SameWords DEF SameSeat
  <2>6. \A a \in AttemptIds : Told(a) => Told(a)'
    BY <1>1, <2>5, SameHonest
  <2>7. \A a : ~Busy(a)
    BY <2>3 DEF Busy, CallLive
  <2> QED
    BY <1>1, <2>3, <2>6, <2>7, CompleteStays
<1> QED
  BY <1>4, <1>5, <1>6, <1>7, <1>8, <1>9 DEF Order

\* No snapshot and no action is on its way in a window that is not active.
LEMMA NothingOnItsWay ==
    ASSUME Known, FramesInOrder, Active = NoWindow
    PROVE  \A p : ~IsStart(p) /\ ~IsAction(p)
<1>1. SessionBase /\ Base
  BY DEF Known, SessionBase
<1>2. \A p \in DOMAIN toServer : IsStart(p) \/ IsAction(p) => toServer[p].window \in Windows
  BY <1>1, QueueShapes, ServerFrames DEF IsStart, IsAction
<1>3. NoWindow \notin Windows
  BY <1>1, ActiveFacts
<1> QED
  BY <1>2, <1>3 DEF FramesInOrder, IsStart, IsAction

LEMMA OrderBySpeaks ==
    ASSUME Known, Order, ~WorkerLive, WireTypes', UNCHANGED <<vars, reader>>, Speaks
    PROVE  Order'
<1>1. /\ Base /\ WorkInOrder /\ AskInOrder /\ FramesInOrder /\ Honest /\ InBudget /\ Complete
      /\ UNCHANGED <<worker, call, writers, reader>> /\ Takes
      /\ main \in {"loop", "draining"} /\ main' = "loop"
      /\ main = "loop" => worker # "failed"
      /\ toServer = <<>> \/ Active = NoWindow
  BY DEF Known, SessionBase, Order, Speaks
<1>2. SameSeat
  BY DEF SameSeat, vars
<1>3. PICK x : x.type \notin {"attempt_started", "action"} /\ Longer(toServer, toServer', x)
  BY DEF Speaks, Ready, Stopped, Plain
<1>4. Latest' = Latest /\ Window' = Window
  BY <1>1 DEF Latest, Window, Current
<1>5. /\ Active' = Active /\ (\A a : Row(a)' = Row(a))
      /\ \A w : Issued(adm'[Own], w) <=> Issued(adm[Own], w)
  BY <1>2, SameSeatFacts
<1>6. \A p, q \in Nat : \A a, r : q = Len(toServer) + 1 =>
         (Said(p, a, r)' <=> (p < q /\ Said(p, a, r)) \/ (p = q + 1 /\ Said(q, a, r)))
  BY <1>1, <1>2, <1>3, <1>4, PushedWords DEF SameSeat
<1>7. Honest' /\ \A a \in AttemptIds : Told(a) => Told(a)'
  BY <1>1, <1>6, PushedHonest
<1>8. ~WorkerLive'
  BY <1>1 DEF WorkerLive
<1>9. \A p : ~IsStart(p) /\ ~IsAction(p)
  BY <1>1, NothingOnItsWay DEF IsStart, IsAction
<1>10. \A p : ~IsStart(p)' /\ ~IsAction(p)'
  <2>1. /\ Len(toServer) \in Nat /\ DOMAIN toServer = 1..Len(toServer)
        /\ DOMAIN toServer' = 1..(Len(toServer) + 1)
        /\ \A i \in 1..Len(toServer) : toServer'[i] = toServer[i]
        /\ toServer'[Len(toServer) + 1] = x
    BY <1>1, <1>3, WordPlaces, WordPlacesPrime DEF Longer
  <2> QED
    BY <1>3, <1>9, <2>1 DEF IsStart, IsAction
<1>11. WorkInOrder'
  BY <1>1, <1>4, <1>5, <1>8 DEF WorkInOrder, Current
<1>12. AskInOrder'
  <2>1. PICK d \in {0, 1} : \A i \in DOMAIN toPlayer' :
              i \in Nat /\ i + d \in DOMAIN toPlayer /\ toPlayer'[i] = toPlayer[i + d]
    BY <1>1, TakesFrames
  <2> QED
    BY <1>1, <1>2, <1>8, <1>10, <2>1, AskStays
<1>13. FramesInOrder'
  BY <1>10 DEF FramesInOrder
<1>14. InBudget'
  <2>1. PICK n \in Nat : n = Len(toServer) + 1
    BY <1>1, WordPlaces
  <2>2. \A p \in Nat : \A a, r : p # 0 /\ Said(p, a, r)' => \E q \in Nat : q # 0 /\ Said(q, a, r)
    BY <1>1, <1>6, <2>1, WordPlaces
  <2>3. writers' # <<>> /\ Window' = Active' =>
          /\ \A p \in Nat, a \in AttemptIds, r \in Readers :
                p # 0 /\ Said(p, a, r)' => a \in call'.attempts
          /\ \A a \in AttemptIds : Row(a)'.window = Active' => a \in call'.attempts
          /\ \A a \in call'.attempts : Row(a)'.window \in {NoWindow, Active'}
    BY <1>1, <1>4, <1>5, <2>2 DEF InBudget
  <2>4. Active' # NoWindow =>
          \E S \in SUBSET AttemptIds :
             /\ IsFiniteSet(S) /\ Cardinality(S) <= MaxAttempts
             /\ \A a \in AttemptIds : Row(a)'.window = Active' => a \in S
    BY <1>1, <1>5 DEF InBudget
  <2> QED
    BY <1>10, <2>3, <2>4 DEF InBudget
<1>15. Complete'
  <2>1. Intact
    <3>1. CASE main = "draining"
      BY <1>1, <3>1 DEF WorkInOrder, Intact
    <3>2. CASE main = "loop" /\ worker # "failed"
      BY <3>2 DEF Intact
    <3> QED
      BY <1>1, <3>1, <3>2
  <2>2. \A a : Busy(a)' <=> Busy(a)
    BY <1>1 DEF Busy
  <2> QED
    BY <1>1, <1>7, <2>1, <2>2, CompleteStays
<1> QED
  BY <1>7, <1>11, <1>12, <1>13, <1>14, <1>15 DEF Order

LEMMA OrderByBegins ==
    ASSUME Known, Order, WireTypes', UNCHANGED <<vars, reader>>, Begins
    PROVE  Order'
<1>1. /\ SessionBase /\ Base /\ WorkInOrder /\ AskInOrder /\ Honest /\ InBudget /\ Complete
      /\ reader' = reader /\ toServer' = toServer
      /\ main = "loop" /\ worker \in {"none", "done"}
      /\ toPlayer # <<>> /\ Head(toPlayer).type = "observation" /\ StartWorker
  BY DEF Known, SessionBase, Order, Begins
<1>2. SameSeat
  BY DEF SameSeat, vars
<1>3. /\ Active' = Active /\ (\A a : Row(a)' = Row(a))
      /\ \A w : Issued(adm'[Own], w) <=> Issued(adm[Own], w)
  BY <1>2, SameSeatFacts
<1> DEFINE n == Len(writers)
           w == toPlayer[1].window
<1>4. /\ w \in Windows
      /\ writers' \in Seq(Writer) /\ DOMAIN writers' = 1..(n + 1) /\ writers' # <<>>
      /\ \A k \in 1..n : writers'[k] = writers[k]
      /\ writers'[n + 1].window = w /\ writers'[n + 1].latest = <<>>
      /\ Current' = n + 1 /\ worker' = "calling" /\ main' = "loop"
      /\ call'.attempts = {} /\ call'.step = "thinking" /\ toPlayer' = Tail(toPlayer)
  BY <1>1, StartFacts DEF Longer, NoCall
<1>5. n \in Nat /\ DOMAIN writers = 1..n /\ Current = n /\ (writers = <<>> <=> n = 0)
  BY <1>1, BaseShape
<1>6. /\ 1 \in DOMAIN toPlayer /\ toPlayer[1].type = "observation"
      /\ \A i \in DOMAIN toPlayer' : i \in Nat /\ i # 0 /\ i + 1 \in DOMAIN toPlayer /\ toPlayer'[i] = toPlayer[i + 1]
  BY <1>1, <1>4, TailFrames, QueueShapes, QueueShapesPrime
<1>7. /\ w = Active
      /\ \A j \in DOMAIN toPlayer : toPlayer[j].type = "observation" => j = 1
      /\ \A p \in DOMAIN toServer : ~IsStart(p) /\ ~IsAction(p)
      /\ \A a \in AttemptIds : Row(a).window # Active
  BY <1>1, <1>6 DEF AskInOrder
<1>8. Latest = {} /\ ~CallLive /\ \A k \in 1..n : writers[k].task # "running"
  <2>1. ~CallLive /\ (writers # <<>> => writers[Current].task = "done")
    BY <1>1 DEF Base, Tasks
  <2>2. \A k \in 1..n : writers[k].task # "running"
    BY <1>1, <1>5, <2>1 DEF WorkInOrder
  <2> QED
    BY <1>1, <2>1, <2>2, LatestFacts
<1>9. Latest' = {}
  BY <1>4 DEF Latest, Members
<1>10. \A p, a, r : Said(p, a, r)' <=> Said(p, a, r)
  BY <1>1, <1>2, <1>8, <1>9, SameWords DEF SameSeat
<1>11. Honest' /\ \A a \in AttemptIds : Told(a) => Told(a)'
  BY <1>1, <1>10, SameHonest
<1>12. Window' = w
  BY <1>4 DEF Window
<1>13. WorkInOrder'
  <2>1. Issued(adm[Own], w)
    BY <1>1, <1>4, <1>7, ActiveFacts
  <2>2. \A k \in 1..n : Issued(adm[Own], writers[k].window)
    BY <1>1, <1>5 DEF WorkInOrder
  <2>3. \A k \in DOMAIN writers' :
          /\ Issued(adm'[Own], writers'[k].window)
          /\ writers'[k].task = "running" => k = Current' /\ writers'[k].latest = <<>>
    <3> HIDE DEF w
    <3> QED
      BY <1>3, <1>4, <1>5, <1>8, <2>1, <2>2
  <2> QED
    BY <1>3, <1>4, <1>7, <1>12, <2>3 DEF WorkInOrder
<1>14. AskInOrder'
  <2>1. \A i \in DOMAIN toPlayer' : toPlayer'[i].type # "observation"
    <3> SUFFICES ASSUME NEW i \in DOMAIN toPlayer', toPlayer'[i].type = "observation" PROVE FALSE
      OBVIOUS
    <3>1. i + 1 = 1 /\ i \in Nat /\ i # 0
      BY <1>6, <1>7
    <3> QED
      BY <3>1
  <2> QED
    BY <1>1, <1>3, <2>1 DEF AskInOrder
<1>15. \A p : ~IsStart(p) /\ ~IsAction(p) /\ ~IsStart(p)' /\ ~IsAction(p)'
  BY <1>1, <1>7 DEF IsStart, IsAction
<1>16. FramesInOrder'
  BY <1>15 DEF FramesInOrder
<1>17. InBudget'
  <2>1. \A p \in Nat : \A a, r : p # 0 => ~Said(p, a, r)'
    BY <1>8, <1>10, <1>15 DEF Said
  <2>2. \A a \in AttemptIds : Row(a)'.window # Active'
    BY <1>3, <1>7
  <2>3. Active' # NoWindow =>
          \E S \in SUBSET AttemptIds : IsFiniteSet(S) /\ Cardinality(S) <= MaxAttempts
    BY <1>1, <1>3 DEF InBudget
  <2> QED
    BY <1>4, <1>15, <2>1, <2>2, <2>3 DEF InBudget
<1>18. Complete'
  <2>1. Intact
    BY <1>1 DEF Intact
  <2>2. \A a : ~Busy(a)
    BY <1>8 DEF Busy, CallLive
  <2> QED
    BY <1>1, <1>11, <2>1, <2>2, CompleteStays
<1> QED
  BY <1>11, <1>13, <1>14, <1>16, <1>17, <1>18 DEF Order

LEMMA OrderByMain ==
    ASSUME Known, Working, Order, WireTypes', Main, ~Join
    PROVE  Order'
<1>1. WorkInOrder /\ AskInOrder
  BY DEF Order
<1>2. UNCHANGED <<vars, reader>> /\ (Stands \/ Leaves \/ Speaks \/ Begins) /\ ~WorkerLive
  BY <1>1, MainKinds, MainIdle
<1> QED
  BY <1>2, OrderByStands, OrderByLeaves, OrderBySpeaks, OrderByBegins

--------------------------------------------------------------------------------
(***************************************************************************)
(* Steps of the player's tasks.                                            *)
(***************************************************************************)

\* Whoever works, works in the active window, with nothing asked or answered.
LEMMA AtWork ==
    ASSUME Known, Order, writers # <<>>,
           WorkerLive \/ (writers[Current].task = "running" /\ Latest # {})
    PROVE  /\ Base /\ WorkInOrder /\ FramesInOrder /\ Honest /\ InBudget /\ Complete
           /\ Current \in DOMAIN writers
           /\ Active = Window /\ Active # NoWindow
           /\ \A i \in DOMAIN toPlayer : toPlayer[i].type # "observation"
           /\ \A p : ~IsAction(p)
           /\ ~StopOnItsWay
<1>1. /\ SessionBase /\ Base /\ Silent
      /\ WorkInOrder /\ AskInOrder /\ FramesInOrder /\ Honest /\ InBudget /\ Complete
  BY DEF Known, SessionBase, Order, Ending
<1>2. /\ Current \in DOMAIN writers /\ Window \in Windows
      /\ Latest # {} => writers[Current].latest # <<>>
  BY <1>1, LatestFacts
<1>3. Active = Window /\ Active # NoWindow
  BY <1>1, <1>2, ActiveFacts DEF WorkInOrder
<1>4. \A i \in DOMAIN toPlayer : toPlayer[i].type # "observation"
  BY <1>1, <1>2, <1>3 DEF AskInOrder, Window
<1>5. \A p : ~IsAction(p)
  BY <1>1, <1>2 DEF FramesInOrder, IsAction
<1>6. ~StopOnItsWay
  BY <1>1, <1>2 DEF Silent, StopSaid
<1> QED
  BY <1>1, <1>2, <1>3, <1>4, <1>5, <1>6

\* A step on the way: nothing is said, and no reader moves.
Eases ==
    /\ UNCHANGED <<main, toPlayer, toServer, reader>>
    /\ Quieter(writers, writers')
    /\ call'.attempts = call.attempts
    /\ WorkerLive /\ worker' \in {"calling", "expired", "finishing", "failed"}
    /\ \A a \in AttemptIds : Busy(a) => Busy(a)'

LEMMA OrderByEases ==
    ASSUME Known, Order, WireTypes', UNCHANGED vars, Eases
    PROVE  Order'
<1>1. /\ UNCHANGED <<main, toPlayer, toServer, reader>> /\ Quieter(writers, writers')
      /\ call'.attempts = call.attempts
      /\ WorkerLive /\ worker' \in {"calling", "expired", "finishing", "failed"}
      /\ \A a \in AttemptIds : Busy(a) => Busy(a)'
  BY DEF Eases
<1>2. /\ Base /\ writers # <<>>
  BY <1>1 DEF Known, SessionBase, Base, Tasks, WorkerLive
<1>3. /\ WorkInOrder /\ FramesInOrder /\ Honest /\ InBudget /\ Complete /\ AskInOrder
      /\ Current \in DOMAIN writers /\ Active = Window
      /\ \A i \in DOMAIN toPlayer : toPlayer[i].type # "observation"
  BY <1>1, <1>2, AtWork DEF Order
<1>4. SameSeat
  BY DEF SameSeat, vars
<1>5. /\ Latest' = Latest /\ (writers' = <<>> <=> writers = <<>>)
      /\ DOMAIN writers' = DOMAIN writers /\ Current' = Current
      /\ writers # <<>> => Window' = Window /\ Current \in DOMAIN writers
      /\ \A k \in DOMAIN writers : /\ writers'[k].window = writers[k].window
                                   /\ writers'[k].latest = writers[k].latest
                                   /\ writers'[k].task = "running" => writers[k].task = "running"
  BY <1>1, <1>2, QuietLatest
<1>6. \A p, a, r : Said(p, a, r)' <=> Said(p, a, r)
  BY <1>1, <1>4, <1>5, SameWords DEF SameSeat
<1>7. Honest' /\ \A a \in AttemptIds : Told(a) => Told(a)'
  BY <1>1, <1>3, <1>6, SameHonest
<1>8. /\ Active' = Active /\ (\A a : Row(a)' = Row(a))
      /\ \A w : Issued(adm'[Own], w) <=> Issued(adm[Own], w)
  BY <1>4, SameSeatFacts
<1>9. WorkInOrder'
  BY <1>1, <1>2, <1>3, <1>5, <1>8 DEF WorkInOrder
<1>10. AskInOrder'
  BY <1>1, <1>3, <1>8 DEF AskInOrder
<1>11. FramesInOrder'
  BY <1>1, <1>3, <1>4, <1>5, <1>6, FramesStay
<1>12. InBudget'
  BY <1>1, <1>3, <1>4, <1>5, <1>6, BudgetStays
<1>13. Complete'
  <2>1. Intact
    BY <1>1, <1>3 DEF Intact, WorkInOrder, WorkerLive
  <2> QED
    BY <1>1, <1>3, <1>7, <2>1, CompleteStays
<1> QED
  BY <1>7, <1>9, <1>10, <1>11, <1>12, <1>13 DEF Order

\* The call begins an attempt, of which nothing has been said.
Tries ==
    /\ UNCHANGED <<main, worker, writers, toPlayer, toServer>>
    /\ WorkerLive /\ call.step = "thinking" /\ call'.step = "queued"
    /\ \E a \in AttemptIds :
          /\ reader[a] = "none" /\ reader'[a] = "unknown"
          /\ \A b \in AttemptIds : b # a => reader'[b] = reader[b]
          /\ call'.attempts = call.attempts \cup {a} /\ call'.attempt = a

LEMMA OrderByTries ==
    ASSUME Known, Order, WireTypes', UNCHANGED vars, Tries
    PROVE  Order'
<1>1. /\ UNCHANGED <<main, worker, writers, toPlayer, toServer>>
      /\ WorkerLive /\ call.step = "thinking" /\ call'.step = "queued"
  BY DEF Tries
<1>2. PICK a \in AttemptIds :
          /\ reader[a] = "none" /\ reader'[a] = "unknown"
          /\ \A b \in AttemptIds : b # a => reader'[b] = reader[b]
          /\ call'.attempts = call.attempts \cup {a} /\ call'.attempt = a
  BY DEF Tries
<1>3. Base /\ TypeOK /\ writers # <<>>
  BY <1>1 DEF Known, SessionBase, Base, Tasks, WorkerLive
<1>4. /\ WorkInOrder /\ FramesInOrder /\ Honest /\ InBudget /\ Complete /\ AskInOrder
      /\ Active = Window
  BY <1>1, <1>3, AtWork DEF Order
<1>5. SameSeat
  BY DEF SameSeat, vars
<1>6. /\ Active' = Active /\ (\A b : Row(b)' = Row(b))
      /\ \A w : Issued(adm'[Own], w) <=> Issued(adm[Own], w)
  BY <1>5, SameSeatFacts
<1>7. Latest' = Latest /\ Window' = Window /\ Current' = Current /\ WorkerLive'
  BY <1>1 DEF Latest, Window, Current, WorkerLive
<1>8. \A p, b, r : Said(p, b, r)' <=> Said(p, b, r)
  BY <1>1, <1>5, <1>7, SameWords DEF SameSeat
<1>9. \A p \in Nat, r \in Readers : ~Said(p, a, r)
  BY <1>2, <1>4 DEF Honest
<1>10. Honest'
  <2>1. \A p \in Nat, b \in AttemptIds, r \in Readers : Said(p, b, r)' =>
          b # a /\ reader'[b] # "none" /\ (r = "joined" => reader'[b] = "joined")
    BY <1>2, <1>4, <1>8, <1>9 DEF Honest
  <2> QED
    BY <1>4, <1>8, <2>1 DEF Honest
<1>11. \A b \in AttemptIds : b # a /\ Told(b) => Told(b)'
  <2>1. SUFFICES ASSUME NEW b \in AttemptIds, b # a, Told(b)
                 PROVE  Told(b)'
    OBVIOUS
  <2>2. reader'[b] = reader[b]
    BY <1>2, <2>1
  <2> QED
    BY <1>8, <2>1, <2>2 DEF Told
<1>12. Row(a).window = NoWindow
  <2>1. Row(a).reader \in Readers
    BY <1>3, OwnSeat DEF TypeOK, AdmissionState, Row
  <2> QED
    BY <1>9, <2>1 DEF Said
<1>13. WorkInOrder'
  BY <1>1, <1>4, <1>6, <1>7 DEF WorkInOrder
<1>14. AskInOrder'
  <2>1. \A i \in DOMAIN toPlayer : toPlayer[i].type # "observation"
    BY <1>1, <1>3, AtWork
  <2> QED
    BY <1>1, <1>4, <1>6, <2>1 DEF AskInOrder
<1>15. FramesInOrder'
  BY <1>1, <1>4, <1>5, <1>7, <1>8, FramesStay
<1>16. InBudget'
  <2>1. /\ \A p \in Nat, b \in AttemptIds, r \in Readers :
              p # 0 /\ Said(p, b, r)' => b \in call'.attempts
        /\ \A b \in AttemptIds : Row(b)'.window = Active' => b \in call'.attempts
        /\ \A b \in call'.attempts : Row(b)'.window \in {NoWindow, Active'}
    BY <1>2, <1>3, <1>4, <1>6, <1>8, <1>12 DEF InBudget
  <2>2. \A p : IsStart(p)' <=> IsStart(p)
    BY <1>1 DEF IsStart
  <2> QED
    BY <1>1, <1>4, <1>6, <2>1, <2>2 DEF InBudget
<1>17. Complete'
  <2>1. Intact
    BY <1>1, <1>4 DEF Intact, WorkInOrder, WorkerLive
  <2>2. \A b : ~Busy(b)
    BY <1>1 DEF Busy
  <2>3. Busy(a)'
    BY <1>1, <1>2 DEF Busy
  <2>4. ASSUME NEW b \in AttemptIds, reader'[b] # "none", b # a
        PROVE  Told(b)'
    BY <1>2, <1>4, <1>11, <2>1, <2>2, <2>4 DEF Complete
  <2> QED
    BY <2>3, <2>4 DEF Complete
<1> QED
  BY <1>10, <1>13, <1>14, <1>15, <1>16, <1>17 DEF Order

\* The call hands a snapshot of its attempt to the writer.
Notes ==
    /\ UNCHANGED <<main, toPlayer, toServer>>
    /\ WorkerLive /\ worker' \in {worker, "failed"}
    /\ call'.attempts = call.attempts /\ call.attempt \in call.attempts
    /\ reader[call.attempt] # "joined"
    /\ \E r \in Readers : /\ Updated([attempt |-> call.attempt, reader |-> r])
                          /\ reader' = [reader EXCEPT ![call.attempt] = r]

LEMMA OrderByNotes ==
    ASSUME Known, Order, WireTypes', UNCHANGED vars, Notes
    PROVE  Order'
<1>0. PICK a : a = call.attempt
  OBVIOUS
<1>1. /\ UNCHANGED <<main, toPlayer, toServer>>
      /\ WorkerLive /\ worker' \in {worker, "failed"}
      /\ call'.attempts = call.attempts /\ a \in call.attempts /\ reader[a] # "joined"
  BY <1>0 DEF Notes
<1>2. PICK r \in Readers : /\ Updated([attempt |-> a, reader |-> r])
                           /\ reader' = [reader EXCEPT ![a] = r]
  BY <1>0 DEF Notes
<1>3. Base /\ SessionTypeOK /\ writers # <<>> /\ a \in AttemptIds /\ reader \in [AttemptIds -> Readers \cup {"none"}]
  <2>1. Base /\ writers # <<>>
    BY <1>1 DEF Known, SessionBase, Base, Tasks, WorkerLive
  <2> QED
    BY <1>1, <2>1, BaseShape
<1>4. /\ WorkInOrder /\ FramesInOrder /\ Honest /\ InBudget /\ Complete /\ AskInOrder
      /\ Active = Window /\ Current \in DOMAIN writers
      /\ \A i \in DOMAIN toPlayer : toPlayer[i].type # "observation"
      /\ \A p : ~IsAction(p)
  BY <1>1, <1>3, AtWork DEF Order
<1>5. SameSeat
  BY DEF SameSeat, vars
<1>6. /\ Active' = Active /\ (\A b : Row(b)' = Row(b))
      /\ \A w : Issued(adm'[Own], w) <=> Issued(adm[Own], w)
  BY <1>5, SameSeatFacts
<1>7. PICK s \in Snapshot : s.attempt = a /\ s.reader = r /\ Updated(s)
  <2>1. [attempt |-> a, reader |-> r] \in Snapshot
    BY <1>3 DEF Snapshot
  <2> QED
    BY <1>2, <2>1
<1>8. /\ DOMAIN writers' = DOMAIN writers /\ writers' # <<>> /\ Current' = Current
      /\ \A k \in DOMAIN writers : /\ writers'[k].window = writers[k].window
                                   /\ writers'[k].task = writers[k].task
                                   /\ k # Current => writers'[k] = writers[k]
      /\ Members(writers'[Current].latest) = {t \in Members(writers[Current].latest) : t.attempt # a} \cup {s}
  BY <1>3, <1>7, UpdatedShape, BaseShape DEF Updated
<1>9. Latest' = {t \in Latest : t.attempt # s.attempt} \cup {s}
  BY <1>3, <1>7, <1>8 DEF Latest
<1>10. Window' = Window
  BY <1>4, <1>8 DEF Window
<1>11. \A p, q \in Nat : \A b \in AttemptIds, x \in Readers : q = Len(toServer) + 1 =>
              (Said(p, b, x)' <=> \/ p < q /\ Said(p, b, x)
                                  \/ p = q /\ b = s.attempt /\ x = s.reader
                                  \/ p = q /\ b # s.attempt /\ Said(q, b, x))
  BY <1>1, <1>3, <1>5, <1>7, <1>9, UpdatedWords DEF SameSeat
<1>12. /\ Honest' /\ Told(a)'
       /\ \A b \in AttemptIds : b # a /\ reader[b] # "none" /\ Told(b) => Told(b)'
  <2>1. \A b \in AttemptIds : b # s.attempt => reader'[b] = reader[b]
    BY <1>2, <1>3, <1>7
  <2>2. reader'[s.attempt] = s.reader /\ reader[s.attempt] # "joined"
    BY <1>1, <1>2, <1>3, <1>7
  <2>3. /\ Honest' /\ Told(s.attempt)'
        /\ \A b \in AttemptIds : b # s.attempt /\ reader[b] # "none" /\ Told(b) => Told(b)'
    BY <1>3, <1>4, <1>7, <1>11, <2>1, <2>2, UpdatedHonest
  <2> QED
    BY <1>7, <2>3
<1>13. WorkInOrder'
  <2>1. WorkerLive /\ main = "loop"
    BY <1>1, <1>4 DEF WorkInOrder
  <2> QED
    BY <1>1, <1>4, <1>6, <1>8, <1>10, <2>1 DEF WorkInOrder, WorkerLive
<1>14. AskInOrder'
  BY <1>1, <1>4, <1>6 DEF AskInOrder
<1>15. \A p : (IsStart(p)' <=> IsStart(p)) /\ ~IsAction(p)'
  BY <1>1, <1>4 DEF IsStart, IsAction
<1>16. FramesInOrder'
  <2>1. \A p \in DOMAIN toServer' : IsStart(p)' =>
          toServer'[p].window = Active' /\ (writers' # <<>> => Window' = Active')
    BY <1>1, <1>4, <1>6, <1>10, <1>15 DEF FramesInOrder
  <2>2. \A p \in DOMAIN toServer' : IsStart(p)' => Row(toServer[p].attempt)'.window \in {NoWindow, Active'}
    BY <1>1, <1>4, <1>6, <1>15 DEF FramesInOrder
  <2> QED
    BY <1>1, <1>15, <2>1, <2>2 DEF FramesInOrder
<1>17. InBudget'
  <2>1. PICK n \in Nat : n = Len(toServer) + 1 /\ n # 0
    BY <1>3, WordPlaces
  <2>2. ASSUME NEW p \in Nat, NEW b \in AttemptIds, NEW x \in Readers, p # 0, Said(p, b, x)'
        PROVE  b = a \/ \E q \in Nat : q # 0 /\ Said(q, b, x)
    <3>1. Said(p, b, x) \/ b = s.attempt \/ Said(n, b, x)
      BY <1>11, <2>1, <2>2
    <3> QED
      BY <1>7, <2>1, <2>2, <3>1
  <2>3. /\ \A p \in Nat, b \in AttemptIds, x \in Readers :
              p # 0 /\ Said(p, b, x)' => b \in call'.attempts
        /\ \A b \in AttemptIds : Row(b)'.window = Active' => b \in call'.attempts
        /\ \A b \in call'.attempts : Row(b)'.window \in {NoWindow, Active'}
    <3>1. /\ \A p \in Nat, b \in AttemptIds, x \in Readers :
                 p # 0 /\ Said(p, b, x) => b \in call.attempts
          /\ \A b \in AttemptIds : Row(b).window = Active => b \in call.attempts
          /\ \A b \in call.attempts : Row(b).window \in {NoWindow, Active}
      BY <1>3, <1>4 DEF InBudget
    <3> QED
      BY <1>1, <1>6, <2>2, <3>1
  <2> QED
    BY <1>1, <1>4, <1>6, <1>15, <2>3 DEF InBudget
<1>18. Complete'
  <2>1. Intact
    BY <1>1, <1>4 DEF Intact, WorkInOrder, WorkerLive
  <2>2. ASSUME NEW b \in AttemptIds, reader'[b] # "none", b # a
        PROVE  Told(b)'
    <3>1. reader'[b] = reader[b]
      BY <1>2, <1>3, <2>2
    <3>2. Told(b)
      BY <1>0, <1>4, <2>1, <2>2, <3>1 DEF Complete, Busy
    <3> QED
      BY <1>12, <2>2, <3>1, <3>2
  <2> QED
    BY <1>12, <2>2 DEF Complete
<1> QED
  BY <1>12, <1>13, <1>14, <1>16, <1>17, <1>18 DEF Order

\* The answer is sent, behind everything that its attempts had to say.
LEMMA OrderBySubmit ==
    ASSUME Known, Working, Order, WireTypes', Submit
    PROVE  Order'
<1>1. /\ worker = "finishing" /\ worker' = "done" /\ Drained
      /\ \E fits \in BOOLEAN : Send(Action(Window, call.attempt, fits))
      /\ UNCHANGED <<vars, main, stop, acked, call, reader, writers, toPlayer>>
  BY DEF Submit, WorkerStep
<1>2. Base /\ SessionTypeOK /\ writers # <<>> /\ ~CallLive /\ WorkerLive
  BY <1>1, BaseShape DEF Known, SessionBase, Base, Tasks, WorkerLive
<1>3. /\ WorkInOrder /\ FramesInOrder /\ Honest /\ InBudget /\ Complete /\ AskInOrder
      /\ Active = Window /\ Active # NoWindow /\ Current \in DOMAIN writers
      /\ \A i \in DOMAIN toPlayer : toPlayer[i].type # "observation"
      /\ \A p : ~IsAction(p)
  BY <1>2, AtWork DEF Order
<1>4. SameSeat
  BY <1>1 DEF SameSeat, vars
<1>5. /\ Active' = Active /\ (\A b : Row(b)' = Row(b))
      /\ \A w : Issued(adm'[Own], w) <=> Issued(adm[Own], w)
  BY <1>4, SameSeatFacts
<1>6. /\ Window \in Windows /\ writers[Current].task = "done" /\ Latest = {}
      /\ \A k \in DOMAIN writers : writers[k].task # "running"
  BY <1>1, <1>2, <1>3, LatestFacts DEF Drained, WorkInOrder
<1>7. call.attempt \in AttemptIds \cup {NoAttempt}
  BY <1>2 DEF Base, PlayerTypes, CallState
<1>22. PICK fits \in BOOLEAN : Send(Action(Window, call.attempt, fits))
  BY <1>1
<1> DEFINE x == Action(Window, call.attempt, fits)
<1>8. Longer(toServer, toServer', x)
  <2>1. x \in ToServer
    BY <1>6, <1>7, ServerFrames
  <2>2. link[Own] # "down" /\ phase # "failed"
    BY DEF Working, Connected, Live
  <2> HIDE DEF x
  <2>3. Send(x)
    BY <1>22 DEF x
  <2> QED
    BY <1>2, <2>1, <2>2, <2>3, SendFacts
<1>9. x.type = "action" /\ x.window = Window /\ x.selected = call.attempt
  BY DEF Action
<1> HIDE DEF x
<1>10. Latest' = Latest /\ Window' = Window /\ Current' = Current /\ ~WorkerLive'
  BY <1>1 DEF Latest, Window, Current, WorkerLive
<1>11. \A p, q \in Nat : \A b, r : q = Len(toServer) + 1 =>
         (Said(p, b, r)' <=> (p < q /\ Said(p, b, r)) \/ (p = q + 1 /\ Said(q, b, r)))
  BY <1>2, <1>4, <1>8, <1>9, <1>10, PushedWords DEF SameSeat
<1>12. Honest' /\ \A b \in AttemptIds : Told(b) => Told(b)'
  BY <1>1, <1>2, <1>3, <1>11, PushedHonest
<1>13. PICK n \in Nat : n = Len(toServer) + 1
  BY <1>2, WordPlaces
<1>14. /\ DOMAIN toServer = 1..(n - 1) /\ DOMAIN toServer' = 1..n /\ Len(toServer') = n
       /\ \A i \in 1..(n - 1) : toServer'[i] = toServer[i]
       /\ toServer'[n] = x
  BY <1>2, <1>8, <1>13, WordPlaces, WordPlacesPrime DEF Longer
<1>15. \A p : (IsStart(p)' <=> IsStart(p)) /\ (IsAction(p)' <=> p = n)
  BY <1>3, <1>9, <1>13, <1>14 DEF IsStart, IsAction
<1>16. WorkInOrder'
  BY <1>1, <1>3, <1>5, <1>6, <1>10 DEF WorkInOrder
<1>17. AskInOrder'
  BY <1>1, <1>3, <1>5 DEF AskInOrder
<1>0. PICK a : a = call.attempt
  OBVIOUS
<1>18. a # NoAttempt =>
          /\ Row(a).window \in {NoWindow, Active}
          /\ \E q \in Nat : q <= n /\ Said(q, a, "joined")'
  <2>1. SUFFICES ASSUME a # NoAttempt
                 PROVE  /\ Row(a).window \in {NoWindow, Active}
                        /\ \E q \in Nat : q <= n /\ Said(q, a, "joined")'
    OBVIOUS
  <2>2. a \in call.attempts /\ reader[a] = "joined" /\ a \in AttemptIds
    BY <1>0, <1>1, <1>2, <1>7, <2>1 DEF Base, Books
  <2>3. Row(a).window \in {NoWindow, Active}
    BY <1>2, <1>3, <2>2 DEF InBudget
  <2>4. Told(a)
    BY <1>1, <1>2, <1>3, <2>2 DEF Complete, Intact, WorkInOrder, Busy, CallLive
  <2>5. PICK q \in Nat : Said(q, a, "joined")
    BY <2>2, <2>4 DEF Told
  <2>6. ~Said(n, a, "joined") /\ q <= n
    BY <1>2, <1>6, <1>13, <2>5, WordPlaces
  <2>7. q < n
    BY <2>5, <2>6, <1>13, <1>2
  <2>8. Said(q, a, "joined")'
    BY <1>11, <1>13, <2>5, <2>7
  <2> QED
    BY <2>3, <2>7, <2>8
<1>19. FramesInOrder'
  <2>1. \A p \in DOMAIN toServer' : IsStart(p)' \/ IsAction(p)' =>
          toServer'[p].window = Active' /\ (writers' # <<>> => Window' = Active')
    <3> SUFFICES ASSUME NEW p \in DOMAIN toServer', IsStart(p)' \/ IsAction(p)'
                 PROVE  toServer'[p].window = Active' /\ Window' = Active'
      OBVIOUS
    <3>1. CASE p = n
      BY <1>3, <1>5, <1>9, <1>10, <1>14, <3>1
    <3>2. CASE p # n
      <4>1. p \in DOMAIN toServer /\ IsStart(p) /\ toServer'[p] = toServer[p]
        BY <1>13, <1>14, <1>15, <3>2
      <4> QED
        BY <1>3, <1>5, <1>10, <4>1 DEF FramesInOrder
    <3> QED
      BY <3>1, <3>2
  <2>2. ASSUME NEW p \in DOMAIN toServer', IsStart(p)'
        PROVE  Row(toServer[p].attempt)'.window \in {NoWindow, Active'}
    <3>1. p \in DOMAIN toServer /\ IsStart(p)
      BY <1>15, <2>2 DEF IsStart
    <3>2. toServer'[p] = toServer[p]
      BY <1>13, <1>14, <3>1
    <3>3. Row(toServer[p].attempt).window \in {NoWindow, Active}
      BY <1>3, <3>1 DEF FramesInOrder
    <3> QED
      BY <1>4, <1>5, <3>2, <3>3 DEF Row, SameSeat
  <2>3. ASSUME NEW p \in DOMAIN toServer', IsAction(p)'
        PROVE  /\ p = Len(toServer') /\ ~WorkerLive'
               /\ \A k \in DOMAIN writers' : writers'[k].task # "running"
               /\ toServer'[p].selected # NoAttempt =>
                     /\ Row(toServer[p].selected)'.window \in {NoWindow, Active'}
                     /\ \E q \in Nat : q <= Len(toServer') /\ Said(q, toServer[p].selected, "joined")'
    <3>1. /\ p = Len(toServer') /\ toServer'[p].selected = a
          /\ ~WorkerLive'
          /\ \A k \in DOMAIN writers' : writers'[k].task # "running"
      BY <1>0, <1>1, <1>6, <1>9, <1>10, <1>14, <1>15, <2>3
    <3>2. a # NoAttempt => Row(toServer[p].selected)'.window \in {NoWindow, Active'}
      BY <1>4, <1>5, <1>18, <3>1 DEF Row, SameSeat
    <3>3. \A q : Said(q, a, "joined")' <=> Said(q, toServer[p].selected, "joined")'
      BY <3>1 DEF Said, Row, IsStart
    <3> QED
      BY <1>14, <1>18, <3>1, <3>2, <3>3
  <2> QED
    BY <2>1, <2>2, <2>3 DEF FramesInOrder
<1>20. InBudget'
  <2>1. \A p \in Nat : \A b, r : p # 0 /\ Said(p, b, r)' => \E q \in Nat : q # 0 /\ Said(q, b, r)
    BY <1>11, <1>13
  <2>2. /\ \A p \in Nat, b \in AttemptIds, r \in Readers :
              p # 0 /\ Said(p, b, r)' => b \in call'.attempts
        /\ \A b \in AttemptIds : Row(b)'.window = Active' => b \in call'.attempts
        /\ \A b \in call'.attempts : Row(b)'.window \in {NoWindow, Active'}
    <3>1. /\ \A p \in Nat, b \in AttemptIds, r \in Readers :
                 p # 0 /\ Said(p, b, r) => b \in call.attempts
          /\ \A b \in AttemptIds : Row(b).window = Active => b \in call.attempts
          /\ \A b \in call.attempts : Row(b).window \in {NoWindow, Active}
      BY <1>2, <1>3 DEF InBudget
    <3> QED
      BY <1>1, <1>5, <2>1, <3>1
  <2>3. PICK S \in SUBSET AttemptIds :
             /\ IsFiniteSet(S) /\ Cardinality(S) <= MaxAttempts
             /\ \A b \in AttemptIds : Row(b).window = Active => b \in S
             /\ \A p \in DOMAIN toServer : IsStart(p) => toServer[p].attempt \in S
    BY <1>3 DEF InBudget
  <2>4. \A p \in DOMAIN toServer' : IsStart(p)' => toServer'[p].attempt \in S
    <3> SUFFICES ASSUME NEW p \in DOMAIN toServer', IsStart(p)'
                 PROVE  toServer'[p].attempt \in S
      OBVIOUS
    <3>1. p \in DOMAIN toServer /\ IsStart(p)
      BY <1>15 DEF IsStart
    <3>2. toServer'[p] = toServer[p]
      BY <1>13, <1>14, <3>1
    <3> QED
      BY <2>3, <3>1, <3>2
  <2>5. \A b \in AttemptIds : Row(b)'.window = Active' => b \in S
    BY <1>5, <2>3
  <2> QED
    BY <2>2, <2>3, <2>4, <2>5 DEF InBudget
<1>21. Complete'
  <2>1. Intact
    BY <1>1, <1>2, <1>3 DEF Intact, WorkInOrder
  <2>2. \A b : ~Busy(b)
    BY <1>2 DEF Busy, CallLive
  <2> QED
    BY <1>1, <1>3, <1>12, <2>1, <2>2, CompleteStays
<1> QED
  BY <1>12, <1>16, <1>17, <1>19, <1>20, <1>21 DEF Order

\* A snapshot is sent: the word moves on, and stays in its place on the line.
LEMMA OrderBySend ==
    ASSUME Known, Working, Order, WireTypes', NEW i \in DOMAIN writers, WriterSend(i)
    PROVE  Order'
<1>1. /\ writers[i].task = "running" /\ writers[i].latest # <<>>
      /\ Send(Started(writers[i].window, Head(writers[i].latest)))
      /\ writers' = [writers EXCEPT ![i] = Shortened(@)]
      /\ UNCHANGED <<vars, main, stop, acked, worker, call, reader, toPlayer>>
  BY DEF WriterSend
<1>2. Base /\ SessionTypeOK /\ writers # <<>> /\ i = Current
  BY <1>1, BaseShape DEF Known, SessionBase, Order, WorkInOrder
<1>3. Latest = Members(writers[i].latest) /\ Latest # {}
  BY <1>1, <1>2, LatestFacts
<1>4. /\ WorkInOrder /\ FramesInOrder /\ Honest /\ InBudget /\ Complete /\ AskInOrder
      /\ Active = Window /\ Active # NoWindow
      /\ \A k \in DOMAIN toPlayer : toPlayer[k].type # "observation"
      /\ \A p : ~IsAction(p)
  BY <1>1, <1>2, <1>3, AtWork DEF Order
<1>5. SameSeat
  BY <1>1 DEF SameSeat, vars
<1>6. /\ Active' = Active /\ (\A b : Row(b)' = Row(b))
      /\ \A w : Issued(adm'[Own], w) <=> Issued(adm[Own], w)
  BY <1>5, SameSeatFacts
<1>7. /\ writers[i] \in Writer /\ writers[i].latest \in Seq(Snapshot) /\ IsDictionary(writers[i].latest)
      /\ Window = writers[i].window /\ Window \in Windows
  BY <1>2, LatestFacts, BaseShape DEF Window
<1>8. PICK h \in Snapshot :
         /\ h = Head(writers[i].latest) /\ h \in Latest
         /\ Members(Tail(writers[i].latest)) = Latest \ {h}
         /\ \A t \in Latest : t # h => t.attempt # h.attempt
  BY <1>1, <1>3, <1>7, RestOfDictionary
<1>9. /\ DOMAIN writers' = DOMAIN writers /\ writers' # <<>> /\ Current' = Current
      /\ \A k \in DOMAIN writers :
            /\ writers'[k].window = writers[k].window
            /\ writers'[k].task = "running" => writers[k].task = "running"
      /\ writers'[i].latest = Tail(writers[i].latest)
  <2>1. /\ Shortened(writers[i]).window = writers[i].window
        /\ Shortened(writers[i]).latest = Tail(writers[i].latest)
    BY <1>1, <1>7, ShortenedFacts
  <2>2. /\ DOMAIN writers' = DOMAIN writers /\ writers'[i] = Shortened(writers[i])
        /\ \A k \in DOMAIN writers : k # i => writers'[k] = writers[k]
    BY <1>1
  <2>3. writers \in Seq(Writer) /\ DOMAIN writers = 1..Len(writers) /\ Len(writers) \in Nat
    BY <1>2, BaseShape
  <2>4. Len(writers') = Len(writers) /\ writers' # <<>>
    BY <1>1, <1>7, <2>2, <2>3, ShortenedFacts
  <2> QED
    BY <1>1, <2>1, <2>2, <2>4 DEF Current
<1>10. Latest' = Latest \ {h} /\ Window' = Window
  BY <1>2, <1>7, <1>8, <1>9 DEF Latest, Window
<1>11. PICK x : x = Started(Window, h)
  OBVIOUS
<1>12. x.type = "attempt_started" /\ x.window = Window /\ x.attempt = h.attempt /\ x.reader = h.reader
  BY <1>11 DEF Started
<1>13. Longer(toServer, toServer', x)
  <2>1. x \in ToServer /\ Send(x)
    BY <1>1, <1>7, <1>8, <1>11, ServerFrames
  <2>2. link[Own] # "down" /\ phase # "failed"
    BY DEF Working, Connected, Live
  <2> QED
    BY <1>2, <2>1, <2>2, SendFacts
<1>14. h.attempt \in AttemptIds /\ h.reader \in Readers
  BY <1>8 DEF Snapshot
<1>15. \A p, q \in Nat : \A b \in AttemptIds, r \in Readers : q = Len(toServer) + 1 =>
              /\ Said(q, h.attempt, r) <=> r = h.reader
              /\ Said(p, b, r)' <=> \/ p < q /\ Said(p, b, r)
                                    \/ p = q /\ b = h.attempt /\ r = h.reader
                                    \/ p = q + 1 /\ b # h.attempt /\ Said(q, b, r)
  BY <1>2, <1>5, <1>8, <1>10, <1>12, <1>13, SentWords DEF SameSeat
<1>16. Honest' /\ \A b \in AttemptIds : reader[b] # "none" /\ Told(b) => Told(b)'
  BY <1>1, <1>2, <1>4, <1>8, <1>15, SentHonest
<1>17. PICK n \in Nat : n = Len(toServer) + 1 /\ n # 0
  BY <1>2, WordPlaces
<1>18. /\ DOMAIN toServer = 1..(n - 1) /\ DOMAIN toServer' = 1..n
       /\ \A k \in 1..(n - 1) : toServer'[k] = toServer[k]
       /\ toServer'[n] = x
  BY <1>2, <1>13, <1>17, WordPlaces, WordPlacesPrime DEF Longer
<1>19. \A p : (IsStart(p)' <=> IsStart(p) \/ p = n) /\ ~IsAction(p)'
  BY <1>4, <1>12, <1>17, <1>18 DEF IsStart, IsAction
<1>20. /\ \A p \in Nat, b \in AttemptIds, r \in Readers :
             p # 0 /\ Said(p, b, r) => b \in call.attempts
       /\ \A b \in AttemptIds : Row(b).window = Active => b \in call.attempts
       /\ \A b \in call.attempts : Row(b).window \in {NoWindow, Active}
       /\ call.attempts \in SUBSET AttemptIds
       /\ IsFiniteSet(call.attempts) /\ Cardinality(call.attempts) <= MaxAttempts
  BY <1>2, <1>4, BaseShape DEF InBudget, Base, Books
<1>21. h.attempt \in call.attempts
  BY <1>14, <1>15, <1>17, <1>20
<1>22. WorkInOrder'
  BY <1>1, <1>4, <1>6, <1>9, <1>10 DEF WorkInOrder, WorkerLive
<1>23. AskInOrder'
  BY <1>1, <1>4, <1>6 DEF AskInOrder
<1>24. FramesInOrder'
  <2>1. ASSUME NEW p \in DOMAIN toServer', IsStart(p)'
        PROVE  /\ toServer'[p].window = Active' /\ Window' = Active'
               /\ Row(toServer[p].attempt)'.window \in {NoWindow, Active'}
    <3>1. CASE p = n
      <4>1. Row(h.attempt).window \in {NoWindow, Active}
        BY <1>20, <1>21
      <4>2. Row(toServer[p].attempt)' = Row(h.attempt)
        BY <1>5, <1>12, <1>18, <3>1 DEF Row, SameSeat
      <4> QED
        BY <1>4, <1>6, <1>10, <1>12, <1>18, <3>1, <4>1, <4>2
    <3>2. CASE p # n
      <4>1. p \in DOMAIN toServer /\ IsStart(p)
        BY <1>19, <2>1, <3>2 DEF IsStart
      <4>2. toServer'[p] = toServer[p]
        BY <1>17, <1>18, <4>1
      <4>3. Row(toServer[p].attempt).window \in {NoWindow, Active} /\ toServer[p].window = Active
        BY <1>4, <4>1 DEF FramesInOrder
      <4> QED
        BY <1>4, <1>5, <1>6, <1>10, <4>2, <4>3 DEF Row, SameSeat
    <3> QED
      BY <3>1, <3>2
  <2> QED
    BY <1>19, <2>1 DEF FramesInOrder
<1>25. InBudget'
  <2>1. ASSUME NEW p \in Nat, NEW b \in AttemptIds, NEW r \in Readers, p # 0, Said(p, b, r)'
        PROVE  b \in call'.attempts
    <3>1. Said(p, b, r) \/ b = h.attempt \/ Said(n, b, r)
      BY <1>15, <1>17, <2>1
    <3> QED
      BY <1>1, <1>17, <1>20, <1>21, <2>1, <3>1
  <2>2. ASSUME NEW p \in DOMAIN toServer', IsStart(p)'
        PROVE  toServer'[p].attempt \in call'.attempts
    <3>1. CASE p = n
      BY <1>1, <1>12, <1>18, <1>21, <3>1
    <3>2. CASE p # n
      <4>1. p \in DOMAIN toServer /\ IsStart(p)
        BY <1>19, <2>2, <3>2 DEF IsStart
      <4>2. toServer'[p] = toServer[p] /\ p \in Nat /\ p # 0
        BY <1>17, <1>18, <4>1
      <4>3. toServer[p].attempt \in AttemptIds /\ toServer[p].reader \in Readers
        BY <1>2, <4>1, QueueShapes, ServerFrames DEF IsStart
      <4>4. Said(p, toServer[p].attempt, toServer[p].reader)
        BY <4>1 DEF Said
      <4> QED
        BY <1>1, <1>20, <4>2, <4>3, <4>4
    <3> QED
      BY <3>1, <3>2
  <2>3. /\ \A b \in AttemptIds : Row(b)'.window = Active' => b \in call'.attempts
        /\ \A b \in call'.attempts : Row(b)'.window \in {NoWindow, Active'}
        /\ call'.attempts \in SUBSET AttemptIds
        /\ IsFiniteSet(call'.attempts) /\ Cardinality(call'.attempts) <= MaxAttempts
    BY <1>1, <1>6, <1>20
  <2> QED
    BY <2>1, <2>2, <2>3 DEF InBudget
<1>26. Complete'
  <2>1. Intact' => Intact
    <3>1. StopOnItsWay' => StopOnItsWay
      BY <1>12, <1>17, <1>18 DEF StopOnItsWay, Stopped, Plain
    <3> QED
      BY <1>1, <3>1 DEF Intact
  <2>2. \A b : Busy(b)' <=> Busy(b)
    BY <1>1 DEF Busy
  <2> QED
    BY <1>1, <1>4, <1>16, <2>1, <2>2, CompleteStays
<1> QED
  BY <1>16, <1>22, <1>23, <1>24, <1>25, <1>26 DEF Order

LEMMA PolicyKinds ==
    ASSUME Known, Order, Clean', Policy
    PROVE  Eases \/ Tries \/ Notes
<1>1. Base /\ WorkInOrder
  BY DEF Known, SessionBase, Order
<1>2. CallLive
  BY DEF Policy, TryAttempt, Degrade, Request, Headers, ResponseEnds, Closed, CloseStuck, CloseInterrupted, CallLive
<1>3. WorkerLive /\ writers # <<>> /\ worker \in {"calling", "expired"}
  BY <1>1, <1>2 DEF Base, Tasks, WorkerLive, WorkInOrder
<1>4. /\ Quieter(writers, writers) /\ SessionTypeOK /\ call \in CallState
      /\ reader \in [AttemptIds -> Readers \cup {"none"}] /\ call.attempts \subseteq AttemptIds
  BY <1>1, BaseShape, QuieterSame
<1>5. call.step \in {"queued", "asked", "open", "closing"} =>
        /\ call.attempt \in call.attempts /\ call.attempt \in AttemptIds
        /\ reader[call.attempt] \in {"unknown", "open"}
        /\ call.step \in {"queued", "asked"} => reader[call.attempt] = "unknown"
  BY <1>1, <1>4 DEF Base, Books
<1>6. CASE TryAttempt
  <2>1. PICK a : a \in Fresh /\ reader' = [reader EXCEPT ![a] = "unknown"]
                 /\ call' = [call EXCEPT !.step = "queued", !.attempt = a,
                                         !.attempts = @ \cup {a}, !.good = FALSE]
    BY <1>6 DEF TryAttempt
  <2>2. a \in AttemptIds /\ reader[a] = "none"
    BY <2>1 DEF Fresh
  <2>3. call'.step = "queued" /\ call'.attempt = a /\ call'.attempts = call.attempts \cup {a}
    BY <1>4, <2>1 DEF CallState
  <2> QED
    BY <1>3, <1>4, <1>6, <2>1, <2>2, <2>3 DEF TryAttempt, Tries, CallOnly, wireVars
<1>7. CASE Degrade \/ ResponseEnds
  <2>1. call'.attempts = call.attempts /\ \A a : Busy(a) => Busy(a)'
    BY <1>4, <1>7 DEF Degrade, ResponseEnds, CallState, Busy
  <2> QED
    BY <1>3, <1>4, <1>7, <2>1 DEF Degrade, ResponseEnds, Eases, CallOnly, wireVars
<1>8. ASSUME NEW r \in Readers, Update(call.attempt, r), reader' = [reader EXCEPT ![call.attempt] = r],
             UNCHANGED <<main, toPlayer, toServer>>, worker' \in {worker, "failed"},
             call'.attempts = call.attempts, call.step \in {"queued", "asked", "open", "closing"}
      PROVE  Notes
  <2>1. Updated([attempt |-> call.attempt, reader |-> r])
    BY <1>3, <1>4, <1>5, <1>8, UpdateFacts
  <2> QED
    BY <1>3, <1>5, <1>8, <2>1 DEF Notes
<1>9. CASE Request
  <2>1. reader' = [reader EXCEPT ![call.attempt] = "unknown"]
    BY <1>4, <1>5, <1>9 DEF Request
  <2>2. call'.attempts = call.attempts
    BY <1>4, <1>9 DEF Request, CallStep, CallState
  <2> QED
    BY <1>8, <1>9, <2>1, <2>2 DEF Request, CallOnly, wireVars, Readers
<1>10. CASE Headers
  <2>1. call'.attempts = call.attempts
    BY <1>4, <1>10 DEF Headers, CallStep, CallState
  <2> QED
    BY <1>8, <1>10, <2>1 DEF Headers, CallOnly, wireVars, Readers
<1>11. CASE Closed
  <2>1. call'.attempts = call.attempts
    BY <1>4, <1>11 DEF Closed, CallState
  <2>2. Settled(reader[call.attempt]) \in Readers
    BY <1>5, <1>11 DEF Closed, Settled, Readers
  <2>3. reader' = [reader EXCEPT ![call.attempt] = Settled(reader[call.attempt])]
    BY <1>11 DEF Closed
  <2> QED
    BY <1>8, <1>11, <2>1, <2>2, <2>3 DEF Closed, CallOnly, wireVars
<1>12. CASE CloseStuck
  <2>1. call'.attempts = call.attempts
    BY <1>4, <1>12 DEF CloseStuck, CallStep, CallState
  <2>2. reader[call.attempt] \in Readers
    BY <1>5, <1>12 DEF CloseStuck, Readers
  <2>3. reader' = [reader EXCEPT ![call.attempt] = reader[call.attempt]]
    BY <1>4, <1>12 DEF CloseStuck
  <2> QED
    BY <1>8, <1>12, <2>1, <2>2, <2>3 DEF CloseStuck
<1>13. ~CloseInterrupted
  BY DEF CloseInterrupted, Fault, Clean
<1> QED
  BY <1>6, <1>7, <1>9, <1>10, <1>11, <1>12, <1>13 DEF Policy

LEMMA WorkerKinds ==
    ASSUME Known, Order, Worker
    PROVE  Eases \/ Submit
<1>1. Base /\ WorkInOrder
  BY DEF Known, SessionBase, Order
<1>2. /\ Quieter(writers, writers) /\ SessionTypeOK /\ call \in CallState /\ writers \in Seq(Writer)
  BY <1>1, BaseShape, QuieterSame
<1>3. ~WorkerCancelled
  BY <1>1 DEF WorkerCancelled, WorkInOrder
<1>4. CASE GotPayload
  <2>1. Quieter(writers, writers')
    BY <1>2, <1>4, SealedFacts DEF GotPayload
  <2>2. \A a : Busy(a) => Busy(a)'
    BY <1>4 DEF GotPayload, Busy
  <2> QED
    BY <1>4, <2>1, <2>2 DEF GotPayload, Eases, WorkerStep, WorkerLive, wireVars
<1>5. CASE Deadline
  <2>1. /\ call'.attempts = call.attempts /\ call'.attempt = call.attempt
        /\ call' # call => \/ call.step = "thinking"
                           \/ call'.step = "closing"
    BY <1>2, <1>5, AskCancelFacts DEF Deadline
  <2>2. \A a : Busy(a) => Busy(a)'
    BY <2>1 DEF Busy
  <2> QED
    BY <1>2, <1>5, <2>1, <2>2 DEF Deadline, Eases, WorkerStep, WorkerLive, wireVars
<1>6. CASE Fallback
  <2>1. Quieter(writers, writers')
    BY <1>2, <1>6, SealedFacts DEF Fallback
  <2>2. \A a : ~Busy(a)
    BY <1>6 DEF Fallback, Busy, CallLive
  <2>3. call'.attempts = call.attempts
    BY <1>2, <1>6 DEF Fallback, CallState
  <2> QED
    BY <1>6, <2>1, <2>2, <2>3 DEF Fallback, Eases, WorkerStep, WorkerLive, wireVars
<1>7. CASE FinishStuck
  <2>1. Quieter(writers, writers')
    <3>1. /\ writers' \in [DOMAIN writers -> Writer]
          /\ \A k \in DOMAIN writers : writers'[k] \in {writers[k], Abandoned(writers[k])}
      <4>1. \A k \in DOMAIN writers : writers[k] \in Writer /\ Abandoned(writers[k]) \in Writer
        BY <1>1, BaseShape, AbandonedFacts
      <4>2. writers' = [writers EXCEPT ![Current] = Abandoned(@)]
        BY <1>7 DEF FinishStuck
      <4>3. writers \in [DOMAIN writers -> Writer]
        BY <1>2, <4>1
      <4> QED
        BY <4>1, <4>2, <4>3
    <3> QED
      BY <1>2, <3>1, MappedFacts
  <2>2. \A a : Busy(a) => Busy(a)'
    BY <1>7 DEF FinishStuck, Busy
  <2> QED
    BY <1>7, <2>1, <2>2 DEF FinishStuck, Eases, WorkerStep, WorkerLive, wireVars
<1>8. CASE Unreadable
  <2>1. \A a : Busy(a) => Busy(a)'
    BY <1>8 DEF Unreadable, Busy
  <2> QED
    BY <1>2, <1>8, <2>1 DEF Unreadable, Eases, WorkerStep, WorkerLive
<1> QED
  BY <1>3, <1>4, <1>5, <1>6, <1>7, <1>8 DEF Worker

LEMMA OrderByTask ==
    ASSUME Known, Working, Order, WireTypes', Clean', TaskStep
    PROVE  Order'
<1>1. UNCHANGED vars
  BY TaskSteps DEF Known, SessionBase
<1>2. CASE Policy
  BY <1>1, <1>2, PolicyKinds, OrderByEases, OrderByTries, OrderByNotes
<1>3. CASE Worker
  BY <1>1, <1>3, WorkerKinds, OrderByEases, OrderBySubmit
<1> QED
  BY <1>2, <1>3, OrderBySend DEF TaskStep

--------------------------------------------------------------------------------
(***************************************************************************)
(* Steps of the server.                                                    *)
(***************************************************************************)

\* While nothing goes wrong the server moves a window, and asks, in Observe alone.
LEMMA OtherwiseQuiet ==
    ASSUME Known, Working, Otherwise, Clean', Live'
    PROVE  /\ SameSeat /\ toServer' = toServer /\ UNCHANGED playerVars
           /\ Grown({"stop", "evidence", "done", "close"})
<1>1. /\ SessionBase /\ Base /\ SessionTypeOK /\ Typed /\ Greeting /\ Clean /\ Connected(Own)
      /\ CallOwnsWindow(Own)
  BY BaseShape, OwnSeat DEF Known, SessionBase, Working, Inv, WindowInv
<1>2. toServer' = toServer /\ UNCHANGED playerVars
  BY <1>1, OtherwiseSeat DEF Live
<1>3. ~Unheard
  BY <1>1 DEF Unheard, Clean
<1>4. adm'[Own] = adm[Own] \/ (Active = NoWindow /\ adm'[Own] = CloseWindow(adm[Own], Round))
  <2>1. CASE TellEvidence \/ TellDone \/ Ended
    BY <2>1 DEF TellEvidence, TellDone, Ended, StopAcknowledged, Publish, sessionVars, vars
  <2>2. CASE Fail
    BY <2>2 DEF Fail, Withhold, Signal
  <2>3. CASE Welcomed
    BY <2>3 DEF Welcomed, Greet
  <2>4. CASE Answered(Own)
    <3>1. fut[Own] = "action" /\ InCall(Own)
      BY <1>1, <2>4, SeatWindowAssumption DEF Answered, Greeting, Futures, InCall
    <3>2. Active = NoWindow
      BY <1>1, <3>1 DEF CallOwnsWindow, Active
    <3>3. adm' = [adm EXCEPT ![Own] = CloseWindow(@, Round)]
      BY <2>4 DEF Answered, Return
    <3>4. adm'[Own] = CloseWindow(adm[Own], Round)
      BY <1>1, <3>3, OwnSeat DEF SessionTypeOK, TypeOK
    <3> QED
      BY <3>2, <3>4
  <2>5. CASE Quiet /\ ~Answered(Own)
    BY <2>5 DEF Quiet, Sent, Expire, StopSent, EvidenceSent, StopOverdue, Engine, BeginHole, RetryBatch,
       Install, HoleScored, SandboxFault, EngineRaises, EndRun, CallsCancelled
  <2> QED
    BY <1>3, <2>1, <2>2, <2>3, <2>4, <2>5 DEF Otherwise
<1>5. SameSeat
  <2>1. CASE adm'[Own] = adm[Own]
    BY <2>1 DEF SameSeat
  <2>2. CASE Active = NoWindow /\ adm'[Own] = CloseWindow(adm[Own], Round)
    <3>1. PICK c \in AdmissionState : c = adm[Own]
      BY <1>1, OwnSeat DEF SessionTypeOK, TypeOK
    <3>2. /\ CloseWindow(c, Round).attempts = c.attempts /\ CloseWindow(c, Round).windows = c.windows
          /\ c.active = NoWindow => CloseWindow(c, Round).active = NoWindow
      BY <3>1 DEF CloseWindow, AdmissionState
    <3> QED
      BY <2>2, <3>1, <3>2 DEF SameSeat, Active
  <2> QED
    BY <1>4, <2>1, <2>2
<1> DEFINE types == {"stop", "evidence", "done", "close"}
<1>6. Grown(types)
  <2>1. CASE TellEvidence \/ TellDone \/ Ended \/ Fail \/ Quiet
    BY <1>1, <2>1, ServerGrows DEF Grown
  <2>2. CASE Welcomed
    <3>1. link[Own] = "greeting" /\ ~registered[Own]
      BY <1>1, <2>2 DEF Welcomed, Greet, Greeting, Linked
    <3>2. ~Begun
      BY <1>1, <3>1 DEF Greeting, Registering, Clean
    <3>3. pending[Own] \notin Windows
      BY <1>1, <3>2, AdmissionAssumption DEF Begun, IssuedAny, CallOwnsWindow
    <3>4. toPlayer' \in Seq(ToPlayer) /\ OneMore(Plain("stop"))
      BY <1>1, <2>2, <3>3, ServerTells DEF OneMore
    <3>5. Plain("stop").type \in types
      BY DEF Plain
    <3> HIDE DEF types
    <3> QED
      BY <1>1, <3>4, <3>5, GrownOne
  <2> QED
    BY <1>3, <2>1, <2>2 DEF Otherwise
<1> QED
  BY <1>2, <1>5, <1>6

LEMMA OrderByTelling ==
    ASSUME Known, Order, WireTypes', SameSeat, toServer' = toServer, UNCHANGED playerVars,
           Grown({"stop", "evidence", "done", "close"})
    PROVE  Order'
<1>1. /\ Base /\ WorkInOrder /\ AskInOrder /\ FramesInOrder /\ Honest /\ InBudget /\ Complete
      /\ UNCHANGED <<main, worker, call, reader, writers>>
  BY DEF Known, SessionBase, Order, playerVars
<1>2. /\ Active' = Active /\ (\A b : Row(b)' = Row(b))
      /\ \A w : Issued(adm'[Own], w) <=> Issued(adm[Own], w)
  BY SameSeatFacts
<1>3. Latest' = Latest /\ Window' = Window /\ Current' = Current /\ (WorkerLive' <=> WorkerLive)
  BY <1>1 DEF Latest, Window, Current, WorkerLive
<1>4. \A p, b, r : Said(p, b, r)' <=> Said(p, b, r)
  BY <1>1, <1>3, SameWords DEF SameSeat
<1>5. Honest' /\ \A b \in AttemptIds : Told(b) => Told(b)'
  BY <1>1, <1>4, SameHonest
<1>6. \A p : (IsStart(p)' <=> IsStart(p)) /\ (IsAction(p)' <=> IsAction(p))
  BY DEF IsStart, IsAction
<1>7. \A i \in DOMAIN toPlayer' : toPlayer'[i].type = "observation" =>
         i \in DOMAIN toPlayer /\ toPlayer'[i] = toPlayer[i]
  BY <1>1, GrownFrames
<1>8. WorkInOrder'
  BY <1>1, <1>2, <1>3 DEF WorkInOrder
<1>9. AskInOrder'
  BY <1>1, <1>2, <1>3, <1>6, <1>7 DEF AskInOrder
<1>10. FramesInOrder'
  BY <1>1, <1>3, <1>4, FramesStay
<1>11. InBudget'
  BY <1>1, <1>3, <1>4, BudgetStays
<1>12. Complete'
  <2>1. (Intact' <=> Intact) /\ \A b : Busy(b)' <=> Busy(b)
    BY <1>1 DEF Intact, StopOnItsWay, Busy
  <2> QED
    BY <1>1, <1>5, <2>1, CompleteStays
<1> QED
  BY <1>5, <1>8, <1>9, <1>10, <1>11, <1>12 DEF Order

\* A window is issued: nothing has been said of it.
LEMMA OrderByObserve ==
    ASSUME Known, Working, Order, WireTypes', Observe
    PROVE  Order'
<1>1. /\ SessionBase /\ Base /\ SessionTypeOK /\ Typed
      /\ WorkInOrder /\ AskInOrder /\ FramesInOrder /\ Honest /\ InBudget /\ Complete
  BY BaseShape DEF Known, SessionBase, Inv, Order
<1>2. /\ UNCHANGED <<main, worker, call, reader, writers, toServer>> /\ Round \in Windows
      /\ MayIssue(adm[Own], Round)
      /\ \E profile \in Profiles : adm'[Own] = Issue(adm[Own], Round, profile)
  BY <1>1, ObserveSeat DEF playerVars
<1>3. PICK o \in Windows : o = Round
  BY <1>2
<1>4. /\ adm'[Own].attempts = adm[Own].attempts /\ adm'[Own].active = o /\ Active = NoWindow
      /\ ~Issued(adm[Own], o) /\ Issued(adm'[Own], o)
      /\ \A w \in Windows : Issued(adm[Own], w) => Issued(adm'[Own], w)
  <2>1. adm[Own] \in AdmissionState
    BY <1>1, OwnSeat DEF SessionTypeOK, TypeOK
  <2>2. PICK profile \in Profiles : adm'[Own] = [adm[Own] EXCEPT !.windows[o] = profile, !.active = o]
    BY <1>2, <1>3 DEF Issue
  <2> QED
    BY <1>2, <1>3, <2>1, <2>2 DEF AdmissionState, Issued, MayIssue, Active, Profiles
<1>5. Active' = o /\ (\A b : Row(b)' = Row(b))
  BY <1>4 DEF Active, Row
<1>6. /\ Latest' = Latest /\ Window' = Window /\ Current' = Current /\ (WorkerLive' <=> WorkerLive)
      /\ writers # <<>> => Window \in Windows /\ Current \in DOMAIN writers
  BY <1>1, <1>2, LatestFacts DEF Latest, Window, Current, WorkerLive
<1>7. \A p, b, r : Said(p, b, r)' <=> Said(p, b, r)
  BY <1>2, <1>4, <1>6, SameWords
<1>8. Honest' /\ \A b \in AttemptIds : Told(b) => Told(b)'
  BY <1>1, <1>2, <1>7, SameHonest
<1>9. \A p : ~IsStart(p) /\ ~IsAction(p)
  BY <1>1, <1>4, NothingOnItsWay
<1>10. \A p : ~IsStart(p)' /\ ~IsAction(p)'
  BY <1>2, <1>9 DEF IsStart, IsAction
<1>11. ~WorkerLive /\ NoWindow \notin Windows
       /\ \A k \in DOMAIN writers : writers[k].window \in Windows /\ Issued(adm[Own], writers[k].window)
  <2>1. NoWindow \notin Windows
    BY AdmissionAssumption
  <2>2. WorkerLive => writers # <<>>
    BY <1>1 DEF Base, Tasks, WorkerLive
  <2>3. \A k \in DOMAIN writers : writers[k].window \in Windows
    BY <1>1, BaseShape DEF Writer
  <2> QED
    BY <1>1, <1>4, <1>6, <2>1, <2>2, <2>3 DEF WorkInOrder
<1>12. WorkInOrder'
  <2>1. \A k \in DOMAIN writers : writers[k].task = "running" => k = Current /\ writers[k].latest = <<>>
    <3>1. SUFFICES ASSUME NEW k \in DOMAIN writers, writers[k].task = "running"
                   PROVE  k = Current /\ writers[k].latest = <<>>
      OBVIOUS
    <3>2. k = Current /\ (writers[k].latest # <<>> => Active = Window) /\ Window = writers[k].window
      BY <1>1, <3>1 DEF WorkInOrder, Window
    <3> QED
      BY <1>4, <1>11, <3>1, <3>2
  <2> QED
    BY <1>1, <1>2, <1>4, <1>6, <1>11, <2>1 DEF WorkInOrder
<1>13. \A a \in AttemptIds : Row(a).window \in Windows \cup {NoWindow} /\ Row(a).window # o
  <2>1. \A a \in AttemptIds : Row(a).window \in Windows \cup {NoWindow}
    BY <1>1, OwnSeat DEF SessionTypeOK, TypeOK, AdmissionState, Row
  <2> QED
    BY <1>1, <1>4, <1>11, <2>1 DEF AskInOrder
<1>14. AskInOrder'
  <2>1. \A i \in DOMAIN toPlayer : toPlayer[i].type # "observation"
    <3>1. \A i \in DOMAIN toPlayer : toPlayer[i].type = "observation" => toPlayer[i].window \in Windows
      BY <1>1, QueueShapes, PlayerFrames
    <3> QED
      BY <1>1, <1>4, <1>11, <3>1 DEF AskInOrder
  <2>2. \A i \in DOMAIN toPlayer' : toPlayer'[i].type = "observation" =>
           i = Len(toPlayer) + 1 /\ toPlayer'[i].window = o
    <3>1. CASE toPlayer' = toPlayer
      BY <2>1, <3>1
    <3>2. CASE Longer(toPlayer, toPlayer', Observed(o))
      <4>1. Observed(o).window = o
        BY DEF Observed
      <4> QED
        BY <1>1, <2>1, <3>2, <4>1, QueueShapes, QueueShapesPrime DEF Longer
    <3> QED
      BY <1>1, <1>3, <3>1, <3>2, ServerTells
  <2>3. \A a \in AttemptIds : Row(a)'.window # NoWindow => Issued(adm'[Own], Row(a)'.window)
    BY <1>1, <1>4, <1>5, <1>13 DEF AskInOrder
  <2>4. \A k \in DOMAIN writers' : writers'[k].window # Active'
    BY <1>2, <1>4, <1>5, <1>11
  <2> QED
    BY <1>5, <1>6, <1>10, <1>11, <1>13, <2>2, <2>3, <2>4 DEF AskInOrder
<1>15. FramesInOrder'
  BY <1>10 DEF FramesInOrder
<1>16. InBudget'
  <2>1. writers # <<>> => Window # o
    BY <1>4, <1>6, <1>11 DEF Window
  <2>2. {} \in SUBSET AttemptIds /\ IsFiniteSet({}) /\ Cardinality({}) <= MaxAttempts
    BY FS_EmptySet, AdmissionAssumption
  <2>3. \A a \in AttemptIds : Row(a)'.window # Active'
    BY <1>5, <1>13
  <2> QED
    BY <1>2, <1>5, <1>6, <1>10, <2>1, <2>2, <2>3 DEF InBudget
<1>17. Complete'
  <2>1. (Intact' <=> Intact) /\ \A b : Busy(b)' <=> Busy(b)
    BY <1>2 DEF Intact, StopOnItsWay, Busy
  <2> QED
    BY <1>1, <1>2, <1>8, <2>1, CompleteStays
<1> QED
  BY <1>8, <1>12, <1>14, <1>15, <1>16, <1>17 DEF Order

\* Ready, Stopped or an action is received, and with it goes the last that was on
\* its way in a window.
LEMMA OrderByHearing ==
    ASSUME Known, Order, WireTypes', Shorter(toServer, toServer'),
           UNCHANGED <<playerVars, toPlayer>>,
           adm'[Own].attempts = adm[Own].attempts, adm'[Own].windows = adm[Own].windows,
           adm'[Own].active = NoWindow,
           Active = NoWindow \/ IsAction(1), ~IsStart(1),
           \A p : p # 1 => ~IsStart(p) /\ ~IsAction(p)
    PROVE  Order'
<1>1. /\ Base /\ WorkInOrder /\ AskInOrder /\ FramesInOrder /\ Honest /\ InBudget /\ Complete
      /\ UNCHANGED <<main, worker, call, reader, writers>> /\ SessionBase
  BY DEF Known, SessionBase, Order, playerVars
<1>2. /\ Active' = NoWindow /\ (\A b : Row(b)' = Row(b))
      /\ \A w : Issued(adm'[Own], w) <=> Issued(adm[Own], w)
  BY DEF Active, Row, Issued
<1>3. Latest' = Latest /\ Window' = Window /\ Current' = Current /\ (WorkerLive' <=> WorkerLive)
  BY <1>1 DEF Latest, Window, Current, WorkerLive
<1>4. /\ Len(toServer) \in Nat /\ DOMAIN toServer = 1..Len(toServer)
      /\ DOMAIN toServer' = 1..(Len(toServer) - 1)
      /\ \A p \in DOMAIN toServer' : p \in Nat /\ p # 0 /\ p + 1 \in DOMAIN toServer /\ toServer'[p] = toServer[p + 1]
  BY <1>1, WordPlaces, WordPlacesPrime DEF Shorter
<1>5. \A p : ~IsStart(p)' /\ ~IsAction(p)'
  <2>1. \A p \in DOMAIN toServer' : p + 1 # 1 /\ ~IsStart(p + 1) /\ ~IsAction(p + 1)
    BY <1>4
  <2> QED
    BY <1>4, <2>1 DEF IsStart, IsAction
<1>0. PICK f, x, starts : starts \in BOOLEAN /\ ~starts
  OBVIOUS
<1>6. Advanced(f, x, starts)
  <2>1. \A a \in AttemptIds, r \in Readers :
           (Row(a)'.window # NoWindow /\ Row(a)'.reader = r) <=>
              \/ starts /\ a = f /\ r = x
              \/ ~(starts /\ a = f) /\ Said(0, a, r)
    BY <1>0, <1>1, <1>2, WordPlaces
  <2>2. starts <=> IsStart(1)
    BY <1>0
  <2> QED
    BY <1>0, <1>1, <1>3, <2>1, <2>2, TakenWords
<1>7. Honest' /\ \A a \in AttemptIds : reader[a] # "none" /\ Told(a) => Told(a)'
  BY <1>0, <1>1, <1>6, TakenHonest
<1>8. NoWindow \notin Windows /\ (writers # <<>> => Window \in Windows)
  BY <1>1, LatestFacts, AdmissionAssumption
<1>9. ~WorkerLive
  <2>1. CASE IsAction(1)
    BY <1>1, <2>1 DEF FramesInOrder, IsAction
  <2>2. CASE Active = NoWindow
    <3>1. WorkerLive => writers # <<>>
      BY <1>1 DEF Base, Tasks, WorkerLive
    <3> QED
      BY <1>1, <1>8, <2>2, <3>1 DEF WorkInOrder
  <2> QED
    BY <2>1, <2>2
<1>10. \A k \in DOMAIN writers : writers[k].task = "running" => k = Current /\ writers[k].latest = <<>>
  <2>1. CASE IsAction(1)
    BY <1>1, <2>1 DEF FramesInOrder, IsAction
  <2>2. CASE Active = NoWindow
    <3>1. \A k \in DOMAIN writers : writers # <<>>
      BY <1>1, BaseShape
    <3> QED
      BY <1>1, <1>8, <2>2, <3>1 DEF WorkInOrder
  <2> QED
    BY <2>1, <2>2
<1>11. \A i \in DOMAIN toPlayer : toPlayer[i].type # "observation"
  <2>1. CASE IsAction(1)
    BY <1>1, <2>1 DEF AskInOrder, IsAction
  <2>2. CASE Active = NoWindow
    <3>1. \A i \in DOMAIN toPlayer : toPlayer[i].type = "observation" => toPlayer[i].window \in Windows
      BY <1>1, QueueShapes, PlayerFrames
    <3> QED
      BY <1>1, <1>8, <2>2, <3>1 DEF AskInOrder
  <2> QED
    BY <2>1, <2>2
<1>12. WorkInOrder'
  BY <1>1, <1>2, <1>3, <1>9, <1>10 DEF WorkInOrder
<1>13. AskInOrder'
  BY <1>1, <1>2, <1>11 DEF AskInOrder
<1>14. FramesInOrder'
  BY <1>5 DEF FramesInOrder
<1>15. InBudget'
  BY <1>1, <1>2, <1>3, <1>8 DEF InBudget
<1>16. Complete'
  <2>1. Intact' => Intact
    <3>1. StopOnItsWay' => StopOnItsWay
      BY <1>4 DEF StopOnItsWay
    <3> QED
      BY <1>1, <3>1 DEF Intact
  <2>2. \A b : Busy(b)' <=> Busy(b)
    BY <1>1 DEF Busy
  <2> QED
    BY <1>1, <1>7, <2>1, <2>2, CompleteStays
<1> QED
  BY <1>7, <1>12, <1>13, <1>14, <1>15, <1>16 DEF Order

\* A snapshot is received: the row says now what the first frame said.
LEMMA OrderByStarted ==
    ASSUME Known, Order, WireTypes', Shorter(toServer, toServer'), IsStart(1),
           UNCHANGED <<playerVars, toPlayer>>,
           adm'[Own] = Progress(adm[Own], toServer[1].window, toServer[1].attempt, toServer[1].reader)
    PROVE  Order'
<1>1. /\ Base /\ WorkInOrder /\ AskInOrder /\ FramesInOrder /\ Honest /\ InBudget /\ Complete
      /\ UNCHANGED <<main, worker, call, reader, writers>> /\ SessionBase
  BY DEF Known, SessionBase, Order, playerVars
<1>2. PICK w, f, x : w = toServer[1].window /\ f = toServer[1].attempt /\ x = toServer[1].reader
  OBVIOUS
<1>3. w \in Windows /\ f \in AttemptIds /\ x \in Readers /\ w = Active /\ w # NoWindow
  <2>1. w \in Windows /\ f \in AttemptIds /\ x \in Readers
    BY <1>1, <1>2, QueueShapes, ServerFrames DEF IsStart
  <2>2. w = Active
    BY <1>1, <1>2 DEF FramesInOrder, IsStart
  <2> QED
    BY <2>1, <2>2, AdmissionAssumption
<1>4. /\ adm'[Own].active = adm[Own].active /\ adm'[Own].windows = adm[Own].windows
      /\ adm'[Own].attempts[f] = [window |-> w, reader |-> x]
      /\ \A b \in AttemptIds : b # f => adm'[Own].attempts[b] = adm[Own].attempts[b]
  <2>1. adm[Own] \in AdmissionState
    BY <1>1, OwnSeat DEF Base, TypeOK
  <2> QED
    BY <1>2, <1>3, <2>1 DEF Progress, AdmissionState
<1>5. /\ Active' = Active /\ \A v : Issued(adm'[Own], v) <=> Issued(adm[Own], v)
      /\ Row(f)'.window = w /\ Row(f)'.reader = x
      /\ \A b \in AttemptIds : b # f => Row(b)' = Row(b)
  BY <1>4 DEF Active, Row, Issued
<1>6. Latest' = Latest /\ Window' = Window /\ Current' = Current /\ (WorkerLive' <=> WorkerLive)
  BY <1>1 DEF Latest, Window, Current, WorkerLive
<1>7. /\ Len(toServer) \in Nat /\ DOMAIN toServer = 1..Len(toServer) /\ Len(toServer) > 0
      /\ DOMAIN toServer' = 1..(Len(toServer) - 1) /\ Len(toServer') = Len(toServer) - 1
      /\ \A p \in DOMAIN toServer' : p \in Nat /\ p # 0 /\ p + 1 \in DOMAIN toServer /\ toServer'[p] = toServer[p + 1]
  BY <1>1, WordPlaces, WordPlacesPrime DEF Shorter
<1>0. PICK starts : starts \in BOOLEAN /\ starts
  OBVIOUS
<1>8. Advanced(f, x, starts)
  <2>1. \A a \in AttemptIds, r \in Readers :
           (Row(a)'.window # NoWindow /\ Row(a)'.reader = r) <=>
              \/ starts /\ a = f /\ r = x
              \/ ~(starts /\ a = f) /\ Said(0, a, r)
    <3>1. \A a, r : Said(0, a, r) <=> Row(a).window # NoWindow /\ Row(a).reader = r
      BY <1>1, WordPlaces
    <3> QED
      BY <1>0, <1>3, <1>5, <3>1
  <2>2. starts <=> IsStart(1)
    BY <1>0
  <2>3. starts => f \in AttemptIds /\ x \in Readers
    BY <1>3
  <2>4. starts => toServer[1].attempt = f /\ toServer[1].reader = x
    BY <1>2
  <2>5. Base /\ Latest' = Latest /\ starts \in BOOLEAN
    BY <1>0, <1>1, <1>6
  <2> QED
    BY <2>1, <2>2, <2>3, <2>4, <2>5, TakenWords
<1>9. Honest' /\ \A a \in AttemptIds : reader[a] # "none" /\ Told(a) => Told(a)'
  <2>1. starts => f \in AttemptIds /\ x \in Readers
    BY <1>3
  <2>2. Base /\ Honest /\ reader' = reader /\ starts \in BOOLEAN
    BY <1>0, <1>1
  <2> QED
    BY <1>8, <2>1, <2>2, TakenHonest
<1>00. \A p \in Nat : \A a \in AttemptIds, r \in Readers :
              /\ Said(1, a, r) => starts /\ a = f /\ r = x
              /\ starts => Said(1, f, x)
              /\ Said(p, a, r)' <=> \/ p = 0 /\ starts /\ a = f /\ r = x
                                    \/ p = 0 /\ ~(starts /\ a = f) /\ Said(0, a, r)
                                    \/ p # 0 /\ Said(p + 1, a, r)
  BY <1>8 DEF Advanced
<1>10. \A i \in DOMAIN toPlayer : toPlayer[i].type # "observation"
  BY <1>1 DEF AskInOrder, IsStart
<1>11. WorkInOrder'
  BY <1>1, <1>5, <1>6 DEF WorkInOrder
<1>12. AskInOrder'
  <2>1. Issued(adm[Own], w)
    BY <1>1, <1>3, ActiveFacts
  <2>2. \A a \in AttemptIds : Row(a)'.window # NoWindow => Issued(adm'[Own], Row(a)'.window)
    BY <1>1, <1>5, <2>1 DEF AskInOrder
  <2> QED
    BY <1>1, <1>10, <2>2 DEF AskInOrder
<1>13. \A p \in DOMAIN toServer' : (IsStart(p)' <=> IsStart(p + 1)) /\ (IsAction(p)' <=> IsAction(p + 1))
  BY <1>7 DEF IsStart, IsAction
<1>14. \A b \in AttemptIds : Row(b).window \in {NoWindow, Active} => Row(b)'.window \in {NoWindow, Active}
  BY <1>3, <1>5
<1>15. FramesInOrder'
  <2>1. ASSUME NEW p \in DOMAIN toServer', IsStart(p)' \/ IsAction(p)'
        PROVE  toServer'[p].window = Active' /\ (writers' # <<>> => Window' = Active')
    <3>1. p + 1 \in DOMAIN toServer /\ toServer'[p] = toServer[p + 1] /\ (IsStart(p + 1) \/ IsAction(p + 1))
      BY <1>7, <1>13, <2>1
    <3> QED
      BY <1>1, <1>5, <1>6, <3>1 DEF FramesInOrder
  <2>2. ASSUME NEW p \in DOMAIN toServer', IsStart(p)'
        PROVE  Row(toServer[p].attempt)'.window \in {NoWindow, Active'}
    <3>1. PICK b \in AttemptIds : b = toServer[p + 1].attempt
      BY <1>1, <1>7, <1>13, <2>2, QueueShapes, ServerFrames DEF IsStart
    <3>2. Row(b).window \in {NoWindow, Active}
      BY <1>1, <1>7, <1>13, <2>2, <3>1 DEF FramesInOrder
    <3>3. Row(toServer[p].attempt)' = Row(b)'
      BY <1>7, <3>1 DEF Row
    <3> QED
      BY <1>5, <1>14, <3>2, <3>3
  <2>3. ASSUME NEW p \in DOMAIN toServer', IsAction(p)'
        PROVE  /\ p = Len(toServer') /\ ~WorkerLive'
               /\ \A k \in DOMAIN writers' : writers'[k].task # "running"
               /\ toServer'[p].selected # NoAttempt =>
                     /\ Row(toServer[p].selected)'.window \in {NoWindow, Active'}
                     /\ \E q \in Nat : q <= Len(toServer') /\ Said(q, toServer[p].selected, "joined")'
    <3>1. /\ p + 1 \in DOMAIN toServer /\ IsAction(p + 1) /\ p + 1 = Len(toServer) /\ ~WorkerLive
          /\ \A k \in DOMAIN writers : writers[k].task # "running"
          /\ toServer'[p].selected = toServer[p + 1].selected
          /\ toServer[p + 1].selected # NoAttempt =>
                /\ Row(toServer[p + 1].selected).window \in {NoWindow, Active}
                /\ \E q \in Nat : q <= Len(toServer) /\ Said(q, toServer[p + 1].selected, "joined")
      BY <1>1, <1>7, <1>13, <2>3 DEF FramesInOrder
    <3>2. SUFFICES ASSUME toServer'[p].selected # NoAttempt
                   PROVE  /\ Row(toServer[p].selected)'.window \in {NoWindow, Active'}
                          /\ \E q \in Nat : q <= Len(toServer') /\ Said(q, toServer[p].selected, "joined")'
      BY <1>1, <1>6, <1>7, <3>1
    <3>3. PICK b \in AttemptIds : b = toServer[p + 1].selected
      BY <1>1, <3>1, <3>2, QueueShapes, ServerFrames DEF IsAction
    <3>4. /\ Row(toServer[p].selected)' = Row(b)'
          /\ \A q : Said(q, b, "joined")' <=> Said(q, toServer[p].selected, "joined")'
      BY <3>1, <3>3 DEF Said, Row, IsStart
    <3>5. Row(b)'.window \in {NoWindow, Active'}
      BY <1>5, <1>14, <3>1, <3>2, <3>3
    <3>6. PICK q \in Nat : q <= Len(toServer) /\ Said(q, b, "joined")
      BY <3>1, <3>2, <3>3
    <3>7. "joined" \in Readers
      BY DEF Readers
    <3>8. \E m \in Nat : m <= Len(toServer') /\ Said(m, b, "joined")'
      <4>1. CASE q \in {0, 1}
        <5>1. 0 \in Nat /\ 0 <= Len(toServer')
          BY <1>7
        <5>2. b = f => x = "joined"
          <6>1. PICK one \in Nat : one = 1
            OBVIOUS
          <6>2. Said(one, f, x) /\ (q = 1 /\ b = f => x = "joined")
            BY <1>0, <1>3, <1>00, <3>6, <3>7, <6>1
          <6>3. q <= one
            BY <4>1, <6>1
          <6> QED
            BY <1>1, <1>3, <3>6, <6>2, <6>3 DEF Honest
        <5>3. Said(0, b, "joined")'
          BY <1>0, <1>00, <3>6, <3>7, <4>1, <5>1, <5>2
        <5> QED
          BY <5>1, <5>3
      <4>2. CASE q \notin {0, 1}
        <5>1. PICK m \in Nat : m # 0 /\ q = m + 1
          <6>1. q - 1 \in Nat /\ q - 1 # 0 /\ q = (q - 1) + 1
            BY <4>2
          <6> QED
            BY <6>1
        <5>2. Said(m, b, "joined")'
          BY <1>00, <3>6, <3>7, <5>1
        <5> QED
          BY <1>7, <3>6, <5>1, <5>2
      <4> QED
        BY <4>1, <4>2
    <3> QED
      BY <3>4, <3>5, <3>8
  <2> QED
    BY <2>1, <2>2, <2>3 DEF FramesInOrder
<1>16. InBudget'
  <2>1. \A p \in Nat : p + 1 \in Nat /\ p + 1 # 0
    OBVIOUS
  <2>2. ASSUME writers' # <<>>, Window' = Active'
        PROVE  /\ \A p \in Nat, a \in AttemptIds, r \in Readers :
                     p # 0 /\ Said(p, a, r)' => a \in call'.attempts
               /\ \A a \in AttemptIds : Row(a)'.window = Active' => a \in call'.attempts
               /\ \A a \in call'.attempts : Row(a)'.window \in {NoWindow, Active'}
    <3>1. /\ \A p \in Nat, b \in AttemptIds, r \in Readers :
                 p # 0 /\ Said(p, b, r) => b \in call.attempts
          /\ \A b \in AttemptIds : Row(b).window = Active => b \in call.attempts
          /\ \A b \in call.attempts : Row(b).window \in {NoWindow, Active}
          /\ call.attempts \subseteq AttemptIds
      BY <1>1, <1>5, <1>6, <2>2, BaseShape DEF InBudget
    <3>2. f \in call.attempts
      <4>1. PICK one \in Nat : one = 1
        OBVIOUS
      <4> QED
        BY <1>0, <1>3, <1>00, <3>1, <4>1
    <3>3. \A p \in Nat, a \in AttemptIds, r \in Readers : p # 0 /\ Said(p, a, r)' => a \in call.attempts
      BY <1>00, <2>1, <3>1
    <3> QED
      BY <1>1, <1>3, <1>5, <1>14, <3>1, <3>2, <3>3
  <2>3. ASSUME Active' # NoWindow
        PROVE  \E S \in SUBSET AttemptIds :
                  /\ IsFiniteSet(S) /\ Cardinality(S) <= MaxAttempts
                  /\ \A a \in AttemptIds : Row(a)'.window = Active' => a \in S
                  /\ \A p \in DOMAIN toServer' : IsStart(p)' => toServer'[p].attempt \in S
    <3>1. PICK S \in SUBSET AttemptIds :
             /\ IsFiniteSet(S) /\ Cardinality(S) <= MaxAttempts
             /\ \A a \in AttemptIds : Row(a).window = Active => a \in S
             /\ \A p \in DOMAIN toServer : IsStart(p) => toServer[p].attempt \in S
      BY <1>1, <1>5, <2>3 DEF InBudget
    <3>2. f \in S
      BY <1>2, <3>1 DEF IsStart
    <3>3. \A a \in AttemptIds : Row(a)'.window = Active' => a \in S
      BY <1>5, <3>1, <3>2
    <3>4. \A p \in DOMAIN toServer' : IsStart(p)' => toServer'[p].attempt \in S
      BY <1>7, <1>13, <3>1
    <3> QED
      BY <3>1, <3>3, <3>4
  <2> QED
    BY <2>2, <2>3 DEF InBudget
<1>17. Complete'
  <2>1. Intact' => Intact
    <3>1. StopOnItsWay' => StopOnItsWay
      BY <1>7 DEF StopOnItsWay
    <3> QED
      BY <1>1, <3>1 DEF Intact
  <2>2. \A b : Busy(b)' <=> Busy(b)
    BY <1>1 DEF Busy
  <2> QED
    BY <1>1, <1>9, <2>1, <2>2, CompleteStays
<1> QED
  BY <1>9, <1>11, <1>12, <1>15, <1>16, <1>17 DEF Order

LEMMA OrderByReceive ==
    ASSUME Known, Working, Order, WireTypes', Receive
    PROVE  Order'
<1>1. /\ SessionBase /\ Base /\ SessionTypeOK /\ FramesInOrder /\ adm[Own] \in AdmissionState
  BY BaseShape, OwnSeat DEF Known, SessionBase, Order, SessionTypeOK, TypeOK
<1>2. /\ toServer # <<>> /\ toServer' = Tail(toServer) /\ UNCHANGED <<playerVars, toPlayer>>
      /\ \/ /\ Head(toServer).type = "ready" /\ adm' = adm
            /\ \A w \in Windows : ~Issued(adm[Own], w)
         \/ /\ Head(toServer).type = "attempt_started"
            /\ adm'[Own] = Progress(adm[Own], Head(toServer).window, Head(toServer).attempt,
                                    Head(toServer).reader)
         \/ /\ Head(toServer).type = "action"
            /\ adm'[Own] = Consume(adm[Own], Head(toServer).window, Head(toServer).selected)
         \/ /\ Head(toServer).type = "stopped" /\ adm' = adm /\ stopMessage[Own]
  BY <1>1, ReceiveSeat
<1>3. /\ Head(toServer) = toServer[1] /\ Shorter(toServer, toServer')
      /\ 1 \in DOMAIN toServer /\ DOMAIN toServer = 1..Len(toServer) /\ Len(toServer) \in Nat
  BY <1>1, <1>2, QueueShapes
<1>4. CASE adm' = adm /\ Active = NoWindow /\ Head(toServer).type # "attempt_started"
  <2>1. \A p : ~IsStart(p) /\ ~IsAction(p)
    BY <1>1, <1>4, NothingOnItsWay
  <2>2. adm'[Own].attempts = adm[Own].attempts /\ adm'[Own].windows = adm[Own].windows
        /\ adm'[Own].active = NoWindow
    BY <1>4 DEF Active
  <2> QED
    BY <1>2, <1>3, <1>4, <2>1, <2>2, OrderByHearing
<1>5. CASE /\ Head(toServer).type = "attempt_started"
           /\ adm'[Own] = Progress(adm[Own], Head(toServer).window, Head(toServer).attempt,
                                   Head(toServer).reader)
  <2>1. IsStart(1)
    BY <1>3, <1>5 DEF IsStart
  <2> QED
    BY <1>2, <1>3, <1>5, <2>1, OrderByStarted
<1>6. CASE /\ Head(toServer).type = "action"
           /\ adm'[Own] = Consume(adm[Own], Head(toServer).window, Head(toServer).selected)
  <2>1. IsAction(1) /\ ~IsStart(1)
    BY <1>3, <1>6 DEF IsAction, IsStart
  <2>2. Len(toServer) = 1
    BY <1>1, <1>3, <2>1 DEF FramesInOrder
  <2>3. \A p : p # 1 => ~IsStart(p) /\ ~IsAction(p)
    BY <1>3, <2>2 DEF IsStart, IsAction
  <2>4. PICK c \in AdmissionState : c = adm[Own]
    BY <1>1
  <2>5. \A w, a : /\ Consume(c, w, a).attempts = c.attempts /\ Consume(c, w, a).windows = c.windows
                  /\ Consume(c, w, a).active = NoWindow
    BY DEF Consume, AdmissionState
  <2>6. adm'[Own].attempts = adm[Own].attempts /\ adm'[Own].windows = adm[Own].windows
        /\ adm'[Own].active = NoWindow
    BY <1>6, <2>4, <2>5
  <2> QED
    BY <1>2, <1>3, <2>1, <2>3, <2>6, OrderByHearing
<1>7. CASE Head(toServer).type = "ready" /\ adm' = adm /\ \A w \in Windows : ~Issued(adm[Own], w)
  <2>1. Active = NoWindow
    BY <1>1, <1>7, ActiveFacts
  <2> QED
    BY <1>4, <1>7, <2>1
<1>8. CASE Head(toServer).type = "stopped" /\ adm' = adm /\ stopMessage[Own]
  <2>1. Active = NoWindow
    BY <1>1, <1>8, ActiveFacts
  <2> QED
    BY <1>4, <1>8, <2>1
<1> QED
  BY <1>2, <1>5, <1>6, <1>7, <1>8

\* The server takes its steps one by one, and none of them disturbs the order.
LEMMA OrderByServer ==
    ASSUME Known, Working, Order, WireTypes', Working', ServerStep
    PROVE  Order'
<1>1. SessionBase /\ Base /\ SessionTypeOK /\ Typed
  BY BaseShape DEF Known, SessionBase, Inv
<1>2. CASE Receive
  BY <1>2, OrderByReceive
<1>3. CASE Closing
  <2>1. link'[Own] = "down"
    BY <1>1, <1>3, ClosingSeat DEF Base
  <2> QED
    BY <2>1 DEF Working, Connected
<1>4. CASE Observe
  BY <1>4, OrderByObserve
<1>5. CASE TellStop
  <2>1. /\ UNCHANGED <<toServer, playerVars>> /\ adm'[Own] = StopAdmission(adm[Own])
        /\ phase \in {"stopping", "aborting"}
    BY <1>1, <1>5, TellStopSeat
  <2>2. Active = NoWindow
    BY <1>1, <2>1, ActiveFacts
  <2>3. SameSeat
    <3>1. PICK c \in AdmissionState : c = adm[Own]
      BY <1>1, OwnSeat DEF SessionTypeOK, TypeOK
    <3>2. /\ StopAdmission(c).attempts = c.attempts /\ StopAdmission(c).windows = c.windows
          /\ StopAdmission(c).active = NoWindow
      BY DEF StopAdmission, AdmissionState
    <3> QED
      BY <2>1, <2>2, <3>1, <3>2 DEF SameSeat, Active
  <2>4. Grown({"stop", "evidence", "done", "close"})
    <3>1. Grown({"stop"})
      BY <1>1, <1>5, ServerGrows
    <3> QED
      BY <3>1 DEF Grown
  <2> QED
    BY <2>1, <2>3, <2>4, OrderByTelling
<1>6. CASE Otherwise
  <2>1. Clean' /\ Live'
    BY DEF Working
  <2>2. SameSeat /\ toServer' = toServer /\ UNCHANGED playerVars
        /\ Grown({"stop", "evidence", "done", "close"})
    BY <1>6, <2>1, OtherwiseQuiet
  <2> QED
    BY <2>2, OrderByTelling
<1> QED
  BY <1>2, <1>3, <1>4, <1>5, <1>6, ServerStepKinds

--------------------------------------------------------------------------------
(***************************************************************************)
(* What the server makes of the first frame.                               *)
(***************************************************************************)

\* When Stopped is received the rows of the server are what became of the attempts.
LEMMA StoppedSaysAll ==
    ASSUME Known, Order, toServer # <<>>, Head(toServer).type = "stopped"
    PROVE  /\ stopMessage[Own] /\ ~HasUnsettledReaders(adm[Own])
           /\ \A a \in AttemptIds : reader[a] # "none" =>
                 Row(a).window # NoWindow /\ Row(a).reader = reader[a]
<1>1. Base /\ Honest /\ Complete /\ Saying /\ Silent /\ StoppedIsLast
  BY DEF Known, SessionBase, Ending, Order
<1>2. /\ toServer[1] = Stopped /\ toServer[1].type = "stopped" /\ 1 \in DOMAIN toServer
      /\ DOMAIN toServer = 1..Len(toServer) /\ Len(toServer) \in Nat
  BY <1>1, QueueShapes, ServerFrames
<1>3. StopOnItsWay /\ Len(toServer) = 1
  BY <1>1, <1>2 DEF StopOnItsWay, StoppedIsLast
<1>4. /\ stop /\ ~CallLive /\ \A a \in AttemptIds : reader[a] # "open"
      /\ writers # <<>> => writers[Current].task = "done"
  BY <1>1, <1>3 DEF Silent, StopSaid
<1>5. stopMessage[Own]
  BY <1>1, <1>4 DEF Saying
<1>6. Latest = {}
  BY <1>1, <1>4, LatestFacts
<1>7. \A p \in Nat : \A a, r : Said(p, a, r) => p = 0
  <2>1. SUFFICES ASSUME NEW p \in Nat, NEW a, NEW r, Said(p, a, r), p # 0
                 PROVE  FALSE
    OBVIOUS
  <2>2. p <= 2
    <3>1. Said(p, a, r) => p <= Len(toServer) + 1
      BY <1>1, WordPlaces
    <3> QED
      BY <1>3, <2>1, <3>1
  <2>3. CASE p = 2
    BY <1>1, <1>3, <1>6, <2>1, <2>3, WordPlaces
  <2>4. CASE p = 1
    <3>1. p \in 1..Len(toServer) /\ toServer[p].type # "attempt_started"
      BY <1>2, <1>3, <2>4
    <3>2. IsStart(p)
      BY <1>1, <2>1, <3>1, WordPlaces
    <3> QED
      BY <3>1, <3>2 DEF IsStart
  <2> QED
    BY <2>1, <2>2, <2>3, <2>4
<1>8. ASSUME NEW a \in AttemptIds, reader[a] # "none"
      PROVE  Row(a).window # NoWindow /\ Row(a).reader = reader[a]
  <2>1. ~Busy(a)
    BY <1>4 DEF Busy, CallLive
  <2>2. Told(a)
    BY <1>1, <1>3, <1>8, <2>1 DEF Complete, Intact
  <2>3. PICK p \in Nat : \E r : r = reader[a] /\ Said(p, a, r)
    BY <2>2 DEF Told
  <2>4. p = 0
    BY <1>7, <2>3
  <2> QED
    BY <1>1, <2>3, <2>4, WordPlaces
<1>9. ~HasUnsettledReaders(adm[Own])
  <2>1. SUFFICES ASSUME NEW a \in AttemptIds, Row(a).window # NoWindow, Row(a).reader = "open"
                 PROVE  FALSE
    BY DEF HasUnsettledReaders, Row
  <2>2. PICK o \in Nat : o = 0
    OBVIOUS
  <2>3. Said(o, a, "open") /\ "open" \in Readers
    BY <1>1, <2>1, <2>2, WordPlaces DEF Readers
  <2>4. reader[a] # "none"
    BY <1>1, <2>3 DEF Honest
  <2> QED
    BY <1>4, <1>8, <2>1, <2>4
<1> QED
  BY <1>5, <1>8, <1>9

\* An action on its way that the server would not read from the reply is there
\* because the reply had too many tests.
Fitting ==
    \A p \in DOMAIN toServer : IsAction(p) => toServer[p].fits \/ "wide" \in faults

\* The windows have the profile that the player has registered, and its replies fit.
Faithful == faults \cap {"stale", "wide"} = {}

\* The server accepts what comes from a session in order.
LEMMA AcceptsInOrder ==
    ASSUME Known, Clean, Faithful, Fitting, Order, toServer # <<>>
    PROVE  Accepts(Head(toServer))
<1>1. /\ SessionBase /\ Base /\ FramesInOrder /\ Honest /\ InBudget /\ Welcoming /\ Registering
      /\ StoppedIsLast /\ adm[Own] \in AdmissionState
  BY OwnSeat DEF Known, SessionBase, Base, TypeOK, Greeting, Ending, Order
<1>2. PICK f \in ToServer : f = Head(toServer)
  BY <1>1, QueueShapes
<1>3. /\ toServer[1] = f /\ 1 \in DOMAIN toServer
      /\ DOMAIN toServer = 1..Len(toServer) /\ Len(toServer) \in Nat
      /\ f.type \in {"ready", "attempt_started", "action", "stopped"}
  BY <1>1, <1>2, QueueShapes, ServerFrames
<1>4. ~Begun \/ registered[Own]
  BY <1>1 DEF Registering, Clean
<1>5. ~sealed[Own]
  <2>1. SUFFICES ASSUME sealed[Own] PROVE FALSE
    OBVIOUS
  <2>2. StopInOrder(Own)
    BY OwnSeat, <1>1 DEF SessionBase, StopInv
  <2>3. stopMessage[Own]
    BY <1>1, <2>1 DEF Registering, Clean
  <2>4. stopped[Own]
    BY <2>1, <2>2, <2>3 DEF StopInOrder
  <2> QED
    BY <1>1, <2>4 DEF StoppedIsLast
<1>6. CASE f.type = "ready"
  <2>1. f = Ready
    BY <1>6, ServerFrames
  <2>2. ~registered[Own]
    BY <1>1, <1>3, <2>1 DEF Welcoming
  <2>3. ~stopMessage[Own] /\ \A w \in Windows : ~Issued(adm[Own], w)
    BY <1>4, <2>2 DEF Begun, IssuedAny
  <2> QED
    BY <1>2, <1>5, <1>6, <2>2, <2>3 DEF Accepts
<1>7. CASE f.type = "attempt_started"
  <2>1. PICK w, a, r : w = f.window /\ a = f.attempt /\ r = f.reader
    OBVIOUS
  <2>2. w \in Windows /\ a \in AttemptIds /\ r \in Readers
    BY <1>7, <2>1, ServerFrames
  <2>3. IsStart(1)
    BY <1>3, <1>7 DEF IsStart
  <2>4. w = Active /\ Row(a).window \in {NoWindow, Active}
    BY <1>1, <1>3, <2>1, <2>3 DEF FramesInOrder
  <2>5. Issued(adm[Own], w) /\ ~adm[Own].stopping /\ Active # NoWindow
    BY <1>1, <2>2, <2>4, ActiveFacts
  <2>6. CASE Row(a).window = NoWindow
    <3>1. PICK S \in SUBSET AttemptIds :
             /\ IsFiniteSet(S) /\ Cardinality(S) <= MaxAttempts
             /\ \A b \in AttemptIds : Row(b).window = Active => b \in S
             /\ \A p \in DOMAIN toServer : IsStart(p) => toServer[p].attempt \in S
      BY <1>1, <2>5 DEF InBudget
    <3> DEFINE R == Rows(adm[Own], w)
    <3>2. R \subseteq S /\ a \in S /\ a \notin R
      BY <1>3, <2>1, <2>3, <2>4, <2>5, <2>6, <3>1 DEF Rows, Row
    <3> HIDE DEF R
    <3>3. R \subseteq S \ {a} /\ IsFiniteSet(S \ {a}) /\ Cardinality(S \ {a}) = Cardinality(S) - 1
      BY <3>1, <3>2, FS_RemoveElement
    <3>4. Cardinality(R) \in Nat /\ Cardinality(R) <= Cardinality(S \ {a}) /\ Cardinality(S) \in Nat
      BY <3>1, <3>3, FS_Subset, FS_CardinalityType
    <3>5. Cardinality(R) < MaxAttempts
      BY <3>1, <3>3, <3>4, AdmissionAssumption
    <3>6. MayStart(adm[Own], w, a)
      BY <2>4, <2>5, <2>6, <3>5 DEF MayStart, Row, Active, R
    <3> QED
      BY <1>2, <1>5, <1>7, <2>1, <2>5, <3>6 DEF Accepts, MayProgress, Stale, Faithful
  <2>7. CASE Row(a).window = Active
    <3>1. Row(a).reader = "joined" => r = "joined"
      <4>1. PICK o, one \in Nat : o = 0 /\ one = 1 /\ one \in 1..Len(toServer)
        BY <1>3
      <4>2. Said(one, a, r)
        <5>1. Said(one, a, r) <=> IsStart(one) /\ toServer[one].attempt = a /\ toServer[one].reader = r
          BY <1>1, <4>1, WordPlaces
        <5> QED
          BY <1>3, <2>1, <2>3, <4>1, <5>1
      <4>3. Row(a).reader = "joined" => Said(o, a, "joined")
        BY <1>1, <2>5, <2>7, <4>1, WordPlaces
      <4>4. o <= one
        BY <4>1
      <4>5. \A p, q \in Nat : Said(p, a, "joined") /\ Said(q, a, r) /\ p <= q => r = "joined"
        BY <1>1, <2>2 DEF Honest
      <4> QED
        BY <4>2, <4>3, <4>4, <4>5
    <3>2. MayUpdate(adm[Own], w, a, r)
      BY <2>4, <2>7, <3>1 DEF MayUpdate, Row, Active
    <3> QED
      BY <1>2, <1>5, <1>7, <2>1, <2>5, <3>2 DEF Accepts, MayProgress, Stale, Faithful
  <2> QED
    BY <2>4, <2>6, <2>7
<1>8. CASE f.type = "action"
  <2>1. PICK w, a : w = f.window /\ a = f.selected
    OBVIOUS
  <2>2. w \in Windows /\ a \in AttemptIds \cup {NoAttempt}
    BY <1>8, <2>1, ServerFrames
  <2>3. IsAction(1) /\ ~IsStart(1)
    BY <1>3, <1>8 DEF IsAction, IsStart
  <2>4. /\ w = Active /\ Len(toServer) = 1
        /\ a # NoAttempt => \E q \in Nat : q <= Len(toServer) /\ Said(q, a, "joined")
    BY <1>1, <1>3, <2>1, <2>3 DEF FramesInOrder
  <2>5. ~adm[Own].stopping /\ Active # NoWindow
    BY <1>1, <2>2, <2>4, ActiveFacts
  <2>6. ASSUME a # NoAttempt PROVE MayBind(adm[Own], w, a)
    <3>1. PICK q \in Nat : q <= 1 /\ Said(q, a, "joined")
      BY <2>4, <2>6
    <3>2. q # 1
      <4>1. SUFFICES ASSUME q = 1 PROVE FALSE
        OBVIOUS
      <4>2. q \in 1..Len(toServer)
        BY <2>4, <4>1
      <4>3. IsStart(q)
        BY <1>1, <3>1, <4>2, WordPlaces
      <4> QED
        BY <2>3, <4>1, <4>3
    <3>3. q = 0
      BY <3>1, <3>2
    <3>4. Row(a).window # NoWindow /\ Row(a).reader = "joined"
      BY <1>1, <3>1, <3>3, WordPlaces
    <3>5. Row(a).window \in {NoWindow, Active}
      BY <1>1, <1>3, <2>1, <2>3, <2>6 DEF FramesInOrder
    <3> QED
      BY <2>4, <3>4, <3>5 DEF MayBind, Row, Active
  <2>7. MayConsume(adm[Own], w, a)
    BY <2>4, <2>5, <2>6 DEF MayConsume, Active
  <2>8. f.fits
    BY <1>3, <2>3 DEF Fitting, Faithful
  <2> QED
    BY <1>2, <1>5, <1>8, <2>1, <2>7, <2>8 DEF Accepts
<1>9. CASE f.type = "stopped"
  <2>1. stopMessage[Own] /\ ~HasUnsettledReaders(adm[Own])
    BY <1>2, <1>9, StoppedSaysAll
  <2> QED
    BY <1>2, <1>5, <1>9, <2>1 DEF Accepts
<1> QED
  BY <1>3, <1>6, <1>7, <1>8, <1>9

--------------------------------------------------------------------------------
(***************************************************************************)
(* Before the first frame, and after the last one.                         *)
(***************************************************************************)
Unrecorded == main = "connecting" => \A a \in AttemptIds : Row(a).window = NoWindow

\* Once Stopped is received the rows are what became of the attempts.
Recorded ==
    Clean /\ stopped[Own] =>
        \A a \in AttemptIds : reader[a] # "none" =>
            Row(a).window # NoWindow /\ Row(a).reader = reader[a]

\* The session begins: nothing has been said by either end.
LEMMA OrderByJoin ==
    ASSUME Base, Unrecorded, WireTypes', Join
    PROVE  Order'
<1>1. /\ main = "connecting" /\ main' = "loop" /\ adm' = adm
      /\ toPlayer = <<>> /\ toServer = <<>> /\ writers = <<>> /\ worker = "none"
      /\ UNCHANGED <<worker, call, reader, writers, toServer>>
      /\ \A a \in AttemptIds : reader[a] = "none"
  BY DEF Join, Connect, Base, Places, Tasks
<1>2. \A a \in AttemptIds : Row(a)'.window = NoWindow
  BY <1>1 DEF Unrecorded, Row
<1>3. /\ toPlayer' = Append(toPlayer, Plain("welcome"))
      /\ Longer(toPlayer, toPlayer', Plain("welcome"))
  <2>1. Plain("welcome") \in ToPlayer /\ toPlayer \in Seq(ToPlayer)
    BY QueueShapes, PlayerFrames
  <2>2. toPlayer' = toPlayer \o <<Plain("welcome")>>
    BY <1>1 DEF Join, Tell, Gone
  <2> QED
    BY <2>1, <2>2, AppendIsLonger
<1>4. \A i \in DOMAIN toPlayer' : toPlayer'[i].type # "observation"
  <2>1. Len(toPlayer) = 0
    BY <1>1, QueueShapes
  <2> QED
    BY <1>3, <2>1, QueueShapesPrime DEF Longer, Plain
<1>5. /\ Len(toServer') = 0 /\ DOMAIN toServer' = {} /\ DOMAIN writers' = {} /\ Latest' = {}
      /\ ~WorkerLive'
  BY <1>1 DEF Latest, WorkerLive
<1>6. \A p : ~IsStart(p)' /\ ~IsAction(p)'
  BY <1>5 DEF IsStart, IsAction
<1>7. \A p \in Nat : \A a \in AttemptIds : \A r : ~Said(p, a, r)'
  BY <1>2, <1>5, <1>6 DEF Said
<1>8. WorkInOrder'
  BY <1>1, <1>5 DEF WorkInOrder
<1>9. AskInOrder'
  BY <1>2, <1>4 DEF AskInOrder
<1>10. FramesInOrder'
  BY <1>6 DEF FramesInOrder
<1>11. Honest'
  BY <1>7 DEF Honest
<1>12. InBudget'
  <2>1. {} \in SUBSET AttemptIds /\ IsFiniteSet({}) /\ Cardinality({}) <= MaxAttempts
    BY FS_EmptySet, AdmissionAssumption
  <2>2. Active' # NoWindow => \A a \in AttemptIds : Row(a)'.window # Active'
    BY <1>2
  <2> QED
    BY <1>1, <1>5, <2>1, <2>2 DEF InBudget
<1>13. Complete'
  BY <1>1 DEF Complete
<1> QED
  BY <1>8, <1>9, <1>10, <1>11, <1>12, <1>13 DEF Order

LEMMA OrderNext ==
    ASSUME Known, Known', Unrecorded, Working => Order, [SessionNext]_sessionVars, Working'
    PROVE  Order'
<1>1. SessionBase /\ Base /\ SessionTypeOK /\ Typed /\ WireTypes'
  BY BaseShape DEF Known, SessionBase, Inv, Base
<1>2. CASE Join
  BY <1>1, <1>2, OrderByJoin
<1>3. CASE ~Join
  <2>1. Working /\ Order
    BY <1>1, <1>3, WorkingStays
  <2>2. Clean'
    BY DEF Working
  <2>3. CASE Main
    BY <1>1, <1>3, <2>1, <2>3, OrderByMain
  <2>4. CASE TaskStep
    BY <1>1, <2>1, <2>2, <2>4, OrderByTask
  <2>5. CASE ServerStep
    BY <1>1, <2>1, <2>5, OrderByServer
  <2>6. CASE UNCHANGED sessionVars
    <3>1. /\ UNCHANGED <<adm, toPlayer, toServer, playerVars>> 
      BY <2>6 DEF sessionVars, vars, windowVars, linkVars, wireVars
    <3>2. SameSeat
      BY <3>1 DEF SameSeat
    <3>3. Grown({"stop", "evidence", "done", "close"})
      BY <1>1, <3>1, GrownSame
    <3> QED
      BY <1>1, <2>1, <3>1, <3>2, <3>3, OrderByTelling
  <2> QED
    BY <2>3, <2>4, <2>5, <2>6 DEF SessionNext, ServerStep, TaskStep
<1> QED
  BY <1>2, <1>3

\* A row is written, and Stopped noted, by a frame that is received alone.
LEMMA RowsStay ==
    ASSUME SessionTypeOK, ServerStep, ~Receive
    PROVE  adm'[Own].attempts = adm[Own].attempts /\ stopped' = stopped
<1>1. PICK c \in AdmissionState : c = adm[Own]
  BY OwnSeat DEF SessionTypeOK, TypeOK
<1>2. CASE Closing
  BY <1>2, ClosingSeat DEF SessionTypeOK
<1>3. CASE Observe
  <2>1. \A w, p : Issue(c, w, p).attempts = c.attempts
    BY DEF Issue, AdmissionState
  <2> QED
    BY <1>1, <1>3, <2>1 DEF Observe, Ask, engineVars, linkVars, stopVars
<1>4. CASE TellStop
  <2>1. stopped' = stopped /\ adm'[Own] = StopAdmission(adm[Own])
    BY <1>4, TellStopSeat
  <2>2. StopAdmission(c).attempts = c.attempts
    BY DEF StopAdmission, AdmissionState
  <2> QED
    BY <1>1, <2>1, <2>2
<1>5. CASE Otherwise
  <2>1. stopped' = stopped /\ (adm'[Own] = adm[Own] \/ adm'[Own] = CloseWindow(adm[Own], Round))
    BY <1>5, OtherwiseSeat
  <2>2. CloseWindow(c, Round).attempts = c.attempts
    BY DEF CloseWindow, AdmissionState
  <2> QED
    BY <1>1, <2>1, <2>2
<1> QED
  BY <1>2, <1>3, <1>4, <1>5, ServerStepKinds

\* Before it connects the player has no row, and it connects once.
LEMMA UnrecordedNext ==
    ASSUME Known, Unrecorded, [SessionNext]_sessionVars
    PROVE  Unrecorded'
<1>1. SessionBase /\ Base /\ SessionTypeOK /\ Typed /\ adm[Own] \in AdmissionState
  BY BaseShape, OwnSeat DEF Known, SessionBase, Inv, SessionTypeOK, TypeOK
<1>2. SUFFICES ASSUME main' = "connecting" PROVE \A a \in AttemptIds : Row(a)'.window = NoWindow
  BY DEF Unrecorded
<1>3. ~Main
  BY <1>2 DEF Main, Join, NeverJoins, OnWelcome, OnObservation, PreviousJoined, OnStop, OwnersStopped,
     SendStopped, DrainStuck, OnEvidence, OnEnd, WorkerFailed, Flush, Exit, Frame, GiveUp, StartWorker,
     Leave, playerVars
<1>4. CASE TaskStep
  <2>1. UNCHANGED <<main, adm>>
    BY <1>1, <1>4, TaskSteps DEF vars
  <2> QED
    BY <1>2, <2>1 DEF Unrecorded, Row
<1>5. CASE ServerStep
  <2>1. main = "connecting" /\ link[Own] = "down"
    BY <1>1, <1>2, <1>5, ConnectionStays DEF playerVars, Base, Places
  <2>2. ~Receive
    BY <1>1, <2>1, ReceiveSeat
  <2>3. adm'[Own].attempts = adm[Own].attempts
    BY <1>1, <1>5, <2>2, RowsStay
  <2> QED
    BY <2>1, <2>3 DEF Unrecorded, Row
<1>6. CASE UNCHANGED sessionVars
  BY <1>2, <1>6 DEF sessionVars, vars, playerVars, Unrecorded, Row
<1> QED
  BY <1>3, <1>4, <1>5, <1>6 DEF SessionNext, ServerStep, TaskStep

\* What Stopped has fixed stays: nobody sends any more, and nobody moves a reader.
LEMMA RecordedNext ==
    ASSUME Known, Known', Recorded, Working => Order, [SessionNext]_sessionVars
    PROVE  Recorded'
<1>1. /\ SessionBase /\ Base /\ SessionTypeOK /\ Typed /\ Ending /\ Registering
  BY BaseShape DEF Known, SessionBase, Inv, Greeting
<1>2. SUFFICES ASSUME Clean', stopped'[Own]
               PROVE  \A a \in AttemptIds : reader'[a] # "none" =>
                         Row(a)'.window # NoWindow /\ Row(a)'.reader = reader'[a]
  BY DEF Recorded
<1>3. Clean
  BY <1>1, <1>2, FaultsStay DEF Clean
<1>4. ASSUME stopped[Own], adm'[Own].attempts = adm[Own].attempts, reader' = reader
      PROVE  \A a \in AttemptIds : reader'[a] # "none" =>
                Row(a)'.window # NoWindow /\ Row(a)'.reader = reader'[a]
  BY <1>3, <1>4 DEF Recorded, Row
<1>5. CASE Main
  <2>1. stopped' = stopped /\ adm' = adm
    <3>1. CASE Join
      BY <3>1 DEF Join, Connect, stopVars
    <3>2. CASE ~Join
      BY <1>1, <1>5, <3>2, MainQueues DEF vars, stopVars
    <3> QED
      BY <3>1, <3>2
  <2>2. reader' = reader
    BY <1>5 DEF Main, Join, NeverJoins, OnWelcome, OnObservation, PreviousJoined, OnStop, OwnersStopped,
       SendStopped, DrainStuck, OnEvidence, OnEnd, WorkerFailed, Flush, Exit, playerVars
  <2> QED
    BY <1>2, <1>4, <2>1, <2>2
<1>6. CASE TaskStep
  <2>1. stopped' = stopped
    BY <1>1, <1>6, TaskSteps DEF vars, stopVars
  <2> QED
    BY <1>1, <1>2, <1>6, <2>1, SilentNoTask DEF Ending, StopSaid
<1>7. CASE ServerStep
  <2>1. reader' = reader
    BY <1>1, <1>7, ConnectionStays DEF playerVars
  <2>2. CASE Receive
    <3>1. /\ toServer # <<>> /\ link[Own] = "up" /\ Live
          /\ stopped'[Own] = stopped[Own] \/ (Head(toServer).type = "stopped" /\ adm' = adm)
      BY <1>1, <2>2, ReceiveSeat
    <3>2. ~stopped[Own]
      BY <1>1, <3>1 DEF Ending, StoppedIsLast
    <3>3. Head(toServer).type = "stopped" /\ adm' = adm
      BY <1>2, <3>1, <3>2
    <3>4. Order
      BY <1>3, <3>1 DEF Working, Connected
    <3>5. \A a \in AttemptIds : reader[a] # "none" =>
             Row(a).window # NoWindow /\ Row(a).reader = reader[a]
      BY <3>1, <3>3, <3>4, StoppedSaysAll
    <3> QED
      BY <2>1, <3>3, <3>5 DEF Row
  <2>3. CASE ~Receive
    BY <1>1, <1>2, <1>4, <1>7, <2>1, <2>3, RowsStay
  <2> QED
    BY <2>2, <2>3
<1>8. CASE UNCHANGED sessionVars
  BY <1>2, <1>4, <1>8 DEF sessionVars, vars, stopVars, playerVars
<1> QED
  BY <1>5, <1>6, <1>7, <1>8 DEF SessionNext, ServerStep, TaskStep

\* A frame is added behind the others, or they leave from the front.
LEMMA FittingNext ==
    ASSUME Known, Known', Fitting, [SessionNext]_sessionVars
    PROVE  Fitting'
<1>1. /\ SessionBase /\ Base /\ SessionTypeOK /\ Typed /\ toServer \in Seq(ToServer)
      /\ WireTypes' /\ faults \subseteq faults'
  BY BaseShape, FaultsStay DEF Known, SessionBase, Inv, Base, WireTypes
<1>2. CASE toServer' = toServer
  BY <1>1, <1>2 DEF Fitting, IsAction
<1>3. ASSUME NEW x \in ToServer, Send(x), x.type = "action" => x.fits \/ "wide" \in faults'
      PROVE  Fitting'
  <2>1. toServer' = toServer \/ Longer(toServer, toServer', x)
    BY <1>1, <1>3, SendFacts
  <2> QED
    BY <1>1, <1>2, <1>3, <2>1 DEF Fitting, IsAction, Longer
<1>4. CASE Main
  <2>1. Ready \in ToServer /\ Stopped \in ToServer /\ Ready.type = "ready" /\ Stopped.type = "stopped"
    BY ServerFrames DEF Ready, Stopped, Plain
  <2>2. (OnWelcome => Send(Ready)) /\ (SendStopped => Send(Stopped))
        /\ (OnWelcome \/ SendStopped \/ toServer' = toServer)
    BY <1>1, <1>4, MainQueues
  <2> QED
    BY <1>2, <1>3, <2>1, <2>2
<1>5. CASE Submit
  <2>1. /\ writers # <<>> /\ call.attempt \in AttemptIds \cup {NoAttempt} /\ Window \in Windows
    <3>1. writers # <<>> /\ call \in CallState /\ writers \in Seq(Writer)
      BY <1>1, <1>5, BaseShape DEF Submit, Base, Tasks, WorkerLive
    <3>2. Current \in DOMAIN writers
      BY <3>1 DEF Current
    <3>3. writers[Current] \in Writer
      BY <3>1, <3>2
    <3>4. writers[Current].window \in Windows
      BY <3>3 DEF Writer
    <3>5. call.attempt \in AttemptIds \cup {NoAttempt}
      BY <3>1 DEF CallState
    <3> QED
      BY <3>1, <3>4, <3>5 DEF Window
  <2>2. PICK fits \in BOOLEAN :
           Send(Action(Window, call.attempt, fits)) /\ (fits \/ "wide" \in faults')
    BY <1>5 DEF Submit, Fault
  <2>3. /\ Action(Window, call.attempt, fits) \in ToServer
        /\ Action(Window, call.attempt, fits).fits = fits
    BY <2>1, ServerFrames DEF Action
  <2>4. PICK x \in ToServer : Send(x) /\ (x.fits \/ "wide" \in faults')
    BY <2>2, <2>3
  <2> QED
    BY <1>3, <2>4
<1>6. CASE Policy \/ (Worker /\ ~Submit)
  <2>1. toServer' = toServer
    BY <1>6 DEF Policy, TryAttempt, Degrade, Request, Headers, ResponseEnds, Closed, CloseStuck,
       CloseInterrupted, CallOnly, wireVars, Worker, GotPayload, Deadline, Fallback, Unreadable,
       FinishStuck, WorkerCancelled
  <2> QED
    BY <1>2, <2>1
<1>7. CASE \E i \in DOMAIN writers : WriterSend(i)
  <2>1. PICK i \in DOMAIN writers : WriterSend(i)
    BY <1>7
  <2>2. /\ writers[i] \in Writer /\ writers[i].latest \in Seq(Snapshot) /\ writers[i].latest # <<>>
    BY <1>1, <2>1, BaseShape DEF WriterSend, Writer
  <2>3. Head(writers[i].latest) \in Snapshot /\ writers[i].window \in Windows
    BY <2>2, HeadTailProperties DEF Writer
  <2>4. /\ Started(writers[i].window, Head(writers[i].latest)) \in ToServer
        /\ Started(writers[i].window, Head(writers[i].latest)).type = "attempt_started"
    BY <2>3, ServerFrames DEF Started
  <2>5. PICK x \in ToServer : x.type = "attempt_started" /\ Send(x)
    BY <2>1, <2>4 DEF WriterSend
  <2> QED
    BY <1>3, <2>5
<1>8. CASE Receive
  <2>1. toServer # <<>> /\ toServer' = Tail(toServer)
    BY <1>1, <1>8, ReceiveSeat
  <2>2. \A p \in DOMAIN toServer' : p + 1 \in DOMAIN toServer /\ toServer'[p] = toServer[p + 1]
    BY <1>1, <2>1
  <2> QED
    BY <1>1, <2>2 DEF Fitting, IsAction
<1>9. CASE Otherwise \/ Observe \/ TellStop
  <2>1. toServer' = toServer \/ toServer' = <<>>
    BY <1>1, <1>9, OtherwiseSeat, ObserveSeat, TellStopSeat
  <2> QED
    BY <1>2, <2>1 DEF Fitting
<1>10. CASE Closing
  <2>1. toServer' = <<>>
    BY <1>10 DEF Closing, Refuse, Hangup, Drop, Shutdown
  <2> QED
    BY <2>1 DEF Fitting
<1>11. CASE UNCHANGED sessionVars
  BY <1>2, <1>11 DEF sessionVars, wireVars
<1> QED
  BY <1>4, <1>5, <1>6, <1>7, <1>8, <1>9, <1>10, <1>11, ServerStepKinds DEF SessionNext, ServerStep, TaskStep

\* The server refuses a frame only when something has gone wrong.
LEMMA RefusedNext ==
    ASSUME Known, RefusedOnlyWhenLate, Fitting, Working => Order, [SessionNext]_sessionVars
    PROVE  RefusedOnlyWhenLate'
<1>1. SessionBase /\ Base /\ SessionTypeOK /\ Typed
  BY BaseShape DEF Known, SessionBase, Inv
<1>2. SUFFICES ASSUME Clean', Faithful', refused' PROVE FALSE
  BY DEF RefusedOnlyWhenLate, Clean, Faithful
<1>3. Clean /\ Faithful /\ ~refused
  <2>1. Clean /\ Faithful
    BY <1>1, <1>2, FaultsStay DEF Clean, Faithful
  <2> QED
    BY <2>1 DEF RefusedOnlyWhenLate, Clean, Faithful
<1>4. ~Refuse
  <2>1. SUFFICES ASSUME Refuse PROVE FALSE
    OBVIOUS
  <2>2. Live /\ link[Own] = "up" /\ toServer # <<>> /\ ~Accepts(Head(toServer))
    BY <2>1 DEF Refuse
  <2>3. Order
    BY <1>3, <2>2 DEF Working, Connected
  <2> QED
    BY <1>3, <2>2, <2>3, AcceptsInOrder
<1>5. refused' = refused
  <2>1. CASE Main
    BY <1>1, <2>1, MainQueues
  <2>2. CASE TaskStep
    BY <1>1, <2>2, TaskSteps
  <2>3. CASE Receive \/ Otherwise \/ Observe \/ TellStop
    BY <1>1, <2>3, ReceiveSeat, OtherwiseSeat, ObserveSeat, TellStopSeat
  <2>4. CASE Closing
    BY <1>4, <2>4 DEF Closing, Hangup, Drop, Shutdown
  <2>5. CASE UNCHANGED sessionVars
    BY <2>5 DEF sessionVars, wireVars
  <2> QED
    BY <2>1, <2>2, <2>3, <2>4, <2>5, ServerStepKinds DEF SessionNext, ServerStep, TaskStep
<1> QED
  BY <1>2, <1>3, <1>5

--------------------------------------------------------------------------------
(***************************************************************************)
(* Theorems                                                                *)
(***************************************************************************)
EvidenceSafety ==
    /\ StopSafety
    /\ Working => Order
    /\ Unrecorded
    /\ Recorded
    /\ Fitting
    /\ RefusedOnlyWhenLate

LEMMA EvidenceSafetyInit == SessionInit => EvidenceSafety
<1>1. SUFFICES ASSUME SessionInit PROVE EvidenceSafety
  OBVIOUS
<1>2. StopSafety
  BY <1>1, StopSafetyInit
<1>3. ~Connected(Own) /\ ~stopped[Own] /\ adm[Own] = EmptyAdmission
  BY <1>1, OwnSeat DEF SessionInit, Init, Connected
<1>4. Working => Order
  BY <1>3 DEF Working
<1>5. Unrecorded
  BY <1>3 DEF Unrecorded, Row, EmptyAdmission
<1>6. Fitting
  BY <1>1 DEF SessionInit, Fitting
<1> QED
  BY <1>1, <1>2, <1>3, <1>4, <1>5, <1>6 DEF EvidenceSafety, Recorded, RefusedOnlyWhenLate, SessionInit

LEMMA EvidenceSafetyHolds == SessionSpec => []EvidenceSafety
<1>1. EvidenceSafety /\ [SessionNext]_sessionVars => EvidenceSafety'
  <2>1. SUFFICES ASSUME EvidenceSafety, [SessionNext]_sessionVars PROVE EvidenceSafety'
    OBVIOUS
  <2>2. StopSafety'
    BY <2>1, BaseNext, ReadersNext, GreetingNext, EndingNext, GivingUpNext DEF EvidenceSafety, StopSafety
  <2>3. Known /\ Known'
    BY <2>1, <2>2 DEF EvidenceSafety, StopSafety, Known
  <2>4. Unrecorded /\ Recorded /\ Fitting /\ RefusedOnlyWhenLate /\ (Working => Order)
    BY <2>1 DEF EvidenceSafety
  <2>5. Working' => Order'
    BY <2>1, <2>3, <2>4, OrderNext
  <2>6. Unrecorded'
    BY <2>1, <2>3, <2>4, UnrecordedNext
  <2>7. Recorded'
    BY <2>1, <2>3, <2>4, RecordedNext
  <2>8. Fitting'
    BY <2>1, <2>3, <2>4, FittingNext
  <2>9. RefusedOnlyWhenLate'
    BY <2>1, <2>3, <2>4, RefusedNext
  <2> QED
    BY <2>2, <2>5, <2>6, <2>7, <2>8, <2>9 DEF EvidenceSafety
<1> QED
  BY <1>1, EvidenceSafetyInit, PTL DEF SessionSpec

\* deliver refuses no packet of a player whose windows all ended with an answer and
\* were issued with its profile, whose connection was read before the first of them,
\* whose readers all closed in peace and whose replies all fit the cap of a window:
\* no order of snapshots, actions and stops makes it refuse one.
THEOREM PacketsAccepted == SessionSpec => []RefusedOnlyWhenLate
BY EvidenceSafetyHolds, PTL DEF EvidenceSafety

\* When results are public the server has, of each attempt that the player began,
\* its final snapshot: _write takes one of each attempt, the frames come in order,
\* and Stopped comes after all of them.
THEOREM EvidenceKept == SessionSpec => []EvidenceComplete
<1>1. EvidenceSafety => EvidenceComplete
  <2>1. SUFFICES ASSUME EvidenceSafety, phase = "published", stopMessage[Own],
                        faults \cap {"late", "interrupted"} = {}
                 PROVE  \A a \in AttemptIds : reader[a] # "none" =>
                           /\ adm[Own].attempts[a].window # NoWindow
                           /\ adm[Own].attempts[a].reader = reader[a]
    BY DEF EvidenceComplete
  <2>2. PublishedJoined /\ Registering /\ Recorded
    BY <2>1 DEF EvidenceSafety, StopSafety, SessionBase, StopInv, Greeting
  <2>3. stopped[Own]
    BY <2>1, <2>2, OwnSeat DEF PublishedJoined
  <2>4. Clean
    BY <2>1, <2>2, <2>3 DEF Registering, Clean
  <2> QED
    BY <2>2, <2>3, <2>4 DEF Recorded, Row
<1> QED
  BY <1>1, EvidenceSafetyHolds, PTL
================================================================================
