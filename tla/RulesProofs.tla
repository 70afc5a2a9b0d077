------------------------------- MODULE RulesProofs -------------------------------
(***************************************************************************)
(* Theorems about the pure functions, for inputs of any size.              *)
(***************************************************************************)
EXTENDS Rules, FiniteSetTheorems, SequenceTheorems, WellFoundedInduction, NaturalsInduction, TLAPS

--------------------------------------------------------------------------------
(***************************************************************************)
(* Configuration.                                                          *)
(***************************************************************************)
Numeric == Conf!Positive \cup Conf!NonNegative

\* The names of the fields are different, and those that stay private too.
LEMMA FieldNames ==
    /\ "num_agents" \notin Conf!Fields /\ "deck" \in Conf!Fields
    /\ Conf!KnownKeys = Conf!Fields \cup {"num_agents"}
    /\ Conf!Fields = Conf!Lists \cup {"deck"} \cup Conf!Integral \cup Numeric
    /\ Conf!Private \subseteq Conf!Lists
    /\ Conf!Lists \cap Numeric = {} /\ Conf!Integral \cap Numeric = {} /\ "deck" \notin Numeric
    /\ "players" \in Conf!Lists \ Conf!Private /\ "tokens" \in Conf!Private
    /\ Conf!Lists \subseteq Conf!Fields
BY DEF Conf!Fields, Conf!KnownKeys, Conf!Lists, Conf!Private, Conf!Integral, Numeric,
   Conf!Positive, Conf!NonNegative

\* What is accepted is accepted field by field.
LEMMA FieldsAccepted ==
    ASSUME NEW data, Conf!Accepted(data)
    PROVE  /\ DOMAIN data \subseteq Conf!KnownKeys
           /\ \A k \in Conf!Lists : Conf!Get(data, k) = Conf!Both
BY DEF Conf!Accepted, Conf!Known

\* The configuration made of what is accepted.
LEMMA FieldsMade ==
    ASSUME NEW data, Conf!Accepted(data), NEW config, config = Conf!FromDict(data)
    PROVE  /\ DOMAIN config = Conf!Fields
           /\ \A k \in Numeric : config[k] = <<"float", Conf!Get(data, k)[2]>>
           /\ \A k \in Conf!Fields \ Numeric : config[k] = Conf!Get(data, k)
           /\ \A k \in Conf!Lists : config[k] = Conf!Both
BY FieldNames, FieldsAccepted DEF Conf!FromDict, Numeric

\* The public form with the private fields makes the same configuration.
LEMMA MadeAgain ==
    ASSUME NEW data, Conf!Accepted(data), NEW config, config = Conf!FromDict(data),
           NEW again, DOMAIN again = Conf!KnownKeys,
           again["num_agents"] = <<"int", Len(config["players"][2])>>,
           \A k \in Conf!Fields : again[k] = config[k]
    PROVE  Conf!Accepted(again) /\ Conf!FromDict(again) = config
<1>0. /\ DOMAIN config = Conf!Fields
      /\ \A k \in Numeric : config[k] = <<"float", Conf!Get(data, k)[2]>>
      /\ \A k \in Conf!Fields \ Numeric : config[k] = Conf!Get(data, k)
      /\ \A k \in Conf!Lists : config[k] = Conf!Both
  BY FieldsMade
<1>1. again["num_agents"] = <<"int", Conf!Seats>>
  BY <1>0, FieldNames DEF Conf!Both, Conf!Seats
<1>2. \A k \in Conf!Fields : Conf!Get(again, k) = config[k]
  BY FieldNames DEF Conf!Get
<1>3. Conf!Get(again, "num_agents") = <<"int", Conf!Seats>>
  BY <1>1, FieldNames DEF Conf!Get
<1>4. \A k \in Conf!Positive : Conf!NumberField(Conf!Get(again, k), TRUE)
  <2> SUFFICES ASSUME NEW k \in Conf!Positive PROVE Conf!NumberField(Conf!Get(again, k), TRUE)
    OBVIOUS
  <2>1. Conf!NumberField(Conf!Get(data, k), TRUE)
    BY DEF Conf!Accepted
  <2>2. Conf!Get(again, k) = <<"float", Conf!Get(data, k)[2]>>
    <3>1. k \in Numeric /\ k \in Conf!Fields
      BY FieldNames DEF Numeric
    <3> QED
      BY <1>0, <1>2, <3>1
  <2> QED
    BY <2>1, <2>2 DEF Conf!NumberField
<1>5. \A k \in Conf!NonNegative : Conf!NumberField(Conf!Get(again, k), FALSE)
  <2> SUFFICES ASSUME NEW k \in Conf!NonNegative PROVE Conf!NumberField(Conf!Get(again, k), FALSE)
    OBVIOUS
  <2>1. Conf!NumberField(Conf!Get(data, k), FALSE)
    BY DEF Conf!Accepted
  <2>2. Conf!Get(again, k) = <<"float", Conf!Get(data, k)[2]>>
    <3>1. k \in Numeric /\ k \in Conf!Fields
      BY FieldNames DEF Numeric
    <3> QED
      BY <1>0, <1>2, <3>1
  <2> QED
    BY <2>1, <2>2 DEF Conf!NumberField
<1>6. \A k \in Conf!Integral \cup {"deck"} : Conf!Get(again, k) = Conf!Get(data, k)
  BY <1>0, <1>2, FieldNames
<1>7. \A k \in Conf!Lists : Conf!Get(again, k) = Conf!Both
  BY <1>0, <1>2, FieldNames
<1>8. Conf!Accepted(again)
  <2>1. Conf!Known(again) /\ {"players", "tokens"} \subseteq DOMAIN again
    BY FieldNames DEF Conf!Known
  <2>2. Conf!IntField(Conf!Get(again, "num_agents")) /\ Conf!Get(again, "num_agents")[2] = Conf!Seats
    BY <1>3 DEF Conf!IntField
  <2>3. /\ Conf!Get(again, "deck")[1] = "text"
        /\ \A k \in Conf!Integral : /\ Conf!IntField(Conf!Get(again, k))
                                    /\ Conf!Get(again, k)[2] \in Conf!Range(k)
    BY <1>6 DEF Conf!Accepted
  <2> QED
    BY <1>4, <1>5, <1>7, <2>1, <2>2, <2>3 DEF Conf!Accepted
<1>9. Conf!FromDict(again) = config
  <2>1. \A k \in Conf!Fields : Conf!FromDict(again)[k] = config[k]
    <3> SUFFICES ASSUME NEW k \in Conf!Fields PROVE Conf!FromDict(again)[k] = config[k]
      OBVIOUS
    <3>1. CASE k \in Numeric
      <4>1. Conf!FromDict(again)[k] = <<"float", Conf!Get(again, k)[2]>>
        BY <3>1 DEF Conf!FromDict, Numeric
      <4> QED
        BY <1>0, <1>2, <3>1, <4>1
    <3>2. CASE k \notin Numeric
      <4>1. Conf!FromDict(again)[k] = Conf!Get(again, k)
        BY <3>2 DEF Conf!FromDict, Numeric
      <4> QED
        BY <1>2, <4>1
    <3> QED
      BY <3>1, <3>2
  <2>2. /\ Conf!FromDict(again) = [k \in Conf!Fields |-> Conf!FromDict(again)[k]]
        /\ config = [k \in Conf!Fields |-> config[k]]
    BY DEF Conf!FromDict
  <2> QED
    BY <2>1, <2>2
<1> QED
  BY <1>8, <1>9

\* A configuration that is accepted loses none of its fields, and its public form
\* is enough, with the private fields, to make it again: for every document.
THEOREM ConfigSurvives == Spec => []ConfigRoundTrips
<1>1. ASSUME NEW data, Conf!Accepted(data),
             NEW config, config = Conf!FromDict(data),
             NEW public, public = Conf!ToDict(config),
             NEW again, again = [k \in DOMAIN public \cup Conf!Private |->
                                    IF k \in Conf!Private THEN config[k] ELSE public[k]]
      PROVE  /\ DOMAIN data \subseteq DOMAIN config \cup {"num_agents"}
             /\ \A k \in DOMAIN data \ {"num_agents", "deck"} : config[k][2] = data[k][2]
             /\ DOMAIN public \cap Conf!Private = {}
             /\ Conf!Accepted(again) /\ Conf!FromDict(again) = config
  <2>1. DOMAIN data \subseteq DOMAIN config \cup {"num_agents"}
    BY <1>1, FieldNames, FieldsAccepted, FieldsMade
  <2>2. \A k \in DOMAIN data \ {"num_agents", "deck"} : config[k][2] = data[k][2]
    <3> SUFFICES ASSUME NEW k \in DOMAIN data, k # "num_agents" PROVE config[k][2] = data[k][2]
      OBVIOUS
    <3>1. k \in Conf!Fields /\ Conf!Get(data, k) = data[k]
      BY <1>1, FieldNames, FieldsAccepted DEF Conf!Get
    <3>2. CASE k \in Numeric
      BY <1>1, <3>1, <3>2, FieldsMade
    <3>3. CASE k \notin Numeric
      BY <1>1, <3>1, <3>3, FieldsMade
    <3> QED
      BY <3>2, <3>3
  <2>3. /\ DOMAIN public = Conf!KnownKeys \ Conf!Private
        /\ public["num_agents"] = <<"int", Len(config["players"][2])>>
        /\ \A k \in Conf!Fields \ Conf!Private : public[k] = config[k]
    BY <1>1, FieldNames DEF Conf!ToDict
  <2>4. /\ DOMAIN again = Conf!KnownKeys
        /\ again["num_agents"] = <<"int", Len(config["players"][2])>>
        /\ \A k \in Conf!Fields : again[k] = config[k]
    BY <1>1, <2>3, FieldNames
  <2>5. Conf!Accepted(data) /\ config = Conf!FromDict(data)
    BY <1>1
  <2>6. Conf!Accepted(again) /\ Conf!FromDict(again) = config
    BY <2>4, <2>5, MadeAgain
  <2> QED
    BY <2>1, <2>2, <2>3, <2>6
<1>2. ConfigRoundTrips
  BY <1>1 DEF ConfigRoundTrips
<1> QED
  BY <1>2, PTL

--------------------------------------------------------------------------------
(***************************************************************************)
(* Induction over positions, and the functions that it defines.            *)
(***************************************************************************)
LEMMA LeastNumber ==
    ASSUME NEW T \in SUBSET Nat, T # {}
    PROVE  \E m \in T : \A x \in T : m <= x
<1> DEFINE R == OpToRel(<, Nat)
<1>1. IsWellFoundedOn(R, Nat)
  BY NatLessThanWellFounded
<1>2. \A x, y \in Nat : <<x, y>> \in R <=> x < y
  BY DEF OpToRel
<1> HIDE DEF R
<1>3. PICK m \in T : \A x \in T : ~(<<x, m>> \in R)
  BY <1>1, WFMin
<1>4. ASSUME NEW x \in T PROVE m <= x
  <2>1. m \in Nat /\ x \in Nat /\ ~(<<x, m>> \in R)
    BY <1>3
  <2>2. ~(x < m)
    BY <1>2, <2>1
  <2> QED
    BY <2>1, <2>2
<1> QED
  BY <1>4

LEMMA SmallestOf ==
    ASSUME NEW T \in SUBSET Nat, T # {}
    PROVE  Min(T) \in T /\ \A x \in T : Min(T) <= x
BY LeastNumber DEF Min

LEMMA LargestOf ==
    ASSUME NEW N \in Nat, NEW T \in SUBSET (0..N), T # {}
    PROVE  Max(T) \in T /\ \A x \in T : x <= Max(T)
<1> DEFINE below == {N - x : x \in T}
<1>1. below \in SUBSET Nat /\ below # {}
  OBVIOUS
<1>2. PICK m \in below : \A x \in below : m <= x
  <2> HIDE DEF below
  <2> QED
    BY <1>1, LeastNumber
<1>3. PICK top \in T : m = N - top
  BY <1>2
<1>4. ASSUME NEW x \in T PROVE top >= x
  <2>1. N - x \in below
    OBVIOUS
  <2>2. m <= N - x
    BY <1>2, <2>1
  <2> QED
    BY <1>3, <2>2
<1>5. \E y \in T : \A x \in T : y >= x
  BY <1>4
<1> HIDE DEF below
<1>6. Max(T) \in T /\ \A x \in T : Max(T) >= x
  BY <1>5 DEF Max
<1>7. \A x \in T : x \in Nat
  OBVIOUS
<1> QED
  BY <1>6, <1>7

\* A set that holds 0, and with each number the next one, holds all up to N.
LEMMA UpToN ==
    ASSUME NEW N \in Nat, NEW S, 0 \in S,
           \A i \in 1..N : i - 1 \in S => i \in S
    PROVE  \A i \in 0..N : i \in S
<1> DEFINE T == {i \in 0..N : i \notin S}
<1>1. SUFFICES ASSUME T # {} PROVE FALSE
  OBVIOUS
<1>2. PICK m \in T : \A x \in T : m <= x
  <2>1. T \in SUBSET Nat
    OBVIOUS
  <2> HIDE DEF T
  <2> QED
    BY <1>1, <2>1, LeastNumber
<1>3. m \in 1..N /\ m - 1 \in 0..N /\ ~(m <= m - 1)
  BY <1>2
<1> QED
  BY <1>2, <1>3

\* What is computed from one position to the next is a function of the position.
Folds(F, A, X) == F \in [A \X X -> A]
Inputs(xs, N, X) == xs \in [1..N -> X]
Iterates(f, F, A, base, N, xs) ==
    /\ f \in [0..N -> A]
    /\ f[0] = base
    /\ \A i \in 1..N : f[i] = F[<<f[i - 1], xs[i]>>]

LEMMA Iterated ==
    ASSUME NEW A, NEW X, NEW F, Folds(F, A, X), NEW base \in A,
           NEW N \in Nat, NEW xs, Inputs(xs, N, X)
    PROVE  \E f : Iterates(f, F, A, base, N, xs)
<1> USE DEF Folds, Inputs, Iterates
<1> DEFINE To(n, f) == /\ f \in [0..n -> A] /\ f[0] = base
                       /\ \A i \in 1..n : f[i] = F[<<f[i - 1], xs[i]>>]
           S == {n \in 0..N : \E f : To(n, f)}
<1>1. 0 \in S
  <2>1. To(0, [i \in 0..0 |-> base])
    OBVIOUS
  <2>2. \E f : To(0, f)
    BY <2>1, Zenon
  <2> HIDE DEF To
  <2> QED
    BY <2>2
<1>2. ASSUME NEW n \in 1..N, n - 1 \in S PROVE n \in S
  <2>1. PICK f : To(n - 1, f)
    BY <1>2
  <2> DEFINE g == [i \in 0..n |-> IF i = n THEN F[<<f[n - 1], xs[n]>>] ELSE f[i]]
  <2>2. n \in Nat /\ n >= 1 /\ n - 1 \in 0..(n - 1) /\ xs[n] \in X /\ f[n - 1] \in A
    BY <2>1
  <2>3. F[<<f[n - 1], xs[n]>>] \in A
    BY <2>2
  <2>4. g \in [0..n -> A]
    <3> SUFFICES ASSUME NEW i \in 0..n PROVE g[i] \in A
      OBVIOUS
    <3>1. CASE i = n
      BY <2>3, <3>1
    <3>2. CASE i # n
      <4>1. i \in 0..(n - 1)
        BY <2>2, <3>2
      <4> QED
        BY <2>1, <3>2, <4>1
    <3> QED
      BY <3>1, <3>2
  <2>5. g[0] = base
    BY <2>1, <2>2
  <2>6. ASSUME NEW i \in 1..n PROVE g[i] = F[<<g[i - 1], xs[i]>>]
    <3>1. i \in 0..n /\ i - 1 \in 0..n /\ i - 1 # n /\ g[i - 1] = f[i - 1]
      BY <2>2
    <3>2. CASE i = n
      BY <3>1, <3>2
    <3>3. CASE i # n
      <4>1. i \in 1..(n - 1)
        BY <2>2, <3>3
      <4>2. f[i] = F[<<f[i - 1], xs[i]>>]
        BY <2>1, <4>1
      <4>3. g[i] = f[i]
        BY <3>1, <3>3
      <4> QED
        BY <3>1, <4>2, <4>3
    <3> QED
      BY <3>2, <3>3
  <2>7. To(n, g)
    <3> HIDE DEF g
    <3> QED
      BY <2>4, <2>5, <2>6
  <2> HIDE DEF g, To
  <2>8. (\E h : To(n, h)) /\ n \in 0..N
    BY <2>7
  <2> QED
    BY <2>8
<1>3. N \in S
  <2>1. \A n \in 1..N : n - 1 \in S => n \in S
    BY <1>2
  <2> HIDE DEF S
  <2>2. \A n \in 0..N : n \in S
    BY <1>1, <2>1, UpToN
  <2>3. N \in 0..N
    OBVIOUS
  <2> QED
    BY <2>2, <2>3
<1> QED
  BY <1>3

\* The first elements of a sequence.
LEMMA FirstOf ==
    ASSUME NEW X, NEW s \in Seq(X), NEW n \in 0..Len(s)
    PROVE  /\ SubSeq(s, 1, n) \in Seq(X) /\ Len(SubSeq(s, 1, n)) = n
           /\ \A i \in 1..n : SubSeq(s, 1, n)[i] = s[i]
<1>1. n \in Int /\ \A i \in 1..n : s[i] \in X
  OBVIOUS
<1>2. /\ SubSeq(s, 1, n) \in Seq(X)
      /\ Len(SubSeq(s, 1, n)) = IF 1 <= n THEN n - 1 + 1 ELSE 0
      /\ \A i \in 1..(n - 1 + 1) : SubSeq(s, 1, n)[i] = s[1 + i - 1]
  BY <1>1, SubSeqProperties
<1> QED
  BY <1>1, <1>2

--------------------------------------------------------------------------------
(***************************************************************************)
(* History: an entry is cut.                                               *)
(***************************************************************************)
Fair(e, y, t) ==
    /\ y \in 0..Len(e.yours) /\ t \in 0..Len(e.theirs)
    /\ y < Len(e.yours) => t <= y
    /\ t < Len(e.theirs) => y <= t + 1

\* One of the first tests is taken away.
LEMMA OneLess ==
    ASSUME NEW s \in Seq(Nat), NEW n \in 1..Len(s)
    PROVE  Front(SubSeq(s, 1, n)) = SubSeq(s, 1, n - 1)
<1>1. /\ SubSeq(s, 1, n) \in Seq(Nat) /\ Len(SubSeq(s, 1, n)) = n
      /\ \A i \in 1..n : SubSeq(s, 1, n)[i] = s[i]
  BY FirstOf
<1>2. n - 1 \in 0..Len(SubSeq(s, 1, n)) /\ n - 1 \in 0..Len(s)
  BY <1>1
<1>3. /\ SubSeq(SubSeq(s, 1, n), 1, n - 1) \in Seq(Nat)
      /\ Len(SubSeq(SubSeq(s, 1, n), 1, n - 1)) = n - 1
      /\ \A i \in 1..(n - 1) : SubSeq(SubSeq(s, 1, n), 1, n - 1)[i] = SubSeq(s, 1, n)[i]
  BY <1>1, <1>2, FirstOf
<1>4. /\ SubSeq(s, 1, n - 1) \in Seq(Nat) /\ Len(SubSeq(s, 1, n - 1)) = n - 1
      /\ \A i \in 1..(n - 1) : SubSeq(s, 1, n - 1)[i] = s[i]
  BY <1>2, FirstOf
<1>5. \A i \in 1..(n - 1) : SubSeq(SubSeq(s, 1, n), 1, n - 1)[i] = SubSeq(s, 1, n - 1)[i]
  BY <1>1, <1>3, <1>4
<1>6. SubSeq(SubSeq(s, 1, n), 1, n - 1) = SubSeq(s, 1, n - 1)
  BY <1>3, <1>4, <1>5, SeqEqual
<1> QED
  BY <1>1, <1>6 DEF Front

LEMMA CutType ==
    ASSUME NEW e \in HistoryEntries, NEW y \in 0..Len(e.yours), NEW t \in 0..Len(e.theirs)
    PROVE  /\ Cut(e, y, t) \in HistoryEntries
           /\ Cut(e, y, t).yours = SubSeq(e.yours, 1, y) /\ Len(Cut(e, y, t).yours) = y
           /\ Cut(e, y, t).theirs = SubSeq(e.theirs, 1, t) /\ Len(Cut(e, y, t).theirs) = t
<1>1. e.yours \in Seq(Nat) /\ e.theirs \in Seq(Nat)
  BY DEF HistoryEntries
<1>2. /\ SubSeq(e.yours, 1, y) \in Seq(Nat) /\ Len(SubSeq(e.yours, 1, y)) = y
      /\ SubSeq(e.theirs, 1, t) \in Seq(Nat) /\ Len(SubSeq(e.theirs, 1, t)) = t
  BY <1>1, FirstOf
<1> QED
  BY <1>2 DEF Cut, HistoryEntries

\* Nothing is cut.
LEMMA CutNothing ==
    ASSUME NEW e \in HistoryEntries
    PROVE  /\ e = Cut(e, Len(e.yours), Len(e.theirs))
           /\ Fair(e, Len(e.yours), Len(e.theirs))
<1>1. e.yours \in Seq(Nat) /\ e.theirs \in Seq(Nat)
  BY DEF HistoryEntries
<1>2. SubSeq(e.yours, 1, Len(e.yours)) = e.yours /\ SubSeq(e.theirs, 1, Len(e.theirs)) = e.theirs
  BY <1>1, SubSeqFull
<1>3. [e EXCEPT !.yours = e.yours, !.theirs = e.theirs] = e
  BY DEF HistoryEntries
<1>4. Cut(e, Len(e.yours), Len(e.theirs)) = [e EXCEPT !.yours = e.yours, !.theirs = e.theirs]
  BY <1>2 DEF Cut
<1> QED
  BY <1>1, <1>3, <1>4 DEF Fair

\* A pop takes one more test, and stays fair.
LEMMA PopCuts ==
    ASSUME NEW e \in HistoryEntries, NEW y, NEW t, Fair(e, y, t), y + t > 0
    PROVE  \E u, v : Pop(Cut(e, y, t)) = Cut(e, u, v) /\ Fair(e, u, v) /\ u + v = y + t - 1
<1>1. e.yours \in Seq(Nat) /\ e.theirs \in Seq(Nat) /\ Len(e.yours) \in Nat /\ Len(e.theirs) \in Nat
  BY DEF HistoryEntries
<1>2. y \in 0..Len(e.yours) /\ t \in 0..Len(e.theirs) /\ y \in Nat /\ t \in Nat
  BY <1>1 DEF Fair
<1>3. /\ Cut(e, y, t) \in HistoryEntries
      /\ Cut(e, y, t).yours = SubSeq(e.yours, 1, y) /\ Len(Cut(e, y, t).yours) = y
      /\ Cut(e, y, t).theirs = SubSeq(e.theirs, 1, t) /\ Len(Cut(e, y, t).theirs) = t
  BY <1>2, CutType
<1>4. CASE t >= y
  <2>1. t \in 1..Len(e.theirs)
    BY <1>2, <1>4
  <2>2. Front(SubSeq(e.theirs, 1, t)) = SubSeq(e.theirs, 1, t - 1)
    BY <1>1, <2>1, OneLess
  <2>3. Pop(Cut(e, y, t)) = [Cut(e, y, t) EXCEPT !.theirs = SubSeq(e.theirs, 1, t - 1)]
    BY <1>3, <1>4, <2>2 DEF Pop
  <2>4. Pop(Cut(e, y, t)) = Cut(e, y, t - 1)
    BY <2>3 DEF Cut, HistoryEntries
  <2>5. Fair(e, y, t - 1) /\ y + (t - 1) = y + t - 1
    BY <1>1, <1>2, <1>4, <2>1 DEF Fair
  <2> QED
    BY <2>4, <2>5
<1>5. CASE ~(t >= y)
  <2>1. y \in 1..Len(e.yours)
    BY <1>2, <1>5
  <2>2. Front(SubSeq(e.yours, 1, y)) = SubSeq(e.yours, 1, y - 1)
    BY <1>1, <2>1, OneLess
  <2>3. Pop(Cut(e, y, t)) = [Cut(e, y, t) EXCEPT !.yours = SubSeq(e.yours, 1, y - 1)]
    BY <1>3, <1>5, <2>2 DEF Pop
  <2>4. Pop(Cut(e, y, t)) = Cut(e, y - 1, t)
    BY <2>3 DEF Cut, HistoryEntries
  <2>5. Fair(e, y - 1, t) /\ (y - 1) + t = y + t - 1
    BY <1>1, <1>2, <1>5, <2>1 DEF Fair
  <2> QED
    BY <2>4, <2>5
<1> QED
  BY <1>4, <1>5

LEMMA FairSizes ==
    ASSUME NEW e \in HistoryEntries, NEW y, NEW t, Fair(e, y, t)
    PROVE  y \in Nat /\ t \in Nat /\ y \in 0..Len(e.yours) /\ t \in 0..Len(e.theirs)
BY DEF Fair, HistoryEntries

\* There is one fair cut of each size.
LEMMA OneFairCut ==
    ASSUME NEW e \in HistoryEntries, NEW y, NEW t, NEW u, NEW v,
           Fair(e, y, t), Fair(e, u, v), y + t = u + v
    PROVE  y = u /\ t = v
<1>1. Len(e.yours) \in Nat /\ Len(e.theirs) \in Nat
  BY DEF HistoryEntries
<1> QED
  BY <1>1 DEF Fair

LEMMA PopType ==
    ASSUME NEW e \in HistoryEntries
    PROVE  Pop(e) \in HistoryEntries
<1>1. ASSUME NEW s \in Seq(Nat) PROVE Front(s) \in Seq(Nat)
  <2>1. Len(s) - 1 \in Int /\ 1 \in Int /\ \A i \in 1..(Len(s) - 1) : s[i] \in Nat
    OBVIOUS
  <2>2. SubSeq(s, 1, Len(s) - 1) \in Seq(Nat)
    BY <2>1, SubSeqProperties
  <2> QED
    BY <2>2 DEF Front
<1>2. e.yours \in Seq(Nat) /\ e.theirs \in Seq(Nat)
  BY DEF HistoryEntries
<1>3. Front(e.yours) \in Seq(Nat) /\ Front(e.theirs) \in Seq(Nat)
  BY <1>1, <1>2
<1> QED
  BY <1>3 DEF Pop, HistoryEntries

\* Trimmed pops until the entry fits, or nothing is left.
LEMMA Popping ==
    ASSUME NEW e \in HistoryEntries
    PROVE  \E after :
             /\ after[0] = e
             /\ \A n \in 1..TestsLeft(e) : after[n] = Pop(after[n - 1])
             /\ Trimmed(e) = after[Min({n \in 0..TestsLeft(e) : Fits(after[n])} \cup {TestsLeft(e)})]
<1> DEFINE all == TestsLeft(e)
           Is(g) == g = [n \in 0..all |-> IF n = 0 THEN e ELSE Pop(g[n - 1])]
           after == CHOOSE g : Is(g)
<1>1. Trimmed(e) = after[Min({n \in 0..all : Fits(after[n])} \cup {all})]
  BY Zenon DEF Trimmed, TestsLeft, Fits
<1>2. all \in Nat
  BY DEF TestsLeft, HistoryEntries
<1> HIDE DEF all
<1>3. \E g : Is(g)
  <2> DEFINE X == 1..all
             F == [p \in HistoryEntries \X X |-> Pop(p[1])]
             xs == [i \in 1..all |-> i]
  <2>1. Folds(F, HistoryEntries, X)
    BY PopType DEF Folds
  <2>2. \A x \in HistoryEntries, i \in X : F[<<x, i>>] = Pop(x)
    OBVIOUS
  <2>3. Inputs(xs, all, X)
    BY DEF Inputs
  <2> HIDE DEF F, xs, X
  <2>4. PICK f : Iterates(f, F, HistoryEntries, e, all, xs)
    BY <1>2, <2>1, <2>3, Iterated
  <2>5. ASSUME NEW i \in 1..all PROVE f[i] = Pop(f[i - 1])
    <3>1. f[i - 1] \in HistoryEntries /\ xs[i] \in X
      BY <1>2, <2>3, <2>4 DEF Iterates, Inputs
    <3> QED
      BY <2>2, <2>4, <3>1 DEF Iterates
  <2>6. Is(f)
    BY <1>2, <2>4, <2>5 DEF Iterates
  <2> QED
    BY <2>6
<1>4. Is(after)
  BY <1>3, Zenon
<1> HIDE DEF after
<1>5. after[0] = e /\ \A n \in 1..all : after[n] = Pop(after[n - 1])
  BY <1>2, <1>4
<1> QED
  BY <1>1, <1>5 DEF all

LEMMA PoppedAreCuts ==
    ASSUME NEW e \in HistoryEntries, NEW after, after[0] = e,
           \A n \in 1..TestsLeft(e) : after[n] = Pop(after[n - 1])
    PROVE  \A n \in 0..TestsLeft(e) : \E y, t :
              after[n] = Cut(e, y, t) /\ Fair(e, y, t) /\ y + t = TestsLeft(e) - n
<1> DEFINE Good(n) == \E y, t :
              after[n] = Cut(e, y, t) /\ Fair(e, y, t) /\ y + t = TestsLeft(e) - n
           S == {n \in 0..TestsLeft(e) : Good(n)}
<1>1. TestsLeft(e) \in Nat
  BY DEF TestsLeft, HistoryEntries
<1>2. Good(0)
  <2>1. Len(e.yours) + Len(e.theirs) = TestsLeft(e) - 0
    BY <1>1 DEF TestsLeft
  <2> QED
    BY <2>1, CutNothing
<1>3. ASSUME NEW n \in 1..TestsLeft(e), Good(n - 1) PROVE Good(n)
  <2>1. PICK y, t : after[n - 1] = Cut(e, y, t) /\ Fair(e, y, t) /\ y + t = TestsLeft(e) - (n - 1)
    BY <1>3
  <2>2. y + t > 0
    BY <1>1, <2>1
  <2>3. PICK u, v : Pop(Cut(e, y, t)) = Cut(e, u, v) /\ Fair(e, u, v) /\ u + v = y + t - 1
    BY <2>1, <2>2, PopCuts
  <2>4. u + v = TestsLeft(e) - n
    <3>1. y \in Nat /\ t \in Nat /\ u \in Nat /\ v \in Nat
      BY <2>1, <2>3, FairSizes
    <3> QED
      BY <1>1, <2>1, <2>3, <3>1
  <2>5. after[n] = Cut(e, u, v)
    BY <2>1, <2>3
  <2> QED
    BY <2>3, <2>4, <2>5
<1> HIDE DEF Good
<1>4. 0 \in S /\ \A n \in 1..TestsLeft(e) : n - 1 \in S => n \in S
  BY <1>1, <1>2, <1>3
<1> HIDE DEF S
<1>5. \A n \in 0..TestsLeft(e) : n \in S
  BY <1>1, <1>4, UpToN
<1> QED
  BY <1>5 DEF S, Good

\* A fair cut is the one that Pop comes to at its size.
LEMMA FairIsFair ==
    ASSUME NEW e \in HistoryEntries, NEW y \in 0..Len(e.yours), NEW t \in 0..Len(e.theirs)
    PROVE  FairCut(e, Cut(e, y, t)) <=> Fair(e, y, t)
BY CutType DEF FairCut, Fair

LEMMA FairCutsOf ==
    ASSUME NEW e \in HistoryEntries
    PROVE  \A c : c \in FairCuts(e) <=> \E u, v : c = Cut(e, u, v) /\ Fair(e, u, v) /\ Fits(c)
<1>1. \A u \in 0..Len(e.yours), v \in 0..Len(e.theirs) : FairCut(e, Cut(e, u, v)) <=> Fair(e, u, v)
  BY FairIsFair
<1>2. \A u, v : Fair(e, u, v) => u \in 0..Len(e.yours) /\ v \in 0..Len(e.theirs)
  BY Zenon DEF Fair
<1>3. ASSUME NEW c \in FairCuts(e)
      PROVE  \E u, v : c = Cut(e, u, v) /\ Fair(e, u, v) /\ Fits(c)
  <2>1. PICK u \in 0..Len(e.yours), v \in 0..Len(e.theirs) : c = Cut(e, u, v)
    BY <1>3 DEF FairCuts
  <2>2. FairCut(e, c) /\ Fits(c)
    BY <1>3 DEF FairCuts
  <2> QED
    BY <1>1, <2>1, <2>2
<1>4. ASSUME NEW c, NEW u, NEW v, c = Cut(e, u, v), Fair(e, u, v), Fits(c)
      PROVE  c \in FairCuts(e)
  <2>1. u \in 0..Len(e.yours) /\ v \in 0..Len(e.theirs)
    BY <1>2, <1>4
  <2>2. FairCut(e, c)
    BY <1>1, <1>4, <2>1
  <2>3. c \in {Cut(e, y, t) : y \in 0..Len(e.yours), t \in 0..Len(e.theirs)}
    BY <1>4, <2>1
  <2> QED
    BY <1>4, <2>2, <2>3 DEF FairCuts
<1> QED
  BY <1>3, <1>4, Zenon

LEMMA CutSize ==
    ASSUME NEW e \in HistoryEntries, NEW y, NEW t, Fair(e, y, t)
    PROVE  /\ Cut(e, y, t) \in HistoryEntries /\ TestsLeft(Cut(e, y, t)) = y + t
           /\ y + t \in 0..TestsLeft(e)
<1>1. /\ y \in Nat /\ t \in Nat /\ y \in 0..Len(e.yours) /\ t \in 0..Len(e.theirs)
  BY FairSizes
<1>2. Len(e.yours) \in Nat /\ Len(e.theirs) \in Nat
  BY DEF HistoryEntries
<1>3. /\ Cut(e, y, t) \in HistoryEntries
      /\ Len(Cut(e, y, t).yours) = y /\ Len(Cut(e, y, t).theirs) = t
  BY <1>1, CutType
<1>4. PICK a \in Nat, b \in Nat : a = Len(e.yours) /\ b = Len(e.theirs)
  BY <1>2
<1>5. y + t \in 0..(a + b)
  <2>1. y \in 0..a /\ t \in 0..b
    BY <1>1, <1>4
  <2> HIDE <1>1
  <2> QED
    BY <2>1
<1>6. TestsLeft(Cut(e, y, t)) = y + t
  BY <1>3 DEF TestsLeft
<1> QED
  BY <1>3, <1>4, <1>5, <1>6 DEF TestsLeft

\* An entry is cut as little as possible.
LEMMA TrimmedIsBest ==
    ASSUME NEW e \in HistoryEntries
    PROVE  BestCut(e, Trimmed(e)) /\ Trimmed(e) \in HistoryEntries
<1>1. PICK after :
             /\ after[0] = e
             /\ \A n \in 1..TestsLeft(e) : after[n] = Pop(after[n - 1])
             /\ Trimmed(e) = after[Min({n \in 0..TestsLeft(e) : Fits(after[n])} \cup {TestsLeft(e)})]
  BY Popping
<1>2. PICK all \in Nat : all = TestsLeft(e)
  BY DEF TestsLeft, HistoryEntries
<1>3. ASSUME NEW n \in 0..all
      PROVE  \E y, t : after[n] = Cut(e, y, t) /\ Fair(e, y, t) /\ y + t = all - n
  BY <1>1, <1>2, PoppedAreCuts
<1>4. PICK T : T = {n \in 0..all : Fits(after[n])} \cup {all}
  OBVIOUS
<1>5. PICK m : m = Min(T)
  OBVIOUS
<1>6. Trimmed(e) = after[m]
  BY <1>1, <1>2, <1>4, <1>5
<1>7. m \in T /\ \A n \in T : m <= n
  <2>1. T \in SUBSET Nat /\ all \in T
    BY <1>4
  <2> QED
    BY <1>5, <2>1, SmallestOf
<1>8. m \in 0..all /\ m \in Nat /\ (Fits(after[m]) \/ m = all)
  BY <1>4, <1>7
<1>9. \A n \in 0..all : Fits(after[n]) => m <= n
  BY <1>4, <1>7
<1>10. PICK y, t : after[m] = Cut(e, y, t) /\ Fair(e, y, t) /\ y + t = all - m
  BY <1>3, <1>8
<1>11. after[m] \in HistoryEntries /\ TestsLeft(after[m]) = all - m
  BY <1>10, CutSize
<1>12. ASSUME NEW c \in FairCuts(e)
       PROVE  \E n \in 0..all : Fits(after[n]) /\ m <= n /\ TestsLeft(c) = all - n
  <2>1. PICK u, v : c = Cut(e, u, v) /\ Fair(e, u, v) /\ Fits(c)
    BY FairCutsOf
  <2>2. TestsLeft(c) = u + v /\ u + v \in 0..all
    BY <1>2, <2>1, CutSize
  <2>3. PICK n \in 0..all : u + v = all - n
    <3>1. all - (u + v) \in 0..all /\ u + v = all - (all - (u + v))
      BY <2>2
    <3> QED
      BY <3>1
  <2>4. PICK p, q : after[n] = Cut(e, p, q) /\ Fair(e, p, q) /\ p + q = all - n
    BY <1>3
  <2>5. p = u /\ q = v
    BY <2>1, <2>3, <2>4, OneFairCut
  <2> QED
    BY <1>9, <2>1, <2>2, <2>3, <2>4, <2>5
<1>13. Fits(after[m]) => after[m] \in FairCuts(e)
  BY <1>10, FairCutsOf
<1>14. CASE FairCuts(e) = {}
  <2>1. TestsLeft(after[m]) = 0
    BY <1>8, <1>11, <1>13, <1>14
  <2> QED
    BY <1>6, <1>11, <1>14, <2>1 DEF BestCut
<1>15. CASE FairCuts(e) # {}
  <2>1. PICK c : c \in FairCuts(e)
    BY <1>15
  <2>2. PICK n \in 0..all : Fits(after[n]) /\ m <= n
    BY <1>12, <2>1
  <2>3. m = all => n = m
    BY <2>2
  <2>4. after[m] \in FairCuts(e)
    BY <1>8, <1>13, <2>2, <2>3
  <2>5. ASSUME NEW d \in FairCuts(e) PROVE TestsLeft(d) <= TestsLeft(after[m])
    <3>1. PICK k \in 0..all : m <= k /\ TestsLeft(d) = all - k
      BY <1>12
    <3> QED
      BY <1>8, <1>11, <3>1
  <2> QED
    BY <1>6, <1>11, <1>15, <2>4, <2>5 DEF BestCut
<1> QED
  BY <1>14, <1>15

(***************************************************************************)
(* History: the newest entries are kept.                                   *)
(***************************************************************************)
AtMost(n, limit) == IF n < limit THEN n ELSE limit

LEMMA KeepNewest ==
    ASSUME NEW h \in Seq(HistoryEntries)
    PROVE  /\ Kept(h) \in Seq(HistoryEntries)
           /\ Len(Kept(h)) = AtMost(Len(h), HistoryHoles)
           /\ \A i \in 1..Len(Kept(h)) : Kept(h)[i] = h[(Len(h) - Len(Kept(h))) + i]
<1>1. PICK n \in Nat, limit \in Nat : n = Len(h) /\ limit = HistoryHoles /\ limit >= 1
  BY RulesAssumption
<1>2. PICK m \in 0..n : m = AtMost(n, limit)
  BY DEF AtMost
<1>3. PICK first \in Nat : first = n - m + 1
  BY <1>2
<1>4. first = IF n > limit THEN n - limit + 1 ELSE 1
  BY <1>2, <1>3 DEF AtMost
<1>5. Kept(h) = SubSeq(h, first, n)
  BY <1>1, <1>4 DEF Kept
<1>6. \A i \in first..n : h[i] \in HistoryEntries
  BY <1>1, <1>2, <1>3
<1>7. /\ SubSeq(h, first, n) \in Seq(HistoryEntries)
      /\ Len(SubSeq(h, first, n)) = IF first <= n THEN n - first + 1 ELSE 0
      /\ \A i \in 1..(n - first + 1) : SubSeq(h, first, n)[i] = h[first + i - 1]
  BY <1>6, SubSeqProperties
<1>8. Len(Kept(h)) = m
  BY <1>2, <1>3, <1>5, <1>7
<1>9. ASSUME NEW i \in 1..m
      PROVE  i \in 1..(n - first + 1) /\ first + i - 1 = (n - m) + i
  BY <1>2, <1>3
<1>10. \A i \in 1..m : Kept(h)[i] = h[(n - m) + i]
  <2> SUFFICES ASSUME NEW i \in 1..m PROVE Kept(h)[i] = h[(n - m) + i]
    OBVIOUS
  <2>1. Kept(h)[i] = h[first + i - 1]
    BY <1>5, <1>7, <1>9
  <2> QED
    BY <1>9, <2>1
<1> QED
  BY <1>1, <1>2, <1>5, <1>7, <1>8, <1>10

\* One more hole: of k holes the newest are shown, of k + 1 too.
Newest(history, entries, k) ==
    /\ history \in Seq(HistoryEntries)
    /\ Len(history) = AtMost(k, HistoryHoles)
    /\ \A i \in 1..Len(history) : history[i] = Trimmed(entries[(k - Len(history)) + i])

LEMMA PushType ==
    ASSUME NEW history \in Seq(HistoryEntries), NEW e \in HistoryEntries
    PROVE  HistoryPush(history, e) \in Seq(HistoryEntries)
<1>1. Append(history, Trimmed(e)) \in Seq(HistoryEntries)
  BY TrimmedIsBest
<1> QED
  BY <1>1, KeepNewest DEF HistoryPush

LEMMA NewestPushed ==
    ASSUME NEW history, NEW entries, NEW k \in Nat, k >= 1,
           entries[k] \in HistoryEntries, Newest(history, entries, k - 1)
    PROVE  Newest(HistoryPush(history, entries[k]), entries, k)
<1>1. PICK limit \in Nat : limit = HistoryHoles /\ limit >= 1
  BY RulesAssumption
<1>2. history \in Seq(HistoryEntries)
  BY DEF Newest
<1>3. PICK n \in Nat : /\ n = Len(history) /\ n = AtMost(k - 1, limit)
                       /\ \A i \in 1..n : history[i] = Trimmed(entries[((k - 1) - n) + i])
  BY <1>1, <1>2 DEF Newest
<1>4. PICK longer : longer = Append(history, Trimmed(entries[k]))
  OBVIOUS
<1>5. /\ longer \in Seq(HistoryEntries) /\ Len(longer) = n + 1
      /\ longer[n + 1] = Trimmed(entries[k])
      /\ \A i \in 1..n : longer[i] = history[i]
  <2>1. Trimmed(entries[k]) \in HistoryEntries
    BY TrimmedIsBest
  <2>2. PICK x \in HistoryEntries : x = Trimmed(entries[k])
    BY <2>1
  <2>3. /\ Append(history, x) \in Seq(HistoryEntries)
        /\ Len(Append(history, x)) = Len(history) + 1
        /\ \A i \in 1..Len(history) : Append(history, x)[i] = history[i]
        /\ Append(history, x)[Len(history) + 1] = x
    BY <1>2, <2>2, AppendProperties
  <2> QED
    BY <1>3, <1>4, <2>2, <2>3
<1>6. ASSUME NEW i \in 1..(n + 1) PROVE longer[i] = Trimmed(entries[(k - (n + 1)) + i])
  <2>1. CASE i = n + 1
    <3>1. (k - (n + 1)) + i = k
      BY <2>1
    <3> QED
      BY <1>5, <2>1, <3>1
  <2>2. CASE i # n + 1
    <3>1. i \in 1..n /\ (k - (n + 1)) + i = ((k - 1) - n) + i
      BY <2>2
    <3> QED
      BY <1>3, <1>5, <3>1
  <2> QED
    BY <2>1, <2>2
<1>7. PICK m : m = AtMost(n + 1, limit)
  OBVIOUS
<1>8. m \in 0..(n + 1) /\ m = AtMost(k, limit)
  BY <1>1, <1>3, <1>7 DEF AtMost
<1>9. /\ Kept(longer) \in Seq(HistoryEntries) /\ Len(Kept(longer)) = m
      /\ \A i \in 1..m : Kept(longer)[i] = longer[((n + 1) - m) + i]
  BY <1>1, <1>5, <1>7, KeepNewest
<1>10. ASSUME NEW i \in 1..m PROVE Kept(longer)[i] = Trimmed(entries[(k - m) + i])
  <2>1. /\ ((n + 1) - m) + i \in 1..(n + 1)
        /\ (k - (n + 1)) + (((n + 1) - m) + i) = (k - m) + i
    BY <1>8
  <2> QED
    BY <1>6, <1>9, <2>1
<1> QED
  BY <1>1, <1>4, <1>8, <1>9, <1>10 DEF Newest, HistoryPush

LEMMA HistoryIsNewest ==
    ASSUME NEW entries \in Seq(HistoryEntries)
    PROVE  Newest(HistoryAfter(entries), entries, Len(entries))
<1>1. PICK N \in Nat : N = Len(entries)
  OBVIOUS
<1> DEFINE A == Seq(HistoryEntries)
           Is(g) == g = [n \in 0..Len(entries) |->
                            IF n = 0 THEN <<>> ELSE HistoryPush(g[n - 1], entries[n])]
           shown == CHOOSE g : Is(g)
<1>2. HistoryAfter(entries) = shown[Len(entries)]
  BY Zenon DEF HistoryAfter
<1>3. \E g : Is(g)
  <2> DEFINE F == [p \in A \X HistoryEntries |-> HistoryPush(p[1], p[2])]
  <2>1. Folds(F, A, HistoryEntries)
    BY PushType DEF Folds
  <2>2. \A h \in A, e \in HistoryEntries : F[<<h, e>>] = HistoryPush(h, e)
    OBVIOUS
  <2>3. Inputs(entries, N, HistoryEntries)
    BY <1>1 DEF Inputs
  <2>4. <<>> \in A
    OBVIOUS
  <2> HIDE DEF F, A
  <2>5. PICK f : Iterates(f, F, A, <<>>, N, entries)
    BY <2>1, <2>3, <2>4, Iterated
  <2>6. ASSUME NEW i \in 1..N PROVE f[i] = HistoryPush(f[i - 1], entries[i])
    <3>1. f[i - 1] \in A /\ entries[i] \in HistoryEntries
      BY <2>3, <2>5 DEF Iterates, Inputs
    <3> QED
      BY <2>2, <2>5, <3>1 DEF Iterates
  <2>7. Is(f)
    BY <1>1, <2>5, <2>6 DEF Iterates
  <2> QED
    BY <2>7
<1>4. Is(shown)
  BY <1>3, Zenon
<1> HIDE DEF shown
<1>5. shown[0] = <<>> /\ \A n \in 1..N : shown[n] = HistoryPush(shown[n - 1], entries[n])
  BY <1>1, <1>4
<1> DEFINE S == {n \in 0..N : Newest(shown[n], entries, n)}
<1>6. 0 \in S
  <2>1. shown[0] \in Seq(HistoryEntries) /\ Len(shown[0]) = 0
    BY <1>5
  <2>2. AtMost(0, HistoryHoles) = 0
    BY RulesAssumption DEF AtMost
  <2>3. Newest(shown[0], entries, 0)
    BY <2>1, <2>2 DEF Newest
  <2> QED
    BY <2>3
<1>7. ASSUME NEW n \in 1..N, n - 1 \in S PROVE n \in S
  BY <1>1, <1>5, <1>7, NewestPushed
<1> HIDE DEF S
<1>8. N \in S
  <2>1. \A n \in 0..N : n \in S
    BY <1>6, <1>7, UpToN
  <2> QED
    BY <2>1
<1> QED
  BY <1>1, <1>2, <1>8 DEF S

\* A seat is shown its newest holes, in order, each cut as little as fits,
\* whatever the holes were and whatever the limits are.
THEOREM HistoryShown == Spec => []HistoryIsRecent
<1> DEFINE Typed == subject.kind = "history" => subject.entries \in Seq(HistoryEntries)
<1>1. Init => Typed
  BY RulesAssumption DEF Init
<1>2. Typed /\ [Next]_subject => Typed'
  BY DEF Next
<1>3. Typed => HistoryIsRecent
  <2> SUFFICES ASSUME subject.kind = "history", subject.entries \in Seq(HistoryEntries)
               PROVE  HistoryIsRecent
    BY DEF HistoryIsRecent
  <2>1. PICK entries \in Seq(HistoryEntries) : entries = subject.entries
    OBVIOUS
  <2>2. PICK shown : shown = HistoryAfter(entries)
    OBVIOUS
  <2>3. Newest(shown, entries, Len(entries))
    BY <2>2, HistoryIsNewest
  <2>4. PICK N \in Nat, n \in Nat, limit \in Nat :
           N = Len(entries) /\ n = Len(shown) /\ limit = HistoryHoles /\ n = AtMost(N, limit)
    BY <2>3, RulesAssumption DEF Newest
  <2>5. ASSUME NEW i \in DOMAIN shown PROVE BestCut(entries[(N - n) + i], shown[i])
    <3>1. i \in 1..n /\ (N - n) + i \in 1..N
      BY <2>3, <2>4 DEF Newest, AtMost
    <3>2. entries[(N - n) + i] \in HistoryEntries
      BY <2>4, <3>1
    <3>3. shown[i] = Trimmed(entries[(N - n) + i])
      BY <2>3, <2>4, <3>1 DEF Newest
    <3> QED
      BY <3>2, <3>3, TrimmedIsBest
  <2> QED
    BY <2>1, <2>2, <2>4, <2>5 DEF HistoryIsRecent, AtMost
<1> QED
  BY <1>1, <1>2, <1>3, PTL DEF Spec

--------------------------------------------------------------------------------
(***************************************************************************)
(* Replies: the entries that pass, the first ones of them, and their size. *)
(***************************************************************************)
LEMMA AmongThem ==
    ASSUME NEW X, NEW S, NEW entries \in Seq(X)
    PROVE  /\ Among(S, entries) \in Seq(X \cap S)
           /\ (\A i \in 1..Len(entries) : entries[i] \in S) => Among(S, entries) = entries
<1>1. PICK N \in Nat : N = Len(entries)
  OBVIOUS
<1>2. PICK A : A = Seq(X \cap S)
  OBVIOUS
<1> DEFINE Is(g) == g = [n \in 0..Len(entries) |->
                            IF n = 0 THEN <<>> ELSE Take(S, g[n - 1], entries[n])]
           kept == CHOOSE g : Is(g)
<1>3. Among(S, entries) = kept[Len(entries)]
  BY Zenon DEF Among
<1>4. ASSUME NEW h \in A, NEW x \in X PROVE Take(S, h, x) \in A
  <2>1. CASE x \in S
    BY <1>2, <2>1 DEF Take
  <2>2. CASE x \notin S
    BY <2>2 DEF Take
  <2> QED
    BY <2>1, <2>2
<1>5. \E f : Is(f)
  <2> DEFINE F == [p \in A \X X |-> Take(S, p[1], p[2])]
  <2>1. Folds(F, A, X)
    BY <1>4 DEF Folds
  <2>2. \A h \in A, x \in X : F[<<h, x>>] = Take(S, h, x)
    OBVIOUS
  <2>3. Inputs(entries, N, X)
    BY <1>1 DEF Inputs
  <2>4. <<>> \in A
    BY <1>2
  <2> HIDE DEF F
  <2>5. PICK f : Iterates(f, F, A, <<>>, N, entries)
    BY <2>1, <2>3, <2>4, Iterated
  <2>6. ASSUME NEW i \in 1..N PROVE f[i] = Take(S, f[i - 1], entries[i])
    <3>1. f[i - 1] \in A /\ entries[i] \in X
      BY <2>3, <2>5 DEF Iterates, Inputs
    <3> QED
      BY <2>2, <2>5, <3>1 DEF Iterates
  <2>7. Is(f)
    BY <1>1, <2>5, <2>6 DEF Iterates
  <2> QED
    BY <2>7
<1>6. Is(kept)
  BY <1>5, Zenon
<1> HIDE DEF kept
<1>7. kept[0] = <<>> /\ \A n \in 1..N : kept[n] = Take(S, kept[n - 1], entries[n])
  BY <1>1, <1>6
<1>8. \A n \in 0..N : kept[n] \in A
  <2> DEFINE T == {n \in 0..N : kept[n] \in A}
  <2>1. 0 \in T
    <3>1. <<>> \in A
      BY <1>2
    <3> QED
      BY <1>7, <3>1
  <2>2. ASSUME NEW n \in 1..N, n - 1 \in T PROVE n \in T
    <3>1. kept[n - 1] \in A /\ entries[n] \in X
      BY <1>1, <2>2
    <3>2. kept[n] \in A
      BY <1>4, <1>7, <3>1
    <3> QED
      BY <3>2
  <2> HIDE DEF T
  <2>3. \A n \in 0..N : n \in T
    BY <2>1, <2>2, UpToN
  <2> QED
    BY <2>3 DEF T
<1>9. ASSUME \A i \in 1..N : entries[i] \in S PROVE kept[N] = entries
  <2> DEFINE Copied(n) == Len(kept[n]) = n /\ \A i \in 1..n : kept[n][i] = entries[i]
             T == {n \in 0..N : Copied(n)}
  <2>1. Copied(0)
    BY <1>7
  <2>2. ASSUME NEW n \in 1..N, Copied(n - 1) PROVE Copied(n)
    <3>1. PICK h \in Seq(X \cap S) : h = kept[n - 1]
      BY <1>2, <1>8
    <3>2. Len(h) = n - 1 /\ \A i \in 1..(n - 1) : h[i] = entries[i]
      BY <2>2, <3>1
    <3>3. PICK x \in X \cap S : x = entries[n]
      BY <1>1, <1>9
    <3>4. /\ Len(Append(h, x)) = n /\ Append(h, x)[n] = x
          /\ \A i \in 1..(n - 1) : Append(h, x)[i] = h[i]
      BY <3>2, AppendProperties
    <3>5. kept[n] = Append(h, x)
      BY <1>7, <3>1, <3>3 DEF Take
    <3>6. ASSUME NEW i \in 1..n PROVE kept[n][i] = entries[i]
      <4>1. i = n \/ i \in 1..(n - 1)
        OBVIOUS
      <4> QED
        BY <3>2, <3>3, <3>4, <3>5, <4>1
    <3> QED
      BY <3>4, <3>5, <3>6
  <2> HIDE DEF Copied
  <2>3. 0 \in T /\ \A n \in 1..N : n - 1 \in T => n \in T
    BY <2>1, <2>2
  <2> HIDE DEF T
  <2>4. N \in T
    <3>1. \A n \in 0..N : n \in T
      BY <2>3, UpToN
    <3> QED
      BY <3>1
  <2>5. PICK h \in Seq(X \cap S) : h = kept[N]
    BY <1>2, <1>8
  <2>6. Len(h) = N /\ \A i \in 1..N : h[i] = entries[i]
    BY <2>4, <2>5 DEF T, Copied
  <2>7. h \in Seq(X) /\ entries \in Seq(X)
    OBVIOUS
  <2>8. h = entries
    BY <1>1, <2>6, <2>7, SeqEqual
  <2> QED
    BY <2>5, <2>8
<1>10. kept[N] \in A
  BY <1>8
<1> QED
  BY <1>1, <1>2, <1>3, <1>9, <1>10

LEMMA UpToFirst ==
    ASSUME NEW X, NEW s \in Seq(X), NEW n \in Nat
    PROVE  /\ UpTo(n, s) = SubSeq(s, 1, AtMost(Len(s), n))
           /\ UpTo(n, s) \in Seq(X) /\ Len(UpTo(n, s)) = AtMost(Len(s), n)
           /\ \A i \in 1..AtMost(Len(s), n) : UpTo(n, s)[i] = s[i]
           /\ AtMost(Len(s), n) \in 0..Len(s)
<1>1. PICK m \in 0..Len(s) : m = AtMost(Len(s), n)
  BY DEF AtMost
<1>2. UpTo(n, s) = SubSeq(s, 1, m)
  BY <1>1 DEF UpTo, AtMost
<1>3. /\ SubSeq(s, 1, m) \in Seq(X) /\ Len(SubSeq(s, 1, m)) = m
      /\ \A i \in 1..m : SubSeq(s, 1, m)[i] = s[i]
  BY FirstOf
<1> QED
  BY <1>1, <1>2, <1>3

\* The first of the first are the first, and all are the first of enough.
LEMMA FirstOfFirst ==
    ASSUME NEW X, NEW s \in Seq(X), NEW n \in Nat, NEW k \in Nat, n <= k
    PROVE  UpTo(n, UpTo(k, s)) = UpTo(n, s)
<1>1. PICK t \in Seq(X) : t = UpTo(k, s)
  BY UpToFirst
<1>2. PICK a \in Nat : a = Len(s)
  OBVIOUS
<1>3. Len(t) = AtMost(a, k) /\ \A i \in 1..AtMost(a, k) : t[i] = s[i]
  BY <1>1, <1>2, UpToFirst
<1>4. PICK m \in Nat, b \in Nat :
         m = AtMost(a, n) /\ b = AtMost(a, k) /\ m = AtMost(b, n) /\ m <= b
  BY DEF AtMost
<1>5. PICK u \in Seq(X) : u = UpTo(n, t) /\ Len(u) = m /\ \A i \in 1..m : u[i] = t[i]
  <2>1. Len(t) = b
    BY <1>3, <1>4
  <2>2. AtMost(Len(t), n) = m
    BY <1>4, <2>1
  <2>3. /\ UpTo(n, t) \in Seq(X) /\ Len(UpTo(n, t)) = AtMost(Len(t), n)
        /\ \A i \in 1..AtMost(Len(t), n) : UpTo(n, t)[i] = t[i]
    BY UpToFirst
  <2> QED
    BY <2>2, <2>3
<1>6. PICK v \in Seq(X) : v = UpTo(n, s) /\ Len(v) = m /\ \A i \in 1..m : v[i] = s[i]
  <2>1. AtMost(Len(s), n) = m
    BY <1>2, <1>4
  <2>2. /\ UpTo(n, s) \in Seq(X) /\ Len(UpTo(n, s)) = AtMost(Len(s), n)
        /\ \A i \in 1..AtMost(Len(s), n) : UpTo(n, s)[i] = s[i]
    BY UpToFirst
  <2> QED
    BY <2>1, <2>2
<1>7. ASSUME NEW i \in 1..m PROVE u[i] = v[i]
  <2>1. i \in 1..b
    BY <1>4
  <2> QED
    BY <1>3, <1>4, <1>5, <1>6, <2>1
<1>8. u = v
  BY <1>5, <1>6, <1>7, SeqEqual
<1> QED
  BY <1>1, <1>5, <1>6, <1>8

LEMMA AllAreFirst ==
    ASSUME NEW X, NEW s \in Seq(X), NEW n \in Nat, Len(s) <= n
    PROVE  UpTo(n, s) = s
<1>1. AtMost(Len(s), n) = Len(s)
  BY DEF AtMost
<1>2. SubSeq(s, 1, Len(s)) = s
  BY SubSeqFull
<1> QED
  BY <1>1, <1>2, UpToFirst

Small(impl, tests) == MessageSize(impl, tests) <= MaxBytes

LEMMA SizeOf ==
    ASSUME NEW impl, NEW tests \in Seq(WellFormed)
    PROVE  /\ MessageSize(impl, tests) \in Nat
           /\ tests = <<>> => MessageSize(impl, tests) = ImplShare(impl)
<1>1. PICK N \in Nat : N = Len(tests)
  OBVIOUS
<1> DEFINE Is(g) == g = [n \in 0..Len(tests) |->
                            IF n = 0 THEN ImplShare(impl) ELSE g[n - 1] + Share(tests[n].form)]
           size == CHOOSE g : Is(g)
<1>2. MessageSize(impl, tests) = size[Len(tests)]
  BY Zenon DEF MessageSize
<1>3. ImplShare(impl) \in Nat
  BY RulesAssumption DEF ImplShare
<1>4. ASSUME NEW form PROVE Share(form) \in Nat
  BY DEF Share
<1>5. \E f : Is(f)
  <2> DEFINE F == [p \in Nat \X WellFormed |-> p[1] + Share(p[2].form)]
  <2>1. Folds(F, Nat, WellFormed)
    BY <1>4 DEF Folds
  <2>2. \A h \in Nat, x \in WellFormed : F[<<h, x>>] = h + Share(x.form)
    OBVIOUS
  <2>3. Inputs(tests, N, WellFormed)
    BY <1>1 DEF Inputs
  <2> HIDE DEF F
  <2>5. PICK f : Iterates(f, F, Nat, ImplShare(impl), N, tests)
    BY <1>3, <2>1, <2>3, Iterated
  <2>6. ASSUME NEW i \in 1..N PROVE f[i] = f[i - 1] + Share(tests[i].form)
    <3>1. f[i - 1] \in Nat /\ tests[i] \in WellFormed
      BY <2>3, <2>5 DEF Iterates, Inputs
    <3> QED
      BY <2>2, <2>5, <3>1 DEF Iterates
  <2>7. Is(f)
    BY <1>1, <2>5, <2>6 DEF Iterates
  <2> QED
    BY <2>7
<1>6. Is(size)
  BY <1>5, Zenon
<1> HIDE DEF size
<1>7. size[0] = ImplShare(impl) /\ \A n \in 1..N : size[n] = size[n - 1] + Share(tests[n].form)
  BY <1>1, <1>6
<1> DEFINE T == {n \in 0..N : size[n] \in Nat}
<1>8. 0 \in T
  BY <1>3, <1>7
<1>9. ASSUME NEW n \in 1..N, n - 1 \in T PROVE n \in T
  <2>1. size[n - 1] \in Nat /\ Share(tests[n].form) \in Nat
    BY <1>4, <1>9
  <2>2. size[n] \in Nat
    BY <1>7, <2>1
  <2> QED
    BY <2>2
<1> HIDE DEF T
<1>10. N \in T
  <2>1. \A n \in 0..N : n \in T
    BY <1>8, <1>9, UpToN
  <2> QED
    BY <2>1
<1> QED
  BY <1>1, <1>2, <1>7, <1>10 DEF T

\* The tests that fit are the first ones, as many as fit.
LEMMA FittingTests ==
    ASSUME NEW impl, NEW tests \in Seq(WellFormed)
    PROVE  \E n \in 0..Len(tests) :
              /\ Fitting(impl, tests) = UpTo(n, tests)
              /\ Small(impl, UpTo(n, tests)) \/ n = 0
              /\ \A k \in 0..Len(tests) : Small(impl, UpTo(k, tests)) => k <= n
<1>1. PICK N \in Nat : N = Len(tests)
  OBVIOUS
<1>2. PICK fits : fits = {n \in 0..N : Small(impl, UpTo(n, tests))}
  OBVIOUS
<1>3. PICK n : n = Max({0} \cup fits)
  OBVIOUS
<1>4. Fitting(impl, tests) = UpTo(n, tests)
  BY <1>1, <1>2, <1>3, Zenon DEF Fitting, Small
<1>5. n \in {0} \cup fits /\ \A k \in {0} \cup fits : k <= n
  <2>1. {0} \cup fits \in SUBSET (0..N) /\ {0} \cup fits # {}
    BY <1>2
  <2> QED
    BY <1>3, <2>1, LargestOf
<1>6. n \in 0..N /\ (Small(impl, UpTo(n, tests)) \/ n = 0)
  BY <1>2, <1>5
<1>7. \A k \in 0..N : Small(impl, UpTo(k, tests)) => k <= n
  BY <1>2, <1>5
<1> QED
  BY <1>1, <1>4, <1>6, <1>7

(***************************************************************************)
(* Replies: what is read from one, and what is sent of it.                 *)
(***************************************************************************)
LEMMA PayloadOf ==
    ASSUME NEW reply \in ModelReplies
    PROVE  \/ ParseReply(reply) = NoMessage
           \/ ParseReply(reply) \in ReplyPayloads /\ ParseReply(reply).impl # "missing"
<1>1. Fenced(reply) \in ReplyPayloads
  <2>1. NoTests \in [kind : {"absent", "list", "other", "number"}, entries : Seq(Forms)]
    BY DEF NoTests, TestsOf
  <2>2. reply.json \in ReplyPayloads /\ reply.python \in Impls
    BY DEF ModelReplies
  <2>3. reply.json.tests \in [kind : {"absent", "list", "other", "number"}, entries : Seq(Forms)]
    BY <2>2 DEF ReplyPayloads
  <2> QED
    BY <2>1, <2>2, <2>3 DEF Fenced, ReplyPayloads
<1>2. PICK candidates : candidates = <<reply.whole, reply.span, Fenced(reply)>>
  OBVIOUS
<1>3. \A i \in 1..3 : candidates[i] \in ReplyPayloads
  BY <1>1, <1>2 DEF ModelReplies
<1>4. PICK parsed : parsed = {i \in 1..3 : HasImpl(candidates[i])}
  OBVIOUS
<1>5. ParseReply(reply) = IF parsed = {} THEN NoMessage ELSE candidates[Min(parsed)]
  BY <1>2, <1>4, Zenon DEF ParseReply
<1>6. CASE parsed # {}
  <2>1. Min(parsed) \in parsed
    BY <1>4, <1>6, SmallestOf
  <2>2. Min(parsed) \in 1..3 /\ HasImpl(candidates[Min(parsed)])
    BY <1>4, <2>1
  <2> QED
    BY <1>3, <1>5, <1>6, <2>2 DEF HasImpl
<1> QED
  BY <1>5, <1>6

MessageOf(payload, hole, tests) ==
    [type |-> "submission", hole |-> hole, impl |-> payload.impl,
     tests |-> TestsOf("list", tests),
     note |-> IF payload.note = "absent" THEN "absent" ELSE "text"]
TestsRead(payload, max) == FirstTests(payload.tests.entries, max)
Sent(payload, max) == Fitting(payload.impl, TestsRead(payload, max))

LEMMA NormalizedOf ==
    ASSUME NEW payload, NEW hole, NEW max
    PROVE  /\ ~UsableImpl(payload.impl) => Normalize(payload, hole, max) = NoMessage
           /\ UsableImpl(payload.impl) /\ payload.tests.kind = "number" =>
                 Normalize(payload, hole, max) = RaisesTypeError
           /\ UsableImpl(payload.impl) /\ payload.tests.kind # "number" =>
                 Normalize(payload, hole, max) =
                    IF MessageSize(payload.impl, Sent(payload, max)) > MaxBytes THEN NoMessage
                    ELSE MessageOf(payload, hole, Sent(payload, max))
BY DEF Normalize, Sent, TestsRead, MessageOf

LEMMA EntriesRead ==
    ASSUME NEW payload \in ReplyPayloads, NEW max \in Nat
    PROVE  /\ Among(WellFormed, Named(payload.tests.entries)) \in Seq(WellFormed)
           /\ TestsRead(payload, max) \in Seq(WellFormed)
           /\ Len(TestsRead(payload, max)) <= max
<1>1. payload.tests.entries \in Seq(Forms)
  BY DEF ReplyPayloads
<1>2. Named(payload.tests.entries) \in Seq([name : Nat, form : Forms])
  <2>1. PICK entries \in Seq(Forms), N \in Nat : entries = payload.tests.entries /\ N = Len(entries)
    BY <1>1
  <2>2. \A i \in 1..N : [name |-> i, form |-> entries[i]] \in [name : Nat, form : Forms]
    BY <2>1
  <2>3. Named(entries) = [i \in 1..N |-> [name |-> i, form |-> entries[i]]]
    BY <2>1 DEF Named
  <2>4. Named(entries) \in [1..N -> [name : Nat, form : Forms]]
    BY <2>2, <2>3
  <2>5. ASSUME NEW T, NEW named \in [1..N -> T] PROVE named \in Seq(T)
    OBVIOUS
  <2>6. Named(entries) \in Seq([name : Nat, form : Forms])
    BY <2>4, <2>5
  <2> QED
    BY <2>1, <2>6
<1>3. PICK w \in Seq(WellFormed) : w = Among(WellFormed, Named(payload.tests.entries))
  <2>1. [name : Nat, form : Forms] \cap WellFormed = WellFormed
    BY DEF WellFormed, Forms
  <2>2. Among(WellFormed, Named(payload.tests.entries))
           \in Seq([name : Nat, form : Forms] \cap WellFormed)
    BY <1>2, AmongThem
  <2> QED
    BY <2>1, <2>2
<1>4. UpTo(max, w) \in Seq(WellFormed) /\ Len(UpTo(max, w)) = AtMost(Len(w), max)
  BY UpToFirst
<1>5. AtMost(Len(w), max) <= max
  BY DEF AtMost
<1> QED
  BY <1>3, <1>4, <1>5 DEF TestsRead, FirstTests

\* A message that is sent carries the first of the tests that were read, as
\* many as fit.
LEMMA MessageSent ==
    ASSUME NEW payload \in ReplyPayloads, NEW hole, NEW max \in Nat,
           Normalize(payload, hole, max) \notin {NoMessage, RaisesTypeError}
    PROVE  /\ UsableImpl(payload.impl) /\ payload.tests.kind # "number"
           /\ Normalize(payload, hole, max) = MessageOf(payload, hole, Sent(payload, max))
           /\ Small(payload.impl, Sent(payload, max))
           /\ Sent(payload, max) \in Seq(WellFormed)
           /\ Len(Sent(payload, max)) <= max
<1>1. UsableImpl(payload.impl) /\ payload.tests.kind # "number"
  BY NormalizedOf
<1>2. ~(MessageSize(payload.impl, Sent(payload, max)) > MaxBytes)
  BY <1>1, NormalizedOf
<1>3. Normalize(payload, hole, max) = MessageOf(payload, hole, Sent(payload, max))
  BY <1>1, <1>2, NormalizedOf
<1>4. TestsRead(payload, max) \in Seq(WellFormed) /\ Len(TestsRead(payload, max)) <= max
  BY EntriesRead
<1>5. PICK n \in 0..Len(TestsRead(payload, max)) : Sent(payload, max) = UpTo(n, TestsRead(payload, max))
  BY <1>4, FittingTests DEF Sent
<1>6. n \in Nat
  BY <1>4
<1>7. /\ Sent(payload, max) \in Seq(WellFormed)
      /\ Len(Sent(payload, max)) = AtMost(Len(TestsRead(payload, max)), n)
  BY <1>4, <1>5, <1>6, UpToFirst
<1>8. Len(Sent(payload, max)) <= max
  BY <1>4, <1>6, <1>7 DEF AtMost
<1>9. Small(payload.impl, Sent(payload, max))
  <2>1. MessageSize(payload.impl, Sent(payload, max)) \in Nat
    BY <1>7, SizeOf
  <2> QED
    BY <1>2, <2>1, RulesAssumption DEF Small
<1> QED
  BY <1>1, <1>3, <1>7, <1>8, <1>9

LEMMA ValidMessage ==
    ASSUME NEW payload \in ReplyPayloads, NEW hole \in Nat, NEW tests, UsableImpl(payload.impl)
    PROVE  Validate(MessageOf(payload, hole, tests), hole) = "valid"
<1>1. PICK data : data = MessageOf(payload, hole, tests)
  OBVIOUS
<1>2. /\ data.type = "submission" /\ data.hole = hole /\ data.impl \in {"source", "wide"}
      /\ data.tests.kind = "list" /\ data.note \in {"absent", "text"}
  BY <1>1 DEF MessageOf, TestsOf, UsableImpl
<1>3. PICK checks : checks =
         << <<data.type = "submission", "malformed">>,
            <<data.hole \in Nat, "malformed">>,
            <<data.hole = hole, "wrong_hole">>,
            <<data.impl \in {"source", "wide", "long"}, "malformed">>,
            <<data.impl # "long", "oversize">>,
            <<data.tests.kind \in {"absent", "list"}, "malformed">>,
            <<data.note \in {"absent", "text"}, "malformed">> >>
  OBVIOUS
<1>4. ASSUME NEW i \in 1..7 PROVE checks[i][1]
  <2>1. /\ (data.type = "submission") = TRUE /\ (data.hole \in Nat) = TRUE
        /\ (data.hole = hole) = TRUE /\ (data.impl \in {"source", "wide", "long"}) = TRUE
        /\ (data.impl # "long") = TRUE /\ (data.tests.kind \in {"absent", "list"}) = TRUE
        /\ (data.note \in {"absent", "text"}) = TRUE
    BY <1>2
  <2>2. checks = << <<TRUE, "malformed">>, <<TRUE, "malformed">>, <<TRUE, "wrong_hole">>,
                    <<TRUE, "malformed">>, <<TRUE, "oversize">>, <<TRUE, "malformed">>,
                    <<TRUE, "malformed">> >>
    BY <1>3, <2>1, Zenon
  <2>3. /\ checks[1] = <<TRUE, "malformed">> /\ checks[2] = <<TRUE, "malformed">>
        /\ checks[3] = <<TRUE, "wrong_hole">> /\ checks[4] = <<TRUE, "malformed">>
        /\ checks[5] = <<TRUE, "oversize">> /\ checks[6] = <<TRUE, "malformed">>
        /\ checks[7] = <<TRUE, "malformed">>
    BY <2>2
  <2>4. \E cause : checks[i] = <<TRUE, cause>>
    <3>1. i = 1 \/ i = 2 \/ i = 3 \/ i = 4 \/ i = 5 \/ i = 6 \/ i = 7
      OBVIOUS
    <3> QED
      BY <2>3, <3>1
  <2>5. PICK cause : checks[i] = <<TRUE, cause>>
    BY <2>4
  <2>6. <<TRUE, cause>>[1]
    OBVIOUS
  <2> QED
    BY <2>5, <2>6
<1>5. PICK failed : failed = {i \in 1..7 : ~checks[i][1]}
  OBVIOUS
<1>6. failed = {}
  BY <1>4, <1>5
<1>7. Validate(data, hole) = IF failed = {} THEN "valid" ELSE checks[Min(failed)][2]
  BY <1>3, <1>5, Zenon DEF Validate
<1> QED
  BY <1>1, <1>6, <1>7

\* What the server makes of a message: nothing is lost under the cap.
LEMMA SanitizedMessage ==
    ASSUME NEW payload, NEW hole, NEW max \in Nat, NEW tests \in Seq(WellFormed)
    PROVE  /\ Sanitize(MessageOf(payload, hole, tests), hole, max).dropped =
                 IF Len(tests) > max THEN Len(tests) - max ELSE 0
           /\ Sanitize(MessageOf(payload, hole, tests), hole, max).tests = UpTo(max, tests)
<1>1. PICK data : data = MessageOf(payload, hole, tests)
  OBVIOUS
<1>2. data.tests.entries = tests
  BY <1>1 DEF MessageOf, TestsOf
<1>3. WellFormed \subseteq Objects
  BY DEF WellFormed, Objects, Forms
<1>4. Among(Objects, tests) = tests
  <2>1. \A i \in 1..Len(tests) : tests[i] \in Objects
    BY <1>3
  <2>2. (\A i \in 1..Len(tests) : tests[i] \in Objects) => Among(Objects, tests) = tests
    BY AmongThem
  <2> QED
    BY <2>1, <2>2
<1> QED
  BY <1>1, <1>2, <1>4 DEF Sanitize

\* Nothing is sent of a reply without a usable implementation only: the
\* source of one always fits.
LEMMA NothingSent ==
    ASSUME NEW payload \in ReplyPayloads, NEW hole, NEW max \in Nat,
           payload.impl # "missing", Normalize(payload, hole, max) = NoMessage
    PROVE  payload.impl \in {"blank", "wide", "long"}
<1>1. payload.impl \in Impls
  BY DEF ReplyPayloads
<1>2. CASE ~UsableImpl(payload.impl)
  BY <1>1, <1>2 DEF UsableImpl, Impls
<1>3. CASE UsableImpl(payload.impl)
  <2>1. RaisesTypeError # NoMessage
    BY DEF RaisesTypeError, NoMessage
  <2>2. MessageOf(payload, hole, Sent(payload, max)) # NoMessage
    BY <1>3 DEF MessageOf, NoMessage, UsableImpl
  <2>3. MessageSize(payload.impl, Sent(payload, max)) > MaxBytes
    BY <1>3, <2>1, <2>2, NormalizedOf
  <2>4. PICK tests \in Seq(WellFormed) : tests = TestsRead(payload, max)
    BY EntriesRead
  <2>5. PICK n \in 0..Len(tests) :
           Sent(payload, max) = UpTo(n, tests) /\ (Small(payload.impl, UpTo(n, tests)) \/ n = 0)
    BY <2>4, FittingTests DEF Sent
  <2>6. n \in Nat
    OBVIOUS
  <2>7. UpTo(n, tests) \in Seq(WellFormed) /\ Len(UpTo(n, tests)) = AtMost(Len(tests), n)
    BY <2>6, UpToFirst
  <2>8. MessageSize(payload.impl, UpTo(n, tests)) \in Nat
    BY <2>7, SizeOf
  <2>9. n = 0
    BY <2>3, <2>5, <2>8, RulesAssumption DEF Small
  <2>10. Len(UpTo(n, tests)) = 0
    <3>1. Len(tests) \in Nat
      OBVIOUS
    <3> QED
      BY <2>7, <2>9, <3>1 DEF AtMost
  <2>11. UpTo(n, tests) = <<>>
    BY <2>7, <2>10, EmptySeq
  <2>12. ImplShare(payload.impl) > MaxBytes
    BY <2>3, <2>5, <2>7, <2>11, SizeOf
  <2> QED
    BY <2>12, RulesAssumption DEF ImplShare
<1> QED
  BY <1>2, <1>3

LEMMA SentIsAccepted ==
    ASSUME NEW reply \in ModelReplies, NEW hole \in Nat
    PROVE  LET message == PlayersMessage(reply, hole)
               payload == ParseReply(reply)
           IN /\ message = NoMessage =>
                     payload = NoMessage \/ payload.impl \in {"blank", "wide", "long"}
              /\ message \notin {NoMessage, RaisesTypeError} =>
                     LET clean == Sanitize(message, hole, MaxTests)
                     IN /\ Validate(message, hole) = "valid"
                        /\ MessageSize(message.impl, message.tests.entries) <= MaxBytes
                        /\ clean.tests = message.tests.entries /\ clean.dropped = 0
<1>1. PICK payload : payload = ParseReply(reply)
  OBVIOUS
<1>2. PICK message : message = PlayersMessage(reply, hole)
  OBVIOUS
<1>3. message = IF payload = NoMessage THEN NoMessage ELSE Normalize(payload, hole, MaxTests)
  BY <1>1, <1>2 DEF PlayersMessage
<1>4. payload = NoMessage \/ (payload \in ReplyPayloads /\ payload.impl # "missing")
  BY <1>1, PayloadOf
<1>5. MaxTests \in Nat
  BY RulesAssumption
<1>6. message = NoMessage => payload = NoMessage \/ payload.impl \in {"blank", "wide", "long"}
  BY <1>3, <1>4, <1>5, NothingSent
<1>7. ASSUME message \notin {NoMessage, RaisesTypeError}
      PROVE  /\ Validate(message, hole) = "valid"
             /\ MessageSize(message.impl, message.tests.entries) <= MaxBytes
             /\ Sanitize(message, hole, MaxTests).tests = message.tests.entries
             /\ Sanitize(message, hole, MaxTests).dropped = 0
  <2>1. payload \in ReplyPayloads /\ message = Normalize(payload, hole, MaxTests)
    BY <1>3, <1>4, <1>7
  <2>2. PICK tests \in Seq(WellFormed) :
           /\ UsableImpl(payload.impl) /\ message = MessageOf(payload, hole, tests)
           /\ Small(payload.impl, tests) /\ Len(tests) <= MaxTests
    BY <1>5, <1>7, <2>1, MessageSent
  <2>3. message.impl = payload.impl /\ message.tests.entries = tests
    BY <2>2 DEF MessageOf, TestsOf
  <2>4. Validate(message, hole) = "valid"
    BY <2>1, <2>2, ValidMessage
  <2>5. UpTo(MaxTests, tests) = tests
    BY <1>5, <2>2, AllAreFirst
  <2>6. /\ Sanitize(message, hole, MaxTests).tests = tests
        /\ Sanitize(message, hole, MaxTests).dropped = 0
    <3>1. ~(Len(tests) > MaxTests)
      BY <1>5, <2>2
    <3> QED
      BY <1>5, <2>2, <2>5, <3>1, SanitizedMessage
  <2> QED
    BY <2>2, <2>3, <2>4, <2>6 DEF Small
<1> QED
  BY <1>1, <1>2, <1>6, <1>7

\* What the player sends is accepted by the server's own checks, whole, for
\* every reply, every cap on tests and every cap on the message.
THEOREM WireAccepted == Spec => []WireIsAccepted
<1> DEFINE Typed == subject.kind = "reply" => subject.reply \in ModelReplies
<1>1. Init => Typed
  BY RulesAssumption DEF Init
<1>2. Typed /\ [Next]_subject => Typed'
  BY DEF Next
<1>3. Typed => WireIsAccepted
  <2>1. Hole \in Nat
    BY DEF Hole
  <2> SUFFICES ASSUME subject.kind = "reply", subject.reply \in ModelReplies
               PROVE  WireIsAccepted
    BY Zenon DEF WireIsAccepted
  <2>2. PICK reply \in ModelReplies : reply = subject.reply
    OBVIOUS
  <2> QED
    BY <2>1, <2>2, SentIsAccepted DEF WireIsAccepted
<1> QED
  BY <1>1, <1>2, <1>3, PTL DEF Spec

\* Read again with a lower cap, a reply comes to the same tests when they are
\* no more than that cap.
LEMMA SentAgain ==
    ASSUME NEW payload \in ReplyPayloads, NEW cap \in Nat, NEW max \in Nat, max <= cap,
           Small(payload.impl, Sent(payload, cap)), Len(Sent(payload, cap)) <= max
    PROVE  Sent(payload, max) = Sent(payload, cap)
<1>1. PICK all \in Seq(WellFormed) : all = Among(WellFormed, Named(payload.tests.entries))
  BY EntriesRead
<1>2. PICK few \in Seq(WellFormed), many \in Seq(WellFormed) :
         few = TestsRead(payload, max) /\ many = TestsRead(payload, cap)
  BY EntriesRead
<1>3. few = UpTo(max, all) /\ many = UpTo(cap, all)
  BY <1>1, <1>2 DEF TestsRead, FirstTests
<1>4. PICK N \in Nat, a \in Nat, b \in Nat : /\ N = Len(all) /\ a = Len(few) /\ b = Len(many)
                                             /\ a = AtMost(N, max) /\ b = AtMost(N, cap)
  <2>1. Len(few) = AtMost(Len(all), max) /\ Len(many) = AtMost(Len(all), cap)
    BY <1>3, UpToFirst
  <2> QED
    BY <2>1
<1>5. a <= b /\ a <= max /\ b <= cap /\ (b <= max => a = b) /\ (max < b => a = max)
  BY <1>4 DEF AtMost
<1>6. ASSUME NEW n \in 0..a PROVE UpTo(n, few) = UpTo(n, many)
  <2>1. n \in Nat /\ n <= max /\ n <= cap
    BY <1>4, <1>5
  <2>2. UpTo(n, UpTo(max, all)) = UpTo(n, all)
    BY <2>1, FirstOfFirst
  <2>3. UpTo(n, UpTo(cap, all)) = UpTo(n, all)
    BY <2>1, FirstOfFirst
  <2> QED
    BY <1>3, <2>2, <2>3
<1>7. PICK m \in 0..a : /\ Sent(payload, max) = UpTo(m, few)
                        /\ Small(payload.impl, UpTo(m, few)) \/ m = 0
                        /\ \A k \in 0..a : Small(payload.impl, UpTo(k, few)) => k <= m
  <2>1. Sent(payload, max) = Fitting(payload.impl, few)
    BY <1>2 DEF Sent
  <2> QED
    BY <1>4, <2>1, FittingTests
<1>8. PICK n \in 0..b : /\ Sent(payload, cap) = UpTo(n, many)
                        /\ \A k \in 0..b : Small(payload.impl, UpTo(k, many)) => k <= n
  <2>1. Sent(payload, cap) = Fitting(payload.impl, many)
    BY <1>2 DEF Sent
  <2> QED
    BY <1>4, <2>1, FittingTests
<1>9. n <= a
  <2>1. n \in Nat
    BY <1>4
  <2>2. Len(UpTo(n, many)) = AtMost(Len(many), n)
    BY <2>1, UpToFirst
  <2>3. Len(Sent(payload, cap)) = n
    <3>1. AtMost(b, n) = n
      BY <2>1 DEF AtMost
    <3> QED
      BY <1>4, <1>8, <2>2, <3>1
  <2>4. n <= max
    BY <2>3
  <2> QED
    BY <1>4, <1>5, <2>1, <2>4
<1>10. Small(payload.impl, UpTo(n, few))
  BY <1>4, <1>6, <1>8, <1>9
<1>11. n <= m
  BY <1>4, <1>7, <1>9, <1>10
<1>12. m <= n
  <2>1. m = 0 \/ Small(payload.impl, UpTo(m, many))
    BY <1>6, <1>7
  <2>2. m \in 0..b
    BY <1>4, <1>5
  <2> QED
    BY <1>4, <1>8, <2>1, <2>2
<1>13. m = n
  BY <1>4, <1>11, <1>12
<1> QED
  BY <1>6, <1>7, <1>8, <1>13

LEMMA BoundWithin ==
    ASSUME NEW reply \in ModelReplies, NEW hole \in Nat, NEW max \in 1..MaxTests,
           PlayersMessage(reply, hole) \notin {NoMessage, RaisesTypeError}
    PROVE  Binds(reply, PlayersMessage(reply, hole), hole, max)
              <=> Len(PlayersMessage(reply, hole).tests.entries) <= max
<1>1. MaxTests \in Nat /\ max \in Nat /\ max <= MaxTests
  BY RulesAssumption
<1>2. PICK payload : payload = ParseReply(reply)
  OBVIOUS
<1>3. payload = NoMessage \/ payload \in ReplyPayloads
  BY <1>2, PayloadOf
<1>4. PICK message : message = PlayersMessage(reply, hole) /\ message \notin {NoMessage, RaisesTypeError}
  OBVIOUS
<1>5. message = IF payload = NoMessage THEN NoMessage ELSE Normalize(payload, hole, MaxTests)
  BY <1>2, <1>4 DEF PlayersMessage
<1>6. /\ payload # NoMessage /\ payload \in ReplyPayloads
      /\ message = Normalize(payload, hole, MaxTests)
  BY <1>3, <1>4, <1>5
<1>7. PICK tests \in Seq(WellFormed) :
         /\ UsableImpl(payload.impl) /\ payload.tests.kind # "number"
         /\ tests = Sent(payload, MaxTests)
         /\ message = MessageOf(payload, hole, tests)
         /\ Small(payload.impl, tests)
  BY <1>1, <1>4, <1>6, MessageSent
<1>8. message.tests.entries = tests
  BY <1>7 DEF MessageOf, TestsOf
<1>9. PICK parsed : parsed = Normalize(payload, hole, max)
  OBVIOUS
<1>10. Validate(message, hole) = "valid"
  BY <1>6, <1>7, ValidMessage
<1>11. Binds(reply, message, hole, max) <=>
          /\ parsed \notin {NoMessage, RaisesTypeError}
          /\ Validate(parsed, hole) = "valid"
          /\ Sanitize(parsed, hole, max) = Sanitize(message, hole, max)
  BY <1>2, <1>6, <1>9, <1>10, Zenon DEF Binds
<1>12. CASE Len(tests) <= max
  <2>1. Sent(payload, max) = tests
    BY <1>1, <1>6, <1>7, <1>12, SentAgain
  <2>2. MessageSize(payload.impl, Sent(payload, max)) \in Nat /\ Small(payload.impl, Sent(payload, max))
    BY <1>7, <2>1, SizeOf
  <2>3. ~(MessageSize(payload.impl, Sent(payload, max)) > MaxBytes)
    BY <2>2, RulesAssumption DEF Small
  <2>4. parsed = message
    BY <1>7, <1>9, <2>1, <2>3, NormalizedOf
  <2>5. Binds(reply, message, hole, max)
    BY <1>4, <1>10, <1>11, <2>4
  <2> QED
    BY <1>4, <1>8, <1>12, <2>5
<1>13. CASE ~(Len(tests) <= max)
  <2>1. SUFFICES ASSUME parsed \notin {NoMessage, RaisesTypeError},
                        Sanitize(parsed, hole, max) = Sanitize(message, hole, max)
                 PROVE  FALSE
    BY <1>4, <1>8, <1>11, <1>13
  <2>2. PICK fewer \in Seq(WellFormed) : parsed = MessageOf(payload, hole, fewer) /\ Len(fewer) <= max
    BY <1>1, <1>6, <1>9, <2>1, MessageSent
  <2>3. PICK n \in Nat, k \in Nat : n = Len(tests) /\ k = Len(fewer)
    OBVIOUS
  <2>4. Sanitize(parsed, hole, max).dropped = IF k > max THEN k - max ELSE 0
    BY <1>1, <2>2, <2>3, SanitizedMessage
  <2>5. Sanitize(message, hole, max).dropped = IF n > max THEN n - max ELSE 0
    BY <1>1, <1>7, <2>3, SanitizedMessage
  <2> QED
    BY <1>1, <1>13, <2>1, <2>2, <2>3, <2>4, <2>5
<1> QED
  BY <1>12, <1>13

\* The server binds a message to the reply it came from, unless it carries
\* more tests than the window takes: for every reply and every limits.
THEOREM BoundInWindow == Spec => []BoundWithinTheWindow
<1> DEFINE Typed == subject.kind = "reply" =>
                       subject.reply \in ModelReplies /\ subject.max \in 1..MaxTests
<1>1. Init => Typed
  BY RulesAssumption DEF Init
<1>2. Typed /\ [Next]_subject => Typed'
  BY DEF Next
<1>3. Typed => BoundWithinTheWindow
  <2>1. Hole \in Nat
    BY DEF Hole
  <2> SUFFICES ASSUME subject.kind = "reply", subject.reply \in ModelReplies,
                      subject.max \in 1..MaxTests
               PROVE  BoundWithinTheWindow
    BY Zenon DEF BoundWithinTheWindow
  <2>2. PICK reply \in ModelReplies, max \in 1..MaxTests : reply = subject.reply /\ max = subject.max
    OBVIOUS
  <2> QED
    BY <2>1, <2>2, BoundWithin DEF BoundWithinTheWindow
<1> QED
  BY <1>1, <1>2, <1>3, PTL DEF Spec

--------------------------------------------------------------------------------
(***************************************************************************)
(* The killer test: the shots are in the order of holes and tests.         *)
(***************************************************************************)
ShotRecords == [hole : Nat, slot : Slots, idx : Nat, outcome : Outcomes]
Earlier(a, b) == a.hole < b.hole \/ (a.hole = b.hole /\ a.idx < b.idx)
Ordered(shots) ==
    \A i, k \in 1..Len(shots) : i < k /\ shots[i].slot = shots[k].slot => Earlier(shots[i], shots[k])
UpToHole(shots, h) == \A i \in 1..Len(shots) : shots[i].hole \in 1..h

LEMMA Concatenated ==
    ASSUME NEW X, NEW a \in Seq(X), NEW b \in Seq(X)
    PROVE  /\ a \o b \in Seq(X) /\ Len(a \o b) = Len(a) + Len(b)
           /\ \A i \in 1..Len(a) : (a \o b)[i] = a[i]
           /\ \A i \in 1..Len(b) : (a \o b)[Len(a) + i] = b[i]
           /\ \A i \in 1..Len(a \o b) : i \in 1..Len(a) \/ \E k \in 1..Len(b) : i = Len(a) + k
<1>1. PICK n \in Nat, m \in Nat : n = Len(a) /\ m = Len(b)
  OBVIOUS
<1>2. a \o b \in Seq(X) /\ Len(a \o b) = n + m
  BY <1>1
<1>3. \A i \in 1..n : (a \o b)[i] = a[i]
  BY <1>1
<1>4. \A i \in 1..m : (a \o b)[n + i] = b[i]
  BY <1>1
<1>5. ASSUME NEW i \in 1..(n + m) PROVE i \in 1..n \/ \E k \in 1..m : i = n + k
  <2>1. CASE i > n
    <3>1. i - n \in 1..m /\ i = n + (i - n)
      BY <2>1
    <3> QED
      BY <3>1
  <2>2. CASE ~(i > n)
    BY <2>2
  <2> QED
    BY <2>1, <2>2
<1> QED
  BY <1>1, <1>2, <1>3, <1>4, <1>5

LEMMA OrderedTogether ==
    ASSUME NEW a \in Seq(ShotRecords), NEW b \in Seq(ShotRecords), Ordered(a), Ordered(b),
           \A i \in 1..Len(a), k \in 1..Len(b) : a[i].slot = b[k].slot => Earlier(a[i], b[k])
    PROVE  Ordered(a \o b)
<1>1. PICK n \in Nat, m \in Nat : n = Len(a) /\ m = Len(b)
  OBVIOUS
<1>2. PICK c \in Seq(ShotRecords) : c = a \o b /\ Len(c) = n + m
  <2>1. a \o b \in Seq(ShotRecords) /\ Len(a \o b) = Len(a) + Len(b)
    BY Concatenated
  <2> QED
    BY <1>1, <2>1
<1>3. /\ \A i \in 1..n : c[i] = a[i]
      /\ \A i \in 1..m : c[n + i] = b[i]
      /\ \A i \in 1..(n + m) : i \in 1..n \/ \E k \in 1..m : i = n + k
  <2>1. /\ \A i \in 1..Len(a) : (a \o b)[i] = a[i]
        /\ \A i \in 1..Len(b) : (a \o b)[Len(a) + i] = b[i]
        /\ \A i \in 1..Len(a \o b) : i \in 1..Len(a) \/ \E k \in 1..Len(b) : i = Len(a) + k
    BY Concatenated
  <2> QED
    BY <1>1, <1>2, <2>1
<1>4. SUFFICES ASSUME NEW i \in 1..(n + m), NEW k \in 1..(n + m), i < k, c[i].slot = c[k].slot
               PROVE  Earlier(c[i], c[k])
  BY <1>1, <1>2 DEF Ordered
<1>5. CASE i \in 1..n /\ k \in 1..n
  BY <1>1, <1>2, <1>3, <1>4, <1>5 DEF Ordered
<1>6. ASSUME NEW q \in 1..m, k = n + q, i \in 1..n PROVE Earlier(c[i], c[k])
  BY <1>1, <1>2, <1>3, <1>4, <1>6
<1>7. ASSUME NEW p \in 1..m, NEW q \in 1..m, i = n + p, k = n + q PROVE Earlier(c[i], c[k])
  <2>1. p < q
    BY <1>4, <1>7
  <2> QED
    BY <1>1, <1>2, <1>3, <1>4, <1>7, <2>1 DEF Ordered
<1>8. ASSUME NEW p \in 1..m, i = n + p, k \in 1..n PROVE FALSE
  BY <1>4, <1>8
<1> QED
  BY <1>3, <1>5, <1>6, <1>7, <1>8

LEMMA FiredOf ==
    ASSUME NEW holes \in Seq(JudgedHoles), NEW h \in 1..Len(holes), NEW s \in Slots
    PROVE  /\ Fired(holes, h, s) \in Seq(ShotRecords) /\ Ordered(Fired(holes, h, s))
           /\ \A i \in 1..Len(Fired(holes, h, s)) :
                 Fired(holes, h, s)[i].hole = h /\ Fired(holes, h, s)[i].slot = s
<1>1. holes[h] \in JudgedHoles
  OBVIOUS
<1>2. PICK outcomes \in Seq(Outcomes), n \in Nat :
         outcomes = holes[h].outcomes[s] /\ n = Len(outcomes)
  BY <1>1 DEF JudgedHoles
<1>3. PICK fired : fired = Fired(holes, h, s)
  OBVIOUS
<1>4. fired = [i \in 1..n |-> [hole |-> h, slot |-> s, idx |-> i, outcome |-> outcomes[i]]]
  BY <1>2, <1>3 DEF Fired
<1>5. h \in Nat
  OBVIOUS
<1>6. ASSUME NEW i \in 1..n
      PROVE  [hole |-> h, slot |-> s, idx |-> i, outcome |-> outcomes[i]] \in ShotRecords
  BY <1>2, <1>5 DEF ShotRecords
<1>7. fired \in [1..n -> ShotRecords]
  BY <1>4, <1>6
<1>8. ASSUME NEW T, NEW t \in [1..n -> T] PROVE t \in Seq(T) /\ Len(t) = n
  OBVIOUS
<1>9. fired \in Seq(ShotRecords) /\ Len(fired) = n
  BY <1>7, <1>8
<1>10. \A i \in 1..n : fired[i].hole = h /\ fired[i].slot = s /\ fired[i].idx = i
  BY <1>4
<1>11. Ordered(fired)
  BY <1>9, <1>10 DEF Ordered, Earlier
<1> QED
  BY <1>3, <1>9, <1>10, <1>11

Round(holes, h) == Fired(holes, h, 0) \o Fired(holes, h, 1)

LEMMA ShotsOf ==
    ASSUME NEW holes \in Seq(JudgedHoles)
    PROVE  /\ Shots(holes) \in Seq(ShotRecords) /\ Ordered(Shots(holes))
           /\ UpToHole(Shots(holes), Len(holes))
<1>1. PICK N \in Nat : N = Len(holes)
  OBVIOUS
<1> DEFINE Is(g) == g = [h \in 0..Len(holes) |->
                            IF h = 0 THEN <<>> ELSE AfterRound(g[h - 1], holes, h)]
           shots == CHOOSE g : Is(g)
<1>2. Shots(holes) = shots[Len(holes)]
  BY Zenon DEF Shots
<1>3. ASSUME NEW h \in 1..N
      PROVE  /\ Round(holes, h) \in Seq(ShotRecords) /\ Ordered(Round(holes, h))
             /\ \A i \in 1..Len(Round(holes, h)) : Round(holes, h)[i].hole = h
  <2>1. PICK a, b : a = Fired(holes, h, 0) /\ b = Fired(holes, h, 1)
    OBVIOUS
  <2>2. 0 \in Slots /\ 1 \in Slots
    BY DEF Slots
  <2>3. /\ a \in Seq(ShotRecords) /\ Ordered(a)
        /\ \A i \in 1..Len(a) : a[i].hole = h /\ a[i].slot = 0
    BY <1>1, <2>1, <2>2, FiredOf
  <2>4. /\ b \in Seq(ShotRecords) /\ Ordered(b)
        /\ \A i \in 1..Len(b) : b[i].hole = h /\ b[i].slot = 1
    BY <1>1, <2>1, <2>2, FiredOf
  <2>5. Ordered(a \o b)
    BY <2>3, <2>4, OrderedTogether
  <2>6. /\ a \o b \in Seq(ShotRecords)
        /\ \A i \in 1..Len(a) : (a \o b)[i] = a[i]
        /\ \A i \in 1..Len(b) : (a \o b)[Len(a) + i] = b[i]
        /\ \A i \in 1..Len(a \o b) : i \in 1..Len(a) \/ \E k \in 1..Len(b) : i = Len(a) + k
    BY <2>3, <2>4, Concatenated
  <2>7. \A i \in 1..Len(a \o b) : (a \o b)[i].hole = h
    BY <2>3, <2>4, <2>6
  <2> QED
    BY <2>1, <2>5, <2>6, <2>7 DEF Round
<1>4. \E f : Is(f)
  <2>0. PICK A : A = Seq(ShotRecords)
    OBVIOUS
  <2> DEFINE F == [p \in A \X A |-> p[1] \o p[2]]
             rounds == [h \in 1..N |-> Round(holes, h)]
  <2>1. Folds(F, A, A)
    BY <2>0 DEF Folds
  <2>2. \A x, y \in A : F[<<x, y>>] = x \o y
    OBVIOUS
  <2>3. Inputs(rounds, N, A) /\ \A h \in 1..N : rounds[h] = Round(holes, h)
    BY <1>3, <2>0 DEF Inputs
  <2>4. <<>> \in A
    BY <2>0
  <2> HIDE DEF F, rounds
  <2>5. PICK f : Iterates(f, F, A, <<>>, N, rounds)
    BY <2>1, <2>3, <2>4, Iterated
  <2>6. ASSUME NEW h \in 1..N PROVE f[h] = AfterRound(f[h - 1], holes, h)
    <3>1. f[h - 1] \in A /\ rounds[h] \in A
      BY <2>3, <2>5 DEF Iterates, Inputs
    <3> QED
      BY <2>2, <2>3, <2>5, <3>1 DEF Iterates, AfterRound, Round
  <2>7. Is(f)
    BY <1>1, <2>5, <2>6 DEF Iterates
  <2> QED
    BY <2>7
<1>5. Is(shots)
  BY <1>4, Zenon
<1> HIDE DEF shots
<1>6. shots[0] = <<>> /\ \A h \in 1..N : shots[h] = AfterRound(shots[h - 1], holes, h)
  BY <1>1, <1>5
<1> DEFINE Good(h) == shots[h] \in Seq(ShotRecords) /\ Ordered(shots[h]) /\ UpToHole(shots[h], h)
           T == {h \in 0..N : Good(h)}
<1>7. Good(0)
  <2>1. <<>> \in Seq(ShotRecords) /\ Len(<<>>) = 0
    OBVIOUS
  <2> QED
    BY <1>6, <2>1 DEF Ordered, UpToHole
<1>8. ASSUME NEW h \in 1..N, Good(h - 1) PROVE Good(h)
  <2>1. PICK a, b : a = shots[h - 1] /\ b = Round(holes, h)
    OBVIOUS
  <2>2. a \in Seq(ShotRecords) /\ Ordered(a) /\ \A i \in 1..Len(a) : a[i].hole \in 1..(h - 1)
    BY <1>8, <2>1 DEF UpToHole
  <2>3. b \in Seq(ShotRecords) /\ Ordered(b) /\ \A i \in 1..Len(b) : b[i].hole = h
    BY <1>3, <2>1
  <2>4. \A i \in 1..Len(a), k \in 1..Len(b) : Earlier(a[i], b[k])
    <3> SUFFICES ASSUME NEW i \in 1..Len(a), NEW k \in 1..Len(b) PROVE Earlier(a[i], b[k])
      OBVIOUS
    <3>1. a[i].hole \in 1..(h - 1) /\ b[k].hole = h
      BY <2>2, <2>3
    <3>2. a[i].hole < b[k].hole
      BY <3>1
    <3> QED
      BY <3>2 DEF Earlier
  <2>5. Ordered(a \o b)
    BY <2>2, <2>3, <2>4, OrderedTogether
  <2>6. /\ a \o b \in Seq(ShotRecords)
        /\ \A i \in 1..Len(a) : (a \o b)[i] = a[i]
        /\ \A i \in 1..Len(b) : (a \o b)[Len(a) + i] = b[i]
        /\ \A i \in 1..Len(a \o b) : i \in 1..Len(a) \/ \E k \in 1..Len(b) : i = Len(a) + k
    BY <2>2, <2>3, Concatenated
  <2>7. ASSUME NEW i \in 1..Len(a \o b) PROVE (a \o b)[i].hole \in 1..h
    <3>1. CASE i \in 1..Len(a)
      <4>1. (a \o b)[i].hole \in 1..(h - 1)
        BY <2>2, <2>6, <3>1
      <4> QED
        BY <4>1
    <3>2. ASSUME NEW k \in 1..Len(b), i = Len(a) + k PROVE (a \o b)[i].hole = h
      BY <2>3, <2>6, <3>2
    <3>3. h \in 1..h
      OBVIOUS
    <3> QED
      BY <2>6, <3>1, <3>2, <3>3
  <2>8. shots[h] = a \o b
    BY <1>6, <2>1 DEF AfterRound, Round
  <2> QED
    BY <2>5, <2>6, <2>7, <2>8 DEF UpToHole
<1> HIDE DEF Good
<1>9. 0 \in T /\ \A h \in 1..N : h - 1 \in T => h \in T
  BY <1>7, <1>8
<1> HIDE DEF T
<1>10. N \in T
  <2>1. \A h \in 0..N : h \in T
    BY <1>9, UpToN
  <2> QED
    BY <2>1
<1> QED
  BY <1>1, <1>2, <1>10 DEF T, Good

(***************************************************************************)
(* The killer test: one winner, and the best of its breaches.              *)
(***************************************************************************)
HoleScores == [Slots -> Int]

LEMMA HoleScoreType ==
    ASSUME NEW hole \in JudgedHoles
    PROVE  HoleScore(hole) \in HoleScores
<1>1. ASSUME NEW s \in Slots PROVE Breaches(hole, s) \in Nat
  <2>1. PICK outcomes \in Seq(Outcomes), n \in Nat : outcomes = hole.outcomes[s] /\ n = Len(outcomes)
    BY DEF JudgedHoles
  <2>2. IsFiniteSet(1..n)
    BY FS_Interval
  <2>3. PICK breached : breached = {i \in DOMAIN hole.outcomes[s] : hole.outcomes[s][i] = "breach"}
    OBVIOUS
  <2>4. breached \subseteq 1..n
    <3>1. breached \subseteq DOMAIN outcomes
      BY <2>1, <2>3
    <3> QED
      BY <2>1, <3>1
  <2>5. Cardinality(breached) \in Nat
    BY <2>2, <2>4, FS_Subset, FS_CardinalityType
  <2> QED
    BY <2>3, <2>5, Zenon DEF Breaches
<1>2. Breaches(hole, 0) \in Nat /\ Breaches(hole, 1) \in Nat
  BY <1>1 DEF Slots
<1>3. hole.parFails[0] \in Nat /\ hole.parFails[1] \in Nat
  BY DEF JudgedHoles, Slots
<1>4. PICK delta \in Int :
         delta = (Breaches(hole, 0) + hole.parFails[1]) - (Breaches(hole, 1) + hole.parFails[0])
  BY <1>2, <1>3
<1>5. HoleScore(hole) = [s \in Slots |-> IF s = 0 THEN delta ELSE -delta]
  BY <1>4, Zenon DEF HoleScore
<1> QED
  BY <1>4, <1>5 DEF HoleScores

LEMMA PerHoleType ==
    ASSUME NEW holes \in Seq(JudgedHoles)
    PROVE  PerHole(holes) \in Seq(HoleScores) /\ Len(PerHole(holes)) = Len(holes)
<1>1. PICK n \in Nat : n = Len(holes)
  OBVIOUS
<1>2. PerHole(holes) = [h \in 1..n |-> HoleScore(holes[h])]
  BY <1>1 DEF PerHole
<1>3. \A h \in 1..n : HoleScore(holes[h]) \in HoleScores
  BY <1>1, HoleScoreType
<1>4. PerHole(holes) \in [1..n -> HoleScores]
  BY <1>2, <1>3
<1>5. ASSUME NEW T, NEW t \in [1..n -> T] PROVE t \in Seq(T) /\ Len(t) = n
  OBVIOUS
<1> QED
  BY <1>1, <1>4, <1>5

LEMMA MatchScoresType ==
    ASSUME NEW perHole \in Seq(HoleScores)
    PROVE  MatchScores(perHole) \in HoleScores
<1>1. PICK N \in Nat : N = Len(perHole)
  OBVIOUS
<1> DEFINE Is(g) == g = [n \in 0..Len(perHole) |->
                            IF n = 0 THEN Zero ELSE Plus(g[n - 1], perHole[n])]
           total == CHOOSE g : Is(g)
<1>2. MatchScores(perHole) = total[Len(perHole)]
  BY Zenon DEF MatchScores
<1>3. \A x, y \in HoleScores : Plus(x, y) \in HoleScores
  BY DEF Plus, HoleScores
<1>4. Zero \in HoleScores
  BY DEF Zero, HoleScores
<1>5. \E f : Is(f) /\ f[N] \in HoleScores
  <2> DEFINE F == [p \in HoleScores \X HoleScores |-> Plus(p[1], p[2])]
  <2>1. Folds(F, HoleScores, HoleScores)
    BY <1>3 DEF Folds
  <2>2. \A x, y \in HoleScores : F[<<x, y>>] = Plus(x, y)
    OBVIOUS
  <2>3. Inputs(perHole, N, HoleScores)
    BY <1>1 DEF Inputs
  <2> HIDE DEF F
  <2>5. PICK f : Iterates(f, F, HoleScores, Zero, N, perHole)
    BY <1>4, <2>1, <2>3, Iterated
  <2>6. ASSUME NEW n \in 1..N PROVE f[n] = Plus(f[n - 1], perHole[n])
    <3>1. f[n - 1] \in HoleScores /\ perHole[n] \in HoleScores
      BY <2>3, <2>5 DEF Iterates, Inputs
    <3> QED
      BY <2>2, <2>5, <3>1 DEF Iterates
  <2>7. Is(f)
    BY <1>1, <2>5, <2>6 DEF Iterates
  <2>8. f[N] \in HoleScores
    BY <2>5 DEF Iterates
  <2> QED
    BY <2>7, <2>8
<1>6. Is(total)
  BY <1>5, Zenon
<1> HIDE DEF total
<1>7. total[0] = Zero /\ \A n \in 1..N : total[n] = Plus(total[n - 1], perHole[n])
  BY <1>1, <1>6
<1> DEFINE T == {n \in 0..N : total[n] \in HoleScores}
<1>8. 0 \in T
  BY <1>4, <1>7
<1>9. ASSUME NEW n \in 1..N, n - 1 \in T PROVE n \in T
  <2>1. total[n - 1] \in HoleScores /\ perHole[n] \in HoleScores
    BY <1>1, <1>9
  <2>2. total[n] \in HoleScores
    BY <1>3, <1>7, <2>1
  <2> QED
    BY <2>2
<1> HIDE DEF T
<1>10. N \in T
  <2>1. \A n \in 0..N : n \in T
    BY <1>8, <1>9, UpToN
  <2> QED
    BY <2>1
<1> QED
  BY <1>1, <1>2, <1>10 DEF T

LEMMA OneWinner ==
    ASSUME NEW scores \in HoleScores, NEW s \in Winners(scores), NEW t \in Winners(scores)
    PROVE  s = t /\ s \in Slots
<1>1. scores[0] \in Int /\ scores[1] \in Int
  BY DEF HoleScores, Slots
<1>2. s \in {0, 1} /\ t \in {0, 1} /\ scores[s] > scores[1 - s] /\ scores[t] > scores[1 - t]
  BY DEF Winners, Slots
<1>3. ~(s = 0 /\ t = 1) /\ ~(s = 1 /\ t = 0)
  BY <1>1, <1>2
<1> QED
  BY <1>2, <1>3 DEF Slots

\* The first of the best among some shots.
Swing(shots, perHole, n) == perHole[shots[n].hole][shots[n].slot]
IsFirstBest(m, shots, perHole, S) ==
    /\ m \in S
    /\ \A k \in S : \/ Swing(shots, perHole, m) > Swing(shots, perHole, k)
                    \/ Swing(shots, perHole, m) = Swing(shots, perHole, k) /\ m <= k
IsBest(best, shots, perHole, S) ==
    IF S = {} THEN best = None
    ELSE \E m \in S : best = shots[m] /\ IsFirstBest(m, shots, perHole, S)
BreachesOf(champions, shots, n) ==
    {i \in 1..n : shots[i].slot \in champions /\ shots[i].outcome = "breach"}

\* One more breach is better than the best so far only with a larger swing.
LEMMA BestSoFar ==
    ASSUME NEW shots \in Seq(ShotRecords), Ordered(shots), NEW perHole, NEW champions,
           NEW N \in 1..Len(shots),
           \A s, t \in champions : s = t,
           \A i \in 1..Len(shots) : Swing(shots, perHole, i) \in Int /\ shots[i].hole \in Nat \ {0},
           NEW best, IsBest(best, shots, perHole, BreachesOf(champions, shots, N - 1))
    PROVE  IsBest(Better(best, shots[N], perHole, champions), shots, perHole,
                  BreachesOf(champions, shots, N))
<1>1. PICK S, V : S = BreachesOf(champions, shots, N - 1) /\ V = BreachesOf(champions, shots, N)
  OBVIOUS
<1>2. N \in Nat /\ \A i \in 1..N : i \in 1..Len(shots) /\ (i = N \/ i \in 1..(N - 1))
  OBVIOUS
<1>3. N \in 1..N /\ N \notin 1..(N - 1) /\ \A i \in 1..(N - 1) : i \in 1..N /\ i < N
  BY <1>2
<1>4. PICK better : better = Better(best, shots[N], perHole, champions)
  OBVIOUS
<1>5. CASE ~(shots[N].slot \in champions /\ shots[N].outcome = "breach")
  <2>1. V = S
    BY <1>1, <1>2, <1>3, <1>5 DEF BreachesOf
  <2>2. better = best
    BY <1>4, <1>5 DEF Better
  <2> QED
    BY <1>1, <1>4, <2>1, <2>2
<1>6. CASE shots[N].slot \in champions /\ shots[N].outcome = "breach"
  <2>1. V = S \cup {N} /\ \A i \in S : i \in 1..Len(shots) /\ i < N /\ shots[i].slot \in champions
    BY <1>1, <1>2, <1>3, <1>6 DEF BreachesOf
  <2>2. CASE S = {}
    <3>1. better = shots[N]
      BY <1>1, <1>4, <1>6, <2>2 DEF IsBest, Better
    <3>2. IsFirstBest(N, shots, perHole, V)
      BY <1>2, <2>1, <2>2 DEF IsFirstBest
    <3> QED
      BY <1>1, <1>4, <2>1, <3>1, <3>2 DEF IsBest
  <2>3. CASE S # {}
    <3>1. PICK m \in S : best = shots[m] /\ IsFirstBest(m, shots, perHole, S)
      BY <1>1, <2>3 DEF IsBest
    <3>2. m \in 1..Len(shots) /\ m < N /\ m \in Nat
      BY <2>1
    <3>3. Earlier(shots[m], shots[N])
      <4>1. shots[m].slot = shots[N].slot
        BY <1>6, <2>1
      <4> QED
        BY <3>2, <4>1 DEF Ordered
    <3>4. best # None
      <4>1. shots[m].hole # 0
        BY <3>2
      <4> QED
        BY <3>1, <4>1 DEF None
    <3>5. PICK x \in Int, y \in Int : x = Swing(shots, perHole, N) /\ y = Swing(shots, perHole, m)
      BY <3>2
    <3>6. shots[N].hole \in Nat /\ shots[m].hole \in Nat /\ shots[N].idx \in Nat /\ shots[m].idx \in Nat
      <4>1. shots[N] \in ShotRecords /\ shots[m] \in ShotRecords
        BY <3>2
      <4> QED
        BY <4>1 DEF ShotRecords
    <3>7. Before(Key(shots[N], perHole), Key(shots[m], perHole)) <=> x > y
      <4>1. /\ Key(shots[N], perHole) = <<-x, shots[N].hole, shots[N].idx>>
            /\ Key(shots[m], perHole) = <<-y, shots[m].hole, shots[m].idx>>
        BY <3>5 DEF Key, Swing
      <4>2. PICK a \in Nat, b \in Nat, c \in Nat, d \in Nat :
               a = shots[N].hole /\ b = shots[N].idx /\ c = shots[m].hole /\ d = shots[m].idx
        BY <3>6
      <4>3. c < a \/ (c = a /\ d < b)
        BY <3>3, <4>2 DEF Earlier
      <4>4. Before(<<-x, a, b>>, <<-y, c, d>>) <=> x > y
        BY <4>3 DEF Before
      <4> QED
        BY <4>1, <4>2, <4>4
    <3>8. better = IF x > y THEN shots[N] ELSE best
      BY <1>4, <1>6, <3>1, <3>4, <3>7 DEF Better
    <3>9. \A k \in S : Swing(shots, perHole, k) \in Int /\ k < N /\ k \in Nat
      BY <2>1
    <3>10. CASE x > y
      <4>1. ASSUME NEW k \in S PROVE x > Swing(shots, perHole, k)
        <5>1. y > Swing(shots, perHole, k) \/ y = Swing(shots, perHole, k)
          BY <3>1, <3>5 DEF IsFirstBest
        <5> QED
          BY <3>9, <3>10, <5>1
      <4>2. IsFirstBest(N, shots, perHole, V)
        BY <1>2, <2>1, <3>5, <4>1 DEF IsFirstBest
      <4> QED
        BY <1>1, <1>4, <2>1, <3>8, <3>10, <4>2 DEF IsBest
    <3>11. CASE ~(x > y)
      <4>1. y > x \/ (y = x /\ m <= N)
        BY <1>2, <3>2, <3>11
      <4>2. IsFirstBest(m, shots, perHole, V)
        BY <2>1, <3>1, <3>5, <4>1 DEF IsFirstBest
      <4> QED
        BY <1>1, <1>4, <2>1, <3>1, <3>8, <3>11, <4>2 DEF IsBest
    <3> QED
      BY <3>10, <3>11
  <2> QED
    BY <2>2, <2>3
<1> QED
  BY <1>5, <1>6

\* The best of all, one shot after the other.
LEMMA KillerOf ==
    ASSUME NEW shots \in Seq(ShotRecords), Ordered(shots), NEW perHole, NEW scores,
           \A s, t \in Winners(scores) : s = t,
           \A i \in 1..Len(shots) : Swing(shots, perHole, i) \in Int /\ shots[i].hole \in Nat \ {0}
    PROVE  IsBest(KillerTest(shots, perHole, scores), shots, perHole,
                  BreachesOf(Winners(scores), shots, Len(shots)))
<1>1. PICK N \in Nat : N = Len(shots)
  OBVIOUS
<1>2. PICK champions : champions = Winners(scores)
  OBVIOUS
<1> DEFINE A == ShotRecords \cup {None}
           Is(g) == g = [n \in 0..Len(shots) |->
                            IF n = 0 THEN None ELSE Better(g[n - 1], shots[n], perHole, Winners(scores))]
           best == CHOOSE g : Is(g)
<1>3. KillerTest(shots, perHole, scores) = best[Len(shots)]
  BY Zenon DEF KillerTest
<1>4. \A x \in A, y \in ShotRecords : Better(x, y, perHole, Winners(scores)) \in A
  BY Zenon DEF Better
<1>5. \E f : Is(f)
  <2> DEFINE F == [p \in A \X ShotRecords |-> Better(p[1], p[2], perHole, Winners(scores))]
  <2> HIDE DEF A
  <2>1. Folds(F, A, ShotRecords)
    BY <1>4 DEF Folds
  <2>2. \A x \in A, y \in ShotRecords : F[<<x, y>>] = Better(x, y, perHole, Winners(scores))
    OBVIOUS
  <2>3. Inputs(shots, N, ShotRecords)
    BY <1>1 DEF Inputs
  <2>4. None \in A
    BY DEF A
  <2> HIDE DEF F
  <2>5. PICK f : Iterates(f, F, A, None, N, shots)
    BY <2>1, <2>3, <2>4, Iterated
  <2>6. ASSUME NEW n \in 1..N PROVE f[n] = Better(f[n - 1], shots[n], perHole, Winners(scores))
    <3>1. f[n - 1] \in A /\ shots[n] \in ShotRecords
      BY <2>3, <2>5 DEF Iterates, Inputs
    <3> QED
      BY <2>2, <2>5, <3>1 DEF Iterates
  <2>7. Is(f)
    BY <1>1, <2>5, <2>6 DEF Iterates
  <2> QED
    BY <2>7
<1>6. Is(best)
  BY <1>5, Zenon
<1> HIDE DEF best
<1>7. best[0] = None /\ \A n \in 1..N : best[n] = Better(best[n - 1], shots[n], perHole, champions)
  BY <1>1, <1>2, <1>6
<1> DEFINE T == {n \in 0..N : IsBest(best[n], shots, perHole, BreachesOf(champions, shots, n))}
<1>8. 0 \in T
  <2>1. BreachesOf(champions, shots, 0) = {}
    BY DEF BreachesOf
  <2> QED
    BY <1>7, <2>1 DEF IsBest
<1>9. ASSUME NEW n \in 1..N, n - 1 \in T PROVE n \in T
  <2>1. n \in 1..Len(shots) /\ n \in 0..N
    BY <1>1
  <2>2. IsBest(best[n - 1], shots, perHole, BreachesOf(champions, shots, n - 1))
    BY <1>9
  <2>3. IsBest(best[n], shots, perHole, BreachesOf(champions, shots, n))
    BY <1>2, <1>7, <2>1, <2>2, BestSoFar
  <2> QED
    BY <2>1, <2>3
<1> HIDE DEF T
<1>10. N \in T
  <2>1. \A n \in 0..N : n \in T
    BY <1>8, <1>9, UpToN
  <2> QED
    BY <2>1
<1> QED
  BY <1>1, <1>2, <1>3, <1>10 DEF T

BestOf(shots, perHole, S) == {n \in S : \A k \in S : Swing(shots, perHole, n) >= Swing(shots, perHole, k)}

LEMMA FirstOfBest ==
    ASSUME NEW shots, NEW perHole, NEW N \in Nat, NEW S \in SUBSET (1..N),
           \A i \in S : Swing(shots, perHole, i) \in Int,
           NEW m \in S, IsFirstBest(m, shots, perHole, S)
    PROVE  Min(BestOf(shots, perHole, S)) = m
<1>0. PICK best : best = {n \in S : \A k \in S : Swing(shots, perHole, n) >= Swing(shots, perHole, k)}
  OBVIOUS
<1>1. ASSUME NEW k \in S
      PROVE  Swing(shots, perHole, m) >= Swing(shots, perHole, k)
  BY DEF IsFirstBest
<1>2. m \in best
  BY <1>0, <1>1
<1>3. ASSUME NEW k \in best PROVE m <= k
  <2>1. k \in S /\ Swing(shots, perHole, k) >= Swing(shots, perHole, m)
    BY <1>0
  <2>2. Swing(shots, perHole, k) \in Int /\ Swing(shots, perHole, m) \in Int
    BY <2>1
  <2>3. ~(Swing(shots, perHole, m) > Swing(shots, perHole, k))
    BY <2>1, <2>2
  <2> QED
    BY <2>1, <2>3 DEF IsFirstBest
<1>4. PICK x \in Nat, y \in Nat : x = Min(best) /\ y = m /\ x \in best /\ x <= y
  <2>1. best \in SUBSET Nat /\ best # {}
    <3>1. \A i \in S : i \in Nat
      OBVIOUS
    <3>2. \A i \in best : i \in S
      BY <1>0
    <3> QED
      BY <1>2, <3>1, <3>2
  <2>2. Min(best) \in best /\ \A k \in best : Min(best) <= k
    BY <2>1, SmallestOf
  <2> QED
    BY <1>2, <2>1, <2>2
<1>5. y <= x
  BY <1>3, <1>4
<1> QED
  BY <1>0, <1>4, <1>5 DEF BestOf

LEMMA KillerOfMatch ==
    ASSUME NEW holes \in Seq(JudgedHoles)
    PROVE  LET perHole == PerHole(holes)
               shots == Shots(holes)
               scores == MatchScores(perHole)
           IN /\ IsBest(KillerTest(shots, perHole, scores), shots, perHole,
                        BreachesOf(Winners(scores), shots, Len(shots)))
              /\ \A i \in 1..Len(shots) : Swing(shots, perHole, i) \in Int
<1>1. PICK perHole, shots, scores :
         perHole = PerHole(holes) /\ shots = Shots(holes) /\ scores = MatchScores(perHole)
  OBVIOUS
<1>2. perHole \in Seq(HoleScores) /\ Len(perHole) = Len(holes)
  BY <1>1, PerHoleType
<1>3. scores \in HoleScores
  BY <1>1, <1>2, MatchScoresType
<1>4. shots \in Seq(ShotRecords) /\ Ordered(shots) /\ \A i \in 1..Len(shots) : shots[i].hole \in 1..Len(holes)
  BY <1>1, ShotsOf DEF UpToHole
<1>5. \A s, t \in Winners(scores) : s = t
  BY <1>3, OneWinner
<1>6. ASSUME NEW i \in 1..Len(shots)
      PROVE  Swing(shots, perHole, i) \in Int /\ shots[i].hole \in Nat \ {0}
  <2>1. shots[i] \in ShotRecords
    BY <1>4
  <2>2. shots[i].slot \in Slots
    BY <2>1 DEF ShotRecords
  <2>3. shots[i].hole \in 1..Len(perHole)
    BY <1>2, <1>4
  <2>4. perHole[shots[i].hole] \in HoleScores
    BY <1>2, <2>3
  <2>5. perHole[shots[i].hole][shots[i].slot] \in Int
    BY <2>2, <2>4 DEF HoleScores
  <2>6. shots[i].hole \in Nat \ {0}
    BY <1>4
  <2> QED
    BY <2>5, <2>6 DEF Swing
<1>7. IsBest(KillerTest(shots, perHole, scores), shots, perHole,
             BreachesOf(Winners(scores), shots, Len(shots)))
  BY <1>4, <1>5, <1>6, KillerOf
<1> QED
  BY <1>1, <1>6, <1>7

\* The killer test is the first breach of the winner's with its largest
\* swing, for every match: the shots are in the order of the tie break, and
\* at most one seat has won.
THEOREM KillerDecisive == Spec => []KillerIsDecisive
<1> DEFINE Typed == subject.kind = "match" => subject.holes \in Seq(JudgedHoles)
<1>1. Init => Typed
  BY RulesAssumption DEF Init
<1>2. Typed /\ [Next]_subject => Typed'
  BY DEF Next
<1>3. ASSUME Typed PROVE KillerIsDecisive
  <2> SUFFICES ASSUME subject.kind = "match" PROVE KillerIsDecisive
    BY DEF KillerIsDecisive
  <2>1. PICK holes \in Seq(JudgedHoles) : holes = subject.holes
    BY <1>3
  <2>2. PICK perHole, shots, scores :
           perHole = PerHole(holes) /\ shots = Shots(holes) /\ scores = MatchScores(perHole)
    OBVIOUS
  <2>3. PICK champions, killer :
           champions = Winners(scores) /\ killer = KillerTest(shots, perHole, scores)
    OBVIOUS
  <2>4. PICK N \in Nat : N = Len(shots) /\ DOMAIN shots = 1..N
    BY <2>2, ShotsOf
  <2>5. PICK theirs : theirs = {n \in DOMAIN shots :
                                   shots[n].slot \in champions /\ shots[n].outcome = "breach"}
    OBVIOUS
  <2>6. theirs = BreachesOf(champions, shots, N) /\ theirs \in SUBSET (1..N)
    BY <2>4, <2>5 DEF BreachesOf
  <2>7. IsBest(killer, shots, perHole, theirs) /\ \A i \in 1..N : Swing(shots, perHole, i) \in Int
    BY <2>2, <2>3, <2>4, <2>6, KillerOfMatch
  <2>8. PICK best : best = {n \in theirs : \A k \in theirs :
                               perHole[shots[n].hole][shots[n].slot]
                                  >= perHole[shots[k].hole][shots[k].slot]}
    OBVIOUS
  <2>9. theirs = {} => killer = None
    BY <2>7 DEF IsBest
  <2>10. ASSUME theirs # {} PROVE killer = shots[Min(best)]
    <3>1. PICK m \in theirs : killer = shots[m] /\ IsFirstBest(m, shots, perHole, theirs)
      BY <2>7, <2>10 DEF IsBest
    <3>2. best = BestOf(shots, perHole, theirs)
      BY <2>8 DEF BestOf, Swing
    <3>3. \A i \in theirs : Swing(shots, perHole, i) \in Int
      BY <2>6, <2>7
    <3>4. Min(best) = m
      BY <2>6, <3>1, <3>2, <3>3, FirstOfBest
    <3> QED
      BY <3>1, <3>4
  <2> QED
    BY <2>1, <2>2, <2>3, <2>5, <2>8, <2>9, <2>10, Zenon DEF KillerIsDecisive
<1> QED
  BY <1>1, <1>2, <1>3, PTL DEF Spec

--------------------------------------------------------------------------------
(***************************************************************************)
(* The span of an object: the scan of one text after another.              *)
(***************************************************************************)
Characters == {"open", "close", "quote", "backslash", "other"}
Texts == Seq(Characters)
ScanStates == [depth : Int, string : BOOLEAN, escape : BOOLEAN, length : Int, done : BOOLEAN]

LEMMA ReadType ==
    ASSUME NEW at \in ScanStates, NEW ch
    PROVE  Read(at, ch) \in ScanStates
<1>1. Outside(at, ch) \in ScanStates
  <2>1. \A d \in Int : [at EXCEPT !.depth = d] \in ScanStates
    BY DEF ScanStates
  <2>2. [at EXCEPT !.depth = 0, !.done = TRUE] \in ScanStates
    <3>1. \A x \in ScanStates : [x EXCEPT !.done = TRUE] \in ScanStates
      BY DEF ScanStates
    <3>2. [at EXCEPT !.depth = 0] \in ScanStates
      BY <2>1
    <3> QED
      BY <3>1, <3>2
  <2>3. [at EXCEPT !.string = TRUE] \in ScanStates
    BY DEF ScanStates
  <2>4. at.depth + 1 \in Int /\ at.depth - 1 \in Int
    BY DEF ScanStates
  <2> QED
    BY <2>1, <2>2, <2>3, <2>4 DEF Outside
<1>2. InString(at, ch) \in ScanStates
  BY DEF InString, ScanStates
<1>3. ASSUME NEW x \in ScanStates PROVE [x EXCEPT !.length = @ + 1] \in ScanStates
  BY DEF ScanStates
<1> QED
  BY <1>1, <1>2, <1>3 DEF Read

Steps(at, start, text) ==
    /\ at[0] = start
    /\ \A n \in 1..Len(text) : at[n] = Read(at[n - 1], text[n])
    /\ ScanFrom(start, text) = at[Len(text)]
    /\ at[Len(text)] \in ScanStates

LEMMA Scanned ==
    ASSUME NEW start \in ScanStates, NEW text \in Texts
    PROVE  \E at : Steps(at, start, text)
<1>1. PICK N \in Nat : N = Len(text)
  BY DEF Texts
<1> DEFINE Is(g) == g = [n \in 0..Len(text) |-> IF n = 0 THEN start ELSE Read(g[n - 1], text[n])]
           at == CHOOSE g : Is(g)
<1>2. ScanFrom(start, text) = at[Len(text)]
  BY Zenon DEF ScanFrom
<1>3. \E f : Is(f)
  <2> DEFINE F == [p \in ScanStates \X Characters |-> Read(p[1], p[2])]
  <2>1. Folds(F, ScanStates, Characters)
    BY ReadType DEF Folds
  <2>2. \A x \in ScanStates, y \in Characters : F[<<x, y>>] = Read(x, y)
    OBVIOUS
  <2>3. Inputs(text, N, Characters)
    BY <1>1 DEF Inputs, Texts
  <2> HIDE DEF F
  <2>5. PICK f : Iterates(f, F, ScanStates, start, N, text)
    BY <2>1, <2>3, Iterated
  <2>6. ASSUME NEW n \in 1..N PROVE f[n] = Read(f[n - 1], text[n])
    <3>1. f[n - 1] \in ScanStates /\ text[n] \in Characters
      BY <2>3, <2>5 DEF Iterates, Inputs
    <3> QED
      BY <2>2, <2>5, <3>1 DEF Iterates
  <2>7. Is(f)
    BY <1>1, <2>5, <2>6 DEF Iterates
  <2> QED
    BY <2>7
<1>4. Is(at)
  BY <1>3, Zenon
<1> HIDE DEF at
<1>5. at[0] = start /\ \A n \in 1..N : at[n] = Read(at[n - 1], text[n])
  BY <1>1, <1>4
<1> DEFINE T == {n \in 0..N : at[n] \in ScanStates}
<1>6. 0 \in T
  BY <1>5
<1>7. ASSUME NEW n \in 1..N, n - 1 \in T PROVE n \in T
  BY <1>5, <1>7, ReadType
<1> HIDE DEF T
<1>8. N \in T
  <2>1. \A n \in 0..N : n \in T
    BY <1>6, <1>7, UpToN
  <2> QED
    BY <2>1
<1>9. at[N] \in ScanStates
  BY <1>8 DEF T
<1>10. Steps(at, start, text)
  BY <1>1, <1>2, <1>5, <1>9 DEF Steps
<1> QED
  BY <1>10

\* The scan of a text that follows another goes on where that ended.
LEMMA ScanOn ==
    ASSUME NEW start \in ScanStates, NEW t \in Texts, NEW u \in Texts
    PROVE  ScanFrom(start, t \o u) = ScanFrom(ScanFrom(start, t), u)
<1>1. PICK n \in Nat, m \in Nat : n = Len(t) /\ m = Len(u)
  BY DEF Texts
<1>2. PICK w \in Texts : w = t \o u
  <2>1. t \o u \in Texts
    BY Concatenated DEF Texts
  <2> QED
    BY <2>1
<1>3. /\ Len(w) = n + m /\ \A i \in 1..n : w[i] = t[i] /\ i \in 1..(n + m)
      /\ \A i \in 1..m : w[n + i] = u[i] /\ n + i \in 1..(n + m)
  <2>1. /\ Len(t \o u) = Len(t) + Len(u) /\ \A i \in 1..Len(t) : (t \o u)[i] = t[i]
        /\ \A i \in 1..Len(u) : (t \o u)[Len(t) + i] = u[i]
    BY Concatenated DEF Texts
  <2>2. \A i \in 1..n : i \in 1..(n + m)
    OBVIOUS
  <2>3. \A i \in 1..m : n + i \in 1..(n + m)
    OBVIOUS
  <2> QED
    BY <1>1, <1>2, <2>1, <2>2, <2>3
<1>41. PICK f : Steps(f, start, t)
  BY Scanned
<1>4. /\ f[0] = start /\ \A i \in 1..n : f[i] = Read(f[i - 1], t[i])
      /\ ScanFrom(start, t) = f[n] /\ f[n] \in ScanStates
  BY <1>1, <1>41 DEF Steps
<1>51. PICK g : Steps(g, f[n], u)
  BY <1>4, Scanned
<1>5. /\ g[0] = f[n] /\ \A i \in 1..m : g[i] = Read(g[i - 1], u[i])
      /\ ScanFrom(f[n], u) = g[m]
  BY <1>1, <1>51 DEF Steps
<1>61. PICK h : Steps(h, start, w)
  BY Scanned
<1>6. /\ h[0] = start /\ \A i \in 1..(n + m) : h[i] = Read(h[i - 1], w[i])
      /\ ScanFrom(start, w) = h[n + m]
  BY <1>3, <1>61 DEF Steps
<1>7. h[n] = f[n]
  <2> DEFINE T == {i \in 0..n : h[i] = f[i]}
  <2>1. 0 \in T
    BY <1>4, <1>6
  <2>2. ASSUME NEW i \in 1..n, i - 1 \in T PROVE i \in T
    <3>1. h[i] = Read(h[i - 1], t[i]) /\ f[i] = Read(f[i - 1], t[i])
      BY <1>3, <1>4, <1>6
    <3>2. h[i - 1] = f[i - 1]
      BY <2>2
    <3> QED
      BY <3>1, <3>2
  <2> HIDE DEF T
  <2>3. \A i \in 0..n : i \in T
    BY <2>1, <2>2, UpToN
  <2> QED
    BY <2>3 DEF T
<1>8. h[n + m] = g[m]
  <2> DEFINE T == {i \in 0..m : h[n + i] = g[i]}
  <2>1. 0 \in T
    BY <1>5, <1>7
  <2>2. ASSUME NEW i \in 1..m, i - 1 \in T PROVE i \in T
    <3>1. (n + i) - 1 = n + (i - 1)
      OBVIOUS
    <3>2. h[n + i] = Read(h[n + (i - 1)], u[i]) /\ g[i] = Read(g[i - 1], u[i])
      BY <1>3, <1>5, <1>6, <3>1
    <3>3. h[n + (i - 1)] = g[i - 1]
      BY <2>2
    <3> QED
      BY <3>2, <3>3
  <2> HIDE DEF T
  <2>3. \A i \in 0..m : i \in T
    BY <2>1, <2>2, UpToN
  <2> QED
    BY <2>3 DEF T
<1> QED
  BY <1>2, <1>4, <1>5, <1>6, <1>8

LEMMA ScanOne ==
    ASSUME NEW start \in ScanStates, NEW c \in Characters
    PROVE  ScanFrom(start, <<c>>) = Read(start, c) /\ ScanFrom(start, <<>>) = start
<1>1. <<c>> \in Texts /\ Len(<<c>>) = 1 /\ <<c>>[1] = c /\ <<>> \in Texts /\ Len(<<>>) = 0
  BY DEF Texts
<1>20. PICK f : Steps(f, start, <<>>)
  BY <1>1, Scanned
<1>2. f[0] = start /\ ScanFrom(start, <<>>) = f[0]
  BY <1>1, <1>20 DEF Steps
<1>30. PICK g : Steps(g, start, <<c>>)
  BY <1>1, Scanned
<1>3. g[0] = start /\ ScanFrom(start, <<c>>) = g[1]
  BY <1>1, <1>30 DEF Steps
<1>4. g[1] = Read(g[0], c)
  <2>1. 1 \in 1..Len(<<c>>) /\ 1 - 1 = 0
    BY <1>1
  <2>2. g[1] = Read(g[1 - 1], <<c>>[1])
    BY <1>30, <2>1 DEF Steps
  <2> QED
    BY <1>1, <2>1, <2>2
<1> QED
  BY <1>2, <1>3, <1>4

(***************************************************************************)
(* The span of an object: what a text does to the scan.                    *)
(***************************************************************************)
At(d, string, escape, n, done) ==
    [depth |-> d, string |-> string, escape |-> escape, length |-> n, done |-> done]
Between(d, n) == At(d, FALSE, FALSE, n, FALSE)
Inside(d, n) == At(d, TRUE, FALSE, n, FALSE)
Escaped(d, n) == At(d, TRUE, TRUE, n, FALSE)
Closed(n) == At(0, FALSE, FALSE, n, TRUE)

LEMMA ScanTypes ==
    ASSUME NEW d \in Int, NEW n \in Int
    PROVE  /\ Between(d, n) \in ScanStates /\ Inside(d, n) \in ScanStates
           /\ Escaped(d, n) \in ScanStates /\ Closed(n) \in ScanStates
BY DEF Between, Inside, Escaped, Closed, At, ScanStates

LEMMA ReadInside ==
    ASSUME NEW d \in Int, NEW n \in Int
    PROVE  /\ \A c \in Characters \ {"quote", "backslash"} : Read(Inside(d, n), c) = Inside(d, n + 1)
           /\ Read(Inside(d, n), "backslash") = Escaped(d, n + 1)
           /\ Read(Inside(d, n), "quote") = Between(d, n + 1)
           /\ \A c \in Characters : Read(Escaped(d, n), c) = Inside(d, n + 1)
<1>1. \A c \in Characters \ {"quote", "backslash"} : Read(Inside(d, n), c) = Inside(d, n + 1)
  BY DEF Read, InString, Inside, At
<1>2. Read(Inside(d, n), "backslash") = Escaped(d, n + 1)
  BY DEF Read, InString, Inside, Escaped, At
<1>3. Read(Inside(d, n), "quote") = Between(d, n + 1)
  BY DEF Read, InString, Inside, Between, At
<1>4. \A c \in Characters : Read(Escaped(d, n), c) = Inside(d, n + 1)
  BY DEF Read, InString, Inside, Escaped, At
<1> QED
  BY <1>1, <1>2, <1>3, <1>4

LEMMA ReadBetween ==
    ASSUME NEW d \in Int, NEW n \in Int
    PROVE  /\ Read(Between(d, n), "other") = Between(d, n + 1)
           /\ Read(Between(d, n), "quote") = Inside(d, n + 1)
           /\ Read(Between(d, n), "open") = Between(d + 1, n + 1)
           /\ d # 1 => Read(Between(d, n), "close") = Between(d - 1, n + 1)
           /\ d = 1 => Read(Between(d, n), "close") = Closed(n + 1)
<1>1. Read(Between(d, n), "other") = Between(d, n + 1)
  BY DEF Read, Outside, Between, At
<1>2. Read(Between(d, n), "quote") = Inside(d, n + 1)
  BY DEF Read, Outside, Between, Inside, At
<1>3. Read(Between(d, n), "open") = Between(d + 1, n + 1)
  BY DEF Read, Outside, Between, At
<1>4. ASSUME d # 1 PROVE Read(Between(d, n), "close") = Between(d - 1, n + 1)
  BY <1>4 DEF Read, Outside, Between, At
<1>5. ASSUME d = 1 PROVE Read(Between(d, n), "close") = Closed(n + 1)
  BY <1>5 DEF Read, Outside, Between, Closed, At
<1> QED
  BY <1>1, <1>2, <1>3, <1>4, <1>5

LEMMA ReadClosed ==
    ASSUME NEW n \in Int, NEW c
    PROVE  Read(Closed(n), c) = Closed(n)
BY DEF Read, Closed, At

LEMMA ScanType ==
    ASSUME NEW start \in ScanStates, NEW t \in Texts
    PROVE  ScanFrom(start, t) \in ScanStates
<1>1. PICK f : Steps(f, start, t)
  BY Scanned
<1> QED
  BY <1>1 DEF Steps

LEMMA ScanNext ==
    ASSUME NEW start \in ScanStates, NEW t \in Texts, NEW c \in Characters
    PROVE  /\ t \o <<c>> \in Texts /\ Len(t \o <<c>>) = Len(t) + 1
           /\ ScanFrom(start, t \o <<c>>) = Read(ScanFrom(start, t), c)
<1>1. <<c>> \in Texts /\ Len(<<c>>) = 1
  BY DEF Texts
<1>2. ScanFrom(start, t \o <<c>>) = ScanFrom(ScanFrom(start, t), <<c>>)
  BY <1>1, ScanOn
<1>3. ScanFrom(start, t) \in ScanStates
  BY ScanType
<1>4. t \o <<c>> \in Texts /\ Len(t \o <<c>>) = Len(t) + 1
  BY <1>1, Concatenated DEF Texts
<1> QED
  BY <1>2, <1>3, <1>4, ScanOne

\* A text between two characters.
Around(c, t, e) == (<<c>> \o t) \o <<e>>

LEMMA ScanAround ==
    ASSUME NEW start \in ScanStates, NEW c \in Characters, NEW t \in Texts, NEW e \in Characters
    PROVE  /\ Around(c, t, e) \in Texts /\ Len(Around(c, t, e)) = Len(t) + 2
           /\ Around(c, t, e)[1] = c
           /\ ScanFrom(start, Around(c, t, e)) = Read(ScanFrom(Read(start, c), t), e)
<1>1. <<c>> \in Texts /\ Len(<<c>>) = 1 /\ <<c>>[1] = c /\ <<e>> \in Texts
  BY DEF Texts
<1>2. /\ <<c>> \o t \in Texts /\ Len(<<c>> \o t) = 1 + Len(t) /\ (<<c>> \o t)[1] = c
      /\ Len(t) \in Nat
  <2>1. 1 \in 1..Len(<<c>>)
    BY <1>1
  <2> QED
    BY <1>1, <2>1, Concatenated DEF Texts
<1>3. PICK w \in Texts : w = <<c>> \o t
  BY <1>2
<1>4. /\ w \o <<e>> \in Texts /\ Len(w \o <<e>>) = Len(w) + 1
      /\ ScanFrom(start, w \o <<e>>) = Read(ScanFrom(start, w), e)
  BY ScanNext
<1>5. ScanFrom(start, w) = ScanFrom(Read(start, c), t)
  BY <1>1, <1>3, ScanOn, ScanOne
<1>6. (w \o <<e>>)[1] = c
  <2>1. 1 \in 1..Len(w)
    BY <1>2, <1>3
  <2>2. (w \o <<e>>)[1] = w[1]
    BY <1>1, <2>1, Concatenated DEF Texts
  <2> QED
    BY <1>2, <1>3, <2>2
<1> QED
  BY <1>2, <1>3, <1>4, <1>5, <1>6 DEF Around

(***************************************************************************)
(* The texts of JSON objects, as far as the scan sees them: the least set  *)
(* of string bodies, then of member lists, that their rules close.         *)
(***************************************************************************)
Plain == Characters \ {"quote", "backslash"}
HoldsBodies(S) ==
    /\ <<>> \in S
    /\ \A s \in S, c \in Plain : s \o <<c>> \in S
    /\ \A s \in S, c \in Characters : (s \o <<"backslash">>) \o <<c>> \in S
Bodies == {s \in Texts : \A S \in SUBSET Texts : HoldsBodies(S) => s \in S}

HoldsMembers(S) ==
    /\ <<>> \in S
    /\ \A m \in S : m \o <<"other">> \in S
    /\ \A m \in S, s \in Bodies : m \o Around("quote", s, "quote") \in S
    /\ \A m \in S, k \in S : m \o Around("open", k, "close") \in S
Members == {m \in Texts : \A S \in SUBSET Texts : HoldsMembers(S) => m \in S}
ObjectTexts == {Around("open", m, "close") : m \in Members}

\* The rules do close these sets: there are such texts, of every depth.
LEMMA BodiesClosed == HoldsBodies(Bodies)
<1>1. <<>> \in Bodies
  BY DEF Bodies, HoldsBodies, Texts
<1>2. ASSUME NEW s \in Bodies, NEW c \in Plain PROVE s \o <<c>> \in Bodies
  <2>1. s \o <<c>> \in Texts
    BY Concatenated DEF Bodies, Texts, Plain
  <2>2. ASSUME NEW S \in SUBSET Texts, HoldsBodies(S) PROVE s \o <<c>> \in S
    <3>1. s \in S
      BY <2>2 DEF Bodies
    <3> QED
      BY <2>2, <3>1 DEF HoldsBodies
  <2> QED
    BY <2>1, <2>2 DEF Bodies
<1>3. ASSUME NEW s \in Bodies, NEW c \in Characters
      PROVE  (s \o <<"backslash">>) \o <<c>> \in Bodies
  <2>1. (s \o <<"backslash">>) \o <<c>> \in Texts
    <3>1. <<"backslash">> \in Texts /\ <<c>> \in Texts /\ s \in Texts
      BY DEF Bodies, Texts, Characters
    <3>2. s \o <<"backslash">> \in Texts
      BY <3>1, Concatenated DEF Texts
    <3> QED
      BY <3>1, <3>2, Concatenated DEF Texts
  <2>2. ASSUME NEW S \in SUBSET Texts, HoldsBodies(S)
        PROVE  (s \o <<"backslash">>) \o <<c>> \in S
    <3>1. s \in S
      BY <2>2 DEF Bodies
    <3> QED
      BY <2>2, <3>1 DEF HoldsBodies
  <2> QED
    BY <2>1, <2>2 DEF Bodies
<1> QED
  BY <1>1, <1>2, <1>3 DEF HoldsBodies

LEMMA MembersClosed == HoldsMembers(Members)
<1> DEFINE In(S) == S \in SUBSET Texts /\ HoldsMembers(S)
<1>1. \A m \in Members : m \in Texts /\ \A S : In(S) => m \in S
  BY DEF Members
<1>2. \A m \in Texts : (\A S : In(S) => m \in S) => m \in Members
  BY DEF Members
<1>3. /\ \A S : In(S) => <<>> \in S
      /\ \A S : In(S) => \A m \in S : m \o <<"other">> \in S
      /\ \A S : In(S) => \A m \in S, s \in Bodies : m \o Around("quote", s, "quote") \in S
      /\ \A S : In(S) => \A m \in S, k \in S : m \o Around("open", k, "close") \in S
  BY DEF HoldsMembers
<1> HIDE DEF In
<1>4. \A m \in Texts, u \in Texts : m \o u \in Texts
  BY Concatenated DEF Texts
<1>5. /\ <<>> \in Texts /\ <<"other">> \in Texts
      /\ "quote" \in Characters /\ "open" \in Characters /\ "close" \in Characters
  BY DEF Texts, Characters
<1>6. \A t \in Texts, c \in Characters, e \in Characters : Around(c, t, e) \in Texts
  <2> TAKE t \in Texts, c \in Characters, e \in Characters
  <2>1. <<c>> \in Texts /\ <<e>> \in Texts
    BY DEF Texts
  <2> QED
    BY <1>4, <2>1 DEF Around
<1>7. <<>> \in Members
  BY <1>2, <1>3, <1>5
<1>8. ASSUME NEW m \in Members PROVE m \o <<"other">> \in Members
  <2>1. m \o <<"other">> \in Texts
    BY <1>1, <1>4, <1>5
  <2>2. \A S : In(S) => m \o <<"other">> \in S
    BY <1>1, <1>3
  <2> QED
    BY <1>2, <2>1, <2>2
<1>9. ASSUME NEW m \in Members, NEW s \in Bodies
      PROVE  m \o Around("quote", s, "quote") \in Members
  <2>1. s \in Texts
    BY DEF Bodies
  <2>2. m \o Around("quote", s, "quote") \in Texts
    BY <1>1, <1>4, <1>5, <1>6, <2>1
  <2>3. \A S : In(S) => m \o Around("quote", s, "quote") \in S
    BY <1>1, <1>3
  <2> QED
    BY <1>2, <2>2, <2>3
<1>10. ASSUME NEW m \in Members, NEW k \in Members
       PROVE  m \o Around("open", k, "close") \in Members
  <2>1. m \o Around("open", k, "close") \in Texts
    BY <1>1, <1>4, <1>5, <1>6
  <2>2. \A S : In(S) => m \o Around("open", k, "close") \in S
    BY <1>1, <1>3
  <2> QED
    BY <1>2, <2>1, <2>2
<1> QED
  BY <1>7, <1>8, <1>9, <1>10 DEF HoldsMembers

\* A string leaves the scan where it was, between strings.
LEMMA BodyScanned ==
    ASSUME NEW d \in Int, NEW n \in Int, NEW s \in Bodies
    PROVE  s \in Texts /\ ScanFrom(Inside(d, n), s) = Inside(d, n + Len(s))
<1> DEFINE S == {t \in Texts : ScanFrom(Inside(d, n), t) = Inside(d, n + Len(t))}
<1>1. Inside(d, n) \in ScanStates
  BY ScanTypes
<1>2. <<>> \in S
  <2>1. <<>> \in Texts /\ Len(<<>>) = 0 /\ n + 0 = n /\ "other" \in Characters
    BY DEF Texts, Characters
  <2>2. ScanFrom(Inside(d, n), <<>>) = Inside(d, n)
    BY <1>1, <2>1, ScanOne
  <2> QED
    BY <2>1, <2>2
<1>3. ASSUME NEW t \in S, NEW c \in Plain PROVE t \o <<c>> \in S
  <2>1. PICK k \in Int : k = n + Len(t)
    BY DEF Texts
  <2>2. Read(Inside(d, k), c) = Inside(d, k + 1)
    BY ReadInside DEF Plain
  <2>3. c \in Characters /\ t \in Texts /\ ScanFrom(Inside(d, n), t) = Inside(d, k)
    BY <2>1 DEF Plain
  <2>4. /\ t \o <<c>> \in Texts /\ Len(t \o <<c>>) = Len(t) + 1
        /\ ScanFrom(Inside(d, n), t \o <<c>>) = Read(Inside(d, k), c)
    BY <1>1, <2>3, ScanNext
  <2>5. n + (Len(t) + 1) = k + 1
    BY <2>1, <2>3 DEF Texts
  <2> QED
    BY <2>2, <2>4, <2>5
<1>4. ASSUME NEW t \in S, NEW c \in Characters PROVE (t \o <<"backslash">>) \o <<c>> \in S
  <2>1. PICK k \in Int : k = n + Len(t)
    BY DEF Texts
  <2>2. /\ Read(Inside(d, k), "backslash") = Escaped(d, k + 1)
        /\ Read(Escaped(d, k + 1), c) = Inside(d, (k + 1) + 1)
    <3>1. k + 1 \in Int
      OBVIOUS
    <3> QED
      BY <3>1, ReadInside
  <2>3. "backslash" \in Characters /\ t \in Texts /\ ScanFrom(Inside(d, n), t) = Inside(d, k)
    BY <2>1 DEF Characters
  <2>4. PICK w \in Texts : /\ w = t \o <<"backslash">> /\ Len(w) = Len(t) + 1
                           /\ ScanFrom(Inside(d, n), w) = Escaped(d, k + 1)
    <3>1. /\ t \o <<"backslash">> \in Texts /\ Len(t \o <<"backslash">>) = Len(t) + 1
          /\ ScanFrom(Inside(d, n), t \o <<"backslash">>)
                 = Read(ScanFrom(Inside(d, n), t), "backslash")
      BY <1>1, <2>3, ScanNext
    <3> QED
      BY <2>2, <2>3, <3>1
  <2>5. /\ w \o <<c>> \in Texts /\ Len(w \o <<c>>) = Len(w) + 1
        /\ ScanFrom(Inside(d, n), w \o <<c>>) = Inside(d, (k + 1) + 1)
    BY <1>1, <2>2, <2>4, ScanNext
  <2>6. n + ((Len(t) + 1) + 1) = (k + 1) + 1
    BY <2>1, <2>3 DEF Texts
  <2> QED
    BY <2>4, <2>5, <2>6
<1>5. S \in SUBSET Texts /\ HoldsBodies(S)
  BY <1>2, <1>3, <1>4 DEF HoldsBodies
<1>6. s \in S
  BY <1>5 DEF Bodies
<1> QED
  BY <1>6

LEMMA StringScanned ==
    ASSUME NEW d \in Int, NEW n \in Int, NEW s \in Bodies, NEW w, w = Around("quote", s, "quote")
    PROVE  w \in Texts /\ ScanFrom(Between(d, n), w) = Between(d, n + Len(w))
<1>1. /\ s \in Texts /\ "quote" \in Characters /\ Between(d, n) \in ScanStates
      /\ n + 1 \in Int /\ Len(s) \in Nat
  <2>1. s \in Texts
    BY DEF Bodies
  <2>2. Len(s) \in Nat
    BY <2>1 DEF Texts
  <2>3. "quote" \in Characters
    BY DEF Characters
  <2> QED
    BY <2>1, <2>2, <2>3, ScanTypes
<1>2. w \in Texts /\ Len(w) = Len(s) + 2
  BY <1>1, ScanAround
<1>3. ScanFrom(Between(d, n), w) = Read(ScanFrom(Read(Between(d, n), "quote"), s), "quote")
  BY <1>1, ScanAround
<1>4. Read(Between(d, n), "quote") = Inside(d, n + 1)
  BY ReadBetween
<1>5. ScanFrom(Inside(d, n + 1), s) = Inside(d, (n + 1) + Len(s))
  BY <1>1, BodyScanned
<1>6. (n + 1) + Len(s) \in Int /\ ((n + 1) + Len(s)) + 1 = n + Len(w)
  BY <1>1, <1>2
<1>7. Read(Inside(d, (n + 1) + Len(s)), "quote") = Between(d, n + Len(w))
  BY <1>6, ReadInside
<1> QED
  BY <1>2, <1>3, <1>4, <1>5, <1>7

\* Members leave it at their depth, and the object around them one less deep,
\* or done.
MembersAt(t) ==
    \A d \in Nat \ {0}, n \in Int : ScanFrom(Between(d, n), t) = Between(d, n + Len(t))

LEMMA ObjectAround ==
    ASSUME NEW d \in Nat, NEW n \in Int, NEW t \in Texts, MembersAt(t),
           NEW w, w = Around("open", t, "close")
    PROVE  /\ w \in Texts /\ Len(w) \in Nat /\ w[1] = "open"
           /\ d # 0 => ScanFrom(Between(d, n), w) = Between(d, n + Len(w))
           /\ d = 0 => ScanFrom(Between(d, n), w) = Closed(n + Len(w))
<1>1. Len(t) \in Nat /\ Between(d, n) \in ScanStates
  BY ScanTypes DEF Texts
<1>2. "open" \in Characters /\ "close" \in Characters
  BY DEF Characters
<1>3. /\ w \in Texts /\ Len(w) = Len(t) + 2 /\ w[1] = "open"
      /\ ScanFrom(Between(d, n), w) = Read(ScanFrom(Read(Between(d, n), "open"), t), "close")
  BY <1>1, <1>2, ScanAround
<1>4. PICK k \in Int : k = (n + 1) + Len(t) /\ k + 1 = n + Len(w)
  BY <1>1, <1>3
<1>5. d + 1 \in Nat \ {0} /\ n + 1 \in Int /\ (d + 1) - 1 = d /\ (d + 1 = 1 <=> d = 0)
  OBVIOUS
<1>6. Read(Between(d, n), "open") = Between(d + 1, n + 1)
  BY ReadBetween
<1>7. ScanFrom(Between(d + 1, n + 1), t) = Between(d + 1, k)
  BY <1>4, <1>5 DEF MembersAt
<1>8. /\ d + 1 # 1 => Read(Between(d + 1, k), "close") = Between((d + 1) - 1, k + 1)
      /\ d + 1 = 1 => Read(Between(d + 1, k), "close") = Closed(k + 1)
  <2>1. d + 1 \in Int
    BY <1>5
  <2> QED
    BY <2>1, ReadBetween
<1>9. Len(w) \in Nat
  BY <1>1, <1>3
<1> QED
  BY <1>3, <1>4, <1>5, <1>6, <1>7, <1>8, <1>9

LEMMA MembersScanned ==
    ASSUME NEW m \in Members
    PROVE  m \in Texts /\ MembersAt(m)
<1> DEFINE S == {t \in Texts : MembersAt(t)}
<1>1. \A d, n \in Int : Between(d, n) \in ScanStates
  BY ScanTypes
<1>2. <<>> \in S
  <2>1. <<>> \in Texts /\ Len(<<>>) = 0 /\ "other" \in Characters
    BY DEF Texts, Characters
  <2>2. ASSUME NEW d \in Nat \ {0}, NEW n \in Int
        PROVE  ScanFrom(Between(d, n), <<>>) = Between(d, n + 0)
    <3>1. d \in Int /\ n + 0 = n
      OBVIOUS
    <3> QED
      BY <1>1, <2>1, <3>1, ScanOne
  <2> QED
    BY <2>1, <2>2 DEF MembersAt
<1>3. ASSUME NEW t \in S, NEW u \in Texts, MembersAt(u) PROVE t \o u \in S
  <2>1. t \o u \in Texts /\ Len(t \o u) = Len(t) + Len(u)
    BY Concatenated DEF Texts
  <2>2. ASSUME NEW d \in Nat \ {0}, NEW n \in Int
        PROVE  ScanFrom(Between(d, n), t \o u) = Between(d, n + (Len(t) + Len(u)))
    <3>1. d \in Int /\ Between(d, n) \in ScanStates
      BY <1>1
    <3>2. ScanFrom(Between(d, n), t \o u) = ScanFrom(ScanFrom(Between(d, n), t), u)
      BY <3>1, ScanOn
    <3>3. PICK k \in Int : k = n + Len(t)
      BY DEF Texts
    <3>4. ScanFrom(Between(d, n), t) = Between(d, k)
      BY <3>3 DEF MembersAt
    <3>5. ScanFrom(Between(d, k), u) = Between(d, k + Len(u))
      BY <1>3 DEF MembersAt
    <3>6. k + Len(u) = n + (Len(t) + Len(u))
      BY <3>3 DEF Texts
    <3> QED
      BY <3>2, <3>4, <3>5, <3>6
  <2> QED
    BY <2>1, <2>2 DEF MembersAt
<1>4. <<"other">> \in Texts /\ MembersAt(<<"other">>)
  <2>1. <<"other">> \in Texts /\ Len(<<"other">>) = 1 /\ "other" \in Characters
    BY DEF Texts, Characters
  <2>2. ASSUME NEW d \in Nat \ {0}, NEW n \in Int
        PROVE  ScanFrom(Between(d, n), <<"other">>) = Between(d, n + 1)
    <3>1. d \in Int
      OBVIOUS
    <3>2. Read(Between(d, n), "other") = Between(d, n + 1)
      BY <3>1, ReadBetween
    <3> QED
      BY <1>1, <2>1, <3>1, <3>2, ScanOne
  <2> QED
    BY <2>1, <2>2 DEF MembersAt
<1>5. ASSUME NEW s \in Bodies, NEW w, w = Around("quote", s, "quote")
      PROVE  w \in Texts /\ MembersAt(w)
  <2>1. \A d, n \in Int : w \in Texts /\ ScanFrom(Between(d, n), w) = Between(d, n + Len(w))
    BY <1>5, StringScanned
  <2>2. 0 \in Int /\ \A d \in Nat \ {0} : d \in Int
    OBVIOUS
  <2> QED
    BY <2>1, <2>2 DEF MembersAt
<1>6. ASSUME NEW k \in S, NEW w, w = Around("open", k, "close")
      PROVE  w \in Texts /\ MembersAt(w)
  <2>1. \A d \in Nat, n \in Int :
           w \in Texts /\ (d # 0 => ScanFrom(Between(d, n), w) = Between(d, n + Len(w)))
    BY <1>6, ObjectAround
  <2>2. 0 \in Int /\ \A d \in Nat \ {0} : d \in Nat /\ d # 0
    OBVIOUS
  <2> QED
    BY <2>1, <2>2 DEF MembersAt
<1> HIDE DEF S
<1>7. HoldsMembers(S)
  BY <1>2, <1>3, <1>4, <1>5, <1>6 DEF HoldsMembers
<1>8. S \in SUBSET Texts
  BY DEF S
<1>9. m \in S
  BY <1>7, <1>8 DEF Members
<1> QED
  BY <1>9 DEF S

\* What follows the object is not read.
LEMMA ScanClosed ==
    ASSUME NEW n \in Int, NEW t \in Texts
    PROVE  ScanFrom(Closed(n), t) = Closed(n)
<1>1. PICK f : Steps(f, Closed(n), t)
  BY ScanTypes, Scanned
<1>2. PICK N \in Nat : N = Len(t)
  BY DEF Texts
<1> DEFINE T == {i \in 0..N : f[i] = Closed(n)}
<1>3. 0 \in T
  BY <1>1 DEF Steps
<1>4. ASSUME NEW i \in 1..N, i - 1 \in T PROVE i \in T
  <2>1. f[i] = Read(f[i - 1], t[i])
    BY <1>1, <1>2 DEF Steps
  <2> QED
    BY <1>4, <2>1, ReadClosed
<1> HIDE DEF T
<1>5. N \in T
  <2>1. \A i \in 0..N : i \in T
    BY <1>3, <1>4, UpToN
  <2> QED
    BY <2>1
<1> QED
  BY <1>1, <1>2, <1>5 DEF T, Steps

Braceless == {t \in Texts : \A i \in 1..Len(t) : t[i] # "open"}

LEMMA SpanOfObject ==
    ASSUME NEW p \in Braceless, NEW o \in ObjectTexts, NEW q \in Texts
    PROVE  BalancedSpan((p \o o) \o q) = o
<1>1. PICK m \in Members : o = Around("open", m, "close")
  BY DEF ObjectTexts
<1>2. m \in Texts /\ MembersAt(m)
  BY MembersScanned
<1>3. 0 \in Nat /\ 0 \in Int
  OBVIOUS
<1>4. /\ o \in Texts /\ Len(o) \in Nat /\ o[1] = "open"
      /\ ScanFrom(Between(0, 0), o) = Closed(0 + Len(o))
  BY <1>1, <1>2, <1>3, ObjectAround
<1>5. PICK a \in Nat, b \in Nat, c \in Nat : a = Len(p) /\ b = Len(o) /\ c = Len(q)
  BY <1>4 DEF Braceless, Texts
<1>6. b # 0
  <2>1. Len(m) \in Nat
    BY <1>2 DEF Texts
  <2>2. "open" \in Characters /\ "close" \in Characters /\ Between(0, 0) \in ScanStates
    BY <1>3, ScanTypes DEF Characters
  <2>3. Len(o) = Len(m) + 2
    BY <1>1, <1>2, <2>2, ScanAround
  <2> QED
    BY <1>5, <2>1, <2>3
<1>7. PICK r \in Texts : r = o \o q /\ Len(r) = b + c /\ \A i \in 1..b : r[i] = o[i]
  <2>1. o \in Seq(Characters) /\ q \in Seq(Characters)
    BY <1>4 DEF Texts
  <2>2. /\ o \o q \in Seq(Characters) /\ Len(o \o q) = Len(o) + Len(q)
        /\ \A i \in 1..Len(o) : (o \o q)[i] = o[i]
    BY <2>1, Concatenated
  <2> QED
    BY <1>5, <2>2 DEF Texts
<1>8. PICK text \in Texts : text = (p \o o) \o q
  <2>1. p \o o \in Texts
    BY <1>4, Concatenated DEF Braceless, Texts
  <2> QED
    BY <2>1, Concatenated DEF Texts
<1>9. /\ Len(text) = a + (b + c) /\ \A i \in 1..a : text[i] = p[i]
      /\ \A i \in 1..(b + c) : text[a + i] = r[i]
  <2>1. text = p \o r
    BY <1>4, <1>7, <1>8 DEF Braceless, Texts
  <2>2. p \in Seq(Characters) /\ r \in Seq(Characters)
    BY DEF Braceless, Texts
  <2>3. /\ Len(p \o r) = Len(p) + Len(r) /\ \A i \in 1..Len(p) : (p \o r)[i] = p[i]
        /\ \A i \in 1..Len(r) : (p \o r)[Len(p) + i] = r[i]
    BY <2>2, Concatenated
  <2> QED
    BY <1>5, <1>7, <2>1, <2>3
<1>10. PICK starts : starts = {i \in DOMAIN text : text[i] = "open"}
  OBVIOUS
<1>11. starts # {} /\ Min(starts) = a + 1
  <2>1. DOMAIN text = 1..(a + (b + c))
    BY <1>9 DEF Texts
  <2>2. a + 1 \in 1..(a + (b + c)) /\ 1 \in 1..(b + c) /\ 1 \in 1..b
    BY <1>6
  <2>3. text[a + 1] = "open"
    BY <1>4, <1>7, <1>9, <2>2
  <2>4. a + 1 \in starts
    BY <1>10, <2>1, <2>2, <2>3
  <2>5. \A i \in 1..a : text[i] # "open"
    BY <1>5, <1>9 DEF Braceless
  <2>6. starts \in SUBSET Nat /\ \A i \in starts : i >= a + 1
    BY <1>10, <2>1, <2>5
  <2>7. Min(starts) \in starts /\ Min(starts) <= a + 1
    BY <2>4, <2>6, SmallestOf
  <2>8. Min(starts) \in Nat /\ Min(starts) >= a + 1
    BY <2>6, <2>7
  <2> QED
    BY <2>4, <2>7, <2>8
<1>12. SubSeq(text, Min(starts), Len(text)) = r
  <2>1. a + 1 \in 1..(Len(text) + 1) /\ Len(text) \in 0..Len(text) /\ Len(text) = a + (b + c)
    BY <1>9
  <2>2. text \in Seq(Characters) /\ r \in Seq(Characters)
    BY DEF Texts
  <2>3. PICK x, y, w :
           /\ x \in Int /\ y \in Int
           /\ x = a + 1 /\ y = a + (b + c) /\ w = SubSeq(text, x, y)
    <3>1. a + 1 \in Int /\ a + (b + c) \in Int
      OBVIOUS
    <3> QED
      BY <3>1, Zenon
  <2>4. x <= y /\ \A i \in x..y : text[i] \in Characters
    <3>1. x <= y
      BY <1>6, <2>3
    <3> QED
      BY <2>1, <2>2, <2>3, <3>1
  <2>5. /\ SubSeq(text, x, y) \in Seq(Characters)
        /\ Len(SubSeq(text, x, y)) = IF x <= y THEN y - x + 1 ELSE 0
        /\ \A i \in 1..(y - x + 1) : SubSeq(text, x, y)[i] = text[x + i - 1]
    BY <2>3, <2>4, SubSeqProperties
  <2>6. /\ w \in Seq(Characters) /\ Len(w) = y - x + 1
        /\ \A i \in 1..(y - x + 1) : w[i] = text[x + i - 1]
    BY <2>3, <2>4, <2>5
  <2>7. y - x + 1 = b + c /\ \A i \in 1..(b + c) : x + i - 1 = a + i
    BY <2>3
  <2>8. Len(w) = b + c /\ \A i \in 1..(b + c) : w[i] = r[i]
    BY <1>9, <2>6, <2>7
  <2>9. w = r
    BY <1>7, <2>2, <2>6, <2>8, SeqEqual
  <2> QED
    BY <1>11, <2>1, <2>3, <2>9
<1>13. ScanFrom(Scan, r) = Closed(b)
  <2>1. Scan = Between(0, 0) /\ Between(0, 0) \in ScanStates
    BY <1>3, ScanTypes DEF Scan, Between, At
  <2>2. ScanFrom(Scan, r) = ScanFrom(ScanFrom(Scan, o), q)
    BY <1>4, <1>7, <2>1, ScanOn
  <2>3. ScanFrom(Scan, o) = Closed(b)
    BY <1>4, <1>5, <2>1
  <2>4. ScanFrom(Closed(b), q) = Closed(b)
    <3>1. b \in Int
      OBVIOUS
    <3> QED
      BY <3>1, ScanClosed
  <2> QED
    BY <2>2, <2>3, <2>4
<1>14. SubSeq(r, 1, b) = o
  <2>1. o \in Seq(Characters) /\ r \in Seq(Characters) /\ b \in 0..Len(r)
    BY <1>4, <1>7 DEF Texts
  <2>2. /\ SubSeq(r, 1, b) \in Seq(Characters) /\ Len(SubSeq(r, 1, b)) = b
        /\ \A i \in 1..b : SubSeq(r, 1, b)[i] = r[i]
    BY <2>1, FirstOf
  <2> QED
    BY <1>5, <1>7, <2>1, <2>2, SeqEqual
<1>15. Closed(b).done = TRUE /\ Closed(b).length = b
  BY DEF Closed, At
<1>16. BalancedSpan(text) = o
  BY <1>10, <1>11, <1>12, <1>13, <1>14, <1>15 DEF BalancedSpan
<1> QED
  BY <1>8, <1>16

\* The texts that hold an object: nothing before it opens a brace, and what
\* follows it is free.
TextsWithObjects == \A t \in TextPool : t \in Braceless \X ObjectTexts \X Texts

\* The first object of a text is the span found, however deep it is and
\* whatever its strings hold.
THEOREM SpanFound ==
    ASSUME TextsWithObjects
    PROVE  Spec => []SpanIsTheObject
<1> DEFINE Typed == subject.kind = "text" => subject.parts \in TextPool
<1>1. Init => Typed
  BY DEF Init
<1>2. Typed /\ [Next]_subject => Typed'
  BY DEF Next
<1>3. ASSUME Typed PROVE SpanIsTheObject
  <2> SUFFICES ASSUME subject.kind = "text" PROVE SpanIsTheObject
    BY DEF SpanIsTheObject
  <2>1. PICK p \in Braceless, o \in ObjectTexts, q \in Texts : subject.parts = <<p, o, q>>
    BY <1>3 DEF TextsWithObjects
  <2>2. BalancedSpan((p \o o) \o q) = o
    BY SpanOfObject
  <2>3. subject.parts[1] = p /\ subject.parts[2] = o /\ subject.parts[3] = q
    BY <2>1
  <2> QED
    BY <2>2, <2>3, Zenon DEF SpanIsTheObject
<1> QED
  BY <1>1, <1>2, <1>3, PTL DEF Spec

--------------------------------------------------------------------------------
(***************************************************************************)
(* Values: each function as a sequence of functions, by what is left.      *)
(***************************************************************************)
CanonZero == [value \in ValuePool |-> Bad]
CanonNext(f) == [value \in ValuePool |-> CanonOf(value, f)]
EqualZero == [p \in Canonical \X Canonical |-> FALSE]
EqualNext(f) == [p \in Canonical \X Canonical |-> EqualOf(p[1], p[2], f)]
RepresentableZero == [v \in ValuePool |-> FALSE]
RepresentableNext(f) == [v \in ValuePool |-> RepresentableOf(v, f)]
DenotedZero == [v \in ValuePool |-> Bad]
DenotedNext(f) == [v \in ValuePool |-> DenotedOf(v, f)]

LEMMA CanonSteps ==
    /\ CanonAt[0] = CanonZero
    /\ \A left \in 1..(MaxDepth + 1) : CanonAt[left] = CanonNext(CanonAt[left - 1])
<1>1. PICK N \in Nat : N = MaxDepth + 1
  BY ValuesAssumption
<1> DEFINE Is(g, n) == g = [left \in 0..n |-> IF left = 0 THEN CanonZero ELSE CanonNext(g[left - 1])]
           T == {n \in 0..N : \E g : Is(g, n)}
<1>2. 0 \in T
  <2>1. Is([left \in 0..0 |-> CanonZero], 0)
    OBVIOUS
  <2>2. \E g : Is(g, 0)
    BY <2>1, Zenon
  <2>3. 0 \in 0..N
    OBVIOUS
  <2> QED
    BY <2>2, <2>3, Zenon
<1>3. ASSUME NEW n \in 1..N, n - 1 \in T PROVE n \in T
  <2>1. PICK g : Is(g, n - 1)
    BY <1>3
  <2>2. PICK h : h = [left \in 0..n |-> IF left = n THEN CanonNext(g[n - 1]) ELSE g[left]]
    OBVIOUS
  <2>3. \A left \in 0..(n - 1) : h[left] = g[left] /\ (left # 0 => left - 1 \in 0..(n - 1))
    BY <2>2
  <2>4. ASSUME NEW left \in 0..n
        PROVE  h[left] = IF left = 0 THEN CanonZero ELSE CanonNext(h[left - 1])
    <3>1. CASE left = n
      <4>1. n - 1 \in 0..(n - 1)
        OBVIOUS
      <4> QED
        BY <2>2, <2>3, <3>1, <4>1
    <3>2. CASE left # n
      <4>1. left \in 0..(n - 1)
        BY <3>2
      <4> QED
        BY <2>1, <2>3, <4>1
    <3> QED
      BY <3>1, <3>2
  <2>5. Is(h, n)
    BY <2>2, <2>4
  <2> QED
    BY <2>5
<1> HIDE DEF T
<1>4. N \in T
  <2>1. \A n \in 0..N : n \in T
    BY <1>2, <1>3, UpToN
  <2> QED
    BY <2>1
<1>5. \E g : Is(g, N)
  BY <1>4 DEF T
<1>6. CanonAt = CHOOSE g : Is(g, N)
  BY <1>1, Zenon DEF CanonAt, Depths, CanonZero, CanonNext
<1>7. Is(CanonAt, N)
  BY <1>5, <1>6, Zenon
<1>8. 0 \in 0..N /\ \A left \in 1..N : left \in 0..N /\ left # 0
  OBVIOUS
<1> QED
  BY <1>1, <1>7, <1>8, Zenon

LEMMA EqualSteps ==
    /\ EqualAt[0] = EqualZero
    /\ \A left \in 1..(MaxDepth + 1) : EqualAt[left] = EqualNext(EqualAt[left - 1])
<1>1. PICK N \in Nat : N = MaxDepth + 1
  BY ValuesAssumption
<1> DEFINE Is(g, n) == g = [left \in 0..n |-> IF left = 0 THEN EqualZero ELSE EqualNext(g[left - 1])]
           T == {n \in 0..N : \E g : Is(g, n)}
<1>2. 0 \in T
  <2>1. Is([left \in 0..0 |-> EqualZero], 0)
    OBVIOUS
  <2>2. \E g : Is(g, 0)
    BY <2>1, Zenon
  <2>3. 0 \in 0..N
    OBVIOUS
  <2> QED
    BY <2>2, <2>3, Zenon
<1>3. ASSUME NEW n \in 1..N, n - 1 \in T PROVE n \in T
  <2>1. PICK g : Is(g, n - 1)
    BY <1>3
  <2>2. PICK h : h = [left \in 0..n |-> IF left = n THEN EqualNext(g[n - 1]) ELSE g[left]]
    OBVIOUS
  <2>3. \A left \in 0..(n - 1) : h[left] = g[left] /\ (left # 0 => left - 1 \in 0..(n - 1))
    BY <2>2
  <2>4. ASSUME NEW left \in 0..n
        PROVE  h[left] = IF left = 0 THEN EqualZero ELSE EqualNext(h[left - 1])
    <3>1. CASE left = n
      <4>1. n - 1 \in 0..(n - 1)
        OBVIOUS
      <4> QED
        BY <2>2, <2>3, <3>1, <4>1
    <3>2. CASE left # n
      <4>1. left \in 0..(n - 1)
        BY <3>2
      <4> QED
        BY <2>1, <2>3, <4>1
    <3> QED
      BY <3>1, <3>2
  <2>5. Is(h, n)
    BY <2>2, <2>4
  <2> QED
    BY <2>5
<1> HIDE DEF T
<1>4. N \in T
  <2>1. \A n \in 0..N : n \in T
    BY <1>2, <1>3, UpToN
  <2> QED
    BY <2>1
<1>5. \E g : Is(g, N)
  BY <1>4 DEF T
<1>6. EqualAt = CHOOSE g : Is(g, N)
  BY <1>1, Zenon DEF EqualAt, Depths, EqualZero, EqualNext
<1>7. Is(EqualAt, N)
  BY <1>5, <1>6, Zenon
<1>8. 0 \in 0..N /\ \A left \in 1..N : left \in 0..N /\ left # 0
  OBVIOUS
<1> QED
  BY <1>1, <1>7, <1>8, Zenon

LEMMA RepresentableSteps ==
    /\ RepresentableAt[0] = RepresentableZero
    /\ \A left \in 1..(MaxDepth + 1) : RepresentableAt[left] = RepresentableNext(RepresentableAt[left - 1])
<1>1. PICK N \in Nat : N = MaxDepth + 1
  BY ValuesAssumption
<1> DEFINE Is(g, n) == g = [left \in 0..n |-> IF left = 0 THEN RepresentableZero ELSE RepresentableNext(g[left - 1])]
           T == {n \in 0..N : \E g : Is(g, n)}
<1>2. 0 \in T
  <2>1. Is([left \in 0..0 |-> RepresentableZero], 0)
    OBVIOUS
  <2>2. \E g : Is(g, 0)
    BY <2>1, Zenon
  <2>3. 0 \in 0..N
    OBVIOUS
  <2> QED
    BY <2>2, <2>3, Zenon
<1>3. ASSUME NEW n \in 1..N, n - 1 \in T PROVE n \in T
  <2>1. PICK g : Is(g, n - 1)
    BY <1>3
  <2>2. PICK h : h = [left \in 0..n |-> IF left = n THEN RepresentableNext(g[n - 1]) ELSE g[left]]
    OBVIOUS
  <2>3. \A left \in 0..(n - 1) : h[left] = g[left] /\ (left # 0 => left - 1 \in 0..(n - 1))
    BY <2>2
  <2>4. ASSUME NEW left \in 0..n
        PROVE  h[left] = IF left = 0 THEN RepresentableZero ELSE RepresentableNext(h[left - 1])
    <3>1. CASE left = n
      <4>1. n - 1 \in 0..(n - 1)
        OBVIOUS
      <4> QED
        BY <2>2, <2>3, <3>1, <4>1
    <3>2. CASE left # n
      <4>1. left \in 0..(n - 1)
        BY <3>2
      <4> QED
        BY <2>1, <2>3, <4>1
    <3> QED
      BY <3>1, <3>2
  <2>5. Is(h, n)
    BY <2>2, <2>4
  <2> QED
    BY <2>5
<1> HIDE DEF T
<1>4. N \in T
  <2>1. \A n \in 0..N : n \in T
    BY <1>2, <1>3, UpToN
  <2> QED
    BY <2>1
<1>5. \E g : Is(g, N)
  BY <1>4 DEF T
<1>6. RepresentableAt = CHOOSE g : Is(g, N)
  BY <1>1, Zenon DEF RepresentableAt, Depths, RepresentableZero, RepresentableNext
<1>7. Is(RepresentableAt, N)
  BY <1>5, <1>6, Zenon
<1>8. 0 \in 0..N /\ \A left \in 1..N : left \in 0..N /\ left # 0
  OBVIOUS
<1> QED
  BY <1>1, <1>7, <1>8, Zenon

LEMMA DenotedSteps ==
    /\ DenotedAt[0] = DenotedZero
    /\ \A left \in 1..(MaxDepth + 1) : DenotedAt[left] = DenotedNext(DenotedAt[left - 1])
<1>1. PICK N \in Nat : N = MaxDepth + 1
  BY ValuesAssumption
<1> DEFINE Is(g, n) == g = [left \in 0..n |-> IF left = 0 THEN DenotedZero ELSE DenotedNext(g[left - 1])]
           T == {n \in 0..N : \E g : Is(g, n)}
<1>2. 0 \in T
  <2>1. Is([left \in 0..0 |-> DenotedZero], 0)
    OBVIOUS
  <2>2. \E g : Is(g, 0)
    BY <2>1, Zenon
  <2>3. 0 \in 0..N
    OBVIOUS
  <2> QED
    BY <2>2, <2>3, Zenon
<1>3. ASSUME NEW n \in 1..N, n - 1 \in T PROVE n \in T
  <2>1. PICK g : Is(g, n - 1)
    BY <1>3
  <2>2. PICK h : h = [left \in 0..n |-> IF left = n THEN DenotedNext(g[n - 1]) ELSE g[left]]
    OBVIOUS
  <2>3. \A left \in 0..(n - 1) : h[left] = g[left] /\ (left # 0 => left - 1 \in 0..(n - 1))
    BY <2>2
  <2>4. ASSUME NEW left \in 0..n
        PROVE  h[left] = IF left = 0 THEN DenotedZero ELSE DenotedNext(h[left - 1])
    <3>1. CASE left = n
      <4>1. n - 1 \in 0..(n - 1)
        OBVIOUS
      <4> QED
        BY <2>2, <2>3, <3>1, <4>1
    <3>2. CASE left # n
      <4>1. left \in 0..(n - 1)
        BY <3>2
      <4> QED
        BY <2>1, <2>3, <4>1
    <3> QED
      BY <3>1, <3>2
  <2>5. Is(h, n)
    BY <2>2, <2>4
  <2> QED
    BY <2>5
<1> HIDE DEF T
<1>4. N \in T
  <2>1. \A n \in 0..N : n \in T
    BY <1>2, <1>3, UpToN
  <2> QED
    BY <2>1
<1>5. \E g : Is(g, N)
  BY <1>4 DEF T
<1>6. DenotedAt = CHOOSE g : Is(g, N)
  BY <1>1, Zenon DEF DenotedAt, Depths, DenotedZero, DenotedNext
<1>7. Is(DenotedAt, N)
  BY <1>5, <1>6, Zenon
<1>8. 0 \in 0..N /\ \A left \in 1..N : left \in 0..N /\ left # 0
  OBVIOUS
<1> QED
  BY <1>1, <1>7, <1>8, Zenon

(***************************************************************************)
(* Values: what there is in the pool, by its tag.                          *)
(***************************************************************************)
ScalarTags == {"null", "bool", "str", "int", "float"}
IsList(v) == v[1] \in {"list", "tuple"} /\ v[2] \in Seq(ValuePool) /\ v = <<v[1], v[2]>>
Pairs == (Nat \cup {NoString}) \X ValuePool
IsDict(v) ==
    /\ v[1] = "dict" /\ v[2] \in Seq(Pairs) /\ v = <<"dict", v[2]>>
    /\ \A i, j \in DOMAIN v[2] : v[2][i][1] = v[2][j][1] => i = j

LEMMA PoolKinds ==
    ASSUME NEW v \in ValuePool
    PROVE  \/ v \in Scalars /\ v[1] \in ScalarTags
           \/ IsList(v)
           \/ IsDict(v)
           \/ v[1] \in {"nan", "set"}
<1>1. v \in Scalars \/ v \in Arrays \/ v \in Dicts \/ v \in {<<"nan">>, <<"set">>}
  BY ValuesAssumption
<1>2. CASE v \in Scalars
  BY <1>2 DEF Scalars, ScalarTags
<1>3. CASE v \in Arrays
  BY <1>3 DEF Arrays, IsList
<1>4. CASE v \in Dicts
  <2>1. v \in {"dict"} \X Seq(Pairs)
    BY <1>4 DEF Dicts, Pairs
  <2>2. \A i, j \in DOMAIN v[2] : v[2][i][1] = v[2][j][1] => i = j
    BY <1>4 DEF Dicts
  <2> QED
    BY <2>1, <2>2 DEF IsDict
<1>5. CASE v \in {<<"nan">>, <<"set">>}
  BY <1>5
<1> QED
  BY <1>1, <1>2, <1>3, <1>4, <1>5

\* The canonical form of a list and of a dict, from those of their items.
ListOf(v, c) == [i \in DOMAIN v[2] |-> c[v[2][i]]]
DictOf(v, c) == [i \in DOMAIN v[2] |-> <<v[2][i][1], c[v[2][i][2]]>>]

LEMMA CanonScalar ==
    ASSUME NEW v \in Scalars, v[1] \in ScalarTags, NEW c
    PROVE  CanonOf(v, c) = v /\ v # Bad
<1>1. CanonOf(v, c) = v
  BY DEF CanonOf, ScalarTags
<1>2. Bad[1] = "bad"
  BY DEF Bad
<1>3. v[1] # "bad"
  BY DEF ScalarTags
<1> QED
  BY <1>1, <1>2, <1>3

LEMMA CanonList ==
    ASSUME NEW v, IsList(v), NEW c
    PROVE  /\ (\E i \in DOMAIN v[2] : c[v[2][i]] = Bad) => CanonOf(v, c) = Bad
           /\ (\A i \in DOMAIN v[2] : c[v[2][i]] # Bad) =>
                 CanonOf(v, c) = <<"list", ListOf(v, c)>> /\ CanonOf(v, c) # Bad
<1>1. CanonOf(v, c) = IF \E i \in DOMAIN ListOf(v, c) : ListOf(v, c)[i] = Bad
                      THEN Bad ELSE <<"list", ListOf(v, c)>>
  <2>1. v[1] \in {"list", "tuple"}
    BY DEF IsList
  <2>2. v[1] \notin {"null", "bool", "str", "int", "float"} /\ v[1] # "dict" /\ v[1] \notin {"nan", "set"}
    BY <2>1
  <2> QED
    BY <2>1, <2>2, Zenon DEF CanonOf, ListOf
<1>2. DOMAIN ListOf(v, c) = DOMAIN v[2] /\ \A i \in DOMAIN v[2] : ListOf(v, c)[i] = c[v[2][i]]
  BY DEF ListOf
<1>3. <<"list", ListOf(v, c)>> # Bad
  <2>1. \A x : <<"list", x>>[1] = "list"
    OBVIOUS
  <2>2. Bad[1] = "bad"
    BY DEF Bad
  <2> QED
    BY <2>1, <2>2
<1> QED
  BY <1>1, <1>2, <1>3

LEMMA CanonDict ==
    ASSUME NEW v, IsDict(v), NEW c
    PROVE  /\ (\E i \in DOMAIN v[2] : v[2][i][1] = NoString \/ c[v[2][i][2]] = Bad) =>
                 CanonOf(v, c) = Bad
           /\ (\A i \in DOMAIN v[2] : v[2][i][1] # NoString /\ c[v[2][i][2]] # Bad) =>
                 CanonOf(v, c) = <<"dict", DictOf(v, c)>> /\ CanonOf(v, c) # Bad
<1>1. CanonOf(v, c) =
         IF \E i \in DOMAIN DictOf(v, c) :
               DictOf(v, c)[i][1] = NoString \/ DictOf(v, c)[i][2] = Bad
         THEN Bad ELSE <<"dict", DictOf(v, c)>>
  <2>1. v[1] = "dict"
    BY DEF IsDict
  <2>2. /\ v[1] \notin {"null", "bool", "str", "int", "float"} /\ v[1] \notin {"list", "tuple"}
        /\ v[1] \notin {"nan", "set"}
    BY <2>1
  <2> QED
    BY <2>1, <2>2, Zenon DEF CanonOf, DictOf
<1>2. /\ DOMAIN DictOf(v, c) = DOMAIN v[2]
      /\ \A i \in DOMAIN v[2] : DictOf(v, c)[i][1] = v[2][i][1] /\ DictOf(v, c)[i][2] = c[v[2][i][2]]
  BY DEF DictOf
<1>3. <<"dict", DictOf(v, c)>> # Bad
  <2>1. \A x : <<"dict", x>>[1] = "dict"
    OBVIOUS
  <2>2. Bad[1] = "bad"
    BY DEF Bad
  <2> QED
    BY <2>1, <2>2
<1> QED
  BY <1>1, <1>2, <1>3

LEMMA CanonNone ==
    ASSUME NEW v, v[1] \in {"nan", "set"}, NEW c
    PROVE  CanonOf(v, c) = Bad
BY DEF CanonOf

\* canon refuses what is not representable, if it does so of the items.
LEMMA RefusedExactly ==
    ASSUME NEW c, NEW r, NEW v \in ValuePool,
           \A u \in ValuePool : c[u] = Bad <=> ~r[u]
    PROVE  CanonOf(v, c) = Bad <=> ~RepresentableOf(v, r)
<1>1. CASE v \in Scalars /\ v[1] \in ScalarTags
  BY <1>1, CanonScalar DEF RepresentableOf, ScalarTags
<1>2. CASE IsList(v)
  <2>1. \A i \in DOMAIN v[2] : v[2][i] \in ValuePool
    BY <1>2 DEF IsList
  <2>2. RepresentableOf(v, r) <=> \A i \in DOMAIN v[2] : r[v[2][i]]
    <3>1. v[1] \in {"list", "tuple"}
      BY <1>2 DEF IsList
    <3> QED
      BY <3>1, Zenon DEF RepresentableOf
  <2>3. \A i \in DOMAIN v[2] : c[v[2][i]] = Bad <=> ~r[v[2][i]]
    BY <2>1
  <2> QED
    BY <1>2, <2>2, <2>3, CanonList
<1>3. CASE IsDict(v)
  <2>1. \A i \in DOMAIN v[2] : v[2][i][2] \in ValuePool
    BY <1>3 DEF IsDict, Pairs
  <2>2. RepresentableOf(v, r) <=>
           \A i \in DOMAIN v[2] : v[2][i][1] # NoString /\ r[v[2][i][2]]
    <3>1. v[1] = "dict"
      BY <1>3 DEF IsDict
    <3>2. NoString \notin Keys(v) <=> \A i \in DOMAIN v[2] : v[2][i][1] # NoString
      BY DEF Keys
    <3>3. RepresentableOf(v, r) <=>
             NoString \notin Keys(v) /\ \A i \in DOMAIN v[2] : r[v[2][i][2]]
      BY <3>1, Zenon DEF RepresentableOf
    <3> QED
      BY <3>2, <3>3
  <2>3. \A i \in DOMAIN v[2] : c[v[2][i][2]] = Bad <=> ~r[v[2][i][2]]
    BY <2>1
  <2> QED
    BY <1>3, <2>2, <2>3, CanonDict
<1>4. CASE v[1] \in {"nan", "set"}
  BY <1>4, CanonNone DEF RepresentableOf
<1> QED
  BY <1>1, <1>2, <1>3, <1>4, PoolKinds

\* The item of a key, and the keys of a canonical dict.
LEMMA ItemOf ==
    ASSUME NEW v, NEW i \in DOMAIN v[2],
           \A j \in DOMAIN v[2] : v[2][i][1] = v[2][j][1] => i = j
    PROVE  Item(v, v[2][i][1]) = v[2][i][2]
<1> DEFINE j == CHOOSE j \in DOMAIN v[2] : v[2][j][1] = v[2][i][1]
<1>1. j \in DOMAIN v[2] /\ v[2][j][1] = v[2][i][1]
  OBVIOUS
<1>2. Item(v, v[2][i][1]) = v[2][j][2]
  BY Zenon DEF Item
<1> HIDE DEF j
<1>3. j = i
  BY <1>1
<1> QED
  BY <1>2, <1>3

LEMMA CanonKeys ==
    ASSUME NEW v, IsDict(v), NEW c, NEW x, x = <<"dict", DictOf(v, c)>>
    PROVE  /\ Keys(x) = Keys(v)
           /\ \A k \in Keys(v) : Item(v, k) \in ValuePool /\ Item(x, k) = c[Item(v, k)]
           /\ \A k \in Keys(v) : \E i \in DOMAIN v[2] : Item(v, k) = v[2][i][2]
<1>1. /\ x[1] = "dict" /\ x[2] = DictOf(v, c) /\ DOMAIN x[2] = DOMAIN v[2]
      /\ \A i \in DOMAIN v[2] : x[2][i][1] = v[2][i][1] /\ x[2][i][2] = c[v[2][i][2]]
  BY DEF DictOf
<1>2. Keys(x) = Keys(v)
  BY <1>1 DEF Keys
<1>3. ASSUME NEW i \in DOMAIN v[2]
      PROVE  Item(v, v[2][i][1]) = v[2][i][2] /\ Item(x, v[2][i][1]) = c[v[2][i][2]]
  <2>1. Item(v, v[2][i][1]) = v[2][i][2]
    BY ItemOf DEF IsDict
  <2>2. i \in DOMAIN x[2] /\ \A j \in DOMAIN x[2] : x[2][i][1] = x[2][j][1] => i = j
    BY <1>1 DEF IsDict
  <2>3. Item(x, x[2][i][1]) = x[2][i][2]
    BY <2>2, ItemOf
  <2> QED
    BY <1>1, <2>1, <2>3
<1>4. \A i \in DOMAIN v[2] : v[2][i][2] \in ValuePool
  BY DEF IsDict, Pairs
<1>5. \A k \in Keys(v) : \E i \in DOMAIN v[2] : k = v[2][i][1]
  BY DEF Keys
<1> QED
  BY <1>2, <1>3, <1>4, <1>5

\* What is denoted, by kind.
LEMMA DenotedKinds ==
    ASSUME NEW v, NEW d
    PROVE  /\ v \in Scalars /\ v[1] \in ScalarTags =>
                 DenotedOf(v, d)[1] \in {"null", "bool", "str", "number"}
           /\ IsList(v) => DenotedOf(v, d) = <<"list", ListOf(v, d)>>
           /\ IsDict(v) => DenotedOf(v, d) = <<"dict", [k \in Keys(v) |-> d[Item(v, k)]]>>
<1>1. ASSUME v \in Scalars, v[1] \in ScalarTags
      PROVE  DenotedOf(v, d)[1] \in {"null", "bool", "str", "number"}
  BY <1>1 DEF DenotedOf, IsNumber, ScalarTags
<1>2. ASSUME IsList(v) PROVE DenotedOf(v, d) = <<"list", ListOf(v, d)>>
  <2>1. v[1] \in {"list", "tuple"}
    BY <1>2 DEF IsList
  <2>2. /\ v[1] \notin {"null", "bool", "str"} /\ v[1] \notin {"int", "float"}
        /\ v[1] # "dict" /\ v[1] \notin {"nan", "set"}
    BY <2>1
  <2> QED
    BY <2>1, <2>2, Zenon DEF DenotedOf, IsNumber, ListOf
<1>3. ASSUME IsDict(v) PROVE DenotedOf(v, d) = <<"dict", [k \in Keys(v) |-> d[Item(v, k)]]>>
  <2>1. v[1] = "dict"
    BY <1>3 DEF IsDict
  <2>2. /\ v[1] \notin {"null", "bool", "str"} /\ v[1] \notin {"int", "float"}
        /\ v[1] \notin {"list", "tuple"} /\ v[1] \notin {"nan", "set"}
    BY <2>1
  <2> QED
    BY <2>1, <2>2, Zenon DEF DenotedOf, IsNumber
<1> QED
  BY <1>1, <1>2, <1>3

LEMMA EqualScalars ==
    ASSUME NEW v \in Scalars, NEW w \in Scalars, NEW e, NEW d
    PROVE  EqualOf(v, w, e) <=> DenotedOf(v, d) = DenotedOf(w, d)
<1> DEFINE IsNull(x) == x = <<"null">>
           IsBool(x) == \E b \in BOOLEAN : x = <<"bool", b>>
           IsStr(x) == \E n \in Nat : x = <<"str", n>>
           IsNum(x) == \E n \in Int : x = <<"int", n>> \/ x = <<"float", n>>
<1>1. \A x \in Scalars : IsNull(x) \/ IsBool(x) \/ IsStr(x) \/ IsNum(x)
  BY DEF Scalars
<1>2. ASSUME NEW x, x[1] \in {"null", "bool", "str"} PROVE DenotedOf(x, d) = x
  <2>1. /\ x[1] \notin {"int", "float"} /\ x[1] \notin {"list", "tuple"}
        /\ x[1] # "dict" /\ x[1] \notin {"nan", "set"}
    BY <1>2
  <2> QED
    BY <1>2, <2>1, Zenon DEF DenotedOf, IsNumber
<1>3. ASSUME NEW x, x[1] \in {"int", "float"} PROVE DenotedOf(x, d) = <<"number", x[2]>>
  <2>1. /\ x[1] \notin {"null", "bool", "str"} /\ x[1] \notin {"list", "tuple"}
        /\ x[1] # "dict" /\ x[1] \notin {"nan", "set"}
    BY <1>3
  <2> QED
    BY <1>3, <2>1, Zenon DEF DenotedOf, IsNumber
<1>4. \A x : IsNull(x) => x[1] = "null" /\ DenotedOf(x, d) = x
  BY <1>2
<1>5. \A x : IsBool(x) => x[1] = "bool" /\ DenotedOf(x, d) = x /\ x = <<"bool", x[2]>>
  BY <1>2
<1>6. \A x : IsStr(x) => x[1] = "str" /\ DenotedOf(x, d) = x /\ x = <<"str", x[2]>>
  BY <1>2
<1>7. \A x : IsNum(x) => x[1] \in {"int", "float"} /\ DenotedOf(x, d) = <<"number", x[2]>>
  BY <1>3
<1>8. EqualOf(v, w, e) <=>
         \/ v[1] = "null" /\ w[1] = "null"
         \/ v[1] \in {"bool", "str"} /\ w[1] = v[1] /\ v[2] = w[2]
         \/ v[1] \in {"int", "float"} /\ w[1] \in {"int", "float"} /\ v[2] = w[2]
  <2>1. \A x \in Scalars : x[1] # "list" /\ x[1] # "dict"
    BY <1>1, <1>4, <1>5, <1>6, <1>7
  <2> QED
    BY <2>1, Zenon DEF EqualOf, SameNumber, IsNumber
<1>9. \A m, n : <<"number", m>> = <<"number", n>> <=> m = n
  OBVIOUS
<1>10. \A n : <<"number", n>>[1] = "number"
  OBVIOUS
<1> HIDE DEF IsNull, IsBool, IsStr, IsNum
<1>11. CASE IsNull(v)
  <2>1. CASE IsNull(w)
    BY <1>4, <1>8, <1>11, <2>1 DEF IsNull
  <2>2. CASE IsBool(w) \/ IsStr(w) \/ IsNum(w)
    BY <1>4, <1>5, <1>6, <1>7, <1>8, <1>10, <1>11, <2>2
  <2> QED
    BY <1>1, <2>1, <2>2
<1>12. CASE IsBool(v)
  <2>1. CASE IsBool(w)
    BY <1>5, <1>8, <1>12, <2>1
  <2>2. CASE IsNull(w) \/ IsStr(w) \/ IsNum(w)
    BY <1>4, <1>5, <1>6, <1>7, <1>8, <1>10, <1>12, <2>2
  <2> QED
    BY <1>1, <2>1, <2>2
<1>13. CASE IsStr(v)
  <2>1. CASE IsStr(w)
    BY <1>6, <1>8, <1>13, <2>1
  <2>2. CASE IsNull(w) \/ IsBool(w) \/ IsNum(w)
    BY <1>4, <1>5, <1>6, <1>7, <1>8, <1>10, <1>13, <2>2
  <2> QED
    BY <1>1, <2>1, <2>2
<1>14. CASE IsNum(v)
  <2>1. CASE IsNum(w)
    BY <1>7, <1>8, <1>9, <1>14, <2>1
  <2>2. CASE IsNull(w) \/ IsBool(w) \/ IsStr(w)
    BY <1>4, <1>5, <1>6, <1>7, <1>8, <1>10, <1>14, <2>2
  <2> QED
    BY <1>1, <2>1, <2>2
<1> QED
  BY <1>1, <1>11, <1>12, <1>13, <1>14

\* equal is equality of what is denoted, if it is so of the items.
Faithful(c, d, e) ==
    \A x, y \in ValuePool : c[x] # Bad /\ c[y] # Bad => (e[<<c[x], c[y]>>] <=> d[x] = d[y])

LEMMA EqualLists ==
    ASSUME NEW c, NEW d, NEW e, Faithful(c, d, e), NEW v, IsList(v), NEW w, IsList(w),
           CanonOf(v, c) # Bad, CanonOf(w, c) # Bad
    PROVE  EqualOf(CanonOf(v, c), CanonOf(w, c), e) <=> DenotedOf(v, d) = DenotedOf(w, d)
<1>1. PICK n \in Nat, m \in Nat : n = Len(v[2]) /\ m = Len(w[2])
  BY DEF IsList
<1>2. /\ DOMAIN v[2] = 1..n /\ DOMAIN w[2] = 1..m
      /\ \A i \in 1..n : v[2][i] \in ValuePool
      /\ \A i \in 1..m : w[2][i] \in ValuePool
  BY <1>1 DEF IsList
<1>3. PICK s, t : s = ListOf(v, c) /\ t = ListOf(w, c)
  OBVIOUS
<1>4. /\ DOMAIN s = 1..n /\ DOMAIN t = 1..m
      /\ \A i \in 1..n : s[i] = c[v[2][i]]
      /\ \A i \in 1..m : t[i] = c[w[2][i]]
  BY <1>2, <1>3 DEF ListOf
<1>5. Len(s) = n /\ Len(t) = m
  <2> DEFINE S == {c[u] : u \in ValuePool}
  <2>1. s \in [1..n -> S] /\ t \in [1..m -> S]
    BY <1>2, <1>3 DEF ListOf
  <2> HIDE DEF S
  <2>2. s \in Seq(S) /\ t \in Seq(S)
    BY <2>1
  <2> QED
    BY <1>4, <2>2
<1>6. \A i \in DOMAIN v[2] : c[v[2][i]] # Bad
  BY CanonList
<1>7. \A i \in DOMAIN w[2] : c[w[2][i]] # Bad
  BY CanonList
<1>8. PICK a, b : /\ a = CanonOf(v, c) /\ a = <<"list", s>>
                  /\ b = CanonOf(w, c) /\ b = <<"list", t>>
  BY <1>3, <1>6, <1>7, CanonList
<1>9. a[1] = "list" /\ a[2] = s /\ b[1] = "list" /\ b[2] = t
  BY <1>8
<1>10. EqualOf(a, b, e) <=> n = m /\ \A i \in 1..n : e[<<s[i], t[i]>>]
  <2>1. a[1] # "null" /\ a[1] \notin {"bool", "str"} /\ a[1] \notin {"int", "float"} /\ a[1] # "dict"
    BY <1>9
  <2> QED
    BY <1>4, <1>5, <1>9, <2>1, Zenon DEF EqualOf, SameNumber, IsNumber
<1>11. ASSUME n = m
       PROVE  (\A i \in 1..n : e[<<s[i], t[i]>>]) <=> \A i \in 1..n : d[v[2][i]] = d[w[2][i]]
  <2>1. ASSUME NEW i \in 1..n PROVE e[<<s[i], t[i]>>] <=> d[v[2][i]] = d[w[2][i]]
    <3>1. i \in 1..m
      BY <1>11
    <3>2. v[2][i] \in ValuePool /\ w[2][i] \in ValuePool /\ c[v[2][i]] # Bad /\ c[w[2][i]] # Bad
      BY <1>2, <1>6, <1>7, <3>1
    <3>3. s[i] = c[v[2][i]] /\ t[i] = c[w[2][i]]
      BY <1>4, <3>1
    <3> QED
      BY <3>2, <3>3, Zenon DEF Faithful
  <2> QED
    BY <2>1, Zenon
<1>12. DenotedOf(v, d) = DenotedOf(w, d) <=> n = m /\ \A i \in 1..n : d[v[2][i]] = d[w[2][i]]
  <2>1. DenotedOf(v, d) = <<"list", ListOf(v, d)>> /\ DenotedOf(w, d) = <<"list", ListOf(w, d)>>
    BY DenotedKinds
  <2>2. PICK f, g : f = ListOf(v, d) /\ g = ListOf(w, d)
    OBVIOUS
  <2>3. f = [i \in 1..n |-> d[v[2][i]]] /\ g = [i \in 1..m |-> d[w[2][i]]]
    BY <1>2, <2>2 DEF ListOf
  <2>4. f = g <=> n = m /\ \A i \in 1..n : d[v[2][i]] = d[w[2][i]]
    <3>1. f = g => 1..n = 1..m
      BY <2>3
    <3>2. 1..n = 1..m => n = m
      <4>1. ASSUME 1..n = 1..m PROVE n = m
        <5>1. \A i \in Nat : i \in 1..n <=> i \in 1..m
          BY <4>1
        <5>2. n \in 1..n \/ n = 0
          OBVIOUS
        <5>3. m \in 1..m \/ m = 0
          OBVIOUS
        <5> QED
          BY <5>1, <5>2, <5>3
      <4> QED
        BY <4>1
    <3> QED
      BY <2>3, <3>1, <3>2
  <2>5. <<"list", f>> = <<"list", g>> <=> f = g
    OBVIOUS
  <2> QED
    BY <2>1, <2>2, <2>4, <2>5
<1> QED
  BY <1>8, <1>10, <1>11, <1>12, Zenon

LEMMA EqualDicts ==
    ASSUME NEW c, NEW d, NEW e, Faithful(c, d, e), NEW v, IsDict(v), NEW w, IsDict(w),
           CanonOf(v, c) # Bad, CanonOf(w, c) # Bad
    PROVE  EqualOf(CanonOf(v, c), CanonOf(w, c), e) <=> DenotedOf(v, d) = DenotedOf(w, d)
<1>1. \A i \in DOMAIN v[2] : c[v[2][i][2]] # Bad /\ v[2][i][1] # NoString
  BY CanonDict
<1>2. \A i \in DOMAIN w[2] : c[w[2][i][2]] # Bad /\ w[2][i][1] # NoString
  BY CanonDict
<1>3. PICK a, b : /\ a = CanonOf(v, c) /\ a = <<"dict", DictOf(v, c)>>
                  /\ b = CanonOf(w, c) /\ b = <<"dict", DictOf(w, c)>>
  BY <1>1, <1>2, CanonDict
<1>4. a[1] = "dict" /\ b[1] = "dict"
  BY <1>3
<1>5. /\ Keys(a) = Keys(v)
      /\ \A k \in Keys(v) : Item(v, k) \in ValuePool /\ Item(a, k) = c[Item(v, k)]
      /\ \A k \in Keys(v) : \E i \in DOMAIN v[2] : Item(v, k) = v[2][i][2]
  BY <1>3, CanonKeys
<1>6. /\ Keys(b) = Keys(w)
      /\ \A k \in Keys(w) : Item(w, k) \in ValuePool /\ Item(b, k) = c[Item(w, k)]
      /\ \A k \in Keys(w) : \E i \in DOMAIN w[2] : Item(w, k) = w[2][i][2]
  BY <1>3, CanonKeys
<1>7. EqualOf(a, b, e) <=>
         Keys(v) = Keys(w) /\ \A k \in Keys(v) : e[<<Item(a, k), Item(b, k)>>]
  <2>1. a[1] # "null" /\ a[1] \notin {"bool", "str"} /\ a[1] \notin {"int", "float"} /\ a[1] # "list"
    BY <1>4
  <2> QED
    BY <1>4, <1>5, <1>6, <2>1, Zenon DEF EqualOf, SameNumber, IsNumber
<1>8. ASSUME Keys(v) = Keys(w)
      PROVE  (\A k \in Keys(v) : e[<<Item(a, k), Item(b, k)>>]) <=>
                \A k \in Keys(v) : d[Item(v, k)] = d[Item(w, k)]
  <2>1. ASSUME NEW k \in Keys(v)
        PROVE  e[<<Item(a, k), Item(b, k)>>] <=> d[Item(v, k)] = d[Item(w, k)]
    <3>1. k \in Keys(w)
      BY <1>8
    <3>2. /\ Item(v, k) \in ValuePool /\ Item(w, k) \in ValuePool
          /\ c[Item(v, k)] # Bad /\ c[Item(w, k)] # Bad
      BY <1>1, <1>2, <1>5, <1>6, <3>1
    <3>3. Item(a, k) = c[Item(v, k)] /\ Item(b, k) = c[Item(w, k)]
      BY <1>5, <1>6, <3>1
    <3> QED
      BY <3>2, <3>3, Zenon DEF Faithful
  <2> QED
    BY <2>1, Zenon
<1>9. DenotedOf(v, d) = DenotedOf(w, d) <=>
         Keys(v) = Keys(w) /\ \A k \in Keys(v) : d[Item(v, k)] = d[Item(w, k)]
  <2>1. PICK f, g : /\ f = [k \in Keys(v) |-> d[Item(v, k)]]
                    /\ g = [k \in Keys(w) |-> d[Item(w, k)]]
    OBVIOUS
  <2>2. DenotedOf(v, d) = <<"dict", f>> /\ DenotedOf(w, d) = <<"dict", g>>
    BY <2>1, DenotedKinds
  <2>3. f = g <=> Keys(v) = Keys(w) /\ \A k \in Keys(v) : d[Item(v, k)] = d[Item(w, k)]
    BY <2>1
  <2>4. <<"dict", f>> = <<"dict", g>> <=> f = g
    OBVIOUS
  <2> QED
    BY <2>2, <2>3, <2>4
<1> QED
  BY <1>3, <1>7, <1>8, <1>9, Zenon

LEMMA EqualDenoted ==
    ASSUME NEW c, NEW d, NEW e, Faithful(c, d, e), NEW v \in ValuePool, NEW w \in ValuePool,
           CanonOf(v, c) # Bad, CanonOf(w, c) # Bad
    PROVE  EqualOf(CanonOf(v, c), CanonOf(w, c), e) <=> DenotedOf(v, d) = DenotedOf(w, d)
<1> DEFINE IsScalar(x) == x \in Scalars /\ x[1] \in ScalarTags
           Tag(x) == CanonOf(x, c)[1]
           Sort(x) == DenotedOf(x, d)[1]
<1>1. \A x \in ValuePool : CanonOf(x, c) # Bad => IsScalar(x) \/ IsList(x) \/ IsDict(x)
  BY PoolKinds, CanonNone
<1>2. ASSUME NEW x, IsScalar(x)
      PROVE  CanonOf(x, c) = x /\ Tag(x) \in ScalarTags /\ Sort(x) \in {"null", "bool", "str", "number"}
  BY <1>2, CanonScalar, DenotedKinds
<1>3. ASSUME NEW x, IsList(x), CanonOf(x, c) # Bad PROVE Tag(x) = "list" /\ Sort(x) = "list"
  <2>1. CanonOf(x, c) = <<"list", ListOf(x, c)>>
    BY <1>3, CanonList
  <2>2. DenotedOf(x, d) = <<"list", ListOf(x, d)>>
    BY <1>3, DenotedKinds
  <2> QED
    BY <2>1, <2>2
<1>4. ASSUME NEW x, IsDict(x), CanonOf(x, c) # Bad PROVE Tag(x) = "dict" /\ Sort(x) = "dict"
  <2>1. CanonOf(x, c) = <<"dict", DictOf(x, c)>>
    BY <1>4, CanonDict
  <2>2. PICK f : DenotedOf(x, d) = <<"dict", f>>
    BY <1>4, DenotedKinds
  <2> QED
    BY <2>1, <2>2
<1>5. ASSUME NEW a, NEW b, EqualOf(a, b, e)
      PROVE  (a[1] = "list" <=> b[1] = "list") /\ (a[1] = "dict" <=> b[1] = "dict")
  BY <1>5 DEF EqualOf, SameNumber, IsNumber
<1> HIDE DEF Tag, Sort
<1>6. \A x, y : DenotedOf(x, d) = DenotedOf(y, d) => Sort(x) = Sort(y)
  BY DEF Sort
<1>7. EqualOf(CanonOf(v, c), CanonOf(w, c), e) =>
         (Tag(v) = "list" <=> Tag(w) = "list") /\ (Tag(v) = "dict" <=> Tag(w) = "dict")
  BY <1>5 DEF Tag
<1>8. "list" \notin ScalarTags /\ "dict" \notin ScalarTags
  BY DEF ScalarTags
<1>9. CASE IsScalar(v) /\ IsScalar(w)
  BY <1>2, <1>9, EqualScalars
<1>10. CASE IsList(v) /\ IsList(w)
  BY <1>10, EqualLists
<1>11. CASE IsDict(v) /\ IsDict(w)
  BY <1>11, EqualDicts
<1> HIDE DEF IsScalar
<1>12. CASE ~(IsScalar(v) /\ IsScalar(w)) /\ ~(IsList(v) /\ IsList(w)) /\ ~(IsDict(v) /\ IsDict(w))
  <2>1. ~EqualOf(CanonOf(v, c), CanonOf(w, c), e)
    BY <1>1, <1>2, <1>3, <1>4, <1>7, <1>8, <1>12
  <2>2. Sort(v) # Sort(w)
    BY <1>1, <1>2, <1>3, <1>4, <1>12
  <2> QED
    BY <1>6, <2>1, <2>2
<1> QED
  BY <1>9, <1>10, <1>11, <1>12

\* By induction on what is left of the depth.
AgreeAt(left) ==
    /\ \A v \in ValuePool : CanonAt[left][v] = Bad <=> ~RepresentableAt[left][v]
    /\ Faithful(CanonAt[left], DenotedAt[left], EqualAt[left])

LEMMA ValuesAgree == AgreeAt(MaxDepth + 1)
<1>1. PICK N \in Nat : N = MaxDepth + 1
  BY ValuesAssumption
<1> DEFINE T == {left \in 0..N : AgreeAt(left)}
<1>2. 0 \in T
  <2>1. \A v \in ValuePool : CanonAt[0][v] = Bad /\ RepresentableAt[0][v] = FALSE
    BY CanonSteps, RepresentableSteps DEF CanonZero, RepresentableZero
  <2>2. AgreeAt(0)
    BY <2>1 DEF AgreeAt, Faithful
  <2> QED
    BY <2>2
<1>3. ASSUME NEW left \in 1..N, left - 1 \in T PROVE left \in T
  <2>1. PICK c, r, d, e : /\ c = CanonAt[left - 1] /\ r = RepresentableAt[left - 1]
                          /\ d = DenotedAt[left - 1] /\ e = EqualAt[left - 1]
    OBVIOUS
  <2>2. /\ \A v \in ValuePool : c[v] = Bad <=> ~r[v]
        /\ Faithful(c, d, e)
    BY <1>3, <2>1 DEF AgreeAt
  <2>3. /\ CanonAt[left] = CanonNext(c) /\ RepresentableAt[left] = RepresentableNext(r)
        /\ DenotedAt[left] = DenotedNext(d) /\ EqualAt[left] = EqualNext(e)
    BY <1>1, <2>1, CanonSteps, RepresentableSteps, DenotedSteps, EqualSteps
  <2>4. ASSUME NEW v \in ValuePool
        PROVE  /\ CanonAt[left][v] = CanonOf(v, c)
               /\ RepresentableAt[left][v] <=> RepresentableOf(v, r)
               /\ DenotedAt[left][v] = DenotedOf(v, d)
               /\ CanonAt[left][v] # Bad => CanonAt[left][v] \in Canonical
    <3>1. CanonAt[left][v] = CanonOf(v, c)
      BY <2>3 DEF CanonNext
    <3>2. RepresentableAt[left][v] <=> RepresentableOf(v, r)
      BY <2>3, Zenon DEF RepresentableNext
    <3>3. DenotedAt[left][v] = DenotedOf(v, d)
      BY <2>3 DEF DenotedNext
    <3>4. left \in Depths
      BY <1>1 DEF Depths
    <3>5. CanonAt[left][v] # Bad => CanonAt[left][v] \in Canonical
      BY <3>4 DEF Canonical
    <3> QED
      BY <3>1, <3>2, <3>3, <3>5
  <2>5. ASSUME NEW a \in Canonical, NEW b \in Canonical
        PROVE  EqualAt[left][<<a, b>>] <=> EqualOf(a, b, e)
    <3>1. <<a, b>> \in Canonical \X Canonical /\ <<a, b>>[1] = a /\ <<a, b>>[2] = b
      OBVIOUS
    <3>2. EqualNext(e)[<<a, b>>] <=> EqualOf(<<a, b>>[1], <<a, b>>[2], e)
      BY <3>1, Zenon DEF EqualNext
    <3> QED
      BY <2>3, <3>1, <3>2, Zenon
  <2>6. \A v \in ValuePool : CanonAt[left][v] = Bad <=> ~RepresentableAt[left][v]
    BY <2>2, <2>4, RefusedExactly
  <2>7. Faithful(CanonAt[left], DenotedAt[left], EqualAt[left])
    <3>1. SUFFICES ASSUME NEW v \in ValuePool, NEW w \in ValuePool,
                          CanonAt[left][v] # Bad, CanonAt[left][w] # Bad
                   PROVE  EqualAt[left][<<CanonAt[left][v], CanonAt[left][w]>>]
                             <=> DenotedAt[left][v] = DenotedAt[left][w]
      BY DEF Faithful
    <3>2. EqualAt[left][<<CanonAt[left][v], CanonAt[left][w]>>]
             <=> EqualOf(CanonOf(v, c), CanonOf(w, c), e)
      BY <2>4, <2>5, <3>1
    <3>3. EqualOf(CanonOf(v, c), CanonOf(w, c), e) <=> DenotedOf(v, d) = DenotedOf(w, d)
      BY <2>2, <2>4, <3>1, EqualDenoted
    <3> QED
      BY <2>4, <3>2, <3>3
  <2>8. AgreeAt(left)
    BY <2>6, <2>7 DEF AgreeAt
  <2> QED
    BY <2>8
<1> HIDE DEF T
<1>4. N \in T
  <2>1. \A n \in 0..N : n \in T
    BY <1>2, <1>3, UpToN
  <2> QED
    BY <2>1
<1> QED
  BY <1>1, <1>4 DEF T

\* canon refuses exactly the values without a JSON form, and equal is equality of
\* what the values stand for, for every pool of values that holds their items.
THEOREM OneEquality == Spec => []EqualIsEquality
<1> DEFINE Typed == subject.kind = "values" => subject.a \in ValuePool /\ subject.b \in ValuePool
<1>1. Init => Typed
  BY DEF Init
<1>2. Typed /\ [Next]_subject => Typed'
  BY DEF Next
<1>3. ASSUME Typed PROVE EqualIsEquality
  <2> SUFFICES ASSUME subject.kind = "values" PROVE EqualIsEquality
    BY DEF EqualIsEquality
  <2>1. PICK a \in ValuePool, b \in ValuePool : subject.a = a /\ subject.b = b
    BY <1>3
  <2>2. Canon(a) = Bad <=> ~Representable(a)
    BY ValuesAgree, Zenon DEF AgreeAt, Canon, Representable
  <2>3. Canon(a) # Bad /\ Canon(b) # Bad => (Equal(Canon(a), Canon(b)) <=> Denoted(a) = Denoted(b))
    BY ValuesAgree DEF AgreeAt, Faithful, Canon, Equal, Denoted
  <2>4. Bad \notin {Canon(a), Canon(b)} <=> Canon(a) # Bad /\ Canon(b) # Bad
    BY Zenon
  <2> QED
    BY <2>1, <2>2, <2>3, <2>4, Zenon DEF EqualIsEquality
<1> QED
  BY <1>1, <1>2, <1>3, PTL DEF Spec
================================================================================
