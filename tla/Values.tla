--------------------------------- MODULE Values ---------------------------------
(***************************************************************************)
(* values.py: the canonical form of a JSON value and the one equality of   *)
(* the game.                                                               *)
(*                                                                         *)
(* A value is a tuple that starts with its tag.  A number is counted in    *)
(* halves, so <<"int", 2>> and <<"float", 2>> are 1 and 1.0.  A dict is    *)
(* the sequence of its items in insertion order; a string is a natural     *)
(* number, and the key NoString is one that is no string.  The functions   *)
(* recur on left, what is left of the depth: canon's own count is          *)
(* MaxDepth + 1 - left.                                                    *)
(***************************************************************************)
EXTENDS Integers, Sequences

CONSTANTS
    MaxDepth,  \* MAX_DEPTH
    ValuePool  \* values, representable or not, with all that they hold

NoString == -1

Scalars ==
    {<<"null">>} \cup ({"bool"} \X BOOLEAN) \cup ({"str"} \X Nat) \cup ({"int", "float"} \X Int)
Arrays == {"list", "tuple"} \X Seq(ValuePool)
Dicts ==
    {d \in {"dict"} \X Seq((Nat \cup {NoString}) \X ValuePool) :
        \A i, j \in DOMAIN d[2] : d[2][i][1] = d[2][j][1] => i = j}

ASSUME ValuesAssumption ==
    /\ MaxDepth \in Nat
    /\ ValuePool \subseteq Scalars \cup Arrays \cup Dicts \cup {<<"nan">>, <<"set">>}

Depths == 0..(MaxDepth + 1)

(***************************************************************************)
(* canon.                                                                  *)
(***************************************************************************)
Bad == <<"bad">>

\* The body, from what canon makes of the items.  NaN, an infinity, a set or
\* a class is bad.
CanonOf(value, canon) ==
    CASE value[1] \in {"null", "bool", "str", "int", "float"} -> value
      [] value[1] \in {"list", "tuple"} ->
           LET items == [i \in DOMAIN value[2] |-> canon[value[2][i]]]
           IN IF \E i \in DOMAIN items : items[i] = Bad THEN Bad ELSE <<"list", items>>
      [] value[1] = "dict" ->
           LET items == [i \in DOMAIN value[2] |-> <<value[2][i][1], canon[value[2][i][2]]>>]
           IN IF \E i \in DOMAIN items : items[i][1] = NoString \/ items[i][2] = Bad
              THEN Bad ELSE <<"dict", items>>
      [] value[1] \in {"nan", "set"} -> Bad

CanonAt[left \in Depths] ==
    IF left = 0 THEN [value \in ValuePool |-> Bad]
    ELSE [value \in ValuePool |-> CanonOf(value, CanonAt[left - 1])]

Canon(value) == CanonAt[MaxDepth + 1][value]

(***************************************************************************)
(* equal, of canonical values: canon let them be no deeper than left can   *)
(* count, so that equal, which counts nothing, is the last of these.       *)
(***************************************************************************)
IsNumber(v) == v[1] \in {"int", "float"}
Keys(dict) == {dict[2][i][1] : i \in DOMAIN dict[2]}
Item(dict, k) == dict[2][CHOOSE i \in DOMAIN dict[2] : dict[2][i][1] = k][2]

\* Mutant: bool is a subclass of int, and True == 1.
SameNumberUntagged(a, b) ==
    LET Number(v) == IF v[1] = "bool" THEN (IF v[2] THEN 2 ELSE 0) ELSE v[2]
    IN {a[1], b[1]} \subseteq {"int", "float", "bool"} /\ Number(a) = Number(b)

SameNumber(a, b) == IsNumber(a) /\ IsNumber(b) /\ a[2] = b[2]

EqualOf(a, b, equal) ==
    \/ a[1] = "null" /\ b[1] = "null"
    \/ a[1] \in {"bool", "str"} /\ b[1] = a[1] /\ a[2] = b[2]
    \/ SameNumber(a, b)
    \/ /\ a[1] = "list" /\ b[1] = "list" /\ Len(a[2]) = Len(b[2])
       /\ \A i \in DOMAIN a[2] : equal[<<a[2][i], b[2][i]>>]
    \/ /\ a[1] = "dict" /\ b[1] = "dict" /\ Keys(a) = Keys(b)
       /\ \A k \in Keys(a) : equal[<<Item(a, k), Item(b, k)>>]

Canonical == {CanonAt[left][value] : left \in Depths, value \in ValuePool} \ {Bad}

EqualAt[left \in Depths] ==
    IF left = 0 THEN [p \in Canonical \X Canonical |-> FALSE]
    ELSE [p \in Canonical \X Canonical |-> EqualOf(p[1], p[2], EqualAt[left - 1])]

Equal(a, b) == EqualAt[MaxDepth + 1][<<a, b>>]

(***************************************************************************)
(* The reference: whether a value has a JSON form within the depth, and    *)
(* what it stands for.                                                     *)
(***************************************************************************)
RepresentableOf(v, representable) ==
    \/ v[1] \in {"null", "bool", "str", "int", "float"}
    \/ v[1] \in {"list", "tuple"} /\ \A i \in DOMAIN v[2] : representable[v[2][i]]
    \/ /\ v[1] = "dict" /\ NoString \notin Keys(v)
       /\ \A i \in DOMAIN v[2] : representable[v[2][i][2]]

RepresentableAt[left \in Depths] ==
    IF left = 0 THEN [v \in ValuePool |-> FALSE]
    ELSE [v \in ValuePool |-> RepresentableOf(v, RepresentableAt[left - 1])]

DenotedOf(v, denoted) ==
    CASE v[1] \in {"null", "bool", "str"} -> v
      [] IsNumber(v) -> <<"number", v[2]>>
      [] v[1] \in {"list", "tuple"} -> <<"list", [i \in DOMAIN v[2] |-> denoted[v[2][i]]]>>
      [] v[1] = "dict" -> <<"dict", [k \in Keys(v) |-> denoted[Item(v, k)]]>>
      [] v[1] \in {"nan", "set"} -> Bad

DenotedAt[left \in Depths] ==
    IF left = 0 THEN [v \in ValuePool |-> Bad]
    ELSE [v \in ValuePool |-> DenotedOf(v, DenotedAt[left - 1])]

Representable(v) == RepresentableAt[MaxDepth + 1][v]
Denoted(v) == DenotedAt[MaxDepth + 1][v]
================================================================================
