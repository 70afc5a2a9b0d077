------------------------------ MODULE Fingerprints ------------------------------
(***************************************************************************)
(* values.py, fingerprint: the string by which duplicate tests are found,  *)
(* against what the values stand for.  The inputs are those of Rules.      *)
(***************************************************************************)
EXTENDS Rules

CONSTANTS
    Exact,     \* floats are exact up to here (2^53), and even integers above
    Largest,   \* the largest float
    Spelling   \* the characters of each string, those of the rendering among them

\* Strings differ in their spelling.
ASSUME SpellingAssumption ==
    \A m, n \in DOMAIN Spelling : Spelling[m] = Spelling[n] => m = n

\* float(node): an integer above Exact goes to the nearest multiple of two,
\* a tie to the multiple of four.
AsFloat(n) ==
    CASE n <= 2 * Exact \/ n % 4 = 0 -> n
      [] n > 2 * Exact /\ n % 8 = 2 -> n - 2
      [] n > 2 * Exact /\ n % 8 = 6 -> n + 2

\* The rendering is a string: a sequence of tokens.  Strings and keys go into
\* it as they are spelled, with no quotes and nothing escaped.  A token that is
\* not a number is a pair with 0.
Token(t) == <<t, 0>>
Raised == Token("raised")

RECURSIVE Joined(_)
Joined(parts) ==
    CASE Len(parts) = 0 -> <<>>
      [] Len(parts) = 1 -> parts[1]
      [] Len(parts) > 1 -> parts[1] \o <<Token(",")>> \o Joined(Tail(parts))

\* Mutant: the items of a dict in their own order.
InOrder(dict) == [i \in DOMAIN dict[2] |-> dict[2][i][1]]

Sorted(dict) == SetToSortSeq(Keys(dict), <)

RECURSIVE Render(_)
Render(node) ==
    CASE node[1] = "null" -> <<Token("n")>>
      [] node[1] = "bool" -> <<<<"b", IF node[2] THEN 1 ELSE 0>>>>
      [] IsNumber(node) ->
           IF node[2] > 2 * Largest THEN <<Raised>> ELSE <<<<"m", AsFloat(node[2])>>>>
      [] node[1] = "str" -> <<Token("s:")>> \o Spelling[node[2]]
      [] node[1] = "list" ->
           <<Token("[")>> \o Joined([i \in DOMAIN node[2] |-> Render(node[2][i])])
               \o <<Token("]")>>
      [] node[1] = "dict" ->
           LET keys == Sorted(node)
           IN <<Token("{")>>
              \o Joined([i \in DOMAIN keys |->
                            Spelling[keys[i]] \o <<Token("=")>>
                                \o Render(Item(node, keys[i]))])
              \o <<Token("}")>>

\* BadValue and OverflowError leave the whole rendering.
Fingerprint(value) ==
    LET node == Canon(value)
        text == Render(node)
    IN IF node = Bad \/ \E i \in DOMAIN text : text[i] = Raised THEN <<Raised>> ELSE text

\* What a value stands for, with every number the nearest float.
RECURSIVE InFloats(_)
InFloats(d) ==
    CASE d[1] = "number" -> <<"float", AsFloat(d[2])>>
      [] d[1] \in {"list", "dict"} -> <<d[1], [k \in DOMAIN d[2] |-> InFloats(d[2][k])]>>
      [] d[1] \in {"null", "bool", "str"} -> d

\* No string or key of it is spelled with a mark of the rendering.
Marks == {Token(t) : t \in {",", "=", "[", "]", "{", "}"}}
Unmarked(n) == \A i \in DOMAIN Spelling[n] : Spelling[n][i] \notin Marks

RECURSIVE Clear(_)
Clear(d) ==
    /\ d[1] = "str" => Unmarked(d[2])
    /\ d[1] = "dict" => \A k \in DOMAIN d[2] : Unmarked(k)
    /\ d[1] \in {"list", "dict"} => \A k \in DOMAIN d[2] : Clear(d[2][k])

\* Two values that stand for the same once their numbers are floats have one
\* fingerprint, so a test that repeats another is always found a duplicate.
\* Two with one fingerprint stand for the same if none of their strings holds a
\* mark of the rendering, which does not escape them: ["b,s:a"] and ["b", "a"]
\* are one text.  A number beyond the floats has no fingerprint at all.
FingerprintAgrees ==
    subject.kind = "values" =>
        LET a == Fingerprint(subject.a)
            b == Fingerprint(subject.b)
            x == InFloats(Denoted(subject.a))
            y == InFloats(Denoted(subject.b))
        IN <<Raised>> \notin {a, b} =>
               /\ x = y => a = b
               /\ a = b /\ Clear(x) /\ Clear(y) => x = y
================================================================================
