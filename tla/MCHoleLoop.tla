------------------------------ MODULE MCHoleLoop -------------------------------
(* HoleLoop on small instances. *)
EXTENDS HoleLoop, TLC

First == CHOOSE k \in Keys : TRUE
Good(k) == [key |-> k, form |-> "ok"]
WrongArity == [key |-> First, form |-> "arity"]

OneTest == {<<Good(First)>>}
TwoTests == {<<>>} \cup {<<t, u>> : t, u \in {Good(k) : k \in Keys} \cup {WrongArity}}

Matches == {"match"}
MatchMismatchTimeout == {"match", "ref_mismatch", "ref_timeout"}
================================================================================
