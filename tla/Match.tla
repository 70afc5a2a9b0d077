--------------------------------- MODULE Match ---------------------------------
(***************************************************************************)
(* What an episode promises of its holes, whoever plays them: each hole is *)
(* opened once and in order, judged after its submissions are in, and      *)
(* either scored or discarded; results are made public, or withheld, only  *)
(* when no hole is going on any more.  SeatWindow and HoleLoop implement   *)
(* it from two sides: the seats' and the engine's.                         *)
(***************************************************************************)
EXTENDS Naturals

CONSTANT Holes  \* config.holes

VARIABLES
    stage,   \* between holes, open, judging, ending, published or withheld
    opened,  \* holes opened so far
    scored   \* holes scored so far

vars == <<stage, opened, scored>>

Init ==
    /\ stage = "between"
    /\ opened = 0
    /\ scored = 0

\* The next hole is revealed to both seats.
OpenHole ==
    /\ stage = "between"
    /\ opened = scored
    /\ opened < Holes
    /\ stage' = "open"
    /\ opened' = opened + 1
    /\ UNCHANGED scored

\* Every seat has a submission, its own or the fallback.
Judge ==
    /\ stage = "open"
    /\ stage' = "judging"
    /\ UNCHANGED <<opened, scored>>

Score ==
    /\ stage = "judging"
    /\ scored' = opened
    /\ stage' \in {"between", "ending"}
    /\ UNCHANGED opened

\* All the holes are played, or the one that is open is discarded.
End ==
    /\ stage \in {"between", "open", "judging"}
    /\ stage' = "ending"
    /\ UNCHANGED <<opened, scored>>

Publish ==
    /\ stage = "ending"
    /\ stage' = "published"
    /\ UNCHANGED <<opened, scored>>

Withhold ==
    /\ stage = "ending"
    /\ stage' = "withheld"
    /\ UNCHANGED <<opened, scored>>

Next ==
    \/ OpenHole
    \/ Judge
    \/ Score
    \/ End
    \/ Publish
    \/ Withhold

Spec == Init /\ [][Next]_vars
================================================================================
