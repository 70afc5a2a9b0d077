----------------------------- MODULE MCSeatWindow ------------------------------
(* SeatWindow on small instances.  Attempts, and the two seats, are treated *)
(* alike by every definition; symmetry is used where no liveness is checked.*)
EXTENDS SeatWindow, TLC

MCWindows == HoleNumbers \X BOOLEAN

NoBadReplies == {}
MalformedOnly == {"malformed"}
MalformedOrWrong == {"malformed", "wrong_hole"}

AttemptSymmetry == Permutations(AttemptIds)
SeatSymmetry == Permutations(Seats)
================================================================================
