--------------------------- MODULE MCPlayerSession ---------------------------
(* PlayerSession on small instances. *)
EXTENDS PlayerSession, TLC

MCWindows == HoleNumbers \X BOOLEAN
NoBadReplies == {}
================================================================================
