------------------------------- MODULE MCSandbox -------------------------------
(* Sandbox on a small instance. *)
EXTENDS Sandbox
================================================================================
