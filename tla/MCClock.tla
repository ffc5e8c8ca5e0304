------------------------------ MODULE MCClock ------------------------------
(* Two slots with alarms, and callers that set and cancel them. *)
EXTENDS Clock
=============================================================================
