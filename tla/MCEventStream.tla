---------------------------- MODULE MCEventStream ----------------------------
(* Values of EventStream's constants for TLC.                              *)
EXTENDS EventStream

EventFrames == {{"id", "data"}, {"id", "data", "retry"}}

(* A comment and a blank line, to keep the connection alive, and a frame   *)
(* that only sets the delay.                                                *)
AllFrames == EventFrames \union {{}, {"retry"}}
=============================================================================
