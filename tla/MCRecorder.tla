----------------------------- MODULE MCRecorder -----------------------------
(***************************************************************************)
(* Instances of Recorder for TLC: batches of two events and a backoff that *)
(* reaches its maximum with the second failure.                            *)
(***************************************************************************)
EXTENDS Recorder

ThreeThenOne == <<3, 1>>
=============================================================================
