-------------------------------- MODULE MCHub --------------------------------
(***************************************************************************)
(* An instance of Hub for TLC: two sessions, two streams that ask for one  *)
(* of them or for the overview, and buffers that overflow.                 *)
(***************************************************************************)
EXTENDS Hub

CONSTANTS s1, s2, t1, t2

TwoSessions == {s1, s2}
TwoStreams == {t1, t2}
OneAndOverview == {s1, Overview}

\* The first matches both filters, the second the overview's only.
TwoMessages ==
    {[event |-> "session", session |-> s1, key |-> FALSE],
     [event |-> "activity", session |-> s2, key |-> TRUE]}
=============================================================================
