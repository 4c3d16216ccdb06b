----------------------------- MODULE MCLifecycle ----------------------------
(***************************************************************************)
(* Instances of Lifecycle for TLC.  A scenario is a set of webhooks and a  *)
(* set of batches; every cfg picks one of each.                            *)
(***************************************************************************)
EXTENDS Lifecycle, TLC

CONSTANTS s1, c1, w1, w2

Sessions1 == {s1}
Clients1 == {c1}
Workers1 == {w1}
Workers2 == {w1, w2}

Hook(category, id, seq, count) ==
    [category |-> category, id |-> id, seq |-> seq, at |-> 1, startedAt |-> 0,
     count |-> count]

Batch(id, client, seqs) ==
    [category |-> "ingest", id |-> id, client |-> client, events |-> seqs]

\* One visit: started, a count too large for the column (it wraps to 1), the
\* end, and the departure of a participant that the end leaves behind.
Visit == {Hook("started", s1, 1, 2), Hook("joined", s1, 2, 7),
          Hook("ended", s1, 3, 0), Hook("left", s1, 4, 0)}

StartedAndEnded == {Hook("started", s1, 1, 1), Hook("ended", s1, 2, 0)}

NoBatches == {}
OneEvent == {Batch(s1, c1, <<1>>)}
\* Two batches that share an event.
Resent == {Batch(s1, c1, <<1, 2>>), Batch(s1, c1, <<2>>)}

WorkerSymmetry == Permutations(Workers)
=============================================================================
