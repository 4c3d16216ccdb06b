------------------------------- MODULE Batcher -------------------------------
(***************************************************************************)
(* The event batcher of the extension's background                         *)
(* (extension/src/background/batcher.ts).  It runs in one JavaScript       *)
(* thread, so whatever a call does before its first await is atomic: each  *)
(* operator below is one such piece of code, from batcher state to batcher *)
(* state.  Recorder.tla runs them and delivers what they send.             *)
(*                                                                         *)
(*   queue     the events waiting to be sent                               *)
(*   batch     the events of the send that is awaited, <<>> without one    *)
(*   timer     {} or {the delay in ms the pending timer was armed with}    *)
(*   sending   a send is awaited                                           *)
(*   failures  consecutive failed sends                                    *)
(*                                                                         *)
(* An event is its sequence number and its kind; "invalid" stands for one  *)
(* that the server's validation refuses, such as data over its size limit. *)
(***************************************************************************)
EXTENDS Integers, Sequences

CONSTANTS
    FlushIntervalMs,
    MaxBatchSize,
    MaxBackoffMs,
    FailureCap      \* bound of `failures'; the backoff is at its maximum there

ASSUME BatcherAssumption ==
    /\ FlushIntervalMs \in Nat \ {0}
    /\ MaxBatchSize \in Nat \ {0}
    /\ MaxBackoffMs \in Nat \ {0}
    /\ FailureCap \in Nat \ {0}
    /\ FlushIntervalMs * 2^FailureCap >= MaxBackoffMs

Event == [seq : Nat \ {0}, kind : {"plain", "key", "invalid"}]

BatcherState ==
    [queue : Seq(Event), batch : Seq(Event), timer : SUBSET Nat,
     sending : BOOLEAN, failures : Nat]

NewBatcher ==
    [queue |-> <<>>, batch |-> <<>>, timer |-> {}, sending |-> FALSE, failures |-> 0]

Smaller(a, b) == IF a < b THEN a ELSE b

BackoffMs(failures) == Smaller(FlushIntervalMs * 2^failures, MaxBackoffMs)

\* A pending timer is kept, whatever its delay.
Schedule(b, ms) == IF b.timer = {} THEN [b EXCEPT !.timer = {ms}] ELSE b

\* The front of the queue becomes the batch in flight.
StartSend(b) ==
    LET n == Smaller(Len(b.queue), MaxBatchSize) IN
    [b EXCEPT !.timer = {}, !.sending = TRUE,
              !.batch = SubSeq(b.queue, 1, n),
              !.queue = SubSeq(b.queue, n + 1, Len(b.queue))]

\* Mutant: a send does not wait for the one before it.
FlushWhileSending(b) == IF b.queue = <<>> THEN b ELSE StartSend(b)

\* flush, up to its await: at most one send at a time.
Flush(b) == IF b.sending \/ b.queue = <<>> THEN b ELSE StartSend(b)

TimerFired(b) == Flush([b EXCEPT !.timer = {}])

Add(b, event) ==
    LET c == [b EXCEPT !.queue = Append(@, event)] IN
    IF event.kind = "key" \/ Len(c.queue) >= MaxBatchSize
    THEN Flush(c)
    ELSE Schedule(c, IF b.failures > 0 THEN BackoffMs(b.failures) ELSE FlushIntervalMs)

\* flush, after its await: the send resolved.
SendSucceeded(b) ==
    LET c == [b EXCEPT !.batch = <<>>, !.sending = FALSE, !.failures = 0] IN
    IF c.queue = <<>> THEN c ELSE Schedule(c, 0)

\* Mutant: the failed batch goes to the end of the queue.
SendFailedToTheEnd(b) ==
    LET c == [b EXCEPT !.queue = b.queue \o b.batch, !.batch = <<>>,
                       !.sending = FALSE,
                       !.failures = Smaller(@ + 1, FailureCap)]
    IN  Schedule(c, BackoffMs(c.failures))

\* Mutant: nothing is scheduled after a failure.
SendFailedQuietly(b) ==
    [b EXCEPT !.queue = b.batch \o b.queue, !.batch = <<>>, !.sending = FALSE,
              !.failures = Smaller(@ + 1, FailureCap)]

\* flush, after its await: the send was rejected; the batch goes back in front.
SendFailed(b) ==
    LET c == [b EXCEPT !.queue = b.batch \o b.queue, !.batch = <<>>,
                       !.sending = FALSE,
                       !.failures = Smaller(@ + 1, FailureCap)]
    IN  Schedule(c, BackoffMs(c.failures))
=============================================================================
