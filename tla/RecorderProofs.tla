--------------------------- MODULE RecorderProofs ---------------------------
(***************************************************************************)
(* Proofs about Recorder.tla, for every number of boots, every limit and   *)
(* every batch size.  Sequence numbers never skip: the queue, the batch in *)
(* flight and what every ingest request has still to insert are runs of    *)
(* consecutive numbers (Consecutive), and no run starts behind the rows    *)
(* that are stored already.  So the events table grows by the next number  *)
(* of a boot or not at all, which is what EventDelivery.tla promises.      *)
(***************************************************************************)
EXTENDS Recorder, SequenceTheorems, FiniteSetTheorems, TLAPS

(* Runs of events. *)

\* The events of s are numbered base + 1, base + 2, ...
Consecutive(s, base) == \A i \in DOMAIN s : s[i].seq = base + i

LEMMA EmptyRun == \A base : Consecutive(<<>>, base)
BY EmptySeq DEF Consecutive

LEMMA RunAppend ==
    ASSUME NEW s \in Seq(Event), NEW base \in Int, Consecutive(s, base),
           NEW e \in Event, e.seq = base + Len(s) + 1
    PROVE  /\ Append(s, e) \in Seq(Event) /\ Len(Append(s, e)) = Len(s) + 1
           /\ Consecutive(Append(s, e), base)
<1> DEFINE t == Append(s, e)  n == Len(s)
<1>1. /\ n \in Nat /\ t \in Seq(Event) /\ DOMAIN s = 1..n /\ DOMAIN t = 1..(n + 1)
      /\ Len(t) = n + 1 /\ t[n + 1] = e /\ \A i \in 1..n : t[i] = s[i]
  BY AppendProperties, LenProperties
<1> HIDE DEF t, n
<1>2. Consecutive(t, base)
  <2> SUFFICES ASSUME NEW i \in 1..(n + 1) PROVE t[i].seq = base + i
    BY <1>1 DEF Consecutive
  <2>1. CASE i = n + 1
    BY <1>1, <2>1 DEF n
  <2>2. CASE i # n + 1
    <3>1. i \in 1..n
      BY <1>1, <2>2
    <3>2. s[i].seq = base + i
      BY <1>1, <3>1 DEF Consecutive
    <3>3. QED
      BY <1>1, <3>1, <3>2
  <2>3. QED
    BY <2>1, <2>2
<1>3. QED
  BY <1>1, <1>2 DEF t, n

LEMMA RunSplit ==
    ASSUME NEW s \in Seq(Event), NEW base \in Int, Consecutive(s, base), NEW n \in 0..Len(s)
    PROVE  /\ SubSeq(s, 1, n) \in Seq(Event) /\ Len(SubSeq(s, 1, n)) = n
           /\ Consecutive(SubSeq(s, 1, n), base)
           /\ SubSeq(s, n + 1, Len(s)) \in Seq(Event)
           /\ Len(SubSeq(s, n + 1, Len(s))) = Len(s) - n
           /\ Consecutive(SubSeq(s, n + 1, Len(s)), base + n)
<1> DEFINE k == Len(s)  p == SubSeq(s, 1, n)  q == SubSeq(s, n + 1, k)
<1>1. k \in Nat /\ n \in Nat /\ n <= k /\ DOMAIN s = 1..k /\ \A i \in 1..k : s[i] \in Event
  BY LenProperties
<1>2. p \in Seq(Event) /\ Len(p) = n /\ \A i \in 1..n : p[i] = s[i]
  BY <1>1, SubSeqProperties
<1>3. /\ q \in Seq(Event) /\ Len(q) = k - n
      /\ \A i \in 1..(k - n) : q[i] = s[n + i]
  <2>1. \A i \in (n + 1)..k : s[i] \in Event
    BY <1>1
  <2>2. /\ q \in Seq(Event) /\ Len(q) = IF n + 1 <= k THEN k - (n + 1) + 1 ELSE 0
        /\ \A i \in 1..(k - (n + 1) + 1) : q[i] = s[(n + 1) + i - 1]
    BY <1>1, <2>1, SubSeqProperties
  <2> HIDE DEF k, q
  <2>3. QED
    BY <1>1, <2>2
<1> HIDE DEF k, p, q
<1>4. DOMAIN p = 1..n /\ DOMAIN q = 1..(k - n)
  BY <1>2, <1>3, LenProperties
<1>5. Consecutive(p, base)
  BY <1>1, <1>2, <1>4 DEF Consecutive
<1>6. Consecutive(q, base + n)
  <2> SUFFICES ASSUME NEW i \in 1..(k - n) PROVE q[i].seq = (base + n) + i
    BY <1>4 DEF Consecutive
  <2>1. n + i \in 1..k /\ base + (n + i) = (base + n) + i
    BY <1>1
  <2>2. s[n + i].seq = base + (n + i)
    BY <1>1, <2>1 DEF Consecutive
  <2>3. QED
    BY <1>3, <2>1, <2>2
<1>7. QED
  BY <1>2, <1>3, <1>5, <1>6 DEF k, p, q

LEMMA RunConcat ==
    ASSUME NEW s \in Seq(Event), NEW t \in Seq(Event), NEW base \in Int,
           Consecutive(s, base), Consecutive(t, base + Len(s))
    PROVE  s \o t \in Seq(Event) /\ Len(s \o t) = Len(s) + Len(t) /\ Consecutive(s \o t, base)
<1> DEFINE n == Len(s)  k == Len(t)  u == s \o t
<1>1. /\ n \in Nat /\ k \in Nat /\ DOMAIN s = 1..n /\ DOMAIN t = 1..k
  BY LenProperties
<1>2. /\ u \in Seq(Event) /\ Len(u) = n + k
      /\ \A i \in 1..(n + k) : u[i] = IF i <= n THEN s[i] ELSE t[i - n]
  BY ConcatProperties
<1>3. DOMAIN u = 1..(n + k)
  BY <1>2, LenProperties
<1>4. Consecutive(t, base + n)
  OBVIOUS
<1> HIDE DEF n, k, u
<1>5. Consecutive(u, base)
  <2> SUFFICES ASSUME NEW i \in 1..(n + k) PROVE u[i].seq = base + i
    BY <1>3 DEF Consecutive
  <2>1. CASE i <= n
    <3>1. i \in 1..n /\ u[i] = s[i]
      BY <1>1, <1>2, <2>1
    <3>2. QED
      BY <1>1, <3>1 DEF Consecutive
  <2>2. CASE ~(i <= n)
    <3>1. i - n \in 1..k /\ u[i] = t[i - n] /\ (base + n) + (i - n) = base + i
      BY <1>1, <1>2, <2>2
    <3>2. t[i - n].seq = (base + n) + (i - n)
      BY <1>1, <1>4, <3>1 DEF Consecutive
    <3>3. QED
      BY <3>1, <3>2
  <2>3. QED
    BY <2>1, <2>2
<1>6. QED
  BY <1>2, <1>5 DEF n, k, u

LEMMA RunTail ==
    ASSUME NEW s \in Seq(Event), s # <<>>, NEW base \in Int, Consecutive(s, base)
    PROVE  /\ Head(s) \in Event /\ Head(s).seq = base + 1
           /\ Tail(s) \in Seq(Event) /\ Len(Tail(s)) = Len(s) - 1
           /\ Len(s) \in Nat \ {0}
           /\ Consecutive(Tail(s), base + 1)
<1> DEFINE n == Len(s)  t == Tail(s)
<1>1. n \in Nat \ {0} /\ DOMAIN s = 1..n
  BY LenProperties, EmptySeq
<1>2. /\ t \in Seq(Event) /\ Len(t) = n - 1 /\ \A i \in 1..(n - 1) : t[i] = s[i + 1]
      /\ Head(s) \in Event
  BY HeadTailProperties
<1>3. Head(s) = s[1]
  OBVIOUS
<1>4. DOMAIN t = 1..(n - 1)
  BY <1>2, LenProperties
<1> HIDE DEF n, t
<1>5. Consecutive(t, base + 1)
  <2> SUFFICES ASSUME NEW i \in 1..(n - 1) PROVE t[i].seq = (base + 1) + i
    BY <1>4 DEF Consecutive
  <2>1. i + 1 \in 1..n /\ base + (i + 1) = (base + 1) + i
    BY <1>1
  <2>2. s[i + 1].seq = base + (i + 1)
    BY <1>1, <2>1 DEF Consecutive
  <2>3. QED
    BY <1>2, <2>1, <2>2
<1>6. Head(s).seq = base + 1
  BY <1>1, <1>3 DEF Consecutive
<1>7. QED
  BY <1>1, <1>2, <1>5, <1>6 DEF n, t

-----------------------------------------------------------------------------
(* The batcher.  `total' is the number of events its boot has recorded.      *)

LEMMA TwoToThe == \A n \in Nat : 2^n \in Nat
<1> SUFFICES ASSUME NEW n \in Nat PROVE 2^n \in Nat
  OBVIOUS
<1>1. IsFiniteSet(1..n) /\ Cardinality(1..n) = n
  BY FS_Interval
<1>2. IsFiniteSet(SUBSET (1..n)) /\ Cardinality(SUBSET (1..n)) = 2^n
  BY <1>1, FS_SUBSET
<1>3. QED
  BY <1>2, FS_CardinalityType

LEMMA BackoffType == \A n \in Nat : BackoffMs(n) \in Nat
<1> SUFFICES ASSUME NEW n \in Nat PROVE BackoffMs(n) \in Nat
  OBVIOUS
<1> DEFINE p == 2^n
<1>1. p \in Nat
  BY TwoToThe
<1> HIDE DEF p
<1>2. FlushIntervalMs * p \in Nat
  BY <1>1, BatcherAssumption
<1>3. QED
  BY <1>2, BatcherAssumption DEF BackoffMs, Smaller, p

\* The batch and the queue are the end of what the boot recorded, nothing waits
\* without a send or a timer, and only an awaited send has a batch.
BatcherOK(b, total) ==
    /\ b \in BatcherState
    /\ Consecutive(b.queue, total - Len(b.queue))
    /\ Consecutive(b.batch, total - Len(b.queue) - Len(b.batch))
    /\ b.sending \/ b.batch = <<>>
    /\ b.queue # <<>> => b.sending \/ b.timer # {}

\* A call that takes the batcher from b to c forgets no event, and does not
\* touch the batch of a send that is awaited.
Keeps(b, total, c, now) ==
    /\ BatcherOK(c, now)
    /\ now - Len(c.queue) - Len(c.batch) = total - Len(b.queue) - Len(b.batch)
    /\ b.sending => c.sending /\ now - Len(c.queue) = total - Len(b.queue)

LEMMA KeepsTwice ==
    ASSUME NEW b, NEW c, NEW d, NEW i, NEW j, NEW k, Keeps(b, i, c, j), Keeps(c, j, d, k)
    PROVE  Keeps(b, i, d, k)
BY DEF Keeps

LEMMA QueueLengths ==
    ASSUME NEW b \in BatcherState
    PROVE  /\ b.queue \in Seq(Event) /\ b.batch \in Seq(Event)
           /\ Len(b.queue) \in Nat /\ Len(b.batch) \in Nat
           /\ b.timer \in SUBSET Nat /\ b.sending \in BOOLEAN /\ b.failures \in Nat
BY LenProperties DEF BatcherState

LEMMA StartSendKeeps ==
    ASSUME NEW b \in BatcherState, NEW total \in Nat, ~b.sending, b.batch = <<>>,
           Consecutive(b.queue, total - Len(b.queue))
    PROVE  Keeps(b, total, StartSend(b), total)
<1> DEFINE n == Smaller(Len(b.queue), MaxBatchSize)
           k == Len(b.queue)
           p == SubSeq(b.queue, 1, n)
           q == SubSeq(b.queue, n + 1, k)
           c == StartSend(b)
<1>1. b.queue \in Seq(Event) /\ k \in Nat /\ Len(b.batch) = 0
  BY QueueLengths, EmptySeq
<1>2. n \in 0..k
  BY <1>1, BatcherAssumption DEF Smaller
<1>3. c = [b EXCEPT !.timer = {}, !.sending = TRUE, !.batch = p, !.queue = q]
  BY DEF StartSend
<1> HIDE DEF n
<1>4. /\ p \in Seq(Event) /\ Len(p) = n /\ Consecutive(p, total - k)
      /\ q \in Seq(Event) /\ Len(q) = k - n /\ Consecutive(q, total - k + n)
  <2>1. total - k \in Int /\ Consecutive(b.queue, total - k)
    BY <1>1
  <2> HIDE DEF p, q, k
  <2>2. QED
    BY <1>1, <1>2, <2>1, RunSplit DEF p, q, k
<1> HIDE DEF k, p, q, c
<1>5. /\ c \in BatcherState /\ c.queue = q /\ c.batch = p /\ c.sending = TRUE
  BY <1>3, <1>4 DEF BatcherState
<1>6. total - Len(q) = total - k + n /\ total - Len(q) - Len(p) = total - k
  BY <1>1, <1>2, <1>4
<1>7. BatcherOK(c, total)
  BY <1>4, <1>5, <1>6 DEF BatcherOK
<1>8. total - k - 0 = total - k
  BY <1>1
<1>9. QED
  BY <1>1, <1>5, <1>6, <1>7, <1>8 DEF Keeps, k, c

LEMMA FlushKeeps ==
    ASSUME NEW b \in BatcherState, NEW total \in Nat,
           Consecutive(b.queue, total - Len(b.queue)),
           Consecutive(b.batch, total - Len(b.queue) - Len(b.batch)),
           b.sending \/ b.batch = <<>>
    PROVE  Keeps(b, total, Flush(b), total)
<1>1. CASE b.sending \/ b.queue = <<>>
  <2>1. Flush(b) = b
    BY <1>1 DEF Flush
  <2>2. QED
    BY <1>1, <2>1 DEF Keeps, BatcherOK
<1>2. CASE ~b.sending /\ b.queue # <<>>
  BY <1>2, StartSendKeeps DEF Flush
<1>3. QED
  BY <1>1, <1>2

LEMMA TimerFiredKeeps ==
    ASSUME NEW b, NEW total \in Nat, BatcherOK(b, total)
    PROVE  Keeps(b, total, TimerFired(b), total)
<1> DEFINE c == [b EXCEPT !.timer = {}]
<1>1. /\ c \in BatcherState /\ c.queue = b.queue /\ c.batch = b.batch /\ c.sending = b.sending
  BY DEF BatcherOK, BatcherState
<1> HIDE DEF c
<1>2. Keeps(c, total, Flush(c), total)
  BY <1>1, FlushKeeps DEF BatcherOK
<1>3. QED
  BY <1>1, <1>2 DEF Keeps, TimerFired, c

LEMMA ScheduleFacts ==
    ASSUME NEW b \in BatcherState, NEW ms \in Nat
    PROVE  /\ Schedule(b, ms) \in BatcherState
           /\ Schedule(b, ms).queue = b.queue /\ Schedule(b, ms).batch = b.batch
           /\ Schedule(b, ms).sending = b.sending /\ Schedule(b, ms).timer # {}
BY DEF Schedule, BatcherState

LEMMA AddKeeps ==
    ASSUME NEW b, NEW total \in Nat, BatcherOK(b, total), NEW e \in Event, e.seq = total + 1
    PROVE  Keeps(b, total, Add(b, e), total + 1)
<1> DEFINE c == [b EXCEPT !.queue = Append(b.queue, e)]
           k == Len(b.queue)
           ms == IF b.failures > 0 THEN BackoffMs(b.failures) ELSE FlushIntervalMs
<1>1. b \in BatcherState /\ b.queue \in Seq(Event) /\ k \in Nat /\ Len(b.batch) \in Nat
  BY QueueLengths DEF BatcherOK
<1>2. Consecutive(b.queue, total - k) /\ e.seq = (total - k) + k + 1
  BY <1>1 DEF BatcherOK
<1>3. /\ Append(b.queue, e) \in Seq(Event) /\ Len(Append(b.queue, e)) = k + 1
      /\ Consecutive(Append(b.queue, e), total - k)
  BY <1>1, <1>2, RunAppend
<1>4. /\ c \in BatcherState /\ c.queue = Append(b.queue, e) /\ c.batch = b.batch
      /\ c.sending = b.sending /\ c.failures = b.failures
  BY <1>1, <1>3 DEF BatcherState
<1>5. ms \in Nat
  BY <1>1, QueueLengths, BackoffType, BatcherAssumption
<1>6. Add(b, e) = IF e.kind = "key" \/ Len(c.queue) >= MaxBatchSize THEN Flush(c)
                  ELSE Schedule(c, ms)
  BY <1>4 DEF Add
<1> DEFINE now == total + 1
<1> HIDE DEF c, k, ms
<1>7. now \in Nat /\ now - Len(c.queue) = total - k
  <2>1. Len(c.queue) = k + 1
    BY <1>3, <1>4
  <2>2. QED
    BY <1>1, <2>1
<1> HIDE DEF now
<1>8. /\ Consecutive(c.queue, now - Len(c.queue))
      /\ Consecutive(c.batch, now - Len(c.queue) - Len(c.batch))
      /\ now - Len(c.queue) - Len(c.batch) = total - Len(b.queue) - Len(b.batch)
      /\ c.sending \/ c.batch = <<>>
  BY <1>3, <1>4, <1>7 DEF BatcherOK, k
<1>9. CASE Add(b, e) = Flush(c)
  <2>1. Keeps(c, now, Flush(c), now)
    BY <1>4, <1>7, <1>8, FlushKeeps
  <2>2. Keeps(b, total, Flush(c), now)
    BY <1>4, <1>7, <1>8, <2>1 DEF Keeps, k
  <2>3. QED
    BY <1>9, <2>2 DEF now
<1>10. CASE Add(b, e) = Schedule(c, ms)
  <2> DEFINE d == Schedule(c, ms)
  <2>1. /\ d \in BatcherState /\ d.queue = c.queue /\ d.batch = c.batch
        /\ d.sending = c.sending /\ d.timer # {}
    BY <1>4, <1>5, ScheduleFacts
  <2> HIDE DEF d
  <2>2. BatcherOK(d, now)
    BY <1>8, <2>1 DEF BatcherOK
  <2>3. Keeps(b, total, d, now)
    BY <1>4, <1>7, <1>8, <2>1, <2>2 DEF Keeps, k
  <2>4. QED
    BY <1>10, <2>3 DEF d, now
<1>11. QED
  BY <1>6, <1>9, <1>10

LEMMA SendSucceededKeeps ==
    ASSUME NEW b, NEW total \in Nat, BatcherOK(b, total)
    PROVE  /\ BatcherOK(SendSucceeded(b), total) /\ ~SendSucceeded(b).sending
           /\ SendSucceeded(b).queue = b.queue /\ SendSucceeded(b).batch = <<>>
<1> DEFINE c == [b EXCEPT !.batch = <<>>, !.sending = FALSE, !.failures = 0]
           d == SendSucceeded(b)
<1>1. b \in BatcherState /\ <<>> \in Seq(Event)
  BY DEF BatcherOK
<1>2. /\ c \in BatcherState /\ c.queue = b.queue /\ c.batch = <<>> /\ c.sending = FALSE
  BY <1>1 DEF BatcherState
<1>3. d = IF c.queue = <<>> THEN c ELSE Schedule(c, 0)
  BY DEF SendSucceeded
<1> HIDE DEF c, d
<1>4. /\ d \in BatcherState /\ d.queue = b.queue /\ d.batch = <<>> /\ d.sending = FALSE
      /\ d.queue # <<>> => d.timer # {}
  BY <1>2, <1>3, ScheduleFacts
<1>5. Consecutive(d.queue, total - Len(d.queue))
  BY <1>4 DEF BatcherOK
<1>6. BatcherOK(d, total)
  BY <1>4, <1>5, EmptyRun DEF BatcherOK
<1>7. QED
  BY <1>4, <1>6 DEF d

\* The batch that was not accepted goes back in front of the queue.
LEMMA SendFailedKeeps ==
    ASSUME NEW b, NEW total \in Nat, BatcherOK(b, total)
    PROVE  /\ BatcherOK(SendFailed(b), total) /\ ~SendFailed(b).sending
           /\ SendFailed(b).batch = <<>>
           /\ total - Len(SendFailed(b).queue) = total - Len(b.queue) - Len(b.batch)
<1> DEFINE f == Smaller(b.failures + 1, FailureCap)
           q == b.batch \o b.queue
           c == [b EXCEPT !.queue = q, !.batch = <<>>, !.sending = FALSE, !.failures = f]
           d == SendFailed(b)
           j == Len(b.queue)  k == Len(b.batch)
<1>1. /\ b \in BatcherState /\ <<>> \in Seq(Event) /\ b.queue \in Seq(Event)
      /\ b.batch \in Seq(Event) /\ j \in Nat /\ k \in Nat /\ b.failures \in Nat
  BY QueueLengths DEF BatcherOK
<1>2. f \in Nat
  BY <1>1, BatcherAssumption DEF Smaller
<1>3. total - j - k \in Int /\ (total - j - k) + k = total - j
  BY <1>1
<1>4. q \in Seq(Event) /\ Len(q) = k + j /\ Consecutive(q, total - j - k)
  <2>1. Consecutive(b.batch, total - j - k) /\ Consecutive(b.queue, (total - j - k) + k)
    BY <1>3 DEF BatcherOK
  <2>2. QED
    BY <1>1, <1>3, <2>1, RunConcat
<1>5. d = Schedule(c, BackoffMs(c.failures))
  BY DEF SendFailed
<1> HIDE DEF f, q
<1>6. /\ c \in BatcherState /\ c.queue = q /\ c.batch = <<>> /\ c.sending = FALSE
      /\ c.failures = f
  BY <1>1, <1>2, <1>4 DEF BatcherState
<1> HIDE DEF c, d, j, k
<1>7. /\ d \in BatcherState /\ d.queue = q /\ d.batch = <<>> /\ d.sending = FALSE
      /\ d.timer # {}
  BY <1>2, <1>5, <1>6, BackoffType, ScheduleFacts
<1>8. total - Len(q) = total - j - k
  BY <1>1, <1>4
<1>9. BatcherOK(d, total)
  BY <1>4, <1>7, <1>8, EmptyRun DEF BatcherOK
<1>10. QED
  BY <1>7, <1>8, <1>9 DEF d, j, k

-----------------------------------------------------------------------------
(* The inductive invariant. *)

StoredIn(feed, b) == Cardinality({i \in DOMAIN feed : feed[i].boot = b})

\* The rows of each boot are numbered 1, 2, ... without a gap.
LogOK(feed) ==
    /\ \A i \in DOMAIN feed : feed[i].seq <= StoredIn(feed, feed[i].boot)
    /\ \A b \in Boots : \A n \in 1..StoredIn(feed, b) :
          \E i \in DOMAIN feed : feed[i] = [boot |-> b, seq |-> n]

\* What r has still to insert continues the stored rows, and was recorded; the
\* request that is awaited ends where the queue begins.
RequestFrom(r, base, feed, recorded, n, b) ==
    /\ Consecutive(r.rest, base)
    /\ base <= StoredIn(feed, r.boot)
    /\ base + Len(r.rest) <= recorded[r.boot]
    /\ r.awaited => /\ r.boot = n /\ b.sending
                    /\ base + Len(r.rest) = recorded[n] - Len(b.queue)

RequestFits(r, feed, recorded, n, b) ==
    \E base \in Int : RequestFrom(r, base, feed, recorded, n, b)

Inv ==
    /\ TypeOK
    /\ LogOK(log)
    /\ \A n \in Boots : n > boot => seq[n] = 0
    /\ BatcherOK(batcher, seq[boot])
    /\ seq[boot] - Len(batcher.queue) - Len(batcher.batch) <= StoredIn(log, boot)
    /\ \A r \in requests : RequestFits(r, log, seq, boot, batcher)
    /\ answer # "none" => batcher.sending
    /\ answer = "accepted" => seq[boot] - Len(batcher.queue) <= StoredIn(log, boot)

LEMMA BootFacts ==
    ASSUME TypeOK
    PROVE  boot \in Boots /\ boot \in Nat \ {0} /\ Boots \subseteq Nat \ {0} /\ seq[boot] \in Nat
BY RecorderAssumption DEF TypeOK, Boots

LEMMA StoredType ==
    ASSUME NEW feed \in Seq(Row), NEW b
    PROVE  /\ IsFiniteSet({i \in DOMAIN feed : feed[i].boot = b})
           /\ StoredIn(feed, b) \in Nat
<1>1. /\ Len(feed) \in Nat
      /\ {i \in DOMAIN feed : feed[i].boot = b} \in SUBSET (1..Len(feed))
  BY LenProperties
<1>2. IsFiniteSet(1..Len(feed))
  BY <1>1, FS_Interval
<1>3. QED
  BY <1>1, <1>2, FS_Subset, FS_CardinalityType DEF StoredIn

LEMMA InitInv == Init => Inv
<1> SUFFICES ASSUME Init PROVE Inv
  OBVIOUS
<1>1. boot = 1 /\ 1 \in Boots /\ Boots \subseteq Nat
  BY RecorderAssumption DEF Init, Boots
<1>2. <<>> \in Seq(Event) /\ <<>> \in Seq(Row)
  OBVIOUS
<1>3. /\ batcher \in BatcherState /\ batcher.queue = <<>> /\ batcher.batch = <<>>
      /\ ~batcher.sending
  BY <1>2 DEF Init, NewBatcher, BatcherState
<1>4. TypeOK
  BY <1>1, <1>2, <1>3 DEF Init, TypeOK
<1>5. BatcherOK(batcher, seq[boot])
  BY <1>3, EmptyRun DEF BatcherOK
<1>6. {i \in DOMAIN log : log[i].boot = boot} = {}
  BY EmptySeq DEF Init
<1>7. \A b : StoredIn(log, b) = 0
  <2> SUFFICES ASSUME NEW b PROVE StoredIn(log, b) = 0
    OBVIOUS
  <2>1. {i \in DOMAIN log : log[i].boot = b} = {}
    BY EmptySeq DEF Init
  <2>2. QED
    BY <2>1, FS_EmptySet DEF StoredIn
<1>8. LogOK(log)
  BY <1>7, EmptySeq DEF Init, LogOK
<1>9. seq[boot] = 0 /\ Len(<<>>) = 0 /\ \A n \in Boots : seq[n] = 0
  BY <1>1, EmptySeq DEF Init
<1>10. seq[boot] - Len(batcher.queue) - Len(batcher.batch) <= StoredIn(log, boot)
  BY <1>3, <1>7, <1>9
<1>11. QED
  BY <1>4, <1>5, <1>8, <1>9, <1>10 DEF Init, Inv

\* A handler of the background that only records, flushes or lets the timer fire.
BackgroundStep(n) ==
    /\ n \in Nat /\ n >= seq[boot]
    /\ seq' = [seq EXCEPT ![boot] = n]
    /\ Keeps(batcher, seq[boot], batcher', n)
    /\ Becomes(batcher')
    /\ ended' \in BOOLEAN
    /\ UNCHANGED <<boot, answer, log, faults>>

LEMMA BackgroundKeepsInv ==
    ASSUME Inv, NEW n, BackgroundStep(n)
    PROVE  Inv'
<1> DEFINE b == batcher  c == batcher'  stored == StoredIn(log, boot)
           new == [boot |-> boot, awaited |-> TRUE, rest |-> c.batch]
<1>1. /\ TypeOK /\ boot \in Boots /\ boot \in Nat \ {0} /\ Boots \subseteq Nat \ {0}
      /\ seq[boot] \in Nat /\ n \in Nat /\ n >= seq[boot] /\ seq \in [Boots -> Nat]
  BY BootFacts DEF Inv, BackgroundStep, TypeOK
<1>2. /\ seq'[boot] = n /\ seq' \in [Boots -> Nat]
      /\ \A m \in Boots : seq'[m] >= seq[m] /\ (m # boot => seq'[m] = seq[m])
  BY <1>1 DEF BackgroundStep
<1>3. /\ b \in BatcherState /\ c \in BatcherState /\ BatcherOK(c, n)
      /\ n - Len(c.queue) - Len(c.batch) = seq[boot] - Len(b.queue) - Len(b.batch)
      /\ b.sending => c.sending /\ n - Len(c.queue) = seq[boot] - Len(b.queue)
  BY DEF Inv, TypeOK, BackgroundStep, Keeps, BatcherOK
<1>4. /\ Len(c.queue) \in Nat /\ Len(c.batch) \in Nat /\ Len(b.queue) \in Nat
      /\ Len(b.batch) \in Nat /\ c.batch \in Seq(Event) /\ stored \in Nat
  BY <1>1, <1>3, QueueLengths, StoredType DEF TypeOK
<1>5. n - Len(c.queue) - Len(c.batch) <= stored
  BY <1>3 DEF Inv
<1>6. UNCHANGED <<boot, answer, log, faults>> /\ ended' \in BOOLEAN
  BY DEF BackgroundStep
<1> HIDE DEF stored
<1>7. ASSUME NEW r \in requests
      PROVE  RequestFits(r, log, seq', boot, c)
  <2>1. PICK base \in Int : RequestFrom(r, base, log, seq, boot, b)
    BY DEF Inv, RequestFits
  <2>2. r.boot \in Boots /\ r.rest \in Seq(Event) /\ Len(r.rest) \in Nat
    BY <1>1, LenProperties DEF TypeOK, Request
  <2>3. base + Len(r.rest) <= seq'[r.boot]
    <3>1. seq[r.boot] \in Nat /\ seq'[r.boot] \in Nat /\ seq'[r.boot] >= seq[r.boot]
      BY <1>1, <1>2, <2>2
    <3>2. base + Len(r.rest) <= seq[r.boot]
      BY <2>1 DEF RequestFrom
    <3>3. QED
      BY <2>2, <3>1, <3>2
  <2>4. r.awaited => r.boot = boot /\ c.sending /\ base + Len(r.rest) = n - Len(c.queue)
    BY <1>3, <2>1 DEF RequestFrom
  <2>5. RequestFrom(r, base, log, seq', boot, c)
    BY <1>2, <2>1, <2>3, <2>4 DEF RequestFrom
  <2>6. QED
    BY <2>5 DEF RequestFits
<1>8. /\ LogOK(log') /\ BatcherOK(batcher', seq'[boot'])
       /\ seq'[boot'] - Len(batcher'.queue) - Len(batcher'.batch) <= StoredIn(log', boot')
       /\ \A m \in Boots : m > boot' => seq'[m] = 0
  <2>1. LogOK(log) /\ \A m \in Boots : m > boot => seq[m] = 0
    BY DEF Inv
  <2>2. \A m \in Boots : m > boot => seq'[m] = 0
    BY <1>1, <1>2, <2>1
  <2>3. QED
    BY <1>2, <1>3, <1>5, <1>6, <2>1, <2>2 DEF stored
<1>9. CASE c.sending /\ ~b.sending
  <2> DEFINE base == n - Len(c.queue) - Len(c.batch)
  <2>1. requests' = requests \cup {new} /\ new \in Request
    BY <1>1, <1>4, <1>9 DEF BackgroundStep, Becomes, Request
  <2>2. base \in Int /\ base + Len(c.batch) = n - Len(c.queue) /\ base + Len(c.batch) <= n
    BY <1>1, <1>4
  <2>3. base <= stored /\ Consecutive(c.batch, base)
    BY <1>3, <1>5 DEF BatcherOK
  <2> HIDE DEF base
  <2>4. RequestFrom(new, base, log, seq', boot, c)
    BY <1>2, <1>9, <2>2, <2>3 DEF RequestFrom, stored
  <2>5. RequestFits(new, log, seq', boot, c)
    BY <2>2, <2>4 DEF RequestFits
  <2> HIDE DEF new
  <2>6. \A r \in requests' : RequestFits(r, log, seq', boot, c)
    BY <1>7, <2>1, <2>5
  <2>7. TypeOK' /\ answer' = "none"
    BY <1>1, <1>2, <1>3, <1>6, <1>9, <2>1 DEF TypeOK, Inv
  <2>8. QED
    BY <1>6, <1>8, <2>6, <2>7 DEF Inv
<1>10. CASE ~(c.sending /\ ~b.sending)
  <2>1. requests' = requests
    BY <1>10 DEF BackgroundStep, Becomes
  <2>2. TypeOK'
    BY <1>1, <1>2, <1>3, <1>6, <2>1 DEF TypeOK
  <2>3. \A r \in requests' : RequestFits(r, log, seq', boot, c)
    BY <1>7, <2>1
  <2>4. answer' = "accepted" => n - Len(c.queue) <= stored
    BY <1>3, <1>6 DEF Inv, stored
  <2>5. answer' # "none" => c.sending
    BY <1>3, <1>6 DEF Inv
  <2>6. QED
    BY <1>2, <1>6, <1>8, <2>2, <2>3, <2>4, <2>5 DEF Inv, stored
<1>11. QED
  BY <1>9, <1>10

LEMMA RecordKeepsInv ==
    ASSUME Inv,
           \/ \E kind \in {"plain", "key", "invalid"} : Record(kind)
           \/ RecordSensitiveNavigation
    PROVE  \E n \in {seq[boot] + 1, seq[boot] + 2} : BackgroundStep(n)
<1>1. /\ TypeOK /\ BatcherOK(batcher, seq[boot]) /\ seq[boot] \in Nat /\ seq \in [Boots -> Nat]
      /\ boot \in Boots
  BY BootFacts DEF Inv, TypeOK
<1>2. ASSUME NEW kind \in {"plain", "key", "invalid"}, Record(kind)
      PROVE  BackgroundStep(seq[boot] + 1)
  <2> DEFINE e == [seq |-> seq[boot] + 1, kind |-> kind]
  <2>1. e \in Event /\ e.seq = seq[boot] + 1
    BY <1>1 DEF Event
  <2>2. /\ seq' = [seq EXCEPT ![boot] = seq[boot] + 1] /\ Becomes(Add(batcher, e))
        /\ UNCHANGED <<boot, ended, answer, log, faults>>
    BY <1>2 DEF Record, Accepted
  <2> HIDE DEF e
  <2>3. Keeps(batcher, seq[boot], Add(batcher, e), seq[boot] + 1)
    BY <1>1, <2>1, AddKeeps
  <2>4. batcher' = Add(batcher, e)
    BY <2>2 DEF Becomes
  <2>5. QED
    BY <1>1, <2>2, <2>3, <2>4 DEF BackgroundStep, TypeOK
<1>3. ASSUME RecordSensitiveNavigation
      PROVE  BackgroundStep(seq[boot] + 2)
  <2> DEFINE k == seq[boot]
             d == [seq |-> k + 1, kind |-> "plain"]
             e == [seq |-> k + 2, kind |-> "key"]
             c == Add(batcher, d)
  <2>1. d \in Event /\ d.seq = k + 1 /\ e \in Event /\ e.seq = (k + 1) + 1 /\ k + 1 \in Nat
    BY <1>1 DEF Event
  <2>2. /\ seq' = [seq EXCEPT ![boot] = k + 2] /\ Becomes(Add(c, e))
        /\ UNCHANGED <<boot, ended, answer, log, faults>>
    BY <1>3 DEF RecordSensitiveNavigation, Accepted
  <2> HIDE DEF d, e
  <2>3. Keeps(batcher, k, c, k + 1)
    BY <1>1, <2>1, AddKeeps
  <2> HIDE DEF c
  <2>4. Keeps(c, k + 1, Add(c, e), (k + 1) + 1)
    BY <2>1, <2>3, AddKeeps DEF Keeps
  <2>5. (k + 1) + 1 = k + 2
    BY <1>1
  <2>6. Keeps(batcher, k, Add(c, e), k + 2)
    BY <2>3, <2>4, <2>5, KeepsTwice
  <2>7. batcher' = Add(c, e)
    BY <2>2 DEF Becomes
  <2>8. QED
    BY <1>1, <2>2, <2>6, <2>7 DEF BackgroundStep, TypeOK
<1>4. QED
  BY <1>2, <1>3

LEMMA FlushKeepsInv ==
    ASSUME Inv, End \/ TimerFires
    PROVE  BackgroundStep(seq[boot])
<1>1. /\ TypeOK /\ BatcherOK(batcher, seq[boot]) /\ seq[boot] \in Nat /\ seq \in [Boots -> Nat]
      /\ boot \in Boots
  BY BootFacts DEF Inv, TypeOK
<1>2. CASE End
  <2>1. Keeps(batcher, seq[boot], Flush(batcher), seq[boot])
    BY <1>1, FlushKeeps DEF BatcherOK
  <2>2. batcher' = Flush(batcher) /\ Becomes(Flush(batcher))
    BY <1>2 DEF End, Becomes
  <2>3. QED
    BY <1>1, <1>2, <2>1, <2>2 DEF End, BackgroundStep
<1>3. CASE TimerFires
  <2>1. Keeps(batcher, seq[boot], TimerFired(batcher), seq[boot])
    BY <1>1, TimerFiredKeeps
  <2>2. batcher' = TimerFired(batcher) /\ Becomes(TimerFired(batcher))
    BY <1>3 DEF TimerFires, Becomes
  <2>3. QED
    BY <1>1, <1>3, <2>1, <2>2 DEF TimerFires, BackgroundStep, TypeOK
<1>4. QED
  BY <1>2, <1>3

-----------------------------------------------------------------------------
(* A fetch settles, the background restarts. *)

\* No request is awaited any more, and the new batcher has no send.
LEMMA NobodyAwaits ==
    ASSUME Inv, requests' = Unawaited, log' = log, seq' = seq, answer' = "none",
           boot' \in Boots, boot' >= boot, ended' \in BOOLEAN, faults' = faults,
           BatcherOK(batcher', seq[boot']),
           seq[boot'] - Len(batcher'.queue) - Len(batcher'.batch) <= StoredIn(log, boot')
    PROVE  Inv'
<1>1. TypeOK /\ boot \in Nat /\ Boots \subseteq Nat
  BY BootFacts DEF Inv
<1>2. ASSUME NEW u \in requests'
      PROVE  u \in Request /\ RequestFits(u, log, seq, boot', batcher')
  <2>1. PICK r \in requests : u = [r EXCEPT !.awaited = FALSE]
    BY DEF Unawaited
  <2>2. /\ r \in Request /\ u \in Request /\ u.rest = r.rest /\ u.boot = r.boot
        /\ u.awaited = FALSE
    BY <1>1, <2>1 DEF TypeOK, Request
  <2>3. PICK base \in Int : RequestFrom(r, base, log, seq, boot, batcher)
    BY DEF Inv, RequestFits
  <2>4. RequestFrom(u, base, log, seq, boot', batcher')
    BY <2>2, <2>3 DEF RequestFrom
  <2>5. QED
    BY <2>2, <2>4 DEF RequestFits
<1>3. TypeOK'
  BY <1>1, <1>2 DEF TypeOK, BatcherOK
<1>4. \A n \in Boots : n > boot' => seq[n] = 0
  BY <1>1 DEF Inv
<1>5. LogOK(log)
  BY DEF Inv
<1>6. QED
  BY <1>2, <1>3, <1>4, <1>5 DEF Inv

LEMMA SettleKeepsInv ==
    ASSUME Inv, Settle \/ Reboot
    PROVE  Inv'
<1>1. /\ TypeOK /\ BatcherOK(batcher, seq[boot]) /\ seq[boot] \in Nat /\ boot \in Boots
      /\ Boots \subseteq Nat
  BY BootFacts DEF Inv
<1>2. Len(batcher.queue) \in Nat /\ StoredIn(log, boot) \in Nat
  BY <1>1, QueueLengths, StoredType DEF BatcherOK, TypeOK
<1>3. CASE SendResolves
  <2> DEFINE c == SendSucceeded(batcher)
  <2>1. /\ BatcherOK(c, seq[boot]) /\ c.queue = batcher.queue /\ c.batch = <<>>
    BY <1>1, SendSucceededKeeps
  <2>2. seq[boot] - Len(batcher.queue) <= StoredIn(log, boot)
    BY <1>3 DEF SendResolves, Inv
  <2>3. Len(<<>>) = 0
    BY EmptySeq
  <2>4. seq[boot] - Len(c.queue) - Len(c.batch) <= StoredIn(log, boot)
    BY <1>1, <1>2, <2>1, <2>2, <2>3
  <2>5. /\ boot' = boot /\ seq' = seq /\ ended' = ended /\ log' = log /\ faults' = faults
        /\ answer' = "none" /\ batcher' = c /\ requests' = Unawaited
    BY <1>3 DEF SendResolves
  <2> HIDE DEF c
  <2>6. QED
    BY <1>1, <2>1, <2>4, <2>5, NobodyAwaits DEF TypeOK
<1>4. CASE SendRejects
  <2> DEFINE c == SendFailed(batcher)
  <2>1. /\ BatcherOK(c, seq[boot]) /\ c.batch = <<>>
        /\ seq[boot] - Len(c.queue) = seq[boot] - Len(batcher.queue) - Len(batcher.batch)
    BY <1>1, SendFailedKeeps
  <2>2. seq[boot] - Len(c.queue) <= StoredIn(log, boot)
    BY <2>1 DEF Inv
  <2>3. Len(<<>>) = 0
    BY EmptySeq
  <2>4. /\ boot' = boot /\ seq' = seq /\ ended' = ended /\ log' = log /\ faults' = faults
        /\ answer' = "none" /\ batcher' = c /\ requests' = Unawaited
    BY <1>4 DEF SendRejects
  <2> HIDE DEF c
  <2>5. c.queue \in Seq(Event) /\ Len(c.queue) \in Nat
    BY <2>1, QueueLengths DEF BatcherOK
  <2>6. seq[boot] - Len(c.queue) - Len(c.batch) <= StoredIn(log, boot)
    BY <1>1, <2>1, <2>2, <2>3, <2>5
  <2>7. QED
    BY <1>1, <2>1, <2>4, <2>6, NobodyAwaits DEF TypeOK
<1>5. CASE Reboot
  <2>1. boot' = boot + 1 /\ boot' \in Boots /\ boot' >= boot
    BY <1>1, <1>5, RecorderAssumption DEF Reboot, Boots
  <2>2. seq[boot'] = 0
    BY <1>1, <2>1 DEF Inv
  <2>3. /\ seq' = seq /\ ended' = FALSE /\ log' = log /\ faults' = faults
        /\ answer' = "none" /\ batcher' = NewBatcher /\ requests' = Unawaited
    BY <1>5 DEF Reboot
  <2>4. NewBatcher \in BatcherState /\ NewBatcher.queue = <<>> /\ NewBatcher.batch = <<>>
    BY DEF NewBatcher, BatcherState
  <2>5. BatcherOK(NewBatcher, 0)
    BY <2>4, EmptyRun DEF BatcherOK
  <2>6. StoredIn(log, boot') \in Nat /\ Len(<<>>) = 0
    BY <1>1, StoredType, EmptySeq DEF TypeOK
  <2>7. 0 - Len(NewBatcher.queue) - Len(NewBatcher.batch) <= StoredIn(log, boot')
    BY <2>4, <2>6
  <2>8. QED
    BY <2>1, <2>2, <2>3, <2>5, <2>7, NobodyAwaits
<1>6. QED
  BY <1>3, <1>4, <1>5 DEF Settle

-----------------------------------------------------------------------------
(* The server. *)

\* A handler ends; what it answers holds if it is awaited.
LEMMA EndsKeepsInv ==
    ASSUME Inv, NEW r \in requests, NEW result \in {"accepted", "error"}, Ends(r, result),
           UNCHANGED <<boot, seq, ended, batcher, log>>, faults' \in Nat,
           result = "accepted" => r.rest = <<>>
    PROVE  Inv'
<1>1. /\ TypeOK /\ r \in Request
      /\ requests' \subseteq requests
      /\ answer' = IF r.awaited /\ answer = "none" THEN result ELSE answer
  BY DEF Inv, TypeOK, Ends
<1>2. PICK base \in Int : RequestFrom(r, base, log, seq, boot, batcher)
  BY DEF Inv, RequestFits
<1>3. r.awaited => batcher.sending
  BY <1>2 DEF RequestFrom
<1>4. r.awaited /\ result = "accepted" => seq[boot] - Len(batcher.queue) <= StoredIn(log, boot)
  <2> SUFFICES ASSUME r.awaited, result = "accepted"
               PROVE  seq[boot] - Len(batcher.queue) <= StoredIn(log, boot)
    OBVIOUS
  <2>1. Len(r.rest) = 0
    BY EmptySeq
  <2>2. base + 0 = seq[boot] - Len(batcher.queue) /\ base <= StoredIn(log, boot)
    BY <1>2, <2>1 DEF RequestFrom
  <2>3. QED
    BY <2>2
<1>5. TypeOK'
  BY <1>1 DEF TypeOK
<1>6. answer' # "none" => batcher.sending
  BY <1>1, <1>3 DEF Inv
<1>7. answer' = "accepted" => seq[boot] - Len(batcher.queue) <= StoredIn(log, boot)
  BY <1>1, <1>4 DEF Inv
<1>8. QED
  BY <1>1, <1>5, <1>6, <1>7 DEF Inv

\* next holds one row more than feed, of boot b.
Grows(feed, next, b) ==
    /\ next \in Seq(Row) /\ LogOK(next)
    /\ StoredIn(next, b) = StoredIn(feed, b) + 1
    /\ \A c : c # b => StoredIn(next, c) = StoredIn(feed, c)

\* The next row of a boot.
LEMMA LogAppend ==
    ASSUME NEW feed \in Seq(Row), LogOK(feed), NEW b \in Boots
    PROVE  Grows(feed, Append(feed, [boot |-> b, seq |-> StoredIn(feed, b) + 1]), b)
<1> DEFINE s == StoredIn(feed, b)  next == Append(feed, [boot |-> b, seq |-> s + 1])
<1> DEFINE row == [boot |-> b, seq |-> s + 1]  n == Len(feed)
           A(c) == {i \in DOMAIN feed : feed[i].boot = c}
           B(c) == {i \in DOMAIN next : next[i].boot = c}
<1>1. s \in Nat /\ row \in Row /\ row.boot = b /\ row.seq = s + 1
  <2>1. s \in Nat
    BY StoredType
  <2>2. s + 1 \in Nat \ {0}
    BY <2>1
  <2>3. QED
    BY <2>1, <2>2 DEF Row
<1> HIDE DEF row, s
<1>2. next = Append(feed, row)
  BY DEF row
<1> HIDE DEF next
<1>3. /\ n \in Nat /\ next \in Seq(Row) /\ DOMAIN feed = 1..n /\ DOMAIN next = 1..(n + 1)
      /\ next[n + 1] = row /\ \A i \in 1..n : next[i] = feed[i]
  BY <1>1, <1>2, AppendProperties, LenProperties
<1> HIDE DEF n
<1>4. B(b) = A(b) \cup {n + 1} /\ n + 1 \notin A(b)
  BY <1>1, <1>3
<1>5. \A c : c # b => B(c) = A(c)
  BY <1>1, <1>3
<1>6. IsFiniteSet(A(b))
  BY StoredType
<1>7. StoredIn(next, b) = s + 1
  <2>1. Cardinality(B(b)) = Cardinality(A(b)) + 1
    <3> DEFINE S == A(b)  m == n + 1
    <3>1. B(b) = S \cup {m} /\ m \notin S /\ IsFiniteSet(S)
      BY <1>4, <1>6
    <3> HIDE DEF S, m
    <3>2. QED
      BY <3>1, FS_AddElement DEF S
  <2>2. QED
    BY <2>1 DEF StoredIn, s
<1>8. \A c : c # b => StoredIn(next, c) = StoredIn(feed, c)
  BY <1>5 DEF StoredIn
<1> HIDE DEF A, B
<1>9. \A i \in 1..n : feed[i] \in Row /\ feed[i].seq <= StoredIn(feed, feed[i].boot)
  BY <1>3 DEF LogOK
<1>10. ASSUME NEW i \in 1..(n + 1)
       PROVE  next[i].seq <= StoredIn(next, next[i].boot)
  <2>1. CASE i = n + 1
    BY <1>1, <1>3, <1>7, <2>1
  <2>2. CASE i # n + 1
    <3>1. /\ i \in 1..n /\ next[i] = feed[i] /\ feed[i].seq \in Nat
          /\ feed[i].seq <= StoredIn(feed, feed[i].boot)
      BY <1>3, <1>9, <2>2 DEF Row
    <3>2. CASE feed[i].boot = b
      <4> DEFINE x == feed[i].seq
      <4>1. x \in Nat /\ x <= s /\ next[i].seq = x /\ StoredIn(next, next[i].boot) = s + 1
        BY <1>7, <3>1, <3>2 DEF s
      <4> HIDE DEF x
      <4>2. x <= s + 1
        BY <1>1, <4>1
      <4>3. QED
        BY <4>1, <4>2
    <3>3. CASE feed[i].boot # b
      BY <1>8, <3>1, <3>3
    <3>4. QED
      BY <3>2, <3>3
  <2>3. QED
    BY <2>1, <2>2
<1>11. ASSUME NEW c \in Boots, NEW k \in 1..StoredIn(next, c)
       PROVE  \E i \in 1..(n + 1) : next[i] = [boot |-> c, seq |-> k]
  <2>1. CASE c = b /\ k = s + 1
    BY <1>3, <2>1 DEF row
  <2>2. CASE ~(c = b /\ k = s + 1)
    <3>1. k \in 1..StoredIn(feed, c)
      BY <1>1, <1>7, <1>8, <2>2 DEF s
    <3>2. PICK i \in 1..n : feed[i] = [boot |-> c, seq |-> k]
      BY <1>3, <3>1 DEF LogOK
    <3>3. QED
      BY <1>3, <3>2
  <2>3. QED
    BY <2>1, <2>2
<1>12. LogOK(next)
  BY <1>3, <1>10, <1>11 DEF LogOK
<1>13. QED
  BY <1>3, <1>7, <1>8, <1>12 DEF Grows, next, s

\* The event a request inserts next is stored, or is the next one of its boot.
LEMMA NextRow ==
    ASSUME Inv, NEW r \in requests, r.rest # <<>>,
           NEW base \in Int, RequestFrom(r, base, log, seq, boot, batcher)
    PROVE  /\ r.boot \in Boots /\ Head(r.rest).seq = base + 1
           /\ IsLogged(r, Head(r.rest).seq) => base + 1 <= StoredIn(log, r.boot)
           /\ ~IsLogged(r, Head(r.rest).seq) =>
                 base = StoredIn(log, r.boot) /\ base + 1 <= seq[r.boot]
<1> DEFINE s == StoredIn(log, r.boot)
<1>1. TypeOK /\ r.boot \in Boots /\ r.rest \in Seq(Event)
  BY DEF Inv, TypeOK, Request
<1>2. /\ Head(r.rest).seq = base + 1 /\ Head(r.rest) \in Event
      /\ Len(r.rest) \in Nat \ {0}
  BY <1>1, RunTail DEF RequestFrom
<1>3. s \in Nat /\ base <= s /\ base + Len(r.rest) <= seq[r.boot] /\ seq[r.boot] \in Nat
  BY <1>1, StoredType DEF RequestFrom, TypeOK
<1>4. base + 1 \in Nat \ {0}
  BY <1>2 DEF Event
<1>5. IsLogged(r, base + 1) => base + 1 <= s
  <2> SUFFICES ASSUME NEW i \in DOMAIN log, log[i] = [boot |-> r.boot, seq |-> base + 1]
               PROVE  base + 1 <= s
    BY DEF IsLogged
  <2>1. log[i].seq <= StoredIn(log, log[i].boot)
    BY DEF Inv, LogOK
  <2>2. QED
    BY <2>1
<1>6. base + 1 <= s => IsLogged(r, base + 1)
  <2> HIDE DEF s
  <2> SUFFICES ASSUME base + 1 <= s PROVE IsLogged(r, base + 1)
    OBVIOUS
  <2>1. base + 1 \in 1..s
    BY <1>3, <1>4
  <2>2. QED
    BY <1>1, <2>1 DEF Inv, LogOK, IsLogged, s
<1> HIDE DEF s
<1>7. ~IsLogged(r, base + 1) => base = s /\ base + 1 <= seq[r.boot]
  BY <1>2, <1>3, <1>6
<1>8. QED
  BY <1>1, <1>2, <1>5, <1>7 DEF s

LEMMA StoreKeepsInv ==
    ASSUME Inv, NEW r \in requests, StoreEvent(r)
    PROVE  Inv'
<1> DEFINE u == [r EXCEPT !.rest = Tail(r.rest)]
<1>1. /\ TypeOK /\ r \in Request /\ r.rest # <<>> /\ r.rest \in Seq(Event) /\ r.boot \in Boots
      /\ UNCHANGED <<boot, seq, ended, batcher, answer, faults>>
      /\ requests' = (requests \ {r}) \cup {u}
  BY DEF Inv, TypeOK, StoreEvent, Request
<1>2. PICK base \in Int : RequestFrom(r, base, log, seq, boot, batcher)
  BY DEF Inv, RequestFits
<1>3. /\ Tail(r.rest) \in Seq(Event) /\ Len(Tail(r.rest)) = Len(r.rest) - 1
      /\ Len(r.rest) \in Nat \ {0} /\ Consecutive(Tail(r.rest), base + 1)
  BY <1>1, <1>2, RunTail DEF RequestFrom
<1>4. u \in Request /\ u.rest = Tail(r.rest) /\ u.boot = r.boot /\ u.awaited = r.awaited
  BY <1>1, <1>3 DEF Request
<1>5. /\ log' \in Seq(Row) /\ LogOK(log') /\ base + 1 <= StoredIn(log', r.boot)
      /\ \A b : StoredIn(log', b) >= StoredIn(log, b)
  <2>1. \A b : StoredIn(log, b) \in Nat
    BY <1>1, StoredType DEF TypeOK
  <2>2. CASE IsLogged(r, Head(r.rest).seq)
    <3>1. log' = log
      BY <2>2 DEF StoreEvent
    <3>2. base + 1 <= StoredIn(log, r.boot)
      BY <1>1, <1>2, <2>2, NextRow
    <3>3. QED
      BY <1>1, <2>1, <3>1, <3>2 DEF Inv, TypeOK
  <2>3. CASE ~IsLogged(r, Head(r.rest).seq)
    <3>1. log' = Append(log, [boot |-> r.boot, seq |-> Head(r.rest).seq])
      BY <2>3 DEF StoreEvent
    <3>2. Head(r.rest).seq = base + 1 /\ base = StoredIn(log, r.boot)
      BY <1>1, <1>2, <2>3, NextRow
    <3>3. /\ log' \in Seq(Row) /\ LogOK(log') /\ StoredIn(log', r.boot) = base + 1
          /\ \A c : c # r.boot => StoredIn(log', c) = StoredIn(log, c)
      <4>1. log \in Seq(Row) /\ LogOK(log)
        BY <1>1 DEF Inv, TypeOK
      <4>2. Grows(log, Append(log, [boot |-> r.boot, seq |-> StoredIn(log, r.boot) + 1]), r.boot)
        BY <1>1, <4>1, LogAppend
      <4>3. Grows(log, log', r.boot)
        BY <3>1, <3>2, <4>2
      <4>4. QED
        BY <3>2, <4>3 DEF Grows
    <3>4. QED
      BY <2>1, <3>2, <3>3
  <2>4. QED
    BY <2>2, <2>3
<1> HIDE DEF u
<1>6. RequestFits(u, log', seq, boot, batcher)
  <2>1. (base + 1) + Len(u.rest) = base + Len(r.rest)
    <3> DEFINE j == Len(u.rest)  k == Len(r.rest)
    <3>1. j = k - 1 /\ k \in Nat
      BY <1>3, <1>4
    <3> HIDE DEF j, k
    <3>2. (base + 1) + j = base + k
      BY <1>2, <3>1
    <3>3. QED
      BY <3>2 DEF j, k
  <2>2. RequestFrom(u, base + 1, log', seq, boot, batcher)
    BY <1>2, <1>3, <1>4, <1>5, <2>1 DEF RequestFrom
  <2>3. QED
    BY <2>2 DEF RequestFits
<1>7. ASSUME NEW q \in requests
      PROVE  RequestFits(q, log', seq, boot, batcher)
  <2>1. PICK start \in Int : RequestFrom(q, start, log, seq, boot, batcher)
    BY DEF Inv, RequestFits
  <2>2. start <= StoredIn(log', q.boot)
    <3>1. StoredIn(log, q.boot) \in Nat /\ StoredIn(log', q.boot) \in Nat
      BY <1>1, <1>5, StoredType DEF TypeOK
    <3>2. QED
      BY <1>5, <2>1, <3>1 DEF RequestFrom
  <2>3. RequestFrom(q, start, log', seq, boot, batcher)
    BY <2>1, <2>2 DEF RequestFrom
  <2>4. QED
    BY <2>3 DEF RequestFits
<1>8. TypeOK'
  BY <1>1, <1>4, <1>5 DEF TypeOK
<1>9. ASSUME NEW x \in Int, x <= StoredIn(log, boot)
      PROVE  x <= StoredIn(log', boot)
  <2>1. StoredIn(log, boot) \in Nat /\ StoredIn(log', boot) \in Nat
    BY <1>1, <1>5, StoredType DEF TypeOK
  <2>2. QED
    BY <1>5, <1>9, <2>1
<1>10. /\ seq[boot] - Len(batcher.queue) \in Int
       /\ seq[boot] - Len(batcher.queue) - Len(batcher.batch) \in Int
  BY <1>1, BootFacts, QueueLengths DEF TypeOK
<1>11. QED
  BY <1>1, <1>5, <1>6, <1>7, <1>8, <1>9, <1>10 DEF Inv

-----------------------------------------------------------------------------
(* The theorems. *)

LEMMA UnchangedKeepsInv == ASSUME Inv, UNCHANGED vars PROVE Inv'
<1>1. /\ boot' = boot /\ seq' = seq /\ ended' = ended /\ batcher' = batcher
      /\ answer' = answer /\ requests' = requests /\ log' = log /\ faults' = faults
  BY DEF vars
<1>2. TypeOK'
  BY <1>1 DEF Inv, TypeOK
<1>3. \A r \in requests' : RequestFits(r, log', seq', boot', batcher')
  BY <1>1 DEF Inv
<1>4. QED
  BY <1>1, <1>2, <1>3 DEF Inv

LEMMA LostConnectionKeepsInv == ASSUME Inv, LoseConnection PROVE Inv'
<1>1. /\ boot' = boot /\ seq' = seq /\ ended' = ended /\ batcher' = batcher
      /\ answer' = "error" /\ requests' = requests /\ log' = log /\ faults' = faults + 1
      /\ batcher.sending
  BY DEF LoseConnection
<1>2. TypeOK'
  BY <1>1 DEF Inv, TypeOK
<1>3. \A r \in requests' : RequestFits(r, log', seq', boot', batcher')
  BY <1>1 DEF Inv
<1>4. QED
  BY <1>1, <1>2, <1>3 DEF Inv

LEMMA InvInductive == Inv /\ [Next]_vars => Inv'
<1> SUFFICES ASSUME Inv, [Next]_vars PROVE Inv'
  OBVIOUS
<1>1. ASSUME \/ \E kind \in {"plain", "key", "invalid"} : Record(kind)
             \/ RecordSensitiveNavigation
      PROVE  Inv'
  BY <1>1, RecordKeepsInv, BackgroundKeepsInv
<1>2. CASE End \/ TimerFires
  BY <1>2, FlushKeepsInv, BackgroundKeepsInv
<1>3. CASE Settle \/ Reboot
  BY <1>3, SettleKeepsInv
<1>4. ASSUME NEW r \in requests, Handle(r) \/ HandlerFails(r)
      PROVE  Inv'
  <2>1. faults \in Nat
    BY DEF Inv, TypeOK
  <2>2. CASE Refuse(r)
    BY <2>1, <2>2, EndsKeepsInv DEF Refuse
  <2>3. CASE StoreEvent(r)
    BY <2>3, StoreKeepsInv
  <2>4. CASE Answer(r)
    BY <2>1, <2>4, EndsKeepsInv DEF Answer
  <2>5. CASE HandlerFails(r)
    BY <2>1, <2>5, EndsKeepsInv DEF HandlerFails
  <2>6. QED
    BY <1>4, <2>2, <2>3, <2>4, <2>5 DEF Handle
<1>5. CASE LoseConnection
  BY <1>5, LostConnectionKeepsInv
<1>6. CASE UNCHANGED vars
  BY <1>6, UnchangedKeepsInv
<1>7. QED
  BY <1>1, <1>2, <1>3, <1>4, <1>5, <1>6 DEF Next

LEMMA AlwaysInv == Spec => []Inv
BY InitInv, InvInductive, PTL DEF Spec

\* The recorder and the server keep the types of their state.
THEOREM RecorderTypes == Spec => []TypeOK
<1>1. Inv => TypeOK
  BY DEF Inv
<1>2. QED
  BY <1>1, AlwaysInv, PTL

\* Whatever fails, the batcher holds the events of its boot that may not be
\* stored yet, all of them, in the order they were recorded.
THEOREM NothingIsForgotten == Spec => []PendingIsTheUnstoredTail
<1>1. Inv => PendingIsTheUnstoredTail
  <2> SUFFICES ASSUME Inv PROVE PendingIsTheUnstoredTail
    OBVIOUS
  <2> DEFINE j == Len(batcher.queue)  k == Len(batcher.batch)  total == seq[boot]
             base == total - j - k
  <2>1. /\ batcher.queue \in Seq(Event) /\ batcher.batch \in Seq(Event)
        /\ j \in Nat /\ k \in Nat /\ total \in Nat
    BY BootFacts, QueueLengths DEF Inv, TypeOK
  <2>2. base \in Int /\ base + k = total - j
    BY <2>1
  <2>3. /\ Consecutive(batcher.batch, base) /\ Consecutive(batcher.queue, base + k)
        /\ base <= StoredIn(log, boot)
    BY <2>2 DEF Inv, BatcherOK
  <2> HIDE DEF base
  <2>4. Len(Pending) = k + j /\ Consecutive(Pending, base)
    <3>1. Consecutive(batcher.queue, base + Len(batcher.batch))
      BY <2>3
    <3>2. /\ Len(batcher.batch \o batcher.queue) = Len(batcher.batch) + Len(batcher.queue)
          /\ Consecutive(batcher.batch \o batcher.queue, base)
      BY <2>1, <2>2, <2>3, <3>1, RunConcat
    <3>3. QED
      BY <3>2 DEF Pending
  <2>5. total - Len(Pending) = base
    <3> HIDE DEF j, k, total
    <3>1. total - (k + j) = base
      BY <2>1 DEF base
    <3>2. QED
      BY <2>4, <3>1
  <2>6. StoredIn(log, boot) = Delivery!Stored(boot)
    BY DEF StoredIn, Delivery!Stored, Cardinality, Delivery!Cardinality
  <2>7. QED
    BY <2>3, <2>4, <2>5, <2>6 DEF PendingIsTheUnstoredTail, Consecutive
<1>2. QED
  BY <1>1, AlwaysInv, PTL

\* A queued event always has a send or a timer that will look at it.
THEOREM QueueIsWatched == Spec => []NoLostWakeUp
<1>1. Inv => NoLostWakeUp
  BY DEF Inv, BatcherOK, NoLostWakeUp
<1>2. QED
  BY <1>1, AlwaysInv, PTL

\* The events table holds of every boot a prefix of what it recorded, each
\* event once and in order, whatever is lost, retried or overtaken.
THEOREM RecorderImplementsEventDelivery == Spec => ImplementsEventDelivery
<1>1. Init => Delivery!Init
  BY DEF Init, Delivery!Init
<1>2. Inv /\ [Next]_vars => [Delivery!Next]_<<seq, log>>
  <2> SUFFICES ASSUME Inv, Next PROVE Delivery!Next \/ UNCHANGED <<seq, log>>
    BY DEF vars
  <2>1. /\ TypeOK /\ boot \in Boots /\ seq \in [Boots -> Nat]
    BY DEF Inv, TypeOK
  <2>2. ASSUME \/ \E kind \in {"plain", "key", "invalid"} : Record(kind)
               \/ RecordSensitiveNavigation
        PROVE  Delivery!Next
    <3>1. PICK n \in {seq[boot] + 1, seq[boot] + 2} : BackgroundStep(n)
      BY <2>2, RecordKeepsInv
    <3>2. seq' = [seq EXCEPT ![boot] = n] /\ log' = log
      BY <3>1 DEF BackgroundStep
    <3>3. Delivery!Record(boot)
      BY <2>1, <3>1, <3>2 DEF Delivery!Record
    <3>4. QED
      BY <2>1, <3>3 DEF Delivery!Next
  <2>3. CASE End \/ TimerFires \/ Settle \/ Reboot \/ LoseConnection
    BY <2>3 DEF End, TimerFires, Settle, SendResolves, SendRejects, Reboot, LoseConnection
  <2>4. ASSUME NEW r \in requests, Refuse(r) \/ Answer(r) \/ HandlerFails(r)
        PROVE  UNCHANGED <<seq, log>>
    BY <2>4 DEF Refuse, Answer, HandlerFails
  <2>5. ASSUME NEW r \in requests, StoreEvent(r)
        PROVE  Delivery!Next \/ UNCHANGED <<seq, log>>
    <3>1. PICK base \in Int : RequestFrom(r, base, log, seq, boot, batcher)
      BY DEF Inv, RequestFits
    <3>2. r.rest # <<>> /\ seq' = seq
      BY <2>5 DEF StoreEvent
    <3>3. CASE IsLogged(r, Head(r.rest).seq)
      BY <2>5, <3>2, <3>3 DEF StoreEvent
    <3>4. CASE ~IsLogged(r, Head(r.rest).seq)
      <4>1. log' = Append(log, [boot |-> r.boot, seq |-> Head(r.rest).seq])
        BY <2>5, <3>4 DEF StoreEvent
      <4>2. /\ r.boot \in Boots /\ Head(r.rest).seq = base + 1
            /\ base = StoredIn(log, r.boot) /\ base + 1 <= seq[r.boot]
        BY <3>1, <3>2, <3>4, NextRow
      <4>3. StoredIn(log, r.boot) = Delivery!Stored(r.boot)
        BY DEF StoredIn, Delivery!Stored, Cardinality, Delivery!Cardinality
      <4>4. base < seq[r.boot]
        BY <2>1, <4>2
      <4>5. Delivery!Store(r.boot)
        BY <3>2, <4>1, <4>2, <4>3, <4>4 DEF Delivery!Store
      <4>6. QED
        BY <4>2, <4>5 DEF Delivery!Next
    <3>5. QED
      BY <3>3, <3>4
  <2>6. QED
    BY <2>2, <2>3, <2>4, <2>5 DEF Next, Handle
<1>3. QED
  BY <1>1, <1>2, AlwaysInv, PTL DEF Spec, ImplementsEventDelivery, Delivery!Spec
=============================================================================
