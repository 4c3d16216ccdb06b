-------------------------- MODULE LifecycleProofs ---------------------------
(***************************************************************************)
(* Proofs about Lifecycle.tla, for every set of sessions, clients, workers *)
(* and deliveries.  The inductive invariant has three parts: TypeOK; what  *)
(* a goroutine's locals say about the delivery it handles (LocalsOK); and  *)
(* the two kinds of right to announce, of which there is at most one per   *)
(* session end and per stored event (EndRights, ActivityRights).           *)
(***************************************************************************)
EXTENDS Lifecycle, SequenceTheorems, TLAPS

(* The deliveries, field by field. *)

LEMMA WebhookFields ==
    ASSUME NEW r \in Webhooks
    PROVE  /\ r.category \in WebhookCategories
           /\ r.id \in SessionIds
           /\ r.seq \in Nat \ {0}
           /\ r.at \in Nat /\ r.startedAt \in Nat /\ r.count \in Int
BY WebhookAssumption

LEMMA BatchFields ==
    ASSUME NEW r \in Batches
    PROVE  /\ r.category = "ingest"
           /\ r.id \in SessionIds
           /\ r.client \in Clients
           /\ r.events \in Seq(Nat \ {0})
BY BatchAssumption

\* The category tells a webhook from a batch.
LEMMA RequestKinds ==
    ASSUME NEW r \in Requests
    PROVE  /\ r.id \in SessionIds
           /\ r.category \in WebhookCategories \cup {"ingest"}
           /\ r.category = "ingest" => r \in Batches
           /\ r.category # "ingest" => r \in Webhooks
BY WebhookFields, BatchFields DEF Requests, WebhookCategories

-----------------------------------------------------------------------------
(* What the program counter says about the other locals. *)

FrameOK(f) ==
    /\ f.pc = "idle" <=> f.req = NoRequest
    /\ f.pc = "read" => f.req.category = "left"
    /\ f.pc \in {"insert", "get"} => f.req.category # "ended"
    /\ f.pc = "enrich" => f.req.category = "started"
    /\ f.pc = "count" => f.req.category \in {"joined", "left"}
    /\ f.pc = "end" => f.req.category = "ended"
    /\ f.pc \in {"events", "activity"} => f.req.category = "ingest"
    /\ f.pc = "activity" => f.rest # <<>>
    /\ f.pc \in {"idle", "read", "insert", "get", "end"} => ~f.inserted
    /\ f.inserted => f.snap # NoRow
    /\ f.pc = "publish" => f.snap # NoRow

LocalsOK ==
    /\ \A w \in Workers : FrameOK(proc[w])
    /\ reaper.pc = "publish" => reaper.cur \in SessionIds /\ reaper.snap # NoRow

LEMMA NoRequestIsNone == NoRequest \notin Requests
BY RequestKinds DEF NoRequest, WebhookCategories

LEMMA RowKinds ==
    /\ NoRow \notin SessionRow
    /\ \A r \in SessionRow \cup {NoRow} : r.status = "live" => r \in SessionRow
BY DEF NoRow, SessionRow

LEMMA EndedRowType ==
    ASSUME NEW row \in SessionRow, NEW at \in Int, NEW seq \in Int
    PROVE  Ended(row, at, seq) \in SessionRow
BY DEF Ended, SessionRow

\* The statements leave rows behind that the table's columns allow.
LEMMA UpdatedRowTypes ==
    ASSUME NEW row \in SessionRow, NEW at \in Int, NEW count \in Int, NEW seq \in Int
    PROVE  /\ Enriched(row, at, count, seq) \in SessionRow
           /\ WithCount(row, count, seq) \in SessionRow
           /\ Ended(row, at, seq) \in SessionRow
<1>1. Enriched(row, at, count, seq) \in SessionRow
  BY DEF Enriched, SessionRow
<1>2. WithCount(row, count, seq) \in SessionRow
  BY DEF WithCount, SessionRow
<1>3. QED
  BY <1>1, <1>2, EndedRowType

\* An int32 is one: the conversion lands in the column's range, and keeps what
\* is in that range.
LEMMA NarrowedRange ==
    ASSUME NEW n \in Int
    PROVE  /\ Narrowed(n) \in Int
           /\ Narrowed(n) <= MaxCount
           /\ n \in 0..MaxCount => Narrowed(n) = n
<1> DEFINE span == 2 * (MaxCount + 1)
           shifted == n + MaxCount + 1
           low == shifted % span
<1>1. span \in Nat /\ span > 0 /\ shifted \in Int /\ MaxCount \in Nat
  BY CountAssumption
<1>2. low \in Int /\ 0 <= low /\ low < span
  <2> HIDE DEF shifted, span
  <2>1. QED
    BY <1>1 DEF low
<1>3. n \in 0..MaxCount => shifted \in Nat /\ shifted < span
  BY <1>1
<1>4. shifted \in Nat /\ shifted < span => low = shifted
  <2> HIDE DEF shifted, span
  <2>1. QED
    BY <1>1 DEF low
<1>5. Narrowed(n) = low - (MaxCount + 1)
  BY DEF Narrowed
<1> HIDE DEF low
<1>6. QED
  BY <1>1, <1>2, <1>3, <1>4, <1>5

LEMMA InitLocals == Init => TypeOK /\ LocalsOK
<1>1. <<>> \in Seq(Message)
  OBVIOUS
<1>2. IdleFrame \in Frame /\ FrameOK(IdleFrame)
  BY DEF IdleFrame, Frame, FrameOK, Pcs, NoRequest
<1>3. IdleReaper \in SweepFrame /\ IdleReaper.pc = "idle"
  BY DEF IdleReaper, SweepFrame, NoRows
<1>4. QED
  BY <1>1, <1>2, <1>3 DEF Init, NoRows, TypeOK, LocalsOK

\* One goroutine moves to a frame that is right by itself.
LEMMA FrameStep ==
    ASSUME TypeOK, LocalsOK, NEW w \in Workers, NEW f \in Frame, FrameOK(f),
           proc' = [proc EXCEPT ![w] = f]
    PROVE  proc' \in [Workers -> Frame] /\ \A v \in Workers : FrameOK(proc'[v])
BY DEF TypeOK, LocalsOK

LEMMA LocalsReceive ==
    ASSUME TypeOK, LocalsOK, NEW w \in Workers, Receive(w)
    PROVE  TypeOK' /\ LocalsOK'
<1>1. PICK r \in Requests :
        proc' = [proc EXCEPT ![w] =
                   [IdleFrame EXCEPT
                      !.pc = FirstStep(r.category),
                      !.req = r,
                      !.at = StartTime(r),
                      !.count = IF r.category \in {"started", "joined"} THEN r.count ELSE 0,
                      !.rest = IF r.category = "ingest" THEN r.events ELSE <<>>]]
  BY DEF Receive
<1> DEFINE f == [IdleFrame EXCEPT
                      !.pc = FirstStep(r.category),
                      !.req = r,
                      !.at = StartTime(r),
                      !.count = IF r.category \in {"started", "joined"} THEN r.count ELSE 0,
                      !.rest = IF r.category = "ingest" THEN r.events ELSE <<>>]
<1>2. StartTime(r) \in Nat
  BY RequestKinds, WebhookFields DEF StartTime, TypeOK
<1>3. FirstStep(r.category) \in {"read", "insert", "end"}
  BY DEF FirstStep
<1>4. (IF r.category \in {"started", "joined"} THEN r.count ELSE 0) \in Int
  BY RequestKinds, WebhookFields
<1>5. (IF r.category = "ingest" THEN r.events ELSE <<>>) \in Seq(Nat \ {0})
  BY RequestKinds, BatchFields
<1>6. f \in Frame
  BY <1>2, <1>3, <1>4, <1>5 DEF IdleFrame, Frame, Pcs
<1>7. FrameOK(f)
  BY NoRequestIsNone, <1>3 DEF FrameOK, FirstStep, IdleFrame
<1>8. proc' \in [Workers -> Frame] /\ \A v \in Workers : FrameOK(proc'[v])
  BY <1>1, <1>6, <1>7, FrameStep
<1>9. QED
  BY <1>8 DEF Receive, TypeOK, LocalsOK

LEMMA BusyFrame ==
    ASSUME TypeOK, LocalsOK, NEW w \in Workers, Pc(w) # "idle"
    PROVE  /\ proc[w] \in Frame /\ FrameOK(proc[w])
           /\ proc[w].req \in Requests
           /\ Id(w) \in SessionIds
           /\ Category(w) \in WebhookCategories \cup {"ingest"}
           /\ Category(w) = "ingest" => proc[w].req \in Batches
           /\ Category(w) # "ingest" => proc[w].req \in Webhooks
<1>1. proc[w] \in Frame /\ FrameOK(proc[w])
  BY DEF TypeOK, LocalsOK
<1>2. proc[w].req \in Requests
  BY <1>1 DEF Frame, FrameOK, Pc
<1>3. QED
  BY <1>1, <1>2, RequestKinds DEF Id, Category

\* A worker that goes on to another statement keeps its locals right when the
\* new program counter fits the delivery it handles.
LEMMA LocalsReadForLeft ==
    ASSUME TypeOK, LocalsOK, NEW w \in Workers, ReadForLeft(w)
    PROVE  TypeOK' /\ LocalsOK'
<1>1. /\ Pc(w) = "read" /\ proc[w] \in Frame /\ FrameOK(proc[w]) /\ Id(w) \in SessionIds
  BY BusyFrame DEF ReadForLeft
<1>2. CASE sessions[Id(w)] = NoRow
  <2> DEFINE f == [proc[w] EXCEPT !.pc = "reply"]
  <2>1. f \in Frame /\ FrameOK(f)
    BY <1>1 DEF Frame, FrameOK, Pcs, Pc
  <2>2. proc' = [proc EXCEPT ![w] = f]
    BY <1>2 DEF ReadForLeft
  <2>3. proc' \in [Workers -> Frame] /\ \A v \in Workers : FrameOK(proc'[v])
    BY <2>1, <2>2, FrameStep
  <2>4. QED
    BY <2>3 DEF ReadForLeft, TypeOK, LocalsOK
<1>3. CASE sessions[Id(w)] # NoRow
  <2> DEFINE f == [proc[w] EXCEPT !.pc = "insert",
                                  !.count = Decremented(sessions[Id(w)].participantCount)]
  <2>1. Decremented(sessions[Id(w)].participantCount) \in Int
    BY <1>1, <1>3 DEF TypeOK, SessionRow, Decremented
  <2>2. f \in Frame /\ FrameOK(f)
    BY <1>1, <2>1 DEF Frame, FrameOK, Pcs, Pc
  <2>3. proc' = [proc EXCEPT ![w] = f]
    BY <1>3 DEF ReadForLeft
  <2>4. proc' \in [Workers -> Frame] /\ \A v \in Workers : FrameOK(proc'[v])
    BY <2>2, <2>3, FrameStep
  <2>5. QED
    BY <2>4 DEF ReadForLeft, TypeOK, LocalsOK
<1>4. QED
  BY <1>2, <1>3

LEMMA LocalsInsertSession ==
    ASSUME TypeOK, LocalsOK, NEW w \in Workers, InsertSession(w)
    PROVE  TypeOK' /\ LocalsOK'
<1> DEFINE row == LiveRow(proc[w].at, SourceOf(Category(w)))
           f == [proc[w] EXCEPT !.pc = AfterFindOrCreate(Category(w), TRUE),
                                !.snap = row, !.inserted = TRUE]
<1>1. /\ Pc(w) = "insert" /\ proc[w] \in Frame /\ FrameOK(proc[w]) /\ Id(w) \in SessionIds
      /\ Category(w) \in {"started", "joined", "left", "ingest"}
  BY BusyFrame DEF InsertSession, FrameOK, WebhookCategories, Pc, Category
<1>2. row \in SessionRow
  BY <1>1 DEF Frame, SourceOf, LiveRow, SessionRow, NoTime
<1>3. row # NoRow
  BY <1>2, RowKinds
<1>4. f \in Frame /\ FrameOK(f)
  <2>1. f.pc \in Pcs /\ f.pc # "idle"
    BY <1>1 DEF AfterFindOrCreate, Pcs, Frame
  <2>2. f \in Frame
    BY <1>1, <1>2, <2>1 DEF Frame
  <2>3. FrameOK(f)
    BY <1>1, <1>3, <2>1 DEF Frame, FrameOK, AfterFindOrCreate, Pc, Category
  <2>4. QED
    BY <2>2, <2>3
<1>5. proc' = [proc EXCEPT ![w] = f]
  BY DEF InsertSession
<1>6. proc' \in [Workers -> Frame] /\ \A v \in Workers : FrameOK(proc'[v])
  BY <1>4, <1>5, FrameStep
<1>7. /\ sessions' \in [SessionIds -> SessionRow \cup {NoRow}]
      /\ writes' \in [SessionIds -> Nat]
  BY <1>1, <1>2 DEF InsertSession, TypeOK
<1>8. QED
  BY <1>6, <1>7 DEF InsertSession, TypeOK, LocalsOK

LEMMA LocalsInsertConflict ==
    ASSUME TypeOK, LocalsOK, NEW w \in Workers, InsertConflict(w)
    PROVE  TypeOK' /\ LocalsOK'
<1> DEFINE f == [proc[w] EXCEPT !.pc = "get"]
<1>1. Pc(w) = "insert" /\ proc[w] \in Frame /\ FrameOK(proc[w])
  BY BusyFrame DEF InsertConflict
<1>2. f \in Frame /\ FrameOK(f)
  BY <1>1 DEF Frame, FrameOK, Pcs, Pc
<1>3. proc' = [proc EXCEPT ![w] = f]
  BY DEF InsertConflict
<1>4. proc' \in [Workers -> Frame] /\ \A v \in Workers : FrameOK(proc'[v])
  BY <1>2, <1>3, FrameStep
<1>5. QED
  BY <1>4 DEF InsertConflict, TypeOK, LocalsOK

LEMMA LocalsGetExisting ==
    ASSUME TypeOK, LocalsOK, NEW w \in Workers, GetExisting(w)
    PROVE  TypeOK' /\ LocalsOK'
<1> DEFINE f == [proc[w] EXCEPT !.pc = AfterFindOrCreate(Category(w), FALSE),
                                !.snap = sessions[Id(w)]]
<1>1. /\ Pc(w) = "get" /\ proc[w] \in Frame /\ FrameOK(proc[w]) /\ Id(w) \in SessionIds
      /\ Category(w) \in {"started", "joined", "left", "ingest"}
  BY BusyFrame DEF GetExisting, FrameOK, WebhookCategories, Pc, Category
<1>2. f \in Frame /\ FrameOK(f)
  <2>1. f.pc \in {"enrich", "count", "events"}
    BY <1>1 DEF AfterFindOrCreate, Frame
  <2>2. f \in Frame
    BY <1>1, <2>1 DEF Frame, Pcs, TypeOK
  <2>3. FrameOK(f)
    BY <1>1, <2>1 DEF Frame, FrameOK, AfterFindOrCreate, Pc, Category
  <2>4. QED
    BY <2>2, <2>3
<1>3. proc' = [proc EXCEPT ![w] = f]
  BY DEF GetExisting
<1>4. proc' \in [Workers -> Frame] /\ \A v \in Workers : FrameOK(proc'[v])
  BY <1>2, <1>3, FrameStep
<1>5. QED
  BY <1>4 DEF GetExisting, TypeOK, LocalsOK

\* The three guarded UPDATEs share Update.
LEMMA LocalsUpdate ==
    ASSUME TypeOK, LocalsOK, NEW w \in Workers, NEW accepts \in BOOLEAN, NEW row,
           accepts => row \in SessionRow,
           Pc(w) \in {"enrich", "count", "end"},
           Update(w, accepts, row)
    PROVE  TypeOK' /\ LocalsOK'
<1>1. proc[w] \in Frame /\ FrameOK(proc[w]) /\ Id(w) \in SessionIds
  BY BusyFrame
<1>2. CASE accepts /\ proc' = [proc EXCEPT ![w].pc = "publish", ![w].snap = row]
                   /\ sessions' = [sessions EXCEPT ![Id(w)] = row]
                   /\ writes' = [writes EXCEPT ![Id(w)] = @ + 1]
  <2> DEFINE f == [proc[w] EXCEPT !.pc = "publish", !.snap = row]
  <2>1. f \in Frame /\ FrameOK(f)
    BY <1>1, <1>2, RowKinds DEF Frame, FrameOK, Pcs, Pc
  <2>2. proc' = [proc EXCEPT ![w] = f]
    BY <1>2
  <2>3. proc' \in [Workers -> Frame] /\ \A v \in Workers : FrameOK(proc'[v])
    BY <2>1, <2>2, FrameStep
  <2>4. /\ sessions' \in [SessionIds -> SessionRow \cup {NoRow}]
        /\ writes' \in [SessionIds -> Nat]
    BY <1>1, <1>2 DEF TypeOK
  <2>5. QED
    BY <2>3, <2>4 DEF Update, TypeOK, LocalsOK
<1>3. CASE /\ proc' = [proc EXCEPT ![w].pc = IF proc[w].inserted THEN "publish" ELSE "reply"]
           /\ UNCHANGED <<sessions, writes>>
  <2> DEFINE f == [proc[w] EXCEPT !.pc = IF proc[w].inserted THEN "publish" ELSE "reply"]
  <2>1. f \in Frame /\ FrameOK(f)
    BY <1>1 DEF Frame, FrameOK, Pcs, Pc
  <2>2. proc' = [proc EXCEPT ![w] = f]
    BY <1>3
  <2>3. proc' \in [Workers -> Frame] /\ \A v \in Workers : FrameOK(proc'[v])
    BY <2>1, <2>2, FrameStep
  <2>4. QED
    BY <1>3, <2>3 DEF Update, TypeOK, LocalsOK
<1>4. QED
  BY <1>2, <1>3 DEF Update

\* What a guarded UPDATE leaves behind is a row of the table.
LEMMA WebhookRows ==
    ASSUME TypeOK, LocalsOK, NEW w \in Workers, Pc(w) \in {"enrich", "count", "end"}
    PROVE  LET row == sessions[Id(w)]  seq == proc[w].req.seq IN
           /\ seq \in Nat \ {0}
           /\ row.status = "live" =>
                 /\ row \in SessionRow
                 /\ Enriched(row, proc[w].at, Narrowed(proc[w].count), seq) \in SessionRow
                 /\ WithCount(row, Narrowed(proc[w].count), seq) \in SessionRow
                 /\ Ended(row, proc[w].req.at, seq) \in SessionRow
<1> DEFINE row == sessions[Id(w)]  seq == proc[w].req.seq
<1>1. proc[w].req \in Webhooks /\ proc[w] \in Frame /\ Id(w) \in SessionIds
  BY BusyFrame DEF FrameOK, Category, Pc
<1>2. seq \in Nat \ {0} /\ proc[w].req.at \in Nat
  BY <1>1, WebhookFields
<1>3. proc[w].at \in Int /\ proc[w].count \in Int
  BY <1>1 DEF Frame
<1>4. Narrowed(proc[w].count) \in Int
  BY <1>3, NarrowedRange
<1>5. row.status = "live" => row \in SessionRow
  BY <1>1, RowKinds DEF TypeOK
<1>6. ASSUME NEW count \in Int, row \in SessionRow
      PROVE  /\ Enriched(row, proc[w].at, count, seq) \in SessionRow
             /\ WithCount(row, count, seq) \in SessionRow
             /\ Ended(row, proc[w].req.at, seq) \in SessionRow
  <2>1. seq \in Int /\ proc[w].at \in Int /\ proc[w].req.at \in Int
    BY <1>2, <1>3
  <2> HIDE DEF row, seq
  <2>2. Enriched(row, proc[w].at, count, seq) \in SessionRow /\ WithCount(row, count, seq) \in SessionRow
    BY <2>1, <1>6, UpdatedRowTypes
  <2>3. QED
    BY <2>1, <2>2, <1>6, EndedRowType
<1> DEFINE n == Narrowed(proc[w].count)
<1>7. n \in Int
  BY <1>4
<1>8. row \in SessionRow => /\ Enriched(row, proc[w].at, n, seq) \in SessionRow
                            /\ WithCount(row, n, seq) \in SessionRow
                            /\ Ended(row, proc[w].req.at, seq) \in SessionRow
  <2> HIDE DEF n, row
  <2>1. QED
    BY <1>6, <1>7
<1>9. QED
  BY <1>2, <1>5, <1>8

LEMMA LocalsEnrichSession ==
    ASSUME TypeOK, LocalsOK, NEW w \in Workers, EnrichSession(w)
    PROVE  TypeOK' /\ LocalsOK'
<1> DEFINE row == sessions[Id(w)]  seq == proc[w].req.seq
           accepts == AcceptsWebhook(row, seq)
           new == Enriched(row, proc[w].at, Narrowed(proc[w].count), seq)
<1>1. Pc(w) = "enrich" /\ Update(w, accepts, new)
  BY DEF EnrichSession
<1>2. accepts \in BOOLEAN /\ (accepts => new \in SessionRow)
  BY <1>1, WebhookRows DEF AcceptsWebhook
<1>3. QED
  BY <1>1, <1>2, LocalsUpdate

LEMMA LocalsSetParticipantCount ==
    ASSUME TypeOK, LocalsOK, NEW w \in Workers, SetParticipantCount(w)
    PROVE  TypeOK' /\ LocalsOK'
<1> DEFINE row == sessions[Id(w)]  seq == proc[w].req.seq
           accepts == AcceptsWebhook(row, seq)
           new == WithCount(row, Narrowed(proc[w].count), seq)
<1>1. Pc(w) = "count" /\ Update(w, accepts, new)
  BY DEF SetParticipantCount
<1>2. accepts \in BOOLEAN /\ (accepts => new \in SessionRow)
  BY <1>1, WebhookRows DEF AcceptsWebhook
<1>3. QED
  BY <1>1, <1>2, LocalsUpdate

LEMMA LocalsEndSession ==
    ASSUME TypeOK, LocalsOK, NEW w \in Workers, EndSession(w)
    PROVE  TypeOK' /\ LocalsOK'
<1> DEFINE row == sessions[Id(w)]  seq == proc[w].req.seq
           accepts == AcceptsEnd(row, seq)
           new == Ended(row, proc[w].req.at, seq)
<1>1. Pc(w) = "end" /\ Update(w, accepts, new)
  BY DEF EndSession
<1>2. accepts \in BOOLEAN /\ (accepts => new \in SessionRow)
  BY <1>1, WebhookRows DEF AcceptsEnd
<1>3. QED
  BY <1>1, <1>2, LocalsUpdate

\* A worker of an ingest batch, and the event it is at.
LEMMA BatchFrame ==
    ASSUME TypeOK, LocalsOK, NEW w \in Workers, Pc(w) \in {"events", "activity"},
           proc[w].rest # <<>>
    PROVE  /\ Head(proc[w].rest) \in Nat \ {0}
           /\ Tail(proc[w].rest) \in Seq(Nat \ {0})
           /\ proc[w].req.client \in Clients
<1>1. proc[w] \in Frame /\ proc[w].req \in Batches
  BY BusyFrame DEF FrameOK, Category, Pc
<1>2. proc[w].rest \in Seq(Nat \ {0})
  BY <1>1 DEF Frame
<1>3. Head(proc[w].rest) \in Nat \ {0} /\ Tail(proc[w].rest) \in Seq(Nat \ {0})
  BY <1>2, HeadTailProperties
<1>4. QED
  BY <1>1, <1>3, BatchFields

LEMMA LocalsInsertEvent ==
    ASSUME TypeOK, LocalsOK, NEW w \in Workers, InsertEvent(w)
    PROVE  TypeOK' /\ LocalsOK'
<1> DEFINE seq == Head(proc[w].rest)  client == proc[w].req.client
<1>1. /\ Pc(w) = "events" /\ proc[w].rest # <<>> /\ proc[w] \in Frame
      /\ FrameOK(proc[w]) /\ Id(w) \in SessionIds
  BY BusyFrame DEF InsertEvent
<1>2. CASE ~IsStored(events, Id(w), client, seq)
  <2> DEFINE e == [sid |-> Id(w), client |-> client, seq |-> seq, receivedAt |-> now]
             f == [proc[w] EXCEPT !.pc = "activity"]
  <2>1. e \in Event
    BY <1>1, BatchFrame DEF Event, TypeOK
  <2>2. f \in Frame /\ FrameOK(f)
    BY <1>1 DEF Frame, FrameOK, Pcs, Pc
  <2>3. proc' = [proc EXCEPT ![w] = f] /\ events' = events \cup {e}
    BY <1>2 DEF InsertEvent
  <2>4. proc' \in [Workers -> Frame] /\ \A v \in Workers : FrameOK(proc'[v])
    BY <2>2, <2>3, FrameStep
  <2>5. events' \subseteq Event
    BY <2>1, <2>3 DEF TypeOK
  <2>6. QED
    BY <2>4, <2>5 DEF InsertEvent, TypeOK, LocalsOK
<1>3. CASE IsStored(events, Id(w), client, seq)
  <2> DEFINE f == [proc[w] EXCEPT !.rest = Tail(proc[w].rest)]
  <2>1. f \in Frame /\ FrameOK(f)
    BY <1>1, BatchFrame DEF Frame, FrameOK, Pc
  <2>2. proc' = [proc EXCEPT ![w] = f] /\ events' = events
    BY <1>3 DEF InsertEvent
  <2>3. proc' \in [Workers -> Frame] /\ \A v \in Workers : FrameOK(proc'[v])
    BY <2>1, <2>2, FrameStep
  <2>4. QED
    BY <2>2, <2>3 DEF InsertEvent, TypeOK, LocalsOK
<1>4. QED
  BY <1>2, <1>3

LEMMA LocalsFinishBatch ==
    ASSUME TypeOK, LocalsOK, NEW w \in Workers, FinishBatch(w)
    PROVE  TypeOK' /\ LocalsOK'
<1> DEFINE f == [proc[w] EXCEPT !.pc = "reply"]
<1>1. Pc(w) = "events" /\ proc[w] \in Frame /\ FrameOK(proc[w])
  BY BusyFrame DEF FinishBatch
<1>2. f \in Frame /\ FrameOK(f)
  BY <1>1 DEF Frame, FrameOK, Pcs, Pc
<1>3. proc' = [proc EXCEPT ![w] = f]
  BY DEF FinishBatch
<1>4. proc' \in [Workers -> Frame] /\ \A v \in Workers : FrameOK(proc'[v])
  BY <1>2, <1>3, FrameStep
<1>5. QED
  BY <1>4 DEF FinishBatch, TypeOK, LocalsOK

LEMMA LocalsPublishSession ==
    ASSUME TypeOK, LocalsOK, NEW w \in Workers, PublishSession(w)
    PROVE  TypeOK' /\ LocalsOK'
<1> DEFINE f == [proc[w] EXCEPT !.pc = IF Category(w) = "ingest" THEN "events" ELSE "reply"]
           m == SessionMessage(Id(w), proc[w].snap)
<1>1. /\ Pc(w) = "publish" /\ proc[w] \in Frame /\ FrameOK(proc[w])
      /\ Id(w) \in SessionIds
  BY BusyFrame DEF PublishSession
<1>2. f \in Frame /\ FrameOK(f)
  BY <1>1 DEF Frame, FrameOK, Pcs, Pc, Category
<1>3. m \in Message
  BY <1>1 DEF SessionMessage, Message, Frame, FrameOK, Pc
<1>4. proc' = [proc EXCEPT ![w] = f] /\ published' = Append(published, m)
  BY DEF PublishSession
<1>5. proc' \in [Workers -> Frame] /\ \A v \in Workers : FrameOK(proc'[v])
  BY <1>2, <1>4, FrameStep
<1>6. published' \in Seq(Message)
  BY <1>3, <1>4, AppendProperties DEF TypeOK
<1>7. QED
  BY <1>5, <1>6 DEF PublishSession, TypeOK, LocalsOK

LEMMA LocalsPublishActivity ==
    ASSUME TypeOK, LocalsOK, NEW w \in Workers, PublishActivity(w)
    PROVE  TypeOK' /\ LocalsOK'
<1> DEFINE f == [proc[w] EXCEPT !.pc = "events", !.rest = Tail(proc[w].rest)]
           m == ActivityMessage(Id(w), proc[w].req.client, Head(proc[w].rest))
<1>1. /\ Pc(w) = "activity" /\ proc[w] \in Frame /\ FrameOK(proc[w])
      /\ Id(w) \in SessionIds /\ proc[w].rest # <<>>
  BY BusyFrame DEF PublishActivity, FrameOK, Pc
<1>2. f \in Frame /\ FrameOK(f)
  BY <1>1, BatchFrame DEF Frame, FrameOK, Pcs, Pc
<1>3. m \in Message
  BY <1>1, BatchFrame DEF ActivityMessage, Message
<1>4. proc' = [proc EXCEPT ![w] = f] /\ published' = Append(published, m)
  BY DEF PublishActivity
<1>5. proc' \in [Workers -> Frame] /\ \A v \in Workers : FrameOK(proc'[v])
  BY <1>2, <1>4, FrameStep
<1>6. published' \in Seq(Message)
  BY <1>3, <1>4, AppendProperties DEF TypeOK
<1>7. QED
  BY <1>5, <1>6 DEF PublishActivity, TypeOK, LocalsOK

LEMMA IdleFrameOK == IdleFrame \in Frame /\ FrameOK(IdleFrame)
BY DEF IdleFrame, Frame, FrameOK, Pcs, NoRequest

LEMMA IdleReaperOK == IdleReaper \in SweepFrame /\ IdleReaper.pc = "idle"
BY DEF IdleReaper, SweepFrame, NoRows

\* A request that is answered or that fails forgets its locals.
LEMMA LocalsReturn ==
    ASSUME TypeOK, LocalsOK, NEW w \in Workers, Respond(w) \/ RequestFails(w)
    PROVE  TypeOK' /\ LocalsOK'
<1>1. proc' \in [Workers -> Frame] /\ \A v \in Workers : FrameOK(proc'[v])
  BY IdleFrameOK, FrameStep DEF Respond, RequestFails
<1>2. faults' \in Nat
  BY DEF Respond, RequestFails, TypeOK
<1>3. QED
  BY <1>1, <1>2 DEF Respond, RequestFails, TypeOK, LocalsOK

LEMMA LocalsSweep ==
    ASSUME TypeOK, LocalsOK, Sweep
    PROVE  TypeOK' /\ LocalsOK'
<1>1. CASE StartSweep
  <2>1. reaper' \in SweepFrame /\ reaper'.pc = "list"
    BY <1>1 DEF StartSweep, SweepFrame, TypeOK
  <2>2. QED
    BY <1>1, <2>1 DEF StartSweep, TypeOK, LocalsOK
<1>2. CASE ListIdle
  <2>1. ListIdleLiveSessions(sessions, events, reaper.at - Idle) \subseteq SessionIds
    BY DEF ListIdleLiveSessions, TypeOK
  <2> DEFINE idle == ListIdleLiveSessions(sessions, events, reaper.at - Idle)
             listed == [id \in SessionIds |-> IF id \in idle THEN sessions[id] ELSE NoRow]
  <2>2. listed \in [SessionIds -> SessionRow \cup {NoRow}] /\ idle \subseteq SessionIds
    BY <2>1 DEF TypeOK
  <2>3. reaper' = [reaper EXCEPT !.pc = "end", !.todo = idle, !.listed = listed]
    BY <1>2 DEF ListIdle
  <2> HIDE DEF idle, listed
  <2>4. reaper' \in SweepFrame /\ reaper'.pc = "end"
    BY <2>2, <2>3 DEF SweepFrame, TypeOK
  <2>5. QED
    BY <1>2, <2>4 DEF ListIdle, TypeOK, LocalsOK
<1>3. CASE EndIdle
  <2>1. PICK id \in reaper.todo :
          \/ /\ AcceptsEnd(sessions[id], 0)
             /\ sessions' = [sessions EXCEPT ![id] = Ended(sessions[id], reaper.at, 0)]
             /\ reaper' = [reaper EXCEPT !.pc = "publish", !.todo = reaper.todo \ {id},
                              !.cur = id, !.snap = Ended(sessions[id], reaper.at, 0)]
             /\ writes' = [writes EXCEPT ![id] = @ + 1]
          \/ /\ reaper' = [reaper EXCEPT !.todo = reaper.todo \ {id}]
             /\ UNCHANGED <<sessions, writes>>
    BY <1>3 DEF EndIdle
  <2>2. id \in SessionIds /\ reaper \in SweepFrame /\ reaper.pc = "end"
    BY <1>3 DEF TypeOK, SweepFrame, EndIdle
  <2>3. CASE /\ AcceptsEnd(sessions[id], 0)
             /\ sessions' = [sessions EXCEPT ![id] = Ended(sessions[id], reaper.at, 0)]
             /\ reaper' = [reaper EXCEPT !.pc = "publish", !.todo = reaper.todo \ {id},
                              !.cur = id, !.snap = Ended(sessions[id], reaper.at, 0)]
             /\ writes' = [writes EXCEPT ![id] = @ + 1]
    <3>1. sessions[id] \in SessionRow
      BY <2>2, <2>3, RowKinds DEF AcceptsEnd, TypeOK
    <3>2. reaper.at \in Nat
      BY <2>2 DEF SweepFrame
    <3>3. Ended(sessions[id], reaper.at, 0) \in SessionRow
      BY <3>1, <3>2, EndedRowType
    <3>4. /\ reaper' \in SweepFrame /\ reaper'.cur \in SessionIds
          /\ reaper'.snap # NoRow
      BY <2>2, <2>3, <3>3, RowKinds DEF SweepFrame
    <3>5. /\ sessions' \in [SessionIds -> SessionRow \cup {NoRow}]
          /\ writes' \in [SessionIds -> Nat]
      BY <2>2, <2>3, <3>3 DEF TypeOK
    <3>6. QED
      BY <1>3, <3>4, <3>5 DEF EndIdle, TypeOK, LocalsOK
  <2>4. CASE /\ reaper' = [reaper EXCEPT !.todo = reaper.todo \ {id}]
             /\ UNCHANGED <<sessions, writes>>
    <3>1. reaper' \in SweepFrame /\ reaper'.pc = "end"
      BY <2>2, <2>4 DEF SweepFrame
    <3>2. QED
      BY <1>3, <2>4, <3>1 DEF EndIdle, TypeOK, LocalsOK
  <2>5. QED
    BY <2>1, <2>3, <2>4
<1>4. CASE PublishReaped
  <2>1. reaper \in SweepFrame /\ reaper.cur \in SessionIds /\ reaper.snap \in SessionRow
    BY <1>4 DEF PublishReaped, TypeOK, LocalsOK, SweepFrame
  <2>2. SessionMessage(reaper.cur, reaper.snap) \in Message
    BY <2>1 DEF SessionMessage, Message
  <2>3. published' \in Seq(Message)
    BY <1>4, <2>2, AppendProperties DEF PublishReaped, TypeOK
  <2>4. reaper' \in SweepFrame /\ reaper'.pc = "end"
    BY <1>4, <2>1 DEF PublishReaped, SweepFrame
  <2>5. QED
    BY <1>4, <2>3, <2>4 DEF PublishReaped, TypeOK, LocalsOK
<1>5. CASE FinishSweep
  BY <1>5, IdleReaperOK DEF FinishSweep, TypeOK, LocalsOK
<1>6. QED
  BY <1>1, <1>2, <1>3, <1>4, <1>5 DEF Sweep

LEMMA LocalsInductive ==
    ASSUME TypeOK, LocalsOK, [Next]_vars
    PROVE  TypeOK' /\ LocalsOK'
<1>1. ASSUME NEW w \in Workers, Receive(w) \/ Statement(w) \/ RequestFails(w)
      PROVE  TypeOK' /\ LocalsOK'
  BY <1>1, LocalsReceive, LocalsReadForLeft, LocalsInsertSession, LocalsInsertConflict,
     LocalsGetExisting, LocalsEnrichSession, LocalsSetParticipantCount, LocalsEndSession,
     LocalsInsertEvent, LocalsFinishBatch, LocalsPublishSession, LocalsPublishActivity,
     LocalsReturn
     DEF Statement
<1>2. CASE Sweep
  BY <1>2, LocalsSweep
<1>3. CASE SweepFails
  BY <1>3, IdleReaperOK DEF SweepFails, TypeOK, LocalsOK
<1>4. CASE Restart
  <2>1. proc' \in [Workers -> Frame] /\ \A v \in Workers : FrameOK(proc'[v])
    BY <1>4, IdleFrameOK DEF Restart
  <2>2. QED
    BY <1>4, <2>1, IdleReaperOK DEF Restart, TypeOK, LocalsOK
<1>5. CASE Tick
  BY <1>5 DEF Tick, TypeOK, LocalsOK
<1>6. CASE UNCHANGED vars
  BY <1>6 DEF vars, TypeOK, LocalsOK
<1>7. QED
  BY <1>1, <1>2, <1>3, <1>4, <1>5, <1>6 DEF Next

\* The tables, the stream and the goroutines' locals keep their types, and
\* every statement runs only for the deliveries whose handler issues it.
THEOREM LifecycleTypes == Spec => [](TypeOK /\ LocalsOK)
<1>1. TypeOK /\ LocalsOK /\ [Next]_vars => (TypeOK /\ LocalsOK)'
  BY LocalsInductive
<1>2. QED
  BY <1>1, InitLocals, PTL DEF Spec

\* The type invariant as the runs check it.
THEOREM TypeCorrect == Spec => []TypeOK
BY LifecycleTypes, PTL

-----------------------------------------------------------------------------
(* The right to announce the end of a session.  EndSession gives it to the  *)
(* one goroutine whose UPDATE returned a row, and Publish uses it up.        *)

EndIn(feed, id) ==
    \E i \in DOMAIN feed :
        /\ feed[i].event = "session" /\ feed[i].id = id
        /\ feed[i].row.status = "ended"

HoldsEnd(f) == f.pc = "publish" /\ f.req.category = "ended"

\* Every other row held for announcement is live.
HoldsLive(f) ==
    (\/ f.pc = "publish" /\ f.req.category # "ended"
     \/ f.pc \in {"enrich", "count"} /\ f.inserted) => f.snap.status = "live"

EndRights ==
    /\ \A w \in Workers : HoldsLive(proc[w])
    /\ \A w \in Workers : HoldsEnd(proc[w]) =>
          /\ proc[w].snap = sessions[proc[w].req.id]
          /\ proc[w].snap.status = "ended"
          /\ ~EndIn(published, proc[w].req.id)
          /\ ~(reaper.pc = "publish" /\ reaper.cur = proc[w].req.id)
          /\ \A v \in Workers \ {w} : HoldsEnd(proc[v]) => proc[v].req.id # proc[w].req.id
    /\ reaper.pc = "publish" =>
          /\ reaper.snap = sessions[reaper.cur]
          /\ reaper.snap.status = "ended"
          /\ ~EndIn(published, reaper.cur)
    /\ EndAnnouncedOnce

\* A live session's end has been announced by nobody and is held by nobody.
LEMMA LiveHasNoEnd ==
    ASSUME EndRights, NEW id \in SessionIds, sessions[id].status # "ended"
    PROVE  /\ ~EndIn(published, id)
           /\ ~(reaper.pc = "publish" /\ reaper.cur = id)
           /\ \A w \in Workers : HoldsEnd(proc[w]) => proc[w].req.id # id
<1>1. ~EndIn(published, id)
  BY DEF EndRights, EndAnnouncedOnce, EndIn
<1>2. ~(reaper.pc = "publish" /\ reaper.cur = id)
  BY DEF EndRights
<1>3. \A w \in Workers : HoldsEnd(proc[w]) => proc[w].req.id # id
  BY DEF EndRights
<1>4. QED
  BY <1>1, <1>2, <1>3

\* A message that is not the end of a session leaves the ends as they are.
LEMMA OtherMessage ==
    ASSUME TypeOK, EndAnnouncedOnce, NEW m \in Message,
           m.event = "session" => m.row.status = "live",
           published' = Append(published, m),
           \A id \in SessionIds : sessions[id].status = "ended" => sessions'[id] = sessions[id]
    PROVE  EndAnnouncedOnce' /\ \A id : EndIn(published', id) <=> EndIn(published, id)
<1> DEFINE n == Len(published)
<1>1. /\ published \in Seq(Message) /\ n \in Nat
      /\ DOMAIN published = 1..n
      /\ DOMAIN published' = 1..(n + 1)
      /\ published'[n + 1] = m
      /\ \A i \in 1..n : published'[i] = published[i]
  BY AppendProperties DEF TypeOK
<1>2. m.event = "session" => m.row.status # "ended"
  OBVIOUS
<1>3. \A i \in 1..n : published[i] \in Message
  BY <1>1
<1>4. EndAnnouncedOnce'
  <2> SUFFICES ASSUME NEW i \in 1..(n + 1), published'[i].event = "session",
                      published'[i].row.status = "ended"
               PROVE  /\ published'[i].row = sessions'[published'[i].id]
                      /\ \A j \in 1..(n + 1) : published'[j] = published'[i] => j = i
    BY <1>1 DEF EndAnnouncedOnce
  <2>1. i \in 1..n
    BY <1>1, <1>2
  <2>2. published[i] \in Message /\ published'[i] = published[i]
    BY <1>1, <1>3, <2>1
  <2>3. published[i].id \in SessionIds
    BY <2>2 DEF Message
  <2>4. /\ published[i].row = sessions[published[i].id]
        /\ \A j \in 1..n : published[j] = published[i] => j = i
    BY <1>1, <2>1, <2>2 DEF EndAnnouncedOnce
  <2>5. sessions'[published[i].id] = sessions[published[i].id]
    BY <2>2, <2>3, <2>4
  <2>6. published'[n + 1] # published'[i]
    BY <1>1, <1>2
  <2>7. QED
    BY <1>1, <2>1, <2>2, <2>4, <2>5, <2>6
<1>5. ASSUME NEW id PROVE EndIn(published', id) <=> EndIn(published, id)
  BY <1>1, <1>2 DEF EndIn
<1>6. QED
  BY <1>4, <1>5

\* A step that gives nobody a new right, uses none up and leaves ended rows
\* alone preserves the rights.
LEMMA EndRightsKept ==
    ASSUME TypeOK, LocalsOK, EndRights,
           \A id \in SessionIds : sessions[id].status = "ended" => sessions'[id] = sessions[id],
           \A w \in Workers : HoldsLive(proc'[w]),
           \A w \in Workers : HoldsEnd(proc'[w]) =>
              /\ HoldsEnd(proc[w])
              /\ proc'[w].req = proc[w].req /\ proc'[w].snap = proc[w].snap,
           reaper'.pc = "publish" => reaper' = reaper,
           \/ published' = published
           \/ \E m \in Message : /\ m.event = "session" => m.row.status = "live"
                                 /\ published' = Append(published, m)
    PROVE  EndRights'
<1>1. EndAnnouncedOnce' /\ \A id : EndIn(published', id) <=> EndIn(published, id)
  <2>1. CASE published' = published
    <3>1. \A i \in DOMAIN published : published[i] \in Message
      BY DEF TypeOK
    <3>2. \A i \in DOMAIN published :
            published[i].event = "session" => published[i].id \in SessionIds
      BY <3>1 DEF Message
    <3>3. EndAnnouncedOnce'
      BY <2>1, <3>2 DEF EndRights, EndAnnouncedOnce
    <3>4. QED
      BY <2>1, <3>3 DEF EndIn
  <2>2. CASE \E m \in Message : /\ m.event = "session" => m.row.status = "live"
                                /\ published' = Append(published, m)
    BY <2>2, OtherMessage DEF EndRights
  <2>3. QED
    BY <2>1, <2>2
<1>2. ASSUME NEW w \in Workers, HoldsEnd(proc'[w])
      PROVE  /\ proc'[w].snap = sessions'[proc'[w].req.id]
             /\ proc'[w].snap.status = "ended"
             /\ ~EndIn(published', proc'[w].req.id)
             /\ ~(reaper'.pc = "publish" /\ reaper'.cur = proc'[w].req.id)
             /\ \A v \in Workers \ {w} : HoldsEnd(proc'[v]) => proc'[v].req.id # proc'[w].req.id
  <2>1. /\ HoldsEnd(proc[w]) /\ proc'[w].req.id = proc[w].req.id /\ proc'[w].snap = proc[w].snap
    BY <1>2 DEF Id
  <2>2. proc[w].req.id \in SessionIds
    BY <2>1, BusyFrame DEF HoldsEnd, Pc, Id
  <2>3. \A v \in Workers \ {w} : HoldsEnd(proc'[v]) => HoldsEnd(proc[v]) /\ proc'[v].req.id = proc[v].req.id
    BY DEF Id
  <2>4. QED
    BY <1>1, <2>1, <2>2, <2>3 DEF EndRights
<1>3. ASSUME reaper'.pc = "publish"
      PROVE  /\ reaper'.snap = sessions'[reaper'.cur]
             /\ reaper'.snap.status = "ended"
             /\ ~EndIn(published', reaper'.cur)
  <2>1. reaper' = reaper /\ reaper.pc = "publish" /\ reaper.cur \in SessionIds
    BY <1>3 DEF LocalsOK
  <2>2. QED
    BY <1>1, <2>1 DEF EndRights
<1>4. QED
  BY <1>1, <1>2, <1>3 DEF EndRights

\* The message that announces an end, published by the one who may.
LEMMA EndMessage ==
    ASSUME TypeOK, EndAnnouncedOnce, NEW id \in SessionIds, ~EndIn(published, id),
           sessions[id] \in SessionRow, sessions[id].status = "ended",
           published' = Append(published, SessionMessage(id, sessions[id])),
           sessions' = sessions
    PROVE  /\ EndAnnouncedOnce'
           /\ \A other : other # id => (EndIn(published', other) <=> EndIn(published, other))
<1> DEFINE n == Len(published)
           m == SessionMessage(id, sessions[id])
<1>0. m \in Message /\ m.event = "session" /\ m.id = id /\ m.row = sessions[id]
  BY DEF SessionMessage, Message
<1> HIDE DEF m
<1>1. /\ published \in Seq(Message) /\ n \in Nat
      /\ DOMAIN published = 1..n
      /\ DOMAIN published' = 1..(n + 1)
      /\ published'[n + 1] = m
      /\ \A i \in 1..n : published'[i] = published[i]
  BY <1>0, AppendProperties DEF TypeOK, m
<1>2. \A i \in 1..n : published[i] # m
  BY <1>0, <1>1 DEF EndIn
<1>3. EndAnnouncedOnce'
  <2> SUFFICES ASSUME NEW i \in 1..(n + 1), published'[i].event = "session",
                      published'[i].row.status = "ended"
               PROVE  /\ published'[i].row = sessions[published'[i].id]
                      /\ \A j \in 1..(n + 1) : published'[j] = published'[i] => j = i
    BY <1>1 DEF EndAnnouncedOnce
  <2>1. CASE i = n + 1
    BY <1>0, <1>1, <1>2, <2>1
  <2>2. CASE i \in 1..n
    <3>1. /\ published[i].row = sessions[published[i].id]
          /\ \A j \in 1..n : published[j] = published[i] => j = i
      BY <1>1, <2>2 DEF EndAnnouncedOnce
    <3>2. QED
      BY <1>1, <1>2, <2>2, <3>1
  <2>3. QED
    BY <1>1, <2>1, <2>2
<1>4. ASSUME NEW other, other # id PROVE EndIn(published', other) <=> EndIn(published, other)
  BY <1>0, <1>1, <1>4 DEF EndIn
<1>5. QED
  BY <1>3, <1>4

LEMMA InitEndRights == Init => EndRights
<1>1. ~HoldsEnd(IdleFrame) /\ HoldsLive(IdleFrame)
  BY DEF IdleFrame, HoldsEnd, HoldsLive
<1> SUFFICES ASSUME Init PROVE EndRights
  OBVIOUS
<1>2. \A w \in Workers : HoldsLive(proc[w]) /\ ~HoldsEnd(proc[w])
  BY <1>1 DEF Init
<1>3. reaper.pc # "publish"
  BY DEF Init, IdleReaper
<1>4. EndAnnouncedOnce
  BY EmptySeq DEF Init, EndAnnouncedOnce
<1>5. QED
  BY <1>2, <1>3, <1>4 DEF EndRights

\* A worker whose next frame holds nothing to announce about an end.
LEMMA EndRightsByWorker ==
    ASSUME TypeOK, LocalsOK, EndRights, NEW w \in Workers, NEW f,
           proc' = [proc EXCEPT ![w] = f], HoldsLive(f), ~HoldsEnd(f),
           \A id \in SessionIds : sessions[id].status = "ended" => sessions'[id] = sessions[id],
           reaper' = reaper,
           \/ published' = published
           \/ \E m \in Message : /\ m.event = "session" => m.row.status = "live"
                                 /\ published' = Append(published, m)
    PROVE  EndRights'
<1>1. proc \in [Workers -> Frame]
  BY DEF TypeOK
<1>2. \A v \in Workers : proc'[v] = IF v = w THEN f ELSE proc[v]
  BY <1>1
<1>3. \A v \in Workers : HoldsLive(proc'[v])
  BY <1>2 DEF EndRights
<1>4. \A v \in Workers : HoldsEnd(proc'[v]) => proc'[v] = proc[v] /\ HoldsEnd(proc[v])
  BY <1>2
<1>5. QED
  BY <1>3, <1>4, EndRightsKept

LEMMA EndRightsReads ==
    ASSUME TypeOK, LocalsOK, EndRights, NEW w \in Workers,
           \/ Receive(w) \/ ReadForLeft(w) \/ InsertConflict(w) \/ GetExisting(w)
           \/ InsertEvent(w) \/ FinishBatch(w) \/ Respond(w) \/ RequestFails(w)
    PROVE  EndRights'
<1>1. proc[w] \in Frame /\ FrameOK(proc[w]) /\ HoldsLive(proc[w])
  BY DEF TypeOK, LocalsOK, EndRights
<1>2. CASE Receive(w)
  <2>1. PICK r \in Requests :
          proc' = [proc EXCEPT ![w] =
                     [IdleFrame EXCEPT
                        !.pc = FirstStep(r.category),
                        !.req = r,
                        !.at = StartTime(r),
                        !.count = IF r.category \in {"started", "joined"} THEN r.count ELSE 0,
                        !.rest = IF r.category = "ingest" THEN r.events ELSE <<>>]]
    BY <1>2 DEF Receive
  <2> DEFINE f == [IdleFrame EXCEPT
                        !.pc = FirstStep(r.category),
                        !.req = r,
                        !.at = StartTime(r),
                        !.count = IF r.category \in {"started", "joined"} THEN r.count ELSE 0,
                        !.rest = IF r.category = "ingest" THEN r.events ELSE <<>>]
  <2>2. HoldsLive(f) /\ ~HoldsEnd(f)
    BY DEF HoldsLive, HoldsEnd, FirstStep, IdleFrame
  <2>3. QED
    BY <1>2, <2>1, <2>2, EndRightsByWorker DEF Receive
<1>3. CASE ReadForLeft(w)
  <2>1. CASE sessions[proc[w].req.id] = NoRow
    <3> DEFINE f == [proc[w] EXCEPT !.pc = "reply"]
    <3>1. proc' = [proc EXCEPT ![w] = f]
      BY <1>3, <2>1 DEF ReadForLeft, Id
    <3>2. HoldsLive(f) /\ ~HoldsEnd(f)
      BY <1>1 DEF HoldsLive, HoldsEnd, Frame
    <3>3. QED
      BY <1>3, <3>1, <3>2, EndRightsByWorker DEF ReadForLeft
  <2>2. CASE sessions[proc[w].req.id] # NoRow
    <3> DEFINE f == [proc[w] EXCEPT !.pc = "insert",
                       !.count = Decremented(sessions[proc[w].req.id].participantCount)]
    <3>1. proc' = [proc EXCEPT ![w] = f]
      BY <1>3, <2>2 DEF ReadForLeft, Id
    <3>2. HoldsLive(f) /\ ~HoldsEnd(f)
      BY <1>1 DEF HoldsLive, HoldsEnd, Frame
    <3>3. QED
      BY <1>3, <3>1, <3>2, EndRightsByWorker DEF ReadForLeft
  <2>3. QED
    BY <2>1, <2>2
<1>4. CASE InsertConflict(w)
  <2> DEFINE f == [proc[w] EXCEPT !.pc = "get"]
  <2>1. HoldsLive(f) /\ ~HoldsEnd(f) /\ proc' = [proc EXCEPT ![w] = f]
    BY <1>1, <1>4 DEF InsertConflict, HoldsLive, HoldsEnd, Frame
  <2>2. QED
    BY <1>4, <2>1, EndRightsByWorker DEF InsertConflict
<1>5. CASE GetExisting(w)
  <2> DEFINE f == [proc[w] EXCEPT !.pc = AfterFindOrCreate(Category(w), FALSE),
                                  !.snap = sessions[Id(w)]]
  <2>1. ~proc[w].inserted /\ Category(w) # "ended"
    BY <1>1, <1>5 DEF GetExisting, FrameOK, Pc, Category
  <2>2. f.pc \in {"enrich", "count", "events"} /\ ~f.inserted
    BY <1>1, <2>1 DEF AfterFindOrCreate, Frame
  <2>3. HoldsLive(f) /\ ~HoldsEnd(f)
    BY <2>2 DEF HoldsLive, HoldsEnd
  <2>4. QED
    BY <1>5, <2>3, EndRightsByWorker DEF GetExisting
<1>6. CASE InsertEvent(w)
  <2> DEFINE f == [proc[w] EXCEPT !.pc = "activity"]
             g == [proc[w] EXCEPT !.rest = Tail(proc[w].rest)]
  <2>1. Pc(w) = "events" /\ (proc' = [proc EXCEPT ![w] = f] \/ proc' = [proc EXCEPT ![w] = g])
    BY <1>6 DEF InsertEvent
  <2>2. /\ HoldsLive(f) /\ ~HoldsEnd(f)
        /\ HoldsLive(g) /\ ~HoldsEnd(g)
    BY <1>1, <2>1 DEF HoldsLive, HoldsEnd, Frame, Pc
  <2>3. QED
    BY <1>6, <2>1, <2>2, EndRightsByWorker DEF InsertEvent
<1>7. CASE FinishBatch(w)
  <2> DEFINE f == [proc[w] EXCEPT !.pc = "reply"]
  <2>1. HoldsLive(f) /\ ~HoldsEnd(f) /\ proc' = [proc EXCEPT ![w] = f]
    BY <1>1, <1>7 DEF FinishBatch, HoldsLive, HoldsEnd, Frame
  <2>2. QED
    BY <1>7, <2>1, EndRightsByWorker DEF FinishBatch
<1>8. CASE Respond(w) \/ RequestFails(w)
  <2>1. HoldsLive(IdleFrame) /\ ~HoldsEnd(IdleFrame)
    BY DEF HoldsLive, HoldsEnd, IdleFrame
  <2>2. QED
    BY <1>8, <2>1, EndRightsByWorker DEF Respond, RequestFails
<1>9. QED
  BY <1>2, <1>3, <1>4, <1>5, <1>6, <1>7, <1>8

LEMMA EndRightsInsertSession ==
    ASSUME TypeOK, LocalsOK, EndRights, NEW w \in Workers, InsertSession(w)
    PROVE  EndRights'
<1> DEFINE row == LiveRow(proc[w].at, SourceOf(Category(w)))
           f == [proc[w] EXCEPT !.pc = AfterFindOrCreate(Category(w), TRUE),
                                !.snap = row, !.inserted = TRUE]
<1>1. /\ proc[w] \in Frame /\ Id(w) \in SessionIds
      /\ Category(w) # "ended"
  BY BusyFrame DEF InsertSession, FrameOK, Pc, Category
<1>2. proc' = [proc EXCEPT ![w] = f] /\ sessions' = [sessions EXCEPT ![Id(w)] = row]
  BY DEF InsertSession
<1>3. f.snap.status = "live" /\ f.req.category # "ended"
  BY <1>1 DEF Frame, LiveRow, Category
<1>4. HoldsLive(f) /\ ~HoldsEnd(f)
  BY <1>3 DEF HoldsLive, HoldsEnd
<1>5. sessions[Id(w)].status # "ended"
  BY DEF InsertSession, NoRow
<1>6. \A id \in SessionIds : sessions[id].status = "ended" => sessions'[id] = sessions[id]
  BY <1>1, <1>2, <1>5 DEF TypeOK
<1>7. QED
  BY <1>2, <1>4, <1>6, EndRightsByWorker DEF InsertSession

\* Enrich and SetParticipantCount: the row stays live.
LEMMA EndRightsWebhook ==
    ASSUME TypeOK, LocalsOK, EndRights, NEW w \in Workers,
           EnrichSession(w) \/ SetParticipantCount(w)
    PROVE  EndRights'
<1> DEFINE row == sessions[Id(w)]  seq == proc[w].req.seq
           accepts == AcceptsWebhook(row, seq)
<1>1. /\ Pc(w) \in {"enrich", "count"} /\ proc[w] \in Frame /\ FrameOK(proc[w])
      /\ Id(w) \in SessionIds /\ HoldsLive(proc[w])
  BY BusyFrame DEF EnrichSession, SetParticipantCount, EndRights
<1>2. PICK new \in {Enriched(row, proc[w].at, Narrowed(proc[w].count), seq),
                    WithCount(row, Narrowed(proc[w].count), seq)} : Update(w, accepts, new)
  BY DEF EnrichSession, SetParticipantCount
<1>3. reaper' = reaper /\ published' = published
  BY <1>2 DEF Update
<1>4. CASE accepts /\ proc' = [proc EXCEPT ![w].pc = "publish", ![w].snap = new]
                   /\ sessions' = [sessions EXCEPT ![Id(w)] = new]
  <2> DEFINE f == [proc[w] EXCEPT !.pc = "publish", !.snap = new]
  <2>1. row.status = "live" /\ row \in SessionRow
    BY <1>1, <1>4, WebhookRows DEF AcceptsWebhook
  <2>2. new.status = "live"
    BY <2>1 DEF Enriched, WithCount, SessionRow
  <2>3. proc' = [proc EXCEPT ![w] = f]
    BY <1>4
  <2>4. f.snap = new /\ f.req = proc[w].req
    BY <1>1 DEF Frame
  <2>5. proc[w].req.category # "ended"
    BY <1>1 DEF FrameOK, Pc
  <2>6. HoldsLive(f) /\ ~HoldsEnd(f)
    BY <2>2, <2>4, <2>5 DEF HoldsLive, HoldsEnd
  <2>7. \A id \in SessionIds : sessions[id].status = "ended" => sessions'[id] = sessions[id]
    BY <1>1, <1>4, <2>1 DEF TypeOK
  <2>8. QED
    BY <1>3, <2>3, <2>6, <2>7, EndRightsByWorker
<1>5. CASE /\ proc' = [proc EXCEPT ![w].pc = IF proc[w].inserted THEN "publish" ELSE "reply"]
           /\ sessions' = sessions
  <2> DEFINE f == [proc[w] EXCEPT !.pc = IF proc[w].inserted THEN "publish" ELSE "reply"]
  <2>1. proc' = [proc EXCEPT ![w] = f]
    BY <1>5
  <2>2. HoldsLive(f) /\ ~HoldsEnd(f)
    BY <1>1 DEF HoldsLive, HoldsEnd, Frame, FrameOK, Pc
  <2>3. QED
    BY <1>3, <1>5, <2>1, <2>2, EndRightsByWorker
<1>6. QED
  BY <1>2, <1>4, <1>5 DEF Update

\* EndSession takes the right: before the step nobody had it.
LEMMA EndRightsEndSession ==
    ASSUME TypeOK, LocalsOK, EndRights, NEW w \in Workers, EndSession(w)
    PROVE  EndRights'
<1> DEFINE row == sessions[Id(w)]  seq == proc[w].req.seq
           accepts == AcceptsEnd(row, seq)
           new == Ended(row, proc[w].req.at, seq)
           id == proc[w].req.id
<1>1. /\ Pc(w) = "end" /\ proc[w] \in Frame /\ FrameOK(proc[w])
      /\ id \in SessionIds /\ Id(w) = id /\ ~proc[w].inserted
  BY BusyFrame DEF EndSession, FrameOK, Pc, Id
<1>2. Update(w, accepts, new)
  BY DEF EndSession
<1>3. reaper' = reaper /\ published' = published
  BY <1>2 DEF Update
<1>4. CASE accepts /\ proc' = [proc EXCEPT ![w].pc = "publish", ![w].snap = new]
                   /\ sessions' = [sessions EXCEPT ![Id(w)] = new]
  <2>1. row.status = "live" /\ row \in SessionRow
    BY <1>1, <1>4, WebhookRows DEF AcceptsEnd
  <2>2. new.status = "ended" /\ sessions'[id] = new
    BY <1>1, <1>4, <2>1 DEF Ended, SessionRow, TypeOK
  <2>3. /\ \A v \in Workers \ {w} : proc'[v] = proc[v]
        /\ proc'[w].snap = new /\ proc'[w].req = proc[w].req
        /\ proc'[w].pc = "publish"
    BY <1>1, <1>4 DEF TypeOK, Frame
  <2>4. \A other \in SessionIds : other # id => sessions'[other] = sessions[other]
    BY <1>1, <1>4 DEF TypeOK
  <2>5. /\ ~EndIn(published, id)
        /\ ~(reaper.pc = "publish" /\ reaper.cur = id)
        /\ \A v \in Workers : HoldsEnd(proc[v]) => proc[v].req.id # id
    BY <1>1, <2>1, LiveHasNoEnd
  <2>6. \A v \in Workers : HoldsEnd(proc[v]) => proc[v].req.id \in SessionIds
    BY BusyFrame DEF HoldsEnd, Pc, Id
  <2>7. \A v \in Workers : HoldsLive(proc'[v])
    <3>1. HoldsLive(proc'[w])
      BY <1>1, <2>3 DEF HoldsLive, FrameOK, Pc
    <3>2. QED
      BY <2>3, <3>1 DEF EndRights
  <2>8. ASSUME NEW v \in Workers, HoldsEnd(proc'[v])
        PROVE  /\ proc'[v].snap = sessions'[proc'[v].req.id]
               /\ proc'[v].snap.status = "ended"
               /\ ~EndIn(published', proc'[v].req.id)
               /\ ~(reaper'.pc = "publish" /\ reaper'.cur = proc'[v].req.id)
               /\ \A u \in Workers \ {v} :
                     HoldsEnd(proc'[u]) => proc'[u].req.id # proc'[v].req.id
    <3>1. CASE v = w
      BY <1>3, <2>2, <2>3, <2>5, <3>1
    <3>2. CASE v # w
      BY <1>3, <2>3, <2>4, <2>5, <2>6, <2>8, <3>2 DEF EndRights
    <3>3. QED
      BY <3>1, <3>2
  <2>9. reaper'.pc = "publish" =>
          /\ reaper'.snap = sessions'[reaper'.cur]
          /\ reaper'.snap.status = "ended"
          /\ ~EndIn(published', reaper'.cur)
    BY <1>3, <2>4, <2>5 DEF EndRights, LocalsOK
  <2>10. EndAnnouncedOnce'
    <3>1. \A i \in DOMAIN published :
            (published[i].event = "session" /\ published[i].row.status = "ended")
              => published[i].id # id
      BY <2>5 DEF EndIn
    <3>2. \A i \in DOMAIN published :
            published[i].event = "session" => published[i].id \in SessionIds
      BY DEF TypeOK, Message
    <3>3. QED
      BY <1>3, <2>4, <3>1, <3>2 DEF EndRights, EndAnnouncedOnce
  <2>11. QED
    BY <2>7, <2>8, <2>9, <2>10 DEF EndRights
<1>5. CASE /\ proc' = [proc EXCEPT ![w].pc = IF proc[w].inserted THEN "publish" ELSE "reply"]
           /\ sessions' = sessions
  <2> DEFINE f == [proc[w] EXCEPT !.pc = "reply"]
  <2>1. proc' = [proc EXCEPT ![w] = f]
    BY <1>1, <1>5
  <2>2. HoldsLive(f) /\ ~HoldsEnd(f)
    BY <1>1 DEF HoldsLive, HoldsEnd, Frame
  <2>3. QED
    BY <1>3, <1>5, <2>1, <2>2, EndRightsByWorker
<1>6. QED
  BY <1>2, <1>4, <1>5 DEF Update

\* The reaper takes the right the same way.
LEMMA EndRightsEndIdle ==
    ASSUME TypeOK, LocalsOK, EndRights, EndIdle
    PROVE  EndRights'
<1>1. PICK id \in reaper.todo :
        \/ /\ AcceptsEnd(sessions[id], 0)
           /\ sessions' = [sessions EXCEPT ![id] = Ended(sessions[id], reaper.at, 0)]
           /\ reaper' = [reaper EXCEPT !.pc = "publish", !.todo = reaper.todo \ {id},
                            !.cur = id, !.snap = Ended(sessions[id], reaper.at, 0)]
        \/ /\ reaper' = [reaper EXCEPT !.todo = reaper.todo \ {id}]
           /\ sessions' = sessions
  BY DEF EndIdle
<1>2. /\ id \in SessionIds /\ reaper \in SweepFrame /\ reaper.pc = "end"
      /\ proc' = proc /\ published' = published
  BY DEF TypeOK, SweepFrame, EndIdle
<1>3. CASE /\ AcceptsEnd(sessions[id], 0)
           /\ sessions' = [sessions EXCEPT ![id] = Ended(sessions[id], reaper.at, 0)]
           /\ reaper' = [reaper EXCEPT !.pc = "publish", !.todo = reaper.todo \ {id},
                            !.cur = id, !.snap = Ended(sessions[id], reaper.at, 0)]
  <2> DEFINE new == Ended(sessions[id], reaper.at, 0)
  <2>1. sessions[id].status = "live" /\ sessions[id] \in SessionRow
    BY <1>2, <1>3, RowKinds DEF AcceptsEnd, TypeOK
  <2>2. new.status = "ended" /\ sessions'[id] = new
    BY <1>2, <1>3, <2>1 DEF Ended, SessionRow, TypeOK
  <2>3. reaper'.pc = "publish" /\ reaper'.cur = id /\ reaper'.snap = new
    BY <1>2, <1>3 DEF SweepFrame
  <2>4. \A other \in SessionIds : other # id => sessions'[other] = sessions[other]
    BY <1>2, <1>3 DEF TypeOK
  <2>5. /\ ~EndIn(published, id)
        /\ \A v \in Workers : HoldsEnd(proc[v]) => proc[v].req.id # id
    BY <1>2, <2>1, LiveHasNoEnd
  <2>6. \A v \in Workers : HoldsEnd(proc[v]) => proc[v].req.id \in SessionIds
    BY BusyFrame DEF HoldsEnd, Pc, Id
  <2>7. EndAnnouncedOnce'
    <3>1. \A i \in DOMAIN published :
            (published[i].event = "session" /\ published[i].row.status = "ended")
              => published[i].id # id
      BY <2>5 DEF EndIn
    <3>2. \A i \in DOMAIN published :
            published[i].event = "session" => published[i].id \in SessionIds
      BY DEF TypeOK, Message
    <3>3. QED
      BY <1>2, <2>4, <3>1, <3>2 DEF EndRights, EndAnnouncedOnce
  <2>8. ASSUME NEW v \in Workers, HoldsEnd(proc'[v])
        PROVE  /\ proc'[v].snap = sessions'[proc'[v].req.id]
               /\ proc'[v].snap.status = "ended"
               /\ ~EndIn(published', proc'[v].req.id)
               /\ ~(reaper'.pc = "publish" /\ reaper'.cur = proc'[v].req.id)
               /\ \A u \in Workers \ {v} :
                     HoldsEnd(proc'[u]) => proc'[u].req.id # proc'[v].req.id
    BY <1>2, <2>3, <2>4, <2>5, <2>6, <2>8 DEF EndRights
  <2>9. \A v \in Workers : HoldsLive(proc'[v])
    BY <1>2 DEF EndRights
  <2>10. QED
    BY <1>2, <2>2, <2>3, <2>5, <2>7, <2>8, <2>9 DEF EndRights
<1>4. CASE /\ reaper' = [reaper EXCEPT !.todo = reaper.todo \ {id}]
           /\ sessions' = sessions
  <2>1. reaper'.pc # "publish"
    BY <1>2, <1>4 DEF SweepFrame
  <2>2. \A w \in Workers : HoldsLive(proc'[w])
    BY <1>2 DEF EndRights
  <2>3. QED
    BY <1>2, <1>4, <2>1, <2>2, EndRightsKept
<1>5. QED
  BY <1>1, <1>3, <1>4

\* Publish uses the right up.
LEMMA EndRightsPublishSession ==
    ASSUME TypeOK, LocalsOK, EndRights, NEW w \in Workers, PublishSession(w)
    PROVE  EndRights'
<1> DEFINE f == [proc[w] EXCEPT !.pc = IF Category(w) = "ingest" THEN "events" ELSE "reply"]
           id == proc[w].req.id
           m == SessionMessage(id, proc[w].snap)
<1>1. /\ Pc(w) = "publish" /\ proc[w] \in Frame /\ FrameOK(proc[w])
      /\ id \in SessionIds /\ HoldsLive(proc[w]) /\ proc[w].snap \in SessionRow
  BY BusyFrame DEF PublishSession, FrameOK, Pc, Id, EndRights, Frame
<1>2. /\ proc' = [proc EXCEPT ![w] = f] /\ published' = Append(published, m)
      /\ sessions' = sessions /\ reaper' = reaper
  BY DEF PublishSession, Id
<1>3. f.pc \in {"events", "reply"}
  BY <1>1 DEF Frame
<1>4. HoldsLive(f) /\ ~HoldsEnd(f)
  BY <1>3 DEF HoldsLive, HoldsEnd
<1>5. CASE proc[w].req.category # "ended"
  <2>1. m \in Message /\ m.event = "session" /\ m.row.status = "live"
    BY <1>1, <1>5 DEF SessionMessage, Message, HoldsLive, Pc
  <2>2. QED
    BY <1>2, <1>4, <2>1, EndRightsByWorker
<1>6. CASE proc[w].req.category = "ended"
  <2>1. HoldsEnd(proc[w])
    BY <1>1, <1>6 DEF HoldsEnd, Pc
  <2>2. /\ proc[w].snap = sessions[id] /\ proc[w].snap.status = "ended"
        /\ ~EndIn(published, id)
        /\ ~(reaper.pc = "publish" /\ reaper.cur = id)
        /\ \A v \in Workers \ {w} : HoldsEnd(proc[v]) => proc[v].req.id # id
    BY <2>1 DEF EndRights
  <2>3. /\ EndAnnouncedOnce'
        /\ \A other : other # id => (EndIn(published', other) <=> EndIn(published, other))
    BY <1>1, <1>2, <2>2, EndMessage DEF EndRights
  <2>4. \A v \in Workers : proc'[v] = IF v = w THEN f ELSE proc[v]
    BY <1>2 DEF TypeOK
  <2>5. \A v \in Workers : HoldsLive(proc'[v])
    BY <1>4, <2>4 DEF EndRights
  <2>6. \A v \in Workers : HoldsEnd(proc'[v]) => v # w /\ proc'[v] = proc[v]
    BY <1>4, <2>4
  <2>7. ASSUME NEW v \in Workers, HoldsEnd(proc'[v])
        PROVE  /\ proc'[v].snap = sessions'[proc'[v].req.id]
               /\ proc'[v].snap.status = "ended"
               /\ ~EndIn(published', proc'[v].req.id)
               /\ ~(reaper'.pc = "publish" /\ reaper'.cur = proc'[v].req.id)
               /\ \A u \in Workers \ {v} :
                     HoldsEnd(proc'[u]) => proc'[u].req.id # proc'[v].req.id
    BY <1>2, <2>2, <2>3, <2>6, <2>7 DEF EndRights
  <2>8. reaper'.pc = "publish" =>
          /\ reaper'.snap = sessions'[reaper'.cur]
          /\ reaper'.snap.status = "ended"
          /\ ~EndIn(published', reaper'.cur)
    BY <1>2, <2>2, <2>3 DEF EndRights
  <2>9. QED
    BY <2>3, <2>5, <2>7, <2>8 DEF EndRights
<1>7. QED
  BY <1>5, <1>6

LEMMA EndRightsPublishReaped ==
    ASSUME TypeOK, LocalsOK, EndRights, PublishReaped
    PROVE  EndRights'
<1> DEFINE id == reaper.cur
<1>1. /\ reaper.pc = "publish" /\ id \in SessionIds /\ reaper \in SweepFrame
      /\ reaper.snap = sessions[id] /\ reaper.snap.status = "ended"
      /\ reaper.snap \in SessionRow
      /\ ~EndIn(published, id)
  BY DEF PublishReaped, EndRights, LocalsOK, TypeOK, SweepFrame
<1>2. /\ published' = Append(published, SessionMessage(id, sessions[id]))
      /\ proc' = proc /\ sessions' = sessions /\ reaper'.pc = "end"
  BY <1>1 DEF PublishReaped, SweepFrame
<1>3. /\ EndAnnouncedOnce'
      /\ \A other : other # id => (EndIn(published', other) <=> EndIn(published, other))
  BY <1>1, <1>2, EndMessage DEF EndRights
<1>4. \A v \in Workers : HoldsEnd(proc[v]) => proc[v].req.id # id
  BY <1>1 DEF EndRights
<1>5. QED
  BY <1>2, <1>3, <1>4 DEF EndRights

LEMMA EndRightsPublishActivity ==
    ASSUME TypeOK, LocalsOK, EndRights, NEW w \in Workers, PublishActivity(w)
    PROVE  EndRights'
<1> DEFINE f == [proc[w] EXCEPT !.pc = "events", !.rest = Tail(proc[w].rest)]
           m == ActivityMessage(Id(w), proc[w].req.client, Head(proc[w].rest))
<1>1. /\ Pc(w) = "activity" /\ proc[w] \in Frame /\ proc[w].rest # <<>>
      /\ Id(w) \in SessionIds
  BY BusyFrame DEF PublishActivity, FrameOK, Pc
<1>2. m \in Message /\ m.event # "session"
  BY <1>1, BatchFrame DEF ActivityMessage, Message
<1>3. HoldsLive(f) /\ ~HoldsEnd(f)
  BY <1>1 DEF HoldsLive, HoldsEnd, Frame
<1>4. QED
  BY <1>2, <1>3, EndRightsByWorker DEF PublishActivity

LEMMA EndRightsInductive ==
    ASSUME TypeOK, LocalsOK, EndRights, [Next]_vars
    PROVE  EndRights'
<1>1. ASSUME NEW w \in Workers, Receive(w) \/ Statement(w) \/ RequestFails(w)
      PROVE  EndRights'
  BY <1>1, EndRightsReads, EndRightsInsertSession, EndRightsWebhook, EndRightsEndSession,
     EndRightsPublishSession, EndRightsPublishActivity DEF Statement
<1>2. ASSUME StartSweep \/ ListIdle \/ FinishSweep \/ SweepFails \/ Restart \/ Tick
               \/ UNCHANGED vars
      PROVE  EndRights'
  <2>1. proc' = proc \/ proc' = [w \in Workers |-> IdleFrame]
    BY <1>2 DEF StartSweep, ListIdle, FinishSweep, SweepFails, Restart, Tick, vars
  <2>2. HoldsLive(IdleFrame) /\ ~HoldsEnd(IdleFrame)
    BY DEF HoldsLive, HoldsEnd, IdleFrame
  <2>3. \A w \in Workers : HoldsLive(proc'[w]) /\ (HoldsEnd(proc'[w]) => proc' = proc)
    BY <2>1, <2>2 DEF EndRights
  <2>4. reaper'.pc = "publish" => reaper' = reaper
    BY <1>2, IdleReaperOK
       DEF StartSweep, ListIdle, FinishSweep, SweepFails, Restart, Tick, vars, TypeOK, SweepFrame
  <2>5. sessions' = sessions /\ published' = published
    BY <1>2 DEF StartSweep, ListIdle, FinishSweep, SweepFails, Restart, Tick, vars
  <2>6. QED
    BY <2>3, <2>4, <2>5, EndRightsKept
<1>3. QED
  BY <1>1, <1>2, EndRightsEndIdle, EndRightsPublishReaped DEF Next, Sweep

\* Whoever ends a session - the webhook, one of its retries, the reaper - its
\* end is announced at most once, with the row that will never change again.
THEOREM EndIsAnnouncedOnce == Spec => []EndAnnouncedOnce
<1>1. TypeOK /\ LocalsOK /\ EndRights /\ [Next]_vars => EndRights'
  BY EndRightsInductive
<1>2. EndRights => EndAnnouncedOnce
  BY DEF EndRights
<1>3. QED
  BY <1>1, <1>2, InitEndRights, LifecycleTypes, PTL DEF Spec

-----------------------------------------------------------------------------
(* The right to announce an event.  The INSERT that stores it gives it to    *)
(* one request; the unique constraint keeps every other request from it.     *)

Announcement(f) == ActivityMessage(f.req.id, f.req.client, Head(f.rest))

ActivityRights ==
    /\ \A w \in Workers : proc[w].pc = "activity" =>
          /\ IsStored(events, proc[w].req.id, proc[w].req.client, Head(proc[w].rest))
          /\ \A i \in DOMAIN published : published[i] # Announcement(proc[w])
          /\ \A v \in Workers \ {w} :
                proc[v].pc = "activity" => Announcement(proc[v]) # Announcement(proc[w])
    /\ ActivityAnnouncedOnce

LEMMA InitActivityRights == Init => ActivityRights
<1> SUFFICES ASSUME Init PROVE ActivityRights
  OBVIOUS
<1>1. \A w \in Workers : proc[w].pc # "activity"
  BY DEF Init, IdleFrame
<1>2. ActivityAnnouncedOnce
  BY EmptySeq DEF Init, ActivityAnnouncedOnce
<1>3. QED
  BY <1>1, <1>2 DEF ActivityRights

\* A step that stores and announces no event.
LEMMA ActivityRightsKept ==
    ASSUME TypeOK, ActivityRights, events' = events,
           \A w \in Workers : proc'[w].pc = "activity" => proc'[w] = proc[w],
           \/ published' = published
           \/ \E m \in Message : m.event = "session" /\ published' = Append(published, m)
    PROVE  ActivityRights'
<1>1. CASE published' = published
  BY <1>1 DEF ActivityRights, ActivityAnnouncedOnce
<1>2. CASE \E m \in Message : m.event = "session" /\ published' = Append(published, m)
  <2>1. PICK m \in Message : m.event = "session" /\ published' = Append(published, m)
    BY <1>2
  <2> DEFINE n == Len(published)
  <2>2. /\ n \in Nat
        /\ DOMAIN published = 1..n
        /\ DOMAIN published' = 1..(n + 1)
        /\ published'[n + 1] = m
        /\ \A i \in 1..n : published'[i] = published[i]
    BY <2>1, AppendProperties DEF TypeOK
  <2>3. ActivityAnnouncedOnce'
    <3> SUFFICES ASSUME NEW i \in 1..(n + 1), published'[i].event = "activity"
                 PROVE  /\ IsStored(events, published'[i].id, published'[i].client,
                                     published'[i].seq)
                        /\ \A j \in 1..(n + 1) : published'[j] = published'[i] => j = i
      BY <2>2 DEF ActivityAnnouncedOnce
    <3>1. m.event # "activity"
      BY <2>1
    <3>2. i \in 1..n /\ published'[i] = published[i]
      BY <2>2, <3>1
    <3>3. /\ IsStored(events, published[i].id, published[i].client, published[i].seq)
          /\ \A j \in 1..n : published[j] = published[i] => j = i
      BY <2>2, <3>2 DEF ActivityRights, ActivityAnnouncedOnce
    <3>4. QED
      BY <2>2, <3>1, <3>2, <3>3
  <2>4. \A w \in Workers : Announcement(proc[w]).event = "activity"
    BY DEF Announcement, ActivityMessage
  <2>5. ASSUME NEW w \in Workers, proc'[w].pc = "activity"
        PROVE  \A i \in DOMAIN published' : published'[i] # Announcement(proc'[w])
    <3>1. proc'[w] = proc[w] /\ proc[w].pc = "activity"
      BY <2>5
    <3>2. \A i \in 1..n : published[i] # Announcement(proc[w])
      BY <2>2, <3>1 DEF ActivityRights
    <3>3. m # Announcement(proc[w])
      BY <2>1, <2>4
    <3>4. QED
      BY <2>2, <3>1, <3>2, <3>3
  <2>6. QED
    BY <2>3, <2>5 DEF ActivityRights
<1>3. QED
  BY <1>1, <1>2

LEMMA ActivityRightsByWorker ==
    ASSUME TypeOK, ActivityRights, events' = events, NEW w \in Workers, NEW f,
           proc' = [proc EXCEPT ![w] = f], f.pc # "activity",
           \/ published' = published
           \/ \E m \in Message : m.event = "session" /\ published' = Append(published, m)
    PROVE  ActivityRights'
<1>1. \A v \in Workers : proc'[v] = IF v = w THEN f ELSE proc[v]
  BY DEF TypeOK
<1>2. QED
  BY <1>1, ActivityRightsKept

\* InsertEvent takes the right to an event nobody has stored yet.
LEMMA ActivityRightsInsertEvent ==
    ASSUME TypeOK, LocalsOK, ActivityRights, NEW w \in Workers, InsertEvent(w)
    PROVE  ActivityRights'
<1> DEFINE seq == Head(proc[w].rest)  client == proc[w].req.client  id == proc[w].req.id
<1>1. /\ Pc(w) = "events" /\ proc[w].rest # <<>> /\ proc[w] \in Frame
      /\ published' = published /\ Id(w) = id
  BY BusyFrame DEF InsertEvent, Id
<1>2. CASE /\ ~IsStored(events, id, client, seq)
           /\ events' = events \cup {[sid |-> id, client |-> client,
                                      seq |-> seq, receivedAt |-> now]}
           /\ proc' = [proc EXCEPT ![w].pc = "activity"]
  <2> DEFINE m == ActivityMessage(id, client, seq)
  <2>1. /\ \A v \in Workers \ {w} : proc'[v] = proc[v]
        /\ proc'[w].pc = "activity" /\ proc'[w].req = proc[w].req
        /\ proc'[w].rest = proc[w].rest
    BY <1>1, <1>2 DEF TypeOK, Frame
  <2>2. /\ \A a, b, c : IsStored(events, a, b, c) => IsStored(events', a, b, c)
        /\ IsStored(events', id, client, seq)
    <3> DEFINE e == [sid |-> id, client |-> client, seq |-> seq, receivedAt |-> now]
    <3>1. e \in events' /\ e.sid = id /\ e.client = client /\ e.seq = seq
      BY <1>2
    <3>2. events \subseteq events'
      BY <1>2
    <3>3. IsStored(events', id, client, seq)
      BY <3>1 DEF IsStored
    <3>4. \A a, b, c : IsStored(events, a, b, c) => IsStored(events', a, b, c)
      BY <3>2 DEF IsStored
    <3>5. QED
      BY <3>3, <3>4
  <2>3. Announcement(proc'[w]) = m
    BY <2>1 DEF Announcement
  <2>4. \A i \in DOMAIN published : published[i] # m
    <3>1. m.event = "activity" /\ m.id = id /\ m.client = client /\ m.seq = seq
      BY DEF ActivityMessage
    <3>2. QED
      BY <1>2, <3>1 DEF ActivityRights, ActivityAnnouncedOnce
  <2>5. \A v \in Workers \ {w} : proc[v].pc = "activity" => Announcement(proc[v]) # m
    <3>1. \A v \in Workers :
            /\ Announcement(proc[v]).id = proc[v].req.id
            /\ Announcement(proc[v]).client = proc[v].req.client
            /\ Announcement(proc[v]).seq = Head(proc[v].rest)
      BY DEF Announcement, ActivityMessage
    <3>2. m.id = id /\ m.client = client /\ m.seq = seq
      BY DEF ActivityMessage
    <3>3. QED
      BY <1>2, <3>1, <3>2 DEF ActivityRights
  <2>6. ASSUME NEW v \in Workers, proc'[v].pc = "activity"
        PROVE  /\ IsStored(events', proc'[v].req.id, proc'[v].req.client, Head(proc'[v].rest))
               /\ \A i \in DOMAIN published' : published'[i] # Announcement(proc'[v])
               /\ \A u \in Workers \ {v} :
                     proc'[u].pc = "activity" => Announcement(proc'[u]) # Announcement(proc'[v])
    <3>1. CASE v = w
      BY <1>1, <2>1, <2>2, <2>3, <2>4, <2>5, <3>1
    <3>2. CASE v # w
      BY <1>1, <2>1, <2>2, <2>3, <2>5, <2>6, <3>2 DEF ActivityRights
    <3>3. QED
      BY <3>1, <3>2
  <2>7. ActivityAnnouncedOnce'
    BY <1>1, <2>2 DEF ActivityRights, ActivityAnnouncedOnce
  <2>8. QED
    BY <2>6, <2>7 DEF ActivityRights
<1>3. CASE events' = events /\ proc' = [proc EXCEPT ![w].rest = Tail(@)]
  <2> DEFINE f == [proc[w] EXCEPT !.rest = Tail(proc[w].rest)]
  <2>1. f.pc # "activity" /\ proc' = [proc EXCEPT ![w] = f]
    BY <1>1, <1>3 DEF Frame, Pc
  <2>2. QED
    BY <1>1, <1>3, <2>1, ActivityRightsByWorker
<1>4. QED
  BY <1>2, <1>3 DEF InsertEvent, Id

\* Publish uses the right up.
LEMMA ActivityRightsPublish ==
    ASSUME TypeOK, LocalsOK, ActivityRights, NEW w \in Workers, PublishActivity(w)
    PROVE  ActivityRights'
<1> DEFINE f == [proc[w] EXCEPT !.pc = "events", !.rest = Tail(proc[w].rest)]
           m == Announcement(proc[w])
           n == Len(published)
<1>1. /\ Pc(w) = "activity" /\ proc[w] \in Frame /\ FrameOK(proc[w])
      /\ proc[w].rest # <<>> /\ Id(w) \in SessionIds
  BY BusyFrame DEF PublishActivity, FrameOK, Pc
<1>2. /\ proc' = [proc EXCEPT ![w] = f] /\ published' = Append(published, m)
      /\ events' = events
  BY DEF PublishActivity, Announcement, Id
<1>3. m \in Message
  BY <1>1, BatchFrame DEF Announcement, ActivityMessage, Message, Id
<1>4. /\ n \in Nat
      /\ DOMAIN published = 1..n
      /\ DOMAIN published' = 1..(n + 1)
      /\ published'[n + 1] = m
      /\ \A i \in 1..n : published'[i] = published[i]
  BY <1>2, <1>3, AppendProperties DEF TypeOK
<1>5. /\ IsStored(events, m.id, m.client, m.seq)
      /\ \A i \in 1..n : published[i] # m
  BY <1>1, <1>4 DEF ActivityRights, Announcement, ActivityMessage, Pc
<1>6. ActivityAnnouncedOnce'
  <2> SUFFICES ASSUME NEW i \in 1..(n + 1), published'[i].event = "activity"
               PROVE  /\ IsStored(events, published'[i].id, published'[i].client,
                                   published'[i].seq)
                      /\ \A j \in 1..(n + 1) : published'[j] = published'[i] => j = i
    BY <1>2, <1>4 DEF ActivityAnnouncedOnce
  <2>1. CASE i = n + 1
    BY <1>4, <1>5, <2>1
  <2>2. CASE i \in 1..n
    <3>1. /\ IsStored(events, published[i].id, published[i].client, published[i].seq)
          /\ \A j \in 1..n : published[j] = published[i] => j = i
      BY <1>4, <2>2 DEF ActivityRights, ActivityAnnouncedOnce
    <3>2. QED
      BY <1>4, <1>5, <2>2, <3>1
  <2>3. QED
    BY <1>4, <2>1, <2>2
<1>7. \A v \in Workers : proc'[v].pc = "activity" => v # w /\ proc'[v] = proc[v]
  BY <1>1, <1>2 DEF TypeOK, Frame
<1>8. ASSUME NEW v \in Workers, proc'[v].pc = "activity"
      PROVE  /\ IsStored(events', proc'[v].req.id, proc'[v].req.client, Head(proc'[v].rest))
             /\ \A i \in DOMAIN published' : published'[i] # Announcement(proc'[v])
             /\ \A u \in Workers \ {v} :
                   proc'[u].pc = "activity" => Announcement(proc'[u]) # Announcement(proc'[v])
  <2>1. v # w /\ proc'[v] = proc[v] /\ proc[w].pc = "activity"
    BY <1>1, <1>7, <1>8 DEF Pc
  <2>2. Announcement(proc[v]) # m
    BY <1>8, <2>1 DEF ActivityRights
  <2>3. QED
    BY <1>2, <1>4, <1>7, <1>8, <2>1, <2>2 DEF ActivityRights
<1>9. QED
  BY <1>6, <1>8 DEF ActivityRights

LEMMA ActivityRightsInductive ==
    ASSUME TypeOK, LocalsOK, ActivityRights, [Next]_vars
    PROVE  ActivityRights'
<1>1. ASSUME NEW w \in Workers,
             \/ Receive(w) \/ ReadForLeft(w) \/ InsertSession(w) \/ InsertConflict(w)
             \/ GetExisting(w) \/ EnrichSession(w) \/ SetParticipantCount(w)
             \/ EndSession(w) \/ FinishBatch(w) \/ Respond(w) \/ RequestFails(w)
      PROVE  ActivityRights'
  <2>1. events' = events /\ published' = published
    BY <1>1 DEF Receive, ReadForLeft, InsertSession, InsertConflict, GetExisting,
       EnrichSession, SetParticipantCount, EndSession, Update, FinishBatch, Respond,
       RequestFails
  <2>2. proc \in [Workers -> Frame]
    BY DEF TypeOK
  <2>3. (\A v \in Workers \ {w} : proc'[v] = proc[v]) /\ proc'[w].pc # "activity"
    <3>1. CASE Receive(w)
      BY <2>2, <3>1 DEF Receive, FirstStep, IdleFrame
    <3>2. CASE ReadForLeft(w)
      BY <2>2, <3>2 DEF ReadForLeft, Frame
    <3>3. CASE InsertSession(w)
      BY <2>2, <3>3 DEF InsertSession, AfterFindOrCreate, Frame
    <3>4. CASE InsertConflict(w) \/ GetExisting(w)
      BY <2>2, <3>4 DEF InsertConflict, GetExisting, AfterFindOrCreate, Frame
    <3>5. CASE EnrichSession(w) \/ SetParticipantCount(w) \/ EndSession(w)
      BY <2>2, <3>5 DEF EnrichSession, SetParticipantCount, EndSession, Update, Frame
    <3>6. CASE FinishBatch(w) \/ Respond(w) \/ RequestFails(w)
      BY <2>2, <3>6 DEF FinishBatch, Respond, RequestFails, IdleFrame, Frame
    <3>7. QED
      BY <1>1, <3>1, <3>2, <3>3, <3>4, <3>5, <3>6
  <2>4. QED
    BY <2>1, <2>3, ActivityRightsKept
<1>2. ASSUME NEW w \in Workers, PublishSession(w)
      PROVE  ActivityRights'
  <2>1. proc[w] \in Frame /\ proc[w].snap \in SessionRow /\ Id(w) \in SessionIds
    BY <1>2, BusyFrame DEF PublishSession, FrameOK, Frame, Pc
  <2>2. /\ SessionMessage(Id(w), proc[w].snap) \in Message
        /\ SessionMessage(Id(w), proc[w].snap).event = "session"
    BY <2>1 DEF SessionMessage, Message
  <2>3. (\A v \in Workers \ {w} : proc'[v] = proc[v]) /\ proc'[w].pc # "activity"
    BY <1>2, <2>1 DEF PublishSession, TypeOK, Frame
  <2>4. QED
    BY <1>2, <2>2, <2>3, ActivityRightsKept DEF PublishSession
<1>3. CASE Sweep \/ SweepFails \/ Restart \/ Tick \/ UNCHANGED vars
  <2>1. events' = events
    BY <1>3 DEF Sweep, StartSweep, ListIdle, EndIdle, PublishReaped, FinishSweep, SweepFails,
       Restart, Tick, vars
  <2>2. proc' = proc \/ proc' = [w \in Workers |-> IdleFrame]
    BY <1>3 DEF Sweep, StartSweep, ListIdle, EndIdle, PublishReaped, FinishSweep, SweepFails,
       Restart, Tick, vars
  <2>3. \A w \in Workers : proc'[w].pc = "activity" => proc'[w] = proc[w]
    BY <2>2 DEF IdleFrame
  <2>4. \/ published' = published
        \/ \E m \in Message : m.event = "session" /\ published' = Append(published, m)
    <3>1. CASE PublishReaped
      <4>1. reaper.cur \in SessionIds /\ reaper.snap \in SessionRow
        BY <3>1 DEF PublishReaped, LocalsOK, TypeOK, SweepFrame
      <4>2. /\ SessionMessage(reaper.cur, reaper.snap) \in Message
            /\ SessionMessage(reaper.cur, reaper.snap).event = "session"
        BY <4>1 DEF SessionMessage, Message
      <4>3. QED
        BY <3>1, <4>2 DEF PublishReaped
    <3>2. CASE ~PublishReaped
      BY <1>3, <3>2 DEF Sweep, StartSweep, ListIdle, EndIdle, FinishSweep, SweepFails,
         Restart, Tick, vars
    <3>3. QED
      BY <3>1, <3>2
  <2>5. QED
    BY <2>1, <2>3, <2>4, ActivityRightsKept
<1>4. QED
  BY <1>1, <1>2, <1>3, ActivityRightsInsertEvent, ActivityRightsPublish DEF Next, Statement

\* However many copies of a batch are handled at once, a stored event is
\* announced at most once, and nothing is announced that is not stored.
THEOREM ActivityIsAnnouncedOnce == Spec => []ActivityAnnouncedOnce
<1>1. TypeOK /\ LocalsOK /\ ActivityRights /\ [Next]_vars => ActivityRights'
  BY ActivityRightsInductive
<1>2. ActivityRights => ActivityAnnouncedOnce
  BY DEF ActivityRights
<1>3. QED
  BY <1>1, <1>2, InitActivityRights, LifecycleTypes, PTL DEF Spec
=============================================================================
