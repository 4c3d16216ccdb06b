------------------------ MODULE LifecycleRefinement -------------------------
(***************************************************************************)
(* Proofs about Lifecycle.tla, continued: what the two tables promise the  *)
(* requests that are half way through them.  A row only moves forward and  *)
(* an event is never removed, so what a request has learnt from one        *)
(* statement still bounds what it finds in the next: a webhook is applied  *)
(* or superseded, a batch that was answered is stored, and every step is   *)
(* one that SessionTable.tla allows.  The last two parts keep accounts of  *)
(* the announcements: a write entitles its goroutine to one Publish        *)
(* (WritesBalanced), and without faults it also makes that call            *)
(* (RowsAnnounced, EventsAnnounced).                                       *)
(***************************************************************************)
EXTENDS LifecycleProofs, FiniteSetTheorems

(* How a statement may change a row and the event log. *)

\* Row s may stand where row r stood: rows are kept, take webhooks in
\* increasing order, start anew only with one and never change once ended.
Follows(r, s) ==
    r # NoRow => /\ s # NoRow
                 /\ r.lastWebhookSeq <= s.lastWebhookSeq
                 /\ r.lastWebhookSeq = s.lastWebhookSeq => r.startedAt = s.startedAt
                 /\ r.status = "ended" => s = r

RowsFollow == \A id \in SessionIds : Follows(sessions[id], sessions'[id])

\* The guarded UPDATEs move a row forward.
LEMMA UpdatesFollow ==
    ASSUME NEW row \in SessionRow, row.status = "live", NEW at, NEW count, NEW seq \in Int
    PROVE  /\ row.lastWebhookSeq < seq => /\ Follows(row, Enriched(row, at, count, seq))
                                         /\ Follows(row, WithCount(row, count, seq))
           /\ Ended(row, at, seq) # NoRow => Follows(row, Ended(row, at, seq))
<1>1. /\ row.lastWebhookSeq \in Int
      /\ Enriched(row, at, count, seq).lastWebhookSeq = seq
      /\ WithCount(row, count, seq).lastWebhookSeq = seq
      /\ row.lastWebhookSeq <= Ended(row, at, seq).lastWebhookSeq
      /\ row.startedAt = Ended(row, at, seq).startedAt
  BY DEF SessionRow, Enriched, WithCount, Ended
<1>2. /\ Enriched(row, at, count, seq).status = "live"
      /\ WithCount(row, count, seq).status = "live"
  BY DEF SessionRow, Enriched, WithCount
<1>3. NoRow.status = "absent"
  BY DEF NoRow
<1>4. QED
  BY <1>1, <1>2, <1>3 DEF Follows

LEMMA RowFollowsItself ==
    ASSUME TypeOK, NEW id \in SessionIds
    PROVE  Follows(sessions[id], sessions[id])
BY DEF TypeOK, SessionRow, Follows

\* One row moves forward, the others stay.
LEMMA OneRowFollows ==
    ASSUME TypeOK, NEW id \in SessionIds, NEW row, Follows(sessions[id], row),
           sessions' = [sessions EXCEPT ![id] = row]
    PROVE  RowsFollow
BY RowFollowsItself DEF RowsFollow, TypeOK

\* What Update does to the table, whatever row it writes.
LEMMA UpdateWrites ==
    ASSUME NEW w \in Workers, NEW accepts \in BOOLEAN, NEW row, Update(w, accepts, row)
    PROVE  \/ accepts /\ sessions' = [sessions EXCEPT ![Id(w)] = row]
           \/ sessions' = sessions
BY DEF Update

LEMMA WebhookRowsFollow ==
    ASSUME TypeOK, LocalsOK, NEW w \in Workers,
           EnrichSession(w) \/ SetParticipantCount(w) \/ EndSession(w)
    PROVE  RowsFollow
<1> DEFINE row == sessions[Id(w)]  seq == proc[w].req.seq
<1>1. Id(w) \in SessionIds /\ seq \in Int /\ (row.status = "live" => row \in SessionRow)
  BY BusyFrame, WebhookRows DEF EnrichSession, SetParticipantCount, EndSession
<1>2. \/ sessions' = sessions
      \/ \E new : /\ sessions' = [sessions EXCEPT ![Id(w)] = new]
                  /\ Follows(row, new)
  <2>1. CASE EnrichSession(w)
    BY <1>1, <2>1, UpdateWrites, UpdatesFollow DEF EnrichSession, AcceptsWebhook
  <2>2. CASE SetParticipantCount(w)
    BY <1>1, <2>2, UpdateWrites, UpdatesFollow DEF SetParticipantCount, AcceptsWebhook
  <2>3. CASE EndSession(w)
    <3> DEFINE new == Ended(row, proc[w].req.at, seq)
    <3>1. CASE AcceptsEnd(row, seq) /\ sessions' = [sessions EXCEPT ![Id(w)] = new]
      <4>1. new # NoRow
        BY <2>3, <3>1, WebhookRows, RowKinds DEF EndSession, AcceptsEnd
      <4>2. QED
        BY <1>1, <3>1, <4>1, UpdatesFollow DEF AcceptsEnd
    <3>2. Update(w, AcceptsEnd(row, seq), new) /\ AcceptsEnd(row, seq) \in BOOLEAN
      BY <2>3 DEF EndSession, AcceptsEnd
    <3>3. QED
      BY <3>1, <3>2, UpdateWrites
  <2>4. QED
    BY <2>1, <2>2, <2>3
<1>3. QED
  BY <1>1, <1>2, OneRowFollows, RowFollowsItself DEF RowsFollow

LEMMA ReapedRowFollows ==
    ASSUME TypeOK, EndIdle
    PROVE  RowsFollow
<1>1. PICK id \in reaper.todo :
        \/ /\ AcceptsEnd(sessions[id], 0)
           /\ sessions' = [sessions EXCEPT ![id] = Ended(sessions[id], reaper.at, 0)]
        \/ sessions' = sessions
  BY DEF EndIdle
<1>2. reaper \in SweepFrame /\ id \in SessionIds
  BY DEF TypeOK, SweepFrame
<1>3. CASE /\ AcceptsEnd(sessions[id], 0)
           /\ sessions' = [sessions EXCEPT ![id] = Ended(sessions[id], reaper.at, 0)]
  <2>1. sessions[id].status = "live" /\ sessions[id] \in SessionRow
    BY <1>2, <1>3, RowKinds DEF AcceptsEnd, TypeOK
  <2>2. Ended(sessions[id], reaper.at, 0) # NoRow
    <3>1. reaper.at \in Nat
      BY <1>2 DEF SweepFrame
    <3>2. Ended(sessions[id], reaper.at, 0) \in SessionRow
      BY <2>1, <3>1, EndedRowType
    <3>3. QED
      BY <3>2, RowKinds
  <2>3. Follows(sessions[id], Ended(sessions[id], reaper.at, 0))
    BY <2>1, <2>2, UpdatesFollow
  <2>4. QED
    BY <1>2, <1>3, <2>3, OneRowFollows
<1>4. QED
  BY <1>1, <1>3, RowFollowsItself DEF RowsFollow

\* Every step of the system moves every row forward or leaves it, and keeps
\* every event.
LEMMA TablesOnlyGrow ==
    ASSUME TypeOK, LocalsOK, [Next]_vars
    PROVE  RowsFollow /\ events \subseteq events'
<1>1. ASSUME NEW w \in Workers, InsertSession(w)
      PROVE  RowsFollow
  <2>1. Id(w) \in SessionIds
    BY <1>1, BusyFrame DEF InsertSession
  <2>2. QED
    BY <1>1, <2>1, OneRowFollows DEF InsertSession, Follows
<1>2. ASSUME NEW w \in Workers,
             EnrichSession(w) \/ SetParticipantCount(w) \/ EndSession(w)
      PROVE  RowsFollow
  BY <1>2, WebhookRowsFollow
<1>3. ASSUME EndIdle PROVE RowsFollow
  BY <1>3, ReapedRowFollows
<1>4. ASSUME NEW w \in Workers,
             \/ Receive(w) \/ ReadForLeft(w) \/ InsertConflict(w) \/ GetExisting(w)
             \/ InsertEvent(w) \/ FinishBatch(w) \/ PublishSession(w)
             \/ PublishActivity(w) \/ Respond(w) \/ RequestFails(w)
      PROVE  sessions' = sessions
  BY <1>4 DEF Receive, ReadForLeft, InsertConflict, GetExisting, InsertEvent, FinishBatch,
     PublishSession, PublishActivity, Respond, RequestFails
<1>5. ASSUME \/ StartSweep \/ ListIdle \/ PublishReaped \/ FinishSweep \/ SweepFails
             \/ Restart \/ Tick \/ UNCHANGED vars
      PROVE  sessions' = sessions
  BY <1>5 DEF StartSweep, ListIdle, PublishReaped, FinishSweep, SweepFails, Restart, Tick, vars
<1>6. RowsFollow
  BY <1>1, <1>2, <1>3, <1>4, <1>5, RowFollowsItself DEF RowsFollow, Next, Statement, Sweep
<1>7. events \subseteq events'
  BY DEF Next, Statement, Sweep, Receive, ReadForLeft, InsertSession, InsertConflict,
     GetExisting, EnrichSession, SetParticipantCount, EndSession, Update, InsertEvent,
     FinishBatch, PublishSession, PublishActivity, Respond, RequestFails, StartSweep,
     ListIdle, EndIdle, PublishReaped, FinishSweep, SweepFails, Restart, Tick, vars
<1>8. QED
  BY <1>6, <1>7

-----------------------------------------------------------------------------
(* What a request knows of the row of its session. *)

\* The announcement of a live row may be late, never ahead of the row.
HeldRow(f, tbl) ==
    /\ f.pc \in {"get", "enrich", "count", "publish", "events", "activity"} =>
          tbl[f.req.id] # NoRow
    /\ (f.pc = "publish" \/ f.inserted) =>
          /\ tbl[f.req.id] # NoRow
          /\ f.snap.lastWebhookSeq <= tbl[f.req.id].lastWebhookSeq

\* A webhook whose UPDATE has run is applied, or a later one is, or the session is over.
AppliedOrSuperseded(f, tbl) ==
    (f.pc \in {"publish", "reply"} /\ f.req.category \in {"started", "joined"}) =>
        /\ tbl[f.req.id] # NoRow
        /\ tbl[f.req.id].status = "ended" \/ tbl[f.req.id].lastWebhookSeq >= f.req.seq

\* A live row has no end yet.
LiveRowsOpen ==
    \A id \in SessionIds : sessions[id].status = "live" => sessions[id].endedAt = NoTime

RowsHeld ==
    /\ \A w \in Workers : HeldRow(proc[w], sessions) /\ AppliedOrSuperseded(proc[w], sessions)
    /\ LiveRowsOpen

LEMMA InitRowsHeld == Init => RowsHeld
<1>1. HeldRow(IdleFrame, sessions) /\ AppliedOrSuperseded(IdleFrame, sessions)
  BY DEF IdleFrame, HeldRow, AppliedOrSuperseded
<1>2. NoRow.status # "live"
  BY DEF NoRow
<1>3. QED
  BY <1>1, <1>2 DEF Init, NoRows, RowsHeld, LiveRowsOpen

\* A step of somebody else, or of the table alone, takes nothing from a request.
LEMMA HeldRowStays ==
    ASSUME TypeOK, TypeOK', LocalsOK, RowsFollow, NEW w \in Workers,
           HeldRow(proc[w], sessions), AppliedOrSuperseded(proc[w], sessions)
    PROVE  HeldRow(proc[w], sessions') /\ AppliedOrSuperseded(proc[w], sessions')
<1> DEFINE id == proc[w].req.id
<1>1. CASE Pc(w) = "idle"
  BY <1>1 DEF LocalsOK, FrameOK, HeldRow, AppliedOrSuperseded, Pc
<1>2. CASE Pc(w) # "idle"
  <2>1. id \in SessionIds /\ proc[w] \in Frame
    BY <1>2, BusyFrame DEF Id
  <2>2. /\ sessions[id] \in SessionRow \cup {NoRow}
        /\ sessions'[id] \in SessionRow \cup {NoRow}
        /\ Follows(sessions[id], sessions'[id])
    BY <2>1 DEF TypeOK, RowsFollow
  <2>3. sessions[id] # NoRow => /\ sessions[id].lastWebhookSeq \in Int
                               /\ sessions'[id].lastWebhookSeq \in Int
    BY <2>2 DEF SessionRow, Follows
  <2>4. HeldRow(proc[w], sessions')
    <3>1. (Pc(w) = "publish" \/ proc[w].inserted) => proc[w].snap.lastWebhookSeq \in Int
      BY <2>1 DEF LocalsOK, FrameOK, Frame, SessionRow, Pc
    <3>2. QED
      BY <2>2, <2>3, <3>1 DEF HeldRow, Follows, Pc
  <2>5. AppliedOrSuperseded(proc[w], sessions')
    <3>1. Category(w) \in {"started", "joined"} => proc[w].req.seq \in Int
      BY <1>2, BusyFrame, WebhookFields DEF Category
    <3>2. QED
      BY <2>2, <2>3, <3>1 DEF AppliedOrSuperseded, Follows, Category
  <2>6. QED
    BY <2>4, <2>5
<1>3. QED
  BY <1>1, <1>2

\* A request moves to a frame that is right about the table as it is then.
LEMMA HeldRowStep ==
    ASSUME TypeOK, TypeOK', LocalsOK, RowsFollow, RowsHeld, NEW w \in Workers, NEW f,
           proc' = [proc EXCEPT ![w] = f],
           HeldRow(f, sessions'), AppliedOrSuperseded(f, sessions')
    PROVE  \A v \in Workers : HeldRow(proc'[v], sessions') /\ AppliedOrSuperseded(proc'[v], sessions')
<1>1. \A v \in Workers : proc'[v] = IF v = w THEN f ELSE proc[v]
  BY DEF TypeOK
<1>2. \A v \in Workers : HeldRow(proc[v], sessions') /\ AppliedOrSuperseded(proc[v], sessions')
  BY HeldRowStays DEF RowsHeld
<1>3. QED
  BY <1>1, <1>2

\* The steps of a request that leave the table alone.
LEMMA HeldRowReads ==
    ASSUME TypeOK, TypeOK', LocalsOK, RowsFollow, RowsHeld, NEW w \in Workers,
           sessions' = sessions,
           \/ Receive(w) \/ ReadForLeft(w) \/ InsertConflict(w) \/ GetExisting(w)
           \/ InsertEvent(w) \/ FinishBatch(w) \/ PublishSession(w)
           \/ PublishActivity(w) \/ Respond(w) \/ RequestFails(w)
    PROVE  \A v \in Workers : HeldRow(proc'[v], sessions') /\ AppliedOrSuperseded(proc'[v], sessions')
<1>0. /\ proc[w] \in Frame /\ FrameOK(proc[w])
      /\ HeldRow(proc[w], sessions) /\ AppliedOrSuperseded(proc[w], sessions)
  BY DEF TypeOK, LocalsOK, RowsHeld
<1>1. CASE Receive(w)
  <2>1. PICK r \in Requests :
          proc' = [proc EXCEPT ![w] =
                     [IdleFrame EXCEPT
                        !.pc = FirstStep(r.category),
                        !.req = r,
                        !.at = StartTime(r),
                        !.count = IF r.category \in {"started", "joined"} THEN r.count ELSE 0,
                        !.rest = IF r.category = "ingest" THEN r.events ELSE <<>>]]
    BY <1>1 DEF Receive
  <2> DEFINE f == [IdleFrame EXCEPT
                        !.pc = FirstStep(r.category),
                        !.req = r,
                        !.at = StartTime(r),
                        !.count = IF r.category \in {"started", "joined"} THEN r.count ELSE 0,
                        !.rest = IF r.category = "ingest" THEN r.events ELSE <<>>]
  <2>2. HeldRow(f, sessions) /\ AppliedOrSuperseded(f, sessions)
    BY DEF HeldRow, AppliedOrSuperseded, FirstStep, IdleFrame
  <2>3. QED
    BY <2>1, <2>2, HeldRowStep
<1>2. CASE ReadForLeft(w)
  <2>1. PICK pc \in {"reply", "insert"},
             count \in {proc[w].count, Decremented(sessions[Id(w)].participantCount)} :
          proc' = [proc EXCEPT ![w] = [proc[w] EXCEPT !.pc = pc, !.count = count]]
    <3>1. CASE sessions[Id(w)] = NoRow
      <4>1. proc' = [proc EXCEPT ![w] = [proc[w] EXCEPT !.pc = "reply", !.count = proc[w].count]]
        BY <1>0, <1>2, <3>1 DEF ReadForLeft, Frame
      <4>2. QED
        BY <4>1
    <3>2. CASE sessions[Id(w)] # NoRow
      BY <1>2, <3>2 DEF ReadForLeft
    <3>3. QED
      BY <3>1, <3>2
  <2> DEFINE f == [proc[w] EXCEPT !.pc = pc, !.count = count]
  <2>2. HeldRow(f, sessions) /\ AppliedOrSuperseded(f, sessions)
    BY <1>0, <1>2 DEF ReadForLeft, HeldRow, AppliedOrSuperseded, Frame, FrameOK, Pc
  <2>3. QED
    BY <2>1, <2>2, HeldRowStep
<1>3. CASE InsertConflict(w)
  <2> DEFINE f == [proc[w] EXCEPT !.pc = "get"]
  <2>1. HeldRow(f, sessions) /\ AppliedOrSuperseded(f, sessions)
    BY <1>0, <1>3 DEF InsertConflict, HeldRow, AppliedOrSuperseded, Frame, FrameOK, Pc, Id
  <2>2. proc' = [proc EXCEPT ![w] = f]
    BY <1>3 DEF InsertConflict
  <2>3. QED
    BY <2>1, <2>2, HeldRowStep
<1>4. CASE GetExisting(w)
  <2> DEFINE f == [proc[w] EXCEPT !.pc = AfterFindOrCreate(Category(w), FALSE),
                                  !.snap = sessions[Id(w)]]
  <2>1. f.pc \in {"enrich", "count", "events"} /\ ~f.inserted /\ f.req = proc[w].req
    BY <1>0, <1>4 DEF GetExisting, AfterFindOrCreate, Frame, FrameOK, Pc
  <2>2. HeldRow(f, sessions) /\ AppliedOrSuperseded(f, sessions)
    BY <1>0, <1>4, <2>1 DEF GetExisting, HeldRow, AppliedOrSuperseded, Pc
  <2>3. proc' = [proc EXCEPT ![w] = f]
    BY <1>4 DEF GetExisting
  <2>4. QED
    BY <2>2, <2>3, HeldRowStep
<1>5. CASE InsertEvent(w) \/ FinishBatch(w) \/ PublishActivity(w)
  <2> DEFINE f == [proc[w] EXCEPT !.pc = "activity"]
             g == [proc[w] EXCEPT !.rest = Tail(proc[w].rest)]
             h == [proc[w] EXCEPT !.pc = "reply"]
             k == [proc[w] EXCEPT !.pc = "events", !.rest = Tail(proc[w].rest)]
  <2>1. \/ proc' = [proc EXCEPT ![w] = f]
        \/ proc' = [proc EXCEPT ![w] = g]
        \/ proc' = [proc EXCEPT ![w] = h]
        \/ proc' = [proc EXCEPT ![w] = k]
    BY <1>5 DEF InsertEvent, FinishBatch, PublishActivity
  <2>2. Pc(w) \in {"events", "activity"} /\ Category(w) = "ingest"
    BY <1>0, <1>5 DEF InsertEvent, FinishBatch, PublishActivity, FrameOK, Pc, Category
  <2>3. /\ HeldRow(f, sessions) /\ AppliedOrSuperseded(f, sessions)
        /\ HeldRow(g, sessions) /\ AppliedOrSuperseded(g, sessions)
        /\ HeldRow(h, sessions) /\ AppliedOrSuperseded(h, sessions)
        /\ HeldRow(k, sessions) /\ AppliedOrSuperseded(k, sessions)
    BY <1>0, <2>2 DEF HeldRow, AppliedOrSuperseded, Frame, FrameOK, Pc, Category
  <2>4. QED
    BY <2>1, <2>3, HeldRowStep
<1>6. CASE PublishSession(w)
  <2> DEFINE f == [proc[w] EXCEPT !.pc = IF Category(w) = "ingest" THEN "events" ELSE "reply"]
  <2>1. HeldRow(f, sessions) /\ AppliedOrSuperseded(f, sessions)
    BY <1>0, <1>6 DEF PublishSession, HeldRow, AppliedOrSuperseded, Frame, Pc, Category
  <2>2. proc' = [proc EXCEPT ![w] = f]
    BY <1>6 DEF PublishSession
  <2>3. QED
    BY <2>1, <2>2, HeldRowStep
<1>7. CASE Respond(w) \/ RequestFails(w)
  <2>1. HeldRow(IdleFrame, sessions) /\ AppliedOrSuperseded(IdleFrame, sessions)
    BY DEF IdleFrame, HeldRow, AppliedOrSuperseded
  <2>2. QED
    BY <1>7, <2>1, HeldRowStep DEF Respond, RequestFails
<1>8. QED
  BY <1>1, <1>2, <1>3, <1>4, <1>5, <1>6, <1>7

LEMMA RowsHeldInsertSession ==
    ASSUME TypeOK, TypeOK', LocalsOK, RowsFollow, RowsHeld, NEW w \in Workers, InsertSession(w)
    PROVE  RowsHeld'
<1> DEFINE row == LiveRow(proc[w].at, SourceOf(Category(w)))
           f == [proc[w] EXCEPT !.pc = AfterFindOrCreate(Category(w), TRUE),
                                !.snap = row, !.inserted = TRUE]
<1>1. /\ proc[w] \in Frame /\ FrameOK(proc[w]) /\ Id(w) \in SessionIds
  BY BusyFrame DEF InsertSession
<1>2. sessions' = [sessions EXCEPT ![Id(w)] = row] /\ proc' = [proc EXCEPT ![w] = f]
  BY DEF InsertSession
<1>3. sessions'[Id(w)] = row /\ row # NoRow /\ row.lastWebhookSeq <= row.lastWebhookSeq
  BY <1>1, <1>2 DEF TypeOK, LiveRow, NoRow
<1>4. f.req = proc[w].req /\ f.snap = row /\ f.pc = AfterFindOrCreate(Category(w), TRUE)
  BY <1>1 DEF Frame
<1>5. HeldRow(f, sessions')
  BY <1>3, <1>4 DEF HeldRow, Id
<1>6. AppliedOrSuperseded(f, sessions')
  BY <1>4 DEF AppliedOrSuperseded, AfterFindOrCreate, Category
<1>7. \A v \in Workers : HeldRow(proc'[v], sessions') /\ AppliedOrSuperseded(proc'[v], sessions')
  BY <1>2, <1>5, <1>6, HeldRowStep
<1>8. LiveRowsOpen'
  BY <1>1, <1>2 DEF RowsHeld, LiveRowsOpen, LiveRow, TypeOK
<1>9. QED
  BY <1>7, <1>8 DEF RowsHeld

\* The three guarded UPDATEs: what holds of a row that accepted or refused.
LEMMA RowsHeldUpdate ==
    ASSUME TypeOK, TypeOK', LocalsOK, RowsFollow, RowsHeld, NEW w \in Workers,
           Pc(w) \in {"enrich", "count", "end"},
           NEW accepts \in BOOLEAN, NEW row, Update(w, accepts, row),
           accepts => /\ row \in SessionRow
                      /\ row.status = "live" => row.endedAt = NoTime
                      /\ Category(w) \in {"started", "joined"} =>
                            row.lastWebhookSeq = proc[w].req.seq,
           ~accepts /\ Category(w) \in {"started", "joined"} =>
                \/ sessions[Id(w)].status # "live"
                \/ sessions[Id(w)].lastWebhookSeq >= proc[w].req.seq
    PROVE  RowsHeld'
<1>1. /\ proc[w] \in Frame /\ FrameOK(proc[w]) /\ Id(w) \in SessionIds
      /\ HeldRow(proc[w], sessions)
      /\ proc[w].req \in Webhooks
  BY BusyFrame DEF RowsHeld, FrameOK, Category, Pc
<1>2. proc[w].req.seq \in Int
  BY <1>1, WebhookFields
<1>3. CASE /\ accepts
           /\ sessions' = [sessions EXCEPT ![Id(w)] = row]
           /\ proc' = [proc EXCEPT ![w].pc = "publish", ![w].snap = row]
  <2> DEFINE f == [proc[w] EXCEPT !.pc = "publish", !.snap = row]
  <2>1. /\ proc' = [proc EXCEPT ![w] = f] /\ f.req = proc[w].req /\ f.snap = row
        /\ f.pc = "publish"
    BY <1>1, <1>3 DEF Frame
  <2>2. sessions'[Id(w)] = row /\ row # NoRow /\ row.lastWebhookSeq \in Int
    BY <1>1, <1>3, RowKinds DEF TypeOK, SessionRow
  <2>3. HeldRow(f, sessions')
    BY <2>1, <2>2 DEF HeldRow, Id
  <2>4. AppliedOrSuperseded(f, sessions')
    BY <1>2, <1>3, <2>1, <2>2 DEF AppliedOrSuperseded, Id, Category
  <2>5. LiveRowsOpen'
    BY <1>1, <1>3 DEF RowsHeld, LiveRowsOpen, TypeOK
  <2>6. QED
    BY <2>1, <2>3, <2>4, <2>5, HeldRowStep DEF RowsHeld
<1>4. CASE /\ ~accepts
           /\ proc' = [proc EXCEPT ![w].pc = IF proc[w].inserted THEN "publish" ELSE "reply"]
           /\ sessions' = sessions
  <2> DEFINE f == [proc[w] EXCEPT !.pc = IF proc[w].inserted THEN "publish" ELSE "reply"]
  <2>1. /\ proc' = [proc EXCEPT ![w] = f] /\ f.req = proc[w].req /\ f.snap = proc[w].snap
        /\ f.inserted = proc[w].inserted
        /\ f.pc = IF proc[w].inserted THEN "publish" ELSE "reply"
    BY <1>1, <1>4 DEF Frame
  <2>2. HeldRow(f, sessions)
    BY <1>1, <2>1 DEF HeldRow
  <2>3. AppliedOrSuperseded(f, sessions)
    <3>1. Category(w) \in {"started", "joined"} => sessions[Id(w)] # NoRow
      BY <1>1 DEF HeldRow, FrameOK, Pc, Id, Category
    <3>2. sessions[Id(w)] # NoRow /\ sessions[Id(w)].status # "live"
             => sessions[Id(w)].status = "ended"
      BY <1>1 DEF TypeOK, SessionRow
    <3>3. QED
      BY <1>4, <2>1, <3>1, <3>2 DEF AppliedOrSuperseded, Id, Category
  <2>4. LiveRowsOpen'
    BY <1>4 DEF RowsHeld, LiveRowsOpen
  <2>5. QED
    BY <1>4, <2>1, <2>2, <2>3, <2>4, HeldRowStep DEF RowsHeld
<1>5. QED
  BY <1>3, <1>4 DEF Update

LEMMA RowsHeldWebhook ==
    ASSUME TypeOK, TypeOK', LocalsOK, RowsFollow, RowsHeld, NEW w \in Workers,
           EnrichSession(w) \/ SetParticipantCount(w) \/ EndSession(w)
    PROVE  RowsHeld'
<1> DEFINE row == sessions[Id(w)]  seq == proc[w].req.seq
<1>1. /\ Id(w) \in SessionIds /\ Pc(w) \in {"enrich", "count", "end"}
      /\ seq \in Int /\ (row.status = "live" => row \in SessionRow)
  BY BusyFrame, WebhookRows DEF EnrichSession, SetParticipantCount, EndSession
<1>2. row # NoRow => row.lastWebhookSeq \in Int
  BY <1>1 DEF TypeOK, SessionRow
<1>3. row.status = "live" => row.endedAt = NoTime
  BY <1>1 DEF RowsHeld, LiveRowsOpen
<1>4. NoRow.status # "live"
  BY DEF NoRow
<1>5. CASE EnrichSession(w)
  <2> DEFINE accepts == AcceptsWebhook(row, seq)
             new == Enriched(row, proc[w].at, Narrowed(proc[w].count), seq)
  <2>1. accepts => /\ new \in SessionRow /\ new.lastWebhookSeq = seq
                   /\ new.endedAt = NoTime
    <3>1. accepts => row \in SessionRow /\ new \in SessionRow /\ row.endedAt = NoTime
      BY <1>1, <1>3, WebhookRows DEF AcceptsWebhook
    <3>2. QED
      BY <3>1 DEF Enriched, SessionRow
  <2>2. ~accepts => row.status # "live" \/ row.lastWebhookSeq >= seq
    BY <1>1, <1>2, <1>4 DEF AcceptsWebhook
  <2>3. Update(w, accepts, new) /\ accepts \in BOOLEAN
    BY <1>5 DEF EnrichSession, AcceptsWebhook
  <2> HIDE DEF accepts, new
  <2>4. QED
    BY <1>1, <2>1, <2>2, <2>3, RowsHeldUpdate
<1>6. CASE SetParticipantCount(w)
  <2> DEFINE accepts == AcceptsWebhook(row, seq)
             new == WithCount(row, Narrowed(proc[w].count), seq)
  <2>1. accepts => /\ new \in SessionRow /\ new.lastWebhookSeq = seq
                   /\ new.endedAt = NoTime
    <3>1. accepts => row \in SessionRow /\ new \in SessionRow /\ row.endedAt = NoTime
      BY <1>1, <1>3, WebhookRows DEF AcceptsWebhook
    <3>2. QED
      BY <3>1 DEF WithCount, SessionRow
  <2>2. ~accepts => row.status # "live" \/ row.lastWebhookSeq >= seq
    BY <1>1, <1>2, <1>4 DEF AcceptsWebhook
  <2>3. Update(w, accepts, new) /\ accepts \in BOOLEAN
    BY <1>6 DEF SetParticipantCount, AcceptsWebhook
  <2> HIDE DEF accepts, new
  <2>4. QED
    BY <1>1, <2>1, <2>2, <2>3, RowsHeldUpdate
<1>7. CASE EndSession(w)
  <2> DEFINE accepts == AcceptsEnd(row, seq)
             new == Ended(row, proc[w].req.at, seq)
  <2>1. Category(w) = "ended"
    BY <1>7, BusyFrame DEF EndSession, FrameOK, Pc, Category
  <2>2. accepts => new \in SessionRow /\ new.status = "ended"
    <3>1. accepts => row \in SessionRow /\ new \in SessionRow
      BY <1>1, WebhookRows DEF AcceptsEnd
    <3>2. QED
      BY <3>1 DEF Ended, SessionRow
  <2>3. Update(w, accepts, new) /\ accepts \in BOOLEAN
    BY <1>7 DEF EndSession, AcceptsEnd
  <2> HIDE DEF accepts, new
  <2>4. QED
    BY <1>1, <2>1, <2>2, <2>3, RowsHeldUpdate
<1>8. QED
  BY <1>5, <1>6, <1>7

LEMMA RowsHeldInductive ==
    ASSUME TypeOK, LocalsOK, RowsHeld, [Next]_vars
    PROVE  RowsHeld'
<1>1. TypeOK' /\ LocalsOK' /\ RowsFollow
  BY LocalsInductive, TablesOnlyGrow
<1>2. ASSUME NEW w \in Workers, InsertSession(w)
      PROVE  RowsHeld'
  BY <1>1, <1>2, RowsHeldInsertSession
<1>3. ASSUME NEW w \in Workers, EnrichSession(w) \/ SetParticipantCount(w) \/ EndSession(w)
      PROVE  RowsHeld'
  BY <1>1, <1>3, RowsHeldWebhook
<1>4. ASSUME NEW w \in Workers,
             \/ Receive(w) \/ ReadForLeft(w) \/ InsertConflict(w) \/ GetExisting(w)
             \/ InsertEvent(w) \/ FinishBatch(w) \/ PublishSession(w)
             \/ PublishActivity(w) \/ Respond(w) \/ RequestFails(w)
      PROVE  RowsHeld'
  <2>1. sessions' = sessions
    BY <1>4 DEF Receive, ReadForLeft, InsertConflict, GetExisting, InsertEvent, FinishBatch,
       PublishSession, PublishActivity, Respond, RequestFails
  <2>2. QED
    BY <1>1, <1>4, <2>1, HeldRowReads DEF RowsHeld, LiveRowsOpen
<1>5. CASE \/ StartSweep \/ ListIdle \/ EndIdle \/ PublishReaped \/ FinishSweep \/ SweepFails
           \/ Restart \/ Tick \/ UNCHANGED vars
  <2>1. \A w \in Workers : HeldRow(proc[w], sessions') /\ AppliedOrSuperseded(proc[w], sessions')
    BY <1>1, HeldRowStays DEF RowsHeld
  <2>2. HeldRow(IdleFrame, sessions') /\ AppliedOrSuperseded(IdleFrame, sessions')
    BY DEF IdleFrame, HeldRow, AppliedOrSuperseded
  <2>3. proc' = proc \/ proc' = [w \in Workers |-> IdleFrame]
    BY <1>5 DEF StartSweep, ListIdle, EndIdle, PublishReaped, FinishSweep, SweepFails,
       Restart, Tick, vars
  <2>4. LiveRowsOpen'
    <3>1. CASE EndIdle
      <4>1. PICK id \in reaper.todo :
              \/ /\ AcceptsEnd(sessions[id], 0)
                 /\ sessions' = [sessions EXCEPT ![id] = Ended(sessions[id], reaper.at, 0)]
              \/ sessions' = sessions
        BY <3>1 DEF EndIdle
      <4>2. id \in SessionIds
        BY DEF TypeOK, SweepFrame
      <4>3. AcceptsEnd(sessions[id], 0) => Ended(sessions[id], reaper.at, 0).status = "ended"
        <5>1. AcceptsEnd(sessions[id], 0) => sessions[id] \in SessionRow
          BY <4>2, RowKinds DEF AcceptsEnd, TypeOK
        <5>2. QED
          BY <5>1 DEF Ended, SessionRow
      <4>4. QED
        BY <4>1, <4>2, <4>3 DEF RowsHeld, LiveRowsOpen, TypeOK
    <3>2. CASE sessions' = sessions
      BY <3>2 DEF RowsHeld, LiveRowsOpen
    <3>3. QED
      BY <1>5, <3>1, <3>2 DEF StartSweep, ListIdle, PublishReaped, FinishSweep, SweepFails,
         Restart, Tick, vars
  <2>5. QED
    BY <2>1, <2>2, <2>3, <2>4 DEF RowsHeld
<1>6. QED
  BY <1>2, <1>3, <1>4, <1>5 DEF Next, Statement, Sweep

\* A webhook that was answered 200 is in the row, or a later one is, or the
\* session is over, whatever the other requests and the reaper did meanwhile.
THEOREM WebhooksAreNotLost == Spec => []WebhookAppliedOrSuperseded
<1>1. TypeOK /\ LocalsOK /\ RowsHeld /\ [Next]_vars => RowsHeld'
  BY RowsHeldInductive
<1>2. RowsHeld => WebhookAppliedOrSuperseded
  BY DEF RowsHeld, AppliedOrSuperseded, WebhookAppliedOrSuperseded, Pc, Category, Id
<1>3. QED
  BY <1>1, <1>2, InitRowsHeld, LifecycleTypes, PTL DEF Spec

-----------------------------------------------------------------------------
(* Every step of Lifecycle is a step of SessionTable or leaves its variables. *)

StepAllowed == [Table!Next]_(Table!vars)

LEMMA OneRowChanges ==
    ASSUME TypeOK, NEW id \in SessionIds, NEW row \in SessionRow,
           sessions' = [sessions EXCEPT ![id] = row], UNCHANGED <<events, published>>
    PROVE  Table!ChangesRow(id) /\ sessions'[id] = row
BY DEF TypeOK, Table!ChangesRow, SessionRow, Table!SessionRow

LEMMA InsertIsAllowed ==
    ASSUME TypeOK, LocalsOK, NEW w \in Workers, InsertSession(w)
    PROVE  StepAllowed
<1> DEFINE row == LiveRow(proc[w].at, SourceOf(Category(w)))
<1>1. Id(w) \in SessionIds /\ proc[w].at \in Int
  BY BusyFrame DEF InsertSession, Frame
<1>2. row \in SessionRow /\ SourceOf(Category(w)) \in {"webhook", "event"}
  BY <1>1 DEF SourceOf, LiveRow, SessionRow, NoTime
<1>3. Table!ChangesRow(Id(w)) /\ sessions'[Id(w)] = row
  BY <1>1, <1>2, OneRowChanges DEF InsertSession
<1>4. Table!Create(Id(w))
  BY <1>3 DEF InsertSession, Table!Create, LiveRow, NoRow, Table!NoRow, NoTime, Table!NoTime
<1>5. QED
  BY <1>1, <1>4 DEF StepAllowed, Table!Next

\* Enrich and SetParticipantCount apply a webhook, EndSession ends the row.
LEMMA UpdateIsAllowed ==
    ASSUME TypeOK, LocalsOK, RowsHeld, NEW w \in Workers,
           EnrichSession(w) \/ SetParticipantCount(w) \/ EndSession(w)
    PROVE  StepAllowed
<1> DEFINE row == sessions[Id(w)]  seq == proc[w].req.seq
<1>1. /\ Id(w) \in SessionIds /\ Pc(w) \in {"enrich", "count", "end"} /\ seq \in Int
  BY BusyFrame, WebhookRows DEF EnrichSession, SetParticipantCount, EndSession
<1>2. row.status = "live" => /\ row \in SessionRow /\ row.endedAt = NoTime
                            /\ Enriched(row, proc[w].at, Narrowed(proc[w].count), seq) \in SessionRow
                            /\ WithCount(row, Narrowed(proc[w].count), seq) \in SessionRow
                            /\ Ended(row, proc[w].req.at, seq) \in SessionRow
  BY <1>1, WebhookRows DEF RowsHeld, LiveRowsOpen
<1>3. ASSUME NEW accepts, NEW new, Update(w, accepts, new)
      PROVE  \/ /\ accepts /\ sessions' = [sessions EXCEPT ![Id(w)] = new]
                /\ UNCHANGED <<events, published>>
             \/ UNCHANGED <<sessions, events, published>>
  BY <1>3 DEF Update
<1>4. ASSUME NEW new \in SessionRow, new.status = "live", new.endedAt = NoTime,
             row.status = "live", row.lastWebhookSeq < new.lastWebhookSeq,
             sessions' = [sessions EXCEPT ![Id(w)] = new], UNCHANGED <<events, published>>
      PROVE  StepAllowed
  <2>1. Table!ChangesRow(Id(w)) /\ sessions'[Id(w)] = new
    BY <1>1, <1>4, OneRowChanges
  <2>2. row.lastWebhookSeq \in Int /\ new.lastWebhookSeq \in Int
    BY <1>2, <1>4 DEF SessionRow
  <2>3. Table!Apply(Id(w))
    BY <1>4, <2>1, <2>2 DEF Table!Apply, NoTime, Table!NoTime
  <2>4. QED
    BY <1>1, <2>3 DEF StepAllowed, Table!Next
<1>5. UNCHANGED <<sessions, events, published>> => StepAllowed
  BY DEF StepAllowed, Table!vars
<1>6. CASE EnrichSession(w)
  <2> DEFINE accepts == AcceptsWebhook(row, seq)
             new == Enriched(row, proc[w].at, Narrowed(proc[w].count), seq)
  <2>1. accepts => /\ new \in SessionRow /\ new.status = "live" /\ new.endedAt = NoTime
                   /\ new.lastWebhookSeq = seq
    BY <1>2 DEF AcceptsWebhook, Enriched, SessionRow
  <2>2. accepts => row.status = "live" /\ row.lastWebhookSeq < seq
    BY DEF AcceptsWebhook
  <2>3. Update(w, accepts, new)
    BY <1>6 DEF EnrichSession
  <2> HIDE DEF accepts, new
  <2>4. QED
    BY <1>3, <1>4, <1>5, <2>1, <2>2, <2>3
<1>7. CASE SetParticipantCount(w)
  <2> DEFINE accepts == AcceptsWebhook(row, seq)
             new == WithCount(row, Narrowed(proc[w].count), seq)
  <2>1. accepts => /\ new \in SessionRow /\ new.status = "live" /\ new.endedAt = NoTime
                   /\ new.lastWebhookSeq = seq
    BY <1>2 DEF AcceptsWebhook, WithCount, SessionRow
  <2>2. accepts => row.status = "live" /\ row.lastWebhookSeq < seq
    BY DEF AcceptsWebhook
  <2>3. Update(w, accepts, new)
    BY <1>7 DEF SetParticipantCount
  <2> HIDE DEF accepts, new
  <2>4. QED
    BY <1>3, <1>4, <1>5, <2>1, <2>2, <2>3
<1>8. CASE EndSession(w)
  <2> DEFINE accepts == AcceptsEnd(row, seq)
             new == Ended(row, proc[w].req.at, seq)
  <2>1. accepts => row.status = "live" /\ row \in SessionRow /\ new \in SessionRow
    BY <1>2 DEF AcceptsEnd
  <2>2. Update(w, accepts, new)
    BY <1>8 DEF EndSession
  <2>3. CASE /\ accepts /\ sessions' = [sessions EXCEPT ![Id(w)] = new]
             /\ UNCHANGED <<events, published>>
    <3>1. Table!ChangesRow(Id(w)) /\ sessions'[Id(w)] = new
      BY <1>1, <2>1, <2>3, OneRowChanges
    <3>2. /\ new.status = "ended" /\ new.lastWebhookSeq >= row.lastWebhookSeq
          /\ new.startedAt = row.startedAt /\ new.source = row.source
          /\ new.participantCount = row.participantCount
      BY <1>1, <2>1, <2>3 DEF Ended, SessionRow
    <3>3. Table!End(Id(w))
      BY <2>1, <2>3, <3>1, <3>2 DEF Table!End
    <3>4. QED
      BY <1>1, <3>3 DEF StepAllowed, Table!Next
  <2> HIDE DEF accepts, new
  <2>4. QED
    BY <1>3, <1>5, <2>2, <2>3
<1>9. QED
  BY <1>6, <1>7, <1>8

LEMMA ReapIsAllowed ==
    ASSUME TypeOK, EndIdle
    PROVE  StepAllowed
<1>1. PICK id \in reaper.todo :
        \/ /\ AcceptsEnd(sessions[id], 0)
           /\ sessions' = [sessions EXCEPT ![id] = Ended(sessions[id], reaper.at, 0)]
        \/ sessions' = sessions
  BY DEF EndIdle
<1> DEFINE row == sessions[id]  new == Ended(row, reaper.at, 0)
<1>2. reaper \in SweepFrame /\ id \in SessionIds /\ UNCHANGED <<events, published>>
  BY DEF TypeOK, SweepFrame, EndIdle
<1>3. CASE /\ AcceptsEnd(row, 0)
           /\ sessions' = [sessions EXCEPT ![id] = new]
  <2>1. row.status = "live" /\ row \in SessionRow
    BY <1>2, <1>3, RowKinds DEF AcceptsEnd, TypeOK
  <2>2. reaper.at \in Nat
    BY <1>2 DEF SweepFrame
  <2>3. new \in SessionRow
    BY <2>1, <2>2, EndedRowType
  <2>4. Table!ChangesRow(id) /\ sessions'[id] = new
    BY <1>2, <1>3, <2>3, OneRowChanges
  <2>5. /\ new.status = "ended" /\ new.lastWebhookSeq >= row.lastWebhookSeq
        /\ new.startedAt = row.startedAt /\ new.source = row.source
        /\ new.participantCount = row.participantCount
    BY <2>1 DEF Ended, SessionRow
  <2>6. Table!End(id)
    BY <2>1, <2>4, <2>5 DEF Table!End
  <2>7. QED
    BY <1>2, <2>6 DEF StepAllowed, Table!Next
<1>4. CASE sessions' = sessions
  BY <1>2, <1>4 DEF StepAllowed, Table!vars
<1>5. QED
  BY <1>1, <1>3, <1>4

LEMMA InsertEventIsAllowed ==
    ASSUME TypeOK, LocalsOK, RowsHeld, NEW w \in Workers, InsertEvent(w)
    PROVE  StepAllowed
<1> DEFINE seq == Head(proc[w].rest)  client == proc[w].req.client
           e == [sid |-> Id(w), client |-> client, seq |-> seq, receivedAt |-> now]
<1>1. /\ Pc(w) = "events" /\ proc[w].rest # <<>> /\ Id(w) \in SessionIds
      /\ client \in Clients /\ UNCHANGED <<sessions, published>>
  BY BusyFrame, BatchFrame DEF InsertEvent
<1>2. sessions[Id(w)] # NoRow
  BY <1>1 DEF RowsHeld, HeldRow, Pc, Id
<1>3. CASE ~IsStored(events, Id(w), client, seq) /\ events' = events \cup {e}
  <2>1. e \in events' /\ e.sid = Id(w) /\ e.client = client /\ e.seq = seq
    BY <1>3
  <2>2. Table!Store
    BY <1>1, <1>2, <1>3, <2>1
       DEF Table!Store, IsStored, Table!IsStored, NoRow, Table!NoRow
  <2>3. QED
    BY <2>2 DEF StepAllowed, Table!Next
<1>4. CASE events' = events
  BY <1>1, <1>4 DEF StepAllowed, Table!vars
<1>5. QED
  BY <1>3, <1>4 DEF InsertEvent

\* Handing a message to the hub is Announce when the message may be announced.
LEMMA AppendIsAllowed ==
    ASSUME TypeOK, NEW m \in Message, Table!MayAnnounce(m),
           published' = Append(published, m), UNCHANGED <<sessions, events>>
    PROVE  StepAllowed
<1>1. /\ Len(published') = Len(published) + 1 /\ published'[Len(published')] = m
  BY AppendProperties DEF TypeOK
<1>2. Table!Announce
  BY <1>1 DEF Table!Announce
<1>3. QED
  BY <1>2 DEF StepAllowed, Table!Next

LEMMA PublishSessionIsAllowed ==
    ASSUME TypeOK, LocalsOK, RowsHeld, EndRights, NEW w \in Workers, PublishSession(w)
    PROVE  StepAllowed
<1> DEFINE id == proc[w].req.id  row == proc[w].snap  m == SessionMessage(id, row)
<1>1. /\ Pc(w) = "publish" /\ proc[w] \in Frame /\ id \in SessionIds /\ row \in SessionRow
  BY BusyFrame DEF PublishSession, FrameOK, Frame, Pc, Id
<1>2. m \in Message /\ m.event = "session" /\ m.id = id /\ m.row = row
  BY <1>1 DEF SessionMessage, Message
<1>3. sessions[id] # NoRow /\ row.lastWebhookSeq <= sessions[id].lastWebhookSeq
  BY <1>1 DEF RowsHeld, HeldRow, Pc
<1>4. ASSUME HoldsEnd(proc[w]) PROVE Table!MayAnnounce(m)
  <2>1. row = sessions[id] /\ row.status = "ended" /\ ~EndIn(published, id)
    BY <1>4 DEF EndRights
  <2>2. ~Table!IsAnnounced(m)
    BY <1>2, <2>1 DEF Table!IsAnnounced, EndIn
  <2>3. QED
    BY <1>2, <1>3, <2>1, <2>2 DEF Table!MayAnnounce, NoRow, Table!NoRow
<1>5. ASSUME ~HoldsEnd(proc[w]) PROVE Table!MayAnnounce(m)
  <2>1. row.status = "live"
    BY <1>1, <1>5 DEF EndRights, HoldsLive, HoldsEnd, Pc
  <2>2. QED
    BY <1>2, <1>3, <2>1 DEF Table!MayAnnounce, NoRow, Table!NoRow
<1>6. QED
  BY <1>2, <1>4, <1>5, AppendIsAllowed DEF PublishSession, Id

LEMMA PublishReapedIsAllowed ==
    ASSUME TypeOK, LocalsOK, EndRights, PublishReaped
    PROVE  StepAllowed
<1> DEFINE id == reaper.cur  row == reaper.snap  m == SessionMessage(id, row)
<1>1. id \in SessionIds /\ row \in SessionRow
  BY DEF PublishReaped, TypeOK, LocalsOK, SweepFrame
<1>2. m \in Message /\ m.event = "session" /\ m.id = id /\ m.row = row
  BY <1>1 DEF SessionMessage, Message
<1>3. row = sessions[id] /\ row.status = "ended" /\ ~EndIn(published, id)
  BY DEF EndRights, PublishReaped
<1>4. sessions[id] # NoRow
  BY <1>1, <1>3, RowKinds
<1>5. ~Table!IsAnnounced(m)
  BY <1>2, <1>3 DEF Table!IsAnnounced, EndIn
<1>6. Table!MayAnnounce(m)
  BY <1>2, <1>3, <1>4, <1>5 DEF Table!MayAnnounce, NoRow, Table!NoRow
<1>7. QED
  BY <1>2, <1>6, AppendIsAllowed DEF PublishReaped

LEMMA PublishActivityIsAllowed ==
    ASSUME TypeOK, LocalsOK, ActivityRights, NEW w \in Workers, PublishActivity(w)
    PROVE  StepAllowed
<1> DEFINE m == Announcement(proc[w])
<1>1. /\ Pc(w) = "activity" /\ proc[w].rest # <<>> /\ Id(w) \in SessionIds
  BY BusyFrame DEF PublishActivity, FrameOK, Pc
<1>2. m \in Message
  BY <1>1, BatchFrame DEF Announcement, ActivityMessage, Message, Id
<1>3. /\ m.event = "activity"
      /\ IsStored(events, m.id, m.client, m.seq)
      /\ \A i \in DOMAIN published : published[i] # m
  BY <1>1 DEF ActivityRights, Announcement, ActivityMessage, Pc
<1>4. Table!MayAnnounce(m)
  BY <1>3 DEF Table!MayAnnounce, Table!IsAnnounced, IsStored, Table!IsStored
<1>5. QED
  BY <1>2, <1>4, AppendIsAllowed DEF PublishActivity, Announcement, Id

LEMMA StepsAreAllowed ==
    ASSUME TypeOK, LocalsOK, RowsHeld, EndRights, ActivityRights, [Next]_vars
    PROVE  StepAllowed
<1>1. ASSUME NEW w \in Workers,
             \/ Receive(w) \/ ReadForLeft(w) \/ InsertConflict(w) \/ GetExisting(w)
             \/ FinishBatch(w) \/ Respond(w) \/ RequestFails(w)
      PROVE  UNCHANGED <<sessions, events, published>>
  BY <1>1 DEF Receive, ReadForLeft, InsertConflict, GetExisting, FinishBatch, Respond,
     RequestFails
<1>2. ASSUME \/ StartSweep \/ ListIdle \/ FinishSweep \/ SweepFails \/ Restart \/ Tick
             \/ UNCHANGED vars
      PROVE  UNCHANGED <<sessions, events, published>>
  BY <1>2 DEF StartSweep, ListIdle, FinishSweep, SweepFails, Restart, Tick, vars
<1>3. UNCHANGED <<sessions, events, published>> => StepAllowed
  BY DEF StepAllowed, Table!vars
<1>4. QED
  BY <1>1, <1>2, <1>3, InsertIsAllowed, UpdateIsAllowed, ReapIsAllowed, InsertEventIsAllowed,
     PublishSessionIsAllowed, PublishReapedIsAllowed, PublishActivityIsAllowed
     DEF Next, Statement, Sweep

\* The rights of LifecycleProofs, as invariants of the specification.
LEMMA RightsHold == Spec => [](EndRights /\ ActivityRights)
<1>1. TypeOK /\ LocalsOK /\ EndRights /\ ActivityRights /\ [Next]_vars
        => EndRights' /\ ActivityRights'
  BY EndRightsInductive, ActivityRightsInductive
<1>2. QED
  BY <1>1, InitEndRights, InitActivityRights, LifecycleTypes, PTL DEF Spec

LEMMA RowsHeldHolds == Spec => []RowsHeld
<1>1. TypeOK /\ LocalsOK /\ RowsHeld /\ [Next]_vars => RowsHeld'
  BY RowsHeldInductive
<1>2. QED
  BY <1>1, InitRowsHeld, LifecycleTypes, PTL DEF Spec

\* The requests, the retries and the reaper together keep the promise of
\* SessionTable: rows move forward, events stay, and nothing is announced
\* twice, ahead of its row or before it is stored.
THEOREM LifecycleImplementsSessionTable == Spec => ImplementsSessionTable
<1>1. Init => Table!Init
  BY DEF Init, NoRows, Table!Init, NoRow, Table!NoRow
<1>2. TypeOK /\ LocalsOK /\ RowsHeld /\ EndRights /\ ActivityRights /\ [Next]_vars
        => [Table!Next]_(Table!vars)
  BY StepsAreAllowed DEF StepAllowed
<1>3. QED
  BY <1>1, <1>2, LifecycleTypes, RightsHold, RowsHeldHolds, PTL
     DEF Spec, ImplementsSessionTable, Table!Spec

-----------------------------------------------------------------------------
(* A request carries its delivery unchanged from one statement to the next. *)

\* Only its own step moves a request, and until it returns it keeps its delivery.
LEMMA RequestStep ==
    ASSUME TypeOK, LocalsOK, NEW w \in Workers, Statement(w), ~Respond(w)
    PROVE  /\ \A v \in Workers \ {w} : proc'[v] = proc[v]
           /\ proc'[w].req = proc[w].req
           /\ Pc(w) # "read" => proc'[w].count = proc[w].count
           /\ Pc(w) \notin {"events", "activity"} => proc'[w].rest = proc[w].rest
<1>1. proc \in [Workers -> Frame] /\ proc[w] \in Frame
  BY DEF TypeOK
<1>2. CASE ReadForLeft(w)
  BY <1>1, <1>2 DEF ReadForLeft, Frame, Pc
<1>3. CASE InsertSession(w) \/ InsertConflict(w) \/ GetExisting(w)
  <2>1. CASE InsertSession(w)
    BY <1>1, <2>1 DEF InsertSession, Frame, Pc
  <2>2. CASE InsertConflict(w)
    BY <1>1, <2>2 DEF InsertConflict, Frame, Pc
  <2>3. CASE GetExisting(w)
    BY <1>1, <2>3 DEF GetExisting, Frame, Pc
  <2>4. QED
    BY <1>3, <2>1, <2>2, <2>3
<1>4. CASE EnrichSession(w) \/ SetParticipantCount(w) \/ EndSession(w)
  BY <1>1, <1>4 DEF EnrichSession, SetParticipantCount, EndSession, Update, Frame, Pc
<1>5. CASE InsertEvent(w) \/ FinishBatch(w)
  BY <1>1, <1>5 DEF InsertEvent, FinishBatch, Frame, Pc
<1>6. CASE PublishSession(w) \/ PublishActivity(w)
  BY <1>1, <1>6 DEF PublishSession, PublishActivity, Frame, Pc
<1>7. QED
  BY <1>2, <1>3, <1>4, <1>5, <1>6 DEF Statement

\* What Receive puts in the frame, and what every way of returning leaves there.
LEMMA ReceiveStep ==
    ASSUME TypeOK, NEW w \in Workers, Receive(w)
    PROVE  /\ \A v \in Workers \ {w} : proc'[v] = proc[v]
           /\ proc'[w].req \in Requests
           /\ proc'[w].pc \in {"insert", "read", "end"}
           /\ Category(w)' \in {"started", "joined"} => proc'[w].count = proc'[w].req.count
           /\ Category(w)' = "left" => proc'[w].count = 0
           /\ Category(w)' = "ingest" => proc'[w].rest = proc'[w].req.events
<1>1. PICK r \in Requests :
        proc' = [proc EXCEPT ![w] =
                   [IdleFrame EXCEPT
                      !.pc = FirstStep(r.category),
                      !.req = r,
                      !.at = StartTime(r),
                      !.count = IF r.category \in {"started", "joined"} THEN r.count ELSE 0,
                      !.rest = IF r.category = "ingest" THEN r.events ELSE <<>>]]
  BY DEF Receive
<1>2. (\A v \in Workers \ {w} : proc'[v] = proc[v]) /\ proc'[w].req = r
  BY <1>1 DEF TypeOK, IdleFrame
<1>3. /\ proc'[w].pc = FirstStep(r.category)
      /\ proc'[w].count = IF r.category \in {"started", "joined"} THEN r.count ELSE 0
      /\ proc'[w].rest = IF r.category = "ingest" THEN r.events ELSE <<>>
  BY <1>1 DEF TypeOK, IdleFrame
<1>4. FirstStep(r.category) \in {"insert", "read", "end"}
  BY DEF FirstStep
<1>5. QED
  BY <1>2, <1>3, <1>4 DEF Category

LEMMA ReturnStep ==
    ASSUME TypeOK, NEW w \in Workers, Respond(w) \/ RequestFails(w)
    PROVE  (\A v \in Workers \ {w} : proc'[v] = proc[v]) /\ proc'[w] = IdleFrame
BY DEF Respond, RequestFails, TypeOK

LEMMA OtherStep ==
    ASSUME Sweep \/ SweepFails \/ Restart \/ Tick \/ UNCHANGED vars
    PROVE  proc' = proc \/ proc' = [w \in Workers |-> IdleFrame]
BY DEF Sweep, StartSweep, ListIdle, EndIdle, PublishReaped, FinishSweep, SweepFails, Restart,
   Tick, vars

-----------------------------------------------------------------------------
(* The participant count of a row. *)

CountKept(f) ==
    /\ f.req.category \in {"started", "joined"} => f.count = f.req.count
    /\ f.req.category = "left" =>
          /\ f.count \in 0..MaxCount
          /\ f.count > 0 => CountedAbove(f.req.id, f.count)

CountedBy(id, row) ==
    row # NoRow =>
        /\ row.participantCount <= MaxCount
        /\ row.participantCount > 0 => CountedAbove(id, row.participantCount - 1)
        /\ row.lastWebhookSeq > 0 =>
              \E h \in Webhooks :
                 /\ h.id = id
                 /\ h.seq = row.lastWebhookSeq
                 /\ h.category \in {"started", "joined"} =>
                       row.participantCount = Narrowed(h.count)
                 /\ h.category = "left" =>
                       \/ row.participantCount = 0
                       \/ row.participantCount > 0 /\ CountedAbove(id, row.participantCount)

CountsKept ==
    /\ \A w \in Workers : CountKept(proc[w])
    /\ \A id \in SessionIds : CountedBy(id, sessions[id])

LEMMA InitCountsKept == Init => CountsKept
BY DEF Init, CountsKept, CountKept, CountedBy, IdleFrame, NoRequest, NoRows

\* What is above a number is above the number before it.
LEMMA AboveTheOneBefore ==
    ASSUME NEW id, NEW n \in Int, CountedAbove(id, n)
    PROVE  CountedAbove(id, n - 1)
<1>1. PICK h \in Webhooks :
        h.id = id /\ h.category \in {"started", "joined"} /\ Narrowed(h.count) > n
  BY DEF CountedAbove
<1>2. h.count \in Int
  BY WebhookFields
<1>3. Narrowed(h.count) \in Int
  BY <1>2, NarrowedRange
<1>4. Narrowed(h.count) > n - 1
  BY <1>1, <1>3
<1>5. QED
  BY <1>1, <1>4 DEF CountedAbove

\* participant_left takes one off the count it read, at most down to zero.
LEMMA CountAfterRead ==
    ASSUME TypeOK, LocalsOK, CountsKept, NEW w \in Workers, ReadForLeft(w)
    PROVE  CountKept(proc'[w])
<1> DEFINE row == sessions[Id(w)]
<1>1. /\ proc[w] \in Frame /\ Category(w) = "left" /\ proc'[w].req = proc[w].req
      /\ CountKept(proc[w])
  BY DEF ReadForLeft, TypeOK, LocalsOK, FrameOK, Frame, CountsKept, Pc, Category
<1>2. Id(w) \in SessionIds
  BY BusyFrame DEF ReadForLeft
<1>3. CASE row = NoRow
  <2>1. proc'[w].count = proc[w].count
    BY <1>1, <1>3 DEF ReadForLeft, TypeOK, Frame
  <2>2. QED
    BY <1>1, <2>1 DEF CountKept
<1>4. CASE row # NoRow
  <2> DEFINE n == row.participantCount
  <2>1. n \in Int /\ n <= MaxCount /\ (n > 0 => CountedAbove(Id(w), n - 1))
    BY <1>2, <1>4 DEF TypeOK, SessionRow, CountsKept, CountedBy
  <2>2. proc'[w].count = Decremented(n)
    BY <1>1, <1>4 DEF ReadForLeft, TypeOK, Frame
  <2> HIDE DEF n
  <2>3. Decremented(n) \in 0..MaxCount /\ (Decremented(n) > 0 => Decremented(n) = n - 1 /\ n > 0)
    BY <2>1, CountAssumption DEF Decremented
  <2>4. QED
    BY <1>1, <2>1, <2>2, <2>3 DEF CountKept, Category, Id
<1>5. QED
  BY <1>3, <1>4

LEMMA CountsOfRequests ==
    ASSUME TypeOK, LocalsOK, CountsKept, [Next]_vars
    PROVE  \A w \in Workers : CountKept(proc'[w])
<1>0. CountKept(IdleFrame)
  BY DEF CountKept, IdleFrame, NoRequest
<1>1. ASSUME NEW w \in Workers, Receive(w)
      PROVE  \A v \in Workers : CountKept(proc'[v])
  BY <1>1, ReceiveStep, CountAssumption DEF CountsKept, CountKept, Category
<1>2. ASSUME NEW w \in Workers, Statement(w), ~Respond(w)
      PROVE  \A v \in Workers : CountKept(proc'[v])
  <2>1. CASE ReadForLeft(w)
    BY <1>2, <2>1, CountAfterRead, RequestStep DEF CountsKept
  <2>2. CASE Pc(w) # "read"
    <3>1. proc'[w].req = proc[w].req /\ proc'[w].count = proc[w].count
      BY <1>2, <2>2, RequestStep
    <3>2. CountKept(proc'[w])
      BY <3>1 DEF CountsKept, CountKept
    <3>3. QED
      BY <1>2, <3>2, RequestStep DEF CountsKept
  <2>3. Pc(w) = "read" => ReadForLeft(w)
    BY <1>2 DEF Statement, InsertSession, InsertConflict, GetExisting, EnrichSession,
       SetParticipantCount, EndSession, InsertEvent, FinishBatch, PublishSession,
       PublishActivity
  <2>4. QED
    BY <2>1, <2>2, <2>3
<1>3. ASSUME NEW w \in Workers, Respond(w) \/ RequestFails(w)
      PROVE  \A v \in Workers : CountKept(proc'[v])
  BY <1>0, <1>3, ReturnStep DEF CountsKept
<1>4. ASSUME Sweep \/ SweepFails \/ Restart \/ Tick \/ UNCHANGED vars
      PROVE  \A v \in Workers : CountKept(proc'[v])
  BY <1>0, <1>4, OtherStep DEF CountsKept
<1>5. QED
  BY <1>1, <1>2, <1>3, <1>4 DEF Next

\* The row that a started, joined or left webhook leaves behind.
LEMMA CountWritten ==
    ASSUME TypeOK, LocalsOK, CountsKept, NEW w \in Workers, Pc(w) \in {"enrich", "count"},
           NEW new, new.participantCount = Narrowed(proc[w].count),
           new.lastWebhookSeq = proc[w].req.seq
    PROVE  CountedBy(Id(w), new)
<1> DEFINE h == proc[w].req  n == Narrowed(proc[w].count)
<1>1. /\ h \in Webhooks /\ h.id = Id(w) /\ h.category \in {"started", "joined", "left"}
      /\ CountKept(proc[w]) /\ proc[w].count \in Int
  BY BusyFrame DEF FrameOK, Frame, CountsKept, Pc, Category, Id
<1>2. n \in Int /\ n <= MaxCount /\ (proc[w].count \in 0..MaxCount => n = proc[w].count)
  BY <1>1, NarrowedRange
<1>3. CASE h.category \in {"started", "joined"}
  <2>1. n = Narrowed(h.count)
    BY <1>1, <1>3 DEF CountKept
  <2> HIDE DEF n
  <2>2. CountedAbove(Id(w), n - 1)
    BY <1>1, <1>2, <1>3, <2>1 DEF CountedAbove
  <2>3. new.participantCount = n
    BY DEF n
  <2>4. /\ h.id = Id(w) /\ h.seq = new.lastWebhookSeq
        /\ new.participantCount = Narrowed(h.count) /\ h.category # "left"
    BY <1>1, <1>3, <2>1, <2>3
  <2> HIDE DEF h
  <2>5. QED
    BY <1>1, <1>2, <2>2, <2>3, <2>4 DEF CountedBy
<1>4. CASE h.category = "left"
  <2>1. n \in 0..MaxCount /\ (n > 0 => CountedAbove(Id(w), n))
    BY <1>1, <1>2, <1>4 DEF CountKept
  <2> HIDE DEF n
  <2>2. n > 0 => CountedAbove(Id(w), n - 1)
    BY <1>2, <2>1, AboveTheOneBefore
  <2>3. new.participantCount = n
    BY DEF n
  <2>4. h.id = Id(w) /\ h.seq = new.lastWebhookSeq /\ h.category \notin {"started", "joined"}
    BY <1>1, <1>4
  <2>5. n = 0 \/ (n > 0 /\ CountedAbove(Id(w), n))
    BY <2>1
  <2> HIDE DEF h
  <2>6. QED
    BY <1>1, <1>2, <2>2, <2>3, <2>4, <2>5 DEF CountedBy
<1>5. QED
  BY <1>1, <1>3, <1>4

LEMMA CountsOfRows ==
    ASSUME TypeOK, LocalsOK, CountsKept, [Next]_vars
    PROVE  \A id \in SessionIds : CountedBy(id, sessions'[id])
<1>1. ASSUME NEW w \in Workers, InsertSession(w)
      PROVE  \A id \in SessionIds : CountedBy(id, sessions'[id])
  <2>1. CountedBy(Id(w), LiveRow(proc[w].at, SourceOf(Category(w))))
    BY CountAssumption DEF CountedBy, LiveRow
  <2>2. QED
    BY <1>1, <2>1 DEF InsertSession, CountsKept, TypeOK
<1>2. ASSUME NEW w \in Workers, EnrichSession(w) \/ SetParticipantCount(w) \/ EndSession(w)
      PROVE  \A id \in SessionIds : CountedBy(id, sessions'[id])
  <2> DEFINE row == sessions[Id(w)]  h == proc[w].req
  <2>1. /\ Pc(w) \in {"enrich", "count", "end"} /\ h \in Webhooks /\ Id(w) \in SessionIds
        /\ proc[w] \in Frame /\ FrameOK(proc[w])
    BY <1>2, BusyFrame DEF EnrichSession, SetParticipantCount, EndSession, FrameOK, Pc, Category
  <2>2. h.seq \in Nat /\ (row.status = "live" => row \in SessionRow)
    BY <2>1, WebhookRows
  <2>3. ASSUME NEW new, sessions' = [sessions EXCEPT ![Id(w)] = new], CountedBy(Id(w), new)
        PROVE  \A id \in SessionIds : CountedBy(id, sessions'[id])
    BY <2>3 DEF CountsKept, TypeOK
  <2>4. CASE EnrichSession(w)
    <3> DEFINE new == Enriched(row, proc[w].at, Narrowed(proc[w].count), h.seq)
    <3>1. AcceptsWebhook(row, h.seq) =>
            new.lastWebhookSeq = h.seq /\ new.participantCount = Narrowed(proc[w].count)
      BY <2>2 DEF AcceptsWebhook, Enriched, SessionRow
    <3> HIDE DEF new
    <3>2. AcceptsWebhook(row, h.seq) => CountedBy(Id(w), new)
      BY <3>1, <2>4, CountWritten DEF EnrichSession
    <3>3. \/ AcceptsWebhook(row, h.seq) /\ sessions' = [sessions EXCEPT ![Id(w)] = new]
          \/ sessions' = sessions
      BY <2>4 DEF EnrichSession, Update, new
    <3>4. QED
      BY <2>3, <3>2, <3>3 DEF CountsKept
  <2>5. CASE SetParticipantCount(w)
    <3> DEFINE new == WithCount(row, Narrowed(proc[w].count), h.seq)
    <3>1. AcceptsWebhook(row, h.seq) =>
            new.lastWebhookSeq = h.seq /\ new.participantCount = Narrowed(proc[w].count)
      BY <2>2 DEF AcceptsWebhook, WithCount, SessionRow
    <3> HIDE DEF new
    <3>2. AcceptsWebhook(row, h.seq) => CountedBy(Id(w), new)
      BY <3>1, <2>5, CountWritten DEF SetParticipantCount
    <3>3. \/ AcceptsWebhook(row, h.seq) /\ sessions' = [sessions EXCEPT ![Id(w)] = new]
          \/ sessions' = sessions
      BY <2>5 DEF SetParticipantCount, Update, new
    <3>4. QED
      BY <2>3, <3>2, <3>3 DEF CountsKept
  <2>6. CASE EndSession(w)
    <3> DEFINE new == Ended(row, h.at, h.seq)
    <3>1. h.seq # 0 /\ h.category = "ended"
      BY <2>1, <2>6, WebhookFields DEF EndSession, FrameOK, Pc
    <3>2. AcceptsEnd(row, h.seq) =>
            new.lastWebhookSeq = h.seq /\ new.participantCount = row.participantCount
      BY <2>2, <3>1 DEF AcceptsEnd, Ended, SessionRow
    <3>5. AcceptsEnd(row, h.seq) => row # NoRow /\ CountedBy(Id(w), row)
      BY <2>1, <2>2, RowKinds DEF AcceptsEnd, CountsKept
    <3> HIDE DEF new
    <3>3. AcceptsEnd(row, h.seq) => CountedBy(Id(w), new)
      BY <2>1, <3>1, <3>2, <3>5 DEF CountedBy, Id
    <3>4. \/ AcceptsEnd(row, h.seq) /\ sessions' = [sessions EXCEPT ![Id(w)] = new]
          \/ sessions' = sessions
      BY <2>6 DEF EndSession, Update, new
    <3>6. QED
      BY <2>3, <3>3, <3>4 DEF CountsKept
  <2>7. QED
    BY <1>2, <2>4, <2>5, <2>6
<1>3. ASSUME EndIdle
      PROVE  \A id \in SessionIds : CountedBy(id, sessions'[id])
  <2>1. PICK id \in reaper.todo :
          \/ /\ AcceptsEnd(sessions[id], 0)
             /\ sessions' = [sessions EXCEPT ![id] = Ended(sessions[id], reaper.at, 0)]
          \/ sessions' = sessions
    BY <1>3 DEF EndIdle
  <2> DEFINE row == sessions[id]  new == Ended(row, reaper.at, 0)
  <2>2. id \in SessionIds
    BY DEF TypeOK, SweepFrame
  <2>3. AcceptsEnd(row, 0) => row \in SessionRow
    BY <2>2, RowKinds DEF AcceptsEnd, TypeOK
  <2>4. AcceptsEnd(row, 0) => /\ new.participantCount = row.participantCount
                              /\ new.lastWebhookSeq > 0 => new.lastWebhookSeq = row.lastWebhookSeq
    BY <2>3 DEF Ended, SessionRow
  <2>8. CountedBy(id, row) /\ (AcceptsEnd(row, 0) => row # NoRow /\ row.lastWebhookSeq \in Int)
    BY <2>2, <2>3, RowKinds DEF CountsKept, SessionRow
  <2> HIDE DEF new
  <2>5. AcceptsEnd(row, 0) => CountedBy(id, new)
    BY <2>4, <2>8 DEF CountedBy
  <2>6. \/ AcceptsEnd(row, 0) /\ sessions' = [sessions EXCEPT ![id] = new]
        \/ sessions' = sessions
    BY <2>1 DEF new
  <2>7. QED
    BY <2>2, <2>5, <2>6 DEF CountsKept, TypeOK
<1>4. ASSUME NEW w \in Workers,
             \/ Receive(w) \/ ReadForLeft(w) \/ InsertConflict(w) \/ GetExisting(w)
             \/ InsertEvent(w) \/ FinishBatch(w) \/ PublishSession(w)
             \/ PublishActivity(w) \/ Respond(w) \/ RequestFails(w)
      PROVE  sessions' = sessions
  BY <1>4 DEF Receive, ReadForLeft, InsertConflict, GetExisting, InsertEvent, FinishBatch,
     PublishSession, PublishActivity, Respond, RequestFails
<1>5. ASSUME \/ StartSweep \/ ListIdle \/ PublishReaped \/ FinishSweep \/ SweepFails
             \/ Restart \/ Tick \/ UNCHANGED vars
      PROVE  sessions' = sessions
  BY <1>5 DEF StartSweep, ListIdle, PublishReaped, FinishSweep, SweepFails, Restart, Tick, vars
<1>6. QED
  BY <1>1, <1>2, <1>3, <1>4, <1>5 DEF CountsKept, Next, Statement, Sweep

\* Whatever interleaves with it, the count a row shows is the one that the
\* webhook it names as its last has carried, narrowed as the store narrows it;
\* a departure leaves less than some count that was sent, and nothing raises it.
THEOREM CountIsOfLastWebhook == Spec => []CountOfLastWebhook
<1>1. TypeOK /\ LocalsOK /\ CountsKept /\ [Next]_vars => CountsKept'
  BY CountsOfRequests, CountsOfRows DEF CountsKept
<1>2. CountsKept => CountOfLastWebhook
  BY DEF CountsKept, CountedBy, CountOfLastWebhook
<1>3. QED
  BY <1>1, <1>2, InitCountsKept, LifecycleTypes, PTL DEF Spec

-----------------------------------------------------------------------------
(* The events of a batch. *)

\* What is left of a batch is the end of it, and what came before is stored.
RestOf(f, log) ==
    LET sent == f.req.events
        passed == Len(sent) - Len(f.rest)
    IN  /\ Len(f.rest) <= Len(sent)
        /\ \A i \in 1..Len(f.rest) : f.rest[i] = sent[passed + i]
        /\ \A i \in 1..passed : IsStored(log, f.req.id, f.req.client, sent[i])

BatchKept(f, log) ==
    f.req.category = "ingest" =>
        /\ RestOf(f, log)
        /\ f.pc = "reply" => f.rest = <<>>

BatchesKept == \A w \in Workers : BatchKept(proc[w], events)

LEMMA StoredStays ==
    ASSUME events \subseteq events', NEW id, NEW client, NEW seq, IsStored(events, id, client, seq)
    PROVE  IsStored(events', id, client, seq)
BY DEF IsStored

\* What a request has passed stays stored while the log grows.
LEMMA BatchStaysKept ==
    ASSUME events \subseteq events', NEW f, NEW g, g.req = f.req, g.rest = f.rest,
           BatchKept(f, events), f.req.category = "ingest" /\ g.pc = "reply" => f.rest = <<>>
    PROVE  BatchKept(g, events')
BY StoredStays DEF BatchKept, RestOf

LEMMA NothingPassedYet ==
    ASSUME NEW f, NEW log, f.req \in Batches, f.rest = f.req.events
    PROVE  RestOf(f, log)
<1>1. f.req.events \in Seq(Nat \ {0}) /\ Len(f.req.events) \in Nat
  BY BatchFields
<1>2. QED
  BY <1>1 DEF RestOf

\* The loop of RecordEvents goes on to the next event once this one is stored.
LEMMA RestAdvances ==
    ASSUME NEW f \in Frame, f.req \in Batches, f.rest # <<>>, NEW log, RestOf(f, log),
           IsStored(log, f.req.id, f.req.client, Head(f.rest)),
           NEW g, g.req = f.req, g.rest = Tail(f.rest)
    PROVE  RestOf(g, log)
<1> DEFINE sent == f.req.events  n == Len(f.rest)  m == Len(sent)  passed == m - n
<1>1. f.rest \in Seq(Nat \ {0}) /\ sent \in Seq(Nat \ {0})
  BY BatchFields DEF Frame
<1>2. m \in Nat /\ n \in Nat /\ n # 0
  BY <1>1, EmptySeq, LenProperties
<1>3. /\ Head(f.rest) = f.rest[1] /\ Len(g.rest) = n - 1
      /\ \A i \in 1..(n - 1) : g.rest[i] = f.rest[i + 1]
  BY <1>1, HeadTailProperties
<1>4. n <= m /\ \A i \in 1..n : f.rest[i] = sent[passed + i]
  BY DEF RestOf
<1>5. \A i \in 1..passed : IsStored(log, f.req.id, f.req.client, sent[i])
  BY DEF RestOf
<1>6. passed \in Nat /\ m - (n - 1) = passed + 1 /\ n - 1 <= m
  BY <1>2, <1>4
<1>7. g.req.events = sent /\ Len(g.req.events) = m /\ g.req = f.req
  OBVIOUS
<1> HIDE DEF sent, n, m, passed
<1>8. IsStored(log, f.req.id, f.req.client, sent[passed + 1])
  BY <1>2, <1>3, <1>4
<1>9. \A i \in 1..(passed + 1) : IsStored(log, f.req.id, f.req.client, sent[i])
  BY <1>5, <1>6, <1>8
<1>10. \A i \in 1..(n - 1) : g.rest[i] = sent[(passed + 1) + i]
  BY <1>2, <1>3, <1>4, <1>6
<1>11. QED
  BY <1>3, <1>6, <1>7, <1>9, <1>10 DEF RestOf

LEMMA InitBatchesKept == Init => BatchesKept
BY DEF Init, BatchesKept, BatchKept, IdleFrame, NoRequest

LEMMA BatchesKeptStatement ==
    ASSUME TypeOK, LocalsOK, ActivityRights, BatchesKept, events \subseteq events',
           NEW w \in Workers, Statement(w), ~Respond(w)
    PROVE  BatchKept(proc'[w], events')
<1>1. proc[w] \in Frame /\ FrameOK(proc[w]) /\ proc'[w].req = proc[w].req
  BY RequestStep DEF TypeOK, LocalsOK
<1>2. CASE proc[w].req.category # "ingest"
  BY <1>1, <1>2 DEF BatchKept
<1>3. CASE proc[w].req.category = "ingest" /\ Pc(w) \notin {"events", "activity"}
  <2>1. proc'[w].rest = proc[w].rest
    BY <1>3, RequestStep
  <2>2. proc'[w].pc # "reply"
    <3>1. InsertSession(w) \/ InsertConflict(w) \/ GetExisting(w) \/ PublishSession(w)
      BY <1>1, <1>3 DEF Statement, ReadForLeft, EnrichSession, SetParticipantCount, EndSession,
         InsertEvent, FinishBatch, PublishActivity, FrameOK, Pc
    <3>2. CASE InsertSession(w)
      BY <1>1, <1>3, <3>2 DEF InsertSession, AfterFindOrCreate, TypeOK, Frame, Category
    <3>3. CASE InsertConflict(w)
      BY <1>1, <3>3 DEF InsertConflict, TypeOK, Frame
    <3>4. CASE GetExisting(w)
      BY <1>1, <1>3, <3>4 DEF GetExisting, AfterFindOrCreate, TypeOK, Frame, Category
    <3>5. CASE PublishSession(w)
      BY <1>1, <1>3, <3>5 DEF PublishSession, TypeOK, Frame, Category
    <3>6. QED
      BY <3>1, <3>2, <3>3, <3>4, <3>5
  <2>3. QED
    BY <1>1, <2>1, <2>2, BatchStaysKept DEF BatchesKept
<1>4. CASE proc[w].req.category = "ingest" /\ Pc(w) \in {"events", "activity"}
  <2>1. proc[w].req \in Batches /\ BatchKept(proc[w], events)
    BY <1>4, BusyFrame DEF Category, BatchesKept
  <2>2. InsertEvent(w) \/ FinishBatch(w) \/ PublishActivity(w)
    BY <1>1, <1>4 DEF Statement, ReadForLeft, InsertSession, InsertConflict, GetExisting,
       EnrichSession, SetParticipantCount, EndSession, PublishSession, Pc
  <2>3. ASSUME proc[w].rest # <<>>,
               IsStored(events, Id(w), proc[w].req.client, Head(proc[w].rest)),
               proc'[w].rest = Tail(proc[w].rest), proc'[w].pc # "reply"
        PROVE  BatchKept(proc'[w], events')
    <3>1. RestOf(proc'[w], events)
      BY <1>1, <1>4, <2>1, <2>3, RestAdvances DEF BatchKept, Id
    <3>2. BatchKept(proc'[w], events)
      BY <2>3, <3>1 DEF BatchKept
    <3>3. QED
      BY <2>3, <3>2, BatchStaysKept
  <2>4. CASE InsertEvent(w)
    <3>1. CASE ~IsStored(events, Id(w), proc[w].req.client, Head(proc[w].rest))
      <4>1. proc'[w].pc = "activity" /\ proc'[w].rest = proc[w].rest
        BY <1>1, <2>4, <3>1 DEF InsertEvent, TypeOK, Frame
      <4>2. QED
        BY <1>1, <2>1, <4>1, BatchStaysKept
    <3>2. CASE IsStored(events, Id(w), proc[w].req.client, Head(proc[w].rest))
      <4>1. proc' = [proc EXCEPT ![w] = [proc[w] EXCEPT !.rest = Tail(proc[w].rest)]]
        BY <2>4, <3>2 DEF InsertEvent
      <4>2. /\ proc'[w].pc = "events" /\ proc'[w].rest = Tail(proc[w].rest)
            /\ proc[w].rest # <<>>
        BY <1>1, <2>4, <4>1 DEF InsertEvent, TypeOK, Frame, Pc
      <4>3. QED
        BY <2>3, <3>2, <4>2
    <3>3. QED
      BY <3>1, <3>2
  <2>5. CASE FinishBatch(w)
    <3>1. proc'[w].rest = proc[w].rest /\ proc[w].rest = <<>>
      BY <1>1, <2>5 DEF FinishBatch, TypeOK, Frame
    <3>2. QED
      BY <1>1, <2>1, <3>1, BatchStaysKept
  <2>6. CASE PublishActivity(w)
    <3>1. /\ proc[w].rest # <<>>
          /\ IsStored(events, Id(w), proc[w].req.client, Head(proc[w].rest))
      BY <1>1, <2>6 DEF PublishActivity, ActivityRights, FrameOK, Pc, Id
    <3>2. proc'[w].rest = Tail(proc[w].rest) /\ proc'[w].pc = "events"
      BY <1>1, <2>6 DEF PublishActivity, TypeOK, Frame
    <3>3. QED
      BY <2>3, <3>1, <3>2
  <2>7. QED
    BY <2>2, <2>4, <2>5, <2>6
<1>5. QED
  BY <1>2, <1>3, <1>4

LEMMA BatchesKeptInductive ==
    ASSUME TypeOK, LocalsOK, ActivityRights, BatchesKept, [Next]_vars
    PROVE  BatchesKept'
<1>1. events \subseteq events'
  BY TablesOnlyGrow
<1>2. \A w \in Workers : BatchKept(proc[w], events')
  BY <1>1, StoredStays DEF BatchesKept, BatchKept, RestOf
<1>3. BatchKept(IdleFrame, events')
  BY DEF BatchKept, IdleFrame, NoRequest
<1>4. ASSUME NEW w \in Workers, Receive(w)
      PROVE  BatchesKept'
  <2>1. BatchKept(proc'[w], events')
    <3>1. proc'[w].req.category = "ingest" => proc'[w].req \in Batches
      BY <1>4, ReceiveStep, RequestKinds
    <3>2. QED
      BY <1>4, <3>1, ReceiveStep, NothingPassedYet DEF BatchKept, Category
  <2>2. QED
    BY <1>2, <1>4, <2>1, ReceiveStep DEF BatchesKept
<1>5. ASSUME NEW w \in Workers, Statement(w), ~Respond(w)
      PROVE  BatchesKept'
  BY <1>1, <1>2, <1>5, BatchesKeptStatement, RequestStep DEF BatchesKept
<1>6. ASSUME NEW w \in Workers, Respond(w) \/ RequestFails(w)
      PROVE  BatchesKept'
  BY <1>2, <1>3, <1>6, ReturnStep DEF BatchesKept
<1>7. CASE Sweep \/ SweepFails \/ Restart \/ Tick \/ UNCHANGED vars
  BY <1>2, <1>3, <1>7, OtherStep DEF BatchesKept
<1>8. QED
  BY <1>4, <1>5, <1>6, <1>7 DEF Next

\* A batch that was answered 202 is in the table to its last event, and so is
\* what RecordEvents has passed of one it is still at.
THEOREM AcceptedBatchesAreStored == Spec => []AcceptedBatchIsStored
<1>1. TypeOK /\ LocalsOK /\ ActivityRights /\ BatchesKept /\ [Next]_vars => BatchesKept'
  BY BatchesKeptInductive
<1>2. TypeOK /\ LocalsOK /\ BatchesKept => AcceptedBatchIsStored
  <2> SUFFICES ASSUME TypeOK, LocalsOK, BatchesKept, NEW w \in Workers,
                      Pc(w) \in {"events", "activity", "reply"}, Category(w) = "ingest"
               PROVE  \A i \in 1..(IF Pc(w) = "reply" THEN Len(proc[w].req.events)
                                   ELSE Len(proc[w].req.events) - Len(proc[w].rest)) :
                          IsStored(events, Id(w), proc[w].req.client, proc[w].req.events[i])
    BY DEF AcceptedBatchIsStored
  <2>1. RestOf(proc[w], events) /\ (Pc(w) = "reply" => proc[w].rest = <<>>)
    BY DEF BatchesKept, BatchKept, Pc, Category
  <2>2. Len(proc[w].req.events) \in Nat
    BY BusyFrame, BatchFields, LenProperties DEF Category
  <2>3. Pc(w) = "reply" => Len(proc[w].rest) = 0
    BY <2>1, EmptySeq
  <2>4. QED
    BY <2>1, <2>2, <2>3 DEF RestOf, Id
<1>3. QED
  BY <1>1, <1>2, InitBatchesKept, LifecycleTypes, RightsHold, PTL DEF Spec

-----------------------------------------------------------------------------
(* The sweep: what its listing knew of the candidates, and what can have been *)
(* stored since.                                                              *)

QuietBefore(log, id, at) ==
    \A e \in log : e.sid = id => e.receivedAt < at - Idle \/ e.receivedAt >= at

NoneBefore(log, id, at) == \A e \in log : e.sid = id => e.receivedAt >= at

\* A candidate: how the listing found it, and what has become of it.
Candidate(id, row, at, tbl, log) ==
    /\ row \in SessionRow
    /\ Follows(row, tbl[id])
    /\ QuietBefore(log, id, at)
    /\ NoneBefore(log, id, at) => row.startedAt < at - Idle

SweepKept ==
    /\ reaper.pc # "idle" => reaper.at <= now
    /\ reaper.pc \in {"end", "publish"} =>
          \A id \in reaper.todo :
              Candidate(id, reaper.listed[id], reaper.at, sessions, events)

LEMMA InitSweepKept == Init => SweepKept
BY IdleReaperOK DEF Init, SweepKept

LEMMA FollowsOn ==
    ASSUME NEW r \in SessionRow, NEW s \in SessionRow \cup {NoRow},
           NEW t \in SessionRow \cup {NoRow}, Follows(r, s), Follows(s, t)
    PROVE  Follows(r, t)
<1>1. r # NoRow /\ s # NoRow /\ t # NoRow
  BY RowKinds DEF Follows
<1>2. r.lastWebhookSeq \in Int /\ s.lastWebhookSeq \in Int /\ t.lastWebhookSeq \in Int
  BY <1>1 DEF SessionRow
<1>3. QED
  BY <1>1, <1>2 DEF Follows

\* An event stored during the sweep is not older than the sweep.
LEMMA QuietStaysQuiet ==
    ASSUME TypeOK, [Next]_vars, NEW id, NEW at \in Nat, at <= now,
           QuietBefore(events, id, at)
    PROVE  QuietBefore(events', id, at)
<1>1. ASSUME NEW e \in events' PROVE e \in events \/ e.receivedAt = now
  <2>1. ASSUME NEW w \in Workers, InsertEvent(w)
        PROVE  e \in events \/ e.receivedAt = now
    BY <1>1, <2>1 DEF InsertEvent
  <2>2. ASSUME NEW w \in Workers, ~InsertEvent(w),
               Receive(w) \/ Statement(w) \/ RequestFails(w)
        PROVE  events' = events
    BY <2>2 DEF Statement, Receive, ReadForLeft, InsertSession, InsertConflict, GetExisting,
       EnrichSession, SetParticipantCount, EndSession, Update, FinishBatch, PublishSession,
       PublishActivity, Respond, RequestFails
  <2>3. ASSUME Sweep \/ SweepFails \/ Restart \/ Tick \/ UNCHANGED vars
        PROVE  events' = events
    BY <2>3 DEF Sweep, StartSweep, ListIdle, EndIdle, PublishReaped, FinishSweep, SweepFails,
       Restart, Tick, vars
  <2>4. QED
    BY <1>1, <2>1, <2>2, <2>3 DEF Next
<1>2. now \in Nat
  BY DEF TypeOK
<1>3. QED
  BY <1>1, <1>2 DEF QuietBefore

\* A candidate stays one, whatever statements of others come between.
LEMMA CandidateStays ==
    ASSUME TypeOK, LocalsOK, [Next]_vars, NEW id \in SessionIds, NEW row,
           NEW at \in Nat, at <= now, Candidate(id, row, at, sessions, events)
    PROVE  Candidate(id, row, at, sessions', events')
<1>1. Follows(sessions[id], sessions'[id]) /\ events \subseteq events'
  BY TablesOnlyGrow DEF RowsFollow
<1>2. Follows(row, sessions'[id])
  <2>1. /\ row \in SessionRow /\ sessions[id] \in SessionRow \cup {NoRow}
        /\ sessions'[id] \in SessionRow \cup {NoRow}
    BY LocalsInductive DEF Candidate, TypeOK
  <2>2. QED
    BY <1>1, <2>1, FollowsOn DEF Candidate
<1>3. NoneBefore(events', id, at) => NoneBefore(events, id, at)
  BY <1>1 DEF NoneBefore
<1>4. QED
  BY <1>2, <1>3, QuietStaysQuiet DEF Candidate

LEMMA SweepKeptInductive ==
    ASSUME TypeOK, LocalsOK, SweepKept, [Next]_vars
    PROVE  SweepKept'
<1>0. reaper \in SweepFrame /\ reaper.at \in Nat /\ now \in Nat /\ Idle \in Nat
  BY BoundAssumption DEF TypeOK, SweepFrame
<1>1. now' \in Nat /\ now <= now'
  <2>1. ASSUME NEW w \in Workers, Receive(w) \/ Statement(w) \/ RequestFails(w)
        PROVE  now' = now
    BY <2>1 DEF Statement, Receive, ReadForLeft, InsertSession, InsertConflict, GetExisting,
       EnrichSession, SetParticipantCount, EndSession, Update, InsertEvent, FinishBatch,
       PublishSession, PublishActivity, Respond, RequestFails
  <2>2. ASSUME Sweep \/ SweepFails \/ Restart \/ UNCHANGED vars
        PROVE  now' = now
    BY <2>2 DEF Sweep, StartSweep, ListIdle, EndIdle, PublishReaped, FinishSweep, SweepFails,
       Restart, vars
  <2>3. Tick => now' = now + 1
    BY DEF Tick
  <2>4. QED
    BY <1>0, <2>1, <2>2, <2>3 DEF Next
<1>2. ASSUME reaper.pc \in {"end", "publish"}, reaper'.at = reaper.at,
             reaper'.listed = reaper.listed, reaper'.todo \subseteq reaper.todo
      PROVE  SweepKept'
  <2>1. reaper.todo \subseteq SessionIds /\ reaper.at <= now
    BY <1>0, <1>2 DEF SweepFrame, SweepKept
  <2>2. ASSUME NEW id \in reaper.todo
        PROVE  Candidate(id, reaper.listed[id], reaper.at, sessions', events')
    BY <1>0, <1>2, <2>1, <2>2, CandidateStays DEF SweepKept
  <2>3. reaper'.at <= now'
    BY <1>0, <1>1, <1>2, <2>1
  <2>4. QED
    BY <1>2, <2>2, <2>3 DEF SweepKept
<1>3. CASE reaper' = reaper
  <2>1. CASE reaper.pc \in {"end", "publish"}
    BY <1>2, <1>3, <2>1
  <2>2. CASE reaper.pc \notin {"end", "publish"}
    BY <1>0, <1>1, <1>3, <2>2 DEF SweepKept
  <2>3. QED
    BY <2>1, <2>2
<1>4. CASE StartSweep
  <2>1. reaper'.pc = "list" /\ reaper'.at = now
    BY <1>0, <1>4 DEF StartSweep, SweepFrame
  <2>2. QED
    BY <1>1, <2>1 DEF SweepKept
<1>5. CASE ListIdle
  <2> DEFINE idle == ListIdleLiveSessions(sessions, events, reaper.at - Idle)
             listed == [id \in SessionIds |-> IF id \in idle THEN sessions[id] ELSE NoRow]
  <2>1. /\ reaper'.pc = "end" /\ reaper'.at = reaper.at /\ reaper'.listed = listed
        /\ reaper'.todo = idle /\ sessions' = sessions /\ events' = events
    BY <1>0, <1>5 DEF ListIdle, SweepFrame
  <2>2. ASSUME NEW id \in idle
        PROVE  Candidate(id, listed[id], reaper.at, sessions, events)
    <3>1. IsIdle(sessions, events, id, reaper.at - Idle) /\ id \in SessionIds
      BY <2>2 DEF ListIdleLiveSessions, TypeOK
    <3>2. listed[id] = sessions[id] /\ sessions[id] \in SessionRow
      BY <2>2, <3>1, RowKinds DEF IsIdle, TypeOK
    <3>3. Follows(sessions[id], sessions[id])
      BY <3>1, RowFollowsItself
    <3>4. \A e \in events : e.sid = id => e.receivedAt < reaper.at - Idle
      BY <3>1 DEF IsIdle
    <3>5. NoneBefore(events, id, reaper.at) => sessions[id].startedAt < reaper.at - Idle
      <4>1. ASSUME NoneBefore(events, id, reaper.at), NEW e \in events, e.sid = id
            PROVE  FALSE
        <5>1. e.receivedAt \in Nat
          BY <4>1 DEF TypeOK, Event
        <5>2. e.receivedAt < reaper.at - Idle /\ e.receivedAt >= reaper.at
          BY <3>4, <4>1 DEF NoneBefore
        <5>3. QED
          BY <1>0, <5>1, <5>2
      <4>2. NoneBefore(events, id, reaper.at) => {e \in events : e.sid = id} = {}
        BY <4>1
      <4>3. QED
        BY <3>1, <4>2 DEF IsIdle
    <3> HIDE DEF listed
    <3>6. QED
      BY <3>2, <3>3, <3>4, <3>5 DEF Candidate, QuietBefore
  <2>3. reaper.at <= now
    BY <1>5 DEF SweepKept, ListIdle
  <2> HIDE DEF idle, listed
  <2>4. QED
    BY <1>0, <1>1, <2>1, <2>2, <2>3 DEF SweepKept
<1>6. CASE EndIdle \/ PublishReaped
  BY <1>0, <1>2, <1>6 DEF EndIdle, PublishReaped, SweepFrame
<1>7. CASE FinishSweep \/ SweepFails \/ Restart
  BY <1>7, IdleReaperOK DEF FinishSweep, SweepFails, Restart, SweepKept
<1>8. ASSUME NEW w \in Workers, Receive(w) \/ Statement(w) \/ RequestFails(w)
      PROVE  reaper' = reaper
  BY <1>8 DEF Statement, Receive, ReadForLeft, InsertSession, InsertConflict, GetExisting,
     EnrichSession, SetParticipantCount, EndSession, Update, InsertEvent, FinishBatch,
     PublishSession, PublishActivity, Respond, RequestFails
<1>9. CASE Tick \/ UNCHANGED vars
  BY <1>3, <1>9 DEF Tick, vars
<1>10. QED
  BY <1>3, <1>4, <1>5, <1>6, <1>7, <1>8, <1>9 DEF Next, Sweep

\* Only EndIdle ends a row and moves the reaper, and it takes a candidate.
LEMMA ReapedWasCandidate ==
    ASSUME TypeOK, LocalsOK, SweepKept, [Next]_vars, NEW id \in SessionIds, ReaperEnds(id)
    PROVE  /\ Candidate(id, reaper.listed[id], reaper.at, sessions, events)
           /\ reaper.at \in Nat
<1>1. sessions[id] # sessions'[id] /\ reaper' # reaper
  BY DEF ReaperEnds
<1>2. EndIdle
  <2>1. ASSUME NEW w \in Workers, Receive(w) \/ Statement(w) \/ RequestFails(w)
        PROVE  reaper' = reaper
    BY <2>1 DEF Statement, Receive, ReadForLeft, InsertSession, InsertConflict, GetExisting,
       EnrichSession, SetParticipantCount, EndSession, Update, InsertEvent, FinishBatch,
       PublishSession, PublishActivity, Respond, RequestFails
  <2>2. ASSUME \/ StartSweep \/ ListIdle \/ PublishReaped \/ FinishSweep \/ SweepFails
               \/ Restart \/ Tick \/ UNCHANGED vars
        PROVE  sessions' = sessions
    BY <2>2 DEF StartSweep, ListIdle, PublishReaped, FinishSweep, SweepFails, Restart, Tick, vars
  <2>3. QED
    BY <1>1, <2>1, <2>2 DEF Next, Sweep
<1>3. reaper.pc = "end" /\ id \in reaper.todo
  <2>1. PICK c \in reaper.todo :
          \/ sessions' = [sessions EXCEPT ![c] = Ended(sessions[c], reaper.at, 0)]
          \/ sessions' = sessions
    BY <1>2 DEF EndIdle
  <2>2. id = c
    BY <1>1, <2>1 DEF TypeOK
  <2>3. QED
    BY <1>2, <2>2 DEF EndIdle
<1>4. QED
  BY <1>3 DEF SweepKept, TypeOK, SweepFrame

\* What the candidate's past says of the row the reaper ends.
LEMMA ReapedWasIdle ==
    ASSUME TypeOK, LocalsOK, SweepKept, [Next]_vars, NEW id \in SessionIds, ReaperEnds(id)
    PROVE  LET earlier == {e \in events : e.sid = id /\ e.receivedAt < reaper.at}
           IN  /\ \A e \in earlier : e.receivedAt < reaper.at - Idle
               /\ earlier = {} =>
                     \/ sessions[id].startedAt < reaper.at - Idle
                     \/ sessions[id].lastWebhookSeq > reaper.listed[id].lastWebhookSeq
<1> DEFINE earlier == {e \in events : e.sid = id /\ e.receivedAt < reaper.at}
           row == reaper.listed[id]
<1>1. Candidate(id, row, reaper.at, sessions, events) /\ reaper.at \in Nat
  BY ReapedWasCandidate
<1>2. \A e \in events : e.receivedAt \in Nat
  BY DEF TypeOK, Event
<1>3. \A e \in earlier : e.receivedAt < reaper.at - Idle
  <2>1. SUFFICES ASSUME NEW e \in events, e.sid = id, e.receivedAt < reaper.at
                 PROVE  e.receivedAt < reaper.at - Idle
    OBVIOUS
  <2>2. e.receivedAt < reaper.at - Idle \/ e.receivedAt >= reaper.at
    BY <1>1, <2>1 DEF Candidate, QuietBefore
  <2>3. QED
    BY <1>1, <1>2, <2>1, <2>2
<1>4. ASSUME earlier = {}
      PROVE  \/ sessions[id].startedAt < reaper.at - Idle
             \/ sessions[id].lastWebhookSeq > row.lastWebhookSeq
  <2>1. NoneBefore(events, id, reaper.at)
    BY <1>1, <1>2, <1>4 DEF NoneBefore
  <2>2. row.startedAt < reaper.at - Idle /\ row \in SessionRow /\ Follows(row, sessions[id])
    BY <1>1, <2>1 DEF Candidate
  <2>3. sessions[id] \in SessionRow
    BY RowKinds DEF ReaperEnds, TypeOK
  <2>4. /\ row.lastWebhookSeq <= sessions[id].lastWebhookSeq
        /\ row.lastWebhookSeq = sessions[id].lastWebhookSeq => row.startedAt = sessions[id].startedAt
    BY <2>2, RowKinds DEF Follows
  <2>5. row.lastWebhookSeq \in Int /\ sessions[id].lastWebhookSeq \in Int
    BY <2>2, <2>3 DEF SessionRow
  <2>6. QED
    BY <2>2, <2>4, <2>5
<1>5. QED
  BY <1>3, <1>4

\* A session the reaper ends had no event in the idle time before its sweep,
\* and without any earlier event it had started before that time, unless a
\* webhook came after the listing: only what arrived during the sweep is missed.
THEOREM ReaperMissesOnlyTheSweep == Spec => ReapsOnlyIdleAtSweepStart
<1>1. TypeOK /\ LocalsOK /\ SweepKept /\ [Next]_vars => SweepKept'
  BY SweepKeptInductive
<1>2. TypeOK /\ LocalsOK /\ SweepKept /\ [Next]_vars
        => [\A id \in SessionIds : ReaperEnds(id) =>
              LET earlier == {e \in events : e.sid = id /\ e.receivedAt < reaper.at}
              IN  /\ \A e \in earlier : e.receivedAt < reaper.at - Idle
                  /\ earlier = {} =>
                        \/ sessions[id].startedAt < reaper.at - Idle
                        \/ sessions[id].lastWebhookSeq > reaper.listed[id].lastWebhookSeq]_vars
  BY ReapedWasIdle
<1>3. QED
  BY <1>1, <1>2, InitSweepKept, LifecycleTypes, PTL DEF Spec, ReapsOnlyIdleAtSweepStart

-----------------------------------------------------------------------------
(* The announcements a session is owed.  Each write of its row allows one;   *)
(* whoever has written the row and not yet called Publish holds it.          *)

AnnouncedIn(feed, id) ==
    {i \in DOMAIN feed : feed[i].event = "session" /\ feed[i].id = id}

Holds(f) == f.pc = "publish" \/ (f.pc \in {"enrich", "count"} /\ f.inserted)

HoldersIn(frames, id) == {w \in Workers : Holds(frames[w]) /\ frames[w].req.id = id}

HeldBySweep(r, id) == IF r.pc = "publish" /\ r.cur = id THEN 1 ELSE 0

Balanced(id) ==
    /\ IsFiniteSet(HoldersIn(proc, id))
    /\ Cardinality(AnnouncedIn(published, id)) + Cardinality(HoldersIn(proc, id))
          + HeldBySweep(reaper, id) <= writes[id]

WritesBalanced == \A id \in SessionIds : Balanced(id)

LEMMA AnnouncedIsFinite ==
    ASSUME NEW S, NEW feed \in Seq(S), NEW id
    PROVE  IsFiniteSet(AnnouncedIn(feed, id)) /\ Cardinality(AnnouncedIn(feed, id)) \in Nat
<1>1. AnnouncedIn(feed, id) \in SUBSET (1..Len(feed)) /\ Len(feed) \in Nat
  BY LenProperties DEF AnnouncedIn
<1>2. IsFiniteSet(1..Len(feed))
  BY <1>1, FS_Interval
<1>3. QED
  BY <1>1, <1>2, FS_Subset, FS_CardinalityType

\* One more message is at most one more announcement of its session, and none of another.
LEMMA OneMoreAnnouncement ==
    ASSUME TypeOK, NEW m \in Message, published' = Append(published, m), NEW id
    PROVE  /\ Cardinality(AnnouncedIn(published', id)) <= Cardinality(AnnouncedIn(published, id)) + 1
           /\ (m.event # "session" \/ m.id # id) => AnnouncedIn(published', id) = AnnouncedIn(published, id)
<1> DEFINE n == Len(published)  A == AnnouncedIn(published, id)
           B == AnnouncedIn(published', id)
<1>1. /\ n \in Nat
      /\ DOMAIN published = 1..n
      /\ DOMAIN published' = 1..(n + 1)
      /\ published'[n + 1] = m
      /\ \A i \in 1..n : published'[i] = published[i]
  BY AppendProperties DEF TypeOK
<1>2. B \subseteq A \cup {n + 1}
  BY <1>1 DEF AnnouncedIn
<1>3. (m.event # "session" \/ m.id # id) => B = A
  BY <1>1 DEF AnnouncedIn
<1>4. IsFiniteSet(A) /\ Cardinality(A) \in Nat
  BY AnnouncedIsFinite DEF TypeOK
<1> DEFINE C == A \cup {n + 1}
<1> HIDE DEF A, B
<1>5. IsFiniteSet(C) /\ (Cardinality(C) = Cardinality(A) \/ Cardinality(C) = Cardinality(A) + 1)
  BY <1>4, FS_AddElement
<1> HIDE DEF C
<1>6. Cardinality(B) <= Cardinality(C)
  BY <1>2, <1>5, FS_Subset DEF C
<1>7. Cardinality(B) \in Nat /\ Cardinality(C) \in Nat
  BY <1>2, <1>5, FS_Subset, FS_CardinalityType DEF C
<1>8. QED
  BY <1>3, <1>4, <1>5, <1>6, <1>7 DEF A, B

LEMMA InitWritesBalanced == Init => WritesBalanced
<1> SUFFICES ASSUME Init, NEW id \in SessionIds PROVE Balanced(id)
  BY DEF WritesBalanced
<1>1. AnnouncedIn(published, id) = {}
  BY EmptySeq DEF Init, AnnouncedIn
<1>2. HoldersIn(proc, id) = {}
  BY DEF Init, HoldersIn, Holds, IdleFrame
<1>3. HeldBySweep(reaper, id) = 0
  BY IdleReaperOK DEF Init, HeldBySweep
<1>4. writes[id] = 0
  BY DEF Init
<1>5. QED
  BY <1>1, <1>2, <1>3, <1>4, FS_EmptySet DEF Balanced

\* The three ways a step may move the balance of a session.
LEMMA BalanceKept ==
    ASSUME TypeOK, NEW id \in SessionIds, Balanced(id),
           HoldersIn(proc', id) \subseteq HoldersIn(proc, id),
           HeldBySweep(reaper', id) <= HeldBySweep(reaper, id),
           AnnouncedIn(published', id) = AnnouncedIn(published, id),
           writes'[id] = writes[id]
    PROVE  Balanced(id)'
<1> DEFINE H == HoldersIn(proc, id)  G == HoldersIn(proc', id)
           a == Cardinality(AnnouncedIn(published, id))
<1>1. IsFiniteSet(G) /\ Cardinality(G) <= Cardinality(H) /\ Cardinality(G) \in Nat
      /\ Cardinality(H) \in Nat
  BY FS_Subset, FS_CardinalityType DEF Balanced
<1>2. a \in Nat /\ writes[id] \in Nat
  BY AnnouncedIsFinite DEF TypeOK
<1>3. HeldBySweep(reaper, id) \in Nat /\ HeldBySweep(reaper', id) \in Nat
  BY DEF HeldBySweep
<1>4. a + Cardinality(H) + HeldBySweep(reaper, id) <= writes[id]
  BY DEF Balanced
<1> HIDE DEF H, G, a
<1>5. a + Cardinality(G) + HeldBySweep(reaper', id) <= writes[id]
  BY <1>1, <1>2, <1>3, <1>4
<1>6. QED
  BY <1>1, <1>5 DEF Balanced, G, a

LEMMA BalanceWrite ==
    ASSUME TypeOK, NEW id \in SessionIds, Balanced(id), NEW w,
           HoldersIn(proc', id) \subseteq HoldersIn(proc, id) \cup {w},
           reaper' = reaper, published' = published,
           writes'[id] = writes[id] + 1
    PROVE  Balanced(id)'
<1> DEFINE H == HoldersIn(proc, id)  G == HoldersIn(proc', id)
           a == Cardinality(AnnouncedIn(published, id))
<1>1. IsFiniteSet(H) /\ Cardinality(H) \in Nat
  BY FS_CardinalityType DEF Balanced
<1>2. IsFiniteSet(H \cup {w}) /\ Cardinality(H \cup {w}) <= Cardinality(H) + 1
  BY <1>1, FS_AddElement
<1>3. IsFiniteSet(G) /\ Cardinality(G) <= Cardinality(H \cup {w})
  BY <1>2, FS_Subset
<1>4. Cardinality(G) \in Nat /\ Cardinality(H \cup {w}) \in Nat
  BY <1>2, <1>3, FS_CardinalityType
<1>5. a \in Nat /\ writes[id] \in Nat
  BY AnnouncedIsFinite DEF TypeOK
<1>6. HeldBySweep(reaper, id) \in Nat
  BY DEF HeldBySweep
<1>7. a + Cardinality(H) + HeldBySweep(reaper, id) <= writes[id]
  BY DEF Balanced
<1> HIDE DEF H, G, a
<1>8. a + Cardinality(G) + HeldBySweep(reaper, id) <= writes'[id]
  BY <1>1, <1>2, <1>3, <1>4, <1>5, <1>6, <1>7
<1>9. QED
  BY <1>3, <1>8 DEF Balanced, G, a

\* A request that publishes gives its hold up for the announcement.
LEMMA BalancePublish ==
    ASSUME TypeOK, NEW id \in SessionIds, Balanced(id), NEW w \in HoldersIn(proc, id),
           HoldersIn(proc', id) \subseteq HoldersIn(proc, id) \ {w},
           NEW m \in Message, published' = Append(published, m),
           reaper' = reaper, writes' = writes
    PROVE  Balanced(id)'
<1> DEFINE H == HoldersIn(proc, id)  G == HoldersIn(proc', id)
           a == Cardinality(AnnouncedIn(published, id))
           b == Cardinality(AnnouncedIn(published', id))
<1>1. IsFiniteSet(H) /\ Cardinality(H) \in Nat
  BY FS_CardinalityType DEF Balanced
<1>2. IsFiniteSet(H \ {w}) /\ Cardinality(H \ {w}) = Cardinality(H) - 1
  BY <1>1, FS_RemoveElement
<1>3. IsFiniteSet(G) /\ Cardinality(G) <= Cardinality(H \ {w})
  BY <1>2, FS_Subset
<1>4. Cardinality(G) \in Nat
  BY <1>3, FS_CardinalityType
<1>5. a \in Nat /\ writes[id] \in Nat /\ b <= a + 1
  BY AnnouncedIsFinite, OneMoreAnnouncement DEF TypeOK
<1>6. published' \in Seq(Message)
  BY AppendProperties DEF TypeOK
<1>7. b \in Nat
  BY <1>6, AnnouncedIsFinite
<1>8. HeldBySweep(reaper, id) \in Nat
  BY DEF HeldBySweep
<1>9. a + Cardinality(H) + HeldBySweep(reaper, id) <= writes[id]
  BY DEF Balanced
<1> HIDE DEF H, G, a, b
<1>10. b + Cardinality(G) + HeldBySweep(reaper, id) <= writes[id]
  BY <1>1, <1>2, <1>3, <1>4, <1>5, <1>7, <1>8, <1>9
<1>11. QED
  BY <1>3, <1>10 DEF Balanced, G, b

\* The sweep's own hold: taken by EndIdle, given up by PublishReaped.
LEMMA BalanceSweep ==
    ASSUME TypeOK, NEW id \in SessionIds, Balanced(id), proc' = proc,
           \/ /\ HeldBySweep(reaper, id) = 0 /\ HeldBySweep(reaper', id) <= 1
              /\ published' = published /\ writes'[id] = writes[id] + 1
           \/ /\ HeldBySweep(reaper, id) = 1 /\ HeldBySweep(reaper', id) = 0
              /\ writes' = writes
              /\ \E m \in Message : published' = Append(published, m)
    PROVE  Balanced(id)'
<1> DEFINE h == Cardinality(HoldersIn(proc, id))
           a == Cardinality(AnnouncedIn(published, id))
           b == Cardinality(AnnouncedIn(published', id))
<1>1. h \in Nat
  BY FS_CardinalityType DEF Balanced
<1>2. a \in Nat /\ writes[id] \in Nat
  BY AnnouncedIsFinite DEF TypeOK
<1>3. HeldBySweep(reaper, id) \in Nat /\ HeldBySweep(reaper', id) \in Nat
  BY DEF HeldBySweep
<1>4. a + h + HeldBySweep(reaper, id) <= writes[id]
  BY DEF Balanced
<1>5. CASE /\ HeldBySweep(reaper, id) = 0 /\ HeldBySweep(reaper', id) <= 1
           /\ published' = published /\ writes'[id] = writes[id] + 1
  <2> HIDE DEF h, a
  <2>1. a + h + HeldBySweep(reaper', id) <= writes'[id]
    BY <1>1, <1>2, <1>3, <1>4, <1>5
  <2>2. QED
    BY <1>5, <2>1 DEF Balanced, h, a
<1>6. CASE /\ HeldBySweep(reaper, id) = 1 /\ HeldBySweep(reaper', id) = 0
           /\ writes' = writes
           /\ \E m \in Message : published' = Append(published, m)
  <2>1. PICK m \in Message : published' = Append(published, m)
    BY <1>6
  <2>2. published' \in Seq(Message)
    BY <2>1, AppendProperties DEF TypeOK
  <2>3. b \in Nat /\ b <= a + 1
    BY <2>1, <2>2, AnnouncedIsFinite, OneMoreAnnouncement
  <2> HIDE DEF h, a, b
  <2>4. b + h + HeldBySweep(reaper', id) <= writes[id]
    BY <1>1, <1>2, <1>3, <1>4, <1>6, <2>3
  <2>5. QED
    BY <1>6, <2>4 DEF Balanced, h, b
<1>7. QED
  BY <1>5, <1>6

\* A request holds an announcement of its own session only.
LEMMA HoldersStep ==
    ASSUME TypeOK, LocalsOK, NEW w \in Workers, Statement(w), ~Respond(w), NEW id
    PROVE  /\ HoldersIn(proc', id) \subseteq HoldersIn(proc, id) \cup {w}
           /\ (id # Id(w) \/ (Holds(proc'[w]) => Holds(proc[w])))
                 => HoldersIn(proc', id) \subseteq HoldersIn(proc, id)
BY RequestStep DEF HoldersIn, Id

\* The statements that only read take no hold.
LEMMA ReadsHoldNothing ==
    ASSUME TypeOK, LocalsOK, NEW w \in Workers,
           \/ ReadForLeft(w) \/ InsertConflict(w) \/ GetExisting(w)
           \/ InsertEvent(w) \/ FinishBatch(w) \/ PublishActivity(w)
    PROVE  ~Holds(proc'[w])
<1>1. proc \in [Workers -> Frame] /\ proc[w] \in Frame /\ FrameOK(proc[w])
  BY DEF TypeOK, LocalsOK
<1>2. CASE ReadForLeft(w)
  BY <1>1, <1>2 DEF ReadForLeft, Frame, Holds, Pc
<1>3. CASE InsertConflict(w)
  BY <1>1, <1>3 DEF InsertConflict, Frame, Holds, Pc
<1>4. CASE GetExisting(w)
  <2>1. ~proc[w].inserted
    BY <1>1, <1>4 DEF GetExisting, FrameOK, Pc
  <2>2. /\ proc'[w].inserted = proc[w].inserted
        /\ proc'[w].pc = AfterFindOrCreate(Category(w), FALSE)
    BY <1>1, <1>4 DEF GetExisting, Frame
  <2>3. QED
    BY <2>1, <2>2 DEF AfterFindOrCreate, Holds
<1>5. CASE InsertEvent(w)
  BY <1>1, <1>5 DEF InsertEvent, Frame, Holds, Pc
<1>6. CASE FinishBatch(w)
  BY <1>1, <1>6 DEF FinishBatch, Frame, Holds, Pc
<1>7. CASE PublishActivity(w)
  BY <1>1, <1>7 DEF PublishActivity, Frame, Holds, Pc
<1>8. QED
  BY <1>2, <1>3, <1>4, <1>5, <1>6, <1>7

\* A committed write of a request's row pays for the announcement it may hold.
LEMMA BalanceOfWrite ==
    ASSUME TypeOK, LocalsOK, WritesBalanced, NEW w \in Workers, Id(w) \in SessionIds,
           Statement(w), ~Respond(w),
           writes' = [writes EXCEPT ![Id(w)] = @ + 1], reaper' = reaper, published' = published
    PROVE  WritesBalanced'
<1> SUFFICES ASSUME NEW id \in SessionIds PROVE Balanced(id)'
  BY DEF WritesBalanced
<1>1. Balanced(id)
  BY DEF WritesBalanced
<1>2. CASE id = Id(w)
  <2>1. writes'[id] = writes[id] + 1
    BY <1>2 DEF TypeOK
  <2>2. QED
    BY <1>1, <2>1, BalanceWrite, HoldersStep
<1>3. CASE id # Id(w)
  <2>1. writes'[id] = writes[id]
    BY <1>3 DEF TypeOK
  <2>2. HeldBySweep(reaper', id) <= HeldBySweep(reaper, id)
    BY DEF HeldBySweep
  <2>3. HoldersIn(proc', id) \subseteq HoldersIn(proc, id)
    BY <1>3, HoldersStep
  <2>4. QED
    BY <1>1, <2>1, <2>2, <2>3, BalanceKept
<1>4. QED
  BY <1>2, <1>3

\* A step that writes no row and gives no request a hold.
LEMMA BalanceOfRest ==
    ASSUME TypeOK, WritesBalanced, writes' = writes,
           \A id \in SessionIds : HoldersIn(proc', id) \subseteq HoldersIn(proc, id),
           reaper' = reaper \/ reaper'.pc # "publish",
           \/ published' = published
           \/ \E m \in Message : m.event # "session" /\ published' = Append(published, m)
    PROVE  WritesBalanced'
<1> SUFFICES ASSUME NEW id \in SessionIds PROVE Balanced(id)'
  BY DEF WritesBalanced
<1>1. Balanced(id) /\ HoldersIn(proc', id) \subseteq HoldersIn(proc, id)
  BY DEF WritesBalanced
<1>2. AnnouncedIn(published', id) = AnnouncedIn(published, id)
  BY OneMoreAnnouncement
<1>3. HeldBySweep(reaper', id) <= HeldBySweep(reaper, id)
  BY DEF HeldBySweep
<1>4. QED
  BY <1>1, <1>2, <1>3, BalanceKept

LEMMA BalanceOfUpdate ==
    ASSUME TypeOK, LocalsOK, WritesBalanced, NEW w \in Workers, Id(w) \in SessionIds,
           Statement(w), ~Respond(w), Pc(w) \in {"enrich", "count", "end"},
           NEW accepts \in BOOLEAN, NEW row, Update(w, accepts, row)
    PROVE  WritesBalanced'
<1>1. CASE accepts
  BY <1>1, BalanceOfWrite DEF Update
<1>2. CASE ~accepts
  <2>1. proc \in [Workers -> Frame] /\ proc[w] \in Frame /\ FrameOK(proc[w])
    BY DEF TypeOK, LocalsOK
  <2>2. proc'[w].pc = IF proc[w].inserted THEN "publish" ELSE "reply"
    BY <1>2, <2>1 DEF Update, Frame
  <2>3. Holds(proc'[w]) => Holds(proc[w])
    BY <2>1, <2>2 DEF Holds, FrameOK, Pc
  <2>4. UNCHANGED <<writes, reaper, published>>
    BY <1>2 DEF Update
  <2>5. QED
    BY <2>3, <2>4, HoldersStep, BalanceOfRest
<1>3. QED
  BY <1>1, <1>2

LEMMA BalanceOfPublish ==
    ASSUME TypeOK, LocalsOK, WritesBalanced, NEW w \in Workers, PublishSession(w)
    PROVE  WritesBalanced'
<1> SUFFICES ASSUME NEW id \in SessionIds PROVE Balanced(id)'
  BY DEF WritesBalanced
<1> DEFINE m == SessionMessage(Id(w), proc[w].snap)
<1>1. Balanced(id)
  BY DEF WritesBalanced
<1>2. /\ proc \in [Workers -> Frame] /\ proc[w] \in Frame /\ FrameOK(proc[w])
      /\ Id(w) \in SessionIds /\ Pc(w) = "publish"
  BY BusyFrame DEF PublishSession, TypeOK
<1>3. m \in Message /\ m.id = Id(w)
  BY <1>2 DEF Message, SessionMessage, Frame, FrameOK, Pc
<1>4. proc'[w].pc \in {"events", "reply"}
  BY <1>2 DEF PublishSession, Frame
<1>5. ~Holds(proc'[w]) /\ Holds(proc[w])
  <2>1. Holds(proc[w])
    BY <1>2 DEF Holds, Pc
  <2>2. ~Holds(proc'[w])
    BY <1>4 DEF Holds
  <2>3. QED
    BY <2>1, <2>2
<1>6. Statement(w) /\ ~Respond(w)
  BY <1>2 DEF Statement, Respond
<1>7. /\ published' = Append(published, m) /\ reaper' = reaper /\ writes' = writes
  BY DEF PublishSession
<1> HIDE DEF m
<1>8. HoldersIn(proc', id) \subseteq HoldersIn(proc, id)
  BY <1>5, <1>6, HoldersStep
<1>9. CASE id = Id(w)
  <2>1. w \in HoldersIn(proc, id) /\ w \notin HoldersIn(proc', id)
    BY <1>5, <1>9 DEF HoldersIn, Id
  <2>2. HoldersIn(proc', id) \subseteq HoldersIn(proc, id) \ {w}
    BY <1>8, <2>1
  <2>3. QED
    BY <1>1, <1>3, <1>7, <2>1, <2>2, BalancePublish
<1>10. CASE id # Id(w)
  <2>1. AnnouncedIn(published', id) = AnnouncedIn(published, id)
    BY <1>3, <1>7, <1>10, OneMoreAnnouncement
  <2>2. HeldBySweep(reaper', id) <= HeldBySweep(reaper, id)
    BY <1>7 DEF HeldBySweep
  <2>3. QED
    BY <1>1, <1>7, <1>8, <2>1, <2>2, BalanceKept
<1>11. QED
  BY <1>9, <1>10

LEMMA BalanceOfEndIdle ==
    ASSUME TypeOK, LocalsOK, WritesBalanced, EndIdle
    PROVE  WritesBalanced'
<1> SUFFICES ASSUME NEW id \in SessionIds PROVE Balanced(id)'
  BY DEF WritesBalanced
<1>1. /\ Balanced(id) /\ reaper.pc = "end" /\ HeldBySweep(reaper, id) = 0
      /\ proc' = proc /\ published' = published
  BY DEF WritesBalanced, EndIdle, HeldBySweep
<1>2. PICK c \in reaper.todo :
        \/ /\ reaper'.pc = "publish" /\ reaper'.cur = c
           /\ writes' = [writes EXCEPT ![c] = @ + 1]
        \/ reaper'.pc = "end" /\ writes' = writes
  BY <1>1 DEF EndIdle, TypeOK, SweepFrame
<1>3. CASE reaper'.pc = "publish" /\ reaper'.cur = c /\ writes' = [writes EXCEPT ![c] = @ + 1]
  <2>1. CASE id = c
    <3>1. writes'[id] = writes[id] + 1 /\ HeldBySweep(reaper', id) <= 1
      BY <1>3, <2>1 DEF TypeOK, HeldBySweep
    <3>2. QED
      BY <1>1, <3>1, BalanceSweep
  <2>2. CASE id # c
    <3>1. writes'[id] = writes[id] /\ HeldBySweep(reaper', id) = 0
      BY <1>3, <2>2 DEF TypeOK, HeldBySweep
    <3>2. QED
      BY <1>1, <3>1, BalanceKept
  <2>3. QED
    BY <2>1, <2>2
<1>4. CASE reaper'.pc = "end" /\ writes' = writes
  <2>1. HeldBySweep(reaper', id) = 0
    BY <1>4 DEF HeldBySweep
  <2>2. QED
    BY <1>1, <1>4, <2>1, BalanceKept
<1>5. QED
  BY <1>2, <1>3, <1>4

LEMMA BalanceOfPublishReaped ==
    ASSUME TypeOK, LocalsOK, WritesBalanced, PublishReaped
    PROVE  WritesBalanced'
<1> SUFFICES ASSUME NEW id \in SessionIds PROVE Balanced(id)'
  BY DEF WritesBalanced
<1> DEFINE m == SessionMessage(reaper.cur, reaper.snap)
<1>1. /\ Balanced(id) /\ reaper.pc = "publish"
      /\ proc' = proc /\ writes' = writes /\ published' = Append(published, m)
  BY DEF WritesBalanced, PublishReaped
<1>2. m \in Message /\ m.id = reaper.cur
  BY <1>1 DEF LocalsOK, TypeOK, SweepFrame, Message, SessionMessage
<1>3. HeldBySweep(reaper', id) = 0
  BY DEF PublishReaped, HeldBySweep, TypeOK, SweepFrame
<1> HIDE DEF m
<1>4. CASE id = reaper.cur
  <2>1. HeldBySweep(reaper, id) = 1
    BY <1>1, <1>4 DEF HeldBySweep
  <2>2. QED
    BY <1>1, <1>2, <1>3, <2>1, BalanceSweep
<1>5. CASE id # reaper.cur
  <2>1. HeldBySweep(reaper, id) = 0
    BY <1>5 DEF HeldBySweep
  <2>2. AnnouncedIn(published', id) = AnnouncedIn(published, id)
    BY <1>1, <1>2, <1>5, OneMoreAnnouncement
  <2>3. QED
    BY <1>1, <1>3, <2>1, <2>2, BalanceKept
<1>6. QED
  BY <1>4, <1>5

LEMMA WritesBalancedInductive ==
    ASSUME TypeOK, LocalsOK, WritesBalanced, [Next]_vars
    PROVE  WritesBalanced'
<1>1. ~Holds(IdleFrame)
  BY DEF Holds, IdleFrame
<1>2. ASSUME NEW w \in Workers, Receive(w) \/ Respond(w) \/ RequestFails(w)
      PROVE  WritesBalanced'
  <2>1. ~Holds(proc'[w]) /\ \A v \in Workers \ {w} : proc'[v] = proc[v]
    BY <1>1, <1>2, ReceiveStep, ReturnStep DEF Holds
  <2>2. UNCHANGED <<writes, reaper, published>>
    BY <1>2 DEF Receive, Respond, RequestFails
  <2>3. QED
    BY <2>1, <2>2, BalanceOfRest DEF HoldersIn
<1>3. ASSUME NEW w \in Workers, Statement(w), ~Respond(w)
      PROVE  WritesBalanced'
  <2>1. CASE \/ ReadForLeft(w) \/ InsertConflict(w) \/ GetExisting(w)
             \/ InsertEvent(w) \/ FinishBatch(w) \/ PublishActivity(w)
    <3>1. writes' = writes /\ reaper' = reaper
      BY <2>1 DEF ReadForLeft, InsertConflict, GetExisting, InsertEvent, FinishBatch,
         PublishActivity
    <3>2. \/ published' = published
          \/ \E m \in Message : m.event # "session" /\ published' = Append(published, m)
      <4>1. CASE PublishActivity(w)
        <5>1. Pc(w) = "activity" /\ Id(w) \in SessionIds /\ proc[w].rest # <<>>
          BY <4>1, BusyFrame DEF PublishActivity, FrameOK, Pc
        <5>2. ActivityMessage(Id(w), proc[w].req.client, Head(proc[w].rest)) \in Message
          BY <5>1, BatchFrame DEF Message, ActivityMessage
        <5>3. QED
          BY <4>1, <5>2 DEF PublishActivity, ActivityMessage
      <4>2. QED
        BY <2>1, <4>1 DEF ReadForLeft, InsertConflict, GetExisting, InsertEvent, FinishBatch
    <3>3. QED
      BY <1>3, <2>1, <3>1, <3>2, ReadsHoldNothing, HoldersStep, BalanceOfRest
  <2>2. CASE InsertSession(w)
    BY <1>3, <2>2, BusyFrame, BalanceOfWrite DEF InsertSession
  <2>3. CASE EnrichSession(w)
    BY <1>3, <2>3, BusyFrame, BalanceOfUpdate DEF EnrichSession, AcceptsWebhook
  <2>4. CASE SetParticipantCount(w)
    BY <1>3, <2>4, BusyFrame, BalanceOfUpdate DEF SetParticipantCount, AcceptsWebhook
  <2>5. CASE EndSession(w)
    BY <1>3, <2>5, BusyFrame, BalanceOfUpdate DEF EndSession, AcceptsEnd
  <2>6. CASE PublishSession(w)
    BY <2>6, BalanceOfPublish
  <2>7. QED
    BY <1>3, <2>1, <2>2, <2>3, <2>4, <2>5, <2>6 DEF Statement
<1>4. CASE EndIdle \/ PublishReaped
  BY <1>4, BalanceOfEndIdle, BalanceOfPublishReaped
<1>5. CASE StartSweep \/ ListIdle \/ FinishSweep \/ SweepFails \/ Restart \/ Tick \/ UNCHANGED vars
  <2>1. UNCHANGED <<writes, published>> /\ (reaper' = reaper \/ reaper'.pc # "publish")
    BY <1>5, IdleReaperOK DEF StartSweep, ListIdle, FinishSweep, SweepFails, Restart, Tick, vars,
       TypeOK, SweepFrame
  <2>2. proc' = proc \/ proc' = [w \in Workers |-> IdleFrame]
    BY <1>5, OtherStep DEF Sweep
  <2>3. \A id \in SessionIds : HoldersIn(proc', id) \subseteq HoldersIn(proc, id)
    BY <1>1, <2>2 DEF HoldersIn
  <2>4. QED
    BY <2>1, <2>3, BalanceOfRest
<1>6. QED
  BY <1>2, <1>3, <1>4, <1>5 DEF Next, Sweep

\* "... only when a row actually changed": no interleaving, retry or failure
\* makes the server announce a session more often than its row was written.
THEOREM AnnouncesOnlyChanges == Spec => []PublishesOnlyChanges
<1>1. TypeOK /\ LocalsOK /\ WritesBalanced /\ [Next]_vars => WritesBalanced'
  BY WritesBalancedInductive
<1>2. TypeOK /\ WritesBalanced => PublishesOnlyChanges
  <2> SUFFICES ASSUME TypeOK, NEW id \in SessionIds, Balanced(id)
               PROVE  Cardinality(AnnouncedIn(published, id)) <= writes[id]
    BY DEF WritesBalanced, PublishesOnlyChanges, AnnouncedIn
  <2> DEFINE a == Cardinality(AnnouncedIn(published, id))
             h == Cardinality(HoldersIn(proc, id))
  <2>1. a \in Nat /\ writes[id] \in Nat
    BY AnnouncedIsFinite DEF TypeOK
  <2>2. h \in Nat /\ HeldBySweep(reaper, id) \in Nat
    BY FS_CardinalityType DEF Balanced, HeldBySweep
  <2>3. a + h + HeldBySweep(reaper, id) <= writes[id]
    BY DEF Balanced
  <2> HIDE DEF a, h
  <2>4. a <= writes[id]
    BY <2>1, <2>2, <2>3
  <2>5. QED
    BY <2>4 DEF a
<1>3. QED
  BY <1>1, <1>2, InitWritesBalanced, LifecycleTypes, PTL DEF Spec

-----------------------------------------------------------------------------
(* "Every write publishes": as long as no call failed, the current row of a  *)
(* session and a stored event are announced, or held by whoever will do it.  *)

InFeed(feed, m) == \E i \in DOMAIN feed : feed[i] = m

Owes(f, id, row) == Holds(f) /\ f.req.id = id /\ f.snap = row

OwesEvent(f, e) ==
    /\ f.pc = "activity" /\ f.req.id = e.sid
    /\ f.req.client = e.client /\ Head(f.rest) = e.seq

SweepOwes(r, id) == r.pc = "publish" /\ r.cur = id

RowIsAnnounced(row, feed, frames, r, id) ==
    row # NoRow =>
        \/ InFeed(feed, SessionMessage(id, row))
        \/ \E w \in Workers : Owes(frames[w], id, row)
        \/ SweepOwes(r, id)

EventIsAnnounced(e, feed, frames) ==
    \/ InFeed(feed, ActivityMessage(e.sid, e.client, e.seq))
    \/ \E w \in Workers : OwesEvent(frames[w], e)

RowsAnnounced == \A id \in SessionIds :
    RowIsAnnounced(sessions[id], published, proc, reaper, id)

EventsAnnounced == \A e \in events : EventIsAnnounced(e, published, proc)

LEMMA EveryWritePublishesIs ==
    EveryWritePublishes <=> (faults = 0 => RowsAnnounced /\ EventsAnnounced)
BY DEF EveryWritePublishes, RowsAnnounced, EventsAnnounced, RowIsAnnounced, EventIsAnnounced,
   InFeed, Owes, Holds, OwesEvent, SweepOwes, WillPublish, IsPublished, Pc, Id

\* What is published is a message.
LEMMA AnnouncementTypes ==
    ASSUME TypeOK, LocalsOK
    PROVE  /\ \A w \in Workers : PublishSession(w) =>
                 SessionMessage(Id(w), proc[w].snap) \in Message
           /\ \A w \in Workers : PublishActivity(w) =>
                 ActivityMessage(Id(w), proc[w].req.client, Head(proc[w].rest)) \in Message
           /\ PublishReaped => SessionMessage(reaper.cur, reaper.snap) \in Message
<1>1. ASSUME NEW w \in Workers, PublishSession(w)
      PROVE  SessionMessage(Id(w), proc[w].snap) \in Message
  <2>1. /\ proc[w] \in Frame /\ FrameOK(proc[w]) /\ Id(w) \in SessionIds /\ Pc(w) = "publish"
    BY <1>1, BusyFrame DEF PublishSession
  <2>2. QED
    BY <2>1 DEF Message, SessionMessage, Frame, FrameOK, Pc
<1>2. ASSUME NEW w \in Workers, PublishActivity(w)
      PROVE  ActivityMessage(Id(w), proc[w].req.client, Head(proc[w].rest)) \in Message
  <2>1. Pc(w) = "activity" /\ Id(w) \in SessionIds /\ proc[w].rest # <<>>
    BY <1>2, BusyFrame DEF PublishActivity, FrameOK, Pc
  <2>2. QED
    BY <2>1, BatchFrame DEF Message, ActivityMessage
<1>3. PublishReaped => SessionMessage(reaper.cur, reaper.snap) \in Message
  BY DEF PublishReaped, LocalsOK, TypeOK, SweepFrame, Message, SessionMessage
<1>4. QED
  BY <1>1, <1>2, <1>3

\* A step publishes at most one message.
LEMMA PublishStep ==
    ASSUME TypeOK, LocalsOK, [Next]_vars
    PROVE  published' = published \/ \E m \in Message : published' = Append(published, m)
<1>1. ASSUME NEW w \in Workers, Receive(w) \/ Statement(w) \/ RequestFails(w),
             ~PublishSession(w), ~PublishActivity(w)
      PROVE  published' = published
  BY <1>1 DEF Statement, Receive, ReadForLeft, InsertSession, InsertConflict, GetExisting,
     EnrichSession, SetParticipantCount, EndSession, Update, InsertEvent, FinishBatch,
     Respond, RequestFails
<1>2. ASSUME StartSweep \/ ListIdle \/ EndIdle \/ FinishSweep \/ SweepFails \/ Restart \/ Tick
               \/ UNCHANGED vars
      PROVE  published' = published
  BY <1>2 DEF StartSweep, ListIdle, EndIdle, FinishSweep, SweepFails, Restart, Tick, vars
<1>3. \A w \in Workers : PublishSession(w) =>
        published' = Append(published, SessionMessage(Id(w), proc[w].snap))
  BY DEF PublishSession
<1>4. \A w \in Workers : PublishActivity(w) =>
        published' = Append(published, ActivityMessage(Id(w), proc[w].req.client, Head(proc[w].rest)))
  BY DEF PublishActivity
<1>5. PublishReaped => published' = Append(published, SessionMessage(reaper.cur, reaper.snap))
  BY DEF PublishReaped
<1>6. QED
  BY <1>1, <1>2, <1>3, <1>4, <1>5, AnnouncementTypes DEF Next, Sweep

LEMMA FeedGrows ==
    ASSUME TypeOK, LocalsOK, [Next]_vars, NEW m, InFeed(published, m)
    PROVE  InFeed(published', m)
<1>1. CASE published' = published
  BY <1>1
<1>2. ASSUME NEW x \in Message, published' = Append(published, x)
      PROVE  InFeed(published', m)
  BY <1>2, AppendProperties DEF TypeOK, InFeed
<1>3. QED
  BY <1>1, <1>2, PublishStep

LEMMA AppendedIsInFeed ==
    ASSUME TypeOK, NEW m \in Message, published' = Append(published, m)
    PROVE  InFeed(published', m)
<1> DEFINE n == Len(published) + 1
<1>1. n \in DOMAIN published' /\ published'[n] = m
  BY AppendProperties, LenProperties DEF TypeOK
<1>2. QED
  BY <1>1 DEF InFeed

\* A row or an event keeps its announcement when the step leaves the table entry
\* alone and whoever held the announcement holds it still or has made it.
LEMMA RowStaysAnnounced ==
    ASSUME TypeOK, LocalsOK, [Next]_vars, RowsAnnounced, NEW id \in SessionIds,
           sessions'[id] = sessions[id],
           \A v \in Workers : Owes(proc[v], id, sessions[id]) =>
                \/ Owes(proc'[v], id, sessions[id])
                \/ InFeed(published', SessionMessage(id, sessions[id])),
           SweepOwes(reaper, id) =>
                \/ SweepOwes(reaper', id)
                \/ InFeed(published', SessionMessage(id, sessions[id]))
    PROVE  RowIsAnnounced(sessions'[id], published', proc', reaper', id)
BY FeedGrows DEF RowsAnnounced, RowIsAnnounced

LEMMA EventStaysAnnounced ==
    ASSUME TypeOK, LocalsOK, [Next]_vars, EventsAnnounced, NEW e \in events,
           \A v \in Workers : OwesEvent(proc[v], e) =>
                \/ OwesEvent(proc'[v], e)
                \/ InFeed(published', ActivityMessage(e.sid, e.client, e.seq))
    PROVE  EventIsAnnounced(e, published', proc')
BY FeedGrows DEF EventsAnnounced, EventIsAnnounced

\* A step of a request that changes neither table.
LEMMA RequestKeepsAnnounced ==
    ASSUME TypeOK, LocalsOK, [Next]_vars, RowsAnnounced, EventsAnnounced, NEW w \in Workers,
           \A v \in Workers \ {w} : proc'[v] = proc[v],
           UNCHANGED <<sessions, events, reaper>>,
           Holds(proc[w]) => \/ Holds(proc'[w]) /\ proc'[w].req = proc[w].req
                                /\ proc'[w].snap = proc[w].snap
                             \/ InFeed(published', SessionMessage(Id(w), proc[w].snap)),
           Pc(w) = "activity" =>
               InFeed(published', ActivityMessage(Id(w), proc[w].req.client, Head(proc[w].rest)))
    PROVE  RowsAnnounced' /\ EventsAnnounced'
<1>1. ASSUME NEW id \in SessionIds
      PROVE  RowIsAnnounced(sessions'[id], published', proc', reaper', id)
  <2>1. ASSUME NEW v \in Workers, Owes(proc[v], id, sessions[id])
        PROVE  \/ Owes(proc'[v], id, sessions[id])
               \/ InFeed(published', SessionMessage(id, sessions[id]))
    BY <2>1 DEF Owes, Id
  <2>2. QED
    BY <2>1, RowStaysAnnounced
<1>2. ASSUME NEW e \in events
      PROVE  EventIsAnnounced(e, published', proc')
  <2>1. ASSUME NEW v \in Workers, OwesEvent(proc[v], e)
        PROVE  \/ OwesEvent(proc'[v], e)
               \/ InFeed(published', ActivityMessage(e.sid, e.client, e.seq))
    BY <2>1 DEF OwesEvent, Id, Pc
  <2>2. QED
    BY <2>1, EventStaysAnnounced
<1>3. QED
  BY <1>1, <1>2 DEF RowsAnnounced, EventsAnnounced

\* A step of a request that writes its row, and holds what it wrote.
LEMMA WriteIsOwed ==
    ASSUME TypeOK, LocalsOK, [Next]_vars, RowsAnnounced, EventsAnnounced, NEW w \in Workers,
           \A v \in Workers \ {w} : proc'[v] = proc[v], Pc(w) # "activity",
           UNCHANGED <<events, reaper>>, Id(w) \in SessionIds, NEW row,
           sessions' = [sessions EXCEPT ![Id(w)] = row], proc'[w].req = proc[w].req,
           Owes(proc'[w], Id(w), row)
    PROVE  RowsAnnounced' /\ EventsAnnounced'
<1>1. ASSUME NEW id \in SessionIds
      PROVE  RowIsAnnounced(sessions'[id], published', proc', reaper', id)
  <2>1. CASE id = Id(w)
    <3>1. sessions'[id] = row
      BY <2>1 DEF TypeOK
    <3>2. QED
      BY <2>1, <3>1 DEF RowIsAnnounced
  <2>2. CASE id # Id(w)
    <3>1. sessions'[id] = sessions[id]
      BY <2>2 DEF TypeOK
    <3>2. \A v \in Workers : Owes(proc[v], id, sessions[id]) => Owes(proc'[v], id, sessions[id])
      BY <2>2 DEF Owes, Id
    <3>3. QED
      BY <3>1, <3>2, RowStaysAnnounced
  <2>3. QED
    BY <2>1, <2>2
<1>2. ASSUME NEW e \in events
      PROVE  EventIsAnnounced(e, published', proc')
  <2>1. \A v \in Workers : OwesEvent(proc[v], e) => OwesEvent(proc'[v], e)
    BY DEF OwesEvent, Pc
  <2>2. QED
    BY <2>1, EventStaysAnnounced
<1>3. QED
  BY <1>1, <1>2 DEF RowsAnnounced, EventsAnnounced

LEMMA UpdateIsOwed ==
    ASSUME TypeOK, LocalsOK, [Next]_vars, RowsAnnounced, EventsAnnounced, NEW w \in Workers,
           Statement(w), ~Respond(w), Pc(w) \in {"enrich", "count", "end"}, Id(w) \in SessionIds,
           NEW accepts \in BOOLEAN, NEW row, Update(w, accepts, row)
    PROVE  RowsAnnounced' /\ EventsAnnounced'
<1>1. /\ proc \in [Workers -> Frame] /\ proc[w] \in Frame /\ FrameOK(proc[w])
      /\ \A v \in Workers \ {w} : proc'[v] = proc[v]
      /\ proc'[w].req = proc[w].req
  BY RequestStep DEF TypeOK, LocalsOK
<1>2. Pc(w) # "activity" /\ UNCHANGED <<events, reaper>>
  BY DEF Update
<1>3. CASE accepts
  <2>1. proc'[w].pc = "publish" /\ proc'[w].snap = row
    BY <1>1, <1>3 DEF Update, Frame
  <2>2. Owes(proc'[w], Id(w), row)
    BY <1>1, <2>1 DEF Owes, Holds, Id
  <2>3. sessions' = [sessions EXCEPT ![Id(w)] = row]
    BY <1>3 DEF Update
  <2>4. QED
    BY <1>1, <1>2, <2>2, <2>3, WriteIsOwed
<1>4. CASE ~accepts
  <2>1. proc' = [proc EXCEPT ![w].pc = IF proc[w].inserted THEN "publish" ELSE "reply"]
        /\ sessions' = sessions
    BY <1>4 DEF Update
  <2>2. /\ proc'[w].pc = IF proc[w].inserted THEN "publish" ELSE "reply"
        /\ proc'[w].snap = proc[w].snap
    BY <1>1, <2>1 DEF Frame
  <2>3. Holds(proc[w]) => Holds(proc'[w])
    BY <2>2 DEF Holds, Pc
  <2>4. QED
    BY <1>1, <1>2, <2>1, <2>2, <2>3, RequestKeepsAnnounced
<1>5. QED
  BY <1>3, <1>4

LEMMA StatementKeepsAnnounced ==
    ASSUME TypeOK, LocalsOK, [Next]_vars, RowsAnnounced, EventsAnnounced, NEW w \in Workers,
           Statement(w), ~Respond(w)
    PROVE  RowsAnnounced' /\ EventsAnnounced'
<1>1. /\ proc \in [Workers -> Frame] /\ proc[w] \in Frame /\ FrameOK(proc[w])
      /\ \A v \in Workers \ {w} : proc'[v] = proc[v]
      /\ proc'[w].req = proc[w].req
  BY RequestStep DEF TypeOK, LocalsOK
<1>2. Id(w) \in SessionIds
  BY BusyFrame DEF Statement, ReadForLeft, InsertSession, InsertConflict, GetExisting,
     EnrichSession, SetParticipantCount, EndSession, InsertEvent, FinishBatch, PublishSession,
     PublishActivity
<1>3. CASE ReadForLeft(w) \/ InsertConflict(w) \/ GetExisting(w) \/ FinishBatch(w)
  <2>1. Pc(w) \in {"read", "insert", "get", "events"} /\ UNCHANGED <<sessions, events, reaper>>
    BY <1>3 DEF ReadForLeft, InsertConflict, GetExisting, FinishBatch
  <2>2. ~Holds(proc[w]) /\ Pc(w) # "activity"
    BY <2>1 DEF Holds, Pc
  <2>3. QED
    BY <1>1, <2>1, <2>2, RequestKeepsAnnounced
<1>4. CASE InsertSession(w)
  <2> DEFINE row == LiveRow(proc[w].at, SourceOf(Category(w)))
  <2>1. /\ proc'[w].pc = AfterFindOrCreate(Category(w), TRUE)
        /\ proc'[w].snap = row /\ proc'[w].inserted = TRUE
    BY <1>1, <1>4 DEF InsertSession, Frame
  <2>2. /\ sessions' = [sessions EXCEPT ![Id(w)] = row] /\ UNCHANGED <<events, reaper>>
        /\ Pc(w) # "activity"
    BY <1>4 DEF InsertSession
  <2>3. AfterFindOrCreate(Category(w), TRUE) \in {"enrich", "publish", "count"}
    BY DEF AfterFindOrCreate
  <2> HIDE DEF row
  <2>4. Holds(proc'[w])
    BY <2>1, <2>3 DEF Holds
  <2>5. Owes(proc'[w], Id(w), row)
    BY <1>1, <2>1, <2>4 DEF Owes, Id
  <2>6. QED
    BY <1>1, <1>2, <2>2, <2>5, WriteIsOwed
<1>5. CASE EnrichSession(w)
  BY <1>2, <1>5, UpdateIsOwed DEF EnrichSession, AcceptsWebhook
<1>6. CASE SetParticipantCount(w)
  BY <1>2, <1>6, UpdateIsOwed DEF SetParticipantCount, AcceptsWebhook
<1>7. CASE EndSession(w)
  BY <1>2, <1>7, UpdateIsOwed DEF EndSession, AcceptsEnd
<1>8. CASE InsertEvent(w)
  <2>1. /\ Pc(w) = "events" /\ UNCHANGED <<sessions, published, reaper>>
    BY <1>8 DEF InsertEvent
  <2>2. ~Holds(proc[w]) /\ Pc(w) # "activity"
    BY <2>1 DEF Holds, Pc
  <2>3. CASE IsStored(events, Id(w), proc[w].req.client, Head(proc[w].rest))
    <3>1. events' = events
      BY <1>8, <2>3 DEF InsertEvent
    <3>2. QED
      BY <1>1, <2>1, <2>2, <3>1, RequestKeepsAnnounced
  <2>4. CASE ~IsStored(events, Id(w), proc[w].req.client, Head(proc[w].rest))
    <3> DEFINE new == [sid |-> Id(w), client |-> proc[w].req.client,
                       seq |-> Head(proc[w].rest), receivedAt |-> now]
    <3>1. events' = events \cup {new} /\ proc' = [proc EXCEPT ![w].pc = "activity"]
      BY <1>8, <2>4 DEF InsertEvent
    <3>2. OwesEvent(proc'[w], new)
      BY <1>1, <3>1 DEF OwesEvent, Frame, Id
    <3> HIDE DEF new
    <3>3. ASSUME NEW e \in events PROVE EventIsAnnounced(e, published', proc')
      <4>1. \A v \in Workers : OwesEvent(proc[v], e) => OwesEvent(proc'[v], e)
        BY <1>1, <2>2 DEF OwesEvent, Pc
      <4>2. QED
        BY <4>1, EventStaysAnnounced
    <3>4. ASSUME NEW id \in SessionIds
          PROVE  RowIsAnnounced(sessions'[id], published', proc', reaper', id)
      <4>1. \A v \in Workers : Owes(proc[v], id, sessions[id]) => Owes(proc'[v], id, sessions[id])
        BY <1>1, <2>2 DEF Owes
      <4>2. QED
        BY <2>1, <4>1, RowStaysAnnounced
    <3>5. EventIsAnnounced(new, published', proc')
      BY <3>2 DEF EventIsAnnounced
    <3>6. QED
      BY <3>1, <3>3, <3>4, <3>5 DEF RowsAnnounced, EventsAnnounced
  <2>5. QED
    BY <2>3, <2>4
<1>9. CASE PublishSession(w)
  <2>1. InFeed(published', SessionMessage(Id(w), proc[w].snap))
    BY <1>9, AnnouncementTypes, AppendedIsInFeed DEF PublishSession
  <2>2. UNCHANGED <<sessions, events, reaper>> /\ Pc(w) # "activity"
    BY <1>9 DEF PublishSession
  <2>3. QED
    BY <1>1, <2>1, <2>2, RequestKeepsAnnounced
<1>10. CASE PublishActivity(w)
  <2>1. InFeed(published', ActivityMessage(Id(w), proc[w].req.client, Head(proc[w].rest)))
    BY <1>10, AnnouncementTypes, AppendedIsInFeed DEF PublishActivity
  <2>2. UNCHANGED <<sessions, events, reaper>> /\ Pc(w) = "activity"
    BY <1>10 DEF PublishActivity
  <2>3. ~Holds(proc[w])
    BY <2>2 DEF Holds, Pc
  <2>4. QED
    BY <1>1, <2>1, <2>2, <2>3, RequestKeepsAnnounced
<1>11. QED
  BY <1>3, <1>4, <1>5, <1>6, <1>7, <1>8, <1>9, <1>10 DEF Statement

\* The reaper holds the end it wrote; what it held is in the feed when it goes on.
LEMMA SweepKeepsAnnounced ==
    ASSUME TypeOK, LocalsOK, EndRights, [Next]_vars, RowsAnnounced, EventsAnnounced, Sweep
    PROVE  RowsAnnounced' /\ EventsAnnounced'
<1>1. UNCHANGED <<events, proc>>
  BY DEF Sweep, StartSweep, ListIdle, EndIdle, PublishReaped, FinishSweep
<1>2. EventsAnnounced'
  BY <1>1, EventStaysAnnounced DEF EventsAnnounced
<1>3. ASSUME NEW id \in SessionIds
      PROVE  RowIsAnnounced(sessions'[id], published', proc', reaper', id)
  <2>1. CASE StartSweep \/ ListIdle \/ FinishSweep
    <3>1. sessions' = sessions /\ ~SweepOwes(reaper, id)
      BY <2>1 DEF StartSweep, ListIdle, FinishSweep, SweepOwes
    <3>2. QED
      BY <1>1, <3>1, RowStaysAnnounced
  <2>2. CASE EndIdle
    <3>1. ~SweepOwes(reaper, id)
      BY <2>2 DEF EndIdle, SweepOwes
    <3>2. CASE sessions'[id] = sessions[id]
      BY <1>1, <3>1, <3>2, RowStaysAnnounced
    <3>3. CASE sessions'[id] # sessions[id]
      <4>1. PICK c \in reaper.todo :
              /\ sessions' = [sessions EXCEPT ![c] = Ended(sessions[c], reaper.at, 0)]
              /\ reaper' = [reaper EXCEPT !.pc = "publish", !.todo = @ \ {c},
                                          !.cur = c, !.snap = Ended(sessions[c], reaper.at, 0)]
        BY <2>2, <3>3 DEF EndIdle
      <4>2. id = c
        BY <3>3, <4>1 DEF TypeOK
      <4>3. SweepOwes(reaper', id)
        BY <4>1, <4>2 DEF SweepOwes, TypeOK, SweepFrame
      <4>4. QED
        BY <4>3 DEF RowIsAnnounced
    <3>4. QED
      BY <3>2, <3>3
  <2>3. CASE PublishReaped
    <3>1. InFeed(published', SessionMessage(reaper.cur, reaper.snap))
      BY <2>3, AnnouncementTypes, AppendedIsInFeed DEF PublishReaped
    <3>2. SweepOwes(reaper, id) => SessionMessage(id, sessions[id])
                                      = SessionMessage(reaper.cur, reaper.snap)
      BY DEF SweepOwes, EndRights
    <3>3. sessions' = sessions
      BY <2>3 DEF PublishReaped
    <3>4. QED
      BY <1>1, <3>1, <3>2, <3>3, RowStaysAnnounced
  <2>4. QED
    BY <2>1, <2>2, <2>3 DEF Sweep
<1>4. QED
  BY <1>2, <1>3 DEF RowsAnnounced

LEMMA AnnouncedInductive ==
    ASSUME TypeOK, LocalsOK, EndRights, EveryWritePublishes, [Next]_vars
    PROVE  EveryWritePublishes'
<1> SUFFICES ASSUME faults' = 0 PROVE RowsAnnounced' /\ EventsAnnounced'
  BY DEF EveryWritePublishes, RowsAnnounced, EventsAnnounced, RowIsAnnounced, EventIsAnnounced,
     InFeed, Owes, Holds, OwesEvent, SweepOwes, WillPublish, IsPublished, Pc, Id
<1>1. ~SweepFails /\ ~Restart /\ \A w \in Workers : ~RequestFails(w)
  BY DEF TypeOK, SweepFails, Restart, RequestFails
<1>2. faults = 0
  <2>1. \A w \in Workers : Receive(w) \/ Statement(w) => faults' = faults
    BY DEF Statement, Receive, ReadForLeft, InsertSession, InsertConflict, GetExisting,
       EnrichSession, SetParticipantCount, EndSession, Update, InsertEvent, FinishBatch,
       PublishSession, PublishActivity, Respond
  <2>2. Sweep \/ Tick \/ UNCHANGED vars => faults' = faults
    BY DEF Sweep, StartSweep, ListIdle, EndIdle, PublishReaped, FinishSweep, Tick, vars
  <2>3. QED
    BY <1>1, <2>1, <2>2 DEF Next
<1>3. RowsAnnounced /\ EventsAnnounced
  BY <1>2, EveryWritePublishesIs
<1>4. ASSUME NEW w \in Workers, Receive(w) \/ Respond(w)
      PROVE  RowsAnnounced' /\ EventsAnnounced'
  <2>1. Pc(w) \in {"idle", "reply"} /\ UNCHANGED <<sessions, events, reaper>>
    BY <1>4 DEF Receive, Respond
  <2>2. ~Holds(proc[w]) /\ Pc(w) # "activity"
    BY <2>1 DEF Holds, Pc
  <2>3. \A v \in Workers \ {w} : proc'[v] = proc[v]
    BY <1>4, ReceiveStep, ReturnStep
  <2>4. QED
    BY <1>3, <2>1, <2>2, <2>3, RequestKeepsAnnounced
<1>5. ASSUME NEW w \in Workers, Statement(w), ~Respond(w)
      PROVE  RowsAnnounced' /\ EventsAnnounced'
  BY <1>3, <1>5, StatementKeepsAnnounced
<1>6. CASE Sweep
  BY <1>3, <1>6, SweepKeepsAnnounced
<1>7. CASE Tick \/ UNCHANGED vars
  <2>1. UNCHANGED <<sessions, events, published, proc, reaper>>
    BY <1>7 DEF Tick, vars
  <2>2. QED
    BY <1>3, <2>1 DEF RowsAnnounced, EventsAnnounced
<1>8. QED
  BY <1>1, <1>4, <1>5, <1>6, <1>7 DEF Next

LEMMA InitEveryWritePublishes == Init => EveryWritePublishes
BY DEF Init, NoRows, EveryWritePublishes

\* "Every write publishes": while no call has failed, no interleaving of requests
\* and sweep leaves a row or an event that nobody has announced or will announce.
THEOREM NoWriteIsSilent == Spec => []EveryWritePublishes
<1>1. TypeOK /\ LocalsOK /\ EndRights /\ EveryWritePublishes /\ [Next]_vars
        => EveryWritePublishes'
  BY AnnouncedInductive
<1>2. QED
  BY <1>1, InitEveryWritePublishes, LifecycleTypes, RightsHold, PTL DEF Spec
=============================================================================
