----------------------------- MODULE Lifecycle ------------------------------
(***************************************************************************)
(* The session lifecycle of the server (server/internal/session) with the  *)
(* callers that drive it: webhook deliveries, ingest batches and the       *)
(* reaper's sweep.  Every HTTP request runs in a goroutine of its own, so  *)
(* the SQL statements and the Hub.Publish calls of several requests and of *)
(* the sweep interleave; each of them is one step here.  A worker is such  *)
(* a goroutine, and proc[w] is its local state:                            *)
(*                                                                         *)
(*   pc        the statement or call it runs next                          *)
(*   req       the delivery it handles                                     *)
(*   at, count the parameters the handler built from it                    *)
(*   snap      the row the last statement returned (`s' in lifecycle.go)   *)
(*   inserted  whether FindOrCreateSession created the row                 *)
(*   rest      the sequence numbers of the batch it has still to insert    *)
(*                                                                         *)
(* A delivery may be handled any number of times and in any order: Webfuse *)
(* retries webhooks and the extension resends batches.                     *)
(***************************************************************************)
EXTENDS SessionStore, Sequences, FiniteSets

CONSTANTS
    SessionIds,   \* session ids the deliveries name
    Clients,      \* background boots of the extension (client_id)
    Workers,      \* request goroutines that may be alive at once
    Webhooks,     \* the signed webhooks Webfuse may deliver
    Batches,      \* the valid ingest batches the extension may post
    MaxCount,     \* largest value of an int32, the type of participant_count
    Idle,         \* REAPER_IDLE_SECONDS, in ticks of the clock
    MaxTime,      \* bound of the clock
    MaxFaults     \* bound of the failed statements and restarts

WebhookCategories == {"started", "ended", "joined", "left"}

ASSUME WebhookAssumption ==
    Webhooks \subseteq [category  : WebhookCategories,
                        id        : SessionIds,
                        seq       : Nat \ {0},
                        at        : Nat,
                        startedAt : Nat,
                        count     : Int]

ASSUME BatchAssumption ==
    Batches \subseteq [category : {"ingest"},
                       id       : SessionIds,
                       client   : Clients,
                       events   : Seq(Nat \ {0})]

ASSUME CountAssumption == MaxCount \in Nat

ASSUME BoundAssumption == Idle \in Nat /\ MaxTime \in Nat /\ MaxFaults \in Nat

Requests == Webhooks \cup Batches

NoRequest == [category |-> "none"]

VARIABLES
    sessions,     \* the sessions table
    events,       \* the events table
    published,    \* the messages handed to Hub.Publish, in that order
    proc,         \* the local state of each worker
    reaper,       \* the local state of the reaper's sweep
    now,          \* the clock
    faults,       \* failed statements and restarts so far
    writes        \* history: committed changes of each session's row

vars == <<sessions, events, published, proc, reaper, now, faults, writes>>

IdleFrame ==
    [pc |-> "idle", req |-> NoRequest, at |-> 0, count |-> 0,
     snap |-> NoRow, inserted |-> FALSE, rest |-> <<>>]

NoRows == [id \in SessionIds |-> NoRow]

\* `listed' is history: the candidates' rows as the listing returned them.
IdleReaper == [pc |-> "idle", at |-> 0, todo |-> {}, listed |-> NoRows,
               cur |-> "", snap |-> NoRow]

Init ==
    /\ sessions = NoRows
    /\ events = {}
    /\ published = <<>>
    /\ proc = [w \in Workers |-> IdleFrame]
    /\ reaper = IdleReaper
    /\ now = 0
    /\ faults = 0
    /\ writes = [id \in SessionIds |-> 0]

-----------------------------------------------------------------------------
(* Starting a request. *)

Pc(w) == proc[w].pc
Id(w) == proc[w].req.id
Category(w) == proc[w].req.category

\* Mutant: participant_joined does not create an unknown session.
FirstStepWithoutCreate(category) ==
    CASE category = "started" -> "insert"
      [] category = "ended"   -> "end"
      [] category = "left"    -> "read"
      [] category = "ingest"  -> "insert"
      [] OTHER                -> "count"

\* The statement each delivery runs first.
FirstStep(category) ==
    CASE category = "ended" -> "end"
      [] category = "left"  -> "read"
      [] OTHER              -> "insert"

\* The start time a session gets when this delivery creates it.
StartTime(r) ==
    CASE r.category = "started" -> r.startedAt
      [] r.category = "ingest"  -> now
      [] OTHER                  -> r.at

Receive(w) ==
    /\ Pc(w) = "idle"
    /\ \E r \in Requests :
          proc' = [proc EXCEPT ![w] =
                     [IdleFrame EXCEPT
                        !.pc = FirstStep(r.category),
                        !.req = r,
                        !.at = StartTime(r),
                        !.count = IF r.category \in {"started", "joined"} THEN r.count ELSE 0,
                        !.rest = IF r.category = "ingest" THEN r.events ELSE <<>>]]
    /\ UNCHANGED <<sessions, events, published, reaper, now, faults, writes>>

Respond(w) ==
    /\ Pc(w) = "reply"
    /\ proc' = [proc EXCEPT ![w] = IdleFrame]
    /\ UNCHANGED <<sessions, events, published, reaper, now, faults, writes>>

-----------------------------------------------------------------------------
(* The statements of a request. *)

Decremented(count) == IF count - 1 > 0 THEN count - 1 ELSE 0

\* participant_left: the payload has no count, so it is taken from the row.
ReadForLeft(w) ==
    /\ Pc(w) = "read"
    /\ LET row == sessions[Id(w)] IN
          proc' = IF row = NoRow
                  THEN [proc EXCEPT ![w].pc = "reply"]
                  ELSE [proc EXCEPT ![w].pc = "insert",
                                    ![w].count = Decremented(row.participantCount)]
    /\ UNCHANGED <<sessions, events, published, reaper, now, faults, writes>>

\* Mutant: a stub created by RecordEvents is not announced.
AfterFindOrCreateQuietly(category, inserted) ==
    CASE category = "started" -> "enrich"
      [] category = "ingest"  -> "events"
      [] OTHER                -> "count"

\* What follows FindOrCreateSession: RecordEvents announces a stub it created.
AfterFindOrCreate(category, inserted) ==
    CASE category = "started"            -> "enrich"
      [] category = "ingest" /\ inserted  -> "publish"
      [] category = "ingest" /\ ~inserted -> "events"
      [] OTHER                            -> "count"

\* Mutant: the category is stored as the source.
SourceIsCategory(category) == category

SourceOf(category) == IF category = "ingest" THEN "event" ELSE "webhook"

\* FindOrCreateSession, the row is absent.
InsertSession(w) ==
    /\ Pc(w) = "insert"
    /\ sessions[Id(w)] = NoRow
    /\ LET row == LiveRow(proc[w].at, SourceOf(Category(w))) IN
          /\ sessions' = [sessions EXCEPT ![Id(w)] = row]
          /\ proc' = [proc EXCEPT ![w].pc = AfterFindOrCreate(Category(w), TRUE),
                                  ![w].snap = row,
                                  ![w].inserted = TRUE]
    /\ writes' = [writes EXCEPT ![Id(w)] = @ + 1]
    /\ UNCHANGED <<events, published, reaper, now, faults>>

\* FindOrCreateSession, ON CONFLICT DO NOTHING returned no row ...
InsertConflict(w) ==
    /\ Pc(w) = "insert"
    /\ sessions[Id(w)] # NoRow
    /\ proc' = [proc EXCEPT ![w].pc = "get"]
    /\ UNCHANGED <<sessions, events, published, reaper, now, faults, writes>>

\* ... so it is read by a second statement.
GetExisting(w) ==
    /\ Pc(w) = "get"
    /\ proc' = [proc EXCEPT ![w].pc = AfterFindOrCreate(Category(w), FALSE),
                            ![w].snap = sessions[Id(w)]]
    /\ UNCHANGED <<sessions, events, published, reaper, now, faults, writes>>

\* Mutant: publishes whether or not a row came back.
UpdateAndPublish(w, accepts, row) ==
    /\ proc' = [proc EXCEPT ![w].pc = "publish", ![w].snap = IF accepts THEN row ELSE @]
    /\ sessions' = IF accepts THEN [sessions EXCEPT ![Id(w)] = row] ELSE sessions
    /\ writes' = IF accepts THEN [writes EXCEPT ![Id(w)] = @ + 1] ELSE writes
    /\ UNCHANGED <<events, published, reaper, now, faults>>

\* A guarded UPDATE ... RETURNING of a webhook.  Without a row in return the
\* call publishes only if FindOrCreateSession inserted one.
Update(w, accepts, row) ==
    /\ \/ /\ accepts
          /\ sessions' = [sessions EXCEPT ![Id(w)] = row]
          /\ proc' = [proc EXCEPT ![w].pc = "publish", ![w].snap = row]
          /\ writes' = [writes EXCEPT ![Id(w)] = @ + 1]
       \/ /\ ~accepts
          /\ proc' = [proc EXCEPT ![w].pc = IF proc[w].inserted THEN "publish" ELSE "reply"]
          /\ UNCHANGED <<sessions, writes>>
    /\ UNCHANGED <<events, published, reaper, now, faults>>

\* int32(count): the low 32 bits, read as a signed number.
Narrowed(count) == ((count + MaxCount + 1) % (2 * (MaxCount + 1))) - (MaxCount + 1)

EnrichSession(w) ==
    /\ Pc(w) = "enrich"
    /\ LET row == sessions[Id(w)]
           seq == proc[w].req.seq
       IN  Update(w, AcceptsWebhook(row, seq),
                  Enriched(row, proc[w].at, Narrowed(proc[w].count), seq))

SetParticipantCount(w) ==
    /\ Pc(w) = "count"
    /\ LET row == sessions[Id(w)]
           seq == proc[w].req.seq
       IN  Update(w, AcceptsWebhook(row, seq), WithCount(row, Narrowed(proc[w].count), seq))

EndSession(w) ==
    /\ Pc(w) = "end"
    /\ LET row == sessions[Id(w)]
           seq == proc[w].req.seq
       IN  Update(w, AcceptsEnd(row, seq), Ended(row, proc[w].req.at, seq))

\* Mutant: the table has no unique constraint on (session_id, client_id, seq).
InsertEventUnguarded(w) ==
    /\ Pc(w) = "events"
    /\ proc[w].rest # <<>>
    /\ events' = events \cup {[sid |-> Id(w), client |-> proc[w].req.client,
                               seq |-> Head(proc[w].rest), receivedAt |-> now]}
    /\ proc' = [proc EXCEPT ![w].pc = "activity"]
    /\ UNCHANGED <<sessions, published, reaper, now, faults, writes>>

\* RecordEvents, one event of the batch.
InsertEvent(w) ==
    /\ Pc(w) = "events"
    /\ proc[w].rest # <<>>
    /\ LET seq == Head(proc[w].rest)
           client == proc[w].req.client
       IN  \/ /\ ~IsStored(events, Id(w), client, seq)
              /\ events' = events \cup {[sid |-> Id(w), client |-> client,
                                         seq |-> seq, receivedAt |-> now]}
              /\ proc' = [proc EXCEPT ![w].pc = "activity"]
           \/ /\ IsStored(events, Id(w), client, seq)
              /\ proc' = [proc EXCEPT ![w].rest = Tail(@)]
              /\ UNCHANGED events
    /\ UNCHANGED <<sessions, published, reaper, now, faults, writes>>

\* Mutant: returns from inside the loop.
FinishBatchEarly(w) ==
    /\ Pc(w) = "events"
    /\ proc' = [proc EXCEPT ![w].pc = "reply"]
    /\ UNCHANGED <<sessions, events, published, reaper, now, faults, writes>>

FinishBatch(w) ==
    /\ Pc(w) = "events"
    /\ proc[w].rest = <<>>
    /\ proc' = [proc EXCEPT ![w].pc = "reply"]
    /\ UNCHANGED <<sessions, events, published, reaper, now, faults, writes>>

(* The Publish calls of a request. *)

PublishSession(w) ==
    /\ Pc(w) = "publish"
    /\ published' = Append(published, SessionMessage(Id(w), proc[w].snap))
    /\ proc' = [proc EXCEPT ![w].pc = IF Category(w) = "ingest" THEN "events" ELSE "reply"]
    /\ UNCHANGED <<sessions, events, reaper, now, faults, writes>>

PublishActivity(w) ==
    /\ Pc(w) = "activity"
    /\ published' = Append(published,
                           ActivityMessage(Id(w), proc[w].req.client, Head(proc[w].rest)))
    /\ proc' = [proc EXCEPT ![w].pc = "events", ![w].rest = Tail(@)]
    /\ UNCHANGED <<sessions, events, reaper, now, faults, writes>>

-----------------------------------------------------------------------------
(* The reaper: one goroutine, one sweep at a time. *)

\* time.Now() is taken before the listing.
StartSweep ==
    /\ reaper.pc = "idle"
    /\ reaper' = [reaper EXCEPT !.pc = "list", !.at = now]
    /\ UNCHANGED <<sessions, events, published, proc, now, faults, writes>>

ListIdle ==
    /\ reaper.pc = "list"
    /\ LET idle == ListIdleLiveSessions(sessions, events, reaper.at - Idle) IN
          reaper' = [reaper EXCEPT
                       !.pc = "end",
                       !.todo = idle,
                       !.listed = [id \in SessionIds |->
                                     IF id \in idle THEN sessions[id] ELSE NoRow]]
    /\ UNCHANGED <<sessions, events, published, proc, now, faults, writes>>

\* The candidates are ended one by one; the order among them is left open.
EndIdle ==
    /\ reaper.pc = "end"
    /\ \E id \in reaper.todo :
          \/ /\ AcceptsEnd(sessions[id], 0)
             /\ LET row == Ended(sessions[id], reaper.at, 0) IN
                   /\ sessions' = [sessions EXCEPT ![id] = row]
                   /\ reaper' = [reaper EXCEPT !.pc = "publish", !.todo = @ \ {id},
                                               !.cur = id, !.snap = row]
             /\ writes' = [writes EXCEPT ![id] = @ + 1]
          \/ /\ ~AcceptsEnd(sessions[id], 0)
             /\ reaper' = [reaper EXCEPT !.todo = @ \ {id}]
             /\ UNCHANGED <<sessions, writes>>
    /\ UNCHANGED <<events, published, proc, now, faults>>

PublishReaped ==
    /\ reaper.pc = "publish"
    /\ published' = Append(published, SessionMessage(reaper.cur, reaper.snap))
    /\ reaper' = [reaper EXCEPT !.pc = "end", !.cur = "", !.snap = NoRow]
    /\ UNCHANGED <<sessions, events, proc, now, faults, writes>>

FinishSweep ==
    /\ reaper.pc = "end"
    /\ reaper.todo = {}
    /\ reaper' = IdleReaper
    /\ UNCHANGED <<sessions, events, published, proc, now, faults, writes>>

-----------------------------------------------------------------------------
(* Faults.  A statement fails, or it is committed and its answer is lost   *)
(* (the request was cancelled, the connection broke): either way the call  *)
(* returns the error at once and publishes nothing more.                   *)

RequestFails(w) ==
    /\ Pc(w) \notin {"idle", "reply"}
    /\ faults < MaxFaults
    /\ faults' = faults + 1
    /\ proc' = [proc EXCEPT ![w] = IdleFrame]
    /\ UNCHANGED <<sessions, events, published, reaper, now, writes>>

SweepFails ==
    /\ reaper.pc # "idle"
    /\ faults < MaxFaults
    /\ faults' = faults + 1
    /\ reaper' = IdleReaper
    /\ UNCHANGED <<sessions, events, published, proc, now, writes>>

\* The server process stops and starts again; only the database survives.
Restart ==
    /\ faults < MaxFaults
    /\ faults' = faults + 1
    /\ proc' = [w \in Workers |-> IdleFrame]
    /\ reaper' = IdleReaper
    /\ UNCHANGED <<sessions, events, published, now, writes>>

Tick ==
    /\ now < MaxTime
    /\ now' = now + 1
    /\ UNCHANGED <<sessions, events, published, proc, reaper, faults, writes>>

-----------------------------------------------------------------------------
Statement(w) ==
    \/ ReadForLeft(w) \/ InsertSession(w) \/ InsertConflict(w) \/ GetExisting(w)
    \/ EnrichSession(w) \/ SetParticipantCount(w) \/ EndSession(w)
    \/ InsertEvent(w) \/ FinishBatch(w)
    \/ PublishSession(w) \/ PublishActivity(w) \/ Respond(w)

Sweep == StartSweep \/ ListIdle \/ EndIdle \/ PublishReaped \/ FinishSweep

Next ==
    \/ \E w \in Workers : Receive(w) \/ Statement(w) \/ RequestFails(w)
    \/ Sweep
    \/ SweepFails
    \/ Restart
    \/ Tick

Spec == Init /\ [][Next]_vars

\* A goroutine that has a statement to run eventually runs it, the reaper's
\* ticker keeps firing, and time passes.  Nothing obliges a delivery to arrive.
Fairness ==
    /\ \A w \in Workers : WF_vars(Statement(w))
    /\ WF_vars(Sweep)
    /\ WF_vars(Tick)

FairSpec == Spec /\ Fairness

-----------------------------------------------------------------------------
(* Properties. *)

Pcs == {"idle", "read", "insert", "get", "enrich", "count", "end",
        "publish", "events", "activity", "reply"}

Event == [sid : SessionIds, client : Clients, seq : Nat \ {0}, receivedAt : Nat]

Message ==
    [event : {"session"}, id : SessionIds, row : SessionRow]
      \cup [event : {"activity"}, id : SessionIds, client : Clients, seq : Nat \ {0}]

Frame ==
    [pc : Pcs, req : Requests \cup {NoRequest}, at : Nat, count : Int,
     snap : SessionRow \cup {NoRow}, inserted : BOOLEAN, rest : Seq(Nat \ {0})]

SweepFrame ==
    [pc : {"idle", "list", "end", "publish"}, at : Nat, todo : SUBSET SessionIds,
     listed : [SessionIds -> SessionRow \cup {NoRow}],
     cur : SessionIds \cup {""}, snap : SessionRow \cup {NoRow}]

\* Type invariant of the tables, the stream and the goroutines' locals.
TypeOK ==
    /\ sessions \in [SessionIds -> SessionRow \cup {NoRow}]
    /\ events \subseteq Event
    /\ published \in Seq(Message)
    /\ proc \in [Workers -> Frame]
    /\ reaper \in SweepFrame
    /\ now \in Nat
    /\ faults \in Nat
    /\ writes \in [SessionIds -> Nat]

IsPublished(m) == \E i \in DOMAIN published : published[i] = m

Table == INSTANCE SessionTable WITH rows <- sessions, log <- events, feed <- published

\* Whatever the interleaving, the retries and the failures, the statements and
\* Publish calls of lifecycle.go change the tables and the stream only as
\* SessionTable allows: webhooks apply in increasing order, an ended row is
\* final, events are kept, nothing is announced twice or before it is stored.
ImplementsSessionTable == Table!Spec

\* The end of a session is announced at most once, whoever ended it (a webhook,
\* its retry, the reaper), and the announcement carries the final row.
EndAnnouncedOnce ==
    \A i \in DOMAIN published :
        (published[i].event = "session" /\ published[i].row.status = "ended") =>
            /\ published[i].row = sessions[published[i].id]
            /\ \A j \in DOMAIN published : published[j] = published[i] => j = i

\* RecordEvents announces an event only if InsertEvent stored it, and only once,
\* however many copies of a batch are handled concurrently.
ActivityAnnouncedOnce ==
    \A i \in DOMAIN published :
        published[i].event = "activity" =>
            /\ IsStored(events, published[i].id, published[i].client, published[i].seq)
            /\ \A j \in DOMAIN published : published[j] = published[i] => j = i

\* A webhook answered 200 by Started or ParticipantsChanged has taken effect,
\* or a later one has, or the session is over: none is lost on the way.
WebhookAppliedOrSuperseded ==
    \A w \in Workers :
        (Pc(w) \in {"publish", "reply"} /\ Category(w) \in {"started", "joined"}) =>
            /\ sessions[Id(w)] # NoRow
            /\ \/ sessions[Id(w)].status = "ended"
               \/ sessions[Id(w)].lastWebhookSeq >= proc[w].req.seq

\* Some delivery may have set the count of session id to a number above n.
CountedAbove(id, n) ==
    \E h \in Webhooks :
        h.id = id /\ h.category \in {"started", "joined"} /\ Narrowed(h.count) > n

\* No interleaving mixes the count of one delivery with the sequence number of
\* another: the count of a row whose last webhook is session.started or
\* participant_joined is the one that webhook carried, as an int32; after a
\* participant_left it is zero, or lower than some count a webhook of the
\* session carried; an end keeps it, and no count is above all that were sent.
CountOfLastWebhook ==
    \A id \in SessionIds :
        sessions[id] # NoRow =>
            LET row == sessions[id]
            IN  /\ row.participantCount > 0 => CountedAbove(id, row.participantCount - 1)
                /\ row.lastWebhookSeq > 0 =>
                     \E h \in Webhooks :
                        /\ h.id = id
                        /\ h.seq = row.lastWebhookSeq
                        /\ h.category \in {"started", "joined"} =>
                              row.participantCount = Narrowed(h.count)
                        /\ h.category = "left" =>
                              \/ row.participantCount = 0
                              \/ /\ row.participantCount > 0
                                 /\ CountedAbove(id, row.participantCount)

\* A batch answered 202 is stored completely: an event RecordEvents has passed,
\* as new or as a duplicate, is in the table.
AcceptedBatchIsStored ==
    \A w \in Workers :
        (Pc(w) \in {"events", "activity", "reply"} /\ Category(w) = "ingest") =>
            LET sent == proc[w].req.events
                passed == IF Pc(w) = "reply" THEN Len(sent)
                                             ELSE Len(sent) - Len(proc[w].rest)
            IN
            \A i \in 1..passed :
                IsStored(events, Id(w), proc[w].req.client, sent[i])

\* A request holds the row it will announce.
WillPublish(w, id, row) ==
    /\ \/ Pc(w) = "publish"
       \/ Pc(w) \in {"enrich", "count"} /\ proc[w].inserted
    /\ Id(w) = id
    /\ proc[w].snap = row

\* "Every write publishes": as long as no call failed, the current row of each
\* session and each stored event has been announced or is held by a goroutine
\* that is about to announce it.
EveryWritePublishes ==
    faults = 0 =>
        /\ \A id \in SessionIds :
              sessions[id] # NoRow =>
                 \/ IsPublished(SessionMessage(id, sessions[id]))
                 \/ \E w \in Workers : WillPublish(w, id, sessions[id])
                 \/ reaper.pc = "publish" /\ reaper.cur = id
        /\ \A e \in events :
              \/ IsPublished(ActivityMessage(e.sid, e.client, e.seq))
              \/ \E w \in Workers :
                     /\ Pc(w) = "activity" /\ Id(w) = e.sid
                     /\ proc[w].req.client = e.client /\ Head(proc[w].rest) = e.seq

\* "... only when a row actually changed": a session is never announced more
\* often than its row was written.
PublishesOnlyChanges ==
    \A id \in SessionIds :
        Cardinality({i \in DOMAIN published :
                        published[i].event = "session" /\ published[i].id = id})
          <= writes[id]

ReaperEnds(id) == sessions[id].status = "live" /\ sessions'[id].status = "ended"
                    /\ reaper' # reaper

\* The idle rule and the ending are separate statements.  What may come between
\* them is bounded: a session the sweep ends has no event within the idle time
\* before the sweep's start, and without an event from before the sweep it had
\* started before that time, unless it took a webhook since the listing.  Only
\* what arrived during the sweep can be missed.
ReapsOnlyIdleAtSweepStart ==
    [][\A id \in SessionIds : ReaperEnds(id) =>
          LET earlier == {e \in events : e.sid = id /\ e.receivedAt < reaper.at}
          IN  /\ \A e \in earlier : e.receivedAt < reaper.at - Idle
              /\ earlier = {} =>
                    \/ sessions[id].startedAt < reaper.at - Idle
                    \/ sessions[id].lastWebhookSeq > reaper.listed[id].lastWebhookSeq]_vars

\* The reaper closes what nobody else closes: a live session that has been idle
\* for long enough is ended, or becomes active again.
IdleSessionsAreReaped ==
    \A id \in SessionIds :
        IsIdle(sessions, events, id, now - Idle) ~> ~IsIdle(sessions, events, id, now - Idle)

(* Statements of the repository's comments that the code does not keep. *)

\* payload.go:8 says a session message is the current state of the session
\* after a lifecycle change; then no live state can follow the ended one.
NoLiveAfterEnded ==
    \A i, j \in DOMAIN published :
        (/\ i < j
         /\ published[i].event = "session" /\ published[j].event = "session"
         /\ published[i].id = published[j].id
         /\ published[i].row.status = "ended")
           => published[j].row.status = "ended"
=============================================================================
