---------------------------- MODULE SessionStore ----------------------------
(***************************************************************************)
(* The two tables of the server's database and the SQL statements run on   *)
(* them (server/internal/store).  A statement is atomic: PostgreSQL runs   *)
(* each of them as its own transaction, and the Go code never opens a      *)
(* longer one.  Every operator below is a pure function of the tables it   *)
(* reads; Lifecycle.tla decides when a statement runs.  At the end, the    *)
(* stream messages built from rows.                                        *)
(*                                                                         *)
(* Left out: space_id, metadata and created_at, which no statement tests.  *)
(* An event keeps its key and the time it was received; its type, ts and   *)
(* data are payload.                                                       *)
(***************************************************************************)
EXTENDS Integers

NoTime == -1

\* A session the table has no row for.
NoRow == [status |-> "absent"]

SessionRow ==
    [status           : {"live", "ended"},
     startedAt        : Int,
     endedAt          : Int,
     source           : {"webhook", "event"},
     participantCount : Int,
     lastWebhookSeq   : Int]

\* The row InsertSessionIfAbsent inserts: live, with the column defaults.
LiveRow(startedAt, source) ==
    [status           |-> "live",
     startedAt        |-> startedAt,
     endedAt          |-> NoTime,
     source           |-> source,
     participantCount |-> 0,
     lastWebhookSeq   |-> 0]

(* The guards of the UPDATE statements.  The definitions marked Mutant, here  *)
(* and in the other modules, are wrong on purpose: each run is shown to fail  *)
(* with one of them in the place of the definition that follows it.           *)

\* Mutant: WHERE status = 'live' is missing.
AcceptsWebhookAnyStatus(row, seq) ==
    /\ row # NoRow
    /\ row.lastWebhookSeq < seq

\* Mutant: last_webhook_seq <= seq.
AcceptsReplayedWebhook(row, seq) ==
    /\ row.status = "live"
    /\ row.lastWebhookSeq <= seq

\* Only a live session with a lower last_webhook_seq takes a webhook.
AcceptsWebhook(row, seq) ==
    /\ row.status = "live"
    /\ row.lastWebhookSeq < seq

\* Mutant: the ordering guard applies to the reaper's seq = 0 as well.
AcceptsEndInOrderOnly(row, seq) ==
    /\ row.status = "live"
    /\ row.lastWebhookSeq < seq

\* The reaper's seq = 0 skips the ordering guard, never the status guard.
AcceptsEnd(row, seq) ==
    /\ row.status = "live"
    /\ seq = 0 \/ row.lastWebhookSeq < seq

(* The rows the UPDATE statements leave behind. *)

Enriched(row, startedAt, count, seq) ==
    [row EXCEPT !.startedAt = startedAt,
                !.participantCount = count,
                !.source = "webhook",
                !.lastWebhookSeq = seq]

\* GREATEST(last_webhook_seq, seq)
Ended(row, at, seq) ==
    [row EXCEPT !.status = "ended",
                !.endedAt = at,
                !.lastWebhookSeq = IF @ < seq THEN seq ELSE @]

\* Mutant: the sequence number of the webhook is not kept.
WithCountOnly(row, count, seq) == [row EXCEPT !.participantCount = count]

WithCount(row, count, seq) ==
    [row EXCEPT !.participantCount = count,
                !.lastWebhookSeq = seq]

(* Events. *)

\* UNIQUE (session_id, client_id, seq): InsertEvent does nothing on a conflict.
IsStored(log, id, client, seq) ==
    \E e \in log : e.sid = id /\ e.client = client /\ e.seq = seq

\* Mutant: the events are not looked at.
IsIdleSinceStart(tbl, log, id, cutoff) ==
    tbl[id].status = "live" /\ tbl[id].startedAt < cutoff

\* Live, and the last event (or the start, without one) is before the cutoff.
IsIdle(tbl, log, id, cutoff) ==
    LET mine == {e \in log : e.sid = id}
    IN  /\ tbl[id].status = "live"
        /\ IF mine = {} THEN tbl[id].startedAt < cutoff
                        ELSE \A e \in mine : e.receivedAt < cutoff

ListIdleLiveSessions(tbl, log, cutoff) ==
    {id \in DOMAIN tbl : IsIdle(tbl, log, id, cutoff)}

(* The stream messages that announce a row and an event. *)

SessionMessage(id, row) == [event |-> "session", id |-> id, row |-> row]

ActivityMessage(id, client, seq) ==
    [event |-> "activity", id |-> id, client |-> client, seq |-> seq]
=============================================================================
