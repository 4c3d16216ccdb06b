---------------------------- MODULE SessionTable ----------------------------
(***************************************************************************)
(* What the session lifecycle promises, without requests, statements or    *)
(* failures: how one session's row may change, what the event log keeps,   *)
(* and what may be announced about both.  Lifecycle.tla implements it.     *)
(*                                                                         *)
(*   - a row is created live, takes webhooks in increasing sequence order, *)
(*     ends at most once and never changes again;                          *)
(*   - an event is stored once per (session, client, seq), for a session   *)
(*     that exists, and is never removed or rewritten;                     *)
(*   - an event is announced at most once and only when stored;            *)
(*   - the end of a session is announced at most once, with its final row; *)
(*     a live announcement may be late, but never ahead of the row.        *)
(***************************************************************************)
EXTENDS SessionStore, Sequences

CONSTANTS SessionIds, Clients

VARIABLES rows, log, feed

vars == <<rows, log, feed>>

IsAnnounced(m) == \E i \in DOMAIN feed : feed[i] = m

Init ==
    /\ rows = [id \in SessionIds |-> NoRow]
    /\ log = {}
    /\ feed = <<>>

\* Exactly one row changes.
ChangesRow(id) ==
    /\ rows' = [rows EXCEPT ![id] = rows'[id]]
    /\ rows'[id] \in SessionRow
    /\ UNCHANGED <<log, feed>>

Create(id) ==
    /\ rows[id] = NoRow
    /\ ChangesRow(id)
    /\ rows'[id].status = "live"
    /\ rows'[id].lastWebhookSeq = 0
    /\ rows'[id].endedAt = NoTime

Apply(id) ==
    /\ rows[id].status = "live"
    /\ ChangesRow(id)
    /\ rows'[id].status = "live"
    /\ rows'[id].lastWebhookSeq > rows[id].lastWebhookSeq
    /\ rows'[id].endedAt = NoTime

End(id) ==
    /\ rows[id].status = "live"
    /\ ChangesRow(id)
    /\ rows'[id].status = "ended"
    /\ rows'[id].lastWebhookSeq >= rows[id].lastWebhookSeq
    /\ rows'[id].startedAt = rows[id].startedAt
    /\ rows'[id].participantCount = rows[id].participantCount
    /\ rows'[id].source = rows[id].source

Store ==
    /\ \E e \in log' :
          /\ log' = log \cup {e}
          /\ e.sid \in SessionIds /\ e.client \in Clients
          /\ rows[e.sid] # NoRow
          /\ ~IsStored(log, e.sid, e.client, e.seq)
    /\ UNCHANGED <<rows, feed>>

MayAnnounce(m) ==
    \/ /\ m.event = "activity"
       /\ IsStored(log, m.id, m.client, m.seq)
       /\ ~IsAnnounced(m)
    \/ /\ m.event = "session"
       /\ rows[m.id] # NoRow
       /\ \/ /\ m.row.status = "live"
             /\ m.row.lastWebhookSeq <= rows[m.id].lastWebhookSeq
          \/ /\ m.row.status = "ended"
             /\ m.row = rows[m.id]
             /\ ~IsAnnounced(m)

Announce ==
    /\ Len(feed') = Len(feed) + 1
    /\ LET m == feed'[Len(feed')] IN
          /\ feed' = Append(feed, m)
          /\ MayAnnounce(m)
    /\ UNCHANGED <<rows, log>>

Next ==
    \/ \E id \in SessionIds : Create(id) \/ Apply(id) \/ End(id)
    \/ Store
    \/ Announce

Spec == Init /\ [][Next]_vars
=============================================================================
