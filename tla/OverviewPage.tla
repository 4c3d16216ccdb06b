---------------------------- MODULE OverviewPage -----------------------------
(***************************************************************************)
(* The dashboard's overview (server/web/index.html with the api and        *)
(* subscribe helpers of app.js) against the server.  The page reads the    *)
(* list of sessions, subscribes to the stream, and reads the list again    *)
(* whenever the stream has reconnected.  List answers and stream messages  *)
(* overwrite each other in the order in which they reach the page.         *)
(*                                                                         *)
(* A callback of the page is one step, and so is a statement of the        *)
(* server; a commit and its publication are two steps, and the second may  *)
(* never come, as in Lifecycle.tla.  A row is its status, its start and    *)
(* the number of its changes; key events are numbered.                     *)
(*                                                                         *)
(* Left out: rendering, the latest key event (lastKey), which decides over *)
(* nothing but itself, and the limit of the list, which is above the       *)
(* number of sessions here.                                                *)
(***************************************************************************)
EXTENDS Integers, Sequences, FiniteSets, SequencesExt

CONSTANTS
    Sessions,
    MaxWrites,    \* bound of the changes of session rows
    MaxKeys,      \* bound of the key events
    MaxFaults     \* bound of the lost connections, failed calls and lost answers

ASSUME OverviewAssumption ==
    /\ IsFiniteSet(Sessions)
    /\ {MaxWrites, MaxKeys, MaxFaults} \subseteq Nat

Keys == 1..MaxKeys
Starts == 1..2       \* the start of a stub, or of its webhook

NoRow == [status |-> "absent", started |-> 0, rev |-> 0]
LiveRow == [status |-> "live", started |-> 1, rev |-> 1]
Rows == [status : {"live", "ended"}, started : Starts, rev : 1..MaxWrites + 1]

VARIABLES
    table,        \* the sessions table
    keys,         \* the stored key events of each session
    toPublish,    \* messages committed but not published
    conn,         \* the EventSource: none, connecting, open
    frames,       \* messages on their way to the page
    opened,       \* the EventSource has been open before
    entries,      \* the page's entry of each session
    order,        \* the rows of the table on the page, from the top
    calls,        \* list calls in flight, with their answers
    asked,        \* number of list calls made
    writes,
    faults,
    missed,       \* history: sessions of which a message was published to no stream,
                  \* lost, or never published, since the last list query
    failed,       \* history: a list call has failed
    newest,       \* history: the newest rev of each session the page has shown
    heard, listed,\* history: key events the page has heard of, by stream and by list
    blurred       \* history: sessions a key event of which came by both ways at once

serverVars == <<table, keys, toPublish, writes>>
pageVars == <<opened, entries, order, newest, heard, listed, blurred>>
vars == <<serverVars, conn, frames, pageVars, calls, asked, faults, missed, failed>>

SessionFrame(id) == [kind |-> "session", id |-> id, row |-> table'[id], key |-> 0]
ActivityFrame(id, key) == [kind |-> "activity", id |-> id, row |-> NoRow, key |-> key]
OpenFrame == [kind |-> "open", id |-> "", row |-> NoRow, key |-> 0]

Waiting == <<>>
Call(n, boot) == [n |-> n, boot |-> boot, answer |-> Waiting]

\* Some sessions are there before the page is opened.
Init ==
    /\ table \in [Sessions -> {NoRow, LiveRow}]
    /\ keys = [id \in Sessions |-> {}]
    /\ toPublish = {}
    /\ conn = "none" /\ frames = <<>> /\ opened = FALSE
    /\ entries = [id \in Sessions |-> [session |-> NoRow, keyCount |-> 0]]
    /\ order = <<>>
    /\ calls = {Call(0, TRUE)} /\ asked = 1
    /\ writes = 0 /\ faults = 0
    /\ missed = {} /\ failed = FALSE
    /\ newest = [id \in Sessions |-> 0]
    /\ heard = [id \in Sessions |-> {}] /\ listed = [id \in Sessions |-> {}]
    /\ blurred = {}

-----------------------------------------------------------------------------
(* The server. *)

\* m is committed, and will be published; or the answer of its statement, or
\* a later statement of its request, is lost: the error returns before Publish,
\* and a retry may find nothing to change.
Commits(m) ==
    \/ /\ toPublish' = toPublish \cup {m}
       /\ UNCHANGED <<faults, missed>>
    \/ /\ faults < MaxFaults
       /\ faults' = faults + 1
       /\ missed' = missed \cup {m.id}
       /\ UNCHANGED toPublish

WriteRow(id, status, started) ==
    /\ writes < MaxWrites
    /\ writes' = writes + 1
    /\ table' = [table EXCEPT ![id] =
                    [status |-> status, started |-> started, rev |-> @.rev + 1]]
    /\ Commits(SessionFrame(id))
    /\ UNCHANGED <<keys, conn, frames, pageVars, calls, asked, failed>>

CreateSession(id) == table[id] = NoRow /\ WriteRow(id, "live", 2)

\* Another participant count, or session.started after the session's first event.
ChangeSession(id) ==
    table[id].status = "live" /\ \E t \in {1, table[id].started} : WriteRow(id, "live", t)

EndSession(id) == table[id].status = "live" /\ WriteRow(id, "ended", table[id].started)

Stored == UNION {keys[id] : id \in Sessions}

StoreKey(id, key) ==
    /\ table[id] # NoRow
    /\ key = Cardinality(Stored) + 1
    /\ keys' = [keys EXCEPT ![id] = @ \cup {key}]
    /\ Commits(ActivityFrame(id, key))
    /\ UNCHANGED <<table, writes, conn, frames, pageVars, calls, asked, failed>>

\* Publishing goroutines run in any order.
Publish(m) ==
    /\ toPublish' = toPublish \ {m}
    /\ IF conn = "open" THEN frames' = Append(frames, m) /\ UNCHANGED missed
                        ELSE missed' = missed \cup {m.id} /\ UNCHANGED frames
    /\ UNCHANGED <<table, keys, writes, conn, pageVars, calls, asked, faults, failed>>

\* ListSessions: the rows, each with the count of its key events.
Answer(c) ==
    /\ c.answer = Waiting
    /\ calls' = (calls \ {c}) \cup {[c EXCEPT !.answer = <<table, keys>>]}
    /\ missed' = {}
    /\ UNCHANGED <<serverVars, conn, frames, pageVars, asked, faults, failed>>

-----------------------------------------------------------------------------
(* The page. *)

Larger(a, b) == IF a < b THEN b ELSE a

\* Mutant: place orders by the start alone.
PrecedesByStart(a, b) == a.started > b.started

\* place, as it orders two rows: live first, then newest start first.
Precedes(a, b) ==
    \/ a.status = "live" /\ b.status = "ended"
    \/ a.status = b.status /\ a.started > b.started

\* place: the rows are sorted, in the order they are in the Map where they tie.
Place(known) ==
    order' \in {s \in SetToSeqs(known) :
                   \A i, j \in DOMAIN s :
                      i < j => ~Precedes(entries'[s[j]].session, entries'[s[i]].session)}

Known(es) == {id \in Sessions : es[id].session # NoRow}

\* Mutant: a row that is new on the page is not placed.
UpsertUnplaced(m) ==
    /\ entries' = [entries EXCEPT ![m.id].session = m.row]
    /\ newest' = [newest EXCEPT ![m.id] = Larger(@, m.row.rev)]
    /\ IF entries[m.id].session.status = "live" /\ m.row.status = "ended"
       THEN Place(Known(entries')) ELSE UNCHANGED order
    /\ UNCHANGED <<heard, listed, blurred>>

\* upsertSession of a stream message: place only when the status has changed.
UpsertFromStream(m) ==
    /\ entries' = [entries EXCEPT ![m.id].session = m.row]
    /\ newest' = [newest EXCEPT ![m.id] = Larger(@, m.row.rev)]
    /\ IF entries[m.id].session.status # m.row.status THEN Place(Known(entries'))
                                                     ELSE UNCHANGED order
    /\ UNCHANGED <<heard, listed, blurred>>

\* Mutant: the count of the list replaces the page's.
UpsertReplacing(e, row, count) == [session |-> row, keyCount |-> count]

\* upsertSession of a row of the list: the count does not move backwards.
UpsertFromList(e, row, count) == [session |-> row, keyCount |-> Larger(e.keyCount, count)]

\* loadList after its await; at boot the page subscribes then, also when the
\* call has failed.
LoadList(c) ==
    /\ c.answer # Waiting
    /\ calls' = calls \ {c}
    /\ conn' = IF c.boot THEN "connecting" ELSE conn
    /\ LET rows == c.answer[1]
           stored == c.answer[2]
           L == {id \in Sessions : rows[id] # NoRow}
       IN  /\ entries' = [id \in Sessions |->
                             IF id \in L THEN UpsertFromList(entries[id], rows[id], Cardinality(stored[id]))
                             ELSE entries[id]]
           /\ Place(Known(entries'))
           /\ newest' = [id \in Sessions |-> Larger(newest[id], rows[id].rev)]
           /\ listed' = [id \in Sessions |-> listed[id] \cup stored[id]]
           /\ blurred' = blurred \cup {id \in Sessions : ~(heard[id] \subseteq stored[id])}
    /\ UNCHANGED <<serverVars, frames, opened, heard, asked, faults, missed, failed>>

LoadListFails(c) ==
    /\ faults < MaxFaults
    /\ faults' = faults + 1
    /\ failed' = TRUE
    /\ calls' = calls \ {c}
    /\ conn' = IF c.boot THEN "connecting" ELSE conn
    /\ UNCHANGED <<serverVars, frames, pageVars, asked, missed>>

Connect ==
    /\ conn = "connecting"
    /\ conn' = "open"
    /\ frames' = Append(frames, OpenFrame)
    /\ UNCHANGED <<serverVars, pageVars, calls, asked, faults, missed, failed>>

\* The connection breaks; the frames not yet with the page may be lost.
LoseConnection ==
    /\ conn = "open"
    /\ faults < MaxFaults
    /\ faults' = faults + 1
    /\ conn' = "connecting"
    /\ \E k \in 0..Len(frames) :
          /\ frames' = SubSeq(frames, 1, k)
          /\ missed' = missed \cup ({frames[i].id : i \in k + 1 .. Len(frames)} \cap Sessions)
    /\ UNCHANGED <<serverVars, pageVars, calls, asked, failed>>

NextFrame(kind) ==
    /\ frames # <<>> /\ Head(frames).kind = kind
    /\ frames' = Tail(frames)

\* Mutant: a reconnect does not read the list again.
OnOpenQuietly ==
    /\ NextFrame("open")
    /\ opened' = TRUE
    /\ missed' = IF opened THEN {} ELSE missed
    /\ UNCHANGED <<serverVars, conn, entries, order, newest, heard, listed, blurred,
                   calls, asked, faults, failed>>

\* Every open after the first is a reconnect: loadList.
OnOpen ==
    /\ NextFrame("open")
    /\ opened' = TRUE
    /\ IF opened THEN calls' = calls \cup {Call(asked, FALSE)} /\ asked' = asked + 1
                 ELSE UNCHANGED <<calls, asked>>
    \* What was missed is read now.
    /\ missed' = IF opened THEN {} ELSE missed
    /\ UNCHANGED <<serverVars, conn, entries, order, newest, heard, listed, blurred,
                   faults, failed>>

OnSession ==
    /\ NextFrame("session")
    /\ UpsertFromStream(Head(frames))
    /\ UNCHANGED <<serverVars, conn, opened, calls, asked, faults, missed, failed>>

\* onActivity: counted, although a list may have counted it already.
OnActivity ==
    /\ NextFrame("activity")
    /\ LET m == Head(frames) IN
       /\ entries' = [entries EXCEPT ![m.id].keyCount = @ + 1]
       /\ heard' = [heard EXCEPT ![m.id] = @ \cup {m.key}]
       /\ blurred' = IF m.key \in listed[m.id] THEN blurred \cup {m.id} ELSE blurred
    /\ UNCHANGED <<serverVars, conn, opened, order, newest, listed, calls, asked,
                   faults, missed, failed>>

-----------------------------------------------------------------------------
Next ==
    \/ \E id \in Sessions :
          \/ CreateSession(id) \/ ChangeSession(id) \/ EndSession(id)
          \/ \E key \in Keys : StoreKey(id, key)
    \/ \E m \in toPublish : Publish(m)
    \/ \E c \in calls : Answer(c) \/ LoadList(c) \/ LoadListFails(c)
    \/ Connect \/ LoseConnection
    \/ OnOpen \/ OnSession \/ OnActivity

Spec == Init /\ [][Next]_vars

-----------------------------------------------------------------------------
(* Properties. *)

Entry == [session : Rows \cup {NoRow}, keyCount : Nat]

\* Type invariant.
TypeOK ==
    /\ table \in [Sessions -> Rows \cup {NoRow}]
    /\ keys \in [Sessions -> SUBSET Keys]
    /\ \A m \in toPublish \cup Range(frames) :
          m.kind \in {"session", "activity", "open"} /\ m.row \in Rows \cup {NoRow}
    /\ conn \in {"none", "connecting", "open"}
    /\ opened \in BOOLEAN /\ failed \in BOOLEAN
    /\ entries \in [Sessions -> Entry]
    /\ order \in SetToSeqs(Known(entries))
    /\ missed \subseteq Sessions /\ blurred \subseteq Sessions

\* Nothing is on its way to the page or waits to be published.
Settled ==
    /\ toPublish = {} /\ frames = <<>> /\ calls = {}
    /\ conn = "open" /\ opened

\* A settled overview shows every session as it is stored, and counts its key
\* events, unless the page was told nothing (a message was published before the
\* stream was first open, or never, because the answer of its commit was lost,
\* and no list was read since; or a list call failed), or was told in the wrong
\* order: an older row reached it after a newer one, or a list answer crossed
\* with the message of a key event.
SettledOverviewIsCurrent ==
    (Settled /\ ~failed) =>
        \A id \in Sessions \ missed :
            /\ entries[id].session = table[id] \/ entries[id].session.rev < newest[id]
            /\ entries[id].keyCount = Cardinality(keys[id]) \/ id \in blurred

\* "Never move backwards past what the stream added" (index.html:99): the count
\* is never below the key events heard of by stream, nor below those of any
\* list; an old list answer takes nothing back.
KeyCountKeepsWhatWasSeen ==
    \A id \in Sessions :
        /\ entries[id].keyCount >= Cardinality(heard[id])
        /\ entries[id].keyCount >= Cardinality(listed[id])

\* On the page live rows stand above ended ones, however messages and lists
\* interleave.  (Within a group the order may be out of date: a new start
\* without a new status does not call place.)
LiveRowsFirst ==
    \A i, j \in DOMAIN order :
        (entries[order[i]].session.status = "ended" /\ i < j)
            => entries[order[j]].session.status = "ended"
=============================================================================
