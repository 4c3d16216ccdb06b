------------------------------ MODULE Recorder -------------------------------
(***************************************************************************)
(* From a captured event to a row of the events table: the recorder of the *)
(* extension's background (recorder.ts, batcher.ts, transport.ts) and the  *)
(* ingest request of the server (ingest/handler.go, RecordEvents) with a   *)
(* network and a server that fail, and a background that the browser may   *)
(* stop and start again (index.ts).                                        *)
(*                                                                         *)
(* A handler of the background is one step; the awaited fetch separates    *)
(* two of them.  A fetch that is posted stays in `requests' until the      *)
(* server's handler has ended, also when the extension has long given up   *)
(* on it: an answer may be lost and the batch sent again while the first   *)
(* copy is still being stored.  Lifecycle.tla models RecordEvents in full; *)
(* here it is reduced to the rows it inserts.                              *)
(*                                                                         *)
(* Left out: the Session Meter and the popup, which no step here reads.    *)
(***************************************************************************)
EXTENDS Batcher, FiniteSets

CONSTANTS
    MaxBoots,    \* bound of the background boots
    MaxEvents,   \* bound of the events each boot records
    MaxFaults    \* bound of the lost fetches and failed statements

Boots == 1..MaxBoots

ASSUME RecorderAssumption ==
    /\ MaxBoots \in Nat \ {0}
    /\ MaxEvents \in [Boots -> Nat]
    /\ MaxFaults \in Nat

VARIABLES
    boot,       \* the boot that is running; its number is its client_id
    seq,        \* per boot, the last sequence number it assigned
    ended,      \* the session_ended event has arrived in this boot
    batcher,    \* the batcher of this boot
    answer,     \* what the awaited fetch will settle with
    requests,   \* ingest requests the server has not finished
    log,        \* the events table, in the order of insertion
    faults

vars == <<boot, seq, ended, batcher, answer, requests, log, faults>>

\* `awaited': the fetch the running boot awaits; `rest': events to insert.
Request == [boot : Boots, awaited : BOOLEAN, rest : Seq(Event)]

Row == [boot : Boots, seq : Nat \ {0}]

Init ==
    /\ boot = 1
    /\ seq = [n \in Boots |-> 0]
    /\ ended = FALSE
    /\ batcher = NewBatcher
    /\ answer = "none"
    /\ requests = {}
    /\ log = <<>>
    /\ faults = 0

-----------------------------------------------------------------------------
(* The background. *)

\* The batcher becomes b, and a send it starts is posted.
Becomes(b) ==
    /\ batcher' = b
    /\ requests' = IF b.sending /\ ~batcher.sending
                   THEN requests \cup {[boot |-> boot, awaited |-> TRUE, rest |-> b.batch]}
                   ELSE requests

\* Mutant: the sequence starts at 0.
AcceptedFromZero(b, n, kind) == Add(b, [seq |-> n - 1, kind |-> kind])

\* accept: the next sequence number, then the batcher.
Accepted(b, n, kind) == Add(b, [seq |-> n, kind |-> kind])

\* record of a captured event; after the end it is dropped.
Record(kind) ==
    /\ ~ended
    /\ seq[boot] < MaxEvents[boot]
    /\ seq' = [seq EXCEPT ![boot] = @ + 1]
    /\ Becomes(Accepted(batcher, seq[boot] + 1, kind))
    /\ UNCHANGED <<boot, ended, answer, log, faults>>

\* record of a navigation to a sensitive URL: two events in one call.  The
\* detector's own deduplication is left open.
RecordSensitiveNavigation ==
    /\ ~ended
    /\ seq[boot] + 1 < MaxEvents[boot]
    /\ seq' = [seq EXCEPT ![boot] = @ + 2]
    /\ Becomes(Accepted(Accepted(batcher, seq[boot] + 1, "plain"), seq[boot] + 2, "key"))
    /\ UNCHANGED <<boot, ended, answer, log, faults>>

\* end: stop accepting, then flush.  Both listeners of index.ts may call it.
End ==
    /\ ended' = TRUE
    /\ Becomes(Flush(batcher))
    /\ UNCHANGED <<boot, seq, answer, log, faults>>

TimerFires ==
    /\ batcher.timer # {}
    /\ Becomes(TimerFired(batcher))
    /\ UNCHANGED <<boot, seq, ended, answer, log, faults>>

\* No request is awaited any more.
Unawaited == {[r EXCEPT !.awaited = FALSE] : r \in requests}

\* The fetch resolved with a 2xx.
SendResolves ==
    /\ answer = "accepted"
    /\ answer' = "none"
    /\ batcher' = SendSucceeded(batcher)
    /\ requests' = Unawaited
    /\ UNCHANGED <<boot, seq, ended, log, faults>>

\* The fetch was rejected, or resolved with another status and the transport threw.
SendRejects ==
    /\ answer = "error"
    /\ answer' = "none"
    /\ batcher' = SendFailed(batcher)
    /\ requests' = Unawaited
    /\ UNCHANGED <<boot, seq, ended, log, faults>>

\* The browser stops the service worker and starts it again: main() makes a
\* new client_id; the queue and the timer are gone.
Reboot ==
    /\ boot < MaxBoots
    /\ boot' = boot + 1
    /\ ended' = FALSE
    /\ batcher' = NewBatcher
    /\ answer' = "none"
    /\ requests' = Unawaited
    /\ UNCHANGED <<seq, log, faults>>

-----------------------------------------------------------------------------
(* The server. *)

IsLogged(r, n) == \E i \in DOMAIN log : log[i] = [boot |-> r.boot, seq |-> n]

\* Validate looks at the whole batch before anything is stored.
IsValid(r) == \A i \in DOMAIN r.rest : r.rest[i].kind # "invalid"

\* The handler of r ends; its answer counts if it is still awaited.
Ends(r, result) ==
    /\ requests' = requests \ {r}
    /\ answer' = IF r.awaited /\ answer = "none" THEN result ELSE answer

Refuse(r) ==
    /\ ~IsValid(r)
    /\ Ends(r, "error")
    /\ UNCHANGED <<boot, seq, ended, batcher, log, faults>>

\* RecordEvents, one event: a duplicate is skipped.
StoreEvent(r) ==
    /\ IsValid(r) /\ r.rest # <<>>
    /\ log' = IF IsLogged(r, Head(r.rest).seq) THEN log
              ELSE Append(log, [boot |-> r.boot, seq |-> Head(r.rest).seq])
    /\ requests' = (requests \ {r}) \cup {[r EXCEPT !.rest = Tail(@)]}
    /\ UNCHANGED <<boot, seq, ended, batcher, answer, faults>>

\* Mutant: the batch is acknowledged before all of it is stored.
AnswerEarly(r) ==
    /\ IsValid(r)
    /\ Ends(r, "accepted")
    /\ UNCHANGED <<boot, seq, ended, batcher, log, faults>>

Answer(r) ==
    /\ r.rest = <<>>
    /\ Ends(r, "accepted")
    /\ UNCHANGED <<boot, seq, ended, batcher, log, faults>>

\* A statement fails, or the request's context is cancelled: RecordEvents stops.
HandlerFails(r) ==
    /\ faults < MaxFaults
    /\ faults' = faults + 1
    /\ Ends(r, "error")
    /\ UNCHANGED <<boot, seq, ended, batcher, log>>

\* The connection breaks under the awaited fetch, its answer included; the
\* server's handler may go on.
LoseConnection ==
    /\ batcher.sending /\ answer # "error"
    /\ faults < MaxFaults
    /\ faults' = faults + 1
    /\ answer' = "error"
    /\ UNCHANGED <<boot, seq, ended, batcher, requests, log>>

-----------------------------------------------------------------------------
Handle(r) == Refuse(r) \/ StoreEvent(r) \/ Answer(r)

Settle == SendResolves \/ SendRejects

Next ==
    \/ \E kind \in {"plain", "key", "invalid"} : Record(kind)
    \/ RecordSensitiveNavigation
    \/ End
    \/ TimerFires
    \/ Settle
    \/ Reboot
    \/ \E r \in requests : Handle(r) \/ HandlerFails(r)
    \/ LoseConnection

Spec == Init /\ [][Next]_vars

\* A pending timer fires, a fetch settles, the server gets on with its requests.
\* Nobody has to record, end or restart anything.
Fairness ==
    /\ WF_vars(TimerFires)
    /\ WF_vars(Settle)
    /\ WF_vars(\E r \in requests : r.awaited /\ Handle(r))

FairSpec == Spec /\ Fairness

-----------------------------------------------------------------------------
(* Properties. *)

\* Type invariant.
TypeOK ==
    /\ boot \in Boots
    /\ seq \in [Boots -> Nat]
    /\ ended \in BOOLEAN
    /\ batcher \in BatcherState
    /\ answer \in {"none", "accepted", "error"}
    /\ requests \subseteq Request
    /\ log \in Seq(Row)
    /\ faults \in Nat

Pending == batcher.batch \o batcher.queue

Delivery == INSTANCE EventDelivery WITH recorded <- seq

\* However fetches fail, answers are lost, copies of a batch overtake each
\* other and the background restarts, the events table holds of every boot a
\* prefix of what it recorded: each event once, in order, without a gap.
ImplementsEventDelivery == Delivery!Spec

\* The batcher forgets nothing and reorders nothing: the batch in flight and
\* the queue are the last events of this boot in the order they were recorded,
\* and all before them are stored.
PendingIsTheUnstoredTail ==
    LET first == seq[boot] - Len(Pending) IN
    /\ \A i \in DOMAIN Pending : Pending[i].seq = first + i
    /\ first <= Delivery!Stored(boot)

\* A queued event never waits for a wake-up nobody will send: a send is awaited,
\* whose end looks at the queue again, or a timer is pending.
NoLostWakeUp == batcher.queue # <<>> => batcher.sending \/ batcher.timer # {}

HasInvalid == \E i \in DOMAIN Pending : Pending[i].kind = "invalid"

\* Once faults stop, every recorded event is stored, also after session_ended,
\* unless the background is stopped first or the server refuses an event of
\* the same boot, which then blocks all behind it.
RecordedEventsAreStored ==
    \A b \in Boots : \A n \in 1..MaxEvents[b] :
        (boot = b /\ seq[b] >= n) ~>
            (IsLogged([boot |-> b], n) \/ boot # b \/ HasInvalid)

(* A statement of the repository's comments that the code does not keep. *)

\* batcher.ts:3 says that a key event is flushed immediately.  Without failures
\* one may still have to wait for the send before it, but for nothing else.
KeyEventsAreNotHeldBack ==
    (/\ \E i \in DOMAIN batcher.queue : batcher.queue[i].kind = "key"
     /\ batcher.failures = 0
     /\ ~batcher.sending)
       => batcher.timer = {0}
=============================================================================
