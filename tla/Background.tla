----------------------------- MODULE Background ------------------------------
(***************************************************************************)
(* What the extension's background makes of time: the meter's rate         *)
(* (meter.ts) and the deduplication of sensitive URLs                      *)
(* (sensitiveDetector.ts) behind the one path of the recorder              *)
(* (recorder.ts).                                                          *)
(*                                                                         *)
(* A captured event carries the time at which a content script made it and *)
(* arrives later; several tabs send, so that events of one URL or of many  *)
(* arrive out of the order of their times.  A URL that tabs.onUpdated      *)
(* reports takes the clock's time on arrival.                              *)
(*                                                                         *)
(* Left out: the batcher (Recorder.tla), the per-type counters, and URLs   *)
(* that do not parse or match no segment: observe returns at once.         *)
(***************************************************************************)
EXTENDS Integers, Sequences, SequencesExt, FiniteSets

CONSTANTS
    Urls,         \* sensitive URLs
    DedupWindow,  \* SENSITIVE_WINDOW_MS
    RateWindow,   \* METER_WINDOW_MS
    RecentSize,   \* RECENT_SIZE
    MaxLag,       \* bound of the time between an event and its arrival
    MaxTime,      \* bound of the clock
    MaxEvents     \* bound of the events accepted

ASSUME BackgroundAssumption ==
    /\ {DedupWindow, RateWindow, RecentSize} \subseteq Nat \ {0}
    /\ {MaxLag, MaxTime, MaxEvents} \subseteq Nat

VARIABLES
    now,        \* the clock
    ended,      \* session_ended has arrived
    seen,       \* of a URL, the time of the emission kept for it, or None
    window,     \* the times in the rate window, in the order of arrival
    recent,     \* the sequence numbers of the recent events
    shown,      \* the rate last handed out, and the time it was computed for
    accepted,   \* history: the times of all accepted events
    observed,   \* history: what the detector was asked
    emitted     \* history: the times of the sensitive_url events of a URL

vars == <<now, ended, seen, window, recent, shown, accepted, observed, emitted>>

None == -1
Times == 0..MaxTime

Init ==
    /\ now = 0
    /\ ended = FALSE
    /\ seen = [u \in Urls |-> None]
    /\ window = <<>>
    /\ recent = <<>>
    /\ shown = [rate |-> 0, at |-> 0]
    /\ accepted = <<>>
    /\ observed = {} /\ emitted = [u \in Urls |-> <<>>]

-----------------------------------------------------------------------------
(* The meter. *)

\* Mutant: prune keeps what is just as old as the window.
PrunedLater(w, t) ==
    LET kept == {i \in DOMAIN w : w[i] >= t - RateWindow}
    IN  IF kept = {} THEN <<>> ELSE SubSeq(w, Min(kept), Len(w))

\* prune: from the front, up to the first time inside the window.
Pruned(w, t) ==
    LET kept == {i \in DOMAIN w : w[i] > t - RateWindow}
    IN  IF kept = {} THEN <<>> ELSE SubSeq(w, Min(kept), Len(w))

\* Mutant: the ring of recent events is one too long.
RecentOneMore(s) == SubSeq(s, Max({1, Len(s) - RecentSize}), Len(s))

\* push: the ring buffer.
Recent(s) == SubSeq(s, Max({1, Len(s) - RecentSize + 1}), Len(s))

\* snapshot for time t.
Snapshot(w, t) ==
    /\ window' = Pruned(w, t)
    /\ shown' = [rate |-> Len(window'), at |-> t]

-----------------------------------------------------------------------------
(* The recorder. *)

\* accept of k events, one or two, of the same time.
Accepts(k, t) ==
    LET n == Len(accepted) IN
    /\ n + k <= MaxEvents
    /\ accepted' = accepted \o [i \in 1..k |-> t]
    \* Pruning twice for the same time is pruning once.
    /\ Snapshot(window \o [i \in 1..k |-> t], t)
    /\ recent' = Recent(recent \o [i \in 1..k |-> n + i])

\* The emissions still known after prune; a URL without one is a hit.
Kept(t) ==
    [u \in Urls |-> IF seen[u] # None /\ t - seen[u] >= DedupWindow THEN None ELSE seen[u]]

IsHit(u, t) == Kept(t)[u] = None

\* Mutant: a suppressed duplicate extends the window.
DetectExtending(u, t) ==
    /\ observed' = observed \cup {<<u, t>>}
    /\ seen' = [Kept(t) EXCEPT ![u] = t]
    /\ emitted' = IF IsHit(u, t) THEN [emitted EXCEPT ![u] = Append(@, t)] ELSE emitted

\* observe of the detector: a hit unless one of the URL is still known.
Detect(u, t) ==
    /\ observed' = observed \cup {<<u, t>>}
    /\ seen' = IF IsHit(u, t) THEN [Kept(t) EXCEPT ![u] = t] ELSE Kept(t)
    /\ emitted' = IF IsHit(u, t) THEN [emitted EXCEPT ![u] = Append(@, t)] ELSE emitted

\* record of an event that is no navigation to a sensitive URL.  (A captured
\* sensitive_url is dropped, and so is everything after the end.)
Record(t) ==
    /\ ~ended
    /\ Accepts(1, t)
    /\ UNCHANGED <<now, ended, seen, observed, emitted>>

\* record of a navigation: the event itself, then a sensitive_url for a hit.
RecordNavigation(u, t) ==
    /\ ~ended
    /\ Detect(u, t)
    /\ Accepts(IF IsHit(u, t) THEN 2 ELSE 1, t)
    /\ UNCHANGED <<now, ended>>

\* observeUrl.
ObserveUrl(u) ==
    /\ ~ended
    /\ Detect(u, now)
    /\ IF IsHit(u, now) THEN Accepts(1, now)
       ELSE UNCHANGED <<window, recent, shown, accepted>>
    /\ UNCHANGED <<now, ended>>

\* snapshot of the recorder: a popup subscribes.
Subscribe ==
    /\ Snapshot(window, now)
    /\ UNCHANGED <<now, ended, seen, recent, accepted, observed, emitted>>

End ==
    /\ ended' = TRUE
    /\ UNCHANGED <<now, seen, window, recent, shown, accepted, observed, emitted>>

Tick ==
    /\ now < MaxTime
    /\ now' = now + 1
    /\ UNCHANGED <<ended, seen, window, recent, shown, accepted, observed, emitted>>

\* The times an event that arrives now may have.
Arriving == {t \in Times : now - MaxLag <= t /\ t <= now}

Next ==
    \/ \E t \in Arriving : Record(t) \/ (\E u \in Urls : RecordNavigation(u, t))
    \/ \E u \in Urls : ObserveUrl(u)
    \/ Subscribe \/ End \/ Tick

Spec == Init /\ [][Next]_vars

-----------------------------------------------------------------------------
(* Properties. *)

\* Type invariant.
TypeOK ==
    /\ now \in Times
    /\ ended \in BOOLEAN
    /\ seen \in [Urls -> Times \cup {None}]
    /\ window \in Seq(Times)
    /\ recent \in Seq(1..MaxEvents) /\ Len(recent) <= RecentSize
    /\ shown \in [rate : Nat, at : Times]
    /\ accepted \in Seq(Times)
    /\ observed \subseteq Urls \X Times /\ emitted \in [Urls -> Seq(Times)]

\* A sensitive URL that the content script and tabs.onUpdated report, in
\* either order and late, yields one event per window: every report has an
\* event of the same URL less than a window before it, or made while it was
\* under way; and two events of one URL are a window apart, less the time by
\* which a report can be late (a later report of another URL may have made the
\* detector forget the first).
SensitiveUrlOncePerWindow ==
    /\ \A o \in observed : \E e \in Range(emitted[o[1]]) :
          o[2] - DedupWindow < e /\ e <= o[2] + MaxLag
    /\ \A u \in Urls : \A i, j \in DOMAIN emitted[u] :
          i < j => emitted[u][j] - emitted[u][i] >= DedupWindow - MaxLag

Since(t) == Cardinality({i \in DOMAIN accepted : accepted[i] > t})

\* The rate is right up to the lateness of events: the window is pruned from
\* its front although the times in it are not in order, so that a late event
\* may be counted too long, by no more than MaxLag; no event is ever counted
\* too short.
RateRightUpToLag ==
    /\ Since(now - RateWindow) <= shown.rate
    /\ shown.rate <= Since(shown.at - RateWindow - MaxLag)
=============================================================================
