----------------------------- MODULE SessionPage -----------------------------
(***************************************************************************)
(* The dashboard's page of one session (server/web/session.html with the   *)
(* api and subscribe helpers of app.js) against the server: the feed is    *)
(* filled by a read of the log and by the frames of an EventSource, a      *)
(* reconnect reads the session again, and the end of the session switches  *)
(* the page to the replay of the whole log, which the user plays, pauses   *)
(* and seeks in while the timer of the playback fires.                     *)
(*                                                                         *)
(* The page is one thread: a callback, and the code after an await, is one *)
(* step.  A call to the read API is evaluated by the server at one moment  *)
(* and its answer is used at a later one.  The server commits an event or  *)
(* the end of the session first and publishes it in a later step, or never *)
(* if the commit's answer is lost (Lifecycle.tla); the stream passes it on *)
(* if it is connected then.                                                *)
(*                                                                         *)
(* Left out: meter and rendering, live session messages (they change only  *)
(* the page's head), and the cut of the feed to its last MAX_FEED rows.    *)
(***************************************************************************)
EXTENDS Integers, Sequences, SequencesExt, FiniteSets

CONSTANTS
    MaxEvents,    \* bound of the events of the session
    MaxFaults     \* bound of the lost connections, failed calls and lost answers

ASSUME PageAssumption == MaxEvents \in Nat /\ MaxFaults \in Nat

Events == 1..MaxEvents

VARIABLES
    status,       \* the session's row: live or ended
    log,          \* the stored events of the session, in replay order
    toPublish,    \* committed, not yet published: events, 0 for the end
    conn,         \* the EventSource: none, connecting, open
    frames,       \* frames on their way to the page
    mode,         \* boot, live, loading (the replay's log), replay, error
    session,      \* the status the page shows
    opened,       \* the EventSource has been open before
    holding,      \* the backfill has not arrived (`pending' is not null)
    held,         \* the activity held until then
    seen,         \* the events startLive has applied
    feed,         \* the rows of the feed
    players,      \* what startReplay has set up, the latest last
    enabled,      \* the controls that are enabled; they drive the latest player
    calls,        \* API calls in flight
    faults,
    missed,       \* history: published to no open stream, lost, or never published
    failed,       \* history: the kinds of calls that failed
    disturbed     \* history: a second replay was started, or a late backfill applied

serverVars == <<status, log, toPublish>>
playback == <<players, enabled, disturbed>>
pageVars == <<mode, session, opened, holding, held, seen, feed, playback>>
vars == <<serverVars, conn, frames, pageVars, calls, faults, missed, failed>>

TheEnd == 0

OpenFrame == [kind |-> "open", event |-> TheEnd]
EndFrame == [kind |-> "session", event |-> TheEnd]
ActivityFrame(e) == [kind |-> "activity", event |-> e]

Waiting == [state |-> "waiting", status |-> "live", events |-> <<>>]

\* A call differs by its number from those of its kind in flight.
Call(kind) ==
    [n |-> CHOOSE n \in 0..Cardinality(calls) : \A c \in calls : c.kind = kind => c.n # n,
     kind |-> kind, answer |-> Waiting]

\* The page asks and waits; `done' is the call whose answer it has just used.
Asks(kind, done) == calls' = (calls \ done) \cup {Call(kind)}

\* A page of a session that is live, opened at some point of its life.
Init ==
    /\ status = "live"
    /\ log = <<>>
    /\ toPublish = {}
    /\ conn = "none"
    /\ frames = <<>>
    /\ mode = "boot"
    /\ session = "live"
    /\ opened = FALSE
    /\ holding = FALSE
    /\ held = <<>>
    /\ seen = {}
    /\ feed = <<>>
    /\ players = <<>>
    /\ enabled = {}
    /\ disturbed = FALSE
    /\ calls = {[n |-> 0, kind |-> "main", answer |-> Waiting]}
    /\ faults = 0
    /\ missed = {}
    /\ failed = {}

-----------------------------------------------------------------------------
(* The server. *)

\* m is committed, and will be published; or the answer of its statement is
\* lost, its goroutine returns the error, a retry finds nothing to change, and
\* m is never published.
Commits(m) ==
    \/ /\ toPublish' = toPublish \cup {m}
       /\ UNCHANGED <<faults, missed>>
    \/ /\ faults < MaxFaults
       /\ faults' = faults + 1
       /\ missed' = missed \cup {m}
       /\ UNCHANGED toPublish

\* An event is stored, before or after the end.
StoreEvent ==
    /\ Len(log) < MaxEvents
    /\ log' = Append(log, Len(log) + 1)
    /\ Commits(Len(log) + 1)
    /\ UNCHANGED <<status, conn, frames, pageVars, calls, failed>>

\* A webhook or the reaper ends the session.
EndSession ==
    /\ status = "live"
    /\ status' = "ended"
    /\ Commits(TheEnd)
    /\ UNCHANGED <<log, conn, frames, pageVars, calls, failed>>

Publish(m) ==
    /\ m \in toPublish
    /\ toPublish' = toPublish \ {m}
    /\ IF conn = "open"
       THEN /\ frames' = Append(frames, IF m = TheEnd THEN EndFrame ELSE ActivityFrame(m))
            /\ UNCHANGED missed
       ELSE /\ missed' = missed \cup {m}
            /\ UNCHANGED frames
    /\ UNCHANGED <<status, log, conn, pageVars, calls, faults, failed>>

\* GET /api/sessions/{id} and .../events: one statement each.
Answer(c) ==
    /\ c.answer = Waiting
    /\ LET value == IF c.kind \in {"main", "reread"}
                    THEN [state |-> "ok", status |-> status, events |-> <<>>]
                    ELSE [state |-> "ok", status |-> "live", events |-> log]
       IN  calls' = (calls \ {c}) \cup {[c EXCEPT !.answer = value]}
    \* The backfill has what was stored up to now.
    /\ missed' = IF c.kind = "backfill" THEN missed \cap {TheEnd} ELSE missed
    /\ UNCHANGED <<serverVars, conn, frames, pageVars, faults, failed>>

FailCall(c) ==
    /\ c.answer.state # "failed"
    /\ faults < MaxFaults
    /\ faults' = faults + 1
    /\ failed' = failed \cup {c.kind}
    /\ calls' = (calls \ {c}) \cup {[c EXCEPT !.answer = [Waiting EXCEPT !.state = "failed"]]}
    /\ UNCHANGED <<serverVars, conn, frames, pageVars, missed>>

\* The SSE request subscribes, then sends its headers.
Connect ==
    /\ conn = "connecting"
    /\ conn' = "open"
    /\ frames' = Append(frames, OpenFrame)
    /\ UNCHANGED <<serverVars, pageVars, calls, faults, missed, failed>>

\* The connection breaks or the hub drops the stream; the frames not yet with
\* the page may be lost, from some point on.  The browser connects again.
LoseConnection ==
    /\ conn = "open"
    /\ faults < MaxFaults
    /\ faults' = faults + 1
    /\ conn' = "connecting"
    /\ \E k \in 0..Len(frames) :
          /\ frames' = SubSeq(frames, 1, k)
          /\ missed' = missed \cup {frames[i].event : i \in
                          {j \in k + 1 .. Len(frames) : frames[j].kind # "open"}}
    /\ UNCHANGED <<serverVars, pageVars, calls, failed>>

-----------------------------------------------------------------------------
(* The page. *)

Ready(c, kind) == c.kind = kind /\ c.answer # Waiting

\* Mutant: an event that was seen is shown again.
AppliedAgain(page, e) ==
    [feed |-> Append(page.feed, e), seen |-> page.seen \cup {e}]

\* apply of startLive: an event not seen yet is appended to the feed.
Applied(page, e) ==
    IF e \in page.seen THEN page
    ELSE [feed |-> Append(page.feed, e), seen |-> page.seen \cup {e}]

\* The page after all of events, applied one after the other.
AfterAll(events, page) ==
    LET after[n \in 0..Len(events)] ==
          IF n = 0 THEN page ELSE Applied(after[n - 1], events[n])
    IN  after[Len(events)]

Applies(events) ==
    LET page == AfterAll(events, [feed |-> feed, seen |-> seen]) IN
    /\ feed' = page.feed
    /\ seen' = page.seen

\* The replay has been started before.
Switched == mode \in {"loading", "replay"}

\* Mutant: the stream is not closed.
SwitchKeepsStream(done) ==
    /\ mode' = "loading"
    /\ feed' = <<>>
    /\ enabled' = {}
    /\ disturbed' = (disturbed \/ Switched)
    /\ Asks("replay", done)
    /\ UNCHANGED <<conn, frames, players>>

\* stopLive, then startReplay up to its await.
SwitchToReplay(done) ==
    /\ conn' = "none"
    /\ frames' = <<>>
    /\ mode' = "loading"
    /\ feed' = <<>>
    /\ enabled' = {}
    /\ disturbed' = (disturbed \/ Switched)
    /\ Asks("replay", done)
    \* A player that is there goes on.
    /\ UNCHANGED players

\* main: the session has been read.
Boot(c) ==
    /\ Ready(c, "main")
    /\ \/ /\ c.answer.state = "failed"
          /\ mode' = "error"
          /\ calls' = calls \ {c}
          /\ UNCHANGED <<conn, frames, session, holding, feed, playback>>
       \/ /\ c.answer.state = "ok" /\ c.answer.status = "live"
          /\ mode' = "live"
          /\ conn' = "connecting"
          /\ session' = "live"
          /\ holding' = TRUE
          /\ Asks("backfill", {c})
          /\ UNCHANGED <<frames, feed, playback>>
       \/ /\ c.answer.state = "ok" /\ c.answer.status = "ended"
          /\ session' = "ended"
          /\ SwitchToReplay({c})
          /\ UNCHANGED holding
    /\ UNCHANGED <<serverVars, opened, held, seen, faults, missed, failed>>

\* Mutant: the frames held during the backfill are not applied.
BackfillForgetsHeld(c) ==
    /\ Ready(c, "backfill")
    /\ Applies(c.answer.events)
    /\ holding' = FALSE
    /\ held' = <<>>
    /\ calls' = calls \ {c}
    /\ disturbed' = (disturbed \/ Switched)
    /\ UNCHANGED <<serverVars, conn, frames, mode, session, opened, players, enabled, faults, missed, failed>>

\* startLive after its await, whatever the page's mode is by then; a failed
\* backfill is logged and counts as empty.
Backfill(c) ==
    /\ Ready(c, "backfill")
    /\ Applies(c.answer.events \o held)
    /\ holding' = FALSE
    /\ held' = <<>>
    /\ calls' = calls \ {c}
    /\ disturbed' = (disturbed \/ Switched)
    /\ UNCHANGED <<serverVars, conn, frames, mode, session, opened, players, enabled, faults, missed, failed>>

\* onReconnect after its await: it may switch a page that has switched already.
Reread(c) ==
    /\ Ready(c, "reread")
    /\ \/ /\ c.answer.state = "failed"
          /\ calls' = calls \ {c}
          /\ UNCHANGED <<conn, frames, mode, session, feed, playback>>
       \/ /\ c.answer.state = "ok" /\ c.answer.status = "live"
          /\ session' = "live"
          /\ calls' = calls \ {c}
          /\ UNCHANGED <<conn, frames, mode, feed, playback>>
       \/ /\ c.answer.state = "ok" /\ c.answer.status = "ended"
          /\ session' = "ended"
          /\ SwitchToReplay({c})
    /\ UNCHANGED <<serverVars, opened, holding, held, seen, faults, missed, failed>>

\* seek's feed: the first k events.
Rows(events, k) == SubSeq(events, 1, k)

Controls == {"play", "toStart", "toEnd", "scrubber"}

\* renderControls: the two jumps are disabled where they would do nothing.
Rendered(controls, p) ==
    (controls \ {"toStart", "toEnd"})
      \cup (IF p.pos = 0 THEN {} ELSE {"toStart"})
      \cup (IF p.pos >= Len(p.log) THEN {} ELSE {"toEnd"})

\* Mutant: seek renders one row too many.
ReplayOneTooMany(c) ==
    /\ Ready(c, "replay")
    /\ calls' = calls \ {c}
    /\ feed' = Append(c.answer.events, MaxEvents + 1)
    /\ mode' = "replay"
    /\ UNCHANGED <<serverVars, conn, frames, session, opened, holding, held, seen,
                   playback, faults, missed, failed>>

\* startReplay after its await: a player that is paused at the end, with the
\* whole log on screen, takes the controls over.  Without events, or when the
\* call failed, only a text is shown.
Replay(c) ==
    /\ Ready(c, "replay")
    /\ calls' = calls \ {c}
    /\ mode' = "replay"
    /\ LET events == c.answer.events
           p == [log |-> events, pos |-> Len(events), playing |-> FALSE, timers |-> 0]
       IN  IF events = <<>> THEN UNCHANGED <<feed, players, enabled>>
           ELSE /\ feed' = Rows(events, p.pos)
                /\ players' = Append(players, p)
                /\ enabled' = Rendered(Controls, p)
    /\ UNCHANGED <<serverVars, conn, frames, session, opened, holding, held, seen, faults, missed, failed, disturbed>>

NextFrame(kind) == conn # "none" /\ frames # <<>> /\ Head(frames).kind = kind

\* Mutant: a reconnect does not read the session again.
OnOpenQuietly ==
    /\ NextFrame("open")
    /\ frames' = Tail(frames)
    /\ opened' = TRUE
    /\ missed' = IF opened THEN missed \ {TheEnd} ELSE missed
    /\ UNCHANGED <<serverVars, conn, mode, session, holding, held, seen, feed,
                   playback, calls, faults, failed>>

\* Every open after the first is a reconnect.
OnOpen ==
    /\ NextFrame("open")
    /\ frames' = Tail(frames)
    /\ opened' = TRUE
    /\ IF opened THEN Asks("reread", {}) ELSE UNCHANGED calls
    \* The end is not missed if it is read now.
    /\ missed' = IF opened THEN missed \ {TheEnd} ELSE missed
    /\ UNCHANGED <<serverVars, conn, mode, session, holding, held, seen, feed,
                   playback, faults, failed>>

OnActivity ==
    /\ NextFrame("activity")
    /\ frames' = Tail(frames)
    /\ \/ /\ holding
          /\ held' = Append(held, Head(frames).event)
          /\ UNCHANGED <<seen, feed>>
       \/ /\ ~holding
          /\ Applies(<<Head(frames).event>>)
          /\ UNCHANGED held
    /\ UNCHANGED <<serverVars, conn, mode, session, opened, holding, playback,
                   calls, faults, missed, failed>>

OnSessionEnded ==
    /\ NextFrame("session")
    /\ session' = "ended"
    /\ SwitchToReplay({})
    /\ UNCHANGED <<serverVars, opened, holding, held, seen, faults, missed, failed>>

-----------------------------------------------------------------------------
(* The playback.  `timers' counts the timeouts of a player that are pending; *)
(* stopTimer clears the latest of them.                                      *)

Stopped(p) == [p EXCEPT !.timers = IF @ = 0 THEN 0 ELSE @ - 1]
Scheduled(p) == [Stopped(p) EXCEPT !.timers = @ + 1]
Sought(p, k) == [p EXCEPT !.pos = k]
Paused(p) == [Stopped(p) EXCEPT !.playing = FALSE]

\* A control is used: player i becomes p, and the feed shows its position.
Becomes(i, p) ==
    /\ players' = [players EXCEPT ![i] = p]
    /\ enabled' = Rendered(enabled, p)
    /\ UNCHANGED <<serverVars, conn, frames, mode, session, opened, holding, held, seen,
                   calls, faults, missed, failed, disturbed>>

Latest == players[Len(players)]

UseControl(control, p, rows) ==
    /\ control \in enabled
    /\ Becomes(Len(players), p)
    /\ feed' = rows

\* play starts over at the end of the log.
Play ==
    /\ "play" \in enabled /\ ~Latest.playing
    /\ LET over == Latest.pos >= Len(Latest.log)
           p == IF over THEN Sought(Latest, 0) ELSE Latest
       IN  UseControl("play", Scheduled([p EXCEPT !.playing = TRUE]), IF over THEN <<>> ELSE feed)

Pause ==
    /\ "play" \in enabled /\ Latest.playing
    /\ UseControl("play", Paused(Latest), feed)

ToStart == "toStart" \in enabled /\ UseControl("toStart", Sought(Paused(Latest), 0), <<>>)

ToEnd ==
    /\ "toEnd" \in enabled
    /\ UseControl("toEnd", Sought(Paused(Latest), Len(Latest.log)), Latest.log)

\* Mutant: the scrubber leaves the timer alone when it lands on the end.
ScrubKeepsTimer(k) ==
    /\ "scrubber" \in enabled /\ k <= Len(Latest.log)
    /\ LET p == Sought(Latest, k)
       IN  UseControl("scrubber",
               IF Latest.playing /\ k < Len(p.log) THEN Scheduled(p) ELSE [p EXCEPT !.playing = FALSE],
               Rows(p.log, k))

\* The scrubber is dragged; playback goes on from there, unless it is the end.
Scrub(k) ==
    /\ "scrubber" \in enabled /\ k <= Len(Latest.log)
    /\ LET p == Sought(Stopped(Latest), k)
       IN  UseControl("scrubber",
               IF Latest.playing /\ k < Len(p.log) THEN Scheduled(p) ELSE [p EXCEPT !.playing = FALSE],
               Rows(p.log, k))

\* A timer of player i fires: one event is applied, and the timer set again
\* unless it was the last.
Step(i) ==
    /\ players[i].timers > 0
    /\ LET p == [players[i] EXCEPT !.pos = @ + 1, !.timers = @ - 1]
       IN  Becomes(i, IF p.pos >= Len(p.log) THEN [p EXCEPT !.playing = FALSE]
                                            ELSE [p EXCEPT !.timers = @ + 1])
    /\ feed' = Append(feed, players[i].log[players[i].pos + 1])

-----------------------------------------------------------------------------
Uses(c) == Boot(c) \/ Backfill(c) \/ Reread(c) \/ Replay(c)
OnFrame == OnOpen \/ OnActivity \/ OnSessionEnded

Next ==
    \/ StoreEvent
    \/ EndSession
    \/ \E m \in toPublish : Publish(m)
    \/ \E c \in calls : Answer(c) \/ FailCall(c) \/ Uses(c)
    \/ Connect
    \/ LoseConnection
    \/ OnFrame
    \/ Play \/ Pause \/ ToStart \/ ToEnd
    \/ \E k \in 0..MaxEvents : Scrub(k)
    \/ \E i \in DOMAIN players : Step(i)

Spec == Init /\ [][Next]_vars

\* What a goroutine is about to publish is published, calls are answered, the
\* browser connects and runs its callbacks.  Nothing has to be stored, ended
\* or lost.
Fairness ==
    /\ WF_vars(\E m \in toPublish : Publish(m))
    /\ WF_vars(\E c \in calls : Answer(c))
    /\ WF_vars(\E c \in calls : Uses(c))
    /\ WF_vars(Connect)
    /\ WF_vars(OnFrame)

FairSpec == Spec /\ Fairness

-----------------------------------------------------------------------------
(* Properties. *)

Answers ==
    [state : {"waiting", "ok", "failed"}, status : {"live", "ended"}, events : Seq(Events)]

\* Type invariant.
TypeOK ==
    /\ status \in {"live", "ended"}
    /\ log \in Seq(Events)
    /\ toPublish \subseteq Events \cup {TheEnd}
    /\ conn \in {"none", "connecting", "open"}
    /\ frames \in Seq([kind : {"open", "session", "activity"}, event : Events \cup {TheEnd}])
    /\ mode \in {"boot", "live", "loading", "replay", "error"}
    /\ session \in {"live", "ended"}
    /\ opened \in BOOLEAN /\ holding \in BOOLEAN
    /\ held \in Seq(Events) /\ seen \subseteq Events /\ feed \in Seq(Events)
    /\ \A i \in DOMAIN players :
          players[i] \in [log : Seq(Events), pos : Nat, playing : BOOLEAN, timers : Nat]
    /\ enabled \subseteq Controls /\ disturbed \in BOOLEAN
    /\ \A c \in calls :
          c \in [n : Nat, kind : {"main", "backfill", "reread", "replay"}, answer : Answers]
    /\ faults \in Nat
    /\ missed \subseteq Events \cup {TheEnd}
    /\ failed \subseteq {"main", "backfill", "reread", "replay"}

HasNoDuplicates(s) == \A i, j \in DOMAIN s : s[i] = s[j] => i = j

\* The live feed shows only stored events and each of them once, although the
\* backfill, the held frames and the frames after it overlap.
LiveFeedOnce ==
    mode = "live" => HasNoDuplicates(feed) /\ Range(feed) \subseteq Range(log)

\* What the live feed lacks was published while the stream was not open, was
\* lost with the connection, or was never published, after the backfill's
\* query: the page itself drops nothing, however frames and the backfill's
\* answer interleave.
LiveFeedComplete ==
    (mode = "live" /\ "backfill" \notin failed) =>
        \A e \in Range(log) :
            \/ e \in Range(feed) \/ e \in Range(held)
            \/ e \in toPublish \/ e \in missed
            \/ \E i \in DOMAIN frames : frames[i] = ActivityFrame(e)
            \/ \E c \in calls :
                  /\ c.kind = "backfill"
                  /\ c.answer = Waiting \/ e \in Range(c.answer.events)

\* The page turns to the replay only for a session that has ended, and then
\* has no stream left open.
ReplayOnlyAfterEnd ==
    mode \in {"loading", "replay"} => status = "ended" /\ conn = "none" /\ frames = <<>>

\* Play, pause, seek and the step timer interleave: a player that plays has
\* one timer pending and an event left for it, one that does not has none; and
\* the feed shows just the events up to the player's position.  The feed is
\* the player's own unless the replay was started twice (two reconnects of a
\* page, or one and the end of the session) or the backfill arrived after it.
PlaybackInStep ==
    /\ \A i \in DOMAIN players :
          LET p == players[i] IN
          /\ p.timers = IF p.playing THEN 1 ELSE 0
          /\ p.pos <= Len(p.log) /\ (p.playing => p.pos < Len(p.log))
    /\ (players # <<>> /\ ~disturbed) =>
          Len(players) = 1 /\ feed = Rows(Latest.log, Latest.pos)

\* A live page follows the end of its session: by the frame, or by the read
\* after a reconnect.  It can only stay live if the end was published while no
\* stream was open, or was never published because the answer of its commit was
\* lost, and no reconnect followed; or if that read failed.
PageFollowsEnd ==
    (mode = "live" /\ status = "ended") ~>
        (mode # "live" \/ TheEnd \in missed \/ "reread" \in failed)

(* Statements of the repository's comments that the code does not keep. *)

\* session.html:105 says that the page backfills from the log, and holds the
\* frames that arrive meanwhile and applies them after it; then a live page
\* with nothing in flight shows every stored event.
NothingMissedOnceSettled ==
    (mode = "live" /\ opened /\ calls = {} /\ frames = <<>> /\ toPublish = {}
       /\ failed = {} /\ conn = "open")
         => Range(log) \subseteq Range(feed)
=============================================================================
