------------------------------- MODULE Server --------------------------------
(***************************************************************************)
(* The server process (server/cmd/server/main.go): configuration, start,   *)
(* the goroutines it starts, and its end.  Goroutines are the main one,    *)
(* the reaper's, the listener's, the one that runs hub.Close, and those of *)
(* the requests: one ordinary request and one SSE request at a time.       *)
(*                                                                         *)
(* What a store call does is in Lifecycle.tla, what a stream carries in    *)
(* Hub.tla; here a call takes a step of its own, succeeds or fails, and    *)
(* needs the database to be open.  net/http and database/sql are modelled  *)
(* by what main.go relies on: Shutdown closes the listener, starts the     *)
(* registered functions and waits for the requests; a closed database      *)
(* fails every call.                                                       *)
(***************************************************************************)
EXTENDS Intake

CONSTANTS
    Environments,   \* environments the process is started in
    Forms,          \* ordinary requests
    WordSize        \* a Duration is an integer modulo 2^WordSize

ASSUME ServerAssumption ==
    /\ WordSize \in Nat \ {0}
    /\ Forms \subseteq WebhookForm \cup IngestForm \cup ApiForm

VARIABLES
    env,        \* the environment
    main,       \* where run is
    exit,       \* why run returns, or how the process ended
    ctxDone,    \* the signal context is done
    db,         \* none, open, closed
    listener,   \* none, starting, listening, failed, closed
    reaper,     \* none, checking, sweeping, waiting, stopped
    hub,        \* open, closing (hub.Close has been started), closed
    request,    \* the ordinary request
    watcher     \* the SSE request: none, starting, streaming, blocked

vars == <<env, main, exit, ctxDone, db, listener, reaper, hub, request, watcher>>
goroutines == <<listener, reaper, hub, request, watcher>>

-----------------------------------------------------------------------------
(* Configuration.  The two required variables are set or not; the seconds  *)
(* are Unset, NotANumber or an integer.                                     *)

Unset == -1

\* A Duration wraps around; the second is the unit.
Wraps(n) == LET m == n % 2^WordSize IN IF m < 2^(WordSize - 1) THEN m ELSE m - 2^WordSize

Seconds(v, def) ==
    IF v = Unset THEN [ok |-> TRUE, value |-> Wraps(def)]
    ELSE [ok |-> v # NotANumber /\ v > 0, value |-> Wraps(v)]

\* The defaults (60 and 30 seconds), scaled to WordSize.
DefaultIdle == 2
DefaultTick == 1

\* load reports all that is wrong at once.
Load(e) ==
    {v \in {"DATABASE_URL", "WEBHOOK_SIGNING_KEY"} : v \notin e.set}
      \cup (IF Seconds(e.idle, DefaultIdle).ok THEN {} ELSE {"REAPER_IDLE_SECONDS"})
      \cup (IF Seconds(e.tick, DefaultTick).ok THEN {} ELSE {"REAPER_TICK_SECONDS"})

-----------------------------------------------------------------------------
NoRequest == [phase |-> "none"]

Init ==
    /\ env \in Environments
    /\ main = "load" /\ exit = "none" /\ ctxDone = FALSE
    /\ db = "none" /\ listener = "none" /\ reaper = "none" /\ hub = "open"
    /\ request = NoRequest /\ watcher = "none"

Running == main \notin {"load", "exited"}

LoadConfig ==
    /\ main = "load"
    /\ IF Load(env) = {} THEN main' = "open" /\ exit' = exit
                         ELSE main' = "exited" /\ exit' = "config"
    /\ UNCHANGED <<env, ctxDone, db, goroutines>>

\* SIGINT or SIGTERM, more than once if it must be.
Signal ==
    /\ Running
    /\ ctxDone' = TRUE
    /\ UNCHANGED <<env, main, exit, db, goroutines>>

\* store.Open: a ping under the signal context closes the database when it fails.
OpenDatabase ==
    /\ main = "open"
    /\ \/ ~ctxDone /\ main' = "migrate" /\ db' = "open" /\ exit' = exit
       \/ main' = "return" /\ db' = "closed" /\ exit' = "open"
    /\ UNCHANGED <<env, ctxDone, goroutines>>

\* store.Migrate, then the reaper's and the listener's goroutines.
Migrate ==
    /\ main = "migrate"
    /\ \/ /\ ~ctxDone
          /\ main' = "select" /\ listener' = "starting" /\ reaper' = "starting"
          /\ exit' = exit
       \/ /\ main' = "close" /\ exit' = "migrate"
          /\ UNCHANGED <<listener, reaper>>
    /\ UNCHANGED <<env, ctxDone, db, hub, request, watcher>>

\* select: the listener has failed.
ListenError ==
    /\ main = "select" /\ listener = "failed"
    /\ main' = "close" /\ exit' = "listen"
    /\ UNCHANGED <<env, ctxDone, db, goroutines>>

\* Mutant: hub.Close is not registered.
BeginShutdownOnly ==
    /\ main = "select" /\ ctxDone
    /\ main' = "drain"
    /\ listener' = "closed"
    /\ UNCHANGED <<env, exit, ctxDone, db, reaper, hub, request, watcher>>

\* select: the context is done.  Shutdown closes the listener and starts hub.Close.
BeginShutdown ==
    /\ main = "select" /\ ctxDone
    /\ main' = "drain"
    /\ listener' = "closed"
    /\ hub' = "closing"
    /\ UNCHANGED <<env, exit, ctxDone, db, reaper, request, watcher>>

Busy == request.phase \notin {"none", "answered"}

\* Mutant: Shutdown waits for the streams only.
DrainedOfStreams == watcher = "none"

Drained == ~Busy /\ watcher = "none"

ShutdownDone ==
    /\ main = "drain" /\ Drained
    /\ main' = "close" /\ exit' = "ok"
    /\ UNCHANGED <<env, ctxDone, db, goroutines>>

\* Mutant: Shutdown waits without a deadline.
NoDeadline == FALSE /\ UNCHANGED vars

\* shutdownTimeout.  Ten seconds are long for a goroutine that has only to
\* run: the deadline passes when none of them is due.
DeadlinePasses ==
    /\ main = "drain" /\ ~Drained
    /\ hub # "closing"
    /\ ~(watcher = "streaming" /\ hub = "closed")
    /\ watcher # "starting"
    /\ main' = "close" /\ exit' = "shutdown"
    /\ UNCHANGED <<env, ctxDone, db, goroutines>>

\* The deferred calls: db.Close, then stop, which cancels the context.
CloseDatabase ==
    /\ main = "close"
    /\ main' = "return" /\ db' = "closed"
    /\ UNCHANGED <<env, exit, ctxDone, goroutines>>

Return ==
    /\ main = "return"
    /\ main' = "exited" /\ ctxDone' = TRUE
    /\ UNCHANGED <<env, exit, db, goroutines>>

-----------------------------------------------------------------------------
(* The listener, the hub and the reaper. *)

Listen ==
    /\ Running /\ listener = "starting"
    /\ listener' \in {"listening", "failed"}
    /\ UNCHANGED <<env, main, exit, ctxDone, db, reaper, hub, request, watcher>>

AcceptFails ==
    /\ Running /\ listener = "listening"
    /\ listener' = "failed"
    /\ UNCHANGED <<env, main, exit, ctxDone, db, reaper, hub, request, watcher>>

CloseHub ==
    /\ Running /\ hub = "closing"
    /\ hub' = "closed"
    /\ UNCHANGED <<env, main, exit, ctxDone, db, listener, reaper, request, watcher>>

\* NewTicker panics when the interval is not positive; that ends the process.
StartTicker ==
    /\ Running /\ reaper = "starting"
    /\ IF Seconds(env.tick, DefaultTick).value > 0
       THEN reaper' = "checking" /\ UNCHANGED <<main, exit>>
       ELSE reaper' = "stopped" /\ main' = "exited" /\ exit' = "panic"
    /\ UNCHANGED <<env, ctxDone, db, listener, hub, request, watcher>>

ReaperMoves(from, to) ==
    /\ Running /\ reaper = from
    /\ reaper' = to
    /\ UNCHANGED <<env, main, exit, ctxDone, db, listener, hub, request, watcher>>

ReaperChecks == ReaperMoves("checking", IF ctxDone THEN "stopped" ELSE "sweeping")

\* Mutant: a sweep that fails ends the loop.
SweepEndsLoop == ReaperMoves("sweeping", "waiting") \/ ReaperMoves("sweeping", "stopped")

\* A sweep ends, with an error or without: the loop goes on.
SweepEnds == ReaperMoves("sweeping", "waiting")

ReaperTicks == ReaperMoves("waiting", "checking")

ReaperStops == ctxDone /\ ReaperMoves("waiting", "stopped")

-----------------------------------------------------------------------------
(* Requests. *)

RequestMoves(r) ==
    /\ request' = r
    /\ UNCHANGED <<env, main, exit, ctxDone, db, listener, reaper, hub, watcher>>

\* WriteJSON or Error: the answer is decided, and is being written.
Answering(status) ==
    [request EXCEPT !.phase = "writing", !.status = status]

Arrive ==
    /\ Running /\ listener = "listening" /\ ~Busy
    /\ RequestMoves([phase |-> "reading"])

\* The body has been read: the answer is written, or the lifecycle called.
Read(f) ==
    /\ Running /\ request.phase = "reading"
    /\ RequestMoves([phase |-> IF Gate(f) = Pass THEN "calling" ELSE "writing",
                     form |-> f, calls |-> 0, status |-> Gate(f)])

\* A store call succeeds; after the last one the answer is written.
CallReturns ==
    /\ Running /\ request.phase = "calling" /\ db = "open"
    /\ LET r == [request EXCEPT !.calls = @ + 1] IN
       RequestMoves(IF r.calls < StoreCalls(r.form) THEN r
                    ELSE [r EXCEPT !.phase = "writing", !.status = SuccessStatus(r.form)])

\* The session that the first call reads does not exist.
CallFindsNothing ==
    /\ Running /\ request.phase = "calling" /\ db = "open"
    /\ request.calls = 0 /\ ReadsFirst(request.form)
    /\ RequestMoves([Answering(NotFoundStatus(request.form)) EXCEPT !.calls = 1])

\* A store call fails, in any case on a closed database.
CallFails ==
    /\ Running /\ request.phase = "calling"
    /\ RequestMoves(Answering(500))

\* The answer is out, or writing it has failed, which nobody is told.  The
\* write has no deadline and ends when the client reads, or is gone.
AnswerWritten ==
    /\ Running /\ request.phase = "writing"
    /\ RequestMoves([request EXCEPT !.phase = "answered"])

\* The client gives up before its body is read.
ClientGivesUp ==
    /\ Running /\ request.phase = "reading"
    /\ RequestMoves(NoRequest)

WatcherMoves(from, to) ==
    /\ Running /\ watcher = from
    /\ watcher' = to
    /\ UNCHANGED <<env, main, exit, ctxDone, db, listener, reaper, hub, request>>

OpenStream == listener = "listening" /\ WatcherMoves("none", "starting")

\* Subscribe; a closed hub hands out a channel that is closed.
SubscribeStream == WatcherMoves("starting", "streaming")

\* A write, to a client that may not read; no write has a deadline.
WriteBlocks == WatcherMoves("streaming", "blocked")
WriteReturns == WatcherMoves("blocked", "streaming")

\* The client leaves: its context is done, or a write fails.  A stream the hub
\* has dropped ends in the same way.
WatcherLeaves == WatcherMoves("streaming", "none") \/ WatcherMoves("blocked", "none")

EndOfStream == hub = "closed" /\ WatcherMoves("streaming", "none")

-----------------------------------------------------------------------------
Next ==
    \/ LoadConfig \/ Signal \/ OpenDatabase \/ Migrate
    \/ ListenError \/ BeginShutdown \/ ShutdownDone \/ DeadlinePasses
    \/ CloseDatabase \/ Return
    \/ Listen \/ AcceptFails \/ CloseHub
    \/ StartTicker \/ ReaperChecks \/ SweepEnds \/ ReaperTicks \/ ReaperStops
    \/ Arrive \/ (\E f \in Forms : Read(f))
    \/ CallReturns \/ CallFindsNothing \/ CallFails \/ AnswerWritten \/ ClientGivesUp
    \/ OpenStream \/ SubscribeStream \/ WriteBlocks \/ WriteReturns
    \/ WatcherLeaves \/ EndOfStream

Spec == Init /\ [][Next]_vars

\* Goroutines run and the timers fire.  Neither the clients nor the database
\* owe anything: a body may never arrive, the write of an answer or of a
\* message and a store call may hang, that of a sweep too.  OpenDatabase does
\* end, by the ping's deadline; the migrations end at the latest when the
\* signal cancels their context.
\* A stream can be back in a write a few times, for what its closed channel
\* still holds, before its select sees the end of it: strong fairness.
Fairness ==
    /\ WF_vars(LoadConfig) /\ WF_vars(OpenDatabase) /\ WF_vars(ctxDone /\ Migrate)
    /\ WF_vars(ListenError) /\ WF_vars(BeginShutdown) /\ WF_vars(ShutdownDone)
    /\ WF_vars(DeadlinePasses) /\ WF_vars(CloseDatabase) /\ WF_vars(Return)
    /\ WF_vars(Listen) /\ WF_vars(CloseHub) /\ SF_vars(EndOfStream)
    /\ WF_vars(SubscribeStream) /\ WF_vars(StartTicker)
    /\ WF_vars(ReaperChecks) /\ WF_vars(ReaperTicks) /\ WF_vars(ReaperStops)

FairSpec == Spec /\ Fairness

-----------------------------------------------------------------------------
(* Properties. *)

\* Type invariant.
TypeOK ==
    /\ env \in Environments
    /\ main \in {"load", "open", "migrate", "select", "drain", "close", "return", "exited"}
    /\ exit \in {"none", "config", "open", "migrate", "listen", "shutdown", "panic", "ok"}
    /\ ctxDone \in BOOLEAN
    /\ db \in {"none", "open", "closed"}
    /\ listener \in {"none", "starting", "listening", "failed", "closed"}
    /\ reaper \in {"none", "starting", "checking", "sweeping", "waiting", "stopped"}
    /\ hub \in {"open", "closing", "closed"}
    /\ \/ request \in [phase : {"none", "reading"}]
       \/ request \in [phase : {"calling", "writing", "answered"}, form : Forms,
                       calls : Nat, status : {Pass, 200, 202, 204, 400, 401, 404, 500}]
    /\ watcher \in {"none", "starting", "streaming", "blocked"}

\* The database outlives the requests: it is closed under one only when the
\* shutdown has run into its deadline or the listener has failed.  After a
\* shutdown that succeeded, only the reaper may still hold a statement.
DatabaseOutlivesRequests ==
    (db = "closed" /\ main # "exited" /\ Busy) => exit \in {"shutdown", "listen"}

\* What may get through the checks of Intake, as sets of requests.
Genuine ==
    {f \in Forms : /\ f.route = "webhook"
                   /\ f.size <= MaxBody
                   /\ \/ f.encoding = "none" /\ f.mac \in {"plain", "raw"}
                      \/ /\ f.encoding \in {"header", "magic"} /\ f.mac = "plain"
                         /\ f.inflated <= MaxBody}

Informative ==
    {f \in Genuine : /\ f.json /\ f.category # "" /\ f.sequence > 0 /\ f.created
                     /\ f.category \in Handled => f.data \notin {"absent", "mistyped"}}

Storable ==
    [known : {TRUE}, seq : 1..MaxSeq, age : -TsWindow..TsWindow,
     data : {"object"}, bytes : 0..MaxDataBytes]
      \cup [known : {TRUE}, seq : 1..MaxSeq, age : -TsWindow..TsWindow,
            data : {"absent", "null"}, bytes : {0}]

\* Data behind a closing bracket, or behind a read error, is not looked at.
Acceptable ==
    {f \in Forms : /\ f.route = "ingest" /\ f.method = "POST"
                   /\ f.body = "ok" /\ f.size <= MaxBody
                   /\ f.tail \in {"none", "closer", "broken"}
                   /\ f.session \in 1..MaxSessionChars /\ f.space # 0
                   /\ f.client \in 1..MaxClientChars
                   /\ Len(f.events) \in 1..MaxBatch
                   /\ {f.events[i] : i \in DOMAIN f.events} \subseteq Storable}

\* An answer tells what was done for the request.  Nothing but a genuine
\* webhook, or a batch whose every event is storable, reaches the store; a
\* refused request has left no trace, not even of the valid part of a batch;
\* 2xx means that every call the request takes has returned, 500 that one of
\* them has not; and what is in order is never refused.
AnswersTellWhatWasDone ==
    request.phase \in {"calling", "writing", "answered"} =>
        LET f == request.form
            s == request.status
            all == StoreCalls(f)
        IN  /\ (f.route = "webhook" /\ (request.calls > 0 \/ s \in {200, 500}))
                  => f \in Informative
            /\ (f.route = "ingest" /\ (request.calls > 0 \/ s \in {202, 500}))
                  => f \in Acceptable
            /\ f \in Informative \cup Acceptable => s \notin {204, 400, 401, 404}
            /\ s \in {400, 401, 204} => request.calls = 0
            /\ s = 401 => f \notin Genuine
            /\ s = 404 => request.calls = 1 /\ f.route = "api"
            /\ s = 202 => request.calls = all
            /\ s = 200 => \/ request.calls = all
                          \/ request.calls = 1 /\ f.route = "webhook" /\ f.category = "left"
                          \/ request.calls = 0 /\ f.route = "webhook" /\ f.category \notin Handled
            /\ s = 500 => request.calls < all

\* Streams, which never end by themselves, do not hold up a shutdown: when no
\* request is under way it succeeds, unless a stream is stuck in a write to a
\* client that does not read (or the reaper's ticker panics meanwhile).
StreamsDoNotHoldShutdown ==
    (main = "drain" /\ ~Busy)
        ~> (exit \in {"ok", "panic"} \/ (exit = "shutdown" /\ watcher = "blocked"))

\* A signal ends the process, wherever it is in its start, with requests that
\* hang and streams that are stuck.
SignalEndsTheProcess == ctxDone ~> main = "exited"

\* A process that serves goes on sweeping as long as its sweeps end, with an
\* error or without; it can be lost to a panic of the reaper, but only for a
\* REAPER_TICK_SECONDS that does not fit a Duration.
ReaperKeepsSweeping ==
    (<>[](main = "select" \/ exit = "panic") /\ []<>(reaper # "sweeping"))
        => ([]<>(reaper = "sweeping")
              \/ <>(exit = "panic" /\ env.tick >= 2^(WordSize - 1)))
=============================================================================
