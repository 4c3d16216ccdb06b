---------------------------- MODULE ServerProofs -----------------------------
(***************************************************************************)
(* Proofs about Server.tla, for every set of environments, requests and    *)
(* limits.  The first part is about the pure gates of Intake.tla: what     *)
(* they let through is what Informative and Acceptable say.  The second    *)
(* is about the steps of a request, the third about the end of the         *)
(* process, whose invariant relates where run is to the listener, the      *)
(* database and the reason for the exit.                                   *)
(***************************************************************************)
EXTENDS Server, TLAPS

(* The gates. *)

Status == {Pass, 200, 202, 204, 400, 401, 404, 500}

LEMMA Routes ==
    ASSUME NEW f \in Forms
    PROVE  \/ f \in WebhookForm /\ f.route = "webhook"
           \/ f \in IngestForm /\ f.route = "ingest"
           \/ f \in ApiForm /\ f.route = "api"
BY ServerAssumption DEF WebhookForm, IngestForm, ApiForm

\* What the webhook's checks say of f.
LEMMA WebhookGateFacts ==
    ASSUME NEW f \in Forms, f.route = "webhook"
    PROVE  /\ Gate(f) \in {Pass, 200, 400, 401}
           /\ Gate(f) = Pass => f \in Informative /\ f.category \in Handled
           /\ Gate(f) = 200 => f \in Informative /\ f.category \notin Handled
           /\ Gate(f) = 401 => f \notin Genuine
           /\ f \in Informative => Gate(f) \in {Pass, 200}
<1>1. f \in WebhookForm
  BY Routes
<1>2. f \in Genuine <=> ReadBody(f) /\ Verify(f)
  BY <1>1 DEF WebhookForm, Genuine, ReadBody, Verify, Gzipped
<1>3. f \in Informative <=>
        f \in Genuine /\ Parse(f) /\ (f.category \in Handled => Decodes(f))
  <2>1. f.data \in {"object", "null", "absent", "mistyped"} /\ f.sequence \in Int
    BY <1>1 DEF WebhookForm
  <2>2. Decodes(f) <=> f.data \notin {"absent", "mistyped"}
    BY <2>1 DEF Decodes
  <2>3. f.sequence > 0 <=> f.sequence >= 1
    BY <2>1
  <2>4. QED
    BY <2>2, <2>3 DEF Informative, Parse
<1>4. Gate(f) = WebhookGate(f)
  BY DEF Gate
<1>5. CASE ~ReadBody(f)
  BY <1>2, <1>3, <1>4, <1>5 DEF WebhookGate, Pass
<1>6. CASE ReadBody(f) /\ ~Verify(f)
  BY <1>2, <1>3, <1>4, <1>6 DEF WebhookGate, Pass
<1>7. CASE ReadBody(f) /\ Verify(f) /\ ~Parse(f)
  BY <1>2, <1>3, <1>4, <1>7 DEF WebhookGate, Pass
<1>8. CASE ReadBody(f) /\ Verify(f) /\ Parse(f)
  <2>1. Gate(f) = IF f.category \notin Handled THEN 200 ELSE IF Decodes(f) THEN Pass ELSE 400
    BY <1>4, <1>8 DEF WebhookGate
  <2>2. QED
    BY <1>2, <1>3, <1>8, <2>1 DEF Pass
<1>9. QED
  BY <1>5, <1>6, <1>7, <1>8

\* One bad event refuses the batch, and nothing else is refused.
LEMMA IngestGateFacts ==
    ASSUME NEW f \in Forms, f.route = "ingest"
    PROVE  /\ Gate(f) \in {Pass, 204, 400}
           /\ Gate(f) = Pass <=> f \in Acceptable
<1>1. f \in IngestForm
  BY Routes
<1>2. ASSUME NEW e \in IngestEvent
      PROVE  ValidateEvent(e) <=> e \in Storable
  <2>1. {MaxSeq, TsWindow, MaxDataBytes} \subseteq Nat
    BY IntakeAssumption
  <2>2. /\ e.known \in BOOLEAN /\ e.seq \in Int /\ e.age \in Int /\ e.bytes \in Nat
        /\ e.data \in {"object", "other", "absent", "null"}
        /\ e.data \in {"absent", "null"} => e.bytes = 0
        /\ e = [known |-> e.known, seq |-> e.seq, age |-> e.age, data |-> e.data,
                bytes |-> e.bytes]
    BY <1>2 DEF IngestEvent
  <2>3. e \in Storable <=>
          /\ e.known = TRUE /\ e.seq \in 1..MaxSeq /\ e.age \in -TsWindow..TsWindow
          /\ \/ e.data = "object" /\ e.bytes \in 0..MaxDataBytes
             \/ e.data \in {"absent", "null"} /\ e.bytes = 0
    BY <2>2 DEF Storable
  <2>4. /\ e.seq \in 1..MaxSeq <=> 1 <= e.seq /\ e.seq <= MaxSeq
        /\ e.age \in -TsWindow..TsWindow <=> -TsWindow <= e.age /\ e.age <= TsWindow
        /\ e.bytes \in 0..MaxDataBytes <=> e.bytes <= MaxDataBytes
    BY <2>1, <2>2
  <2>5. QED
    BY <2>2, <2>3, <2>4 DEF ValidateEvent, IsNullData
<1>3. f.events \in Seq(IngestEvent) /\ \A i \in DOMAIN f.events : f.events[i] \in IngestEvent
  BY <1>1 DEF IngestForm
<1>4. (\A i \in DOMAIN f.events : ValidateEvent(f.events[i]))
        <=> {f.events[i] : i \in DOMAIN f.events} \subseteq Storable
  BY <1>2, <1>3
<1>5. /\ f.session \in 1..MaxSessionChars <=> f.session # 0 /\ f.session <= MaxSessionChars
      /\ f.client \in 1..MaxClientChars <=> f.client # 0 /\ f.client <= MaxClientChars
      /\ Len(f.events) \in 1..MaxBatch <=> 1 <= Len(f.events) /\ Len(f.events) <= MaxBatch
  BY <1>1, IntakeAssumption DEF IngestForm
<1>6. f \in Acceptable <=> f.method = "POST" /\ ReadJSON(f) /\ Validate(f)
  <2>1. f.tail # "data" <=> f.tail \in {"none", "closer", "broken"}
    BY <1>1 DEF IngestForm
  <2>2. QED
    BY <1>4, <1>5, <2>1 DEF Acceptable, ReadJSON, Validate
<1>7. Gate(f) = IngestGate(f) /\ f.method \in {"OPTIONS", "POST"}
  BY <1>1 DEF Gate, IngestForm
<1>8. CASE f.method = "OPTIONS"
  BY <1>6, <1>7, <1>8 DEF IngestGate, Pass
<1>9. CASE f.method = "POST" /\ ReadJSON(f) /\ Validate(f)
  BY <1>6, <1>7, <1>9 DEF IngestGate, Pass
<1>10. CASE f.method = "POST" /\ ~(ReadJSON(f) /\ Validate(f))
  BY <1>6, <1>7, <1>10 DEF IngestGate, Pass
<1>11. QED
  BY <1>7, <1>8, <1>9, <1>10

LEMMA ApiGateFacts ==
    ASSUME NEW f \in Forms, f.route = "api"
    PROVE  Gate(f) \in {Pass, 400}
BY DEF Gate, ReadGate, Pass

LEMMA StoreCallsFacts ==
    ASSUME NEW f \in Forms
    PROVE  StoreCalls(f) \in Nat \ {0}
<1>1. CASE f.route = "webhook"
  BY <1>1 DEF StoreCalls
<1>2. CASE f.route = "ingest"
  <2>1. Len(f.events) \in Nat
    BY <1>2, Routes DEF IngestForm
  <2>2. StoreCalls(f) = 1 + Len(f.events)
    BY <1>2 DEF StoreCalls
  <2>3. QED
    BY <2>1, <2>2
<1>3. CASE f.route = "api"
  BY <1>3 DEF StoreCalls
<1>4. QED
  BY <1>1, <1>2, <1>3, Routes

-----------------------------------------------------------------------------
(* A request. *)

\* AnswersTellWhatWasDone, of one request f.
AnswerFits(f, calls, s) ==
    /\ (f.route = "webhook" /\ (calls > 0 \/ s \in {200, 500})) => f \in Informative
    /\ (f.route = "ingest" /\ (calls > 0 \/ s \in {202, 500})) => f \in Acceptable
    /\ f \in Informative \cup Acceptable => s \notin {204, 400, 401, 404}
    /\ s \in {400, 401, 204} => calls = 0
    /\ s = 401 => f \notin Genuine
    /\ s = 404 => calls = 1 /\ f.route = "api"
    /\ s = 202 => calls = StoreCalls(f)
    /\ s = 200 => \/ calls = StoreCalls(f)
                  \/ calls = 1 /\ f.route = "webhook" /\ f.category = "left"
                  \/ calls = 0 /\ f.route = "webhook" /\ f.category \notin Handled
    /\ s = 500 => calls < StoreCalls(f)

\* A request that calls the store has passed its gate and has a call to make.
RequestOK(r) ==
    \/ r \in [phase : {"none", "reading"}]
    \/ /\ r \in [phase : {"calling"}, form : Forms, calls : Nat, status : {Pass}]
       /\ Gate(r.form) = Pass /\ r.calls < StoreCalls(r.form)
    \/ /\ r \in [phase : {"writing", "answered"}, form : Forms, calls : Nat, status : Status]
       /\ AnswerFits(r.form, r.calls, r.status)

LEMMA GateAnswers ==
    ASSUME NEW f \in Forms, Gate(f) # Pass
    PROVE  Gate(f) \in Status /\ AnswerFits(f, 0, Gate(f))
<1>1. CASE f.route = "webhook"
  <2>1. f \notin Acceptable
    BY <1>1 DEF Acceptable
  <2>2. QED
    BY <1>1, <2>1, WebhookGateFacts DEF AnswerFits, Status, Pass
<1>2. CASE f.route = "ingest"
  <2>1. f \notin Informative
    BY <1>2 DEF Informative, Genuine
  <2>2. QED
    BY <1>2, <2>1, IngestGateFacts DEF AnswerFits, Status, Pass
<1>3. CASE f.route = "api"
  <2>1. f \notin Informative /\ f \notin Acceptable
    BY <1>3 DEF Informative, Genuine, Acceptable
  <2>2. f \notin Genuine
    BY <1>3 DEF Genuine
  <2>3. QED
    BY <1>3, <2>1, <2>2, ApiGateFacts DEF AnswerFits, Status, Pass
<1>4. QED
  BY <1>1, <1>2, <1>3, Routes

\* What has passed the gate may be answered with success or with 500.
LEMMA PassedFacts ==
    ASSUME NEW f \in Forms, Gate(f) = Pass
    PROVE  /\ f.route = "webhook" => f \in Informative /\ f.category \in Handled
           /\ f.route = "ingest" => f \in Acceptable
           /\ f.route # "webhook" => f \notin Informative
           /\ f.route # "ingest" => f \notin Acceptable
BY WebhookGateFacts, IngestGateFacts DEF Informative, Genuine, Acceptable

LEMMA CallingFacts ==
    ASSUME RequestOK(request), request.phase = "calling"
    PROVE  /\ request \in [phase : {"calling"}, form : Forms, calls : Nat, status : {Pass}]
           /\ Gate(request.form) = Pass /\ request.calls < StoreCalls(request.form)
           /\ StoreCalls(request.form) \in Nat \ {0}
BY StoreCallsFacts DEF RequestOK

LEMMA ReadKeeps ==
    ASSUME NEW f \in Forms, Read(f) PROVE RequestOK(request')
<1> DEFINE r == [phase |-> IF Gate(f) = Pass THEN "calling" ELSE "writing",
                 form |-> f, calls |-> 0, status |-> Gate(f)]
<1>1. request' = r
  BY DEF Read, RequestMoves
<1>2. CASE Gate(f) = Pass
  <2>1. r \in [phase : {"calling"}, form : Forms, calls : Nat, status : {Pass}]
    BY <1>2
  <2>2. 0 < StoreCalls(f)
    BY StoreCallsFacts
  <2>3. QED
    BY <1>1, <1>2, <2>1, <2>2 DEF RequestOK
<1>3. CASE Gate(f) # Pass
  <2>1. Gate(f) \in Status /\ AnswerFits(f, 0, Gate(f))
    BY <1>3, GateAnswers
  <2>2. r \in [phase : {"writing"}, form : Forms, calls : Nat, status : Status]
    BY <1>3, <2>1
  <2>3. QED
    BY <1>1, <2>1, <2>2 DEF RequestOK
<1>4. QED
  BY <1>2, <1>3

LEMMA CallReturnsKeeps ==
    ASSUME RequestOK(request), CallReturns PROVE RequestOK(request')
<1> DEFINE f == request.form  n == request.calls + 1  all == StoreCalls(f)
           r == [request EXCEPT !.calls = n]
           s == SuccessStatus(f)
<1>1. /\ request \in [phase : {"calling"}, form : Forms, calls : Nat, status : {Pass}]
      /\ Gate(f) = Pass /\ request.calls < all /\ all \in Nat \ {0}
  BY CallingFacts DEF CallReturns
<1>2. n \in Nat /\ n <= all /\ n > 0 /\ r.calls = n /\ r.form = f /\ f \in Forms
  BY <1>1
<1>3. request' = IF n < all THEN r ELSE [r EXCEPT !.phase = "writing", !.status = s]
  BY <1>1 DEF CallReturns, RequestMoves
<1>4. CASE n < all
  BY <1>1, <1>2, <1>3, <1>4 DEF RequestOK
<1>5. CASE n = all
  <2>1. s \in {200, 202} /\ (s = 202 <=> f.route = "ingest")
    BY DEF SuccessStatus
  <2> HIDE DEF s, f, n, all
  <2>2. AnswerFits(f, n, s)
    <3>1. /\ f.route = "webhook" => f \in Informative
          /\ f.route = "ingest" => f \in Acceptable
      BY <1>1, <1>2, PassedFacts
    <3>2. n = StoreCalls(f)
      BY <1>5 DEF all
    <3>3. QED
      BY <2>1, <3>1, <3>2 DEF AnswerFits
  <2>3. /\ request' \in [phase : {"writing"}, form : Forms, calls : Nat, status : Status]
        /\ request'.form = f /\ request'.calls = n /\ request'.status = s
    <3>1. request' = [phase |-> "writing", form |-> f, calls |-> n, status |-> s]
      <4>1. request = [phase |-> "calling", form |-> f, calls |-> request.calls, status |-> Pass]
        BY <1>1 DEF f
      <4>2. ~(n < all)
        BY <1>2, <1>5
      <4>3. request' = [[request EXCEPT !.calls = n] EXCEPT !.phase = "writing", !.status = s]
        BY <1>3, <4>2
      <4> DEFINE c == request.calls  q == request'
      <4> HIDE DEF c, q
      <4>4. request = [phase |-> "calling", form |-> f, calls |-> c, status |-> Pass]
        BY <4>1 DEF c
      <4>5. q = [[request EXCEPT !.calls = n] EXCEPT !.phase = "writing", !.status = s]
        BY <4>3 DEF q
      <4>6. q = [phase |-> "writing", form |-> f, calls |-> n, status |-> s]
        BY <4>4, <4>5
      <4>7. QED
        BY <4>6 DEF q
    <3>2. QED
      BY <1>2, <2>1, <3>1 DEF Status
  <2>4. QED
    BY <2>2, <2>3 DEF RequestOK
<1>6. QED
  BY <1>1, <1>2, <1>4, <1>5

LEMMA CallFindsNothingKeeps ==
    ASSUME RequestOK(request), CallFindsNothing PROVE RequestOK(request')
<1> DEFINE f == request.form  s == NotFoundStatus(f)
<1>1. /\ request \in [phase : {"calling"}, form : Forms, calls : Nat, status : {Pass}]
      /\ Gate(f) = Pass /\ f \in Forms
  BY CallingFacts DEF CallFindsNothing
<1>2. s \in {200, 404} /\ (s = 404 <=> f.route = "api")
  BY DEF NotFoundStatus
<1>3. \/ f.route = "webhook" /\ f.category = "left"
      \/ f.route = "api"
  BY DEF CallFindsNothing, ReadsFirst
<1>4. request' = [[request EXCEPT !.phase = "writing", !.status = s] EXCEPT !.calls = 1]
  BY DEF CallFindsNothing, RequestMoves, Answering
<1> HIDE DEF f, s
<1>5. AnswerFits(f, 1, s)
  <2>1. /\ f.route = "webhook" => f \in Informative
        /\ f.route # "webhook" => f \notin Informative
        /\ f.route # "ingest" => f \notin Acceptable
    BY <1>1, PassedFacts
  <2>2. QED
    BY <1>2, <1>3, <2>1 DEF AnswerFits
<1>6. /\ request' \in [phase : {"writing"}, form : Forms, calls : Nat, status : Status]
      /\ request'.form = f /\ request'.calls = 1 /\ request'.status = s
  <2>1. request' = [phase |-> "writing", form |-> f, calls |-> 1, status |-> s]
    BY <1>1, <1>4 DEF f
  <2>2. QED
    BY <1>1, <1>2, <2>1 DEF Status
<1>7. QED
  BY <1>5, <1>6 DEF RequestOK

LEMMA CallFailsKeeps ==
    ASSUME RequestOK(request), CallFails PROVE RequestOK(request')
<1> DEFINE f == request.form  n == request.calls
<1>1. /\ request \in [phase : {"calling"}, form : Forms, calls : Nat, status : {Pass}]
      /\ Gate(f) = Pass /\ n < StoreCalls(f) /\ f \in Forms /\ n \in Nat
  BY CallingFacts DEF CallFails
<1>2. request' = [request EXCEPT !.phase = "writing", !.status = 500]
  BY DEF CallFails, RequestMoves, Answering
<1> HIDE DEF f, n
<1>3. AnswerFits(f, n, 500)
  <2>1. /\ f.route = "webhook" => f \in Informative
        /\ f.route = "ingest" => f \in Acceptable
    BY <1>1, PassedFacts
  <2>2. QED
    BY <1>1, <2>1 DEF AnswerFits
<1>4. /\ request' \in [phase : {"writing"}, form : Forms, calls : Nat, status : Status]
      /\ request'.form = f /\ request'.calls = n /\ request'.status = 500
  <2>1. request' = [phase |-> "writing", form |-> f, calls |-> n, status |-> 500]
    BY <1>1, <1>2 DEF f, n
  <2>2. QED
    BY <1>1, <2>1 DEF Status
<1>5. QED
  BY <1>3, <1>4 DEF RequestOK

LEMMA AnswerWrittenKeeps ==
    ASSUME RequestOK(request), AnswerWritten PROVE RequestOK(request')
<1>1. /\ request \in [phase : {"writing", "answered"}, form : Forms, calls : Nat, status : Status]
      /\ AnswerFits(request.form, request.calls, request.status)
  BY DEF AnswerWritten, RequestOK
<1>2. request' = [request EXCEPT !.phase = "answered"]
  BY DEF AnswerWritten, RequestMoves
<1>3. /\ request' \in [phase : {"writing", "answered"}, form : Forms, calls : Nat, status : Status]
      /\ request'.form = request.form /\ request'.calls = request.calls
      /\ request'.status = request.status
  BY <1>1, <1>2
<1>4. QED
  BY <1>1, <1>3 DEF RequestOK

-----------------------------------------------------------------------------
(* The process. *)

\* TypeOK without the request, which RequestOK types.
ProcessTypes ==
    /\ env \in Environments
    /\ main \in {"load", "open", "migrate", "select", "drain", "close", "return", "exited"}
    /\ exit \in {"none", "config", "open", "migrate", "listen", "shutdown", "panic", "ok"}
    /\ ctxDone \in BOOLEAN
    /\ db \in {"none", "open", "closed"}
    /\ listener \in {"none", "starting", "listening", "failed", "closed"}
    /\ reaper \in {"none", "starting", "checking", "sweeping", "waiting", "stopped"}
    /\ hub \in {"open", "closing", "closed"}
    /\ watcher \in {"none", "starting", "streaming", "blocked"}

\* Where run is, and why it returns.
RunOK ==
    /\ main \in {"load", "open", "migrate"} => listener = "none"
    /\ main \in {"load", "open", "migrate", "select", "drain"} => exit = "none" /\ db # "closed"
    /\ main = "close" => exit \in {"migrate", "listen", "shutdown", "ok"} /\ db # "closed"
    /\ main = "return" => exit \in {"open", "migrate", "listen", "shutdown", "ok"}
    /\ main = "drain" => listener = "closed" /\ hub \in {"closing", "closed"}

\* No request without a listener; a shutdown that succeeded has seen the last one.
ListenerOK ==
    /\ listener = "none" => ~Busy
    /\ exit \in {"open", "migrate"} => listener = "none"
    /\ exit = "ok" => listener = "closed" /\ ~Busy

Inv == ProcessTypes /\ RunOK /\ ListenerOK /\ RequestOK(request)

LEMMA InitInv == Init => Inv
<1> SUFFICES ASSUME Init PROVE Inv
  OBVIOUS
<1>1. request \in [phase : {"none", "reading"}] /\ ~Busy
  BY DEF Init, NoRequest, Busy
<1>2. QED
  BY <1>1 DEF Init, Inv, ProcessTypes, RunOK, ListenerOK, RequestOK

\* Steps of run and of the goroutines that are no requests.
MainStep ==
    \/ LoadConfig \/ Signal \/ OpenDatabase \/ Migrate
    \/ ListenError \/ BeginShutdown \/ ShutdownDone \/ DeadlinePasses
    \/ CloseDatabase \/ Return

LEMMA MainKeepsInv == ASSUME Inv, MainStep PROVE Inv'
<1>1. request' = request /\ (Busy' <=> Busy) /\ RequestOK(request')
  BY DEF Inv, MainStep, LoadConfig, Signal, OpenDatabase, Migrate, ListenError, BeginShutdown,
         ShutdownDone, DeadlinePasses, CloseDatabase, Return, goroutines, Busy
<1> USE DEF Inv, ProcessTypes, RunOK, ListenerOK, goroutines
<1>2. CASE LoadConfig
  BY <1>1, <1>2 DEF LoadConfig
<1>3. CASE Signal
  BY <1>1, <1>3 DEF Signal
<1>4. CASE OpenDatabase
  BY <1>1, <1>4 DEF OpenDatabase
<1>5. CASE Migrate
  BY <1>1, <1>5 DEF Migrate
<1>6. CASE ListenError
  BY <1>1, <1>6 DEF ListenError
<1>7. CASE BeginShutdown
  BY <1>1, <1>7 DEF BeginShutdown
<1>8. CASE ShutdownDone
  BY <1>1, <1>8 DEF ShutdownDone, Drained
<1>9. CASE DeadlinePasses
  BY <1>1, <1>9 DEF DeadlinePasses
<1>10. CASE CloseDatabase
  BY <1>1, <1>10 DEF CloseDatabase
<1>11. CASE Return
  BY <1>1, <1>11 DEF Return
<1>12. QED
  BY <1>2, <1>3, <1>4, <1>5, <1>6, <1>7, <1>8, <1>9, <1>10, <1>11 DEF MainStep

GoroutineStep ==
    \/ Listen \/ AcceptFails \/ CloseHub
    \/ StartTicker \/ ReaperChecks \/ SweepEnds \/ ReaperTicks \/ ReaperStops
    \/ OpenStream \/ SubscribeStream \/ WriteBlocks \/ WriteReturns
    \/ WatcherLeaves \/ EndOfStream

LEMMA GoroutineKeepsInv == ASSUME Inv, GoroutineStep PROVE Inv'
<1>1. request' = request /\ (Busy' <=> Busy) /\ RequestOK(request')
  BY DEF Inv, GoroutineStep, Listen, AcceptFails, CloseHub, StartTicker, ReaperChecks, SweepEnds,
         ReaperTicks, ReaperStops, ReaperMoves, OpenStream, SubscribeStream, WriteBlocks,
         WriteReturns, WatcherLeaves, EndOfStream, WatcherMoves, Busy
<1> USE DEF Inv, ProcessTypes, RunOK, ListenerOK
<1>2. CASE Listen
  BY <1>1, <1>2 DEF Listen
<1>3. CASE AcceptFails
  BY <1>1, <1>3 DEF AcceptFails
<1>4. CASE CloseHub
  BY <1>1, <1>4 DEF CloseHub
<1>5. CASE StartTicker
  BY <1>1, <1>5 DEF StartTicker
<1>6. CASE ReaperChecks \/ SweepEnds \/ ReaperTicks \/ ReaperStops
  <2>1. /\ reaper' \in {"checking", "sweeping", "waiting", "stopped"}
        /\ UNCHANGED <<env, main, exit, ctxDone, db, listener, hub, request, watcher>>
    BY <1>6 DEF ReaperChecks, SweepEnds, ReaperTicks, ReaperStops, ReaperMoves
  <2>2. QED
    BY <1>1, <2>1
<1>7. CASE \/ OpenStream \/ SubscribeStream \/ WriteBlocks \/ WriteReturns
           \/ WatcherLeaves \/ EndOfStream
  <2>1. /\ watcher' \in {"none", "starting", "streaming", "blocked"}
        /\ UNCHANGED <<env, main, exit, ctxDone, db, listener, reaper, hub, request>>
    BY <1>7 DEF OpenStream, SubscribeStream, WriteBlocks, WriteReturns, WatcherLeaves,
                EndOfStream, WatcherMoves
  <2>2. QED
    BY <1>1, <2>1
<1>8. QED
  BY <1>2, <1>3, <1>4, <1>5, <1>6, <1>7 DEF GoroutineStep

RequestStep ==
    \/ Arrive \/ (\E f \in Forms : Read(f))
    \/ CallReturns \/ CallFindsNothing \/ CallFails \/ AnswerWritten \/ ClientGivesUp

\* A request arrives at an open listener; all its other steps are of one that is busy.
LEMMA RequestKeepsInv == ASSUME Inv, RequestStep PROVE Inv'
<1>1. RequestOK(request) /\ ProcessTypes /\ RunOK /\ ListenerOK
  BY DEF Inv
<1>2. RequestOK(request')
  <2>1. CASE Arrive
    BY <2>1 DEF Arrive, RequestMoves, RequestOK
  <2>2. ASSUME NEW f \in Forms, Read(f) PROVE RequestOK(request')
    BY <2>2, ReadKeeps
  <2>3. CASE CallReturns
    BY <1>1, <2>3, CallReturnsKeeps
  <2>4. CASE CallFindsNothing
    BY <1>1, <2>4, CallFindsNothingKeeps
  <2>5. CASE CallFails
    BY <1>1, <2>5, CallFailsKeeps
  <2>6. CASE ClientGivesUp
    BY <2>6 DEF ClientGivesUp, RequestMoves, NoRequest, RequestOK
  <2>7. CASE AnswerWritten
    BY <1>1, <2>7, AnswerWrittenKeeps
  <2>8. QED
    BY <2>1, <2>2, <2>3, <2>4, <2>5, <2>6, <2>7 DEF RequestStep
<1>3. /\ UNCHANGED <<env, main, exit, ctxDone, db, listener, reaper, hub, watcher>>
      /\ Busy \/ listener = "listening"
  BY DEF RequestStep, Arrive, Read, CallReturns, CallFindsNothing, CallFails, AnswerWritten,
         ClientGivesUp, RequestMoves, Busy
<1>4. ListenerOK'
  BY <1>1, <1>3 DEF ListenerOK
<1>5. QED
  BY <1>1, <1>2, <1>3, <1>4 DEF Inv, ProcessTypes, RunOK

LEMMA InvInductive == Inv /\ [Next]_vars => Inv'
<1> SUFFICES ASSUME Inv, [Next]_vars PROVE Inv'
  OBVIOUS
<1>1. CASE UNCHANGED vars
  BY <1>1 DEF vars, Inv, ProcessTypes, RunOK, ListenerOK, Busy
<1>2. QED
  BY <1>1, MainKeepsInv, GoroutineKeepsInv, RequestKeepsInv
     DEF Next, MainStep, GoroutineStep, RequestStep

LEMMA AlwaysInv == Spec => []Inv
BY InitInv, InvInductive, PTL DEF Spec

-----------------------------------------------------------------------------
(* The theorems. *)

\* The process keeps the types of its state.
THEOREM ServerTypes == Spec => []TypeOK
<1>1. Inv => TypeOK
  BY DEF Inv, ProcessTypes, RequestOK, TypeOK, Status
<1>2. QED
  BY <1>1, AlwaysInv, PTL

\* An answer tells what was done for the request.
THEOREM AnswersAreTruthful == Spec => []AnswersTellWhatWasDone
<1>1. Inv => AnswersTellWhatWasDone
  <2> SUFFICES ASSUME RequestOK(request), request.phase \in {"calling", "writing", "answered"}
               PROVE  AnswerFits(request.form, request.calls, request.status)
    BY DEF Inv, AnswersTellWhatWasDone, AnswerFits
  <2>1. CASE request.phase = "calling"
    <3> DEFINE f == request.form  n == request.calls
    <3>1. f \in Forms /\ Gate(f) = Pass /\ request.status = Pass
      BY <2>1, CallingFacts
    <3> HIDE DEF f, n
    <3>2. /\ f.route = "webhook" => f \in Informative
          /\ f.route = "ingest" => f \in Acceptable
      BY <3>1, PassedFacts
    <3>3. AnswerFits(f, n, Pass)
      BY <3>2 DEF AnswerFits, Pass
    <3>4. QED
      BY <3>1, <3>3 DEF f, n
  <2>2. CASE request.phase \in {"writing", "answered"}
    BY <2>2 DEF RequestOK
  <2>3. QED
    BY <2>1, <2>2
<1>2. QED
  BY <1>1, AlwaysInv, PTL

\* The database is closed under a request only when the shutdown has run into
\* its deadline or the listener has failed.
THEOREM DatabaseClosesLast == Spec => []DatabaseOutlivesRequests
<1>1. Inv => DatabaseOutlivesRequests
  BY DEF Inv, ProcessTypes, RunOK, ListenerOK, DatabaseOutlivesRequests
<1>2. QED
  BY <1>1, AlwaysInv, PTL
=============================================================================
