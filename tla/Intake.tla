------------------------------- MODULE Intake --------------------------------
(***************************************************************************)
(* What the HTTP handlers do with a request before they call the lifecycle *)
(* (server/internal/webhook, ingest, api, httpx): reading, verifying,      *)
(* decoding and validating, in the order of the code.  All of it is pure;  *)
(* Server.tla runs it inside requests.                                     *)
(*                                                                         *)
(* A request is the record of what these checks tell apart.  The limits    *)
(* are constants, so that both sides of each are among the inputs.  A gate *)
(* is the status it answers with, or Pass for a request that goes on to    *)
(* the lifecycle.                                                          *)
(***************************************************************************)
EXTENDS Integers, Sequences, FiniteSets

CONSTANTS
    MaxBody,          \* webhook.MaxBody and httpx.MaxBodyBytes
    MaxSessionChars,  \* ingest: maxSessionIDChars
    MaxClientChars,   \* ingest: maxClientIDChars
    MaxBatch,         \* ingest: maxEvents
    MaxSeq,           \* ingest: maxSeq
    MaxDataBytes,     \* ingest: maxDataBytes
    TsWindow,         \* ingest: tsWindow
    MaxLimit,         \* api: maxLimit
    DefaultLimit      \* api: defaultLimit

ASSUME IntakeAssumption ==
    /\ {MaxBody, MaxSessionChars, MaxClientChars, MaxBatch, MaxSeq,
        MaxDataBytes, TsWindow, MaxLimit, DefaultLimit} \subseteq Nat \ {0}
    /\ DefaultLimit <= MaxLimit

Pass == 0

-----------------------------------------------------------------------------
(* POST /webhooks/webfuse.                                                 *)
(*   size, inflated   bytes as sent, and after gunzip                      *)
(*   encoding         none; gzip by header or by magic; brokenGzip: gzip   *)
(*                    that does not decompress                             *)
(*   mac              none: no header, or one that is not 32 hex bytes;    *)
(*                    else the bytes it was computed over                  *)
(*   json, category, sequence, created, data: the envelope                 *)

Handled == {"started", "ended", "joined", "left"}

Gzipped(d) == d.encoding # "none"

\* ReadBody: the size as sent, then the decompressed size.
ReadBody(d) ==
    /\ d.size <= MaxBody
    /\ Gzipped(d) => d.encoding # "brokenGzip" /\ d.inflated <= MaxBody

\* Mutant: the bytes as sent are verified.
VerifyRaw(d) == d.mac = IF Gzipped(d) THEN "raw" ELSE "plain"

\* Verify: an HMAC of the decompressed bytes.  Without gzip both are the same.
Verify(d) == d.mac = "plain" \/ (d.mac = "raw" /\ ~Gzipped(d))

Parse(d) == d.json /\ d.category # "" /\ d.sequence >= 1 /\ d.created

\* SessionData and ParticipantData: null decodes to zero values; absent data
\* and a field of the wrong type, such as a space_id that is null, do not decode.
Decodes(d) == d.data \in {"object", "null"}

\* RequireSignature, then the handler up to the lifecycle call of its category.
WebhookGate(d) ==
    CASE ~ReadBody(d)                            -> 400
      [] ReadBody(d) /\ ~Verify(d)               -> 401
      [] ReadBody(d) /\ Verify(d) /\ ~Parse(d)   -> 400
      [] OTHER -> IF d.category \notin Handled THEN 200   \* "ignored", data unread
                  ELSE IF Decodes(d) THEN Pass ELSE 400

-----------------------------------------------------------------------------
(* POST and OPTIONS /ingest.  size is where the JSON value ends; after it   *)
(* come white space and, as tail, nothing, data that begins with } or ], or *)
(* other data; "broken" is white space up to a read error, which is also    *)
(* what is met at MaxBody.  session and client are lengths in characters,   *)
(* age is the event's ts against the server's clock.                        *)

\* httpx.ReadJSON.  dec.More, made for elements of an array or object, sees
\* no data before a closing bracket or a read error.
ReadJSON(b) == b.body = "ok" /\ b.size <= MaxBody /\ b.tail # "data"

IsNullData(e) == e.data \in {"absent", "null"}

ValidateEvent(e) ==
    /\ e.known
    /\ 1 <= e.seq /\ e.seq <= MaxSeq
    /\ -TsWindow <= e.age /\ e.age <= TsWindow
    /\ IsNullData(e) \/ (e.bytes <= MaxDataBytes /\ e.data = "object")

Validate(b) ==
    /\ b.session # 0 /\ b.session <= MaxSessionChars
    /\ b.space # 0
    /\ b.client # 0 /\ b.client <= MaxClientChars
    /\ 1 <= Len(b.events) /\ Len(b.events) <= MaxBatch
    /\ \A i \in DOMAIN b.events : ValidateEvent(b.events[i])

IngestGate(b) ==
    CASE b.method = "OPTIONS"        -> 204     \* CORS answers a preflight
      [] b.method = "POST" /\ ReadJSON(b) /\ Validate(b) -> Pass
      [] OTHER                       -> 400

-----------------------------------------------------------------------------
(* GET /api/sessions, .../{id} and .../{id}/events. *)

Absent == -1
NotANumber == -2

\* parseLimit: NotANumber again for what it refuses.
ParseLimit(raw) ==
    IF raw = Absent THEN DefaultLimit
    ELSE IF raw < 1 THEN NotANumber
    ELSE IF raw < MaxLimit THEN raw ELSE MaxLimit

ReadGate(q) == IF q.kind = "list" /\ ParseLimit(q.limit) = NotANumber THEN 400 ELSE Pass

-----------------------------------------------------------------------------
(* All requests. *)

\* The values the fields take; "other" stands for every other category or data.
WebhookForm ==
    [route : {"webhook"}, size : Nat, inflated : Nat,
     encoding : {"none", "header", "magic", "brokenGzip"},
     mac : {"none", "plain", "raw", "other"}, json : BOOLEAN,
     category : Handled \cup {"", "other"}, sequence : Int, created : BOOLEAN,
     data : {"object", "null", "absent", "mistyped"}]

IngestEvent ==
    [known : BOOLEAN, seq : Int, age : Int, data : {"object", "other"}, bytes : Nat]
      \cup [known : BOOLEAN, seq : Int, age : Int, data : {"absent", "null"}, bytes : {0}]

IngestForm ==
    [route : {"ingest"}, method : {"OPTIONS", "POST"},
     body : {"ok", "empty", "invalid"}, size : Nat,
     tail : {"none", "closer", "data", "broken"},
     session : Nat, space : Int, client : Nat, events : Seq(IngestEvent)]

ApiForm == [route : {"api"}, kind : {"list", "get", "events"}, limit : Int]

Gate(r) == CASE r.route = "webhook" -> WebhookGate(r)
             [] r.route = "ingest"  -> IngestGate(r)
             [] r.route = "api"     -> ReadGate(r)

\* The calls of the store that serving r to its end takes.
StoreCalls(r) ==
    CASE r.route = "webhook" -> CASE r.category = "ended" -> 1   \* EndSession
                                  [] r.category = "left"  -> 3   \* Get, FindOrCreate, Set
                                  [] OTHER                -> 2   \* FindOrCreate, update
      [] r.route = "ingest"  -> 1 + Len(r.events)                \* FindOrCreate, InsertEvent
      [] r.route = "api"     -> IF r.kind = "events" THEN 2 ELSE 1

\* The first call of r reads the session, and r ends there if it is not found.
ReadsFirst(r) ==
    \/ r.route = "webhook" /\ r.category = "left"
    \/ r.route = "api" /\ r.kind \in {"get", "events"}

NotFoundStatus(r) == IF r.route = "api" THEN 404 ELSE 200

\* Mutant: an accepted batch is answered with Created.
SuccessStatusCreated(r) == IF r.route = "ingest" THEN 201 ELSE 200

SuccessStatus(r) == IF r.route = "ingest" THEN 202 ELSE 200
=============================================================================
