------------------------------ MODULE MCServer -------------------------------
(***************************************************************************)
(* Server for TLC.  Requests are a good one of each kind and those with a  *)
(* field changed, to values on both sides of every limit.                  *)
(***************************************************************************)
EXTENDS Server

\* f with one field changed.
Varied(f, values) ==
    {f} \cup UNION {{[f EXCEPT ![x] = v] : v \in values[x]} : x \in DOMAIN values}

GoodWebhook ==
    [route |-> "webhook", size |-> 1, inflated |-> 1, encoding |-> "none", mac |-> "plain",
     json |-> TRUE, category |-> "started", sequence |-> 1, created |-> TRUE, data |-> "object"]

WebhookValues ==
    [size |-> {MaxBody, MaxBody + 1}, inflated |-> {MaxBody, MaxBody + 1},
     encoding |-> {"header", "magic", "brokenGzip"}, mac |-> {"none", "raw", "other"},
     json |-> {FALSE}, category |-> {"", "ended", "joined", "left", "other"},
     sequence |-> {0}, created |-> {FALSE}, data |-> {"null", "absent", "mistyped"}]

\* What may depend on each other is combined.
Encoded ==
    {[GoodWebhook EXCEPT !.encoding = e, !.inflated = n, !.mac = m] :
        e \in {"none", "header", "magic", "brokenGzip"}, n \in {1, MaxBody + 1},
        m \in {"none", "plain", "raw", "other"}}

Categorised ==
    {[GoodWebhook EXCEPT !.category = c, !.data = d] :
        c \in Handled \cup {"", "other"}, d \in {"object", "null", "absent", "mistyped"}}

GoodEvent == [known |-> TRUE, seq |-> 1, age |-> 0, data |-> "object", bytes |-> 1]

EventValues ==
    [known |-> {FALSE}, seq |-> {0, MaxSeq, MaxSeq + 1},
     age |-> {-TsWindow - 1, -TsWindow, TsWindow, TsWindow + 1},
     data |-> {"other"}, bytes |-> {MaxDataBytes, MaxDataBytes + 1}]

EmptyEvents == {[GoodEvent EXCEPT !.data = d, !.bytes = 0] : d \in {"absent", "null"}}

GoodBatch ==
    [route |-> "ingest", method |-> "POST", body |-> "ok", size |-> 1, tail |-> "none",
     session |-> 1, space |-> 1, client |-> 1, events |-> <<GoodEvent>>]

BatchValues ==
    [method |-> {"OPTIONS"}, body |-> {"empty", "invalid"}, size |-> {MaxBody, MaxBody + 1},
     tail |-> {"closer", "data", "broken"},
     session |-> {0, MaxSessionChars, MaxSessionChars + 1}, space |-> {0},
     client |-> {0, MaxClientChars, MaxClientChars + 1},
     events |-> {<<>>, [i \in 1..MaxBatch + 1 |-> GoodEvent]}]

\* A batch whose last event differs, behind a good one.
EventBatches ==
    {[GoodBatch EXCEPT !.events = <<GoodEvent, e>>] :
        e \in Varied(GoodEvent, EventValues) \cup EmptyEvents}

Queries ==
    [route : {"api"}, kind : {"list"}, limit : {Absent, NotANumber, 0, 1, MaxLimit, MaxLimit + 1}]
      \cup [route : {"api"}, kind : {"get", "events"}, limit : {Absent}]

MCForms ==
    Varied(GoodWebhook, WebhookValues) \cup Encoded \cup Categorised \cup Varied(GoodBatch, BatchValues)
      \cup EventBatches \cup Queries

\* Seconds that are unset, zero, negative, no number, or just too large.
SomeSeconds == {Unset, 0, -3, NotANumber, 2^(WordSize - 1)}

Complete == {"DATABASE_URL", "WEBHOOK_SIGNING_KEY"}

GoodEnvironment == [set |-> Complete, idle |-> Unset, tick |-> Unset]

MCEnvironments ==
    Varied(GoodEnvironment, [set |-> SUBSET Complete, idle |-> SomeSeconds, tick |-> SomeSeconds])
      \cup {[set |-> {}, idle |-> 0, tick |-> NotANumber]}
=============================================================================
