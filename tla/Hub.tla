--------------------------------- MODULE Hub ---------------------------------
(***************************************************************************)
(* The in-process fan-out of stream messages (server/internal/stream):     *)
(* Hub.Publish, called by the lifecycle, and the SSE requests that         *)
(* subscribe and write what they receive to their clients.                 *)
(*                                                                         *)
(* Every method of the hub runs under its mutex and never blocks, so it is *)
(* one step.  A stream is one SSE request: it takes a message from its     *)
(* channel and writes it, which lasts as long as the client is slow, while *)
(* its channel fills up.  A message is known by its id, its position in    *)
(* `published'.  Left out: encoding errors.                                *)
(***************************************************************************)
EXTENDS Integers, Sequences, FiniteSets

CONSTANTS
    Streams,           \* SSE requests; each is opened at most once
    SessionIds,
    Messages,          \* the messages that are published
    Filters,           \* the streams that are asked for
    Buffer,            \* subscriberBuffer
    MaxMessages        \* bound of the published messages

ASSUME HubAssumption == Buffer \in Nat \ {0} /\ MaxMessages \in Nat

Overview == "overview"

ASSUME StreamAssumption ==
    /\ Filters \subseteq SessionIds \cup {Overview}
    /\ Overview \notin SessionIds

\* Key marks an activity message that the overview gets too.
ASSUME MessageAssumption ==
    /\ Messages \subseteq [event : {"session", "activity"}, session : SessionIds,
                          key : BOOLEAN]
    /\ \A m \in Messages : m.key => m.event = "activity"

VARIABLES
    published,   \* messages in the order of their ids
    closed,      \* the hub is closed
    subs,        \* the registered subscribers
    chan,        \* per stream, the ids in its channel
    closes,      \* per stream, how often its channel was closed
    pc,          \* per stream: new, serving, writing, done
    filter,
    written,     \* per stream, the ids its client was sent
    held,        \* per stream, the id being written, or <<>>
    since,       \* history: Len(published) when the stream subscribed
    until        \* history: Len(published) when it was removed

hubVars == <<published, closed, subs, chan, closes>>
streamVars == <<pc, filter, written, held>>
vars == <<hubVars, streamVars, since, until>>

Init ==
    /\ published = <<>>
    /\ closed = FALSE
    /\ subs = {}
    /\ chan = [s \in Streams |-> <<>>]
    /\ closes = [s \in Streams |-> 0]
    /\ pc = [s \in Streams |-> "new"]
    /\ filter = [s \in Streams |-> Overview]
    /\ written = [s \in Streams |-> <<>>]
    /\ held = [s \in Streams |-> <<>>]
    /\ since = [s \in Streams |-> 0]
    /\ until = [s \in Streams |-> 0]

-----------------------------------------------------------------------------
(* The hub. *)

\* The overview: every session message and key activity.  A session: its own.
Matches(f, m) ==
    IF f = Overview THEN m.event = "session" \/ m.key ELSE m.session = f

\* remove: each of `gone' leaves the hub and has its channel closed.
Removes(gone) ==
    /\ subs' = subs \ gone
    /\ closes' = [s \in Streams |-> IF s \in gone THEN closes[s] + 1 ELSE closes[s]]
    /\ until' = [s \in Streams |-> IF s \in gone THEN Len(published) ELSE until[s]]

Matching(m) == {s \in subs : Matches(filter[s], m)}

\* The message gets its id and goes to `reached'; `gone' are dropped.
Delivers(m, id, reached, gone) ==
    /\ Len(published) < MaxMessages
    /\ published' = Append(published, m)
    /\ chan' = [s \in Streams |-> IF s \in reached THEN Append(chan[s], id) ELSE chan[s]]
    /\ Removes(gone)
    /\ UNCHANGED <<closed, streamVars, since>>

\* Mutant: a message that does not fit is skipped, its subscriber is kept.
PublishSkips(m) ==
    LET full == {s \in Matching(m) : Len(chan[s]) >= Buffer} IN
    Delivers(m, Len(published) + 1, Matching(m) \ full, {})

\* Mutant: the last place of a buffer is not used.
PublishEarlyDrop(m) ==
    LET full == {s \in Matching(m) : Len(chan[s]) + 1 >= Buffer} IN
    Delivers(m, Len(published) + 1, Matching(m) \ full, full)

\* Mutant: the id is taken before it is incremented.
PublishFromZero(m) ==
    LET full == {s \in Matching(m) : Len(chan[s]) >= Buffer} IN
    Delivers(m, Len(published), Matching(m) \ full, full)

\* A matching subscriber whose buffer is full is dropped instead.
Publish(m) ==
    LET full == {s \in Matching(m) : Len(chan[s]) >= Buffer} IN
    Delivers(m, Len(published) + 1, Matching(m) \ full, full)

\* Mutant: a closed hub takes subscribers.
SubscribeUnchecked(s, f) ==
    /\ pc[s] = "new"
    /\ pc' = [pc EXCEPT ![s] = "serving"]
    /\ filter' = [filter EXCEPT ![s] = f]
    /\ since' = [since EXCEPT ![s] = Len(published)]
    /\ subs' = subs \cup {s}
    /\ UNCHANGED <<published, closed, chan, closes, written, held, until>>

\* The request subscribes before it sends its headers.  On a closed hub the
\* channel it gets is already closed.
Subscribe(s, f) ==
    /\ pc[s] = "new"
    /\ pc' = [pc EXCEPT ![s] = "serving"]
    /\ filter' = [filter EXCEPT ![s] = f]
    /\ since' = [since EXCEPT ![s] = Len(published)]
    /\ until' = [until EXCEPT ![s] = Len(published)]
    /\ subs' = IF closed THEN subs ELSE subs \cup {s}
    /\ closes' = IF closed THEN [closes EXCEPT ![s] = @ + 1] ELSE closes
    /\ UNCHANGED <<published, closed, chan, written, held>>

\* Mutant: cancel does not check that the subscriber is still registered.
CancelUnchecked(s) == Removes({s})

\* cancel, also after the hub has dropped the subscriber.
Cancel(s) == Removes({s} \cap subs)

\* Closing a closed hub changes nothing.
Close ==
    /\ closed' = TRUE
    /\ Removes(subs)
    /\ UNCHANGED <<published, chan, streamVars, since>>

-----------------------------------------------------------------------------
(* The loop of an SSE request.  Its deferred cancel runs whenever it returns. *)

Receive(s) ==
    /\ pc[s] = "serving"
    /\ chan[s] # <<>>
    /\ pc' = [pc EXCEPT ![s] = "writing"]
    /\ held' = [held EXCEPT ![s] = <<Head(chan[s])>>]
    /\ chan' = [chan EXCEPT ![s] = Tail(@)]
    /\ UNCHANGED <<published, closed, subs, closes, filter, written, since, until>>

\* The ticker's comment line: a write like a frame's, without a message.
Ping(s) ==
    /\ pc[s] = "serving"
    /\ pc' = [pc EXCEPT ![s] = "writing"]
    /\ UNCHANGED <<hubVars, filter, written, held, since, until>>

Write(s) ==
    /\ pc[s] = "writing"
    /\ pc' = [pc EXCEPT ![s] = "serving"]
    /\ written' = [written EXCEPT ![s] = @ \o held[s]]
    /\ held' = [held EXCEPT ![s] = <<>>]
    /\ UNCHANGED <<hubVars, filter, since, until>>

Returns(s) ==
    /\ pc' = [pc EXCEPT ![s] = "done"]
    /\ Cancel(s)
    /\ UNCHANGED <<published, closed, chan, filter, written, held, since>>

WriteFails(s) == pc[s] = "writing" /\ Returns(s)

\* The client has left.
ContextDone(s) == pc[s] = "serving" /\ Returns(s)

\* A closed channel is drained before the loop sees its end.
EndOfChannel(s) ==
    /\ pc[s] = "serving"
    /\ closes[s] > 0 /\ chan[s] = <<>>
    /\ Returns(s)

-----------------------------------------------------------------------------
Serve(s) == Receive(s) \/ Ping(s) \/ Write(s) \/ EndOfChannel(s)

Next ==
    \/ \E m \in Messages : Publish(m)
    \/ \E s \in Streams, f \in Filters : Subscribe(s, f)
    \/ \E s \in Streams : Serve(s) \/ WriteFails(s) \/ ContextDone(s)
    \/ Close

Spec == Init /\ [][Next]_vars

\* The loop's select picks at random among what is ready, so pings do not keep
\* it from the channel for ever.  Nothing obliges a write to end: it has no
\* deadline, and a client may stop reading without closing the connection.
FairSpec ==
    /\ Spec
    /\ \A s \in Streams : SF_vars(Receive(s)) /\ SF_vars(EndOfChannel(s))

-----------------------------------------------------------------------------
(* Properties. *)

Ids == Seq(Nat \ {0})

\* Type invariant.
TypeOK ==
    /\ published \in Seq(Messages)
    /\ closed \in BOOLEAN
    /\ subs \subseteq Streams
    /\ chan \in [Streams -> Ids] /\ closes \in [Streams -> Nat]
    /\ pc \in [Streams -> {"new", "serving", "writing", "done"}]
    /\ filter \in [Streams -> Filters \cup {Overview}]
    /\ written \in [Streams -> Ids] /\ held \in [Streams -> Ids]
    /\ since \in [Streams -> Nat] /\ until \in [Streams -> Nat]

\* What the client was sent, is being sent and has still to be sent.
Accepted(s) == written[s] \o held[s] \o chan[s]

\* The messages for s up to now, or to its removal.
Feed(s) ==
    LET last == IF s \in subs THEN Len(published) ELSE until[s] IN
    {n \in since[s] + 1 .. last : Matches(filter[s], published[n])}

\* A client never misses a message in the middle of a stream: from its
\* subscription to its removal it is sent every matching message and no other,
\* in the order of the ids.  A slow one loses its stream, not a message.
GaplessFeed ==
    \A s \in Streams : pc[s] # "new" =>
        /\ \A i, j \in DOMAIN Accepted(s) : i < j => Accepted(s)[i] < Accepted(s)[j]
        /\ {Accepted(s)[i] : i \in DOMAIN Accepted(s)} = Feed(s)

\* The channel of a subscriber is closed exactly once, when it leaves the hub:
\* by a drop, by its cancel or by Close, whichever comes first.  Closing it
\* twice, or sending on it afterwards, would panic.
ChannelClosedOnce ==
    \A s \in Streams :
        closes[s] = IF pc[s] = "new" \/ s \in subs THEN 0 ELSE 1

\* Publish drops a subscriber only for a message it should get and has no room
\* for; another subscriber that is slow never costs it its stream.
DropsOnlyFullStreams ==
    [][published' # published =>
          \A s \in subs \ subs' :
              Len(chan[s]) = Buffer /\ Matches(filter[s], published'[Len(published')])]_vars

\* Close ends the streams: once the hub is closed every SSE request ends, also
\* one that subscribes afterwards, unless it is in a write that never returns.
ClosedHubEndsStreams ==
    \A s \in Streams :
        (closed /\ pc[s] # "new") ~> (pc[s] = "done" \/ [](pc[s] = "writing"))
=============================================================================
