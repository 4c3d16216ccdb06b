------------------------------ MODULE HubProofs ------------------------------
(***************************************************************************)
(* Proofs about Hub.tla, for every set of streams, sessions, messages and  *)
(* filters, every buffer length and every number of messages.  To its      *)
(* safety properties the inductive invariant adds StreamsOK: where a       *)
(* stream's messages can be, and which streams can be registered.          *)
(***************************************************************************)
EXTENDS Hub, SequenceTheorems, TLAPS

StreamsOK ==
    \A s \in Streams :
        /\ Len(chan[s]) <= Buffer
        /\ since[s] <= Len(published) /\ until[s] <= Len(published)
        /\ s \in subs => pc[s] \in {"serving", "writing"}
        /\ pc[s] = "new" => chan[s] = <<>> /\ written[s] = <<>>
        /\ pc[s] \in {"new", "serving"} => held[s] = <<>>

-----------------------------------------------------------------------------
(* What the sequences of a stream are made of. *)

Id == Nat \ {0}

Increasing(q) == \A i, j \in DOMAIN q : i < j => q[i] < q[j]
Elements(q) == {q[i] : i \in DOMAIN q}

LEMMA SeqFacts ==
    ASSUME NEW q \in Seq(Id)
    PROVE  /\ Len(q) \in Nat /\ DOMAIN q = 1 .. Len(q)
           /\ \A i \in DOMAIN q : q[i] \in Id
BY LenProperties, ElementOfSeq

\* A greater id at the end keeps a sequence increasing, and is one more element.
LEMMA AppendGreater ==
    ASSUME NEW q \in Seq(Id), NEW id \in Id, Increasing(q),
           \A n \in Elements(q) : n < id
    PROVE  /\ Increasing(Append(q, id))
           /\ Elements(Append(q, id)) = Elements(q) \cup {id}
<1> DEFINE r == Append(q, id)
<1>1. /\ r \in Seq(Id) /\ Len(r) = Len(q) + 1
      /\ \A i \in 1 .. Len(q) : r[i] = q[i]
      /\ r[Len(q) + 1] = id
  BY AppendProperties
<1>2. /\ Len(q) \in Nat /\ DOMAIN q = 1 .. Len(q)
      /\ \A i \in DOMAIN q : q[i] \in Id
  BY SeqFacts
<1>3. DOMAIN r = 1 .. Len(q) + 1
  BY <1>1, SeqFacts
<1> HIDE DEF r
<1>4. Increasing(r)
  <2> SUFFICES ASSUME NEW i \in DOMAIN r, NEW j \in DOMAIN r, i < j
               PROVE  r[i] < r[j]
    BY DEF Increasing
  <2>1. i \in DOMAIN q /\ r[i] = q[i]
    BY <1>1, <1>2, <1>3
  <2>2. CASE j = Len(q) + 1
    BY <1>1, <2>1, <2>2 DEF Elements
  <2>3. CASE j # Len(q) + 1
    <3>1. j \in DOMAIN q /\ r[j] = q[j]
      BY <1>1, <1>2, <1>3, <2>3
    <3>2. QED
      BY <2>1, <3>1 DEF Increasing
  <2>4. QED
    BY <2>2, <2>3
<1>5. Elements(r) = Elements(q) \cup {id}
  <2>1. \A n \in Elements(r) : n \in Elements(q) \cup {id}
    BY <1>1, <1>2, <1>3 DEF Elements
  <2>2. \A n \in Elements(q) : n \in Elements(r)
    BY <1>1, <1>2, <1>3 DEF Elements
  <2>3. id \in Elements(r)
    BY <1>1, <1>2, <1>3 DEF Elements
  <2>4. QED
    BY <2>1, <2>2, <2>3
<1>6. QED
  BY <1>4, <1>5 DEF r

\* A new id at the end of the channel is one at the end of what is accepted.
LEMMA AppendToAccepted ==
    ASSUME NEW w \in Seq(Id), NEW h \in Seq(Id), NEW c \in Seq(Id), NEW id \in Id
    PROVE  w \o h \o Append(c, id) = Append(w \o h \o c, id)
<1>1. w \o h \in Seq(Id) /\ w \o h \o c \in Seq(Id) /\ <<id>> \in Seq(Id)
  BY ConcatProperties
<1>2. Append(c, id) = c \o <<id>> /\ Append(w \o h \o c, id) = (w \o h \o c) \o <<id>>
  BY <1>1, AppendIsConcat
<1>3. (w \o h \o c) \o <<id>> = (w \o h) \o (c \o <<id>>)
  BY <1>1, ConcatAssociative
<1>4. QED
  BY <1>2, <1>3

\* To take the head of a channel moves an id within what is accepted.
LEMMA TakeFromChannel ==
    ASSUME NEW w \in Seq(Id), NEW c \in Seq(Id), c # <<>>
    PROVE  w \o <<Head(c)>> \o Tail(c) = w \o <<>> \o c
<1> DEFINE d == <<Head(c)>> \o Tail(c)
<1>1. Head(c) \in Id /\ Tail(c) \in Seq(Id) /\ <<Head(c)>> \in Seq(Id)
  BY HeadTailProperties
<1>2. (w \o <<Head(c)>>) \o Tail(c) = w \o d
  BY <1>1, ConcatAssociative
<1>3. d = c
  <2>1. /\ Len(c) \in Nat /\ Len(c) >= 1 /\ c[1] = Head(c)
        /\ Len(Tail(c)) = Len(c) - 1
        /\ \A i \in 1 .. Len(Tail(c)) : Tail(c)[i] = c[i + 1]
    BY HeadTailProperties, SeqFacts, EmptySeq
  <2>2. /\ d \in Seq(Id) /\ Len(d) = 1 + Len(Tail(c))
        /\ \A i \in 1 .. 1 + Len(Tail(c)) :
              d[i] = IF i <= 1 THEN Head(c) ELSE Tail(c)[i - 1]
    BY <1>1, ConcatProperties
  <2>3. \A i \in 1 .. Len(d) : d[i] = c[i]
    BY <2>1, <2>2
  <2>4. QED
    BY <2>1, <2>2, <2>3, SeqEqual
<1>4. w \o <<>> = w
  BY ConcatEmptySeq
<1>5. QED
  BY <1>2, <1>3, <1>4

-----------------------------------------------------------------------------
(* The types, the streams and the closed channels. *)

Base == TypeOK /\ StreamsOK /\ ChannelClosedOnce

LEMMA InitBase == Init => Base
<1> SUFFICES ASSUME Init PROVE Base
  OBVIOUS
<1>1. <<>> \in Seq(Messages) /\ <<>> \in Ids /\ Len(<<>>) = 0
  BY DEF Ids
<1>2. TypeOK
  BY <1>1 DEF Init, TypeOK
<1>3. StreamsOK
  BY <1>1, HubAssumption DEF Init, StreamsOK
<1>4. ChannelClosedOnce
  BY DEF Init, ChannelClosedOnce
<1>5. QED
  BY <1>2, <1>3, <1>4 DEF Base

\* remove, with registered subscribers only, closes the channels of those that
\* leave and of no other.
LEMMA RemovesRegistered ==
    ASSUME Base, NEW gone \in SUBSET subs, Removes(gone)
    PROVE  /\ subs' \subseteq subs /\ closes' \in [Streams -> Nat]
           /\ until' \in [Streams -> Nat]
           /\ \A s \in Streams : until'[s] <= Len(published)
           /\ \A s \in Streams : closes'[s] = IF pc[s] = "new" \/ s \in subs' THEN 0 ELSE 1
<1>1. Len(published) \in Nat
  BY LenProperties DEF Base, TypeOK
<1>2. ASSUME NEW s \in Streams
      PROVE  /\ closes'[s] = IF s \in gone THEN closes[s] + 1 ELSE closes[s]
             /\ until'[s] = IF s \in gone THEN Len(published) ELSE until[s]
             /\ s \in subs' <=> s \in subs /\ s \notin gone
             /\ closes[s] \in Nat /\ until[s] \in Nat /\ until[s] <= Len(published)
             /\ closes[s] = IF pc[s] = "new" \/ s \in subs THEN 0 ELSE 1
             /\ pc[s] = "new" => s \notin subs
  BY DEF Base, TypeOK, StreamsOK, ChannelClosedOnce, Removes
<1>3. closes' \in [Streams -> Nat] /\ until' \in [Streams -> Nat]
  BY <1>1, <1>2 DEF Removes
<1>4. \A s \in Streams : until'[s] <= Len(published)
  BY <1>1, <1>2
<1>5. \A s \in Streams : closes'[s] = IF pc[s] = "new" \/ s \in subs' THEN 0 ELSE 1
  BY <1>2
<1>6. QED
  BY <1>3, <1>4, <1>5 DEF Removes

LEMMA BasePublish ==
    ASSUME Base, NEW m \in Messages, Publish(m)
    PROVE  Base'
<1> DEFINE full == {s \in Matching(m) : Len(chan[s]) >= Buffer}
           id == Len(published) + 1
           reached == Matching(m) \ full
<1>1. /\ published' = Append(published, m)
      /\ chan' = [s \in Streams |-> IF s \in reached THEN Append(chan[s], id) ELSE chan[s]]
      /\ Removes(full)
      /\ UNCHANGED <<closed, pc, filter, written, held, since>>
  BY DEF Publish, Delivers, streamVars
<1>2. full \in SUBSET subs
  BY DEF Matching
<1>3. /\ subs' \subseteq subs /\ closes' \in [Streams -> Nat]
      /\ until' \in [Streams -> Nat]
      /\ \A s \in Streams : until'[s] <= Len(published)
      /\ \A s \in Streams : closes'[s] = IF pc[s] = "new" \/ s \in subs' THEN 0 ELSE 1
  BY <1>1, <1>2, RemovesRegistered
<1>4. /\ published' \in Seq(Messages) /\ Len(published) \in Nat
      /\ Len(published') = Len(published) + 1
  BY <1>1, LenProperties, AppendProperties DEF Base, TypeOK
<1>5. id \in Id
  BY <1>4 DEF Id
<1>6. ASSUME NEW s \in Streams
      PROVE  /\ chan'[s] \in Seq(Id) /\ Len(chan'[s]) <= Buffer
             /\ s \notin subs => chan'[s] = chan[s]
  <2>1. chan[s] \in Seq(Id) /\ Len(chan[s]) \in Nat /\ Len(chan[s]) <= Buffer
    BY LenProperties DEF Base, TypeOK, StreamsOK, Ids, Id
  <2>2. CASE s \in reached
    <3>1. Len(chan[s]) < Buffer /\ s \in subs
      BY <2>1, <2>2, HubAssumption DEF Matching
    <3>2. chan'[s] = Append(chan[s], id)
      BY <1>1, <2>2
    <3>3. chan'[s] \in Seq(Id) /\ Len(chan'[s]) = Len(chan[s]) + 1
      BY <1>5, <2>1, <3>2, AppendProperties
    <3>4. QED
      BY <2>1, <3>1, <3>3, HubAssumption
  <2>3. CASE s \notin reached
    BY <1>1, <2>1, <2>3
  <2>4. QED
    BY <2>2, <2>3
<1>7. chan' \in [Streams -> Ids]
  BY <1>1, <1>6 DEF Ids, Id
<1>8. TypeOK'
  BY <1>1, <1>3, <1>4, <1>7 DEF Base, TypeOK
<1>9. StreamsOK'
  <2> SUFFICES ASSUME NEW s \in Streams
               PROVE  /\ Len(chan'[s]) <= Buffer
                      /\ since'[s] <= Len(published') /\ until'[s] <= Len(published')
                      /\ s \in subs' => pc'[s] \in {"serving", "writing"}
                      /\ pc'[s] = "new" => chan'[s] = <<>> /\ written'[s] = <<>>
                      /\ pc'[s] \in {"new", "serving"} => held'[s] = <<>>
    BY DEF StreamsOK
  <2>1. since'[s] <= Len(published') /\ until'[s] <= Len(published')
    BY <1>1, <1>3, <1>4, <1>8 DEF Base, StreamsOK, TypeOK
  <2>2. pc'[s] = "new" => s \notin subs
    BY <1>1 DEF Base, StreamsOK
  <2>3. QED
    BY <1>1, <1>3, <1>6, <2>1, <2>2 DEF Base, StreamsOK
<1>10. ChannelClosedOnce'
  BY <1>1, <1>3 DEF ChannelClosedOnce
<1>11. QED
  BY <1>8, <1>9, <1>10 DEF Base

LEMMA BaseSubscribe ==
    ASSUME Base, NEW s \in Streams, NEW f \in Filters, Subscribe(s, f)
    PROVE  Base'
<1>1. Len(published) \in Nat /\ s \notin subs /\ closes[s] = 0
  BY LenProperties DEF Base, TypeOK, StreamsOK, ChannelClosedOnce, Subscribe
<1>2. TypeOK'
  BY <1>1 DEF Base, TypeOK, Subscribe
<1>3. StreamsOK'
  BY <1>1 DEF Base, TypeOK, StreamsOK, Subscribe
<1>4. ChannelClosedOnce'
  BY <1>1 DEF Base, TypeOK, ChannelClosedOnce, Subscribe
<1>5. QED
  BY <1>2, <1>3, <1>4 DEF Base

LEMMA BaseClose ==
    ASSUME Base, Close
    PROVE  Base'
<1>1. Removes(subs) /\ subs \in SUBSET subs
  BY DEF Close
<1>2. /\ subs' \subseteq subs /\ closes' \in [Streams -> Nat]
      /\ until' \in [Streams -> Nat]
      /\ \A s \in Streams : until'[s] <= Len(published)
      /\ \A s \in Streams : closes'[s] = IF pc[s] = "new" \/ s \in subs' THEN 0 ELSE 1
  BY <1>1, RemovesRegistered
<1>3. QED
  BY <1>2 DEF Base, TypeOK, StreamsOK, ChannelClosedOnce, Close, streamVars

LEMMA BaseReceive ==
    ASSUME Base, NEW s \in Streams, Receive(s)
    PROVE  Base'
<1>1. chan[s] \in Seq(Id) /\ chan[s] # <<>>
  BY DEF Receive, Base, TypeOK, Ids, Id
<1>2. /\ <<Head(chan[s])>> \in Ids /\ Tail(chan[s]) \in Ids
      /\ Len(chan[s]) \in Nat /\ Len(Tail(chan[s])) = Len(chan[s]) - 1
  BY <1>1, HeadTailProperties, LenProperties DEF Ids, Id
<1>3. TypeOK'
  BY <1>2 DEF Base, TypeOK, Receive
<1>4. StreamsOK'
  <2>1. Len(Tail(chan[s])) <= Buffer
    BY <1>2, HubAssumption DEF Base, StreamsOK
  <2>2. QED
    BY <2>1 DEF Base, TypeOK, StreamsOK, Receive
<1>5. ChannelClosedOnce'
  BY DEF Base, TypeOK, ChannelClosedOnce, Receive
<1>6. QED
  BY <1>3, <1>4, <1>5 DEF Base

LEMMA BaseWrite ==
    ASSUME Base, NEW s \in Streams, Write(s)
    PROVE  Base'
<1>1. written[s] \o held[s] \in Ids /\ <<>> \in Ids
  <2>1. written[s] \in Seq(Id) /\ held[s] \in Seq(Id)
    BY DEF Base, TypeOK, Ids, Id
  <2>2. QED
    BY <2>1, ConcatProperties DEF Ids, Id
<1>2. TypeOK'
  BY <1>1 DEF Base, TypeOK, Write, hubVars
<1>3. StreamsOK'
  BY DEF Base, TypeOK, StreamsOK, Write, hubVars
<1>4. ChannelClosedOnce'
  BY DEF Base, TypeOK, ChannelClosedOnce, Write, hubVars
<1>5. QED
  BY <1>2, <1>3, <1>4 DEF Base

LEMMA BasePing ==
    ASSUME Base, NEW s \in Streams, Ping(s)
    PROVE  Base'
<1>1. TypeOK'
  BY DEF Base, TypeOK, Ping, hubVars
<1>2. StreamsOK'
  BY DEF Base, TypeOK, StreamsOK, Ping, hubVars
<1>3. ChannelClosedOnce'
  BY DEF Base, TypeOK, ChannelClosedOnce, Ping, hubVars
<1>4. QED
  BY <1>1, <1>2, <1>3 DEF Base

LEMMA BaseReturns ==
    ASSUME Base, NEW s \in Streams, pc[s] \in {"serving", "writing"}, Returns(s)
    PROVE  Base'
<1> DEFINE gone == {s} \cap subs
<1>1. Removes(gone) /\ gone \in SUBSET subs
  BY DEF Returns, Cancel
<1>2. /\ subs' \subseteq subs /\ closes' \in [Streams -> Nat]
      /\ until' \in [Streams -> Nat]
      /\ \A t \in Streams : until'[t] <= Len(published)
      /\ \A t \in Streams : closes'[t] = IF pc[t] = "new" \/ t \in subs' THEN 0 ELSE 1
  BY <1>1, RemovesRegistered
<1>3. s \notin subs'
  BY <1>1 DEF Removes
<1>4. TypeOK'
  BY <1>2 DEF Base, TypeOK, Returns
<1>5. StreamsOK'
  BY <1>2, <1>3 DEF Base, TypeOK, StreamsOK, Returns
<1>6. ChannelClosedOnce'
  BY <1>2, <1>3 DEF Base, TypeOK, ChannelClosedOnce, Returns
<1>7. QED
  BY <1>4, <1>5, <1>6 DEF Base

LEMMA BaseStep == Base /\ [Next]_vars => Base'
<1> SUFFICES ASSUME Base, [Next]_vars PROVE Base'
  OBVIOUS
<1>1. ASSUME NEW m \in Messages, Publish(m) PROVE Base'
  BY <1>1, BasePublish
<1>2. ASSUME NEW s \in Streams, NEW f \in Filters, Subscribe(s, f) PROVE Base'
  BY <1>2, BaseSubscribe
<1>3. ASSUME NEW s \in Streams, Receive(s) PROVE Base'
  BY <1>3, BaseReceive
<1>4. ASSUME NEW s \in Streams, Write(s) PROVE Base'
  BY <1>4, BaseWrite
<1>5. ASSUME NEW s \in Streams, EndOfChannel(s) \/ WriteFails(s) \/ ContextDone(s)
      PROVE  Base'
  BY <1>5, BaseReturns DEF EndOfChannel, WriteFails, ContextDone
<1>6. CASE Close
  BY <1>6, BaseClose
<1>7. CASE UNCHANGED vars
  BY <1>7 DEF Base, TypeOK, StreamsOK, ChannelClosedOnce, vars, hubVars, streamVars
<1>8. ASSUME NEW s \in Streams, Ping(s) PROVE Base'
  BY <1>8, BasePing
<1>9. QED
  BY <1>1, <1>2, <1>3, <1>4, <1>5, <1>6, <1>7, <1>8 DEF Next, Serve

\* TypeOK holds of every hub.
THEOREM HubTypes == Spec => []TypeOK
<1>1. Base => TypeOK
  BY DEF Base
<1>2. QED
  BY <1>1, InitBase, BaseStep, PTL DEF Spec

\* However many streams are dropped, cancelled and closed, and in whatever
\* order, no channel is closed twice, and a subscriber's is open.
THEOREM ClosedOnce == Spec => []ChannelClosedOnce
<1>1. Base => ChannelClosedOnce
  BY DEF Base
<1>2. QED
  BY <1>1, InitBase, BaseStep, PTL DEF Spec

\* Publish drops only a subscriber that should get the message and whose
\* buffer is full.
THEOREM DropsOnlyFull == Spec => DropsOnlyFullStreams
<1> DEFINE Drops == \A s \in subs \ subs' :
              Len(chan[s]) = Buffer /\ Matches(filter[s], published'[Len(published')])
<1>1. ASSUME Base, [Next]_vars, published' # published
      PROVE  Drops
  <2>1. PICK m \in Messages : Publish(m)
    BY <1>1 DEF Next, Subscribe, Serve, Receive, Ping, Write, EndOfChannel, WriteFails,
                ContextDone, Returns, Close, vars, hubVars
  <2>2. published'[Len(published')] = m
    <3>1. published' = Append(published, m)
      BY <2>1 DEF Publish, Delivers
    <3>2. QED
      BY <1>1, <3>1, AppendProperties, LenProperties DEF Base, TypeOK
  <2>3. \A s \in subs \ subs' : s \in Matching(m) /\ Len(chan[s]) >= Buffer
    BY <2>1 DEF Publish, Delivers, Removes
  <2>4. \A s \in subs \ subs' : Len(chan[s]) = Buffer
    <3>1. \A s \in subs : Len(chan[s]) <= Buffer /\ Len(chan[s]) \in Nat
      BY <1>1, LenProperties DEF Base, TypeOK, StreamsOK, Ids
    <3>2. QED
      BY <2>3, <3>1, HubAssumption
  <2>5. QED
    BY <2>2, <2>3, <2>4 DEF Matching
<1>2. Base /\ [Next]_vars => [published' # published => Drops]_vars
  BY <1>1
<1>3. QED
  BY <1>2, InitBase, BaseStep, PTL DEF Spec, DropsOnlyFullStreams

-----------------------------------------------------------------------------
(* GaplessFeed.  A step either leaves what a stream has accepted and what it *)
(* should have alone, or adds the newest id to both, or starts with nothing. *)

Gapless(s) == Increasing(Accepted(s)) /\ Elements(Accepted(s)) = Feed(s)

LEMMA GaplessIsGaplessFeed == GaplessFeed <=> \A s \in Streams : pc[s] # "new" => Gapless(s)
BY DEF GaplessFeed, Gapless, Increasing, Elements

LEMMA GaplessNext ==
    ASSUME \A s \in Streams : pc'[s] # "new" => Gapless(s)'
    PROVE  GaplessFeed'
BY DEF GaplessFeed, Gapless, Increasing, Elements

LEMMA AcceptedType ==
    ASSUME Base, NEW s \in Streams
    PROVE  /\ written[s] \in Seq(Id) /\ held[s] \in Seq(Id) /\ chan[s] \in Seq(Id)
           /\ Accepted(s) \in Seq(Id)
<1>1. written[s] \in Seq(Id) /\ held[s] \in Seq(Id) /\ chan[s] \in Seq(Id)
  BY DEF Base, TypeOK, Ids, Id
<1>2. QED
  BY <1>1, ConcatProperties DEF Accepted

LEMMA GaplessKept ==
    ASSUME GaplessFeed, NEW s \in Streams, pc[s] # "new",
           Accepted(s)' = Accepted(s), Feed(s)' = Feed(s)
    PROVE  Gapless(s)'
BY GaplessIsGaplessFeed DEF Gapless

\* Without a new message, a subscription or a change of the filter, to leave
\* the hub does not change what a stream should have.
LEMMA FeedKept ==
    ASSUME Base, NEW s \in Streams, NEW gone \in SUBSET subs,
           \/ Removes(gone)
           \/ UNCHANGED <<subs, until>>,
           published' = published, since'[s] = since[s], filter'[s] = filter[s]
    PROVE  Feed(s)' = Feed(s)
<1>1. (IF s \in subs' THEN Len(published') ELSE until'[s])
        = (IF s \in subs THEN Len(published) ELSE until[s])
  BY DEF Base, TypeOK, Removes
<1>2. QED
  BY <1>1 DEF Feed

LEMMA GaplessPublish ==
    ASSUME Base, GaplessFeed, NEW m \in Messages, Publish(m)
    PROVE  GaplessFeed'
<1> DEFINE full == {s \in Matching(m) : Len(chan[s]) >= Buffer}
           n == Len(published)
<1>1. /\ published' = Append(published, m)
      /\ \A s \in Streams :
            chan'[s] = IF s \in Matching(m) \ full THEN Append(chan[s], n + 1) ELSE chan[s]
      /\ subs' = subs \ full
      /\ \A s \in Streams : until'[s] = IF s \in full THEN n ELSE until[s]
      /\ UNCHANGED <<closed, pc, filter, written, held, since>>
  BY DEF Publish, Delivers, Removes, streamVars
<1>2. /\ n \in Nat /\ Len(published') = n + 1
      /\ \A i \in 1 .. n : published'[i] = published[i]
      /\ published'[n + 1] = m
  BY <1>1, LenProperties, AppendProperties DEF Base, TypeOK
<1>3. SUFFICES ASSUME NEW s \in Streams, pc[s] # "new" PROVE Gapless(s)'
  BY <1>1, GaplessNext
<1>4. since[s] \in Nat /\ until[s] \in Nat /\ until[s] <= n
  BY DEF Base, TypeOK, StreamsOK
<1>5. Increasing(Accepted(s)) /\ Elements(Accepted(s)) = Feed(s)
  BY <1>3, GaplessIsGaplessFeed DEF Gapless
<1>6. CASE s \in Matching(m) \ full
  <2>1. s \in subs /\ s \in subs' /\ Matches(filter[s], m)
    BY <1>1, <1>6 DEF Matching
  <2>2. Accepted(s)' = Append(Accepted(s), n + 1)
    <3>1. n + 1 \in Id
      BY <1>2 DEF Id
    <3>2. written[s] \o held[s] \o Append(chan[s], n + 1) = Append(Accepted(s), n + 1)
      BY <3>1, AcceptedType, AppendToAccepted DEF Accepted
    <3>3. chan'[s] = Append(chan[s], n + 1)
      BY <1>1, <1>6
    <3>4. QED
      BY <1>1, <3>2, <3>3 DEF Accepted
  <2>3. Feed(s) = {i \in since[s] + 1 .. n : Matches(filter[s], published[i])}
    BY <2>1 DEF Feed
  <2>4. Feed(s)' = {i \in since[s] + 1 .. n + 1 : Matches(filter[s], published'[i])}
    BY <1>1, <1>2, <2>1 DEF Feed
  <2>5. since[s] <= n
    BY DEF Base, StreamsOK
  <2>6. Feed(s)' = Feed(s) \cup {n + 1}
    BY <1>2, <1>4, <2>1, <2>3, <2>4, <2>5
  <2>7. \A i \in Elements(Accepted(s)) : i < n + 1
    BY <1>2, <1>4, <1>5, <2>3
  <2>8. QED
    BY <1>2, <1>5, <2>2, <2>6, <2>7, AcceptedType, AppendGreater DEF Gapless, Id
<1>7. CASE s \notin Matching(m) \ full
  <2>1. Accepted(s)' = Accepted(s)
    BY <1>1, <1>7 DEF Accepted
  <2>2. Feed(s)' = Feed(s)
    <3> DEFINE last == IF s \in subs THEN n ELSE until[s]
               last2 == IF s \in subs' THEN n + 1 ELSE until'[s]
    <3>1. Feed(s) = {i \in since[s] + 1 .. last : Matches(filter[s], published[i])}
      BY DEF Feed
    <3>2. Feed(s)' = {i \in since[s] + 1 .. last2 : Matches(filter[s], published'[i])}
      BY <1>1, <1>2 DEF Feed
    <3>3. last \in Nat /\ last <= n
      BY <1>2, <1>4
    <3>4. \/ last2 = last
          \/ last = n /\ last2 = n + 1 /\ ~Matches(filter[s], m)
      BY <1>1, <1>7 DEF Matching
    <3>5. QED
      BY <1>2, <1>4, <3>1, <3>2, <3>3, <3>4
  <2>3. QED
    BY <1>3, <2>1, <2>2, GaplessKept
<1>8. QED
  BY <1>6, <1>7

LEMMA GaplessSubscribe ==
    ASSUME Base, GaplessFeed, NEW s \in Streams, NEW f \in Filters, Subscribe(s, f)
    PROVE  GaplessFeed'
<1>1. SUFFICES ASSUME NEW t \in Streams, pc'[t] # "new" PROVE Gapless(t)'
  BY GaplessNext
<1>2. CASE t = s
  <2>1. chan'[s] = <<>> /\ written'[s] = <<>> /\ held'[s] = <<>>
    BY DEF Subscribe, Base, StreamsOK
  <2>2. Accepted(s)' = <<>>
    BY <2>1 DEF Accepted
  <2>3. Feed(s)' = {}
    <3>1. Len(published) \in Nat
      BY LenProperties DEF Base, TypeOK
    <3>2. /\ since'[s] = Len(published) /\ until'[s] = Len(published)
          /\ published' = published
      BY DEF Subscribe, Base, TypeOK
    <3>3. QED
      BY <3>1, <3>2 DEF Feed
  <2>4. QED
    BY <1>2, <2>2, <2>3 DEF Gapless, Increasing, Elements
<1>3. CASE t # s
  <2>1. pc[t] # "new" /\ Accepted(t)' = Accepted(t)
    BY <1>1, <1>3 DEF Subscribe, Accepted, Base, TypeOK
  <2>2. Feed(t)' = Feed(t)
    <3>1. /\ t \in subs' <=> t \in subs
          /\ until'[t] = until[t] /\ since'[t] = since[t] /\ filter'[t] = filter[t]
          /\ published' = published
      BY <1>3 DEF Subscribe, Base, TypeOK
    <3>2. QED
      BY <3>1 DEF Feed
  <2>3. QED
    BY <2>1, <2>2, GaplessKept
<1>4. QED
  BY <1>2, <1>3

LEMMA GaplessServe ==
    ASSUME Base, GaplessFeed, NEW s \in Streams, Receive(s) \/ Ping(s) \/ Write(s)
    PROVE  GaplessFeed'
<1>1. SUFFICES ASSUME NEW t \in Streams, pc'[t] # "new" PROVE Gapless(t)'
  BY GaplessNext
<1>2. pc[t] # "new"
  BY <1>1 DEF Receive, Ping, Write, Base, TypeOK
<1>3. UNCHANGED <<published, subs, filter, since, until>>
  BY DEF Receive, Ping, Write, hubVars
<1>4. Feed(t)' = Feed(t)
  BY <1>3 DEF Feed
<1>5. Accepted(t)' = Accepted(t)
  <2>1. CASE t # s
    BY <2>1 DEF Receive, Ping, Write, Accepted, Base, TypeOK, hubVars
  <2>2. CASE t = s /\ Receive(s)
    <3>1. /\ held[s] = <<>> /\ chan[s] # <<>> /\ held'[s] = <<Head(chan[s])>>
          /\ chan'[s] = Tail(chan[s]) /\ written'[s] = written[s]
      BY <2>2 DEF Receive, Base, TypeOK, StreamsOK
    <3>2. written[s] \o <<Head(chan[s])>> \o Tail(chan[s]) = written[s] \o <<>> \o chan[s]
      BY <3>1, AcceptedType, TakeFromChannel
    <3>3. QED
      BY <2>2, <3>1, <3>2 DEF Accepted
  <2>3. CASE t = s /\ Write(s)
    <3>1. /\ held'[s] = <<>> /\ written'[s] = written[s] \o held[s] /\ chan'[s] = chan[s]
      BY <2>3 DEF Write, Base, TypeOK, hubVars
    <3>2. QED
      BY <2>3, <3>1, AcceptedType, ConcatEmptySeq, ConcatProperties DEF Accepted
  <2>4. CASE t = s /\ Ping(s)
    BY <2>4 DEF Ping, Accepted, hubVars
  <2>5. QED
    BY <2>1, <2>2, <2>3, <2>4
<1>6. QED
  BY <1>2, <1>4, <1>5, GaplessKept

LEMMA GaplessLeave ==
    ASSUME Base, GaplessFeed,
           \/ Close
           \/ \E s \in Streams : EndOfChannel(s) \/ WriteFails(s) \/ ContextDone(s)
    PROVE  GaplessFeed'
<1>1. SUFFICES ASSUME NEW t \in Streams, pc'[t] # "new" PROVE Gapless(t)'
  BY GaplessNext
<1>2. PICK gone \in SUBSET subs : Removes(gone)
  <2>1. CASE Close
    BY <2>1 DEF Close
  <2>2. ASSUME NEW s \in Streams, Returns(s)
        PROVE  \E gone \in SUBSET subs : Removes(gone)
    BY <2>2 DEF Returns, Cancel
  <2>3. QED
    BY <2>1, <2>2 DEF EndOfChannel, WriteFails, ContextDone
<1>3. /\ UNCHANGED <<published, filter, since, chan, written, held>>
      /\ pc[t] # "new"
  BY <1>1 DEF Close, EndOfChannel, WriteFails, ContextDone, Returns, streamVars, Base, TypeOK
<1>4. Feed(t)' = Feed(t)
  BY <1>2, <1>3, FeedKept
<1>5. Accepted(t)' = Accepted(t)
  BY <1>3 DEF Accepted
<1>6. QED
  BY <1>3, <1>4, <1>5, GaplessKept

LEMMA GaplessStep == Base /\ GaplessFeed /\ [Next]_vars => GaplessFeed'
<1> SUFFICES ASSUME Base, GaplessFeed, [Next]_vars PROVE GaplessFeed'
  OBVIOUS
<1>1. ASSUME NEW m \in Messages, Publish(m) PROVE GaplessFeed'
  BY <1>1, GaplessPublish
<1>2. ASSUME NEW s \in Streams, NEW f \in Filters, Subscribe(s, f) PROVE GaplessFeed'
  BY <1>2, GaplessSubscribe
<1>3. ASSUME NEW s \in Streams, Receive(s) \/ Ping(s) \/ Write(s) PROVE GaplessFeed'
  BY <1>3, GaplessServe
<1>4. ASSUME NEW s \in Streams, EndOfChannel(s) \/ WriteFails(s) \/ ContextDone(s)
      PROVE  GaplessFeed'
  BY <1>4, GaplessLeave
<1>5. CASE Close
  BY <1>5, GaplessLeave
<1>6. CASE UNCHANGED vars
  <2>1. ASSUME NEW s \in Streams, pc'[s] # "new" PROVE Gapless(s)'
    <3>1. pc[s] # "new" /\ Accepted(s)' = Accepted(s) /\ Feed(s)' = Feed(s)
      BY <1>6, <2>1 DEF Accepted, Feed, vars, hubVars, streamVars
    <3>2. QED
      BY <3>1, GaplessKept
  <2>2. QED
    BY <2>1, GaplessNext
<1>7. QED
  BY <1>1, <1>2, <1>3, <1>4, <1>5, <1>6 DEF Next, Serve

\* Every client is sent, in order and without a gap, what matched its filter
\* from its subscription to its removal, with any number of streams and any
\* buffer.
THEOREM FeedsHaveNoGaps == Spec => []GaplessFeed
<1>1. Init => GaplessFeed
  BY DEF Init, GaplessFeed
<1>2. QED
  BY <1>1, InitBase, BaseStep, GaplessStep, PTL DEF Spec
=============================================================================
