-------------------------- MODULE SessionPageProofs ---------------------------
(***************************************************************************)
(* Proofs about SessionPage.tla, for every bound on events and faults.     *)
(*                                                                         *)
(* The page is a sequence of modes: before the switch to the replay the    *)
(* feed and `seen' hold the same events, each once, all of them stored;    *)
(* after it nothing is left of the stream, and as long as the replay is    *)
(* not disturbed, there is one call for the log or one player, never both. *)
(* What the feed of startLive becomes is a recursive function of the       *)
(* events applied; what is proved about it goes by induction on their      *)
(* number (AfterAllFacts).                                                 *)
(***************************************************************************)
EXTENDS SessionPage, SequenceTheorems, FiniteSetTheorems, WellFoundedInduction, TLAPS

(* The inductive invariant. *)

Kinds == {"main", "backfill", "reread", "replay"}
Frame == [kind : {"open", "session", "activity"}, event : Events \cup {TheEnd}]
ACall == [n : Nat, kind : Kinds, answer : Answers]
Player == [log : Seq(Events), pos : Nat, playing : BOOLEAN, timers : Nat]

\* The stored events are numbered as they are stored.
Stored == 1..Len(log)

ServerTypes ==
    /\ status \in {"live", "ended"}
    /\ log \in Seq(Events) /\ Len(log) <= MaxEvents
    /\ \A i \in DOMAIN log : log[i] = i
    /\ toPublish \subseteq Stored \cup {TheEnd}

StreamTypes ==
    /\ conn \in {"none", "connecting", "open"}
    /\ frames \in Seq(Frame)
    /\ calls \subseteq ACall /\ IsFiniteSet(calls)
    /\ faults \in Nat
    /\ missed \subseteq Events \cup {TheEnd}
    /\ failed \subseteq Kinds

PageTypes ==
    /\ mode \in {"boot", "live", "loading", "replay", "error"}
    /\ session \in {"live", "ended"}
    /\ opened \in BOOLEAN /\ holding \in BOOLEAN
    /\ held \in Seq(Events) /\ seen \subseteq Events /\ feed \in Seq(Events)
    /\ players \in Seq(Player)
    /\ enabled \subseteq Controls /\ disturbed \in BOOLEAN

Types == ServerTypes /\ StreamTypes /\ PageTypes

\* A frame, an answer or what the page holds back tells what is stored.
OnlyStored ==
    /\ Range(held) \subseteq Stored /\ seen \subseteq Stored
    /\ \A i \in DOMAIN frames :
          /\ frames[i].kind = "activity" => frames[i].event \in Stored
          /\ frames[i].kind = "session" => status = "ended"
    /\ \A c \in calls :
          /\ Range(c.answer.events) \subseteq Stored
          /\ c.answer.status = "ended" => status = "ended"
    /\ TheEnd \in toPublish => status = "ended"

\* Calls of one kind differ by their number, and each belongs to a mode.
CallsOK ==
    /\ \A c, d \in calls : c.kind = d.kind /\ c.n = d.n => c = d
    /\ \A c \in calls : c.kind = "main" => c.n = 0
    /\ mode = "boot" => \A c \in calls : c.kind = "main"
    /\ mode # "boot" => \A c \in calls : c.kind # "main"
    /\ mode \in {"live", "error"} => \A c \in calls : c.kind # "replay"

\* Before the page goes live, and in the replay, it has no stream.
ModesOK ==
    /\ mode \in {"boot", "error"} => conn = "none"
    /\ conn = "none" => frames = <<>>
    /\ mode = "boot" => feed = <<>> /\ seen = {}
    /\ mode \in {"boot", "live", "error"} => players = <<>>

\* The feed of a live page has what startLive has seen, once.
LiveFeedOK ==
    mode = "live" => HasNoDuplicates(feed) /\ Range(feed) = seen

\* A player has a timer when it plays, and only when an event is left for it.
PlayerOK(p) ==
    /\ p.log # <<>>
    /\ p.timers = IF p.playing THEN 1 ELSE 0
    /\ p.pos <= Len(p.log) /\ (p.playing => p.pos < Len(p.log))

\* An undisturbed replay is waiting for its log or has its one player.
PlayersOK ==
    /\ \A i \in DOMAIN players : PlayerOK(players[i])
    /\ players = <<>> => enabled = {}
    /\ ~disturbed =>
          /\ \A c, d \in calls : c.kind = "replay" /\ d.kind = "replay" => c = d
          /\ mode = "replay" => \A c \in calls : c.kind # "replay"
          /\ mode = "loading" => players = <<>>
          /\ players # <<>> => Len(players) = 1 /\ feed = Rows(Latest.log, Latest.pos)

Inv ==
    /\ Types /\ OnlyStored /\ CallsOK /\ ModesOK /\ LiveFeedOK /\ PlayersOK
    /\ ReplayOnlyAfterEnd /\ LiveFeedComplete

-----------------------------------------------------------------------------
(* Induction, from the well-foundedness of < on the naturals. *)

LessThan == {p \in Nat \X Nat : p[1] < p[2]}

LEMMA SetInduction ==
    ASSUME NEW S, 0 \in S, \A n \in Nat : n \in S => n + 1 \in S
    PROVE  Nat \subseteq S
<1>1. IsWellFoundedOn(LessThan, Nat)
  BY NatLessThanWellFounded, Zenon DEF OpToRel, LessThan
<1>2. SUFFICES ASSUME Nat \ S # {} PROVE FALSE
  OBVIOUS
<1>3. PICK n \in Nat \ S : \A m \in Nat \ S : ~(<<m, n>> \in LessThan)
  <2>1. Nat \ S \subseteq Nat
    OBVIOUS
  <2>2. QED
    BY <1>1, <1>2, <2>1, WFMin, Zenon
<1>4. \A m \in Nat : m < n => m \in S
  BY <1>3 DEF LessThan
<1>5. n \in Nat /\ n \notin S
  BY <1>3
<1>6. n # 0
  BY <1>5
<1>7. n - 1 \in Nat /\ n - 1 < n /\ (n - 1) + 1 = n
  BY <1>5, <1>6
<1>8. QED
  BY <1>4, <1>5, <1>7

-----------------------------------------------------------------------------
(* What applying a sequence of events does to the feed. *)

Page == [feed : Seq(Events), seen : SUBSET Events]

\* f is what the page is after each of the first n events.
IsRun(f, n, events, page) ==
    f = [i \in 0..n |-> IF i = 0 THEN page ELSE Applied(f[i - 1], events[i])]

LEMMA RunExists ==
    ASSUME NEW events, NEW page, NEW n \in Nat
    PROVE  \E f : IsRun(f, n, events, page)
<1> DEFINE S == {k \in Nat : \E f : IsRun(f, k, events, page)}
<1>1. 0 \in S
  <2> DEFINE f == [i \in 0..0 |-> page]
  <2>1. IsRun(f, 0, events, page)
    BY DEF IsRun
  <2>2. QED
    BY <2>1
<1>2. \A k \in Nat : k \in S => k + 1 \in S
  <2> SUFFICES ASSUME NEW k \in Nat, k \in S PROVE k + 1 \in S
    OBVIOUS
  <2>1. PICK f : IsRun(f, k, events, page)
    OBVIOUS
  <2> DEFINE g == [i \in 0..k + 1 |-> IF i <= k THEN f[i] ELSE Applied(f[k], events[k + 1])]
  <2>2. \A i \in 0..k : g[i] = f[i]
    OBVIOUS
  <2>3. \A i \in 0..k + 1 : g[i] = IF i = 0 THEN page ELSE Applied(g[i - 1], events[i])
    <3> SUFFICES ASSUME NEW i \in 0..k + 1
                 PROVE  g[i] = IF i = 0 THEN page ELSE Applied(g[i - 1], events[i])
      OBVIOUS
    <3>1. CASE i \in 0..k
      <4>1. f[i] = IF i = 0 THEN page ELSE Applied(f[i - 1], events[i])
        BY <2>1, <3>1 DEF IsRun
      <4>2. i # 0 => g[i - 1] = f[i - 1]
        BY <3>1
      <4>3. g[i] = f[i]
        BY <2>2, <3>1
      <4> HIDE DEF g
      <4>4. QED
        BY <4>1, <4>2, <4>3
    <3>2. CASE i = k + 1
      <4>1. g[i] = Applied(f[k], events[k + 1]) /\ i # 0 /\ i - 1 = k
        BY <3>2
      <4>2. g[k] = f[k]
        BY <2>2
      <4> HIDE DEF g
      <4>3. QED
        BY <3>2, <4>1, <4>2
    <3>3. QED
      BY <3>1, <3>2
  <2>4. g = [i \in 0..k + 1 |-> g[i]]
    OBVIOUS
  <2> HIDE DEF g
  <2>5. IsRun(g, k + 1, events, page)
    BY <2>3, <2>4 DEF IsRun
  <2>6. QED
    BY <2>5
<1> HIDE DEF S
<1>3. Nat \subseteq S
  BY <1>1, <1>2, SetInduction
<1>4. QED
  BY <1>3 DEF S

LEMMA AfterAllIsRun ==
    ASSUME NEW events \in Seq(Events), NEW page
    PROVE  \E f : IsRun(f, Len(events), events, page) /\ AfterAll(events, page) = f[Len(events)]
<1>1. \E f : f = [n \in 0..Len(events) |->
                    IF n = 0 THEN page ELSE Applied(f[n - 1], events[n])]
  <2>1. Len(events) \in Nat
    OBVIOUS
  <2>2. PICK f : IsRun(f, Len(events), events, page)
    BY <2>1, RunExists
  <2>3. QED
    BY <2>2, Zenon DEF IsRun
<1> DEFINE a == CHOOSE f : f = [n \in 0..Len(events) |->
                    IF n = 0 THEN page ELSE Applied(f[n - 1], events[n])]
<1>2. IsRun(a, Len(events), events, page)
  BY <1>1, Zenon DEF IsRun
<1>3. AfterAll(events, page) = a[Len(events)]
  BY DEF AfterAll
<1>4. QED
  BY <1>2, <1>3

\* The feed has the events that were seen, each of them once.
Clean(page) == HasNoDuplicates(page.feed) /\ Range(page.feed) = page.seen

LEMMA AppendedOnce ==
    ASSUME NEW T, NEW s \in Seq(T), NEW e \in T
    PROVE  /\ Append(s, e) \in Seq(T) /\ Range(Append(s, e)) = Range(s) \cup {e}
           /\ HasNoDuplicates(s) /\ e \notin Range(s) => HasNoDuplicates(Append(s, e))
<1>1. /\ Append(s, e) \in Seq(T) /\ Len(Append(s, e)) = Len(s) + 1 /\ Len(s) \in Nat
      /\ DOMAIN s = 1..Len(s) /\ DOMAIN Append(s, e) = 1..Len(s) + 1
      /\ \A i \in 1..Len(s) : Append(s, e)[i] = s[i]
      /\ Append(s, e)[Len(s) + 1] = e
  OBVIOUS
<1> DEFINE t == Append(s, e)
<1>2. Range(t) = Range(s) \cup {e}
  <2>1. \A i \in DOMAIN t : i \in DOMAIN s \/ i = Len(s) + 1
    BY <1>1
  <2>2. Len(s) + 1 \in DOMAIN t /\ \A i \in DOMAIN s : i \in DOMAIN t
    BY <1>1
  <2>3. \A i \in DOMAIN s : t[i] = s[i]
    BY <1>1
  <2>4. t[Len(s) + 1] = e
    BY <1>1
  <2> HIDE DEF t
  <2>5. QED
    BY <2>1, <2>2, <2>3, <2>4 DEF Range
<1>3. ASSUME HasNoDuplicates(s), e \notin Range(s) PROVE HasNoDuplicates(t)
  <2> SUFFICES ASSUME NEW i \in DOMAIN t, NEW j \in DOMAIN t, t[i] = t[j] PROVE i = j
    BY DEF HasNoDuplicates
  <2>1. \A k \in DOMAIN t : (k \in DOMAIN s /\ t[k] = s[k] /\ t[k] \in Range(s))
                              \/ (k = Len(s) + 1 /\ t[k] = e)
    BY <1>1 DEF Range
  <2> HIDE DEF t
  <2>2. QED
    BY <1>3, <2>1 DEF HasNoDuplicates
<1>4. QED
  BY <1>1, <1>2, <1>3

LEMMA AppliedFacts ==
    ASSUME NEW page \in Page, NEW e \in Events
    PROVE  /\ Applied(page, e) \in Page
           /\ Applied(page, e).seen = page.seen \cup {e}
           /\ Clean(page) => Clean(Applied(page, e))
<1>1. page.feed \in Seq(Events) /\ page.seen \subseteq Events
  BY DEF Page
<1>2. CASE e \in page.seen
  BY <1>2 DEF Applied
<1>3. CASE e \notin page.seen
  <2> DEFINE f == Append(page.feed, e)
             t == page.seen \cup {e}
  <2>1. /\ f \in Seq(Events) /\ Range(f) = Range(page.feed) \cup {e}
        /\ HasNoDuplicates(page.feed) /\ e \notin Range(page.feed) => HasNoDuplicates(f)
    BY <1>1, AppendedOnce
  <2>2. Applied(page, e) = [feed |-> f, seen |-> t]
    BY <1>3 DEF Applied
  <2>3. t \subseteq Events
    BY <1>1
  <2>4. Clean(page) => HasNoDuplicates(f) /\ Range(f) = t
    BY <1>3, <2>1 DEF Clean
  <2>5. t = page.seen \cup {e}
    OBVIOUS
  <2> HIDE DEF f, t
  <2>6. [feed |-> f, seen |-> t] \in Page
    BY <2>1, <2>3 DEF Page
  <2>7. QED
    BY <2>2, <2>4, <2>5, <2>6 DEF Clean
<1>4. QED
  BY <1>2, <1>3

LEMMA AfterAllFacts ==
    ASSUME NEW page \in Page, NEW events \in Seq(Events)
    PROVE  /\ AfterAll(events, page) \in Page
           /\ AfterAll(events, page).seen = page.seen \cup Range(events)
           /\ Clean(page) => Clean(AfterAll(events, page))
<1>1. PICK f : IsRun(f, Len(events), events, page) /\ AfterAll(events, page) = f[Len(events)]
  BY AfterAllIsRun
<1> DEFINE Good(k) == /\ f[k] \in Page
                      /\ f[k].seen = page.seen \cup {events[j] : j \in 1..k}
                      /\ Clean(page) => Clean(f[k])
           S == {k \in Nat : k <= Len(events) => Good(k)}
<1>2. Len(events) \in Nat /\ DOMAIN events = 1..Len(events)
  OBVIOUS
<1>3. f[0] = page
  BY <1>1, <1>2 DEF IsRun
<1>4. 0 \in S
  BY <1>3
<1>5. \A k \in Nat : k \in S => k + 1 \in S
  <2> HIDE DEF Good
  <2> SUFFICES ASSUME NEW k \in Nat, k \in S, k + 1 <= Len(events) PROVE Good(k + 1)
    OBVIOUS
  <2> USE DEF Good
  <2>1. Good(k) /\ k + 1 \in 1..Len(events) /\ events[k + 1] \in Events
    BY <1>2
  <2>2. f[k + 1] = Applied(f[k], events[k + 1])
    <3>1. k + 1 \in 0..Len(events) /\ k + 1 # 0 /\ (k + 1) - 1 = k
      BY <2>1
    <3>2. QED
      BY <1>1, <3>1 DEF IsRun
  <2>3. /\ f[k + 1] \in Page
        /\ f[k + 1].seen = f[k].seen \cup {events[k + 1]}
        /\ Clean(f[k]) => Clean(f[k + 1])
    BY <2>1, <2>2, AppliedFacts
  <2>4. {events[j] : j \in 1..k + 1} = {events[j] : j \in 1..k} \cup {events[k + 1]}
    <3>1. 1..k + 1 = 1..k \cup {k + 1}
      OBVIOUS
    <3>2. QED
      BY <3>1
  <2>5. QED
    BY <2>1, <2>3, <2>4
<1> HIDE DEF S
<1>6. Nat \subseteq S
  BY <1>4, <1>5, SetInduction
<1>7. Good(Len(events))
  BY <1>2, <1>6 DEF S
<1>8. Range(events) = {events[j] : j \in 1..Len(events)}
  BY <1>2 DEF Range
<1>9. QED
  BY <1>1, <1>7, <1>8

LEMMA RangeOfConcat ==
    ASSUME NEW s \in Seq(Events), NEW t \in Seq(Events)
    PROVE  s \o t \in Seq(Events) /\ Range(s \o t) = Range(s) \cup Range(t)
<1> DEFINE u == s \o t
<1>1. /\ u \in Seq(Events) /\ DOMAIN s = 1..Len(s) /\ DOMAIN t = 1..Len(t)
      /\ Len(s) \in Nat /\ Len(t) \in Nat /\ DOMAIN u = 1..Len(s) + Len(t)
      /\ \A i \in 1..Len(s) : u[i] = s[i]
      /\ \A i \in 1..Len(t) : u[Len(s) + i] = t[i]
  OBVIOUS
<1> HIDE DEF u
<1>2. \A i \in DOMAIN u : u[i] \in Range(s) \cup Range(t)
  <2> SUFFICES ASSUME NEW i \in DOMAIN u PROVE u[i] \in Range(s) \cup Range(t)
    OBVIOUS
  <2>1. CASE i <= Len(s)
    BY <1>1, <2>1 DEF Range
  <2>2. CASE i > Len(s)
    <3>1. i - Len(s) \in 1..Len(t) /\ i = Len(s) + (i - Len(s))
      BY <1>1, <2>2
    <3>2. u[i] = t[i - Len(s)]
      BY <1>1, <3>1
    <3>3. QED
      BY <1>1, <3>1, <3>2 DEF Range
  <2>3. QED
    BY <1>1, <2>1, <2>2
<1>3. Range(s) \subseteq Range(u)
  <2>1. \A i \in DOMAIN s : i \in DOMAIN u /\ u[i] = s[i]
    BY <1>1
  <2>2. QED
    BY <2>1 DEF Range
<1>4. Range(t) \subseteq Range(u)
  <2>1. \A i \in DOMAIN t : Len(s) + i \in DOMAIN u /\ u[Len(s) + i] = t[i]
    BY <1>1
  <2>2. QED
    BY <2>1 DEF Range
<1>5. Range(u) \subseteq Range(s) \cup Range(t)
  BY <1>2 DEF Range
<1>6. QED
  BY <1>1, <1>3, <1>4, <1>5 DEF u

-----------------------------------------------------------------------------
(* Calls and frames. *)

LEMMA WaitingFacts ==
    Waiting \in Answers /\ Waiting.events = <<>> /\ Waiting.status = "live"
      /\ Waiting.state = "waiting"
<1>1. <<>> \in Seq(Events)
  OBVIOUS
<1>2. QED
  BY <1>1 DEF Waiting, Answers

LEMMA CallFields ==
    ASSUME NEW c \in ACall
    PROVE  /\ c.n \in Nat /\ c.kind \in Kinds /\ c.answer \in Answers
           /\ c.answer.events \in Seq(Events)
           /\ c.answer.state \in {"waiting", "ok", "failed"}
           /\ c.answer.status \in {"live", "ended"}
<1>1. c.n \in Nat /\ c.kind \in Kinds /\ c.answer \in Answers
  BY DEF ACall
<1>2. QED
  BY <1>1 DEF Answers

\* A number is left for another call of the kind.
LEMMA NumberLeft ==
    ASSUME IsFiniteSet(calls), NEW kind
    PROVE  \E n \in 0..Cardinality(calls) : \A c \in calls : c.kind = kind => c.n # n
<1> DEFINE N == 0..Cardinality(calls)
<1>1. SUFFICES ASSUME \A n \in N : \E c \in calls : c.kind = kind /\ c.n = n
               PROVE  FALSE
  OBVIOUS
<1> DEFINE f == [n \in N |-> CHOOSE c \in calls : c.kind = kind /\ c.n = n]
<1>2. \A n \in N : f[n] \in calls /\ f[n].n = n
  BY <1>1
<1>3. f \in [N -> calls]
  BY <1>2
<1>4. Cardinality(calls) \in Nat
  BY FS_CardinalityType
<1>5. IsFiniteSet(N) /\ Cardinality(N) = Cardinality(calls) + 1
  <2>1. 0 \in Int /\ Cardinality(calls) \in Int /\ ~(0 > Cardinality(calls))
    BY <1>4
  <2>2. IsFiniteSet(N) /\ Cardinality(N) = Cardinality(calls) - 0 + 1
    BY <2>1, FS_Interval
  <2>3. QED
    BY <1>4, <2>2
<1>6. Cardinality(calls) < Cardinality(N)
  BY <1>4, <1>5
<1> HIDE DEF f, N
<1>7. PICK x, y \in N : x # y /\ f[x] = f[y]
  BY <1>3, <1>5, <1>6, FS_PigeonHole
<1>8. QED
  BY <1>2, <1>7

LEMMA NewCall ==
    ASSUME IsFiniteSet(calls), NEW kind \in Kinds
    PROVE  /\ Call(kind) \in ACall
           /\ Call(kind).kind = kind /\ Call(kind).answer = Waiting
           /\ \A c \in calls : c.kind = kind => c.n # Call(kind).n
<1> DEFINE num == CHOOSE n \in 0..Cardinality(calls) :
                    \A c \in calls : c.kind = kind => c.n # n
<1>1. num \in 0..Cardinality(calls) /\ \A c \in calls : c.kind = kind => c.n # num
  BY NumberLeft
<1>2. num \in Nat
  BY <1>1, FS_CardinalityType
<1>3. Call(kind) = [n |-> num, kind |-> kind, answer |-> Waiting]
  BY DEF Call
<1> HIDE DEF num
<1>4. QED
  BY <1>1, <1>2, <1>3, WaitingFacts DEF ACall

\* What the calls in flight are after one has been made, or answered.
LEMMA AskedFacts ==
    ASSUME calls \subseteq ACall, IsFiniteSet(calls), NEW kind \in Kinds, NEW done, Asks(kind, done),
           \A c, d \in calls : c.kind = d.kind /\ c.n = d.n => c = d
    PROVE  /\ calls' \subseteq ACall /\ IsFiniteSet(calls')
           /\ \A c, d \in calls' : c.kind = d.kind /\ c.n = d.n => c = d
           /\ \E new \in ACall : /\ calls' = (calls \ done) \cup {new} /\ new \notin calls
                                 /\ new.kind = kind /\ new.answer = Waiting
<1> DEFINE new == Call(kind)
<1>1. /\ new \in ACall /\ new.kind = kind /\ new.answer = Waiting
      /\ \A c \in calls : c.kind = kind => c.n # new.n
  BY NewCall
<1>2. calls' = (calls \ done) \cup {new}
  BY DEF Asks
<1> HIDE DEF new
<1>3. IsFiniteSet(calls \ done)
  BY FS_Difference
<1>4. IsFiniteSet(calls')
  BY <1>2, <1>3, FS_AddElement
<1>5. \A c, d \in calls' : c.kind = d.kind /\ c.n = d.n => c = d
  BY <1>1, <1>2
<1>6. new \notin calls
  BY <1>1
<1>7. calls' \subseteq ACall
  BY <1>1, <1>2
<1>8. QED
  BY <1>1, <1>2, <1>4, <1>5, <1>6, <1>7

LEMMA ReplacedFacts ==
    ASSUME calls \subseteq ACall, IsFiniteSet(calls), NEW c \in calls, NEW answer \in Answers,
           calls' = (calls \ {c}) \cup {[c EXCEPT !.answer = answer]},
           \A d, e \in calls : d.kind = e.kind /\ d.n = e.n => d = e
    PROVE  /\ calls' \subseteq ACall /\ IsFiniteSet(calls')
           /\ \A d, e \in calls' : d.kind = e.kind /\ d.n = e.n => d = e
           /\ \E new \in ACall : /\ calls' = (calls \ {c}) \cup {new}
                                 /\ new.kind = c.kind /\ new.n = c.n /\ new.answer = answer
<1> DEFINE new == [c EXCEPT !.answer = answer]
<1>1. new \in ACall /\ new.kind = c.kind /\ new.n = c.n /\ new.answer = answer
  BY DEF ACall
<1>2. calls' = (calls \ {c}) \cup {new}
  OBVIOUS
<1> HIDE DEF new
<1>3. IsFiniteSet(calls')
  <2>1. IsFiniteSet(calls \ {c})
    BY FS_RemoveElement
  <2>2. QED
    BY <1>2, <2>1, FS_AddElement
<1>4. \A d, e \in calls' : d.kind = e.kind /\ d.n = e.n => d = e
  BY <1>1, <1>2
<1>5. QED
  BY <1>1, <1>2, <1>3, <1>4

LEMMA UsedFacts ==
    ASSUME calls \subseteq ACall, IsFiniteSet(calls), NEW c, calls' = calls \ {c}
    PROVE  calls' \subseteq ACall /\ IsFiniteSet(calls')
BY FS_RemoveElement

-----------------------------------------------------------------------------
(* The steps of the server. *)

LEMMA InvFacts ==
    ASSUME Inv
    PROVE  /\ ServerTypes /\ StreamTypes /\ PageTypes
           /\ OnlyStored /\ CallsOK /\ ModesOK /\ LiveFeedOK /\ PlayersOK
           /\ ReplayOnlyAfterEnd /\ LiveFeedComplete
BY DEF Inv, Types

LEMMA NumberedRange ==
    ASSUME NEW l \in Seq(Events), \A i \in DOMAIN l : l[i] = i
    PROVE  Range(l) = 1..Len(l)
BY DEF Range

LEMMA LogFacts ==
    ASSUME ServerTypes
    PROVE  /\ Len(log) \in Nat /\ Range(log) = Stored /\ Stored \subseteq Events
           /\ TheEnd \notin Events /\ TheEnd \notin Stored
<1>1. Len(log) \in Nat /\ DOMAIN log = 1..Len(log) /\ Len(log) <= MaxEvents
  BY DEF ServerTypes
<1>2. \A i \in 1..Len(log) : log[i] = i
  BY <1>1 DEF ServerTypes
<1>3. Range(log) = Stored
  BY <1>1, <1>2 DEF Range, Stored
<1>4. Stored \subseteq Events
  BY <1>1, PageAssumption DEF Stored, Events
<1>5. QED
  BY <1>1, <1>3, <1>4 DEF Events, TheEnd

\* The frames have event e.
InFrames(e) == \E i \in DOMAIN frames : frames[i] = ActivityFrame(e)

\* The backfill is to be answered, or has e.
InBackfill(e) ==
    \E c \in calls :
       /\ c.kind = "backfill"
       /\ c.answer = Waiting \/ e \in Range(c.answer.events)

Covered(e) ==
    \/ e \in Range(feed) \/ e \in Range(held) \/ e \in toPublish \/ e \in missed
    \/ InFrames(e) \/ InBackfill(e)

LEMMA CompleteFacts ==
    LiveFeedComplete <=> (mode = "live" /\ "backfill" \notin failed =>
                              \A e \in Range(log) : Covered(e))
BY DEF LiveFeedComplete, Covered, InFrames, InBackfill

\* A commit is on its way to the stream, or counts as missed.
LEMMA CommitsFacts ==
    ASSUME StreamTypes, NEW m \in Events \cup {TheEnd}, Commits(m)
    PROVE  /\ toPublish \subseteq toPublish' /\ toPublish' \subseteq toPublish \cup {m}
           /\ missed \subseteq missed' /\ missed' \subseteq Events \cup {TheEnd}
           /\ faults' \in Nat
           /\ m \in toPublish' \/ m \in missed'
BY DEF Commits, StreamTypes

LEMMA StoreEventKeepsInv ==
    ASSUME Inv, StoreEvent
    PROVE  Inv'
<1> USE InvFacts
<1> DEFINE e == Len(log) + 1
<1>1. /\ Len(log) < MaxEvents /\ log' = Append(log, e) /\ Commits(e)
      /\ UNCHANGED <<status, conn, frames, mode, session, opened, holding, held, seen, feed,
                     players, enabled, disturbed, calls, failed>>
  BY DEF StoreEvent, pageVars, playback
<1>2. /\ Len(log) \in Nat /\ DOMAIN log = 1..Len(log) /\ e \in Nat /\ e \in Events
      /\ log \in Seq(Events) /\ e <= MaxEvents
  BY <1>1, PageAssumption DEF ServerTypes, Events
<1>c. /\ toPublish \subseteq toPublish' /\ toPublish' \subseteq toPublish \cup {e}
      /\ missed \subseteq missed' /\ missed' \subseteq Events \cup {TheEnd}
      /\ faults' \in Nat
      /\ e \in toPublish' \/ e \in missed'
  BY <1>1, <1>2, CommitsFacts
<1>3. /\ log' \in Seq(Events) /\ Len(log') = e /\ DOMAIN log' = 1..e
      /\ \A i \in 1..Len(log) : log'[i] = log[i]
      /\ log'[e] = e
  BY <1>1, <1>2
<1>4. Stored' = Stored \cup {e}
  <2>1. 1..e = 1..Len(log) \cup {e}
    BY <1>2
  <2> HIDE DEF e
  <2>2. Stored' = 1..e
    BY <1>3 DEF Stored
  <2>3. QED
    BY <2>1, <2>2 DEF Stored
<1>5. ServerTypes'
  <2>1. \A i \in DOMAIN log' : i \in DOMAIN log \/ i = e
    BY <1>2, <1>3
  <2>2. \A i \in DOMAIN log' : log'[i] = i
    BY <1>2, <1>3, <2>1 DEF ServerTypes
  <2> HIDE DEF e
  <2>3. QED
    BY <1>1, <1>2, <1>c, <1>3, <1>4, <2>2 DEF ServerTypes
<1>6. Range(log') = Range(log) \cup {e}
  <2>1. Range(log) = 1..Len(log) /\ Range(log') = 1..Len(log')
    BY <1>5, NumberedRange DEF ServerTypes
  <2>2. QED
    BY <1>1, <1>4, <2>1 DEF Stored
<1> HIDE DEF e
<1>7. StreamTypes' /\ PageTypes'
  BY <1>1, <1>c DEF StreamTypes, PageTypes
<1>8. OnlyStored'
  <2>1. e # TheEnd
    BY <1>2 DEF Events, TheEnd
  <2>2. QED
    BY <1>1, <1>c, <1>4, <2>1 DEF OnlyStored
<1>9. CallsOK' /\ ModesOK' /\ LiveFeedOK' /\ ReplayOnlyAfterEnd'
  BY <1>1 DEF CallsOK, ModesOK, LiveFeedOK, ReplayOnlyAfterEnd
<1>10. PlayersOK'
  BY <1>1 DEF PlayersOK, Latest
<1>11. LiveFeedComplete'
  BY <1>1, <1>c, <1>6, CompleteFacts DEF LiveFeedComplete
<1>12. QED
  BY <1>5, <1>7, <1>8, <1>9, <1>10, <1>11 DEF Inv, Types

LEMMA EndSessionKeepsInv ==
    ASSUME Inv, EndSession
    PROVE  Inv'
<1> USE InvFacts
<1>1. /\ status = "live" /\ status' = "ended" /\ Commits(TheEnd)
      /\ UNCHANGED <<log, conn, frames, mode, session, opened, holding, held, seen, feed,
                     players, enabled, disturbed, calls, failed>>
  BY DEF EndSession, pageVars, playback
<1>c. /\ toPublish \subseteq toPublish' /\ toPublish' \subseteq toPublish \cup {TheEnd}
      /\ missed \subseteq missed' /\ missed' \subseteq Events \cup {TheEnd}
      /\ faults' \in Nat
  BY <1>1, CommitsFacts
<1>2. Stored' = Stored
  BY <1>1 DEF Stored
<1>3. ServerTypes'
  BY <1>1, <1>c, <1>2 DEF ServerTypes
<1>4. StreamTypes' /\ PageTypes'
  BY <1>1, <1>c DEF StreamTypes, PageTypes
<1>5. OnlyStored'
  BY <1>1, <1>2 DEF OnlyStored
<1>6. CallsOK' /\ ModesOK' /\ LiveFeedOK' /\ ReplayOnlyAfterEnd'
  BY <1>1 DEF CallsOK, ModesOK, LiveFeedOK, ReplayOnlyAfterEnd
<1>7. PlayersOK'
  BY <1>1 DEF PlayersOK, Latest
<1>8. LiveFeedComplete'
  BY <1>1, <1>c DEF LiveFeedComplete
<1>9. QED
  BY <1>3, <1>4, <1>5, <1>6, <1>7, <1>8 DEF Inv, Types

LEMMA FrameFacts ==
    /\ OpenFrame \in Frame /\ EndFrame \in Frame
    /\ \A e \in Events : ActivityFrame(e) \in Frame /\ ActivityFrame(e).kind = "activity"
                           /\ ActivityFrame(e).event = e
    /\ OpenFrame.kind = "open" /\ EndFrame.kind = "session"
    /\ \A f \in Frame : f.event \in Events \cup {TheEnd}
    /\ \A f \in Frame : f.kind = "activity" => f = ActivityFrame(f.event)
<1>1. \A f \in Frame : f = [kind |-> f.kind, event |-> f.event]
  BY DEF Frame
<1>2. \A f \in Frame : f.kind = "activity" => f = ActivityFrame(f.event)
  BY <1>1 DEF ActivityFrame
<1>3. QED
  BY <1>2 DEF Frame, OpenFrame, EndFrame, ActivityFrame

LEMMA AppendFrame ==
    ASSUME frames \in Seq(Frame), NEW f \in Frame, frames' = Append(frames, f)
    PROVE  /\ frames' \in Seq(Frame)
           /\ \A i \in DOMAIN frames' :
                 frames'[i] = f \/ (i \in DOMAIN frames /\ frames'[i] = frames[i])
           /\ \A e : InFrames(e) \/ f = ActivityFrame(e) => InFrames(e)'
<1>1. /\ Len(frames) \in Nat /\ DOMAIN frames = 1..Len(frames)
      /\ frames' \in Seq(Frame) /\ DOMAIN frames' = 1..Len(frames) + 1
      /\ \A i \in 1..Len(frames) : frames'[i] = frames[i]
      /\ frames'[Len(frames) + 1] = f
  OBVIOUS
<1>2. \A i \in DOMAIN frames' : i \in DOMAIN frames \/ i = Len(frames) + 1
  BY <1>1
<1>3. Len(frames) + 1 \in DOMAIN frames' /\ \A i \in DOMAIN frames : i \in DOMAIN frames'
  BY <1>1
<1>4. \A e : InFrames(e) \/ f = ActivityFrame(e) => InFrames(e)'
  BY <1>1, <1>3 DEF InFrames
<1>5. QED
  BY <1>1, <1>2, <1>4

LEMMA PublishKeepsInv ==
    ASSUME Inv, NEW m \in toPublish, Publish(m)
    PROVE  Inv'
<1> USE InvFacts
<1> DEFINE f == IF m = TheEnd THEN EndFrame ELSE ActivityFrame(m)
<1>1. /\ toPublish' = toPublish \ {m}
      /\ IF conn = "open" THEN frames' = Append(frames, f) /\ missed' = missed
                          ELSE frames' = frames /\ missed' = missed \cup {m}
      /\ UNCHANGED <<status, log, conn, mode, session, opened, holding, held, seen, feed,
                     players, enabled, disturbed, calls, faults, failed>>
  BY DEF Publish, pageVars, playback
<1>2. /\ Stored' = Stored /\ Stored \subseteq Events
      /\ m \in Stored \cup {TheEnd} /\ m \in Events \cup {TheEnd} /\ TheEnd \notin Stored
  BY <1>1, LogFacts DEF Stored, ServerTypes
<1>3. /\ f \in Frame
      /\ f.kind = "activity" => f.event \in Stored
      /\ f.kind = "session" => status = "ended"
      /\ m # TheEnd => f = ActivityFrame(m)
  BY <1>2, FrameFacts DEF OnlyStored
<1>4. frames \in Seq(Frame)
  BY DEF StreamTypes
<1> HIDE DEF f
<1>5. /\ frames' \in Seq(Frame)
      /\ \A i \in DOMAIN frames' :
            frames'[i] = f \/ (i \in DOMAIN frames /\ frames'[i] = frames[i])
      /\ \A e : InFrames(e) => InFrames(e)'
      /\ m # TheEnd => InFrames(m)' \/ m \in missed'
      /\ missed \subseteq missed' /\ missed' \subseteq Events \cup {TheEnd}
      /\ conn # "open" => frames' = frames
  <2>1. CASE conn = "open"
    BY <1>1, <1>3, <1>4, <2>1, AppendFrame DEF StreamTypes
  <2>2. CASE conn # "open"
    <3>1. /\ frames' = frames /\ missed' = missed \cup {m}
      BY <1>1, <2>2
    <3>2. \A e : InFrames(e) => InFrames(e)'
      BY <3>1 DEF InFrames
    <3>3. QED
      BY <1>2, <1>4, <2>2, <3>1, <3>2 DEF StreamTypes
  <2>3. QED
    BY <2>1, <2>2
<1>6. ServerTypes'
  BY <1>1, <1>2 DEF ServerTypes
<1>7. StreamTypes' /\ PageTypes'
  BY <1>1, <1>5 DEF StreamTypes, PageTypes
<1>8. OnlyStored'
  BY <1>1, <1>2, <1>3, <1>5 DEF OnlyStored
<1>9. CallsOK' /\ ModesOK' /\ LiveFeedOK' /\ ReplayOnlyAfterEnd'
  BY <1>1, <1>5 DEF CallsOK, ModesOK, LiveFeedOK, ReplayOnlyAfterEnd
<1>10. PlayersOK'
  BY <1>1 DEF PlayersOK, Latest
<1>11. LiveFeedComplete'
  <2> SUFFICES ASSUME mode' = "live", "backfill" \notin failed', NEW e \in Range(log)'
               PROVE  Covered(e)'
    BY DEF LiveFeedComplete, Covered, InFrames, InBackfill
  <2>1. Covered(e) /\ e # TheEnd
    BY <1>1, <1>2, CompleteFacts, LogFacts
  <2>2. e \in toPublish => e \in toPublish' \/ e = m
    BY <1>1
  <2>3. QED
    BY <1>1, <1>5, <2>1, <2>2 DEF Covered, InBackfill
<1>12. QED
  BY <1>6, <1>7, <1>8, <1>9, <1>10, <1>11 DEF Inv, Types

\* An answer that tells what is stored, or a failure, arrives at the call.
LEMMA ReplacedKeepsInv ==
    ASSUME Inv, NEW c \in calls, NEW answer \in Answers,
           calls' = (calls \ {c}) \cup {[c EXCEPT !.answer = answer]},
           Range(answer.events) \subseteq Stored,
           answer.status = "ended" => status = "ended",
           UNCHANGED <<serverVars, conn, frames, pageVars>>,
           faults' \in Nat, missed' \subseteq Events \cup {TheEnd},
           failed \subseteq failed', failed' \subseteq Kinds,
           missed \subseteq missed' \/ (c.kind = "backfill" /\ Range(answer.events) = Stored),
           c.kind = "backfill" => "backfill" \in failed' \/ Range(answer.events) = Stored
    PROVE  Inv'
<1> USE InvFacts
<1>1. UNCHANGED <<status, log, toPublish, conn, frames, mode, session, opened, holding, held,
                  seen, feed, players, enabled, disturbed>>
  BY DEF serverVars, pageVars, playback
<1>2. /\ calls \subseteq ACall /\ IsFiniteSet(calls)
      /\ \A d, e \in calls : d.kind = e.kind /\ d.n = e.n => d = e
  BY DEF StreamTypes, CallsOK
<1>3. /\ calls' \subseteq ACall /\ IsFiniteSet(calls')
      /\ \A d, e \in calls' : d.kind = e.kind /\ d.n = e.n => d = e
  BY <1>2, ReplacedFacts
<1>4. PICK new \in ACall : /\ calls' = (calls \ {c}) \cup {new}
                           /\ new.kind = c.kind /\ new.n = c.n /\ new.answer = answer
  BY <1>2, ReplacedFacts
<1>5. Stored' = Stored
  BY <1>1 DEF Stored
<1>6. ServerTypes' /\ PageTypes'
  BY <1>1, <1>5 DEF ServerTypes, PageTypes
<1>7. StreamTypes'
  BY <1>1, <1>3 DEF StreamTypes
<1>8. OnlyStored'
  BY <1>1, <1>4, <1>5 DEF OnlyStored
<1>9. CallsOK'
  BY <1>1, <1>3, <1>4 DEF CallsOK
<1>10. ModesOK' /\ LiveFeedOK' /\ ReplayOnlyAfterEnd'
  BY <1>1 DEF ModesOK, LiveFeedOK, ReplayOnlyAfterEnd
<1>11. PlayersOK'
  <2>1. ~disturbed => \A d, e \in calls' : d.kind = "replay" /\ e.kind = "replay" => d = e
    BY <1>4 DEF PlayersOK
  <2>2. ~disturbed /\ mode = "replay" => \A d \in calls' : d.kind # "replay"
    BY <1>4 DEF PlayersOK
  <2>3. QED
    BY <1>1, <2>1, <2>2 DEF PlayersOK, Latest
<1>12. LiveFeedComplete'
  <2> SUFFICES ASSUME mode' = "live", "backfill" \notin failed', NEW e \in Range(log)'
               PROVE  Covered(e)'
    BY DEF LiveFeedComplete, Covered, InFrames, InBackfill
  <2>1. Covered(e) /\ e \in Stored
    BY <1>1, CompleteFacts, LogFacts
  <2>2. CASE c.kind = "backfill"
    <3>1. e \in Range(new.answer.events)
      BY <1>4, <2>1, <2>2
    <3>2. QED
      BY <1>4, <2>2, <3>1 DEF Covered, InBackfill
  <2>3. CASE c.kind # "backfill"
    <3>1. InBackfill(e) => InBackfill(e)'
      BY <1>4, <2>3 DEF InBackfill
    <3>2. InFrames(e) => InFrames(e)'
      BY <1>1 DEF InFrames
    <3>3. QED
      BY <1>1, <2>1, <2>3, <3>1, <3>2 DEF Covered
  <2>4. QED
    BY <2>2, <2>3
<1>13. QED
  BY <1>6, <1>7, <1>8, <1>9, <1>10, <1>11, <1>12 DEF Inv, Types

LEMMA AnswerKeepsInv ==
    ASSUME Inv, NEW c \in calls, Answer(c)
    PROVE  Inv'
<1> USE InvFacts
<1> DEFINE state == [state |-> "ok", status |-> status, events |-> <<>>]
           rows == [state |-> "ok", status |-> "live", events |-> log]
           value == IF c.kind \in {"main", "reread"} THEN state ELSE rows
<1>1. /\ calls' = (calls \ {c}) \cup {[c EXCEPT !.answer = value]}
      /\ missed' = IF c.kind = "backfill" THEN missed \cap {TheEnd} ELSE missed
      /\ UNCHANGED <<serverVars, conn, frames, pageVars, faults, failed>>
  BY DEF Answer
<1>2. <<>> \in Seq(Events) /\ log \in Seq(Events) /\ status \in {"live", "ended"}
  BY DEF ServerTypes
<1>3. state \in Answers /\ state.status = status /\ state.events = <<>>
  BY <1>2 DEF Answers
<1>4. rows \in Answers /\ rows.status = "live" /\ rows.events = log
  BY <1>2 DEF Answers
<1>5. Range(<<>>) = {} /\ Range(log) = Stored
  BY LogFacts DEF Range
<1> HIDE DEF state, rows
<1>6. /\ value \in Answers /\ Range(value.events) \subseteq Stored
      /\ value.status = "ended" => status = "ended"
      /\ c.kind = "backfill" => Range(value.events) = Stored
  BY <1>3, <1>4, <1>5
<1> HIDE DEF value
<1>7. /\ faults' \in Nat /\ missed' \subseteq Events \cup {TheEnd}
      /\ failed \subseteq failed' /\ failed' \subseteq Kinds
  BY <1>1 DEF StreamTypes
<1>8. UNCHANGED <<serverVars, conn, frames, pageVars>>
  BY <1>1
<1>9. missed \subseteq missed' \/ c.kind = "backfill"
  BY <1>1
<1>10. QED
  BY <1>1, <1>6, <1>7, <1>8, <1>9, ReplacedKeepsInv

LEMMA FailCallKeepsInv ==
    ASSUME Inv, NEW c \in calls, FailCall(c)
    PROVE  Inv'
<1> USE InvFacts
<1> DEFINE value == [Waiting EXCEPT !.state = "failed"]
<1>1. /\ faults' = faults + 1 /\ failed' = failed \cup {c.kind} /\ missed' = missed
      /\ calls' = (calls \ {c}) \cup {[c EXCEPT !.answer = value]}
      /\ UNCHANGED <<serverVars, conn, frames, pageVars>>
  BY DEF FailCall
<1>2. value \in Answers /\ value.events = <<>> /\ value.status = "live"
  BY WaitingFacts DEF Answers
<1>3. Range(<<>>) = {}
  BY DEF Range
<1> HIDE DEF value
<1>4. c.kind \in Kinds
  BY CallFields DEF StreamTypes
<1>5. /\ faults' \in Nat /\ missed' \subseteq Events \cup {TheEnd}
      /\ failed \subseteq failed' /\ failed' \subseteq Kinds
  BY <1>1, <1>4 DEF StreamTypes
<1>6. Range(value.events) \subseteq Stored /\ (value.status = "ended" => status = "ended")
  BY <1>2, <1>3
<1>7. missed \subseteq missed' /\ (c.kind = "backfill" => "backfill" \in failed')
  BY <1>1
<1>8. QED
  BY <1>1, <1>2, <1>5, <1>6, <1>7, ReplacedKeepsInv

LEMMA ConnectKeepsInv ==
    ASSUME Inv, Connect
    PROVE  Inv'
<1> USE InvFacts
<1>1. /\ conn = "connecting" /\ conn' = "open" /\ frames' = Append(frames, OpenFrame)
      /\ UNCHANGED <<status, log, toPublish, mode, session, opened, holding, held, seen, feed,
                     players, enabled, disturbed, calls, faults, missed, failed>>
  BY DEF Connect, serverVars, pageVars, playback
<1>2. frames \in Seq(Frame) /\ OpenFrame \in Frame /\ OpenFrame.kind = "open"
  BY FrameFacts DEF StreamTypes
<1>3. /\ frames' \in Seq(Frame)
      /\ \A i \in DOMAIN frames' :
            frames'[i] = OpenFrame \/ (i \in DOMAIN frames /\ frames'[i] = frames[i])
      /\ \A e : InFrames(e) => InFrames(e)'
  BY <1>1, <1>2, AppendFrame
<1>4. Stored' = Stored
  BY <1>1 DEF Stored
<1>5. ServerTypes' /\ PageTypes'
  BY <1>1, <1>4 DEF ServerTypes, PageTypes
<1>6. StreamTypes'
  BY <1>1, <1>3 DEF StreamTypes
<1>7. OnlyStored'
  BY <1>1, <1>2, <1>3, <1>4 DEF OnlyStored
<1>8. CallsOK' /\ ModesOK' /\ LiveFeedOK' /\ ReplayOnlyAfterEnd'
  BY <1>1 DEF CallsOK, ModesOK, LiveFeedOK, ReplayOnlyAfterEnd
<1>9. PlayersOK'
  BY <1>1 DEF PlayersOK, Latest
<1>10. LiveFeedComplete'
  <2> SUFFICES ASSUME mode' = "live", "backfill" \notin failed', NEW e \in Range(log)'
               PROVE  Covered(e)'
    BY DEF LiveFeedComplete, Covered, InFrames, InBackfill
  <2>1. Covered(e)
    BY <1>1, CompleteFacts
  <2>2. QED
    BY <1>1, <1>3, <2>1 DEF Covered, InBackfill
<1>11. QED
  BY <1>5, <1>6, <1>7, <1>8, <1>9, <1>10 DEF Inv, Types

LEMMA LoseConnectionKeepsInv ==
    ASSUME Inv, LoseConnection
    PROVE  Inv'
<1> USE InvFacts
<1>1. PICK k \in 0..Len(frames) :
          /\ frames' = SubSeq(frames, 1, k)
          /\ missed' = missed \cup {frames[i].event : i \in
                          {j \in k + 1 .. Len(frames) : frames[j].kind # "open"}}
  BY DEF LoseConnection
<1>2. /\ conn = "open" /\ conn' = "connecting" /\ faults' = faults + 1
      /\ UNCHANGED <<status, log, toPublish, mode, session, opened, holding, held, seen, feed,
                     players, enabled, disturbed, calls, failed>>
  BY DEF LoseConnection, serverVars, pageVars, playback
<1>3. /\ frames \in Seq(Frame) /\ Len(frames) \in Nat /\ DOMAIN frames = 1..Len(frames)
      /\ \A i \in DOMAIN frames : frames[i] \in Frame
  BY DEF StreamTypes
<1>4. /\ frames' \in Seq(Frame) /\ DOMAIN frames' = 1..k
      /\ \A i \in 1..k : i \in DOMAIN frames /\ frames'[i] = frames[i]
  <2>1. k \in Nat /\ k <= Len(frames)
    BY <1>3
  <2>2. \A i \in 1..k : i \in DOMAIN frames
    BY <1>3, <2>1
  <2>3. QED
    BY <1>1, <1>3, <2>1, <2>2
<1>5. missed \subseteq missed' /\ missed' \subseteq Events \cup {TheEnd}
  <2>1. missed \subseteq Events \cup {TheEnd}
    BY DEF StreamTypes
  <2>2. \A i \in k + 1 .. Len(frames) : i \in DOMAIN frames
    BY <1>3
  <2>3. \A i \in k + 1 .. Len(frames) : frames[i].event \in Events \cup {TheEnd}
    BY <1>3, <2>2, FrameFacts
  <2>4. QED
    BY <1>1, <2>1, <2>3
<1>6. \A e : InFrames(e) => InFrames(e)' \/ e \in missed'
  <2> SUFFICES ASSUME NEW e, NEW i \in DOMAIN frames, frames[i] = ActivityFrame(e)
               PROVE  InFrames(e)' \/ e \in missed'
    BY DEF InFrames
  <2>1. i \in 1..k \/ i \in k + 1 .. Len(frames)
    BY <1>3
  <2>2. CASE i \in 1..k
    BY <1>4, <2>2 DEF InFrames
  <2>3. CASE i \in k + 1 .. Len(frames)
    <3>1. frames[i].kind # "open" /\ frames[i].event = e
      BY DEF ActivityFrame
    <3>2. QED
      BY <1>1, <2>3, <3>1
  <2>4. QED
    BY <2>1, <2>2, <2>3
<1>7. Stored' = Stored
  BY <1>2 DEF Stored
<1>8. ServerTypes' /\ PageTypes'
  BY <1>2, <1>7 DEF ServerTypes, PageTypes
<1>9. StreamTypes'
  BY <1>2, <1>4, <1>5 DEF StreamTypes
<1>10. OnlyStored'
  BY <1>2, <1>4, <1>7 DEF OnlyStored
<1>11. CallsOK' /\ ModesOK' /\ LiveFeedOK' /\ ReplayOnlyAfterEnd'
  BY <1>2 DEF CallsOK, ModesOK, LiveFeedOK, ReplayOnlyAfterEnd
<1>12. PlayersOK'
  BY <1>2 DEF PlayersOK, Latest
<1>13. LiveFeedComplete'
  <2> SUFFICES ASSUME mode' = "live", "backfill" \notin failed', NEW e \in Range(log)'
               PROVE  Covered(e)'
    BY DEF LiveFeedComplete, Covered, InFrames, InBackfill
  <2>1. Covered(e)
    BY <1>2, CompleteFacts
  <2>2. QED
    BY <1>2, <1>5, <1>6, <2>1 DEF Covered, InBackfill
<1>14. QED
  BY <1>8, <1>9, <1>10, <1>11, <1>12, <1>13 DEF Inv, Types

-----------------------------------------------------------------------------
(* The callbacks of the page. *)

\* What holds of a page before the step, by name.
LEMMA PageFacts ==
    ASSUME Inv
    PROVE  /\ [feed |-> feed, seen |-> seen] \in Page
           /\ mode = "live" => Clean([feed |-> feed, seen |-> seen])
           /\ Stored \subseteq Events /\ Range(log) = Stored
<1> USE InvFacts
<1>1. feed \in Seq(Events) /\ seen \subseteq Events
  BY DEF PageTypes
<1>2. QED
  BY <1>1, LogFacts DEF Page, Clean, LiveFeedOK

LEMMA AppliesFacts ==
    ASSUME Inv, NEW events \in Seq(Events), Applies(events), Range(events) \subseteq Stored
    PROVE  /\ feed' \in Seq(Events) /\ seen' = seen \cup Range(events) /\ seen' \subseteq Events
           /\ seen' \subseteq Stored
           /\ mode = "live" => HasNoDuplicates(feed') /\ Range(feed') = seen'
<1> USE InvFacts
<1> DEFINE before == [feed |-> feed, seen |-> seen]
           after == AfterAll(events, before)
<1>1. before \in Page /\ before.seen = seen
  BY PageFacts
<1>2. feed' = after.feed /\ seen' = after.seen
  BY DEF Applies
<1>3. mode = "live" => Clean(before)
  BY PageFacts
<1> HIDE DEF before
<1>4. /\ after \in Page /\ after.seen = before.seen \cup Range(events)
      /\ Clean(before) => Clean(after)
  BY <1>1, AfterAllFacts
<1> HIDE DEF after
<1>5. seen \subseteq Stored /\ Stored \subseteq Events
  BY PageFacts DEF OnlyStored
<1>6. QED
  BY <1>1, <1>2, <1>3, <1>4, <1>5 DEF Page, Clean

\* The switch, when the session has ended and a page that boots has no call
\* but the one whose answer it uses.
LEMMA SwitchKeepsInv ==
    ASSUME Inv, NEW done, SwitchToReplay(done), status = "ended",
           mode = "boot" => calls \subseteq done,
           session' \in {"live", "ended"}, UNCHANGED <<serverVars, opened, holding, held, seen, faults, missed, failed>>
    PROVE  Inv'
<1> USE InvFacts
<1>1. /\ conn' = "none" /\ frames' = <<>> /\ mode' = "loading" /\ feed' = <<>> /\ enabled' = {}
      /\ disturbed' = (disturbed \/ Switched) /\ Asks("replay", done) /\ players' = players
      /\ UNCHANGED <<status, log, toPublish, opened, holding, held, seen, faults, missed, failed>>
  BY DEF SwitchToReplay, serverVars
<1>2. /\ calls \subseteq ACall /\ IsFiniteSet(calls) /\ "replay" \in Kinds
      /\ \A d, e \in calls : d.kind = e.kind /\ d.n = e.n => d = e
  BY DEF StreamTypes, CallsOK, Kinds
<1>3. /\ calls' \subseteq ACall /\ IsFiniteSet(calls')
      /\ \A d, e \in calls' : d.kind = e.kind /\ d.n = e.n => d = e
  BY <1>1, <1>2, AskedFacts
<1>4. PICK new \in ACall : /\ calls' = (calls \ done) \cup {new}
                           /\ new.kind = "replay" /\ new.answer = Waiting
  BY <1>1, <1>2, AskedFacts
<1>5. Stored' = Stored
  BY <1>1 DEF Stored
<1>6. <<>> \in Seq(Frame) /\ <<>> \in Seq(Events) /\ DOMAIN <<>> = {} /\ Range(<<>>) = {}
  BY DEF Range
<1>7. ServerTypes'
  BY <1>1, <1>5 DEF ServerTypes
<1>8. StreamTypes'
  BY <1>1, <1>3, <1>6 DEF StreamTypes
<1>9. PageTypes'
  BY <1>1, <1>6 DEF PageTypes
<1>10. OnlyStored'
  BY <1>1, <1>4, <1>5, <1>6, WaitingFacts DEF OnlyStored
<1>11. CallsOK'
  <2>1. \A d \in calls' : d.kind # "main"
    BY <1>4 DEF CallsOK
  <2>2. QED
    BY <1>1, <1>3, <2>1 DEF CallsOK
<1>12. ModesOK' /\ LiveFeedOK' /\ LiveFeedComplete'
  BY <1>1 DEF ModesOK, LiveFeedOK, LiveFeedComplete
<1>13. ReplayOnlyAfterEnd'
  BY <1>1 DEF ReplayOnlyAfterEnd
<1>14. PlayersOK'
  <2>1. ASSUME ~disturbed' PROVE players = <<>> /\ \A d \in calls \ done : d.kind # "replay"
    <3>1. mode \in {"boot", "live", "error"}
      BY <1>1, <2>1 DEF PageTypes, Switched
    <3>2. QED
      BY <3>1 DEF ModesOK, CallsOK
  <2>2. ~disturbed' => \A d, e \in calls' : d.kind = "replay" /\ e.kind = "replay" => d = e
    BY <1>4, <2>1
  <2>3. QED
    BY <1>1, <2>1, <2>2 DEF PlayersOK
<1>15. QED
  BY <1>7, <1>8, <1>9, <1>10, <1>11, <1>12, <1>13, <1>14 DEF Inv, Types

LEMMA OnSessionEndedKeepsInv ==
    ASSUME Inv, OnSessionEnded
    PROVE  Inv'
<1> USE InvFacts
<1>1. /\ conn # "none" /\ frames # <<>> /\ Head(frames).kind = "session"
      /\ session' = "ended" /\ SwitchToReplay({})
      /\ UNCHANGED <<serverVars, opened, holding, held, seen, faults, missed, failed>>
  BY DEF OnSessionEnded, NextFrame
<1>2. 1 \in DOMAIN frames /\ Head(frames) = frames[1]
  BY <1>1 DEF StreamTypes
<1>3. status = "ended"
  BY <1>1, <1>2 DEF OnlyStored
<1>4. mode # "boot"
  BY <1>1 DEF ModesOK
<1>5. QED
  BY <1>1, <1>3, <1>4, SwitchKeepsInv

\* Only the call that used its answer is gone; the session's status may be new.
LEMMA UsedKeepsInv ==
    ASSUME Inv, NEW c \in calls, c.kind = "reread", calls' = calls \ {c},
           session' \in {"live", "ended"},
           UNCHANGED <<serverVars, conn, frames, mode, feed, playback, opened, holding, held, seen,
                       faults, missed, failed>>
    PROVE  Inv'
<1> USE InvFacts
<1>1. UNCHANGED <<status, log, toPublish, conn, frames, mode, feed, players, enabled, disturbed,
                  opened, holding, held, seen, faults, missed, failed>>
  BY DEF serverVars, playback
<1>2. calls' \subseteq ACall /\ IsFiniteSet(calls')
  BY UsedFacts DEF StreamTypes
<1>3. Stored' = Stored
  BY <1>1 DEF Stored
<1>4. ServerTypes' /\ StreamTypes' /\ PageTypes'
  BY <1>1, <1>2, <1>3 DEF ServerTypes, StreamTypes, PageTypes
<1>5. OnlyStored' /\ CallsOK' /\ ModesOK' /\ LiveFeedOK' /\ ReplayOnlyAfterEnd'
  BY <1>1, <1>3 DEF OnlyStored, CallsOK, ModesOK, LiveFeedOK, ReplayOnlyAfterEnd
<1>6. PlayersOK'
  BY <1>1 DEF PlayersOK, Latest
<1>7. LiveFeedComplete'
  <2> SUFFICES ASSUME mode' = "live", "backfill" \notin failed', NEW e \in Range(log)'
               PROVE  Covered(e)'
    BY DEF LiveFeedComplete, Covered, InFrames, InBackfill
  <2>1. Covered(e)
    BY <1>1, CompleteFacts
  <2>2. InFrames(e) => InFrames(e)'
    BY <1>1 DEF InFrames
  <2>3. InBackfill(e) => InBackfill(e)'
    BY DEF InBackfill
  <2>4. QED
    BY <1>1, <2>1, <2>2, <2>3 DEF Covered
<1>8. QED
  BY <1>4, <1>5, <1>6, <1>7 DEF Inv, Types

LEMMA RereadKeepsInv ==
    ASSUME Inv, NEW c \in calls, Reread(c)
    PROVE  Inv'
<1> USE InvFacts
<1>1. /\ c.kind = "reread"
      /\ UNCHANGED <<serverVars, opened, holding, held, seen, faults, missed, failed>>
  BY DEF Reread, Ready
<1>2. session \in {"live", "ended"}
  BY DEF PageTypes
<1>3. CASE /\ c.answer.state = "ok" /\ c.answer.status = "ended"
           /\ session' = "ended" /\ SwitchToReplay({c})
  <2>1. status = "ended"
    BY <1>3 DEF OnlyStored
  <2>2. mode # "boot"
    BY <1>1 DEF CallsOK
  <2>3. QED
    BY <1>1, <1>3, <2>1, <2>2, SwitchKeepsInv
<1>4. CASE /\ calls' = calls \ {c} /\ session' \in {"live", "ended"}
           /\ UNCHANGED <<conn, frames, mode, feed, playback>>
  BY <1>1, <1>4, UsedKeepsInv
<1>5. QED
  BY <1>2, <1>3, <1>4 DEF Reread

LEMMA BootKeepsInv ==
    ASSUME Inv, NEW c \in calls, Boot(c)
    PROVE  Inv'
<1> USE InvFacts
<1>1. /\ c.kind = "main"
      /\ UNCHANGED <<status, log, toPublish, opened, held, seen, faults, missed, failed>>
  BY DEF Boot, Ready, serverVars
<1>2. mode = "boot" /\ c.n = 0
  BY <1>1 DEF CallsOK
<1>3. calls = {c}
  <2>1. \A d \in calls : d.kind = "main" /\ d.n = 0
    BY <1>2 DEF CallsOK
  <2>2. \A d \in calls : d = c
    BY <1>1, <1>2, <2>1 DEF CallsOK
  <2>3. QED
    BY <2>2
<1>4. conn = "none" /\ frames = <<>> /\ feed = <<>> /\ seen = {} /\ players = <<>>
  BY <1>2 DEF ModesOK
<1>5. Stored' = Stored
  BY <1>1 DEF Stored
<1>6. ServerTypes'
  BY <1>1, <1>5 DEF ServerTypes
<1>7. CASE /\ mode' = "error" /\ calls' = calls \ {c}
           /\ UNCHANGED <<conn, frames, session, holding, feed, playback>>
  <2>1. calls' = {} /\ UNCHANGED <<conn, frames, session, holding, feed, players, enabled, disturbed>>
    BY <1>3, <1>7 DEF playback
  <2>2. StreamTypes' /\ PageTypes'
    BY <1>1, <2>1, <1>7, FS_EmptySet DEF StreamTypes, PageTypes
  <2>3. OnlyStored' /\ CallsOK' /\ ModesOK' /\ LiveFeedOK' /\ ReplayOnlyAfterEnd' /\ LiveFeedComplete'
    BY <1>1, <1>4, <1>5, <1>7, <2>1
       DEF OnlyStored, CallsOK, ModesOK, LiveFeedOK, ReplayOnlyAfterEnd, LiveFeedComplete
  <2>4. PlayersOK'
    BY <1>4, <1>7, <2>1 DEF PlayersOK
  <2>5. QED
    BY <1>6, <2>2, <2>3, <2>4 DEF Inv, Types
<1>8. CASE /\ mode' = "live" /\ conn' = "connecting" /\ session' = "live" /\ holding' = TRUE
           /\ Asks("backfill", {c}) /\ UNCHANGED <<frames, feed, playback>>
  <2>1. UNCHANGED <<frames, feed, players, enabled, disturbed>>
    BY <1>8 DEF playback
  <2>2. /\ calls \subseteq ACall /\ IsFiniteSet(calls) /\ "backfill" \in Kinds
        /\ \A d, e \in calls : d.kind = e.kind /\ d.n = e.n => d = e
    BY DEF StreamTypes, CallsOK, Kinds
  <2>3. /\ calls' \subseteq ACall /\ IsFiniteSet(calls')
        /\ \A d, e \in calls' : d.kind = e.kind /\ d.n = e.n => d = e
    BY <1>8, <2>2, AskedFacts
  <2>4. PICK new \in ACall : /\ calls' = (calls \ {c}) \cup {new}
                             /\ new.kind = "backfill" /\ new.answer = Waiting
    BY <1>8, <2>2, AskedFacts
  <2>5. calls' = {new}
    BY <1>3, <2>4
  <2>6. DOMAIN <<>> = {} /\ Range(<<>>) = {}
    BY DEF Range
  <2>7. StreamTypes' /\ PageTypes'
    BY <1>1, <1>8, <2>1, <2>3 DEF StreamTypes, PageTypes
  <2>8. OnlyStored'
    BY <1>1, <1>4, <1>5, <2>1, <2>4, <2>5, <2>6, WaitingFacts DEF OnlyStored
  <2>9. CallsOK' /\ ModesOK' /\ ReplayOnlyAfterEnd'
    BY <1>4, <1>8, <2>1, <2>4, <2>5 DEF CallsOK, ModesOK, ReplayOnlyAfterEnd
  <2>10. LiveFeedOK'
    BY <1>1, <1>4, <2>1, <2>6 DEF LiveFeedOK, HasNoDuplicates
  <2>11. PlayersOK'
    BY <1>4, <1>8, <2>1, <2>4, <2>5 DEF PlayersOK
  <2>12. LiveFeedComplete'
    BY <2>4, <2>5 DEF LiveFeedComplete
  <2>13. QED
    BY <1>6, <2>7, <2>8, <2>9, <2>10, <2>11, <2>12 DEF Inv, Types
<1>9. CASE /\ c.answer.status = "ended" /\ session' = "ended" /\ SwitchToReplay({c})
           /\ UNCHANGED holding
  <2>1. status = "ended"
    BY <1>9 DEF OnlyStored
  <2>2. UNCHANGED <<serverVars, opened, holding, held, seen, faults, missed, failed>>
    BY <1>1, <1>9 DEF serverVars
  <2>3. calls \subseteq {c} /\ session' \in {"live", "ended"}
    BY <1>3, <1>9
  <2>4. QED
    BY <1>9, <2>1, <2>2, <2>3, SwitchKeepsInv
<1>10. QED
  BY <1>7, <1>8, <1>9 DEF Boot

LEMMA BackfillKeepsInv ==
    ASSUME Inv, NEW c \in calls, Backfill(c)
    PROVE  Inv'
<1> USE InvFacts
<1> DEFINE events == c.answer.events \o held
<1>1. /\ c.kind = "backfill" /\ c.answer # Waiting /\ Applies(events)
      /\ holding' = FALSE /\ held' = <<>> /\ calls' = calls \ {c}
      /\ disturbed' = (disturbed \/ Switched)
      /\ UNCHANGED <<status, log, toPublish, conn, frames, mode, session, opened, players, enabled,
                     faults, missed, failed>>
  BY DEF Backfill, Ready, serverVars
<1>2. c.answer.events \in Seq(Events) /\ held \in Seq(Events)
  BY CallFields DEF StreamTypes, PageTypes
<1>3. events \in Seq(Events) /\ Range(events) = Range(c.answer.events) \cup Range(held)
  BY <1>2, RangeOfConcat
<1> HIDE DEF events
<1>4. Range(events) \subseteq Stored
  BY <1>3 DEF OnlyStored
<1>5. /\ feed' \in Seq(Events) /\ seen' = seen \cup Range(events) /\ seen' \subseteq Events
      /\ seen' \subseteq Stored
      /\ mode = "live" => HasNoDuplicates(feed') /\ Range(feed') = seen'
  BY <1>1, <1>3, <1>4, AppliesFacts
<1>6. calls' \subseteq ACall /\ IsFiniteSet(calls')
  BY <1>1, UsedFacts DEF StreamTypes
<1>7. Stored' = Stored /\ mode # "boot"
  BY <1>1 DEF Stored, CallsOK
<1>8. <<>> \in Seq(Events) /\ Range(<<>>) = {}
  BY DEF Range
<1>9. ServerTypes' /\ StreamTypes'
  BY <1>1, <1>6, <1>7 DEF ServerTypes, StreamTypes
<1>10. PageTypes'
  BY <1>1, <1>5, <1>8 DEF PageTypes
<1>11. OnlyStored'
  BY <1>1, <1>5, <1>7, <1>8 DEF OnlyStored
<1>12. CallsOK' /\ ModesOK' /\ LiveFeedOK' /\ ReplayOnlyAfterEnd'
  BY <1>1, <1>5, <1>7 DEF CallsOK, ModesOK, LiveFeedOK, ReplayOnlyAfterEnd
<1>13. PlayersOK'
  <2>1. ~disturbed' => players = <<>> /\ ~Switched
    BY <1>1, <1>7 DEF PageTypes, ModesOK, Switched
  <2>2. QED
    BY <1>1, <2>1 DEF PlayersOK, Switched
<1>14. LiveFeedComplete'
  <2> SUFFICES ASSUME mode' = "live", "backfill" \notin failed', NEW e \in Range(log)'
               PROVE  Covered(e)'
    BY DEF LiveFeedComplete, Covered, InFrames, InBackfill
  <2>1. Covered(e)
    BY <1>1, CompleteFacts
  <2>2. Range(feed') = seen \cup Range(events) /\ Range(feed) = seen
    BY <1>1, <1>5 DEF LiveFeedOK
  <2>3. InFrames(e) => InFrames(e)'
    BY <1>1 DEF InFrames
  <2>4. InBackfill(e) => InBackfill(e)' \/ e \in Range(events)
    BY <1>1, <1>3 DEF InBackfill
  <2>5. QED
    BY <1>1, <1>3, <2>1, <2>2, <2>3, <2>4 DEF Covered
<1>15. QED
  BY <1>9, <1>10, <1>11, <1>12, <1>13, <1>14 DEF Inv, Types

\* A frame is taken off the stream.
LEMMA NextFrameFacts ==
    ASSUME Inv, NEW kind, NextFrame(kind), frames' = Tail(frames)
    PROVE  /\ Head(frames) \in Frame /\ Head(frames).kind = kind
           /\ frames' \in Seq(Frame)
           /\ \A i \in DOMAIN frames' : \E j \in DOMAIN frames : frames'[i] = frames[j]
           /\ \A e : InFrames(e) => InFrames(e)' \/ Head(frames) = ActivityFrame(e)
           /\ kind = "activity" => Head(frames).event \in Stored
           /\ mode = "live" /\ conn # "none"
<1> USE InvFacts
<1>1. conn # "none" /\ frames # <<>> /\ Head(frames).kind = kind /\ frames \in Seq(Frame)
  BY DEF NextFrame, StreamTypes
<1>2. /\ Len(frames) \in Nat \ {0} /\ DOMAIN frames = 1..Len(frames) /\ Head(frames) = frames[1]
      /\ frames' \in Seq(Frame) /\ DOMAIN frames' = 1..Len(frames) - 1
      /\ \A i \in 1..Len(frames) - 1 : frames'[i] = frames[i + 1]
  BY <1>1
<1>3. 1 \in DOMAIN frames /\ Head(frames) \in Frame
  BY <1>1, <1>2
<1>4. \A i \in DOMAIN frames' : \E j \in DOMAIN frames : frames'[i] = frames[j]
  <2>1. \A i \in DOMAIN frames' : i + 1 \in DOMAIN frames
    BY <1>2
  <2>2. QED
    BY <1>2, <2>1
<1>5. \A e : InFrames(e) => InFrames(e)' \/ Head(frames) = ActivityFrame(e)
  <2> SUFFICES ASSUME NEW e, NEW i \in DOMAIN frames, frames[i] = ActivityFrame(e)
               PROVE  InFrames(e)' \/ Head(frames) = ActivityFrame(e)
    BY DEF InFrames
  <2>1. CASE i = 1
    BY <1>2, <2>1
  <2>2. CASE i # 1
    <3>1. i - 1 \in DOMAIN frames' /\ (i - 1) + 1 = i
      BY <1>2, <2>2
    <3>2. frames'[i - 1] = frames[i]
      BY <1>2, <3>1
    <3>3. QED
      BY <3>1, <3>2 DEF InFrames
  <2>3. QED
    BY <2>1, <2>2
<1>6. kind = "activity" => Head(frames).event \in Stored
  BY <1>1, <1>2, <1>3 DEF OnlyStored
<1>7. mode = "live"
  BY <1>1 DEF PageTypes, ModesOK, ReplayOnlyAfterEnd
<1>8. QED
  BY <1>1, <1>2, <1>3, <1>4, <1>5, <1>6, <1>7

LEMMA OnOpenKeepsInv ==
    ASSUME Inv, OnOpen
    PROVE  Inv'
<1> USE InvFacts
<1>1. /\ NextFrame("open") /\ frames' = Tail(frames) /\ opened' = TRUE
      /\ IF opened THEN Asks("reread", {}) ELSE calls' = calls
      /\ missed' = IF opened THEN missed \ {TheEnd} ELSE missed
      /\ UNCHANGED <<status, log, toPublish, conn, mode, session, holding, held, seen, feed,
                     players, enabled, disturbed, faults, failed>>
  BY DEF OnOpen, serverVars, playback
<1>2. /\ Head(frames).kind = "open" /\ frames' \in Seq(Frame)
      /\ \A i \in DOMAIN frames' : \E j \in DOMAIN frames : frames'[i] = frames[j]
      /\ \A e : InFrames(e) => InFrames(e)' \/ Head(frames) = ActivityFrame(e)
      /\ mode = "live" /\ conn # "none"
  BY <1>1, NextFrameFacts
<1>3. \A e : InFrames(e) => InFrames(e)'
  <2>1. \A e : Head(frames) # ActivityFrame(e)
    BY <1>2 DEF ActivityFrame
  <2>2. QED
    BY <1>2, <2>1
<1>4. /\ calls \subseteq ACall /\ IsFiniteSet(calls) /\ "reread" \in Kinds
      /\ \A d, e \in calls : d.kind = e.kind /\ d.n = e.n => d = e
  BY DEF StreamTypes, CallsOK, Kinds
<1>5. /\ calls' \subseteq ACall /\ IsFiniteSet(calls') /\ calls \subseteq calls'
      /\ \A d, e \in calls' : d.kind = e.kind /\ d.n = e.n => d = e
      /\ \A d \in calls' \ calls : d.kind = "reread" /\ d.answer = Waiting
  <2>1. CASE opened
    <3>1. Asks("reread", {})
      BY <1>1, <2>1
    <3>2. /\ calls' \subseteq ACall /\ IsFiniteSet(calls')
          /\ \A d, e \in calls' : d.kind = e.kind /\ d.n = e.n => d = e
      BY <1>4, <3>1, AskedFacts
    <3>3. PICK new \in ACall : /\ calls' = (calls \ {}) \cup {new}
                               /\ new.kind = "reread" /\ new.answer = Waiting
      BY <1>4, <3>1, AskedFacts
    <3>4. QED
      BY <3>2, <3>3
  <2>2. CASE ~opened
    <3>1. calls' = calls
      BY <1>1, <2>2
    <3>2. QED
      BY <1>4, <3>1
  <2>3. QED
    BY <2>1, <2>2
<1>6. Stored' = Stored
  BY <1>1 DEF Stored
<1>7. ServerTypes' /\ PageTypes'
  BY <1>1, <1>6 DEF ServerTypes, PageTypes
<1>8. StreamTypes'
  <2>1. missed' \subseteq missed
    BY <1>1
  <2>2. QED
    BY <1>1, <1>2, <1>5, <2>1 DEF StreamTypes
<1>9. OnlyStored'
  <2>1. Range(<<>>) = {}
    BY DEF Range
  <2>2. \A d \in calls' : /\ Range(d.answer.events) \subseteq Stored
                          /\ d.answer.status = "ended" => status = "ended"
    BY <1>5, <2>1, WaitingFacts DEF OnlyStored
  <2>3. \A i \in DOMAIN frames' :
           /\ frames'[i].kind = "activity" => frames'[i].event \in Stored
           /\ frames'[i].kind = "session" => status = "ended"
    BY <1>2 DEF OnlyStored
  <2>4. QED
    BY <1>1, <1>6, <2>2, <2>3 DEF OnlyStored
<1>10. CallsOK'
  BY <1>1, <1>2, <1>5 DEF CallsOK
<1>11. ModesOK' /\ LiveFeedOK' /\ ReplayOnlyAfterEnd'
  BY <1>1, <1>2 DEF ModesOK, LiveFeedOK, ReplayOnlyAfterEnd
<1>12. PlayersOK'
  BY <1>1, <1>2, <1>5 DEF PlayersOK, CallsOK, ModesOK
<1>13. LiveFeedComplete'
  <2> SUFFICES ASSUME mode' = "live", "backfill" \notin failed', NEW e \in Range(log)'
               PROVE  Covered(e)'
    BY DEF LiveFeedComplete, Covered, InFrames, InBackfill
  <2>1. Covered(e) /\ e # TheEnd
    BY <1>1, CompleteFacts, LogFacts
  <2>2. InBackfill(e) => InBackfill(e)'
    BY <1>5 DEF InBackfill
  <2>3. e \in missed => e \in missed'
    BY <1>1, <2>1
  <2>4. QED
    BY <1>1, <1>3, <2>1, <2>2, <2>3 DEF Covered
<1>14. QED
  BY <1>7, <1>8, <1>9, <1>10, <1>11, <1>12, <1>13 DEF Inv, Types

LEMMA OnActivityKeepsInv ==
    ASSUME Inv, OnActivity
    PROVE  Inv'
<1> USE InvFacts
<1>1. PICK e : e = Head(frames).event
  OBVIOUS
<1>2. /\ NextFrame("activity") /\ frames' = Tail(frames)
      /\ \/ /\ holding
            /\ held' = Append(held, e)
            /\ UNCHANGED <<seen, feed>>
         \/ /\ ~holding
            /\ Applies(<<e>>)
            /\ held' = held
      /\ UNCHANGED <<status, log, toPublish, conn, mode, session, opened, holding,
                     players, enabled, disturbed, calls, faults, missed, failed>>
  BY <1>1 DEF OnActivity, serverVars, playback
<1>3. /\ Head(frames) \in Frame /\ Head(frames).kind = "activity" /\ frames' \in Seq(Frame)
      /\ \A i \in DOMAIN frames' : \E j \in DOMAIN frames : frames'[i] = frames[j]
      /\ \A d : InFrames(d) => InFrames(d)' \/ Head(frames) = ActivityFrame(d)
      /\ Head(frames).event \in Stored /\ mode = "live" /\ conn # "none"
  BY <1>2, NextFrameFacts
<1>4. /\ e \in Stored /\ e \in Events
      /\ \A d : Head(frames) = ActivityFrame(d) => d = e
  <2>1. \A d : ActivityFrame(d).event = d
    BY DEF ActivityFrame
  <2>2. QED
    BY <1>1, <1>3, <2>1, LogFacts
<1>5. /\ held' \in Seq(Events) /\ feed' \in Seq(Events) /\ seen' \subseteq Stored
      /\ Range(held) \subseteq Range(held') /\ Range(held') \subseteq Stored
      /\ Range(feed) \subseteq Range(feed') /\ e \in Range(held') \cup Range(feed')
      /\ HasNoDuplicates(feed') /\ Range(feed') = seen' /\ seen' \subseteq Events
  <2>1. /\ held \in Seq(Events) /\ feed \in Seq(Events) /\ seen \subseteq Stored
        /\ Range(held) \subseteq Stored /\ Stored \subseteq Events
        /\ HasNoDuplicates(feed) /\ Range(feed) = seen
    BY <1>3, LogFacts DEF PageTypes, OnlyStored, LiveFeedOK
  <2>2. CASE holding
    <3>1. held' = Append(held, e) /\ seen' = seen /\ feed' = feed
      BY <1>2, <2>2
    <3>2. held' \in Seq(Events) /\ Range(held') = Range(held) \cup {e}
      BY <1>4, <2>1, <3>1, AppendedOnce
    <3>3. HasNoDuplicates(feed')
      BY <2>1, <3>1
    <3>4. QED
      BY <1>4, <2>1, <3>1, <3>2, <3>3
  <2>3. CASE ~holding
    <3>1. Applies(<<e>>) /\ held' = held
      BY <1>2, <2>3
    <3>2. <<e>> \in Seq(Events) /\ Range(<<e>>) = {e}
      BY <1>4 DEF Range
    <3>3. Range(<<e>>) \subseteq Stored
      BY <1>4, <3>2
    <3>4. /\ feed' \in Seq(Events) /\ seen' = seen \cup {e} /\ seen' \subseteq Events
          /\ seen' \subseteq Stored /\ HasNoDuplicates(feed') /\ Range(feed') = seen'
      BY <1>3, <3>1, <3>2, <3>3, AppliesFacts
    <3>5. QED
      BY <2>1, <3>1, <3>4
  <2>4. QED
    BY <2>2, <2>3
<1>6. Stored' = Stored
  BY <1>2 DEF Stored
<1>7. ServerTypes' /\ StreamTypes' /\ PageTypes'
  BY <1>2, <1>3, <1>5, <1>6 DEF ServerTypes, StreamTypes, PageTypes
<1>8. OnlyStored'
  <2>1. \A i \in DOMAIN frames' :
           /\ frames'[i].kind = "activity" => frames'[i].event \in Stored
           /\ frames'[i].kind = "session" => status = "ended"
    BY <1>3 DEF OnlyStored
  <2>2. QED
    BY <1>2, <1>5, <1>6, <2>1 DEF OnlyStored
<1>9. CallsOK' /\ ModesOK' /\ LiveFeedOK' /\ ReplayOnlyAfterEnd'
  BY <1>2, <1>3, <1>5 DEF CallsOK, ModesOK, LiveFeedOK, ReplayOnlyAfterEnd
<1>10. PlayersOK'
  BY <1>2, <1>3 DEF PlayersOK, ModesOK
<1>11. LiveFeedComplete'
  <2> SUFFICES ASSUME mode' = "live", "backfill" \notin failed', NEW d \in Range(log)'
               PROVE  Covered(d)'
    BY DEF LiveFeedComplete, Covered, InFrames, InBackfill
  <2>1. Covered(d)
    BY <1>2, CompleteFacts
  <2>2. InFrames(d) => InFrames(d)' \/ d = e
    BY <1>3, <1>4
  <2>3. QED
    BY <1>2, <1>5, <2>1, <2>2 DEF Covered, InBackfill
<1>12. QED
  BY <1>7, <1>8, <1>9, <1>10, <1>11 DEF Inv, Types

-----------------------------------------------------------------------------
(* The playback. *)

LEMMA RowsFacts ==
    ASSUME NEW s \in Seq(Events), NEW k \in Nat, k <= Len(s)
    PROVE  /\ Rows(s, k) \in Seq(Events)
           /\ k < Len(s) => Rows(s, k + 1) = Append(Rows(s, k), s[k + 1])
<1>1. Len(s) \in Nat /\ DOMAIN s = 1..Len(s)
  OBVIOUS
<1>2. /\ Rows(s, k) \in Seq(Events) /\ Len(Rows(s, k)) = k
      /\ \A i \in 1..k : Rows(s, k)[i] = s[i]
  BY <1>1 DEF Rows
<1>3. ASSUME k < Len(s) PROVE Rows(s, k + 1) = Append(Rows(s, k), s[k + 1])
  <2>1. /\ Rows(s, k + 1) \in Seq(Events) /\ Len(Rows(s, k + 1)) = k + 1
        /\ \A i \in 1..k + 1 : Rows(s, k + 1)[i] = s[i]
    BY <1>1, <1>3 DEF Rows
  <2>2. k + 1 \in DOMAIN s /\ s[k + 1] \in Events
    BY <1>1, <1>3
  <2> DEFINE a == Rows(s, k + 1)
             r == Rows(s, k)
             x == s[k + 1]
             b == Append(r, x)
  <2>3. b \in Seq(Events) /\ Len(b) = k + 1 /\ (\A i \in 1..k : b[i] = r[i]) /\ b[k + 1] = x
    <3> HIDE DEF r, x
    <3>1. r \in Seq(Events) /\ Len(r) = k /\ x \in Events
      BY <1>2, <2>2 DEF r, x
    <3>2. QED
      BY <3>1
  <2>4. \A i \in 1..k + 1 : a[i] = b[i]
    <3>1. \A i \in 1..k + 1 : i \in 1..k \/ i = k + 1
      OBVIOUS
    <3>2. QED
      BY <1>2, <2>1, <2>3, <3>1
  <2> HIDE DEF a, b
  <2>5. a \in Seq(Events) /\ Len(a) = k + 1
    BY <2>1 DEF a
  <2>6. a = b
    BY <2>3, <2>4, <2>5, SeqEqual
  <2>7. QED
    BY <2>6 DEF a, b
<1>4. QED
  BY <1>2, <1>3

LEMMA RenderedFacts ==
    ASSUME NEW controls \in SUBSET Controls, NEW p
    PROVE  Rendered(controls, p) \subseteq Controls
BY DEF Rendered, Controls

LEMMA ReplayKeepsInv ==
    ASSUME Inv, NEW c \in calls, Replay(c)
    PROVE  Inv'
<1> USE InvFacts
<1>1. PICK events : events = c.answer.events
  OBVIOUS
<1>2. PICK p : p = [log |-> events, pos |-> Len(events), playing |-> FALSE, timers |-> 0]
  OBVIOUS
<1>3. /\ c.kind = "replay" /\ calls' = calls \ {c} /\ mode' = "replay"
      /\ IF events = <<>> THEN UNCHANGED <<feed, players, enabled>>
         ELSE /\ feed' = Rows(events, p.pos)
              /\ players' = Append(players, p)
              /\ enabled' = Rendered(Controls, p)
      /\ UNCHANGED <<status, log, toPublish, conn, frames, session, opened, holding, held, seen,
                     faults, missed, failed, disturbed>>
  BY <1>1, <1>2 DEF Replay, Ready, serverVars
<1>4. events \in Seq(Events) /\ Len(events) \in Nat
  BY <1>1, CallFields DEF StreamTypes
<1>5. p \in Player /\ p.log = events /\ p.pos = Len(events) /\ ~p.playing /\ p.timers = 0
  BY <1>2, <1>4 DEF Player
<1>6. events # <<>> => PlayerOK(p)
  BY <1>4, <1>5 DEF PlayerOK
<1>7. mode \in {"loading", "replay"} /\ status = "ended" /\ conn = "none" /\ frames = <<>>
  <2>1. mode \in {"loading", "replay"}
    BY <1>3 DEF PageTypes, CallsOK
  <2>2. QED
    BY <2>1 DEF ReplayOnlyAfterEnd
<1>8. /\ feed' \in Seq(Events) /\ players' \in Seq(Player) /\ enabled' \subseteq Controls
      /\ \A i \in DOMAIN players' : PlayerOK(players'[i])
      /\ players' = <<>> => enabled' = {}
  <2>1. players \in Seq(Player) /\ feed \in Seq(Events) /\ enabled \subseteq Controls
    BY DEF PageTypes
  <2>2. CASE events = <<>>
    <3>1. feed' = feed /\ players' = players /\ enabled' = enabled
      BY <1>3, <2>2
    <3>2. QED
      BY <2>1, <3>1 DEF PlayersOK
  <2>3. CASE events # <<>>
    <3>1. feed' = Rows(events, p.pos) /\ players' = Append(players, p)
            /\ enabled' = Rendered(Controls, p)
      BY <1>3, <2>3
    <3>2. feed' \in Seq(Events)
      BY <1>4, <1>5, <3>1, RowsFacts
    <3>3. /\ players' \in Seq(Player) /\ players' # <<>>
          /\ \A i \in DOMAIN players' :
                players'[i] = p \/ (i \in DOMAIN players /\ players'[i] = players[i])
      BY <1>5, <2>1, <3>1
    <3>4. enabled' \subseteq Controls
      BY <3>1, RenderedFacts
    <3>5. \A i \in DOMAIN players' : PlayerOK(players'[i])
      BY <1>6, <2>3, <3>3 DEF PlayersOK
    <3>6. QED
      BY <3>2, <3>3, <3>4, <3>5
  <2>4. QED
    BY <2>2, <2>3
<1>9. PlayersOK'
  <2>1. ASSUME ~disturbed PROVE /\ players = <<>>
                                /\ \A d \in calls' : d.kind # "replay"
    BY <1>3, <1>7, <2>1 DEF PlayersOK
  <2>2. ASSUME ~disturbed, players' # <<>>
        PROVE  Len(players') = 1 /\ feed' = Rows(players'[1].log, players'[1].pos)
    <3>1. feed' = Rows(events, p.pos) /\ players' = Append(players, p)
      BY <1>3, <2>1, <2>2
    <3>2. players' = <<p>>
      BY <2>1, <2>2, <3>1
    <3>3. Len(players') = 1 /\ players'[1] = p
      BY <3>2
    <3>4. QED
      BY <1>5, <3>1, <3>3
  <2>3. QED
    BY <1>3, <1>8, <2>1, <2>2 DEF PlayersOK, Latest
<1>10. Stored' = Stored
  BY <1>3 DEF Stored
<1>11. calls' \subseteq ACall /\ IsFiniteSet(calls')
  BY <1>3, UsedFacts DEF StreamTypes
<1>12. ServerTypes' /\ StreamTypes'
  BY <1>3, <1>10, <1>11 DEF ServerTypes, StreamTypes
<1>13. PageTypes'
  BY <1>3, <1>8 DEF PageTypes
<1>14. OnlyStored' /\ CallsOK' /\ ReplayOnlyAfterEnd'
  BY <1>3, <1>7, <1>10 DEF OnlyStored, CallsOK, ReplayOnlyAfterEnd
<1>15. ModesOK' /\ LiveFeedOK' /\ LiveFeedComplete'
  BY <1>3, <1>7 DEF ModesOK, LiveFeedOK, LiveFeedComplete
<1>16. QED
  BY <1>9, <1>12, <1>13, <1>14, <1>15 DEF Inv, Types

\* A step of the playback: player i becomes p, which is right by itself, and
\* the feed of an undisturbed replay shows p's position.
LEMMA PlaybackKeepsInv ==
    ASSUME Inv, NEW i \in DOMAIN players, NEW p \in Player, PlayerOK(p), Becomes(i, p),
           feed' \in Seq(Events), ~disturbed => feed' = Rows(p.log, p.pos)
    PROVE  Inv'
<1> USE InvFacts
<1>1. /\ players' = [players EXCEPT ![i] = p] /\ enabled' = Rendered(enabled, p)
      /\ UNCHANGED <<status, log, toPublish, conn, frames, mode, session, opened, holding, held,
                     seen, calls, faults, missed, failed, disturbed>>
  BY DEF Becomes, serverVars
<1>2. /\ players \in Seq(Player) /\ DOMAIN players = 1..Len(players) /\ Len(players) \in Nat
      /\ players # <<>>
  BY DEF PageTypes
<1>3. /\ players' \in Seq(Player) /\ DOMAIN players' = DOMAIN players
      /\ Len(players') = Len(players) /\ players'[i] = p
      /\ \A j \in DOMAIN players : players'[j] = IF j = i THEN p ELSE players[j]
  BY <1>1, <1>2
<1>4. mode \in {"loading", "replay"}
  BY <1>2 DEF PageTypes, ModesOK
<1>5. Stored' = Stored
  BY <1>1 DEF Stored
<1>6. ServerTypes' /\ StreamTypes'
  BY <1>1, <1>5 DEF ServerTypes, StreamTypes
<1>7. PageTypes'
  BY <1>1, <1>3, RenderedFacts DEF PageTypes
<1>8. OnlyStored' /\ CallsOK' /\ ReplayOnlyAfterEnd'
  BY <1>1, <1>5 DEF OnlyStored, CallsOK, ReplayOnlyAfterEnd
<1>9. ModesOK' /\ LiveFeedOK' /\ LiveFeedComplete'
  BY <1>1, <1>4 DEF ModesOK, LiveFeedOK, LiveFeedComplete
<1>10. PlayersOK'
  <2>1. \A j \in DOMAIN players' : PlayerOK(players'[j])
    BY <1>3 DEF PlayersOK
  <2>2. players' # <<>>
    BY <1>2, <1>3
  <2>3. ASSUME ~disturbed
        PROVE  /\ mode = "replay" /\ Len(players') = 1
               /\ feed' = Rows(players'[Len(players')].log, players'[Len(players')].pos)
    <3>1. mode = "replay" /\ Len(players) = 1
      BY <1>2, <1>4, <2>3 DEF PlayersOK
    <3>2. i = 1
      BY <1>2, <3>1
    <3>3. QED
      BY <1>3, <2>3, <3>1, <3>2
  <2>4. QED
    BY <1>1, <2>1, <2>2, <2>3 DEF PlayersOK, Latest
<1>11. QED
  BY <1>6, <1>7, <1>8, <1>9, <1>10 DEF Inv, Types

\* A player, field by field.
Plays(l, k, playing, timers) == [log |-> l, pos |-> k, playing |-> playing, timers |-> timers]

LEMMA PlayerFields ==
    ASSUME NEW p \in Player
    PROVE  /\ p.log \in Seq(Events) /\ p.pos \in Nat /\ p.playing \in BOOLEAN /\ p.timers \in Nat
           /\ p = Plays(p.log, p.pos, p.playing, p.timers)
BY DEF Player, Plays

\* What the helpers make of a player with at most one timer.
WithPlaying(p, x) == [p EXCEPT !.playing = x]
WithTimers(p, x) == [p EXCEPT !.timers = x]

LEMMA PlayingFact ==
    \A l, k, b, t, x : WithPlaying(Plays(l, k, b, t), x) = Plays(l, k, x, t)
BY DEF Plays, WithPlaying

LEMMA TimersFact ==
    \A l, k, b, t, x : WithTimers(Plays(l, k, b, t), x) = Plays(l, k, b, x)
BY DEF Plays, WithTimers

LEMMA SoughtFact ==
    \A l, k, b, t, n : Sought(Plays(l, k, b, t), n) = Plays(l, n, b, t)
BY DEF Plays, Sought

LEMMA TimersOf == \A l, k, b, t : Plays(l, k, b, t).timers = t
BY DEF Plays

LEMMA StoppedFact ==
    \A l, k, b : Stopped(Plays(l, k, b, 1)) = Plays(l, k, b, 0)
<1> SUFFICES ASSUME NEW l, NEW k, NEW b PROVE Stopped(Plays(l, k, b, 1)) = Plays(l, k, b, 0)
  OBVIOUS
<1>1. Stopped(Plays(l, k, b, 1)) = WithTimers(Plays(l, k, b, 1), 1 - 1)
  BY TimersOf DEF Stopped, WithTimers
<1>2. QED
  BY <1>1, TimersFact

LEMMA StoppedAgainFact ==
    \A l, k, b : Stopped(Plays(l, k, b, 0)) = Plays(l, k, b, 0)
<1> SUFFICES ASSUME NEW l, NEW k, NEW b PROVE Stopped(Plays(l, k, b, 0)) = Plays(l, k, b, 0)
  OBVIOUS
<1>1. Stopped(Plays(l, k, b, 0)) = WithTimers(Plays(l, k, b, 0), 0)
  BY TimersOf DEF Stopped, WithTimers
<1>2. QED
  BY <1>1, TimersFact

LEMMA ScheduledFact ==
    \A l, k, b : Scheduled(Plays(l, k, b, 0)) = Plays(l, k, b, 1)
<1> SUFFICES ASSUME NEW l, NEW k, NEW b PROVE Scheduled(Plays(l, k, b, 0)) = Plays(l, k, b, 1)
  OBVIOUS
<1>1. Stopped(Plays(l, k, b, 0)) = Plays(l, k, b, 0)
  BY StoppedAgainFact
<1>2. Scheduled(Plays(l, k, b, 0)) = WithTimers(Plays(l, k, b, 0), 0 + 1)
  BY <1>1, TimersOf DEF Scheduled, WithTimers
<1>3. QED
  BY <1>2, TimersFact

\* A player of the page, and a control that is enabled.
LEMMA PlayerFacts ==
    ASSUME Inv, NEW i \in DOMAIN players
    PROVE  /\ players[i] \in Player /\ PlayerOK(players[i])
           /\ ~disturbed => /\ i = Len(players)
                            /\ feed = Rows(players[i].log, players[i].pos)
<1> USE InvFacts
<1>1. /\ players \in Seq(Player) /\ DOMAIN players = 1..Len(players) /\ Len(players) \in Nat
      /\ players # <<>>
  BY DEF PageTypes
<1>2. players[i] \in Player
  BY <1>1
<1>3. ASSUME ~disturbed PROVE i = Len(players) /\ feed = Rows(players[i].log, players[i].pos)
  <2>1. Len(players) = 1 /\ feed = Rows(Latest.log, Latest.pos)
    BY <1>1, <1>3 DEF PlayersOK
  <2>2. i = 1
    BY <1>1, <2>1
  <2>3. QED
    BY <2>1, <2>2 DEF Latest
<1>4. QED
  BY <1>2, <1>3 DEF PlayersOK

LEMMA LatestFacts ==
    ASSUME Inv, enabled # {}
    PROVE  /\ Len(players) \in DOMAIN players /\ Latest \in Player /\ PlayerOK(Latest)
           /\ ~disturbed => feed = Rows(Latest.log, Latest.pos)
<1>1. players # <<>> /\ players \in Seq(Player)
  BY InvFacts DEF PlayersOK, PageTypes
<1>2. Len(players) \in DOMAIN players
  BY <1>1
<1>3. QED
  BY <1>2, PlayerFacts DEF Latest

\* The latest player becomes p by the use of a control.
LEMMA UseControlKeepsInv ==
    ASSUME Inv, NEW control, NEW rows, NEW p, UseControl(control, p, rows),
           rows \in Seq(Events), p \in Player, PlayerOK(p),
           ~disturbed => rows = Rows(p.log, p.pos)
    PROVE  Inv'
<1>1. control \in enabled /\ Becomes(Len(players), p) /\ feed' = rows
  BY DEF UseControl
<1>2. Len(players) \in DOMAIN players
  BY <1>1, LatestFacts
<1>3. QED
  BY <1>1, <1>2, PlaybackKeepsInv

LEMMA PlayKeepsInv ==
    ASSUME Inv, Play
    PROVE  Inv'
<1>1. enabled # {} /\ ~Latest.playing
  BY DEF Play
<1>2. /\ Latest \in Player /\ PlayerOK(Latest)
      /\ ~disturbed => feed = Rows(Latest.log, Latest.pos)
  BY <1>1, LatestFacts
<1>3. PICK l \in Seq(Events), k \in Nat : Latest = Plays(l, k, FALSE, 0)
  BY <1>1, <1>2, PlayerFields DEF PlayerOK
<1>4. l # <<>> /\ k <= Len(l) /\ (~disturbed => feed = Rows(l, k)) /\ Len(l) \in Nat /\ Len(l) > 0
  <2>1. Latest.log = l /\ Latest.pos = k
    BY <1>3 DEF Plays
  <2>2. l # <<>> /\ Len(l) \in Nat /\ Len(l) > 0
    BY <1>2, <2>1 DEF PlayerOK
  <2>3. QED
    BY <1>2, <2>1, <2>2 DEF PlayerOK
<1> DEFINE over == Latest.pos >= Len(Latest.log)
           p == IF over THEN Sought(Latest, 0) ELSE Latest
<1>5. UseControl("play", Scheduled([p EXCEPT !.playing = TRUE]), IF over THEN <<>> ELSE feed)
  BY DEF Play
<1>6. over <=> k >= Len(l)
  BY <1>3 DEF Plays
<1>7. p = IF over THEN Plays(l, 0, FALSE, 0) ELSE Plays(l, k, FALSE, 0)
  <2>1. Sought(Plays(l, k, FALSE, 0), 0) = Plays(l, 0, FALSE, 0)
    <3>1. \A b : Sought(Plays(l, k, b, 0), 0) = Plays(l, 0, b, 0)
      BY SoughtFact
    <3>2. QED
      BY <3>1
  <2>2. QED
    BY <1>3, <2>1
<1> HIDE DEF over, p
<1> DEFINE q == Plays(l, IF over THEN 0 ELSE k, TRUE, 1)
<1>8. Scheduled([p EXCEPT !.playing = TRUE]) = q
  <2>1. \A n : WithPlaying(Plays(l, n, FALSE, 0), TRUE) = Plays(l, n, TRUE, 0)
    BY PlayingFact
  <2>2. [p EXCEPT !.playing = TRUE] = Plays(l, IF over THEN 0 ELSE k, TRUE, 0)
    BY <1>7, <2>1 DEF WithPlaying
  <2>3. \A n : Scheduled(Plays(l, n, TRUE, 0)) = Plays(l, n, TRUE, 1)
    BY ScheduledFact
  <2>4. QED
    BY <2>2, <2>3
<1>9. q \in Player /\ PlayerOK(q)
  <2> DEFINE n == IF over THEN 0 ELSE k
  <2>1. n \in Nat /\ n < Len(l)
    BY <1>4, <1>6
  <2> HIDE DEF n
  <2>2. Plays(l, n, TRUE, 1) \in Player /\ PlayerOK(Plays(l, n, TRUE, 1))
    BY <1>4, <2>1 DEF PlayerOK, Player, Plays
  <2>3. QED
    BY <2>2 DEF n
<1>10. /\ (IF over THEN <<>> ELSE feed) \in Seq(Events)
       /\ ~disturbed => (IF over THEN <<>> ELSE feed) = Rows(q.log, q.pos)
  <2>1. q.log = l /\ q.pos = IF over THEN 0 ELSE k
    BY DEF Plays
  <2>2. Rows(l, 0) = <<>>
    BY DEF Rows
  <2>3. feed \in Seq(Events)
    BY InvFacts DEF PageTypes
  <2> HIDE DEF q
  <2>4. QED
    BY <1>4, <2>1, <2>2, <2>3
<1> HIDE DEF q
<1>11. QED
  BY <1>5, <1>8, <1>9, <1>10, UseControlKeepsInv

\* The controls that stop the player and set its position.
LEMMA SoughtKeepsInv ==
    ASSUME Inv, NEW control, NEW k \in Nat, k <= Len(Latest.log), NEW rows,
           UseControl(control, Plays(Latest.log, k, FALSE, 0), rows),
           rows = Rows(Latest.log, k) \/ (rows = feed /\ k = Latest.pos)
    PROVE  Inv'
<1> DEFINE p == Plays(Latest.log, k, FALSE, 0)
<1>1. enabled # {}
  BY DEF UseControl
<1>2. /\ Latest \in Player /\ PlayerOK(Latest)
      /\ ~disturbed => feed = Rows(Latest.log, Latest.pos)
  BY <1>1, LatestFacts
<1>3. Latest.log \in Seq(Events)
  BY <1>2, PlayerFields
<1>4. p \in Player /\ p.log = Latest.log /\ p.pos = k /\ ~p.playing /\ p.timers = 0
  BY <1>3 DEF Plays, Player
<1> HIDE DEF p
<1>5. PlayerOK(p)
  BY <1>2, <1>4 DEF PlayerOK
<1>6. rows \in Seq(Events)
  BY <1>3, RowsFacts, InvFacts DEF PageTypes
<1>7. ~disturbed => rows = Rows(p.log, p.pos)
  BY <1>2, <1>4
<1>8. QED
  BY <1>4, <1>5, <1>6, <1>7, UseControlKeepsInv DEF p

LEMMA PausedFacts ==
    ASSUME NEW p \in Player, PlayerOK(p)
    PROVE  Paused(p) = Plays(p.log, p.pos, FALSE, 0)
<1>1. p = Plays(p.log, p.pos, p.playing, 0) \/ p = Plays(p.log, p.pos, p.playing, 1)
  BY PlayerFields DEF PlayerOK
<1>2. Stopped(p) = Plays(p.log, p.pos, p.playing, 0)
  BY <1>1, StoppedFact, StoppedAgainFact
<1>3. WithPlaying(Plays(p.log, p.pos, p.playing, 0), FALSE) = Plays(p.log, p.pos, FALSE, 0)
  <2>1. \A l, k, b : WithPlaying(Plays(l, k, b, 0), FALSE) = Plays(l, k, FALSE, 0)
    BY PlayingFact, Zenon
  <2>2. QED
    BY <2>1, Zenon
<1>4. Paused(p) = WithPlaying(Stopped(p), FALSE)
  BY DEF Paused, WithPlaying
<1>5. QED
  BY <1>2, <1>3, <1>4

LEMMA PauseKeepsInv ==
    ASSUME Inv, Pause
    PROVE  Inv'
<1>1. enabled # {} /\ UseControl("play", Paused(Latest), feed)
  BY DEF Pause
<1>2. Latest \in Player /\ PlayerOK(Latest)
  BY <1>1, LatestFacts
<1>3. Paused(Latest) = Plays(Latest.log, Latest.pos, FALSE, 0) /\ Latest.pos \in Nat
  BY <1>2, PausedFacts, PlayerFields
<1>4. Latest.pos <= Len(Latest.log)
  BY <1>2 DEF PlayerOK
<1>5. QED
  BY <1>1, <1>3, <1>4, SoughtKeepsInv

LEMMA ToStartKeepsInv ==
    ASSUME Inv, ToStart
    PROVE  Inv'
<1>1. enabled # {} /\ UseControl("toStart", Sought(Paused(Latest), 0), <<>>)
  BY DEF ToStart
<1>2. Latest \in Player /\ PlayerOK(Latest)
  BY <1>1, LatestFacts
<1>3. Paused(Latest) = Plays(Latest.log, Latest.pos, FALSE, 0) /\ Latest.log \in Seq(Events)
  BY <1>2, PausedFacts, PlayerFields
<1>4. Sought(Paused(Latest), 0) = Plays(Latest.log, 0, FALSE, 0)
  <2>1. \A b : Sought(Plays(Latest.log, Latest.pos, b, 0), 0)
                 = Plays(Latest.log, 0, b, 0)
    BY SoughtFact
  <2>2. QED
    BY <1>3, <2>1, Zenon
<1>5. <<>> = Rows(Latest.log, 0) /\ 0 \in Nat /\ 0 <= Len(Latest.log)
  BY <1>3 DEF Rows
<1>6. QED
  BY <1>1, <1>4, <1>5, SoughtKeepsInv

LEMMA ToEndKeepsInv ==
    ASSUME Inv, ToEnd
    PROVE  Inv'
<1>1. enabled # {} /\ UseControl("toEnd", Sought(Paused(Latest), Len(Latest.log)), Latest.log)
  BY DEF ToEnd
<1>2. Latest \in Player /\ PlayerOK(Latest)
  BY <1>1, LatestFacts
<1>3. Paused(Latest) = Plays(Latest.log, Latest.pos, FALSE, 0) /\ Latest.log \in Seq(Events)
  BY <1>2, PausedFacts, PlayerFields
<1>4. Sought(Paused(Latest), Len(Latest.log)) = Plays(Latest.log, Len(Latest.log), FALSE, 0)
  <2>1. \A b : Sought(Plays(Latest.log, Latest.pos, b, 0), Len(Latest.log))
                 = Plays(Latest.log, Len(Latest.log), b, 0)
    BY SoughtFact
  <2>2. QED
    BY <1>3, <2>1, Zenon
<1>5. /\ Latest.log = Rows(Latest.log, Len(Latest.log))
      /\ Len(Latest.log) \in Nat /\ Len(Latest.log) <= Len(Latest.log)
  BY <1>3, SubSeqFull DEF Rows
<1>6. QED
  BY <1>1, <1>4, <1>5, SoughtKeepsInv

LEMMA ScrubKeepsInv ==
    ASSUME Inv, NEW k \in 0..MaxEvents, Scrub(k)
    PROVE  Inv'
<1>1. enabled # {} /\ k <= Len(Latest.log) /\ k \in Nat
  BY PageAssumption DEF Scrub
<1>2. Latest \in Player /\ PlayerOK(Latest)
  BY <1>1, LatestFacts
<1>3. PICK l \in Seq(Events), n \in Nat, b \in BOOLEAN, t \in {0, 1} : Latest = Plays(l, n, b, t)
  <2>1. Latest.timers \in {0, 1}
    BY <1>2, PlayerFields DEF PlayerOK
  <2>2. QED
    BY <1>2, <2>1, PlayerFields
<1>4. Latest.log = l /\ Latest.playing = b /\ k <= Len(l) /\ l # <<>> /\ Len(l) \in Nat
  BY <1>1, <1>2, <1>3 DEF Plays, PlayerOK
<1> DEFINE p == Sought(Stopped(Latest), k)
           q == IF Latest.playing /\ k < Len(p.log) THEN Scheduled(p)
                ELSE [p EXCEPT !.playing = FALSE]
<1>5. UseControl("scrubber", q, Rows(p.log, k))
  BY DEF Scrub
<1>6. p = Plays(l, k, b, 0)
  <2>1. Latest = Plays(l, n, b, 0) \/ Latest = Plays(l, n, b, 1)
    BY <1>3
  <2>2. Stopped(Latest) = Plays(l, n, b, 0)
    BY <2>1, StoppedFact, StoppedAgainFact
  <2>3. QED
    BY <2>2, SoughtFact
<1>7. p.log = l
  BY <1>6 DEF Plays
<1>8. Rows(l, k) \in Seq(Events)
  BY <1>1, <1>4, RowsFacts
<1> HIDE DEF p
<1>9. CASE b /\ k < Len(l)
  <2>1. q = Plays(l, k, TRUE, 1)
    <3>1. q = Scheduled(p) /\ p = Plays(l, k, TRUE, 0)
      BY <1>4, <1>6, <1>7, <1>9
    <3> HIDE DEF q
    <3>2. QED
      BY <3>1, ScheduledFact
  <2>2. q \in Player /\ q.log = l /\ q.pos = k /\ q.playing /\ q.timers = 1
    <3>1. Plays(l, k, TRUE, 1) \in Player
      BY <1>1 DEF Plays, Player
    <3> HIDE DEF q
    <3>2. QED
      BY <2>1, <3>1 DEF Plays
  <2> HIDE DEF q
  <2>3. PlayerOK(q)
    BY <1>4, <1>9, <2>2 DEF PlayerOK
  <2>4. QED
    BY <1>5, <1>7, <1>8, <2>2, <2>3, UseControlKeepsInv
<1>10. CASE ~(b /\ k < Len(l))
  <2>1. q = Plays(l, k, FALSE, 0)
    <3>1. q = WithPlaying(p, FALSE)
      BY <1>4, <1>7, <1>10 DEF WithPlaying
    <3> HIDE DEF q
    <3>2. QED
      BY <1>6, <3>1, PlayingFact
  <2> HIDE DEF q
  <2>2. UseControl("scrubber", Plays(Latest.log, k, FALSE, 0), Rows(Latest.log, k))
    BY <1>4, <1>5, <1>7, <2>1
  <2>3. QED
    BY <1>1, <2>2, SoughtKeepsInv
<1>11. QED
  BY <1>9, <1>10

LEMMA StepKeepsInv ==
    ASSUME Inv, NEW i \in DOMAIN players, Step(i)
    PROVE  Inv'
<1>1. /\ players[i] \in Player /\ PlayerOK(players[i])
      /\ ~disturbed => feed = Rows(players[i].log, players[i].pos)
  BY PlayerFacts
<1>2. players[i].timers > 0
  BY DEF Step
<1>3. PICK l \in Seq(Events), k \in Nat : players[i] = Plays(l, k, TRUE, 1)
  <2>1. players[i].playing = TRUE /\ players[i].timers = 1
    BY <1>1, <1>2, PlayerFields DEF PlayerOK
  <2>2. QED
    BY <1>1, <2>1, PlayerFields
<1>4. k < Len(l) /\ Len(l) \in Nat /\ l # <<>> /\ players[i].log = l /\ players[i].pos = k
  BY <1>1, <1>3 DEF PlayerOK, Plays
<1> DEFINE p == [players[i] EXCEPT !.pos = @ + 1, !.timers = @ - 1]
           q == IF p.pos >= Len(p.log) THEN [p EXCEPT !.playing = FALSE]
                                       ELSE [p EXCEPT !.timers = @ + 1]
<1>5. Becomes(i, q) /\ feed' = Append(feed, l[k + 1])
  BY <1>4 DEF Step
<1>6. p = Plays(l, k + 1, TRUE, 0)
  <2>1. players[i].pos = k /\ players[i].timers = 1 /\ 1 - 1 = 0
    BY <1>3 DEF Plays
  <2>2. p = WithTimers(Sought(players[i], k + 1), 0)
    BY <2>1 DEF WithTimers, Sought
  <2> HIDE DEF p
  <2>3. Sought(players[i], k + 1) = Plays(l, k + 1, TRUE, 1)
    <3>1. \A b : Sought(Plays(l, k, b, 1), k + 1) = Plays(l, k + 1, b, 1)
      BY SoughtFact
    <3>2. QED
      BY <1>3, <3>1, Zenon
  <2>4. QED
    <3>1. \A b : WithTimers(Plays(l, k + 1, b, 1), 0) = Plays(l, k + 1, b, 0)
      BY TimersFact
    <3>2. QED
      BY <2>2, <2>3, <3>1, Zenon
<1> HIDE DEF p
<1>7. p.log = l /\ p.pos = k + 1 /\ p.timers = 0
  BY <1>6 DEF Plays
<1>8. q = IF k + 1 >= Len(l) THEN Plays(l, k + 1, FALSE, 0) ELSE Plays(l, k + 1, TRUE, 1)
  <2>1. q = IF k + 1 >= Len(l) THEN WithPlaying(p, FALSE) ELSE WithTimers(p, 1)
    BY <1>7 DEF WithPlaying, WithTimers
  <2>2. WithPlaying(p, FALSE) = Plays(l, k + 1, FALSE, 0)
    <3>1. \A b : WithPlaying(Plays(l, k + 1, b, 0), FALSE) = Plays(l, k + 1, FALSE, 0)
      BY PlayingFact, Zenon
    <3>2. QED
      BY <1>6, <3>1, Zenon
  <2>3. WithTimers(p, 1) = Plays(l, k + 1, TRUE, 1)
    <3>1. \A b : WithTimers(Plays(l, k + 1, b, 0), 1) = Plays(l, k + 1, b, 1)
      BY TimersFact
    <3>2. QED
      BY <1>6, <3>1, Zenon
  <2> HIDE DEF q
  <2>4. QED
    BY <2>1, <2>2, <2>3
<1> HIDE DEF q
<1>9. q \in Player /\ PlayerOK(q) /\ q.log = l /\ q.pos = k + 1
  <2>1. CASE k + 1 >= Len(l)
    BY <1>4, <1>8, <2>1 DEF Plays, Player, PlayerOK
  <2>2. CASE ~(k + 1 >= Len(l))
    BY <1>4, <1>8, <2>2 DEF Plays, Player, PlayerOK
  <2>3. QED
    BY <2>1, <2>2
<1>10. feed' \in Seq(Events)
  <2>1. feed \in Seq(Events) /\ l[k + 1] \in Events
    BY <1>4, InvFacts DEF PageTypes
  <2>2. QED
    BY <1>5, <2>1
<1>11. ~disturbed => feed' = Rows(q.log, q.pos)
  <2>1. Rows(l, k + 1) = Append(Rows(l, k), l[k + 1])
    BY <1>4, RowsFacts
  <2>2. QED
    BY <1>1, <1>4, <1>5, <1>9, <2>1
<1>12. QED
  BY <1>5, <1>9, <1>10, <1>11, PlaybackKeepsInv

-----------------------------------------------------------------------------
(* The invariant, and what follows from it. *)

LEMMA InitInv == Init => Inv
<1> SUFFICES ASSUME Init PROVE Inv
  OBVIOUS
<1>1. /\ status = "live" /\ log = <<>> /\ toPublish = {} /\ conn = "none" /\ frames = <<>>
      /\ mode = "boot" /\ session = "live" /\ opened = FALSE /\ holding = FALSE /\ held = <<>>
      /\ seen = {} /\ feed = <<>> /\ players = <<>> /\ enabled = {} /\ disturbed = FALSE
      /\ faults = 0 /\ missed = {} /\ failed = {}
  BY DEF Init
<1> DEFINE c == [n |-> 0, kind |-> "main", answer |-> Waiting]
<1>2. calls = {c}
  BY DEF Init
<1>3. c \in ACall /\ c.n = 0 /\ c.kind = "main" /\ c.answer = Waiting
  BY WaitingFacts DEF ACall, Kinds
<1> HIDE DEF c
<1>4. IsFiniteSet(calls)
  BY <1>2, FS_Singleton
<1>5. DOMAIN <<>> = {} /\ Range(<<>>) = {} /\ Len(<<>>) = 0
  BY DEF Range
<1>6. ServerTypes
  <2>1. <<>> \in Seq(Events) /\ 0 <= MaxEvents
    BY PageAssumption
  <2>2. QED
    BY <1>1, <1>5, <2>1 DEF ServerTypes
<1>7. StreamTypes /\ PageTypes
  <2>1. <<>> \in Seq(Events) /\ <<>> \in Seq(Frame) /\ <<>> \in Seq(Player)
    OBVIOUS
  <2>2. QED
    BY <1>1, <1>2, <1>3, <1>4, <2>1 DEF StreamTypes, PageTypes
<1>8. OnlyStored
  BY <1>1, <1>2, <1>3, <1>5, WaitingFacts DEF OnlyStored
<1>9. CallsOK /\ ModesOK /\ LiveFeedOK /\ ReplayOnlyAfterEnd /\ LiveFeedComplete
  BY <1>1, <1>2, <1>3 DEF CallsOK, ModesOK, LiveFeedOK, ReplayOnlyAfterEnd, LiveFeedComplete
<1>10. PlayersOK
  BY <1>1, <1>2, <1>3, <1>5 DEF PlayersOK
<1>11. QED
  BY <1>6, <1>7, <1>8, <1>9, <1>10 DEF Inv, Types

LEMMA StutterKeepsInv ==
    ASSUME Inv, UNCHANGED vars
    PROVE  Inv'
<1> USE InvFacts
<1>1. UNCHANGED <<status, log, toPublish, conn, frames, mode, session, opened, holding, held, seen,
                  feed, players, enabled, disturbed, calls, faults, missed, failed>>
  BY DEF vars, serverVars, pageVars, playback
<1>2. ServerTypes' /\ StreamTypes' /\ PageTypes' /\ OnlyStored'
  BY <1>1 DEF ServerTypes, StreamTypes, PageTypes, OnlyStored, Stored
<1>3. CallsOK' /\ ModesOK' /\ LiveFeedOK' /\ ReplayOnlyAfterEnd' /\ LiveFeedComplete'
  BY <1>1 DEF CallsOK, ModesOK, LiveFeedOK, ReplayOnlyAfterEnd, LiveFeedComplete
<1>4. PlayersOK'
  BY <1>1 DEF PlayersOK, Latest
<1>5. QED
  BY <1>2, <1>3, <1>4 DEF Inv, Types

LEMMA InvInductive == Inv /\ [Next]_vars => Inv'
<1> SUFFICES ASSUME Inv, [Next]_vars PROVE Inv'
  OBVIOUS
<1>1. CASE UNCHANGED vars
  BY <1>1, StutterKeepsInv
<1>2. CASE StoreEvent \/ EndSession \/ Connect \/ LoseConnection
  BY <1>2, StoreEventKeepsInv, EndSessionKeepsInv, ConnectKeepsInv, LoseConnectionKeepsInv
<1>3. ASSUME NEW m \in toPublish, Publish(m) PROVE Inv'
  BY <1>3, PublishKeepsInv
<1>4. ASSUME NEW c \in calls, Answer(c) \/ FailCall(c) \/ Uses(c) PROVE Inv'
  BY <1>4, AnswerKeepsInv, FailCallKeepsInv, BootKeepsInv, BackfillKeepsInv, RereadKeepsInv,
     ReplayKeepsInv DEF Uses
<1>5. CASE OnFrame
  BY <1>5, OnOpenKeepsInv, OnActivityKeepsInv, OnSessionEndedKeepsInv DEF OnFrame
<1>6. CASE Play \/ Pause \/ ToStart \/ ToEnd
  BY <1>6, PlayKeepsInv, PauseKeepsInv, ToStartKeepsInv, ToEndKeepsInv
<1>7. ASSUME NEW k \in 0..MaxEvents, Scrub(k) PROVE Inv'
  BY <1>7, ScrubKeepsInv
<1>8. ASSUME NEW i \in DOMAIN players, Step(i) PROVE Inv'
  BY <1>8, StepKeepsInv
<1>9. QED
  BY <1>1, <1>2, <1>3, <1>4, <1>5, <1>6, <1>7, <1>8 DEF Next

LEMMA AlwaysInv == Spec => []Inv
BY InitInv, InvInductive, PTL DEF Spec

\* The page, the stream and the server keep the types of their state.
THEOREM SessionPageTypes == Spec => []TypeOK
<1>1. Inv => TypeOK
  <2> SUFFICES ASSUME Inv PROVE TypeOK
    OBVIOUS
  <2> USE InvFacts
  <2>1. toPublish \subseteq Events \cup {TheEnd}
    BY LogFacts DEF ServerTypes
  <2>2. \A i \in DOMAIN players : players[i] \in Player
    BY DEF PageTypes
  <2>3. \A c \in calls : c \in ACall
    BY DEF StreamTypes
  <2>4. QED
    BY <2>1, <2>2, <2>3 DEF TypeOK, ServerTypes, StreamTypes, PageTypes, Frame, ACall, Player, Kinds
<1>2. QED
  BY <1>1, AlwaysInv, PTL

\* The feed of a live page has stored events only and each of them once,
\* however the backfill, what was held back and the frames overlap.
THEOREM FeedShowsOnce == Spec => []LiveFeedOnce
<1>1. Inv => LiveFeedOnce
  BY InvFacts, LogFacts DEF LiveFeedOK, OnlyStored, LiveFeedOnce
<1>2. QED
  BY <1>1, AlwaysInv, PTL

\* A live page drops nothing by itself: what its feed lacks is under way, was
\* published to no open stream, or was lost with the connection.
THEOREM FeedDropsNothing == Spec => []LiveFeedComplete
<1>1. Inv => LiveFeedComplete
  BY InvFacts
<1>2. QED
  BY <1>1, AlwaysInv, PTL

\* The page turns to the replay only after the end, and closes its stream.
THEOREM ReplayFollowsEnd == Spec => []ReplayOnlyAfterEnd
<1>1. Inv => ReplayOnlyAfterEnd
  BY InvFacts
<1>2. QED
  BY <1>1, AlwaysInv, PTL

\* The timer, the flag and the position of a player agree after any sequence
\* of play, pause, seek and timer, and an undisturbed replay has one player
\* and shows the events up to its position.
THEOREM ReplayStaysInStep == Spec => []PlaybackInStep
<1>1. Inv => PlaybackInStep
  <2> SUFFICES ASSUME Inv PROVE PlaybackInStep
    OBVIOUS
  <2>1. \A i \in DOMAIN players : PlayerOK(players[i])
    BY InvFacts DEF PlayersOK
  <2>2. players # <<>> /\ ~disturbed => Len(players) = 1 /\ feed = Rows(Latest.log, Latest.pos)
    BY InvFacts DEF PlayersOK
  <2>3. QED
    BY <2>1, <2>2 DEF PlayerOK, PlaybackInStep
<1>2. QED
  BY <1>1, AlwaysInv, PTL
===============================================================================
