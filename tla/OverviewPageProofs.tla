------------------------- MODULE OverviewPageProofs --------------------------
(***************************************************************************)
(* Proofs about OverviewPage.tla, for every finite set of sessions and     *)
(* every bound.  Two invariants carry them.  What any answer of the list   *)
(* holds of a session's key events is an earlier state of the same growing *)
(* set, so that of two answers one contains the other (Snapshots).  And    *)
(* what the page does not show yet is covered: by a message on its way, by *)
(* a list call in flight, or it is recorded as missed (Covered).           *)
(***************************************************************************)
EXTENDS OverviewPage, SequenceTheorems, FiniteSetTheorems, TLAPS

(* The inductive invariant. *)

SessionMsg == [kind : {"session"}, id : Sessions, row : Rows, key : {0}]
ActivityMsg == [kind : {"activity"}, id : Sessions, row : {NoRow}, key : Keys]
Msg == SessionMsg \cup ActivityMsg
Frame == Msg \cup {OpenFrame}

Table == [Sessions -> Rows \cup {NoRow}]
KeySets == [Sessions -> SUBSET Keys]
ListCall == [n : Nat, boot : BOOLEAN, answer : (Table \X KeySets) \cup {Waiting}]

ServerTypes ==
    /\ table \in Table /\ keys \in KeySets
    /\ toPublish \subseteq Msg
    /\ writes \in 0..MaxWrites

StreamTypes ==
    /\ conn \in {"none", "connecting", "open"}
    /\ frames \in Seq(Frame)
    /\ calls \subseteq ListCall /\ asked \in Nat
    /\ faults \in Nat
    /\ missed \subseteq Sessions /\ failed \in BOOLEAN

PageTypes ==
    /\ opened \in BOOLEAN
    /\ entries \in [Sessions -> Entry]
    /\ order \in SetToSeqs(Known(entries))
    /\ newest \in [Sessions -> Nat]
    /\ heard \in KeySets /\ listed \in KeySets
    /\ blurred \subseteq Sessions

\* A row that is or was the row of id: it is older than the stored one, or that.
IsRowOf(row, id) ==
    /\ row.rev <= table[id].rev
    /\ row.rev = table[id].rev => row = table[id]

Comparable(S, T) == S \subseteq T \/ T \subseteq S

\* The server counts changes, numbers key events, and stores none without a row.
ServerOK ==
    /\ \A id \in Sessions : table[id].rev <= writes + 1
    /\ \A id \in Sessions : table[id] = NoRow => keys[id] = {}
    /\ Stored = 1..Cardinality(Stored)

\* A message tells what is stored; a key event the page has not heard of yet.
MsgOK(m) ==
    /\ m.kind = "session" => IsRowOf(m.row, m.id)
    /\ m.kind = "activity" => m.key \in keys[m.id] /\ m.key \notin heard[m.id]

MessagesOK ==
    /\ \A m \in toPublish : MsgOK(m)
    /\ \A i \in DOMAIN frames : MsgOK(frames[i])

\* No key event is announced twice.
AnnouncedOnce ==
    /\ \A i, j \in DOMAIN frames :
          i # j /\ frames[i].kind = "activity" => frames[i] # frames[j]
    /\ \A i \in DOMAIN frames : frames[i].kind = "activity" => frames[i] \notin toPublish

\* What an answer says of id was stored at once; S is another snapshot of keys[id].
AnswerOK(c, id) ==
    /\ IsRowOf(c.answer[1][id], id)
    /\ c.answer[2][id] \subseteq keys[id]
    /\ c.answer[1][id] = NoRow => c.answer[2][id] = {}

Snapshots(id) == {listed[id]} \cup {c.answer[2][id] : c \in {d \in calls : d.answer # Waiting}}

AnswersOK ==
    \A id \in Sessions :
        /\ \A c \in calls : c.answer # Waiting => AnswerOK(c, id)
        /\ \A S, T \in Snapshots(id) : Comparable(S, T)

PageOK ==
    \A id \in Sessions :
        /\ IsRowOf(entries[id].session, id)
        /\ newest[id] <= table[id].rev
        /\ heard[id] \subseteq keys[id] /\ listed[id] \subseteq keys[id]

\* The count, as far as messages and lists have not crossed, is exact.
CountOK(id) ==
    /\ entries[id].keyCount >= Cardinality(heard[id])
    /\ entries[id].keyCount >= Cardinality(listed[id])
    /\ id \notin blurred => entries[id].keyCount = Cardinality(heard[id] \cup listed[id])

CountsOK == \A id \in Sessions : CountOK(id)

IsOnItsWay(m) == m \in toPublish \/ \E i \in DOMAIN frames : frames[i] = m

RowMsg(id) == [kind |-> "session", id |-> id, row |-> table[id], key |-> 0]

\* The page has seen the stored row of id, or will.
RowCovered(id) ==
    \/ newest[id] = table[id].rev
    \/ IsOnItsWay(RowMsg(id))
    \/ \E c \in calls : c.answer = Waiting \/ c.answer[1][id] = table[id]

KeyCovered(id, key) ==
    \/ key \in heard[id] \cup listed[id]
    \/ IsOnItsWay(ActivityFrame(id, key))
    \/ \E c \in calls : c.answer = Waiting \/ key \in c.answer[2][id]

Covered ==
    failed \/ \A id \in Sessions \ missed :
                 RowCovered(id) /\ \A key \in keys[id] : KeyCovered(id, key)

Types == ServerTypes /\ StreamTypes /\ PageTypes

Inv ==
    /\ Types /\ ServerOK /\ MessagesOK /\ AnnouncedOnce /\ AnswersOK
    /\ PageOK /\ CountsOK /\ Covered /\ LiveRowsFirst

-----------------------------------------------------------------------------
(* Sets of key events, frames, and the parts of Inv that a step leaves alone. *)

LEMMA KeySetFacts ==
    /\ \A S \in SUBSET Keys : IsFiniteSet(S) /\ Cardinality(S) \in Nat
    /\ \A T \in SUBSET Keys : \A S \in SUBSET T : Cardinality(S) <= Cardinality(T)
    /\ \A S \in SUBSET Keys : \A key \in Keys :
          Cardinality(S \cup {key}) = IF key \in S THEN Cardinality(S) ELSE Cardinality(S) + 1
<1>1. IsFiniteSet(Keys)
  BY FS_Interval, OverviewAssumption DEF Keys
<1>2. \A S \in SUBSET Keys : IsFiniteSet(S) /\ Cardinality(S) \in Nat
  BY <1>1, FS_Subset, FS_CardinalityType
<1>3. \A T \in SUBSET Keys : \A S \in SUBSET T : Cardinality(S) <= Cardinality(T)
  BY <1>2, FS_Subset
<1>4. \A S \in SUBSET Keys : \A key \in Keys :
        Cardinality(S \cup {key}) = IF key \in S THEN Cardinality(S) ELSE Cardinality(S) + 1
  BY <1>2, FS_AddElement
<1>5. QED
  BY <1>2, <1>3, <1>4

LEMMA RowFacts ==
    /\ NoRow \notin Rows /\ NoRow.status = "absent" /\ NoRow.rev = 0
    /\ \A row \in Rows : row.rev \in Nat \ {0} /\ row.status \in {"live", "ended"}
    /\ \A row \in Rows \cup {NoRow} : row.rev \in Nat
<1>1. NoRow.status = "absent" /\ NoRow.rev = 0
  BY DEF NoRow
<1>2. ASSUME NEW row \in Rows
      PROVE  row.status \in {"live", "ended"} /\ row.rev \in Nat \ {0}
  <2>1. row.status \in {"live", "ended"} /\ row.rev \in 1..MaxWrites + 1
    BY DEF Rows
  <2>2. QED
    BY <2>1, OverviewAssumption
<1>3. QED
  BY <1>1, <1>2

LEMMA FrameFacts ==
    ASSUME NEW m \in Frame
    PROVE  /\ m.kind = "session" => m \in SessionMsg
           /\ m.kind = "activity" => m \in ActivityMsg
           /\ m.kind = "open" => m = OpenFrame
<1>1. m \in SessionMsg \/ m \in ActivityMsg \/ m = OpenFrame
  BY DEF Frame, Msg
<1>2. m \in SessionMsg => m.kind = "session"
  BY DEF SessionMsg
<1>3. m \in ActivityMsg => m.kind = "activity"
  BY DEF ActivityMsg
<1>4. OpenFrame.kind = "open"
  BY DEF OpenFrame
<1>5. QED
  BY <1>1, <1>2, <1>3, <1>4

LEMMA SameActivity ==
    ASSUME NEW a \in ActivityMsg, NEW b \in ActivityMsg, a.id = b.id, a.key = b.key
    PROVE  a = b
BY DEF ActivityMsg

LEMMA AppendFrame ==
    ASSUME frames \in Seq(Frame), NEW m \in Frame, frames' = Append(frames, m)
    PROVE  /\ frames' \in Seq(Frame)
           /\ \A i \in DOMAIN frames : i \in DOMAIN frames' /\ frames'[i] = frames[i]
           /\ \E n \in DOMAIN frames' :
                 /\ frames'[n] = m
                 /\ \A i \in DOMAIN frames' : i = n \/ i \in DOMAIN frames
<1> DEFINE n == Len(frames)
<1>1. /\ n \in Nat /\ frames' \in Seq(Frame) /\ Len(frames') = n + 1 /\ frames'[n + 1] = m
      /\ \A i \in 1..n : frames'[i] = frames[i]
  BY AppendProperties, LenProperties
<1>2. DOMAIN frames = 1..n /\ DOMAIN frames' = 1..(n + 1)
  BY <1>1, LenProperties
<1> HIDE DEF n
<1>3. n + 1 \in DOMAIN frames' /\ \A i \in DOMAIN frames' : i = n + 1 \/ i \in DOMAIN frames
  BY <1>1, <1>2
<1>4. \A i \in DOMAIN frames : i \in DOMAIN frames' /\ frames'[i] = frames[i]
  BY <1>1, <1>2
<1>5. QED
  BY <1>1, <1>3, <1>4

LEMMA TailFrame ==
    ASSUME frames \in Seq(Frame), NEW kind, NextFrame(kind)
    PROVE  /\ Head(frames) \in Frame /\ Head(frames).kind = kind
           /\ frames' \in Seq(Frame)
           /\ 1 \in DOMAIN frames /\ frames[1] = Head(frames)
           /\ \A i \in DOMAIN frames' :
                 i \in Nat \ {0} /\ i + 1 \in DOMAIN frames /\ frames'[i] = frames[i + 1]
           /\ \A i \in DOMAIN frames :
                 frames[i] = Head(frames) \/ \E j \in DOMAIN frames' : frames'[j] = frames[i]
<1> DEFINE n == Len(frames)
<1>1. frames # <<>> /\ Head(frames).kind = kind /\ frames' = Tail(frames)
  BY DEF NextFrame
<1>2. /\ n \in Nat \ {0} /\ frames' \in Seq(Frame) /\ Len(frames') = n - 1
      /\ Head(frames) \in Frame
      /\ \A i \in 1..(n - 1) : frames'[i] = frames[i + 1]
  BY <1>1, HeadTailProperties, LenProperties, EmptySeq
<1>3. DOMAIN frames = 1..n /\ DOMAIN frames' = 1..(n - 1)
  BY <1>2, LenProperties
<1>4. Head(frames) = frames[1]
  OBVIOUS
<1> HIDE DEF n
<1>5. \A i \in DOMAIN frames' :
        i \in Nat \ {0} /\ i + 1 \in DOMAIN frames /\ frames'[i] = frames[i + 1]
  BY <1>2, <1>3
<1>6. ASSUME NEW i \in DOMAIN frames, i # 1
      PROVE  \E j \in DOMAIN frames' : frames'[j] = frames[i]
  <2>1. i - 1 \in 1..(n - 1) /\ (i - 1) + 1 = i
    BY <1>2, <1>3, <1>6
  <2>2. QED
    BY <1>2, <1>3, <2>1
<1>7. 1 \in DOMAIN frames
  BY <1>2, <1>3
<1>8. \A i \in DOMAIN frames :
        frames[i] = Head(frames) \/ \E j \in DOMAIN frames' : frames'[j] = frames[i]
  BY <1>4, <1>6
<1>9. QED
  BY <1>1, <1>2, <1>4, <1>5, <1>7, <1>8

LEMMA ServerSame ==
    ASSUME ServerOK, UNCHANGED <<table, keys, writes>> PROVE ServerOK'
BY DEF ServerOK, Stored

LEMMA MessagesSame ==
    ASSUME MessagesOK, UNCHANGED <<toPublish, frames, table, keys, heard>> PROVE MessagesOK'
BY DEF MessagesOK, MsgOK, IsRowOf

LEMMA AnnouncedSame ==
    ASSUME AnnouncedOnce, UNCHANGED <<toPublish, frames>> PROVE AnnouncedOnce'
BY DEF AnnouncedOnce

LEMMA AnswersSame ==
    ASSUME AnswersOK, UNCHANGED <<calls, table, keys, listed>> PROVE AnswersOK'
BY DEF AnswersOK, AnswerOK, IsRowOf, Snapshots

LEMMA PageSame ==
    ASSUME PageOK, UNCHANGED <<entries, table, newest, heard, keys, listed>> PROVE PageOK'
BY DEF PageOK, IsRowOf

LEMMA CountsSame ==
    ASSUME CountsOK, UNCHANGED <<entries, heard, listed, blurred>> PROVE CountsOK'
BY DEF CountsOK, CountOK

LEMMA LiveSame ==
    ASSUME LiveRowsFirst, UNCHANGED <<order, entries>> PROVE LiveRowsFirst'
BY DEF LiveRowsFirst

LEMMA PageTypesSame ==
    ASSUME PageTypes, UNCHANGED pageVars PROVE PageTypes'
BY DEF PageTypes, pageVars, Known

-----------------------------------------------------------------------------
(* The server writes. *)

LEMMA InvFacts ==
    ASSUME Inv
    PROVE  /\ ServerTypes /\ StreamTypes /\ PageTypes
           /\ ServerOK /\ MessagesOK /\ AnnouncedOnce /\ AnswersOK /\ PageOK /\ CountsOK
           /\ Covered /\ LiveRowsFirst
BY DEF Inv, Types

\* A commit is on its way to the stream, or its session counts as missed.
LEMMA CommitsFacts ==
    ASSUME StreamTypes, NEW m, m.id \in Sessions, Commits(m)
    PROVE  /\ toPublish \subseteq toPublish' /\ toPublish' \subseteq toPublish \cup {m}
           /\ missed \subseteq missed' /\ missed' \subseteq Sessions /\ faults' \in Nat
           /\ m \in toPublish' \/ m.id \in missed'
BY DEF Commits, StreamTypes

\* A row is written: the older rows stay what they are, rows of the past.
LEMMA WriteKeepsInv ==
    ASSUME Inv, NEW id \in Sessions, NEW status \in {"live", "ended"}, NEW started \in Starts,
           WriteRow(id, status, started)
    PROVE  Inv'
<1> USE InvFacts
<1> DEFINE old == table[id]
<1>0. PICK new : new = [status |-> status, started |-> started, rev |-> old.rev + 1]
  OBVIOUS
<1>1. /\ table' = [table EXCEPT ![id] = new] /\ writes < MaxWrites /\ writes' = writes + 1
      /\ Commits(SessionFrame(id))
      /\ UNCHANGED <<keys, conn, frames, pageVars, calls, asked, failed>>
  BY <1>0 DEF WriteRow
<1>2. /\ table \in Table /\ writes \in 0..MaxWrites /\ MaxWrites \in Nat
      /\ old \in Rows \cup {NoRow} /\ old.rev \in Nat /\ old.rev <= writes + 1
  <2>1. table \in Table /\ writes \in 0..MaxWrites /\ MaxWrites \in Nat
    BY OverviewAssumption DEF ServerTypes
  <2>2. old \in Rows \cup {NoRow}
    BY <2>1 DEF Table
  <2>3. QED
    BY <2>1, <2>2, RowFacts DEF ServerOK
<1>3. new \in Rows /\ new.rev = old.rev + 1
  <2>1. old.rev + 1 \in 1..MaxWrites + 1
    BY <1>1, <1>2
  <2>2. QED
    BY <1>0, <2>1 DEF Rows
<1>4. /\ table'[id] = new /\ table' \in Table
      /\ \A x \in Sessions : x # id => table'[x] = table[x]
  BY <1>1, <1>2, <1>3 DEF Table
<1>5. PICK msg : /\ msg = [kind |-> "session", id |-> id, row |-> new, key |-> 0]
                 /\ msg = SessionFrame(id) /\ msg \in SessionMsg
  <2> DEFINE m == [kind |-> "session", id |-> id, row |-> new, key |-> 0]
  <2>1. m = SessionFrame(id)
    BY <1>4 DEF SessionFrame
  <2>2. m \in SessionMsg
    BY <1>3 DEF SessionMsg
  <2>3. QED
    BY <2>1, <2>2
<1> HIDE DEF old
<1>c. /\ toPublish \subseteq toPublish' /\ toPublish' \subseteq toPublish \cup {msg}
      /\ missed \subseteq missed' /\ missed' \subseteq Sessions /\ faults' \in Nat
      /\ msg \in toPublish' \/ id \in missed'
  <2>1. msg.id = id /\ Commits(msg)
    BY <1>1, <1>5
  <2>2. QED
    BY <2>1, CommitsFacts
<1>6. ServerTypes'
  <2>1. writes' \in 0..MaxWrites
    BY <1>1, <1>2
  <2>2. toPublish' \subseteq Msg /\ keys' \in KeySets
    BY <1>1, <1>5, <1>c DEF ServerTypes, Msg
  <2>3. QED
    BY <1>4, <2>1, <2>2 DEF ServerTypes
<1>7. StreamTypes'
  BY <1>1, <1>c DEF StreamTypes
<1>8. ServerOK'
  <2>1. \A x \in Sessions : table'[x].rev <= writes' + 1
    <3> SUFFICES ASSUME NEW x \in Sessions PROVE table'[x].rev <= writes' + 1
      OBVIOUS
    <3>1. table[x].rev <= writes + 1 /\ table[x].rev \in Nat
      BY <1>2, RowFacts DEF ServerOK, Table
    <3>2. QED
      BY <1>1, <1>2, <1>3, <1>4, <3>1
  <2>2. \A x \in Sessions : table'[x] = NoRow => keys'[x] = {}
    BY <1>1, <1>3, <1>4, RowFacts DEF ServerOK
  <2>3. Stored' = Stored
    BY <1>1 DEF Stored
  <2>4. QED
    BY <2>1, <2>2, <2>3 DEF ServerOK
<1>9. ASSUME NEW row \in Rows \cup {NoRow}, NEW x \in Sessions, IsRowOf(row, x)
      PROVE  IsRowOf(row, x)'
  <2>1. row.rev \in Nat
    BY RowFacts
  <2>2. QED
    BY <1>2, <1>3, <1>4, <1>9, <2>1 DEF IsRowOf, old
<1>10. IsRowOf(new, id)'
  BY <1>3, <1>4, <1>2 DEF IsRowOf
<1>11. MessagesOK'
  <2>1. ASSUME NEW m \in Frame, MsgOK(m) PROVE MsgOK(m)'
    <3>1. m.kind = "session" => m.row \in Rows /\ m.id \in Sessions
      BY FrameFacts DEF SessionMsg
    <3>2. QED
      BY <1>1, <1>9, <2>1, <3>1 DEF MsgOK, pageVars
  <2>2. MsgOK(msg)'
    BY <1>5, <1>10 DEF MsgOK
  <2>3. \A m \in toPublish : m \in Frame
    BY DEF ServerTypes, Frame
  <2>4. \A i \in DOMAIN frames : frames[i] \in Frame
    BY DEF StreamTypes
  <2>5. QED
    BY <1>1, <1>c, <2>1, <2>2, <2>3, <2>4 DEF MessagesOK
<1>12. AnnouncedOnce'
  <2>1. msg.kind = "session"
    BY <1>5
  <2>2. QED
    BY <1>1, <1>c, <2>1 DEF AnnouncedOnce
<1>13. AnswersOK'
  <2>1. ASSUME NEW x \in Sessions, NEW c \in calls, c.answer # Waiting
        PROVE  AnswerOK(c, x)'
    <3>1. c.answer[1][x] \in Rows \cup {NoRow} /\ AnswerOK(c, x)
      BY <2>1 DEF StreamTypes, ListCall, Table, AnswersOK
    <3>2. QED
      BY <1>1, <1>9, <3>1 DEF AnswerOK
  <2>2. \A x \in Sessions : Snapshots(x)' = Snapshots(x)
    BY <1>1 DEF Snapshots, pageVars
  <2>3. QED
    BY <1>1, <2>1, <2>2 DEF AnswersOK
<1>14. PageOK'
  <2> SUFFICES ASSUME NEW x \in Sessions
               PROVE  /\ IsRowOf(entries[x].session, x)' /\ newest'[x] <= table'[x].rev
                      /\ heard'[x] \subseteq keys'[x] /\ listed'[x] \subseteq keys'[x]
    BY DEF PageOK
  <2>1. entries[x].session \in Rows \cup {NoRow} /\ newest[x] \in Nat
    BY DEF PageTypes, Entry
  <2>2. IsRowOf(entries[x].session, x) /\ newest[x] <= table[x].rev
    BY DEF PageOK
  <2>3. newest[x] <= table'[x].rev
    BY <1>2, <1>3, <1>4, <2>1, <2>2 DEF old
  <2>4. QED
    BY <1>1, <1>9, <2>1, <2>2, <2>3 DEF PageOK, pageVars
<1>15. CountsOK' /\ LiveRowsFirst' /\ PageTypes'
  BY <1>1, CountsSame, LiveSame, PageTypesSame DEF pageVars
<1>16. Covered'
  <2> SUFFICES ASSUME ~failed, NEW x \in Sessions \ missed'
               PROVE  RowCovered(x)' /\ \A key \in keys[x] : KeyCovered(x, key)'
    BY <1>1 DEF Covered
  <2>1. RowCovered(x) /\ \A key \in keys[x] : KeyCovered(x, key)
    BY <1>c DEF Covered
  <2>2. \A m : IsOnItsWay(m) => IsOnItsWay(m)'
    BY <1>1, <1>c DEF IsOnItsWay
  <2>3. \A key \in keys[x] : KeyCovered(x, key)'
    BY <1>1, <2>1, <2>2 DEF KeyCovered, pageVars, ActivityFrame
  <2>4. CASE x = id
    BY <1>1, <1>4, <1>5, <1>c, <2>3, <2>4 DEF RowCovered, RowMsg, IsOnItsWay
  <2>5. CASE x # id
    <3>1. table'[x] = table[x] /\ RowMsg(x)' = RowMsg(x)
      BY <1>4, <2>5 DEF RowMsg
    <3>2. QED
      BY <1>1, <2>1, <2>2, <2>3, <3>1 DEF RowCovered, pageVars
  <2>6. QED
    BY <2>4, <2>5
<1>17. QED
  BY <1>6, <1>7, <1>8, <1>11, <1>12, <1>13, <1>14, <1>15, <1>16 DEF Inv, Types

LEMMA SessionStepKeepsInv ==
    ASSUME Inv, NEW id \in Sessions, CreateSession(id) \/ ChangeSession(id) \/ EndSession(id)
    PROVE  Inv'
<1>1. table[id].status = "live" => table[id].started \in Starts
  <2>1. table[id] \in Rows \cup {NoRow}
    BY InvFacts DEF ServerTypes, Table
  <2>2. QED
    BY <2>1, RowFacts DEF Rows
<1>2. CASE CreateSession(id)
  BY <1>2, WriteKeepsInv DEF CreateSession, Starts
<1>3. CASE ChangeSession(id)
  <2>1. PICK t \in {1, table[id].started} : WriteRow(id, "live", t)
    BY <1>3 DEF ChangeSession
  <2>2. t \in Starts
    BY <1>1, <1>3 DEF ChangeSession, Starts
  <2>3. QED
    BY <2>1, <2>2, WriteKeepsInv
<1>4. CASE EndSession(id)
  BY <1>1, <1>4, WriteKeepsInv DEF EndSession
<1>5. QED
  BY <1>2, <1>3, <1>4

\* A key event gets the next number, which no set holds yet.
LEMMA StoreKeyKeepsInv ==
    ASSUME Inv, NEW id \in Sessions, NEW key \in Keys, StoreKey(id, key)
    PROVE  Inv'
<1> USE InvFacts
<1> DEFINE msg == ActivityFrame(id, key)
<1>1. /\ table[id] # NoRow /\ key = Cardinality(Stored) + 1
      /\ keys' = [keys EXCEPT ![id] = @ \cup {key}]
      /\ Commits(msg)
      /\ UNCHANGED <<table, writes, conn, frames, pageVars, calls, asked, failed>>
  BY DEF StoreKey
<1>2. /\ keys \in KeySets /\ keys' \in KeySets /\ keys'[id] = keys[id] \cup {key}
      /\ \A x \in Sessions : keys[x] \subseteq keys'[x] /\ (x # id => keys'[x] = keys[x])
  BY <1>1 DEF ServerTypes, KeySets
<1>3. /\ msg \in ActivityMsg /\ msg.kind = "activity" /\ msg.id = id /\ msg.key = key
  BY DEF ActivityFrame, ActivityMsg
<1> HIDE DEF msg
<1>c. /\ toPublish \subseteq toPublish' /\ toPublish' \subseteq toPublish \cup {msg}
      /\ missed \subseteq missed' /\ missed' \subseteq Sessions /\ faults' \in Nat
      /\ msg \in toPublish' \/ id \in missed'
  BY <1>1, <1>3, CommitsFacts
<1>4. Stored \in SUBSET Keys /\ Cardinality(Stored) \in Nat
  BY <1>2, KeySetFacts DEF Stored, KeySets
<1>5. \A x \in Sessions : key \notin keys[x]
  <2>1. key \notin 1..Cardinality(Stored)
    BY <1>1, <1>4
  <2>2. key \notin Stored
    BY <2>1 DEF ServerOK
  <2>3. QED
    BY <2>2 DEF Stored
<1>6. ServerOK'
  <2>1. Stored' = Stored \cup {key}
    BY <1>2 DEF Stored
  <2>2. Stored' = 1..key
    <3>1. 1..key = (1..Cardinality(Stored)) \cup {key}
      BY <1>1, <1>4
    <3>2. QED
      BY <2>1, <3>1 DEF ServerOK
  <2>3. key \in Nat /\ Cardinality(1..key) = key
    <3>1. key \in Nat \ {0}
      BY <1>1, <1>4
    <3>2. Cardinality(1..key) = IF 1 > key THEN 0 ELSE key - 1 + 1
      BY <3>1, FS_Interval
    <3>3. QED
      BY <3>1, <3>2
  <2>4. \A x \in Sessions : table'[x].rev <= writes' + 1
    BY <1>1 DEF ServerOK
  <2>5. \A x \in Sessions : table'[x] = NoRow => keys'[x] = {}
    BY <1>1, <1>2 DEF ServerOK
  <2>6. Stored' = 1..Cardinality(Stored)'
    BY <2>2, <2>3
  <2>7. QED
    BY <2>4, <2>5, <2>6 DEF ServerOK
<1>7. Types'
  <2>1. ServerTypes'
    BY <1>1, <1>2, <1>3, <1>c DEF ServerTypes, Msg
  <2>2. StreamTypes' /\ PageTypes'
    BY <1>1, <1>c, PageTypesSame DEF StreamTypes
  <2>3. QED
    BY <2>1, <2>2 DEF Types
<1>8. MessagesOK'
  <2>1. ASSUME NEW m \in Frame, MsgOK(m) PROVE MsgOK(m)'
    <3>1. m.kind = "activity" => m.id \in Sessions
      BY FrameFacts DEF ActivityMsg
    <3>2. QED
      BY <1>1, <1>2, <2>1, <3>1 DEF MsgOK, IsRowOf, pageVars
  <2>2. MsgOK(msg)'
    <3>1. key \notin heard'[id]
      BY <1>1, <1>5 DEF PageOK, pageVars
    <3>2. QED
      BY <1>2, <1>3, <3>1 DEF MsgOK
  <2>3. \A m \in toPublish : m \in Frame
    BY DEF ServerTypes, Frame
  <2>4. \A i \in DOMAIN frames : frames[i] \in Frame
    BY DEF StreamTypes
  <2>5. QED
    BY <1>1, <1>c, <2>1, <2>2, <2>3, <2>4 DEF MessagesOK
<1>9. AnnouncedOnce'
  <2>1. ASSUME NEW i \in DOMAIN frames, frames[i] = msg PROVE FALSE
    <3>1. MsgOK(frames[i])
      BY DEF MessagesOK
    <3>2. QED
      BY <1>3, <1>5, <2>1, <3>1 DEF MsgOK
  <2>2. QED
    BY <1>1, <1>c, <2>1 DEF AnnouncedOnce
<1>10. AnswersOK'
  <2>1. ASSUME NEW x \in Sessions, NEW c \in calls, c.answer # Waiting
        PROVE  AnswerOK(c, x)'
    BY <1>1, <1>2, <2>1 DEF AnswersOK, AnswerOK, IsRowOf
  <2>2. \A x \in Sessions : Snapshots(x)' = Snapshots(x)
    BY <1>1 DEF Snapshots, pageVars
  <2>3. QED
    BY <1>1, <2>1, <2>2 DEF AnswersOK
<1>11. PageOK'
  <2> SUFFICES ASSUME NEW x \in Sessions
               PROVE  /\ IsRowOf(entries[x].session, x)' /\ newest'[x] <= table'[x].rev
                      /\ heard'[x] \subseteq keys'[x] /\ listed'[x] \subseteq keys'[x]
    BY DEF PageOK
  <2>1. QED
    BY <1>1, <1>2 DEF PageOK, IsRowOf, pageVars
<1>12. CountsOK' /\ LiveRowsFirst'
  BY <1>1, CountsSame, LiveSame DEF pageVars
<1>13. Covered'
  <2> SUFFICES ASSUME ~failed, NEW x \in Sessions \ missed'
               PROVE  RowCovered(x)' /\ \A k \in keys'[x] : KeyCovered(x, k)'
    BY <1>1 DEF Covered
  <2>1. RowCovered(x) /\ \A k \in keys[x] : KeyCovered(x, k)
    BY <1>c DEF Covered
  <2>2. \A m : IsOnItsWay(m) => IsOnItsWay(m)'
    BY <1>1, <1>c DEF IsOnItsWay
  <2>3. RowCovered(x)'
    BY <1>1, <2>1, <2>2 DEF RowCovered, RowMsg, pageVars
  <2>4. ASSUME NEW k \in keys[x] PROVE KeyCovered(x, k)'
    BY <1>1, <2>1, <2>2 DEF KeyCovered, pageVars
  <2>5. x = id => KeyCovered(x, key)'
    BY <1>1, <1>c DEF KeyCovered, IsOnItsWay, msg
  <2>6. QED
    BY <1>2, <2>3, <2>4, <2>5
<1>14. QED
  BY <1>6, <1>7, <1>8, <1>9, <1>10, <1>11, <1>12, <1>13 DEF Inv

\* A message is sent, or missed if there is no stream.
LEMMA PublishKeepsInv ==
    ASSUME Inv, NEW m \in toPublish, Publish(m)
    PROVE  Inv'
<1> USE InvFacts
<1>1. /\ toPublish' = toPublish \ {m}
      /\ UNCHANGED <<table, keys, writes, conn, pageVars, calls, asked, faults, failed>>
  BY DEF Publish
<1>2. m \in Msg /\ m \in Frame /\ m.id \in Sessions
  BY DEF ServerTypes, Msg, Frame, SessionMsg, ActivityMsg
<1>3. \/ frames' = Append(frames, m) /\ missed' = missed
      \/ frames' = frames /\ missed' = missed \cup {m.id}
  BY DEF Publish
<1>4. /\ frames' \in Seq(Frame)
      /\ \A i \in DOMAIN frames : i \in DOMAIN frames' /\ frames'[i] = frames[i]
      /\ \A i \in DOMAIN frames' : i \in DOMAIN frames \/ frames'[i] = m
      /\ \A i, j \in DOMAIN frames' : i # j => i \in DOMAIN frames \/ j \in DOMAIN frames
      /\ m.id \in missed' \/ \E i \in DOMAIN frames' : frames'[i] = m
  <2>1. CASE frames' = Append(frames, m) /\ missed' = missed
    BY <1>2, <2>1, AppendFrame DEF StreamTypes
  <2>2. CASE frames' = frames /\ missed' = missed \cup {m.id}
    BY <2>2 DEF StreamTypes
  <2>3. QED
    BY <1>3, <2>1, <2>2
<1>5. missed' \subseteq Sessions /\ missed \subseteq missed'
  BY <1>2, <1>3 DEF StreamTypes
<1>6. Types'
  BY <1>1, <1>4, <1>5, PageTypesSame DEF Types, ServerTypes, StreamTypes
<1>7. MessagesOK'
  <2>1. \A n : MsgOK(n) => MsgOK(n)'
    BY <1>1 DEF MsgOK, IsRowOf, pageVars
  <2>2. QED
    BY <1>1, <1>4, <2>1 DEF MessagesOK
<1>8. AnnouncedOnce'
  <2>1. ASSUME NEW i \in DOMAIN frames', NEW j \in DOMAIN frames', i # j,
               frames'[i].kind = "activity"
        PROVE  frames'[i] # frames'[j]
    <3>1. CASE i \in DOMAIN frames /\ j \in DOMAIN frames
      BY <1>4, <2>1, <3>1 DEF AnnouncedOnce
    <3>2. CASE i \notin DOMAIN frames
      <4>1. frames'[i] = m /\ j \in DOMAIN frames /\ frames'[j] = frames[j]
        BY <1>4, <2>1, <3>2
      <4>2. QED
        BY <2>1, <4>1 DEF AnnouncedOnce
    <3>3. CASE j \notin DOMAIN frames
      <4>1. frames'[j] = m /\ i \in DOMAIN frames /\ frames'[i] = frames[i]
        BY <1>4, <2>1, <3>3
      <4>2. QED
        BY <2>1, <4>1 DEF AnnouncedOnce
    <3>4. QED
      BY <3>1, <3>2, <3>3
  <2>2. \A i \in DOMAIN frames' : frames'[i].kind = "activity" => frames'[i] \notin toPublish'
    BY <1>1, <1>4 DEF AnnouncedOnce
  <2>3. QED
    BY <2>1, <2>2 DEF AnnouncedOnce
<1>9. ServerOK' /\ AnswersOK' /\ PageOK' /\ CountsOK' /\ LiveRowsFirst'
  BY <1>1, ServerSame, AnswersSame, PageSame, CountsSame, LiveSame DEF pageVars
<1>10. Covered'
  <2> SUFFICES ASSUME ~failed, NEW x \in Sessions \ missed'
               PROVE  RowCovered(x)' /\ \A k \in keys[x] : KeyCovered(x, k)'
    BY <1>1 DEF Covered
  <2>1. x \in Sessions \ missed /\ RowCovered(x) /\ \A k \in keys[x] : KeyCovered(x, k)
    BY <1>5 DEF Covered
  <2>2. ASSUME NEW n, n.id = x, IsOnItsWay(n) PROVE IsOnItsWay(n)'
    BY <1>1, <1>4, <2>2 DEF IsOnItsWay
  <2>3. RowCovered(x)'
    <3>1. RowMsg(x)' = RowMsg(x) /\ RowMsg(x).id = x
      BY <1>1 DEF RowMsg
    <3>2. IsOnItsWay(RowMsg(x)) => IsOnItsWay(RowMsg(x))'
      BY <1>1, <1>4, <3>1 DEF IsOnItsWay
    <3>3. QED
      BY <1>1, <2>1, <3>2 DEF RowCovered, pageVars
  <2>4. ASSUME NEW k \in keys[x] PROVE KeyCovered(x, k)'
    <3>1. ActivityFrame(x, k).id = x
      BY DEF ActivityFrame
    <3>2. QED
      BY <1>1, <2>1, <2>2, <3>1 DEF KeyCovered, pageVars
  <2>5. QED
    BY <2>3, <2>4
<1>11. QED
  BY <1>6, <1>7, <1>8, <1>9, <1>10 DEF Inv

-----------------------------------------------------------------------------
(* The stream is opened and lost, the list is asked for and answered. *)

\* An answer covers everything that is stored.
LEMMA AnswerKeepsInv ==
    ASSUME Inv, NEW c \in calls, Answer(c)
    PROVE  Inv'
<1> USE InvFacts
<1>1. PICK d : d = [c EXCEPT !.answer = <<table, keys>>]
  OBVIOUS
<1>2. /\ c.answer = Waiting /\ calls' = (calls \ {c}) \cup {d} /\ missed' = {}
      /\ UNCHANGED <<serverVars, conn, frames, pageVars, asked, faults, failed>>
  BY <1>1 DEF Answer
<1>3. /\ d \in ListCall /\ d.answer[1] = table /\ d.answer[2] = keys /\ d.answer # Waiting
  BY <1>1 DEF ListCall, StreamTypes, ServerTypes, Waiting
<1>4. Types'
  BY <1>2, <1>3, PageTypesSame DEF Types, ServerTypes, StreamTypes, serverVars
<1>5. AnswersOK'
  <2> SUFFICES ASSUME NEW id \in Sessions
               PROVE  /\ \A e \in calls' : e.answer # Waiting => AnswerOK(e, id)'
                      /\ \A S, T \in Snapshots(id)' : Comparable(S, T)
    BY DEF AnswersOK
  <2>1. AnswerOK(d, id)'
    <3>1. table' = table /\ keys' = keys /\ (table[id] = NoRow => keys[id] = {})
      BY <1>2 DEF ServerOK, serverVars
    <3>2. table[id].rev <= table[id].rev
      <4>1. table[id].rev \in Nat
        BY RowFacts DEF ServerTypes, Table
      <4>2. QED
        BY <4>1
    <3>3. QED
      BY <1>3, <3>1, <3>2 DEF AnswerOK, IsRowOf
  <2>2. \A e \in calls : e.answer # Waiting => AnswerOK(e, id)'
    BY <1>2 DEF AnswersOK, AnswerOK, IsRowOf, serverVars
  <2>3. \A S \in Snapshots(id)' : S \in Snapshots(id) \/ S = keys[id]
    BY <1>2, <1>3 DEF Snapshots, pageVars
  <2>4. \A S \in Snapshots(id) : S \subseteq keys[id]
    BY DEF Snapshots, AnswersOK, AnswerOK, PageOK
  <2>5. \A S, T \in Snapshots(id) : Comparable(S, T)
    BY DEF AnswersOK
  <2>6. \A S, T \in Snapshots(id)' : Comparable(S, T)
    BY <2>3, <2>4, <2>5 DEF Comparable
  <2>7. QED
    BY <1>2, <2>1, <2>2, <2>6
<1>6. Covered'
  <2>1. d \in calls'
    BY <1>2
  <2>2. \A id \in Sessions : RowCovered(id)' /\ \A key \in keys'[id] : KeyCovered(id, key)'
    BY <1>2, <1>3, <2>1 DEF RowCovered, KeyCovered, serverVars
  <2>3. QED
    BY <2>2 DEF Covered
<1>7. /\ ServerOK' /\ MessagesOK' /\ AnnouncedOnce' /\ PageOK' /\ CountsOK' /\ LiveRowsFirst'
  BY <1>2, ServerSame, MessagesSame, AnnouncedSame, PageSame, CountsSame, LiveSame
     DEF serverVars, pageVars
<1>8. QED
  BY <1>4, <1>5, <1>6, <1>7 DEF Inv

\* A call that fails covers nothing any more.
LEMMA LoadListFailsKeepsInv ==
    ASSUME Inv, NEW c \in calls, LoadListFails(c)
    PROVE  Inv'
<1> USE InvFacts
<1>1. /\ faults' = faults + 1 /\ failed' = TRUE /\ calls' = calls \ {c}
      /\ conn' = IF c.boot THEN "connecting" ELSE conn
      /\ UNCHANGED <<serverVars, frames, pageVars, asked, missed>>
  BY DEF LoadListFails
<1>2. Types'
  BY <1>1, PageTypesSame DEF Types, ServerTypes, StreamTypes, serverVars
<1>3. AnswersOK'
  <2>1. \A id \in Sessions : Snapshots(id)' \subseteq Snapshots(id)
    BY <1>1 DEF Snapshots, pageVars
  <2>2. QED
    BY <1>1, <2>1 DEF AnswersOK, AnswerOK, IsRowOf, serverVars
<1>4. /\ ServerOK' /\ MessagesOK' /\ AnnouncedOnce' /\ PageOK' /\ CountsOK' /\ LiveRowsFirst'
  BY <1>1, ServerSame, MessagesSame, AnnouncedSame, PageSame, CountsSame, LiveSame
     DEF serverVars, pageVars
<1>5. Covered'
  BY <1>1 DEF Covered
<1>6. QED
  BY <1>2, <1>3, <1>4, <1>5 DEF Inv

\* The stream's open is a frame, which covers nothing and tells nothing.
LEMMA ConnectKeepsInv ==
    ASSUME Inv, Connect
    PROVE  Inv'
<1> USE InvFacts
<1>1. /\ conn' = "open" /\ frames' = Append(frames, OpenFrame)
      /\ UNCHANGED <<serverVars, pageVars, calls, asked, faults, missed, failed>>
  BY DEF Connect
<1>2. OpenFrame \in Frame /\ OpenFrame.kind = "open" /\ OpenFrame \notin Msg
  BY DEF Frame, OpenFrame, Msg, SessionMsg, ActivityMsg
<1>3. /\ frames' \in Seq(Frame)
      /\ \A i \in DOMAIN frames : i \in DOMAIN frames' /\ frames'[i] = frames[i]
      /\ \A i \in DOMAIN frames' : i \in DOMAIN frames \/ frames'[i] = OpenFrame
  BY <1>1, <1>2, AppendFrame DEF StreamTypes
<1>4. Types'
  BY <1>1, <1>3, PageTypesSame DEF Types, ServerTypes, StreamTypes, serverVars
<1>5. MessagesOK'
  <2>1. \A n : MsgOK(n) => MsgOK(n)'
    BY <1>1 DEF MsgOK, IsRowOf, pageVars, serverVars
  <2>2. MsgOK(OpenFrame)'
    BY <1>2 DEF MsgOK
  <2>3. QED
    BY <1>1, <1>3, <2>1, <2>2 DEF MessagesOK, serverVars
<1>6. AnnouncedOnce'
  <2>1. \A i \in DOMAIN frames' : frames'[i].kind = "activity" =>
           i \in DOMAIN frames /\ frames'[i] = frames[i]
    BY <1>2, <1>3
  <2>2. ASSUME NEW i \in DOMAIN frames', NEW j \in DOMAIN frames', i # j,
               frames'[i].kind = "activity"
        PROVE  frames'[i] # frames'[j]
    <3>1. i \in DOMAIN frames /\ frames'[i] = frames[i]
      BY <2>1, <2>2
    <3>2. CASE j \in DOMAIN frames
      BY <1>3, <2>2, <3>1, <3>2 DEF AnnouncedOnce
    <3>3. CASE frames'[j] = OpenFrame
      BY <1>2, <2>2, <3>3
    <3>4. QED
      BY <1>3, <3>2, <3>3
  <2>3. \A i \in DOMAIN frames' : frames'[i].kind = "activity" => frames'[i] \notin toPublish'
    BY <1>1, <2>1 DEF AnnouncedOnce, serverVars
  <2>4. QED
    BY <2>2, <2>3 DEF AnnouncedOnce
<1>7. /\ ServerOK' /\ AnswersOK' /\ PageOK' /\ CountsOK' /\ LiveRowsFirst'
  BY <1>1, ServerSame, AnswersSame, PageSame, CountsSame, LiveSame DEF serverVars, pageVars
<1>8. Covered'
  <2>1. \A m : IsOnItsWay(m) => IsOnItsWay(m)'
    BY <1>1, <1>3 DEF IsOnItsWay, serverVars
  <2>2. ASSUME ~failed, NEW x \in Sessions \ missed
        PROVE  RowCovered(x)' /\ \A k \in keys[x] : KeyCovered(x, k)'
    <3>1. RowCovered(x) /\ \A k \in keys[x] : KeyCovered(x, k)
      BY <2>2 DEF Covered
    <3>2. RowMsg(x)' = RowMsg(x)
      BY <1>1 DEF RowMsg, serverVars
    <3>3. RowCovered(x)'
      BY <1>1, <2>1, <3>1, <3>2 DEF RowCovered, serverVars, pageVars
    <3>4. \A k \in keys[x] : KeyCovered(x, k)'
      BY <1>1, <2>1, <3>1 DEF KeyCovered, pageVars
    <3>5. QED
      BY <3>3, <3>4
  <2>3. QED
    BY <1>1, <2>2 DEF Covered, serverVars
<1>9. QED
  BY <1>4, <1>5, <1>6, <1>7, <1>8 DEF Inv

\* What is lost with the connection is missed.
LEMMA LoseConnectionKeepsInv ==
    ASSUME Inv, LoseConnection
    PROVE  Inv'
<1> USE InvFacts
<1>1. /\ conn' = "connecting" /\ faults' = faults + 1
      /\ UNCHANGED <<serverVars, pageVars, calls, asked, failed>>
  BY DEF LoseConnection
<1>2. PICK k \in 0..Len(frames) :
         /\ frames' = SubSeq(frames, 1, k)
         /\ missed' = missed \cup ({frames[i].id : i \in k + 1 .. Len(frames)} \cap Sessions)
  BY DEF LoseConnection
<1>3. frames \in Seq(Frame) /\ Len(frames) \in Nat /\ k \in Nat /\ k <= Len(frames)
  BY <1>2, LenProperties DEF StreamTypes
<1>4. /\ frames' \in Seq(Frame) /\ DOMAIN frames' = 1..k
      /\ \A i \in 1..k : frames'[i] = frames[i]
  <2>1. \A i \in 1..k : frames[i] \in Frame
    BY <1>3
  <2>2. frames' \in Seq(Frame) /\ Len(frames') = k /\ \A i \in 1..k : frames'[i] = frames[i]
    BY <1>2, <1>3, <2>1, SubSeqProperties
  <2>3. QED
    BY <2>2, LenProperties
<1>5. /\ DOMAIN frames' \subseteq DOMAIN frames
      /\ \A i \in DOMAIN frames' : frames'[i] = frames[i]
      /\ \A i \in DOMAIN frames : i \in DOMAIN frames' \/ i \in k + 1 .. Len(frames)
  BY <1>3, <1>4
<1>6. missed' \subseteq Sessions /\ missed \subseteq missed'
  BY <1>2 DEF StreamTypes
<1>7. Types'
  BY <1>1, <1>4, <1>6, PageTypesSame DEF Types, ServerTypes, StreamTypes, serverVars
<1>8. MessagesOK'
  BY <1>1, <1>5 DEF MessagesOK, MsgOK, IsRowOf, pageVars, serverVars
<1>9. AnnouncedOnce'
  BY <1>1, <1>5 DEF AnnouncedOnce, serverVars
<1>10. /\ ServerOK' /\ AnswersOK' /\ PageOK' /\ CountsOK' /\ LiveRowsFirst'
  BY <1>1, ServerSame, AnswersSame, PageSame, CountsSame, LiveSame DEF serverVars, pageVars
<1>11. Covered'
  <2> SUFFICES ASSUME ~failed, NEW x \in Sessions \ missed'
               PROVE  RowCovered(x)' /\ \A key \in keys[x] : KeyCovered(x, key)'
    BY <1>1 DEF Covered, serverVars
  <2>1. x \in Sessions \ missed /\ RowCovered(x) /\ \A key \in keys[x] : KeyCovered(x, key)
    BY <1>6 DEF Covered
  <2>2. ASSUME NEW m, m.id = x, IsOnItsWay(m) PROVE IsOnItsWay(m)'
    BY <1>1, <1>2, <1>5, <2>2 DEF IsOnItsWay, serverVars
  <2>3. RowCovered(x)'
    <3>1. RowMsg(x)' = RowMsg(x) /\ RowMsg(x).id = x
      BY <1>1 DEF RowMsg, serverVars
    <3>2. IsOnItsWay(RowMsg(x)) => IsOnItsWay(RowMsg(x))'
      BY <1>1, <1>2, <1>5, <3>1 DEF IsOnItsWay, serverVars
    <3>3. QED
      BY <1>1, <2>1, <3>1, <3>2 DEF RowCovered, pageVars, serverVars
  <2>4. ASSUME NEW key \in keys[x] PROVE KeyCovered(x, key)'
    <3>1. ActivityFrame(x, key).id = x
      BY DEF ActivityFrame
    <3>2. QED
      BY <1>1, <2>1, <2>2, <3>1 DEF KeyCovered, pageVars
  <2>5. QED
    BY <2>3, <2>4
<1>12. QED
  BY <1>7, <1>8, <1>9, <1>10, <1>11 DEF Inv

-----------------------------------------------------------------------------
(* The page. *)

LEMMA LargerFacts ==
    ASSUME NEW a \in Nat, NEW b \in Nat
    PROVE  /\ Larger(a, b) \in Nat /\ Larger(a, b) >= a /\ Larger(a, b) >= b
           /\ Larger(a, b) = a \/ Larger(a, b) = b
BY DEF Larger

LEMMA PlaceSorts ==
    ASSUME entries' \in [Sessions -> Entry], Place(Known(entries'))
    PROVE  order' \in SetToSeqs(Known(entries')) /\ LiveRowsFirst'
<1> DEFINE row(i) == entries'[order'[i]].session
<1>1. /\ order' \in SetToSeqs(Known(entries'))
      /\ \A i, j \in DOMAIN order' : i < j => ~Precedes(row(j), row(i))
  BY DEF Place
<1>2. \A i \in DOMAIN order' : order'[i] \in Known(entries')
  BY <1>1 DEF SetToSeqs
<1>3. \A i \in DOMAIN order' : row(i) \in Rows
  BY <1>2 DEF Known, Entry
<1>4. \A i \in DOMAIN order' : row(i).status \in {"live", "ended"}
  BY <1>3, RowFacts
<1>5. ASSUME NEW i \in DOMAIN order', NEW j \in DOMAIN order', row(i).status = "ended", i < j
      PROVE  row(j).status = "ended"
  <2> HIDE DEF row
  <2>1. row(j).status # "live"
    BY <1>1, <1>5 DEF Precedes
  <2>2. QED
    BY <1>4, <2>1
<1>6. LiveRowsFirst'
  BY <1>5 DEF LiveRowsFirst
<1>7. QED
  BY <1>1, <1>6

\* The first frame has been taken: the others are as they were.
LEMMA NextFrameFacts ==
    ASSUME Inv, NEW kind, NextFrame(kind), toPublish' = toPublish
    PROVE  /\ Head(frames) \in Frame /\ Head(frames).kind = kind /\ MsgOK(Head(frames))
           /\ frames' \in Seq(Frame) /\ AnnouncedOnce'
           /\ \A i \in DOMAIN frames' : MsgOK(frames'[i])
           /\ \A m : IsOnItsWay(m) => IsOnItsWay(m)' \/ m = Head(frames)
           /\ kind = "activity" =>
                 /\ Head(frames) \notin toPublish
                 /\ \A i \in DOMAIN frames' : frames'[i] # Head(frames)
<1> USE InvFacts
<1> DEFINE h == Head(frames)
<1>1. /\ h \in Frame /\ h.kind = kind /\ frames' \in Seq(Frame)
      /\ 1 \in DOMAIN frames /\ frames[1] = h
      /\ \A i \in DOMAIN frames' :
            i \in Nat \ {0} /\ i + 1 \in DOMAIN frames /\ frames'[i] = frames[i + 1]
      /\ \A i \in DOMAIN frames : frames[i] = h \/ \E j \in DOMAIN frames' : frames'[j] = frames[i]
  BY TailFrame DEF StreamTypes
<1> HIDE DEF h
<1>2. MsgOK(h) /\ \A i \in DOMAIN frames' : MsgOK(frames'[i])
  BY <1>1 DEF MessagesOK
<1>3. AnnouncedOnce'
  <2>1. ASSUME NEW i \in DOMAIN frames', NEW j \in DOMAIN frames', i # j,
               frames'[i].kind = "activity"
        PROVE  frames'[i] # frames'[j]
    <3>1. i + 1 \in DOMAIN frames /\ j + 1 \in DOMAIN frames /\ i + 1 # j + 1
      BY <1>1, <2>1
    <3>2. frames'[i] = frames[i + 1] /\ frames'[j] = frames[j + 1]
      BY <1>1
    <3>3. QED
      BY <2>1, <3>1, <3>2 DEF AnnouncedOnce
  <2>2. \A i \in DOMAIN frames' : frames'[i].kind = "activity" => frames'[i] \notin toPublish'
    BY <1>1 DEF AnnouncedOnce
  <2>3. QED
    BY <2>1, <2>2 DEF AnnouncedOnce
<1>4. \A m : IsOnItsWay(m) => IsOnItsWay(m)' \/ m = h
  BY <1>1 DEF IsOnItsWay
<1>5. ASSUME kind = "activity"
      PROVE  h \notin toPublish /\ \A i \in DOMAIN frames' : frames'[i] # h
  <2>1. h \notin toPublish
    BY <1>1, <1>5 DEF AnnouncedOnce
  <2>2. ASSUME NEW i \in DOMAIN frames' PROVE frames'[i] # h
    <3>1. i + 1 \in DOMAIN frames /\ i + 1 # 1 /\ frames'[i] = frames[i + 1]
      BY <1>1
    <3>2. QED
      BY <1>1, <1>5, <3>1 DEF AnnouncedOnce
  <2>3. QED
    BY <2>1, <2>2
<1>6. QED
  BY <1>1, <1>2, <1>3, <1>4, <1>5 DEF h

\* A reconnect asks for the list, which will tell all that is missed until then.
LEMMA OnOpenKeepsInv ==
    ASSUME Inv, OnOpen
    PROVE  Inv'
<1> USE InvFacts
<1> DEFINE h == Head(frames)  new == Call(asked, FALSE)
<1>1. /\ NextFrame("open") /\ opened' = TRUE
      /\ UNCHANGED <<serverVars, conn, entries, order, newest, heard, listed, blurred,
                     faults, failed>>
  BY DEF OnOpen
<1>2. \/ opened /\ calls' = calls \cup {new} /\ asked' = asked + 1 /\ missed' = {}
      \/ UNCHANGED <<calls, asked, missed>>
  BY DEF OnOpen
<1>3. /\ h \in Frame /\ h.kind = "open" /\ frames' \in Seq(Frame) /\ AnnouncedOnce'
      /\ \A i \in DOMAIN frames' : MsgOK(frames'[i])
      /\ \A m : IsOnItsWay(m) => IsOnItsWay(m)' \/ m = h
  BY <1>1, NextFrameFacts DEF serverVars
<1>4. new \in ListCall /\ new.answer = Waiting
  BY DEF Call, ListCall, StreamTypes
<1> HIDE DEF h, new
<1>5. Types'
  <2>1. ServerTypes'
    BY <1>1 DEF ServerTypes, serverVars
  <2>2. StreamTypes'
    BY <1>1, <1>2, <1>3, <1>4 DEF StreamTypes
  <2>3. PageTypes'
    BY <1>1 DEF PageTypes, Known
  <2>4. QED
    BY <2>1, <2>2, <2>3 DEF Types
<1>6. MessagesOK'
  <2>1. \A m : MsgOK(m) => MsgOK(m)'
    BY <1>1 DEF MsgOK, IsRowOf, serverVars
  <2>2. QED
    BY <1>1, <1>3, <2>1 DEF MessagesOK, serverVars
<1>7. AnswersOK'
  <2>1. \A id \in Sessions : Snapshots(id)' = Snapshots(id)
    BY <1>1, <1>2, <1>4 DEF Snapshots
  <2>2. \A id \in Sessions : \A c \in calls' : c.answer # Waiting => AnswerOK(c, id)'
    BY <1>1, <1>2, <1>4 DEF AnswersOK, AnswerOK, IsRowOf, serverVars
  <2>3. QED
    BY <2>1, <2>2 DEF AnswersOK
<1>8. /\ ServerOK' /\ PageOK' /\ CountsOK' /\ LiveRowsFirst'
  BY <1>1, ServerSame, PageSame, CountsSame, LiveSame DEF serverVars
<1>9. Covered'
  <2>1. CASE new \in calls'
    <3>1. \A x \in Sessions : RowCovered(x)' /\ \A k \in keys'[x] : KeyCovered(x, k)'
      BY <1>4, <2>1 DEF RowCovered, KeyCovered
    <3>2. QED
      BY <3>1 DEF Covered
  <2>2. CASE UNCHANGED <<calls, missed>>
    <3> SUFFICES ASSUME ~failed, NEW x \in Sessions \ missed
                 PROVE  RowCovered(x)' /\ \A k \in keys[x] : KeyCovered(x, k)'
      BY <1>1, <2>2 DEF Covered, serverVars
    <3>1. RowCovered(x) /\ \A k \in keys[x] : KeyCovered(x, k)
      BY DEF Covered
    <3>2. RowMsg(x)' = RowMsg(x) /\ RowMsg(x) # h /\ \A k : ActivityFrame(x, k) # h
      BY <1>1, <1>3 DEF RowMsg, ActivityFrame, serverVars
    <3>3. RowCovered(x)'
      BY <1>1, <1>3, <2>2, <3>1, <3>2 DEF RowCovered, serverVars
    <3>4. \A k \in keys[x] : KeyCovered(x, k)'
      BY <1>1, <1>3, <2>2, <3>1, <3>2 DEF KeyCovered
    <3>5. QED
      BY <3>3, <3>4
  <2>3. QED
    BY <1>2, <2>1, <2>2
<1>10. QED
  BY <1>3, <1>5, <1>6, <1>7, <1>8, <1>9 DEF Inv

\* A list answer: rows are replaced, counts do not move backwards.
LEMMA LoadListKeepsInv ==
    ASSUME Inv, NEW c \in calls, LoadList(c)
    PROVE  Inv'
<1> USE InvFacts
<1>1. PICK rows, stored : rows = c.answer[1] /\ stored = c.answer[2]
  OBVIOUS
<1>2. /\ c.answer # Waiting /\ rows \in Table /\ stored \in KeySets
      /\ \A id \in Sessions : AnswerOK(c, id)
  BY <1>1 DEF LoadList, StreamTypes, ListCall, AnswersOK
<1>3. /\ calls' = calls \ {c} /\ conn' = IF c.boot THEN "connecting" ELSE conn
      /\ entries' = [id \in Sessions |->
            IF rows[id] # NoRow THEN UpsertFromList(entries[id], rows[id], Cardinality(stored[id]))
            ELSE entries[id]]
      /\ Place(Known(entries'))
      /\ newest' = [id \in Sessions |-> Larger(newest[id], rows[id].rev)]
      /\ listed' = [id \in Sessions |-> listed[id] \cup stored[id]]
      /\ blurred' = blurred \cup {id \in Sessions : ~(heard[id] \subseteq stored[id])}
      /\ UNCHANGED <<serverVars, frames, opened, heard, asked, faults, missed, failed>>
  BY <1>1 DEF LoadList
<1>4. ASSUME NEW id \in Sessions
      PROVE  /\ stored[id] \subseteq keys[id] /\ IsRowOf(rows[id], id)
             /\ rows[id] = NoRow => stored[id] = {}
             /\ rows[id] \in Rows \cup {NoRow} /\ rows[id].rev \in Nat
             /\ stored[id] \in SUBSET Keys /\ Cardinality(stored[id]) \in Nat
             /\ Comparable(listed[id], stored[id])
  <2>1. rows[id] \in Rows \cup {NoRow} /\ stored[id] \in SUBSET Keys
    BY <1>2 DEF Table, KeySets
  <2>2. listed[id] \in Snapshots(id) /\ stored[id] \in Snapshots(id)
    BY <1>1, <1>2 DEF Snapshots
  <2>3. Comparable(listed[id], stored[id])
    BY <2>2 DEF AnswersOK
  <2>4. QED
    BY <1>1, <1>2, <2>1, <2>3, RowFacts, KeySetFacts DEF AnswerOK
<1>5. ASSUME NEW id \in Sessions
      PROVE  /\ entries[id] \in Entry /\ entries'[id] \in Entry
             /\ entries'[id].session = IF rows[id] # NoRow THEN rows[id] ELSE entries[id].session
             /\ entries'[id].keyCount = Larger(entries[id].keyCount, Cardinality(stored[id]))
  <2>1. entries[id] \in Entry /\ entries[id].keyCount \in Nat
    BY DEF PageTypes, Entry
  <2>2. CASE rows[id] # NoRow
    <3>1. entries'[id] = [session |-> rows[id],
                          keyCount |-> Larger(entries[id].keyCount, Cardinality(stored[id]))]
      BY <1>3, <2>2 DEF UpsertFromList
    <3>2. Larger(entries[id].keyCount, Cardinality(stored[id])) \in Nat
      BY <1>4, <2>1, LargerFacts
    <3>3. QED
      BY <1>4, <2>1, <2>2, <3>1, <3>2 DEF Entry
  <2>3. CASE rows[id] = NoRow
    <3>1. entries'[id] = entries[id]
      BY <1>3, <2>3
    <3>2. Cardinality(stored[id]) = 0
      BY <1>4, <2>3, FS_EmptySet
    <3>3. Larger(entries[id].keyCount, 0) = entries[id].keyCount
      BY <2>1 DEF Larger
    <3>4. QED
      BY <2>1, <2>3, <3>1, <3>2, <3>3
  <2>4. QED
    BY <2>2, <2>3
<1>6. entries' \in [Sessions -> Entry]
  BY <1>3, <1>5
<1>7. order' \in SetToSeqs(Known(entries')) /\ LiveRowsFirst'
  BY <1>3, <1>6, PlaceSorts
<1>8. ASSUME NEW id \in Sessions
      PROVE  /\ newest[id] \in Nat /\ newest'[id] = Larger(newest[id], rows[id].rev)
             /\ newest'[id] \in Nat /\ newest'[id] >= newest[id] /\ newest'[id] >= rows[id].rev
             /\ newest'[id] <= table[id].rev
  <2>1. newest[id] \in Nat /\ newest'[id] = Larger(newest[id], rows[id].rev)
    BY <1>3 DEF PageTypes
  <2>2. newest[id] <= table[id].rev /\ rows[id].rev <= table[id].rev /\ rows[id].rev \in Nat
    BY <1>4 DEF PageOK, IsRowOf
  <2>3. QED
    BY <2>1, <2>2, LargerFacts
<1>9. Types'
  <2>1. ServerTypes' /\ StreamTypes'
    BY <1>3 DEF ServerTypes, StreamTypes, serverVars
  <2>2. listed' \in KeySets
    BY <1>3, <1>4 DEF PageTypes, KeySets
  <2>3. newest' \in [Sessions -> Nat]
    BY <1>3, <1>8
  <2>4. blurred' \subseteq Sessions
    BY <1>3 DEF PageTypes
  <2>5. Known(entries)' = Known(entries')
    BY DEF Known
  <2>6. PageTypes'
    BY <1>3, <1>6, <1>7, <2>2, <2>3, <2>4, <2>5 DEF PageTypes
  <2>7. QED
    BY <2>1, <2>6 DEF Types
<1>10. ServerOK' /\ MessagesOK' /\ AnnouncedOnce'
  BY <1>3, ServerSame, MessagesSame, AnnouncedSame DEF serverVars
<1>11. AnswersOK'
  <2> SUFFICES ASSUME NEW id \in Sessions
               PROVE  /\ \A d \in calls' : d.answer # Waiting => AnswerOK(d, id)'
                      /\ \A S, T \in Snapshots(id)' : Comparable(S, T)
    BY DEF AnswersOK
  <2>1. \A d \in calls' : d.answer # Waiting => AnswerOK(d, id)'
    BY <1>3 DEF AnswersOK, AnswerOK, IsRowOf, serverVars
  <2>2. listed'[id] = listed[id] \/ listed'[id] = stored[id]
    BY <1>3, <1>4 DEF Comparable
  <2>3. listed[id] \in Snapshots(id) /\ stored[id] \in Snapshots(id)
    BY <1>1, <1>2 DEF Snapshots
  <2>4. Snapshots(id)' \subseteq Snapshots(id)
    BY <1>3, <2>2, <2>3 DEF Snapshots
  <2>5. QED
    BY <2>1, <2>4 DEF AnswersOK
<1>12. PageOK'
  <2> SUFFICES ASSUME NEW id \in Sessions
               PROVE  /\ IsRowOf(entries[id].session, id)' /\ newest'[id] <= table'[id].rev
                      /\ heard'[id] \subseteq keys'[id] /\ listed'[id] \subseteq keys'[id]
    BY DEF PageOK
  <2>1. IsRowOf(entries[id].session, id)'
    BY <1>3, <1>4, <1>5 DEF PageOK, IsRowOf, serverVars
  <2>2. QED
    BY <1>3, <1>4, <1>8, <2>1 DEF PageOK, serverVars
<1>13. CountsOK'
  <2> SUFFICES ASSUME NEW id \in Sessions PROVE CountOK(id)'
    BY DEF CountsOK
  <2> DEFINE n == entries[id].keyCount  H == heard[id]  L == listed[id]  S == stored[id]
  <2>1. /\ n \in Nat /\ H \in SUBSET Keys /\ L \in SUBSET Keys /\ S \in SUBSET Keys
        /\ Cardinality(H) \in Nat /\ Cardinality(L) \in Nat /\ Cardinality(S) \in Nat
    BY <1>4, KeySetFacts DEF PageTypes, Entry, KeySets
  <2>2. n >= Cardinality(H) /\ n >= Cardinality(L) /\ (id \notin blurred => n = Cardinality(H \cup L))
    BY DEF CountsOK, CountOK
  <2>3. L \cup S = L \/ L \cup S = S
    BY <1>4 DEF Comparable
  <2>4. Larger(n, Cardinality(S)) >= n /\ Larger(n, Cardinality(S)) >= Cardinality(S)
        /\ Larger(n, Cardinality(S)) \in Nat
    BY <2>1, LargerFacts
  <2>5. ASSUME id \notin blurred, H \subseteq S
        PROVE  Larger(n, Cardinality(S)) = Cardinality(H \cup (L \cup S))
    <3>1. CASE S \subseteq L
      <4>1. H \cup L = L /\ H \cup (L \cup S) = L
        BY <2>5, <3>1
      <4>2. n = Cardinality(L) /\ Cardinality(S) <= Cardinality(L)
        BY <2>1, <2>2, <2>5, <3>1, <4>1, KeySetFacts
      <4> HIDE DEF n, H, L, S
      <4>3. QED
        BY <2>1, <4>1, <4>2 DEF Larger
    <3>2. CASE L \subseteq S
      <4>1. H \cup L \subseteq S /\ H \cup (L \cup S) = S
        BY <2>5, <3>2
      <4>2. n <= Cardinality(S)
        BY <2>1, <2>2, <2>5, <4>1, KeySetFacts
      <4> HIDE DEF n, H, L, S
      <4>3. QED
        BY <2>1, <4>1, <4>2 DEF Larger
    <3>3. QED
      BY <1>4, <3>1, <3>2 DEF Comparable
  <2>6. /\ entries'[id].keyCount = Larger(n, Cardinality(S)) /\ heard'[id] = H
        /\ listed'[id] = L \cup S
        /\ id \notin blurred' => id \notin blurred /\ H \subseteq S
    BY <1>3, <1>5
  <2> HIDE DEF n, H, L, S
  <2>7. Larger(n, Cardinality(S)) >= Cardinality(H)
        /\ Larger(n, Cardinality(S)) >= Cardinality(L \cup S)
    BY <2>1, <2>2, <2>3, <2>4
  <2>8. QED
    BY <2>5, <2>6, <2>7 DEF CountOK
<1>14. Covered'
  <2> SUFFICES ASSUME ~failed, NEW x \in Sessions \ missed
               PROVE  RowCovered(x)' /\ \A k \in keys[x] : KeyCovered(x, k)'
    BY <1>3 DEF Covered, serverVars
  <2>1. RowCovered(x) /\ \A k \in keys[x] : KeyCovered(x, k)
    BY DEF Covered
  <2>2. \A m : IsOnItsWay(m) => IsOnItsWay(m)'
    BY <1>3 DEF IsOnItsWay, serverVars
  <2>3. newest[x] = table[x].rev \/ rows[x] = table[x] => newest'[x] = table[x].rev
    BY <1>8, RowFacts DEF ServerTypes, Table
  <2>4. RowMsg(x)' = RowMsg(x) /\ table' = table
    BY <1>3 DEF RowMsg, serverVars
  <2>5. RowCovered(x)'
    BY <1>1, <1>2, <1>3, <2>1, <2>2, <2>3, <2>4 DEF RowCovered
  <2>6. ASSUME NEW k \in keys[x] PROVE KeyCovered(x, k)'
    <3>1. heard'[x] = heard[x] /\ listed'[x] = listed[x] \cup stored[x]
      BY <1>3
    <3>2. QED
      BY <1>1, <1>2, <1>3, <2>1, <2>2, <3>1 DEF KeyCovered
  <2>7. QED
    BY <2>5, <2>6
<1>15. QED
  BY <1>7, <1>9, <1>10, <1>11, <1>12, <1>13, <1>14 DEF Inv

\* A row by stream; place is called when its status is new on the page.
LEMMA OnSessionKeepsInv ==
    ASSUME Inv, OnSession
    PROVE  Inv'
<1> USE InvFacts
<1>1. PICK m : m = Head(frames)
  OBVIOUS
<1>2. /\ NextFrame("session")
      /\ entries' = [entries EXCEPT ![m.id].session = m.row]
      /\ newest' = [newest EXCEPT ![m.id] = Larger(@, m.row.rev)]
      /\ IF entries[m.id].session.status # m.row.status THEN Place(Known(entries'))
                                                       ELSE UNCHANGED order
      /\ UNCHANGED <<heard, listed, blurred>>
      /\ UNCHANGED <<serverVars, conn, opened, calls, asked, faults, missed, failed>>
  BY <1>1 DEF OnSession, UpsertFromStream
<1>3. /\ m \in Frame /\ m.kind = "session" /\ MsgOK(m) /\ frames' \in Seq(Frame) /\ AnnouncedOnce'
      /\ \A i \in DOMAIN frames' : MsgOK(frames'[i])
      /\ \A n : IsOnItsWay(n) => IsOnItsWay(n)' \/ n = m
  BY <1>1, <1>2, NextFrameFacts DEF serverVars
<1>4. m \in SessionMsg /\ m.id \in Sessions /\ m.row \in Rows /\ IsRowOf(m.row, m.id)
  BY <1>3, FrameFacts DEF SessionMsg, MsgOK
<1>5. ASSUME NEW id \in Sessions
      PROVE  /\ entries[id] \in Entry /\ entries'[id] \in Entry
             /\ entries'[id].keyCount = entries[id].keyCount
             /\ entries'[id].session = IF id = m.id THEN m.row ELSE entries[id].session
  BY <1>2, <1>4 DEF PageTypes, Entry
<1>6. entries' \in [Sessions -> Entry]
  BY <1>2, <1>5 DEF PageTypes
<1>7. order' \in SetToSeqs(Known(entries')) /\ LiveRowsFirst'
  <2>1. CASE entries[m.id].session.status # m.row.status
    BY <1>2, <1>6, <2>1, PlaceSorts
  <2>2. CASE entries[m.id].session.status = m.row.status
    <3>1. order' = order
      BY <1>2, <2>2
    <3>2. m.row \notin {NoRow} /\ entries[m.id].session # NoRow
      BY <1>4, <2>2, RowFacts
    <3>3. Known(entries') = Known(entries)
      BY <1>4, <1>5, <3>2 DEF Known
    <3>4. \A id \in Sessions : entries'[id].session.status = entries[id].session.status
      BY <1>5, <2>2
    <3>5. \A i \in DOMAIN order : order[i] \in Sessions
      BY DEF PageTypes, SetToSeqs, Known
    <3>6. LiveRowsFirst'
      BY <3>1, <3>4, <3>5 DEF LiveRowsFirst
    <3>7. QED
      BY <3>1, <3>3, <3>6 DEF PageTypes
  <2>3. QED
    BY <2>1, <2>2
<1>8. ASSUME NEW id \in Sessions
      PROVE  /\ newest[id] \in Nat /\ newest'[id] \in Nat /\ newest'[id] >= newest[id]
             /\ newest'[id] <= table[id].rev
             /\ id = m.id => newest'[id] >= m.row.rev
  <2>1. newest[id] \in Nat /\ newest[id] <= table[id].rev
    BY DEF PageTypes, PageOK
  <2>2. newest'[id] = IF id = m.id THEN Larger(newest[id], m.row.rev) ELSE newest[id]
    BY <1>2, <1>4 DEF PageTypes
  <2>3. CASE id = m.id
    <3>1. m.row.rev \in Nat /\ m.row.rev <= table[id].rev
      BY <1>4, <2>3, RowFacts DEF IsRowOf
    <3>2. QED
      BY <2>1, <2>2, <2>3, <3>1, LargerFacts
  <2>4. CASE id # m.id
    BY <2>1, <2>2, <2>4
  <2>5. QED
    BY <2>3, <2>4
<1>9. Types'
  <2>1. ServerTypes' /\ StreamTypes'
    BY <1>2, <1>3 DEF ServerTypes, StreamTypes, serverVars
  <2>2. newest' \in [Sessions -> Nat]
    BY <1>2, <1>8 DEF PageTypes
  <2>3. Known(entries)' = Known(entries')
    BY DEF Known
  <2>4. PageTypes'
    BY <1>2, <1>6, <1>7, <2>2, <2>3 DEF PageTypes
  <2>5. QED
    BY <2>1, <2>4 DEF Types
<1>10. MessagesOK'
  <2>1. \A n : MsgOK(n) => MsgOK(n)'
    BY <1>2 DEF MsgOK, IsRowOf, serverVars
  <2>2. QED
    BY <1>2, <1>3, <2>1 DEF MessagesOK, serverVars
<1>11. ServerOK' /\ AnswersOK'
  BY <1>2, ServerSame, AnswersSame DEF serverVars
<1>12. PageOK'
  <2> SUFFICES ASSUME NEW id \in Sessions
               PROVE  /\ IsRowOf(entries[id].session, id)' /\ newest'[id] <= table'[id].rev
                      /\ heard'[id] \subseteq keys'[id] /\ listed'[id] \subseteq keys'[id]
    BY DEF PageOK
  <2>1. IsRowOf(entries[id].session, id)'
    BY <1>2, <1>4, <1>5 DEF PageOK, IsRowOf, serverVars
  <2>2. QED
    BY <1>2, <1>8, <2>1 DEF PageOK, serverVars
<1>13. CountsOK'
  BY <1>2, <1>5 DEF CountsOK, CountOK
<1>14. Covered'
  <2> SUFFICES ASSUME ~failed, NEW x \in Sessions \ missed
               PROVE  RowCovered(x)' /\ \A k \in keys[x] : KeyCovered(x, k)'
    BY <1>2 DEF Covered, serverVars
  <2>1. RowCovered(x) /\ \A k \in keys[x] : KeyCovered(x, k)
    BY DEF Covered
  <2>2. RowMsg(x)' = RowMsg(x) /\ table' = table /\ calls' = calls
    BY <1>2 DEF RowMsg, serverVars
  <2>3. newest[x] = table[x].rev \/ RowMsg(x) = m => newest'[x] = table[x].rev
    <3>1. table[x].rev \in Nat
      BY RowFacts DEF ServerTypes, Table
    <3>2. RowMsg(x) = m => m.id = x /\ m.row = table[x]
      BY DEF RowMsg
    <3>3. /\ newest'[x] \in Nat /\ newest[x] \in Nat /\ newest'[x] >= newest[x]
          /\ newest'[x] <= table[x].rev
          /\ x = m.id => newest'[x] >= m.row.rev
      BY <1>8
    <3>4. QED
      BY <3>1, <3>2, <3>3
  <2>4. RowCovered(x)'
    BY <1>3, <2>1, <2>2, <2>3 DEF RowCovered
  <2>5. ASSUME NEW k \in keys[x] PROVE KeyCovered(x, k)'
    <3>1. ActivityFrame(x, k) # m
      BY <1>3 DEF ActivityFrame
    <3>2. QED
      BY <1>2, <1>3, <2>1, <2>2, <3>1 DEF KeyCovered
  <2>6. QED
    BY <2>4, <2>5
<1>15. QED
  BY <1>3, <1>7, <1>9, <1>10, <1>11, <1>12, <1>13, <1>14 DEF Inv

\* A key event by stream is counted; no other message tells of it.
LEMMA OnActivityKeepsInv ==
    ASSUME Inv, OnActivity
    PROVE  Inv'
<1> USE InvFacts
<1>1. PICK m : m = Head(frames)
  OBVIOUS
<1>2. /\ NextFrame("activity")
      /\ entries' = [entries EXCEPT ![m.id].keyCount = @ + 1]
      /\ heard' = [heard EXCEPT ![m.id] = @ \cup {m.key}]
      /\ blurred' = IF m.key \in listed[m.id] THEN blurred \cup {m.id} ELSE blurred
      /\ UNCHANGED <<serverVars, conn, opened, order, newest, listed, calls, asked,
                     faults, missed, failed>>
  BY <1>1 DEF OnActivity
<1>3. /\ m \in Frame /\ m.kind = "activity" /\ MsgOK(m) /\ frames' \in Seq(Frame) /\ AnnouncedOnce'
      /\ \A i \in DOMAIN frames' : MsgOK(frames'[i]) /\ frames'[i] # m
      /\ \A n : IsOnItsWay(n) => IsOnItsWay(n)' \/ n = m
      /\ m \notin toPublish
  BY <1>1, <1>2, NextFrameFacts DEF serverVars
<1>4. /\ m \in ActivityMsg /\ m.id \in Sessions /\ m.key \in Keys
      /\ m.key \in keys[m.id] /\ m.key \notin heard[m.id]
  BY <1>3, FrameFacts DEF ActivityMsg, MsgOK
<1>5. ASSUME NEW id \in Sessions
      PROVE  /\ entries[id] \in Entry /\ entries'[id] \in Entry
             /\ entries'[id].session = entries[id].session
             /\ entries'[id].keyCount = IF id = m.id THEN entries[id].keyCount + 1
                                        ELSE entries[id].keyCount
  BY <1>2, <1>4 DEF PageTypes, Entry
<1>6. entries' \in [Sessions -> Entry] /\ Known(entries') = Known(entries)
  BY <1>2, <1>5 DEF PageTypes, Known
<1>7. LiveRowsFirst'
  <2>1. \A i \in DOMAIN order : order[i] \in Sessions
    BY DEF PageTypes, SetToSeqs, Known
  <2>2. order' = order
    BY <1>2
  <2>3. QED
    BY <1>5, <2>1, <2>2 DEF LiveRowsFirst
<1>8. ASSUME NEW id \in Sessions
      PROVE  /\ heard[id] \in SUBSET Keys /\ listed[id] \in SUBSET Keys
             /\ heard'[id] = IF id = m.id THEN heard[id] \cup {m.key} ELSE heard[id]
             /\ heard[id] \subseteq heard'[id]
  BY <1>2, <1>4 DEF PageTypes, KeySets
<1>9. Types'
  <2>1. ServerTypes' /\ StreamTypes'
    BY <1>2, <1>3 DEF ServerTypes, StreamTypes, serverVars
  <2>2. heard' \in KeySets
    BY <1>2, <1>4, <1>8 DEF PageTypes, KeySets
  <2>3. Known(entries)' = Known(entries')
    BY DEF Known
  <2>4. blurred' \subseteq Sessions
    BY <1>2, <1>4 DEF PageTypes
  <2>5. PageTypes'
    BY <1>2, <1>6, <2>2, <2>3, <2>4 DEF PageTypes
  <2>6. QED
    BY <2>1, <2>5 DEF Types
<1>10. MessagesOK'
  <2>1. ASSUME NEW n \in Frame, n # m, MsgOK(n) PROVE MsgOK(n)'
    <3>1. CASE n.kind = "activity"
      <4>1. n \in ActivityMsg /\ n.id \in Sessions
        BY <3>1, FrameFacts DEF ActivityMsg
      <4>2. ~(n.id = m.id /\ n.key = m.key)
        <5>1. SUFFICES ASSUME n.id = m.id, n.key = m.key PROVE n = m
          BY <2>1
        <5>2. QED
          BY <1>4, <4>1, <5>1, SameActivity
      <4>3. n.key \notin heard'[n.id]
        <5>1. n.key \notin heard[n.id]
          BY <2>1, <3>1 DEF MsgOK
        <5>2. heard'[n.id] = IF n.id = m.id THEN heard[n.id] \cup {m.key} ELSE heard[n.id]
          BY <1>8, <4>1
        <5>3. QED
          BY <5>1, <5>2, <4>2, Zenon
      <4>4. QED
        BY <1>2, <2>1, <3>1, <4>3 DEF MsgOK, serverVars
    <3>2. CASE n.kind # "activity"
      BY <1>2, <2>1, <3>2 DEF MsgOK, IsRowOf, serverVars
    <3>3. QED
      BY <3>1, <3>2
  <2>2. \A n \in toPublish : n \in Frame /\ n # m
    BY <1>3 DEF ServerTypes, Frame
  <2>3. \A i \in DOMAIN frames' : frames'[i] \in Frame
    BY <1>3
  <2>4. \A n \in Frame : n # m /\ MsgOK(n) => MsgOK(n)'
    BY <2>1
  <2>5. QED
    BY <1>2, <1>3, <2>2, <2>3, <2>4 DEF MessagesOK, serverVars
<1>11. ServerOK' /\ AnswersOK'
  BY <1>2, ServerSame, AnswersSame DEF serverVars
<1>12. PageOK'
  BY <1>2, <1>4, <1>5, <1>8 DEF PageOK, IsRowOf, serverVars
<1>13. CountsOK'
  <2> SUFFICES ASSUME NEW id \in Sessions PROVE CountOK(id)'
    BY DEF CountsOK
  <2>1. CASE id # m.id
    BY <1>2, <1>5, <1>8, <2>1 DEF CountsOK, CountOK
  <2>2. CASE id = m.id
    <3> DEFINE n == entries[id].keyCount  H == heard[id]  L == listed[id]  k == m.key
    <3>1. /\ n \in Nat /\ H \in SUBSET Keys /\ L \in SUBSET Keys /\ H \cup L \in SUBSET Keys
          /\ k \in Keys /\ k \notin H
      BY <1>4, <1>5, <1>8, <2>2 DEF Entry
    <3>2. n >= Cardinality(H) /\ n >= Cardinality(L) /\ (id \notin blurred => n = Cardinality(H \cup L))
      BY DEF CountsOK, CountOK
    <3>3. /\ entries'[id].keyCount = n + 1 /\ heard'[id] = H \cup {k} /\ listed'[id] = L
          /\ id \notin blurred' => id \notin blurred /\ k \notin L
      BY <1>2, <1>5, <1>8, <2>2
    <3> HIDE DEF n, H, L, k
    <3>4. /\ Cardinality(H) \in Nat /\ Cardinality(L) \in Nat
          /\ Cardinality(H \cup {k}) = Cardinality(H) + 1
      BY <3>1, KeySetFacts
    <3>5. k \notin L => Cardinality((H \cup {k}) \cup L) = Cardinality(H \cup L) + 1
      <4>1. (H \cup {k}) \cup L = (H \cup L) \cup {k}
        OBVIOUS
      <4>2. k \notin L => k \notin H \cup L
        BY <3>1
      <4>3. QED
        BY <3>1, <4>1, <4>2, KeySetFacts
    <3>6. n + 1 >= Cardinality(H \cup {k}) /\ n + 1 >= Cardinality(L)
      BY <3>1, <3>2, <3>4
    <3>7. QED
      BY <3>2, <3>3, <3>5, <3>6 DEF CountOK
  <2>3. QED
    BY <2>1, <2>2
<1>14. Covered'
  <2> SUFFICES ASSUME ~failed, NEW x \in Sessions \ missed
               PROVE  RowCovered(x)' /\ \A k \in keys[x] : KeyCovered(x, k)'
    BY <1>2 DEF Covered, serverVars
  <2>1. RowCovered(x) /\ \A k \in keys[x] : KeyCovered(x, k)
    BY DEF Covered
  <2>2. RowMsg(x)' = RowMsg(x) /\ table' = table /\ calls' = calls /\ RowMsg(x) # m
    BY <1>2, <1>3 DEF RowMsg, serverVars
  <2>3. RowCovered(x)'
    BY <1>2, <1>3, <2>1, <2>2 DEF RowCovered
  <2>4. ASSUME NEW k \in keys[x] PROVE KeyCovered(x, k)'
    <3>1. CASE ActivityFrame(x, k) = m
      <4>1. k = m.key /\ x = m.id
        BY <3>1 DEF ActivityFrame
      <4>2. QED
        BY <1>8, <4>1 DEF KeyCovered
    <3>2. CASE ActivityFrame(x, k) # m
      BY <1>2, <1>3, <1>8, <2>1, <2>2, <3>2 DEF KeyCovered
    <3>3. QED
      BY <3>1, <3>2
  <2>5. QED
    BY <2>3, <2>4
<1>15. QED
  BY <1>3, <1>7, <1>9, <1>10, <1>11, <1>12, <1>13, <1>14 DEF Inv

-----------------------------------------------------------------------------
(* The theorems. *)

LEMMA InitInv == Init => Inv
<1> SUFFICES ASSUME Init PROVE Inv
  OBVIOUS
<1>1. /\ table \in [Sessions -> {NoRow, LiveRow}] /\ keys = [id \in Sessions |-> {}]
      /\ toPublish = {} /\ conn = "none" /\ frames = <<>> /\ opened = FALSE
      /\ entries = [id \in Sessions |-> [session |-> NoRow, keyCount |-> 0]]
      /\ order = <<>> /\ calls = {Call(0, TRUE)} /\ asked = 1 /\ writes = 0 /\ faults = 0
      /\ missed = {} /\ failed = FALSE /\ newest = [id \in Sessions |-> 0]
      /\ heard = [id \in Sessions |-> {}] /\ listed = [id \in Sessions |-> {}]
      /\ blurred = {}
  BY DEF Init
<1>2. MaxWrites \in Nat
  BY OverviewAssumption
<1>3. LiveRow \in Rows /\ LiveRow.rev = 1
  BY <1>2 DEF LiveRow, Rows, Starts
<1>4. /\ \A id \in Sessions : table[id] = NoRow \/ table[id] = LiveRow
      /\ \A id \in Sessions : table[id] \in Rows \cup {NoRow}
      /\ table \in Table
  BY <1>1, <1>3 DEF Table
<1>5. ServerTypes
  BY <1>1, <1>2, <1>4 DEF ServerTypes, KeySets
<1>6. StreamTypes
  <2>1. Call(0, TRUE) \in ListCall /\ <<>> \in Seq(Frame)
    BY DEF Call, ListCall
  <2>2. QED
    BY <1>1, <2>1 DEF StreamTypes
<1>7. PageTypes
  <2>1. [session |-> NoRow, keyCount |-> 0] \in Entry
    BY DEF Entry
  <2>2. entries \in [Sessions -> Entry]
    BY <1>1, <2>1
  <2>3. Known(entries) = {}
    BY <1>1 DEF Known
  <2>4. Cardinality({}) = 0 /\ 1..0 = {}
    BY FS_EmptySet
  <2>5. order \in [1..Cardinality({}) -> {}] /\ \A i, j \in 1..Cardinality({}) : i # j => order[i] # order[j]
    BY <1>1, <2>4, EmptySeq
  <2>6. order \in SetToSeqs(Known(entries))
    BY <2>3, <2>5 DEF SetToSeqs
  <2>7. QED
    BY <1>1, <2>2, <2>6 DEF PageTypes, KeySets
<1>8. ServerOK
  <2>1. \A id \in Sessions : table[id].rev <= writes + 1
    BY <1>1, <1>3, <1>4, RowFacts
  <2>2. Stored = {} /\ Cardinality({}) = 0 /\ 1..0 = {}
    BY <1>1, FS_EmptySet DEF Stored
  <2>3. QED
    BY <1>1, <2>1, <2>2 DEF ServerOK
<1>9. MessagesOK /\ AnnouncedOnce
  BY <1>1, EmptySeq DEF MessagesOK, AnnouncedOnce
<1>10. \A c \in calls : c.answer = Waiting
  BY <1>1 DEF Call
<1>11. AnswersOK
  BY <1>10 DEF AnswersOK, Snapshots, Comparable
<1>12. PageOK
  <2> SUFFICES ASSUME NEW id \in Sessions
               PROVE  /\ IsRowOf(entries[id].session, id) /\ newest[id] <= table[id].rev
                      /\ heard[id] \subseteq keys[id] /\ listed[id] \subseteq keys[id]
    BY DEF PageOK
  <2>1. entries[id].session = NoRow /\ newest[id] = 0 /\ heard[id] = {} /\ listed[id] = {}
    BY <1>1
  <2>2. 0 <= table[id].rev /\ (table[id].rev = 0 => table[id] = NoRow)
    BY <1>3, <1>4, RowFacts
  <2>3. QED
    BY <2>1, <2>2, RowFacts DEF IsRowOf
<1>13. CountsOK
  BY <1>1, FS_EmptySet DEF CountsOK, CountOK
<1>14. Covered
  <2>1. calls # {}
    BY <1>1
  <2>2. QED
    BY <1>10, <2>1 DEF Covered, RowCovered, KeyCovered
<1>15. LiveRowsFirst
  BY <1>1, EmptySeq DEF LiveRowsFirst
<1>16. QED
  BY <1>5, <1>6, <1>7, <1>8, <1>9, <1>11, <1>12, <1>13, <1>14, <1>15 DEF Inv, Types

LEMMA InvInductive == Inv /\ [Next]_vars => Inv'
<1> SUFFICES ASSUME Inv, [Next]_vars PROVE Inv'
  OBVIOUS
<1>1. CASE UNCHANGED vars
  <2>1. Types'
    BY <1>1, InvFacts, PageTypesSame DEF vars, Types, ServerTypes, StreamTypes, serverVars
  <2>2. /\ ServerOK' /\ MessagesOK' /\ AnnouncedOnce' /\ AnswersOK' /\ PageOK' /\ CountsOK'
        /\ LiveRowsFirst'
    BY <1>1, InvFacts, ServerSame, MessagesSame, AnnouncedSame, AnswersSame, PageSame, CountsSame,
       LiveSame DEF vars, serverVars, pageVars
  <2>3. Covered'
    BY <1>1, InvFacts DEF vars, serverVars, pageVars, Covered, RowCovered, KeyCovered, IsOnItsWay,
                          RowMsg
  <2>4. QED
    BY <2>1, <2>2, <2>3 DEF Inv
<1>2. ASSUME NEW id \in Sessions,
             \/ CreateSession(id) \/ ChangeSession(id) \/ EndSession(id)
             \/ \E key \in Keys : StoreKey(id, key)
      PROVE  Inv'
  BY <1>2, SessionStepKeepsInv, StoreKeyKeepsInv
<1>3. ASSUME NEW m \in toPublish, Publish(m) PROVE Inv'
  BY <1>3, PublishKeepsInv
<1>4. ASSUME NEW c \in calls, Answer(c) \/ LoadList(c) \/ LoadListFails(c) PROVE Inv'
  BY <1>4, AnswerKeepsInv, LoadListKeepsInv, LoadListFailsKeepsInv
<1>5. CASE Connect \/ LoseConnection
  BY <1>5, ConnectKeepsInv, LoseConnectionKeepsInv
<1>6. CASE OnOpen \/ OnSession \/ OnActivity
  BY <1>6, OnOpenKeepsInv, OnSessionKeepsInv, OnActivityKeepsInv
<1>7. QED
  BY <1>1, <1>2, <1>3, <1>4, <1>5, <1>6 DEF Next

LEMMA AlwaysInv == Spec => []Inv
BY InitInv, InvInductive, PTL DEF Spec

\* The server and the page keep the types of their state.
THEOREM OverviewTypes == Spec => []TypeOK
<1>1. Inv => TypeOK
  <2> SUFFICES ASSUME Inv PROVE TypeOK
    OBVIOUS
  <2>1. \A m \in Frame : m.kind \in {"session", "activity", "open"} /\ m.row \in Rows \cup {NoRow}
    <3>1. \A m \in SessionMsg : m.kind = "session" /\ m.row \in Rows
      BY DEF SessionMsg
    <3>2. \A m \in ActivityMsg : m.kind = "activity" /\ m.row = NoRow
      BY DEF ActivityMsg
    <3>3. OpenFrame.kind = "open" /\ OpenFrame.row = NoRow
      BY DEF OpenFrame
    <3>4. QED
      BY <3>1, <3>2, <3>3 DEF Frame, Msg
  <2>2. toPublish \subseteq Frame /\ frames \in Seq(Frame)
    BY InvFacts DEF ServerTypes, StreamTypes, Frame
  <2>3. Range(frames) \subseteq Frame
    BY <2>2 DEF Range
  <2>4. \A m \in toPublish \cup Range(frames) :
           m.kind \in {"session", "activity", "open"} /\ m.row \in Rows \cup {NoRow}
    BY <2>1, <2>2, <2>3
  <2>5. table \in [Sessions -> Rows \cup {NoRow}] /\ keys \in [Sessions -> SUBSET Keys]
    BY InvFacts DEF ServerTypes, Table, KeySets
  <2>6. QED
    BY <2>4, <2>5, InvFacts DEF StreamTypes, PageTypes, TypeOK
<1>2. QED
  BY <1>1, AlwaysInv, PTL

\* The count of a row never falls behind what the page has heard of or was told.
THEOREM CountsKeepWhatWasSeen == Spec => []KeyCountKeepsWhatWasSeen
<1>1. Inv => KeyCountKeepsWhatWasSeen
  BY InvFacts DEF CountsOK, CountOK, KeyCountKeepsWhatWasSeen
<1>2. QED
  BY <1>1, AlwaysInv, PTL

\* Live sessions stand above ended ones.
THEOREM LiveRowsStandFirst == Spec => []LiveRowsFirst
<1>1. Inv => LiveRowsFirst
  BY DEF Inv
<1>2. QED
  BY <1>1, AlwaysInv, PTL

\* A settled overview shows what is stored, unless it was told nothing of it or
\* was told in the wrong order.
THEOREM SettledOverviewIsRight == Spec => []SettledOverviewIsCurrent
<1>1. Inv => SettledOverviewIsCurrent
  <2> SUFFICES ASSUME Inv, Settled, ~failed, NEW id \in Sessions \ missed
               PROVE  /\ entries[id].session = table[id] \/ entries[id].session.rev < newest[id]
                      /\ entries[id].keyCount = Cardinality(keys[id]) \/ id \in blurred
    BY DEF SettledOverviewIsCurrent
  <2>1. RowCovered(id) /\ \A key \in keys[id] : KeyCovered(id, key)
    BY InvFacts DEF Covered
  <2>2. \A m : ~IsOnItsWay(m)
    BY EmptySeq DEF Settled, IsOnItsWay
  <2>3. newest[id] = table[id].rev
    BY <2>1, <2>2 DEF RowCovered, Settled
  <2>4. /\ entries[id].session.rev \in Nat /\ table[id].rev \in Nat
        /\ IsRowOf(entries[id].session, id)
    BY InvFacts, RowFacts DEF PageTypes, Entry, ServerTypes, Table, PageOK
  <2>5. entries[id].session = table[id] \/ entries[id].session.rev < newest[id]
    BY <2>3, <2>4 DEF IsRowOf
  <2>6. heard[id] \cup listed[id] = keys[id]
    <3>1. \A key \in keys[id] : key \in heard[id] \cup listed[id]
      BY <2>1, <2>2 DEF KeyCovered, Settled
    <3>2. QED
      BY <3>1, InvFacts DEF PageOK
  <2>7. entries[id].keyCount = Cardinality(keys[id]) \/ id \in blurred
    BY <2>6, InvFacts DEF CountsOK, CountOK
  <2>8. QED
    BY <2>5, <2>7
<1>2. QED
  BY <1>1, AlwaysInv, PTL
=============================================================================
