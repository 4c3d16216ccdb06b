-------------------------- MODULE BackgroundProofs --------------------------
(***************************************************************************)
(* Proofs about Background.tla, for every window, every lateness and every *)
(* size of the ring.  The rate: the window is what is left of all accepted *)
(* times when some first ones are dropped, every dropped time is out of    *)
(* the rate window for good, and no time lies more than MaxLag before one  *)
(* that arrived earlier (RateInv, ArrivalInv).  The URLs: an emission is   *)
(* known to the detector, or a whole window old by the clock (SeenInv).    *)
(***************************************************************************)
EXTENDS Background, SequenceTheorems, FiniteSetTheorems, WellFoundedInduction, TLAPS

(* Least and greatest numbers. *)

LessThan == {p \in Nat \X Nat : p[1] < p[2]}

LEMMA LeastOfNaturals ==
    ASSUME NEW S \in SUBSET Nat, S # {}
    PROVE  Min(S) \in S /\ \A m \in S : Min(S) <= m
<1>1. IsWellFoundedOn(LessThan, Nat)
  BY NatLessThanWellFounded, Zenon DEF OpToRel, LessThan
<1>2. PICK n \in S : \A m \in S : ~(<<m, n>> \in LessThan)
  BY <1>1, WFMin, Zenon
<1>3. n \in S /\ \A m \in S : n <= m
  <2> SUFFICES ASSUME NEW m \in S PROVE n <= m
    OBVIOUS
  <2>1. m \in Nat /\ n \in Nat
    OBVIOUS
  <2>2. ~(m < n)
    BY <1>2, <2>1 DEF LessThan
  <2>3. QED
    BY <2>1, <2>2
<1>4. QED
  BY <1>3 DEF Min

LEMMA GreaterOfOne ==
    ASSUME NEW k \in Int
    PROVE  /\ Max({1, k}) \in Nat \ {0} /\ k <= Max({1, k})
           /\ Max({1, k}) = 1 \/ Max({1, k}) = k
<1>1. PICK g \in {1, k} : \A m \in {1, k} : g >= m
  <2>1. CASE k <= 1
    BY <2>1
  <2>2. CASE ~(k <= 1)
    BY <2>2
  <2>3. QED
    BY <2>1, <2>2
<1>2. Max({1, k}) \in {1, k} /\ \A m \in {1, k} : Max({1, k}) >= m
  BY <1>1 DEF Max
<1>3. QED
  BY <1>2

(* Sequences of times. *)

LEMMA Appended ==
    ASSUME NEW S, NEW s \in Seq(S), NEW k \in Nat, NEW new \in [1..k -> S]
    PROVE  /\ s \o new \in Seq(S) /\ Len(s \o new) = Len(s) + k
           /\ DOMAIN (s \o new) = 1..(Len(s) + k)
           /\ \A i \in 1..Len(s) : (s \o new)[i] = s[i]
           /\ \A i \in 1..k : (s \o new)[Len(s) + i] = new[i]
<1>1. new \in Seq(S) /\ Len(new) = k /\ Len(s) \in Nat
  BY LenProperties
<1>2. /\ s \o new \in Seq(S) /\ Len(s \o new) = Len(s) + k
      /\ \A i \in 1..(Len(s) + k) :
            (s \o new)[i] = IF i <= Len(s) THEN s[i] ELSE new[i - Len(s)]
  BY <1>1, ConcatProperties
<1>3. DOMAIN (s \o new) = 1..(Len(s) + k)
  BY <1>2, LenProperties
<1> DEFINE n == Len(s)  t == s \o new
<1>4. n \in Nat /\ \A i \in 1..(n + k) : t[i] = IF i <= n THEN s[i] ELSE new[i - n]
  BY <1>1, <1>2
<1> HIDE DEF n, t
<1>5. \A i \in 1..n : t[i] = s[i]
  BY <1>4
<1>6. \A i \in 1..k : t[n + i] = new[i]
  <2> TAKE i \in 1..k
  <2>1. n + i \in 1..(n + k) /\ ~(n + i <= n) /\ (n + i) - n = i
    BY <1>4
  <2>2. QED
    BY <1>4, <2>1
<1>7. QED
  BY <1>2, <1>3, <1>5, <1>6 DEF n, t

LEMMA SuffixFrom ==
    ASSUME NEW S, NEW s \in Seq(S), NEW m \in 1..(Len(s) + 1)
    PROVE  /\ SubSeq(s, m, Len(s)) \in Seq(S) /\ Len(SubSeq(s, m, Len(s))) = Len(s) - m + 1
           /\ \A i \in 1..(Len(s) - m + 1) : SubSeq(s, m, Len(s))[i] = s[m - 1 + i]
<1>1. Len(s) \in Nat /\ m \in Nat /\ m >= 1 /\ m <= Len(s) + 1 /\ DOMAIN s = 1..Len(s)
      /\ \A i \in 1..Len(s) : s[i] \in S
  BY LenProperties
<1>2. \A i \in m..Len(s) : s[i] \in S
  BY <1>1
<1>3. QED
  BY <1>1, <1>2, SubSeqProperties

(* The meter and the ring. *)

\* What prune leaves of w for time t: all but the first few, which are all
\* out of the window; what stands first is in it.
Prunes(w, t, p, d) ==
    /\ d \in 0..Len(w)
    /\ p \in Seq(Times) /\ Len(p) = Len(w) - d
    /\ \A i \in 1..Len(p) : p[i] = w[d + i]
    /\ \A i \in 1..d : w[i] <= t - RateWindow
    /\ Len(p) # 0 => t - RateWindow < p[1]

LEMMA PrunedDropsTheOld ==
    ASSUME NEW w \in Seq(Times), NEW t \in Times
    PROVE  \E d : Prunes(w, t, Pruned(w, t), d)
<1> DEFINE n == Len(w)
           old == t - RateWindow
           kept == {i \in DOMAIN w : w[i] > old}
<1>1. n \in Nat /\ DOMAIN w = 1..n /\ old \in Int /\ \A i \in 1..n : w[i] \in Int
  BY LenProperties, BackgroundAssumption DEF Times
<1>2. CASE kept = {}
  <2>1. Pruned(w, t) = <<>>
    BY <1>2 DEF Pruned
  <2>2. \A i \in 1..n : w[i] <= old
    BY <1>1, <1>2
  <2>3. <<>> \in Seq(Times) /\ Len(<<>>) = 0
    BY EmptySeq
  <2>4. Prunes(w, t, <<>>, n)
    BY <1>1, <2>2, <2>3 DEF Prunes
  <2>5. QED
    BY <2>1, <2>4
<1>3. CASE kept # {}
  <2> DEFINE m == Min(kept)  p == SubSeq(w, m, n)
  <2>1. kept \subseteq Nat
    BY <1>1
  <2>2. m \in kept /\ \A i \in kept : m <= i
    BY <1>3, <2>1, LeastOfNaturals
  <2>3. m \in 1..n /\ w[m] > old /\ \A i \in 1..n : w[i] > old => m <= i
    BY <1>1, <2>2
  <2>4. Pruned(w, t) = p
    BY <1>3 DEF Pruned
  <2> HIDE DEF m, kept
  <2>5. m \in Nat /\ 1 <= m /\ m <= n /\ m \in 1..(n + 1)
    BY <1>1, <2>3
  <2>6. p \in Seq(Times) /\ Len(p) = n - m + 1 /\ \A i \in 1..(n - m + 1) : p[i] = w[m - 1 + i]
    BY <2>5, SuffixFrom
  <2> HIDE DEF p, n
  <2>7. \A i \in 1..(m - 1) : w[i] <= old
    <3> TAKE i \in 1..(m - 1)
    <3>1. i \in 1..n /\ i < m
      BY <1>1, <2>5
    <3>2. QED
      BY <1>1, <2>3, <2>5, <3>1
  <2>8. p[1] = w[m]
    <3>1. 1 \in 1..(n - m + 1) /\ m - 1 + 1 = m
      BY <1>1, <2>5
    <3>2. QED
      BY <2>6, <3>1
  <2>9. m - 1 \in 0..n /\ Len(p) = n - (m - 1)
    BY <1>1, <2>5, <2>6
  <2>10. Prunes(w, t, p, m - 1)
    BY <1>1, <2>3, <2>5, <2>6, <2>7, <2>8, <2>9 DEF Prunes, n
  <2>11. QED
    BY <2>4, <2>10
<1>4. QED
  BY <1>2, <1>3

LEMMA RecentIsBounded ==
    ASSUME NEW S, NEW s \in Seq(S)
    PROVE  Recent(s) \in Seq(S) /\ Len(Recent(s)) <= RecentSize
<1> DEFINE n == Len(s)  k == n - RecentSize + 1  m == Max({1, k})
<1>1. n \in Nat /\ RecentSize \in Nat \ {0} /\ k \in Int
  BY LenProperties, BackgroundAssumption
<1>2. m \in Nat \ {0} /\ k <= m /\ (m = 1 \/ m = k)
  BY <1>1, GreaterOfOne
<1>3. m \in 1..(n + 1)
  BY <1>1, <1>2
<1> HIDE DEF m
<1>4. SubSeq(s, m, n) \in Seq(S) /\ Len(SubSeq(s, m, n)) = n - m + 1
  BY <1>3, SuffixFrom
<1>5. Recent(s) = SubSeq(s, m, n)
  BY DEF Recent, m
<1> HIDE DEF n
<1>6. n - m + 1 <= RecentSize
  BY <1>1, <1>2, <1>3
<1>7. QED
  BY <1>4, <1>5, <1>6 DEF n

(* The inductive invariants. *)

\* The window w is the rest of the accepted times a, and the dropped ones are
\* out of the rate window at the time n.
WindowOf(w, a, n) ==
    /\ Len(w) <= Len(a)
    /\ \A i \in 1..Len(w) : w[i] = a[Len(a) - Len(w) + i]
    /\ \A i \in 1..(Len(a) - Len(w)) : a[i] <= n - RateWindow

\* The rate is the length of the window, and the front of the window was inside
\* it when the rate was handed out.
RateInv ==
    /\ shown.rate = Len(window) /\ shown.at <= now
    /\ Len(window) # 0 => shown.at - RateWindow < window[1]
    /\ WindowOf(window, accepted, now)

\* Times arrive out of order, by no more than MaxLag.
Arrived(a, n) ==
    /\ \A i \in 1..Len(a) : a[i] <= n
    /\ \A i, j \in 1..Len(a) : i < j => a[i] - MaxLag <= a[j]

ArrivalInv == Arrived(accepted, now)

\* Every emission in e is the last and the one the detector knows, or a whole
\* window old at the time n.
KnownOrOld(s, e, n) ==
    /\ s # None => Len(e) # 0 /\ s = e[Len(e)]
    /\ \A i \in 1..Len(e) : /\ e[i] <= n
                             /\ \/ i = Len(e) /\ s = e[i]
                                \/ DedupWindow <= n - e[i]

SeenInv == \A u \in Urls : KnownOrOld(seen[u], emitted[u], now)

Inv == TypeOK /\ RateInv /\ ArrivalInv /\ SeenInv /\ SensitiveUrlOncePerWindow

(* What the parts of a step do to them. *)

LEMMA Naturals ==
    /\ DedupWindow \in Nat \ {0} /\ RateWindow \in Nat \ {0} /\ RecentSize \in Nat \ {0}
    /\ MaxLag \in Nat /\ MaxTime \in Nat /\ MaxEvents \in Nat
BY BackgroundAssumption

LEMMA TimesAreNaturals ==
    /\ Times \subseteq Nat
    /\ \A s \in Seq(Times) : Len(s) \in Nat /\ DOMAIN s = 1..Len(s) /\ \A i \in 1..Len(s) : s[i] \in Nat
<1>1. Times \subseteq Nat
  BY Naturals DEF Times
<1>2. QED
  BY <1>1, LenProperties

LEMMA WindowPruned ==
    ASSUME NEW w \in Seq(Times), NEW a \in Seq(Times), NEW n \in Times, WindowOf(w, a, n),
           NEW t \in Times, t <= n
    PROVE  /\ Pruned(w, t) \in Seq(Times) /\ WindowOf(Pruned(w, t), a, n)
           /\ Len(Pruned(w, t)) # 0 => t - RateWindow < Pruned(w, t)[1]
<1> DEFINE p == Pruned(w, t)
<1>1. PICK d : Prunes(w, t, p, d)
  BY PrunedDropsTheOld
<1> HIDE DEF p
<1>0. p \in Seq(Times) /\ d \in 0..Len(w) /\ Len(p) = Len(w) - d
  BY <1>1 DEF Prunes
<1>2. /\ Len(p) \in Nat /\ Len(w) \in Nat /\ Len(a) \in Nat
      /\ t \in Nat /\ n \in Nat /\ \A i \in 1..Len(a) : a[i] \in Nat
      /\ d \in 0..Len(w) /\ Len(p) = Len(w) - d
  BY <1>0, TimesAreNaturals
<1> DEFINE k == Len(a) - Len(w)
<1>3. k \in Nat /\ Len(a) - Len(p) = k + d /\ Len(p) <= Len(a)
  BY <1>2 DEF WindowOf
<1>4. \A i \in 1..Len(w) : w[i] = a[k + i]
  BY DEF WindowOf
<1> HIDE DEF k
<1>5. ASSUME NEW i \in 1..Len(p) PROVE p[i] = a[k + d + i]
  <2>1. d + i \in 1..Len(w) /\ k + (d + i) = k + d + i
    BY <1>2, <1>3
  <2>2. p[i] = w[d + i]
    BY <1>1 DEF Prunes
  <2>3. QED
    BY <1>4, <2>1, <2>2
<1>6. ASSUME NEW i \in 1..(k + d) PROVE a[i] <= n - RateWindow
  <2>1. CASE i <= k
    <3>1. i \in 1..k
      BY <1>2, <1>3, <2>1
    <3>2. QED
      BY <3>1 DEF WindowOf, k
  <2>2. CASE ~(i <= k)
    <3>1. i - k \in 1..d /\ i - k \in 1..Len(w) /\ k + (i - k) = i /\ i \in 1..Len(a)
      BY <1>2, <1>3, <2>2
    <3>2. w[i - k] <= t - RateWindow /\ w[i - k] = a[i]
      BY <1>1, <1>4, <3>1 DEF Prunes
    <3>3. QED
      BY <1>2, <3>1, <3>2, Naturals
  <2>3. QED
    BY <2>1, <2>2
<1>7. WindowOf(p, a, n)
  BY <1>3, <1>5, <1>6 DEF WindowOf
<1>8. Len(p) # 0 => t - RateWindow < p[1]
  BY <1>1 DEF Prunes
<1>9. QED
  BY <1>0, <1>7, <1>8 DEF p

LEMMA WindowGrows ==
    ASSUME NEW w \in Seq(Times), NEW a \in Seq(Times), NEW n \in Times, WindowOf(w, a, n),
           NEW k \in Nat, NEW new \in [1..k -> Times]
    PROVE  WindowOf(w \o new, a \o new, n)
<1> DEFINE x == w \o new  b == a \o new  lw == Len(w)  la == Len(a)
<1>1. /\ Len(x) = lw + k /\ \A i \in 1..lw : x[i] = w[i]
      /\ \A i \in 1..k : x[lw + i] = new[i]
  BY Appended
<1>2. /\ Len(b) = la + k /\ \A i \in 1..la : b[i] = a[i]
      /\ \A i \in 1..k : b[la + i] = new[i]
  BY Appended
<1>3. /\ lw \in Nat /\ la \in Nat /\ lw <= la
      /\ \A i \in 1..lw : w[i] = a[la - lw + i]
      /\ \A i \in 1..(la - lw) : a[i] <= n - RateWindow
  BY LenProperties DEF WindowOf
<1> HIDE DEF x, b, lw, la
<1>4. Len(b) - Len(x) = la - lw /\ Len(x) <= Len(b)
  BY <1>1, <1>2, <1>3
<1>5. ASSUME NEW i \in 1..Len(x) PROVE x[i] = b[la - lw + i]
  <2>1. CASE i <= lw
    <3>1. i \in 1..lw /\ la - lw + i \in 1..la
      BY <1>1, <1>3, <2>1
    <3>2. QED
      BY <1>1, <1>2, <1>3, <3>1
  <2>2. CASE ~(i <= lw)
    <3>1. i - lw \in 1..k /\ lw + (i - lw) = i /\ la + (i - lw) = la - lw + i
      BY <1>1, <1>3, <2>2
    <3>2. x[lw + (i - lw)] = new[i - lw] /\ b[la + (i - lw)] = new[i - lw]
      BY <1>1, <1>2, <3>1
    <3>3. QED
      BY <3>1, <3>2
  <2>3. QED
    BY <2>1, <2>2
<1>6. ASSUME NEW i \in 1..(la - lw) PROVE b[i] <= n - RateWindow
  <2>1. i \in 1..la
    BY <1>3
  <2>2. QED
    BY <1>2, <1>3, <2>1
<1>7. QED
  BY <1>4, <1>5, <1>6 DEF WindowOf, x, b

LEMMA ArrivedGrows ==
    ASSUME NEW a \in Seq(Times), NEW n \in Times, Arrived(a, n),
           NEW k \in Nat, NEW t \in Times, n - MaxLag <= t, t <= n
    PROVE  Arrived(a \o [i \in 1..k |-> t], n)
<1> DEFINE new == [i \in 1..k |-> t]  b == a \o new  la == Len(a)
<1>1. new \in [1..k -> Times] /\ \A i \in 1..k : new[i] = t
  OBVIOUS
<1> HIDE DEF new
<1>2. /\ Len(b) = la + k /\ \A i \in 1..la : b[i] = a[i]
      /\ \A i \in 1..k : b[la + i] = new[i]
  BY <1>1, Appended
<1>3. /\ la \in Nat /\ t \in Nat /\ n \in Nat /\ MaxLag \in Nat
      /\ \A i \in 1..la : a[i] \in Int /\ a[i] <= n
      /\ \A i, j \in 1..la : i < j => a[i] - MaxLag <= a[j]
  BY TimesAreNaturals, Naturals DEF Arrived
<1> HIDE DEF b, la
<1>5. \A i \in 1..(la + k) : IF i <= la THEN i \in 1..la /\ b[i] = a[i] ELSE b[i] = t
  <2> TAKE i \in 1..(la + k)
  <2>1. CASE i <= la
    <3>1. i \in 1..la
      BY <1>3, <2>1
    <3>2. QED
      BY <1>2, <2>1, <3>1
  <2>2. CASE ~(i <= la)
    <3>1. i - la \in 1..k /\ la + (i - la) = i
      BY <1>3, <2>2
    <3>2. b[la + (i - la)] = new[i - la]
      BY <1>2, <3>1
    <3>3. QED
      BY <1>1, <2>2, <3>1, <3>2
  <2>3. QED
    BY <2>1, <2>2
<1>6. \A i \in 1..(la + k) : b[i] \in Int /\ b[i] <= n
  BY <1>3, <1>5
<1>7. ASSUME NEW i \in 1..(la + k), NEW j \in 1..(la + k), i < j PROVE b[i] - MaxLag <= b[j]
  <2>1. CASE j <= la
    <3>1. i <= la
      BY <1>3, <1>7, <2>1
    <3>2. i \in 1..la /\ j \in 1..la /\ b[i] = a[i] /\ b[j] = a[j]
      BY <1>5, <2>1, <3>1
    <3>3. QED
      BY <1>3, <1>7, <3>2
  <2>2. CASE ~(j <= la)
    <3>1. b[j] = t
      BY <1>5, <2>2
    <3>2. b[i] \in Int /\ b[i] <= n
      BY <1>6
    <3>3. QED
      BY <1>3, <3>1, <3>2
  <2>3. QED
    BY <2>1, <2>2
<1>8. QED
  BY <1>2, <1>6, <1>7 DEF Arrived, b, new

LEMMA AcceptsKeepsTheRate ==
    ASSUME TypeOK, RateInv, ArrivalInv, NEW k \in Nat \ {0}, NEW t \in Arriving,
           Accepts(k, t), now' = now
    PROVE  /\ RateInv' /\ ArrivalInv'
           /\ window' \in Seq(Times) /\ accepted' \in Seq(Times)
           /\ shown' \in [rate : Nat, at : Times]
           /\ recent' \in Seq(1..MaxEvents) /\ Len(recent') <= RecentSize
<1> DEFINE new == [i \in 1..k |-> t]  w == window \o new  a == accepted \o new
           n == Len(accepted)  numbers == [i \in 1..k |-> n + i]
<1>1. /\ t \in Times /\ now - MaxLag <= t /\ t <= now /\ now \in Times
      /\ window \in Seq(Times) /\ accepted \in Seq(Times) /\ recent \in Seq(1..MaxEvents)
  BY DEF Arriving, TypeOK
<1>2. new \in [1..k -> Times]
  BY <1>1
<1>3. /\ accepted' = a /\ window' = Pruned(w, t) /\ shown' = [rate |-> Len(Pruned(w, t)), at |-> t]
      /\ recent' = Recent(recent \o numbers) /\ n + k <= MaxEvents
  BY DEF Accepts, Snapshot
<1>4. w \in Seq(Times) /\ a \in Seq(Times)
  <2> HIDE DEF new
  <2>1. QED
    BY <1>1, <1>2, Appended
<1>5. WindowOf(w, a, now)
  <2>1. WindowOf(window, accepted, now)
    BY DEF RateInv
  <2> HIDE DEF new
  <2>2. QED
    BY <1>1, <1>2, <2>1, WindowGrows
<1>6. ArrivalInv'
  <2>1. Arrived(a, now)
    BY <1>1, ArrivedGrows DEF ArrivalInv
  <2>2. Arrived(a, now')
    BY <2>1
  <2>3. QED
    BY <1>3, <2>2 DEF ArrivalInv
<1> DEFINE p == Pruned(w, t)
<1> HIDE DEF w, a
<1>7. /\ p \in Seq(Times) /\ WindowOf(p, a, now)
      /\ Len(p) # 0 => t - RateWindow < p[1]
  BY <1>1, <1>4, <1>5, WindowPruned
<1> HIDE DEF p
<1>8. window' = p /\ shown'.rate = Len(p) /\ shown'.at = t /\ Len(p) \in Nat
      /\ shown' = [rate |-> Len(p), at |-> t]
  BY <1>3, <1>7, TimesAreNaturals DEF p
<1>9. RateInv'
  <2>1. WindowOf(window', accepted', now')
    BY <1>3, <1>7, <1>8
  <2>2. shown'.rate = Len(window') /\ shown'.at <= now'
    BY <1>1, <1>8
  <2>3. Len(window') # 0 => shown'.at - RateWindow < window'[1]
    BY <1>7, <1>8
  <2>4. QED
    BY <2>1, <2>2, <2>3 DEF RateInv
<1>10. recent' \in Seq(1..MaxEvents) /\ Len(recent') <= RecentSize
  <2>1. n \in Nat /\ MaxEvents \in Nat
    BY <1>1, TimesAreNaturals, Naturals
  <2>2. \A i \in 1..k : n + i \in 1..MaxEvents
    BY <1>3, <2>1
  <2>3. numbers \in [1..k -> 1..MaxEvents]
    BY <2>2
  <2> HIDE DEF numbers
  <2>4. recent \o numbers \in Seq(1..MaxEvents)
    BY <1>1, <2>3, Appended
  <2>5. QED
    BY <1>3, <2>4, RecentIsBounded
<1>11. shown' \in [rate : Nat, at : Times]
  BY <1>1, <1>8
<1>12. window' \in Seq(Times) /\ accepted' \in Seq(Times)
  BY <1>3, <1>4, <1>7, <1>8
<1>13. QED
  BY <1>6, <1>9, <1>10, <1>11, <1>12

LEMMA SnapshotKeepsTheRate ==
    ASSUME TypeOK, RateInv, Snapshot(window, now), now' = now, accepted' = accepted
    PROVE  /\ RateInv' /\ window' \in Seq(Times) /\ shown' \in [rate : Nat, at : Times]
<1> DEFINE p == Pruned(window, now)
<1>1. now \in Times /\ now <= now /\ now \in Nat /\ window \in Seq(Times) /\ accepted \in Seq(Times)
  BY TimesAreNaturals DEF TypeOK
<1>2. WindowOf(window, accepted, now)
  BY DEF RateInv
<1>3. /\ p \in Seq(Times) /\ WindowOf(p, accepted, now)
      /\ Len(p) # 0 => now - RateWindow < p[1]
  BY <1>1, <1>2, WindowPruned
<1>4. window' = p /\ shown' = [rate |-> Len(p), at |-> now]
  BY DEF Snapshot
<1> HIDE DEF p
<1>5. Len(p) \in Nat
  BY <1>3, TimesAreNaturals
<1>6. shown'.rate = Len(p) /\ shown'.at = now /\ shown' \in [rate : Nat, at : Times]
  BY <1>1, <1>4, <1>5
<1>7. WindowOf(window', accepted', now')
  BY <1>3, <1>4
<1>8. shown'.rate = Len(window') /\ shown'.at <= now'
  BY <1>1, <1>4, <1>6
<1>9. Len(window') # 0 => shown'.at - RateWindow < window'[1]
  BY <1>3, <1>4, <1>6
<1>10. QED
  BY <1>3, <1>4, <1>6, <1>7, <1>8, <1>9 DEF RateInv

(* The detector. *)

\* Forgetting an emission that is a window old.
LEMMA ForgottenIsOld ==
    ASSUME NEW s \in Times \cup {None}, NEW e \in Seq(Times), NEW n \in Times, KnownOrOld(s, e, n),
           s # None => DedupWindow <= n - s
    PROVE  KnownOrOld(None, e, n) /\ \A i \in 1..Len(e) : DedupWindow <= n - e[i]
<1>1. Len(e) \in Nat /\ \A i \in 1..Len(e) : e[i] \in Nat
  BY TimesAreNaturals
<1>2. \A i \in 1..Len(e) : e[i] <= n /\ DedupWindow <= n - e[i]
  <2> TAKE i \in 1..Len(e)
  <2>1. e[i] <= n /\ (s = e[i] \/ DedupWindow <= n - e[i]) /\ e[i] # None
    BY <1>1 DEF KnownOrOld, None
  <2>2. QED
    BY <2>1
<1>3. QED
  BY <1>2 DEF KnownOrOld

LEMMA EmittedIsKnown ==
    ASSUME NEW e \in Seq(Times), NEW n \in Times, NEW t \in Times, t <= n,
           \A i \in 1..Len(e) : e[i] <= n /\ DedupWindow <= n - e[i]
    PROVE  KnownOrOld(t, Append(e, t), n)
<1> DEFINE f == Append(e, t)
<1>1. Len(e) \in Nat /\ Len(f) = Len(e) + 1 /\ f[Len(e) + 1] = t /\ \A i \in 1..Len(e) : f[i] = e[i]
  BY TimesAreNaturals, AppendProperties
<1> HIDE DEF f
<1>2. Len(f) # 0 /\ t = f[Len(f)]
  BY <1>1
<1>3. ASSUME NEW i \in 1..Len(f)
      PROVE  f[i] <= n /\ ((i = Len(f) /\ t = f[i]) \/ DedupWindow <= n - f[i])
  <2>1. CASE i = Len(e) + 1
    BY <1>1, <2>1
  <2>2. CASE i # Len(e) + 1
    <3>1. i \in 1..Len(e)
      BY <1>1, <2>2
    <3>2. QED
      BY <1>1, <3>1
  <2>3. QED
    BY <2>1, <2>2
<1>4. QED
  BY <1>2, <1>3 DEF KnownOrOld, f

\* The parts of SensitiveUrlOncePerWindow: a report with its event, and the
\* events of one URL.
Covered(t, e) == \E x \in Range(e) : t - DedupWindow < x /\ x <= t + MaxLag

Spaced(e) == \A i, j \in DOMAIN e : i < j => e[j] - e[i] >= DedupWindow - MaxLag

LEMMA CoveredStays ==
    ASSUME NEW e \in Seq(Times), NEW x \in Times, NEW t, Covered(t, e)
    PROVE  Covered(t, Append(e, x))
<1>1. PICK y \in Range(e) : t - DedupWindow < y /\ y <= t + MaxLag
  BY DEF Covered
<1>2. PICK i \in DOMAIN e : e[i] = y
  BY <1>1 DEF Range
<1>3. i \in DOMAIN Append(e, x) /\ Append(e, x)[i] = e[i]
  BY <1>2, AppendProperties, LenProperties
<1>4. y \in Range(Append(e, x))
  BY <1>2, <1>3 DEF Range
<1>5. QED
  BY <1>1, <1>4 DEF Covered

LEMMA SpacedStays ==
    ASSUME NEW e \in Seq(Times), NEW n \in Times, NEW t \in Times, n - MaxLag <= t, Spaced(e),
           \A i \in 1..Len(e) : DedupWindow <= n - e[i]
    PROVE  Spaced(Append(e, t))
<1> DEFINE f == Append(e, t)  k == Len(e)
<1>1. /\ k \in Nat /\ DOMAIN e = 1..k /\ DOMAIN f = 1..(k + 1) /\ f[k + 1] = t
      /\ \A i \in 1..k : f[i] = e[i] /\ e[i] \in Nat
  <2>1. f \in Seq(Times) /\ Len(f) = k + 1 /\ f[k + 1] = t /\ \A i \in 1..k : f[i] = e[i]
    BY AppendProperties
  <2>2. QED
    BY <2>1, TimesAreNaturals
<1> HIDE DEF f
<1>2. SUFFICES ASSUME NEW i \in 1..(k + 1), NEW j \in 1..(k + 1), i < j
               PROVE  f[j] - f[i] >= DedupWindow - MaxLag
  BY <1>1 DEF Spaced, f
<1>3. i \in 1..k
  BY <1>1, <1>2
<1>4. CASE j = k + 1
  <2>1. f[j] = t /\ f[i] = e[i] /\ e[i] \in Nat /\ DedupWindow <= n - e[i]
    BY <1>1, <1>3, <1>4
  <2>2. n \in Nat /\ t \in Nat
    BY TimesAreNaturals
  <2>3. QED
    BY <2>1, <2>2, Naturals
<1>5. CASE j # k + 1
  <2>1. j \in 1..k
    BY <1>1, <1>5
  <2>2. QED
    BY <1>1, <1>2, <1>3, <2>1 DEF Spaced
<1>6. QED
  BY <1>4, <1>5

LEMMA WindowsOfUrls ==
    SensitiveUrlOncePerWindow <=> /\ \A o \in observed : Covered(o[2], emitted[o[1]])
                                  /\ \A u \in Urls : Spaced(emitted[u])
BY DEF SensitiveUrlOncePerWindow, Covered, Spaced

LEMMA KeptIsYoung ==
    ASSUME TypeOK, SeenInv, NEW t \in Arriving, NEW u \in Urls
    PROVE  /\ Kept(t)[u] \in Times \cup {None} /\ KnownOrOld(Kept(t)[u], emitted[u], now)
           /\ IsHit(u, t) => \A i \in 1..Len(emitted[u]) :
                                 emitted[u][i] <= now /\ DedupWindow <= now - emitted[u][i]
           /\ ~IsHit(u, t) => Kept(t)[u] = seen[u] /\ seen[u] \in Times /\ t - seen[u] < DedupWindow
<1> DEFINE s == seen[u]  e == emitted[u]
<1>1. /\ s \in Times \cup {None} /\ e \in Seq(Times) /\ now \in Times /\ KnownOrOld(s, e, now)
      /\ now \in Nat /\ t \in Nat /\ t <= now /\ (s # None => s \in Nat) /\ None \notin Nat
  <2>1. s \in Times \cup {None} /\ e \in Seq(Times) /\ now \in Times
    BY DEF TypeOK
  <2>2. t \in Times /\ t <= now
    BY DEF Arriving
  <2>3. KnownOrOld(s, e, now)
    BY DEF SeenInv
  <2>4. now \in Nat /\ t \in Nat /\ (s # None => s \in Nat)
    BY <2>1, <2>2, TimesAreNaturals
  <2>5. None \notin Nat
    BY DEF None
  <2>6. QED
    BY <2>1, <2>2, <2>3, <2>4, <2>5
<1>2. Kept(t)[u] = IF s # None /\ t - s >= DedupWindow THEN None ELSE s
  BY DEF Kept
<1>3. IsHit(u, t) <=> Kept(t)[u] = None
  BY DEF IsHit
<1>4. \A i \in 1..Len(e) : e[i] <= now
  BY <1>1 DEF KnownOrOld
<1> HIDE DEF s, e
<1>5. CASE s # None /\ t - s >= DedupWindow
  <2>1. Kept(t)[u] = None
    BY <1>2, <1>5
  <2>2. DedupWindow <= now - s
    BY <1>1, <1>5, Naturals
  <2>3. KnownOrOld(None, e, now) /\ \A i \in 1..Len(e) : DedupWindow <= now - e[i]
    BY <1>1, <2>2, ForgottenIsOld
  <2>4. QED
    BY <1>3, <1>4, <2>1, <2>3 DEF e
<1>6. CASE s = None
  <2>1. Kept(t)[u] = None
    BY <1>2, <1>6
  <2>2. KnownOrOld(None, e, now) /\ \A i \in 1..Len(e) : DedupWindow <= now - e[i]
    BY <1>1, <1>6, ForgottenIsOld
  <2>3. QED
    BY <1>3, <1>4, <2>1, <2>2 DEF e
<1>7. CASE s # None /\ ~(t - s >= DedupWindow)
  <2>1. Kept(t)[u] = s
    BY <1>2, <1>7
  <2>2. s \in Times /\ t - s < DedupWindow
    BY <1>1, <1>7, Naturals
  <2>3. QED
    BY <1>1, <1>3, <1>7, <2>1, <2>2 DEF s, e
<1>8. QED
  BY <1>5, <1>6, <1>7

LEMMA DetectKeepsTheWindows ==
    ASSUME TypeOK, SeenInv, SensitiveUrlOncePerWindow, NEW u \in Urls, NEW t \in Arriving,
           Detect(u, t), now' = now
    PROVE  /\ SeenInv' /\ SensitiveUrlOncePerWindow'
           /\ seen' \in [Urls -> Times \cup {None}] /\ observed' \subseteq Urls \X Times
           /\ emitted' \in [Urls -> Seq(Times)]
<1>1. /\ t \in Times /\ t \in Nat /\ now \in Times /\ now \in Nat /\ now - MaxLag <= t /\ t <= now
      /\ emitted \in [Urls -> Seq(Times)] /\ \A v \in Urls : emitted[v] \in Seq(Times)
      /\ observed \subseteq Urls \X Times /\ observed' = observed \cup {<<u, t>>}
  BY TimesAreNaturals DEF TypeOK, Arriving, Detect
<1>2. /\ \A o \in observed : Covered(o[2], emitted[o[1]])
      /\ \A v \in Urls : Spaced(emitted[v])
  BY WindowsOfUrls
<1>3. Kept(t) \in [Urls -> Times \cup {None}]
  <2>1. \A v \in Urls : Kept(t)[v] \in Times \cup {None}
    BY KeptIsYoung
  <2>2. QED
    BY <2>1 DEF Kept
<1> DEFINE Good(v) == /\ KnownOrOld(seen'[v], emitted'[v], now) /\ Spaced(emitted'[v])
                      /\ \A x \in Times : Covered(x, emitted[v]) => Covered(x, emitted'[v])
<1>4. ASSUME IsHit(u, t)
      PROVE  /\ seen' \in [Urls -> Times \cup {None}] /\ emitted' \in [Urls -> Seq(Times)]
             /\ (\A v \in Urls : Good(v)) /\ Covered(t, emitted'[u])
  <2>1. seen' = [Kept(t) EXCEPT ![u] = t] /\ emitted' = [emitted EXCEPT ![u] = Append(@, t)]
    BY <1>4 DEF Detect
  <2>2. seen' \in [Urls -> Times \cup {None}] /\ emitted' \in [Urls -> Seq(Times)]
    <3>1. Append(emitted[u], t) \in Seq(Times)
      BY <1>1, AppendProperties
    <3>2. QED
      BY <1>1, <1>3, <2>1, <3>1
  <2>3. ASSUME NEW v \in Urls PROVE Good(v)
    <3>1. CASE v = u
      <4> DEFINE e == emitted[u]
      <4>1. seen'[v] = t /\ emitted'[v] = Append(e, t)
        BY <1>1, <1>3, <2>1, <3>1
      <4>2. e \in Seq(Times) /\ Spaced(e) /\ \A i \in 1..Len(e) : e[i] <= now /\ DedupWindow <= now - e[i]
        BY <1>1, <1>2, <1>4, KeptIsYoung
      <4> HIDE DEF e
      <4>3. KnownOrOld(t, Append(e, t), now)
        BY <1>1, <4>2, EmittedIsKnown
      <4>4. Spaced(Append(e, t))
        BY <1>1, <4>2, SpacedStays
      <4>5. \A x \in Times : Covered(x, e) => Covered(x, Append(e, t))
        BY <1>1, <4>2, CoveredStays
      <4>6. QED
        BY <3>1, <4>1, <4>3, <4>4, <4>5 DEF e
    <3>2. CASE v # u
      <4>1. seen'[v] = Kept(t)[v] /\ emitted'[v] = emitted[v]
        BY <1>1, <1>3, <2>1, <3>2
      <4>2. KnownOrOld(Kept(t)[v], emitted[v], now)
        BY KeptIsYoung
      <4>3. QED
        BY <1>2, <4>1, <4>2
    <3>3. QED
      BY <3>1, <3>2
  <2>4. Covered(t, emitted'[u])
    <3> DEFINE f == Append(emitted[u], t)
    <3>1. emitted'[u] = f
      BY <1>1, <2>1
    <3>2. emitted[u] \in Seq(Times) /\ Len(emitted[u]) \in Nat
      BY <1>1, TimesAreNaturals
    <3>3. f \in Seq(Times) /\ Len(f) = Len(emitted[u]) + 1 /\ f[Len(emitted[u]) + 1] = t
      BY <1>1, <3>2, AppendProperties
    <3>4. Len(emitted[u]) + 1 \in DOMAIN f
      BY <3>2, <3>3, LenProperties
    <3>5. t \in Range(f)
      BY <3>3, <3>4 DEF Range
    <3>6. t - DedupWindow < t /\ t <= t + MaxLag
      BY <1>1, Naturals
    <3>7. QED
      BY <3>1, <3>5, <3>6 DEF Covered
  <2> HIDE DEF Good
  <2>5. QED
    BY <2>2, <2>3, <2>4
<1>5. ASSUME ~IsHit(u, t)
      PROVE  /\ seen' \in [Urls -> Times \cup {None}] /\ emitted' \in [Urls -> Seq(Times)]
             /\ (\A v \in Urls : Good(v)) /\ Covered(t, emitted'[u])
  <2>1. seen' = Kept(t) /\ emitted' = emitted
    BY <1>5 DEF Detect
  <2>2. \A v \in Urls : Good(v)
    <3> TAKE v \in Urls
    <3>1. KnownOrOld(Kept(t)[v], emitted[v], now)
      BY KeptIsYoung
    <3>2. QED
      BY <1>2, <2>1, <3>1
  <2>3. Covered(t, emitted'[u])
    <3> DEFINE s == seen[u]  e == emitted[u]
    <3>1. s \in Times /\ t - s < DedupWindow /\ Kept(t)[u] = s
      BY <1>5, KeptIsYoung
    <3>2. KnownOrOld(s, e, now)
      BY DEF SeenInv
    <3>3. e \in Seq(Times) /\ Len(e) \in Nat /\ DOMAIN e = 1..Len(e) /\ s \in Nat /\ s # None
      <4>1. e \in Seq(Times)
        BY <1>1
      <4>2. s \in Nat
        BY <3>1, TimesAreNaturals
      <4>3. s # None
        BY <4>2 DEF None
      <4>4. QED
        BY <4>1, <4>2, <4>3, TimesAreNaturals
    <3> HIDE DEF s, e
    <3>4. Len(e) # 0 /\ s = e[Len(e)]
      BY <3>2, <3>3 DEF KnownOrOld
    <3>5. Len(e) \in 1..Len(e)
      BY <3>3, <3>4
    <3>6. s \in Range(e) /\ s <= now
      BY <3>2, <3>3, <3>4, <3>5 DEF Range, KnownOrOld
    <3>7. t - DedupWindow < s /\ s <= t + MaxLag
      BY <1>1, <3>1, <3>3, <3>6, Naturals
    <3>8. Covered(t, e)
      BY <3>6, <3>7 DEF Covered
    <3>9. QED
      BY <2>1, <3>8 DEF e
  <2> HIDE DEF Good
  <2>4. QED
    BY <1>1, <1>3, <2>1, <2>2, <2>3
<1>6. /\ seen' \in [Urls -> Times \cup {None}] /\ emitted' \in [Urls -> Seq(Times)]
      /\ (\A v \in Urls : Good(v)) /\ Covered(t, emitted'[u])
  <2> HIDE DEF Good
  <2>1. QED
    BY <1>4, <1>5
<1>7. SeenInv'
  BY <1>6 DEF SeenInv
<1>8. \A o \in observed' : Covered(o[2], emitted'[o[1]])
  <2> SUFFICES ASSUME NEW o \in observed' PROVE Covered(o[2], emitted'[o[1]])
    OBVIOUS
  <2>1. CASE o \in observed
    <3>1. o[1] \in Urls /\ o[2] \in Times
      BY <1>1, <2>1
    <3>2. QED
      BY <1>2, <1>6, <2>1, <3>1
  <2>2. CASE o = <<u, t>>
    BY <1>6, <2>2
  <2>3. QED
    BY <1>1, <2>1, <2>2
<1>9. SensitiveUrlOncePerWindow'
  <2>1. \A v \in Urls : Spaced(emitted'[v])
    BY <1>6
  <2>2. QED
    BY <1>8, <2>1 DEF SensitiveUrlOncePerWindow, Covered, Spaced
<1>10. observed' \subseteq Urls \X Times
  BY <1>1
<1>11. QED
  BY <1>6, <1>7, <1>9, <1>10

(* The invariant and the theorems. *)

LEMMA InitInv == Init => Inv
<1> SUFFICES ASSUME Init PROVE Inv
  OBVIOUS
<1>1. <<>> \in Seq(Times) /\ <<>> \in Seq(1..MaxEvents) /\ Len(<<>>) = 0
  BY EmptySeq
<1>2. 0 \in Times /\ 0 \in Nat
  BY Naturals DEF Times
<1>3. TypeOK
  <2>1. seen \in [Urls -> Times \cup {None}] /\ emitted \in [Urls -> Seq(Times)]
    BY <1>1 DEF Init
  <2>2. shown \in [rate : Nat, at : Times]
    BY <1>2 DEF Init
  <2>3. recent \in Seq(1..MaxEvents) /\ Len(recent) <= RecentSize
    BY <1>1, Naturals DEF Init
  <2>4. QED
    BY <1>1, <1>2, <2>1, <2>2, <2>3 DEF Init, TypeOK
<1>4. RateInv
  BY <1>1, <1>2 DEF Init, RateInv, WindowOf
<1>5. ArrivalInv
  BY <1>1 DEF Init, ArrivalInv, Arrived
<1>6. SeenInv
  BY <1>1 DEF Init, SeenInv, KnownOrOld
<1>7. SensitiveUrlOncePerWindow
  BY <1>1, LenProperties DEF Init, SensitiveUrlOncePerWindow
<1>8. QED
  BY <1>3, <1>4, <1>5, <1>6, <1>7 DEF Inv

\* The clock only makes emissions and dropped times older.
LEMMA TickKeepsInv ==
    ASSUME Inv, Tick
    PROVE  Inv'
<1> USE DEF Inv
<1>1. /\ now \in Nat /\ now + 1 \in Times /\ now' = now + 1
      /\ UNCHANGED <<ended, seen, window, recent, shown, accepted, observed, emitted>>
  BY Naturals DEF Tick, TypeOK, Times
<1>2. TypeOK'
  BY <1>1 DEF TypeOK
<1>3. /\ window \in Seq(Times) /\ accepted \in Seq(Times) /\ shown.at \in Nat
      /\ Len(window) \in Nat /\ Len(accepted) \in Nat
      /\ \A i \in 1..Len(accepted) : accepted[i] \in Nat
  BY TimesAreNaturals DEF TypeOK
<1>4. RateInv'
  <2>1. ASSUME NEW i \in 1..(Len(accepted) - Len(window)) PROVE accepted[i] <= (now + 1) - RateWindow
    <3>1. i \in 1..Len(accepted) /\ accepted[i] <= now - RateWindow
      BY <1>3 DEF RateInv, WindowOf
    <3>2. QED
      BY <1>1, <1>3, <3>1, Naturals
  <2>2. WindowOf(window, accepted, now + 1)
    <3>1. WindowOf(window, accepted, now)
      BY DEF RateInv
    <3>2. QED
      BY <2>1, <3>1 DEF WindowOf
  <2>3. shown.at <= now + 1
    BY <1>1, <1>3 DEF RateInv
  <2>4. QED
    BY <1>1, <2>2, <2>3 DEF RateInv
<1>5. ArrivalInv'
  <2>1. Arrived(accepted, now + 1)
    BY <1>1, <1>3 DEF ArrivalInv, Arrived
  <2>2. QED
    BY <1>1, <2>1 DEF ArrivalInv
<1>6. SeenInv'
  <2>1. ASSUME NEW u \in Urls PROVE KnownOrOld(seen[u], emitted[u], now + 1)
    <3>1. emitted[u] \in Seq(Times) /\ KnownOrOld(seen[u], emitted[u], now)
      BY DEF TypeOK, SeenInv
    <3>2. \A i \in 1..Len(emitted[u]) : emitted[u][i] \in Nat
      BY <3>1, TimesAreNaturals
    <3> DEFINE e == emitted[u]
    <3> HIDE DEF e
    <3>3. \A i \in 1..Len(e) : /\ e[i] <= now + 1
                               /\ (i = Len(e) /\ seen[u] = e[i]) \/ DedupWindow <= (now + 1) - e[i]
      <4> SUFFICES ASSUME NEW i \in 1..Len(e)
                   PROVE  /\ e[i] <= now + 1
                          /\ (i = Len(e) /\ seen[u] = e[i]) \/ DedupWindow <= (now + 1) - e[i]
        OBVIOUS
      <4>1. /\ e[i] \in Nat /\ e[i] <= now
            /\ (i = Len(e) /\ seen[u] = e[i]) \/ DedupWindow <= now - e[i]
        BY <3>1, <3>2 DEF KnownOrOld, e
      <4>2. e[i] <= now + 1
        BY <1>1, <4>1
      <4>3. DedupWindow <= now - e[i] => DedupWindow <= (now + 1) - e[i]
        BY <1>1, <4>1, Naturals
      <4>4. QED
        BY <4>1, <4>2, <4>3
    <3>4. seen[u] # None => Len(e) # 0 /\ seen[u] = e[Len(e)]
      BY <3>1 DEF KnownOrOld, e
    <3>5. KnownOrOld(seen[u], e, now + 1)
      BY <3>3, <3>4 DEF KnownOrOld
    <3>6. QED
      BY <3>5 DEF e
  <2>2. QED
    BY <1>1, <2>1 DEF SeenInv
<1>7. SensitiveUrlOncePerWindow'
  BY <1>1 DEF SensitiveUrlOncePerWindow
<1>8. QED
  BY <1>2, <1>4, <1>5, <1>6, <1>7

LEMMA NextInv == Inv /\ [Next]_vars => Inv'
<1> SUFFICES ASSUME Inv, [Next]_vars PROVE Inv'
  OBVIOUS
<1> USE DEF Inv
<1>1. ASSUME NEW t \in Arriving, Record(t) PROVE Inv'
  <2>1. Accepts(1, t) /\ UNCHANGED <<now, ended, seen, observed, emitted>>
    BY <1>1 DEF Record
  <2>2. /\ RateInv' /\ ArrivalInv' /\ window' \in Seq(Times) /\ accepted' \in Seq(Times)
        /\ shown' \in [rate : Nat, at : Times]
        /\ recent' \in Seq(1..MaxEvents) /\ Len(recent') <= RecentSize
    BY <2>1, AcceptsKeepsTheRate
  <2>3. SeenInv' /\ SensitiveUrlOncePerWindow'
    BY <2>1 DEF SeenInv, SensitiveUrlOncePerWindow
  <2>4. TypeOK'
    BY <2>1, <2>2 DEF TypeOK
  <2>5. QED
    BY <2>2, <2>3, <2>4
<1>2. ASSUME NEW t \in Arriving, NEW u \in Urls, RecordNavigation(u, t) PROVE Inv'
  <2>1. /\ Detect(u, t) /\ UNCHANGED <<now, ended>>
        /\ \E k \in {1, 2} : Accepts(k, t)
    BY <1>2 DEF RecordNavigation
  <2>2. PICK k \in {1, 2} : Accepts(k, t)
    BY <2>1
  <2>3. /\ RateInv' /\ ArrivalInv' /\ window' \in Seq(Times) /\ accepted' \in Seq(Times)
        /\ shown' \in [rate : Nat, at : Times]
        /\ recent' \in Seq(1..MaxEvents) /\ Len(recent') <= RecentSize
    BY <2>1, <2>2, AcceptsKeepsTheRate
  <2>4. /\ SeenInv' /\ SensitiveUrlOncePerWindow'
        /\ seen' \in [Urls -> Times \cup {None}] /\ observed' \subseteq Urls \X Times
        /\ emitted' \in [Urls -> Seq(Times)]
    BY <2>1, DetectKeepsTheWindows
  <2>5. TypeOK'
    BY <2>1, <2>3, <2>4 DEF TypeOK
  <2>6. QED
    BY <2>3, <2>4, <2>5
<1>3. ASSUME NEW u \in Urls, ObserveUrl(u) PROVE Inv'
  <2>1. now \in Arriving
    BY Naturals, TimesAreNaturals DEF Arriving, TypeOK
  <2>2. /\ Detect(u, now) /\ UNCHANGED <<now, ended>>
        /\ Accepts(1, now) \/ UNCHANGED <<window, recent, shown, accepted>>
    BY <1>3 DEF ObserveUrl
  <2>3. /\ RateInv' /\ ArrivalInv' /\ window' \in Seq(Times) /\ accepted' \in Seq(Times)
        /\ shown' \in [rate : Nat, at : Times]
        /\ recent' \in Seq(1..MaxEvents) /\ Len(recent') <= RecentSize
    <3>1. CASE Accepts(1, now)
      BY <2>1, <2>2, <3>1, AcceptsKeepsTheRate
    <3>2. CASE UNCHANGED <<window, recent, shown, accepted>>
      BY <2>2, <3>2 DEF RateInv, ArrivalInv, TypeOK
    <3>3. QED
      BY <2>2, <3>1, <3>2
  <2>4. /\ SeenInv' /\ SensitiveUrlOncePerWindow'
        /\ seen' \in [Urls -> Times \cup {None}] /\ observed' \subseteq Urls \X Times
        /\ emitted' \in [Urls -> Seq(Times)]
    BY <2>1, <2>2, DetectKeepsTheWindows
  <2>5. TypeOK'
    BY <2>2, <2>3, <2>4 DEF TypeOK
  <2>6. QED
    BY <2>3, <2>4, <2>5
<1>4. ASSUME Subscribe PROVE Inv'
  <2>1. /\ Snapshot(window, now)
        /\ UNCHANGED <<now, ended, seen, recent, accepted, observed, emitted>>
    BY <1>4 DEF Subscribe
  <2>2. RateInv' /\ window' \in Seq(Times) /\ shown' \in [rate : Nat, at : Times]
    BY <2>1, SnapshotKeepsTheRate
  <2>3. ArrivalInv' /\ SeenInv' /\ SensitiveUrlOncePerWindow'
    BY <2>1 DEF ArrivalInv, SeenInv, SensitiveUrlOncePerWindow
  <2>4. TypeOK'
    BY <2>1, <2>2 DEF TypeOK
  <2>5. QED
    BY <2>2, <2>3, <2>4
<1>5. ASSUME End PROVE Inv'
  BY <1>5 DEF End, TypeOK, RateInv, ArrivalInv, SeenInv, SensitiveUrlOncePerWindow
<1>6. ASSUME UNCHANGED vars PROVE Inv'
  BY <1>6 DEF vars, TypeOK, RateInv, ArrivalInv, SeenInv, SensitiveUrlOncePerWindow
<1>7. QED
  BY <1>1, <1>2, <1>3, <1>4, <1>5, <1>6, TickKeepsInv DEF Next

LEMMA InvHolds == Spec => []Inv
<1>1. Init => Inv
  BY InitInv
<1>2. Inv /\ [Next]_vars => Inv'
  BY NextInv
<1>3. QED
  BY <1>1, <1>2, PTL DEF Spec

\* Since counts what the clock still sees; the window holds at least that and
\* at most what lies MaxLag further back.
LEMMA RateFollows == Inv => RateRightUpToLag
<1> SUFFICES ASSUME Inv PROVE RateRightUpToLag
  OBVIOUS
<1> USE DEF Inv
<1> DEFINE n == Len(accepted)  k == Len(window)  d == n - k
           fresh == {i \in DOMAIN accepted : accepted[i] > now - RateWindow}
           around == {i \in DOMAIN accepted : accepted[i] > shown.at - RateWindow - MaxLag}
<1>1. /\ n \in Nat /\ k \in Nat /\ d \in Nat /\ DOMAIN accepted = 1..n
      /\ \A i \in 1..n : accepted[i] \in Nat
      /\ now \in Nat /\ shown.at \in Nat /\ shown.rate = k
  <2>1. accepted \in Seq(Times) /\ window \in Seq(Times) /\ now \in Times /\ shown.at \in Times
    BY DEF TypeOK
  <2>2. shown.rate = k /\ k <= n
    BY DEF RateInv, WindowOf
  <2>3. n \in Nat /\ k \in Nat /\ DOMAIN accepted = 1..n /\ \A i \in 1..n : accepted[i] \in Nat
    BY <2>1, TimesAreNaturals
  <2>4. now \in Nat /\ shown.at \in Nat
    BY <2>1, TimesAreNaturals
  <2> HIDE DEF n, k
  <2>5. d \in Nat
    BY <2>2, <2>3
  <2>6. QED
    BY <2>2, <2>3, <2>4, <2>5
<1>2. IsFiniteSet((d + 1)..n) /\ Cardinality((d + 1)..n) = k
  <2>1. d + 1 \in Int /\ n \in Int
    BY <1>1
  <2>2. /\ IsFiniteSet((d + 1)..n)
        /\ Cardinality((d + 1)..n) = IF d + 1 > n THEN 0 ELSE n - (d + 1) + 1
    BY <2>1, FS_Interval
  <2>3. QED
    BY <1>1, <2>2
<1>3. fresh \subseteq (d + 1)..n
  <2> SUFFICES ASSUME NEW i \in 1..n, accepted[i] > now - RateWindow PROVE d + 1 <= i
    BY <1>1
  <2>1. CASE i <= d
    <3>1. i \in 1..d
      BY <1>1, <2>1
    <3>2. accepted[i] <= now - RateWindow
      BY <3>1 DEF RateInv, WindowOf
    <3>3. QED
      BY <1>1, <3>2, Naturals
  <2>2. QED
    BY <1>1, <2>1
<1>4. (d + 1)..n \subseteq around
  <2> SUFFICES ASSUME NEW i \in (d + 1)..n PROVE i \in around
    OBVIOUS
  <2>1. i \in 1..n /\ d + 1 \in 1..n /\ 1 \in 1..k /\ k # 0 /\ d + 1 <= i
    BY <1>1
  <2>2. shown.at - RateWindow < window[1] /\ window[1] = accepted[d + 1]
    BY <2>1 DEF RateInv, WindowOf
  <2>3. d + 1 < i => accepted[d + 1] - MaxLag <= accepted[i]
    BY <2>1 DEF ArrivalInv, Arrived
  <2>4. accepted[i] \in Nat /\ accepted[d + 1] \in Nat /\ i \in Nat
    BY <1>1, <2>1
  <2>5. accepted[d + 1] - MaxLag <= accepted[i]
    <3>1. CASE d + 1 < i
      BY <2>3, <3>1
    <3>2. CASE d + 1 = i
      BY <2>4, <3>2, Naturals
    <3>3. QED
      BY <1>1, <2>1, <2>4, <3>1, <3>2
  <2>6. accepted[i] > shown.at - RateWindow - MaxLag
    BY <1>1, <2>2, <2>4, <2>5, Naturals
  <2>7. QED
    BY <1>1, <2>1, <2>6
<1>5. Cardinality(fresh) <= k
  BY <1>2, <1>3, FS_Subset
<1>6. k <= Cardinality(around)
  <2>1. IsFiniteSet(around)
    <3>1. IsFiniteSet(1..n)
      BY <1>1, FS_Interval
    <3>2. around \subseteq 1..n
      BY <1>1
    <3>3. QED
      BY <3>1, <3>2, FS_Subset
  <2>2. QED
    BY <1>2, <1>4, <2>1, FS_Subset
<1>7. QED
  BY <1>1, <1>5, <1>6 DEF RateRightUpToLag, Since

\* The types of the background's state, for all windows and bounds.
THEOREM BackgroundTypes == Spec => []TypeOK
<1>1. Inv => TypeOK
  BY DEF Inv
<1>2. QED
  BY <1>1, InvHolds, PTL

\* The popup's rate counts every event of the last window, and none that is
\* older than the window by more than an event can be late, although the meter
\* (meter.ts) prunes an unordered window from its front.
THEOREM RateIsRight == Spec => []RateRightUpToLag
<1>1. Inv => RateRightUpToLag
  BY RateFollows
<1>2. QED
  BY <1>1, InvHolds, PTL

\* Whatever the order and the lateness in which content scripts and
\* tabs.onUpdated report sensitive URLs, the detector (sensitiveDetector.ts)
\* leaves no report without an event and emits none twice in a window.
THEOREM SensitiveUrlsOnce == Spec => []SensitiveUrlOncePerWindow
<1>1. Inv => SensitiveUrlOncePerWindow
  BY DEF Inv
<1>2. QED
  BY <1>1, InvHolds, PTL
===============================================================================
