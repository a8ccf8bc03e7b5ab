------------------------- MODULE MediaReceiver_proofs -----------------------
(***************************************************************************)
(* Whatever packets a stream receives, and however its buffer is           *)
(* configured, the counters of the ring agree with its slots and discarded *)
(* frames keep their distance: []RingConsistent and []DiscardsApart.       *)
(*                                                                         *)
(* Both need the discard schedule: all frames that are marked lie at or    *)
(* before jb_discard_ref while a next one is scheduled, so the one marked  *)
(* next is at least MinShrinkGap later, and is not marked yet.             *)
(***************************************************************************)
EXTENDS MediaReceiver, FiniteSetTheorems, WellFoundedInduction, TLAPS

Rings ==
  [slots : [Slots -> Int], head : Slots, size : 0 .. MaxCount,
   discarded : Int, origin : Int]
At(l, d) == l.slots[Slot(l, d)]
Marked(l) == {i \in Slots : l.slots[i] = Discarded}
RingOK(l) == l \in Rings /\ Consistent(l) /\ Apart(l)

\* The frames of l that are marked lie at or before ref.
Before(l, ref) ==
  \A d \in 0 .. l.size - 1 : At(l, d) = Discarded => l.origin + d <= ref
\* l is followed by m: no frame is marked that was not, and none moves up.
Keeps(l, m) == \A ref \in Int : Before(l, ref) => Before(m, ref)

-----------------------------------------------------------------------------
(* Arithmetic of the ring.                                                 *)

\* A set of natural numbers has a least one.
LEMMA LeastNat ==
  ASSUME NEW T \in SUBSET Nat, T # {}
  PROVE  \E k \in T : \A m \in T : k <= m
<1>1. \E R : /\ IsWellFoundedOn(R, Nat)
             /\ \A y, x \in Nat : y < x => <<y, x>> \in R
  <2>1. \A y, x \in Nat : y < x => <<y, x>> \in OpToRel(<, Nat)
    BY DEF OpToRel
  <2> QED BY <2>1, NatLessThanWellFounded, Zenon
<1>2. PICK R : /\ IsWellFoundedOn(R, Nat)
               /\ \A y, x \in Nat : y < x => <<y, x>> \in R
  BY <1>1
<1>3. PICK x \in T : \A y \in T : ~(<<y, x>> \in R)
  <2>1. T \subseteq Nat OBVIOUS
  <2>2. IsWellFoundedOn(R, Nat) BY <1>2
  <2>3. T # {} OBVIOUS
  <2>4. ASSUME NEW RR, NEW SS, IsWellFoundedOn(RR, SS),
               NEW TT, TT \subseteq SS, TT # {}
        PROVE  \E x \in TT : \A y \in TT : ~(<<y, x>> \in RR)
    BY ONLY WFMin, <2>4
  <2> QED BY ONLY <2>1, <2>2, <2>3, <2>4
<1>4. ASSUME NEW y \in T PROVE x <= y
  <2>1. x \in Nat /\ y \in Nat OBVIOUS
  <2>2. ~(y < x) BY <1>2, <1>3, <2>1
  <2> QED BY <2>1, <2>2
<1> QED BY <1>3, <1>4

\* A slot is found by going round at most once.
LEMMA SlotValue ==
  ASSUME NEW l, l.head \in Slots, NEW d \in 0 .. MaxCount
  PROVE  /\ Slot(l, d) = IF l.head + d < MaxCount THEN l.head + d
                         ELSE l.head + d - MaxCount
         /\ Slot(l, d) \in Slots
<1>1. MaxCount \in Nat \ {0} BY RingAssumption
<1>2. \A a \in 0 .. MaxCount - 1 : a % MaxCount = a BY <1>1
<1>3. \A a \in MaxCount .. 2 * MaxCount - 1 : a % MaxCount = a - MaxCount
  BY <1>1
<1>4. l.head + d \in 0 .. 2 * MaxCount - 1 BY <1>1 DEF Slots
<1> QED BY <1>1, <1>2, <1>3, <1>4 DEF Slots, Slot

\* Different frames lie in different slots.
LEMMA SlotInjective ==
  ASSUME NEW l, l.head \in Slots,
         NEW d \in 0 .. MaxCount - 1, NEW e \in 0 .. MaxCount - 1,
         Slot(l, d) = Slot(l, e)
  PROVE  d = e
<1>1. MaxCount \in Nat \ {0} BY RingAssumption
<1>2. d \in 0 .. MaxCount /\ e \in 0 .. MaxCount BY <1>1
<1>3. /\ Slot(l, d) = IF l.head + d < MaxCount THEN l.head + d
                      ELSE l.head + d - MaxCount
      /\ Slot(l, e) = IF l.head + e < MaxCount THEN l.head + e
                      ELSE l.head + e - MaxCount
  BY <1>2, SlotValue
<1>4. l.head \in 0 .. MaxCount - 1 BY DEF Slots
<1>5. \A M \in Nat : \A h, x, y \in 0 .. M - 1 :
        (IF h + x < M THEN h + x ELSE h + x - M)
          = (IF h + y < M THEN h + y ELSE h + y - M) => x = y
  OBVIOUS
<1>6. (IF l.head + d < MaxCount THEN l.head + d ELSE l.head + d - MaxCount)
        = (IF l.head + e < MaxCount THEN l.head + e ELSE l.head + e - MaxCount)
  BY <1>3
<1> QED BY <1>1, <1>4, <1>5, <1>6

\* The marked slots of a ring are a finite set.
LEMMA SlotsFinite == IsFiniteSet(Slots)
<1>1. MaxCount \in Int BY RingAssumption
<1> QED BY <1>1, FS_Interval DEF Slots
LEMMA MarkedFinite ==
  ASSUME NEW l PROVE IsFiniteSet(Marked(l))
BY SlotsFinite, FS_Subset DEF Marked

-----------------------------------------------------------------------------
(* Every operation of the ring keeps it in order.                          *)

LEMMA EmptyRingOK ==
  ASSUME NEW o \in Int
  PROVE  /\ RingOK(EmptyRing(o))
         /\ \A ref \in Int : Before(EmptyRing(o), ref)
         /\ EmptyRing(o).size = 0 /\ EmptyRing(o).head = 0
         /\ EmptyRing(o).slots = [i \in Slots |-> Missing]
         /\ EmptyRing(o).origin = o
<1> DEFINE l == EmptyRing(o)
<1>1. MaxCount \in Nat \ {0} BY RingAssumption
<1>2. 0 \in Slots BY <1>1 DEF Slots
<1>3. l \in Rings BY <1>1, <1>2 DEF EmptyRing, Rings, Missing
<1>4. Marked(l) = {} BY DEF EmptyRing, Marked, Missing, Discarded
<1>5. l.discarded = Cardinality(Marked(l))
  BY <1>4, FS_EmptySet DEF EmptyRing
<1>6. Consistent(l)
  BY <1>1, <1>2, <1>5 DEF Consistent, Marked, EmptyRing
<1>7. 0 .. l.size - 1 = {} BY DEF EmptyRing
<1> QED BY <1>3, <1>6, <1>7 DEF RingOK, Apart, Before, EmptyRing

\* The oldest n frames go; the others keep their place and their number.
LEMMA RemoveHeadOK ==
  ASSUME NEW l, RingOK(l), NEW n \in Nat
  PROVE  LET r == RemoveHead(l, n)
             c == Least(n, l.size)
         IN /\ RingOK(r)
            /\ r.size = l.size - c /\ r.origin = l.origin + c
            /\ \A d \in 0 .. r.size - 1 : At(r, d) = At(l, d + c)
            /\ Keeps(l, r)
<1> DEFINE c == Least(n, l.size)
           r == RemoveHead(l, n)
           gone == {Slot(l, d) : d \in 0 .. c - 1}
<1>1. MaxCount \in Nat \ {0} BY RingAssumption
<1>2. /\ l \in Rings /\ l.head \in Slots /\ l.size \in 0 .. MaxCount
      /\ l.origin \in Int /\ l.slots \in [Slots -> Int]
  BY DEF RingOK, Consistent, Rings
<1>3. c \in 0 .. l.size BY <1>1, <1>2 DEF Least
<1>4. c \in 0 .. MaxCount BY <1>1, <1>2, <1>3
<1>5. /\ r.head = Slot(l, c) /\ r.size = l.size - c
      /\ r.origin = l.origin + c
      /\ r.slots = [i \in Slots |-> IF i \in gone THEN Missing ELSE l.slots[i]]
      /\ r.discarded = l.discarded
                         - Cardinality({i \in gone : l.slots[i] = Discarded})
  BY DEF RemoveHead, Slot
<1>6. r.head \in Slots BY <1>2, <1>4, <1>5, SlotValue
<1>7. gone \subseteq Slots
  BY <1>1, <1>2, <1>3, SlotValue
<1>8. ASSUME NEW d \in 0 .. r.size - 1
      PROVE  /\ Slot(r, d) = Slot(l, d + c)
             /\ d + c \in 0 .. l.size - 1
             /\ At(r, d) = At(l, d + c)
  <2>1. d + c \in 0 .. l.size - 1 /\ d + c \in 0 .. MaxCount - 1
    BY <1>1, <1>2, <1>3, <1>5
  <2>2. d \in 0 .. MaxCount /\ d + c \in 0 .. MaxCount
    BY <1>1, <1>2, <1>3, <1>5
  <2>3. /\ r.head = IF l.head + c < MaxCount THEN l.head + c
                    ELSE l.head + c - MaxCount
        /\ Slot(r, d) = IF r.head + d < MaxCount THEN r.head + d
                        ELSE r.head + d - MaxCount
        /\ Slot(l, d + c) = IF l.head + (d + c) < MaxCount THEN l.head + (d + c)
                            ELSE l.head + (d + c) - MaxCount
        /\ Slot(l, d + c) \in Slots
    BY <1>2, <1>4, <1>5, <1>6, <2>2, SlotValue
  <2>4. \A M \in Nat : \A h, x, y \in 0 .. M :
          h < M /\ x + y <= M /\ y < M =>
            LET k == IF h + x < M THEN h + x ELSE h + x - M
            IN (IF k + y < M THEN k + y ELSE k + y - M)
                 = (IF h + (y + x) < M THEN h + (y + x) ELSE h + (y + x) - M)
    OBVIOUS
  <2>5. l.head \in 0 .. MaxCount - 1 BY <1>2 DEF Slots
  <2>6. Slot(r, d) = Slot(l, d + c)
    BY <1>1, <1>4, <2>1, <2>2, <2>3, <2>4, <2>5
  <2>7. Slot(l, d + c) \notin gone
    <3>1. SUFFICES ASSUME NEW e \in 0 .. c - 1, Slot(l, d + c) = Slot(l, e)
                   PROVE  FALSE
      OBVIOUS
    <3>2. e \in 0 .. MaxCount - 1 BY <1>1, <1>4
    <3>3. d + c = e BY <1>2, <2>1, <3>1, <3>2, SlotInjective
    <3> QED BY <1>3, <3>3, <2>2
  <2> QED BY <1>5, <2>1, <2>3, <2>6, <2>7 DEF At
<1>9. ASSUME NEW i \in Slots \ InWindow(r)
      PROVE  r.slots[i] = Missing
  <2>1. CASE i \in gone BY <1>5, <2>1
  <2>2. CASE i \notin gone
    <3>1. i \notin InWindow(l)
      <4>1. SUFFICES ASSUME NEW d \in 0 .. l.size - 1, i = Slot(l, d)
                     PROVE  FALSE
        BY DEF InWindow
      <4>2. d \notin 0 .. c - 1 BY <2>2, <4>1
      <4>3. d - c \in 0 .. r.size - 1 /\ (d - c) + c = d
        BY <1>2, <1>3, <1>5, <4>2
      <4>4. Slot(r, d - c) = i BY <1>8, <4>1, <4>3
      <4> QED BY <4>3, <4>4 DEF InWindow
    <3> QED BY <1>5, <2>2, <3>1 DEF RingOK, Consistent
  <2> QED BY <2>1, <2>2
<1>10. r.discarded = Cardinality(Marked(r))
  <2> DEFINE lost == {i \in gone : l.slots[i] = Discarded}
  <2>1. Marked(r) = Marked(l) \ lost
    BY <1>5, <1>7 DEF Marked, Missing, Discarded
  <2>2. Marked(l) \cap lost = lost BY <1>7 DEF Marked
  <2>3. Cardinality(Marked(r)) = Cardinality(Marked(l)) - Cardinality(lost)
    BY <2>1, <2>2, MarkedFinite, FS_Difference
  <2>4. l.discarded = Cardinality(Marked(l)) BY DEF RingOK, Consistent, Marked
  <2> QED BY <1>5, <2>3, <2>4
<1>11. Consistent(r)
  BY <1>1, <1>2, <1>3, <1>5, <1>6, <1>9, <1>10 DEF Consistent, Marked
<1>12. r \in Rings
  <2>1. r.discarded \in Int
    BY <1>10, MarkedFinite, FS_CardinalityType
  <2>2. r.slots \in [Slots -> Int] BY <1>2, <1>5 DEF Missing
  <2>3. r = [slots |-> r.slots, head |-> r.head, size |-> r.size,
             discarded |-> r.discarded, origin |-> r.origin]
    BY DEF RemoveHead
  <2> QED BY <1>1, <1>2, <1>3, <1>5, <1>6, <2>1, <2>2, <2>3 DEF Rings
<1>13. Apart(r)
  <2>1. SUFFICES ASSUME NEW d \in 0 .. r.size - 1, NEW e \in 0 .. r.size - 1,
                        d < e, At(r, d) = Discarded, At(r, e) = Discarded
                 PROVE  e - d >= MinShrinkGap
    BY DEF Apart, At
  <2>2. /\ d + c \in 0 .. l.size - 1 /\ e + c \in 0 .. l.size - 1
        /\ At(l, d + c) = Discarded /\ At(l, e + c) = Discarded
    BY <1>8, <2>1
  <2>3. d + c < e + c /\ (e + c) - (d + c) = e - d BY <1>3, <2>1
  <2> QED BY <2>2, <2>3 DEF RingOK, Apart, At
<1>14. ASSUME NEW ref \in Int, Before(l, ref) PROVE Before(r, ref)
  <2>1. SUFFICES ASSUME NEW d \in 0 .. r.size - 1, At(r, d) = Discarded
                 PROVE  r.origin + d <= ref
    BY DEF Before
  <2>2. l.origin + (d + c) <= ref BY <1>8, <1>14, <2>1 DEF Before
  <2> QED BY <1>2, <1>3, <1>5, <2>2
<1> HIDE DEF r, c
<1>15. RingOK(r) BY <1>11, <1>12, <1>13 DEF RingOK
<1>16. Keeps(l, r) BY <1>14 DEF Keeps
<1>17. \A d \in 0 .. r.size - 1 : At(r, d) = At(l, d + c) BY <1>8
<1> QED BY <1>5, <1>15, <1>16, <1>17 DEF r, c

\* A frame goes into a slot that is free, and the ring grows up to it.
LEMMA PlaceOK ==
  ASSUME NEW l, RingOK(l), NEW d \in 0 .. MaxCount - 1, NEW frame \in Nat,
         l.slots[Slot(l, d)] = Missing
  PROVE  /\ RingOK(Place(l, d, frame))
         /\ Keeps(l, Place(l, d, frame))
<1> DEFINE p == Place(l, d, frame)
           s == Slot(l, d)
<1>1. MaxCount \in Nat \ {0} BY RingAssumption
<1>2. /\ l \in Rings /\ l.head \in Slots /\ l.size \in 0 .. MaxCount
      /\ l.origin \in Int /\ l.slots \in [Slots -> Int]
  BY DEF RingOK, Consistent, Rings
<1>3. s \in Slots BY <1>1, <1>2, SlotValue
<1>4. /\ p.slots = [l.slots EXCEPT ![s] = frame]
      /\ p.size = IF l.size <= d THEN d + 1 ELSE l.size
      /\ p.head = l.head /\ p.origin = l.origin /\ p.discarded = l.discarded
      /\ p \in Rings
  <2> DEFINE f == [l.slots EXCEPT ![s] = frame]
             n == IF l.size <= d THEN d + 1 ELSE l.size
  <2>1. p = [l EXCEPT !.slots = f, !.size = n] BY DEF Place
  <2>2. f \in [Slots -> Int] BY <1>2, <1>3
  <2>3. n \in 0 .. MaxCount BY <1>1, <1>2
  <2> HIDE DEF f, n, p
  <2>4. /\ p \in Rings /\ p.slots = f /\ p.size = n /\ p.head = l.head
        /\ p.origin = l.origin /\ p.discarded = l.discarded
    BY <1>2, <2>1, <2>2, <2>3 DEF Rings
  <2> QED BY <2>4 DEF f, n
<1>5. \A e : Slot(p, e) = Slot(l, e) BY <1>4 DEF Slot
<1>6. ASSUME NEW i \in Slots \ InWindow(p) PROVE p.slots[i] = Missing
  <2>1. i # s
    <3>1. d \in 0 .. p.size - 1 BY <1>1, <1>2, <1>4
    <3> QED BY <1>5, <3>1 DEF InWindow
  <2>2. i \notin InWindow(l)
    <3>1. 0 .. l.size - 1 \subseteq 0 .. p.size - 1 BY <1>1, <1>2, <1>4
    <3> QED BY <1>5, <3>1 DEF InWindow
  <2> QED BY <1>2, <1>4, <2>1, <2>2 DEF RingOK, Consistent
<1>7. Marked(p) = Marked(l)
  BY <1>2, <1>3, <1>4 DEF Marked, Missing, Discarded
<1>8. p.size \in 0 .. MaxCount BY <1>1, <1>2, <1>4
<1>9. Consistent(p)
  BY <1>2, <1>4, <1>6, <1>7, <1>8 DEF RingOK, Consistent, Marked
\* A frame that is marked was marked, and lies where it was.
<1>10. ASSUME NEW e \in 0 .. p.size - 1, At(p, e) = Discarded
       PROVE  e \in 0 .. l.size - 1 /\ At(l, e) = Discarded
  <2>1. e \in 0 .. MaxCount /\ e \in 0 .. MaxCount - 1 BY <1>1, <1>8
  <2>2. Slot(l, e) \in Slots BY <1>2, <2>1, SlotValue
  <2>3. l.slots[Slot(l, e)] = Discarded
    BY <1>2, <1>3, <1>4, <1>5, <1>10, <2>2 DEF At, Discarded
  <2>4. Slot(l, e) \in InWindow(l)
    BY <2>2, <2>3 DEF RingOK, Consistent, Missing, Discarded
  <2>5. PICK f \in 0 .. l.size - 1 : Slot(l, e) = Slot(l, f)
    BY <2>4 DEF InWindow
  <2>6. f \in 0 .. MaxCount - 1 BY <1>1, <1>2
  <2>7. e = f BY <1>2, <2>1, <2>5, <2>6, SlotInjective
  <2> QED BY <2>3, <2>7 DEF At
<1>11. Apart(p)
  <2>1. SUFFICES ASSUME NEW e \in 0 .. p.size - 1, NEW f \in 0 .. p.size - 1,
                        e < f, At(p, e) = Discarded, At(p, f) = Discarded
                 PROVE  f - e >= MinShrinkGap
    BY DEF Apart, At
  <2> QED BY <1>10, <2>1 DEF RingOK, Apart, At
<1>12. Keeps(l, p) BY <1>4, <1>10 DEF Keeps, Before
<1> QED BY <1>4, <1>9, <1>11, <1>12 DEF RingOK

\* Only the numbers change, and those of marked frames do not grow.
LEMMA RealignedOK ==
  ASSUME NEW l, RingOK(l), NEW index \in Int
  PROVE  LET r == Realigned(l, index)
         IN /\ RingOK(r) /\ Keeps(l, r)
            /\ r.size = l.size /\ r.origin <= index
<1> DEFINE r == Realigned(l, index)
<1>1. MaxCount \in Nat \ {0} BY RingAssumption
<1>2. /\ l \in Rings /\ l.size \in 0 .. MaxCount /\ l.origin \in Int
  BY DEF RingOK, Rings
<1>3. /\ r \in Rings
      /\ r.slots = l.slots /\ r.head = l.head /\ r.size = l.size
      /\ r.discarded = l.discarded
      /\ r.origin = IF l.size = 0 THEN index
                    ELSE IF index < l.origin THEN index - l.size ELSE l.origin
  BY <1>2 DEF Realigned, Rings
<1>4. \A d : Slot(r, d) = Slot(l, d) BY <1>3 DEF Slot
<1>5. RingOK(r)
  BY <1>3, <1>4 DEF RingOK, Consistent, Apart, InWindow
<1>6. Keeps(l, r)
  <2>1. SUFFICES ASSUME NEW ref \in Int, Before(l, ref),
                        NEW d \in 0 .. r.size - 1, At(r, d) = Discarded
                 PROVE  r.origin + d <= ref
    BY DEF Keeps, Before
  <2>2. At(l, d) = Discarded BY <1>3, <1>4, <2>1 DEF At
  <2>3. l.origin + d <= ref BY <1>3, <2>1, <2>2 DEF Before
  <2>4. r.origin <= l.origin BY <1>2, <1>3, <2>1
  <2> QED BY <1>2, <1>3, <2>3, <2>4
<1> QED BY <1>2, <1>3, <1>5, <1>6

LEMMA PutAtOK ==
  ASSUME NEW l, RingOK(l), NEW index \in Int, NEW frame \in Nat
  PROVE  LET p == PutAt(l, index, frame)
         IN /\ RingOK(p.l) /\ Keeps(l, p.l)
            /\ p.status = "toomany" =>
                 index - p.l.origin - MaxCount + 1 \in Nat \ {0}
<1> DEFINE r == Realigned(l, index)
           d == index - r.origin
           p == PutAt(l, index, frame)
<1>1. MaxCount \in Nat \ {0} /\ MaxDropout \in Nat BY RingAssumption
<1>2. /\ RingOK(r) /\ Keeps(l, r) /\ r.origin \in Int /\ r.origin <= index
      /\ r.head \in Slots
  BY RealignedOK DEF RingOK, Rings
<1>3. Keeps(l, l) BY DEF Keeps
<1>4. CASE TooLate(l, index)
  <2>1. p = [status |-> "toosmall", l |-> l] BY <1>4 DEF PutAt
  <2> QED BY <1>3, <2>1
<1>5. CASE ~TooLate(l, index) /\ d >= MaxCount /\ d > MaxDropout
  <2>1. p = [status |-> "ok", l |-> Place(EmptyRing(index), 0, frame)]
    BY <1>5 DEF PutAt
  <2>2. 0 \in 0 .. MaxCount - 1 /\ 0 \in 0 .. MaxCount BY <1>1
  <2>3. Slot(EmptyRing(index), 0) \in Slots
    BY <1>1, <2>2, SlotValue, EmptyRingOK DEF RingOK, Rings
  <2>4. /\ RingOK(p.l) /\ Keeps(EmptyRing(index), p.l)
    BY <2>1, <2>2, <2>3, PlaceOK, EmptyRingOK
  <2>5. Keeps(l, p.l) BY <2>4, EmptyRingOK DEF Keeps
  <2> QED BY <2>1, <2>4, <2>5
<1>6. CASE ~TooLate(l, index) /\ d >= MaxCount /\ ~(d > MaxDropout)
  <2>1. p = [status |-> "toomany", l |-> r] BY <1>6 DEF PutAt
  <2> QED BY <1>1, <1>2, <1>6, <2>1
<1>7. CASE ~TooLate(l, index) /\ ~(d >= MaxCount) /\ r.slots[Slot(r, d)] # Missing
  <2>1. p = [status |-> "exists", l |-> r] BY <1>7 DEF PutAt
  <2> QED BY <1>2, <2>1
<1>8. CASE ~TooLate(l, index) /\ ~(d >= MaxCount) /\ r.slots[Slot(r, d)] = Missing
  <2>1. p = [status |-> "ok", l |-> Place(r, d, frame)] BY <1>8 DEF PutAt
  <2>2. d \in 0 .. MaxCount - 1 BY <1>1, <1>2, <1>8
  <2>3. RingOK(p.l) /\ Keeps(r, p.l) BY <1>2, <1>8, <2>1, <2>2, PlaceOK
  <2> QED BY <1>2, <2>1, <2>3 DEF Keeps
<1> QED BY <1>4, <1>5, <1>6, <1>7, <1>8

LEMMA PutWithRoomOK ==
  ASSUME NEW l, RingOK(l), NEW index \in Int, NEW frame \in Nat
  PROVE  LET p == PutWithRoom(l, index, frame)
         IN RingOK(p.l) /\ Keeps(l, p.l)
<1> DEFINE first == PutAt(l, index, frame)
           n == index - first.l.origin - MaxCount + 1
           room == RemoveHead(first.l, n)
<1>1. RingOK(first.l) /\ Keeps(l, first.l)
  BY PutAtOK
<1>2. CASE first.status = "toomany"
  <2>1. n \in Nat BY <1>2, PutAtOK
  <2>2. RingOK(room) /\ Keeps(first.l, room) BY <1>1, <2>1, RemoveHeadOK
  <2>3. PutWithRoom(l, index, frame) = PutAt(room, index, frame)
    BY <1>2 DEF PutWithRoom
  <2>4. RingOK(PutAt(room, index, frame).l)
        /\ Keeps(room, PutAt(room, index, frame).l)
    BY <2>2, PutAtOK
  <2> QED BY <1>1, <2>2, <2>3, <2>4 DEF Keeps
<1>3. CASE first.status # "toomany"
  BY <1>1, <1>3 DEF PutWithRoom
<1> QED BY <1>2, <1>3

\* The loop of put_frame3 runs once: with the room that was made, the frame
\* does not have to wait for more.
LEMMA PutLoopOnce ==
  ASSUME NEW l, RingOK(l), NEW index \in Int, NEW frame \in Nat
  PROVE  PutWithRoom(l, index, frame).status # "toomany"
<1> DEFINE first == PutAt(l, index, frame)
           n == index - first.l.origin - MaxCount + 1
           room == RemoveHead(first.l, n)
<1>1. CASE first.status # "toomany" BY <1>1 DEF PutWithRoom
<1>2. CASE first.status = "toomany"
  <2>1. MaxCount \in Nat \ {0} BY RingAssumption
  <2>2. n \in Nat \ {0} /\ RingOK(first.l) BY <1>2, PutAtOK
  <2>3. first.l.origin \in Int /\ first.l.size \in 0 .. MaxCount
    BY <2>2 DEF RingOK, Rings
  <2>4. /\ RingOK(room)
        /\ room.size = first.l.size - Least(n, first.l.size)
        /\ room.origin = first.l.origin + Least(n, first.l.size)
    BY <2>2, RemoveHeadOK
  <2>5. PutWithRoom(l, index, frame) = PutAt(room, index, frame)
    BY <1>2 DEF PutWithRoom
  <2>6. n = index - first.l.origin - MaxCount + 1 OBVIOUS
  <2> HIDE DEF first, n, room
  <2>7. \/ room.size = 0
        \/ room.origin = index - MaxCount + 1
    BY <2>1, <2>2, <2>3, <2>4, <2>6 DEF Least
  <2>8. index - Realigned(room, index).origin < MaxCount
    <3>1. /\ room.size \in 0 .. MaxCount /\ room.origin \in Int
      BY <2>4 DEF RingOK, Rings
    <3>2. Realigned(room, index).origin
            = IF room.size = 0 THEN index
              ELSE IF index < room.origin THEN index - room.size
              ELSE room.origin
      BY <2>4 DEF Realigned, RingOK, Rings
    <3> QED BY <2>1, <2>7, <3>1, <3>2
  <2>9. ~(index - Realigned(room, index).origin >= MaxCount)
    <3>1. Realigned(room, index).origin \in Int
      BY <2>4, RealignedOK DEF RingOK, Rings
    <3> QED BY <2>1, <2>8, <3>1
  <2> QED BY <2>5, <2>9 DEF PutAt
<1> QED BY <1>1, <1>2

-----------------------------------------------------------------------------
(* Taking frames out, and marking them.                                    *)

LEMMA LeadingOK ==
  ASSUME NEW l, RingOK(l) PROVE Leading(l) \in Nat
<1> DEFINE T == {k \in 0 .. l.size : k = l.size \/ At(l, k) # Discarded}
<1>1. l.size \in Nat BY RingAssumption DEF RingOK, Rings
<1>2. T \in SUBSET Nat /\ T # {} BY <1>1
<1>3. PICK k \in T : \A m \in T : k <= m BY <1>2, LeastNat
<1>4. ASSUME NEW d \in 0 .. k - 1 PROVE At(l, d) = Discarded
  <2>1. k \in 0 .. l.size BY <1>3
  <2>2. d \in 0 .. l.size /\ ~(k <= d) BY <1>1, <2>1
  <2>3. d \notin T BY <1>3, <2>2
  <2> QED BY <2>2, <2>3
<1>5. \E x \in 0 .. l.size :
        /\ \A d \in 0 .. x - 1 : l.slots[Slot(l, d)] = Discarded
        /\ x = l.size \/ l.slots[Slot(l, x)] # Discarded
  BY <1>3, <1>4 DEF At
<1>6. Leading(l) \in 0 .. l.size BY <1>5 DEF Leading
<1> QED BY <1>1, <1>6

LEMMA TakeHeadOK ==
  ASSUME NEW l, RingOK(l)
  PROVE  RingOK(TakeHead(l)) /\ Keeps(l, TakeHead(l))
<1>1. Leading(l) + 1 \in Nat BY LeadingOK
<1> QED BY <1>1, RemoveHeadOK DEF TakeHead

LEMMA RemoveFramesOK ==
  ASSUME NEW l, RingOK(l), NEW count
  PROVE  RingOK(RemoveFrames(l, count)) /\ Keeps(l, RemoveFrames(l, count))
<1> DEFINE enough == {k \in 0 .. l.size : Cardinality(Kept(l, k)) >= count}
           least == CHOOSE k \in enough : \A m \in enough : k <= m
<1>1. l.size \in Nat BY RingAssumption DEF RingOK, Rings
<1>2. CASE enough = {}
  BY <1>1, <1>2, RemoveHeadOK DEF RemoveFrames
<1>3. CASE enough # {}
  <2>1. enough \in SUBSET Nat BY <1>1
  <2>2. \E k \in enough : \A m \in enough : k <= m BY <1>3, <2>1, LeastNat
  <2>3. least \in enough BY <2>2
  <2>4. least \in Nat BY <2>1, <2>3
  <2>5. RemoveFrames(l, count) = RemoveHead(l, least)
    BY <1>3 DEF RemoveFrames
  <2> QED BY <2>4, <2>5, RemoveHeadOK
<1> QED BY <1>2, <1>3

LEMMA TakePictureOK ==
  ASSUME NEW l, RingOK(l)
  PROVE  RingOK(TakePicture(l)) /\ Keeps(l, TakePicture(l))
<1>1. Keeps(l, l) BY DEF Keeps
<1> QED BY <1>1, RemoveFramesOK DEF TakePicture

\* A frame far enough behind those that are marked is not marked yet, so the
\* number of discarded frames grows with the marks.
LEMMA DiscardOK ==
  ASSUME NEW l, RingOK(l), NEW ref \in Int, Before(l, ref),
         NEW at \in l.origin .. LastSeq(l), at - ref >= MinShrinkGap
  PROVE  RingOK(Discard(l, at)) /\ Before(Discard(l, at), at)
<1> DEFINE p == Discard(l, at)
           d == at - l.origin
           s == Slot(l, d)
<1>1. MaxCount \in Nat \ {0} /\ MinShrinkGap \in Nat \ {0}
  BY RingAssumption, GapAssumption
<1>2. /\ l \in Rings /\ l.head \in Slots /\ l.size \in 0 .. MaxCount
      /\ l.origin \in Int /\ l.slots \in [Slots -> Int] /\ l.discarded \in Int
  BY DEF RingOK, Consistent, Rings
<1>3. d \in 0 .. l.size - 1 /\ d \in 0 .. MaxCount - 1 /\ d \in 0 .. MaxCount
  BY <1>1, <1>2 DEF LastSeq
<1>4. s \in Slots BY <1>2, <1>3, SlotValue
<1>5. /\ p.slots = [l.slots EXCEPT ![s] = Discarded]
      /\ p.size = l.size /\ p.head = l.head /\ p.origin = l.origin
      /\ p.discarded = l.discarded + 1
      /\ p \in Rings
  <2> DEFINE f == [l.slots EXCEPT ![s] = Discarded]
  <2>1. p = [l EXCEPT !.slots = f, !.discarded = l.discarded + 1]
    BY DEF Discard
  <2>2. f \in [Slots -> Int] BY <1>2, <1>4 DEF Discarded
  <2>3. l.discarded + 1 \in Int BY <1>2
  <2> HIDE DEF f, p
  <2>4. /\ p \in Rings /\ p.slots = f /\ p.size = l.size /\ p.head = l.head
        /\ p.origin = l.origin /\ p.discarded = l.discarded + 1
    BY <1>2, <2>1, <2>2, <2>3 DEF Rings
  <2> QED BY <2>4 DEF f
<1>6. \A e : Slot(p, e) = Slot(l, e) BY <1>5 DEF Slot
<1>7. l.slots[s] # Discarded
  <2>1. SUFFICES ASSUME At(l, d) = Discarded PROVE FALSE BY DEF At
  <2>2. l.origin + d <= ref BY <1>3, <2>1 DEF Before
  <2> QED BY <1>1, <1>2, <2>2 DEF LastSeq
<1>8. Consistent(p)
  <2>1. InWindow(p) = InWindow(l) BY <1>5, <1>6 DEF InWindow
  <2>2. s \in InWindow(l) BY <1>3 DEF InWindow
  <2>3. \A i \in Slots \ InWindow(p) : p.slots[i] = Missing
    BY <1>2, <1>5, <2>1, <2>2 DEF RingOK, Consistent
  <2>4. Marked(p) = Marked(l) \cup {s} BY <1>2, <1>4, <1>5 DEF Marked
  <2>5. s \notin Marked(l) BY <1>7 DEF Marked
  <2>6. Cardinality(Marked(p)) = Cardinality(Marked(l)) + 1
    BY <2>4, <2>5, MarkedFinite, FS_AddElement
  <2>7. l.discarded = Cardinality(Marked(l)) BY DEF RingOK, Consistent, Marked
  <2>8. p.discarded = Cardinality(Marked(p)) BY <1>5, <2>6, <2>7
  <2> QED BY <1>2, <1>5, <2>3, <2>8 DEF Consistent, Marked
\* A mark is the new one or was there before.
<1>9. ASSUME NEW e \in 0 .. p.size - 1, At(p, e) = Discarded, e # d
      PROVE  At(l, e) = Discarded
  <2>1. e \in 0 .. MaxCount - 1 /\ e \in 0 .. MaxCount BY <1>1, <1>2, <1>5
  <2>2. Slot(l, e) \in Slots BY <1>2, <2>1, SlotValue
  <2>3. Slot(l, e) # s BY <1>2, <1>3, <1>9, <2>1, SlotInjective
  <2> QED BY <1>2, <1>5, <1>6, <1>9, <2>2, <2>3 DEF At
<1>10. Before(p, at)
  <2>1. SUFFICES ASSUME NEW e \in 0 .. p.size - 1, At(p, e) = Discarded, e # d
                 PROVE  p.origin + e <= at
    BY <1>2, <1>5 DEF Before, LastSeq
  <2>2. l.origin + e <= ref BY <1>5, <1>9, <2>1 DEF Before
  <2> QED BY <1>1, <1>2, <1>5, <2>2 DEF LastSeq
<1>11. Apart(p)
  <2>1. SUFFICES ASSUME NEW e \in 0 .. p.size - 1, NEW f \in 0 .. p.size - 1,
                        e < f, At(p, e) = Discarded, At(p, f) = Discarded
                 PROVE  f - e >= MinShrinkGap
    BY DEF Apart, At
  <2>2. CASE e # d /\ f # d
    <3>1. At(l, e) = Discarded /\ At(l, f) = Discarded
      BY <1>9, <2>1, <2>2
    <3> QED BY <1>5, <2>1, <3>1 DEF RingOK, Apart, At
  <2>3. CASE f = d
    <3>1. At(l, e) = Discarded BY <1>9, <2>1, <2>3
    <3>2. l.origin + e <= ref BY <1>5, <3>1 DEF Before
    <3> QED BY <1>1, <1>2, <2>3, <3>2
  <2>4. CASE e = d
    <3>1. At(l, f) = Discarded BY <1>9, <2>1, <2>4
    <3>2. l.origin + f <= ref BY <1>5, <3>1 DEF Before
    <3> QED BY <1>1, <1>2, <2>1, <2>4, <3>2
  <2> QED BY <2>2, <2>3, <2>4
<1> QED BY <1>5, <1>8, <1>10, <1>11 DEF RingOK

-----------------------------------------------------------------------------
(* The whole buffer: the ring is in order, the measurement has its type,   *)
(* and while a discard is scheduled every mark lies at or before ref.      *)

Fields ==
  {"discard", "init", "min", "max", "prefetch", "prefetching", "level", "eff",
   "hist", "stable", "cycle", "processing", "last_op", "ref", "dist"}
JbOK(j) ==
  /\ j = [f \in Fields |-> j[f]]
  /\ j.level \in Nat /\ j.eff \in Nat /\ j.hist \in Nat
  /\ j.ref \in Int /\ j.dist \in Nat
BufferOK(b) ==
  /\ b = [f \in {"l", "j"} |-> b[f]]
  /\ RingOK(b.l) /\ JbOK(b.j)
  /\ b.j.dist # 0 => b.j.discard = "progressive" /\ Before(b.l, b.j.ref)

\* The schedule of j is that of k.
SameSchedule(j, k) ==
  j.ref = k.ref /\ j.dist = k.dist /\ j.discard = k.discard

LEMMA CalculateJitterOK ==
  ASSUME NEW j, JbOK(j)
  PROVE  JbOK(CalculateJitter(j)) /\ SameSchedule(CalculateJitter(j), j)
<1> DEFINE hist == Greatest(j.hist, j.level)
           up == Least(hist, (MaxCount * 4) \div 5)
           down == j.eff - Greatest(1, (j.eff - hist) \div 3)
<1>1. MaxCount \in Nat /\ StableLimit \in Nat
  BY RingAssumption, LevelAssumption
<1>2. /\ j.level \in Nat /\ j.eff \in Nat /\ j.hist \in Nat
  BY DEF JbOK, Fields
<1>3. hist \in Nat BY <1>2 DEF Greatest
<1>4. up \in Nat
  <2>1. (MaxCount * 4) \div 5 \in Nat BY <1>1
  <2> QED BY <1>3, <2>1 DEF Least
<1>5. CASE j.level > j.eff
  <2>1. CalculateJitter(j) = [j EXCEPT !.hist = hist, !.stable = 0, !.eff = up,
                                       !.prefetch = Prefetch(j, up)]
    BY <1>5 DEF CalculateJitter
  <2> HIDE DEF hist, up
  <2> QED BY <1>3, <1>4, <2>1 DEF JbOK, Fields, SameSchedule
<1>6. CASE j.level = j.eff
  <2>1. CalculateJitter(j) = [j EXCEPT !.hist = hist, !.stable = 0]
    BY <1>2, <1>6 DEF CalculateJitter
  <2> HIDE DEF hist
  <2> QED BY <1>3, <2>1 DEF JbOK, Fields, SameSchedule
<1>7. CASE j.level < j.eff /\ j.stable + 1 <= StableLimit
  <2>1. CalculateJitter(j) = [j EXCEPT !.hist = hist, !.stable = j.stable + 1]
    BY <1>2, <1>7 DEF CalculateJitter
  <2> HIDE DEF hist
  <2> QED BY <1>2, <1>3, <2>1 DEF JbOK, Fields, SameSchedule
<1>8. CASE j.level < j.eff /\ ~(j.stable + 1 <= StableLimit)
  <2>1. down \in Nat
    <3>1. j.eff >= 1 BY <1>2, <1>8
    <3>2. (j.eff - hist) \div 3 \in Int /\ (j.eff - hist) \div 3 <= j.eff
      BY <1>2, <1>3
    <3> HIDE DEF hist
    <3> QED BY <1>2, <3>1, <3>2 DEF Greatest
  <2>2. CalculateJitter(j) = [j EXCEPT !.hist = 0, !.stable = 0, !.eff = down,
                                       !.prefetch = Prefetch(j, down)]
    BY <1>2, <1>8 DEF CalculateJitter
  <2>3. 0 \in Nat OBVIOUS
  <2> HIDE DEF down
  <2> QED BY <2>1, <2>2, <2>3 DEF JbOK, Fields, SameSchedule
<1> QED BY <1>2, <1>5, <1>6, <1>7, <1>8

LEMMA SwitchOK ==
  ASSUME NEW j, JbOK(j), NEW op \in {"put", "get"}
  PROVE  JbOK(Switch(j, op)) /\ SameSchedule(Switch(j, op), j)
<1> DEFINE begins == ~j.processing /\ j.cycle + 1 >= InitCycle /\ op = "get"
           cycle == IF begins THEN j.cycle + 1 ELSE j.cycle
           level == IF begins THEN Least(j.level, MaxBurst) ELSE j.level
           m == [j EXCEPT !.last_op = op, !.processing = TRUE,
                          !.cycle = cycle, !.level = level]
           n == IF op = "get" /\ m.level <= MaxBurst
                  THEN CalculateJitter(m) ELSE m
<1>1. MaxBurst \in Nat BY LevelAssumption
<1>2. j.level \in Nat BY DEF JbOK, Fields
<1>3. CASE ~j.processing /\ ~begins
  <2>1. Switch(j, op) =
          [j EXCEPT !.last_op = op, !.cycle = j.cycle + 1, !.level = 0]
    BY <1>3 DEF Switch
  <2>2. 0 \in Nat OBVIOUS
  <2> QED BY <2>1, <2>2 DEF JbOK, Fields, SameSchedule
<1>4. CASE ~(~j.processing /\ ~begins)
  <2>1. Switch(j, op) = [n EXCEPT !.level = 0]
    BY <1>4 DEF Switch
  <2>2. level \in Nat BY <1>1, <1>2 DEF Least
  <2> HIDE DEF cycle, level
  <2>3. JbOK(m) /\ SameSchedule(m, j) BY <2>2 DEF JbOK, Fields, SameSchedule
  <2> HIDE DEF m
  <2>4. JbOK(n) /\ SameSchedule(n, j)
    BY <2>3, CalculateJitterOK DEF SameSchedule
  <2> HIDE DEF n
  <2> QED BY <2>1, <2>4 DEF JbOK, Fields, SameSchedule
<1> QED BY <1>3, <1>4

LEMMA BufferParts ==
  ASSUME NEW b, BufferOK(b)
  PROVE  /\ b.l.origin \in Int /\ b.l.size \in 0 .. MaxCount
         /\ b.l.discarded \in Nat
         /\ b.j.ref \in Int /\ b.j.dist \in Nat
         /\ Burst(b.j) \in Nat
<1>1. b.l \in Rings /\ JbOK(b.j) BY DEF BufferOK, RingOK
<1>2. Burst(b.j) \in Nat BY <1>1 DEF Burst, Greatest, JbOK
<1>3. b.l.discarded = Cardinality(Marked(b.l))
  BY DEF BufferOK, RingOK, Consistent, Marked
<1>4. b.l.discarded \in Nat BY <1>3, MarkedFinite, FS_CardinalityType
<1> QED BY <1>1, <1>2, <1>4 DEF Rings, JbOK

\* A ring and a measurement make a buffer.
LEMMA BufferMade ==
  ASSUME NEW l, RingOK(l), NEW j, JbOK(j),
         j.dist # 0 => j.discard = "progressive" /\ Before(l, j.ref)
  PROVE  BufferOK([l |-> l, j |-> j])
<1> DEFINE c == [l |-> l, j |-> j]
<1>1. c = [f \in {"l", "j"} |-> c[f]] /\ c.l = l /\ c.j = j OBVIOUS
<1> HIDE DEF c
<1>2. BufferOK(c) BY <1>1 DEF BufferOK
<1> QED BY <1>2 DEF c

\* An operation on the ring that marks nothing keeps the schedule.
LEMMA BufferKept ==
  ASSUME NEW b, BufferOK(b), NEW l, RingOK(l), Keeps(b.l, l),
         NEW j, JbOK(j), SameSchedule(j, b.j)
  PROVE  BufferOK([l |-> l, j |-> j])
<1>1. j.dist # 0 => j.discard = "progressive" /\ Before(l, j.ref)
  BY BufferParts DEF BufferOK, Keeps, SameSchedule
<1> QED BY <1>1, BufferMade

\* The same for a buffer of which one part is changed.
LEMMA BufferExcept ==
  ASSUME NEW b, BufferOK(b)
  PROVE  /\ \A l : [b EXCEPT !.l = l] = [l |-> l, j |-> b.j]
         /\ \A j : [b EXCEPT !.j = j] = [l |-> b.l, j |-> j]
BY DEF BufferOK

LEMMA DiscardStaticOK ==
  ASSUME NEW b, BufferOK(b), b.j.discard = "static"
  PROVE  BufferOK(DiscardStatic(b))
<1> DEFINE ref == Least(b.j.ref, b.l.origin)
           l == RemoveHead(b.l, 1)
           kept == [b EXCEPT !.j.ref = ref]
           gone == [b EXCEPT !.l = l, !.j.ref = l.origin]
<1>1. b.j.dist = 0 /\ RingOK(b.l) /\ JbOK(b.j) BY DEF BufferOK
<1>2. b.l.origin \in Int /\ b.j.ref \in Int BY BufferParts
<1>3. RingOK(l) BY <1>1, RemoveHeadOK
<1>4. ref \in Int /\ l.origin \in Int
  BY <1>2, <1>3 DEF Least, RingOK, Rings
<1>5. ASSUME NEW r \in Int
      PROVE  JbOK([b.j EXCEPT !.ref = r]) /\ [b.j EXCEPT !.ref = r].dist = 0
  BY <1>1 DEF JbOK, Fields
<1> HIDE DEF ref, l
<1>6. /\ kept = [f \in {"l", "j"} |-> kept[f]]
      /\ kept.l = b.l /\ kept.j = [b.j EXCEPT !.ref = ref]
  BY DEF BufferOK
<1>7. /\ gone = [f \in {"l", "j"} |-> gone[f]]
      /\ gone.l = l /\ gone.j = [b.j EXCEPT !.ref = l.origin]
  BY DEF BufferOK
<1> HIDE DEF kept, gone
<1>8. BufferOK(kept) BY <1>1, <1>4, <1>5, <1>6 DEF BufferOK
<1>9. BufferOK(gone) BY <1>3, <1>4, <1>5, <1>7 DEF BufferOK
<1> QED BY <1>8, <1>9 DEF DiscardStatic, kept, gone, ref, l

\* A scheduled frame is at least MinShrinkGap behind the one before.
LEMMA DistanceOK ==
  ASSUME NEW b, BufferOK(b), EffSize(b.l) > Burst(b.j)
  PROVE  Distance(b) \in Nat \ {0} /\ Distance(b) >= MinShrinkGap
<1> DEFINE burst == Burst(b.j)
           t == DiscardTime(burst)
           over == EffSize(b.l) - burst
<1>1. /\ MinShrinkGap \in Nat \ {0} /\ Ptime \in Nat \ {0}
      /\ DiscT1 \in Nat /\ DiscT2 \in Nat
      /\ DiscMinBurst \in Nat /\ DiscMaxBurst \in Nat
      /\ DiscMinBurst < DiscMaxBurst
  BY GapAssumption, DiscardAssumption
<1>2. burst \in Nat /\ b.l.size \in Int /\ b.l.discarded \in Int
  BY RingAssumption, BufferParts
<1>3. over \in Nat \ {0} BY <1>2 DEF EffSize
<1>4. \A x \in Int, y \in Nat \ {0} : x \div y \in Int OBVIOUS
<1>5. t \in Int
  <2>1. DiscMaxBurst - DiscMinBurst \in Nat \ {0} BY <1>1
  <2>2. (DiscT2 - DiscT1) * (burst - DiscMinBurst) \in Int BY <1>1, <1>2
  <2>3. ((DiscT2 - DiscT1) * (burst - DiscMinBurst))
          \div (DiscMaxBurst - DiscMinBurst) \in Int
    BY <1>4, <2>1, <2>2
  <2> HIDE DEF burst
  <2> QED BY <1>1, <2>3 DEF DiscardTime
<1>6. Distance(b) = Greatest(MinShrinkGap, (t \div over) \div Ptime)
  BY DEF Distance
<1> HIDE DEF t, over
<1>7. (t \div over) \div Ptime \in Int BY <1>1, <1>3, <1>4, <1>5
<1> QED BY <1>1, <1>6, <1>7 DEF Greatest

LEMMA DiscardProgressiveOK ==
  ASSUME NEW b, BufferOK(b), b.j.discard = "progressive"
  PROVE  BufferOK(DiscardProgressive(b))
<1> DEFINE ref == IF b.j.dist = 0 THEN LastSeq(b.l)
                  ELSE Least(b.j.ref, LastSeq(b.l))
           dist == Distance(b)
           at == Greatest(ref + dist, b.l.origin)
<1>1. /\ RingOK(b.l) /\ JbOK(b.j)
      /\ b.l.origin \in Int /\ b.l.size \in Nat /\ b.l.discarded \in Nat
      /\ b.j.ref \in Int /\ Burst(b.j) \in Nat
  BY RingAssumption, BufferParts DEF BufferOK
<1>2. LastSeq(b.l) \in Int BY <1>1 DEF LastSeq
<1>3. Before(b.l, LastSeq(b.l)) BY <1>1 DEF Before, LastSeq
<1>4. ref \in Int /\ Before(b.l, ref)
  BY <1>1, <1>2, <1>3 DEF BufferOK, Least
<1> HIDE DEF ref, dist, at
<1>5. CASE b.j.last_op # "put"
  BY <1>5 DEF DiscardProgressive
<1>6. CASE b.j.last_op = "put" /\ EffSize(b.l) <= Burst(b.j)
  <2> DEFINE c == [b EXCEPT !.j.dist = 0]
  <2>1. DiscardProgressive(b) = c BY <1>6 DEF DiscardProgressive
  <2>2. /\ c = [f \in {"l", "j"} |-> c[f]]
        /\ c.l = b.l /\ c.j = [b.j EXCEPT !.dist = 0]
    BY DEF BufferOK
  <2>3. 0 \in Nat OBVIOUS
  <2>4. JbOK(c.j) /\ c.j.dist = 0 BY <1>1, <2>2, <2>3 DEF JbOK, Fields
  <2> HIDE DEF c
  <2> QED BY <1>1, <2>1, <2>2, <2>4 DEF BufferOK
<1>7. CASE /\ b.j.last_op = "put" /\ ~(EffSize(b.l) <= Burst(b.j))
           /\ LastSeq(b.l) < ref + dist
  <2> DEFINE c == [b EXCEPT !.j.ref = ref, !.j.dist = dist]
  <2>1. DiscardProgressive(b) = c
    BY <1>7 DEF DiscardProgressive, ref, dist, at
  <2>2. /\ c = [f \in {"l", "j"} |-> c[f]]
        /\ c.l = b.l /\ c.j = [b.j EXCEPT !.ref = ref, !.dist = dist]
    BY DEF BufferOK
  <2>3. dist \in Nat BY <1>1, <1>7, DistanceOK DEF dist, EffSize
  <2>4. JbOK(c.j) /\ c.j.ref = ref /\ c.j.discard = "progressive"
    BY <1>1, <1>4, <2>2, <2>3 DEF JbOK, Fields
  <2> HIDE DEF c
  <2> QED BY <1>1, <1>4, <2>1, <2>2, <2>4 DEF BufferOK
<1>8. CASE /\ b.j.last_op = "put" /\ ~(EffSize(b.l) <= Burst(b.j))
           /\ ~(LastSeq(b.l) < ref + dist)
  <2> DEFINE l == Discard(b.l, at)
             c == [b EXCEPT !.l = l, !.j.ref = at, !.j.dist = dist]
  <2>1. DiscardProgressive(b) = c
    BY <1>8 DEF DiscardProgressive, ref, dist, at
  <2>2. dist \in Nat /\ dist >= MinShrinkGap /\ MinShrinkGap \in Nat
    BY <1>1, <1>8, DistanceOK, GapAssumption DEF dist, EffSize
  <2>3. b.l.size > 0 BY <1>1, <1>8 DEF EffSize
  <2>4. at \in b.l.origin .. LastSeq(b.l) /\ at - ref >= MinShrinkGap
    BY <1>1, <1>2, <1>4, <1>8, <2>2, <2>3 DEF at, Greatest, LastSeq
  <2>5. RingOK(l) /\ Before(l, at) BY <1>1, <1>4, <2>4, DiscardOK
  <2>6. at \in Int BY <1>1, <1>2, <2>4
  <2> HIDE DEF l
  <2>7. /\ c = [f \in {"l", "j"} |-> c[f]]
        /\ c.l = l /\ c.j = [b.j EXCEPT !.ref = at, !.dist = dist]
    BY DEF BufferOK
  <2>8. JbOK(c.j) /\ c.j.ref = at /\ c.j.discard = "progressive"
    BY <1>1, <2>2, <2>6, <2>7 DEF JbOK, Fields
  <2> HIDE DEF c
  <2> QED BY <2>1, <2>5, <2>7, <2>8 DEF BufferOK
<1> QED BY <1>5, <1>6, <1>7, <1>8

LEMMA UpdateOK ==
  ASSUME NEW b, BufferOK(b), NEW op \in {"put", "get"}
  PROVE  BufferOK(Update(b, op))
<1> DEFINE j == IF b.j.last_op = op THEN b.j ELSE Switch(b.j, op)
           s == [b EXCEPT !.j = j]
<1>1. RingOK(b.l) /\ JbOK(b.j) /\ Keeps(b.l, b.l) BY DEF BufferOK, Keeps
<1>2. JbOK(j) /\ SameSchedule(j, b.j) BY <1>1, SwitchOK DEF SameSchedule
<1> HIDE DEF j
<1>3. s = [l |-> b.l, j |-> j] BY BufferExcept
<1>4. BufferOK([l |-> b.l, j |-> j]) BY <1>1, <1>2, BufferKept
<1>5. Update(b, op) =
        CASE s.j.processing /\ s.j.discard = "static" -> DiscardStatic(s)
          [] s.j.processing /\ s.j.discard = "progressive" -> DiscardProgressive(s)
          [] OTHER -> s
  BY DEF Update, j
<1> HIDE DEF s
<1>6. BufferOK(s) BY <1>3, <1>4
<1>7. CASE s.j.processing /\ s.j.discard = "static"
  BY <1>5, <1>6, <1>7, DiscardStaticOK
<1>8. CASE s.j.processing /\ s.j.discard = "progressive"
  BY <1>5, <1>6, <1>8, DiscardProgressiveOK
<1>9. CASE ~(s.j.processing /\ s.j.discard = "static")
           /\ ~(s.j.processing /\ s.j.discard = "progressive")
  BY <1>5, <1>6, <1>9
<1> QED BY <1>7, <1>8, <1>9

LEMMA ResetOK ==
  ASSUME NEW b, BufferOK(b) PROVE BufferOK(Reset(b))
<1>1. JbOK(b.j) BY DEF BufferOK
<1>2. 0 \in Nat OBVIOUS
<1>3. JbOK(ResetJb(b.j)) /\ ResetJb(b.j).dist = 0
  BY <1>1, <1>2 DEF ResetJb, JbOK, Fields
<1>4. InvalidOffset \in Int BY DEF InvalidOffset
<1>5. RingOK(EmptyRing(InvalidOffset)) BY <1>4, EmptyRingOK
<1> QED BY <1>3, <1>5, BufferMade DEF Reset

LEMMA PutFrameOK ==
  ASSUME NEW b, BufferOK(b), NEW index \in Int, NEW frame \in Nat
  PROVE  BufferOK(PutFrame(b, index, frame))
<1> DEFINE put == PutWithRoom(b.l, index, frame)
           grown == EffSize(put.l) - EffSize(b.l)
           level == Least(LevelCap, b.j.level + Greatest(1, grown))
           pre == b.j.prefetching /\ EffSize(put.l) < b.j.prefetch
           j == [b.j EXCEPT !.prefetching = pre, !.level = level]
<1>1. RingOK(b.l) /\ JbOK(b.j) BY DEF BufferOK
<1>2. RingOK(put.l) /\ Keeps(b.l, put.l) BY <1>1, PutWithRoomOK
<1>3. CASE put.status # "ok"
  <2>1. PutFrame(b, index, frame) = [l |-> put.l, j |-> b.j]
    BY <1>3, BufferExcept DEF PutFrame
  <2>2. SameSchedule(b.j, b.j) BY DEF SameSchedule
  <2> QED BY <1>1, <1>2, <2>1, <2>2, BufferKept
<1>4. CASE put.status = "ok"
  <2>1. level \in Nat
    <3>1. /\ put.l.size \in Int /\ put.l.discarded \in Int
          /\ b.l.size \in Int /\ b.l.discarded \in Int
      BY <1>1, <1>2, RingAssumption DEF RingOK, Rings
    <3>2. grown \in Int BY <3>1 DEF EffSize
    <3>3. b.j.level \in Nat /\ LevelCap \in Nat
      BY <1>1, LevelAssumption DEF JbOK
    <3> HIDE DEF grown
    <3> QED BY <3>2, <3>3 DEF Least, Greatest
  <2>2. PutFrame(b, index, frame) = Update([l |-> put.l, j |-> j], "put")
    BY <1>4 DEF PutFrame
  <2> HIDE DEF level, pre
  <2>3. JbOK(j) /\ SameSchedule(j, b.j)
    BY <1>1, <2>1 DEF JbOK, Fields, SameSchedule
  <2> HIDE DEF j, put
  <2>4. BufferOK([l |-> put.l, j |-> j]) BY <1>2, <2>3, BufferKept
  <2> QED BY <2>2, <2>4, UpdateOK
<1> QED BY <1>3, <1>4

LEMMA GetFrameOK ==
  ASSUME NEW b, BufferOK(b) PROVE BufferOK(GetFrame(b))
<1> DEFINE level == Least(LevelCap, b.j.level + 1)
           more == [b.j EXCEPT !.level = level]
           pre == Head(b.l) = Empty /\ b.j.prefetch # 0
           j == [more EXCEPT !.prefetching = pre]
<1>1. RingOK(b.l) /\ JbOK(b.j) /\ Keeps(b.l, b.l) BY DEF BufferOK, Keeps
<1>2. level \in Nat
  <2>1. b.j.level \in Nat /\ LevelCap \in Nat
    BY <1>1, LevelAssumption DEF JbOK
  <2> QED BY <2>1 DEF Least
<1>3. GetFrame(b) = IF b.j.prefetching
                      THEN Update([l |-> b.l, j |-> more], "get")
                    ELSE Update([l |-> TakeHead(b.l), j |-> j], "get")
  BY DEF GetFrame
<1> HIDE DEF level, pre
<1>4. JbOK(more) /\ SameSchedule(more, b.j)
  BY <1>1, <1>2 DEF JbOK, Fields, SameSchedule
<1> HIDE DEF more
<1>5. JbOK(j) /\ SameSchedule(j, b.j)
  BY <1>4 DEF JbOK, Fields, SameSchedule
<1> HIDE DEF j
<1>6. BufferOK([l |-> b.l, j |-> more]) BY <1>1, <1>4, BufferKept
<1>7. BufferOK([l |-> TakeHead(b.l), j |-> j])
  BY <1>1, <1>5, TakeHeadOK, BufferKept
<1> QED BY <1>3, <1>6, <1>7, UpdateOK

-----------------------------------------------------------------------------
(* The stream.                                                             *)

Inv == BufferOK(buffer)

LEMMA InitOK == Init => Inv
<1> SUFFICES ASSUME Init PROVE BufferOK(buffer)
  BY DEF Inv
<1> DEFINE j == NewJb(stream.discard, stream.init, stream.min, stream.max)
<1>1. 0 \in Nat /\ 0 \in Int OBVIOUS
<1>2. JbOK(j) /\ j.dist = 0 BY <1>1 DEF JbOK, Fields, NewJb
<1>3. InvalidOffset \in Int BY DEF InvalidOffset
<1>4. RingOK(EmptyRing(InvalidOffset)) BY <1>3, EmptyRingOK
<1>5. buffer = [l |-> EmptyRing(InvalidOffset), j |-> j] BY DEF Init
<1> HIDE DEF j
<1> QED BY <1>2, <1>4, <1>5, BufferMade

LEMMA TakenOK ==
  ASSUME NEW b, BufferOK(b)
  PROVE  BufferOK([b EXCEPT !.l = TakePicture(b.l)])
<1>1. RingOK(b.l) /\ JbOK(b.j) BY DEF BufferOK
<1>2. [b EXCEPT !.l = TakePicture(b.l)] = [l |-> TakePicture(b.l), j |-> b.j]
  BY BufferExcept
<1>3. SameSchedule(b.j, b.j) BY DEF SameSchedule
<1>4. BufferOK([l |-> TakePicture(b.l), j |-> b.j])
  BY <1>1, <1>3, TakePictureOK, BufferKept
<1> QED BY <1>2, <1>4

LEMMA NextOK == Inv /\ [Next]_vars => Inv'
<1> SUFFICES ASSUME BufferOK(buffer), [Next]_vars PROVE BufferOK(buffer')
  BY DEF Inv
<1>1. ASSUME NEW n \in First .. LastPacket, NEW codec_ok \in BOOLEAN,
             Receive(n, codec_ok)
      PROVE  BufferOK(buffer')
  <2> DEFINE before == IF TriesDecode(n)
                         THEN [buffer EXCEPT !.l = TakePicture(buffer.l)]
                       ELSE buffer
  <2>1. BufferOK(before) BY TakenOK
  <2>2. n \in Nat /\ n % SeqMod \in Int BY SourceAssumption, RtpAssumption
  <2>3. \/ buffer' = buffer
        \/ buffer' = Reset(before)
        \/ buffer' = PutFrame(before, n % SeqMod, n)
    BY <1>1 DEF Receive
  <2> HIDE DEF before
  <2> QED BY <2>1, <2>2, <2>3, ResetOK, PutFrameOK
<1>2. CASE GetAudio BY <1>2, GetFrameOK DEF GetAudio
<1>3. CASE GetVideo
  <2>1. buffer' = buffer \/ buffer' = [buffer EXCEPT !.l = TakePicture(buffer.l)]
    BY <1>3 DEF GetVideo
  <2> QED BY <2>1, TakenOK
<1>4. CASE Pause BY <1>4, ResetOK DEF Pause
<1>5. CASE UNCHANGED vars BY <1>5 DEF vars
<1> QED BY <1>1, <1>2, <1>3, <1>4, <1>5 DEF Next

\* What the measurement and the ring have to do with each other, always.
THEOREM BufferInOrder == Spec => []Inv
BY InitOK, NextOK, PTL DEF Spec

\* The counters of the ring agree with its slots, whatever is received and
\* however the buffer is configured: the loops of jb_framelist_get and of
\* pjmedia_jbuf_put_frame3 rely on it.
THEOREM RingAgrees == Spec => []RingConsistent
<1>1. Inv => RingConsistent
  BY DEF Inv, BufferOK, RingOK, RingConsistent
<1> QED BY <1>1, BufferInOrder, PTL

\* Discarded frames are at least MinShrinkGap apart (jbuf_discard_progressive).
THEOREM DiscardsSpaced == Spec => []DiscardsApart
<1>1. Inv => DiscardsApart
  BY DEF Inv, BufferOK, RingOK, DiscardsApart
<1> QED BY <1>1, BufferInOrder, PTL
=============================================================================
