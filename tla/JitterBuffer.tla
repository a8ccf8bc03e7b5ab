---------------------------- MODULE JitterBuffer ----------------------------
(***************************************************************************)
(* The jitter buffer of PJMEDIA (pjmedia/src/pjmedia/jbuf.c): a ring of    *)
(* frames that come from the network by sequence number and are taken out  *)
(* in that order, and the measurement of bursts that decides how many of   *)
(* them are kept.  Nothing here locks: a stream calls every operation with *)
(* its jb_mutex held, so each is one step (see MediaReceiver).             *)
(*                                                                         *)
(* The buffer is a record with two parts, after the two structures of the  *)
(* code: its ring l (jb_framelist_t) and its measurement j (the other      *)
(* fields of pjmedia_jbuf).  A slot holds a frame, which is a number, or   *)
(* one of the two marks below.  Statistics are left out.                   *)
(***************************************************************************)
EXTENDS Integers, FiniteSets

CONSTANTS
  MaxCount,       \* slots of the ring (max_count)
  MaxMisorder,    \* an earlier frame counts as late up to here (100)
  MaxDropout,     \* a later frame is accepted up to here (3000)
  InitCycle,      \* changes of operation before bursts are measured (10)
  StableLimit,    \* bursts below the level before it sinks (20)
  MinShrinkGap,   \* frames between two that are discarded (200 ms)
  MaxBurst,       \* longer bursts are not measured (jb_max_burst)
  DiscT1, DiscT2, DiscMinBurst, DiscMaxBurst, Ptime,
                  \* PJMEDIA_JBUF_PRO_DISC_*, the frame duration
  LevelCap        \* bound: the current burst is counted up to here

ASSUME RingAssumption ==
  /\ MaxCount \in Nat \ {0}
  /\ MaxMisorder \in Nat
  /\ MaxDropout \in Nat
\* PJMEDIA_JBUF_DISC_MIN_GAP / ptime is not 0 for frames up to 200 ms.
ASSUME GapAssumption == MinShrinkGap \in Nat \ {0}
ASSUME LevelAssumption ==
  /\ InitCycle \in Nat /\ StableLimit \in Nat
  /\ MaxBurst \in Nat /\ LevelCap \in Nat
  \* Beyond both, the code does not tell two levels apart.
  /\ LevelCap > MaxBurst /\ LevelCap >= MaxCount
ASSUME DiscardAssumption ==
  /\ DiscT1 \in Nat /\ DiscT2 \in Nat /\ Ptime \in Nat \ {0}
  /\ DiscMinBurst \in Nat /\ DiscMaxBurst \in Nat
  /\ DiscT1 <= DiscT2 /\ DiscMinBurst < DiscMaxBurst

Missing == -1     \* PJMEDIA_JB_MISSING_FRAME
Discarded == -2   \* PJMEDIA_JB_DISCARDED_FRAME
Prefetching == -3 \* PJMEDIA_JB_ZERO_PREFETCH_FRAME
Empty == -4       \* PJMEDIA_JB_ZERO_EMPTY_FRAME
Slots == 0 .. MaxCount - 1

Least(a, b) == IF a <= b THEN a ELSE b
Greatest(a, b) == IF a >= b THEN a ELSE b

-----------------------------------------------------------------------------
(* The ring.                                                               *)

InvalidOffset == -9999
EmptyRing(origin) ==
  [slots |-> [i \in Slots |-> Missing], head |-> 0, size |-> 0,
   discarded |-> 0, origin |-> origin]

\* The slot of the d-th frame, counted from the oldest.
Slot(l, d) == (l.head + d) % MaxCount
EffSize(l) == l.size - l.discarded
LastSeq(l) == l.origin + l.size - 1

\* Mutant: marks that go are not taken off the number of discarded frames.
RemoveHeadKeepsCount(l, count) ==
  LET c == Least(count, l.size)
      gone == {Slot(l, d) : d \in 0 .. c - 1}
  IN [l EXCEPT !.slots = [i \in Slots |-> IF i \in gone THEN Missing ELSE @[i]],
               !.head = (@ + c) % MaxCount, !.size = @ - c, !.origin = @ + c]
RemoveHead(l, count) ==
  LET c == Least(count, l.size)
      gone == {Slot(l, d) : d \in 0 .. c - 1}
  IN [slots |-> [i \in Slots |-> IF i \in gone THEN Missing ELSE l.slots[i]],
      head |-> (l.head + c) % MaxCount,
      size |-> l.size - c,
      discarded |-> l.discarded
                      - Cardinality({i \in gone : l.slots[i] = Discarded}),
      origin |-> l.origin + c]

\* jb_framelist_put_at, in the order of its tests.
\* Mutant: a drained buffer takes any frame.
TooLateUnlessEmpty(l, index) ==
  l.size # 0 /\ index < l.origin /\ l.origin - index < MaxMisorder
TooLate(l, index) == index < l.origin /\ l.origin - index < MaxMisorder
Realigned(l, index) ==
  [l EXCEPT !.origin =
     IF l.size = 0 THEN index
     ELSE IF index < l.origin THEN index - l.size ELSE l.origin]
Place(l, d, frame) ==
  [l EXCEPT !.slots = [@ EXCEPT ![Slot(l, d)] = frame],
            !.size = IF @ <= d THEN d + 1 ELSE @]
PutAt(l, index, frame) ==
  LET r == Realigned(l, index)
      d == index - r.origin
  IN IF TooLate(l, index) THEN [status |-> "toosmall", l |-> l]
     ELSE IF d >= MaxCount /\ d > MaxDropout
       THEN [status |-> "ok", l |-> Place(EmptyRing(index), 0, frame)]
     ELSE IF d >= MaxCount THEN [status |-> "toomany", l |-> r]
     ELSE IF r.slots[Slot(r, d)] # Missing THEN [status |-> "exists", l |-> r]
     ELSE [status |-> "ok", l |-> Place(r, d, frame)]

\* The loop of pjmedia_jbuf_put_frame3: as few of the oldest frames as make
\* room are removed, after which the frame fits.
PutWithRoom(l, index, frame) ==
  LET first == PutAt(l, index, frame)
      room == RemoveHead(first.l, index - first.l.origin - MaxCount + 1)
  IN IF first.status = "toomany" THEN PutAt(room, index, frame) ELSE first

\* jb_framelist_get passes over discarded frames and takes the next one.
Leading(l) ==
  CHOOSE k \in 0 .. l.size :
    /\ \A d \in 0 .. k - 1 : l.slots[Slot(l, d)] = Discarded
    /\ k = l.size \/ l.slots[Slot(l, k)] # Discarded
\* After a discarded frame a missing one is reported in place of the next.
Head(l) ==
  IF Leading(l) = l.size THEN Empty
  ELSE IF Leading(l) > 0 THEN Missing
  ELSE l.slots[Slot(l, 0)]
TakeHead(l) == RemoveHead(l, Leading(l) + 1)

\* pjmedia_jbuf_remove_frame: so many slots that there are count frames among
\* them that are not discarded.
Kept(l, k) == {d \in 0 .. k - 1 : l.slots[Slot(l, d)] # Discarded}
RemoveFrames(l, count) ==
  LET enough == {k \in 0 .. l.size : Cardinality(Kept(l, k)) >= count}
  IN IF enough = {} THEN RemoveHead(l, l.size)
     ELSE RemoveHead(l, CHOOSE k \in enough : \A m \in enough : k <= m)

Discard(l, index) ==
  [l EXCEPT !.slots = [@ EXCEPT ![Slot(l, index - l.origin)] = Discarded],
            !.discarded = @ + 1]

-----------------------------------------------------------------------------
(* The measurement.  discard is the algorithm: none, static, progressive.  *)

ResetJb(j) ==
  [j EXCEPT !.level = 0, !.last_op = "init", !.stable = 0, !.cycle = 0,
            !.processing = FALSE, !.hist = 0,
            !.prefetching = j.prefetch # 0, !.dist = 0]

\* A new buffer: it is reset while its prefetch is the default one, which is
\* not 0, and then configured.
NewJb(discard, init, min, max) ==
  [discard |-> discard, init |-> init, min |-> min, max |-> max,
   prefetch |-> init, prefetching |-> TRUE, level |-> 0, eff |-> 0,
   hist |-> 0, stable |-> 0, cycle |-> 0, processing |-> FALSE,
   last_op |-> "init", ref |-> 0, dist |-> 0]

Prefetch(j, eff) ==
  IF j.init = 0 THEN j.prefetch
  ELSE Greatest(j.min, Least(j.max, eff))

\* jbuf_calculate_jitter: the level follows a longer burst at once, and sinks
\* by a third after StableLimit bursts that were shorter.
CalculateJitter(j) ==
  LET hist == Greatest(j.hist, j.level)
      up == Least(hist, (MaxCount * 4) \div 5)
      down == j.eff - Greatest(1, (j.eff - hist) \div 3)
  IN IF j.level > j.eff
       THEN [j EXCEPT !.hist = hist, !.stable = 0, !.eff = up,
                      !.prefetch = Prefetch(j, up)]
     ELSE IF j.level = j.eff THEN [j EXCEPT !.hist = hist, !.stable = 0]
     ELSE IF j.stable + 1 <= StableLimit
       THEN [j EXCEPT !.hist = hist, !.stable = @ + 1]
     ELSE [j EXCEPT !.hist = 0, !.stable = 0, !.eff = down,
                    !.prefetch = Prefetch(j, down)]

\* The first part of jbuf_update: op is not the operation before it.
Switch(j, op) ==
  LET begins == ~j.processing /\ j.cycle + 1 >= InitCycle /\ op = "get"
      measured == [j EXCEPT !.last_op = op,
                            !.processing = TRUE,
                            !.cycle = IF begins THEN @ + 1 ELSE @,
                            !.level = IF begins THEN Least(@, MaxBurst) ELSE @]
  IN IF ~j.processing /\ ~begins
       THEN [j EXCEPT !.last_op = op, !.cycle = @ + 1, !.level = 0]
     ELSE [IF op = "get" /\ measured.level <= MaxBurst
             THEN CalculateJitter(measured) ELSE measured
           EXCEPT !.level = 0]

Burst(j) == Greatest(j.eff, j.level)

\* jbuf_discard_static: one of the oldest is dropped when the buffer holds
\* more than two bursts and the last one went MinShrinkGap frames ago.
DiscardStatic(b) ==
  LET ref == Least(b.j.ref, b.l.origin)
      l == RemoveHead(b.l, 1)
  IN IF EffSize(b.l) - 2 * Burst(b.j) < 1 THEN b
     ELSE IF b.l.origin - ref < MinShrinkGap
       THEN [b EXCEPT !.j.ref = ref]
     ELSE [b EXCEPT !.l = l, !.j.ref = l.origin]

\* jbuf_discard_progressive: a frame to be discarded is scheduled, the sooner
\* the more of them are above the burst, and goes when the put reaches it.
DiscardTime(burst) ==
  IF burst <= DiscMinBurst THEN DiscT1
  ELSE IF burst >= DiscMaxBurst THEN DiscT2
  ELSE DiscT1 + ((DiscT2 - DiscT1) * (burst - DiscMinBurst))
                  \div (DiscMaxBurst - DiscMinBurst)
\* Mutant: no least gap.
DistanceAny(b) ==
  (DiscardTime(Burst(b.j)) \div (EffSize(b.l) - Burst(b.j))) \div Ptime
Distance(b) ==
  Greatest(MinShrinkGap,
           (DiscardTime(Burst(b.j)) \div (EffSize(b.l) - Burst(b.j))) \div Ptime)
\* Mutant: a frame that was scheduled and has been taken out is marked all
\* the same.
DiscardProgressiveGone(b) ==
  LET ref == IF b.j.dist = 0 THEN LastSeq(b.l) ELSE Least(b.j.ref, LastSeq(b.l))
      at == ref + Distance(b)
  IN IF b.j.last_op # "put" THEN b
     ELSE IF EffSize(b.l) <= Burst(b.j) THEN [b EXCEPT !.j.dist = 0]
     ELSE IF LastSeq(b.l) < at
       THEN [b EXCEPT !.j.ref = ref, !.j.dist = Distance(b)]
     ELSE [b EXCEPT !.l = Discard(b.l, at), !.j.ref = at, !.j.dist = Distance(b)]
DiscardProgressive(b) ==
  LET ref == IF b.j.dist = 0 THEN LastSeq(b.l) ELSE Least(b.j.ref, LastSeq(b.l))
      at == Greatest(ref + Distance(b), b.l.origin)
  IN IF b.j.last_op # "put" THEN b
     ELSE IF EffSize(b.l) <= Burst(b.j) THEN [b EXCEPT !.j.dist = 0]
     ELSE IF LastSeq(b.l) < ref + Distance(b)
       THEN [b EXCEPT !.j.ref = ref, !.j.dist = Distance(b)]
     ELSE [b EXCEPT !.l = Discard(b.l, at), !.j.ref = at, !.j.dist = Distance(b)]

Update(b, op) ==
  LET s == [b EXCEPT !.j = IF @.last_op = op THEN @ ELSE Switch(@, op)]
  IN CASE s.j.processing /\ s.j.discard = "static" -> DiscardStatic(s)
       [] s.j.processing /\ s.j.discard = "progressive" -> DiscardProgressive(s)
       [] OTHER -> s

-----------------------------------------------------------------------------
(* The operations of the library, each from a buffer b to the next.        *)

Reset(b) == [l |-> EmptyRing(InvalidOffset), j |-> ResetJb(b.j)]

PutFrame(b, index, frame) ==
  LET put == PutWithRoom(b.l, index, frame)
      grown == EffSize(put.l) - EffSize(b.l)
  IN IF put.status # "ok" THEN [b EXCEPT !.l = put.l]
     ELSE Update([l |-> put.l,
                  j |-> [b.j EXCEPT
                     !.prefetching = @ /\ EffSize(put.l) < b.j.prefetch,
                     !.level = Least(LevelCap, @ + Greatest(1, grown))]],
                 "put")

GetFrame(b) ==
  LET more == [b.j EXCEPT !.level = Least(LevelCap, @ + 1)]
  IN IF b.j.prefetching THEN Update([l |-> b.l, j |-> more], "get")
     ELSE Update([l |-> TakeHead(b.l),
                  j |-> [more EXCEPT !.prefetching =
                           Head(b.l) = Empty /\ b.j.prefetch # 0]],
                 "get")
\* What the caller of GetFrame is given.
Given(b) == IF b.j.prefetching THEN Prefetching ELSE Head(b.l)

-----------------------------------------------------------------------------
(* What the ring keeps true.                                               *)

InWindow(l) == {Slot(l, d) : d \in 0 .. l.size - 1}

\* The counters of the ring agree with its slots: nothing is left behind
\* outside the part in use (where the loop over discarded frames would never
\* end, and a new frame would be taken for a duplicate), and the frames that
\* are counted as discarded are those that are marked.
Consistent(l) ==
  /\ l.head \in Slots
  /\ l.size \in 0 .. MaxCount
  /\ \A i \in Slots \ InWindow(l) : l.slots[i] = Missing
  /\ l.discarded = Cardinality({i \in Slots : l.slots[i] = Discarded})

\* Of MinShrinkGap frames in a row at most one is marked as discarded.
Apart(l) ==
  \A d, e \in 0 .. l.size - 1 :
    /\ d < e
    /\ l.slots[Slot(l, d)] = Discarded /\ l.slots[Slot(l, e)] = Discarded
    => e - d >= MinShrinkGap
=============================================================================
