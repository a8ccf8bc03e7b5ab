----------------------------- MODULE TimerHeap -----------------------------
(***************************************************************************)
(* The timer heap of pjlib (pjlib/src/pj/timer.c): a binary heap in an      *)
(* array, the array of timer ids that finds an entry in it and threads its  *)
(* unused ids on a free list, and the threads that schedule, cancel and     *)
(* poll.                                                                    *)
(*                                                                          *)
(* What the heap's lock covers is one step.  pc[t] is where thread t holds  *)
(* no lock: between the check of pj_timer_heap_schedule and its locked      *)
(* part, in a callback, and between the end of a callback and the return of *)
(* its id to the free list.  Threads schedule and cancel from outside and   *)
(* from inside callbacks.                                                   *)
(*                                                                          *)
(* A read past the end of timer_ids raises overrun: what the program does   *)
(* from then on is undefined and not modelled.                              *)
(***************************************************************************)
EXTENDS Integers, FiniteSets, SequencesExt

CONSTANTS Entries,     \* timer entries
          Threads,     \* threads that use the heap
          Groups,      \* group locks that timers may be scheduled with
          NoGroup,     \* "scheduled without a group lock"
          Null,        \* "none"
          Size,        \* the count given to pj_timer_heap_create
          Delays,      \* delays that timers are scheduled with
          MaxPerPoll,  \* max_entries_per_poll
          Serialised,  \* the users of an entry take turns to schedule it
          MaxNow       \* bound on the clock

ASSUME SizeAssumption == Size \in Nat /\ MaxPerPoll \in Nat \ {0} /\ MaxNow \in Nat
ASSUME DelaysAssumption == Delays \subseteq Nat
ASSUME SerialisedAssumption == Serialised \in BOOLEAN

VARIABLES ht,       \* struct pj_timer_heap_t, with _timer_id and _timer_value
          grpLock,  \* _grp_lock of each entry
          refs,     \* references that timers hold on each group lock
          overrun,  \* timer_ids was read past its end
          now,      \* pj_gettickcount
          pc

vars == <<ht, grpLock, refs, overrun, now, pc>>
-----------------------------------------------------------------------------
(* The array.  heap is a function on its used slots; slots count from 0.    *)
CurSize(h) == Cardinality(DOMAIN h.heap)
Parent(slot) == IF slot = 0 THEN 0 ELSE (slot - 1) \div 2
Left(slot) == 2 * slot + 1
Value(h, slot) == h.value[h.heap[slot]]

CopyNode(h, slot, node) ==
  [h EXCEPT !.heap = [s \in DOMAIN @ \cup {slot} |-> IF s = slot THEN node ELSE @[s]],
            !.ids[h.tid[node]] = slot]

(* The ids: an unused one holds the next unused one, negated. *)
CanPop(h) == h.free \in DOMAIN h.ids
PopFreelist(h) == [h EXCEPT !.free = -h.ids[h.free]]
PushFreelist(h, id) == [h EXCEPT !.ids[id] = -h.free, !.free = id]

(* The slots that a node passes on its way: it ends in the last of them,    *)
(* and each entry it passes moves one slot along the path.                  *)
Shift(h, node, path) ==
  FoldLeftDomain(LAMBDA acc, i : CopyNode(acc, path[i],
                                   IF i < Len(path) THEN h.heap[path[i + 1]] ELSE node),
                 h, path)

ReheapUp(h, node, slot) ==
  LET path[s \in 0..slot] ==
        IF s > 0 /\ h.value[node] < Value(h, Parent(s))
        THEN <<s>> \o path[Parent(s)] ELSE <<s>>
  IN  Shift(h, node, path[slot])

SmallerChild(h, slot) ==
  LET c == Left(slot)
  IN  IF c + 1 < CurSize(h) /\ Value(h, c + 1) < Value(h, c) THEN c + 1 ELSE c

ReheapDown(h, node, slot) ==
  LET path[s \in 0 .. CurSize(h) - 1] ==
        IF Left(s) < CurSize(h) /\ Value(h, SmallerChild(h, s)) < h.value[node]
        THEN <<s>> \o path[SmallerChild(h, s)] ELSE <<s>>
  IN  Shift(h, node, path[slot])

(* Mutant: the entry that fills the hole only ever sinks. *)
RefillDown(h, node, slot) == ReheapDown(h, node, slot)

(* The last entry fills the hole; it may have come from another branch, and *)
(* then belong above the hole.                                              *)
Refill(h, node, slot) ==
  IF h.value[node] >= Value(h, Parent(slot)) THEN ReheapDown(h, node, slot)
                                             ELSE ReheapUp(h, node, slot)

RemoveNode(h, slot) ==
  LET node == h.heap[slot]
      last == CurSize(h) - 1
      cut == [PushFreelist(h, h.tid[node])
                EXCEPT !.tid[node] = -1, !.heap = [s \in DOMAIN @ \ {last} |-> @[s]]]
  IN  IF slot = last THEN cut
      ELSE Refill(CopyNode(cut, slot, h.heap[last]), h.heap[last], slot)

(* Mutant: the new ids are not linked to one another. *)
GrowHeapUnlinked(h) ==
  [h EXCEPT !.max = 2 * @,
            !.ids = [i \in 0 .. 2 * h.max - 1 |-> IF i < h.max THEN @[i] ELSE -i]]

GrowHeap(h) ==
  [h EXCEPT !.max = 2 * @,
            !.ids = [i \in 0 .. 2 * h.max - 1 |-> IF i < h.max THEN @[i] ELSE -(i + 1)]]

InsertNode(h, node) ==
  LET g == IF CurSize(h) + 2 >= h.max THEN GrowHeap(h) ELSE h
  IN  ReheapUp(g, node, CurSize(g))

ScheduleEntry(h, node, value) ==
  InsertNode([PopFreelist(h) EXCEPT !.tid[node] = h.free, !.value[node] = value], node)

(* The part of cancel that decides: the entry is in the slot its id names.  *)
Found(h, e) ==
  /\ h.tid[e] \in 0 .. h.max
  /\ h.ids[h.tid[e]] >= 0
  /\ h.heap[h.ids[h.tid[e]]] = e

CancelEntry(h, e) ==
  IF Found(h, e) THEN RemoveNode(h, h.ids[h.tid[e]]) ELSE [h EXCEPT !.tid[e] = -1]
-----------------------------------------------------------------------------
AddRef(r, g) == IF g = NoGroup THEN r ELSE [r EXCEPT ![g] = @ + 1]
DecRef(r, g) == IF g = NoGroup THEN r ELSE [r EXCEPT ![g] = @ - 1]

(* The end of cancel_timer: the reference goes, and with it the pointer. *)
ReleaseGroup(e) ==
  /\ refs' = DecRef(refs, grpLock[e])
  /\ grpLock' = [grpLock EXCEPT ![e] = NoGroup]

Idle == [at |-> "idle", request |-> Null, call |-> Null, snap |-> 0, count |-> 0]

(* Where a thread may call the heap: in its own code or in a callback. *)
Free(t) == ~overrun /\ pc[t].at \in {"idle", "callback"} /\ pc[t].request = Null

Init ==
  /\ ht = [max |-> Size + 2, heap |-> << >>, free |-> 1,
           ids |-> [i \in 0 .. Size + 1 |-> -(i + 1)],
           tid |-> [e \in Entries |-> -1], value |-> [e \in Entries |-> 0]]
  /\ grpLock = [e \in Entries |-> NoGroup]
  /\ refs = [g \in Groups |-> 0]
  /\ overrun = FALSE /\ now = 0
  /\ pc = [t \in Threads |-> Idle]

(* Mutant: whether the entry is scheduled already is not looked at. *)
CheckScheduleAny(t, e, d, g) ==
  /\ Free(t) /\ now < MaxNow
  /\ Serialised => \A u \in Threads : pc[u].request # Null => pc[u].request.entry # e
  /\ pc' = [pc EXCEPT ![t].request = [entry |-> e, value |-> now + d, grp |-> g]]
  /\ UNCHANGED <<ht, grpLock, refs, overrun, now>>

(* pj_timer_heap_schedule before it takes the lock.  Users of one entry     *)
(* that take turns (with a lock of their own) do not overlap here.          *)
CheckSchedule(t, e, d, g) ==
  /\ Free(t) /\ now < MaxNow
  /\ ht.tid[e] < 1
  /\ Serialised => \A u \in Threads : pc[u].request # Null => pc[u].request.entry # e
  /\ pc' = [pc EXCEPT ![t].request = [entry |-> e, value |-> now + d, grp |-> g]]
  /\ UNCHANGED <<ht, grpLock, refs, overrun, now>>

(* ... and with the lock. *)
Schedule(t) ==
  LET r == pc[t].request
  IN  /\ ~overrun /\ r # Null
      /\ CanPop(ht)
      /\ ht' = ScheduleEntry(ht, r.entry, r.value)
      /\ grpLock' = [grpLock EXCEPT ![r.entry] = r.grp]
      /\ refs' = AddRef(refs, r.grp)
      /\ pc' = [pc EXCEPT ![t].request = Null]
      /\ UNCHANGED <<overrun, now>>

(* The free list is read before the heap is grown. *)
ScheduleOverrun(t) ==
  /\ ~overrun /\ pc[t].request # Null
  /\ ~CanPop(ht)
  /\ overrun' = TRUE
  /\ UNCHANGED <<ht, grpLock, refs, now, pc>>

(* pj_timer_heap_cancel, pj_timer_heap_cancel_if_active. *)
Cancel(t, e) ==
  /\ Free(t)
  /\ ht' = CancelEntry(ht, e)
  /\ ReleaseGroup(e)
  /\ UNCHANGED <<overrun, now, pc>>

(* Mutant: whether it has expired is not looked at. *)
CanExpireAny(h, snap, count) == CurSize(h) > 0 /\ count < MaxPerPoll

(* One turn of the loop of pj_timer_heap_poll: the earliest entry, if it    *)
(* has expired, is taken out and its callback called without the lock; its  *)
(* id stays out of the free list.                                           *)
CanExpire(h, snap, count) ==
  CurSize(h) > 0 /\ Value(h, 0) <= snap /\ count < MaxPerPoll

Turn(t, h, snap, count) ==
  IF CanExpire(h, snap, count)
  THEN LET e == h.heap[0]
           removed == RemoveNode(h, 0)
       IN  /\ ht' = PopFreelist(removed)
           /\ grpLock' = [grpLock EXCEPT ![e] = NoGroup]
           /\ pc' = [pc EXCEPT ![t] =
                       [at |-> "callback", request |-> Null, snap |-> snap, count |-> count + 1,
                        call |-> [entry |-> e, grp |-> grpLock[e], id |-> removed.free]]]
  ELSE /\ ht' = h
       /\ pc' = [pc EXCEPT ![t] = Idle]
       /\ UNCHANGED grpLock

Poll(t) ==
  /\ ~overrun /\ pc[t] = Idle
  /\ CanExpire(ht, now, 0)
  /\ Turn(t, ht, now, 0)
  /\ UNCHANGED <<refs, overrun, now>>

(* Mutant: the callback's reference is not given back. *)
CallbackReturnsKeeps(t) ==
  /\ Free(t) /\ pc[t].at = "callback"
  /\ pc' = [pc EXCEPT ![t].at = "relock"]
  /\ UNCHANGED <<ht, grpLock, refs, overrun, now>>

(* The callback has returned: the reference goes first, without the lock. *)
CallbackReturns(t) ==
  /\ Free(t) /\ pc[t].at = "callback"
  /\ refs' = DecRef(refs, pc[t].call.grp)
  /\ pc' = [pc EXCEPT ![t].at = "relock"]
  /\ UNCHANGED <<ht, grpLock, overrun, now>>

GiveBack(h, id) == PushFreelist(h, id)

PollNext(t) ==
  /\ ~overrun /\ pc[t].at = "relock"
  /\ Turn(t, GiveBack(ht, pc[t].call.id), pc[t].snap, pc[t].count)
  /\ UNCHANGED <<refs, overrun, now>>

Tick ==
  /\ ~overrun /\ now < MaxNow /\ now' = now + 1
  /\ UNCHANGED <<ht, grpLock, refs, overrun, pc>>

(* After the overrun nothing is modelled. *)
Undefined == overrun /\ UNCHANGED vars

Next ==
  \/ \E t \in Threads, e \in Entries, d \in Delays, g \in Groups \cup {NoGroup} :
       CheckSchedule(t, e, d, g)
  \/ \E t \in Threads : Schedule(t)
  \/ \E t \in Threads : ScheduleOverrun(t)
  \/ \E t \in Threads, e \in Entries : Cancel(t, e)
  \/ \E t \in Threads : Poll(t)
  \/ \E t \in Threads : CallbackReturns(t)
  \/ \E t \in Threads : PollNext(t)
  \/ Tick
  \/ Undefined

Spec == Init /\ [][Next]_vars
-----------------------------------------------------------------------------
(* Properties.                                                              *)
InHeap == {ht.heap[s] : s \in DOMAIN ht.heap}
Held == {pc[t].call.id : t \in {u \in Threads : pc[u].call # Null}}
FreeIds == {i \in 1 .. ht.max - 1 : ht.ids[i] < 0} \ Held

(* The array is a heap: no entry expires before its parent.  Removing an    *)
(* entry from the middle (a cancellation) is where this could go wrong.     *)
(* And the ids find the entries: each entry of the array is in the slot its *)
(* id names, and only those entries have an id.  Otherwise a cancellation   *)
(* removes another timer, or none.                                          *)
ArrayWhole ==
  /\ \A s \in DOMAIN ht.heap : Value(ht, Parent(s)) <= Value(ht, s)
  /\ \A s \in DOMAIN ht.heap : ht.tid[ht.heap[s]] > 0 /\ ht.ids[ht.tid[ht.heap[s]]] = s
  /\ \A e \in Entries \ InHeap : ht.tid[e] = -1

(* The free list threads through every id that neither a timer nor a        *)
(* callback has, once, and ends at the end of timer_ids, where the ids of   *)
(* the next growth join it: no id is lost, none is handed out twice.        *)
FreelistWhole ==
  LET n == Cardinality(FreeIds)
      link[k \in 0 .. n] == IF k = 0 THEN ht.free ELSE -ht.ids[link[k - 1]]
  IN  /\ {link[k] : k \in 0 .. n - 1} = FreeIds
      /\ link[n] = ht.max

(* pj_timer_heap_create: "If the application registers more entries during  *)
(* runtime, then the timer heap will resize" (timer.h:151), so that there   *)
(* is an id for every timer.                                                *)
AlwaysAnId == ~overrun

(* "Prevent same entry from being scheduled more than once" (timer.c:504):  *)
(* an entry is in one slot at most.                                         *)
ScheduledOnce == \A s, r \in DOMAIN ht.heap : ht.heap[s] = ht.heap[r] => s = r

(* The heap keeps the promises of TimerService.                             *)
LatestTime == MaxNow + (CHOOSE d \in Delays : \A c \in Delays : c <= d)

Service == INSTANCE TimerService WITH
  NoCall <- Null, Times <- 0 .. LatestTime,
  pending <- [e \in InHeap |-> [value |-> ht.value[e], grp |-> grpLock[e]]],
  calls <- [t \in Threads |-> IF pc[t].at = "callback"
                              THEN [entry |-> pc[t].call.entry, grp |-> pc[t].call.grp]
                              ELSE Null]

ImplementsService == Service!Spec

(* The references that timers hold on a group lock are those of the entries *)
(* in the heap and of the callbacks that run, no fewer (the object would be *)
(* destroyed under them) and no more (it would never be destroyed), however *)
(* the heap moves its entries (schedule, cancel and poll of timer.c).       *)
RefsExact == Service!RefsExact
=============================================================================
