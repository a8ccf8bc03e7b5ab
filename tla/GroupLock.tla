----------------------------- MODULE GroupLock -----------------------------
(***************************************************************************)
(* The group lock of pjlib (pjlib/src/pj/lock.c): a list of recursive       *)
(* mutexes that are taken in order and given back in reverse, a reference   *)
(* count that each acquisition raises, and handlers that are called when    *)
(* the count drops to zero.  Other locks may join the list and leave it.    *)
(*                                                                          *)
(* Each mutex is taken and given back in a step of its own; lck, where      *)
(* grp_lock_acquire and grp_lock_release are in the list, is followed from  *)
(* item to item as in the code, while other threads may change the list.    *)
(***************************************************************************)
EXTENDS Integers, FiniteSets, SequencesExt

CONSTANTS Threads,     \* threads that share the group lock
          Creator,     \* the one that created it
          Externals,   \* locks of others that may be chained
          Prio,        \* pos of pj_grp_lock_chain_lock for each of them
          NoThread,    \* "no owner"
          End,         \* &glock->lock_list: the end of the list either way
          OwnLock,     \* glock->own_lock
          Chained,     \* those that are chained before the group is shared
          Joining,     \* those that join and leave while it is shared
          MaxDepth,    \* bound: nested acquisitions of one thread
          MaxGrants,   \* bound: references one thread is given
          MaxHandlers  \* bound: destroy handlers

Locks == {OwnLock} \cup Externals

ASSUME ThreadsAssumption == IsFiniteSet(Threads) /\ IsFiniteSet(Externals)
ASSUME CreatorAssumption == Creator \in Threads /\ NoThread \notin Threads
ASSUME LocksAssumption == OwnLock \notin Externals /\ End \notin Locks
ASSUME PrioAssumption == Prio \in [Externals -> Int]
ASSUME JoinAssumption == Chained \subseteq Externals /\ Joining \subseteq Externals
ASSUME BoundAssumption == {MaxDepth, MaxHandlers} \subseteq Nat /\ MaxGrants \in Nat \ {0}

VARIABLES mutex,     \* each lock's owner and how often it has it
          list,      \* lock_list
          ref,       \* ref_cnt
          owner,     \* owner and owner_cnt
          alive,     \* glock->pool is not NULL
          handlers,  \* destroy_list
          called,    \* the handlers that have been called, in order
          grants,    \* references each thread has been given
          inside,    \* acquisitions each thread has completed, not released
          outside,   \* external locks each thread has taken on its own account
          pc         \* the call each thread is in

vars == <<mutex, list, ref, owner, alive, handlers, called, grants, inside, outside, pc>>
object == <<ref, owner, alive, handlers, called, grants, inside, outside>>
-----------------------------------------------------------------------------
(* The list.  pj_list_erase links the item it takes out to itself.          *)
InList(l) == Contains(list, l)
(* Mutant: locks of higher pos come first. *)
PosReversed(l) == IF l = OwnLock THEN 0 ELSE -Prio[l]

PosOf(l) == IF l = OwnLock THEN 0 ELSE Prio[l]
IndexOf(l) == CHOOSE i \in DOMAIN list : list[i] = l

After(l) ==
  IF ~InList(l) THEN l
  ELSE IF IndexOf(l) = Len(list) THEN End ELSE list[IndexOf(l) + 1]

Before(l) ==
  IF ~InList(l) THEN l
  ELSE IF IndexOf(l) = 1 THEN End ELSE list[IndexOf(l) - 1]

(* Locks of one pos stand in the order of their chaining. *)
InitialLists ==
  LET S == {OwnLock} \cup Chained
  IN  {s \in Bijection(1 .. Cardinality(S), S) :
         \A i, j \in DOMAIN s : i < j => PosOf(s[i]) <= PosOf(s[j])}

(* A recursive mutex; giving back somebody else's is refused. *)
CanTake(t, l) == mutex[l].owner \in {NoThread, t}
Take(t, l, n) == [mutex EXCEPT ![l] = [owner |-> t, cnt |-> @.cnt + n]]
Give(t, l, n) ==
  IF mutex[l].owner # t THEN mutex
  ELSE [mutex EXCEPT ![l] = IF @.cnt > n THEN [owner |-> t, cnt |-> @.cnt - n]
                                         ELSE [owner |-> NoThread, cnt |-> 0]]

Ready == [at |-> "ready", lck |-> End, op |-> "none", arg |-> End]
Goto(t, place, l) == pc' = [pc EXCEPT ![t].at = place, ![t].lck = l]

(* Whoever calls has a reference of its own, or is inside. *)
MayUse(t) == pc[t] = Ready /\ (grants[t] > 0 \/ inside[t] > 0)

(* Who takes locks by hand keeps to the order of pos: what comes after the  *)
(* group lock is not held by a thread that enters the group.                *)
InOrder(t) == \A l \in outside[t] : inside[t] = 0 => Prio[l] < 0

(* pj_grp_lock_create makes a count of 0, and everyone in the repository    *)
(* calls pj_grp_lock_add_ref next.                                          *)
Init ==
  /\ mutex = [l \in Locks |-> [owner |-> NoThread, cnt |-> 0]]
  /\ list \in InitialLists
  /\ ref = 1
  /\ owner = [thread |-> NoThread, cnt |-> 0]
  /\ alive = TRUE
  /\ handlers = << >> /\ called = << >>
  /\ grants = [t \in Threads |-> IF t = Creator THEN 1 ELSE 0]
  /\ inside = [t \in Threads |-> 0]
  /\ outside = [t \in Threads |-> {}]
  /\ pc = [t \in Threads |-> Ready]
-----------------------------------------------------------------------------
(* A call that begins with grp_lock_acquire (at "acquire"), or              *)
(* grp_lock_tryacquire ("try").  op is what the function does inside.       *)
Begin(t, place, op, arg) ==
  /\ MayUse(t) /\ InOrder(t)
  /\ inside[t] < MaxDepth
  /\ pc' = [pc EXCEPT ![t] = [at |-> place, lck |-> list[1], op |-> op, arg |-> arg]]
  /\ UNCHANGED <<mutex, list, object>>

TakeNext(t) ==
  /\ pc[t].at \in {"acquire", "try"} /\ pc[t].lck # End
  /\ CanTake(t, pc[t].lck)
  /\ mutex' = Take(t, pc[t].lck, 1)
  /\ Goto(t, pc[t].at, After(pc[t].lck))
  /\ UNCHANGED <<list, object>>

(* Mutant: a lock that is busy is passed over. *)
TryPasses(t) ==
  /\ pc[t].at = "try" /\ pc[t].lck # End
  /\ ~CanTake(t, pc[t].lck)
  /\ Goto(t, "try", After(pc[t].lck))
  /\ UNCHANGED <<mutex, list, object>>

(* grp_lock_tryacquire gives back what it has taken. *)
TryFails(t) ==
  /\ pc[t].at = "try" /\ pc[t].lck # End
  /\ ~CanTake(t, pc[t].lck)
  /\ Goto(t, "undo", Before(pc[t].lck))
  /\ UNCHANGED <<mutex, list, object>>

(* Mutant: the mutexes are taken, the reference is not. *)
EnterUncounted(t) ==
  /\ pc[t].at \in {"acquire", "try"} /\ pc[t].lck = End
  /\ owner' = (IF owner.thread = NoThread THEN [thread |-> t, cnt |-> 1]
                                          ELSE [owner EXCEPT !.cnt = @ + 1])
  /\ inside' = [inside EXCEPT ![t] = @ + 1]
  /\ pc' = [pc EXCEPT ![t] = IF @.op = "none" THEN Ready ELSE [@ EXCEPT !.at = "body"]]
  /\ UNCHANGED <<mutex, list, ref, alive, handlers, called, grants, outside>>

(* grp_lock_set_owner_thread, pj_grp_lock_add_ref. *)
Enter(t) ==
  /\ pc[t].at \in {"acquire", "try"} /\ pc[t].lck = End
  /\ owner' = (IF owner.thread = NoThread THEN [thread |-> t, cnt |-> 1]
                                          ELSE [owner EXCEPT !.cnt = @ + 1])
  /\ inside' = [inside EXCEPT ![t] = @ + 1]
  /\ ref' = ref + 1
  /\ pc' = [pc EXCEPT ![t] = IF @.op = "none" THEN Ready ELSE [@ EXCEPT !.at = "body"]]
  /\ UNCHANGED <<mutex, list, alive, handlers, called, grants, outside>>

(* The mutex is given back before its item is left. *)
GiveNext(t) ==
  /\ pc[t].at \in {"release", "undo"} /\ pc[t].lck # End
  /\ mutex' = Give(t, pc[t].lck, 1)
  /\ Goto(t, pc[t].at, Before(pc[t].lck))
  /\ UNCHANGED <<list, object>>

Undone(t) ==
  /\ pc[t].at = "undo" /\ pc[t].lck = End
  /\ pc' = [pc EXCEPT ![t] = Ready]
  /\ UNCHANGED <<mutex, list, object>>

(* grp_lock_release, up to its first mutex. *)
Leave(t) ==
  /\ owner' = (IF owner.cnt > 1 THEN [owner EXCEPT !.cnt = @ - 1]
                                ELSE [thread |-> NoThread, cnt |-> 0])
  /\ inside' = [inside EXCEPT ![t] = @ - 1]

Release(t) ==
  /\ pc[t] = Ready /\ inside[t] > 0
  /\ Leave(t)
  /\ Goto(t, "release", Last(list))
  /\ UNCHANGED <<mutex, list, ref, alive, handlers, called, grants, outside>>

(* What the functions do that take the lock for themselves, and give it     *)
(* back: the release starts with the list as they have left it.             *)
Finish(t, newList) ==
  /\ list' = newList
  /\ Leave(t)
  /\ Goto(t, "release", Last(newList))
  /\ UNCHANGED <<ref, alive, called, grants, outside>>

Slot(l) == Cardinality({i \in DOMAIN list : PosOf(list[i]) < Prio[l]}) + 1

(* pj_grp_lock_chain_lock takes the new lock as often as the owner is       *)
(* inside, waiting for it if it must.                                       *)
ChainLock(t) ==
  /\ pc[t].at = "body" /\ pc[t].op = "chain"
  /\ CanTake(t, pc[t].arg)
  /\ mutex' = Take(t, pc[t].arg, owner.cnt)
  /\ Finish(t, InsertAt(list, Slot(pc[t].arg), pc[t].arg))
  /\ UNCHANGED handlers

(* Mutant: the lock is given back once, however often it was taken. *)
UnchainOnce(t) ==
  /\ pc[t].at = "body" /\ pc[t].op = "unchain"
  /\ IF InList(pc[t].arg)
     THEN /\ mutex' = Give(t, pc[t].arg, 1)
          /\ Finish(t, RemoveAt(list, IndexOf(pc[t].arg)))
     ELSE UNCHANGED mutex /\ Finish(t, list)
  /\ UNCHANGED handlers

UnchainLock(t) ==
  /\ pc[t].at = "body" /\ pc[t].op = "unchain"
  /\ IF InList(pc[t].arg)
     THEN /\ mutex' = Give(t, pc[t].arg, owner.cnt)
          /\ Finish(t, RemoveAt(list, IndexOf(pc[t].arg)))
     ELSE UNCHANGED mutex /\ Finish(t, list)
  /\ UNCHANGED handlers

AddHandler(t) ==
  /\ pc[t].at = "body" /\ pc[t].op = "add_handler"
  /\ handlers' = Append(handlers, pc[t].arg)
  /\ Finish(t, list)
  /\ UNCHANGED mutex

DelHandler(t) ==
  /\ pc[t].at = "body" /\ pc[t].op = "del_handler"
  /\ handlers' = RemoveFirst(handlers, pc[t].arg)
  /\ Finish(t, list)
  /\ UNCHANGED mutex
-----------------------------------------------------------------------------
(* A thread that may use the lock gives a reference to another, or to       *)
(* itself: pj_grp_lock_add_ref.                                             *)
AddRef(t, u) ==
  /\ MayUse(t) /\ grants[u] < MaxGrants
  /\ ref' = ref + 1
  /\ grants' = [grants EXCEPT ![u] = @ + 1]
  /\ UNCHANGED <<mutex, list, owner, alive, handlers, called, inside, outside, pc>>

(* pj_grp_lock_dec_ref, of a reference the thread has been given.           *)
GiveUp(t) ==
  /\ pc[t] = Ready /\ grants[t] > 0
  /\ grants' = [grants EXCEPT ![t] = @ - 1]
  /\ Goto(t, "dec_ref", End)
  /\ UNCHANGED <<mutex, list, ref, owner, alive, handlers, called, inside, outside>>

(* grp_lock_dec_ref, also at the end of a release; the last reference calls *)
(* the handlers (grp_lock_destroy, with nobody inside).                     *)
DecRef(t) ==
  /\ pc[t].at \in {"release", "dec_ref"} /\ pc[t].lck = End
  /\ ref' = ref - 1
  /\ pc' = [pc EXCEPT ![t] = Ready]
  /\ IF ref' = 0 /\ alive THEN alive' = FALSE /\ called' = called \o handlers
                          ELSE UNCHANGED <<alive, called>>
  /\ UNCHANGED <<mutex, list, owner, handlers, grants, inside, outside>>

(* The owner of an external lock takes it and gives it back on its own: one *)
(* of negative pos before it enters the group, or again inside.             *)
WantExternal(t, l) ==
  /\ pc[t] = Ready /\ l \notin outside[t]
  /\ inside[t] > 0 /\ Prio[l] < 0 => InList(l)
  /\ \A k \in outside[t] : Prio[k] < Prio[l]
  /\ pc' = [pc EXCEPT ![t] = [Ready EXCEPT !.at = "want", !.arg = l]]
  /\ UNCHANGED <<mutex, list, object>>

TakeExternal(t) ==
  /\ pc[t].at = "want" /\ CanTake(t, pc[t].arg)
  /\ mutex' = Take(t, pc[t].arg, 1)
  /\ outside' = [outside EXCEPT ![t] = @ \cup {pc[t].arg}]
  /\ pc' = [pc EXCEPT ![t] = Ready]
  /\ UNCHANGED <<list, ref, owner, alive, handlers, called, grants, inside>>

GiveExternal(t, l) ==
  /\ pc[t] = Ready /\ l \in outside[t]
  /\ mutex' = Give(t, l, 1)
  /\ outside' = [outside EXCEPT ![t] = @ \ {l}]
  /\ UNCHANGED <<list, ref, owner, alive, handlers, called, grants, inside, pc>>

(* A lock that has left the list joins it again only when nobody is still   *)
(* at its old item.                                                         *)
MayChain(l) == ~InList(l) /\ \A u \in Threads : l \notin {pc[u].lck, pc[u].arg}

Acquire(t) == Begin(t, "acquire", "none", End)
TryAcquire(t) == Begin(t, "try", "none", End)
Chain(t, l) == MayChain(l) /\ Begin(t, "acquire", "chain", l)
Unchain(t, l) == Begin(t, "acquire", "unchain", l)
CallAddHandler(t, h) == ~Contains(handlers, h) /\ Begin(t, "acquire", "add_handler", h)
CallDelHandler(t, h) == Begin(t, "acquire", "del_handler", h)

(* Everybody has given up its references. *)
Gone == ~alive /\ (\A t \in Threads : pc[t] = Ready) /\ UNCHANGED vars

Next ==
  \/ \E t \in Threads : Acquire(t)
  \/ \E t \in Threads : TryAcquire(t)
  \/ \E t \in Threads, l \in Joining : Chain(t, l)
  \/ \E t \in Threads, l \in Joining : Unchain(t, l)
  \/ \E t \in Threads, h \in 1 .. MaxHandlers : CallAddHandler(t, h)
  \/ \E t \in Threads, h \in 1 .. MaxHandlers : CallDelHandler(t, h)
  \/ \E t \in Threads : TakeNext(t)
  \/ \E t \in Threads : TryFails(t)
  \/ \E t \in Threads : Enter(t)
  \/ \E t \in Threads : GiveNext(t)
  \/ \E t \in Threads : Undone(t)
  \/ \E t \in Threads : Release(t)
  \/ \E t \in Threads : ChainLock(t)
  \/ \E t \in Threads : UnchainLock(t)
  \/ \E t \in Threads : AddHandler(t)
  \/ \E t \in Threads : DelHandler(t)
  \/ \E t, u \in Threads : AddRef(t, u)
  \/ \E t \in Threads : GiveUp(t)
  \/ \E t \in Threads : DecRef(t)
  \/ \E t \in Threads, l \in Externals : WantExternal(t, l)
  \/ \E t \in Threads : TakeExternal(t)
  \/ \E t \in Threads, l \in Externals : GiveExternal(t, l)
  \/ Gone

Spec == Init /\ [][Next]_vars
-----------------------------------------------------------------------------
(* Properties.                                                              *)
TypeOK ==
  /\ mutex \in [Locks -> [owner: Threads \cup {NoThread}, cnt: Nat]]
  /\ list \in Seq(Locks)
  /\ ref \in Nat
  /\ owner \in [thread: Threads \cup {NoThread}, cnt: Nat]
  /\ alive \in BOOLEAN
  /\ handlers \in Seq(1 .. MaxHandlers) /\ called \in Seq(1 .. MaxHandlers)
  /\ grants \in [Threads -> 0 .. MaxGrants]
  /\ inside \in [Threads -> 0 .. MaxDepth]
  /\ outside \in [Threads -> SUBSET Externals]
  /\ \A t \in Threads : pc[t].lck \in Locks \cup {End}

(* pj_grp_lock_chain_lock: a chained lock is one of the "locks to be        *)
(* acquired by the group lock when the group lock is acquired"              *)
(* (lock.h:389): who is inside has every lock of the list.                  *)
(* Nor does a thread give back a mutex that is not its own.                 *)
HoldsWhatItUses ==
  /\ \A t \in Threads : inside[t] > 0 => \A i \in DOMAIN list : mutex[list[i]].owner = t
  /\ \A t \in Threads : pc[t].at \in {"release", "undo"} /\ pc[t].lck # End
                         => mutex[pc[t].lck].owner = t

(* The count is that of the references given and of the acquisitions,       *)
(* whose release has not come to its end.                                   *)
Granted == {r \in Threads \X (1 .. MaxGrants) : r[2] <= grants[r[1]]}
Entered == {r \in Threads \X (1 .. MaxDepth) : r[2] <= inside[r[1]]}
Leaving == {t \in Threads : pc[t].at \in {"release", "dec_ref"}}

RefsExact == ref = Cardinality(Granted) + Cardinality(Entered) + Cardinality(Leaving)

(* Session management: "to make sure that the resource is not destroyed     *)
(* while others are still using or about to use it" (lock.h:168): the lock  *)
(* is there as long as a thread has a reference or is in a call, and when   *)
(* it goes its handlers are called once, in the order of their              *)
(* registration, with no mutex of the group held on the group's account.    *)
DestroyedOnce ==
  /\ called = (IF alive THEN << >> ELSE handlers)
  /\ ~alive =>
       /\ \A t \in Threads :
            pc[t].at \in {"ready", "want"} /\ grants[t] = 0 /\ inside[t] = 0
       /\ \A l \in Locks :
            mutex[l].cnt = Cardinality({t \in Threads : l \in outside[t]})

(* Lock coordination: "to provide uniform lock ordering among more than one *)
(* lock objects, which is necessary to avoid deadlock" (lock.h:170): no set *)
(* of threads waits for locks that the others of the set have.              *)
WaitsFor(t, S) ==
  LET l == IF pc[t].at = "acquire" THEN pc[t].lck
           ELSE IF pc[t].at = "want" \/ (pc[t].at = "body" /\ pc[t].op = "chain") THEN pc[t].arg
           ELSE End
  IN  l # End /\ mutex[l].owner \in S \ {t}

NoDeadlock == \A S \in SUBSET Threads : S # {} => \E t \in S : ~WaitsFor(t, S)
=============================================================================
