-------------------------- MODULE GroupLock_proofs --------------------------
(***************************************************************************)
(* For any number of threads and of chained locks: the group lock counts    *)
(* who relies on it, its handlers are called once and when nobody does, and *)
(* a thread that is inside has every lock of the list.                      *)
(*                                                                          *)
(* The last needs a list whose first lock stays its first: a thread that    *)
(* waits for the first lock has none of the others, and what is chained     *)
(* before it meanwhile it never takes.                                      *)
(***************************************************************************)
EXTENDS GroupLock, FiniteSetTheorems, SequenceTheorems, TLAPS

IsFirst(f) ==
  /\ f \in ({OwnLock} \cup Chained) \ Joining
  /\ \A l \in ({OwnLock} \cup Chained \cup Joining) \ {f} : PosOf(f) < PosOf(l)

FirstStays == \E f \in Locks : IsFirst(f)
-----------------------------------------------------------------------------
(* The types, and what a call has found when it began.                      *)
Places == {"ready", "acquire", "try", "undo", "body", "release", "dec_ref", "want"}
Ops == {"none", "chain", "unchain", "add_handler", "del_handler"}
Calls == [at: Places, lck: Locks \cup {End}, op: Ops,
          arg: Locks \cup {End} \cup (1 .. MaxHandlers)]

Begun(t) ==
  /\ pc[t].at \in {"acquire", "try"} => inside[t] < MaxDepth
  /\ pc[t].at = "body" => inside[t] > 0
  /\ pc[t].at = "want" => pc[t].arg \in Externals
  /\ pc[t].op \in {"chain", "unchain"} => pc[t].arg \in Joining
  /\ pc[t].op \in {"add_handler", "del_handler"} => pc[t].arg \in 1 .. MaxHandlers

Typed ==
  /\ mutex \in [Locks -> [owner: Threads \cup {NoThread}, cnt: Nat]]
  /\ list \in Seq(Locks) /\ InList(OwnLock)
  /\ ref \in Int
  /\ owner \in [thread: Threads \cup {NoThread}, cnt: Nat]
  /\ alive \in BOOLEAN
  /\ handlers \in Seq(1 .. MaxHandlers) /\ called \in Seq(1 .. MaxHandlers)
  /\ grants \in [Threads -> 0 .. MaxGrants]
  /\ inside \in [Threads -> 0 .. MaxDepth]
  /\ outside \in [Threads -> SUBSET Externals]
  /\ pc \in [Threads -> Calls]
  /\ \A t \in Threads : Begun(t)
-----------------------------------------------------------------------------
(* What counts: references, and the calls that need one.  Who is in a call  *)
(* has a reference of its own, or is inside.                                *)
Entitled(t) ==
  pc[t].at \in {"acquire", "try", "undo", "body"} => grants[t] > 0 \/ inside[t] > 0

Counted ==
  /\ \A t \in Threads : Entitled(t)
  /\ RefsExact
  /\ alive <=> ref > 0
  /\ called = IF alive THEN << >> ELSE handlers
-----------------------------------------------------------------------------
(* Who has which mutex, and how often.                                      *)

(* t has taken l on its way in, or not yet given it back on its way out.    *)
Passing(t, l) ==
  /\ InList(l)
  /\ \/ /\ pc[t].at \in {"acquire", "try"}
        /\ pc[t].lck # End => IndexOf(l) < IndexOf(pc[t].lck)
     \/ /\ pc[t].at \in {"release", "undo"}
        /\ pc[t].lck # End
        /\ IndexOf(l) <= IndexOf(pc[t].lck)

Times(t, l) ==
  (IF InList(l) THEN inside[t] ELSE 0) + (IF Passing(t, l) THEN 1 ELSE 0)
  + (IF l \in outside[t] THEN 1 ELSE 0)

MutexExact ==
  \A l \in Locks :
    /\ mutex[l].owner = NoThread => mutex[l].cnt = 0
    /\ \A t \in Threads : Times(t, l) = IF mutex[l].owner = t THEN mutex[l].cnt ELSE 0

OwnerExact ==
  /\ \A t \in Threads : inside[t] > 0 => owner = [thread |-> t, cnt |-> inside[t]]
  /\ (\A t \in Threads : inside[t] = 0) => owner.thread = NoThread

ListWhole(f) ==
  /\ list[1] = f
  /\ \A i, j \in DOMAIN list : list[i] = list[j] => i = j
  /\ \A i \in DOMAIN list : list[i] \in {OwnLock} \cup Chained \cup Joining

(* A lock that is about to be chained is not in the list, nor about to be   *)
(* chained by another.                                                      *)
Chaining(t) == pc[t].at \in {"acquire", "try", "body"} /\ pc[t].op = "chain"

CallsWell ==
  /\ \A t \in Threads :
       /\ pc[t].lck # End => InList(pc[t].lck)
       /\ pc[t].lck # End => pc[t].at \in {"acquire", "try", "release", "undo"}
       /\ pc[t].at = "want" => pc[t].arg \notin outside[t]
       /\ Chaining(t) => ~InList(pc[t].arg)
  /\ \A t, u \in Threads : Chaining(t) /\ Chaining(u) /\ t # u => pc[t].arg # pc[u].arg

Held(f) == MutexExact /\ OwnerExact /\ ListWhole(f) /\ CallsWell
-----------------------------------------------------------------------------
(* Sequences.                                                               *)
LEMMA Inserted ==
  ASSUME NEW S, NEW s \in Seq(S), NEW i \in 1 .. Len(s) + 1, NEW e \in S
  PROVE  /\ InsertAt(s, i, e) \in Seq(S)
         /\ Len(InsertAt(s, i, e)) = Len(s) + 1
         /\ \A j \in 1 .. Len(s) + 1 :
              InsertAt(s, i, e)[j] = IF j < i THEN s[j] ELSE IF j = i THEN e ELSE s[j - 1]
<1> DEFINE a == SubSeq(s, 1, i - 1)
           b == SubSeq(s, i, Len(s))
<1>0. Len(s) \in Nat /\ \A j \in 1 .. Len(s) : s[j] \in S
  BY ElementOfSeq, LenProperties
<1>1. a \in Seq(S) /\ Len(a) = i - 1 /\ \A j \in 1 .. i - 1 : a[j] = s[j]
  BY <1>0, SubSeqProperties
<1>2. b \in Seq(S) /\ Len(b) = Len(s) - i + 1 /\ \A j \in 1 .. Len(s) - i + 1 : b[j] = s[i + j - 1]
  BY <1>0, SubSeqProperties
<1>3. <<e>> \in Seq(S) /\ Len(<<e>>) = 1 /\ <<e>>[1] = e
  OBVIOUS
<1> HIDE DEF a, b
<1> DEFINE c == a \o <<e>>
<1>4. c \in Seq(S) /\ Len(c) = i /\ \A j \in 1 .. i : c[j] = IF j < i THEN s[j] ELSE e
  BY <1>1, <1>3, ConcatProperties
<1> HIDE DEF c
<1>5. /\ c \o b \in Seq(S) /\ Len(c \o b) = Len(s) + 1
      /\ \A j \in 1 .. Len(s) + 1 : (c \o b)[j] = IF j <= i THEN c[j] ELSE b[j - i]
  <2>1. /\ c \o b \in Seq(S) /\ Len(c \o b) = Len(c) + Len(b)
        /\ \A j \in 1 .. Len(c) + Len(b) :
              (c \o b)[j] = IF j <= Len(c) THEN c[j] ELSE b[j - Len(c)]
    BY <1>2, <1>4, ConcatProperties
  <2>2. Len(c) + Len(b) = Len(s) + 1
    BY <1>0, <1>2, <1>4
  <2> QED
    BY <1>4, <2>1, <2>2
<1>6. InsertAt(s, i, e) = c \o b
  BY DEF InsertAt, a, b, c
<1>7. ASSUME NEW j \in 1 .. Len(s) + 1
      PROVE  (c \o b)[j] = IF j < i THEN s[j] ELSE IF j = i THEN e ELSE s[j - 1]
  <2>1. CASE j <= i
    BY <2>1, <1>4, <1>5
  <2>0. j \in Int /\ i \in Int
    BY <1>0
  <2>2. CASE j > i
    <3>1. j - i \in 1 .. Len(s) - i + 1 /\ i + (j - i) - 1 = j - 1
      BY <2>2, <1>0
    <3> QED
      BY <2>2, <3>1, <1>2, <1>5
  <2>3. j <= i \/ j > i
    BY <2>0
  <2> QED
    BY <2>0, <2>1, <2>2, <2>3, Zenon
<1> QED
  BY <1>5, <1>6, <1>7

LEMMA Removed ==
  ASSUME NEW S, NEW s \in Seq(S), NEW i \in 1 .. Len(s)
  PROVE  /\ RemoveAt(s, i) \in Seq(S)
         /\ Len(RemoveAt(s, i)) = Len(s) - 1
         /\ \A j \in 1 .. Len(s) - 1 :
              RemoveAt(s, i)[j] = IF j < i THEN s[j] ELSE s[j + 1]
<1> DEFINE a == SubSeq(s, 1, i - 1)
           b == SubSeq(s, i + 1, Len(s))
<1>0. Len(s) \in Nat /\ \A j \in 1 .. Len(s) : s[j] \in S
  BY ElementOfSeq, LenProperties
<1>1. a \in Seq(S) /\ Len(a) = i - 1 /\ \A j \in 1 .. i - 1 : a[j] = s[j]
  BY <1>0, SubSeqProperties
<1>2. b \in Seq(S) /\ Len(b) = Len(s) - i /\ \A j \in 1 .. Len(s) - i : b[j] = s[i + j]
  BY <1>0, SubSeqProperties
<1> HIDE DEF a, b
<1>3. /\ a \o b \in Seq(S) /\ Len(a \o b) = Len(s) - 1
      /\ \A j \in 1 .. Len(s) - 1 : (a \o b)[j] = IF j < i THEN a[j] ELSE b[j - (i - 1)]
  <2>1. /\ a \o b \in Seq(S) /\ Len(a \o b) = Len(a) + Len(b)
        /\ \A j \in 1 .. Len(a) + Len(b) :
              (a \o b)[j] = IF j <= Len(a) THEN a[j] ELSE b[j - Len(a)]
    BY <1>1, <1>2, ConcatProperties
  <2>2. Len(a) + Len(b) = Len(s) - 1 /\ \A j \in Int : j <= i - 1 <=> j < i
    BY <1>0, <1>1, <1>2
  <2> QED
    BY <1>0, <1>1, <2>1, <2>2
<1>4. RemoveAt(s, i) = a \o b
  BY DEF RemoveAt, a, b
<1>5. ASSUME NEW j \in 1 .. Len(s) - 1
      PROVE  (a \o b)[j] = IF j < i THEN s[j] ELSE s[j + 1]
  <2>1. CASE j < i
    BY <2>1, <1>1, <1>3
  <2>0. j \in Int /\ i \in Int
    BY <1>0
  <2>2. CASE j >= i
    <3>1. j - (i - 1) \in 1 .. Len(s) - i /\ i + (j - (i - 1)) = j + 1
      BY <2>2, <1>0
    <3> QED
      BY <2>2, <3>1, <1>2, <1>3
  <2>3. j < i \/ j >= i
    BY <2>0
  <2> QED
    BY <2>0, <2>1, <2>2, <2>3, Zenon
<1> QED
  BY <1>3, <1>4, <1>5

(* A set of natural numbers that is not empty has a least one.              *)
LEMMA Least ==
  ASSUME NEW I \in SUBSET Nat, I # {}
  PROVE  Min(I) \in I
<1> DEFINE T == {0 .. k : k \in I}
<1>1. T # {} /\ T \subseteq FiniteSubsetsOf(Nat)
  <2>1. ASSUME NEW k \in I PROVE 0 .. k \in FiniteSubsetsOf(Nat)
    BY FS_Interval DEF FiniteSubsetsOf
  <2> QED
    BY <2>1
<1>2. \E x \in T : \A y \in T : <<y, x>> \notin StrictSubsetOrdering(Nat)
  BY <1>1, WFMin, FS_StrictSubsetOrderingWellFounded
<1>3. PICK m \in I : \A n \in I : <<0 .. n, 0 .. m>> \notin StrictSubsetOrdering(Nat)
  BY <1>2
<1>4. ASSUME NEW n \in I PROVE n >= m
  <2>1. SUFFICES ASSUME n < m PROVE FALSE
    OBVIOUS
  <2>2. 0 .. n \subseteq 0 .. m /\ m \in 0 .. m /\ m \notin 0 .. n /\ 0 .. m \subseteq Nat
    BY <2>1
  <2> QED
    BY <1>3, <2>2 DEF StrictSubsetOrdering
<1> QED
  BY <1>4 DEF Min

LEMMA FirstRemoved ==
  ASSUME NEW S, NEW s \in Seq(S), NEW e
  PROVE  RemoveFirst(s, e) \in Seq(S)
<1> DEFINE I == {i \in 1 .. Len(s) : s[i] = e}
<1>1. CASE I # {}
  <2>1. I \subseteq Nat
    BY LenProperties
  <2>3. Min(I) \in I
    BY <1>1, <2>1, Least
  <2>2. RemoveAt(s, Min(I)) \in Seq(S)
    BY <2>3, Removed
  <2> QED
    BY <1>1, <2>2 DEF RemoveFirst, SelectInSeq
<1>2. CASE I = {}
  BY <1>2 DEF RemoveFirst
<1> QED
  BY <1>1, <1>2
-----------------------------------------------------------------------------
(* The types hold.                                                          *)
LEMMA ListOfLocks ==
  ASSUME NEW s \in InitialLists
  PROVE  /\ s \in Seq(Locks) /\ Len(s) = Cardinality({OwnLock} \cup Chained)
         /\ \A l \in {OwnLock} \cup Chained : \E i \in DOMAIN s : s[i] = l
         /\ \A i, j \in DOMAIN s : s[i] = s[j] => i = j
         /\ \A i \in DOMAIN s : s[i] \in {OwnLock} \cup Chained
<1> DEFINE S == {OwnLock} \cup Chained
           n == Cardinality(S)
<1>1. IsFiniteSet(Chained) /\ S \subseteq Locks
  BY FS_Subset, ThreadsAssumption, JoinAssumption DEF Locks
<1>2. IsFiniteSet(S)
  <2>1. S = Chained \cup {OwnLock}
    OBVIOUS
  <2> QED
    BY <1>1, <2>1, FS_AddElement
<1>3. n \in Nat
  BY <1>2, FS_CardinalityType
<1>4. s \in Bijection(1 .. n, S)
  BY DEF InitialLists
<1>5. s \in [1 .. n -> S] /\ IsInjective(s) /\ \A l \in S : \E i \in 1 .. n : s[i] = l
  BY <1>4 DEF Bijection, Injection, Surjection
<1> HIDE DEF S, n
<1>6. s \in [1 .. n -> Locks]
  BY <1>1, <1>5
<1>7. s \in Seq(Locks) /\ Len(s) = n /\ DOMAIN s = 1 .. n
  BY <1>3, <1>6
<1> QED
  BY <1>5, <1>7 DEF IsInjective, S, n

LEMMA InitTyped == Init => Typed
<1> SUFFICES ASSUME Init PROVE Typed
  OBVIOUS
<1>1. list \in Seq(Locks) /\ InList(OwnLock)
  <2>1. list \in InitialLists
    BY DEF Init
  <2>2. list \in Seq(Locks) /\ \E i \in DOMAIN list : list[i] = OwnLock
    BY <2>1, ListOfLocks
  <2> QED
    BY <2>2, LenProperties DEF InList, Contains
<1>2. mutex \in [Locks -> [owner: Threads \cup {NoThread}, cnt: Nat]]
  BY DEF Init
<1>3. owner \in [thread: Threads \cup {NoThread}, cnt: Nat]
  BY DEF Init
<1>4. handlers \in Seq(1 .. MaxHandlers) /\ called \in Seq(1 .. MaxHandlers)
  BY DEF Init
<1>5. Ready \in Calls
  BY DEF Ready, Calls, Places, Ops
<1>6. pc \in [Threads -> Calls] /\ \A t \in Threads : Begun(t)
  BY <1>5 DEF Init, Begun, Ready
<1> QED
  BY <1>1, <1>2, <1>3, <1>4, <1>6, CreatorAssumption, BoundAssumption DEF Init, Typed

(* The functions of mutexes and of places keep their types.                 *)
LEMMA MutexTyped ==
  ASSUME Typed, NEW t \in Threads, NEW l \in Locks, NEW n \in Nat
  PROVE  /\ Take(t, l, n) \in [Locks -> [owner: Threads \cup {NoThread}, cnt: Nat]]
         /\ Give(t, l, n) \in [Locks -> [owner: Threads \cup {NoThread}, cnt: Nat]]
<1> DEFINE M == [owner: Threads \cup {NoThread}, cnt: Nat]
<1>1. mutex \in [Locks -> M] /\ mutex[l].cnt \in Nat
  BY DEF Typed
<1>2. Take(t, l, n) \in [Locks -> M]
  BY <1>1 DEF Take
<1>3. Give(t, l, n) \in [Locks -> M]
  BY <1>1 DEF Give
<1> QED
  BY <1>2, <1>3

LEMMA AroundTyped ==
  ASSUME Typed, NEW l \in Locks
  PROVE  /\ After(l) \in Locks \cup {End} /\ Before(l) \in Locks \cup {End}
         /\ InList(l) => IndexOf(l) \in DOMAIN list /\ list[IndexOf(l)] = l
         /\ DOMAIN list = 1 .. Len(list) /\ Len(list) \in Nat \ {0}
<1>1. DOMAIN list = 1 .. Len(list) /\ Len(list) \in Nat /\ \A i \in 1 .. Len(list) : list[i] \in Locks
  BY LenProperties, ElementOfSeq DEF Typed
<1>2. Len(list) # 0
  BY <1>1 DEF Typed, InList, Contains
<1>3. InList(l) => IndexOf(l) \in DOMAIN list /\ list[IndexOf(l)] = l
  BY <1>1 DEF InList, Contains, IndexOf
<1>4. After(l) \in Locks \cup {End}
  BY <1>1, <1>3 DEF After
<1>5. Before(l) \in Locks \cup {End}
  BY <1>1, <1>3 DEF Before
<1> QED
  BY <1>1, <1>2, <1>3, <1>4, <1>5

(* A thread that goes on in its call.                                       *)
LEMMA Went ==
  ASSUME Typed, NEW t \in Threads, NEW p \in Places, NEW l \in Locks \cup {End},
         Goto(t, p, l)
  PROVE  /\ pc' \in [Threads -> Calls]
         /\ pc'[t] = [at |-> p, lck |-> l, op |-> pc[t].op, arg |-> pc[t].arg]
         /\ \A u \in Threads \ {t} : pc'[u] = pc[u]
<1>1. pc \in [Threads -> Calls]
  BY DEF Typed
<1> QED
  BY <1>1 DEF Goto, Calls

LEMMA BeginTyped ==
  ASSUME Typed, NEW t \in Threads, NEW place \in {"acquire", "try"}, NEW op \in Ops, NEW arg,
         op = "none" => arg = End,
         op \in {"chain", "unchain"} => arg \in Joining,
         op \in {"add_handler", "del_handler"} => arg \in 1 .. MaxHandlers,
         Begin(t, place, op, arg)
  PROVE  Typed'
<1> DEFINE call == [at |-> place, lck |-> list[1], op |-> op, arg |-> arg]
<1>1. list[1] \in Locks
  BY AroundTyped, ElementOfSeq DEF Typed, Locks
<1>2. arg \in Locks \cup {End} \cup (1 .. MaxHandlers)
  BY JoinAssumption DEF Ops, Locks
<1>3. call \in Calls
  BY <1>1, <1>2 DEF Calls, Places
<1>4. pc' = [pc EXCEPT ![t] = call] /\ inside[t] < MaxDepth
  BY DEF Begin
<1>5. pc' \in [Threads -> Calls] /\ pc'[t] = call /\ \A u \in Threads \ {t} : pc'[u] = pc[u]
  BY <1>3, <1>4 DEF Typed
<1>6. \A u \in Threads : Begun(u)'
  BY <1>4, <1>5 DEF Begun, Begin, object, Typed, Ops
<1> QED
  BY <1>5, <1>6 DEF Typed, Begin, object, InList

(* A step of a call that takes or gives back a mutex, and no more.          *)
LEMMA HopTyped ==
  ASSUME Typed, NEW t \in Threads, NEW p \in Places \ {"body", "want"}, NEW l \in Locks \cup {End},
         p \in {"acquire", "try"} => pc[t].at \in {"acquire", "try"},
         Goto(t, p, l), UNCHANGED <<list, object>>,
         mutex' \in [Locks -> [owner: Threads \cup {NoThread}, cnt: Nat]]
  PROVE  Typed'
<1>1. /\ pc' \in [Threads -> Calls]
      /\ pc'[t] = [at |-> p, lck |-> l, op |-> pc[t].op, arg |-> pc[t].arg]
      /\ \A u \in Threads \ {t} : pc'[u] = pc[u]
  BY Went
<1>2. UNCHANGED <<list, ref, owner, alive, handlers, called, grants, inside, outside>>
  BY DEF object
<1>3. Begun(t)'
  BY <1>1, <1>2 DEF Begun, Typed
<1>4. \A u \in Threads \ {t} : Begun(u)'
  BY <1>1, <1>2 DEF Begun, Typed
<1> QED
  BY <1>1, <1>2, <1>3, <1>4 DEF Typed, InList

(* Back from a call. *)
LEMMA BackTyped ==
  ASSUME Typed, NEW t \in Threads, pc' = [pc EXCEPT ![t] = Ready], UNCHANGED inside
  PROVE  /\ pc' \in [Threads -> Calls]
         /\ pc'[t] = Ready /\ \A u \in Threads \ {t} : pc'[u] = pc[u]
         /\ \A u \in Threads : Begun(u)'
<1>1. Ready \in Calls
  BY DEF Ready, Calls, Places, Ops
<1>2. pc' \in [Threads -> Calls] /\ pc'[t] = Ready /\ \A u \in Threads \ {t} : pc'[u] = pc[u]
  BY <1>1 DEF Typed
<1> QED
  BY <1>2 DEF Begun, Typed, Ready

LEMMA TakeNextTyped ==
  ASSUME Typed, NEW t \in Threads, TakeNext(t)
  PROVE  Typed'
<1>1. pc[t].lck \in Locks
  BY DEF TakeNext, Typed, Calls
<1>2. pc[t].at \in Places \ {"body", "want"} /\ pc[t].at \in {"acquire", "try"}
  BY DEF TakeNext, Places
<1>3. mutex' \in [Locks -> [owner: Threads \cup {NoThread}, cnt: Nat]]
  BY <1>1, MutexTyped DEF TakeNext
<1> QED
  BY <1>1, <1>2, <1>3, HopTyped, AroundTyped DEF TakeNext

LEMMA GiveNextTyped ==
  ASSUME Typed, NEW t \in Threads, GiveNext(t)
  PROVE  Typed'
<1>1. pc[t].lck \in Locks
  BY DEF GiveNext, Typed, Calls
<1>2. pc[t].at \in Places \ {"body", "want", "acquire", "try"}
  BY DEF GiveNext, Places
<1>3. mutex' \in [Locks -> [owner: Threads \cup {NoThread}, cnt: Nat]]
  BY <1>1, MutexTyped DEF GiveNext
<1> QED
  BY <1>1, <1>2, <1>3, HopTyped, AroundTyped DEF GiveNext

LEMMA TryFailsTyped ==
  ASSUME Typed, NEW t \in Threads, TryFails(t)
  PROVE  Typed'
<1>1. pc[t].lck \in Locks
  BY DEF TryFails, Typed, Calls
<1>2. "undo" \in Places \ {"body", "want", "acquire", "try"}
  BY DEF Places
<1>3. mutex' \in [Locks -> [owner: Threads \cup {NoThread}, cnt: Nat]]
  BY DEF TryFails, Typed
<1> QED
  BY <1>1, <1>2, <1>3, HopTyped, AroundTyped DEF TryFails

LEMMA EnterTyped ==
  ASSUME Typed, NEW t \in Threads, Enter(t)
  PROVE  Typed'
<1>1. inside' = [inside EXCEPT ![t] = @ + 1] /\ inside[t] < MaxDepth /\ inside[t] \in 0 .. MaxDepth
  BY DEF Enter, Typed, Begun
<1>2. inside' \in [Threads -> 0 .. MaxDepth] /\ inside'[t] > 0
      /\ \A u \in Threads \ {t} : inside'[u] = inside[u]
  BY <1>1, BoundAssumption DEF Typed
<1>3. owner' \in [thread: Threads \cup {NoThread}, cnt: Nat]
  <2>1. owner \in [thread: Threads \cup {NoThread}, cnt: Nat]
    BY DEF Typed
  <2>2. owner' = [thread |-> t, cnt |-> 1] \/ owner' = [owner EXCEPT !.cnt = @ + 1]
    BY DEF Enter
  <2> QED
    BY <2>1, <2>2
<1> DEFINE call == IF pc[t].op = "none" THEN Ready ELSE [pc[t] EXCEPT !.at = "body"]
<1>4. pc[t] \in Calls
  BY DEF Typed
<1>5. call \in Calls
  BY <1>4 DEF Calls, Ready, Places, Ops
<1>6. pc' = [pc EXCEPT ![t] = call]
  BY DEF Enter
<1>7. pc' \in [Threads -> Calls] /\ pc'[t] = call /\ \A u \in Threads \ {t} : pc'[u] = pc[u]
  BY <1>5, <1>6 DEF Typed
<1>8. call.at \in {"ready", "body"} /\ call.op \in {pc[t].op, "none"}
      /\ (call.op # "none" => call.arg = pc[t].arg)
  BY <1>4 DEF Calls, Ready
<1>9. Begun(t)'
  BY <1>2, <1>7, <1>8 DEF Begun, Typed
<1>10. \A u \in Threads \ {t} : Begun(u)'
  BY <1>2, <1>7 DEF Begun, Typed
<1> QED
  BY <1>2, <1>3, <1>7, <1>9, <1>10 DEF Typed, Enter, InList

(* The way out, from a list that the function may have changed.             *)
LEMMA LeaveTyped ==
  ASSUME Typed, NEW t \in Threads, inside[t] > 0, Leave(t), pc[t].at \in {"ready", "body"},
         list' \in Seq(Locks), InList(OwnLock)', Goto(t, "release", Last(list')),
         mutex' \in [Locks -> [owner: Threads \cup {NoThread}, cnt: Nat]],
         handlers' \in Seq(1 .. MaxHandlers),
         UNCHANGED <<ref, alive, called, grants, outside>>
  PROVE  Typed'
<1>1. inside' = [inside EXCEPT ![t] = @ - 1] /\ inside[t] \in 1 .. MaxDepth
  BY BoundAssumption DEF Leave, Typed
<1>2. inside' \in [Threads -> 0 .. MaxDepth] /\ \A u \in Threads \ {t} : inside'[u] = inside[u]
  BY <1>1, BoundAssumption DEF Typed
<1>3. owner' \in [thread: Threads \cup {NoThread}, cnt: Nat]
  <2>1. owner \in [thread: Threads \cup {NoThread}, cnt: Nat]
    BY DEF Typed
  <2>2. CASE owner.cnt > 1
    <3>1. owner' = [owner EXCEPT !.cnt = @ - 1] /\ owner.cnt - 1 \in Nat
      BY <2>1, <2>2 DEF Leave
    <3> QED
      BY <2>1, <3>1
  <2>3. CASE ~(owner.cnt > 1)
    BY <2>1, <2>3 DEF Leave
  <2> QED
    BY <2>2, <2>3
<1>4. Last(list') \in Locks
  <2>1. Len(list') \in Nat /\ \A i \in 1 .. Len(list') : list'[i] \in Locks
    BY LenProperties, ElementOfSeq
  <2>2. Len(list') # 0
    BY <2>1 DEF InList, Contains
  <2> QED
    BY <2>1, <2>2 DEF Last
<1>5. /\ pc' \in [Threads -> Calls]
      /\ pc'[t] = [at |-> "release", lck |-> Last(list'), op |-> pc[t].op, arg |-> pc[t].arg]
      /\ \A u \in Threads \ {t} : pc'[u] = pc[u]
  BY <1>4, Went DEF Places
<1>6. Begun(t)'
  BY <1>5 DEF Begun, Typed
<1>7. \A u \in Threads \ {t} : Begun(u)'
  BY <1>2, <1>5 DEF Begun, Typed
<1> QED
  BY <1>2, <1>3, <1>5, <1>6, <1>7 DEF Typed

LEMMA ReleaseTyped ==
  ASSUME Typed, NEW t \in Threads, Release(t)
  PROVE  Typed'
<1>1. pc[t].at = "ready"
  BY DEF Release, Ready
<1>2. list' = list /\ InList(OwnLock)'
  BY DEF Release, Typed, InList
<1> QED
  BY <1>1, <1>2, LeaveTyped DEF Release, Typed

LEMMA SlotInside ==
  ASSUME Typed, NEW l
  PROVE  Slot(l) \in 1 .. Len(list) + 1
<1> DEFINE S == {i \in DOMAIN list : PosOf(list[i]) < Prio[l]}
<1>1. DOMAIN list = 1 .. Len(list) /\ Len(list) \in Nat
  BY LenProperties DEF Typed
<1>2. IsFiniteSet(DOMAIN list) /\ Cardinality(DOMAIN list) = Len(list)
  <2>1. IsFiniteSet(1 .. Len(list)) /\ Cardinality(1 .. Len(list)) = IF 1 > Len(list) THEN 0 ELSE Len(list) - 1 + 1
    BY <1>1, FS_Interval
  <2> QED
    BY <1>1, <2>1
<1>3. S \in SUBSET (DOMAIN list)
  OBVIOUS
<1> HIDE DEF S
<1>4. Cardinality(S) <= Len(list) /\ Cardinality(S) \in Nat
  BY <1>2, <1>3, FS_Subset, FS_CardinalityType
<1>5. Slot(l) = Cardinality(S) + 1
  BY DEF Slot, S
<1> QED
  BY <1>1, <1>4, <1>5

LEMMA ChainTyped ==
  ASSUME Typed, NEW t \in Threads, ChainLock(t)
  PROVE  Typed'
<1> DEFINE l == pc[t].arg
           new == InsertAt(list, Slot(l), l)
<1>1. l \in Locks /\ inside[t] > 0 /\ owner.cnt \in Nat /\ list \in Seq(Locks)
  BY JoinAssumption DEF ChainLock, Typed, Begun, Locks
<1>2. /\ new \in Seq(Locks) /\ Len(new) = Len(list) + 1
      /\ \A j \in 1 .. Len(list) + 1 :
           new[j] = IF j < Slot(l) THEN list[j] ELSE IF j = Slot(l) THEN l ELSE list[j - 1]
  <2>1. Slot(l) \in 1 .. Len(list) + 1
    BY SlotInside
  <2>2. ASSUME NEW k \in 1 .. Len(list) + 1, NEW e \in Locks
        PROVE  /\ InsertAt(list, k, e) \in Seq(Locks) /\ Len(InsertAt(list, k, e)) = Len(list) + 1
               /\ \A j \in 1 .. Len(list) + 1 : InsertAt(list, k, e)[j] =
                    IF j < k THEN list[j] ELSE IF j = k THEN e ELSE list[j - 1]
    BY <1>1, Inserted
  <2> DEFINE k == Slot(l)
  <2>3. new = InsertAt(list, k, l)
    OBVIOUS
  <2> HIDE DEF new, k, l
  <2>4. k \in 1 .. Len(list) + 1 /\ l \in Locks
    BY <1>1, <2>1 DEF k
  <2>5. /\ new \in Seq(Locks) /\ Len(new) = Len(list) + 1
        /\ \A j \in 1 .. Len(list) + 1 :
             new[j] = IF j < k THEN list[j] ELSE IF j = k THEN l ELSE list[j - 1]
    BY <2>2, <2>3, <2>4, SMTT(30)
  <2> QED
    BY <2>5 DEF k
<1> HIDE DEF new
<1>3. PICK i \in 1 .. Len(list) : list[i] = OwnLock
  BY DEF Typed, InList, Contains
<1>4. Slot(l) \in Int /\ Len(list) \in Nat
  BY SlotInside, LenProperties DEF Typed
<1>5. \E j \in 1 .. Len(new) : new[j] = OwnLock
  <2>1. CASE i < Slot(l)
    BY <1>2, <1>3, <1>4, <2>1
  <2>2. CASE ~(i < Slot(l))
    <3>1. i + 1 \in 1 .. Len(list) + 1 /\ ~(i + 1 < Slot(l)) /\ i + 1 # Slot(l) /\ (i + 1) - 1 = i
      BY <1>3, <1>4, <2>2
    <3>2. new[i + 1] = list[(i + 1) - 1]
      BY <1>2, <3>1
    <3> QED
      BY <1>2, <1>3, <3>1, <3>2
  <2> QED
    BY <2>1, <2>2
<1>6. list' = new /\ InList(OwnLock)'
  BY <1>5 DEF ChainLock, Finish, InList, Contains, new
<1>7. mutex' \in [Locks -> [owner: Threads \cup {NoThread}, cnt: Nat]]
  BY <1>1, MutexTyped DEF ChainLock
<1>8. Goto(t, "release", Last(list')) /\ Leave(t) /\ UNCHANGED <<ref, alive, called, grants, outside>>
  BY <1>6 DEF ChainLock, Finish, new
<1>9. handlers' \in Seq(1 .. MaxHandlers) /\ pc[t].at = "body"
  BY DEF ChainLock, Typed
<1> QED
  BY <1>1, <1>2, <1>6, <1>7, <1>8, <1>9, LeaveTyped

LEMMA UnchainTyped ==
  ASSUME Typed, NEW t \in Threads, UnchainLock(t)
  PROVE  Typed'
<1> DEFINE l == pc[t].arg
           new == RemoveAt(list, IndexOf(l))
<1>1. /\ l \in Locks /\ l # OwnLock /\ inside[t] > 0 /\ owner.cnt \in Nat /\ list \in Seq(Locks)
      /\ pc[t].at = "body"
  BY JoinAssumption, LocksAssumption DEF UnchainLock, Typed, Begun, Locks
<1>2. handlers' \in Seq(1 .. MaxHandlers)
  BY DEF UnchainLock, Typed
<1>3. CASE InList(l)
  <2>1. IndexOf(l) \in 1 .. Len(list) /\ list[IndexOf(l)] = l /\ Len(list) \in Nat
    BY <1>1, <1>3, AroundTyped
  <2>2. /\ new \in Seq(Locks) /\ Len(new) = Len(list) - 1
        /\ \A j \in 1 .. Len(list) - 1 : new[j] = IF j < IndexOf(l) THEN list[j] ELSE list[j + 1]
    BY <1>1, <2>1, Removed
  <2> HIDE DEF new
  <2>3. PICK i \in 1 .. Len(list) : list[i] = OwnLock
    BY DEF Typed, InList, Contains
  <2>4. \E j \in 1 .. Len(new) : new[j] = OwnLock
    <3>1. i # IndexOf(l)
      BY <1>1, <2>1, <2>3
    <3>2. CASE i < IndexOf(l)
      BY <2>1, <2>2, <2>3, <3>2
    <3>3. CASE i > IndexOf(l)
      <4>1. i - 1 \in 1 .. Len(list) - 1 /\ ~(i - 1 < IndexOf(l)) /\ (i - 1) + 1 = i
        BY <2>1, <2>3, <3>3
      <4>2. new[i - 1] = list[(i - 1) + 1]
        BY <2>2, <4>1
      <4> QED
        BY <2>2, <2>3, <4>1, <4>2
    <3> QED
      BY <2>1, <3>1, <3>2, <3>3
  <2>5. list' = new /\ InList(OwnLock)'
    BY <1>3, <2>4 DEF UnchainLock, Finish, InList, Contains, new
  <2>6. mutex' \in [Locks -> [owner: Threads \cup {NoThread}, cnt: Nat]]
    <3>1. mutex' = Give(t, l, owner.cnt)
      BY <1>3 DEF UnchainLock
    <3> QED
      BY <1>1, <3>1, MutexTyped
  <2>7. Goto(t, "release", Last(list')) /\ Leave(t) /\ UNCHANGED <<ref, alive, called, grants, outside>>
    BY <1>3, <2>5 DEF UnchainLock, Finish, new
  <2> QED
    BY <1>1, <1>2, <2>2, <2>5, <2>6, <2>7, LeaveTyped
<1>4. CASE ~InList(l)
  <2>1. list' = list /\ InList(OwnLock)' /\ mutex' = mutex
    BY <1>4 DEF UnchainLock, Finish, InList, Typed
  <2>2. Goto(t, "release", Last(list')) /\ Leave(t) /\ UNCHANGED <<ref, alive, called, grants, outside>>
    BY <1>4, <2>1 DEF UnchainLock, Finish
  <2>3. mutex' \in [Locks -> [owner: Threads \cup {NoThread}, cnt: Nat]] /\ list' \in Seq(Locks)
    BY <1>1, <2>1 DEF Typed
  <2> QED
    BY <1>1, <1>2, <2>1, <2>2, <2>3, LeaveTyped
<1> QED
  BY <1>3, <1>4

LEMMA HandlerTyped ==
  ASSUME Typed, NEW t \in Threads, AddHandler(t) \/ DelHandler(t)
  PROVE  Typed'
<1>1. pc[t].arg \in 1 .. MaxHandlers /\ inside[t] > 0 /\ pc[t].at = "body"
  BY DEF AddHandler, DelHandler, Typed, Begun
<1>2. handlers' \in Seq(1 .. MaxHandlers)
  <2>1. handlers \in Seq(1 .. MaxHandlers)
    BY DEF Typed
  <2>2. CASE AddHandler(t)
    BY <1>1, <2>1, <2>2, AppendProperties DEF AddHandler
  <2>3. CASE DelHandler(t)
    BY <2>1, <2>3, FirstRemoved DEF DelHandler
  <2> QED
    BY <2>2, <2>3
<1>3. list' = list /\ InList(OwnLock)' /\ mutex' = mutex
  BY DEF AddHandler, DelHandler, Finish, InList, Typed
<1>4. Goto(t, "release", Last(list')) /\ Leave(t) /\ UNCHANGED <<ref, alive, called, grants, outside>>
  BY <1>3 DEF AddHandler, DelHandler, Finish
<1>5. mutex' \in [Locks -> [owner: Threads \cup {NoThread}, cnt: Nat]] /\ list' \in Seq(Locks)
  BY <1>3 DEF Typed
<1> QED
  BY <1>1, <1>2, <1>3, <1>4, <1>5, LeaveTyped

LEMMA AddRefTyped ==
  ASSUME Typed, NEW t \in Threads, NEW u \in Threads, AddRef(t, u)
  PROVE  Typed'
<1>1. grants[u] \in 0 .. MaxGrants /\ grants[u] < MaxGrants /\ ref \in Int
  BY DEF AddRef, Typed
<1>2. grants' \in [Threads -> 0 .. MaxGrants] /\ ref' \in Int
  BY <1>1, BoundAssumption, SMTT(30) DEF AddRef, Typed
<1>3. \A v \in Threads : Begun(v)'
  BY DEF Begun, AddRef, Typed
<1> QED
  BY <1>2, <1>3 DEF Typed, AddRef, InList

LEMMA GiveUpTyped ==
  ASSUME Typed, NEW t \in Threads, GiveUp(t)
  PROVE  Typed'
<1>1. grants[t] \in 0 .. MaxGrants /\ grants[t] > 0
  BY DEF GiveUp, Typed
<1>2. grants' \in [Threads -> 0 .. MaxGrants]
  BY <1>1, BoundAssumption DEF GiveUp, Typed
<1>3. /\ pc' \in [Threads -> Calls]
      /\ pc'[t] = [at |-> "dec_ref", lck |-> End, op |-> pc[t].op, arg |-> pc[t].arg]
      /\ \A u \in Threads \ {t} : pc'[u] = pc[u]
  BY Went DEF GiveUp, Places
<1>4. Begun(t)'
  BY <1>3 DEF Begun, Typed, GiveUp
<1>5. \A u \in Threads \ {t} : Begun(u)'
  BY <1>3 DEF Begun, Typed, GiveUp
<1> QED
  BY <1>2, <1>3, <1>4, <1>5 DEF Typed, GiveUp, InList

LEMMA DecRefTyped ==
  ASSUME Typed, NEW t \in Threads, DecRef(t)
  PROVE  Typed'
<1>1. pc' = [pc EXCEPT ![t] = Ready] /\ inside' = inside
  BY DEF DecRef
<1>2. pc' \in [Threads -> Calls] /\ \A u \in Threads : Begun(u)'
  BY <1>1, BackTyped
<1>3. ref' \in Int
  BY DEF DecRef, Typed
<1>4. alive' \in BOOLEAN /\ called' \in Seq(1 .. MaxHandlers)
  <2>1. called \o handlers \in Seq(1 .. MaxHandlers)
    BY ConcatProperties DEF Typed
  <2>2. \/ alive' = FALSE /\ called' = called \o handlers
        \/ alive' = alive /\ called' = called
    BY DEF DecRef
  <2> QED
    BY <2>1, <2>2 DEF Typed
<1> QED
  BY <1>2, <1>3, <1>4 DEF Typed, DecRef, InList

LEMMA ExternalTyped ==
  ASSUME Typed, NEW t \in Threads, NEW l \in Externals,
         WantExternal(t, l) \/ TakeExternal(t) \/ GiveExternal(t, l)
  PROVE  Typed'
<1>1. CASE WantExternal(t, l)
  <2> DEFINE call == [Ready EXCEPT !.at = "want", !.arg = l]
  <2>1. call.at = "want" /\ call.op = "none" /\ call.arg = l
    BY DEF Ready
  <2>2. call \in Calls
    <3>1. Ready \in Calls
      BY DEF Ready, Calls, Places, Ops
    <3> QED
      BY <3>1 DEF Calls, Places, Locks
  <2>3. pc' \in [Threads -> Calls] /\ pc'[t] = call /\ \A u \in Threads \ {t} : pc'[u] = pc[u]
    BY <1>1, <2>2 DEF WantExternal, Typed
  <2>4. UNCHANGED <<mutex, list, ref, owner, alive, handlers, called, grants, inside, outside>>
    BY <1>1 DEF WantExternal, object
  <2>5. Begun(t)'
    BY <2>1, <2>3 DEF Begun
  <2>6. \A u \in Threads \ {t} : Begun(u)'
    BY <2>3, <2>4 DEF Begun, Typed
  <2> QED
    BY <2>3, <2>4, <2>5, <2>6 DEF Typed, InList
<1>2. CASE TakeExternal(t)
  <2>1. pc[t].arg \in Externals /\ pc[t].arg \in Locks
    BY <1>2 DEF TakeExternal, Typed, Begun, Locks
  <2>2. mutex' \in [Locks -> [owner: Threads \cup {NoThread}, cnt: Nat]]
    BY <1>2, <2>1, MutexTyped DEF TakeExternal
  <2>3. outside' \in [Threads -> SUBSET Externals]
    BY <1>2, <2>1 DEF TakeExternal, Typed
  <2>4. pc' \in [Threads -> Calls] /\ \A u \in Threads : Begun(u)'
    BY <1>2, BackTyped DEF TakeExternal
  <2> QED
    BY <1>2, <2>2, <2>3, <2>4 DEF Typed, TakeExternal, InList
<1>3. CASE GiveExternal(t, l)
  <2>1. mutex' \in [Locks -> [owner: Threads \cup {NoThread}, cnt: Nat]]
    BY <1>3, MutexTyped DEF GiveExternal, Locks
  <2>2. outside' \in [Threads -> SUBSET Externals]
    BY <1>3 DEF GiveExternal, Typed
  <2>3. \A u \in Threads : Begun(u)'
    BY <1>3 DEF Begun, GiveExternal, Typed
  <2> QED
    BY <1>3, <2>1, <2>2, <2>3 DEF Typed, GiveExternal, InList
<1> QED
  BY <1>1, <1>2, <1>3

LEMMA UndoneTyped ==
  ASSUME Typed, NEW t \in Threads, Undone(t)
  PROVE  Typed'
<1>1. UNCHANGED <<mutex, list, ref, owner, alive, handlers, called, grants, inside, outside>>
  BY DEF Undone, object
<1>2. pc' \in [Threads -> Calls] /\ \A u \in Threads : Begun(u)'
  BY <1>1, BackTyped DEF Undone
<1> QED
  BY <1>1, <1>2 DEF Typed, InList

LEMMA StutterTyped == ASSUME Typed, UNCHANGED vars PROVE Typed'
BY DEF Typed, vars, InList, Begun

LEMMA NextTyped == Typed /\ [Next]_vars => Typed'
<1> SUFFICES ASSUME Typed, [Next]_vars PROVE Typed'
  OBVIOUS
<1>1. ASSUME NEW t \in Threads, Acquire(t) \/ TryAcquire(t) PROVE Typed'
  BY <1>1, BeginTyped DEF Acquire, TryAcquire, Ops
<1>2. ASSUME NEW t \in Threads, NEW l \in Joining, Chain(t, l) \/ Unchain(t, l) PROVE Typed'
  BY <1>2, BeginTyped DEF Chain, Unchain, Ops
<1>3. ASSUME NEW t \in Threads, NEW h \in 1 .. MaxHandlers,
             CallAddHandler(t, h) \/ CallDelHandler(t, h)
      PROVE  Typed'
  BY <1>3, BeginTyped DEF CallAddHandler, CallDelHandler, Ops
<1>4. ASSUME NEW t \in Threads, TakeNext(t) \/ TryFails(t) \/ Enter(t) PROVE Typed'
  BY <1>4, TakeNextTyped, TryFailsTyped, EnterTyped
<1>5. ASSUME NEW t \in Threads, GiveNext(t) \/ Undone(t) \/ Release(t) PROVE Typed'
  BY <1>5, GiveNextTyped, UndoneTyped, ReleaseTyped
<1>6. ASSUME NEW t \in Threads, ChainLock(t) \/ UnchainLock(t) \/ AddHandler(t) \/ DelHandler(t)
      PROVE  Typed'
  BY <1>6, ChainTyped, UnchainTyped, HandlerTyped
<1>7. ASSUME NEW t \in Threads, NEW u \in Threads, AddRef(t, u) PROVE Typed'
  BY <1>7, AddRefTyped
<1>8. ASSUME NEW t \in Threads, GiveUp(t) \/ DecRef(t) PROVE Typed'
  BY <1>8, GiveUpTyped, DecRefTyped
<1>9. ASSUME NEW t \in Threads, NEW l \in Externals, WantExternal(t, l) \/ GiveExternal(t, l)
      PROVE  Typed'
  BY <1>9, ExternalTyped
<1>10. ASSUME NEW t \in Threads, TakeExternal(t) PROVE Typed'
  <2>1. pc[t].arg \in Externals
    BY <1>10 DEF TakeExternal, Typed, Begun
  <2> QED
    BY <1>10, <2>1, ExternalTyped
<1>11. CASE Gone \/ UNCHANGED vars
  BY <1>11, StutterTyped DEF Gone
<1> QED
  BY <1>1, <1>2, <1>3, <1>4, <1>5, <1>6, <1>7, <1>8, <1>9, <1>10, <1>11 DEF Next
-----------------------------------------------------------------------------
(* The count.                                                               *)
LEMMA CountsFinite ==
  ASSUME Typed
  PROVE  /\ IsFiniteSet(Granted) /\ Cardinality(Granted) \in Nat
         /\ IsFiniteSet(Entered) /\ Cardinality(Entered) \in Nat
         /\ IsFiniteSet(Leaving) /\ Cardinality(Leaving) \in Nat
<1>1. IsFiniteSet(Threads \X (1 .. MaxGrants)) /\ IsFiniteSet(Threads \X (1 .. MaxDepth))
  <2>1. IsFiniteSet(1 .. MaxGrants) /\ IsFiniteSet(1 .. MaxDepth)
    BY FS_Interval, BoundAssumption
  <2> QED
    BY <2>1, FS_Product, ThreadsAssumption
<1>2. /\ Granted \subseteq Threads \X (1 .. MaxGrants)
      /\ Entered \subseteq Threads \X (1 .. MaxDepth) /\ Leaving \subseteq Threads
  BY DEF Granted, Entered, Leaving
<1> QED
  BY <1>1, <1>2, ThreadsAssumption, FS_Subset, FS_CardinalityType

(* Who relies on the lock keeps it.                                         *)
LEMMA Used ==
  ASSUME Typed, Counted, NEW t \in Threads,
         \/ grants[t] > 0 \/ inside[t] > 0
         \/ pc[t].at \in {"acquire", "try", "undo", "body", "release", "dec_ref"}
  PROVE  ref > 0 /\ alive
<1>1. Granted # {} \/ Entered # {} \/ Leaving # {}
  <2>1. CASE grants[t] > 0
    <3>1. grants[t] \in 0 .. MaxGrants
      BY DEF Typed
    <3>2. <<t, 1>> \in Granted
      BY <2>1, <3>1, BoundAssumption DEF Granted
    <3> QED
      BY <3>2
  <2>2. CASE inside[t] > 0
    <3>1. inside[t] \in 0 .. MaxDepth
      BY DEF Typed
    <3>2. <<t, 1>> \in Entered
      BY <2>2, <3>1, BoundAssumption DEF Entered
    <3> QED
      BY <3>2
  <2>3. CASE pc[t].at \in {"release", "dec_ref"}
    BY <2>3 DEF Leaving
  <2> QED
    BY <2>1, <2>2, <2>3 DEF Counted, Entitled
<1>2. Cardinality(Granted) > 0 \/ Cardinality(Entered) > 0 \/ Cardinality(Leaving) > 0
  BY <1>1, CountsFinite, FS_EmptySet
<1> QED
  BY <1>2, CountsFinite DEF Counted, RefsExact

LEMMA InitCounted == Init => Counted
<1> SUFFICES ASSUME Init PROVE Counted
  OBVIOUS
<1>1. Typed
  BY InitTyped
<1>2. \A t \in Threads : pc[t].at = "ready" /\ grants[t] = (IF t = Creator THEN 1 ELSE 0) /\ inside[t] = 0
  BY DEF Init, Ready
<1>3. Granted = {<<Creator, 1>>}
  <2>1. \A r \in Granted : r = <<Creator, 1>>
    BY <1>2, BoundAssumption DEF Granted
  <2>2. <<Creator, 1>> \in Granted
    BY <1>2, BoundAssumption, CreatorAssumption DEF Granted
  <2> QED
    BY <2>1, <2>2
<1>4. Entered = {} /\ Leaving = {}
  BY <1>2, BoundAssumption DEF Entered, Leaving
<1>5. RefsExact
  <2>1. Cardinality(Granted) = 1 /\ Cardinality(Entered) = 0 /\ Cardinality(Leaving) = 0
    BY <1>3, <1>4, FS_EmptySet, FS_Singleton
  <2>2. ref = 1
    BY DEF Init
  <2> QED
    BY <2>1, <2>2 DEF RefsExact
<1> QED
  BY <1>2, <1>5 DEF Counted, Entitled, Init

(* A step that neither counts nor leaves. *)
LEMMA StillCounted ==
  ASSUME Typed, Counted, NEW t \in Threads,
         UNCHANGED <<ref, alive, handlers, called, grants, inside>>,
         \A u \in Threads \ {t} : pc'[u] = pc[u],
         pc'[t].at \in {"release", "dec_ref"} <=> pc[t].at \in {"release", "dec_ref"},
         pc'[t].at \in {"acquire", "try", "undo", "body"} => grants[t] > 0 \/ inside[t] > 0
  PROVE  Counted'
<1>1. Granted' = Granted /\ Entered' = Entered
  BY DEF Granted, Entered
<1>2. Leaving' = Leaving
  BY DEF Leaving
<1>3. \A u \in Threads : Entitled(u)'
  BY DEF Counted, Entitled
<1> QED
  BY <1>1, <1>2, <1>3 DEF Counted, RefsExact

LEMMA EnterCounted ==
  ASSUME Typed, Counted, NEW t \in Threads, Enter(t)
  PROVE  Counted'
<1>1. ref > 0 /\ alive
  BY Used DEF Enter
<1>2. inside[t] \in 0 .. MaxDepth /\ inside[t] < MaxDepth
  BY DEF Enter, Typed, Begun
<1>3. inside'[t] = inside[t] + 1 /\ \A u \in Threads \ {t} : inside'[u] = inside[u]
  BY DEF Enter, Typed
<1>4. Entered' = Entered \cup {<<t, inside[t] + 1>>}
  <2>1. ASSUME NEW u \in Threads, NEW n \in 1 .. MaxDepth
        PROVE  n <= inside'[u] <=> n <= inside[u] \/ <<u, n>> = <<t, inside[t] + 1>>
    <3>1. inside[u] \in 0 .. MaxDepth
      BY DEF Typed
    <3> QED
      BY <1>2, <1>3, <3>1, BoundAssumption
  <2>2. inside[t] + 1 \in 1 .. MaxDepth
    BY <1>2, BoundAssumption
  <2> QED
    BY <2>1, <2>2 DEF Entered
<1>5. <<t, inside[t] + 1>> \notin Entered
  BY <1>2 DEF Entered
<1>6. Cardinality(Entered') = Cardinality(Entered) + 1
  BY <1>4, <1>5, CountsFinite, FS_AddElement
<1>7. Granted' = Granted
  BY DEF Enter, Granted
<1>8. pc'[t].at \in {"ready", "body"} /\ \A u \in Threads \ {t} : pc'[u] = pc[u]
  <2>1. pc[t] \in Calls
    BY DEF Typed
  <2> QED
    BY <2>1 DEF Enter, Typed, Ready, Calls
<1>9. Leaving' = Leaving
  BY <1>8 DEF Enter, Leaving
<1>10. RefsExact'
  BY <1>6, <1>7, <1>9, CountsFinite DEF RefsExact, Counted, Enter
<1>11. \A u \in Threads : Entitled(u)'
  <2>1. Entitled(t)'
    BY <1>2, <1>3 DEF Entitled
  <2>2. \A u \in Threads \ {t} : Entitled(u)'
    BY <1>3, <1>8 DEF Entitled, Counted, Enter
  <2> QED
    BY <2>1, <2>2
<1>12. ref' > 0 /\ alive' /\ called' = << >>
  BY <1>1 DEF Enter, Counted, Typed
<1> QED
  BY <1>10, <1>11, <1>12 DEF Counted

(* The reference of an acquisition is given back at the end of its release. *)
LEMMA LeaveCounted ==
  ASSUME Typed, Counted, NEW t \in Threads, inside[t] > 0, Leave(t),
         pc[t].at \in {"ready", "body"}, Goto(t, "release", Last(list')),
         UNCHANGED <<ref, alive, called, grants>>
  PROVE  Counted'
<1>1. ref > 0 /\ alive
  BY Used
<1>2. inside[t] \in 0 .. MaxDepth
  BY DEF Typed
<1>3. inside'[t] = inside[t] - 1 /\ \A u \in Threads \ {t} : inside'[u] = inside[u]
  BY DEF Leave, Typed
<1>4. Entered' = Entered \ {<<t, inside[t]>>}
  <2>1. ASSUME NEW u \in Threads, NEW n \in 1 .. MaxDepth
        PROVE  n <= inside'[u] <=> n <= inside[u] /\ <<u, n>> # <<t, inside[t]>>
    <3>1. inside[u] \in 0 .. MaxDepth
      BY DEF Typed
    <3> QED
      BY <1>2, <1>3, <3>1, BoundAssumption
  <2> QED
    BY <2>1 DEF Entered
<1>5. <<t, inside[t]>> \in Entered
  BY <1>2, BoundAssumption DEF Entered
<1>6. Cardinality(Entered') = Cardinality(Entered) - 1
  BY <1>4, <1>5, CountsFinite, FS_RemoveElement
<1>7. Granted' = Granted
  BY DEF Granted
<1>8. pc'[t].at = "release" /\ \A u \in Threads \ {t} : pc'[u] = pc[u]
  <2>1. pc[t] \in Calls
    BY DEF Typed
  <2> QED
    BY <2>1 DEF Goto, Typed, Calls
<1>9. Leaving' = Leaving \cup {t} /\ t \notin Leaving
  BY <1>8 DEF Leaving
<1>10. Cardinality(Leaving') = Cardinality(Leaving) + 1
  BY <1>9, CountsFinite, FS_AddElement
<1>11. RefsExact'
  BY <1>6, <1>7, <1>10, CountsFinite DEF RefsExact, Counted
<1>12. \A u \in Threads : Entitled(u)'
  BY <1>3, <1>8 DEF Entitled, Counted
<1> QED
  BY <1>1, <1>11, <1>12 DEF Counted

LEMMA AddRefCounted ==
  ASSUME Typed, Counted, NEW t \in Threads, NEW u \in Threads, AddRef(t, u)
  PROVE  Counted'
<1>1. ref > 0 /\ alive
  BY Used DEF AddRef, MayUse
<1>2. grants[u] \in 0 .. MaxGrants /\ grants[u] < MaxGrants
  BY DEF AddRef, Typed
<1>3. grants'[u] = grants[u] + 1 /\ \A v \in Threads \ {u} : grants'[v] = grants[v]
  BY DEF AddRef, Typed
<1>4. Granted' = Granted \cup {<<u, grants[u] + 1>>}
  <2>1. ASSUME NEW v \in Threads, NEW n \in 1 .. MaxGrants
        PROVE  n <= grants'[v] <=> n <= grants[v] \/ <<v, n>> = <<u, grants[u] + 1>>
    <3>1. grants[v] \in 0 .. MaxGrants
      BY DEF Typed
    <3> QED
      BY <1>2, <1>3, <3>1, BoundAssumption
  <2>2. grants[u] + 1 \in 1 .. MaxGrants
    BY <1>2, BoundAssumption
  <2> QED
    BY <2>1, <2>2 DEF Granted
<1>5. <<u, grants[u] + 1>> \notin Granted
  BY <1>2 DEF Granted
<1>6. Cardinality(Granted') = Cardinality(Granted) + 1
  BY <1>4, <1>5, CountsFinite, FS_AddElement
<1>7. Entered' = Entered /\ Leaving' = Leaving
  BY DEF AddRef, Entered, Leaving
<1>8. RefsExact'
  BY <1>6, <1>7, CountsFinite DEF RefsExact, Counted, AddRef
<1>9. \A v \in Threads : Entitled(v)'
  <2>1. \A v \in Threads : grants[v] \in 0 .. MaxGrants /\ (grants[v] > 0 => grants'[v] > 0)
    <3>1. ASSUME NEW v \in Threads \ {u}
          PROVE  grants[v] \in 0 .. MaxGrants /\ (grants[v] > 0 => grants'[v] > 0)
      BY <1>3 DEF Typed
    <3>2. grants[u] > 0 => grants'[u] > 0
      BY <1>2, <1>3
    <3> QED
      BY <1>2, <3>1, <3>2
  <2> QED
    BY <2>1 DEF Entitled, Counted, AddRef
<1>10. ref' > 0 /\ alive' /\ called' = << >>
  BY <1>1 DEF AddRef, Counted, Typed
<1> QED
  BY <1>8, <1>9, <1>10 DEF Counted

LEMMA GiveUpCounted ==
  ASSUME Typed, Counted, NEW t \in Threads, GiveUp(t)
  PROVE  Counted'
<1>2. grants[t] \in 0 .. MaxGrants /\ grants[t] > 0
  BY DEF GiveUp, Typed
<1>3. grants'[t] = grants[t] - 1 /\ \A u \in Threads \ {t} : grants'[u] = grants[u]
  BY DEF GiveUp, Typed
<1>4. Granted' = Granted \ {<<t, grants[t]>>}
  <2>1. ASSUME NEW u \in Threads, NEW n \in 1 .. MaxGrants
        PROVE  n <= grants'[u] <=> n <= grants[u] /\ <<u, n>> # <<t, grants[t]>>
    <3>1. grants[u] \in 0 .. MaxGrants
      BY DEF Typed
    <3> QED
      BY <1>2, <1>3, <3>1, BoundAssumption
  <2> QED
    BY <2>1 DEF Granted
<1>5. <<t, grants[t]>> \in Granted
  BY <1>2, BoundAssumption DEF Granted
<1>6. Cardinality(Granted') = Cardinality(Granted) - 1
  BY <1>4, <1>5, CountsFinite, FS_RemoveElement
<1>7. Entered' = Entered
  BY DEF GiveUp, Entered
<1>8. pc[t].at = "ready" /\ pc'[t].at = "dec_ref" /\ \A u \in Threads \ {t} : pc'[u] = pc[u]
  <2>1. pc[t] \in Calls
    BY DEF Typed
  <2> QED
    BY <2>1 DEF GiveUp, Goto, Typed, Calls, Ready
<1>9. Leaving' = Leaving \cup {t} /\ t \notin Leaving
  BY <1>8 DEF Leaving
<1>10. Cardinality(Leaving') = Cardinality(Leaving) + 1
  BY <1>9, CountsFinite, FS_AddElement
<1>11. RefsExact'
  BY <1>6, <1>7, <1>10, CountsFinite DEF RefsExact, Counted, GiveUp
<1>12. \A u \in Threads : Entitled(u)'
  BY <1>3, <1>8 DEF Entitled, Counted, GiveUp
<1> QED
  BY <1>11, <1>12 DEF Counted, GiveUp

LEMMA DecRefCounted ==
  ASSUME Typed, Counted, NEW t \in Threads, DecRef(t)
  PROVE  Counted'
<1>1. ref > 0 /\ alive /\ ref \in Int
  BY Used DEF DecRef, Typed
<1>2. pc'[t].at = "ready" /\ \A u \in Threads \ {t} : pc'[u] = pc[u]
  BY DEF DecRef, Typed, Ready
<1>3. Leaving' = Leaving \ {t} /\ t \in Leaving
  BY <1>2 DEF Leaving, DecRef
<1>4. Cardinality(Leaving') = Cardinality(Leaving) - 1
  BY <1>3, CountsFinite, FS_RemoveElement
<1>5. Granted' = Granted /\ Entered' = Entered
  BY DEF DecRef, Granted, Entered
<1>6. RefsExact'
  BY <1>4, <1>5, CountsFinite DEF RefsExact, Counted, DecRef
<1>7. \A u \in Threads : Entitled(u)'
  BY <1>2 DEF Entitled, Counted, DecRef
<1>8. ref' = ref - 1 /\ handlers' = handlers /\ called = << >>
  BY <1>1 DEF DecRef, Counted
<1>9. CASE ref' = 0
  <2>1. alive' = FALSE /\ called' = << >> \o handlers
    BY <1>1, <1>8, <1>9 DEF DecRef
  <2>2. << >> \o handlers = handlers
    BY ConcatEmptySeq DEF Typed
  <2> QED
    BY <1>6, <1>7, <1>8, <1>9, <2>1, <2>2 DEF Counted
<1>10. CASE ref' # 0
  <2>1. alive' = alive /\ called' = called
    BY <1>10 DEF DecRef
  <2> QED
    BY <1>1, <1>6, <1>7, <1>8, <1>10, <2>1 DEF Counted
<1> QED
  BY <1>9, <1>10

LEMMA BeginCounted ==
  ASSUME Typed, Counted, NEW t \in Threads, NEW place \in {"acquire", "try"}, NEW op, NEW arg,
         Begin(t, place, op, arg)
  PROVE  Counted'
<1>1. pc[t].at = "ready" /\ (grants[t] > 0 \/ inside[t] > 0)
  BY DEF Begin, MayUse, Ready
<1>2. pc'[t].at = place /\ \A u \in Threads \ {t} : pc'[u] = pc[u]
  BY DEF Begin, Typed
<1>3. UNCHANGED <<ref, alive, handlers, called, grants, inside>>
  BY DEF Begin, object
<1> QED
  BY <1>1, <1>2, <1>3, StillCounted

LEMMA HopCounted ==
  ASSUME Typed, Counted, NEW t \in Threads, TakeNext(t) \/ TryFails(t) \/ GiveNext(t)
  PROVE  Counted'
<1>1. pc[t] \in Calls
  BY DEF Typed
<1>2. \A u \in Threads \ {t} : pc'[u] = pc[u]
  BY <1>1 DEF TakeNext, TryFails, GiveNext, Goto, Typed, Calls
<1>3. \/ pc'[t].at = pc[t].at
      \/ pc'[t].at = "undo" /\ pc[t].at = "try"
  BY <1>1 DEF TakeNext, TryFails, GiveNext, Goto, Typed, Calls
<1>4. UNCHANGED <<ref, alive, handlers, called, grants, inside>>
  BY DEF TakeNext, TryFails, GiveNext, object
<1>5. pc'[t].at \in {"acquire", "try", "undo", "body"} => grants[t] > 0 \/ inside[t] > 0
  BY <1>3 DEF Counted, Entitled
<1> QED
  BY <1>2, <1>3, <1>4, <1>5, StillCounted

LEMMA BackCounted ==
  ASSUME Typed, Counted, NEW t \in Threads, NEW l \in Externals,
         Undone(t) \/ WantExternal(t, l) \/ TakeExternal(t) \/ GiveExternal(t, l)
  PROVE  Counted'
<1>1. \A u \in Threads \ {t} : pc'[u] = pc[u]
  BY DEF Undone, WantExternal, TakeExternal, GiveExternal, Typed
<1>2. pc[t].at \in {"undo", "ready", "want"} /\ pc'[t].at \in {"ready", "want"}
  <2>1. CASE WantExternal(t, l)
    <3>1. pc'[t] = [Ready EXCEPT !.at = "want", !.arg = l]
      BY <2>1 DEF WantExternal, Typed
    <3> QED
      BY <2>1, <3>1 DEF WantExternal, Ready
  <2>2. CASE Undone(t) \/ TakeExternal(t)
    BY <2>2 DEF Undone, TakeExternal, Typed, Ready
  <2>3. CASE GiveExternal(t, l)
    BY <2>3 DEF GiveExternal, Ready
  <2> QED
    BY <2>1, <2>2, <2>3
<1>3. UNCHANGED <<ref, alive, handlers, called, grants, inside>>
  BY DEF Undone, WantExternal, TakeExternal, GiveExternal, object
<1> QED
  BY <1>1, <1>2, <1>3, StillCounted

LEMMA OutCounted ==
  ASSUME Typed, Counted, NEW t \in Threads,
         Release(t) \/ ChainLock(t) \/ UnchainLock(t) \/ AddHandler(t) \/ DelHandler(t)
  PROVE  Counted'
<1>1. inside[t] > 0 /\ pc[t].at \in {"ready", "body"}
  BY DEF Release, ChainLock, UnchainLock, AddHandler, DelHandler, Ready, Typed, Begun
<1>2. Leave(t) /\ Goto(t, "release", Last(list')) /\ UNCHANGED <<ref, alive, called, grants>>
  <2>1. CASE Release(t)
    BY <2>1 DEF Release
  <2>2. ASSUME NEW new, Finish(t, new)
        PROVE  Leave(t) /\ Goto(t, "release", Last(list')) /\ UNCHANGED <<ref, alive, called, grants>>
    BY <2>2 DEF Finish
  <2>3. CASE ChainLock(t)
    BY <2>2, <2>3 DEF ChainLock
  <2>4. CASE UnchainLock(t)
    BY <2>2, <2>4 DEF UnchainLock
  <2>5. CASE AddHandler(t) \/ DelHandler(t)
    BY <2>2, <2>5 DEF AddHandler, DelHandler
  <2> QED
    BY <2>1, <2>3, <2>4, <2>5
<1> QED
  BY <1>1, <1>2, LeaveCounted

LEMMA NextCounted == Typed /\ Counted /\ [Next]_vars => Counted'
<1> SUFFICES ASSUME Typed, Counted, [Next]_vars PROVE Counted'
  OBVIOUS
<1>1. ASSUME NEW t \in Threads, Acquire(t) \/ TryAcquire(t) PROVE Counted'
  BY <1>1, BeginCounted DEF Acquire, TryAcquire
<1>2. ASSUME NEW t \in Threads, NEW l \in Joining, Chain(t, l) \/ Unchain(t, l) PROVE Counted'
  BY <1>2, BeginCounted DEF Chain, Unchain
<1>3. ASSUME NEW t \in Threads, NEW h \in 1 .. MaxHandlers,
             CallAddHandler(t, h) \/ CallDelHandler(t, h)
      PROVE  Counted'
  BY <1>3, BeginCounted DEF CallAddHandler, CallDelHandler
<1>4. ASSUME NEW t \in Threads, TakeNext(t) \/ TryFails(t) \/ GiveNext(t) PROVE Counted'
  BY <1>4, HopCounted
<1>5. ASSUME NEW t \in Threads, Enter(t) PROVE Counted'
  BY <1>5, EnterCounted
<1>6. ASSUME NEW t \in Threads,
             Release(t) \/ ChainLock(t) \/ UnchainLock(t) \/ AddHandler(t) \/ DelHandler(t)
      PROVE  Counted'
  BY <1>6, OutCounted
<1>7. ASSUME NEW t \in Threads, NEW u \in Threads, AddRef(t, u) PROVE Counted'
  BY <1>7, AddRefCounted
<1>8. ASSUME NEW t \in Threads, GiveUp(t) \/ DecRef(t) PROVE Counted'
  BY <1>8, GiveUpCounted, DecRefCounted
<1>9. ASSUME NEW t \in Threads, NEW l \in Externals, WantExternal(t, l) \/ GiveExternal(t, l)
      PROVE  Counted'
  BY <1>9, BackCounted
<1>10. ASSUME NEW t \in Threads, TakeExternal(t) \/ Undone(t) PROVE Counted'
  <2>1. CASE TakeExternal(t)
    <3>1. pc[t].arg \in Externals
      BY <2>1 DEF TakeExternal, Typed, Begun
    <3> QED
      BY <2>1, <3>1, BackCounted
  <2>2. CASE Undone(t)
    <3>1. pc[t].at = "undo" /\ pc' = [pc EXCEPT ![t] = Ready]
      BY <2>2 DEF Undone
    <3>2. pc'[t].at = "ready" /\ \A u \in Threads \ {t} : pc'[u] = pc[u]
      BY <3>1 DEF Typed, Ready
    <3>3. UNCHANGED <<ref, alive, handlers, called, grants, inside>>
      BY <2>2 DEF Undone, object
    <3> QED
      BY <3>1, <3>2, <3>3, StillCounted
  <2> QED
    BY <1>10, <2>1, <2>2
<1>11. CASE Gone \/ UNCHANGED vars
  <2>1. UNCHANGED <<ref, alive, handlers, called, grants, inside, pc>>
    BY <1>11 DEF Gone, vars
  <2>2. Granted' = Granted /\ Entered' = Entered /\ Leaving' = Leaving
    BY <2>1 DEF Granted, Entered, Leaving
  <2> QED
    BY <2>1, <2>2 DEF Counted, Entitled, RefsExact
<1> QED
  BY <1>1, <1>2, <1>3, <1>4, <1>5, <1>6, <1>7, <1>8, <1>9, <1>10, <1>11 DEF Next

LEMMA Counts == Spec => [](Typed /\ Counted)
<1>1. Init => Typed /\ Counted
  BY InitTyped, InitCounted
<1>2. Typed /\ Counted /\ [Next]_vars => (Typed /\ Counted)'
  BY NextTyped, NextCounted
<1> QED
  BY <1>1, <1>2, PTL DEF Spec

(* The group lock's variables have their types; its count, in particular,   *)
(* never falls below zero ("pj_assert(cnt > 0)" of grp_lock_dec_ref).       *)
THEOREM GroupLockTyped == Spec => []TypeOK
<1>1. Typed /\ Counted => TypeOK
  <2> SUFFICES ASSUME Typed, Counted PROVE TypeOK
    OBVIOUS
  <2>1. ref \in Nat
    BY CountsFinite DEF Counted, RefsExact
  <2>2. \A t \in Threads : pc[t].lck \in Locks \cup {End}
    BY DEF Typed, Calls
  <2> QED
    BY <2>1, <2>2 DEF Typed, TypeOK
<1> QED
  BY <1>1, Counts, PTL

(* The count of a group lock is that of the references given, of the        *)
(* acquisitions and of the releases under way: grp_lock_acquire,            *)
(* grp_lock_release, pj_grp_lock_add_ref and pj_grp_lock_dec_ref together.  *)
THEOREM GroupRefsExact == Spec => []RefsExact
<1>1. Typed /\ Counted => RefsExact
  BY DEF Counted
<1> QED
  BY <1>1, Counts, PTL
-----------------------------------------------------------------------------
(* The mutexes.                                                             *)
Distinct(s) == \A i, j \in DOMAIN s : s[i] = s[j] => i = j

(* Indices into a list of different locks. *)
LEMMA Indices ==
  ASSUME NEW s \in Seq(Locks), Distinct(s)
  PROVE  /\ DOMAIN s = 1 .. Len(s) /\ Len(s) \in Nat
         /\ \A i \in 1 .. Len(s) :
              /\ s[i] \in Locks /\ s[i] # End /\ Contains(s, s[i])
              /\ (CHOOSE j \in DOMAIN s : s[j] = s[i]) = i
         /\ \A l : Contains(s, l) =>
              /\ (CHOOSE j \in DOMAIN s : s[j] = l) \in 1 .. Len(s)
              /\ s[CHOOSE j \in DOMAIN s : s[j] = l] = l
              /\ l \in Locks /\ l # End
<1>1. DOMAIN s = 1 .. Len(s) /\ Len(s) \in Nat /\ \A i \in 1 .. Len(s) : s[i] \in Locks
  BY LenProperties, ElementOfSeq
<1>2. \A i \in 1 .. Len(s) : (CHOOSE j \in DOMAIN s : s[j] = s[i]) = i
  BY <1>1 DEF Distinct
<1>3. ASSUME NEW l, Contains(s, l)
      PROVE  /\ (CHOOSE j \in DOMAIN s : s[j] = l) \in 1 .. Len(s)
             /\ s[CHOOSE j \in DOMAIN s : s[j] = l] = l
  BY <1>1, <1>3 DEF Contains
<1> QED
  BY <1>1, <1>2, <1>3, LocksAssumption DEF Contains

LEMMA ListFacts ==
  ASSUME Typed, NEW f, ListWhole(f)
  PROVE  /\ DOMAIN list = 1 .. Len(list) /\ Len(list) \in Nat \ {0}
         /\ \A i \in 1 .. Len(list) :
              list[i] \in Locks /\ list[i] # End /\ InList(list[i]) /\ IndexOf(list[i]) = i
         /\ \A l : InList(l) =>
              IndexOf(l) \in 1 .. Len(list) /\ list[IndexOf(l)] = l /\ l \in Locks /\ l # End
         /\ InList(f) /\ IndexOf(f) = 1
<1>1. list \in Seq(Locks) /\ Distinct(list) /\ list[1] = f /\ InList(OwnLock)
  BY DEF Typed, ListWhole, Distinct
<1>2. Len(list) \in Nat \ {0}
  BY <1>1, Indices DEF InList, Contains
<1> QED
  BY <1>1, <1>2, Indices DEF InList, IndexOf

(* What comes after and before a lock of the list.                          *)
LEMMA Neighbours ==
  ASSUME Typed, NEW f, ListWhole(f), NEW l, InList(l)
  PROVE  /\ \/ After(l) = End /\ IndexOf(l) = Len(list)
            \/ After(l) # End /\ InList(After(l)) /\ IndexOf(After(l)) = IndexOf(l) + 1
         /\ \/ Before(l) = End /\ IndexOf(l) = 1
            \/ Before(l) # End /\ InList(Before(l)) /\ IndexOf(Before(l)) = IndexOf(l) - 1
<1> DEFINE i == IndexOf(l)
<1>1. i \in 1 .. Len(list) /\ Len(list) \in Nat
  BY ListFacts
<1>2. ASSUME i # Len(list)
      PROVE  After(l) # End /\ InList(After(l)) /\ IndexOf(After(l)) = i + 1
  <2>1. After(l) = list[i + 1] /\ i + 1 \in 1 .. Len(list)
    BY <1>1, <1>2 DEF After
  <2> QED
    BY <2>1, ListFacts
<1>3. ASSUME i # 1
      PROVE  Before(l) # End /\ InList(Before(l)) /\ IndexOf(Before(l)) = i - 1
  <2>1. Before(l) = list[i - 1] /\ i - 1 \in 1 .. Len(list)
    BY <1>1, <1>3 DEF Before
  <2> QED
    BY <2>1, ListFacts
<1>4. i = Len(list) => After(l) = End
  BY DEF After
<1>5. i = 1 => Before(l) = End
  BY DEF Before
<1> QED
  BY <1>2, <1>3, <1>4, <1>5

LEMMA TimesNat ==
  ASSUME Typed, NEW t \in Threads, NEW l
  PROVE  Times(t, l) \in Nat
<1>1. inside[t] \in Nat
  BY BoundAssumption DEF Typed
<1> QED
  BY <1>1 DEF Times

(* A thread that is past the first lock has it, and is alone there.         *)
Within(t, f) ==
  \/ inside[t] > 0
  \/ pc[t].at \in {"acquire", "try"} /\ pc[t].lck # f
  \/ pc[t].at \in {"release", "undo"} /\ pc[t].lck # End

LEMMA HasFirst ==
  ASSUME Typed, NEW f, Held(f), NEW t \in Threads, Within(t, f)
  PROVE  mutex[f].owner = t
<1>1. f \in Locks /\ InList(f) /\ IndexOf(f) = 1
  BY ListFacts DEF Held
<1>2. inside[t] \in Nat
  BY BoundAssumption DEF Typed
<1>3. inside[t] > 0 \/ Passing(t, f)
  <2>1. CASE pc[t].at \in {"acquire", "try"} /\ pc[t].lck # f
    <3>1. CASE pc[t].lck = End
      BY <1>1, <2>1, <3>1 DEF Passing
    <3>2. CASE pc[t].lck # End
      <4>1. InList(pc[t].lck)
        BY <3>2 DEF Held, CallsWell
      <4>2. IndexOf(pc[t].lck) \in 1 .. Len(list) /\ list[IndexOf(pc[t].lck)] = pc[t].lck
        BY <4>1, ListFacts DEF Held
      <4>3. list[1] = f
        BY DEF Held, ListWhole
      <4>4. IndexOf(pc[t].lck) > 1
        BY <2>1, <4>2, <4>3
      <4> QED
        BY <1>1, <2>1, <3>2, <4>4 DEF Passing
    <3> QED
      BY <3>1, <3>2
  <2>2. CASE pc[t].at \in {"release", "undo"} /\ pc[t].lck # End
    <3>1. InList(pc[t].lck)
      BY <2>2 DEF Held, CallsWell
    <3>2. IndexOf(pc[t].lck) \in 1 .. Len(list)
      BY <3>1, ListFacts DEF Held
    <3> QED
      BY <1>1, <2>2, <3>2 DEF Passing
  <2> QED
    BY <2>1, <2>2 DEF Within
<1>4. Times(t, f) > 0
  BY <1>1, <1>2, <1>3 DEF Times
<1> QED
  BY <1>1, <1>4 DEF Held, MutexExact

LEMMA Alone ==
  ASSUME Typed, NEW f, Held(f), NEW t \in Threads, Within(t, f), NEW u \in Threads \ {t}
  PROVE  /\ inside[u] = 0
         /\ pc[u].at \in {"acquire", "try"} => pc[u].lck = f
         /\ pc[u].at \notin {"acquire", "try"} => pc[u].lck = End
<1>1. ~Within(u, f)
  BY HasFirst
<1>2. inside[u] \in 0 .. MaxDepth
  BY DEF Typed
<1>3. pc[u].lck # End => pc[u].at \in {"acquire", "try", "release", "undo"}
  BY DEF Held, CallsWell
<1> QED
  BY <1>1, <1>2, <1>3, BoundAssumption DEF Within

(* Mutexes taken and given back agree with what is counted.                 *)
LEMMA TakeExact ==
  ASSUME Typed, MutexExact, NEW t \in Threads, NEW k \in Locks, NEW n \in Nat,
         CanTake(t, k), mutex' = Take(t, k, n),
         \A u \in Threads, l \in Locks :
           Times(u, l)' = Times(u, l) + (IF u = t /\ l = k THEN n ELSE 0)
  PROVE  MutexExact'
<1> SUFFICES ASSUME NEW l \in Locks
             PROVE  /\ mutex'[l].owner = NoThread => mutex'[l].cnt = 0
                    /\ \A u \in Threads :
                         Times(u, l)' = IF mutex'[l].owner = u THEN mutex'[l].cnt ELSE 0
  BY DEF MutexExact
<1>1. /\ mutex[l].owner = NoThread => mutex[l].cnt = 0
      /\ \A u \in Threads : Times(u, l) = IF mutex[l].owner = u THEN mutex[l].cnt ELSE 0
  BY DEF MutexExact
<1>2. mutex \in [Locks -> [owner: Threads \cup {NoThread}, cnt: Nat]]
  BY DEF Typed
<1>3. CASE l = k
  <2>1. mutex'[l] = [owner |-> t, cnt |-> mutex[l].cnt + n]
    BY <1>2, <1>3 DEF Take
  <2>2. mutex[l].owner \in {NoThread, t} /\ mutex[l].cnt \in Nat
    BY <1>2, <1>3 DEF CanTake
  <2>3. t # NoThread
    BY CreatorAssumption
  <2>4. \A u \in Threads : Times(u, l)' = Times(u, l) + (IF u = t THEN n ELSE 0)
    BY <1>3
  <2> QED
    BY <1>1, <2>1, <2>2, <2>3, <2>4, CreatorAssumption
<1>4. CASE l # k
  <2>1. mutex'[l] = mutex[l]
    BY <1>2, <1>4 DEF Take
  <2>2. \A u \in Threads : Times(u, l)' = Times(u, l)
    BY <1>4, TimesNat
  <2> QED
    BY <1>1, <2>1, <2>2
<1> QED
  BY <1>3, <1>4

LEMMA GiveExact ==
  ASSUME Typed, MutexExact, NEW t \in Threads, NEW k \in Locks, NEW n \in Nat \ {0},
         Times(t, k) >= n, mutex' = Give(t, k, n),
         \A u \in Threads, l \in Locks :
           Times(u, l)' = Times(u, l) - (IF u = t /\ l = k THEN n ELSE 0)
  PROVE  MutexExact'
<1> SUFFICES ASSUME NEW l \in Locks
             PROVE  /\ mutex'[l].owner = NoThread => mutex'[l].cnt = 0
                    /\ \A u \in Threads :
                         Times(u, l)' = IF mutex'[l].owner = u THEN mutex'[l].cnt ELSE 0
  BY DEF MutexExact
<1>1. /\ mutex[l].owner = NoThread => mutex[l].cnt = 0
      /\ \A u \in Threads : Times(u, l) = IF mutex[l].owner = u THEN mutex[l].cnt ELSE 0
  BY DEF MutexExact
<1>2. mutex \in [Locks -> [owner: Threads \cup {NoThread}, cnt: Nat]]
  BY DEF Typed
<1>3. CASE l = k
  <2>1. mutex[l].owner = t /\ mutex[l].cnt >= n /\ mutex[l].cnt \in Nat
    BY <1>1, <1>2, <1>3
  <2>2. mutex'[l] = IF mutex[l].cnt > n THEN [owner |-> t, cnt |-> mutex[l].cnt - n]
                                        ELSE [owner |-> NoThread, cnt |-> 0]
    BY <1>2, <1>3, <2>1 DEF Give
  <2>3. \A u \in Threads : Times(u, l)' = Times(u, l) - (IF u = t THEN n ELSE 0)
    BY <1>3
  <2>4. CASE mutex[l].cnt > n
    <3>1. mutex'[l].owner = t /\ mutex'[l].cnt = mutex[l].cnt - n /\ t # NoThread
      BY <2>2, <2>4, CreatorAssumption
    <3> QED
      BY <1>1, <2>1, <2>3, <3>1
  <2>5. CASE ~(mutex[l].cnt > n)
    <3>1. mutex'[l].owner = NoThread /\ mutex'[l].cnt = 0 /\ mutex[l].cnt = n
      BY <2>1, <2>2, <2>5
    <3> QED
      BY <1>1, <2>1, <2>3, <3>1, CreatorAssumption
  <2> QED
    BY <2>4, <2>5
<1>4. CASE l # k
  <2>1. mutex'[l] = mutex[l]
    BY <1>2, <1>4 DEF Give
  <2>2. \A u \in Threads : Times(u, l)' = Times(u, l)
    BY <1>4, TimesNat
  <2> QED
    BY <1>1, <2>1, <2>2
<1> QED
  BY <1>3, <1>4

(* Where a thread is after a step that leaves the list alone.               *)
LEMMA PassingNext ==
  ASSUME list' = list, NEW t \in Threads, NEW l \in Locks
  PROVE  Passing(t, l)' <=>
           /\ InList(l)
           /\ \/ /\ pc'[t].at \in {"acquire", "try"}
                 /\ pc'[t].lck # End => IndexOf(l) < IndexOf(pc'[t].lck)
              \/ /\ pc'[t].at \in {"release", "undo"}
                 /\ pc'[t].lck # End
                 /\ IndexOf(l) <= IndexOf(pc'[t].lck)
BY DEF Passing, InList, IndexOf

(* What another thread has is what it had.                                  *)
LEMMA SameTimes ==
  ASSUME NEW u \in Threads, NEW l \in Locks, list' = list,
         pc'[u] = pc[u], inside'[u] = inside[u], outside'[u] = outside[u]
  PROVE  Times(u, l)' = Times(u, l)
<1>1. InList(l)' = InList(l) /\ IndexOf(l)' = IndexOf(l) /\ IndexOf(pc[u].lck)' = IndexOf(pc'[u].lck)
  BY DEF InList, IndexOf
<1>2. Passing(u, l)' = Passing(u, l)
  BY DEF Passing, InList, IndexOf
<1> QED
  BY <1>1, <1>2 DEF Times

(* A step of one thread that leaves the list alone.                         *)
LEMMA CallKept ==
  ASSUME Typed, NEW f, Held(f), NEW t \in Threads, list' = list,
         \A u \in Threads \ {t} : pc'[u] = pc[u] /\ outside'[u] = outside[u],
         pc'[t].lck # End =>
           InList(pc'[t].lck) /\ pc'[t].at \in {"acquire", "try", "release", "undo"},
         pc'[t].at = "want" => pc'[t].arg \notin outside'[t],
         Chaining(t)' =>
           \/ Chaining(t) /\ pc'[t].arg = pc[t].arg
           \/ ~InList(pc'[t].arg) /\ \A u \in Threads : pc[u].arg # pc'[t].arg
  PROVE  CallsWell' /\ ListWhole(f)'
<1>1. \A l : InList(l)' <=> InList(l)
  BY DEF InList
<1>2. ListWhole(f)'
  BY DEF Held, ListWhole
<1>3. CallsWell
  BY DEF Held
<1>4. ASSUME NEW u \in Threads
      PROVE  /\ pc'[u].lck # End => InList(pc'[u].lck)
             /\ pc'[u].lck # End => pc'[u].at \in {"acquire", "try", "release", "undo"}
             /\ pc'[u].at = "want" => pc'[u].arg \notin outside'[u]
             /\ Chaining(u)' => ~InList(pc'[u].arg)
  <2>1. CASE u = t
    BY <1>3, <2>1 DEF CallsWell
  <2>2. CASE u # t
    <3>1. pc'[u] = pc[u] /\ outside'[u] = outside[u] /\ (Chaining(u)' <=> Chaining(u))
      BY <2>2 DEF Chaining
    <3> QED
      BY <1>3, <3>1 DEF CallsWell
  <2> QED
    BY <2>1, <2>2
<1>5. ASSUME NEW u \in Threads, NEW v \in Threads, Chaining(u)', Chaining(v)', u # v
      PROVE  pc'[u].arg # pc'[v].arg
  <2>1. \A w \in Threads \ {t} : pc'[w] = pc[w] /\ (Chaining(w)' <=> Chaining(w))
    BY DEF Chaining
  <2>2. CASE u # t /\ v # t
    BY <1>3, <1>5, <2>1, <2>2 DEF CallsWell
  <2>3. CASE u = t
    BY <1>3, <1>5, <2>1, <2>3 DEF CallsWell
  <2>4. CASE v = t
    BY <1>3, <1>5, <2>1, <2>4 DEF CallsWell
  <2> QED
    BY <2>2, <2>3, <2>4
<1>6. CallsWell'
  BY <1>1, <1>4, <1>5 DEF CallsWell, InList
<1> QED
  BY <1>2, <1>6

LEMMA BeginHeld ==
  ASSUME Typed, NEW f, Held(f), NEW t \in Threads, NEW place \in {"acquire", "try"}, NEW op, NEW arg,
         op = "chain" => MayChain(arg), Begin(t, place, op, arg)
  PROVE  Held(f)'
<1> DEFINE call == [at |-> place, lck |-> list[1], op |-> op, arg |-> arg]
<1>1. pc'[t] = call /\ (\A u \in Threads \ {t} : pc'[u] = pc[u]) /\ pc[t].at = "ready"
  BY DEF Begin, MayUse, Ready, Typed
<1>2. UNCHANGED <<mutex, list, owner, inside, outside>>
  BY DEF Begin, object
<1>3. list[1] = f /\ f # End /\ InList(f) /\ IndexOf(f) = 1
  BY ListFacts DEF Held, ListWhole
<1>4. Chaining(t)' => ~InList(arg) /\ \A u \in Threads : pc[u].arg # arg
  BY <1>1 DEF Chaining, MayChain
<1>5. CallsWell' /\ ListWhole(f)'
  BY <1>1, <1>2, <1>3, <1>4, CallKept
<1>6. ASSUME NEW l \in Locks PROVE Times(t, l)' = Times(t, l)
  <2>1. IndexOf(f)' = 1 /\ (InList(l)' <=> InList(l)) /\ IndexOf(l)' = IndexOf(l)
    BY <1>2, <1>3 DEF IndexOf, InList
  <2>2. InList(l) => IndexOf(l) \in 1 .. Len(list) /\ Len(list) \in Nat
    BY ListFacts DEF Held
  <2>3. ~Passing(t, l) /\ ~Passing(t, l)'
    BY <1>1, <1>3, <2>1, <2>2 DEF Passing
  <2> QED
    BY <1>2, <2>1, <2>3 DEF Times
<1>7. \A u \in Threads, l \in Locks : Times(u, l)' = Times(u, l)
  <2>1. ASSUME NEW u \in Threads, NEW l \in Locks PROVE Times(u, l)' = Times(u, l)
    <3>1. CASE u = t
      BY <1>6, <3>1
    <3>2. CASE u # t
      BY <1>1, <1>2, <3>2, SameTimes
    <3> QED
      BY <3>1, <3>2
  <2> QED
    BY <2>1
<1>8. MutexExact' /\ OwnerExact'
  BY <1>2, <1>7 DEF Held, MutexExact, OwnerExact
<1> QED
  BY <1>5, <1>8 DEF Held

LEMMA TakeNextHeld ==
  ASSUME Typed, NEW f, Held(f), NEW t \in Threads, TakeNext(t)
  PROVE  Held(f)'
<1> DEFINE k == pc[t].lck
<1>1. /\ k # End /\ InList(k) /\ k \in Locks /\ pc[t].at \in {"acquire", "try"} /\ CanTake(t, k)
      /\ mutex' = Take(t, k, 1) /\ UNCHANGED <<list, owner, inside, outside>>
  BY ListFacts DEF TakeNext, object, Held, CallsWell
<1>2. /\ pc'[t] = [at |-> pc[t].at, lck |-> After(k), op |-> pc[t].op, arg |-> pc[t].arg]
      /\ \A u \in Threads \ {t} : pc'[u] = pc[u]
  BY <1>1, Went, AroundTyped DEF TakeNext, Places
<1>3. \/ After(k) = End /\ IndexOf(k) = Len(list)
      \/ After(k) # End /\ InList(After(k)) /\ IndexOf(After(k)) = IndexOf(k) + 1
  BY <1>1, Neighbours DEF Held
<1>4. CallsWell' /\ ListWhole(f)'
  BY <1>1, <1>2, <1>3, CallKept DEF Chaining
<1>5. ASSUME NEW l \in Locks
      PROVE  Times(t, l)' = Times(t, l) + (IF l = k THEN 1 ELSE 0)
  <2>2. /\ IndexOf(k) \in 1 .. Len(list) /\ list[IndexOf(k)] = k /\ Len(list) \in Nat
        /\ InList(l) => IndexOf(l) \in 1 .. Len(list) /\ list[IndexOf(l)] = l
    BY <1>1, ListFacts DEF Held
  <2>3. Passing(t, l) <=> InList(l) /\ IndexOf(l) < IndexOf(k)
    BY <1>1 DEF Passing
  <2>4. Passing(t, l)' <=> InList(l) /\ IndexOf(l) <= IndexOf(k)
    <3>1. Passing(t, l)' <=> InList(l) /\ (After(k) # End => IndexOf(l) < IndexOf(After(k)))
      BY <1>1, <1>2, PassingNext
    <3> QED
      BY <1>3, <2>2, <3>1
  <2>5. inside'[t] = inside[t] /\ outside'[t] = outside[t] /\ inside[t] \in Nat
    BY <1>1, BoundAssumption DEF Typed
  <2>6. Passing(t, l)' <=> Passing(t, l) \/ l = k
    BY <1>1, <2>2, <2>3, <2>4
  <2>1. InList(l)' <=> InList(l)
    BY <1>1 DEF InList
  <2>7. ~Passing(t, k)
    BY <1>1, <2>2 DEF Passing
  <2> QED
    BY <1>1, <2>1, <2>5, <2>6, <2>7 DEF Times
<1>6. \A u \in Threads, l \in Locks :
         Times(u, l)' = Times(u, l) + (IF u = t /\ l = k THEN 1 ELSE 0)
  <2>1. ASSUME NEW u \in Threads, NEW l \in Locks
        PROVE  Times(u, l)' = Times(u, l) + (IF u = t /\ l = k THEN 1 ELSE 0)
    <3>1. CASE u = t
      BY <1>5, <3>1
    <3>2. CASE u # t
      BY <1>1, <1>2, <3>2, SameTimes, TimesNat
    <3> QED
      BY <3>1, <3>2
  <2> QED
    BY <2>1
<1>7. MutexExact'
  BY <1>1, <1>6, TakeExact DEF Held
<1>8. OwnerExact'
  BY <1>1 DEF Held, OwnerExact
<1> QED
  BY <1>4, <1>7, <1>8 DEF Held

(* A step of one thread that takes nothing and gives nothing back.          *)
LEMMA NothingTaken ==
  ASSUME Typed, NEW f, Held(f), NEW t \in Threads,
         UNCHANGED <<mutex, list, owner, inside, outside>>,
         \A u \in Threads \ {t} : pc'[u] = pc[u],
         \A l \in Locks : Passing(t, l)' <=> Passing(t, l),
         CallsWell'
  PROVE  Held(f)'
<1>1. ASSUME NEW u \in Threads, NEW l \in Locks PROVE Times(u, l)' = Times(u, l)
  <2>1. CASE u = t
    <3>1. InList(l)' <=> InList(l)
      BY DEF InList
    <3> QED
      BY <2>1, <3>1 DEF Times
  <2>2. CASE u # t
    BY <2>2, SameTimes
  <2> QED
    BY <2>1, <2>2
<1>2. MutexExact' /\ OwnerExact' /\ ListWhole(f)'
  BY <1>1 DEF Held, MutexExact, OwnerExact, ListWhole
<1> QED
  BY <1>2 DEF Held

LEMMA TryFailsHeld ==
  ASSUME Typed, NEW f, Held(f), NEW t \in Threads, TryFails(t)
  PROVE  Held(f)'
<1> DEFINE k == pc[t].lck
<1>1. /\ k # End /\ InList(k) /\ k \in Locks /\ pc[t].at = "try"
      /\ UNCHANGED <<mutex, list, owner, inside, outside>>
  BY ListFacts DEF TryFails, object, Held, CallsWell
<1>2. /\ pc'[t] = [at |-> "undo", lck |-> Before(k), op |-> pc[t].op, arg |-> pc[t].arg]
      /\ \A u \in Threads \ {t} : pc'[u] = pc[u]
  BY <1>1, Went, AroundTyped DEF TryFails, Places
<1>3. \/ Before(k) = End /\ IndexOf(k) = 1
      \/ Before(k) # End /\ InList(Before(k)) /\ IndexOf(Before(k)) = IndexOf(k) - 1
  BY <1>1, Neighbours DEF Held
<1>4. CallsWell'
  BY <1>1, <1>2, <1>3, CallKept DEF Chaining
<1>5. ASSUME NEW l \in Locks
      PROVE  Passing(t, l)' <=> Passing(t, l)
  <2>1. /\ IndexOf(k) \in 1 .. Len(list) /\ Len(list) \in Nat
        /\ InList(l) => IndexOf(l) \in 1 .. Len(list)
    BY <1>1, ListFacts DEF Held
  <2>2. Passing(t, l) <=> InList(l) /\ IndexOf(l) < IndexOf(k)
    BY <1>1 DEF Passing
  <2>3. Passing(t, l)' <=> InList(l) /\ Before(k) # End /\ IndexOf(l) <= IndexOf(Before(k))
    BY <1>1, <1>2, PassingNext
  <2> QED
    BY <1>3, <2>1, <2>2, <2>3
<1> QED
  BY <1>1, <1>2, <1>4, <1>5, NothingTaken

LEMMA GiveNextHeld ==
  ASSUME Typed, NEW f, Held(f), NEW t \in Threads, GiveNext(t)
  PROVE  Held(f)'
<1> DEFINE k == pc[t].lck
<1>1. /\ k # End /\ InList(k) /\ k \in Locks /\ pc[t].at \in {"release", "undo"}
      /\ mutex' = Give(t, k, 1) /\ UNCHANGED <<list, owner, inside, outside>>
  BY ListFacts DEF GiveNext, object, Held, CallsWell
<1>2. /\ pc'[t] = [at |-> pc[t].at, lck |-> Before(k), op |-> pc[t].op, arg |-> pc[t].arg]
      /\ \A u \in Threads \ {t} : pc'[u] = pc[u]
  BY <1>1, Went, AroundTyped DEF GiveNext, Places
<1>3. \/ Before(k) = End /\ IndexOf(k) = 1
      \/ Before(k) # End /\ InList(Before(k)) /\ IndexOf(Before(k)) = IndexOf(k) - 1
  BY <1>1, Neighbours DEF Held
<1>4. CallsWell' /\ ListWhole(f)'
  BY <1>1, <1>2, <1>3, CallKept DEF Chaining
<1>5. /\ IndexOf(k) \in 1 .. Len(list) /\ list[IndexOf(k)] = k /\ Len(list) \in Nat
      /\ \A l : InList(l) => IndexOf(l) \in 1 .. Len(list) /\ list[IndexOf(l)] = l
  BY <1>1, ListFacts DEF Held
<1>6. Passing(t, k)
  BY <1>1, <1>5 DEF Passing
<1>7. inside'[t] = inside[t] /\ outside'[t] = outside[t] /\ inside[t] \in Nat
  BY <1>1, BoundAssumption DEF Typed
<1>8. Times(t, k) >= 1
  BY <1>6, <1>7 DEF Times
<1>9. ASSUME NEW l \in Locks
      PROVE  Times(t, l)' = Times(t, l) - (IF l = k THEN 1 ELSE 0)
  <2>1. InList(l)' <=> InList(l)
    BY <1>1 DEF InList
  <2>2. Passing(t, l) <=> InList(l) /\ IndexOf(l) <= IndexOf(k)
    BY <1>1 DEF Passing
  <2>3. Passing(t, l)' <=> InList(l) /\ IndexOf(l) < IndexOf(k)
    <3>1. Passing(t, l)' <=> InList(l) /\ Before(k) # End /\ IndexOf(l) <= IndexOf(Before(k))
      BY <1>1, <1>2, PassingNext
    <3> QED
      BY <1>3, <1>5, <3>1
  <2>4. Passing(t, l)' <=> Passing(t, l) /\ l # k
    BY <1>1, <1>5, <2>2, <2>3
  <2> QED
    BY <1>6, <1>7, <2>1, <2>4 DEF Times
<1>10. \A u \in Threads, l \in Locks :
         Times(u, l)' = Times(u, l) - (IF u = t /\ l = k THEN 1 ELSE 0)
  <2>1. ASSUME NEW u \in Threads, NEW l \in Locks
        PROVE  Times(u, l)' = Times(u, l) - (IF u = t /\ l = k THEN 1 ELSE 0)
    <3>1. CASE u = t
      BY <1>9, <3>1
    <3>2. CASE u # t
      BY <1>1, <1>2, <3>2, SameTimes, TimesNat
    <3> QED
      BY <3>1, <3>2
  <2> QED
    BY <2>1
<1>11. MutexExact'
  BY <1>1, <1>8, <1>10, GiveExact DEF Held
<1>12. OwnerExact'
  BY <1>1 DEF Held, OwnerExact
<1> QED
  BY <1>4, <1>11, <1>12 DEF Held

LEMMA EnterHeld ==
  ASSUME Typed, NEW f, Held(f), NEW t \in Threads, Enter(t)
  PROVE  Held(f)'
<1>1. /\ pc[t].at \in {"acquire", "try"} /\ pc[t].lck = End
      /\ UNCHANGED <<mutex, list, outside>> /\ inside' = [inside EXCEPT ![t] = @ + 1]
  BY DEF Enter
<1>2. pc[t] \in Calls /\ inside[t] \in Nat
  BY BoundAssumption DEF Typed
<1>3. inside'[t] = inside[t] + 1 /\ \A u \in Threads \ {t} : inside'[u] = inside[u]
  BY <1>1 DEF Typed
<1>4. /\ pc'[t].at \in {"ready", "body"} /\ pc'[t].lck = End
      /\ pc'[t].at = "body" => pc'[t].op = pc[t].op /\ pc'[t].arg = pc[t].arg
      /\ \A u \in Threads \ {t} : pc'[u] = pc[u]
  BY <1>1, <1>2 DEF Enter, Typed, Ready, Calls
<1>5. f # End
  BY ListFacts DEF Held
<1>6. \A u \in Threads \ {t} : inside[u] = 0
  BY <1>1, <1>5, Alone DEF Within
<1>7. CallsWell' /\ ListWhole(f)'
  BY <1>1, <1>4, CallKept DEF Chaining
<1>8. ASSUME NEW u \in Threads, NEW l \in Locks PROVE Times(u, l)' = Times(u, l)
  <2>1. CASE u = t
    <3>1. (InList(l)' <=> InList(l)) /\ (Passing(t, l) <=> InList(l))
      BY <1>1 DEF InList, Passing
    <3>2. ~Passing(t, l)'
      BY <1>1, <1>4, PassingNext
    <3> QED
      BY <1>1, <1>2, <1>3, <2>1, <3>1, <3>2 DEF Times
  <2>2. CASE u # t
    BY <1>1, <1>3, <1>4, <2>2, SameTimes
  <2> QED
    BY <2>1, <2>2
<1>9. MutexExact'
  BY <1>1, <1>8 DEF Held, MutexExact
<1>10. OwnerExact'
  <2>1. owner' = [thread |-> t, cnt |-> inside[t] + 1]
    <3>1. CASE inside[t] > 0
      <4>1. owner = [thread |-> t, cnt |-> inside[t]] /\ t # NoThread
        BY <3>1, CreatorAssumption DEF Held, OwnerExact
      <4> QED
        BY <4>1 DEF Enter
    <3>2. CASE inside[t] = 0
      <4>1. owner.thread = NoThread
        BY <1>6, <3>2 DEF Held, OwnerExact
      <4> QED
        BY <3>2, <4>1 DEF Enter
    <3> QED
      BY <1>2, <3>1, <3>2
  <2>2. inside'[t] > 0 /\ \A u \in Threads \ {t} : inside'[u] = 0
    BY <1>2, <1>3, <1>6
  <2> QED
    BY <1>3, <2>1, <2>2 DEF OwnerExact
<1> QED
  BY <1>7, <1>9, <1>10 DEF Held

(* Back from a call, or into one that takes no mutex of the list.           *)
LEMMA AsideHeld ==
  ASSUME Typed, NEW f, Held(f), NEW t \in Threads,
         UNCHANGED <<mutex, list, owner, inside, outside>>,
         \A u \in Threads \ {t} : pc'[u] = pc[u],
         pc[t].at \notin {"acquire", "try"}, pc[t].lck = End,
         pc'[t].at \in {"ready", "dec_ref", "want"}, pc'[t].lck = End,
         pc'[t].at = "want" => pc'[t].arg \notin outside[t]
  PROVE  Held(f)'
<1>1. \A l \in Locks : Passing(t, l)' <=> Passing(t, l)
  <2>1. ASSUME NEW l \in Locks PROVE ~Passing(t, l) /\ ~Passing(t, l)'
    BY PassingNext DEF Passing
  <2> QED
    BY <2>1
<1>2. CallsWell'
  BY CallKept DEF Chaining
<1> QED
  BY <1>1, <1>2, NothingTaken

LEMMA BackHeld ==
  ASSUME Typed, NEW f, Held(f), NEW t \in Threads, Undone(t) \/ DecRef(t)
  PROVE  Held(f)'
<1>1. pc[t].lck = End /\ pc[t].at \notin {"acquire", "try"} /\ pc' = [pc EXCEPT ![t] = Ready]
  BY DEF Undone, DecRef
<1>2. pc'[t].at = "ready" /\ pc'[t].lck = End /\ \A u \in Threads \ {t} : pc'[u] = pc[u]
  BY <1>1 DEF Typed, Ready
<1>3. UNCHANGED <<mutex, list, owner, inside, outside>>
  BY DEF Undone, DecRef, object
<1> QED
  BY <1>1, <1>2, <1>3, AsideHeld

LEMMA RefHeld ==
  ASSUME Typed, NEW f, Held(f), NEW t \in Threads, GiveUp(t) \/ \E u \in Threads : AddRef(t, u)
  PROVE  Held(f)'
<1>1. UNCHANGED <<mutex, list, owner, inside, outside>>
  BY DEF GiveUp, AddRef
<1>2. CASE GiveUp(t)
  <2>1. pc[t].lck = End /\ pc[t].at = "ready"
    BY <1>2 DEF GiveUp, Ready
  <2>2. /\ pc'[t] = [at |-> "dec_ref", lck |-> End, op |-> pc[t].op, arg |-> pc[t].arg]
        /\ \A u \in Threads \ {t} : pc'[u] = pc[u]
    BY <1>2, Went DEF GiveUp, Places
  <2> QED
    BY <1>1, <2>1, <2>2, AsideHeld
<1>3. CASE \E u \in Threads : AddRef(t, u)
  <2>1. pc' = pc
    BY <1>3 DEF AddRef
  <2>2. \A l \in Locks : Passing(t, l)' <=> Passing(t, l)
    BY <1>1, <2>1 DEF Passing, InList, IndexOf
  <2>3. CallsWell'
    BY <1>1, <2>1 DEF Held, CallsWell, Chaining, InList
  <2> QED
    BY <1>1, <2>1, <2>2, <2>3, NothingTaken
<1> QED
  BY <1>2, <1>3

LEMMA WantHeld ==
  ASSUME Typed, NEW f, Held(f), NEW t \in Threads, NEW l \in Externals, WantExternal(t, l)
  PROVE  Held(f)'
<1>1. pc[t].lck = End /\ pc[t].at = "ready" /\ l \notin outside[t]
  BY DEF WantExternal, Ready
<1>2. pc'[t] = [Ready EXCEPT !.at = "want", !.arg = l] /\ \A u \in Threads \ {t} : pc'[u] = pc[u]
  BY DEF WantExternal, Typed
<1>3. pc'[t].at = "want" /\ pc'[t].lck = End /\ pc'[t].arg = l
  BY <1>2 DEF Ready
<1>4. UNCHANGED <<mutex, list, owner, inside, outside>>
  BY DEF WantExternal, object
<1> QED
  BY <1>1, <1>2, <1>3, <1>4, AsideHeld

LEMMA TakeExternalHeld ==
  ASSUME Typed, NEW f, Held(f), NEW t \in Threads, TakeExternal(t)
  PROVE  Held(f)'
<1> DEFINE k == pc[t].arg
<1>1. /\ k \in Externals /\ k \in Locks /\ pc[t].at = "want" /\ CanTake(t, k)
      /\ mutex' = Take(t, k, 1) /\ UNCHANGED <<list, owner, inside>>
  BY DEF TakeExternal, Typed, Begun, Locks
<1>2. pc[t].lck = End /\ k \notin outside[t]
  BY <1>1 DEF Held, CallsWell
<1>3. pc'[t].at = "ready" /\ pc'[t].lck = End /\ \A u \in Threads \ {t} : pc'[u] = pc[u]
  BY DEF TakeExternal, Typed, Ready
<1>4. outside'[t] = outside[t] \cup {k} /\ \A u \in Threads \ {t} : outside'[u] = outside[u]
  BY DEF TakeExternal, Typed
<1>5. CallsWell' /\ ListWhole(f)'
  BY <1>1, <1>3, <1>4, CallKept DEF Chaining
<1>6. ASSUME NEW u \in Threads, NEW l \in Locks
      PROVE  Times(u, l)' = Times(u, l) + (IF u = t /\ l = k THEN 1 ELSE 0)
  <2>1. CASE u = t
    <3>1. ~Passing(t, l) /\ ~Passing(t, l)'
      BY <1>1, <1>2, <1>3, PassingNext DEF Passing
    <3>2. (InList(l)' <=> InList(l)) /\ inside'[t] = inside[t] /\ inside[t] \in Nat
      BY <1>1, BoundAssumption DEF InList, Typed
    <3>3. (l \in outside'[t]) <=> (l \in outside[t] \/ l = k)
      BY <1>4
    <3> QED
      BY <1>2, <2>1, <3>1, <3>2, <3>3 DEF Times
  <2>2. CASE u # t
    BY <1>1, <1>3, <1>4, <2>2, SameTimes, TimesNat
  <2> QED
    BY <2>1, <2>2
<1>7. MutexExact'
  BY <1>1, <1>6, TakeExact DEF Held
<1>8. OwnerExact'
  BY <1>1 DEF Held, OwnerExact
<1> QED
  BY <1>5, <1>7, <1>8 DEF Held

LEMMA GiveExternalHeld ==
  ASSUME Typed, NEW f, Held(f), NEW t \in Threads, NEW k \in Externals, GiveExternal(t, k)
  PROVE  Held(f)'
<1>1. /\ k \in Locks /\ pc[t].at = "ready" /\ k \in outside[t] /\ pc' = pc
      /\ mutex' = Give(t, k, 1) /\ UNCHANGED <<list, owner, inside>>
  BY DEF GiveExternal, Locks, Ready
<1>2. outside'[t] = outside[t] \ {k} /\ \A u \in Threads \ {t} : outside'[u] = outside[u]
  BY DEF GiveExternal, Typed
<1>3. pc[t].lck = End
  BY <1>1 DEF Held, CallsWell
<1>4. CallsWell' /\ ListWhole(f)'
  BY <1>1, <1>2, <1>3, CallKept DEF Chaining
<1>5. inside[t] \in Nat
  BY BoundAssumption DEF Typed
<1>6. Times(t, k) >= 1
  BY <1>1, <1>5 DEF Times
<1>7. ASSUME NEW u \in Threads, NEW l \in Locks
      PROVE  Times(u, l)' = Times(u, l) - (IF u = t /\ l = k THEN 1 ELSE 0)
  <2>1. CASE u = t
    <3>1. ~Passing(t, l) /\ ~Passing(t, l)'
      BY <1>1, <1>3, PassingNext DEF Passing
    <3>2. (InList(l)' <=> InList(l)) /\ inside'[t] = inside[t]
      BY <1>1 DEF InList
    <3>3. (l \in outside'[t]) <=> (l \in outside[t] /\ l # k)
      BY <1>2
    <3> QED
      BY <1>1, <1>5, <2>1, <3>1, <3>2, <3>3 DEF Times
  <2>2. CASE u # t
    BY <1>1, <1>2, <2>2, SameTimes, TimesNat
  <2> QED
    BY <2>1, <2>2
<1>8. MutexExact'
  BY <1>1, <1>6, <1>7, GiveExact DEF Held
<1>9. OwnerExact'
  BY <1>1 DEF Held, OwnerExact
<1> QED
  BY <1>4, <1>8, <1>9 DEF Held

(* The way out, from the list as the function leaves it: all of it is still *)
(* held, as often as before.                                                *)
LeavesWith(t, f) ==
  /\ inside[t] > 0 /\ pc[t].at \in {"ready", "body"}
  /\ Leave(t) /\ Goto(t, "release", Last(list')) /\ UNCHANGED outside
  /\ list' \in Seq(Locks) /\ Len(list') > 0 /\ Distinct(list') /\ list'[1] = f

LEMMA LeaveFacts ==
  ASSUME Typed, NEW f, Held(f), NEW t \in Threads, LeavesWith(t, f)
  PROVE  /\ pc[t].lck = End /\ owner = [thread |-> t, cnt |-> inside[t]]
         /\ inside[t] \in Nat /\ inside'[t] = inside[t] - 1
         /\ \A u \in Threads \ {t} : inside[u] = 0 /\ inside'[u] = 0 /\ pc'[u] = pc[u]
         /\ pc'[t] = [at |-> "release", lck |-> Last(list'), op |-> pc[t].op, arg |-> pc[t].arg]
         /\ Contains(list', f) /\ Contains(list', Last(list')) /\ Last(list') # End
<1>1. pc[t].lck = End
  BY DEF LeavesWith, Held, CallsWell
<1>2. owner = [thread |-> t, cnt |-> inside[t]]
  BY DEF LeavesWith, Held, OwnerExact
<1>3. inside[t] \in Nat /\ inside'[t] = inside[t] - 1 /\ \A u \in Threads \ {t} : inside'[u] = inside[u]
  BY BoundAssumption DEF LeavesWith, Leave, Typed
<1>4. \A u \in Threads \ {t} : inside[u] = 0
  BY Alone DEF Within, LeavesWith
<1>5. Len(list') \in 1 .. Len(list') /\ 1 \in 1 .. Len(list')
  BY LenProperties DEF LeavesWith
<1>6. Contains(list', f) /\ Contains(list', Last(list')) /\ Last(list') \in Locks
  BY <1>5, ElementOfSeq DEF LeavesWith, Contains, Last
<1>7. /\ pc'[t] = [at |-> "release", lck |-> Last(list'), op |-> pc[t].op, arg |-> pc[t].arg]
      /\ \A u \in Threads \ {t} : pc'[u] = pc[u]
  BY <1>6, Went DEF LeavesWith, Places
<1> QED
  BY <1>1, <1>2, <1>3, <1>4, <1>6, <1>7, LocksAssumption

LEMMA LeaveTimes ==
  ASSUME Typed, NEW f, Held(f), NEW t \in Threads, LeavesWith(t, f), NEW l \in Locks
  PROVE  /\ Times(t, l) = (IF InList(l) THEN inside[t] ELSE 0)
                          + (IF l \in outside[t] THEN 1 ELSE 0)
         /\ Times(t, l)' = (IF Contains(list', l) THEN inside[t] ELSE 0)
                           + (IF l \in outside[t] THEN 1 ELSE 0)
         /\ \A u \in Threads \ {t} : Times(u, l)' = Times(u, l)
<1>1. list' \in Seq(Locks) /\ Distinct(list') /\ list'[1] = f /\ outside' = outside
      /\ Len(list') > 0 /\ pc[t].at \in {"ready", "body"}
  BY DEF LeavesWith
<1>2. /\ pc[t].lck = End /\ inside[t] \in Nat /\ inside'[t] = inside[t] - 1
      /\ \A u \in Threads \ {t} : inside[u] = 0 /\ inside'[u] = 0 /\ pc'[u] = pc[u]
      /\ pc'[t] = [at |-> "release", lck |-> Last(list'), op |-> pc[t].op, arg |-> pc[t].arg]
      /\ Last(list') # End
  BY LeaveFacts
<1>3. /\ DOMAIN list' = 1 .. Len(list') /\ Len(list') \in Nat
      /\ \A i \in 1 .. Len(list') : (CHOOSE j \in DOMAIN list' : list'[j] = list'[i]) = i
      /\ \A k : Contains(list', k) =>
              (CHOOSE j \in DOMAIN list' : list'[j] = k) \in 1 .. Len(list')
  BY <1>1, Indices
<1>4. ~Passing(t, l)
  BY <1>1 DEF Passing
<1>5. Passing(t, l)' <=> Contains(list', l)
  <2>1. IndexOf(pc[t].lck)' = Len(list')
    <3>1. IndexOf(pc[t].lck)' = CHOOSE j \in DOMAIN list' : list'[j] = list'[Len(list')]
      BY <1>2 DEF IndexOf, Last
    <3>2. Len(list') \in 1 .. Len(list')
      BY <1>1, <1>3
    <3> QED
      BY <1>3, <3>1, <3>2
  <2>2. IndexOf(l)' = CHOOSE j \in DOMAIN list' : list'[j] = l
    BY DEF IndexOf
  <2>3. Passing(t, l)' <=> Contains(list', l) /\ IndexOf(l)' <= IndexOf(pc[t].lck)'
    BY <1>2 DEF Passing, InList
  <2>4. Contains(list', l) => IndexOf(l)' \in 1 .. Len(list')
    BY <1>3, <2>2
  <2>5. Contains(list', l) => IndexOf(l)' <= IndexOf(pc[t].lck)'
    BY <1>3, <2>1, <2>4
  <2> QED
    BY <2>3, <2>5
<1>6. InList(l)' <=> Contains(list', l)
  BY DEF InList
<1>7. ASSUME NEW u \in Threads \ {t} PROVE Times(u, l)' = Times(u, l)
  <2>1. pc'[u] = pc[u] /\ inside[u] = 0 /\ inside'[u] = 0 /\ outside'[u] = outside[u]
    BY <1>1, <1>2
  <2>2. /\ pc[u].at \in {"acquire", "try"} => pc[u].lck = f
        /\ pc[u].at \notin {"acquire", "try"} => pc[u].lck = End
    BY Alone DEF Within, LeavesWith
  <2>3. ~Passing(u, l)
    <3>1. IndexOf(f) = 1 /\ f # End /\ (InList(l) => IndexOf(l) \in 1 .. Len(list) /\ Len(list) \in Nat)
      BY ListFacts DEF Held
    <3> QED
      BY <2>2, <3>1 DEF Passing
  <2>4. ~Passing(u, l)'
    <3>1. IndexOf(l)' = CHOOSE j \in DOMAIN list' : list'[j] = l
      BY DEF IndexOf
    <3>2. pc[u].lck = f => IndexOf(pc[u].lck)' = 1
      <4>1. pc[u].lck = f => IndexOf(pc[u].lck)' = CHOOSE j \in DOMAIN list' : list'[j] = list'[1]
        BY <1>1, <2>1 DEF IndexOf
      <4>2. 1 \in 1 .. Len(list')
        BY <1>1, <1>3
      <4>3. (CHOOSE j \in DOMAIN list' : list'[j] = list'[1]) = 1
        BY <1>3, <4>2
      <4> QED
        BY <4>1, <4>3
    <3>3. f # End
      BY ListFacts DEF Held
    <3>4. Contains(list', l) => ~(IndexOf(l)' < 1)
      BY <1>3, <3>1
    <3> QED
      BY <1>6, <2>1, <2>2, <3>2, <3>3, <3>4 DEF Passing
  <2> QED
    BY <2>1, <2>3, <2>4 DEF Times
<1> QED
  BY <1>1, <1>2, <1>4, <1>5, <1>6, <1>7 DEF Times

LEMMA LeaveHeld ==
  ASSUME Typed, NEW f, Held(f), NEW t \in Threads, LeavesWith(t, f),
         \A i \in DOMAIN list' : list'[i] \in {OwnLock} \cup Chained \cup Joining,
         \A u \in Threads \ {t} : Chaining(u) => ~Contains(list', pc[u].arg)
  PROVE  OwnerExact' /\ CallsWell' /\ ListWhole(f)'
<1>1. /\ pc[t].lck = End /\ inside[t] \in Nat /\ inside'[t] = inside[t] - 1
      /\ \A u \in Threads \ {t} : inside[u] = 0 /\ inside'[u] = 0 /\ pc'[u] = pc[u]
      /\ pc'[t] = [at |-> "release", lck |-> Last(list'), op |-> pc[t].op, arg |-> pc[t].arg]
      /\ Contains(list', f) /\ Contains(list', Last(list')) /\ Last(list') # End
      /\ owner = [thread |-> t, cnt |-> inside[t]]
  BY LeaveFacts
<1>2. OwnerExact'
  <2>1. CASE inside[t] > 1
    <3>1. owner' = [thread |-> t, cnt |-> inside[t] - 1]
      BY <1>1, <2>1 DEF LeavesWith, Leave
    <3> QED
      BY <1>1, <2>1, <3>1 DEF OwnerExact
  <2>2. CASE ~(inside[t] > 1)
    <3>1. owner' = [thread |-> NoThread, cnt |-> 0] /\ inside'[t] = 0
      BY <1>1, <2>2 DEF LeavesWith, Leave
    <3> QED
      BY <1>1, <3>1 DEF OwnerExact
  <2> QED
    BY <2>1, <2>2
<1>3. ListWhole(f)'
  BY DEF LeavesWith, ListWhole, Distinct
<1>4. ASSUME NEW u \in Threads
      PROVE  /\ pc'[u].lck # End => Contains(list', pc'[u].lck)
             /\ pc'[u].lck # End => pc'[u].at \in {"acquire", "try", "release", "undo"}
             /\ pc'[u].at = "want" => pc'[u].arg \notin outside'[u]
             /\ Chaining(u)' => Chaining(u) /\ u # t /\ ~Contains(list', pc'[u].arg)
  <2>1. CASE u = t
    BY <1>1, <2>1 DEF Chaining
  <2>2. CASE u # t
    <3>1. pc'[u] = pc[u] /\ outside'[u] = outside[u]
      BY <1>1, <2>2 DEF LeavesWith
    <3>2. /\ pc[u].at \in {"acquire", "try"} => pc[u].lck = f
          /\ pc[u].at \notin {"acquire", "try"} => pc[u].lck = End
      BY <2>2, Alone DEF Within, LeavesWith
    <3> QED
      BY <1>1, <2>2, <3>1, <3>2 DEF Held, CallsWell, Chaining
  <2> QED
    BY <2>1, <2>2
<1>5. \A u, v \in Threads : Chaining(u)' /\ Chaining(v)' /\ u # v => pc'[u].arg # pc'[v].arg
  BY <1>1, <1>4 DEF Held, CallsWell
<1>6. CallsWell'
  BY <1>4, <1>5 DEF CallsWell, InList
<1> QED
  BY <1>2, <1>3, <1>6

(* A release, and what changes no more than the handlers. *)
LEMMA PlainLeaveHeld ==
  ASSUME Typed, NEW f, Held(f), NEW t \in Threads,
         Release(t) \/ AddHandler(t) \/ DelHandler(t) \/ (UnchainLock(t) /\ ~InList(pc[t].arg))
  PROVE  Held(f)'
<1>1. list' = list /\ mutex' = mutex /\ outside' = outside
  BY DEF Release, AddHandler, DelHandler, UnchainLock, Finish
<1>2. inside[t] > 0 /\ pc[t].at \in {"ready", "body"}
  BY DEF Release, AddHandler, DelHandler, UnchainLock, Ready, Typed, Begun
<1>3. Leave(t) /\ Goto(t, "release", Last(list'))
  <2>1. Leave(t) /\ Goto(t, "release", Last(list))
    BY DEF Release, AddHandler, DelHandler, UnchainLock, Finish
  <2> QED
    BY <1>1, <2>1
<1>4. list \in Seq(Locks) /\ Len(list) \in Nat \ {0} /\ Distinct(list) /\ list[1] = f
  BY ListFacts DEF Held, ListWhole, Distinct, Typed
<1>5. LeavesWith(t, f)
  BY <1>1, <1>2, <1>3, <1>4 DEF LeavesWith
<1>6. OwnerExact' /\ CallsWell' /\ ListWhole(f)'
  <2>1. \A i \in DOMAIN list' : list'[i] \in {OwnLock} \cup Chained \cup Joining
    BY <1>1 DEF Held, ListWhole
  <2>2. \A u \in Threads \ {t} : Chaining(u) => ~Contains(list', pc[u].arg)
    BY <1>1 DEF Held, CallsWell, InList
  <2> QED
    BY <1>5, <2>1, <2>2, LeaveHeld
<1>7. ASSUME NEW u \in Threads, NEW l \in Locks PROVE Times(u, l)' = Times(u, l)
  BY <1>1, <1>5, LeaveTimes DEF InList
<1>8. MutexExact'
  BY <1>1, <1>7 DEF Held, MutexExact
<1> QED
  BY <1>6, <1>8 DEF Held

LEMMA ChainHeld ==
  ASSUME Typed, NEW f, IsFirst(f), Held(f), NEW t \in Threads, ChainLock(t)
  PROVE  Held(f)'
<1> DEFINE k == pc[t].arg
           p == Slot(k)
<1>1. /\ k \in Joining /\ k \in Locks /\ k # OwnLock /\ k # f /\ inside[t] > 0 /\ pc[t].at = "body"
      /\ ~InList(k) /\ Chaining(t)
  BY JoinAssumption, LocksAssumption
     DEF ChainLock, Typed, Begun, Locks, Held, CallsWell, Chaining, IsFirst
<1>2. list \in Seq(Locks) /\ Len(list) \in Nat \ {0} /\ DOMAIN list = 1 .. Len(list)
      /\ Distinct(list) /\ list[1] = f
      /\ \A i \in 1 .. Len(list) : list[i] \in {OwnLock} \cup Chained \cup Joining
  BY ListFacts DEF Held, ListWhole, Distinct, Typed
<1>3. p \in 2 .. Len(list) + 1
  <2>1. p \in 1 .. Len(list) + 1
    BY SlotInside
  <2>2. PosOf(list[1]) < Prio[k]
    <3>1. PosOf(k) = Prio[k]
      BY <1>1 DEF PosOf
    <3> QED
      BY <1>1, <1>2, <3>1 DEF IsFirst
  <2> DEFINE S == {i \in DOMAIN list : PosOf(list[i]) < Prio[k]}
  <2>3. S # {}
    BY <1>2, <2>2
  <2>4. IsFiniteSet(S)
    <3>1. S \in SUBSET (1 .. Len(list)) /\ IsFiniteSet(1 .. Len(list))
      BY <1>2, FS_Interval
    <3> QED
      BY <3>1, FS_Subset
  <2>5. Cardinality(S) \in Nat \ {0}
    BY <2>3, <2>4, FS_CardinalityType, FS_EmptySet
  <2>6. p = Cardinality(S) + 1
    BY DEF Slot
  <2> HIDE DEF S, p
  <2> QED
    BY <1>2, <2>1, <2>5, <2>6
<1> HIDE DEF p
<1>4. /\ list' \in Seq(Locks) /\ Len(list') = Len(list) + 1
      /\ \A j \in 1 .. Len(list) + 1 :
           list'[j] = IF j < p THEN list[j] ELSE IF j = p THEN k ELSE list[j - 1]
  <2>1. list' = InsertAt(list, p, k)
    BY DEF ChainLock, Finish, p
  <2>2. p \in 1 .. Len(list) + 1
    BY <1>2, <1>3
  <2>3. ASSUME NEW n \in 1 .. Len(list) + 1, NEW e \in Locks
        PROVE  /\ InsertAt(list, n, e) \in Seq(Locks) /\ Len(InsertAt(list, n, e)) = Len(list) + 1
               /\ \A j \in 1 .. Len(list) + 1 : InsertAt(list, n, e)[j] =
                    IF j < n THEN list[j] ELSE IF j = n THEN e ELSE list[j - 1]
    <3>1. list \in Seq(Locks)
      BY DEF Typed
    <3> QED
      BY <3>1, Inserted
  <2>4. k \in Locks
    BY <1>1
  <2> HIDE DEF k
  <2>5. /\ InsertAt(list, p, k) \in Seq(Locks) /\ Len(InsertAt(list, p, k)) = Len(list) + 1
        /\ \A j \in 1 .. Len(list) + 1 : InsertAt(list, p, k)[j] =
             IF j < p THEN list[j] ELSE IF j = p THEN k ELSE list[j - 1]
    BY ONLY <2>2, <2>3, <2>4, Zenon
  <2> QED
    BY ONLY <2>1, <2>5, Zenon
<1>5. DOMAIN list' = 1 .. Len(list) + 1 /\ list'[1] = f
  BY <1>2, <1>3, <1>4, LenProperties
<1>6. \A l : Contains(list', l) <=> InList(l) \/ l = k
  <2>1. ASSUME NEW j \in 1 .. Len(list) + 1 PROVE list'[j] = k \/ InList(list'[j])
    <3>1. j < p \/ j = p \/ (j > p /\ j - 1 \in 1 .. Len(list))
      BY <1>2, <1>3
    <3> QED
      BY <1>2, <1>3, <1>4, <3>1 DEF InList, Contains
  <2>2. Contains(list', k)
    BY <1>2, <1>3, <1>4 DEF Contains
  <2>3. ASSUME NEW i \in 1 .. Len(list) PROVE Contains(list', list[i])
    <3>1. CASE i < p
      BY <1>2, <1>3, <1>4, <3>1 DEF Contains
    <3>2. CASE ~(i < p)
      <4>1. i + 1 \in 1 .. Len(list) + 1 /\ ~(i + 1 < p) /\ i + 1 # p /\ (i + 1) - 1 = i
        BY <1>2, <1>3, <3>2
      <4>2. list'[i + 1] = list[(i + 1) - 1]
        BY <1>4, <4>1
      <4> QED
        BY <1>4, <4>1, <4>2 DEF Contains
    <3> QED
      BY <3>1, <3>2
  <2> QED
    BY <1>4, <2>1, <2>2, <2>3 DEF InList, Contains
<1>7. Distinct(list')
  <2>1. SUFFICES ASSUME NEW i \in 1 .. Len(list) + 1, NEW j \in 1 .. Len(list) + 1,
                        list'[i] = list'[j]
                 PROVE  i = j
    BY <1>5 DEF Distinct
  <2>2. \A n \in 1 .. Len(list) : list[n] # k
    BY <1>1 DEF InList, Contains
  <2> DEFINE old(n) == IF n < p THEN n ELSE n - 1
  <2>3. \A n \in 1 .. Len(list) + 1 : n # p => old(n) \in 1 .. Len(list) /\ list'[n] = list[old(n)]
    BY <1>2, <1>3, <1>4
  <2>4. list'[p] = k
    BY <1>2, <1>3, <1>4
  <2>5. CASE i = p \/ j = p
    BY <2>1, <2>2, <2>3, <2>4, <2>5
  <2>6. CASE i # p /\ j # p
    <3>1. old(i) = old(j)
      BY <1>2, <2>1, <2>3, <2>6 DEF Distinct
    <3> QED
      BY <1>2, <1>3, <2>6, <3>1
  <2> QED
    BY <2>5, <2>6
<1>8. LeavesWith(t, f)
  BY <1>1, <1>2, <1>4, <1>5, <1>7 DEF LeavesWith, ChainLock, Finish
<1>9. OwnerExact' /\ CallsWell' /\ ListWhole(f)'
  <2>1. \A i \in DOMAIN list' : list'[i] \in {OwnLock} \cup Chained \cup Joining
    <3>1. ASSUME NEW j \in 1 .. Len(list) + 1 PROVE list'[j] \in {OwnLock} \cup Chained \cup Joining
      <4>1. j < p \/ j = p \/ (j > p /\ j - 1 \in 1 .. Len(list))
        BY <1>2, <1>3
      <4> QED
        BY <1>1, <1>2, <1>3, <1>4, <4>1
    <3> QED
      BY <1>5, <3>1
  <2>2. \A u \in Threads \ {t} : Chaining(u) => ~Contains(list', pc[u].arg)
    BY <1>1, <1>6 DEF Held, CallsWell
  <2> QED
    BY <1>8, <2>1, <2>2, LeaveHeld
<1>10. owner.cnt = inside[t] /\ inside[t] \in Nat
  <2>1. owner = [thread |-> t, cnt |-> inside[t]] /\ inside[t] \in Nat
    BY <1>8, LeaveFacts
  <2> QED
    BY <2>1
<1>11. ASSUME NEW u \in Threads, NEW l \in Locks
       PROVE  Times(u, l)' = Times(u, l) + (IF u = t /\ l = k THEN owner.cnt ELSE 0)
  <2>1. CASE u = t
    BY <1>1, <1>6, <1>8, <1>10, <2>1, LeaveTimes
  <2>2. CASE u # t
    BY <1>8, <2>2, LeaveTimes, TimesNat
  <2> QED
    BY <2>1, <2>2
<1>12. MutexExact'
  <2>1. CanTake(t, k) /\ mutex' = Take(t, k, owner.cnt) /\ owner.cnt \in Nat
    BY <1>10 DEF ChainLock
  <2> QED
    BY <1>1, <1>11, <2>1, TakeExact DEF Held
<1> QED
  BY <1>9, <1>12 DEF Held

LEMMA UnchainHeld ==
  ASSUME Typed, NEW f, IsFirst(f), Held(f), NEW t \in Threads, UnchainLock(t), InList(pc[t].arg)
  PROVE  Held(f)'
<1> DEFINE k == pc[t].arg
           p == IndexOf(k)
<1>1. k \in Joining /\ k \in Locks /\ k # f /\ inside[t] > 0 /\ pc[t].at = "body" /\ InList(k)
  BY JoinAssumption DEF UnchainLock, Typed, Begun, Locks, IsFirst
<1>2. list \in Seq(Locks) /\ Len(list) \in Nat \ {0} /\ DOMAIN list = 1 .. Len(list)
      /\ Distinct(list) /\ list[1] = f
      /\ \A i \in 1 .. Len(list) : list[i] \in {OwnLock} \cup Chained \cup Joining
  BY ListFacts DEF Held, ListWhole, Distinct, Typed
<1>3. p \in 2 .. Len(list) /\ list[p] = k
  <2>1. p \in 1 .. Len(list) /\ list[p] = k
    BY <1>1, ListFacts DEF Held
  <2>2. p # 1
    BY <1>1, <1>2, <2>1
  <2> QED
    BY <1>2, <2>1, <2>2
<1> HIDE DEF p
<1>4. /\ list' \in Seq(Locks) /\ Len(list') = Len(list) - 1
      /\ \A j \in 1 .. Len(list) - 1 : list'[j] = IF j < p THEN list[j] ELSE list[j + 1]
  <2>1. list' = RemoveAt(list, p)
    BY <1>1 DEF UnchainLock, Finish, p
  <2>2. p \in 1 .. Len(list) /\ list \in Seq(Locks)
    BY <1>2, <1>3
  <2> QED
    BY <2>1, <2>2, Removed
<1>5. DOMAIN list' = 1 .. Len(list) - 1 /\ Len(list) - 1 > 0 /\ list'[1] = f
  BY <1>2, <1>3, <1>4, LenProperties
<1> DEFINE old(n) == IF n < p THEN n ELSE n + 1
<1>6. \A n \in 1 .. Len(list) - 1 :
         old(n) \in 1 .. Len(list) /\ old(n) # p /\ list'[n] = list[old(n)]
  BY <1>2, <1>3, <1>4
<1>7. \A l : Contains(list', l) <=> InList(l) /\ l # k
  <2>1. ASSUME NEW n \in 1 .. Len(list) - 1 PROVE list'[n] # k /\ InList(list'[n])
    <3>1. old(n) \in 1 .. Len(list) /\ old(n) # p /\ list'[n] = list[old(n)]
      BY <1>6
    <3>2. list[old(n)] # k
      BY <1>2, <1>3, <3>1 DEF Distinct
    <3> QED
      BY <3>1, <3>2 DEF InList, Contains
  <2>2. ASSUME NEW i \in 1 .. Len(list), list[i] # k PROVE Contains(list', list[i])
    <3>1. i # p
      BY <1>3, <2>2
    <3>2. CASE i < p
      BY <1>2, <1>3, <1>4, <3>2 DEF Contains
    <3>3. CASE i > p
      <4>1. i - 1 \in 1 .. Len(list) - 1 /\ ~(i - 1 < p) /\ (i - 1) + 1 = i
        BY <1>2, <1>3, <3>3
      <4>2. list'[i - 1] = list[(i - 1) + 1]
        BY <1>4, <4>1
      <4> QED
        BY <1>4, <4>1, <4>2 DEF Contains
    <3> QED
      BY <1>2, <1>3, <3>1, <3>2, <3>3
  <2> QED
    BY <1>4, <2>1, <2>2, ZenonT(40) DEF InList, Contains
<1>8. Distinct(list')
  <2>1. SUFFICES ASSUME NEW i \in 1 .. Len(list) - 1, NEW j \in 1 .. Len(list) - 1,
                        list'[i] = list'[j]
                 PROVE  i = j
    BY <1>5 DEF Distinct
  <2>2. old(i) = old(j)
    BY <1>2, <1>6, <2>1 DEF Distinct
  <2> QED
    BY <1>2, <1>3, <2>2
<1>9. LeavesWith(t, f)
  <2>1. Leave(t) /\ Goto(t, "release", Last(list')) /\ UNCHANGED outside
    <3>1. /\ list' = RemoveAt(list, p) /\ Leave(t) /\ UNCHANGED outside
          /\ Goto(t, "release", Last(RemoveAt(list, p)))
      BY <1>1 DEF UnchainLock, Finish, p
    <3> QED
      BY <3>1
  <2> QED
    BY <1>1, <1>4, <1>5, <1>8, <2>1 DEF LeavesWith
<1>10. OwnerExact' /\ CallsWell' /\ ListWhole(f)'
  <2>1. \A i \in DOMAIN list' : list'[i] \in {OwnLock} \cup Chained \cup Joining
    BY <1>2, <1>5, <1>6
  <2>2. \A u \in Threads \ {t} : Chaining(u) => ~Contains(list', pc[u].arg)
    BY <1>7 DEF Held, CallsWell
  <2> QED
    BY <1>9, <2>1, <2>2, LeaveHeld
<1>11. owner.cnt = inside[t] /\ inside[t] \in Nat
  <2>1. owner = [thread |-> t, cnt |-> inside[t]] /\ inside[t] \in Nat
    BY <1>9, LeaveFacts
  <2> QED
    BY <2>1
<1>12. ASSUME NEW u \in Threads, NEW l \in Locks
       PROVE  Times(u, l)' = Times(u, l) - (IF u = t /\ l = k THEN owner.cnt ELSE 0)
  <2>1. CASE u = t
    BY <1>1, <1>7, <1>9, <1>11, <2>1, LeaveTimes
  <2>2. CASE u # t
    BY <1>9, <2>2, LeaveTimes, TimesNat
  <2> QED
    BY <2>1, <2>2
<1>13. MutexExact'
  <2>1. mutex' = Give(t, k, owner.cnt) /\ owner.cnt \in Nat \ {0}
    BY <1>1, <1>11 DEF UnchainLock
  <2>2. Times(t, k) >= owner.cnt
    BY <1>1, <1>9, <1>11, LeaveTimes
  <2> QED
    BY <1>1, <1>12, <2>1, <2>2, GiveExact DEF Held
<1> QED
  BY <1>10, <1>13 DEF Held

LEMMA InitHeld ==
  ASSUME NEW f, IsFirst(f), Init
  PROVE  Held(f)
<1>1. list \in InitialLists
  BY DEF Init
<1> DEFINE S == {OwnLock} \cup Chained
<1>2. /\ list \in Seq(Locks) /\ Distinct(list)
      /\ \A l \in S : \E i \in DOMAIN list : list[i] = l
      /\ \A i \in DOMAIN list : list[i] \in S
  BY <1>1, ListOfLocks DEF Distinct
<1>3. DOMAIN list = 1 .. Len(list) /\ Len(list) \in Nat
  BY <1>2, LenProperties
<1>4. PICK i \in DOMAIN list : list[i] = f
  BY <1>2 DEF IsFirst
<1>5. \A l \in S : PosOf(l) \in Int
  BY PrioAssumption, JoinAssumption, LocksAssumption DEF PosOf
<1>6. 1 \in DOMAIN list /\ (i # 1 => 1 < i)
  BY <1>3, <1>4
<1>7. list[1] = f
  <2>1. SUFFICES ASSUME i # 1 PROVE FALSE
    BY <1>4
  <2>2. PosOf(list[1]) <= PosOf(list[i])
    BY <1>1, <1>6, <2>1 DEF InitialLists
  <2>3. list[1] # f
    BY <1>2, <1>4, <1>6, <2>1 DEF Distinct
  <2>4. PosOf(f) < PosOf(list[1])
    BY <1>2, <1>6, <2>3 DEF IsFirst
  <2> QED
    BY <1>2, <1>4, <1>5, <1>6, <2>2, <2>4
<1>8. ListWhole(f)
  BY <1>2, <1>7 DEF ListWhole, Distinct
<1>9. \A t \in Threads : pc[t] = Ready /\ inside[t] = 0 /\ outside[t] = {}
  BY DEF Init
<1>10. CallsWell
  BY <1>9 DEF CallsWell, Chaining, Ready
<1>11. MutexExact
  <2>1. ASSUME NEW t \in Threads, NEW l \in Locks PROVE Times(t, l) = 0
    BY <1>9 DEF Times, Passing, Ready
  <2>2. \A l \in Locks : mutex[l].owner = NoThread /\ mutex[l].cnt = 0
    BY DEF Init
  <2> QED
    BY <2>1, <2>2, CreatorAssumption DEF MutexExact
<1>12. OwnerExact
  BY <1>9 DEF OwnerExact, Init
<1> QED
  BY <1>8, <1>10, <1>11, <1>12 DEF Held

LEMMA NextHeld ==
  ASSUME NEW f, IsFirst(f)
  PROVE  Typed /\ Held(f) /\ [Next]_vars => Held(f)'
<1> SUFFICES ASSUME Typed, Held(f), [Next]_vars PROVE Held(f)'
  OBVIOUS
<1>1. ASSUME NEW t \in Threads, Acquire(t) \/ TryAcquire(t) PROVE Held(f)'
  BY <1>1, BeginHeld DEF Acquire, TryAcquire
<1>2. ASSUME NEW t \in Threads, NEW l \in Joining, Chain(t, l) \/ Unchain(t, l) PROVE Held(f)'
  BY <1>2, BeginHeld DEF Chain, Unchain
<1>3. ASSUME NEW t \in Threads, NEW h \in 1 .. MaxHandlers,
             CallAddHandler(t, h) \/ CallDelHandler(t, h)
      PROVE  Held(f)'
  BY <1>3, BeginHeld DEF CallAddHandler, CallDelHandler
<1>4. ASSUME NEW t \in Threads, TakeNext(t) \/ TryFails(t) \/ Enter(t) PROVE Held(f)'
  BY <1>4, TakeNextHeld, TryFailsHeld, EnterHeld
<1>5. ASSUME NEW t \in Threads, GiveNext(t) \/ Undone(t) \/ DecRef(t) PROVE Held(f)'
  BY <1>5, GiveNextHeld, BackHeld
<1>6. ASSUME NEW t \in Threads, Release(t) \/ AddHandler(t) \/ DelHandler(t) PROVE Held(f)'
  BY <1>6, PlainLeaveHeld
<1>7. ASSUME NEW t \in Threads, ChainLock(t) \/ UnchainLock(t) PROVE Held(f)'
  BY <1>7, ChainHeld, UnchainHeld, PlainLeaveHeld
<1>8. ASSUME NEW t \in Threads, GiveUp(t) \/ \E u \in Threads : AddRef(t, u) PROVE Held(f)'
  BY <1>8, RefHeld
<1>9. ASSUME NEW t \in Threads, NEW l \in Externals, WantExternal(t, l) \/ GiveExternal(t, l)
      PROVE  Held(f)'
  BY <1>9, WantHeld, GiveExternalHeld
<1>10. ASSUME NEW t \in Threads, TakeExternal(t) PROVE Held(f)'
  BY <1>10, TakeExternalHeld
<1>11. CASE Gone \/ UNCHANGED vars
  <2>1. UNCHANGED <<mutex, list, owner, inside, outside, pc>>
    BY <1>11 DEF Gone, vars
  <2>2. ASSUME NEW u \in Threads, NEW l \in Locks PROVE Times(u, l)' = Times(u, l)
    BY <2>1, SameTimes
  <2> QED
    BY <2>1, <2>2
    DEF Held, MutexExact, OwnerExact, ListWhole, CallsWell, Chaining, InList
<1> QED
  BY <1>1, <1>2, <1>3, <1>4, <1>5, <1>6, <1>7, <1>8, <1>9, <1>10, <1>11 DEF Next

LEMMA Holds ==
  ASSUME NEW f, IsFirst(f)
  PROVE  Spec => [](Typed /\ Counted /\ Held(f))
<1>1. Init => Typed /\ Counted /\ Held(f)
  BY InitTyped, InitCounted, InitHeld
<1>2. Typed /\ Counted /\ Held(f) /\ [Next]_vars => (Typed /\ Counted /\ Held(f))'
  BY NextTyped, NextCounted, NextHeld
<1> QED
  BY <1>1, <1>2, PTL DEF Spec

(* grp_lock_acquire: who is inside has every mutex of the list, also after  *)
(* locks have joined it and left it, and grp_lock_release gives back none   *)
(* that is not the thread's own.                                            *)
THEOREM GroupHolds == ASSUME FirstStays PROVE Spec => []HoldsWhatItUses
<1>1. PICK f \in Locks : IsFirst(f)
  BY DEF FirstStays
<1>2. Typed /\ Counted /\ Held(f) => HoldsWhatItUses
  <2> SUFFICES ASSUME Typed, Held(f) PROVE HoldsWhatItUses
    OBVIOUS
  <2>1. ASSUME NEW t \in Threads, inside[t] > 0, NEW i \in DOMAIN list
        PROVE  mutex[list[i]].owner = t
    <3>1. InList(list[i]) /\ list[i] \in Locks
      BY ListFacts DEF Held
    <3>2. inside[t] \in Nat
      BY BoundAssumption DEF Typed
    <3>3. Times(t, list[i]) > 0
      BY <2>1, <3>1, <3>2 DEF Times
    <3> QED
      BY <3>1, <3>3 DEF Held, MutexExact
  <2>2. ASSUME NEW t \in Threads, pc[t].at \in {"release", "undo"}, pc[t].lck # End
        PROVE  mutex[pc[t].lck].owner = t
    <3> DEFINE k == pc[t].lck
    <3>1. InList(k)
      BY <2>2 DEF Held, CallsWell
    <3>2. k \in Locks /\ IndexOf(k) \in 1 .. Len(list)
      BY <3>1, ListFacts DEF Held
    <3>3. Passing(t, k)
      BY <2>2, <3>1, <3>2 DEF Passing
    <3>4. inside[t] \in Nat
      BY BoundAssumption DEF Typed
    <3>5. Times(t, k) > 0
      BY <3>3, <3>4 DEF Times
    <3> QED
      BY <3>2, <3>5 DEF Held, MutexExact
  <2> QED
    BY <2>1, <2>2 DEF HoldsWhatItUses
<1>3. Spec => [](Typed /\ Counted /\ Held(f))
  BY <1>1, Holds
<1> QED
  BY <1>2, <1>3, PTL

(* grp_lock_destroy: the handlers are called once, in the order of their    *)
(* registration, when nobody relies on the lock, with no mutex held on the  *)
(* group's account.                                                         *)
THEOREM GroupDestroyedOnce == ASSUME FirstStays PROVE Spec => []DestroyedOnce
<1>1. PICK f \in Locks : IsFirst(f)
  BY DEF FirstStays
<1>2. Typed /\ Counted /\ Held(f) => DestroyedOnce
  <2> SUFFICES ASSUME Typed, Counted, Held(f) PROVE DestroyedOnce
    OBVIOUS
  <2>1. called = (IF alive THEN << >> ELSE handlers)
    BY DEF Counted
  <2>2. ASSUME ~alive, NEW t \in Threads
        PROVE  pc[t].at \in {"ready", "want"} /\ grants[t] = 0 /\ inside[t] = 0
    <3>1. ~(grants[t] > 0) /\ ~(inside[t] > 0)
          /\ pc[t].at \notin {"acquire", "try", "undo", "body", "release", "dec_ref"}
      BY <2>2, Used
    <3>2. pc[t].at \in Places /\ grants[t] \in 0 .. MaxGrants /\ inside[t] \in 0 .. MaxDepth
      BY DEF Typed, Calls
    <3> QED
      BY <3>1, <3>2, BoundAssumption DEF Places
  <2>3. ASSUME ~alive, NEW l \in Locks
        PROVE  mutex[l].cnt = Cardinality({t \in Threads : l \in outside[t]})
    <3>1. ASSUME NEW t \in Threads PROVE Times(t, l) = IF l \in outside[t] THEN 1 ELSE 0
      BY <2>2, <2>3 DEF Times, Passing
    <3>2. /\ mutex[l].owner = NoThread => mutex[l].cnt = 0
          /\ \A t \in Threads : Times(t, l) = IF mutex[l].owner = t THEN mutex[l].cnt ELSE 0
      BY DEF Held, MutexExact
    <3>3. mutex[l].owner \in Threads \cup {NoThread} /\ mutex[l].cnt \in Nat
      BY DEF Typed
    <3> DEFINE S == {t \in Threads : l \in outside[t]}
    <3>4. CASE mutex[l].owner = NoThread
      <4>1. S = {} /\ mutex[l].cnt = 0
        BY <3>1, <3>2, <3>4
      <4> QED
        BY <4>1, FS_EmptySet
    <3>5. CASE mutex[l].owner \in Threads
      <4>1. \A t \in Threads \ {mutex[l].owner} : l \notin outside[t]
        BY <3>1, <3>2
      <4>2. CASE l \in outside[mutex[l].owner]
        <5>1. S = {mutex[l].owner} /\ mutex[l].cnt = 1
          BY <3>1, <3>2, <3>5, <4>1, <4>2
        <5> QED
          BY <5>1, FS_Singleton
      <4>3. CASE l \notin outside[mutex[l].owner]
        <5>1. S = {} /\ mutex[l].cnt = 0
          BY <3>1, <3>2, <3>5, <4>1, <4>3
        <5> QED
          BY <5>1, FS_EmptySet
      <4> QED
        BY <4>2, <4>3
    <3> QED
      BY <3>3, <3>4, <3>5
  <2> QED
    BY <2>1, <2>2, <2>3 DEF DestroyedOnce
<1>3. Spec => [](Typed /\ Counted /\ Held(f))
  BY <1>1, Holds
<1> QED
  BY <1>2, <1>3, PTL
=============================================================================
