------------------------ MODULE TransportManager_proofs ------------------------
(***************************************************************************)
(* Transports are counted exactly, and an unused one is on its way out,    *)
(* whatever the numbers of threads, of users and of connections.           *)
(***************************************************************************)
EXTENDS TransportManager, FiniteSetTheorems, SequenceTheorems, TLAPS

(* What calls are made for: Sending gives a message to the connection, and *)
(* Carrying is for a user that waits for the call to go on.                *)
Sending  == {"enqueue", "push", "write"}
Carrying == Sending \cup {"receive"}
Anyone   == Users \cup {Nobody}
AnyCall  == Ops \X Transports \X Anyone

(* What is left to do when the innermost call has returned. *)
Rests(op, i) ==
    CASE op \in Sending -> {<<Call("dec", i)>>}
      [] op = "verify" -> {<<>>, <<Call("told", i)>>, <<Call("told", i), Call("drain", i)>>}
      [] op \in {"dec", "idle", "told", "disconnect"} -> {<<>>, <<Call("drain", i)>>}
      [] OTHER -> {<<>>}

Fits(s) ==
    /\ s \in Seq(AnyCall)
    /\ s # <<>> =>
          /\ Tail(s) \in Rests(Head(s)[1], Head(s)[2])
          /\ Head(s)[1] \in Carrying => Head(s)[3] \in Users
          /\ Head(s)[1] \notin Carrying \cup {"verify"} => Head(s)[3] = Nobody

Record ==
    [st: {"unborn", "live", "gone"}, ref: Nat, id: BOOLEAN, armed: BOOLEAN, raced: BOOLEAN,
     shut: BOOLEAN, dying: BOOLEAN, conn: {"connecting", "open", "closed", "failed"},
     delayed: Seq(Users), wire: SUBSET Users, lock: Threads \cup {Nobody}]
Holder ==
    [st: {"out", "arriving", "held", "sending", "sent", "dropped"},
     tp: Transports \cup {NoTp}, uses: Nat]

Typed ==
    /\ tp \in [Transports -> Record]
    /\ table \in Transports \cup {NoTp} /\ listed \subseteq Transports
    /\ DOMAIN stack = Threads /\ \A t \in Threads : Fits(stack[t])
    /\ user \in [Users -> Holder]
    /\ lost \in BOOLEAN

(* The manager knows the transports there are, each in one place. *)
Registered ==
    /\ \A i \in Transports : tp[i].st = "live" <=> Valid(i)
    /\ table \notin listed

(* Until a transport is lost, nothing is left of one that is not there. *)
Untouched(i) == Holders(i) = {} /\ ~tp[i].armed /\ \A t \in Threads : ~WorksOn(t, i)
Buried == ~lost => \A i \in Transports \ Live : Untouched(i)

(* A message is in one place until its sender is called back. *)
Queue(i) == {tp[i].delayed[n] : n \in DOMAIN tp[i].delayed}
Once(s)  == \A m, n \in DOMAIN s : s[m] = s[n] => m = n
Awaits(u, i) == user[u].st = "sending" /\ user[u].tp = i
Carries(t, u, i) == \E op \in Sending : CallFor(op, i, u) \in Calls(t)
Brings(t, u)     == \E i \in Transports : CallFor("receive", i, u) \in Calls(t)
Placed(u) ==
    /\ user[u].tp = NoTp <=> user[u].st \in {"out", "arriving"}
    /\ \A i \in Transports : u \in Queue(i) \cup tp[i].wire => Awaits(u, i) /\ u \notin Queue(i) \cap tp[i].wire
    /\ \A t \in Threads : Brings(t, u) => user[u].st = "arriving"
    /\ \A t \in Threads, i \in Transports : Carries(t, u, i) => Awaits(u, i) /\ u \notin Queue(i) \cup tp[i].wire
    /\ \A t, other \in Threads : Brings(t, u) /\ Brings(other, u) => t = other
    /\ \A t, other \in Threads, i \in Transports : Carries(t, u, i) /\ Carries(other, u, i) => t = other
Messages ==
    /\ \A i \in Transports : Once(tp[i].delayed)
    /\ \A u \in Users : Placed(u)

Exact(i) == tp[i].ref = Cardinality(Holders(i)) + Cardinality(Returning(i))
Counted  == \A i \in Live : Exact(i)

(* A transport that is to be destroyed is about to be, and one that nobody *)
(* uses has its timer, or a thread that sees to it.                        *)
Removing(i) == \E t \in Threads : Call("remove", i) \in Calls(t)
SeenTo(i)   == \E t \in Threads : \E op \in {"idle", "fire", "doom", "remove"} : Call(op, i) \in Calls(t)
EndsFor(i)  == (tp[i].dying => Removing(i)) /\ (tp[i].ref = 0 => tp[i].armed \/ SeenTo(i))
Ends        == \A i \in Live : EndsFor(i)

IInv == Typed /\ Registered /\ Buried /\ Messages /\ Counted /\ Ends

-----------------------------------------------------------------------------
(* Sequences, of calls and of messages. *)

Elements(s) == {s[n] : n \in DOMAIN s}
Later(t)   == Elements(Tail(stack[t]))

LEMMA OneCall == \A c : Elements(<<c>>) = {c}
BY DEF Elements

LEMMA TwoCalls == \A c, d : Elements(<<c, d>>) = {c, d}
<1> SUFFICES ASSUME NEW c, NEW d PROVE Elements(<<c, d>>) = {c, d}
  OBVIOUS
<1>1. DOMAIN <<c, d>> = {1, 2} /\ <<c, d>>[1] = c /\ <<c, d>>[2] = d
  OBVIOUS
<1> QED
  BY <1>1 DEF Elements

LEMMA NoCalls == Elements(<<>>) = {}
BY DEF Elements

(* The innermost call and those around it. *)
LEMMA Inner ==
  ASSUME NEW S, NEW s \in Seq(S), s # <<>>
  PROVE  /\ Head(s) \in S /\ Tail(s) \in Seq(S)
         /\ Elements(s) = {Head(s)} \cup Elements(Tail(s))
<1>1. /\ Len(s) \in Nat \ {0} /\ DOMAIN s = 1 .. Len(s) /\ Head(s) = s[1] /\ Head(s) \in S
      /\ Tail(s) \in Seq(S) /\ Len(Tail(s)) = Len(s) - 1
      /\ \A n \in 1 .. Len(s) - 1 : Tail(s)[n] = s[n + 1]
  BY HeadTailProperties, EmptySeq, LenProperties
<1>2. DOMAIN Tail(s) = 1 .. Len(s) - 1
  BY <1>1, LenProperties
<1>3. ASSUME NEW n \in DOMAIN s PROVE s[n] \in {Head(s)} \cup Elements(Tail(s))
  <2>1. CASE n = 1
    BY <2>1, <1>1
  <2>2. CASE n # 1
    <3>1. n - 1 \in DOMAIN Tail(s) /\ Tail(s)[n - 1] = s[n]
      BY <2>2, <1>1, <1>2
    <3> QED
      BY <3>1 DEF Elements
  <2> QED
    BY <2>1, <2>2
<1>4. ASSUME NEW n \in DOMAIN Tail(s) PROVE Tail(s)[n] \in Elements(s)
  <2>1. n + 1 \in DOMAIN s /\ Tail(s)[n] = s[n + 1]
    BY <1>1, <1>2
  <2> QED
    BY <2>1 DEF Elements
<1>5. Head(s) \in Elements(s)
  BY <1>1 DEF Elements
<1>6. Elements(s) \subseteq {Head(s)} \cup Elements(Tail(s))
  BY <1>3 DEF Elements
<1>7. Elements(Tail(s)) \subseteq Elements(s)
  BY <1>4 DEF Elements
<1> QED
  BY <1>1, <1>5, <1>6, <1>7

(* A call is put before the others. *)
LEMMA Joined ==
  ASSUME NEW S, NEW r \in Seq(S), NEW c \in S
  PROVE  /\ <<c>> \o r \in Seq(S) /\ <<c>> \o r # <<>>
         /\ Head(<<c>> \o r) = c /\ Tail(<<c>> \o r) = r
         /\ Elements(<<c>> \o r) = {c} \cup Elements(r)
<1> DEFINE s == <<c>> \o r
<1>1. s \in Seq(S) /\ Len(s) = 1 + Len(r) /\ s[1] = c /\ \A n \in 1 .. Len(r) : s[n + 1] = r[n]
  BY ConcatProperties, LenProperties
<1>2. s # <<>> /\ Head(s) = c
  BY <1>1, LenProperties, EmptySeq
<1>3. Tail(s) \in Seq(S) /\ Len(Tail(s)) = Len(r) /\ \A n \in 1 .. Len(r) : Tail(s)[n] = r[n]
  BY <1>1, <1>2, HeadTailProperties, LenProperties
<1>4. Tail(s) = r
  BY <1>3, SeqEqual
<1> QED
  BY <1>1, <1>2, <1>4, Inner

LEMMA PutBefore ==
  ASSUME NEW S, NEW c \in S, NEW d \in S
  PROVE  <<c>> \o <<d>> = <<c, d>>
<1> DEFINE s == <<c>> \o <<d>>
           r == <<c, d>>
<1>1. <<c>> \in Seq(S) /\ <<d>> \in Seq(S) /\ Len(<<c>>) = 1 /\ Len(<<d>>) = 1
      /\ <<c>>[1] = c /\ <<d>>[1] = d
  OBVIOUS
<1>2. s \in Seq(S) /\ Len(s) = 2 /\ s[1] = c /\ s[2] = d
  BY <1>1, ConcatProperties
<1>3. r \in Seq(S) /\ Len(r) = 2 /\ r[1] = c /\ r[2] = d
  OBVIOUS
<1> HIDE DEF s, r
<1>4. Len(s) = Len(r) /\ \A n \in 1 .. Len(s) : s[n] = r[n]
  BY <1>2, <1>3
<1>5. s = r
  BY <1>2, <1>3, <1>4, SeqEqual
<1> QED
  BY <1>5 DEF s, r

LEMMA CallTyped ==
  ASSUME NEW op \in Ops, NEW i \in Transports, NEW u \in Anyone
  PROVE  CallFor(op, i, u) \in AnyCall /\ Call(op, i) \in AnyCall
BY DEF AnyCall, CallFor, Call, Anyone

LEMMA SameCall ==
  ASSUME NEW op, NEW i, NEW u, NEW o, NEW j, NEW v
  PROVE  /\ CallFor(op, i, u) = CallFor(o, j, v) <=> op = o /\ i = j /\ u = v
         /\ Call(op, i) = CallFor(op, i, Nobody)
         /\ CallFor(op, i, u)[1] = op /\ CallFor(op, i, u)[2] = i /\ CallFor(op, i, u)[3] = u
BY DEF CallFor, Call

(* What is left after a call fits by itself. *)
LEMMA RestsFit ==
  ASSUME NEW op \in Ops, NEW i \in Transports, NEW r \in Rests(op, i)
  PROVE  /\ Fits(r) /\ r \in Seq(AnyCall)
         /\ Elements(r) \subseteq {Call("dec", i), Call("told", i), Call("drain", i)}
         /\ op \in {"dec", "idle", "told", "disconnect"} => Elements(r) \subseteq {Call("drain", i)}
         /\ op \in Sending => Elements(r) = {Call("dec", i)}
         /\ op \notin Sending \cup {"verify", "dec", "idle", "told", "disconnect"} => r = <<>>
         /\ op = "verify" => Elements(r) \subseteq {Call("told", i), Call("drain", i)}
<1> DEFINE D == Call("dec", i)
           T == Call("told", i)
           W == Call("drain", i)
<1>1. D \in AnyCall /\ T \in AnyCall /\ W \in AnyCall
  BY CallTyped DEF Ops, Anyone
<1>2. /\ op \in Sending => r = <<D>>
      /\ op = "verify" => r \in {<<>>, <<T>>, <<T, W>>}
      /\ op \in {"dec", "idle", "told", "disconnect"} => r \in {<<>>, <<W>>}
      /\ op \notin Sending \cup {"verify", "dec", "idle", "told", "disconnect"} => r = <<>>
  BY DEF Rests, Sending
<1>3. r \in {<<>>, <<D>>, <<T>>, <<W>>, <<T, W>>}
  BY <1>2
<1>4. D[1] = "dec" /\ D[2] = i /\ D[3] = Nobody /\ T[1] = "told" /\ T[2] = i /\ T[3] = Nobody
      /\ W[1] = "drain" /\ W[2] = i /\ W[3] = Nobody
  BY DEF Call
<1>5. <<>> \in Rests("dec", i) /\ <<>> \in Rests("drain", i)
      /\ <<>> \in Rests("told", i) /\ <<W>> \in Rests("told", i)
  BY DEF Rests, Sending
<1> HIDE DEF D, T, W
<1>6. Fits(<<>>)
  BY DEF Fits
<1>7. ASSUME NEW c \in {D, T, W} PROVE Fits(<<c>>)
  <2>1. <<c>> \in Seq(AnyCall) /\ Head(<<c>>) = c /\ Tail(<<c>>) = <<>>
    BY <1>1
  <2>2. <<>> \in Rests(c[1], c[2]) /\ c[1] \notin Carrying \cup {"verify"} /\ c[3] = Nobody
    BY <1>4, <1>5 DEF Carrying, Sending
  <2> QED
    BY <2>1, <2>2 DEF Fits
<1>8. Fits(<<T, W>>)
  <2>1. <<T, W>> \in Seq(AnyCall) /\ Head(<<T, W>>) = T /\ Tail(<<T, W>>) = <<W>>
    BY <1>1
  <2>2. <<W>> \in Rests(T[1], T[2]) /\ T[1] \notin Carrying \cup {"verify"} /\ T[3] = Nobody
    BY <1>4, <1>5 DEF Carrying, Sending
  <2> QED
    BY <2>1, <2>2 DEF Fits
<1>9. Fits(r)
  BY <1>3, <1>6, <1>7, <1>8
<1>10. r \in Seq(AnyCall)
  BY <1>9 DEF Fits
<1>11. Elements(<<>>) = {} /\ Elements(<<D>>) = {D} /\ Elements(<<T>>) = {T} /\ Elements(<<W>>) = {W}
       /\ Elements(<<T, W>>) = {T, W}
  BY NoCalls, OneCall, TwoCalls
<1>12. Elements(r) \subseteq {D, T, W}
  BY <1>3, <1>11
<1>13. op \in {"dec", "idle", "told", "disconnect"} => Elements(r) \subseteq {W}
  BY <1>2, <1>11
<1>14. op \in Sending => Elements(r) = {D}
  BY <1>2, <1>11
<1>15. op = "verify" => Elements(r) \subseteq {T, W}
  BY <1>2, <1>11
<1> QED
  BY <1>2, <1>9, <1>10, <1>12, <1>13, <1>14, <1>15 DEF D, T, W

Callable(o, u) ==
    /\ o \in Ops /\ u \in Anyone
    /\ o \in Carrying => u \in Users
    /\ o \notin Carrying \cup {"verify"} => u = Nobody

LEMMA Pushed ==
  ASSUME NEW o, NEW u, Callable(o, u), NEW j \in Transports, NEW r \in Rests(o, j)
  PROVE  /\ Fits(<<CallFor(o, j, u)>> \o r)
         /\ Elements(<<CallFor(o, j, u)>> \o r) = {CallFor(o, j, u)} \cup Elements(r)
<1> DEFINE c == CallFor(o, j, u)
           s == <<c>> \o r
<1>1. c \in AnyCall /\ c[1] = o /\ c[2] = j /\ c[3] = u
  BY CallTyped, SameCall DEF Callable
<1>2. r \in Seq(AnyCall)
  BY RestsFit DEF Callable
<1> HIDE DEF c
<1>3. s \in Seq(AnyCall) /\ Head(s) = c /\ Tail(s) = r /\ Elements(s) = {c} \cup Elements(r)
  BY <1>1, <1>2, Joined
<1>4. Fits(s)
  BY <1>1, <1>3 DEF Fits, Callable
<1> QED
  BY <1>3, <1>4 DEF c

-----------------------------------------------------------------------------
(* Steps of a thread, as they change what it is inside of. *)

StackTyped == DOMAIN stack = Threads /\ \A t \in Threads : Fits(stack[t])
Aside(t)   == \A other \in Threads \ {t} : Calls(other)' = Calls(other)

(* What a thread is inside of. *)
LEMMA OnStack ==
  ASSUME Typed, NEW t \in Threads, NEW op \in Ops, At(t, op)
  PROVE  /\ stack[t] # <<>> /\ stack[t] \in Seq(AnyCall)
         /\ TpOf(t) \in Transports /\ Callable(op, UserOf(t))
         /\ Tail(stack[t]) \in Rests(op, TpOf(t))
         /\ Calls(t) = {CallFor(op, TpOf(t), UserOf(t))} \cup Later(t)
<1>1. Fits(stack[t]) /\ stack[t] # <<>> /\ Head(stack[t])[1] = op
  BY DEF Typed, At
<1>2. stack[t] \in Seq(AnyCall)
  BY <1>1 DEF Fits
<1> DEFINE c == Head(stack[t])
<1>3. c \in AnyCall /\ Elements(stack[t]) = {c} \cup Elements(Tail(stack[t]))
  BY <1>1, <1>2, Inner
<1>4. c = <<c[1], c[2], c[3]>> /\ c[2] \in Transports /\ c[3] \in Anyone
  BY <1>3 DEF AnyCall
<1>5. TpOf(t) = c[2] /\ UserOf(t) = c[3]
  BY DEF TpOf, UserOf
<1>6. c = CallFor(op, TpOf(t), UserOf(t))
  BY <1>1, <1>4, <1>5 DEF CallFor
<1>7. Callable(op, UserOf(t)) /\ Tail(stack[t]) \in Rests(op, TpOf(t))
  BY <1>1, <1>4, <1>5 DEF Fits, Callable
<1> QED
  BY <1>1, <1>2, <1>3, <1>4, <1>5, <1>6, <1>7 DEF Calls, Elements, Later

LEMMA Pops ==
  ASSUME Typed, NEW t \in Threads, NEW op \in Ops, At(t, op), Goes(t, <<>>)
  PROVE  StackTyped' /\ Calls(t)' = Later(t) /\ Aside(t)
<1> DEFINE r == Tail(stack[t])
<1>1. r \in Rests(op, TpOf(t)) /\ TpOf(t) \in Transports
  BY OnStack
<1>2. Fits(r) /\ r \in Seq(AnyCall)
  BY <1>1, RestsFit
<1>3. <<>> \o r = r
  BY <1>2, ConcatEmptySeq
<1>4. DOMAIN stack = Threads /\ \A other \in Threads : Fits(stack[other])
  BY DEF Typed
<1>5. DOMAIN stack' = Threads /\ stack'[t] = r /\ \A other \in Threads \ {t} : stack'[other] = stack[other]
  BY <1>3, <1>4 DEF Goes
<1> HIDE DEF r
<1>6. StackTyped'
  BY <1>2, <1>4, <1>5 DEF StackTyped
<1>7. Calls(t)' = Elements(r)
  BY <1>5 DEF Calls, Elements
<1>8. Aside(t)
  BY <1>5 DEF Aside, Calls
<1> QED
  BY <1>6, <1>7, <1>8 DEF r, Later

LEMMA Becomes ==
  ASSUME Typed, NEW t \in Threads, NEW op \in Ops, At(t, op),
         NEW o, NEW u, Callable(o, u), Tail(stack[t]) \in Rests(o, TpOf(t)),
         Goes(t, <<CallFor(o, TpOf(t), u)>>)
  PROVE  StackTyped' /\ Calls(t)' = {CallFor(o, TpOf(t), u)} \cup Later(t) /\ Aside(t)
<1> DEFINE r == Tail(stack[t])
           s == <<CallFor(o, TpOf(t), u)>> \o r
<1>1. TpOf(t) \in Transports
  BY OnStack
<1>2. Fits(s) /\ Elements(s) = {CallFor(o, TpOf(t), u)} \cup Elements(r)
  BY <1>1, Pushed
<1>4. DOMAIN stack = Threads /\ \A other \in Threads : Fits(stack[other])
  BY DEF Typed
<1>5. DOMAIN stack' = Threads /\ stack'[t] = s /\ \A other \in Threads \ {t} : stack'[other] = stack[other]
  BY <1>4 DEF Goes
<1> HIDE DEF s
<1>6. StackTyped'
  BY <1>2, <1>4, <1>5 DEF StackTyped
<1>7. Calls(t)' = Elements(s)
  BY <1>5 DEF Calls, Elements
<1>8. Aside(t)
  BY <1>5 DEF Aside, Calls
<1> QED
  BY <1>2, <1>6, <1>7, <1>8 DEF Later

(* A thread that was idle begins with one call. *)
LEMMA Begins ==
  ASSUME Typed, NEW t \in Threads, NEW o, NEW u, Callable(o, u), NEW i \in Transports,
         <<>> \in Rests(o, i), Begin(t, <<CallFor(o, i, u)>>)
  PROVE  StackTyped' /\ Calls(t) = {} /\ Calls(t)' = {CallFor(o, i, u)} /\ Aside(t)
<1> DEFINE c == CallFor(o, i, u)
<1>1. c \in AnyCall
  BY CallTyped DEF Callable
<1>2. Fits(<<c>> \o <<>>) /\ Elements(<<c>>) = {c}
  BY Pushed, OneCall
<1>3. <<c>> \o <<>> = <<c>>
  BY <1>1, ConcatEmptySeq
<1>4. DOMAIN stack = Threads /\ \A other \in Threads : Fits(stack[other])
  BY DEF Typed
<1>5. /\ stack[t] = <<>> /\ DOMAIN stack' = Threads /\ stack'[t] = <<c>>
      /\ \A other \in Threads \ {t} : stack'[other] = stack[other]
  BY <1>4 DEF Begin, Idle
<1> HIDE DEF c
<1>6. StackTyped'
  BY <1>2, <1>3, <1>4, <1>5 DEF StackTyped
<1>7. Calls(t)' = Elements(<<c>>) /\ Calls(t) = Elements(<<>>)
  BY <1>5 DEF Calls, Elements
<1>8. Aside(t)
  BY <1>5 DEF Aside, Calls
<1> QED
  BY <1>2, <1>6, <1>7, <1>8, NoCalls DEF c

LEMMA BeginsNone ==
  ASSUME Typed, NEW t \in Threads, Begin(t, <<>>)
  PROVE  StackTyped' /\ Calls(t) = {} /\ Calls(t)' = {} /\ Aside(t)
<1>4. DOMAIN stack = Threads /\ \A other \in Threads : Fits(stack[other])
  BY DEF Typed
<1>5. stack[t] = <<>> /\ DOMAIN stack' = Threads /\ \A other \in Threads : stack'[other] = stack[other]
  BY <1>4 DEF Begin, Idle
<1>6. StackTyped'
  BY <1>4, <1>5 DEF StackTyped
<1>7. Calls(t)' = Elements(<<>>) /\ Calls(t) = Elements(<<>>)
  BY <1>5 DEF Calls, Elements
<1>8. Aside(t)
  BY <1>5 DEF Aside, Calls
<1> QED
  BY <1>6, <1>7, <1>8, NoCalls

LEMMA BeginsTwo ==
  ASSUME Typed, NEW t \in Threads, NEW o \in Sending, NEW u \in Users, NEW i \in Transports,
         Begin(t, <<CallFor(o, i, u), Call("dec", i)>>)
  PROVE  /\ StackTyped' /\ Calls(t) = {} /\ Aside(t)
         /\ Calls(t)' = {CallFor(o, i, u), Call("dec", i)}
<1> DEFINE c == CallFor(o, i, u)
           d == Call("dec", i)
<1>1. Callable(o, u) /\ <<d>> \in Rests(o, i)
  BY DEF Callable, Rests, Sending, Carrying, Ops, Anyone
<1>2. c \in AnyCall /\ d \in AnyCall
  BY <1>1, CallTyped DEF Callable, Ops, Anyone
<1>3. Fits(<<c>> \o <<d>>) /\ Elements(<<c, d>>) = {c, d}
  BY <1>1, Pushed, TwoCalls
<1>4. DOMAIN stack = Threads /\ \A other \in Threads : Fits(stack[other])
  BY DEF Typed
<1>5. /\ stack[t] = <<>> /\ DOMAIN stack' = Threads /\ stack'[t] = <<c, d>>
      /\ \A other \in Threads \ {t} : stack'[other] = stack[other]
  BY <1>4 DEF Begin, Idle
<1> HIDE DEF c, d
<1>9. <<c>> \o <<d>> = <<c, d>>
  BY <1>2, PutBefore
<1>6. StackTyped'
  BY <1>3, <1>4, <1>5, <1>9 DEF StackTyped
<1>7. Calls(t)' = Elements(<<c, d>>) /\ Calls(t) = Elements(<<>>)
  BY <1>5 DEF Calls, Elements
<1>8. Aside(t)
  BY <1>5 DEF Aside, Calls
<1> QED
  BY <1>3, <1>6, <1>7, <1>8, NoCalls DEF c, d

(* Two calls take the place of one. *)
LEMMA BecomesTwo ==
  ASSUME Typed, NEW t \in Threads, NEW op \in Ops, At(t, op),
         NEW o \in Ops \ Carrying, NEW p \in Ops \ (Carrying \cup {"verify"}),
         Tail(stack[t]) \in Rests(p, TpOf(t)),
         <<Call(p, TpOf(t))>> \o Tail(stack[t]) \in Rests(o, TpOf(t)),
         Goes(t, <<Call(o, TpOf(t)), Call(p, TpOf(t))>>)
  PROVE  /\ StackTyped' /\ Aside(t)
         /\ Calls(t)' = {Call(o, TpOf(t)), Call(p, TpOf(t))} \cup Later(t)
<1> DEFINE r == Tail(stack[t])
           c == Call(o, TpOf(t))
           d == Call(p, TpOf(t))
<1>1. TpOf(t) \in Transports
  BY OnStack
<1>2. Callable(o, Nobody) /\ Callable(p, Nobody)
  BY DEF Callable, Anyone
<1>3. c = CallFor(o, TpOf(t), Nobody) /\ d = CallFor(p, TpOf(t), Nobody)
  BY DEF Call, CallFor
<1>4. c \in AnyCall /\ d \in AnyCall /\ r \in Seq(AnyCall)
  BY <1>1, <1>2, CallTyped, RestsFit DEF Callable
<1>5. Elements(<<d>> \o r) = {d} \cup Elements(r)
  BY <1>1, <1>2, <1>3, Pushed
<1>6. /\ Fits(<<c>> \o (<<d>> \o r))
      /\ Elements(<<c>> \o (<<d>> \o r)) = {c} \cup Elements(<<d>> \o r)
  BY <1>1, <1>2, <1>3, Pushed
<1>7. DOMAIN stack = Threads /\ \A other \in Threads : Fits(stack[other])
  BY DEF Typed
<1>8. /\ DOMAIN stack' = Threads /\ stack'[t] = <<c, d>> \o r
      /\ \A other \in Threads \ {t} : stack'[other] = stack[other]
  BY <1>7 DEF Goes
<1> HIDE DEF c, d, r
<1>9. <<c, d>> \o r = <<c>> \o (<<d>> \o r)
  <2>1. <<c>> \o <<d>> = <<c, d>>
    BY <1>4, PutBefore
  <2>2. <<c>> \in Seq(AnyCall) /\ <<d>> \in Seq(AnyCall)
    BY <1>4
  <2>3. (<<c>> \o <<d>>) \o r = <<c>> \o (<<d>> \o r)
    BY <1>4, <2>2, ConcatAssociative
  <2> QED
    BY <2>1, <2>3
<1>10. StackTyped'
  BY <1>6, <1>7, <1>8, <1>9 DEF StackTyped
<1>11. Calls(t)' = Elements(<<c>> \o (<<d>> \o r))
  BY <1>8, <1>9 DEF Calls, Elements
<1>12. Aside(t)
  BY <1>8 DEF Aside, Calls
<1> QED
  BY <1>5, <1>6, <1>10, <1>11, <1>12 DEF c, d, r, Later

-----------------------------------------------------------------------------
(* What a step has to leave alone for a part of the invariant to stay. *)

LEMMA PlacedKept ==
  ASSUME NEW u \in Users, Placed(u), user'[u] = user[u],
         \A i \in Transports : u \in Queue(i)' => u \in Queue(i),
         \A i \in Transports : u \in tp'[i].wire => u \in tp[i].wire,
         \A t \in Threads : Brings(t, u)' => Brings(t, u),
         \A t \in Threads, i \in Transports : Carries(t, u, i)' => Carries(t, u, i)
  PROVE  Placed(u)'
<1> USE DEF Placed
<1>1. \A i \in Transports : Awaits(u, i)' <=> Awaits(u, i)
  BY DEF Awaits
<1> QED
  BY <1>1

LEMMA BuriedKept ==
  ASSUME Buried, ~lost, UNCHANGED lost,
         \A i \in Transports \ Live' :
            /\ i \notin Live /\ Holders(i)' \subseteq Holders(i) /\ (tp'[i].armed => tp[i].armed)
            /\ \A t \in Threads : WorksOn(t, i)' => WorksOn(t, i)
  PROVE  Buried'
<1> SUFFICES ASSUME NEW i \in (Transports \ Live)' PROVE Untouched(i)'
  BY DEF Buried
<1>1. i \in Transports \ Live' /\ i \in Transports
  BY DEF Transports
<1>2. Untouched(i)
  BY <1>1 DEF Buried
<1> QED
  BY <1>1, <1>2 DEF Untouched

LEMMA CountedKept ==
  ASSUME Counted,
         \A i \in Live' : /\ i \in Live /\ tp'[i].ref = tp[i].ref
                          /\ Holders(i)' = Holders(i) /\ Returning(i)' = Returning(i)
  PROVE  Counted'
BY DEF Counted, Exact

LEMMA EndsKept ==
  ASSUME NEW i \in Transports, EndsFor(i),
         tp'[i].dying => tp[i].dying,
         tp'[i].ref = 0 => tp[i].ref = 0 /\ (tp[i].armed => tp'[i].armed),
         \A t \in Threads : \A op \in {"idle", "fire", "doom", "remove"} :
            Call(op, i) \in Calls(t) => Call(op, i) \in Calls(t)'
  PROVE  EndsFor(i)'
<1>1. Removing(i) => Removing(i)'
  BY DEF Removing
<1>2. SeenTo(i) => SeenTo(i)'
  BY DEF SeenTo
<1> QED
  BY <1>1, <1>2 DEF EndsFor

LEMMA RegisteredKept ==
  ASSUME Registered, UNCHANGED <<table, listed>>,
         \A i \in Transports : tp'[i].st = "live" <=> tp[i].st = "live"
  PROVE  Registered'
BY DEF Registered, Valid

(* A thread goes on with a transport: the calls of old are replaced by     *)
(* those of new, and what is around them stays.                            *)
Around(i) == {Call("dec", i), Call("told", i), Call("drain", i)}
Moves(t, i, old, new) ==
    /\ StackTyped' /\ Aside(t)
    /\ \A c \in old \cup new : c = CallFor(c[1], i, c[3])
    /\ \E around \in SUBSET Around(i) : Calls(t) = old \cup around /\ Calls(t)' = new \cup around
Gives(t, i) == Calls(t) \cap {Call("dec", i), Call("told", i)} # {}

LEMMA AllOnOne ==
  ASSUME NEW t, NEW i, NEW old, NEW new, Moves(t, i, old, new)
  PROVE  \A c \in Calls(t) \cup Calls(t)' : c = CallFor(c[1], i, c[3]) /\ c[2] = i
<1> SUFFICES ASSUME NEW c \in Calls(t) \cup Calls(t)' PROVE c = CallFor(c[1], i, c[3])
  BY SameCall
<1>1. c \in old \cup new \/ c \in Around(i)
  BY DEF Moves
<1> QED
  BY <1>1 DEF Moves, Around, Call, CallFor

LEMMA MovesElse ==
  ASSUME NEW t \in Threads, NEW i \in Transports, NEW old, NEW new, Moves(t, i, old, new),
         NEW j \in Transports, j # i
  PROVE  /\ Returning(j)' = Returning(j)
         /\ \A other \in Threads : WorksOn(other, j)' <=> WorksOn(other, j)
         /\ \A other \in Threads : \A u : Carries(other, u, j)' <=> Carries(other, u, j)
         /\ \A other \in Threads : \A op : Call(op, j) \in Calls(other)' <=> Call(op, j) \in Calls(other)
<1>1. \A c \in Calls(t) \cup Calls(t)' : c[2] # j
  BY AllOnOne
<1>2. \A other \in Threads \ {t} : Calls(other)' = Calls(other)
  BY DEF Moves, Aside
<1>3. \A op, u : CallFor(op, j, u)[2] = j /\ Call(op, j)[2] = j
  BY DEF CallFor, Call
<1>4. \A op, u : CallFor(op, j, u) \notin Calls(t) \cup Calls(t)' /\ Call(op, j) \notin Calls(t) \cup Calls(t)'
  BY <1>1, <1>3
<1>5. ASSUME NEW other \in Threads
      PROVE  /\ WorksOn(other, j)' <=> WorksOn(other, j)
             /\ \A u : Carries(other, u, j)' <=> Carries(other, u, j)
             /\ \A op : Call(op, j) \in Calls(other)' <=> Call(op, j) \in Calls(other)
  <2>1. CASE other = t
    BY <2>1, <1>1, <1>4 DEF WorksOn, Carries
  <2>2. CASE other # t
    BY <2>2, <1>2 DEF WorksOn, Carries
  <2> QED
    BY <2>1, <2>2
<1>6. Returning(j)' = Returning(j)
  BY <1>5 DEF Returning
<1> QED
  BY <1>5, <1>6

(* The count of the transport depends on whether the thread gives one back.*)
LEMMA MovesReturning ==
  ASSUME NEW t \in Threads, NEW i, NEW old, NEW new, Moves(t, i, old, new)
  PROVE  /\ Gives(t, i) /\ Gives(t, i)' => Returning(i)' = Returning(i)
         /\ ~Gives(t, i) /\ ~Gives(t, i)' => Returning(i)' = Returning(i)
         /\ Gives(t, i) /\ ~Gives(t, i)' => t \in Returning(i) /\ Returning(i)' = Returning(i) \ {t}
         /\ ~Gives(t, i) /\ Gives(t, i)' => t \notin Returning(i) /\ Returning(i)' = Returning(i) \cup {t}
<1>1. \A other \in Threads \ {t} : Calls(other)' = Calls(other)
  BY DEF Moves, Aside
<1>2. \A other \in Threads \ {t} : other \in Returning(i)' <=> other \in Returning(i)
  BY <1>1 DEF Returning
<1>3. (t \in Returning(i) <=> Gives(t, i)) /\ (t \in Returning(i)' <=> Gives(t, i)')
  BY DEF Returning, Gives
<1>4. Returning(i) \subseteq Threads /\ Returning(i)' \subseteq Threads
  BY DEF Returning
<1> QED
  BY <1>2, <1>3, <1>4

(* Messages whose sender is not concerned. *)
LEMMA MovesPlaced ==
  ASSUME NEW t \in Threads, NEW i \in Transports, NEW old, NEW new, Moves(t, i, old, new),
         NEW u \in Users, Placed(u), user'[u] = user[u],
         \A c \in new : c[3] = u => c[1] \notin Carrying,
         \A j \in Transports : u \in Queue(j)' => u \in Queue(j),
         \A j \in Transports : u \in tp'[j].wire => u \in tp[j].wire
  PROVE  Placed(u)'
<1>1. \A other \in Threads \ {t} : Calls(other)' = Calls(other)
  BY DEF Moves, Aside
<1>2. PICK around \in SUBSET Around(i) : Calls(t) = old \cup around /\ Calls(t)' = new \cup around
  BY DEF Moves
<1>3. ASSUME NEW op \in Carrying, NEW j, CallFor(op, j, u) \in Calls(t)'
      PROVE  CallFor(op, j, u) \in Calls(t)
  <2>1. CallFor(op, j, u) \notin new
    BY <1>3, SameCall
  <2> QED
    BY <2>1, <1>2, <1>3
<1>4. \A other \in Threads : Brings(other, u)' => Brings(other, u)
  BY <1>1, <1>3 DEF Brings, Carrying
<1>5. \A other \in Threads, j \in Transports : Carries(other, u, j)' => Carries(other, u, j)
  BY <1>1, <1>3 DEF Carries, Carrying
<1> QED
  BY <1>4, <1>5, PlacedKept

LEMMA MovesBuried ==
  ASSUME NEW t \in Threads, NEW i \in Transports, NEW old, NEW new, Moves(t, i, old, new),
         Buried, ~lost, UNCHANGED lost, Live' = Live,
         \A j \in Transports \ Live : Holders(j)' \subseteq Holders(j) /\ (tp'[j].armed => tp[j].armed),
         i \in Live \/ \A c \in new : c[1] \in {"verify", "idle"}
  PROVE  Buried'
<1>1. \A other \in Threads \ {t} : Calls(other)' = Calls(other)
  BY DEF Moves, Aside
<1>2. PICK around \in SUBSET Around(i) : Calls(t) = old \cup around /\ Calls(t)' = new \cup around
  BY DEF Moves
<1>3. ASSUME NEW j \in Transports \ Live, NEW other \in Threads, WorksOn(other, j)'
      PROVE  WorksOn(other, j)
  <2>1. CASE other # t
    BY <2>1, <1>1, <1>3 DEF WorksOn
  <2>2. CASE other = t /\ j # i
    BY <2>2, <1>3, MovesElse
  <2>3. CASE other = t /\ j = i
    <3>1. PICK c \in Calls(t)' : c[2] = i /\ c[1] \notin {"verify", "idle"}
      BY <2>3, <1>3 DEF WorksOn
    <3>2. c \in around
      BY <3>1, <2>3, <1>2, <1>3
    <3> QED
      BY <3>1, <3>2, <2>3, <1>2 DEF WorksOn
  <2> QED
    BY <2>1, <2>2, <2>3
<1> QED
  BY <1>3, BuriedKept

LEMMA MovesEnds ==
  ASSUME NEW t \in Threads, NEW i \in Transports, NEW old, NEW new, Moves(t, i, old, new), Ends,
         \A j \in Live' : j # i => j \in Live /\ tp'[j] = tp[j],
         i \in Live' => EndsFor(i)'
  PROVE  Ends'
<1> SUFFICES ASSUME NEW j \in Live', j # i PROVE EndsFor(j)'
  BY DEF Ends
<1>1. EndsFor(j) /\ tp'[j] = tp[j] /\ j \in Transports
  BY DEF Ends, Live
<1>2. \A other \in Threads : \A op : Call(op, j) \in Calls(other)' <=> Call(op, j) \in Calls(other)
  BY <1>1, MovesElse
<1> QED
  BY <1>1, <1>2, EndsKept

-----------------------------------------------------------------------------
(* Where a thread is, and where it goes. *)

LEMMA Position ==
  ASSUME Typed, NEW t \in Threads, NEW op \in Ops, At(t, op)
  PROVE  /\ TpOf(t) \in Transports /\ Callable(op, UserOf(t))
         /\ Calls(t) = {CallFor(op, TpOf(t), UserOf(t))} \cup Later(t)
         /\ Later(t) \subseteq Around(TpOf(t))
         /\ op \in {"dec", "idle", "told", "disconnect"} => Later(t) \subseteq {Call("drain", TpOf(t))}
         /\ op \in Sending => Later(t) = {Call("dec", TpOf(t))}
         /\ op \notin Sending \cup {"verify", "dec", "idle", "told", "disconnect"} => Later(t) = {}
         /\ op \notin {"verify", "idle"} => WorksOn(t, TpOf(t))
<1> DEFINE i == TpOf(t)
           r == Tail(stack[t])
<1>1. /\ i \in Transports /\ Callable(op, UserOf(t)) /\ r \in Rests(op, i)
      /\ Calls(t) = {CallFor(op, i, UserOf(t))} \cup Later(t)
  BY OnStack
<1>2. Later(t) = Elements(r)
  BY DEF Later
<1> HIDE DEF i, r
<1>3. /\ Elements(r) \subseteq Around(i)
      /\ op \in {"dec", "idle", "told", "disconnect"} => Elements(r) \subseteq {Call("drain", i)}
      /\ op \in Sending => Elements(r) = {Call("dec", i)}
      /\ op \notin Sending \cup {"verify", "dec", "idle", "told", "disconnect"} => r = <<>>
  BY <1>1, RestsFit DEF Around
<1>4. op \notin {"verify", "idle"} => WorksOn(t, i)
  BY <1>1, SameCall DEF WorksOn
<1> QED
  BY <1>1, <1>2, <1>3, <1>4, NoCalls DEF i

LEMMA PopsMoves ==
  ASSUME Typed, NEW t \in Threads, NEW op \in Ops, At(t, op), Goes(t, <<>>)
  PROVE  /\ Moves(t, TpOf(t), {CallFor(op, TpOf(t), UserOf(t))}, {})
         /\ Calls(t)' = Later(t)
<1>1. StackTyped' /\ Calls(t)' = Later(t) /\ Aside(t)
  BY Pops
<1>2. Calls(t) = {CallFor(op, TpOf(t), UserOf(t))} \cup Later(t) /\ Later(t) \subseteq Around(TpOf(t))
  BY Position
<1> QED
  BY <1>1, <1>2, SameCall DEF Moves

LEMMA BecomesMoves ==
  ASSUME Typed, NEW t \in Threads, NEW op \in Ops, At(t, op),
         NEW o, NEW u, Callable(o, u), Tail(stack[t]) \in Rests(o, TpOf(t)),
         Goes(t, <<CallFor(o, TpOf(t), u)>>)
  PROVE  /\ Moves(t, TpOf(t), {CallFor(op, TpOf(t), UserOf(t))}, {CallFor(o, TpOf(t), u)})
         /\ Calls(t)' = {CallFor(o, TpOf(t), u)} \cup Later(t)
<1>1. StackTyped' /\ Calls(t)' = {CallFor(o, TpOf(t), u)} \cup Later(t) /\ Aside(t)
  BY Becomes
<1>2. Calls(t) = {CallFor(op, TpOf(t), UserOf(t))} \cup Later(t) /\ Later(t) \subseteq Around(TpOf(t))
  BY Position
<1> QED
  BY <1>1, <1>2, SameCall DEF Moves

LEMMA BecomesTwoMoves ==
  ASSUME Typed, NEW t \in Threads, NEW op \in Ops, At(t, op),
         NEW o \in Ops \ Carrying, NEW p \in Ops \ (Carrying \cup {"verify"}),
         Tail(stack[t]) \in Rests(p, TpOf(t)),
         <<Call(p, TpOf(t))>> \o Tail(stack[t]) \in Rests(o, TpOf(t)),
         Goes(t, <<Call(o, TpOf(t)), Call(p, TpOf(t))>>)
  PROVE  /\ Moves(t, TpOf(t), {CallFor(op, TpOf(t), UserOf(t))}, {Call(o, TpOf(t)), Call(p, TpOf(t))})
         /\ Calls(t)' = {Call(o, TpOf(t)), Call(p, TpOf(t))} \cup Later(t)
<1>1. StackTyped' /\ Calls(t)' = {Call(o, TpOf(t)), Call(p, TpOf(t))} \cup Later(t) /\ Aside(t)
  BY BecomesTwo
<1>2. Calls(t) = {CallFor(op, TpOf(t), UserOf(t))} \cup Later(t) /\ Later(t) \subseteq Around(TpOf(t))
  BY Position
<1> QED
  BY <1>1, <1>2, SameCall DEF Moves

LEMMA BeginsMoves ==
  ASSUME Typed, NEW t \in Threads, NEW o, NEW u, Callable(o, u), NEW i \in Transports,
         <<>> \in Rests(o, i), Begin(t, <<CallFor(o, i, u)>>)
  PROVE  Moves(t, i, {}, {CallFor(o, i, u)}) /\ Calls(t) = {} /\ Calls(t)' = {CallFor(o, i, u)}
BY Begins, SameCall DEF Moves

LEMMA BeginsNoneMoves ==
  ASSUME Typed, NEW t \in Threads, NEW i \in Transports, Begin(t, <<>>)
  PROVE  Moves(t, i, {}, {}) /\ Calls(t) = {} /\ Calls(t)' = {}
BY BeginsNone DEF Moves

LEMMA BeginsTwoMoves ==
  ASSUME Typed, NEW t \in Threads, NEW o \in Sending, NEW u \in Users, NEW i \in Transports,
         Begin(t, <<CallFor(o, i, u), Call("dec", i)>>)
  PROVE  /\ Moves(t, i, {}, {CallFor(o, i, u), Call("dec", i)}) /\ Calls(t) = {}
         /\ Calls(t)' = {CallFor(o, i, u), Call("dec", i)}
<1>1. /\ StackTyped' /\ Calls(t) = {} /\ Aside(t)
      /\ Calls(t)' = {CallFor(o, i, u), Call("dec", i)}
  BY BeginsTwo
<1>2. \A c \in {CallFor(o, i, u), Call("dec", i)} : c = CallFor(c[1], i, c[3])
  BY DEF CallFor, Call
<1> QED
  BY <1>1, <1>2 DEF Moves

(* Whoever is on a transport, or has one, has one that is there. *)
LEMMA OnLive ==
  ASSUME IInv, ~lost, NEW t \in Threads, NEW op \in Ops \ {"verify", "idle"}, At(t, op)
  PROVE  TpOf(t) \in Live
BY Position DEF IInv, Buried, Untouched

LEMMA HeldLive ==
  ASSUME IInv, ~lost, NEW u \in Users, user[u].st \notin {"out", "arriving"}
  PROVE  user[u].tp \in Live /\ user[u].tp \in Transports
<1>1. user[u].tp \in Transports \cup {NoTp} /\ user[u].tp # NoTp
  BY DEF IInv, Typed, Holder, Messages, Placed
<1> QED
  BY <1>1 DEF IInv, Buried, Untouched, Holders

-----------------------------------------------------------------------------
(* Steps on a transport that stays where it is. *)

LEMMA Step ==
  ASSUME IInv, ~lost, NEW t \in Threads, NEW i \in Transports, NEW old, NEW new,
         Moves(t, i, old, new),
         i \in Live \/ \A c \in new : c[1] \in {"verify", "idle"},
         NEW r \in Record, Sets(i, r), r.st = tp[i].st, UNCHANGED <<table, listed, lost>>,
         user' \in [Users -> Holder],
         \A j \in Transports \ Live : Holders(j)' \subseteq Holders(j),
         \A j \in Live \ {i} : Holders(j)' = Holders(j),
         i \notin Live => (r.armed => tp[i].armed),
         i \in Live => EndsFor(i)' /\ Exact(i)',
         Messages'
  PROVE  IInv'
<1>1. tp \in [Transports -> Record]
  BY DEF IInv, Typed
<1>2. tp' \in [Transports -> Record] /\ tp'[i] = r /\ \A j \in Transports \ {i} : tp'[j] = tp[j]
  BY <1>1 DEF Sets
<1>3. Typed'
  BY <1>2 DEF IInv, Typed, Moves, StackTyped, Transports
<1>4. \A j \in Transports : tp'[j].st = tp[j].st
  BY <1>2
<1>5. Live' = Live
  BY <1>4 DEF Live, Transports
<1>6. Registered'
  BY <1>4, RegisteredKept DEF IInv
<1>8. Buried'
  <2>1. \A j \in Transports \ Live : tp'[j].armed => tp[j].armed
    BY <1>2
  <2> QED
    BY <1>5, <2>1, MovesBuried DEF IInv
<1>10. Counted'
  <2> SUFFICES ASSUME NEW j \in Live, j # i PROVE Exact(j)'
    BY <1>5 DEF Counted
  <2>1. Returning(j)' = Returning(j) /\ Holders(j)' = Holders(j) /\ tp'[j] = tp[j]
    BY <1>2, MovesElse DEF Live
  <2> QED
    BY <2>1 DEF IInv, Counted, Exact
<1>11. Ends'
  BY <1>2, <1>5, MovesEnds DEF IInv, Live
<1> QED
  BY <1>3, <1>6, <1>8, <1>10, <1>11 DEF IInv

(* Steps that leave users, messages and counts alone. *)
LEMMA Quiet ==
  ASSUME IInv, ~lost, NEW t \in Threads, NEW i \in Transports, NEW old, NEW new,
         Moves(t, i, old, new), \A c \in new : c[1] \notin Carrying,
         Gives(t, i)' <=> Gives(t, i),
         i \in Live \/ \A c \in new : c[1] \in {"verify", "idle"},
         NEW r \in Record, Sets(i, r), UNCHANGED <<table, listed, user, lost>>,
         r.st = tp[i].st, r.ref = tp[i].ref, r.delayed = tp[i].delayed, r.wire = tp[i].wire,
         i \notin Live => (r.armed => tp[i].armed),
         i \in Live => EndsFor(i)'
  PROVE  IInv'
<1>2. tp'[i] = r /\ \A j \in Transports \ {i} : tp'[j] = tp[j]
  BY DEF Sets, IInv, Typed
<1>4. \A j \in Transports : tp'[j].ref = tp[j].ref
                            /\ tp'[j].delayed = tp[j].delayed /\ tp'[j].wire = tp[j].wire
  BY <1>2
<1>7. (\A j : Holders(j)' = Holders(j)) /\ user' \in [Users -> Holder]
  BY DEF Holders, IInv, Typed
<1>9. Messages'
  <2>1. \A j \in Transports : Queue(j)' = Queue(j)
    BY <1>4 DEF Queue
  <2>2. \A u \in Users : Placed(u)'
    BY <1>4, <2>1, MovesPlaced DEF IInv, Messages
  <2> QED
    BY <1>4, <2>2 DEF Messages, IInv, Transports
<1>10. ASSUME i \in Live PROVE Exact(i)'
  <2>1. Returning(i)' = Returning(i)
    BY MovesReturning
  <2> QED
    BY <1>4, <1>7, <1>10, <2>1 DEF IInv, Counted, Exact
<1> QED
  BY <1>7, <1>9, <1>10, Step

LEMMA RecordOf ==
  ASSUME Typed, NEW i \in Transports
  PROVE  /\ tp[i] \in Record /\ tp[i].ref \in Nat /\ tp[i].armed \in BOOLEAN /\ tp[i].id \in BOOLEAN
         /\ tp[i].delayed \in Seq(Users) /\ tp[i].wire \subseteq Users
         /\ Cancelled(tp[i]) \in Record /\ Armed(i, tp[i]) \in Record
         /\ AddRef(tp[i]) \in Record
<1>1. tp[i] \in Record
  BY DEF Typed
<1> DEFINE r == tp[i]
<1> HIDE DEF r
<1>2. r \in Record => /\ r.ref \in Nat /\ r.armed \in BOOLEAN /\ r.id \in BOOLEAN
                      /\ r.delayed \in Seq(Users) /\ r.wire \subseteq Users
  BY DEF Record
<1>3. r \in Record => AddRef(r) \in Record
  BY DEF Record, AddRef
<1>4. r \in Record => Armed(i, r) \in Record
  <2>1. Firing(i) \in BOOLEAN
    BY DEF Firing
  <2> QED
    BY <2>1 DEF Record, Armed
<1>5. r \in Record => Cancelled(r) \in Record
  BY <1>2 DEF Record, Cancelled
<1> QED
  BY <1>1, <1>2, <1>3, <1>4, <1>5 DEF r

(* The calls that give nothing back and see to nothing. *)
LEMMA GivesNone ==
  ASSUME Typed, NEW t \in Threads, NEW op \in Ops, At(t, op)
  PROVE  /\ Gives(t, TpOf(t)) <=> op \in {"dec", "told"} \/ Later(t) \cap {Call("dec", TpOf(t)), Call("told", TpOf(t))} # {}
         /\ op \in {"dec", "told", "idle", "disconnect"} =>
               Later(t) \cap {Call("dec", TpOf(t)), Call("told", TpOf(t))} = {}
<1> DEFINE i == TpOf(t)
           both == {Call("dec", i), Call("told", i)}
           c == CallFor(op, i, UserOf(t))
<1>1. Calls(t) = {c} \cup Later(t) /\ Callable(op, UserOf(t))
  BY Position
<1>2. c \in both <=> op \in {"dec", "told"}
  <2>1. c \in both => op \in {"dec", "told"}
    BY DEF Call, CallFor
  <2>2. op \in {"dec", "told"} => UserOf(t) = Nobody
    BY <1>1 DEF Callable, Carrying, Sending
  <2> QED
    BY <2>1, <2>2, SameCall
<1>3. op \in {"dec", "told", "idle", "disconnect"} => Later(t) \subseteq {Call("drain", i)}
  BY Position
<1>4. Call("drain", i) \notin both
  BY DEF Call
<1> QED
  BY <1>1, <1>2, <1>3, <1>4 DEF Gives

LEMMA MovesRemoving ==
  ASSUME NEW t \in Threads, NEW i \in Transports, NEW old, NEW new, Moves(t, i, old, new),
         \A c \in old : c[1] # "remove", Removing(i)
  PROVE  Removing(i)' /\ SeenTo(i)'
<1>1. \A other \in Threads \ {t} : Calls(other)' = Calls(other)
  BY DEF Moves, Aside
<1>2. PICK around \in SUBSET Around(i) : Calls(t) = old \cup around /\ Calls(t)' = new \cup around
  BY DEF Moves
<1>3. Call("remove", i) \notin old
  BY SameCall
<1>4. Removing(i)'
  BY <1>1, <1>2, <1>3 DEF Removing
<1> QED
  BY <1>4 DEF Removing, SeenTo

(* Nobody who sees to the transport has gone. *)
LEMMA MovesEndsFor ==
  ASSUME NEW t \in Threads, NEW i \in Transports, NEW old, NEW new, Moves(t, i, old, new), EndsFor(i),
         \A c \in old : c[1] \notin {"idle", "fire", "doom", "remove"},
         tp'[i].dying => tp[i].dying,
         tp'[i].ref = 0 => tp[i].ref = 0 /\ (tp[i].armed => tp'[i].armed \/ tp[i].dying)
  PROVE  EndsFor(i)'
<1>1. \A other \in Threads \ {t} : Calls(other)' = Calls(other)
  BY DEF Moves, Aside
<1>2. PICK around \in SUBSET Around(i) : Calls(t) = old \cup around /\ Calls(t)' = new \cup around
  BY DEF Moves
<1>3. ASSUME NEW op \in {"idle", "fire", "doom", "remove"}, Call(op, i) \in Calls(t)
      PROVE  Call(op, i) \in Calls(t)'
  <2>1. Call(op, i) \notin old
    BY <1>3, SameCall
  <2> QED
    BY <2>1, <1>2, <1>3
<1>4. SeenTo(i) => SeenTo(i)'
  BY <1>1, <1>3 DEF SeenTo
<1>5. Removing(i) => Removing(i)' /\ SeenTo(i)'
  BY MovesRemoving
<1> QED
  BY <1>4, <1>5 DEF EndsFor

LEMMA VerifySafe ==
  ASSUME IInv, ~lost, NEW t \in Threads, Verify(t)
  PROVE  IInv'
<1>1. Typed /\ At(t, "verify") /\ "verify" \in Ops /\ Goes(t, <<>>)
  BY DEF IInv, Verify, Ops
<1>2. PICK i \in Transports, u \in Anyone : i = TpOf(t) /\ u = UserOf(t)
  BY <1>1, Position DEF Callable
<1> DEFINE old == {CallFor("verify", i, u)}
           r == IF Valid(i) /\ tp[i].ref = 1 THEN Cancelled(tp[i]) ELSE tp[i]
<1>3. Moves(t, i, old, {}) /\ Calls(t)' = Later(t)
  BY <1>1, <1>2, PopsMoves
<1>4. Gives(t, i)' <=> Gives(t, i)
  <2>1. Gives(t, i) <=> Later(t) \cap {Call("dec", i), Call("told", i)} # {}
    BY <1>1, <1>2, GivesNone
  <2> QED
    BY <1>3, <2>1 DEF Gives
<1>5. /\ r \in Record /\ r.st = tp[i].st /\ r.ref = tp[i].ref
      /\ r.delayed = tp[i].delayed /\ r.wire = tp[i].wire /\ r.dying = tp[i].dying
      /\ (r.armed => tp[i].armed) /\ (r.armed = tp[i].armed \/ r.ref = 1)
  BY <1>1, RecordOf, ZenonT(40) DEF Cancelled, Record
<1>6. Sets(i, r) /\ UNCHANGED <<table, listed, user, lost>>
  BY <1>2 DEF Verify, SamePlaces
<1> HIDE DEF r
<1>7. ASSUME i \in Live PROVE EndsFor(i)'
  <2>1. EndsFor(i) /\ tp'[i] = r
    BY <1>6, <1>7 DEF IInv, Ends, Typed, Sets
  <2>2. \A c \in old : c[1] = "verify"
    BY DEF CallFor
  <2> QED
    BY <1>3, <1>5, <2>1, <2>2, MovesEndsFor
<1> QED
  BY <1>3, <1>4, <1>5, <1>6, <1>7, Quiet

LEMMA StartIdleSafe ==
  ASSUME IInv, ~lost, NEW t \in Threads, StartIdle(t)
  PROVE  IInv'
<1>1. Typed /\ At(t, "idle") /\ "idle" \in Ops /\ Goes(t, <<>>)
  BY DEF IInv, StartIdle, Ops
<1>2. PICK i \in Transports, u \in Anyone : i = TpOf(t) /\ u = UserOf(t)
  BY <1>1, Position DEF Callable
<1> DEFINE old == {CallFor("idle", i, u)}
           r == IF Valid(i) /\ ~tp[i].dying /\ tp[i].ref = 0 THEN Armed(i, tp[i]) ELSE tp[i]
<1>3. Moves(t, i, old, {}) /\ Calls(t)' = Later(t)
  BY <1>1, <1>2, PopsMoves
<1>4. Gives(t, i)' <=> Gives(t, i)
  <2>1. Gives(t, i) <=> Later(t) \cap {Call("dec", i), Call("told", i)} # {}
    BY <1>1, <1>2, GivesNone
  <2> QED
    BY <1>3, <2>1 DEF Gives
<1>5. /\ r \in Record /\ r.st = tp[i].st /\ r.ref = tp[i].ref
      /\ r.delayed = tp[i].delayed /\ r.wire = tp[i].wire /\ r.dying = tp[i].dying
      /\ (Valid(i) /\ ~r.dying /\ r.ref = 0 => r.armed)
      /\ (Valid(i) \/ r.armed = tp[i].armed)
  BY <1>1, RecordOf, ZenonT(40) DEF Armed, Record
<1>6. Sets(i, r) /\ UNCHANGED <<table, listed, user, lost>>
  BY <1>2 DEF StartIdle, SamePlaces
<1> HIDE DEF r
<1>7. i \in Live <=> Valid(i)
  BY DEF IInv, Registered, Live
<1>8. ASSUME i \in Live PROVE EndsFor(i)'
  <2>1. EndsFor(i) /\ tp'[i] = r
    BY <1>6, <1>8 DEF IInv, Ends, Typed, Sets
  <2>2. \A c \in old : c[1] # "remove"
    BY DEF CallFor
  <2>3. Removing(i) => Removing(i)' /\ SeenTo(i)'
    BY <1>3, <2>2, MovesRemoving
  <2> QED
    BY <1>5, <1>7, <1>8, <2>1, <2>3 DEF EndsFor
<1> QED
  BY <1>3, <1>4, <1>5, <1>6, <1>7, <1>8, Quiet

LEMMA ShutDownIs ==
  ASSUME IInv, NEW i \in Live
  PROVE  /\ ShutDown(i) \in Record /\ ShutDown(i).st = tp[i].st /\ ShutDown(i).ref = tp[i].ref
         /\ ShutDown(i).delayed = tp[i].delayed /\ ShutDown(i).wire = tp[i].wire
         /\ ShutDown(i).dying = tp[i].dying
         /\ ShutDown(i).ref = 0 => (tp[i].armed => ShutDown(i).armed \/ tp[i].dying)
<1> DEFINE x == tp[i]
           y == [x EXCEPT !.shut = TRUE]
<1>1. x \in Record /\ i \in Transports
  BY RecordOf DEF IInv, Live
<1>2. y \in Record /\ y.st = x.st /\ y.ref = x.ref /\ y.delayed = x.delayed /\ y.wire = x.wire
      /\ y.dying = x.dying /\ y.armed = x.armed
  BY <1>1 DEF Record
<1> DEFINE z == ShutDown(i)
<1>3. z = y \/ (y.dying /\ z = Cancelled(y)) \/ z = Armed(i, Cancelled(y))
  BY DEF ShutDown
<1> HIDE DEF x, y, z
<1>4. ASSUME NEW q \in Record
      PROVE  /\ Cancelled(q) \in Record /\ Cancelled(q).st = q.st /\ Cancelled(q).ref = q.ref
             /\ Cancelled(q).delayed = q.delayed /\ Cancelled(q).wire = q.wire /\ Cancelled(q).dying = q.dying
  BY DEF Record, Cancelled
<1>5. ASSUME NEW q \in Record
      PROVE  /\ Armed(i, q) \in Record /\ Armed(i, q).st = q.st /\ Armed(i, q).ref = q.ref
             /\ Armed(i, q).delayed = q.delayed /\ Armed(i, q).wire = q.wire /\ Armed(i, q).dying = q.dying
             /\ Armed(i, q).armed = TRUE
  <2>1. Firing(i) \in BOOLEAN
    BY DEF Firing
  <2> QED
    BY <2>1 DEF Record, Armed
<1> DEFINE c == Cancelled(y)
           a == Armed(i, c)
<1>9. /\ c \in Record /\ c.st = y.st /\ c.ref = y.ref
      /\ c.delayed = y.delayed /\ c.wire = y.wire /\ c.dying = y.dying
  BY <1>2, <1>4
<1>10. z = y \/ (y.dying /\ z = c) \/ z = a
  BY <1>3
<1> HIDE DEF c
<1>11. /\ a \in Record /\ a.st = c.st /\ a.ref = c.ref
       /\ a.delayed = c.delayed /\ a.wire = c.wire /\ a.dying = c.dying /\ a.armed = TRUE
  BY <1>5, <1>9
<1> HIDE DEF a
<1>6. z \in Record /\ z.st = y.st /\ z.ref = y.ref /\ z.delayed = y.delayed /\ z.wire = y.wire
      /\ z.dying = y.dying
  BY <1>2, <1>9, <1>10, <1>11
<1>7. z = y \/ y.dying \/ z.armed
  BY <1>10, <1>11
<1>8. /\ z \in Record /\ z.st = x.st /\ z.ref = x.ref /\ z.delayed = x.delayed /\ z.wire = x.wire
      /\ z.dying = x.dying /\ (x.armed => z.armed \/ x.dying)
  BY <1>2, <1>6, <1>7
<1> QED
  BY <1>8 DEF x, z

LEMMA ShutdownLockedSafe ==
  ASSUME IInv, ~lost, NEW t \in Threads, ShutdownLocked(t)
  PROVE  IInv'
<1>1. Typed /\ At(t, "shutdown") /\ "shutdown" \in Ops \ {"verify", "idle"} /\ Goes(t, <<>>)
  BY DEF IInv, ShutdownLocked, Ops
<1>2. PICK i \in Transports, u \in Anyone : i = TpOf(t) /\ u = UserOf(t)
  BY <1>1, Position DEF Callable
<1> DEFINE old == {CallFor("shutdown", i, u)}
<1>3. Moves(t, i, old, {}) /\ Calls(t)' = Later(t) /\ i \in Live
  BY <1>1, <1>2, PopsMoves, OnLive
<1>4. Gives(t, i)' <=> Gives(t, i)
  <2>1. Gives(t, i) <=> Later(t) \cap {Call("dec", i), Call("told", i)} # {}
    BY <1>1, <1>2, GivesNone
  <2> QED
    BY <1>3, <2>1 DEF Gives
<1>6. Sets(i, ShutDown(i)) /\ UNCHANGED <<table, listed, user, lost>>
  BY <1>2 DEF ShutdownLocked, SamePlaces
<1>7. EndsFor(i)'
  <2>1. EndsFor(i) /\ tp'[i] = ShutDown(i)
    BY <1>3, <1>6 DEF IInv, Ends, Typed, Sets
  <2>2. \A c \in old : c[1] = "shutdown"
    BY DEF CallFor
  <2> QED
    BY <1>3, <2>1, <2>2, MovesEndsFor, ShutDownIs
<1> QED
  BY <1>3, <1>4, <1>6, <1>7, Quiet, ShutDownIs

LEMMA ToldSafe ==
  ASSUME IInv, ~lost, NEW t \in Threads, Told(t)
  PROVE  IInv'
<1>1. Typed /\ At(t, "told") /\ "told" \in Ops \ {"verify", "idle"} /\ Goes(t, <<Call("dec", TpOf(t))>>)
  BY DEF IInv, Told, Ops
<1>2. PICK i \in Transports, u \in Anyone : i = TpOf(t) /\ u = UserOf(t)
  BY <1>1, Position DEF Callable
<1> DEFINE old == {CallFor("told", i, u)}
           new == {CallFor("dec", i, Nobody)}
           r == IF tp[i].shut \/ tp[i].dying THEN tp[i] ELSE ShutDown(i)
<1>3. Moves(t, i, old, new) /\ Calls(t)' = new \cup Later(t) /\ i \in Live
  <2>1. Callable("dec", Nobody) /\ Goes(t, <<CallFor("dec", TpOf(t), Nobody)>>)
    BY <1>1 DEF Callable, Ops, Anyone, Carrying, Sending, Call, CallFor
  <2>2. Tail(stack[t]) \in Rests("dec", TpOf(t))
    <3>1. Tail(stack[t]) \in Rests("told", TpOf(t))
      BY <1>1, OnStack
    <3> QED
      BY <3>1 DEF Rests, Sending
  <2> QED
    BY <1>1, <1>2, <2>1, <2>2, BecomesMoves, OnLive
<1>4. Gives(t, i)' <=> Gives(t, i)
  <2>1. Gives(t, i)
    BY <1>1, <1>2, GivesNone
  <2>2. Call("dec", i) \in Calls(t)'
    BY <1>3, SameCall
  <2> QED
    BY <2>1, <2>2 DEF Gives
<1>5. /\ r \in Record /\ r.st = tp[i].st /\ r.ref = tp[i].ref
      /\ r.delayed = tp[i].delayed /\ r.wire = tp[i].wire /\ r.dying = tp[i].dying
      /\ r.ref = 0 => (tp[i].armed => r.armed \/ tp[i].dying)
  BY <1>1, <1>3, RecordOf, ShutDownIs
<1>6. Sets(i, r) /\ UNCHANGED <<table, listed, user, lost>>
  BY <1>2 DEF Told, SamePlaces
<1> HIDE DEF r
<1>7. EndsFor(i)'
  <2>1. EndsFor(i) /\ tp'[i] = r
    BY <1>3, <1>6 DEF IInv, Ends, Typed, Sets
  <2>2. \A c \in old : c[1] = "told"
    BY DEF CallFor
  <2> QED
    BY <1>3, <1>5, <2>1, <2>2, MovesEndsFor
<1>8. \A c \in new : c[1] \notin Carrying
  BY DEF CallFor, Carrying, Sending
<1> QED
  BY <1>3, <1>4, <1>5, <1>6, <1>7, <1>8, Quiet

LEMMA DestroySafe ==
  ASSUME IInv, ~lost, NEW t \in Threads, Destroy(t)
  PROVE  IInv'
<1>1. Typed /\ At(t, "fire") /\ "fire" \in Ops \ {"verify", "idle"}
  BY DEF IInv, Destroy, Ops
<1>2. PICK i \in Transports, u \in Anyone : i = TpOf(t) /\ u = UserOf(t)
  BY <1>1, Position DEF Callable
<1> DEFINE old == {CallFor("fire", i, u)}
           new == IF tp[i].ref = 0 THEN {CallFor("doom", i, Nobody)} ELSE {}
           r == [tp[i] EXCEPT !.id = FALSE]
<1>3. Moves(t, i, old, new) /\ Calls(t)' = new \cup Later(t) /\ i \in Live
  <2>1. Callable("doom", Nobody) /\ Call("doom", TpOf(t)) = CallFor("doom", TpOf(t), Nobody)
    BY DEF Callable, Ops, Anyone, Carrying, Sending, Call, CallFor
  <2>2. Tail(stack[t]) \in Rests("doom", TpOf(t))
    <3>1. Tail(stack[t]) \in Rests("fire", TpOf(t))
      BY <1>1, OnStack
    <3> QED
      BY <3>1 DEF Rests, Sending
  <2>3. CASE tp[i].ref = 0
    <3>1. Goes(t, <<CallFor("doom", TpOf(t), Nobody)>>)
      BY <1>2, <2>1, <2>3 DEF Destroy
    <3> QED
      BY <1>1, <1>2, <2>1, <2>2, <2>3, <3>1, BecomesMoves, OnLive
  <2>4. CASE tp[i].ref # 0
    <3>1. Goes(t, <<>>)
      BY <1>2, <2>4 DEF Destroy
    <3> QED
      BY <1>1, <1>2, <2>4, <3>1, PopsMoves, OnLive
  <2> QED
    BY <2>3, <2>4
<1>4. Gives(t, i)' <=> Gives(t, i)
  <2>1. Gives(t, i) <=> Later(t) \cap {Call("dec", i), Call("told", i)} # {}
    BY <1>1, <1>2, GivesNone
  <2>2. CallFor("doom", i, Nobody) \notin {Call("dec", i), Call("told", i)}
    BY DEF Call, CallFor
  <2> QED
    BY <1>3, <2>1, <2>2 DEF Gives
<1>5. /\ r \in Record /\ r.st = tp[i].st /\ r.ref = tp[i].ref
      /\ r.delayed = tp[i].delayed /\ r.wire = tp[i].wire /\ r.dying = tp[i].dying
  <2>1. tp[i] \in Record
    BY <1>1, RecordOf
  <2> QED
    BY <2>1 DEF Record
<1>6. Sets(i, r) /\ UNCHANGED <<table, listed, user, lost>>
  BY <1>2 DEF Destroy, SamePlaces
<1> HIDE DEF r
<1>7. EndsFor(i)'
  <2>1. EndsFor(i) /\ tp'[i] = r
    BY <1>3, <1>6 DEF IInv, Ends, Typed, Sets
  <2>2. \A c \in old : c[1] # "remove"
    BY DEF CallFor
  <2>3. Removing(i) => Removing(i)' /\ SeenTo(i)'
    BY <1>3, <2>2, MovesRemoving
  <2>4. tp[i].ref = 0 => SeenTo(i)'
    <3>1. tp[i].ref = 0 => Call("doom", i) \in Calls(t)'
      BY <1>3, SameCall
    <3> QED
      BY <3>1 DEF SeenTo
  <2> QED
    BY <1>5, <2>1, <2>3, <2>4 DEF EndsFor
<1>8. \A c \in new : c[1] \notin Carrying
  BY DEF CallFor, Carrying, Sending
<1> QED
  BY <1>3, <1>4, <1>5, <1>6, <1>7, <1>8, Quiet

LEMMA DoomSafe ==
  ASSUME IInv, ~lost, NEW t \in Threads, Doom(t)
  PROVE  IInv'
<1>1. Typed /\ At(t, "doom") /\ "doom" \in Ops \ {"verify", "idle"} /\ Goes(t, <<Call("remove", TpOf(t))>>)
  BY DEF IInv, Doom, Ops
<1>2. PICK i \in Transports, u \in Anyone : i = TpOf(t) /\ u = UserOf(t)
  BY <1>1, Position DEF Callable
<1> DEFINE old == {CallFor("doom", i, u)}
           new == {CallFor("remove", i, Nobody)}
           r == [tp[i] EXCEPT !.dying = TRUE]
<1>3. Moves(t, i, old, new) /\ Calls(t)' = new \cup Later(t) /\ i \in Live
  <2>1. Callable("remove", Nobody) /\ Goes(t, <<CallFor("remove", TpOf(t), Nobody)>>)
    BY <1>1 DEF Callable, Ops, Anyone, Carrying, Sending, Call, CallFor
  <2>2. Tail(stack[t]) \in Rests("remove", TpOf(t))
    <3>1. Tail(stack[t]) \in Rests("doom", TpOf(t))
      BY <1>1, OnStack
    <3> QED
      BY <3>1 DEF Rests, Sending
  <2> QED
    BY <1>1, <1>2, <2>1, <2>2, BecomesMoves, OnLive
<1>4. Gives(t, i)' <=> Gives(t, i)
  <2>1. Gives(t, i) <=> Later(t) \cap {Call("dec", i), Call("told", i)} # {}
    BY <1>1, <1>2, GivesNone
  <2>2. CallFor("remove", i, Nobody) \notin {Call("dec", i), Call("told", i)}
    BY DEF Call, CallFor
  <2> QED
    BY <1>3, <2>1, <2>2 DEF Gives
<1>5. /\ r \in Record /\ r.st = tp[i].st /\ r.ref = tp[i].ref
      /\ r.delayed = tp[i].delayed /\ r.wire = tp[i].wire
  <2>1. tp[i] \in Record
    BY <1>1, RecordOf
  <2> QED
    BY <2>1 DEF Record
<1>6. Sets(i, r) /\ UNCHANGED <<table, listed, user, lost>>
  BY <1>2 DEF Doom, SamePlaces
<1>7. EndsFor(i)'
  <2>1. Call("remove", i) \in Calls(t)'
    BY <1>3, SameCall
  <2> QED
    BY <2>1 DEF EndsFor, Removing, SeenTo
<1>8. \A c \in new : c[1] \notin Carrying
  BY DEF CallFor, Carrying, Sending
<1> HIDE DEF r, new, old
<1> QED
  BY <1>3, <1>4, <1>5, <1>6, <1>7, <1>8, Quiet

(* A thread begins with a call for a transport whose counts stay. *)
LEMMA BeginQuiet ==
  ASSUME IInv, ~lost, NEW t \in Threads, NEW i \in Live,
         NEW o \in {"flush", "drain", "disconnect", "shutdown", "fire"}, Begin(t, <<Call(o, i)>>),
         NEW r \in Record, Sets(i, r), UNCHANGED <<table, listed, user, lost>>,
         r.st = tp[i].st, r.ref = tp[i].ref, r.delayed = tp[i].delayed, r.wire = tp[i].wire,
         r.dying = tp[i].dying, r.armed = tp[i].armed \/ o = "fire"
  PROVE  IInv'
<1> DEFINE new == {CallFor(o, i, Nobody)}
<1>1. i \in Transports /\ Call(o, i) = CallFor(o, i, Nobody)
  BY DEF Live, Call, CallFor
<1>2. Callable(o, Nobody) /\ <<>> \in Rests(o, i)
  BY DEF Callable, Ops, Anyone, Carrying, Sending, Rests
<1>3. Moves(t, i, {}, new) /\ Calls(t) = {} /\ Calls(t)' = new
  BY <1>1, <1>2, BeginsMoves DEF IInv
<1>4. Gives(t, i)' <=> Gives(t, i)
  <2>1. CallFor(o, i, Nobody) \notin {Call("dec", i), Call("told", i)}
    BY DEF Call, CallFor
  <2> QED
    BY <1>3, <2>1 DEF Gives
<1>5. EndsFor(i)'
  <2>1. EndsFor(i) /\ tp'[i] = r
    BY <1>1 DEF IInv, Ends, Typed, Sets
  <2>2. CASE o = "fire"
    <3>1. SeenTo(i)'
      BY <1>1, <1>3, <2>2 DEF SeenTo
    <3>2. Removing(i) => Removing(i)'
      BY <1>1, <1>3, MovesRemoving
    <3> QED
      BY <2>1, <3>1, <3>2 DEF EndsFor
  <2>3. CASE o # "fire"
    BY <1>1, <1>3, <2>1, <2>3, MovesEndsFor
  <2> QED
    BY <2>2, <2>3
<1>6. \A c \in new : c[1] \notin Carrying
  BY DEF CallFor, Carrying, Sending
<1> HIDE DEF new
<1> QED
  BY <1>1, <1>3, <1>4, <1>5, <1>6, Quiet

LEMMA ConnectCompleteSafe ==
  ASSUME IInv, ~lost, NEW t \in Threads, ConnectComplete(t)
  PROVE  IInv'
<1>1. PICK i \in Live, o \in {"flush", "disconnect", "drain"}, conn \in {"open", "closed", "failed"} :
         /\ Sets(i, [tp[i] EXCEPT !.conn = conn]) /\ Begin(t, <<Call(o, i)>>)
         /\ SamePlaces /\ UNCHANGED user
  BY DEF ConnectComplete
<1> DEFINE r == [tp[i] EXCEPT !.conn = conn]
<1>2. tp[i] \in Record
  BY DEF IInv, Typed, Live
<1>3. /\ r \in Record /\ r.st = tp[i].st /\ r.ref = tp[i].ref /\ r.delayed = tp[i].delayed
      /\ r.wire = tp[i].wire /\ r.dying = tp[i].dying /\ r.armed = tp[i].armed
  BY <1>2 DEF Record
<1>4. Sets(i, r) /\ UNCHANGED <<table, listed, user, lost>>
  BY <1>1 DEF SamePlaces
<1> HIDE DEF r
<1> QED
  BY <1>1, <1>3, <1>4, BeginQuiet

LEMMA ClosedSafe ==
  ASSUME IInv, ~lost, NEW t \in Threads, Closed(t)
  PROVE  IInv'
<1>1. PICK i \in Live :
         /\ Sets(i, [tp[i] EXCEPT !.conn = "closed"]) /\ Begin(t, <<Call("disconnect", i)>>)
         /\ SamePlaces /\ UNCHANGED user
  BY DEF Closed
<1> DEFINE r == [tp[i] EXCEPT !.conn = "closed"]
<1>2. tp[i] \in Record
  BY DEF IInv, Typed, Live
<1>3. /\ r \in Record /\ r.st = tp[i].st /\ r.ref = tp[i].ref /\ r.delayed = tp[i].delayed
      /\ r.wire = tp[i].wire /\ r.dying = tp[i].dying /\ r.armed = tp[i].armed
  BY <1>2 DEF Record
<1>4. Sets(i, r) /\ UNCHANGED <<table, listed, user, lost>>
  BY <1>1 DEF SamePlaces
<1> HIDE DEF r
<1> QED
  BY <1>1, <1>3, <1>4, BeginQuiet

LEMMA IdleTimerSafe ==
  ASSUME IInv, ~lost, NEW t \in Threads, IdleTimer(t)
  PROVE  IInv'
<1>1. PICK i \in Transports :
         /\ tp[i].armed
         /\ Sets(i, [tp[i] EXCEPT !.armed = FALSE]) /\ Begin(t, <<Call("fire", i)>>)
         /\ SamePlaces /\ UNCHANGED user
  BY DEF IdleTimer
<1> DEFINE r == [tp[i] EXCEPT !.armed = FALSE]
<1>2. tp[i] \in Record /\ i \in Live
  BY <1>1 DEF IInv, Typed, Buried, Untouched
<1>3. /\ r \in Record /\ r.st = tp[i].st /\ r.ref = tp[i].ref /\ r.delayed = tp[i].delayed
      /\ r.wire = tp[i].wire /\ r.dying = tp[i].dying
  BY <1>2 DEF Record
<1>4. Sets(i, r) /\ UNCHANGED <<table, listed, user, lost>>
  BY <1>1 DEF SamePlaces
<1> HIDE DEF r
<1>5. r.armed = tp[i].armed \/ "fire" = "fire"
  OBVIOUS
<1> QED
  BY <1>1, <1>2, <1>3, <1>4, <1>5, BeginQuiet

LEMMA HasSt ==
  ASSUME NEW u, Has(u)
  PROVE  user[u].st \in {"held", "sent"}
BY DEF Has

LEMMA ShutdownSafe ==
  ASSUME IInv, ~lost, NEW t \in Threads, NEW u \in Users, Shutdown(t, u)
  PROVE  IInv'
<1>1. PICK i \in Live : i = user[u].tp
  BY HeldLive, HasSt DEF Shutdown
<1>2. Begin(t, <<Call("shutdown", i)>>) /\ UNCHANGED <<tp, table, listed, user, lost>>
  BY <1>1 DEF Shutdown, SamePlaces
<1>3. tp[i] \in Record /\ i \in Transports
  BY DEF IInv, Typed, Live
<1>4. Sets(i, tp[i])
  BY <1>2, <1>3 DEF Sets, IInv, Typed
<1> QED
  BY <1>2, <1>3, <1>4, BeginQuiet

-----------------------------------------------------------------------------
(* Steps that count. *)

LEMMA CountsFinite ==
  ASSUME NEW i
  PROVE  /\ IsFiniteSet(Holders(i)) /\ Cardinality(Holders(i)) \in Nat
         /\ IsFiniteSet(Returning(i)) /\ Cardinality(Returning(i)) \in Nat
<1>1. Holders(i) \subseteq Users /\ Returning(i) \subseteq Threads
  BY DEF Holders, Returning
<1> QED
  BY <1>1, FiniteAssumption, FS_Subset, FS_CardinalityType

(* A thread is to give one back, or one that was. *)
LEMMA ReturningCounted ==
  ASSUME NEW i, Exact(i), Holders(i)' = Holders(i), NEW t,
         \/ t \notin Returning(i) /\ Returning(i)' = Returning(i) \cup {t} /\ tp'[i].ref = tp[i].ref + 1
         \/ t \in Returning(i) /\ Returning(i)' = Returning(i) \ {t} /\ tp'[i].ref = tp[i].ref - 1
  PROVE  Exact(i)'
<1>1. /\ IsFiniteSet(Returning(i)) /\ Cardinality(Returning(i)) \in Nat /\ Cardinality(Holders(i)) \in Nat
  BY CountsFinite
<1>2. t \notin Returning(i) => Cardinality(Returning(i) \cup {t}) = Cardinality(Returning(i)) + 1
  BY <1>1, FS_AddElement
<1>3. t \in Returning(i) => Cardinality(Returning(i) \ {t}) = Cardinality(Returning(i)) - 1
  BY <1>1, FS_RemoveElement
<1>4. tp[i].ref = Cardinality(Holders(i)) + Cardinality(Returning(i))
  BY DEF Exact
<1>5. CASE t \notin Returning(i) /\ Returning(i)' = Returning(i) \cup {t} /\ tp'[i].ref = tp[i].ref + 1
  <2>1. tp'[i].ref = Cardinality(Holders(i)) + Cardinality(Returning(i) \cup {t})
    BY <1>1, <1>2, <1>4, <1>5
  <2> QED
    BY <2>1, <1>5 DEF Exact
<1>6. CASE t \in Returning(i) /\ Returning(i)' = Returning(i) \ {t} /\ tp'[i].ref = tp[i].ref - 1
  <2>1. tp'[i].ref = Cardinality(Holders(i)) + Cardinality(Returning(i) \ {t})
    BY <1>1, <1>3, <1>4, <1>6
  <2> QED
    BY <2>1, <1>6 DEF Exact
<1> QED
  BY <1>5, <1>6

(* A user takes a transport. *)
LEMMA HoldersCounted ==
  ASSUME NEW i, Exact(i), Returning(i)' = Returning(i), NEW u, u \notin Holders(i),
         Holders(i)' = Holders(i) \cup {u}, tp'[i].ref = tp[i].ref + 1
  PROVE  Exact(i)'
<1>1. /\ IsFiniteSet(Holders(i)) /\ Cardinality(Holders(i)) \in Nat /\ Cardinality(Returning(i)) \in Nat
  BY CountsFinite
<1>2. Cardinality(Holders(i) \cup {u}) = Cardinality(Holders(i)) + 1
  BY <1>1, FS_AddElement
<1> QED
  BY <1>1, <1>2 DEF Exact

(* A user's reference becomes one that a thread is to give back. *)
LEMMA HandedOver ==
  ASSUME NEW i, Exact(i), NEW t, t \notin Returning(i), Returning(i)' = Returning(i) \cup {t},
         NEW u, u \in Holders(i), Holders(i)' = Holders(i) \ {u}, tp'[i].ref = tp[i].ref
  PROVE  Exact(i)'
<1>1. /\ IsFiniteSet(Holders(i)) /\ Cardinality(Holders(i)) \in Nat
      /\ IsFiniteSet(Returning(i)) /\ Cardinality(Returning(i)) \in Nat
  BY CountsFinite
<1>2. Cardinality(Returning(i) \cup {t}) = Cardinality(Returning(i)) + 1
  BY <1>1, FS_AddElement
<1>3. Cardinality(Holders(i) \ {u}) = Cardinality(Holders(i)) - 1
  BY <1>1, FS_RemoveElement
<1> QED
  BY <1>1, <1>2, <1>3 DEF Exact

(* A user or a thread that gives a transport back has it counted. *)
LEMMA CountedOnce ==
  ASSUME IInv, NEW i \in Live
  PROVE  /\ Holders(i) # {} => tp[i].ref > 0
         /\ Returning(i) # {} => tp[i].ref > 0
<1>1. /\ IsFiniteSet(Holders(i)) /\ Cardinality(Holders(i)) \in Nat
      /\ IsFiniteSet(Returning(i)) /\ Cardinality(Returning(i)) \in Nat
  BY CountsFinite
<1>2. Holders(i) # {} => Cardinality(Holders(i)) # 0
  BY <1>1, FS_EmptySet
<1>3. Returning(i) # {} => Cardinality(Returning(i)) # 0
  BY <1>1, FS_EmptySet
<1>4. Exact(i)
  BY DEF IInv, Counted
<1> QED
  BY <1>1, <1>2, <1>3, <1>4 DEF Exact

(* Messages and users stay. *)
LEMMA MessagesKept ==
  ASSUME IInv, NEW t \in Threads, NEW i \in Transports, NEW old, NEW new, Moves(t, i, old, new),
         \A c \in new : c[1] \notin Carrying, UNCHANGED user,
         NEW r, Sets(i, r), r.delayed = tp[i].delayed, r.wire = tp[i].wire
  PROVE  Messages'
<1>2. tp'[i] = r /\ \A j \in Transports \ {i} : tp'[j] = tp[j]
  BY DEF Sets, IInv, Typed
<1>4. \A j \in Transports : tp'[j].delayed = tp[j].delayed /\ tp'[j].wire = tp[j].wire
  BY <1>2
<1>5. \A j \in Transports : Queue(j)' = Queue(j)
  BY <1>4 DEF Queue
<1>6. \A u \in Users : Placed(u)'
  BY <1>4, <1>5, MovesPlaced DEF IInv, Messages
<1> QED
  BY <1>4, <1>6 DEF Messages, IInv, Transports

LEMMA DecRefSafe ==
  ASSUME IInv, ~lost, NEW t \in Threads, DecRef(t)
  PROVE  IInv'
<1>1. Typed /\ At(t, "dec") /\ "dec" \in Ops \ {"verify", "idle"}
  BY DEF IInv, DecRef, Ops
<1>2. PICK i \in Transports, u \in Anyone : i = TpOf(t) /\ u = UserOf(t)
  BY <1>1, Position DEF Callable
<1> DEFINE old == {CallFor("dec", i, u)}
           new == IF tp[i].ref = 1 THEN {CallFor("idle", i, Nobody)} ELSE {}
           r == [tp[i] EXCEPT !.ref = @ - 1]
<1>3. Moves(t, i, old, new) /\ Calls(t)' = new \cup Later(t) /\ i \in Live
  <2>1. Callable("idle", Nobody) /\ Call("idle", TpOf(t)) = CallFor("idle", TpOf(t), Nobody)
    BY DEF Callable, Ops, Anyone, Carrying, Sending, Call, CallFor
  <2>2. Tail(stack[t]) \in Rests("idle", TpOf(t))
    <3>1. Tail(stack[t]) \in Rests("dec", TpOf(t))
      BY <1>1, OnStack
    <3> QED
      BY <3>1 DEF Rests, Sending
  <2>3. CASE tp[i].ref = 1
    <3>1. Goes(t, <<CallFor("idle", TpOf(t), Nobody)>>)
      BY <1>2, <2>1, <2>3 DEF DecRef
    <3> QED
      BY <1>1, <1>2, <2>1, <2>2, <2>3, <3>1, BecomesMoves, OnLive
  <2>4. CASE tp[i].ref # 1
    <3>1. Goes(t, <<>>)
      BY <1>2, <2>4 DEF DecRef
    <3> QED
      BY <1>1, <1>2, <2>4, <3>1, PopsMoves, OnLive
  <2> QED
    BY <2>3, <2>4
<1>4. Gives(t, i) /\ ~Gives(t, i)'
  <2>1. Gives(t, i) /\ Later(t) \cap {Call("dec", i), Call("told", i)} = {}
    BY <1>1, <1>2, GivesNone
  <2>2. CallFor("idle", i, Nobody) \notin {Call("dec", i), Call("told", i)}
    BY DEF Call, CallFor
  <2> QED
    BY <1>3, <2>1, <2>2 DEF Gives
<1>5. t \in Returning(i) /\ Returning(i)' = Returning(i) \ {t}
  BY <1>3, <1>4, MovesReturning
<1>6. tp[i].ref \in Nat \ {0}
  BY <1>1, <1>3, <1>5, CountedOnce, RecordOf
<1>7. /\ r \in Record /\ r.st = tp[i].st /\ r.ref = tp[i].ref - 1
      /\ r.delayed = tp[i].delayed /\ r.wire = tp[i].wire /\ r.dying = tp[i].dying /\ r.armed = tp[i].armed
  <2>1. tp[i] \in Record /\ tp[i].ref - 1 \in Nat
    BY <1>1, <1>6, RecordOf
  <2> QED
    BY <2>1 DEF Record
<1>8. Sets(i, r) /\ UNCHANGED <<table, listed, user, lost>>
  BY <1>2 DEF DecRef, SamePlaces
<1> HIDE DEF r
<1>9. EndsFor(i) /\ Exact(i) /\ tp'[i] = r
  BY <1>3, <1>8 DEF IInv, Ends, Counted, Typed, Sets
<1>10. EndsFor(i)'
  <2>1. \A c \in old : c[1] # "remove"
    BY DEF CallFor
  <2>2. Removing(i) => Removing(i)' /\ SeenTo(i)'
    BY <1>3, <2>1, MovesRemoving
  <2>3. r.ref = 0 => Call("idle", i) \in Calls(t)'
    BY <1>3, <1>6, <1>7, SameCall
  <2>4. r.ref = 0 => SeenTo(i)'
    BY <2>3 DEF SeenTo
  <2> QED
    BY <1>7, <1>9, <2>2, <2>4 DEF EndsFor
<1>11. (\A j : Holders(j)' = Holders(j)) /\ user' \in [Users -> Holder]
  BY <1>8 DEF Holders, IInv, Typed
<1>12. Exact(i)'
  BY <1>5, <1>7, <1>9, <1>11, ReturningCounted
<1>13. \A c \in new : c[1] \notin Carrying
  BY DEF CallFor, Carrying, Sending
<1>14. Messages'
  BY <1>3, <1>7, <1>8, <1>13, MessagesKept
<1> HIDE DEF old, new
<1> QED
  BY <1>3, <1>7, <1>8, <1>10, <1>11, <1>12, <1>14, Step

LEMMA DisconnectSafe ==
  ASSUME IInv, ~lost, NEW t \in Threads, Disconnect(t)
  PROVE  IInv'
<1>1. Typed /\ At(t, "disconnect") /\ "disconnect" \in Ops \ {"verify", "idle"}
  BY DEF IInv, Disconnect, Ops
<1>2. PICK i \in Transports, u \in Anyone : i = TpOf(t) /\ u = UserOf(t)
  BY <1>1, Position DEF Callable
<1> DEFINE old == {CallFor("disconnect", i, u)}
<1>3. i \in Live /\ tp[i] \in Record /\ tp[i].ref \in Nat
  BY <1>1, <1>2, OnLive, RecordOf
<1>4. ~Gives(t, i) /\ Later(t) \cap {Call("dec", i), Call("told", i)} = {}
  BY <1>1, <1>2, GivesNone
<1>5. EndsFor(i) /\ Exact(i) /\ \A c \in old : c[1] = "disconnect"
  BY <1>3 DEF IInv, Ends, Counted, CallFor
<1>6. UNCHANGED <<table, listed, user, lost>>
  BY DEF Disconnect, SamePlaces
<1>7. CASE tp[i].shut \/ tp[i].dying
  <2>1. Goes(t, <<>>) /\ UNCHANGED tp
    BY <1>2, <1>7 DEF Disconnect
  <2>2. Moves(t, i, old, {}) /\ Calls(t)' = Later(t)
    BY <1>1, <1>2, <2>1, PopsMoves
  <2>3. ~Gives(t, i)'
    BY <1>4, <2>2 DEF Gives
  <2>4. Sets(i, tp[i])
    BY <1>1, <1>2, <2>1 DEF Sets, Typed
  <2>5. EndsFor(i)'
    BY <1>5, <2>1, <2>2, MovesEndsFor
  <2> QED
    BY <1>3, <1>4, <1>6, <2>2, <2>3, <2>4, <2>5, Quiet
<1>8. CASE ~tp[i].shut /\ ~tp[i].dying
  <2> DEFINE new == IF tp[i].ref = 0 THEN {Call("verify", i), Call("told", i)} ELSE {Call("told", i)}
             r == AddRef(tp[i])
  <2>1. Sets(i, r) /\ Goes(t, Verifying(i, Nobody) \o <<Call("told", i)>>)
    BY <1>2, <1>8 DEF Disconnect
  <2>2. Tail(stack[t]) \in Rests("told", TpOf(t))
        /\ <<Call("told", TpOf(t))>> \o Tail(stack[t]) \in Rests("verify", TpOf(t))
    <3> DEFINE told == Call("told", TpOf(t))
               drain == Call("drain", TpOf(t))
    <3>1. Tail(stack[t]) \in {<<>>, <<drain>>}
      BY <1>1, OnStack DEF Rests, Sending
    <3>2. told \in AnyCall /\ drain \in AnyCall
      BY <1>2, CallTyped DEF Ops, Anyone
    <3>3. <<told>> \o <<>> = <<told>> /\ <<told>> \o <<drain>> = <<told, drain>>
      BY <3>2, PutBefore, ConcatEmptySeq
    <3> QED
      BY <3>1, <3>3 DEF Rests, Sending
  <2>3. Moves(t, i, old, new) /\ Calls(t)' = new \cup Later(t)
    <3>1. CASE tp[i].ref = 0
      <4>1. Verifying(i, Nobody) = <<Call("verify", i)>>
        BY <3>1 DEF Verifying, Call, CallFor
      <4>2. <<Call("verify", i)>> \o <<Call("told", i)>> = <<Call("verify", i), Call("told", i)>>
        BY PutBefore, CallTyped DEF Ops, Anyone
      <4>3. Goes(t, <<Call("verify", TpOf(t)), Call("told", TpOf(t))>>)
        BY <1>2, <2>1, <4>1, <4>2
      <4>4. "verify" \in Ops \ Carrying /\ "told" \in Ops \ (Carrying \cup {"verify"})
        BY DEF Ops, Carrying, Sending
      <4> QED
        BY <1>1, <1>2, <2>2, <3>1, <4>3, <4>4, BecomesTwoMoves
    <3>2. CASE tp[i].ref # 0
      <4>1. Verifying(i, Nobody) = <<>>
        BY <3>2 DEF Verifying
      <4>2. <<>> \o <<Call("told", i)>> = <<CallFor("told", i, Nobody)>>
        BY CallTyped, ConcatEmptySeq DEF Ops, Anyone, Call, CallFor
      <4>3. Goes(t, <<CallFor("told", TpOf(t), Nobody)>>)
        BY <1>2, <2>1, <4>1, <4>2
      <4>4. Callable("told", Nobody) /\ CallFor("told", i, Nobody) = Call("told", i)
        BY DEF Callable, Ops, Anyone, Carrying, Sending, Call, CallFor
      <4> QED
        BY <1>1, <1>2, <2>2, <3>2, <4>3, <4>4, BecomesMoves
    <3> QED
      BY <3>1, <3>2
  <2>4. Gives(t, i)'
    BY <2>3 DEF Gives
  <2>5. t \notin Returning(i) /\ Returning(i)' = Returning(i) \cup {t}
    BY <1>4, <2>3, <2>4, MovesReturning
  <2>6. /\ r \in Record /\ r.st = tp[i].st /\ r.ref = tp[i].ref + 1 /\ r.delayed = tp[i].delayed
        /\ r.wire = tp[i].wire /\ r.dying = tp[i].dying /\ r.armed = tp[i].armed
    BY <1>3 DEF AddRef, Record
  <2> HIDE DEF r
  <2>7. tp'[i] = r
    BY <2>1, <1>1 DEF Sets, Typed
  <2>8. EndsFor(i)'
    <3>1. tp'[i].ref # 0 /\ (tp'[i].dying => tp[i].dying)
      BY <1>3, <2>6, <2>7
    <3>2. \A c \in old : c[1] \notin {"idle", "fire", "doom", "remove"}
      BY <1>5
    <3> QED
      BY <1>5, <2>3, <3>1, <3>2, MovesEndsFor
  <2>9. (\A j : Holders(j)' = Holders(j)) /\ user' \in [Users -> Holder]
    BY <1>6 DEF Holders, IInv, Typed
  <2>10. Exact(i)'
    BY <1>5, <2>5, <2>6, <2>7, <2>9, ReturningCounted
  <2>11. \A c \in new : c[1] \notin Carrying
    BY DEF Call, Carrying, Sending
  <2>12. Messages'
    BY <1>6, <2>1, <2>3, <2>6, <2>11, MessagesKept
  <2> HIDE DEF new
  <2> QED
    BY <1>3, <1>6, <2>1, <2>3, <2>6, <2>8, <2>9, <2>10, <2>12, Step
<1> QED
  BY <1>2, <1>7, <1>8 DEF Disconnect

-----------------------------------------------------------------------------
(* Steps with messages. *)

Alone(t, u) == \A other \in Threads \ {t} : ~Brings(other, u) /\ \A j \in Transports : ~Carries(other, u, j)
Absent(u)   == \A j \in Transports : u \notin Queue(j) \cup tp[j].wire

(* A message that a thread has is nowhere else. *)
LEMMA OnlyCarried ==
  ASSUME IInv, NEW t \in Threads, NEW op \in Sending, At(t, op)
  PROVE  UserOf(t) \in Users /\ Awaits(UserOf(t), TpOf(t)) /\ Absent(UserOf(t)) /\ Alone(t, UserOf(t))
<1>1. Typed /\ op \in Ops /\ op \in Carrying
  BY DEF IInv, Sending, Ops, Carrying
<1>2. PICK i \in Transports, u \in Users : i = TpOf(t) /\ u = UserOf(t)
  BY <1>1, Position DEF Callable
<1>3. Carries(t, u, i)
  BY <1>1, <1>2, Position DEF Carries
<1>4. Awaits(u, i) /\ u \notin Queue(i) \cup tp[i].wire
  BY <1>3 DEF IInv, Messages, Placed
<1>5. Absent(u)
  BY <1>4 DEF IInv, Messages, Placed, Awaits, Absent
<1>6. Alone(t, u)
  <2>1. ASSUME NEW other \in Threads \ {t}, Brings(other, u) PROVE FALSE
    BY <2>1, <1>4 DEF IInv, Messages, Placed, Awaits
  <2>2. ASSUME NEW other \in Threads \ {t}, NEW j \in Transports, Carries(other, u, j) PROVE FALSE
    <3>1. Awaits(u, j)
      BY <2>2 DEF IInv, Messages, Placed
    <3>2. j = i
      BY <3>1, <1>4 DEF Awaits
    <3> QED
      BY <3>2, <2>2, <1>3 DEF IInv, Messages, Placed
  <2> QED
    BY <2>1, <2>2 DEF Alone
<1> QED
  BY <1>2, <1>4, <1>5, <1>6

(* A message that waits for the connection or the socket is in no call. *)
LEMMA OnlyWaits ==
  ASSUME IInv, NEW i \in Transports, NEW u \in Users, u \in Queue(i) \cup tp[i].wire
  PROVE  /\ Awaits(u, i) /\ u \notin Queue(i) \cap tp[i].wire
         /\ \A j \in Transports \ {i} : u \notin Queue(j) \cup tp[j].wire
         /\ \A t \in Threads : Alone(t, u)
<1>1. Awaits(u, i) /\ u \notin Queue(i) \cap tp[i].wire
  BY DEF IInv, Messages, Placed
<1>2. \A j \in Transports \ {i} : u \notin Queue(j) \cup tp[j].wire
  BY <1>1 DEF IInv, Messages, Placed, Awaits
<1>3. \A t \in Threads : ~Brings(t, u)
  BY <1>1 DEF IInv, Messages, Placed, Awaits
<1>4. ASSUME NEW t \in Threads, NEW j \in Transports, Carries(t, u, j) PROVE FALSE
  <2>1. Awaits(u, j) /\ u \notin Queue(j) \cup tp[j].wire
    BY <1>4 DEF IInv, Messages, Placed
  <2>2. j = i
    BY <2>1, <1>1 DEF Awaits
  <2> QED
    BY <2>1, <2>2
<1> QED
  BY <1>1, <1>2, <1>3, <1>4 DEF Alone

(* A user that waits for nothing has no message anywhere. *)
LEMMA Nowhere ==
  ASSUME IInv, NEW u \in Users, user[u].st \notin {"arriving", "sending"}
  PROVE  Absent(u) /\ \A t \in Threads : Alone(t, u)
BY DEF IInv, Messages, Placed, Awaits, Alone, Absent

LEMMA OnlyBrought ==
  ASSUME IInv, NEW t \in Threads, At(t, "receive")
  PROVE  /\ UserOf(t) \in Users /\ user[UserOf(t)].st = "arriving"
         /\ Absent(UserOf(t)) /\ Alone(t, UserOf(t))
<1>1. Typed /\ "receive" \in Ops /\ "receive" \in Carrying
  BY DEF IInv, Sending, Ops, Carrying
<1>2. PICK i \in Transports, u \in Users : i = TpOf(t) /\ u = UserOf(t)
  BY <1>1, Position DEF Callable
<1>3. Brings(t, u)
  BY <1>1, <1>2, Position DEF Brings
<1>4. user[u].st = "arriving"
  BY <1>3 DEF IInv, Messages, Placed
<1>5. Absent(u)
  BY <1>4 DEF IInv, Messages, Placed, Awaits, Absent
<1>6. Alone(t, u)
  BY <1>3, <1>4 DEF IInv, Messages, Placed, Awaits, Alone
<1> QED
  BY <1>2, <1>4, <1>5, <1>6

(* Where the message of the user is after a step. *)
LEMMA PlacedAfter ==
  ASSUME NEW t \in Threads, NEW i \in Transports, NEW old, NEW new, Moves(t, i, old, new),
         NEW u \in Users, Alone(t, u),
         user'[u].tp = NoTp <=> user'[u].st \in {"out", "arriving"},
         \A j \in Transports : u \in Queue(j)' \cup tp'[j].wire =>
            Awaits(u, j)' /\ u \notin Queue(j)' \cap tp'[j].wire,
         \A c \in new : c[3] = u /\ c[1] = "receive" => user'[u].st = "arriving",
         \A c \in new : c[3] = u /\ c[1] \in Sending => Awaits(u, i)' /\ u \notin Queue(i)' \cup tp'[i].wire
  PROVE  Placed(u)'
<1>1. \A other \in Threads \ {t} : Calls(other)' = Calls(other)
  BY DEF Moves, Aside
<1>2. \A other \in Threads \ {t} : ~Brings(other, u)' /\ \A j \in Transports : ~Carries(other, u, j)'
  BY <1>1 DEF Alone, Brings, Carries
<1>3. PICK around \in SUBSET Around(i) : Calls(t)' = new \cup around
  BY DEF Moves
<1>4. \A c \in around : c[1] \notin Carrying
  BY DEF Around, Call, Carrying, Sending
<1>5. ASSUME NEW op \in Carrying, NEW j, CallFor(op, j, u) \in Calls(t)'
      PROVE  CallFor(op, j, u) \in new /\ j = i
  <2>1. CallFor(op, j, u) \in new
    BY <1>3, <1>4, <1>5, SameCall
  <2>2. CallFor(op, j, u)[2] = j /\ CallFor(op, j, u) = CallFor(CallFor(op, j, u)[1], i, CallFor(op, j, u)[3])
    BY <2>1 DEF Moves, CallFor
  <2> QED
    BY <2>1, <2>2, SameCall
<1>6. Brings(t, u)' => user'[u].st = "arriving"
  <2> SUFFICES ASSUME Brings(t, u)' PROVE user'[u].st = "arriving"
    OBVIOUS
  <2>1. PICK j \in Transports : CallFor("receive", j, u) \in Calls(t)'
    BY DEF Brings
  <2>2. CallFor("receive", j, u) \in new
    BY <2>1, <1>5 DEF Carrying
  <2> QED
    BY <2>2, SameCall
<1>7. ASSUME NEW j \in Transports, Carries(t, u, j)'
      PROVE  Awaits(u, j)' /\ u \notin Queue(j)' \cup tp'[j].wire
  <2>1. PICK op \in Sending : CallFor(op, j, u) \in Calls(t)'
    BY <1>7 DEF Carries
  <2>2. CallFor(op, j, u) \in new /\ j = i
    BY <2>1, <1>5 DEF Carrying
  <2> QED
    BY <2>2, SameCall
<1>8. \A other \in Threads : Brings(other, u)' => other = t /\ user'[u].st = "arriving"
  BY <1>2, <1>6
<1>9. \A other \in Threads, j \in Transports :
         Carries(other, u, j)' => other = t /\ Awaits(u, j)' /\ u \notin Queue(j)' \cup tp'[j].wire
  BY <1>2, <1>7
<1> QED
  BY <1>8, <1>9 DEF Placed, Transports

(* The messages of the other users stay where they are. *)
LEMMA MessagesBut ==
  ASSUME IInv, NEW t \in Threads, NEW i \in Transports, NEW old, NEW new, Moves(t, i, old, new),
         NEW u \in Users, \A c \in new : c[1] \in Carrying => c[3] = u,
         \A v \in Users \ {u} : user'[v] = user[v],
         NEW r, Sets(i, r), Once(r.delayed),
         \A v \in Users \ {u} : (\E n \in DOMAIN r.delayed : r.delayed[n] = v) => v \in Queue(i),
         \A v \in Users \ {u} : v \in r.wire => v \in tp[i].wire,
         Placed(u)'
  PROVE  Messages'
<1>1. tp'[i] = r /\ \A j \in Transports \ {i} : tp'[j] = tp[j]
  BY DEF Sets, IInv, Typed
<1>2. \A j \in Transports : Once(tp[j].delayed)'
  BY <1>1 DEF IInv, Messages, Once
<1>3. \A j \in Transports \ {i} : Queue(j)' = Queue(j)
  BY <1>1 DEF Queue
<1>4. Queue(i)' = {r.delayed[n] : n \in DOMAIN r.delayed}
  BY <1>1 DEF Queue
<1>5. ASSUME NEW v \in Users \ {u} PROVE Placed(v)'
  <2>1. \A j \in Transports : v \in Queue(j)' => v \in Queue(j)
    BY <1>3, <1>4
  <2>2. \A j \in Transports : v \in tp'[j].wire => v \in tp[j].wire
    BY <1>1
  <2>3. Placed(v) /\ user'[v] = user[v] /\ \A c \in new : c[3] = v => c[1] \notin Carrying
    BY DEF IInv, Messages
  <2> QED
    BY <2>1, <2>2, <2>3, MovesPlaced
<1> QED
  BY <1>2, <1>5 DEF Messages, Transports

LEMMA QueueIs == \A i : Queue(i) = Elements(tp[i].delayed)
BY DEF Queue, Elements

LEMMA Appended ==
  ASSUME NEW S, NEW s \in Seq(S), Once(s), NEW u \in S, u \notin Elements(s)
  PROVE  Append(s, u) \in Seq(S) /\ Once(Append(s, u)) /\ Elements(Append(s, u)) = Elements(s) \cup {u}
<1> DEFINE r == Append(s, u)
<1>1. /\ r \in Seq(S) /\ Len(r) = Len(s) + 1 /\ r[Len(s) + 1] = u
      /\ \A n \in 1 .. Len(s) : r[n] = s[n]
  BY AppendProperties
<1>2. Len(s) \in Nat /\ DOMAIN s = 1 .. Len(s) /\ DOMAIN r = 1 .. Len(s) + 1
  BY <1>1, LenProperties
<1> HIDE DEF r
<1>3. \A n \in DOMAIN r : n \in DOMAIN s \/ n = Len(s) + 1
  BY <1>2
<1>4. \A n \in DOMAIN s : n \in DOMAIN r /\ r[n] = s[n] /\ s[n] # u
  BY <1>1, <1>2 DEF Elements
<1>5. Once(r)
  BY <1>1, <1>3, <1>4 DEF Once
<1>6. Len(s) + 1 \in DOMAIN r
  BY <1>2
<1>7. Elements(r) = Elements(s) \cup {u}
  BY <1>1, <1>3, <1>4, <1>6 DEF Elements
<1> QED
  BY <1>1, <1>5, <1>7 DEF r

LEMMA Shifted ==
  ASSUME NEW S, NEW s \in Seq(S), Once(s), s # <<>>
  PROVE  /\ Head(s) \in S /\ Head(s) \in Elements(s)
         /\ Tail(s) \in Seq(S) /\ Once(Tail(s)) /\ Elements(Tail(s)) = Elements(s) \ {Head(s)}
<1>1. /\ Len(s) \in Nat \ {0} /\ DOMAIN s = 1 .. Len(s) /\ Head(s) = s[1] /\ Head(s) \in S
      /\ Tail(s) \in Seq(S) /\ Len(Tail(s)) = Len(s) - 1
      /\ \A n \in 1 .. Len(s) - 1 : Tail(s)[n] = s[n + 1]
  BY HeadTailProperties, EmptySeq, LenProperties
<1>2. DOMAIN Tail(s) = 1 .. Len(s) - 1
  BY <1>1, LenProperties
<1>3. Elements(s) = {Head(s)} \cup Elements(Tail(s))
  BY Inner
<1>4. \A n \in DOMAIN Tail(s) : n + 1 \in DOMAIN s /\ Tail(s)[n] = s[n + 1] /\ n + 1 # 1
  BY <1>1, <1>2
<1>5. 1 \in DOMAIN s
  BY <1>1
<1>6. \A n \in DOMAIN Tail(s) : Tail(s)[n] # Head(s)
  BY <1>1, <1>4, <1>5 DEF Once
<1>7. Head(s) \notin Elements(Tail(s))
  BY <1>6 DEF Elements
<1>8. Once(Tail(s))
  <2> SUFFICES ASSUME NEW m \in DOMAIN Tail(s), NEW n \in DOMAIN Tail(s), Tail(s)[m] = Tail(s)[n] PROVE m = n
    BY DEF Once
  <2>1. m + 1 = n + 1
    BY <1>4 DEF Once
  <2> QED
    BY <2>1, <1>2, <1>1
<1> QED
  BY <1>1, <1>3, <1>7, <1>8

(* A thread with a message goes on; the counts stay. *)
LEMMA CarrySafe ==
  ASSUME IInv, ~lost, NEW t \in Threads, NEW i \in Live, NEW old, NEW new, Moves(t, i, old, new),
         Gives(t, i)' <=> Gives(t, i),
         \A c \in old : c[1] \notin {"idle", "fire", "doom", "remove"},
         NEW r \in Record, Sets(i, r), UNCHANGED <<table, listed, lost>>,
         r.st = tp[i].st, r.ref = tp[i].ref, r.dying = tp[i].dying, r.armed = tp[i].armed,
         user' \in [Users -> Holder], \A v \in Users : user'[v].tp = user[v].tp,
         Messages'
  PROVE  IInv'
<1>1. i \in Transports /\ EndsFor(i) /\ Exact(i) /\ tp'[i] = r
  BY DEF IInv, Ends, Counted, Live, Typed, Sets
<1>2. \A j : Holders(j)' = Holders(j)
  BY DEF Holders
<1>3. EndsFor(i)'
  BY <1>1, MovesEndsFor
<1>4. Exact(i)'
  <2>1. Returning(i)' = Returning(i)
    BY <1>1, MovesReturning
  <2> QED
    BY <1>1, <1>2, <2>1 DEF Exact
<1> QED
  BY <1>1, <1>2, <1>3, <1>4, Step

LEMMA EnqueueSafe ==
  ASSUME IInv, ~lost, NEW t \in Threads, Enqueue(t)
  PROVE  IInv'
<1>1. Typed /\ At(t, "enqueue") /\ "enqueue" \in Ops \ {"verify", "idle"} /\ "enqueue" \in Sending
  BY DEF IInv, Enqueue, Ops, Sending
<1>2. PICK i \in Live, u \in Users : i = TpOf(t) /\ u = UserOf(t)
  BY <1>1, OnlyCarried, OnLive
<1>3. Awaits(u, i) /\ Absent(u) /\ Alone(t, u) /\ i \in Transports /\ tp[i] \in Record
  BY <1>1, <1>2, OnlyCarried, RecordOf DEF Live
<1> DEFINE old == {CallFor("enqueue", i, u)}
<1>4. PICK o \in {"push", "write"}, r \in Record :
         /\ Goes(t, <<CallFor(o, i, u)>>) /\ Sets(i, r)
         /\ r.st = tp[i].st /\ r.ref = tp[i].ref /\ r.dying = tp[i].dying /\ r.armed = tp[i].armed
         /\ r.delayed = tp[i].delayed /\ r.wire = tp[i].wire
  <2>1. CASE tp[i].conn = "connecting"
    <3>1. Goes(t, <<CallFor("push", i, u)>>) /\ Sets(i, [tp[i] EXCEPT !.lock = t])
      BY <1>2, <2>1 DEF Enqueue
    <3> DEFINE x == [tp[i] EXCEPT !.lock = t]
    <3>2. /\ x \in Record /\ x.st = tp[i].st /\ x.ref = tp[i].ref /\ x.dying = tp[i].dying
          /\ x.armed = tp[i].armed /\ x.delayed = tp[i].delayed /\ x.wire = tp[i].wire
      BY <1>3 DEF Record
    <3> HIDE DEF x
    <3> QED
      BY <3>1, <3>2 DEF x
  <2>2. CASE tp[i].conn # "connecting"
    <3>1. Goes(t, <<CallFor("write", i, u)>>) /\ UNCHANGED tp
      BY <1>2, <2>2 DEF Enqueue
    <3>2. Sets(i, tp[i])
      BY <1>1, <1>3, <3>1 DEF Sets, Typed
    <3> QED
      BY <1>3, <3>1, <3>2
  <2> QED
    BY <2>1, <2>2
<1> DEFINE new == {CallFor(o, i, u)}
<1>5. Moves(t, i, old, new) /\ Calls(t)' = new \cup Later(t)
  <2>1. Callable(o, u) /\ Rests("enqueue", i) = Rests(o, i)
    BY DEF Callable, Ops, Anyone, Carrying, Sending, Rests
  <2>2. Tail(stack[t]) \in Rests(o, i)
    BY <1>1, <1>2, <2>1, OnStack
  <2> QED
    BY <1>1, <1>2, <1>4, <2>1, <2>2, BecomesMoves
<1>6. Gives(t, i)' <=> Gives(t, i)
  <2>1. Gives(t, i) <=> Later(t) \cap {Call("dec", i), Call("told", i)} # {}
    BY <1>1, <1>2, GivesNone
  <2>2. CallFor(o, i, u) \notin {Call("dec", i), Call("told", i)}
    BY DEF Call, CallFor
  <2> QED
    BY <1>5, <2>1, <2>2 DEF Gives
<1>7. UNCHANGED <<table, listed, lost>> /\ UNCHANGED user /\ user' \in [Users -> Holder]
  BY <1>1 DEF Enqueue, SamePlaces, Typed
<1>8. \A c \in new : c[3] = u /\ c[1] \in Sending
  BY DEF CallFor, Sending
<1>9. \A c \in old : c[1] \notin {"idle", "fire", "doom", "remove"}
  BY DEF CallFor
<1>10. tp'[i] = r /\ \A j \in Transports \ {i} : tp'[j] = tp[j]
  BY <1>1, <1>3, <1>4 DEF Sets, Typed
<1>11. \A j \in Transports : Queue(j)' = Queue(j) /\ tp'[j].wire = tp[j].wire
  BY <1>4, <1>10 DEF Queue
<1>12. Placed(u)'
  <2>1. Awaits(u, i)' /\ \A j \in Transports : u \notin Queue(j)' \cup tp'[j].wire
    BY <1>3, <1>7, <1>11 DEF Awaits, Absent
  <2>2. user'[u].tp = NoTp <=> user'[u].st \in {"out", "arriving"}
    BY <1>7 DEF IInv, Messages, Placed
  <2>3. \A c \in new : c[1] # "receive"
    BY <1>8 DEF Sending
  <2> HIDE DEF new, old
  <2> QED
    BY <1>3, <1>5, <1>8, <2>1, <2>2, <2>3, PlacedAfter
<1>13. Messages'
  <2>1. Once(r.delayed) /\ Queue(i) = {r.delayed[n] : n \in DOMAIN r.delayed}
    BY <1>3, <1>4 DEF IInv, Messages, Queue
  <2> HIDE DEF new, old
  <2> QED
    BY <1>3, <1>4, <1>5, <1>7, <1>8, <1>12, <2>1, MessagesBut
<1> HIDE DEF new, old
<1> QED
  BY <1>2, <1>4, <1>5, <1>6, <1>7, <1>9, <1>13, CarrySafe

LEMMA StaysMoves ==
  ASSUME Typed, NEW t \in Threads, NEW op \in Ops, At(t, op), UNCHANGED stack
  PROVE  Moves(t, TpOf(t), {CallFor(op, TpOf(t), UserOf(t))}, {CallFor(op, TpOf(t), UserOf(t))})
<1>1. StackTyped'
  BY DEF Typed, StackTyped
<1>2. Aside(t) /\ Calls(t)' = Calls(t)
  BY DEF Aside, Calls
<1>3. Calls(t) = {CallFor(op, TpOf(t), UserOf(t))} \cup Later(t) /\ Later(t) \subseteq Around(TpOf(t))
  BY Position
<1> QED
  BY <1>1, <1>2, <1>3, SameCall DEF Moves

LEMMA StChanged ==
  ASSUME Typed, NEW u \in Users, NEW x \in {"out", "arriving", "held", "sending", "sent", "dropped"},
         user' = [user EXCEPT ![u].st = x]
  PROVE  /\ user' \in [Users -> Holder] /\ user'[u].st = x
         /\ \A v \in Users : user'[v].tp = user[v].tp
         /\ \A v \in Users \ {u} : user'[v] = user[v]
<1>1. user \in [Users -> Holder] /\ user[u] \in Holder
  BY DEF Typed
<1>2. [user[u] EXCEPT !.st = x] \in Holder /\ [user[u] EXCEPT !.st = x].tp = user[u].tp
      /\ [user[u] EXCEPT !.st = x].st = x
  BY <1>1 DEF Holder
<1>3. user'[u] = [user[u] EXCEPT !.st = x] /\ \A v \in Users \ {u} : user'[v] = user[v]
  BY <1>1
<1>4. DOMAIN user' = Users /\ user' = [v \in Users |-> user'[v]]
  BY <1>1
<1>5. \A v \in Users : user'[v] \in Holder
  BY <1>1, <1>2, <1>3
<1>6. user' \in [Users -> Holder]
  BY <1>4, <1>5
<1> QED
  BY <1>2, <1>3, <1>6

(* The user has been called back, or lets its message go. *)
LEMMA PlacedNowhere ==
  ASSUME NEW t \in Threads, NEW i \in Transports, NEW old, NEW new, Moves(t, i, old, new),
         NEW u \in Users, Alone(t, u), Absent(u)',
         user'[u].tp = NoTp <=> user'[u].st \in {"out", "arriving"},
         \A c \in new : c[1] \notin Carrying
  PROVE  Placed(u)'
<1>1. \A j \in Transports : u \notin Queue(j)' \cup tp'[j].wire
  BY DEF Absent
<1> QED
  BY <1>1, PlacedAfter DEF Carrying

LEMMA PushSafe ==
  ASSUME IInv, ~lost, NEW t \in Threads, Push(t)
  PROVE  IInv'
<1>1. Typed /\ At(t, "push") /\ "push" \in Ops \ {"verify", "idle"} /\ "push" \in Sending
  BY DEF IInv, Push, Ops, Sending
<1>2. PICK i \in Live, u \in Users : i = TpOf(t) /\ u = UserOf(t)
  BY <1>1, OnlyCarried, OnLive
<1>3. Awaits(u, i) /\ Absent(u) /\ Alone(t, u) /\ i \in Transports /\ tp[i] \in Record
  BY <1>1, <1>2, OnlyCarried, RecordOf DEF Live
<1> DEFINE old == {CallFor("push", i, u)}
           q == Append(tp[i].delayed, u)
           r == [tp[i] EXCEPT !.delayed = q, !.lock = Nobody]
<1>4. Sets(i, r) /\ Goes(t, <<>>) /\ UNCHANGED <<table, listed, lost>> /\ UNCHANGED user
      /\ user' \in [Users -> Holder]
  BY <1>1, <1>2 DEF Push, SamePlaces, Typed
<1>5. Moves(t, i, old, {}) /\ Calls(t)' = Later(t)
  BY <1>1, <1>2, <1>4, PopsMoves
<1>6. Gives(t, i)' <=> Gives(t, i)
  <2>1. Gives(t, i) <=> Later(t) \cap {Call("dec", i), Call("told", i)} # {}
    BY <1>1, <1>2, GivesNone
  <2> QED
    BY <1>5, <2>1 DEF Gives
<1>7. /\ tp[i].delayed \in Seq(Users) /\ Once(tp[i].delayed) /\ Queue(i) = Elements(tp[i].delayed)
      /\ u \notin Elements(tp[i].delayed) /\ u \notin tp[i].wire
  BY <1>1, <1>3, RecordOf, QueueIs DEF IInv, Messages, Absent
<1>8. q \in Seq(Users) /\ Once(q) /\ Elements(q) = Elements(tp[i].delayed) \cup {u}
  BY <1>7, Appended
<1> HIDE DEF q
<1>9. /\ r \in Record /\ r.st = tp[i].st /\ r.ref = tp[i].ref /\ r.dying = tp[i].dying
      /\ r.armed = tp[i].armed /\ r.delayed = q /\ r.wire = tp[i].wire
  BY <1>3, <1>8 DEF Record
<1> HIDE DEF r
<1>10. tp'[i] = r /\ \A j \in Transports \ {i} : tp'[j] = tp[j]
  BY <1>1, <1>3, <1>4 DEF Sets, Typed
<1>11. /\ Queue(i)' = Elements(q) /\ tp'[i].wire = tp[i].wire
       /\ \A j \in Transports \ {i} : Queue(j)' = Queue(j) /\ tp'[j].wire = tp[j].wire
  BY <1>9, <1>10 DEF Queue, Elements
<1>12. Placed(u)'
  <2>1. Awaits(u, i)'
    BY <1>3, <1>4 DEF Awaits
  <2>2. user'[u].tp = NoTp <=> user'[u].st \in {"out", "arriving"}
    BY <1>4 DEF IInv, Messages, Placed
  <2>3. \A j \in Transports : u \in Queue(j)' \cup tp'[j].wire =>
            Awaits(u, j)' /\ u \notin Queue(j)' \cap tp'[j].wire
    BY <1>3, <1>7, <1>11, <2>1 DEF Absent
  <2> QED
    BY <1>3, <1>5, <2>2, <2>3, PlacedAfter
<1>13. Messages'
  <2>1. \A v \in Users \ {u} : (\E n \in DOMAIN r.delayed : r.delayed[n] = v) => v \in Queue(i)
    BY <1>7, <1>8, <1>9 DEF Elements
  <2> QED
    BY <1>3, <1>4, <1>5, <1>8, <1>9, <1>12, <2>1, MessagesBut
<1>14. \A c \in old : c[1] \notin {"idle", "fire", "doom", "remove"}
  BY DEF CallFor
<1> QED
  BY <1>2, <1>4, <1>5, <1>6, <1>9, <1>13, <1>14, CarrySafe

LEMMA WriteSafe ==
  ASSUME IInv, ~lost, NEW t \in Threads, Write(t)
  PROVE  IInv'
<1>1. Typed /\ At(t, "write") /\ "write" \in Ops \ {"verify", "idle"} /\ "write" \in Sending
  BY DEF IInv, Write, Ops, Sending
<1>2. PICK i \in Live, u \in Users : i = TpOf(t) /\ u = UserOf(t)
  BY <1>1, OnlyCarried, OnLive
<1>3. Awaits(u, i) /\ Absent(u) /\ Alone(t, u) /\ i \in Transports /\ tp[i] \in Record
  BY <1>1, <1>2, OnlyCarried, RecordOf DEF Live
<1> DEFINE old == {CallFor("write", i, u)}
           w == [tp[i] EXCEPT !.wire = @ \cup {u}]
<1>4. Goes(t, <<>>) /\ UNCHANGED <<table, listed, lost>>
  BY DEF Write, SamePlaces
<1>5. Moves(t, i, old, {}) /\ Calls(t)' = Later(t)
  BY <1>1, <1>2, <1>4, PopsMoves
<1>6. Gives(t, i)' <=> Gives(t, i)
  <2>1. Gives(t, i) <=> Later(t) \cap {Call("dec", i), Call("told", i)} # {}
    BY <1>1, <1>2, GivesNone
  <2> QED
    BY <1>5, <2>1 DEF Gives
<1>7. Once(tp[i].delayed) /\ Queue(i) = {tp[i].delayed[n] : n \in DOMAIN tp[i].delayed}
      /\ (user[u].tp = NoTp <=> user[u].st \in {"out", "arriving"}) /\ user[u].st = "sending"
  BY <1>3 DEF IInv, Messages, Placed, Queue, Awaits
<1>8. \A c \in old : c[1] \notin {"idle", "fire", "doom", "remove"}
  BY DEF CallFor
<1>9. CASE Sets(i, w) /\ UNCHANGED user
  <2>1. /\ w \in Record /\ w.st = tp[i].st /\ w.ref = tp[i].ref /\ w.dying = tp[i].dying
        /\ w.armed = tp[i].armed /\ w.delayed = tp[i].delayed /\ w.wire = tp[i].wire \cup {u}
    BY <1>3 DEF Record
  <2> HIDE DEF w
  <2>2. tp'[i] = w /\ \A j \in Transports \ {i} : tp'[j] = tp[j]
    BY <1>1, <1>3, <1>9 DEF Sets, Typed
  <2>3. /\ tp'[i].wire = tp[i].wire \cup {u} /\ \A j \in Transports : Queue(j)' = Queue(j)
        /\ \A j \in Transports \ {i} : tp'[j].wire = tp[j].wire
    BY <2>1, <2>2 DEF Queue
  <2>4. Awaits(u, i)' /\ user' \in [Users -> Holder]
    BY <1>1, <1>3, <1>9 DEF Awaits, Typed
  <2>5. \A j \in Transports : u \in Queue(j)' \cup tp'[j].wire =>
            Awaits(u, j)' /\ u \notin Queue(j)' \cap tp'[j].wire
    BY <1>3, <2>3, <2>4 DEF Absent
  <2>6. Placed(u)'
    BY <1>3, <1>5, <1>7, <1>9, <2>5, PlacedAfter
  <2>7. Messages'
    BY <1>3, <1>5, <1>7, <1>9, <2>1, <2>6, MessagesBut
  <2> QED
    BY <1>2, <1>4, <1>5, <1>6, <1>8, <1>9, <2>1, <2>4, <2>7, CarrySafe
<1>10. CASE Answered(u) /\ UNCHANGED tp
  <2>1. /\ user' \in [Users -> Holder] /\ user'[u].st = "sent"
        /\ \A v \in Users : user'[v].tp = user[v].tp
        /\ \A v \in Users \ {u} : user'[v] = user[v]
    BY <1>1, <1>10, StChanged DEF Answered
  <2>2. Sets(i, tp[i]) /\ Absent(u)'
    BY <1>1, <1>3, <1>10 DEF Sets, Typed, Absent, Queue
  <2>3. Placed(u)'
    BY <1>3, <1>5, <1>7, <2>1, <2>2, PlacedNowhere
  <2>4. Messages'
    BY <1>3, <1>5, <1>7, <2>1, <2>2, <2>3, MessagesBut
  <2> QED
    BY <1>2, <1>3, <1>4, <1>5, <1>6, <1>8, <2>1, <2>2, <2>4, CarrySafe
<1> QED
  BY <1>2, <1>9, <1>10 DEF Write

(* A message leaves the queue or the socket, and its sender hears of it. *)
LEMMA GoneMessages ==
  ASSUME IInv, NEW t \in Threads, NEW i \in Transports, NEW old, NEW new, Moves(t, i, old, new),
         \A c \in new : c[1] \notin Carrying,
         NEW u \in Users, u \in Queue(i) \cup tp[i].wire,
         NEW x \in {"sent", "dropped"}, user' = [user EXCEPT ![u].st = x],
         NEW r, Sets(i, r), Once(r.delayed),
         Elements(r.delayed) = Queue(i) \ {u}, r.wire = tp[i].wire \ {u}
  PROVE  Messages'
<1>1. tp'[i] = r /\ \A j \in Transports \ {i} : tp'[j] = tp[j]
  BY DEF Sets, IInv, Typed
<1>2. /\ user[u].st = "sending" /\ user[u].tp = i /\ Alone(t, u)
      /\ \A j \in Transports \ {i} : u \notin Queue(j) \cup tp[j].wire
  BY OnlyWaits DEF Awaits
<1>3. /\ user'[u].st = x /\ user'[u].tp = user[u].tp /\ \A v \in Users \ {u} : user'[v] = user[v]
  BY StChanged DEF IInv
<1>4. Queue(i)' = Elements(r.delayed) /\ tp'[i].wire = r.wire
      /\ \A j \in Transports \ {i} : Queue(j)' = Queue(j) /\ tp'[j].wire = tp[j].wire
  BY <1>1 DEF Queue, Elements
<1>5. \A j \in Transports : u \notin Queue(j)' \cup tp'[j].wire
  BY <1>2, <1>4
<1>6. user'[u].tp = NoTp <=> user'[u].st \in {"out", "arriving"}
  BY <1>2, <1>3 DEF IInv, Messages, Placed
<1>7. Placed(u)'
  BY <1>2, <1>5, <1>6, PlacedNowhere DEF Absent, Transports
<1>8. \A v \in Users \ {u} : (\E n \in DOMAIN r.delayed : r.delayed[n] = v) => v \in Queue(i)
  BY DEF Elements
<1> QED
  BY <1>3, <1>7, <1>8, MessagesBut

LEMMA Waiting ==
  ASSUME IInv, NEW i \in Transports, tp[i].delayed # <<>>
  PROVE  /\ Head(tp[i].delayed) \in Users /\ Head(tp[i].delayed) \in Queue(i)
         /\ Head(tp[i].delayed) \notin tp[i].wire
         /\ Tail(tp[i].delayed) \in Seq(Users) /\ Once(Tail(tp[i].delayed))
         /\ Elements(Tail(tp[i].delayed)) = Queue(i) \ {Head(tp[i].delayed)}
<1>1. tp[i].delayed \in Seq(Users) /\ Once(tp[i].delayed) /\ Queue(i) = Elements(tp[i].delayed)
  BY RecordOf, QueueIs DEF IInv, Messages
<1>2. /\ Head(tp[i].delayed) \in Users /\ Head(tp[i].delayed) \in Queue(i)
      /\ Tail(tp[i].delayed) \in Seq(Users) /\ Once(Tail(tp[i].delayed))
      /\ Elements(Tail(tp[i].delayed)) = Queue(i) \ {Head(tp[i].delayed)}
  BY <1>1, Shifted
<1> QED
  BY <1>2 DEF IInv, Messages, Placed

LEMMA FlushSafe ==
  ASSUME IInv, ~lost, NEW t \in Threads, Flush(t)
  PROVE  IInv'
<1>1. Typed /\ At(t, "flush") /\ "flush" \in Ops \ {"verify", "idle"}
  BY DEF IInv, Flush, Ops
<1>2. PICK i \in Live, v \in Anyone : i = TpOf(t) /\ v = UserOf(t)
  BY <1>1, Position, OnLive DEF Callable
<1>3. i \in Transports /\ tp[i] \in Record /\ UNCHANGED <<table, listed, lost>>
  BY <1>1, RecordOf DEF Live, Flush, SamePlaces
<1> DEFINE old == {CallFor("flush", i, v)}
<1>4. \A c \in old : c[1] \notin {"idle", "fire", "doom", "remove"} /\ c[1] \notin Carrying
  BY DEF CallFor, Carrying, Sending
<1>5. CASE tp[i].delayed = <<>>
  <2>1. Goes(t, <<>>) /\ UNCHANGED <<tp, user>>
    BY <1>2, <1>5 DEF Flush
  <2>2. Moves(t, i, old, {}) /\ Calls(t)' = Later(t)
    BY <1>1, <1>2, <2>1, PopsMoves
  <2>3. Gives(t, i)' <=> Gives(t, i)
    <3>1. Gives(t, i) <=> Later(t) \cap {Call("dec", i), Call("told", i)} # {}
      BY <1>1, <1>2, GivesNone
    <3> QED
      BY <2>2, <3>1 DEF Gives
  <2>4. Sets(i, tp[i]) /\ user' \in [Users -> Holder]
    BY <1>1, <1>3, <2>1 DEF Sets, Typed
  <2>5. Messages'
    BY <1>3, <2>1, <2>2, <2>4, MessagesKept
  <2> HIDE DEF old
  <2> QED
    BY <1>2, <1>3, <1>4, <2>1, <2>2, <2>3, <2>4, <2>5, CarrySafe
<1>6. CASE tp[i].delayed # <<>>
  <2> DEFINE u == Head(tp[i].delayed)
             q == Tail(tp[i].delayed)
             rest == [tp[i] EXCEPT !.delayed = q]
             kept == [rest EXCEPT !.wire = @ \cup {u}]
  <2>1. /\ UNCHANGED stack
        /\ \/ Sets(i, rest) /\ user' = [user EXCEPT ![u].st = "sent"]
           \/ Sets(i, kept) /\ UNCHANGED user
           \/ Sets(i, rest) /\ user' = [user EXCEPT ![u].st = "dropped"]
    BY <1>2, <1>6 DEF Flush, Answered
  <2>2. PICK w \in Users : w = u
    BY <1>3, <1>6, Waiting
  <2>3. w \in Queue(i) /\ w \notin tp[i].wire /\ q \in Seq(Users) /\ Once(q) /\ Elements(q) = Queue(i) \ {w}
    BY <1>3, <1>6, <2>2, Waiting
  <2>4. Moves(t, i, old, old)
    BY <1>1, <1>2, <2>1, StaysMoves
  <2>5. Gives(t, i)' <=> Gives(t, i)
    BY <2>1 DEF Gives, Calls
  <2> HIDE DEF u, q, old
  <2>6. /\ rest \in Record /\ rest.st = tp[i].st /\ rest.ref = tp[i].ref /\ rest.dying = tp[i].dying
        /\ rest.armed = tp[i].armed /\ rest.delayed = q /\ rest.wire = tp[i].wire
    BY <1>3, <2>3 DEF Record
  <2> HIDE DEF rest
  <2>7. CASE \E x \in {"sent", "dropped"} : Sets(i, rest) /\ user' = [user EXCEPT ![w].st = x]
    <3>1. PICK x \in {"sent", "dropped"} : Sets(i, rest) /\ user' = [user EXCEPT ![w].st = x]
      BY <2>7
    <3>2. Messages'
      <4>1. rest.wire = tp[i].wire \ {w} /\ Elements(rest.delayed) = Queue(i) \ {w} /\ Once(rest.delayed)
        BY <2>3, <2>6
      <4> QED
        BY <1>3, <1>4, <2>3, <2>4, <3>1, <4>1, GoneMessages
    <3>3. user' \in [Users -> Holder] /\ \A y \in Users : user'[y].tp = user[y].tp
      BY <1>1, <3>1, StChanged
    <3> QED
      BY <1>2, <1>3, <1>4, <2>4, <2>5, <2>6, <3>1, <3>2, <3>3, CarrySafe
  <2>8. CASE Sets(i, kept) /\ UNCHANGED user
    <3>1. /\ kept \in Record /\ kept.st = tp[i].st /\ kept.ref = tp[i].ref /\ kept.dying = tp[i].dying
          /\ kept.armed = tp[i].armed /\ kept.delayed = q /\ kept.wire = tp[i].wire \cup {w}
      BY <2>2, <2>6 DEF Record
    <3> HIDE DEF kept
    <3>2. tp'[i] = kept /\ \A j \in Transports \ {i} : tp'[j] = tp[j]
      BY <1>1, <1>3, <2>8 DEF Sets, Typed
    <3>3. /\ Queue(i)' = Queue(i) \ {w} /\ tp'[i].wire = tp[i].wire \cup {w}
          /\ \A j \in Transports \ {i} : Queue(j)' = Queue(j) /\ tp'[j].wire = tp[j].wire
      BY <2>3, <3>1, <3>2 DEF Queue, Elements
    <3>4. /\ Awaits(w, i) /\ Alone(t, w)
          /\ \A j \in Transports \ {i} : w \notin Queue(j) \cup tp[j].wire
      BY <1>3, <2>3, OnlyWaits
    <3>5. Awaits(w, i)' /\ user' \in [Users -> Holder]
      BY <1>1, <2>8, <3>4 DEF Awaits, Typed
    <3>6. \A j \in Transports : w \in Queue(j)' \cup tp'[j].wire =>
              Awaits(w, j)' /\ w \notin Queue(j)' \cap tp'[j].wire
      BY <3>3, <3>4, <3>5
    <3>7. user'[w].tp = NoTp <=> user'[w].st \in {"out", "arriving"}
      BY <2>8 DEF IInv, Messages, Placed
    <3>8. Placed(w)'
      BY <1>3, <1>4, <2>4, <3>4, <3>6, <3>7, PlacedAfter DEF Carrying
    <3>9. \A y \in Users \ {w} : (\E n \in DOMAIN kept.delayed : kept.delayed[n] = y) => y \in Queue(i)
      BY <2>3, <3>1 DEF Elements
    <3>10. Messages'
      BY <1>3, <1>4, <2>3, <2>4, <2>8, <3>1, <3>8, <3>9, MessagesBut
    <3> QED
      BY <1>2, <1>3, <1>4, <2>4, <2>5, <2>8, <3>1, <3>5, <3>10, CarrySafe
  <2> QED
    BY <2>1, <2>2, <2>7, <2>8
<1> QED
  BY <1>5, <1>6

LEMMA DrainSafe ==
  ASSUME IInv, ~lost, NEW t \in Threads, Drain(t)
  PROVE  IInv'
<1>1. Typed /\ At(t, "drain") /\ "drain" \in Ops \ {"verify", "idle"}
  BY DEF IInv, Drain, Ops
<1>2. PICK i \in Live, v \in Anyone : i = TpOf(t) /\ v = UserOf(t)
  BY <1>1, Position, OnLive DEF Callable
<1>3. i \in Transports /\ tp[i] \in Record /\ UNCHANGED <<table, listed, lost>>
  BY <1>1, RecordOf DEF Live, Drain, SamePlaces
<1> DEFINE old == {CallFor("drain", i, v)}
<1>4. \A c \in old : c[1] \notin {"idle", "fire", "doom", "remove"} /\ c[1] \notin Carrying
  BY DEF CallFor, Carrying, Sending
<1>5. Tail(stack[t]) = <<>> /\ Later(t) = {}
  BY <1>1, <1>2, OnStack, NoCalls DEF Rests, Sending, Later
<1>6. "disconnect" \in Ops \ Carrying /\ "drain" \in Ops \ (Carrying \cup {"verify"})
      /\ Callable("disconnect", Nobody)
  BY DEF Ops, Carrying, Sending, Callable, Anyone
<1>7. Gives(t, i) <=> Later(t) \cap {Call("dec", i), Call("told", i)} # {}
  BY <1>1, <1>2, GivesNone
<1>8. CASE tp[i].delayed = <<>>
  <2>1. Goes(t, <<Call("disconnect", i)>>) /\ UNCHANGED <<tp, user>>
    BY <1>2, <1>8 DEF Drain
  <2> DEFINE new == {CallFor("disconnect", i, Nobody)}
  <2>2. Moves(t, i, old, new) /\ Calls(t)' = new
    <3>1. Goes(t, <<CallFor("disconnect", TpOf(t), Nobody)>>)
      BY <1>2, <2>1 DEF Call, CallFor
    <3>2. Tail(stack[t]) \in Rests("disconnect", TpOf(t))
      BY <1>5 DEF Rests, Sending
    <3> QED
      BY <1>1, <1>2, <1>5, <1>6, <3>1, <3>2, BecomesMoves
  <2>3. \A c \in new : c[1] = "disconnect"
    BY DEF CallFor
  <2>4. ~Gives(t, i)'
    <3>1. CallFor("disconnect", i, Nobody) \notin {Call("dec", i), Call("told", i)}
      BY DEF Call, CallFor
    <3> QED
      BY <2>2, <3>1 DEF Gives
  <2>5. Sets(i, tp[i]) /\ user' \in [Users -> Holder]
    BY <1>1, <1>3, <2>1 DEF Sets, Typed
  <2> HIDE DEF new, old
  <2>6. Messages'
    BY <1>3, <2>1, <2>2, <2>3, <2>5, MessagesKept DEF Carrying, Sending
  <2> QED
    BY <1>2, <1>3, <1>4, <1>5, <1>7, <2>1, <2>2, <2>4, <2>5, <2>6, CarrySafe
<1>9. CASE tp[i].delayed # <<>>
  <2> DEFINE u == Head(tp[i].delayed)
             q == Tail(tp[i].delayed)
             rest == [tp[i] EXCEPT !.delayed = q]
             new == {Call("disconnect", i), Call("drain", i)}
  <2>1. /\ Sets(i, rest) /\ user' = [user EXCEPT ![u].st = "sent"]
        /\ Goes(t, <<Call("disconnect", i), Call("drain", i)>>)
    BY <1>2, <1>9 DEF Drain, Answered
  <2>2. PICK w \in Users : w = u
    BY <1>3, <1>9, Waiting
  <2>3. w \in Queue(i) /\ w \notin tp[i].wire /\ q \in Seq(Users) /\ Once(q) /\ Elements(q) = Queue(i) \ {w}
    BY <1>3, <1>9, <2>2, Waiting
  <2>4. Moves(t, i, old, new) /\ Calls(t)' = new
    <3>1. Tail(stack[t]) \in Rests("drain", TpOf(t))
      BY <1>5 DEF Rests, Sending
    <3>2. <<Call("drain", i)>> \o <<>> = <<Call("drain", i)>>
      BY <1>3, CallTyped, ConcatEmptySeq DEF Ops, Anyone
    <3>3. <<Call("drain", TpOf(t))>> \o Tail(stack[t]) \in Rests("disconnect", TpOf(t))
      BY <1>2, <1>5, <3>2 DEF Rests, Sending
    <3> QED
      BY <1>1, <1>2, <1>5, <1>6, <2>1, <3>1, <3>3, BecomesTwoMoves, ZenonT(40)
  <2>5. \A c \in new : c[1] \notin Carrying
    BY DEF Call, Carrying, Sending
  <2>6. ~Gives(t, i)'
    <3>1. Call("disconnect", i) \notin {Call("dec", i), Call("told", i)}
          /\ Call("drain", i) \notin {Call("dec", i), Call("told", i)}
      BY DEF Call
    <3> QED
      BY <2>4, <3>1 DEF Gives
  <2> HIDE DEF u, q, old, new
  <2>7. /\ rest \in Record /\ rest.st = tp[i].st /\ rest.ref = tp[i].ref /\ rest.dying = tp[i].dying
        /\ rest.armed = tp[i].armed /\ rest.delayed = q /\ rest.wire = tp[i].wire
    BY <1>3, <2>3 DEF Record
  <2> HIDE DEF rest
  <2>8. rest.wire = tp[i].wire \ {w} /\ Elements(rest.delayed) = Queue(i) \ {w} /\ Once(rest.delayed)
    BY <2>3, <2>7
  <2>9. user' = [user EXCEPT ![w].st = "sent"]
    BY <2>1, <2>2
  <2>10. Messages'
    BY <1>3, <2>1, <2>3, <2>4, <2>5, <2>8, <2>9, GoneMessages
  <2>11. user' \in [Users -> Holder] /\ \A y \in Users : user'[y].tp = user[y].tp
    BY <1>1, <2>9, StChanged
  <2> QED
    BY <1>2, <1>3, <1>4, <1>5, <1>7, <2>1, <2>4, <2>6, <2>7, <2>10, <2>11, CarrySafe
<1> QED
  BY <1>8, <1>9

LEMMA DataSentSafe ==
  ASSUME IInv, ~lost, NEW t \in Threads, DataSent(t)
  PROVE  IInv'
<1>1. PICK i \in Live, u \in Users :
         /\ u \in tp[i].wire
         /\ Sets(i, [tp[i] EXCEPT !.wire = @ \ {u}])
         /\ user' = [user EXCEPT ![u].st = "sent"]
         /\ \E calls \in {<<>>, <<Call("disconnect", i)>>} : Begin(t, calls)
         /\ UNCHANGED <<table, listed, lost>>
  <2>1. \A i \in Live : tp[i].wire \subseteq Users
    BY RecordOf DEF IInv, Live
  <2> QED
    BY <2>1 DEF DataSent, Answered, SamePlaces
<1>2. Typed /\ i \in Transports /\ tp[i] \in Record
  BY RecordOf DEF Live, IInv
<1> DEFINE r == [tp[i] EXCEPT !.wire = @ \ {u}]
<1>3. PICK new : /\ Moves(t, i, {}, new) /\ Calls(t) = {} /\ Calls(t)' = new
                 /\ \A c \in new : c = CallFor("disconnect", i, Nobody)
  <2>1. CASE Begin(t, <<>>)
    BY <1>2, <2>1, BeginsNoneMoves
  <2>2. CASE Begin(t, <<Call("disconnect", i)>>)
    <3>1. Callable("disconnect", Nobody) /\ <<>> \in Rests("disconnect", i)
          /\ Call("disconnect", i) = CallFor("disconnect", i, Nobody)
      BY DEF Callable, Ops, Anyone, Carrying, Sending, Rests, Call, CallFor
    <3>2. Begin(t, <<CallFor("disconnect", i, Nobody)>>)
      BY <2>2, <3>1
    <3>3. /\ Moves(t, i, {}, {CallFor("disconnect", i, Nobody)})
          /\ Calls(t) = {} /\ Calls(t)' = {CallFor("disconnect", i, Nobody)}
      BY <1>2, <3>1, <3>2, BeginsMoves
    <3> QED
      BY <3>3
  <2> QED
    BY <1>1, <2>1, <2>2
<1>4. CallFor("disconnect", i, Nobody) \notin {Call("dec", i), Call("told", i)}
      /\ CallFor("disconnect", i, Nobody)[1] \notin Carrying
  BY DEF Call, CallFor, Carrying, Sending
<1>5. Gives(t, i)' <=> Gives(t, i)
  BY <1>3, <1>4 DEF Gives
<1>6. /\ r \in Record /\ r.st = tp[i].st /\ r.ref = tp[i].ref /\ r.dying = tp[i].dying
      /\ r.armed = tp[i].armed /\ r.delayed = tp[i].delayed /\ r.wire = tp[i].wire \ {u}
  BY <1>2 DEF Record
<1>7. Sets(i, r)
  BY <1>1
<1> HIDE DEF r
<1>8. u \in Queue(i) \cup tp[i].wire /\ Elements(r.delayed) = Queue(i) \ {u} /\ Once(r.delayed)
  <2>1. u \notin Queue(i)
    BY <1>1, <1>2 DEF IInv, Messages, Placed
  <2>2. Queue(i) = Elements(r.delayed)
    BY <1>6, QueueIs
  <2> QED
    BY <1>1, <1>2, <1>6, <2>1, <2>2 DEF IInv, Messages
<1>9. Messages'
  BY <1>1, <1>2, <1>3, <1>4, <1>6, <1>7, <1>8, GoneMessages
<1>10. user' \in [Users -> Holder] /\ \A y \in Users : user'[y].tp = user[y].tp
  BY <1>1, <1>2, StChanged
<1> QED
  BY <1>1, <1>3, <1>5, <1>6, <1>7, <1>9, <1>10, CarrySafe

LEMMA ReceiveSafe ==
  ASSUME IInv, ~lost, NEW t \in Threads, NEW u \in Users, Receive(t, u)
  PROVE  IInv'
<1>1. PICK i \in Live :
         /\ user[u].st = "out" /\ user' = [user EXCEPT ![u].st = "arriving"]
         /\ Begin(t, <<CallFor("receive", i, u)>>)
         /\ UNCHANGED <<table, listed, lost, tp>>
  BY DEF Receive, MayAcquire, SamePlaces
<1>2. Typed /\ i \in Transports /\ tp[i] \in Record
  BY RecordOf DEF Live, IInv
<1> DEFINE new == {CallFor("receive", i, u)}
<1>3. Moves(t, i, {}, new) /\ Calls(t) = {} /\ Calls(t)' = new
  <2>1. Callable("receive", u) /\ <<>> \in Rests("receive", i)
    BY DEF Callable, Ops, Anyone, Carrying, Sending, Rests
  <2> QED
    BY <1>1, <1>2, <2>1, BeginsMoves
<1>4. \A c \in new : c[1] = "receive" /\ c[3] = u
  BY DEF CallFor
<1>5. Gives(t, i)' <=> Gives(t, i)
  <2>1. CallFor("receive", i, u) \notin {Call("dec", i), Call("told", i)}
    BY DEF CallFor, Call
  <2> QED
    BY <1>3, <2>1 DEF Gives
<1> HIDE DEF new
<1>6. Absent(u) /\ Alone(t, u)
  BY <1>1, Nowhere
<1>7. /\ user' \in [Users -> Holder] /\ user'[u].st = "arriving"
      /\ \A y \in Users : user'[y].tp = user[y].tp
      /\ \A y \in Users \ {u} : user'[y] = user[y]
  BY <1>1, <1>2, StChanged
<1>8. Sets(i, tp[i])
  BY <1>1, <1>2 DEF Sets, Typed
<1>9. \A j \in Transports : u \notin Queue(j)' \cup tp'[j].wire
  BY <1>1, <1>6 DEF Absent, Queue
<1>10. user'[u].tp = NoTp <=> user'[u].st \in {"out", "arriving"}
  BY <1>1, <1>7 DEF IInv, Messages, Placed
<1>11. Placed(u)'
  BY <1>2, <1>3, <1>4, <1>6, <1>7, <1>9, <1>10, PlacedAfter DEF Sending
<1>12. Once(tp[i].delayed) /\ Queue(i) = {tp[i].delayed[n] : n \in DOMAIN tp[i].delayed}
  BY <1>2 DEF IInv, Messages, Queue
<1>13. Messages'
  BY <1>2, <1>3, <1>4, <1>7, <1>8, <1>11, <1>12, MessagesBut
<1> QED
  BY <1>1, <1>2, <1>3, <1>5, <1>7, <1>8, <1>13, CarrySafe

-----------------------------------------------------------------------------
(* Users that take a transport, or give it back. *)

LEMMA Taken ==
  ASSUME Typed, NEW u \in Users, NEW i \in Transports, Takes(u, i), user[u].tp = NoTp
  PROVE  /\ user' \in [Users -> Holder] /\ user'[u].st = "held" /\ user'[u].tp = i
         /\ \A v \in Users \ {u} : user'[v] = user[v]
         /\ u \notin Holders(i) /\ Holders(i)' = Holders(i) \cup {u}
         /\ \A j \in Transports \ {i} : Holders(j)' = Holders(j)
<1>1. user \in [Users -> Holder] /\ user[u] \in Holder /\ NoTp \notin Transports
  BY DEF Typed, NoTp, Transports
<1> DEFINE h == [user[u] EXCEPT !.st = "held", !.tp = i]
<1>2. h \in Holder /\ h.st = "held" /\ h.tp = i
  BY <1>1 DEF Holder
<1>3. /\ user'[u] = h /\ \A v \in Users \ {u} : user'[v] = user[v]
      /\ user' = [v \in Users |-> user'[v]]
  BY <1>1 DEF Takes
<1> HIDE DEF h
<1>4. \A v \in Users : user'[v] \in Holder
  BY <1>1, <1>2, <1>3
<1>5. user' \in [Users -> Holder]
  BY <1>3, <1>4
<1>6. Holders(i)' = Holders(i) \cup {u}
  BY <1>2, <1>3 DEF Holders
<1>7. \A j \in Transports \ {i} : Holders(j)' = Holders(j)
  BY <1>1, <1>2, <1>3 DEF Holders
<1>8. u \notin Holders(i)
  BY <1>1 DEF Holders
<1> QED
  BY <1>2, <1>3, <1>5, <1>6, <1>7, <1>8

LEMMA TakeSafe ==
  ASSUME IInv, ~lost, NEW t \in Threads, NEW i \in Live, NEW old, NEW new, Moves(t, i, old, new),
         Gives(t, i)' <=> Gives(t, i),
         \A c \in old : c[1] \notin {"idle", "fire", "doom", "remove"},
         \A c \in new : c[1] \notin Carrying,
         NEW u \in Users, user[u].tp = NoTp, Absent(u), Alone(t, u),
         Sets(i, AddRef(tp[i])), Takes(u, i), UNCHANGED <<table, listed, lost>>
  PROVE  IInv'
<1>1. Typed /\ i \in Transports /\ tp[i] \in Record /\ tp[i].ref \in Nat /\ EndsFor(i) /\ Exact(i)
  BY RecordOf DEF Live, IInv, Ends, Counted
<1> DEFINE r == AddRef(tp[i])
<1>2. /\ r \in Record /\ r.st = tp[i].st /\ r.ref = tp[i].ref + 1 /\ r.dying = tp[i].dying
      /\ r.armed = tp[i].armed /\ r.delayed = tp[i].delayed /\ r.wire = tp[i].wire
  BY <1>1 DEF AddRef, Record
<1>3. Sets(i, r)
  OBVIOUS
<1> HIDE DEF r
<1>4. tp'[i] = r /\ \A j \in Transports \ {i} : tp'[j] = tp[j]
  BY <1>1, <1>3 DEF Sets, Typed
<1>5. /\ user' \in [Users -> Holder] /\ user'[u].st = "held" /\ user'[u].tp = i
      /\ \A v \in Users \ {u} : user'[v] = user[v]
      /\ u \notin Holders(i) /\ Holders(i)' = Holders(i) \cup {u}
      /\ \A j \in Transports \ {i} : Holders(j)' = Holders(j)
  BY <1>1, Taken
<1>6. Returning(i)' = Returning(i)
  BY <1>1, MovesReturning
<1>7. Exact(i)'
  BY <1>1, <1>2, <1>4, <1>5, <1>6, HoldersCounted
<1>8. EndsFor(i)'
  <2>1. tp'[i].ref # 0 /\ (tp'[i].dying => tp[i].dying)
    BY <1>1, <1>2, <1>4
  <2> QED
    BY <1>1, <2>1, MovesEndsFor
<1>9. \A j \in Transports : Queue(j)' = Queue(j) /\ tp'[j].wire = tp[j].wire
  BY <1>2, <1>4 DEF Queue
<1>10. Absent(u)'
  BY <1>9 DEF Absent
<1>11. user'[u].tp = NoTp <=> user'[u].st \in {"out", "arriving"}
  BY <1>1, <1>5 DEF NoTp, Transports
<1>12. Placed(u)'
  BY <1>1, <1>10, <1>11, PlacedNowhere
<1>13. Once(r.delayed) /\ Queue(i) = {r.delayed[n] : n \in DOMAIN r.delayed}
  BY <1>1, <1>2 DEF IInv, Messages, Queue
<1>14. Messages'
  BY <1>1, <1>2, <1>3, <1>5, <1>12, <1>13, MessagesBut
<1>15. \A j \in Transports \ Live : Holders(j)' \subseteq Holders(j)
  BY <1>5
<1>16. \A j \in Live \ {i} : Holders(j)' = Holders(j)
  BY <1>5 DEF Live
<1> QED
  BY <1>1, <1>2, <1>3, <1>5, <1>7, <1>8, <1>14, <1>15, <1>16, Step

LEMMA VerifyingIs ==
  ASSUME NEW i, NEW u
  PROVE  /\ tp[i].ref = 0 => Verifying(i, u) = <<CallFor("verify", i, u)>>
         /\ tp[i].ref # 0 => Verifying(i, u) = <<>>
BY DEF Verifying

LEMMA FindSafe ==
  ASSUME IInv, ~lost, NEW t \in Threads, NEW u \in Users, Find(t, u)
  PROVE  IInv'
<1>1. PICK i \in Transports : i = table
  BY DEF Find, IInv, Typed
<1>2. i \in Live /\ Typed
  BY <1>1 DEF IInv, Registered, Valid, Live
<1>3. /\ user[u].st = "out" /\ Sets(i, AddRef(tp[i])) /\ Takes(u, i)
      /\ Begin(t, Verifying(i, u)) /\ UNCHANGED <<table, listed, lost>>
  BY <1>1 DEF Find, MayAcquire, SamePlaces
<1>4. Absent(u) /\ Alone(t, u) /\ user[u].tp = NoTp
  BY <1>3, Nowhere DEF IInv, Messages, Placed
<1>5. PICK new : /\ Moves(t, i, {}, new) /\ Calls(t) = {} /\ Calls(t)' = new
                 /\ \A c \in new : c = CallFor("verify", i, u)
  <2>1. CASE tp[i].ref = 0
    <3>1. Callable("verify", u) /\ <<>> \in Rests("verify", i)
      BY DEF Callable, Ops, Anyone, Carrying, Sending, Rests
    <3>2. Begin(t, <<CallFor("verify", i, u)>>) /\ i \in Transports
      BY <1>2, <1>3, <2>1, VerifyingIs DEF Live
    <3>3. /\ Moves(t, i, {}, {CallFor("verify", i, u)})
          /\ Calls(t) = {} /\ Calls(t)' = {CallFor("verify", i, u)}
      BY <1>2, <3>1, <3>2, BeginsMoves
    <3> QED
      BY <3>3
  <2>2. CASE tp[i].ref # 0
    BY <1>2, <1>3, <2>2, VerifyingIs, BeginsNoneMoves DEF Live
  <2> QED
    BY <2>1, <2>2
<1>6. CallFor("verify", i, u) \notin {Call("dec", i), Call("told", i)}
      /\ CallFor("verify", i, u)[1] \notin Carrying
  BY DEF Call, CallFor, Carrying, Sending
<1>7. Gives(t, i)' <=> Gives(t, i)
  BY <1>5, <1>6 DEF Gives
<1> QED
  BY <1>2, <1>3, <1>4, <1>5, <1>6, <1>7, TakeSafe

LEMMA ReceivedSafe ==
  ASSUME IInv, ~lost, NEW t \in Threads, Received(t)
  PROVE  IInv'
<1>1. Typed /\ At(t, "receive") /\ "receive" \in Ops \ {"verify", "idle"}
  BY DEF IInv, Received, Ops
<1>2. PICK i \in Live, u \in Users : i = TpOf(t) /\ u = UserOf(t)
  BY <1>1, OnlyBrought, OnLive
<1>3. /\ i \in Transports /\ Sets(i, AddRef(tp[i])) /\ Takes(u, i)
      /\ Goes(t, Verifying(i, u)) /\ UNCHANGED <<table, listed, lost>>
  BY <1>2 DEF Received, SamePlaces, Live
<1>4. Absent(u) /\ Alone(t, u) /\ user[u].tp = NoTp
  BY <1>1, <1>2, OnlyBrought DEF IInv, Messages, Placed
<1> DEFINE old == {CallFor("receive", i, u)}
<1>5. Tail(stack[t]) = <<>> /\ Later(t) = {}
  BY <1>1, <1>2, OnStack, NoCalls DEF Rests, Sending, Later
<1>6. PICK new : Moves(t, i, old, new) /\ Calls(t)' = new /\ \A c \in new : c = CallFor("verify", i, u)
  <2>1. CASE tp[i].ref = 0
    <3>1. Callable("verify", u) /\ Tail(stack[t]) \in Rests("verify", TpOf(t))
      BY <1>5 DEF Callable, Ops, Anyone, Carrying, Sending, Rests
    <3>2. Goes(t, <<CallFor("verify", TpOf(t), u)>>)
      BY <1>2, <1>3, <2>1, VerifyingIs
    <3>3. /\ Moves(t, i, old, {CallFor("verify", i, u)})
          /\ Calls(t)' = {CallFor("verify", i, u)} \cup Later(t)
      BY <1>1, <1>2, <3>1, <3>2, BecomesMoves
    <3> QED
      BY <1>5, <3>3
  <2>2. CASE tp[i].ref # 0
    <3>1. Goes(t, <<>>)
      BY <1>3, <2>2, VerifyingIs
    <3>2. Moves(t, i, old, {}) /\ Calls(t)' = {}
      BY <1>1, <1>2, <1>5, <3>1, PopsMoves
    <3> QED
      BY <3>2
  <2> QED
    BY <2>1, <2>2
<1>7. CallFor("verify", i, u) \notin {Call("dec", i), Call("told", i)}
      /\ CallFor("verify", i, u)[1] \notin Carrying
  BY DEF Call, CallFor, Carrying, Sending
<1>8. Gives(t, i)' <=> Gives(t, i)
  <2>1. ~Gives(t, i)
    BY <1>1, <1>2, <1>5, GivesNone
  <2> QED
    BY <1>6, <1>7, <2>1 DEF Gives
<1>9. \A c \in old : c[1] \notin {"idle", "fire", "doom", "remove"}
  BY DEF CallFor
<1> HIDE DEF old
<1> QED
  BY <1>2, <1>3, <1>4, <1>6, <1>7, <1>8, <1>9, TakeSafe

LEMMA SendSafe ==
  ASSUME IInv, ~lost, NEW t \in Threads, NEW u \in Users, Send(t, u)
  PROVE  IInv'
<1>1. PICK i \in Live : i = user[u].tp
  BY HeldLive, HasSt DEF Send
<1>2. PICK to \in {"enqueue", "write"} :
         /\ user[u].st = "held" /\ user' = [user EXCEPT ![u].st = "sending"]
         /\ Sets(i, AddRef(tp[i])) /\ Begin(t, <<CallFor(to, i, u), Call("dec", i)>>)
         /\ UNCHANGED <<table, listed, lost>>
  BY <1>1 DEF Send, SamePlaces
<1>3. Typed /\ i \in Transports /\ tp[i] \in Record /\ tp[i].ref \in Nat /\ EndsFor(i) /\ Exact(i)
  BY RecordOf DEF Live, IInv, Ends, Counted
<1> DEFINE new == {CallFor(to, i, u), Call("dec", i)}
           r == AddRef(tp[i])
<1>4. Moves(t, i, {}, new) /\ Calls(t) = {} /\ Calls(t)' = new
  BY <1>2, <1>3, BeginsTwoMoves DEF Sending
<1>5. ~Gives(t, i) /\ Gives(t, i)'
  BY <1>4 DEF Gives
<1>6. t \notin Returning(i) /\ Returning(i)' = Returning(i) \cup {t}
  BY <1>3, <1>4, <1>5, MovesReturning
<1>7. \A c \in new : c[1] # "receive" /\ (c[1] \in Carrying => c[3] = u)
  BY DEF CallFor, Call, Carrying, Sending
<1> HIDE DEF new
<1>8. /\ r \in Record /\ r.st = tp[i].st /\ r.ref = tp[i].ref + 1 /\ r.dying = tp[i].dying
      /\ r.armed = tp[i].armed /\ r.delayed = tp[i].delayed /\ r.wire = tp[i].wire
  BY <1>3 DEF AddRef, Record
<1>9. Sets(i, r)
  BY <1>2
<1> HIDE DEF r
<1>10. tp'[i] = r /\ \A j \in Transports \ {i} : tp'[j] = tp[j]
  BY <1>3, <1>9 DEF Sets, Typed
<1>11. /\ user' \in [Users -> Holder] /\ user'[u].st = "sending"
       /\ \A y \in Users : user'[y].tp = user[y].tp
       /\ \A y \in Users \ {u} : user'[y] = user[y]
  BY <1>2, <1>3, StChanged
<1>12. Absent(u) /\ Alone(t, u)
  BY <1>2, Nowhere
<1>13. \A j : Holders(j)' = Holders(j)
  BY <1>11 DEF Holders
<1>14. Exact(i)'
  BY <1>3, <1>6, <1>8, <1>10, <1>13, ReturningCounted
<1>15. EndsFor(i)'
  <2>1. tp'[i].ref # 0 /\ (tp'[i].dying => tp[i].dying)
    BY <1>3, <1>8, <1>10
  <2> QED
    BY <1>3, <1>4, <2>1, MovesEndsFor
<1>16. \A j \in Transports : u \notin Queue(j)' \cup tp'[j].wire
  <2>1. \A j \in Transports : Queue(j)' = Queue(j) /\ tp'[j].wire = tp[j].wire
    BY <1>8, <1>10 DEF Queue
  <2> QED
    BY <1>12, <2>1 DEF Absent
<1>17. Awaits(u, i)' /\ (user'[u].tp = NoTp <=> user'[u].st \in {"out", "arriving"})
  BY <1>1, <1>2, <1>3, <1>11 DEF Awaits, NoTp, Transports
<1>18. Placed(u)'
  BY <1>3, <1>4, <1>7, <1>12, <1>16, <1>17, PlacedAfter
<1>19. Once(r.delayed) /\ Queue(i) = {r.delayed[n] : n \in DOMAIN r.delayed}
  BY <1>3, <1>8 DEF IInv, Messages, Queue
<1>20. Messages'
  BY <1>3, <1>4, <1>7, <1>8, <1>9, <1>11, <1>18, <1>19, MessagesBut
<1> QED
  BY <1>1, <1>2, <1>3, <1>4, <1>8, <1>9, <1>11, <1>13, <1>14, <1>15, <1>20, Step

LEMMA ReleaseSafe ==
  ASSUME IInv, ~lost, NEW t \in Threads, NEW u \in Users, Release(t, u)
  PROVE  IInv'

<1>1. user[u].st \in {"held", "sent"}
  BY HasSt DEF Release
<1>2. PICK i \in Live : i = user[u].tp
  BY <1>1, HeldLive
<1> DEFINE h == [st |-> "out", tp |-> NoTp, uses |-> user[u].uses + 1]
           new == {CallFor("dec", i, Nobody)}
<1>3. /\ user' = [user EXCEPT ![u] = h] /\ Begin(t, <<CallFor("dec", i, Nobody)>>)
      /\ UNCHANGED <<tp, table, listed, lost>>
  BY <1>2 DEF Release, SamePlaces, Call, CallFor
<1>4. Typed /\ i \in Transports /\ tp[i] \in Record /\ EndsFor(i) /\ Exact(i)
  BY RecordOf DEF Live, IInv, Ends, Counted
<1>5. Moves(t, i, {}, new) /\ Calls(t) = {} /\ Calls(t)' = new
  <2>1. Callable("dec", Nobody) /\ <<>> \in Rests("dec", i)
    BY DEF Callable, Ops, Anyone, Carrying, Sending, Rests
  <2> QED
    BY <1>3, <1>4, <2>1, BeginsMoves
<1>6. ~Gives(t, i) /\ Gives(t, i)'
  BY <1>5 DEF Gives, Call, CallFor
<1>7. t \notin Returning(i) /\ Returning(i)' = Returning(i) \cup {t}
  BY <1>4, <1>5, <1>6, MovesReturning
<1>8. \A c \in new : c[1] \notin Carrying
  BY DEF CallFor, Carrying, Sending
<1> HIDE DEF new
<1>9. user \in [Users -> Holder] /\ user[u].uses \in Nat /\ NoTp \notin Transports
  BY <1>4 DEF Typed, Holder, NoTp, Transports
<1>10. h \in Holder /\ h.st = "out" /\ h.tp = NoTp
  BY <1>9 DEF Holder
<1> HIDE DEF h
<1>11. user' \in [Users -> Holder] /\ user'[u] = h /\ \A v \in Users \ {u} : user'[v] = user[v]
  BY <1>3, <1>9, <1>10
<1>12. u \in Holders(i) /\ Holders(i)' = Holders(i) \ {u}
  BY <1>2, <1>4, <1>9, <1>10, <1>11 DEF Holders
<1>13. \A j \in Transports \ {i} : Holders(j)' = Holders(j)
  BY <1>2, <1>4, <1>9, <1>10, <1>11 DEF Holders
<1>14. Exact(i)'
  BY <1>3, <1>4, <1>7, <1>12, HandedOver
<1>15. EndsFor(i)'
  BY <1>3, <1>4, <1>5, MovesEndsFor
<1>16. Alone(t, u) /\ Absent(u)'
  <2>1. Alone(t, u) /\ Absent(u)
    BY <1>1, Nowhere
  <2> QED
    BY <1>3, <2>1 DEF Absent, Queue
<1>17. Placed(u)'
  BY <1>4, <1>5, <1>8, <1>10, <1>11, <1>16, PlacedNowhere
<1>18. Sets(i, tp[i])
  BY <1>3, <1>4 DEF Sets, Typed
<1>19. Once(tp[i].delayed) /\ Queue(i) = {tp[i].delayed[n] : n \in DOMAIN tp[i].delayed}
  BY <1>4 DEF IInv, Messages, Queue
<1>20. Messages'
  BY <1>4, <1>5, <1>8, <1>11, <1>17, <1>18, <1>19, MessagesBut
<1>21. (\A j \in Transports \ Live : Holders(j)' \subseteq Holders(j)) /\ (\A j \in Live \ {i} : Holders(j)' = Holders(j))
  BY <1>13 DEF Live
<1> QED
  BY <1>2, <1>3, <1>4, <1>5, <1>11, <1>14, <1>15, <1>18, <1>20, <1>21, Step

-----------------------------------------------------------------------------
(* Transports that come, and those that go. *)

LEMMA NewIs ==
  ASSUME NEW st \in {"unborn", "live", "gone"}, NEW ref \in Nat
  PROVE  /\ NewTransport(st, ref) \in Record
         /\ NewTransport(st, ref).st = st /\ NewTransport(st, ref).ref = ref
         /\ NewTransport(st, ref).dying = FALSE /\ NewTransport(st, ref).armed = FALSE
         /\ NewTransport(st, ref).delayed = <<>> /\ NewTransport(st, ref).wire = {}
BY DEF NewTransport, Record

LEMMA NoneOnce == Once(<<>>) /\ Elements(<<>>) = {}
BY DEF Once, Elements

LEMMA CreateSafe ==
  ASSUME IInv, ~lost, NEW t \in Threads, NEW u \in Users, Create(t, u)
  PROVE  IInv'
<1>1. PICK i \in Transports : /\ tp[i].st = "unborn"
          /\ \/ Sets(i, NewTransport("live", 1)) /\ Register(i) /\ Takes(u, i)
             \/ /\ Sets(i, NewTransport("gone", 0))
                /\ table' = NoTp /\ listed' = listed \cup ({table} \ {NoTp})
                /\ user' = [user EXCEPT ![u].uses = @ + 1]
  BY DEF Create
<1>2. user[u].st = "out" /\ UNCHANGED <<stack, lost>> /\ Typed
  BY DEF Create, MayAcquire, IInv
<1>3. PICK r \in Record : /\ Sets(i, r) /\ r.st \in {"live", "gone"} /\ r.dying = FALSE /\ r.armed = FALSE
                          /\ r.delayed = <<>> /\ r.wire = {}
                          /\ (r.st = "live" => r.ref = 1 /\ Register(i) /\ Takes(u, i))
                          /\ (r.st = "gone" => /\ table' = NoTp /\ listed' = listed \cup ({table} \ {NoTp})
                                               /\ user' = [user EXCEPT ![u].uses = @ + 1])
  <2>1. CASE Sets(i, NewTransport("live", 1)) /\ Register(i) /\ Takes(u, i)
    <3> DEFINE n == NewTransport("live", 1)
    <3>1. n \in Record /\ n.st = "live" /\ n.ref = 1 /\ n.dying = FALSE /\ n.armed = FALSE
          /\ n.delayed = <<>> /\ n.wire = {}
      BY NewIs
    <3> HIDE DEF n
    <3> QED
      BY <2>1, <3>1 DEF n
  <2>2. CASE /\ Sets(i, NewTransport("gone", 0))
             /\ table' = NoTp /\ listed' = listed \cup ({table} \ {NoTp})
             /\ user' = [user EXCEPT ![u].uses = @ + 1]
    <3> DEFINE n == NewTransport("gone", 0)
    <3>1. n \in Record /\ n.st = "gone" /\ n.dying = FALSE /\ n.armed = FALSE
          /\ n.delayed = <<>> /\ n.wire = {}
      BY NewIs
    <3> HIDE DEF n
    <3> QED
      BY <2>2, <3>1 DEF n
  <2> QED
    BY <1>1, <2>1, <2>2
<1>4. tp'[i] = r /\ (\A j \in Transports \ {i} : tp'[j] = tp[j]) /\ tp' \in [Transports -> Record]
  BY <1>2, <1>3 DEF Sets, Typed
<1>5. i \notin Live /\ ~Valid(i) /\ Untouched(i)
  BY <1>1 DEF Live, IInv, Registered, Buried
<1>6. \A other : Calls(other)' = Calls(other)
  BY <1>2 DEF Calls
<1>7. /\ user' \in [Users -> Holder]
      /\ \A v \in Users \ {u} : user'[v] = user[v]
      /\ user'[u].tp = NoTp <=> user'[u].st \in {"out", "arriving"}
      /\ \A j \in Transports \ {i} : Holders(j)' = Holders(j)
      /\ r.st = "live" => Holders(i)' = {u}
      /\ r.st = "gone" => Holders(i)' = {}
  <2>1. user[u].tp = NoTp /\ NoTp \notin Transports
    BY <1>2 DEF IInv, Messages, Placed, NoTp, Transports
  <2>2. CASE r.st = "live"
    <3>1. Takes(u, i)
      BY <1>3, <2>2
    <3>2. /\ user' \in [Users -> Holder] /\ user'[u].st = "held" /\ user'[u].tp = i
          /\ \A v \in Users \ {u} : user'[v] = user[v]
          /\ Holders(i)' = Holders(i) \cup {u}
          /\ \A j \in Transports \ {i} : Holders(j)' = Holders(j)
      BY <1>2, <2>1, <3>1, Taken
    <3> QED
      BY <1>5, <2>1, <2>2, <3>2 DEF Untouched
  <2>3. CASE r.st = "gone"
    <3> DEFINE h == [user[u] EXCEPT !.uses = @ + 1]
    <3>1. user \in [Users -> Holder] /\ user[u] \in Holder
      BY <1>2 DEF Typed
    <3>2. h \in Holder /\ h.tp = user[u].tp /\ h.st = user[u].st
      BY <3>1 DEF Holder
    <3>3. user' = [user EXCEPT ![u] = h]
      BY <1>3, <2>3
    <3> HIDE DEF h
    <3>4. user' \in [Users -> Holder] /\ user'[u] = h /\ \A v \in Users \ {u} : user'[v] = user[v]
      BY <3>1, <3>2, <3>3
    <3>5. \A v \in Users : user'[v].tp = user[v].tp
      BY <3>2, <3>4
    <3>6. \A j \in Transports : Holders(j)' = Holders(j)
      BY <3>5 DEF Holders
    <3> QED
      BY <1>2, <1>5, <2>1, <2>3, <3>2, <3>4, <3>6 DEF Untouched
  <2> QED
    BY <1>3, <2>2, <2>3
<1>8. Live' = IF r.st = "live" THEN Live \cup {i} ELSE Live
  BY <1>3, <1>4, <1>5 DEF Live, Transports
<1>9. table \in Transports \cup {NoTp} /\ listed \subseteq Transports /\ NoTp \notin Transports
  BY <1>2 DEF Typed, NoTp, Transports
<1>10. /\ listed' = listed \cup ({table} \ {NoTp})
       /\ r.st = "live" => table' = i
       /\ r.st = "gone" => table' = NoTp
  BY <1>3 DEF Register
<1>11. Typed'
  BY <1>2, <1>3, <1>4, <1>7, <1>9, <1>10 DEF Typed, Transports
<1>12. Registered'
  <2>1. \A j \in Transports \ {i} : Valid(j)' <=> Valid(j)
    BY <1>3, <1>9, <1>10 DEF Valid
  <2>2. Valid(i)' <=> r.st = "live"
    BY <1>3, <1>5, <1>9, <1>10 DEF Valid
  <2>3. table' \notin listed'
    BY <1>3, <1>5, <1>9, <1>10 DEF Valid
  <2> QED
    BY <1>4, <2>1, <2>2, <2>3 DEF IInv, Registered, Transports
<1>13. Buried'
  <2>1. \A j \in Transports \ Live' : \A other \in Threads : WorksOn(other, j)' => WorksOn(other, j)
    BY <1>6 DEF WorksOn
  <2>2. \A j \in Transports \ Live' : j \notin Live /\ Holders(j)' \subseteq Holders(j) /\ (tp'[j].armed => tp[j].armed)
    BY <1>3, <1>4, <1>7, <1>8
  <2> QED
    BY <1>2, <2>1, <2>2, BuriedKept DEF IInv
<1>14. Messages'
  <2>1. \A j \in Transports : /\ Queue(j)' \subseteq Queue(j) /\ tp'[j].wire \subseteq tp[j].wire
                              /\ Once(tp'[j].delayed)
    <3>1. Queue(i)' = {} /\ Once(r.delayed)
      BY <1>3, <1>4, NoneOnce DEF Queue, Elements
    <3> QED
      BY <1>3, <1>4, <3>1 DEF Queue, IInv, Messages
  <2>2. \A other \in Threads, v \in Users : /\ Brings(other, v)' <=> Brings(other, v)
                                            /\ \A j \in Transports : Carries(other, v, j)' <=> Carries(other, v, j)
    BY <1>6 DEF Brings, Carries
  <2>3. ASSUME NEW v \in Users \ {u} PROVE Placed(v)'
    BY <1>7, <2>1, <2>2, PlacedKept DEF IInv, Messages
  <2>4. Placed(u)'
    <3>1. user[u].st \notin {"arriving", "sending"}
      BY <1>2
    <3>2. Placed(u) /\ \A j \in Transports : u \notin Queue(j) \cup tp[j].wire
      BY <3>1, Nowhere DEF IInv, Messages, Absent
    <3>3. \A other \in Threads : ~Brings(other, u) /\ \A j \in Transports : ~Carries(other, u, j)
      BY <3>1, <3>2 DEF Placed, Awaits
    <3> QED
      BY <1>7, <2>1, <2>2, <3>2, <3>3 DEF Placed, Transports
  <2> QED
    BY <2>1, <2>3, <2>4 DEF Messages, Once, Transports
<1>15. \A j \in Transports : Returning(j)' = Returning(j)
  BY <1>6 DEF Returning
<1>16. Counted'
  <2>1. ASSUME NEW j \in Live, j # i PROVE Exact(j)'
    <3>1. j \in Transports /\ tp'[j] = tp[j] /\ Exact(j)
      BY <1>4, <2>1 DEF IInv, Counted, Live
    <3> QED
      BY <1>7, <1>15, <2>1, <3>1 DEF Exact
  <2>2. ASSUME r.st = "live" PROVE Exact(i)'
    <3>1. Returning(i)' = {}
      <4>1. \A other \in Threads : Calls(other) \cap {Call("dec", i), Call("told", i)} = {}
        BY <1>5 DEF Untouched, WorksOn, Call
      <4> QED
        BY <1>6, <4>1 DEF Returning
    <3>2. Cardinality({u}) = 1 /\ Cardinality({}) = 0
      BY FS_Singleton, FS_EmptySet
    <3>3. Holders(i)' = {u} /\ tp'[i].ref = 1
      BY <1>3, <1>4, <1>7, <2>2
    <3>4. 1 = Cardinality({u}) + Cardinality({})
      BY <3>2
    <3> QED
      BY <3>1, <3>3, <3>4 DEF Exact
  <2> QED
    BY <1>5, <1>8, <2>1, <2>2 DEF Counted
<1>17. Ends'
  <2>1. ASSUME NEW j \in Live, j # i PROVE EndsFor(j)'
    <3>1. j \in Transports /\ tp'[j] = tp[j] /\ EndsFor(j)
      BY <1>4, <2>1 DEF IInv, Ends, Live
    <3> QED
      BY <1>6, <3>1, EndsKept
  <2>2. ASSUME r.st = "live" PROVE EndsFor(i)'
    BY <1>3, <1>4, <2>2 DEF EndsFor
  <2> QED
    BY <1>5, <1>8, <2>1, <2>2 DEF Ends
<1> QED
  BY <1>11, <1>12, <1>13, <1>14, <1>16, <1>17 DEF IInv

LEMMA RemoveSafe ==
  ASSUME IInv, ~lost, NEW t \in Threads, Remove(t)
  PROVE  IInv'
<1>1. Typed /\ At(t, "remove") /\ "remove" \in Ops \ {"verify", "idle"} /\ Goes(t, <<>>) /\ UNCHANGED user
  BY DEF IInv, Remove, Ops
<1>2. PICK i \in Live, u \in Anyone : i = TpOf(t) /\ u = UserOf(t)
  BY <1>1, Position, OnLive DEF Callable
<1>3. i \in Transports /\ tp[i] \in Record /\ tp[i].ref \in Nat /\ Cancelled(tp[i]) \in Record
  BY <1>1, RecordOf DEF Live
<1> DEFINE old == {CallFor("remove", i, u)}
           c == Cancelled(tp[i])
           r == [NewTransport("gone", 0) EXCEPT !.armed = c.armed, !.raced = c.raced]
<1>4. /\ Sets(i, r)
      /\ table' = IF table = i THEN NoTp ELSE table
      /\ listed' = IF table = i THEN listed ELSE listed \ {i}
      /\ lost' = (c.ref > 0 \/ c.armed \/ \E other \in Threads \ {t} : WorksOn(other, i))
  BY <1>2 DEF Remove
<1>5. c.armed \in BOOLEAN /\ c.raced \in BOOLEAN /\ c.ref = tp[i].ref
  BY <1>3 DEF Cancelled, Record
<1> HIDE DEF c
<1>6. r \in Record /\ r.st = "gone" /\ r.delayed = <<>> /\ r.wire = {} /\ r.armed = c.armed
  <2> DEFINE n == NewTransport("gone", 0)
  <2>1. n \in Record /\ n.st = "gone" /\ n.delayed = <<>> /\ n.wire = {}
    BY NewIs
  <2> HIDE DEF n
  <2> DEFINE m == [n EXCEPT !.armed = c.armed, !.raced = c.raced]
  <2>2. m \in Record /\ m.st = n.st /\ m.delayed = n.delayed /\ m.wire = n.wire /\ m.armed = c.armed
    BY <1>5, <2>1 DEF Record
  <2> QED
    BY <2>1, <2>2 DEF n
<1> HIDE DEF r
<1>7. Moves(t, i, old, {}) /\ Calls(t)' = {}
  <2>1. Moves(t, i, old, {}) /\ Calls(t)' = Later(t)
    BY <1>1, <1>2, PopsMoves
  <2>2. Later(t) = {}
    BY <1>1, Position DEF Sending
  <2> QED
    BY <2>1, <2>2
<1> HIDE DEF old
<1>8. tp'[i] = r /\ (\A j \in Transports \ {i} : tp'[j] = tp[j]) /\ tp' \in [Transports -> Record]
  BY <1>1, <1>3, <1>4, <1>6 DEF Sets, Typed
<1>9. Live' = Live \ {i}
  BY <1>6, <1>8 DEF Live, Transports
<1>10. table \in Transports \cup {NoTp} /\ listed \subseteq Transports /\ NoTp \notin Transports
  BY <1>1 DEF Typed, NoTp, Transports
<1>11. Typed'
  <2>1. lost' \in BOOLEAN
    BY <1>4
  <2> QED
    BY <1>1, <1>4, <1>7, <1>8, <1>10, <2>1 DEF Typed, Moves, StackTyped, Transports
<1>12. Registered'
  <2>1. table \notin listed
    BY DEF IInv, Registered
  <2>2. \A j \in Transports \ {i} : Valid(j)' <=> Valid(j)
    BY <1>4, <1>10 DEF Valid
  <2>3. ~Valid(i)'
    BY <1>3, <1>4, <1>10, <2>1 DEF Valid
  <2>4. table' \notin listed'
    BY <1>4, <1>10, <2>1
  <2> QED
    BY <1>6, <1>8, <2>2, <2>3, <2>4 DEF IInv, Registered, Transports
<1>13. \A j : Holders(j)' = Holders(j)
  BY <1>1 DEF Holders
<1>14. Buried'
  <2> SUFFICES ASSUME ~lost', NEW j \in Transports \ Live' PROVE Untouched(j)'
    BY DEF Buried, Transports
  <2>1. CASE j = i
    <3>1. tp[i].ref = 0 /\ ~r.armed /\ \A other \in Threads \ {t} : ~WorksOn(other, i)
      <4>1. ~(c.ref > 0) /\ ~c.armed /\ \A other \in Threads \ {t} : ~WorksOn(other, i)
        BY <1>4
      <4>2. tp[i].ref = 0
        BY <1>3, <1>5, <4>1
      <4> QED
        BY <1>6, <4>1, <4>2
    <3>2. Holders(i) = {}
      BY <3>1, CountedOnce
    <3>3. \A other \in Threads \ {t} : Calls(other)' = Calls(other)
      BY <1>7 DEF Moves, Aside
    <3>4. \A other \in Threads : ~WorksOn(other, i)'
      BY <1>7, <3>1, <3>3 DEF WorksOn
    <3> QED
      BY <1>8, <1>13, <2>1, <3>1, <3>2, <3>4 DEF Untouched
  <2>2. CASE j # i
    <3>1. Untouched(j) /\ tp'[j] = tp[j]
      BY <1>8, <1>9, <2>2 DEF IInv, Buried
    <3>2. \A other \in Threads : WorksOn(other, j)' <=> WorksOn(other, j)
      BY <1>3, <1>7, <2>2, MovesElse
    <3> QED
      BY <1>13, <3>1, <3>2 DEF Untouched
  <2> QED
    BY <2>1, <2>2
<1>15. Messages'
  <2>1. \A j \in Transports : /\ Queue(j)' \subseteq Queue(j) /\ tp'[j].wire \subseteq tp[j].wire
                              /\ Once(tp'[j].delayed)
    <3>1. Queue(i)' = {} /\ Once(r.delayed)
      BY <1>6, <1>8, NoneOnce DEF Queue, Elements
    <3> QED
      BY <1>6, <1>8, <3>1 DEF Queue, IInv, Messages
  <2>2. ASSUME NEW v \in Users PROVE Placed(v)'
    BY <1>1, <1>3, <1>7, <2>1, MovesPlaced DEF IInv, Messages
  <2> QED
    BY <2>1, <2>2 DEF Messages, Once, Transports
<1>16. Counted'
  <2> SUFFICES ASSUME NEW j \in Live, j # i PROVE Exact(j)'
    BY <1>9 DEF Counted
  <2>1. j \in Transports /\ tp'[j] = tp[j] /\ Exact(j)
    BY <1>8 DEF IInv, Counted, Live
  <2>2. Returning(j)' = Returning(j)
    BY <1>3, <1>7, <2>1, MovesElse
  <2> QED
    BY <1>13, <2>1, <2>2 DEF Exact
<1>17. Ends'
  BY <1>3, <1>7, <1>8, <1>9, MovesEnds DEF IInv, Live
<1> QED
  BY <1>11, <1>12, <1>14, <1>15, <1>16, <1>17 DEF IInv

-----------------------------------------------------------------------------
(* The timer.  One in the heap is known by its id, unless the id was       *)
(* cleared by a firing that had been popped before the timer was set.      *)

Knows(i) ==
    /\ tp[i].armed => tp[i].id \/ tp[i].raced
    /\ tp[i].armed /\ Firing(i) => tp[i].raced
    /\ tp[i].st = "gone" /\ tp[i].armed => tp[i].raced
Timed == \A i \in Transports : Knows(i)

Harmless == {calls \in Seq(AnyCall) : \A c \in Elements(calls) : c[1] # "fire"}

LEMMA HarmlessCalls ==
  ASSUME NEW op \in Ops \ {"fire"}, NEW o \in Ops \ {"fire"}, NEW i \in Transports,
         NEW u \in Anyone, NEW v \in Anyone
  PROVE  /\ <<>> \in Harmless /\ <<CallFor(op, i, u)>> \in Harmless /\ <<Call(op, i)>> \in Harmless
         /\ <<CallFor(op, i, u), CallFor(o, i, v)>> \in Harmless
         /\ <<CallFor(op, i, u), Call(o, i)>> \in Harmless
         /\ <<Call(op, i), Call(o, i)>> \in Harmless
<1>1. ASSUME NEW w \in Anyone, NEW x \in Anyone
      PROVE  /\ <<CallFor(op, i, w)>> \in Harmless
             /\ <<CallFor(op, i, w), CallFor(o, i, x)>> \in Harmless
  <2> DEFINE c == CallFor(op, i, w)
             d == CallFor(o, i, x)
  <2>1. c \in AnyCall /\ d \in AnyCall /\ c[1] # "fire" /\ d[1] # "fire"
    BY CallTyped, SameCall
  <2> HIDE DEF c, d
  <2>2. Elements(<<c>>) = {c} /\ Elements(<<c, d>>) = {c, d}
    BY OneCall, TwoCalls
  <2>3. <<c>> \in Seq(AnyCall) /\ <<c, d>> \in Seq(AnyCall)
    BY <2>1
  <2>4. <<c>> \in Harmless /\ <<c, d>> \in Harmless
    BY <2>1, <2>2, <2>3 DEF Harmless
  <2> QED
    BY <2>4 DEF c, d
<1>2. <<>> \in Harmless
  BY NoCalls DEF Harmless
<1>3. Nobody \in Anyone
  BY DEF Anyone
<1>4. Call(op, i) = CallFor(op, i, Nobody) /\ Call(o, i) = CallFor(o, i, Nobody)
  BY SameCall
<1> QED
  BY <1>1, <1>2, <1>3, <1>4

LEMMA ElementsOf ==
  ASSUME NEW S, NEW s \in Seq(S), NEW r \in Seq(S)
  PROVE  Elements(s \o r) \subseteq Elements(s) \cup Elements(r)
<1>1. /\ Len(s) \in Nat /\ Len(r) \in Nat /\ DOMAIN s = 1 .. Len(s) /\ DOMAIN r = 1 .. Len(r)
      /\ s \o r \in Seq(S) /\ Len(s \o r) = Len(s) + Len(r)
      /\ \A n \in 1 .. Len(s) + Len(r) : (s \o r)[n] = IF n <= Len(s) THEN s[n] ELSE r[n - Len(s)]
  BY ConcatProperties, LenProperties
<1>2. DOMAIN (s \o r) = 1 .. Len(s) + Len(r)
  BY <1>1, LenProperties
<1> SUFFICES ASSUME NEW n \in 1 .. Len(s) + Len(r)
             PROVE  (s \o r)[n] \in Elements(s) \cup Elements(r)
  BY <1>2 DEF Elements
<1>3. CASE n <= Len(s)
  <2>1. n \in DOMAIN s /\ (s \o r)[n] = s[n]
    BY <1>1, <1>3
  <2> QED
    BY <2>1 DEF Elements
<1>4. CASE ~(n <= Len(s))
  <2>1. n - Len(s) \in DOMAIN r /\ (s \o r)[n] = r[n - Len(s)]
    BY <1>1, <1>4
  <2> QED
    BY <2>1 DEF Elements
<1> QED
  BY <1>3, <1>4

(* Only a timer that is popped brings a call of its callback. *)
LEMMA NoneFires ==
  ASSUME Typed, NEW t \in Threads, NEW calls \in Harmless,
         (\E op \in Ops : At(t, op) /\ Goes(t, calls)) \/ Begin(t, calls)
  PROVE  \A i : Firing(i)' => Firing(i)
<1>1. calls \in Seq(AnyCall) /\ \A c \in Elements(calls) : c[1] # "fire"
  BY DEF Harmless
<1>2. Call("fire", 0)[1] = "fire" /\ \A i : Call("fire", i)[1] = "fire"
  BY DEF Call
<1>3. /\ \A i : Call("fire", i) \in Calls(t)' => Call("fire", i) \in Calls(t)
      /\ Aside(t)
  <2>1. ASSUME NEW op \in Ops, At(t, op), Goes(t, calls)
        PROVE  \A i : Call("fire", i) \in Calls(t)' => Call("fire", i) \in Calls(t)
    <3> DEFINE r == Tail(stack[t])
    <3>1. /\ stack[t] # <<>> /\ stack[t] \in Seq(AnyCall)
          /\ Calls(t) = {CallFor(op, TpOf(t), UserOf(t))} \cup Later(t)
      BY <2>1, OnStack
    <3>2. r \in Seq(AnyCall) /\ Later(t) = Elements(r)
      BY <3>1, Inner DEF Later
    <3>3. stack'[t] = calls \o r
      BY <2>1 DEF Goes, Typed
    <3> HIDE DEF r
    <3>4. Calls(t)' = Elements(calls \o r)
      BY <3>3 DEF Calls, Elements
    <3>5. Calls(t)' \subseteq Elements(calls) \cup Calls(t)
      BY <1>1, <3>1, <3>2, <3>4, ElementsOf
    <3> QED
      BY <1>1, <1>2, <3>5
  <2>2. ASSUME Begin(t, calls)
        PROVE  \A i : Call("fire", i) \in Calls(t)' => Call("fire", i) \in Calls(t)
    <3>1. stack'[t] = calls
      BY <2>2 DEF Begin, Typed
    <3>2. Calls(t)' = Elements(calls)
      BY <3>1 DEF Calls, Elements
    <3> QED
      BY <1>1, <1>2, <3>2
  <2>3. \A other \in Threads \ {t} : stack'[other] = stack[other]
    BY DEF Goes, Begin, Typed
  <2>4. Aside(t)
    BY <2>3 DEF Aside, Calls
  <2> QED
    BY <2>1, <2>2, <2>4
<1> QED
  BY <1>3 DEF Firing, Aside

SameTimer(q, r) == r.armed = q.armed /\ r.id = q.id /\ r.raced = q.raced /\ r.st = q.st

(* What happens to the timer of one transport. *)
LEMMA TimedKept ==
  ASSUME IInv, Timed, NEW i \in Transports, NEW r, Sets(i, r), \A j : Firing(j)' => Firing(j),
         r.armed => \/ r.raced /\ tp[i].armed
                    \/ r.raced = tp[i].raced /\ r.st = tp[i].st /\ tp[i].armed /\ r.id = tp[i].id
                    \/ r.id /\ r.st = "live" /\ r.raced = Firing(i)
  PROVE  Timed'
<1>1. tp'[i] = r /\ \A j \in Transports \ {i} : tp'[j] = tp[j]
  BY DEF Sets, IInv, Typed
<1>2. Knows(i)'
  BY <1>1 DEF Timed, Knows
<1>3. ASSUME NEW j \in Transports \ {i} PROVE Knows(j)'
  BY <1>1, <1>3 DEF Timed, Knows
<1> QED
  BY <1>2, <1>3 DEF Timed, Transports

LEMMA TimedSame ==
  ASSUME IInv, Timed, \A j : Firing(j)' => Firing(j),
         \/ UNCHANGED tp
         \/ \E i \in Transports : \E r : Sets(i, r) /\ SameTimer(tp[i], r)
  PROVE  Timed'
<1>1. CASE UNCHANGED tp
  BY <1>1 DEF Timed, Knows, Transports
<1>2. ASSUME NEW i \in Transports, NEW r, Sets(i, r), SameTimer(tp[i], r) PROVE Timed'
  BY <1>2, TimedKept DEF SameTimer
<1> QED
  BY <1>1, <1>2

LEMMA Cancels ==
  ASSUME NEW r \in Record
  PROVE  /\ Cancelled(r) \in Record /\ Cancelled(r).st = r.st /\ Cancelled(r).raced = r.raced
         /\ Cancelled(r).armed <=> r.armed /\ ~r.id
BY DEF Cancelled, Record

LEMMA Arms ==
  ASSUME NEW r \in Record, NEW i
  PROVE  Armed(i, r).st = r.st /\ Armed(i, r).id = TRUE /\ Armed(i, r).raced = Firing(i)
BY DEF Armed, Record

LEMMA NoneHarmless == <<>> \in Harmless
BY NoCalls DEF Harmless

(* A thread that goes on, whatever with, has not popped the timer. *)
LEMMA GoesQuietly ==
  ASSUME IInv, NEW t \in Threads, NEW op \in Ops, At(t, op)
  PROVE  /\ TpOf(t) \in Transports /\ UserOf(t) \in Anyone /\ tp[TpOf(t)] \in Record
         /\ \A calls \in Harmless : Goes(t, calls) => \A j : Firing(j)' => Firing(j)
         /\ op = "fire" => Firing(TpOf(t))
<1>1. Typed /\ TpOf(t) \in Transports /\ Callable(op, UserOf(t))
  BY OnStack DEF IInv
<1>2. UserOf(t) \in Anyone /\ tp[TpOf(t)] \in Record
  BY <1>1, RecordOf DEF Callable
<1>3. ASSUME op = "fire" PROVE Firing(TpOf(t))
  <2>1. UserOf(t) = Nobody /\ CallFor(op, TpOf(t), UserOf(t)) \in Calls(t)
    BY <1>1, <1>3, OnStack DEF Callable, Carrying, Sending
  <2> QED
    BY <1>3, <2>1, SameCall DEF Firing
<1> QED
  BY <1>1, <1>2, <1>3, NoneFires

LEMMA VerifyTimed ==
  ASSUME IInv, Timed, NEW t \in Threads, Verify(t)
  PROVE  Timed'
<1> DEFINE i == TpOf(t)
           r == IF Valid(i) /\ tp[i].ref = 1 THEN Cancelled(tp[i]) ELSE tp[i]
<1>1. At(t, "verify") /\ "verify" \in Ops /\ Goes(t, <<>>) /\ Sets(i, r)
  BY DEF Verify, Ops
<1>2. i \in Transports /\ tp[i] \in Record /\ \A j : Firing(j)' => Firing(j)
  BY <1>1, GoesQuietly, NoneHarmless
<1>3. Knows(i)
  BY <1>2 DEF Timed
<1>4. r.armed => \/ r.raced /\ tp[i].armed
                 \/ r.raced = tp[i].raced /\ r.st = tp[i].st /\ tp[i].armed /\ r.id = tp[i].id
  BY <1>2, <1>3, Cancels DEF Knows
<1> HIDE DEF r, i
<1> QED
  BY <1>1, <1>2, <1>4, TimedKept

LEMMA StartIdleTimed ==
  ASSUME IInv, Timed, NEW t \in Threads, StartIdle(t)
  PROVE  Timed'
<1> DEFINE i == TpOf(t)
           r == IF Valid(i) /\ ~tp[i].dying /\ tp[i].ref = 0 THEN Armed(i, tp[i]) ELSE tp[i]
<1>1. At(t, "idle") /\ "idle" \in Ops /\ Goes(t, <<>>) /\ Sets(i, r)
  BY DEF StartIdle, Ops
<1>2. i \in Transports /\ tp[i] \in Record /\ \A j : Firing(j)' => Firing(j)
  BY <1>1, GoesQuietly, NoneHarmless
<1>3. Valid(i) => tp[i].st = "live"
  BY <1>2 DEF IInv, Registered
<1>4. r.armed => \/ r.raced = tp[i].raced /\ r.st = tp[i].st /\ tp[i].armed /\ r.id = tp[i].id
                 \/ r.id /\ r.st = "live" /\ r.raced = Firing(i)
  BY <1>2, <1>3, Arms
<1> HIDE DEF r, i
<1> QED
  BY <1>1, <1>2, <1>4, TimedKept

(* A transport that is shut down: its timer is set once more, or stays. *)
LEMMA ShutDownTimed ==
  ASSUME IInv, Timed, NEW i \in Transports, NEW r, r = ShutDown(i)
  PROVE  r.armed => \/ r.raced /\ tp[i].armed
                    \/ r.raced = tp[i].raced /\ r.st = tp[i].st /\ tp[i].armed /\ r.id = tp[i].id
                    \/ r.id /\ r.st = "live" /\ r.raced = Firing(i)
<1> DEFINE x == tp[i]
           y == [x EXCEPT !.shut = TRUE]
           c == Cancelled(y)
           a == Armed(i, c)
<1>1. x \in Record /\ Knows(i) /\ (Valid(i) => x.st = "live")
  BY RecordOf DEF IInv, Registered, Timed
<1>2. y \in Record /\ SameTimer(x, y)
  BY <1>1 DEF Record, SameTimer
<1>3. r = y \/ r = c \/ (Valid(i) /\ r = a)
  BY DEF ShutDown
<1>4. c \in Record /\ c.st = y.st /\ c.raced = y.raced /\ (c.armed <=> y.armed /\ ~y.id)
  <2> HIDE DEF y
  <2> QED
    BY <1>2, Cancels
<1>5. a.st = c.st /\ a.id = TRUE /\ a.raced = Firing(i)
  <2> HIDE DEF c
  <2> QED
    BY <1>4, Arms
<1> HIDE DEF x, y, c, a
<1>6. x.armed /\ ~x.id => x.raced
  BY <1>1 DEF Knows, x
<1>7. r.armed => \/ r.raced /\ x.armed
                 \/ r.raced = x.raced /\ r.st = x.st /\ x.armed /\ r.id = x.id
                 \/ r.id /\ r.st = "live" /\ r.raced = Firing(i)
  <2>1. CASE r = y
    BY <1>2, <2>1 DEF SameTimer
  <2>2. CASE r = c
    BY <1>2, <1>4, <1>6, <2>2 DEF SameTimer
  <2>3. CASE Valid(i) /\ r = a
    BY <1>1, <1>2, <1>4, <1>5, <2>3 DEF SameTimer
  <2> QED
    BY <1>3, <2>1, <2>2, <2>3
<1> QED
  BY <1>7 DEF x

LEMMA ShutdownLockedTimed ==
  ASSUME IInv, Timed, NEW t \in Threads, ShutdownLocked(t)
  PROVE  Timed'
<1> DEFINE i == TpOf(t)
           r == ShutDown(i)
<1>1. At(t, "shutdown") /\ "shutdown" \in Ops /\ Goes(t, <<>>) /\ Sets(i, r)
  BY DEF ShutdownLocked, Ops
<1>2. i \in Transports /\ \A j : Firing(j)' => Firing(j)
  BY <1>1, GoesQuietly, NoneHarmless
<1> HIDE DEF i
<1>4. r = ShutDown(i)
  OBVIOUS
<1> HIDE DEF r
<1>3. r.armed => \/ r.raced /\ tp[i].armed
                 \/ r.raced = tp[i].raced /\ r.st = tp[i].st /\ tp[i].armed /\ r.id = tp[i].id
                 \/ r.id /\ r.st = "live" /\ r.raced = Firing(i)
  BY <1>2, <1>4, ShutDownTimed
<1> QED
  BY <1>1, <1>2, <1>3, TimedKept

LEMMA ToldTimed ==
  ASSUME IInv, Timed, NEW t \in Threads, Told(t)
  PROVE  Timed'
<1> DEFINE i == TpOf(t)
           r == IF tp[i].shut \/ tp[i].dying THEN tp[i] ELSE ShutDown(i)
<1>1. At(t, "told") /\ "told" \in Ops /\ Goes(t, <<Call("dec", i)>>) /\ Sets(i, r)
  BY DEF Told, Ops
<1>2. i \in Transports /\ UserOf(t) \in Anyone /\ "dec" \in Ops \ {"fire"}
  BY <1>1, GoesQuietly DEF Ops
<1>3. <<Call("dec", i)>> \in Harmless
  BY <1>2, HarmlessCalls
<1>4. \A j : Firing(j)' => Firing(j)
  BY <1>1, <1>3, GoesQuietly
<1>5. r = tp[i] \/ r = ShutDown(i)
  OBVIOUS
<1> HIDE DEF r, i
<1>6. r = ShutDown(i) =>
         (r.armed => \/ r.raced /\ tp[i].armed
                     \/ r.raced = tp[i].raced /\ r.st = tp[i].st /\ tp[i].armed /\ r.id = tp[i].id
                     \/ r.id /\ r.st = "live" /\ r.raced = Firing(i))
  BY <1>2, ShutDownTimed
<1> QED
  BY <1>1, <1>2, <1>4, <1>5, <1>6, TimedKept

(* The callback clears the id, and knows by that that nothing is left: the *)
(* timer that is in the heap then was set behind its back.                 *)
LEMMA DestroyTimed ==
  ASSUME IInv, Timed, NEW t \in Threads, Destroy(t)
  PROVE  Timed'
<1> DEFINE i == TpOf(t)
           r == [tp[i] EXCEPT !.id = FALSE]
           calls == IF tp[i].ref = 0 THEN <<Call("doom", i)>> ELSE <<>>
<1>1. At(t, "fire") /\ "fire" \in Ops /\ Goes(t, calls) /\ Sets(i, r)
  BY DEF Destroy, Ops
<1>2. /\ i \in Transports /\ UserOf(t) \in Anyone /\ tp[i] \in Record /\ Firing(i)
      /\ "doom" \in Ops \ {"fire"}
  BY <1>1, GoesQuietly DEF Ops
<1>3. calls \in Harmless
  BY <1>2, HarmlessCalls
<1>4. \A j : Firing(j)' => Firing(j)
  BY <1>1, <1>3, GoesQuietly
<1>5. r.armed => r.raced /\ tp[i].armed
  BY <1>2 DEF Timed, Knows, Record
<1> HIDE DEF r, i, calls
<1> QED
  BY <1>1, <1>2, <1>4, <1>5, TimedKept

LEMMA RemoveTimed ==
  ASSUME IInv, Timed, NEW t \in Threads, Remove(t)
  PROVE  Timed'
<1> DEFINE i == TpOf(t)
           c == Cancelled(tp[i])
           n == NewTransport("gone", 0)
           r == [n EXCEPT !.armed = c.armed, !.raced = c.raced]
<1>1. At(t, "remove") /\ "remove" \in Ops /\ Goes(t, <<>>) /\ Sets(i, r)
  BY DEF Remove, Ops
<1>2. i \in Transports /\ tp[i] \in Record /\ \A j : Firing(j)' => Firing(j)
  BY <1>1, GoesQuietly, NoneHarmless
<1>3. n \in Record
  BY NewIs
<1> HIDE DEF n
<1>4. r.armed = c.armed /\ r.raced = c.raced
  BY <1>3 DEF Record
<1> HIDE DEF r
<1>5. c.armed => tp[i].armed /\ ~tp[i].id /\ c.raced = tp[i].raced
  BY <1>2, Cancels
<1>6. r.armed => r.raced /\ tp[i].armed
  BY <1>2, <1>4, <1>5 DEF Timed, Knows
<1> HIDE DEF i, c
<1> QED
  BY <1>1, <1>2, <1>6, TimedKept

(* The other steps leave the timers alone. *)
LEMMA GoesOnTimed ==
  ASSUME IInv, Timed, NEW t \in Threads,
         \/ DecRef(t) \/ Received(t) \/ Enqueue(t) \/ Push(t) \/ Write(t)
         \/ Flush(t) \/ Drain(t) \/ Disconnect(t) \/ Doom(t)
  PROVE  Timed'
<1> DEFINE i == TpOf(t)
           u == UserOf(t)
           here == \E op \in Ops : At(t, op)
           same == \/ UNCHANGED tp
                   \/ \E r : Sets(i, r) /\ SameTimer(tp[i], r)
           goes == \/ UNCHANGED stack
                   \/ \E calls \in Harmless : Goes(t, calls)
<1>1. SUFFICES here /\ (i \in Transports /\ u \in Anyone /\ tp[i] \in Record => same /\ goes)
  <2>1. ASSUME here, i \in Transports /\ u \in Anyone /\ tp[i] \in Record => same /\ goes
        PROVE  Timed'
    <3>1. PICK op \in Ops : At(t, op)
      BY <2>1
    <3>2. i \in Transports /\ u \in Anyone /\ tp[i] \in Record
      BY <3>1, GoesQuietly
    <3>3. \A calls \in Harmless : Goes(t, calls) => \A j : Firing(j)' => Firing(j)
      BY <3>1, GoesQuietly
    <3>4. UNCHANGED stack => \A j : Firing(j)' => Firing(j)
      BY DEF Firing, Calls
    <3>5. \A j : Firing(j)' => Firing(j)
      BY <2>1, <3>2, <3>3, <3>4
    <3> HIDE DEF i, u
    <3> QED
      BY <2>1, <3>2, <3>5, TimedSame
  <2> QED
    BY <2>1
<1>2. \A op \in Ops \ {"fire"}, o \in Ops \ {"fire"}, v \in Anyone :
         i \in Transports /\ u \in Anyone =>
            /\ <<CallFor(op, i, v)>> \in Harmless /\ <<Call(op, i)>> \in Harmless
            /\ <<Call(op, i), Call(o, i)>> \in Harmless
  BY HarmlessCalls
<1>3. /\ {"verify", "idle", "disconnect", "drain", "push", "write", "told", "dec", "remove"} \subseteq Ops \ {"fire"}
      /\ {"receive", "enqueue", "flush", "doom"} \subseteq Ops /\ Nobody \in Anyone
  BY DEF Ops, Anyone
<1>4. ASSUME NEW r \in Record, NEW q, NEW w, NEW l, NEW d
      PROVE  /\ SameTimer(r, [r EXCEPT !.ref = q]) /\ SameTimer(r, [r EXCEPT !.wire = w])
             /\ SameTimer(r, [r EXCEPT !.lock = l]) /\ SameTimer(r, [r EXCEPT !.delayed = q])
             /\ SameTimer(r, [r EXCEPT !.delayed = q, !.lock = l]) /\ SameTimer(r, AddRef(r))
             /\ SameTimer(r, [r EXCEPT !.dying = d])
             /\ SameTimer(r, [[r EXCEPT !.delayed = q] EXCEPT !.wire = w])
  BY DEF SameTimer, Record, AddRef
<1> HIDE DEF i, u
<1>5. CASE DecRef(t)
  <2>1. here
    BY <1>3, <1>5 DEF DecRef
  <2>2. /\ Sets(i, [tp[i] EXCEPT !.ref = tp[i].ref - 1])
        /\ Goes(t, <<Call("idle", i)>>) \/ Goes(t, <<>>)
    BY <1>5 DEF DecRef, i
  <2> QED
    BY <1>2, <1>3, <1>4, <2>1, <2>2, NoneHarmless
<1>6. CASE Received(t)
  <2>1. here
    BY <1>3, <1>6 DEF Received
  <2>2. /\ Sets(i, AddRef(tp[i]))
        /\ Goes(t, <<CallFor("verify", i, u)>>) \/ Goes(t, <<>>)
    BY <1>6 DEF Received, Verifying, i, u
  <2> QED
    BY <1>2, <1>3, <1>4, <2>1, <2>2, NoneHarmless
<1>7. CASE Enqueue(t)
  <2>1. here
    BY <1>3, <1>7 DEF Enqueue
  <2>2. /\ Sets(i, [tp[i] EXCEPT !.lock = t]) \/ UNCHANGED tp
        /\ Goes(t, <<CallFor("push", i, u)>>) \/ Goes(t, <<CallFor("write", i, u)>>)
    BY <1>7 DEF Enqueue, i, u
  <2> QED
    BY <1>2, <1>3, <1>4, <2>1, <2>2
<1>8. CASE Push(t)
  <2>1. here
    BY <1>3, <1>8, Position DEF Push, Ops
  <2>2. /\ Sets(i, [tp[i] EXCEPT !.delayed = Append(tp[i].delayed, u), !.lock = Nobody])
        /\ Goes(t, <<>>)
    BY <1>8 DEF Push, i, u
  <2> QED
    BY <1>4, <2>1, <2>2, NoneHarmless
<1>9. CASE Write(t)
  <2>1. here
    BY <1>3, <1>9 DEF Write
  <2>2. /\ Sets(i, [tp[i] EXCEPT !.wire = tp[i].wire \cup {u}]) \/ UNCHANGED tp
        /\ Goes(t, <<>>)
    BY <1>9 DEF Write, i, u
  <2> QED
    BY <1>4, <2>1, <2>2, NoneHarmless
<1>10. CASE Flush(t)
  <2>1. here
    BY <1>3, <1>10 DEF Flush
  <2>2. /\ \/ UNCHANGED tp
           \/ \E q : Sets(i, [tp[i] EXCEPT !.delayed = q])
           \/ \E q, w : Sets(i, [[tp[i] EXCEPT !.delayed = q] EXCEPT !.wire = w])
        /\ UNCHANGED stack \/ Goes(t, <<>>)
    BY <1>10 DEF Flush, i
  <2> QED
    BY <1>4, <2>1, <2>2, NoneHarmless
<1>11. CASE Drain(t)
  <2>1. here
    BY <1>3, <1>11 DEF Drain
  <2>2. /\ UNCHANGED tp \/ \E q : Sets(i, [tp[i] EXCEPT !.delayed = q])
        /\ Goes(t, <<Call("disconnect", i)>>) \/ Goes(t, <<Call("disconnect", i), Call("drain", i)>>)
    BY <1>11 DEF Drain, i
  <2> QED
    BY <1>2, <1>3, <1>4, <2>1, <2>2
<1>12. CASE Disconnect(t)
  <2>1. here
    BY <1>3, <1>12 DEF Disconnect
  <2>2. /\ UNCHANGED tp \/ Sets(i, AddRef(tp[i]))
        /\ Goes(t, <<>>) \/ Goes(t, Verifying(i, Nobody) \o <<Call("told", i)>>)
    BY <1>12 DEF Disconnect, i
  <2>3. ASSUME i \in Transports
        PROVE  Verifying(i, Nobody) \o <<Call("told", i)>> \in
                  {<<Call("told", i)>>, <<Call("verify", i), Call("told", i)>>}
    <3>1. Call("told", i) \in AnyCall /\ Call("verify", i) \in AnyCall
      BY <1>3, <2>3, CallTyped
    <3>2. Verifying(i, Nobody) \in {<<>>, <<Call("verify", i)>>}
      BY SameCall DEF Verifying, Call, CallFor
    <3>3. <<Call("verify", i)>> \o <<Call("told", i)>> = <<Call("verify", i), Call("told", i)>>
      BY <3>1, PutBefore
    <3>4. <<>> \o <<Call("told", i)>> = <<Call("told", i)>>
      BY <3>1, ConcatEmptySeq
    <3> QED
      BY <3>2, <3>3, <3>4
  <2>4. i \in Transports /\ u \in Anyone => goes
    BY <1>2, <1>3, <2>2, <2>3, NoneHarmless
  <2> QED
    BY <1>4, <2>1, <2>2, <2>4
<1>13. CASE Doom(t)
  <2>1. here
    BY <1>3, <1>13 DEF Doom
  <2>2. Sets(i, [tp[i] EXCEPT !.dying = TRUE]) /\ Goes(t, <<Call("remove", i)>>)
    BY <1>13 DEF Doom, i
  <2> QED
    BY <1>2, <1>3, <1>4, <2>1, <2>2
<1> QED
  BY <1>5, <1>6, <1>7, <1>8, <1>9, <1>10, <1>11, <1>12, <1>13

(* A timer that is popped is not in the heap any more. *)
LEMMA IdleTimerTimed ==
  ASSUME IInv, Timed, NEW t \in Threads, IdleTimer(t)
  PROVE  Timed'
<1>1. PICK i \in Transports : tp[i].armed /\ Sets(i, [tp[i] EXCEPT !.armed = FALSE])
                               /\ Begin(t, <<Call("fire", i)>>)
  BY DEF IdleTimer
<1>2. tp[i] \in Record /\ Typed
  BY RecordOf DEF IInv
<1>3. /\ tp'[i].armed = FALSE /\ \A j \in Transports \ {i} : tp'[j] = tp[j]
  BY <1>1, <1>2 DEF Sets, Typed, Record
<1>4. \A j \in Transports \ {i} : Firing(j)' => Firing(j)
  <2>1. stack' = [stack EXCEPT ![t] = <<Call("fire", i)>>] /\ DOMAIN stack = Threads
    BY <1>1, <1>2 DEF Begin, Typed
  <2>2. Calls(t)' = {Call("fire", i)} /\ \A other \in Threads \ {t} : Calls(other)' = Calls(other)
    BY <2>1, OneCall DEF Calls, Elements
  <2> QED
    BY <2>2, SameCall DEF Firing
<1>5. Knows(i)'
  BY <1>3 DEF Knows
<1>6. ASSUME NEW j \in Transports \ {i} PROVE Knows(j)'
  BY <1>3, <1>4, <1>6 DEF Timed, Knows
<1> QED
  BY <1>5, <1>6 DEF Timed, Transports

LEMMA BeginsTimed ==
  ASSUME IInv, Timed, NEW t \in Threads,
         \/ DataSent(t) \/ ConnectComplete(t) \/ Closed(t)
         \/ \E u \in Users : \/ Find(t, u) \/ Receive(t, u) \/ Release(t, u)
                              \/ Send(t, u) \/ Shutdown(t, u)
  PROVE  Timed'
<1> DEFINE same == \/ UNCHANGED tp
                   \/ \E i \in Transports : \E r : Sets(i, r) /\ SameTimer(tp[i], r)
           begins == \E calls \in Harmless : Begin(t, calls)
<1>1. SUFFICES same /\ begins
  <2>1. Typed
    BY DEF IInv
  <2> QED
    BY <2>1, NoneFires, TimedSame
<1>2. \A op \in Ops \ {"fire"}, o \in Ops \ {"fire"}, v \in Anyone, i \in Transports :
         /\ <<CallFor(op, i, v)>> \in Harmless /\ <<Call(op, i)>> \in Harmless
         /\ <<CallFor(op, i, v), Call(o, i)>> \in Harmless
  BY HarmlessCalls
<1>3. /\ {"verify", "receive", "enqueue", "write", "dec", "disconnect", "flush", "drain", "shutdown"}
             \subseteq Ops \ {"fire"}
      /\ Users \subseteq Anyone /\ Nobody \in Anyone /\ Live \subseteq Transports
  BY DEF Ops, Anyone, Live
<1>4. ASSUME NEW i \in Transports, NEW q
      PROVE  /\ SameTimer(tp[i], [tp[i] EXCEPT !.wire = q]) /\ SameTimer(tp[i], [tp[i] EXCEPT !.conn = q])
             /\ SameTimer(tp[i], AddRef(tp[i]))
  <2>1. tp[i] \in Record
    BY RecordOf DEF IInv
  <2> QED
    BY <2>1 DEF SameTimer, Record, AddRef
<1>5. CASE DataSent(t)
  <2>1. PICK i \in Live : /\ \E w : Sets(i, [tp[i] EXCEPT !.wire = w])
                          /\ Begin(t, <<>>) \/ Begin(t, <<Call("disconnect", i)>>)
    BY <1>5 DEF DataSent
  <2>2. i \in Transports
    BY <1>3
  <2>3. same
    BY <1>4, <2>1, <2>2
  <2>4. begins
    BY <1>2, <1>3, <2>1, <2>2, NoneHarmless
  <2> QED
    BY <2>3, <2>4
<1>6. CASE ConnectComplete(t) \/ Closed(t)
  <2>1. PICK i \in Live : /\ \E c : Sets(i, [tp[i] EXCEPT !.conn = c])
                          /\ \E op \in {"flush", "disconnect", "drain"} : Begin(t, <<Call(op, i)>>)
    BY <1>6 DEF ConnectComplete, Closed
  <2>2. i \in Transports
    BY <1>3
  <2>3. same
    BY <1>4, <2>1, <2>2
  <2>4. begins
    BY <1>2, <1>3, <2>1, <2>2
  <2> QED
    BY <2>3, <2>4
<1>7. ASSUME NEW u \in Users, Find(t, u) PROVE same /\ begins
  <2>1. /\ table \in Transports /\ Sets(table, AddRef(tp[table]))
        /\ Begin(t, <<>>) \/ Begin(t, <<CallFor("verify", table, u)>>)
    BY <1>7 DEF Find, Verifying, IInv, Typed
  <2> QED
    BY <1>2, <1>3, <1>4, <2>1, NoneHarmless
<1>8. ASSUME NEW u \in Users, Receive(t, u) PROVE same /\ begins
  <2>1. UNCHANGED tp /\ \E i \in Live : Begin(t, <<CallFor("receive", i, u)>>)
    BY <1>8 DEF Receive
  <2> QED
    BY <1>2, <1>3, <2>1
<1>9. ASSUME NEW u \in Users, Release(t, u) \/ Send(t, u) \/ Shutdown(t, u) PROVE same /\ begins
  <2>1. user[u].tp \in Transports
    BY <1>9 DEF Release, Send, Shutdown, Has, IInv, Typed, Holder, Messages, Placed
  <2> DEFINE i == user[u].tp
  <2>2. /\ UNCHANGED tp \/ Sets(i, AddRef(tp[i]))
        /\ \/ \E op \in {"dec", "shutdown"} : Begin(t, <<Call(op, i)>>)
           \/ \E op \in {"enqueue", "write"} : Begin(t, <<CallFor(op, i, u), Call("dec", i)>>)
    BY <1>9 DEF Release, Send, Shutdown
  <2> HIDE DEF i
  <2>3. i \in Transports
    BY <2>1 DEF i
  <2> QED
    BY <1>2, <1>3, <1>4, <2>2, <2>3
<1> QED
  BY <1>5, <1>6, <1>7, <1>8, <1>9

LEMMA CreateTimed ==
  ASSUME IInv, Timed, NEW t \in Threads, NEW u \in Users, Create(t, u)
  PROVE  Timed'
<1>1. PICK i \in Transports : Sets(i, NewTransport("live", 1)) \/ Sets(i, NewTransport("gone", 0))
  BY DEF Create
<1>2. NewTransport("live", 1).armed = FALSE /\ NewTransport("gone", 0).armed = FALSE
  BY DEF NewTransport
<1>3. \A j : Firing(j)' => Firing(j)
  BY DEF Create, Firing, Calls
<1>4. PICK r : Sets(i, r) /\ r.armed = FALSE
  BY <1>1, <1>2
<1> QED
  BY <1>3, <1>4, TimedKept

LEMMA NextTimed == IInv /\ Timed /\ [Next]_vars => Timed'
<1> SUFFICES ASSUME IInv, Timed, [Next]_vars PROVE Timed'
  OBVIOUS
<1>1. CASE Next
  <2>1. PICK t \in Threads :
           \/ GoesOn(t) \/ Called(t) \/ Closed(t)
           \/ \E u \in Users : Find(t, u) \/ Create(t, u) \/ Receive(t, u) \/ Release(t, u)
                               \/ Send(t, u) \/ Shutdown(t, u)
    BY <1>1 DEF Next
  <2>2. CASE GoesOn(t)
    BY <2>2, VerifyTimed, StartIdleTimed, ShutdownLockedTimed, ToldTimed, DestroyTimed, RemoveTimed,
       GoesOnTimed DEF GoesOn
  <2>3. CASE Called(t)
    BY <2>3, IdleTimerTimed, BeginsTimed DEF Called
  <2>4. CASE Closed(t)
    BY <2>4, BeginsTimed
  <2>5. CASE \E u \in Users : Find(t, u) \/ Create(t, u) \/ Receive(t, u) \/ Release(t, u)
                              \/ Send(t, u) \/ Shutdown(t, u)
    BY <2>5, BeginsTimed, CreateTimed
  <2> QED
    BY <2>1, <2>2, <2>3, <2>4, <2>5
<1>2. CASE UNCHANGED vars
  BY <1>2 DEF vars, Timed, Knows, Firing, Calls, Transports
<1> QED
  BY <1>1, <1>2

-----------------------------------------------------------------------------
(* All steps. *)

LEMMA InitSafe == Init => IInv
<1> SUFFICES ASSUME Init PROVE IInv
  OBVIOUS
<1> DEFINE n == NewTransport("unborn", 0)
<1>1. /\ tp = [i \in Transports |-> n] /\ table = NoTp /\ listed = {} /\ lost = FALSE
      /\ stack = [t \in Threads |-> <<>>]
      /\ user = [u \in Users |-> [st |-> "out", tp |-> NoTp, uses |-> 0]]
  BY DEF Init
<1>2. n \in Record /\ n.st = "unborn" /\ n.armed = FALSE /\ n.delayed = <<>> /\ n.wire = {}
  BY NewIs
<1> HIDE DEF n
<1>3. NoTp \notin Transports
  BY DEF NoTp, Transports
<1>4. \A i \in Transports : tp[i] = n
  BY <1>1
<1>5. \A t \in Threads : stack[t] = <<>> /\ Calls(t) = {}
  BY <1>1 DEF Calls
<1>6. \A u \in Users : user[u].st = "out" /\ user[u].tp = NoTp
  BY <1>1
<1>7. Typed
  <2>0. Fits(<<>>)
    BY DEF Fits
  <2>1. \A t \in Threads : Fits(stack[t])
    BY <1>5, <2>0
  <2>2. user \in [Users -> Holder]
    BY <1>1 DEF Holder
  <2> QED
    BY <1>1, <1>2, <2>1, <2>2 DEF Typed
<1>8. Live = {}
  BY <1>2, <1>4 DEF Live
<1>9. Registered
  BY <1>1, <1>2, <1>3, <1>4 DEF Registered, Valid
<1>10. Buried
  BY <1>2, <1>3, <1>4, <1>5, <1>6 DEF Buried, Untouched, Holders, WorksOn
<1>11. Messages
  <2>1. \A i \in Transports : Queue(i) = {} /\ tp[i].wire = {} /\ Once(tp[i].delayed)
    BY <1>2, <1>4, NoneOnce DEF Queue, Elements
  <2>2. \A t \in Threads, u \in Users : ~Brings(t, u) /\ \A i \in Transports : ~Carries(t, u, i)
    BY <1>5 DEF Brings, Carries
  <2> QED
    BY <1>6, <2>1, <2>2 DEF Messages, Placed
<1>12. Counted /\ Ends
  BY <1>8 DEF Counted, Ends
<1> QED
  BY <1>7, <1>9, <1>10, <1>11, <1>12 DEF IInv

LEMMA StutterSafe == ASSUME IInv, UNCHANGED vars PROVE IInv'
<1>1. UNCHANGED <<tp, table, listed, stack, user, lost>>
  BY DEF vars
<1>2. Typed' /\ Registered' /\ Buried'
  BY <1>1 DEF IInv, Typed, Registered, Valid, Buried, Untouched, Holders, WorksOn, Calls, Live
<1>3. Messages'
  BY <1>1 DEF IInv, Messages, Placed, Queue, Once, Awaits, Brings, Carries, Calls
<1>4. Live' = Live
  BY <1>1 DEF Live
<1>5. \A t \in Threads : Calls(t)' = Calls(t)
  BY <1>1 DEF Calls
<1>6. \A i \in Transports : Holders(i)' = Holders(i) /\ Returning(i)' = Returning(i)
  BY <1>1, <1>5 DEF Holders, Returning
<1>7. Counted'
  BY <1>1, <1>4, <1>6, CountedKept DEF IInv, Live
<1>8. Ends'
  <2>1. ASSUME NEW i \in Live PROVE EndsFor(i)'
    BY <1>1, <1>5, <2>1, EndsKept DEF IInv, Ends, Live
  <2> QED
    BY <1>4, <2>1 DEF Ends
<1> QED
  BY <1>2, <1>3, <1>7, <1>8 DEF IInv

LEMMA NextSafe == IInv /\ [Next]_vars => IInv'
<1> SUFFICES ASSUME IInv, [Next]_vars PROVE IInv'
  OBVIOUS
<1>1. CASE Next
  <2>1. ~lost
    BY <1>1 DEF Next
  <2>2. PICK t \in Threads :
           \/ GoesOn(t) \/ Called(t) \/ Closed(t)
           \/ \E u \in Users : Find(t, u) \/ Create(t, u) \/ Receive(t, u) \/ Release(t, u)
                               \/ Send(t, u) \/ Shutdown(t, u)
    BY <1>1 DEF Next
  <2>3. CASE GoesOn(t)
    BY <2>1, <2>3, VerifySafe, DecRefSafe, StartIdleSafe, ReceivedSafe, EnqueueSafe, PushSafe, WriteSafe,
       FlushSafe, DrainSafe, ShutdownLockedSafe, DisconnectSafe, ToldSafe, DestroySafe, DoomSafe, RemoveSafe
       DEF GoesOn
  <2>4. CASE Called(t)
    BY <2>1, <2>4, DataSentSafe, ConnectCompleteSafe, IdleTimerSafe DEF Called
  <2>5. CASE Closed(t)
    BY <2>1, <2>5, ClosedSafe
  <2>6. CASE \E u \in Users : Find(t, u) \/ Create(t, u) \/ Receive(t, u) \/ Release(t, u)
                              \/ Send(t, u) \/ Shutdown(t, u)
    BY <2>1, <2>6, FindSafe, CreateSafe, ReceiveSafe, ReleaseSafe, SendSafe, ShutdownSafe
  <2> QED
    BY <2>2, <2>3, <2>4, <2>5, <2>6
<1>2. CASE UNCHANGED vars
  BY <1>2, StutterSafe
<1> QED
  BY <1>1, <1>2

LEMMA Safe == Spec => []IInv
BY InitSafe, NextSafe, PTL DEF Spec

(* References are exact: one for each user that holds a transport and for  *)
(* each thread that is to give one back; and a transport without any has   *)
(* its idle timer running, or a thread that is about to see to it          *)
(* (sip_transport.c: pjsip_transport_add_ref, dec_ref, shutdown, and the   *)
(* idle callback, in any order on any number of threads).                  *)
THEOREM TransportsUnusedEnd == Spec => []UnusedEnds
<1>1. IInv => UnusedEnds
  <2> SUFFICES ASSUME IInv, NEW i \in Live
               PROVE  /\ tp[i].ref = Cardinality(Holders(i)) + Cardinality(Returning(i))
                      /\ tp[i].ref = 0 /\ (\A t \in Threads : \A call \in Calls(t) : call[2] # i) => tp[i].armed
    BY DEF UnusedEnds
  <2>1. Exact(i) /\ EndsFor(i)
    BY DEF IInv, Counted, Ends
  <2>2. ASSUME \A t \in Threads : \A call \in Calls(t) : call[2] # i PROVE ~SeenTo(i)
    BY <2>2 DEF SeenTo, Call
  <2> QED
    BY <2>1, <2>2 DEF Exact, EndsFor
<1> QED
  BY <1>1, Safe, PTL

(* The timer of a transport that is gone is in the heap only if it was set *)
(* while an earlier firing of it, popped already, had not begun its        *)
(* callback; whether the transport was in use when it went does not matter *)
(* (sip_transport.c: destroy_transport cancels the timer that the id says  *)
(* is set, the callback clears the id, and nobody sets that of a transport *)
(* that the manager does not know).  The invariant Timed is what carries   *)
(* it: a timer in the heap is known by its id, but for that case.          *)
THEOREM TransportsTimerDies == Spec => []TimerDies
<1>1. Init => Timed
  <2>1. Init => \A i \in Transports : tp[i].armed = FALSE
    BY DEF Init, NewTransport
  <2> QED
    BY <2>1 DEF Timed, Knows
<1>2. Timed => TimerDies
  BY DEF Timed, Knows, TimerDies
<1>3. Spec => []Timed
  BY <1>1, NextTimed, Safe, PTL DEF Spec
<1> QED
  BY <1>2, <1>3, PTL
===============================================================================
