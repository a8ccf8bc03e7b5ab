------------------------ MODULE InviteSession_proofs ------------------------
(***************************************************************************)
(* For any operations, any number of them and any events: the sessions and *)
(* messages of InviteSession stay within their types, the two ends keep    *)
(* the promise of CallLifecycle, and no description lies in a pool that    *)
(* was reset, as long as an offer is answered once.                        *)
(***************************************************************************)
EXTENDS InviteSession, TLAPS

Methods == {"INVITE", "ACK", "BYE", "CANCEL", "UPDATE"}
Ids     == {"uac", "uas"} \X Methods \X Nat
Codes   == 0 .. 699

TsxRec == [state : TsxStates, code : Codes, data : BOOLEAN, has : BOOLEAN, done : BOOLEAN,
           early : BOOLEAN, sdp : Sdps, limit : BOOLEAN, resent : BOOLEAN]

(* The transactions of a session, by their ids. *)
Tables == UNION {[D -> TsxRec] : D \in SUBSET Ids}

Negs == [state : NegStates, init : Sdps, tmp : Sdps, nl : Sdps, nr : Sdps,
         al : Sdps, ar : Sdps, ans : BOOLEAN]

WireSdps == {x \in Sdps : x.mem \in {"wire", "none"}}

Msgs == [kind : {"req", "rsp"}, to : Agents, m : Methods, c : Nat, code : Codes, sdp : WireSdps]

Ses == [me : Agents, st : States, neg : Negs, itsx : Ids \cup {NoTsx}, tsx : Tables,
        cause : Nat, pcancel : BOOLEAN, pbye : BOOLEAN, hang : BOOLEAN,
        ackc : Nat, acksdp : Sdps, last : Sdps, lcs : Nat \ {0}, rcs : Nat,
        bodies : Nat, made : Nat, out : SUBSET Msgs]

(* The order of the states: Rank of CallLifecycle. *)
Rank(st) ==
    IF st = "null" THEN 0 ELSE IF st \in {"calling", "incoming"} THEN 1
    ELSE IF st = "early" THEN 2 ELSE IF st = "connecting" THEN 3
    ELSE IF st = "confirmed" THEN 4 ELSE 5

(* Where the descriptions of a negotiator lie.  What was agreed on before  *)
(* is never in the provisional pool, which a negotiation that fails resets; *)
(* what is under negotiation is never in the active one, which a           *)
(* negotiation that succeeds resets.  The initial description is one or    *)
(* the other, and the previous one is set aside in between.                *)
Old == {"none", "inv", "active"}
New == {"none", "inv", "prov"}
Pending(n) == n.state \in {"LOCAL_OFFER", "WAIT_NEGO"}

Pooled(n) ==
    /\ n.tmp.mem \in Old /\ n.al.mem \in Old /\ n.ar.mem \in Old
    /\ n.nl.mem \in New /\ n.nr.mem \in New
    /\ n.init.mem \in IF Pending(n) THEN New ELSE Old

NoneFreed(n) == \A x \in Stored(n) : x.mem # "freed"

(* A session that is over negotiates no more and resets no pool. *)
AnsweredOnce == "answer again" \notin Events
Sound(st, n) == AnsweredOnce => IF st = "disconnected" THEN NoneFreed(n) ELSE Pooled(n)

(* What a message says of the state its sender is in. *)
Vouched(m, st) ==
    /\ m.m = "INVITE" => m.c # 0
    /\ m.kind = "rsp" /\ m.m = "INVITE" /\ m.code \in 101 .. 199 => Rank(st) >= 2
    /\ m.kind = "rsp" /\ m.m = "INVITE" /\ Is2xx(m.code) => Rank(st) >= 3
    /\ m.kind = "req" /\ m.m = "ACK" => Rank(st) >= 3

(* The part of the invariant about one session that was started.  x is the *)
(* client transaction whose change is being handled, if any.               *)
Placed(s) ==
    /\ s.st # "null"
    /\ s.me = Caller => s.st # "incoming"
    /\ s.me = Callee => s.st # "calling"
    /\ s.itsx # NoTsx => s.itsx \in Tsxs(s) /\ MethodOf(s.itsx) = "INVITE"
    /\ s.st \in {"calling", "incoming", "early"} => s.itsx # NoTsx /\ RoleOf(s.itsx) = Role(s)
    /\ s.ackc # 0 => Rank(s.st) >= 3

Tracked(x, s) ==
    /\ s.itsx # NoTsx /\ s.itsx # x /\ T(s, s.itsx).state \in {"completed", "terminated"}
         => Rank(s.st) >= 3
    /\ \A id \in Tsxs(s) : MethodOf(id) = "INVITE" =>
          /\ CSeqOf(id) # 0
          /\ T(s, id).state = "completed" /\ Is2xx(T(s, id).code)
               => RoleOf(id) = "uas" /\ Rank(s.st) >= 3

Sending(s) == \A m \in s.out : m.to = Peer(s.me) /\ Vouched(m, s.st)

Ok(x, s) == s \in Ses /\ Placed(s) /\ Tracked(x, s) /\ Sending(s) /\ Sound(s.st, s.neg)

(* A step from s to t takes the session forward to a state in L, or leaves *)
(* it where it is.                                                         *)
Moves(L, s, t) ==
    /\ t.me = s.me
    /\ t.st = s.st \/ (t.st \in L /\ Rank(t.st) > Rank(s.st))

(* ... and keeps its transactions. *)
Goes(L, s, t) ==
    /\ Moves(L, s, t)
    /\ t.itsx = s.itsx
    /\ \A i \in Tsxs(s) :
          /\ i \in Tsxs(t)
          /\ RoleOf(i) = "uac" /\ MethodOf(i) = "INVITE"
               => T(t, i).state = T(s, i).state /\ T(t, i).code = T(s, i).code

To(L, x, s, t) == Ok(x, t) /\ Goes(L, s, t)
-----------------------------------------------------------------------------
LEMMA RankRange == ASSUME NEW st PROVE Rank(st) \in 0 .. 5 /\ (Rank(st) = 5 <=> st \notin States \ {"disconnected"})
BY DEF Rank, States

LEMMA ToSelf ==
  ASSUME NEW L, NEW x, NEW s, Ok(x, s)
  PROVE  To(L, x, s, s)
BY DEF To, Goes, Moves

LEMMA Then ==
  ASSUME NEW L, NEW x, NEW s, NEW t, NEW u, Ok(x, s), To(L, x, s, t), To(L, x, t, u)
  PROVE  To(L, x, s, u)
<1>1. Moves(L, s, u)
  <2>1. s.st \in States /\ t.st \in States /\ u.st \in States
    BY DEF To, Ok, Ses
  <2> QED
    BY <2>1, RankRange DEF To, Goes, Moves
<1>2. Ok(x, u) /\ u.itsx = s.itsx
  BY DEF To, Goes
<1>3. ASSUME NEW i \in Tsxs(s)
      PROVE  /\ i \in Tsxs(u)
             /\ RoleOf(i) = "uac" /\ MethodOf(i) = "INVITE"
                  => T(u, i).state = T(s, i).state /\ T(u, i).code = T(s, i).code
  <2>1. /\ i \in Tsxs(t)
        /\ RoleOf(i) = "uac" /\ MethodOf(i) = "INVITE"
             => T(t, i).state = T(s, i).state /\ T(t, i).code = T(s, i).code
    BY <1>3 DEF To, Goes
  <2>2. /\ i \in Tsxs(u)
        /\ RoleOf(i) = "uac" /\ MethodOf(i) = "INVITE"
             => T(u, i).state = T(t, i).state /\ T(u, i).code = T(t, i).code
    BY <2>1 DEF To, Goes
  <2> QED
    BY <2>1, <2>2
<1> QED
  BY <1>1, <1>2, <1>3 DEF To, Goes

(* A step that enters fewer states. *)
LEMMA Wider ==
  ASSUME NEW K, NEW L, K \subseteq L, NEW x, NEW s, NEW t, To(K, x, s, t)
  PROVE  To(L, x, s, t)
BY DEF To, Goes, Moves

(* A step that enters no state is one for every L. *)
LEMMA Quietly ==
  ASSUME NEW L, NEW x, NEW s, NEW t, To({}, x, s, t)
  PROVE  To(L, x, s, t)
BY Wider

LEMMA TablesIn == \A f : f \in Tables <=> \E D \in SUBSET Ids : f \in [D -> TsxRec]
BY DEF Tables

LEMMA TableOf ==
  ASSUME NEW f \in Tables
  PROVE  DOMAIN f \subseteq Ids /\ \A id \in DOMAIN f : f[id] \in TsxRec
<1>1. PICK D \in SUBSET Ids : f \in [D -> TsxRec]
  BY TablesIn
<1> QED
  BY <1>1

LEMMA TableMade ==
  ASSUME NEW D \in SUBSET Ids, NEW f, f \in [D -> TsxRec]
  PROVE  f \in Tables
BY TablesIn

LEMMA IdOf ==
  ASSUME NEW r \in {"uac", "uas"}, NEW m \in Methods, NEW c \in Nat
  PROVE  /\ TsxId(r, m, c) \in Ids
         /\ RoleOf(TsxId(r, m, c)) = r /\ MethodOf(TsxId(r, m, c)) = m /\ CSeqOf(TsxId(r, m, c)) = c
BY DEF TsxId, Ids, RoleOf, MethodOf, CSeqOf

LEMMA IdParts ==
  ASSUME NEW id \in Ids
  PROVE  RoleOf(id) \in {"uac", "uas"} /\ MethodOf(id) \in Methods /\ CSeqOf(id) \in Nat /\ id # NoTsx
BY DEF Ids, RoleOf, MethodOf, CSeqOf, NoTsx

-----------------------------------------------------------------------------
(* The changes that make up all others. *)

(* A change of what none of this is about. *)
Alike(s, t) ==
    /\ t.me = s.me /\ t.st = s.st /\ t.neg = s.neg /\ t.itsx = s.itsx
    /\ t.tsx = s.tsx /\ t.out = s.out /\ t.ackc = s.ackc

LEMMA AlikeOk ==
  ASSUME NEW x, NEW s, Ok(x, s), NEW t \in Ses, Alike(s, t)
  PROVE  To({}, x, s, t)
<1>1. Placed(t) /\ Tracked(x, t)
  BY DEF Ok, Alike, Placed, Tracked, Tsxs, T, Role
<1>2. Sending(t) /\ Sound(t.st, t.neg)
  BY DEF Ok, Alike, Sending
<1>3. Goes({}, s, t)
  BY DEF Alike, Goes, Moves, Tsxs, T
<1> QED
  BY <1>1, <1>2, <1>3 DEF To, Ok

LEMMA CauseOk ==
  ASSUME NEW x, NEW s, Ok(x, s), NEW n \in Nat
  PROVE  To({}, x, s, [s EXCEPT !.cause = n])
<1>1. s \in Ses
  BY DEF Ok
<1>2. [s EXCEPT !.cause = n] \in Ses
  BY <1>1, Zenon DEF Ses
<1> QED
  BY <1>1, <1>2, AlikeOk DEF Ses, Alike

LEMMA CancelFlagOk ==
  ASSUME NEW x, NEW s, Ok(x, s), NEW b \in BOOLEAN
  PROVE  To({}, x, s, [s EXCEPT !.pcancel = b])
<1>1. s \in Ses
  BY DEF Ok
<1>2. [s EXCEPT !.pcancel = b] \in Ses
  BY <1>1, Zenon DEF Ses
<1> QED
  BY <1>1, <1>2, AlikeOk DEF Ses, Alike

LEMMA ByeFlagOk ==
  ASSUME NEW x, NEW s, Ok(x, s), NEW b \in BOOLEAN
  PROVE  To({}, x, s, [s EXCEPT !.pbye = b])
<1>1. s \in Ses
  BY DEF Ok
<1>2. [s EXCEPT !.pbye = b] \in Ses
  BY <1>1, Zenon DEF Ses
<1> QED
  BY <1>1, <1>2, AlikeOk DEF Ses, Alike

LEMMA HangFlagOk ==
  ASSUME NEW x, NEW s, Ok(x, s), NEW b \in BOOLEAN
  PROVE  To({}, x, s, [s EXCEPT !.hang = b])
<1>1. s \in Ses
  BY DEF Ok
<1>2. [s EXCEPT !.hang = b] \in Ses
  BY <1>1, Zenon DEF Ses
<1> QED
  BY <1>1, <1>2, AlikeOk DEF Ses, Alike

LEMMA LastOk ==
  ASSUME NEW x, NEW s, Ok(x, s), NEW sdp \in Sdps
  PROVE  To({}, x, s, [s EXCEPT !.last = sdp])
<1>1. s \in Ses
  BY DEF Ok
<1>2. [s EXCEPT !.last = sdp] \in Ses
  BY <1>1, Zenon DEF Ses
<1> QED
  BY <1>1, <1>2, AlikeOk DEF Ses, Alike

LEMMA RcsOk ==
  ASSUME NEW x, NEW s, Ok(x, s), NEW c \in Nat
  PROVE  To({}, x, s, [s EXCEPT !.rcs = c])
<1>1. s \in Ses
  BY DEF Ok
<1>2. [s EXCEPT !.rcs = c] \in Ses
  BY <1>1, Zenon DEF Ses
<1> QED
  BY <1>1, <1>2, AlikeOk DEF Ses, Alike

LEMMA UsedOk ==
  ASSUME NEW x, NEW s, Ok(x, s)
  PROVE  To({}, x, s, Used(s))
<1>1. s \in Ses /\ s.bodies + 1 \in Nat
  BY DEF Ok, Ses
<1>2. Used(s) \in Ses
  BY <1>1, Zenon DEF Ses, Used
<1> QED
  BY <1>1, <1>2, AlikeOk DEF Ses, Alike, Used

LEMMA CountedOk ==
  ASSUME NEW x, NEW s, Ok(x, s)
  PROVE  To({}, x, s, Counted(s))
<1>1. s \in Ses /\ s.made + 1 \in Nat
  BY DEF Ok, Ses
<1>2. Counted(s) \in Ses
  BY <1>1, Zenon DEF Ses, Counted
<1> QED
  BY <1>1, <1>2, AlikeOk DEF Ses, Alike, Counted

LEMMA AckOk ==
  ASSUME NEW x, NEW s, Ok(x, s), Rank(s.st) >= 3, NEW c \in Nat, NEW sdp \in Sdps
  PROVE  To({}, x, s, [s EXCEPT !.ackc = c, !.acksdp = sdp])
<1> DEFINE t == [s EXCEPT !.ackc = c, !.acksdp = sdp]
<1>1. s \in Ses
  BY DEF Ok
<1>2. t \in Ses
  BY <1>1, Zenon DEF Ses
<1>3. /\ t.me = s.me /\ t.st = s.st /\ t.neg = s.neg /\ t.itsx = s.itsx
      /\ t.tsx = s.tsx /\ t.out = s.out
  BY <1>1 DEF Ses
<1> HIDE DEF t
<1>4. Placed(t) /\ Tracked(x, t)
  BY <1>3 DEF Ok, Placed, Tracked, Tsxs, T, Role
<1>5. Sending(t) /\ Sound(t.st, t.neg)
  BY <1>3 DEF Ok, Sending
<1>6. Goes({}, s, t)
  BY <1>3 DEF Goes, Moves, Tsxs, T
<1> QED
  BY <1>2, <1>4, <1>5, <1>6 DEF To, Ok, t

LEMMA NegOk ==
  ASSUME NEW x, NEW s, Ok(x, s), NEW n \in Negs, Sound(s.st, n)
  PROVE  To({}, x, s, [s EXCEPT !.neg = n]) /\ [s EXCEPT !.neg = n].neg = n
<1> DEFINE t == [s EXCEPT !.neg = n]
<1>1. s \in Ses
  BY DEF Ok
<1>2. t \in Ses
  BY <1>1, Zenon DEF Ses
<1>3. /\ t.me = s.me /\ t.st = s.st /\ t.neg = n /\ t.itsx = s.itsx
      /\ t.tsx = s.tsx /\ t.out = s.out /\ t.ackc = s.ackc
  BY <1>1 DEF Ses
<1> HIDE DEF t
<1>4. Placed(t) /\ Tracked(x, t)
  BY <1>3 DEF Ok, Placed, Tracked, Tsxs, T, Role
<1>5. Sending(t) /\ Sound(t.st, t.neg)
  BY <1>3 DEF Ok, Sending
<1>6. Goes({}, s, t)
  BY <1>3 DEF Goes, Moves, Tsxs, T
<1> QED
  BY <1>2, <1>3, <1>4, <1>5, <1>6 DEF To, Ok, t

LEMMA SendOk ==
  ASSUME NEW x, NEW s, Ok(x, s), NEW kind \in {"req", "rsp"}, NEW m \in Methods, NEW c \in Nat,
         NEW code \in Codes, NEW sdp \in Sdps, Wire(sdp) \in WireSdps,
         NEW r, r = [kind |-> kind, to |-> Peer(s.me), m |-> m, c |-> c, code |-> code, sdp |-> Wire(sdp)],
         Vouched(r, s.st)
  PROVE  To({}, x, s, Send(s, kind, m, c, code, sdp))
<1> DEFINE t == [s EXCEPT !.out = @ \cup {r}]
<1>1. s \in Ses
  BY DEF Ok
<1>2. r \in Msgs /\ r.to = Peer(s.me)
  BY <1>1 DEF Msgs, Ses, Agents, Peer
<1>3. Vouched(r, s.st)
  OBVIOUS
<1>4. s.out \cup {r} \in SUBSET Msgs
  BY <1>1, <1>2 DEF Ses
<1>5. t \in Ses
  BY <1>1, <1>4, Zenon DEF Ses
<1>6. /\ t.me = s.me /\ t.st = s.st /\ t.neg = s.neg /\ t.itsx = s.itsx
      /\ t.tsx = s.tsx /\ t.out = s.out \cup {r} /\ t.ackc = s.ackc
  BY <1>1 DEF Ses
<1>7. Send(s, kind, m, c, code, sdp) = t
  BY DEF Send
<1> HIDE DEF t
<1>8. Placed(t) /\ Tracked(x, t)
  BY <1>6 DEF Ok, Placed, Tracked, Tsxs, T, Role
<1>9. Sending(t) /\ Sound(t.st, t.neg)
  BY <1>2, <1>3, <1>6 DEF Ok, Sending
<1>10. Goes({}, s, t)
  BY <1>6 DEF Goes, Moves, Tsxs, T
<1> QED
  BY <1>5, <1>7, <1>8, <1>9, <1>10 DEF To, Ok

(* What SetTsx leaves alone and what it does. *)
LEMMA TsxSet ==
  ASSUME NEW s \in Ses, NEW id \in Ids, NEW t \in TsxRec, NEW u, u = SetTsx(s, id, t)
  PROVE  /\ u \in Ses
         /\ u.me = s.me /\ u.st = s.st /\ u.neg = s.neg /\ u.itsx = s.itsx /\ u.lcs = s.lcs
         /\ u.out = s.out /\ u.ackc = s.ackc /\ u.last = s.last
         /\ Tsxs(u) = Tsxs(s) \cup {id}
         /\ T(u, id) = t
         /\ \A i \in Tsxs(s) : i # id => T(u, i) = T(s, i)
<1> DEFINE f == [i \in Tsxs(s) \cup {id} |-> IF i = id THEN t ELSE T(s, i)]
<1>1. s.tsx \in Tables /\ Tsxs(s) = DOMAIN s.tsx
  BY DEF Ses, Tsxs
<1>2. Tsxs(s) \cup {id} \in SUBSET Ids
  BY <1>1, TableOf
<1>3. f \in [Tsxs(s) \cup {id} -> TsxRec]
  BY <1>1, TableOf DEF T
<1>4. f \in Tables
  BY <1>2, <1>3, TableMade
<1>5. u = [s EXCEPT !.tsx = f]
  BY DEF SetTsx
<1>6. DOMAIN f = Tsxs(s) \cup {id} /\ f[id] = t /\ \A i \in Tsxs(s) : i # id => f[i] = T(s, i)
  OBVIOUS
<1> HIDE DEF f
<1>7. u \in Ses
  BY <1>4, <1>5, Zenon DEF Ses
<1>8. /\ u.me = s.me /\ u.st = s.st /\ u.neg = s.neg /\ u.itsx = s.itsx /\ u.lcs = s.lcs
      /\ u.out = s.out /\ u.ackc = s.ackc /\ u.last = s.last /\ u.tsx = f
  BY <1>5 DEF Ses
<1> QED
  BY <1>6, <1>7, <1>8 DEF Tsxs, T

LEMMA TsxTyped ==
  ASSUME NEW s \in Ses, NEW id \in Tsxs(s)
  PROVE  id \in Ids /\ T(s, id) \in TsxRec
BY TableOf DEF Ses, Tsxs, T

LEMMA DataOk ==
  ASSUME NEW x, NEW s, Ok(x, s), NEW id \in Tsxs(s), NEW t \in TsxRec,
         t.state = T(s, id).state, t.code = T(s, id).code
  PROVE  To({}, x, s, SetTsx(s, id, t))
<1> DEFINE u == SetTsx(s, id, t)
<1>1. s \in Ses /\ id \in Ids
  BY TsxTyped DEF Ok
<1>2. /\ u \in Ses
      /\ u.me = s.me /\ u.st = s.st /\ u.neg = s.neg /\ u.itsx = s.itsx
      /\ u.out = s.out /\ u.ackc = s.ackc
      /\ Tsxs(u) = Tsxs(s)
      /\ T(u, id) = t
      /\ \A i \in Tsxs(s) : i # id => T(u, i) = T(s, i)
  <2>1. Tsxs(s) \cup {id} = Tsxs(s)
    OBVIOUS
  <2>2. Tsxs(u) = Tsxs(s) \cup {id}
    BY <1>1, TsxSet
  <2> QED
    BY <1>1, <2>1, <2>2, TsxSet
<1> HIDE DEF u
<1>3. \A i \in Tsxs(s) : T(u, i).state = T(s, i).state /\ T(u, i).code = T(s, i).code
  BY <1>2
<1>4. Placed(u)
  BY <1>2 DEF Ok, Placed, Role
<1>5. Tracked(x, u)
  BY <1>2, <1>3 DEF Ok, Placed, Tracked
<1>6. Sending(u) /\ Sound(u.st, u.neg)
  BY <1>2 DEF Ok, Sending
<1>7. Goes({}, s, u)
  BY <1>2, <1>3 DEF Goes, Moves
<1> QED
  BY <1>2, <1>4, <1>5, <1>6, <1>7 DEF To, Ok, u

LEMMA NewTsxOk ==
  ASSUME NEW x, NEW s, Ok(x, s), NEW id \in Ids, RoleOf(id) = "uas" \/ MethodOf(id) # "INVITE",
         MethodOf(id) = "INVITE" => CSeqOf(id) # 0,
         NEW t \in TsxRec, t.state \in {"trying", "calling"}
  PROVE  To({}, x, s, SetTsx(s, id, t)) /\ id \in Tsxs(SetTsx(s, id, t))
<1> DEFINE u == SetTsx(s, id, t)
<1>1. s \in Ses
  BY DEF Ok
<1>2. /\ u \in Ses
      /\ u.me = s.me /\ u.st = s.st /\ u.neg = s.neg /\ u.itsx = s.itsx
      /\ u.out = s.out /\ u.ackc = s.ackc
      /\ Tsxs(u) = Tsxs(s) \cup {id}
      /\ T(u, id) = t
      /\ \A i \in Tsxs(s) : i # id => T(u, i) = T(s, i)
  BY <1>1, TsxSet
<1> HIDE DEF u
<1>3. Placed(u)
  BY <1>2 DEF Ok, Placed, Role
<1>4. Tracked(x, u)
  <2>1. \A i \in Tsxs(s) : i = id \/ T(u, i) = T(s, i)
    BY <1>2
  <2>2. t.state \notin {"completed", "terminated"}
    OBVIOUS
  <2>3. s.itsx # NoTsx => s.itsx \in Tsxs(s)
    BY DEF Ok, Placed
  <2> QED
    BY <1>2, <2>1, <2>2, <2>3 DEF Ok, Tracked
<1>5. Sending(u) /\ Sound(u.st, u.neg)
  BY <1>2 DEF Ok, Sending
<1>6. Goes({}, s, u)
  BY <1>2 DEF Goes, Moves
<1> QED
  BY <1>2, <1>3, <1>4, <1>5, <1>6 DEF To, Ok, u

LEMMA DroppedOk ==
  ASSUME NEW id, NEW x \in {NoTsx, id}, NEW s, Ok(x, s), id = s.itsx => Rank(s.st) >= 3
  PROVE  /\ Ok(NoTsx, Dropped(s, id)) /\ Moves({}, s, Dropped(s, id))
         /\ Dropped(s, id).st = s.st /\ Dropped(s, id).neg = s.neg
         /\ Dropped(s, id).itsx = IF s.itsx = id THEN NoTsx ELSE s.itsx
<1> DEFINE f == [i \in Tsxs(s) \ {id} |-> T(s, i)]
           s1 == [s EXCEPT !.tsx = f]
           t  == Dropped(s, id)
<1>1. s \in Ses /\ s.tsx \in Tables /\ Tsxs(s) = DOMAIN s.tsx
  BY DEF Ok, Ses, Tsxs
<1>2. f \in Tables
  <2>1. Tsxs(s) \ {id} \in SUBSET Ids
    BY <1>1, TableOf
  <2>2. f \in [Tsxs(s) \ {id} -> TsxRec]
    BY <1>1, TableOf DEF T
  <2> QED
    BY <2>1, <2>2, TableMade
<1>3. DOMAIN f = Tsxs(s) \ {id} /\ \A i \in Tsxs(s) : i # id => f[i] = T(s, i)
  OBVIOUS
<1>4. t = IF s.itsx = id THEN [s1 EXCEPT !.itsx = NoTsx, !.last = NoSdp] ELSE s1
  BY DEF Dropped
<1> HIDE DEF f
<1>5. NoSdp \in Sdps /\ NoTsx \in Ids \cup {NoTsx}
  BY DEF NoSdp, Sdps, Pools
<1>6. s1 \in Ses
  BY <1>1, <1>2, Zenon DEF Ses
<1>7. [s1 EXCEPT !.itsx = NoTsx, !.last = NoSdp] \in Ses
  BY <1>5, <1>6, Zenon DEF Ses
<1>8. /\ t.me = s.me /\ t.st = s.st /\ t.neg = s.neg
      /\ t.out = s.out /\ t.ackc = s.ackc /\ t.tsx = f
      /\ t.itsx = IF s.itsx = id THEN NoTsx ELSE s.itsx
  BY <1>1, <1>4 DEF Ses
<1>9. t \in Ses
  BY <1>4, <1>6, <1>7
<1> HIDE DEF t, s1
<1>10. Tsxs(t) = Tsxs(s) \ {id} /\ \A i \in Tsxs(t) : T(t, i) = T(s, i)
  BY <1>3, <1>8 DEF Tsxs, T
<1>11. Placed(t)
  <2>1. s.st \in {"calling", "incoming", "early"} => id # s.itsx
    BY DEF Rank
  <2> QED
    BY <1>8, <1>10, <2>1 DEF Ok, Placed, Role
<1>12. Tracked(NoTsx, t)
  BY <1>8, <1>10 DEF Ok, Placed, Tracked
<1>13. Sending(t) /\ Sound(t.st, t.neg)
  BY <1>8 DEF Ok, Sending
<1> QED
  BY <1>8, <1>9, <1>11, <1>12, <1>13 DEF Ok, Moves, t

LEMMA StateOk ==
  ASSUME NEW x, NEW s, Ok(x, s), NEW st \in {"early", "connecting", "confirmed", "disconnected"},
         Rank(s.st) <= Rank(st)
  PROVE  To({st}, x, s, [s EXCEPT !.st = st])
<1> DEFINE t == [s EXCEPT !.st = st]
<1>1. s \in Ses
  BY DEF Ok
<1>2. st \in States
  BY DEF States
<1>3. t \in Ses
  BY <1>1, <1>2, Zenon DEF Ses
<1>4. /\ t.me = s.me /\ t.st = st /\ t.neg = s.neg /\ t.itsx = s.itsx
      /\ t.tsx = s.tsx /\ t.out = s.out /\ t.ackc = s.ackc /\ s.st \in States
  BY <1>1 DEF Ses
<1> HIDE DEF t
<1>5. Rank(s.st) <= Rank(t.st) /\ Rank(s.st) \in Nat /\ Rank(t.st) \in Nat
  BY <1>4, RankRange
<1>6. st = "early" => s.st \in {"null", "calling", "incoming", "early"}
  BY <1>4 DEF Rank, States
<1>7. Placed(t)
  BY <1>4, <1>5, <1>6 DEF Ok, Placed, Tsxs, Role
<1>8. Tracked(x, t)
  BY <1>4, <1>5 DEF Ok, Tracked, Tsxs, T
<1>9. Sending(t)
  BY <1>4, <1>5 DEF Ok, Sending, Vouched
<1>10. Sound(t.st, t.neg)
  <2>1. s.st = "disconnected" => st = "disconnected"
    BY <1>4 DEF Rank, States
  <2>2. Pooled(s.neg) => NoneFreed(s.neg)
    BY DEF Pooled, NoneFreed, Stored, Old, New
  <2> QED
    BY <1>4, <2>1, <2>2 DEF Ok, Sound
<1>11. st = s.st \/ Rank(st) > Rank(s.st)
  BY <1>4 DEF Ok, Placed, Rank, States
<1>12. Goes({st}, s, t)
  BY <1>4, <1>11 DEF Goes, Moves, Tsxs, T
<1> QED
  BY <1>3, <1>7, <1>8, <1>9, <1>10, <1>12 DEF To, Ok, t

-----------------------------------------------------------------------------
(* The negotiator. *)
LEMMA NoSdpTyped == NoSdp \in Sdps /\ NoSdp.mem = "none" /\ NoSdp \in WireSdps
BY DEF NoSdp, Sdps, Pools, WireSdps

LEMMA CloneTyped ==
  ASSUME NEW sdp \in Sdps, NEW pool \in Pools
  PROVE  Clone(sdp, pool) \in Sdps /\ Clone(sdp, pool).mem \in {pool, "none"}
<1>1. [sdp EXCEPT !.mem = pool] \in Sdps /\ [sdp EXCEPT !.mem = pool].mem = pool
  BY DEF Sdps
<1> QED
  BY <1>1, NoSdpTyped DEF Clone

LEMMA WireTyped ==
  ASSUME NEW sdp \in Sdps
  PROVE  Wire(sdp) \in WireSdps /\ Wire(sdp) \in Sdps
BY CloneTyped DEF Wire, WireSdps, Pools

LEMMA FreshTyped ==
  ASSUME NEW s \in Ses
  PROVE  Fresh(s) \in Sdps /\ Fresh(s).body \in (Agents \cup {"none"}) \X Nat
BY DEF Fresh, Sdps, Pools, Ses, Agents

LEMMA PoolNames == /\ {"inv", "prov"} \subseteq Pools /\ Old \subseteq Pools /\ New \subseteq Pools
                   /\ "freed" \notin Old \cup New
BY DEF Pools, Old, New

LEMMA PooledNone == ASSUME NEW n, Pooled(n) PROVE NoneFreed(n)
BY DEF Pooled, NoneFreed, Stored, Old, New

LEMMA NoNegTyped == NoNeg \in Negs /\ Pooled(NoNeg) /\ NoNeg.state = "NULL"
<1>1. NoNeg \in Negs
  BY NoSdpTyped DEF NoNeg, Negs, NegStates
<1> QED
  BY <1>1, NoSdpTyped DEF NoNeg, Pooled, Pending, Old, New

LEMMA LocalOfferCreated ==
  ASSUME NEW local \in Sdps, NEW st
  PROVE  /\ CreateWithLocalOffer(local, "inv") \in Negs
         /\ Sound(st, CreateWithLocalOffer(local, "inv"))
<1> DEFINE l == Clone(local, "inv")
           n == CreateWithLocalOffer(local, "inv")
<1>1. l \in Sdps /\ l.mem \in {"inv", "none"}
  BY CloneTyped, PoolNames
<1>2. n = [NoNeg EXCEPT !.state = "LOCAL_OFFER", !.init = l, !.nl = l]
  BY DEF CreateWithLocalOffer
<1> HIDE DEF l
<1>3. n \in Negs
  BY <1>1, <1>2, NoNegTyped, Zenon DEF Negs, NegStates
<1>4. Pooled(n)
  BY <1>1, <1>2, NoNegTyped DEF Pooled, Pending, Negs, Old, New
<1> QED
  BY <1>3, <1>4, PooledNone DEF Sound

LEMMA RemoteOfferCreated ==
  ASSUME NEW remote \in Sdps, NEW st
  PROVE  /\ CreateWithRemoteOffer(remote, "inv") \in Negs
         /\ Sound(st, CreateWithRemoteOffer(remote, "inv"))
         /\ CreateWithRemoteOffer(remote, "inv").state = "REMOTE_OFFER"
<1> DEFINE r == Clone(remote, "inv")
           n == CreateWithRemoteOffer(remote, "inv")
<1>1. r \in Sdps /\ r.mem \in {"inv", "none"}
  BY CloneTyped, PoolNames
<1>2. n = [NoNeg EXCEPT !.state = "REMOTE_OFFER", !.nr = r]
  BY DEF CreateWithRemoteOffer
<1> HIDE DEF r
<1>3. n \in Negs
  BY <1>1, <1>2, NoNegTyped, Zenon DEF Negs, NegStates
<1>4. Pooled(n) /\ n.state = "REMOTE_OFFER"
  BY <1>1, <1>2, NoNegTyped DEF Pooled, Pending, Negs, Old, New
<1> QED
  BY <1>3, <1>4, PooledNone DEF Sound

LEMMA LocalOfferModified ==
  ASSUME NEW n \in Negs, n.state = "DONE", NEW st, Sound(st, n), NEW local \in Sdps
  PROVE  /\ ModifyLocalOffer(n, local, "prov") \in Negs
         /\ Sound(st, ModifyLocalOffer(n, local, "prov"))
         /\ ModifyLocalOffer(n, local, "prov").state = "LOCAL_OFFER"
<1> DEFINE o == [mem |-> "prov", ver |-> n.al.ver + 1, body |-> local.body]
           t == ModifyLocalOffer(n, local, "prov")
<1>1. o \in Sdps /\ o.mem = "prov"
  BY PoolNames DEF Negs, Sdps
<1>2. t = [n EXCEPT !.state = "LOCAL_OFFER", !.tmp = n.init, !.init = o, !.nl = o]
  BY DEF ModifyLocalOffer
<1> HIDE DEF o
<1>3. n.init \in Sdps
  BY DEF Negs
<1>4. t \in Negs
  BY <1>1, <1>2, <1>3, Zenon DEF Negs, NegStates
<1>5. /\ t.state = "LOCAL_OFFER" /\ t.tmp = n.init /\ t.init = o /\ t.nl = o
      /\ t.nr = n.nr /\ t.al = n.al /\ t.ar = n.ar
  BY <1>2 DEF Negs
<1> HIDE DEF t
<1>6. Pooled(n) => Pooled(t)
  BY <1>1, <1>5 DEF Pooled, Pending, Old, New
<1>7. NoneFreed(n) => NoneFreed(t)
  BY <1>1, <1>5 DEF NoneFreed, Stored
<1> QED
  BY <1>4, <1>5, <1>6, <1>7 DEF Sound, t

LEMMA LocalOfferSent ==
  ASSUME NEW n \in Negs, n.state = "DONE", NEW st, Sound(st, n)
  PROVE  SendLocalOffer(n, "prov") \in Negs /\ Sound(st, SendLocalOffer(n, "prov"))
<1> DEFINE i == Clone(n.init, "prov")
           l == Clone(n.al, "prov")
           t == SendLocalOffer(n, "prov")
<1>1. n.init \in Sdps /\ n.al \in Sdps
  BY DEF Negs
<1>2. i \in Sdps /\ i.mem \in New /\ l \in Sdps /\ l.mem \in New
  BY <1>1, CloneTyped, PoolNames DEF New
<1>3. t = [n EXCEPT !.state = "LOCAL_OFFER", !.tmp = n.init, !.init = i, !.nl = l]
  BY DEF SendLocalOffer
<1> HIDE DEF i, l
<1>4. t \in Negs
  BY <1>1, <1>2, <1>3, Zenon DEF Negs, NegStates
<1>5. /\ t.state = "LOCAL_OFFER" /\ t.tmp = n.init /\ t.init = i /\ t.nl = l
      /\ t.nr = n.nr /\ t.al = n.al /\ t.ar = n.ar
  BY <1>3 DEF Negs
<1> HIDE DEF t
<1>6. Pooled(n) => Pooled(t)
  BY <1>2, <1>5 DEF Pooled, Pending, Old, New
<1>7. NoneFreed(n) => NoneFreed(t)
  BY <1>2, <1>5, PoolNames DEF NoneFreed, Stored
<1> QED
  BY <1>4, <1>6, <1>7 DEF Sound, t

LEMMA RemoteAnswerSet ==
  ASSUME NEW n \in Negs, n.state = "LOCAL_OFFER", NEW st, Sound(st, n), NEW remote \in Sdps
  PROVE  /\ SetRemoteAnswer(n, remote, "prov") \in Negs
         /\ Sound(st, SetRemoteAnswer(n, remote, "prov"))
         /\ SetRemoteAnswer(n, remote, "prov").state = "WAIT_NEGO"
<1> DEFINE r == Clone(remote, "prov")
           t == SetRemoteAnswer(n, remote, "prov")
<1>1. r \in Sdps /\ r.mem \in New
  BY CloneTyped, PoolNames DEF New
<1>2. t = [n EXCEPT !.state = "WAIT_NEGO", !.ans = TRUE, !.nr = r]
  BY DEF SetRemoteAnswer
<1> HIDE DEF r
<1>3. t \in Negs
  BY <1>1, <1>2, Zenon DEF Negs, NegStates
<1>4. /\ t.state = "WAIT_NEGO" /\ t.tmp = n.tmp /\ t.init = n.init /\ t.nl = n.nl
      /\ t.nr = r /\ t.al = n.al /\ t.ar = n.ar
  BY <1>2 DEF Negs
<1> HIDE DEF t
<1>5. Pooled(n) => Pooled(t)
  BY <1>1, <1>4 DEF Pooled, Pending
<1>6. NoneFreed(n) => NoneFreed(t)
  BY <1>1, <1>4, PoolNames DEF NoneFreed, Stored
<1> QED
  BY <1>3, <1>4, <1>5, <1>6 DEF Sound, t

LEMMA RemoteOfferSet ==
  ASSUME NEW n \in Negs, n.state = "DONE", NEW st, Sound(st, n), NEW remote \in Sdps
  PROVE  /\ SetRemoteOffer(n, remote, "prov") \in Negs
         /\ Sound(st, SetRemoteOffer(n, remote, "prov"))
         /\ SetRemoteOffer(n, remote, "prov").state = "REMOTE_OFFER"
<1> DEFINE r == Clone(remote, "prov")
           t == SetRemoteOffer(n, remote, "prov")
<1>1. r \in Sdps /\ r.mem \in New
  BY CloneTyped, PoolNames DEF New
<1>2. t = [n EXCEPT !.state = "REMOTE_OFFER", !.nr = r]
  BY DEF SetRemoteOffer
<1> HIDE DEF r
<1>3. t \in Negs
  BY <1>1, <1>2, Zenon DEF Negs, NegStates
<1>4. /\ t.state = "REMOTE_OFFER" /\ t.tmp = n.tmp /\ t.init = n.init /\ t.nl = n.nl
      /\ t.nr = r /\ t.al = n.al /\ t.ar = n.ar
  BY <1>2 DEF Negs
<1> HIDE DEF t
<1>5. Pooled(n) => Pooled(t)
  BY <1>1, <1>4 DEF Pooled, Pending
<1>6. NoneFreed(n) => NoneFreed(t)
  BY <1>1, <1>4, PoolNames DEF NoneFreed, Stored
<1> QED
  BY <1>3, <1>4, <1>5, <1>6 DEF Sound, t

(* A second answer before the first was negotiated loses the description   *)
(* set aside; the only case in which Sound does not hold.                  *)
LEMMA LocalAnswerSet ==
  ASSUME NEW n \in Negs, AnsweredOnce => n.state = "REMOTE_OFFER", NEW st, Sound(st, n), NEW local \in Sdps
  PROVE  /\ SetLocalAnswer(n, local, "prov") \in Negs
         /\ Sound(st, SetLocalAnswer(n, local, "prov"))
         /\ SetLocalAnswer(n, local, "prov").state = "WAIT_NEGO"
<1> DEFINE l == Clone(local, "prov")
           a == IF n.init # NoSdp THEN n.init ELSE local
           i == Clone(a, "prov")
           p == IF n.init # NoSdp THEN n.init ELSE n.tmp
           t == SetLocalAnswer(n, local, "prov")
<1>1. n.init \in Sdps /\ n.tmp \in Sdps
  BY DEF Negs
<1>2. a \in Sdps /\ p \in Sdps
  BY <1>1
<1>3. l \in Sdps /\ l.mem \in New
  BY CloneTyped, PoolNames DEF New
<1>4. t = [n EXCEPT !.state = "WAIT_NEGO", !.nl = l, !.tmp = p, !.init = i]
  BY DEF SetLocalAnswer, Negs
<1>5. p \in {n.init, n.tmp}
  OBVIOUS
<1> HIDE DEF a
<1>6. i \in Sdps /\ i.mem \in New
  BY <1>2, CloneTyped, PoolNames DEF New
<1> HIDE DEF l, i, p
<1>7. t \in Negs
  BY <1>2, <1>3, <1>4, <1>6, Zenon DEF Negs, NegStates
<1>8. /\ t.state = "WAIT_NEGO" /\ t.tmp = p /\ t.init = i /\ t.nl = l
      /\ t.nr = n.nr /\ t.al = n.al /\ t.ar = n.ar
  BY <1>4 DEF Negs
<1> HIDE DEF t
<1>9. n.state = "REMOTE_OFFER" /\ Pooled(n) => Pooled(t)
  BY <1>3, <1>5, <1>6, <1>8 DEF Pooled, Pending
<1>10. NoneFreed(n) => NoneFreed(t)
  BY <1>3, <1>5, <1>6, <1>8, PoolNames DEF NoneFreed, Stored
<1> QED
  BY <1>7, <1>8, <1>9, <1>10 DEF Sound, t

LEMMA SettledTyped ==
  ASSUME NEW n \in Negs
  PROVE  LET t == Settled(n) IN
         /\ t \in Negs
         /\ t.state = "DONE" /\ t.tmp = NoSdp /\ t.init = n.init /\ t.nl = NoSdp
         /\ t.nr = NoSdp /\ t.al = n.al /\ t.ar = n.ar
<1>1. [n EXCEPT !.state = "DONE", !.tmp = NoSdp, !.nl = NoSdp, !.nr = NoSdp, !.ans = FALSE] \in Negs
  BY NoSdpTyped, Zenon DEF Negs, NegStates
<1> QED
  BY <1>1 DEF Settled, Negs

LEMMA OfferCancelled ==
  ASSUME NEW n \in Negs, n.state \in {"LOCAL_OFFER", "REMOTE_OFFER"}, NEW st, Sound(st, n)
  PROVE  CancelOffer(n) \in Negs /\ Sound(st, CancelOffer(n)) /\ CancelOffer(n).state = "DONE"
<1> DEFINE a == [n.al EXCEPT !.ver = IF n.al # NoSdp THEN @ + 1 ELSE @]
           u == [n EXCEPT !.al = a, !.init = n.tmp]
           b == IF n.state = "LOCAL_OFFER" THEN u ELSE n
           t == CancelOffer(n)
<1>1. n.al \in Sdps /\ n.tmp \in Sdps
  BY DEF Negs
<1>2. a \in Sdps /\ a.mem = n.al.mem
  BY <1>1 DEF Sdps
<1>3. [n EXCEPT !.al.ver = IF n.al # NoSdp THEN @ + 1 ELSE @, !.init = n.tmp] = u
  BY DEF Negs
<1> HIDE DEF a
<1>4. u \in Negs
  BY <1>1, <1>2, Zenon DEF Negs
<1>5. u.al = a /\ u.init = n.tmp /\ u.ar = n.ar
  BY DEF Negs
<1>6. t = Settled(b)
  BY <1>3 DEF CancelOffer
<1> HIDE DEF u
<1>7. /\ b \in Negs /\ b.al.mem = n.al.mem /\ b.ar = n.ar
      /\ b.init \in (IF n.state = "LOCAL_OFFER" THEN {n.tmp} ELSE {n.init})
  BY <1>2, <1>4, <1>5
<1> HIDE DEF b
<1>8. /\ t \in Negs
      /\ t.state = "DONE" /\ t.tmp = NoSdp /\ t.init = b.init /\ t.nl = NoSdp
      /\ t.nr = NoSdp /\ t.al = b.al /\ t.ar = b.ar
  BY <1>6, <1>7, SettledTyped
<1> HIDE DEF t
<1>9. Pooled(n) => Pooled(t)
  BY <1>7, <1>8, NoSdpTyped DEF Pooled, Pending, Old, New
<1>10. NoneFreed(n) => NoneFreed(t)
  BY <1>7, <1>8, NoSdpTyped DEF NoneFreed, Stored
<1> QED
  BY <1>8, <1>9, <1>10 DEF Sound, t

(* What is agreed on lies in the provisional pool, or with the dialog.     *)
LEMMA Negotiated ==
  ASSUME NEW n \in Negs, n.state = "WAIT_NEGO", NEW matches
  PROVE  LET t == Negotiate(n, matches, "prov") IN
         /\ t \in Negs
         /\ t.state = "DONE" /\ t.tmp = NoSdp /\ t.nl = NoSdp /\ t.nr = NoSdp
         /\ matches  => t.init = n.init /\ t.al.mem \in {"prov", "none"} /\ t.ar = n.nr
         /\ ~matches => t.init = n.tmp /\ t.al = n.al /\ t.ar = n.ar
<1> DEFINE base == IF n.al # NoSdp THEN n.al.ver ELSE n.init.ver
           answer == [mem |-> "prov", ver |-> base + 1, body |-> n.nl.body]
           l == IF n.ans THEN Clone(n.nl, "prov") ELSE answer
           u == [n EXCEPT !.al = l, !.ar = n.nr]
           v == [n EXCEPT !.init = n.tmp]
<1>1. /\ n.al \in Sdps /\ n.init \in Sdps /\ n.nl \in Sdps /\ n.nr \in Sdps /\ n.tmp \in Sdps
  BY DEF Negs
<1>2. answer \in Sdps /\ answer.mem = "prov"
  BY <1>1, PoolNames DEF Sdps
<1>3. l \in Sdps /\ l.mem \in {"prov", "none"}
  BY <1>1, <1>2, CloneTyped, PoolNames
<1>4. Negotiate(n, matches, "prov") = IF matches THEN Settled(u) ELSE Settled(v)
  BY DEF Negotiate
<1> HIDE DEF l
<1>5. u \in Negs /\ v \in Negs
  BY <1>1, <1>3, Zenon DEF Negs
<1>6. /\ u.init = n.init /\ u.al = l /\ u.ar = n.nr
      /\ v.init = n.tmp /\ v.al = n.al /\ v.ar = n.ar
  BY DEF Negs
<1> HIDE DEF u, v
<1> QED
  BY <1>3, <1>4, <1>5, <1>6, SettledTyped

LEMMA AgedTyped ==
  ASSUME NEW sdp \in Sdps
  PROVE  /\ Aged(sdp, [prov |-> "active", active |-> "freed"]) \in Sdps
         /\ Aged(sdp, [prov |-> "freed"]) \in Sdps
         /\ sdp.mem \in New => Aged(sdp, [prov |-> "active", active |-> "freed"]).mem \in Old
         /\ sdp.mem \in Old => Aged(sdp, [prov |-> "freed"]) = sdp
BY DEF Aged, Sdps, Pools, Old, New

LEMMA Swapped ==
  ASSUME NEW n \in Negs
  PROVE  LET t == SwapPools(n)
             age == [prov |-> "active", active |-> "freed"]
         IN  /\ t \in Negs /\ t.state = n.state
             /\ t.init = Aged(n.init, age) /\ t.tmp = Aged(n.tmp, age) /\ t.nl = Aged(n.nl, age)
             /\ t.nr = Aged(n.nr, age) /\ t.al = Aged(n.al, age) /\ t.ar = Aged(n.ar, age)
<1> DEFINE A(sdp) == Aged(sdp, [prov |-> "active", active |-> "freed"])
<1>1. \A sdp \in Sdps : A(sdp) \in Sdps
  BY AgedTyped
<1>2. SwapPools(n) = [n EXCEPT !.init = A(n.init), !.tmp = A(n.tmp), !.nl = A(n.nl),
                               !.nr = A(n.nr), !.al = A(n.al), !.ar = A(n.ar)]
  BY DEF SwapPools, AgedNeg, Negs
<1> HIDE DEF A
<1>3. /\ A(n.init) \in Sdps /\ A(n.tmp) \in Sdps /\ A(n.nl) \in Sdps
      /\ A(n.nr) \in Sdps /\ A(n.al) \in Sdps /\ A(n.ar) \in Sdps
  BY <1>1 DEF Negs
<1>4. SwapPools(n) \in Negs
  BY <1>2, <1>3, Zenon DEF Negs
<1> QED
  BY <1>2, <1>4 DEF Negs, A

LEMMA Reset ==
  ASSUME NEW n \in Negs
  PROVE  LET t == ResetPool(n)
             age == [prov |-> "freed"]
         IN  /\ t \in Negs /\ t.state = n.state
             /\ t.init = Aged(n.init, age) /\ t.tmp = Aged(n.tmp, age) /\ t.nl = Aged(n.nl, age)
             /\ t.nr = Aged(n.nr, age) /\ t.al = Aged(n.al, age) /\ t.ar = Aged(n.ar, age)
<1> DEFINE A(sdp) == Aged(sdp, [prov |-> "freed"])
<1>1. \A sdp \in Sdps : A(sdp) \in Sdps
  BY AgedTyped
<1>2. ResetPool(n) = [n EXCEPT !.init = A(n.init), !.tmp = A(n.tmp), !.nl = A(n.nl),
                               !.nr = A(n.nr), !.al = A(n.al), !.ar = A(n.ar)]
  BY DEF ResetPool, AgedNeg, Negs
<1> HIDE DEF A
<1>3. /\ A(n.init) \in Sdps /\ A(n.tmp) \in Sdps /\ A(n.nl) \in Sdps
      /\ A(n.nr) \in Sdps /\ A(n.al) \in Sdps /\ A(n.ar) \in Sdps
  BY <1>1 DEF Negs
<1>4. ResetPool(n) \in Negs
  BY <1>2, <1>3, Zenon DEF Negs
<1> QED
  BY <1>2, <1>4 DEF Negs, A

(* A negotiation, and what becomes of the pools after it. *)
LEMMA NegotiationSound ==
  ASSUME NEW n \in Negs, n.state = "WAIT_NEGO", NEW matches, NEW st, Sound(st, n), NEW t,
         t = IF st = "disconnected" THEN Negotiate(n, matches, "prov")
             ELSE IF matches THEN SwapPools(Negotiate(n, matches, "prov"))
             ELSE ResetPool(Negotiate(n, matches, "prov"))
  PROVE  t \in Negs /\ t.state = "DONE" /\ Sound(st, t)
<1> DEFINE k == Negotiate(n, matches, "prov")
<1>1. /\ k \in Negs
      /\ k.state = "DONE" /\ k.tmp = NoSdp /\ k.nl = NoSdp /\ k.nr = NoSdp
      /\ matches  => k.init = n.init /\ k.al.mem \in {"prov", "none"} /\ k.ar = n.nr
      /\ ~matches => k.init = n.tmp /\ k.al = n.al /\ k.ar = n.ar
  BY Negotiated
<1>2. t = IF st = "disconnected" THEN k ELSE IF matches THEN SwapPools(k) ELSE ResetPool(k)
  OBVIOUS
<1> HIDE DEF k
<1>3. CASE st = "disconnected"
  BY <1>1, <1>2, <1>3, NoSdpTyped DEF Sound, NoneFreed, Stored
<1>4. CASE st # "disconnected" /\ matches
  <2> DEFINE A(sdp) == Aged(sdp, [prov |-> "active", active |-> "freed"])
  <2>1. /\ t \in Negs /\ t.state = k.state
        /\ t.init = A(k.init) /\ t.tmp = A(k.tmp) /\ t.nl = A(k.nl)
        /\ t.nr = A(k.nr) /\ t.al = A(k.al) /\ t.ar = A(k.ar)
    <3>1. t = SwapPools(k)
      BY <1>2, <1>4
    <3> QED
      BY <1>1, <3>1, Swapped
  <2>2. \A sdp \in Sdps : sdp.mem \in New => A(sdp).mem \in Old
    BY AgedTyped
  <2>3. A(NoSdp) = NoSdp
    BY NoSdpTyped DEF Aged
  <2> HIDE DEF A
  <2>4. k.init \in Sdps /\ k.al \in Sdps /\ k.ar \in Sdps
    BY <1>1 DEF Negs
  <2>5. Pooled(n) => k.init.mem \in New /\ k.al.mem \in New /\ k.ar.mem \in New
    BY <1>1, <1>4 DEF Pooled, Pending, New
  <2>6. Pooled(n) => t.init.mem \in Old /\ t.al.mem \in Old /\ t.ar.mem \in Old
    BY <2>1, <2>2, <2>4, <2>5
  <2>7. Pooled(n) => Pooled(t)
    BY <1>1, <2>1, <2>3, <2>6, NoSdpTyped DEF Pooled, Pending, Old, New
  <2> QED
    BY <1>1, <1>4, <2>1, <2>7 DEF Sound
<1>5. CASE st # "disconnected" /\ ~matches
  <2> DEFINE A(sdp) == Aged(sdp, [prov |-> "freed"])
  <2>1. /\ t \in Negs /\ t.state = k.state
        /\ t.init = A(k.init) /\ t.tmp = A(k.tmp) /\ t.nl = A(k.nl)
        /\ t.nr = A(k.nr) /\ t.al = A(k.al) /\ t.ar = A(k.ar)
    BY <1>1, <1>2, <1>5, Reset
  <2>2. \A sdp \in Sdps : sdp.mem \in Old => A(sdp) = sdp
    BY AgedTyped
  <2>3. A(NoSdp) = NoSdp
    BY NoSdpTyped DEF Aged
  <2> HIDE DEF A
  <2>4. k.init \in Sdps /\ k.al \in Sdps /\ k.ar \in Sdps
    BY <1>1 DEF Negs
  <2>5. Pooled(n) => k.init.mem \in Old /\ k.al.mem \in Old /\ k.ar.mem \in Old
    BY <1>1, <1>5 DEF Pooled
  <2>6. Pooled(n) => t.init.mem \in Old /\ t.al.mem \in Old /\ t.ar.mem \in Old
    BY <2>1, <2>2, <2>4, <2>5
  <2>7. Pooled(n) => Pooled(t)
    BY <1>1, <2>1, <2>3, <2>6, NoSdpTyped DEF Pooled, Pending, Old, New
  <2> QED
    BY <1>1, <1>5, <2>1, <2>7 DEF Sound
<1> QED
  BY <1>3, <1>4, <1>5

-----------------------------------------------------------------------------
(* Sending requests. *)
LEMMA NewTsxTyped ==
  ASSUME NEW state \in TsxStates, NEW data \in BOOLEAN, NEW sdp \in Sdps
  PROVE  /\ NewTsx(state, data, sdp) \in TsxRec
         /\ NewTsx(state, data, sdp).state = state /\ NewTsx(state, data, sdp).code = 0
<1>1. (data /\ sdp # NoSdp) \in BOOLEAN
  OBVIOUS
<1>2. Wire(sdp) \in Sdps
  BY WireTyped
<1> QED
  BY <1>1, <1>2 DEF NewTsx, TsxRec, Codes

LEMMA LcsOk ==
  ASSUME NEW x, NEW s, Ok(x, s), NEW n \in Nat \ {0}
  PROVE  To({}, x, s, [s EXCEPT !.lcs = n])
<1>1. s \in Ses
  BY DEF Ok
<1>2. [s EXCEPT !.lcs = n] \in Ses
  BY <1>1, Zenon DEF Ses
<1> QED
  BY <1>1, <1>2, AlikeOk DEF Ses, Alike

LEMMA SetCauseOk ==
  ASSUME NEW x, NEW s, Ok(x, s), NEW code \in Nat
  PROVE  To({}, x, s, SetCause(s, code))
BY CauseOk, ToSelf DEF SetCause

LEMMA SendRequestOk ==
  ASSUME NEW x, NEW s, Ok(x, s), NEW m \in {"BYE", "CANCEL", "UPDATE"}, NEW sdp \in Sdps
  PROVE  To({}, x, s, SendRequest(s, m, sdp))
<1> DEFINE c  == IF m = "CANCEL" THEN CSeqOf(s.itsx) ELSE s.lcs
           id == TsxId("uac", m, c)
           u  == SetTsx(s, id, NewTsx("calling", TRUE, sdp))
           n  == IF m = "CANCEL" THEN u.lcs ELSE u.lcs + 1
           v  == [u EXCEPT !.lcs = n]
<1>1. s \in Ses
  BY DEF Ok
<1>2. c \in Nat
  BY <1>1, IdParts DEF Ses, NoTsx, CSeqOf
<1>3. m \in Methods /\ "uac" \in {"uac", "uas"}
  BY DEF Methods
<1>4. id \in Ids /\ MethodOf(id) # "INVITE"
  BY <1>2, <1>3, IdOf
<1> HIDE DEF c
<1>5. NewTsx("calling", TRUE, sdp) \in TsxRec /\ NewTsx("calling", TRUE, sdp).state = "calling"
  BY NewTsxTyped DEF TsxStates
<1> HIDE DEF id
<1>6. To({}, x, s, u)
  BY <1>4, <1>5, NewTsxOk
<1>7. SendRequest(s, m, sdp) = Send([u EXCEPT !.lcs = n, !.itsx = u.itsx, !.st = u.st], "req", m, c, 0, sdp)
  BY DEF SendRequest, c, id
<1> HIDE DEF u
<1>8. u \in Ses
  BY <1>6 DEF To, Ok
<1>9. n \in Nat \ {0}
  BY <1>8 DEF Ses
<1>10. [u EXCEPT !.lcs = n, !.itsx = u.itsx, !.st = u.st] = v
  BY <1>8 DEF Ses
<1> HIDE DEF n
<1>11. To({}, x, u, v)
  BY <1>6, <1>9, LcsOk DEF To
<1> HIDE DEF v
<1>12. To({}, x, v, Send(v, "req", m, c, 0, sdp))
  <2> DEFINE r == [kind |-> "req", to |-> Peer(v.me), m |-> m, c |-> c, code |-> 0, sdp |-> Wire(sdp)]
  <2>1. Wire(sdp) \in WireSdps
    BY WireTyped
  <2>2. Vouched(r, v.st)
    BY DEF Vouched
  <2>a. r = [kind |-> "req", to |-> Peer(v.me), m |-> m, c |-> c, code |-> 0, sdp |-> Wire(sdp)]
    OBVIOUS
  <2> HIDE DEF r
  <2>3. "req" \in {"req", "rsp"} /\ 0 \in Codes /\ Ok(x, v) /\ m \in Methods
    BY <1>3, <1>11 DEF To, Codes
  <2> QED
    BY <1>2, <2>1, <2>2, <2>a, <2>3, SendOk
<1>13. To({}, x, s, v)
  BY <1>6, <1>11, Then
<1>14. To({}, x, s, Send(v, "req", m, c, 0, sdp))
  BY <1>12, <1>13, Then
<1> QED
  BY <1>7, <1>10, <1>14

LEMMA SendByeOk ==
  ASSUME NEW x, NEW s, Ok(x, s)
  PROVE  To({}, x, s, SendBye(s))
<1>1. To({}, x, s, [s EXCEPT !.pbye = TRUE])
  BY ByeFlagOk
<1>2. To({}, x, s, SendRequest(s, "BYE", NoSdp))
  BY NoSdpTyped, SendRequestOk
<1> QED
  BY <1>1, <1>2 DEF SendBye

LEMMA PerformPendingByeOk ==
  ASSUME NEW x, NEW s, Ok(x, s)
  PROVE  To({}, x, s, PerformPendingBye(s))
<1> DEFINE t == [s EXCEPT !.pbye = FALSE]
<1>1. To({}, x, s, t)
  BY ByeFlagOk
<1>2. PerformPendingBye(s) = IF s.pbye THEN SendBye(t) ELSE s
  BY DEF PerformPendingBye
<1> HIDE DEF t
<1>3. To({}, x, t, SendBye(t))
  BY <1>1, SendByeOk DEF To
<1>4. To({}, x, s, SendBye(t))
  BY <1>1, <1>3, Then
<1> QED
  BY <1>2, <1>4, ToSelf

LEMMA SendCancelOk ==
  ASSUME NEW x, NEW s, Ok(x, s)
  PROVE  To({}, x, s, SendCancel(s))
BY NoSdpTyped, SendRequestOk DEF SendCancel

(* The session ends up in the state, or keeps its own.                     *)
LEMMA SetStateOk ==
  ASSUME NEW x, NEW s, Ok(x, s), NEW st \in {"early", "connecting", "confirmed", "disconnected"},
         Rank(s.st) <= Rank(st)
  PROVE  /\ To({st}, x, s, SetState(s, st))
         /\ st = "confirmed" \/ SetState(s, st) = [s EXCEPT !.st = st]
         /\ s.itsx \notin Tsxs(s) => SetState(s, st) = [s EXCEPT !.st = st]
<1> DEFINE c == SetCause(s, 406)
<1>1. To({st}, x, s, [s EXCEPT !.st = st])
  BY StateOk
<1>2. To({}, x, s, c)
  BY SetCauseOk
<1>3. /\ SetState(s, st) \in {SendBye(c), [s EXCEPT !.st = st]}
      /\ st = "confirmed" \/ SetState(s, st) = [s EXCEPT !.st = st]
      /\ s.itsx \notin Tsxs(s) => SetState(s, st) = [s EXCEPT !.st = st]
  BY DEF SetState
<1> HIDE DEF c
<1>4. To({}, x, c, SendBye(c))
  BY <1>2, SendByeOk DEF To
<1>5. To({st}, x, s, SendBye(c))
  BY <1>2, <1>4, Then, Quietly
<1> QED
  BY <1>1, <1>3, <1>5

LEMMA DisconnectOk ==
  ASSUME NEW x, NEW s, Ok(x, s), NEW code \in Nat
  PROVE  To({"disconnected"}, x, s, Disconnect(s, code)) /\ Disconnect(s, code).st = "disconnected"
<1> DEFINE c == SetCause(s, code)
           t == [c EXCEPT !.st = "disconnected"]
<1>1. To({}, x, s, c)
  BY SetCauseOk
<1>2. Disconnect(s, code) = SetState(c, "disconnected")
  BY DEF Disconnect
<1> HIDE DEF c
<1>3. Rank(c.st) <= Rank("disconnected") /\ Ok(x, c)
  BY <1>1 DEF Rank, To
<1>4. To({"disconnected"}, x, c, SetState(c, "disconnected")) /\ SetState(c, "disconnected") = t
  BY <1>3, SetStateOk
<1>5. t.st = "disconnected"
  BY <1>3 DEF Ok, Ses
<1> HIDE DEF t
<1>6. To({"disconnected"}, x, s, c)
  BY <1>1, Quietly
<1> QED
  BY <1>2, <1>4, <1>5, <1>6, Then
-----------------------------------------------------------------------------
(* Offers and answers. *)
LEMMA InvNegotiateOk ==
  ASSUME NEW x, NEW s, Ok(x, s), NegState(s) = "WAIT_NEGO", NEW d
  PROVE  To({}, x, s, InvNegotiate(s, d).s) /\ NegState(InvNegotiate(s, d).s) = "DONE"
<1> DEFINE matches == IF s.neg.ans THEN d.offerer ELSE d.answerer
           k == Negotiate(s.neg, matches, "prov")
           n == IF s.st = "disconnected" THEN k ELSE IF matches THEN SwapPools(k) ELSE ResetPool(k)
<1>1. s \in Ses /\ s.neg \in Negs /\ s.neg.state = "WAIT_NEGO" /\ Sound(s.st, s.neg)
  BY DEF Ok, Ses, NegState
<1>2. InvNegotiate(s, d).s = [s EXCEPT !.neg = n]
  BY DEF InvNegotiate, Pair
<1>a. n = IF s.st = "disconnected" THEN Negotiate(s.neg, matches, "prov")
          ELSE IF matches THEN SwapPools(Negotiate(s.neg, matches, "prov"))
          ELSE ResetPool(Negotiate(s.neg, matches, "prov"))
  OBVIOUS
<1> HIDE DEF matches, n
<1>3. n \in Negs /\ n.state = "DONE" /\ Sound(s.st, n)
  BY <1>1, <1>a, NegotiationSound, SMTT(30)
<1>4. To({}, x, s, [s EXCEPT !.neg = n]) /\ [s EXCEPT !.neg = n].neg = n
  BY <1>3, NegOk
<1> QED
  BY <1>2, <1>3, <1>4 DEF NegState

LEMMA SdpDoneOk ==
  ASSUME NEW x, NEW s, Ok(x, s), NEW id
  PROVE  To({}, x, s, SdpDone(s, id)) /\ SdpDone(s, id).neg = s.neg
<1>1. CASE id \in Tsxs(s)
  <2> DEFINE t == [T(s, id) EXCEPT !.done = TRUE]
  <2>1. s \in Ses /\ id \in Ids /\ T(s, id) \in TsxRec
    BY <1>1, TsxTyped DEF Ok
  <2>2. t \in TsxRec /\ t.state = T(s, id).state /\ t.code = T(s, id).code
    BY <2>1 DEF TsxRec
  <2>3. SdpDone(s, id) = SetTsx(s, id, t)
    BY <1>1 DEF SdpDone
  <2> HIDE DEF t
  <2>4. To({}, x, s, SetTsx(s, id, t)) /\ SetTsx(s, id, t).neg = s.neg
    BY <1>1, <2>1, <2>2, DataOk, TsxSet
  <2> QED
    BY <2>3, <2>4
<1>2. CASE id \notin Tsxs(s)
  BY <1>2, ToSelf DEF SdpDone
<1> QED
  BY <1>1, <1>2

LEMMA AttachedOk ==
  ASSUME NEW x, NEW s, Ok(x, s), NEW id \in Tsxs(s), NEW sdp
  PROVE  To({}, x, s, Attached(s, id, sdp)) /\ Attached(s, id, sdp).neg = s.neg
<1> DEFINE b == sdp # NoSdp
           t == [T(s, id) EXCEPT !.data = TRUE, !.has = b]
<1>1. s \in Ses /\ id \in Ids /\ T(s, id) \in TsxRec
  BY TsxTyped DEF Ok
<1>2. t \in TsxRec /\ t.state = T(s, id).state /\ t.code = T(s, id).code
  <2>1. b \in BOOLEAN
    OBVIOUS
  <2> HIDE DEF b
  <2> QED
    BY <1>1, <2>1 DEF TsxRec
<1>3. Attached(s, id, sdp) = IF T(s, id).data THEN s ELSE SetTsx(s, id, t)
  BY DEF Attached
<1> HIDE DEF t
<1>4. To({}, x, s, SetTsx(s, id, t)) /\ SetTsx(s, id, t).neg = s.neg
  BY <1>1, <1>2, DataOk, TsxSet
<1> QED
  BY <1>3, <1>4, ToSelf

LEMMA RemoteAnswerOk ==
  ASSUME NEW x, NEW s, Ok(x, s), NegState(s) = "LOCAL_OFFER", NEW id \in Tsxs(s), NEW sdp \in Sdps,
         NEW code, NEW d
  PROVE  To({}, x, s, RemoteAnswer(s, id, sdp, code, d).s)
<1> DEFINE n == SetRemoteAnswer(s.neg, sdp, "prov")
           s1 == [s EXCEPT !.neg = n]
           s2 == InvNegotiate(s1, d).s
           b == Is1xx(code)
           t == [T(s2, id) EXCEPT !.done = TRUE, !.early = b]
<1>1. s.neg \in Negs /\ s.neg.state = "LOCAL_OFFER" /\ Sound(s.st, s.neg)
  BY DEF Ok, Ses, NegState
<1>2. RemoteAnswer(s, id, sdp, code, d).s = SetTsx(s2, id, t)
  BY DEF RemoteAnswer, Pair
<1>3. n \in Negs /\ Sound(s.st, n) /\ n.state = "WAIT_NEGO"
  BY <1>1, RemoteAnswerSet
<1> HIDE DEF n
<1>4. To({}, x, s, s1) /\ s1.neg = n
  BY <1>3, NegOk
<1> HIDE DEF s1
<1>5. To({}, x, s1, s2)
  BY <1>3, <1>4, InvNegotiateOk DEF To, NegState
<1> HIDE DEF s2
<1>6. To({}, x, s, s2)
  BY <1>4, <1>5, Then
<1>7. s2 \in Ses /\ id \in Tsxs(s2) /\ Ok(x, s2)
  BY <1>6 DEF To, Ok, Goes
<1>8. T(s2, id) \in TsxRec /\ b \in BOOLEAN
  BY <1>7, TsxTyped DEF Is1xx
<1> HIDE DEF b
<1>9. t \in TsxRec /\ t.state = T(s2, id).state /\ t.code = T(s2, id).code
  BY <1>8 DEF TsxRec
<1> HIDE DEF t
<1>10. To({}, x, s2, SetTsx(s2, id, t))
  BY <1>7, <1>9, DataOk
<1> QED
  BY <1>2, <1>6, <1>10, Then

LEMMA RemoteOfferOk ==
  ASSUME NEW x, NEW s, Ok(x, s), NegState(s) \in {"NULL", "DONE"}, NEW sdp \in Sdps, NEW d
  PROVE  To({}, x, s, RemoteOffer(s, sdp, d).s)
<1> DEFINE n == IF NegState(s) = "NULL" THEN CreateWithRemoteOffer(sdp, "inv")
                                       ELSE SetRemoteOffer(s.neg, sdp, "prov")
           k == SetLocalAnswer(n, Fresh(s), "prov")
           s1 == [s EXCEPT !.neg = k]
<1>1. s \in Ses /\ s.neg \in Negs /\ Sound(s.st, s.neg)
  BY DEF Ok, Ses
<1>2. RemoteOffer(s, sdp, d).s = IF d.gives THEN Used(s1) ELSE [s EXCEPT !.neg = n]
  BY DEF RemoteOffer, Pair
<1>3. n \in Negs /\ Sound(s.st, n) /\ n.state = "REMOTE_OFFER"
  <2>1. CASE NegState(s) = "NULL"
    BY <2>1, RemoteOfferCreated
  <2>2. CASE NegState(s) = "DONE"
    BY <1>1, <2>2, RemoteOfferSet DEF NegState
  <2> QED
    BY <2>1, <2>2
<1> HIDE DEF n
<1>4. Fresh(s) \in Sdps
  BY <1>1, FreshTyped
<1>5. k \in Negs /\ Sound(s.st, k)
  BY <1>3, <1>4, LocalAnswerSet
<1> HIDE DEF k
<1>6. To({}, x, s, s1) /\ To({}, x, s, [s EXCEPT !.neg = n])
  BY <1>3, <1>5, NegOk
<1> HIDE DEF s1
<1>7. To({}, x, s1, Used(s1))
  BY <1>6, UsedOk DEF To
<1> QED
  BY <1>2, <1>6, <1>7, Then

LEMMA CheckSdpOk ==
  ASSUME NEW x, NEW s, Ok(x, s), NEW id \in Tsxs(s), NEW sdp \in Sdps, NEW code, NEW d
  PROVE  To({}, x, s, CheckSdp(s, id, sdp, code, d).s)
<1> DEFINE Taken(s2) ==
             CASE NegState(s2) \in {"NULL", "DONE"} -> RemoteOffer(s2, sdp, d)
               [] NegState(s2) = "LOCAL_OFFER" -> RemoteAnswer(s2, id, sdp, code, d)
               [] OTHER -> Pair(s2, TRUE)
           a == Attached(s, id, sdp)
           r == IF T(a, id).done THEN Reoffer(a, id) ELSE a
<1>1. CheckSdp(s, id, sdp, code, d).s \in {s, a, Taken(r).s}
  BY DEF CheckSdp, Pair
<1>2. CheckSdp(s, id, sdp, code, d).s \in {s, a} \/ (T(a, id).done => CanModifyLocalOffer(a.neg))
  BY DEF CheckSdp, Pair
<1>3. To({}, x, s, a)
  BY AttachedOk
<1> HIDE DEF a
<1>4. Ok(x, a) /\ a \in Ses /\ id \in Tsxs(a)
  BY <1>3 DEF To, Ok, Goes
<1>5. ASSUME T(a, id).done => CanModifyLocalOffer(a.neg)
      PROVE  To({}, x, a, r)
  <2>1. CASE T(a, id).done
    <3> DEFINE n == ModifyLocalOffer(a.neg, T(a, id).sdp, "prov")
    <3>1. a.neg \in Negs /\ a.neg.state = "DONE" /\ Sound(a.st, a.neg)
      BY <1>4, <1>5, <2>1 DEF Ok, Ses, CanModifyLocalOffer
    <3>2. T(a, id).sdp \in Sdps
      BY <1>4, TsxTyped DEF TsxRec
    <3>3. n \in Negs /\ Sound(a.st, n)
      BY <3>1, <3>2, LocalOfferModified
    <3>4. r = [a EXCEPT !.neg = n]
      BY <2>1 DEF Reoffer
    <3> HIDE DEF n, r
    <3> QED
      BY <1>4, <3>3, <3>4, NegOk
  <2>2. CASE ~T(a, id).done
    BY <1>4, <2>2, ToSelf
  <2> QED
    BY <2>1, <2>2
<1> HIDE DEF r
<1>6. ASSUME To({}, x, a, r)
      PROVE  To({}, x, r, Taken(r).s)
  <2>1. Ok(x, r) /\ id \in Tsxs(r)
    BY <1>4, <1>6 DEF To, Goes
  <2>2. CASE NegState(r) \in {"NULL", "DONE"}
    <3>1. To({}, x, r, RemoteOffer(r, sdp, d).s)
      BY <2>1, <2>2, RemoteOfferOk
    <3> QED
      BY <2>2, <3>1
  <2>3. CASE NegState(r) = "LOCAL_OFFER"
    <3>1. To({}, x, r, RemoteAnswer(r, id, sdp, code, d).s)
      BY <2>1, <2>3, RemoteAnswerOk
    <3>2. Taken(r) = RemoteAnswer(r, id, sdp, code, d)
      BY <2>3
    <3> QED
      BY <3>1, <3>2
  <2>4. CASE NegState(r) \notin {"NULL", "DONE", "LOCAL_OFFER"}
    <3>1. Taken(r).s = r
      BY <2>4 DEF Pair
    <3> QED
      BY <2>1, <3>1, ToSelf
  <2> QED
    BY <2>2, <2>3, <2>4
<1> HIDE DEF Taken
<1>7. CASE CheckSdp(s, id, sdp, code, d).s \in {s, a}
  BY <1>3, <1>7, ToSelf
<1>8. CASE T(a, id).done => CanModifyLocalOffer(a.neg)
  <2>1. To({}, x, a, r)
    BY <1>5, <1>8
  <2>2. To({}, x, r, Taken(r).s)
    BY <1>6, <2>1
  <2>3. To({}, x, s, r)
    BY <1>3, <2>1, Then
  <2>4. To({}, x, s, Taken(r).s)
    BY <2>2, <2>3, Then
  <2> QED
    BY <1>1, <1>3, <2>4, ToSelf
<1> QED
  BY <1>2, <1>7, <1>8

LEMMA CancelledOk ==
  ASSUME NEW x, NEW s, Ok(x, s), NegState(s) \in {"LOCAL_OFFER", "REMOTE_OFFER"}
  PROVE  To({}, x, s, Cancelled(s))
<1> DEFINE n == CancelOffer(s.neg)
<1>1. s.neg \in Negs /\ s.neg.state \in {"LOCAL_OFFER", "REMOTE_OFFER"} /\ Sound(s.st, s.neg)
  BY DEF Ok, Ses, NegState
<1>2. n \in Negs /\ Sound(s.st, n)
  BY <1>1, OfferCancelled
<1>3. Cancelled(s) = [s EXCEPT !.neg = n]
  BY DEF Cancelled
<1> HIDE DEF n
<1> QED
  BY <1>2, <1>3, NegOk

LEMMA CancelledIfOk ==
  ASSUME NEW x, NEW s, Ok(x, s), NEW S \in SUBSET {"LOCAL_OFFER", "REMOTE_OFFER"}
  PROVE  To({}, x, s, CancelledIf(s, S))
<1>1. CASE NegState(s) \in S
  <2>1. NegState(s) \in {"LOCAL_OFFER", "REMOTE_OFFER"}
    BY <1>1
  <2> QED
    BY <1>1, <2>1, CancelledOk DEF CancelledIf
<1>2. CASE NegState(s) \notin S
  BY <1>2, ToSelf DEF CancelledIf
<1> QED
  BY <1>1, <1>2

LEMMA PendingAnswerOk ==
  ASSUME NEW x, NEW s, Ok(x, s), NEW d
  PROVE  To({}, x, s, PendingAnswer(s, d).s) /\ PendingAnswer(s, d).sdp \in Sdps
<1> DEFINE r == InvNegotiate(s, d)
           t == SdpDone(r.s, s.itsx)
<1>1. CASE ~HasLocalAnswer(s.neg)
  BY <1>1, ToSelf, NoSdpTyped DEF PendingAnswer
<1>2. CASE HasLocalAnswer(s.neg)
  <2>1. NegState(s) = "WAIT_NEGO"
    BY <1>2 DEF HasLocalAnswer, NegState
  <2>2. To({}, x, s, r.s)
    BY <2>1, InvNegotiateOk
  <2>3. PendingAnswer(s, d) = IF r.ok THEN [s |-> t, sdp |-> r.s.neg.al] ELSE [s |-> r.s, sdp |-> NoSdp]
    BY <1>2 DEF PendingAnswer
  <2> HIDE DEF r
  <2>4. To({}, x, r.s, t) /\ r.s.neg.al \in Sdps
    BY <2>2, SdpDoneOk DEF To, Ok, Ses, Negs
  <2>5. To({}, x, s, t)
    BY <2>2, <2>4, Then
  <2> QED
    BY <2>2, <2>3, <2>4, <2>5, NoSdpTyped
<1> QED
  BY <1>1, <1>2

LEMMA CreateAckOk ==
  ASSUME NEW x, NEW s, Ok(x, s), Rank(s.st) >= 3, NEW c \in Nat, NEW d
  PROVE  To({}, x, s, CreateAck(s, c, d))
<1> DEFINE p == PendingAnswer(s, d)
           w == Wire(p.sdp)
<1>1. To({}, x, s, p.s) /\ p.sdp \in Sdps
  BY PendingAnswerOk
<1>2. CreateAck(s, c, d) = [p.s EXCEPT !.ackc = c, !.acksdp = w]
  BY DEF CreateAck
<1> HIDE DEF p
<1>3. w \in Sdps
  BY <1>1, WireTyped
<1> HIDE DEF w
<1>4. Rank(p.s.st) >= 3 /\ Ok(x, p.s)
  BY <1>1 DEF To, Goes, Moves, Rank
<1>5. To({}, x, p.s, [p.s EXCEPT !.ackc = c, !.acksdp = w])
  BY <1>3, <1>4, AckOk
<1> QED
  BY <1>1, <1>2, <1>5, Then

LEMMA SendAckOk ==
  ASSUME NEW x, NEW s, Ok(x, s), Rank(s.st) >= 3, NEW c \in Nat, NEW d
  PROVE  To({"confirmed"}, x, s, SendAck(s, c, d))
<1> DEFINE s1 == IF s.ackc = c THEN s ELSE CreateAck(s, c, d)
           s2 == Send(s1, "req", "ACK", c, 0, s1.acksdp)
<1>1. To({}, x, s, s1)
  BY CreateAckOk, ToSelf
<1>2. SendAck(s, c, d) = IF s.st \in {"confirmed", "disconnected"} THEN s2 ELSE SetState(s2, "confirmed")
  BY DEF SendAck
<1> HIDE DEF s1
<1>3. Rank(s1.st) >= 3 /\ Ok(x, s1) /\ s1.acksdp \in Sdps
  BY <1>1 DEF To, Goes, Moves, Rank, Ok, Ses
<1>4. To({}, x, s1, s2)
  <2> DEFINE r == [kind |-> "req", to |-> Peer(s1.me), m |-> "ACK", c |-> c, code |-> 0, sdp |-> Wire(s1.acksdp)]
  <2>1. Wire(s1.acksdp) \in WireSdps
    BY <1>3, WireTyped
  <2>2. Vouched(r, s1.st)
    BY <1>3 DEF Vouched
  <2>3. r = [kind |-> "req", to |-> Peer(s1.me), m |-> "ACK", c |-> c, code |-> 0, sdp |-> Wire(s1.acksdp)]
    OBVIOUS
  <2>4. "req" \in {"req", "rsp"} /\ 0 \in Codes /\ "ACK" \in Methods
    BY DEF Codes, Methods
  <2> HIDE DEF r
  <2> QED
    BY <1>3, <2>1, <2>2, <2>3, <2>4, SendOk
<1> HIDE DEF s2
<1>5. To({}, x, s, s2)
  BY <1>1, <1>4, Then
<1>6. CASE s.st \in {"confirmed", "disconnected"}
  BY <1>2, <1>5, <1>6, Quietly
<1>7. CASE s.st \notin {"confirmed", "disconnected"}
  <2>1. Ok(x, s2) /\ Rank(s2.st) <= Rank("confirmed")
    <3>1. s.st \in States /\ s2.st = s.st
      BY <1>5 DEF To, Goes, Moves, Ok, Ses
    <3> QED
      BY <1>5, <1>7, <3>1 DEF To, Rank, States
  <2>2. To({"confirmed"}, x, s2, SetState(s2, "confirmed"))
    BY <2>1, SetStateOk
  <2> QED
    BY <1>2, <1>5, <1>7, <2>2, Then, Quietly
<1> QED
  BY <1>6, <1>7

-----------------------------------------------------------------------------
(* Responding to requests. *)

(* The state a response to the INVITE that is pending takes a session to. *)
Answering(st, code) ==
    IF st \notin {"incoming", "early"} \/ code = 100 THEN st
    ELSE IF code < 200 THEN "early" ELSE IF code < 300 THEN "connecting" ELSE "disconnected"

LEMMA AnswerSentIs ==
  ASSUME NEW s \in Ses, s.st # "null", NEW code \in Codes, code >= 100
  PROVE  /\ AnswerSent(s, code) \in Ses
         /\ AnswerSent(s, code).st = Answering(s.st, code)
         /\ AnswerSent(s, code).me = s.me /\ AnswerSent(s, code).neg = s.neg
         /\ AnswerSent(s, code).itsx = s.itsx /\ AnswerSent(s, code).tsx = s.tsx
         /\ AnswerSent(s, code).out = s.out /\ AnswerSent(s, code).ackc = s.ackc
<1> DEFINE n == Answering(s.st, code)
           c == IF code < 300 THEN s ELSE SetCause(s, code)
<1>1. code \in Nat
  BY DEF Codes
<1>2. [s EXCEPT !.cause = code] \in Ses
  BY <1>1, Zenon DEF Ses
<1>3. /\ c \in Ses /\ c.st = s.st /\ c.me = s.me /\ c.neg = s.neg /\ c.itsx = s.itsx
      /\ c.tsx = s.tsx /\ c.out = s.out /\ c.ackc = s.ackc
  BY <1>2 DEF SetCause, Ses
<1>4. AnswerSent(s, code) = IF s.st \notin {"incoming", "early"} \/ code = 100 THEN s ELSE [c EXCEPT !.st = n]
  <2>1. CASE s.st \notin {"incoming", "early"} \/ code = 100
    BY <2>1 DEF AnswerSent
  <2>2. CASE s.st \in {"incoming", "early"} /\ code # 100
    <3>1. (CASE code = 100   -> "incoming"
             [] code \in 101 .. 199 -> "early"
             [] Is2xx(code)  -> "connecting"
             [] OTHER        -> "disconnected") = n
      BY <1>1, <2>2 DEF Is2xx, Answering
    <3>2. n # "confirmed"
      BY <2>2 DEF Answering
    <3>3. AnswerSent(s, code) = SetState(c, n)
      BY <2>2, <3>1 DEF AnswerSent
    <3> HIDE DEF n, c
    <3>4. SetState(c, n) = [c EXCEPT !.st = n]
      BY <3>2 DEF SetState
    <3> QED
      BY <2>2, <3>3, <3>4
  <2> QED
    BY <2>1, <2>2
<1> HIDE DEF c
<1>5. n \in States
  BY DEF Answering, States, Ses
<1>6. s.st \notin {"incoming", "early"} \/ code = 100 => n = s.st
  BY DEF Answering
<1> HIDE DEF n
<1>7. [c EXCEPT !.st = n] \in Ses
  BY <1>3, <1>5, Zenon DEF Ses
<1> QED
  BY <1>3, <1>4, <1>6, <1>7 DEF Ses, n

LEMMA RespondOk ==
  ASSUME NEW x, NEW s, Ok(x, s), NEW id \in Tsxs(s), RoleOf(id) = "uas",
         NEW code \in Codes, code >= 100, NEW sdp \in Sdps,
         MethodOf(id) = "INVITE" /\ code \in 101 .. 299
           => Rank(s.st) >= 3 \/ (id = s.itsx /\ s.st \in {"incoming", "early"})
  PROVE  /\ To({"early", "connecting", "disconnected"}, x, s, Respond(s, id, code, sdp))
         /\ code >= 300 => To({"disconnected"}, x, s, Respond(s, id, code, sdp))
         /\ id # s.itsx \/ Rank(s.st) >= 3 \/ code = 100 => To({}, x, s, Respond(s, id, code, sdp))
<1> DEFINE w == Wire(sdp)
           ts == IF Is1xx(code) THEN "proceeding" ELSE "completed"
           t == [T(s, id) EXCEPT !.state = ts, !.code = code, !.sdp = w]
           s1 == SetTsx(s, id, t)
           r == [kind |-> "rsp", to |-> Peer(s1.me), m |-> MethodOf(id), c |-> CSeqOf(id), code |-> code, sdp |-> w]
           o == s1.out \cup {r}
           s2 == [s1 EXCEPT !.out = o]
           n == IF id = s.itsx THEN Answering(s.st, code) ELSE s.st
           u == Respond(s, id, code, sdp)
<1>1. s \in Ses /\ id \in Ids /\ T(s, id) \in TsxRec /\ code \in Nat /\ s.st \in States /\ s.st # "null"
  BY TsxTyped DEF Ok, Ses, Codes, Placed
<1>2. w \in WireSdps /\ w \in Sdps
  BY WireTyped
<1>3. ts \in TsxStates /\ (ts = "completed" => code >= 200) /\ ts # "terminated"
  BY <1>1 DEF TsxStates, Is1xx
<1>4. u = IF id = s.itsx THEN AnswerSent(s2, code) ELSE s2
  BY DEF Respond, Send
<1> HIDE DEF w, ts
<1>5. t \in TsxRec
  BY <1>1, <1>2, <1>3, Zenon DEF TsxRec
<1>6. t.state = ts /\ t.code = code
  BY <1>1 DEF TsxRec
<1> HIDE DEF t
<1>7. /\ s1 \in Ses
      /\ s1.me = s.me /\ s1.st = s.st /\ s1.neg = s.neg /\ s1.itsx = s.itsx
      /\ s1.out = s.out /\ s1.ackc = s.ackc
      /\ T(s1, id) = t
      /\ \A i \in Tsxs(s) : i # id => T(s1, i) = T(s, i)
  BY <1>1, <1>5, TsxSet
<1>8. Tsxs(s1) = Tsxs(s)
  <2>1. Tsxs(s1) = Tsxs(s) \cup {id}
    BY <1>1, <1>5, TsxSet
  <2> QED
    BY <2>1
<1> HIDE DEF s1
<1>9. r \in Msgs /\ r.to = Peer(s.me)
  BY <1>1, <1>2, <1>7, IdParts DEF Msgs, Ses, Agents, Peer
<1>10. r.kind = "rsp" /\ r.m = MethodOf(id) /\ r.c = CSeqOf(id) /\ r.code = code
  OBVIOUS
<1> HIDE DEF r
<1>11. o \in SUBSET Msgs /\ o = s.out \cup {r}
  BY <1>7, <1>9 DEF Ses
<1> HIDE DEF o
<1>12. s2 \in Ses
  BY <1>7, <1>11, Zenon DEF Ses
<1>13. /\ s2.me = s.me /\ s2.st = s.st /\ s2.neg = s.neg /\ s2.itsx = s.itsx
       /\ s2.out = o /\ s2.ackc = s.ackc /\ s2.tsx = s1.tsx
  BY <1>7 DEF Ses
<1> HIDE DEF s2
<1>14. /\ u \in Ses /\ u.st = n /\ u.me = s.me /\ u.neg = s.neg /\ u.itsx = s.itsx
       /\ u.out = o /\ u.ackc = s.ackc /\ u.tsx = s1.tsx
  <2>1. CASE id = s.itsx
    BY <1>1, <1>4, <1>12, <1>13, <2>1, AnswerSentIs
  <2>2. CASE id # s.itsx
    BY <1>4, <1>12, <1>13, <2>2
  <2> QED
    BY <2>1, <2>2
<1> HIDE DEF u
<1>15. /\ Tsxs(u) = Tsxs(s) /\ T(u, id) = t
       /\ \A i \in Tsxs(s) : i # id => T(u, i) = T(s, i)
  BY <1>7, <1>8, <1>14 DEF Tsxs, T
<1>16. /\ n \in States /\ n # "null" /\ (n = s.st \/ Rank(n) > Rank(s.st))
       /\ n \in {s.st, "early", "connecting", "disconnected"}
       /\ code >= 300 => n \in {s.st, "disconnected"}
       /\ id # s.itsx \/ Rank(s.st) >= 3 \/ code = 100 => n = s.st
  BY <1>1 DEF Answering, Rank, States
<1>17. id = s.itsx /\ code >= 200 => Rank(n) >= 3
  <2>1. id = s.itsx /\ s.st \in {"calling", "incoming", "early"} => Role(s) = "uas"
    BY DEF Ok, Placed
  <2>2. s.st = "calling" => s.me = Caller
    BY <1>1 DEF Ok, Placed, Ses, Agents
  <2> QED
    BY <1>1, <2>1, <2>2 DEF Answering, Rank, States, Role
<1>18. id = s.itsx /\ s.st \in {"incoming", "early"} /\ code \in 101 .. 299 => Rank(n) >= 2 /\ (code >= 200 => Rank(n) >= 3)
  BY <1>1 DEF Answering, Rank
<1>19. Rank(n) >= Rank(s.st) /\ Rank(n) \in Nat /\ Rank(s.st) \in Nat
  BY <1>16, RankRange
<1> HIDE DEF n
<1>20. Placed(u)
  <2>1. n \in {"calling", "incoming", "early"} => s.st \in {"calling", "incoming", "early"}
    BY <1>1, <1>19 DEF Rank, States
  <2>2. (n = "incoming" => s.st = "incoming") /\ (n = "calling" => s.st = "calling")
    BY <1>16
  <2> QED
    BY <1>14, <1>15, <1>16, <1>19, <2>1, <2>2 DEF Ok, Placed, Role
<1>21. Tracked(x, u)
  <2>1. u.itsx # NoTsx /\ u.itsx # x /\ T(u, u.itsx).state \in {"completed", "terminated"} => Rank(u.st) >= 3
    <3>1. CASE id = s.itsx
      BY <1>3, <1>6, <1>14, <1>15, <1>17, <3>1
    <3>2. CASE id # s.itsx
      BY <1>14, <1>15, <1>16, <3>2 DEF Ok, Placed, Tracked
    <3> QED
      BY <3>1, <3>2
  <2>2. ASSUME NEW i \in Tsxs(u), MethodOf(i) = "INVITE"
        PROVE  /\ CSeqOf(i) # 0
               /\ T(u, i).state = "completed" /\ Is2xx(T(u, i).code) => RoleOf(i) = "uas" /\ Rank(u.st) >= 3
    <3>1. CSeqOf(i) # 0
      BY <1>15, <2>2 DEF Ok, Tracked
    <3>2. CASE i = id
      <4>1. Is2xx(code) => code \in 101 .. 299 /\ code >= 200
        BY <1>1 DEF Is2xx
      <4>2. Is2xx(code) => Rank(n) >= 3
        BY <1>16, <1>18, <2>2, <3>2, <4>1
      <4> QED
        BY <1>6, <1>14, <1>15, <3>1, <3>2, <4>2
    <3>3. CASE i # id
      BY <1>14, <1>15, <1>19, <2>2, <3>1, <3>3 DEF Ok, Tracked
    <3> QED
      BY <3>2, <3>3
  <2> QED
    BY <2>1, <2>2 DEF Tracked
<1>22. Sending(u)
  <2>1. Vouched(r, n)
    <3>1. MethodOf(id) = "INVITE" => CSeqOf(id) # 0
      BY DEF Ok, Tracked
    <3>2. MethodOf(id) = "INVITE" /\ code \in 101 .. 299 => Rank(n) >= 2 /\ (code >= 200 => Rank(n) >= 3)
      BY <1>16, <1>18, <1>19
    <3> QED
      BY <1>1, <1>10, <3>1, <3>2 DEF Vouched, Is2xx
  <2>2. \A m \in s.out : m.to = Peer(s.me) /\ Vouched(m, n)
    BY <1>19 DEF Ok, Sending, Vouched
  <2> QED
    BY <1>9, <1>11, <1>14, <2>1, <2>2 DEF Sending
<1>23. Sound(u.st, u.neg)
  <2>1. Pooled(s.neg) => NoneFreed(s.neg)
    BY PooledNone
  <2>2. s.st = "disconnected" => n = "disconnected"
    BY <1>16, <1>19 DEF Rank, States
  <2> QED
    BY <1>14, <2>1, <2>2 DEF Ok, Sound
<1>24. Ok(x, u)
  BY <1>14, <1>20, <1>21, <1>22, <1>23 DEF Ok
<1>25. ASSUME NEW i \in Tsxs(s)
       PROVE  /\ i \in Tsxs(u)
              /\ RoleOf(i) = "uac" /\ MethodOf(i) = "INVITE"
                  => T(u, i).state = T(s, i).state /\ T(u, i).code = T(s, i).code
  BY <1>15, <1>25
<1> QED
  BY <1>14, <1>16, <1>24, <1>25 DEF To, Goes, Moves, u

LEMMA ProcessAnswerOk ==
  ASSUME NEW x, NEW s, Ok(x, s), NEW code, NEW d
  PROVE  To({}, x, s, ProcessAnswer(s, code, d).s) /\ ProcessAnswer(s, code, d).sdp \in Sdps
<1> DEFINE r == InvNegotiate(s, d)
           t == SdpDone(r.s, s.itsx)
           p == ProcessAnswer(s, code, d)
           negotiated == IF r.ok THEN [s |-> t, ok |-> TRUE, sdp |-> r.s.neg.al]
                                 ELSE [s |-> r.s, ok |-> FALSE, sdp |-> NoSdp]
           k == CancelledIf(s, {"REMOTE_OFFER"})
<1>1. \/ p = [s |-> s, ok |-> TRUE, sdp |-> s.neg.nl]
      \/ HasLocalAnswer(s.neg) /\ p = negotiated
      \/ p = [s |-> k, ok |-> TRUE, sdp |-> NoSdp]
      \/ p = [s |-> s, ok |-> TRUE, sdp |-> NoSdp]
  BY DEF ProcessAnswer
<1> HIDE DEF p
<1>2. To({}, x, s, s) /\ s.neg.nl \in Sdps
  BY ToSelf DEF Ok, Ses, Negs
<1>3. To({}, x, s, k)
  BY CancelledIfOk
<1>4. ASSUME HasLocalAnswer(s.neg)
      PROVE  To({}, x, s, negotiated.s) /\ negotiated.sdp \in Sdps
  <2>1. NegState(s) = "WAIT_NEGO"
    BY <1>4 DEF HasLocalAnswer, NegState
  <2>2. To({}, x, s, r.s)
    BY <2>1, InvNegotiateOk
  <2> HIDE DEF r
  <2>3. To({}, x, r.s, t) /\ r.s.neg.al \in Sdps
    BY <2>2, SdpDoneOk DEF To, Ok, Ses, Negs
  <2>4. To({}, x, s, t)
    BY <2>2, <2>3, Then
  <2> QED
    BY <2>2, <2>3, <2>4, NoSdpTyped
<1> HIDE DEF negotiated, k
<1> QED
  BY <1>1, <1>2, <1>3, <1>4, NoSdpTyped DEF p

Answers == {"early", "connecting", "disconnected"}

LEMMA AnswerOk ==
  ASSUME NEW x, NEW s, Ok(x, s), s.me = Callee, s.st \in {"incoming", "early"},
         NEW code \in Codes, code >= 100, NEW d
  PROVE  To(Answers, x, s, Answer(s, code, d))
<1> DEFINE p == ProcessAnswer(s, code, d)
           b == IF code >= 300 THEN NoSdp ELSE IF p.sdp # NoSdp THEN Wire(p.sdp) ELSE s.last
           q == [p.s EXCEPT !.last = b]
<1>1. To({}, x, s, p.s) /\ p.sdp \in Sdps
  BY ProcessAnswerOk
<1>2. Answer(s, code, d) = IF p.ok THEN Respond(q, s.itsx, code, b) ELSE p.s
  BY DEF Answer
<1> HIDE DEF p
<1>3. s.last \in Sdps /\ s.itsx \in Tsxs(s) /\ RoleOf(s.itsx) = "uas"
  BY DEF Ok, Ses, Placed, Role, Caller, Callee
<1>4. b \in Sdps
  BY <1>1, <1>3, WireTyped, NoSdpTyped
<1> HIDE DEF b
<1>5. To({}, x, p.s, q)
  BY <1>1, <1>4, LastOk DEF To
<1> HIDE DEF q
<1>6. To({}, x, s, q)
  BY <1>1, <1>5, Then
<1>7. Ok(x, q) /\ q.itsx = s.itsx /\ q.st = s.st /\ s.itsx \in Tsxs(q)
  BY <1>3, <1>6 DEF To, Goes, Moves
<1>8. To(Answers, x, q, Respond(q, s.itsx, code, b))
  BY <1>3, <1>4, <1>7, RespondOk DEF Answers
<1>9. To(Answers, x, s, q) /\ To(Answers, x, s, p.s)
  BY <1>1, <1>6, Quietly
<1> QED
  BY <1>2, <1>8, <1>9, Then

LEMMA LimitOk ==
  ASSUME NEW x, NEW s, Ok(x, s), NEW id \in Tsxs(s), NEW t \in TsxRec,
         t.state = T(s, id).state, t.code = T(s, id).code
  PROVE  To({}, x, s, SetTsx(s, id, [t EXCEPT !.limit = TRUE]))
<1> DEFINE u == [t EXCEPT !.limit = TRUE]
<1>1. u \in TsxRec /\ u.state = t.state /\ u.code = t.code
  BY DEF TsxRec
<1> HIDE DEF u
<1>2. To({}, x, s, SetTsx(s, id, u))
  BY <1>1, DataOk
<1> QED
  BY <1>2 DEF u

LEMMA EndSessionOk ==
  ASSUME NEW x, NEW s, Ok(x, s), NEW code \in Codes, code >= 100, NEW d
  PROVE  /\ To(Answers, x, s, EndSession(s, code, d))
         /\ s.me = Caller => To({}, x, s, EndSession(s, code, d))
<1> DEFINE s1 == SetCause(s, code)
           e  == EndSession(s, code, d)
           t  == T(s, s.itsx)
           l  == SetTsx(s1, s.itsx, [t EXCEPT !.limit = TRUE])
<1>1. s \in Ses /\ s.st \in States /\ s.me \in Agents /\ code \in Nat
  BY DEF Ok, Ses, Codes
<1>2. To({}, x, s, s1)
  BY <1>1, SetCauseOk
<1>3. s1.tsx = s.tsx /\ s1.me = s.me /\ s1.st = s.st
  BY <1>1 DEF SetCause, Ses
<1>a. e = CASE s.st \in {"calling", "early"} /\ Role(s) = "uac" ->
                 IF t.code < 100 THEN [s1 EXCEPT !.pcancel = TRUE] ELSE SendCancel(l)
          [] s.st \in {"incoming", "early"} /\ Role(s) = "uas" -> Answer(s1, code, d)
          [] s.st \in {"connecting", "confirmed"} -> SendBye(s1)
          [] OTHER -> s1
  BY DEF EndSession
<1> HIDE DEF s1
<1>4. CASE s.st \in {"calling", "early"} /\ Role(s) = "uac"
  <2>1. s.itsx \in Tsxs(s) /\ s.itsx \in Tsxs(s1) /\ t \in TsxRec /\ t = T(s1, s.itsx)
    BY <1>1, <1>2, <1>3, <1>4, TsxTyped DEF Ok, Placed, Tsxs, T
  <2> HIDE DEF t
  <2>2. To({}, x, s1, l)
    BY <1>2, <2>1, LimitOk DEF To
  <2> HIDE DEF l
  <2>3. To({}, x, l, SendCancel(l))
    BY <2>2, SendCancelOk DEF To
  <2>4. To({}, x, s1, [s1 EXCEPT !.pcancel = TRUE])
    BY <1>2, CancelFlagOk DEF To
  <2>5. To({}, x, s, l)
    BY <1>2, <2>2, Then
  <2>6. To({}, x, s, SendCancel(l)) /\ To({}, x, s, [s1 EXCEPT !.pcancel = TRUE])
    BY <1>2, <2>3, <2>4, <2>5, Then
  <2>7. e \in {[s1 EXCEPT !.pcancel = TRUE], SendCancel(l)}
    BY <1>a, <1>4
  <2> HIDE DEF e
  <2>8. To({}, x, s, e)
    BY <2>6, <2>7
  <2> QED
    BY <2>8, Quietly DEF e
<1>5. CASE s.st \in {"incoming", "early"} /\ Role(s) = "uas"
  <2>1. s.me = Callee
    BY <1>1, <1>5 DEF Role, Agents
  <2>2. e = Answer(s1, code, d)
    BY <1>a, <1>5
  <2>3. To(Answers, x, s1, Answer(s1, code, d))
    BY <1>2, <1>3, <1>5, <2>1, AnswerOk DEF To
  <2>4. To(Answers, x, s, Answer(s1, code, d))
    BY <1>2, <2>3, Then, Quietly
  <2> QED
    BY <2>1, <2>2, <2>4 DEF Caller, Callee
<1>6. CASE s.st \in {"connecting", "confirmed"}
  <2>1. e = SendBye(s1)
    BY <1>a, <1>6
  <2>2. To({}, x, s1, SendBye(s1))
    BY <1>2, SendByeOk DEF To
  <2>3. To({}, x, s, SendBye(s1))
    BY <1>2, <2>2, Then
  <2> QED
    BY <2>1, <2>3, Quietly
<1>7. CASE /\ ~(s.st \in {"calling", "early"} /\ Role(s) = "uac")
           /\ ~(s.st \in {"incoming", "early"} /\ Role(s) = "uas")
           /\ s.st \notin {"connecting", "confirmed"}
  <2>1. e = s1
    BY <1>a, <1>7
  <2> QED
    BY <1>2, <2>1, Quietly
<1> QED
  BY <1>4, <1>5, <1>6, <1>7

Over == {"disconnected"}

LEMMA RespondByeOk ==
  ASSUME NEW x, NEW s, Ok(x, s), NEW id \in Tsxs(s), RoleOf(id) = "uas", MethodOf(id) = "BYE"
  PROVE  To(Over, x, s, RespondBye(s, id))
<1> DEFINE r == Respond(s, id, 200, NoSdp)
<1>1. id # s.itsx
  BY IdParts DEF Ok, Placed, NoTsx, MethodOf
<1>2. 200 \in Codes
  BY DEF Codes
<1>3. To({}, x, s, r)
  BY <1>1, <1>2, RespondOk, NoSdpTyped
<1>4. RespondBye(s, id) \in {r, Disconnect(r, 200)}
  BY DEF RespondBye
<1> HIDE DEF r
<1>5. To(Over, x, r, Disconnect(r, 200))
  BY <1>3, DisconnectOk DEF To, Over
<1>6. To(Over, x, s, r)
  BY <1>3, Quietly
<1>7. To(Over, x, s, Disconnect(r, 200))
  BY <1>5, <1>6, Then
<1> QED
  BY <1>4, <1>6, <1>7

LEMMA RespondEarlyByeOk ==
  ASSUME NEW x, NEW s, Ok(x, s), s.st = "early", NEW id \in Tsxs(s), RoleOf(id) = "uas", MethodOf(id) = "BYE"
  PROVE  To(Over, x, s, RespondEarlyBye(s, id))
<1> DEFINE t == T(s, s.itsx)
           r == RespondBye(s, id)
           l == SetTsx(r, s.itsx, [t EXCEPT !.limit = TRUE])
           n == Respond(r, s.itsx, 487, NoSdp)
<1>1. To(Over, x, s, r)
  BY RespondByeOk
<1>2. RespondEarlyBye(s, id) = CASE RoleOf(s.itsx) = "uac" -> l
                                 [] RoleOf(s.itsx) = "uas" /\ t.code < 200 -> n
                                 [] OTHER -> r
  BY DEF RespondEarlyBye
<1>3. s \in Ses /\ s.itsx \in Tsxs(s) /\ MethodOf(s.itsx) = "INVITE" /\ RoleOf(s.itsx) \in {"uac", "uas"}
  BY TsxTyped, IdParts DEF Ok, Placed
<1> HIDE DEF r
<1>4. Ok(x, r) /\ s.itsx \in Tsxs(r)
  BY <1>1, <1>3 DEF To, Goes
<1>5. CASE RoleOf(s.itsx) = "uac"
  <2>1. t \in TsxRec /\ t.state = T(r, s.itsx).state /\ t.code = T(r, s.itsx).code
    BY <1>1, <1>3, <1>5, TsxTyped DEF To, Goes
  <2> HIDE DEF t
  <2>2. To({}, x, r, l)
    BY <1>4, <2>1, LimitOk
  <2>3. To(Over, x, s, l)
    BY <1>1, <2>2, Then, Quietly
  <2> QED
    BY <1>2, <1>5, <2>3
<1>6. CASE RoleOf(s.itsx) = "uas"
  <2>1. 487 \in Codes
    BY DEF Codes
  <2>2. To(Over, x, r, n)
    BY <1>4, <1>6, <2>1, RespondOk, NoSdpTyped DEF Over
  <2>3. To(Over, x, s, n)
    BY <1>1, <2>2, Then
  <2>4. RespondEarlyBye(s, id) \in {n, r}
    BY <1>2, <1>6
  <2> QED
    BY <1>1, <2>3, <2>4
<1> QED
  BY <1>3, <1>5, <1>6

LEMMA RespondCancelOk ==
  ASSUME NEW x, NEW s, Ok(x, s), NEW id \in Tsxs(s), RoleOf(id) = "uas", MethodOf(id) = "CANCEL",
         TsxId("uas", "INVITE", CSeqOf(id)) \in Tsxs(s)
  PROVE  To(Over, x, s, RespondCancel(s, id))
<1> DEFINE invite == TsxId("uas", "INVITE", CSeqOf(id))
           r == Respond(s, id, 200, NoSdp)
           n == Respond(r, invite, 487, NoSdp)
<1>1. RespondCancel(s, id) \in {r, n}
  BY DEF RespondCancel
<1>2. RoleOf(invite) = "uas"
  BY DEF RoleOf, TsxId
<1> HIDE DEF invite
<1>3. 200 \in Codes /\ 487 \in Codes /\ id # s.itsx
  BY DEF Codes, Ok, Placed, NoTsx, MethodOf
<1>4. To({}, x, s, r)
  BY <1>3, RespondOk, NoSdpTyped
<1> HIDE DEF r
<1>5. Ok(x, r) /\ invite \in Tsxs(r)
  BY <1>4 DEF To, Goes, invite
<1>6. To(Over, x, r, n)
  BY <1>2, <1>3, <1>5, RespondOk, NoSdpTyped DEF Over
<1>7. To(Over, x, s, r)
  BY <1>4, Quietly
<1> QED
  BY <1>1, <1>6, <1>7, Then

LEMMA RespondUpdateOk ==
  ASSUME NEW x, NEW s, Ok(x, s), NEW id \in Tsxs(s), RoleOf(id) = "uas", MethodOf(id) = "UPDATE",
         NEW sdp \in Sdps, NEW d
  PROVE  To({}, x, s, RespondUpdate(s, id, sdp, d))
<1>1. 200 \in Codes /\ 488 \in Codes /\ 491 \in Codes /\ 500 \in Codes
  BY DEF Codes
<1>2. id # s.itsx
  BY DEF Ok, Placed, NoTsx, MethodOf
<1> DEFINE k == CheckSdp(s, id, sdp, 0, d).s
           n == IF NegState(k) = "WAIT_NEGO" THEN InvNegotiate(k, d) ELSE Pair(k, FALSE)
           c == CancelledIf(n.s, {"LOCAL_OFFER", "REMOTE_OFFER"})
           yes == Respond(n.s, id, 200, n.s.neg.al)
           no  == Respond(c, id, 488, NoSdp)
<1>3. To({}, x, s, k)
  BY CheckSdpOk
<1>4. RespondUpdate(s, id, sdp, d) \in {Respond(s, id, 491, NoSdp), Respond(s, id, 500, NoSdp), yes, no}
  BY DEF RespondUpdate
<1> HIDE DEF k
<1>5. To({}, x, k, n.s)
  <2>1. CASE NegState(k) = "WAIT_NEGO"
    BY <1>3, <2>1, InvNegotiateOk DEF To
  <2>2. CASE NegState(k) # "WAIT_NEGO"
    BY <1>3, <2>2, ToSelf DEF To, Pair
  <2> QED
    BY <2>1, <2>2
<1> HIDE DEF n
<1>6. To({}, x, s, n.s)
  BY <1>3, <1>5, Then
<1>7. Ok(x, n.s) /\ n.s.itsx = s.itsx /\ id \in Tsxs(n.s) /\ n.s.neg.al \in Sdps
  BY <1>6 DEF To, Goes, Ok, Ses, Negs
<1>8. To({}, x, n.s, yes)
  BY <1>1, <1>2, <1>7, RespondOk
<1>9. To({}, x, n.s, c)
  BY <1>7, CancelledIfOk
<1> HIDE DEF c
<1>10. To({}, x, s, c)
  BY <1>6, <1>9, Then
<1>11. Ok(x, c) /\ c.itsx = s.itsx /\ id \in Tsxs(c)
  BY <1>10 DEF To, Goes
<1>12. To({}, x, c, no)
  BY <1>1, <1>2, <1>11, RespondOk, NoSdpTyped
<1>13. To({}, x, s, yes) /\ To({}, x, s, no)
  BY <1>6, <1>8, <1>10, <1>12, Then
<1>14. To({}, x, s, Respond(s, id, 491, NoSdp)) /\ To({}, x, s, Respond(s, id, 500, NoSdp))
  BY <1>1, <1>2, RespondOk, NoSdpTyped
<1> QED
  BY <1>4, <1>13, <1>14

LEMMA ReinviteOfferOk ==
  ASSUME NEW x, NEW s, Ok(x, s), Rank(s.st) >= 3, NEW id \in Tsxs(s), RoleOf(id) = "uas",
         NEW sdp \in Sdps, NEW d
  PROVE  To({}, x, s, ReinviteOffer(s, id, sdp, d))
<1>1. 200 \in Codes /\ 488 \in Codes /\ 500 \in Codes
  BY DEF Codes
<1> DEFINE k == CheckSdp(s, id, sdp, 0, d)
           c == CancelledIf(k.s, {"REMOTE_OFFER"})
           p == ProcessAnswer(k.s, 200, d)
           no == Respond(c, id, 488, NoSdp)
           reply == Respond(p.s, id, IF p.ok THEN 200 ELSE 500, p.sdp)
<1>2. To({}, x, s, k.s)
  BY CheckSdpOk
<1>3. ReinviteOffer(s, id, sdp, d) = IF k.ok THEN reply ELSE no
  BY DEF ReinviteOffer
<1> HIDE DEF k
<1>4. To({}, x, k.s, c) /\ To({}, x, k.s, p.s) /\ p.sdp \in Sdps
  BY <1>2, CancelledIfOk, ProcessAnswerOk DEF To
<1> HIDE DEF c, p
<1>5. To({}, x, s, c) /\ To({}, x, s, p.s)
  BY <1>2, <1>4, Then
<1>6. /\ Ok(x, c) /\ Rank(c.st) >= 3 /\ id \in Tsxs(c)
      /\ Ok(x, p.s) /\ Rank(p.s.st) >= 3 /\ id \in Tsxs(p.s)
  BY <1>5 DEF To, Goes, Moves
<1>7. To({}, x, c, no)
  BY <1>1, <1>6, RespondOk, NoSdpTyped
<1>8. To({}, x, p.s, reply)
  <2>1. (IF p.ok THEN 200 ELSE 500) \in Codes /\ (IF p.ok THEN 200 ELSE 500) >= 100
    BY <1>1
  <2> QED
    BY <1>4, <1>6, <2>1, RespondOk
<1>9. To({}, x, s, no) /\ To({}, x, s, reply)
  BY <1>5, <1>7, <1>8, Then
<1> QED
  BY <1>3, <1>9

LEMMA ReinviteNoOfferOk ==
  ASSUME NEW x, NEW s, Ok(x, s), Rank(s.st) >= 3, NegState(s) = "DONE",
         NEW id \in Tsxs(s), RoleOf(id) = "uas", NEW d
  PROVE  To({}, x, s, ReinviteNoOffer(s, id, d))
<1>1. 200 \in Codes /\ 500 \in Codes
  BY DEF Codes
<1> DEFINE n == IF d.new THEN ModifyLocalOffer(s.neg, Fresh(s), "prov") ELSE SendLocalOffer(s.neg, "prov")
           s1 == [s EXCEPT !.neg = n, !.bodies = IF d.new THEN @ + 1 ELSE @]
           m == [s EXCEPT !.neg = n]
           u == IF d.new THEN Used(m) ELSE m
           yes == Respond(u, id, 200, n.nl)
<1>2. s \in Ses /\ s.neg \in Negs /\ s.neg.state = "DONE" /\ Sound(s.st, s.neg)
  BY DEF Ok, Ses, NegState
<1>3. Fresh(s) \in Sdps
  BY <1>2, FreshTyped
<1>4. n \in Negs /\ Sound(s.st, n)
  BY <1>2, <1>3, LocalOfferModified, LocalOfferSent
<1>5. s1 = u
  BY <1>2 DEF Used, Ses
<1>6. ReinviteNoOffer(s, id, d) \in {Respond(s1, id, 200, n.nl), Respond(s, id, 500, NoSdp)}
  BY DEF ReinviteNoOffer
<1> HIDE DEF n, s1
<1>7. To({}, x, s, m)
  BY <1>4, NegOk
<1> HIDE DEF m
<1>8. To({}, x, m, u)
  BY <1>7, UsedOk, ToSelf DEF To
<1> HIDE DEF u
<1>9. To({}, x, s, u)
  BY <1>7, <1>8, Then
<1>10. Ok(x, u) /\ Rank(u.st) >= 3 /\ id \in Tsxs(u) /\ n.nl \in Sdps
  BY <1>4, <1>9 DEF To, Goes, Moves, Negs
<1>11. To({}, x, u, yes)
  BY <1>1, <1>10, RespondOk
<1>12. To({}, x, s, yes)
  BY <1>9, <1>11, Then
<1>13. To({}, x, s, Respond(s, id, 500, NoSdp))
  BY <1>1, RespondOk, NoSdpTyped
<1> QED
  BY <1>5, <1>6, <1>12, <1>13

LEMMA ItsxOk ==
  ASSUME NEW x, NEW s, Ok(x, s), Rank(s.st) >= 3, NEW id \in Tsxs(s), MethodOf(id) = "INVITE"
  PROVE  LET t == [s EXCEPT !.itsx = id] IN
         /\ Ok(x, t) /\ Moves({}, s, t) /\ Tsxs(t) = Tsxs(s) /\ t.neg = s.neg
<1> DEFINE t == [s EXCEPT !.itsx = id]
<1>1. s \in Ses /\ id \in Ids /\ id # NoTsx
  BY TsxTyped, IdParts DEF Ok
<1>2. id \in Ids \cup {NoTsx}
  BY <1>1
<1>3. t \in Ses
  BY <1>1, <1>2, Zenon DEF Ses
<1>4. /\ t.me = s.me /\ t.st = s.st /\ t.neg = s.neg /\ t.itsx = id
      /\ t.tsx = s.tsx /\ t.out = s.out /\ t.ackc = s.ackc
  BY <1>1 DEF Ses
<1> HIDE DEF t
<1>5. Placed(t)
  <2>1. s.st \notin {"calling", "incoming", "early"}
    BY DEF Rank
  <2> QED
    BY <1>4, <2>1 DEF Ok, Placed, Tsxs, Role
<1>6. Tracked(x, t)
  BY <1>4 DEF Ok, Tracked, Tsxs, T
<1>7. Sending(t) /\ Sound(t.st, t.neg)
  BY <1>4 DEF Ok, Sending
<1> QED
  BY <1>3, <1>4, <1>5, <1>6, <1>7 DEF Ok, Moves, Tsxs, t

LEMMA RespondReinviteOk ==
  ASSUME NEW x, NEW s, Ok(x, s), Rank(s.st) >= 3, NEW id \in Tsxs(s),
         RoleOf(id) = "uas", MethodOf(id) = "INVITE", NEW sdp \in Sdps, NEW d
  PROVE  LET t == RespondReinvite(s, id, sdp, d) IN
         Ok(x, t) /\ Moves({}, s, t) /\ id \in Tsxs(t)
<1>1. 491 \in Codes /\ 500 \in Codes
  BY DEF Codes
<1> DEFINE s1 == [s EXCEPT !.itsx = id]
           busy == Respond(s, id, IF RoleOf(s.itsx) = "uac" THEN 491 ELSE 500, NoSdp)
           t == RespondReinvite(s, id, sdp, d)
<1>2. Ok(x, s1) /\ Moves({}, s, s1) /\ id \in Tsxs(s1) /\ s1.neg = s.neg
  BY ItsxOk
<1>3. \/ t = busy
      \/ t = Respond(s1, id, 491, NoSdp)
      \/ t = ReinviteOffer(s1, id, sdp, d)
      \/ NegState(s) = "DONE" /\ t = ReinviteNoOffer(s1, id, d)
  BY DEF RespondReinvite
<1> HIDE DEF s1, t
<1>4. To({}, x, s, busy)
  <2>1. (IF RoleOf(s.itsx) = "uac" THEN 491 ELSE 500) \in Codes /\ (IF RoleOf(s.itsx) = "uac" THEN 491 ELSE 500) >= 300
    BY <1>1
  <2> QED
    BY <2>1, RespondOk, NoSdpTyped
<1> HIDE DEF busy
<1>5. Rank(s1.st) >= 3
  BY <1>2 DEF Moves
<1>6. To({}, x, s1, Respond(s1, id, 491, NoSdp))
  BY <1>1, <1>2, <1>5, RespondOk, NoSdpTyped
<1>7. To({}, x, s1, ReinviteOffer(s1, id, sdp, d))
  BY <1>2, <1>5, ReinviteOfferOk
<1>8. NegState(s) = "DONE" => To({}, x, s1, ReinviteNoOffer(s1, id, d))
  BY <1>2, <1>5, ReinviteNoOfferOk DEF NegState
<1>9. To({}, x, s, t) \/ To({}, x, s1, t)
  BY <1>3, <1>4, <1>6, <1>7, <1>8
<1> QED
  BY <1>2, <1>9 DEF To, Goes, Moves, t

LEMMA OnRequestOk ==
  ASSUME NEW x, NEW s, Ok(x, s), NEW id \in Tsxs(s), RoleOf(id) = "uas",
         MethodOf(id) = "CANCEL" => TsxId("uas", "INVITE", CSeqOf(id)) \in Tsxs(s),
         NEW sdp \in Sdps, NEW d
  PROVE  LET t == OnRequest(s, id, sdp, d) IN
         Ok(x, t) /\ Moves(Over, s, t) /\ id \in Tsxs(t)
<1> DEFINE m == MethodOf(id)
           t == OnRequest(s, id, sdp, d)
<1>1. 200 \in Codes /\ 491 \in Codes
  BY DEF Codes
<1>2. \/ m = "BYE" /\ s.st = "early" /\ t = RespondEarlyBye(s, id)
      \/ m = "BYE" /\ t = RespondBye(s, id)
      \/ m = "CANCEL" /\ t = RespondCancel(s, id)
      \/ m = "CANCEL" /\ t = Respond(s, id, 200, NoSdp)
      \/ m = "INVITE" /\ s.st = "connecting" /\ t = Respond(s, id, 491, NoSdp)
      \/ m = "INVITE" /\ s.st = "confirmed" /\ t = RespondReinvite(s, id, sdp, d)
      \/ m = "UPDATE" /\ t = RespondUpdate(s, id, sdp, d)
      \/ t = s
  BY DEF OnRequest
<1>3. m = "BYE" /\ s.st = "early" => To(Over, x, s, RespondEarlyBye(s, id))
  BY RespondEarlyByeOk
<1>4. m = "BYE" => To(Over, x, s, RespondBye(s, id))
  BY RespondByeOk
<1>5. m = "CANCEL" => To(Over, x, s, RespondCancel(s, id))
  BY RespondCancelOk
<1>6. m = "CANCEL" => To({}, x, s, Respond(s, id, 200, NoSdp))
  <2>1. m = "CANCEL" => id # s.itsx
    BY DEF Ok, Placed, NoTsx, MethodOf
  <2> QED
    BY <1>1, <2>1, RespondOk, NoSdpTyped
<1>7. s.st = "connecting" => To({}, x, s, Respond(s, id, 491, NoSdp))
  <2>1. s.st = "connecting" => Rank(s.st) >= 3
    BY DEF Rank
  <2> QED
    BY <1>1, <2>1, RespondOk, NoSdpTyped
<1>8. m = "UPDATE" => To({}, x, s, RespondUpdate(s, id, sdp, d))
  BY RespondUpdateOk
<1>9. s.st = "confirmed" /\ m = "INVITE" =>
        /\ Ok(x, RespondReinvite(s, id, sdp, d)) /\ Moves({}, s, RespondReinvite(s, id, sdp, d))
        /\ id \in Tsxs(RespondReinvite(s, id, sdp, d))
  <2>1. s.st = "confirmed" => Rank(s.st) >= 3
    BY DEF Rank
  <2> QED
    BY <2>1, RespondReinviteOk
<1> HIDE DEF t, m
<1>10. CASE To(Over, x, s, t) \/ To({}, x, s, t)
  BY <1>10 DEF To, Goes, Moves, t
<1>11. CASE Ok(x, t) /\ Moves({}, s, t) /\ id \in Tsxs(t)
  BY <1>11 DEF Moves, t
<1>12. To({}, x, s, s)
  BY ToSelf
<1> QED
  BY <1>2, <1>3, <1>4, <1>5, <1>6, <1>7, <1>8, <1>9, <1>10, <1>11, <1>12

(* An ACK ends the INVITE transaction, and may establish the session.      *)
LEMMA OnAckOk ==
  ASSUME NEW s, Ok(NoTsx, s), NEW c, NEW sdp \in Sdps, NEW d
  PROVE  LET t == OnAck(s, c, sdp, d) IN
         Ok(NoTsx, t) /\ Moves({"confirmed"}, s, t)
<1> DEFINE id == s.itsx
           k  == IF s.st = "disconnected" THEN s ELSE CheckSdp(s, id, sdp, 0, d).s
           s2 == IF s.st = "confirmed" THEN CancelledIf(k, {"LOCAL_OFFER"}) ELSE k
           e  == Dropped(s2, id)
           f  == SetState(e, "confirmed")
           t  == OnAck(s, c, sdp, d)
<1>1. t = IF id = NoTsx \/ T(s, id).state # "completed" \/ CSeqOf(id) # c THEN s
          ELSE IF s.st = "connecting" THEN PerformPendingBye(f) ELSE e
  BY DEF OnAck
<1>2. CASE id = NoTsx \/ T(s, id).state # "completed" \/ CSeqOf(id) # c
  BY <1>1, <1>2 DEF Moves
<1>3. CASE ~(id = NoTsx \/ T(s, id).state # "completed" \/ CSeqOf(id) # c)
  <2>1. Rank(s.st) >= 3 /\ id \in Tsxs(s)
    BY <1>3 DEF Ok, Tracked, Placed
  <2>2. To({}, NoTsx, s, k)
    BY <2>1, CheckSdpOk, ToSelf
  <2> HIDE DEF k
  <2>3. To({}, NoTsx, k, s2)
    BY <2>2, CancelledIfOk, ToSelf DEF To
  <2> HIDE DEF s2
  <2>4. To({}, NoTsx, s, s2)
    BY <2>2, <2>3, Then
  <2>5. Ok(NoTsx, s2) /\ Rank(s2.st) >= 3 /\ s2.st = s.st /\ s2.itsx = id /\ s2.me = s.me
    BY <2>1, <2>4 DEF To, Goes, Moves
  <2>6. Ok(NoTsx, e) /\ e.st = s.st /\ e.itsx = NoTsx /\ e.me = s.me
    BY <2>5, DroppedOk DEF Moves
  <2> HIDE DEF e
  <2>7. CASE s.st = "connecting"
    <3>1. Rank(e.st) <= Rank("confirmed")
      BY <2>6, <2>7 DEF Rank
    <3>2. To({"confirmed"}, NoTsx, e, f)
      BY <2>6, <3>1, SetStateOk
    <3> HIDE DEF f
    <3>3. To({}, NoTsx, f, PerformPendingBye(f))
      BY <3>2, PerformPendingByeOk DEF To
    <3>4. To({"confirmed"}, NoTsx, e, PerformPendingBye(f))
      BY <2>6, <3>2, <3>3, Then, Quietly
    <3>5. t = PerformPendingBye(f)
      BY <1>1, <1>3, <2>7
    <3> HIDE DEF t
    <3>6. Ok(NoTsx, t) /\ Moves({"confirmed"}, s, t)
      BY <2>6, <3>4, <3>5 DEF To, Goes, Moves
    <3> QED
      BY <3>6 DEF t
  <2>8. CASE s.st # "connecting"
    BY <1>1, <1>3, <2>6, <2>8 DEF Moves
  <2> QED
    BY <2>7, <2>8
<1> QED
  BY <1>2, <1>3

-----------------------------------------------------------------------------
(* Responses.  What a response of a client transaction may make of the     *)
(* session: end it, ring, and for a 2xx of an INVITE, establish it.        *)
Told(id, state, code) ==
    {st \in {"early", "connecting", "confirmed", "disconnected"} :
        /\ st = "early" => MethodOf(id) = "INVITE" /\ state = "proceeding" /\ code \in 101 .. 199
        /\ st \in {"connecting", "confirmed"} => MethodOf(id) = "INVITE" /\ Is2xx(code)}

LEMMA HandleUacTsxOk ==
  ASSUME NEW x, NEW s, Ok(x, s), NEW id \in Tsxs(s)
  PROVE  To({"disconnected"}, x, s, HandleUacTsx(s, id).s)
<1> DEFINE c == Disconnect(s, T(s, id).code)
<1>1. HandleUacTsx(s, id).s = s \/ HandleUacTsx(s, id).s = SendBye(c)
  BY DEF HandleUacTsx, Pair
<1>2. T(s, id).code \in Nat
  BY TsxTyped DEF Ok, TsxRec, Codes
<1>3. To({"disconnected"}, x, s, c)
  BY <1>2, DisconnectOk
<1> HIDE DEF c
<1>4. To({}, x, c, SendBye(c))
  BY <1>3, SendByeOk DEF To
<1>5. To({"disconnected"}, x, s, SendBye(c))
  BY <1>3, <1>4, Quietly, Then
<1> QED
  BY <1>1, <1>5, ToSelf

LEMMA HandleUpdateResponseOk ==
  ASSUME NEW x, NEW s, Ok(x, s), NEW id \in Tsxs(s), NEW sdp \in Sdps, NEW d
  PROVE  To({}, x, s, HandleUpdateResponse(s, id, sdp, d).s)
<1> DEFINE t  == T(s, id)
           k  == CheckSdp(s, id, sdp, t.code, d).s
           answered == t.state = "completed" /\ Is2xx(t.code) /\ sdp # NoSdp /\ NegState(s) = "LOCAL_OFFER"
           s1 == IF answered THEN k ELSE s
           u  == Cancelled(s1)
           r  == HandleUpdateResponse(s, id, sdp, d).s
<1>1. r = s1 \/ (NegState(s1) = "LOCAL_OFFER" /\ r = SdpDone(u, id))
  BY DEF HandleUpdateResponse, Pair
<1>2. To({}, x, s, k)
  BY CheckSdpOk
<1> HIDE DEF k
<1>3. To({}, x, s, s1)
  BY <1>2, ToSelf
<1> HIDE DEF s1, r
<1>4. ASSUME NegState(s1) = "LOCAL_OFFER" PROVE To({}, x, s, SdpDone(u, id))
  <2>1. To({}, x, s1, u)
    BY <1>3, <1>4, CancelledOk DEF To
  <2> HIDE DEF u
  <2>2. To({}, x, u, SdpDone(u, id))
    BY <2>1, SdpDoneOk DEF To
  <2>3. To({}, x, s, u)
    BY <1>3, <2>1, Then
  <2> QED
    BY <2>2, <2>3, Then
<1>5. To({}, x, s, r)
  BY <1>1, <1>3, <1>4
<1> QED
  BY <1>5 DEF r

(* The first INVITE makes progress.                                        *)
LEMMA OnInviteProgressOk ==
  ASSUME NEW s, NEW id \in Tsxs(s), Ok(id, s), s.st \in {"calling", "early"}, s.itsx = id,
         MethodOf(id) = "INVITE", T(s, id).state = "proceeding" => Is1xx(T(s, id).code),
         RoleOf(id) = "uac", NEW sdp \in Sdps, NEW d
  PROVE  LET r == OnInviteProgress(s, id, sdp, d) IN
         /\ To(Told(id, T(s, id).state, T(s, id).code), id, s, r)
         /\ T(s, id).state = "proceeding" \/ Rank(r.st) >= 3
<1> DEFINE t  == T(s, id)
           L  == Told(id, t.state, t.code)
           c  == [s EXCEPT !.pcancel = FALSE]
           e  == EndSession(c, 487, d)
           s1 == IF s.pcancel /\ s.st = "calling" THEN e ELSE s
           f  == SetState(s1, "early")
           g  == SetState(s, "connecting")
           k  == CheckSdp(g, id, sdp, t.code, d).s
           r  == OnInviteProgress(s, id, sdp, d)
<1>1. \/ t.state = "proceeding" /\ t.code = 100 /\ r = s1
      \/ t.state = "proceeding" /\ t.code # 100 /\ r = CheckSdp(f, id, sdp, t.code, d).s
      \/ t.state = "terminated" /\ Is2xx(t.code) /\ r = SendAck(k, CSeqOf(id), d)
      \/ r = Disconnect(s, t.code)
  BY DEF OnInviteProgress
<1>2. t.code \in Nat /\ id \in Ids
  BY TsxTyped DEF Ok, TsxRec, Codes
<1>3. s.me = Caller
  BY DEF Ok, Placed, Role, Ses, Agents, Caller, Callee
<1>4. To({}, id, s, s1) /\ s1.st \in {"calling", "early"}
  <2>1. To({}, id, s, c)
    BY CancelFlagOk
  <2>2. c.me = Caller
    BY <1>3
  <2> HIDE DEF c
  <2>3. 487 \in Codes
    BY DEF Codes
  <2>4. To({}, id, c, e)
    BY <2>1, <2>2, <2>3, EndSessionOk DEF To
  <2>5. To({}, id, s, e)
    BY <2>1, <2>4, Then
  <2> HIDE DEF e
  <2>6. To({}, id, s, s1)
    BY <2>5, ToSelf
  <2> QED
    BY <2>6 DEF To, Goes, Moves
<1> HIDE DEF s1
<1>5. CASE t.state = "proceeding" /\ t.code = 100 /\ r = s1
  <2>1. To(L, id, s, s1)
    BY <1>4, Quietly
  <2> QED
    BY <1>5, <2>1
<1>6. CASE t.state = "proceeding" /\ t.code # 100 /\ r = CheckSdp(f, id, sdp, t.code, d).s
  <2>1. {"early"} \subseteq L
    BY <1>2, <1>6 DEF Told, Is1xx
  <2>2. Rank(s1.st) <= Rank("early")
    BY <1>4 DEF Rank
  <2>3. To({"early"}, id, s1, f)
    BY <1>4, <2>2, SetStateOk DEF To
  <2> HIDE DEF f
  <2>4. To({"early"}, id, s, f)
    BY <1>4, <2>3, Quietly, Then
  <2>5. id \in Tsxs(f) /\ Ok(id, f)
    BY <2>4 DEF To, Goes
  <2>6. To({}, id, f, CheckSdp(f, id, sdp, t.code, d).s)
    BY <2>5, CheckSdpOk
  <2> HIDE DEF t, r, L
  <2>7. To({"early"}, id, s, r)
    BY <1>6, <2>4, <2>6, Quietly, Then
  <2>8. To(L, id, s, r)
    BY <2>1, <2>7, Wider
  <2> QED
    BY <1>6, <2>8 DEF t, r, L
<1>7. CASE t.state = "terminated" /\ Is2xx(t.code) /\ r = SendAck(k, CSeqOf(id), d)
  <2>1. {"connecting", "confirmed"} \subseteq L
    BY <1>7 DEF Told
  <2>2. Rank(s.st) <= Rank("connecting")
    BY DEF Rank
  <2>3. To({"connecting"}, id, s, g) /\ g.st = "connecting"
    BY <2>2, SetStateOk DEF Ok, Ses
  <2> HIDE DEF g
  <2>4. id \in Tsxs(g) /\ Ok(id, g)
    BY <2>3 DEF To, Goes
  <2>5. To({}, id, g, k)
    BY <2>4, CheckSdpOk
  <2> HIDE DEF k
  <2>6. Ok(id, k) /\ Rank(k.st) >= 3
    BY <2>3, <2>5 DEF To, Goes, Moves, Rank
  <2>7. CSeqOf(id) \in Nat
    BY <1>2, IdParts
  <2>8. To({"confirmed"}, id, k, SendAck(k, CSeqOf(id), d))
    BY <2>6, <2>7, SendAckOk
  <2> HIDE DEF t, r, L
  <2>9. To(L, id, s, g) /\ To(L, id, g, k) /\ To(L, id, k, r)
    BY <1>7, <2>1, <2>3, <2>5, <2>8, Wider, Quietly
  <2>10. To(L, id, s, r)
    BY <2>9, Then
  <2>11. Rank(r.st) >= 3
    BY <2>6, <2>9, RankRange DEF To, Goes, Moves
  <2> QED
    BY <2>10, <2>11 DEF t, r, L
<1>8. CASE r = Disconnect(s, t.code)
  <2>1. {"disconnected"} \subseteq L
    BY DEF Told
  <2>2. To({"disconnected"}, id, s, r) /\ r.st = "disconnected"
    BY <1>2, <1>8, DisconnectOk
  <2> HIDE DEF t, r, L
  <2>3. To(L, id, s, r)
    BY <2>1, <2>2, Wider
  <2> QED
    BY <2>2, <2>3 DEF t, r, L, Rank
<1> QED
  BY <1>1, <1>5, <1>6, <1>7, <1>8

(* The session forgets its INVITE transaction.                             *)
LEMMA ItsxGoneOk ==
  ASSUME NEW x, NEW s, Ok(x, s), Rank(s.st) >= 3, NEW id, NEW t,
         t = [s EXCEPT !.itsx = IF @ = id THEN NoTsx ELSE @]
  PROVE  /\ Ok(x, t) /\ Moves({}, s, t) /\ Tsxs(t) = Tsxs(s)
         /\ t.itsx = IF s.itsx = id THEN NoTsx ELSE s.itsx
         /\ \A i \in Tsxs(s) : T(t, i) = T(s, i)
<1>1. s \in Ses
  BY DEF Ok
<1>2. t \in Ses
  BY <1>1, Zenon DEF Ses
<1>3. /\ t.me = s.me /\ t.st = s.st /\ t.neg = s.neg
      /\ t.tsx = s.tsx /\ t.out = s.out /\ t.ackc = s.ackc
      /\ t.itsx = IF s.itsx = id THEN NoTsx ELSE s.itsx
  BY <1>1 DEF Ses
<1>4. Placed(t)
  <2>1. s.st \notin {"calling", "incoming", "early"}
    BY DEF Rank
  <2> QED
    BY <1>3, <2>1 DEF Ok, Placed, Tsxs
<1>5. Tracked(x, t)
  BY <1>3 DEF Ok, Tracked, Tsxs, T
<1>6. Sending(t)
  BY <1>3 DEF Ok, Sending
<1> QED
  BY <1>2, <1>3, <1>4, <1>5, <1>6 DEF Ok, Moves, Tsxs, T

(* A step that handles a change of client transaction id.                  *)
Handles(L, id, s, t) ==
    /\ Ok(id, t) /\ Moves(L, s, t)
    /\ t.itsx = s.itsx \/ (t.itsx = NoTsx /\ s.itsx = id)
    /\ id \in Tsxs(t)
    /\ MethodOf(id) = "INVITE" => T(t, id).state = T(s, id).state

LEMMA GoesHandles ==
  ASSUME NEW id, NEW s, id \in Tsxs(s), RoleOf(id) = "uac", NEW L, NEW t, To(L, id, s, t)
  PROVE  Handles(L, id, s, t)
BY DEF To, Goes, Handles

LEMMA OnReinviteProgressOk ==
  ASSUME NEW s, NEW id \in Tsxs(s), Ok(id, s), s.st = "confirmed", MethodOf(id) = "INVITE",
         RoleOf(id) = "uac", NEW prev, NEW sdp \in Sdps, NEW d
  PROVE  Handles(Over, id, s, OnReinviteProgress(s, id, prev, sdp, d))
<1> DEFINE t == T(s, id)
           c == [s EXCEPT !.pcancel = FALSE]
           h == HandleUacTsx(s, id).s
           k == CheckSdp(s, id, sdp, t.code, d).s
           a == CancelledIf(k, {"LOCAL_OFFER"})
           n == CancelledIf(s, {"LOCAL_OFFER"})
           u == [n EXCEPT !.itsx = IF @ = id THEN NoTsx ELSE @]
           r == OnReinviteProgress(s, id, prev, sdp, d)
<1>1. r = s \/ r = SendCancel(c) \/ r = SendAck(a, CSeqOf(id), d) \/ r = h \/ r = u
  BY DEF OnReinviteProgress
<1>2. Rank(s.st) >= 3
  BY DEF Rank
<1>3. To(Over, id, s, SendCancel(c))
  <2>1. To({}, id, s, c)
    BY CancelFlagOk
  <2> HIDE DEF c
  <2>2. To({}, id, c, SendCancel(c))
    BY <2>1, SendCancelOk DEF To
  <2> QED
    BY <2>1, <2>2, Then, Quietly
<1>4. To(Over, id, s, SendAck(a, CSeqOf(id), d))
  <2>1. To({}, id, s, k)
    BY CheckSdpOk
  <2> HIDE DEF k
  <2>2. To({}, id, k, a)
    BY <2>1, CancelledIfOk DEF To
  <2> HIDE DEF a
  <2>3. To({}, id, s, a)
    BY <2>1, <2>2, Then
  <2>4. Ok(id, a) /\ Rank(a.st) >= 3 /\ a.st = "confirmed"
    BY <1>2, <2>3 DEF To, Goes, Moves
  <2>5. CSeqOf(id) \in Nat
    BY TsxTyped, IdParts DEF Ok
  <2>6. To({"confirmed"}, id, a, SendAck(a, CSeqOf(id), d))
    BY <2>4, <2>5, SendAckOk
  <2>7. To({}, id, a, SendAck(a, CSeqOf(id), d))
    BY <2>4, <2>6 DEF To, Goes, Moves
  <2> QED
    BY <2>3, <2>7, Then, Quietly
<1>5. To(Over, id, s, h)
  BY HandleUacTsxOk DEF Over
<1>6. To({}, id, s, n)
  BY CancelledIfOk
<1> HIDE DEF n
<1>7. Ok(id, n) /\ Rank(n.st) >= 3
  BY <1>2, <1>6 DEF To, Goes, Moves
<1>8. /\ Ok(id, u) /\ Moves({}, n, u) /\ Tsxs(u) = Tsxs(n)
      /\ u.itsx = IF n.itsx = id THEN NoTsx ELSE n.itsx
      /\ \A i \in Tsxs(n) : T(u, i) = T(n, i)
  BY <1>7, ItsxGoneOk
<1> HIDE DEF u
<1>9. Handles(Over, id, s, u)
  BY <1>6, <1>8 DEF Handles, To, Goes, Moves
<1> HIDE DEF r, h
<1>10. To(Over, id, s, s)
  BY ToSelf
<1>11. Handles(Over, id, s, r)
  BY <1>1, <1>3, <1>4, <1>5, <1>9, <1>10, GoesHandles
<1> QED
  BY <1>11 DEF r

(* What the session makes of the change.  It does not wait for a           *)
(* transaction that is over, unless the INVITE was answered.               *)
LEMMA OnClientTsxOk ==
  ASSUME NEW s, NEW id \in Tsxs(s), Ok(id, s), RoleOf(id) = "uac",
         T(s, id).state = "proceeding" => Is1xx(T(s, id).code),
         NEW prev, NEW sdp \in Sdps, NEW d
  PROVE  LET r == OnClientTsx(s, id, prev, sdp, d) IN
         /\ Handles(Told(id, T(s, id).state, T(s, id).code), id, s, r)
         /\ r.itsx = id => T(s, id).state = "proceeding" \/ Rank(r.st) >= 3
<1> DEFINE t == T(s, id)
           L == Told(id, t.state, t.code)
           p == OnInviteProgress(s, id, sdp, d)
           c == Disconnect(s, t.code)
           b == Disconnect(s, 200)
           h == HandleUacTsx(s, id).s
           u == HandleUpdateResponse(s, id, sdp, d).s
           v == HandleUacTsx(u, id).s
           i == OnReinviteProgress(s, id, prev, sdp, d)
           r == OnClientTsx(s, id, prev, sdp, d)
<1>1. \/ s.st \in {"calling", "early"} /\ id = s.itsx /\ r = p
      \/ s.st = "confirmed" /\ MethodOf(id) = "INVITE" /\ r = i
      \/ (s.st \in {"calling", "early"} => id # s.itsx) /\ r \in {s, c, b, h, u, v}
  BY DEF OnClientTsx
<1>2. t.code \in Nat
  BY TsxTyped DEF Ok, TsxRec, Codes
<1>3. {"disconnected"} \subseteq L /\ Over \subseteq L
  BY DEF Told, Over
<1>4. CASE s.st \in {"calling", "early"} /\ id = s.itsx /\ r = p
  <2>1. MethodOf(id) = "INVITE"
    BY <1>4, IdParts, TsxTyped DEF Ok, Placed
  <2>2. To(L, id, s, p) /\ (t.state = "proceeding" \/ Rank(p.st) >= 3)
    BY <1>4, <2>1, OnInviteProgressOk
  <2> HIDE DEF p, t, L
  <2>3. Handles(L, id, s, p)
    BY <2>2, GoesHandles
  <2> HIDE DEF r
  <2>4. Handles(L, id, s, r) /\ (t.state = "proceeding" \/ Rank(r.st) >= 3)
    BY <1>4, <2>2, <2>3
  <2> QED
    BY <2>4 DEF r, t, L
<1>5. CASE s.st = "confirmed" /\ MethodOf(id) = "INVITE" /\ r = i
  <2>1. Handles(Over, id, s, i)
    BY <1>5, OnReinviteProgressOk
  <2> HIDE DEF i, t, L, r
  <2>2. Handles(L, id, s, r) /\ Rank(r.st) >= 3
    BY <1>3, <1>5, <2>1 DEF Handles, Moves, Rank
  <2> QED
    BY <2>2 DEF r, t, L
<1>6. CASE (s.st \in {"calling", "early"} => id # s.itsx) /\ r \in {s, c, b, h, u, v}
  <2>1. To({}, id, s, s) /\ To({"disconnected"}, id, s, c) /\ To({"disconnected"}, id, s, b)
    BY <1>2, ToSelf, DisconnectOk
  <2>2. To({"disconnected"}, id, s, h)
    BY HandleUacTsxOk
  <2>3. To({}, id, s, u)
    BY HandleUpdateResponseOk
  <2> HIDE DEF c, b, h, u
  <2>4. Ok(id, u) /\ id \in Tsxs(u)
    BY <2>3 DEF To, Goes
  <2>5. To({"disconnected"}, id, u, v)
    BY <2>4, HandleUacTsxOk
  <2> HIDE DEF v, r, t, L
  <2>6. To({"disconnected"}, id, s, v)
    BY <2>3, <2>5, Quietly, Then
  <2>7. To({"disconnected"}, id, s, r)
    BY <1>6, <2>1, <2>2, <2>3, <2>6, Quietly
  <2>8. To(L, id, s, r)
    BY <1>3, <2>7, Wider
  <2>9. Handles(L, id, s, r)
    BY <2>8, GoesHandles
  <2>10. r.itsx = id => Rank(r.st) >= 3
    <3>1. SUFFICES ASSUME r.itsx = id PROVE Rank(r.st) >= 3
      OBVIOUS
    <3>2. s.itsx = id
      BY <2>8, <3>1 DEF To, Goes
    <3>3. Rank(s.st) >= 3
      <4>1. s.st # "incoming"
        BY <3>2 DEF Ok, Placed, Role
      <4> QED
        BY <1>6, <3>2, <4>1 DEF Ok, Placed, Ses, States, Rank
    <3> QED
      BY <2>8, <3>3, RankRange DEF To, Goes, Moves
  <2> QED
    BY <2>9, <2>10 DEF r, t, L
<1> QED
  BY <1>1, <1>4, <1>5, <1>6

(* A client transaction changes state.                                     *)
LEMMA ChangeOk ==
  ASSUME NEW s, Ok(NoTsx, s), NEW id \in Tsxs(s), RoleOf(id) = "uac", NEW t \in TsxRec,
         MethodOf(id) = "INVITE" /\ t.state = "completed" => ~Is2xx(t.code),
         NEW u, u = SetTsx(s, id, t)
  PROVE  /\ Ok(id, u) /\ Moves({}, s, u)
         /\ u.itsx = s.itsx /\ Tsxs(u) = Tsxs(s) /\ T(u, id) = t
<1>1. s \in Ses /\ id \in Ids
  BY TsxTyped DEF Ok
<1>2. /\ u \in Ses
      /\ u.me = s.me /\ u.st = s.st /\ u.neg = s.neg /\ u.itsx = s.itsx
      /\ u.out = s.out /\ u.ackc = s.ackc
      /\ Tsxs(u) = Tsxs(s)
      /\ T(u, id) = t
      /\ \A i \in Tsxs(s) : i # id => T(u, i) = T(s, i)
  <2>1. Tsxs(s) \cup {id} = Tsxs(s)
    OBVIOUS
  <2>2. Tsxs(u) = Tsxs(s) \cup {id}
    BY <1>1, TsxSet
  <2> QED
    BY <1>1, <2>1, <2>2, TsxSet
<1>3. Placed(u)
  BY <1>2 DEF Ok, Placed, Role
<1>4. Tracked(id, u)
  <2>1. u.itsx # NoTsx /\ u.itsx # id /\ T(u, u.itsx).state \in {"completed", "terminated"} => Rank(u.st) >= 3
    BY <1>2 DEF Ok, Placed, Tracked
  <2>2. ASSUME NEW i \in Tsxs(u), MethodOf(i) = "INVITE"
        PROVE  /\ CSeqOf(i) # 0
               /\ T(u, i).state = "completed" /\ Is2xx(T(u, i).code) => RoleOf(i) = "uas" /\ Rank(u.st) >= 3
    BY <1>2, <2>2 DEF Ok, Tracked
  <2> QED
    BY <2>1, <2>2 DEF Tracked
<1>5. Sending(u)
  BY <1>2 DEF Ok, Sending
<1> QED
  BY <1>2, <1>3, <1>4, <1>5 DEF Ok, Moves

(* What it may make of the session, counting that an answered call may be  *)
(* hung up once more.                                                      *)
Led(s, id, state, code) == Told(id, state, code) \cup (IF s.me = Callee THEN Answers ELSE {})

LEMMA HangAgainOk ==
  ASSUME NEW s, Ok(NoTsx, s), NEW id, NEW code, NEW prev, NEW d
  PROVE  LET t == HangAgain(s, id, code, prev, d) IN
         Ok(NoTsx, t) /\ Moves(IF s.me = Callee THEN Answers ELSE {}, s, t)
<1>1. 200 \in Codes
  BY DEF Codes
<1>2. /\ To(Answers, NoTsx, s, EndSession(s, 200, d))
      /\ s.me = Caller => To({}, NoTsx, s, EndSession(s, 200, d))
  BY <1>1, EndSessionOk
<1>3. s.me \in {Caller, Callee}
  BY DEF Ok, Ses, Agents
<1> DEFINE t == HangAgain(s, id, code, prev, d)
<1>4. t = s \/ t = EndSession(s, 200, d)
  BY DEF HangAgain
<1> HIDE DEF t
<1>5. Ok(NoTsx, t) /\ Moves(IF s.me = Callee THEN Answers ELSE {}, s, t)
  BY <1>2, <1>3, <1>4 DEF To, Goes, Moves
<1> QED
  BY <1>5 DEF t

LEMMA ClientTsxStateOk ==
  ASSUME NEW s, Ok(NoTsx, s), NEW id \in Tsxs(s), RoleOf(id) = "uac",
         NEW state \in {"proceeding", "completed", "terminated"}, NEW code, code \in Codes,
         state = "proceeding" => Is1xx(code),
         MethodOf(id) = "INVITE" /\ state = "completed" => ~Is2xx(code),
         NEW sdp \in Sdps, NEW d
  PROVE  LET t == ClientTsxState(s, id, state, code, sdp, d) IN
         Ok(NoTsx, t) /\ Moves(Led(s, id, state, code), s, t)
<1> DEFINE prev == T(s, id).state
           n  == [T(s, id) EXCEPT !.state = state, !.code = code]
           s1 == SetTsx(s, id, n)
           r  == OnClientTsx(s1, id, prev, sdp, d)
           l  == IF state = "terminated" THEN Dropped(r, id) ELSE r
           t  == ClientTsxState(s, id, state, code, sdp, d)
<1>1. t = HangAgain(l, id, code, prev, d)
  BY DEF ClientTsxState
<1>2. n \in TsxRec /\ n.state = state /\ n.code = code
  <2>1. T(s, id) \in TsxRec /\ state \in TsxStates
    BY TsxTyped DEF Ok, TsxStates
  <2> QED
    BY <2>1 DEF TsxRec
<1> HIDE DEF n
<1>3. /\ Ok(id, s1) /\ Moves({}, s, s1)
      /\ s1.itsx = s.itsx /\ Tsxs(s1) = Tsxs(s) /\ T(s1, id) = n
  BY <1>2, ChangeOk
<1> HIDE DEF s1, prev
<1>4. T(s1, id).state = state /\ T(s1, id).code = code
  BY <1>2, <1>3
<1>5. /\ Handles(Told(id, state, code), id, s1, r)
      /\ r.itsx = id => state = "proceeding" \/ Rank(r.st) >= 3
  BY <1>3, <1>4, OnClientTsxOk
<1> HIDE DEF r
<1>6. Ok(NoTsx, l) /\ l.st = r.st /\ l.me = r.me
  <2>1. CASE state = "terminated"
    <3>1. Ok(NoTsx, Dropped(r, id)) /\ Dropped(r, id).st = r.st /\ Moves({}, r, Dropped(r, id))
      BY <1>5, <2>1, DroppedOk DEF Handles
    <3> QED
      BY <2>1, <3>1 DEF Moves
  <2>2. CASE state # "terminated"
    <3>1. Tracked(NoTsx, r)
      <4>1. r.itsx = id => MethodOf(id) = "INVITE"
        BY <1>5, TsxTyped, IdParts DEF Handles, Ok, Placed
      <4>2. r.itsx # NoTsx /\ T(r, r.itsx).state \in {"completed", "terminated"} => Rank(r.st) >= 3
        BY <1>4, <1>5, <4>1 DEF Handles, Ok, Tracked
      <4> QED
        BY <1>5, <4>2 DEF Handles, Ok, Tracked
    <3> QED
      BY <1>5, <2>2, <3>1 DEF Handles, Ok
  <2> QED
    BY <2>1, <2>2
<1> HIDE DEF l
<1>7. l.me = s.me /\ (l.st = s.st \/ (l.st \in Told(id, state, code) /\ Rank(l.st) > Rank(s.st)))
  BY <1>3, <1>5, <1>6 DEF Handles, Moves
<1>8. Ok(NoTsx, t) /\ Moves(IF l.me = Callee THEN Answers ELSE {}, l, t)
  BY <1>1, <1>6, HangAgainOk
<1> HIDE DEF t
<1>9. Ok(NoTsx, t) /\ Moves(Led(s, id, state, code), s, t)
  BY <1>7, <1>8, RankRange DEF Moves, Led
<1> QED
  BY <1>9 DEF t

(* A 2xx that no transaction waits for.                                    *)
LEMMA OnStrayResponseOk ==
  ASSUME NEW s, Ok(NoTsx, s), NEW m, NEW c \in Nat, m = "INVITE" => c # 0, NEW code, NEW d
  PROVE  To(IF m = "INVITE" /\ Is2xx(code) THEN {"confirmed"} ELSE {}, NoTsx, s, OnStrayResponse(s, m, c, code, d))
<1>1. CASE m = "INVITE" /\ Is2xx(code) /\ (s.itsx = NoTsx \/ s.st = "disconnected" \/ s.ackc = c)
  <2>1. Rank(s.st) >= 3
    BY <1>1 DEF Ok, Ses, Placed, Rank, States
  <2>2. To({"confirmed"}, NoTsx, s, SendAck(s, c, d))
    BY <2>1, SendAckOk
  <2> QED
    BY <1>1, <2>2 DEF OnStrayResponse
<1>2. CASE ~(m = "INVITE" /\ Is2xx(code) /\ (s.itsx = NoTsx \/ s.st = "disconnected" \/ s.ackc = c))
  BY <1>2, ToSelf DEF OnStrayResponse
<1> QED
  BY <1>1, <1>2

LEMMA OnResponseOk ==
  ASSUME NEW s, Ok(NoTsx, s), NEW m \in Methods, NEW c \in Nat, m = "INVITE" => c # 0,
         NEW code, code \in Codes, NEW sdp \in Sdps, NEW d
  PROVE  LET t == OnResponse(s, m, c, code, sdp, d) IN
         Ok(NoTsx, t) /\ Moves(Led(s, TsxId("uac", m, c), "proceeding", code), s, t)
<1> DEFINE id == TsxId("uac", m, c)
           s1 == OnStrayResponse(s, m, c, code, d)
           state == IF Is1xx(code) THEN "proceeding"
                    ELSE IF m = "INVITE" /\ Is2xx(code) THEN "terminated" ELSE "completed"
           r  == ClientTsxState(s1, id, state, code, sdp, d)
           t  == OnResponse(s, m, c, code, sdp, d)
           L  == Led(s, id, "proceeding", code)
<1>1. \/ t = s1 \/ t = s
      \/ id \in Tsxs(s) /\ t = r
  BY DEF OnResponse
<1>2. RoleOf(id) = "uac" /\ MethodOf(id) = m
  BY IdOf
<1>3. To(IF m = "INVITE" /\ Is2xx(code) THEN {"confirmed"} ELSE {}, NoTsx, s, s1)
  BY OnStrayResponseOk
<1> HIDE DEF s1, id
<1>4. /\ state \in {"proceeding", "completed", "terminated"}
      /\ state = "proceeding" => Is1xx(code)
      /\ MethodOf(id) = "INVITE" /\ state = "completed" => ~Is2xx(code)
  BY <1>2
<1> HIDE DEF state
<1>5. Ok(NoTsx, s1) /\ s1.me = s.me
  BY <1>3 DEF To, Goes, Moves
<1>6. s1.st = s.st \/ (s1.st \in L /\ Rank(s1.st) > Rank(s.st))
  BY <1>2, <1>3 DEF To, Goes, Moves, Led, Told
<1>7. ASSUME id \in Tsxs(s) PROVE Ok(NoTsx, r) /\ Moves(L, s1, r)
  <2>1. id \in Tsxs(s1)
    BY <1>3, <1>7 DEF To, Goes
  <2>2. Ok(NoTsx, r) /\ Moves(Led(s1, id, state, code), s1, r)
    BY <1>2, <1>4, <1>5, <2>1, ClientTsxStateOk
  <2>3. Led(s1, id, state, code) \subseteq L
    BY <1>5 DEF Led, Told
  <2> QED
    BY <2>2, <2>3 DEF Moves
<1> HIDE DEF r, L
<1>9. id \in Tsxs(s) => Ok(NoTsx, r) /\ Moves(L, s, r)
  BY <1>5, <1>6, <1>7, RankRange DEF Moves
<1> HIDE DEF t
<1>10. Ok(NoTsx, t) /\ Moves(L, s, t)
  BY <1>1, <1>5, <1>6, <1>9 DEF Moves
<1> QED
  BY <1>10 DEF t, L, id

-----------------------------------------------------------------------------
(* Requests inside the dialog.                                             *)
LEMMA StatelessOk ==
  ASSUME NEW s, Ok(NoTsx, s), NEW m \in Msgs, m.m = "INVITE" => m.c # 0,
         NEW code, code \in Codes, code >= 300
  PROVE  To({}, NoTsx, s, Stateless(s, m, code))
<1> DEFINE r == [kind |-> "rsp", to |-> Peer(s.me), m |-> m.m, c |-> m.c, code |-> code, sdp |-> Wire(NoSdp)]
<1>1. Wire(NoSdp) \in WireSdps /\ NoSdp \in Sdps
  BY NoSdpTyped, WireTyped
<1>2. Vouched(r, s.st)
  BY DEF Vouched, Is2xx, Codes
<1>3. r = [kind |-> "rsp", to |-> Peer(s.me), m |-> m.m, c |-> m.c, code |-> code, sdp |-> Wire(NoSdp)]
  OBVIOUS
<1> HIDE DEF r
<1>4. m.m \in Methods /\ m.c \in Nat /\ "rsp" \in {"req", "rsp"}
  BY DEF Msgs
<1>5. To({}, NoTsx, s, Send(s, "rsp", m.m, m.c, code, NoSdp))
  BY <1>1, <1>2, <1>3, <1>4, SendOk
<1> QED
  BY <1>5 DEF Stateless

LEMMA InDialogOk ==
  ASSUME NEW s, Ok(NoTsx, s), NEW m \in Msgs, m.m = "INVITE" => m.c # 0, Addressed(s, m), NEW d
  PROVE  LET t == InDialog(s, m, d) IN
         Ok(NoTsx, t) /\ Moves(IF m.m = "ACK" THEN {"confirmed", "disconnected"} ELSE Over, s, t)
<1> DEFINE id == TsxId("uas", m.m, m.c)
           s1 == [s EXCEPT !.rcs = m.c]
           n  == NewTsx("trying", FALSE, NoSdp)
           s2 == SetTsx(s1, id, n)
           s3 == OnRequest(s2, id, m.sdp, d)
           s4 == IF m.m = "UPDATE" /\ T(s3, id).code < 200 THEN Respond(s3, id, 500, NoSdp) ELSE s3
           t  == InDialog(s, m, d)
<1>1. \/ m.m = "ACK" /\ t = OnAck(s1, m.c, m.sdp, d)
      \/ m.m # "ACK" /\ t = Stateless(s, m, 500)
      \/ m.m # "ACK" /\ t = s4
  BY ZenonT(40) DEF InDialog
<1>2. /\ m.m \in Methods /\ m.c \in Nat /\ m.sdp \in Sdps
  BY DEF Msgs, WireSdps
<1>3. To({}, NoTsx, s, s1)
  BY <1>2, RcsOk
<1>4. Tsxs(s1) = Tsxs(s)
  BY DEF Tsxs
<1> HIDE DEF s1
<1>5. Ok(NoTsx, s1) /\ s1.st = s.st /\ s1.me = s.me
  BY <1>3 DEF To, Goes, Moves
<1>6. CASE m.m = "ACK" /\ t = OnAck(s1, m.c, m.sdp, d)
  <2>1. Ok(NoTsx, OnAck(s1, m.c, m.sdp, d)) /\ Moves({"confirmed"}, s1, OnAck(s1, m.c, m.sdp, d))
    BY <1>2, <1>5, OnAckOk
  <2> HIDE DEF t
  <2>2. Ok(NoTsx, t) /\ Moves({"confirmed", "disconnected"}, s, t)
    BY <1>5, <1>6, <2>1 DEF Moves
  <2> QED
    BY <1>6, <2>2 DEF t
<1>7. CASE m.m # "ACK" /\ t = Stateless(s, m, 500)
  <2>1. 500 \in Codes /\ 500 >= 300
    BY DEF Codes
  <2>2. To({}, NoTsx, s, Stateless(s, m, 500))
    BY <2>1, StatelessOk
  <2> HIDE DEF t
  <2>3. Ok(NoTsx, t) /\ Moves(Over, s, t)
    BY <1>7, <2>2 DEF To, Goes, Moves
  <2> QED
    BY <1>7, <2>3 DEF t
<1>8. CASE m.m # "ACK" /\ t = s4
  <2>1. /\ id \in Ids
        /\ RoleOf(id) = "uas" /\ MethodOf(id) = m.m /\ CSeqOf(id) = m.c
    BY <1>2, IdOf
  <2>2. n \in TsxRec /\ n.state = "trying"
    BY NewTsxTyped, NoSdpTyped DEF TsxStates
  <2>3. m.m = "CANCEL" => TsxId("uas", "INVITE", m.c) \in Tsxs(s)
    BY DEF Addressed
  <2> HIDE DEF id, n
  <2>4. To({}, NoTsx, s1, s2) /\ id \in Tsxs(s2)
    BY <1>5, <2>1, <2>2, NewTsxOk
  <2> HIDE DEF s2
  <2>5. MethodOf(id) = "CANCEL" => TsxId("uas", "INVITE", CSeqOf(id)) \in Tsxs(s2)
    BY <1>4, <2>1, <2>3, <2>4 DEF To, Goes
  <2>6. Ok(NoTsx, s3) /\ Moves(Over, s2, s3) /\ id \in Tsxs(s3)
    BY <1>2, <2>1, <2>4, <2>5, OnRequestOk DEF To
  <2> HIDE DEF s3
  <2>7. Ok(NoTsx, s4) /\ Moves({}, s3, s4)
    <3>1. 500 \in Codes
      BY DEF Codes
    <3>2. m.m = "UPDATE" => id # s3.itsx
      BY <2>1, <2>6 DEF Ok, Placed, NoTsx, MethodOf
    <3>3. m.m = "UPDATE" => To({}, NoTsx, s3, Respond(s3, id, 500, NoSdp))
      BY <2>1, <2>6, <3>1, <3>2, RespondOk, NoSdpTyped
    <3> QED
      BY <2>6, <3>3 DEF To, Goes, Moves
  <2> HIDE DEF s4
  <2>8. Ok(NoTsx, s4) /\ Moves(Over, s, s4)
    BY <1>5, <2>4, <2>6, <2>7 DEF To, Goes, Moves
  <2> QED
    BY <1>8, <2>8
<1> QED
  BY <1>1, <1>6, <1>7, <1>8

-----------------------------------------------------------------------------
(* Sessions that start.                                                    *)
LEMMA NewSessionTyped ==
  ASSUME NEW a \in Agents
  PROVE  /\ NewSession(a) \in Ses /\ NewSession(a).me = a /\ NewSession(a).st = "null"
         /\ NewSession(a).out = {} /\ Tsxs(NewSession(a)) = {}
<1>1. <<>> \in [{} -> TsxRec] /\ DOMAIN <<>> = {}
  OBVIOUS
<1>2. <<>> \in Tables
  BY <1>1, TableMade
<1>3. NoNeg \in Negs /\ NoSdp \in Sdps
  BY NoNegTyped, NoSdpTyped
<1>4. (IF a = Caller THEN 1 ELSE 11) \in Nat \ {0}
  OBVIOUS
<1> QED
  BY <1>1, <1>2, <1>3, <1>4 DEF NewSession, Ses, States, Tsxs

(* An INVITE leaves: the first one, or a re-INVITE.                        *)
LEMMA InviteSentOk ==
  ASSUME NEW s \in Ses, s.itsx = NoTsx, s.st \in {"null", "confirmed"},
         s.st = "null" => s.me = Caller /\ s.ackc = 0,
         Tracked(NoTsx, s), Sending(s), NEW sdp \in Sdps,
         NEW st, st = IF s.st = "null" THEN "calling" ELSE s.st, Sound(st, s.neg)
  PROVE  LET t == SendRequest(s, "INVITE", sdp) IN
         Ok(NoTsx, t) /\ t.me = s.me /\ t.st = st
<1> DEFINE c  == s.lcs
           id == TsxId("uac", "INVITE", c)
           n  == NewTsx("calling", TRUE, sdp)
           u  == SetTsx(s, id, n)
           v  == [u EXCEPT !.lcs = u.lcs + 1, !.itsx = id, !.st = st]
           r  == [kind |-> "req", to |-> Peer(v.me), m |-> "INVITE", c |-> c, code |-> 0, sdp |-> Wire(sdp)]
           t  == SendRequest(s, "INVITE", sdp)
<1>1. c \in Nat \ {0} /\ "INVITE" \in Methods /\ "uac" \in {"uac", "uas"}
  BY DEF Ses, Methods
<1>2. id \in Ids /\ RoleOf(id) = "uac" /\ MethodOf(id) = "INVITE" /\ CSeqOf(id) = c
  BY <1>1, IdOf
<1>3. n \in TsxRec /\ n.state = "calling"
  BY NewTsxTyped DEF TsxStates
<1>4. t = Send([u EXCEPT !.lcs = @ + 1, !.itsx = id, !.st = IF @ = "null" THEN "calling" ELSE @],
               "req", "INVITE", c, 0, sdp)
  BY DEF SendRequest
<1> HIDE DEF id, n, c
<1>5. /\ u \in Ses
      /\ u.me = s.me /\ u.st = s.st /\ u.neg = s.neg /\ u.itsx = s.itsx /\ u.lcs = s.lcs
      /\ u.out = s.out /\ u.ackc = s.ackc
      /\ Tsxs(u) = Tsxs(s) \cup {id}
      /\ T(u, id) = n
      /\ \A i \in Tsxs(s) : i # id => T(u, i) = T(s, i)
  BY <1>2, <1>3, TsxSet
<1> HIDE DEF u
<1>6. t = Send(v, "req", "INVITE", c, 0, sdp)
  BY <1>4, <1>5
<1>7. st \in States /\ u.lcs + 1 \in Nat \ {0}
  BY <1>1, <1>5 DEF States, c
<1>8. v \in Ses
  BY <1>2, <1>5, <1>7, Zenon DEF Ses
<1>9. /\ v.me = s.me /\ v.st = st /\ v.neg = s.neg /\ v.itsx = id
      /\ v.out = s.out /\ v.ackc = s.ackc /\ v.tsx = u.tsx
  BY <1>5 DEF Ses
<1> HIDE DEF v
<1>10. Tsxs(v) = Tsxs(s) \cup {id} /\ T(v, id) = n /\ \A i \in Tsxs(s) : i # id => T(v, i) = T(s, i)
  BY <1>5, <1>9 DEF Tsxs, T
<1>11. Rank(st) >= Rank(s.st) /\ (s.st # "null" => Rank(st) >= 3)
  BY DEF Rank
<1>12. Placed(v)
  <2>1. (st = "calling" /\ s.me = Caller) \/ st = "confirmed"
    OBVIOUS
  <2>2. v.ackc # 0 => Rank(v.st) >= 3
    BY <1>9, <1>11
  <2>3. Role(v) = "uac" \/ st = "confirmed"
    BY <1>9, <2>1 DEF Role
  <2> QED
    <3>1. v.st # "null" /\ (v.me = Caller => v.st # "incoming") /\ (v.me = Callee => v.st # "calling")
      BY <1>9, <2>1 DEF Caller, Callee
    <3>2. v.itsx = id /\ id \in Tsxs(v) /\ MethodOf(id) = "INVITE" /\ id # NoTsx
      BY <1>2, <1>9, <1>10, IdParts
    <3>3. v.st \in {"calling", "incoming", "early"} => RoleOf(v.itsx) = Role(v)
      BY <1>2, <1>9, <2>1, <2>3
    <3> QED
      BY <2>2, <3>1, <3>2, <3>3 DEF Placed
<1>13. Tracked(NoTsx, v)
  <2>1. ~(T(v, v.itsx).state \in {"completed", "terminated"})
    BY <1>3, <1>9, <1>10
  <2>2. ASSUME NEW i \in Tsxs(v), MethodOf(i) = "INVITE"
        PROVE  /\ CSeqOf(i) # 0
               /\ T(v, i).state = "completed" /\ Is2xx(T(v, i).code) => RoleOf(i) = "uas" /\ Rank(v.st) >= 3
    <3>1. CASE i = id
      BY <1>1, <1>2, <1>3, <1>10, <3>1
    <3>2. CASE i # id
      BY <1>9, <1>10, <1>11, <2>2, <3>2, RankRange DEF Tracked
    <3> QED
      BY <3>1, <3>2
  <2> QED
    BY <2>1, <2>2 DEF Tracked
<1>14. Sending(v)
  BY <1>9, <1>11, RankRange DEF Sending, Vouched
<1>15. Ok(NoTsx, v)
  BY <1>8, <1>9, <1>12, <1>13, <1>14 DEF Ok
<1>16. To({}, NoTsx, v, Send(v, "req", "INVITE", c, 0, sdp))
  <2>1. Wire(sdp) \in WireSdps /\ "req" \in {"req", "rsp"} /\ 0 \in Codes /\ c \in Nat
    BY <1>1, WireTyped DEF Codes
  <2>2. Vouched(r, v.st)
    BY <1>1 DEF Vouched
  <2>3. r = [kind |-> "req", to |-> Peer(v.me), m |-> "INVITE", c |-> c, code |-> 0, sdp |-> Wire(sdp)]
    OBVIOUS
  <2> HIDE DEF r
  <2> QED
    BY <1>1, <1>15, <2>1, <2>2, <2>3, SendOk
<1> HIDE DEF t
<1>17. Ok(NoTsx, t) /\ t.me = s.me /\ t.st = st
  BY <1>6, <1>9, <1>16 DEF To, Goes, Moves
<1> QED
  BY <1>17 DEF t

(* The first INVITE arrives, and is answered with 100.                     *)
LEMMA CreateUasOk ==
  ASSUME NEW m \in Msgs, m.m = "INVITE", m.c # 0
  PROVE  LET t == CreateUas(NewSession(Callee), m) IN
         Ok(NoTsx, t) /\ t.me = Callee /\ t.st = "incoming"
<1> DEFINE s  == NewSession(Callee)
           id == TsxId("uas", "INVITE", m.c)
           b  == m.sdp # NoSdp
           n  == [NewTsx("trying", TRUE, NoSdp) EXCEPT !.has = b]
           g  == IF b THEN CreateWithRemoteOffer(m.sdp, "inv") ELSE NoNeg
           u  == SetTsx(s, id, n)
           v  == [u EXCEPT !.itsx = id, !.rcs = m.c, !.neg = g]
           w  == [v EXCEPT !.st = "incoming"]
           t  == CreateUas(s, m)
<1>1. /\ s \in Ses /\ s.me = Callee /\ s.st = "null" /\ s.out = {} /\ Tsxs(s) = {} /\ s.ackc = 0
  BY NewSessionTyped DEF Agents, NewSession
<1>2. m.c \in Nat /\ m.sdp \in Sdps /\ "INVITE" \in Methods /\ "uas" \in {"uac", "uas"}
  BY DEF Msgs, WireSdps, Methods
<1>3. id \in Ids /\ RoleOf(id) = "uas" /\ MethodOf(id) = "INVITE" /\ CSeqOf(id) = m.c /\ id # NoTsx
  BY <1>2, IdOf, IdParts
<1>4. n \in TsxRec /\ n.state = "trying"
  <2>1. NewTsx("trying", TRUE, NoSdp) \in TsxRec /\ NewTsx("trying", TRUE, NoSdp).state = "trying"
    BY NewTsxTyped, NoSdpTyped DEF TsxStates
  <2>2. b \in BOOLEAN
    OBVIOUS
  <2> HIDE DEF b
  <2> QED
    BY <2>1, <2>2 DEF TsxRec
<1>5. g \in Negs /\ Sound("incoming", g)
  <2>1. CreateWithRemoteOffer(m.sdp, "inv") \in Negs /\ Sound("incoming", CreateWithRemoteOffer(m.sdp, "inv"))
    BY <1>2, RemoteOfferCreated
  <2>2. NoNeg \in Negs /\ Sound("incoming", NoNeg)
    BY NoNegTyped DEF Sound
  <2> QED
    BY <2>1, <2>2
<1>6. t = Respond(v, id, 100, NoSdp)
  BY DEF CreateUas
<1> HIDE DEF s, id, n, g
<1>7. /\ u \in Ses
      /\ u.me = Callee /\ u.st = "null"
      /\ u.out = {} /\ u.ackc = 0
      /\ Tsxs(u) = {id} /\ T(u, id) = n
  BY <1>1, <1>3, <1>4, TsxSet
<1> HIDE DEF u
<1>8. "incoming" \in States
  BY DEF States
<1>9. v \in Ses /\ w \in Ses
  BY <1>2, <1>3, <1>5, <1>7, <1>8, Zenon DEF Ses
<1>10. /\ w.me = Callee /\ w.st = "incoming" /\ w.itsx = id /\ w.neg = g
       /\ w.out = {} /\ w.ackc = 0 /\ w.tsx = u.tsx
       /\ v.st = "null" /\ v.itsx = id /\ v.tsx = u.tsx
  BY <1>7 DEF Ses
<1>11. /\ Tsxs(w) = {id} /\ T(w, id) = n
  BY <1>7, <1>10 DEF Tsxs, T
<1>12. Ok(NoTsx, w)
  <2>1. Placed(w)
    BY <1>3, <1>10, <1>11 DEF Placed, Role, Caller, Callee
  <2>2. Tracked(NoTsx, w)
    BY <1>3, <1>4, <1>10, <1>11 DEF Tracked
  <2>3. Sending(w)
    BY <1>10 DEF Sending
  <2> QED
    BY <1>5, <1>9, <1>10, <2>1, <2>2, <2>3 DEF Ok
<1>13. Respond(v, id, 100, NoSdp) = Respond(w, id, 100, NoSdp)
  <2> DEFINE x == [T(v, id) EXCEPT !.state = "proceeding", !.code = 100, !.sdp = Wire(NoSdp)]
             y == [T(w, id) EXCEPT !.state = "proceeding", !.code = 100, !.sdp = Wire(NoSdp)]
             p == Send(SetTsx(v, id, x), "rsp", MethodOf(id), CSeqOf(id), 100, NoSdp)
             q == Send(SetTsx(w, id, y), "rsp", MethodOf(id), CSeqOf(id), 100, NoSdp)
  <2>1. Respond(v, id, 100, NoSdp) = AnswerSent(p, 100) /\ Respond(w, id, 100, NoSdp) = AnswerSent(q, 100)
    BY <1>10 DEF Respond, Is1xx
  <2>2. x = y /\ Tsxs(v) = Tsxs(w) /\ v.me = w.me
    BY <1>10 DEF T, Tsxs
  <2>3. p.st = "null" /\ q.st = "incoming" /\ q = [p EXCEPT !.st = "incoming"]
    <3> DEFINE f == [i \in Tsxs(v) \cup {id} |-> IF i = id THEN x ELSE T(v, i)]
               g2 == [i \in Tsxs(w) \cup {id} |-> IF i = id THEN y ELSE T(w, i)]
               o == v.out \cup {[kind |-> "rsp", to |-> Peer(v.me), m |-> MethodOf(id), c |-> CSeqOf(id),
                                 code |-> 100, sdp |-> Wire(NoSdp)]}
    <3>1. f = g2
      BY <1>10, <2>2 DEF T
    <3>2. /\ SetTsx(v, id, x) = [v EXCEPT !.tsx = f]
          /\ SetTsx(w, id, y) = [w EXCEPT !.tsx = g2]
      BY DEF SetTsx
    <3>3. v.out = w.out /\ w = [v EXCEPT !.st = "incoming"]
      BY <1>9 DEF Ses
    <3> HIDE DEF f, g2
    <3> DEFINE a == [v EXCEPT !.tsx = f]
               e == [w EXCEPT !.tsx = f]
    <3>a. p = Send(a, "rsp", MethodOf(id), CSeqOf(id), 100, NoSdp) /\ a.out = v.out /\ a.me = v.me
      BY <1>9, <3>2 DEF Ses
    <3>b. q = Send(e, "rsp", MethodOf(id), CSeqOf(id), 100, NoSdp) /\ e.out = v.out /\ e.me = v.me
      BY <1>9, <2>2, <3>1, <3>2, <3>3 DEF Ses
    <3> HIDE DEF a, e, p, q
    <3>c. p = [a EXCEPT !.out = o] /\ q = [e EXCEPT !.out = o]
      BY <3>a, <3>b DEF Send
    <3>4. p = [[v EXCEPT !.tsx = f] EXCEPT !.out = o]
      BY <3>c DEF a
    <3>5. q = [[w EXCEPT !.tsx = f] EXCEPT !.out = o]
      BY <3>c DEF e
    <3> HIDE DEF o, w
    <3> QED
      BY <1>9, <1>10, <3>3, <3>4, <3>5, ZenonT(40) DEF Ses
  <2> HIDE DEF p, q
  <2>4. AnswerSent(p, 100) = [p EXCEPT !.st = "incoming"] /\ AnswerSent(q, 100) = q
    BY <2>3 DEF AnswerSent, SetState, Is2xx
  <2> QED
    BY <2>1, <2>3, <2>4
<1>14. To({}, NoTsx, w, Respond(w, id, 100, NoSdp))
  <2>1. 100 \in Codes /\ 100 >= 100 /\ ~(100 \in 101 .. 299) /\ NoSdp \in Sdps /\ id \in Tsxs(w)
    BY <1>11, NoSdpTyped DEF Codes
  <2> QED
    BY <1>3, <1>12, <2>1, RespondOk
<1>15. Ok(NoTsx, t) /\ t.me = Callee /\ t.st = "incoming"
  BY <1>6, <1>10, <1>13, <1>14 DEF To, Goes, Moves
<1> QED
  BY <1>15 DEF s

(* A session that has not started acknowledges an answer.  (No answer      *)
(* reaches one, but the invariant need not know.)                          *)
LEMMA NewAckOk ==
  ASSUME NEW c \in Nat, c # 0, NEW d
  PROVE  LET t == SendAck(NewSession(Callee), c, d) IN
         Ok(NoTsx, t) /\ t.me = Callee /\ t.st = "confirmed"
<1> DEFINE s == NewSession(Callee)
           w == Wire(NoSdp)
           k == [s EXCEPT !.ackc = c, !.acksdp = w]
           p == Send(k, "req", "ACK", c, 0, k.acksdp)
           u == [s EXCEPT !.st = "confirmed"]
           v == [u EXCEPT !.ackc = c, !.acksdp = w]
           q == Send(v, "req", "ACK", c, 0, v.acksdp)
<1>1. /\ s \in Ses /\ s.me = Callee /\ s.st = "null" /\ s.out = {} /\ Tsxs(s) = {} /\ s.ackc = 0
      /\ s.itsx = NoTsx /\ s.neg = NoNeg
  BY NewSessionTyped DEF Agents, NewSession
<1>2. w \in Sdps
  BY NoSdpTyped, WireTyped
<1>3. SendAck(s, c, d) = SetState(p, "confirmed")
  <2>1. PendingAnswer(s, d) = [s |-> s, sdp |-> NoSdp]
    BY <1>1, NoNegTyped DEF PendingAnswer, HasLocalAnswer
  <2> HIDE DEF s
  <2>2. CreateAck(s, c, d) = k
    BY <2>1 DEF CreateAck
  <2> QED
    BY <1>1, <2>2 DEF SendAck
<1> HIDE DEF s, w
<1>4. SetState(p, "confirmed") = [p EXCEPT !.st = "confirmed"]
  <2>1. p.itsx = NoTsx /\ Tsxs(p) = {}
    BY <1>1 DEF Send, Tsxs, Ses
  <2> HIDE DEF p
  <2> QED
    BY <2>1 DEF SetState
<1>5. [p EXCEPT !.st = "confirmed"] = q
  BY <1>1 DEF Send, Ses
<1>6. "confirmed" \in States
  BY DEF States
<1>7. u \in Ses
  BY <1>1, <1>6, Zenon DEF Ses
<1>8. /\ u.me = Callee /\ u.st = "confirmed" /\ u.out = {} /\ u.ackc = 0 /\ u.itsx = NoTsx
      /\ u.neg = NoNeg /\ Tsxs(u) = {}
  BY <1>1 DEF Tsxs, Ses
<1>9. Rank("confirmed") >= 3
  BY DEF Rank
<1>10. Ok(NoTsx, u)
  BY <1>7, <1>8, NoNegTyped DEF Ok, Placed, Tracked, Sending, Sound, Caller, Callee
<1> HIDE DEF u
<1>11. To({}, NoTsx, u, v)
  BY <1>2, <1>8, <1>9, <1>10, AckOk
<1>12. v.acksdp = w
  BY <1>7 DEF Ses
<1> HIDE DEF v
<1>13. To({}, NoTsx, v, q)
  <2> DEFINE r == [kind |-> "req", to |-> Peer(v.me), m |-> "ACK", c |-> c, code |-> 0, sdp |-> Wire(w)]
  <2>1. Wire(w) \in WireSdps /\ "req" \in {"req", "rsp"} /\ 0 \in Codes /\ "ACK" \in Methods
    BY <1>2, WireTyped DEF Codes, Methods
  <2>2. Vouched(r, v.st)
    BY <1>8, <1>9, <1>11 DEF Vouched, To, Goes, Moves
  <2>3. r = [kind |-> "req", to |-> Peer(v.me), m |-> "ACK", c |-> c, code |-> 0, sdp |-> Wire(w)]
    OBVIOUS
  <2> HIDE DEF r
  <2>4. Ok(NoTsx, v)
    BY <1>11 DEF To
  <2> QED
    BY <1>2, <1>12, <2>1, <2>2, <2>3, <2>4, SendOk
<1> HIDE DEF q
<1>14. Ok(NoTsx, q) /\ q.me = Callee /\ q.st = "confirmed"
  BY <1>8, <1>11, <1>13 DEF To, Goes, Moves
<1> QED
  BY <1>3, <1>4, <1>5, <1>14 DEF s

-----------------------------------------------------------------------------
(* The invariant: each session is new or as above, with nothing left to    *)
(* send, each message is vouched for by the session that sent it, and      *)
(* nothing happens before the caller starts.                               *)
Held(a) == ses[a].me = a /\ ses[a].out = {} /\ (ses[a] = NewSession(a) \/ Ok(NoTsx, ses[a]))

IInv ==
    /\ ses \in [Agents -> Ses]
    /\ \A a \in Agents : Held(a)
    /\ net \subseteq Msgs
    /\ \A m \in net : Vouched(m, ses[Peer(m.to)].st)
    /\ ses[Caller].st = "null" => net = {} /\ ses[Callee].st = "null"

(* The caller has started.                                                 *)
Begun == ses[Caller].st # "null"

LEMMA PeerOf ==
  ASSUME NEW a \in Agents
  PROVE  Peer(a) \in Agents /\ Peer(a) # a /\ Peer(Peer(a)) = a /\ (Peer(a) = Callee => a = Caller)
BY DEF Agents, Peer, Caller, Callee

LEMMA Started ==
  ASSUME IInv, NEW a \in Agents, ses[a].st # "null" \/ Tsxs(ses[a]) # {}
  PROVE  Ok(NoTsx, ses[a]) /\ Begun /\ ses[a].me = a /\ ses[a].st # "null"
<1>1. Ok(NoTsx, ses[a]) /\ ses[a].me = a
  BY NewSessionTyped DEF IInv, Held
<1>2. ses[a].st # "null"
  BY <1>1 DEF Ok, Placed
<1> QED
  BY <1>1, <1>2 DEF IInv, Begun, Agents

(* The states of the sessions, as CallLifecycle sees them.                 *)
LEMMA RankSame == \A state \in States : state \in DOMAIN Lifecycle!Rank /\ Lifecycle!Rank[state] = Rank(state)
BY DEF States, Lifecycle!Rank, Rank

LEMMA PeerSame == \A a : Lifecycle!Peer(a) = Peer(a)
BY DEF Lifecycle!Peer, Peer

MayEnter(a, state) == Lifecycle!Entitled(a, state, ses[Peer(a)].st)

LEMMA MayEnd ==
  ASSUME NEW a \in Agents, Begun
  PROVE  MayEnter(a, "disconnected")
BY DEF MayEnter, Begun, Agents, Peer, Lifecycle!Entitled

LEMMA MayAnswer ==
  ASSUME Begun, NEW state \in Answers
  PROVE  MayEnter(Callee, state)
BY DEF MayEnter, Begun, Answers, Peer, Caller, Callee, Lifecycle!Entitled

LEMMA MayConfirm ==
  ASSUME IInv, NEW a \in Agents, Rank(ses[Peer(a)].st) >= 3
  PROVE  MayEnter(a, "confirmed") /\ MayEnter(a, "connecting") /\ MayEnter(a, "early")
<1>1. Lifecycle!Rank[ses[Peer(a)].st] = Rank(ses[Peer(a)].st) /\ Lifecycle!Rank["connecting"] = 3
  BY RankSame, PeerOf DEF IInv, Ses, States, Rank
<1>2. ses[Peer(a)].st \notin {"null", "incoming"}
  BY DEF Rank
<1> QED
  BY <1>1, <1>2 DEF MayEnter, Lifecycle!Entitled

LEMMA MayRing ==
  ASSUME NEW a, Rank(ses[Peer(a)].st) >= 2
  PROVE  MayEnter(a, "early")
<1>1. ses[Peer(a)].st \notin {"null", "incoming"}
  BY DEF Rank
<1> QED
  BY <1>1 DEF MayEnter, Lifecycle!Entitled

LEMMA VouchedOn ==
  ASSUME NEW m, NEW s, NEW t, Vouched(m, s), Rank(t) >= Rank(s)
  PROVE  Vouched(m, t)
BY RankRange DEF Vouched

(* A step that leaves session a as Ok says, in a state it is entitled to,  *)
(* keeps the invariant and the promise.                                    *)
LEMMA Lands ==
  ASSUME IInv, NEW a \in Agents, NEW L, NEW t, Ok(NoTsx, t), Moves(L, ses[a], t),
         a = Caller \/ Begun, \A state \in L : MayEnter(a, state),
         ses' = [ses EXCEPT ![a] = [t EXCEPT !.out = {}]], net' \subseteq net \cup t.out
  PROVE  IInv' /\ [Lifecycle!Next]_([b \in Agents |-> ses[b].st])
<1> DEFINE u == [t EXCEPT !.out = {}]
<1>1. t \in Ses /\ t.me = a
  BY DEF Ok, Moves, IInv, Held
<1>2. u \in Ses
  BY <1>1 DEF Ses
<1>3. /\ u.me = a /\ u.st = t.st /\ u.neg = t.neg /\ u.itsx = t.itsx
      /\ u.tsx = t.tsx /\ u.out = {} /\ u.ackc = t.ackc
  BY <1>1 DEF Ses
<1> HIDE DEF u
<1>4. Ok(NoTsx, u)
  <2>1. Placed(u) /\ Tracked(NoTsx, u)
    BY <1>1, <1>3 DEF Ok, Placed, Tracked, Tsxs, T, Role
  <2> QED
    BY <1>2, <1>3, <2>1 DEF Ok, Sending
<1>5. ses'[a] = u /\ \A b \in Agents : b # a => ses'[b] = ses[b]
  BY DEF IInv, u
<1>6. ses' \in [Agents -> Ses]
  BY <1>2 DEF IInv, u
<1>7. Rank(u.st) >= Rank(ses[a].st)
  BY <1>3, RankRange DEF Moves
<1>8. \A b \in Agents : Held(b)'
  <2> SUFFICES ASSUME NEW b \in Agents PROVE Held(b)'
    OBVIOUS
  <2>1. CASE b = a
    BY <1>3, <1>4, <1>5, <2>1 DEF Held
  <2>2. CASE b # a
    BY <1>5, <2>2 DEF IInv, Held
  <2> QED
    BY <2>1, <2>2
<1>9. \A b \in Agents : Rank(ses'[b].st) >= Rank(ses[b].st)
  <2> SUFFICES ASSUME NEW b \in Agents PROVE Rank(ses'[b].st) >= Rank(ses[b].st)
    OBVIOUS
  <2>1. CASE b = a
    BY <1>5, <1>7, <2>1
  <2>2. CASE b # a
    <3>1. Rank(ses[b].st) \in 0 .. 5
      BY RankRange
    <3> QED
      BY <1>5, <2>2, <3>1
  <2> QED
    BY <2>1, <2>2
<1>10. \A m \in net' : m \in Msgs /\ Vouched(m, ses'[Peer(m.to)].st)
  <2> SUFFICES ASSUME NEW m \in net' PROVE m \in Msgs /\ Vouched(m, ses'[Peer(m.to)].st)
    OBVIOUS
  <2>1. CASE m \in net
    <3>1. m \in Msgs /\ Peer(m.to) \in Agents /\ Vouched(m, ses[Peer(m.to)].st)
      BY <2>1, PeerOf DEF IInv, Msgs
    <3> QED
      BY <1>9, <3>1, VouchedOn
  <2>2. CASE m \in t.out
    <3>1. m.to = Peer(a) /\ Vouched(m, t.st) /\ m \in Msgs
      BY <1>1, <2>2 DEF Ok, Sending, Ses
    <3> QED
      BY <1>3, <1>5, <3>1, PeerOf
  <2> QED
    BY <2>1, <2>2
<1>11. ses'[Caller].st # "null"
  <2>1. Caller \in Agents
    BY DEF Agents
  <2>2. u.st # "null"
    BY <1>4 DEF Ok, Placed
  <2> QED
    BY <1>5, <2>1, <2>2 DEF Begun
<1>12. IInv'
  BY <1>6, <1>8, <1>10, <1>11 DEF IInv
<1> DEFINE f == [b \in Agents |-> ses[b].st]
<1>13. CASE u.st = ses[a].st
  <2>1. \A b \in Agents : ses'[b].st = ses[b].st
    BY <1>5, <1>13
  <2>2. [b \in Agents |-> ses'[b].st] = [b \in Agents |-> ses[b].st]
    BY <2>1
  <2> QED
    BY <1>12, <2>2
<1>14. CASE u.st # ses[a].st
  <2>1. u.st \in L /\ Rank(u.st) > Rank(ses[a].st)
    BY <1>3, <1>14 DEF Moves
  <2>2. u.st \in States /\ ses[a].st \in States
    BY <1>2 DEF IInv, Ses
  <2>3. u.st \in DOMAIN Lifecycle!Rank /\ Lifecycle!Rank[u.st] > Lifecycle!Rank[f[a]]
    BY <2>1, <2>2, RankSame
  <2>4. Lifecycle!Entitled(a, u.st, f[Lifecycle!Peer(a)])
    BY <2>1, PeerOf, PeerSame DEF MayEnter
  <2>5. f' = [f EXCEPT ![a] = u.st]
    <3>1. \A b \in Agents : ses'[b].st = IF b = a THEN u.st ELSE ses[b].st
      <4> SUFFICES ASSUME NEW b \in Agents PROVE ses'[b].st = IF b = a THEN u.st ELSE ses[b].st
        OBVIOUS
      <4>1. CASE b = a
        <5>1. ses'[b] = u
          BY <1>5, <4>1
        <5>2. ses'[b].st = u.st
          BY <5>1
        <5> QED
          BY <4>1, <5>2
      <4>2. CASE b # a
        BY <1>5, <4>2
      <4> QED
        BY <4>1, <4>2
    <3>2. [b \in Agents |-> ses'[b].st] = [f EXCEPT ![a] = u.st]
      BY <3>1
    <3> QED
      BY <3>2
  <2>6. a \in {Caller, Callee}
    BY DEF Agents
  <2>7. Lifecycle!Advance(a, u.st)
    BY <2>3, <2>4, <2>5 DEF Lifecycle!Advance
  <2> QED
    BY <1>12, <2>3, <2>6, <2>7 DEF Lifecycle!Next
<1> QED
  BY <1>13, <1>14

(* A step that changes no session.                                         *)
LEMMA Stays ==
  ASSUME IInv, Begun, ses' = ses, NEW r \in Msgs, Vouched(r, ses[Peer(r.to)].st), net' \subseteq net \cup {r}
  PROVE  IInv' /\ UNCHANGED [b \in Agents |-> ses[b].st]
<1>1. \A a \in Agents : Held(a)'
  BY DEF IInv, Held
<1>2. \A m \in net' : m \in Msgs /\ Vouched(m, ses'[Peer(m.to)].st)
  BY DEF IInv
<1> QED
  BY <1>1, <1>2 DEF IInv, Begun

-----------------------------------------------------------------------------
(* The steps.                                                              *)
Keeps == IInv' /\ [Lifecycle!Next]_([a \in Agents |-> ses[a].st])

(* What a session may become: it stays in its state, or goes forward to    *)
(* one it may enter.                                                       *)
Lawful(a, t) ==
    /\ Ok(NoTsx, t) /\ t.me = ses[a].me
    /\ t.st = ses[a].st \/ (Rank(t.st) > Rank(ses[a].st) /\ MayEnter(a, t.st))

LEMMA LawfulIf ==
  ASSUME NEW a, NEW L, NEW t, Ok(NoTsx, t), Moves(L, ses[a], t), \A state \in L : MayEnter(a, state)
  PROVE  Lawful(a, t)
BY DEF Lawful, Moves

LEMMA LawfulLands ==
  ASSUME IInv, NEW a \in Agents, NEW t, Lawful(a, t), a = Caller \/ Begun,
         ses' = [ses EXCEPT ![a] = [t EXCEPT !.out = {}]], net' \subseteq net \cup t.out
  PROVE  Keeps
<1>1. ASSUME NEW L, Moves(L, ses[a], t), \A state \in L : MayEnter(a, state) PROVE Keeps
  BY <1>1, Lands DEF Lawful, Keeps
<1>2. Moves({}, ses[a], t) \/ (Moves({t.st}, ses[a], t) /\ \A state \in {t.st} : MayEnter(a, state))
  BY DEF Lawful, Moves
<1> QED
  BY <1>1, <1>2

LEMMA BecomesKeeps ==
  ASSUME IInv, NEW a \in Agents, NEW t, Lawful(a, t), a = Caller \/ Begun, Becomes(a, t)
  PROVE  Keeps
BY LawfulLands DEF Becomes

LEMMA TakeKeeps ==
  ASSUME IInv, NEW a \in Agents, NEW t, Lawful(a, t), Begun, NEW m, Take(m, a, t)
  PROVE  Keeps
<1>1. net' \subseteq net \cup t.out
  BY DEF Take
<1> QED
  BY <1>1, LawfulLands DEF Take

(* A step of a session that has started and enters no state but the end.   *)
LEMMA QuietKeeps ==
  ASSUME IInv, NEW a \in Agents, Begun, NEW t, Ok(NoTsx, t), Moves({"disconnected"}, ses[a], t), Becomes(a, t)
  PROVE  Keeps
<1>1. \A state \in {"disconnected"} : MayEnter(a, state)
  BY MayEnd
<1>2. Lawful(a, t)
  BY <1>1, LawfulIf
<1> QED
  BY <1>2, BecomesKeeps

LEMMA InviteKeeps ==
  ASSUME IInv, Invite
  PROVE  Keeps
<1> DEFINE s  == ses[Caller]
           offer == CreateWithLocalOffer(Fresh(s), "inv")
           s1 == Used([s EXCEPT !.neg = offer])
<1>1. s = NewSession(Caller) /\ s.st = "null" /\ Caller \in Agents
  BY DEF Invite, IInv, Held, Ok, Placed, Agents
<1>2. /\ s \in Ses /\ s.me = Caller /\ s.out = {} /\ Tsxs(s) = {}
      /\ s.itsx = NoTsx /\ s.ackc = 0 /\ s.neg = NoNeg
  BY <1>1, NewSessionTyped DEF NewSession
<1>3. offer \in Negs /\ Sound("calling", offer) /\ offer.nl \in Sdps
  <2>1. offer \in Negs /\ Sound("calling", offer)
    BY <1>2, FreshTyped, LocalOfferCreated
  <2> QED
    BY <2>1 DEF Negs
<1>4. \/ Becomes(Caller, SendRequest(s1, "INVITE", offer.nl))
      \/ Becomes(Caller, SendRequest(s, "INVITE", NoSdp))
  BY DEF Invite
<1> HIDE DEF offer
<1>5. /\ s1 \in Ses /\ s1.me = Caller /\ s1.st = "null" /\ s1.out = {} /\ s1.tsx = s.tsx
      /\ s1.itsx = NoTsx /\ s1.ackc = 0 /\ s1.neg = offer
  <2> DEFINE k == [s EXCEPT !.neg = offer]
  <2>1. k \in Ses
    BY <1>2, <1>3, Zenon DEF Ses
  <2>2. /\ k.me = Caller /\ k.st = "null" /\ k.out = {} /\ k.tsx = s.tsx
        /\ k.itsx = NoTsx /\ k.ackc = 0 /\ k.neg = offer
    BY <1>1, <1>2 DEF Ses
  <2>3. s1 = [k EXCEPT !.bodies = @ + 1]
    BY DEF Used
  <2> HIDE DEF k, s, s1
  <2> QED
    BY <2>1, <2>2, <2>3 DEF Ses
<1> HIDE DEF s1
<1>6. Tsxs(s1) = {}
  BY <1>2, <1>5 DEF Tsxs
<1>7. Rank("calling") > Rank("null")
  BY DEF Rank
<1>8. \A state \in {"calling"} : MayEnter(Caller, state)
  BY DEF MayEnter, Lifecycle!Entitled
<1>9. ASSUME NEW v \in {s, s1}, NEW sdp \in Sdps, Becomes(Caller, SendRequest(v, "INVITE", sdp))
      PROVE  Keeps
  <2>1. /\ v \in Ses /\ v.me = Caller /\ v.st = "null" /\ v.out = {} /\ Tsxs(v) = {}
        /\ v.itsx = NoTsx /\ v.ackc = 0 /\ Sound("calling", v.neg)
    BY <1>1, <1>2, <1>3, <1>5, <1>6, NoNegTyped DEF Sound
  <2>2. Tracked(NoTsx, v) /\ Sending(v)
    BY <2>1 DEF Tracked, Sending
  <2> DEFINE t == SendRequest(v, "INVITE", sdp)
  <2>3. Ok(NoTsx, t) /\ t.me = Caller /\ t.st = "calling"
    BY <2>1, <2>2, InviteSentOk
  <2> HIDE DEF t
  <2>4. Moves({"calling"}, ses[Caller], t)
    BY <1>1, <1>2, <1>7, <2>3 DEF Moves
  <2>5. Becomes(Caller, t)
    BY <1>9 DEF t
  <2>6. Lawful(Caller, t)
    BY <1>8, <2>3, <2>4, LawfulIf
  <2> QED
    BY <1>1, <2>5, <2>6, BecomesKeeps
<1> QED
  BY <1>3, <1>4, <1>9, NoSdpTyped

LEMMA SetLocalSdpKeeps ==
  ASSUME IInv, SetLocalSdp
  PROVE  Keeps
<1> DEFINE s == ses[Callee]
           n == CreateWithLocalOffer(Fresh(s), "inv")
           k == SetLocalAnswer(s.neg, Fresh(s), "prov")
<1>1. Callee \in Agents /\ Ok(NoTsx, s) /\ Begun
  BY Started DEF SetLocalSdp, Agents
<1>2. s \in Ses /\ s.neg \in Negs /\ Sound(s.st, s.neg)
  BY <1>1 DEF Ok, Ses
<1>3. Fresh(s) \in Sdps
  BY <1>2, FreshTyped
<1>4. \/ Becomes(Callee, Used([s EXCEPT !.neg = n]))
      \/ /\ AnsweredOnce => s.neg.state = "REMOTE_OFFER"
         /\ Becomes(Callee, Used([s EXCEPT !.neg = k]))
  BY DEF SetLocalSdp, AnsweredOnce, NegState
<1>5. n \in Negs /\ Sound(s.st, n)
  BY <1>3, LocalOfferCreated
<1>6. (AnsweredOnce => s.neg.state = "REMOTE_OFFER") => k \in Negs /\ Sound(s.st, k)
  BY <1>2, <1>3, LocalAnswerSet
<1> HIDE DEF n, k
<1>7. ASSUME NEW g \in Negs, Sound(s.st, g), Becomes(Callee, Used([s EXCEPT !.neg = g]))
      PROVE  Keeps
  <2> DEFINE u == [s EXCEPT !.neg = g]
  <2>1. To({}, NoTsx, s, u)
    BY <1>1, <1>7, NegOk
  <2>2. Becomes(Callee, Used(u))
    BY <1>7
  <2> HIDE DEF u
  <2>3. To({}, NoTsx, u, Used(u))
    BY <2>1, UsedOk DEF To
  <2>4. To({}, NoTsx, s, Used(u))
    BY <1>1, <2>1, <2>3, Then
  <2>5. Ok(NoTsx, Used(u)) /\ Moves({"disconnected"}, s, Used(u))
    BY <2>4 DEF To, Goes, Moves
  <2> QED
    BY <1>1, <2>2, <2>5, QuietKeeps
<1> QED
  BY <1>4, <1>5, <1>6, <1>7

LEMMA AnswerCallKeeps ==
  ASSUME IInv, AnswerCall
  PROVE  Keeps
<1> DEFINE s == ses[Callee]
<1>1. Callee \in Agents /\ Ok(NoTsx, s) /\ Begun /\ s.me = Callee /\ s.st \in {"incoming", "early"}
  BY Started DEF AnswerCall, Agents
<1> DEFINE C == (IF "ring" \in Ops THEN {180} ELSE {}) \cup (IF "early media" \in Ops THEN {183} ELSE {}) \cup {200}
<1>2. \E code \in C, d \in Decisions :
        /\ code > T(s, s.itsx).code
        /\ code # 180 => /\ NegState(s) \notin {"NULL", "REMOTE_OFFER"}
                         /\ NegState(s) = "DONE" => s.neg.al # NoSdp
        /\ Becomes(Callee, Answer(s, code, d))
  BY Zenon DEF AnswerCall
<1>a. \A code \in C : code \in {180, 183, 200}
  BY ZenonT(40)
<1> HIDE DEF C
<1>b. PICK code \in C, d \in Decisions : Becomes(Callee, Answer(s, code, d))
  BY <1>2
<1>c. code \in {180, 183, 200}
  BY <1>a
<1>3. code \in Codes /\ code >= 100
  BY <1>c DEF Codes
<1>4. To(Answers, NoTsx, s, Answer(s, code, d))
  BY <1>1, <1>3, AnswerOk
<1>5. \A state \in Answers : MayEnter(Callee, state)
  BY <1>1, MayAnswer
<1> DEFINE t == Answer(s, code, d)
<1>6. Becomes(Callee, t)
  BY <1>b
<1>7. Ok(NoTsx, t) /\ Moves(Answers, ses[Callee], t)
  BY <1>4 DEF To, Goes
<1> HIDE DEF t
<1>8. Lawful(Callee, t)
  BY <1>5, <1>7, LawfulIf
<1> QED
  BY <1>1, <1>6, <1>8, BecomesKeeps

LEMMA HangUpKeeps ==
  ASSUME IInv, NEW a \in Agents, HangUp(a)
  PROVE  Keeps
<1> DEFINE s == ses[a]
           h == [s EXCEPT !.hang = TRUE]
           c == Counted(h)
           L == IF a = Callee THEN Answers ELSE {}
<1>1. Ok(NoTsx, s) /\ Begun /\ s.me = a
  BY Started DEF HangUp, States
<1> DEFINE code == IF s.st = "confirmed" THEN 200 ELSE IF a = Callee THEN 603 ELSE 487
<1>2. PICK d \in Decisions : Becomes(a, EndSession(c, code, d))
  BY DEF HangUp
<1>3. code \in Codes /\ code >= 100
  BY DEF Codes
<1> HIDE DEF code
<1>4. To({}, NoTsx, s, h)
  BY <1>1, HangFlagOk, Zenon
<1> HIDE DEF h
<1>5. To({}, NoTsx, h, c)
  BY <1>4, CountedOk DEF To
<1> HIDE DEF c
<1>6. Ok(NoTsx, c) /\ c.me = a /\ c.st = s.st
  BY <1>1, <1>4, <1>5 DEF To, Goes, Moves
<1> DEFINE t == EndSession(c, code, d)
<1>7. To(Answers, NoTsx, c, t) /\ (a = Caller => To({}, NoTsx, c, t))
  BY <1>3, <1>6, EndSessionOk
<1> HIDE DEF t
<1>8. Ok(NoTsx, t) /\ Moves(L, s, t)
  BY <1>1, <1>6, <1>7 DEF To, Goes, Moves, Agents
<1>9. \A state \in L : MayEnter(a, state)
  BY <1>1, MayAnswer
<1>10. Becomes(a, t)
  BY <1>2 DEF t
<1>11. Lawful(a, t)
  BY <1>8, <1>9, LawfulIf
<1> QED
  BY <1>1, <1>10, <1>11, BecomesKeeps

(* A session that is established sends an INVITE.                          *)
LEMMA ReinviteSent ==
  ASSUME NEW s, Ok(NoTsx, s), s.st = "confirmed", s.itsx = NoTsx, NEW sdp \in Sdps
  PROVE  Ok(NoTsx, SendRequest(s, "INVITE", sdp)) /\ Moves({}, s, SendRequest(s, "INVITE", sdp))
<1>1. /\ s \in Ses /\ Tracked(NoTsx, s) /\ Sending(s) /\ Sound(s.st, s.neg)
      /\ s.st \in {"null", "confirmed"} /\ s.st # "null"
  BY DEF Ok
<1> DEFINE t == SendRequest(s, "INVITE", sdp)
<1>2. s.st = IF s.st = "null" THEN "calling" ELSE s.st
  BY <1>1
<1>3. Ok(NoTsx, t) /\ t.me = s.me /\ t.st = s.st
  BY <1>1, <1>2, InviteSentOk
<1> QED
  BY <1>3 DEF Moves

LEMMA ReinviteKeeps ==
  ASSUME IInv, NEW a \in Agents, Reinvite(a)
  PROVE  Keeps
<1> DEFINE s == ses[a]
           n == CASE NegState(s) = "DONE" -> ModifyLocalOffer(s.neg, Fresh(s), "prov")
                  [] NegState(s) = "REMOTE_OFFER" -> SetLocalAnswer(s.neg, Fresh(s), "prov")
                  [] OTHER -> s.neg
           Offer(neg) == IF neg.state = "LOCAL_OFFER" \/ HasLocalAnswer(neg) THEN neg.nl ELSE NoSdp
           k == [s EXCEPT !.neg = n]
           u == Used(k)
<1>1. Ok(NoTsx, s) /\ Begun /\ s.me = a /\ s.st = "confirmed" /\ s.itsx = NoTsx
  BY Started DEF Reinvite
<1>2. s \in Ses /\ s.neg \in Negs /\ Sound(s.st, s.neg) /\ Fresh(s) \in Sdps
  BY <1>1, FreshTyped DEF Ok, Ses
<1>3. \/ Becomes(a, SendRequest(Counted(u), "INVITE", Offer(n)))
      \/ Becomes(a, SendRequest(Counted(s), "INVITE", Offer(s.neg)))
  BY DEF Reinvite
<1>4. n \in Negs /\ Sound(s.st, n)
  BY <1>2, LocalOfferModified, LocalAnswerSet DEF NegState
<1> HIDE DEF n
<1>5. \A g \in Negs : Offer(g) \in Sdps
  BY NoSdpTyped DEF Negs
<1>6. To({}, NoTsx, s, k)
  BY <1>1, <1>4, NegOk
<1> HIDE DEF k
<1>7. To({}, NoTsx, k, u)
  BY <1>6, UsedOk DEF To
<1>8. To({}, NoTsx, s, u) /\ To({}, NoTsx, s, s)
  BY <1>1, <1>6, <1>7, Then, ToSelf
<1> HIDE DEF u, Offer
<1>9. ASSUME NEW v \in {s, u}, NEW sdp \in Sdps, Becomes(a, SendRequest(Counted(v), "INVITE", sdp))
      PROVE  Keeps
  <2> DEFINE w == Counted(v)
             t == SendRequest(w, "INVITE", sdp)
  <2>1. To({}, NoTsx, s, v)
    BY <1>8
  <2>2. To({}, NoTsx, v, w)
    BY <2>1, CountedOk DEF To
  <2> HIDE DEF w
  <2>3. Ok(NoTsx, w) /\ w.st = "confirmed" /\ w.itsx = NoTsx /\ w.me = s.me
    BY <1>1, <2>1, <2>2 DEF To, Goes, Moves
  <2>4. Ok(NoTsx, t) /\ Moves({}, w, t)
    BY <2>3, ReinviteSent
  <2>5. Becomes(a, t)
    BY <1>9 DEF w
  <2> HIDE DEF t
  <2>6. Moves({"disconnected"}, s, t)
    BY <1>1, <2>3, <2>4 DEF Moves
  <2> QED
    BY <1>1, <2>4, <2>5, <2>6, QuietKeeps
<1> QED
  BY <1>2, <1>3, <1>4, <1>5, <1>9

LEMMA UpdateKeeps ==
  ASSUME IInv, NEW a \in Agents, Update(a)
  PROVE  Keeps
<1> DEFINE s == ses[a]
           n == ModifyLocalOffer(s.neg, Fresh(s), "prov")
           k == [s EXCEPT !.neg = n]
           u == Used(k)
           w == Counted(u)
           t == SendRequest(w, "UPDATE", n.nl)
<1>1. Ok(NoTsx, s) /\ Begun /\ s.neg.state = "DONE"
  BY Started DEF Update, NegState
<1>2. s.neg \in Negs /\ Sound(s.st, s.neg) /\ Fresh(s) \in Sdps
  BY <1>1, FreshTyped DEF Ok, Ses
<1>3. Becomes(a, t)
  BY DEF Update
<1>4. n \in Negs /\ Sound(s.st, n)
  BY <1>1, <1>2, LocalOfferModified
<1>5. n.nl \in Sdps
  BY <1>4 DEF Negs
<1> HIDE DEF n
<1>6. To({}, NoTsx, s, k)
  BY <1>1, <1>4, NegOk
<1> HIDE DEF k
<1>7. To({}, NoTsx, k, u)
  BY <1>6, UsedOk DEF To
<1> HIDE DEF u
<1>8. To({}, NoTsx, u, w)
  BY <1>7, CountedOk DEF To
<1> HIDE DEF w
<1>9. To({}, NoTsx, w, t)
  BY <1>5, <1>8, SendRequestOk DEF To
<1> HIDE DEF t
<1>10. To({}, NoTsx, s, t)
  BY <1>1, <1>6, <1>7, <1>8, <1>9, Then
<1> QED
  BY <1>1, <1>3, <1>10, QuietKeeps DEF To, Goes, Moves

LEMMA CancelReinviteKeeps ==
  ASSUME IInv, NEW a \in Agents, CancelReinvite(a)
  PROVE  Keeps
<1> DEFINE s == ses[a]
           k == [s EXCEPT !.pcancel = TRUE]
           c == SendCancel(s)
           u == IF T(s, s.itsx).code < 100 THEN k ELSE c
           t == Counted(u)
<1>1. Ok(NoTsx, s) /\ Begun
  BY Started DEF CancelReinvite
<1>2. Becomes(a, t)
  BY DEF CancelReinvite
<1>3. To({}, NoTsx, s, k)
  BY <1>1, CancelFlagOk, Zenon
<1>4. To({}, NoTsx, s, c)
  BY <1>1, SendCancelOk
<1> HIDE DEF k, c
<1>5. To({}, NoTsx, s, u)
  BY <1>3, <1>4
<1> HIDE DEF u
<1>6. To({}, NoTsx, u, t)
  BY <1>5, CountedOk DEF To
<1> HIDE DEF t
<1>7. To({}, NoTsx, s, t)
  BY <1>1, <1>5, <1>6, Then
<1> QED
  BY <1>1, <1>2, <1>7, QuietKeeps DEF To, Goes, Moves

-----------------------------------------------------------------------------
(* Messages.                                                               *)
LEMMA DeliverRequestKeeps ==
  ASSUME IInv, NEW m \in net, NEW d, DeliverRequest(m, d)
  PROVE  Keeps
<1> DEFINE a == m.to
           s == ses[a]
           x == Stateless(s, m, 481)
<1>1. /\ m \in Msgs /\ a \in Agents /\ m.kind = "req" /\ m.m \in Methods /\ m.c \in Nat
      /\ Vouched(m, ses[Peer(a)].st)
  BY DEF IInv, Msgs, DeliverRequest
<1>2. Begun /\ (m.m = "INVITE" => m.c # 0) /\ (m.m = "ACK" => Rank(ses[Peer(a)].st) >= 3)
  BY <1>1 DEF IInv, Begun, Vouched
<1>3. \/ a = Callee /\ ~Exists(s) /\ m.m = "INVITE" /\ Take(m, a, CreateUas(s, m))
      \/ Addressed(s, m) /\ Take(m, a, InDialog(s, m, d))
      \/ Take(m, a, s) \/ Take(m, a, x)
  BY DEF DeliverRequest
<1>4. s = NewSession(a) \/ (Ok(NoTsx, s) /\ s.me = a)
  BY <1>1 DEF IInv, Held
<1>5. s \in Ses /\ s.out = {} /\ s.me = a
  BY <1>1 DEF IInv, Held
<1>6. CASE a = Callee /\ ~Exists(s) /\ m.m = "INVITE" /\ Take(m, a, CreateUas(s, m))
  <2> DEFINE t == CreateUas(s, m)
  <2>1. s = NewSession(Callee) /\ s.st = "null" /\ s.me = Callee
    BY <1>4, <1>6, NewSessionTyped DEF Exists, Ok, Placed, Agents
  <2>2. Ok(NoTsx, t) /\ t.me = Callee /\ t.st = "incoming"
    BY <1>1, <1>2, <1>6, <2>1, CreateUasOk
  <2>3. Take(m, a, t)
    BY <1>6
  <2> HIDE DEF t
  <2>4. Moves({"incoming"}, s, t)
    BY <2>1, <2>2 DEF Moves, Rank
  <2>5. \A state \in {"incoming"} : MayEnter(a, state)
    BY <1>2, <1>6 DEF MayEnter, Begun, Peer, Caller, Callee, Lifecycle!Entitled
  <2>6. Lawful(a, t)
    BY <2>2, <2>4, <2>5, <1>5 DEF Lawful, Moves
  <2> QED
    BY <1>1, <1>2, <2>3, <2>6, TakeKeeps
<1>7. CASE Addressed(s, m) /\ Take(m, a, InDialog(s, m, d))
  <2> DEFINE t == InDialog(s, m, d)
             L == IF m.m = "ACK" THEN {"confirmed", "disconnected"} ELSE Over
  <2>1. Ok(NoTsx, s)
    BY <1>1, <1>7, Started DEF Addressed, Exists
  <2>2. Ok(NoTsx, t) /\ Moves(L, s, t)
    BY <1>1, <1>2, <1>7, <2>1, InDialogOk
  <2>3. Take(m, a, t)
    BY <1>7
  <2> HIDE DEF t
  <2>4. \A state \in L : MayEnter(a, state)
    BY <1>1, <1>2, MayEnd, MayConfirm DEF Over
  <2> HIDE DEF L
  <2>5. Lawful(a, t)
    BY <2>2, <2>4, LawfulIf
  <2> QED
    BY <1>1, <1>2, <2>3, <2>5, TakeKeeps
<1>8. CASE (Take(m, a, s) \/ Take(m, a, x)) /\ Ok(NoTsx, s)
  <2>1. 481 \in Codes /\ 481 >= 300
    BY DEF Codes
  <2>2. To({}, NoTsx, s, x) /\ To({}, NoTsx, s, s)
    BY <1>1, <1>2, <1>8, <2>1, StatelessOk, ToSelf
  <2> HIDE DEF x
  <2>3. ASSUME NEW t \in {s, x}, Take(m, a, t) PROVE Keeps
    <3>1. Lawful(a, t)
      BY <2>2 DEF To, Goes, Moves, Lawful
    <3> QED
      BY <1>1, <1>2, <2>3, <3>1, TakeKeeps
  <2> QED
    BY <1>8, <2>3
<1>9. CASE (Take(m, a, s) \/ Take(m, a, x)) /\ s = NewSession(a)
  <2> DEFINE r == [kind |-> "rsp", to |-> Peer(s.me), m |-> m.m, c |-> m.c, code |-> 481, sdp |-> Wire(NoSdp)]
             o == s.out \cup {r}
  <2>1. x = [s EXCEPT !.out = o]
    BY DEF Stateless, Send
  <2>2. r \in Msgs
    BY <1>1, <1>5, PeerOf, NoSdpTyped, WireTyped DEF Msgs, Codes
  <2>3. Vouched(r, ses[Peer(r.to)].st)
    BY <1>2 DEF Vouched, Is2xx
  <2> HIDE DEF r
  <2>4. o = {r}
    BY <1>5
  <2>5. [s EXCEPT !.out = {}] = s /\ [x EXCEPT !.out = {}] = s /\ x.out = {r}
    <3> HIDE DEF s, x, o
    <3>1. [s EXCEPT !.out = {}] = s
      BY <1>5 DEF Ses
    <3>2. [x EXCEPT !.out = {}] = [s EXCEPT !.out = {}]
      BY <1>5, <2>1 DEF Ses
    <3>3. x.out = {r}
      BY <1>5, <2>1, <2>4 DEF Ses
    <3> QED
      BY <3>1, <3>2, <3>3
  <2>6. net' \subseteq net \cup {r} /\ ses' = [ses EXCEPT ![a] = s]
    BY <1>5, <1>9, <2>5 DEF Take
  <2>7. ses' = ses
    BY <1>1, <2>6 DEF IInv
  <2> QED
    BY <1>2, <2>2, <2>3, <2>6, <2>7, Stays DEF Keeps
<1> QED
  BY <1>3, <1>4, <1>6, <1>7, <1>8, <1>9

(* What a change of a client transaction leads a session to.               *)
LEMMA LedOn ==
  ASSUME IInv, NEW a \in Agents, Begun, NEW id, NEW state, NEW code, NEW s, s.me = a,
         MethodOf(id) = "INVITE" /\ state = "proceeding" /\ code \in 101 .. 199 => Rank(ses[Peer(a)].st) >= 2,
         MethodOf(id) = "INVITE" /\ Is2xx(code) => Rank(ses[Peer(a)].st) >= 3
  PROVE  \A st \in Led(s, id, state, code) : MayEnter(a, st)
<1> SUFFICES ASSUME NEW st \in Led(s, id, state, code) PROVE MayEnter(a, st)
  OBVIOUS
<1>1. CASE a = Callee /\ st \in Answers
  BY <1>1, MayAnswer
<1>2. CASE st \in Told(id, state, code)
  <2>1. st = "early" => MayEnter(a, st)
    BY <1>2, MayRing DEF Told
  <2>2. st \in {"connecting", "confirmed"} => MayEnter(a, st)
    BY <1>2, MayConfirm DEF Told
  <2>3. st = "disconnected" => MayEnter(a, st)
    BY MayEnd
  <2> QED
    BY <1>2, <2>1, <2>2, <2>3 DEF Told
<1> QED
  BY <1>1, <1>2 DEF Led

LEMMA DeliverResponseKeeps ==
  ASSUME IInv, NEW m \in net, NEW d, DeliverResponse(m, d)
  PROVE  Keeps
<1> DEFINE a == m.to
           s == ses[a]
           id == TsxId("uac", m.m, m.c)
           r == OnResponse(s, m.m, m.c, m.code, m.sdp, d)
           L == Led(s, id, "proceeding", m.code)
<1>1. /\ m \in Msgs /\ a \in Agents /\ m.kind = "rsp" /\ m.m \in Methods /\ m.c \in Nat
      /\ m.code \in Codes /\ m.sdp \in Sdps
      /\ Vouched(m, ses[Peer(a)].st)
  BY DEF IInv, Msgs, DeliverResponse, WireSdps
<1>2. /\ Begun /\ (m.m = "INVITE" => m.c # 0)
      /\ m.m = "INVITE" /\ m.code \in 101 .. 199 => Rank(ses[Peer(a)].st) >= 2
      /\ m.m = "INVITE" /\ Is2xx(m.code) => Rank(ses[Peer(a)].st) >= 3
  BY <1>1 DEF IInv, Begun, Vouched
<1>3. \/ Take(m, a, s) /\ Gone(s)
      \/ Take(m, a, r)
  BY DEF DeliverResponse
<1>4. s.me = a /\ (s = NewSession(a) \/ Ok(NoTsx, s))
  BY <1>1 DEF IInv, Held
<1>5. MethodOf(id) = m.m
  BY <1>1, IdOf
<1>6. \A st \in L : MayEnter(a, st)
  BY <1>1, <1>2, <1>4, <1>5, LedOn
<1>7. CASE Take(m, a, s) /\ Gone(s)
  <2>1. Ok(NoTsx, s)
    BY <1>1, <1>7, Started DEF Gone
  <2>2. Lawful(a, s)
    BY <2>1 DEF Lawful
  <2> QED
    BY <1>1, <1>2, <1>7, <2>2, TakeKeeps
<1>8. CASE Take(m, a, r) /\ Ok(NoTsx, s)
  <2>1. Ok(NoTsx, r) /\ Moves(L, s, r)
    BY <1>1, <1>2, <1>8, OnResponseOk
  <2> HIDE DEF r, L
  <2>2. Lawful(a, r)
    BY <1>6, <2>1, LawfulIf
  <2> QED
    BY <1>1, <1>2, <1>8, <2>2, TakeKeeps
<1>9. CASE Take(m, a, r) /\ s = NewSession(a)
  <2>1. s.st = "null" /\ Tsxs(s) = {} /\ s.out = {} /\ s \in Ses
    BY <1>1, <1>9, NewSessionTyped
  <2>2. a = Callee
    BY <1>1, <1>2, <2>1 DEF Begun, Agents
  <2> DEFINE t == SendAck(s, m.c, d)
  <2>3. r = s \/ (m.m = "INVITE" /\ Is2xx(m.code) /\ r = t)
    BY <2>1 DEF OnResponse, OnStrayResponse
  <2>4. CASE r = s
    <3>1. [s EXCEPT !.out = {}] = s
      <4> HIDE DEF s
      <4> QED
        BY <2>1 DEF Ses
    <3>2. ses' = [ses EXCEPT ![a] = s] /\ net' \subseteq net \cup {m}
      BY <1>9, <2>1, <2>4, <3>1 DEF Take
    <3>3. ses' = ses
      BY <1>1, <3>2 DEF IInv
    <3> QED
      BY <1>1, <1>2, <3>2, <3>3, Stays DEF Keeps
  <2>5. CASE m.m = "INVITE" /\ Is2xx(m.code) /\ r = t
    <3>1. Ok(NoTsx, t) /\ t.me = Callee /\ t.st = "confirmed"
      BY <1>1, <1>2, <1>9, <2>2, <2>5, NewAckOk
    <3>2. Take(m, a, t)
      BY <1>9, <2>5
    <3> HIDE DEF t
    <3>3. Moves({"confirmed"}, s, t)
      BY <1>4, <2>1, <2>2, <3>1 DEF Moves, Rank
    <3>4. \A st \in {"confirmed"} : MayEnter(a, st)
      BY <1>1, <1>2, <2>5, MayConfirm
    <3>5. Lawful(a, t)
      BY <3>1, <3>3, <3>4, <1>4 DEF Lawful, Moves
    <3> QED
      BY <1>1, <1>2, <3>2, <3>5, TakeKeeps
  <2> QED
    BY <2>3, <2>4, <2>5
<1> QED
  BY <1>3, <1>4, <1>7, <1>8, <1>9

-----------------------------------------------------------------------------
(* Timers and the transport.                                               *)
LEMMA RetransmitKeeps ==
  ASSUME IInv, NEW a \in Agents, NEW id \in Tsxs(ses[a]), Retransmit(a, id)
  PROVE  Keeps
<1> DEFINE s == ses[a]
           t == T(s, id)
           n == [t EXCEPT !.resent = TRUE]
           u == SetTsx(s, id, n)
           v == Send(u, "rsp", "INVITE", CSeqOf(id), t.code, t.sdp)
<1>1. Ok(NoTsx, s) /\ Begun
  BY Started
<1>2. /\ RoleOf(id) = "uas" /\ MethodOf(id) = "INVITE" /\ t.state = "completed" /\ Is2xx(t.code)
      /\ Becomes(a, v)
  BY DEF Retransmit
<1>3. t \in TsxRec /\ CSeqOf(id) \in Nat /\ t.code \in Codes /\ t.sdp \in Sdps
  BY <1>1, TsxTyped, IdParts DEF Ok, TsxRec
<1>4. n \in TsxRec /\ n.state = t.state /\ n.code = t.code
  BY <1>3 DEF TsxRec
<1>5. CSeqOf(id) # 0 /\ Rank(s.st) >= 3
  BY <1>1, <1>2 DEF Ok, Tracked
<1> HIDE DEF n
<1>6. To({}, NoTsx, s, u)
  BY <1>1, <1>4, DataOk
<1> HIDE DEF u, t
<1>7. Ok(NoTsx, u) /\ u.st = s.st
  BY <1>6 DEF To, Goes, Moves
<1>8. To({}, NoTsx, u, v)
  <2> DEFINE r == [kind |-> "rsp", to |-> Peer(u.me), m |-> "INVITE", c |-> CSeqOf(id), code |-> t.code,
                   sdp |-> Wire(t.sdp)]
  <2>1. Wire(t.sdp) \in WireSdps /\ "rsp" \in {"req", "rsp"} /\ "INVITE" \in Methods
    BY <1>3, WireTyped DEF Methods
  <2>2. Vouched(r, u.st)
    BY <1>5, <1>7, RankRange DEF Vouched
  <2>3. r = [kind |-> "rsp", to |-> Peer(u.me), m |-> "INVITE", c |-> CSeqOf(id), code |-> t.code,
             sdp |-> Wire(t.sdp)]
    OBVIOUS
  <2> HIDE DEF r
  <2> QED
    BY <1>3, <1>7, <2>1, <2>2, <2>3, SendOk
<1> HIDE DEF v
<1>9. To({}, NoTsx, s, v)
  BY <1>1, <1>6, <1>8, Then
<1> QED
  BY <1>1, <1>2, <1>9, QuietKeeps DEF To, Goes, Moves

(* A client transaction ends without a response.                           *)
LEMMA ClientEnds ==
  ASSUME IInv, NEW a \in Agents, NEW id \in Tsxs(ses[a]), RoleOf(id) = "uac",
         NEW code, code \in Codes, MethodOf(id) = "INVITE" => ~Is2xx(code), NEW d,
         Becomes(a, ClientTsxState(ses[a], id, "terminated", code, NoSdp, d))
  PROVE  Keeps
<1> DEFINE s == ses[a]
           t == ClientTsxState(s, id, "terminated", code, NoSdp, d)
           L == Led(s, id, "terminated", code)
<1>1. Ok(NoTsx, s) /\ Begun /\ s.me = a
  BY Started
<1>2. Ok(NoTsx, t) /\ Moves(L, s, t)
  BY <1>1, NoSdpTyped, ClientTsxStateOk
<1>3. \A st \in L : MayEnter(a, st)
  BY <1>1, LedOn
<1> HIDE DEF t, L
<1>4. Becomes(a, t)
  BY DEF t
<1>5. Lawful(a, t)
  BY <1>2, <1>3, LawfulIf
<1> QED
  BY <1>1, <1>4, <1>5, BecomesKeeps

LEMMA TimeoutKeeps ==
  ASSUME IInv, NEW a \in Agents, NEW id \in Tsxs(ses[a]), Timeout(a, id)
  PROVE  Keeps
<1>1. RoleOf(id) = "uac" /\ 408 \in Codes /\ ~Is2xx(408)
  BY DEF Timeout, TimeoutDue, Codes, Is2xx
<1>2. PICK d \in Decisions : Becomes(a, ClientTsxState(ses[a], id, "terminated", 408, NoSdp, d))
  BY DEF Timeout
<1> QED
  BY <1>1, <1>2, ClientEnds

LEMMA TransportErrorKeeps ==
  ASSUME IInv, NEW a \in Agents, NEW id \in Tsxs(ses[a]), TransportError(a, id)
  PROVE  Keeps
<1>1. 503 \in Codes /\ ~Is2xx(503)
  BY DEF Codes, Is2xx
<1>a. RoleOf(id) = "uac"
  BY Zenon DEF TransportError
<1>2. PICK d \in Decisions : Becomes(a, ClientTsxState(ses[a], id, "terminated", 503, NoSdp, d))
  BY Zenon DEF TransportError
<1> QED
  BY <1>1, <1>a, <1>2, ClientEnds

(* The ACK of a 2xx does not come.                                         *)
LEMMA AckTimeoutKeeps ==
  ASSUME IInv, NEW a \in Agents, NEW id \in Tsxs(ses[a]), AckTimeout(a, id)
  PROVE  Keeps
<1> DEFINE s == ses[a]
           c == SetCause(s, 408)
           b == SendBye(c)
           p == [b EXCEPT !.pbye = FALSE]
           u == IF s.st = "connecting" /\ id = s.itsx THEN p ELSE s
           t == Dropped(u, id)
<1>1. Ok(NoTsx, s) /\ Begun
  BY Started
<1>2. Becomes(a, t)
  BY DEF AckTimeout
<1>3. MethodOf(id) = "INVITE" /\ T(s, id).state = "completed" /\ Is2xx(T(s, id).code)
  BY DEF AckTimeout, AckDue
<1>4. Rank(s.st) >= 3
  BY <1>1, <1>3 DEF Ok, Tracked
<1>5. To({}, NoTsx, s, c)
  BY <1>1, SetCauseOk
<1> HIDE DEF c
<1>6. To({}, NoTsx, c, b)
  BY <1>5, SendByeOk DEF To
<1> HIDE DEF b
<1>7. To({}, NoTsx, b, p)
  BY <1>6, ByeFlagOk DEF To
<1> HIDE DEF p
<1>8. To({}, NoTsx, s, p) /\ To({}, NoTsx, s, s)
  BY <1>1, <1>5, <1>6, <1>7, Then, ToSelf
<1>9. To({}, NoTsx, s, u)
  BY <1>8
<1> HIDE DEF u
<1>10. Ok(NoTsx, u) /\ u.st = s.st /\ u.me = s.me
  BY <1>9 DEF To, Goes, Moves
<1>11. Ok(NoTsx, t) /\ Moves({}, u, t)
  BY <1>4, <1>10, DroppedOk
<1> HIDE DEF t
<1>12. Moves({"disconnected"}, s, t)
  BY <1>10, <1>11 DEF Moves
<1> QED
  BY <1>1, <1>2, <1>11, <1>12, QuietKeeps

LEMMA EndTsxKeeps ==
  ASSUME IInv, NEW a \in Agents, NEW id \in Tsxs(ses[a]), EndTsx(a, id)
  PROVE  Keeps
<1> DEFINE s == ses[a]
           t == Dropped(s, id)
<1>1. Ok(NoTsx, s) /\ Begun
  BY Started
<1>2. T(s, id).state = "completed"
  BY DEF EndTsx, EndDue
<1>3. \/ RoleOf(id) = "uac" /\ \E d \in Decisions :
           Becomes(a, ClientTsxState(s, id, "terminated", T(s, id).code, NoSdp, d))
      \/ RoleOf(id) = "uas" /\ Becomes(a, t)
  BY DEF EndTsx
<1>4. CASE RoleOf(id) = "uac" /\ \E d \in Decisions :
             Becomes(a, ClientTsxState(s, id, "terminated", T(s, id).code, NoSdp, d))
  <2>1. PICK d \in Decisions : Becomes(a, ClientTsxState(s, id, "terminated", T(s, id).code, NoSdp, d))
    BY <1>4
  <2>2. T(s, id).code \in Codes
    BY <1>1, TsxTyped DEF Ok, TsxRec
  <2>3. MethodOf(id) = "INVITE" => ~Is2xx(T(s, id).code)
    BY <1>1, <1>2, <1>4 DEF Ok, Tracked
  <2> QED
    BY <1>4, <2>1, <2>2, <2>3, ClientEnds
<1>5. CASE RoleOf(id) = "uas" /\ Becomes(a, t)
  <2>1. id = s.itsx => Rank(s.st) >= 3
    BY <1>1, <1>2, TsxTyped, IdParts DEF Ok, Tracked
  <2>2. Ok(NoTsx, t) /\ Moves({}, s, t)
    BY <1>1, <2>1, DroppedOk
  <2>3. Becomes(a, t)
    BY <1>5
  <2> HIDE DEF t
  <2>4. Moves({"disconnected"}, s, t)
    BY <2>2 DEF Moves
  <2> QED
    BY <1>1, <2>2, <2>3, <2>4, QuietKeeps
<1> QED
  BY <1>3, <1>4, <1>5

-----------------------------------------------------------------------------
(* The theorems.                                                           *)
LEMMA Initially ==
  ASSUME Init
  PROVE  IInv /\ Lifecycle!Init
<1>1. \A a \in Agents : ses[a] = NewSession(a) /\ ses[a] \in Ses /\ ses[a].st = "null" /\ Held(a)
  BY NewSessionTyped DEF Init, Held
<1>2. ses \in [Agents -> Ses]
  BY <1>1 DEF Init
<1>3. Callee \in Agents
  BY DEF Agents
<1>4. IInv
  BY <1>1, <1>2, <1>3 DEF Init, IInv
<1>5. [a \in Agents |-> ses[a].st] = [a \in {Caller, Callee} |-> "null"]
  BY <1>1 DEF Agents
<1> QED
  BY <1>4, <1>5 DEF Lifecycle!Init

LEMMA Step ==
  ASSUME IInv, [Next]_vars
  PROVE  Keeps
<1>1. CASE UNCHANGED vars
  <2>1. ses' = ses /\ net' = net
    BY <1>1 DEF vars
  <2>2. \A a \in Agents : Held(a)'
    BY <2>1 DEF IInv, Held
  <2>3. IInv'
    BY <2>1, <2>2 DEF IInv
  <2> QED
    BY <2>1, <2>3 DEF Keeps
<1>2. ASSUME NEW m \in net, Deliver(m) PROVE Keeps
  BY <1>2, DeliverRequestKeeps, DeliverResponseKeeps DEF Deliver
<1>3. ASSUME NEW a \in Agents, NEW id \in Tsxs(ses[a]),
             Retransmit(a, id) \/ Timeout(a, id) \/ TransportError(a, id) \/ AckTimeout(a, id) \/ EndTsx(a, id)
      PROVE  Keeps
  BY <1>3, RetransmitKeeps, TimeoutKeeps, TransportErrorKeeps, AckTimeoutKeeps, EndTsxKeeps
<1>4. ASSUME NEW a \in Agents, HangUp(a) \/ Reinvite(a) \/ Update(a) \/ CancelReinvite(a)
      PROVE  Keeps
  BY <1>4, HangUpKeeps, ReinviteKeeps, UpdateKeeps, CancelReinviteKeeps
<1>5. CASE Next
  BY <1>2, <1>3, <1>4, <1>5, InviteKeeps, SetLocalSdpKeeps, AnswerCallKeeps DEF Next
<1> QED
  BY <1>1, <1>5

LEMMA Invariant == Spec => []IInv
<1>1. Init => IInv
  BY Initially
<1>2. IInv /\ [Next]_vars => IInv'
  BY Step DEF Keeps
<1> QED
  BY <1>1, <1>2, PTL DEF Spec

(* Every session and message is one the code can hold, and a session works *)
(* on no INVITE transaction that is gone: sip_inv.c clears invite_tsx when *)
(* the transaction ends, whatever the session was doing with it.           *)
THEOREM TypeCorrect == Spec => []TypeOK
<1>1. IInv => TypeOK
  <2> SUFFICES ASSUME IInv PROVE TypeOK
    OBVIOUS
  <2>1. ASSUME NEW a \in Agents
        PROVE  LET s == ses[a] IN
               /\ s.me = a /\ s.st \in States /\ NegState(s) \in NegStates
               /\ Stored(s.neg) \cup {s.acksdp, s.last} \subseteq Sdps
               /\ s.itsx \in Tsxs(s) \cup {NoTsx}
               /\ \A id \in Tsxs(s) : T(s, id).state \in TsxStates /\ T(s, id).code \in 0 .. 699
               /\ s.out = {}
    <3> DEFINE s == ses[a]
    <3>1. s \in Ses /\ s.me = a /\ s.out = {}
      BY DEF IInv, Held
    <3>2. s.itsx \in Tsxs(s) \cup {NoTsx}
      BY DEF IInv, Held, Ok, Placed, NewSession
    <3>3. \A id \in Tsxs(s) : T(s, id).state \in TsxStates /\ T(s, id).code \in 0 .. 699
      BY <3>1, TsxTyped DEF TsxRec, Codes
    <3>4. s.st \in States /\ s.neg \in Negs /\ s.acksdp \in Sdps /\ s.last \in Sdps
      BY <3>1 DEF Ses
    <3>5. NegState(s) \in NegStates /\ Stored(s.neg) \subseteq Sdps
      BY <3>4 DEF Negs, NegState, Stored
    <3> QED
      BY <3>1, <3>2, <3>3, <3>4, <3>5
  <2>2. ASSUME NEW m \in net
        PROVE  m.kind \in {"req", "rsp"} /\ m.to \in Agents /\ m.sdp.mem \in {"wire", "none"}
    BY DEF IInv, Msgs, WireSdps
  <2> QED
    BY <2>1, <2>2 DEF TypeOK
<1> QED
  BY <1>1, Invariant, PTL

(* The two ends of a call go through the states of pjsip_inv_state only    *)
(* forward, and an end that rings, connects or is confirmed is right about *)
(* what the other one did (the inv_on_state functions): whatever offers    *)
(* cross, whatever is delayed or reordered, and whichever timer or         *)
(* transport fails.                                                        *)
THEOREM LifecycleKept == Spec => ImplementsLifecycle
<1>1. Init => Lifecycle!Init
  BY Initially
<1>2. IInv /\ [Next]_vars => [Lifecycle!Next]_([a \in Agents |-> ses[a].st])
  BY Step DEF Keeps
<1> QED
  BY <1>1, <1>2, Invariant, PTL DEF Spec, ImplementsLifecycle, Lifecycle!Spec

(* No description the negotiator of a session holds lies in a pool that    *)
(* was reset (inv_negotiate_sdp swaps and resets the two pools), as long   *)
(* as the application answers each offer once.                             *)
THEOREM DescriptionsAlive ==
  ASSUME AnsweredOnce
  PROVE  Spec => []SdpAlive
<1>1. IInv => SdpAlive
  <2> SUFFICES ASSUME IInv, NEW a \in Agents PROVE NoneFreed(ses[a].neg)
    BY DEF SdpAlive, NoneFreed
  <2>1. CASE ses[a] = NewSession(a)
    <3>1. ses[a].neg = NoNeg
      BY <2>1 DEF NewSession
    <3> QED
      BY <3>1, NoNegTyped, PooledNone
  <2>2. CASE Ok(NoTsx, ses[a])
    BY <2>2, PooledNone DEF Ok, Sound
  <2> QED
    BY <2>1, <2>2 DEF IInv, Held
<1> QED
  BY <1>1, Invariant, PTL
===============================================================================
