----------------------------- MODULE RtpSession -----------------------------
(***************************************************************************)
(* The sequence control of an RTP session (pjmedia/src/pjmedia/rtp.c):     *)
(* what a stream makes of the sequence number of a packet.  Numbers wrap   *)
(* at SeqMod (2^16).                                                       *)
(***************************************************************************)
EXTENDS Integers

CONSTANTS
  SeqMod,         \* RTP_SEQ_MOD
  RtpDropout,     \* MAX_DROPOUT of rtp.c (3000)
  RtpMisorder,    \* MAX_MISORDER of rtp.c (100)
  MinSequential   \* MIN_SEQUENTIAL (2)

ASSUME RtpAssumption ==
  /\ SeqMod \in Nat \ {0} /\ RtpDropout \in Nat /\ RtpMisorder \in Nat
  /\ RtpDropout + RtpMisorder < SeqMod
  /\ MinSequential \in Nat \ {0}

NoBadSeq == SeqMod + 1

\* pjmedia_rtp_seq_init
SeqInit(seq) ==
  [received |-> FALSE, max |-> (seq - 1) % SeqMod, bad |-> NoBadSeq,
   probation |-> MinSequential]

\* pjmedia_rtp_seq_update: the session afterwards and what the stream does
\* with the packet: skip it (bad), start over (restart) or take it (ok), which
\* it also does with duplicates and with packets that are late.  The next
\* number is not taken modulo SeqMod while the source is on probation.
SeqUpdate(s, seq) ==
  LET delta == (seq - s.max) % SeqMod
      verdict(v, next) == [verdict |-> v, rtp |-> next]
  IN CASE s.probation > 0 /\ seq = s.max + 1 ->
            verdict("ok", [s EXCEPT !.max = seq, !.probation = @ - 1])
       [] s.probation > 0 /\ seq # s.max + 1 ->
            verdict("bad", [s EXCEPT !.max = seq,
                                     !.probation = MinSequential - 1])
       [] s.probation = 0 /\ delta < RtpDropout ->
            verdict("ok", [s EXCEPT !.max = seq])
       [] s.probation = 0 /\ delta >= RtpDropout
                          /\ delta <= SeqMod - RtpMisorder ->
            IF seq = s.bad
              THEN verdict("restart", [s EXCEPT !.max = seq, !.bad = NoBadSeq])
            ELSE verdict("bad", [s EXCEPT !.bad = (seq + 1) % SeqMod])
       [] OTHER -> verdict("ok", s)

\* pjmedia_rtp_session_update2: until a packet was good, each is the first.
SessionUpdate(s, seq) ==
  LET u == SeqUpdate(IF s.received THEN s ELSE SeqInit(seq), seq)
  IN [u EXCEPT !.rtp.received = @ \/ u.verdict # "bad"]
=============================================================================
