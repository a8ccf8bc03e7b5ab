---------------------------- MODULE MediaReceiver ---------------------------
(***************************************************************************)
(* The receiving half of a media stream: packets go from the network       *)
(* through the sequence control of RTP into the jitter buffer, and the     *)
(* device takes frames out of it.  An audio stream (pjmedia/stream.c)      *)
(* takes one frame at a time; a video stream (pjmedia/vid_stream.c) looks  *)
(* for a whole picture, when a packet comes and when the device asks.      *)
(* The two threads exclude each other by jb_mutex.                         *)
(*                                                                         *)
(* The source numbers its packets 0, 1, 2, ... and sends the number modulo *)
(* SeqMod; the frame in a packet is identified by the full number.  The    *)
(* network loses, duplicates and delays packets.                           *)
(***************************************************************************)
EXTENDS JitterBuffer, RtpSession

CONSTANTS
  Streams,        \* how a stream configures its buffer
  First,          \* number of the first packet
  LastPacket,     \* bound: number of the last packet
  PictureSize     \* packets of a picture

ASSUME StreamAssumption ==
  \A s \in Streams :
    /\ s.user \in {"audio", "video"}
    /\ s.discard \in {"none", "static", "progressive"}
    /\ s.user = "video" => s.discard = "none"
    /\ {s.init, s.min, s.max} \subseteq Nat
    /\ s.min <= s.max /\ s.init <= s.max /\ s.max <= MaxCount
ASSUME SourceAssumption ==
  First \in Nat /\ LastPacket \in Nat /\ PictureSize \in Nat \ {0}

VARIABLES
  stream,   \* which of Streams this is
  buffer,   \* the jitter buffer
  rtp,      \* the sequence control
  decoded,  \* video: the picture decoded ahead of the device, and its time
  latest,   \* the network: highest number delivered
  played    \* highest number taken out since the last reset, or Nothing

vars == <<stream, buffer, rtp, decoded, latest, played>>
Nothing == -1
Video == stream.user = "video"

Init ==
  /\ stream \in Streams
  /\ buffer = [l |-> EmptyRing(InvalidOffset),
               j |-> NewJb(stream.discard, stream.init, stream.min, stream.max)]
  /\ rtp = SeqInit(First)
  /\ decoded = [waits |-> FALSE, picture |-> Nothing]
  /\ latest = First - 1
  /\ played = Nothing

Cycle(n) == n \div SeqMod
Picture(n) == n \div PictureSize
IsFrame(x) == x >= 0

\* What the network delivers: packets that were lost are passed over, those
\* that come again or late belong to the present cycle of numbers and are not
\* so late that the buffer takes them for a new start.
Deliverable(n) ==
  \/ n > latest /\ n - latest <= SeqMod - RtpMisorder
  \/ /\ First <= n /\ n <= latest
     /\ Cycle(n) = Cycle(latest)
     /\ latest - n < MaxMisorder - 1

-----------------------------------------------------------------------------
(* Video: decode_frame looks for the end of the first picture, which is    *)
(* the first packet of another one, and takes out all that lie before it.  *)

Held(l) == {d \in 0 .. l.size - 1 : IsFrame(l.slots[Slot(l, d)])}
HeldAt(l, d) == l.slots[Slot(l, d)]
Oldest(l) == CHOOSE d \in Held(l) : \A e \in Held(l) : d <= e
Ends(l) ==
  {e \in Held(l) : Picture(HeldAt(l, e)) # Picture(HeldAt(l, Oldest(l)))}
HasPicture(l) == Ends(l) # {}
PictureEnd(l) == CHOOSE e \in Ends(l) : \A f \in Ends(l) : e <= f
LastOfPicture(l) ==
  CHOOSE d \in Held(l) : /\ d < PictureEnd(l)
                         /\ \A e \in Held(l) : e < PictureEnd(l) => e <= d

TakePicture(l) ==
  IF HasPicture(l) THEN RemoveFrames(l, Cardinality(Kept(l, PictureEnd(l))))
  ELSE l
PlayPicture(l) ==
  IF HasPicture(l) THEN HeldAt(l, LastOfPicture(l)) ELSE played

\* A packet of another picture, or the last of one, has the first picture
\* decoded unless one is waiting and there is room.
TriesDecode(n) ==
  /\ Video
  /\ Picture(n) # decoded.picture \/ n % PictureSize = PictureSize - 1
  /\ ~decoded.waits \/ buffer.l.size = MaxCount

\* codec_ok: the codec could make a picture of the packets.
DecodeAhead(n, codec_ok) ==
  decoded' = IF TriesDecode(n)
               THEN [waits |-> HasPicture(buffer.l) /\ codec_ok,
                     picture |-> IF HasPicture(buffer.l) /\ codec_ok
                                   THEN Picture(PlayPicture(buffer.l))
                                 ELSE decoded.picture]
             ELSE decoded

-----------------------------------------------------------------------------
\* on_rx_rtp.  A packet may be dropped after the session has counted it: a bad
\* one, one without payload, a telephone event, or one that comes from an
\* address the stream does not expect.
Receive(n, codec_ok) ==
  LET update == SessionUpdate(rtp, n % SeqMod)
      before == IF TriesDecode(n)
                  THEN [buffer EXCEPT !.l = TakePicture(@)] ELSE buffer
  IN /\ Deliverable(n) /\ n <= LastPacket
     /\ rtp' = update.rtp
     /\ latest' = Greatest(latest, n)
     /\ \/ UNCHANGED <<buffer, decoded, played>>
        \/ /\ update.verdict = "restart"
           /\ DecodeAhead(n, codec_ok)
           /\ buffer' = Reset(before)
           /\ played' = Nothing
        \/ /\ update.verdict = "ok"
           /\ DecodeAhead(n, codec_ok)
           /\ buffer' = PutFrame(before, n % SeqMod, n)
           /\ played' = IF TriesDecode(n) THEN PlayPicture(buffer.l) ELSE played
     /\ UNCHANGED stream

\* get_frame of stream.c: one frame of several that make a period.
GetAudio ==
  /\ ~Video
  /\ buffer' = GetFrame(buffer)
  /\ played' = IF IsFrame(Given(buffer)) THEN Given(buffer) ELSE played
  /\ UNCHANGED <<stream, rtp, decoded, latest>>

\* get_frame of vid_stream.c: what was decoded ahead, or the first picture.
GetVideo ==
  /\ Video
  /\ IF decoded.waits
       THEN /\ decoded' = [decoded EXCEPT !.waits = FALSE]
            /\ UNCHANGED <<buffer, played>>
     ELSE /\ buffer' = [buffer EXCEPT !.l = TakePicture(@)]
          /\ played' = PlayPicture(buffer.l)
          /\ UNCHANGED decoded
  /\ UNCHANGED <<stream, rtp, latest>>

\* The stream is paused, or the frame duration was learnt: the buffer is reset.
\* Packets that are delivered while it is paused count as lost.
Pause ==
  /\ buffer' = Reset(buffer)
  /\ played' = Nothing
  /\ UNCHANGED <<stream, rtp, decoded, latest>>

Next ==
  \/ \E n \in First .. LastPacket, codec_ok \in BOOLEAN : Receive(n, codec_ok)
  \/ GetAudio
  \/ GetVideo
  \/ Pause

Spec == Init /\ [][Next]_vars

-----------------------------------------------------------------------------
(* Properties.                                                             *)

TypeOK ==
  /\ stream \in Streams
  /\ DOMAIN buffer.l.slots = Slots
  /\ \A i \in Slots : \/ buffer.l.slots[i] \in {Missing, Discarded}
                      \/ buffer.l.slots[i] \in First .. LastPacket
  /\ {buffer.l.origin, buffer.j.ref} \subseteq Int
  /\ buffer.j.last_op \in {"init", "put", "get"}
  /\ {buffer.j.level, buffer.j.hist} \subseteq 0 .. LevelCap
  /\ buffer.j.eff \in 0 .. MaxCount
  /\ rtp.probation \in 0 .. MinSequential /\ rtp.max \in 0 .. SeqMod - 1
  /\ decoded.waits \in BOOLEAN
  /\ {latest, played} \subseteq -1 .. LastPacket

RingConsistent == Consistent(buffer.l)

\* Frames of one cycle of sequence numbers lie in the ring in the order of
\* their numbers, none twice, and all are newer than what was taken out.
HeldInOrder ==
  LET l == buffer.l IN
  /\ \A d, e \in Held(l) :
       d < e /\ Cycle(HeldAt(l, d)) = Cycle(HeldAt(l, e))
         => HeldAt(l, d) < HeldAt(l, e)
  /\ \A d \in Held(l) :
       played # Nothing /\ Cycle(HeldAt(l, d)) = Cycle(played)
         => HeldAt(l, d) > played

\* Discarded frames are at least MinShrinkGap apart.
DiscardsApart == Apart(buffer.l)
=============================================================================
