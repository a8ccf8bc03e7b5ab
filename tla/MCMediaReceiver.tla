--------------------------- MODULE MCMediaReceiver --------------------------
EXTENDS MediaReceiver

\* The buffer of an audio stream, of a video stream, and one configured to
\* discard slowly.
MCStreams ==
  {[user |-> "audio", discard |-> "progressive", init |-> 1, min |-> 1, max |-> 3],
   [user |-> "video", discard |-> "none", init |-> 0, min |-> 1, max |-> 3],
   [user |-> "audio", discard |-> "static", init |-> 0, min |-> 1, max |-> 3]}
=============================================================================
