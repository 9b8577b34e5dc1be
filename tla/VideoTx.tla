------------------------------ MODULE VideoTx ------------------------------
(***************************************************************************)
(* The transmitting half of a video stream (src/video.c): the thread of    *)
(* the video source brings frames, which are filtered, encoded and put as  *)
(* packets into the send queue; the timer of the main loop empties the     *)
(* queue; the main loop starts, stops, mutes, changes the encoder, asks    *)
(* for picture updates and in the end destroys the stream.                 *)
(***************************************************************************)
EXTENDS Integers, Sequences

CONSTANTS
    Codec,         \* video codecs with an encoder
    MaxPackets,    \* packets of one encoded frame, at most
    MaxMuted       \* MAX_MUTED_FRAMES

ASSUME VideoTxAssumption == MaxPackets \in Nat \ {0} /\ MaxMuted \in Nat

VARIABLES
    alive,     \* the stream: live, stopped by call_stream_stop for good, or freed
    started,   \* v->started
    source,    \* vtx->vsrc is set: its thread calls vidsrc_frame_handler
    at,        \* the thread: idle, accepted (queue seen empty), filter, encode
    frame,     \* which frame it is at, modulo 2
    update,    \* the argument update of the encoder call under way
    packets,   \* packets it has made of the frame
    sendq,     \* vtx->sendq: of each packet its frame
    vc, enc,   \* vtx->vc and the codec of vtx->enc, or none
    chosen,    \* the last video_encoder_set that returned success chose this
    picup,     \* vtx->picup
    asked,     \* an update was asked for and no frame begun since is encoded as one
    muted, mutedFrames

vars == <<alive, started, source, at, frame, update, packets, sendq, vc, enc, chosen,
          picup, asked, muted, mutedFrames>>
thread == <<at, frame, update, packets>>
codec == <<vc, enc, chosen>>
mute == <<muted, mutedFrames>>

None == "none"

TypeOK ==
    /\ alive \in {"live", "ending", "freed"} /\ started \in BOOLEAN /\ source \in BOOLEAN
    /\ at \in {"idle", "accepted", "filter", "encode"}
    /\ frame \in 0 .. 1 /\ update \in BOOLEAN /\ packets \in 0 .. MaxPackets
    /\ sendq \in Seq(0 .. 1)
    /\ vc \in Codec \cup {None} /\ enc \in Codec \cup {None} /\ chosen \in Codec \cup {None}
    /\ picup \in BOOLEAN /\ asked \in BOOLEAN /\ muted \in BOOLEAN
    /\ mutedFrames \in 0 .. MaxMuted

\* video_alloc, vtx_alloc.
Init ==
    /\ alive = "live" /\ started = FALSE /\ source = FALSE
    /\ at = "idle" /\ frame = 0 /\ update = FALSE /\ packets = 0
    /\ sendq = <<>>
    /\ vc = None /\ enc = None /\ chosen = None
    /\ picup = FALSE /\ asked = FALSE
    /\ muted = FALSE /\ mutedFrames = 0

-----------------------------------------------------------------------------
(* The thread of the video source. *)

\* vtx->muted_frames++, as far as it is looked at.
Counted == IF mutedFrames < MaxMuted THEN mutedFrames + 1 ELSE mutedFrames

\* Mutant: the queue is not looked at.
FrameBlind ==
    /\ source /\ at = "idle" /\ alive # "freed"
    /\ frame' = 1 - frame
    /\ IF muted /\ mutedFrames >= MaxMuted THEN UNCHANGED <<at, mutedFrames>>
       ELSE IF enc = None THEN at' = "idle" /\ mutedFrames' = Counted
       ELSE at' = "accepted" /\ UNCHANGED mutedFrames
    /\ UNCHANGED <<alive, started, source, update, packets, sendq, codec, picup, asked, muted>>

\* vidsrc_frame_handler up to the test of the queue in encode_rtp_send: the frame is
\* dropped when muted long enough, without encoder, or while packets of an earlier
\* frame are waiting.
Frame ==
    /\ source /\ at = "idle" /\ alive # "freed"
    /\ frame' = 1 - frame
    /\ IF muted /\ mutedFrames >= MaxMuted THEN UNCHANGED <<at, mutedFrames>>
       ELSE IF enc = None \/ sendq # <<>> THEN at' = "idle" /\ mutedFrames' = Counted
       ELSE at' = "accepted" /\ UNCHANGED mutedFrames
    /\ UNCHANGED <<alive, started, source, update, packets, sendq, codec, picup, asked, muted>>

\* Conversion and filters, under vtx->lock; a filter may fail, which ends the frame.
Filter ==
    /\ at = "accepted"
    /\ \/ at' = "filter" /\ UNCHANGED mutedFrames
       \/ at' = "idle" /\ mutedFrames' = Counted
    /\ UNCHANGED <<alive, started, source, frame, update, packets, sendq, codec, picup, asked, muted>>

\* The call of the encoder reads picup.
Encode ==
    /\ at = "filter"
    /\ at' = "encode" /\ update' = picup /\ packets' = 0
    /\ asked' = (asked /\ ~picup)
    /\ UNCHANGED <<alive, started, source, frame, sendq, codec, picup, mute>>

\* packet_handler: the encoder has a packet.
Packet ==
    /\ at = "encode" /\ packets < MaxPackets
    /\ packets' = packets + 1
    /\ sendq' = Append(sendq, frame)
    /\ UNCHANGED <<alive, started, source, at, frame, update, codec, picup, asked, mute>>

\* The encoder returns; after a failure picup stays.
Encoded(ok) ==
    /\ at = "encode"
    /\ at' = "idle" /\ mutedFrames' = Counted
    /\ picup' = (picup /\ ~ok)
    /\ asked' = (asked \/ (update /\ ~ok))
    /\ UNCHANGED <<alive, started, source, frame, update, packets, sendq, codec, muted>>

-----------------------------------------------------------------------------
(* The main loop. *)

\* Mutant: nothing is sent once the source is stopped.
PollRunning(n) ==
    /\ alive # "freed" /\ n \in 1 .. Len(sendq) /\ source
    /\ sendq' = SubSeq(sendq, n + 1, Len(sendq))
    /\ UNCHANGED <<alive, started, source, thread, codec, picup, asked, mute>>

\* rtp_tmr_handler, vidqueue_poll: some packets are sent, the first in any case.
Poll(n) ==
    /\ alive # "freed" /\ n \in 1 .. Len(sendq)
    /\ sendq' = SubSeq(sendq, n + 1, Len(sendq))
    /\ UNCHANGED <<alive, started, source, thread, codec, picup, asked, mute>>

\* set_encoder_format (by video_start) and video_set_source: the source that runs
\* ends its thread; a new one is opened or not.
SetSource(ok, start) ==
    /\ alive = "live" /\ at = "idle"
    /\ start \/ started
    /\ source' = ok
    /\ started' = (started \/ start)
    /\ UNCHANGED <<alive, thread, sendq, codec, picup, asked, mute>>

\* Mutant: the source goes on.
StopKeepsSource(end) ==
    /\ alive = "live"
    /\ started' = FALSE
    /\ alive' = IF end THEN "ending" ELSE alive
    /\ UNCHANGED <<source, thread, sendq, codec, picup, asked, mute>>

\* video_stop: for a changed offer, or for good by call_stream_stop.
Stop(end) ==
    /\ alive = "live" /\ at = "idle"
    /\ started' = FALSE /\ source' = FALSE
    /\ alive' = IF end THEN "ending" ELSE alive
    /\ UNCHANGED <<thread, sendq, codec, picup, asked, mute>>

\* Mutant: the released encoder stays in vtx->enc.
EncoderSetDangling(c, ok) ==
    /\ alive = "live"
    /\ IF c = vc THEN chosen' = c /\ UNCHANGED <<vc, enc>>
       ELSE IF ok THEN vc' = c /\ enc' = c /\ chosen' = c
       ELSE enc' = (IF enc = None THEN None ELSE "released") /\ chosen' = None /\ UNCHANGED vc
    /\ UNCHANGED <<alive, started, source, thread, sendq, picup, asked, mute>>

\* video_encoder_set, for an offer or by video_encoder_cycle.
EncoderSet(c, ok) ==
    /\ alive = "live"
    /\ IF c = vc THEN chosen' = c /\ UNCHANGED <<vc, enc>>
       ELSE IF ok THEN vc' = c /\ enc' = c /\ chosen' = c
       ELSE enc' = None /\ chosen' = None /\ UNCHANGED vc
    /\ UNCHANGED <<alive, started, source, thread, sendq, picup, asked, mute>>

\* rtcp_handler for FIR, PLI and NACK, and video_update_picture.
AskPicture ==
    /\ alive = "live"
    /\ picup' = TRUE /\ asked' = TRUE
    /\ UNCHANGED <<alive, started, source, thread, sendq, codec, mute>>

\* video_mute.
Mute(m) ==
    /\ alive = "live"
    /\ muted' = m /\ mutedFrames' = 0 /\ picup' = TRUE /\ asked' = TRUE
    /\ UNCHANGED <<alive, started, source, thread, sendq, codec>>

\* video_destructor, by call_destructor after call_stream_stop: queue and locks go
\* before the source.
Destroy ==
    /\ alive = "ending"
    /\ alive' = "freed" /\ sendq' = <<>> /\ source' = FALSE /\ enc' = None
    /\ UNCHANGED <<started, thread, vc, chosen, picup, asked, mute>>

Source == Frame \/ Filter \/ Encode \/ Packet \/ \E ok \in BOOLEAN : Encoded(ok)
Main ==
    \/ \E n \in 1 .. MaxPackets : Poll(n)
    \/ \E ok, start \in BOOLEAN : SetSource(ok, start)
    \/ \E end \in BOOLEAN : Stop(end)
    \/ \E c \in Codec, ok \in BOOLEAN : EncoderSet(c, ok)
    \/ AskPicture \/ \E m \in BOOLEAN : Mute(m)
    \/ Destroy
Next == Source \/ Main \/ (alive = "freed" /\ UNCHANGED vars)

\* The timer of the queue runs as long as the stream.
Spec == Init /\ [][Next]_vars /\ WF_vars(\E n \in 1 .. MaxPackets : Poll(n))

-----------------------------------------------------------------------------
\* The queue never holds packets of two frames, nor more than one frame's: a frame
\* is encoded only when the packets of the one before are sent, however slowly the
\* timer sends them.
OneFrameQueued == Len(sendq) <= MaxPackets /\ \A i, j \in DOMAIN sendq : sendq[i] = sendq[j]

\* The queue and its lock outlive the thread that fills it, although
\* video_destructor frees them before the source.
QueueOutlivesSource == alive = "freed" => at = "idle"

\* The send queue holds the packets of one frame at most, and lives longer than the thread
\* that fills it.
QueueIsSafe == OneFrameQueued /\ QueueOutlivesSource

\* What is in the queue is sent or goes with the stream, also after a stop or while
\* frames come faster than they are sent.
QueueDrains == \A n \in 1 .. MaxPackets : Len(sendq) >= n ~> Len(sendq) < n \/ alive = "freed"

\* "Send picture update" (struct vtx, picup): an update that was asked for is sent by
\* a frame that is encoded after it.
UpdateIsKept == asked => picup

\* "Use the next video encoder" (video_encoder_cycle): a call of video_encoder_set
\* that succeeds leaves that encoder.
EncoderIsSet == chosen # None => enc = chosen \/ alive = "freed"

\* "Lock for encoder" (struct vtx, lock): the encoder is not released while a frame
\* is encoded with it.
EncoderIsIdle == [][at = "encode" /\ at' = "encode" => enc' = enc]_vars
=============================================================================
