------------------------------- MODULE MCVideo -------------------------------
(***************************************************************************)
(* The video streams for TLC: the transmitter, the receiver, the encoders  *)
(* and decoders of all video codecs, and the encoders on a GStreamer       *)
(* pipeline, sound and failing. The components share no variable, so each  *)
(* is explored by itself: part names the one that moves while the others   *)
(* stay in an initial state, and what holds of every part holds of any     *)
(* interleaving of them.                                                   *)
(***************************************************************************)
EXTENDS VideoTx, FiniteSetTheorems, SequenceTheorems, WellFoundedInduction, TLAPS

CONSTANTS
    \* VideoRx: codecs with a decoder, PICUP_INTERVAL in ticks, a bound
    Decodable, Interval, Silence,
    \* VideoEncoders and VideoDecoders: rates, frames, sizes of packets and of a frame
    Rates, EncFrames, DecFrames, PktSize, MaxSize,
    \* GstEncoder: modules, parameters, frames that the pipeline holds
    Kinds, Params, Cap,
    \* sizes of pictures
    Sizes

VARIABLES
    part,   \* the component that moves
    \* VideoRx
    rxAlive, rxStarted, ptRx, rxVc, rxDec, display, tmr, rxBroken, since, met, crashed,
    \* VideoEncoders
    encCodec, encAsked, encUp, rate, lib, idr, was, out,
    \* VideoDecoders
    decCodec, wire, isKey, decUp, decDec, fed, sent, gap, arrived, before,
    \* GstEncoder
    gstKind, gstConf, gstAsked, gstValid, gstBuilt, gstBroken, gstFlag, gstLocked, gstQueue,
    gstEnc, gstFrame,
    \* GstEncoder
    gstErrKind, gstErrConf, gstErrAsked, gstErrValid, gstErrBuilt, gstErrBroken, gstErrFlag,
    gstErrLocked, gstErrQueue, gstErrEnc, gstErrFrame

\* The codecs with a decoder; two more only encode.
AllCodecs ==
    {"jdk", "openh264", "wels", "avc264", "h265", "vp8", "vp9", "av1", "mpeg4", "h263", "daala"}

Rx == INSTANCE VideoRx WITH
    alive <- rxAlive, started <- rxStarted, vc <- rxVc, dec <- rxDec, broken <- rxBroken
Enc == INSTANCE VideoEncoders WITH
    Codec <- AllCodecs \cup {"x264", "v4l2"}, Frames <- EncFrames, codec <- encCodec,
    asked <- encAsked, up <- encUp
Dec == INSTANCE VideoDecoders WITH
    Codec <- AllCodecs, Frames <- DecFrames, codec <- decCodec, up <- decUp, dec <- decDec
Gst == INSTANCE GstEncoder WITH
    Faults <- {}, kind <- gstKind, conf <- gstConf, asked <- gstAsked, valid <- gstValid,
    built <- gstBuilt, broken <- gstBroken, flag <- gstFlag, locked <- gstLocked,
    queue <- gstQueue, enc <- gstEnc, frame <- gstFrame
GstErr == INSTANCE GstEncoder WITH
    Faults <- {"error", "slow"}, kind <- gstErrKind, conf <- gstErrConf, asked <- gstErrAsked,
    valid <- gstErrValid, built <- gstErrBuilt, broken <- gstErrBroken, flag <- gstErrFlag,
    locked <- gstErrLocked, queue <- gstErrQueue, enc <- gstErrEnc, frame <- gstErrFrame

\* The components' assumptions on their constants hold for these values.
ASSUME PartsAssumption ==
    /\ Rx!VideoRxAssumption /\ Interval <= Silence
    /\ Enc!VideoEncodersAssumption
    /\ Dec!VideoDecodersAssumption
    /\ Gst!GstEncoderAssumption
    /\ GstErr!GstEncoderAssumption

rxVars == <<rxAlive, rxStarted, ptRx, rxVc, rxDec, display, tmr, rxBroken, since, met, crashed>>
encVars == <<encCodec, encAsked, encUp, rate, lib, idr, was, out>>
decVars == <<decCodec, wire, isKey, decUp, decDec, fed, sent, gap, arrived, before>>
gstVars == <<gstKind, gstConf, gstAsked, gstValid, gstBuilt, gstBroken, gstFlag, gstLocked,
      gstQueue, gstEnc, gstFrame>>
gstErrVars == <<gstErrKind, gstErrConf, gstErrAsked, gstErrValid, gstErrBuilt, gstErrBroken,
      gstErrFlag, gstErrLocked, gstErrQueue, gstErrEnc, gstErrFrame>>

all == <<part, vars, rxVars, encVars, decVars, gstVars, gstErrVars>>
Parts == {"tx", "rx", "enc", "dec", "gst", "gsterr"}

\* The one that is chosen begins in any initial state, the others in one of theirs.
AllInit ==
    /\ part \in Parts
    /\ Init
    /\ Rx!Init
    /\ Enc!Init /\ (part # "enc" => encCodec = "jdk")
    /\ Dec!Init /\ (part # "dec" => decCodec = "jdk")
    /\ Gst!Init /\ (part # "gst" => gstKind = "video")
    /\ GstErr!Init /\ (part # "gsterr" => gstErrKind = "video")

\* Everything that does not belong to p stays as it is.
Only(p) ==
    /\ part = p /\ UNCHANGED part
    /\ IF p = "tx" THEN TRUE ELSE UNCHANGED vars
    /\ IF p = "rx" THEN TRUE ELSE UNCHANGED rxVars
    /\ IF p = "enc" THEN TRUE ELSE UNCHANGED encVars
    /\ IF p = "dec" THEN TRUE ELSE UNCHANGED decVars
    /\ IF p = "gst" THEN TRUE ELSE UNCHANGED gstVars
    /\ IF p = "gsterr" THEN TRUE ELSE UNCHANGED gstErrVars

AllNext ==
    \/ Only("tx") /\ Next
    \/ Only("rx") /\ Rx!Next
    \/ Only("enc") /\ Enc!Next
    \/ Only("dec") /\ Dec!Next
    \/ Only("gst") /\ Gst!Next
    \/ Only("gsterr") /\ GstErr!Next

\* The fairness of each component, while it is the one that moves.
AllFairness ==
    /\ WF_all(Only("tx") /\ \E k \in 1 .. MaxPackets : Poll(k))
    /\ WF_all(Only("gst") /\ (Gst!Lock \/ Gst!Woken))
    /\ WF_all(Only("gst") /\ Gst!Push)
    /\ WF_all(Only("gst") /\ Gst!NewSample)
    /\ WF_all(Only("gst") /\ Gst!NeedData)

AllSpec == AllInit /\ [][AllNext]_all /\ AllFairness

-----------------------------------------------------------------------------
\* The types of all components.
AllTypesOK ==
    TypeOK /\ Rx!TypeOK /\ Enc!TypeOK /\ Dec!TypeOK /\ Gst!TypeOK /\ GstErr!TypeOK

\* VideoEncoders and VideoDecoders: what is sent was encoded as asked and can be cut together
\* again, and whatever is lost or damaged on the way, the decoders are given whole units, and
\* every frame that comes complete.
FramesArriveWhole ==
    /\ []Enc!FrameIsCarried /\ []Enc!FrameHasEnd /\ []Enc!PacketsFit /\ []Enc!EncodesAsAsked
    /\ Enc!BeginsWithKey /\ []Gst!EncodesAsSet /\ []GstErr!EncodesAsSet
    /\ []Dec!UnitsAreWhole /\ Dec!CompleteIsDecoded

\* VideoTx and GstEncoder: the send queue is emptied, and the thread of the source goes on
\* after every frame.
FramesGoOn == QueueDrains /\ Gst!FrameEnds

\* VideoRx: a picture update is asked for, once per interval, until one comes, and each packet
\* meets the decoder of its payload type or none.
AsksUntilIntra ==
    []Rx!AsksUntilIntra /\ Rx!AsksOncePerInterval /\ []Rx!PayloadMeetsDecoder

-----------------------------------------------------------------------------
(* Proof about VideoTx, for frames of any number of packets. What the send queue relies on: *)
(* the test of the queue in encode_rtp_send holds until the *)
(* encoder runs, and the end of the source's thread comes before the end of the stream.    *)
Packets ==
    /\ sendq \in Seq(0 .. 1) /\ Len(sendq) <= MaxPackets
    /\ frame \in 0 .. 1 /\ packets \in 0 .. MaxPackets
    /\ \A i, j \in 1 .. Len(sendq) : sendq[i] = sendq[j]
    /\ at \in {"accepted", "filter"} => sendq = <<>>
    /\ at = "encode" => Len(sendq) <= packets /\ \A i \in 1 .. Len(sendq) : sendq[i] = frame

Ends == alive \in {"ending", "freed"} => at = "idle" /\ ~source

\* The inductive invariant.
QueueInv == Packets /\ Ends

\* Every step of the thread keeps what is queued of one frame (vidsrc_frame_handler,
\* encode_rtp_send, packet_handler).
LEMMA SourceKeepsPackets == Packets /\ Source => Packets'
<1> SUFFICES ASSUME Packets, Source PROVE Packets'
  OBVIOUS
<1> USE VideoTxAssumption
<1>1. CASE Frame
  <2>1. at = "idle" /\ sendq' = sendq /\ frame' = 1 - frame /\ packets' = packets
    BY <1>1 DEF Frame
  <2>2. at' = "idle" \/ (at' = "accepted" /\ sendq = <<>>)
    BY <1>1, Zenon DEF Frame
  <2> QED BY <2>1, <2>2 DEF Packets
<1>2. CASE Filter
  BY <1>2 DEF Filter, Packets
<1>3. CASE Encode
  BY <1>3 DEF Encode, Packets
<1>4. CASE Packet
  <2> DEFINE q == Append(sendq, frame)
  <2>1. /\ q \in Seq(0 .. 1) /\ Len(q) = Len(sendq) + 1
        /\ \A i \in 1 .. Len(sendq) : q[i] = sendq[i]
        /\ q[Len(sendq) + 1] = frame
    BY AppendProperties DEF Packets
  <2>2. \A i \in 1 .. Len(q) : q[i] = frame
    BY <1>4, <2>1 DEF Packet, Packets
  <2> QED BY <1>4, <2>1, <2>2 DEF Packet, Packets
<1>5. ASSUME NEW ok \in BOOLEAN, Encoded(ok) PROVE Packets'
  BY <1>5 DEF Encoded, Packets
<1> QED BY <1>1, <1>2, <1>3, <1>4, <1>5 DEF Source

\* The main loop only takes packets from the front, or all of them (vidqueue_poll,
\* video_destructor).
LEMMA MainKeepsPackets == Packets /\ Main => Packets'
<1> SUFFICES ASSUME Packets, Main PROVE Packets'
  OBVIOUS
<1> USE VideoTxAssumption
<1>1. ASSUME NEW n \in 1 .. MaxPackets, Poll(n) PROVE Packets'
  <2> DEFINE q == SubSeq(sendq, n + 1, Len(sendq))
  <2>1. /\ q \in Seq(0 .. 1) /\ Len(q) <= Len(sendq)
        /\ \A i \in 1 .. Len(q) : i + n \in 1 .. Len(sendq) /\ q[i] = sendq[i + n]
    BY <1>1, SubSeqProperties DEF Poll, Packets
  <2>2. sendq # <<>>
    BY <1>1 DEF Poll
  <2>3. /\ sendq' = q /\ at' = at /\ frame' = frame /\ packets' = packets
    BY <1>1 DEF Poll, thread
  <2>4. \A i, j \in 1 .. Len(q) : q[i] = q[j]
    BY <2>1 DEF Packets
  <2> QED BY <2>1, <2>2, <2>3, <2>4 DEF Packets
<1>2. ASSUME UNCHANGED <<sendq, thread>> PROVE Packets'
  BY <1>2 DEF Packets, thread
<1>3. CASE Destroy
  BY <1>3 DEF Destroy, Packets, thread
<1>4. ASSUME NEW ok \in BOOLEAN, NEW start \in BOOLEAN, SetSource(ok, start) PROVE Packets'
  BY <1>2, <1>4 DEF SetSource
<1>5. ASSUME NEW end \in BOOLEAN, Stop(end) PROVE Packets'
  BY <1>2, <1>5 DEF Stop
<1>6. ASSUME NEW c \in Codec, NEW ok \in BOOLEAN, EncoderSet(c, ok) PROVE Packets'
  BY <1>2, <1>6 DEF EncoderSet
<1>7. ASSUME AskPicture \/ \E m \in BOOLEAN : Mute(m) PROVE Packets'
  BY <1>2, <1>7 DEF AskPicture, Mute
<1> QED BY <1>1, <1>3, <1>4, <1>5, <1>6, <1>7 DEF Main

\* The thread has ended before the stream does (video_stop, set_encoder_format).
LEMMA NextKeepsEnds == Ends /\ [Next]_vars => Ends'
<1> SUFFICES ASSUME Ends, [Next]_vars PROVE Ends'
  OBVIOUS
<1>1. CASE Source
  <2>1. alive' = alive /\ (source' <=> source)
    <3>1. ASSUME NEW ok \in BOOLEAN, Encoded(ok) PROVE alive' = alive /\ (source' <=> source)
      BY <3>1, Zenon DEF Encoded
    <3>2. ASSUME Frame PROVE alive' = alive /\ (source' <=> source)
      BY <3>2, Zenon DEF Frame
    <3>3. ASSUME Filter PROVE alive' = alive /\ (source' <=> source)
      BY <3>3, Zenon DEF Filter
    <3>4. ASSUME Encode PROVE alive' = alive /\ (source' <=> source)
      BY <3>4, Zenon DEF Encode
    <3>5. ASSUME Packet PROVE alive' = alive /\ (source' <=> source)
      BY <3>5, Zenon DEF Packet
    <3> QED BY <1>1, <3>1, <3>2, <3>3, <3>4, <3>5, Zenon DEF Source
  <2>2. Frame \/ at \in {"accepted", "filter", "encode"}
    BY <1>1 DEF Source, Filter, Encode, Packet, Encoded
  <2>3. Frame => source
    BY Zenon DEF Frame
  <2> QED BY <2>1, <2>2, <2>3 DEF Ends
<1>2. CASE Main
  <2>1. ASSUME alive' = alive, source' <=> source, UNCHANGED thread PROVE Ends'
    BY <2>1, Zenon DEF Ends, thread
  <2>2. ASSUME NEW n \in 1 .. MaxPackets, Poll(n) PROVE Ends'
    BY <2>1, <2>2, Zenon DEF Poll
  <2>3. ASSUME NEW ok \in BOOLEAN, NEW start \in BOOLEAN, SetSource(ok, start) PROVE Ends'
    BY <2>3 DEF SetSource, Ends
  <2>4. ASSUME NEW end \in BOOLEAN, Stop(end) PROVE Ends'
    BY <2>4, Zenon DEF Stop, Ends, thread
  <2>5. ASSUME NEW c \in Codec, NEW ok \in BOOLEAN, EncoderSet(c, ok) PROVE Ends'
    BY <2>1, <2>5, Zenon DEF EncoderSet
  <2>6. ASSUME AskPicture \/ \E m \in BOOLEAN : Mute(m) PROVE Ends'
    BY <2>1, <2>6, Zenon DEF AskPicture, Mute
  <2>7. CASE Destroy
    BY <2>7, Zenon DEF Destroy, Ends, thread
  <2> QED BY <1>2, <2>2, <2>3, <2>4, <2>5, <2>6, <2>7 DEF Main
<1>3. CASE UNCHANGED vars
  BY <1>3, Zenon DEF vars, thread, Ends
<1> QED BY <1>1, <1>2, <1>3 DEF Next

\* The initial state satisfies the invariant.
LEMMA QueueInit == Init => QueueInv
<1>1. Init => Packets
  BY VideoTxAssumption DEF Init, Packets
<1>2. Init => Ends
  BY DEF Init, Ends
<1> QED BY <1>1, <1>2 DEF QueueInv

\* Every step keeps it.
LEMMA QueueNext == QueueInv /\ [Next]_vars => QueueInv'
<1>1. Packets /\ UNCHANGED vars => Packets'
  BY DEF Packets, vars, thread
<1> QED BY <1>1, SourceKeepsPackets, MainKeepsPackets, NextKeepsEnds DEF Next, QueueInv

\* It is enough.
LEMMA QueueHolds == QueueInv => QueueIsSafe
<1>1. Packets => OneFrameQueued
  BY DEF Packets, OneFrameQueued
<1>2. Ends => QueueOutlivesSource
  BY DEF Ends, QueueOutlivesSource
<1> QED BY <1>1, <1>2 DEF QueueInv, QueueIsSafe

\* The types, which need the encoders known by name to be those of the codecs.
LEMMA TxTypesInit == Init => TypeOK
<1> SUFFICES ASSUME Init PROVE TypeOK
  OBVIOUS
<1>1. /\ alive = "live" /\ at = "idle" /\ frame \in 0 .. 1 /\ packets \in 0 .. MaxPackets
      /\ sendq \in Seq(0 .. 1) /\ mutedFrames \in 0 .. MaxMuted
  BY VideoTxAssumption DEF Init
<1>2. {started, source, update, picup, asked, muted} \subseteq BOOLEAN
  BY Zenon DEF Init
<1>3. vc = None /\ enc = None /\ chosen = None
  BY DEF Init
<1> QED BY <1>1, <1>2, <1>3, Zenon DEF TypeOK

\* Every step keeps the types.
LEMMA TxTypesNext == TypeOK /\ [Next]_vars => TypeOK'
<1> SUFFICES ASSUME TypeOK, [Next]_vars PROVE TypeOK'
  OBVIOUS
<1> USE VideoTxAssumption
<1>1. Counted \in 0 .. MaxMuted
  BY DEF Counted, TypeOK
<1>2. CASE UNCHANGED vars
  BY <1>2, Zenon DEF vars, TypeOK
<1>3. CASE Frame
  <2>1. frame' \in 0 .. 1
    BY <1>3 DEF Frame, TypeOK
  <2>2. at' \in {"idle", "accepted"} /\ mutedFrames' \in 0 .. MaxMuted
    <3>1. at' \in {at, "idle", "accepted"} /\ mutedFrames' \in {mutedFrames, Counted}
      BY <1>3, Zenon DEF Frame
    <3>2. at = "idle"
      BY <1>3, Zenon DEF Frame
    <3> QED BY <1>1, <3>1, <3>2 DEF TypeOK
  <2>3. UNCHANGED <<alive, started, source, update, packets, sendq, codec, picup, asked, muted>>
    BY <1>3, Zenon DEF Frame
  <2> QED BY <1>1, <2>1, <2>2, <2>3, Zenon DEF TypeOK, codec
<1>4. CASE Filter
  <2>1. at' \in {"idle", "filter"} /\ mutedFrames' \in {mutedFrames, Counted}
    BY <1>4, Zenon DEF Filter
  <2>2. UNCHANGED <<alive, started, source, frame, update, packets, sendq, codec, picup, asked,
                    muted>>
    BY <1>4, Zenon DEF Filter
  <2> QED BY <1>1, <2>1, <2>2, Zenon DEF TypeOK, codec
<1>5. CASE Encode
  <2>1. at' = "encode" /\ packets' = 0 /\ 0 \in 0 .. MaxPackets
    BY <1>5 DEF Encode
  <2>2. update' \in BOOLEAN /\ asked' \in BOOLEAN
    BY <1>5, Zenon DEF Encode, TypeOK
  <2>3. UNCHANGED <<alive, started, source, frame, sendq, codec, picup, mute>>
    BY <1>5, Zenon DEF Encode
  <2> QED BY <2>1, <2>2, <2>3, Zenon DEF TypeOK, codec, mute
<1>6. CASE Packet
  <2>1. packets' \in 0 .. MaxPackets /\ sendq' \in Seq(0 .. 1)
    BY <1>6, AppendProperties DEF Packet, TypeOK
  <2>2. UNCHANGED <<alive, started, source, at, frame, update, codec, picup, asked, mute>>
    BY <1>6, Zenon DEF Packet
  <2> QED BY <2>1, <2>2, Zenon DEF TypeOK, codec, mute
<1>7. ASSUME NEW ok \in BOOLEAN, Encoded(ok) PROVE TypeOK'
  <2>1. picup' \in BOOLEAN /\ asked' \in BOOLEAN
    BY <1>7, Zenon DEF Encoded, TypeOK
  <2>2. at' = "idle" /\ mutedFrames' = Counted
        /\ UNCHANGED <<alive, started, source, frame, update, packets, sendq, codec, muted>>
    BY <1>7, Zenon DEF Encoded
  <2> QED BY <1>1, <2>1, <2>2, Zenon DEF TypeOK, codec
<1>8. ASSUME NEW n \in 1 .. MaxPackets, Poll(n) PROVE TypeOK'
  <2>1. sendq' \in Seq(0 .. 1)
    BY <1>8, SubSeqProperties DEF Poll, TypeOK
  <2>2. UNCHANGED <<alive, started, source, thread, codec, picup, asked, mute>>
    BY <1>8, Zenon DEF Poll
  <2> QED BY <2>1, <2>2, Zenon DEF TypeOK, thread, codec, mute
<1>9. ASSUME NEW ok \in BOOLEAN, NEW start \in BOOLEAN, SetSource(ok, start) PROVE TypeOK'
  <2>1. source' \in BOOLEAN /\ started' \in BOOLEAN
    BY <1>9, Zenon DEF SetSource, TypeOK
  <2>2. UNCHANGED <<alive, thread, sendq, codec, picup, asked, mute>>
    BY <1>9, Zenon DEF SetSource
  <2> QED BY <2>1, <2>2, Zenon DEF TypeOK, thread, codec, mute
<1>10. ASSUME NEW end \in BOOLEAN, Stop(end) PROVE TypeOK'
  <2>1. source' = FALSE /\ started' = FALSE /\ alive' \in {alive, "ending"}
    BY <1>10, Zenon DEF Stop
  <2>2. UNCHANGED <<thread, sendq, codec, picup, asked, mute>>
    BY <1>10, Zenon DEF Stop
  <2> QED BY <2>1, <2>2, Zenon DEF TypeOK, thread, codec, mute
<1>11. ASSUME NEW c \in Codec, NEW ok \in BOOLEAN, EncoderSet(c, ok) PROVE TypeOK'
  <2>1. {vc', enc', chosen'} \subseteq {vc, enc, c, None}
    BY <1>11, Zenon DEF EncoderSet
  <2>2. UNCHANGED <<alive, started, source, thread, sendq, picup, asked, mute>>
    BY <1>11, Zenon DEF EncoderSet
  <2> QED BY <2>1, <2>2, Zenon DEF TypeOK, thread, mute
<1>12. CASE AskPicture
  BY <1>12, Zenon DEF AskPicture, TypeOK, thread, codec, mute
<1>13. ASSUME NEW m \in BOOLEAN, Mute(m) PROVE TypeOK'
  <2>1. 0 \in 0 .. MaxMuted
    OBVIOUS
  <2> QED BY <1>13, <2>1, Zenon DEF Mute, TypeOK, thread, codec
<1>14. CASE Destroy
  <2>1. sendq' \in Seq(0 .. 1)
    BY <1>14 DEF Destroy
  <2>2. alive' = "freed" /\ source' = FALSE /\ enc' = None
        /\ UNCHANGED <<started, thread, vc, chosen, picup, asked, mute>>
    BY <1>14, Zenon DEF Destroy
  <2> QED BY <2>1, <2>2, Zenon DEF TypeOK, thread, mute
<1> QED
  BY <1>2, <1>3, <1>4, <1>5, <1>6, <1>7, <1>8, <1>9, <1>10, <1>11, <1>12, <1>13, <1>14, Zenon
     DEF Next, Source, Main


-----------------------------------------------------------------------------
(* Proof about VideoRx, for any interval. *)

\* How long ago an update was asked for, as long as one is awaited, and the decoder at hand.
RxInv ==
    /\ Rx!TypeOK
    /\ tmr # Rx!Off => since = Interval - tmr
    /\ tmr = Rx!Off => since = 0
    /\ rxBroken => tmr # Rx!Off
    /\ rxDec \in {Rx!None, ptRx} /\ rxDec \in {Rx!None, rxVc}
    /\ met.dec \in {Rx!None, met.pt}

\* The initial state satisfies the invariant.
LEMMA RxInit == Rx!Init => RxInv
<1> SUFFICES ASSUME Rx!Init PROVE RxInv
  OBVIOUS
<1>1. /\ ptRx = Rx!None /\ rxVc = Rx!None /\ rxDec = Rx!None /\ tmr = Rx!Off /\ since = 0
      /\ since \in 0 .. Silence
      /\ met \in [pt : Codec \cup {Rx!None}, dec : Codec \cup {Rx!None}] /\ met.dec = Rx!None
  BY PartsAssumption DEF Rx!Init, Rx!VideoRxAssumption
<1>2. {rxAlive, rxStarted, display, rxBroken, crashed} \subseteq BOOLEAN /\ ~rxBroken
  BY Zenon DEF Rx!Init
<1>3. Rx!TypeOK
  BY <1>1, <1>2, Zenon DEF Rx!TypeOK
<1>. QED BY <1>1, <1>2, <1>3 DEF RxInv

\* What video_decoder_set leaves when every codec has a decoder: that of the codec or none.
LEMMA RxDecoderSet ==
    ASSUME RxInv, Decodable = Codec, NEW c \in Codec, NEW ok \in BOOLEAN
    PROVE  /\ Rx!DecoderSet(c, ok).vc \in Codec \cup {Rx!None}
           /\ Rx!DecoderSet(c, ok).dec \in {Rx!None, c}
           /\ Rx!DecoderSet(c, ok).dec \in {Rx!None, Rx!DecoderSet(c, ok).vc}
           /\ Rx!DecoderSet(c, ok).dec \in Codec \cup {Rx!None}
<1>1. rxVc \in Codec \cup {Rx!None} /\ rxDec \in {Rx!None, rxVc}
  BY DEF RxInv, Rx!TypeOK
<1>2. CASE c = rxVc
  BY <1>1, <1>2 DEF Rx!DecoderSet
<1>3. CASE c # rxVc /\ ok
  BY <1>1, <1>3 DEF Rx!DecoderSet
<1>4. CASE c # rxVc /\ ~ok
  BY <1>1, <1>4 DEF Rx!DecoderSet
<1>. QED BY <1>2, <1>3, <1>4

\* The timer and the display after a packet that meets the decoder d.
LEMMA RxDecode ==
    ASSUME RxInv, NEW d, NEW outcome \in Rx!Outcome, Rx!Decode(d, outcome)
    PROVE  /\ tmr' \in {Rx!Off} \cup 0 .. Interval /\ since' \in 0 .. Silence
           /\ {rxAlive', display', rxBroken'} \subseteq BOOLEAN
           /\ tmr' # Rx!Off => since' = Interval - tmr'
           /\ tmr' = Rx!Off => since' = 0
           /\ rxBroken' => tmr' # Rx!Off
           /\ since' < since => ~rxBroken'
<1>1. /\ tmr \in {Rx!Off} \cup 0 .. Interval /\ since \in 0 .. Silence
      /\ tmr # Rx!Off => since = Interval - tmr
      /\ tmr = Rx!Off => since = 0
  BY DEF RxInv, Rx!TypeOK
<1>2. {rxAlive, display, rxBroken} \subseteq BOOLEAN /\ (rxBroken => tmr # Rx!Off)
  BY Zenon DEF RxInv, Rx!TypeOK
<1>3. Interval \in Nat /\ Silence \in Nat /\ Interval # Rx!Off
  BY PartsAssumption DEF Rx!VideoRxAssumption, Rx!Off
<1>4. {rxAlive', display'} \subseteq BOOLEAN
  BY <1>2, Zenon DEF Rx!Decode
<1>5. CASE UNCHANGED <<tmr, rxBroken, since>>
  BY <1>1, <1>2, <1>4, <1>5
<1>6. CASE rxBroken' = TRUE /\ Rx!Request
  <2>1. \/ tmr # Rx!Off /\ tmr' = tmr /\ since' = since
        \/ tmr = Rx!Off /\ tmr' = Interval /\ since' = 0
    BY <1>6 DEF Rx!Request
  <2>2. rxBroken' \in BOOLEAN
    BY <1>6
  <2>. QED BY <1>1, <1>3, <1>4, <2>1, <2>2
<1>7. CASE tmr' = Rx!Off /\ rxBroken' = FALSE /\ since' = 0
  <2>1. rxBroken' \in BOOLEAN
    BY <1>7
  <2>. QED BY <1>3, <1>4, <1>7, <2>1
<1>8. \/ UNCHANGED <<tmr, rxBroken, since>>
      \/ rxBroken' = TRUE /\ Rx!Request
      \/ tmr' = Rx!Off /\ rxBroken' = FALSE /\ since' = 0
  BY Zenon DEF Rx!Decode
<1>. QED BY <1>5, <1>6, <1>7, <1>8

\* Every step keeps the invariant, and asks at most once in an interval (video_stream_decode,
\* request_picture_update, picup_tmr_handler).
LEMMA RxNext ==
    ASSUME Decodable = Codec, RxInv, [Rx!Next]_rxVars
    PROVE  RxInv' /\ (since' < since => since >= Interval \/ ~rxBroken')
<1>1. /\ tmr \in {Rx!Off} \cup 0 .. Interval /\ since \in 0 .. Silence
      /\ tmr # Rx!Off => since = Interval - tmr
      /\ tmr = Rx!Off => since = 0
      /\ ptRx \in Codec \cup {Rx!None} /\ rxVc \in Codec \cup {Rx!None}
      /\ rxDec \in {Rx!None, ptRx} /\ rxDec \in {Rx!None, rxVc} /\ rxDec \in Codec \cup {Rx!None}
      /\ met \in [pt : Codec \cup {Rx!None}, dec : Codec \cup {Rx!None}]
      /\ met.dec \in {Rx!None, met.pt}
  BY DEF RxInv, Rx!TypeOK
<1>2. {rxAlive, rxStarted, display, rxBroken, crashed} \subseteq BOOLEAN
      /\ (rxBroken => tmr # Rx!Off)
  BY Zenon DEF RxInv, Rx!TypeOK
<1>3. Interval \in Nat \ {0} /\ Silence \in Nat /\ Interval <= Silence /\ Rx!Off = -1
  BY PartsAssumption DEF Rx!VideoRxAssumption, Rx!Off
<1>4. ASSUME UNCHANGED <<tmr, rxBroken, since>>,
             UNCHANGED <<ptRx, rxVc, rxDec, met>>,
             {rxAlive', rxStarted', display', crashed'} \subseteq BOOLEAN
      PROVE  RxInv' /\ (since' < since => since >= Interval \/ ~rxBroken')
  <2>1. ~(since' < since)
    BY <1>1, <1>4
  <2>. QED BY <1>4, <2>1, Zenon DEF RxInv, Rx!TypeOK
<1>5. CASE UNCHANGED rxVars
  BY <1>2, <1>4, <1>5, Zenon DEF rxVars
<1>6. ASSUME NEW c \in Codec, NEW ok \in BOOLEAN, Rx!Offer(c, ok)
      PROVE  RxInv' /\ (since' < since => since >= Interval \/ ~rxBroken')
  <2>1. /\ rxVc' \in Codec \cup {Rx!None} /\ rxDec' \in Codec \cup {Rx!None}
        /\ rxDec' \in {Rx!None, c} /\ rxDec' \in {Rx!None, rxVc'} /\ ptRx' = c
    BY <1>6, RxDecoderSet DEF Rx!Offer
  <2>2. UNCHANGED <<rxAlive, rxStarted, display, tmr, rxBroken, since, met, crashed>>
    BY <1>6, Zenon DEF Rx!Offer
  <2>3. ~(since' < since) /\ rxDec' \in {Rx!None, ptRx'}
    BY <1>1, <2>1, <2>2
  <2>. QED BY <2>1, <2>2, <2>3, Zenon DEF RxInv, Rx!TypeOK
<1>7. ASSUME NEW shown \in BOOLEAN, Rx!Start(shown)
      PROVE  RxInv' /\ (since' < since => since >= Interval \/ ~rxBroken')
  BY <1>2, <1>4, <1>7, Zenon DEF Rx!Start
<1>8. ASSUME NEW pt \in Codec, NEW ok \in BOOLEAN, NEW outcome \in Rx!Outcome,
             Rx!Recv(pt, ok, outcome)
      PROVE  RxInv' /\ (since' < since => since >= Interval \/ ~rxBroken')
  <2> DEFINE set == IF pt = ptRx THEN [vc |-> rxVc, dec |-> rxDec, err |-> FALSE]
                    ELSE Rx!DecoderSet(pt, ok)
  <2>1. /\ set.vc \in Codec \cup {Rx!None} /\ set.dec \in Codec \cup {Rx!None}
        /\ set.dec \in {Rx!None, pt} /\ set.dec \in {Rx!None, set.vc}
    <3>1. CASE pt = ptRx
      BY <1>1, <3>1
    <3>2. CASE pt # ptRx
      BY <3>2, RxDecoderSet
    <3>. QED BY <3>1, <3>2
  <2>2. /\ ptRx' = pt /\ rxVc' = set.vc /\ rxDec' = set.dec
        /\ UNCHANGED <<rxStarted, crashed>>
        /\ \/ UNCHANGED <<rxAlive, display, tmr, rxBroken, since, met>>
           \/ met' = [pt |-> pt, dec |-> set.dec] /\ Rx!Decode(set.dec, outcome)
    BY <1>8, Zenon DEF Rx!Recv
  <2> HIDE DEF set
  <2>3. /\ ptRx' \in Codec \cup {Rx!None} /\ rxVc' \in Codec \cup {Rx!None}
        /\ rxDec' \in Codec \cup {Rx!None}
        /\ rxDec' \in {Rx!None, ptRx'} /\ rxDec' \in {Rx!None, rxVc'}
    BY <2>1, <2>2
  <2>4. CASE UNCHANGED <<rxAlive, display, tmr, rxBroken, since, met>>
    <3>1. ~(since' < since)
      BY <1>1, <2>4
    <3>. QED BY <2>2, <2>3, <2>4, <3>1, Zenon DEF RxInv, Rx!TypeOK
  <2>5. CASE met' = [pt |-> pt, dec |-> set.dec] /\ Rx!Decode(set.dec, outcome)
    <3>1. /\ met' \in [pt : Codec \cup {Rx!None}, dec : Codec \cup {Rx!None}]
          /\ met'.dec \in {Rx!None, met'.pt}
      BY <2>1, <2>5
    <3>2. /\ tmr' \in {Rx!Off} \cup 0 .. Interval /\ since' \in 0 .. Silence
          /\ {rxAlive', display', rxBroken'} \subseteq BOOLEAN
          /\ (tmr' # Rx!Off => since' = Interval - tmr')
          /\ (tmr' = Rx!Off => since' = 0)
          /\ (rxBroken' => tmr' # Rx!Off)
          /\ (since' < since => ~rxBroken')
      BY <2>5, RxDecode
    <3>. QED BY <2>2, <2>3, <3>1, <3>2, Zenon DEF RxInv, Rx!TypeOK
  <2>. QED BY <2>2, <2>4, <2>5
<1>9. CASE Rx!Stop
  BY <1>2, <1>4, <1>9, Zenon DEF Rx!Stop
<1>10. CASE Rx!PicupTimer
  <2>1. /\ tmr = 0 /\ since >= Interval
        /\ tmr' \in {Rx!Off} \cup 0 .. Interval /\ since' \in 0 .. Silence
        /\ since' = Interval - tmr' /\ tmr' # Rx!Off
    BY <1>1, <1>3, <1>10 DEF Rx!PicupTimer
  <2>2. UNCHANGED <<rxAlive, rxStarted, ptRx, rxVc, rxDec, display, rxBroken, met, crashed>>
    BY <1>10, Zenon DEF Rx!PicupTimer
  <2>. QED BY <2>1, <2>2, Zenon DEF RxInv, Rx!TypeOK
<1>11. CASE Rx!Update
  <2>1. UNCHANGED <<rxAlive, rxStarted, ptRx, rxVc, rxDec, display, tmr, rxBroken, since, met>>
        /\ crashed' \in BOOLEAN
    BY <1>11, Zenon DEF Rx!Update
  <2>. QED BY <1>2, <1>4, <2>1, Zenon
<1>12. CASE Rx!Tick
  <2>1. UNCHANGED <<rxAlive, rxStarted, ptRx, rxVc, rxDec, display, rxBroken, met, crashed>>
    BY <1>12, Zenon DEF Rx!Tick
  <2>2. CASE tmr = Rx!Off
    <3>1. UNCHANGED <<tmr, since>>
      BY <1>12, <2>2 DEF Rx!Tick
    <3>. QED BY <1>2, <1>4, <2>1, <3>1, Zenon
  <2>3. CASE tmr # Rx!Off
    <3>1. tmr \in 1 .. Interval /\ since < Silence
      BY <1>1, <1>3, <1>12, <2>3 DEF Rx!Tick
    <3>2. tmr' = tmr - 1 /\ since' = since + 1
      BY <1>1, <1>12, <2>3, <3>1 DEF Rx!Tick
    <3>3. /\ tmr' \in {Rx!Off} \cup 0 .. Interval /\ since' \in 0 .. Silence
          /\ since' = Interval - tmr' /\ tmr' # Rx!Off /\ ~(since' < since)
      BY <1>1, <1>3, <3>1, <3>2
    <3>. QED BY <2>1, <3>3, Zenon DEF RxInv, Rx!TypeOK
  <2>. QED BY <2>2, <2>3
<1>13. CASE UNCHANGED Rx!vars
  BY <1>2, <1>4, <1>13, Zenon DEF Rx!vars
<1>. QED
  BY <1>5, <1>6, <1>7, <1>8, <1>9, <1>10, <1>11, <1>12, <1>13, Zenon DEF Rx!Next

\* It is enough.
LEMMA RxHolds == RxInv => Rx!TypeOK /\ Rx!AsksUntilIntra /\ Rx!PayloadMeetsDecoder
<1> SUFFICES ASSUME RxInv PROVE Rx!TypeOK /\ Rx!AsksUntilIntra /\ Rx!PayloadMeetsDecoder
  OBVIOUS
<1>1. /\ tmr \in {Rx!Off} \cup 0 .. Interval
      /\ tmr # Rx!Off => since = Interval - tmr
      /\ rxBroken => tmr # Rx!Off
  BY DEF RxInv, Rx!TypeOK
<1>2. Interval \in Nat
  BY PartsAssumption DEF Rx!VideoRxAssumption
<1>3. Rx!AsksUntilIntra
  <2>1. tmr # Rx!Off => since <= Interval
    BY <1>1, <1>2
  <2>. QED BY <1>1, <2>1, Zenon DEF Rx!AsksUntilIntra
<1>. QED BY <1>3, Zenon DEF RxInv, Rx!PayloadMeetsDecoder


-----------------------------------------------------------------------------
(* Proof about GstEncoder, for any parameters, sizes and length of the pipeline's queue. *)

\* A pipeline that works was built for the parameters that the encoder has, and the frame at
\* hand goes into one that was built for its size as well.
GstInv ==
    /\ Gst!TypeOK
    /\ gstValid => gstBuilt[1] = gstConf /\ gstBuilt # Gst!Nothing
    /\ gstEnc \in {"lock", "wait", "push"} => gstBuilt = <<gstConf, gstFrame>>

\* The initial state satisfies the invariant.
LEMMA GstInit == Gst!Init => GstInv
<1> SUFFICES ASSUME Gst!Init PROVE GstInv
  OBVIOUS
<1>1. {gstValid, gstBroken, gstLocked} \subseteq BOOLEAN /\ ~gstValid
  BY Zenon DEF Gst!Init
<1>2. /\ gstKind \in Kinds /\ gstConf = Gst!None /\ gstAsked = Gst!None /\ gstFrame = Gst!None
      /\ gstBuilt = Gst!Nothing /\ gstFlag = "feed" /\ gstQueue \in 0 .. Cap /\ gstEnc = "idle"
  BY PartsAssumption DEF Gst!Init, Gst!GstEncoderAssumption
<1>3. Gst!TypeOK
  BY <1>1, <1>2, Zenon DEF Gst!TypeOK, Gst!Nothing
<1>. QED BY <1>1, <1>2, <1>3 DEF GstInv

\* Every step keeps it: the parameters change between two frames only.
LEMMA GstNext == GstInv /\ [Gst!Next]_gstVars => GstInv'
<1> SUFFICES ASSUME GstInv, [Gst!Next]_gstVars PROVE GstInv'
  OBVIOUS
<1>1. /\ gstKind \in Kinds /\ gstConf \in Params \cup {Gst!None}
      /\ gstAsked \in Params \cup {Gst!None}
      /\ {gstValid, gstBroken, gstLocked} \subseteq BOOLEAN
      /\ gstBuilt \in (Params \X Sizes) \cup {Gst!Nothing}
      /\ gstFlag \in {"feed", "full", "gone"} /\ gstQueue \in 0 .. Cap
      /\ gstEnc \in {"idle", "lock", "wait", "push", "stuck"}
      /\ gstFrame \in Sizes \cup {Gst!None}
  BY Zenon DEF GstInv, Gst!TypeOK, Gst!Nothing
<1>2. Cap \in Nat \ {0}
  BY PartsAssumption DEF Gst!GstEncoderAssumption
\* a step that keeps the encoder and its pipeline
<1>3. ASSUME UNCHANGED <<gstKind, gstConf, gstAsked, gstBuilt, gstFrame>>,
             gstValid' \in BOOLEAN, gstValid' => gstValid, {gstBroken',
                   gstLocked'} \subseteq BOOLEAN,
             gstFlag' \in {"feed", "full", "gone"}, gstQueue' \in 0 .. Cap,
             gstEnc' \in {"idle", "lock", "wait", "push", "stuck"},
             gstEnc' \in {"lock", "wait", "push"} => gstEnc \in {"lock", "wait", "push"}
      PROVE  GstInv'
  <2>1. Gst!TypeOK'
    BY <1>1, <1>3, Zenon DEF Gst!TypeOK, Gst!Nothing
  <2>. QED BY <1>3, <2>1, Zenon DEF GstInv
\* one that is taken between two frames
<1>4. ASSUME gstKind' = gstKind, gstConf' \in Params \cup {Gst!None},
             gstAsked' \in Params \cup {Gst!None}, gstFrame' \in Sizes \cup {Gst!None},
             {gstValid', gstBroken', gstLocked'} \subseteq BOOLEAN,
             gstBuilt' \in (Params \X Sizes) \cup {Gst!Nothing},
             gstFlag' \in {"feed", "full", "gone"}, gstQueue' \in 0 .. Cap,
             gstValid' => gstBuilt'[1] = gstConf' /\ gstBuilt' # Gst!Nothing,
             gstEnc' = "idle" \/ (gstEnc' = "lock" /\ gstBuilt' = <<gstConf', gstFrame'>>)
      PROVE  GstInv'
  <2>1. gstEnc' \in {"idle", "lock", "wait", "push", "stuck"}
    BY <1>4
  <2>2. Gst!TypeOK'
    BY <1>1, <1>4, <2>1, Zenon DEF Gst!TypeOK, Gst!Nothing
  <2>3. gstEnc' \in {"lock", "wait", "push"} => gstBuilt' = <<gstConf', gstFrame'>>
    BY <1>4
  <2>. QED BY <1>4, <2>2, <2>3, Zenon DEF GstInv
<1>5. CASE UNCHANGED gstVars
  BY <1>1, <1>3, <1>5, Zenon DEF gstVars
<1>6. CASE Gst!Lock
  <2>1. gstEnc = "lock" /\ gstEnc' \in {"idle", "wait", "push", "stuck"}
    <3>1. gstEnc' = IF gstLocked THEN "stuck"
                    ELSE CASE gstFlag = "full" -> "wait" [] gstFlag = "gone" -> "idle"
                           [] OTHER -> "push"
      BY <1>6, Zenon DEF Gst!Lock
    <3>2. gstEnc = "lock"
      BY <1>6, Zenon DEF Gst!Lock
    <3>. QED BY <1>1, <3>1, <3>2
  <2>2. UNCHANGED <<gstKind, gstConf, gstAsked, gstValid, gstBuilt, gstBroken, gstFlag, gstLocked,
                    gstQueue, gstFrame>>
    BY <1>6, Zenon DEF Gst!Lock, Gst!pipe
  <2>. QED BY <1>1, <1>3, <2>1, <2>2
<1>7. CASE Gst!Woken
  <2>1. gstEnc = "wait" /\ gstEnc' \in {"idle", "push"}
    BY <1>7, Zenon DEF Gst!Woken
  <2>2. UNCHANGED <<gstKind, gstConf, gstAsked, gstValid, gstBuilt, gstBroken, gstFlag, gstLocked,
                    gstQueue, gstFrame>>
    BY <1>7, Zenon DEF Gst!Woken, Gst!pipe
  <2>. QED BY <1>1, <1>3, <2>1, <2>2
<1>8. CASE Gst!WaitOver
  <2>1. gstEnc' = "idle" /\ gstLocked' \in BOOLEAN
    BY <1>8, Zenon DEF Gst!WaitOver
  <2>2. UNCHANGED <<gstKind, gstConf, gstAsked, gstValid, gstBuilt, gstBroken, gstFlag, gstQueue,
                    gstFrame>>
    BY <1>8, Zenon DEF Gst!WaitOver
  <2>. QED BY <1>1, <1>3, <2>1, <2>2
<1>9. CASE Gst!Push
  <2>1. UNCHANGED <<gstKind, gstConf, gstAsked, gstValid, gstBuilt, gstBroken, gstLocked, gstFrame>>
        /\ gstEnc = "push" /\ gstEnc' \in {"idle", "push"}
    BY <1>9, Zenon DEF Gst!Push
  <2>2. gstFlag' \in {gstFlag, "full"}
        /\ (gstQueue' = gstQueue \/ (gstQueue # Cap /\ gstQueue' = gstQueue + 1))
    BY <1>9, Zenon DEF Gst!Push
  <2>3. gstFlag' \in {"feed", "full", "gone"} /\ gstQueue' \in 0 .. Cap
    BY <1>1, <1>2, <2>2
  <2>. QED BY <1>1, <1>3, <2>1, <2>3
<1>10. CASE Gst!NewSample
  <2>1. gstQueue' \in 0 .. Cap
    BY <1>1, <1>2, <1>10 DEF Gst!NewSample
  <2>2. UNCHANGED <<gstKind, gstConf, gstAsked, gstValid, gstBuilt, gstBroken, gstFlag, gstLocked,
                    gstEnc, gstFrame>>
    BY <1>10, Zenon DEF Gst!NewSample
  <2>. QED BY <1>1, <1>3, <2>1, <2>2
<1>11. CASE Gst!NeedData
  <2>1. gstFlag' = "feed"
    BY <1>11, Zenon DEF Gst!NeedData
  <2>2. UNCHANGED <<gstKind, gstConf, gstAsked, gstValid, gstBuilt, gstBroken, gstLocked, gstQueue,
                    gstEnc, gstFrame>>
    BY <1>11, Zenon DEF Gst!NeedData
  <2>. QED BY <1>1, <1>3, <2>1, <2>2
<1>12. CASE Gst!BusError
  <2>1. gstBroken' \in BOOLEAN /\ gstValid' \in BOOLEAN /\ (gstValid' => gstValid)
    BY <1>12, Zenon DEF Gst!BusError
  <2>2. UNCHANGED <<gstKind, gstConf, gstAsked, gstBuilt, gstFlag, gstLocked, gstQueue, gstEnc,
                    gstFrame>>
    BY <1>12, Zenon DEF Gst!BusError
  <2>. QED BY <1>1, <1>3, <2>1, <2>2
<1>13. CASE Gst!Destroy
  <2>1. /\ gstConf' = Gst!None /\ gstAsked' = Gst!None /\ gstFrame' = Gst!None
        /\ gstValid' = FALSE /\ gstBuilt' = Gst!Nothing /\ gstBroken' = FALSE
        /\ gstFlag' = "feed" /\ gstLocked' = FALSE /\ gstQueue' = 0 /\ gstEnc = "idle"
        /\ UNCHANGED <<gstKind, gstEnc>>
    BY <1>13, Zenon DEF Gst!Destroy
  <2>2. {gstValid', gstBroken', gstLocked'} \subseteq BOOLEAN
    BY <2>1, Zenon
  <2>3. gstQueue' \in 0 .. Cap
    BY <1>2, <2>1
  <2>. QED BY <1>4, <2>1, <2>2, <2>3
<1>14. ASSUME NEW x \in Params, Gst!EncoderSet(x) PROVE GstInv'
  <2>1. gstEnc = "idle" /\ gstAsked' = x /\ UNCHANGED <<gstKind, gstEnc, gstFrame>>
    BY <1>14 DEF Gst!EncoderSet
  <2>2. \/ UNCHANGED <<gstConf, gstValid, gstBuilt, gstBroken, gstFlag, gstLocked, gstQueue>>
        \/ gstConf' = x /\ Gst!CloseIt
        \/ /\ gstConf' = x /\ (gstValid => x = gstConf)
           /\ UNCHANGED <<gstValid, gstBuilt, gstBroken, gstFlag, gstLocked, gstQueue>>
    BY <1>14, Zenon DEF Gst!EncoderSet, Gst!pipe
  <2>3. CASE UNCHANGED <<gstConf, gstValid, gstBuilt, gstBroken, gstFlag, gstLocked, gstQueue>>
    BY <1>1, <1>4, <2>1, <2>3 DEF GstInv
  <2>4. CASE gstConf' = x /\ Gst!CloseIt
    <3>1. /\ gstValid' = FALSE /\ gstBuilt' = Gst!Nothing /\ gstBroken' = FALSE /\ gstQueue' = 0
          /\ gstFlag' \in {gstFlag, "gone"} /\ UNCHANGED gstLocked
      BY <2>4, Zenon DEF Gst!CloseIt
    <3>2. {gstValid', gstBroken', gstLocked'} \subseteq BOOLEAN
      BY <1>1, <3>1, Zenon
    <3>3. gstQueue' \in 0 .. Cap /\ gstFlag' \in {"feed", "full", "gone"}
      BY <1>1, <1>2, <3>1
    <3>. QED BY <1>1, <1>4, <2>1, <2>4, <3>1, <3>2, <3>3
  <2>5. CASE /\ gstConf' = x /\ (gstValid => x = gstConf)
             /\ UNCHANGED <<gstValid, gstBuilt, gstBroken, gstFlag, gstLocked, gstQueue>>
    BY <1>1, <1>4, <2>1, <2>5 DEF GstInv
  <2>. QED BY <2>2, <2>3, <2>4, <2>5
<1>15. ASSUME NEW z \in Sizes, NEW ok \in BOOLEAN, Gst!Encode(z, ok) PROVE GstInv'
  <2>1. /\ gstEnc = "idle" /\ gstConf \in Params /\ gstFrame' = z
        /\ UNCHANGED <<gstKind, gstConf, gstAsked>>
    BY <1>1, <1>15 DEF Gst!Encode
  <2>2. \/ Gst!InitIt(z, ok) /\ gstEnc' = IF ok THEN "lock" ELSE "idle"
        \/ /\ gstValid /\ gstBuilt[2] = z /\ gstEnc' = "lock"
           /\ UNCHANGED <<gstValid, gstBuilt, gstBroken, gstFlag, gstLocked, gstQueue>>
    BY <1>15, Zenon DEF Gst!Encode, Gst!pipe
  <2>3. CASE Gst!InitIt(z, ok) /\ gstEnc' = IF ok THEN "lock" ELSE "idle"
    <3>1. /\ gstValid' = ok /\ gstBuilt' = IF ok THEN <<gstConf, z>> ELSE Gst!Nothing
          /\ gstBroken' = FALSE /\ gstFlag' = "feed" /\ gstQueue' = 0
          /\ gstLocked' \in BOOLEAN
      BY <2>3, Zenon DEF Gst!InitIt
    <3>2. {gstValid', gstBroken', gstLocked'} \subseteq BOOLEAN
      BY <3>1, Zenon
    <3>3. gstQueue' \in 0 .. Cap
      BY <1>2, <3>1
    <3>4. gstBuilt' \in (Params \X Sizes) \cup {Gst!Nothing}
      BY <2>1, <3>1
    <3>5. ok => gstBuilt' # Gst!Nothing \/ gstConf = Gst!None
      BY <3>1 DEF Gst!Nothing
    <3>6. gstValid' => gstBuilt'[1] = gstConf' /\ gstBuilt' # Gst!Nothing
      BY <1>15, <2>1, <3>1, <3>5 DEF Gst!Encode
    <3>. QED BY <1>1, <1>4, <2>1, <2>3, <3>1, <3>2, <3>3, <3>4, <3>6
  <2>4. CASE /\ gstValid /\ gstBuilt[2] = z /\ gstEnc' = "lock"
             /\ UNCHANGED <<gstValid, gstBuilt, gstBroken, gstFlag, gstLocked, gstQueue>>
    <3>1. gstBuilt[1] = gstConf /\ gstBuilt # Gst!Nothing
      BY <2>4, Zenon DEF GstInv
    <3>2. gstBuilt = <<gstConf, z>>
      BY <1>1, <2>4, <3>1
    <3>. QED BY <1>1, <1>4, <2>1, <2>4, <3>1, <3>2
  <2>. QED BY <2>2, <2>3, <2>4
<1>. QED
  BY <1>5, <1>6, <1>7, <1>8, <1>9, <1>10, <1>11, <1>12, <1>13, <1>14, <1>15, Zenon
     DEF Gst!Next

\* It is enough.
LEMMA GstHolds == GstInv => Gst!TypeOK /\ Gst!EncodesAsSet
BY DEF GstInv, Gst!EncodesAsSet

\* The same for pipelines that fail or are slow: they stay what they were built for.
GstErrInv ==
    /\ GstErr!TypeOK
    /\ gstErrValid => gstErrBuilt[1] = gstErrConf /\ gstErrBuilt # GstErr!Nothing
    /\ gstErrEnc \in {"lock", "wait", "push"} => gstErrBuilt = <<gstErrConf, gstErrFrame>>

\* The initial state satisfies it.
LEMMA GstErrInit == GstErr!Init => GstErrInv
<1> SUFFICES ASSUME GstErr!Init PROVE GstErrInv
  OBVIOUS
<1>1. {gstErrValid, gstErrBroken, gstErrLocked} \subseteq BOOLEAN /\ ~gstErrValid
  BY Zenon DEF GstErr!Init
<1>2. /\ gstErrKind \in Kinds /\ gstErrConf = GstErr!None /\ gstErrAsked = GstErr!None /\
         gstErrFrame = GstErr!None
      /\ gstErrBuilt = GstErr!Nothing /\ gstErrFlag = "feed" /\ gstErrQueue \in 0 .. Cap /\
            gstErrEnc = "idle"
  BY PartsAssumption DEF GstErr!Init, GstErr!GstEncoderAssumption
<1>3. GstErr!TypeOK
  BY <1>1, <1>2, Zenon DEF GstErr!TypeOK, GstErr!Nothing
<1>. QED BY <1>1, <1>2, <1>3 DEF GstErrInv

\* Every step keeps it: the parameters change between two frames only.
LEMMA GstErrNext == GstErrInv /\ [GstErr!Next]_gstErrVars => GstErrInv'
<1> SUFFICES ASSUME GstErrInv, [GstErr!Next]_gstErrVars PROVE GstErrInv'
  OBVIOUS
<1>1. /\ gstErrKind \in Kinds /\ gstErrConf \in Params \cup {GstErr!None}
      /\ gstErrAsked \in Params \cup {GstErr!None}
      /\ {gstErrValid, gstErrBroken, gstErrLocked} \subseteq BOOLEAN
      /\ gstErrBuilt \in (Params \X Sizes) \cup {GstErr!Nothing}
      /\ gstErrFlag \in {"feed", "full", "gone"} /\ gstErrQueue \in 0 .. Cap
      /\ gstErrEnc \in {"idle", "lock", "wait", "push", "stuck"}
      /\ gstErrFrame \in Sizes \cup {GstErr!None}
  BY Zenon DEF GstErrInv, GstErr!TypeOK, GstErr!Nothing
<1>2. Cap \in Nat \ {0}
  BY PartsAssumption DEF GstErr!GstEncoderAssumption
\* a step that keeps the encoder and its pipeline
<1>3. ASSUME UNCHANGED <<gstErrKind, gstErrConf, gstErrAsked, gstErrBuilt, gstErrFrame>>,
             gstErrValid' \in BOOLEAN, gstErrValid' => gstErrValid, {gstErrBroken',
                   gstErrLocked'} \subseteq BOOLEAN,
             gstErrFlag' \in {"feed", "full", "gone"}, gstErrQueue' \in 0 .. Cap,
             gstErrEnc' \in {"idle", "lock", "wait", "push", "stuck"},
             gstErrEnc' \in {"lock", "wait", "push"} => gstErrEnc \in {"lock", "wait", "push"}
      PROVE  GstErrInv'
  <2>1. GstErr!TypeOK'
    BY <1>1, <1>3, Zenon DEF GstErr!TypeOK, GstErr!Nothing
  <2>. QED BY <1>3, <2>1, Zenon DEF GstErrInv
\* one that is taken between two frames
<1>4. ASSUME gstErrKind' = gstErrKind, gstErrConf' \in Params \cup {GstErr!None},
             gstErrAsked' \in Params \cup {GstErr!None}, gstErrFrame' \in Sizes \cup {GstErr!None},
             {gstErrValid', gstErrBroken', gstErrLocked'} \subseteq BOOLEAN,
             gstErrBuilt' \in (Params \X Sizes) \cup {GstErr!Nothing},
             gstErrFlag' \in {"feed", "full", "gone"}, gstErrQueue' \in 0 .. Cap,
             gstErrValid' => gstErrBuilt'[1] = gstErrConf' /\ gstErrBuilt' # GstErr!Nothing,
             gstErrEnc' = "idle" \/ (gstErrEnc' = "lock" /\ gstErrBuilt' = <<gstErrConf',
                   gstErrFrame'>>)
      PROVE  GstErrInv'
  <2>1. gstErrEnc' \in {"idle", "lock", "wait", "push", "stuck"}
    BY <1>4
  <2>2. GstErr!TypeOK'
    BY <1>1, <1>4, <2>1, Zenon DEF GstErr!TypeOK, GstErr!Nothing
  <2>3. gstErrEnc' \in {"lock", "wait", "push"} => gstErrBuilt' = <<gstErrConf', gstErrFrame'>>
    BY <1>4
  <2>. QED BY <1>4, <2>2, <2>3, Zenon DEF GstErrInv
<1>5. CASE UNCHANGED gstErrVars
  BY <1>1, <1>3, <1>5, Zenon DEF gstErrVars
<1>6. CASE GstErr!Lock
  <2>1. gstErrEnc = "lock" /\ gstErrEnc' \in {"idle", "wait", "push", "stuck"}
    <3>1. gstErrEnc' = IF gstErrLocked THEN "stuck"
                    ELSE CASE gstErrFlag = "full" -> "wait" [] gstErrFlag = "gone" -> "idle"
                           [] OTHER -> "push"
      BY <1>6, Zenon DEF GstErr!Lock
    <3>2. gstErrEnc = "lock"
      BY <1>6, Zenon DEF GstErr!Lock
    <3>. QED BY <1>1, <3>1, <3>2
  <2>2. UNCHANGED <<gstErrKind, gstErrConf, gstErrAsked, gstErrValid, gstErrBuilt, gstErrBroken,
           gstErrFlag, gstErrLocked,
                    gstErrQueue, gstErrFrame>>
    BY <1>6, Zenon DEF GstErr!Lock, GstErr!pipe
  <2>. QED BY <1>1, <1>3, <2>1, <2>2
<1>7. CASE GstErr!Woken
  <2>1. gstErrEnc = "wait" /\ gstErrEnc' \in {"idle", "push"}
    BY <1>7, Zenon DEF GstErr!Woken
  <2>2. UNCHANGED <<gstErrKind, gstErrConf, gstErrAsked, gstErrValid, gstErrBuilt, gstErrBroken,
           gstErrFlag, gstErrLocked,
                    gstErrQueue, gstErrFrame>>
    BY <1>7, Zenon DEF GstErr!Woken, GstErr!pipe
  <2>. QED BY <1>1, <1>3, <2>1, <2>2
<1>8. CASE GstErr!WaitOver
  <2>1. gstErrEnc' = "idle" /\ gstErrLocked' \in BOOLEAN
    BY <1>8, Zenon DEF GstErr!WaitOver
  <2>2. UNCHANGED <<gstErrKind, gstErrConf, gstErrAsked, gstErrValid, gstErrBuilt, gstErrBroken,
           gstErrFlag, gstErrQueue,
                    gstErrFrame>>
    BY <1>8, Zenon DEF GstErr!WaitOver
  <2>. QED BY <1>1, <1>3, <2>1, <2>2
<1>9. CASE GstErr!Push
  <2>1. UNCHANGED <<gstErrKind, gstErrConf, gstErrAsked, gstErrValid, gstErrBuilt, gstErrBroken,
           gstErrLocked, gstErrFrame>>
        /\ gstErrEnc = "push" /\ gstErrEnc' \in {"idle", "push"}
    BY <1>9, Zenon DEF GstErr!Push
  <2>2. gstErrFlag' \in {gstErrFlag, "full"}
        /\ (gstErrQueue' = gstErrQueue \/ (gstErrQueue # Cap /\ gstErrQueue' = gstErrQueue + 1))
    BY <1>9, Zenon DEF GstErr!Push
  <2>3. gstErrFlag' \in {"feed", "full", "gone"} /\ gstErrQueue' \in 0 .. Cap
    BY <1>1, <1>2, <2>2
  <2>. QED BY <1>1, <1>3, <2>1, <2>3
<1>10. CASE GstErr!NewSample
  <2>1. gstErrQueue' \in 0 .. Cap
    BY <1>1, <1>2, <1>10 DEF GstErr!NewSample
  <2>2. UNCHANGED <<gstErrKind, gstErrConf, gstErrAsked, gstErrValid, gstErrBuilt, gstErrBroken,
           gstErrFlag, gstErrLocked,
                    gstErrEnc, gstErrFrame>>
    BY <1>10, Zenon DEF GstErr!NewSample
  <2>. QED BY <1>1, <1>3, <2>1, <2>2
<1>11. CASE GstErr!NeedData
  <2>1. gstErrFlag' = "feed"
    BY <1>11, Zenon DEF GstErr!NeedData
  <2>2. UNCHANGED <<gstErrKind, gstErrConf, gstErrAsked, gstErrValid, gstErrBuilt, gstErrBroken,
           gstErrLocked, gstErrQueue,
                    gstErrEnc, gstErrFrame>>
    BY <1>11, Zenon DEF GstErr!NeedData
  <2>. QED BY <1>1, <1>3, <2>1, <2>2
<1>12. CASE GstErr!BusError
  <2>1. gstErrBroken' \in BOOLEAN /\ gstErrValid' \in BOOLEAN /\ (gstErrValid' => gstErrValid)
    BY <1>12, Zenon DEF GstErr!BusError
  <2>2. UNCHANGED <<gstErrKind, gstErrConf, gstErrAsked, gstErrBuilt, gstErrFlag, gstErrLocked,
           gstErrQueue, gstErrEnc,
                    gstErrFrame>>
    BY <1>12, Zenon DEF GstErr!BusError
  <2>. QED BY <1>1, <1>3, <2>1, <2>2
<1>13. CASE GstErr!Destroy
  <2>1. /\ gstErrConf' = GstErr!None /\ gstErrAsked' = GstErr!None /\ gstErrFrame' = GstErr!None
        /\ gstErrValid' = FALSE /\ gstErrBuilt' = GstErr!Nothing /\ gstErrBroken' = FALSE
        /\ gstErrFlag' = "feed" /\ gstErrLocked' = FALSE /\ gstErrQueue' = 0 /\ gstErrEnc = "idle"
        /\ UNCHANGED <<gstErrKind, gstErrEnc>>
    BY <1>13, Zenon DEF GstErr!Destroy
  <2>2. {gstErrValid', gstErrBroken', gstErrLocked'} \subseteq BOOLEAN
    BY <2>1, Zenon
  <2>3. gstErrQueue' \in 0 .. Cap
    BY <1>2, <2>1
  <2>. QED BY <1>4, <2>1, <2>2, <2>3
<1>14. ASSUME NEW x \in Params, GstErr!EncoderSet(x) PROVE GstErrInv'
  <2>1. gstErrEnc = "idle" /\ gstErrAsked' = x /\ UNCHANGED <<gstErrKind, gstErrEnc, gstErrFrame>>
    BY <1>14 DEF GstErr!EncoderSet
  <2>2. \/ UNCHANGED <<gstErrConf, gstErrValid, gstErrBuilt, gstErrBroken, gstErrFlag,
           gstErrLocked, gstErrQueue>>
        \/ gstErrConf' = x /\ GstErr!CloseIt
        \/ /\ gstErrConf' = x /\ (gstErrValid => x = gstErrConf)
           /\ UNCHANGED <<gstErrValid, gstErrBuilt, gstErrBroken, gstErrFlag, gstErrLocked,
                 gstErrQueue>>
    BY <1>14, Zenon DEF GstErr!EncoderSet, GstErr!pipe
  <2>3. CASE UNCHANGED <<gstErrConf, gstErrValid, gstErrBuilt, gstErrBroken, gstErrFlag,
           gstErrLocked, gstErrQueue>>
    BY <1>1, <1>4, <2>1, <2>3 DEF GstErrInv
  <2>4. CASE gstErrConf' = x /\ GstErr!CloseIt
    <3>1. /\ gstErrValid' = FALSE /\ gstErrBuilt' = GstErr!Nothing /\ gstErrBroken' = FALSE /\
             gstErrQueue' = 0
          /\ gstErrFlag' \in {gstErrFlag, "gone"} /\ UNCHANGED gstErrLocked
      BY <2>4, Zenon DEF GstErr!CloseIt
    <3>2. {gstErrValid', gstErrBroken', gstErrLocked'} \subseteq BOOLEAN
      BY <1>1, <3>1, Zenon
    <3>3. gstErrQueue' \in 0 .. Cap /\ gstErrFlag' \in {"feed", "full", "gone"}
      BY <1>1, <1>2, <3>1
    <3>. QED BY <1>1, <1>4, <2>1, <2>4, <3>1, <3>2, <3>3
  <2>5. CASE /\ gstErrConf' = x /\ (gstErrValid => x = gstErrConf)
             /\ UNCHANGED <<gstErrValid, gstErrBuilt, gstErrBroken, gstErrFlag, gstErrLocked,
                   gstErrQueue>>
    BY <1>1, <1>4, <2>1, <2>5 DEF GstErrInv
  <2>. QED BY <2>2, <2>3, <2>4, <2>5
<1>15. ASSUME NEW z \in Sizes, NEW ok \in BOOLEAN, GstErr!Encode(z, ok) PROVE GstErrInv'
  <2>1. /\ gstErrEnc = "idle" /\ gstErrConf \in Params /\ gstErrFrame' = z
        /\ UNCHANGED <<gstErrKind, gstErrConf, gstErrAsked>>
    BY <1>1, <1>15 DEF GstErr!Encode
  <2>2. \/ GstErr!InitIt(z, ok) /\ gstErrEnc' = IF ok THEN "lock" ELSE "idle"
        \/ /\ gstErrValid /\ gstErrBuilt[2] = z /\ gstErrEnc' = "lock"
           /\ UNCHANGED <<gstErrValid, gstErrBuilt, gstErrBroken, gstErrFlag, gstErrLocked,
                 gstErrQueue>>
    BY <1>15, Zenon DEF GstErr!Encode, GstErr!pipe
  <2>3. CASE GstErr!InitIt(z, ok) /\ gstErrEnc' = IF ok THEN "lock" ELSE "idle"
    <3>1. /\ gstErrValid' = ok /\ gstErrBuilt' = IF ok THEN <<gstErrConf, z>> ELSE GstErr!Nothing
          /\ gstErrBroken' = FALSE /\ gstErrFlag' = "feed" /\ gstErrQueue' = 0
          /\ gstErrLocked' \in BOOLEAN
      BY <2>3, Zenon DEF GstErr!InitIt
    <3>2. {gstErrValid', gstErrBroken', gstErrLocked'} \subseteq BOOLEAN
      BY <3>1, Zenon
    <3>3. gstErrQueue' \in 0 .. Cap
      BY <1>2, <3>1
    <3>4. gstErrBuilt' \in (Params \X Sizes) \cup {GstErr!Nothing}
      BY <2>1, <3>1
    <3>5. ok => gstErrBuilt' # GstErr!Nothing \/ gstErrConf = GstErr!None
      BY <3>1 DEF GstErr!Nothing
    <3>6. gstErrValid' => gstErrBuilt'[1] = gstErrConf' /\ gstErrBuilt' # GstErr!Nothing
      BY <1>15, <2>1, <3>1, <3>5 DEF GstErr!Encode
    <3>. QED BY <1>1, <1>4, <2>1, <2>3, <3>1, <3>2, <3>3, <3>4, <3>6
  <2>4. CASE /\ gstErrValid /\ gstErrBuilt[2] = z /\ gstErrEnc' = "lock"
             /\ UNCHANGED <<gstErrValid, gstErrBuilt, gstErrBroken, gstErrFlag, gstErrLocked,
                   gstErrQueue>>
    <3>1. gstErrBuilt[1] = gstErrConf /\ gstErrBuilt # GstErr!Nothing
      BY <2>4, Zenon DEF GstErrInv
    <3>2. gstErrBuilt = <<gstErrConf, z>>
      BY <1>1, <2>4, <3>1
    <3>. QED BY <1>1, <1>4, <2>1, <2>4, <3>1, <3>2
  <2>. QED BY <2>2, <2>3, <2>4
<1>. QED
  BY <1>5, <1>6, <1>7, <1>8, <1>9, <1>10, <1>11, <1>12, <1>13, <1>14, <1>15, Zenon
     DEF GstErr!Next

\* It is enough.
LEMMA GstErrHolds == GstErrInv => GstErr!TypeOK /\ GstErr!EncodesAsSet
BY DEF GstErrInv, GstErr!EncodesAsSet

-----------------------------------------------------------------------------
(* VideoPackets: what a frame is cut into.                                 *)

\* Numbers have a least one.
LEMMA LeastNumber ==
    ASSUME NEW T \in SUBSET Nat, T # {} PROVE \E x \in T : \A y \in T : x <= y
<1> DEFINE R == OpToRel(<, Nat)
<1>1. \A x, y \in Nat : <<x, y>> \in R <=> x < y
  BY DEF OpToRel
<1>2. IsWellFoundedOn(R, Nat)
  BY NatLessThanWellFounded
<1> HIDE DEF R
<1>3. PICK x \in T : \A y \in T : ~ (<<y, x>> \in R)
  BY <1>2, WFMin, Zenon
<1>4. \A y \in T : ~ (y < x)
  BY <1>1, <1>3
<1>. QED BY <1>4

\* Induction up to a number.
LEMMA StepByStep ==
    ASSUME NEW n \in Nat, NEW T, 0 \in T, \A i \in 0 .. n : i > 0 /\ i - 1 \in T => i \in T
    PROVE  0 .. n \subseteq T
<1> SUFFICES ASSUME NEW z \in 0 .. n, z \notin T PROVE FALSE
  OBVIOUS
<1>1. PICK x \in (0 .. n) \ T : \A y \in (0 .. n) \ T : x <= y
  <2> DEFINE U == (0 .. n) \ T
  <2>1. U \in SUBSET Nat /\ U # {}
    OBVIOUS
  <2> HIDE DEF U
  <2>2. \E x \in U : \A y \in U : x <= y
    BY <2>1, LeastNumber
  <2>. QED BY <2>2 DEF U
<1>2. x > 0 /\ x - 1 \in 0 .. n
  BY <1>1
<1>. QED BY <1>1, <1>2

\* FlattenSeq of S, of n sequences, step by step.
Flattens(S, n, f) ==
    /\ f[1] = S[1]
    /\ \A i \in 2 .. n : f[i] = f[i - 1] \o S[i]
    /\ Enc!FlattenSeq(S) = f[n]

\* FlattenSeq of n sequences takes one after the other.
LEMMA FlattenSteps ==
    ASSUME NEW T, NEW n \in Nat, n > 0, NEW S \in [1 .. n -> Seq(T)]
    PROVE  \E f \in [1 .. n -> Seq(T)] : Flattens(S, n, f)
<1> DEFINE Upto(k, f) == \A i \in 1 .. k : f[i] = IF i = 1 THEN S[i] ELSE f[i - 1] \o S[i]
           U == {k \in 0 .. n : \E f \in [1 .. k -> Seq(T)] : Upto(k, f)}
<1>1. 0 \in U
  <2>1. [i \in 1 .. 0 |-> <<>>] \in [1 .. 0 -> Seq(T)]
    OBVIOUS
  <2>2. \A f : Upto(0, f)
    OBVIOUS
  <2> DEFINE e == [i \in 1 .. 0 |-> <<>>]
  <2>3. e \in [1 .. 0 -> Seq(T)] /\ Upto(0, e) /\ 0 \in 0 .. n
    BY <2>1, <2>2
  <2> HIDE DEF Upto, e
  <2>. QED BY <2>3
<1>2. ASSUME NEW k \in 0 .. n, k > 0, k - 1 \in U PROVE k \in U
  <2>1. PICK f \in [1 .. k - 1 -> Seq(T)] : Upto(k - 1, f)
    BY <1>2
  <2> DEFINE g == [i \in 1 .. k |-> IF i = k THEN (IF k = 1 THEN S[1] ELSE f[k - 1] \o S[k])
                                            ELSE f[i]]
  <2>2. g \in [1 .. k -> Seq(T)]
    <3>1. S[k] \in Seq(T) /\ S[1] \in Seq(T)
      BY <1>2
    <3>2. k # 1 => f[k - 1] \in Seq(T)
      BY <1>2
    <3>3. k # 1 => f[k - 1] \o S[k] \in Seq(T)
      BY <3>1, <3>2
    <3>. QED BY <3>1, <3>3
  <2>3. ASSUME NEW i \in 1 .. k PROVE g[i] = IF i = 1 THEN S[i] ELSE g[i - 1] \o S[i]
    <3>1. CASE i = k
      <4>1. k # 1 => g[k - 1] = f[k - 1]
        BY <1>2
      <4>. QED BY <3>1, <4>1
    <3>2. CASE i # k
      <4>1. i \in 1 .. k - 1 /\ g[i] = f[i] /\ (i # 1 => g[i - 1] = f[i - 1])
        BY <3>2, <1>2
      <4>. QED BY <2>1, <4>1
    <3>. QED BY <3>1, <3>2
  <2> HIDE DEF g
  <2>. QED BY <2>2, <2>3
<1>3. PICK f \in [1 .. n -> Seq(T)] : Upto(n, f)
  <2> HIDE DEF U
  <2>1. 0 .. n \subseteq U
    BY <1>1, <1>2, StepByStep
  <2>2. n \in U
    BY <2>1
  <2>. QED BY <2>2 DEF U
<1> DEFINE F[i \in 1 .. Len(S)] == IF i = 1 THEN S[i] ELSE F[i - 1] \o S[i]
<1>4. Len(S) = n
  OBVIOUS
<1>5. Enc!FlattenSeq(S) = F[Len(S)]
  BY <1>4 DEF Enc!FlattenSeq
<1>6. f = [i \in 1 .. Len(S) |-> IF i = 1 THEN S[i] ELSE f[i - 1] \o S[i]]
  BY <1>3, <1>4
<1>7. F = [i \in 1 .. Len(S) |-> IF i = 1 THEN S[i] ELSE F[i - 1] \o S[i]]
  BY <1>6, Zenon
<1> HIDE DEF F
<1>8. \A i \in 1 .. n : F[i] = IF i = 1 THEN S[i] ELSE F[i - 1] \o S[i]
  BY <1>4, <1>7, Zenon
<1> DEFINE V == {k \in 0 .. n : k > 0 => F[k] = f[k]}
<1>9. ASSUME NEW k \in 0 .. n, k > 0, k - 1 \in V PROVE k \in V
  <2>1. F[k] = IF k = 1 THEN S[k] ELSE F[k - 1] \o S[k]
    BY <1>8, <1>9
  <2>2. f[k] = IF k = 1 THEN S[k] ELSE f[k - 1] \o S[k]
    <3>1. k \in 1 .. n
      BY <1>9
    <3>. QED BY <1>3, <3>1, Zenon
  <2>3. k # 1 => F[k - 1] = f[k - 1]
    BY <1>9
  <2>. QED BY <2>1, <2>2, <2>3
<1>10. n \in V
  <2>1. 0 \in V
    OBVIOUS
  <2> HIDE DEF V
  <2>2. 0 .. n \subseteq V
    BY <2>1, <1>9, StepByStep
  <2>. QED BY <2>2
<1>11. f[1] = S[1] /\ \A i \in 2 .. n : f[i] = f[i - 1] \o S[i]
  <2>1. 1 \in 1 .. n /\ \A i \in 2 .. n : i \in 1 .. n /\ i # 1
    OBVIOUS
  <2>. QED BY <1>3, <2>1, Zenon
<1>12. Enc!FlattenSeq(S) = f[n]
  BY <1>4, <1>5, <1>10
<1>. QED BY <1>11, <1>12, Zenon DEF Flattens

\* Where q, the first k of the sequences S one after the other, has each of its elements: the
\* i-th is the v[i]-th of S[u[i]].
Laid(q, S, k, u, v) ==
    /\ u \in [1 .. Len(q) -> 1 .. k] /\ v \in [1 .. Len(q) -> Nat]
    /\ \A i \in 1 .. Len(q) : v[i] \in 1 .. Len(S[u[i]]) /\ q[i] = S[u[i]][v[i]]
    /\ Len(q) > 0 /\ u[1] = 1 /\ v[1] = 1 /\ u[Len(q)] = k /\ v[Len(q)] = Len(S[k])
    /\ \A i \in 1 .. Len(q) - 1 :
          \/ u[i + 1] = u[i] /\ v[i + 1] = v[i] + 1
          \/ v[i] = Len(S[u[i]]) /\ u[i + 1] = u[i] + 1 /\ v[i + 1] = 1
    /\ \A i \in 1 .. Len(q) :
          /\ u[i] = k /\ v[i] = Len(S[k]) => i = Len(q)
          /\ u[i] = 1 /\ v[i] = 1 => i = 1

\* One sequence more.
LEMMA LaidMore ==
    ASSUME NEW T, NEW n \in Nat, NEW S \in [1 .. n -> Seq(T)], NEW k \in 1 .. n - 1,
           S[k + 1] # <<>>, NEW q \in Seq(T), NEW u, NEW v, Laid(q, S, k, u, v)
    PROVE  \E x, y : Laid(q \o S[k + 1], S, k + 1, x, y)
<1> DEFINE l == Len(q)
           m == Len(S[k + 1])
           r == q \o S[k + 1]
           x == [i \in 1 .. l + m |-> IF i <= l THEN u[i] ELSE k + 1]
           y == [i \in 1 .. l + m |-> IF i <= l THEN v[i] ELSE i - l]
<1>1. l \in Nat /\ m \in Nat /\ m > 0 /\ r \in Seq(T) /\ Len(r) = l + m
  <2>1. S[k + 1] \in Seq(T)
    OBVIOUS
  <2>. QED BY <2>1
<1>2. /\ \A i \in 1 .. l : r[i] = q[i]
      /\ \A i \in l + 1 .. l + m : r[i] = S[k + 1][i - l]
  <2>1. S[k + 1] \in Seq(T)
    OBVIOUS
  <2>. QED BY <2>1
<1>3. /\ u \in [1 .. l -> 1 .. k] /\ v \in [1 .. l -> Nat]
      /\ \A i \in 1 .. l : v[i] \in 1 .. Len(S[u[i]]) /\ q[i] = S[u[i]][v[i]]
      /\ l > 0 /\ u[1] = 1 /\ v[1] = 1 /\ u[l] = k /\ v[l] = Len(S[k])
      /\ \A i \in 1 .. l - 1 :
            \/ u[i + 1] = u[i] /\ v[i + 1] = v[i] + 1
            \/ v[i] = Len(S[u[i]]) /\ u[i + 1] = u[i] + 1 /\ v[i + 1] = 1
      /\ \A i \in 1 .. l : u[i] = 1 /\ v[i] = 1 => i = 1
  BY DEF Laid
<1> HIDE DEF l, m, r
<1>4. /\ \A i \in 1 .. l : x[i] = u[i] /\ y[i] = v[i]
      /\ \A i \in l + 1 .. l + m : x[i] = k + 1 /\ y[i] = i - l
  BY <1>1
<1>5. x \in [1 .. l + m -> 1 .. k + 1] /\ y \in [1 .. l + m -> Nat]
  BY <1>1, <1>3
<1> HIDE DEF x, y
<1>6. ASSUME NEW i \in 1 .. l + m
      PROVE  /\ y[i] \in 1 .. Len(S[x[i]]) /\ r[i] = S[x[i]][y[i]]
             /\ x[i] = k + 1 /\ y[i] = m => i = l + m
             /\ x[i] = 1 /\ y[i] = 1 => i = 1
  <2>1. CASE i <= l
    <3>1. i \in 1 .. l
      BY <1>1, <2>1
    <3>2. u[i] \in 1 .. k
      BY <3>1, <1>3
    <3>. QED BY <3>1, <3>2, <1>2, <1>3, <1>4
  <2>2. CASE i > l
    <3>1. i \in l + 1 .. l + m
      BY <1>1, <2>2
    <3>2. x[i] = k + 1 /\ y[i] = i - l /\ r[i] = S[k + 1][i - l]
      BY <3>1, <1>2, <1>4
    <3>3. i - l \in 1 .. m /\ (i - l = m => i = l + m) /\ k + 1 # 1
      BY <3>1, <1>1
    <3>. QED BY <3>2, <3>3 DEF m
  <2>. QED BY <1>1, <2>1, <2>2
<1>7. ASSUME NEW i \in 1 .. l + m - 1
      PROVE  \/ x[i + 1] = x[i] /\ y[i + 1] = y[i] + 1
             \/ y[i] = Len(S[x[i]]) /\ x[i + 1] = x[i] + 1 /\ y[i + 1] = 1
  <2>1. CASE i < l
    <3>1. i \in 1 .. l - 1 /\ i \in 1 .. l /\ i + 1 \in 1 .. l
      BY <1>1, <2>1
    <3>. QED BY <3>1, <1>3, <1>4
  <2>2. CASE i = l
    <3>1. i \in 1 .. l /\ i + 1 \in l + 1 .. l + m
      BY <1>1, <1>3, <2>2
    <3>. QED BY <2>2, <3>1, <1>1, <1>3, <1>4
  <2>3. CASE i > l
    <3>1. i \in l + 1 .. l + m /\ i + 1 \in l + 1 .. l + m
      BY <1>1, <2>3
    <3>. QED BY <3>1, <1>1, <1>4
  <2>. QED BY <1>1, <2>1, <2>2, <2>3
<1>8. /\ x[1] = 1 /\ y[1] = 1 /\ x[l + m] = k + 1 /\ y[l + m] = m
  <2>1. 1 \in 1 .. l /\ l + m \in l + 1 .. l + m
    BY <1>1, <1>3
  <2>. QED BY <2>1, <1>1, <1>3, <1>4
<1>9. l + m = Len(r) /\ m = Len(S[k + 1]) /\ l + m > 0
  BY <1>1, <1>3 DEF m
<1>10. Laid(r, S, k + 1, x, y)
  <2>1. x \in [1 .. Len(r) -> 1 .. k + 1] /\ y \in [1 .. Len(r) -> Nat]
    BY <1>5, <1>9
  <2>2. \A i \in 1 .. Len(r) : y[i] \in 1 .. Len(S[x[i]]) /\ r[i] = S[x[i]][y[i]]
    BY <1>6, <1>9, Zenon
  <2>3. /\ Len(r) > 0 /\ x[1] = 1 /\ y[1] = 1 /\ x[Len(r)] = k + 1
        /\ y[Len(r)] = Len(S[k + 1])
    BY <1>8, <1>9
  <2>4. \A i \in 1 .. Len(r) - 1 :
          \/ x[i + 1] = x[i] /\ y[i + 1] = y[i] + 1
          \/ y[i] = Len(S[x[i]]) /\ x[i + 1] = x[i] + 1 /\ y[i + 1] = 1
    <3>1. SUFFICES ASSUME NEW i \in 1 .. Len(r) - 1
                   PROVE  \/ x[i + 1] = x[i] /\ y[i + 1] = y[i] + 1
                          \/ y[i] = Len(S[x[i]]) /\ x[i + 1] = x[i] + 1 /\ y[i + 1] = 1
      OBVIOUS
    <3>2. i \in 1 .. l + m - 1
      BY <1>1, <1>9
    <3>. QED BY <3>2, <1>7
  <2>5. \A i \in 1 .. Len(r) :
          /\ x[i] = k + 1 /\ y[i] = Len(S[k + 1]) => i = Len(r)
          /\ x[i] = 1 /\ y[i] = 1 => i = 1
    BY <1>6, <1>9, Zenon
  <2>. QED BY <2>1, <2>2, <2>3, <2>4, <2>5, Zenon DEF Laid
<1>. QED BY <1>10 DEF r

\* FlattenSeq has each element of each sequence once, in order.
LEMMA FlattenLaid ==
    ASSUME NEW T, NEW n \in Nat, n > 0, NEW S \in [1 .. n -> Seq(T)],
           \A k \in 1 .. n : S[k] # <<>>
    PROVE  Enc!FlattenSeq(S) \in Seq(T) /\ \E u, v : Laid(Enc!FlattenSeq(S), S, n, u, v)
<1>1. PICK f \in [1 .. n -> Seq(T)] :
              /\ f[1] = S[1]
              /\ \A i \in 2 .. n : f[i] = f[i - 1] \o S[i]
              /\ Enc!FlattenSeq(S) = f[n]
  <2>1. \E f \in [1 .. n -> Seq(T)] : Flattens(S, n, f)
    BY FlattenSteps
  <2>. QED BY <2>1, Zenon DEF Flattens
<1> DEFINE U == {k \in 0 .. n : k > 0 => \E u, v : Laid(f[k], S, k, u, v)}
<1>2. \E u, v : Laid(f[1], S, 1, u, v)
  <2> DEFINE l == Len(S[1])
             u == [i \in 1 .. l |-> 1]
             v == [i \in 1 .. l |-> i]
  <2>1. S[1] \in Seq(T) /\ S[1] # <<>>
    OBVIOUS
  <2>2. l \in Nat /\ l > 0
    BY <2>1
  <2> HIDE DEF l
  <2>3. Laid(S[1], S, 1, u, v)
    BY <2>2 DEF Laid, l
  <2> HIDE DEF u, v
  <2>. QED BY <1>1, <2>3
<1>3. ASSUME NEW k \in 0 .. n, k > 0, k - 1 \in U PROVE k \in U
  <2>1. CASE k = 1
    BY <1>2, <2>1
  <2>2. CASE k > 1
    <3>1. k - 1 \in 1 .. n - 1 /\ k - 1 > 0 /\ k \in 1 .. n /\ k \in 2 .. n /\ k - 1 + 1 = k
      BY <2>2
    <3>2. PICK u, v : Laid(f[k - 1], S, k - 1, u, v)
      BY <1>3, <3>1
    <3>3. f[k - 1] \in Seq(T) /\ S[k] # <<>>
      BY <3>1
    <3>4. \E x, y : Laid(f[k - 1] \o S[k - 1 + 1], S, k - 1 + 1, x, y)
      BY <3>1, <3>2, <3>3, LaidMore
    <3>. QED BY <1>1, <3>1, <3>4
  <2>. QED BY <1>3, <2>1, <2>2
<1>4. n \in U
  <2>1. 0 \in U
    OBVIOUS
  <2> HIDE DEF U
  <2>2. 0 .. n \subseteq U
    BY <2>1, <1>3, StepByStep
  <2>. QED BY <2>2
<1>. QED BY <1>1, <1>4

-----------------------------------------------------------------------------
(* FoldLeft, for sums. *)

\* The integers W[1], W[2], ... added up, by the sets of the indices.
AddedUp(W, n, F) ==
    F = [s \in SUBSET (1 .. n) |->
            IF s = {} THEN 0 ELSE F[s \ {Enc!Max(s)}] + W[Enc!Max(s)]]

\* There is such a function.
LEMMA AddsUp == ASSUME NEW n \in Nat, NEW W PROVE \E F : AddedUp(W, n, F)
<1> DEFINE U == {k \in 0 .. n : \E F : AddedUp(W, k, F)}
<1>1. 0 \in U
  <2> DEFINE F == [s \in SUBSET (1 .. 0) |-> 0]
  <2>1. SUBSET (1 .. 0) = {{}}
    OBVIOUS
  <2>2. AddedUp(W, 0, F)
    BY <2>1 DEF AddedUp
  <2> HIDE DEF F
  <2>. QED BY <2>2
<1>2. ASSUME NEW k \in 0 .. n, k > 0, k - 1 \in U PROVE k \in U
  <2>1. PICK F : AddedUp(W, k - 1, F)
    BY <1>2
  <2> DEFINE G == [s \in SUBSET (1 .. k) |-> IF k \in s THEN F[s \ {k}] + W[k] ELSE F[s]]
  <2>2. ASSUME NEW s \in SUBSET (1 .. k)
        PROVE  G[s] = IF s = {} THEN 0 ELSE G[s \ {Enc!Max(s)}] + W[Enc!Max(s)]
    <3>1. CASE k \in s
      <4>1. Enc!Max(s) = k
        <5>1. \A x \in s : k >= x
          BY <1>2
        <5>2. \A x \in s : (\A y \in s : x >= y) => x = k
          BY <3>1, <1>2
        <5>. QED BY <3>1, <5>1, <5>2, Zenon DEF Enc!Max
      <4>2. s \ {k} \in SUBSET (1 .. k) /\ k \notin s \ {k} /\ s # {}
        BY <3>1
      <4>3. G[s] = F[s \ {k}] + W[k] /\ G[s \ {k}] = F[s \ {k}]
        BY <3>1, <4>2, Zenon
      <4>. QED BY <4>1, <4>2, <4>3
    <3>2. CASE k \notin s
      <4>1. s \in SUBSET (1 .. k - 1)
        BY <3>2, <1>2
      <4> DEFINE r == s \ {Enc!Max(s)}
      <4>2. r \in SUBSET (1 .. k - 1) /\ r \in SUBSET (1 .. k) /\ k \notin r
        BY <4>1, <3>2
      <4>3. G[s] = F[s] /\ G[r] = F[r]
        BY <3>2, <4>2, Zenon
      <4>4. F[s] = IF s = {} THEN 0 ELSE F[r] + W[Enc!Max(s)]
        BY <2>1, <4>1, Zenon DEF AddedUp
      <4>. QED BY <4>3, <4>4
    <3>. QED BY <3>1, <3>2
  <2>3. AddedUp(W, k, G)
    <3>1. G = [s \in SUBSET (1 .. k) |->
                 IF s = {} THEN 0 ELSE G[s \ {Enc!Max(s)}] + W[Enc!Max(s)]]
      <4> DEFINE H == [s \in SUBSET (1 .. k) |->
                         IF s = {} THEN 0 ELSE G[s \ {Enc!Max(s)}] + W[Enc!Max(s)]]
      <4>1. \A s \in SUBSET (1 .. k) : G[s] = H[s]
        BY <2>2, Zenon
      <4>. QED BY <4>1, Zenon
    <3>. QED BY <3>1, Zenon DEF AddedUp
  <2> HIDE DEF G
  <2>. QED BY <2>3
<1>3. n \in U
  <2> HIDE DEF U
  <2>1. 0 .. n \subseteq U
    BY <1>1, <1>2, StepByStep
  <2>. QED BY <2>1
<1>. QED BY <1>3

\* g adds up the first n of W to t.
Adds(W, n, g, t) ==
    /\ g[0] = 0 /\ \A i \in 1 .. n : g[i] = g[i - 1] + W[i]
    /\ g[n] = t

\* What it gives for the first k of them.
LEMMA AddedSteps ==
    ASSUME NEW n \in Nat, NEW W, \A i \in 1 .. n : W[i] \in Int, NEW F, AddedUp(W, n, F)
    PROVE  \E g \in [0 .. n -> Int] : Adds(W, n, g, F[1 .. n])
<1> DEFINE U == {k \in 0 .. n : F[1 .. k] \in Int}
           g == [k \in 0 .. n |-> F[1 .. k]]
<1>1. F[1 .. 0] = 0
  <2>1. 1 .. 0 = {} /\ {} \in SUBSET (1 .. n)
    OBVIOUS
  <2>. QED BY <2>1, Zenon DEF AddedUp
<1>2. ASSUME NEW k \in 1 .. n PROVE F[1 .. k] = F[1 .. k - 1] + W[k]
  <2>1. Enc!Max(1 .. k) = k
    <3>1. k \in 1 .. k /\ \A x \in 1 .. k : k >= x
      OBVIOUS
    <3>2. \A x \in 1 .. k : (\A y \in 1 .. k : x >= y) => x = k
      OBVIOUS
    <3>. QED BY <3>1, <3>2, Zenon DEF Enc!Max
  <2>2. 1 \in 1 .. k /\ 1 .. k \in SUBSET (1 .. n)
    OBVIOUS
  <2>3. (1 .. k) \ {k} = 1 .. k - 1
    OBVIOUS
  <2>4. 1 .. k # {}
    BY <2>2, Zenon
  <2>. QED BY <2>1, <2>2, <2>3, <2>4, Zenon DEF AddedUp
<1>3. 0 .. n \subseteq U
  <2>1. 0 \in U
    BY <1>1
  <2>2. ASSUME NEW k \in 0 .. n, k > 0, k - 1 \in U PROVE k \in U
    <3>1. k \in 1 .. n
      BY <2>2
    <3>. QED BY <3>1, <2>2, <1>2
  <2> HIDE DEF U
  <2>. QED BY <2>1, <2>2, StepByStep
<1>4. g \in [0 .. n -> Int] /\ g[0] = 0 /\ g[n] = F[1 .. n]
  BY <1>1, <1>3
<1>5. \A i \in 1 .. n : g[i] = g[i - 1] + W[i]
  BY <1>2
<1> HIDE DEF g
<1>. QED BY <1>4, <1>5 DEF Adds

\* Sum, step by step.
LEMMA SumSteps ==
    ASSUME NEW lens \in Seq(Int)
    PROVE  \E g \in [0 .. Len(lens) -> Int] : Adds(lens, Len(lens), g, Enc!Sum(lens))
<1> DEFINE n == Len(lens)
<1>1. n \in Nat /\ DOMAIN lens = 1 .. n /\ \A i \in 1 .. n : lens[i] \in Int
  OBVIOUS
<1> HIDE DEF n
<1>2. PICK F : AddedUp(lens, n, F)
  BY <1>1, AddsUp
<1> DEFINE I[s \in SUBSET DOMAIN lens] ==
             IF s = {} THEN 0 ELSE I[s \ {Enc!Max(s)}] + lens[Enc!Max(s)]
<1>3. Enc!Sum(lens) = I[DOMAIN lens]
  BY DEF Enc!Sum, Enc!FoldLeft, Enc!MapThenFoldSet
<1>4. F = [s \in SUBSET DOMAIN lens |->
             IF s = {} THEN 0 ELSE F[s \ {Enc!Max(s)}] + lens[Enc!Max(s)]]
  BY <1>1, <1>2, Zenon DEF AddedUp
<1>5. I = [s \in SUBSET DOMAIN lens |->
             IF s = {} THEN 0 ELSE I[s \ {Enc!Max(s)}] + lens[Enc!Max(s)]]
  BY <1>4, Zenon
<1> HIDE DEF I
<1>6. AddedUp(lens, n, I)
  BY <1>1, <1>5, Zenon DEF AddedUp
<1>7. \E g \in [0 .. n -> Int] : Adds(lens, n, g, I[1 .. n])
  BY <1>1, <1>6, AddedSteps
<1>. QED BY <1>1, <1>3, <1>7 DEF n

\* The bytes of one piece.
BytesIn(p) == p.to - p.from + 1

\* Bytes, step by step.
LEMMA BytesSteps ==
    ASSUME NEW T, NEW mb \in Seq(T), \A p \in T : p.to \in Nat /\ p.from \in Nat
    PROVE  \E g \in [0 .. Len(mb) -> Int] :
              Adds([i \in 1 .. Len(mb) |-> BytesIn(mb[i])], Len(mb), g, Dec!Bytes(mb))
<1> DEFINE n == Len(mb)
           M == {Enc!Max(s) : s \in SUBSET (1 .. n)} \cup 1 .. n
           W == [x \in M |-> BytesIn(mb[x])]
<1>1. n \in Nat /\ DOMAIN mb = 1 .. n /\ \A i \in 1 .. n : mb[i] \in T
  OBVIOUS
<1> HIDE DEF n
<1>2. /\ \A i \in 1 .. n : W[i] = BytesIn(mb[i]) /\ W[i] \in Int
      /\ \A s \in SUBSET (1 .. n) : W[Enc!Max(s)] = BytesIn(mb[Enc!Max(s)])
  <2>1. 1 .. n \subseteq M /\ \A s \in SUBSET (1 .. n) : Enc!Max(s) \in M
    OBVIOUS
  <2> HIDE DEF M
  <2>2. \A x \in M : W[x] = BytesIn(mb[x])
    BY Zenon
  <2>3. \A i \in 1 .. n : BytesIn(mb[i]) \in Int
    BY <1>1 DEF BytesIn
  <2> HIDE DEF W
  <2>. QED BY <2>1, <2>2, <2>3
<1> HIDE DEF W
<1>3. PICK F : AddedUp(W, n, F)
  BY <1>1, AddsUp
<1> DEFINE I[s \in SUBSET DOMAIN mb] ==
             IF s = {} THEN 0
             ELSE I[s \ {Dec!Max(s)}] + (mb[Dec!Max(s)].to - mb[Dec!Max(s)].from + 1)
<1>4. Dec!Bytes(mb) = I[DOMAIN mb]
  BY DEF Dec!Bytes, Dec!FoldLeft, Dec!MapThenFoldSet
<1>5. \A s : Dec!Max(s) = Enc!Max(s)
  BY DEF Dec!Max, Enc!Max
<1>6. F = [s \in SUBSET DOMAIN mb |->
             IF s = {} THEN 0
             ELSE F[s \ {Dec!Max(s)}] + (mb[Dec!Max(s)].to - mb[Dec!Max(s)].from + 1)]
  BY <1>1, <1>2, <1>3, <1>5, Zenon DEF AddedUp, BytesIn
<1>7. I = [s \in SUBSET DOMAIN mb |->
             IF s = {} THEN 0
             ELSE I[s \ {Dec!Max(s)}] + (mb[Dec!Max(s)].to - mb[Dec!Max(s)].from + 1)]
  BY <1>6, Zenon
<1> HIDE DEF I
<1>8. AddedUp(W, n, I)
  BY <1>1, <1>2, <1>5, <1>7, Zenon DEF AddedUp, BytesIn
<1>9. PICK g \in [0 .. n -> Int] : Adds(W, n, g, I[1 .. n])
  BY <1>1, <1>2, <1>8, AddedSteps
<1>10. Adds([i \in 1 .. n |-> BytesIn(mb[i])], n, g, Dec!Bytes(mb))
  BY <1>1, <1>2, <1>4, <1>9 DEF Adds
<1>. QED BY <1>10 DEF n

-----------------------------------------------------------------------------
(* The packets of one unit, and of a frame. *)

Fragment == [from : Nat, to : Nat, hdr : Nat, whole : BOOLEAN, s : BOOLEAN, e : BOOLEAN]

\* The pieces c of a unit of len bytes.
Pieces(c, len) ==
    /\ c \in Seq(Fragment) /\ Len(c) > 0
    /\ c[1].from = 1 /\ c[Len(c)].to = len
    /\ \A i \in 1 .. Len(c) - 1 : c[i + 1].from = c[i].to + 1
    /\ \A i \in 1 .. Len(c) :
          /\ c[i].from <= c[i].to
          /\ c[i].s <=> i = 1
          /\ c[i].e <=> i = Len(c)
          /\ c[i].whole => Len(c) = 1

\* No packet of q is larger than top.
NoLarger(q, top) == \A i \in 1 .. Len(q) : Enc!SizeOf(q[i]) <= top

\* The number of pieces of at most max bytes: enough, and none is empty.
LEMMA Rounded ==
    ASSUME NEW len \in Nat, len > 0, NEW max \in Nat, max > 0
    PROVE  LET n == (len + max - 1) \div max
           IN  n \in Nat /\ n > 0 /\ (n - 1) * max < len /\ len <= (n - 1) * max + max
<1> DEFINE a == len + max - 1
           n == a \div max
           m == a % max
           t == n * max
<1>1. a \in Nat /\ n \in Int /\ m \in 0 .. max - 1 /\ a = max * n + m
  OBVIOUS
<1>2. t \in Int /\ a = t + m /\ (n - 1) * max = t - max
  BY <1>1
<1>3. t >= len /\ t - max < len
  BY <1>1, <1>2
<1>4. n > 0
  <2>1. n <= 0 => n * max <= 0
    BY <1>1
  <2>. QED BY <2>1, <1>1, <1>2, <1>3
<1>. QED BY <1>1, <1>2, <1>3, <1>4

\* Cut cuts a unit into pieces that follow each other, of at most max bytes each.
LEMMA CutPieces ==
    ASSUME NEW len \in Nat, len > 0, NEW max \in Nat, max > 0, NEW hdr \in Nat
    PROVE  Pieces(Enc!Cut(len, max, hdr), len) /\ NoLarger(Enc!Cut(len, max, hdr), hdr + max)
<1> DEFINE n == (len + max - 1) \div max
           c == Enc!Cut(len, max, hdr)
<1>1. n \in Nat /\ n > 0 /\ (n - 1) * max < len /\ len <= (n - 1) * max + max
  BY Rounded
<1>2. c = [i \in 1 .. n |->
            [from |-> (i - 1) * max + 1, to |-> IF i = n THEN len ELSE i * max,
             hdr |-> hdr, whole |-> FALSE, s |-> i = 1, e |-> i = n]]
  BY DEF Enc!Cut
<1> HIDE DEF n, c
<1> DEFINE b == [i \in 0 .. n |-> i * max]
<1>3. \A i \in 0 .. n : b[i] \in Nat
  OBVIOUS
<1>4. \A i \in 1 .. n : b[i] = b[i - 1] + max
  BY <1>1
<1>5. b[0] = 0 /\ b[n - 1] < len /\ len <= b[n - 1] + max
  BY <1>1
<1>6. \A i \in 1 .. n : b[i - 1] = (i - 1) * max /\ b[i] = i * max
  BY <1>1
<1> HIDE DEF b
<1>7. c \in Seq(Fragment) /\ Len(c) = n
  <2>1. ASSUME NEW i \in 1 .. n
        PROVE  [from |-> (i - 1) * max + 1, to |-> IF i = n THEN len ELSE i * max,
                hdr |-> hdr, whole |-> FALSE, s |-> i = 1, e |-> i = n] \in Fragment
    <3>1. (i - 1) * max + 1 \in Nat /\ i * max \in Nat
      BY <1>1, <1>3, <1>6
    <3>. QED BY <3>1 DEF Fragment
  <2>2. c \in [1 .. n -> Fragment]
    BY <1>2, <2>1
  <2>. QED BY <1>1, <2>2
<1>8. ASSUME NEW i \in 1 .. n
      PROVE  /\ c[i].from = b[i - 1] + 1 /\ c[i].to = IF i = n THEN len ELSE b[i]
             /\ c[i].hdr = hdr /\ c[i].whole = FALSE
             /\ c[i].s <=> i = 1
             /\ c[i].e <=> i = n
  BY <1>2, <1>6
<1>9. ASSUME NEW i \in 1 .. n
      PROVE  c[i].from <= c[i].to /\ Enc!SizeOf(c[i]) <= hdr + max
  <2>1. b[i] = b[i - 1] + max /\ b[i - 1] \in Nat
    BY <1>1, <1>3, <1>4
  <2>2. c[i].from = b[i - 1] + 1 /\ c[i].to = (IF i = n THEN len ELSE b[i]) /\ c[i].hdr = hdr
    BY <1>8, Zenon
  <2>. QED BY <2>1, <2>2, <1>1, <1>5 DEF Enc!SizeOf
<1>10. \A i \in 1 .. n - 1 : c[i + 1].from = c[i].to + 1
  <2> SUFFICES ASSUME NEW i \in 1 .. n - 1 PROVE c[i + 1].from = c[i].to + 1
    OBVIOUS
  <2>1. i \in 1 .. n /\ i + 1 \in 1 .. n /\ i # n /\ i + 1 - 1 = i
    BY <1>1
  <2>2. c[i + 1].from = b[i + 1 - 1] + 1
    <3> DEFINE j == i + 1
    <3>1. j \in 1 .. n
      BY <2>1
    <3> HIDE DEF j
    <3>2. c[j].from = b[j - 1] + 1
      BY <3>1, <1>8, Zenon
    <3>. QED BY <3>2 DEF j
  <2>3. c[i].to = IF i = n THEN len ELSE b[i]
    BY <2>1, <1>8, Zenon
  <2>. QED BY <2>1, <2>2, <2>3
<1>11. 1 \in 1 .. n /\ n \in 1 .. n
  BY <1>1
<1>12. c[1].from = 1 /\ c[n].to = len
  <2>1. c[1].from = b[1 - 1] + 1 /\ c[n].to = len
    BY <1>8, <1>11, Zenon
  <2>. QED BY <2>1, <1>5
<1>13. Pieces(c, len)
  BY <1>1, <1>7, <1>8, <1>9, <1>10, <1>12 DEF Pieces
<1>14. NoLarger(c, hdr + max)
  BY <1>7, <1>9 DEF NoLarger
<1>. QED BY <1>13, <1>14 DEF c

\* A unit that is sent whole.
LEMMA SinglePieces ==
    ASSUME NEW len \in Nat, len > 0, NEW hdr \in Nat
    PROVE  Pieces(Enc!Single(len, hdr), len) /\ NoLarger(Enc!Single(len, hdr), hdr + len)
<1> DEFINE f == [from |-> 1, to |-> len, hdr |-> hdr, whole |-> TRUE, s |-> TRUE, e |-> TRUE]
<1>1. f \in Fragment
  BY DEF Fragment
<1>2. /\ f.from = 1 /\ f.to = len /\ f.hdr = hdr /\ f.s /\ f.e
  OBVIOUS
<1>3. Enc!Single(len, hdr) = <<f>>
  BY DEF Enc!Single
<1> HIDE DEF f
<1>4. <<f>> \in Seq(Fragment) /\ Len(<<f>>) = 1 /\ <<f>>[1] = f
  BY <1>1
<1>. QED BY <1>2, <1>3, <1>4 DEF Pieces, NoLarger, Enc!SizeOf

\* The packets q of a frame whose units have the lengths lens: each byte of each unit once and
\* in order, the first and the last packet of each unit marked as such.
CutFrame(q, lens) ==
    /\ q \in Seq(Enc!Packet) /\ Len(q) > 0
    /\ q[1].unit = 1 /\ q[1].from = 1 /\ q[1].s
    /\ q[Len(q)].unit = Len(lens) /\ q[Len(q)].to = lens[Len(lens)] /\ q[Len(q)].e
    /\ \A i \in 1 .. Len(q) - 1 :
          IF q[i].e
          THEN /\ q[i].to = lens[q[i].unit]
               /\ q[i + 1].unit = q[i].unit + 1 /\ q[i + 1].from = 1 /\ q[i + 1].s
          ELSE q[i + 1].unit = q[i].unit /\ q[i + 1].from = q[i].to + 1 /\ ~q[i + 1].s
    /\ \A i \in 1 .. Len(q) :
          /\ q[i].from <= q[i].to /\ q[i].unit \in 1 .. Len(lens)
          /\ q[i].whole => q[i].s /\ q[i].e
          /\ q[i].unit = 1 /\ q[i].s => i = 1

\* The marker is on the last packet and no other.
MarkedEnd(q) == \A i \in 1 .. Len(q) : q[i].mark <=> i = Len(q)

\* A unit that fits one packet is not cut.
NotAlone(q) == \A i \in 1 .. Len(q) : q[i].s /\ q[i].e => q[i].whole

\* The fields of a packet.
LEMMA PacketFields ==
    ASSUME NEW a1, NEW a2, NEW a3, NEW a4, NEW a5, NEW a6, NEW a7, NEW a8
    PROVE  LET r == [unit |-> a1, from |-> a2, to |-> a3, hdr |-> a4, whole |-> a5,
                     s |-> a6, e |-> a7, mark |-> a8]
           IN  /\ r.unit = a1 /\ r.from = a2 /\ r.to = a3 /\ r.hdr = a4 /\ r.whole = a5
               /\ r.s = a6 /\ r.e = a7 /\ r.mark = a8
OBVIOUS

\* FrameOf puts the pieces of the units one after the other.
LEMMA FrameIsCut ==
    ASSUME NEW lens \in Seq(Nat), lens # <<>>, NEW units,
           DOMAIN units = 1 .. Len(lens), units = [k \in 1 .. Len(lens) |-> units[k]],
           \A k \in 1 .. Len(lens) : Pieces(units[k], lens[k])
    PROVE  /\ CutFrame(Enc!FrameOf(units), lens) /\ MarkedEnd(Enc!FrameOf(units))
           /\ \A top : (\A k \in 1 .. Len(lens) : NoLarger(units[k], top))
                          => NoLarger(Enc!FrameOf(units), top)
           /\ (\A k \in 1 .. Len(lens) : NotAlone(units[k])) => NotAlone(Enc!FrameOf(units))
<1> DEFINE n == Len(lens)
           P(k, i) == [unit |-> k, from |-> units[k][i].from, to |-> units[k][i].to,
                       hdr |-> units[k][i].hdr, whole |-> units[k][i].whole,
                       s |-> units[k][i].s, e |-> units[k][i].e,
                       mark |-> k = n /\ i = Len(units[k])]
           S == [k \in 1 .. n |-> [i \in 1 .. Len(units[k]) |-> P(k, i)]]
           q == Enc!FrameOf(units)
<1>1. n \in Nat /\ n > 0
  OBVIOUS
<1>2. Len(units) = n
  BY <1>1
<1>3. ASSUME NEW k \in 1 .. n
      PROVE  units[k] \in Seq(Fragment) /\ Len(units[k]) \in Nat /\ Len(units[k]) > 0
             /\ DOMAIN units[k] = 1 .. Len(units[k])
  BY DEF Pieces
<1>4. q = Enc!FlattenSeq(S)
  <2>1. S = [k \in DOMAIN units |-> [i \in DOMAIN units[k] |->
              [unit |-> k, from |-> units[k][i].from, to |-> units[k][i].to,
               hdr |-> units[k][i].hdr, whole |-> units[k][i].whole,
               s |-> units[k][i].s, e |-> units[k][i].e,
               mark |-> k = Len(units) /\ i = Len(units[k])]]]
    BY <1>2, <1>3, Zenon
  <2>. QED BY <2>1, Zenon DEF Enc!FrameOf
<1> HIDE DEF q, n
<1>5. ASSUME NEW k \in 1 .. n, NEW i \in 1 .. Len(units[k]) PROVE P(k, i) \in Enc!Packet
  <2>1. units[k][i] \in Fragment
    <3>1. units[k] \in Seq(Fragment)
      BY <1>3
    <3>. QED BY <3>1
  <2>2. units[k][i] \in [from : Nat, to : Nat, hdr : Nat, whole : BOOLEAN, s : BOOLEAN,
                         e : BOOLEAN]
    BY <2>1 DEF Fragment
  <2>3. k \in Nat /\ (k = n /\ i = Len(units[k])) \in BOOLEAN
    BY <1>1
  <2>. QED BY <2>2, <2>3 DEF Enc!Packet
<1>6. S \in [1 .. n -> Seq(Enc!Packet)] /\ \A k \in 1 .. n : S[k] # <<>> /\
                                                Len(S[k]) = Len(units[k])
  <2>1. ASSUME NEW k \in 1 .. n
        PROVE  /\ [i \in 1 .. Len(units[k]) |-> P(k, i)] \in Seq(Enc!Packet)
               /\ Len([i \in 1 .. Len(units[k]) |-> P(k, i)]) = Len(units[k])
               /\ [i \in 1 .. Len(units[k]) |-> P(k, i)] # <<>>
    <3> DEFINE c == [i \in 1 .. Len(units[k]) |-> P(k, i)]
               l == Len(units[k])
    <3>1. c \in [1 .. l -> Enc!Packet]
      BY <1>5
    <3>2. l \in Nat /\ l > 0
      BY <1>3
    <3> HIDE DEF c, l
    <3>3. c \in Seq(Enc!Packet) /\ Len(c) = l /\ c # <<>>
      BY <3>1, <3>2
    <3>. QED BY <3>3 DEF c, l
  <2> HIDE DEF P
  <2>. QED BY <2>1
<1>7. \A k \in 1 .. n : \A i \in 1 .. Len(units[k]) : S[k][i] = P(k, i)
  BY Zenon
<1> HIDE DEF S
<1>8. q \in Seq(Enc!Packet) /\ \E u, v : Laid(q, S, n, u, v)
  BY <1>1, <1>4, <1>6, FlattenLaid
<1>9. PICK u, v : Laid(q, S, n, u, v)
  BY <1>8
<1>10. ASSUME NEW i \in 1 .. Len(q)
       PROVE  /\ u[i] \in 1 .. n /\ v[i] \in 1 .. Len(units[u[i]])
              /\ q[i] = P(u[i], v[i])
  <2>1. u[i] \in 1 .. n /\ v[i] \in 1 .. Len(S[u[i]]) /\ q[i] = S[u[i]][v[i]]
    BY <1>9 DEF Laid
  <2>. QED BY <2>1, <1>6, <1>7
<1> DEFINE at1(i) == units[u[i]][v[i]]
<1>11. ASSUME NEW i \in 1 .. Len(q)
       PROVE  /\ q[i].unit = u[i] /\ q[i].from = at1(i).from /\ q[i].to = at1(i).to
              /\ q[i].hdr = at1(i).hdr /\ q[i].s = at1(i).s /\ q[i].e = at1(i).e
              /\ q[i].whole = at1(i).whole /\ q[i].mark = (u[i] = n /\ v[i] = Len(units[u[i]]))
  <2> DEFINE k == u[i]
             j == v[i]
  <2>1. /\ P(k, j).unit = k /\ P(k, j).from = units[k][j].from
        /\ P(k, j).to = units[k][j].to /\ P(k, j).hdr = units[k][j].hdr
        /\ P(k, j).whole = units[k][j].whole /\ P(k, j).s = units[k][j].s
        /\ P(k, j).e = units[k][j].e /\ P(k, j).mark = (k = n /\ j = Len(units[k]))
    BY PacketFields
  <2> HIDE DEF P
  <2>. QED BY <1>10, <2>1, Zenon
<1>12. ASSUME NEW i \in 1 .. Len(q)
       PROVE  /\ q[i].from <= q[i].to
              /\ q[i].s <=> v[i] = 1
              /\ q[i].e <=> v[i] = Len(units[u[i]])
              /\ q[i].whole => Len(units[u[i]]) = 1
              /\ v[i] = 1 => q[i].from = 1
              /\ v[i] = Len(units[u[i]]) => q[i].to = lens[u[i]]
  <2>1. u[i] \in 1 .. n /\ v[i] \in 1 .. Len(units[u[i]])
    BY <1>10
  <2> DEFINE c == units[u[i]]
             l == lens[u[i]]
  <2>2. Pieces(c, l)
    BY <2>1 DEF n
  <2>3. /\ c[1].from = 1 /\ c[Len(c)].to = l
        /\ \A j \in 1 .. Len(c) :
              /\ c[j].from <= c[j].to
              /\ c[j].s <=> j = 1
              /\ c[j].e <=> j = Len(c)
              /\ c[j].whole => Len(c) = 1
    BY <2>2, Zenon DEF Pieces
  <2> HIDE DEF c, l
  <2>4. v[i] \in 1 .. Len(c)
    BY <2>1 DEF c
  <2>5. /\ at1(i).from <= at1(i).to
        /\ at1(i).s <=> v[i] = 1
        /\ at1(i).e <=> v[i] = Len(c)
        /\ at1(i).whole => Len(c) = 1
        /\ v[i] = 1 => at1(i).from = 1
        /\ v[i] = Len(c) => at1(i).to = l
    BY <2>3, <2>4, Zenon DEF c
  <2> HIDE DEF at1
  <2>. QED BY <2>5, <1>11, Zenon DEF c, l
<1>13. /\ Len(q) > 0 /\ u[1] = 1 /\ v[1] = 1 /\ u[Len(q)] = n /\ v[Len(q)] = Len(units[n])
       /\ \A i \in 1 .. Len(q) - 1 :
             \/ u[i + 1] = u[i] /\ v[i + 1] = v[i] + 1
             \/ v[i] = Len(units[u[i]]) /\ u[i + 1] = u[i] + 1 /\ v[i + 1] = 1
       /\ \A i \in 1 .. Len(q) :
             /\ u[i] = n /\ v[i] = Len(units[n]) => i = Len(q)
             /\ u[i] = 1 /\ v[i] = 1 => i = 1
  <2>1. \A i \in 1 .. Len(q) - 1 : u[i] \in 1 .. n
    <3>1. \A i \in 1 .. Len(q) - 1 : i \in 1 .. Len(q)
      BY <1>8
    <3>. QED BY <3>1, <1>10
  <2>2. n \in 1 .. n
    BY <1>1
  <2>. QED BY <2>1, <2>2, <1>6, <1>9, Zenon DEF Laid
<1>14. 1 \in 1 .. Len(q) /\ Len(q) \in 1 .. Len(q) /\ Len(q) \in Nat
  BY <1>8, <1>13
<1>15. q[1].unit = 1 /\ q[1].from = 1 /\ q[1].s
  BY <1>11, <1>12, <1>13, <1>14, Zenon
<1>16. q[Len(q)].unit = n /\ q[Len(q)].to = lens[n] /\ q[Len(q)].e
  BY <1>11, <1>12, <1>13, <1>14, Zenon
<1>17. ASSUME NEW i \in 1 .. Len(q) - 1
       PROVE  IF q[i].e
              THEN /\ q[i].to = lens[q[i].unit]
                   /\ q[i + 1].unit = q[i].unit + 1 /\ q[i + 1].from = 1 /\ q[i + 1].s
              ELSE /\ q[i + 1].unit = q[i].unit
                   /\ q[i + 1].from = q[i].to + 1 /\ ~q[i + 1].s
  <2>1. i \in 1 .. Len(q) /\ i + 1 \in 1 .. Len(q)
    BY <1>14
  <2>2. /\ u[i] \in 1 .. n /\ v[i] \in 1 .. Len(units[u[i]])
        /\ v[i + 1] \in 1 .. Len(units[u[i + 1]])
    BY <2>1, <1>10
  <2>3. CASE u[i + 1] = u[i] /\ v[i + 1] = v[i] + 1
    <3>1. v[i] # Len(units[u[i]]) /\ v[i + 1] # 1 /\ v[i] \in 1 .. Len(units[u[i]]) - 1
      BY <2>2, <2>3, <1>3
    <3>2. ~q[i].e /\ ~q[i + 1].s /\ q[i + 1].unit = q[i].unit
      BY <2>1, <2>3, <3>1, <1>11, <1>12, Zenon
    <3>3. \A j \in 1 .. Len(units[u[i]]) - 1 :
             units[u[i]][j + 1].from = units[u[i]][j].to + 1
      BY <2>2 DEF Pieces, n
    <3>4. units[u[i]][v[i] + 1].from = units[u[i]][v[i]].to + 1
      BY <3>1, <3>3, Zenon
    <3>5. at1(i + 1).from = at1(i).to + 1
      BY <2>3, <3>4, Zenon
    <3> HIDE DEF at1
    <3>6. q[i + 1].from = q[i].to + 1
      BY <2>1, <3>5, <1>11, Zenon
    <3>. QED BY <3>2, <3>6, Zenon
  <2>4. CASE v[i] = Len(units[u[i]]) /\ u[i + 1] = u[i] + 1 /\ v[i + 1] = 1
    <3>1. q[i].e /\ q[i + 1].s /\ q[i].to = lens[u[i]] /\ q[i + 1].from = 1
      BY <2>1, <2>4, <1>12, Zenon
    <3>2. q[i].unit = u[i] /\ q[i + 1].unit = u[i + 1]
      BY <2>1, <1>11, Zenon
    <3>. QED BY <3>1, <3>2, <2>4, Zenon
  <2>. QED BY <2>3, <2>4, <1>13, Zenon
<1>18. ASSUME NEW i \in 1 .. Len(q)
       PROVE  /\ q[i].from <= q[i].to /\ q[i].unit \in 1 .. n
              /\ q[i].whole => q[i].s /\ q[i].e
              /\ q[i].unit = 1 /\ q[i].s => i = 1
              /\ q[i].mark <=> i = Len(q)
  <2>1. /\ u[i] \in 1 .. n /\ v[i] \in 1 .. Len(units[u[i]]) /\ q[i].unit = u[i]
        /\ q[i].mark = (u[i] = n /\ v[i] = Len(units[u[i]]))
    BY <1>10, <1>11, Zenon
  <2>2. q[i].whole => v[i] = 1 /\ v[i] = Len(units[u[i]])
    <3>1. SUFFICES ASSUME q[i].whole PROVE v[i] = 1 /\ v[i] = Len(units[u[i]])
      BY Zenon
    <3>2. Len(units[u[i]]) = 1 /\ v[i] \in 1 .. Len(units[u[i]])
      BY <2>1, <3>1, <1>12, Zenon
    <3> DEFINE l == Len(units[u[i]])
               w == v[i]
    <3> HIDE DEF l, w
    <3>3. l = 1 /\ w \in 1 .. l => w = 1 /\ w = l
      OBVIOUS
    <3>. QED BY <3>2, <3>3, Zenon DEF l, w
  <2>3. q[i].whole => q[i].s /\ q[i].e
    BY <2>2, <1>12, Zenon
  <2>4. q[i].unit = 1 /\ q[i].s => i = 1
    BY <2>1, <1>12, <1>13, Zenon
  <2>5. q[i].mark <=> i = Len(q)
    BY <2>1, <1>13, Zenon
  <2>. QED BY <2>1, <2>3, <2>4, <2>5, <1>12, Zenon
<1>19. CutFrame(q, lens)
  BY <1>8, <1>13, <1>15, <1>16, <1>17, <1>18, Zenon DEF CutFrame, n
<1>20. MarkedEnd(q)
  BY <1>18, Zenon DEF MarkedEnd
<1>21. ASSUME NEW top, \A k \in 1 .. n : NoLarger(units[k], top) PROVE NoLarger(q, top)
  <2> SUFFICES ASSUME NEW i \in 1 .. Len(q) PROVE Enc!SizeOf(q[i]) <= top
    BY DEF NoLarger
  <2>1. Enc!SizeOf(at1(i)) <= top
    BY <1>10, <1>21, Zenon DEF NoLarger
  <2>2. Enc!SizeOf(at1(i)) = Enc!SizeOf(q[i])
    BY <1>11, Zenon DEF Enc!SizeOf
  <2>. QED BY <2>1, <2>2
<1>22. ASSUME \A k \in 1 .. n : NotAlone(units[k]) PROVE NotAlone(q)
  <2> SUFFICES ASSUME NEW i \in 1 .. Len(q) PROVE q[i].s /\ q[i].e => q[i].whole
    BY Zenon DEF NotAlone
  <2>1. at1(i).s /\ at1(i).e => at1(i).whole
    BY <1>10, <1>22, Zenon DEF NotAlone
  <2> HIDE DEF at1
  <2>. QED BY <2>1, <1>11, Zenon
<1>. QED BY <1>19, <1>20, <1>21, <1>22, Zenon DEF q, n

\* The lengths of the units of a frame.
Lengths(lens) == lens \in Seq(Nat) /\ lens # <<>> /\ \A i \in 1 .. Len(lens) : lens[i] > 0

\* A frame of lengths has some bytes.
LEMMA SumPositive == ASSUME NEW lens, Lengths(lens) PROVE Enc!Sum(lens) \in Nat /\ Enc!Sum(lens) > 0
<1> DEFINE n == Len(lens)
<1>1. lens \in Seq(Int) /\ n \in Nat /\ n > 0 /\ \A i \in 1 .. n : lens[i] \in Nat /\ lens[i] > 0
  BY DEF Lengths
<1>2. PICK g \in [0 .. n -> Int] : Adds(lens, n, g, Enc!Sum(lens))
  BY <1>1, SumSteps
<1> HIDE DEF n
<1> DEFINE U == {k \in 0 .. n : g[k] \in Nat /\ (k > 0 => g[k] > 0)}
<1>3. 0 \in U
  BY <1>1, <1>2 DEF Adds
<1>4. ASSUME NEW k \in 0 .. n, k > 0, k - 1 \in U PROVE k \in U
  <2>1. g[k] = g[k - 1] + lens[k] /\ lens[k] \in Nat /\ lens[k] > 0 /\ g[k - 1] \in Nat
    <3>1. k \in 1 .. n /\ g[k - 1] \in Nat
      BY <1>1, <1>4
    <3>. QED BY <3>1, <1>1, <1>2 DEF Adds
  <2>. QED BY <2>1
<1>5. n \in U
  <2> HIDE DEF U
  <2>1. 0 .. n \subseteq U
    BY <1>1, <1>3, <1>4, StepByStep
  <2>. QED BY <1>1, <2>1
<1>6. g[n] = Enc!Sum(lens)
  BY <1>2 DEF Adds
<1>. QED BY <1>1, <1>5, <1>6

\* The constants.
LEMMA PacketSize == PktSize \in Nat /\ PktSize > 4
BY PartsAssumption DEF Enc!VideoEncodersAssumption

\* H.264.
LEMMA H264IsCut ==
    ASSUME NEW lens, Lengths(lens)
    PROVE  CutFrame(Enc!H264Frame(lens, PktSize), lens)
           /\ MarkedEnd(Enc!H264Frame(lens, PktSize)) /\ NotAlone(Enc!H264Frame(lens, PktSize))
<1> DEFINE units == [k \in 1 .. Len(lens) |-> Enc!H264Unit(lens[k], PktSize)]
<1>1. ASSUME NEW len \in Nat, len > 0
      PROVE  Pieces(Enc!H264Unit(len, PktSize), len) /\ NotAlone(Enc!H264Unit(len, PktSize))
  <2> DEFINE max == PktSize - 2
  <2>1. max \in Nat /\ max > 0 /\ max < PktSize
    BY PacketSize
  <2>2. CASE len <= PktSize
    <3>1. Pieces(Enc!Single(len, 1), len)
      BY <1>1, SinglePieces
    <3>2. NotAlone(Enc!Single(len, 1))
      BY DEF NotAlone, Enc!Single
    <3>3. Enc!H264Unit(len, PktSize) = Enc!Single(len, 1)
      BY <2>2, Zenon DEF Enc!H264Unit
    <3>. QED BY <3>1, <3>2, <3>3
  <2>3. CASE ~(len <= PktSize)
    <3> DEFINE c == Enc!Cut(len, max, 2)
    <3>1. Pieces(c, len) /\ NoLarger(c, 2 + max)
      BY <1>1, <2>1, CutPieces
    <3>2. Enc!H264Unit(len, PktSize) = c
      BY <2>3, Zenon DEF Enc!H264Unit
    <3>3. \A i \in DOMAIN c : c[i].hdr = 2
      <4> DEFINE n == (len + max - 1) \div max
                 g(i) == [from |-> (i - 1) * max + 1, to |-> IF i = n THEN len ELSE i * max,
                          hdr |-> 2, whole |-> FALSE, s |-> i = 1, e |-> i = n]
      <4>1. c = [i \in 1 .. n |-> g(i)]
        BY Zenon DEF Enc!Cut
      <4> HIDE DEF n, c, max
      <4>2. \A i : g(i).hdr = 2
        OBVIOUS
      <4> HIDE DEF g
      <4>. QED BY <4>1, <4>2, Zenon
    <3> HIDE DEF c
    <3>5. DOMAIN c = 1 .. Len(c)
      BY <3>1 DEF Pieces
    <3>4. ASSUME NEW i \in 1 .. Len(c), c[i].s, c[i].e PROVE FALSE
      <4>1. i = 1 /\ i = Len(c) /\ c[1].from = 1 /\ c[Len(c)].to = len
        BY <3>1, <3>4, Zenon DEF Pieces
      <4>2. c[i].hdr + c[i].to - c[i].from + 1 <= 2 + max
        BY <3>1, Zenon DEF NoLarger, Enc!SizeOf
      <4>3. 2 + len - 1 + 1 <= 2 + max
        BY <3>3, <3>5, <4>1, <4>2, Zenon
      <4>. QED BY <4>3, <2>1, <2>3, <1>1, PacketSize
    <3>. QED BY <3>1, <3>2, <3>4 DEF NotAlone
  <2>. QED BY <2>2, <2>3
<1>2. \A k \in 1 .. Len(lens) : Pieces(units[k], lens[k]) /\ NotAlone(units[k])
  <2>1. \A k \in 1 .. Len(lens) : lens[k] \in Nat /\ lens[k] > 0
    BY DEF Lengths
  <2>. QED BY <2>1, <1>1, Zenon
<1>3. Enc!H264Frame(lens, PktSize) = Enc!FrameOf(units)
  <2>1. DOMAIN lens = 1 .. Len(lens)
    BY DEF Lengths
  <2>. QED BY <2>1, Zenon DEF Enc!H264Frame
<1>4. DOMAIN units = 1 .. Len(lens) /\ units = [k \in 1 .. Len(lens) |-> units[k]]
  BY Zenon
<1> HIDE DEF units
<1>5. CutFrame(Enc!FrameOf(units), lens) /\ MarkedEnd(Enc!FrameOf(units))
      /\ NotAlone(Enc!FrameOf(units))
  BY <1>2, <1>4, FrameIsCut DEF Lengths
<1>. QED BY <1>3, <1>5

\* H.265: no packet is larger than PktSize.
LEMMA H265IsCut ==
    ASSUME NEW lens, Lengths(lens)
    PROVE  /\ CutFrame(Enc!H265Frame(lens, PktSize), lens)
           /\ MarkedEnd(Enc!H265Frame(lens, PktSize))
           /\ NoLarger(Enc!H265Frame(lens, PktSize), PktSize)
<1> DEFINE units == [k \in 1 .. Len(lens) |-> Enc!H265Unit(lens[k], PktSize)]
<1>1. ASSUME NEW len \in Nat, len > 0
      PROVE  Pieces(Enc!H265Unit(len, PktSize), len)
             /\ NoLarger(Enc!H265Unit(len, PktSize), PktSize)
  <2>1. PktSize - 3 \in Nat /\ PktSize - 3 > 0 /\ 3 + (PktSize - 3) = PktSize /\ 2 + len = len + 2
    BY PacketSize
  <2>2. CASE len + 2 <= PktSize
    <3>1. Enc!H265Unit(len, PktSize) = Enc!Single(len, 2)
      BY <2>2 DEF Enc!H265Unit
    <3>2. Pieces(Enc!Single(len, 2), len) /\ NoLarger(Enc!Single(len, 2), 2 + len)
      BY <1>1, SinglePieces
    <3> DEFINE c == Enc!Single(len, 2)
    <3>3. c \in Seq(Fragment)
      BY <3>2 DEF Pieces
    <3> HIDE DEF c
    <3>4. ASSUME NEW i \in 1 .. Len(c) PROVE Enc!SizeOf(c[i]) <= PktSize
      <4>1. c[i] \in Fragment
        BY <3>3
      <4>2. Enc!SizeOf(c[i]) \in Int
        BY <4>1 DEF Enc!SizeOf, Fragment
      <4>3. Enc!SizeOf(c[i]) <= 2 + len
        BY <3>2 DEF NoLarger, c
      <4>. QED BY <2>2, <4>2, <4>3, PacketSize
    <3>. QED BY <3>1, <3>2, <3>4 DEF NoLarger, c
  <2>3. CASE ~(len + 2 <= PktSize)
    <3>1. Enc!H265Unit(len, PktSize) = Enc!Cut(len, PktSize - 3, 3)
      BY <2>3, Zenon DEF Enc!H265Unit
    <3>. QED BY <1>1, <2>1, <3>1, CutPieces
  <2>. QED BY <2>2, <2>3
<1>2. \A k \in 1 .. Len(lens) : Pieces(units[k], lens[k]) /\ NoLarger(units[k], PktSize)
  <2>1. \A k \in 1 .. Len(lens) : lens[k] \in Nat /\ lens[k] > 0
    BY DEF Lengths
  <2>. QED BY <2>1, <1>1, Zenon
<1>3. Enc!H265Frame(lens, PktSize) = Enc!FrameOf(units)
  <2>1. DOMAIN lens = 1 .. Len(lens)
    BY DEF Lengths
  <2>. QED BY <2>1, Zenon DEF Enc!H265Frame
<1>4. DOMAIN units = 1 .. Len(lens) /\ units = [k \in 1 .. Len(lens) |-> units[k]]
  BY Zenon
<1> HIDE DEF units
<1>5. /\ CutFrame(Enc!FrameOf(units), lens) /\ MarkedEnd(Enc!FrameOf(units))
      /\ NoLarger(Enc!FrameOf(units), PktSize)
  BY <1>2, <1>4, FrameIsCut DEF Lengths
<1>. QED BY <1>3, <1>5

\* Frames whose units are cut in any case.
LEMMA CutsAreCut ==
    ASSUME NEW lens, Lengths(lens), NEW h \in Nat, PktSize - h \in Nat, PktSize - h > 0,
           NEW units, units = [k \in DOMAIN lens |-> Enc!Cut(lens[k], PktSize - h, h)]
    PROVE  /\ CutFrame(Enc!FrameOf(units), lens) /\ MarkedEnd(Enc!FrameOf(units))
           /\ NoLarger(Enc!FrameOf(units), PktSize)
<1>1. DOMAIN lens = 1 .. Len(lens) /\ \A k \in 1 .. Len(lens) : lens[k] \in Nat /\ lens[k] > 0
  BY DEF Lengths
<1>2. h + (PktSize - h) = PktSize
  BY PacketSize
<1>3. \A k \in 1 .. Len(lens) : Pieces(units[k], lens[k]) /\ NoLarger(units[k], PktSize)
  <2> SUFFICES ASSUME NEW k \in 1 .. Len(lens)
               PROVE  Pieces(units[k], lens[k]) /\ NoLarger(units[k], PktSize)
    OBVIOUS
  <2>1. units[k] = Enc!Cut(lens[k], PktSize - h, h)
    BY <1>1, Zenon
  <2>. QED BY <1>1, <1>2, <2>1, CutPieces
<1>4. DOMAIN units = 1 .. Len(lens) /\ units = [k \in 1 .. Len(lens) |-> units[k]]
  BY <1>1, Zenon
<1>. QED BY <1>3, <1>4, FrameIsCut DEF Lengths

\* VP8, VP9 and AV1.
LEMMA ImagesAreCut ==
    ASSUME NEW lens, Lengths(lens),
           NEW q \in {Enc!Vp8Frame(lens, PktSize), Enc!Vp9Frame(lens, PktSize),
                      Enc!Av1Frame(lens, PktSize)}
    PROVE  CutFrame(q, lens) /\ MarkedEnd(q) /\ NoLarger(q, PktSize)
<1>1. {PktSize - 4, PktSize - 3} \subseteq Nat /\ PktSize - 4 > 0 /\ PktSize - 3 > 0
  BY PacketSize
<1>2. 4 \in Nat /\ 3 \in Nat
  OBVIOUS
<1> DEFINE U(h) == [k \in DOMAIN lens |-> Enc!Cut(lens[k], PktSize - h, h)]
<1>3. q = Enc!FrameOf(U(4)) \/ q = Enc!FrameOf(U(3))
  BY Zenon DEF Enc!Vp8Frame, Enc!Vp9Frame, Enc!Av1Frame, Enc!Vp8Unit, Enc!Vp9Unit, Enc!Av1Unit
<1>4. /\ CutFrame(Enc!FrameOf(U(4)), lens) /\ MarkedEnd(Enc!FrameOf(U(4)))
      /\ NoLarger(Enc!FrameOf(U(4)), PktSize)
  <2> DEFINE units == U(4)
  <2>1. units = U(4)
    OBVIOUS
  <2> HIDE DEF units
  <2>. QED BY <1>1, <1>2, <2>1, CutsAreCut
<1>5. /\ CutFrame(Enc!FrameOf(U(3)), lens) /\ MarkedEnd(Enc!FrameOf(U(3)))
      /\ NoLarger(Enc!FrameOf(U(3)), PktSize)
  <2> DEFINE units == U(3)
  <2>1. units = U(3)
    OBVIOUS
  <2> HIDE DEF units
  <2>. QED BY <1>1, <1>2, <2>1, CutsAreCut
<1> HIDE DEF U
<1>. QED BY <1>3, <1>4, <1>5, Zenon

\* H.263 and MPEG-4: the frame is one unit, whatever happens to its marker.
LEMMA StreamIsCut ==
    ASSUME NEW lens, Lengths(lens), NEW h \in Nat
    PROVE  /\ CutFrame(Enc!Stream(lens, PktSize, h), <<Enc!Sum(lens)>>)
           /\ NoLarger(Enc!Stream(lens, PktSize, h), h + PktSize)
<1> DEFINE len == Enc!Sum(lens)
           one == <<len>>
           units == <<Enc!Cut(len, PktSize, h)>>
           cut == Enc!FrameOf(units)
           q == Enc!Stream(lens, PktSize, h)
<1>1. len \in Nat /\ len > 0
  BY SumPositive
<1>2. one \in Seq(Nat) /\ one # <<>> /\ Len(one) = 1 /\ one[1] = len
  BY <1>1
<1>3. Pieces(units[1], len) /\ NoLarger(units[1], h + PktSize)
  BY <1>1, PacketSize, CutPieces
<1>4. DOMAIN units = 1 .. 1 /\ units = [k \in 1 .. 1 |-> units[k]]
  OBVIOUS
<1>5. q = [i \in DOMAIN cut |-> [cut[i] EXCEPT !.mark = @ /\ len % PktSize # 0]]
  BY Zenon DEF Enc!Stream
<1> HIDE DEF len, one, units
<1>6. CutFrame(cut, one) /\ NoLarger(cut, h + PktSize)
  <2>1. DOMAIN units = 1 .. Len(one) /\ units = [k \in 1 .. Len(one) |-> units[k]]
    BY <1>2, <1>4
  <2>2. \A k \in 1 .. Len(one) : Pieces(units[k], one[k]) /\ NoLarger(units[k], h + PktSize)
    BY <1>2, <1>3
  <2>. QED BY <1>2, <2>1, <2>2, FrameIsCut
<1> HIDE DEF cut, q
<1>7. cut \in Seq(Enc!Packet) /\ DOMAIN cut = 1 .. Len(cut) /\ Len(cut) \in Nat
  BY <1>6 DEF CutFrame
<1>8. ASSUME NEW i \in 1 .. Len(cut)
      PROVE  /\ q[i] \in Enc!Packet
             /\ q[i].unit = cut[i].unit /\ q[i].from = cut[i].from /\ q[i].to = cut[i].to
             /\ q[i].hdr = cut[i].hdr /\ q[i].whole = cut[i].whole /\ q[i].s = cut[i].s
             /\ q[i].e = cut[i].e
  <2>1. cut[i] \in Enc!Packet
    BY <1>7
  <2> DEFINE b == cut[i].mark /\ len % PktSize # 0
  <2>2. q[i] = [cut[i] EXCEPT !.mark = b]
    BY <1>5, <1>7, Zenon
  <2>3. b \in BOOLEAN
    OBVIOUS
  <2> HIDE DEF b
  <2>. QED BY <2>1, <2>2, <2>3 DEF Enc!Packet
<1>9. q \in Seq(Enc!Packet) /\ Len(q) = Len(cut)
  <2>1. DOMAIN q = 1 .. Len(cut)
    BY <1>5, <1>7
  <2>2. q = [i \in 1 .. Len(cut) |-> q[i]]
    BY <1>5, <2>1
  <2>3. q \in [1 .. Len(cut) -> Enc!Packet]
    BY <1>8, <2>2
  <2>. QED BY <1>7, <2>3
<1>10. CutFrame(q, one)
  <2>1. 1 \in 1 .. Len(cut) /\ Len(cut) \in 1 .. Len(cut)
        /\ \A i \in 1 .. Len(cut) - 1 : i \in 1 .. Len(cut) /\ i + 1 \in 1 .. Len(cut)
    BY <1>6, <1>7 DEF CutFrame
  <2>2. q[1].unit = 1 /\ q[1].from = 1 /\ q[1].s
    BY <2>1, <1>6, <1>8, Zenon DEF CutFrame
  <2>3. q[Len(q)].unit = Len(one) /\ q[Len(q)].to = one[Len(one)] /\ q[Len(q)].e
    <3> DEFINE l == Len(cut)
    <3>1. l \in 1 .. l
      BY <2>1
    <3>2. cut[l].unit = Len(one) /\ cut[l].to = one[Len(one)] /\ cut[l].e
      BY <1>6, Zenon DEF CutFrame
    <3>3. q[l].unit = cut[l].unit /\ q[l].to = cut[l].to /\ q[l].e = cut[l].e
      BY <3>1, <1>8, Zenon
    <3> HIDE DEF l
    <3>4. Len(q) = l
      BY <1>9 DEF l
    <3>. QED BY <3>2, <3>3, <3>4, Zenon
  <2>4. \A i \in 1 .. Len(cut) - 1 :
          IF q[i].e
          THEN /\ q[i].to = one[q[i].unit]
               /\ q[i + 1].unit = q[i].unit + 1 /\ q[i + 1].from = 1 /\ q[i + 1].s
          ELSE q[i + 1].unit = q[i].unit /\ q[i + 1].from = q[i].to + 1 /\ ~q[i + 1].s
    <3> SUFFICES ASSUME NEW i \in 1 .. Len(cut) - 1
                 PROVE  IF q[i].e
                        THEN /\ q[i].to = one[q[i].unit]
                             /\ q[i + 1].unit = q[i].unit + 1 /\ q[i + 1].from = 1
                             /\ q[i + 1].s
                        ELSE q[i + 1].unit = q[i].unit /\ q[i + 1].from = q[i].to + 1
                             /\ ~q[i + 1].s
      BY Zenon
    <3> DEFINE j == i + 1
    <3>1. i \in 1 .. Len(cut) /\ j \in 1 .. Len(cut)
      BY <2>1
    <3>2. IF cut[i].e
          THEN /\ cut[i].to = one[cut[i].unit]
               /\ cut[j].unit = cut[i].unit + 1 /\ cut[j].from = 1 /\ cut[j].s
          ELSE cut[j].unit = cut[i].unit /\ cut[j].from = cut[i].to + 1 /\ ~cut[j].s
      BY <1>6, Zenon DEF CutFrame
    <3> HIDE DEF j
    <3>3. /\ q[i].unit = cut[i].unit /\ q[i].to = cut[i].to /\ q[i].e = cut[i].e
          /\ q[j].unit = cut[j].unit /\ q[j].from = cut[j].from /\ q[j].s = cut[j].s
      BY <3>1, <1>8, Zenon
    <3>4. IF q[i].e
          THEN /\ q[i].to = one[q[i].unit]
               /\ q[j].unit = q[i].unit + 1 /\ q[j].from = 1 /\ q[j].s
          ELSE q[j].unit = q[i].unit /\ q[j].from = q[i].to + 1 /\ ~q[j].s
      BY <3>2, <3>3, Zenon
    <3>. QED BY <3>4 DEF j
  <2>5. \A i \in 1 .. Len(cut) :
          /\ q[i].from <= q[i].to /\ q[i].unit \in 1 .. Len(one)
          /\ q[i].whole => q[i].s /\ q[i].e
          /\ q[i].unit = 1 /\ q[i].s => i = 1
    <3> SUFFICES ASSUME NEW i \in 1 .. Len(cut)
                 PROVE  /\ q[i].from <= q[i].to /\ q[i].unit \in 1 .. Len(one)
                        /\ q[i].whole => q[i].s /\ q[i].e
                        /\ q[i].unit = 1 /\ q[i].s => i = 1
      BY Zenon
    <3>1. /\ cut[i].from <= cut[i].to /\ cut[i].unit \in 1 .. Len(one)
          /\ cut[i].whole => cut[i].s /\ cut[i].e
          /\ cut[i].unit = 1 /\ cut[i].s => i = 1
      BY <1>6, Zenon DEF CutFrame
    <3>2. /\ q[i].unit = cut[i].unit /\ q[i].from = cut[i].from /\ q[i].to = cut[i].to
          /\ q[i].whole = cut[i].whole /\ q[i].s = cut[i].s /\ q[i].e = cut[i].e
      BY <1>8, Zenon
    <3>. QED BY <3>1, <3>2, Zenon
  <2>6. Len(q) > 0
    BY <1>6, <1>9 DEF CutFrame
  <2>. QED BY <1>9, <2>2, <2>3, <2>4, <2>5, <2>6, Zenon DEF CutFrame
<1>11. NoLarger(q, h + PktSize)
  BY <1>6, <1>8, <1>9, Zenon DEF NoLarger, Enc!SizeOf
<1>. QED BY <1>10, <1>11 DEF q, one, len

\* daala sends each unit as it is.
LEMMA DaalaIsCut ==
    ASSUME NEW lens, Lengths(lens) PROVE CutFrame(Enc!DaalaFrame(lens), lens)
<1> DEFINE n == Len(lens)
           q == Enc!DaalaFrame(lens)
<1>1. n \in Nat /\ n > 0 /\ DOMAIN lens = 1 .. n /\ \A i \in 1 .. n : lens[i] \in Nat /\ lens[i] > 0
  BY DEF Lengths
<1>2. q = [k \in 1 .. n |-> [unit |-> k, from |-> 1, to |-> lens[k], hdr |-> 0, whole |-> TRUE,
                            s |-> TRUE, e |-> TRUE, mark |-> FALSE]]
  BY <1>1, Zenon DEF Enc!DaalaFrame
<1> HIDE DEF n, q
<1>3. ASSUME NEW k \in 1 .. n
      PROVE  /\ q[k] \in Enc!Packet /\ q[k].unit = k /\ q[k].from = 1 /\ q[k].to = lens[k]
             /\ q[k].s /\ q[k].e
  <2>1. k \in Nat /\ lens[k] \in Nat
    BY <1>1
  <2>. QED BY <1>2, <2>1 DEF Enc!Packet
<1>4. q \in Seq(Enc!Packet) /\ Len(q) = n
  <2>1. q \in [1 .. n -> Enc!Packet]
    BY <1>2, <1>3
  <2>. QED BY <1>1, <2>1
<1>5. 1 \in 1 .. n /\ n \in 1 .. n /\ \A i \in 1 .. n - 1 : i \in 1 .. n /\ i + 1 \in 1 .. n
  BY <1>1
<1>6. q[1].unit = 1 /\ q[1].from = 1 /\ q[1].s /\ q[n].unit = n /\ q[n].to = lens[n] /\ q[n].e
  BY <1>3, <1>5, Zenon
<1>7. \A i \in 1 .. n - 1 :
          IF q[i].e
          THEN /\ q[i].to = lens[q[i].unit]
               /\ q[i + 1].unit = q[i].unit + 1 /\ q[i + 1].from = 1 /\ q[i + 1].s
          ELSE q[i + 1].unit = q[i].unit /\ q[i + 1].from = q[i].to + 1 /\ ~q[i + 1].s
  BY <1>3, <1>5, Zenon
<1>8. \A i \in 1 .. n :
          /\ q[i].from <= q[i].to /\ q[i].unit \in 1 .. n
          /\ q[i].whole => q[i].s /\ q[i].e
          /\ q[i].unit = 1 /\ q[i].s => i = 1
  <2> SUFFICES ASSUME NEW i \in 1 .. n
               PROVE  /\ q[i].from <= q[i].to /\ q[i].unit \in 1 .. n
                      /\ q[i].whole => q[i].s /\ q[i].e
                      /\ q[i].unit = 1 /\ q[i].s => i = 1
    BY Zenon
  <2>1. 1 <= lens[i]
    BY <1>1
  <2>. QED BY <1>3, <2>1, Zenon
<1>9. n = Len(lens)
  BY DEF n
<1>. QED BY <1>1, <1>4, <1>6, <1>7, <1>8, <1>9, Zenon DEF CutFrame, q

-----------------------------------------------------------------------------
(* VideoEncoders.                                                          *)

\* What is known of the packets q of a frame with units of these lengths.
Framed(q, lens) ==
    /\ CutFrame(q, lens)
    /\ encCodec \notin {"daala", "h263", "mpeg4"} => MarkedEnd(q)
    /\ encCodec \in {"h265", "vp8", "vp9", "av1", "mpeg4"} => NoLarger(q, PktSize)

\* Each codec makes such packets of a frame, or none.
LEMMA EncFramed ==
    ASSUME NEW f \in Enc!Frame, encCodec \in AllCodecs \cup {"x264", "v4l2"}
    PROVE  Enc!PacketsOf(f) = <<>> \/ Framed(Enc!PacketsOf(f), Enc!Units(f))
<1> DEFINE P == Enc!PacketsOf(f)
           U == Enc!Units(f)
           lens == f.units
           one == <<Enc!Sum(lens)>>
<1>1. Lengths(lens)
  <2>1. lens \in EncFrames
    BY DEF Enc!Frame
  <2>2. EncFrames \subseteq Seq(Nat) /\ lens # <<>> /\ \A i \in DOMAIN lens : lens[i] > 0
    BY <2>1, PartsAssumption, Zenon DEF Enc!VideoEncodersAssumption
  <2>3. lens \in Seq(Nat) /\ DOMAIN lens = 1 .. Len(lens)
    BY <2>1, <2>2
  <2>. QED BY <2>2, <2>3 DEF Lengths
<1>2. Lengths(one)
  <2>1. Enc!Sum(lens) \in Nat /\ Enc!Sum(lens) > 0
    BY <1>1, SumPositive
  <2>. QED BY <2>1 DEF Lengths
<1> HIDE DEF lens, one
<1>3. CASE encCodec \in {"jdk", "openh264", "wels", "v4l2", "avc264", "x264"}
  <2>1. P = <<>> \/ P = Enc!H264Frame(lens, PktSize)
    BY <1>3, Zenon DEF Enc!PacketsOf, Enc!JdkEncode, Enc!Openh264Encode, Enc!WelsEncode,
       Enc!V4l2Encode, Enc!Avc264Encode, Enc!X264Encode, lens
  <2>2. U = lens
    BY <1>3 DEF Enc!Units, lens
  <2>3. encCodec \notin {"h265", "vp8", "vp9", "av1", "mpeg4"}
    BY <1>3
  <2>. QED BY <1>1, <2>1, <2>2, <2>3, H264IsCut, Zenon DEF Framed
<1>4. CASE encCodec = "h265"
  <2>1. P = Enc!H265Frame(lens, PktSize)
    BY <1>4, Zenon DEF Enc!PacketsOf, Enc!H265Encode, lens
  <2>2. U = lens
    BY <1>4 DEF Enc!Units, lens
  <2>. QED BY <1>1, <2>1, <2>2, H265IsCut, Zenon DEF Framed
<1>5. CASE encCodec = "vp8"
  <2>1. P = Enc!Vp8Frame(lens, PktSize)
    BY <1>5, Zenon DEF Enc!PacketsOf, Enc!Vp8Encode, lens
  <2>2. U = lens
    BY <1>5 DEF Enc!Units, lens
  <2>. QED BY <1>1, <2>1, <2>2, ImagesAreCut, Zenon DEF Framed
<1>6. CASE encCodec \in {"vp9", "av1"}
  <2>1. P \in {Enc!Vp9Frame(one, PktSize), Enc!Av1Frame(one, PktSize)}
    BY <1>6, Zenon DEF Enc!PacketsOf, Enc!Vp9Encode, Enc!Av1Encode, lens, one
  <2>2. U = one
    BY <1>6 DEF Enc!Units, lens, one
  <2>. QED BY <1>2, <2>1, <2>2, ImagesAreCut, Zenon DEF Framed
<1>7. CASE encCodec \in {"h263", "mpeg4"}
  <2>1. CutFrame(P, one) /\ (encCodec = "mpeg4" => NoLarger(P, PktSize))
    <3>1. CASE encCodec = "h263"
      <4>1. P = Enc!Stream(lens, PktSize, 4)
        BY <3>1, Zenon DEF Enc!PacketsOf, Enc!H263Encode, Enc!H263Frame, lens
      <4>. QED BY <1>1, <3>1, <4>1, StreamIsCut DEF one
    <3>2. CASE encCodec = "mpeg4"
      <4>1. P = Enc!Stream(lens, PktSize, 0)
        BY <3>2, Zenon DEF Enc!PacketsOf, Enc!Mpeg4Encode, Enc!Mpeg4Frame, lens
      <4>2. 0 + PktSize = PktSize /\ 0 \in Nat
        BY PacketSize
      <4>. QED BY <1>1, <4>1, <4>2, StreamIsCut DEF one
    <3>. QED BY <1>7, <3>1, <3>2
  <2>2. U = one
    BY <1>7 DEF Enc!Units, lens, one
  <2>3. encCodec \notin {"h265", "vp8", "vp9", "av1"}
    BY <1>7
  <2>. QED BY <1>7, <2>1, <2>2, <2>3, Zenon DEF Framed
<1>8. CASE encCodec = "daala"
  <2>1. P = Enc!DaalaFrame(lens)
    BY <1>8, Zenon DEF Enc!PacketsOf, Enc!DaalaEncode, lens
  <2>2. U = lens
    BY <1>8 DEF Enc!Units, lens
  <2>3. encCodec \notin {"h265", "vp8", "vp9", "av1", "mpeg4"}
    BY <1>8
  <2>. QED BY <1>1, <1>8, <2>1, <2>2, <2>3, DaalaIsCut, Zenon DEF Framed
<1>. QED BY <1>3, <1>4, <1>5, <1>6, <1>7, <1>8 DEF AllCodecs

\* What such packets are known for.
LEMMA FramedSays ==
    ASSUME NEW q, NEW lens, Framed(q, lens)
    PROVE  /\ Enc!Carries(q, lens)
           /\ \A i \in DOMAIN q : q[i] \in Enc!Packet
           /\ encCodec \notin {"daala", "h263", "mpeg4"} =>
                 \A i \in DOMAIN q : q[i].mark <=> i = Len(q)
           /\ encCodec \in {"h265", "vp8", "vp9", "av1", "mpeg4"} =>
                 \A i \in DOMAIN q : Enc!SizeOf(q[i]) <= PktSize
<1>1. q \in Seq(Enc!Packet) /\ DOMAIN q = 1 .. Len(q)
  BY DEF Framed, CutFrame
<1>2. /\ q[1].unit = 1 /\ q[1].from = 1
      /\ q[Len(q)].unit = Len(lens) /\ q[Len(q)].to = lens[Len(lens)]
      /\ \A i \in 1 .. Len(q) : q[i].from <= q[i].to
      /\ \A i \in 1 .. Len(q) - 1 :
            IF q[i].e
            THEN /\ q[i].to = lens[q[i].unit]
                 /\ q[i + 1].unit = q[i].unit + 1 /\ q[i + 1].from = 1 /\ q[i + 1].s
            ELSE q[i + 1].unit = q[i].unit /\ q[i + 1].from = q[i].to + 1 /\ ~q[i + 1].s
  BY Zenon DEF Framed, CutFrame
<1>3. \A i \in 1 .. Len(q) - 1 :
          \/ q[i + 1].unit = q[i].unit /\ q[i + 1].from = q[i].to + 1
          \/ /\ q[i].to = lens[q[i].unit]
             /\ q[i + 1].unit = q[i].unit + 1 /\ q[i + 1].from = 1
  BY <1>2, Zenon
<1>4. Enc!Carries(q, lens)
  BY <1>1, <1>2, <1>3, Zenon DEF Enc!Carries
<1>5. \A i \in DOMAIN q : q[i] \in Enc!Packet
  BY <1>1
<1>. QED BY <1>1, <1>4, <1>5, Zenon DEF Framed, MarkedEnd, NoLarger

\* The inductive invariant: an adapted state has the rate that was asked for last, and the
\* library's encoder that of the state.
EncInv ==
    /\ Enc!TypeOK
    /\ encUp /\ encCodec \in Enc!Adapted => rate = encAsked
    /\ lib # Enc!Closed /\ encCodec \in Enc!Adapted => lib.rate = rate
    /\ Enc!FrameIsCarried /\ Enc!FrameHasEnd /\ Enc!PacketsFit /\ Enc!EncodesAsAsked

\* The initial state satisfies it.
LEMMA EncInit == Enc!Init => EncInv
<1> SUFFICES ASSUME Enc!Init PROVE EncInv
  OBVIOUS
<1>1. /\ encCodec \in AllCodecs \cup {"x264", "v4l2"} /\ encAsked = Enc!None
      /\ encUp = FALSE /\ rate = Enc!None /\ lib = Enc!Closed /\ idr = FALSE
      /\ was = Enc!NoFrame /\ out = Enc!Nothing
  BY DEF Enc!Init
<1>2. lib \in [rate : Rates \cup {Enc!None}, size : Sizes \cup {Enc!None}]
  BY <1>1 DEF Enc!Closed
<1>3. /\ was.kind = "raw" /\ was.size = Enc!None /\ was.key = FALSE
      /\ out.rate = Enc!None /\ out.size = Enc!None /\ out.packets = <<>>
  BY <1>1 DEF Enc!NoFrame, Enc!Nothing
<1>4. Enc!TypeOK
  <2>1. {encUp, idr, was.key} \subseteq BOOLEAN
    BY <1>1, <1>3
  <2>2. encAsked \in Rates \cup {Enc!None} /\ rate \in Rates \cup {Enc!None}
    BY <1>1
  <2>3. /\ was.kind \in {"raw", "h264"} /\ was.size \in Sizes \cup {Enc!None}
        /\ out.rate \in Rates \cup {Enc!None} /\ out.size \in Sizes \cup {Enc!None}
    BY <1>3
  <2>4. \A i \in DOMAIN out.packets : out.packets[i] \in Enc!Packet
    BY <1>3
  <2>5. encCodec \in AllCodecs \cup {"x264", "v4l2"}
    BY <1>1
  <2>. QED BY <1>2, <2>1, <2>2, <2>3, <2>4, <2>5, Zenon DEF Enc!TypeOK
<1>5. Enc!FrameIsCarried /\ Enc!FrameHasEnd /\ Enc!PacketsFit /\ Enc!EncodesAsAsked
  BY <1>3 DEF Enc!FrameIsCarried, Enc!FrameHasEnd, Enc!PacketsFit, Enc!EncodesAsAsked
<1>. QED BY <1>1, <1>4, <1>5 DEF EncInv

\* An encode_update: the state afterwards, and nothing is sent.
LEMMA EncUpdate ==
    ASSUME EncInv, NEW r \in Rates, NEW z \in Sizes, Enc!Update(r, z)
    PROVE  EncInv'
<1> DEFINE a == Enc!Updated(r, z)
           Lib == [rate : Rates \cup {Enc!None}, size : Sizes \cup {Enc!None}]
<1>1. /\ encCodec \in AllCodecs \cup {"x264", "v4l2"} /\ rate \in Rates \cup {Enc!None}
      /\ lib \in Lib
      /\ lib # Enc!Closed /\ encCodec \in Enc!Adapted => lib.rate = rate
  BY Zenon DEF EncInv, Enc!TypeOK
<1>2. /\ encAsked' = r /\ encUp' = TRUE /\ rate' = a.rate /\ lib' = a.lib /\ idr' = a.idr
      /\ was' = Enc!NoFrame /\ out' = Enc!Nothing /\ encCodec' = encCodec
  BY Zenon DEF Enc!Update
<1>3. Enc!Closed \in Lib /\ [rate |-> Enc!None, size |-> z] \in Lib
  BY DEF Enc!Closed
<1>4. {idr, FALSE} \subseteq BOOLEAN
  BY DEF EncInv, Enc!TypeOK
<1>5. /\ a.rate \in {rate, r} /\ a.lib \in {Enc!Closed, [rate |-> Enc!None, size |-> z], lib}
      /\ a.idr \in {idr, FALSE}
      /\ encCodec \in Enc!Adapted =>
            /\ a.rate = r /\ a.lib = IF r # rate THEN Enc!Closed ELSE lib
  <2> DEFINE A(x, l, k) == Enc!After(x, l, k)
             c == IF r # rate THEN Enc!Closed ELSE lib
  <2>2. \/ encCodec \in {"jdk", "openh264", "wels"} /\
              (a = A(r, Enc!Closed, FALSE) \/ a = A(r, [rate |-> Enc!None, size |-> z], FALSE))
        \/ encCodec \in {"avc264", "x264", "h263", "mpeg4", "v4l2"} /\
              (a = A(rate, lib, idr) \/ a = A(r, Enc!Closed, FALSE))
        \/ encCodec \in Enc!Adapted /\ a = A(r, c, FALSE)
    BY <1>1, Zenon DEF Enc!Updated, Enc!JdkUpdate, Enc!Openh264Update, Enc!WelsUpdate,
       Enc!AvcodecUpdate, Enc!V4l2Update, Enc!H265Update, Enc!Vp8Update, Enc!Vp9Update,
       Enc!Av1Update, Enc!DaalaUpdate, AllCodecs, Enc!Adapted
  <2>3. c \in {Enc!Closed, lib}
    OBVIOUS
  <2> HIDE DEF A, a, c
  <2>4. encCodec \in Enc!Adapted => encCodec \notin {"jdk", "openh264", "wels"} /\
              encCodec \notin {"avc264", "x264", "h263", "mpeg4", "v4l2"}
    BY DEF Enc!Adapted
  <2> DEFINE sized == [rate |-> Enc!None, size |-> z]
             Goal(x) == /\ x.rate \in {rate, r} /\ x.lib \in {Enc!Closed, sized, lib}
                        /\ x.idr \in {idr, FALSE}
  <2>5. Goal(A(r, Enc!Closed, FALSE)) /\ Goal(A(r, sized, FALSE)) /\ Goal(A(rate, lib, idr))
        /\ Goal(A(r, c, FALSE)) /\ A(r, c, FALSE).rate = r /\ A(r, c, FALSE).lib = c
    <3> HIDE DEF sized
    <3> USE DEF A, Enc!After
    <3>1. Goal(A(r, Enc!Closed, FALSE))
      OBVIOUS
    <3>2. Goal(A(r, sized, FALSE))
      OBVIOUS
    <3>3. Goal(A(rate, lib, idr))
      OBVIOUS
    <3>4. Goal(A(r, c, FALSE)) /\ A(r, c, FALSE).rate = r /\ A(r, c, FALSE).lib = c
      BY <2>3
    <3>. QED BY <3>1, <3>2, <3>3, <3>4
  <2> HIDE DEF Goal
  <2>6. Goal(a)
    BY <2>2, <2>5, Zenon
  <2>7. encCodec \in Enc!Adapted => a = A(r, c, FALSE)
    BY <2>2, <2>4, Zenon
  <2>8. encCodec \in Enc!Adapted => a.rate = r /\ a.lib = c
    BY <2>5, <2>7, Zenon
  <2>. QED BY <2>6, <2>8, Zenon DEF Goal, c
<1> HIDE DEF a
<1>6. rate' \in Rates \cup {Enc!None} /\ lib' \in Lib /\ idr' \in BOOLEAN
  BY <1>1, <1>2, <1>3, <1>4, <1>5
<1>7. /\ was'.kind = "raw" /\ was'.size = Enc!None /\ was'.key = FALSE
      /\ out'.rate = Enc!None /\ out'.size = Enc!None /\ out'.packets = <<>>
  BY <1>2 DEF Enc!NoFrame, Enc!Nothing
<1>8. Enc!TypeOK'
  <2>1. {TRUE, FALSE, idr'} \subseteq BOOLEAN
    BY <1>6
  <2>2. /\ was'.kind \in {"raw", "h264"} /\ was'.size \in Sizes \cup {Enc!None}
        /\ out'.rate \in Rates \cup {Enc!None} /\ out'.size \in Sizes \cup {Enc!None}
        /\ encAsked' \in Rates \cup {Enc!None}
    BY <1>2, <1>7
  <2>3. \A i \in DOMAIN out'.packets : out'.packets[i] \in Enc!Packet
    BY <1>7
  <2>. QED BY <1>1, <1>2, <1>6, <1>7, <2>1, <2>2, <2>3, Zenon DEF Enc!TypeOK
<1>9. (Enc!FrameIsCarried /\ Enc!FrameHasEnd /\ Enc!PacketsFit /\ Enc!EncodesAsAsked)'
  BY <1>7 DEF Enc!FrameIsCarried, Enc!FrameHasEnd, Enc!PacketsFit, Enc!EncodesAsAsked
<1>10. encCodec' \in Enc!Adapted => rate' = encAsked' /\ (lib' # Enc!Closed => lib'.rate = rate')
  BY <1>1, <1>2, <1>5, Zenon
<1>. QED BY <1>8, <1>9, <1>10, Zenon DEF EncInv

\* A frame: what is sent of it, or nothing.
LEMMA EncEncode ==
    ASSUME EncInv, NEW f \in Enc!Frame, NEW ok \in BOOLEAN, Enc!Encode(f, ok)
    PROVE  /\ EncInv'
           /\ encCodec \in {"openh264", "wels"} /\ was'.kind = "raw" /\ out'.packets # <<>>
                 => idr \/ was'.key
<1> DEFINE opens == encCodec \in Enc!Adapted \cup (Enc!Kept \ {"v4l2"})
           now == IF opens THEN Enc!Opened(f, ok) ELSE lib
           Lib == [rate : Rates \cup {Enc!None}, size : Sizes \cup {Enc!None}]
           sent1 == [rate |-> IF f.kind = "h264" THEN Enc!None ELSE now.rate,
                     size |-> IF f.kind = "h264" THEN Enc!None ELSE now.size,
                     packets |-> Enc!PacketsOf(f)]
<1>1. /\ encCodec \in AllCodecs \cup {"x264", "v4l2"} /\ rate \in Rates \cup {Enc!None}
      /\ lib \in Lib /\ encAsked \in Rates \cup {Enc!None}
      /\ lib # Enc!Closed /\ encCodec \in Enc!Adapted => lib.rate = rate
      /\ encUp /\ encCodec \in Enc!Adapted => rate = encAsked
  BY Zenon DEF EncInv, Enc!TypeOK
<1>2. /\ encUp /\ Enc!Takes(f.kind) /\ lib' = now /\ was' = f
      /\ IF opens /\ now = Enc!Closed THEN out' = Enc!Nothing /\ idr' = idr
         ELSE out' = sent1 /\ idr' = (idr \/ (f.key /\ f.kind = "raw" /\
                                             encCodec \in {"openh264", "wels"}))
      /\ encCodec' = encCodec /\ encAsked' = encAsked /\ encUp' = encUp /\ rate' = rate
  BY Zenon DEF Enc!Encode
<1>3. f.kind \in {"raw", "h264"} /\ f.size \in Sizes /\ f.key \in BOOLEAN
  BY DEF Enc!Frame
<1>4. now \in Lib
  <2>1. Enc!Closed \in Lib /\ [rate |-> rate, size |-> f.size] \in Lib
    BY <1>1, <1>3 DEF Enc!Closed
  <2>. QED BY <1>1, <2>1, Zenon DEF Enc!Opened
<1>5. now # Enc!Closed /\ encCodec \in Enc!Adapted => now.rate = rate
  <2>1. [rate |-> rate, size |-> f.size].rate = rate
    OBVIOUS
  <2>. QED BY <1>1, <2>1, Zenon DEF Enc!Opened
<1>6. now # Enc!Closed /\ opens => now.size = f.size
  <2>1. [rate |-> rate, size |-> f.size].size = f.size
    OBVIOUS
  <2>. QED BY <1>1, <2>1, Zenon DEF Enc!Opened
<1> HIDE DEF opens, now
<1>7. /\ sent1.rate = IF f.kind = "h264" THEN Enc!None ELSE now.rate
      /\ sent1.size = IF f.kind = "h264" THEN Enc!None ELSE now.size
      /\ sent1.packets = Enc!PacketsOf(f)
  OBVIOUS
<1> HIDE DEF sent1
<1>8. \/ out' = Enc!Nothing /\ idr' = idr
      \/ /\ out' = sent1 /\ ~(opens /\ now = Enc!Closed)
         /\ idr' = (idr \/ (f.key /\ f.kind = "raw" /\ encCodec \in {"openh264", "wels"}))
  BY <1>2, Zenon
<1>9. Enc!Nothing.packets = <<>> /\ Enc!Nothing.rate = Enc!None /\ Enc!Nothing.size = Enc!None
  BY DEF Enc!Nothing
<1>10. out'.packets = <<>> \/ Framed(out'.packets, Enc!Units(f))
  BY <1>1, <1>7, <1>8, <1>9, EncFramed, Zenon
<1>11. /\ out'.rate \in Rates \cup {Enc!None} /\ out'.size \in Sizes \cup {Enc!None}
       /\ idr' \in BOOLEAN
  <2>1. now.rate \in Rates \cup {Enc!None} /\ now.size \in Sizes \cup {Enc!None}
    BY <1>4
  <2>2. idr \in BOOLEAN /\ Enc!None \in Rates \cup {Enc!None}
        /\ Enc!None \in Sizes \cup {Enc!None}
    BY Zenon DEF EncInv, Enc!TypeOK
  <2>3. idr' \in BOOLEAN
    BY <1>8, <2>2, Zenon
  <2>. QED BY <1>7, <1>8, <1>9, <2>1, <2>2, <2>3, Zenon
<1>12. out'.packets = <<>> \/
         /\ Enc!Carries(out'.packets, Enc!Units(f))
         /\ \A i \in DOMAIN out'.packets : out'.packets[i] \in Enc!Packet
         /\ encCodec \notin {"daala", "h263", "mpeg4"} =>
               \A i \in DOMAIN out'.packets : out'.packets[i].mark <=> i = Len(out'.packets)
         /\ encCodec \in {"h265", "vp8", "vp9", "av1", "mpeg4"} =>
               \A i \in DOMAIN out'.packets : Enc!SizeOf(out'.packets[i]) <= PktSize
  BY <1>10, FramedSays, Zenon
<1>13. Enc!TypeOK'
  <2>1. \A i \in DOMAIN out'.packets : out'.packets[i] \in Enc!Packet
    BY <1>12
  <2>2. encUp' \in BOOLEAN
    BY <1>2 DEF EncInv, Enc!TypeOK
  <2>3. was'.size \in Sizes \cup {Enc!None} /\ was'.kind \in {"raw", "h264"}
        /\ was'.key \in BOOLEAN
    BY <1>2, <1>3
  <2>4. lib' \in Lib
    BY <1>2, <1>4
  <2>. QED BY <1>1, <1>2, <1>11, <2>1, <2>2, <2>3, <2>4, Zenon DEF Enc!TypeOK
<1>14. (Enc!FrameIsCarried /\ Enc!FrameHasEnd /\ Enc!PacketsFit)'
  <2>1. Enc!Units(f)' = Enc!Units(f)
    BY <1>2 DEF Enc!Units
  <2>2. Enc!Units(was)' = Enc!Units(f)
    BY <1>2 DEF Enc!Units
  <2>3. Enc!FrameIsCarried'
    BY <1>12, <2>2, Zenon DEF Enc!FrameIsCarried, Enc!Carries
  <2>4. out'.packets = <<>> => \A i \in DOMAIN out'.packets : FALSE
    OBVIOUS
  <2>5. Enc!FrameHasEnd' /\ Enc!PacketsFit'
    BY <1>2, <1>12, <2>4, Zenon DEF Enc!FrameHasEnd, Enc!PacketsFit, Enc!SizeOf
  <2>. QED BY <2>3, <2>5
<1>15. Enc!EncodesAsAsked'
  <2> SUFFICES ASSUME out'.packets # <<>>, was'.kind = "raw"
               PROVE  /\ encCodec' \in Enc!Adapted => out'.rate = encAsked'
                      /\ encCodec' \in Enc!Adapted \cup Enc!Kept => out'.size = was'.size
    BY Zenon DEF Enc!EncodesAsAsked
  <2>1. out' = sent1 /\ ~(opens /\ now = Enc!Closed) /\ f.kind = "raw"
    BY <1>2, <1>8, <1>9, Zenon
  <2>2. f.kind # "h264"
    BY <2>1
  <2>3. out'.rate = now.rate /\ out'.size = now.size
    BY <1>7, <2>1, <2>2, Zenon
  <2>4. encCodec # "v4l2"
    BY <1>2, <2>2, Zenon DEF Enc!Takes
  <2>5. encCodec \in Enc!Adapted \cup Enc!Kept => opens
    BY <2>4 DEF opens
  <2>. QED BY <1>1, <1>2, <1>5, <1>6, <2>1, <2>3, <2>5
<1>16. encUp' /\ encCodec' \in Enc!Adapted => rate' = encAsked'
  BY <1>1, <1>2, Zenon
<1>17. lib' # Enc!Closed /\ encCodec' \in Enc!Adapted => lib'.rate = rate'
  BY <1>2, <1>5, Zenon
<1>18. ASSUME encCodec \in {"openh264", "wels"}, was'.kind = "raw", out'.packets # <<>>
       PROVE  idr \/ was'.key
  <2>1. out' = sent1 /\ f.kind = "raw" /\ Enc!PacketsOf(f) # <<>>
    BY <1>2, <1>7, <1>8, <1>9, <1>18, Zenon
  <2>2. f.kind # "h264"
    BY <2>1
  <2>. QED BY <1>2, <1>18, <2>1, <2>2, Zenon
        DEF Enc!PacketsOf, Enc!Openh264Encode, Enc!WelsEncode
<1>. QED BY <1>13, <1>14, <1>15, <1>16, <1>17, <1>18, Zenon DEF EncInv

\* Every step of an encoder keeps the invariant, and openh264 begins with a key frame.
LEMMA EncNext ==
    EncInv /\ [Enc!Next]_encVars =>
       /\ EncInv'
       /\ [(encCodec \in {"openh264", "wels"} /\ was'.kind = "raw" /\ out'.packets # <<>>)
              => idr \/ was'.key]_encVars
<1> DEFINE Key == (encCodec \in {"openh264", "wels"} /\ was'.kind = "raw" /\ out'.packets # <<>>)
                    => idr \/ was'.key
<1> SUFFICES ASSUME EncInv, [Enc!Next]_encVars PROVE EncInv' /\ [Key]_encVars
  BY Zenon
<1>1. ASSUME NEW r \in Rates, NEW z \in Sizes, Enc!Update(r, z) PROVE EncInv' /\ Key
  <2>1. out'.packets = <<>>
    BY <1>1 DEF Enc!Update, Enc!Nothing
  <2>. QED BY <1>1, <2>1, EncUpdate, Zenon
<1>2. ASSUME NEW f \in Enc!Frame, NEW ok \in BOOLEAN, Enc!Encode(f, ok) PROVE EncInv' /\ Key
  BY <1>2, EncEncode
<1>3. CASE UNCHANGED encVars
  BY <1>3 DEF encVars, EncInv, Enc!TypeOK, Enc!FrameIsCarried, Enc!FrameHasEnd,
     Enc!PacketsFit, Enc!EncodesAsAsked, Enc!Units, Enc!Carries
<1>. QED BY <1>1, <1>2, <1>3, Zenon DEF Enc!Next

\* It is enough.
LEMMA EncHolds ==
    EncInv => /\ Enc!TypeOK /\ Enc!FrameIsCarried /\ Enc!FrameHasEnd /\ Enc!PacketsFit
              /\ Enc!EncodesAsAsked
BY Zenon DEF EncInv

-----------------------------------------------------------------------------
(* VideoDecoders.                                                          *)

Nals == Dec!Nals264 \cup {"h265"}

\* The pieces that come have bytes.
DecPiece == {p \in Dec!Piece : p.from <= p.to}

\* The states of a decoder.
DecState == [mb : Seq(DecPiece), start : Nat, frag : BOOLEAN, seq : 0 .. 2, key : BOOLEAN]

\* The packet q follows p in its frame.
Link(p, q) ==
    IF p.e THEN q.s ELSE ~q.s /\ q.unit = p.unit /\ q.from = p.to + 1

\* The pieces of a buffer: they begin with the beginning of a unit and follow each other.
Chain(mb) ==
    /\ mb \in Seq(DecPiece)
    /\ mb # <<>> => mb[1].s
    /\ \A i \in 1 .. Len(mb) - 1 : Dec!Joined(mb[i], mb[i + 1])

\* It ends with the end of a unit.
Closed(mb) == mb # <<>> => mb[Len(mb)].e

\* It is of one image.
OneImage(mb) == (mb # <<>> => mb[1].unit = 1) /\ \A i \in 2 .. Len(mb) : mb[i].follows

\* The decoders of H.264 and H.265: behind start is what came of an open unit.
Nal(d) ==
    /\ d \in DecState /\ Chain(d.mb)
    /\ ~d.frag => Closed(d.mb)
    /\ d.frag => /\ d.start \in 0 .. Len(d.mb)
                 /\ d.start > 0 => d.mb[d.start].e
                 /\ d.start < Len(d.mb) => ~d.mb[Len(d.mb)].e

\* The buffer ends with the first n packets of the frame.
Got(mb, n) ==
    /\ Len(mb) >= n
    /\ \A i \in 0 .. n - 1 : /\ mb[Len(mb) - i].nr = n - i
                             /\ i # n - 1 => mb[Len(mb) - i].follows

\* The packets w are linked, the marker is on the last one. They are the n-th of the frame and
\* those behind it; the one that begins the first unit is the first of the frame.
Linked(w, n) ==
    /\ \A i \in 1 .. Len(w) - 1 : Link(w[i], w[i + 1])
    /\ w # <<>> => w[Len(w)].e
    /\ \A i \in 1 .. Len(w) : w[i].mark <=> i = Len(w)
    /\ \A i \in 1 .. Len(w) : w[i].unit = 1 /\ w[i].s => i = 1 /\ n = 1
    /\ w # <<>> /\ n = 1 => w[1].s /\ w[1].unit = 1

\* What is still to come of a frame of the codec c, the n-th packet and those behind it.
ChainOf(w, n, c) ==
    /\ w \in Seq(Dec!Packet)
    /\ \A i \in 1 .. Len(w) : w[i].from <= w[i].to /\ (w[i].whole => w[i].s /\ w[i].e)
    /\ c \in Nals \cup Dec!Images => Linked(w, n)
    /\ c = "vp9" => \A i \in 1 .. Len(w) : w[i].unit = 1
    /\ c \in Dec!Nals264 => \A i \in 1 .. Len(w) : w[i].s /\ w[i].e => w[i].whole
    /\ c = "daala" => (\A i \in 1 .. Len(w) : w[i].s /\ w[i].e) /\ (w # <<>> => ~w[Len(w)].mark)

\* The buffers of VP8, VP9 and AV1.
Img(d) == d \in DecState /\ Chain(d.mb) /\ OneImage(d.mb)

\* A unit or image that is under way with the last packet in the buffer goes on with the next one.
Expects ==
    decDec.frag /\ decDec.seq = 0 =>
        /\ decDec.mb # <<>> /\ gap = 0 /\ wire # <<>>
        /\ Link(decDec.mb[Len(decDec.mb)], wire[1])
        /\ decCodec \in Nals => ~decDec.mb[Len(decDec.mb)].e

\* All of the frame came so far, and of H.264 the one before.
SoFar == arrived /\ (decCodec \in Dec!Nals264 => before)

\* What the frame under way has come to, if all of it came so far.
Coming ==
    SoFar /\ wire # <<>> =>
        /\ sent = 1 /\ decCodec \in Dec!Nals264 => ~decDec.frag
        /\ sent > 1 =>
              /\ Got(decDec.mb, sent - 1) /\ gap = 0
              /\ Link(decDec.mb[Len(decDec.mb)], wire[1])
              /\ decCodec \in Dec!Nals264 /\ isKey => decDec.key
              /\ decCodec \in Dec!Images \/ ~decDec.mb[Len(decDec.mb)].e
                    => decDec.frag /\ decDec.seq = 0
              /\ decCodec \in Nals /\ decDec.mb[Len(decDec.mb)].e => ~decDec.frag

\* The inductive invariant.
DecTypes ==
    /\ decCodec \in AllCodecs /\ {isKey, decUp, arrived, before} \subseteq BOOLEAN
    /\ decDec \in DecState /\ fed \in Seq(DecPiece) /\ sent \in Nat /\ gap \in 0 .. 2
    /\ wire # <<>> => sent > 0
    /\ ChainOf(wire, sent, decCodec)

DecInv ==
    /\ DecTypes
    /\ decCodec \in Nals => Nal(decDec)
    /\ decCodec \in Dec!Images => Img(decDec)
    /\ decCodec \in Nals \cup Dec!Images => Expects /\ Coming
    /\ decCodec \in Dec!Nals264 /\ arrived /\ wire = <<>> => ~decDec.frag
    /\ Dec!UnitsAreWhole

\* What becomes of a buffer: the parts of NalUnit and Image.
NalOpen(d, p) == IF d.frag /\ p.whole THEN [Dec!Rewound(d) EXCEPT !.frag = FALSE] ELSE d
NalBegun(d) == [d EXCEPT !.start = Len(d.mb), !.frag = TRUE]
NalMore(d, p) == [d EXCEPT !.mb = Append(@, p), !.key = @ \/ (p.key /\ p.s)]
NalFrag(d, p) == [NalMore(d, p) EXCEPT !.frag = ~p.e, !.seq = 0]
ImageBegun(d, p) == [d EXCEPT !.mb = <<p>>, !.frag = TRUE, !.seq = 0]
ImageMore(d, p) == [d EXCEPT !.mb = Append(@, p), !.seq = 0]

\* A first part of a sequence.
LEMMA Prefix ==
    ASSUME NEW T, NEW s \in Seq(T), NEW k \in 0 .. Len(s)
    PROVE  /\ SubSeq(s, 1, k) \in Seq(T) /\ Len(SubSeq(s, 1, k)) = k
           /\ \A i \in 1 .. k : SubSeq(s, 1, k)[i] = s[i]
OBVIOUS

\* One element more.
LEMMA OneMore ==
    ASSUME NEW T, NEW s \in Seq(T), NEW p \in T
    PROVE  /\ Append(s, p) \in Seq(T) /\ Len(Append(s, p)) = Len(s) + 1
           /\ \A i \in 1 .. Len(s) : Append(s, p)[i] = s[i]
           /\ Append(s, p)[Len(s) + 1] = p /\ Append(s, p) # <<>>
OBVIOUS

\* The same number of bytes more.
LEMMA BytesMore ==
    ASSUME NEW s \in Seq(DecPiece), NEW p \in DecPiece
    PROVE  /\ Dec!Bytes(s) \in Nat
           /\ Dec!Bytes(Append(s, p)) = Dec!Bytes(s) + (p.to - p.from + 1)
<1> DEFINE n == Len(s)
           r == Append(s, p)
           W == [i \in 1 .. n |-> BytesIn(s[i])]
           V == [i \in 1 .. n + 1 |-> BytesIn(r[i])]
<1>1. n \in Nat /\ r \in Seq(DecPiece) /\ Len(r) = n + 1 /\ (\A i \in 1 .. n : r[i] = s[i])
      /\ r[n + 1] = p
  BY OneMore
<1>2. \A x \in DecPiece : x.to \in Nat /\ x.from \in Nat /\ BytesIn(x) \in Nat
  BY DEF DecPiece, Dec!Piece, BytesIn
<1>3. PICK g \in [0 .. n -> Int] : Adds(W, n, g, Dec!Bytes(s))
  BY <1>2, BytesSteps
<1>4. PICK h \in [0 .. n + 1 -> Int] : Adds(V, n + 1, h, Dec!Bytes(r))
  BY <1>1, <1>2, BytesSteps
<1>5. \A i \in 1 .. n : s[i] \in DecPiece /\ W[i] \in Nat /\ V[i] = W[i]
  BY <1>1, <1>2
<1>6. V[n + 1] = BytesIn(p)
  BY <1>1
<1> HIDE DEF n, r, W, V
<1>7. /\ g[0] = 0 /\ \A i \in 1 .. n : g[i] = g[i - 1] + W[i]
      /\ g[n] = Dec!Bytes(s)
  BY <1>3 DEF Adds
<1>8. /\ h[0] = 0 /\ \A i \in 1 .. n + 1 : h[i] = h[i - 1] + V[i]
      /\ h[n + 1] = Dec!Bytes(r)
  BY <1>4 DEF Adds
<1> DEFINE U == {k \in 0 .. n : g[k] \in Nat /\ h[k] = g[k]}
<1>9. 0 \in U
  BY <1>1, <1>7, <1>8
<1>10. ASSUME NEW k \in 0 .. n, k > 0, k - 1 \in U PROVE k \in U
  <2>1. k \in 1 .. n /\ k \in 1 .. n + 1 /\ g[k - 1] \in Nat /\ h[k - 1] = g[k - 1]
    BY <1>1, <1>10
  <2>2. g[k] = g[k - 1] + W[k] /\ h[k] = h[k - 1] + V[k] /\ V[k] = W[k] /\ W[k] \in Nat
    BY <2>1, <1>5, <1>7, <1>8
  <2>. QED BY <2>1, <2>2
<1>11. n \in U
  <2> HIDE DEF U
  <2>1. 0 .. n \subseteq U
    BY <1>1, <1>9, <1>10, StepByStep
  <2>. QED BY <1>1, <2>1
<1>12. h[n + 1] = h[n + 1 - 1] + V[n + 1] /\ n + 1 - 1 = n
  BY <1>1, <1>8
<1>. QED BY <1>6, <1>7, <1>8, <1>11, <1>12 DEF r, BytesIn

\* A first part has not more.
LEMMA BytesPrefix ==
    ASSUME NEW s \in Seq(DecPiece), NEW m \in 0 .. Len(s)
    PROVE  Dec!Bytes(SubSeq(s, 1, m)) <= Dec!Bytes(s)
<1> DEFINE n == Len(s)
           r == SubSeq(s, 1, m)
           W == [i \in 1 .. n |-> BytesIn(s[i])]
           V == [i \in 1 .. m |-> BytesIn(r[i])]
<1>1. /\ n \in Nat /\ m \in 0 .. n /\ r \in Seq(DecPiece) /\ Len(r) = m
      /\ \A i \in 1 .. m : r[i] = s[i]
  BY Prefix
<1>2. \A x \in DecPiece : x.to \in Nat /\ x.from \in Nat /\ BytesIn(x) \in Nat
  BY DEF DecPiece, Dec!Piece, BytesIn
<1>3. PICK g \in [0 .. n -> Int] : Adds(W, n, g, Dec!Bytes(s))
  BY <1>2, BytesSteps
<1>4. PICK h \in [0 .. m -> Int] : Adds(V, m, h, Dec!Bytes(r))
  BY <1>1, <1>2, BytesSteps
<1>5. /\ \A i \in 1 .. n : s[i] \in DecPiece /\ W[i] \in Nat
      /\ \A i \in 1 .. m : V[i] = W[i]
  BY <1>1, <1>2
<1> HIDE DEF n, r, W, V
<1>7. /\ g[0] = 0 /\ \A i \in 1 .. n : g[i] = g[i - 1] + W[i]
      /\ g[n] = Dec!Bytes(s)
  BY <1>3 DEF Adds
<1>8. /\ h[0] = 0 /\ \A i \in 1 .. m : h[i] = h[i - 1] + V[i]
      /\ h[m] = Dec!Bytes(r)
  BY <1>4 DEF Adds
<1> DEFINE U == {k \in 0 .. n : /\ g[k] \in Nat
                                /\ k <= m => h[k] = g[k]
                                /\ k >= m => h[m] <= g[k]}
<1>9. 0 \in U
  BY <1>1, <1>7, <1>8
<1>10. ASSUME NEW k \in 0 .. n, k > 0, k - 1 \in U PROVE k \in U
  <2>1. k \in 1 .. n /\ g[k - 1] \in Nat /\ (k <= m => h[k - 1] = g[k - 1])
        /\ (k - 1 >= m => h[m] <= g[k - 1])
    BY <1>1, <1>10
  <2>2. g[k] = g[k - 1] + W[k] /\ W[k] \in Nat
    BY <2>1, <1>5, <1>7
  <2>3. CASE k <= m
    <3>1. k \in 1 .. m
      BY <2>1, <2>3
    <3>2. h[k] = h[k - 1] + V[k] /\ V[k] = W[k]
      BY <3>1, <1>5, <1>8
    <3>3. h[k] = g[k] /\ g[k] \in Nat
      BY <2>1, <2>2, <2>3, <3>2
    <3>. QED BY <3>3, <2>3, <1>1
  <2>4. CASE ~(k <= m)
    <3>1. h[m] <= g[k - 1] /\ h[m] \in Int
      BY <2>1, <2>4, <1>1
    <3>2. h[m] <= g[k] /\ g[k] \in Nat
      BY <2>1, <2>2, <3>1
    <3>. QED BY <3>2, <2>4, <1>1
  <2>. QED BY <2>3, <2>4
<1>11. n \in U
  <2> HIDE DEF U
  <2>1. 0 .. n \subseteq U
    BY <1>1, <1>9, <1>10, StepByStep
  <2>. QED BY <1>1, <2>1
<1>. QED BY <1>1, <1>7, <1>8, <1>11 DEF r

\* One field of the state set.
LEMMA FragSet ==
    ASSUME NEW x \in DecState, NEW b \in BOOLEAN
    PROVE  /\ [x EXCEPT !.frag = b] \in DecState
           /\ [x EXCEPT !.frag = b].mb = x.mb /\ [x EXCEPT !.frag = b].start = x.start
           /\ [x EXCEPT !.frag = b].frag = b
           /\ [x EXCEPT !.frag = b].seq = x.seq /\ [x EXCEPT !.frag = b].key = x.key
BY DEF DecState

\* The counter is set back.
LEMMA SeqReset ==
    ASSUME NEW x \in DecState
    PROVE  /\ [x EXCEPT !.seq = 0] \in DecState
           /\ [x EXCEPT !.seq = 0].mb = x.mb /\ [x EXCEPT !.seq = 0].start = x.start
           /\ [x EXCEPT !.seq = 0].frag = x.frag
           /\ [x EXCEPT !.seq = 0].seq = 0 /\ [x EXCEPT !.seq = 0].key = x.key
BY DEF DecState

\* The buffer is set.
LEMMA MbSet ==
    ASSUME NEW x \in DecState, NEW a \in Seq(DecPiece)
    PROVE  /\ [x EXCEPT !.mb = a] \in DecState
           /\ [x EXCEPT !.mb = a].mb = a /\ [x EXCEPT !.mb = a].start = x.start
           /\ [x EXCEPT !.mb = a].frag = x.frag
           /\ [x EXCEPT !.mb = a].seq = x.seq /\ [x EXCEPT !.mb = a].key = x.key
BY DEF DecState

\* A buffer with a piece more.
LEMMA MoreFields ==
    ASSUME NEW d \in DecState, NEW p \in DecPiece
    PROVE  /\ NalMore(d, p) \in DecState
           /\ NalMore(d, p).mb = Append(d.mb, p) /\ NalMore(d, p).start = d.start
           /\ NalMore(d, p).frag = d.frag
           /\ NalMore(d, p).seq = d.seq
           /\ NalMore(d, p).key = (d.key \/ (p.key /\ p.s))
<1>1. /\ d \in [mb : Seq(DecPiece), start : Nat, frag : BOOLEAN, seq : 0 .. 2, key : BOOLEAN]
      /\ d.mb \in Seq(DecPiece)
  BY DEF DecState
<1>2. {p.e, p.s, p.key} \subseteq BOOLEAN
  BY DEF DecPiece, Dec!Piece
<1>3. Append(d.mb, p) \in Seq(DecPiece)
  BY <1>1
<1> DEFINE k == d.key \/ (p.key /\ p.s)
           a == Append(d.mb, p)
<1>4. k \in BOOLEAN /\ a \in Seq(DecPiece)
  BY <1>1, <1>2, <1>3
<1>5. NalMore(d, p) = [d EXCEPT !.mb = a, !.key = k]
  BY DEF NalMore
<1> HIDE DEF k, a
<1>6. /\ NalMore(d, p) \in DecState
      /\ NalMore(d, p).mb = a /\ NalMore(d, p).start = d.start
      /\ NalMore(d, p).frag = d.frag
      /\ NalMore(d, p).seq = d.seq
      /\ NalMore(d, p).key = k
  BY <1>1, <1>4, <1>5 DEF DecState
<1>. QED BY <1>6 DEF k, a

\* A buffer with the next piece of a unit.
LEMMA FragFields ==
    ASSUME NEW d \in DecState, NEW p \in DecPiece
    PROVE  /\ NalFrag(d, p) \in DecState
           /\ NalFrag(d, p).mb = Append(d.mb, p) /\ NalFrag(d, p).start = d.start
           /\ NalFrag(d, p).frag = ~p.e
           /\ NalFrag(d, p).seq = 0
           /\ NalFrag(d, p).key = (d.key \/ (p.key /\ p.s))
<1>1. {p.e, p.s, p.key} \subseteq BOOLEAN
  BY DEF DecPiece, Dec!Piece
<1>2. /\ NalMore(d, p) \in DecState
      /\ NalMore(d, p).mb = Append(d.mb, p) /\ NalMore(d, p).start = d.start
      /\ NalMore(d, p).frag = d.frag
      /\ NalMore(d, p).seq = d.seq
      /\ NalMore(d, p).key = (d.key \/ (p.key /\ p.s))
  BY MoreFields, Zenon
<1> DEFINE x == NalMore(d, p)
           b == ~p.e
           y == [x EXCEPT !.frag = b]
<1>3. x \in DecState /\ b \in BOOLEAN
  BY <1>1, <1>2
<1>4. NalFrag(d, p) = [y EXCEPT !.seq = 0]
  BY DEF NalFrag
<1> HIDE DEF x, b
<1>5. /\ y \in DecState
      /\ y.mb = x.mb /\ y.start = x.start
      /\ y.frag = b
      /\ y.key = x.key
  BY <1>3, FragSet
<1> HIDE DEF y
<1>6. /\ NalFrag(d, p) \in DecState
      /\ NalFrag(d, p).mb = y.mb /\ NalFrag(d, p).start = y.start
      /\ NalFrag(d, p).frag = y.frag
      /\ NalFrag(d, p).seq = 0
      /\ NalFrag(d, p).key = y.key
  BY <1>4, <1>5, SeqReset
<1>. QED BY <1>5, <1>6, <1>2 DEF x, b

\* The fields after each part.
LEMMA DecFields ==
    ASSUME NEW d \in DecState, NEW p \in DecPiece
    PROVE  /\ /\ Dec!Cleared(d) \in DecState /\ Dec!Cleared(d).mb = <<>>
              /\ Dec!Cleared(d).frag = FALSE
              /\ Dec!Cleared(d).key = d.key
           /\ /\ d.start \in 0 .. Len(d.mb) =>
                    /\ Dec!Rewound(d) \in DecState
                    /\ [Dec!Rewound(d) EXCEPT !.frag = FALSE] \in DecState
                    /\ [Dec!Rewound(d) EXCEPT !.frag = TRUE] \in DecState
              /\ Dec!Rewound(d).mb = SubSeq(d.mb, 1, d.start)
              /\ Dec!Rewound(d).start = d.start
              /\ Dec!Rewound(d).frag = d.frag
              /\ Dec!Rewound(d).seq = d.seq /\ Dec!Rewound(d).key = d.key
           /\ /\ NalBegun(d) \in DecState
              /\ NalBegun(d).mb = d.mb /\ NalBegun(d).start = Len(d.mb)
              /\ NalBegun(d).frag = TRUE /\ NalBegun(d).key = d.key
           /\ /\ NalMore(d, p) \in DecState
              /\ NalMore(d, p).mb = Append(d.mb, p) /\ NalMore(d, p).start = d.start
              /\ NalMore(d, p).frag = d.frag
              /\ NalMore(d, p).seq = d.seq
              /\ NalMore(d, p).key = (d.key \/ (p.key /\ p.s))
           /\ /\ ImageBegun(d, p) \in DecState
              /\ ImageBegun(d, p).mb = <<p>>
              /\ ImageBegun(d, p).frag = TRUE /\ ImageBegun(d, p).seq = 0
           /\ /\ ImageMore(d, p) \in DecState
              /\ ImageMore(d, p).mb = Append(d.mb, p)
              /\ ImageMore(d, p).frag = d.frag /\ ImageMore(d, p).seq = 0
<1>1. /\ d \in [mb : Seq(DecPiece), start : Nat, frag : BOOLEAN, seq : 0 .. 2, key : BOOLEAN]
      /\ d.mb \in Seq(DecPiece)
  BY DEF DecState
<1>2. {p.e, p.s, p.key} \subseteq BOOLEAN
  BY DEF DecPiece, Dec!Piece
<1>3. Append(d.mb, p) \in Seq(DecPiece) /\ <<p>> \in Seq(DecPiece) /\ <<>> \in Seq(DecPiece)
      /\ Len(d.mb) \in Nat
  BY <1>1
<1>4. /\ Dec!Cleared(d) \in DecState /\ Dec!Cleared(d).mb = <<>>
      /\ Dec!Cleared(d).frag = FALSE
      /\ Dec!Cleared(d).key = d.key
  BY <1>1, <1>3 DEF Dec!Cleared, DecState
<1>5. ASSUME d.start \in 0 .. Len(d.mb)
      PROVE  /\ Dec!Rewound(d) \in DecState
             /\ [Dec!Rewound(d) EXCEPT !.frag = FALSE] \in DecState
             /\ [Dec!Rewound(d) EXCEPT !.frag = TRUE] \in DecState
  <2>1. SubSeq(d.mb, 1, d.start) \in Seq(DecPiece)
    BY <1>1, <1>5, Prefix
  <2>. QED BY <1>1, <2>1 DEF Dec!Rewound, DecState
<1>6. /\ Dec!Rewound(d).mb = SubSeq(d.mb, 1, d.start)
      /\ Dec!Rewound(d).start = d.start
      /\ Dec!Rewound(d).frag = d.frag
      /\ Dec!Rewound(d).seq = d.seq /\ Dec!Rewound(d).key = d.key
  BY <1>1 DEF Dec!Rewound
<1>7. /\ NalBegun(d) \in DecState
      /\ NalBegun(d).mb = d.mb /\ NalBegun(d).start = Len(d.mb)
      /\ NalBegun(d).frag = TRUE /\ NalBegun(d).key = d.key
  BY <1>1, <1>3 DEF NalBegun, DecState
<1>8. /\ NalMore(d, p) \in DecState
      /\ NalMore(d, p).mb = Append(d.mb, p) /\ NalMore(d, p).start = d.start
      /\ NalMore(d, p).frag = d.frag
      /\ NalMore(d, p).seq = d.seq
      /\ NalMore(d, p).key = (d.key \/ (p.key /\ p.s))
  BY MoreFields, Zenon
<1>9. /\ ImageBegun(d, p) \in DecState
       /\ ImageBegun(d, p).mb = <<p>>
       /\ ImageBegun(d, p).frag = TRUE /\ ImageBegun(d, p).seq = 0
  <2> DEFINE a == <<p>>
             x == [d EXCEPT !.mb = a]
             y == [x EXCEPT !.frag = TRUE]
  <2>1. a \in Seq(DecPiece)
    BY <1>3
  <2>2. ImageBegun(d, p) = [y EXCEPT !.seq = 0]
    BY DEF ImageBegun
  <2> HIDE DEF a
  <2>3. x \in DecState /\ x.mb = a
    BY <2>1, MbSet
  <2> HIDE DEF x
  <2>4. y \in DecState /\ y.mb = a /\ y.frag = TRUE
    BY <2>3, FragSet
  <2> HIDE DEF y
  <2>5. /\ ImageBegun(d, p) \in DecState
        /\ ImageBegun(d, p).mb = a
        /\ ImageBegun(d, p).frag = TRUE /\ ImageBegun(d, p).seq = 0
    BY <2>2, <2>4, SeqReset
  <2>. QED BY <2>5 DEF a
<1>10. /\ ImageMore(d, p) \in DecState
       /\ ImageMore(d, p).mb = Append(d.mb, p)
       /\ ImageMore(d, p).frag = d.frag /\ ImageMore(d, p).seq = 0
  <2> DEFINE a == Append(d.mb, p)
             x == [d EXCEPT !.mb = a]
  <2>1. a \in Seq(DecPiece)
    BY <1>3
  <2>2. ImageMore(d, p) = [x EXCEPT !.seq = 0]
    BY DEF ImageMore
  <2> HIDE DEF a
  <2>3. x \in DecState /\ x.mb = a /\ x.frag = d.frag
    BY <2>1, MbSet
  <2> HIDE DEF x
  <2>4. /\ ImageMore(d, p) \in DecState
        /\ ImageMore(d, p).mb = a
        /\ ImageMore(d, p).frag = d.frag /\ ImageMore(d, p).seq = 0
    BY <2>2, <2>3, SeqReset
  <2>. QED BY <2>4 DEF a
<1>. QED BY <1>4, <1>5, <1>6, <1>7, <1>8, <1>9, <1>10, Zenon

\* The last of what Rewound leaves with another frag.
LEMMA RewoundFields ==
    ASSUME NEW d \in DecState, NEW b \in BOOLEAN
    PROVE  LET r == [Dec!Rewound(d) EXCEPT !.frag = b]
           IN  /\ r.mb = SubSeq(d.mb, 1, d.start) /\ r.start = d.start
               /\ r.frag = b
               /\ r.seq = d.seq /\ r.key = d.key
BY DEF Dec!Rewound, DecState

\* A piece more: it follows the last one.
LEMMA ChainMore ==
    ASSUME NEW mb, Chain(mb), NEW p \in DecPiece,
           IF mb = <<>> THEN p.s ELSE Dec!Joined(mb[Len(mb)], p)
    PROVE  Chain(Append(mb, p))
<1> DEFINE n == Len(mb)
           r == Append(mb, p)
<1>1. mb \in Seq(DecPiece) /\ n \in Nat /\ (n = 0 <=> mb = <<>>)
  BY DEF Chain
<1>2. r \in Seq(DecPiece) /\ Len(r) = n + 1 /\ (\A i \in 1 .. n : r[i] = mb[i]) /\ r[n + 1] = p
  BY <1>1, OneMore
<1>3. /\ mb # <<>> => mb[1].s
      /\ \A i \in 1 .. n - 1 : Dec!Joined(mb[i], mb[i + 1])
  BY DEF Chain
<1>4. mb # <<>> => Dec!Joined(mb[n], p)
  OBVIOUS
<1> HIDE DEF n, r
<1>5. r[1].s
  <2>1. CASE n = 0
    BY <1>1, <1>2, <2>1
  <2>2. CASE n # 0
    <3>1. 1 \in 1 .. n
      BY <1>1, <2>2
    <3>. QED BY <3>1, <1>1, <1>2, <1>3, <2>2
  <2>. QED BY <2>1, <2>2
<1>6. ASSUME NEW i \in 1 .. n PROVE Dec!Joined(r[i], r[i + 1])
  <2>1. CASE i = n
    <3>1. n # 0 /\ r[i] = mb[n] /\ r[i + 1] = p
      BY <1>1, <1>2, <2>1
    <3>. QED BY <3>1, <1>1, <1>4
  <2>2. CASE i # n
    <3>1. i \in 1 .. n - 1 /\ i + 1 \in 1 .. n
      BY <1>1, <2>2
    <3>2. r[i] = mb[i] /\ r[i + 1] = mb[i + 1]
      BY <3>1, <1>2
    <3>. QED BY <3>1, <3>2, <1>3
  <2>. QED BY <2>1, <2>2
<1>7. Len(r) - 1 = n
  BY <1>1, <1>2
<1>8. \A i \in 1 .. Len(r) - 1 : Dec!Joined(r[i], r[i + 1])
  BY <1>6, <1>7
<1>. QED BY <1>2, <1>5, <1>8 DEF Chain, r

\* A first part.
LEMMA ChainPrefix ==
    ASSUME NEW mb, Chain(mb), NEW k \in 0 .. Len(mb), k > 0 => mb[k].e
    PROVE  Chain(SubSeq(mb, 1, k)) /\ Closed(SubSeq(mb, 1, k))
<1> DEFINE r == SubSeq(mb, 1, k)
<1>1. mb \in Seq(DecPiece) /\ Len(mb) \in Nat
  BY DEF Chain
<1>2. r \in Seq(DecPiece) /\ Len(r) = k /\ \A i \in 1 .. k : r[i] = mb[i]
  BY <1>1, Prefix
<1>3. /\ mb # <<>> => mb[1].s
      /\ \A i \in 1 .. Len(mb) - 1 : Dec!Joined(mb[i], mb[i + 1])
  BY DEF Chain
<1>4. k = 0 <=> r = <<>>
  BY <1>2
<1>5. k > 0 => mb # <<>> /\ 1 \in 1 .. k /\ k \in 1 .. k
  BY <1>1
<1> HIDE DEF r
<1>6. r # <<>> => r[1].s /\ r[Len(r)].e
  BY <1>2, <1>3, <1>4, <1>5
<1>7. ASSUME NEW i \in 1 .. Len(r) - 1 PROVE Dec!Joined(r[i], r[i + 1])
  <2>1. i \in 1 .. k /\ i + 1 \in 1 .. k /\ i \in 1 .. Len(mb) - 1
    BY <1>1, <1>2
  <2>2. r[i] = mb[i] /\ r[i + 1] = mb[i + 1]
    BY <2>1, <1>2
  <2>. QED BY <2>1, <2>2, <1>3
<1>. QED BY <1>2, <1>6, <1>7 DEF Chain, Closed, r

\* One packet more of the frame.
LEMMA GotMore ==
    ASSUME NEW mb \in Seq(DecPiece), NEW p \in DecPiece, NEW n \in Nat, Got(mb, n),
           p.nr = n + 1, n > 0 => p.follows
    PROVE  Got(Append(mb, p), n + 1)
<1> DEFINE l == Len(mb)
           r == Append(mb, p)
<1>1. l \in Nat /\ Len(r) = l + 1 /\ (\A i \in 1 .. l : r[i] = mb[i]) /\ r[l + 1] = p
  BY OneMore
<1>2. l >= n /\ \A i \in 0 .. n - 1 : /\ mb[l - i].nr = n - i
                                      /\ i # n - 1 => mb[l - i].follows
  BY DEF Got
<1> HIDE DEF l, r
<1>3. ASSUME NEW i \in 0 .. n
      PROVE  r[l + 1 - i].nr = n + 1 - i /\ (i # n => r[l + 1 - i].follows)
  <2>1. CASE i = 0
    <3>1. r[l + 1 - i] = p
      BY <1>1, <2>1
    <3>. QED BY <2>1, <3>1
  <2>2. CASE i # 0
    <3> DEFINE j == i - 1
    <3>1. j \in 0 .. n - 1 /\ l + 1 - i = l - j /\ l - j \in 1 .. l /\ n + 1 - i = n - j
          /\ (i # n => j # n - 1)
      BY <1>1, <1>2, <2>2
    <3> HIDE DEF j
    <3>2. r[l - j] = mb[l - j]
      BY <3>1, <1>1
    <3>3. mb[l - j].nr = n - j /\ (j # n - 1 => mb[l - j].follows)
      BY <3>1, <1>2, Zenon
    <3>. QED BY <3>1, <3>2, <3>3
  <2>. QED BY <2>1, <2>2
<1>4. Len(r) >= n + 1 /\ n + 1 - 1 = n /\ Len(r) = l + 1
  BY <1>1, <1>2
<1>5. \A i \in 0 .. n + 1 - 1 : /\ r[Len(r) - i].nr = n + 1 - i
                                /\ i # n + 1 - 1 => r[Len(r) - i].follows
  <2> SUFFICES ASSUME NEW i \in 0 .. n + 1 - 1
               PROVE  /\ r[Len(r) - i].nr = n + 1 - i
                      /\ i # n + 1 - 1 => r[Len(r) - i].follows
    BY Zenon
  <2>1. i \in 0 .. n /\ (i # n + 1 - 1 => i # n) /\ Len(r) - i = l + 1 - i
    <3> DEFINE k == Len(r)
    <3>1. l \in Nat /\ k = l + 1
      BY <1>1
    <3> HIDE DEF k
    <3>2. k - i = l + 1 - i
      BY <3>1
    <3>3. i \in 0 .. n /\ (i # n + 1 - 1 => i # n)
      OBVIOUS
    <3>. QED BY <3>2, <3>3 DEF k
  <2>2. r[l + 1 - i].nr = n + 1 - i /\ (i # n => r[l + 1 - i].follows)
    BY <1>3, <2>1, Zenon
  <2>. QED BY <2>1, <2>2, Zenon
<1>6. Got(r, n + 1)
  BY <1>4, <1>5 DEF Got
<1>. QED BY <1>6 DEF r

\* Whether a packet of H.264 or H.265 has its place in the buffer.
NalFits(d, p, replaces) ==
    /\ p.as = "sent"
    /\ p.s => ~d.frag \/ replaces \/ p.whole
    /\ ~p.s => d.frag /\ d.seq = 1

\* The states of the buffer that NalUnit leaves.
NalBack(d) == [Dec!Rewound(d) EXCEPT !.frag = FALSE]
NalAgain(d) == [Dec!Rewound(d) EXCEPT !.frag = TRUE]
NalWhole(d, p) == NalMore(NalOpen(d, p), p)

\* What NalUnit gives, case by case.
LEMMA NalCases ==
    ASSUME NEW d, NEW p, NEW replaces, NEW waits, NEW r,
           r = Dec!NalUnit(d, p, replaces, waits),
           p.whole => p.s, p.as \in {"sent", "bad", "unknown"}
    PROVE  \/ /\ NalFits(d, p, replaces) /\ p.whole
              /\ r = Dec!Finish(NalWhole(d, p), p, ~waits \/ NalWhole(d, p).key)
           \/ /\ NalFits(d, p, replaces) /\ p.s /\ d.frag
              /\ r = Dec!Finish(NalFrag(NalAgain(d), p), p, p.e)
           \/ /\ NalFits(d, p, replaces) /\ p.s /\ ~d.frag
              /\ r = Dec!Finish(NalFrag(NalBegun(d), p), p,
                                p.e /\ (~waits \/ NalFrag(NalBegun(d), p).key))
           \/ /\ NalFits(d, p, replaces) /\ ~p.s /\ d.frag /\ d.seq = 1
              /\ r = Dec!Finish(NalFrag(d, p), p, p.e /\ (~waits \/ d.key))
           \/ /\ ~NalFits(d, p, replaces) /\ (p.as = "sent" /\ ~p.s => ~d.frag)
              /\ r = Dec!Stays(d)
           \/ ~NalFits(d, p, replaces) /\ d.frag /\ r = Dec!Stays(NalBack(d))
           \/ /\ ~NalFits(d, p, replaces) /\ p.as = "sent" /\ p.s /\ d.frag /\ ~p.whole
              /\ r = Dec!Stays(Dec!Rewound(d))
<1> DEFINE back == Dec!Stays(NalBack(d))
           given == Dec!Finish(NalFrag(NalAgain(d), p), p, p.e)
           whole == Dec!Finish(NalWhole(d, p), p, ~waits \/ NalWhole(d, p).key)
           first == Dec!Finish(NalFrag(NalBegun(d), p), p,
                               p.e /\ (~waits \/ NalFrag(NalBegun(d), p).key))
           next == Dec!Finish(NalFrag(d, p), p, p.e /\ (~waits \/ d.key))
           turned == Dec!Stays(Dec!Rewound(d))
           stays == Dec!Stays(d)
<1>1. r = CASE p.as = "bad" -> stays
            [] p.as = "unknown" -> IF d.frag THEN back ELSE stays
            [] p.as = "sent" /\ p.whole -> whole
            [] p.as = "sent" /\ ~p.whole /\ p.s /\ d.frag -> IF replaces THEN given ELSE turned
            [] p.as = "sent" /\ ~p.whole /\ p.s /\ ~d.frag -> first
            [] p.as = "sent" /\ ~p.whole /\ ~p.s /\ ~d.frag -> stays
            [] p.as = "sent" /\ ~p.whole /\ ~p.s /\ d.frag /\ Dec!Missed(d) -> back
            [] OTHER -> next
  <2>1. Dec!Stays(IF d.frag THEN NalBack(d) ELSE d) = IF d.frag THEN back ELSE stays
    BY Zenon
  <2>2. r = CASE p.as = "bad" -> stays
              [] p.as = "unknown" -> Dec!Stays(IF d.frag THEN NalBack(d) ELSE d)
              [] p.as = "sent" /\ p.whole -> whole
              [] p.as = "sent" /\ ~p.whole /\ p.s /\ d.frag -> IF replaces THEN given ELSE turned
              [] p.as = "sent" /\ ~p.whole /\ p.s /\ ~d.frag -> first
              [] p.as = "sent" /\ ~p.whole /\ ~p.s /\ ~d.frag -> stays
              [] p.as = "sent" /\ ~p.whole /\ ~p.s /\ d.frag /\ Dec!Missed(d) -> back
              [] OTHER -> next
    BY Zenon DEF Dec!NalUnit, NalWhole, NalBack, NalAgain, NalOpen, NalBegun, NalMore, NalFrag
  <2>. QED BY <2>1, <2>2, Zenon
<1> HIDE DEF back, whole, first, next, given, turned, stays
<1>2. \/ NalFits(d, p, replaces) /\ p.whole /\ r = whole
      \/ NalFits(d, p, replaces) /\ p.s /\ d.frag /\ r = given
      \/ NalFits(d, p, replaces) /\ p.s /\ ~d.frag /\ r = first
      \/ NalFits(d, p, replaces) /\ ~p.s /\ d.frag /\ d.seq = 1 /\ r = next
      \/ ~NalFits(d, p, replaces) /\ (p.as = "sent" /\ ~p.s => ~d.frag) /\ r = stays
      \/ ~NalFits(d, p, replaces) /\ d.frag /\ r = back
      \/ /\ ~NalFits(d, p, replaces) /\ p.as = "sent" /\ p.s /\ d.frag /\ ~p.whole
         /\ r = turned
  BY <1>1 DEF NalFits, Dec!Missed
<1>. QED BY <1>2, Zenon DEF back, whole, first, next, given, turned, stays

\* What came of an open unit is thrown away.
LEMMA NalRewinds ==
    ASSUME NEW d, Nal(d), d.frag, NEW y \in {Dec!Rewound(d), NalBack(d), NalAgain(d)}
    PROVE  /\ Nal(y) /\ Closed(y.mb) /\ y.start = Len(y.mb)
           /\ y.seq = d.seq /\ y.key = d.key
           /\ d.start \in 0 .. Len(d.mb) /\ y.mb = SubSeq(d.mb, 1, d.start)
<1> DEFINE k == d.start
           a == SubSeq(d.mb, 1, k)
           w == Dec!Rewound(d)
<1>1. d \in DecState /\ Chain(d.mb) /\ k \in 0 .. Len(d.mb) /\ (k > 0 => d.mb[k].e)
  BY DEF Nal
<1>2. a \in Seq(DecPiece) /\ Len(a) = k
  BY <1>1, Prefix DEF Chain
<1>3. Chain(a) /\ Closed(a)
  BY <1>1, ChainPrefix
<1>4. w = [d EXCEPT !.mb = a]
  BY DEF Dec!Rewound
<1>5. k \in Nat
  BY <1>1
<1> HIDE DEF a, w, k
<1>6. w \in DecState /\ w.mb = a /\ w.start = d.start /\ w.seq = d.seq /\ w.key = d.key
  BY <1>1, <1>2, <1>4, MbSet
<1>7. y = w \/ y = [w EXCEPT !.frag = FALSE] \/ y = [w EXCEPT !.frag = TRUE]
  BY Zenon DEF NalBack, NalAgain, w
<1>8. y \in DecState /\ y.mb = a /\ y.start = k /\ y.seq = d.seq /\ y.key = d.key
  BY <1>6, <1>7, FragSet DEF k
<1>9. y.start \in 0 .. Len(y.mb) /\ y.start = Len(y.mb)
  BY <1>2, <1>5, <1>8
<1>10. y.start > 0 => y.mb[y.start].e
  <2>1. a # <<>> => a[k].e
    BY <1>2, <1>3 DEF Closed
  <2>2. k > 0 => a # <<>>
    BY <1>2
  <2>. QED BY <1>8, <2>1, <2>2
<1>11. ~(y.start < Len(y.mb))
  BY <1>9, <1>2, <1>8, <1>5
<1>12. Nal(y)
  BY <1>3, <1>8, <1>9, <1>10, <1>11, Zenon DEF Nal
<1>. QED BY <1>1, <1>3, <1>8, <1>9, <1>12 DEF a, k

\* The last piece of a buffer with one more.
LEMMA LastIs ==
    ASSUME NEW mb \in Seq(DecPiece), NEW p \in DecPiece
    PROVE  /\ Append(mb, p)[Len(Append(mb, p))] = p /\ Append(mb, p) # <<>>
           /\ Append(mb, p) \in Seq(DecPiece)
           /\ p \in Dec!ToSet(Append(mb, p))
<1> DEFINE r == Append(mb, p)
<1>1. r \in Seq(DecPiece) /\ Len(r) = Len(mb) + 1 /\ r[Len(mb) + 1] = p /\ Len(mb) \in Nat
      /\ r # <<>>
  BY OneMore
<1> HIDE DEF r
<1>2. Len(mb) + 1 \in DOMAIN r /\ r[Len(r)] = p
  BY <1>1
<1>3. p \in Dec!ToSet(r)
  BY <1>1, <1>2 DEF Dec!ToSet
<1>. QED BY <1>1, <1>2, <1>3 DEF r

\* A whole unit more.
LEMMA NalPutWhole ==
    ASSUME NEW d, Nal(d), ~d.frag, NEW p \in DecPiece, p.s, p.e
    PROVE  LET x == NalMore(d, p)
           IN  /\ Nal(x) /\ ~x.frag /\ x.mb = Append(d.mb, p)
               /\ d.key => x.key
               /\ p.key /\ p.s => x.key
<1> DEFINE x == NalMore(d, p)
<1>1. d \in DecState /\ Chain(d.mb) /\ Closed(d.mb) /\ d.mb \in Seq(DecPiece)
  BY DEF Nal, Chain
<1>2. /\ x \in DecState /\ x.mb = Append(d.mb, p) /\ x.frag = d.frag
      /\ x.key = (d.key \/ (p.key /\ p.s))
  BY <1>1, DecFields
<1> HIDE DEF x
<1>3. IF d.mb = <<>> THEN p.s ELSE Dec!Joined(d.mb[Len(d.mb)], p)
  BY <1>1 DEF Closed, Dec!Joined
<1>4. Chain(x.mb)
  BY <1>1, <1>2, <1>3, ChainMore
<1>5. Closed(x.mb)
  BY <1>1, <1>2, LastIs, Zenon DEF Closed
<1>6. Nal(x)
  BY <1>2, <1>4, <1>5 DEF Nal
<1>. QED BY <1>2, <1>6 DEF x

\* The first piece of a unit more.
LEMMA NalPutFirst ==
    ASSUME NEW d \in DecState, Chain(d.mb), Closed(d.mb), d.start = Len(d.mb),
           NEW p \in DecPiece, p.s
    PROVE  LET x == NalFrag(d, p)
           IN  /\ Nal(x) /\ (x.frag <=> ~p.e) /\ x.seq = 0 /\ x.mb = Append(d.mb, p)
               /\ d.key => x.key
               /\ p.key /\ p.s => x.key
<1> DEFINE x == NalFrag(d, p)
           n == Len(d.mb)
<1>1. d.mb \in Seq(DecPiece) /\ n \in Nat
  BY DEF Chain
<1>2. /\ x \in DecState /\ x.mb = Append(d.mb, p) /\ x.start = n /\ x.frag = ~p.e /\ x.seq = 0
      /\ x.key = (d.key \/ (p.key /\ p.s))
  <2> DEFINE s == d.start
  <2>1. /\ x \in DecState /\ x.mb = Append(d.mb, p) /\ x.start = s /\ x.frag = ~p.e /\ x.seq = 0
        /\ x.key = (d.key \/ (p.key /\ p.s))
    BY FragFields, Zenon
  <2>2. s = n
    BY Zenon
  <2> HIDE DEF x, n, s
  <2>. QED BY <2>1, <2>2, Zenon
<1> HIDE DEF x
<1>3. IF d.mb = <<>> THEN p.s ELSE Dec!Joined(d.mb[Len(d.mb)], p)
  BY DEF Closed, Dec!Joined
<1>4. Chain(x.mb)
  BY <1>2, <1>3, ChainMore, Zenon
<1>5. p.e => Closed(x.mb)
  BY <1>1, <1>2, LastIs, Zenon DEF Closed
<1>6. Len(x.mb) = n + 1 /\ (\A i \in 1 .. n : x.mb[i] = d.mb[i]) /\ x.mb[Len(x.mb)] = p
  BY <1>1, <1>2, OneMore, LastIs
<1>7. n > 0 => d.mb[n].e
  BY <1>1 DEF Closed
<1> HIDE DEF n
<1>8. x.start \in 0 .. Len(x.mb) /\ (x.start > 0 => x.mb[x.start].e)
  BY <1>1, <1>2, <1>6, <1>7
<1>9. ~p.e => ~x.mb[Len(x.mb)].e
  BY <1>6
<1>10. Nal(x)
  BY <1>2, <1>4, <1>5, <1>8, <1>9 DEF Nal
<1>. QED BY <1>2, <1>10 DEF x

\* The next piece of a unit more.
LEMMA NalPutNext ==
    ASSUME NEW d, Nal(d), d.frag, NEW p \in DecPiece, ~p.s, d.mb # <<>>,
           Dec!Joined(d.mb[Len(d.mb)], p)
    PROVE  LET x == NalFrag(d, p)
           IN  /\ Nal(x) /\ (x.frag <=> ~p.e) /\ x.seq = 0 /\ x.mb = Append(d.mb, p)
               /\ d.key <=> x.key
<1> DEFINE x == NalFrag(d, p)
           n == Len(d.mb)
<1>1. d \in DecState /\ d.mb \in Seq(DecPiece) /\ n \in Nat /\ Chain(d.mb)
      /\ d.start \in 0 .. n /\ (d.start > 0 => d.mb[d.start].e)
  BY DEF Nal, Chain
<1>2. /\ x \in DecState /\ x.mb = Append(d.mb, p) /\ x.start = d.start /\ x.frag = ~p.e
      /\ x.seq = 0
      /\ x.key = (d.key \/ (p.key /\ p.s))
  BY <1>1, FragFields, Zenon
<1> HIDE DEF x
<1>3. IF d.mb = <<>> THEN p.s ELSE Dec!Joined(d.mb[Len(d.mb)], p)
  BY Zenon
<1>4. Chain(x.mb)
  BY <1>1, <1>2, <1>3, ChainMore, Zenon
<1>5. p.e => Closed(x.mb)
  BY <1>1, <1>2, LastIs, Zenon DEF Closed
<1>6. Len(x.mb) = n + 1 /\ (\A i \in 1 .. n : x.mb[i] = d.mb[i]) /\ x.mb[Len(x.mb)] = p
  BY <1>1, <1>2, OneMore, LastIs
<1> HIDE DEF n
<1>8. x.start \in 0 .. Len(x.mb) /\ (x.start > 0 => x.mb[x.start].e)
  BY <1>1, <1>2, <1>6
<1>9. ~p.e => ~x.mb[Len(x.mb)].e
  BY <1>6
<1>10. Nal(x)
  BY <1>2, <1>4, <1>5, <1>8, <1>9 DEF Nal
<1>11. {d.key, x.key} \subseteq BOOLEAN
  BY <1>1, <1>2 DEF DecState
<1>. QED BY <1>2, <1>10, <1>11 DEF x

\* The state x with p in the buffer, behind m.
NalPut(d, p, x, m) ==
    /\ Nal(x) /\ (x.frag <=> ~p.e)
    /\ x.frag => x.seq = 0
    /\ m \in Seq(DecPiece) /\ x.mb = Append(m, p)
    /\ Dec!Bytes(m) <= Dec!Bytes(d.mb)
    /\ ~d.frag \/ ~p.s => m = d.mb
    /\ d.key => x.key
    /\ p.key /\ p.s => x.key

NalDone(d, p, waits, r) ==
    \E x, m, may :
        /\ NalPut(d, p, x, m) /\ r = Dec!Finish(x, p, may)
        /\ may => p.e
        /\ p.e /\ (~waits \/ x.key) => may

\* A packet that fits is put into the buffer.
LEMMA NalPuts ==
    ASSUME NEW d, Nal(d), NEW p \in DecPiece, NEW replaces, NEW waits, NEW r,
           r = Dec!NalUnit(d, p, replaces, waits), NalFits(d, p, replaces),
           p.whole => p.s /\ p.e,
           d.frag /\ d.seq = 1 => d.mb # <<>> /\ Dec!Joined(d.mb[Len(d.mb)], p)
    PROVE  NalDone(d, p, waits, r)
<1>1. d \in DecState /\ d.mb \in Seq(DecPiece) /\ Chain(d.mb) /\ (~d.frag => Closed(d.mb))
  BY DEF Nal, Chain
<1>2. p.as \in {"sent", "bad", "unknown"} /\ {p.s, p.e, p.key, p.whole} \subseteq BOOLEAN
  BY DEF DecPiece, Dec!Piece
<1>3. Dec!Bytes(d.mb) \in Nat
  BY <1>1, BytesMore
<1>4. ASSUME d.frag, NEW y \in {NalBack(d), NalAgain(d)}
      PROVE  y.mb \in Seq(DecPiece) /\ Dec!Bytes(y.mb) <= Dec!Bytes(d.mb)
  <2>1. d.start \in 0 .. Len(d.mb) /\ y.mb = SubSeq(d.mb, 1, d.start)
    BY <1>4, NalRewinds, Zenon
  <2>. QED BY <1>1, <2>1, BytesPrefix, Prefix, Zenon
<1>5. ASSUME d.frag
      PROVE  /\ ~NalBack(d).frag /\ NalBack(d).key = d.key
             /\ NalAgain(d).key = d.key
  BY <1>1, RewoundFields DEF NalBack, NalAgain
<1>6. ASSUME NEW x, NEW y, Nal(x), x.frag <=> ~p.e, x.frag => x.seq = 0, x.mb = Append(y.mb, p),
             y.mb \in Seq(DecPiece), Dec!Bytes(y.mb) <= Dec!Bytes(d.mb),
             ~d.frag \/ ~p.s => y.mb = d.mb, d.key => x.key, p.key /\ p.s => x.key
      PROVE  NalPut(d, p, x, y.mb)
  BY <1>6, Zenon DEF NalPut
<1>7. CASE p.whole /\ r = Dec!Finish(NalWhole(d, p), p, ~waits \/ NalWhole(d, p).key)
  <2> DEFINE y == NalOpen(d, p)
             x == NalWhole(d, p)
  <2>1. Nal(y) /\ ~y.frag /\ y.key = d.key /\ y.mb \in Seq(DecPiece)
        /\ Dec!Bytes(y.mb) <= Dec!Bytes(d.mb) /\ (~d.frag => y = d)
    <3>1. CASE d.frag
      <4>1. y = NalBack(d)
        BY <1>7, <3>1, Zenon DEF NalOpen, NalBack
      <4>2. Nal(NalBack(d))
        BY <3>1, NalRewinds, Zenon
      <4>. QED BY <1>4, <1>5, <3>1, <4>1, <4>2, Zenon
    <3>2. CASE ~d.frag
      <4>1. y = d
        BY <3>2, Zenon DEF NalOpen
      <4>2. Dec!Bytes(d.mb) <= Dec!Bytes(d.mb)
        BY <1>3
      <4>. QED BY <1>1, <3>2, <4>1, <4>2, Zenon
    <3>. QED BY <3>1, <3>2
  <2>2. p.s /\ p.e /\ x = NalMore(y, p)
    BY <1>7, Zenon DEF NalWhole
  <2>3. /\ Nal(x) /\ ~x.frag /\ x.mb = Append(y.mb, p)
        /\ y.key => x.key
        /\ p.key /\ p.s => x.key
    BY <2>1, <2>2, NalPutWhole, Zenon
  <2>4. NalPut(d, p, x, y.mb)
    BY <1>6, <2>1, <2>2, <2>3, Zenon
  <2>. QED BY <1>7, <2>2, <2>4, Zenon DEF NalDone
<1>8. CASE p.s /\ d.frag /\ r = Dec!Finish(NalFrag(NalAgain(d), p), p, p.e)
  <2> DEFINE y == NalAgain(d)
             x == NalFrag(y, p)
  <2>1. Nal(y) /\ Closed(y.mb) /\ y.start = Len(y.mb) /\ y.key = d.key
    BY <1>5, <1>8, NalRewinds, Zenon
  <2>2. y \in DecState /\ Chain(y.mb)
    BY <2>1, Zenon DEF Nal
  <2>3. /\ Nal(x) /\ (x.frag <=> ~p.e) /\ x.seq = 0 /\ x.mb = Append(y.mb, p)
        /\ y.key => x.key
        /\ p.key /\ p.s => x.key
    BY <1>8, <2>1, <2>2, NalPutFirst, Zenon
  <2>4. NalPut(d, p, x, y.mb)
    BY <1>4, <1>6, <1>8, <2>1, <2>3, Zenon
  <2> DEFINE may == p.e
  <2>5. /\ r = Dec!Finish(x, p, may)
        /\ may => p.e
        /\ p.e /\ (~waits \/ x.key) => may
    BY <1>8, Zenon
  <2> HIDE DEF may, x, y
  <2>. QED BY <2>4, <2>5, Zenon DEF NalDone
<1>9. CASE p.s /\ ~d.frag /\ r = Dec!Finish(NalFrag(NalBegun(d), p), p,
                                           p.e /\ (~waits \/ NalFrag(NalBegun(d), p).key))
  <2> DEFINE y == NalBegun(d)
             x == NalFrag(y, p)
  <2>1. y \in DecState /\ y.mb = d.mb /\ y.start = Len(d.mb) /\ y.key = d.key
    BY <1>1, DecFields, Zenon
  <2>2. y \in DecState /\ Chain(y.mb) /\ Closed(y.mb) /\ y.start = Len(y.mb)
    BY <1>1, <1>9, <2>1, Zenon
  <2>3. /\ Nal(x) /\ (x.frag <=> ~p.e) /\ x.seq = 0 /\ x.mb = Append(y.mb, p)
        /\ y.key => x.key
        /\ p.key /\ p.s => x.key
    BY <1>9, <2>2, NalPutFirst, Zenon
  <2>4. Dec!Bytes(d.mb) <= Dec!Bytes(d.mb)
    BY <1>3
  <2>5. NalPut(d, p, x, y.mb)
    BY <1>1, <1>6, <2>1, <2>3, <2>4, Zenon
  <2>. QED BY <1>9, <2>5, Zenon DEF NalDone
<1>10. CASE /\ ~p.s /\ d.frag /\ d.seq = 1
            /\ r = Dec!Finish(NalFrag(d, p), p, p.e /\ (~waits \/ d.key))
  <2> DEFINE x == NalFrag(d, p)
  <2>1. /\ Nal(x) /\ (x.frag <=> ~p.e) /\ x.seq = 0 /\ x.mb = Append(d.mb, p)
        /\ d.key <=> x.key
    BY <1>10, NalPutNext, Zenon
  <2>2. Dec!Bytes(d.mb) <= Dec!Bytes(d.mb)
    BY <1>3
  <2>3. NalPut(d, p, x, d.mb)
    BY <1>1, <1>6, <1>10, <2>1, <2>2, Zenon
  <2>. QED BY <1>10, <2>1, <2>3, Zenon DEF NalDone
<1>. QED BY <1>2, <1>7, <1>8, <1>9, <1>10, NalCases, Zenon

\* A packet that does not leaves the state, or throws away what came of an open unit.
LEMMA NalStays ==
    ASSUME NEW d, Nal(d), NEW p \in DecPiece, NEW replaces, NEW waits, NEW r,
           r = Dec!NalUnit(d, p, replaces, waits), ~NalFits(d, p, replaces),
           p.whole => p.s /\ p.e
    PROVE  \E y :
              /\ r = Dec!Stays(y) /\ Nal(y) /\ y.seq = d.seq
              /\ p.as = "sent" /\ ~p.s => ~y.frag
<1>1. p.as \in {"sent", "bad", "unknown"} /\ d \in DecState
  BY DEF DecPiece, Dec!Piece, Nal
<1>2. CASE (p.as = "sent" /\ ~p.s => ~d.frag) /\ r = Dec!Stays(d)
  BY <1>2, Zenon
<1>3. CASE d.frag /\ r = Dec!Stays(NalBack(d))
  <2>1. Nal(NalBack(d)) /\ NalBack(d).seq = d.seq
    BY <1>3, NalRewinds, Zenon
  <2>2. ~NalBack(d).frag
    BY <1>1, RewoundFields DEF NalBack
  <2>. QED BY <1>3, <2>1, <2>2, Zenon
<1>4. CASE p.s /\ d.frag /\ r = Dec!Stays(Dec!Rewound(d))
  <2>1. Nal(Dec!Rewound(d)) /\ Dec!Rewound(d).seq = d.seq
    BY <1>4, NalRewinds, Zenon
  <2>. QED BY <1>4, <2>1, Zenon
<1>. QED BY <1>1, <1>2, <1>3, <1>4, NalCases, Zenon

\* The end of a handler.
Finished(x, p, may, r) ==
    /\ p.mark => r.dec = Dec!Cleared(x) /\ (may => r.fed = x.mb) /\ (~may => r.fed = <<>>)
    /\ ~p.mark => /\ r.fed = <<>> /\ (r.dec = x \/ r.dec = Dec!Cleared(x))
                  /\ ~(Dec!Bytes(x.mb) > MaxSize) => r.dec = x

\* Finish ends a handler so.
LEMMA FinishGives ==
    ASSUME NEW x, NEW p, NEW may, NEW r, r = Dec!Finish(x, p, may)
    PROVE  Finished(x, p, may, r)
<1> DEFINE c == Dec!Cleared(x)
           large == Dec!Bytes(x.mb) > MaxSize
           b == x.mb
<1>1. r = IF ~p.mark THEN [dec |-> IF large THEN c ELSE x, fed |-> <<>>]
          ELSE [dec |-> c, fed |-> IF may THEN b ELSE <<>>]
  BY Zenon DEF Dec!Finish, Dec!Stays
<1> HIDE DEF c, large, b
<1>2. \A u, v : [dec |-> u, fed |-> v].dec = u /\ [dec |-> u, fed |-> v].fed = v
  OBVIOUS
<1>3. CASE p.mark
  <2>1. r = [dec |-> c, fed |-> IF may THEN b ELSE <<>>]
    BY <1>1, <1>3, Zenon
  <2>2. r.dec = c /\ r.fed = IF may THEN b ELSE <<>>
    BY <1>2, <2>1, Zenon
  <2>. QED BY <1>3, <2>2, Zenon DEF b, c, Finished
<1>4. CASE ~p.mark
  <2>0. r = [dec |-> IF large THEN c ELSE x, fed |-> <<>>]
    BY <1>1, <1>4, Zenon
  <2>1. r.dec = (IF large THEN c ELSE x) /\ r.fed = <<>>
    BY <1>2, <2>0, Zenon
  <2>. QED BY <1>4, <2>1, Zenon DEF c, large, Finished
<1>. QED BY <1>3, <1>4, Zenon

\* The buffer b is one of before and p: that of d, if p does not begin it anew.
Puts(d, p, anew, b) ==
    \E m \in Seq(DecPiece) : b = Append(m, p) /\ (~anew => m = d.mb)

\* What became of the state d and the packet p: it was put if it fits, and given to the decoder
\* if it may.
After(d, p, fits, anew, may, r) ==
    /\ r.dec \in DecState /\ Chain(r.fed)
    /\ p.e => Closed(r.fed)
    /\ r.fed # <<>> => p.mark
    /\ r.dec.frag /\ r.dec.seq = 0 =>
          /\ r.dec.mb # <<>> /\ r.dec.mb[Len(r.dec.mb)] = p /\ p \in Dec!ToSet(r.dec.mb)
          /\ ~p.mark
    /\ fits /\ p.mark /\ may => Puts(d, p, anew, r.fed)
    /\ fits /\ ~p.mark /\ Dec!Bytes(d.mb) + p.to - p.from < MaxSize =>
          /\ Puts(d, p, anew, r.dec.mb) /\ p \in Dec!ToSet(r.dec.mb)
          /\ r.dec.mb # <<>> /\ r.dec.mb[Len(r.dec.mb)] = p
          /\ r.dec.frag => r.dec.seq = 0

\* And of H.264 and H.265.
NalAfter(d, p, fits, r) ==
    /\ Nal(r.dec)
    /\ r.dec.frag /\ r.dec.seq = 0 => ~p.e
    /\ fits /\ p.mark => ~r.dec.frag
    /\ ~fits /\ p.as = "sent" /\ ~p.s => ~r.dec.frag
    /\ fits /\ ~p.mark /\ Dec!Bytes(d.mb) + p.to - p.from < MaxSize =>
          /\ r.dec.frag <=> ~p.e
          /\ d.key => r.dec.key
          /\ p.key /\ p.s => r.dec.key

\* An empty buffer.
LEMMA EmptyChain ==
    /\ Chain(<<>>) /\ Closed(<<>>) /\ OneImage(<<>>) /\ <<>> \in Seq(DecPiece)
<1>1. <<>> \in Seq(DecPiece) /\ Len(<<>>) = 0 /\ 1 .. 0 - 1 = {} /\ 2 .. 0 = {}
  OBVIOUS
<1>. QED BY <1>1 DEF Chain, Closed, OneImage

\* A buffer that is given up.
LEMMA ClearedNal ==
    ASSUME NEW x, x \in DecState
    PROVE  Nal(Dec!Cleared(x)) /\ ~Dec!Cleared(x).frag /\ Dec!Cleared(x) \in DecState
           /\ Dec!Cleared(x).mb = <<>>
<1> DEFINE y == Dec!Cleared(x)
           a == <<>>
           z == [x EXCEPT !.mb = a]
<1>1. y = [z EXCEPT !.frag = FALSE]
  BY DEF Dec!Cleared
<1>2. a \in Seq(DecPiece)
  OBVIOUS
<1> HIDE DEF a, y
<1>3. z \in DecState /\ z.mb = a
  BY <1>2, MbSet
<1> HIDE DEF z
<1>4. y \in DecState /\ y.mb = a /\ y.frag = FALSE
  BY <1>1, <1>3, FragSet
<1>5. Nal(y)
  BY <1>4, EmptyChain DEF Nal, a
<1>. QED BY <1>4, <1>5 DEF y, a

\* One packet more is of so many bytes more.
LEMMA Room ==
    ASSUME NEW m \in Seq(DecPiece), NEW s \in Seq(DecPiece), NEW p \in DecPiece,
           Dec!Bytes(m) <= Dec!Bytes(s), Dec!Bytes(s) + p.to - p.from < MaxSize
    PROVE  ~(Dec!Bytes(Append(m, p)) > MaxSize)
<1>1. Dec!Bytes(m) \in Nat /\ Dec!Bytes(s) \in Nat
      /\ Dec!Bytes(Append(m, p)) = Dec!Bytes(m) + (p.to - p.from + 1)
  BY BytesMore
<1>2. p.to \in Nat /\ p.from \in Nat
  BY DEF DecPiece, Dec!Piece
<1>3. MaxSize \in Nat
  BY PartsAssumption, Zenon DEF Dec!VideoDecodersAssumption
<1>. QED BY <1>1, <1>2, <1>3

\* NalUnit with a packet that fits.
LEMMA NalIsPut ==
    ASSUME NEW d \in DecState, NEW p \in DecPiece, NEW fits, fits, NEW anew, anew <=> d.frag /\ p.s,
           NEW waits, NEW r, NalDone(d, p, waits, r), NEW may,
           may => p.e /\ (~waits \/ d.key \/ (p.key /\ p.s))
    PROVE  After(d, p, fits, anew, may, r) /\ NalAfter(d, p, fits, r)
<1>1. PICK x, m, given :
        /\ NalPut(d, p, x, m) /\ r = Dec!Finish(x, p, given)
        /\ given => p.e
        /\ p.e /\ (~waits \/ x.key) => given
  BY Zenon DEF NalDone
<1>2. /\ Nal(x) /\ (x.frag <=> ~p.e)
      /\ x.frag => x.seq = 0
      /\ m \in Seq(DecPiece) /\ x.mb = Append(m, p)
      /\ Dec!Bytes(m) <= Dec!Bytes(d.mb)
      /\ ~d.frag \/ ~p.s => m = d.mb
      /\ d.key => x.key
      /\ p.key /\ p.s => x.key
  BY <1>1, Zenon DEF NalPut
<1>3. x \in DecState /\ Chain(x.mb) /\ (p.e => Closed(x.mb)) /\ d.mb \in Seq(DecPiece)
  BY <1>2, Zenon DEF Nal, DecState
<1>4. x.mb # <<>> /\ x.mb[Len(x.mb)] = p /\ p \in Dec!ToSet(x.mb)
  BY <1>2, LastIs, Zenon
<1>5. Puts(d, p, anew, x.mb)
  BY <1>2, Zenon DEF Puts
<1>6. Nal(Dec!Cleared(x)) /\ ~Dec!Cleared(x).frag /\ Dec!Cleared(x) \in DecState
  BY <1>3, ClearedNal, Zenon
<1>7. Chain(<<>>) /\ Closed(<<>>)
  BY EmptyChain, Zenon
<1>8. CASE p.mark
  <2>1. /\ r.dec = Dec!Cleared(x)
        /\ given => r.fed = x.mb
        /\ ~given => r.fed = <<>>
    <3>1. r = Dec!Finish(x, p, given)
      BY <1>1, Zenon
    <3>2. Finished(x, p, given, r)
      BY <3>1, FinishGives, Zenon
    <3>. QED BY <3>2, <1>8, Zenon DEF Finished
  <2>2. may => given
    BY <1>1, <1>2, Zenon
  <2>3. Chain(r.fed) /\ (p.e => Closed(r.fed))
    BY <1>3, <1>7, <2>1, Zenon
  <2>4. may => Puts(d, p, anew, r.fed)
    BY <1>5, <2>1, <2>2, Zenon
  <2>5. r.dec \in DecState /\ Nal(r.dec) /\ ~r.dec.frag
    BY <1>6, <2>1, Zenon
  <2>. QED BY <1>8, <2>3, <2>4, <2>5, Zenon DEF After, NalAfter
<1>9. CASE ~p.mark
  <2>1. /\ r.fed = <<>> /\ (r.dec = x \/ r.dec = Dec!Cleared(x))
        /\ ~(Dec!Bytes(x.mb) > MaxSize) => r.dec = x
    <3>1. r = Dec!Finish(x, p, given)
      BY <1>1, Zenon
    <3>2. Finished(x, p, given, r)
      BY <3>1, FinishGives, Zenon
    <3>. QED BY <3>2, <1>9, Zenon DEF Finished
  <2>2. Dec!Bytes(d.mb) + p.to - p.from < MaxSize => r.dec = x
    BY <1>2, <1>3, <2>1, Room, Zenon
  <2>3. r.dec \in DecState /\ Nal(r.dec)
    BY <1>2, <1>3, <1>6, <2>1, Zenon
  <2>4. r.dec.frag => r.dec = x
    BY <1>6, <2>1, Zenon
  <2>5. After(d, p, fits, anew, may, r)
    BY <1>2, <1>4, <1>5, <1>7, <1>9, <2>1, <2>2, <2>3, <2>4, Zenon DEF After
  <2>6. NalAfter(d, p, fits, r)
    BY <1>2, <1>9, <2>2, <2>3, <2>4, Zenon DEF NalAfter
  <2>. QED BY <2>5, <2>6
<1>. QED BY <1>8, <1>9

\* NalUnit: what becomes of a state and a packet.
LEMMA NalResult ==
    ASSUME NEW d, Nal(d), d.seq # 0, NEW p \in DecPiece, p.whole => p.s /\ p.e,
           d.frag /\ d.seq = 1 => d.mb # <<>> /\ Dec!Joined(d.mb[Len(d.mb)], p),
           NEW replaces, NEW waits, NEW r, r = Dec!NalUnit(d, p, replaces, waits),
           NEW anew, anew <=> d.frag /\ p.s,
           NEW may, may => p.e /\ (~waits \/ d.key \/ (p.key /\ p.s))
    PROVE  /\ After(d, p, NalFits(d, p, replaces), anew, may, r)
           /\ NalAfter(d, p, NalFits(d, p, replaces), r)
<1> DEFINE fits == NalFits(d, p, replaces)
<1>1. d \in DecState
  BY DEF Nal
<1>2. CASE fits
  <2>1. NalDone(d, p, waits, r)
    BY <1>2, NalPuts, Zenon
  <2> HIDE DEF fits
  <2>2. After(d, p, fits, anew, may, r) /\ NalAfter(d, p, fits, r)
    BY <1>1, <1>2, <2>1, NalIsPut, Zenon
  <2>. QED BY <2>2 DEF fits
<1>3. CASE ~fits
  <2>1. PICK y :
          /\ r = Dec!Stays(y) /\ Nal(y) /\ y.seq = d.seq
          /\ p.as = "sent" /\ ~p.s => ~y.frag
    <3>1. \E y :
            /\ r = Dec!Stays(y) /\ Nal(y) /\ y.seq = d.seq
            /\ p.as = "sent" /\ ~p.s => ~y.frag
      BY <1>3, NalStays
    <3>. QED BY <3>1, Zenon
  <2>2. r.dec = y /\ r.fed = <<>>
    BY <2>1 DEF Dec!Stays
  <2>3. y \in DecState
    BY <2>1, Zenon DEF Nal
  <2> HIDE DEF fits
  <2>4. After(d, p, fits, anew, may, r)
    BY <1>3, <2>1, <2>2, <2>3, EmptyChain, Zenon DEF After
  <2>5. NalAfter(d, p, fits, r)
    BY <1>3, <2>1, <2>2, <2>3, Zenon DEF NalAfter
  <2>. QED BY <2>4, <2>5 DEF fits
<1>. QED BY <1>2, <1>3

\* Whether a packet of VP8, VP9 and AV1 has its place in the buffer.
ImageFits(d, p, first) == p.as = "sent" /\ (first \/ (d.frag /\ d.seq = 1))

\* What Image gives, case by case.
LEMMA ImageCases ==
    ASSUME NEW d, NEW p, NEW first, NEW r, r = Dec!Image(d, p, first)
    PROVE  \/ ImageFits(d, p, first) /\ first /\ r = Dec!Finish(ImageBegun(d, p), p, TRUE)
           \/ /\ ImageFits(d, p, first) /\ ~first /\ d.frag /\ d.seq = 1
              /\ r = Dec!Finish(ImageMore(d, p), p, TRUE)
           \/ ~ImageFits(d, p, first) /\ r = Dec!Stays(d)
           \/ ~ImageFits(d, p, first) /\ r = Dec!Stays(Dec!Cleared(d))
<1> DEFINE begun == Dec!Finish(ImageBegun(d, p), p, TRUE)
           more == Dec!Finish(ImageMore(d, p), p, TRUE)
           stays == Dec!Stays(d)
           cleared == Dec!Stays(Dec!Cleared(d))
<1>1. r = CASE p.as # "sent" -> stays
            [] p.as = "sent" /\ first -> begun
            [] p.as = "sent" /\ ~first /\ ~d.frag -> stays
            [] p.as = "sent" /\ ~first /\ d.frag /\ Dec!Missed(d) -> cleared
            [] OTHER -> more
  BY Zenon DEF Dec!Image, ImageBegun, ImageMore
<1> HIDE DEF begun, more, stays, cleared
<1>2. \/ ImageFits(d, p, first) /\ first /\ r = begun
      \/ ImageFits(d, p, first) /\ ~first /\ d.frag /\ d.seq = 1 /\ r = more
      \/ ~ImageFits(d, p, first) /\ r = stays
      \/ ~ImageFits(d, p, first) /\ r = cleared
  BY <1>1 DEF ImageFits, Dec!Missed
<1>. QED BY <1>2, Zenon DEF begun, more, stays, cleared

\* One packet of an image more.
LEMMA ImageOneMore ==
    ASSUME NEW mb \in Seq(DecPiece), OneImage(mb), NEW p \in DecPiece,
           IF mb = <<>> THEN p.unit = 1 ELSE p.follows
    PROVE  OneImage(Append(mb, p))
<1> DEFINE n == Len(mb)
           r == Append(mb, p)
<1>1. n \in Nat /\ Len(r) = n + 1 /\ (\A i \in 1 .. n : r[i] = mb[i]) /\ r[n + 1] = p
      /\ (n = 0 <=> mb = <<>>)
  BY OneMore
<1>2. (mb # <<>> => mb[1].unit = 1) /\ \A i \in 2 .. n : mb[i].follows
  BY DEF OneImage
<1> HIDE DEF n, r
<1>3. r[1].unit = 1
  <2>1. CASE n = 0
    BY <1>1, <2>1
  <2>2. CASE n # 0
    <3>1. 1 \in 1 .. n
      BY <1>1, <2>2
    <3>. QED BY <3>1, <1>1, <1>2, <2>2
  <2>. QED BY <2>1, <2>2
<1>4. ASSUME NEW i \in 2 .. n + 1 PROVE r[i].follows
  <2>1. CASE i = n + 1
    <3>1. n # 0 /\ r[i] = p
      BY <1>1, <2>1
    <3>. QED BY <3>1, <1>1
  <2>2. CASE i # n + 1
    <3>1. i \in 2 .. n /\ i \in 1 .. n
      BY <1>1, <2>2
    <3>2. mb[i].follows /\ r[i] = mb[i]
      BY <1>1, <1>2, <3>1
    <3>. QED BY <3>2
  <2>. QED BY <2>1, <2>2
<1>5. OneImage(r)
  BY <1>1, <1>3, <1>4 DEF OneImage
<1>. QED BY <1>5 DEF r

\* Image with a packet that fits.
LEMMA ImageIsPut ==
    ASSUME NEW d, Img(d), NEW p \in DecPiece, NEW first, NEW x, NEW m \in Seq(DecPiece),
           x \in DecState, x.mb = Append(m, p), Chain(x.mb), OneImage(x.mb), x.frag, x.seq = 0,
           ~first => m = d.mb, Dec!Bytes(m) <= Dec!Bytes(d.mb),
           NEW fits, fits, NEW may, may, NEW r, r = Dec!Finish(x, p, may)
    PROVE  /\ After(d, p, fits, first, may, r)
           /\ Img(r.dec) /\ OneImage(r.fed)
           /\ fits /\ ~p.mark /\ Dec!Bytes(d.mb) + p.to - p.from < MaxSize => r.dec.frag
<1>1. d.mb \in Seq(DecPiece)
  BY DEF Img, Chain
<1>2. x.mb # <<>> /\ x.mb[Len(x.mb)] = p /\ p \in Dec!ToSet(x.mb)
  BY LastIs, Zenon
<1>3. p.e => Closed(x.mb)
  BY <1>2, Zenon DEF Closed
<1>4. Puts(d, p, first, x.mb)
  BY Zenon DEF Puts
<1>5. ~Dec!Cleared(x).frag /\ Dec!Cleared(x) \in DecState /\ Dec!Cleared(x).mb = <<>>
  BY ClearedNal, Zenon
<1>6. Img(x) /\ Img(Dec!Cleared(x))
  BY <1>5, EmptyChain, Zenon DEF Img
<1>7. CASE p.mark
  <2>1. r.dec = Dec!Cleared(x) /\ r.fed = x.mb
    <3>1. Finished(x, p, may, r)
      BY FinishGives, Zenon
    <3>. QED BY <3>1, <1>7, Zenon DEF Finished
  <2>. QED BY <1>3, <1>4, <1>5, <1>6, <1>7, <2>1, Zenon DEF After
<1>8. CASE ~p.mark
  <2>1. /\ r.fed = <<>> /\ (r.dec = x \/ r.dec = Dec!Cleared(x))
        /\ ~(Dec!Bytes(x.mb) > MaxSize) => r.dec = x
    <3>1. Finished(x, p, may, r)
      BY FinishGives, Zenon
    <3>. QED BY <3>1, <1>8, Zenon DEF Finished
  <2>2. Dec!Bytes(d.mb) + p.to - p.from < MaxSize => r.dec = x
    BY <1>1, <2>1, Room, Zenon
  <2>3. r.dec.frag => r.dec = x
    BY <1>5, <2>1, Zenon
  <2>4. After(d, p, fits, first, may, r)
    BY <1>2, <1>4, <1>5, <1>8, <2>1, <2>2, <2>3, EmptyChain, Zenon DEF After
  <2>. QED BY <1>6, <2>1, <2>2, <2>4, EmptyChain, Zenon
<1>. QED BY <1>7, <1>8

\* Image: what becomes of a state and a packet.
LEMMA ImageResult ==
    ASSUME NEW d, Img(d), d.seq # 0, NEW p \in DecPiece, NEW first, first => p.s /\ p.unit = 1,
           d.frag /\ d.seq = 1 =>
              d.mb # <<>> /\ Dec!Joined(d.mb[Len(d.mb)], p) /\ p.follows,
           NEW r, r = Dec!Image(d, p, first)
    PROVE  /\ After(d, p, ImageFits(d, p, first), first, TRUE, r)
           /\ Img(r.dec) /\ OneImage(r.fed)
           /\ ImageFits(d, p, first) /\ ~p.mark /\ Dec!Bytes(d.mb) + p.to - p.from < MaxSize
                 => r.dec.frag
<1> DEFINE fits == ImageFits(d, p, first)
<1>1. d \in DecState /\ d.mb \in Seq(DecPiece) /\ Chain(d.mb) /\ OneImage(d.mb)
  BY DEF Img, Chain
<1>2. Dec!Bytes(d.mb) \in Nat
  BY <1>1, BytesMore
<1>3. CASE fits /\ first /\ r = Dec!Finish(ImageBegun(d, p), p, TRUE)
  <2> DEFINE x == ImageBegun(d, p)
             m == <<>>
  <2>1. x \in DecState /\ x.mb = <<p>> /\ x.frag /\ x.seq = 0
    BY <1>1, DecFields, Zenon
  <2>2. m \in Seq(DecPiece) /\ <<p>> = Append(m, p)
    OBVIOUS
  <2>3. SubSeq(d.mb, 1, 0) = m /\ 0 \in 0 .. Len(d.mb)
    BY <1>1
  <2>4. Dec!Bytes(m) <= Dec!Bytes(d.mb)
    BY <1>1, <2>3, BytesPrefix, Zenon
  <2>5. Chain(m) /\ OneImage(m)
    BY EmptyChain
  <2> HIDE DEF x
  <2>6. Chain(x.mb) /\ OneImage(x.mb)
    <3>1. p.s /\ p.unit = 1
      BY <1>3
    <3>. QED BY <2>1, <2>2, <2>5, <3>1, ChainMore, ImageOneMore
  <2> HIDE DEF m, fits
  <2>7. x.mb = Append(m, p)
    BY <2>1, <2>2
  <2>8. r = Dec!Finish(x, p, TRUE) /\ fits /\ first
    BY <1>3, Zenon DEF x
  <2>9. /\ After(d, p, fits, first, TRUE, r)
        /\ Img(r.dec) /\ OneImage(r.fed)
        /\ fits /\ ~p.mark /\ Dec!Bytes(d.mb) + p.to - p.from < MaxSize => r.dec.frag
    BY <2>1, <2>2, <2>4, <2>6, <2>7, <2>8, ImageIsPut, Zenon
  <2>. QED BY <2>9, Zenon DEF fits
<1>4. CASE fits /\ ~first /\ d.frag /\ d.seq = 1 /\ r = Dec!Finish(ImageMore(d, p), p, TRUE)
  <2> DEFINE x == ImageMore(d, p)
             m == d.mb
  <2>1. x \in DecState /\ x.mb = Append(m, p) /\ x.frag /\ x.seq = 0
    <3>1. x \in DecState /\ x.mb = Append(m, p) /\ x.frag = d.frag /\ x.seq = 0
      BY <1>1, DecFields, Zenon
    <3> HIDE DEF x
    <3>. QED BY <1>4, <3>1
  <2>2. Dec!Bytes(m) <= Dec!Bytes(d.mb)
    BY <1>2
  <2>3. m # <<>> /\ Dec!Joined(m[Len(m)], p) /\ p.follows
    BY <1>4
  <2> HIDE DEF x
  <2>4. Chain(x.mb) /\ OneImage(x.mb)
    BY <1>1, <2>1, <2>3, ChainMore, ImageOneMore
  <2> HIDE DEF fits
  <2>5. r = Dec!Finish(x, p, TRUE) /\ fits /\ ~first
    BY <1>4, Zenon DEF x
  <2>6. /\ After(d, p, fits, first, TRUE, r)
        /\ Img(r.dec) /\ OneImage(r.fed)
        /\ fits /\ ~p.mark /\ Dec!Bytes(d.mb) + p.to - p.from < MaxSize => r.dec.frag
    BY <1>1, <2>1, <2>2, <2>4, <2>5, ImageIsPut, Zenon
  <2>. QED BY <2>6, Zenon DEF fits
<1>5. ASSUME NEW y, ~fits, r = Dec!Stays(y), Img(y), y.frag => y.seq # 0
      PROVE  /\ After(d, p, fits, first, TRUE, r)
             /\ Img(r.dec) /\ OneImage(r.fed)
  <2>1. r.dec = y /\ r.fed = <<>>
    BY <1>5 DEF Dec!Stays
  <2>2. y \in DecState
    BY <1>5, Zenon DEF Img
  <2> HIDE DEF fits
  <2>3. After(d, p, fits, first, TRUE, r)
    BY <1>5, <2>1, <2>2, EmptyChain, Zenon DEF After
  <2>. QED BY <1>5, <2>1, <2>3, EmptyChain, Zenon
<1>6. CASE ~fits /\ r = Dec!Stays(d)
  BY <1>5, <1>6, Zenon
<1>7. CASE ~fits /\ r = Dec!Stays(Dec!Cleared(d))
  <2>1. Img(Dec!Cleared(d)) /\ ~Dec!Cleared(d).frag
    BY <1>1, ClearedNal, EmptyChain, Zenon DEF Img
  <2>. QED BY <1>5, <1>7, <2>1, Zenon
<1>8. \/ fits /\ first /\ r = Dec!Finish(ImageBegun(d, p), p, TRUE)
      \/ fits /\ ~first /\ d.frag /\ d.seq = 1 /\ r = Dec!Finish(ImageMore(d, p), p, TRUE)
      \/ ~fits /\ r = Dec!Stays(d)
      \/ ~fits /\ r = Dec!Stays(Dec!Cleared(d))
  BY ImageCases, Zenon
<1>9. CASE ~fits /\ (r = Dec!Stays(d) \/ r = Dec!Stays(Dec!Cleared(d)))
  BY <1>6, <1>7, <1>9, Zenon
<1> HIDE DEF fits
<1>. QED BY <1>3, <1>4, <1>8, <1>9, Zenon DEF fits

\* The packets of a frame as they are cut.
LEMMA CutIsLinked ==
    ASSUME NEW lens, NEW q, CutFrame(q, lens), MarkedEnd(q)
    PROVE  Linked(q, 1)
<1>1. /\ q[1].unit = 1 /\ q[1].s /\ q[Len(q)].e
      /\ \A i \in 1 .. Len(q) - 1 :
            IF q[i].e
            THEN q[i + 1].s
            ELSE q[i + 1].unit = q[i].unit /\ q[i + 1].from = q[i].to + 1 /\ ~q[i + 1].s
      /\ \A i \in 1 .. Len(q) : q[i].unit = 1 /\ q[i].s => i = 1
  BY Zenon DEF CutFrame
<1>2. \A i \in 1 .. Len(q) - 1 : Link(q[i], q[i + 1])
  BY <1>1, Zenon DEF Link
<1>3. \A i \in 1 .. Len(q) : q[i].mark <=> i = Len(q)
  BY Zenon DEF MarkedEnd
<1>. QED BY <1>1, <1>2, <1>3, Zenon DEF Linked

\* One packet less.
LEMMA TailChains ==
    ASSUME NEW w, NEW n \in Nat, n > 0, NEW c, ChainOf(w, n, c), w # <<>>
    PROVE  ChainOf(Tail(w), n + 1, c)
<1> DEFINE l == Len(w) - 1
           t == Tail(w)
<1>1. w \in Seq(Dec!Packet) /\ Len(w) = l + 1 /\ l \in Nat
  BY DEF ChainOf
<1>2. t \in Seq(Dec!Packet) /\ Len(t) = l /\ (\A i \in 1 .. l : t[i] = w[i + 1])
      /\ (t # <<>> => l > 0)
  BY <1>1
<1> HIDE DEF l, t
<1>3. \A i \in 1 .. l : i + 1 \in 1 .. Len(w) /\ (i + 1 = Len(w) <=> i = l) /\ i + 1 # 1
  BY <1>1
<1>4. \A i \in 1 .. l - 1 : i \in 1 .. l /\ i + 1 \in 1 .. l /\ i + 1 \in 1 .. Len(w) - 1
  BY <1>1
<1>5. ASSUME t # <<>> PROVE l \in 1 .. l /\ t[Len(t)] = w[Len(w)]
  <2>1. l \in 1 .. l
    BY <1>1, <1>2, <1>5
  <2>. QED BY <1>1, <1>2, <2>1
<1>6. n + 1 # 1
  OBVIOUS
<1>7. ASSUME Linked(w, n) PROVE Linked(t, n + 1)
  <2>1. /\ \A i \in 1 .. Len(w) - 1 : Link(w[i], w[i + 1])
        /\ w[Len(w)].e
        /\ \A i \in 1 .. Len(w) : w[i].mark <=> i = Len(w)
        /\ \A i \in 1 .. Len(w) : w[i].unit = 1 /\ w[i].s => i = 1 /\ n = 1
    BY <1>7, Zenon DEF Linked
  <2>2. \A i \in 1 .. l - 1 : Link(t[i], t[i + 1])
    <3> SUFFICES ASSUME NEW i \in 1 .. l - 1 PROVE Link(t[i], t[i + 1])
      OBVIOUS
    <3> DEFINE j == i + 1
    <3>1. t[i] = w[j] /\ t[j] = w[j + 1] /\ j \in 1 .. Len(w) - 1
      BY <1>2, <1>4
    <3> HIDE DEF j
    <3>2. Link(w[j], w[j + 1])
      BY <2>1, <3>1, Zenon
    <3>3. Link(t[i], t[j])
      BY <3>1, <3>2, Zenon
    <3>. QED BY <3>3 DEF j
  <2>3. \A i \in 1 .. l : t[i].mark <=> i = l
    <3> SUFFICES ASSUME NEW i \in 1 .. l PROVE t[i].mark <=> i = l
      OBVIOUS
    <3> DEFINE j == i + 1
    <3>1. t[i] = w[j] /\ j \in 1 .. Len(w) /\ (j = Len(w) <=> i = l)
      BY <1>2, <1>3
    <3> HIDE DEF j
    <3>2. w[j].mark <=> j = Len(w)
      BY <2>1, <3>1, Zenon
    <3>. QED BY <3>1, <3>2, Zenon
  <2>4. \A i \in 1 .. l : ~(t[i].unit = 1 /\ t[i].s)
    <3> SUFFICES ASSUME NEW i \in 1 .. l PROVE ~(t[i].unit = 1 /\ t[i].s)
      OBVIOUS
    <3> DEFINE j == i + 1
    <3>1. t[i] = w[j] /\ j \in 1 .. Len(w) /\ j # 1
      BY <1>2, <1>3
    <3> HIDE DEF j
    <3>. QED BY <2>1, <3>1, Zenon
  <2>5. t # <<>> => t[Len(t)].e
    BY <1>5, <2>1
  <2>6. Len(t) - 1 = l - 1 /\ Len(t) = l
    BY <1>2
  <2>. QED BY <1>6, <2>2, <2>3, <2>4, <2>5, <2>6, Zenon DEF Linked
<1>8. /\ \A i \in 1 .. Len(w) : w[i].from <= w[i].to /\ (w[i].whole => w[i].s /\ w[i].e)
      /\ c \in Nals \cup Dec!Images => Linked(w, n)
      /\ c = "vp9" => \A i \in 1 .. Len(w) : w[i].unit = 1
      /\ c \in Dec!Nals264 => \A i \in 1 .. Len(w) : w[i].s /\ w[i].e => w[i].whole
      /\ c = "daala" => (\A i \in 1 .. Len(w) : w[i].s /\ w[i].e) /\ (w # <<>> => ~w[Len(w)].mark)
  BY Zenon DEF ChainOf
<1>9. \A i \in 1 .. l : \E j \in 1 .. Len(w) : t[i] = w[j]
  BY <1>2, <1>3
<1>10. /\ \A i \in 1 .. l : t[i].from <= t[i].to /\ (t[i].whole => t[i].s /\ t[i].e)
       /\ c = "vp9" => \A i \in 1 .. l : t[i].unit = 1
       /\ c \in Dec!Nals264 => \A i \in 1 .. l : t[i].s /\ t[i].e => t[i].whole
       /\ c = "daala" => (\A i \in 1 .. l : t[i].s /\ t[i].e) /\ (t # <<>> => ~t[Len(t)].mark)
  <2>1. \A i \in 1 .. l : t[i].from <= t[i].to /\ (t[i].whole => t[i].s /\ t[i].e)
    BY <1>8, <1>9, Zenon
  <2>2. c = "vp9" => \A i \in 1 .. l : t[i].unit = 1
    BY <1>8, <1>9, Zenon
  <2>3. c \in Dec!Nals264 => \A i \in 1 .. l : t[i].s /\ t[i].e => t[i].whole
    BY <1>8, <1>9, Zenon
  <2>4. c = "daala" => (\A i \in 1 .. l : t[i].s /\ t[i].e) /\ (t # <<>> => ~t[Len(t)].mark)
    BY <1>5, <1>8, <1>9, Zenon
  <2>. QED BY <2>1, <2>2, <2>3, <2>4, Zenon
<1>11. ChainOf(t, n + 1, c)
  BY <1>2, <1>7, <1>8, <1>10, Zenon DEF ChainOf
<1>. QED BY <1>11 DEF t

\* The sender of the decoders' frames cuts as the encoders do.
LEMMA SameCuts ==
    /\ Dec!Packet = Enc!Packet
    /\ \A lens : /\ Dec!H264Frame(lens, PktSize) = Enc!H264Frame(lens, PktSize)
                 /\ Dec!H265Frame(lens, PktSize) = Enc!H265Frame(lens, PktSize)
                 /\ Dec!Vp8Frame(lens, PktSize) = Enc!Vp8Frame(lens, PktSize)
                 /\ Dec!Vp9Frame(lens, PktSize) = Enc!Vp9Frame(lens, PktSize)
                 /\ Dec!Av1Frame(lens, PktSize) = Enc!Av1Frame(lens, PktSize)
                 /\ Dec!DaalaFrame(lens) = Enc!DaalaFrame(lens)
                 /\ Dec!Stream(lens, PktSize, 0) = Enc!Stream(lens, PktSize, 0)
                 /\ Dec!Stream(lens, PktSize, 4) = Enc!Stream(lens, PktSize, 4)
<1>1. Dec!Packet = Enc!Packet
  BY DEF Dec!Packet, Enc!Packet
<1>2. \A seqs : Dec!FlattenSeq(seqs) = Enc!FlattenSeq(seqs)
  BY DEF Dec!FlattenSeq, Enc!FlattenSeq
<1>3. \A units : Dec!FrameOf(units) = Enc!FrameOf(units)
  BY <1>2, Zenon DEF Dec!FrameOf, Enc!FrameOf
<1>4. \A len, max, hdr : Dec!Cut(len, max, hdr) = Enc!Cut(len, max, hdr)
  BY DEF Dec!Cut, Enc!Cut
<1>5. \A len, hdr : Dec!Single(len, hdr) = Enc!Single(len, hdr)
  BY DEF Dec!Single, Enc!Single
<1>6. \A lens : Dec!H264Frame(lens, PktSize) = Enc!H264Frame(lens, PktSize)
  <2>1. \A len : Dec!H264Unit(len, PktSize) = Enc!H264Unit(len, PktSize)
    BY <1>4, <1>5, Zenon DEF Dec!H264Unit, Enc!H264Unit
  <2>. QED BY <1>3, <2>1, Zenon DEF Dec!H264Frame, Enc!H264Frame
<1>7. \A lens : Dec!H265Frame(lens, PktSize) = Enc!H265Frame(lens, PktSize)
  <2>1. \A len : Dec!H265Unit(len, PktSize) = Enc!H265Unit(len, PktSize)
    BY <1>4, <1>5, Zenon DEF Dec!H265Unit, Enc!H265Unit
  <2>. QED BY <1>3, <2>1, Zenon DEF Dec!H265Frame, Enc!H265Frame
<1>8. \A lens : /\ Dec!Vp8Frame(lens, PktSize) = Enc!Vp8Frame(lens, PktSize)
                /\ Dec!Vp9Frame(lens, PktSize) = Enc!Vp9Frame(lens, PktSize)
                /\ Dec!Av1Frame(lens, PktSize) = Enc!Av1Frame(lens, PktSize)
  BY <1>3, <1>4, Zenon DEF Dec!Vp8Frame, Enc!Vp8Frame, Dec!Vp9Frame, Enc!Vp9Frame, Dec!Av1Frame,
     Enc!Av1Frame, Dec!Vp8Unit, Enc!Vp8Unit, Dec!Vp9Unit, Enc!Vp9Unit, Dec!Av1Unit, Enc!Av1Unit
<1>9. \A lens : Dec!DaalaFrame(lens) = Enc!DaalaFrame(lens)
  BY DEF Dec!DaalaFrame, Enc!DaalaFrame
<1>10. \A lens : Dec!Sum(lens) = Enc!Sum(lens)
  BY DEF Dec!Sum, Enc!Sum, Dec!FoldLeft, Enc!FoldLeft, Dec!MapThenFoldSet, Enc!MapThenFoldSet,
     Dec!Max, Enc!Max
<1>11. \A lens, hdr : Dec!Stream(lens, PktSize, hdr) = Enc!Stream(lens, PktSize, hdr)
  BY <1>3, <1>4, <1>10, Zenon DEF Dec!Stream, Enc!Stream
<1>. QED BY <1>1, <1>6, <1>7, <1>8, <1>9, <1>11, Zenon

\* What is known of a frame of H.264, H.265, VP8, VP9 or AV1.
LEMMA CutChains ==
    ASSUME NEW lens, NEW q, CutFrame(q, lens), MarkedEnd(q), NEW c, c # "daala",
           c = "vp9" => Len(lens) = 1,
           c \in Dec!Nals264 => NotAlone(q)
    PROVE  ChainOf(q, 1, c)
<1>1. q \in Seq(Dec!Packet)
  BY SameCuts, Zenon DEF CutFrame
<1>2. Linked(q, 1)
  BY CutIsLinked, Zenon
<1>3. /\ \A i \in 1 .. Len(q) :
          /\ q[i].from <= q[i].to /\ q[i].unit \in 1 .. Len(lens)
          /\ q[i].whole => q[i].s /\ q[i].e
  BY Zenon DEF CutFrame
<1>4. c = "vp9" => \A i \in 1 .. Len(q) : q[i].unit = 1
  <2> SUFFICES ASSUME c = "vp9", NEW i \in 1 .. Len(q) PROVE q[i].unit = 1
    BY Zenon
  <2> DEFINE u == q[i].unit
             n == Len(lens)
  <2>1. u \in 1 .. n
    BY <1>3, Zenon
  <2>2. n = 1
    BY Zenon
  <2> HIDE DEF u, n
  <2>3. u = 1
    BY <2>1, <2>2
  <2>. QED BY <2>3 DEF u
<1>5. c \in Dec!Nals264 => \A i \in 1 .. Len(q) : q[i].s /\ q[i].e => q[i].whole
  BY Zenon DEF NotAlone
<1>. QED BY <1>1, <1>2, <1>3, <1>4, <1>5, Zenon DEF ChainOf

\* The packets of daala, behind the header.
LEMMA DaalaChains ==
    ASSUME NEW lens, Lengths(lens),
           NEW q \in {Dec!DaalaFrame(lens), <<Dec!Header>> \o Dec!DaalaFrame(lens)}
    PROVE  ChainOf(q, 1, "daala")
<1> DEFINE n == Len(lens)
           f == Dec!DaalaFrame(lens)
           h == Dec!Header
<1>1. n \in Nat /\ n > 0 /\ \A i \in 1 .. n : lens[i] \in Nat /\ lens[i] > 0
  BY DEF Lengths
<1>2. f \in Seq(Dec!Packet) /\ Len(f) = n
      /\ \A i \in 1 .. n : f[i].from <= f[i].to /\ f[i].s /\ f[i].e /\ ~f[i].mark
  <2>1. f = [k \in 1 .. n |-> [unit |-> k, from |-> 1, to |-> lens[k], hdr |-> 0, whole |-> TRUE,
                              s |-> TRUE, e |-> TRUE, mark |-> FALSE]]
    <3>1. DOMAIN lens = 1 .. n
      BY DEF Lengths
    <3>. QED BY <3>1, Zenon DEF Dec!DaalaFrame
  <2> HIDE DEF f, n
  <2>2. ASSUME NEW k \in 1 .. n
        PROVE  /\ f[k] \in Dec!Packet /\ f[k].from <= f[k].to
               /\ f[k].s /\ f[k].e /\ ~f[k].mark
    <3> DEFINE l == lens[k]
               z == [unit |-> k, from |-> 1, to |-> l, hdr |-> 0, whole |-> TRUE,
                     s |-> TRUE, e |-> TRUE, mark |-> FALSE]
    <3>1. l \in Nat /\ l > 0 /\ k \in Nat /\ f[k] = z
      BY <1>1, <2>1
    <3> HIDE DEF l
    <3>2. z \in Dec!Packet /\ z.from <= z.to /\ z.s /\ z.e /\ ~z.mark
      BY <3>1 DEF Dec!Packet
    <3>. QED BY <3>1, <3>2
  <2>3. f \in Seq(Dec!Packet) /\ Len(f) = n
    BY <1>1, <2>1, <2>2
  <2>. QED BY <2>2, <2>3
<1>3. h \in Dec!Packet /\ h.from <= h.to /\ h.s /\ h.e
  BY DEF Dec!Header, Dec!Packet
<1> HIDE DEF f, n, h
<1>4. /\ q \in Seq(Dec!Packet) /\ Len(q) > 0
      /\ q[Len(q)] = f[n]
      /\ \A i \in 1 .. Len(q) : q[i] = h \/ \E j \in 1 .. n : q[i] = f[j]
  <2>1. CASE q = f
    BY <1>1, <1>2, <2>1
  <2>2. CASE q = <<h>> \o f
    <3>1. /\ q \in Seq(Dec!Packet) /\ Len(q) = n + 1 /\ q[1] = h
          /\ \A i \in 2 .. n + 1 : q[i] = f[i - 1]
      BY <1>1, <1>2, <1>3, <2>2
    <3>2. \A i \in 1 .. n + 1 : i = 1 \/ (i \in 2 .. n + 1 /\ i - 1 \in 1 .. n)
      BY <1>1
    <3>3. n + 1 \in 2 .. n + 1 /\ n + 1 - 1 = n /\ n + 1 > 0
      BY <1>1
    <3>4. \A i \in 1 .. Len(q) : q[i] = h \/ \E j \in 1 .. n : q[i] = f[j]
      BY <3>1, <3>2
    <3>5. q[n + 1] = f[n]
      <4> DEFINE k == n + 1
      <4>1. k \in 2 .. n + 1 /\ k - 1 = n
        BY <1>1
      <4> HIDE DEF k
      <4>2. q[k] = f[k - 1]
        BY <3>1, <4>1, Zenon
      <4>3. q[k] = f[n]
        BY <4>1, <4>2, Zenon
      <4>. QED BY <4>3 DEF k
    <3>6. q[Len(q)] = f[n] /\ Len(q) > 0
      BY <3>1, <3>3, <3>5
    <3>. QED BY <3>1, <3>4, <3>6
  <2>. QED BY <2>1, <2>2 DEF f, h
<1>5. n \in 1 .. n
  BY <1>1
<1>6. \A i \in 1 .. Len(q) : q[i].from <= q[i].to /\ q[i].s /\ q[i].e
  BY <1>2, <1>3, <1>4, Zenon
<1>7. ~q[Len(q)].mark
  BY <1>2, <1>4, <1>5, Zenon
<1>8. "daala" \notin Nals \cup Dec!Images /\ "daala" # "vp9" /\ "daala" \notin Dec!Nals264
  BY DEF Nals, Dec!Images, Dec!Nals264
<1>. QED BY <1>4, <1>6, <1>7, <1>8, Zenon DEF ChainOf

\* The packets of H.263 and MPEG-4.
LEMMA StreamChains ==
    ASSUME NEW lens, NEW q, CutFrame(q, lens), NEW c \in Dec!Uncounted
    PROVE  ChainOf(q, 1, c)
<1>1. q \in Seq(Dec!Packet)
  BY SameCuts, Zenon DEF CutFrame
<1>2. \A i \in 1 .. Len(q) : q[i].from <= q[i].to /\ (q[i].whole => q[i].s /\ q[i].e)
  BY Zenon DEF CutFrame
<1>3. c \notin Nals \cup Dec!Images /\ c # "vp9" /\ c \notin Dec!Nals264 /\ c # "daala"
  BY DEF Nals, Dec!Images, Dec!Nals264, Dec!Uncounted
<1>. QED BY <1>1, <1>2, <1>3, Zenon DEF ChainOf

\* The peer sends the packets of a frame.
LEMMA FrameChains ==
    ASSUME NEW lens \in DecFrames, decCodec \in AllCodecs, NEW q,
           \/ q = Dec!PacketsOf(lens)
           \/ decCodec = "daala" /\ q = <<Dec!Header>> \o Dec!PacketsOf(lens)
    PROVE  ChainOf(q, 1, decCodec) /\ (decCodec \in Dec!Nals264 => q # <<>>)
<1> DEFINE P == Dec!PacketsOf(lens)
           one == <<lens[1]>>
<1>1. Lengths(lens)
  <2>1. DecFrames \subseteq Seq(Nat) /\ lens # <<>> /\ \A i \in DOMAIN lens : lens[i] > 0
    BY PartsAssumption, Zenon DEF Dec!VideoDecodersAssumption
  <2>2. lens \in Seq(Nat) /\ DOMAIN lens = 1 .. Len(lens)
    BY <2>1
  <2>. QED BY <2>1, <2>2 DEF Lengths
<1>2. Lengths(one) /\ Len(one) = 1
  <2>1. lens[1] \in Nat /\ lens[1] > 0
    BY <1>1 DEF Lengths
  <2>. QED BY <2>1 DEF Lengths
<1> HIDE DEF one
<1>3. CASE decCodec = "daala"
  <2>1. P = Dec!DaalaFrame(lens)
    BY <1>3 DEF Dec!PacketsOf, Dec!Nals264
  <2>2. decCodec \notin Dec!Nals264
    BY <1>3 DEF Dec!Nals264
  <2>. QED BY <1>1, <1>3, <2>1, <2>2, DaalaChains, Zenon
<1>4. CASE decCodec # "daala"
  <2>1. q = P
    BY <1>4
  <2>2. CASE decCodec \in Dec!Nals264
    <3>0. P = Dec!H264Frame(lens, PktSize)
      BY <2>2 DEF Dec!PacketsOf, Dec!Nals264
    <3>1. q = Enc!H264Frame(lens, PktSize)
      BY <2>1, <3>0, SameCuts, Zenon
    <3>2. decCodec # "vp9"
      BY <2>2 DEF Dec!Nals264
    <3>3. CutFrame(q, lens) /\ MarkedEnd(q) /\ NotAlone(q)
      BY <1>1, <3>1, H264IsCut, Zenon
    <3>4. q # <<>>
      BY <3>3 DEF CutFrame
    <3>. QED BY <1>4, <3>2, <3>3, <3>4, CutChains, Zenon
  <2>3. CASE decCodec = "h265"
    <3>1. decCodec \notin Dec!Nals264 /\ decCodec # "vp9"
      BY <2>3 DEF Dec!Nals264
    <3>2. q = Enc!H265Frame(lens, PktSize)
      BY <2>1, <2>3, <3>1, SameCuts, Zenon DEF Dec!PacketsOf
    <3>. QED BY <1>1, <1>4, <3>1, <3>2, H265IsCut, CutChains, Zenon
  <2>4. CASE decCodec = "vp8"
    <3>1. decCodec \notin Dec!Nals264 /\ decCodec # "vp9" /\ decCodec # "h265"
      BY <2>4 DEF Dec!Nals264
    <3>2. q = Enc!Vp8Frame(lens, PktSize)
      BY <2>1, <2>4, <3>1, SameCuts, Zenon DEF Dec!PacketsOf
    <3>. QED BY <1>1, <1>4, <3>1, <3>2, ImagesAreCut, CutChains, Zenon
  <2>5. CASE decCodec \in {"vp9", "av1"}
    <3>1. decCodec \notin Dec!Nals264 /\ decCodec # "vp8" /\ decCodec # "h265"
      BY <2>5 DEF Dec!Nals264
    <3>2. P \in {Dec!Vp9Frame(one, PktSize), Dec!Av1Frame(one, PktSize)}
      BY <2>5, <3>1, Zenon DEF Dec!PacketsOf, one
    <3>3. q \in {Enc!Vp9Frame(one, PktSize), Enc!Av1Frame(one, PktSize)}
      BY <2>1, <3>2, SameCuts, Zenon
    <3>. QED BY <1>2, <1>4, <3>1, <3>3, ImagesAreCut, CutChains, Zenon
  <2>6. CASE decCodec \in Dec!Uncounted
    <3>1. P = Dec!Stream(lens, PktSize, 0) \/ P = Dec!Stream(lens, PktSize, 4)
      BY <2>6 DEF Dec!PacketsOf, Dec!Mpeg4Frame, Dec!H263Frame, Dec!Nals264, Dec!Uncounted
    <3>2. q = Enc!Stream(lens, PktSize, 0) \/ q = Enc!Stream(lens, PktSize, 4)
      BY <2>1, <3>1, SameCuts, Zenon
    <3>3. 0 \in Nat /\ 4 \in Nat
      OBVIOUS
    <3>4. decCodec \notin Dec!Nals264
      BY <2>6 DEF Dec!Nals264, Dec!Uncounted
    <3>. QED BY <1>1, <2>6, <3>2, <3>3, <3>4, StreamIsCut, StreamChains, Zenon
  <2>. QED BY <1>4, <2>2, <2>3, <2>4, <2>5, <2>6
       DEF AllCodecs, Dec!Nals264, Dec!Uncounted
<1>. QED BY <1>3, <1>4

\* The state behind which a packet comes.
LEMMA BehindFields ==
    ASSUME NEW d \in DecState
    PROVE  LET b == Dec!Behind(d)
           IN  /\ b \in DecState /\ b.mb = d.mb /\ b.start = d.start /\ b.frag = d.frag
               /\ b.key = d.key
               /\ b.seq # 0 /\ (b.seq = 1 <=> d.seq = 0)
               /\ Nal(d) => Nal(b)
               /\ Img(d) => Img(b)
<1> DEFINE b == Dec!Behind(d)
           l == Dec!Later(d.seq)
<1>1. d.seq \in 0 .. 2
  BY DEF DecState
<1>2. l \in 1 .. 2 /\ (l = 1 <=> d.seq = 0)
  BY <1>1 DEF Dec!Later, Dec!Far
<1>3. b = [d EXCEPT !.seq = l]
  BY DEF Dec!Behind
<1> HIDE DEF l
<1>4. /\ b \in DecState /\ b.mb = d.mb /\ b.start = d.start /\ b.frag = d.frag
      /\ b.seq = l /\ b.key = d.key
  BY <1>2, <1>3 DEF DecState
<1> HIDE DEF b
<1>5. Nal(d) => Nal(b)
  BY <1>4, Zenon DEF Nal
<1>6. Img(d) => Img(b)
  BY <1>4, Zenon DEF Img
<1>7. b.seq # 0 /\ (b.seq = 1 <=> d.seq = 0)
  BY <1>2, <1>4
<1>. QED BY <1>4, <1>5, <1>6, <1>7 DEF b

\* A packet that comes is the next one of the frame.
LEMMA TakenFields ==
    ASSUME DecTypes, wire # <<>>, NEW how \in {"sent", "bad", "unknown"},
           NEW p, p = Dec!Taken(how)
    PROVE  /\ p \in DecPiece /\ p.unit = wire[1].unit /\ p.from = wire[1].from
           /\ p.to = wire[1].to
           /\ p.whole <=> wire[1].whole
           /\ p.s <=> wire[1].s
           /\ p.e <=> wire[1].e
           /\ p.mark <=> wire[1].mark
           /\ p.key <=> isKey
           /\ p.nr = sent
           /\ p.follows <=> gap = 0
           /\ p.as = how
           /\ p.whole => p.s /\ p.e
<1> DEFINE w == wire[1]
           b == gap = 0
<1>1. wire \in Seq(Dec!Packet) /\ Head(wire) = w /\ 1 \in 1 .. Len(wire)
  <2>1. wire \in Seq(Dec!Packet)
    BY Zenon DEF DecTypes, ChainOf
  <2>. QED BY <2>1
<1>2. w \in Dec!Packet /\ w.from <= w.to /\ (w.whole => w.s /\ w.e)
  BY <1>1 DEF DecTypes, ChainOf
<1>3. isKey \in BOOLEAN /\ sent \in Nat /\ b \in BOOLEAN
  BY DEF DecTypes
<1>4. p = [unit |-> w.unit, from |-> w.from, to |-> w.to, hdr |-> w.hdr, whole |-> w.whole,
           s |-> w.s, e |-> w.e, mark |-> w.mark, key |-> isKey, nr |-> sent,
           follows |-> b, as |-> how]
  BY <1>1, Zenon DEF Dec!Taken
<1>5. /\ w.unit \in Nat /\ w.from \in Nat /\ w.to \in Nat /\ w.hdr \in Nat
      /\ w.whole \in BOOLEAN /\ w.s \in BOOLEAN /\ w.e \in BOOLEAN /\ w.mark \in BOOLEAN
  BY <1>2 DEF Dec!Packet
<1> HIDE DEF w, b
<1>6. /\ p \in DecPiece /\ p.unit = w.unit /\ p.from = w.from /\ p.to = w.to
      /\ p.whole = w.whole
      /\ p.s = w.s
      /\ p.e = w.e
      /\ p.mark = w.mark
      /\ p.key = isKey
      /\ p.nr = sent
      /\ p.follows = b
      /\ p.as = how
  <2> DEFINE a1 == w.unit
             a2 == w.from
             a3 == w.to
             a4 == w.hdr
             a5 == w.whole
             a6 == w.s
             a7 == w.e
             a8 == w.mark
  <2>1. p = [unit |-> a1, from |-> a2, to |-> a3, hdr |-> a4, whole |-> a5, s |-> a6, e |-> a7,
             mark |-> a8, key |-> isKey, nr |-> sent, follows |-> b, as |-> how]
    BY <1>4
  <2>2. /\ {a1, a2, a3, a4, sent} \subseteq Nat /\ {a5, a6, a7, a8, b, isKey} \subseteq BOOLEAN
        /\ a2 <= a3
    BY <1>2, <1>3, <1>5
  <2> HIDE DEF a1, a2, a3, a4, a5, a6, a7, a8
  <2>3. p \in Dec!Piece
    BY <2>1, <2>2 DEF Dec!Piece
  <2>4. /\ p.unit = a1 /\ p.from = a2 /\ p.to = a3
        /\ p.whole = a5
        /\ p.s = a6
        /\ p.e = a7
        /\ p.mark = a8
        /\ p.key = isKey
        /\ p.nr = sent
        /\ p.follows = b
        /\ p.as = how
    BY <2>1
  <2>5. p \in DecPiece
    BY <2>2, <2>3, <2>4 DEF DecPiece
  <2>. QED BY <2>4, <2>5 DEF a1, a2, a3, a5, a6, a7, a8
<1>. QED BY <1>2, <1>6, Zenon DEF w, b

\* What is left of the frame.
LEMMA WireNext ==
    ASSUME NEW w, NEW n \in Nat, Linked(w, n), w # <<>>, NEW T, w \in Seq(T)
    PROVE  /\ w[1].mark <=> Tail(w) = <<>>
           /\ w[1].mark => w[1].e
           /\ Tail(w) # <<>> => Link(w[1], Tail(w)[1])
<1> DEFINE l == Len(w)
           t == Tail(w)
<1>1. l \in Nat /\ l > 0 /\ (t = <<>> <=> l = 1) /\ (l > 1 => t[1] = w[1 + 1])
      /\ 1 \in 1 .. l
  <2>1. l \in Nat /\ l > 0 /\ 1 \in 1 .. l
    OBVIOUS
  <2>2. t \in Seq(T) /\ Len(t) = l - 1
    OBVIOUS
  <2>3. l > 1 => t[1] = w[1 + 1]
    OBVIOUS
  <2> HIDE DEF l, t
  <2>4. t = <<>> <=> l = 1
    BY <2>1, <2>2
  <2>. QED BY <2>1, <2>3, <2>4
<1>2. /\ \A i \in 1 .. l - 1 : Link(w[i], w[i + 1])
      /\ w[l].e
      /\ \A i \in 1 .. l : w[i].mark <=> i = l
  BY Zenon DEF Linked
<1> HIDE DEF l, t
<1>3. l = 1 \/ (l # 1 /\ 1 \in 1 .. l - 1)
  BY <1>1
<1>4. w[1].mark <=> 1 = l
  BY <1>1, <1>2, Zenon
<1>5. 1 = l => w[1].e
  BY <1>2, Zenon
<1>6. 1 # l => Link(w[1], w[1 + 1]) /\ t[1] = w[1 + 1]
  BY <1>1, <1>2, <1>3
<1>. QED BY <1>1, <1>4, <1>5, <1>6 DEF t

\* All of the frame that was put so far.
LEMMA PutsGot ==
    ASSUME NEW d, d.mb \in Seq(DecPiece), NEW p \in DecPiece, NEW anew, NEW b,
           Puts(d, p, anew, b), NEW n \in Nat, n > 0, p.nr = n,
           n > 1 => ~anew /\ Got(d.mb, n - 1) /\ p.follows
    PROVE  Got(b, n)
<1>1. PICK m \in Seq(DecPiece) : b = Append(m, p) /\ (~anew => m = d.mb)
  BY Zenon DEF Puts
<1>2. n = n - 1 + 1 /\ n - 1 \in Nat
  OBVIOUS
<1>3. Got(m, n - 1) /\ (n - 1 > 0 => p.follows)
  <2>1. CASE n = 1
    <3>1. n - 1 = 0 /\ 0 .. 0 - 1 = {} /\ Len(m) \in Nat
      BY <2>1
    <3>. QED BY <3>1 DEF Got
  <2>2. CASE n # 1
    <3>1. n > 1
      BY <2>2
    <3>. QED BY <1>1, <3>1
  <2>. QED BY <2>1, <2>2
<1> DEFINE k == n - 1
<1>4. Got(m, k) /\ (k > 0 => p.follows) /\ k \in Nat /\ p.nr = k + 1 /\ n = k + 1
  BY <1>2, <1>3
<1> HIDE DEF k
<1>5. Got(Append(m, p), k + 1)
  BY <1>4, GotMore, Zenon
<1>. QED BY <1>1, <1>4, <1>5

\* Whether there is room for one more packet.
Fits(d, p) == Dec!Bytes(d.mb) + p.to - p.from < MaxSize

\* What is left of the frame when a packet came or was lost.
LEMMA RestIsKept ==
    ASSUME DecTypes, wire # <<>>, wire' = Tail(wire), sent' = sent + 1, decCodec' = decCodec
    PROVE  /\ sent' \in Nat /\ sent' > 1 /\ ChainOf(wire', sent', decCodec')
           /\ decCodec \in Nals \cup Dec!Images =>
                 /\ wire[1].mark <=> wire' = <<>>
                 /\ wire[1].mark => wire[1].e
                 /\ wire' # <<>> => Link(wire[1], wire'[1])
<1>1. sent \in Nat /\ sent > 0 /\ ChainOf(wire, sent, decCodec)
  BY Zenon DEF DecTypes
<1>2. ChainOf(wire', sent', decCodec')
  BY <1>1, TailChains, Zenon
<1>3. wire \in Seq(Dec!Packet) /\ (decCodec \in Nals \cup Dec!Images => Linked(wire, sent))
  BY <1>1, Zenon DEF ChainOf
<1>4. sent' \in Nat /\ sent' > 1
  BY <1>1
<1>5. ASSUME Linked(wire, sent)
      PROVE  /\ wire[1].mark <=> wire' = <<>>
             /\ wire[1].mark => wire[1].e
             /\ wire' # <<>> => Link(wire[1], wire'[1])
  BY <1>1, <1>3, <1>5, WireNext, Zenon
<1>. QED BY <1>2, <1>3, <1>4, <1>5, Zenon

\* The types after a packet that came.
LEMMA ReceiveTypes ==
    ASSUME DecTypes, NEW how \in {"sent", "bad", "unknown"}, Dec!Receive(how), NEW r,
           r = Dec!Decode(Dec!Behind(decDec), Dec!Taken(how)), r.dec \in DecState,
           r.fed \in Seq(DecPiece)
    PROVE  /\ DecTypes' /\ decDec' = r.dec /\ fed' = r.fed
           /\ Dec!Taken(how) \in Dec!ToSet(r.dec.mb) => gap' = 0
           /\ wire # <<>> /\ wire' = Tail(wire) /\ sent' = sent + 1 /\ decCodec' = decCodec
           /\ isKey' = isKey
           /\ before' = before
           /\ arrived' => /\ arrived /\ how = "sent"
                          /\ Dec!Bytes(decDec.mb) + Head(wire).to - Head(wire).from < MaxSize
<1> DEFINE room == Dec!Bytes(decDec.mb) + Head(wire).to - Head(wire).from < MaxSize
           has == Dec!Taken(how) \in Dec!ToSet(r.dec.mb)
           l == Dec!Later(gap)
<1>1. /\ wire # <<>>
      /\ decDec' = r.dec /\ fed' = r.fed
      /\ gap' = IF has THEN 0 ELSE l
      /\ wire' = Tail(wire) /\ sent' = sent + 1
      /\ arrived' = (arrived /\ how = "sent" /\ room)
      /\ decCodec' = decCodec
      /\ isKey' = isKey
      /\ decUp' = decUp
      /\ before' = before
  BY Zenon DEF Dec!Receive
<1>2. gap \in 0 .. 2
  BY DEF DecTypes
<1>3. l \in 0 .. 2
  BY <1>2 DEF Dec!Later, Dec!Far
<1> HIDE DEF has, l, room
<1>4. gap' \in 0 .. 2 /\ (has => gap' = 0)
  BY <1>1, <1>3
<1>5. arrived' \in BOOLEAN /\ (arrived' => arrived /\ how = "sent" /\ room)
  BY <1>1, Zenon
<1>6. /\ sent' \in Nat /\ sent' > 1 /\ ChainOf(wire', sent', decCodec')
  BY <1>1, RestIsKept, Zenon
<1>7. sent' > 0
  BY <1>6
<1>8. {isKey', decUp', before'} \subseteq BOOLEAN /\ decCodec' \in AllCodecs
  BY <1>1 DEF DecTypes
<1>9. {isKey', decUp', arrived', before'} \subseteq BOOLEAN
  BY <1>5, <1>8
<1>10. DecTypes'
  BY <1>1, <1>4, <1>6, <1>7, <1>8, <1>9, Zenon DEF DecTypes
<1>. QED BY <1>1, <1>4, <1>5, <1>10, Zenon DEF has, room

\* The action of CompleteIsDecoded.
Completes ==
    (wire # <<>> /\ wire' = <<>> /\ arrived' /\ decCodec \notin Dec!Uncounted
        /\ (decCodec \in Dec!Nals264 => before) /\ Dec!MayDecode)
    => Dec!EndWithFrame(fed', sent)

\* A packet of H.264, H.265, VP8, VP9 or AV1 that came.
LEMMA StepIsKept ==
    ASSUME DecInv, decCodec \in Nals \cup Dec!Images, NEW how \in {"sent", "bad", "unknown"},
           Dec!Receive(how), NEW p, p = Dec!Taken(how), NEW d, d = Dec!Behind(decDec),
           NEW r, r = Dec!Decode(d, p), NEW fits, NEW anew, NEW may,
           After(d, p, fits, anew, may, r),
           decCodec \in Nals => NalAfter(d, p, fits, r),
           decCodec \in Dec!Images =>
              /\ Img(r.dec) /\ OneImage(r.fed)
              /\ fits /\ ~p.mark /\ Fits(d, p) => r.dec.frag,
           SoFar /\ how = "sent" => fits /\ (sent > 1 => ~anew),
           decCodec \in Dec!Nals264 /\ how = "sent" /\ p.s /\ p.e => fits,
           SoFar /\ Dec!MayDecode /\ p.e => may
    PROVE  DecInv' /\ Completes
<1>1. DecTypes /\ decDec \in DecState
  BY Zenon DEF DecInv, DecTypes
<1>2. /\ d \in DecState /\ d.mb = decDec.mb /\ d.frag = decDec.frag
      /\ d.key = decDec.key
      /\ d.mb \in Seq(DecPiece)
  <2>1. /\ d \in DecState /\ d.mb = decDec.mb /\ d.frag = decDec.frag
        /\ d.key = decDec.key
    BY <1>1, BehindFields, Zenon
  <2>. QED BY <2>1 DEF DecState
<1>3. r.dec \in DecState /\ Chain(r.fed) /\ (p.e => Closed(r.fed)) /\ (r.fed # <<>> => p.mark)
  BY Zenon DEF After
<1>4. r.fed \in Seq(DecPiece)
  BY <1>3 DEF Chain
<1>5. /\ DecTypes' /\ decDec' = r.dec /\ fed' = r.fed
      /\ p \in Dec!ToSet(r.dec.mb) => gap' = 0
      /\ wire # <<>> /\ wire' = Tail(wire) /\ sent' = sent + 1 /\ decCodec' = decCodec
      /\ isKey' = isKey
      /\ before' = before
      /\ arrived' => /\ arrived /\ how = "sent"
                     /\ Dec!Bytes(decDec.mb) + Head(wire).to - Head(wire).from < MaxSize
  BY <1>1, <1>3, <1>4, ReceiveTypes, Zenon
<1>6. /\ p \in DecPiece /\ p.unit = wire[1].unit /\ p.from = wire[1].from
      /\ p.to = wire[1].to
      /\ p.s <=> wire[1].s
      /\ p.e <=> wire[1].e
      /\ p.mark <=> wire[1].mark
      /\ p.key <=> isKey
      /\ p.nr = sent
      /\ p.follows <=> gap = 0
      /\ p.as = how
  BY <1>1, <1>5, TakenFields, Zenon
<1>7. /\ sent' \in Nat /\ sent' > 1
      /\ wire[1].mark <=> wire' = <<>>
      /\ wire[1].mark => wire[1].e
      /\ wire' # <<>> => Link(wire[1], wire'[1])
  BY <1>1, <1>5, RestIsKept, Zenon
<1>8. wire' # <<>> => Link(p, wire'[1])
  BY <1>6, <1>7, Zenon DEF Link
<1>9. p.mark <=> wire' = <<>>
  BY <1>6, <1>7, Zenon
<1>10. p.mark => p.e
  BY <1>6, <1>7, Zenon
<1>11. sent \in Nat /\ sent > 0
  BY <1>1, <1>5 DEF DecTypes
<1>12. Head(wire) = wire[1]
  <2>1. wire \in Seq(Dec!Packet)
    BY <1>1, Zenon DEF DecTypes, ChainOf
  <2>. QED BY <1>5, <2>1
<1>13. arrived' => arrived /\ how = "sent" /\ Fits(d, p)
  BY <1>2, <1>5, <1>6, <1>12, Zenon DEF Fits
<1>14. r.dec.frag /\ r.dec.seq = 0 =>
          r.dec.mb # <<>> /\ r.dec.mb[Len(r.dec.mb)] = p /\ p \in Dec!ToSet(r.dec.mb) /\ ~p.mark
  BY Zenon DEF After
<1>15. Expects'
  <2> SUFFICES ASSUME r.dec.frag, r.dec.seq = 0
               PROVE  /\ r.dec.mb # <<>> /\ gap' = 0 /\ wire' # <<>>
                      /\ Link(r.dec.mb[Len(r.dec.mb)], wire'[1])
                      /\ decCodec \in Nals => ~r.dec.mb[Len(r.dec.mb)].e
    BY <1>5, Zenon DEF Expects
  <2>1. decCodec \in Nals => ~p.e
    BY Zenon DEF NalAfter
  <2>. QED BY <1>5, <1>8, <1>9, <1>14, <2>1, Zenon
<1>16. SoFar' => SoFar /\ how = "sent" /\ Fits(d, p)
  BY <1>5, <1>13, Zenon DEF SoFar
<1>17. ASSUME SoFar', wire # <<>>
       PROVE  /\ fits
              /\ sent > 1 => ~anew /\ Got(d.mb, sent - 1) /\ p.follows
              /\ sent > 1 /\ decCodec \in Dec!Nals264 /\ isKey => d.key
  <2>1. SoFar /\ fits /\ (sent > 1 => ~anew)
    BY <1>16, <1>17, Zenon
  <2>2. sent > 1 => /\ Got(decDec.mb, sent - 1) /\ gap = 0
                    /\ decCodec \in Dec!Nals264 /\ isKey => decDec.key
    BY <1>17, <2>1, Zenon DEF DecInv, Coming
  <2>. QED BY <1>2, <1>6, <2>1, <2>2, Zenon
<1>18. Coming'
  <2> DEFINE q == r.dec.mb[Len(r.dec.mb)]
  <2>1. ASSUME SoFar', wire' # <<>>
        PROVE  /\ Got(r.dec.mb, sent) /\ gap' = 0
               /\ Link(q, wire'[1])
               /\ decCodec \in Dec!Nals264 /\ isKey => r.dec.key
               /\ decCodec \in Dec!Images \/ ~q.e => r.dec.frag /\ r.dec.seq = 0
               /\ decCodec \in Nals /\ q.e => ~r.dec.frag
    <3>1. fits /\ ~p.mark /\ Fits(d, p) /\ (sent > 1 => ~anew /\ Got(d.mb, sent - 1) /\ p.follows)
      BY <1>5, <1>9, <1>16, <1>17, <2>1, Zenon
    <3>2. /\ Puts(d, p, anew, r.dec.mb) /\ p \in Dec!ToSet(r.dec.mb) /\ q = p
          /\ r.dec.frag => r.dec.seq = 0
      BY <3>1, Zenon DEF After, Fits
    <3>3. Got(r.dec.mb, sent)
      BY <1>2, <1>6, <1>11, <3>1, <3>2, PutsGot
    <3>4. gap' = 0 /\ Link(q, wire'[1])
      BY <1>5, <1>8, <2>1, <3>2, Zenon
    <3>5. decCodec \in Nals => /\ r.dec.frag <=> ~p.e
                               /\ d.key => r.dec.key
                               /\ p.key /\ p.s => r.dec.key
      BY <3>1, Zenon DEF NalAfter, Fits
    <3>6. decCodec \in Dec!Images => r.dec.frag
      BY <3>1, Zenon
    <3>7. decCodec \in Dec!Nals264 => decCodec \in Nals
      BY DEF Nals
    <3>8. decCodec \in Dec!Nals264 /\ isKey => r.dec.key
      <4>1. CASE sent > 1
        BY <1>5, <1>17, <2>1, <3>5, <3>7, <4>1, Zenon
      <4>2. CASE ~(sent > 1)
        <5>1. sent = 1
          BY <1>11, <4>2
        <5>2. p.s
          BY <1>1, <1>5, <1>6, <5>1, Zenon DEF DecTypes, ChainOf, Linked
        <5>. QED BY <1>6, <3>5, <3>7, <5>2, Zenon
      <4>. QED BY <4>1, <4>2
    <3>9. decCodec \in Dec!Images \/ ~q.e => r.dec.frag /\ r.dec.seq = 0
      BY <3>2, <3>5, <3>6, Zenon
    <3>10. decCodec \in Nals /\ q.e => ~r.dec.frag
      BY <3>2, <3>5, Zenon
    <3>. QED BY <3>3, <3>4, <3>8, <3>9, <3>10, Zenon
  <2>2. sent' - 1 = sent /\ sent' # 1
    BY <1>5, <1>11
  <2>. QED BY <1>5, <2>1, <2>2, Zenon DEF Coming
<1>19. decCodec' \in Nals => Nal(decDec')
  BY <1>5, Zenon DEF NalAfter
<1>20. decCodec' \in Dec!Images => Img(decDec')
  BY <1>5, Zenon
<1>21. decCodec' \in Dec!Nals264 /\ arrived' /\ wire' = <<>> => ~decDec'.frag
  <2> SUFFICES ASSUME decCodec \in Dec!Nals264, arrived', wire' = <<>> PROVE ~r.dec.frag
    BY <1>5, Zenon
  <2>1. decCodec \in Nals
    BY DEF Nals
  <2>2. p.mark /\ p.e /\ how = "sent" /\ p.as = how
    BY <1>6, <1>9, <1>10, <1>13, Zenon
  <2>3. CASE fits
    BY <2>1, <2>2, <2>3, Zenon DEF NalAfter
  <2>4. CASE ~fits
    BY <2>1, <2>2, <2>4, Zenon DEF NalAfter
  <2>. QED BY <2>3, <2>4
<1>22. Dec!UnitsAreWhole'
  <2>1. ASSUME r.fed # <<>>
        PROVE  /\ r.fed[1].s /\ r.fed[Len(r.fed)].e
               /\ \A i \in 1 .. Len(r.fed) - 1 : Dec!Joined(r.fed[i], r.fed[i + 1])
               /\ decCodec \in Dec!Images =>
                     r.fed[1].unit = 1 /\ \A i \in 2 .. Len(r.fed) : r.fed[i].follows
    BY <1>3, <1>10, <2>1, Zenon DEF Chain, Closed, OneImage
  <2>. QED BY <1>5, <2>1, Zenon DEF Dec!UnitsAreWhole
<1>23. Completes
  <2> SUFFICES ASSUME wire # <<>>, wire' = <<>>, arrived', decCodec \in Dec!Nals264 => before,
                      Dec!MayDecode
               PROVE  Dec!EndWithFrame(r.fed, sent)
    BY <1>5, Zenon DEF Completes
  <2>1. SoFar'
    BY <1>5, Zenon DEF SoFar
  <2>2. SoFar /\ fits /\ p.mark /\ p.e /\ (sent > 1 => ~anew /\ Got(d.mb, sent - 1) /\ p.follows)
    BY <1>9, <1>10, <1>16, <1>17, <2>1, Zenon
  <2>3. may
    BY <2>2, Zenon
  <2>4. Puts(d, p, anew, r.fed)
    BY <2>2, <2>3, Zenon DEF After
  <2>5. Got(r.fed, sent)
    BY <1>2, <1>6, <1>11, <2>2, <2>4, PutsGot
  <2>6. decCodec # "daala"
    BY DEF Nals, Dec!Images, Dec!Nals264
  <2>. QED BY <2>5, <2>6, Zenon DEF Got, Dec!EndWithFrame
<1>. QED BY <1>5, <1>15, <1>18, <1>19, <1>20, <1>21, <1>22, <1>23, Zenon DEF DecInv

\* What Link says of a packet that came.
LEMMA LinkJoins ==
    ASSUME NEW q, NEW w, Link(q, w), NEW p, p.unit = w.unit, p.from = w.from, p.s <=> w.s
    PROVE  /\ p.follows => Dec!Joined(q, p)
           /\ q.e => p.s
           /\ ~q.e => ~p.s
BY Zenon DEF Link, Dec!Joined

\* A packet of H.264 or H.265 comes.
LEMMA ReceiveNal ==
    ASSUME DecInv, decCodec \in Nals, NEW how \in {"sent", "bad", "unknown"}, Dec!Receive(how)
    PROVE  DecInv' /\ Completes
<1> DEFINE p == Dec!Taken(how)
           d == Dec!Behind(decDec)
           r == Dec!Decode(d, p)
<1>1. DecTypes /\ decDec \in DecState /\ wire # <<>> /\ Nal(decDec) /\ Expects /\ Coming
  BY Zenon DEF DecInv, DecTypes, Dec!Receive
<1>2. /\ d.mb = decDec.mb
      /\ d.frag = decDec.frag
      /\ d.key = decDec.key
      /\ d.seq # 0 /\ (d.seq = 1 <=> decDec.seq = 0) /\ Nal(d)
  BY <1>1, BehindFields, Zenon
<1>3. /\ p \in DecPiece /\ p.unit = wire[1].unit /\ p.from = wire[1].from
      /\ p.whole <=> wire[1].whole
      /\ p.s <=> wire[1].s
      /\ p.e <=> wire[1].e
      /\ p.key <=> isKey
      /\ p.follows <=> gap = 0
      /\ p.as = how
      /\ p.whole => p.s /\ p.e
  BY <1>1, TakenFields, Zenon
<1>4. \E replaces, waits : /\ r = Dec!NalUnit(d, p, replaces, waits)
                           /\ replaces <=> decCodec = "h265"
                           /\ waits <=> decCodec \in Dec!Nals264
  <2>1. CASE decCodec \in Dec!Nals264
    <3>1. decCodec # "h265"
      BY <2>1 DEF Dec!Nals264
    <3>2. r = Dec!NalUnit(d, p, FALSE, TRUE)
      BY <2>1, Zenon DEF Dec!Decode, Dec!Avc264, Dec!Jdk, Dec!Openh264, Dec!Wels, Dec!Nals264
    <3>. QED BY <2>1, <3>1, <3>2, Zenon
  <2>2. CASE decCodec = "h265"
    <3>1. decCodec \notin Dec!Nals264
      BY <2>2 DEF Dec!Nals264
    <3>2. r = Dec!NalUnit(d, p, TRUE, FALSE)
      BY <2>2, Zenon DEF Dec!Decode, Dec!H265
    <3>. QED BY <2>2, <3>1, <3>2, Zenon
  <2>. QED BY <2>1, <2>2, Zenon DEF Nals
<1>5. PICK replaces, waits : /\ r = Dec!NalUnit(d, p, replaces, waits)
                             /\ replaces <=> decCodec = "h265"
                             /\ waits <=> decCodec \in Dec!Nals264
  BY <1>4, Zenon
<1> DEFINE fits == NalFits(d, p, replaces)
           anew == d.frag /\ p.s
           may == p.e /\ (~waits \/ d.key \/ (p.key /\ p.s))
<1> HIDE DEF p, d, r
<1>6. ASSUME decDec.frag, decDec.seq = 0
      PROVE  decDec.mb # <<>> /\ Dec!Joined(decDec.mb[Len(decDec.mb)], p) /\ ~p.s
  <2>1. /\ decDec.mb # <<>> /\ gap = 0
        /\ Link(decDec.mb[Len(decDec.mb)], wire[1])
        /\ ~decDec.mb[Len(decDec.mb)].e
    BY <1>1, <1>6, Zenon DEF Expects
  <2>. QED BY <1>3, <2>1, LinkJoins, Zenon
<1>7. d.frag /\ d.seq = 1 => d.mb # <<>> /\ Dec!Joined(d.mb[Len(d.mb)], p)
  BY <1>2, <1>6, Zenon
<1>8. After(d, p, fits, anew, may, r) /\ NalAfter(d, p, fits, r)
  <2> HIDE DEF anew, may
  <2>1. (anew <=> d.frag /\ p.s) /\ (may => p.e /\ (~waits \/ d.key \/ (p.key /\ p.s)))
    BY Zenon DEF anew, may
  <2>2. /\ Nal(d) /\ d.seq # 0 /\ p \in DecPiece
        /\ p.whole => p.s /\ p.e
        /\ r = Dec!NalUnit(d, p, replaces, waits)
    BY <1>2, <1>3, <1>5, Zenon
  <2>. QED BY <1>7, <2>1, <2>2, NalResult, ZenonT(60)
<1>9. sent \in Nat /\ sent > 0 /\ ChainOf(wire, sent, decCodec)
  BY <1>1, Zenon DEF DecTypes
<1>10. Linked(wire, sent)
  BY <1>9, Zenon DEF ChainOf
<1>11. sent = 1 => p.s
  BY <1>1, <1>3, <1>10, Zenon DEF Linked
<1>12. sent = 1 \/ sent > 1
  BY <1>9
<1>13. ASSUME SoFar, sent > 1
       PROVE  /\ decDec.mb[Len(decDec.mb)].e => p.s /\ ~decDec.frag
              /\ ~decDec.mb[Len(decDec.mb)].e => ~p.s /\ decDec.frag /\ decDec.seq = 0
              /\ decCodec \in Dec!Nals264 /\ isKey => decDec.key
  <2>1. /\ Link(decDec.mb[Len(decDec.mb)], wire[1])
        /\ decCodec \in Dec!Nals264 /\ isKey => decDec.key
        /\ ~decDec.mb[Len(decDec.mb)].e => decDec.frag /\ decDec.seq = 0
        /\ decDec.mb[Len(decDec.mb)].e => ~decDec.frag
    BY <1>1, <1>13, Zenon DEF Coming
  <2>. QED BY <1>3, <2>1, LinkJoins, Zenon
<1>14. SoFar /\ how = "sent" => fits /\ (sent > 1 => ~anew)
  <2> SUFFICES ASSUME SoFar, how = "sent" PROVE fits /\ (sent > 1 => ~anew)
    BY Zenon
  <2>1. CASE sent = 1
    <3>1. ~d.frag \/ replaces
      BY <1>1, <1>2, <1>5, <2>1, Zenon DEF Coming, Nals
    <3>2. ~(sent > 1)
      BY <2>1
    <3>. QED BY <1>3, <1>11, <2>1, <3>1, <3>2, Zenon DEF NalFits
  <2>2. CASE sent > 1
    BY <1>2, <1>3, <1>13, <2>2, Zenon DEF NalFits
  <2>. QED BY <1>12, <2>1, <2>2
<1>15. decCodec \in Dec!Nals264 /\ how = "sent" /\ p.s /\ p.e => fits
  <2> SUFFICES ASSUME decCodec \in Dec!Nals264, how = "sent", p.s, p.e PROVE fits
    BY Zenon
  <2>1. /\ wire \in Seq(Dec!Packet)
        /\ \A i \in 1 .. Len(wire) : wire[i].s /\ wire[i].e => wire[i].whole
    BY <1>9, Zenon DEF ChainOf
  <2>2. 1 \in 1 .. Len(wire)
    BY <1>1, <2>1
  <2>3. p.whole
    BY <1>3, <2>1, <2>2, Zenon
  <2>. QED BY <1>3, <2>3, Zenon DEF NalFits
<1>16. SoFar /\ Dec!MayDecode /\ p.e => may
  <2> SUFFICES ASSUME SoFar, Dec!MayDecode, p.e PROVE may
    BY Zenon
  <2>1. CASE decCodec \in Dec!Nals264
    <3>1. isKey \/ decDec.key
      BY <2>1 DEF Dec!MayDecode, Dec!Nals264
    <3>. QED BY <1>2, <1>3, <1>11, <1>12, <1>13, <2>1, <3>1, Zenon
  <2>2. CASE decCodec \notin Dec!Nals264
    BY <1>5, <2>2, Zenon
  <2>. QED BY <2>1, <2>2
<1>17. decCodec \in Nals \cup Dec!Images /\ decCodec \notin Dec!Images
  BY DEF Nals, Dec!Images, Dec!Nals264
<1> HIDE DEF fits, anew, may
<1>. QED BY <1>8, <1>14, <1>15, <1>16, <1>17, StepIsKept, Zenon DEF p, d, r

\* A packet of VP8, VP9 or AV1 comes.
LEMMA ReceiveImage ==
    ASSUME DecInv, decCodec \in Dec!Images, NEW how \in {"sent", "bad", "unknown"},
           Dec!Receive(how)
    PROVE  DecInv' /\ Completes
<1> DEFINE p == Dec!Taken(how)
           d == Dec!Behind(decDec)
           r == Dec!Decode(d, p)
           starts == IF decCodec = "vp9" THEN p.s ELSE p.s /\ p.unit = 1
<1>0. decCodec \in Nals \cup Dec!Images /\ decCodec \notin Nals /\ decCodec \notin Dec!Nals264
  BY DEF Nals, Dec!Images, Dec!Nals264
<1>1. DecTypes /\ decDec \in DecState /\ wire # <<>> /\ Img(decDec) /\ Expects /\ Coming
  BY <1>0, Zenon DEF DecInv, DecTypes, Dec!Receive
<1>2. /\ d.mb = decDec.mb
      /\ d.frag = decDec.frag
      /\ d.seq # 0 /\ (d.seq = 1 <=> decDec.seq = 0) /\ Img(d)
  BY <1>1, BehindFields, Zenon
<1>3. /\ p \in DecPiece /\ p.unit = wire[1].unit /\ p.from = wire[1].from
      /\ p.s <=> wire[1].s
      /\ p.follows <=> gap = 0
      /\ p.as = how
  BY <1>1, TakenFields, Zenon
<1>4. \E first : r = Dec!Image(d, p, first) /\ (first <=> starts)
  <2>1. CASE decCodec = "vp8"
    <3>1. r = Dec!Image(d, p, p.s /\ p.unit = 1)
      BY <2>1, Zenon DEF Dec!Decode, Dec!Vp8
    <3>2. starts <=> p.s /\ p.unit = 1
      BY <2>1
    <3>. QED BY <3>1, <3>2, Zenon
  <2>2. CASE decCodec = "vp9"
    <3>1. r = Dec!Image(d, p, p.s)
      BY <2>2, Zenon DEF Dec!Decode, Dec!Vp9
    <3>2. starts <=> p.s
      BY <2>2, Zenon
    <3> DEFINE g == p.s
    <3>3. r = Dec!Image(d, p, g) /\ (starts <=> g)
      BY <3>1, <3>2, Zenon
    <3> HIDE DEF p, d, r, g, starts
    <3>. WITNESS g
    <3>. QED BY <3>3, Zenon
  <2>3. CASE decCodec = "av1"
    <3>1. r = Dec!Image(d, p, p.s /\ p.unit = 1)
      BY <2>3, Zenon DEF Dec!Decode, Dec!Av1
    <3>2. starts <=> p.s /\ p.unit = 1
      BY <2>3
    <3>. QED BY <3>1, <3>2, Zenon
  <2>. QED BY <2>1, <2>2, <2>3, Zenon DEF Dec!Images
<1>5. PICK first : r = Dec!Image(d, p, first) /\ (first <=> starts)
  BY <1>4, Zenon
<1> HIDE DEF p, d, r
<1>6. sent \in Nat /\ sent > 0 /\ ChainOf(wire, sent, decCodec)
  BY <1>1, Zenon DEF DecTypes
<1>7. Linked(wire, sent) /\ wire \in Seq(Dec!Packet)
  BY <1>0, <1>6, Zenon DEF ChainOf
<1>8. 1 \in 1 .. Len(wire)
  BY <1>1, <1>7
<1>9. decCodec = "vp9" => p.unit = 1
  BY <1>3, <1>6, <1>8, Zenon DEF ChainOf
<1>10. starts <=> p.s /\ p.unit = 1
  BY <1>9
<1>11. first <=> p.s /\ p.unit = 1
  BY <1>5, <1>10, Zenon
<1> HIDE DEF starts
<1>12. sent = 1 => first
  BY <1>1, <1>3, <1>7, <1>11, Zenon DEF Linked
<1>13. sent > 1 => ~first
  <2>1. sent > 1 => sent # 1
    OBVIOUS
  <2>. QED BY <1>3, <1>7, <1>8, <1>11, <2>1, Zenon DEF Linked
<1>14. ASSUME decDec.frag, decDec.seq = 0
       PROVE  decDec.mb # <<>> /\ Dec!Joined(decDec.mb[Len(decDec.mb)], p) /\ p.follows
  <2>1. /\ decDec.mb # <<>> /\ gap = 0
        /\ Link(decDec.mb[Len(decDec.mb)], wire[1])
    BY <1>1, <1>14, Zenon DEF Expects
  <2>. QED BY <1>3, <2>1, LinkJoins, Zenon
<1>15. d.frag /\ d.seq = 1 => d.mb # <<>> /\ Dec!Joined(d.mb[Len(d.mb)], p) /\ p.follows
  BY <1>2, <1>14, Zenon
<1> DEFINE fits == ImageFits(d, p, first)
<1>16. /\ After(d, p, fits, first, TRUE, r)
       /\ Img(r.dec) /\ OneImage(r.fed)
       /\ fits /\ ~p.mark /\ Fits(d, p) => r.dec.frag
  BY <1>2, <1>3, <1>5, <1>11, <1>15, ImageResult, Zenon DEF Fits
<1>17. SoFar /\ how = "sent" => fits /\ (sent > 1 => ~first)
  <2> SUFFICES ASSUME SoFar, how = "sent" PROVE fits
    BY <1>13, Zenon
  <2>1. sent = 1 \/ sent > 1
    BY <1>6
  <2>2. sent > 1 => decDec.frag /\ decDec.seq = 0
    BY <1>1, Zenon DEF Coming
  <2>. QED BY <1>2, <1>3, <1>12, <2>1, <2>2, Zenon DEF ImageFits
<1> HIDE DEF fits
<1>. QED BY <1>0, <1>16, <1>17, StepIsKept, Zenon DEF p, d, r

\* One piece.
LEMMA OnePiece ==
    ASSUME NEW p \in DecPiece
    PROVE  /\ <<p>> \in Seq(DecPiece) /\ <<p>> # <<>> /\ Len(<<p>>) = 1 /\ <<p>>[1] = p
           /\ 1 .. 1 - 1 = {}
OBVIOUS

\* A packet of daala comes.
LEMMA ReceiveDaala ==
    ASSUME DecInv, decCodec = "daala", NEW how \in {"sent", "bad", "unknown"}, Dec!Receive(how)
    PROVE  DecInv' /\ Completes
<1> DEFINE p == Dec!Taken(how)
           d == Dec!Behind(decDec)
           r == Dec!Decode(d, p)
           e == [d EXCEPT !.key = TRUE]
<1>0. decCodec \notin Nals /\ decCodec \notin Dec!Images /\ decCodec \notin Dec!Nals264
  BY DEF Nals, Dec!Images, Dec!Nals264
<1>1. DecTypes /\ decDec \in DecState /\ wire # <<>>
  BY Zenon DEF DecInv, DecTypes, Dec!Receive
<1>2. d \in DecState /\ d.key = decDec.key
  BY <1>1, BehindFields, Zenon
<1>3. /\ p \in DecPiece
      /\ p.s <=> wire[1].s
      /\ p.e <=> wire[1].e
      /\ p.mark <=> wire[1].mark
      /\ p.nr = sent
      /\ p.as = how
  BY <1>1, TakenFields, Zenon
<1>4. e \in DecState
  BY <1>2 DEF DecState
<1>5. r = CASE p.as # "sent" -> Dec!Stays(d)
            [] p.as = "sent" /\ p.mark -> Dec!Stays(e)
            [] OTHER -> [dec |-> d, fed |-> IF d.key THEN <<p>> ELSE <<>>]
  BY Zenon DEF Dec!Decode, Dec!Daala
<1> DEFINE one == <<p>>
           b == d.key
<1> HIDE DEF p, d, r, e
<1>6. one \in Seq(DecPiece) /\ one # <<>> /\ Len(one) = 1 /\ one[1] = p /\ <<>> \in Seq(DecPiece)
  BY <1>3, OnePiece
<1> HIDE DEF one, b
<1>7. /\ r.dec \in {d, e} /\ (r.fed = <<>> \/ r.fed = one)
      /\ p.as = "sent" /\ ~p.mark /\ b => r.fed = one
  <2>1. CASE p.as # "sent" \/ p.mark
    <3>1. r = Dec!Stays(d) \/ r = Dec!Stays(e)
      BY <1>5, <2>1, Zenon
    <3>. QED BY <2>1, <3>1 DEF Dec!Stays
  <2>2. CASE p.as = "sent" /\ ~p.mark
    <3>1. r = [dec |-> d, fed |-> IF b THEN one ELSE <<>>]
      BY <1>5, <2>2, Zenon DEF b, one
    <3>2. r.dec = d /\ r.fed = IF b THEN one ELSE <<>>
      BY <3>1
    <3>. QED BY <3>2, Zenon
  <2>. QED BY <2>1, <2>2
<1>8. r.dec \in DecState /\ r.fed \in Seq(DecPiece)
  BY <1>2, <1>4, <1>6, <1>7
<1>9. /\ DecTypes' /\ decDec' = r.dec /\ fed' = r.fed
      /\ wire # <<>> /\ wire' = Tail(wire) /\ decCodec' = decCodec
      /\ arrived' => how = "sent"
  BY <1>1, <1>8, ReceiveTypes, Zenon DEF p, d, r
<1>10. /\ wire \in Seq(Dec!Packet) /\ (\A i \in 1 .. Len(wire) : wire[i].s /\ wire[i].e)
       /\ ~wire[Len(wire)].mark
  BY <1>1, Zenon DEF DecTypes, ChainOf
<1>11. 1 \in 1 .. Len(wire) /\ (Tail(wire) = <<>> => Len(wire) = 1)
  <2> DEFINE l == Len(wire)
             t == Tail(wire)
  <2>1. l \in Nat /\ l > 0
    BY <1>1, <1>10
  <2>2. Len(t) = l - 1
    BY <1>1, <1>10
  <2> HIDE DEF l, t
  <2>4. t = <<>> => l = 1
    BY <2>1, <2>2
  <2>3. 1 \in 1 .. l
    BY <2>1
  <2>. QED BY <2>3, <2>4 DEF l, t
<1>12. p.s /\ p.e
  BY <1>3, <1>10, <1>11, Zenon
<1>13. Dec!UnitsAreWhole'
  <2>1. 1 .. Len(one) - 1 = {}
    BY <1>6
  <2>2. r.fed # <<>> => r.fed = one
    BY <1>7
  <2>. QED BY <1>0, <1>6, <1>9, <1>12, <2>1, <2>2, Zenon DEF Dec!UnitsAreWhole
<1>14. Completes
  <2> SUFFICES ASSUME wire' = <<>>, arrived', Dec!MayDecode
               PROVE  Dec!EndWithFrame(r.fed, sent)
    BY <1>9, Zenon DEF Completes
  <2>1. decDec.key
    BY DEF Dec!MayDecode, Dec!Nals264
  <2>2. p.as = "sent" /\ ~p.mark
    BY <1>3, <1>9, <1>10, <1>11, Zenon
  <2>3. r.fed = one
    BY <1>2, <1>7, <2>1, <2>2, Zenon DEF b
  <2>4. sent \in Nat
    BY <1>1 DEF DecTypes
  <2>5. \A i \in 0 .. 1 - 1 : i = 0 /\ Len(one) - i = 1 /\ sent - i = sent /\ i = 1 - 1
    BY <1>6, <2>4
  <2>6. \A i \in 0 .. 1 - 1 : one[Len(one) - i].nr = sent - i
    BY <1>3, <1>6, <2>5
  <2>7. Len(one) >= 1
    BY <1>6
  <2>. QED BY <2>3, <2>5, <2>6, <2>7, Zenon DEF Dec!EndWithFrame
<1>. QED BY <1>0, <1>9, <1>13, <1>14, Zenon DEF DecInv

\* A packet of H.263 or MPEG-4 comes.
LEMMA ReceiveStream ==
    ASSUME DecInv, decCodec \in Dec!Uncounted, NEW how \in {"sent", "bad", "unknown"},
           Dec!Receive(how)
    PROVE  DecInv' /\ Completes
<1> DEFINE p == Dec!Taken(how)
           d == Dec!Behind(decDec)
           r == Dec!Decode(d, p)
           a == Append(d.mb, p)
           X(key) == [d EXCEPT !.mb = a, !.key = key]
<1>0. decCodec \notin Nals /\ decCodec \notin Dec!Images /\ decCodec \notin Dec!Nals264
  BY DEF Nals, Dec!Images, Dec!Nals264, Dec!Uncounted
<1>1. DecTypes /\ decDec \in DecState /\ wire # <<>>
  BY Zenon DEF DecInv, DecTypes, Dec!Receive
<1>2. d \in DecState /\ d.mb \in Seq(DecPiece)
  <2>1. d \in DecState
    BY <1>1, BehindFields, Zenon
  <2>. QED BY <2>1 DEF DecState
<1>3. p \in DecPiece /\ p.key \in BOOLEAN /\ d.key \in BOOLEAN
  <2>1. p \in DecPiece
    BY <1>1, TakenFields, Zenon
  <2>. QED BY <1>2, <2>1 DEF DecPiece, Dec!Piece, DecState
<1>4. a \in Seq(DecPiece) /\ <<>> \in Seq(DecPiece)
  BY <1>2, <1>3
<1>5. r = Dec!Stays(d) \/ \E key \in BOOLEAN : \E may : r = Dec!Finish(X(key), p, may)
  <2>1. CASE decCodec = "mpeg4"
    <3>1. r = Dec!Finish(X(TRUE), p, TRUE)
      BY <2>1, Zenon DEF Dec!Decode, Dec!Mpeg4
    <3>. QED BY <3>1, Zenon
  <2>2. CASE decCodec = "h263"
    <3> DEFINE key == d.key \/ p.key
               may == X(key).key
    <3>1. r = IF p.as # "sent" THEN Dec!Stays(d) ELSE Dec!Finish(X(key), p, may)
      BY <2>2, Zenon DEF Dec!Decode, Dec!H263
    <3>2. key \in BOOLEAN
      BY <1>3
    <3> HIDE DEF p, d, r, a, key, may
    <3>. QED BY <3>1, <3>2, Zenon
  <2>. QED BY <2>1, <2>2, Zenon DEF Dec!Uncounted
<1> HIDE DEF p, d, r, a
<1>6. ASSUME NEW key \in BOOLEAN PROVE X(key) \in DecState /\ X(key).mb = a
  BY <1>2, <1>4 DEF DecState
<1> HIDE DEF X
<1>7. r.dec \in DecState /\ r.fed \in Seq(DecPiece)
  <2>1. CASE r = Dec!Stays(d)
    BY <1>2, <1>4, <2>1 DEF Dec!Stays
  <2>2. ASSUME NEW key \in BOOLEAN, NEW may, r = Dec!Finish(X(key), p, may)
        PROVE  r.dec \in DecState /\ r.fed \in Seq(DecPiece)
    <3> DEFINE x == X(key)
    <3>1. x \in DecState /\ x.mb = a /\ Finished(x, p, may, r)
      BY <1>6, <2>2, FinishGives, Zenon
    <3> HIDE DEF x
    <3>2. Dec!Cleared(x) \in DecState
      BY <3>1, ClearedNal, Zenon
    <3>. QED BY <1>4, <3>1, <3>2, Zenon DEF Finished
  <2>. QED BY <1>5, <2>1, <2>2, Zenon
<1>8. /\ DecTypes' /\ decCodec' = decCodec
  BY <1>1, <1>7, ReceiveTypes, Zenon DEF p, d, r
<1>9. Dec!UnitsAreWhole'
  BY <1>8, Zenon DEF Dec!UnitsAreWhole
<1>10. Completes
  BY Zenon DEF Completes
<1>. QED BY <1>0, <1>8, <1>9, <1>10, Zenon DEF DecInv

\* A packet is lost.
LEMMA LoseKeeps ==
    ASSUME DecInv, Dec!Lose
    PROVE  DecInv' /\ Completes
<1>1. /\ wire # <<>> /\ wire' = Tail(wire) /\ sent' = sent + 1
      /\ decDec' = Dec!Behind(decDec) /\ gap' = Dec!Later(gap)
      /\ arrived' = FALSE /\ fed' = <<>>
      /\ decCodec' = decCodec
      /\ isKey' = isKey
      /\ decUp' = decUp
      /\ before' = before
  BY Zenon DEF Dec!Lose
<1>2. DecTypes /\ decDec \in DecState
  BY Zenon DEF DecInv, DecTypes
<1>3. /\ decDec' \in DecState
      /\ decDec'.seq # 0
      /\ Nal(decDec) => Nal(decDec')
      /\ Img(decDec) => Img(decDec')
  BY <1>1, <1>2, BehindFields, Zenon
<1>4. gap' \in 0 .. 2
  BY <1>1, <1>2 DEF DecTypes, Dec!Later, Dec!Far
<1>5. /\ sent' \in Nat /\ sent' > 1 /\ ChainOf(wire', sent', decCodec')
  BY <1>1, <1>2, RestIsKept, Zenon
<1>6. sent' > 0
  BY <1>5
<1>7. {isKey', decUp', before'} \subseteq BOOLEAN /\ decCodec' \in AllCodecs
  BY <1>1, <1>2 DEF DecTypes
<1>8. ~arrived'
  BY <1>1, Zenon
<1>9. {isKey', decUp', arrived', before'} \subseteq BOOLEAN
  BY <1>1, <1>7
<1>10. fed' \in Seq(DecPiece)
  BY <1>1, EmptyChain, Zenon
<1>11. DecTypes'
  BY <1>3, <1>4, <1>5, <1>6, <1>7, <1>9, <1>10, Zenon DEF DecTypes
<1>12. Expects' /\ Coming'
  BY <1>3, <1>8, Zenon DEF Expects, Coming, SoFar
<1>13. Dec!UnitsAreWhole' /\ Completes
  BY <1>1, <1>8, Zenon DEF Dec!UnitsAreWhole, Completes
<1>14. (decCodec' \in Nals => Nal(decDec')) /\ (decCodec' \in Dec!Images => Img(decDec'))
  BY <1>1, <1>3, Zenon DEF DecInv
<1>. QED BY <1>8, <1>11, <1>12, <1>13, <1>14, Zenon DEF DecInv

\* The peer sends a frame.
LEMMA NewFrameKeeps ==
    ASSUME DecInv, NEW lens \in DecFrames, NEW k \in BOOLEAN, Dec!NewFrame(lens, k)
    PROVE  DecInv' /\ Completes
<1> DEFINE P == Dec!PacketsOf(lens)
           H == <<Dec!Header>> \o P
<1>1. /\ wire = <<>>
      /\ wire' = IF decCodec = "daala" /\ sent = 0 THEN H ELSE P
      /\ isKey' = k
      /\ before' = arrived
      /\ arrived' = TRUE
      /\ sent' = 1 /\ fed' = <<>>
      /\ decCodec' = decCodec
      /\ decUp' = decUp
      /\ decDec' = decDec
      /\ gap' = gap
  BY Zenon DEF Dec!NewFrame
<1>2. DecTypes /\ decDec \in DecState /\ decCodec \in AllCodecs
  BY Zenon DEF DecInv, DecTypes
<1>3. wire' = P \/ (decCodec = "daala" /\ wire' = H)
  BY <1>1, Zenon
<1>4. ChainOf(wire', 1, decCodec) /\ (decCodec \in Dec!Nals264 => wire' # <<>>)
  BY <1>2, <1>3, FrameChains, Zenon
<1> HIDE DEF P, H
<1>5. {isKey', decUp', arrived', before'} \subseteq BOOLEAN
  BY <1>1, <1>2 DEF DecTypes
<1>6. 1 \in Nat /\ 1 > 0 /\ ~(1 > 1)
  OBVIOUS
<1>7. fed' \in Seq(DecPiece) /\ gap' \in 0 .. 2
  BY <1>1, <1>2, EmptyChain, Zenon DEF DecTypes
<1>8. DecTypes'
  BY <1>1, <1>2, <1>4, <1>5, <1>6, <1>7, Zenon DEF DecTypes
<1>9. decCodec \in Nals \cup Dec!Images => Expects'
  BY <1>1, Zenon DEF DecInv, Expects
<1>10. Coming'
  BY <1>1, <1>6, Zenon DEF Coming, SoFar, DecInv
<1>11. Dec!UnitsAreWhole' /\ Completes
  BY <1>1, Zenon DEF Dec!UnitsAreWhole, Completes
<1>12. (decCodec' \in Nals => Nal(decDec')) /\ (decCodec' \in Dec!Images => Img(decDec'))
  BY <1>1, Zenon DEF DecInv
<1>13. decCodec' \in Nals \cup Dec!Images => Expects'
  BY <1>1, <1>9, Zenon
<1>. QED BY <1>1, <1>4, <1>8, <1>10, <1>11, <1>12, <1>13, Zenon DEF DecInv

\* decode_update.
LEMMA UpdateKeeps ==
    ASSUME DecInv, NEW ok \in BOOLEAN, Dec!Update(ok)
    PROVE  DecInv' /\ Completes
<1>1. /\ wire = <<>> /\ decUp' = Dec!Updated(ok)
      /\ fed' = <<>>
      /\ decCodec' = decCodec
      /\ wire' = wire
      /\ isKey' = isKey
      /\ decDec' = decDec
      /\ sent' = sent
      /\ gap' = gap
      /\ arrived' = arrived
      /\ before' = before
  BY Zenon DEF Dec!Update
<1>2. Dec!Updated(ok) \in BOOLEAN
  BY DEF Dec!Updated, Dec!AvcodecUpdate, Dec!JdkUpdate, Dec!Openh264Update, Dec!WelsUpdate,
     Dec!H265Update, Dec!Vp8Update, Dec!Vp9Update, Dec!Av1Update, Dec!DaalaUpdate
<1>3. DecTypes /\ fed' \in Seq(DecPiece)
  BY <1>1, EmptyChain, Zenon DEF DecInv
<1>4. {isKey', decUp', arrived', before'} \subseteq BOOLEAN
  BY <1>1, <1>2, <1>3 DEF DecTypes
<1>5. DecTypes'
  BY <1>1, <1>3, <1>4, Zenon DEF DecTypes
<1>6. Dec!UnitsAreWhole' /\ Completes
  BY <1>1, Zenon DEF Dec!UnitsAreWhole, Completes
<1>7. /\ decCodec' \in Nals => Nal(decDec')
      /\ decCodec' \in Dec!Images => Img(decDec')
      /\ decCodec' \in Dec!Nals264 /\ arrived' /\ wire' = <<>> => ~decDec'.frag
  BY <1>1, Zenon DEF DecInv
<1>8. decCodec' \in Nals \cup Dec!Images => Expects' /\ Coming'
  BY <1>1, Zenon DEF DecInv, Expects, Coming
<1>. QED BY <1>5, <1>6, <1>7, <1>8, Zenon DEF DecInv

\* DecInv holds at the beginning.
LEMMA DecInit == ASSUME Dec!Init PROVE DecInv
<1> DEFINE f == Dec!Fresh
<1>1. f \in DecState /\ f.mb = <<>> /\ f.frag = FALSE
  BY DEF Dec!Fresh, DecState, Dec!Far
<1>2. /\ decCodec \in AllCodecs /\ wire = <<>> /\ isKey = FALSE /\ decUp = FALSE /\ decDec = f
      /\ fed = <<>> /\ sent = 0 /\ gap = 2 /\ arrived = TRUE /\ before = TRUE
  BY DEF Dec!Init, Dec!Far
<1> HIDE DEF f
<1>3. Nal(f) /\ Img(f) /\ ~f.frag
  BY <1>1, EmptyChain DEF Nal, Img
<1>4. ChainOf(<<>>, 0, decCodec)
  <2>1. <<>> \in Seq(Dec!Packet) /\ Len(<<>>) = 0 /\ 1 .. 0 = {} /\ 1 .. 0 - 1 = {}
    OBVIOUS
  <2>2. Linked(<<>>, 0)
    BY <2>1, Zenon DEF Linked
  <2>. QED BY <2>1, <2>2, Zenon DEF ChainOf
<1>5. /\ {isKey, decUp, arrived, before} \subseteq BOOLEAN
      /\ sent \in Nat
      /\ gap \in 0 .. 2
  <2>1. isKey \in BOOLEAN /\ decUp \in BOOLEAN /\ arrived \in BOOLEAN /\ before \in BOOLEAN
    BY <1>2, Zenon
  <2>2. 0 \in Nat /\ 2 \in 0 .. 2
    OBVIOUS
  <2>3. sent \in Nat /\ gap \in 0 .. 2
    BY <1>2, <2>2, Zenon
  <2>. QED BY <2>1, <2>3
<1>6. DecTypes
  BY <1>1, <1>2, <1>4, <1>5, EmptyChain, Zenon DEF DecTypes
<1>7. Expects /\ Coming /\ Dec!UnitsAreWhole
  BY <1>2, <1>3, Zenon DEF Expects, Coming, Dec!UnitsAreWhole
<1>. QED BY <1>2, <1>3, <1>6, <1>7, Zenon DEF DecInv

\* DecInv is kept, and a frame that comes complete is decoded.
LEMMA DecNext ==
    ASSUME DecInv, [Dec!Next]_decVars
    PROVE  DecInv' /\ [Completes]_(Dec!vars)
<1>1. ASSUME NEW how \in {"sent", "bad", "unknown"}, Dec!Receive(how)
      PROVE  DecInv' /\ Completes
  <2>1. decCodec \in AllCodecs
    BY Zenon DEF DecInv, DecTypes
  <2>2. \/ decCodec \in Nals \/ decCodec \in Dec!Images \/ decCodec \in Dec!Uncounted
        \/ decCodec = "daala"
    BY <2>1 DEF AllCodecs, Nals, Dec!Nals264, Dec!Images, Dec!Uncounted
  <2>. QED BY <1>1, <2>2, ReceiveNal, ReceiveImage, ReceiveStream, ReceiveDaala, Zenon
<1>2. CASE Dec!Next
  BY <1>1, <1>2, LoseKeeps, NewFrameKeeps, UpdateKeeps, Zenon DEF Dec!Next
<1>3. CASE UNCHANGED decVars
  <2>1. /\ decCodec' = decCodec
        /\ wire' = wire
        /\ isKey' = isKey
        /\ decUp' = decUp
        /\ decDec' = decDec
        /\ fed' = fed
        /\ sent' = sent
        /\ gap' = gap
        /\ arrived' = arrived
        /\ before' = before
    BY <1>3 DEF decVars
  <2>2. DecTypes'
    BY <2>1, Zenon DEF DecInv, DecTypes
  <2>3. Expects' <=> Expects
    BY <2>1, Zenon DEF Expects
  <2>4. Coming' <=> Coming
    BY <2>1, Zenon DEF Coming, SoFar
  <2>5. Dec!UnitsAreWhole'
    BY <2>1, Zenon DEF DecInv, Dec!UnitsAreWhole
  <2>6. DecInv'
    BY <2>1, <2>2, <2>3, <2>4, <2>5, Zenon DEF DecInv
  <2>7. UNCHANGED Dec!vars
    BY <2>1, Zenon DEF Dec!vars
  <2>. QED BY <2>6, <2>7
<1>. QED BY <1>2, <1>3

\* And it says what the components promise.
LEMMA DecHolds == ASSUME DecInv PROVE Dec!TypeOK /\ Dec!UnitsAreWhole
<1>1. DecTypes /\ Dec!UnitsAreWhole
  BY Zenon DEF DecInv
<1>2. wire \in Seq(Dec!Packet)
  BY <1>1, Zenon DEF DecTypes, ChainOf
<1>3. /\ decDec.mb \in Seq(DecPiece) /\ decDec.start \in Nat /\ decDec.frag \in BOOLEAN
      /\ decDec.seq \in 0 .. 2 /\ decDec.key \in BOOLEAN /\ fed \in Seq(DecPiece)
  BY <1>1 DEF DecTypes, DecState
<1>4. DecPiece \subseteq Dec!Piece
  BY DEF DecPiece
<1>5. \A q \in Seq(DecPiece) : Dec!ToSet(q) \subseteq Dec!Piece
  BY <1>4 DEF Dec!ToSet
<1>6. \A i \in DOMAIN wire : wire[i] \in Dec!Packet
  BY <1>2
<1>7. /\ decCodec \in AllCodecs /\ {isKey, decUp, arrived, before} \subseteq BOOLEAN
      /\ sent \in Nat /\ gap \in 0 .. 2
  BY <1>1, Zenon DEF DecTypes
<1>8. isKey \in BOOLEAN /\ decUp \in BOOLEAN /\ arrived \in BOOLEAN /\ before \in BOOLEAN
  BY <1>7
<1>. QED BY <1>1, <1>3, <1>5, <1>6, <1>7, <1>8, Zenon DEF Dec!TypeOK, Dec!Far

-----------------------------------------------------------------------------
(* All components. *)

\* What the components begin with and do, whichever of them moves.
LEMMA Components ==
    /\ AllInit => /\ Init /\ Rx!Init /\ Enc!Init /\ Dec!Init /\ Gst!Init /\ GstErr!Init
    /\ [AllNext]_all => /\ [Next]_vars /\ [Rx!Next]_rxVars /\ [Enc!Next]_encVars
                        /\ [Dec!Next]_decVars /\ [Gst!Next]_gstVars
                        /\ [GstErr!Next]_gstErrVars
<1> DEFINE Others(p) ==
      /\ p # "tx" => UNCHANGED vars
      /\ p # "rx" => UNCHANGED rxVars
      /\ p # "enc" => UNCHANGED encVars
      /\ p # "dec" => UNCHANGED decVars
      /\ p # "gst" => UNCHANGED gstVars
      /\ p # "gsterr" => UNCHANGED gstErrVars
<1>1. AllInit => /\ Init /\ Rx!Init /\ Enc!Init /\ Dec!Init /\ Gst!Init /\ GstErr!Init
  BY Zenon DEF AllInit
<1>2. ASSUME UNCHANGED all PROVE Others("none")
  BY <1>2 DEF all
<1>3. ASSUME NEW p, Only(p) PROVE Others(p)
  BY <1>3, Zenon DEF Only
<1> HIDE DEF Others
<1>4. ASSUME [AllNext]_all
      PROVE  \/ Others("none")
             \/ Others("tx") /\ Next
             \/ Others("rx") /\ Rx!Next
             \/ Others("enc") /\ Enc!Next
             \/ Others("dec") /\ Dec!Next
             \/ Others("gst") /\ Gst!Next
             \/ Others("gsterr") /\ GstErr!Next
  BY <1>2, <1>3, <1>4, Zenon DEF AllNext
<1>. QED BY <1>1, <1>4, Zenon DEF Others

\* The send queue, for any number of packets per frame and any interleaving of the thread of the
\* source and the main loop: it never holds packets of two frames (vidqueue_alloc and the early
\* return of vidsrc_frame_handler), and the source is gone before the queue is (stop_tx,
\* video_destructor).
THEOREM QueueSafe == AllSpec => []QueueIsSafe
<1>1. AllInit => QueueInv
  BY Components, QueueInit, Zenon
<1>2. QueueInv /\ [AllNext]_all => QueueInv'
  BY Components, QueueNext, Zenon
<1>. QED BY <1>1, <1>2, QueueHolds, PTL DEF AllSpec

\* The receiver, for any interval and any packets, pauses and results of the decoder: while the
\* picture is broken the timer runs, so that a picture update is asked for until an intra frame
\* comes, once per interval; and each packet meets the decoder of its payload type or none
\* (stream_recv_handler, pt_handler and video_decoder_set of video.c), if every codec of the
\* offer has a decoder.
THEOREM AsksHold ==
    ASSUME Decodable = Codec
    PROVE  AllSpec => AsksUntilIntra
<1> DEFINE Once == since' < since => since >= Interval \/ ~rxBroken'
<1>1. AllInit => RxInv
  BY Components, RxInit, Zenon
<1>2. RxInv /\ [AllNext]_all => RxInv'
  BY Components, RxNext, Zenon
<1>3. RxInv /\ [AllNext]_all => [Once]_(Rx!vars)
  BY Components, RxNext, Zenon
<1>4. AllSpec => []RxInv
  BY <1>1, <1>2, PTL DEF AllSpec
<1>5. AllSpec => []Rx!AsksUntilIntra /\ []Rx!PayloadMeetsDecoder
  BY <1>4, RxHolds, PTL
<1>6. AllSpec => Rx!AsksOncePerInterval
  BY <1>3, <1>4, PTL DEF AllSpec, Rx!AsksOncePerInterval
<1>. QED BY <1>5, <1>6, PTL DEF AsksUntilIntra

\* Frames, for any sizes of frames, packets and pictures: the packets of a frame carry all of it
\* once and in order, end with the marker and are no larger than asked, a frame is encoded as
\* asked or set last, and openh264 begins with a key frame (encode_update and encode of the
\* codecs' modules, gst_video's pipeline); and whatever is lost or damaged on the way, a decoder
\* is given whole units, and every frame that comes complete (decode of the codecs' modules).
THEOREM FramesWhole == AllSpec => FramesArriveWhole
<1> DEFINE Key == (encCodec \in {"openh264", "wels"} /\ was'.kind = "raw" /\ out'.packets # <<>>)
                      => idr \/ was'.key
<1>1. AllInit => EncInv /\ GstInv /\ GstErrInv /\ DecInv
  BY Components, EncInit, GstInit, GstErrInit, DecInit, Zenon
<1>2. EncInv /\ [AllNext]_all => EncInv' /\ [Key]_encVars
  BY Components, EncNext, Zenon
<1>3. GstInv /\ [AllNext]_all => GstInv'
  BY Components, GstNext, Zenon
<1>4. GstErrInv /\ [AllNext]_all => GstErrInv'
  BY Components, GstErrNext, Zenon
<1>5. DecInv /\ [AllNext]_all => DecInv' /\ [Completes]_(Dec!vars)
  BY Components, DecNext, Zenon
<1>6. AllSpec => []EncInv /\ []GstInv /\ []GstErrInv /\ []DecInv
  BY <1>1, <1>2, <1>3, <1>4, <1>5, PTL DEF AllSpec
<1>7. EncInv => Enc!FrameIsCarried /\ Enc!FrameHasEnd /\ Enc!PacketsFit /\ Enc!EncodesAsAsked
  BY EncHolds, Zenon
<1>8. GstInv => Gst!EncodesAsSet
  BY GstHolds, Zenon
<1>9. GstErrInv => GstErr!EncodesAsSet
  BY GstErrHolds, Zenon
<1>10. DecInv => Dec!UnitsAreWhole
  BY DecHolds, Zenon
<1>11. [Key]_encVars => [Key]_(Enc!vars)
  BY Zenon DEF encVars, Enc!vars
<1>12. AllSpec => Enc!BeginsWithKey
  BY <1>2, <1>6, <1>11, PTL DEF AllSpec, Enc!BeginsWithKey
<1>13. AllSpec => Dec!CompleteIsDecoded
  <2> DEFINE Body ==
        (wire # <<>> /\ wire' = <<>> /\ arrived' /\ decCodec \notin Dec!Uncounted
           /\ (decCodec \in Dec!Nals264 => before) /\ Dec!MayDecode)
        => Dec!EndWithFrame(fed', sent)
  <2>1. [Completes]_(Dec!vars) => [Body]_(Dec!vars)
    BY Zenon DEF Completes
  <2>. QED BY <1>5, <1>6, <2>1, PTL DEF AllSpec, Dec!CompleteIsDecoded
<1>. QED BY <1>6, <1>7, <1>8, <1>9, <1>10, <1>12, <1>13, PTL DEF FramesArriveWhole

\* The types of all parts, of which the receiver's need that every codec of the offer has a
\* decoder.
THEOREM VideoTypes ==
    ASSUME Decodable = Codec
    PROVE  AllSpec => []AllTypesOK
<1>1. AllInit => TypeOK /\ RxInv /\ EncInv /\ DecInv /\ GstInv /\ GstErrInv
  BY Components, TxTypesInit, RxInit, EncInit, DecInit, GstInit, GstErrInit, Zenon
<1>2. TypeOK /\ [AllNext]_all => TypeOK'
  BY Components, TxTypesNext, Zenon
<1>3. RxInv /\ [AllNext]_all => RxInv'
  BY Components, RxNext, Zenon
<1>4. EncInv /\ [AllNext]_all => EncInv'
  BY Components, EncNext, Zenon
<1>5. DecInv /\ [AllNext]_all => DecInv'
  BY Components, DecNext, Zenon
<1>6. GstInv /\ [AllNext]_all => GstInv'
  BY Components, GstNext, Zenon
<1>7. GstErrInv /\ [AllNext]_all => GstErrInv'
  BY Components, GstErrNext, Zenon
<1>8. TypeOK /\ RxInv /\ EncInv /\ DecInv /\ GstInv /\ GstErrInv => AllTypesOK
  BY RxHolds, EncHolds, DecHolds, GstHolds, GstErrHolds, Zenon DEF AllTypesOK
<1>. QED BY <1>1, <1>2, <1>3, <1>4, <1>5, <1>6, <1>7, <1>8, PTL DEF AllSpec

-----------------------------------------------------------------------------
(* The values that TLC checks. *)

\* Frames of units that fit a packet, that fill one or two, that need another for the rest.
MCEncFrames == {<<4>>, <<8>>, <<12>>, <<14>>, <<4, 9>>}
MCDecFrames == {<<4>>, <<14>>, <<4, 9>>}
=============================================================================
