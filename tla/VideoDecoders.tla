---------------------------- MODULE VideoDecoders ----------------------------
(***************************************************************************)
(* How the video codecs put frames together from packets: the decode       *)
(* handlers of modules avcodec (H.264, H.263, MPEG-4), jdkcodec, openh264, *)
(* openh264.20180402, h265, vp8, vp9, av1 and daala.  A sender of the same *)
(* codec cuts frames as VideoPackets says; the network loses packets and   *)
(* damages headers.  Packets that come late or twice are the business of   *)
(* the stream (RtpReceive).                                                *)
(***************************************************************************)
EXTENDS VideoPackets

CONSTANTS
    Codec,     \* the codecs, by module and format
    Frames,    \* the frames: the lengths of their units
    PktSize,   \* videnc_param.pktsize
    MaxSize    \* DECODE_MAXSZ, more than a frame

Nals264 == {"avc264", "jdk", "openh264", "wels"}
Images == {"vp8", "vp9", "av1"}
Uncounted == {"mpeg4", "h263"}      \* these do not look at the sequence number

\* What is assumed of the constants; the module that gives them values asserts it.
VideoDecodersAssumption ==
    /\ Codec \subseteq Nals264 \cup Images \cup Uncounted \cup {"h265", "daala"}
    /\ PktSize \in Nat /\ PktSize > 4 /\ MaxSize \in Nat
    /\ Frames \subseteq Seq(Nat)
    /\ \A f \in Frames : f # <<>> /\ \A i \in DOMAIN f : f[i] > 0

VARIABLES
    codec,     \* the codec of the stream
    wire,      \* the packets of the frame that were not yet sent
    isKey,     \* the frame can be decoded by itself
    up,        \* there is a viddec_state
    dec,       \* and this is it
    fed,       \* what the decoder was given in this step
    sent,      \* history: the packets of the frame that were sent
    gap,       \* history: packets since the last that went into the buffer, or Far
    arrived,   \* history: all packets of the frame came and found room
    before     \* history: all of the frame before it came

vars == <<codec, wire, isKey, up, dec, fed, sent, gap, arrived, before>>

\* Of the difference of two sequence numbers only 1 counts. (After 2^16 packets it
\* would be 1 again.)
Far == 2
Later(d) == IF d = Far THEN Far ELSE d + 1

\* A new state: the buffer, the place where the fragments begin, whether a
\* fragment (an image) has begun, how far back its last packet is (frag_seq, seq),
\* whether there was a key frame (for daala: all headers).
Fresh == [mb |-> <<>>, start |-> 0, frag |-> FALSE, seq |-> Far, key |-> FALSE]

\* A packet that came, the nr-th of its frame, right after the last one in the buffer
\* or not; or one with a header that is damaged: it cannot be decoded, or it names
\* another type of unit.
Piece == [unit : Nat, from : Nat, to : Nat, hdr : Nat, whole : BOOLEAN, s : BOOLEAN,
          e : BOOLEAN, mark : BOOLEAN, key : BOOLEAN, nr : Nat, follows : BOOLEAN,
          as : {"sent", "bad", "unknown"}]

TypeOK ==
    /\ codec \in Codec /\ isKey \in BOOLEAN
    /\ \A i \in DOMAIN wire : wire[i] \in Packet
    /\ up \in BOOLEAN /\ ToSet(dec.mb) \subseteq Piece /\ dec.start \in Nat
    /\ dec.frag \in BOOLEAN /\ dec.seq \in 0 .. Far /\ dec.key \in BOOLEAN
    /\ ToSet(fed) \subseteq Piece
    /\ sent \in Nat /\ gap \in 0 .. Far /\ arrived \in BOOLEAN /\ before \in BOOLEAN

Init ==
    /\ codec \in Codec
    /\ wire = <<>> /\ isKey = FALSE
    /\ up = FALSE /\ dec = Fresh /\ fed = <<>>
    /\ sent = 0 /\ gap = Far /\ arrived = TRUE /\ before = TRUE

-----------------------------------------------------------------------------
(* The parts of the decode handlers. *)

Bytes(mb) == FoldLeft(LAMBDA n, p : n + (p.to - p.from + 1), 0, mb)
Cleared(d) == [d EXCEPT !.mb = <<>>, !.frag = FALSE]
Rewound(d) == [d EXCEPT !.mb = SubSeq(@, 1, d.start)]       \* fragment_rewind

Stays(d) == [dec |-> d, fed |-> <<>>]

\* The end of a handler: a frame without marker goes on unless it is too large;
\* with the marker it is given to the decoder, if that may be and no fragment is open.
Finish(d, p, may) ==
    IF ~p.mark THEN Stays(IF Bytes(d.mb) > MaxSize THEN Cleared(d) ELSE d)
    ELSE [dec |-> Cleared(d), fed |-> IF may THEN d.mb ELSE <<>>]

\* Mutant: a fragment is not compared with the one before it.
MissedNever(d) == FALSE

\* seq_diff: a packet is missing between the last one and this one.
Missed(d) == d.seq # 1

\* H.264 and H.265: whole units and fragments of one. A fragment is expected to
\* follow the one before it; one that does not is thrown away with what came of its
\* unit. A first fragment while another unit is open replaces that (H.265), or is
\* thrown away with it (H.264, which then still waits for the rest). With waits
\* nothing is decoded before the first key frame.
NalUnit(d, p, replaces, waits) ==
    LET open == IF d.frag /\ p.whole THEN [Rewound(d) EXCEPT !.frag = FALSE] ELSE d
        begun == [d EXCEPT !.start = Len(d.mb), !.frag = TRUE]
        more(x) == [x EXCEPT !.mb = Append(@, p), !.key = @ \/ (p.key /\ p.s)]
        frag(x) == [more(x) EXCEPT !.frag = ~p.e, !.seq = 0]
    IN  CASE p.as = "bad" -> Stays(d)
          [] p.as = "unknown" -> Stays(IF d.frag THEN [Rewound(d) EXCEPT !.frag = FALSE] ELSE d)
          [] p.as = "sent" /\ p.whole -> Finish(more(open), p, ~waits \/ more(open).key)
          [] p.as = "sent" /\ ~p.whole /\ p.s /\ d.frag ->
                IF replaces THEN Finish(frag([Rewound(d) EXCEPT !.frag = TRUE]), p, p.e)
                ELSE Stays(Rewound(d))
          [] p.as = "sent" /\ ~p.whole /\ p.s /\ ~d.frag ->
                Finish(frag(begun), p, p.e /\ (~waits \/ frag(begun).key))
          [] p.as = "sent" /\ ~p.whole /\ ~p.s /\ ~d.frag -> Stays(d)
          [] p.as = "sent" /\ ~p.whole /\ ~p.s /\ d.frag /\ Missed(d) ->
                Stays([Rewound(d) EXCEPT !.frag = FALSE])
          [] OTHER -> Finish(frag(d), p, p.e /\ (~waits \/ d.key))

\* decode_h264 of avcodec, h264_decode of jdkcodec, openh264_decode of both versions.
Avc264(d, p) == NalUnit(d, p, FALSE, TRUE)
Jdk(d, p) == NalUnit(d, p, FALSE, TRUE)
Openh264(d, p) == NalUnit(d, p, FALSE, TRUE)
Wels(d, p) == NalUnit(d, p, FALSE, TRUE)

H265(d, p) == NalUnit(d, p, TRUE, FALSE)

\* VP8, VP9 and AV1: an image begins with its first packet, whatever came before,
\* and is given up when a packet is missing.
Image(d, p, first) ==
    LET begun == [d EXCEPT !.mb = <<p>>, !.frag = TRUE, !.seq = 0]
        more == [d EXCEPT !.mb = Append(@, p), !.seq = 0]
    IN  CASE p.as # "sent" -> Stays(d)
          [] p.as = "sent" /\ first -> Finish(begun, p, TRUE)
          [] p.as = "sent" /\ ~first /\ ~d.frag -> Stays(d)
          [] p.as = "sent" /\ ~first /\ d.frag /\ Missed(d) -> Stays(Cleared(d))
          [] OTHER -> Finish(more, p, TRUE)

\* The first packet is that of the first partition (VP8, AV1), or any with the bit.
Vp8(d, p) == Image(d, p, p.s /\ p.unit = 1)
Vp9(d, p) == Image(d, p, p.s)
Av1(d, p) == Image(d, p, p.s /\ p.unit = 1)

\* MPEG-4 has no header to be damaged; what comes is taken as it comes.
Mpeg4(d, p) == Finish([d EXCEPT !.mb = Append(@, p), !.key = TRUE], p, TRUE)

\* H.263: a damaged header is an error; a key frame is awaited.
H263(d, p) ==
    LET more == [d EXCEPT !.mb = Append(@, p), !.key = @ \/ p.key]
    IN  IF p.as # "sent" THEN Stays(d) ELSE Finish(more, p, more.key)

\* daala: each packet by itself, the header (marked as the first of the stream)
\* before all others.
Daala(d, p) ==
    CASE p.as # "sent" -> Stays(d)
      [] p.as = "sent" /\ p.mark -> Stays([d EXCEPT !.key = TRUE])
      [] OTHER -> [dec |-> d, fed |-> IF d.key THEN <<p>> ELSE <<>>]

Decode(d, p) ==
    CASE codec = "avc264" -> Avc264(d, p)
      [] codec = "jdk" -> Jdk(d, p)
      [] codec = "openh264" -> Openh264(d, p)
      [] codec = "wels" -> Wels(d, p)
      [] codec = "h265" -> H265(d, p)
      [] codec = "vp8" -> Vp8(d, p)
      [] codec = "vp9" -> Vp9(d, p)
      [] codec = "av1" -> Av1(d, p)
      [] codec = "mpeg4" -> Mpeg4(d, p)
      [] codec = "h263" -> H263(d, p)
      [] OTHER -> Daala(d, p)

-----------------------------------------------------------------------------
(* The decoder of a stream, and the packets that come. *)

\* Whether decode_update leaves a decoder when the library opens (ok) or does not.
\* jdkcodec and both openh264 look at no result; daala opens with the headers.
AvcodecUpdate(ok) == ok
JdkUpdate(ok) == TRUE
Openh264Update(ok) == TRUE
WelsUpdate(ok) == TRUE
H265Update(ok) == ok
Vp8Update(ok) == ok
Vp9Update(ok) == ok
Av1Update(ok) == ok
DaalaUpdate(ok) == TRUE

Updated(ok) ==
    CASE codec \in {"avc264", "h263", "mpeg4"} -> AvcodecUpdate(ok)
      [] codec = "jdk" -> JdkUpdate(ok)
      [] codec = "openh264" -> Openh264Update(ok)
      [] codec = "wels" -> WelsUpdate(ok)
      [] codec = "h265" -> H265Update(ok)
      [] codec = "vp8" -> Vp8Update(ok)
      [] codec = "vp9" -> Vp9Update(ok)
      [] codec = "av1" -> Av1Update(ok)
      [] OTHER -> DaalaUpdate(ok)

\* decode_update: one decoder per stream; an existing one stays, or (jdkcodec and
\* openh264) is never met, since video.c releases it first.
Update(ok) ==
    /\ ~up /\ wire = <<>>
    /\ up' = Updated(ok)
    /\ fed' = <<>>
    /\ UNCHANGED <<codec, wire, isKey, dec, sent, gap, arrived, before>>

\* The packets of a frame, cut by the encoder of the codec.
PacketsOf(lens) ==
    CASE codec \in Nals264 -> H264Frame(lens, PktSize)
      [] codec = "h265" -> H265Frame(lens, PktSize)
      [] codec = "vp8" -> Vp8Frame(lens, PktSize)
      [] codec = "vp9" -> Vp9Frame(<<lens[1]>>, PktSize)
      [] codec = "av1" -> Av1Frame(<<lens[1]>>, PktSize)
      [] codec = "mpeg4" -> Mpeg4Frame(lens, PktSize)
      [] codec = "h263" -> H263Frame(lens, PktSize)
      [] OTHER -> DaalaFrame(lens)

\* The header that the encoder of daala sends once, when it is opened.
Header == [unit |-> 0, from |-> 1, to |-> 1, hdr |-> 0, whole |-> TRUE, s |-> TRUE, e |-> TRUE,
           mark |-> TRUE]

\* The peer sends a frame.
NewFrame(lens, key) ==
    /\ up /\ wire = <<>>
    /\ wire' = IF codec = "daala" /\ sent = 0 THEN <<Header>> \o PacketsOf(lens)
                ELSE PacketsOf(lens)
    /\ isKey' = key /\ before' = arrived /\ arrived' = TRUE
    /\ sent' = 1 /\ fed' = <<>>
    /\ UNCHANGED <<codec, up, dec, gap>>

Taken(as) ==
    LET p == Head(wire)
    IN  [unit |-> p.unit, from |-> p.from, to |-> p.to, hdr |-> p.hdr, whole |-> p.whole, s |-> p.s,
         e |-> p.e, mark |-> p.mark, key |-> isKey, nr |-> sent, follows |-> gap = 0, as |-> as]

\* Each packet that is sent is one more number after the last one taken.
Behind(d) == [d EXCEPT !.seq = Later(@)]

\* A packet comes as it was sent, or damaged.
Receive(as) ==
    LET r == Decode(Behind(dec), Taken(as))
    IN  /\ wire # <<>>
        /\ dec' = r.dec /\ fed' = r.fed
        /\ gap' = IF Taken(as) \in ToSet(r.dec.mb) THEN 0 ELSE Later(gap)
        /\ wire' = Tail(wire) /\ sent' = sent + 1
        /\ arrived' =
              (arrived /\ as = "sent" /\ Bytes(dec.mb) + Head(wire).to - Head(wire).from < MaxSize)
        /\ UNCHANGED <<codec, isKey, up, before>>

\* A packet is lost.
Lose ==
    /\ wire # <<>>
    /\ wire' = Tail(wire) /\ sent' = sent + 1
    /\ dec' = Behind(dec) /\ gap' = Later(gap)
    /\ arrived' = FALSE /\ fed' = <<>>
    /\ UNCHANGED <<codec, isKey, up, before>>

Next ==
    \/ \E ok \in BOOLEAN : Update(ok)
    \/ \E lens \in Frames, key \in BOOLEAN : NewFrame(lens, key)
    \/ \E as \in {"sent", "bad", "unknown"} : Receive(as)
    \/ Lose

Spec == Init /\ [][Next]_vars

-----------------------------------------------------------------------------
\* Consecutive pieces follow each other within a unit, or one ends a unit and the other
\* begins one.
Joined(p, q) ==
    IF p.e THEN q.s ELSE ~q.s /\ q.unit = p.unit /\ q.from = p.to + 1 /\ q.follows

\* What a decoder is given is whole: it begins with the beginning of a unit and ends with
\* the end of one, and no piece is missing or of another unit in between (avcodec/decode.c
\* 328-425 and the handlers like it). VP8, VP9 and AV1 are given one image.
UnitsAreWhole ==
    (codec \notin Uncounted /\ fed # <<>>) =>
        /\ fed[1].s /\ fed[Len(fed)].e
        /\ \A i \in 1 .. Len(fed) - 1 : Joined(fed[i], fed[i + 1])
        /\ codec \in Images =>
              fed[1].unit = 1 /\ \A i \in 2 .. Len(fed) : fed[i].follows

\* The decoder may be given the frame: it is a key frame or there was one, or there was a header.
MayDecode ==
    CASE codec \in Nals264 -> isKey \/ dec.key
      [] codec = "daala" -> dec.key
      [] OTHER -> TRUE

\* The pieces end with the whole frame of n packets.
EndWithFrame(pieces, n) ==
    LET k == IF codec = "daala" THEN 1 ELSE n
    IN  /\ Len(pieces) >= k
        /\ \A i \in 0 .. k - 1 :
              pieces[Len(pieces) - i].nr = n - i /\ (i = k - 1 \/ pieces[Len(pieces) - i].follows)

\* A frame that comes complete is given to the decoder complete, whatever was lost before;
\* of H.264 only if the frame before it came complete too, for a unit that was left open
\* takes the next one with it (avcodec/decode.c:361). H.263 and MPEG-4 frames whose last
\* packet is full have no end and are left out.
CompleteIsDecoded ==
    [][(wire # <<>> /\ wire' = <<>> /\ arrived' /\ codec \notin Uncounted
        /\ (codec \in Nals264 => before) /\ MayDecode) => EndWithFrame(fed', sent)]_vars
==============================================================================
