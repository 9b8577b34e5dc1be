---------------------------- MODULE VideoEncoders ----------------------------
(***************************************************************************)
(* The encoders of the video codecs: when encode_update makes, keeps or    *)
(* closes one, when encode opens it, and which packets a frame becomes.    *)
(* The libraries are external: opening one may fail, and a frame is        *)
(* encoded to units of any length.  The camera of the Android application  *)
(* and of v4l2_codec give frames that are encoded already.                 *)
(***************************************************************************)
EXTENDS VideoPackets

CONSTANTS
    Codec,     \* the codecs, by module and format
    Rates,     \* frame rates that encode_update is asked for
    Sizes,     \* sizes of frames
    Frames,    \* the encoded frames: the lengths of their units
    PktSize    \* videnc_param.pktsize

Renewed == {"jdk", "openh264", "wels"}               \* a new state for each encode_update
Kept == {"avc264", "x264", "h263", "mpeg4", "v4l2"}  \* the first state stays as it is
Adapted == {"h265", "vp8", "vp9", "av1", "daala"}    \* the state takes the new parameters

\* What is assumed of the constants; the module that gives them values asserts it.
VideoEncodersAssumption ==
    /\ Codec \subseteq Renewed \cup Kept \cup Adapted
    /\ PktSize \in Nat /\ PktSize > 4
    /\ Frames \subseteq Seq(Nat)
    /\ \A f \in Frames : f # <<>> /\ \A i \in DOMAIN f : f[i] > 0

VARIABLES
    codec,     \* the codec of the stream
    asked,     \* the rate of the last encode_update, or None
    up, rate,  \* videnc_state is there; its rate
    lib,       \* the library's encoder: its rate and size, or Closed
    idr,       \* got_key_frame
    was,       \* the frame of this step: kind, size, units and key
    out        \* what was sent of it: rate and size of the encoder, and the packets

vars == <<codec, asked, up, rate, lib, idr, was, out>>

None == "none"
Closed == [rate |-> None, size |-> None]
Nothing == [rate |-> None, size |-> None, packets |-> <<>>]
NoFrame == [kind |-> "raw", size |-> None, units |-> <<>>, key |-> FALSE]

TypeOK ==
    /\ codec \in Codec /\ asked \in Rates \cup {None}
    /\ up \in BOOLEAN /\ rate \in Rates \cup {None}
    /\ lib \in [rate : Rates \cup {None}, size : Sizes \cup {None}]
    /\ idr \in BOOLEAN
    /\ was.kind \in {"raw", "h264"} /\ was.size \in Sizes \cup {None} /\ was.key \in BOOLEAN
    /\ out.rate \in Rates \cup {None} /\ out.size \in Sizes \cup {None}
    /\ \A i \in DOMAIN out.packets : out.packets[i] \in Packet

Init ==
    /\ codec \in Codec
    /\ asked = None /\ up = FALSE /\ rate = None
    /\ lib = Closed /\ idr = FALSE /\ was = NoFrame /\ out = Nothing

-----------------------------------------------------------------------------
(* encode_update of the modules, with the rate r and the size of the source: *)
(* the state's rate, the library's encoder and got_key_frame afterwards.     *)

After(r, l, k) == [rate |-> r, lib |-> l, idr |-> k]

\* jdkcodec has no library; openh264 sets it up here, for the size of the source, and
\* with max_fs in place of the rate.
JdkUpdate(r, z) == After(r, Closed, FALSE)
Openh264Update(r, z) == After(r, [rate |-> None, size |-> z], FALSE)
WelsUpdate(r, z) == After(r, [rate |-> None, size |-> z], FALSE)

\* avcodec and v4l2_codec return early if there is a state.
AvcodecUpdate(r, z) == IF up THEN After(rate, lib, idr) ELSE After(r, Closed, FALSE)
V4l2Update(r, z) == IF up THEN After(rate, lib, idr) ELSE After(r, Closed, FALSE)

\* Mutant: the open encoder keeps its rate.
H265UpdateKeepsOpen(r, z) == After(r, lib, FALSE)

\* The others close an encoder whose parameters change; encode opens it again.
H265Update(r, z) == After(r, IF r # rate THEN Closed ELSE lib, FALSE)
Vp8Update(r, z) == After(r, IF r # rate THEN Closed ELSE lib, FALSE)
Vp9Update(r, z) == After(r, IF r # rate THEN Closed ELSE lib, FALSE)
Av1Update(r, z) == After(r, IF r # rate THEN Closed ELSE lib, FALSE)
DaalaUpdate(r, z) == After(r, IF r # rate THEN Closed ELSE lib, FALSE)

Updated(r, z) ==
    CASE codec = "jdk" -> JdkUpdate(r, z)
      [] codec = "openh264" -> Openh264Update(r, z)
      [] codec = "wels" -> WelsUpdate(r, z)
      [] codec \in {"avc264", "x264", "h263", "mpeg4"} -> AvcodecUpdate(r, z)
      [] codec = "v4l2" -> V4l2Update(r, z)
      [] codec = "h265" -> H265Update(r, z)
      [] codec = "vp8" -> Vp8Update(r, z)
      [] codec = "vp9" -> Vp9Update(r, z)
      [] codec = "av1" -> Av1Update(r, z)
      [] OTHER -> DaalaUpdate(r, z)

\* encode_update.
Update(r, z) ==
    /\ asked' = r /\ up' = TRUE
    /\ rate' = Updated(r, z).rate /\ lib' = Updated(r, z).lib /\ idr' = Updated(r, z).idr
    /\ was' = NoFrame /\ out' = Nothing
    /\ UNCHANGED codec

-----------------------------------------------------------------------------
(* encode of the modules: the packets of a frame f. *)

\* open_encoder of avcodec, x264, h265, vp8, vp9, av1 and daala: the old encoder goes
\* before the new one is there.
Opened(f, ok) ==
    IF lib # Closed /\ lib.size = f.size THEN lib
    ELSE IF ok THEN [rate |-> rate, size |-> f.size] ELSE Closed

\* jdkcodec sends what is encoded already, and nothing else.
JdkEncode(f) == IF f.kind = "h264" THEN H264Frame(f.units, PktSize) ELSE <<>>

\* Mutant: frames before the first key frame are sent too.
Openh264EncodeAtOnce(f) == H264Frame(f.units, PktSize)

\* openh264 encodes the others; what comes before the first key frame is not sent.
Openh264Encode(f) ==
    IF f.kind = "h264" \/ idr \/ f.key THEN H264Frame(f.units, PktSize) ELSE <<>>
WelsEncode(f) ==
    IF f.kind = "h264" \/ idr \/ f.key THEN H264Frame(f.units, PktSize) ELSE <<>>

\* read_handler of v4l2_codec: what the camera has encoded goes to each encoder.
V4l2Encode(f) == IF f.kind = "h264" THEN H264Frame(f.units, PktSize) ELSE <<>>

\* encode and encode_x264 of avcodec.
Avc264Encode(f) == H264Frame(f.units, PktSize)
X264Encode(f) == H264Frame(f.units, PktSize)
H263Encode(f) == H263Frame(f.units, PktSize)
Mpeg4Encode(f) == Mpeg4Frame(f.units, PktSize)

H265Encode(f) == H265Frame(f.units, PktSize)
Vp8Encode(f) == Vp8Frame(f.units, PktSize)
Vp9Encode(f) == Vp9Frame(<<Sum(f.units)>>, PktSize)
Av1Encode(f) == Av1Frame(<<Sum(f.units)>>, PktSize)
DaalaEncode(f) == DaalaFrame(f.units)

PacketsOf(f) ==
    CASE codec = "jdk" -> JdkEncode(f)
      [] codec = "openh264" -> Openh264Encode(f)
      [] codec = "wels" -> WelsEncode(f)
      [] codec = "v4l2" -> V4l2Encode(f)
      [] codec = "avc264" -> Avc264Encode(f)
      [] codec = "x264" -> X264Encode(f)
      [] codec = "h263" -> H263Encode(f)
      [] codec = "mpeg4" -> Mpeg4Encode(f)
      [] codec = "h265" -> H265Encode(f)
      [] codec = "vp8" -> Vp8Encode(f)
      [] codec = "vp9" -> Vp9Encode(f)
      [] codec = "av1" -> Av1Encode(f)
      [] OTHER -> DaalaEncode(f)

\* Codecs whose frames may come encoded already.
Takes(kind) == IF kind = "h264" THEN codec \in Renewed \cup {"v4l2"} ELSE codec # "v4l2"

\* A frame is encoded and sent; opening the encoder may fail, and then nothing is.
Encode(f, ok) ==
    LET opens == codec \in Adapted \cup (Kept \ {"v4l2"})
        now == IF opens THEN Opened(f, ok) ELSE lib
    IN  /\ up /\ Takes(f.kind)
        /\ lib' = now
        /\ was' = f
        /\ IF opens /\ now = Closed THEN out' = Nothing /\ UNCHANGED idr
           ELSE /\ out' = [rate |-> IF f.kind = "h264" THEN None ELSE now.rate,
                           size |-> IF f.kind = "h264" THEN None ELSE now.size,
                           packets |-> PacketsOf(f)]
                /\ idr' = (idr \/ (f.key /\ f.kind = "raw" /\ codec \in {"openh264", "wels"}))
        /\ UNCHANGED <<codec, asked, up, rate>>

Frame == [kind : {"raw", "h264"}, size : Sizes, units : Frames, key : BOOLEAN]

Next ==
    \/ \E r \in Rates, z \in Sizes : Update(r, z)
    \/ \E f \in Frame, ok \in BOOLEAN : Encode(f, ok)

Spec == Init /\ [][Next]_vars

-----------------------------------------------------------------------------
\* The packets carry each byte of each unit once and in order, and none is empty
\* (h264.c 110-149 and the loops like it).
Carries(ps, lens) ==
    /\ ps[1].unit = 1 /\ ps[1].from = 1
    /\ \A i \in 1 .. Len(ps) - 1 :
          \/ ps[i + 1].unit = ps[i].unit /\ ps[i + 1].from = ps[i].to + 1
          \/ /\ ps[i].to = lens[ps[i].unit]
             /\ ps[i + 1].unit = ps[i].unit + 1 /\ ps[i + 1].from = 1
    /\ ps[Len(ps)].unit = Len(lens) /\ ps[Len(ps)].to = lens[Len(lens)]
    /\ \A i \in DOMAIN ps : ps[i].from <= ps[i].to

\* VP9, AV1, H.263 and MPEG-4 send the frame as one unit.
Units(f) == IF codec \in {"vp9", "av1", "h263", "mpeg4"} THEN <<Sum(f.units)>> ELSE f.units

FrameIsCarried == out.packets # <<>> => Carries(out.packets, Units(was))

\* A frame ends with the marker and has no other, so that the receiver knows its end:
\* of the formats whose receiver waits for it, except H.263 and MPEG-4.
FrameHasEnd ==
    codec \notin {"daala", "h263", "mpeg4"} =>
        \A i \in DOMAIN out.packets : out.packets[i].mark <=> i = Len(out.packets)

\* No packet is larger than what encode_update was told: of the codecs that count their own
\* headers, which H.264 (by one byte) and H.263 do not, and daala cuts nothing.
PacketsFit ==
    codec \in {"h265", "vp8", "vp9", "av1", "mpeg4"} =>
        \A i \in DOMAIN out.packets : SizeOf(out.packets[i]) <= PktSize

\* What is sent was encoded with the rate that was asked for last and at the size of the
\* frame, also after an encoder could not be opened. Not of avcodec and v4l2_codec, which
\* keep their first rate.
EncodesAsAsked ==
    (out.packets # <<>> /\ was.kind = "raw") =>
        /\ codec \in Adapted => out.rate = asked
        /\ codec \in Adapted \cup Kept => out.size = was.size

\* The first frame that openh264 sends of its own encoder is a key frame: without one the
\* peer's decoder shows nothing.
BeginsWithKey ==
    [][(codec \in {"openh264", "wels"} /\ was'.kind = "raw" /\ out'.packets # <<>>)
        => idr \/ was'.key]_vars

\* What baresip.h says of pktsize, for every codec.
PacketSizeKept == \A i \in DOMAIN out.packets : SizeOf(out.packets[i]) <= PktSize

\* What video.c relies on when an offer changes the rate, for every codec.
RateIsTaken == (out.packets # <<>> /\ was.kind = "raw" /\ codec # "jdk") => out.rate = asked
==============================================================================
