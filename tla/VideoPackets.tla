---------------------------- MODULE VideoPackets ----------------------------
(***************************************************************************)
(* The packets into which the video codecs cut an encoded frame: H.264     *)
(* (src/h264.c, used by modules openh264, openh264.20180402, jdkcodec,     *)
(* v4l2_codec and avcodec), H.265, VP8, VP9, AV1, and the two formats of   *)
(* avcodec that are cut anywhere, H.263 and MPEG-4.  A frame is a sequence *)
(* of units (NAL units, partitions, or the frame as such) of which only    *)
(* the length counts.                                                      *)
(***************************************************************************)
EXTENDS Integers, Sequences, SequencesExt

\* A packet: bytes from .. to of a unit behind a header of hdr bytes, whole if
\* it is sent without fragmentation, with the bits for the unit's first and last
\* fragment and RTP's marker.
Packet == [unit : Nat, from : Nat, to : Nat, hdr : Nat, whole : BOOLEAN,
           s : BOOLEAN, e : BOOLEAN, mark : BOOLEAN]

SizeOf(p) == p.hdr + p.to - p.from + 1

\* Mutant: the last fragment of a unit that is a multiple of max is one of no bytes.
CutEmptyLast(len, max, hdr) ==
    LET n == len \div max + 1
    IN  [i \in 1 .. n |->
            [from |-> (i - 1) * max + 1, to |-> IF i = n THEN len ELSE i * max,
             hdr |-> hdr, whole |-> FALSE, s |-> i = 1, e |-> i = n]]

\* A unit cut into fragments of max bytes, the first and the last of them marked.
Cut(len, max, hdr) ==
    LET n == (len + max - 1) \div max
    IN  [i \in 1 .. n |->
            [from |-> (i - 1) * max + 1, to |-> IF i = n THEN len ELSE i * max,
             hdr |-> hdr, whole |-> FALSE, s |-> i = 1, e |-> i = n]]

Single(len, hdr) ==
    <<[from |-> 1, to |-> len, hdr |-> hdr, whole |-> TRUE, s |-> TRUE, e |-> TRUE]>>

\* h264_nal_send of a unit of len bytes behind its header byte.
H264Unit(len, pktsize) ==
    IF len <= pktsize THEN Single(len, 1) ELSE Cut(len, pktsize - 2, 2)

\* packetize of h265/encode.c of a unit of len bytes behind its two header bytes.
H265Unit(len, pktsize) ==
    IF len + 2 <= pktsize THEN Single(len, 2) ELSE Cut(len, pktsize - 3, 3)

\* packetize of the other codecs: a header of its own before each packet.
Vp8Unit(len, pktsize) == Cut(len, pktsize - 4, 4)
Vp9Unit(len, pktsize) == Cut(len, pktsize - 3, 3)
Av1Unit(len, pktsize) == Cut(len, pktsize - 4, 4)

\* Mutant: each unit of a frame ends with the marker.
FrameOfMarksUnits(units) ==
    FlattenSeq([k \in DOMAIN units |-> [i \in DOMAIN units[k] |->
        [unit |-> k, from |-> units[k][i].from, to |-> units[k][i].to, hdr |-> units[k][i].hdr,
         whole |-> units[k][i].whole, s |-> units[k][i].s, e |-> units[k][i].e,
         mark |-> i = Len(units[k])]]])

\* The packets of all units, the last one with the marker.
FrameOf(units) ==
    FlattenSeq([k \in DOMAIN units |-> [i \in DOMAIN units[k] |->
        [unit |-> k, from |-> units[k][i].from, to |-> units[k][i].to, hdr |-> units[k][i].hdr,
         whole |-> units[k][i].whole, s |-> units[k][i].s, e |-> units[k][i].e,
         mark |-> k = Len(units) /\ i = Len(units[k])]]])

\* The packets of a frame, by codec.
H264Frame(lens, pktsize) == FrameOf([k \in DOMAIN lens |-> H264Unit(lens[k], pktsize)])
H265Frame(lens, pktsize) == FrameOf([k \in DOMAIN lens |-> H265Unit(lens[k], pktsize)])
Vp8Frame(lens, pktsize) == FrameOf([k \in DOMAIN lens |-> Vp8Unit(lens[k], pktsize)])
Vp9Frame(lens, pktsize) == FrameOf([k \in DOMAIN lens |-> Vp9Unit(lens[k], pktsize)])
Av1Frame(lens, pktsize) == FrameOf([k \in DOMAIN lens |-> Av1Unit(lens[k], pktsize)])

\* The length of all units together.
Sum(lens) == FoldLeft(LAMBDA n, len : n + len, 0, lens)

\* general_packetize and h263_packetize take the whole frame; the packet that is
\* full is never the last, so a frame of a multiple of pktsize has no marker.
Stream(lens, pktsize, hdr) ==
    LET cut == FrameOf(<<Cut(Sum(lens), pktsize, hdr)>>)
    IN  [i \in DOMAIN cut |-> [cut[i] EXCEPT !.mark = @ /\ Sum(lens) % pktsize # 0]]
Mpeg4Frame(lens, pktsize) == Stream(lens, pktsize, 0)
H263Frame(lens, pktsize) == Stream(lens, pktsize, 4)

\* daala sends each packet of its encoder as it is; the marker says that it is the
\* first of the stream.
DaalaFrame(lens) ==
    [k \in DOMAIN lens |-> [unit |-> k, from |-> 1, to |-> lens[k], hdr |-> 0, whole |-> TRUE,
                            s |-> TRUE, e |-> TRUE, mark |-> FALSE]]
=============================================================================
