------------------------------ MODULE VideoRx ------------------------------
(***************************************************************************)
(* The receiving half of a video stream (src/video.c): payload types       *)
(* choose the decoder, decoded frames are displayed, and a picture update  *)
(* is asked of the peer after an error, every half second until a frame    *)
(* that needs no other (an intra frame) is decoded.                        *)
(***************************************************************************)
EXTENDS Integers

CONSTANTS
    Codec,      \* codecs of the offer; the payload type is the codec
    Decodable,  \* those for which a decoder is found
    Interval,   \* PICUP_INTERVAL, in ticks
    Silence     \* bound: ticks without an intra frame that are counted

\* What is assumed of the constants; the module that gives them values asserts it.
VideoRxAssumption ==
    /\ Decodable \subseteq Codec
    /\ Interval \in Nat \ {0} /\ Silence \in Nat

VARIABLES
    alive,     \* the call and its stream exist
    started,   \* v->started
    ptRx,      \* vrx->pt_rx, or none
    vc, dec,   \* vrx->vc, and the codec of vrx->dec, or none
    display,   \* vrx->vidisp is set
    tmr,       \* ticks until tmr_picup, or Off
    broken,    \* a packet could not be decoded and no intra frame came since
    since,     \* ticks since an update was last asked for
    met,       \* the packet at hand: its payload type and the decoder it met
    crashed    \* a display that is not there was used

vars == <<alive, started, ptRx, vc, dec, display, tmr, broken, since, met, crashed>>

None == "none"
Off == -1

TypeOK ==
    /\ alive \in BOOLEAN /\ started \in BOOLEAN
    /\ ptRx \in Codec \cup {None} /\ vc \in Codec \cup {None} /\ dec \in Codec \cup {None}
    /\ display \in BOOLEAN
    /\ tmr \in {Off} \cup 0 .. Interval
    /\ broken \in BOOLEAN /\ since \in 0 .. Silence
    /\ met \in [pt : Codec \cup {None}, dec : Codec \cup {None}]
    /\ crashed \in BOOLEAN

\* vrx_alloc.
Init ==
    /\ alive = TRUE /\ started = FALSE
    /\ ptRx = None /\ vc = None /\ dec = None
    /\ display = FALSE /\ tmr = Off /\ broken = FALSE /\ since = 0
    /\ met = [pt |-> None, dec |-> None]
    /\ crashed = FALSE

-----------------------------------------------------------------------------
\* Mutant: the decoder stays when the payload type changes.
DecoderSetLazy(c, ok) ==
    IF c \notin Decodable THEN [vc |-> vc, dec |-> dec, err |-> TRUE]
    ELSE IF dec # None THEN [vc |-> vc, dec |-> dec, err |-> FALSE]
    ELSE IF ok THEN [vc |-> c, dec |-> c, err |-> FALSE]
    ELSE [vc |-> vc, dec |-> None, err |-> TRUE]

\* Mutant: the released decoder stays in vrx->dec.
DecoderSetDangling(c, ok) ==
    IF c \notin Decodable THEN [vc |-> vc, dec |-> dec, err |-> TRUE]
    ELSE IF c = vc THEN [vc |-> vc, dec |-> dec, err |-> FALSE]
    ELSE IF ok THEN [vc |-> c, dec |-> c, err |-> FALSE]
    ELSE [vc |-> vc, dec |-> IF dec = None THEN None ELSE "released", err |-> TRUE]

\* video_decoder_set: a codec without decoder changes nothing but what the caller
\* has noted; a decoder that cannot be made leaves none.
DecoderSet(c, ok) ==
    IF c \notin Decodable THEN [vc |-> vc, dec |-> dec, err |-> TRUE]
    ELSE IF c = vc THEN [vc |-> vc, dec |-> dec, err |-> FALSE]
    ELSE IF ok THEN [vc |-> c, dec |-> c, err |-> FALSE]
    ELSE [vc |-> vc, dec |-> None, err |-> TRUE]

\* update_media: the offer sets decoder and payload type.
Offer(c, ok) ==
    /\ alive
    /\ vc' = DecoderSet(c, ok).vc /\ dec' = DecoderSet(c, ok).dec
    /\ ptRx' = IF c \in Decodable THEN c ELSE ptRx
    /\ UNCHANGED <<alive, started, display, tmr, broken, since, met, crashed>>

\* video_start; the display may be missing (a warning).
Start(shown) ==
    /\ alive /\ ~started
    /\ started' = TRUE /\ display' = shown
    /\ UNCHANGED <<alive, ptRx, vc, dec, tmr, broken, since, met, crashed>>

\* video_stop, which leaves the display.
Stop ==
    /\ alive /\ started
    /\ started' = FALSE
    /\ UNCHANGED <<alive, ptRx, vc, dec, display, tmr, broken, since, met, crashed>>

\* Mutant: every error is a request.
RequestAlways == tmr' = Interval /\ since' = 0

\* request_picture_update: one every Interval.
Request ==
    IF tmr # Off THEN UNCHANGED <<tmr, since>>
    ELSE tmr' = Interval /\ since' = 0

\* Mutant: any packet that is decoded ends the requests.
DecodeAnyEnds(d, outcome) ==
    IF d = None THEN UNCHANGED <<alive, display, tmr, broken, since>>
    ELSE IF outcome = "error" THEN broken' = TRUE /\ Request /\ UNCHANGED <<alive, display>>
    ELSE /\ tmr' = Off /\ since' = 0
         /\ IF outcome = "intra" THEN broken' = FALSE ELSE UNCHANGED broken
         /\ IF outcome = "closed" /\ display THEN display' = FALSE /\ alive' = FALSE
            ELSE UNCHANGED <<alive, display>>

\* video_stream_decode of a packet with decoder d: an error, a part of a picture, a
\* picture, an intra picture; or a picture for a display that was closed, of which
\* the call is told and ends (video_error_handler in call.c).
Decode(d, outcome) ==
    IF d = None THEN UNCHANGED <<alive, display, tmr, broken, since>>
    ELSE IF outcome = "error" THEN broken' = TRUE /\ Request /\ UNCHANGED <<alive, display>>
    ELSE /\ IF outcome = "intra" THEN tmr' = Off /\ broken' = FALSE /\ since' = 0
            ELSE UNCHANGED <<tmr, broken, since>>
         /\ IF outcome = "closed" /\ display THEN display' = FALSE /\ alive' = FALSE
            ELSE UNCHANGED <<alive, display>>

\* stream_recv_handler and pt_handler: the packet is not decoded if its type is
\* new and has no decoder.
Recv(pt, ok, outcome) ==
    /\ alive
    /\ ptRx' = pt
    /\ LET set == IF pt = ptRx THEN [vc |-> vc, dec |-> dec, err |-> FALSE] ELSE DecoderSet(pt, ok)
       IN  /\ vc' = set.vc /\ dec' = set.dec
           /\ IF set.err
              THEN UNCHANGED <<alive, display, tmr, broken, since, met>>
              ELSE met' = [pt |-> pt, dec |-> set.dec] /\ Decode(set.dec, outcome)
    /\ UNCHANGED <<started, crashed>>

\* picup_tmr_handler.
PicupTimer ==
    /\ alive /\ tmr = 0
    /\ tmr' = Interval /\ since' = 0
    /\ UNCHANGED <<alive, started, ptRx, vc, dec, display, broken, met, crashed>>

\* video_set_fullscreen, video_set_orient: vidisp_update uses the display unasked.
Update ==
    /\ alive /\ started
    /\ crashed' = (crashed \/ ~display)
    /\ UNCHANGED <<alive, started, ptRx, vc, dec, display, tmr, broken, since, met>>

Tick ==
    /\ alive /\ tmr # 0
    /\ tmr' = IF tmr = Off THEN Off ELSE tmr - 1
    /\ since' = IF tmr = Off \/ since = Silence THEN since ELSE since + 1
    /\ UNCHANGED <<alive, started, ptRx, vc, dec, display, broken, met, crashed>>

Outcome == {"error", "part", "picture", "intra", "closed"}
Next ==
    \/ \E c \in Codec, ok \in BOOLEAN : Offer(c, ok)
    \/ \E shown \in BOOLEAN : Start(shown)
    \/ \E pt \in Codec, ok \in BOOLEAN, outcome \in Outcome : Recv(pt, ok, outcome)
    \/ Stop \/ PicupTimer \/ Update \/ Tick
    \/ ~alive /\ UNCHANGED vars
Spec == Init /\ [][Next]_vars

-----------------------------------------------------------------------------
\* From an error until an intra frame the peer is asked again and again: the timer
\* never stops and no silence is longer than its interval, whatever decoders, offers
\* and packets come meanwhile.
AsksUntilIntra == broken /\ alive => tmr # Off /\ since <= Interval

\* The peer is not asked more often than once in an Interval without an intra frame
\* between: errors in a row are one request.
AsksOncePerInterval == [][since' < since => since >= Interval \/ ~broken']_vars

\* Each packet meets the decoder of its payload type, or none.
PayloadMeetsDecoder == met.dec \in {None, met.pt}

\* "Set the orientation of the Video source and display" (video_set_orient): the
\* display that is updated is there.
DisplayIsThere == ~crashed
=============================================================================
