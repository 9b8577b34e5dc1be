----------------------------- MODULE RtpReceive -----------------------------
(***************************************************************************)
(* What a media stream does with a received RTP packet (rtp_handler of     *)
(* src/stream.c): the jitter buffer, the count of lost packets and the     *)
(* calls of the handler of the audio or video above it.  Sequence numbers  *)
(* have their 16 bits.  The network loses, repeats and reorders packets    *)
(* freely.                                                                 *)
(***************************************************************************)
EXTENDS Integers, Sequences, SequencesExt

CONSTANTS
    Seq16,     \* the sequence numbers that may come
    Source,    \* the SSRCs that may come, none of them 0
    JbufMin,   \* jbuf_del.min
    JbufMax    \* jbuf_del.max, both 0 for no jitter buffer

\* What is assumed of the constants; the module that gives them values asserts it.
RtpReceiveAssumption ==
    /\ Seq16 \subseteq Nat /\ \A n \in Seq16 : n < 65536
    /\ Source \subseteq Nat \ {0}
    /\ JbufMin \in Nat /\ JbufMax \in Nat

VARIABLES
    recv,      \* sdp_media_ldir lets packets in
    pseq,      \* last sequence number, or None for (uint32_t)-1
    ssrc,      \* ssrc_rx, 0 before the first packet
    jbuf,      \* the frames in the jitter buffer, oldest first
    started,   \* jbuf_started
    out,       \* the calls of the stream's handler in the last step
    epoch      \* history: the recent numbers handed on since the numbering restarted

vars == <<recv, pseq, ssrc, jbuf, started, out, epoch>>

None == -1
Frame == [seq : Seq16, ssrc : Source, bad : BOOLEAN]
Blank == [seq |-> 0, ssrc |-> 0, bad |-> FALSE]     \* the zeroed hdr2
Quiet == [lost |-> FALSE, frame |-> Blank, given |-> FALSE]

Minus(a, b) == (a - b) % 65536

-----------------------------------------------------------------------------
\* A number that is so far from the last one that lostcalc counts from anew.
Restarts(seq) == pseq = None \/ (Minus(seq, pseq) >= 3000 /\ Minus(seq, pseq) <= 65435)

\* Mutant: a late packet is taken for a restart.
LostcalcNoLate(seq) ==
    LET delta == Minus(seq, pseq)
    IN  IF pseq = None THEN 0 ELSE IF delta = 0 THEN -1 ELSE IF delta < 3000 THEN delta - 1 ELSE 0

\* lostcalc: the packets lost before seq; negative for one that came already or
\* comes late.
Lostcalc(seq) ==
    LET delta == Minus(seq, pseq)
    IN  IF Restarts(seq) THEN 0
        ELSE IF delta = 0 THEN -1 ELSE IF delta < 3000 THEN delta - 1 ELSE -2

\* How far from the last number a number is remembered, a quarter of their range.
Recent == 16384
Near(e, seq) == Minus(seq, e) < Recent \/ Minus(e, seq) < Recent

Older(g, f) == Minus(f.seq, g.seq) < 32768

\* jbuf_put: refuses what it has, else looks from the tail for the first frame that is
\* older and puts f behind it; when it is full the oldest frame makes room.
Put(q, f) ==
    LET room == IF Len(q) = JbufMax THEN Tail(q) ELSE q
    IN  IF \E g \in ToSet(q) : g.seq = f.seq THEN {q}
        ELSE {InsertAt(room, k + 1, f) : k \in
                {k \in 0 .. Len(room) : /\ k > 0 => Older(room[k], f)
                                        /\ \A i \in k + 1 .. Len(room) : ~Older(room[i], f)}}

\* Mutant: the last number is that of the packet expected next.
HandNext(f) ==
    /\ pseq' = IF Lostcalc(f.seq) >= 0 THEN f.seq + 1 ELSE pseq
    /\ out' = [lost |-> Lostcalc(f.seq) > 0, frame |-> f, given |-> ~f.bad]
    /\ epoch' = IF Restarts(f.seq) THEN {f.seq}
                ELSE {e \in epoch \cup {f.seq} : Near(e, pseq')}

\* handle_rtp, after the loss was counted: a frame with a corrupt header
\* extension is not handed on.
Hand(f) ==
    /\ pseq' = IF Lostcalc(f.seq) >= 0 THEN f.seq ELSE pseq
    /\ out' = [lost |-> Lostcalc(f.seq) > 0, frame |-> f, given |-> ~f.bad]
    /\ epoch' = IF Restarts(f.seq) THEN {f.seq}
                ELSE {e \in epoch \cup {f.seq} : Near(e, pseq')}

\* Mutant: the frames of the old source stay in the jitter buffer.
KeptAll(f) == jbuf

\* jbuf_flush when the source changes.
Kept(f) == IF ssrc \notin {0, f.ssrc} THEN <<>> ELSE jbuf

\* rtp_handler for a packet that is empty or not wanted.
Ignore ==
    /\ out' = Quiet
    /\ UNCHANGED <<recv, pseq, ssrc, jbuf, started, epoch>>

\* rtp_handler without a jitter buffer.
Direct(f) ==
    /\ JbufMax = 0 /\ recv
    /\ ssrc' = f.ssrc
    /\ Hand(f)
    /\ UNCHANGED <<recv, jbuf, started>>

\* rtp_handler with a jitter buffer that has more than jbuf_del.min frames.
Buffered(f) ==
    /\ JbufMax > 0 /\ recv
    /\ \E q \in Put(Kept(f), f) :
          /\ Len(q) > JbufMin
          /\ jbuf' = Tail(q)
          /\ Hand(Head(q))
    /\ ssrc' = f.ssrc
    /\ started' = TRUE
    /\ UNCHANGED recv

\* rtp_handler when the jitter buffer gives nothing: once it has started, a
\* header of zeros goes on without a packet.
Underrun(f) ==
    /\ JbufMax > 0 /\ recv
    /\ \E q \in Put(Kept(f), f) : Len(q) <= JbufMin /\ jbuf' = q
    /\ ssrc' = f.ssrc
    /\ IF started THEN Hand(Blank) ELSE out' = Quiet /\ UNCHANGED <<pseq, epoch>>
    /\ UNCHANGED <<recv, started>>

\* stream_hold, and stream_reset when the call is established.
Hold(on) ==
    /\ recv' = ~on
    /\ out' = Quiet
    /\ UNCHANGED <<pseq, ssrc, jbuf, started, epoch>>

Reset ==
    /\ jbuf' = <<>>
    /\ out' = Quiet
    /\ UNCHANGED <<recv, pseq, ssrc, started, epoch>>

Init ==
    /\ recv = TRUE
    /\ pseq = None
    /\ ssrc = 0
    /\ jbuf = <<>>
    /\ started = FALSE
    /\ out = Quiet
    /\ epoch = {}

Next ==
    \/ \E f \in Frame : Direct(f) \/ Buffered(f) \/ Underrun(f)
    \/ Ignore
    \/ \E on \in BOOLEAN : Hold(on)
    \/ Reset

Spec == Init /\ [][Next]_vars

-----------------------------------------------------------------------------
TypeOK ==
    /\ {recv, started} \subseteq BOOLEAN
    /\ pseq \in {None, 0} \cup Seq16
    /\ ssrc \in {0} \cup Source
    /\ jbuf \in Seq(Frame) /\ Len(jbuf) <= JbufMax
    /\ epoch \subseteq {0} \cup Seq16

\* A number is ahead of another, in the arithmetic of serial numbers.
Ahead(a, b) == Minus(a, b) > 0 /\ Minus(a, b) < 32768

\* The handler is told of a loss exactly when the packet is newer than all that
\* were lately handed on since the numbering restarted and the one before it was not
\* among them: never for a repeated or a late packet, across the wrap of the
\* numbers and for any order of the packets.
LossMatchesGap ==
    [][out' # out /\ out'.frame # Blank /\ epoch # {} /\ ~Restarts(out'.frame.seq) =>
        LET seq == out'.frame.seq
        IN  out'.lost <=> (\A e \in epoch : Ahead(seq, e)) /\ Minus(seq, 1) \notin epoch]_vars

\* Everything the handler gets is of the source it was last told of: no frame of
\* an earlier SSRC comes out of the jitter buffer after the change.
OneSourceAtATime ==
    out.given /\ out.frame # Blank => out.frame.ssrc = ssrc

\* "Sequence number for incoming RTP" (core.h:366): pseq is the number of a packet
\* that came, or unset.
PseqReceived == pseq \in {None} \cup Seq16
=============================================================================
