------------------------------- MODULE AudioRx -------------------------------
(***************************************************************************)
(* The receiving half of the audio pipeline (src/audio.c, struct aurx, and *)
(* the time stamps of src/core.h).  Frames come from RtpReceive on the     *)
(* main loop, the player's thread takes samples from the buffer.  The 32   *)
(* bits of a time stamp are scaled down to Wrap values.                    *)
(***************************************************************************)
EXTENDS Integers

CONSTANTS
    Codec,      \* audio codecs
    Rate,       \* the sample rate and channels of each codec
    Payload,    \* payload types of audio in the local media description
    CodecOf,    \* the codec of each
    Wrap,       \* 2^32, the number of time stamps
    Late,       \* how far behind the newest frame a frame may come
    Gap,        \* how far ahead of it
    Last,       \* bound on the time of the sender
    MaxWraps    \* bound on num_wraps

\* What is assumed of the constants; the module that gives them values asserts it.
AudioRxAssumption ==
    /\ Rate \in [Codec -> Nat] /\ CodecOf \in [Payload -> Codec]
    /\ {Wrap, Gap} \subseteq Nat \ {0} /\ {Late, Last, MaxWraps} \subseteq Nat
    /\ Wrap % 2 = 0 /\ Late < Wrap \div 2 /\ Gap < Wrap \div 2 /\ Wrap <= Last + 1

VARIABLES
    ac, pt,       \* rx->ac and rx->pt
    dec,          \* the decoder could be made
    player,       \* the player's thread: off, idle or in auplay_write_handler
    buf,          \* rx->aubuf is there
    set, first, last, wraps,   \* ts_recv
    heard,        \* what became of the last frame: none, discarded, decoded
    time,         \* history: the sender's time of the last frame that counted
    newest, from  \* history: of the newest such frame, and of the first

vars == <<ac, pt, dec, player, buf, set, first, last, wraps, heard, time, newest, from>>
decoder == <<ac, pt, dec>>
playing == <<player, buf>>
stamps == <<set, first, last, wraps, time, newest, from>>

None == "none"

TypeOK ==
    /\ ac \in Codec \cup {None}
    /\ pt \in Payload \cup {None}
    /\ player \in {"off", "idle", "reading"}
    /\ {dec, buf, set} \subseteq BOOLEAN
    /\ {first, last} \subseteq 0 .. Wrap - 1
    /\ wraps \in 0 .. MaxWraps
    /\ heard \in {"none", "discarded", "decoded"}
    /\ {time, newest, from} \subseteq 0 .. Last

\* audio_alloc: the sender's time stamps begin anywhere.
Init ==
    /\ ac = None /\ pt = None /\ dec = FALSE
    /\ player = "off" /\ buf = FALSE
    /\ set = FALSE /\ first = 0 /\ last = 0 /\ wraps = 0
    /\ heard = "none"
    /\ newest \in 0 .. Wrap - 1 /\ time = newest /\ from = newest

-----------------------------------------------------------------------------
(* Time stamps. *)

Signed(x) == IF x < Wrap \div 2 THEN x ELSE x - Wrap

\* Mutant: a wrap is seen only if the new time stamp is 0.
TimestampWrapZero(new, old) == IF new = 0 /\ old # 0 THEN {1} ELSE {0}

\* timestamp_wrap.  The difference of the signed values may overflow: then the
\* comparison has either outcome.
TimestampWrap(new, old) ==
    LET delta == Signed(new) - Signed(old)
    IN  IF new < old
        THEN IF delta \in -(Wrap \div 2) .. Wrap \div 2 - 1
             THEN {IF delta > 0 THEN 1 ELSE 0} ELSE {0, 1}
        ELSE {IF Signed((old - new) % Wrap) > 0 THEN -1 ELSE 0}

\* calc_extended_timestamp.
Extended(w, ts) == w * Wrap + ts

\* Mutant: the last time stamp is extended.
StampWide(t) ==
    LET prev == IF set THEN last ELSE t % Wrap
    IN  /\ set' = TRUE
        /\ first' = IF set THEN first ELSE t % Wrap
        /\ last' = Extended(wraps, t % Wrap)
        /\ wraps' \in {wraps + w : w \in TimestampWrap(t % Wrap, prev) \cap {0, 1}}
        /\ heard' = "decoded"
        /\ time' = t
        /\ newest' = IF t > newest THEN t ELSE newest
        /\ from' = IF set THEN from ELSE t

\* The part of stream_recv_handler on ts_recv, for a frame of the sender's time t.
Stamp(t) ==
    LET ts == t % Wrap
        prev == IF set THEN last ELSE ts
        old == set /\ Extended(wraps, ts) <= Extended(wraps, last)
    IN  /\ set' = TRUE
        /\ first' = IF set THEN first ELSE ts
        /\ last' = ts
        /\ \E w \in TimestampWrap(ts, prev) :
              /\ wraps' = IF w = 1 THEN wraps + 1 ELSE wraps
              /\ heard' = IF old \/ w = -1 THEN "discarded" ELSE "decoded"
        /\ time' = t
        /\ newest' = IF t > newest THEN t ELSE newest
        /\ from' = IF set THEN from ELSE t

-----------------------------------------------------------------------------
(* Decoder and player. *)

\* start_player, when there is a codec and no player: the buffer is made if there
\* is none and kept if the player cannot be opened.
StartPlayer(codec, p) ==
    \/ p = "off" /\ buf' = TRUE /\ player' \in {"off", "idle"}
    \/ p # "off" /\ player' = p /\ UNCHANGED buf

\* Mutant: the payload type of a new decoder is that of the old one.
DecoderSetKeepsPt(codec, n) ==
    /\ ac' = codec /\ UNCHANGED pt
    /\ dec' \in BOOLEAN
    /\ IF dec' /\ (ac = None \/ Rate[codec] # Rate[IF ac = None THEN codec ELSE ac])
       THEN player # "reading" /\ StartPlayer(codec, "off")
       ELSE UNCHANGED playing

\* audio_decoder_set: a codec of another rate closes the player, which waits for
\* its thread, and opens it again.
DecoderSet(codec, n) ==
    /\ ac' = codec
    /\ pt' = IF codec = ac THEN pt ELSE n
    /\ dec' \in BOOLEAN
    /\ IF dec' /\ (ac = None \/ Rate[codec] # Rate[IF ac = None THEN codec ELSE ac])
       THEN player # "reading" /\ StartPlayer(codec, "off")
       ELSE UNCHANGED playing

\* pt_handler: the payload type is noted before the decoder is set.
PtHandler(n) ==
    IF CodecOf[n] = ac
    THEN /\ pt' = n /\ dec' \in BOOLEAN
         /\ UNCHANGED <<ac, playing>>
    ELSE DecoderSet(CodecOf[n], n)

\* stream_recv_handler for an audio frame: a new payload type changes the decoder
\* first, and the frame is dropped if that fails.
Recv(t, n) ==
    /\ wraps < MaxWraps
    /\ IF n = pt THEN UNCHANGED <<decoder, playing>> ELSE PtHandler(n)
    /\ IF n # pt /\ ~dec' THEN heard' = "none" /\ UNCHANGED stamps
       ELSE Stamp(t)

\* A telephone-event, comfort noise, or an unknown payload type.
RecvOther ==
    /\ heard' = "none"
    /\ UNCHANGED <<decoder, playing, stamps>>

\* The answer or an offer was decoded: update_media and call_stream_start.
SetFromSdp(n) ==
    /\ DecoderSet(CodecOf[n], n)
    /\ heard' = "none"
    /\ UNCHANGED stamps

\* audio_start.
Start ==
    /\ ac # None
    /\ StartPlayer(ac, player)
    /\ heard' = "none"
    /\ UNCHANGED <<decoder, stamps>>

\* Mutant: the buffer is released first.
StopBuffer ==
    /\ buf /\ player = "reading"
    /\ buf' = FALSE
    /\ heard' = "none"
    /\ UNCHANGED <<decoder, player, stamps>>

\* stop_rx: the player first, which waits for its thread, then the buffer.
Stop ==
    /\ player # "reading"
    /\ player' = "off"
    /\ buf' = FALSE
    /\ heard' = "none"
    /\ UNCHANGED <<decoder, stamps>>

\* auplay_write_handler, on the player's thread.
Read ==
    /\ player' = CASE player = "idle" -> "reading" [] player = "reading" -> "idle"
                   [] OTHER -> "off"
    /\ player # "off"
    /\ UNCHANGED <<decoder, buf, stamps, heard>>

Next ==
    \/ \E t \in 0 .. Last, n \in Payload : t >= newest - Late /\ t <= newest + Gap /\ Recv(t, n)
    \/ RecvOther
    \/ \E n \in Payload : SetFromSdp(n)
    \/ Start \/ Stop \/ Read

Spec == Init /\ [][Next]_vars

-----------------------------------------------------------------------------
\* The player's thread never runs without the buffer, through every change of the
\* decoder by a packet or by an offer and every stop.
PlayerHasBuffer == player # "off" => buf

\* A frame is decoded by the codec of its own payload type: the packets of the
\* peer and the offers change rx->pt and rx->ac in step, also when one fails.
PayloadIsDecoded == pt # None => ac = CodecOf[pt]

\* While frames come in order, with losses and repetitions, the duration of what
\* was received (timestamp_duration) is the time that passed at the sender,
\* across any number of wraps.
DurationIsExact == set => Extended(wraps, last) - first = time - from

\* "discard old frame" (audio.c:966): a frame newer than all before is not
\* discarded.
NewIsDecoded == [][newest' > newest => heard' # "discarded"]_vars
=============================================================================
