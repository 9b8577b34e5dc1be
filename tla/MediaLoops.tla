------------------------------- MODULE MediaLoops -------------------------------
(***************************************************************************)
(* The loops that test devices and codecs: module auloop plays what the    *)
(* audio source records, through a codec if one is configured, at the next *)
(* rate each time the command is given; module vidloop shows what the      *)
(* video source takes.  The devices call the handlers from threads of      *)
(* their own while the main thread sets up, changes and stops the loop.    *)
(***************************************************************************)
EXTENDS Integers

CONSTANTS
    Rates,     \* how many entries configv has
    Coded,     \* a codec is configured
    Faults     \* with "thread" a source tells of an error from its own thread

\* What is assumed of the constants; the module that gives them values asserts it.
MediaLoopsAssumption == Rates \in Nat \ {0} /\ Coded \in BOOLEAN /\ Faults \subseteq {"thread"}

VARIABLES
    loop,      \* gal: "none", "new" (in audio_loop_alloc), "live", or "freed" under its source
    index,     \* al->index
    pc,        \* the next step of auloop_reset, or "idle"
    ausrc, auplay, \* the rate that a device runs with, or None
    ab,        \* al->ab and al->sampv are there
    ac, enc,   \* the rate of al->ac, and that al->enc and al->dec were made for
    video,     \* gvl: "none", "live" or "closing" (vidloop_destructor waits for the source)
    vidisp,    \* vl->vidisp is there
    vsrc,      \* vl->vsrc is there
    parts,     \* the codecs and filters are there
    shows,     \* the source's thread is in its frame handler
    err,       \* vl->err
    timer      \* vl->tmr_bw runs

vars == <<loop, index, pc, ausrc, auplay, ab, ac, enc, video, vidisp, vsrc, parts, shows, err, timer>>
audio == <<loop, index, pc, ausrc, auplay, ab, ac, enc>>
vid == <<video, vidisp, vsrc, parts, shows, err, timer>>

None == -1
Rate == None .. Rates - 1

TypeOK ==
    /\ loop \in {"none", "new", "live", "freed"} /\ index \in 0 .. Rates - 1
    /\ pc \in {"idle", "codec", "stop", "free", "alloc", "play", "src"}
    /\ {ausrc, auplay, ac, enc} \subseteq Rate /\ ab \in BOOLEAN
    /\ video \in {"none", "live", "closing"} /\ {vidisp, vsrc, parts, shows, err, timer} \subseteq BOOLEAN

Init ==
    /\ loop = "none" /\ index = 0 /\ pc = "idle" /\ ausrc = None /\ auplay = None
    /\ ab = FALSE /\ ac = None /\ enc = None
    /\ video = "none" /\ vidisp = FALSE /\ vsrc = FALSE /\ parts = FALSE
    /\ shows = FALSE /\ err = FALSE /\ timer = FALSE

-----------------------------------------------------------------------------
\* auloop_destructor.
Gone ==
    /\ loop' = "none" /\ index' = 0 /\ pc' = "idle" /\ ausrc' = None /\ auplay' = None
    /\ ab' = FALSE /\ ac' = None /\ enc' = None

\* auloop_start: a new loop, the next rate, or the end after the last one.
Start ==
    /\ pc = "idle" /\ loop \in {"none", "live"}
    /\ IF loop = "live" /\ index = Rates - 1 THEN Gone
       ELSE /\ index' = IF loop = "none" THEN 0 ELSE index + 1
            /\ loop' = IF loop = "none" THEN "new" ELSE loop
            /\ pc' = "codec"
            /\ UNCHANGED <<ausrc, auplay, ab, ac, enc>>
    /\ UNCHANGED vid

\* auloop_stop.
Stop == pc = "idle" /\ loop = "live" /\ Gone /\ UNCHANGED vid

\* start_codec: the codec of the new rate is looked up; its encupdh and decupdh keep a state
\* that is there, as in most codecs.
StartCodec ==
    /\ pc = "codec" /\ pc' = "stop"
    /\ IF Coded THEN ac' \in {index, None} /\ enc' = IF enc = None /\ ac' # None THEN index ELSE enc
       ELSE UNCHANGED <<ac, enc>>
    /\ UNCHANGED <<loop, index, ausrc, auplay, ab, vid>>

\* Mutant: only the player is stopped.
StopDevicesHalf ==
    /\ pc = "stop" /\ pc' = "free"
    /\ auplay' = None
    /\ UNCHANGED <<loop, index, ausrc, ab, ac, enc, vid>>

\* auloop_reset: "audio player/source must be stopped first".
StopDevices ==
    /\ pc = "stop" /\ pc' = "free"
    /\ auplay' = None /\ ausrc' = None
    /\ UNCHANGED <<loop, index, ab, ac, enc, vid>>

\* The buffers are freed, and made anew.
FreeBuffers ==
    /\ pc = "free" /\ pc' = "alloc" /\ ab' = FALSE
    /\ UNCHANGED <<loop, index, ausrc, auplay, ac, enc, vid>>
AllocBuffers ==
    /\ pc = "alloc" /\ pc' = "play" /\ ab' = TRUE
    /\ UNCHANGED <<loop, index, ausrc, auplay, ac, enc, vid>>

\* A step of auloop_reset fails: audio_loop_alloc releases what it has begun, while
\* audio_loop_cycle keeps it.
Fails ==
    /\ pc \in {"play", "src"}
    /\ IF loop = "new" THEN Gone
       ELSE pc' = "idle" /\ UNCHANGED <<loop, index, ausrc, auplay, ab, ac, enc>>
    /\ UNCHANGED vid

\* auplay_alloc and ausrc_alloc, with which the handlers begin to be called.
OpenPlayer ==
    /\ pc = "play" /\ pc' = "src" /\ auplay' = index
    /\ UNCHANGED <<loop, index, ausrc, ab, ac, enc, vid>>
OpenSource ==
    /\ pc = "src" /\ pc' = "idle" /\ ausrc' = index /\ loop' = "live"
    /\ UNCHANGED <<index, auplay, ab, ac, enc, vid>>

\* error_handler: the source has ended or failed. In its own thread it cannot wait for itself:
\* the loop is freed under it.
ErrorHandler ==
    /\ ausrc # None /\ loop = "live"
    /\ \/ pc = "idle" /\ Gone
       \/ /\ "thread" \in Faults /\ pc = "idle" /\ loop' = "freed" /\ ab' = FALSE /\ auplay' = None
          /\ ac' = None /\ enc' = None /\ UNCHANGED <<index, pc, ausrc>>
    /\ UNCHANGED vid

-----------------------------------------------------------------------------
\* vidloop_start: the display and the timer, the codec, the source; what fails is released.
VidloopStart(ok) ==
    /\ video = "none"
    /\ IF ok THEN /\ video' = "live" /\ vidisp' = TRUE /\ parts' = TRUE /\ vsrc' = TRUE /\ timer' = TRUE
                  /\ err' = FALSE /\ UNCHANGED shows
       ELSE UNCHANGED vid
    /\ UNCHANGED audio

\* vidsrc_frame_handler: the thread of the source begins with a frame.
FrameBegins ==
    /\ vsrc /\ ~shows /\ shows' = TRUE
    /\ UNCHANGED <<video, vidisp, vsrc, parts, err, timer, audio>>

\* display, at the end of it: with ENODEV the display was closed, and is released.
Display(nodev) ==
    /\ shows /\ shows' = FALSE
    /\ vidisp' = (vidisp /\ ~nodev) /\ err' = (err \/ (vidisp /\ nodev))
    /\ UNCHANGED <<video, vsrc, parts, timer, audio>>

\* timeout_bw: every two seconds; the first one after an error closes the loop.
TimeoutBw ==
    /\ video = "live" /\ timer
    /\ IF err THEN video' = "closing" /\ timer' = FALSE ELSE UNCHANGED <<video, timer>>
    /\ UNCHANGED <<vidisp, vsrc, parts, shows, err, audio>>

\* vidloop_stop.
VidloopStop ==
    /\ video = "live" /\ video' = "closing" /\ timer' = FALSE
    /\ UNCHANGED <<vidisp, vsrc, parts, shows, err, audio>>

\* Mutant: the source is released last.
JoinedLate ==
    /\ video = "closing"
    /\ parts' = FALSE /\ vidisp' = FALSE
    /\ IF shows THEN UNCHANGED <<video, vsrc, err>> ELSE video' = "none" /\ vsrc' = FALSE /\ err' = FALSE
    /\ UNCHANGED <<shows, timer, audio>>

\* vidloop_destructor: the source's thread has ended, then everything else goes.
Joined ==
    /\ video = "closing" /\ ~shows
    /\ video' = "none" /\ vsrc' = FALSE /\ parts' = FALSE /\ vidisp' = FALSE /\ err' = FALSE
    /\ UNCHANGED <<shows, timer, audio>>

Shows == \E nodev \in BOOLEAN : Display(nodev)
Next ==
    \/ Start \/ Stop \/ StartCodec \/ StopDevices \/ FreeBuffers \/ AllocBuffers \/ Fails
    \/ OpenPlayer \/ OpenSource \/ ErrorHandler
    \/ \E ok \in BOOLEAN : VidloopStart(ok)
    \/ FrameBegins \/ Shows \/ TimeoutBw \/ VidloopStop \/ Joined

\* Timers fire, a frame handler returns, and a thread that was told to end does not begin with
\* frame after frame for ever.
Spec == Init /\ [][Next]_vars /\ WF_vars(TimeoutBw) /\ WF_vars(Shows) /\ SF_vars(Joined)

-----------------------------------------------------------------------------
\* The handlers of auloop's devices find its buffers, whichever step of auloop_reset they
\* come between.
BufferHeld == (ausrc # None \/ auplay # None) => ab

\* The thread of the video source finds the codecs and filters of its loop.
FrameHasParts == shows => parts

\* A loop whose display was closed is closed.
VideoLoopEnds == err ~> video = "none"

\* The player's handler finds a codec for its own rate, as auloop.c:244 has it that the devices
\* are stopped before anything is changed. The codec is changed first, and keeps its state.
CodecFitsPlayer == (auplay # None /\ ac # None) => ac = auplay /\ enc = auplay
================================================================================
