------------------------------- MODULE GstEncoder -------------------------------
(***************************************************************************)
(* The H.264 encoders on a GStreamer pipeline, modules gst_video and       *)
(* gst_video1 (encode.c): the thread of the video source gives its frames  *)
(* to the pipeline, and waits while that has enough; the threads of the    *)
(* pipeline take them, ask for more, and send the packets; the main thread *)
(* changes the parameters.  GStreamer is external: a queue of frames.      *)
(***************************************************************************)
EXTENDS Integers

CONSTANTS
    Kinds,     \* the modules that are explored, of "video" and "video1"
    Params,    \* bit rate, packet size and frames per second
    Sizes,     \* of frames
    Cap,       \* frames that the pipeline's source holds
    Faults     \* of "race", "error" and "slow", explained where they occur

\* What is assumed of the constants; the module that gives them values asserts it.
GstEncoderAssumption ==
    Kinds \subseteq {"video", "video1"} /\ Cap \in Nat \ {0} /\ Faults \subseteq {"race", "error", "slow"}

None == "none"


VARIABLES
    kind,      \* the module
    conf,      \* st->bitrate, pktsize and fps; None before the encoder is there
    asked,     \* history: the parameters that encoder_set was called with last
    valid,     \* st->gst_inited, st->streamer.valid
    built,     \* what the pipeline was built for, parameters and size; None without one
    broken,    \* the pipeline has had an error
    flag,      \* st->bwait, st->streamer.wait.flag: "feed", "full" or "gone"
    locked,    \* the mutex was left locked
    queue,     \* frames in the pipeline's source
    enc,       \* the source's thread: "idle", "lock", "wait", "push" or "stuck"
    frame      \* the size of its frame

vars == <<kind, conf, asked, valid, built, broken, flag, locked, queue, enc, frame>>
pipe == <<valid, built, broken, flag, locked, queue>>

TypeOK ==
    /\ kind \in Kinds /\ conf \in Params \cup {None} /\ asked \in Params \cup {None}
    /\ valid \in BOOLEAN /\ built \in (Params \X Sizes) \cup {<<None, None>>}
    /\ broken \in BOOLEAN /\ flag \in {"feed", "full", "gone"} /\ locked \in BOOLEAN
    /\ queue \in 0 .. Cap /\ enc \in {"idle", "lock", "wait", "push", "stuck"}
    /\ frame \in Sizes \cup {None}

Nothing == <<None, None>>

Init ==
    /\ kind \in Kinds /\ conf = None /\ asked = None
    /\ valid = FALSE /\ built = Nothing /\ broken = FALSE /\ flag = "feed"
    /\ locked = FALSE /\ queue = 0 /\ enc = "idle" /\ frame = None

-----------------------------------------------------------------------------
\* pipeline_close and gst_encoder_close. The callbacks of gst_video1 are told that they go,
\* and a thread that waits wakes up.
CloseIt ==
    /\ valid' = FALSE /\ built' = Nothing /\ broken' = FALSE /\ queue' = 0
    /\ flag' = IF kind = "video1" /\ built # Nothing THEN "gone" ELSE flag
    /\ UNCHANGED locked

\* Mutant: the pipeline goes on with other parameters.
EncoderSetKeeps(p) ==
    /\ enc = "idle" \/ "race" \in Faults
    /\ asked' = p
    /\ IF kind = "video1" /\ conf # None /\ ~valid THEN UNCHANGED <<conf, pipe>>
       ELSE conf' = p /\ UNCHANGED pipe
    /\ UNCHANGED <<kind, enc, frame>>

\* gst_video_encode_update and gst_video1_encoder_set: a pipeline with other parameters is
\* closed, the next frame builds one; gst_video1 refuses when there is an encoder without
\* one. With "race" this happens also while the other thread gives a frame.
EncoderSet(p) ==
    /\ enc = "idle" \/ "race" \in Faults
    /\ asked' = p
    /\ IF kind = "video1" /\ conf # None /\ ~valid THEN UNCHANGED <<conf, pipe>>
       ELSE conf' = p /\ IF valid /\ p # conf THEN CloseIt ELSE UNCHANGED pipe
    /\ UNCHANGED <<kind, enc, frame>>

\* gst_encoder_init and pipeline_init, which may fail; the one of gst_video makes the mutex
\* anew.
InitIt(z, ok) ==
    /\ valid' = ok /\ built' = IF ok THEN <<conf, z>> ELSE Nothing
    /\ broken' = FALSE /\ flag' = "feed" /\ queue' = 0 /\ locked' = (locked /\ ~ok)

\* gst_video_encode and gst_video1_encode.
Encode(z, ok) ==
    /\ enc = "idle" /\ conf # None
    /\ frame' = z
    /\ IF ~valid \/ built[2] # z THEN InitIt(z, ok) /\ enc' = IF ok THEN "lock" ELSE "idle"
       ELSE UNCHANGED pipe /\ enc' = "lock"
    /\ UNCHANGED <<kind, conf, asked>>

\* gst_video_push and pipeline_push: the mutex, and the state that it guards.
Lock ==
    /\ enc = "lock"
    /\ enc' = IF locked THEN "stuck"
              ELSE CASE flag = "full" -> "wait" [] flag = "gone" -> "idle" [] OTHER -> "push"
    /\ UNCHANGED <<kind, conf, asked, pipe, frame>>

\* The condition was signalled, by need-data or because the pipeline is gone.
Woken ==
    /\ enc = "wait" /\ flag # "full"
    /\ enc' = IF flag = "gone" THEN "idle" ELSE "push"
    /\ UNCHANGED <<kind, conf, asked, pipe, frame>>

\* gst_video waits for five seconds only, and then returns without unlocking. With "slow" the
\* pipeline may take as long.
WaitOver ==
    /\ "slow" \in Faults /\ kind = "video" /\ enc = "wait" /\ flag = "full"
    /\ enc' = "idle" /\ locked' = TRUE
    /\ UNCHANGED <<kind, conf, asked, valid, built, broken, flag, queue, frame>>

\* gst_app_src_push_buffer: it tells of a full queue (enough-data), and then blocks until
\* there is room; a broken pipeline refuses.
Push ==
    /\ enc = "push" /\ ~locked
    /\ IF broken \/ built = Nothing THEN enc' = "idle" /\ UNCHANGED <<queue, flag>>
       ELSE IF queue = Cap THEN flag' = "full" /\ flag # "full" /\ UNCHANGED <<queue, enc>>
       ELSE queue' = queue + 1 /\ enc' = "idle" /\ UNCHANGED flag
    /\ UNCHANGED <<kind, conf, asked, valid, built, broken, locked, frame>>

\* appsink_new_sample_cb: a frame is encoded, and its packets are sent.
NewSample ==
    /\ built # Nothing /\ ~broken /\ queue > 0 /\ queue' = queue - 1
    /\ UNCHANGED <<kind, conf, asked, valid, built, broken, flag, locked, enc, frame>>

\* appsrc_need_data_cb: the queue is empty.
NeedData ==
    /\ built # Nothing /\ ~broken /\ queue = 0 /\ ~locked
    /\ flag = "full" /\ flag' = "feed"
    /\ UNCHANGED <<kind, conf, asked, valid, built, broken, locked, queue, enc, frame>>

\* bus_sync_handler_cb, and the thread of gst_video, which then ends: the pipeline has an
\* error. With "error" that may happen.
BusError ==
    /\ "error" \in Faults /\ built # Nothing /\ ~broken /\ broken' = TRUE
    /\ valid' = (valid /\ kind = "video")
    /\ UNCHANGED <<kind, conf, asked, built, flag, locked, queue, enc, frame>>

\* destruct_resources and encode_destructor: the encoder goes, after the source's thread.
Destroy ==
    /\ enc = "idle" /\ conf # None
    /\ conf' = None /\ asked' = None /\ frame' = None
    /\ valid' = FALSE /\ built' = Nothing /\ broken' = FALSE /\ flag' = "feed"
    /\ locked' = FALSE /\ queue' = 0
    /\ UNCHANGED <<kind, enc>>

Next ==
    \/ Lock \/ Woken \/ WaitOver \/ Push \/ NewSample \/ NeedData \/ BusError \/ Destroy
    \/ \E p \in Params : EncoderSet(p)
    \/ \E z \in Sizes, ok \in BOOLEAN : Encode(z, ok)

\* The threads go on, those of the pipeline take and ask for frames.
Spec ==
    Init /\ [][Next]_vars /\ WF_vars(Lock \/ Woken) /\ WF_vars(Push) /\ WF_vars(NewSample) /\ WF_vars(NeedData)

-----------------------------------------------------------------------------
\* A frame goes into a pipeline that was built for its size and the parameters that the
\* encoder has, whichever were changed before (encoder_set, encode).
EncodesAsSet == enc = "push" => built = <<conf, frame>>

\* A frame that the thread of the source gives is taken or refused, and the thread goes on.
FrameEnds == enc # "idle" ~> enc = "idle"

\* The same for the parameters that the caller has given: gst_video1 refuses new ones while
\* there is no pipeline, and the next frame builds one with the old.
EncodesAsAsked == enc = "push" => built = <<asked, frame>>
================================================================================
