--------------------------- MODULE DeviceThreads ---------------------------
(***************************************************************************)
(* The audio and video devices that read or write in a thread of their own *)
(* or in callbacks of a sound system. Each driver is three texts: what its *)
(* alloc handler does, what its destructor does, and what its thread does; *)
(* the steps of these texts interleave. Sound systems are external: a step *)
(* that touches the device may fail, and stopping one waits for a callback *)
(* that runs.                                                              *)
(***************************************************************************)
EXTENDS Integers, Sequences, SequencesExt

CONSTANTS Drivers   \* names of the drivers of a run

VARIABLES
    drv,       \* the driver
    phase,     \* alloc, given (to the caller), free (destructor) or gone
    pc,        \* the next step of the alloc handler or the destructor
    held,      \* the resources that are held
    run,       \* st->run, st->ready
    handler,   \* whether the read or write handler is set
    created,   \* the thread exists: it was created and not joined
    waiting,   \* the destructor waits for the thread or the callback
    tpc        \* next step of the thread, 0 when it does not run

vars == <<drv, phase, pc, held, run, handler, created, waiting, tpc>>

-----------------------------------------------------------------------------
(* The steps of a text. *)

Get(r) == <<"get", r>>          \* acquires a resource, or fails
Check == <<"check", "">>        \* configures the device, or fails
Run == <<"run", "">>            \* sets the flag that keeps the thread going
Spawn == <<"spawn", "">>        \* pthread_create
Start == <<"start", "">>        \* the sound system begins to call back
Clear == <<"clear", "">>        \* takes the handler away
Halt == <<"halt", "">>          \* clears the flag
Join == <<"join", "">>          \* if the flag is set: clears it and joins the thread
Stop == <<"stop", "">>          \* the sound system ends to call back
Put(r) == <<"put", r>>          \* gives a resource back, if it is held
Begin(r) == <<"begin", r>>      \* of a thread: uses a resource; an error ends the thread
While == <<"while", "">>        \* of a thread: ends it unless the flag is set
Wait == <<"wait", "">>          \* of a callback: begins when the sound system calls
Handler == <<"snap", "">>       \* of a callback: returns unless the handler is set
Use(r) == <<"use", r>>          \* uses a resource, whatever comes of it
Try(r) == <<"try", r>>          \* uses a resource; an error begins the loop anew

\* A thread loops over the steps after first steps; the loop begins with While or Wait.
Driver(alloc, free, first, loop) ==
    [alloc |-> alloc, free |-> free, thread |-> first \o loop, again |-> Len(first) + 1]

-----------------------------------------------------------------------------
(* Drivers with a thread. *)

AlsaSrc == Driver(<<Get("sampv"), Get("pcm"), Check, Check, Run, Spawn>>,
    <<Join, Put("pcm"), Put("sampv")>>, <<Begin("pcm")>>, <<While, Try("pcm"), Use("sampv")>>)

\* Mutant: the thread does not look at the flag.
AlsaPlayBlind == Driver(<<Get("sampv"), Get("pcm"), Check, Check, Run, Spawn>>,
    <<Join, Put("pcm"), Put("sampv")>>, <<>>, <<Use("sampv"), Use("pcm"), Use("pcm")>>)

AlsaPlay == Driver(<<Get("sampv"), Get("pcm"), Check, Check, Run, Spawn>>,
    <<Join, Put("pcm"), Put("sampv")>>, <<>>, <<While, Use("sampv"), Use("pcm"), Use("pcm")>>)

OssSrc == Driver(<<Get("sampv"), Get("fd"), Check, Run, Spawn>>,
    <<Join, Put("fd"), Put("sampv")>>, <<>>, <<While, Try("fd"), Use("sampv")>>)
OssPlay == Driver(<<Get("sampv"), Get("fd"), Check, Run, Spawn>>,
    <<Join, Put("fd"), Put("sampv")>>, <<>>, <<While, Use("sampv"), Begin("fd")>>)

SndioSrc == Driver(<<Get("hdl"), Check, Check, Get("sampv"), Run, Spawn>>,
    <<Join, Put("hdl"), Put("sampv")>>, <<Begin("hdl")>>, <<While, Use("hdl"), Use("sampv")>>)
SndioPlay == Driver(<<Get("hdl"), Check, Check, Get("sampv"), Run, Spawn>>,
    <<Join, Put("hdl"), Put("sampv")>>, <<Begin("hdl")>>, <<While, Use("sampv"), Use("hdl")>>)

PulseSrc == Driver(<<Get("sampv"), Get("s"), Run, Spawn>>,
    <<Join, Put("s"), Put("sampv")>>, <<Use("s")>>, <<While, Try("s"), Use("sampv")>>)
PulsePlay == Driver(<<Get("sampv"), Get("s"), Run, Spawn>>,
    <<Join, Put("s"), Put("sampv")>>, <<>>, <<While, Use("sampv"), Use("s")>>)

\* A file, read at once; its thread plays the buffer.
Aufile == Driver(<<Get("aufile"), Check, Get("aubuf"), Check, Run, Spawn>>,
    <<Join, Put("aufile"), Put("aubuf")>>, <<Begin("aubuf")>>, <<While, Use("aubuf")>>)

RstAudio == Driver(<<Get("mp3"), Check, Get("aubuf"), Get("rst"), Run, Spawn>>,
    <<Put("rst"), Join, Put("mp3"), Put("aubuf")>>, <<Begin("aubuf")>>, <<While, Use("aubuf")>>)
RstVideo == Driver(<<Check, Get("surface"), Get("cairo"), Get("frame"), Get("rst"), Run, Spawn>>,
    <<Put("rst"), Join, Put("cairo"), Put("surface"), Put("frame")>>, <<>>, <<While, Use("frame")>>)

V4l == Driver(<<Get("fd"), Check, Check, Get("mb"), Run, Spawn>>,
    <<Join, Put("fd"), Put("mb")>>, <<>>, <<While, Try("fd"), Use("mb")>>)

V4l2 == Driver(<<Get("fd"), Check, Get("table"), Get("maps"), Check, Check, Run, Spawn>>,
    <<Join, Put("maps"), Put("table"), Put("fd")>>, <<>>, <<While, Try("fd"), Use("maps"), Use("fd")>>)

X11grab == Driver(<<Get("disp"), Get("image"), Check, Run, Spawn>>,
    <<Join, Put("image"), Put("disp")>>, <<>>, <<While, Try("disp"), Use("image")>>)
Cairo == Driver(<<Get("surface"), Get("cr"), Get("surface_logo"), Get("cr_logo"), Run, Spawn>>,
    <<Join, Put("cr"), Put("surface"), Put("cr_logo"), Put("surface_logo")>>,
    <<>>, <<While, Use("cr"), Use("surface_logo"), Use("surface")>>)
Avformat == Driver(<<Get("ic"), Check, Get("codec"), Run, Spawn>>,
    <<Join, Put("codec"), Put("ic")>>, <<>>, <<While, Try("ic"), Use("codec")>>)

-----------------------------------------------------------------------------
(* Drivers that are called back. *)

JackSrc == Driver(<<Get("client"), Check, Check, Start, Check, Get("sampv")>>,
    <<Stop, Put("client"), Put("sampv")>>, <<>>, <<Wait, Use("client"), Use("sampv")>>)
JackPlay == Driver(<<Get("client"), Check, Check, Start, Check, Get("sampv")>>,
    <<Stop, Put("client"), Put("sampv")>>, <<>>, <<Wait, Use("sampv"), Use("client")>>)

\* ready is set before the stream opens; a callback that finds it cleared aborts.
PortaudioSrc == Driver(<<Run, Get("stream"), Start>>, <<Halt, Stop, Put("stream")>>,
    <<>>, <<Wait, While, Use("stream")>>)
PortaudioPlay == Driver(<<Run, Get("stream"), Start>>, <<Halt, Stop, Put("stream")>>,
    <<>>, <<Wait, While, Use("stream")>>)

CoreaudioSrc == Driver(<<Get("mutex"), Get("session"), Get("queue"), Get("buf"), Start>>,
    <<Clear, Put("session"), Stop, Put("buf"), Put("queue"), Put("mutex")>>,
    <<>>, <<Wait, Use("mutex"), Handler, Use("buf"), Use("queue")>>)
CoreaudioPlay == Driver(<<Get("mutex"), Get("session"), Get("queue"), Get("buf"), Start>>,
    <<Clear, Put("session"), Stop, Put("buf"), Put("queue"), Put("mutex")>>,
    <<>>, <<Wait, Use("mutex"), Handler, Use("buf"), Use("queue")>>)

AudiounitSrc == Driver(<<Get("mutex"), Get("sess"), Get("au"), Check, Check, Start, Check>>,
    <<Clear, Stop, Put("au"), Put("sess"), Put("mutex")>>,
    <<>>, <<Wait, Use("mutex"), Handler, Try("au"), Use("au")>>)
AudiounitPlay == Driver(<<Get("mutex"), Get("sess"), Get("au"), Check, Check, Start, Check>>,
    <<Clear, Stop, Put("au"), Put("sess"), Put("mutex")>>,
    <<>>, <<Wait, Use("mutex"), Handler, Use("au")>>)

Text ==
    [alsa_src |-> AlsaSrc, alsa_play |-> AlsaPlay, oss_src |-> OssSrc, oss_play |-> OssPlay,
     sndio_src |-> SndioSrc, sndio_play |-> SndioPlay, pulse_src |-> PulseSrc, pulse_play |-> PulsePlay,
     aufile |-> Aufile, rst_audio |-> RstAudio, rst_video |-> RstVideo, v4l |-> V4l, v4l2 |-> V4l2,
     x11grab |-> X11grab, cairo |-> Cairo, avformat |-> Avformat,
     jack_src |-> JackSrc, jack_play |-> JackPlay, portaudio_src |-> PortaudioSrc,
     portaudio_play |-> PortaudioPlay, coreaudio_src |-> CoreaudioSrc, coreaudio_play |-> CoreaudioPlay,
     audiounit_src |-> AudiounitSrc, audiounit_play |-> AudiounitPlay]

Steps == {"get", "check", "run", "spawn", "start", "clear", "halt", "join", "stop", "put", "begin",
          "while", "wait", "snap", "use", "try"} \X STRING
Touches == {"use", "try", "begin"}

\* What a text must be like, read by itself: the alloc handler gets what the thread uses before
\* the one thread begins, and the destructor ends the thread before it puts that back, puts back
\* whatever the alloc handler gets, and ends by the flag only a thread that begins by the flag.
Orderly(t) ==
    LET ends == {e \in DOMAIN t.free : t.free[e][1] \in {"join", "stop"}}
    IN  /\ t.alloc \in Seq(Steps) /\ t.free \in Seq(Steps) /\ t.thread \in Seq(Steps)
        /\ t.again \in DOMAIN t.thread /\ ends # {}
        /\ \A i \in DOMAIN t.alloc : t.alloc[i][1] \in {"get", "check", "run", "spawn", "start"}
        /\ \A i \in DOMAIN t.free : t.free[i][1] \in {"put", "clear", "halt", "join", "stop"}
        /\ \A i \in DOMAIN t.alloc : t.alloc[i][1] = "get" =>
               \E m \in DOMAIN t.free : t.free[m][1] = "put" /\ t.free[m][2] = t.alloc[i][2]
        /\ \A a, b \in DOMAIN t.alloc :
               {t.alloc[a][1], t.alloc[b][1]} \subseteq {"spawn", "start"} => a = b
        /\ \A i \in DOMAIN t.thread, b \in DOMAIN t.alloc :
               t.thread[i][1] \in Touches /\ t.alloc[b][1] \in {"spawn", "start"} =>
                   \E a \in 1 .. b - 1 : t.alloc[a][1] = "get" /\ t.alloc[a][2] = t.thread[i][2]
        /\ \A i \in DOMAIN t.thread, m \in DOMAIN t.free :
               /\ t.thread[i][1] \in Touches
               /\ t.free[m][1] = "put" /\ t.free[m][2] = t.thread[i][2]
               => \E e \in ends : e < m
        /\ (\E e \in ends : t.free[e][1] = "join") =>
               /\ \A i \in DOMAIN t.alloc :
                      /\ t.alloc[i][1] # "start"
                      /\ t.alloc[i][1] = "spawn" => i > 1 /\ t.alloc[i - 1][1] = "run"
                      /\ t.alloc[i][1] = "run" => i < Len(t.alloc) /\ t.alloc[i + 1][1] = "spawn"
               /\ \A i \in DOMAIN t.free : t.free[i][1] \notin {"halt", "stop"}

\* What is assumed of the constants; the module that gives them values asserts it.
DeviceThreadsAssumption == Drivers \subseteq DOMAIN Text /\ \A d \in Drivers : Orderly(Text[d])

-----------------------------------------------------------------------------
\* mem_zalloc of the state.
Init ==
    /\ drv \in Drivers /\ phase = "alloc" /\ pc = 1
    /\ held = {} /\ run = FALSE /\ handler = TRUE
    /\ created = FALSE /\ waiting = FALSE /\ tpc = 0

Step(op) ==
    /\ \/ phase = "alloc" /\ pc <= Len(Text[drv].alloc) /\ Text[drv].alloc[pc][1] = op
       \/ phase = "free" /\ pc <= Len(Text[drv].free) /\ Text[drv].free[pc][1] = op
    /\ UNCHANGED drv
Resource == IF phase = "alloc" THEN Text[drv].alloc[pc][2] ELSE Text[drv].free[pc][2]
On == pc' = pc + 1 /\ UNCHANGED phase

\* "goto out" of an alloc handler: mem_deref of the state.
Fail == pc' = 1 /\ phase' = "free"

GetStep ==
    /\ Step("get")
    /\ \/ held' = held \cup {Resource} /\ On
       \/ UNCHANGED held /\ Fail
    /\ UNCHANGED <<run, handler, created, waiting, tpc>>
CheckStep == Step("check") /\ (On \/ Fail) /\ UNCHANGED <<held, run, handler, created, waiting, tpc>>
FlagStep ==
    /\ Step("run") \/ Step("halt")
    /\ On /\ run' = (phase = "alloc")
    /\ UNCHANGED <<held, handler, created, waiting, tpc>>

\* Mutant: run stays set when the thread cannot be created.
SpawnKeepsRun ==
    /\ Step("spawn")
    /\ \/ On /\ created' = TRUE /\ tpc' = 1 /\ UNCHANGED run
       \/ Fail /\ UNCHANGED <<run, created, tpc>>
    /\ UNCHANGED <<held, handler, waiting>>

SpawnStep ==
    /\ Step("spawn")
    /\ \/ On /\ created' = TRUE /\ tpc' = 1 /\ UNCHANGED run
       \/ Fail /\ run' = FALSE /\ UNCHANGED <<created, tpc>>
    /\ UNCHANGED <<held, handler, waiting>>
StartStep ==
    /\ Step("start")
    /\ \/ On /\ created' = TRUE /\ tpc' = 1
       \/ Fail /\ UNCHANGED <<created, tpc>>
    /\ UNCHANGED <<held, run, handler, waiting>>

\* The alloc handler returns with *stp set.
Given ==
    /\ phase = "alloc" /\ pc > Len(Text[drv].alloc) /\ phase' = "given"
    /\ UNCHANGED <<drv, pc, held, run, handler, created, waiting, tpc>>

\* mem_deref by the owner, at any time.
Release ==
    /\ phase = "given" /\ Fail
    /\ UNCHANGED <<drv, held, run, handler, created, waiting, tpc>>

ClearStep == Step("clear") /\ On /\ handler' = FALSE /\ UNCHANGED <<held, run, created, waiting, tpc>>
PutStep ==
    /\ Step("put") /\ On /\ held' = held \ {Resource}
    /\ UNCHANGED <<run, handler, created, waiting, tpc>>
JoinStep ==
    /\ Step("join") /\ ~waiting
    /\ IF run THEN waiting' = TRUE /\ UNCHANGED <<phase, pc>> ELSE On /\ UNCHANGED waiting
    /\ run' = FALSE
    /\ UNCHANGED <<held, handler, created, tpc>>
Joined ==
    /\ Step("join") /\ waiting /\ tpc = 0
    /\ On /\ waiting' = FALSE /\ created' = FALSE
    /\ UNCHANGED <<held, run, handler, tpc>>
StopStep ==
    /\ Step("stop") /\ ~waiting
    /\ waiting' = TRUE
    /\ UNCHANGED <<phase, pc, held, run, handler, created, tpc>>
Stopped ==
    /\ Step("stop") /\ waiting /\ tpc \in {0, 1}
    /\ On /\ waiting' = FALSE /\ created' = FALSE /\ tpc' = 0
    /\ UNCHANGED <<held, run, handler>>
Gone ==
    /\ phase = "free" /\ pc > Len(Text[drv].free) /\ phase' = "gone"
    /\ UNCHANGED <<drv, pc, held, run, handler, created, waiting, tpc>>

-----------------------------------------------------------------------------
Again == Text[drv].again

\* Mutant: the loop runs on behind its last step.
AfterRunsOn == tpc + 1

After == IF tpc = Len(Text[drv].thread) THEN Again ELSE tpc + 1
TStep(op) == tpc # 0 /\ Text[drv].thread[tpc][1] = op
             /\ UNCHANGED <<drv, phase, pc, held, run, handler, created, waiting>>

ThreadWhile == TStep("while") /\ tpc' = IF run THEN After ELSE 0
ThreadUse ==
    \/ TStep("use") /\ tpc' = After
    \/ TStep("try") /\ tpc' \in {After, Again}
    \/ TStep("begin") /\ tpc' \in {After, 0}
ThreadHandler == TStep("snap") /\ tpc' = IF handler THEN After ELSE Again

\* The sound system calls back, until it is told to stop.
CallBack == TStep("wait") /\ ~waiting /\ tpc' = After

Destroy == ClearStep \/ PutStep \/ JoinStep \/ Joined \/ StopStep \/ Stopped \/ Gone
           \/ (phase = "free" /\ FlagStep)
Thread == ThreadWhile \/ ThreadUse \/ ThreadHandler
Next == GetStep \/ CheckStep \/ FlagStep \/ SpawnStep \/ StartStep \/ Given \/ Release
        \/ Destroy \/ Thread \/ CallBack

\* The destructor's caller and the thread are scheduled; a device that is used answers.
Spec == Init /\ [][Next]_vars /\ WF_vars(Destroy) /\ WF_vars(Thread)

-----------------------------------------------------------------------------
TypeOK ==
    /\ drv \in Drivers /\ phase \in {"alloc", "given", "free", "gone"}
    /\ pc \in Nat \ {0} /\ run \in BOOLEAN /\ handler \in BOOLEAN /\ created \in BOOLEAN
    /\ waiting \in BOOLEAN /\ tpc \in 0 .. Len(Text[drv].thread)
    /\ phase = "alloc" => pc <= Len(Text[drv].alloc) + 1
    /\ phase = "free" => pc <= Len(Text[drv].free) + 1
    /\ held \subseteq {Text[drv].alloc[i][2] : i \in DOMAIN Text[drv].alloc}

\* The thread or a callback never touches a device or a buffer that does not exist yet
\* or does not exist any more.
UsesHeld ==
    tpc # 0 /\ Text[drv].thread[tpc][1] \in Touches => Text[drv].thread[tpc][2] \in held

\* No destructor joins a thread that was never created, whatever step of the alloc
\* handler failed.
JoinsThread ==
    waiting /\ phase = "free" /\ Text[drv].free[pc][1] = "join" => created

\* When the owner's mem_deref or a failed alloc handler has returned nothing is left:
\* no thread that would call the handlers of the owner, no open device, no buffer.
NothingLeft == phase = "gone" => held = {} /\ tpc = 0 /\ ~created

\* Releasing a device ends, whatever its thread is doing.
ReleaseEnds == phase = "free" ~> phase = "gone"
=============================================================================
