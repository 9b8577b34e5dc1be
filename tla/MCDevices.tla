------------------------------ MODULE MCDevices ------------------------------
(***************************************************************************)
(* The audio and video devices for TLC: the camera of the application, the *)
(* drivers with a thread or a callback of their own, the bridge device,    *)
(* the players of Windows and OpenSL ES, the GStreamer source (with a      *)
(* source that fails, and one that does not) the internet radio, and the   *)
(* loops that test devices. The components share no variable, so each is   *)
(* explored by itself: part names the one that moves while the others stay *)
(* in an initial state, and what holds of every part holds of any          *)
(* interleaving of them.                                                   *)
(***************************************************************************)
EXTENDS FakeVideo, SequenceTheorems, WellFoundedInduction, TLAPS

CONSTANTS
    Drivers,                                             \* of DeviceThreads
    Plays, Srcs,                                         \* of AudioBridge
    WriteBuffers, Writes,                                \* of WinWave
    PlayBuffers, RecBuffers, MaxRestart,                 \* of OpenSles
    MaxBuffer,                                           \* of GstSource
    HeadLen, MetaInt, MetaSizes, Named, MaxSent, MaxConn,  \* of RadioStream
    Rates, Coded                                         \* of MediaLoops

VARIABLES
    part,   \* the component that moves
    \* DeviceThreads
    drv, phase, devPc, held, devRun, handler, created, waiting, tpc,
    \* AudioBridge
    bridgeAuplay, bridgeAusrc, bridgeRun, bridgeThread, state, bridgeMain,
    \* WinWave
    rdy, pos, inuse, prepared, waveQueue, kicks, step, buf, count,
    \* OpenSles
    bufferId, slesQueue, slesAt, id, recId, recQueue, recAt, recDone, starts,
    \* GstSource
    gstRun, gstMain, gstThread, gstLooping, gstPlaying, gstStream, gstPackets,
    \* GstSource
    gstErrRun, gstErrMain, gstErrThread, gstErrLooping, gstErrPlaying, gstErrStream,
    gstErrPackets,
    \* RadioStream
    conn, conns, net, sent, server, headRecv, metasz, bytec, buffered, out,
    \* MediaLoops
    loop, index, loopsPc, loopsAusrc, loopsAuplay, ab, ac, enc, video, vidisp, vsrc, parts,
    shows, err, timer

Dev == INSTANCE DeviceThreads WITH pc <- devPc, run <- devRun
Bridge == INSTANCE AudioBridge WITH
    auplay <- bridgeAuplay, ausrc <- bridgeAusrc, run <- bridgeRun, thread <- bridgeThread,
    main <- bridgeMain
Wave == INSTANCE WinWave WITH Faults <- {}, queue <- waveQueue
Sles == INSTANCE OpenSles WITH queue <- slesQueue, at <- slesAt
Gst == INSTANCE GstSource WITH
    BusErrors <- FALSE, Hasty <- FALSE, run <- gstRun, main <- gstMain,
    thread <- gstThread, looping <- gstLooping, playing <- gstPlaying, stream <- gstStream,
    packets <- gstPackets
GstErr == INSTANCE GstSource WITH
    BusErrors <- TRUE, Hasty <- FALSE, run <- gstErrRun, main <- gstErrMain,
    thread <- gstErrThread, looping <- gstErrLooping, playing <- gstErrPlaying,
    stream <- gstErrStream, packets <- gstErrPackets
Radio == INSTANCE RadioStream
Loops == INSTANCE MediaLoops WITH
    Faults <- {}, pc <- loopsPc, ausrc <- loopsAusrc, auplay <- loopsAuplay

\* What the components assume of their constants.
ASSUME PartsAssumption ==
    /\ Dev!DeviceThreadsAssumption
    /\ Bridge!AudioBridgeAssumption
    /\ Wave!WinWaveAssumption
    /\ Sles!OpenSlesAssumption
    /\ Gst!GstSourceAssumption
    /\ GstErr!GstSourceAssumption
    /\ Radio!RadioStreamAssumption
    /\ Loops!MediaLoopsAssumption

devVars == <<drv, phase, devPc, held, devRun, handler, created, waiting, tpc>>
bridgeVars == <<bridgeAuplay, bridgeAusrc, bridgeRun, bridgeThread, state, bridgeMain>>
waveVars == <<rdy, pos, inuse, prepared, waveQueue, kicks, step, buf, count>>
slesVars == <<bufferId, slesQueue, slesAt, id, recId, recQueue, recAt, recDone, starts>>
gstVars == <<gstRun, gstMain, gstThread, gstLooping, gstPlaying, gstStream, gstPackets>>
gstErrVars == <<gstErrRun, gstErrMain, gstErrThread, gstErrLooping, gstErrPlaying, gstErrStream,
      gstErrPackets>>
radioVars == <<conn, conns, net, sent, server, headRecv, metasz, bytec, buffered, out>>
loopsVars == <<loop, index, loopsPc, loopsAusrc, loopsAuplay, ab, ac, enc, video, vidisp, vsrc,
      parts, shows, err, timer>>

all ==
    <<part, vars, devVars, bridgeVars, waveVars, slesVars, gstVars, gstErrVars, radioVars, loopsVars>>
Parts == {"camera", "threads", "bridge", "wave", "sles", "gst", "gsterr", "radio", "loops"}

\* The one that is chosen begins in any initial state, the others in one of theirs.
AllInit ==
    /\ part \in Parts
    /\ Init
    /\ Dev!Init /\ (part # "threads" => drv = CHOOSE d \in Drivers : TRUE)
    /\ Bridge!Init
    /\ Wave!Init
    /\ Sles!Init
    /\ Gst!Init
    /\ GstErr!Init
    /\ Radio!Init
    /\ Loops!Init

\* Everything that does not belong to p stays as it is.
Only(p) ==
    /\ part = p /\ UNCHANGED part
    /\ IF p = "camera" THEN TRUE ELSE UNCHANGED vars
    /\ IF p = "threads" THEN TRUE ELSE UNCHANGED devVars
    /\ IF p = "bridge" THEN TRUE ELSE UNCHANGED bridgeVars
    /\ IF p = "wave" THEN TRUE ELSE UNCHANGED waveVars
    /\ IF p = "sles" THEN TRUE ELSE UNCHANGED slesVars
    /\ IF p = "gst" THEN TRUE ELSE UNCHANGED gstVars
    /\ IF p = "gsterr" THEN TRUE ELSE UNCHANGED gstErrVars
    /\ IF p = "radio" THEN TRUE ELSE UNCHANGED radioVars
    /\ IF p = "loops" THEN TRUE ELSE UNCHANGED loopsVars

AllNext ==
    \/ Only("camera") /\ Next
    \/ Only("threads") /\ Dev!Next
    \/ Only("bridge") /\ Bridge!Next
    \/ Only("wave") /\ Wave!Next
    \/ Only("sles") /\ Sles!Next
    \/ Only("gst") /\ Gst!Next
    \/ Only("gsterr") /\ GstErr!Next
    \/ Only("radio") /\ Radio!Next
    \/ Only("loops") /\ Loops!Next

\* The fairness of each component, while it is the one that moves.
AllFairness ==
    /\ WF_all(Only("threads") /\ Dev!Destroy)
    /\ WF_all(Only("threads") /\ Dev!Thread)
    /\ WF_all(Only("bridge") /\ Bridge!Thread)
    /\ WF_all(Only("bridge") /\ Bridge!Joined)
    /\ WF_all(Only("wave") /\ Wave!Driver)
    /\ WF_all(Only("wave") /\ Wave!Destroyed)
    /\ WF_all(Only("gsterr") /\ GstErr!Thread)
    /\ WF_all(Only("gsterr") /\ GstErr!Empty)
    /\ WF_all(Only("gsterr") /\ (GstErr!Quit \/ GstErr!Join \/ GstErr!Null))
    /\ WF_all(Only("loops") /\ Loops!TimeoutBw)
    /\ WF_all(Only("loops") /\ Loops!Shows)
    /\ SF_all(Only("loops") /\ Loops!Joined)
    /\ WF_all(Only("radio") /\ Radio!Reconnect)
    /\ WF_all(Only("radio") /\ (Radio!Resolved \/ Radio!Established))

AllSpec == AllInit /\ [][AllNext]_all /\ AllFairness

-----------------------------------------------------------------------------
\* The types of all components.
AllTypesOK ==
    /\ TypeOK /\ Dev!TypeOK /\ Bridge!TypeOK /\ Wave!TypeOK /\ Sles!TypeOK
    /\ Gst!TypeOK /\ GstErr!TypeOK /\ Radio!TypeOK /\ Loops!TypeOK

\* Whatever a thread or a callback of a device uses is there: nothing was given back that a
\* later step of it touches, no thread is left when the device is gone, and a buffer is filled
\* only when the device has given it back.
UsesHeld ==
    /\ Dev!UsesHeld /\ Dev!JoinsThread /\ Dev!NothingLeft
    /\ Bridge!ThreadIsKnown /\ Wave!ClosesEmpty /\ Gst!OutlivesThreads
    /\ Wave!FillsOwn /\ Sles!FillsUnqueued /\ Loops!BufferHeld /\ Loops!FrameHasParts

\* RadioStream and OpenSles: what is played, shown or recorded is what came as such, however
\* the stream is cut into packets and whichever buffer is the next.
UsedAsSent == []Radio!UsedAsSent /\ Sles!ReadsRecorded

\* Releasing a device ends, the radio comes back after every failure, and a video loop
\* without a display is closed.
ReleasesEnd ==
    /\ Dev!ReleaseEnds /\ Bridge!StopEnds /\ Wave!CloseEnds /\ GstErr!ReleaseEnds
    /\ Radio!Returns /\ Loops!VideoLoopEnds
-----------------------------------------------------------------------------
(* The video source of the application. *)

\* The main loop is at a known place of the life of the source it is at.
MainAgrees ==
    /\ main \in {"idle", "destroy"} => g = 0
    /\ main # "idle" => n # 0
    /\ main \in {"setup", "up", "lock"} => g = n
    /\ main = "setup" => src[n] = "half"
    /\ main \in {"up", "lock"} => src[n] = "up"

\* A camera past the lock holds the mutex of the source that the pointer names.
HoldsLock ==
    ~late => \A c \in Cameras :
        /\ at[c] \in {"check", "handler"} => g # 0 /\ locked[c] = g /\ owner[g] = c
        /\ at[c] = "handler" => src[g] = "up"

\* The inductive invariant.
IInv == TypeOK /\ MainAgrees /\ HoldsLock

\* FakeVideo: the initial state satisfies the invariant.
LEMMA InitInv == Init => IInv
<1> SUFFICES ASSUME Init PROVE IInv
  OBVIOUS
<1>1. late \in BOOLEAN
  BY Zenon DEF Init
<1>2. TypeOK
  BY <1>1, FakeVideoAssumption DEF Init, TypeOK, Sources, Free
<1>3. MainAgrees /\ HoldsLock
  BY DEF Init, MainAgrees, HoldsLock
<1> QED BY <1>2, <1>3 DEF IInv

\* The main loop: only the destructor clears the pointer, and only while nobody has the
\* mutex (src_alloc, src_destructor).
LEMMA MainInv == IInv /\ Main => IInv'
<1>1. IInv /\ Alloc => IInv'
  BY FakeVideoAssumption DEF IInv, Alloc, TypeOK, MainAgrees, HoldsLock, Sources
<1>2. IInv /\ Setup => IInv'
  BY FakeVideoAssumption DEF IInv, Setup, TypeOK, MainAgrees, HoldsLock, Sources
<1>3. IInv /\ Release => IInv'
  BY FakeVideoAssumption DEF IInv, Release, TypeOK, MainAgrees, HoldsLock, Sources
<1>4. IInv /\ Destroy => IInv'
  BY FakeVideoAssumption DEF IInv, Destroy, TypeOK, MainAgrees, HoldsLock, Sources, Free
<1>5. IInv /\ Destroyed => IInv'
  BY FakeVideoAssumption DEF IInv, Destroyed, TypeOK, MainAgrees, HoldsLock, Sources
<1> QED BY <1>1, <1>2, <1>3, <1>4, <1>5 DEF Main

\* A camera: whoever unlocks is the only one past the lock (my_vidsrc_update).
LEMMA CameraInv == ASSUME NEW c \in Cameras PROVE IInv /\ Camera(c) => IInv'
<1>1. IInv /\ Update(c) => IInv'
  BY FakeVideoAssumption DEF IInv, Update, Go, TypeOK, MainAgrees, HoldsLock, Sources
<1>2. IInv /\ Evaluate(c) => IInv'
  BY FakeVideoAssumption DEF IInv, Evaluate, Go, TypeOK, MainAgrees, HoldsLock, Sources
<1>3. IInv /\ Lock(c) => IInv'
  <2> SUFFICES ASSUME IInv, Lock(c) PROVE IInv'
    OBVIOUS
  <2>1. late' \in BOOLEAN
    BY Zenon DEF IInv, TypeOK, Lock
  <2>2. CASE src[locked[c]] = "freed"
    <3>1. (~late' => ~late) /\ owner' = owner /\ Go(c, "crash") /\ UNCHANGED <<g, locked>>
      BY <2>2, Zenon DEF Lock
    <3>2. TypeOK'
      BY <2>1, <3>1, FakeVideoAssumption DEF IInv, Go, TypeOK, Sources, Free
    <3>3. MainAgrees' /\ HoldsLock'
      BY <3>1 DEF IInv, Go, TypeOK, MainAgrees, HoldsLock
    <3> QED BY <3>2, <3>3 DEF IInv
  <2>3. CASE src[locked[c]] # "freed"
    <3>1. TypeOK'
      BY <2>1, <2>3, FakeVideoAssumption DEF IInv, Lock, Go, TypeOK, Sources, Free
    <3>2. MainAgrees'
      BY <2>3 DEF IInv, Lock, Go, MainAgrees
    <3>3. ~late' => ~late /\ locked[c] = g
      BY <2>3, Zenon DEF Lock
    <3>4. HoldsLock'
      BY <2>3, <3>3, FakeVideoAssumption DEF IInv, Lock, Go, TypeOK, HoldsLock, Sources, Free
    <3> QED BY <3>1, <3>2, <3>4 DEF IInv
  <2> QED BY <2>2, <2>3
<1>4. IInv /\ NoSource(c) => IInv'
  BY FakeVideoAssumption
  DEF IInv, NoSource, Go, Unlocked, Ready, TypeOK, MainAgrees, HoldsLock, Sources, Free
<1>5. IInv /\ Handle(c) => IInv'
  BY FakeVideoAssumption DEF IInv, Handle, Go, Ready, TypeOK, MainAgrees, HoldsLock, Sources
<1>6. IInv /\ Handled(c) => IInv'
  BY FakeVideoAssumption
  DEF IInv, Handled, Go, Unlocked, TypeOK, MainAgrees, HoldsLock, Sources, Free
<1> QED BY <1>1, <1>2, <1>3, <1>4, <1>5, <1>6 DEF Camera

-----------------------------------------------------------------------------
(* The drivers with a thread or a callback. *)

\* The texts of the driver.
OfAlloc == Dev!Text[drv].alloc
OfFree == Dev!Text[drv].free
OfThread == Dev!Text[drv].thread
Joins == \E e \in DOMAIN OfFree : OfFree[e][1] = "join"

\* A thread that was begun is ended by a step that is still to come, and what it uses is held.
Working ==
    created =>
        /\ phase # "gone"
        /\ phase = "alloc" => \E b \in DOMAIN OfAlloc :
               b < devPc /\ OfAlloc[b][1] \in {"spawn", "start"}
        /\ phase = "free" => \A e \in DOMAIN OfFree :
               e < devPc => OfFree[e][1] \notin {"join", "stop"}
        /\ \A i \in DOMAIN OfThread :
               OfThread[i][1] \in Dev!Touches => OfThread[i][2] \in held

\* What the steps so far have got is held, and each thing that is held is put back by a step
\* that is still to come.
Gotten ==
    phase = "alloc" => \A i \in DOMAIN OfAlloc :
        i < devPc /\ OfAlloc[i][1] = "get" => OfAlloc[i][2] \in held
Returned ==
    \A r \in held :
        /\ phase # "gone"
        /\ \E m \in DOMAIN OfFree :
               OfFree[m][1] = "put" /\ OfFree[m][2] = r /\ (phase = "free" => m >= devPc)

\* The flag says whether there is a thread to be joined.
Flagged ==
    Joins =>
        /\ devRun => \/ created
                     \/ phase = "alloc" /\ devPc \in DOMAIN OfAlloc /\ OfAlloc[devPc][1] = "spawn"
        /\ phase = "alloc" /\ devPc \in DOMAIN OfAlloc /\ OfAlloc[devPc][1] = "spawn" => devRun
        /\ created => devRun \/ waiting
        /\ waiting => created /\ ~devRun

\* Only a text that ends the thread waits, and a thread that runs was begun.
Waits ==
    waiting => phase = "free" /\ devPc \in DOMAIN OfFree /\ OfFree[devPc][1] \in {"join", "stop"}
Alive == tpc # 0 => created

DevInv == Dev!TypeOK /\ Working /\ Gotten /\ Returned /\ Flagged /\ Waits /\ Alive

\* What Orderly says of the texts of a driver, part by part.
LEMMA DevTexts ==
    ASSUME drv \in Drivers
    PROVE  /\ OfAlloc \in Seq(Dev!Steps) /\ OfFree \in Seq(Dev!Steps) /\ OfThread \in Seq(Dev!Steps)
           /\ Dev!Text[drv].again \in DOMAIN OfThread
           /\ \E e \in DOMAIN OfFree : OfFree[e][1] \in {"join", "stop"}
           /\ \A i \in DOMAIN OfAlloc : OfAlloc[i][1] \in {"get", "check", "run", "spawn", "start"}
           /\ \A i \in DOMAIN OfFree : OfFree[i][1] \in {"put", "clear", "halt", "join", "stop"}
           /\ \A i \in DOMAIN OfAlloc : OfAlloc[i][1] = "get" =>
                  \E m \in DOMAIN OfFree : OfFree[m][1] = "put" /\ OfFree[m][2] = OfAlloc[i][2]
           /\ \A a, b \in DOMAIN OfAlloc :
                  {OfAlloc[a][1], OfAlloc[b][1]} \subseteq {"spawn", "start"} => a = b
           /\ \A i \in DOMAIN OfThread, b \in DOMAIN OfAlloc :
                  OfThread[i][1] \in Dev!Touches /\ OfAlloc[b][1] \in {"spawn", "start"} =>
                      \E a \in 1 .. b - 1 : OfAlloc[a][1] = "get" /\ OfAlloc[a][2] = OfThread[i][2]
           /\ \A i \in DOMAIN OfThread, m \in DOMAIN OfFree :
                  OfThread[i][1] \in Dev!Touches /\ OfFree[m][1] = "put"
                  /\ OfFree[m][2] = OfThread[i][2] =>
                      \E e \in DOMAIN OfFree : OfFree[e][1] \in {"join", "stop"} /\ e < m
           /\ Joins =>
                  /\ \A i \in DOMAIN OfAlloc :
                         /\ OfAlloc[i][1] # "start"
                         /\ OfAlloc[i][1] = "spawn" => i > 1 /\ OfAlloc[i - 1][1] = "run"
                         /\ OfAlloc[i][1] = "run" =>
                                i < Len(OfAlloc) /\ OfAlloc[i + 1][1] = "spawn"
                  /\ \A i \in DOMAIN OfFree : OfFree[i][1] \notin {"halt", "stop"}
<1> USE DEF OfAlloc, OfFree, OfThread, Joins
<1> DEFINE t == Dev!Text[drv]
<1>1. Dev!Orderly(t)
  BY PartsAssumption DEF Dev!DeviceThreadsAssumption
<1> HIDE DEF t
<1>2. /\ t.alloc \in Seq(Dev!Steps) /\ t.free \in Seq(Dev!Steps) /\ t.thread \in Seq(Dev!Steps)
      /\ t.again \in DOMAIN t.thread
  BY <1>1, Zenon DEF Dev!Orderly
<1>3. \E e \in DOMAIN t.free : t.free[e][1] \in {"join", "stop"}
  BY <1>1 DEF Dev!Orderly
<1>4. \A i \in DOMAIN t.alloc : t.alloc[i][1] \in {"get", "check", "run", "spawn", "start"}
  BY <1>1, Zenon DEF Dev!Orderly
<1>5. \A i \in DOMAIN t.free : t.free[i][1] \in {"put", "clear", "halt", "join", "stop"}
  BY <1>1, Zenon DEF Dev!Orderly
<1>6. \A i \in DOMAIN t.alloc : t.alloc[i][1] = "get" =>
         \E m \in DOMAIN t.free : t.free[m][1] = "put" /\ t.free[m][2] = t.alloc[i][2]
  BY <1>1, Zenon DEF Dev!Orderly
<1>7. \A i \in DOMAIN t.thread, b \in DOMAIN t.alloc :
         t.thread[i][1] \in Dev!Touches /\ t.alloc[b][1] \in {"spawn", "start"} =>
             \E a \in 1 .. b - 1 : t.alloc[a][1] = "get" /\ t.alloc[a][2] = t.thread[i][2]
  BY <1>1, Zenon DEF Dev!Orderly
<1>8. \A i \in DOMAIN t.thread, m \in DOMAIN t.free :
         t.thread[i][1] \in Dev!Touches /\ t.free[m][1] = "put"
         /\ t.free[m][2] = t.thread[i][2] =>
             \E e \in DOMAIN t.free : t.free[e][1] \in {"join", "stop"} /\ e < m
  BY <1>1, SMT DEF Dev!Orderly
<1>9. (\E e \in DOMAIN t.free : t.free[e][1] = "join") =>
         /\ \A i \in DOMAIN t.alloc :
                /\ t.alloc[i][1] # "start"
                /\ t.alloc[i][1] = "spawn" => i > 1 /\ t.alloc[i - 1][1] = "run"
                /\ t.alloc[i][1] = "run" => i < Len(t.alloc) /\ t.alloc[i + 1][1] = "spawn"
         /\ \A i \in DOMAIN t.free : t.free[i][1] \notin {"halt", "stop"}
  BY <1>1, SMT DEF Dev!Orderly
<1>10. \A a, b \in DOMAIN t.alloc :
          {t.alloc[a][1], t.alloc[b][1]} \subseteq {"spawn", "start"} => a = b
  BY <1>1, Zenon DEF Dev!Orderly
<1>. QED BY <1>2, <1>3, <1>4, <1>5, <1>6, <1>7, <1>8, <1>9, <1>10, Zenon DEF t

\* The initial state of a driver.
LEMMA DevInit == Dev!Init => DevInv
<1> SUFFICES ASSUME Dev!Init PROVE DevInv
  OBVIOUS
<1>1. /\ drv \in Drivers /\ phase = "alloc" /\ devPc = 1 /\ held = {} /\ tpc = 0
      /\ devRun = FALSE /\ handler = TRUE /\ created = FALSE /\ waiting = FALSE
  BY DEF Dev!Init
<1>2. OfAlloc \in Seq(Dev!Steps) /\ OfFree \in Seq(Dev!Steps) /\ OfThread \in Seq(Dev!Steps)
  BY <1>1, DevTexts
<1>3. Joins => ~(1 \in DOMAIN OfAlloc /\ OfAlloc[1][1] = "spawn")
  <2>1. Joins => \A i \in DOMAIN OfAlloc : OfAlloc[i][1] = "spawn" => i > 1
    BY <1>1, DevTexts
  <2>. QED BY <2>1
<1>4. Dev!TypeOK
  <2>1. Len(OfAlloc) \in Nat /\ Len(OfThread) \in Nat
    BY <1>2
  <2>2. {devRun, handler, created, waiting} \subseteq BOOLEAN
    BY <1>1, Zenon
  <2>. QED BY <1>1, <2>1, <2>2 DEF Dev!TypeOK, OfAlloc, OfThread
<1>5. Working /\ Waits /\ Alive
  BY <1>1, Zenon DEF Working, Waits, Alive
<1>6. Gotten
  BY <1>1, <1>2 DEF Gotten
<1>7. Flagged /\ Returned
  BY <1>1, <1>3 DEF Flagged, Returned
<1>. QED BY <1>4, <1>5, <1>6, <1>7 DEF DevInv

\* What a step of the alloc handler or the destructor is: the one at devPc.
LEMMA DevStep ==
    ASSUME DevInv, NEW op, Dev!Step(op)
    PROVE  /\ drv' = drv /\ devPc \in Nat \ {0}
           /\ \/ /\ phase = "alloc" /\ devPc \in DOMAIN OfAlloc /\ OfAlloc[devPc][1] = op
                 /\ devPc <= Len(OfAlloc) /\ Dev!Resource = OfAlloc[devPc][2]
                 /\ op \in {"get", "check", "run", "spawn", "start"}
              \/ /\ phase = "free" /\ devPc \in DOMAIN OfFree /\ OfFree[devPc][1] = op
                 /\ devPc <= Len(OfFree) /\ Dev!Resource = OfFree[devPc][2]
                 /\ op \in {"put", "clear", "halt", "join", "stop"}
<1>1. drv \in Drivers /\ devPc \in Nat \ {0}
  BY DEF DevInv, Dev!TypeOK
<1>2. /\ OfAlloc \in Seq(Dev!Steps) /\ OfFree \in Seq(Dev!Steps)
      /\ \A i \in DOMAIN OfAlloc : OfAlloc[i][1] \in {"get", "check", "run", "spawn", "start"}
      /\ \A i \in DOMAIN OfFree : OfFree[i][1] \in {"put", "clear", "halt", "join", "stop"}
  BY <1>1, DevTexts
<1>3. DOMAIN OfAlloc = 1 .. Len(OfAlloc) /\ DOMAIN OfFree = 1 .. Len(OfFree)
      /\ Len(OfAlloc) \in Nat /\ Len(OfFree) \in Nat
  BY <1>2
<1>4. /\ drv' = drv
      /\ \/ phase = "alloc" /\ devPc <= Len(OfAlloc) /\ OfAlloc[devPc][1] = op
         \/ phase = "free" /\ devPc <= Len(OfFree) /\ OfFree[devPc][1] = op
  BY Zenon DEF Dev!Step, OfAlloc, OfFree
<1>5. /\ phase = "alloc" => Dev!Resource = OfAlloc[devPc][2]
      /\ phase = "free" => Dev!Resource = OfFree[devPc][2]
  BY DEF Dev!Resource, OfAlloc, OfFree
<1>. QED BY <1>1, <1>2, <1>3, <1>4, <1>5

\* An alloc handler goes on to its next step: nothing was begun or given back by this one.
LEMMA DevGoesOn ==
    ASSUME DevInv, phase = "alloc", devPc \in DOMAIN OfAlloc,
           OfAlloc[devPc][1] \in {"get", "check", "run"},
           drv' = drv, phase' = phase, devPc' = devPc + 1,
           UNCHANGED <<handler, created, waiting, tpc>>,
           \/ /\ OfAlloc[devPc][1] = "get" /\ held' = held \cup {OfAlloc[devPc][2]}
              /\ devRun' = devRun
           \/ OfAlloc[devPc][1] = "check" /\ held' = held /\ devRun' = devRun
           \/ OfAlloc[devPc][1] = "run" /\ held' = held /\ devRun' = TRUE
    PROVE  DevInv'
<1>1. OfAlloc' = OfAlloc /\ OfFree' = OfFree /\ OfThread' = OfThread
  BY Zenon DEF OfAlloc, OfFree, OfThread
<1>2. Joins' = Joins
  BY <1>1, Zenon DEF Joins
<1>3. /\ drv \in Drivers /\ devPc \in Nat \ {0}
      /\ {devRun, handler, created, waiting} \subseteq BOOLEAN
      /\ tpc \in 0 .. Len(OfThread)
  BY DEF DevInv, Dev!TypeOK, OfThread
<1>4. OfAlloc \in Seq(Dev!Steps)
  BY <1>3, DevTexts
<1>5. DOMAIN OfAlloc = 1 .. Len(OfAlloc) /\ Len(OfAlloc) \in Nat
  BY <1>4
<1>6. devRun' \in BOOLEAN
  BY <1>3, Zenon
<1>7. Dev!TypeOK'
  <2>1. held \subseteq {OfAlloc[i][2] : i \in DOMAIN OfAlloc}
    BY DEF DevInv, Dev!TypeOK, OfAlloc
  <2>2. held' \subseteq {OfAlloc[i][2] : i \in DOMAIN OfAlloc}
    BY <2>1
  <2>3. {handler, created, waiting}' \subseteq BOOLEAN
    BY <1>3, Zenon
  <2>. QED BY <1>1, <1>3, <1>5, <1>6, <2>2, <2>3 DEF Dev!TypeOK, OfAlloc, OfThread, OfFree
<1>8. Working'
  <2>1. SUFFICES ASSUME created PROVE Working'
    BY Zenon DEF Working
  <2>2. /\ \E b \in DOMAIN OfAlloc : b < devPc /\ OfAlloc[b][1] \in {"spawn", "start"}
        /\ \A i \in DOMAIN OfThread :
               OfThread[i][1] \in Dev!Touches => OfThread[i][2] \in held'
    BY <2>1, Zenon DEF DevInv, Working
  <2>3. \E b \in DOMAIN OfAlloc : b < devPc + 1 /\ OfAlloc[b][1] \in {"spawn", "start"}
    BY <1>3, <1>5, <2>2
  <2>. QED BY <1>1, <2>2, <2>3 DEF Working
<1>9. Gotten'
  BY <1>1, <1>3, <1>5 DEF DevInv, Gotten
<1>10. Returned'
  <2>1. OfAlloc[devPc][1] = "get" => \E m \in DOMAIN OfFree :
          OfFree[m][1] = "put" /\ OfFree[m][2] = OfAlloc[devPc][2]
    BY <1>3, DevTexts
  <2>. QED BY <1>1, <2>1 DEF DevInv, Returned
<1>11. Flagged'
  <2>1. SUFFICES ASSUME Joins PROVE Flagged'
    BY <1>2, Zenon DEF Flagged
  <2>2. \A i \in DOMAIN OfAlloc :
           /\ OfAlloc[i][1] = "spawn" => i > 1 /\ OfAlloc[i - 1][1] = "run"
           /\ OfAlloc[i][1] = "run" => i < Len(OfAlloc) /\ OfAlloc[i + 1][1] = "spawn"
    BY <1>3, <2>1, DevTexts
  <2>3. OfAlloc[devPc][1] # "spawn" /\ (devPc + 1) - 1 = devPc
    BY <1>3
  <2>4. /\ devRun => created
        /\ created => devRun \/ waiting
        /\ ~waiting
    BY <2>1, <2>3 DEF DevInv, Flagged, Waits
  <2>5. CASE OfAlloc[devPc][1] = "run"
    <3>1. devRun' = TRUE
      BY <2>5
    <3>2. devPc + 1 \in DOMAIN OfAlloc /\ OfAlloc[devPc + 1][1] = "spawn"
      BY <1>3, <1>5, <2>2, <2>5
    <3>. QED BY <1>1, <2>4, <3>1, <3>2, Zenon DEF Flagged
  <2>6. CASE OfAlloc[devPc][1] # "run"
    <3>1. devRun' = devRun
      BY <2>6
    <3>2. ~(devPc + 1 \in DOMAIN OfAlloc /\ OfAlloc[devPc + 1][1] = "spawn")
      BY <2>2, <2>3, <2>6
    <3>. QED BY <1>1, <2>4, <3>1, <3>2, Zenon DEF Flagged
  <2>. QED BY <2>5, <2>6
<1>12. Waits' /\ Alive'
  BY Zenon DEF DevInv, Waits, Alive
<1>. QED BY <1>7, <1>8, <1>9, <1>10, <1>11, <1>12 DEF DevInv

\* The destructor begins: an alloc handler has failed, or the owner releases the device.
LEMMA DevFails ==
    ASSUME DevInv, phase \in {"alloc", "given"}, drv' = drv, phase' = "free", devPc' = 1,
           UNCHANGED <<held, handler, created, waiting, tpc>>,
           IF phase = "alloc" /\ devPc \in DOMAIN OfAlloc /\ OfAlloc[devPc][1] = "spawn"
           THEN devRun' = FALSE ELSE devRun' = devRun
    PROVE  DevInv'
<1>1. OfAlloc' = OfAlloc /\ OfFree' = OfFree /\ OfThread' = OfThread
  BY Zenon DEF OfAlloc, OfFree, OfThread
<1>2. Joins' = Joins
  BY <1>1, Zenon DEF Joins
<1>3. /\ drv \in Drivers /\ devPc \in Nat \ {0}
      /\ {devRun, handler, created, waiting} \subseteq BOOLEAN
      /\ tpc \in 0 .. Len(OfThread)
  BY DEF DevInv, Dev!TypeOK, OfThread
<1>4. OfAlloc \in Seq(Dev!Steps) /\ OfFree \in Seq(Dev!Steps)
  BY <1>3, DevTexts
<1>5. DOMAIN OfFree = 1 .. Len(OfFree) /\ Len(OfFree) \in Nat
  BY <1>4
<1>6. devRun' \in BOOLEAN
  BY <1>3, Zenon
<1>7. Dev!TypeOK'
  <2>1. held' \subseteq {OfAlloc[i][2] : i \in DOMAIN OfAlloc}
    BY DEF DevInv, Dev!TypeOK, OfAlloc
  <2>2. {handler, created, waiting}' \subseteq BOOLEAN
    BY <1>3, Zenon
  <2>. QED BY <1>1, <1>3, <1>5, <1>6, <2>1, <2>2 DEF Dev!TypeOK, OfAlloc, OfThread, OfFree
<1>8. Working'
  BY <1>1, <1>5 DEF DevInv, Working
<1>9. Gotten' /\ Waits' /\ Alive'
  BY Zenon DEF DevInv, Gotten, Waits, Alive
<1>10. Returned'
  BY <1>1, <1>5 DEF DevInv, Returned
<1>11. Flagged'
  <2>1. SUFFICES ASSUME Joins PROVE Flagged'
    BY <1>2, Zenon DEF Flagged
  <2>2. ~waiting
    BY DEF DevInv, Waits
  <2>3. CASE phase = "alloc" /\ devPc \in DOMAIN OfAlloc /\ OfAlloc[devPc][1] = "spawn"
    <3>1. ~created
      <4>1. SUFFICES ASSUME created PROVE FALSE
        OBVIOUS
      <4>2. PICK b \in DOMAIN OfAlloc : b < devPc /\ OfAlloc[b][1] \in {"spawn", "start"}
        BY <2>3, <4>1, Zenon DEF DevInv, Working
      <4>3. b = devPc
        BY <1>3, <2>3, <4>2, DevTexts
      <4>. QED BY <1>3, <4>2, <4>3
    <3>. QED BY <2>2, <2>3, <3>1 DEF Flagged
  <2>4. CASE ~(phase = "alloc" /\ devPc \in DOMAIN OfAlloc /\ OfAlloc[devPc][1] = "spawn")
    <3>1. (devRun => created) /\ (created => devRun)
      BY <2>1, <2>2, <2>4, Zenon DEF DevInv, Flagged
    <3>2. devRun' = devRun
      BY <2>4, Zenon
    <3>. QED BY <2>2, <3>1, <3>2 DEF Flagged
  <2>. QED BY <2>3, <2>4
<1>. QED BY <1>7, <1>8, <1>9, <1>10, <1>11 DEF DevInv

\* The thread is created, or the sound system begins to call back.
LEMMA DevBegins ==
    ASSUME DevInv, phase = "alloc", devPc \in DOMAIN OfAlloc,
           OfAlloc[devPc][1] \in {"spawn", "start"},
           drv' = drv, phase' = phase, devPc' = devPc + 1, created' = TRUE, tpc' = 1,
           UNCHANGED <<held, devRun, handler, waiting>>
    PROVE  DevInv'
<1>1. OfAlloc' = OfAlloc /\ OfFree' = OfFree /\ OfThread' = OfThread
  BY Zenon DEF OfAlloc, OfFree, OfThread
<1>2. Joins' = Joins
  BY <1>1, Zenon DEF Joins
<1>3. /\ drv \in Drivers /\ devPc \in Nat \ {0}
      /\ {devRun, handler, created, waiting} \subseteq BOOLEAN
  BY DEF DevInv, Dev!TypeOK
<1>4. OfAlloc \in Seq(Dev!Steps) /\ OfThread \in Seq(Dev!Steps)
      /\ Dev!Text[drv].again \in DOMAIN OfThread
  BY <1>3, DevTexts
<1>5. DOMAIN OfAlloc = 1 .. Len(OfAlloc) /\ Len(OfAlloc) \in Nat
      /\ Len(OfThread) \in Nat /\ Len(OfThread) # 0
  BY <1>4
<1>6. Dev!TypeOK'
  <2>1. held' \subseteq {OfAlloc[i][2] : i \in DOMAIN OfAlloc}
    BY DEF DevInv, Dev!TypeOK, OfAlloc
  <2>2. {devRun, handler, created, waiting}' \subseteq BOOLEAN
    BY <1>3, Zenon
  <2>. QED BY <1>1, <1>3, <1>5, <2>1, <2>2 DEF Dev!TypeOK, OfAlloc, OfThread, OfFree
<1>7. Working'
  <2>1. \A i \in DOMAIN OfThread : OfThread[i][1] \in Dev!Touches =>
           \E a \in 1 .. devPc - 1 : OfAlloc[a][1] = "get" /\ OfAlloc[a][2] = OfThread[i][2]
    BY <1>3, DevTexts
  <2>2. \A i \in DOMAIN OfThread : OfThread[i][1] \in Dev!Touches => OfThread[i][2] \in held
    BY <1>3, <1>5, <2>1 DEF DevInv, Gotten
  <2>3. \E b \in DOMAIN OfAlloc : b < devPc + 1 /\ OfAlloc[b][1] \in {"spawn", "start"}
    BY <1>3
  <2>. QED BY <1>1, <2>2, <2>3 DEF Working
<1>8. Gotten'
  BY <1>1, <1>3, <1>5 DEF DevInv, Gotten
<1>9. Waits' /\ Alive'
  BY DEF DevInv, Waits, Alive
<1>10. Returned'
  BY <1>1 DEF DevInv, Returned
<1>11. Flagged'
  <2>1. SUFFICES ASSUME Joins PROVE Flagged'
    BY <1>2, Zenon DEF Flagged
  <2>2. \A i \in DOMAIN OfAlloc :
           /\ OfAlloc[i][1] # "start"
           /\ OfAlloc[i][1] = "spawn" => i > 1 /\ OfAlloc[i - 1][1] = "run"
    BY <1>3, <2>1, DevTexts
  <2>3. devRun
    BY <2>1, <2>2 DEF DevInv, Flagged
  <2>4. OfAlloc[devPc][1] = "spawn" /\ (devPc + 1) - 1 = devPc
    BY <1>3, <2>2
  <2>5. ~(devPc + 1 \in DOMAIN OfAlloc /\ OfAlloc[devPc + 1][1] = "spawn")
    BY <2>2, <2>4
  <2>6. ~waiting
    BY DEF DevInv, Waits
  <2>. QED BY <1>1, <2>3, <2>5, <2>6 DEF Flagged
<1>. QED BY <1>6, <1>7, <1>8, <1>9, <1>10, <1>11 DEF DevInv

\* A step of the destructor with no thread to end: something is put back or cleared.
LEMMA DevPuts ==
    ASSUME DevInv, phase = "free", devPc \in DOMAIN OfFree,
           OfFree[devPc][1] \in {"join", "stop"} => ~created /\ ~waiting,
           drv' = drv, phase' = phase, devPc' = devPc + 1, handler' \in BOOLEAN,
           UNCHANGED <<created, waiting, tpc>>,
           IF OfFree[devPc][1] = "put" THEN held' = held \ {OfFree[devPc][2]} ELSE held' = held,
           IF OfFree[devPc][1] = "halt" THEN devRun' = FALSE ELSE devRun' = devRun
    PROVE  DevInv'
<1>1. OfAlloc' = OfAlloc /\ OfFree' = OfFree /\ OfThread' = OfThread
  BY Zenon DEF OfAlloc, OfFree, OfThread
<1>2. Joins' = Joins
  BY <1>1, Zenon DEF Joins
<1>3. /\ drv \in Drivers /\ devPc \in Nat \ {0}
      /\ {devRun, handler, created, waiting} \subseteq BOOLEAN
      /\ tpc \in 0 .. Len(OfThread)
  BY DEF DevInv, Dev!TypeOK, OfThread
<1>4. OfFree \in Seq(Dev!Steps)
  BY <1>3, DevTexts
<1>5. DOMAIN OfFree = 1 .. Len(OfFree) /\ Len(OfFree) \in Nat
  BY <1>4
<1>6. devRun' \in BOOLEAN
  BY <1>3, Zenon
<1>7. held' \subseteq held
  BY DEF DevInv
<1>8. ~waiting
  BY DEF DevInv, Waits
<1>9. Dev!TypeOK'
  <2>1. held' \subseteq {OfAlloc[i][2] : i \in DOMAIN OfAlloc}
    BY <1>7 DEF DevInv, Dev!TypeOK, OfAlloc
  <2>2. {created, waiting}' \subseteq BOOLEAN
    BY <1>3, Zenon
  <2>. QED BY <1>1, <1>3, <1>5, <1>6, <2>1, <2>2 DEF Dev!TypeOK, OfAlloc, OfThread, OfFree
<1>10. Working'
  <2>1. SUFFICES ASSUME created PROVE Working'
    BY Zenon DEF Working
  <2>2. OfFree[devPc][1] \notin {"join", "stop"}
    BY <2>1, Zenon
  <2>3. /\ \A e \in DOMAIN OfFree : e < devPc => OfFree[e][1] \notin {"join", "stop"}
        /\ \A i \in DOMAIN OfThread :
               OfThread[i][1] \in Dev!Touches => OfThread[i][2] \in held
    BY <2>1, Zenon DEF DevInv, Working
  <2>4. \A e \in DOMAIN OfFree : e < devPc + 1 => OfFree[e][1] \notin {"join", "stop"}
    BY <1>3, <1>5, <2>2, <2>3
  <2>5. ASSUME NEW i \in DOMAIN OfThread, OfThread[i][1] \in Dev!Touches
        PROVE  OfThread[i][2] \in held'
    <3>1. OfThread[i][2] \in held
      BY <2>3, <2>5
    <3>2. ~(OfFree[devPc][1] = "put" /\ OfFree[devPc][2] = OfThread[i][2])
      <4>1. SUFFICES ASSUME OfFree[devPc][1] = "put", OfFree[devPc][2] = OfThread[i][2]
                     PROVE  FALSE
        OBVIOUS
      <4>2. \E e \in DOMAIN OfFree : OfFree[e][1] \in {"join", "stop"} /\ e < devPc
        BY <1>3, <2>5, <4>1, DevTexts
      <4>. QED BY <2>3, <4>2
    <3>. QED BY <3>1, <3>2
  <2>. QED BY <1>1, <2>4, <2>5 DEF Working
<1>11. Gotten' /\ Waits' /\ Alive'
  BY <1>8 DEF DevInv, Gotten, Waits, Alive
<1>12. Returned'
  <2>1. ASSUME NEW r \in held'
        PROVE  \E m \in DOMAIN OfFree :
                   OfFree[m][1] = "put" /\ OfFree[m][2] = r /\ m >= devPc + 1
    <3>1. PICK m \in DOMAIN OfFree : OfFree[m][1] = "put" /\ OfFree[m][2] = r /\ m >= devPc
      BY <1>7, <2>1 DEF DevInv, Returned
    <3>2. m # devPc
      BY <2>1, <3>1
    <3>3. m >= devPc + 1
      BY <1>3, <1>5, <3>1, <3>2
    <3>. QED BY <3>1, <3>3
  <2>. QED BY <1>1, <2>1 DEF Returned
<1>13. Flagged'
  <2>1. SUFFICES ASSUME Joins PROVE Flagged'
    BY <1>2, Zenon DEF Flagged
  <2>2. \A i \in DOMAIN OfFree : OfFree[i][1] \notin {"halt", "stop"}
    BY <1>3, <2>1, DevTexts
  <2>3. devRun' = devRun
    BY <2>2
  <2>4. (devRun => created) /\ (created => devRun \/ waiting)
    BY <2>1 DEF DevInv, Flagged
  <2>. QED BY <1>1, <1>8, <2>3, <2>4 DEF Flagged
<1>. QED BY <1>9, <1>10, <1>11, <1>12, <1>13 DEF DevInv

\* The destructor begins to wait for the thread or the callback.
LEMMA DevWaits ==
    ASSUME DevInv, phase = "free", devPc \in DOMAIN OfFree, ~waiting, waiting' = TRUE,
           \/ OfFree[devPc][1] = "join" /\ devRun /\ devRun' = FALSE
           \/ OfFree[devPc][1] = "stop" /\ devRun' = devRun,
           UNCHANGED <<drv, phase, devPc, held, handler, created, tpc>>
    PROVE  DevInv'
<1>1. OfAlloc' = OfAlloc /\ OfFree' = OfFree /\ OfThread' = OfThread
  BY Zenon DEF OfAlloc, OfFree, OfThread
<1>2. Joins' = Joins
  BY <1>1, Zenon DEF Joins
<1>3. /\ drv \in Drivers /\ devPc \in Nat \ {0}
      /\ {devRun, handler, created, waiting} \subseteq BOOLEAN
      /\ tpc \in 0 .. Len(OfThread)
  BY DEF DevInv, Dev!TypeOK, OfThread
<1>4. devRun' \in BOOLEAN
  BY <1>3, Zenon
<1>5. Dev!TypeOK'
  <2>1. {handler, created, waiting}' \subseteq BOOLEAN
    BY <1>3, Zenon
  <2>. QED BY <1>4, <2>1 DEF DevInv, Dev!TypeOK
<1>6. Working' /\ Gotten' /\ Returned' /\ Alive'
  BY <1>1, Zenon DEF DevInv, Working, Gotten, Returned, Alive
<1>7. Waits'
  BY <1>1 DEF Waits
<1>8. Flagged'
  <2>1. SUFFICES ASSUME Joins PROVE Flagged'
    BY <1>2, Zenon DEF Flagged
  <2>2. \A i \in DOMAIN OfFree : OfFree[i][1] \notin {"halt", "stop"}
    BY <1>3, <2>1, DevTexts
  <2>3. devRun /\ devRun' = FALSE
    BY <2>2
  <2>4. created
    BY <2>1, <2>3 DEF DevInv, Flagged
  <2>. QED BY <2>3, <2>4 DEF Flagged
<1>. QED BY <1>5, <1>6, <1>7, <1>8 DEF DevInv

\* The thread has ended, or the sound system does not call back any more.
LEMMA DevEnds ==
    ASSUME DevInv, phase = "free", devPc \in DOMAIN OfFree, waiting,
           drv' = drv, phase' = phase, devPc' = devPc + 1,
           waiting' = FALSE, created' = FALSE, tpc' = 0, UNCHANGED <<held, devRun, handler>>
    PROVE  DevInv'
<1>1. OfAlloc' = OfAlloc /\ OfFree' = OfFree /\ OfThread' = OfThread
  BY Zenon DEF OfAlloc, OfFree, OfThread
<1>2. Joins' = Joins
  BY <1>1, Zenon DEF Joins
<1>3. /\ drv \in Drivers /\ devPc \in Nat \ {0}
      /\ {devRun, handler, created, waiting} \subseteq BOOLEAN
      /\ tpc \in 0 .. Len(OfThread)
  BY DEF DevInv, Dev!TypeOK, OfThread
<1>4. OfFree \in Seq(Dev!Steps)
  BY <1>3, DevTexts
<1>5. DOMAIN OfFree = 1 .. Len(OfFree) /\ Len(OfFree) \in Nat
  BY <1>4
<1>6. Dev!TypeOK'
  <2>1. held' \subseteq {OfAlloc[i][2] : i \in DOMAIN OfAlloc}
    BY DEF DevInv, Dev!TypeOK, OfAlloc
  <2>2. {devRun, handler, created, waiting}' \subseteq BOOLEAN
    BY <1>3, Zenon
  <2>3. tpc' \in 0 .. Len(OfThread)
    BY <1>3
  <2>. QED BY <1>1, <1>3, <1>5, <2>1, <2>2, <2>3 DEF Dev!TypeOK, OfAlloc, OfThread, OfFree
<1>7. Working' /\ Gotten' /\ Waits' /\ Alive'
  BY DEF Working, Gotten, Waits, Alive
<1>8. Returned'
  <2>1. ASSUME NEW r \in held
        PROVE  \E m \in DOMAIN OfFree :
                   OfFree[m][1] = "put" /\ OfFree[m][2] = r /\ m >= devPc + 1
    <3>1. PICK m \in DOMAIN OfFree : OfFree[m][1] = "put" /\ OfFree[m][2] = r /\ m >= devPc
      BY <2>1 DEF DevInv, Returned
    <3>2. m # devPc
      BY <3>1 DEF DevInv, Waits
    <3>3. m >= devPc + 1
      BY <1>3, <1>5, <3>1, <3>2
    <3>. QED BY <3>1, <3>3
  <2>. QED BY <1>1, <2>1 DEF Returned
<1>9. Flagged'
  <2>1. SUFFICES ASSUME Joins PROVE Flagged'
    BY <1>2, Zenon DEF Flagged
  <2>2. ~devRun
    BY <2>1 DEF DevInv, Flagged
  <2>. QED BY <2>2 DEF Flagged
<1>. QED BY <1>6, <1>7, <1>8, <1>9 DEF DevInv

\* The text of the alloc handler, or that of the destructor, is at its end.
LEMMA DevReturns ==
    ASSUME DevInv,
           \/ phase = "alloc" /\ devPc > Len(OfAlloc) /\ phase' = "given"
           \/ phase = "free" /\ devPc > Len(OfFree) /\ phase' = "gone",
           UNCHANGED <<drv, devPc, held, devRun, handler, created, waiting, tpc>>
    PROVE  DevInv'
<1>1. OfAlloc' = OfAlloc /\ OfFree' = OfFree /\ OfThread' = OfThread
  BY Zenon DEF OfAlloc, OfFree, OfThread
<1>2. Joins' = Joins
  BY <1>1, Zenon DEF Joins
<1>3. /\ drv \in Drivers /\ devPc \in Nat \ {0}
      /\ {devRun, handler, created, waiting} \subseteq BOOLEAN
      /\ tpc \in 0 .. Len(OfThread)
  BY DEF DevInv, Dev!TypeOK, OfThread
<1>4. OfAlloc \in Seq(Dev!Steps) /\ OfFree \in Seq(Dev!Steps)
      /\ \E e \in DOMAIN OfFree : OfFree[e][1] \in {"join", "stop"}
  BY <1>3, DevTexts
<1>5. DOMAIN OfFree = 1 .. Len(OfFree) /\ Len(OfFree) \in Nat
      /\ DOMAIN OfAlloc = 1 .. Len(OfAlloc) /\ Len(OfAlloc) \in Nat
  BY <1>4
<1>6. ~waiting
  BY <1>3, <1>5 DEF DevInv, Waits
<1>7. phase = "free" => ~created
  <2>1. SUFFICES ASSUME phase = "free" PROVE ~created
    OBVIOUS
  <2>2. \E e \in DOMAIN OfFree : e < devPc /\ OfFree[e][1] \in {"join", "stop"}
    BY <1>3, <1>4, <1>5, <2>1
  <2>. QED BY <2>1, <2>2 DEF DevInv, Working
<1>8. Dev!TypeOK'
  <2>1. {devRun, handler, created, waiting}' \subseteq BOOLEAN
    BY <1>3, Zenon
  <2>. QED BY <2>1 DEF DevInv, Dev!TypeOK
<1>9. Working'
  BY <1>1, <1>7 DEF DevInv, Working
<1>10. Gotten' /\ Waits' /\ Alive'
  BY <1>6 DEF DevInv, Gotten, Waits, Alive
<1>11. Returned'
  BY <1>1, <1>3, <1>5 DEF DevInv, Returned
<1>12. Flagged'
  <2>1. SUFFICES ASSUME Joins PROVE Flagged'
    BY <1>2, Zenon DEF Flagged
  <2>2. devRun => created
    BY <1>3, <1>5, <2>1 DEF DevInv, Flagged
  <2>. QED BY <1>6, <1>7, <2>1, <2>2 DEF DevInv, Flagged
<1>. QED BY <1>8, <1>9, <1>10, <1>11, <1>12 DEF DevInv

\* A step of the thread or the callback moves nothing but itself.
LEMMA DevThread == ASSUME DevInv, NEW op, Dev!TStep(op), tpc' \in {Dev!After, Dev!Again, 0, tpc}
                   PROVE  DevInv'
<1>1. OfAlloc' = OfAlloc /\ OfFree' = OfFree /\ OfThread' = OfThread
  BY Zenon DEF Dev!TStep, OfAlloc, OfFree, OfThread
<1>2. Joins' = Joins
  BY <1>1, Zenon DEF Joins
<1>3. /\ drv \in Drivers /\ devPc \in Nat \ {0}
      /\ {devRun, handler, created, waiting} \subseteq BOOLEAN
      /\ tpc \in 0 .. Len(OfThread)
  BY DEF DevInv, Dev!TypeOK, OfThread
<1>4. /\ tpc # 0
      /\ UNCHANGED <<drv, phase, devPc, held, devRun, handler, created, waiting>>
  BY Zenon DEF Dev!TStep
<1>5. OfThread \in Seq(Dev!Steps) /\ Dev!Text[drv].again \in DOMAIN OfThread
  BY <1>3, DevTexts
<1>6. tpc' \in 0 .. Len(OfThread)
  <2>1. DOMAIN OfThread = 1 .. Len(OfThread) /\ Len(OfThread) \in Nat
    BY <1>5
  <2>2. Dev!Again \in 1 .. Len(OfThread)
    BY <1>5, <2>1 DEF Dev!Again
  <2>3. Dev!After \in {Dev!Again, tpc + 1} /\ (tpc = Len(OfThread) => Dev!After = Dev!Again)
    BY DEF Dev!After, OfThread
  <2>. QED BY <1>3, <2>1, <2>2, <2>3
<1>7. Dev!TypeOK'
  <2>1. {devRun, handler, created, waiting}' \subseteq BOOLEAN
    BY <1>3, <1>4, Zenon
  <2>. QED BY <1>1, <1>4, <1>6, <2>1 DEF DevInv, Dev!TypeOK, OfThread
<1>8. Working' /\ Gotten' /\ Returned' /\ Flagged' /\ Waits'
  BY <1>1, <1>2, <1>4, Zenon DEF DevInv, Working, Gotten, Returned, Flagged, Waits
<1>9. Alive'
  BY <1>4 DEF DevInv, Alive
<1>. QED BY <1>7, <1>8, <1>9 DEF DevInv

\* Every step of a driver: its texts, and what the sound system does.
LEMMA DevNext == DevInv /\ [Dev!Next]_devVars => DevInv'
<1> SUFFICES ASSUME DevInv, [Dev!Next]_devVars PROVE DevInv'
  OBVIOUS
<1>1. CASE Dev!GetStep
  <2>1. Dev!Step("get")
    BY <1>1, Zenon DEF Dev!GetStep
  <2>2. /\ phase = "alloc" /\ devPc \in DOMAIN OfAlloc /\ OfAlloc[devPc][1] = "get"
        /\ Dev!Resource = OfAlloc[devPc][2] /\ drv' = drv
    BY <2>1, DevStep
  <2>3. UNCHANGED <<devRun, handler, created, waiting, tpc>>
    BY <1>1, Zenon DEF Dev!GetStep
  <2>4. CASE held' = held \cup {Dev!Resource} /\ Dev!On
    BY <2>2, <2>3, <2>4, DevGoesOn DEF Dev!On
  <2>5. CASE held' = held /\ Dev!Fail
    BY <2>2, <2>3, <2>5, DevFails DEF Dev!Fail
  <2>. QED BY <1>1, <2>4, <2>5 DEF Dev!GetStep
<1>2. CASE Dev!CheckStep
  <2>1. Dev!Step("check") /\ UNCHANGED <<held, devRun, handler, created, waiting, tpc>>
    BY <1>2, Zenon DEF Dev!CheckStep
  <2>2. /\ phase = "alloc" /\ devPc \in DOMAIN OfAlloc /\ OfAlloc[devPc][1] = "check"
        /\ drv' = drv
    BY <2>1, DevStep
  <2>3. CASE Dev!On
    BY <2>1, <2>2, <2>3, DevGoesOn DEF Dev!On
  <2>4. CASE Dev!Fail
    BY <2>1, <2>2, <2>4, DevFails DEF Dev!Fail
  <2>. QED BY <1>2, <2>3, <2>4 DEF Dev!CheckStep
<1>3. CASE Dev!FlagStep
  <2>1. /\ Dev!On /\ devRun' = (phase = "alloc")
        /\ UNCHANGED <<held, handler, created, waiting, tpc>>
    BY <1>3, Zenon DEF Dev!FlagStep
  <2>2. CASE Dev!Step("run")
    <3>1. /\ phase = "alloc" /\ devPc \in DOMAIN OfAlloc /\ OfAlloc[devPc][1] = "run"
          /\ drv' = drv
      BY <2>2, DevStep
    <3>. QED BY <2>1, <3>1, DevGoesOn DEF Dev!On
  <2>3. CASE Dev!Step("halt")
    <3>1. /\ phase = "free" /\ devPc \in DOMAIN OfFree /\ OfFree[devPc][1] = "halt"
          /\ drv' = drv
      BY <2>3, DevStep
    <3>2. handler' \in BOOLEAN
      BY <2>1 DEF DevInv, Dev!TypeOK
    <3>3. devRun' = FALSE
      BY <2>1, <3>1
    <3>. QED BY <2>1, <3>1, <3>2, <3>3, DevPuts DEF Dev!On
  <2>. QED BY <1>3, <2>2, <2>3, Zenon DEF Dev!FlagStep
<1>4. CASE Dev!SpawnStep
  <2>1. Dev!Step("spawn") /\ UNCHANGED <<held, handler, waiting>>
    BY <1>4, Zenon DEF Dev!SpawnStep
  <2>2. /\ phase = "alloc" /\ devPc \in DOMAIN OfAlloc /\ OfAlloc[devPc][1] = "spawn"
        /\ drv' = drv
    BY <2>1, DevStep
  <2>3. CASE Dev!On /\ created' = TRUE /\ tpc' = 1 /\ UNCHANGED devRun
    BY <2>1, <2>2, <2>3, DevBegins DEF Dev!On
  <2>4. CASE Dev!Fail /\ devRun' = FALSE /\ UNCHANGED <<created, tpc>>
    BY <2>1, <2>2, <2>4, DevFails DEF Dev!Fail
  <2>. QED BY <1>4, <2>3, <2>4, Zenon DEF Dev!SpawnStep
<1>5. CASE Dev!StartStep
  <2>1. Dev!Step("start") /\ UNCHANGED <<held, devRun, handler, waiting>>
    BY <1>5, Zenon DEF Dev!StartStep
  <2>2. /\ phase = "alloc" /\ devPc \in DOMAIN OfAlloc /\ OfAlloc[devPc][1] = "start"
        /\ drv' = drv
    BY <2>1, DevStep
  <2>3. CASE Dev!On /\ created' = TRUE /\ tpc' = 1
    BY <2>1, <2>2, <2>3, DevBegins DEF Dev!On
  <2>4. CASE Dev!Fail /\ UNCHANGED <<created, tpc>>
    BY <2>1, <2>2, <2>4, DevFails DEF Dev!Fail
  <2>. QED BY <1>5, <2>3, <2>4, Zenon DEF Dev!StartStep
<1>6. CASE Dev!Given \/ Dev!Gone
  BY <1>6, DevReturns DEF Dev!Given, Dev!Gone, OfAlloc, OfFree
<1>7. CASE Dev!Release
  BY <1>7, DevFails DEF Dev!Release, Dev!Fail
<1>8. CASE Dev!ClearStep
  <2>1. /\ Dev!Step("clear") /\ Dev!On /\ handler' = FALSE
        /\ UNCHANGED <<held, devRun, created, waiting, tpc>>
    BY <1>8, Zenon DEF Dev!ClearStep
  <2>2. /\ phase = "free" /\ devPc \in DOMAIN OfFree /\ OfFree[devPc][1] = "clear"
        /\ drv' = drv
    BY <2>1, DevStep
  <2>. QED BY <2>1, <2>2, DevPuts DEF Dev!On
<1>9. CASE Dev!PutStep
  <2>1. /\ Dev!Step("put") /\ Dev!On /\ held' = held \ {Dev!Resource}
        /\ UNCHANGED <<devRun, handler, created, waiting, tpc>>
    BY <1>9, Zenon DEF Dev!PutStep
  <2>2. /\ phase = "free" /\ devPc \in DOMAIN OfFree /\ OfFree[devPc][1] = "put"
        /\ drv' = drv /\ Dev!Resource = OfFree[devPc][2]
    BY <2>1, DevStep
  <2>3. handler' \in BOOLEAN
    BY <2>1 DEF DevInv, Dev!TypeOK
  <2>. QED BY <2>1, <2>2, <2>3, DevPuts DEF Dev!On
<1>10. CASE Dev!JoinStep
  <2>1. /\ Dev!Step("join") /\ ~waiting /\ devRun' = FALSE
        /\ UNCHANGED <<held, handler, created, tpc>>
    BY <1>10, Zenon DEF Dev!JoinStep
  <2>2. /\ phase = "free" /\ devPc \in DOMAIN OfFree /\ OfFree[devPc][1] = "join"
        /\ drv' = drv
    BY <2>1, DevStep
  <2>3. CASE devRun
    <3>1. waiting' = TRUE /\ phase' = phase /\ devPc' = devPc
      BY <1>10, <2>3, Zenon DEF Dev!JoinStep
    <3>. QED BY <2>1, <2>2, <2>3, <3>1, DevWaits
  <2>4. CASE ~devRun
    <3>1. Dev!On /\ waiting' = waiting
      BY <1>10, <2>4, Zenon DEF Dev!JoinStep
    <3>2. ~created
      BY <2>1, <2>2, <2>4 DEF DevInv, Flagged, Joins
    <3>3. devRun' = devRun /\ handler' \in BOOLEAN
      BY <2>1, <2>4 DEF DevInv, Dev!TypeOK
    <3>. QED BY <2>1, <2>2, <3>1, <3>2, <3>3, DevPuts DEF Dev!On
  <2>. QED BY <2>3, <2>4
<1>11. CASE Dev!Joined
  <2>1. /\ Dev!Step("join") /\ waiting /\ tpc = 0 /\ Dev!On /\ waiting' = FALSE
        /\ created' = FALSE /\ UNCHANGED <<held, devRun, handler, tpc>>
    BY <1>11, Zenon DEF Dev!Joined
  <2>2. phase = "free" /\ devPc \in DOMAIN OfFree /\ drv' = drv
    BY <2>1, DevStep
  <2>. QED BY <2>1, <2>2, DevEnds DEF Dev!On
<1>12. CASE Dev!StopStep
  <2>1. /\ Dev!Step("stop") /\ ~waiting /\ waiting' = TRUE
        /\ UNCHANGED <<phase, devPc, held, devRun, handler, created, tpc>>
    BY <1>12, Zenon DEF Dev!StopStep
  <2>2. /\ phase = "free" /\ devPc \in DOMAIN OfFree /\ OfFree[devPc][1] = "stop"
        /\ drv' = drv
    BY <2>1, DevStep
  <2>. QED BY <2>1, <2>2, DevWaits
<1>13. CASE Dev!Stopped
  <2>1. /\ Dev!Step("stop") /\ waiting /\ Dev!On /\ waiting' = FALSE
        /\ created' = FALSE /\ tpc' = 0 /\ UNCHANGED <<held, devRun, handler>>
    BY <1>13, Zenon DEF Dev!Stopped
  <2>2. phase = "free" /\ devPc \in DOMAIN OfFree /\ drv' = drv
    BY <2>1, DevStep
  <2>. QED BY <2>1, <2>2, DevEnds DEF Dev!On
<1>14. CASE Dev!Thread \/ Dev!CallBack
  BY <1>14, DevThread
  DEF Dev!Thread, Dev!ThreadWhile, Dev!ThreadUse, Dev!ThreadHandler, Dev!CallBack
<1>15. CASE UNCHANGED devVars
  <2>1. UNCHANGED <<drv, phase, devPc, held, devRun, handler, created, waiting, tpc>>
    BY <1>15, Zenon DEF devVars
  <2>2. OfAlloc' = OfAlloc /\ OfFree' = OfFree /\ OfThread' = OfThread
    BY <2>1, Zenon DEF OfAlloc, OfFree, OfThread
  <2>3. Dev!TypeOK'
    BY <2>1, Zenon DEF DevInv, Dev!TypeOK
  <2>. QED BY <2>1, <2>2, <2>3, Zenon
           DEF DevInv, Working, Gotten, Returned, Flagged, Waits, Alive, Joins
<1>. QED BY <1>1, <1>2, <1>3, <1>4, <1>5, <1>6, <1>7, <1>8, <1>9, <1>10, <1>11, <1>12, <1>13,
            <1>14, <1>15 DEF Dev!Next, Dev!Destroy

\* What follows for whoever uses the driver.
LEMMA DevSafe == DevInv => Dev!UsesHeld /\ Dev!JoinsThread /\ Dev!NothingLeft
<1> SUFFICES ASSUME DevInv PROVE Dev!UsesHeld /\ Dev!JoinsThread /\ Dev!NothingLeft
  OBVIOUS
<1>1. tpc \in 0 .. Len(OfThread) /\ drv \in Drivers
  BY DEF DevInv, Dev!TypeOK, OfThread
<1>2. OfThread \in Seq(Dev!Steps)
  BY <1>1, DevTexts
<1>3. tpc # 0 => tpc \in DOMAIN OfThread
  BY <1>1, <1>2
<1>4. Dev!UsesHeld
  BY <1>3 DEF DevInv, Alive, Working, Dev!UsesHeld, OfThread
<1>5. Dev!JoinsThread
  <2>1. SUFFICES ASSUME waiting, phase = "free", OfFree[devPc][1] = "join" PROVE created
    BY Zenon DEF Dev!JoinsThread, OfFree
  <2>2. devPc \in DOMAIN OfFree
    BY <2>1 DEF DevInv, Waits
  <2>. QED BY <2>1, <2>2 DEF DevInv, Flagged, Joins
<1>6. Dev!NothingLeft
  BY DEF DevInv, Returned, Working, Alive, Dev!NothingLeft
<1>. QED BY <1>4, <1>5, <1>6

-----------------------------------------------------------------------------
(* The bridge device. *)

\* There is a thread only as long as the device runs or an end waits for it.
BridgeInv ==
    /\ Bridge!TypeOK
    /\ bridgeThread # Bridge!None => bridgeRun \/ bridgeMain # Bridge!None
    /\ bridgeMain # Bridge!None => bridgeAuplay = Bridge!None /\ bridgeAusrc = Bridge!None

\* The bridge: whatever ends come and go, in whatever order.
LEMMA BridgeKeeps ==
    /\ Bridge!Init => BridgeInv
    /\ BridgeInv /\ [Bridge!Next]_bridgeVars => BridgeInv'
<1> USE DEF Bridge!None, Bridge!Ends
<1>0. Plays \cap Srcs = {} /\ "none" \notin Plays \cup Srcs
  BY PartsAssumption DEF Bridge!AudioBridgeAssumption
<1>1. Bridge!Init => BridgeInv
  <2>1. Bridge!Init => bridgeRun \in BOOLEAN
    BY Zenon DEF Bridge!Init
  <2>. QED BY <1>0, <2>1 DEF Bridge!Init, BridgeInv, Bridge!TypeOK
<1>2. ASSUME BridgeInv
      PROVE  /\ bridgeAuplay \in Plays \cup {"none"} /\ bridgeAusrc \in Srcs \cup {"none"}
             /\ bridgeRun \in BOOLEAN /\ bridgeMain \in Plays \cup Srcs \cup {"none"}
             /\ state \in [Plays \cup Srcs -> {"new", "up", "stopping", "gone"}]
             /\ \A x \in {bridgeAuplay, bridgeAusrc} \ {"none"} : state[x] = "up"
             /\ bridgeThread # "none" => bridgeRun \/ bridgeMain # "none"
             /\ bridgeMain # "none" => bridgeAuplay = "none" /\ bridgeAusrc = "none"
  BY <1>2 DEF BridgeInv, Bridge!TypeOK
<1>3. ASSUME BridgeInv, NEW e \in Plays \cup Srcs, Bridge!Connect(e) PROVE BridgeInv'
  <2>1. /\ bridgeMain = "none" /\ bridgeMain' = bridgeMain /\ state' = [state EXCEPT ![e] = "up"]
        /\ bridgeAuplay' = IF e \in Plays THEN e ELSE bridgeAuplay
        /\ bridgeAusrc' = IF e \in Srcs THEN e ELSE bridgeAusrc
    BY <1>3, Zenon DEF Bridge!Connect
  <2>2. \/ bridgeRun' = TRUE /\ bridgeThread' = "begin_play"
        \/ bridgeRun' = bridgeRun /\ bridgeThread' = bridgeThread
    BY <1>3, Zenon DEF Bridge!Connect
  <2>3. bridgeRun' \in BOOLEAN
    BY <1>2, <1>3, <2>2, Zenon
  <2>4. bridgeThread' # "none" => bridgeRun'
    BY <1>2, <1>3, <2>1, <2>2
  <2>5. /\ bridgeAuplay' \in Plays \cup {"none"} /\ bridgeAusrc' \in Srcs \cup {"none"}
        /\ state' \in [Plays \cup Srcs -> {"new", "up", "stopping", "gone"}]
    BY <1>2, <1>3, <2>1
  <2>6. \A x \in {bridgeAuplay', bridgeAusrc'} \ {"none"} : state'[x] = "up"
    BY <1>2, <1>3, <2>1
  <2>7. bridgeThread' \in {"begin_play", bridgeThread}
    BY <2>2
  <2>. QED BY <1>3, <2>1, <2>3, <2>4, <2>5, <2>6, <2>7 DEF BridgeInv, Bridge!TypeOK
<1>4. ASSUME BridgeInv, NEW e \in Plays \cup Srcs, Bridge!ConnectFails(e) PROVE BridgeInv'
  BY <1>0, <1>4 DEF BridgeInv, Bridge!ConnectFails, Bridge!TypeOK
<1>5. ASSUME BridgeInv,
             \/ \E e \in Plays \cup Srcs : Bridge!Stop(e)
             \/ Bridge!Joined
      PROVE  BridgeInv'
  <2>1. bridgeRun' \in BOOLEAN
    BY <1>2, <1>5, Zenon DEF Bridge!Stop, Bridge!Joined
  <2>2. state' \in [Plays \cup Srcs -> {"new", "up", "stopping", "gone"}]
    BY <1>2, <1>5 DEF Bridge!Stop, Bridge!Joined
  <2>3. bridgeAuplay' = "none" /\ bridgeAusrc' = "none"
    BY <1>2, <1>5 DEF Bridge!Stop, Bridge!Joined
  <2>. QED BY <1>0, <1>2, <1>5, <2>1, <2>2, <2>3
         DEF BridgeInv, Bridge!TypeOK, Bridge!Stop, Bridge!Joined
<1>6. BridgeInv /\ Bridge!Thread => BridgeInv'
  <2>1. ASSUME BridgeInv, NEW from, NEW to, Bridge!T(from, to), from # "none",
               to \in {"begin_play", "begin_src", "loop", "look_play", "write", "look_src", "read",
                       "end", "crash"}
        PROVE  BridgeInv'
    BY <2>1 DEF BridgeInv, Bridge!T, Bridge!TypeOK
  <2>. QED BY <2>1 DEF Bridge!Thread, Bridge!BeginPlay, Bridge!BeginSrc, Bridge!Loop,
               Bridge!LookPlay, Bridge!Write, Bridge!LookSrc, Bridge!Read, Bridge!Follow
<1>7. BridgeInv /\ UNCHANGED bridgeVars => BridgeInv'
  BY DEF BridgeInv, bridgeVars, Bridge!TypeOK
<1>. QED BY <1>1, <1>3, <1>4, <1>5, <1>6, <1>7 DEF Bridge!Next

-----------------------------------------------------------------------------
(* The player and the recorder of OpenSL ES. *)

\* Whoever is about to fill or queue a buffer finds none queued; the kick-start fills the first
\* one before the engine can call back.
SlesInv ==
    /\ Sles!TypeOK /\ Len(slesQueue) <= 1
    /\ \A t \in {"main", "engine"} : slesAt[t] \in {"fill", "enqueue"} => slesQueue = <<>>
    /\ slesAt["main"] \in {"create", "fill", "enqueue"} =>
           slesAt["engine"] = "none" /\ slesQueue = <<>>
    /\ slesAt["engine"] # "create"

\* OpenSL ES: the kick-start and the engine's callback in any interleaving.
LEMMA SlesKeeps ==
    /\ Sles!Init => SlesInv
    /\ SlesInv /\ [Sles!Next]_slesVars => SlesInv'
<1> DEFINE P == 0 .. PlayBuffers - 1
           R == 0 .. RecBuffers - 1
<1>0. /\ PlayBuffers \in Nat \ {0} /\ RecBuffers \in Nat \ {0} /\ MaxRestart \in Nat
      /\ 0 \in P /\ 0 \in R
      /\ \A k \in P : (k + 1) % PlayBuffers \in P
      /\ \A k \in R : (k + 1) % RecBuffers \in R
  <2>1. PlayBuffers \in Nat \ {0} /\ RecBuffers \in Nat \ {0} /\ MaxRestart \in Nat
    BY PartsAssumption DEF Sles!OpenSlesAssumption
  <2>. QED BY <2>1
<1> HIDE DEF P, R
<1> USE DEF Sles!Go, Sles!player, Sles!recorder
<1>1. Sles!Init => SlesInv
  BY <1>0 DEF Sles!Init, SlesInv, Sles!TypeOK, P, R
<1>2. ASSUME SlesInv
      PROVE  /\ bufferId \in P /\ recId \in R /\ slesQueue \in Seq(P) /\ recQueue \in Seq(R)
             /\ slesAt \in [{"main", "engine"} -> {"create", "fill", "enqueue", "next", "none"}]
             /\ id \in [{"main", "engine"} -> P]
             /\ recAt \in {"off", "none", "read", "rotate"} /\ recDone \in R
             /\ starts \in 0 .. MaxRestart
  BY <1>2 DEF SlesInv, Sles!TypeOK, P, R
<1>3. ASSUME SlesInv, Sles!Create PROVE SlesInv'
  BY <1>2, <1>3 DEF SlesInv, Sles!Create, Sles!TypeOK
<1>4. ASSUME SlesInv, NEW t \in {"main", "engine"}, Sles!Fill(t) PROVE SlesInv'
  BY <1>2, <1>4 DEF SlesInv, Sles!Fill, Sles!TypeOK
<1>5. ASSUME SlesInv, NEW t \in {"main", "engine"}, Sles!Enqueue(t) PROVE SlesInv'
  <2>1. slesQueue = <<>> /\ slesQueue' = <<bufferId>>
    BY <1>2, <1>5, \A w \in P : Append(<<>>, w) = <<w>> DEF SlesInv, Sles!Enqueue
  <2>2. slesQueue' \in Seq(P) /\ Len(slesQueue') <= 1
    BY <1>2, <1>5, <2>1
  <2>. QED BY <1>2, <1>5, <2>1, <2>2 DEF SlesInv, Sles!Enqueue, Sles!TypeOK, P, R
<1>6. ASSUME SlesInv, NEW t \in {"main", "engine"}, Sles!NextBuffer(t) PROVE SlesInv'
  <2>1. bufferId' \in P
    BY <1>0, <1>2, <1>6 DEF Sles!NextBuffer
  <2>. QED BY <1>2, <1>6, <2>1 DEF SlesInv, Sles!NextBuffer, Sles!TypeOK, P, R
<1>7. ASSUME SlesInv, Sles!Played PROVE SlesInv'
  <2>1. slesQueue' \in Seq(P) /\ Len(slesQueue') = Len(slesQueue) - 1 /\ slesQueue # <<>>
    BY <1>2, <1>7 DEF Sles!Played
  <2>2. slesQueue' = <<>>
    BY <1>5, <1>7, <2>1 DEF SlesInv
  <2>. QED BY <1>2, <1>7, <2>1, <2>2 DEF SlesInv, Sles!Played, Sles!TypeOK, P, R
<1>8. ASSUME SlesInv, Sles!StartRecording \/ Sles!Recorded \/ Sles!Read \/ Sles!Destroy
      PROVE  SlesInv'
  <2>1. UNCHANGED <<bufferId, slesQueue, slesAt, id>>
    BY <1>8, Zenon DEF Sles!StartRecording, Sles!Recorded, Sles!Read, Sles!Destroy
  <2>2. recId' \in R /\ recDone' \in R /\ recAt' \in {"off", "none", "read", "rotate"}
    BY <1>0, <1>2, <1>8 DEF Sles!StartRecording, Sles!Recorded, Sles!Read, Sles!Destroy
  <2>3. recQueue' \in Seq(R)
    <3>1. recQueue' = <<0>> \/ recQueue' = <<>> \/ recQueue' = recQueue
          \/ (recQueue # <<>> /\ recQueue' = Tail(recQueue))
      BY <1>8 DEF Sles!StartRecording, Sles!Recorded, Sles!Read, Sles!Destroy
    <3>2. <<0>> \in Seq(R)
      BY <1>0
    <3>3. recQueue # <<>> => Tail(recQueue) \in Seq(R)
      BY <1>2, <1>8
    <3>4. <<>> \in Seq(R) /\ recQueue \in Seq(R)
      BY <1>2, <1>8
    <3>. QED BY <3>1, <3>2, <3>3, <3>4, Zenon
  <2>4. starts' \in 0 .. MaxRestart
    BY <1>0, <1>2, <1>8 DEF Sles!StartRecording, Sles!Recorded, Sles!Read, Sles!Destroy
  <2>. QED BY <1>8, <2>1, <2>2, <2>3, <2>4 DEF SlesInv, Sles!TypeOK, P, R
<1>9. ASSUME SlesInv, Sles!Rotate PROVE SlesInv'
  <2>1. UNCHANGED <<bufferId, slesQueue, slesAt, id, recDone, starts>> /\ recAt' = "none"
    BY <1>9 DEF Sles!Rotate
  <2>2. recId' \in R
    BY <1>0, <1>2, <1>9 DEF Sles!Rotate, Sles!RecNext
  <2>3. recQueue' \in Seq(R)
    BY <1>2, <1>9, <2>2 DEF Sles!Rotate
  <2>. QED BY <1>2, <1>9, <2>1, <2>2, <2>3 DEF SlesInv, Sles!TypeOK, P, R
<1>10. SlesInv /\ UNCHANGED slesVars => SlesInv'
  BY DEF SlesInv, slesVars, Sles!TypeOK
<1>. QED BY <1>1, <1>3, <1>4, <1>5, <1>6, <1>7, <1>8, <1>9, <1>10 DEF Sles!Next, Sles!Callback

\* The recorder: the buffer with number recId is the one that is recorded into, or that was.
RecInv ==
    /\ recAt = "none" => recQueue = <<recId>>
    /\ recAt \in {"read", "rotate"} => recQueue = <<>> /\ recDone = recId

\* OpenSL ES: the recorder's callback, and starts and stops between two callbacks.
LEMMA RecKeeps ==
    /\ Sles!Init => RecInv
    /\ RecInv /\ [Sles!Next]_slesVars => RecInv'
<1>1. Sles!Init => RecInv
  BY DEF Sles!Init, RecInv
<1>2. ASSUME RecInv, UNCHANGED <<recId, recQueue, recAt, recDone>> PROVE RecInv'
  BY <1>2 DEF RecInv
<1>3. Sles!Create \/ Sles!Callback \/ Sles!Played \/ UNCHANGED slesVars
          => UNCHANGED <<recId, recQueue, recAt, recDone>>
  BY Zenon DEF Sles!Create, Sles!Callback, Sles!Fill, Sles!Enqueue, Sles!NextBuffer, Sles!Played,
               Sles!Go, Sles!recorder, slesVars
<1>4. RecInv /\ Sles!StartRecording => RecInv'
  BY DEF RecInv, Sles!StartRecording
<1>5. ASSUME RecInv, Sles!Recorded PROVE RecInv'
  <2>1. recQueue = <<recId>> /\ recDone' = Head(recQueue) /\ recQueue' = Tail(recQueue)
        /\ recAt' = "read" /\ recId' = recId
    BY <1>5 DEF RecInv, Sles!Recorded
  <2>2. recDone' = recId /\ recQueue' = <<>>
    BY <2>1
  <2>. QED BY <2>1, <2>2 DEF RecInv
<1>6. RecInv /\ (Sles!Read \/ Sles!Destroy) => RecInv'
  BY DEF RecInv, Sles!Read, Sles!Destroy
<1>7. ASSUME RecInv, Sles!Rotate PROVE RecInv'
  <2>1. recQueue = <<>> /\ recQueue' = Append(recQueue, recId') /\ recAt' = "none"
    BY <1>7 DEF RecInv, Sles!Rotate
  <2>2. recQueue' = <<recId'>>
    BY <2>1
  <2>. QED BY <2>1, <2>2 DEF RecInv
<1>. QED BY <1>1, <1>2, <1>3, <1>4, <1>5, <1>6, <1>7 DEF Sles!Next

-----------------------------------------------------------------------------
(* The source over GStreamer. *)

\* A pipeline without errors: the flag is set while the source is up, and a source that is
\* being freed has no thread.
GstInv ==
    /\ Gst!TypeOK
    /\ gstRun <=> gstMain = "up"
    /\ gstMain \in {"alloc", "null", "freed"} => gstThread = "none"
    /\ gstMain = "freed" => ~gstPlaying /\ gstStream = "idle"

\* GStreamer: whatever the pipeline and the thread do while the source goes.
LEMMA GstKeeps ==
    /\ Gst!Init => GstInv
    /\ GstInv /\ [Gst!Next]_gstVars => GstInv'
<1>0. MaxBuffer \in Nat \ {0}
  BY PartsAssumption DEF Gst!GstSourceAssumption
<1> USE DEF Gst!T, Gst!S, Gst!M
<1>1. Gst!Init => GstInv
  <2>1. Gst!Init => {gstRun, gstLooping, gstPlaying} \subseteq BOOLEAN
    BY Zenon DEF Gst!Init
  <2>. QED BY <1>0, <2>1 DEF Gst!Init, GstInv, Gst!TypeOK
<1>2. ASSUME GstInv
      PROVE  {gstRun, gstLooping, gstPlaying} \subseteq BOOLEAN
  BY <1>2 DEF GstInv, Gst!TypeOK
<1>3. ASSUME GstInv, Gst!Next PROVE {gstRun', gstLooping', gstPlaying'} \subseteq BOOLEAN
  BY <1>2, <1>3, Zenon
  DEF Gst!Next, Gst!Thread, Gst!Play, Gst!While, Gst!Enter, Gst!Leave, Gst!BusQuit, Gst!Eos,
      Gst!BusError, Gst!Handoff, Gst!Empty, Gst!Alloc, Gst!Release, Gst!Quit, Gst!Join, Gst!Null
<1>4. ASSUME GstInv, Gst!Next, Gst!Thread \/ Gst!Eos \/ Gst!BusError PROVE GstInv'
  <2>1. {gstRun', gstLooping', gstPlaying'} \subseteq BOOLEAN
    BY <1>3, <1>4
  <2>. QED BY <1>4, <2>1 DEF GstInv, Gst!TypeOK, Gst!Thread, Gst!Play, Gst!While, Gst!Enter,
                             Gst!Leave, Gst!BusQuit, Gst!Eos, Gst!BusError
<1>5. ASSUME GstInv, Gst!Next, Gst!Handoff \/ Gst!Empty PROVE GstInv'
  <2>1. {gstRun', gstLooping', gstPlaying'} \subseteq BOOLEAN
    BY <1>3, <1>5
  <2>. QED BY <1>0, <1>5, <2>1 DEF GstInv, Gst!TypeOK, Gst!Handoff, Gst!Empty
<1>6. ASSUME GstInv, Gst!Next, Gst!Alloc \/ Gst!Release \/ Gst!Quit \/ Gst!Join \/ Gst!Null
      PROVE  GstInv'
  <2>1. {gstRun', gstLooping', gstPlaying'} \subseteq BOOLEAN
    BY <1>3, <1>6
  <2>. QED BY <1>6, <2>1
         DEF GstInv, Gst!TypeOK, Gst!Alloc, Gst!Release, Gst!Quit, Gst!Join, Gst!Null
<1>7. GstInv /\ UNCHANGED gstVars => GstInv'
  BY DEF GstInv, gstVars, Gst!TypeOK
<1>. QED BY <1>1, <1>4, <1>5, <1>6, <1>7 DEF Gst!Next

-----------------------------------------------------------------------------
(* The loops that test devices. *)

\* The devices are closed while the buffers are made anew, and the video source has its parts
\* as long as it is there.
LoopsInv ==
    /\ Loops!TypeOK /\ Loops!BufferHeld /\ Loops!FrameHasParts
    /\ loopsPc \in {"free", "alloc"} => loopsAusrc = Loops!None /\ loopsAuplay = Loops!None
    /\ loopsPc \in {"play", "src"} => ab
    /\ vsrc => parts /\ video # "none"
    /\ shows => vsrc

\* The loops: devices that call at any time while the main thread sets up, changes and stops.
LEMMA LoopsKeep ==
    /\ Loops!Init => LoopsInv
    /\ LoopsInv /\ [Loops!Next]_loopsVars => LoopsInv'
<1> USE DEF Loops!None, Loops!audio, Loops!vid
<1>0. Rates \in Nat \ {0}
  BY PartsAssumption DEF Loops!MediaLoopsAssumption
<1>1. Loops!Init => LoopsInv
  <2>1. Loops!Init => {ab, vidisp, vsrc, parts, shows, err, timer} \subseteq BOOLEAN
    BY Zenon DEF Loops!Init
  <2>. QED BY <1>0, <2>1 DEF Loops!Init, LoopsInv, Loops!TypeOK, Loops!Rate, Loops!BufferHeld,
                             Loops!FrameHasParts
<1>2. ASSUME LoopsInv
      PROVE  /\ {ab, vidisp, vsrc, parts, shows, err, timer} \subseteq BOOLEAN
             /\ {loopsAusrc, loopsAuplay, ac, enc} \subseteq Loops!Rate
             /\ loop \in {"none", "new", "live", "freed"} /\ index \in 0 .. Rates - 1
             /\ loopsPc \in {"idle", "codec", "stop", "free", "alloc", "play", "src"}
             /\ video \in {"none", "live", "closing"}
  BY <1>2 DEF LoopsInv, Loops!TypeOK
<1>3. \A k \in -1 .. Rates - 1 : k \in Loops!Rate
  BY DEF Loops!Rate
<1>4. ASSUME LoopsInv, Loops!Start \/ Loops!Stop \/ Loops!Fails \/ Loops!ErrorHandler
      PROVE  LoopsInv'
  <2>1. UNCHANGED <<video, vidisp, vsrc, parts, shows, err, timer>>
    BY <1>4, Zenon DEF Loops!Start, Loops!Stop, Loops!Fails, Loops!ErrorHandler
  <2>2. ab' \in BOOLEAN
    BY <1>2, <1>4, Zenon
    DEF Loops!Start, Loops!Stop, Loops!Fails, Loops!ErrorHandler, Loops!Gone
  <2>3. {ab, vidisp, vsrc, parts, shows, err, timer}' \subseteq BOOLEAN
    BY <1>2, <1>4, <2>1, <2>2, Zenon
  <2>4. CASE Loops!Gone
    BY <1>0, <1>2, <1>3, <1>4, <2>1, <2>3, <2>4
    DEF Loops!Gone, LoopsInv, Loops!TypeOK, Loops!BufferHeld, Loops!FrameHasParts
  <2>5. CASE ~Loops!Gone
    <3>1. /\ UNCHANGED <<ab, loopsAusrc, loopsAuplay, ac, enc>>
          /\ \/ loopsPc' = "codec" /\ index' \in 0 .. Rates - 1 /\ loop' \in {"new", loop}
             \/ loopsPc' = "idle" /\ UNCHANGED <<loop, index>>
      BY <1>0, <1>2, <1>4, <2>5 DEF Loops!Start, Loops!Stop, Loops!Fails, Loops!ErrorHandler
    <3>. QED BY <1>2, <1>4, <2>1, <2>3, <3>1
             DEF LoopsInv, Loops!TypeOK, Loops!BufferHeld, Loops!FrameHasParts
  <2>. QED BY <2>4, <2>5
<1>5. ASSUME LoopsInv, \/ Loops!StartCodec \/ Loops!StopDevices \/ Loops!FreeBuffers
                       \/ Loops!AllocBuffers \/ Loops!OpenPlayer \/ Loops!OpenSource
      PROVE  LoopsInv'
  <2>1. UNCHANGED <<video, vidisp, vsrc, parts, shows, err, timer, index>>
    BY <1>5, Zenon DEF Loops!StartCodec, Loops!StopDevices, Loops!FreeBuffers,
                       Loops!AllocBuffers, Loops!OpenPlayer, Loops!OpenSource
  <2>2. ab' \in BOOLEAN
    BY <1>2, <1>5, Zenon DEF Loops!StartCodec, Loops!StopDevices, Loops!FreeBuffers,
                       Loops!AllocBuffers, Loops!OpenPlayer, Loops!OpenSource
  <2>3. {ab, vidisp, vsrc, parts, shows, err, timer}' \subseteq BOOLEAN
    BY <1>2, <1>5, <2>1, <2>2, Zenon
  <2>4. {loopsAusrc, loopsAuplay, ac, enc}' \subseteq Loops!Rate
    BY <1>0, <1>2, <1>3, <1>5 DEF Loops!StartCodec, Loops!StopDevices, Loops!FreeBuffers,
                       Loops!AllocBuffers, Loops!OpenPlayer, Loops!OpenSource
  <2>. QED BY <1>2, <1>5, <2>1, <2>3, <2>4
           DEF LoopsInv, Loops!TypeOK, Loops!BufferHeld, Loops!FrameHasParts, Loops!StartCodec,
               Loops!StopDevices, Loops!FreeBuffers, Loops!AllocBuffers, Loops!OpenPlayer,
               Loops!OpenSource
<1>6. ASSUME LoopsInv, \/ \E ok \in BOOLEAN : Loops!VidloopStart(ok)
                       \/ Loops!FrameBegins \/ Loops!Shows \/ Loops!TimeoutBw
                       \/ Loops!VidloopStop \/ Loops!Joined
      PROVE  LoopsInv'
  <2>1. UNCHANGED <<loop, index, loopsPc, loopsAusrc, loopsAuplay, ab, ac, enc>>
    BY <1>6, Zenon DEF Loops!VidloopStart, Loops!FrameBegins, Loops!Shows, Loops!Display,
                       Loops!TimeoutBw, Loops!VidloopStop, Loops!Joined
  <2>2. /\ vidisp' \in BOOLEAN /\ err' \in BOOLEAN /\ timer' \in BOOLEAN
        /\ vsrc' \in BOOLEAN /\ parts' \in BOOLEAN /\ shows' \in BOOLEAN
    <3>1. ASSUME NEW ok \in BOOLEAN, Loops!VidloopStart(ok)
          PROVE  {vidisp, vsrc, parts, shows, err, timer}' \subseteq BOOLEAN
      BY <1>2, <1>6, <3>1, Zenon DEF Loops!VidloopStart
    <3>2. ASSUME NEW nodev \in BOOLEAN, Loops!Display(nodev)
          PROVE  {vidisp, vsrc, parts, shows, err, timer}' \subseteq BOOLEAN
      <4>1. UNCHANGED <<vsrc, parts, timer>> /\ shows' = FALSE
        BY <3>2, Zenon DEF Loops!Display
      <4>2. vidisp' \in BOOLEAN /\ err' \in BOOLEAN
        BY <3>2, Zenon DEF Loops!Display
      <4>. QED BY <1>2, <1>6, <4>1, <4>2, Zenon
    <3>3. ASSUME Loops!FrameBegins \/ Loops!TimeoutBw \/ Loops!VidloopStop \/ Loops!Joined
          PROVE  {vidisp, vsrc, parts, shows, err, timer}' \subseteq BOOLEAN
      BY <1>2, <1>6, <3>3, Zenon
      DEF Loops!FrameBegins, Loops!TimeoutBw, Loops!VidloopStop, Loops!Joined
    <3>. QED BY <1>6, <3>1, <3>2, <3>3 DEF Loops!Shows
  <2>3. (vsrc => parts /\ video # "none") /\ (shows => vsrc)
    BY <1>6 DEF LoopsInv
  <2>4. /\ video' \in {"none", "live", "closing"}
        /\ vsrc' => parts' /\ video' # "none"
        /\ shows' => vsrc'
    <3>1. CASE UNCHANGED <<video, vsrc, parts>> /\ (shows' => vsrc)
      BY <1>2, <1>6, <2>3, <3>1
    <3>2. CASE video' = "live" /\ vsrc' /\ parts' /\ video = "none" /\ shows' = shows
      BY <2>3, <3>2
    <3>3. CASE video = "live" /\ video' = "closing" /\ UNCHANGED <<vsrc, parts, shows>>
      BY <2>3, <3>3
    <3>4. CASE video' = "none" /\ ~vsrc' /\ ~shows'
      BY <3>4
    <3>5. ASSUME NEW ok \in BOOLEAN, Loops!VidloopStart(ok)
          PROVE  \/ UNCHANGED <<video, vsrc, parts>> /\ (shows' => vsrc)
                 \/ video' = "live" /\ vsrc' /\ parts' /\ video = "none" /\ shows' = shows
      BY <2>3, <3>5, Zenon DEF Loops!VidloopStart
    <3>6. ASSUME NEW nodev \in BOOLEAN, Loops!Display(nodev)
          PROVE  UNCHANGED <<video, vsrc, parts>> /\ ~shows'
      BY <3>6, Zenon DEF Loops!Display
    <3>7. ASSUME Loops!FrameBegins PROVE UNCHANGED <<video, vsrc, parts>> /\ vsrc
      BY <3>7, Zenon DEF Loops!FrameBegins
    <3>8. ASSUME Loops!TimeoutBw \/ Loops!VidloopStop
          PROVE  \/ UNCHANGED <<video, vsrc, parts, shows>>
                 \/ video = "live" /\ video' = "closing" /\ UNCHANGED <<vsrc, parts, shows>>
      BY <3>8, Zenon DEF Loops!TimeoutBw, Loops!VidloopStop
    <3>9. ASSUME Loops!Joined PROVE video' = "none" /\ ~vsrc' /\ ~shows'
      BY <3>9, Zenon DEF Loops!Joined
    <3>. QED BY <1>6, <2>3, <3>1, <3>2, <3>3, <3>4, <3>5, <3>6, <3>7, <3>8, <3>9
             DEF Loops!Shows
  <2>. QED BY <1>2, <1>6, <2>1, <2>2, <2>4
           DEF LoopsInv, Loops!TypeOK, Loops!BufferHeld, Loops!FrameHasParts
<1>7. LoopsInv /\ UNCHANGED loopsVars => LoopsInv'
  BY DEF LoopsInv, loopsVars, Loops!TypeOK, Loops!BufferHeld, Loops!FrameHasParts
<1>. QED BY <1>1, <1>4, <1>5, <1>6, <1>7 DEF Loops!Next

-----------------------------------------------------------------------------
(* Playback with the Windows wave driver. *)

\* The place of the k-th buffer that is written in the ring of buffers.
Cell(k) == k % WriteBuffers

\* Two remainders whose difference is a multiple of the divisor are equal.
LEMMA MultipleIsZero ==
    ASSUME NEW d \in Nat \ {0}, NEW q \in Int, NEW r \in Nat, NEW s \in Nat, r < d, s < d,
           d * q = r - s
    PROVE  q = 0
<1>1. CASE q >= 1
  <2>1. d * q >= d
    BY <1>1
  <2>. QED BY <2>1
<1>2. CASE q <= -1
  <2>1. d * (-q) >= d
    BY <1>2
  <2>2. d * q = -(d * (-q))
    OBVIOUS
  <2>. QED BY <2>1, <2>2
<1>. QED BY <1>1, <1>2

\* Quotient and remainder determine each other (the wrap of WRITE_BUFFERS).
LEMMA Quotient ==
    ASSUME NEW d \in Nat \ {0}, NEW a \in Nat
    PROVE  a \div d \in Int /\ a % d \in Nat /\ a % d < d /\ a = d * (a \div d) + (a % d)
OBVIOUS

\* A remainder, told from any quotient.
LEMMA RemainderIs ==
    ASSUME NEW d \in Nat \ {0}, NEW a \in Nat, NEW q \in Int, NEW r \in Nat, r < d, a = d * q + r
    PROVE  a % d = r
<1> DEFINE p == a \div d
           e == a % d
<1>1. p \in Int /\ e \in Nat /\ e < d /\ a = d * p + e
  BY Quotient
<1> HIDE DEF p, e
<1>2. d * (p - q) = d * p - d * q
  BY <1>1
<1>3. d * (p - q) = r - e
  <2>1. d * p \in Int /\ d * q \in Int
    BY <1>1
  <2>. QED BY <1>1, <1>2, <2>1
<1>4. p - q = 0
  BY <1>1, <1>3, MultipleIsZero
<1>5. d * p = d * q
  BY <1>1, <1>4
<1>6. d * p \in Int
  BY <1>1
<1>7. e = r
  BY <1>1, <1>5, <1>6
<1>. QED BY <1>7 DEF e

\* The ring: the next place, the same place one turn later, and no place twice in a turn.
LEMMA Cells ==
    ASSUME NEW k \in Nat
    PROVE  /\ Cell(k) \in 0 .. WriteBuffers - 1
           /\ (Cell(k) + 1) % WriteBuffers = Cell(k + 1)
           /\ Cell(k + WriteBuffers) = Cell(k)
           /\ \A l \in Nat : k <= l /\ l < k + WriteBuffers /\ Cell(k) = Cell(l) => k = l
<1> DEFINE d == WriteBuffers
           p == k \div d
           r == k % d
<1>0. d \in Nat \ {0}
  BY PartsAssumption DEF Wave!WinWaveAssumption
<1> HIDE DEF d
<1>1. p \in Int /\ r \in Nat /\ r < d /\ k = d * p + r
  BY <1>0, Quotient
<1> HIDE DEF p, r
<1>2. Cell(k) = r
  BY DEF Cell, r, d
<1>3. (r + 1) % d = (k + 1) % d
  <2>1. CASE r + 1 < d
    <3>1. k + 1 = d * p + (r + 1)
      BY <1>0, <1>1
    <3>2. (k + 1) % d = r + 1
      BY <1>0, <1>1, <2>1, <3>1, RemainderIs
    <3>3. (r + 1) % d = r + 1
      BY <1>0, <1>1, <2>1
    <3>. QED BY <3>2, <3>3
  <2>2. CASE r + 1 = d
    <3>1. d * (p + 1) = d * p + d
      BY <1>0, <1>1
    <3>2. k + 1 = d * (p + 1) + 0
      BY <1>0, <1>1, <2>2, <3>1
    <3>3. (k + 1) % d = 0
      BY <1>0, <1>1, <3>2, RemainderIs
    <3>4. (r + 1) % d = 0
      BY <1>0, <2>2
    <3>. QED BY <3>3, <3>4
  <2>. QED BY <1>0, <1>1, <2>1, <2>2
<1>4. (k + d) % d = r
  <2>1. d * (p + 1) = d * p + d
    BY <1>0, <1>1
  <2>2. k + d = d * (p + 1) + r
    BY <1>0, <1>1, <2>1
  <2>. QED BY <1>0, <1>1, <2>2, RemainderIs
<1>5. ASSUME NEW l \in Nat, k <= l, l < k + d, r = l % d PROVE k = l
  <2> DEFINE q == l \div d
  <2>1. q \in Int /\ l = d * q + r
    BY <1>0, <1>5, Quotient
  <2> HIDE DEF q
  <2>2. d * (q - p) = d * q - d * p /\ d * q \in Int /\ d * p \in Int
    BY <1>0, <1>1, <2>1
  <2>3. d * (q - p) = (l - k) - 0
    BY <1>1, <2>1, <2>2
  <2>4. q - p = 0
    <3>1. l - k \in Nat /\ 0 \in Nat /\ l - k < d /\ 0 < d /\ q - p \in Int
      BY <1>0, <1>1, <1>5, <2>1
    <3>. QED BY <1>0, <2>3, <3>1, MultipleIsZero
  <2>5. d * (q - p) = 0
    BY <1>0, <2>4
  <2>. QED BY <1>5, <2>3, <2>5
<1>. QED BY <1>0, <1>1, <1>2, <1>3, <1>4, <1>5 DEF Cell, d

\* The threads that have filled a buffer and not yet queued it; the buffers that are filled.
Filling == {t \in {"main", "driver"} : step[t] = "out"}
Filled == IF Filling = {} THEN Len(waveQueue) ELSE Len(waveQueue) + 1

\* From some place on the buffers are filled one after the other, and pos is the next one.
From(k) ==
    /\ Filled <= WriteBuffers
    /\ \A i \in 1 .. Len(waveQueue) : waveQueue[i] = Cell(k + i)
    /\ prepared = {Cell(k + i) : i \in 1 .. Filled}
    /\ pos = Cell(k + Filled + 1)
    /\ \A t \in Filling : buf[t] = Cell(k + Filled)
Ringed == \E k \in Nat : From(k)

\* A buffer is filled by one thread at a time, and only one that the driver does not have.
Alone ==
    /\ step["main"] \in {"idle", "write", "take", "fill", "out", "count", "wait", "close"}
    /\ step["driver"] \in {"idle", "write", "take", "fill", "out", "count", "done"}
    /\ step["driver"] # "idle" => kicks = 0 /\ step["main"] \in {"idle", "wait", "close"}
    /\ step["main"] \in {"wait", "close"} => kicks = 0
    /\ rdy <=> step["main"] \notin {"wait", "close"}
    /\ \A t \in {"main", "driver"} : step[t] = "fill" => buf[t] = pos /\ pos \notin prepared

\* The buffers in use are those that are queued, but for what a thread is about to count.
Counted ==
    /\ inuse = IF step["driver"] = "done" THEN Len(waveQueue) + 1
               ELSE IF step["driver"] = "count" \/ step["main"] = "count" THEN Len(waveQueue) - 1
               ELSE Len(waveQueue)
    /\ \A t \in {"main", "driver"} : step[t] \in {"count", "done"} => count[t] = inuse

\* While a callback is about to queue a buffer there is another one that is played.
Level ==
    /\ step["main"] \in {"idle", "count"} /\ step["driver"] \in {"idle", "count"} =>
           Len(waveQueue) >= 2 \/ Len(waveQueue) >= Writes - kicks
    /\ step["main"] \in {"write", "take", "fill", "out"} =>
           Len(waveQueue) >= 2 \/ Len(waveQueue) >= Writes - kicks - 1
    /\ step["driver"] \in {"done", "write", "take", "fill", "out"} => Len(waveQueue) < WriteBuffers
    /\ step["driver"] \in {"done", "write"} /\ step["main"] = "idle" => Len(waveQueue) >= 1
    /\ step["driver"] \in {"take", "fill", "out"} => Len(waveQueue) >= 1
    /\ step["driver"] = "count" => Len(waveQueue) >= 2
    /\ step["main"] = "count" => Len(waveQueue) >= 1
    /\ step["main"] = "close" => waveQueue = <<>> /\ step["driver"] \in {"idle", "write"}

\* What is known of the values.
WaveTypes ==
    /\ rdy \in BOOLEAN /\ inuse \in Int /\ waveQueue \in Seq(0 .. WriteBuffers - 1)
    /\ kicks \in 0 .. Writes /\ pos \in 0 .. WriteBuffers - 1
    /\ step \in [{"main", "driver"} ->
                    {"idle", "write", "take", "fill", "out", "count", "wait", "close", "done"}]
    /\ buf \in [{"main", "driver"} -> 0 .. WriteBuffers - 1] /\ count \in [{"main", "driver"} -> Int]

WaveInv == WaveTypes /\ Ringed /\ Alone /\ Counted /\ Level

\* The ring: as long as a buffer is free the one at pos is, and only when all are filled it is not.
LEMMA PosIsFree ==
    ASSUME WaveTypes, NEW k \in Nat, From(k)
    PROVE  pos \in prepared <=> Filled = WriteBuffers
<1>0. WriteBuffers \in Nat /\ WriteBuffers >= 2
  BY PartsAssumption DEF Wave!WinWaveAssumption
<1>1. Filled \in Nat /\ Filled <= WriteBuffers
  BY DEF WaveTypes, Filled, From
<1>2. pos = Cell(k + Filled + 1) /\ prepared = {Cell(k + i) : i \in 1 .. Filled}
  BY DEF From
<1> HIDE DEF Cell
<1>3. CASE Filled = WriteBuffers
  <2>1. Cell((k + 1) + WriteBuffers) = Cell(k + 1)
    BY Cells
  <2>2. (k + 1) + WriteBuffers = k + Filled + 1
    BY <1>0, <1>3
  <2>3. 1 \in 1 .. Filled
    BY <1>0, <1>3
  <2>. QED BY <1>2, <1>3, <2>1, <2>2, <2>3
<1>4. CASE Filled # WriteBuffers
  <2>1. ASSUME NEW i \in 1 .. Filled, pos = Cell(k + i) PROVE FALSE
    <3>1. k + i \in Nat /\ k + Filled + 1 \in Nat /\ k + i < k + Filled + 1
          /\ k + Filled + 1 < (k + i) + WriteBuffers
      BY <1>0, <1>1, <1>4
    <3>2. k + i = k + Filled + 1
      BY <1>2, <2>1, <3>1, Cells
    <3>. QED BY <3>1, <3>2
  <2>. QED BY <1>2, <1>4, <2>1
<1>. QED BY <1>3, <1>4

\* The ring does not change while no buffer is filled, queued or given back.
LEMMA RingStays ==
    ASSUME Ringed, UNCHANGED <<waveQueue, prepared, pos>>, Filling' = Filling,
           \A t \in Filling : buf'[t] = buf[t]
    PROVE  Ringed'
<1>1. PICK k \in Nat : From(k)
  BY DEF Ringed
<1>2. Filled' = Filled
  BY Zenon DEF Filled
<1>3. From(k)'
  BY <1>1, <1>2, Zenon DEF From
<1>. QED BY <1>3 DEF Ringed

\* The initial state, in which the callback for WOM_OPEN has returned.
LEMMA WaveInit == Wave!Init => WaveInv
<1> SUFFICES ASSUME Wave!Init PROVE WaveInv
  OBVIOUS
<1>0. WriteBuffers \in Nat /\ WriteBuffers >= 2 /\ Writes \in Nat /\ Writes >= 2
  BY PartsAssumption DEF Wave!WinWaveAssumption
<1>1. /\ pos = 0 /\ inuse = 0 /\ prepared = {} /\ waveQueue = <<>> /\ kicks = Writes
      /\ step = [main |-> "idle", driver |-> "idle"]
      /\ buf = [t \in {"main", "driver"} |-> 0] /\ count = [t \in {"main", "driver"} |-> 0]
      /\ rdy = TRUE
  BY DEF Wave!Init, Wave!Threads
<1>2. /\ step \in [{"main", "driver"} ->
                      {"idle", "write", "take", "fill", "out", "count", "wait", "close", "done"}]
      /\ step["main"] = "idle" /\ step["driver"] = "idle"
  BY <1>1
<1>3. WaveTypes
  BY <1>0, <1>1, <1>2 DEF WaveTypes
<1>4. From(WriteBuffers - 1)
  <2>1. Filling = {}
    BY <1>2 DEF Filling
  <2>2. Filled = 0
    BY <1>1, <2>1 DEF Filled
  <2>3. Cell(WriteBuffers) = 0
    BY <1>0 DEF Cell
  <2> HIDE DEF Cell
  <2>. QED BY <1>0, <1>1, <2>1, <2>2, <2>3 DEF From
<1>5. Alone /\ Counted /\ Level
  BY <1>0, <1>1, <1>2 DEF Alone, Counted, Level
<1>. QED BY <1>0, <1>3, <1>4, <1>5 DEF WaveInv, Ringed

\* dsp_write up to the buffer that it takes: rdy, then WHDR_PREPARED.
LEMMA WaveBegins ==
    ASSUME WaveInv, NEW t \in {"main", "driver"}, Wave!WriteReady(t) \/ Wave!WriteTake(t)
    PROVE  WaveInv'
<1>0. WriteBuffers \in Nat /\ WriteBuffers >= 2 /\ Writes \in Nat /\ Writes >= 2
  BY PartsAssumption DEF Wave!WinWaveAssumption
<1>1. WaveTypes /\ Ringed /\ Alone /\ Counted /\ Level
  BY DEF WaveInv
<1>2. /\ UNCHANGED <<rdy, pos, inuse, prepared, waveQueue, kicks, count>>
      /\ \/ /\ step[t] = "write" /\ buf' = buf
            /\ step' = [step EXCEPT ![t] = IF rdy THEN "take" ELSE "idle"]
         \/ /\ step[t] = "take" /\ buf' = [buf EXCEPT ![t] = pos]
            /\ step' = [step EXCEPT ![t] = IF pos \in prepared THEN "idle" ELSE "fill"]
  BY Zenon DEF Wave!WriteReady, Wave!WriteTake, Wave!Go
<1>3. /\ step \in [{"main", "driver"} ->
                      {"idle", "write", "take", "fill", "out", "count", "wait", "close", "done"}]
      /\ buf \in [{"main", "driver"} -> 0 .. WriteBuffers - 1] /\ pos \in 0 .. WriteBuffers - 1
      /\ Len(waveQueue) \in Nat /\ kicks \in Nat
  BY <1>1 DEF WaveTypes
<1>4. WaveTypes'
  <2>1. rdy' \in BOOLEAN
    BY <1>1, <1>2, Zenon DEF WaveTypes
  <2>. QED BY <1>1, <1>2, <1>3, <2>1 DEF WaveTypes
<1>5. Filling' = Filling /\ t \notin Filling
  BY <1>2, <1>3 DEF Filling
<1>6. Ringed'
  <2>1. \A u \in Filling : buf'[u] = buf[u]
    BY <1>2, <1>3, <1>5 DEF Filling
  <2>. QED BY <1>1, <1>2, <1>5, <2>1, RingStays
<1>7. Alone'
  <2>1. (rdy <=> step["main"] \notin {"wait", "close"})'
    <3>1. step'["main"] \in {"wait", "close"} <=> step["main"] \in {"wait", "close"}
      BY <1>2, <1>3
    <3>2. rdy <=> step["main"] \notin {"wait", "close"}
      BY <1>1 DEF Alone
    <3>. QED BY <1>2, <3>1, <3>2, Zenon
  <2>. QED BY <1>1, <1>2, <1>3, <2>1 DEF Alone
<1>8. Counted'
  BY <1>1, <1>2, <1>3 DEF Alone, Counted
<1>9. step[t] = "take" /\ pos \in prepared => Len(waveQueue) = WriteBuffers
  <2>1. SUFFICES ASSUME step[t] = "take", pos \in prepared PROVE Len(waveQueue) = WriteBuffers
    OBVIOUS
  <2>2. Filling = {}
    BY <1>1, <1>3, <2>1 DEF Alone, Filling
  <2>3. PICK k \in Nat : From(k)
    BY <1>1 DEF Ringed
  <2>4. Filled = WriteBuffers
    BY <1>1, <2>1, <2>3, PosIsFree
  <2>. QED BY <2>2, <2>4 DEF Filled
<1>10. rdy <=> step["main"] \notin {"wait", "close"}
  BY <1>1 DEF Alone
<1>11. Level'
  <2>1. CASE t = "main"
    BY <1>0, <1>1, <1>2, <1>3, <1>9, <1>10, <2>1 DEF Alone, Level
  <2>2. CASE t = "driver"
    BY <1>0, <1>1, <1>2, <1>3, <1>9, <1>10, <2>2 DEF Alone, Level
  <2>. QED BY <2>1, <2>2
<1>. QED BY <1>4, <1>6, <1>7, <1>8, <1>11 DEF WaveInv

\* The write handler fills the buffer and its header is prepared: one more place of the ring.
LEMMA WaveFills ==
    ASSUME WaveInv, NEW t \in {"main", "driver"}, Wave!WriteFill(t) PROVE WaveInv'
<1>0. WriteBuffers \in Nat /\ WriteBuffers >= 2 /\ Writes \in Nat /\ Writes >= 2
  BY PartsAssumption DEF Wave!WinWaveAssumption
<1>1. WaveTypes /\ Ringed /\ Alone /\ Counted /\ Level
  BY DEF WaveInv
<1>2. /\ UNCHANGED <<rdy, inuse, waveQueue, kicks, buf, count>>
      /\ step[t] = "fill" /\ step' = [step EXCEPT ![t] = "out"]
      /\ prepared' = prepared \cup {buf[t]} /\ pos' = (pos + 1) % WriteBuffers
  BY Zenon DEF Wave!WriteFill, Wave!Go
<1>3. /\ step \in [{"main", "driver"} ->
                      {"idle", "write", "take", "fill", "out", "count", "wait", "close", "done"}]
      /\ buf \in [{"main", "driver"} -> 0 .. WriteBuffers - 1] /\ pos \in 0 .. WriteBuffers - 1
      /\ Len(waveQueue) \in Nat /\ kicks \in Nat /\ inuse \in Int
      /\ count \in [{"main", "driver"} -> Int]
  BY <1>1 DEF WaveTypes
<1>4. buf[t] = pos /\ pos \notin prepared
  BY <1>1, <1>2 DEF Alone
<1>5. Filling = {} /\ Filling' = {t}
  BY <1>1, <1>2, <1>3 DEF Alone, Filling
<1>6. PICK k \in Nat : From(k)
  BY <1>1 DEF Ringed
<1>7. Filled = Len(waveQueue) /\ Filled' = Len(waveQueue) + 1
  BY <1>2, <1>5 DEF Filled
<1>8. Len(waveQueue) < WriteBuffers
  <2>1. Filled # WriteBuffers
    BY <1>1, <1>4, <1>6, PosIsFree
  <2>2. Filled <= WriteBuffers
    BY <1>6 DEF From
  <2>. QED BY <1>0, <1>3, <1>7, <2>1, <2>2
<1>9. /\ \A i \in 1 .. Len(waveQueue) : waveQueue[i] = Cell(k + i)
      /\ prepared = {Cell(k + i) : i \in 1 .. Len(waveQueue)}
      /\ pos = Cell(k + Len(waveQueue) + 1)
  BY <1>6, <1>7 DEF From
<1>10. /\ Cell(k + Len(waveQueue) + 1) \in 0 .. WriteBuffers - 1
       /\ (Cell(k + Len(waveQueue) + 1) + 1) % WriteBuffers = Cell((k + Len(waveQueue) + 1) + 1)
       /\ Cell((k + Len(waveQueue) + 1) + 1) \in 0 .. WriteBuffers - 1
  <2>1. k + Len(waveQueue) + 1 \in Nat /\ (k + Len(waveQueue) + 1) + 1 \in Nat
    BY <1>3
  <2> HIDE DEF Cell
  <2>. QED BY <2>1, Cells
<1> HIDE DEF Cell
<1>11. pos' = Cell((k + Len(waveQueue) + 1) + 1)
  BY <1>2, <1>9, <1>10
<1>12. Ringed'
  <2>1. prepared' = {Cell(k + i) : i \in 1 .. Len(waveQueue) + 1}
    <3>1. \A i \in 1 .. Len(waveQueue) + 1 :
             i \in 1 .. Len(waveQueue) \/ k + i = k + Len(waveQueue) + 1
      BY <1>3
    <3>2. \A i \in 1 .. Len(waveQueue) : i \in 1 .. Len(waveQueue) + 1
      BY <1>3
    <3>3. Len(waveQueue) + 1 \in 1 .. Len(waveQueue) + 1
          /\ k + (Len(waveQueue) + 1) = k + Len(waveQueue) + 1
      BY <1>3
    <3>4. prepared' = prepared \cup {Cell(k + Len(waveQueue) + 1)}
      BY <1>2, <1>4, <1>9
    <3>5. \A x : x \in {Cell(k + i) : i \in 1 .. Len(waveQueue) + 1} <=>
                     x \in prepared \/ x = Cell(k + Len(waveQueue) + 1)
      BY <1>9, <3>1, <3>2, <3>3
    <3>. QED BY <3>4, <3>5
  <2>2. (k + Len(waveQueue) + 1) + 1 = k + (Len(waveQueue) + 1) + 1
        /\ k + Len(waveQueue) + 1 = k + (Len(waveQueue) + 1) /\ Len(waveQueue) + 1 <= WriteBuffers
    BY <1>0, <1>3, <1>8
  <2>3. From(k)'
    BY <1>2, <1>4, <1>5, <1>7, <1>9, <1>11, <2>1, <2>2 DEF From
  <2>. QED BY <2>3 DEF Ringed
<1>13. WaveTypes'
  <2>1. rdy' \in BOOLEAN
    BY <1>1, <1>2, Zenon DEF WaveTypes
  <2>2. step' \in [{"main", "driver"} ->
                      {"idle", "write", "take", "fill", "out", "count", "wait", "close", "done"}]
    BY <1>2, <1>3
  <2>3. pos' \in 0 .. WriteBuffers - 1
    BY <1>10, <1>11
  <2>. QED BY <1>1, <1>2, <2>1, <2>2, <2>3 DEF WaveTypes
<1>14. Alone'
  <2>1. (rdy <=> step["main"] \notin {"wait", "close"})'
    <3>1. step'["main"] \in {"wait", "close"} <=> step["main"] \in {"wait", "close"}
      BY <1>2, <1>3
    <3>2. rdy <=> step["main"] \notin {"wait", "close"}
      BY <1>1 DEF Alone
    <3>. QED BY <1>2, <3>1, <3>2, Zenon
  <2>. QED BY <1>1, <1>2, <1>3, <2>1 DEF Alone
<1>15. Counted'
  BY <1>1, <1>2, <1>3 DEF Alone, Counted
<1>16. Level'
  <2>1. CASE t = "main"
    BY <1>0, <1>1, <1>2, <1>3, <1>8, <2>1 DEF Alone, Level
  <2>2. CASE t = "driver"
    BY <1>0, <1>1, <1>2, <1>3, <1>8, <2>2 DEF Alone, Level
  <2>. QED BY <2>1, <2>2
<1>. QED BY <1>12, <1>13, <1>14, <1>15, <1>16 DEF WaveInv

\* waveOutWrite: the buffer is queued, and the count is read.
LEMMA WaveQueues ==
    ASSUME WaveInv, NEW t \in {"main", "driver"}, Wave!WriteOut(t) PROVE WaveInv'
<1>0. WriteBuffers \in Nat /\ WriteBuffers >= 2 /\ Writes \in Nat /\ Writes >= 2
  BY PartsAssumption DEF Wave!WinWaveAssumption
<1>1. WaveTypes /\ Ringed /\ Alone /\ Counted /\ Level
  BY DEF WaveInv
<1>2. /\ UNCHANGED <<rdy, pos, inuse, prepared, kicks, buf>>
      /\ step[t] = "out" /\ step' = [step EXCEPT ![t] = "count"]
      /\ waveQueue' = Append(waveQueue, buf[t]) /\ count' = [count EXCEPT ![t] = inuse]
  BY Zenon DEF Wave!WriteOut, Wave!Go
<1>3. /\ step \in [{"main", "driver"} ->
                      {"idle", "write", "take", "fill", "out", "count", "wait", "close", "done"}]
      /\ buf \in [{"main", "driver"} -> 0 .. WriteBuffers - 1] /\ pos \in 0 .. WriteBuffers - 1
      /\ Len(waveQueue) \in Nat /\ kicks \in Nat /\ inuse \in Int
      /\ count \in [{"main", "driver"} -> Int]
  BY <1>1 DEF WaveTypes
<1>4. Filling = {t} /\ Filling' = {}
  BY <1>1, <1>2, <1>3 DEF Alone, Filling
<1>5. PICK k \in Nat : From(k)
  BY <1>1 DEF Ringed
<1>6. /\ Len(waveQueue') = Len(waveQueue) + 1 /\ waveQueue' \in Seq(0 .. WriteBuffers - 1)
      /\ \A i \in 1 .. Len(waveQueue) : waveQueue'[i] = waveQueue[i]
      /\ waveQueue'[Len(waveQueue) + 1] = buf[t]
  <2>1. waveQueue \in Seq(0 .. WriteBuffers - 1) /\ buf[t] \in 0 .. WriteBuffers - 1
    BY <1>1, <1>3 DEF WaveTypes
  <2>. QED BY <1>2, <2>1, AppendProperties
<1>7. Filled = Len(waveQueue) + 1 /\ Filled' = Len(waveQueue) + 1
  BY <1>4, <1>6 DEF Filled
<1>8. Ringed'
  <2>1. /\ \A i \in 1 .. Len(waveQueue) : waveQueue[i] = Cell(k + i)
        /\ prepared = {Cell(k + i) : i \in 1 .. Len(waveQueue) + 1}
        /\ pos = Cell(k + (Len(waveQueue) + 1) + 1) /\ buf[t] = Cell(k + (Len(waveQueue) + 1))
        /\ Len(waveQueue) + 1 <= WriteBuffers
    BY <1>4, <1>5, <1>7 DEF From
  <2> HIDE DEF Cell
  <2>2. \A i \in 1 .. Len(waveQueue) + 1 : waveQueue'[i] = Cell(k + i)
    <3>1. \A i \in 1 .. Len(waveQueue) + 1 :
             i \in 1 .. Len(waveQueue) \/ i = Len(waveQueue) + 1
      BY <1>3
    <3>. QED BY <1>6, <2>1, <3>1
  <2>3. From(k)'
    BY <1>2, <1>4, <1>6, <1>7, <2>1, <2>2 DEF From
  <2>. QED BY <2>3 DEF Ringed
<1>9. WaveTypes'
  <2>1. rdy' \in BOOLEAN
    BY <1>1, <1>2, Zenon DEF WaveTypes
  <2>2. step' \in [{"main", "driver"} ->
                      {"idle", "write", "take", "fill", "out", "count", "wait", "close", "done"}]
        /\ count' \in [{"main", "driver"} -> Int]
    BY <1>2, <1>3
  <2>. QED BY <1>1, <1>2, <1>6, <2>1, <2>2 DEF WaveTypes
<1>10. Alone'
  <2>1. (rdy <=> step["main"] \notin {"wait", "close"})'
    <3>1. step'["main"] \in {"wait", "close"} <=> step["main"] \in {"wait", "close"}
      BY <1>2, <1>3
    <3>2. rdy <=> step["main"] \notin {"wait", "close"}
      BY <1>1 DEF Alone
    <3>. QED BY <1>2, <3>1, <3>2, Zenon
  <2>. QED BY <1>1, <1>2, <1>3, <2>1 DEF Alone
<1>11. Counted'
  BY <1>1, <1>2, <1>3, <1>6 DEF Alone, Counted
<1>12. Level'
  <2>1. waveQueue' # <<>>
    BY <1>3, <1>6
  <2>2. CASE t = "main"
    BY <1>0, <1>1, <1>2, <1>3, <1>6, <2>1, <2>2, SMTT(40) DEF Alone, Level
  <2>3. CASE t = "driver"
    BY <1>0, <1>1, <1>2, <1>3, <1>6, <2>1, <2>3, SMTT(40) DEF Alone, Level
  <2>. QED BY <2>2, <2>3
<1>. QED BY <1>8, <1>9, <1>10, <1>11, <1>12 DEF WaveInv

\* The callback for WOM_DONE: the header of the buffer that was played is free again.
LEMMA WaveDone == ASSUME WaveInv, Wave!Done PROVE WaveInv'
<1>0. WriteBuffers \in Nat /\ WriteBuffers >= 2 /\ Writes \in Nat /\ Writes >= 2
  BY PartsAssumption DEF Wave!WinWaveAssumption
<1>1. WaveTypes /\ Ringed /\ Alone /\ Counted /\ Level
  BY DEF WaveInv
<1>2. /\ UNCHANGED <<rdy, pos, inuse, kicks, buf>> /\ kicks = 0
      /\ step["driver"] = "idle" /\ step' = [step EXCEPT !["driver"] = "done"]
      /\ step["main"] \in {"idle", "wait", "close"} /\ waveQueue # <<>>
      /\ prepared' = prepared \ {Head(waveQueue)} /\ waveQueue' = Tail(waveQueue)
      /\ count' = [count EXCEPT !["driver"] = inuse]
  BY DEF Wave!Done, Wave!Go
<1>3. /\ step \in [{"main", "driver"} ->
                      {"idle", "write", "take", "fill", "out", "count", "wait", "close", "done"}]
      /\ buf \in [{"main", "driver"} -> 0 .. WriteBuffers - 1] /\ pos \in 0 .. WriteBuffers - 1
      /\ Len(waveQueue) \in Nat /\ kicks \in Nat /\ inuse \in Int
      /\ count \in [{"main", "driver"} -> Int]
  BY <1>1 DEF WaveTypes
<1>4. Filling = {} /\ Filling' = {}
  BY <1>2, <1>3 DEF Filling
<1>5. PICK k \in Nat : From(k)
  BY <1>1 DEF Ringed
<1>6. /\ Len(waveQueue) >= 1 /\ Head(waveQueue) = waveQueue[1]
      /\ Len(waveQueue') = Len(waveQueue) - 1 /\ waveQueue' \in Seq(0 .. WriteBuffers - 1)
      /\ \A i \in 1 .. Len(waveQueue) - 1 : waveQueue'[i] = waveQueue[i + 1]
  <2>1. waveQueue \in Seq(0 .. WriteBuffers - 1)
    BY <1>1 DEF WaveTypes
  <2>. QED BY <1>2, <2>1
<1>7. Filled = Len(waveQueue) /\ Filled' = Len(waveQueue) - 1
  BY <1>4, <1>6 DEF Filled
<1>8. /\ \A i \in 1 .. Len(waveQueue) : waveQueue[i] = Cell(k + i)
      /\ prepared = {Cell(k + i) : i \in 1 .. Len(waveQueue)}
      /\ pos = Cell(k + Len(waveQueue) + 1) /\ Len(waveQueue) <= WriteBuffers
  BY <1>5, <1>7 DEF From
<1> HIDE DEF Cell
<1>9. Ringed'
  <2>1. \A i \in 2 .. Len(waveQueue) : Cell(k + i) # Cell(k + 1)
    <3>1. ASSUME NEW i \in 2 .. Len(waveQueue), Cell(k + i) = Cell(k + 1) PROVE FALSE
      <4>1. k + 1 \in Nat /\ k + i \in Nat /\ k + 1 <= k + i /\ k + i < (k + 1) + WriteBuffers
        BY <1>0, <1>3, <1>8
      <4>2. k + 1 = k + i
        BY <3>1, <4>1, Cells
      <4>. QED BY <4>2
    <3>. QED BY <3>1
  <2>2. prepared' = {Cell(k + 1 + i) : i \in 1 .. Len(waveQueue) - 1}
    <3>1. prepared' = {Cell(k + i) : i \in 2 .. Len(waveQueue)}
      <4>1. Head(waveQueue) = Cell(k + 1)
        BY <1>3, <1>6, <1>8
      <4>2. \A i \in 1 .. Len(waveQueue) : i = 1 \/ i \in 2 .. Len(waveQueue)
        BY <1>3
      <4>3. \A i \in 2 .. Len(waveQueue) : i \in 1 .. Len(waveQueue)
        BY <1>3
      <4>. QED BY <1>2, <1>8, <2>1, <4>1, <4>2, <4>3
    <3>2. ASSUME NEW i \in 2 .. Len(waveQueue)
          PROVE  i - 1 \in 1 .. Len(waveQueue) - 1 /\ k + i = k + 1 + (i - 1)
      BY <1>3
    <3>3. ASSUME NEW i \in 1 .. Len(waveQueue) - 1
          PROVE  i + 1 \in 2 .. Len(waveQueue) /\ k + (i + 1) = k + 1 + i
      BY <1>3
    <3>. QED BY <3>1, <3>2, <3>3
  <2>3. \A i \in 1 .. Len(waveQueue) - 1 : waveQueue'[i] = Cell(k + 1 + i)
    <3>1. ASSUME NEW i \in 1 .. Len(waveQueue) - 1
          PROVE  i + 1 \in 1 .. Len(waveQueue) /\ k + (i + 1) = k + 1 + i
      BY <1>3
    <3>. QED BY <1>6, <1>8, <3>1
  <2>4. k + Len(waveQueue) + 1 = k + 1 + (Len(waveQueue) - 1) + 1 /\ k + 1 \in Nat
        /\ Len(waveQueue) - 1 <= WriteBuffers
    BY <1>0, <1>3, <1>8
  <2>5. From(k + 1)'
    BY <1>2, <1>4, <1>6, <1>7, <1>8, <2>2, <2>3, <2>4 DEF From
  <2>. QED BY <2>4, <2>5 DEF Ringed
<1>10. WaveTypes'
  <2>1. rdy' \in BOOLEAN
    BY <1>1, <1>2, Zenon DEF WaveTypes
  <2>2. step' \in [{"main", "driver"} ->
                      {"idle", "write", "take", "fill", "out", "count", "wait", "close", "done"}]
        /\ count' \in [{"main", "driver"} -> Int]
    BY <1>2, <1>3
  <2>. QED BY <1>1, <1>2, <1>6, <2>1, <2>2 DEF WaveTypes
<1>11. Alone'
  <2>1. (rdy <=> step["main"] \notin {"wait", "close"})'
    <3>1. step'["main"] = step["main"]
      BY <1>2, <1>3
    <3>2. rdy <=> step["main"] \notin {"wait", "close"}
      BY <1>1 DEF Alone
    <3>. QED BY <1>2, <3>1, <3>2, Zenon
  <2>. QED BY <1>1, <1>2, <1>3, <2>1 DEF Alone
<1>12. Counted'
  <2>1. inuse = Len(waveQueue)
    BY <1>1, <1>2 DEF Counted
  <2>2. /\ inuse' = Len(waveQueue') + 1 /\ step'["driver"] = "done" /\ count'["driver"] = inuse'
        /\ step'["main"] \notin {"count", "done"}
    BY <1>2, <1>3, <1>6, <2>1
  <2>. QED BY <2>2 DEF Counted
<1>13. Level'
  <2> DEFINE before == Len(waveQueue)  after == Len(waveQueue')
  <2>1. /\ before \in Nat /\ before >= 1 /\ before <= WriteBuffers /\ after = before - 1
        /\ kicks = 0 /\ kicks' = 0
        /\ step["main"] \in {"idle", "wait", "close"} /\ step["driver"] = "idle"
        /\ step'["main"] = step["main"] /\ step'["driver"] = "done"
    BY <1>2, <1>3, <1>6, <1>8
  <2>2. step["main"] = "idle" => before >= 2 \/ before >= Writes
    BY <1>0, <1>1, <2>1 DEF Level
  <2>3. step["main"] # "close"
    BY <1>1, <1>2, <2>1 DEF Level
  <2> HIDE DEF before, after
  <2>4. after < WriteBuffers /\ (step'["main"] = "idle" => after >= 1)
    BY <1>0, <2>1, <2>2
  <2>5. step'["main"] \in {"idle", "wait"}
    BY <2>1, <2>3
  <2>6. /\ step'["driver"] \notin {"idle", "count"} /\ step'["driver"] \notin {"take", "fill", "out"}
        /\ step'["driver"] # "count" /\ step'["main"] # "count" /\ step'["main"] # "close"
        /\ step'["main"] \notin {"write", "take", "fill", "out"}
    BY <2>1, <2>5
  <2>7. Len(waveQueue') < WriteBuffers /\ (step'["main"] = "idle" => Len(waveQueue') >= 1)
    BY <2>4 DEF after
  <2>. QED BY <2>6, <2>7, Zenon DEF Level
<1>. QED BY <1>9, <1>10, <1>11, <1>12, <1>13 DEF WaveInv

\* A step that only counts, or that the main thread takes between its writes.
LEMMA WaveCounts ==
    ASSUME WaveInv,
           \/ \E t \in {"main", "driver"} : Wave!WriteCount(t)
           \/ Wave!DoneCount \/ Wave!Kick \/ Wave!Destroy \/ Wave!Destroyed
    PROVE  WaveInv'
<1>0. WriteBuffers \in Nat /\ WriteBuffers >= 2 /\ Writes \in Nat /\ Writes >= 2
  BY PartsAssumption DEF Wave!WinWaveAssumption
<1>1. WaveTypes /\ Ringed /\ Alone /\ Counted /\ Level
  BY DEF WaveInv
<1>3. /\ step \in [{"main", "driver"} ->
                      {"idle", "write", "take", "fill", "out", "count", "wait", "close", "done"}]
      /\ buf \in [{"main", "driver"} -> 0 .. WriteBuffers - 1] /\ pos \in 0 .. WriteBuffers - 1
      /\ Len(waveQueue) \in Nat /\ kicks \in Nat /\ inuse \in Int
      /\ count \in [{"main", "driver"} -> Int]
  BY <1>1 DEF WaveTypes
<1>4. /\ UNCHANGED <<pos, prepared, waveQueue, buf>>
      /\ \/ \E t \in {"main", "driver"} :
               /\ step[t] = "count" /\ step' = [step EXCEPT ![t] = "idle"]
               /\ inuse' = count[t] + 1 /\ UNCHANGED <<rdy, kicks, count>>
         \/ /\ step["driver"] = "done" /\ step' = [step EXCEPT !["driver"] = "write"]
            /\ inuse' = count["driver"] - 1 /\ UNCHANGED <<rdy, kicks, count>>
         \/ /\ kicks > 0 /\ kicks' = kicks - 1 /\ UNCHANGED <<rdy, inuse, count>>
            /\ step["main"] = "idle" /\ step' = [step EXCEPT !["main"] = "write"]
         \/ /\ kicks = 0 /\ rdy' = FALSE /\ UNCHANGED <<inuse, kicks, count>>
            /\ step["main"] = "idle" /\ step' = [step EXCEPT !["main"] = "wait"]
         \/ /\ inuse = 0 /\ UNCHANGED <<rdy, inuse, kicks, count>>
            /\ step["main"] = "wait" /\ step' = [step EXCEPT !["main"] = "close"]
  BY DEF Wave!WriteCount, Wave!DoneCount, Wave!Kick, Wave!Destroy, Wave!Destroyed, Wave!Go
<1>5. Filling' = Filling
  BY <1>3, <1>4 DEF Filling
<1>6. Ringed'
  BY <1>1, <1>4, <1>5, RingStays
<1>7. WaveTypes'
  <2>1. rdy' \in BOOLEAN
    BY <1>1, <1>4, Zenon DEF WaveTypes
  <2>2. step' \in [{"main", "driver"} ->
                      {"idle", "write", "take", "fill", "out", "count", "wait", "close", "done"}]
    BY <1>3, <1>4
  <2>3. count' \in [{"main", "driver"} -> Int]
    BY <1>3, <1>4
  <2>4. inuse' \in Int
    BY <1>3, <1>4
  <2>5. kicks' \in 0 .. Writes
    <3>1. kicks \in 0 .. Writes
      BY <1>1 DEF WaveTypes
    <3>. QED BY <1>0, <1>4, <3>1
  <2>. QED BY <1>1, <1>4, <2>1, <2>2, <2>3, <2>4, <2>5 DEF WaveTypes
<1>8. Alone'
  <2>1. (rdy <=> step["main"] \notin {"wait", "close"})'
    <3>1. rdy <=> step["main"] \notin {"wait", "close"}
      BY <1>1 DEF Alone
    <3>2. \/ /\ rdy' = rdy
             /\ step'["main"] \in {"wait", "close"} <=> step["main"] \in {"wait", "close"}
          \/ rdy' = FALSE /\ step'["main"] = "wait"
      BY <1>3, <1>4
    <3>. QED BY <3>1, <3>2
  <2>. QED BY <1>1, <1>3, <1>4, <2>1 DEF Alone
<1>9. Counted'
  BY <1>1, <1>3, <1>4 DEF Alone, Counted
<1>10. Level'
  <2>1. waveQueue = <<>> <=> Len(waveQueue) = 0
    BY <1>1 DEF WaveTypes
  <2>2. ASSUME NEW t \in {"main", "driver"}, step[t] = "count",
               step' = [step EXCEPT ![t] = "idle"], kicks' = kicks, waveQueue' = waveQueue
        PROVE  Level'
    <3>1. CASE t = "main"
      BY <1>1, <1>3, <2>2, <3>1 DEF Alone, Level
    <3>2. CASE t = "driver"
      BY <1>1, <1>3, <2>2, <3>2 DEF Alone, Level
    <3>. QED BY <3>1, <3>2
  <2>3. ASSUME step["driver"] = "done", step' = [step EXCEPT !["driver"] = "write"],
               kicks' = kicks, waveQueue' = waveQueue
        PROVE  Level'
    <3>1. /\ step'["main"] = step["main"] /\ step'["driver"] = "write"
          /\ step["main"] \in {"idle", "wait", "close"}
      BY <1>1, <1>3, <2>3 DEF Alone
    <3>. QED BY <1>1, <2>3, <3>1 DEF Level
  <2>4. ASSUME step["main"] = "idle", step' = [step EXCEPT !["main"] = "write"],
               kicks > 0, kicks' = kicks - 1, waveQueue' = waveQueue
        PROVE  Level'
    <3>1. step'["main"] = "write" /\ step'["driver"] = "idle" /\ step["driver"] = "idle"
      BY <1>1, <1>3, <2>4 DEF Alone
    <3>. QED BY <1>0, <1>1, <1>3, <2>4, <3>1 DEF Level
  <2>5. ASSUME step["main"] = "idle", step' = [step EXCEPT !["main"] = "wait"],
               kicks' = kicks, waveQueue' = waveQueue
        PROVE  Level'
    <3>1. step'["main"] = "wait" /\ step'["driver"] = step["driver"]
      BY <1>3, <2>5
    <3>. QED BY <1>1, <2>5, <3>1 DEF Level
  <2>6. ASSUME step["main"] = "wait", step' = [step EXCEPT !["main"] = "close"], inuse = 0,
               kicks' = kicks, waveQueue' = waveQueue
        PROVE  Level'
    <3>1. step'["main"] = "close" /\ step'["driver"] = step["driver"]
      BY <1>3, <2>6
    <3>2. waveQueue = <<>> /\ step["driver"] \in {"idle", "write"}
      <4>1. Len(waveQueue) \in Nat /\ inuse = 0 /\ step["main"] # "count"
        BY <1>1, <2>6 DEF WaveTypes
      <4>2. CASE step["driver"] = "done"
        <5>1. inuse = Len(waveQueue) + 1
          BY <1>1, <4>2 DEF Counted
        <5>. QED BY <4>1, <5>1
      <4>3. CASE step["driver"] = "count"
        <5>1. Len(waveQueue) >= 2 /\ inuse = Len(waveQueue) - 1
          BY <1>1, <4>3 DEF Counted, Level
        <5>2. Len(waveQueue) - 1 = 0
          BY <4>1, <5>1
        <5>3. ~(Len(waveQueue) >= 2)
          <6> DEFINE l == Len(waveQueue)
          <6>1. l \in Nat /\ l - 1 = 0
            BY <4>1, <5>2
          <6> HIDE DEF l
          <6>2. ~(l >= 2)
            BY <6>1
          <6>. QED BY <6>2 DEF l
        <5>. QED BY <5>1, <5>3
      <4>4. CASE step["driver"] \in {"take", "fill", "out"}
        <5>1. Len(waveQueue) >= 1 /\ inuse = Len(waveQueue)
          BY <1>1, <4>1, <4>4 DEF Counted, Level
        <5>. QED BY <4>1, <5>1
      <4>5. CASE step["driver"] \in {"idle", "write"}
        <5>1. inuse = Len(waveQueue)
          BY <1>1, <4>1, <4>5 DEF Counted
        <5>. QED BY <2>1, <4>1, <4>5, <5>1
      <4>. QED BY <1>1, <4>2, <4>3, <4>4, <4>5 DEF Alone
    <3>. QED BY <1>1, <2>6, <3>1, <3>2 DEF Level
  <2>. QED BY <1>4, <2>2, <2>3, <2>4, <2>5, <2>6
<1>. QED BY <1>6, <1>7, <1>8, <1>9, <1>10 DEF WaveInv

\* Every step of the two threads.
LEMMA WaveNext == WaveInv /\ [Wave!Next]_waveVars => WaveInv'
<1> SUFFICES ASSUME WaveInv, [Wave!Next]_waveVars PROVE WaveInv'
  OBVIOUS
<1>1. CASE \E t \in {"main", "driver"} : Wave!Write(t)
  BY <1>1, WaveBegins, WaveFills, WaveQueues, WaveCounts DEF Wave!Write
<1>2. CASE Wave!Kick \/ Wave!Destroy \/ Wave!Destroyed \/ Wave!DoneCount
  BY <1>2, WaveCounts
<1>3. CASE Wave!Done
  BY <1>3, WaveDone
<1>4. CASE UNCHANGED waveVars
  <2>1. UNCHANGED <<rdy, pos, inuse, prepared, waveQueue, kicks, step, buf, count>>
    BY <1>4, Zenon DEF waveVars
  <2>2. Filling' = Filling
    BY <2>1, Zenon DEF Filling
  <2>3. Ringed'
    BY <2>1, <2>2, RingStays DEF WaveInv
  <2>. QED BY <2>1, <2>3, Zenon DEF WaveInv, WaveTypes, Alone, Counted, Level
<1>. QED BY <1>1, <1>2, <1>3, <1>4 DEF Wave!Next, Wave!Driver

\* What follows for the driver and for the owner, and for the buffers that are queued.
LEMMA WaveSafe == WaveInv => Wave!TypeOK /\ Wave!FillsOwn /\ Wave!ClosesEmpty
<1> SUFFICES ASSUME WaveInv PROVE Wave!TypeOK /\ Wave!FillsOwn /\ Wave!ClosesEmpty
  OBVIOUS
<1>0. WriteBuffers \in Nat /\ WriteBuffers >= 2
  BY PartsAssumption DEF Wave!WinWaveAssumption
<1>1. WaveTypes /\ Alone /\ Counted /\ Level
  BY DEF WaveInv
<1>2. PICK k \in Nat : From(k)
  BY DEF WaveInv, Ringed
<1>3. /\ Filled >= Len(waveQueue) /\ Filled <= WriteBuffers /\ Len(waveQueue) \in Nat
      /\ Filled \in Nat /\ DOMAIN waveQueue = 1 .. Len(waveQueue)
  BY <1>1, <1>2 DEF WaveTypes, From, Filled
<1>4. /\ \A i \in 1 .. Len(waveQueue) : waveQueue[i] = Cell(k + i)
      /\ prepared = {Cell(k + i) : i \in 1 .. Filled}
  BY <1>2 DEF From
<1> HIDE DEF Cell
<1>5. \A i \in 1 .. Len(waveQueue) : i \in 1 .. Filled
  BY <1>3
<1>6. \A i, j \in DOMAIN waveQueue : waveQueue[i] = waveQueue[j] => i = j
  <2>1. ASSUME NEW i \in 1 .. Len(waveQueue), NEW j \in 1 .. Len(waveQueue), i <= j,
               Cell(k + i) = Cell(k + j)
        PROVE  i = j
    <3>1. k + i \in Nat /\ k + j \in Nat /\ k + i <= k + j /\ k + j < (k + i) + WriteBuffers
      BY <1>0, <1>3, <2>1
    <3>2. k + i = k + j
      BY <2>1, <3>1, Cells
    <3>. QED BY <3>2
  <2>2. ASSUME NEW i \in 1 .. Len(waveQueue), NEW j \in 1 .. Len(waveQueue) PROVE i <= j \/ j <= i
    BY <1>3
  <2>. QED BY <1>3, <1>4, <2>1, <2>2
<1>7. prepared \subseteq 0 .. WriteBuffers - 1
  <2>1. \A i \in 1 .. Filled : k + i \in Nat
    BY <1>3
  <2>. QED BY <1>4, <2>1, Cells
<1>8. inuse \in -1 .. WriteBuffers + 1 /\ Len(waveQueue) <= WriteBuffers
  <2>1. Len(waveQueue) <= WriteBuffers
    BY <1>0, <1>3
  <2>2. \/ inuse = Len(waveQueue) - 1 \/ inuse = Len(waveQueue) \/ inuse = Len(waveQueue) + 1
    BY <1>1, Zenon DEF Counted
  <2>. QED BY <1>0, <1>3, <2>1, <2>2
<1>9. Wave!TypeOK
  <2>1. /\ rdy \in BOOLEAN /\ pos \in 0 .. WriteBuffers - 1
        /\ waveQueue \in Seq(0 .. WriteBuffers - 1) /\ kicks \in 0 .. Writes
        /\ buf \in [{"main", "driver"} -> 0 .. WriteBuffers - 1]
        /\ step \in [{"main", "driver"} ->
                        {"idle", "write", "take", "fill", "out", "count", "wait", "close", "done"}]
    BY <1>1, Zenon DEF WaveTypes
  <2>. QED BY <1>6, <1>7, <1>8, <2>1, Zenon DEF Wave!TypeOK, Wave!Buffers, Wave!Threads
<1>10. Wave!FillsOwn
  <2>1. ASSUME NEW t \in {"main", "driver"}, step[t] = "fill", NEW i \in DOMAIN waveQueue,
               waveQueue[i] = buf[t]
        PROVE  FALSE
    <3>1. buf[t] \notin prepared
      BY <1>1, <2>1 DEF Alone
    <3>2. waveQueue[i] \in prepared
      BY <1>3, <1>4, <1>5, <2>1
    <3>. QED BY <2>1, <3>1, <3>2
  <2>. QED BY <2>1 DEF Wave!FillsOwn, Wave!Threads
<1>11. Wave!ClosesEmpty
  BY <1>1 DEF Level, Wave!ClosesEmpty
<1>. QED BY <1>9, <1>10, <1>11

-----------------------------------------------------------------------------
(* The internet radio. *)

\* States of the server and what it sends.
RadioState == {"head", "mp3", "meta"} \X Int
RadioByte == {"head", "eoh", "mp3", "len", "meta"} \X Nat

\* At s the server sends b and is then at t.
RadioSends(s, b, t) ==
    \/ s[1] = "head" /\ s[2] > 1 /\ b = <<"head", 0>> /\ t = <<"head", s[2] - 1>>
    \/ s = <<"head", 1>> /\ b = <<"eoh", 0>> /\ t = <<"mp3", MetaInt>>
    \/ s[1] = "mp3" /\ s[2] > 0 /\ b = <<"mp3", 0>> /\ t = <<"mp3", s[2] - 1>>
    \/ s = <<"mp3", 0>> /\ \E k \in MetaSizes : b = <<"len", k>> /\ t = <<"meta", k>>
    \/ s[1] = "meta" /\ s[2] > 0 /\ b = <<"meta", 0>> /\ t = <<"meta", s[2] - 1>>
    \/ s = <<"meta", 0>> /\ b = <<"mp3", 0>> /\ t = <<"mp3", MetaInt - 1>>

\* The bytes w were sent in the states s[1], s[2], ...
RadioRun(s, w) ==
    \A i \in 1 .. Len(w) :
       s[i] \in RadioState /\ s[i + 1] \in RadioState /\ RadioSends(s[i], w[i], s[i + 1])

\* The parser of the body is where the server was at s.
BodyAt(s, sz, k) ==
    \/ s[1] = "mp3" /\ s[2] >= 0 /\ sz = 0 /\ k + s[2] = MetaInt
    \/ s[1] = "meta" /\ s[2] > 0 /\ sz > 0 /\ k + s[2] = sz
    \/ s = <<"meta", 0>> /\ sz = 0 /\ k = 0

\* The source is where the server was at s.
RadioMeets(s, hr, sz, k, h) ==
    /\ hr => MetaInt > 0 /\ BodyAt(s, sz, k)
    /\ ~hr => s[1] = "head" /\ s[2] > 0 /\ h + s[2] = HeadLen /\ sz = 0 /\ k = 0

\* What is on its way takes the source to where the server is.
RadioTypes ==
    /\ conn \in {"resolve", "connect", "up", "wait"} /\ conns \in 1 .. MaxConn
    /\ headRecv \in BOOLEAN /\ metasz \in {0} \cup MetaSizes /\ bytec \in Nat
    /\ sent \in 0 .. MaxSent /\ buffered \in 0 .. HeadLen /\ server \in RadioState
    /\ net \in Seq(RadioByte) /\ bytec + Len(net) <= sent
    /\ metasz > 0 => bytec < metasz

RadioInv ==
    /\ RadioTypes
    /\ conn # "up" => net = <<>>
    /\ conn \in {"resolve", "connect"} =>
           /\ sent = 0 /\ server = <<"head", HeadLen>>
           /\ ~headRecv /\ metasz = 0 /\ bytec = 0 /\ buffered = 0
    /\ conn = "up" =>
           \E s : /\ RadioRun(s, net) /\ s[Len(net) + 1] = server
                  /\ RadioMeets(s[1], headRecv, metasz, bytec, buffered)
    /\ Radio!UsedAsSent

-----------------------------------------------------------------------------
(* Induction, and FoldLeft for the parser of the radio.                     *)

\* Numbers have a least one.
LEMMA LeastNumber ==
    ASSUME NEW T \in SUBSET Nat, T # {} PROVE \E x \in T : \A y \in T : x <= y
<1> DEFINE Less == OpToRel(<, Nat)
<1>1. \A x, y \in Nat : <<x, y>> \in Less <=> x < y
  BY DEF OpToRel
<1>2. IsWellFoundedOn(Less, Nat)
  BY NatLessThanWellFounded
<1> HIDE DEF Less
<1>3. PICK x \in T : \A y \in T : ~ (<<y, x>> \in Less)
  BY <1>2, WFMin, Zenon
<1>4. \A y \in T : ~ (y < x)
  BY <1>1, <1>3
<1>. QED BY <1>4

\* Induction up to a number.
LEMMA StepByStep ==
    ASSUME NEW m \in Nat, NEW T, 0 \in T, \A i \in 0 .. m : i > 0 /\ i - 1 \in T => i \in T
    PROVE  0 .. m \subseteq T
<1> SUFFICES ASSUME NEW z \in 0 .. m, z \notin T PROVE FALSE
  OBVIOUS
<1>1. PICK x \in (0 .. m) \ T : \A y \in (0 .. m) \ T : x <= y
  <2> DEFINE U == (0 .. m) \ T
  <2>1. U \in SUBSET Nat /\ U # {}
    OBVIOUS
  <2> HIDE DEF U
  <2>2. \E x \in U : \A y \in U : x <= y
    BY <2>1, LeastNumber
  <2>. QED BY <2>2 DEF U
<1>2. x > 0 /\ x - 1 \in 0 .. m
  BY <1>1
<1>. QED BY <1>1, <1>2

\* What the parser makes of m bytes w, by the sets of their indices.
ParsedUp(w, m, base, F) ==
    F = [s \in SUBSET (1 .. m) |->
            IF s = {} THEN base ELSE Radio!Parse(F[s \ {Radio!Max(s)}], w[Radio!Max(s)])]

\* There is such a function.
LEMMA ParsesUp ==
    ASSUME NEW m \in Nat, NEW w, NEW base PROVE \E F : ParsedUp(w, m, base, F)
<1> DEFINE U == {k \in 0 .. m : \E F : ParsedUp(w, k, base, F)}
<1>1. 0 \in U
  <2> DEFINE F == [s \in SUBSET (1 .. 0) |-> base]
  <2>1. SUBSET (1 .. 0) = {{}}
    OBVIOUS
  <2>2. ParsedUp(w, 0, base, F)
    BY <2>1 DEF ParsedUp
  <2> HIDE DEF F
  <2>. QED BY <2>2
<1>2. ASSUME NEW k \in 0 .. m, k > 0, k - 1 \in U PROVE k \in U
  <2>1. PICK F : ParsedUp(w, k - 1, base, F)
    BY <1>2
  <2> DEFINE G == [s \in SUBSET (1 .. k) |->
                     IF k \in s THEN Radio!Parse(F[s \ {k}], w[k]) ELSE F[s]]
  <2>2. ASSUME NEW s \in SUBSET (1 .. k)
        PROVE  G[s] = IF s = {} THEN base
                      ELSE Radio!Parse(G[s \ {Radio!Max(s)}], w[Radio!Max(s)])
    <3>1. CASE k \in s
      <4>1. Radio!Max(s) = k
        <5>1. \A x \in s : k >= x
          BY <1>2
        <5>2. \A x \in s : (\A y \in s : x >= y) => x = k
          BY <3>1, <1>2
        <5>. QED BY <3>1, <5>1, <5>2, Zenon DEF Radio!Max
      <4>2. s \ {k} \in SUBSET (1 .. k) /\ k \notin s \ {k} /\ s # {}
        BY <3>1
      <4>3. G[s] = Radio!Parse(F[s \ {k}], w[k]) /\ G[s \ {k}] = F[s \ {k}]
        BY <3>1, <4>2, Zenon
      <4>. QED BY <4>1, <4>2, <4>3, Zenon
    <3>2. CASE k \notin s
      <4>1. s \in SUBSET (1 .. k - 1)
        BY <3>2, <1>2
      <4> DEFINE r == s \ {Radio!Max(s)}
      <4>2. r \in SUBSET (1 .. k - 1) /\ r \in SUBSET (1 .. k) /\ k \notin r
        BY <4>1, <3>2
      <4>3. G[s] = F[s] /\ G[r] = F[r]
        BY <3>2, <4>2, Zenon
      <4>4. F[s] = IF s = {} THEN base ELSE Radio!Parse(F[r], w[Radio!Max(s)])
        BY <2>1, <4>1, Zenon DEF ParsedUp
      <4>. QED BY <4>3, <4>4, Zenon
    <3>. QED BY <3>1, <3>2
  <2>3. ParsedUp(w, k, base, G)
    <3> DEFINE H == [s \in SUBSET (1 .. k) |->
                       IF s = {} THEN base
                       ELSE Radio!Parse(G[s \ {Radio!Max(s)}], w[Radio!Max(s)])]
    <3>1. \A s \in SUBSET (1 .. k) : G[s] = H[s]
      BY <2>2, Zenon
    <3>2. G = H
      BY <3>1, Zenon
    <3>. QED BY <3>2, Zenon DEF ParsedUp
  <2> HIDE DEF G
  <2>. QED BY <2>3
<1>3. m \in U
  <2> HIDE DEF U
  <2>1. 0 .. m \subseteq U
    BY <1>1, <1>2, StepByStep
  <2>. QED BY <2>1
<1>. QED BY <1>3

\* f has the states of the parser after each of m bytes w.
Parses(w, m, base, f) == f[0] = base /\ \A i \in 1 .. m : f[i] = Radio!Parse(f[i - 1], w[i])

\* ParseAll, byte by byte.
LEMMA ParseSteps ==
    ASSUME NEW w, w \in Seq(RadioByte), Radio!ParseAll(w)
    PROVE  \E f : /\ Parses(w, Len(w), Radio!Body, f)
                  /\ metasz' = f[Len(w)].sz /\ bytec' = f[Len(w)].n /\ out' = f[Len(w)].out
<1> DEFINE m == Len(w)
           base == Radio!Body
<1>1. m \in Nat /\ DOMAIN w = 1 .. m
  OBVIOUS
<1> HIDE DEF m
<1>2. PICK F : ParsedUp(w, m, base, F)
  BY <1>1, ParsesUp
<1> DEFINE I[s \in SUBSET DOMAIN w] ==
             IF s = {} THEN Radio!Body ELSE Radio!Parse(I[s \ {Radio!Max(s)}], w[Radio!Max(s)])
<1>3. metasz' = I[DOMAIN w].sz /\ bytec' = I[DOMAIN w].n /\ out' = I[DOMAIN w].out
  BY Zenon DEF Radio!ParseAll, Radio!FoldLeft, Radio!MapThenFoldSet
<1>4. F = [s \in SUBSET DOMAIN w |->
             IF s = {} THEN Radio!Body
             ELSE Radio!Parse(F[s \ {Radio!Max(s)}], w[Radio!Max(s)])]
  BY <1>1, <1>2, Zenon DEF ParsedUp
<1>5. I = [s \in SUBSET DOMAIN w |->
             IF s = {} THEN Radio!Body
             ELSE Radio!Parse(I[s \ {Radio!Max(s)}], w[Radio!Max(s)])]
  BY <1>4, Zenon
<1> HIDE DEF I, base
<1>6. \A s \in SUBSET (1 .. m) :
         I[s] = IF s = {} THEN base ELSE Radio!Parse(I[s \ {Radio!Max(s)}], w[Radio!Max(s)])
  BY <1>1, <1>5, Zenon DEF base
<1> DEFINE f == [k \in 0 .. m |-> I[1 .. k]]
<1>7. I[1 .. 0] = base
  <2>1. 1 .. 0 = {} /\ {} \in SUBSET (1 .. m)
    OBVIOUS
  <2>. QED BY <2>1, <1>6, Zenon
<1>8. ASSUME NEW k \in 1 .. m PROVE I[1 .. k] = Radio!Parse(I[1 .. k - 1], w[k])
  <2>1. Radio!Max(1 .. k) = k
    <3>1. k \in 1 .. k /\ \A x \in 1 .. k : k >= x
      OBVIOUS
    <3>2. \A x \in 1 .. k : (\A y \in 1 .. k : x >= y) => x = k
      OBVIOUS
    <3>. QED BY <3>1, <3>2, Zenon DEF Radio!Max
  <2>2. 1 \in 1 .. k /\ 1 .. k \in SUBSET (1 .. m)
    BY <1>1
  <2>3. (1 .. k) \ {k} = 1 .. k - 1
    OBVIOUS
  <2>4. 1 .. k # {}
    BY <2>2, Zenon
  <2>. QED BY <1>6, <2>1, <2>2, <2>3, <2>4, Zenon
<1>9. f[0] = base /\ f[m] = I[DOMAIN w]
  BY <1>1, <1>7
<1>10. ASSUME NEW i \in 1 .. m PROVE f[i] = Radio!Parse(f[i - 1], w[i])
  <2>1. i \in 0 .. m /\ i - 1 \in 0 .. m
    BY <1>1
  <2>2. f[i] = I[1 .. i] /\ f[i - 1] = I[1 .. i - 1]
    BY <2>1
  <2>. QED BY <1>8, <2>2, Zenon
<1> HIDE DEF f
<1>. QED BY <1>3, <1>9, <1>10, Zenon DEF Parses, m, base

\* A state of the parser after bytes that were all used as what they are.
BodyOK(p, s) ==
    /\ p = [sz |-> p.sz, n |-> p.n, out |-> p.out]
    /\ p.sz \in {0} \cup MetaSizes /\ p.n \in Nat
    /\ BodyAt(s, p.sz, p.n)
    /\ \A pair \in p.out : pair[1] = pair[2]

\* The constants.
LEMMA RadioConstants ==
    /\ HeadLen \in Nat \ {0} /\ MaxSent \in Nat \ {0} /\ MaxConn \in Nat \ {0} /\ MetaInt \in Nat
    /\ MetaSizes \subseteq Nat /\ Named \in BOOLEAN
BY PartsAssumption DEF Radio!RadioStreamAssumption

\* One byte of the body goes where it belongs.
LEMMA ParseKeeps ==
    ASSUME NEW p, NEW s \in RadioState, NEW t \in RadioState, NEW b,
           MetaInt > 0, BodyOK(p, s), RadioSends(s, b, t)
    PROVE  BodyOK(Radio!Parse(p, b), t) /\ Radio!Parse(p, b).n <= p.n + 1
<1> DEFINE q == Radio!Parse(p, b)
           z == p.sz
           k == p.n
           d == s[2]
           e == p.out
           Used(how) == \A pair \in e \cup {<<how, b[1]>>} : pair[1] = pair[2]
<1>0. MetaInt \in Nat /\ MetaSizes \subseteq Nat
  BY RadioConstants
<1>1. /\ z \in {0} \cup MetaSizes /\ z \in Nat /\ k \in Nat /\ BodyAt(s, z, k)
      /\ \A pair \in e : pair[1] = pair[2]
      /\ p = [sz |-> z, n |-> k, out |-> e]
  <2>1. {0} \cup MetaSizes \subseteq Nat
    BY <1>0
  <2>2. z \in {0} \cup MetaSizes
    BY Zenon DEF BodyOK
  <2>3. z \in Nat
    BY <2>1, <2>2
  <2>. QED BY <2>2, <2>3, Zenon DEF BodyOK
<1>2. d \in Int /\ s = <<s[1], d>> /\ s[1] \in {"head", "mp3", "meta"}
  BY DEF RadioState
<1>3. s[1] \in {"mp3", "meta"}
  BY <1>1, <1>2 DEF BodyAt
<1>4. \A how : b[1] = how => Used(how)
  BY <1>1
<1> HIDE DEF Used
<1>5. CASE s[1] = "meta" /\ d > 0
  <2>1. b[1] = "meta" /\ t = <<"meta", d - 1>>
    BY <1>2, <1>5 DEF RadioSends
  <2>2. z > 0 /\ k + d = z
    BY <1>2, <1>5, <1>1 DEF BodyAt
  <2> DEFINE o == e \cup {<<"meta", b[1]>>}
             y == IF k + 1 >= z THEN 0 ELSE z
             x == IF k + 1 >= z THEN 0 ELSE k + 1
  <2>3. q = [sz |-> y, n |-> x, out |-> o]
    BY <2>2, Zenon DEF Radio!Parse
  <2>4. q.sz = y /\ q.n = x /\ q.out = o
    BY <2>3
  <2>5. \A pair \in o : pair[1] = pair[2]
    BY <1>4, <2>1, Zenon DEF Used
  <2>6. y \in {0} \cup MetaSizes /\ x \in Nat /\ x <= k + 1
    BY <1>1
  <2>7. BodyAt(t, y, x)
    BY <1>1, <1>2, <1>5, <2>1, <2>2 DEF BodyAt
  <2>8. q = [sz |-> q.sz, n |-> q.n, out |-> q.out]
    BY <2>3
  <2> HIDE DEF q, o, x, y, z, k
  <2>. QED BY <2>4, <2>5, <2>6, <2>7, <2>8, Zenon DEF BodyOK, q, k
<1>6. CASE s[1] = "mp3" /\ d = 0
  <2>1. PICK j \in MetaSizes : b = <<"len", j>> /\ t = <<"meta", j>>
    BY <1>2, <1>6 DEF RadioSends
  <2>2. z = 0 /\ k = MetaInt
    BY <1>0, <1>1, <1>2, <1>6 DEF BodyAt
  <2> DEFINE o == e \cup {<<"len", b[1]>>}
             y == b[2]
  <2>3. q = [sz |-> y, n |-> 0, out |-> o]
    <3>1. ~(z > 0) /\ ~(k < MetaInt)
      BY <1>0, <2>2
    <3>. QED BY <3>1, Zenon DEF Radio!Parse
  <2>4. q.sz = y /\ q.n = 0 /\ q.out = o
    BY <2>3
  <2>5. b[1] = "len" /\ y = j
    BY <2>1
  <2>6. \A pair \in o : pair[1] = pair[2]
    BY <1>4, <2>5, Zenon DEF Used
  <2>7. y \in {0} \cup MetaSizes /\ 0 \in Nat /\ 0 <= k + 1
    BY <1>1, <2>5
  <2>8. BodyAt(t, y, 0)
    BY <1>0, <2>1, <2>5 DEF BodyAt
  <2>9. q = [sz |-> q.sz, n |-> q.n, out |-> q.out]
    BY <2>3
  <2> HIDE DEF q, o, y, z, k
  <2>. QED BY <2>4, <2>6, <2>7, <2>8, <2>9, Zenon DEF BodyOK, q, k
<1>7. CASE (s[1] = "mp3" /\ d # 0) \/ (s[1] = "meta" /\ ~(d > 0))
  <2>1. z = 0 /\ k < MetaInt /\ (s[1] = "mp3" => k + d = MetaInt /\ d > 0)
        /\ (s[1] = "meta" => d = 0 /\ k = 0)
    BY <1>0, <1>1, <1>2, <1>7 DEF BodyAt
  <2>2. b[1] = "mp3" /\ t[1] = "mp3" /\ k + 1 + t[2] = MetaInt /\ t[2] >= 0
    <3>1. CASE s[1] = "mp3"
      <4>1. b = <<"mp3", 0>> /\ t = <<"mp3", d - 1>>
        BY <1>2, <2>1, <3>1 DEF RadioSends
      <4>. QED BY <1>0, <1>1, <1>2, <2>1, <3>1, <4>1
    <3>2. CASE s[1] = "meta"
      <4>1. b = <<"mp3", 0>> /\ t = <<"mp3", MetaInt - 1>>
        BY <1>2, <2>1, <3>2 DEF RadioSends
      <4>. QED BY <1>0, <1>1, <2>1, <3>2, <4>1
    <3>. QED BY <1>3, <3>1, <3>2
  <2> DEFINE o == e \cup {<<"mp3", b[1]>>}
             x == k + 1
  <2>3. q = [p EXCEPT !.n = x, !.out = o]
    <3>1. ~(z > 0)
      BY <2>1
    <3>. QED BY <2>1, <3>1, Zenon DEF Radio!Parse
  <2>4. q = [sz |-> z, n |-> x, out |-> o]
    <3> HIDE DEF q, o, x, z, k, e
    <3>. QED BY <1>1, <2>3
  <2>5. q.sz = z /\ q.n = x /\ q.out = o
    BY <2>4
  <2>6. q = [sz |-> q.sz, n |-> q.n, out |-> q.out]
    BY <2>4
  <2>7. \A pair \in o : pair[1] = pair[2]
    BY <1>4, <2>2, Zenon DEF Used
  <2>8. x \in Nat /\ x <= k + 1
    BY <1>1
  <2>9. BodyAt(t, z, x)
    BY <2>1, <2>2 DEF BodyAt
  <2> HIDE DEF q, o, x, z, k
  <2>. QED BY <1>1, <2>5, <2>6, <2>7, <2>8, <2>9, Zenon DEF BodyOK, q, k
<1>. QED BY <1>3, <1>5, <1>6, <1>7

\* All bytes of a segment go where they belong.
LEMMA ParseAllKeeps ==
    ASSUME NEW w \in Seq(RadioByte), NEW s, RadioRun(s, w), s[1] \in RadioState, MetaInt > 0,
           metasz \in {0} \cup MetaSizes, bytec \in Nat, BodyAt(s[1], metasz, bytec),
           Radio!ParseAll(w)
    PROVE  /\ metasz' \in {0} \cup MetaSizes /\ bytec' \in Nat /\ bytec' <= bytec + Len(w)
           /\ BodyAt(s[Len(w) + 1], metasz', bytec')
           /\ \A pair \in out' : pair[1] = pair[2]
<1> DEFINE m == Len(w)
<1>1. m \in Nat
  OBVIOUS
<1>2. PICK f : /\ Parses(w, m, Radio!Body, f)
               /\ metasz' = f[m].sz /\ bytec' = f[m].n /\ out' = f[m].out
  BY ParseSteps
<1>3. \A i \in 1 .. m : /\ s[i] \in RadioState /\ s[i + 1] \in RadioState
                        /\ RadioSends(s[i], w[i], s[i + 1])
  BY Zenon DEF RadioRun
<1> HIDE DEF m
<1> DEFINE U == {i \in 0 .. m : BodyOK(f[i], s[i + 1]) /\ f[i].n <= bytec + i}
<1>4. 0 \in U
  <2> DEFINE p == Radio!Body
             one == 0 + 1
             sum == bytec + 0
  <2>1. p = [sz |-> metasz, n |-> bytec, out |-> {}] /\ p.sz = metasz /\ p.n = bytec /\ p.out = {}
    BY DEF Radio!Body
  <2>2. one = 1 /\ sum = bytec /\ bytec <= sum
    OBVIOUS
  <2>3. p = [sz |-> p.sz, n |-> p.n, out |-> p.out] /\ \A pair \in p.out : pair[1] = pair[2]
    BY <2>1
  <2> HIDE DEF p, one, sum
  <2>4. BodyOK(p, s[one]) /\ p.n <= sum
    BY <2>1, <2>2, <2>3, Zenon DEF BodyOK
  <2>5. f[0] = p
    BY <1>2, Zenon DEF Parses, p
  <2>6. 0 \in 0 .. m
    BY <1>1
  <2>. QED BY <2>4, <2>5, <2>6, Zenon DEF one, sum
<1>5. ASSUME NEW i \in 0 .. m, i > 0, i - 1 \in U PROVE i \in U
  <2> DEFINE h == i - 1
             j == i + 1
             p == f[h]
             q == Radio!Parse(p, w[i])
  <2>1. i \in 1 .. m /\ h + 1 = i /\ bytec + h + 1 = bytec + i
    BY <1>1, <1>5
  <2>2. BodyOK(p, s[i]) /\ p.n <= bytec + h
    <3>1. BodyOK(f[i - 1], s[i - 1 + 1]) /\ f[i - 1].n <= bytec + (i - 1)
      BY <1>5
    <3>2. i - 1 + 1 = i
      BY <2>1
    <3>. QED BY <3>1, <3>2
  <2>3. f[i] = q
    BY <1>2, <2>1, Zenon DEF Parses
  <2>4. s[i] \in RadioState /\ s[j] \in RadioState /\ RadioSends(s[i], w[i], s[j])
    BY <1>3, <2>1, Zenon
  <2>5. BodyOK(q, s[j]) /\ q.n <= p.n + 1
    BY <2>2, <2>4, ParseKeeps, Zenon
  <2>6. p.n \in Nat /\ q.n \in Nat
    BY <2>2, <2>5, Zenon DEF BodyOK
  <2> HIDE DEF h, j, q, p
  <2>7. q.n <= bytec + i
    <3> DEFINE x == p.n
               y == q.n
    <3>1. x \in Nat /\ y \in Nat /\ x <= bytec + h /\ y <= x + 1
      BY <2>2, <2>5, <2>6
    <3> HIDE DEF x, y
    <3>2. h \in Int
      BY <2>1 DEF h
    <3>3. y <= bytec + i
      BY <2>1, <3>1, <3>2
    <3>. QED BY <3>3 DEF y
  <2>. QED BY <2>3, <2>5, <2>7, Zenon DEF j
<1>6. m \in U
  <2> HIDE DEF U
  <2>1. 0 .. m \subseteq U
    BY <1>1, <1>4, <1>5, StepByStep
  <2>. QED BY <1>1, <2>1
<1>7. BodyOK(f[m], s[m + 1]) /\ f[m].n <= bytec + m
  BY <1>6
<1>. QED BY <1>2, <1>7, Zenon DEF BodyOK, m

\* The first h bytes are the header, and none after them.
HeadGoes(s, w, h) ==
    /\ \A i \in 0 .. Len(w) : /\ i < h => s[i + 1] = <<"head", h - i>>
                              /\ i = h => s[i + 1] = <<"mp3", MetaInt>>
    /\ \A i \in 1 .. Len(w) : w[i][1] = "eoh" <=> i = h

\* The header goes on for h bytes, and does not come again.
LEMMA HeadRun ==
    ASSUME NEW w \in Seq(RadioByte), NEW s, RadioRun(s, w), NEW h \in Nat \ {0},
           s[1] = <<"head", h>>
    PROVE  HeadGoes(s, w, h)
<1> DEFINE m == Len(w)
           At(i, x) == /\ i < h => x = <<"head", h - i>>
                       /\ i = h => x = <<"mp3", MetaInt>>
                       /\ i > h => x[1] # "head"
           U == {i \in 0 .. m : At(i, s[i + 1])}
<1>1. m \in Nat
  OBVIOUS
<1>2. \A i \in 1 .. m : /\ s[i] \in RadioState /\ s[i + 1] \in RadioState
                        /\ RadioSends(s[i], w[i], s[i + 1])
  BY Zenon DEF RadioRun
<1> HIDE DEF m
<1>3. ASSUME NEW i \in 1 .. m, NEW x, NEW y, NEW b, At(i - 1, x), RadioSends(x, b, y),
             x \in RadioState
      PROVE  At(i, y) /\ (b[1] = "eoh" <=> i = h)
  <2>0. i \in Nat /\ i > 0
    BY <1>1
  <2>1. CASE i < h
    <3>1. x = <<"head", h - (i - 1)>> /\ h - (i - 1) > 1 /\ h - (i - 1) - 1 = h - i
      BY <1>3, <2>0, <2>1
    <3>2. b = <<"head", 0>> /\ y = <<"head", h - (i - 1) - 1>>
      BY <1>3, <3>1 DEF RadioSends
    <3>. QED BY <2>0, <2>1, <3>1, <3>2
  <2>2. CASE i = h
    <3>1. x = <<"head", 1>>
      BY <1>3, <2>0, <2>2
    <3>2. b = <<"eoh", 0>> /\ y = <<"mp3", MetaInt>>
      BY <1>3, <3>1 DEF RadioSends
    <3>. QED BY <2>0, <2>2, <3>2
  <2>3. CASE i > h
    <3>1. x[1] # "head"
      BY <1>3, <2>0, <2>3
    <3>2. b[1] # "eoh" /\ y[1] # "head"
      BY <1>3, <3>1 DEF RadioSends
    <3>. QED BY <2>0, <2>3, <3>2
  <2>. QED BY <2>0, <2>1, <2>2, <2>3
<1>4. 0 \in U
  BY <1>1
<1>5. ASSUME NEW i \in 0 .. m, i > 0, i - 1 \in U PROVE i \in U
  <2>1. i \in 1 .. m /\ i - 1 + 1 = i
    BY <1>1, <1>5
  <2>2. At(i - 1, s[i])
    BY <1>5, <2>1
  <2> HIDE DEF At
  <2>3. At(i, s[i + 1])
    BY <1>2, <1>3, <2>1, <2>2, Zenon
  <2>. QED BY <2>3
<1>6. 0 .. m \subseteq U
  <2> HIDE DEF U
  <2>. QED BY <1>1, <1>4, <1>5, StepByStep
<1>7. ASSUME NEW i \in 1 .. m PROVE w[i][1] = "eoh" <=> i = h
  <2>1. i - 1 \in 0 .. m /\ i - 1 + 1 = i
    BY <1>1
  <2>2. At(i - 1, s[i])
    BY <1>6, <2>1
  <2> HIDE DEF At
  <2>. QED BY <1>2, <1>3, <2>2, Zenon
<1>8. \A i \in 0 .. m : At(i, s[i + 1])
  BY <1>6
<1>. QED BY <1>7, <1>8 DEF HeadGoes, m

\* The rest of the bytes, from the state behind the first k.
LEMMA RunRest ==
    ASSUME NEW w \in Seq(RadioByte), NEW s, RadioRun(s, w), NEW k \in 0 .. Len(w)
    PROVE  /\ SubSeq(w, k + 1, Len(w)) \in Seq(RadioByte)
           /\ Len(SubSeq(w, k + 1, Len(w))) = Len(w) - k
           /\ \E r : /\ RadioRun(r, SubSeq(w, k + 1, Len(w))) /\ r[1] = s[k + 1]
                     /\ r[Len(SubSeq(w, k + 1, Len(w))) + 1] = s[Len(w) + 1]
<1> DEFINE m == Len(w)
           v == SubSeq(w, k + 1, m)
           r == [i \in 1 .. m - k + 1 |-> s[i + k]]
<1>1. m \in Nat /\ k \in 0 .. m
  OBVIOUS
<1>2. v \in Seq(RadioByte) /\ Len(v) = m - k /\ \A i \in 1 .. m - k : v[i] = w[i + k]
  OBVIOUS
<1>3. \A i \in 1 .. m : /\ s[i] \in RadioState /\ s[i + 1] \in RadioState
                        /\ RadioSends(s[i], w[i], s[i + 1])
  BY Zenon DEF RadioRun
<1> HIDE DEF m, v
<1>4. /\ \A i \in 1 .. m - k : r[i] = s[i + k] /\ r[i + 1] = s[i + k + 1] /\ i + k \in 1 .. m
      /\ r[1] = s[k + 1] /\ r[m - k + 1] = s[m + 1]
  <2>1. \A i \in 1 .. m - k : /\ i \in 1 .. m - k + 1 /\ i + 1 \in 1 .. m - k + 1
                              /\ i + 1 + k = i + k + 1 /\ i + k \in 1 .. m
    BY <1>1
  <2>2. /\ 1 \in 1 .. m - k + 1 /\ m - k + 1 \in 1 .. m - k + 1
        /\ m - k + 1 + k = m + 1 /\ 1 + k = k + 1
    BY <1>1
  <2>. QED BY <2>1, <2>2
<1> HIDE DEF r
<1>5. RadioRun(r, v)
  <2> SUFFICES ASSUME NEW i \in 1 .. m - k
               PROVE  /\ r[i] \in RadioState /\ r[i + 1] \in RadioState
                      /\ RadioSends(r[i], v[i], r[i + 1])
    BY <1>2, Zenon DEF RadioRun
  <2> DEFINE j == i + k
             l == i + 1
             y == j + 1
  <2>1. r[i] = s[j] /\ r[l] = s[y] /\ j \in 1 .. m /\ v[i] = w[j]
    BY <1>2, <1>4
  <2>2. s[j] \in RadioState /\ s[y] \in RadioState /\ RadioSends(s[j], w[j], s[y])
    BY <1>3, <2>1, Zenon
  <2> HIDE DEF j, y, l
  <2>3. r[i] \in RadioState /\ r[l] \in RadioState /\ RadioSends(r[i], v[i], r[l])
    BY <2>1, <2>2, Zenon
  <2>. QED BY <2>3, Zenon DEF l
<1>6. r[Len(v) + 1] = s[m + 1]
  BY <1>2, <1>4
<1>7. \E x : RadioRun(x, v) /\ x[1] = s[k + 1] /\ x[Len(v) + 1] = s[m + 1]
  BY <1>4, <1>5, <1>6, Zenon
<1>. QED BY <1>2, <1>7, Zenon DEF m, v

\* The first bytes.
LEMMA RunPart ==
    ASSUME NEW w \in Seq(RadioByte), NEW s, RadioRun(s, w), NEW k \in 0 .. Len(w)
    PROVE  LET v == SubSeq(w, 1, k)
           IN  /\ v \in Seq(RadioByte) /\ Len(v) = k /\ RadioRun(s, v)
               /\ \A i \in 1 .. k : v[i] = w[i]
<1> DEFINE v == SubSeq(w, 1, k)
<1>1. v \in Seq(RadioByte) /\ Len(v) = k /\ \A i \in 1 .. k : v[i] = w[i] /\ i \in 1 .. Len(w)
  OBVIOUS
<1> HIDE DEF v
<1>. QED BY <1>1, Zenon DEF RadioRun, v

\* A server that begins.
LEMMA RunEmpty ==
    ASSUME NEW x \in RadioState, NEW hr \in BOOLEAN, NEW z, NEW k, NEW h,
           RadioMeets(x, hr, z, k, h)
    PROVE  \E s : /\ RadioRun(s, <<>>) /\ s[Len(<<>>) + 1] = x
                  /\ RadioMeets(s[1], hr, z, k, h)
<1> DEFINE s == <<x>>
<1>1. s[1] = x /\ Len(<<>>) + 1 = 1 /\ 1 .. Len(<<>>) = {}
  OBVIOUS
<1> HIDE DEF s
<1>2. RadioRun(s, <<>>)
  BY <1>1, Zenon DEF RadioRun
<1>. QED BY <1>1, <1>2, Zenon

\* The connection is made, fails or is tried again.
LEMMA RadioConnects ==
    ASSUME RadioInv, Radio!Resolved \/ Radio!Established \/ Radio!Closed \/ Radio!Reconnect
    PROVE  RadioInv'
<1>0. HeadLen \in Nat \ {0} /\ MaxConn \in Nat \ {0} /\ Named \in BOOLEAN
  BY RadioConstants
<1>1. RadioTypes /\ Radio!UsedAsSent
  BY Zenon DEF RadioInv
<1>2. CASE Radio!Fail
  <2>1. /\ conn' = "wait" /\ net' = <<>> /\ conns' = conns /\ sent' = sent /\ server' = server
        /\ metasz' = metasz /\ bytec' = bytec /\ buffered' = buffered /\ out' = {}
    BY <1>2 DEF Radio!Fail, Radio!peer, Radio!parser
  <2>2. headRecv' = headRecv
    BY <1>2, Zenon DEF Radio!Fail, Radio!parser
  <2>3. headRecv' \in BOOLEAN
    BY <1>1, <2>2, Zenon DEF RadioTypes
  <2>4. RadioTypes'
    <3>1. net' \in Seq(RadioByte) /\ bytec' + Len(net') <= sent'
      BY <1>1, <2>1 DEF RadioTypes
    <3>. QED BY <1>1, <2>1, <2>3, <3>1, Zenon DEF RadioTypes
  <2>5. Radio!UsedAsSent'
    BY <2>1 DEF Radio!UsedAsSent
  <2>6. conn' # "up" /\ conn' \notin {"resolve", "connect"}
    BY <2>1
  <2>. QED BY <2>1, <2>4, <2>5, <2>6, Zenon DEF RadioInv
<1>3. CASE conn = "resolve" /\ conn' = "connect" /\ UNCHANGED <<conns, net, sent, server,
                                               headRecv, metasz, bytec, buffered, out>>
  <2>1. /\ conns' = conns /\ net' = net /\ sent' = sent /\ server' = server
        /\ headRecv' = headRecv /\ metasz' = metasz /\ bytec' = bytec /\ buffered' = buffered
        /\ out' = out
    BY <1>3, Zenon
  <2>2. RadioTypes'
    BY <1>1, <1>3, <2>1, Zenon DEF RadioTypes
  <2>3. Radio!UsedAsSent'
    BY <1>1, <2>1, Zenon DEF Radio!UsedAsSent
  <2>4. conn # "up" /\ conn' # "up" /\ conn \in {"resolve", "connect"}
    BY <1>3
  <2>. QED BY <2>1, <2>2, <2>3, <2>4, Zenon DEF RadioInv
<1>4. CASE Radio!Established
  <2>1. /\ conns' = conns /\ net' = net /\ sent' = sent /\ server' = server
        /\ headRecv' = headRecv /\ metasz' = metasz /\ bytec' = bytec /\ buffered' = buffered
        /\ out' = out /\ conn = "connect" /\ conn' = "up"
    BY <1>4, Zenon DEF Radio!Established, Radio!peer, Radio!parser
  <2>2. RadioTypes'
    BY <1>1, <2>1, Zenon DEF RadioTypes
  <2>3. Radio!UsedAsSent'
    BY <1>1, <2>1, Zenon DEF Radio!UsedAsSent
  <2>4. conn # "up" /\ conn \in {"resolve", "connect"} /\ conn' \notin {"resolve", "connect"}
    BY <2>1
  <2>5. /\ net' = <<>> /\ server = <<"head", HeadLen>> /\ ~headRecv /\ metasz = 0 /\ bytec = 0
        /\ buffered = 0
    BY <2>1, <2>4, Zenon DEF RadioInv
  <2>6. RadioMeets(server, headRecv, metasz, bytec, buffered)
    BY <1>0, <2>5 DEF RadioMeets
  <2>7. server \in RadioState /\ headRecv \in BOOLEAN
    BY <1>1, Zenon DEF RadioTypes
  <2>8. \E s : /\ RadioRun(s, <<>>) /\ s[Len(<<>>) + 1] = server
               /\ RadioMeets(s[1], headRecv, metasz, bytec, buffered)
    BY <2>6, <2>7, RunEmpty, Zenon
  <2>. QED BY <2>1, <2>2, <2>3, <2>4, <2>5, <2>8, Zenon DEF RadioInv
<1>5. CASE Radio!Reconnect
  <2>1. /\ conn' \in {"resolve", "connect", "wait"} /\ conns < MaxConn /\ conns' = conns + 1
        /\ sent' = 0 /\ server' = <<"head", HeadLen>> /\ net' = <<>> /\ out' = {}
        /\ metasz' = 0 /\ bytec' = 0 /\ buffered' = 0
    BY <1>5 DEF Radio!Reconnect, Radio!Start
  <2>2. headRecv' = FALSE
    BY <1>5, Zenon DEF Radio!Reconnect
  <2>3. /\ conns' \in 1 .. MaxConn /\ net' \in Seq(RadioByte) /\ bytec' + Len(net') <= sent'
        /\ metasz' \in {0} \cup MetaSizes /\ bytec' \in Nat /\ sent' \in 0 .. MaxSent
        /\ buffered' \in 0 .. HeadLen /\ ~(metasz' > 0)
        /\ conn' \in {"resolve", "connect", "up", "wait"}
    BY <1>0, <1>1, <2>1, RadioConstants DEF RadioTypes
  <2>4. server' \in RadioState
    BY <1>0, <2>1 DEF RadioState
  <2>5. RadioTypes'
    BY <2>2, <2>3, <2>4, Zenon DEF RadioTypes
  <2>6. Radio!UsedAsSent' /\ conn' # "up"
    BY <2>1 DEF Radio!UsedAsSent
  <2>. QED BY <2>1, <2>2, <2>5, <2>6, Zenon DEF RadioInv
<1>6. Radio!Resolved => Radio!Fail \/ (conn = "resolve" /\ conn' = "connect" /\
                          UNCHANGED <<conns, net, sent, server, headRecv, metasz, bytec,
                                      buffered, out>>)
  BY DEF Radio!Resolved, Radio!peer, Radio!parser
<1>7. Radio!Closed => Radio!Fail
  BY Zenon DEF Radio!Closed
<1>. QED BY <1>2, <1>3, <1>4, <1>5, <1>6, <1>7, Zenon

\* The server sends a byte.
LEMMA RadioServes ==
    ASSUME RadioInv, Radio!Server
    PROVE  RadioInv'
<1>0. MetaSizes \subseteq Nat /\ MetaInt \in Nat
  BY RadioConstants
<1>1. RadioTypes /\ Radio!UsedAsSent
  BY Zenon DEF RadioInv
<1>2. /\ conn = "up" /\ conn' = conn /\ conns' = conns /\ sent < MaxSent
      /\ headRecv' = headRecv /\ metasz' = metasz /\ bytec' = bytec /\ buffered' = buffered
      /\ out' = out
  BY Zenon DEF Radio!Server, Radio!parser
<1>3. PICK b : /\ net' = Append(net, b) /\ sent' = sent + 1
               /\ RadioSends(server, b, server') /\ b \in RadioByte /\ server' \in RadioState
  <2>0. server \in RadioState
    BY <1>1, Zenon DEF RadioTypes
  <2>1. ASSUME NEW b, NEW t, Radio!Send(b, t), RadioSends(server, b, t), b \in RadioByte,
               t \in RadioState
        PROVE  \E c : /\ net' = Append(net, c) /\ sent' = sent + 1
                      /\ RadioSends(server, c, server') /\ c \in RadioByte /\ server' \in RadioState
    BY <2>1, Zenon DEF Radio!Send
  <2>2. /\ <<"head", 0>> \in RadioByte /\ <<"eoh", 0>> \in RadioByte /\ <<"mp3", 0>> \in RadioByte
        /\ <<"meta", 0>> \in RadioByte /\ \A k \in MetaSizes : <<"len", k>> \in RadioByte
        /\ <<"mp3", MetaInt>> \in RadioState /\ <<"mp3", MetaInt - 1>> \in RadioState
        /\ \A k \in MetaSizes : <<"meta", k>> \in RadioState
        /\ <<"head", server[2] - 1>> \in RadioState /\ <<"mp3", server[2] - 1>> \in RadioState
        /\ <<"meta", server[2] - 1>> \in RadioState
    BY <1>0, <2>0 DEF RadioByte, RadioState
  <2>. QED BY <2>1, <2>2, Zenon DEF Radio!Server, RadioSends
<1>4. PICK s : /\ RadioRun(s, net) /\ s[Len(net) + 1] = server
               /\ RadioMeets(s[1], headRecv, metasz, bytec, buffered)
  BY <1>2, Zenon DEF RadioInv
<1> DEFINE m == Len(net)
           v == Append(net, b)
           r == [i \in 1 .. m + 2 |-> IF i <= m + 1 THEN s[i] ELSE server']
<1>5. m \in Nat /\ net \in Seq(RadioByte) /\ server \in RadioState
  <2>1. net \in Seq(RadioByte) /\ server \in RadioState
    BY <1>1, Zenon DEF RadioTypes
  <2>. QED BY <2>1
<1>6. v \in Seq(RadioByte) /\ Len(v) = m + 1 /\ v[m + 1] = b /\ \A i \in 1 .. m : v[i] = net[i]
  BY <1>3, <1>5
<1> HIDE DEF v, m
<1>7. /\ r[1] = s[1] /\ r[m + 1] = s[m + 1] /\ r[m + 2] = server'
      /\ \A i \in 1 .. m : r[i] = s[i] /\ r[i + 1] = s[i + 1]
  BY <1>5
<1> HIDE DEF r
<1>8. RadioRun(r, v)
  <2>1. ASSUME NEW i \in 1 .. m
        PROVE  /\ r[i] \in RadioState /\ r[i + 1] \in RadioState
               /\ RadioSends(r[i], v[i], r[i + 1])
    BY <1>4, <1>6, <1>7, Zenon DEF RadioRun, m
  <2>2. /\ r[m + 1] \in RadioState /\ r[m + 1 + 1] \in RadioState
        /\ RadioSends(r[m + 1], v[m + 1], r[m + 1 + 1])
    <3>1. m + 1 + 1 = m + 2 /\ s[m + 1] = server
      BY <1>4, <1>5 DEF m
    <3>. QED BY <1>3, <1>5, <1>6, <1>7, <3>1
  <2>3. \A i \in 1 .. Len(v) : i \in 1 .. m \/ i = m + 1
    BY <1>5, <1>6
  <2>. QED BY <2>1, <2>2, <2>3, Zenon DEF RadioRun
<1>9. r[Len(v) + 1] = server'
  <2>1. Len(v) + 1 = m + 2
    BY <1>5, <1>6
  <2>. QED BY <1>7, <2>1
<1>10. \E x : /\ RadioRun(x, v) /\ x[Len(v) + 1] = server'
              /\ RadioMeets(x[1], headRecv, metasz, bytec, buffered)
  BY <1>4, <1>7, <1>8, <1>9, Zenon
<1>11. net' = v
  BY <1>3, Zenon DEF v
<1>12. RadioTypes'
  <2>1. bytec' + Len(net') <= sent' /\ sent' \in 0 .. MaxSent /\ net' \in Seq(RadioByte)
    <3>1. /\ bytec \in Nat /\ sent \in 0 .. MaxSent /\ bytec + m <= sent /\ MaxSent \in Nat
      BY <1>1, RadioConstants DEF RadioTypes, m
    <3>2. bytec' = bytec /\ sent' = sent + 1 /\ Len(net') = m + 1
      BY <1>2, <1>3, <1>6, <1>11
    <3>. QED BY <1>2, <1>5, <1>6, <1>11, <3>1, <3>2
  <2>. QED BY <1>1, <1>2, <1>3, <2>1, Zenon DEF RadioTypes
<1>13. Radio!UsedAsSent'
  BY <1>1, <1>2, Zenon DEF Radio!UsedAsSent
<1>14. conn' = "up" /\ conn' \notin {"resolve", "connect"}
  BY <1>2
<1>. QED BY <1>2, <1>10, <1>11, <1>12, <1>13, <1>14, Zenon DEF RadioInv

\* What a segment leaves on its way.
LEMMA SegmentLeaves ==
    ASSUME RadioInv, NEW k \in Nat \ {0}, Radio!Segment(k), Radio!Keep(k)
    PROVE  /\ conn' = "up" /\ conns' = conns /\ sent' = sent /\ server' = server
           /\ net' \in Seq(RadioByte) /\ k <= Len(net) /\ Len(net') = Len(net) - k
           /\ \E s : /\ RadioRun(s, net) /\ RadioMeets(s[1], headRecv, metasz, bytec, buffered)
                     /\ \E r : /\ RadioRun(r, net') /\ r[1] = s[k + 1]
                               /\ r[Len(net') + 1] = server'
<1>1. /\ conn = "up" /\ conn' = conn /\ k <= Len(net) /\ net' = SubSeq(net, k + 1, Len(net))
      /\ conns' = conns /\ sent' = sent /\ server' = server
  BY Zenon DEF Radio!Segment, Radio!Keep, Radio!peer
<1>2. net \in Seq(RadioByte)
  BY Zenon DEF RadioInv, RadioTypes
<1>3. k \in 0 .. Len(net)
  BY <1>1, <1>2
<1>4. PICK s : /\ RadioRun(s, net) /\ s[Len(net) + 1] = server
               /\ RadioMeets(s[1], headRecv, metasz, bytec, buffered)
  BY <1>1, Zenon DEF RadioInv
<1>5. /\ net' \in Seq(RadioByte) /\ Len(net') = Len(net) - k
      /\ \E r : /\ RadioRun(r, net') /\ r[1] = s[k + 1] /\ r[Len(net') + 1] = s[Len(net) + 1]
  <2> DEFINE v == SubSeq(net, k + 1, Len(net))
  <2>1. /\ v \in Seq(RadioByte) /\ Len(v) = Len(net) - k
        /\ \E r : /\ RadioRun(r, v) /\ r[1] = s[k + 1] /\ r[Len(v) + 1] = s[Len(net) + 1]
    BY <1>2, <1>3, <1>4, RunRest, Zenon
  <2>2. net' = v
    BY <1>1, Zenon
  <2> HIDE DEF v
  <2>. QED BY <2>1, <2>2, Zenon
<1>. QED BY <1>1, <1>4, <1>5, Zenon

\* After a segment, from the state behind it.
LEMMA SegmentKeeps ==
    ASSUME RadioInv, conn' = "up", conns' = conns, sent' = sent, server' = server,
           net' \in Seq(RadioByte), NEW k \in Nat, k <= Len(net), Len(net') = Len(net) - k,
           headRecv' \in BOOLEAN, metasz' \in {0} \cup MetaSizes, bytec' \in Nat,
           bytec' <= bytec + k, buffered' \in 0 .. HeadLen,
           NEW r, RadioRun(r, net'), r[Len(net') + 1] = server',
           RadioMeets(r[1], headRecv', metasz', bytec', buffered'),
           \A pair \in out' : pair[1] = pair[2]
    PROVE  RadioInv'
<1>1. RadioTypes
  BY Zenon DEF RadioInv
<1>2. bytec' + Len(net') <= sent'
  <2> DEFINE m == Len(net)
             l == Len(net')
             x == bytec
             y == bytec'
             z == sent
  <2>1. m \in Nat /\ l = m - k /\ x \in Nat /\ y \in Nat /\ z \in Nat /\ x + m <= z /\ y <= x + k
    BY <1>1, RadioConstants DEF RadioTypes
  <2>2. sent' = z
    OBVIOUS
  <2> HIDE DEF m, l, x, y, z
  <2>3. y + l <= z
    BY <2>1
  <2>. QED BY <2>2, <2>3 DEF y, l
<1>3. metasz' > 0 => bytec' < metasz'
  <2>1. CASE headRecv'
    <3> DEFINE x == r[1]
               z == metasz'
               y == bytec'
    <3>1. BodyAt(x, z, y)
      BY <2>1, Zenon DEF RadioMeets
    <3>2. z \in Nat /\ y \in Nat
      BY RadioConstants
    <3>3. x[2] \in Int
      <4>1. x \in RadioState
        <5>1. CASE net' = <<>>
          <6>1. Len(net') + 1 = 1
            BY <5>1
          <6>2. x = server
            BY <6>1
          <6>. QED BY <1>1, <6>2, Zenon DEF RadioTypes
        <5>2. CASE net' # <<>>
          <6>1. 1 \in 1 .. Len(net')
            BY <5>2
          <6>. QED BY <6>1, Zenon DEF RadioRun
        <5>. QED BY <5>1, <5>2
      <4>. QED BY <4>1 DEF RadioState
    <3> HIDE DEF x, y, z
    <3>4. z > 0 => y < z
      BY <3>1, <3>2, <3>3 DEF BodyAt
    <3>. QED BY <3>4 DEF y, z
  <2>2. CASE ~headRecv'
    <3>1. metasz' = 0
      BY <2>2, Zenon DEF RadioMeets
    <3>. QED BY <3>1
  <2>. QED BY <2>1, <2>2
<1>4. RadioTypes'
  <2>1. conn' \in {"resolve", "connect", "up", "wait"}
    OBVIOUS
  <2>. QED BY <1>1, <1>2, <1>3, <2>1, Zenon DEF RadioTypes
<1>5. conn' \notin {"resolve", "connect"} /\ ~(conn' # "up")
  OBVIOUS
<1>. QED BY <1>4, <1>5, Zenon DEF RadioInv, Radio!UsedAsSent

\* A segment of k bytes comes.
LEMMA RadioReceives ==
    ASSUME RadioInv, NEW k \in Nat \ {0},
           Radio!Header(k) \/ Radio!NoInterval(k) \/ Radio!EndOfHeader(k) \/ Radio!Data(k)
    PROVE  RadioInv'
<1>0. HeadLen \in Nat \ {0} /\ MetaInt \in Nat /\ MetaSizes \subseteq Nat
  BY RadioConstants
<1>1. /\ RadioTypes /\ net \in Seq(RadioByte) /\ headRecv \in BOOLEAN
      /\ bytec \in Nat /\ metasz \in {0} \cup MetaSizes /\ buffered \in 0 .. HeadLen
  BY Zenon DEF RadioInv, RadioTypes
<1> DEFINE seg == SubSeq(net, 1, k)
           h == HeadLen - buffered
           e == Radio!HeadIn(seg)
\* The header, as far as it comes in this segment.
<1>2. ASSUME ~headRecv, k <= Len(net), NEW s, RadioRun(s, net),
             RadioMeets(s[1], headRecv, metasz, bytec, buffered), s[1] \in RadioState
      PROVE  /\ h \in Nat \ {0} /\ metasz = 0 /\ bytec = 0
             /\ Radio!Complete(seg) => h <= k /\ e = h /\ s[h + 1] = <<"mp3", MetaInt>>
             /\ ~Radio!Complete(seg) => k < h /\ s[k + 1] = <<"head", h - k>>
  <2>1. /\ s[1][1] = "head" /\ s[1][2] > 0 /\ buffered + s[1][2] = HeadLen /\ metasz = 0
        /\ bytec = 0
    BY <1>2, Zenon DEF RadioMeets
  <2>2. s[1] = <<"head", h>> /\ h \in Nat \ {0}
    BY <1>0, <1>1, <1>2, <2>1 DEF RadioState
  <2> HIDE DEF h
  <2>3. k \in 0 .. Len(net)
    BY <1>2
  <2>4. /\ seg \in Seq(RadioByte) /\ Len(seg) = k /\ RadioRun(s, seg)
    BY <1>1, <1>2, <2>3, RunPart, Zenon
  <2> HIDE DEF seg
  <2>5. DOMAIN seg = 1 .. k /\ seg # <<>>
    <3>1. DOMAIN seg = 1 .. Len(seg)
      BY <2>4
    <3>2. 1 \in 1 .. k
      OBVIOUS
    <3>3. DOMAIN seg = 1 .. k
      BY <2>4, <3>1, Zenon
    <3>. QED BY <3>2, <3>3
  <2>6. /\ \A i \in 0 .. k : /\ i < h => s[i + 1] = <<"head", h - i>>
                             /\ i = h => s[i + 1] = <<"mp3", MetaInt>>
        /\ \A i \in 1 .. k : seg[i][1] = "eoh" <=> i = h
    <3>1. HeadGoes(s, seg, h)
      BY <2>2, <2>4, HeadRun, Zenon
    <3>. QED BY <2>4, <3>1, Zenon DEF HeadGoes
  <2>7. CASE h <= k
    <3>1. h \in DOMAIN seg /\ h \in 0 .. k
      BY <2>2, <2>5, <2>7
    <3>2. \A i \in DOMAIN seg : seg[i][1] = "eoh" <=> i = h
      BY <2>5, <2>6, Zenon
    <3>3. e = h
      <4>1. e = CHOOSE i \in DOMAIN seg : seg[i][1] = "eoh"
        BY <3>1, <3>2, Zenon DEF Radio!HeadIn
      <4>. QED BY <3>1, <3>2, <4>1, Zenon
    <3>4. Radio!Complete(seg)
      BY <2>5, <3>1, <3>2, <3>3, Zenon DEF Radio!Complete
    <3>5. s[h + 1] = <<"mp3", MetaInt>>
      BY <2>6, <3>1, Zenon
    <3>. QED BY <2>1, <2>2, <2>7, <3>3, <3>4, <3>5, Zenon
  <2>8. CASE ~(h <= k)
    <3>1. k < h /\ k \in 0 .. k /\ k \in 1 .. k /\ ~(\E i \in 1 .. k : i = h)
      BY <2>2, <2>8
    <3>2. ~(\E i \in DOMAIN seg : seg[i][1] = "eoh")
      BY <2>5, <2>6, <3>1, Zenon
    <3>3. e = k
      BY <2>4, <3>2, Zenon DEF Radio!HeadIn
    <3>4. ~Radio!Complete(seg)
      BY <2>5, <3>1, <3>2, <3>3, Zenon DEF Radio!Complete
    <3>5. s[k + 1] = <<"head", h - k>>
      BY <2>6, <3>1, Zenon
    <3>. QED BY <2>1, <2>2, <3>1, <3>4, <3>5, Zenon
  <2>. QED BY <2>7, <2>8
\* The first state is one of the server.
<1>3. ASSUME NEW s, RadioRun(s, net), k <= Len(net)
      PROVE  s[1] \in RadioState
  <2>1. 1 \in 1 .. Len(net)
    BY <1>1, <1>3
  <2>. QED BY <1>3, <2>1, Zenon DEF RadioRun
<1> HIDE DEF seg, h, e
<1>4. CASE Radio!Header(k)
  <2>1. /\ ~headRecv /\ ~Radio!Complete(seg) /\ headRecv' = headRecv /\ metasz' = metasz
        /\ bytec' = bytec /\ buffered' = buffered + k /\ out' = {}
        /\ Radio!Segment(k) /\ Radio!Keep(k)
    BY <1>4, Zenon DEF Radio!Header, seg
  <2>2. /\ conn' = "up" /\ conns' = conns /\ sent' = sent /\ server' = server
        /\ net' \in Seq(RadioByte) /\ k <= Len(net) /\ Len(net') = Len(net) - k
        /\ \E s : /\ RadioRun(s, net) /\ RadioMeets(s[1], headRecv, metasz, bytec, buffered)
                  /\ \E r : /\ RadioRun(r, net') /\ r[1] = s[k + 1]
                            /\ r[Len(net') + 1] = server'
    BY <2>1, SegmentLeaves, Zenon
  <2>3. PICK s : /\ RadioRun(s, net) /\ RadioMeets(s[1], headRecv, metasz, bytec, buffered)
                 /\ \E r : /\ RadioRun(r, net') /\ r[1] = s[k + 1]
                           /\ r[Len(net') + 1] = server'
    BY <2>2, Zenon
  <2>4. PICK r : RadioRun(r, net') /\ r[1] = s[k + 1] /\ r[Len(net') + 1] = server'
    BY <2>3, Zenon
  <2>5. /\ h \in Nat \ {0} /\ metasz = 0 /\ bytec = 0 /\ k < h /\ s[k + 1] = <<"head", h - k>>
    BY <1>2, <1>3, <2>1, <2>2, <2>3, Zenon
  <2>6. /\ buffered' \in 0 .. HeadLen /\ bytec' \in Nat /\ bytec' <= bytec + k
        /\ metasz' = 0 /\ bytec' = 0
    BY <1>0, <1>1, <2>1, <2>5 DEF h
  <2>7. RadioMeets(r[1], headRecv', metasz', bytec', buffered')
    <3>1. r[1][1] = "head" /\ r[1][2] > 0 /\ buffered' + r[1][2] = HeadLen
      BY <1>0, <1>1, <2>1, <2>4, <2>5 DEF h
    <3>. QED BY <2>1, <2>6, <3>1, Zenon DEF RadioMeets
  <2>8. headRecv' \in BOOLEAN /\ metasz' \in {0} \cup MetaSizes
    BY <1>1, <2>1, Zenon
  <2>9. k \in Nat /\ \A pair \in out' : pair[1] = pair[2]
    BY <2>1
  <2>. QED BY <2>2, <2>4, <2>6, <2>7, <2>8, <2>9, SegmentKeeps, Zenon
<1>5. CASE Radio!NoInterval(k)
  <2>1. /\ conn' = "wait" /\ net' = <<>> /\ headRecv' = TRUE /\ metasz' = metasz /\ bytec' = bytec
        /\ buffered' = buffered /\ out' = {} /\ conns' = conns /\ sent' = sent /\ server' = server
    BY <1>5, Zenon DEF Radio!NoInterval, Radio!Segment, Radio!peer
  <2>2. net' \in Seq(RadioByte) /\ bytec' + Len(net') <= sent'
    BY <1>1, <2>1 DEF RadioTypes
  <2>3. headRecv' \in BOOLEAN
    BY <2>1, Zenon
  <2>4. conn' # "up" /\ conn' \notin {"resolve", "connect"}
        /\ conn' \in {"resolve", "connect", "up", "wait"}
    BY <2>1
  <2>5. RadioTypes'
    BY <1>1, <2>1, <2>2, <2>3, <2>4, Zenon DEF RadioTypes
  <2>6. Radio!UsedAsSent'
    BY <2>1 DEF Radio!UsedAsSent
  <2>. QED BY <2>1, <2>4, <2>5, <2>6, Zenon DEF RadioInv
<1>6. CASE Radio!EndOfHeader(k)
  <2> DEFINE w == SubSeq(seg, e + 1, k)
  <2>1. /\ ~headRecv /\ Radio!Complete(seg) /\ MetaInt # 0 /\ headRecv' = TRUE
        /\ buffered' = buffered + e /\ Radio!ParseAll(w)
        /\ Radio!Segment(k) /\ Radio!Keep(k)
    BY <1>6, Zenon DEF Radio!EndOfHeader, seg, e
  <2>2. /\ conn' = "up" /\ conns' = conns /\ sent' = sent /\ server' = server
        /\ net' \in Seq(RadioByte) /\ k <= Len(net) /\ Len(net') = Len(net) - k
        /\ \E s : /\ RadioRun(s, net) /\ RadioMeets(s[1], headRecv, metasz, bytec, buffered)
                  /\ \E r : /\ RadioRun(r, net') /\ r[1] = s[k + 1]
                            /\ r[Len(net') + 1] = server'
    BY <2>1, SegmentLeaves, Zenon
  <2>3. PICK s : /\ RadioRun(s, net) /\ RadioMeets(s[1], headRecv, metasz, bytec, buffered)
                 /\ \E r : /\ RadioRun(r, net') /\ r[1] = s[k + 1]
                           /\ r[Len(net') + 1] = server'
    BY <2>2, Zenon
  <2>4. PICK r : RadioRun(r, net') /\ r[1] = s[k + 1] /\ r[Len(net') + 1] = server'
    BY <2>3, Zenon
  <2>5. /\ h \in Nat \ {0} /\ metasz = 0 /\ bytec = 0 /\ h <= k /\ e = h
        /\ s[h + 1] = <<"mp3", MetaInt>>
    BY <1>2, <1>3, <2>1, <2>2, <2>3, Zenon
  <2>6. k \in 0 .. Len(net) /\ h \in 0 .. k
    BY <2>2, <2>5
  <2>7. seg \in Seq(RadioByte) /\ Len(seg) = k /\ RadioRun(s, seg)
    BY <1>1, <2>3, <2>6, RunPart, Zenon DEF seg
  <2>15. /\ w \in Seq(RadioByte) /\ Len(w) = k - h
         /\ \E x : RadioRun(x, w) /\ x[1] = s[h + 1] /\ x[Len(w) + 1] = s[k + 1]
    <3> DEFINE v == SubSeq(seg, h + 1, Len(seg))
    <3>1. h \in 0 .. Len(seg)
      BY <2>6, <2>7, Zenon
    <3>2. /\ v \in Seq(RadioByte) /\ Len(v) = Len(seg) - h
          /\ \E x : RadioRun(x, v) /\ x[1] = s[h + 1] /\ x[Len(v) + 1] = s[Len(seg) + 1]
      BY <2>7, <3>1, RunRest, Zenon
    <3>3. w = v
      BY <2>5, <2>7, Zenon
    <3> HIDE DEF v, w
    <3>. QED BY <2>7, <3>2, <3>3, Zenon
  <2> HIDE DEF w
  <2>8. PICK x : RadioRun(x, w) /\ x[1] = s[h + 1] /\ x[Len(w) + 1] = s[k + 1]
    BY <2>15, Zenon
  <2>9. w \in Seq(RadioByte) /\ Len(w) = k - h
    BY <2>15, Zenon
  <2>10. /\ x[1] \in RadioState /\ MetaInt > 0 /\ BodyAt(x[1], metasz, bytec)
    BY <1>0, <2>1, <2>5, <2>8 DEF RadioState, BodyAt
  <2>11. /\ metasz' \in {0} \cup MetaSizes /\ bytec' \in Nat /\ bytec' <= bytec + Len(w)
         /\ BodyAt(x[Len(w) + 1], metasz', bytec')
         /\ \A pair \in out' : pair[1] = pair[2]
    BY <1>1, <2>1, <2>8, <2>9, <2>10, ParseAllKeeps, Zenon
  <2>12. bytec' <= bytec + k /\ buffered' \in 0 .. HeadLen /\ k \in Nat
    <3>1. h = HeadLen - buffered /\ buffered' = buffered + h
      BY <2>1, <2>5, Zenon DEF h
    <3>2. buffered' = HeadLen
      BY <1>0, <1>1, <3>1
    <3>3. buffered' \in 0 .. HeadLen
      BY <1>0, <3>2
    <3> DEFINE y == bytec'
               x1 == bytec
               l == Len(w)
    <3>4. y \in Nat /\ x1 \in Nat /\ y <= x1 + l /\ l = k - h /\ h \in Nat
      BY <1>1, <2>5, <2>9, <2>11
    <3> HIDE DEF y, x1, l
    <3>5. y <= x1 + k
      BY <3>4
    <3>. QED BY <3>3, <3>5 DEF y, x1
  <2>13. RadioMeets(r[1], headRecv', metasz', bytec', buffered')
    BY <2>1, <2>4, <2>8, <2>10, <2>11, Zenon DEF RadioMeets
  <2>14. headRecv' \in BOOLEAN
    BY <2>1, Zenon
  <2>. QED BY <2>2, <2>4, <2>11, <2>12, <2>13, <2>14, SegmentKeeps, Zenon
<1>7. CASE Radio!Data(k)
  <2>1. /\ headRecv /\ headRecv' = headRecv /\ buffered' = buffered /\ Radio!ParseAll(seg)
        /\ Radio!Segment(k) /\ Radio!Keep(k)
    BY <1>7, Zenon DEF Radio!Data, seg
  <2>2. /\ conn' = "up" /\ conns' = conns /\ sent' = sent /\ server' = server
        /\ net' \in Seq(RadioByte) /\ k <= Len(net) /\ Len(net') = Len(net) - k
        /\ \E s : /\ RadioRun(s, net) /\ RadioMeets(s[1], headRecv, metasz, bytec, buffered)
                  /\ \E r : /\ RadioRun(r, net') /\ r[1] = s[k + 1]
                            /\ r[Len(net') + 1] = server'
    BY <2>1, SegmentLeaves, Zenon
  <2>3. PICK s : /\ RadioRun(s, net) /\ RadioMeets(s[1], headRecv, metasz, bytec, buffered)
                 /\ \E r : /\ RadioRun(r, net') /\ r[1] = s[k + 1]
                           /\ r[Len(net') + 1] = server'
    BY <2>2, Zenon
  <2>4. PICK r : RadioRun(r, net') /\ r[1] = s[k + 1] /\ r[Len(net') + 1] = server'
    BY <2>3, Zenon
  <2>5. k \in 0 .. Len(net)
    BY <2>2
  <2>6. seg \in Seq(RadioByte) /\ Len(seg) = k /\ RadioRun(s, seg)
    BY <1>1, <2>3, <2>5, RunPart, Zenon DEF seg
  <2>7. s[1] \in RadioState /\ MetaInt > 0 /\ BodyAt(s[1], metasz, bytec)
    BY <1>3, <2>1, <2>2, <2>3, Zenon DEF RadioMeets
  <2>8. /\ metasz' \in {0} \cup MetaSizes /\ bytec' \in Nat /\ bytec' <= bytec + k
        /\ BodyAt(s[k + 1], metasz', bytec')
        /\ \A pair \in out' : pair[1] = pair[2]
    BY <1>1, <2>1, <2>6, <2>7, ParseAllKeeps, Zenon
  <2>9. RadioMeets(r[1], headRecv', metasz', bytec', buffered')
    BY <2>1, <2>4, <2>7, <2>8, Zenon DEF RadioMeets
  <2>10. k \in Nat /\ headRecv' \in BOOLEAN /\ buffered' \in 0 .. HeadLen
    BY <1>1, <2>1, Zenon
  <2>. QED BY <2>2, <2>4, <2>8, <2>9, <2>10, SegmentKeeps, Zenon
<1>. QED BY <1>4, <1>5, <1>6, <1>7, Zenon

\* The radio: wherever the stream is cut or broken off.
LEMMA RadioKeeps ==
    /\ Radio!Init => RadioInv
    /\ RadioInv /\ [Radio!Next]_radioVars => RadioInv'
<1>0. HeadLen \in Nat \ {0} /\ MaxConn \in Nat \ {0} /\ MaxSent \in Nat \ {0}
  BY RadioConstants
<1>1. ASSUME Radio!Init PROVE RadioInv
  <2>1. /\ conn \in {"resolve", "connect"} /\ conns = 1 /\ net = <<>> /\ sent = 0
        /\ server = <<"head", HeadLen>> /\ out = {} /\ metasz = 0 /\ bytec = 0 /\ buffered = 0
    BY <1>1 DEF Radio!Init
  <2>2. headRecv = FALSE
    BY <1>1, Zenon DEF Radio!Init
  <2>3. /\ conns \in 1 .. MaxConn /\ net \in Seq(RadioByte) /\ bytec + Len(net) <= sent
        /\ metasz \in {0} \cup MetaSizes /\ bytec \in Nat /\ sent \in 0 .. MaxSent
        /\ buffered \in 0 .. HeadLen /\ ~(metasz > 0)
        /\ conn \in {"resolve", "connect", "up", "wait"} /\ conn # "up"
    BY <1>0, <2>1
  <2>4. server \in RadioState
    BY <1>0, <2>1 DEF RadioState
  <2>5. RadioTypes
    BY <2>2, <2>3, <2>4, Zenon DEF RadioTypes
  <2>6. Radio!UsedAsSent
    BY <2>1 DEF Radio!UsedAsSent
  <2>. QED BY <2>1, <2>2, <2>3, <2>5, <2>6, Zenon DEF RadioInv
<1>2. ASSUME RadioInv, Radio!Next PROVE RadioInv'
  <2>1. 1 .. MaxSent \subseteq Nat \ {0}
    BY <1>0
  <2>2. CASE Radio!Recv
    <3>1. PICK k \in 1 .. MaxSent : \/ Radio!Header(k) \/ Radio!NoInterval(k)
                                    \/ Radio!EndOfHeader(k) \/ Radio!Data(k)
      BY <2>2, Zenon DEF Radio!Recv
    <3>2. k \in Nat \ {0}
      BY <2>1
    <3>. QED BY <1>2, <3>1, <3>2, RadioReceives, Zenon
  <2>. QED BY <1>2, <2>2, RadioConnects, RadioServes, Zenon DEF Radio!Next
<1>3. ASSUME RadioInv, UNCHANGED radioVars PROVE RadioInv'
  <2>1. /\ conn' = conn /\ conns' = conns /\ net' = net /\ sent' = sent /\ server' = server
        /\ metasz' = metasz /\ bytec' = bytec /\ buffered' = buffered /\ out' = out
        /\ headRecv' = headRecv
    BY <1>3, Zenon DEF radioVars
  <2>2. RadioTypes'
    BY <1>3, <2>1, Zenon DEF RadioInv, RadioTypes
  <2>. QED BY <1>3, <2>1, <2>2, Zenon DEF RadioInv, Radio!UsedAsSent
<1>. QED BY <1>1, <1>2, <1>3, Zenon

\* And it says what the radio promises.
LEMMA RadioSafe == RadioInv => Radio!TypeOK /\ Radio!UsedAsSent
<1> SUFFICES ASSUME RadioInv PROVE Radio!TypeOK /\ Radio!UsedAsSent
  OBVIOUS
<1>1. RadioTypes /\ Radio!UsedAsSent
  BY Zenon DEF RadioInv
<1>2. bytec \in 0 .. MaxSent
  <2>1. Len(net) \in Nat /\ bytec \in Nat /\ bytec + Len(net) <= sent /\ sent \in 0 .. MaxSent
    BY <1>1 DEF RadioTypes
  <2>. QED BY <2>1, RadioConstants
<1>. QED BY <1>1, <1>2, Zenon DEF RadioTypes, Radio!TypeOK

-----------------------------------------------------------------------------
(* The source over GStreamer whose pipeline fails. *)

\* An error takes the flag down while the source is up, and the thread may outlive it: only the
\* pipeline is at rest then.
GstErrInv ==
    /\ GstErr!TypeOK
    /\ gstErrRun => gstErrMain = "up"
    /\ gstErrMain = "alloc" => gstErrThread = "none"
    /\ gstErrThread = "play" => gstErrMain = "up"
    /\ gstErrMain = "freed" => ~gstErrPlaying /\ gstErrStream = "idle"

\* GStreamer: the same when the pipeline fails.
LEMMA GstErrKeeps ==
    /\ GstErr!Init => GstErrInv
    /\ GstErrInv /\ [GstErr!Next]_gstErrVars => GstErrInv'
<1>0. MaxBuffer \in Nat \ {0}
  BY PartsAssumption DEF GstErr!GstSourceAssumption
<1> USE DEF GstErr!T, GstErr!S, GstErr!M
<1>1. GstErr!Init => GstErrInv
  <2>1. GstErr!Init => {gstErrRun, gstErrLooping, gstErrPlaying} \subseteq BOOLEAN
    BY Zenon DEF GstErr!Init
  <2>. QED BY <1>0, <2>1 DEF GstErr!Init, GstErrInv, GstErr!TypeOK
<1>2. ASSUME GstErrInv
      PROVE  {gstErrRun, gstErrLooping, gstErrPlaying} \subseteq BOOLEAN
  BY <1>2 DEF GstErrInv, GstErr!TypeOK
<1>3. ASSUME GstErrInv, GstErr!Next
      PROVE  {gstErrRun', gstErrLooping', gstErrPlaying'} \subseteq BOOLEAN
  BY <1>2, <1>3, Zenon
  DEF GstErr!Next, GstErr!Thread, GstErr!Play, GstErr!While, GstErr!Enter, GstErr!Leave,
      GstErr!BusQuit, GstErr!Eos, GstErr!BusError, GstErr!Handoff, GstErr!Empty, GstErr!Alloc,
      GstErr!Release, GstErr!Quit, GstErr!Join, GstErr!Null
<1>4. ASSUME GstErrInv, GstErr!Next, GstErr!Thread \/ GstErr!Eos \/ GstErr!BusError PROVE GstErrInv'
  <2>1. {gstErrRun', gstErrLooping', gstErrPlaying'} \subseteq BOOLEAN
    BY <1>3, <1>4
  <2>. QED BY <1>4, <2>1
         DEF GstErrInv, GstErr!TypeOK, GstErr!Thread, GstErr!Play, GstErr!While, GstErr!Enter,
             GstErr!Leave, GstErr!BusQuit, GstErr!Eos, GstErr!BusError
<1>5. ASSUME GstErrInv, GstErr!Next, GstErr!Handoff \/ GstErr!Empty PROVE GstErrInv'
  <2>1. {gstErrRun', gstErrLooping', gstErrPlaying'} \subseteq BOOLEAN
    BY <1>3, <1>5
  <2>. QED BY <1>0, <1>5, <2>1 DEF GstErrInv, GstErr!TypeOK, GstErr!Handoff, GstErr!Empty
<1>6. ASSUME GstErrInv, GstErr!Next,
             GstErr!Alloc \/ GstErr!Release \/ GstErr!Quit \/ GstErr!Join \/ GstErr!Null
      PROVE  GstErrInv'
  <2>1. {gstErrRun', gstErrLooping', gstErrPlaying'} \subseteq BOOLEAN
    BY <1>3, <1>6
  <2>. QED BY <1>6, <2>1
         DEF GstErrInv, GstErr!TypeOK, GstErr!Alloc, GstErr!Release, GstErr!Quit, GstErr!Join, GstErr!Null
<1>7. GstErrInv /\ UNCHANGED gstErrVars => GstErrInv'
  BY DEF GstErrInv, gstErrVars, GstErr!TypeOK
<1>. QED BY <1>1, <1>4, <1>5, <1>6, <1>7 DEF GstErr!Next

-----------------------------------------------------------------------------
(* All of them together. *)

\* The camera: what its steps keep.
LEMMA FakeNext == IInv /\ [Next]_vars => IInv'
<1>1. IInv /\ UNCHANGED vars => IInv'
  BY DEF IInv, vars, TypeOK, MainAgrees, HoldsLock
<1>. QED BY <1>1, MainInv, CameraInv DEF Next

\* The camera: a frame handler has its source, alone, unless the camera came late to the mutex.
LEMMA FakeSafe == IInv => FramesAreSafe
BY DEF IInv, HoldsLock, FramesAreSafe, OneFrame, FrameKeepsSource

\* A step of all is for each component a step of its own or none.
LEMMA Components ==
    /\ AllInit => /\ Init /\ Dev!Init /\ Bridge!Init /\ Wave!Init /\ Sles!Init /\ Gst!Init
                  /\ GstErr!Init /\ Radio!Init /\ Loops!Init
    /\ [AllNext]_all => /\ [Next]_vars /\ [Dev!Next]_devVars /\ [Bridge!Next]_bridgeVars
                        /\ [Wave!Next]_waveVars /\ [Sles!Next]_slesVars /\ [Gst!Next]_gstVars
                        /\ [GstErr!Next]_gstErrVars /\ [Radio!Next]_radioVars
                        /\ [Loops!Next]_loopsVars
<1> DEFINE Others(p) ==
      /\ p # "camera" => UNCHANGED vars
      /\ p # "threads" => UNCHANGED devVars
      /\ p # "bridge" => UNCHANGED bridgeVars
      /\ p # "wave" => UNCHANGED waveVars
      /\ p # "sles" => UNCHANGED slesVars
      /\ p # "gst" => UNCHANGED gstVars
      /\ p # "gsterr" => UNCHANGED gstErrVars
      /\ p # "radio" => UNCHANGED radioVars
      /\ p # "loops" => UNCHANGED loopsVars
<1>1. AllInit => /\ Init /\ Dev!Init /\ Bridge!Init /\ Wave!Init /\ Sles!Init /\ Gst!Init
                 /\ GstErr!Init /\ Radio!Init /\ Loops!Init
  BY Zenon DEF AllInit
<1>3. ASSUME UNCHANGED all PROVE Others("none")
  BY <1>3 DEF all
<1>4. ASSUME NEW p, Only(p) PROVE Others(p)
  BY <1>4, Zenon DEF Only
<1> HIDE DEF Others
<1>5. ASSUME [AllNext]_all
      PROVE  \/ Others("none")
             \/ Others("camera") /\ Next
             \/ Others("threads") /\ Dev!Next
             \/ Others("bridge") /\ Bridge!Next
             \/ Others("wave") /\ Wave!Next
             \/ Others("sles") /\ Sles!Next
             \/ Others("gst") /\ Gst!Next
             \/ Others("gsterr") /\ GstErr!Next
             \/ Others("radio") /\ Radio!Next
             \/ Others("loops") /\ Loops!Next
  BY <1>3, <1>4, <1>5, Zenon DEF AllNext
<1>. QED BY <1>1, <1>5, Zenon DEF Others

\* The inductive invariant, component by component.
DevicesInv ==
    /\ IInv /\ DevInv /\ BridgeInv /\ WaveInv /\ SlesInv /\ RecInv /\ GstInv /\ GstErrInv
    /\ RadioInv /\ LoopsInv

\* It holds at first.
LEMMA DevicesInit == AllInit => DevicesInv
BY Components, InitInv, DevInit, BridgeKeeps, WaveInit, SlesKeeps, RecKeeps, GstKeeps,
   GstErrKeeps, RadioKeeps, LoopsKeep, Zenon
   DEF DevicesInv

\* Every step keeps it.
LEMMA DevicesNext == DevicesInv /\ [AllNext]_all => DevicesInv'
BY Components, FakeNext, DevNext, BridgeKeeps, WaveNext, SlesKeeps, RecKeeps, GstKeeps,
   GstErrKeeps, RadioKeeps, LoopsKeep, Zenon
   DEF DevicesInv

\* The threads, the bridge, the source of GStreamer and the loops: what a step uses is held.
LEMMA DevicesSafe == DevicesInv => UsesHeld
<1> SUFFICES ASSUME DevicesInv PROVE UsesHeld
  OBVIOUS
<1>1. Dev!UsesHeld /\ Dev!JoinsThread /\ Dev!NothingLeft
  BY DevSafe, Zenon DEF DevicesInv
<1>2. Wave!FillsOwn /\ Wave!ClosesEmpty
  BY WaveSafe, Zenon DEF DevicesInv
<1>3. Bridge!ThreadIsKnown
  BY DEF DevicesInv, BridgeInv, Bridge!ThreadIsKnown, Bridge!None
<1>4. Sles!FillsUnqueued
  <2>1. slesAt \in [{"main", "engine"} -> {"create", "fill", "enqueue", "next", "none"}]
    BY DEF DevicesInv, SlesInv, Sles!TypeOK
  <2>2. \A t \in {"main", "engine"} : slesAt[t] \in {"fill", "enqueue"} => slesQueue = <<>>
    BY DEF DevicesInv, SlesInv
  <2>. QED BY <2>1, <2>2 DEF Sles!FillsUnqueued
<1>5. Gst!OutlivesThreads
  BY DEF DevicesInv, GstInv, Gst!OutlivesThreads
<1>6. Loops!BufferHeld /\ Loops!FrameHasParts
  BY DEF DevicesInv, LoopsInv, Loops!BufferHeld, Loops!FrameHasParts
<1>. QED BY <1>1, <1>2, <1>3, <1>4, <1>5, <1>6, Zenon DEF UsesHeld

\* Every driver, any number of ends, of buffers and of restarts: whatever a thread or a callback
\* of a device uses is there, no thread is left when the device is gone, and a buffer is filled
\* only when the device has given it back.
THEOREM DevicesHold == AllSpec => []UsesHeld
<1>1. AllInit => DevicesInv
  BY DevicesInit
<1>2. DevicesInv /\ [AllNext]_all => DevicesInv'
  BY DevicesNext
<1>3. DevicesInv => UsesHeld
  BY DevicesSafe
<1>. QED BY <1>1, <1>2, <1>3, PTL DEF AllSpec

\* Any number of cameras and sources, one after the other: the source of a frame stays until
\* the frame handler returns and serves one camera, unless a camera came late to the mutex.
THEOREM FramesSafe == AllSpec => []FramesAreSafe
<1>1. AllInit => DevicesInv
  BY DevicesInit
<1>2. DevicesInv /\ [AllNext]_all => DevicesInv'
  BY DevicesNext
<1>3. DevicesInv => FramesAreSafe
  BY FakeSafe DEF DevicesInv
<1>. QED BY <1>1, <1>2, <1>3, PTL DEF AllSpec

\* The radio with any header, any interval and any sizes of its metadata: every byte is played
\* or shown as what it was sent as, wherever the stream is cut (recv_handler). OpenSL ES with any
\* number of buffers and of starts: the read handler has the buffer that was recorded last, and
\* nothing records into it meanwhile (bqRecorderCallback).
THEOREM DataAsSent == AllSpec => UsedAsSent
<1>1. AllInit => DevicesInv
  BY DevicesInit
<1>2. DevicesInv /\ [AllNext]_all => DevicesInv'
  BY DevicesNext
<1>3. DevicesInv => Radio!UsedAsSent
  BY RadioSafe, Zenon DEF DevicesInv
<1>4. DevicesInv /\ [AllNext]_all => [Sles!Read => recId' = recDone /\ recQueue = <<>>]_(Sles!vars)
  BY DEF DevicesInv, RecInv, Sles!Read
<1>. QED BY <1>1, <1>2, <1>3, <1>4, PTL DEF AllSpec, UsedAsSent, Sles!ReadsRecorded

\* The devices: every variable has its type, whatever the values of the constants.
THEOREM DeviceTypes == AllSpec => []AllTypesOK
<1>1. AllInit => DevicesInv
  BY DevicesInit
<1>2. DevicesInv /\ [AllNext]_all => DevicesInv'
  BY DevicesNext
<1>3. DevicesInv => AllTypesOK
  BY RadioSafe, WaveSafe, Zenon
     DEF DevicesInv, IInv, DevInv, BridgeInv, SlesInv, GstInv, GstErrInv, LoopsInv, AllTypesOK
<1>. QED BY <1>1, <1>2, <1>3, PTL DEF AllSpec

-----------------------------------------------------------------------------
(* The values that TLC checks. *)

\* Every driver but those of JACK, which start before they are set up.
MCDrivers ==
    {"alsa_src", "alsa_play", "oss_src", "oss_play", "sndio_src", "sndio_play", "pulse_src",
     "pulse_play", "aufile", "rst_audio", "rst_video", "v4l", "v4l2", "x11grab", "cairo",
     "avformat", "portaudio_src", "portaudio_play", "coreaudio_src", "coreaudio_play",
     "audiounit_src", "audiounit_play"}
=============================================================================
