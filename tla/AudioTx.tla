------------------------------- MODULE AudioTx -------------------------------
(***************************************************************************)
(* The sending half of the audio pipeline (src/audio.c, struct autx).      *)
(* Three threads share it: the main loop starts and stops it and changes   *)
(* the encoder, the thread of the audio source delivers samples, and with  *)
(* txmode thread a transmit thread takes packets from the buffer, encodes  *)
(* and sends them; with txmode poll the source's thread does that itself.  *)
(***************************************************************************)
EXTENDS Integers, FiniteSets, FiniteSetTheorems, TLAPS

CONSTANTS
    Thread,     \* names of transmit threads, one per pthread_create that may come
    Codec,      \* audio codecs
    Rate,       \* the sample rate and channels of each codec
    Mode,       \* cfg.txmode, poll or thread
    MaxLevel,   \* aubuf_maxsz, in source frames
    MaxPacket   \* the largest psize, in source frames

ASSUME AudioTxAssumption ==
    /\ Mode \in {"poll", "thread"}
    /\ MaxPacket \in Nat \ {0} /\ MaxLevel \in Nat /\ MaxPacket <= MaxLevel
    /\ Rate \in [Codec -> Nat]
    /\ "none" \notin Thread

VARIABLES
    main,      \* what the main loop is doing
    ac,        \* tx->ac, the encoder in use, or None
    psize,     \* packet size, in source frames
    src,       \* the source's thread: off, idle, or where it is in its handler
    buf,       \* tx->aubuf is there
    level,     \* what is in it
    started,   \* aubuf_started
    run,       \* thr.run
    tid,       \* the thread pthread_create returned last, or None
    thr        \* what each transmit thread is doing

vars == <<main, ac, psize, src, buf, level, started, run, tid, thr>>
pipe == <<buf, level, started>>
thread == <<run, tid, thr>>

None == "none"
Alive == {t \in Thread : thr[t] \in {"loop", "awake", "poll"}}

TypeOK ==
    /\ main \in {"idle", "join", "source", "buffer", "replace", "restart", "crashed"}
    /\ ac \in Codec \cup {None}
    /\ psize \in 1 .. MaxPacket
    /\ src \in {"off", "idle", "poll", "telev"}
    /\ {buf, started, run} \subseteq BOOLEAN
    /\ level \in 0 .. MaxLevel
    /\ tid \in Thread \cup {None}
    /\ thr \in [Thread -> {"new", "loop", "awake", "poll", "ended"}]

\* audio_alloc.
Init ==
    /\ main = "idle" /\ ac = None /\ psize = 1 /\ src = "off"
    /\ buf = FALSE /\ level = 0 /\ started = FALSE
    /\ run = FALSE /\ tid = None
    /\ thr = [t \in Thread |-> "new"]

-----------------------------------------------------------------------------
(* The main loop. *)

\* Mutant: a thread is created for every start of the source.
CreateThreadAgain ==
    /\ run' = TRUE
    /\ \E t \in Thread : thr[t] = "new" /\ tid' = t /\ thr' = [thr EXCEPT ![t] = "loop"]

\* The end of start_source: with txmode thread the transmit thread is created,
\* which may fail; then tid is cleared and run stays set.
CreateThread ==
    IF Mode = "thread" /\ ~run
    THEN /\ run' = TRUE
         /\ \/ \E t \in Thread : thr[t] = "new" /\ tid' = t /\ thr' = [thr EXCEPT ![t] = "loop"]
            \/ tid' = None /\ UNCHANGED thr
    ELSE UNCHANGED thread

\* start_source when there is a codec and no source: the buffer is made if there
\* is none, and kept if the source cannot be opened.
OpenSource ==
    /\ ac # None /\ src = "off"
    /\ buf' = TRUE
    /\ level' = IF buf THEN level ELSE 0
    /\ \/ src' = "idle" /\ CreateThread
       \/ UNCHANGED <<src, thread>>
    /\ UNCHANGED started

\* audio_start.
Start ==
    /\ main = "idle"
    /\ OpenSource
    /\ UNCHANGED <<main, ac, psize>>

\* stop_tx: the transmit thread is told to end.
Stop ==
    /\ main = "idle"
    /\ IF Mode = "thread" /\ run
       THEN run' = FALSE /\ main' = "join"
       ELSE main' = "source" /\ UNCHANGED run
    /\ UNCHANGED <<ac, psize, src, pipe, tid, thr>>

\* Mutant: the thread is not waited for.
JoinNot ==
    /\ main = "join"
    /\ main' = "source"
    /\ UNCHANGED <<ac, psize, src, pipe, thread>>

\* pthread_join.  Without a thread it returns or crashes.
Join ==
    /\ main = "join"
    /\ \/ tid = None /\ main' \in {"source", "crashed"}
       \/ tid # None /\ thr[tid] = "ended" /\ main' = "source"
    /\ UNCHANGED <<ac, psize, src, pipe, thread>>

\* Mutant: the driver does not wait for its thread.
CloseSourceNow ==
    /\ main = "source"
    /\ main' = "buffer"
    /\ UNCHANGED <<ac, psize, src, pipe, thread>>

\* mem_deref(tx->ausrc): the driver waits until its thread has left the handler.
CloseSource ==
    /\ main = "source" /\ src \in {"off", "idle"}
    /\ src' = "off"
    /\ main' = "buffer"
    /\ UNCHANGED <<ac, psize, pipe, thread>>

\* mem_deref(tx->aubuf).
FreeBuffer ==
    /\ main = "buffer"
    /\ buf' = FALSE /\ level' = 0
    /\ main' = "idle"
    /\ UNCHANGED <<ac, psize, src, started, thread>>

\* audio_encoder_set: a codec of another rate closes the source first.
EncoderSet(c) ==
    /\ main = "idle" /\ c # ac
    /\ IF ac = None \/ Rate[c] # Rate[IF ac = None THEN c ELSE ac]
       THEN src \in {"off", "idle"} /\ src' = "off"
       ELSE UNCHANGED src
    /\ ac' = c
    /\ main' = "replace"
    /\ UNCHANGED <<psize, pipe, thread>>

\* The rest of audio_encoder_set: the state of the new encoder is made, which may
\* fail, and the audio is started if there is no source.
Encode ==
    /\ main = "replace"
    /\ main' = "idle"
    /\ \/ OpenSource
       \/ UNCHANGED <<src, pipe, thread>>
    /\ UNCHANGED <<ac, psize>>

\* audio_sdp_attr_decode: the peer asks for another packet time.
Ptime(n) ==
    /\ main = "idle" /\ ac # None
    /\ psize' = n
    /\ UNCHANGED <<main, ac, src, pipe, thread>>

-----------------------------------------------------------------------------
(* The source's thread. *)

\* Mutant: the buffer is not marked as started.
DeliverQuietly ==
    /\ src = "idle"
    /\ level' = IF level < MaxLevel THEN level + 1 ELSE level
    /\ src' = IF Mode = "poll" THEN "poll" ELSE "telev"
    /\ UNCHANGED <<main, ac, psize, buf, started, thread>>

\* ausrc_read_handler writes what was recorded; a full buffer drops its oldest.
Deliver ==
    /\ src = "idle"
    /\ level' = IF level < MaxLevel THEN level + 1 ELSE level
    /\ started' = TRUE
    /\ src' = IF Mode = "poll" THEN "poll" ELSE "telev"
    /\ UNCHANGED <<main, ac, psize, buf, thread>>

\* Mutant: a packet is taken without looking at what there is.
TakePacketBlind == level' = level - psize

\* poll_aubuf_tx with encode_rtp_send takes one packet, whatever is in the buffer.
TakePacket == level' = IF level < psize THEN 0 ELSE level - psize

\* txmode poll: every full packet is sent from the handler.
SourcePoll ==
    /\ src = "poll"
    /\ IF level < psize THEN src' = "telev" /\ UNCHANGED level ELSE TakePacket /\ UNCHANGED src
    /\ UNCHANGED <<main, ac, psize, buf, started, thread>>

\* check_telev uses tx->mb whether or not there is a digit to send.
CheckTelev ==
    /\ src = "telev"
    /\ src' = "idle"
    /\ UNCHANGED <<main, ac, psize, pipe, thread>>

-----------------------------------------------------------------------------
(* tx_thread. *)

\* Mutant: run is looked at only once the buffer has started.
ThreadLoopBlind(t) ==
    /\ thr[t] = "loop"
    /\ thr' = [thr EXCEPT ![t] = IF started THEN (IF run THEN "awake" ELSE "ended") ELSE "loop"]
    /\ UNCHANGED <<main, ac, psize, src, pipe, run, tid>>

\* The head of the loop, and sys_msleep.
ThreadLoop(t) ==
    /\ thr[t] = "loop"
    /\ thr' = [thr EXCEPT ![t] = IF run THEN "awake" ELSE "ended"]
    /\ UNCHANGED <<main, ac, psize, src, pipe, run, tid>>

\* After the sleep: not started, told to end, before its time, or without a full
\* packet the thread sends nothing.
ThreadWake(t) ==
    /\ thr[t] = "awake"
    /\ thr' = [thr EXCEPT ![t] = IF started /\ ~run THEN "ended"
                                ELSE IF started /\ level >= psize THEN "poll" ELSE "loop"]
    /\ UNCHANGED <<main, ac, psize, src, pipe, run, tid>>

ThreadPoll(t) ==
    /\ thr[t] = "poll"
    /\ TakePacket
    /\ thr' = [thr EXCEPT ![t] = "loop"]
    /\ UNCHANGED <<main, ac, psize, src, buf, started, run, tid>>

Stopping == Join \/ CloseSource \/ FreeBuffer
Source == Deliver \/ SourcePoll \/ CheckTelev
Transmit(t) == ThreadLoop(t) \/ ThreadWake(t) \/ ThreadPoll(t)

Next ==
    \/ Start \/ Stop \/ Stopping \/ Encode
    \/ \E c \in Codec : EncoderSet(c)
    \/ \E n \in 1 .. MaxPacket : Ptime(n)
    \/ Source
    \/ \E t \in Thread : Transmit(t)
    \/ main = "crashed" /\ UNCHANGED vars

\* Each thread goes on; what the main loop began it finishes, and a driver that is
\* being closed ends its thread when it is next out of the handler.
Fairness ==
    /\ WF_vars(Stopping) /\ WF_vars(Encode) /\ WF_vars(Source)
    /\ \A t \in Thread : WF_vars(Transmit(t))
    /\ SF_vars(CloseSource)

Spec == Init /\ [][Next]_vars /\ Fairness

-----------------------------------------------------------------------------
\* The source and the transmit threads that are past their test of run find the
\* buffer: stop_tx releases it only when both are gone, whatever step each thread
\* was at when it began.
BufferOutlivesUsers ==
    /\ src # "off" => buf
    /\ \A t \in Alive : buf

\* However often the source is closed and opened, by a stop or for another
\* encoder, one transmit thread at most takes packets.
OneTransmitter == Cardinality(Alive) <= 1

\* No thread of a transmitter works without the buffer, and none besides the one that
\* stop_tx waits for.
BufferOutlivesAll == BufferOutlivesUsers /\ OneTransmitter

\* stop_tx returns: the transmit thread sees that it is told to end, also when no
\* sample ever came.
StopReturns == main \in {"join", "source", "buffer"} ~> main \in {"idle", "crashed"}

\* What the source records is sent: unless it is stopped or replaced, a source
\* with a running transmitter makes a packet again and again.
RecordedIsSent ==
    (src # "off" /\ (Mode = "thread" => tid # None)) ~>
        (src = "poll" \/ main # "idle" \/ \E t \in Thread : thr[t] = "poll")

\* "Audio transmit thread running" (audio.c, struct autx): run is set only while
\* there is such a thread.
RunMeansThread == run => Alive # {}

\* "Audio source must be stopped first" (audio_encoder_set): the encoder is not
\* replaced while another thread may be encoding with it.
EncoderIsIdle == [][ac' # ac => src # "poll" /\ \A t \in Thread : thr[t] # "poll"]_vars

\* "This function may be called from any thread" (ausrc_read_handler): it shares
\* the buffer for outgoing packets with no other thread.
PacketIsPrivate == src = "telev" => \A t \in Thread : thr[t] # "poll"

-----------------------------------------------------------------------------
(* The transmit thread that may be alive is the one that tid names; while run is clear    *)
(* there is none, but for the time in which stop_tx waits for it.                          *)
Transmitters ==
    /\ thr \in [Thread -> {"new", "loop", "awake", "poll", "ended"}]
    /\ tid \in Thread \cup {None}
    /\ \A t \in Alive : t = tid
    /\ main \in {"join", "source", "buffer", "crashed"} => ~run
    /\ ~run /\ main # "join" => Alive = {}
    /\ Mode # "thread" => ~run

\* Who uses the buffer has it; the source has gone when it is released.
Users ==
    /\ main = "buffer" => src = "off"
    /\ BufferOutlivesUsers

\* The inductive invariant.
UsersInv == Transmitters /\ Users

\* start_source keeps both: a thread is created only when there is none.
LEMMA OpenSourceInv ==
    UsersInv /\ OpenSource /\ main \in {"idle", "replace"} /\ main' = "idle" => UsersInv'
<1> SUFFICES ASSUME UsersInv, OpenSource, main \in {"idle", "replace"}, main' = "idle"
             PROVE  UsersInv'
  OBVIOUS
<1>1. buf'
  BY Zenon DEF OpenSource
<1>2. Users'
  BY <1>1 DEF Users, BufferOutlivesUsers
<1>3. ASSUME UNCHANGED thread PROVE Transmitters'
  <2>1. (run' <=> run) /\ tid' = tid /\ thr' = thr
    BY <1>3, Zenon DEF thread
  <2> QED BY <2>1 DEF UsersInv, Transmitters, Alive
<1>4. ASSUME run', Mode = "thread", Alive = {}, NEW t \in Thread, tid' = t,
             thr' = [thr EXCEPT ![t] = "loop"]
      PROVE  Transmitters'
  BY <1>4 DEF UsersInv, Transmitters, Alive
<1>5. ASSUME run', Mode = "thread", Alive = {}, tid' = None, UNCHANGED thr PROVE Transmitters'
  BY <1>5 DEF UsersInv, Transmitters, Alive
<1>6. \/ UNCHANGED thread
      \/ /\ ~run /\ run' /\ Mode = "thread"
         /\ \/ \E t \in Thread : tid' = t /\ thr' = [thr EXCEPT ![t] = "loop"]
            \/ tid' = None /\ UNCHANGED thr
  BY Zenon DEF OpenSource, CreateThread
<1>7. ~run => Alive = {}
  BY DEF UsersInv, Transmitters
<1> QED BY <1>2, <1>3, <1>4, <1>5, <1>6, <1>7, Zenon DEF UsersInv

\* Steps that touch neither the threads nor the buffer.
LEMMA IdleInv ==
    ASSUME UsersInv, UNCHANGED thread, buf' <=> buf, src' # "off" => src # "off",
           main' \in {"idle", "replace"} => main \in {"idle", "replace"},
           main' \in {"source", "buffer", "crashed", "join"} => ~run,
           main = "join" => main' = "join",
           main' = "buffer" => src' = "off"
    PROVE  UsersInv'
<1>1. (run' <=> run) /\ tid' = tid /\ thr' = thr
  BY Zenon DEF thread
<1>2. Transmitters'
  BY <1>1 DEF UsersInv, Transmitters, Alive
<1>3. Users'
  BY <1>1 DEF UsersInv, Users, BufferOutlivesUsers, Alive
<1> QED BY <1>2, <1>3 DEF UsersInv

\* A transmit thread ends or goes on (tx_thread).
LEMMA TransmitInv == ASSUME NEW t \in Thread PROVE UsersInv /\ Transmit(t) => UsersInv'
<1> SUFFICES ASSUME UsersInv, Transmit(t) PROVE UsersInv'
  OBVIOUS
<1>1. thr[t] \in {"loop", "awake", "poll"}
  BY DEF Transmit, ThreadLoop, ThreadWake, ThreadPoll
<1>2. \E step \in {"loop", "awake", "poll", "ended"} : thr' = [thr EXCEPT ![t] = step]
  <2>1. CASE ThreadLoop(t)
    BY <2>1, Zenon DEF ThreadLoop
  <2>2. CASE ThreadWake(t)
    BY <2>2, Zenon DEF ThreadWake
  <2>3. CASE ThreadPoll(t)
    BY <2>3, Zenon DEF ThreadPoll
  <2> QED BY <2>1, <2>2, <2>3 DEF Transmit
<1>3. main' = main /\ src' = src /\ (buf' <=> buf) /\ (run' <=> run) /\ tid' = tid
  <2>1. CASE ThreadLoop(t)
    BY <2>1, Zenon DEF ThreadLoop, pipe
  <2>2. CASE ThreadWake(t)
    BY <2>2, Zenon DEF ThreadWake, pipe
  <2>3. CASE ThreadPoll(t)
    BY <2>3, Zenon DEF ThreadPoll
  <2> QED BY <2>1, <2>2, <2>3 DEF Transmit
<1>4. Alive' \subseteq Alive
  BY <1>1, <1>2 DEF UsersInv, Transmitters, Alive
<1>5. Transmitters'
  BY <1>2, <1>3, <1>4 DEF UsersInv, Transmitters
<1>6. Users'
  BY <1>3, <1>4 DEF UsersInv, Users, BufferOutlivesUsers
<1> QED BY <1>5, <1>6 DEF UsersInv

\* stop_tx: told to end, the thread is waited for, then the source, then the buffer goes.
LEMMA StoppingInv == UsersInv /\ (Stop \/ Stopping) => UsersInv'
<1> SUFFICES ASSUME UsersInv, Stop \/ Stopping PROVE UsersInv'
  OBVIOUS
<1>1. CASE Stop
  <2>1. /\ main = "idle" /\ src' = src /\ (buf' <=> buf) /\ tid' = tid /\ thr' = thr
        /\ ~run' /\ (main' = "join" \/ (main' = "source" /\ ~run))
    <3>1. main = "idle" /\ src' = src /\ (buf' <=> buf) /\ tid' = tid /\ thr' = thr
      BY <1>1, Zenon DEF Stop, pipe
    <3>2. Mode # "thread" => ~run
      BY DEF UsersInv, Transmitters
    <3>3. ~run' /\ (main' = "join" \/ (main' = "source" /\ ~run))
      BY <1>1, <3>2, Zenon DEF Stop
    <3> QED BY <3>1, <3>3
  <2>2. Transmitters'
    BY <2>1 DEF UsersInv, Transmitters, Alive
  <2>3. Users'
    BY <2>1 DEF UsersInv, Users, BufferOutlivesUsers, Alive
  <2> QED BY <2>2, <2>3 DEF UsersInv
<1>2. CASE Join
  <2>1. /\ main = "join" /\ main' \in {"source", "crashed"} /\ src' = src /\ (buf' <=> buf)
        /\ (run' <=> run) /\ tid' = tid /\ thr' = thr
    <3>1. src' = src /\ (buf' <=> buf) /\ (run' <=> run) /\ tid' = tid /\ thr' = thr
      BY <1>2, Zenon DEF Join, pipe, thread
    <3>2. main = "join" /\ main' \in {"source", "crashed"}
      BY <1>2 DEF Join
    <3> QED BY <3>1, <3>2
  <2>2. Alive = {}
    BY <1>2, AudioTxAssumption DEF Join, UsersInv, Transmitters, Alive, None
  <2>3. Transmitters'
    BY <2>1, <2>2 DEF UsersInv, Transmitters, Alive
  <2>4. Users'
    BY <2>1, <2>2 DEF UsersInv, Users, BufferOutlivesUsers, Alive
  <2> QED BY <2>3, <2>4 DEF UsersInv
<1>3. CASE CloseSource
  <2>1. UNCHANGED thread /\ (buf' <=> buf)
    BY <1>3, Zenon DEF CloseSource, pipe
  <2>2. main = "source" /\ main' = "buffer" /\ src' = "off"
    BY <1>3 DEF CloseSource
  <2>3. ~run
    BY <2>2 DEF UsersInv, Transmitters
  <2> QED BY <2>1, <2>2, <2>3, IdleInv
<1>4. CASE FreeBuffer
  <2>1. main = "buffer" /\ main' = "idle" /\ src' = src
    BY <1>4 DEF FreeBuffer
  <2>2. (run' <=> run) /\ tid' = tid /\ thr' = thr
    BY <1>4, Zenon DEF FreeBuffer, thread
  <2>3. Alive = {} /\ src = "off" /\ ~run
    BY <2>1 DEF UsersInv, Transmitters, Users
  <2>4. Transmitters'
    BY <2>1, <2>2, <2>3 DEF UsersInv, Transmitters, Alive
  <2>5. Users'
    BY <2>1, <2>2, <2>3 DEF UsersInv, Users, BufferOutlivesUsers, Alive
  <2> QED BY <2>4, <2>5 DEF UsersInv
<1> QED BY <1>1, <1>2, <1>3, <1>4 DEF Stopping

\* The other steps of the main loop and of the source's thread.
LEMMA OthersInv ==
    UsersInv /\ (Start \/ Encode \/ Source \/ (\E c \in Codec : EncoderSet(c))
                 \/ \E n \in 1 .. MaxPacket : Ptime(n)) => UsersInv'
<1> SUFFICES ASSUME UsersInv,
                    \/ Start \/ Encode \/ Source
                    \/ \E c \in Codec : EncoderSet(c)
                    \/ \E n \in 1 .. MaxPacket : Ptime(n)
             PROVE  UsersInv'
  OBVIOUS
<1>1. main \in {"source", "buffer", "crashed", "join"} => ~run
  BY DEF UsersInv, Transmitters
<1>2. main = "buffer" => src = "off"
  BY DEF UsersInv, Users
<1>3. CASE Start
  BY <1>3, OpenSourceInv DEF Start
<1>4. CASE Encode
  <2>1. main = "replace" /\ main' = "idle"
    BY <1>4 DEF Encode
  <2>2. CASE OpenSource
    BY <2>1, <2>2, OpenSourceInv
  <2>3. CASE UNCHANGED <<src, pipe, thread>>
    <3>1. UNCHANGED thread /\ (buf' <=> buf) /\ src' = src
      BY <2>3, Zenon DEF pipe
    <3> QED BY <2>1, <3>1, IdleInv
  <2> QED BY <1>4, <2>2, <2>3 DEF Encode
<1>5. CASE Source
  <2>1. UNCHANGED thread /\ (buf' <=> buf) /\ main' = main
    <3>1. CASE Deliver
      BY <3>1, Zenon DEF Deliver
    <3>2. CASE SourcePoll
      BY <3>2, Zenon DEF SourcePoll
    <3>3. CASE CheckTelev
      BY <3>3, Zenon DEF CheckTelev, pipe
    <3> QED BY <1>5, <3>1, <3>2, <3>3 DEF Source
  <2>2. src # "off"
    BY <1>5 DEF Source, Deliver, SourcePoll, CheckTelev
  <2> QED BY <1>1, <1>2, <2>1, <2>2, IdleInv
<1>6. ASSUME NEW c \in Codec, EncoderSet(c) PROVE UsersInv'
  <2>1. UNCHANGED thread /\ (buf' <=> buf) /\ main = "idle" /\ main' = "replace"
    BY <1>6, Zenon DEF EncoderSet, pipe
  <2>2. src' = "off" \/ src' = src
    BY <1>6, Zenon DEF EncoderSet
  <2> QED BY <2>1, <2>2, IdleInv
<1>7. ASSUME NEW n \in 1 .. MaxPacket, Ptime(n) PROVE UsersInv'
  <2>1. UNCHANGED thread /\ (buf' <=> buf) /\ main' = main /\ src' = src
    BY <1>7, Zenon DEF Ptime, pipe
  <2> QED BY <1>1, <1>2, <2>1, IdleInv
<1> QED BY <1>3, <1>4, <1>5, <1>6, <1>7

\* The invariant holds at first.
LEMMA UsersInit == Init => UsersInv
<1>1. Init => Transmitters
  BY DEF Init, Transmitters, Alive
<1>2. Init => Users
  BY DEF Init, Users, BufferOutlivesUsers, Alive
<1> QED BY <1>1, <1>2 DEF UsersInv

\* No step breaks it.
LEMMA UsersNext == UsersInv /\ [Next]_vars => UsersInv'
<1>1. UsersInv /\ UNCHANGED vars => UsersInv'
  <2> SUFFICES ASSUME UsersInv, UNCHANGED vars PROVE UsersInv'
    OBVIOUS
  <2>1. UNCHANGED thread /\ (buf' <=> buf) /\ main' = main /\ src' = src
    BY Zenon DEF vars, thread
  <2>2. main \in {"source", "buffer", "crashed", "join"} => ~run
    BY DEF UsersInv, Transmitters
  <2>3. main = "buffer" => src = "off"
    BY DEF UsersInv, Users
  <2> QED BY <2>1, <2>2, <2>3, IdleInv
<1> QED BY <1>1, TransmitInv, StoppingInv, OthersInv DEF Next

\* What is claimed of the buffer and the threads follows from it.
LEMMA UsersSafe == UsersInv => BufferOutlivesAll
<1> SUFFICES ASSUME UsersInv PROVE OneTransmitter
  BY DEF UsersInv, Users, BufferOutlivesAll
<1>1. Alive = {} \/ Alive = {tid}
  BY DEF UsersInv, Transmitters
<1>2. Cardinality({}) = 0 /\ Cardinality({tid}) = 1
  BY FS_EmptySet, FS_Singleton
<1> QED BY <1>1, <1>2 DEF OneTransmitter

\* The types of the pipe: what is in the buffer stays within its bounds.
PipeTypes == buf \in BOOLEAN /\ level \in 0 .. MaxLevel /\ started \in BOOLEAN

\* The types of the threads.
ThreadTypes ==
    /\ run \in BOOLEAN /\ tid \in Thread \cup {None}
    /\ thr \in [Thread -> {"new", "loop", "awake", "poll", "ended"}]

\* The types of the rest.
MainTypes ==
    /\ main \in {"idle", "join", "source", "buffer", "replace", "restart", "crashed"}
    /\ ac \in Codec \cup {None} /\ psize \in 1 .. MaxPacket
    /\ src \in {"off", "idle", "poll", "telev"}

\* A packet that is taken leaves what is not negative.
LEMMA TakePacketTypes ==
  ASSUME level \in 0 .. MaxLevel, psize \in 1 .. MaxPacket, TakePacket
  PROVE  level' \in 0 .. MaxLevel
BY AudioTxAssumption DEF TakePacket

\* start_source keeps the types of what it touches.
LEMMA OpenSourceTypes ==
  ASSUME PipeTypes, ThreadTypes, OpenSource
  PROVE  PipeTypes' /\ ThreadTypes' /\ src' \in {src, "idle"}
<1>1. run' = run /\ tid' = tid /\ thr' = thr => ThreadTypes'
  BY Zenon DEF ThreadTypes
<1>2. ASSUME CreateThread PROVE ThreadTypes'
  <2>1. ASSUME NEW t \in Thread, run', tid' = t, thr' = [thr EXCEPT ![t] = "loop"]
        PROVE  ThreadTypes'
    <3>1. run' \in BOOLEAN
      BY <2>1, Zenon
    <3>. QED BY <2>1, <3>1 DEF ThreadTypes
  <2>2. ASSUME run', tid' = None, thr' = thr PROVE ThreadTypes'
    <3>1. run' \in BOOLEAN
      BY <2>2, Zenon
    <3>. QED BY <2>2, <3>1 DEF ThreadTypes
  <2>. QED BY <1>1, <1>2, <2>1, <2>2, Zenon DEF CreateThread, thread
<1>3. ThreadTypes'
  BY <1>1, <1>2, Zenon DEF OpenSource, thread
<1>4. buf' \in BOOLEAN /\ started' \in BOOLEAN
  BY Zenon DEF OpenSource, PipeTypes
<1>5. level' \in 0 .. MaxLevel
  BY AudioTxAssumption DEF OpenSource, PipeTypes
<1>6. src' \in {src, "idle"}
  BY Zenon DEF OpenSource
<1>. QED BY <1>3, <1>4, <1>5, <1>6 DEF PipeTypes

\* The types hold at first.
LEMMA TypesInit == Init => TypeOK
<1>1. Init => {buf, started, run} \subseteq BOOLEAN
  BY Zenon DEF Init
<1>. QED BY <1>1, AudioTxAssumption DEF Init, TypeOK, None

\* Every step keeps the types.
LEMMA TypesNext == TypeOK /\ [Next]_vars => TypeOK'
<1> SUFFICES ASSUME TypeOK, [Next]_vars PROVE TypeOK'
  OBVIOUS
<1>1. PipeTypes /\ ThreadTypes /\ MainTypes
  BY DEF TypeOK, PipeTypes, ThreadTypes, MainTypes
<1>2. PipeTypes' /\ ThreadTypes' /\ MainTypes' => TypeOK'
  BY DEF TypeOK, PipeTypes, ThreadTypes, MainTypes
<1>3. UNCHANGED pipe => PipeTypes'
  BY <1>1, Zenon DEF pipe, PipeTypes
<1>4. UNCHANGED thread => ThreadTypes'
  BY <1>1, Zenon DEF thread, ThreadTypes
<1>5. UNCHANGED <<main, ac, psize, src>> => MainTypes'
  BY <1>1 DEF MainTypes
<1>6. ASSUME NEW step \in {"loop", "awake", "poll", "ended"}, NEW t \in Thread,
             thr' = [thr EXCEPT ![t] = step], run' = run, tid' = tid
      PROVE  ThreadTypes'
  <2>1. run' \in BOOLEAN
    BY <1>1, <1>6, Zenon DEF ThreadTypes
  <2>. QED BY <1>1, <1>6, <2>1 DEF ThreadTypes
<1>7. ASSUME level' \in 0 .. MaxLevel, buf' = buf, started' \in BOOLEAN PROVE PipeTypes'
  BY <1>1, <1>7, Zenon DEF PipeTypes
<1>8. CASE UNCHANGED vars
  BY <1>2, <1>3, <1>4, <1>5, <1>8 DEF vars, pipe, thread
<1>9. CASE Start
  <2>1. PipeTypes' /\ ThreadTypes' /\ src' \in {src, "idle"}
    BY <1>1, <1>9, OpenSourceTypes DEF Start
  <2>2. MainTypes'
    BY <1>1, <1>9, <2>1 DEF Start, MainTypes
  <2>. QED BY <1>2, <2>1, <2>2
<1>10. CASE Stop
  <2>1. UNCHANGED pipe /\ tid' = tid /\ thr' = thr /\ run' \in BOOLEAN
    BY <1>1, <1>10, Zenon DEF Stop, ThreadTypes
  <2>2. ThreadTypes'
    BY <1>1, <2>1 DEF ThreadTypes
  <2>3. MainTypes'
    <3>1. main' \in {"join", "source"} /\ ac' = ac /\ psize' = psize /\ src' = src
      BY <1>10, Zenon DEF Stop
    <3>. QED BY <1>1, <3>1 DEF MainTypes
  <2>. QED BY <1>2, <1>3, <2>1, <2>2, <2>3
<1>11. CASE Join
  BY <1>1, <1>2, <1>3, <1>4, <1>11 DEF Join, MainTypes
<1>12. CASE CloseSource
  BY <1>1, <1>2, <1>3, <1>4, <1>12 DEF CloseSource, MainTypes
<1>13. CASE FreeBuffer
  <2>1. buf' \in BOOLEAN /\ started' \in BOOLEAN /\ UNCHANGED thread
    BY <1>1, <1>13, Zenon DEF FreeBuffer, PipeTypes
  <2>2. level' \in 0 .. MaxLevel
    BY <1>13, AudioTxAssumption DEF FreeBuffer
  <2>3. MainTypes'
    BY <1>1, <1>13 DEF FreeBuffer, MainTypes
  <2>. QED BY <1>2, <1>4, <2>1, <2>2, <2>3 DEF PipeTypes
<1>14. CASE Encode
  <2>1. CASE OpenSource
    <3>1. PipeTypes' /\ ThreadTypes' /\ src' \in {src, "idle"}
      BY <1>1, <2>1, OpenSourceTypes
    <3>2. MainTypes'
      BY <1>1, <1>14, <3>1 DEF Encode, MainTypes
    <3>. QED BY <1>2, <3>1, <3>2
  <2>2. CASE UNCHANGED <<src, pipe, thread>>
    BY <1>1, <1>2, <1>3, <1>4, <1>14, <2>2 DEF Encode, MainTypes
  <2>. QED BY <1>14, <2>1, <2>2 DEF Encode
<1>15. ASSUME NEW c \in Codec, EncoderSet(c) PROVE TypeOK'
  <2>1. UNCHANGED <<pipe, thread, psize>> /\ main' = "replace" /\ ac' = c /\ src' \in {src, "off"}
    BY <1>15, Zenon DEF EncoderSet
  <2>. QED BY <1>1, <1>2, <1>3, <1>4, <2>1 DEF MainTypes
<1>16. ASSUME NEW n \in 1 .. MaxPacket, Ptime(n) PROVE TypeOK'
  BY <1>1, <1>2, <1>3, <1>4, <1>16 DEF Ptime, MainTypes
<1>17. CASE Deliver
  <2>1. UNCHANGED thread /\ buf' = buf /\ started' \in BOOLEAN
    BY <1>17, Zenon DEF Deliver
  <2>2. level' \in 0 .. MaxLevel
    BY <1>1, <1>17, AudioTxAssumption DEF Deliver, PipeTypes
  <2>3. MainTypes'
    BY <1>1, <1>17 DEF Deliver, MainTypes
  <2>. QED BY <1>2, <1>4, <1>7, <2>1, <2>2, <2>3
<1>18. CASE SourcePoll
  <2>1. UNCHANGED thread /\ buf' = buf /\ started' \in BOOLEAN
    BY <1>1, <1>18, Zenon DEF SourcePoll, PipeTypes
  <2>2. level' \in 0 .. MaxLevel
    BY <1>1, <1>18, TakePacketTypes DEF SourcePoll, PipeTypes, MainTypes
  <2>3. MainTypes'
    BY <1>1, <1>18 DEF SourcePoll, MainTypes
  <2>. QED BY <1>2, <1>4, <1>7, <2>1, <2>2, <2>3
<1>19. CASE CheckTelev
  BY <1>1, <1>2, <1>3, <1>4, <1>19 DEF CheckTelev, MainTypes
<1>20. ASSUME NEW t \in Thread, Transmit(t) PROVE TypeOK'
  <2>1. \E step \in {"loop", "awake", "poll", "ended"} : thr' = [thr EXCEPT ![t] = step]
    BY <1>20, Zenon DEF Transmit, ThreadLoop, ThreadWake, ThreadPoll
  <2>2. UNCHANGED <<main, ac, psize, src, run, tid, buf, started>>
    BY <1>20, Zenon DEF Transmit, ThreadLoop, ThreadWake, ThreadPoll, pipe
  <2>3. level' = level \/ TakePacket
    BY <1>20, Zenon DEF Transmit, ThreadLoop, ThreadWake, ThreadPoll, pipe
  <2>4. level' \in 0 .. MaxLevel
    BY <1>1, <2>3, TakePacketTypes DEF PipeTypes, MainTypes
  <2>5. PipeTypes'
    <3>1. started' \in BOOLEAN /\ buf' = buf
      BY <1>1, <2>2, Zenon DEF PipeTypes
    <3>. QED BY <1>7, <2>4, <3>1
  <2>6. ThreadTypes'
    <3>1. run' = run /\ tid' = tid
      BY <2>2, Zenon
    <3>. QED BY <1>6, <2>1, <3>1
  <2>. QED BY <1>2, <1>5, <2>2, <2>5, <2>6
<1>. QED
  BY <1>8, <1>9, <1>10, <1>11, <1>12, <1>13, <1>14, <1>15, <1>16, <1>17, <1>18, <1>19, <1>20
  DEF Next, Stopping, Source

\* For any number of threads and any codecs: nobody works on a buffer that stop_tx has
\* released, and there is never a second transmit thread.
THEOREM BufferSafe == Spec => []BufferOutlivesAll
BY UsersInit, UsersNext, UsersSafe, PTL DEF Spec
=============================================================================
