----------------------------- MODULE GstSource -----------------------------
(***************************************************************************)
(* The audio source over GStreamer (modules gst and gst1). A thread runs   *)
(* the GLib main loop, whose bus handler sees errors and the end of the    *)
(* stream; the streaming thread of the pipeline delivers the samples; the   *)
(* destructor runs in baresip's main loop.                                  *)
(***************************************************************************)
EXTENDS Integers

CONSTANTS
    BusErrors,   \* BOOLEAN: the pipeline may fail
    Hasty,       \* BOOLEAN: the source may be released before its loop is entered
    MaxBuffer    \* bound: packets in the audio buffer

\* What is assumed of the constants; the module that gives them values asserts it.
GstSourceAssumption == {BusErrors, Hasty} \subseteq BOOLEAN /\ MaxBuffer \in Nat \ {0}

VARIABLES
    run,      \* st->run
    main,     \* alloc, up, quit, join, null, freed
    thread,   \* none, play, while, enter, loop, quit, end: step of the thread
    looping,  \* the GLib loop is running
    playing,  \* state of the pipeline
    stream,   \* step of the streaming thread: idle, fill, empty
    packets   \* packets in the buffer

vars == <<run, main, thread, looping, playing, stream, packets>>

Init ==
    /\ run = FALSE /\ main = "alloc" /\ thread = "none" /\ looping = FALSE /\ playing = FALSE
    /\ stream = "idle" /\ packets = 0

-----------------------------------------------------------------------------
(* The thread and, within its loop, the bus handler. *)

T(from, to) == thread = from /\ thread' = to /\ UNCHANGED <<main, stream, packets>>
Play == T("play", "while") /\ playing' = TRUE /\ UNCHANGED <<run, looping>>

\* Mutant: the loop is entered again whatever the flag says.
WhileForever == T("while", "enter") /\ UNCHANGED <<run, looping, playing>>

While == T("while", IF run THEN "enter" ELSE "end") /\ UNCHANGED <<run, looping, playing>>
Enter == T("enter", "loop") /\ looping' = TRUE /\ UNCHANGED <<run, playing>>
Leave == ~looping /\ T("loop", "while") /\ UNCHANGED <<run, looping, playing>>

\* The end of the stream: starts again, or leaves the loop.
Eos ==
    /\ playing /\ looping /\ T("loop", "loop")
    /\ looping' = run /\ UNCHANGED <<run, playing>>
\* An error: the handler of the application, then the flag, then the loop.
BusError ==
    /\ BusErrors /\ playing /\ looping /\ T("loop", "quit")
    /\ run' = FALSE /\ UNCHANGED <<looping, playing>>
BusQuit == T("quit", "loop") /\ looping' = FALSE /\ UNCHANGED <<run, playing>>

-----------------------------------------------------------------------------
(* The streaming thread. *)

S(from, to) == stream = from /\ stream' = to /\ UNCHANGED <<run, main, thread, looping, playing>>
\* A buffer is handed off; it fills one packet or more, and is emptied at once.
Handoff ==
    /\ playing /\ S("idle", IF run THEN "empty" ELSE "idle")
    /\ packets' \in (IF run THEN packets + 1 .. MaxBuffer ELSE {packets})

\* Mutant: the buffer is emptied to the end, whether the source is released or not.
EmptyAll ==
    /\ stream = "empty" /\ packets > 0 /\ packets' = packets - 1
    /\ UNCHANGED <<run, main, thread, looping, playing, stream>>

\* Plays a packet and waits; ends when less than a packet is left or the source stops.
Empty ==
    \/ run /\ packets > 1 /\ S("empty", "empty") /\ packets' = packets - 1
    \/ run /\ packets <= 1 /\ S("empty", "idle") /\ packets' = 0
    \/ ~run /\ S("empty", "idle") /\ UNCHANGED packets

-----------------------------------------------------------------------------
(* The main loop. *)

M(from, to) == main = from /\ main' = to /\ UNCHANGED <<stream, packets>>
Alloc ==
    \/ M("alloc", "up") /\ run' = TRUE /\ thread' = "play" /\ UNCHANGED <<looping, playing>>
    \/ M("alloc", "null") /\ UNCHANGED <<run, thread, looping, playing>>

\* Mutant: the destructor does not wait for the thread.
ReleaseNoJoin ==
    /\ Hasty \/ thread \notin {"play", "while", "enter"}
    /\ M("up", "null") /\ run' = FALSE /\ looping' = FALSE
    /\ UNCHANGED <<thread, playing>>

Release ==
    /\ Hasty \/ thread \notin {"play", "while", "enter"}
    /\ M("up", IF run THEN "quit" ELSE "null") /\ run' = FALSE
    /\ UNCHANGED <<thread, looping, playing>>
\* g_main_loop_quit: without effect on a loop that is not running yet.
Quit == M("quit", "join") /\ looping' = FALSE /\ UNCHANGED <<run, thread, playing>>
Join == thread = "end" /\ M("join", "null") /\ thread' = "none" /\ UNCHANGED <<run, looping, playing>>
\* Stops the pipeline, which waits for the streaming thread; then the memory is freed.
Null == stream = "idle" /\ M("null", "freed") /\ playing' = FALSE /\ UNCHANGED <<run, thread, looping>>

Thread == Play \/ While \/ Enter \/ Leave \/ BusQuit
Next == Thread \/ Eos \/ BusError \/ Handoff \/ Empty \/ Alloc \/ Release \/ Quit \/ Join \/ Null
Spec == Init /\ [][Next]_vars /\ WF_vars(Thread) /\ WF_vars(Empty) /\ WF_vars(Quit \/ Join \/ Null)

-----------------------------------------------------------------------------
TypeOK ==
    /\ {run, looping, playing} \subseteq BOOLEAN /\ packets \in 0 .. MaxBuffer
    /\ main \in {"alloc", "up", "quit", "join", "null", "freed"}
    /\ thread \in {"none", "play", "while", "enter", "loop", "quit", "end"}
    /\ stream \in {"idle", "empty"} /\ (stream = "empty" => playing /\ packets > 0)

\* Neither the thread nor the pipeline use the source after it was freed.
OutlivesThreads == main = "freed" => thread \in {"none", "end"} /\ stream = "idle"

\* The running flag is set as long as the thread runs that the destructor must join.
RunningFlag == main = "up" /\ thread \notin {"none", "end"} => run

\* Releasing the source ends.
ReleaseEnds == main \in {"quit", "join", "null"} ~> main = "freed"
=============================================================================
