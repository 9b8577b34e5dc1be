---------------------------- MODULE AudioBridge ----------------------------
(***************************************************************************)
(* The bridge between a player and a source of the same device name: a     *)
(* thread reads from the player's end and hands the samples to the         *)
(* source's end. The thread looks at the two ends without a lock, a step   *)
(* per look; the ends come and go in the main loop.                        *)
(***************************************************************************)
EXTENDS FiniteSets, Integers

CONSTANTS Plays, Srcs   \* players and sources that may be allocated, each once

\* What is assumed of the constants; the module that gives them values asserts it.
AudioBridgeAssumption == Plays \cap Srcs = {} /\ "none" \notin Plays \cup Srcs

VARIABLES
    auplay, ausrc,   \* the ends the device knows, or None
    run,             \* dev->run
    thread,          \* step of the thread, "none" when there is none
    state,           \* per end: new, up, stopping or gone
    main             \* the end whose destructor waits for the thread, or None

vars == <<auplay, ausrc, run, thread, state, main>>
None == "none"
Ends == Plays \cup Srcs

Init ==
    /\ auplay = None /\ ausrc = None /\ run = FALSE /\ thread = None
    /\ state = [e \in Ends |-> "new"] /\ main = None

-----------------------------------------------------------------------------
\* play_alloc, src_alloc: a new end takes the place of the one before; the second end
\* starts the thread, or fails to.
Connect(e) ==
    /\ main = None /\ state[e] = "new"
    /\ auplay' = IF e \in Plays THEN e ELSE auplay
    /\ ausrc' = IF e \in Srcs THEN e ELSE ausrc
    /\ IF auplay' # None /\ ausrc' # None /\ ~run
       THEN run' = TRUE /\ thread' = "begin_play"
       ELSE UNCHANGED <<run, thread>>
    /\ state' = [state EXCEPT ![e] = "up"] /\ UNCHANGED main

\* The thread cannot be created: alloc fails and releases the end, which stops the device.
ConnectFails(e) ==
    /\ main = None /\ state[e] = "new" /\ ~run
    /\ e \in Plays => ausrc # None
    /\ e \in Srcs => auplay # None
    /\ auplay' = None /\ ausrc' = None /\ state' = [state EXCEPT ![e] = "gone"]
    /\ UNCHANGED <<run, thread, main>>

\* Mutant: only the end itself is forgotten, and nothing waits for the thread.
StopNoJoin(e) ==
    /\ main = None /\ state[e] = "up"
    /\ auplay' = None /\ ausrc' = None /\ run' = FALSE
    /\ state' = [state EXCEPT ![e] = "gone"] /\ UNCHANGED <<thread, main>>

\* Mutant: the device keeps its ends.
StopKeepsEnds(e) ==
    /\ main = None /\ state[e] = "up" /\ run' = FALSE
    /\ IF run
       THEN main' = e /\ state' = [state EXCEPT ![e] = "stopping"]
       ELSE main' = None /\ state' = [state EXCEPT ![e] = "gone"]
    /\ UNCHANGED <<auplay, ausrc, thread>>

\* The destructor of an end: device_stop up to the join.
Stop(e) ==
    /\ main = None /\ state[e] = "up"
    /\ auplay' = None /\ ausrc' = None /\ run' = FALSE
    /\ IF run
       THEN main' = e /\ state' = [state EXCEPT ![e] = "stopping"]
       ELSE main' = None /\ state' = [state EXCEPT ![e] = "gone"]
    /\ UNCHANGED thread
Joined ==
    /\ main # None /\ thread = "end"
    /\ state' = [state EXCEPT ![main] = "gone"] /\ main' = None /\ thread' = None
    /\ UNCHANGED <<auplay, ausrc, run>>

-----------------------------------------------------------------------------
(* The thread; "crash": a NULL pointer was followed. *)

T(from, to) == thread = from /\ thread' = to /\ UNCHANGED <<auplay, ausrc, run, state, main>>
Follow(end, from, to) == T(from, IF end = None THEN "crash" ELSE to)

\* The packet sizes and the resampler are set up from both ends; memory may run out.
BeginPlay == Follow(auplay, "begin_play", "begin_src")
BeginSrc == Follow(ausrc, "begin_src", "loop") \/ (ausrc # None /\ T("begin_src", "end"))

\* Mutant: the thread never looks at run.
LoopForever == T("loop", "look_play")
Loop == T("loop", IF run THEN "look_play" ELSE "end")
LookPlay == T("look_play", IF auplay # None THEN "write" ELSE "look_src")
Write == Follow(auplay, "write", "look_src")
LookSrc == T("look_src", IF ausrc # None THEN "read" ELSE "loop")
Read == Follow(ausrc, "read", "loop")
Thread == BeginPlay \/ BeginSrc \/ Loop \/ LookPlay \/ Write \/ LookSrc \/ Read

Next == (\E e \in Ends : Connect(e) \/ ConnectFails(e) \/ Stop(e)) \/ Joined \/ Thread
Spec == Init /\ [][Next]_vars /\ WF_vars(Thread) /\ WF_vars(Joined)

-----------------------------------------------------------------------------
TypeOK ==
    /\ auplay \in Plays \cup {None} /\ ausrc \in Srcs \cup {None} /\ run \in BOOLEAN
    /\ thread \in {None, "begin_play", "begin_src", "loop", "look_play", "write", "look_src", "read", "end", "crash"}
    /\ state \in [Ends -> {"new", "up", "stopping", "gone"}] /\ main \in Ends \cup {None}
    /\ \A e \in {auplay, ausrc} \ {None} : state[e] = "up"

\* A thread that works is known to the device: as long as an end may be called from it,
\* releasing that end (and with it the call that owns it) first waits for the thread.
ThreadIsKnown == thread \notin {None, "end", "crash"} => run \/ main # None

\* Releasing an end ends, unless the thread crashed.
StopEnds == main # None ~> main = None \/ thread = "crash"

\* The thread only works while the device has both of its ends.
RunsWithBoth == thread # "crash"

\* A player and a source of the same device are bridged.
BridgesBoth ==
    main = None /\ (\E p \in Plays : state[p] = "up") /\ (\E s \in Srcs : state[s] = "up") => run
=============================================================================
