----------------------------- MODULE FakeVideo -----------------------------
(***************************************************************************)
(* The video source of the Android application: camera threads hand their  *)
(* frames to my_vidsrc_update, which passes them on to the source that the *)
(* global pointer names. The main loop allocates and releases sources; each *)
(* source brings its own mutex along.                                       *)
(***************************************************************************)
EXTENDS Integers

CONSTANTS
    Cameras,      \* threads that deliver frames
    MaxSources    \* bound: sources allocated one after the other

ASSUME FakeVideoAssumption == MaxSources \in Nat \ {0} /\ "none" \notin Cameras

VARIABLES
    g,       \* g_vidsrc_st: a source or 0
    n,       \* sources allocated so far
    src,     \* per source: none, half (before frameh and mutex are set), up, closing, freed
    owner,   \* per source: who holds its mutex, a camera, "main" or "none"
    main,    \* step of the main loop
    at,      \* step of a camera thread
    locked,  \* the source whose mutex a camera took or waits for
    late     \* history: a camera got the mutex of a source that was released meanwhile

vars == <<g, n, src, owner, main, at, locked, late>>
Sources == 1 .. MaxSources
Free == "none"

Init ==
    /\ g = 0 /\ n = 0 /\ src = [s \in Sources |-> "none"] /\ owner = [s \in Sources |-> Free]
    /\ main = "idle" /\ at = [c \in Cameras |-> "idle"] /\ locked = [c \in Cameras |-> 0]
    /\ late = FALSE

-----------------------------------------------------------------------------
(* The main loop: src_alloc and src_destructor. *)

\* The pointer is set before the source is set up.
Alloc ==
    /\ main = "idle" /\ n < MaxSources
    /\ n' = n + 1 /\ g' = n + 1 /\ src' = [src EXCEPT ![n + 1] = "half"] /\ main' = "setup"
    /\ UNCHANGED <<owner, at, locked, late>>
Setup ==
    /\ main = "setup" /\ main' = "up" /\ src' = [src EXCEPT ![n] = "up"]
    /\ UNCHANGED <<g, n, owner, at, locked, late>>
\* vidframe_alloc fails, or the owner releases the source.
Release ==
    /\ main = "up" /\ main' = "lock"
    /\ UNCHANGED <<g, n, src, owner, at, locked, late>>

\* Mutant: the destructor does not take the lock.
DestroyUnlocked ==
    /\ main = "lock"
    /\ g' = 0 /\ main' = "destroy" /\ src' = [src EXCEPT ![n] = "closing"]
    /\ UNCHANGED <<n, owner, at, locked, late>>

\* Mutant: the pointer keeps the source that goes away.
DestroyKeepsPointer ==
    /\ main = "lock" /\ owner[n] = Free
    /\ main' = "destroy" /\ src' = [src EXCEPT ![n] = "closing"]
    /\ UNCHANGED <<g, n, owner, at, locked, late>>

\* src_destructor up to the end of its critical section.
Destroy ==
    /\ main = "lock" /\ owner[n] = Free
    /\ g' = 0 /\ main' = "destroy" /\ src' = [src EXCEPT ![n] = "closing"]
    /\ UNCHANGED <<n, owner, at, locked, late>>
\* pthread_mutex_destroy, and the memory is given back.
Destroyed ==
    /\ main = "destroy" /\ main' = "idle" /\ src' = [src EXCEPT ![n] = "freed"]
    /\ UNCHANGED <<g, n, owner, at, locked, late>>

-----------------------------------------------------------------------------
(* A camera thread: my_vidsrc_update or my_vidsrc_update_h264. *)

Go(c, step) == at' = [at EXCEPT ![c] = step] /\ UNCHANGED <<n, src, main>>

Update(c) ==
    /\ at[c] = "idle" /\ g # 0 /\ Go(c, "evaluate")
    /\ UNCHANGED <<g, owner, locked, late>>
\* The argument of pthread_mutex_lock reads the pointer again.
Evaluate(c) ==
    /\ at[c] = "evaluate" /\ Go(c, IF g = 0 THEN "crash" ELSE "lock")
    /\ locked' = [locked EXCEPT ![c] = g]
    /\ UNCHANGED <<g, owner, late>>
\* Mutant: a lock that lets two cameras in.
LockNoWait(c) ==
    /\ at[c] = "lock" /\ src[locked[c]] # "freed" /\ owner[locked[c]] # "main"
    /\ owner' = [owner EXCEPT ![locked[c]] = c] /\ Go(c, "check")
    /\ late' = (late \/ locked[c] # g)
    /\ UNCHANGED <<g, locked>>

Lock(c) ==
    /\ at[c] = "lock"
    /\ IF src[locked[c]] = "freed"
       THEN Go(c, "crash") /\ UNCHANGED <<owner, late>>
       ELSE /\ owner[locked[c]] = Free /\ owner' = [owner EXCEPT ![locked[c]] = c]
            /\ Go(c, "check") /\ late' = (late \/ locked[c] # g)
    /\ UNCHANGED <<g, locked>>

\* Unlocks the mutex of the source that the pointer names by now.
Unlocked == IF g = 0 THEN owner ELSE [owner EXCEPT ![g] = Free]
\* Sources with a frame handler.
Ready == {s \in Sources : src[s] # "half"}
NoSource(c) ==
    /\ at[c] = "check" /\ g \notin Ready
    /\ Go(c, IF g = 0 THEN "crash" ELSE "idle") /\ owner' = Unlocked
    /\ locked' = [locked EXCEPT ![c] = 0] /\ UNCHANGED <<g, late>>
Handle(c) ==
    /\ at[c] = "check" /\ g \in Ready
    /\ Go(c, "handler") /\ UNCHANGED <<g, owner, locked, late>>

\* The frame handler has returned.
Handled(c) ==
    /\ at[c] = "handler"
    /\ Go(c, IF g = 0 THEN "crash" ELSE "idle") /\ owner' = Unlocked
    /\ locked' = [locked EXCEPT ![c] = 0] /\ UNCHANGED <<g, late>>

Main == Alloc \/ Setup \/ Release \/ Destroy \/ Destroyed
Camera(c) == Update(c) \/ Evaluate(c) \/ Lock(c) \/ NoSource(c) \/ Handle(c) \/ Handled(c)
Next == Main \/ \E c \in Cameras : Camera(c)
Spec == Init /\ [][Next]_vars

-----------------------------------------------------------------------------
TypeOK ==
    /\ g \in 0 .. MaxSources /\ n \in 0 .. MaxSources
    /\ src \in [Sources -> {"none", "half", "up", "closing", "freed"}]
    /\ owner \in [Sources -> Cameras \cup {Free}]
    /\ main \in {"idle", "setup", "up", "lock", "destroy"}
    /\ at \in [Cameras -> {"idle", "evaluate", "lock", "check", "handler", "crash"}]
    /\ locked \in [Cameras -> 0 .. MaxSources] /\ late \in BOOLEAN
    /\ g # 0 => src[g] \in {"half", "up"}
    /\ \A c \in Cameras : at[c] = "lock" => locked[c] # 0

\* A camera that took the lock of the source that is up has that source until its frame
\* handler returns: the source cannot go away in the middle of a frame.
FrameKeepsSource ==
    \A c \in Cameras : at[c] = "handler" => g # 0 /\ src[g] = "up" /\ locked[c] = g

\* The frame handler (the encoder behind it) works for one camera at a time.
OneFrame == \A c, d \in Cameras : at[c] = "handler" /\ at[d] = "handler" => c = d

\* Both hold as long as no camera waited for the mutex of a source until that source was
\* released: my_vidsrc_update looks at the pointer again after the lock, but not whether it
\* is still the source whose mutex it has.
FramesAreSafe == late \/ (OneFrame /\ FrameKeepsSource)

\* A frame that comes when there is no source is dropped.
NullIsDropped == \A c \in Cameras : at[c] # "crash"
=============================================================================
