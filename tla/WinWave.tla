------------------------------ MODULE WinWave ------------------------------
(***************************************************************************)
(* Playback with the Windows wave driver: alloc fills the buffers from the *)
(* main thread, the callback of the driver refills each buffer that was    *)
(* played. Both run dsp_write without a lock; the destructor waits until   *)
(* the count of buffers in use is zero. A step per access to what is       *)
(* shared.                                                                  *)
(***************************************************************************)
EXTENDS Integers, Sequences, FiniteSets

CONSTANTS
    WriteBuffers,   \* WRITE_BUFFERS
    Writes,         \* calls of dsp_write in alloc
    Faults          \* "early": a buffer is played before alloc is over; "write": waveOutWrite fails

\* What is assumed of the constants; the module that gives them values asserts it.
\* There are four buffers and five writes in the code; with a single buffer, or a single write,
\* the device could be closed while its callback is about to queue a buffer.
WinWaveAssumption ==
    /\ WriteBuffers \in Nat /\ WriteBuffers >= 2 /\ Writes \in Nat /\ Writes >= 2
    /\ Faults \subseteq {"early", "write"}

VARIABLES
    rdy, pos, inuse,   \* of the state
    prepared,          \* buffers whose header has WHDR_PREPARED
    queue,             \* buffers the driver has, in the order they are played
    kicks,             \* writes that alloc has still to do
    step,              \* per thread, "main" and "driver": where it is
    buf,               \* per thread: the buffer it writes
    count              \* per thread: the count it read before it changes it

vars == <<rdy, pos, inuse, prepared, queue, kicks, step, buf, count>>
Buffers == 0 .. WriteBuffers - 1
Threads == {"main", "driver"}

\* After waveOutOpen, which calls back with WOM_OPEN.
Init ==
    /\ rdy = TRUE /\ pos = 0 /\ inuse = 0 /\ prepared = {} /\ queue = <<>> /\ kicks = Writes
    /\ step = [main |-> "idle", driver |-> "idle"]
    /\ buf = [t \in Threads |-> 0] /\ count = [t \in Threads |-> 0]

Go(t, from, to) == step[t] = from /\ step' = [step EXCEPT ![t] = to]

-----------------------------------------------------------------------------
(* dsp_write, by either thread. *)

WriteReady(t) ==
    /\ Go(t, "write", IF rdy THEN "take" ELSE "idle")
    /\ UNCHANGED <<rdy, pos, inuse, prepared, queue, kicks, buf, count>>

\* Mutant: a buffer is filled although the driver still has it.
WriteTakeAny(t) ==
    /\ Go(t, "take", "fill") /\ buf' = [buf EXCEPT ![t] = pos]
    /\ UNCHANGED <<rdy, pos, inuse, prepared, queue, kicks, count>>

WriteTake(t) ==
    /\ Go(t, "take", IF pos \in prepared THEN "idle" ELSE "fill")
    /\ buf' = [buf EXCEPT ![t] = pos]
    /\ UNCHANGED <<rdy, pos, inuse, prepared, queue, kicks, count>>
\* The write handler fills the buffer, then its header is prepared.
WriteFill(t) ==
    /\ Go(t, "fill", "out")
    /\ prepared' = prepared \cup {buf[t]} /\ pos' = (pos + 1) % WriteBuffers
    /\ UNCHANGED <<rdy, inuse, queue, kicks, buf, count>>
WriteOut(t) ==
    /\ \/ Go(t, "out", "count") /\ queue' = Append(queue, buf[t])
       \/ "write" \in Faults /\ Go(t, "out", "idle") /\ UNCHANGED queue
    /\ count' = [count EXCEPT ![t] = inuse]
    /\ UNCHANGED <<rdy, pos, inuse, prepared, kicks, buf>>
WriteCount(t) ==
    /\ Go(t, "count", "idle") /\ inuse' = count[t] + 1
    /\ UNCHANGED <<rdy, pos, prepared, queue, kicks, buf, count>>

-----------------------------------------------------------------------------
(* alloc and the destructor, in the main thread. *)

Kick ==
    /\ kicks > 0 /\ Go("main", "idle", "write") /\ kicks' = kicks - 1
    /\ UNCHANGED <<rdy, pos, inuse, prepared, queue, buf, count>>
\* Mutant: the device stays ready, so that the callback goes on to refill.
DestroyKeepsReady ==
    /\ kicks = 0 /\ Go("main", "idle", "wait")
    /\ UNCHANGED <<rdy, pos, inuse, prepared, queue, kicks, buf, count>>

Destroy ==
    /\ kicks = 0 /\ Go("main", "idle", "wait") /\ rdy' = FALSE
    /\ UNCHANGED <<pos, inuse, prepared, queue, kicks, buf, count>>

\* Mutant: the destructor does not wait for the buffers.
DestroyAtOnce ==
    /\ Go("main", "wait", "close")
    /\ UNCHANGED <<rdy, pos, inuse, prepared, queue, kicks, buf, count>>

\* waveOutReset, the buffers are given back and the device is closed.
Destroyed ==
    /\ inuse = 0 /\ Go("main", "wait", "close")
    /\ UNCHANGED <<rdy, pos, inuse, prepared, queue, kicks, buf, count>>

-----------------------------------------------------------------------------
(* The driver calls back with WOM_DONE, for one buffer after the other. *)

Done ==
    /\ queue # <<>> /\ Go("driver", "idle", "done")
    /\ "early" \in Faults \/ (kicks = 0 /\ step["main"] \in {"idle", "wait", "close"})
    /\ prepared' = prepared \ {Head(queue)} /\ queue' = Tail(queue)
    /\ count' = [count EXCEPT !["driver"] = inuse]
    /\ UNCHANGED <<rdy, pos, inuse, kicks, buf>>

\* Mutant: the buffer that came back is not counted.
DoneUncounted ==
    /\ Go("driver", "done", "write")
    /\ UNCHANGED <<rdy, pos, inuse, prepared, queue, kicks, buf, count>>

DoneCount ==
    /\ Go("driver", "done", "write") /\ inuse' = count["driver"] - 1
    /\ UNCHANGED <<rdy, pos, prepared, queue, kicks, buf, count>>

Write(t) == WriteReady(t) \/ WriteTake(t) \/ WriteFill(t) \/ WriteOut(t) \/ WriteCount(t)
Driver == Done \/ DoneCount \/ Write("driver")
Next == Kick \/ Write("main") \/ Destroy \/ Destroyed \/ Driver

\* The driver plays what it has; the destructor polls.
Spec == Init /\ [][Next]_vars /\ WF_vars(Driver) /\ WF_vars(Destroyed)

-----------------------------------------------------------------------------
TypeOK ==
    /\ rdy \in BOOLEAN /\ pos \in Buffers /\ inuse \in -1 .. WriteBuffers + 1
    /\ prepared \subseteq Buffers /\ queue \in Seq(Buffers) /\ Len(queue) <= WriteBuffers
    /\ kicks \in 0 .. Writes /\ buf \in [Threads -> Buffers]
    /\ step \in [Threads -> {"idle", "write", "take", "fill", "out", "count", "wait", "close", "done"}]
    /\ \A i, j \in DOMAIN queue : queue[i] = queue[j] => i = j

\* The driver's callback and the write handler never fill samples into a buffer that the
\* driver plays.
FillsOwn ==
    \A t \in Threads : step[t] = "fill" => \A i \in DOMAIN queue : queue[i] # buf[t]

\* The destructor frees the buffers only when the driver has returned all of them, and
\* no callback is about to queue one.
ClosesEmpty ==
    step["main"] = "close" => queue = <<>> /\ step["driver"] \in {"idle", "write"}

\* Releasing the device ends.
CloseEnds == step["main"] = "wait" ~> step["main"] = "close"
=============================================================================
