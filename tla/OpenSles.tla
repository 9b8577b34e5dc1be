------------------------------ MODULE OpenSles ------------------------------
(***************************************************************************)
(* The player and the recorder of the Android build. Both have a ring of   *)
(* buffers and hand one buffer at a time to the engine, whose callback     *)
(* hands out the next. The player starts the game by calling the callback  *)
(* itself, in the main thread, while the engine may already call back.     *)
(***************************************************************************)
EXTENDS Integers, Sequences

CONSTANTS
    PlayBuffers,    \* N_PLAY_QUEUE_BUFFERS
    RecBuffers,     \* N_REC_QUEUE_BUFFERS
    MaxRestart      \* bound: times the recorder is started

\* What is assumed of the constants; the module that gives them values asserts it.
OpenSlesAssumption == {PlayBuffers, RecBuffers} \subseteq Nat \ {0} /\ MaxRestart \in Nat

VARIABLES
    bufferId,   \* of the player
    queue,      \* buffers the engine plays
    at, id,     \* per thread ("main", "engine"): step and number read in the callback
    recId,      \* of the recorder
    recQueue,   \* buffers the engine records into
    recAt,      \* step of the recorder's callback
    recDone,    \* the buffer that was recorded last
    starts      \* times the recorder was started

player == <<bufferId, queue, at, id>>
recorder == <<recId, recQueue, recAt, recDone, starts>>
vars == <<player, recorder>>

Init ==
    /\ bufferId = 0 /\ queue = <<>> /\ at = [main |-> "create", engine |-> "none"]
    /\ id = [main |-> 0, engine |-> 0]
    /\ recId = 0 /\ recQueue = <<>> /\ recAt = "off" /\ recDone = 0 /\ starts = 0

-----------------------------------------------------------------------------
(* The player. *)

Go(t, from, to) == at[t] = from /\ at' = [at EXCEPT ![t] = to] /\ UNCHANGED recorder

\* createOutput and createPlayer, then the kick-start; or one of them fails.
Create ==
    /\ Go("main", "create", "fill") \/ Go("main", "create", "none")
    /\ UNCHANGED <<bufferId, queue, id>>

\* bqPlayerCallback: the write handler fills the buffer, the buffer is queued, the next
\* number is read and written.
Fill(t) == Go(t, "fill", "enqueue") /\ UNCHANGED <<bufferId, queue, id>>

\* Mutant: the callback keeps two buffers in the queue.
EnqueueTwo(t) ==
    /\ Go(t, "enqueue", "next")
    /\ queue' = queue \o <<bufferId, (bufferId + 1) % PlayBuffers>> /\ id' = [id EXCEPT ![t] = bufferId]
    /\ UNCHANGED bufferId

Enqueue(t) ==
    /\ Go(t, "enqueue", "next")
    /\ queue' = Append(queue, bufferId) /\ id' = [id EXCEPT ![t] = bufferId]
    /\ UNCHANGED bufferId

\* Mutant: the number runs past the ring.
NextNoWrap(t) ==
    /\ Go(t, "next", "none") /\ bufferId' = id[t] + 1 /\ UNCHANGED <<queue, id>>

NextBuffer(t) ==
    /\ Go(t, "next", "none") /\ bufferId' = (id[t] + 1) % PlayBuffers /\ UNCHANGED <<queue, id>>

\* The engine has played a buffer and calls back.
Played ==
    /\ queue # <<>> /\ Go("engine", "none", "fill") /\ queue' = Tail(queue)
    /\ UNCHANGED <<bufferId, id>>

-----------------------------------------------------------------------------
(* The recorder. *)

\* startRecording.
StartRecording ==
    /\ recAt = "off" /\ starts < MaxRestart
    /\ recId' = 0 /\ recQueue' = <<0>> /\ recAt' = "none" /\ starts' = starts + 1
    /\ UNCHANGED <<recDone, player>>
Recorded ==
    /\ recAt = "none" /\ recQueue # <<>>
    /\ recDone' = Head(recQueue) /\ recQueue' = Tail(recQueue) /\ recAt' = "read"
    /\ UNCHANGED <<recId, starts, player>>

\* Mutant: the number moves on before the samples are read.
RecNext == recId' = (recId + 1) % RecBuffers
ReadLate ==
    /\ recAt = "read" /\ recAt' = "rotate" /\ RecNext
    /\ UNCHANGED <<recQueue, recDone, starts, player>>

\* bqRecorderCallback: the read handler has the samples of the current buffer, then the
\* next buffer is cleared and queued.
Read ==
    /\ recAt = "read" /\ recAt' = "rotate"
    /\ UNCHANGED <<recId, recQueue, recDone, starts, player>>
Rotate ==
    /\ recAt = "rotate" /\ RecNext /\ recAt' = "none" /\ recQueue' = Append(recQueue, recId')
    /\ UNCHANGED <<recDone, starts, player>>
\* The recorder is destroyed; no callback runs any more.
Destroy ==
    /\ recAt \in {"none"} /\ recAt' = "off" /\ recQueue' = <<>> /\ recId' = 0
    /\ UNCHANGED <<recDone, starts, player>>

Callback == \E t \in {"main", "engine"} : Fill(t) \/ Enqueue(t) \/ NextBuffer(t)
Next == Create \/ Callback \/ Played \/ StartRecording \/ Recorded \/ Read \/ Rotate \/ Destroy
Spec == Init /\ [][Next]_vars

-----------------------------------------------------------------------------
TypeOK ==
    /\ bufferId \in 0 .. PlayBuffers - 1 /\ recId \in 0 .. RecBuffers - 1
    /\ queue \in Seq(0 .. PlayBuffers - 1) /\ recQueue \in Seq(0 .. RecBuffers - 1)
    /\ at \in [{"main", "engine"} -> {"create", "fill", "enqueue", "next", "none"}]
    /\ id \in [{"main", "engine"} -> 0 .. PlayBuffers - 1]
    /\ recAt \in {"off", "none", "read", "rotate"} /\ recDone \in 0 .. RecBuffers - 1
    /\ starts \in 0 .. MaxRestart

\* The samples of a buffer are never overwritten while the engine has it to play, although
\* the kick-start and the engine's own callback may move bufferId at the same time.
FillsUnqueued ==
    \A t \in DOMAIN at : at[t] \in {"fill", "enqueue"} => \A i \in DOMAIN queue : queue[i] # bufferId

\* The read handler sees the buffer that was just recorded, and nothing records into it.
ReadsRecorded ==
    [][Read => recId' = recDone /\ recQueue = <<>>]_vars
=============================================================================
