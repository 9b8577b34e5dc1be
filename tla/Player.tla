------------------------------- MODULE Player -------------------------------
(***************************************************************************)
(* The player of tones and files (src/play.c): one player object, the      *)
(* device thread that asks it for samples, the timer that ends it and the  *)
(* user (the menu) that may release it at any time. A device is asked for  *)
(* one buffer of Frame samples at a time; a sample is its place in the     *)
(* tone, 0 is silence.                                                     *)
(***************************************************************************)
EXTENDS Integers, Sequences, SequencesExt

CONSTANTS
    Lengths,   \* lengths of the tones that are played, in samples
    Repeats,   \* values of repeat; negative for without end
    Frame,     \* samples of a buffer of the device
    MaxHeard   \* bound on the samples that are counted

\* What is assumed of the constants; the module that gives them values asserts it.
PlayerAssumption ==
    /\ Lengths \subseteq Nat \ {0} /\ Repeats \subseteq Int
    /\ Frame \in Nat \ {0} /\ MaxHeard \in Nat

VARIABLES
    phase,    \* the object: none, playing, closing (destructor waits) or freed
    length,   \* size of mb
    times,    \* repeat as given
    pos,      \* mb->pos
    repeat,   \* play->repeat
    eof,      \* play->eof
    lock,     \* who holds play->lock: none, device or main
    inside,   \* the device thread is inside write_handler
    left,     \* sz - pos: the samples that its buffer still takes
    running,  \* the device thread lives
    tmr,      \* the timer: off, polling (1000 ms) or stop (1 ms)
    heard     \* samples given to the device before the first silence

vars == <<phase, length, times, pos, repeat, eof, lock, inside, left, running, tmr, heard>>
sound == <<length, times, pos, repeat, heard>>

Init ==
    /\ phase = "none" /\ length = 0 /\ times = 0 /\ pos = 0 /\ repeat = 0
    /\ eof = FALSE /\ lock = "none" /\ inside = FALSE /\ left = 0 /\ running = FALSE
    /\ tmr = "off" /\ heard = 0

TypeOK ==
    /\ phase \in {"none", "playing", "closing", "freed"}
    /\ length \in Lengths \cup {0} /\ times \in Repeats \cup {0}
    /\ pos \in 0 .. length
    /\ repeat \in Repeats \cup Nat
    /\ eof \in BOOLEAN /\ inside \in BOOLEAN /\ running \in BOOLEAN
    /\ lock \in {"none", "device", "main"}
    /\ tmr \in {"off", "polling", "stop"}
    /\ heard \in 0 .. MaxHeard /\ left \in 0 .. Frame

\* play_tone of a tone of n samples, and play_file once aufile_load has read it. If
\* the device cannot be opened the object is released and nothing remains.
Play(n, r) ==
    /\ phase = "none"
    /\ length' = n /\ times' = r /\ repeat' = r
    /\ phase' = "playing" /\ running' = TRUE /\ tmr' = "polling"
    /\ UNCHANGED <<pos, eof, lock, inside, left, heard>>

\* The device thread calls write_handler, which takes the lock.
Enter ==
    /\ running /\ ~inside /\ lock = "none"
    /\ inside' = TRUE /\ lock' = "device" /\ left' = Frame
    /\ UNCHANGED <<phase, sound, eof, running, tmr>>

\* One round of the loop of write_handler: it copies what is there, or what the buffer
\* still takes; at the end of the tone it begins anew or has come to the end.
Copy ==
    /\ inside /\ ~eof /\ left > 0
    /\ LET count == IF length - pos > left THEN left ELSE length - pos
           more == IF repeat > 0 THEN repeat - 1 ELSE repeat
       IN  /\ heard + count <= MaxHeard \/ repeat < 0
           /\ heard' = IF repeat < 0 THEN heard ELSE heard + count
           /\ left' = left - count
           /\ IF left = count THEN pos' = pos + count /\ UNCHANGED <<repeat, eof>>
              ELSE IF more = 0 THEN pos' = pos + count /\ repeat' = 0 /\ eof' = TRUE
              ELSE pos' = 0 /\ repeat' = more /\ UNCHANGED eof
    /\ UNCHANGED <<phase, length, times, lock, inside, running, tmr>>

\* write_handler returns a full buffer, or silence after the end.
Leave ==
    /\ inside /\ (eof \/ left = 0)
    /\ inside' = FALSE /\ lock' = "none"
    /\ UNCHANGED <<phase, sound, left, eof, running, tmr>>

\* Mutant: the timer is not started again.
PollingOnce ==
    /\ tmr = "polling" /\ phase = "playing" /\ lock = "none"
    /\ tmr' = IF eof /\ repeat = 0 THEN "stop" ELSE "off"
    /\ UNCHANGED <<phase, sound, eof, lock, inside, left, running>>

\* tmr_polling.
Polling ==
    /\ tmr = "polling" /\ phase = "playing" /\ lock = "none"
    /\ tmr' = IF eof /\ repeat = 0 THEN "stop" ELSE "polling"
    /\ UNCHANGED <<phase, sound, eof, lock, inside, left, running>>

\* destructor up to the release of the device: the user releases the object.
Release ==
    /\ phase = "playing" /\ lock = "none"
    /\ tmr' = "off" /\ eof' = TRUE /\ phase' = "closing"
    /\ UNCHANGED <<sound, lock, inside, left, running>>

\* tmr_stop: the player releases the object itself.
TmrStop == tmr = "stop" /\ Release

\* The device ends its thread, which cannot be in the handler any more.
DeviceEnds ==
    /\ phase = "closing" /\ running /\ ~inside
    /\ running' = FALSE
    /\ UNCHANGED <<phase, sound, eof, lock, inside, left, tmr>>

\* The rest of destructor: mb and lock, after auplay.
Free ==
    /\ phase = "closing" /\ ~running
    /\ phase' = "freed"
    /\ UNCHANGED <<sound, eof, lock, inside, left, running, tmr>>

Done == phase = "freed" /\ UNCHANGED vars

Next ==
    \/ \E n \in Lengths, r \in Repeats : Play(n, r)
    \/ Enter \/ Copy \/ Leave \/ Polling \/ Release \/ TmrStop \/ DeviceEnds \/ Free \/ Done

\* The device thread and the timers of the main loop go on; the user need not do
\* anything. The lock is fair: a waiting main loop gets it some day (SF).
Fairness ==
    /\ WF_vars(Enter) /\ WF_vars(Copy) /\ WF_vars(Leave) /\ SF_vars(Polling) /\ SF_vars(TmrStop)
    /\ SF_vars(DeviceEnds) /\ WF_vars(Free)
Spec == Init /\ [][Next]_vars /\ Fairness

-----------------------------------------------------------------------------
\* A tone that came to its end was heard exactly as often as asked, and at least
\* once, wherever its end falls in the buffers of the device.
HeardAsAsked ==
    eof /\ phase = "playing" /\ times >= 0 =>
        heard = length * (IF times > 0 THEN times ELSE 1)

\* Neither the device thread nor a timer comes to an object whose buffer and lock
\* are gone.
NothingAfterFree ==
    /\ phase = "freed" => ~inside /\ ~running /\ lock = "none"
    /\ phase \in {"closing", "freed"} => tmr = "off"

\* A tone with an end ends by itself: the player releases it ("player complete").
PlayerCompletes == phase = "playing" /\ times >= 0 ~> phase = "freed"

\* A tone without end sounds until it is released.
SoundsUntilReleased == [][eof' /\ ~eof => times >= 0 \/ phase' = "closing"]_vars
=============================================================================
