-------------------------------- MODULE Menu --------------------------------
(***************************************************************************)
(* The menu module (modules/menu/menu.c): what it does with the events of  *)
(* the calls of a User-Agent.  It plays the tones, keeps the dynamic part  *)
(* of the command menu and the call status timer in step with the calls,   *)
(* and dials again when an outgoing call was lost.                         *)
(*                                                                         *)
(* The calls are those of CallEvents, which UaCalls implements: an event   *)
(* step of CallEvents and ua_event_handler are one step, for ua_event      *)
(* calls the handler.  The list of calls still holds the call while its    *)
(* CLOSED event is delivered (call_event_handler and ua_hangup release it  *)
(* afterwards).                                                            *)
(***************************************************************************)
EXTENDS Integers, FiniteSets

CONSTANTS
    Call,              \* names of call objects
    RedialAttempts,    \* config redial_attempts, 0 for no redialing
    RingbackDisabled,  \* config ringback_disabled
    Bell,              \* config menu_bell
    Manual             \* the account's answermode is manual

ASSUME MenuAssumption ==
    /\ RedialAttempts \in Nat
    /\ {RingbackDisabled, Bell, Manual} \subseteq BOOLEAN

VARIABLES
    ev, dir,   \* the calls, see CallEvents
    play,      \* menu.play: the tone being played
    alert,     \* tmr_alert is running
    stat,      \* tmr_stat is running
    incall,    \* the commands of a call are registered, not those of dialing
    dialbuf,   \* dialbuf holds a number
    redial,    \* menu.tmr_redial is running
    attempts,  \* menu.current_attempts, saturated just above redial_attempts
    redials    \* history: INVITEs sent by redial_handler since the last reset

calls == <<ev, dir>>
view == <<incall, stat>>
again == <<dialbuf, redial, attempts, redials>>
vars == <<calls, view, play, alert, again>>

E == INSTANCE CallEvents

Tone == {"none", "ring", "callwaiting", "ringback", "failure"}

\* call_scode of a call that is closed: none, one whose tone is not played
\* (487), one with a tone, and the code of a call whose media was lost.
Scode == {0, 487, 486, 701}

-----------------------------------------------------------------------------
(* The parts of ua_event_handler. *)

Active(d) == {c \in Call : d[c] # "none"}

\* Mutant: only calls that are established are active.
ShowEstablished(active) ==
    LET up == {c \in active : ev[c] = "ESTABLISHED"}
    IN  incall' = (up # {}) /\ stat' = (up # {})

\* The tail of ua_event_handler, menu_set_incall(have_active_calls()) and
\* update_callstatus(), when the calls in active are in the list.
Show(active) ==
    /\ incall' = (active # {})
    /\ stat' = (active # {})

\* Mutant: the redial timer is left running.
RedialKeepsTimer == attempts' = 0 /\ redials' = 0 /\ UNCHANGED <<dialbuf, redial>>

\* Mutant: an established call takes back one attempt.
RedialDecrement ==
    /\ redial' = FALSE
    /\ attempts' = attempts - 1
    /\ redials' = 0
    /\ UNCHANGED dialbuf

\* redial_reset.
RedialReset ==
    /\ redial' = FALSE
    /\ attempts' = 0
    /\ redials' = 0
    /\ UNCHANGED dialbuf

\* The end of a call that is in direction d: dial again if a redial is under way,
\* or if the call was outgoing and its media was lost.
RedialOnClose(d, scode) ==
    IF RedialAttempts # 0 /\ (attempts # 0 \/ (d = "out" /\ scode = 701))
    THEN /\ redial' = TRUE
         /\ attempts' = IF attempts > RedialAttempts THEN attempts ELSE attempts + 1
         /\ UNCHANGED <<dialbuf, redials>>
    ELSE UNCHANGED again

\* UA_EVENT_CALL_CLOSED for call c, which is still in the list.
Closed(c, scode) ==
    /\ play' = IF scode \in {486, 701} THEN "failure" ELSE "none"
    /\ alert' = FALSE
    /\ RedialOnClose(dir[c], scode)

-----------------------------------------------------------------------------
(* UA events. *)

\* UA_EVENT_CALL_INCOMING.  Without manual answer it is not delivered.
Incoming(c) ==
    /\ Manual
    /\ E!Begin(c, "in", "INCOMING") \/ E!Tell(c, "INCOMING")
    /\ play' = IF Cardinality(Active(dir')) > 1 THEN "callwaiting" ELSE "ring"
    /\ alert' = (alert \/ Bell)
    /\ Show(Active(dir'))
    /\ UNCHANGED again

\* UA_EVENT_CALL_RINGING.
Ringing(c) ==
    /\ E!Tell(c, "RINGING")
    /\ play' = IF RingbackDisabled THEN "none" ELSE "ringback"
    /\ Show(Active(dir))
    /\ UNCHANGED <<alert, again>>

\* UA_EVENT_CALL_PROGRESS has no case of its own: the tone goes on.
Progress(c) ==
    /\ E!Tell(c, "PROGRESS")
    /\ Show(Active(dir))
    /\ UNCHANGED <<play, alert, again>>

\* Mutant: the tone is not stopped.
EstablishedKeepsTone(c) ==
    /\ E!Tell(c, "ESTABLISHED")
    /\ RedialReset
    /\ Show(Active(dir))
    /\ UNCHANGED <<play, alert>>

\* UA_EVENT_CALL_ESTABLISHED.
Established(c) ==
    /\ E!Tell(c, "ESTABLISHED")
    /\ play' = "none"
    /\ alert' = FALSE
    /\ RedialReset
    /\ Show(Active(dir))

\* UA_EVENT_CALL_CLOSED from call_event_handler, also for an incoming call that
\* was turned down before it was announced.  Media is lost only after the call
\* was established.
CallClosed(c, scode) ==
    /\ E!Close(c)
    /\ scode = 701 => dir[c] # "none" /\ ev[c] = "ESTABLISHED"
    /\ Closed(c, scode)
    /\ Show(Active(dir) \cup {c})

\* Any other event but UNREGISTERING: registration, DTMF, a failed transfer.
OtherEvent ==
    /\ Show(Active(dir))
    /\ UNCHANGED <<calls, play, alert, again>>

-----------------------------------------------------------------------------
(* Calls that begin without an event: outgoing ones of this module or of the *)
(* application, and incoming ones that are answered automatically.           *)

\* dial_handler.
Dial(c) ==
    /\ E!Begin(c, "out", E!NoEvent) \/ UNCHANGED calls
    /\ dialbuf' = TRUE
    /\ UNCHANGED <<view, play, alert, redial, attempts, redials>>

\* ua_connect by the application or for a transfer.
OtherBegin(c) ==
    /\ \E d \in {"in", "out"} : E!Begin(c, d, E!NoEvent)
    /\ UNCHANGED <<view, play, alert, again>>

-----------------------------------------------------------------------------
(* Commands and timers. *)

\* cmd_answer.  The call answered is told of later.
CmdAnswer ==
    /\ play' = "none"
    /\ UNCHANGED <<calls, view, alert, again>>

\* cmd_hangup of the current call c.  ua_hangup gives no status code; after it
\* the menu is set once more, the status timer is not.
CmdHangup(c) ==
    /\ dir[c] # "none"
    /\ E!Close(c)
    /\ Closed(c, 0)
    /\ incall' = (Active(dir') # {})
    /\ stat' = TRUE

\* cmd_hangup when there is no call.
CmdHangupNone ==
    /\ Active(dir) = {}
    /\ play' = "none"
    /\ alert' = FALSE
    /\ incall' = FALSE
    /\ UNCHANGED <<calls, stat, again>>

\* Mutant: one attempt too many.
RedialOnceMore(c) ==
    /\ redial
    /\ redial' = FALSE
    /\ IF attempts > RedialAttempts + 1 \/ ~dialbuf
       THEN UNCHANGED <<calls, redials>>
       ELSE /\ E!Begin(c, "out", E!NoEvent) \/ UNCHANGED calls
            /\ redials' = redials + 1
    /\ UNCHANGED <<view, play, alert, dialbuf, attempts>>

\* redial_handler.  ua_connect may fail, and then nothing dials again until
\* another call is closed.
Redial(c) ==
    /\ redial
    /\ redial' = FALSE
    /\ IF attempts > RedialAttempts \/ ~dialbuf
       THEN UNCHANGED <<calls, redials>>
       ELSE /\ E!Begin(c, "out", E!NoEvent) \/ UNCHANGED calls
            /\ redials' = redials + 1
    /\ UNCHANGED <<view, play, alert, dialbuf, attempts>>

\* tmrstat_handler starts its timer again as long as there is a call.
StatTick ==
    /\ stat
    /\ stat' = (Active(dir) # {})
    /\ UNCHANGED <<calls, incall, play, alert, again>>

\* The player has played a tone as often as it was asked to.
ToneEnds ==
    /\ play \in {"callwaiting", "failure"}
    /\ play' = "none"
    /\ UNCHANGED <<calls, view, alert, again>>

-----------------------------------------------------------------------------

Init ==
    /\ E!Init
    /\ play = "none" /\ alert = FALSE
    /\ stat = FALSE /\ incall = FALSE
    /\ dialbuf = FALSE /\ redial = FALSE /\ attempts = 0 /\ redials = 0

CallNext(c) ==
    \/ Incoming(c) \/ Ringing(c) \/ Progress(c) \/ Established(c)
    \/ \E scode \in Scode : CallClosed(c, scode)
    \/ Dial(c) \/ OtherBegin(c) \/ CmdHangup(c) \/ Redial(c)

Next ==
    \/ \E c \in Call : CallNext(c)
    \/ OtherEvent \/ CmdAnswer \/ CmdHangupNone \/ StatTick \/ ToneEnds

Spec == Init /\ [][Next]_vars

-----------------------------------------------------------------------------
(* Properties. *)

\* Every variable has its type.
TypeOK ==
    /\ E!EventsOK
    /\ play \in Tone
    /\ alert \in BOOLEAN /\ stat \in BOOLEAN /\ incall \in BOOLEAN
    /\ dialbuf \in BOOLEAN /\ redial \in BOOLEAN
    /\ attempts \in 0..(RedialAttempts + 1)
    /\ redials \in Nat

\* A tone without end, and the bell, never outlives the calls it is played for,
\* whatever other calls do meanwhile: ring.wav and the bell need an incoming call
\* not yet established, ringback.wav an outgoing one (ua_event_handler).
TonesHaveCalls ==
    /\ play = "ring" \/ alert => \E c \in Call : dir[c] = "in" /\ ev[c] = "INCOMING"
    /\ play = "ringback" => \E c \in Call : dir[c] = "out" /\ ev[c] \in {"RINGING", "PROGRESS"}

\* While a call the handlers were told of exists, the commands of a call are
\* registered and the status timer runs, however many other calls were closed
\* (menu_set_incall, update_callstatus, tmrstat_handler).
CallIsShown ==
    (\E c \in Call : dir[c] # "none" /\ ev[c] # E!NoEvent) => incall /\ stat

\* Between two resets redial_handler dials at most redial_attempts times.
RedialsBounded == redials <= RedialAttempts

\* Each redial, sent or pending, was counted once, at the end of a call: none is
\* pending when the count is zero, in particular after a call was established
\* (redial_reset), and none is counted twice.
RedialsCounted == redials + (IF redial THEN 1 ELSE 0) <= attempts

\* Redialing is bounded, and each redial was counted.
RedialsAreRight == RedialsBounded /\ RedialsCounted

\* What the comment of ua_event_handler says: the redial timer is started only
\* for the end of an outgoing call.
RedialOnlyOutgoing ==
    [][~redial /\ redial' =>
         \E c \in Call : dir[c] = "out" /\ dir'[c] = "none"]_vars

\* What cmd_hangup takes care of, "must be called after ua_hangup()": when no call
\* is left, the commands of a call are not registered.
MenuFollowsCalls == (\A c \in Call : dir[c] = "none") => ~incall
=============================================================================
