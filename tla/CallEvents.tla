----------------------------- MODULE CallEvents -----------------------------
(***************************************************************************)
(* What a User-Agent promises to the handlers of its UA events (ua_event): *)
(* the order in which the events of one call may be delivered.  This is    *)
(* all that an application such as the menu module sees of a call.         *)
(*                                                                         *)
(* UaCalls implements it; Menu is built on it.                             *)
(***************************************************************************)
CONSTANT Call

VARIABLES
    ev,   \* the last event delivered for each call object
    dir   \* direction of each call in the list of calls, "none" if it is not there

evars == <<ev, dir>>

NoEvent == "none"

EventsOK ==
    /\ ev \in [Call -> {NoEvent, "INCOMING", "RINGING", "PROGRESS", "ESTABLISHED", "CLOSED"}]
    /\ dir \in [Call -> {"none", "in", "out"}]

\* The events that may follow e on a call in direction d.  An incoming call that
\* is answered automatically is never announced as INCOMING.
Follow(d, e) ==
    CASE d = "in"  /\ e = NoEvent     -> {"INCOMING", "ESTABLISHED"}
      [] d = "in"  /\ e = "INCOMING"  -> {"ESTABLISHED"}
      [] d = "out" /\ e \in {NoEvent, "RINGING", "PROGRESS"}
                                      -> {"RINGING", "PROGRESS", "ESTABLISHED"}
      [] OTHER                        -> {}

Begin(c, d, e) ==
    /\ dir[c] = "none"
    /\ e \in {NoEvent} \cup (IF d = "in" THEN {"INCOMING"} ELSE {})
    /\ dir' = [dir EXCEPT ![c] = d]
    /\ ev' = [ev EXCEPT ![c] = e]

Tell(c, e) ==
    /\ e \in Follow(dir[c], ev[c])
    /\ ev' = [ev EXCEPT ![c] = e]
    /\ UNCHANGED dir

\* CLOSED ends the call.  It is also the only event of an incoming call that is
\* turned down before it is announced.
Close(c) ==
    /\ ev' = [ev EXCEPT ![c] = "CLOSED"]
    /\ dir' = [dir EXCEPT ![c] = "none"]

Init ==
    /\ ev = [c \in Call |-> NoEvent]
    /\ dir = [c \in Call |-> "none"]

Next == \E c \in Call :
    \/ \E d \in {"in", "out"}, e \in {NoEvent, "INCOMING"} : Begin(c, d, e)
    \/ \E e \in {"INCOMING", "RINGING", "PROGRESS", "ESTABLISHED"} : Tell(c, e)
    \/ Close(c)

Spec == Init /\ [][Next]_evars
=============================================================================
