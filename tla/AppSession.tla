----------------------------- MODULE AppSession -----------------------------
(***************************************************************************)
(* The Android application around the calls: the SIP thread posts each     *)
(* call event to the looper of the event thread (JniTools.handle,          *)
(* EventThread), which opens and drives session screens (SessionActivity); *)
(* the user answers, hangs up, dials and leaves screens. The native side   *)
(* of JniTools is what the signatures and UaCalls say: hangup and answer   *)
(* act on the current call, the last one.                                  *)
(***************************************************************************)
EXTENDS Integers, Sequences, SequencesExt

CONSTANTS
    Call,         \* calls of a run
    MaxScreens,   \* bound on the session screens
    Loopers       \* event threads that are started: one per MainActivity.onCreate

\* What is assumed of the constants; the module that gives them values asserts it.
AppSessionAssumption == MaxScreens \in Nat /\ Loopers \in Nat \ {0}

VARIABLES
    state,    \* of each call: new, ringing (comes in), calling, up or over
    live,     \* the calls of the User-Agent, the current one last
    loopers,  \* event threads in Looper.loop
    queue,    \* the messages of each looper: of an event and its call
    screens,  \* the session screens: type, condition, their timer and its tasks
    mSess,    \* EventThread.mSess, 0 for null
    cdr,      \* how often a call is in the call log
    crash     \* the exception that ended the application, or none

vars == <<state, live, loopers, queue, screens, mSess, cdr, crash>>

Screen == [type : {"in", "out"}, is : {"starting", "shown", "finished"}, surface : BOOLEAN,
           timer : {"ready", "cancelled"}, tasks : Nat]
TypeOK ==
    /\ state \in [Call -> {"new", "ringing", "calling", "up", "over"}]
    /\ ToSet(live) = {c \in Call : state[c] \in {"ringing", "calling", "up"}} /\ IsInjective(live)
    /\ loopers \in 0 .. Loopers
    /\ queue \in [1 .. Loopers -> Seq([ev : {"incoming", "established", "closed"}, call : Call])]
    /\ screens \in Seq(Screen) /\ mSess \in 0 .. Len(screens)
    /\ cdr \in [Call -> Nat]
    /\ crash \in {"none", "no handler", "no screen", "timer cancelled"}

\* MainActivity.onCreate.
Init ==
    /\ state = [c \in Call |-> "new"] /\ live = <<>>
    /\ loopers = 0 /\ queue = [l \in 1 .. Loopers |-> <<>>]
    /\ screens = <<>> /\ mSess = 0
    /\ cdr = [c \in Call |-> 0] /\ crash = "none"

Running == crash = "none"

\* EventThread.run: mHandler is that of the thread that came last. mLoopRun, which
\* should keep a second one out, is never set.
LooperStarts ==
    /\ Running /\ loopers < Loopers
    /\ loopers' = loopers + 1
    /\ UNCHANGED <<state, live, queue, screens, mSess, cdr, crash>>

-----------------------------------------------------------------------------
(* The SIP thread. *)

\* JniTools.handle.
Post(ev, c) ==
    IF loopers = 0 THEN crash' = "no handler" /\ UNCHANGED queue
    ELSE queue' = [queue EXCEPT ![loopers] = Append(@, [ev |-> ev, call |-> c])] /\ UNCHANGED crash

Incoming(c) ==
    /\ Running /\ state[c] = "new"
    /\ state' = [state EXCEPT ![c] = "ringing"] /\ live' = Append(live, c)
    /\ Post("incoming", c)
    /\ UNCHANGED <<loopers, screens, mSess, cdr>>

\* The peer answers.
Established(c) ==
    /\ Running /\ state[c] = "calling"
    /\ state' = [state EXCEPT ![c] = "up"]
    /\ Post("established", c)
    /\ UNCHANGED <<live, loopers, screens, mSess, cdr>>

Over(c) == state' = [state EXCEPT ![c] = "over"] /\ live' = RemoveFirst(live, c)

\* The peer or the network ends a call.
Closed(c) ==
    /\ Running /\ c \in ToSet(live)
    /\ Over(c) /\ Post("closed", c)
    /\ UNCHANGED <<loopers, screens, mSess, cdr>>

\* jni.hangup: the current call, if there is one.
JniHangup ==
    IF live = <<>> THEN UNCHANGED <<state, live, queue, crash>>
    ELSE Over(Last(live)) /\ Post("closed", Last(live))

-----------------------------------------------------------------------------
(* The event thread. *)

\* startActivity for a session screen; its onCreate comes later.
StartScreen(type) ==
    screens' = Append(screens, [type |-> type, is |-> "starting", surface |-> FALSE,
                                timer |-> "ready", tasks |-> 0])

Take(l) == queue[l] # <<>> /\ Running

\* handleMessage of UA_EVENT_CALL_INCOMING: notify_incoming.
HandleIncoming(l) ==
    /\ Take(l) /\ Head(queue[l]).ev = "incoming" /\ Len(screens) < MaxScreens
    /\ StartScreen("in")
    /\ queue' = [queue EXCEPT ![l] = Tail(@)]
    /\ UNCHANGED <<state, live, loopers, mSess, cdr, crash>>

\* handleMessage of UA_EVENT_CALL_ESTABLISHED: established of the session screen
\* starts to count the seconds; a timer that was cancelled throws.
HandleEstablished(l) ==
    /\ Take(l) /\ Head(queue[l]).ev = "established"
    /\ queue' = [queue EXCEPT ![l] = Tail(@)]
    /\ IF mSess = 0 THEN crash' = "no screen" /\ UNCHANGED screens
       ELSE IF screens[mSess].timer = "cancelled" THEN crash' = "timer cancelled" /\ UNCHANGED screens
       ELSE screens' = [screens EXCEPT ![mSess].tasks = @ + 1] /\ UNCHANGED crash
    /\ UNCHANGED <<state, live, loopers, mSess, cdr>>

\* SessionActivity.hangup but for the call.
Finish(i) == screens' = [screens EXCEPT ![i].timer = "cancelled", ![i].is = "finished"]

\* Mutant: the call is put into the log when its screen hangs up.
HandleClosedLate(l) ==
    /\ Take(l) /\ Head(queue[l]).ev = "closed"
    /\ LET c == Head(queue[l]).call
           after == [queue EXCEPT ![l] = Tail(@)]
       IN  /\ cdr' = IF live = <<>> THEN [cdr EXCEPT ![c] = @ + 1] ELSE cdr
           /\ IF mSess = 0 THEN crash' = "no screen" /\ queue' = after /\ UNCHANGED <<state, live, screens>>
              ELSE Finish(mSess) /\ queue' = after /\ UNCHANGED <<state, live, crash>>
    /\ UNCHANGED <<loopers, mSess>>

\* handleMessage of UA_EVENT_CALL_CLOSED: the call log, then hangup of the session
\* screen, which hangs up what is current by now.
HandleClosed(l) ==
    /\ Take(l) /\ Head(queue[l]).ev = "closed"
    /\ cdr' = [cdr EXCEPT ![Head(queue[l]).call] = @ + 1]
    /\ LET after == [queue EXCEPT ![l] = Tail(@)]
       IN  IF mSess = 0
           THEN crash' = "no screen" /\ queue' = after /\ UNCHANGED <<state, live, screens>>
           ELSE /\ Finish(mSess)
                /\ IF live = <<>> THEN queue' = after /\ UNCHANGED <<state, live>>
                   ELSE /\ Over(Last(live))
                        /\ queue' = [after EXCEPT ![loopers] =
                                        Append(@, [ev |-> "closed", call |-> Last(live)])]
                /\ UNCHANGED crash
    /\ UNCHANGED <<loopers, mSess>>

-----------------------------------------------------------------------------
(* The user and the screens. *)

\* DialActivity: the call button.
Dial ==
    /\ Running /\ Len(screens) < MaxScreens
    /\ StartScreen("out")
    /\ UNCHANGED <<state, live, loopers, queue, mSess, cdr, crash>>

\* DialActivity: the button that hangs up; the session screen hears of it by CLOSED.
DialHangup ==
    /\ Running /\ JniHangup
    /\ UNCHANGED <<loopers, screens, mSess, cdr>>

\* SessionActivity.onCreate.
OnCreate(i) ==
    /\ Running /\ i \in DOMAIN screens /\ screens[i].is = "starting"
    /\ screens' = [screens EXCEPT ![i].is = "shown"]
    /\ mSess' = i
    /\ UNCHANGED <<state, live, loopers, queue, cdr, crash>>

\* surfaceCreated: the screen of a call that goes out dials.
SurfaceCreated(i) ==
    /\ Running /\ i \in DOMAIN screens /\ screens[i].is = "shown" /\ ~screens[i].surface
    /\ screens' = [screens EXCEPT ![i].surface = TRUE]
    /\ IF screens[i].type = "in" THEN UNCHANGED <<state, live>>
       ELSE \E c \in Call : /\ state[c] = "new"
                            /\ state' = [state EXCEPT ![c] = "calling"] /\ live' = Append(live, c)
    /\ UNCHANGED <<loopers, queue, mSess, cdr, crash>>

\* The user leaves the screen for another application.
SurfaceDestroyed(i) ==
    /\ Running /\ i \in DOMAIN screens /\ screens[i].is = "shown" /\ screens[i].surface
    /\ screens' = [screens EXCEPT ![i].surface = FALSE]
    /\ UNCHANGED <<state, live, loopers, queue, mSess, cdr, crash>>

\* SessionActivity.hangup by a button.
UserHangup(i) ==
    /\ Running /\ i \in DOMAIN screens /\ screens[i].is = "shown"
    /\ JniHangup /\ Finish(i)
    /\ UNCHANGED <<loopers, mSess, cdr>>

\* SessionActivity.answer.
UserAnswer(i) ==
    /\ Running /\ i \in DOMAIN screens /\ screens[i].is = "shown"
    /\ live # <<>> /\ state[Last(live)] = "ringing"
    /\ state' = [state EXCEPT ![Last(live)] = "up"]
    /\ Post("established", Last(live))
    /\ UNCHANGED <<live, loopers, screens, mSess, cdr>>

Next ==
    \/ LooperStarts
    \/ \E c \in Call : Incoming(c) \/ Established(c) \/ Closed(c)
    \/ \E l \in 1 .. Loopers : HandleIncoming(l) \/ HandleEstablished(l) \/ HandleClosed(l)
    \/ Dial \/ DialHangup
    \/ \E i \in 1 .. MaxScreens : \/ OnCreate(i) \/ SurfaceCreated(i) \/ SurfaceDestroyed(i)
                                  \/ UserHangup(i) \/ UserAnswer(i)
Spec == Init /\ [][Next]_vars

-----------------------------------------------------------------------------
Waiting(ev, c) == \E l \in 1 .. Loopers : \E i \in DOMAIN queue[l] : queue[l][i] = [ev |-> ev, call |-> c]

\* Every call that is over is in the call log once, or will be when its event is
\* handled, however the hangups of the user, the peer and the event thread cross.
LoggedOnce ==
    Running => \A c \in Call : cdr[c] = IF state[c] = "over" /\ ~Waiting("closed", c) THEN 1 ELSE 0

\* The end of a call is told after all else of it by each looper, and once.
ClosedIsLast ==
    \A l \in 1 .. Loopers : \A i, j \in DOMAIN queue[l] :
        i < j /\ queue[l][i].ev = "closed" => queue[l][j].call # queue[l][i].call

\* "prevent starting several at the same time" (EventThread.run).
OneLooper == loopers <= 1

\* "one briefly sees that the call is established and then ends" (EventThread): the
\* event of a call that is established does not end the application.
EstablishedIsShown == crash # "timer cancelled"

\* "only UA_EVENT_CALL_CLOSED is triggered" when the user declines a call
\* (EventThread): the end of one call ends no other.
EndsOnlyItsCall ==
    [][\A c, d \in Call : c # d /\ cdr'[c] > cdr[c] => ~(state[d] # "over" /\ state'[d] = "over")]_vars

\* "calling..." (SessionActivity.onCreate): a screen that is shown has a call, or an
\* event that will end it is on its way.
ScreenHasCall ==
    Running /\ mSess # 0 /\ screens[mSess].is = "shown" /\ screens[mSess].type = "in" =>
        live # <<>> \/ \E c \in Call : Waiting("closed", c)
=============================================================================
