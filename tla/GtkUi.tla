--------------------------------- MODULE GtkUi ---------------------------------
(***************************************************************************)
(* Module gtk, a user interface with a thread of its own: callbacks of GTK *)
(* put messages into queues of the main loop, one for the module and one   *)
(* for each call window, which dials, answers, hangs up and shows what the *)
(* calls tell. Both hold GTK's lock while they touch widgets, so such a    *)
(* section is one step; the timers of GLib run without it. GTK, and the    *)
(* calls of UaCalls, are external. What goes on after an access to freed   *)
(* memory was noted in wrong is what would happen if it were still there.  *)
(***************************************************************************)
EXTENDS Integers, Sequences

CONSTANTS
    MaxCalls, MaxQueue,   \* calls ever, messages that wait in a queue
    Faults   \* "other": another user interface is used too; "early": closed while it starts

\* What is assumed of the constants; the module that gives them values asserts it.
GtkUiAssumption ==
    {MaxCalls, MaxQueue} \subseteq Nat \ {0} /\ Faults \subseteq {"other", "early"}

VARIABLES
    thread,     \* gtk_thread: "starting", "running" (mod->run), "quit", "ended"
    main,       \* the main loop: "idle", in call_window_destructor, in module_close, or past it
    calls,      \* how many calls there were; the last one is the current one
    state,      \* a call: "none", "incoming", "answered", "out", "up", "ended" (CLOSED was told)
    notified,   \* mod->incoming_call_menus
    queue,      \* mod->mq
    ui,         \* what windows, meters and calls hold of each other
    wrong,      \* what was used after it was freed, or made twice
    alone,      \* no call began while there was another, or its window
    again       \* a window's clock was started while it ran

vars == <<thread, main, calls, state, notified, queue, ui, wrong, alone, again>>

CallNo == 1 .. MaxCalls
None == 0

\* struct call_window: st is "hidden" and "bare" in the steps of the destructor; tag is
\* duration_timer_tag, meter vumeter_timer_tag, vu the call whose meters it shows.
NoWindow == [st |-> "none", closed |-> FALSE, dialog |-> FALSE, mq |-> <<>>, tag |-> FALSE,
             meter |-> FALSE, vu |-> None]
Msg == {"close", "hold", "transfer"}
Window == [st : {"none", "open", "hidden", "bare", "freed"}, closed : BOOLEAN, dialog : BOOLEAN,
           mq : Seq(Msg), tag : BOOLEAN, meter : BOOLEAN, vu : CallNo \cup {None}]

TypeOK ==
    /\ thread \in {"starting", "running", "quit", "ended"}
    /\ main \in {"idle", "undo", "closing", "closed"} /\ calls \in 0 .. MaxCalls
    /\ state \in [CallNo -> {"none", "incoming", "answered", "out", "up", "ended"}]
    /\ notified \subseteq CallNo
    /\ queue \in Seq({"connect", "answer", "hangup"} \X (CallNo \cup {None}))
    /\ ui.win \in [CallNo -> Window]
    /\ ui.refs \in [CallNo -> 0 .. 2] /\ ui.clocks \in [CallNo -> 0 .. 2]
    /\ ui.audio \in [CallNo -> BOOLEAN] /\ {ui.lastWin, ui.lastVu} \subseteq CallNo \cup {None}
    /\ wrong \subseteq {"queued", "text", "meter", "timer", "call", "second"}
    /\ {alone, again} \subseteq BOOLEAN

\* refs counts the holders of a call, clocks the call_timer sources of its window; audio says
\* that the audio of the call has its meters; lastWin and lastVu are the static variables.
Init ==
    /\ thread = "starting" /\ main = "idle" /\ calls = 0 /\ state = [c \in CallNo |-> "none"]
    /\ notified = {} /\ queue = <<>>
    /\ ui = [win |-> [c \in CallNo |-> NoWindow], refs |-> [c \in CallNo |-> 0],
             clocks |-> [c \in CallNo |-> 0], audio |-> [c \in CallNo |-> FALSE],
             lastWin |-> None, lastVu |-> None]
    /\ wrong = {} /\ alone = TRUE /\ again = FALSE

Live(c) == state[c] \in {"incoming", "answered", "out", "up"}
Open(c) == ui.win[c].st = "open"
VuAlive(u, c) ==
    u.audio[c] \/ \E d \in CallNo : u.win[d].st \in {"open", "hidden"} /\ u.win[d].vu = c
When(cond, what) == IF cond THEN {what} ELSE {}

-----------------------------------------------------------------------------
\* call_window_set_vu_dec and _enc, which start the timer of the meters.
SetVu(w, c) == [w EXCEPT !.vu = c, !.meter = TRUE]

\* call_window_got_vu_dec and _enc: the filters of the audio of c are set up.
GotVu(u, c) ==
    LET v == [u EXCEPT !.audio[c] = TRUE]
    IN  IF u.audio[c] THEN u
        ELSE IF u.lastWin = None THEN [v EXCEPT !.lastVu = c]
        ELSE [v EXCEPT !.win[u.lastWin] = SetVu(@, c)]

\* call_window_new with got_call_window.
NewWindow(u, c) ==
    LET v == [u EXCEPT !.win[c] = [NoWindow EXCEPT !.st = "open"], !.refs[c] = @ + 1]
    IN  IF u.lastVu = None THEN [v EXCEPT !.lastWin = c]
        ELSE [v EXCEPT !.win[c] = SetVu(@, u.lastVu)]
DeadVu(u) == When(u.lastVu # None /\ ~VuAlive(u, u.lastVu), "meter")

\* get_create_call_window.
Shown(u, c) == IF u.win[c].st = "none" THEN NewWindow(u, c) ELSE u
ShownDead(u, c) == IF u.win[c].st = "none" THEN DeadVu(u) ELSE {}

\* call_window_progress and call_window_established: one more source of call_timer.
Ticking(u, c) ==
    [u EXCEPT !.win[c].tag = TRUE, !.clocks[c] = IF @ = 2 THEN 2 ELSE @ + 1, !.lastWin = c]

\* call_window_closed.
WindowClosed(u, c) ==
    [u EXCEPT !.win[c].closed = TRUE, !.win[c].tag = FALSE, !.win[c].meter = FALSE,
              !.win[c].dialog = FALSE, !.clocks[c] = IF u.win[c].tag THEN @ - 1 ELSE @]

\* The CLOSED event and the release by the User-Agent, for each end of a call.
CallClosed(u, c) ==
    LET v == [u EXCEPT !.audio[c] = FALSE]
        w == IF u.win[c].st = "open" THEN WindowClosed(v, c) ELSE v
    IN  [w EXCEPT !.refs[c] = @ - 1]
Denotified(c) == IF Open(c) THEN notified ELSE notified \ {c}

-----------------------------------------------------------------------------
Idle == main = "idle"

\* A call begins, with st.
Begins(st) ==
    /\ Idle /\ calls < MaxCalls /\ calls' = calls + 1
    /\ state' = [state EXCEPT ![calls + 1] = st]
    /\ alone' = (alone /\ \A d \in CallNo : ~Live(d) /\ ui.win[d].st \in {"none", "freed"})

\* UA_EVENT_CALL_INCOMING, if the handler is registered.
Incoming ==
    /\ Begins("incoming")
    /\ ui' = [ui EXCEPT !.refs[calls + 1] = 1]
    /\ notified' = IF thread = "running" THEN notified \cup {calls + 1} ELSE notified
    /\ UNCHANGED <<thread, main, queue, wrong, again>>

\* UA_EVENT_CALL_RINGING and UA_EVENT_CALL_PROGRESS, while the handler is registered; after
\* the latter early media brings the meters.
Progress(c, early) ==
    /\ Idle /\ state[c] = "out" /\ thread = "running"
    /\ ui' = IF early THEN GotVu(Ticking(Shown(ui, c), c), c) ELSE Shown(ui, c)
    /\ wrong' = wrong \cup ShownDead(ui, c)
    /\ again' = (again \/ (early /\ ui.clocks[c] > 0))
    /\ UNCHANGED <<thread, main, calls, state, notified, queue, alone>>

\* UA_EVENT_CALL_ESTABLISHED; the answer to our offer has started the audio before, which
\* brings the meters though no handler is registered yet.
Established(c) ==
    /\ Idle /\ state[c] \in {"answered", "out"}
    /\ state' = [state EXCEPT ![c] = "up"]
    /\ LET u == GotVu(ui, c)
       IN  IF thread = "running"
           THEN ui' = Ticking(Shown(u, c), c) /\ wrong' = wrong \cup ShownDead(u, c)
           ELSE ui' = u /\ UNCHANGED wrong
    /\ again' = (again \/ ui.clocks[c] > 0)
    /\ UNCHANGED <<thread, main, calls, notified, queue, alone>>

\* UA_EVENT_CALL_CLOSED, by the peer or a timer.
Closed(c) ==
    /\ Idle /\ Live(c) /\ state' = [state EXCEPT ![c] = "ended"]
    /\ ui' = CallClosed(ui, c) /\ notified' = Denotified(c)
    /\ UNCHANGED <<thread, main, calls, queue, wrong, alone, again>>

\* Another user interface: the menu dials, answers, or hangs up the last call of the list, in
\* which a call stays until nobody holds it.
Other ==
    /\ "other" \in Faults
    /\ \/ Begins("out") /\ ui' = [ui EXCEPT !.refs[calls + 1] = 1] /\ UNCHANGED notified
       \/ \E c \in CallNo :
             /\ Idle /\ state[c] = "incoming" /\ state' = [state EXCEPT ![c] = "answered"]
             /\ ui' = GotVu(ui, c) /\ UNCHANGED <<calls, notified, alone>>
       \/ \E c \in CallNo :
             /\ Idle /\ ui.refs[c] > 0 /\ \A d \in c + 1 .. MaxCalls : ui.refs[d] = 0
             /\ state' = [state EXCEPT ![c] = "ended"]
             /\ ui' = CallClosed(ui, c) /\ notified' = Denotified(c)
             /\ UNCHANGED <<calls, alone>>
    /\ UNCHANGED <<thread, main, queue, wrong, again>>

-----------------------------------------------------------------------------
\* Callbacks of the GTK thread.
Gtk == thread = "running" /\ UNCHANGED <<thread, main, calls, state, alone, again>>
Push(msg) == Len(queue) < MaxQueue /\ queue' = Append(queue, msg)
PushTo(c, msg) ==
    Len(ui.win[c].mq) < MaxQueue /\ ui' = [ui EXCEPT !.win[c].mq = Append(@, msg)]

\* menu_on_incoming_call_answer and _reject: the entry goes, whatever becomes of the message.
Choose(c, id) ==
    /\ Gtk /\ c \in notified /\ notified' = notified \ {c}
    /\ Push(<<id, c>>) /\ UNCHANGED <<ui, wrong>>

\* dial_dialog_on_response, menu_on_dial_contact.
Dial == Gtk /\ Push(<<"connect", None>>) /\ UNCHANGED <<notified, ui, wrong>>

\* call_on_hangup and call_on_window_close.
PressClose(c) == Gtk /\ Open(c) /\ PushTo(c, "close") /\ UNCHANGED <<notified, queue, wrong>>

\* call_on_hold_toggle and call_on_mute_toggle, insensitive when the call is over.
PressHold(c) ==
    /\ Gtk /\ Open(c) /\ ~ui.win[c].closed /\ Len(ui.win[c].mq) < MaxQueue
    /\ \E on \in BOOLEAN :
          ui' = [ui EXCEPT !.win[c].mq = Append(@, "hold"), !.win[c].meter = on]
    /\ UNCHANGED <<notified, queue, wrong>>

\* call_on_transfer, and on_dialog_response: the message is a pointer to the text of the dialog.
OpenDialog(c) ==
    /\ Gtk /\ Open(c) /\ ~ui.win[c].closed /\ ~ui.win[c].dialog
    /\ ui' = [ui EXCEPT !.win[c].dialog = TRUE] /\ UNCHANGED <<notified, queue, wrong>>
Transfer(c) ==
    /\ Gtk /\ Open(c) /\ ui.win[c].dialog /\ PushTo(c, "transfer")
    /\ UNCHANGED <<notified, queue, wrong>>

\* call_on_key_press and _release, call_timer, vumeter_timer: the call of the window, the
\* window and its meters are read. The timers run between the steps of the destructor, too.
Key(c) ==
    /\ Gtk /\ Open(c) /\ wrong' = wrong \cup When(ui.refs[c] = 0, "call")
    /\ UNCHANGED <<notified, queue, ui>>
Timer(c) ==
    /\ Gtk /\ (ui.clocks[c] > 0 \/ ui.win[c].meter)
    /\ LET w == ui.win[c]
           bad == \/ w.st = "freed"
                  \/ w.st = "bare" /\ ui.clocks[c] > 0 /\ ui.refs[c] = 0
                  \/ w.st = "bare" /\ w.meter /\ w.vu # None /\ ~VuAlive(ui, w.vu)
       IN  wrong' = wrong \cup When(bad, "timer")
    /\ UNCHANGED <<notified, queue, ui>>

-----------------------------------------------------------------------------
\* mqueue_handler of gtk_mod.c: dialing opens a window, or fails; a call to answer or to hang
\* up is a pointer from the time when the user chose.
Connect ==
    \/ /\ Begins("out")
       /\ LET u == [ui EXCEPT !.refs[calls + 1] = 1]
          IN  ui' = NewWindow(u, calls + 1) /\ wrong' = wrong \cup DeadVu(u)
       /\ UNCHANGED notified
    \/ UNCHANGED <<calls, state, ui, wrong, alone, notified>>

Answer(c) ==
    /\ UNCHANGED <<calls, alone, notified>>
    /\ IF ui.refs[c] = 0 THEN wrong' = wrong \cup {"queued"} /\ UNCHANGED <<state, ui>>
       ELSE IF ui.win[c].st # "none" THEN wrong' = wrong \cup {"second"} /\ UNCHANGED <<state, ui>>
       ELSE \/ UNCHANGED <<state, ui, wrong>>
            \/ /\ state' = IF state[c] = "incoming" THEN [state EXCEPT ![c] = "answered"] ELSE state
               /\ LET u == GotVu(ui, c)
                  IN  ui' = NewWindow(u, c) /\ wrong' = wrong \cup DeadVu(u)

Hangup(c) ==
    /\ UNCHANGED <<calls, alone>>
    /\ IF ui.refs[c] = 0 THEN wrong' = wrong \cup {"queued"} /\ UNCHANGED <<state, ui, notified>>
       ELSE /\ state' = [state EXCEPT ![c] = "ended"] /\ ui' = CallClosed(ui, c)
            /\ notified' = Denotified(c) /\ UNCHANGED wrong

Message ==
    /\ Idle /\ queue # <<>> /\ queue' = Tail(queue)
    /\ \/ Head(queue)[1] = "connect" /\ Connect
       \/ Head(queue)[1] = "answer" /\ Answer(Head(queue)[2])
       \/ Head(queue)[1] = "hangup" /\ Hangup(Head(queue)[2])
    /\ UNCHANGED <<thread, main, again>>

\* Mutant: a window whose call is over is not released.
CloseWindowKeeps(c) ==
    IF ui.win[c].closed
    THEN ui' = [ui EXCEPT !.win[c].mq = Tail(@)] /\ UNCHANGED <<state, main, wrong>>
    ELSE /\ ui' = [CallClosed(ui, c) EXCEPT !.win[c].st = "hidden", !.win[c].dialog = FALSE]
         /\ state' = [state EXCEPT ![c] = "ended"] /\ main' = "undo" /\ UNCHANGED wrong

\* mqueue_handler of call_window.c. MQ_CLOSE: hang up, then call_window_destructor as far as it
\* holds the lock.
CloseWindow(c) ==
    /\ LET u == IF ui.win[c].closed THEN ui ELSE CallClosed(ui, c)
       IN  ui' = [u EXCEPT !.win[c].st = "hidden", !.win[c].closed = TRUE, !.win[c].dialog = FALSE]
    /\ state' = [state EXCEPT ![c] = "ended"] /\ main' = "undo" /\ UNCHANGED wrong

WindowMessage(c) ==
    /\ Idle /\ Open(c) /\ ui.win[c].mq # <<>>
    /\ LET id == Head(ui.win[c].mq)
       IN  \/ id = "close" /\ CloseWindow(c)
           \/ /\ id # "close" /\ ui' = [ui EXCEPT !.win[c].mq = Tail(@)]
              /\ wrong' = wrong \cup When(ui.refs[c] = 0, "call")
                                \cup When(id = "transfer" /\ ~ui.win[c].dialog, "text")
              /\ UNCHANGED <<state, main>>
    /\ UNCHANGED <<thread, calls, notified, queue, alone, again>>

\* The rest of the destructor: the call, the queue and the meters are released, then the
\* timers are stopped and the last window is forgotten, whichever it was.
Bare(c) ==
    /\ main = "undo" /\ ui.win[c].st = "hidden"
    /\ wrong' = wrong \cup When(ui.refs[c] = 0, "call")
    /\ ui' = [ui EXCEPT !.win[c].st = "bare", !.win[c].mq = <<>>,
                        !.refs[c] = IF @ = 0 THEN 0 ELSE @ - 1]
    /\ UNCHANGED <<thread, main, calls, state, notified, queue, alone, again>>
Freed(c) ==
    /\ main = "undo" /\ ui.win[c].st = "bare" /\ main' = "idle"
    /\ ui' = [ui EXCEPT !.win[c] = [NoWindow EXCEPT !.st = "freed"], !.lastWin = None,
                        !.clocks[c] = IF ui.win[c].tag THEN @ - 1 ELSE @]
    /\ UNCHANGED <<thread, calls, state, notified, queue, wrong, alone, again>>

-----------------------------------------------------------------------------
\* gtk_thread up to gtk_main, and after it.
Start ==
    /\ thread = "starting" /\ thread' = "running"
    /\ UNCHANGED <<main, calls, state, notified, queue, ui, wrong, alone, again>>
GtkEnds ==
    /\ thread = "quit" /\ thread' = "ended"
    /\ UNCHANGED <<main, calls, state, notified, queue, ui, wrong, alone, again>>

\* module_close, when all calls are over: the thread is told to quit if it runs, and joined.
ModuleClose ==
    /\ Idle /\ \A c \in CallNo : ~Live(c)
    /\ thread = "running" \/ "early" \in Faults
    /\ main' = "closing" /\ thread' = IF thread = "running" THEN "quit" ELSE thread
    /\ UNCHANGED <<calls, state, notified, queue, ui, wrong, alone, again>>
Joined ==
    /\ main = "closing" /\ thread = "ended" /\ main' = "closed" /\ queue' = <<>>
    /\ UNCHANGED <<thread, calls, state, notified, ui, wrong, alone, again>>

Next ==
    \/ Incoming \/ Other \/ Dial \/ Message \/ Start \/ GtkEnds \/ ModuleClose \/ Joined
    \/ \E c \in CallNo :
          \/ Established(c) \/ Closed(c) \/ PressClose(c) \/ PressHold(c) \/ OpenDialog(c)
          \/ Transfer(c) \/ Key(c) \/ Timer(c) \/ WindowMessage(c) \/ Bare(c) \/ Freed(c)
          \/ \E early \in BOOLEAN : Progress(c, early)
          \/ \E id \in {"answer", "hangup"} : Choose(c, id)

\* The main loop handles what is queued, and both threads are scheduled.
Spec ==
    /\ Init /\ [][Next]_vars
    /\ \A c \in CallNo : WF_vars(WindowMessage(c)) /\ WF_vars(Bare(c) \/ Freed(c))
    /\ WF_vars(GtkEnds) /\ WF_vars(Joined)

-----------------------------------------------------------------------------
\* A window whose call is over says so, has no clock that it knows of and no dialog, and only
\* such a one is closed without hanging up (call_window_closed, MQ_CLOSE).
ClosedIsShown ==
    \A c \in CallNo : Open(c) =>
        /\ ui.win[c].closed <=> state[c] = "ended"
        /\ ui.win[c].closed => ~ui.win[c].tag /\ ~ui.win[c].dialog

\* An entry of the menu offers a call that can be answered, and a call that is offered stays
\* so until the user has chosen (notify_incoming_call, denotify_incoming_call).
EntriesAreLive == \A c \in notified : state[c] = "incoming"

\* A window's call is there as long as the window, and as nobody else is told to release it.
WindowHoldsCall ==
    (\A c \in CallNo : Open(c) => ui.refs[c] > 0) /\ "call" \notin wrong /\ "second" \notin wrong

\* No timer runs with a window that is freed, unless a second call or a second start of the
\* clock confused them.
TimerHasWindow == (alone /\ ~again) => "timer" \notin wrong

\* A window that is told to close is closed, while the program runs (MQ_CLOSE).
WindowsClose ==
    \A c \in CallNo :
        (\E i \in DOMAIN ui.win[c].mq : ui.win[c].mq[i] = "close")
            ~> ui.win[c].st = "freed" \/ main # "idle"

\* Unloading the module ends (module_close).
CloseEnds == main = "closing" ~> main = "closed"

\* Not kept by the code: a call that is to be answered may have ended meanwhile; the text of a
\* transfer goes with the dialog; the meters of the last call may be freed (call_window.c:153
\* calls the association a hack); a clock that was started twice runs on without its window;
\* and a call that is over stays in the User-Agent's list while a window shows it.
QueuedIsLive == "queued" \notin wrong
TextIsLive == "text" \notin wrong
MetersAreLive == "meter" \notin wrong
TimerHasWindowAlways == "timer" \notin wrong
ListedIsLive == \A c \in CallNo : ui.refs[c] > 0 => state[c] # "ended" \/ main # "idle"
================================================================================
