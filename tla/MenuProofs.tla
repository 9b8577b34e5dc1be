----------------------------- MODULE MenuProofs -----------------------------
(***************************************************************************)
(* The invariants of Menu for any number of calls and any number of redial *)
(* attempts.  Together they are inductive: the redial counters need their  *)
(* types, the tones and the status view only the events of the calls.      *)
(* Then the safety of the windows of the module gtk, from GtkInv, which    *)
(* says of each call who holds it and what its window and messages are.    *)
(***************************************************************************)
EXTENDS MCMenu, SequenceTheorems, TLAPS

\* A step that leaves the redial state alone, resets it or counts a closed call
\* keeps the counters consistent.
CountersOK ==
    /\ dialbuf \in BOOLEAN /\ redial \in BOOLEAN
    /\ attempts \in 0..(RedialAttempts + 1) /\ redials \in Nat
    /\ RedialsBounded /\ RedialsCounted

\* What leaves the redial counters alone, resets them or redials keeps them consistent.
LEMMA CountersKept ==
  ASSUME CountersOK,
         \/ UNCHANGED again
         \/ RedialReset
         \/ \E d, s : RedialOnClose(d, s)
  PROVE  CountersOK'
<1>. USE MenuAssumption
<1>1. CASE UNCHANGED again
  BY <1>1 DEF again, CountersOK, RedialsBounded, RedialsCounted
<1>2. CASE RedialReset
  <2>1. dialbuf' \in BOOLEAN /\ redial' \in BOOLEAN
    BY <1>2 DEF RedialReset, CountersOK
  <2>2. redial' = FALSE /\ attempts' = 0 /\ redials' = 0
    BY <1>2 DEF RedialReset
  <2>. QED BY <2>1, <2>2 DEF CountersOK, RedialsBounded, RedialsCounted
<1>3. ASSUME NEW d, NEW s, RedialOnClose(d, s) PROVE CountersOK'
  <2>1. CASE UNCHANGED again
    BY <2>1 DEF again, CountersOK, RedialsBounded, RedialsCounted
  <2>2. CASE ~ UNCHANGED again
    <3>1. /\ redial' = TRUE /\ dialbuf' = dialbuf /\ redials' = redials
          /\ attempts' = IF attempts > RedialAttempts THEN attempts ELSE attempts + 1
      BY <1>3, <2>2, Zenon DEF RedialOnClose
    <3>2. CASE redial = TRUE
      BY <3>1, <3>2 DEF CountersOK, RedialsBounded, RedialsCounted
    <3>3. CASE redial = FALSE
      BY <3>1, <3>3 DEF CountersOK, RedialsBounded, RedialsCounted
    <3>. QED BY <3>2, <3>3 DEF CountersOK
  <2>. QED BY <2>1, <2>2
<1>. QED BY <1>1, <1>2, <1>3
-----------------------------------------------------------------------------
\* What the tones and the status view owe to the events of the calls.
ViewOK ==
    /\ E!EventsOK
    /\ play \in Tone
    /\ alert \in BOOLEAN /\ stat \in BOOLEAN /\ incall \in BOOLEAN
    /\ TonesHaveCalls
    /\ CallIsShown

IInv == ViewOK /\ CountersOK

\* After an event that stops the tone and the bell only the status view is left.
LEMMA QuietView ==
  ASSUME E!EventsOK', (play \in Tone)', (play \notin {"ring", "ringback"})',
         alert' = FALSE, (stat \in BOOLEAN)', (incall \in BOOLEAN)', CallIsShown'
  PROVE  ViewOK'
  BY DEF ViewOK, TonesHaveCalls

\* An event shows all the calls there are.
LEMMA ShowView ==
  ASSUME NEW S, Show(S), Active(dir') \subseteq S, E!EventsOK'
  PROVE  CallIsShown' /\ stat' \in BOOLEAN /\ incall' \in BOOLEAN
<1>1. (\E c \in Call : dir'[c] # "none") => S # {}
  BY DEF Active
<1>. QED BY <1>1 DEF Show, CallIsShown

\* The moves of CallEvents keep its types, and the call they name is a call.
LEMMA EventTypes ==
  ASSUME E!EventsOK, NEW c \in Call
  PROVE  /\ \A d \in {"in", "out"} : \A e : E!Begin(c, d, e) => E!EventsOK'
         /\ \A e \in {"INCOMING", "RINGING", "PROGRESS", "ESTABLISHED"} :
               E!Tell(c, e) => E!EventsOK'
         /\ E!Close(c) => E!EventsOK'
  BY DEF E!EventsOK, E!Begin, E!Tell, E!Close, E!NoEvent

\* The invariant holds at the start.
LEMMA InitInv == Init => IInv
<1>. SUFFICES ASSUME Init PROVE IInv
  OBVIOUS
<1>1. ViewOK
  BY DEF Init, E!Init, ViewOK, E!EventsOK, E!NoEvent, Tone, TonesHaveCalls, CallIsShown
<1>2. redial = FALSE /\ attempts = 0 /\ redials = 0
  BY DEF Init
<1>3. dialbuf \in BOOLEAN /\ redial \in BOOLEAN
  BY DEF Init
<1>4. CountersOK
  BY <1>2, <1>3, MenuAssumption DEF CountersOK, RedialsBounded, RedialsCounted
<1>. QED BY <1>1, <1>4 DEF IInv

\* The steps of one call keep the tones and the status view.
LEMMA CallView ==
  ASSUME ViewOK, NEW c \in Call, CallNext(c)
  PROVE  ViewOK'
<1>0. E!EventsOK
  BY DEF ViewOK
<1>1. CASE Incoming(c)
  <2>1. E!EventsOK' /\ dir'[c] = "in" /\ ev'[c] = "INCOMING"
    <3>1. CASE E!Begin(c, "in", "INCOMING")
      BY <1>0, <3>1, EventTypes DEF E!Begin, E!EventsOK
    <3>2. CASE E!Tell(c, "INCOMING")
      <4>1. dir[c] = "in"
        BY <3>2 DEF E!Tell, E!Follow
      <4>. QED BY <1>0, <3>2, <4>1, EventTypes DEF E!Tell, E!EventsOK
    <3>. QED BY <1>1, <3>1, <3>2 DEF Incoming
  <2>2. play' \in {"ring", "callwaiting"} /\ alert' = (alert \/ Bell)
    BY <1>1 DEF Incoming
  <2>3. Show(Active(dir'))
    BY <1>1 DEF Incoming
  <2>4. CallIsShown' /\ stat' \in BOOLEAN /\ incall' \in BOOLEAN
    BY <2>1, <2>3, ShowView
  <2>5. TonesHaveCalls'
    BY <2>1, <2>2 DEF TonesHaveCalls
  <2>6. alert' \in BOOLEAN
    BY <2>2, MenuAssumption DEF ViewOK
  <2>7. play' \in Tone
    BY <2>2 DEF Tone
  <2>. QED BY <2>1, <2>4, <2>5, <2>6, <2>7 DEF ViewOK
<1>2. CASE Ringing(c)
  <2>1. E!EventsOK' /\ dir' = dir /\ dir[c] = "out" /\ ev' = [ev EXCEPT ![c] = "RINGING"]
        /\ ev[c] # "INCOMING"
    BY <1>0, <1>2, EventTypes DEF Ringing, E!Tell, E!Follow, E!NoEvent
  <2>2. Show(Active(dir')) /\ play' \in {"none", "ringback"} /\ alert' = alert
    BY <1>2, <2>1 DEF Ringing
  <2>3. CallIsShown' /\ stat' \in BOOLEAN /\ incall' \in BOOLEAN
    BY <2>1, <2>2, ShowView
  <2>4. TonesHaveCalls'
    BY <1>0, <2>1, <2>2 DEF TonesHaveCalls, ViewOK, E!EventsOK
  <2>5. play' \in Tone
    BY <2>2 DEF Tone
  <2>. QED BY <2>1, <2>2, <2>3, <2>4, <2>5 DEF ViewOK
<1>3. CASE Progress(c)
  <2>1. E!EventsOK' /\ dir' = dir /\ dir[c] = "out" /\ ev' = [ev EXCEPT ![c] = "PROGRESS"]
        /\ ev[c] # "INCOMING"
    BY <1>0, <1>3, EventTypes DEF Progress, E!Tell, E!Follow, E!NoEvent
  <2>2. Show(Active(dir')) /\ play' = play /\ alert' = alert
    BY <1>3, <2>1 DEF Progress
  <2>3. CallIsShown' /\ stat' \in BOOLEAN /\ incall' \in BOOLEAN
    BY <2>1, <2>2, ShowView
  <2>4. TonesHaveCalls'
    BY <1>0, <2>1, <2>2 DEF TonesHaveCalls, ViewOK, E!EventsOK
  <2>. QED BY <2>1, <2>2, <2>3, <2>4 DEF ViewOK
<1>4. CASE Established(c)
  <2>1. E!EventsOK' /\ dir' = dir
    BY <1>0, <1>4, EventTypes DEF Established, E!Tell
  <2>2. Show(Active(dir')) /\ play' = "none" /\ alert' = FALSE
    BY <1>4, <2>1 DEF Established
  <2>. QED BY <2>1, <2>2, ShowView, QuietView DEF Tone
<1>5. ASSUME NEW scode \in Scode, CallClosed(c, scode) PROVE ViewOK'
  <2>1. E!EventsOK' /\ dir' = [dir EXCEPT ![c] = "none"]
    BY <1>0, <1>5, EventTypes DEF CallClosed, E!Close
  <2>2. Show(Active(dir) \cup {c}) /\ play' \in {"none", "failure"} /\ alert' = FALSE
    BY <1>5 DEF CallClosed, Closed
  <2>3. Active(dir') \subseteq Active(dir) \cup {c}
    BY <1>0, <2>1 DEF Active, E!EventsOK
  <2>. QED BY <2>1, <2>2, <2>3, ShowView, QuietView DEF Tone
<1>6. ASSUME NEW d \in {"in", "out"}, E!Begin(c, d, E!NoEvent),
             UNCHANGED <<view, play, alert>>
      PROVE  ViewOK'
  <2>1. E!EventsOK' /\ dir[c] = "none"
    BY <1>0, <1>6, EventTypes DEF E!Begin
  <2>2. ev' = [ev EXCEPT ![c] = E!NoEvent] /\ dir' = [dir EXCEPT ![c] = d]
    BY <1>6 DEF E!Begin
  <2>3. TonesHaveCalls' /\ CallIsShown'
    BY <1>0, <1>6, <2>1, <2>2
       DEF ViewOK, TonesHaveCalls, CallIsShown, E!EventsOK, E!NoEvent, view
  <2>. QED BY <1>6, <2>1, <2>3 DEF ViewOK, view
<1>7. CASE UNCHANGED <<calls, view, play, alert>>
  BY <1>7 DEF ViewOK, E!EventsOK, TonesHaveCalls, CallIsShown, calls, view
<1>8. CASE Dial(c)
  BY <1>6, <1>7, <1>8 DEF Dial
<1>9. CASE OtherBegin(c)
  BY <1>6, <1>9 DEF OtherBegin
<1>10. CASE CmdHangup(c)
  <2>1. E!EventsOK' /\ play' = "none" /\ alert' = FALSE /\ stat' = TRUE
    BY <1>0, <1>10, EventTypes DEF CmdHangup, Closed
  <2>2. incall' = (Active(dir') # {})
    BY <1>10 DEF CmdHangup
  <2>3. CallIsShown'
    BY <2>1, <2>2 DEF CallIsShown, Active
  <2>. QED BY <2>1, <2>2, <2>3, QuietView DEF Tone
<1>11. CASE Redial(c)
  BY <1>6, <1>7, <1>11 DEF Redial
<1>. QED BY <1>1, <1>2, <1>3, <1>4, <1>5, <1>8, <1>9, <1>10, <1>11 DEF CallNext

\* The steps of one call keep the redial counters.
LEMMA CallCounters ==
  ASSUME CountersOK, NEW c \in Call, CallNext(c)
  PROVE  CountersOK'
<1>1. CASE Incoming(c) \/ Ringing(c) \/ Progress(c) \/ OtherBegin(c)
  <2>1. UNCHANGED again
    BY <1>1 DEF Incoming, Ringing, Progress, OtherBegin
  <2>. QED BY <2>1, CountersKept
<1>2. CASE Established(c)
  BY <1>2, CountersKept DEF Established
<1>3. ASSUME NEW scode \in Scode, CallClosed(c, scode) PROVE CountersOK'
  BY <1>3, CountersKept DEF CallClosed, Closed
<1>4. CASE CmdHangup(c)
  BY <1>4, CountersKept DEF CmdHangup, Closed
<1>5. CASE Dial(c)
  <2>1. redial' = redial /\ attempts' = attempts /\ redials' = redials
    BY <1>5 DEF Dial
  <2>2. dialbuf' \in BOOLEAN
    BY <1>5 DEF Dial
  <2>. QED BY <2>1, <2>2 DEF CountersOK, RedialsBounded, RedialsCounted
<1>6. CASE Redial(c)
  <2>1. /\ redial = TRUE /\ redial' = FALSE /\ attempts' = attempts
        /\ redials' = redials \/ (~ attempts > RedialAttempts /\ redials' = redials + 1)
    BY <1>6 DEF Redial, CountersOK
  <2>2. dialbuf' \in BOOLEAN /\ redial' \in BOOLEAN
    BY <1>6 DEF Redial, CountersOK
  <2>. QED BY <2>1, <2>2, MenuAssumption DEF CountersOK, RedialsBounded, RedialsCounted
<1>. QED BY <1>1, <1>2, <1>3, <1>4, <1>5, <1>6 DEF CallNext

\* Every step keeps the invariant.
LEMMA NextInv == IInv /\ [Next]_vars => IInv'
<1>. SUFFICES ASSUME IInv, [Next]_vars PROVE IInv'
  OBVIOUS
<1>0. ViewOK /\ CountersOK
  BY DEF IInv
<1>1. ASSUME NEW c \in Call, CallNext(c) PROVE IInv'
  BY <1>0, <1>1, CallView, CallCounters DEF IInv
<1>2. CASE OtherEvent
  <2>1. E!EventsOK' /\ dir' = dir /\ ev' = ev /\ play' = play /\ alert' = alert
    BY <1>0, <1>2 DEF OtherEvent, calls, ViewOK, E!EventsOK
  <2>2. Show(Active(dir')) /\ UNCHANGED again
    BY <1>2, <2>1 DEF OtherEvent
  <2>3. CallIsShown' /\ stat' \in BOOLEAN /\ incall' \in BOOLEAN
    BY <2>1, <2>2, ShowView
  <2>4. TonesHaveCalls'
    BY <1>0, <2>1 DEF ViewOK, TonesHaveCalls
  <2>. QED BY <1>0, <2>1, <2>2, <2>3, <2>4, CountersKept DEF IInv, ViewOK
<1>3. CASE CmdAnswer
  <2>1. UNCHANGED again /\ UNCHANGED <<ev, dir, incall, stat, alert>> /\ play' = "none"
    BY <1>3 DEF CmdAnswer, calls, view
  <2>2. ViewOK'
    BY <1>0, <2>1 DEF ViewOK, E!EventsOK, TonesHaveCalls, CallIsShown, Tone
  <2>. QED BY <1>0, <2>1, <2>2, CountersKept DEF IInv
<1>4. CASE CmdHangupNone
  <2>1. /\ UNCHANGED again /\ UNCHANGED <<ev, dir, stat>>
        /\ play' = "none" /\ alert' = FALSE /\ incall' = FALSE /\ Active(dir) = {}
    BY <1>4 DEF CmdHangupNone, calls
  <2>2. CallIsShown'
    BY <2>1 DEF CallIsShown, Active
  <2>3. E!EventsOK' /\ stat' \in BOOLEAN
    BY <1>0, <2>1 DEF ViewOK, E!EventsOK
  <2>4. ViewOK'
    BY <2>1, <2>2, <2>3, QuietView DEF Tone
  <2>. QED BY <1>0, <2>1, <2>4, CountersKept DEF IInv
<1>5. CASE StatTick
  <2>1. /\ UNCHANGED again /\ UNCHANGED <<ev, dir, incall, alert, play>>
        /\ stat' = (Active(dir) # {})
    BY <1>5 DEF StatTick, calls
  <2>2. CallIsShown' /\ stat' \in BOOLEAN
    BY <1>0, <2>1 DEF ViewOK, CallIsShown, Active
  <2>3. E!EventsOK' /\ TonesHaveCalls'
    BY <1>0, <2>1 DEF ViewOK, E!EventsOK, TonesHaveCalls
  <2>. QED BY <1>0, <2>1, <2>2, <2>3, CountersKept DEF IInv, ViewOK
<1>6. CASE ToneEnds
  <2>1. UNCHANGED again /\ UNCHANGED <<ev, dir, incall, stat, alert>> /\ play' = "none"
    BY <1>6 DEF ToneEnds, calls, view
  <2>2. ViewOK'
    BY <1>0, <2>1 DEF ViewOK, E!EventsOK, TonesHaveCalls, CallIsShown, Tone
  <2>. QED BY <1>0, <2>1, <2>2, CountersKept DEF IInv
<1>7. CASE UNCHANGED vars
  <2>1. UNCHANGED again /\ UNCHANGED <<ev, dir, incall, stat, alert, play>>
    BY <1>7 DEF vars, calls, view
  <2>2. ViewOK'
    BY <1>0, <2>1 DEF ViewOK, E!EventsOK, TonesHaveCalls, CallIsShown
  <2>. QED BY <1>0, <2>1, <2>2, CountersKept DEF IInv
<1>. QED BY <1>1, <1>2, <1>3, <1>4, <1>5, <1>6, <1>7 DEF Next
-----------------------------------------------------------------------------
\* The inductive invariant holds in every behaviour.
THEOREM Invariant == Spec => []IInv
  BY InitInv, NextInv, PTL DEF Spec

\* The state of the menu module always has its types.
THEOREM TypeCorrect == Spec => []TypeOK
<1>1. IInv => TypeOK
  BY DEF IInv, ViewOK, CountersOK, TypeOK
<1>. QED BY <1>1, Invariant, PTL

\* No endless tone and no bell outlives the calls it is played for.
THEOREM TonesAreStopped == Spec => []TonesHaveCalls
<1>1. IInv => TonesHaveCalls
  BY DEF IInv, ViewOK
<1>. QED BY <1>1, Invariant, PTL

\* The in-call commands and the status timer never lose a call they show.
THEOREM CallsAreShown == Spec => []CallIsShown
<1>1. IInv => CallIsShown
  BY DEF IInv, ViewOK
<1>. QED BY <1>1, Invariant, PTL

\* The configured number of redials is never exceeded.
THEOREM RedialsAreBounded == Spec => []RedialsBounded
<1>1. IInv => RedialsBounded
  BY DEF IInv, CountersOK
<1>. QED BY <1>1, Invariant, PTL

\* Every redial, sent or pending, was counted once.
THEOREM RedialsAreCounted == Spec => []RedialsCounted
<1>1. IInv => RedialsCounted
  BY DEF IInv, CountersOK
<1>. QED BY <1>1, Invariant, PTL

\* Redialing is bounded and counted, for every value of redial_attempts.
THEOREM RedialsRight == Spec => []RedialsAreRight
  BY RedialsAreBounded, RedialsAreCounted, PTL DEF RedialsAreRight
-----------------------------------------------------------------------------
(* Proof about GtkUi, for any number of calls and any lengths of its queues. *)

GtkNo == 1 .. GtkCalls
GtkState == {"none", "incoming", "answered", "out", "up", "ended"}
UiRec == [win : [GtkNo -> Gtk!Window], refs : [GtkNo -> Int], clocks : [GtkNo -> 0 .. 2],
          audio : [GtkNo -> BOOLEAN], lastWin : GtkNo \cup {0}, lastVu : GtkNo \cup {0}]

\* A call that is not over, and a window that is not yet freed.
IsLive(s) == s \in {"incoming", "answered", "out", "up"}
IsThere(w) == w.st \in {"open", "hidden", "bare"}
Busy(s, w) == IsLive(s) \/ IsThere(w)

\* Who holds a call in the state s that has the window w: the list, and the window.
Holders(s, w) ==
    IF IsLive(s) THEN IF w.st \in {"open", "hidden"} THEN 2 ELSE 1
    ELSE IF w.st \in {"open", "hidden"} THEN 1 ELSE 0

\* What a window w is to a call in the state s with r holders and k clocks. Only one that was
\* never closed has a clock of which it knows, and, as long as there was one call at a time
\* (al) and no clock was started twice (ag), no other runs.
WindowFits(w, r, k, s, al, ag) ==
    /\ r = Holders(s, w)
    /\ w.st \in {"none", "freed"} => ~w.tag /\ ~w.meter
    /\ w.st = "open" => s \notin {"none", "incoming"} /\ (w.closed => s = "ended")
                        /\ (s = "ended" => w.closed)
    /\ w.st \in {"hidden", "bare"} => s = "ended" /\ w.closed
    /\ w.st = "freed" => s = "ended"
    /\ w.closed => ~w.tag /\ ~w.dialog /\ (al => ~w.meter)
    /\ w.tag => k > 0
    /\ ~ag => k = IF w.tag THEN 1 ELSE 0

\* All windows fit their calls st, of which there were n.
UiFits(u, st, al, ag, n) ==
    /\ u \in UiRec /\ st \in [GtkNo -> GtkState]
    /\ \A c \in GtkNo :
          /\ WindowFits(u.win[c], u.refs[c], u.clocks[c], st[c], al, ag)
          /\ c > n => st[c] = "none" /\ u.win[c].st = "none"
    /\ u.lastWin # 0 => IsThere(u.win[u.lastWin])
    /\ al => \A c, d \in GtkNo : c # d => ~(Busy(st[c], u.win[c]) /\ Busy(st[d], u.win[d]))

\* The queue has one message at most of each call, whose entry is gone and which has no window.
GtkMsg == ({"connect"} \X {0}) \cup ({"answer", "hangup"} \X GtkNo)
QueueFits(q, st, win, N) ==
    /\ q \in Seq(GtkMsg)
    /\ \A i \in 1 .. Len(q) : q[i][1] # "connect" =>
          /\ q[i][2] \notin N /\ st[q[i][2]] \in {"incoming", "ended"}
          /\ win[q[i][2]].st = "none"
    /\ \A i, j \in 1 .. Len(q) :
          i # j /\ q[i][1] # "connect" /\ q[j][1] # "connect" => q[i][2] # q[j][2]

\* The threads and what is counted; what was noted in wr; and the entries N of the menu.
ThreadsFit(th, mn, n, al, ag) ==
    /\ th \in {"starting", "running", "quit", "ended"}
    /\ mn \in {"idle", "undo", "closing", "closed"} /\ n \in 0 .. GtkCalls
    /\ al \in BOOLEAN /\ ag \in BOOLEAN
WrongFits(wr, al, ag) ==
    wr \subseteq {"queued", "text", "meter", "timer"} /\ (al /\ ~ag => "timer" \notin wr)
EntriesFit(N, st) == N \subseteq GtkNo /\ \A c \in N : st[c] = "incoming"

\* The inductive invariant.
GtkInv ==
    /\ ThreadsFit(thread, main, gtkCalls, alone, gtkAgain)
    /\ WrongFits(wrong, alone, gtkAgain)
    /\ UiFits(ui, state, alone, gtkAgain, gtkCalls)
    /\ EntriesFit(notified, state)
    /\ QueueFits(queue, state, ui.win, notified)

\* The other windows and calls stay as they are.
UiOthers(u, v, st, s2, c) ==
    \A d \in GtkNo : d # c => /\ v.win[d] = u.win[d] /\ v.refs[d] = u.refs[d]
                              /\ v.clocks[d] = u.clocks[d] /\ s2[d] = st[d]

\* The window of the call c changes, and what is told of the call, but nothing of the others.
UiStep(u, v, st, s2, c, al, al2, ag, ag2, k, k2) ==
    /\ v \in UiRec /\ s2 \in [GtkNo -> GtkState]
    /\ al2 => al
    /\ ag => ag2
    /\ k \in Nat /\ k2 \in Nat /\ k <= k2 /\ c <= k2
    /\ UiOthers(u, v, st, s2, c)
    /\ WindowFits(v.win[c], v.refs[c], v.clocks[c], s2[c], al2, ag2)
    /\ v.lastWin # 0 => IsThere(v.win[v.lastWin])
    /\ al2 /\ Busy(s2[c], v.win[c]) =>
          Busy(st[c], u.win[c]) \/ \A d \in GtkNo : d # c => ~Busy(st[d], u.win[d])

\* Then all fit as before.
LEMMA UiMoves ==
    ASSUME NEW u, NEW v, NEW st, NEW s2, NEW c \in GtkNo, NEW al, NEW al2, NEW ag, NEW ag2,
           NEW k, NEW k2, UiFits(u, st, al, ag, k),
           UiStep(u, v, st, s2, c, al, al2, ag, ag2, k, k2)
    PROVE  UiFits(v, s2, al2, ag2, k2)
<1>0. /\ al2 => al
      /\ ag => ag2
      /\ v \in UiRec /\ s2 \in [GtkNo -> GtkState]
      /\ k \in Nat /\ k2 \in Nat /\ k <= k2 /\ c <= k2
      /\ WindowFits(v.win[c], v.refs[c], v.clocks[c], s2[c], al2, ag2)
      /\ v.lastWin # 0 => IsThere(v.win[v.lastWin])
  BY Zenon DEF UiStep
<1>1. ASSUME NEW d \in GtkNo, d # c
      PROVE  WindowFits(v.win[d], v.refs[d], v.clocks[d], s2[d], al2, ag2)
  <2>1. WindowFits(u.win[d], u.refs[d], u.clocks[d], st[d], al, ag)
    BY Zenon DEF UiFits
  <2>2. v.win[d] = u.win[d] /\ v.refs[d] = u.refs[d] /\ v.clocks[d] = u.clocks[d] /\ s2[d] = st[d]
    BY <1>1, Zenon DEF UiStep, UiOthers
  <2>. QED BY <1>0, <2>1, <2>2, Zenon DEF WindowFits
<1>2. ASSUME NEW d \in GtkNo, d > k2
      PROVE  s2[d] = "none" /\ v.win[d].st = "none"
  <2>1. d # c /\ d > k
    BY <1>0, <1>2 DEF GtkNo
  <2>2. st[d] = "none" /\ u.win[d].st = "none"
    BY <2>1, Zenon DEF UiFits
  <2>3. s2[d] = st[d] /\ v.win[d] = u.win[d]
    BY <2>1, Zenon DEF UiStep, UiOthers
  <2>. QED BY <2>2, <2>3
<1>3. ASSUME al2, NEW d \in GtkNo, NEW e \in GtkNo, d # e
      PROVE  ~(Busy(s2[d], v.win[d]) /\ Busy(s2[e], v.win[e]))
  <2>1. \A x, y \in GtkNo : x # y => ~(Busy(st[x], u.win[x]) /\ Busy(st[y], u.win[y]))
    BY <1>0, <1>3, Zenon DEF UiFits
  <2>2. \A x \in GtkNo : x # c => (Busy(s2[x], v.win[x]) <=> Busy(st[x], u.win[x]))
    <3> SUFFICES ASSUME NEW x \in GtkNo, x # c
                 PROVE  Busy(s2[x], v.win[x]) <=> Busy(st[x], u.win[x])
      OBVIOUS
    <3>1. s2[x] = st[x] /\ v.win[x] = u.win[x]
      BY Zenon DEF UiStep, UiOthers
    <3>. QED BY <3>1, Zenon
  <2>3. Busy(s2[c], v.win[c]) => \A x \in GtkNo : x # c => ~Busy(st[x], u.win[x])
    BY <1>3, <2>1, Zenon DEF UiStep
  <2>. QED BY <1>3, <2>1, <2>2, <2>3, Zenon
<1>4. \A d \in GtkNo : WindowFits(v.win[d], v.refs[d], v.clocks[d], s2[d], al2, ag2)
  BY <1>0, <1>1
<1>. QED BY <1>0, <1>2, <1>3, <1>4, Zenon DEF UiFits

\* What the record of a window may be.
LEMMA WindowTypes ==
    ASSUME NEW w \in Gtk!Window
    PROVE  /\ w = [st |-> w.st, closed |-> w.closed, dialog |-> w.dialog, mq |-> w.mq,
                   tag |-> w.tag, meter |-> w.meter, vu |-> w.vu]
           /\ w.st \in {"none", "open", "hidden", "bare", "freed"}
           /\ w.mq \in Seq(Gtk!Msg) /\ w.vu \in GtkNo \cup {0}
           /\ w.closed \in BOOLEAN /\ w.dialog \in BOOLEAN /\ w.tag \in BOOLEAN
           /\ w.meter \in BOOLEAN
BY Zenon DEF Gtk!Window, GtkNo, Gtk!CallNo, Gtk!None

\* The fields of what windows, meters and calls hold of each other.
LEMMA UiTypes ==
    ASSUME NEW u \in UiRec
    PROVE  /\ u = [win |-> u.win, refs |-> u.refs, clocks |-> u.clocks, audio |-> u.audio,
                   lastWin |-> u.lastWin, lastVu |-> u.lastVu]
           /\ u.win \in [GtkNo -> Gtk!Window] /\ u.refs \in [GtkNo -> Int]
           /\ u.clocks \in [GtkNo -> 0 .. 2] /\ u.audio \in [GtkNo -> BOOLEAN]
           /\ u.lastWin \in GtkNo \cup {0} /\ u.lastVu \in GtkNo \cup {0}
BY DEF UiRec

\* A window of the same state as x, with other messages, another meter or a dialog.
SameWindow(x, w, al) ==
    /\ w \in Gtk!Window
    /\ w.st = x.st /\ w.closed = x.closed /\ w.tag = x.tag
    /\ w.st \in {"none", "freed"} => ~w.meter
    /\ w.closed => ~w.dialog /\ (al => ~w.meter)

\* It does as well.
LEMMA WindowAltered ==
    ASSUME NEW u, NEW st, NEW al, NEW ag, NEW k \in Nat, UiFits(u, st, al, ag, k),
           NEW c \in GtkNo, c <= k, NEW w, SameWindow(u.win[c], w, al)
    PROVE  UiFits([u EXCEPT !.win[c] = w], st, al, ag, k)
<1>0. /\ w \in Gtk!Window
      /\ w.st = u.win[c].st /\ w.closed = u.win[c].closed /\ w.tag = u.win[c].tag
      /\ w.st \in {"none", "freed"} => ~w.meter
      /\ w.closed => ~w.dialog /\ (al => ~w.meter)
  BY Zenon DEF SameWindow
<1> DEFINE v == [u EXCEPT !.win[c] = w]
<1>1. u \in UiRec /\ st \in [GtkNo -> GtkState]
  BY Zenon DEF UiFits
<1>2. /\ v.win = [u.win EXCEPT ![c] = w] /\ v.refs = u.refs /\ v.clocks = u.clocks
      /\ v.audio = u.audio /\ v.lastWin = u.lastWin /\ v.lastVu = u.lastVu
      /\ v \in UiRec
  BY <1>0, <1>1 DEF UiRec
<1>3. v.win[c] = w /\ \A d \in GtkNo : d # c => v.win[d] = u.win[d]
  BY <1>1, <1>2, UiTypes
<1> HIDE DEF v
<1>4. WindowFits(u.win[c], u.refs[c], u.clocks[c], st[c], al, ag)
  BY Zenon DEF UiFits
<1>5. Holders(st[c], w) = Holders(st[c], u.win[c])
  BY <1>0, Zenon DEF Holders
<1>6. WindowFits(w, u.refs[c], u.clocks[c], st[c], al, ag)
  BY <1>0, <1>4, <1>5, Zenon DEF WindowFits
<1>7. Busy(st[c], v.win[c]) => Busy(st[c], u.win[c])
  BY <1>0, <1>3, Zenon DEF Busy, IsThere
<1>8. v.lastWin # 0 => IsThere(v.win[v.lastWin])
  <2>1. u.lastWin # 0 => u.lastWin \in GtkNo /\ IsThere(u.win[u.lastWin])
    BY <1>1, UiTypes DEF UiFits
  <2>2. \A d \in GtkNo : v.win[d].st = u.win[d].st
    BY <1>0, <1>3
  <2>. QED BY <1>2, <2>1, <2>2, Zenon DEF IsThere
<1>9. k <= k
  OBVIOUS
<1>10. WindowFits(v.win[c], v.refs[c], v.clocks[c], st[c], al, ag)
  BY <1>2, <1>3, <1>6
<1>11. UiOthers(u, v, st, st, c)
  BY <1>2, <1>3, Zenon DEF UiOthers
<1>12. UiStep(u, v, st, st, c, al, al, ag, ag, k, k)
  BY <1>1, <1>2, <1>7, <1>8, <1>9, <1>10, <1>11, Zenon DEF UiStep
<1>13. UiFits(v, st, al, ag, k)
  BY <1>12, UiMoves, Zenon
<1>. QED BY <1>13, Zenon DEF v


\* A clock of c is started, perhaps while one runs; this is noted.
Restarts(u, c, ag, ag2) == (ag => ag2) /\ (~ag2 => ~ag /\ ~(u.clocks[c] > 0))

\* A clock that was started while it ran is taken for granted later.
LEMMA UiAgain ==
    ASSUME NEW u, NEW st, NEW al, NEW ag, NEW k \in Nat, UiFits(u, st, al, ag, k), NEW c,
           NEW ag2, Restarts(u, c, ag, ag2)
    PROVE  UiFits(u, st, al, ag2, k)
<1>1. ag => ag2
  BY Zenon DEF Restarts
<1>. QED BY <1>1, Zenon DEF UiFits, WindowFits

\* call_window_got_vu_dec: the meters go to the last window or wait for the next one.
LEMMA GotVuFits ==
    ASSUME NEW u, NEW st, NEW al, NEW ag, NEW k \in Nat,
           UiFits(u, st, al, ag, k), NEW c \in GtkNo, IsLive(st[c])
    PROVE  /\ UiFits(Gtk!GotVu(u, c), st, al, ag, k)
           /\ \A d \in GtkNo : Gtk!GotVu(u, c).win[d].st = u.win[d].st
           /\ Gtk!GotVu(u, c).clocks = u.clocks
<1> DEFINE v == [u EXCEPT !.audio[c] = TRUE]
           e == u.lastWin
<1>1. u \in UiRec /\ st \in [GtkNo -> GtkState]
  BY Zenon DEF UiFits
<1>2. /\ v.win = u.win /\ v.refs = u.refs /\ v.clocks = u.clocks /\ v.lastWin = u.lastWin
      /\ v \in UiRec
  BY <1>1 DEF UiRec
<1> HIDE DEF v
<1>3. UiFits(v, st, al, ag, k)
  BY <1>2, Zenon DEF UiFits
<1>4. CASE u.audio[c]
  BY <1>4, Zenon DEF Gtk!GotVu
<1>5. CASE ~u.audio[c] /\ e = 0
  <2> DEFINE x == [v EXCEPT !.lastVu = c]
  <2>1. /\ x.win = v.win /\ x.refs = v.refs /\ x.clocks = v.clocks /\ x.lastWin = v.lastWin
        /\ x \in UiRec
    BY <1>2 DEF UiRec
  <2>2. Gtk!GotVu(u, c) = x
    BY <1>5, Zenon DEF Gtk!GotVu, Gtk!None, v
  <2> HIDE DEF x
  <2>3. UiFits(x, st, al, ag, k)
    BY <1>3, <2>1, Zenon DEF UiFits
  <2>. QED BY <1>2, <2>1, <2>2, <2>3, Zenon
<1>6. CASE ~u.audio[c] /\ e # 0
  <2> DEFINE w == Gtk!SetVu(v.win[e], c)
             x == [v EXCEPT !.win[e] = w]
  <2>1. e \in GtkNo /\ v.win[e] \in Gtk!Window /\ c \in GtkNo \cup {0}
    BY <1>1, <1>2, <1>6, UiTypes
  <2>2. /\ w \in Gtk!Window /\ w.st = v.win[e].st /\ w.closed = v.win[e].closed
        /\ w.tag = v.win[e].tag /\ w.dialog = v.win[e].dialog
    BY <2>1 DEF Gtk!SetVu, Gtk!Window, GtkNo, Gtk!CallNo, Gtk!None
  <2>3. Gtk!GotVu(u, c) = x
    <3>1. Gtk!GotVu(u, c) = [v EXCEPT !.win[u.lastWin] = Gtk!SetVu(@, c)]
      BY <1>6, Zenon DEF Gtk!GotVu, Gtk!None, v
    <3>. QED BY <3>1
  <2>4. WindowFits(v.win[e], v.refs[e], v.clocks[e], st[e], al, ag) /\ IsThere(v.win[e])
    <3>1. IsThere(u.win[e])
      BY <1>6, Zenon DEF UiFits
    <3>. QED BY <1>2, <1>3, <2>1, <3>1, Zenon DEF UiFits
  <2>5. v.win[e].st \in {"open", "hidden", "bare"}
    BY <2>4, Zenon DEF IsThere
  <2> HIDE DEF w
  <2>6. w.closed => ~w.dialog /\ ~al
    <3>1. CASE v.win[e].closed
      <4>1. st[e] = "ended"
        BY <2>4, <2>5, <3>1 DEF WindowFits
      <4>2. e # c
        BY <4>1 DEF IsLive
      <4>3. ~al
        BY <1>3, <2>1, <2>4, <4>2, Zenon DEF UiFits, Busy
      <4>4. ~v.win[e].dialog
        BY <2>4, <3>1, Zenon DEF WindowFits
      <4>. QED BY <2>2, <4>3, <4>4, Zenon
    <3>. QED BY <2>2, <3>1, Zenon
  <2>7. w.st \notin {"none", "freed"}
    BY <2>2, <2>5
  <2>8. e <= k
    <3>1. v.win[e].st # "none"
      BY <2>5
    <3>2. ~(e > k)
      BY <1>3, <2>1, <3>1, Zenon DEF UiFits
    <3>3. e \in Int
      BY <2>1 DEF GtkNo
    <3>. QED BY <3>2, <3>3
  <2>12. SameWindow(v.win[e], w, al)
    BY <2>2, <2>6, <2>7, Zenon DEF SameWindow
  <2>9. UiFits(x, st, al, ag, k)
    BY <1>3, <2>1, <2>8, <2>12, WindowAltered, Zenon
  <2>10. x.clocks = v.clocks /\ x.win = [v.win EXCEPT ![e] = w]
    BY <1>2 DEF UiRec
  <2>11. \A d \in GtkNo : x.win[d].st = v.win[d].st
    BY <1>2, <2>1, <2>2, <2>10, UiTypes
  <2>. QED BY <1>2, <2>3, <2>9, <2>10, <2>11, Zenon
<1>. QED BY <1>4, <1>5, <1>6, <1>3, Zenon

\* What windows, meters and calls hold of each other, with another field.
SetWin(u, W) == [u EXCEPT !.win = W]
SetRefs(u, R) == [u EXCEPT !.refs = R]
SetClocks(u, T) == [u EXCEPT !.clocks = T]
SetAudio(u, A) == [u EXCEPT !.audio = A]
SetLast(u, l) == [u EXCEPT !.lastWin = l]

\* The windows become W.
LEMMA SetWinIs ==
    ASSUME NEW u \in UiRec, NEW W \in [GtkNo -> Gtk!Window]
    PROVE  /\ SetWin(u, W) \in UiRec /\ SetWin(u, W).win = W
           /\ SetWin(u, W).refs = u.refs /\ SetWin(u, W).clocks = u.clocks
           /\ SetWin(u, W).audio = u.audio /\ SetWin(u, W).lastWin = u.lastWin
           /\ SetWin(u, W).lastVu = u.lastVu
BY DEF UiRec, SetWin

\* The numbers of holders become R.
LEMMA SetRefsIs ==
    ASSUME NEW u \in UiRec, NEW R \in [GtkNo -> Int]
    PROVE  /\ SetRefs(u, R) \in UiRec /\ SetRefs(u, R).refs = R
           /\ SetRefs(u, R).win = u.win /\ SetRefs(u, R).clocks = u.clocks
           /\ SetRefs(u, R).audio = u.audio /\ SetRefs(u, R).lastWin = u.lastWin
           /\ SetRefs(u, R).lastVu = u.lastVu
BY DEF UiRec, SetRefs

\* The numbers of clocks become T.
LEMMA SetClocksIs ==
    ASSUME NEW u \in UiRec, NEW T \in [GtkNo -> 0 .. 2]
    PROVE  /\ SetClocks(u, T) \in UiRec /\ SetClocks(u, T).clocks = T
           /\ SetClocks(u, T).win = u.win /\ SetClocks(u, T).refs = u.refs
           /\ SetClocks(u, T).audio = u.audio /\ SetClocks(u, T).lastWin = u.lastWin
           /\ SetClocks(u, T).lastVu = u.lastVu
BY DEF UiRec, SetClocks

\* What is said of the audio becomes A.
LEMMA SetAudioIs ==
    ASSUME NEW u \in UiRec, NEW A \in [GtkNo -> BOOLEAN]
    PROVE  /\ SetAudio(u, A) \in UiRec /\ SetAudio(u, A).audio = A
           /\ SetAudio(u, A).win = u.win /\ SetAudio(u, A).refs = u.refs
           /\ SetAudio(u, A).clocks = u.clocks /\ SetAudio(u, A).lastWin = u.lastWin
           /\ SetAudio(u, A).lastVu = u.lastVu
BY DEF UiRec, SetAudio

\* The last window becomes l.
LEMMA SetLastIs ==
    ASSUME NEW u \in UiRec, NEW l \in GtkNo \cup {0}
    PROVE  /\ SetLast(u, l) \in UiRec /\ SetLast(u, l).lastWin = l
           /\ SetLast(u, l).win = u.win /\ SetLast(u, l).refs = u.refs
           /\ SetLast(u, l).clocks = u.clocks /\ SetLast(u, l).audio = u.audio
           /\ SetLast(u, l).lastVu = u.lastVu
BY DEF UiRec, SetLast

\* The window of c becomes w, with r holders and t clocks, and the last window l.
Altered(u, v, c, w, r, t, l) ==
    /\ v \in UiRec /\ v.win = [u.win EXCEPT ![c] = w] /\ v.refs = [u.refs EXCEPT ![c] = r]
    /\ v.clocks = [u.clocks EXCEPT ![c] = t] /\ v.lastWin = l

\* When it may: w fits its call, now in the state s, and no second call begins if al2.
WithFits(u, c, w, r, t, l, st, s, al, al2, ag, ag2, k, k2) ==
    /\ w \in Gtk!Window /\ r \in Int /\ t \in 0 .. 2
    /\ l \in GtkNo \cup {0} /\ s \in GtkState
    /\ al2 => al
    /\ ag => ag2
    /\ k \in Nat /\ k2 \in Nat /\ k <= k2 /\ c <= k2
    /\ WindowFits(w, r, t, s, al2, ag2)
    /\ l # 0 => (IF l = c THEN IsThere(w) ELSE l = u.lastWin)
    /\ al2 /\ Busy(s, w) =>
          Busy(st[c], u.win[c]) \/ \A d \in GtkNo : d # c => ~Busy(st[d], u.win[d])

\* Then all fit as before.
LEMMA WithMoves ==
    ASSUME NEW u, NEW v, NEW c \in GtkNo, NEW w, NEW r, NEW t, NEW l, NEW st, NEW s,
           NEW al, NEW al2, NEW ag, NEW ag2, NEW k, NEW k2,
           UiFits(u, st, al, ag, k), Altered(u, v, c, w, r, t, l),
           WithFits(u, c, w, r, t, l, st, s, al, al2, ag, ag2, k, k2)
    PROVE  UiFits(v, [st EXCEPT ![c] = s], al2, ag2, k2)
<1> DEFINE s2 == [st EXCEPT ![c] = s]
<1>1. u \in UiRec /\ st \in [GtkNo -> GtkState]
  BY Zenon DEF UiFits
<1>2. /\ w \in Gtk!Window /\ r \in Int /\ t \in 0 .. 2
      /\ l \in GtkNo \cup {0} /\ s \in GtkState
  BY Zenon DEF WithFits
<1>3. /\ v.win = [u.win EXCEPT ![c] = w] /\ v.refs = [u.refs EXCEPT ![c] = r]
      /\ v.clocks = [u.clocks EXCEPT ![c] = t] /\ v.lastWin = l /\ v \in UiRec
  BY Zenon DEF Altered
<1>5. s2 \in [GtkNo -> GtkState] /\ s2[c] = s /\ \A d \in GtkNo : d # c => s2[d] = st[d]
  BY <1>1, <1>2
<1>6. /\ v.win[c] = w /\ v.refs[c] = r /\ v.clocks[c] = t
      /\ \A d \in GtkNo : d # c => /\ v.win[d] = u.win[d] /\ v.refs[d] = u.refs[d]
                                   /\ v.clocks[d] = u.clocks[d]
  BY <1>1, <1>3, UiTypes
<1> HIDE DEF s2
<1>7. UiOthers(u, v, st, s2, c)
  BY <1>5, <1>6, Zenon DEF UiOthers
<1>8. v.lastWin # 0 => IsThere(v.win[v.lastWin])
  <2>1. CASE l # 0 /\ l = c
    BY <1>3, <1>6, <2>1, Zenon DEF WithFits
  <2>2. CASE l # 0 /\ l # c
    <3>1. l = u.lastWin
      BY <2>2, Zenon DEF WithFits
    <3>2. l \in GtkNo
      BY <1>2, <2>2
    <3>3. IsThere(u.win[l])
      BY <2>2, <3>1, Zenon DEF UiFits
    <3>. QED BY <1>3, <1>6, <2>2, <3>2, <3>3, Zenon
  <2>. QED BY <1>3, <2>1, <2>2, Zenon
<1>9. UiStep(u, v, st, s2, c, al, al2, ag, ag2, k, k2)
  <2>1. /\ al2 => al
        /\ ag => ag2
        /\ k \in Nat /\ k2 \in Nat /\ k <= k2 /\ c <= k2
        /\ WindowFits(w, r, t, s, al2, ag2)
        /\ al2 /\ Busy(s, w) =>
              Busy(st[c], u.win[c]) \/ \A d \in GtkNo : d # c => ~Busy(st[d], u.win[d])
    BY Zenon DEF WithFits
  <2>. QED BY <1>3, <1>5, <1>6, <1>7, <1>8, <2>1, Zenon DEF UiStep
<1>10. UiFits(v, s2, al2, ag2, k2)
  BY <1>9, UiMoves, Zenon
<1>. QED BY <1>10, Zenon DEF s2

\* What is known of the window of c.
LEMMA FitsAt ==
    ASSUME NEW u, NEW st, NEW al, NEW ag, NEW k, UiFits(u, st, al, ag, k), NEW c \in GtkNo
    PROVE  /\ u \in UiRec /\ st \in [GtkNo -> GtkState] /\ st[c] \in GtkState
           /\ u.win[c] \in Gtk!Window /\ u.refs[c] \in Int /\ u.clocks[c] \in 0 .. 2
           /\ u.audio \in [GtkNo -> BOOLEAN]
           /\ WindowFits(u.win[c], u.refs[c], u.clocks[c], st[c], al, ag)
           /\ c > k => st[c] = "none" /\ u.win[c].st = "none"
<1>1. u \in UiRec /\ st \in [GtkNo -> GtkState]
  BY Zenon DEF UiFits
<1>2. /\ WindowFits(u.win[c], u.refs[c], u.clocks[c], st[c], al, ag)
      /\ c > k => st[c] = "none" /\ u.win[c].st = "none"
  BY Zenon DEF UiFits
<1>. QED BY <1>1, <1>2, UiTypes

\* A call that began has a number.
LEMMA BegunIsNumbered ==
    ASSUME NEW u, NEW st, NEW al, NEW ag, NEW k \in Nat, UiFits(u, st, al, ag, k),
           NEW c \in GtkNo, st[c] # "none"
    PROVE  c <= k
<1>1. ~(c > k)
  BY FitsAt, Zenon
<1>2. c \in Int
  BY DEF GtkNo
<1>. QED BY <1>1, <1>2

\* No window at all.
LEMMA NoWindowIs ==
    /\ Gtk!NoWindow \in Gtk!Window /\ Gtk!NoWindow.st = "none" /\ ~Gtk!NoWindow.closed
    /\ ~Gtk!NoWindow.tag /\ ~Gtk!NoWindow.meter /\ ~Gtk!NoWindow.dialog
    /\ Gtk!NoWindow.mq = <<>>
<1>1. <<>> \in Seq(Gtk!Msg)
  OBVIOUS
<1>2. Gtk!NoWindow \in Gtk!Window
  BY <1>1, Zenon DEF Gtk!NoWindow, Gtk!Window, Gtk!None
<1>. QED BY <1>2, Zenon DEF Gtk!NoWindow

\* A window in another step, and one that shows the meters of another call.
LEMMA WindowWith ==
    ASSUME NEW w \in Gtk!Window
    PROVE  /\ \A x \in {"open", "hidden", "bare", "freed"} :
                 /\ [w EXCEPT !.st = x] \in Gtk!Window /\ [w EXCEPT !.st = x].st = x
                 /\ [w EXCEPT !.st = x].closed = w.closed /\ [w EXCEPT !.st = x].tag = w.tag
                 /\ [w EXCEPT !.st = x].meter = w.meter
                 /\ [w EXCEPT !.st = x].dialog = w.dialog
           /\ \A c \in GtkNo :
                 /\ Gtk!SetVu(w, c) \in Gtk!Window /\ Gtk!SetVu(w, c).st = w.st
                 /\ Gtk!SetVu(w, c).closed = w.closed /\ Gtk!SetVu(w, c).tag = w.tag
BY DEF Gtk!SetVu, Gtk!Window, GtkNo, Gtk!CallNo, Gtk!None

\* call_window_new, for a call that was dialed or answered.
LEMMA NewWindowFits ==
    ASSUME NEW u, NEW st, NEW al, NEW ag, NEW k \in Nat, UiFits(u, st, al, ag, k),
           NEW c \in GtkNo, IsLive(st[c]), st[c] # "incoming", u.win[c].st = "none"
    PROVE  /\ UiFits(Gtk!NewWindow(u, c), st, al, ag, k)
           /\ Gtk!NewWindow(u, c).win[c].st = "open"
           /\ Gtk!NewWindow(u, c).clocks = u.clocks
           /\ \A d \in GtkNo : d # c => Gtk!NewWindow(u, c).win[d].st = u.win[d].st
<1> DEFINE n == [Gtk!NoWindow EXCEPT !.st = "open"]
           w == IF u.lastVu = 0 THEN n ELSE Gtk!SetVu(n, u.lastVu)
           l == IF u.lastVu = 0 THEN c ELSE u.lastWin
           r == u.refs[c] + 1
           v == Gtk!NewWindow(u, c)
<1>1. /\ u \in UiRec /\ st \in [GtkNo -> GtkState] /\ st[c] \in GtkState
      /\ u.win[c] \in Gtk!Window /\ u.refs[c] \in Int /\ u.clocks[c] \in 0 .. 2
      /\ u.audio \in [GtkNo -> BOOLEAN]
      /\ WindowFits(u.win[c], u.refs[c], u.clocks[c], st[c], al, ag)
  BY FitsAt, Zenon
<1>2. u.lastVu \in GtkNo \cup {0} /\ u.lastWin \in GtkNo \cup {0}
  BY <1>1, UiTypes, Zenon
<1>3. /\ w \in Gtk!Window /\ w.st = "open" /\ ~w.closed /\ ~w.tag
  <2>1. /\ n \in Gtk!Window /\ n.st = "open" /\ ~n.closed /\ ~n.tag
    BY NoWindowIs, WindowWith
  <2> HIDE DEF n
  <2>2. CASE u.lastVu = 0
    BY <2>1, <2>2
  <2>3. CASE u.lastVu # 0
    <3>1. u.lastVu \in GtkNo /\ w = Gtk!SetVu(n, u.lastVu)
      BY <1>2, <2>3
    <3> DEFINE m == Gtk!SetVu(n, u.lastVu)
    <3>2. m \in Gtk!Window /\ m.st = n.st /\ m.closed = n.closed /\ m.tag = n.tag
      BY <2>1, <3>1, WindowWith, Zenon
    <3> HIDE DEF m, w
    <3>3. w = m
      BY <3>1 DEF m
    <3>. QED BY <2>1, <3>2, <3>3
  <2>. QED BY <2>2, <2>3
<1>4. Altered(u, v, c, w, r, u.clocks[c], l)
  <2> DEFINE W == [u.win EXCEPT ![c] = n]
             y == SetWin(u, W)
             R == [u.refs EXCEPT ![c] = r]
             x == SetRefs(y, R)
             Wv == [x.win EXCEPT ![c] = w]
  <2>1. n \in Gtk!Window
    BY NoWindowIs, WindowWith
  <2>2. v = LET z == [u EXCEPT !.win[c] = n, !.refs[c] = @ + 1]
            IN  IF u.lastVu = 0 THEN [z EXCEPT !.lastWin = c]
                ELSE [z EXCEPT !.win[c] = Gtk!SetVu(@, u.lastVu)]
    BY DEF Gtk!NewWindow, Gtk!None
  <2> HIDE DEF n, v
  <2>3. W \in [GtkNo -> Gtk!Window] /\ R \in [GtkNo -> Int] /\ W[c] = n
    BY <1>1, <2>1, UiTypes
  <2> HIDE DEF W
  <2>4. y \in UiRec /\ y.win = W /\ y.refs = u.refs /\ y.clocks = u.clocks
        /\ y.lastWin = u.lastWin
    BY <1>1, <2>3, SetWinIs, Zenon
  <2>5. [u EXCEPT !.win[c] = n, !.refs[c] = @ + 1] = x
    <3>1. [u EXCEPT !.win[c] = n, !.refs[c] = @ + 1] = [y EXCEPT !.refs[c] = @ + 1]
      BY DEF y, W, SetWin
    <3> HIDE DEF y
    <3>2. [y EXCEPT !.refs[c] = @ + 1] = x
      BY <2>4 DEF SetRefs
    <3>. QED BY <3>1, <3>2, Zenon
  <2> HIDE DEF R, y
  <2>6. x \in UiRec /\ x.win = W /\ x.refs = R /\ x.clocks = u.clocks
        /\ x.lastWin = u.lastWin
    BY <2>3, <2>4, SetRefsIs, Zenon
  <2> HIDE DEF x
  <2>7. v = IF u.lastVu = 0 THEN SetLast(x, c) ELSE SetWin(x, Wv)
    <3>1. w = IF u.lastVu = 0 THEN n ELSE Gtk!SetVu(x.win[c], u.lastVu)
      BY <2>3, <2>6
    <3>2. CASE u.lastVu = 0
      BY <2>2, <2>5, <3>2 DEF SetLast
    <3>3. CASE u.lastVu # 0
      BY <2>2, <2>5, <3>1, <3>3 DEF SetWin
    <3>. QED BY <3>2, <3>3
  <2>8. CASE u.lastVu = 0
    <3>1. v \in UiRec /\ v.win = W /\ v.refs = R /\ v.clocks = u.clocks /\ v.lastWin = c
      BY <2>6, <2>7, <2>8, SetLastIs, Zenon
    <3>2. w = n /\ l = c
      BY <2>8
    <3>3. [u.clocks EXCEPT ![c] = u.clocks[c]] = u.clocks
      BY <1>1, UiTypes
    <3>. QED BY <3>1, <3>2, <3>3, Zenon DEF Altered, W, R
  <2>9. CASE u.lastVu # 0
    <3>1. w \in Gtk!Window
      BY <1>3
    <3> HIDE DEF w
    <3>2. Wv \in [GtkNo -> Gtk!Window] /\ Wv = [u.win EXCEPT ![c] = w]
      <4>1. Wv = [u.win EXCEPT ![c] = w]
        BY <1>1, <2>6, UiTypes DEF W
      <4>2. [u.win EXCEPT ![c] = w] \in [GtkNo -> Gtk!Window]
        BY <1>1, <3>1, UiTypes
      <4>. QED BY <4>1, <4>2, Zenon
    <3> HIDE DEF Wv
    <3>3. v \in UiRec /\ v.win = Wv /\ v.refs = R /\ v.clocks = u.clocks
          /\ v.lastWin = u.lastWin
      BY <2>6, <2>7, <2>9, <3>2, SetWinIs, Zenon
    <3>4. l = u.lastWin
      BY <2>9
    <3>5. [u.clocks EXCEPT ![c] = u.clocks[c]] = u.clocks
      BY <1>1, UiTypes
    <3>. QED BY <3>2, <3>3, <3>4, <3>5, Zenon DEF Altered, R
  <2>. QED BY <2>8, <2>9
<1> HIDE DEF v, r
<1>5. v.win = [u.win EXCEPT ![c] = w] /\ v.clocks = [u.clocks EXCEPT ![c] = u.clocks[c]]
  BY <1>4, Zenon DEF Altered
<1> USE DEF r
<1> HIDE DEF w, l
<1>6. /\ v.win[c].st = "open" /\ v.clocks = u.clocks
      /\ \A d \in GtkNo : d # c => v.win[d].st = u.win[d].st
  BY <1>1, <1>3, <1>5, UiTypes
<1>7. l # 0 => (IF l = c THEN w.st = "open" ELSE l = u.lastWin)
  BY <1>3 DEF l
<1>8. l \in GtkNo \cup {0}
  BY <1>2 DEF l
<1>9. c <= k
  <2>1. st[c] # "none"
    BY DEF IsLive
  <2>. QED BY <2>1, BegunIsNumbered, Zenon
<1>10. WindowFits(w, r, u.clocks[c], st[c], al, ag)
  <2>1. u.refs[c] = Holders(st[c], u.win[c])
    BY <1>1, Zenon DEF WindowFits
  <2>2. Holders(st[c], w) = 2 /\ Holders(st[c], u.win[c]) = 1
    BY <1>3 DEF Holders
  <2>3. r = Holders(st[c], w)
    BY <2>1, <2>2
  <2>4. ~u.win[c].tag
    BY <1>1, Zenon DEF WindowFits
  <2>5. ~ag => u.clocks[c] = 0
    BY <1>1, <2>4, Zenon DEF WindowFits
  <2>6. st[c] \notin {"none", "incoming"} /\ st[c] # "ended"
    BY DEF IsLive
  <2> HIDE DEF r
  <2>7. /\ w.st \notin {"none", "freed"} /\ w.st \notin {"hidden", "bare"} /\ w.st # "freed"
    BY <1>3
  <2>8. ~ag => u.clocks[c] = IF w.tag THEN 1 ELSE 0
    BY <1>3, <2>5, Zenon
  <2>. QED BY <1>3, <2>3, <2>6, <2>7, <2>8, Zenon DEF WindowFits
<1>11. r \in Int
  BY <1>1
<1>12. IsThere(w)
  BY <1>3 DEF IsThere
<1>13. Busy(st[c], u.win[c])
  BY Zenon DEF Busy
<1>14. k <= k
  OBVIOUS
<1> HIDE DEF r
<1>15. WithFits(u, c, w, r, u.clocks[c], l, st, st[c], al, al, ag, ag, k, k)
  BY <1>1, <1>3, <1>7, <1>8, <1>9, <1>10, <1>11, <1>12, <1>13, <1>14, Zenon DEF WithFits
<1>16. [st EXCEPT ![c] = st[c]] = st
  BY <1>1
<1>17. UiFits(v, [st EXCEPT ![c] = st[c]], al, ag, k)
  BY <1>4, <1>15, WithMoves, Zenon
<1>. QED BY <1>6, <1>16, <1>17, Zenon DEF v

\* A window with another field.
LEMMA WindowField ==
    ASSUME NEW w \in Gtk!Window, NEW b \in BOOLEAN
    PROVE  /\ /\ [w EXCEPT !.closed = b] \in Gtk!Window /\ [w EXCEPT !.closed = b].closed = b
              /\ [w EXCEPT !.closed = b].st = w.st /\ [w EXCEPT !.closed = b].tag = w.tag
              /\ [w EXCEPT !.closed = b].meter = w.meter
              /\ [w EXCEPT !.closed = b].dialog = w.dialog
           /\ /\ [w EXCEPT !.tag = b] \in Gtk!Window /\ [w EXCEPT !.tag = b].tag = b
              /\ [w EXCEPT !.tag = b].st = w.st /\ [w EXCEPT !.tag = b].closed = w.closed
              /\ [w EXCEPT !.tag = b].meter = w.meter
              /\ [w EXCEPT !.tag = b].dialog = w.dialog
           /\ /\ [w EXCEPT !.meter = b] \in Gtk!Window /\ [w EXCEPT !.meter = b].meter = b
              /\ [w EXCEPT !.meter = b].st = w.st /\ [w EXCEPT !.meter = b].closed = w.closed
              /\ [w EXCEPT !.meter = b].tag = w.tag
              /\ [w EXCEPT !.meter = b].dialog = w.dialog
           /\ /\ [w EXCEPT !.dialog = b] \in Gtk!Window /\ [w EXCEPT !.dialog = b].dialog = b
              /\ [w EXCEPT !.dialog = b].st = w.st /\ [w EXCEPT !.dialog = b].tag = w.tag
              /\ [w EXCEPT !.dialog = b].meter = w.meter
              /\ [w EXCEPT !.dialog = b].closed = w.closed
BY DEF Gtk!Window

\* A window with other messages.
LEMMA WindowQueue ==
    ASSUME NEW w \in Gtk!Window, NEW q \in Seq(Gtk!Msg)
    PROVE  /\ [w EXCEPT !.mq = q] \in Gtk!Window
           /\ [w EXCEPT !.mq = q].st = w.st /\ [w EXCEPT !.mq = q].closed = w.closed
           /\ [w EXCEPT !.mq = q].tag = w.tag /\ [w EXCEPT !.mq = q].meter = w.meter
           /\ [w EXCEPT !.mq = q].dialog = w.dialog
BY DEF Gtk!Window

\* The window of c becomes w.
WinAt(u, c, w) == SetWin(u, [u.win EXCEPT ![c] = w])
\* It is well typed, and nothing but that window changes.
LEMMA WinAtIs ==
    ASSUME NEW u \in UiRec, NEW c \in GtkNo, NEW w \in Gtk!Window
    PROVE  /\ WinAt(u, c, w) \in UiRec /\ WinAt(u, c, w).win = [u.win EXCEPT ![c] = w]
           /\ WinAt(u, c, w).win[c] = w
           /\ WinAt(u, c, w).refs = u.refs /\ WinAt(u, c, w).clocks = u.clocks
           /\ WinAt(u, c, w).lastWin = u.lastWin
<1> DEFINE W == [u.win EXCEPT ![c] = w]
<1>1. W \in [GtkNo -> Gtk!Window] /\ W[c] = w
  BY UiTypes
<1>2. WinAt(u, c, w) = SetWin(u, W)
  BY DEF WinAt
<1> HIDE DEF W
<1>3. /\ SetWin(u, W) \in UiRec /\ SetWin(u, W).win = W
      /\ SetWin(u, W).refs = u.refs /\ SetWin(u, W).clocks = u.clocks
      /\ SetWin(u, W).lastWin = u.lastWin
  BY <1>1, SetWinIs, Zenon
<1>4. /\ WinAt(u, c, w) \in UiRec /\ WinAt(u, c, w).win = W /\ WinAt(u, c, w).win[c] = w
      /\ WinAt(u, c, w).refs = u.refs /\ WinAt(u, c, w).clocks = u.clocks
      /\ WinAt(u, c, w).lastWin = u.lastWin
  BY <1>1, <1>2, <1>3, Zenon
<1>. QED BY <1>4, Zenon DEF W

\* call_window_closed.
Over(w) == [[[[w EXCEPT !.closed = TRUE] EXCEPT !.tag = FALSE] EXCEPT !.meter = FALSE]
               EXCEPT !.dialog = FALSE]
\* Such a window is over: it has no clock of a call and no meter, and its dialog is closed.
LEMMA OverIs ==
    ASSUME NEW w \in Gtk!Window
    PROVE  /\ Over(w) \in Gtk!Window /\ Over(w).st = w.st /\ Over(w).closed /\ ~Over(w).tag
           /\ ~Over(w).meter /\ ~Over(w).dialog
<1> DEFINE w1 == [w EXCEPT !.closed = TRUE]
           w2 == [w1 EXCEPT !.tag = FALSE]
           w3 == [w2 EXCEPT !.meter = FALSE]
           w4 == [w3 EXCEPT !.dialog = FALSE]
<1>0. TRUE \in BOOLEAN /\ FALSE \in BOOLEAN
  OBVIOUS
<1>5. Over(w) = w4
  BY DEF Over
<1>1. w1 \in Gtk!Window /\ w1.st = w.st /\ w1.closed = TRUE
  BY <1>0, WindowField, Zenon
<1> HIDE DEF w1
<1>2. w2 \in Gtk!Window /\ w2.st = w.st /\ w2.closed = TRUE /\ w2.tag = FALSE
  BY <1>0, <1>1, WindowField, Zenon
<1> HIDE DEF w2
<1>3. /\ w3 \in Gtk!Window /\ w3.st = w.st /\ w3.closed = TRUE /\ w3.tag = FALSE
      /\ w3.meter = FALSE
  BY <1>0, <1>2, WindowField, Zenon
<1> HIDE DEF w3
<1>4. /\ w4 \in Gtk!Window /\ w4.st = w.st /\ w4.closed = TRUE /\ w4.tag = FALSE
      /\ w4.meter = FALSE /\ w4.dialog = FALSE
  BY <1>0, <1>3, WindowField, Zenon
<1>. QED BY <1>4, <1>5, Zenon

\* The clock of which the window knows is stopped.
LEMMA WindowClosedIs ==
    ASSUME NEW u \in UiRec, NEW c \in GtkNo, u.win[c].tag => u.clocks[c] > 0
    PROVE  Altered(u, Gtk!WindowClosed(u, c), c, Over(u.win[c]), u.refs[c],
                   IF u.win[c].tag THEN u.clocks[c] - 1 ELSE u.clocks[c], u.lastWin)
<1> DEFINE w == u.win[c]
           w1 == [w EXCEPT !.closed = TRUE]
           w2 == [w1 EXCEPT !.tag = FALSE]
           w3 == [w2 EXCEPT !.meter = FALSE]
           w4 == [w3 EXCEPT !.dialog = FALSE]
           y1 == WinAt(u, c, w1)
           x2 == [y1.win[c] EXCEPT !.tag = FALSE]
           y2 == WinAt(y1, c, x2)
           x3 == [y2.win[c] EXCEPT !.meter = FALSE]
           y3 == WinAt(y2, c, x3)
           x4 == [y3.win[c] EXCEPT !.dialog = FALSE]
           y4 == WinAt(y3, c, x4)
           t == IF u.win[c].tag THEN u.clocks[c] - 1 ELSE u.clocks[c]
           v == Gtk!WindowClosed(u, c)
<1>0. TRUE \in BOOLEAN /\ FALSE \in BOOLEAN
  OBVIOUS
<1>1. v = [u EXCEPT !.win[c].closed = TRUE, !.win[c].tag = FALSE, !.win[c].meter = FALSE,
                    !.win[c].dialog = FALSE, !.clocks[c] = IF u.win[c].tag THEN @ - 1 ELSE @]
  BY DEF Gtk!WindowClosed
<1>2. w \in Gtk!Window /\ u.clocks[c] \in 0 .. 2 /\ u.refs \in [GtkNo -> Int]
  BY UiTypes
<1>3. t \in 0 .. 2
  BY <1>2
<1>4. Over(w) = w4
  BY DEF Over
<1>5. w1 \in Gtk!Window
  BY <1>0, <1>2, WindowField, Zenon
<1>6. v = [y1 EXCEPT !.win[c].tag = FALSE, !.win[c].meter = FALSE,
                    !.win[c].dialog = FALSE, !.clocks[c] = IF u.win[c].tag THEN @ - 1 ELSE @]
  BY <1>1 DEF WinAt, SetWin
<1> HIDE DEF v, w1
<1>7. /\ y1 \in UiRec /\ y1.win = [u.win EXCEPT ![c] = w1] /\ y1.win[c] = w1
      /\ y1.refs = u.refs /\ y1.clocks = u.clocks /\ y1.lastWin = u.lastWin
  BY <1>5, WinAtIs
<1> HIDE DEF y1
<1>8. v = [y2 EXCEPT !.win[c].meter = FALSE,
                    !.win[c].dialog = FALSE, !.clocks[c] = IF u.win[c].tag THEN @ - 1 ELSE @]
  BY <1>6 DEF WinAt, SetWin
<1>9. x2 = w2 /\ w2 \in Gtk!Window
  BY <1>0, <1>5, <1>7, WindowField, Zenon
<1> HIDE DEF w2, x2
<1>10. /\ y2 \in UiRec /\ y2.win = [y1.win EXCEPT ![c] = w2] /\ y2.win[c] = w2
       /\ y2.refs = u.refs /\ y2.clocks = u.clocks /\ y2.lastWin = u.lastWin
  BY <1>7, <1>9, WinAtIs
<1> HIDE DEF y2
<1>11. v = [y3 EXCEPT !.win[c].dialog = FALSE, !.clocks[c] = IF u.win[c].tag THEN @ - 1 ELSE @]
  BY <1>8 DEF WinAt, SetWin
<1>12. x3 = w3 /\ w3 \in Gtk!Window
  BY <1>0, <1>9, <1>10, WindowField, Zenon
<1> HIDE DEF w3, x3
<1>13. /\ y3 \in UiRec /\ y3.win = [y2.win EXCEPT ![c] = w3] /\ y3.win[c] = w3
       /\ y3.refs = u.refs /\ y3.clocks = u.clocks /\ y3.lastWin = u.lastWin
  BY <1>10, <1>12, WinAtIs
<1> HIDE DEF y3
<1>14. v = [y4 EXCEPT !.clocks[c] = IF u.win[c].tag THEN @ - 1 ELSE @]
  BY <1>11 DEF WinAt, SetWin
<1>15. x4 = w4 /\ w4 \in Gtk!Window
  BY <1>0, <1>12, <1>13, WindowField, Zenon
<1> HIDE DEF w4, x4
<1>16. /\ y4 \in UiRec /\ y4.win = [y3.win EXCEPT ![c] = w4] /\ y4.win[c] = w4
       /\ y4.refs = u.refs /\ y4.clocks = u.clocks /\ y4.lastWin = u.lastWin
  BY <1>13, <1>15, WinAtIs
<1> HIDE DEF y4
<1> DEFINE T == [u.clocks EXCEPT ![c] = t]
<1>17. v = SetClocks(y4, T)
  BY <1>14, <1>16 DEF SetClocks
<1>18. T \in [GtkNo -> 0 .. 2]
  BY <1>3, UiTypes
<1> HIDE DEF T
<1>19. v \in UiRec /\ v.win = y4.win /\ v.refs = u.refs /\ v.clocks = T /\ v.lastWin = u.lastWin
  BY <1>16, <1>17, <1>18, SetClocksIs, Zenon
<1>20. y4.win = [u.win EXCEPT ![c] = w4]
  <2>1. u.win \in [GtkNo -> Gtk!Window]
    BY UiTypes
  <2>. QED BY <1>7, <1>10, <1>13, <1>16, <2>1
<1>21. u.refs = [u.refs EXCEPT ![c] = u.refs[c]]
  BY <1>2
<1>22. Altered(u, v, c, w4, u.refs[c], t, u.lastWin)
  BY <1>19, <1>20, <1>21, Zenon DEF Altered, T
<1>. QED BY <1>4, <1>22, Zenon DEF v

\* The release of a call by its end, which closes what its window shows.
LEMMA CallClosedIs ==
    ASSUME NEW u \in UiRec, NEW c \in GtkNo, u.win[c].tag => u.clocks[c] > 0
    PROVE  Altered(u, Gtk!CallClosed(u, c), c,
                   IF u.win[c].st = "open" THEN Over(u.win[c]) ELSE u.win[c],
                   u.refs[c] - 1,
                   IF u.win[c].st = "open" /\ u.win[c].tag THEN u.clocks[c] - 1
                   ELSE u.clocks[c], u.lastWin)
<1> DEFINE A == [u.audio EXCEPT ![c] = FALSE]
           x == SetAudio(u, A)
           y == IF u.win[c].st = "open" THEN Gtk!WindowClosed(x, c) ELSE x
           R == [y.refs EXCEPT ![c] = @ - 1]
           v == SetRefs(y, R)
           w == IF u.win[c].st = "open" THEN Over(u.win[c]) ELSE u.win[c]
           t == IF u.win[c].st = "open" /\ u.win[c].tag THEN u.clocks[c] - 1 ELSE u.clocks[c]
<1>1. Gtk!CallClosed(u, c) = v
  BY DEF Gtk!CallClosed, SetAudio, SetRefs
<1>2. A \in [GtkNo -> BOOLEAN]
  BY UiTypes
<1> HIDE DEF A
<1>3. /\ x \in UiRec /\ x.win = u.win /\ x.refs = u.refs /\ x.clocks = u.clocks
      /\ x.lastWin = u.lastWin
  BY <1>2, SetAudioIs, Zenon
<1> HIDE DEF x
<1>4. /\ y \in UiRec /\ y.win = [u.win EXCEPT ![c] = w] /\ y.refs = u.refs
      /\ y.clocks = [u.clocks EXCEPT ![c] = t] /\ y.lastWin = u.lastWin
  <2>1. CASE u.win[c].st = "open"
    <3>1. Altered(x, Gtk!WindowClosed(x, c), c, Over(x.win[c]), x.refs[c],
                   IF x.win[c].tag THEN x.clocks[c] - 1 ELSE x.clocks[c], x.lastWin)
      BY <1>3, WindowClosedIs
    <3>2. x.refs = [x.refs EXCEPT ![c] = x.refs[c]]
      BY <1>3, UiTypes
    <3>3. y = Gtk!WindowClosed(x, c) /\ w = Over(x.win[c])
          /\ t = IF x.win[c].tag THEN x.clocks[c] - 1 ELSE x.clocks[c]
      BY <1>3, <2>1
    <3> HIDE DEF w, t, y
    <3>. QED BY <1>3, <3>1, <3>2, <3>3, Zenon DEF Altered
  <2>2. CASE u.win[c].st # "open"
    <3>1. /\ [u.win EXCEPT ![c] = u.win[c]] = u.win
          /\ [u.clocks EXCEPT ![c] = u.clocks[c]] = u.clocks
      BY UiTypes
    <3>. QED BY <1>3, <2>2, <3>1, Zenon
  <2>. QED BY <2>1, <2>2
<1> HIDE DEF w, t, y
<1>5. R = [u.refs EXCEPT ![c] = u.refs[c] - 1] /\ R \in [GtkNo -> Int]
  BY <1>4, UiTypes
<1> HIDE DEF R
<1>6. v \in UiRec /\ v.win = y.win /\ v.refs = R /\ v.clocks = y.clocks /\ v.lastWin = y.lastWin
  BY <1>4, <1>5, SetRefsIs, Zenon
<1> HIDE DEF v
<1>7. Altered(u, v, c, w, u.refs[c] - 1, t, u.lastWin)
  BY <1>4, <1>5, <1>6, Zenon DEF Altered
<1>. QED BY <1>1, <1>7, Zenon DEF w, t

\* The window of c after an alteration, and those of the others.
LEMMA AlteredStates ==
    ASSUME NEW u \in UiRec, NEW v, NEW c \in GtkNo, NEW w, NEW r, NEW t, NEW l,
           Altered(u, v, c, w, r, t, l)
    PROVE  v.win[c] = w /\ \A d \in GtkNo : d # c => v.win[d] = u.win[d]
BY UiTypes DEF Altered

\* A call that ends leaves no window that does not say so.
LEMMA CallClosedFits ==
    ASSUME NEW u, NEW st, NEW al, NEW ag, NEW k \in Nat, UiFits(u, st, al, ag, k),
           NEW c \in GtkNo, IsLive(st[c])
    PROVE  /\ UiFits(Gtk!CallClosed(u, c), [st EXCEPT ![c] = "ended"], al, ag, k)
           /\ \A d \in GtkNo : Gtk!CallClosed(u, c).win[d].st = u.win[d].st
           /\ u.win[c].st = "open" => Gtk!CallClosed(u, c).win[c].closed
<1> DEFINE w == IF u.win[c].st = "open" THEN Over(u.win[c]) ELSE u.win[c]
           r == u.refs[c] - 1
           t == IF u.win[c].st = "open" /\ u.win[c].tag THEN u.clocks[c] - 1 ELSE u.clocks[c]
           l == u.lastWin
           v == Gtk!CallClosed(u, c)
<1>1. /\ u \in UiRec /\ st \in [GtkNo -> GtkState] /\ st[c] \in GtkState
      /\ u.win[c] \in Gtk!Window /\ u.refs[c] \in Int /\ u.clocks[c] \in 0 .. 2
      /\ WindowFits(u.win[c], u.refs[c], u.clocks[c], st[c], al, ag)
  BY FitsAt, Zenon
<1>2. u.win[c].tag => u.clocks[c] > 0
  BY <1>1, Zenon DEF WindowFits
<1>3. Altered(u, v, c, w, r, t, l)
  BY <1>1, <1>2, CallClosedIs
<1>4. st[c] # "ended" /\ st[c] # "none"
  BY DEF IsLive
<1>5. u.win[c].st \in {"none", "open"}
  <2>1. u.win[c].st \notin {"hidden", "bare"} /\ u.win[c].st # "freed"
    BY <1>1, <1>4, Zenon DEF WindowFits
  <2>. QED BY <1>1, <2>1, WindowTypes
<1>6. w \in Gtk!Window /\ w.st = u.win[c].st
  BY <1>1, OverIs
<1>7. u.win[c].st = "open" => w.closed /\ ~w.tag /\ ~w.meter /\ ~w.dialog
  BY <1>1, OverIs
<1>8. u.win[c].st = "none" => w = u.win[c]
  OBVIOUS
<1>9. t \in 0 .. 2 /\ r \in Int
  BY <1>1, <1>2
<1>10. WindowFits(w, r, t, "ended", al, ag)
  <2>1. CASE u.win[c].st = "open"
    <3>1. u.refs[c] = Holders(st[c], u.win[c])
      BY <1>1, Zenon DEF WindowFits
    <3>2. r = 1
      BY <3>1, <2>1 DEF Holders
    <3>3. Holders("ended", w) = 1
      BY <1>6, <2>1 DEF Holders, IsLive
    <3>4. ~ag => u.clocks[c] = IF u.win[c].tag THEN 1 ELSE 0
      BY <1>1, Zenon DEF WindowFits
    <3>5. ~ag => t = 0
      BY <3>4, <2>1
    <3>6. /\ w.st \notin {"none", "freed"} /\ w.st \notin {"hidden", "bare"} /\ w.st # "freed"
      BY <1>6, <2>1
    <3>7. "ended" \notin {"none", "incoming"}
      OBVIOUS
    <3> HIDE DEF w, r, t
    <3>8. ~ag => t = IF w.tag THEN 1 ELSE 0
      BY <1>7, <2>1, <3>5, Zenon
    <3>. QED BY <1>7, <2>1, <3>2, <3>3, <3>6, <3>7, <3>8, Zenon DEF WindowFits
  <2>2. CASE u.win[c].st = "none"
    <3>1. u.refs[c] = Holders(st[c], u.win[c])
      BY <1>1, Zenon DEF WindowFits
    <3>2. r = 0
      BY <3>1, <2>2 DEF Holders
    <3>3. Holders("ended", w) = 0
      BY <1>6, <2>2 DEF Holders, IsLive
    <3>4. t = u.clocks[c]
      BY <2>2
    <3>5. w.st # "open" /\ w.st \notin {"hidden", "bare"}
      BY <1>6, <2>2
    <3>6. w = u.win[c]
      BY <1>8, <2>2
    <3> HIDE DEF w, r, t
    <3>. QED BY <1>1, <3>2, <3>3, <3>4, <3>5, <3>6, Zenon DEF WindowFits
  <2>. QED BY <1>5, <2>1, <2>2
<1>11. l \in GtkNo \cup {0} /\ (l # 0 => (IF l = c THEN IsThere(w) ELSE l = u.lastWin))
  <2>1. l # 0 => IsThere(u.win[l])
    BY Zenon DEF UiFits
  <2>2. l \in GtkNo \cup {0}
    BY <1>1, UiTypes, Zenon
  <2>. QED BY <1>6, <2>1, <2>2 DEF IsThere
<1>12. c <= k
  BY <1>4, BegunIsNumbered, Zenon
<1>13. "ended" \in GtkState /\ k <= k
  BY DEF GtkState
<1>14. Busy(st[c], u.win[c])
  BY Zenon DEF Busy
<1> HIDE DEF w, r, t, l, v
<1>15. WithFits(u, c, w, r, t, l, st, "ended", al, al, ag, ag, k, k)
  BY <1>6, <1>9, <1>10, <1>11, <1>12, <1>13, <1>14, Zenon DEF WithFits
<1>16. UiFits(v, [st EXCEPT ![c] = "ended"], al, ag, k)
  BY <1>3, <1>15, WithMoves, Zenon
<1>17. v.win[c] = w /\ \A d \in GtkNo : d # c => v.win[d] = u.win[d]
  BY <1>1, <1>3, AlteredStates
<1>18. \A d \in GtkNo : v.win[d].st = u.win[d].st
  BY <1>6, <1>17, Zenon
<1>. QED BY <1>7, <1>16, <1>17, <1>18, Zenon DEF v

\* call_window_progress and _established: one more clock runs for the window.
LEMMA TickingFits ==
    ASSUME NEW u, NEW st, NEW al, NEW ag, NEW ag2, NEW k \in Nat, UiFits(u, st, al, ag, k),
           NEW c \in GtkNo, IsLive(st[c]), u.win[c].st = "open",
           Restarts(u, c, ag, ag2)
    PROVE  /\ UiFits(Gtk!Ticking(u, c), st, al, ag2, k)
           /\ \A d \in GtkNo : Gtk!Ticking(u, c).win[d].st = u.win[d].st
<1> DEFINE w == [u.win[c] EXCEPT !.tag = TRUE]
           t == IF u.clocks[c] = 2 THEN 2 ELSE u.clocks[c] + 1
           y == WinAt(u, c, w)
           T == [y.clocks EXCEPT ![c] = IF @ = 2 THEN 2 ELSE @ + 1]
           z == SetClocks(y, T)
           v == SetLast(z, c)
<1>1. /\ u \in UiRec /\ st \in [GtkNo -> GtkState] /\ st[c] \in GtkState
      /\ u.win[c] \in Gtk!Window /\ u.refs[c] \in Int /\ u.clocks[c] \in 0 .. 2
      /\ WindowFits(u.win[c], u.refs[c], u.clocks[c], st[c], al, ag)
  BY FitsAt, Zenon
<1>2. Gtk!Ticking(u, c) = v
  BY DEF Gtk!Ticking, WinAt, SetWin, SetClocks, SetLast
<1>3. /\ w \in Gtk!Window /\ w.st = u.win[c].st /\ w.closed = u.win[c].closed /\ w.tag = TRUE
      /\ w.meter = u.win[c].meter /\ w.dialog = u.win[c].dialog
  <2>1. TRUE \in BOOLEAN
    OBVIOUS
  <2>. QED BY <1>1, <2>1, WindowField, Zenon
<1> HIDE DEF w
<1>4. /\ y \in UiRec /\ y.win = [u.win EXCEPT ![c] = w] /\ y.refs = u.refs
      /\ y.clocks = u.clocks
  BY <1>1, <1>3, WinAtIs
<1> HIDE DEF y
<1>5. T = [u.clocks EXCEPT ![c] = t] /\ t \in 0 .. 2 /\ t > 0
  BY <1>1, <1>4
<1>6. [u.clocks EXCEPT ![c] = t] \in [GtkNo -> 0 .. 2]
  BY <1>1, <1>5, UiTypes
<1> HIDE DEF T
<1>7. z \in UiRec /\ z.win = y.win /\ z.refs = u.refs /\ z.clocks = T
  BY <1>4, <1>5, <1>6, SetClocksIs, Zenon
<1> HIDE DEF z
<1>8. c \in GtkNo \cup {0} /\ c # 0
  BY DEF GtkNo
<1>9. v \in UiRec /\ v.win = y.win /\ v.refs = u.refs /\ v.clocks = T /\ v.lastWin = c
  BY <1>7, <1>8, SetLastIs, Zenon
<1> HIDE DEF v
<1>10. u.refs = [u.refs EXCEPT ![c] = u.refs[c]]
  BY <1>1, UiTypes
<1>11. Altered(u, v, c, w, u.refs[c], t, c)
  BY <1>4, <1>5, <1>9, <1>10, Zenon DEF Altered
<1>12. u.refs[c] = Holders(st[c], w)
  <2>1. Holders(st[c], w) = Holders(st[c], u.win[c])
    BY <1>3, Zenon DEF Holders
  <2>. QED BY <1>1, <2>1, Zenon DEF WindowFits
<1>13. ~w.closed
  <2>1. st[c] # "ended"
    BY DEF IsLive
  <2>. QED BY <1>1, <1>3, <2>1, Zenon DEF WindowFits
<1>14. ~ag2 => t = 1
  <2>1. ~ag2 => ~ag /\ u.clocks[c] = 0
    <3>1. u.clocks[c] > 0 \/ u.clocks[c] = 0
      BY <1>1
    <3>. QED BY <3>1, Zenon DEF Restarts
  <2>2. u.clocks[c] = 0 => t = 1
    OBVIOUS
  <2>. QED BY <2>1, <2>2, Zenon
<1> HIDE DEF t
<1>15. WindowFits(w, u.refs[c], t, st[c], al, ag2)
  <2>1. /\ w.st \notin {"none", "freed"} /\ w.st \notin {"hidden", "bare"} /\ w.st # "freed"
        /\ w.st = "open"
    BY <1>3
  <2>2. st[c] \notin {"none", "incoming"} /\ st[c] # "ended"
    <3>1. st[c] # "ended"
      BY DEF IsLive
    <3>. QED BY <1>1, <3>1, Zenon DEF WindowFits
  <2>. QED BY <1>3, <1>5, <1>12, <1>13, <1>14, <2>1, <2>2, Zenon DEF WindowFits
<1>16. c <= k
  <2>1. st[c] # "none"
    BY DEF IsLive
  <2>. QED BY <2>1, BegunIsNumbered, Zenon
<1>17. IsThere(w) /\ k <= k /\ Busy(st[c], u.win[c])
  BY <1>3 DEF IsThere, Busy
<1>18. ag => ag2
  BY Zenon DEF Restarts
<1>19. WithFits(u, c, w, u.refs[c], t, c, st, st[c], al, al, ag, ag2, k, k)
  BY <1>1, <1>3, <1>5, <1>8, <1>15, <1>16, <1>17, <1>18, Zenon DEF WithFits
<1>20. UiFits(v, [st EXCEPT ![c] = st[c]], al, ag2, k)
  BY <1>11, <1>19, WithMoves, Zenon
<1>21. [st EXCEPT ![c] = st[c]] = st
  BY <1>1
<1>22. v.win[c] = w /\ \A d \in GtkNo : d # c => v.win[d] = u.win[d]
  BY <1>1, <1>11, AlteredStates
<1>. QED BY <1>2, <1>3, <1>20, <1>21, <1>22, Zenon

\* A call changes that is not over and stays so.
LEMMA StateFits ==
    ASSUME NEW u, NEW st, NEW al, NEW ag, NEW k \in Nat, UiFits(u, st, al, ag, k),
           NEW c \in GtkNo, IsLive(st[c]), NEW s, IsLive(s), s # "incoming"
    PROVE  UiFits(u, [st EXCEPT ![c] = s], al, ag, k)
<1> DEFINE w == u.win[c]
<1>1. /\ u \in UiRec /\ st \in [GtkNo -> GtkState] /\ st[c] \in GtkState
      /\ w \in Gtk!Window /\ u.refs[c] \in Int /\ u.clocks[c] \in 0 .. 2
      /\ WindowFits(w, u.refs[c], u.clocks[c], st[c], al, ag)
  BY FitsAt, Zenon
<1>2. /\ [u.win EXCEPT ![c] = w] = u.win /\ [u.refs EXCEPT ![c] = u.refs[c]] = u.refs
      /\ [u.clocks EXCEPT ![c] = u.clocks[c]] = u.clocks
  BY <1>1, UiTypes
<1>3. Altered(u, u, c, w, u.refs[c], u.clocks[c], u.lastWin)
  BY <1>1, <1>2, Zenon DEF Altered
<1>4. s \in GtkState /\ st[c] # "ended" /\ s # "ended" /\ s # "none" /\ st[c] # "none"
  BY DEF IsLive, GtkState
<1>5. Holders(s, w) = Holders(st[c], w)
  BY Zenon DEF Holders
<1>6. WindowFits(w, u.refs[c], u.clocks[c], s, al, ag)
  <2>1. s \notin {"none", "incoming"}
    BY <1>4
  <2>2. w.st \notin {"hidden", "bare"} /\ w.st # "freed"
    BY <1>1, <1>4, Zenon DEF WindowFits
  <2>3. w.st = "open" => ~w.closed
    BY <1>1, <1>4, Zenon DEF WindowFits
  <2>. QED BY <1>1, <1>4, <1>5, <2>1, <2>2, <2>3, Zenon DEF WindowFits
<1>7. /\ u.lastWin \in GtkNo \cup {0}
      /\ u.lastWin # 0 => (IF u.lastWin = c THEN IsThere(w) ELSE u.lastWin = u.lastWin)
  <2>1. u.lastWin # 0 => IsThere(u.win[u.lastWin])
    BY Zenon DEF UiFits
  <2>2. u.lastWin \in GtkNo \cup {0}
    BY <1>1, UiTypes, Zenon
  <2>. QED BY <2>1, <2>2, Zenon
<1>8. c <= k
  BY <1>4, BegunIsNumbered, Zenon
<1>9. k <= k /\ Busy(st[c], u.win[c])
  BY DEF Busy
<1> HIDE DEF w
<1>10. WithFits(u, c, w, u.refs[c], u.clocks[c], u.lastWin, st, s, al, al, ag, ag, k, k)
  BY <1>1, <1>4, <1>6, <1>7, <1>8, <1>9, Zenon DEF WithFits
<1>. QED BY <1>3, <1>10, WithMoves, Zenon

\* What is promised while a call begins: there is no other, nor its window.
MayBegin(u, st, al, al2) == al2 => al /\ \A d \in GtkNo : ~Busy(st[d], u.win[d])

\* A call begins.
First(u, c) == [u EXCEPT !.refs[c] = 1]
\* Every part of the window's books holds when the call begins, if the promise is kept.
LEMMA BeginsFits ==
    ASSUME NEW u, NEW st, NEW al, NEW ag, NEW k \in Nat, UiFits(u, st, al, ag, k),
           NEW c \in GtkNo, c = k + 1, NEW s, IsLive(s), NEW al2,
           MayBegin(u, st, al, al2)
    PROVE  UiFits(First(u, c), [st EXCEPT ![c] = s], al2, ag, c) /\ First(u, c).win = u.win
<1> DEFINE w == u.win[c]
           R == [u.refs EXCEPT ![c] = 1]
           v == SetRefs(u, R)
<1>1. /\ u \in UiRec /\ st \in [GtkNo -> GtkState] /\ st[c] \in GtkState
      /\ w \in Gtk!Window /\ u.refs[c] \in Int /\ u.clocks[c] \in 0 .. 2
      /\ WindowFits(w, u.refs[c], u.clocks[c], st[c], al, ag)
      /\ c > k => st[c] = "none" /\ u.win[c].st = "none"
  BY FitsAt, Zenon
<1>2. First(u, c) = v
  BY DEF First, SetRefs
<1>3. R \in [GtkNo -> Int]
  BY <1>1, UiTypes
<1> HIDE DEF R
<1>4. v \in UiRec /\ v.win = u.win /\ v.refs = R /\ v.clocks = u.clocks /\ v.lastWin = u.lastWin
  BY <1>1, <1>3, SetRefsIs, Zenon
<1> HIDE DEF v
<1>5. /\ [u.win EXCEPT ![c] = w] = u.win /\ [u.clocks EXCEPT ![c] = u.clocks[c]] = u.clocks
  BY <1>1, UiTypes
<1>6. Altered(u, v, c, w, 1, u.clocks[c], u.lastWin)
  BY <1>4, <1>5, Zenon DEF Altered, R
<1>7. w.st = "none" /\ k <= k + 1 /\ c <= k + 1 /\ k + 1 \in Nat /\ 1 \in Int
  BY <1>1
<1>8. s \in GtkState
  BY DEF IsLive, GtkState
<1>9. Holders(s, w) = 1
  BY <1>7 DEF Holders
<1>10. WindowFits(w, 1, u.clocks[c], s, al2, ag)
  <2>1. w.st # "open" /\ w.st \notin {"hidden", "bare"} /\ w.st # "freed"
    BY <1>7
  <2>2. /\ w.st \in {"none", "freed"} => ~w.tag /\ ~w.meter
        /\ w.closed => ~w.tag /\ ~w.dialog /\ (al2 => ~w.meter)
        /\ w.tag => u.clocks[c] > 0
        /\ ~ag => u.clocks[c] = IF w.tag THEN 1 ELSE 0
    <3>1. al2 => al
      BY Zenon DEF MayBegin
    <3>. QED BY <1>1, <3>1, Zenon DEF WindowFits
  <2> HIDE DEF w
  <2>. QED BY <1>9, <2>1, <2>2, Zenon DEF WindowFits
<1>11. /\ u.lastWin \in GtkNo \cup {0}
       /\ u.lastWin # 0 => (IF u.lastWin = c THEN IsThere(w) ELSE u.lastWin = u.lastWin)
  <2>1. u.lastWin # 0 => IsThere(u.win[u.lastWin])
    BY Zenon DEF UiFits
  <2>2. u.lastWin \in GtkNo \cup {0}
    BY <1>1, UiTypes, Zenon
  <2>. QED BY <2>1, <2>2, Zenon
<1>12. al2 => al
  BY Zenon DEF MayBegin
<1>13. al2 /\ Busy(s, w) =>
          Busy(st[c], u.win[c]) \/ \A d \in GtkNo : d # c => ~Busy(st[d], u.win[d])
  BY Zenon DEF MayBegin
<1> DEFINE k2 == k + 1
<1> HIDE DEF w, k2
<1>14. k \in Nat /\ k2 \in Nat /\ k <= k2 /\ c <= k2
  BY <1>7 DEF k2
<1>15. WithFits(u, c, w, 1, u.clocks[c], u.lastWin, st, s, al, al2, ag, ag, k, k2)
  BY <1>1, <1>7, <1>8, <1>10, <1>11, <1>12, <1>13, <1>14, Zenon DEF WithFits
<1>16. UiFits(v, [st EXCEPT ![c] = s], al2, ag, k2)
  BY <1>6, <1>15, WithMoves, Zenon
<1>17. k2 = c
  BY DEF k2
<1>. QED BY <1>2, <1>4, <1>16, <1>17, Zenon

\* MQ_CLOSE: the window of a call that is over is hidden.
Hide(u, c) == [u EXCEPT !.win[c].st = "hidden", !.win[c].closed = TRUE, !.win[c].dialog = FALSE]
\* They hold when a window is hidden: the call of such a window has ended.
LEMMA HideFits ==
    ASSUME NEW u, NEW st, NEW al, NEW ag, NEW k \in Nat, UiFits(u, st, al, ag, k),
           NEW c \in GtkNo, u.win[c].st = "open", u.win[c].closed
    PROVE  /\ UiFits(Hide(u, c), st, al, ag, k)
           /\ Hide(u, c).win[c].st = "hidden"
           /\ \A d \in GtkNo : d # c => Hide(u, c).win[d].st = u.win[d].st
<1> DEFINE w1 == [u.win[c] EXCEPT !.st = "hidden"]
           y1 == WinAt(u, c, w1)
           w2 == [y1.win[c] EXCEPT !.closed = TRUE]
           y2 == WinAt(y1, c, w2)
           w == [y2.win[c] EXCEPT !.dialog = FALSE]
           v == WinAt(y2, c, w)
<1>0. TRUE \in BOOLEAN /\ FALSE \in BOOLEAN
  OBVIOUS
<1>1. /\ u \in UiRec /\ st \in [GtkNo -> GtkState] /\ st[c] \in GtkState
      /\ u.win[c] \in Gtk!Window /\ u.refs[c] \in Int /\ u.clocks[c] \in 0 .. 2
      /\ WindowFits(u.win[c], u.refs[c], u.clocks[c], st[c], al, ag)
  BY FitsAt, Zenon
<1>2. Hide(u, c) = [y1 EXCEPT !.win[c].closed = TRUE, !.win[c].dialog = FALSE]
  BY DEF Hide, WinAt, SetWin
<1>3. /\ w1 \in Gtk!Window /\ w1.st = "hidden" /\ w1.tag = u.win[c].tag
      /\ w1.meter = u.win[c].meter
  BY <1>1, WindowWith
<1> HIDE DEF w1
<1>4. /\ y1 \in UiRec /\ y1.win = [u.win EXCEPT ![c] = w1] /\ y1.win[c] = w1
      /\ y1.refs = u.refs /\ y1.clocks = u.clocks /\ y1.lastWin = u.lastWin
  BY <1>1, <1>3, WinAtIs
<1> HIDE DEF y1
<1>5. Hide(u, c) = [y2 EXCEPT !.win[c].dialog = FALSE]
  BY <1>2 DEF WinAt, SetWin
<1>6. /\ w2 \in Gtk!Window /\ w2.st = "hidden" /\ w2.tag = u.win[c].tag
      /\ w2.meter = u.win[c].meter /\ w2.closed = TRUE
  <2>1. y1.win[c] \in Gtk!Window
    BY <1>3, <1>4, Zenon
  <2>2. /\ w2 \in Gtk!Window /\ w2.st = y1.win[c].st /\ w2.tag = y1.win[c].tag
        /\ w2.meter = y1.win[c].meter /\ w2.closed = TRUE
    BY <1>0, <2>1, WindowField, Zenon
  <2>. QED BY <1>3, <1>4, <2>2, Zenon
<1> HIDE DEF w2
<1>7. /\ y2 \in UiRec /\ y2.win = [y1.win EXCEPT ![c] = w2] /\ y2.win[c] = w2
      /\ y2.refs = u.refs /\ y2.clocks = u.clocks /\ y2.lastWin = u.lastWin
  BY <1>4, <1>6, WinAtIs
<1> HIDE DEF y2
<1>8. Hide(u, c) = v
  BY <1>5 DEF WinAt, SetWin
<1>9. /\ w \in Gtk!Window /\ w.st = "hidden" /\ w.tag = u.win[c].tag
      /\ w.meter = u.win[c].meter /\ w.closed = TRUE /\ w.dialog = FALSE
  <2>1. y2.win[c] \in Gtk!Window
    BY <1>6, <1>7, Zenon
  <2>2. /\ w \in Gtk!Window /\ w.st = y2.win[c].st /\ w.tag = y2.win[c].tag
        /\ w.meter = y2.win[c].meter /\ w.closed = y2.win[c].closed /\ w.dialog = FALSE
    BY <1>0, <2>1, WindowField, Zenon
  <2>. QED BY <1>6, <1>7, <2>2, Zenon
<1> HIDE DEF w
<1>10. /\ v \in UiRec /\ v.win = [y2.win EXCEPT ![c] = w] /\ v.win[c] = w
       /\ v.refs = u.refs /\ v.clocks = u.clocks /\ v.lastWin = u.lastWin
  BY <1>7, <1>9, WinAtIs
<1> HIDE DEF v
<1>11. /\ v.win = [u.win EXCEPT ![c] = w] /\ [u.refs EXCEPT ![c] = u.refs[c]] = u.refs
       /\ [u.clocks EXCEPT ![c] = u.clocks[c]] = u.clocks
  BY <1>1, <1>4, <1>7, <1>10, UiTypes
<1>12. Altered(u, v, c, w, u.refs[c], u.clocks[c], u.lastWin)
  BY <1>10, <1>11, Zenon DEF Altered
<1>13. st[c] = "ended"
  BY <1>1, Zenon DEF WindowFits
<1>14. u.refs[c] = Holders(st[c], w)
  <2>1. Holders(st[c], w) = Holders(st[c], u.win[c])
    BY <1>9 DEF Holders
  <2>. QED BY <1>1, <2>1, Zenon DEF WindowFits
<1>15. WindowFits(w, u.refs[c], u.clocks[c], st[c], al, ag)
  <2>1. w.st # "open" /\ w.st # "freed" /\ w.st \notin {"none", "freed"}
    BY <1>9
  <2>. QED BY <1>1, <1>9, <1>13, <1>14, <2>1, Zenon DEF WindowFits
<1>16. /\ u.lastWin \in GtkNo \cup {0}
       /\ u.lastWin # 0 => (IF u.lastWin = c THEN IsThere(w) ELSE u.lastWin = u.lastWin)
  <2>1. IsThere(w)
    BY <1>9 DEF IsThere
  <2>2. u.lastWin \in GtkNo \cup {0}
    BY <1>1, UiTypes, Zenon
  <2>. QED BY <2>1, <2>2, Zenon
<1>17. c <= k
  <2>1. st[c] # "none"
    BY <1>13
  <2>. QED BY <2>1, BegunIsNumbered, Zenon
<1>18. k <= k /\ Busy(st[c], u.win[c])
  BY DEF Busy, IsThere
<1>19. WithFits(u, c, w, u.refs[c], u.clocks[c], u.lastWin, st, st[c], al, al, ag, ag, k, k)
  BY <1>1, <1>9, <1>15, <1>16, <1>17, <1>18, Zenon DEF WithFits
<1>20. UiFits(v, [st EXCEPT ![c] = st[c]], al, ag, k)
  BY <1>12, <1>19, WithMoves, Zenon
<1>21. [st EXCEPT ![c] = st[c]] = st
  BY <1>1
<1>22. v.win[c] = w /\ \A d \in GtkNo : d # c => v.win[d] = u.win[d]
  BY <1>1, <1>12, AlteredStates
<1>. QED BY <1>8, <1>9, <1>20, <1>21, <1>22, Zenon

\* The destructor releases the call, which its window has held, and the queue.
BareOf(u, c) == [u EXCEPT !.win[c].st = "bare", !.win[c].mq = <<>>,
                          !.refs[c] = IF @ = 0 THEN 0 ELSE @ - 1]
\* They hold then, and it was the one reference that the window held.
LEMMA BareFits ==
    ASSUME NEW u, NEW st, NEW al, NEW ag, NEW k \in Nat, UiFits(u, st, al, ag, k),
           NEW c \in GtkNo, u.win[c].st = "hidden"
    PROVE  /\ UiFits(BareOf(u, c), st, al, ag, k) /\ u.refs[c] = 1
           /\ BareOf(u, c).win[c].st = "bare"
           /\ \A d \in GtkNo : d # c => BareOf(u, c).win[d].st = u.win[d].st
<1> DEFINE w1 == [u.win[c] EXCEPT !.st = "bare"]
           y1 == WinAt(u, c, w1)
           w == [y1.win[c] EXCEPT !.mq = <<>>]
           y2 == WinAt(y1, c, w)
           R == [y2.refs EXCEPT ![c] = IF @ = 0 THEN 0 ELSE @ - 1]
           v == SetRefs(y2, R)
<1>1. /\ u \in UiRec /\ st \in [GtkNo -> GtkState] /\ st[c] \in GtkState
      /\ u.win[c] \in Gtk!Window /\ u.refs[c] \in Int /\ u.clocks[c] \in 0 .. 2
      /\ WindowFits(u.win[c], u.refs[c], u.clocks[c], st[c], al, ag)
  BY FitsAt, Zenon
<1>2. BareOf(u, c) = [y1 EXCEPT !.win[c].mq = <<>>, !.refs[c] = IF @ = 0 THEN 0 ELSE @ - 1]
  BY DEF BareOf, WinAt, SetWin
<1>3. /\ w1 \in Gtk!Window /\ w1.st = "bare" /\ w1.tag = u.win[c].tag
      /\ w1.meter = u.win[c].meter /\ w1.closed = u.win[c].closed
      /\ w1.dialog = u.win[c].dialog
  BY <1>1, WindowWith
<1> HIDE DEF w1
<1>4. /\ y1 \in UiRec /\ y1.win = [u.win EXCEPT ![c] = w1] /\ y1.win[c] = w1
      /\ y1.refs = u.refs /\ y1.clocks = u.clocks /\ y1.lastWin = u.lastWin
  BY <1>1, <1>3, WinAtIs
<1> HIDE DEF y1
<1>5. BareOf(u, c) = v
  BY <1>2 DEF WinAt, SetWin, SetRefs
<1>6. /\ w \in Gtk!Window /\ w.st = "bare" /\ w.tag = u.win[c].tag
      /\ w.meter = u.win[c].meter /\ w.closed = u.win[c].closed
      /\ w.dialog = u.win[c].dialog
  <2>1. <<>> \in Seq(Gtk!Msg)
    OBVIOUS
  <2>. QED BY <1>3, <1>4, <2>1, WindowQueue, Zenon
<1> HIDE DEF w
<1>7. /\ y2 \in UiRec /\ y2.win = [y1.win EXCEPT ![c] = w]
      /\ y2.refs = u.refs /\ y2.clocks = u.clocks /\ y2.lastWin = u.lastWin
  BY <1>4, <1>6, WinAtIs
<1> HIDE DEF y2
<1>8. st[c] = "ended" /\ u.win[c].closed
  <2>1. u.win[c].st \in {"hidden", "bare"}
    OBVIOUS
  <2>. QED BY <1>1, <2>1, Zenon DEF WindowFits
<1>9. u.refs[c] = 1
  <2>1. u.refs[c] = Holders(st[c], u.win[c])
    BY <1>1, Zenon DEF WindowFits
  <2>. QED BY <1>8, <2>1 DEF Holders, IsLive
<1>10. R = [u.refs EXCEPT ![c] = 0] /\ R \in [GtkNo -> Int]
  BY <1>1, <1>7, <1>9, UiTypes
<1> HIDE DEF R
<1>11. v \in UiRec /\ v.win = y2.win /\ v.refs = R /\ v.clocks = u.clocks
       /\ v.lastWin = u.lastWin
  BY <1>7, <1>10, SetRefsIs, Zenon
<1> HIDE DEF v
<1>12. v.win = [u.win EXCEPT ![c] = w] /\ [u.clocks EXCEPT ![c] = u.clocks[c]] = u.clocks
  BY <1>1, <1>4, <1>7, <1>11, UiTypes
<1>13. Altered(u, v, c, w, 0, u.clocks[c], u.lastWin)
  BY <1>10, <1>11, <1>12, Zenon DEF Altered
<1>14. Holders(st[c], w) = 0 /\ 0 \in Int
  BY <1>6, <1>8 DEF Holders, IsLive
<1>15. WindowFits(w, 0, u.clocks[c], st[c], al, ag)
  <2>1. w.st # "open" /\ w.st # "freed" /\ w.st \notin {"none", "freed"}
    BY <1>6
  <2>2. /\ w.closed => ~w.tag /\ ~w.dialog /\ (al => ~w.meter)
        /\ w.tag => u.clocks[c] > 0
        /\ ~ag => u.clocks[c] = IF w.tag THEN 1 ELSE 0
    BY <1>1, <1>6, Zenon DEF WindowFits
  <2>3. w.closed
    BY <1>6, <1>8
  <2>. QED BY <1>8, <1>14, <2>1, <2>2, <2>3, Zenon DEF WindowFits
<1>16. /\ u.lastWin \in GtkNo \cup {0}
       /\ u.lastWin # 0 => (IF u.lastWin = c THEN IsThere(w) ELSE u.lastWin = u.lastWin)
  <2>1. IsThere(w)
    BY <1>6 DEF IsThere
  <2>2. u.lastWin \in GtkNo \cup {0}
    BY <1>1, UiTypes, Zenon
  <2>. QED BY <2>1, <2>2, Zenon
<1>17. c <= k
  <2>1. st[c] # "none"
    BY <1>8
  <2>. QED BY <2>1, BegunIsNumbered, Zenon
<1>18. k <= k /\ Busy(st[c], u.win[c])
  BY DEF Busy, IsThere
<1>19. WithFits(u, c, w, 0, u.clocks[c], u.lastWin, st, st[c], al, al, ag, ag, k, k)
  BY <1>1, <1>6, <1>14, <1>15, <1>16, <1>17, <1>18, Zenon DEF WithFits
<1>20. UiFits(v, [st EXCEPT ![c] = st[c]], al, ag, k)
  BY <1>13, <1>19, WithMoves, Zenon
<1>21. [st EXCEPT ![c] = st[c]] = st
  BY <1>1
<1>22. v.win[c] = w /\ \A d \in GtkNo : d # c => v.win[d] = u.win[d]
  BY <1>1, <1>13, AlteredStates
<1>. QED BY <1>5, <1>6, <1>9, <1>20, <1>21, <1>22, Zenon

\* The rest of the destructor: the window is freed, and the last one forgotten.
FreedOf(u, c) == [u EXCEPT !.win[c] = [Gtk!NoWindow EXCEPT !.st = "freed"], !.lastWin = 0,
                           !.clocks[c] = IF u.win[c].tag THEN @ - 1 ELSE @]
\* They hold then: a hidden window has no clock that the destructor would have to stop.
LEMMA FreedFits ==
    ASSUME NEW u, NEW st, NEW al, NEW ag, NEW k \in Nat, UiFits(u, st, al, ag, k),
           NEW c \in GtkNo, u.win[c].st = "bare"
    PROVE  /\ UiFits(FreedOf(u, c), st, al, ag, k)
           /\ FreedOf(u, c).win[c].st = "freed"
           /\ \A d \in GtkNo : d # c => FreedOf(u, c).win[d].st = u.win[d].st
<1> DEFINE w == [Gtk!NoWindow EXCEPT !.st = "freed"]
           y1 == WinAt(u, c, w)
           y2 == SetLast(y1, 0)
           T == [y2.clocks EXCEPT ![c] = IF u.win[c].tag THEN @ - 1 ELSE @]
           v == SetClocks(y2, T)
<1>1. /\ u \in UiRec /\ st \in [GtkNo -> GtkState] /\ st[c] \in GtkState
      /\ u.win[c] \in Gtk!Window /\ u.refs[c] \in Int /\ u.clocks[c] \in 0 .. 2
      /\ WindowFits(u.win[c], u.refs[c], u.clocks[c], st[c], al, ag)
  BY FitsAt, Zenon
<1>2. FreedOf(u, c) = v
  BY DEF FreedOf, WinAt, SetWin, SetLast, SetClocks
<1>3. /\ w \in Gtk!Window /\ w.st = "freed" /\ ~w.tag /\ ~w.meter /\ ~w.closed /\ ~w.dialog
  BY NoWindowIs, WindowWith
<1> HIDE DEF w
<1>4. /\ y1 \in UiRec /\ y1.win = [u.win EXCEPT ![c] = w]
      /\ y1.refs = u.refs /\ y1.clocks = u.clocks
  BY <1>1, <1>3, WinAtIs
<1> HIDE DEF y1
<1>5. /\ y2 \in UiRec /\ y2.win = y1.win /\ y2.refs = u.refs /\ y2.clocks = u.clocks
      /\ y2.lastWin = 0
  <2>1. 0 \in GtkNo \cup {0}
    OBVIOUS
  <2>. QED BY <1>4, <2>1, SetLastIs, Zenon
<1> HIDE DEF y2
<1>6. st[c] = "ended" /\ u.win[c].closed
  <2>1. u.win[c].st \in {"hidden", "bare"}
    OBVIOUS
  <2>. QED BY <1>1, <2>1, Zenon DEF WindowFits
<1>7. ~u.win[c].tag
  BY <1>1, <1>6, Zenon DEF WindowFits
<1>8. T = u.clocks /\ T \in [GtkNo -> 0 .. 2]
  BY <1>1, <1>5, <1>7, UiTypes
<1> HIDE DEF T
<1>9. v \in UiRec /\ v.win = y1.win /\ v.refs = u.refs /\ v.clocks = u.clocks /\ v.lastWin = 0
  BY <1>5, <1>8, SetClocksIs, Zenon
<1> HIDE DEF v
<1>10. /\ [u.refs EXCEPT ![c] = u.refs[c]] = u.refs
       /\ [u.clocks EXCEPT ![c] = u.clocks[c]] = u.clocks
  BY <1>1, UiTypes
<1>11. Altered(u, v, c, w, u.refs[c], u.clocks[c], 0)
  BY <1>4, <1>9, <1>10, Zenon DEF Altered
<1>12. u.refs[c] = Holders(st[c], w)
  <2>1. u.refs[c] = Holders(st[c], u.win[c])
    BY <1>1, Zenon DEF WindowFits
  <2>. QED BY <1>3, <1>6, <2>1 DEF Holders, IsLive
<1>13. WindowFits(w, u.refs[c], u.clocks[c], st[c], al, ag)
  <2>1. w.st # "open" /\ w.st \notin {"hidden", "bare"}
    BY <1>3
  <2>2. ~ag => u.clocks[c] = IF w.tag THEN 1 ELSE 0
    BY <1>1, <1>3, <1>7, Zenon DEF WindowFits
  <2>. QED BY <1>3, <1>6, <1>12, <2>1, <2>2, Zenon DEF WindowFits
<1>14. 0 \in GtkNo \cup {0} /\ (0 # 0 => (IF 0 = c THEN IsThere(w) ELSE 0 = u.lastWin))
  OBVIOUS
<1>15. c <= k
  <2>1. st[c] # "none"
    BY <1>6
  <2>. QED BY <2>1, BegunIsNumbered, Zenon
<1>16. k <= k /\ Busy(st[c], u.win[c])
  BY DEF Busy, IsThere
<1>17. WithFits(u, c, w, u.refs[c], u.clocks[c], 0, st, st[c], al, al, ag, ag, k, k)
  BY <1>1, <1>3, <1>13, <1>14, <1>15, <1>16, Zenon DEF WithFits
<1>18. UiFits(v, [st EXCEPT ![c] = st[c]], al, ag, k)
  BY <1>11, <1>17, WithMoves, Zenon
<1>19. [st EXCEPT ![c] = st[c]] = st
  BY <1>1
<1>20. v.win[c] = w /\ \A d \in GtkNo : d # c => v.win[d] = u.win[d]
  BY <1>1, <1>11, AlteredStates
<1>. QED BY <1>2, <1>3, <1>18, <1>19, <1>20, Zenon

\* The user presses a button of the window, or types into the dialog: its state is the same.
LEMMA MqFits ==
    ASSUME NEW u, NEW st, NEW al, NEW ag, NEW k \in Nat, UiFits(u, st, al, ag, k),
           NEW c \in GtkNo, u.win[c].st = "open", NEW q \in Seq(Gtk!Msg)
    PROVE  /\ UiFits([u EXCEPT !.win[c].mq = q], st, al, ag, k)
           /\ \A d \in GtkNo : [u EXCEPT !.win[c].mq = q].win[d].st = u.win[d].st
<1> DEFINE w == [u.win[c] EXCEPT !.mq = q]
           v == WinAt(u, c, w)
<1>1. /\ u \in UiRec /\ st[c] \in GtkState /\ u.win[c] \in Gtk!Window
      /\ WindowFits(u.win[c], u.refs[c], u.clocks[c], st[c], al, ag)
  BY FitsAt, Zenon
<1>2. [u EXCEPT !.win[c].mq = q] = v /\ [u EXCEPT !.win[c] = w] = v
  BY DEF WinAt, SetWin
<1>3. /\ w \in Gtk!Window /\ w.st = u.win[c].st /\ w.closed = u.win[c].closed
      /\ w.tag = u.win[c].tag /\ w.meter = u.win[c].meter /\ w.dialog = u.win[c].dialog
  BY <1>1, WindowQueue, Zenon
<1> HIDE DEF w
<1>4. SameWindow(u.win[c], w, al)
  BY <1>1, <1>3, Zenon DEF SameWindow, WindowFits
<1>5. c <= k
  <2>1. st[c] # "none"
    BY <1>1, Zenon DEF WindowFits
  <2>. QED BY <2>1, BegunIsNumbered, Zenon
<1>6. UiFits([u EXCEPT !.win[c] = w], st, al, ag, k)
  BY <1>4, <1>5, WindowAltered, Zenon
<1>7. v.win = [u.win EXCEPT ![c] = w]
  BY <1>1, <1>3, WinAtIs
<1> HIDE DEF v
<1>8. \A d \in GtkNo : v.win[d].st = u.win[d].st
  BY <1>1, <1>3, <1>7, UiTypes
<1>. QED BY <1>2, <1>6, <1>8, Zenon

\* call_on_transfer: a window whose call is not over opens its dialog.
LEMMA DialogFits ==
    ASSUME NEW u, NEW st, NEW al, NEW ag, NEW k \in Nat, UiFits(u, st, al, ag, k),
           NEW c \in GtkNo, u.win[c].st = "open", ~u.win[c].closed
    PROVE  /\ UiFits([u EXCEPT !.win[c].dialog = TRUE], st, al, ag, k)
           /\ \A d \in GtkNo : [u EXCEPT !.win[c].dialog = TRUE].win[d].st = u.win[d].st
<1> DEFINE w == [u.win[c] EXCEPT !.dialog = TRUE]
           v == WinAt(u, c, w)
<1>1. /\ u \in UiRec /\ st[c] \in GtkState /\ u.win[c] \in Gtk!Window
      /\ WindowFits(u.win[c], u.refs[c], u.clocks[c], st[c], al, ag)
  BY FitsAt, Zenon
<1>2. [u EXCEPT !.win[c].dialog = TRUE] = v /\ [u EXCEPT !.win[c] = w] = v
  BY DEF WinAt, SetWin
<1>3. /\ w \in Gtk!Window /\ w.st = u.win[c].st /\ w.closed = u.win[c].closed
      /\ w.tag = u.win[c].tag /\ w.meter = u.win[c].meter
  <2>1. TRUE \in BOOLEAN
    OBVIOUS
  <2>. QED BY <1>1, <2>1, WindowField, Zenon
<1> HIDE DEF w
<1>4. SameWindow(u.win[c], w, al)
  BY <1>1, <1>3, Zenon DEF SameWindow, WindowFits
<1>5. c <= k
  <2>1. st[c] # "none"
    BY <1>1, Zenon DEF WindowFits
  <2>. QED BY <2>1, BegunIsNumbered, Zenon
<1>6. UiFits([u EXCEPT !.win[c] = w], st, al, ag, k)
  BY <1>4, <1>5, WindowAltered, Zenon
<1>7. v.win = [u.win EXCEPT ![c] = w]
  BY <1>1, <1>3, WinAtIs
<1> HIDE DEF v
<1>8. \A d \in GtkNo : v.win[d].st = u.win[d].st
  BY <1>1, <1>3, <1>7, UiTypes
<1>. QED BY <1>2, <1>6, <1>8, Zenon

\* call_on_mute_toggle: the meters of a call that is not over stop or go on.
Metered(u, c, b) == [u EXCEPT !.win[c].meter = b]
\* They hold then.
LEMMA MeterFits ==
    ASSUME NEW u, NEW st, NEW al, NEW ag, NEW k \in Nat, UiFits(u, st, al, ag, k),
           NEW c \in GtkNo, u.win[c].st = "open", ~u.win[c].closed, NEW b \in BOOLEAN
    PROVE  /\ UiFits(Metered(u, c, b), st, al, ag, k)
           /\ \A d \in GtkNo : Metered(u, c, b).win[d].st = u.win[d].st
<1> DEFINE w == [u.win[c] EXCEPT !.meter = b]
           v == WinAt(u, c, w)
<1>1. /\ u \in UiRec /\ st[c] \in GtkState /\ u.win[c] \in Gtk!Window
      /\ WindowFits(u.win[c], u.refs[c], u.clocks[c], st[c], al, ag)
  BY FitsAt, Zenon
<1>2. Metered(u, c, b) = v /\ [u EXCEPT !.win[c] = w] = v
  BY DEF Metered, WinAt, SetWin
<1>3. /\ w \in Gtk!Window /\ w.st = u.win[c].st /\ w.closed = u.win[c].closed
      /\ w.tag = u.win[c].tag /\ w.dialog = u.win[c].dialog
  <2> DEFINE x == u.win[c]
  <2>1. x \in Gtk!Window
    BY <1>1
  <2> HIDE DEF x
  <2>2. /\ [x EXCEPT !.meter = b] \in Gtk!Window /\ [x EXCEPT !.meter = b].st = x.st
        /\ [x EXCEPT !.meter = b].closed = x.closed /\ [x EXCEPT !.meter = b].tag = x.tag
        /\ [x EXCEPT !.meter = b].dialog = x.dialog
    BY <2>1 DEF Gtk!Window
  <2>. QED BY <2>2, Zenon DEF x
<1>0. w.st \notin {"none", "freed"}
  BY <1>3
<1> HIDE DEF w
<1>4. SameWindow(u.win[c], w, al)
  BY <1>0, <1>1, <1>3, Zenon DEF SameWindow, WindowFits
<1>5. c <= k
  <2>1. st[c] # "none"
    BY <1>1, Zenon DEF WindowFits
  <2>. QED BY <2>1, BegunIsNumbered, Zenon
<1>6. UiFits([u EXCEPT !.win[c] = w], st, al, ag, k)
  BY <1>4, <1>5, WindowAltered, Zenon
<1>7. v.win = [u.win EXCEPT ![c] = w]
  BY <1>1, <1>3, WinAtIs
<1> HIDE DEF v
<1>8. \A d \in GtkNo : v.win[d].st = u.win[d].st
  BY <1>1, <1>3, <1>7, UiTypes
<1>. QED BY <1>2, <1>6, <1>8, Zenon

-----------------------------------------------------------------------------
\* A message of the queue is about the call c, which may still be answered.
Queued(q, c) == \E i \in 1 .. Len(q) : q[i][1] # "connect" /\ q[i][2] = c
Waits(st, win, N, c) == c \notin N /\ st[c] \in {"incoming", "ended"} /\ win[c].st = "none"

\* Who is queued waits.
LEMMA QueuedWaits ==
    ASSUME NEW q, NEW st, NEW win, NEW N, QueueFits(q, st, win, N), NEW c, Queued(q, c)
    PROVE  Waits(st, win, N, c)
<1>1. PICK i \in 1 .. Len(q) : q[i][1] # "connect" /\ q[i][2] = c
  BY Zenon DEF Queued
<1>2. q[i][2] \notin N /\ st[q[i][2]] \in {"incoming", "ended"} /\ win[q[i][2]].st = "none"
  BY <1>1, Zenon DEF QueueFits
<1>. QED BY <1>1, <1>2, Zenon DEF Waits

\* Calls and windows change, but those of which there is a message still wait.
LEMMA QueueMoves ==
    ASSUME NEW q, NEW st, NEW win, NEW N, QueueFits(q, st, win, N),
           NEW s2, NEW w2, NEW N2,
           \A c \in GtkNo : Queued(q, c) /\ Waits(st, win, N, c) => Waits(s2, w2, N2, c)
    PROVE  QueueFits(q, s2, w2, N2)
<1>1. ASSUME NEW i \in 1 .. Len(q), q[i][1] # "connect"
      PROVE  Waits(s2, w2, N2, q[i][2])
  <2>1. Queued(q, q[i][2])
    BY <1>1, Zenon DEF Queued
  <2>2. Waits(st, win, N, q[i][2])
    BY <2>1, QueuedWaits, Zenon
  <2>3. q[i][2] \in GtkNo
    <3>1. q \in Seq(GtkMsg)
      BY Zenon DEF QueueFits
    <3>2. q[i] \in GtkMsg
      BY <3>1
    <3>. QED BY <1>1, <3>2 DEF GtkMsg
  <2>. QED BY <2>1, <2>2, <2>3, Zenon
<1>. QED BY <1>1, Zenon DEF QueueFits, Waits

\* A message is added, about a call of which there is none.
LEMMA QueueGrows ==
    ASSUME NEW q, NEW st, NEW win, NEW N, QueueFits(q, st, win, N), NEW m \in GtkMsg,
           m[1] # "connect" => ~Queued(q, m[2]) /\ Waits(st, win, N, m[2])
    PROVE  QueueFits(Append(q, m), st, win, N)
<1> DEFINE p == Append(q, m)
           n == Len(q)
<1>1. q \in Seq(GtkMsg) /\ n \in Nat
  BY LenProperties DEF QueueFits
<1>2. p \in Seq(GtkMsg) /\ Len(p) = n + 1 /\ p[n + 1] = m /\ \A i \in 1 .. n : p[i] = q[i]
  BY <1>1
<1> HIDE DEF p
<1>3. \A i \in 1 .. n + 1 : i = n + 1 \/ i \in 1 .. n
  BY <1>1
<1>4. \A i \in 1 .. n : q[i][1] # "connect" => Queued(q, q[i][2])
  BY Zenon DEF Queued
<1>5. \A i \in 1 .. n : q[i][1] # "connect" => Waits(st, win, N, q[i][2])
  BY Zenon DEF QueueFits, Waits
<1>6. \A i, j \in 1 .. n :
         i # j /\ q[i][1] # "connect" /\ q[j][1] # "connect" => q[i][2] # q[j][2]
  BY Zenon DEF QueueFits
<1> DEFINE z == n + 1
<1> HIDE DEF n
<1> HIDE DEF z
<1>7. p \in Seq(GtkMsg) /\ Len(p) = z /\ p[z] = m /\ \A i \in 1 .. n : p[i] = q[i]
  BY <1>2 DEF n, z
<1>8. \A i \in 1 .. z : i = z \/ i \in 1 .. n
  BY <1>3 DEF n, z
<1>9. \A i \in 1 .. z : p[i][1] # "connect" => Waits(st, win, N, p[i][2])
  BY <1>5, <1>7, <1>8, Zenon
<1>10. \A i, j \in 1 .. z :
         i # j /\ p[i][1] # "connect" /\ p[j][1] # "connect" => p[i][2] # p[j][2]
  <2>1. \A i \in 1 .. n : q[i][1] # "connect" /\ m[1] # "connect" => q[i][2] # m[2]
    BY <1>4, Zenon
  <2>2. \A i \in 1 .. n : p[i] = q[i]
    BY <1>7, Zenon
  <2>3. ASSUME NEW i \in 1 .. z, NEW j \in 1 .. z, i # j,
               p[i][1] # "connect", p[j][1] # "connect"
        PROVE  p[i][2] # p[j][2]
    <3>1. CASE i \in 1 .. n /\ j \in 1 .. n
      BY <1>6, <2>2, <2>3, <3>1, Zenon
    <3>2. CASE i \in 1 .. n /\ j = z
      BY <1>7, <2>1, <2>2, <2>3, <3>2, Zenon
    <3>3. CASE j \in 1 .. n /\ i = z
      BY <1>7, <2>1, <2>2, <2>3, <3>3, Zenon
    <3>. QED BY <1>8, <2>3, <3>1, <3>2, <3>3, Zenon
  <2>. QED BY <2>3, Zenon
<1>11. QueueFits(p, st, win, N)
  BY <1>7, <1>9, <1>10, Zenon DEF QueueFits, Waits
<1>. QED BY <1>11, Zenon DEF p

\* The first message is taken: it was the only one about its call.
LEMMA QueueShrinks ==
    ASSUME NEW q, NEW st, NEW win, NEW N, QueueFits(q, st, win, N), q # <<>>
    PROVE  /\ QueueFits(Tail(q), st, win, N) /\ Head(q) \in GtkMsg
           /\ Head(q)[1] # "connect" =>
                 ~Queued(Tail(q), Head(q)[2]) /\ Waits(st, win, N, Head(q)[2])
<1> DEFINE p == Tail(q)
           n == Len(q)
           l == Len(p)
           h == Head(q)
<1>1. q \in Seq(GtkMsg) /\ n \in Nat
  BY LenProperties DEF QueueFits
<1>2. /\ p \in Seq(GtkMsg) /\ l = n - 1 /\ n > 0 /\ h = q[1] /\ h \in GtkMsg
      /\ \A i \in 1 .. l : p[i] = q[i + 1]
  BY <1>1, EmptySeq, HeadTailProperties
<1> HIDE DEF p, h
<1>3. \A i \in 1 .. l : i + 1 \in 1 .. n /\ i + 1 # 1
  BY <1>1, <1>2
<1>4. \A i, j \in 1 .. l : i # j => i + 1 # j + 1
  BY <1>1, <1>2
<1>5. \A i \in 1 .. n : q[i][1] # "connect" => Waits(st, win, N, q[i][2])
  BY Zenon DEF QueueFits, Waits
<1>6. \A i, j \in 1 .. n :
         i # j /\ q[i][1] # "connect" /\ q[j][1] # "connect" => q[i][2] # q[j][2]
  BY Zenon DEF QueueFits
<1>7. 1 \in 1 .. n
  BY <1>1, <1>2
<1> HIDE DEF n, l
<1>8. \A i \in 1 .. l : p[i][1] # "connect" => Waits(st, win, N, p[i][2])
  BY <1>2, <1>3, <1>5
<1>9. \A i, j \in 1 .. l :
         i # j /\ p[i][1] # "connect" /\ p[j][1] # "connect" => p[i][2] # p[j][2]
  BY <1>2, <1>3, <1>4, <1>6
<1>10. QueueFits(p, st, win, N)
  BY <1>2, <1>8, <1>9, Zenon DEF QueueFits, Waits, l
<1>11. h[1] # "connect" => Waits(st, win, N, h[2])
  BY <1>2, <1>5, <1>7
<1>12. h[1] # "connect" => ~Queued(p, h[2])
  <2>1. SUFFICES ASSUME h[1] # "connect", NEW i \in 1 .. l, p[i][1] # "connect"
                 PROVE  p[i][2] # h[2]
    BY Zenon DEF Queued, l
  <2>. QED BY <1>2, <1>3, <1>6, <1>7, <2>1
<1>. QED BY <1>2, <1>10, <1>11, <1>12, Zenon DEF p, h

\* But for the call c, all stay where they are.
SameElse(st, s2, win, w2, c) ==
    \A d \in GtkNo : d # c => s2[d] = st[d] /\ w2[d].st = win[d].st

\* A call that is not queued, or of which the message is taken, changes with its window.
LEMMA QueueElse ==
    ASSUME NEW q, NEW st, NEW win, NEW N, QueueFits(q, st, win, N), NEW c \in GtkNo,
           ~Queued(q, c), NEW s2, NEW w2, NEW N2,
           SameElse(st, s2, win, w2, c), N2 \subseteq N \cup {c}
    PROVE  QueueFits(q, s2, w2, N2)
<1>1. ASSUME NEW d \in GtkNo, Queued(q, d), Waits(st, win, N, d)
      PROVE  Waits(s2, w2, N2, d)
  <2>1. d # c
    BY <1>1
  <2>2. d \notin N2
    BY <1>1, <2>1 DEF Waits
  <2>. QED BY <1>1, <2>1, <2>2, Zenon DEF Waits, SameElse
<1>. QED BY <1>1, QueueMoves, Zenon

\* No message is about a call that cannot be answered.
LEMMA NotQueued ==
    ASSUME NEW q, NEW st, NEW win, NEW N, QueueFits(q, st, win, N), NEW c,
           ~Waits(st, win, N, c)
    PROVE  ~Queued(q, c)
BY QueuedWaits, Zenon

\* A call that is not over has a window that is open, or none.
LEMMA LiveWindow ==
    ASSUME NEW u, NEW st, NEW al, NEW ag, NEW k, UiFits(u, st, al, ag, k),
           NEW c \in GtkNo, IsLive(st[c])
    PROVE  /\ u.win[c].st \in {"none", "open"}
           /\ st[c] = "incoming" => u.win[c].st = "none"
           /\ u.win[c].st = "open" => ~u.win[c].closed
<1>1. /\ u.win[c] \in Gtk!Window
      /\ WindowFits(u.win[c], u.refs[c], u.clocks[c], st[c], al, ag)
  BY FitsAt, Zenon
<1>2. st[c] # "ended"
  BY DEF IsLive
<1>3. u.win[c].st \notin {"hidden", "bare"} /\ u.win[c].st # "freed"
  BY <1>1, <1>2, Zenon DEF WindowFits
<1>4. u.win[c].st = "open" => st[c] \notin {"none", "incoming"} /\ ~u.win[c].closed
  BY <1>1, <1>2, Zenon DEF WindowFits
<1>5. u.win[c].st \in {"none", "open", "hidden", "bare", "freed"}
  BY <1>1, WindowTypes, Zenon
<1>6. u.win[c].st \in {"none", "open"}
  BY <1>3, <1>5
<1>7. st[c] = "incoming" => u.win[c].st = "none"
  BY <1>4, <1>6
<1>. QED BY <1>4, <1>6, <1>7

\* get_create_call_window.
LEMMA ShownFits ==
    ASSUME NEW u, NEW st, NEW al, NEW ag, NEW k \in Nat, UiFits(u, st, al, ag, k),
           NEW c \in GtkNo, IsLive(st[c]), st[c] # "incoming"
    PROVE  /\ UiFits(Gtk!Shown(u, c), st, al, ag, k)
           /\ Gtk!Shown(u, c).win[c].st = "open"
           /\ Gtk!Shown(u, c).clocks = u.clocks
           /\ \A d \in GtkNo : d # c => Gtk!Shown(u, c).win[d].st = u.win[d].st
<1>1. CASE u.win[c].st = "none"
  <2>1. Gtk!Shown(u, c) = Gtk!NewWindow(u, c)
    BY <1>1, Zenon DEF Gtk!Shown
  <2>2. /\ UiFits(Gtk!NewWindow(u, c), st, al, ag, k)
        /\ Gtk!NewWindow(u, c).win[c].st = "open"
        /\ Gtk!NewWindow(u, c).clocks = u.clocks
        /\ \A d \in GtkNo : d # c => Gtk!NewWindow(u, c).win[d].st = u.win[d].st
    BY <1>1, NewWindowFits, Zenon
  <2>. QED BY <2>1, <2>2, Zenon
<1>2. CASE u.win[c].st # "none"
  <2>1. Gtk!Shown(u, c) = u
    BY <1>2, Zenon DEF Gtk!Shown
  <2>2. u.win[c].st = "open"
    BY <1>2, LiveWindow
  <2>. QED BY <2>1, <2>2, Zenon
<1>. QED BY <1>1, <1>2, Zenon

\* Notes about other hazards than that of the timers, and fewer promises, do not matter.
LEMMA WrongGrows ==
    ASSUME NEW wr, NEW al, NEW ag, NEW al2, NEW ag2, WrongFits(wr, al, ag), al2 => al, ag => ag2,
           NEW X \in SUBSET {"queued", "text", "meter"}
    PROVE  WrongFits(wr \cup X, al2, ag2)
<1>1. wr \subseteq {"queued", "text", "meter", "timer"}
  BY Zenon DEF WrongFits
<1>2. wr \cup X \subseteq {"queued", "text", "meter", "timer"}
  BY <1>1
<1>3. al2 /\ ~ag2 => "timer" \notin wr
  BY Zenon DEF WrongFits
<1>4. "timer" \notin X
  OBVIOUS
<1>. QED BY <1>2, <1>3, <1>4, Zenon DEF WrongFits

\* What a window finds of the meters it is given.
LEMMA DeadVuIs ==
    ASSUME NEW u, NEW c
    PROVE  /\ Gtk!DeadVu(u) \in SUBSET {"queued", "text", "meter"}
           /\ Gtk!ShownDead(u, c) \in SUBSET {"queued", "text", "meter"}
BY DEF Gtk!DeadVu, Gtk!ShownDead, Gtk!When

\* What begins alone has no other call, nor its window.
LEMMA BeginsAlone ==
    ASSUME NEW s, GtkInv, Gtk!Begins(s), IsLive(s)
    PROVE  /\ gtkCalls + 1 \in GtkNo /\ gtkCalls \in Nat /\ gtkCalls' = gtkCalls + 1
           /\ ThreadsFit(thread, main, gtkCalls', alone', gtkAgain)
           /\ alone' => alone
           /\ ~Queued(queue, gtkCalls + 1)
           /\ gtkCalls + 1 \notin notified
           /\ ui.win[gtkCalls + 1].st = "none" /\ state[gtkCalls + 1] = "none"
           /\ state' = [state EXCEPT ![gtkCalls + 1] = s]
           /\ UiFits(First(ui, gtkCalls + 1), state', alone', gtkAgain, gtkCalls')
           /\ First(ui, gtkCalls + 1).win = ui.win
<1> DEFINE c == gtkCalls + 1
<1>1. gtkCalls \in Nat /\ gtkCalls < GtkCalls /\ GtkCalls \in Nat /\ gtkCalls' = c
  <2>1. gtkCalls \in 0 .. GtkCalls /\ GtkCalls \in Nat
    BY PartsAssumption DEF GtkInv, ThreadsFit, Gtk!GtkUiAssumption
  <2>2. gtkCalls < GtkCalls /\ gtkCalls' = gtkCalls + 1
    BY Zenon DEF Gtk!Begins
  <2>. QED BY <2>1, <2>2
<1>2. c \in GtkNo /\ c > gtkCalls
  BY <1>1 DEF GtkNo
<1>3. UiFits(ui, state, alone, gtkAgain, gtkCalls)
  BY Zenon DEF GtkInv
<1>4. state[c] = "none" /\ ui.win[c].st = "none" /\ ui \in UiRec /\ state \in [GtkNo -> GtkState]
  BY <1>2, <1>3, FitsAt
<1>5. ~Queued(queue, c)
  <2>1. ~Waits(state, ui.win, notified, c)
    BY <1>4 DEF Waits
  <2>2. QueueFits(queue, state, ui.win, notified)
    BY Zenon DEF GtkInv
  <2>. QED BY <2>1, <2>2, NotQueued, Zenon
<1>6. c \notin notified
  BY <1>4 DEF GtkInv, EntriesFit
<1>7. MayBegin(ui, state, alone, alone')
  <2>1. alone' = (alone /\ \A d \in GtkNo : ~Gtk!Live(d) /\ ui.win[d].st \in {"none", "freed"})
    BY Zenon DEF Gtk!Begins, Gtk!CallNo, GtkNo
  <2>2. ASSUME NEW d \in GtkNo, ~Gtk!Live(d), ui.win[d].st \in {"none", "freed"}
        PROVE  ~Busy(state[d], ui.win[d])
    BY <2>2 DEF Gtk!Live, Busy, IsLive, IsThere
  <2>5. SUFFICES alone' => alone /\ \A d \in GtkNo : ~Busy(state[d], ui.win[d])
    BY Zenon DEF MayBegin
  <2>3. SUFFICES ASSUME alone' PROVE alone /\ \A d \in GtkNo : ~Busy(state[d], ui.win[d])
    OBVIOUS
  <2>4. alone /\ \A d \in GtkNo : ~Gtk!Live(d) /\ ui.win[d].st \in {"none", "freed"}
    BY <2>1, <2>3, Zenon
  <2>. QED BY <2>2, <2>4, Zenon
<1>12. alone' => alone
  BY <1>7, Zenon DEF MayBegin
<1>8. alone' \in BOOLEAN
  <2>1. alone' = (alone /\ \A d \in Gtk!CallNo : ~Gtk!Live(d) /\ ui.win[d].st \in {"none", "freed"})
    BY Zenon DEF Gtk!Begins
  <2>. QED BY <2>1
<1>9. state' = [state EXCEPT ![c] = s]
  BY Zenon DEF Gtk!Begins
<1> DEFINE s2 == [state EXCEPT ![c] = s]
           v == First(ui, c)
<1>10. UiFits(v, s2, alone', gtkAgain, c) /\ v.win = ui.win
  <2>1. c = gtkCalls + 1
    OBVIOUS
  <2> HIDE DEF c
  <2>. QED BY <1>1, <1>2, <1>3, <1>7, <2>1, BeginsFits, Zenon
<1>11. ThreadsFit(thread, main, c, alone', gtkAgain)
  <2>1. c \in 0 .. GtkCalls
    BY <1>1
  <2> HIDE DEF c
  <2>2. ThreadsFit(thread, main, gtkCalls, alone, gtkAgain)
    BY Zenon DEF GtkInv
  <2>. QED BY <1>8, <2>1, <2>2, Zenon DEF ThreadsFit
<1> HIDE DEF v
<1>. QED BY <1>1, <1>2, <1>4, <1>5, <1>6, <1>9, <1>10, <1>11, <1>12, Zenon DEF v

-----------------------------------------------------------------------------
\* What the invariant says.
LEMMA GtkKnown ==
    ASSUME GtkInv
    PROVE  /\ gtkCalls \in Nat /\ alone \in BOOLEAN /\ gtkAgain \in BOOLEAN
           /\ ThreadsFit(thread, main, gtkCalls, alone, gtkAgain)
           /\ WrongFits(wrong, alone, gtkAgain)
           /\ UiFits(ui, state, alone, gtkAgain, gtkCalls)
           /\ EntriesFit(notified, state)
           /\ QueueFits(queue, state, ui.win, notified)
<1>1. gtkCalls \in 0 .. GtkCalls /\ GtkCalls \in Nat
  BY PartsAssumption DEF GtkInv, ThreadsFit, Gtk!GtkUiAssumption
<1>2. gtkCalls \in Nat
  BY <1>1
<1>. QED BY <1>2, Zenon DEF GtkInv, ThreadsFit

\* An open window's call is held, did not just come in, and, when it is over, is known to be.
LEMMA OpenKnown ==
    ASSUME GtkInv, NEW c \in GtkNo, Gtk!Open(c)
    PROVE  /\ ui.refs[c] > 0 /\ ui.refs[c] # 0 /\ state[c] \notin {"none", "incoming"}
           /\ ui.win[c] \in Gtk!Window /\ ui \in UiRec /\ state \in [GtkNo -> GtkState]
           /\ ui.win[c].closed => state[c] = "ended"
           /\ ~ui.win[c].closed => IsLive(state[c])
           /\ c \notin notified /\ ui.win[c].st = "open" /\ ~Queued(queue, c)
<1>1. UiFits(ui, state, alone, gtkAgain, gtkCalls)
  BY GtkKnown, Zenon
<1>2. ui.win[c].st = "open"
  BY Zenon DEF Gtk!Open
<1>3. /\ ui \in UiRec /\ state \in [GtkNo -> GtkState] /\ state[c] \in GtkState
      /\ ui.win[c] \in Gtk!Window
      /\ WindowFits(ui.win[c], ui.refs[c], ui.clocks[c], state[c], alone, gtkAgain)
  BY <1>1, FitsAt, Zenon
<1>4. /\ state[c] \notin {"none", "incoming"} /\ (ui.win[c].closed => state[c] = "ended")
      /\ (state[c] = "ended" => ui.win[c].closed) /\ ui.refs[c] = Holders(state[c], ui.win[c])
  BY <1>2, <1>3, Zenon DEF WindowFits
<1>5. ui.refs[c] = 1 \/ ui.refs[c] = 2
  BY <1>2, <1>4 DEF Holders
<1>6. ~ui.win[c].closed => IsLive(state[c])
  <2>1. ~ui.win[c].closed => state[c] # "ended"
    BY <1>4, Zenon
  <2>. QED BY <1>3, <1>4, <2>1 DEF GtkState, IsLive
<1>7. c \notin notified
  <2>1. EntriesFit(notified, state)
    BY GtkKnown, Zenon
  <2>2. state[c] # "incoming"
    BY <1>4
  <2>. QED BY <2>1, <2>2, Zenon DEF EntriesFit
<1>8. ~Queued(queue, c)
  <2>1. QueueFits(queue, state, ui.win, notified)
    BY GtkKnown, Zenon
  <2>2. ~Waits(state, ui.win, notified, c)
    BY <1>2 DEF Waits
  <2>. QED BY <2>1, <2>2, NotQueued, Zenon
<1>9. ui.refs[c] > 0 /\ ui.refs[c] # 0
  BY <1>5
<1>. QED BY <1>2, <1>3, <1>4, <1>6, <1>7, <1>8, <1>9, Zenon

\* Windows change, but not their states.
LEMMA UiKeeps ==
    ASSUME GtkInv, NEW v, UiFits(v, state, alone, gtkAgain, gtkCalls),
           \A d \in GtkNo : v.win[d].st = ui.win[d].st,
           ui' = v, UNCHANGED <<state, alone, gtkAgain, gtkCalls, notified, queue>>
    PROVE  UiFits(ui, state, alone, gtkAgain, gtkCalls)' /\ EntriesFit(notified, state)'
           /\ QueueFits(queue, state, ui.win, notified)'
<1>1. \A c \in GtkNo : Waits(state, ui.win, notified, c) => Waits(state, v.win, notified, c)
  BY Zenon DEF Waits
<1>2. QueueFits(queue, state, v.win, notified)
  BY <1>1, GtkKnown, QueueMoves, Zenon
<1>3. EntriesFit(notified, state)
  BY GtkKnown, Zenon
<1>. QED BY <1>2, <1>3, Zenon

\* A call comes in.
LEMMA IncomingKeeps ==
    ASSUME GtkInv, Gtk!Incoming
    PROVE  GtkInv'
<1> DEFINE c == gtkCalls + 1
<1>1. Gtk!Begins("incoming") /\ IsLive("incoming")
  BY Zenon DEF Gtk!Incoming, IsLive
<1>2. /\ c \in GtkNo /\ ThreadsFit(thread, main, gtkCalls', alone', gtkAgain)
      /\ alone' => alone
      /\ ~Queued(queue, c) /\ c \notin notified
      /\ state' = [state EXCEPT ![c] = "incoming"]
      /\ UiFits(First(ui, c), state', alone', gtkAgain, gtkCalls')
      /\ First(ui, c).win = ui.win
  BY <1>1, BeginsAlone, Zenon
<1>3. /\ ui' = First(ui, c) /\ UNCHANGED <<thread, main, queue, wrong, gtkAgain>>
      /\ notified' = IF thread = "running" THEN notified \cup {c} ELSE notified
  BY DEF Gtk!Incoming, First
<1> HIDE DEF c
<1>4. WrongFits(wrong, alone', gtkAgain)
  <2>1. WrongFits(wrong, alone, gtkAgain)
    BY GtkKnown, Zenon
  <2>. QED BY <1>2, <2>1, Zenon DEF WrongFits
<1>5. \A d \in GtkNo : d # c => state'[d] = state[d]
  BY <1>2 DEF GtkNo
<1>6. state'[c] = "incoming"
  <2>1. state \in [GtkNo -> GtkState]
    BY GtkKnown, Zenon DEF UiFits
  <2>. QED BY <1>2, <2>1
<1>7. EntriesFit(notified', state')
  <2>1. notified \subseteq GtkNo /\ \A d \in notified : state[d] = "incoming"
    BY GtkKnown, Zenon DEF EntriesFit
  <2>2. notified' \subseteq notified \cup {c}
    BY <1>3
  <2>3. notified' \subseteq GtkNo
    BY <1>2, <2>1, <2>2
  <2>. QED BY <1>5, <1>6, <2>1, <2>2, <2>3 DEF EntriesFit
<1>8. QueueFits(queue, state', ui.win, notified')
  <2>1. notified' \subseteq notified \cup {c}
    BY <1>3
  <2>2. QueueFits(queue, state, ui.win, notified)
    BY GtkKnown, Zenon
  <2>3. SameElse(state, state', ui.win, ui.win, c)
    BY <1>5, Zenon DEF SameElse
  <2>. QED BY <1>2, <2>1, <2>2, <2>3, QueueElse, Zenon
<1>. QED BY <1>2, <1>3, <1>4, <1>7, <1>8, Zenon DEF GtkInv

\* A message is put into the queue of the module.
LEMMA PushKeeps ==
    ASSUME GtkInv, Gtk!Gtk, NEW m \in GtkMsg, Gtk!Push(m), UNCHANGED <<ui, wrong>>,
           notified' \subseteq notified,
           m[1] # "connect" => ~Queued(queue, m[2]) /\ Waits(state, ui.win, notified', m[2])
    PROVE  GtkInv'
<1>1. UNCHANGED <<thread, main, gtkCalls, state, alone, gtkAgain>> /\ queue' = Append(queue, m)
  BY Zenon DEF Gtk!Gtk, Gtk!Push
<1>2. QueueFits(queue, state, ui.win, notified')
  <2>1. \A c \in GtkNo : Waits(state, ui.win, notified, c) => Waits(state, ui.win, notified', c)
    BY DEF Waits
  <2>. QED BY <2>1, GtkKnown, QueueMoves, Zenon
<1>3. QueueFits(Append(queue, m), state, ui.win, notified')
  BY <1>2, QueueGrows, Zenon
<1>4. EntriesFit(notified', state)
  <2>1. EntriesFit(notified, state)
    BY GtkKnown, Zenon
  <2>. QED BY <2>1 DEF EntriesFit
<1>. QED BY <1>1, <1>3, <1>4, GtkKnown, Zenon DEF GtkInv

\* The user chooses to answer or to reject a call that rings, or dials.
LEMMA ChooseKeeps ==
    ASSUME GtkInv, NEW c \in GtkNo, NEW id \in {"answer", "hangup"}, Gtk!Choose(c, id)
    PROVE  GtkInv'
<1>1. /\ Gtk!Gtk /\ c \in notified /\ notified' = notified \ {c} /\ Gtk!Push(<<id, c>>)
      /\ UNCHANGED <<ui, wrong>>
  BY Zenon DEF Gtk!Choose
<1>2. <<id, c>> \in GtkMsg
  BY DEF GtkMsg
<1>3. ~Queued(queue, c)
  <2>1. ~Waits(state, ui.win, notified, c)
    BY <1>1, Zenon DEF Waits
  <2>. QED BY <2>1, GtkKnown, NotQueued, Zenon
<1>4. Waits(state, ui.win, notified', c)
  <2>1. state[c] = "incoming"
    BY <1>1, GtkKnown, Zenon DEF EntriesFit
  <2>2. IsLive(state[c])
    BY <2>1 DEF IsLive
  <2>3. ui.win[c].st = "none"
    BY <2>1, <2>2, GtkKnown, LiveWindow, Zenon
  <2>4. c \notin notified'
    BY <1>1
  <2>. QED BY <2>1, <2>3, <2>4 DEF Waits
<1>5. <<id, c>>[2] = c /\ notified' \subseteq notified
  BY <1>1
<1> DEFINE m == <<id, c>>
<1>6. m \in GtkMsg /\ m[2] = c /\ Gtk!Push(m)
  BY <1>1, <1>2
<1> HIDE DEF m
<1>. QED BY <1>1, <1>3, <1>4, <1>5, <1>6, PushKeeps, Zenon

\* A number typed in the menu is sent to the thread of baresip.
LEMMA DialKeeps ==
    ASSUME GtkInv, Gtk!Dial
    PROVE  GtkInv'
<1> DEFINE m == <<"connect", 0>>
<1>1. m \in GtkMsg /\ m[1] = "connect"
  BY DEF GtkMsg
<1>2. Gtk!Gtk /\ Gtk!Push(m) /\ UNCHANGED <<notified, ui, wrong>>
  BY Zenon DEF Gtk!Dial, Gtk!None
<1>3. notified' \subseteq notified
  BY <1>2
<1> HIDE DEF m
<1>. QED BY <1>1, <1>2, <1>3, PushKeeps, Zenon

\* Nothing but windows, whose states stay, and what is noted change.
LEMMA ButtonKeeps ==
    ASSUME GtkInv, Gtk!Gtk, UNCHANGED <<notified, queue>>, NEW v,
           UiFits(v, state, alone, gtkAgain, gtkCalls),
           \A d \in GtkNo : v.win[d].st = ui.win[d].st, ui' = v,
           WrongFits(wrong', alone, gtkAgain)
    PROVE  GtkInv'
<1>1. UNCHANGED <<thread, main, gtkCalls, state, alone, gtkAgain>>
  BY Zenon DEF Gtk!Gtk
<1>2. /\ UiFits(ui, state, alone, gtkAgain, gtkCalls)' /\ EntriesFit(notified, state)'
      /\ QueueFits(queue, state, ui.win, notified)'
  BY <1>1, UiKeeps, Zenon
<1>. QED BY <1>1, <1>2, GtkKnown, Zenon DEF GtkInv

\* A message is put into the queue of the window of c.
LEMMA PushToKeeps ==
    ASSUME GtkInv, Gtk!Gtk, NEW c \in GtkNo, Gtk!Open(c), NEW m \in Gtk!Msg, Gtk!PushTo(c, m),
           UNCHANGED <<notified, queue, wrong>>
    PROVE  GtkInv'
<1> DEFINE q == Append(ui.win[c].mq, m)
           v == [ui EXCEPT !.win[c].mq = q]
<1>1. ui.win[c] \in Gtk!Window /\ ui.win[c].st = "open"
  BY OpenKnown, Zenon
<1>2. q \in Seq(Gtk!Msg)
  <2>1. ui.win[c].mq \in Seq(Gtk!Msg)
    BY <1>1, WindowTypes, Zenon
  <2>. QED BY <2>1
<1>3. ui' = v
  <2>1. ui' = [ui EXCEPT !.win[c].mq = Append(@, m)]
    BY Zenon DEF Gtk!PushTo
  <2>. QED BY <2>1
<1> HIDE DEF q
<1>4. /\ UiFits(v, state, alone, gtkAgain, gtkCalls)
      /\ \A d \in GtkNo : v.win[d].st = ui.win[d].st
  BY <1>1, <1>2, GtkKnown, MqFits, Zenon
<1> HIDE DEF v
<1>5. WrongFits(wrong', alone, gtkAgain)
  BY GtkKnown, Zenon
<1>. QED BY <1>3, <1>4, <1>5, ButtonKeeps, Zenon

\* The buttons of the window of c.
LEMMA PressCloseKeeps ==
    ASSUME GtkInv, NEW c \in GtkNo, Gtk!PressClose(c)
    PROVE  GtkInv'
<1>1. "close" \in Gtk!Msg
  BY DEF Gtk!Msg
<1>. QED BY <1>1, PushToKeeps, Zenon DEF Gtk!PressClose

\* A transfer asked in the dialog is sent to the thread of baresip.
LEMMA TransferKeeps ==
    ASSUME GtkInv, NEW c \in GtkNo, Gtk!Transfer(c)
    PROVE  GtkInv'
<1>1. "transfer" \in Gtk!Msg
  BY DEF Gtk!Msg
<1>. QED BY <1>1, PushToKeeps, Zenon DEF Gtk!Transfer

\* The dialog of a transfer is opened in a window whose call is not over.
LEMMA OpenDialogKeeps ==
    ASSUME GtkInv, NEW c \in GtkNo, Gtk!OpenDialog(c)
    PROVE  GtkInv'
<1> DEFINE v == [ui EXCEPT !.win[c].dialog = TRUE]
<1>1. /\ Gtk!Gtk /\ Gtk!Open(c) /\ ~ui.win[c].closed /\ ui' = v
      /\ UNCHANGED <<notified, queue, wrong>>
  BY Zenon DEF Gtk!OpenDialog
<1>2. ui.win[c].st = "open"
  BY <1>1, OpenKnown, Zenon
<1>3. /\ UiFits(v, state, alone, gtkAgain, gtkCalls)
      /\ \A d \in GtkNo : v.win[d].st = ui.win[d].st
  BY <1>1, <1>2, GtkKnown, DialogFits, Zenon
<1> HIDE DEF v
<1>4. WrongFits(wrong', alone, gtkAgain)
  BY <1>1, GtkKnown, Zenon
<1>. QED BY <1>1, <1>3, <1>4, ButtonKeeps, Zenon

\* The button of hold puts the call on hold or resumes it.
LEMMA PressHoldKeeps ==
    ASSUME GtkInv, NEW c \in GtkNo, Gtk!PressHold(c)
    PROVE  GtkInv'
<1>1. /\ Gtk!Gtk /\ Gtk!Open(c) /\ ~ui.win[c].closed
      /\ UNCHANGED <<notified, queue>> /\ UNCHANGED wrong
  BY Zenon DEF Gtk!PressHold
<1>2. PICK on \in BOOLEAN :
         ui' = [ui EXCEPT !.win[c].mq = Append(@, "hold"), !.win[c].meter = on]
  BY Zenon DEF Gtk!PressHold
<1>3. ui.win[c] \in Gtk!Window /\ ui.win[c].st = "open" /\ ui \in UiRec
  BY <1>1, OpenKnown, Zenon
<1> DEFINE q == Append(ui.win[c].mq, "hold")
           y == [ui EXCEPT !.win[c].mq = q]
           v == Metered(y, c, on)
<1>4. q \in Seq(Gtk!Msg)
  <2>1. ui.win[c].mq \in Seq(Gtk!Msg)
    BY <1>3, WindowTypes, Zenon
  <2>. QED BY <2>1 DEF Gtk!Msg
<1>5. ui' = v
  BY <1>2 DEF Metered
<1> HIDE DEF q
<1>6. /\ UiFits(y, state, alone, gtkAgain, gtkCalls)
      /\ \A d \in GtkNo : y.win[d].st = ui.win[d].st
  BY <1>3, <1>4, GtkKnown, MqFits, Zenon
<1>7. ~y.win[c].closed
  <2>1. y = WinAt(ui, c, [ui.win[c] EXCEPT !.mq = q])
    BY DEF WinAt, SetWin
  <2> DEFINE w == [ui.win[c] EXCEPT !.mq = q]
  <2>2. w \in Gtk!Window /\ w.closed = ui.win[c].closed
    BY <1>3, <1>4, WindowQueue, Zenon
  <2> HIDE DEF w
  <2>3. WinAt(ui, c, w).win[c] = w
    BY <1>3, <2>2, WinAtIs
  <2>. QED BY <1>1, <2>1, <2>2, <2>3, Zenon DEF w
<1> HIDE DEF y
<1>8. y.win[c].st = "open"
  BY <1>3, <1>6, Zenon
<1>9. /\ UiFits(v, state, alone, gtkAgain, gtkCalls)
      /\ \A d \in GtkNo : v.win[d].st = y.win[d].st
  BY <1>6, <1>7, <1>8, GtkKnown, MeterFits
<1> HIDE DEF v
<1>10. WrongFits(wrong', alone, gtkAgain)
  BY <1>1, GtkKnown, Zenon
<1>11. \A d \in GtkNo : v.win[d].st = ui.win[d].st
  BY <1>6, <1>9, Zenon
<1>. QED BY <1>1, <1>5, <1>9, <1>10, <1>11, ButtonKeeps, Zenon

\* A key is pressed in the window of c, whose call is there.
LEMMA KeyKeeps ==
    ASSUME GtkInv, NEW c \in GtkNo, Gtk!Key(c)
    PROVE  GtkInv'
<1>1. /\ Gtk!Gtk /\ Gtk!Open(c) /\ wrong' = wrong \cup Gtk!When(ui.refs[c] = 0, "call")
      /\ UNCHANGED <<notified, queue, ui>>
  BY Zenon DEF Gtk!Key
<1>2. ui.refs[c] # 0
  BY <1>1, OpenKnown, Zenon
<1>3. wrong' = wrong
  BY <1>1, <1>2 DEF Gtk!When
<1>4. WrongFits(wrong', alone, gtkAgain) /\ UiFits(ui, state, alone, gtkAgain, gtkCalls)
  BY <1>3, GtkKnown, Zenon
<1>. QED BY <1>1, <1>4, ButtonKeeps, Zenon

\* A timer runs; unless a second call or a second start confused them, its window is there.
LEMMA TimerKeeps ==
    ASSUME GtkInv, NEW c \in GtkNo, Gtk!Timer(c)
    PROVE  GtkInv'
<1> DEFINE w == ui.win[c]
           bad == \/ w.st = "freed"
                  \/ w.st = "bare" /\ ui.clocks[c] > 0 /\ ui.refs[c] = 0
                  \/ w.st = "bare" /\ w.meter /\ w.vu # Gtk!None /\ ~Gtk!VuAlive(ui, w.vu)
<1>1. /\ Gtk!Gtk /\ (ui.clocks[c] > 0 \/ ui.win[c].meter)
      /\ wrong' = wrong \cup Gtk!When(bad, "timer")
      /\ UNCHANGED <<notified, queue, ui>>
  BY Zenon DEF Gtk!Timer
<1>2. WindowFits(w, ui.refs[c], ui.clocks[c], state[c], alone, gtkAgain)
  BY GtkKnown, FitsAt, Zenon
<1>3. alone /\ ~gtkAgain => ~bad
  <2>1. SUFFICES ASSUME alone, ~gtkAgain, bad PROVE FALSE
    OBVIOUS
  <2>2. w.st \in {"freed", "bare"}
    BY <2>1
  <2>3. ~w.tag
    <3>1. CASE w.st = "freed"
      <4>1. w.st \in {"none", "freed"}
        BY <3>1
      <4>. QED BY <1>2, <4>1, Zenon DEF WindowFits
    <3>2. CASE w.st = "bare"
      <4>1. w.st \in {"hidden", "bare"}
        BY <3>2
      <4>. QED BY <1>2, <4>1, Zenon DEF WindowFits
    <3>. QED BY <2>2, <3>1, <3>2
  <2>4. ui.clocks[c] = 0
    BY <1>2, <2>1, <2>3, Zenon DEF WindowFits
  <2>5. ~(ui.clocks[c] > 0)
    BY <2>4
  <2>6. w.meter
    BY <1>1, <2>5, Zenon
  <2>7. w.st # "freed"
    <3>1. w.st = "freed" => w.st \in {"none", "freed"}
      OBVIOUS
    <3>. QED BY <1>2, <2>6, <3>1, Zenon DEF WindowFits
  <2>8. w.st \in {"hidden", "bare"}
    BY <2>2, <2>7
  <2>9. w.closed
    BY <1>2, <2>8, Zenon DEF WindowFits
  <2>. QED BY <1>2, <2>1, <2>6, <2>9, Zenon DEF WindowFits
<1> HIDE DEF bad
<1>4. WrongFits(wrong', alone, gtkAgain)
  <2>1. WrongFits(wrong, alone, gtkAgain)
    BY GtkKnown, Zenon
  <2>2. CASE ~bad
    <3>1. wrong' = wrong
      BY <1>1, <2>2 DEF Gtk!When
    <3>. QED BY <2>1, <3>1, Zenon
  <2>3. CASE bad
    <3>1. wrong' = wrong \cup {"timer"}
      BY <1>1, <2>3 DEF Gtk!When
    <3>2. wrong' \subseteq {"queued", "text", "meter", "timer"}
      BY <2>1, <3>1 DEF WrongFits
    <3>. QED BY <1>3, <2>3, <3>2, Zenon DEF WrongFits
  <2>. QED BY <2>2, <2>3
<1>5. UiFits(ui, state, alone, gtkAgain, gtkCalls)
  BY GtkKnown, Zenon
<1>. QED BY <1>1, <1>4, <1>5, ButtonKeeps, Zenon

\* The threads start and end.
LEMMA ThreadsKeep ==
    ASSUME GtkInv, Gtk!Start \/ Gtk!GtkEnds \/ Gtk!ModuleClose \/ Gtk!Joined
    PROVE  GtkInv'
<1>1. /\ UNCHANGED <<gtkCalls, state, notified, ui, wrong, alone, gtkAgain>>
      /\ queue' = queue \/ queue' = <<>>
  BY Zenon DEF Gtk!Start, Gtk!GtkEnds, Gtk!ModuleClose, Gtk!Joined
<1>2. /\ thread' \in {"starting", "running", "quit", "ended"}
      /\ main' \in {"idle", "undo", "closing", "closed"}
  <2>1. /\ thread \in {"starting", "running", "quit", "ended"}
        /\ main \in {"idle", "undo", "closing", "closed"}
    BY Zenon DEF GtkInv, ThreadsFit
  <2>. QED BY <2>1 DEF Gtk!Start, Gtk!GtkEnds, Gtk!ModuleClose, Gtk!Joined
<1>3. ThreadsFit(thread, main, gtkCalls, alone, gtkAgain)'
  BY <1>1, <1>2, GtkKnown, Zenon DEF ThreadsFit
<1>4. QueueFits(queue', state, ui.win, notified)
  <2>1. QueueFits(queue, state, ui.win, notified)
    BY GtkKnown, Zenon
  <2>2. QueueFits(<<>>, state, ui.win, notified)
    <3>1. <<>> \in Seq(GtkMsg) /\ Len(<<>>) = 0
      OBVIOUS
    <3>2. 1 .. 0 = {}
      OBVIOUS
    <3>. QED BY <3>1, <3>2, Zenon DEF QueueFits
  <2>. QED BY <1>1, <2>1, <2>2, Zenon
<1>. QED BY <1>1, <1>3, <1>4, GtkKnown, Zenon DEF GtkInv

-----------------------------------------------------------------------------
\* A call that is not over goes on, with its window, and nothing else happens.
GoesOn(c, v, s2, ag2, X) ==
    /\ IsLive(state[c]) /\ state[c] # "incoming"
    /\ SameElse(state, s2, ui.win, v.win, c)
    /\ ui' = v /\ state' = s2 /\ gtkAgain' = ag2 /\ ag2 \in BOOLEAN
    /\ gtkAgain => ag2
    /\ UNCHANGED <<thread, main, gtkCalls, notified, queue, alone>>
    /\ X \in SUBSET {"queued", "text", "meter"} /\ wrong' = wrong \cup X
\* Such a step keeps the invariant.
LEMMA CallKeeps ==
    ASSUME GtkInv, NEW c \in GtkNo, NEW v, NEW s2, NEW ag2, NEW X,
           UiFits(v, s2, alone, ag2, gtkCalls), GoesOn(c, v, s2, ag2, X)
    PROVE  GtkInv'
<1>0. /\ IsLive(state[c]) /\ state[c] # "incoming"
      /\ SameElse(state, s2, ui.win, v.win, c)
      /\ ui' = v /\ state' = s2 /\ gtkAgain' = ag2 /\ ag2 \in BOOLEAN
      /\ gtkAgain => ag2
      /\ UNCHANGED <<thread, main, gtkCalls, notified, queue, alone>>
      /\ X \in SUBSET {"queued", "text", "meter"} /\ wrong' = wrong \cup X
  BY Zenon DEF GoesOn
<1>1. ThreadsFit(thread, main, gtkCalls, alone, gtkAgain)'
  BY <1>0, GtkKnown, Zenon DEF ThreadsFit
<1>2. WrongFits(wrong', alone, ag2)
  BY <1>0, GtkKnown, WrongGrows, Zenon
<1>3. EntriesFit(notified, s2)
  <2>1. EntriesFit(notified, state)
    BY GtkKnown, Zenon
  <2>2. \A d \in GtkNo : d # c => s2[d] = state[d]
    BY <1>0, Zenon DEF SameElse
  <2>. QED BY <1>0, <2>1, <2>2, Zenon DEF EntriesFit
<1>4. ~Queued(queue, c)
  <2>1. ~Waits(state, ui.win, notified, c)
    BY <1>0 DEF Waits, IsLive
  <2>. QED BY <2>1, GtkKnown, NotQueued, Zenon
<1>5. QueueFits(queue, s2, v.win, notified)
  <2>1. notified \subseteq notified \cup {c}
    OBVIOUS
  <2>. QED BY <1>0, <1>4, <2>1, GtkKnown, QueueElse, Zenon
<1>. QED BY <1>0, <1>1, <1>2, <1>3, <1>5, Zenon DEF GtkInv

\* UA_EVENT_CALL_RINGING and UA_EVENT_CALL_PROGRESS.
LEMMA ProgressKeeps ==
    ASSUME GtkInv, NEW c \in GtkNo, NEW early \in BOOLEAN, Gtk!Progress(c, early)
    PROVE  GtkInv'
<1> DEFINE x == Gtk!Shown(ui, c)
           y == Gtk!Ticking(x, c)
           ag2 == gtkAgain \/ ui.clocks[c] > 0
<1>1. /\ state[c] = "out"
      /\ ui' = IF early THEN Gtk!GotVu(y, c) ELSE x
      /\ wrong' = wrong \cup Gtk!ShownDead(ui, c)
      /\ gtkAgain' = (gtkAgain \/ (early /\ ui.clocks[c] > 0))
      /\ UNCHANGED <<thread, main, gtkCalls, state, notified, queue, alone>>
  BY Zenon DEF Gtk!Progress
<1>2. IsLive(state[c]) /\ state[c] # "incoming"
  BY <1>1 DEF IsLive
<1>3. /\ UiFits(x, state, alone, gtkAgain, gtkCalls) /\ x.win[c].st = "open"
      /\ x.clocks = ui.clocks /\ \A d \in GtkNo : d # c => x.win[d].st = ui.win[d].st
  BY <1>2, GtkKnown, ShownFits, Zenon
<1>4. Gtk!ShownDead(ui, c) \in SUBSET {"queued", "text", "meter"}
  BY DeadVuIs, Zenon
<1> HIDE DEF x
<1>5. CASE ~early
  <2>1. ui' = x /\ gtkAgain' = gtkAgain
    <3>1. gtkAgain \in BOOLEAN
      BY GtkKnown, Zenon
    <3>. QED BY <1>1, <1>5, <3>1
  <2>2. SameElse(state, state, ui.win, x.win, c)
    BY <1>3, Zenon DEF SameElse
  <2>3. GoesOn(c, x, state, gtkAgain, Gtk!ShownDead(ui, c))
    BY <1>1, <1>2, <1>4, <2>1, <2>2, GtkKnown, Zenon DEF GoesOn
  <2>. QED BY <1>3, <2>3, CallKeeps, Zenon
<1>6. CASE early
  <2>1. Restarts(x, c, gtkAgain, ag2) /\ ag2 \in BOOLEAN
    BY <1>3, Zenon DEF Restarts
  <2>2. gtkAgain' = ag2 /\ (gtkAgain => ag2)
    BY <1>1, <1>6, Zenon
  <2> HIDE DEF ag2
  <2>3. /\ UiFits(y, state, alone, ag2, gtkCalls)
        /\ \A d \in GtkNo : y.win[d].st = x.win[d].st
    BY <1>2, <1>3, <2>1, GtkKnown, TickingFits, Zenon
  <2> HIDE DEF y
  <2> DEFINE z == Gtk!GotVu(y, c)
  <2>4. /\ UiFits(z, state, alone, ag2, gtkCalls)
        /\ \A d \in GtkNo : z.win[d].st = y.win[d].st
    BY <1>2, <2>1, <2>3, GtkKnown, GotVuFits, Zenon
  <2>5. ui' = z
    BY <1>1, <1>6
  <2> HIDE DEF z
  <2>6. SameElse(state, state, ui.win, z.win, c)
    BY <1>3, <2>3, <2>4, Zenon DEF SameElse
  <2>7. GoesOn(c, z, state, ag2, Gtk!ShownDead(ui, c))
    BY <1>1, <1>2, <1>4, <2>1, <2>2, <2>5, <2>6, Zenon DEF GoesOn
  <2>. QED BY <2>4, <2>7, CallKeeps, Zenon
<1>. QED BY <1>5, <1>6

\* UA_EVENT_CALL_ESTABLISHED.
LEMMA EstablishedKeeps ==
    ASSUME GtkInv, NEW c \in GtkNo, Gtk!Established(c)
    PROVE  GtkInv'
<1> DEFINE u == Gtk!GotVu(ui, c)
           s2 == [state EXCEPT ![c] = "up"]
           ag2 == gtkAgain \/ ui.clocks[c] > 0
           x == Gtk!Shown(u, c)
           y == Gtk!Ticking(x, c)
<1>1. /\ state[c] \in {"answered", "out"} /\ state' = s2
      /\ IF thread = "running" THEN ui' = y /\ wrong' = wrong \cup Gtk!ShownDead(u, c)
         ELSE ui' = u /\ UNCHANGED wrong
      /\ gtkAgain' = ag2
      /\ UNCHANGED <<thread, main, gtkCalls, notified, queue, alone>>
  BY Zenon DEF Gtk!Established
<1>2. IsLive(state[c]) /\ state[c] # "incoming" /\ IsLive("up") /\ "up" # "incoming"
  BY <1>1 DEF IsLive
<1>3. /\ UiFits(u, state, alone, gtkAgain, gtkCalls)
      /\ u.clocks = ui.clocks /\ \A d \in GtkNo : u.win[d].st = ui.win[d].st
  BY <1>2, GtkKnown, GotVuFits, Zenon
<1>4. Gtk!ShownDead(u, c) \in SUBSET {"queued", "text", "meter"}
  BY DeadVuIs, Zenon
<1> HIDE DEF u
<1>5. UiFits(u, s2, alone, gtkAgain, gtkCalls)
  BY <1>2, <1>3, GtkKnown, StateFits, Zenon
<1>6. s2[c] = "up" /\ \A d \in GtkNo : d # c => s2[d] = state[d]
  <2>1. state \in [GtkNo -> GtkState]
    BY GtkKnown, Zenon DEF UiFits
  <2>. QED BY <2>1
<1> HIDE DEF s2
<1>7. Restarts(u, c, gtkAgain, ag2) /\ ag2 \in BOOLEAN /\ (gtkAgain => ag2)
  BY <1>3, Zenon DEF Restarts
<1> HIDE DEF ag2
<1>8. CASE thread # "running"
  <2>1. UiFits(u, s2, alone, ag2, gtkCalls)
    BY <1>5, <1>7, GtkKnown, UiAgain, Zenon
  <2>2. {} \in SUBSET {"queued", "text", "meter"} /\ wrong' = wrong \cup {} /\ ui' = u
    BY <1>1, <1>8
  <2>3. SameElse(state, s2, ui.win, u.win, c)
    BY <1>3, <1>6, Zenon DEF SameElse
  <2>4. GoesOn(c, u, s2, ag2, {})
    BY <1>1, <1>2, <1>7, <2>2, <2>3, Zenon DEF GoesOn
  <2>. QED BY <2>1, <2>4, CallKeeps, Zenon
<1>9. CASE thread = "running"
  <2>0. IsLive(s2[c]) /\ s2[c] # "incoming"
    BY <1>2, <1>6, Zenon
  <2>1. /\ UiFits(x, s2, alone, gtkAgain, gtkCalls) /\ x.win[c].st = "open"
        /\ x.clocks = u.clocks /\ \A d \in GtkNo : d # c => x.win[d].st = u.win[d].st
    BY <1>5, <2>0, GtkKnown, ShownFits, Zenon
  <2> HIDE DEF x
  <2>2. Restarts(x, c, gtkAgain, ag2)
    BY <1>7, <2>1, Zenon DEF Restarts
  <2>3. /\ UiFits(y, s2, alone, ag2, gtkCalls)
        /\ \A d \in GtkNo : y.win[d].st = x.win[d].st
    BY <2>0, <2>1, <2>2, GtkKnown, TickingFits, Zenon
  <2> HIDE DEF y
  <2>4. SameElse(state, s2, ui.win, y.win, c)
    BY <1>3, <1>6, <2>1, <2>3, Zenon DEF SameElse
  <2>5. ui' = y /\ wrong' = wrong \cup Gtk!ShownDead(u, c)
    BY <1>1, <1>9, Zenon
  <2>6. GoesOn(c, y, s2, ag2, Gtk!ShownDead(u, c))
    BY <1>1, <1>2, <1>4, <1>7, <2>4, <2>5, Zenon DEF GoesOn
  <2>. QED BY <2>3, <2>6, CallKeeps, Zenon
<1>. QED BY <1>8, <1>9

\* A call ends, and its entry goes.
LEMMA EndKeeps ==
    ASSUME GtkInv, NEW c \in GtkNo, IsLive(state[c]),
           NEW q, QueueFits(q, state, ui.win, notified)
    PROVE  /\ UiFits(Gtk!CallClosed(ui, c), [state EXCEPT ![c] = "ended"], alone, gtkAgain,
                     gtkCalls)
           /\ EntriesFit(Gtk!Denotified(c), [state EXCEPT ![c] = "ended"])
           /\ QueueFits(q, [state EXCEPT ![c] = "ended"], Gtk!CallClosed(ui, c).win,
                        Gtk!Denotified(c))
<1> DEFINE v == Gtk!CallClosed(ui, c)
           s2 == [state EXCEPT ![c] = "ended"]
           N2 == Gtk!Denotified(c)
<1>1. /\ UiFits(v, s2, alone, gtkAgain, gtkCalls)
      /\ \A d \in GtkNo : v.win[d].st = ui.win[d].st
  BY GtkKnown, CallClosedFits, Zenon
<1> HIDE DEF v
<1>2. s2[c] = "ended" /\ \A d \in GtkNo : d # c => s2[d] = state[d]
  <2>1. state \in [GtkNo -> GtkState]
    BY GtkKnown, Zenon DEF UiFits
  <2>. QED BY <2>1
<1> HIDE DEF s2
<1>3. N2 \subseteq notified /\ c \notin N2
  <2>1. Gtk!Open(c) => c \notin notified
    BY OpenKnown, Zenon
  <2>. QED BY <2>1 DEF Gtk!Denotified
<1> HIDE DEF N2
<1>4. EntriesFit(N2, s2)
  <2>1. EntriesFit(notified, state)
    BY GtkKnown, Zenon
  <2>. QED BY <1>2, <1>3, <2>1 DEF EntriesFit
<1>5. \A d \in GtkNo : Waits(state, ui.win, notified, d) => Waits(s2, v.win, N2, d)
  <2>1. SUFFICES ASSUME NEW d \in GtkNo, Waits(state, ui.win, notified, d)
                 PROVE  Waits(s2, v.win, N2, d)
    OBVIOUS
  <2>2. d \notin N2 /\ v.win[d].st = "none"
    BY <1>1, <1>3, <2>1 DEF Waits
  <2>3. s2[d] \in {"incoming", "ended"}
    BY <1>2, <2>1 DEF Waits
  <2>. QED BY <2>2, <2>3, Zenon DEF Waits
<1>6. QueueFits(q, s2, v.win, N2)
  BY <1>5, QueueMoves, Zenon
<1>. QED BY <1>1, <1>4, <1>6, Zenon DEF v, s2, N2

\* UA_EVENT_CALL_CLOSED.
LEMMA ClosedKeeps ==
    ASSUME GtkInv, NEW c \in GtkNo, Gtk!Closed(c)
    PROVE  GtkInv'
<1> DEFINE v == Gtk!CallClosed(ui, c)
           s2 == [state EXCEPT ![c] = "ended"]
           N2 == Gtk!Denotified(c)
<1>1. /\ Gtk!Live(c) /\ state' = s2 /\ ui' = v /\ notified' = N2
      /\ UNCHANGED <<thread, main, gtkCalls, queue, wrong, alone, gtkAgain>>
  BY Zenon DEF Gtk!Closed
<1>2. IsLive(state[c])
  BY <1>1, Zenon DEF Gtk!Live, IsLive
<1>3. /\ UiFits(v, s2, alone, gtkAgain, gtkCalls) /\ EntriesFit(N2, s2)
      /\ QueueFits(queue, s2, v.win, N2)
  BY <1>2, GtkKnown, EndKeeps, Zenon
<1> HIDE DEF v, s2, N2
<1>. QED BY <1>1, <1>3, GtkKnown, Zenon DEF GtkInv

-----------------------------------------------------------------------------
\* The main loop takes the first message.
Takes == queue # <<>> /\ queue' = Tail(queue) /\ UNCHANGED <<thread, main, gtkAgain>>

\* What is left of the queue fits, and has no message about a call that cannot be answered.
LEMMA TakesKnown ==
    ASSUME GtkInv, Takes
    PROVE  /\ QueueFits(queue', state, ui.win, notified) /\ Head(queue) \in GtkMsg
           /\ Head(queue)[1] # "connect" =>
                 ~Queued(queue', Head(queue)[2]) /\ Waits(state, ui.win, notified, Head(queue)[2])
<1>1. queue # <<>> /\ queue' = Tail(queue)
  BY Zenon DEF Takes
<1>2. QueueFits(queue, state, ui.win, notified)
  BY GtkKnown, Zenon
<1>. QED BY <1>1, <1>2, QueueShrinks, Zenon

\* Nothing comes of a message, but perhaps a note.
LEMMA TakesKeeps ==
    ASSUME GtkInv, Takes, UNCHANGED <<gtkCalls, state, ui, alone, notified>>,
           NEW X \in SUBSET {"queued", "text", "meter"}, wrong' = wrong \cup X
    PROVE  GtkInv'
<1>1. UNCHANGED <<thread, main, gtkAgain>>
  BY Zenon DEF Takes
<1>2. WrongFits(wrong', alone, gtkAgain)
  BY GtkKnown, WrongGrows, Zenon
<1>3. ThreadsFit(thread, main, gtkCalls, alone, gtkAgain)'
  BY <1>1, GtkKnown, Zenon
<1>. QED BY <1>1, <1>2, <1>3, TakesKnown, GtkKnown, Zenon DEF GtkInv

\* Dialing, which opens a window or fails.
LEMMA ConnectKeeps ==
    ASSUME GtkInv, Takes, Gtk!Connect
    PROVE  GtkInv'
<1>1. CASE UNCHANGED <<gtkCalls, state, ui, wrong, alone, notified>>
  <2>1. {} \in SUBSET {"queued", "text", "meter"} /\ wrong' = wrong \cup {}
    BY <1>1
  <2>. QED BY <1>1, <2>1, TakesKeeps, Zenon
<1>2. CASE ~UNCHANGED <<gtkCalls, state, ui, wrong, alone, notified>>
  <2> DEFINE c == gtkCalls + 1
             u == First(ui, c)
             v == Gtk!NewWindow(u, c)
  <2>1. /\ Gtk!Begins("out") /\ ui' = v /\ wrong' = wrong \cup Gtk!DeadVu(u)
        /\ UNCHANGED notified
    BY <1>2, Zenon DEF Gtk!Connect, First
  <2>2. IsLive("out") /\ "out" # "incoming"
    BY DEF IsLive
  <2>3. /\ c \in GtkNo /\ ThreadsFit(thread, main, gtkCalls', alone', gtkAgain)
        /\ gtkCalls' = c /\ gtkCalls \in Nat
        /\ alone' => alone
        /\ c \notin notified /\ ui.win[c].st = "none" /\ state[c] = "none"
        /\ state' = [state EXCEPT ![c] = "out"]
        /\ UiFits(u, state', alone', gtkAgain, gtkCalls')
        /\ u.win = ui.win
    BY <2>1, <2>2, BeginsAlone, Zenon
  <2>9. c \in Nat
    BY <2>3
  <2>4. UNCHANGED <<thread, main, gtkAgain>>
    BY Zenon DEF Takes
  <2> HIDE DEF c, u
  <2>5. state'[c] = "out" /\ \A d \in GtkNo : d # c => state'[d] = state[d]
    <3>1. state \in [GtkNo -> GtkState]
      BY GtkKnown, Zenon DEF UiFits
    <3>. QED BY <2>3, <3>1
  <2>6. /\ UiFits(v, state', alone', gtkAgain, gtkCalls')
        /\ \A d \in GtkNo : d # c => v.win[d].st = u.win[d].st
    <3>1. IsLive(state'[c]) /\ state'[c] # "incoming" /\ u.win[c].st = "none"
      BY <2>2, <2>3, <2>5, Zenon
    <3>2. UiFits(u, state', alone', gtkAgain, c)
      BY <2>3, Zenon
    <3> DEFINE s2 == state'
               al2 == alone'
    <3>3. /\ UiFits(u, s2, al2, gtkAgain, c) /\ IsLive(s2[c]) /\ s2[c] # "incoming"
          /\ u.win[c].st = "none"
      BY <3>1, <3>2, Zenon
    <3> HIDE DEF s2, al2
    <3>4. /\ UiFits(v, s2, al2, gtkAgain, c)
          /\ \A d \in GtkNo : d # c => v.win[d].st = u.win[d].st
      BY <2>3, <2>9, <3>3, NewWindowFits, Zenon
    <3>. QED BY <2>3, <3>4, Zenon DEF s2, al2
  <2> HIDE DEF v
  <2>7. WrongFits(wrong', alone', gtkAgain)
    <3>1. Gtk!DeadVu(u) \in SUBSET {"queued", "text", "meter"}
      BY DeadVuIs, Zenon
    <3>. QED BY <2>1, <2>3, <3>1, GtkKnown, WrongGrows
  <2>8. EntriesFit(notified, state')
    <3>1. EntriesFit(notified, state)
      BY GtkKnown, Zenon
    <3>. QED BY <2>3, <2>5, <3>1, Zenon DEF EntriesFit
  <2>10. QueueFits(queue', state', v.win, notified)
    <3>1. QueueFits(queue', state, ui.win, notified)
      BY TakesKnown, Zenon
    <3>2. ~Queued(queue', c)
      <4>1. ~Waits(state, ui.win, notified, c)
        BY <2>3 DEF Waits
      <4>. QED BY <3>1, <4>1, NotQueued
    <3>3. SameElse(state, state', ui.win, v.win, c)
      BY <2>3, <2>5, <2>6, Zenon DEF SameElse
    <3>4. notified \subseteq notified \cup {c}
      OBVIOUS
    <3>. QED BY <2>3, <3>1, <3>2, <3>3, <3>4, QueueElse
  <2>. QED BY <2>1, <2>3, <2>4, <2>6, <2>7, <2>8, <2>10, Zenon DEF GtkInv
<1>. QED BY <1>1, <1>2

\* A call that waits is held as long as it is not over.
LEMMA WaitingKnown ==
    ASSUME GtkInv, NEW c \in GtkNo, Waits(state, ui.win, notified, c), ui.refs[c] # 0
    PROVE  /\ state[c] = "incoming" /\ IsLive(state[c]) /\ ui.win[c].st = "none"
           /\ c \notin notified
<1>1. state[c] \in {"incoming", "ended"} /\ ui.win[c].st = "none" /\ c \notin notified
  BY Zenon DEF Waits
<1>2. WindowFits(ui.win[c], ui.refs[c], ui.clocks[c], state[c], alone, gtkAgain)
  BY GtkKnown, FitsAt, Zenon
<1>3. ui.refs[c] = Holders(state[c], ui.win[c])
  BY <1>2, Zenon DEF WindowFits
<1>4. state[c] # "ended"
  BY <1>1, <1>3 DEF Holders, IsLive
<1>5. state[c] = "incoming"
  BY <1>1, <1>4
<1>6. IsLive(state[c])
  BY <1>5 DEF IsLive
<1>. QED BY <1>1, <1>5, <1>6

\* A call is answered, which opens its window.
LEMMA AnswerKeeps ==
    ASSUME GtkInv, Takes, NEW c \in GtkNo, ~Queued(queue', c),
           Waits(state, ui.win, notified, c), Gtk!Answer(c)
    PROVE  GtkInv'
<1>1. UNCHANGED <<gtkCalls, alone, notified>> /\ UNCHANGED <<thread, main, gtkAgain>>
  BY Zenon DEF Gtk!Answer, Takes
<1>2. CASE ui.refs[c] = 0
  <2>1. wrong' = wrong \cup {"queued"} /\ UNCHANGED <<state, ui>>
    BY <1>2, Zenon DEF Gtk!Answer
  <2>2. {"queued"} \in SUBSET {"queued", "text", "meter"}
    OBVIOUS
  <2>. QED BY <1>1, <2>1, <2>2, TakesKeeps
<1>3. CASE ui.refs[c] # 0
  <2>1. /\ state[c] = "incoming" /\ IsLive(state[c]) /\ ui.win[c].st = "none"
        /\ c \notin notified
    BY <1>3, WaitingKnown, Zenon
  <2>2. CASE UNCHANGED <<state, ui, wrong>>
    <3>1. {} \in SUBSET {"queued", "text", "meter"} /\ wrong' = wrong \cup {}
      BY <2>2
    <3>. QED BY <1>1, <2>2, <3>1, TakesKeeps
  <2>3. CASE ~UNCHANGED <<state, ui, wrong>>
    <3> DEFINE s2 == [state EXCEPT ![c] = "answered"]
               u == Gtk!GotVu(ui, c)
               v == Gtk!NewWindow(u, c)
    <3>1. state' = s2 /\ ui' = v /\ wrong' = wrong \cup Gtk!DeadVu(u)
      BY <1>3, <2>1, <2>3, Zenon DEF Gtk!Answer
    <3>2. s2[c] = "answered" /\ \A d \in GtkNo : d # c => s2[d] = state[d]
      <4>1. state \in [GtkNo -> GtkState]
        BY GtkKnown, Zenon DEF UiFits
      <4>. QED BY <4>1
    <3>3. IsLive("answered") /\ "answered" # "incoming"
      BY DEF IsLive
    <3>4. UiFits(ui, s2, alone, gtkAgain, gtkCalls)
      BY <2>1, <3>3, GtkKnown, StateFits, Zenon
    <3> HIDE DEF s2
    <3>5. IsLive(s2[c]) /\ s2[c] # "incoming"
      BY <3>2, <3>3, Zenon
    <3>6. /\ UiFits(u, s2, alone, gtkAgain, gtkCalls)
          /\ \A d \in GtkNo : u.win[d].st = ui.win[d].st
      BY <3>4, <3>5, GtkKnown, GotVuFits, Zenon
    <3> HIDE DEF u
    <3>7. u.win[c].st = "none"
      BY <2>1, <3>6, Zenon
    <3>8. /\ UiFits(v, s2, alone, gtkAgain, gtkCalls)
          /\ \A d \in GtkNo : d # c => v.win[d].st = u.win[d].st
      BY <3>5, <3>6, <3>7, GtkKnown, NewWindowFits, Zenon
    <3> HIDE DEF v
    <3>9. WrongFits(wrong', alone, gtkAgain)
      <4>1. Gtk!DeadVu(u) \in SUBSET {"queued", "text", "meter"}
        BY DeadVuIs, Zenon
      <4>. QED BY <3>1, <4>1, GtkKnown, WrongGrows
    <3>10. EntriesFit(notified, s2)
      <4>1. EntriesFit(notified, state)
        BY GtkKnown, Zenon
      <4>. QED BY <2>1, <3>2, <4>1, Zenon DEF EntriesFit
    <3>11. QueueFits(queue', s2, v.win, notified)
      <4>1. QueueFits(queue', state, ui.win, notified)
        BY TakesKnown, Zenon
      <4>2. SameElse(state, s2, ui.win, v.win, c)
        BY <3>2, <3>6, <3>8, Zenon DEF SameElse
      <4>3. notified \subseteq notified \cup {c}
        OBVIOUS
      <4>. QED BY <4>1, <4>2, <4>3, QueueElse
    <3>. QED BY <1>1, <3>1, <3>8, <3>9, <3>10, <3>11, GtkKnown, Zenon DEF GtkInv
  <2>. QED BY <2>2, <2>3
<1>. QED BY <1>2, <1>3

\* A call is hung up.
LEMMA HangupKeeps ==
    ASSUME GtkInv, Takes, NEW c \in GtkNo, ~Queued(queue', c),
           Waits(state, ui.win, notified, c), Gtk!Hangup(c)
    PROVE  GtkInv'
<1>1. UNCHANGED <<gtkCalls, alone>> /\ UNCHANGED <<thread, main, gtkAgain>>
  BY Zenon DEF Gtk!Hangup, Takes
<1>2. CASE ui.refs[c] = 0
  <2>1. wrong' = wrong \cup {"queued"} /\ UNCHANGED <<state, ui, notified>>
    BY <1>2, Zenon DEF Gtk!Hangup
  <2>2. {"queued"} \in SUBSET {"queued", "text", "meter"}
    OBVIOUS
  <2>. QED BY <1>1, <2>1, <2>2, TakesKeeps
<1>3. CASE ui.refs[c] # 0
  <2> DEFINE v == Gtk!CallClosed(ui, c)
             s2 == [state EXCEPT ![c] = "ended"]
             N2 == Gtk!Denotified(c)
  <2>1. IsLive(state[c])
    BY <1>3, WaitingKnown, Zenon
  <2>2. state' = s2 /\ ui' = v /\ notified' = N2 /\ UNCHANGED wrong
    BY <1>3, Zenon DEF Gtk!Hangup
  <2> DEFINE q == queue'
  <2>3. QueueFits(q, state, ui.win, notified)
    BY TakesKnown, Zenon
  <2> HIDE DEF q
  <2>4. /\ UiFits(v, s2, alone, gtkAgain, gtkCalls) /\ EntriesFit(N2, s2)
        /\ QueueFits(q, s2, v.win, N2)
    BY <2>1, <2>3, EndKeeps
  <2> HIDE DEF v, s2, N2
  <2>. QED BY <1>1, <2>2, <2>4, GtkKnown, Zenon DEF GtkInv, q
<1>. QED BY <1>2, <1>3

\* A message of the module.
LEMMA MessageKeeps ==
    ASSUME GtkInv, Gtk!Message
    PROVE  GtkInv'
<1>1. Takes
  BY Zenon DEF Gtk!Message, Takes
<1> DEFINE h == Head(queue)
<1>2. /\ h \in GtkMsg
      /\ h[1] # "connect" => ~Queued(queue', h[2]) /\ Waits(state, ui.win, notified, h[2])
  BY <1>1, TakesKnown, Zenon
<1>3. \/ h[1] = "connect" /\ Gtk!Connect
      \/ h[1] = "answer" /\ Gtk!Answer(h[2])
      \/ h[1] = "hangup" /\ Gtk!Hangup(h[2])
  BY Zenon DEF Gtk!Message
<1> HIDE DEF h
<1>4. h[1] # "connect" => h[2] \in GtkNo
  BY <1>2 DEF GtkMsg
<1>5. "answer" # "connect" /\ "hangup" # "connect"
  OBVIOUS
<1>. QED BY <1>1, <1>2, <1>3, <1>4, <1>5, ConnectKeeps, AnswerKeeps, HangupKeeps

\* A step of the main loop with the window of c alone, in which its call is over at the end.
LEMMA WindowKeeps ==
    ASSUME GtkInv, NEW c \in GtkNo, NEW v, NEW s2, UiFits(v, s2, alone, gtkAgain, gtkCalls),
           ~Queued(queue, c), c \notin notified, SameElse(state, s2, ui.win, v.win, c),
           ui' = v, state' = s2, main' \in {"idle", "undo"},
           UNCHANGED <<thread, gtkCalls, notified, queue, alone, gtkAgain>>,
           WrongFits(wrong', alone, gtkAgain)
    PROVE  GtkInv'
<1>1. ThreadsFit(thread, main, gtkCalls, alone, gtkAgain)'
  <2>1. main' \in {"idle", "undo", "closing", "closed"}
    OBVIOUS
  <2>. QED BY <2>1, GtkKnown, Zenon DEF ThreadsFit
<1>2. EntriesFit(notified, s2)
  <2>1. EntriesFit(notified, state)
    BY GtkKnown, Zenon
  <2>. QED BY <2>1, Zenon DEF EntriesFit, SameElse
<1>3. QueueFits(queue, s2, v.win, notified)
  <2>1. notified \subseteq notified \cup {c}
    OBVIOUS
  <2>2. QueueFits(queue, state, ui.win, notified)
    BY GtkKnown, Zenon
  <2>. QED BY <2>1, <2>2, QueueElse
<1>. QED BY <1>1, <1>2, <1>3, Zenon DEF GtkInv

\* The window of c closes.
LEMMA CloseWindowKeeps ==
    ASSUME GtkInv, NEW c \in GtkNo, Gtk!Open(c), Gtk!CloseWindow(c),
           UNCHANGED <<thread, gtkCalls, notified, queue, alone, gtkAgain>>
    PROVE  GtkInv'
<1> DEFINE u == IF ui.win[c].closed THEN ui ELSE Gtk!CallClosed(ui, c)
           s2 == [state EXCEPT ![c] = "ended"]
           v == Hide(u, c)
<1>1. ui' = v /\ state' = s2 /\ main' = "undo" /\ UNCHANGED wrong
  BY Zenon DEF Gtk!CloseWindow, Hide
<1>2. /\ ui.win[c].closed => state[c] = "ended"
      /\ ~ui.win[c].closed => IsLive(state[c])
      /\ c \notin notified /\ ui.win[c].st = "open" /\ ~Queued(queue, c)
      /\ state \in [GtkNo -> GtkState]
  BY OpenKnown, Zenon
<1>3. /\ UiFits(u, s2, alone, gtkAgain, gtkCalls) /\ u.win[c].st = "open" /\ u.win[c].closed
      /\ \A d \in GtkNo : u.win[d].st = ui.win[d].st
  <2>1. CASE ui.win[c].closed
    <3>1. s2 = state
      BY <1>2, <2>1
    <3>2. u = ui
      BY <2>1
    <3> HIDE DEF s2, u
    <3>. QED BY <1>2, <2>1, <3>1, <3>2, GtkKnown, Zenon
  <2>2. CASE ~ui.win[c].closed
    <3> DEFINE y == Gtk!CallClosed(ui, c)
    <3>1. u = y
      BY <2>2
    <3>2. IsLive(state[c])
      BY <1>2, <2>2, Zenon
    <3>3. /\ UiFits(y, s2, alone, gtkAgain, gtkCalls)
          /\ \A d \in GtkNo : y.win[d].st = ui.win[d].st
          /\ ui.win[c].st = "open" => y.win[c].closed
      BY <3>2, GtkKnown, CallClosedFits, Zenon
    <3> HIDE DEF s2, u, y
    <3>. QED BY <1>2, <3>1, <3>3, Zenon
  <2>. QED BY <2>1, <2>2
<1>4. \A d \in GtkNo : d # c => s2[d] = state[d]
  BY <1>2
<1> HIDE DEF u, s2
<1>5. /\ UiFits(v, s2, alone, gtkAgain, gtkCalls)
      /\ \A d \in GtkNo : d # c => v.win[d].st = u.win[d].st
  BY <1>3, GtkKnown, HideFits, Zenon
<1> HIDE DEF v
<1>6. SameElse(state, s2, ui.win, v.win, c)
  BY <1>3, <1>4, <1>5, Zenon DEF SameElse
<1>7. main' \in {"idle", "undo"} /\ WrongFits(wrong', alone, gtkAgain)
  BY <1>1, GtkKnown
<1>. QED BY <1>1, <1>2, <1>5, <1>6, <1>7, WindowKeeps

\* A message of a window: it closes, or holds or transfers its call, which is there.
LEMMA WindowMessageKeeps ==
    ASSUME GtkInv, NEW c \in GtkNo, Gtk!WindowMessage(c)
    PROVE  GtkInv'
<1> DEFINE id == Head(ui.win[c].mq)
<1>1. /\ main = "idle" /\ Gtk!Open(c) /\ ui.win[c].mq # <<>>
      /\ UNCHANGED <<thread, gtkCalls, notified, queue, alone, gtkAgain>>
  BY Zenon DEF Gtk!WindowMessage, Gtk!Idle
<1>2. \/ id = "close" /\ Gtk!CloseWindow(c)
      \/ /\ id # "close" /\ ui' = [ui EXCEPT !.win[c].mq = Tail(@)]
         /\ wrong' = wrong \cup Gtk!When(ui.refs[c] = 0, "call")
                           \cup Gtk!When(id = "transfer" /\ ~ui.win[c].dialog, "text")
         /\ UNCHANGED <<state, main>>
  BY Zenon DEF Gtk!WindowMessage
<1>3. CASE Gtk!CloseWindow(c)
  BY <1>1, <1>3, CloseWindowKeeps, Zenon
<1>4. CASE ~Gtk!CloseWindow(c)
  <2> DEFINE q == Tail(ui.win[c].mq)
             v == [ui EXCEPT !.win[c].mq = q]
             X == Gtk!When(id = "transfer" /\ ~ui.win[c].dialog, "text")
  <2>1. /\ ui.refs[c] # 0 /\ ui.win[c] \in Gtk!Window /\ ui.win[c].st = "open"
        /\ c \notin notified /\ ~Queued(queue, c)
    BY <1>1, OpenKnown, Zenon
  <2>2. ui' = v /\ UNCHANGED <<state, main>>
    BY <1>2, <1>4
  <2>3. q \in Seq(Gtk!Msg)
    <3>1. ui.win[c].mq \in Seq(Gtk!Msg)
      BY <2>1, WindowTypes, Zenon
    <3>. QED BY <1>1, <3>1
  <2>4. X \in SUBSET {"queued", "text", "meter"}
    BY DEF Gtk!When
  <2>5. wrong' = wrong \cup X
    <3>1. Gtk!When(ui.refs[c] = 0, "call") = {}
      BY <2>1 DEF Gtk!When
    <3>2. wrong' = (wrong \cup Gtk!When(ui.refs[c] = 0, "call")) \cup X
      BY <1>2, <1>4, Zenon
    <3> HIDE DEF X
    <3>. QED BY <3>1, <3>2
  <2> HIDE DEF X, q
  <2>6. /\ UiFits(v, state, alone, gtkAgain, gtkCalls)
        /\ \A d \in GtkNo : v.win[d].st = ui.win[d].st
    BY <2>1, <2>3, GtkKnown, MqFits, Zenon
  <2> HIDE DEF v
  <2>7. WrongFits(wrong', alone, gtkAgain)
    BY <2>4, <2>5, GtkKnown, WrongGrows
  <2>8. SameElse(state, state, ui.win, v.win, c)
    BY <2>6, Zenon DEF SameElse
  <2>9. main' \in {"idle", "undo"} /\ state' = state
    BY <1>1, <2>2
  <2>. QED BY <1>1, <2>1, <2>2, <2>6, <2>7, <2>8, <2>9, WindowKeeps
<1>. QED BY <1>3, <1>4

\* The rest of the destructor.
LEMMA ClosingKnown ==
    ASSUME GtkInv, NEW c \in GtkNo, ui.win[c].st \in {"hidden", "bare"}
    PROVE  c \notin notified /\ ~Queued(queue, c)
<1>1. WindowFits(ui.win[c], ui.refs[c], ui.clocks[c], state[c], alone, gtkAgain)
  BY GtkKnown, FitsAt, Zenon
<1>2. state[c] = "ended"
  BY <1>1, Zenon DEF WindowFits
<1>3. c \notin notified
  <2>1. EntriesFit(notified, state)
    BY GtkKnown, Zenon
  <2>2. state[c] # "incoming"
    BY <1>2
  <2>. QED BY <2>1, <2>2, Zenon DEF EntriesFit
<1>4. ~Waits(state, ui.win, notified, c)
  BY DEF Waits
<1>. QED BY <1>3, <1>4, GtkKnown, NotQueued, Zenon

\* The first half of the destructor keeps the invariant.
LEMMA BareKeeps ==
    ASSUME GtkInv, NEW c \in GtkNo, Gtk!Bare(c)
    PROVE  GtkInv'
<1> DEFINE v == BareOf(ui, c)
<1>1. /\ main = "undo" /\ ui.win[c].st = "hidden"
      /\ wrong' = wrong \cup Gtk!When(ui.refs[c] = 0, "call") /\ ui' = v
      /\ UNCHANGED <<thread, main, gtkCalls, state, notified, queue, alone, gtkAgain>>
  BY Zenon DEF Gtk!Bare, BareOf
<1>2. c \notin notified /\ ~Queued(queue, c)
  <2>1. ui.win[c].st \in {"hidden", "bare"}
    BY <1>1
  <2>. QED BY <2>1, ClosingKnown, Zenon
<1>3. /\ UiFits(v, state, alone, gtkAgain, gtkCalls) /\ ui.refs[c] = 1
      /\ \A d \in GtkNo : d # c => v.win[d].st = ui.win[d].st
  BY <1>1, GtkKnown, BareFits, Zenon
<1> HIDE DEF v
<1>4. SameElse(state, state, ui.win, v.win, c)
  BY <1>3, Zenon DEF SameElse
<1>5. WrongFits(wrong', alone, gtkAgain)
  <2>1. wrong' = wrong
    BY <1>1, <1>3 DEF Gtk!When
  <2>. QED BY <2>1, GtkKnown, Zenon
<1>6. main' \in {"idle", "undo"} /\ state' = state
  BY <1>1
<1>. QED BY <1>1, <1>2, <1>3, <1>4, <1>5, <1>6, WindowKeeps

\* The second half of the destructor keeps the invariant.
LEMMA FreedKeeps ==
    ASSUME GtkInv, NEW c \in GtkNo, Gtk!Freed(c)
    PROVE  GtkInv'
<1> DEFINE v == FreedOf(ui, c)
<1>1. /\ ui.win[c].st = "bare" /\ main' = "idle" /\ ui' = v
      /\ UNCHANGED <<thread, gtkCalls, state, notified, queue, wrong, alone, gtkAgain>>
  BY Zenon DEF Gtk!Freed, FreedOf, Gtk!None
<1>2. c \notin notified /\ ~Queued(queue, c)
  <2>1. ui.win[c].st \in {"hidden", "bare"}
    BY <1>1
  <2>. QED BY <2>1, ClosingKnown, Zenon
<1>3. /\ UiFits(v, state, alone, gtkAgain, gtkCalls)
      /\ \A d \in GtkNo : d # c => v.win[d].st = ui.win[d].st
  BY <1>1, GtkKnown, FreedFits, Zenon
<1> HIDE DEF v
<1>4. SameElse(state, state, ui.win, v.win, c)
  BY <1>3, Zenon DEF SameElse
<1>5. WrongFits(wrong', alone, gtkAgain)
  BY <1>1, GtkKnown, Zenon
<1>6. main' \in {"idle", "undo"} /\ state' = state
  BY <1>1
<1>. QED BY <1>1, <1>2, <1>3, <1>4, <1>5, <1>6, WindowKeeps

-----------------------------------------------------------------------------
\* The invariant holds at the start.
LEMMA GtkInitInv ==
    ASSUME Gtk!Init
    PROVE  GtkInv
<1> DEFINE w == Gtk!NoWindow
           W == [c \in GtkNo |-> w]
           R == [c \in GtkNo |-> 0]
           A == [c \in GtkNo |-> FALSE]
           s == [c \in GtkNo |-> "none"]
<1>1. /\ thread = "starting" /\ main = "idle" /\ gtkCalls = 0 /\ state = s
      /\ notified = {} /\ queue = <<>>
      /\ ui = [win |-> W, refs |-> R, clocks |-> R, audio |-> A, lastWin |-> 0, lastVu |-> 0]
      /\ wrong = {} /\ alone = TRUE /\ gtkAgain = FALSE
  BY DEF Gtk!Init, Gtk!CallNo, GtkNo, Gtk!None
<1>2. GtkCalls \in Nat
  BY PartsAssumption DEF Gtk!GtkUiAssumption
<1>3. /\ w \in Gtk!Window /\ w.st = "none" /\ ~w.closed /\ ~w.tag /\ ~w.meter
  BY NoWindowIs, Zenon
<1> HIDE DEF w
<1>4. W \in [GtkNo -> Gtk!Window] /\ \A c \in GtkNo : W[c] = w
  BY <1>3
<1>5. /\ R \in [GtkNo -> Int] /\ R \in [GtkNo -> 0 .. 2] /\ A \in [GtkNo -> BOOLEAN]
      /\ \A c \in GtkNo : R[c] = 0
  OBVIOUS
<1>6. s \in [GtkNo -> GtkState] /\ \A c \in GtkNo : s[c] = "none"
  BY DEF GtkState
<1> HIDE DEF W, R, A, s
<1>7. ui \in UiRec /\ ui.win = W /\ ui.refs = R /\ ui.clocks = R /\ ui.lastWin = 0
  BY <1>1, <1>4, <1>5 DEF UiRec
<1>8. Holders("none", w) = 0 /\ ~Busy("none", w)
  BY <1>3 DEF Holders, IsLive, Busy, IsThere
<1>9. WindowFits(w, 0, 0, "none", alone, gtkAgain)
  <2>1. w.st # "open" /\ w.st \notin {"hidden", "bare"} /\ w.st # "freed"
    BY <1>3
  <2>. QED BY <1>3, <1>8, <2>1, Zenon DEF WindowFits
<1>10. UiFits(ui, state, alone, gtkAgain, gtkCalls)
  <2>1. \A c \in GtkNo : WindowFits(ui.win[c], ui.refs[c], ui.clocks[c], state[c], alone, gtkAgain)
    BY <1>1, <1>4, <1>5, <1>6, <1>7, <1>9
  <2>2. \A c \in GtkNo : state[c] = "none" /\ ui.win[c].st = "none"
    BY <1>1, <1>3, <1>4, <1>6, <1>7
  <2>3. \A c \in GtkNo : ~Busy(state[c], ui.win[c])
    BY <1>1, <1>4, <1>6, <1>7, <1>8
  <2>. QED BY <1>1, <1>6, <1>7, <2>1, <2>2, <2>3, Zenon DEF UiFits
<1>11. ThreadsFit(thread, main, gtkCalls, alone, gtkAgain)
  <2>1. /\ thread \in {"starting", "running", "quit", "ended"}
        /\ main \in {"idle", "undo", "closing", "closed"}
    BY <1>1
  <2>2. gtkCalls \in 0 .. GtkCalls
    BY <1>1, <1>2
  <2>3. alone \in BOOLEAN /\ gtkAgain \in BOOLEAN
    BY <1>1, Zenon
  <2>. QED BY <2>1, <2>2, <2>3, Zenon DEF ThreadsFit
<1>12. WrongFits(wrong, alone, gtkAgain) /\ EntriesFit(notified, state)
  BY <1>1 DEF WrongFits, EntriesFit
<1>13. QueueFits(queue, state, ui.win, notified)
  <2>1. queue \in Seq(GtkMsg) /\ Len(queue) = 0
    BY <1>1
  <2>2. 1 .. 0 = {}
    OBVIOUS
  <2>. QED BY <2>1, <2>2, Zenon DEF QueueFits
<1>. QED BY <1>10, <1>11, <1>12, <1>13, Zenon DEF GtkInv

\* Each step keeps it.
LEMMA GtkNextInv ==
    ASSUME GtkInv, [Gtk!Next]_gtkVars
    PROVE  GtkInv'
<1>1. CASE UNCHANGED gtkVars
  BY <1>1, Zenon DEF gtkVars, GtkInv
<1>2. CASE Gtk!Incoming \/ Gtk!Dial \/ Gtk!Message
  BY <1>2, IncomingKeeps, DialKeeps, MessageKeeps, Zenon
<1>3. CASE Gtk!Start \/ Gtk!GtkEnds \/ Gtk!ModuleClose \/ Gtk!Joined
  BY <1>3, ThreadsKeep, Zenon
<1>4. ASSUME NEW c \in GtkNo,
             \/ Gtk!Established(c) \/ Gtk!Closed(c) \/ Gtk!PressClose(c) \/ Gtk!PressHold(c)
             \/ Gtk!OpenDialog(c) \/ Gtk!Transfer(c) \/ Gtk!Key(c) \/ Gtk!Timer(c)
             \/ Gtk!WindowMessage(c) \/ Gtk!Bare(c) \/ Gtk!Freed(c)
      PROVE  GtkInv'
  BY <1>4, EstablishedKeeps, ClosedKeeps, PressCloseKeeps, PressHoldKeeps, OpenDialogKeeps,
     TransferKeeps, KeyKeeps, TimerKeeps, WindowMessageKeeps, BareKeeps, FreedKeeps, Zenon
<1>5. ASSUME NEW c \in GtkNo, NEW early \in BOOLEAN, Gtk!Progress(c, early)
      PROVE  GtkInv'
  BY <1>5, ProgressKeeps, Zenon
<1>6. ASSUME NEW c \in GtkNo, NEW id \in {"answer", "hangup"}, Gtk!Choose(c, id)
      PROVE  GtkInv'
  BY <1>6, ChooseKeeps, Zenon
<1>7. ~Gtk!Other
  BY DEF Gtk!Other
<1>8. Gtk!CallNo = GtkNo
  BY DEF Gtk!CallNo, GtkNo
<1>. QED BY <1>1, <1>2, <1>3, <1>4, <1>5, <1>6, <1>7, <1>8, Zenon DEF Gtk!Next

\* What it says of a window that is open, and of all that is counted.
LEMMA GtkSafe ==
    ASSUME GtkInv
    PROVE  /\ Gtk!TypeOK /\ Gtk!ClosedIsShown /\ Gtk!EntriesAreLive
           /\ Gtk!WindowHoldsCall /\ Gtk!TimerHasWindow
<1>0. Gtk!CallNo = GtkNo /\ Gtk!None = 0
  BY DEF Gtk!CallNo, GtkNo, Gtk!None
<1>1. /\ ui \in UiRec /\ state \in [GtkNo -> GtkState]
      /\ \A c \in GtkNo :
            WindowFits(ui.win[c], ui.refs[c], ui.clocks[c], state[c], alone, gtkAgain)
  BY GtkKnown, Zenon DEF UiFits
<1>2. Gtk!TypeOK
  <2>1. /\ thread \in {"starting", "running", "quit", "ended"}
        /\ main \in {"idle", "undo", "closing", "closed"} /\ gtkCalls \in 0 .. GtkCalls
        /\ alone \in BOOLEAN /\ gtkAgain \in BOOLEAN
    BY GtkKnown, Zenon DEF ThreadsFit
  <2>2. state \in [Gtk!CallNo -> {"none", "incoming", "answered", "out", "up", "ended"}]
    BY <1>0, <1>1 DEF GtkState
  <2>3. notified \subseteq Gtk!CallNo
    BY <1>0, GtkKnown, Zenon DEF EntriesFit
  <2>4. queue \in Seq({"connect", "answer", "hangup"} \X (Gtk!CallNo \cup {Gtk!None}))
    <3>1. queue \in Seq(GtkMsg)
      BY GtkKnown, Zenon DEF QueueFits
    <3>2. GtkMsg \subseteq {"connect", "answer", "hangup"} \X (Gtk!CallNo \cup {Gtk!None})
      BY <1>0 DEF GtkMsg
    <3> DEFINE M == {"connect", "answer", "hangup"} \X (Gtk!CallNo \cup {Gtk!None})
    <3> HIDE DEF M
    <3>3. queue \in Seq(M)
      <4>1. GtkMsg \subseteq M
        BY <3>2 DEF M
      <4>. QED BY <3>1, <4>1
    <3>. QED BY <3>3 DEF M
  <2>5. /\ ui.win \in [Gtk!CallNo -> Gtk!Window] /\ ui.clocks \in [Gtk!CallNo -> 0 .. 2]
        /\ ui.audio \in [Gtk!CallNo -> BOOLEAN]
        /\ {ui.lastWin, ui.lastVu} \subseteq Gtk!CallNo \cup {Gtk!None}
    BY <1>0, <1>1, UiTypes
  <2>6. ui.refs \in [Gtk!CallNo -> 0 .. 2]
    <3>1. \A c \in GtkNo : ui.refs[c] = Holders(state[c], ui.win[c])
      BY <1>1, Zenon DEF WindowFits
    <3>2. \A c \in GtkNo : ui.refs[c] \in 0 .. 2
      BY <3>1 DEF Holders
    <3>3. ui.refs \in [GtkNo -> Int]
      BY <1>1, UiTypes
    <3>. QED BY <1>0, <3>2, <3>3
  <2>7. wrong \subseteq {"queued", "text", "meter", "timer", "call", "second"}
    BY GtkKnown DEF WrongFits
  <2>8. {alone, gtkAgain} \subseteq BOOLEAN
    BY <2>1, Zenon
  <2>. QED BY <2>1, <2>2, <2>3, <2>4, <2>5, <2>6, <2>7, <2>8, Zenon DEF Gtk!TypeOK
<1>3. Gtk!ClosedIsShown
  <2>1. SUFFICES ASSUME NEW c \in GtkNo, Gtk!Open(c)
                 PROVE  /\ ui.win[c].closed <=> state[c] = "ended"
                        /\ ui.win[c].closed => ~ui.win[c].tag /\ ~ui.win[c].dialog
    BY <1>0, Zenon DEF Gtk!ClosedIsShown
  <2>2. ui.win[c].st = "open"
    BY <2>1, Zenon DEF Gtk!Open
  <2>. QED BY <1>1, <2>2, Zenon DEF WindowFits
<1>4. Gtk!EntriesAreLive
  BY GtkKnown, Zenon DEF Gtk!EntriesAreLive, EntriesFit
<1>5. Gtk!WindowHoldsCall
  <2>1. \A c \in GtkNo : Gtk!Open(c) => ui.refs[c] > 0
    BY OpenKnown, Zenon
  <2>2. wrong \subseteq {"queued", "text", "meter", "timer"}
    BY GtkKnown, Zenon DEF WrongFits
  <2>3. "call" \notin wrong /\ "second" \notin wrong
    BY <2>2
  <2>. QED BY <1>0, <2>1, <2>3, Zenon DEF Gtk!WindowHoldsCall
<1>6. Gtk!TimerHasWindow
  BY GtkKnown, Zenon DEF Gtk!TimerHasWindow, WrongFits
<1>. QED BY <1>2, <1>3, <1>4, <1>5, <1>6

\* The windows of module gtk: one that is open has its call, says when it is over and has no
\* clock or dialog then; what the menu offers can be answered; and, unless a second call or a
\* second start of the clock confused them, no timer runs with a window that is freed.
THEOREM WindowsSafe ==
    AllSpec => [](/\ Gtk!TypeOK /\ Gtk!ClosedIsShown /\ Gtk!EntriesAreLive
                  /\ Gtk!WindowHoldsCall /\ Gtk!TimerHasWindow)
<1>1. AllInit => GtkInv
  BY GtkInitInv, Zenon DEF AllInit
<1>2. GtkInv /\ [AllNext]_all => GtkInv'
  <2>1. SUFFICES ASSUME GtkInv, [AllNext]_all PROVE [Gtk!Next]_gtkVars
    BY GtkNextInv, Zenon
  <2>2. CASE UNCHANGED all
    BY <2>2, Zenon DEF all
  <2>3. CASE Only("menu")
    <3>1. "menu" # "gtk"
      OBVIOUS
    <3>. QED BY <2>3, <3>1, Zenon DEF Only
  <2>. QED BY <2>1, <2>2, <2>3, Zenon DEF AllNext
<1>3. GtkInv => /\ Gtk!TypeOK /\ Gtk!ClosedIsShown /\ Gtk!EntriesAreLive
                /\ Gtk!WindowHoldsCall /\ Gtk!TimerHasWindow
  BY GtkSafe, Zenon
<1>. QED BY <1>1, <1>2, <1>3, PTL DEF AllSpec

=============================================================================
