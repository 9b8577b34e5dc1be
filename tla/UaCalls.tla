------------------------------ MODULE UaCalls ------------------------------
(***************************************************************************)
(* The calls of one User-Agent: src/call.c together with the part of       *)
(* src/ua.c that owns the call list and reacts to call events.             *)
(*                                                                         *)
(* baresip runs all of this code on one thread (the libre main loop), so a *)
(* step of this module is one complete handler: a user command, a callback *)
(* of the SIP session, of the REFER subscription or of the media NAT, or a *)
(* timer.  What may be interleaved is the order of those handlers.         *)
(*                                                                         *)
(* A call object is named by a member of Call; a name is used again after  *)
(* the object has been released.  The states IDLE and TERMINATED of        *)
(* enum state never survive the handler that sets them (every path to      *)
(* them connects, accepts or releases the call), so "FREE" (no object) is  *)
(* the only other state seen between two handlers.                         *)
(***************************************************************************)
EXTENDS Naturals, Sequences, FiniteSets

CONSTANTS
    Call,          \* names of call objects (struct call)
    Notifier,      \* names of REFER notifiers (struct sipnot)
    LineMax,       \* last line number that can be assigned
    MaxCalls,      \* config call.max_calls, 0 for unlimited
    SubMax,        \* bound: calls with an outstanding REFER of ours
    LocalTimeout,  \* config call.local_timeout is set
    RtpTimeout,    \* config avt.rtp_timeout is set
    UseMnat,       \* the account has a media NAT module
    AnswerMode,    \* the account's answermode
    AppProgress,   \* an application uses ua_progress (no module of the build does)
    HandlerHangup  \* an event handler may hang up the call it is told about

None == "none"

ASSUME LinesAssumption == LineMax \in Nat /\ MaxCalls \in Nat /\ SubMax \in Nat
ASSUME NamesAssumption == None \notin Call \cup Notifier
ASSUME ConfigAssumption ==
    /\ {LocalTimeout, RtpTimeout, UseMnat, AppProgress, HandlerHangup} \subseteq BOOLEAN
    /\ AnswerMode \in {"MANUAL", "EARLY", "AUTO"}

VARIABLES
    calls,   \* ua->calls: the list of calls, its last element is the current one
    call,    \* the fields of each call object
    notif,   \* the REFER notifiers: status and the call passed as handler argument
    stale    \* a handler has touched a call object that was already released

vars == <<calls, call, notif, stale>>

State == {"FREE", "INCOMING", "OUTGOING", "RINGING", "EARLY", "ESTABLISHED"}

\* What libre's SIP session is doing for the call: no session object, an INVITE
\* received and not answered, answered and not acknowledged, an INVITE sent, up.
Sess == {"null", "uas", "answered", "uac", "up"}

\* The last UA event delivered for the call object (ev).
Event == {None, "INCOMING", "RINGING", "PROGRESS", "ESTABLISHED", "CLOSED"}

CallRec == [st : State, line : 0..LineMax, out : BOOLEAN, sess : Sess,
            mnat : BOOLEAN, held : BOOLEAN, tmr : BOOLEAN, media : BOOLEAN,
            not : Notifier \cup {None}, sub : BOOLEAN, ev : Event]

Freed(e) == [st |-> "FREE", line |-> 0, out |-> FALSE, sess |-> "null",
             mnat |-> FALSE, held |-> FALSE, tmr |-> FALSE, media |-> FALSE,
             not |-> None, sub |-> FALSE, ev |-> e]

NotifRec == [st : {"free", "active", "done"}, owner : Call \cup {None}]
IdleNotif == [st |-> "free", owner |-> None]

Live == {c \in Call : call[c].st # "FREE"}

-----------------------------------------------------------------------------
(* The call list. *)

\* Mutant: the loop runs up to and including CALL_LINENUM_MAX.
FreeLinesOffByOne == 1..(LineMax + 1) \ {call[c].line : c \in Live}

FreeLines == 1..LineMax \ {call[c].line : c \in Live}

\* Mutant: the number of calls plus one.
AssignLineByCount == Len(calls) + 1

\* assign_linenum: the lowest line number that no call of the UA uses.
AssignLine == CHOOSE l \in FreeLines : \A m \in FreeLines : l <= m

\* list_unlink: the list without its element c.
Unlink(s, c) ==
    LET i == CHOOSE j \in DOMAIN s : s[j] = c
    IN  IF \E j \in DOMAIN s : s[j] = c
        THEN SubSeq(s, 1, i - 1) \o SubSeq(s, i + 1, Len(s)) ELSE s

HeldAt(s, cs) == {i \in DOMAIN s : cs[s[i]].held}

\* Mutant: the search starts at the head of the list.
ResumedFirst(s, cs) ==
    IF HeldAt(s, cs) = {} THEN cs
    ELSE LET i == CHOOSE j \in HeldAt(s, cs) : \A k \in HeldAt(s, cs) : k >= j
         IN  [cs EXCEPT ![s[i]].held = (cs[s[i]].sess = "null")]

\* resume_call: take the held call nearest the tail of the list off hold.
\* call_hold refuses a call without a session.
Resumed(s, cs) ==
    IF HeldAt(s, cs) = {} THEN cs
    ELSE LET i == CHOOSE j \in HeldAt(s, cs) : \A k \in HeldAt(s, cs) : k <= j
         IN  [cs EXCEPT ![s[i]].held = (cs[s[i]].sess = "null")]

\* The notifiers after the calls have become cs and the notifiers in done have
\* sent their last NOTIFY: a notifier nobody refers to is released, and one
\* whose handler argument was released keeps a dangling argument.
NotifierAfter(cs, done) ==
    [n \in Notifier |->
        IF \A c \in Call : cs[c].not # n THEN IdleNotif
        ELSE [st    |-> IF n \in done THEN "done" ELSE notif[n].st,
              owner |-> IF notif[n].owner \in Call /\ cs[notif[n].owner].st # "FREE"
                        THEN notif[n].owner ELSE None]]

\* call_alloc: a fresh object on the lowest free line, not announced yet.
CanAlloc(c) == call[c].st = "FREE" /\ FreeLines # {}

Allocated(st, sess, n) ==
    [Freed(None) EXCEPT !.st = st, !.line = AssignLine, !.sess = sess,
                        !.out = (st = "OUTGOING"), !.mnat = UseMnat, !.not = n]

\* call_connect: the INVITE is sent at once unless a media NAT must finish first.
Connecting(n) == Allocated("OUTGOING", IF UseMnat THEN "null" ELSE "uac", n)

\* CALL_EVENT_CLOSED in call_event_handler and ua_hangup: tell the handlers,
\* release the call (call_destructor) and resume the last call on hold.
CloseCall(c, done) ==
    /\ calls' = Unlink(calls, c)
    /\ call' = Resumed(Unlink(calls, c), [call EXCEPT ![c] = Freed("CLOSED")])
    /\ notif' = NotifierAfter(call', done)

\* A handler changes the fields of c and nothing else.
SetCall(c, r) ==
    /\ call' = [call EXCEPT ![c] = r]
    /\ UNCHANGED <<calls, notif, stale>>

-----------------------------------------------------------------------------
(* Outcomes of the calls into the SIP session. *)

\* call_progress: the timer is cancelled before anything can fail; the audio is
\* started if the 183 could be sent, which needs an unanswered INVITE.
Progressed(r) ==
    {[r EXCEPT !.tmr = FALSE, !.media = @ \/ ok] : ok \in {FALSE, r.sess = "uas"}}

\* call_answer on a call that is INCOMING: an INVITE with an offer starts the
\* audio (update_media); then the 200 is sent, or the call fails and nothing is.
Answered(r) ==
    LET updated == {[r EXCEPT !.media = @ \/ offer] : offer \in BOOLEAN}
    IN  updated \cup {[u EXCEPT !.sess = "answered"] : u \in updated}

\* CALL_EVENT_INCOMING in call_event_handler, for a contact that is not blocked.
Announced(r) ==
    CASE AnswerMode = "EARLY"  -> Progressed(r)
      [] AnswerMode = "AUTO"   -> Answered(r)
      [] AnswerMode = "MANUAL" -> {[r EXCEPT !.ev = "INCOMING"]}

-----------------------------------------------------------------------------
(* User commands. *)

\* Mutant: the new call is put at the head of the list.
DialAtHead(c) ==
    /\ CanAlloc(c)
    /\ calls' = <<c>> \o calls
    /\ call' = [call EXCEPT ![c] = Connecting(None)]
    /\ UNCHANGED <<notif, stale>>

\* ua_connect.  When it fails the object is released again: no change.
Dial(c) ==
    /\ CanAlloc(c)
    /\ calls' = Append(calls, c)
    /\ call' = [call EXCEPT ![c] = Connecting(None)]
    /\ UNCHANGED <<notif, stale>>

\* ua_answer.
Answer(c) ==
    /\ call[c].st = "INCOMING"
    /\ \E r \in Answered(call[c]) : SetCall(c, r)

\* ua_progress.
Progress(c) ==
    /\ AppProgress
    /\ c \in Live
    /\ \E r \in Progressed(call[c]) : SetCall(c, r)

\* Mutant: the call is released without UA_EVENT_CALL_CLOSED.
HangupSilently(c) ==
    /\ c \in Live
    /\ calls' = Unlink(calls, c)
    /\ call' = Resumed(Unlink(calls, c), [call EXCEPT ![c] = Freed(call[c].ev)])
    /\ notif' = NotifierAfter(call', {})
    /\ UNCHANGED stale

\* ua_hangup.
Hangup(c) ==
    /\ c \in Live
    /\ CloseCall(c, {})
    /\ UNCHANGED stale

\* call_hold; the flag is set before the re-INVITE is tried.
Hold(c, hold) ==
    /\ call[c].sess # "null"
    /\ SetCall(c, [call[c] EXCEPT !.held = hold])

\* ua_prev_call.
PrevCall == calls[Len(calls) - 1]

\* call_hold(pcall, true) fails: without a session, or when the flag was clear
\* and the re-INVITE is refused, which a session that is up never does.
HoldFails(c) ==
    \/ call[c].sess = "null"
    \/ ~call[c].held /\ call[c].sess # "up"

\* call_hold(pcall, true) succeeds, possibly because there was nothing to do.
HoldWorks(c) ==
    /\ call[c].sess # "null"
    /\ call[c].held \/ call[c].sess # "uas"

WithHold(c) == [call EXCEPT ![c].held = (@ \/ call[c].sess # "null")]

\* ua_hold_answer: hold the call before the last one, then answer c, unless
\* holding has failed.
HoldAnswer(c) ==
    /\ c \in Live
    /\ UNCHANGED <<calls, notif, stale>>
    /\ \/ /\ Len(calls) > 1
          /\ HoldFails(PrevCall)
          /\ call' = WithHold(PrevCall)
       \/ /\ Len(calls) > 1 => HoldWorks(PrevCall)
          /\ LET cs == IF Len(calls) > 1 THEN WithHold(PrevCall) ELSE call
             IN  \E r \in IF cs[c].st = "INCOMING" THEN Answered(cs[c]) ELSE {cs[c]} :
                     call' = [cs EXCEPT ![c] = r]

\* Mutant: list_append without list_unlink.
SetCurrentTwice(c) ==
    /\ c \in Live
    /\ calls' = Append(calls, c)
    /\ UNCHANGED <<call, notif, stale>>

\* call_set_current.
SetCurrent(c) ==
    /\ c \in Live
    /\ calls' = Append(Unlink(calls, c), c)
    /\ UNCHANGED <<call, notif, stale>>

\* call_transfer: a new REFER replaces the subscription of an earlier one.
Transfer(c) ==
    /\ c \in Live
    /\ Cardinality({d \in Live : call[d].sub}) < SubMax
    /\ \E ok \in {FALSE, call[c].sess = "up"} :
          SetCall(c, [call[c] EXCEPT !.sub = ok])

-----------------------------------------------------------------------------
(* Callbacks of the SIP session and of the REFER subscriptions. *)

Acceptable(c) ==
    /\ CanAlloc(c)
    /\ MaxCalls # 0 => Len(calls) + 1 <= MaxCalls

\* sipsess_conn_handler, call_accept: no common codec or the wrong address
\* family.  The call is closed although no handler had heard of it.
IncomingRefused(c) ==
    /\ Acceptable(c)
    /\ call' = Resumed(calls, [call EXCEPT ![c].ev = "CLOSED"])
    /\ UNCHANGED <<calls, notif, stale>>

\* contact_block_access: the same, but no other call is resumed.
IncomingBlocked(c) ==
    /\ Acceptable(c)
    /\ ~UseMnat
    /\ call' = [call EXCEPT ![c].ev = "CLOSED"]
    /\ UNCHANGED <<calls, notif, stale>>

\* Mutant: the timer is not started.
IncomingNoTimer(c) ==
    /\ Acceptable(c)
    /\ calls' = Append(calls, c)
    /\ \E x \in Announced(Allocated("INCOMING", "uas", None)) :
            call' = [call EXCEPT ![c] = x]
    /\ UNCHANGED <<notif, stale>>

\* sipsess_conn_handler, call_accept.
IncomingAccepted(c) ==
    /\ Acceptable(c)
    /\ calls' = Append(calls, c)
    /\ LET r == [Allocated("INCOMING", "uas", None) EXCEPT !.tmr = LocalTimeout]
       IN  \E x \in IF UseMnat THEN {r} ELSE Announced(r) :
               call' = [call EXCEPT ![c] = x]
    /\ UNCHANGED <<notif, stale>>

\* mnat_handler with an error, before or after the call is established.
MnatFail(c) ==
    /\ UseMnat
    /\ c \in Live
    /\ CloseCall(c, {})
    /\ UNCHANGED stale

\* Mutant: the INVITE is sent whatever the call state.
MnatDoneInvites(c) ==
    /\ call[c].mnat
    /\ SetCall(c, [call[c] EXCEPT !.mnat = FALSE, !.sess = "uac"])

\* Mutant: an incoming call is announced even when it is already established.
MnatDoneAnnounces(c) ==
    /\ call[c].mnat
    /\ IF call[c].out
       THEN \E s \in {"null", "uac"} : SetCall(c, [call[c] EXCEPT !.mnat = FALSE, !.sess = s])
       ELSE \E x \in Announced([call[c] EXCEPT !.mnat = FALSE]) : SetCall(c, x)

\* mnat_handler: the first success sends the INVITE, or announces the call.
\* A failure to send the INVITE is ignored.
MnatDone(c) ==
    /\ call[c].mnat
    /\ LET r == [call[c] EXCEPT !.mnat = FALSE]
       IN  \/ /\ r.st = "OUTGOING"
              /\ \E s \in {"null", "uac"} : SetCall(c, [r EXCEPT !.sess = s])
           \/ /\ r.st = "INCOMING"
              /\ \E x \in Announced(r) : SetCall(c, x)
           \/ /\ r.st \notin {"OUTGOING", "INCOMING"}
              /\ SetCall(c, r)

\* mnat_handler, for an incoming call from a blocked contact.
MnatBlocked(c) ==
    /\ call[c].mnat /\ call[c].st = "INCOMING"
    /\ calls' = Unlink(calls, c)
    /\ call' = [call EXCEPT ![c] = Freed("CLOSED")]
    /\ notif' = NotifierAfter(call', {})
    /\ UNCHANGED stale

\* Mutant: the streams are not stopped first, so 183 then 180 keeps the audio.
ProgrKeepsStreams(c, st, media) ==
    /\ call[c].sess = "uac"
    /\ st \in {"RINGING", "EARLY", call[c].st}
    /\ SetCall(c, [call[c] EXCEPT !.st = st, !.tmr = FALSE, !.media = @ \/ media,
                       !.ev = IF media THEN "PROGRESS" ELSE "RINGING"])

\* sipsess_progr_handler: a provisional response, with or without early media.
\* 180 and 183 set the state, other codes leave it.
Progr(c, st, media) ==
    /\ call[c].sess = "uac"
    /\ st \in {"RINGING", "EARLY", call[c].st}
    /\ SetCall(c, [call[c] EXCEPT !.st = st, !.tmr = FALSE, !.media = media,
                       !.ev = IF media THEN "PROGRESS" ELSE "RINGING"])

\* The same, when the event handler hangs up the call: update_media, which
\* follows the event, then works on a call that has been released.
ProgrHangup(c, media) ==
    /\ HandlerHangup
    /\ call[c].sess = "uac"
    /\ CloseCall(c, {})
    /\ stale' = media

\* Mutant: the timer of the incoming call is not cancelled.
EstabKeepsTimer(c) ==
    /\ call[c].sess \in {"uac", "answered", "up"}
    /\ call[c].st # "ESTABLISHED"
    /\ call' = [call EXCEPT ![c] = [@ EXCEPT !.st = "ESTABLISHED", !.sess = "up",
                   !.media = TRUE, !.not = None, !.ev = "ESTABLISHED"]]
    /\ notif' = NotifierAfter(call', {call[c].not})
    /\ UNCHANGED <<calls, stale>>

\* Mutant: the transferor is not told of the success.
EstabKeepsNotifier(c) ==
    /\ call[c].sess \in {"uac", "answered", "up"}
    /\ call[c].st # "ESTABLISHED"
    /\ SetCall(c, [call[c] EXCEPT !.st = "ESTABLISHED", !.sess = "up",
                   !.tmr = FALSE, !.media = TRUE, !.ev = "ESTABLISHED"])

\* sipsess_estab_handler: the session is up.  A call that is already ESTABLISHED
\* and is told once more returns early.
Estab(c) ==
    /\ call[c].sess \in {"uac", "answered", "up"}
    /\ call[c].st # "ESTABLISHED"
    /\ call' = [call EXCEPT ![c] = [@ EXCEPT !.st = "ESTABLISHED", !.sess = "up",
                   !.tmr = FALSE, !.media = TRUE, !.not = None, !.ev = "ESTABLISHED"]]
    /\ notif' = NotifierAfter(call', {call[c].not})
    /\ UNCHANGED <<calls, stale>>

\* sipsess_close_handler: an error, a final response, or neither.  With one of
\* the first two the outcome is reported to the transferor.
SessClose(c) ==
    /\ call[c].sess # "null"
    /\ \E done \in {{}, {call[c].not}} : CloseCall(c, done)
    /\ UNCHANGED stale

\* sipsess_refer_handler, CALL_EVENT_TRANSFER: the peer transfers us.  The new
\* call c2 to the target shares the notifier of the REFER.
Refer(c, c2, n) ==
    /\ call[c].sess = "up"
    /\ CanAlloc(c2)
    /\ notif[n].st = "free"
    /\ calls' = Append(calls, c2)
    /\ call' = [call EXCEPT ![c].not = n, ![c2] = Connecting(n)]
    /\ notif' = [NotifierAfter(call', {}) EXCEPT ![n] = [st |-> "active", owner |-> c]]
    /\ UNCHANGED stale

\* The same when the subscription is not accepted or the new call fails: the
\* earlier notifier is dropped, and so is the new one after a 500.
ReferFails(c) ==
    /\ call[c].sess = "up"
    /\ call' = [call EXCEPT ![c].not = None]
    /\ notif' = NotifierAfter(call', {})
    /\ UNCHANGED <<calls, stale>>

\* sipnot_close_handler runs on the call that accepted the REFER and drops
\* whatever notifier that call has now.
NotClose(n) ==
    /\ notif[n].st = "active"
    /\ IF notif[n].owner = None
       THEN stale' = TRUE /\ UNCHANGED <<calls, call, notif>>
       ELSE /\ call' = [call EXCEPT ![notif[n].owner].not = None]
            /\ notif' = NotifierAfter(call', {n})
            /\ UNCHANGED <<calls, stale>>

\* sipsub_notify_handler: the transfer we asked for succeeded.  A failure only
\* raises CALL_EVENT_TRANSFER_FAILED.
SubNotify(c) ==
    /\ call[c].sub
    /\ CloseCall(c, {})
    /\ UNCHANGED stale

\* sipsub_close_handler.
SubClose(c) ==
    /\ call[c].sub
    /\ SetCall(c, [call[c] EXCEPT !.sub = FALSE])

-----------------------------------------------------------------------------
(* Timers and media errors. *)

\* invite_timeout.
InviteTimeout(c) ==
    /\ call[c].tmr
    /\ CloseCall(c, {})
    /\ UNCHANGED stale

\* stream_error_handler: no RTP for longer than the timeout, which
\* sipsess_estab_handler enables.
RtpTimedOut(c) ==
    /\ RtpTimeout
    /\ call[c].st = "ESTABLISHED"
    /\ CloseCall(c, {})
    /\ UNCHANGED stale

\* audio_error_handler, video_error_handler, menc_error_handler.
MediaError(c) ==
    /\ call[c].media
    /\ CloseCall(c, {})
    /\ UNCHANGED stale

-----------------------------------------------------------------------------

Init ==
    /\ calls = <<>>
    /\ call = [c \in Call |-> Freed(None)]
    /\ notif = [n \in Notifier |-> IdleNotif]
    /\ stale = FALSE

UserNext(c) ==
    \/ Dial(c) \/ Answer(c) \/ Progress(c) \/ Hangup(c)
    \/ \E hold \in BOOLEAN : Hold(c, hold)
    \/ HoldAnswer(c) \/ SetCurrent(c) \/ Transfer(c)

SessionNext(c) ==
    \/ IncomingRefused(c) \/ IncomingBlocked(c) \/ IncomingAccepted(c)
    \/ MnatFail(c) \/ MnatDone(c) \/ MnatBlocked(c)
    \/ \E st \in State, media \in BOOLEAN : Progr(c, st, media)
    \/ \E media \in BOOLEAN : ProgrHangup(c, media)
    \/ Estab(c) \/ SessClose(c)
    \/ \E c2 \in Call, n \in Notifier : Refer(c, c2, n)
    \/ ReferFails(c) \/ SubNotify(c) \/ SubClose(c)

TimerNext(c) == InviteTimeout(c) \/ RtpTimedOut(c) \/ MediaError(c)

\* After a released call has been touched nothing is known about the program.
Next ==
    \/ ~stale /\ \/ \E c \in Call : UserNext(c) \/ SessionNext(c) \/ TimerNext(c)
                 \/ \E n \in Notifier : NotClose(n)
    \/ stale /\ UNCHANGED vars

Spec == Init /\ [][Next]_vars

\* The main loop runs every timer that has expired, and libre gives up an
\* unacknowledged answer.  Nothing makes the user or the peer act.
Fairness == \A c \in Call :
    /\ WF_vars(~stale /\ InviteTimeout(c))
    /\ WF_vars(~stale /\ call[c].sess = "answered" /\ (Estab(c) \/ SessClose(c)))

FairSpec == Spec /\ Fairness

-----------------------------------------------------------------------------
(* Invariants. *)

\* Every variable has its type.
TypeOK ==
    /\ calls \in Seq(Call)
    /\ call \in [Call -> CallRec]
    /\ notif \in [Notifier -> NotifRec]
    /\ stale \in BOOLEAN

\* ua->calls holds each allocated call object exactly once: no handler leaves a
\* released call in the list or loses a live one (call_alloc, call_destructor,
\* call_set_current).
ListHoldsLive ==
    /\ {calls[i] : i \in DOMAIN calls} = Live
    /\ \A i, j \in DOMAIN calls : calls[i] = calls[j] => i = j

\* Calls that exist at the same time have different line numbers, whatever calls
\* were released in between (assign_linenum, call_find_linenum).
LinesDistinct ==
    \A c, d \in Live : call[c].line = call[d].line => c = d

\* The timer of an unanswered call is armed only for an incoming call that is
\* not established, so "Local timeout" never closes a conversation
\* (call_accept, call_stream_start, call_stream_stop, call_progress).
TimerOnlyIncoming ==
    \A c \in Call : call[c].tmr => call[c].st = "INCOMING" /\ LocalTimeout

\* The call state tells what the SIP session is doing: a session is up exactly
\* when the call is ESTABLISHED, and only a call whose media NAT is (or was) in
\* the way has no session.
StateMatchesSession ==
    \A c \in Live :
        /\ call[c].st = "ESTABLISHED" <=> call[c].sess = "up"
        /\ call[c].st = "INCOMING" <=> call[c].sess \in {"uas", "answered"}
        /\ call[c].sess = "null" => UseMnat /\ call[c].st = "OUTGOING"
        /\ call[c].out \/ call[c].st \in {"INCOMING", "ESTABLISHED"}

\* Before an outgoing call is answered the audio runs exactly if the last event
\* was CALL_PROGRESS, in whatever order 180 and 183 arrive: a handler can tell from
\* the events whether the peer is heard (sipsess_progr_handler).
EarlyMediaMatchesTone ==
    \A c \in Call : call[c].st \in {"OUTGOING", "RINGING", "EARLY"} =>
        (call[c].media <=> call[c].ev = "PROGRESS")

\* A call that holds a notifier it did not itself accept is the target of a
\* transfer whose outcome is open: it is not yet established.  Once it is, the
\* outcome has been reported and the notifier dropped (sipsess_estab_handler).
TransferPending ==
    \A c \in Call : call[c].not # None =>
        \/ notif[call[c].not].owner = c
        \/ call[c].st \in {"OUTGOING", "RINGING", "EARLY"}

\* No handler uses a call object that the event it delivered has released: the
\* rule of sipsess_estab_handler, "must be done last, the handler might deref
\* this call".
NoStaleCall == ~stale

-----------------------------------------------------------------------------
(* Action properties. *)

Position(s, c) == CHOOSE i \in DOMAIN s : s[i] = c
Stays(c) == c \in Live /\ call'[c].st # "FREE"

\* A call keeps its place among the other calls until it becomes the current
\* one, and a new call is the current one: the "current call strategy" of
\* ua_call and the NOTE in call_alloc.
CurrentCallStrategy ==
    [][/\ \A c, d \in Call :
            /\ Stays(c) /\ Stays(d)
            /\ Position(calls, c) < Position(calls, d)
            /\ Position(calls', c) > Position(calls', d)
            => c = calls'[Len(calls')]
       /\ \A c \in Call :
            call[c].st = "FREE" /\ call'[c].st # "FREE" => c = calls'[Len(calls')]]_vars

\* When a call the application knows of is closed, a remaining call is off hold:
\* the user is not left with all the conversations on hold.  No call nearer the
\* tail of the list than the one resumed stays on hold (resume_call).
CloseResumesLast ==
    [][(\E c \in Call : call[c].ev \notin {None, "CLOSED"} /\ call'[c].ev = "CLOSED")
        => /\ calls' = <<>> \/ \E i \in DOMAIN calls' : ~call'[calls'[i]].held
           /\ \A i, j \in DOMAIN calls' :
                /\ call[calls'[i]].held /\ ~call'[calls'[i]].held
                /\ i < j
                => ~call'[calls'[j]].held]_vars

\* What the comment of ua_hold_answer promises for an explicit call c, "Put the
\* current call on hold and answer the incoming call": when it has answered c, the
\* call that was current is on hold.  (A step that is also an Answer is left out.)
HoldAnswerHolds ==
    [][\A c \in Call :
         /\ HoldAnswer(c) /\ ~Answer(c)
         /\ call[c].sess = "uas" /\ call'[c].sess = "answered"
         /\ c # calls[Len(calls)]
         => call'[calls[Len(calls)]].held]_vars

\* config call.max_calls is documented as the "Maximum number of calls".
MaxCallsRespected == MaxCalls # 0 => Len(calls) <= MaxCalls

-----------------------------------------------------------------------------
(* Liveness, under FairSpec. *)

\* config call.local_timeout is the "Incoming call timeout": with it no incoming
\* call rings for ever, it is established or closed.
IncomingTimesOut ==
    \A c \in Call : (call[c].st = "INCOMING" /\ LocalTimeout) ~>
        (call[c].st # "INCOMING" \/ stale)

-----------------------------------------------------------------------------
(* What the calls promise to the application, see CallEvents. *)

Direction(c) == IF call[c].st = "FREE" THEN None
                ELSE IF call[c].out THEN "out" ELSE "in"

Events == INSTANCE CallEvents WITH
            ev  <- [c \in Call |-> call[c].ev],
            dir <- [c \in Call |-> Direction(c)]

\* The UA events of every call obey the life cycle of CallEvents.
ImplementsEvents == Events!Spec
=============================================================================
