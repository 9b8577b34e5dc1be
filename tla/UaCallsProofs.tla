--------------------------- MODULE UaCallsProofs ---------------------------
(***************************************************************************)
(* Safety of UaCalls for any number of calls, notifiers and lines: type    *)
(* correctness, the agreement of the fields of a call with each other, the *)
(* list of calls and its order, and the refinement of CallEvents.          *)
(*                                                                         *)
(* One inductive invariant carries it.  What it says of a call is a        *)
(* predicate of that call's record alone, RecordOK, which resume_call      *)
(* cannot disturb since it does nothing but clear a hold flag.  The list,  *)
(* the notifiers and the events are treated by the kinds of change that a  *)
(* step makes to them.                                                     *)
(***************************************************************************)
EXTENDS UaCalls, SequenceTheorems, WellFoundedInduction, TLAPS

(***************************************************************************)
(* Types of the operators the actions are built from.                      *)
(***************************************************************************)

\* A released call object is a well-formed record.
LEMMA FreedType == \A e \in Event : Freed(e) \in CallRec
  BY LinesAssumption DEF Freed, CallRec, State, Sess, Event, None

\* list_unlink yields a list of calls.
LEMMA UnlinkType ==
  ASSUME NEW s \in Seq(Call), NEW c \in Call
  PROVE  Unlink(s, c) \in Seq(Call)
<1>1. CASE ~ \E j \in DOMAIN s : s[j] = c
  BY <1>1 DEF Unlink
<1>2. CASE \E j \in DOMAIN s : s[j] = c
  <2>1. PICK i \in DOMAIN s : i = CHOOSE j \in DOMAIN s : s[j] = c
    BY <1>2
  <2>2. i \in 1..Len(s) /\ Len(s) \in Nat
    OBVIOUS
  <2>3. SubSeq(s, 1, i - 1) \in Seq(Call) /\ SubSeq(s, i + 1, Len(s)) \in Seq(Call)
    BY <2>2, SubSeqProperties
  <2>. QED BY <1>2, <2>1, <2>3 DEF Unlink
<1>. QED BY <1>1, <1>2

\* Whenever a line is free, assign_linenum finds one, and it is free.
LEMMA AssignLineFree ==
  ASSUME FreeLines # {}
  PROVE  AssignLine \in FreeLines
<1>1. FreeLines \subseteq Nat
  BY LinesAssumption DEF FreeLines
<1>2. \E l \in FreeLines : \A m \in FreeLines : l <= m
  <2>1. PICK l \in FreeLines : \A m \in FreeLines : ~ (<<m, l>> \in OpToRel(<, Nat))
    BY <1>1, WFMin, NatLessThanWellFounded, Zenon
  <2>2. ASSUME NEW m \in FreeLines PROVE l <= m
    <3>1. m < l => <<m, l>> \in {ss \in Nat \X Nat : ss[1] < ss[2]}
      BY <1>1
    <3>2. OpToRel(<, Nat) = {ss \in Nat \X Nat : ss[1] < ss[2]}
      BY DEF OpToRel
    <3>3. ~ (m < l)
      BY <2>1, <3>1, <3>2
    <3>. QED BY <1>1, <3>3
  <2>. QED BY <2>2
<1>. QED BY <1>2 DEF AssignLine

\* A list position with some property is followed by a last one.
LEMMA LastExists ==
  ASSUME NEW s \in Seq(Call), NEW H \in SUBSET DOMAIN s, H # {}
  PROVE  \E i \in H : \A k \in H : k <= i
<1>. DEFINE D == {Len(s) - k : k \in H}
<1>1. Len(s) \in Nat /\ H \subseteq 1..Len(s)
  OBVIOUS
<1>2. D \subseteq Nat /\ D # {}
  BY <1>1
<1>. HIDE DEF D
<1>3. PICK m \in D : \A x \in D : ~ (<<x, m>> \in OpToRel(<, Nat))
  BY <1>2, WFMin, NatLessThanWellFounded, Zenon
<1>4. \A x \in D : ~ (x < m)
  <2>. SUFFICES ASSUME NEW x \in D, x < m PROVE FALSE
    OBVIOUS
  <2>1. <<x, m>> \in {ss \in Nat \X Nat : ss[1] < ss[2]}
    BY <1>2
  <2>2. OpToRel(<, Nat) = {ss \in Nat \X Nat : ss[1] < ss[2]}
    BY DEF OpToRel
  <2>. QED BY <1>3, <2>1, <2>2
<1>5. PICK i \in H : m = Len(s) - i
  BY DEF D
<1>6. \A k \in H : Len(s) - k \in D
  BY DEF D
<1>7. \A k \in H : k <= i
  <2>. SUFFICES ASSUME NEW k \in H PROVE k <= i
    OBVIOUS
  <2>1. ~ (Len(s) - k < Len(s) - i)
    BY <1>4, <1>5, <1>6
  <2>2. k \in Nat /\ i \in Nat
    BY <1>1
  <2>. QED BY <1>1, <2>1, <2>2
<1>. QED BY <1>7

\* resume_call may clear hold flags and changes nothing else.
LEMMA ResumedRecord ==
  ASSUME NEW s \in Seq(Call), NEW cs \in [Call -> CallRec]
  PROVE  /\ Resumed(s, cs) \in [Call -> CallRec]
         /\ \A d \in Call : \E b \in BOOLEAN :
               (b => cs[d].held) /\ Resumed(s, cs)[d] = [cs[d] EXCEPT !.held = b]
<1>0. \A d \in Call : cs[d] = [cs[d] EXCEPT !.held = cs[d].held] /\ cs[d].held \in BOOLEAN
  BY DEF CallRec
<1>1. CASE HeldAt(s, cs) = {}
  BY <1>0, <1>1 DEF Resumed
<1>2. CASE HeldAt(s, cs) # {}
  <2>0. PICK i \in HeldAt(s, cs) :
            /\ \A k \in HeldAt(s, cs) : k <= i
            /\ i = CHOOSE j \in HeldAt(s, cs) : \A k \in HeldAt(s, cs) : k <= j
    BY <1>2, LastExists DEF HeldAt
  <2>. DEFINE e == s[i]
              b == (cs[e].sess = "null")
  <2>1. Resumed(s, cs) = [cs EXCEPT ![e] = [cs[e] EXCEPT !.held = b]]
    BY <1>2, <2>0 DEF Resumed
  <2>2. b \in BOOLEAN /\ cs[e].held
    BY <2>0 DEF HeldAt
  <2>. HIDE DEF e, b
  <2>3. \A x \in Call : [cs[x] EXCEPT !.held = b] \in CallRec
    BY <2>2, ZenonT(60) DEF CallRec
  <2>4. Resumed(s, cs) \in [Call -> CallRec]
    BY <2>1, <2>3
  <2>5. ASSUME NEW d \in Call
        PROVE  \E v \in BOOLEAN :
                  (v => cs[d].held) /\ Resumed(s, cs)[d] = [cs[d] EXCEPT !.held = v]
    <3>1. CASE d = e
      BY <3>1, <2>1, <2>2
    <3>2. CASE d # e
      BY <3>2, <2>1, <1>0
    <3>. QED BY <3>1, <3>2
  <2>. QED BY <2>4, <2>5
<1>. QED BY <1>1, <1>2

\* The bookkeeping of the notifiers keeps their types.
LEMMA NotifierAfterType ==
  ASSUME notif \in [Notifier -> NotifRec], NEW cs, NEW done
  PROVE  NotifierAfter(cs, done) \in [Notifier -> NotifRec]
  BY DEF NotifierAfter, NotifRec, IdleNotif, None
-----------------------------------------------------------------------------
(***************************************************************************)
(* The inductive invariant.                                                *)
(***************************************************************************)

\* What is true of the record of any one call.
RecordOK(r) ==
    /\ r.tmr => r.st = "INCOMING" /\ LocalTimeout
    /\ r.mnat => UseMnat
    /\ r.st = "FREE" =>
          /\ r.sess = "null" /\ ~r.mnat /\ ~r.sub /\ ~r.media /\ r.not = None
          /\ r.ev \in {None, "CLOSED"}
    /\ r.held => r.sess # "null"
    /\ r.mnat /\ r.st = "OUTGOING" => r.sess = "null"
    /\ r.st = "ESTABLISHED" <=> r.sess = "up"
    /\ r.st = "INCOMING" <=> r.sess \in {"uas", "answered"}
    /\ r.st # "FREE" /\ r.sess = "null" => UseMnat /\ r.st = "OUTGOING"
    /\ r.st # "FREE" => r.out \/ r.st \in {"INCOMING", "ESTABLISHED"}
    /\ r.st \in {"OUTGOING", "RINGING", "EARLY"} =>
          /\ r.media <=> r.ev = "PROGRESS"
          /\ r.out /\ r.ev \in {None, "RINGING", "PROGRESS"}
    /\ r.st = "INCOMING" =>
          ~r.out /\ r.ev \in {None, "INCOMING"} /\ (r.mnat => r.ev = None)

\* What is true of all the calls together.
GoodCalls(cs) ==
    /\ cs \in [Call -> CallRec]
    /\ \A c \in Call : RecordOK(cs[c])
    /\ \A c, d \in Call :
          cs[c].st # "FREE" /\ cs[d].st # "FREE" /\ cs[c].line = cs[d].line => c = d

IInv ==
    /\ GoodCalls(call)
    /\ calls \in Seq(Call)
    /\ notif \in [Notifier -> NotifRec]
    /\ stale \in BOOLEAN

\* One call takes a new record: its line must be its old one, or not be in use.
LEMMA GoodUpdate ==
  ASSUME NEW cs, GoodCalls(cs), NEW c \in Call, NEW r \in CallRec, RecordOK(r),
         \/ r.st = "FREE"
         \/ cs[c].st # "FREE" /\ r.line = cs[c].line
         \/ \A d \in Call : cs[d].st # "FREE" => cs[d].line # r.line
  PROVE  GoodCalls([cs EXCEPT ![c] = r])
  BY DEF GoodCalls

\* resume_call keeps all of it.
LEMMA GoodResumed ==
  ASSUME NEW cs, GoodCalls(cs), NEW s \in Seq(Call)
  PROVE  GoodCalls(Resumed(s, cs))
<1>. DEFINE R == Resumed(s, cs)
<1>1. cs \in [Call -> CallRec]
  BY DEF GoodCalls
<1>2. R \in [Call -> CallRec]
      /\ \A d \in Call : \E b \in BOOLEAN : (b => cs[d].held) /\ R[d] = [cs[d] EXCEPT !.held = b]
  BY <1>1, ResumedRecord
<1>3. ASSUME NEW d \in Call
      PROVE  /\ R[d].st = cs[d].st /\ R[d].line = cs[d].line /\ R[d].tmr = cs[d].tmr
             /\ R[d].sess = cs[d].sess /\ R[d].out = cs[d].out /\ R[d].mnat = cs[d].mnat
             /\ R[d].sub = cs[d].sub /\ R[d].media = cs[d].media /\ R[d].ev = cs[d].ev
             /\ R[d].not = cs[d].not /\ (R[d].held => cs[d].held)
  <2>1. PICK b \in BOOLEAN : (b => cs[d].held) /\ R[d] = [cs[d] EXCEPT !.held = b]
    BY <1>2
  <2>2. cs[d] \in CallRec
    BY <1>1
  <2>. HIDE DEF R
  <2>. QED BY <2>1, <2>2 DEF CallRec
<1>. HIDE DEF R
<1>4. \A d \in Call : RecordOK(R[d])
  BY <1>3 DEF GoodCalls, RecordOK
<1>5. GoodCalls(R)
  BY <1>2, <1>3, <1>4 DEF GoodCalls
<1>. QED BY <1>5 DEF R

\* A released record is consistent.
LEMMA FreedOK == \A e \in {None, "CLOSED"} : RecordOK(Freed(e)) /\ Freed(e).st = "FREE"
  BY DEF Freed, RecordOK

\* Closing a call keeps the invariant, whatever the reason and whatever is
\* reported to the transferor.
LEMMA CloseInv ==
  ASSUME IInv, NEW c \in Call, NEW done, CloseCall(c, done), stale' \in BOOLEAN
  PROVE  IInv'
<1>1. "CLOSED" \in Event
  BY DEF Event
<1>2. GoodCalls([call EXCEPT ![c] = Freed("CLOSED")])
  BY <1>1, GoodUpdate, FreedType, FreedOK DEF IInv
<1>3. Unlink(calls, c) \in Seq(Call)
  BY UnlinkType DEF IInv
<1>4. GoodCalls(call') /\ calls' \in Seq(Call)
  BY <1>2, <1>3, GoodResumed DEF CloseCall
<1>5. notif' \in [Notifier -> NotifRec]
  BY NotifierAfterType DEF CloseCall, IInv
<1>. QED BY <1>4, <1>5 DEF IInv

\* A handler that changes one call and keeps its line keeps the invariant.
LEMMA SetInv ==
  ASSUME IInv, NEW c \in Call, NEW r \in CallRec, RecordOK(r), call[c].st # "FREE",
         r.line = call[c].line, SetCall(c, r)
  PROVE  IInv'
  BY GoodUpdate DEF IInv, SetCall

\* A new call may take any consistent record on the line assign_linenum finds.
LEMMA GoodAlloc ==
  ASSUME IInv, NEW c \in Call, CanAlloc(c), NEW r \in CallRec, RecordOK(r),
         r.line = AssignLine
  PROVE  GoodCalls([call EXCEPT ![c] = r])
<1>1. \A d \in Call : call[d].st # "FREE" => call[d].line # AssignLine
  BY AssignLineFree DEF CanAlloc, FreeLines, Live
<1>. QED BY <1>1, GoodUpdate DEF IInv

\* The record of a call that has just been allocated.
LEMMA AllocatedOK ==
  ASSUME FreeLines # {}, NEW n \in Notifier \cup {None},
         NEW st \in {"OUTGOING", "INCOMING"}, NEW sess \in {"null", "uac", "uas"},
         st = "INCOMING" <=> sess = "uas",
         st = "OUTGOING" => (sess = "null" <=> UseMnat)
  PROVE  /\ Allocated(st, sess, n) \in CallRec
         /\ RecordOK(Allocated(st, sess, n))
         /\ Allocated(st, sess, n).line = AssignLine
         /\ Allocated(st, sess, n).st = st
         /\ Allocated(st, sess, n).sess = sess
         /\ Allocated(st, sess, n).tmr = FALSE
         /\ Allocated(st, sess, n).mnat = UseMnat
         /\ Allocated(st, sess, n).ev = None
         /\ Allocated(st, sess, n).out = (st = "OUTGOING")
<1>1. AssignLine \in 0..LineMax
  BY AssignLineFree, LinesAssumption DEF FreeLines
<1>2. UseMnat \in BOOLEAN
  BY ConfigAssumption
<1>. QED BY <1>1, <1>2 DEF Allocated, Freed, CallRec, RecordOK, State, Sess, Event, None

\* The same for call_connect.
LEMMA ConnectingOK ==
  ASSUME FreeLines # {}, NEW n \in Notifier \cup {None}
  PROVE  /\ Connecting(n) \in CallRec
         /\ RecordOK(Connecting(n))
         /\ Connecting(n).line = AssignLine
         /\ Connecting(n).st # "FREE"
<1>1. CASE UseMnat
  BY <1>1, AllocatedOK, Zenon DEF Connecting
<1>2. CASE ~UseMnat
  BY <1>2, AllocatedOK, Zenon DEF Connecting
<1>. QED BY <1>1, <1>2

\* call_progress keeps a record consistent, whatever comes of it.
LEMMA ProgressedOK ==
  ASSUME NEW r \in CallRec, RecordOK(r), NEW x \in Progressed(r)
  PROVE  x \in CallRec /\ RecordOK(x) /\ x.st = r.st /\ x.line = r.line /\ x.not = r.not
         /\ x.ev = r.ev /\ x.out = r.out
<1>1. PICK ok \in {FALSE, r.sess = "uas"} : x = [r EXCEPT !.tmr = FALSE, !.media = @ \/ ok]
  BY DEF Progressed
<1>2. x \in CallRec
  BY <1>1 DEF CallRec
<1>3. /\ x.st = r.st /\ x.line = r.line /\ x.sess = r.sess /\ x.out = r.out /\ x.sub = r.sub
      /\ x.mnat = r.mnat /\ x.ev = r.ev /\ x.tmr = FALSE /\ x.not = r.not /\ x.held = r.held
  BY <1>1 DEF CallRec
<1>4. r.st # "INCOMING" => (x.media <=> r.media)
  BY <1>1 DEF CallRec, RecordOK
<1>. QED BY <1>2, <1>3, <1>4 DEF RecordOK

\* So does call_answer on an incoming call.
LEMMA AnsweredOK ==
  ASSUME NEW r \in CallRec, RecordOK(r), r.st = "INCOMING", NEW x \in Answered(r)
  PROVE  x \in CallRec /\ RecordOK(x) /\ x.st = r.st /\ x.line = r.line /\ x.not = r.not
         /\ x.ev = r.ev /\ x.out = r.out
<1>. DEFINE updated == {[r EXCEPT !.media = @ \/ offer] : offer \in BOOLEAN}
<1>1. \A u \in updated : u \in CallRec /\ RecordOK(u) /\ u.st = r.st /\ u.line = r.line
                     /\ u.not = r.not /\ u.ev = r.ev /\ u.out = r.out
  BY DEF CallRec, RecordOK
<1>2. x \in updated \/ \E u \in updated : x = [u EXCEPT !.sess = "answered"]
  BY DEF Answered
<1>. HIDE DEF updated
<1>. QED BY <1>1, <1>2 DEF CallRec, RecordOK, Sess

\* And so does the announcement of an incoming call, in every answer mode.
LEMMA AnnouncedOK ==
  ASSUME NEW r \in CallRec, RecordOK(r), r.st = "INCOMING", ~r.mnat, NEW x \in Announced(r)
  PROVE  x \in CallRec /\ RecordOK(x) /\ x.st = r.st /\ x.line = r.line /\ x.not = r.not
         /\ x.ev \in {r.ev, "INCOMING"} /\ x.out = r.out
<1>1. CASE AnswerMode = "EARLY"
  BY <1>1, ProgressedOK DEF Announced
<1>2. CASE AnswerMode = "AUTO"
  BY <1>2, AnsweredOK DEF Announced
<1>3. CASE AnswerMode = "MANUAL"
  <2>1. x = [r EXCEPT !.ev = "INCOMING"]
    BY <1>3 DEF Announced
  <2>. QED BY <2>1 DEF CallRec, RecordOK, Event
<1>. QED BY <1>1, <1>2, <1>3, ConfigAssumption
-----------------------------------------------------------------------------
(***************************************************************************)
(* The steps.                                                              *)
(***************************************************************************)

\* The invariant holds at the start.
LEMMA InitInv == Init => IInv
<1>. SUFFICES ASSUME Init PROVE IInv
  OBVIOUS
<1>1. None \in Event
  BY DEF Event
<1>2. GoodCalls(call)
  BY <1>1, FreedType, FreedOK DEF Init, GoodCalls
<1>3. notif \in [Notifier -> NotifRec]
  BY DEF Init, NotifRec, IdleNotif
<1>4. calls \in Seq(Call)
  BY DEF Init
<1>5. stale \in BOOLEAN
  BY DEF Init
<1>. QED BY <1>2, <1>3, <1>4, <1>5 DEF IInv

\* Setting the hold flag of any one call keeps the invariant's part on calls.
LEMMA GoodHold ==
  ASSUME NEW cs, GoodCalls(cs), NEW p \in Call, NEW b \in BOOLEAN, b => cs[p].sess # "null"
  PROVE  GoodCalls([cs EXCEPT ![p].held = b])
<1>. DEFINE r == [cs[p] EXCEPT !.held = b]
<1>1. cs[p] \in CallRec /\ RecordOK(cs[p]) /\ cs \in [Call -> CallRec]
  BY DEF GoodCalls
<1>2. r \in CallRec /\ RecordOK(r) /\ r.line = cs[p].line /\ r.st = cs[p].st
  BY <1>1 DEF CallRec, RecordOK
<1>3. [cs EXCEPT ![p].held = b] = [cs EXCEPT ![p] = r]
  BY <1>1
<1>. HIDE DEF r
<1>. QED BY <1>2, <1>3, GoodUpdate

\* ua_hold_answer, which may change two calls.
LEMMA HoldAnswerInv ==
  ASSUME IInv, NEW c \in Call, HoldAnswer(c)
  PROVE  IInv'
<1>. SUFFICES GoodCalls(call')
  BY DEF HoldAnswer, IInv
<1>1. Len(calls) > 1 => GoodCalls(WithHold(PrevCall))
  <2>. SUFFICES ASSUME Len(calls) > 1 PROVE GoodCalls(WithHold(PrevCall))
    OBVIOUS
  <2>. DEFINE p == PrevCall
              b == call[p].held \/ call[p].sess # "null"
  <2>1. p \in Call
    BY DEF PrevCall, IInv
  <2>2. b \in BOOLEAN
    BY <2>1 DEF IInv, GoodCalls, CallRec
  <2>3. WithHold(p) = [call EXCEPT ![p].held = b]
    BY DEF WithHold
  <2>4. GoodCalls(call)
    BY DEF IInv
  <2>6. b => call[p].sess # "null"
    BY <2>1, <2>4 DEF GoodCalls, RecordOK
  <2>. HIDE DEF p, b
  <2>5. GoodCalls([call EXCEPT ![p].held = b])
    BY <2>1, <2>2, <2>4, <2>6, GoodHold, Zenon
  <2>. QED BY <2>3, <2>5, Zenon DEF p
<1>2. CASE Len(calls) > 1 /\ call' = WithHold(PrevCall)
  BY <1>1, <1>2
<1>3. CASE LET cs == IF Len(calls) > 1 THEN WithHold(PrevCall) ELSE call
           IN  \E r \in IF cs[c].st = "INCOMING" THEN Answered(cs[c]) ELSE {cs[c]} :
                   call' = [cs EXCEPT ![c] = r]
  <2>. DEFINE cs == IF Len(calls) > 1 THEN WithHold(PrevCall) ELSE call
  <2>1. GoodCalls(cs)
    BY <1>1 DEF IInv
  <2>2. PICK r \in IF cs[c].st = "INCOMING" THEN Answered(cs[c]) ELSE {cs[c]} :
               call' = [cs EXCEPT ![c] = r]
    BY <1>3
  <2>. HIDE DEF cs
  <2>3. cs[c] \in CallRec /\ RecordOK(cs[c])
    BY <2>1 DEF GoodCalls
  <2>4. r \in CallRec /\ RecordOK(r) /\ r.st = cs[c].st /\ r.line = cs[c].line
    BY <2>2, <2>3, AnsweredOK
  <2>. QED BY <2>1, <2>2, <2>4, GoodUpdate
<1>. QED BY <1>2, <1>3 DEF HoldAnswer

\* The commands of the user.
LEMMA UserInv ==
  ASSUME IInv, NEW c \in Call, UserNext(c)
  PROVE  IInv'
<1>0. /\ call[c] \in CallRec /\ RecordOK(call[c])
      /\ call \in [Call -> CallRec] /\ GoodCalls(call) /\ calls \in Seq(Call)
  BY DEF IInv, GoodCalls
<1>1. CASE Dial(c)
  <2>1. GoodCalls(call')
    BY <1>1, ConnectingOK, GoodAlloc DEF Dial, CanAlloc
  <2>2. calls' \in Seq(Call)
    BY <1>0, <1>1 DEF Dial
  <2>. QED BY <1>1, <2>1, <2>2 DEF Dial, IInv
<1>2. CASE Answer(c)
  BY <1>0, <1>2, AnsweredOK, SetInv DEF Answer
<1>3. CASE Progress(c)
  BY <1>0, <1>3, ProgressedOK, SetInv DEF Progress, Live
<1>4. CASE Hangup(c)
  <2>1. stale' \in BOOLEAN
    BY <1>4 DEF Hangup, IInv
  <2>. QED BY <1>4, <2>1, CloseInv DEF Hangup
<1>5. ASSUME NEW hold \in BOOLEAN, Hold(c, hold) PROVE IInv'
  <2>. DEFINE r == [call[c] EXCEPT !.held = hold]
  <2>1. r \in CallRec /\ RecordOK(r) /\ r.line = call[c].line
    BY <1>0, <1>5 DEF Hold, CallRec, RecordOK
  <2>2. call[c].st # "FREE"
    BY <1>0, <1>5 DEF Hold, RecordOK
  <2>3. SetCall(c, r)
    BY <1>5 DEF Hold
  <2>. HIDE DEF r
  <2>. QED BY <2>1, <2>2, <2>3, SetInv
<1>6. CASE HoldAnswer(c)
  BY <1>6, HoldAnswerInv
<1>7. CASE SetCurrent(c)
  <2>1. calls' \in Seq(Call)
    BY <1>0, <1>7, UnlinkType DEF SetCurrent
  <2>. QED BY <1>7, <2>1 DEF SetCurrent, IInv
<1>8. CASE Transfer(c)
  <2>1. PICK ok \in BOOLEAN : SetCall(c, [call[c] EXCEPT !.sub = ok])
    BY <1>8 DEF Transfer
  <2>. DEFINE r == [call[c] EXCEPT !.sub = ok]
  <2>2. call[c].st # "FREE"
    BY <1>8 DEF Transfer, Live
  <2>3. r \in CallRec /\ RecordOK(r) /\ r.line = call[c].line
    BY <1>0, <2>2 DEF CallRec, RecordOK
  <2>. HIDE DEF r
  <2>. QED BY <2>1, <2>2, <2>3, SetInv DEF r
<1>. QED BY <1>1, <1>2, <1>3, <1>4, <1>5, <1>6, <1>7, <1>8 DEF UserNext

\* Telling of the end of a call that was never announced changes no other field.
LEMMA GoodEvent ==
  ASSUME IInv, NEW c \in Call, call[c].st = "FREE"
  PROVE  GoodCalls([call EXCEPT ![c].ev = "CLOSED"])
<1>. DEFINE r == [call[c] EXCEPT !.ev = "CLOSED"]
<1>1. call[c] \in CallRec /\ RecordOK(call[c]) /\ call \in [Call -> CallRec]
  BY DEF IInv, GoodCalls
<1>2. r \in CallRec /\ RecordOK(r) /\ r.line = call[c].line /\ r.st = call[c].st
  BY <1>1 DEF CallRec, RecordOK, Event
<1>3. [call EXCEPT ![c].ev = "CLOSED"] = [call EXCEPT ![c] = r]
  BY <1>1
<1>4. GoodCalls(call)
  BY DEF IInv
<1>. HIDE DEF r
<1>. QED BY <1>2, <1>3, <1>4, GoodUpdate

\* Dropping the notifier of a call disturbs nothing.
LEMMA GoodNotDropped ==
  ASSUME IInv, NEW c \in Call
  PROVE  GoodCalls([call EXCEPT ![c].not = None])
<1>. DEFINE r == [call[c] EXCEPT !.not = None]
<1>1. call[c] \in CallRec /\ RecordOK(call[c]) /\ call \in [Call -> CallRec]
  BY DEF IInv, GoodCalls
<1>2. r \in CallRec /\ RecordOK(r) /\ r.line = call[c].line /\ r.st = call[c].st
  BY <1>1 DEF CallRec, RecordOK
<1>3. [call EXCEPT ![c].not = None] = [call EXCEPT ![c] = r]
  BY <1>1
<1>4. GoodCalls(call)
  BY DEF IInv
<1>. HIDE DEF r
<1>. QED BY <1>2, <1>3, <1>4, GoodUpdate

\* An incoming INVITE, whether or not its call is announced at once.
LEMMA IncomingInv ==
  ASSUME IInv, NEW c \in Call, IncomingAccepted(c)
  PROVE  IInv'
<1>. DEFINE a == Allocated("INCOMING", "uas", None)
            r == [a EXCEPT !.tmr = LocalTimeout]
<1>1. /\ a \in CallRec /\ RecordOK(a) /\ a.line = AssignLine /\ a.st = "INCOMING"
      /\ a.mnat = UseMnat
  BY AllocatedOK DEF IncomingAccepted, Acceptable, CanAlloc
<1>2. LocalTimeout \in BOOLEAN
  BY ConfigAssumption
<1>3. PICK x \in IF UseMnat THEN {r} ELSE Announced(r) : call' = [call EXCEPT ![c] = x]
  BY DEF IncomingAccepted
<1>. HIDE DEF a
<1>4. /\ r \in CallRec /\ RecordOK(r) /\ r.line = AssignLine /\ r.st = "INCOMING"
      /\ r.mnat = UseMnat
  BY <1>1, <1>2 DEF CallRec, RecordOK
<1>. HIDE DEF r
<1>5. x \in CallRec /\ RecordOK(x) /\ x.line = AssignLine
  BY <1>3, <1>4, AnnouncedOK
<1>6. GoodCalls(call')
  BY <1>3, <1>5, GoodAlloc DEF IncomingAccepted, Acceptable
<1>7. calls' \in Seq(Call)
  BY DEF IncomingAccepted, IInv
<1>. QED BY <1>6, <1>7 DEF IncomingAccepted, IInv

\* The media NAT has finished.
LEMMA MnatDoneInv ==
  ASSUME IInv, NEW c \in Call, MnatDone(c)
  PROVE  IInv'
<1>. DEFINE r == [call[c] EXCEPT !.mnat = FALSE]
<1>1. call[c] \in CallRec /\ RecordOK(call[c]) /\ call[c].mnat
  BY DEF IInv, GoodCalls, MnatDone
<1>2. r \in CallRec /\ RecordOK(r) /\ r.line = call[c].line /\ r.st = call[c].st /\ ~r.mnat
  BY <1>1 DEF CallRec, RecordOK
<1>3. ASSUME r.st = "OUTGOING", NEW s \in {"null", "uac"}, SetCall(c, [r EXCEPT !.sess = s])
      PROVE  IInv'
  <2>. DEFINE x == [r EXCEPT !.sess = s]
  <2>1. r.tmr = call[c].tmr /\ r.out = call[c].out /\ UseMnat /\ ~r.held
    BY <1>1, <1>3 DEF RecordOK, CallRec
  <2>2. x \in CallRec /\ RecordOK(x) /\ x.line = call[c].line /\ call[c].st # "FREE"
    <3>. HIDE DEF r
    <3>. QED BY <1>2, <1>3, <2>1 DEF CallRec, RecordOK, Sess
  <2>3. SetCall(c, x)
    BY <1>3
  <2>. HIDE DEF x
  <2>. QED BY <2>2, <2>3, SetInv
<1>4. ASSUME r.st = "INCOMING", NEW x \in Announced(r), SetCall(c, x)
      PROVE  IInv'
  <2>. HIDE DEF r
  <2>1. x \in CallRec /\ RecordOK(x) /\ x.line = call[c].line
    BY <1>2, <1>4, AnnouncedOK
  <2>. QED BY <1>2, <1>4, <2>1, SetInv
<1>5. ASSUME r.st \notin {"OUTGOING", "INCOMING"}, SetCall(c, r)
      PROVE  IInv'
  <2>1. call[c].st # "FREE"
    BY <1>1 DEF RecordOK
  <2>. HIDE DEF r
  <2>. QED BY <1>2, <1>5, <2>1, SetInv
<1>. HIDE DEF r
<1>. QED BY <1>3, <1>4, <1>5 DEF MnatDone, r

\* A REFER that is accepted changes the call and allocates the one to the target.
LEMMA ReferInv ==
  ASSUME IInv, NEW c \in Call, NEW c2 \in Call, NEW n \in Notifier, Refer(c, c2, n)
  PROVE  IInv'
<1>. DEFINE cs == [call EXCEPT ![c2] = Connecting(n)]
            r == [cs[c] EXCEPT !.not = n]
<1>0. call \in [Call -> CallRec]
  BY DEF IInv, GoodCalls
<1>1. c # c2
  BY DEF Refer, CanAlloc, IInv, GoodCalls, RecordOK
<1>2. GoodCalls(cs)
  BY ConnectingOK, GoodAlloc DEF Refer, CanAlloc
<1>3. call' = [cs EXCEPT ![c] = r]
  BY <1>0, <1>1 DEF Refer
<1>9. cs[c].sess = "up"
  BY <1>0, <1>1 DEF Refer
<1>. HIDE DEF cs
<1>4. cs[c] \in CallRec /\ RecordOK(cs[c]) /\ cs \in [Call -> CallRec]
  BY <1>2 DEF GoodCalls
<1>5. r \in CallRec /\ RecordOK(r) /\ r.line = cs[c].line /\ r.st = cs[c].st
  BY <1>4, <1>9 DEF CallRec, RecordOK
<1>6. GoodCalls(call')
  <2>. HIDE DEF r
  <2>. QED BY <1>2, <1>3, <1>5, GoodUpdate
<1>7. calls' \in Seq(Call)
  BY DEF Refer, IInv
<1>8. notif' \in [Notifier -> NotifRec]
  <2>1. NotifierAfter(call', {}) \in [Notifier -> NotifRec]
    BY NotifierAfterType DEF IInv
  <2>2. [st |-> "active", owner |-> c] \in NotifRec
    BY DEF NotifRec
  <2>. QED BY <2>1, <2>2 DEF Refer
<1>. QED BY <1>6, <1>7, <1>8 DEF Refer, IInv

\* The callbacks of the SIP session and of the REFER subscriptions.
LEMMA SessionInv ==
  ASSUME IInv, NEW c \in Call, SessionNext(c)
  PROVE  IInv'
<1>0. /\ call[c] \in CallRec /\ RecordOK(call[c])
      /\ call \in [Call -> CallRec] /\ GoodCalls(call) /\ calls \in Seq(Call)
      /\ stale \in BOOLEAN
  BY DEF IInv, GoodCalls
<1>1. CASE IncomingRefused(c)
  <2>1. GoodCalls(call')
    BY <1>0, <1>1, GoodEvent, GoodResumed DEF IncomingRefused, Acceptable, CanAlloc
  <2>. QED BY <1>1, <2>1 DEF IncomingRefused, IInv
<1>2. CASE IncomingBlocked(c)
  BY <1>2, GoodEvent DEF IncomingBlocked, Acceptable, CanAlloc, IInv
<1>3. CASE IncomingAccepted(c)
  BY <1>3, IncomingInv
<1>4. CASE MnatFail(c)
  BY <1>0, <1>4, CloseInv DEF MnatFail
<1>5. CASE MnatDone(c)
  BY <1>5, MnatDoneInv
<1>6. CASE MnatBlocked(c)
  <2>1. GoodCalls(call')
    BY <1>0, <1>6, GoodUpdate, FreedType, FreedOK DEF MnatBlocked, Event
  <2>2. calls' \in Seq(Call)
    BY <1>0, <1>6, UnlinkType DEF MnatBlocked
  <2>3. notif' \in [Notifier -> NotifRec]
    BY <1>6, NotifierAfterType DEF MnatBlocked, IInv
  <2>. QED BY <1>0, <1>6, <2>1, <2>2, <2>3 DEF MnatBlocked, IInv
<1>7. ASSUME NEW st \in State, NEW media \in BOOLEAN, Progr(c, st, media) PROVE IInv'
  <2>. DEFINE r == [call[c] EXCEPT !.st = st, !.tmr = FALSE, !.media = media,
                       !.ev = IF media THEN "PROGRESS" ELSE "RINGING"]
  <2>1. call[c].sess = "uac" /\ st \in {"RINGING", "EARLY", call[c].st} /\ SetCall(c, r)
    BY <1>7 DEF Progr
  <2>2. call[c].st \notin {"FREE", "ESTABLISHED", "INCOMING"} /\ call[c].out
    BY <1>0, <2>1 DEF RecordOK
  <2>3. r \in CallRec /\ RecordOK(r) /\ r.line = call[c].line
    BY <1>0, <2>1, <2>2 DEF CallRec, RecordOK, Event
  <2>. HIDE DEF r
  <2>. QED BY <2>1, <2>2, <2>3, SetInv
<1>8. ASSUME NEW media \in BOOLEAN, ProgrHangup(c, media) PROVE IInv'
  BY <1>8, CloseInv DEF ProgrHangup
<1>9. CASE Estab(c)
  <2>. DEFINE r == [call[c] EXCEPT !.st = "ESTABLISHED", !.sess = "up",
                   !.tmr = FALSE, !.media = TRUE, !.not = None, !.ev = "ESTABLISHED"]
  <2>1. r \in CallRec /\ RecordOK(r) /\ r.line = call[c].line
    BY <1>0 DEF CallRec, RecordOK, State, Sess, Event
  <2>2. call[c].st # "FREE"
    BY <1>0, <1>9 DEF Estab, RecordOK
  <2>3. call' = [call EXCEPT ![c] = r] /\ notif' = NotifierAfter(call', {call[c].not})
        /\ UNCHANGED <<calls, stale>>
    BY <1>9 DEF Estab
  <2>4. notif' \in [Notifier -> NotifRec]
    BY <2>3, NotifierAfterType DEF IInv
  <2>. HIDE DEF r
  <2>. QED BY <1>0, <2>1, <2>2, <2>3, <2>4, GoodUpdate DEF IInv
<1>10. CASE SessClose(c)
  BY <1>0, <1>10, CloseInv DEF SessClose
<1>11. ASSUME NEW c2 \in Call, NEW n \in Notifier, Refer(c, c2, n) PROVE IInv'
  BY <1>11, ReferInv
<1>12. CASE ReferFails(c)
  <2>1. GoodCalls(call')
    BY <1>12, GoodNotDropped DEF ReferFails
  <2>2. notif' \in [Notifier -> NotifRec]
    BY <1>12, NotifierAfterType DEF ReferFails, IInv
  <2>. QED BY <1>0, <1>12, <2>1, <2>2 DEF ReferFails, IInv
<1>13. CASE SubNotify(c)
  BY <1>0, <1>13, CloseInv DEF SubNotify
<1>14. CASE SubClose(c)
  <2>. DEFINE r == [call[c] EXCEPT !.sub = FALSE]
  <2>1. r \in CallRec /\ RecordOK(r) /\ r.line = call[c].line
    BY <1>0 DEF CallRec, RecordOK
  <2>2. call[c].st # "FREE" /\ SetCall(c, r)
    BY <1>0, <1>14 DEF SubClose, RecordOK
  <2>. HIDE DEF r
  <2>. QED BY <2>1, <2>2, SetInv
<1>. QED BY <1>1, <1>2, <1>3, <1>4, <1>5, <1>6, <1>7, <1>8, <1>9, <1>10, <1>11, <1>12,
            <1>13, <1>14 DEF SessionNext

\* The timers and the errors of the media streams.
LEMMA TimerInv ==
  ASSUME IInv, NEW c \in Call, TimerNext(c)
  PROVE  IInv'
<1>0. stale \in BOOLEAN
  BY DEF IInv
<1>1. CASE InviteTimeout(c)
  BY <1>0, <1>1, CloseInv DEF InviteTimeout
<1>2. CASE RtpTimedOut(c)
  BY <1>0, <1>2, CloseInv DEF RtpTimedOut
<1>3. CASE MediaError(c)
  BY <1>0, <1>3, CloseInv DEF MediaError
<1>. QED BY <1>1, <1>2, <1>3 DEF TimerNext

\* The end of a REFER subscription of the peer.
LEMMA NotCloseInv ==
  ASSUME IInv, NEW n \in Notifier, NotClose(n)
  PROVE  IInv'
<1>1. CASE notif[n].owner = None
  <2>1. stale' = TRUE /\ UNCHANGED <<calls, call, notif>>
    BY <1>1 DEF NotClose
  <2>. QED BY <2>1 DEF IInv
<1>2. CASE notif[n].owner # None
  <2>1. notif[n].owner \in Call
    BY <1>2 DEF IInv, NotifRec
  <2>2. call' = [call EXCEPT ![notif[n].owner].not = None]
        /\ notif' = NotifierAfter(call', {n}) /\ UNCHANGED <<calls, stale>>
    BY <1>2 DEF NotClose
  <2>3. GoodCalls(call')
    BY <2>1, <2>2, GoodNotDropped
  <2>4. notif' \in [Notifier -> NotifRec]
    BY <2>2, NotifierAfterType DEF IInv
  <2>. QED BY <2>2, <2>3, <2>4 DEF IInv
<1>. QED BY <1>1, <1>2

\* Every step keeps the invariant.
LEMMA NextInv == IInv /\ [Next]_vars => IInv'
<1>. SUFFICES ASSUME IInv, [Next]_vars PROVE IInv'
  OBVIOUS
<1>1. ASSUME NEW c \in Call, UserNext(c) \/ SessionNext(c) \/ TimerNext(c) PROVE IInv'
  BY <1>1, UserInv, SessionInv, TimerInv
<1>2. ASSUME NEW n \in Notifier, NotClose(n) PROVE IInv'
  BY <1>2, NotCloseInv
<1>3. CASE UNCHANGED vars
  BY <1>3 DEF vars, IInv
<1>. QED BY <1>1, <1>2, <1>3 DEF Next
-----------------------------------------------------------------------------
(***************************************************************************)
(* The theorems.                                                           *)
(***************************************************************************)

\* The inductive invariant holds in every behaviour.
THEOREM Invariant == Spec => []IInv
  BY InitInv, NextInv, PTL DEF Spec

\* The call list, the call objects and the notifiers always have their types.
THEOREM TypeCorrect == Spec => []TypeOK
<1>1. IInv => TypeOK
  BY DEF IInv, GoodCalls, TypeOK
<1>. QED BY <1>1, Invariant, PTL

\* However many calls come and go in whatever order, two calls that exist
\* together never share a line number (assign_linenum).
THEOREM LinesAreDistinct == Spec => []LinesDistinct
<1>1. IInv => LinesDistinct
  BY DEF IInv, GoodCalls, LinesDistinct, Live
<1>. QED BY <1>1, Invariant, PTL

\* "Local timeout" can close only an incoming call that is not established.
THEOREM TimerIsForIncoming == Spec => []TimerOnlyIncoming
<1>1. IInv => TimerOnlyIncoming
  BY DEF IInv, GoodCalls, RecordOK, TimerOnlyIncoming
<1>. QED BY <1>1, Invariant, PTL

\* The state of a call agrees with its SIP session, in every configuration.
THEOREM StateAgreesWithSession == Spec => []StateMatchesSession
<1>1. IInv => StateMatchesSession
  BY DEF IInv, GoodCalls, RecordOK, StateMatchesSession, Live
<1>. QED BY <1>1, Invariant, PTL

\* Before an outgoing call is answered its audio runs exactly if the last event said so.
THEOREM EarlyMediaIsTold == Spec => []EarlyMediaMatchesTone
<1>1. IInv => EarlyMediaMatchesTone
  BY DEF IInv, GoodCalls, RecordOK, EarlyMediaMatchesTone
<1>. QED BY <1>1, Invariant, PTL
-----------------------------------------------------------------------------
(***************************************************************************)
(* The call list and the notifiers. What a step does to them is one of a   *)
(* few kinds: the same calls remain, one is added at the tail, one is      *)
(* taken out, one moves to the tail; and notifiers are kept or dropped, or *)
(* one is handed out for a transfer.                                       *)
(***************************************************************************)

\* The list s holds each object of cs that is not free exactly once.
ListOK(s, cs) ==
    /\ s \in Seq(Call)
    /\ \A i \in 1..Len(s) : cs[s[i]].st # "FREE"
    /\ \A c \in Call : cs[c].st # "FREE" => \E i \in 1..Len(s) : s[i] = c
    /\ \A i, j \in 1..Len(s) : s[i] = s[j] => i = j

\* Objects other than those in D are free in ds exactly if they are in cs.
SameLive(cs, ds, D) == \A d \in Call \ D : cs[d].st = "FREE" <=> ds[d].st = "FREE"

\* list_unlink takes out the one place of the call and keeps the order of the others.
LEMMA UnlinkElements ==
  ASSUME NEW s \in Seq(Call), NEW k \in 1..Len(s),
         \A i, j \in 1..Len(s) : s[i] = s[j] => i = j
  PROVE  /\ Unlink(s, s[k]) \in Seq(Call)
         /\ Len(Unlink(s, s[k])) = Len(s) - 1
         /\ \A j \in 1..Len(s) - 1 : Unlink(s, s[k])[j] = IF j < k THEN s[j] ELSE s[j + 1]
<1>. DEFINE a == SubSeq(s, 1, k - 1)
            b == SubSeq(s, k + 1, Len(s))
<1>1. Len(s) \in Nat /\ DOMAIN s = 1..Len(s)
  OBVIOUS
<1>2. (CHOOSE j \in DOMAIN s : s[j] = s[k]) = k
  BY <1>1, Zenon
<1>3. Unlink(s, s[k]) = a \o b
  BY <1>1, <1>2, Zenon DEF Unlink
<1>4. a \in Seq(Call) /\ Len(a) = k - 1 /\ \A j \in 1..k - 1 : a[j] = s[j]
  <2>1. \A j \in 1..k - 1 : s[j] \in Call
    BY <1>1
  <2>. QED BY <1>1, <2>1, SubSeqProperties
<1>5. b \in Seq(Call) /\ Len(b) = Len(s) - k /\ \A j \in 1..Len(s) - k : b[j] = s[k + j]
  <2>1. \A j \in k + 1..Len(s) : s[j] \in Call
    BY <1>1
  <2>2. \A j \in 1..Len(s) - (k + 1) + 1 : b[j] = s[(k + 1) + j - 1]
    BY <1>1, <2>1, SubSeqProperties
  <2>3. b \in Seq(Call) /\ Len(b) = IF k + 1 <= Len(s) THEN Len(s) - (k + 1) + 1 ELSE 0
    BY <1>1, <2>1, SubSeqProperties
  <2>. HIDE DEF b
  <2>4. Len(s) - (k + 1) + 1 = Len(s) - k /\ \A j \in 1..Len(s) - k : (k + 1) + j - 1 = k + j
    BY <1>1
  <2>5. \A j \in 1..Len(s) - k : b[j] = s[k + j]
    BY <2>2, <2>4
  <2>6. Len(b) = Len(s) - k
    <3>1. CASE k + 1 <= Len(s)
      BY <2>3, <2>4, <3>1
    <3>2. CASE ~(k + 1 <= Len(s))
      <4>1. \A m \in Nat : \A i \in 1..m : ~(i + 1 <= m) => m - i = 0
        OBVIOUS
      <4>2. Len(s) - k = 0
        BY <1>1, <3>2, <4>1
      <4>. QED BY <2>3, <3>2, <4>2
    <3>. QED BY <3>1, <3>2
  <2>. QED BY <2>3, <2>5, <2>6
<1>. HIDE DEF a, b
<1>6. /\ a \o b \in Seq(Call) /\ Len(a \o b) = Len(a) + Len(b)
      /\ \A i \in 1..Len(a) + Len(b) : (a \o b)[i] = IF i <= Len(a) THEN a[i] ELSE b[i - Len(a)]
  <2>1. a \in Seq(Call) /\ b \in Seq(Call)
    BY <1>4, <1>5
  <2>. QED BY <2>1, ConcatProperties
<1>7. ASSUME NEW j \in 1..Len(s) - 1 PROVE (a \o b)[j] = IF j < k THEN s[j] ELSE s[j + 1]
  <2>1. CASE j < k
    BY <1>1, <1>4, <1>5, <1>6, <2>1
  <2>2. CASE ~(j < k)
    <3>1. j - (k - 1) \in 1..Len(s) - k /\ k + (j - (k - 1)) = j + 1 /\ ~(j <= k - 1)
      BY <1>1, <2>2
    <3>2. (a \o b)[j] = b[j - (k - 1)]
      BY <1>1, <1>4, <1>5, <1>6, <3>1
    <3>3. b[j - (k - 1)] = s[k + (j - (k - 1))]
      BY <1>5, <3>1
    <3>. QED BY <2>2, <3>1, <3>2, <3>3
  <2>. QED BY <2>1, <2>2
<1>. QED BY <1>1, <1>3, <1>4, <1>5, <1>6, <1>7

\* A call that is released leaves the list (call_destructor).
LEMMA ListUnlink ==
  ASSUME NEW cs, NEW ds, NEW s, ListOK(s, cs), NEW c \in Call, cs[c].st # "FREE",
         ds[c].st = "FREE", SameLive(cs, ds, {c})
  PROVE  ListOK(Unlink(s, c), ds)
<1>1. PICK k \in 1..Len(s) : s[k] = c
  BY DEF ListOK
<1>. DEFINE t == Unlink(s, c)
<1>2. /\ t \in Seq(Call) /\ Len(t) = Len(s) - 1
      /\ \A j \in 1..Len(s) - 1 : t[j] = IF j < k THEN s[j] ELSE s[j + 1]
  BY <1>1, UnlinkElements DEF ListOK
<1>. HIDE DEF t
<1>3. s \in Seq(Call) /\ Len(s) \in Nat
  BY DEF ListOK
<1>4. \A j \in 1..Len(t) : \E i \in 1..Len(s) \ {k} : t[j] = s[i] /\ i = IF j < k THEN j ELSE j + 1
  BY <1>2, <1>3
<1>5. \A i \in 1..Len(s) \ {k} : \E j \in 1..Len(t) : t[j] = s[i]
  <2>. SUFFICES ASSUME NEW i \in 1..Len(s) \ {k} PROVE \E j \in 1..Len(t) : t[j] = s[i]
    OBVIOUS
  <2>1. CASE i < k
    BY <1>2, <1>3, <2>1
  <2>2. CASE i > k
    <3>1. i - 1 \in 1..Len(s) - 1 /\ ~(i - 1 < k) /\ (i - 1) + 1 = i
      BY <1>3, <2>2
    <3>. QED BY <1>2, <3>1
  <2>. QED BY <1>3, <2>1, <2>2
<1>6. \A i \in 1..Len(t) : ds[t[i]].st # "FREE"
  BY <1>1, <1>3, <1>4 DEF ListOK, SameLive
<1>7. \A d \in Call : ds[d].st # "FREE" => \E i \in 1..Len(t) : t[i] = d
  <2>. SUFFICES ASSUME NEW d \in Call, ds[d].st # "FREE" PROVE \E i \in 1..Len(t) : t[i] = d
    OBVIOUS
  <2>1. d # c /\ cs[d].st # "FREE"
    BY DEF SameLive
  <2>2. PICK i \in 1..Len(s) : s[i] = d
    BY <2>1 DEF ListOK
  <2>3. i \in 1..Len(s) \ {k}
    BY <1>1, <2>1, <2>2
  <2>. QED BY <1>5, <2>2, <2>3
<1>8. \A i, j \in 1..Len(t) : t[i] = t[j] => i = j
  BY <1>2, <1>3, <1>4 DEF ListOK
<1>. QED BY <1>2, <1>6, <1>7, <1>8 DEF ListOK, t

\* A new call goes to the tail (call_alloc).
LEMMA ListAppend ==
  ASSUME NEW cs, NEW ds, NEW s, ListOK(s, cs), NEW c \in Call, cs[c].st = "FREE",
         ds[c].st # "FREE", SameLive(cs, ds, {c})
  PROVE  ListOK(Append(s, c), ds)
<1>. DEFINE t == Append(s, c)
<1>1. s \in Seq(Call) /\ Len(s) \in Nat
  BY DEF ListOK
<1>2. /\ t \in Seq(Call) /\ Len(t) = Len(s) + 1 /\ t[Len(s) + 1] = c
      /\ \A i \in 1..Len(s) : t[i] = s[i] /\ s[i] # c
  BY <1>1, AppendProperties DEF ListOK
<1>. HIDE DEF t
<1>3. \A i \in 1..Len(t) : ds[t[i]].st # "FREE"
  BY <1>1, <1>2 DEF ListOK, SameLive
<1>4. \A d \in Call : ds[d].st # "FREE" => \E i \in 1..Len(t) : t[i] = d
  <2>. SUFFICES ASSUME NEW d \in Call, ds[d].st # "FREE" PROVE \E i \in 1..Len(t) : t[i] = d
    OBVIOUS
  <2>1. CASE d = c
    BY <1>1, <1>2, <2>1
  <2>2. CASE d # c
    <3>1. PICK i \in 1..Len(s) : s[i] = d
      BY <2>2 DEF ListOK, SameLive
    <3>. QED BY <1>1, <1>2, <3>1
  <2>. QED BY <2>1, <2>2
<1>5. \A i, j \in 1..Len(t) : t[i] = t[j] => i = j
  BY <1>1, <1>2 DEF ListOK
<1>. QED BY <1>2, <1>3, <1>4, <1>5 DEF ListOK, t

\* States in which the outcome of a transfer to the call is open.
Pending == {"OUTGOING", "RINGING", "EARLY"}

SameCalls == calls' = calls /\ SameLive(call, call', {})
Added(c) ==
    /\ calls' = Append(calls, c) /\ call[c].st = "FREE" /\ call'[c].st # "FREE"
    /\ SameLive(call, call', {c})
Removed(c) ==
    /\ calls' = Unlink(calls, c) /\ call[c].st # "FREE" /\ call'[c].st = "FREE"
    /\ SameLive(call, call', {c})
Moved(c) == calls' = Append(Unlink(calls, c), c) /\ call[c].st # "FREE" /\ call' = call

ListStep == SameCalls \/ \E c \in Call : Added(c) \/ Removed(c) \/ Moved(c)

\* No call gets a notifier, and one that keeps its notifier is not established by the step.
NotifStep ==
    /\ \A d \in Call : call'[d].not # None =>
          call'[d].not = call[d].not /\ (call'[d].st = call[d].st \/ call'[d].st \in Pending)
    /\ \/ notif' = notif
       \/ \E done \in SUBSET (Notifier \cup {None}) : notif' = NotifierAfter(call', done)

\* resume_call changes neither the state nor the notifier of any call.
LEMMA ResumedFields ==
  ASSUME NEW s \in Seq(Call), NEW cs \in [Call -> CallRec], NEW d \in Call
  PROVE  Resumed(s, cs)[d].st = cs[d].st /\ Resumed(s, cs)[d].not = cs[d].not
<1>. DEFINE R == Resumed(s, cs)
<1>0. \A e \in Call : \E b \in BOOLEAN : (b => cs[e].held) /\ R[e] = [cs[e] EXCEPT !.held = b]
  BY ResumedRecord
<1>1. PICK b \in BOOLEAN : R[d] = [cs[d] EXCEPT !.held = b]
  BY <1>0
<1>2. cs[d] \in CallRec
  OBVIOUS
<1>. HIDE DEF R
<1>3. R[d].st = cs[d].st /\ R[d].not = cs[d].not
  BY <1>1, <1>2 DEF CallRec
<1>. QED BY <1>3 DEF R

\* A handler that changes the fields of one call.
LEMMA SetStep ==
  ASSUME IInv, NEW c \in Call, NEW r, SetCall(c, r), r.not = call[c].not,
         r.st = call[c].st \/ (call[c].st # "FREE" /\ r.st \in Pending)
  PROVE  ListStep /\ NotifStep
<1>1. call \in [Call -> CallRec]
  BY DEF IInv, GoodCalls
<1>2. /\ calls' = calls /\ notif' = notif
      /\ \A d \in Call : call'[d] = IF d = c THEN r ELSE call[d]
  BY <1>1 DEF SetCall
<1>. QED BY <1>2 DEF ListStep, SameCalls, SameLive, NotifStep, Pending

\* The end of a call, for any reason.
LEMMA CloseStep ==
  ASSUME IInv, NEW c \in Call, call[c].st # "FREE",
         NEW done \in SUBSET (Notifier \cup {None}), CloseCall(c, done)
  PROVE  ListStep /\ NotifStep
<1>. DEFINE cs == [call EXCEPT ![c] = Freed("CLOSED")]
<1>1. call \in [Call -> CallRec] /\ Freed("CLOSED") \in CallRec /\ calls \in Seq(Call)
  BY FreedType DEF IInv, GoodCalls, Event
<1>2. cs \in [Call -> CallRec] /\ cs[c] = Freed("CLOSED") /\ \A d \in Call \ {c} : cs[d] = call[d]
  BY <1>1
<1>3. Freed("CLOSED").st = "FREE" /\ Freed("CLOSED").not = None
  BY DEF Freed
<1>4. calls' = Unlink(calls, c) /\ call' = Resumed(Unlink(calls, c), cs)
      /\ notif' = NotifierAfter(call', done)
  BY DEF CloseCall
<1>. HIDE DEF cs
<1>5. \A d \in Call : call'[d].st = cs[d].st /\ call'[d].not = cs[d].not
  <2>1. Unlink(calls, c) \in Seq(Call)
    BY <1>1, UnlinkType
  <2>. QED BY <1>2, <1>4, <2>1, ResumedFields
<1>6. Removed(c)
  BY <1>2, <1>3, <1>4, <1>5 DEF Removed, SameLive
<1>7. NotifStep
  BY <1>2, <1>3, <1>4, <1>5 DEF NotifStep
<1>. QED BY <1>6, <1>7 DEF ListStep

\* A new call has the notifier it is given.
LEMMA AllocatedNot ==
  ASSUME NEW n
  PROVE  /\ \A st, sess : Allocated(st, sess, n).not = n /\ Allocated(st, sess, n).st = st
         /\ Connecting(n).not = n /\ Connecting(n).st = "OUTGOING"
<1>1. ASSUME NEW st, NEW sess PROVE Allocated(st, sess, n).not = n /\ Allocated(st, sess, n).st = st
  BY DEF Allocated, Freed
<1>. QED BY <1>1 DEF Connecting

\* A call that is allocated without a notifier.
LEMMA AllocStep ==
  ASSUME IInv, NEW c \in Call, call[c].st = "FREE", NEW r, r.st # "FREE", r.not = None,
         calls' = Append(calls, c), call' = [call EXCEPT ![c] = r], notif' = notif
  PROVE  ListStep /\ NotifStep
<1>1. \A d \in Call : call'[d] = IF d = c THEN r ELSE call[d]
  BY DEF IInv, GoodCalls
<1>2. Added(c)
  BY <1>1 DEF Added, SameLive
<1>. QED BY <1>1, <1>2 DEF ListStep, NotifStep

\* ua_hold_answer sets a hold flag and answers, which leaves state, notifier and events.
LEMMA HoldAnswerFields ==
  ASSUME IInv, NEW c \in Call, HoldAnswer(c), NEW d \in Call
  PROVE  /\ call'[d].st = call[d].st /\ call'[d].not = call[d].not
         /\ call'[d].ev = call[d].ev /\ call'[d].out = call[d].out
<1>. DEFINE cs == IF Len(calls) > 1 THEN WithHold(PrevCall) ELSE call
<1>1. GoodCalls(cs) /\ \A e \in Call : /\ cs[e].st = call[e].st /\ cs[e].not = call[e].not
                                       /\ cs[e].ev = call[e].ev /\ cs[e].out = call[e].out
  <2>1. CASE Len(calls) > 1
    <3>. DEFINE p == PrevCall
                b == call[p].held \/ call[p].sess # "null"
    <3>1. p \in Call
      BY <2>1 DEF PrevCall, IInv
    <3>2. b \in BOOLEAN
      BY <3>1 DEF IInv, GoodCalls, CallRec
    <3>3. WithHold(p) = [call EXCEPT ![p].held = b]
      BY DEF WithHold
    <3>4. GoodCalls(call) /\ call \in [Call -> CallRec]
      BY DEF IInv, GoodCalls
    <3>5. cs = WithHold(p)
      BY <2>1
    <3>10. b => call[p].sess # "null"
      BY <3>1, <3>4 DEF GoodCalls, RecordOK
    <3>. HIDE DEF p, b, cs
    <3>8. GoodCalls(call)
      BY <3>4
    <3>9. GoodCalls([call EXCEPT ![p].held = b])
      BY <3>1, <3>2, <3>8, <3>10, GoodHold, Zenon
    <3>6. GoodCalls(WithHold(p))
      BY <3>3, <3>9, Zenon
    <3>7. \A e \in Call :
             /\ WithHold(p)[e].st = call[e].st /\ WithHold(p)[e].not = call[e].not
             /\ WithHold(p)[e].ev = call[e].ev /\ WithHold(p)[e].out = call[e].out
      <4>1. WithHold(p) = [call EXCEPT ![p] = [call[p] EXCEPT !.held = b]]
        BY <3>3
      <4>2. \A e \in Call : call[e] \in CallRec
        BY <3>4
      <4>3. LET r == [call[p] EXCEPT !.held = b]
            IN  /\ r.st = call[p].st /\ r.not = call[p].not
                /\ r.ev = call[p].ev /\ r.out = call[p].out
        BY <3>1, <4>2 DEF CallRec
      <4>. QED BY <3>1, <3>4, <4>1, <4>3
    <3>. QED BY <3>5, <3>6, <3>7
  <2>2. CASE ~(Len(calls) > 1)
    BY <2>2 DEF IInv
  <2>. QED BY <2>1, <2>2
<1>2. \/ call' = cs
      \/ \E r \in IF cs[c].st = "INCOMING" THEN Answered(cs[c]) ELSE {cs[c]} :
             call' = [cs EXCEPT ![c] = r]
  BY DEF HoldAnswer
<1>. HIDE DEF cs
<1>3. cs \in [Call -> CallRec] /\ RecordOK(cs[c])
  BY <1>1 DEF GoodCalls
<1>4. ASSUME NEW r \in IF cs[c].st = "INCOMING" THEN Answered(cs[c]) ELSE {cs[c]},
             call' = [cs EXCEPT ![c] = r]
      PROVE  /\ call'[d].st = cs[d].st /\ call'[d].not = cs[d].not
             /\ call'[d].ev = cs[d].ev /\ call'[d].out = cs[d].out
  <2>1. r.st = cs[c].st /\ r.not = cs[c].not /\ r.ev = cs[c].ev /\ r.out = cs[c].out
    BY <1>3, <1>4, AnsweredOK
  <2>. QED BY <1>3, <1>4, <2>1
<1>. QED BY <1>1, <1>2, <1>4

\* A call drops its notifier.
LEMMA DropStep ==
  ASSUME IInv, NEW c \in Call, NEW done \in SUBSET (Notifier \cup {None}),
         calls' = calls, call' = [call EXCEPT ![c].not = None],
         notif' = NotifierAfter(call', done)
  PROVE  ListStep /\ NotifStep
<1>. DEFINE r == [call[c] EXCEPT !.not = None]
<1>1. call \in [Call -> CallRec] /\ call[c] \in CallRec
  BY DEF IInv, GoodCalls
<1>2. r.st = call[c].st /\ r.not = None
  BY <1>1 DEF CallRec
<1>3. call' = [call EXCEPT ![c] = r]
  BY <1>1
<1>. HIDE DEF r
<1>4. \A d \in Call : call'[d] = IF d = c THEN r ELSE call[d]
  BY <1>1, <1>3
<1>. QED BY <1>2, <1>4 DEF ListStep, SameCalls, SameLive, NotifStep

\* The commands of the user.
LEMMA UserStep ==
  ASSUME IInv, NEW c \in Call, UserNext(c)
  PROVE  ListStep /\ NotifStep
<1>0. /\ call[c] \in CallRec /\ RecordOK(call[c])
      /\ call \in [Call -> CallRec] /\ calls \in Seq(Call)
      /\ {} \in SUBSET (Notifier \cup {None})
  BY DEF IInv, GoodCalls
<1>1. CASE Dial(c)
  <2>1. Connecting(None).st # "FREE"
    BY <1>1, ConnectingOK DEF Dial, CanAlloc
  <2>2. Connecting(None).not = None
    BY AllocatedNot
  <2>. QED BY <1>1, <2>1, <2>2, AllocStep DEF Dial, CanAlloc
<1>2. CASE Answer(c)
  BY <1>0, <1>2, AnsweredOK, SetStep DEF Answer
<1>3. CASE Progress(c)
  BY <1>0, <1>3, ProgressedOK, SetStep DEF Progress
<1>4. CASE Hangup(c)
  BY <1>0, <1>4, CloseStep DEF Hangup, Live
<1>5. ASSUME NEW hold \in BOOLEAN, Hold(c, hold) PROVE ListStep /\ NotifStep
  <2>. DEFINE r == [call[c] EXCEPT !.held = hold]
  <2>1. r.st = call[c].st /\ r.not = call[c].not
    BY <1>0 DEF CallRec
  <2>2. SetCall(c, r)
    BY <1>5 DEF Hold
  <2>. HIDE DEF r
  <2>. QED BY <2>1, <2>2, SetStep
<1>6. CASE HoldAnswer(c)
  <2>1. \A d \in Call : call'[d].st = call[d].st /\ call'[d].not = call[d].not
    BY <1>6, HoldAnswerFields
  <2>2. calls' = calls /\ notif' = notif
    BY <1>6 DEF HoldAnswer
  <2>. QED BY <2>1, <2>2 DEF ListStep, SameCalls, SameLive, NotifStep
<1>7. CASE SetCurrent(c)
  <2>1. Moved(c)
    BY <1>7 DEF SetCurrent, Moved, Live
  <2>2. NotifStep
    BY <1>7 DEF SetCurrent, NotifStep
  <2>. QED BY <2>1, <2>2 DEF ListStep
<1>8. CASE Transfer(c)
  <2>1. PICK ok \in BOOLEAN : SetCall(c, [call[c] EXCEPT !.sub = ok])
    BY <1>8 DEF Transfer
  <2>. DEFINE r == [call[c] EXCEPT !.sub = ok]
  <2>2. r.st = call[c].st /\ r.not = call[c].not
    BY <1>0 DEF CallRec
  <2>3. SetCall(c, r)
    BY <2>1
  <2>. HIDE DEF r
  <2>. QED BY <2>2, <2>3, SetStep
<1>. QED BY <1>1, <1>2, <1>3, <1>4, <1>5, <1>6, <1>7, <1>8 DEF UserNext

\* The callbacks of the SIP session and of the REFER subscriptions, but for a REFER that is
\* accepted.
LEMMA SessionStep ==
  ASSUME IInv, NEW c \in Call, SessionNext(c)
  PROVE  (ListStep /\ NotifStep) \/ \E c2 \in Call, n \in Notifier : Refer(c, c2, n)
<1>0. /\ call[c] \in CallRec /\ RecordOK(call[c])
      /\ call \in [Call -> CallRec] /\ calls \in Seq(Call)
      /\ {} \in SUBSET (Notifier \cup {None})
  BY DEF IInv, GoodCalls
<1>. DEFINE Goal == ListStep /\ NotifStep
            told == [call EXCEPT ![c].ev = "CLOSED"]
<1>a. /\ told \in [Call -> CallRec]
      /\ \A d \in Call : told[d].st = call[d].st /\ told[d].not = call[d].not
  <2>. DEFINE r == [call[c] EXCEPT !.ev = "CLOSED"]
  <2>1. r \in CallRec /\ r.st = call[c].st /\ r.not = call[c].not
    BY <1>0 DEF CallRec, Event
  <2>2. told = [call EXCEPT ![c] = r]
    BY <1>0
  <2>. HIDE DEF r, told
  <2>. QED BY <1>0, <2>1, <2>2
<1>1. CASE IncomingRefused(c)
  <2>1. call' = Resumed(calls, told) /\ UNCHANGED <<calls, notif, stale>>
    BY <1>1 DEF IncomingRefused
  <2>. HIDE DEF told
  <2>2. \A d \in Call : call'[d].st = call[d].st /\ call'[d].not = call[d].not
    BY <1>0, <1>a, <2>1, ResumedFields
  <2>. QED BY <2>1, <2>2 DEF ListStep, SameCalls, SameLive, NotifStep
<1>2. CASE IncomingBlocked(c)
  <2>1. call' = told /\ UNCHANGED <<calls, notif, stale>>
    BY <1>2 DEF IncomingBlocked
  <2>. HIDE DEF told
  <2>. QED BY <1>a, <2>1 DEF ListStep, SameCalls, SameLive, NotifStep
<1>3. CASE IncomingAccepted(c)
  <2>. DEFINE a == Allocated("INCOMING", "uas", None)
              r == [a EXCEPT !.tmr = LocalTimeout]
  <2>1. a \in CallRec /\ RecordOK(a) /\ a.st = "INCOMING" /\ a.not = None /\ a.mnat = UseMnat
    <3>1. FreeLines # {}
      BY <1>3 DEF IncomingAccepted, Acceptable, CanAlloc
    <3>2. a \in CallRec /\ RecordOK(a) /\ a.st = "INCOMING" /\ a.mnat = UseMnat
      BY <3>1, AllocatedOK
    <3>3. a.not = None
      BY AllocatedNot
    <3>. QED BY <3>2, <3>3
  <2>2. PICK x \in IF UseMnat THEN {r} ELSE Announced(r) : call' = [call EXCEPT ![c] = x]
    BY <1>3 DEF IncomingAccepted
  <2>. HIDE DEF a
  <2>3. r \in CallRec /\ RecordOK(r) /\ r.st = "INCOMING" /\ r.not = None /\ r.mnat = UseMnat
    BY <2>1, ConfigAssumption DEF CallRec, RecordOK
  <2>. HIDE DEF r
  <2>4. x.st = "INCOMING" /\ x.not = None
    BY <2>2, <2>3, AnnouncedOK
  <2>5. call[c].st = "FREE" /\ calls' = Append(calls, c) /\ notif' = notif
    BY <1>3 DEF IncomingAccepted, Acceptable, CanAlloc
  <2>. QED BY <2>2, <2>4, <2>5, AllocStep
<1>4. CASE MnatFail(c)
  BY <1>0, <1>4, CloseStep DEF MnatFail, Live
<1>5. CASE MnatDone(c)
  <2>. DEFINE r == [call[c] EXCEPT !.mnat = FALSE]
  <2>1. r \in CallRec /\ RecordOK(r) /\ r.st = call[c].st /\ r.not = call[c].not /\ ~r.mnat
    BY <1>0 DEF CallRec, RecordOK
  <2>2. PICK x : /\ SetCall(c, x)
                 /\ \/ x = r
                    \/ \E m \in {"null", "uac"} : x = [r EXCEPT !.sess = m]
                    \/ r.st = "INCOMING" /\ x \in Announced(r)
    BY <1>5 DEF MnatDone
  <2>. HIDE DEF r
  <2>3. x.st = r.st /\ x.not = r.not
    BY <2>1, <2>2, AnnouncedOK DEF CallRec
  <2>. QED BY <2>1, <2>2, <2>3, SetStep
<1>6. CASE MnatBlocked(c)
  <2>1. /\ calls' = Unlink(calls, c) /\ notif' = NotifierAfter(call', {})
        /\ \A d \in Call : call'[d] = IF d = c THEN Freed("CLOSED") ELSE call[d]
        /\ call[c].st # "FREE"
    BY <1>0, <1>6 DEF MnatBlocked
  <2>2. Freed("CLOSED").st = "FREE" /\ Freed("CLOSED").not = None
    BY DEF Freed
  <2>3. Removed(c)
    BY <2>1, <2>2 DEF Removed, SameLive
  <2>4. NotifStep
    BY <1>0, <2>1, <2>2 DEF NotifStep
  <2>. QED BY <2>3, <2>4 DEF ListStep
<1>7. ASSUME NEW st \in State, NEW media \in BOOLEAN, Progr(c, st, media) PROVE Goal
  <2>. DEFINE r == [call[c] EXCEPT !.st = st, !.tmr = FALSE, !.media = media,
                       !.ev = IF media THEN "PROGRESS" ELSE "RINGING"]
  <2>1. call[c].sess = "uac" /\ st \in {"RINGING", "EARLY", call[c].st} /\ SetCall(c, r)
    BY <1>7 DEF Progr
  <2>2. call[c].st # "FREE"
    BY <1>0, <2>1 DEF RecordOK
  <2>3. r.st = st /\ r.not = call[c].not
    BY <1>0 DEF CallRec
  <2>. HIDE DEF r
  <2>. QED BY <2>1, <2>2, <2>3, SetStep DEF Pending
<1>8. ASSUME NEW media \in BOOLEAN, ProgrHangup(c, media) PROVE Goal
  BY <1>0, <1>8, CloseStep DEF ProgrHangup, RecordOK
<1>9. CASE Estab(c)
  <2>. DEFINE r == [call[c] EXCEPT !.st = "ESTABLISHED", !.sess = "up",
                   !.tmr = FALSE, !.media = TRUE, !.not = None, !.ev = "ESTABLISHED"]
  <2>1. r.st = "ESTABLISHED" /\ r.not = None /\ call[c].st # "FREE"
    BY <1>0, <1>9 DEF Estab, RecordOK, CallRec
  <2>2. call' = [call EXCEPT ![c] = r] /\ notif' = NotifierAfter(call', {call[c].not})
        /\ calls' = calls
    BY <1>9 DEF Estab
  <2>3. {call[c].not} \in SUBSET (Notifier \cup {None})
    BY <1>0 DEF CallRec
  <2>. HIDE DEF r
  <2>4. \A d \in Call : call'[d] = IF d = c THEN r ELSE call[d]
    BY <1>0, <2>2
  <2>5. ListStep
    BY <2>1, <2>2, <2>4 DEF ListStep, SameCalls, SameLive
  <2>6. NotifStep
    BY <2>1, <2>2, <2>3, <2>4 DEF NotifStep
  <2>. QED BY <2>5, <2>6
<1>10. CASE SessClose(c)
  <2>1. {call[c].not} \in SUBSET (Notifier \cup {None})
    BY <1>0 DEF CallRec
  <2>2. call[c].st # "FREE"
    BY <1>0, <1>10 DEF SessClose, RecordOK
  <2>3. PICK done \in {{}, {call[c].not}} : CloseCall(c, done)
    BY <1>10 DEF SessClose
  <2>. QED BY <1>0, <2>1, <2>2, <2>3, CloseStep
<1>11. CASE ReferFails(c)
  <2>1. calls' = calls /\ notif' = NotifierAfter(call', {}) /\ call' = [call EXCEPT ![c].not = None]
    BY <1>11 DEF ReferFails
  <2>. QED BY <1>0, <2>1, DropStep
<1>12. CASE SubNotify(c)
  BY <1>0, <1>12, CloseStep DEF SubNotify, RecordOK
<1>13. CASE SubClose(c)
  <2>. DEFINE r == [call[c] EXCEPT !.sub = FALSE]
  <2>1. r.st = call[c].st /\ r.not = call[c].not
    BY <1>0 DEF CallRec
  <2>2. SetCall(c, r)
    BY <1>13 DEF SubClose
  <2>. HIDE DEF r
  <2>. QED BY <2>1, <2>2, SetStep
<1>. QED BY <1>1, <1>2, <1>3, <1>4, <1>5, <1>6, <1>7, <1>8, <1>9, <1>10, <1>11, <1>12,
            <1>13 DEF SessionNext

\* Every step but that of a REFER that is accepted.
LEMMA NextStep ==
  ASSUME IInv, [Next]_vars
  PROVE  (ListStep /\ NotifStep) \/ \E c, c2 \in Call, n \in Notifier : Refer(c, c2, n)
<1>1. ASSUME NEW c \in Call, TimerNext(c) PROVE ListStep /\ NotifStep
  <2>1. call[c].st # "FREE" /\ CloseCall(c, {})
    BY <1>1 DEF IInv, GoodCalls, RecordOK, TimerNext, InviteTimeout, RtpTimedOut, MediaError
  <2>. QED BY <2>1, CloseStep
<1>2. ASSUME NEW n \in Notifier, NotClose(n) PROVE ListStep /\ NotifStep
  <2>1. CASE notif[n].owner = None
    <3>1. UNCHANGED <<calls, call, notif>>
      BY <1>2, <2>1 DEF NotClose
    <3>. QED BY <3>1 DEF ListStep, SameCalls, SameLive, NotifStep
  <2>2. CASE notif[n].owner # None
    <3>1. notif[n].owner \in Call
      BY <2>2 DEF IInv, NotifRec
    <3>2. /\ calls' = calls /\ notif' = NotifierAfter(call', {n})
          /\ call' = [call EXCEPT ![notif[n].owner].not = None]
      BY <1>2, <2>2 DEF NotClose
    <3>. QED BY <3>1, <3>2, DropStep
  <2>. QED BY <2>1, <2>2
<1>3. CASE UNCHANGED vars
  BY <1>3 DEF vars, ListStep, SameCalls, SameLive, NotifStep
<1>4. ASSUME NEW c \in Call, UserNext(c) \/ SessionNext(c)
      PROVE  (ListStep /\ NotifStep) \/ \E d, c2 \in Call, n \in Notifier : Refer(d, c2, n)
  BY <1>4, UserStep, SessionStep
<1>. QED BY <1>1, <1>2, <1>3, <1>4 DEF Next

\* A REFER that is accepted adds the call to the target.
LEMMA ReferStep ==
  ASSUME IInv, NEW c \in Call, NEW c2 \in Call, NEW n \in Notifier, Refer(c, c2, n)
  PROVE  /\ Added(c2) /\ c # c2 /\ call[c].st # "FREE" /\ notif[n].st = "free"
         /\ call'[c].not = n /\ call'[c].st = call[c].st
         /\ call'[c2].not = n /\ call'[c2].st = "OUTGOING"
         /\ \A d \in Call \ {c, c2} : call'[d] = call[d]
         /\ notif' = [NotifierAfter(call', {}) EXCEPT ![n] = [st |-> "active", owner |-> c]]
<1>1. call \in [Call -> CallRec] /\ RecordOK(call[c]) /\ RecordOK(call[c2])
  BY DEF IInv, GoodCalls
<1>2. /\ call[c].sess = "up" /\ call[c2].st = "FREE" /\ notif[n].st = "free"
      /\ calls' = Append(calls, c2)
      /\ call' = [call EXCEPT ![c].not = n, ![c2] = Connecting(n)]
      /\ notif' = [NotifierAfter(call', {}) EXCEPT ![n] = [st |-> "active", owner |-> c]]
  BY DEF Refer, CanAlloc
<1>3. c # c2 /\ call[c].st # "FREE"
  BY <1>1, <1>2 DEF RecordOK
<1>4. call' = [call EXCEPT ![c] = [call[c] EXCEPT !.not = n], ![c2] = Connecting(n)]
  BY <1>2
<1>5. [call[c] EXCEPT !.not = n].not = n /\ [call[c] EXCEPT !.not = n].st = call[c].st
  BY <1>1 DEF CallRec
<1>6. /\ call'[c].not = n /\ call'[c].st = call[c].st /\ call'[c2] = Connecting(n)
      /\ \A d \in Call \ {c, c2} : call'[d] = call[d]
  BY <1>1, <1>3, <1>4, <1>5
<1>7. Connecting(n).not = n /\ Connecting(n).st = "OUTGOING"
  BY AllocatedNot
<1>8. Added(c2)
  BY <1>2, <1>3, <1>6, <1>7 DEF Added, SameLive
<1>. QED BY <1>2, <1>3, <1>6, <1>7, <1>8

\* Each kind of step keeps the list exact.
LEMMA ListStepOK ==
  ASSUME IInv, ListOK(calls, call), ListStep
  PROVE  ListOK(calls', call')
<1>1. CASE SameCalls
  BY <1>1 DEF SameCalls, SameLive, ListOK
<1>2. ASSUME NEW c \in Call, Added(c) PROVE ListOK(calls', call')
  BY <1>2, ListAppend DEF Added
<1>3. ASSUME NEW c \in Call, Removed(c) PROVE ListOK(calls', call')
  BY <1>3, ListUnlink DEF Removed
<1>4. ASSUME NEW c \in Call, Moved(c) PROVE ListOK(calls', call')
  <2>. DEFINE cs == [call EXCEPT ![c] = Freed(None)]
  <2>1. cs[c].st = "FREE" /\ \A d \in Call \ {c} : cs[d] = call[d]
    BY DEF IInv, GoodCalls, Freed
  <2>2. SameLive(call, cs, {c}) /\ SameLive(cs, call, {c})
    BY <2>1 DEF SameLive
  <2>. HIDE DEF cs
  <2>3. ListOK(Unlink(calls, c), cs)
    BY <1>4, <2>1, <2>2, ListUnlink DEF Moved
  <2>4. ListOK(Append(Unlink(calls, c), c), call)
    BY <1>4, <2>1, <2>2, <2>3, ListAppend DEF Moved
  <2>. QED BY <1>4, <2>4 DEF Moved
<1>. QED BY <1>1, <1>2, <1>3, <1>4 DEF ListStep

\* What a call's notifier says of it: the call accepted it, or its own outcome is open.
TransferOK ==
    \A c \in Call : call[c].not # None =>
        /\ notif[call[c].not].st # "free"
        /\ notif[call[c].not].owner = c \/ call[c].st \in Pending

\* A notifier that is still referred to keeps its handler argument as long as that call lives.
LEMMA NotifierKept ==
  ASSUME IInv, TransferOK, NEW d \in Call, NEW done \in SUBSET (Notifier \cup {None}),
         call'[d].not # None, call'[d].not = call[d].not, call'[d].st # "FREE"
  PROVE  LET n == call'[d].not
         IN  /\ NotifierAfter(call', done)[n].st # "free"
             /\ notif[n].owner = d => NotifierAfter(call', done)[n].owner = d
<1>. DEFINE n == call'[d].not
<1>1. n \in Notifier /\ notif[n].st # "free"
  BY DEF IInv, GoodCalls, CallRec, TransferOK
<1>2. NotifierAfter(call', done)[n] =
         [st    |-> IF n \in done THEN "done" ELSE notif[n].st,
          owner |-> IF notif[n].owner \in Call /\ call'[notif[n].owner].st # "FREE"
                    THEN notif[n].owner ELSE None]
  BY <1>1 DEF NotifierAfter
<1>. HIDE DEF n
<1>3. NotifierAfter(call', done)[n].st # "free"
  BY <1>1, <1>2
<1>4. notif[n].owner = d => NotifierAfter(call', done)[n].owner = d
  BY <1>2
<1>. QED BY <1>3, <1>4 DEF n

\* A step that hands out no notifier keeps what they say of the calls.
LEMMA TransferKept ==
  ASSUME IInv, IInv', TransferOK, NotifStep
  PROVE  TransferOK'
<1>. SUFFICES ASSUME NEW d \in Call, call'[d].not # None
              PROVE  /\ notif'[call'[d].not].st # "free"
                     /\ notif'[call'[d].not].owner = d \/ call'[d].st \in Pending
  BY DEF TransferOK
<1>1. call'[d].not = call[d].not /\ (call'[d].st = call[d].st \/ call'[d].st \in Pending)
  BY DEF NotifStep
<1>2. call'[d].st # "FREE"
  BY DEF IInv, GoodCalls, RecordOK
<1>3. /\ notif[call'[d].not].st # "free"
      /\ notif[call'[d].not].owner = d \/ call[d].st \in Pending
  BY <1>1 DEF TransferOK
<1>4. CASE notif' = notif
  BY <1>1, <1>3, <1>4
<1>5. ASSUME NEW done \in SUBSET (Notifier \cup {None}), notif' = NotifierAfter(call', done)
      PROVE  /\ notif'[call'[d].not].st # "free"
             /\ notif'[call'[d].not].owner = d \/ call'[d].st \in Pending
  BY <1>1, <1>2, <1>3, <1>5, NotifierKept
<1>. QED BY <1>4, <1>5 DEF NotifStep

\* So does a REFER that is accepted: the call and its target get a fresh notifier.
LEMMA TransferRefer ==
  ASSUME IInv, IInv', TransferOK, NEW c \in Call, NEW c2 \in Call, NEW n \in Notifier,
         Refer(c, c2, n)
  PROVE  TransferOK'
<1>. SUFFICES ASSUME NEW d \in Call, call'[d].not # None
              PROVE  /\ notif'[call'[d].not].st # "free"
                     /\ notif'[call'[d].not].owner = d \/ call'[d].st \in Pending
  BY DEF TransferOK
<1>1. /\ c # c2 /\ notif[n].st = "free"
      /\ call'[c].not = n /\ call'[c2].not = n /\ call'[c2].st = "OUTGOING"
      /\ \A e \in Call \ {c, c2} : call'[e] = call[e]
      /\ notif' = [NotifierAfter(call', {}) EXCEPT ![n] = [st |-> "active", owner |-> c]]
  BY ReferStep
<1>2. NotifierAfter(call', {}) \in [Notifier -> NotifRec]
  BY NotifierAfterType DEF IInv
<1>3. notif'[n] = [st |-> "active", owner |-> c]
  BY <1>1, <1>2
<1>4. CASE d = c
  BY <1>1, <1>3, <1>4
<1>5. CASE d = c2
  BY <1>1, <1>3, <1>5 DEF Pending
<1>6. CASE d # c /\ d # c2
  <2>1. call'[d] = call[d]
    BY <1>1, <1>6
  <2>2. /\ notif[call[d].not].st # "free" /\ call[d].not # n
        /\ notif[call[d].not].owner = d \/ call[d].st \in Pending
    BY <1>1, <2>1 DEF TransferOK
  <2>3. call'[d].st # "FREE"
    BY DEF IInv, GoodCalls, RecordOK
  <2>4. notif'[call'[d].not] = NotifierAfter(call', {})[call'[d].not]
    BY <1>1, <1>2, <2>1, <2>2
  <2>. QED BY <2>1, <2>2, <2>3, <2>4, NotifierKept
<1>. QED BY <1>4, <1>5, <1>6

\* The call list is exact in every behaviour.
THEOREM ListInvariant == Spec => []ListOK(calls, call)
<1>1. Init => ListOK(calls, call)
  BY DEF Init, ListOK, Freed
<1>2. IInv /\ ListOK(calls, call) /\ [Next]_vars => ListOK(calls, call)'
  <2>. SUFFICES ASSUME IInv, ListOK(calls, call), [Next]_vars PROVE ListOK(calls', call')
    BY DEF ListOK
  <2>1. ASSUME NEW c \in Call, NEW c2 \in Call, NEW n \in Notifier, Refer(c, c2, n)
        PROVE  ListOK(calls', call')
    BY <2>1, ReferStep, ListStepOK DEF ListStep
  <2>. QED BY <2>1, NextStep, ListStepOK
<1>. QED BY <1>1, <1>2, Invariant, PTL DEF Spec

\* The call list holds each call object that exists, once, however calls come, go and
\* become the current one.
THEOREM ListIsExact == Spec => []ListHoldsLive
<1>1. IInv /\ ListOK(calls, call) => ListHoldsLive
  BY DEF ListOK, ListHoldsLive, Live
<1>. QED BY <1>1, Invariant, ListInvariant, PTL

\* A call that is established holds no notifier but one that it accepted itself: the outcome
\* of the transfer that made it has been told.
THEOREM TransferIsPending == Spec => []TransferPending
<1>1. Init => TransferOK
  BY DEF Init, TransferOK, Freed
<1>2. IInv /\ IInv' /\ TransferOK /\ [Next]_vars => TransferOK'
  BY NextStep, TransferKept, TransferRefer
<1>3. TransferOK => TransferPending
  BY DEF TransferOK, TransferPending, Pending
<1>. QED BY <1>1, <1>2, <1>3, Invariant, PTL DEF Spec
-----------------------------------------------------------------------------
(***************************************************************************)
(* The refinement of CallEvents.  Every step moves the events of at most   *)
(* one call, and that move is one CallEvents allows.                       *)
(***************************************************************************)

\* The direction that CallEvents is told of a call with record r.
Dir(r) == IF r.st = "FREE" THEN None ELSE IF r.out THEN "out" ELSE "in"

\* The application sees no difference between the records r and x.
Unseen(r, x) == x.ev = r.ev /\ Dir(x) = Dir(r)

\* What a step may do to the call with record r, as Begin and Tell of CallEvents, or as
\* Close of a call of which the application has not heard.
LegalMove(r, x) ==
    \/ Unseen(r, x)
    \/ /\ Dir(r) = None
       /\ \/ Dir(x) = "out" /\ x.ev = None
          \/ Dir(x) = "in" /\ x.ev \in {None, "INCOMING"}
    \/ /\ Dir(x) = Dir(r) /\ x.ev \in Events!Follow(Dir(r), r.ev)
       /\ x.ev \in {"INCOMING", "RINGING", "PROGRESS", "ESTABLISHED"}
    \/ x.ev = "CLOSED" /\ Dir(x) = None /\ r.ev \in {None, "CLOSED"}

\* CALL_EVENT_CLOSED of a call that exists.
Closing ==
    \E c \in Call, done \in SUBSET (Notifier \cup {None}) :
        call[c].st # "FREE" /\ CloseCall(c, done)

EventStep ==
    \E c \in Call : /\ LegalMove(call[c], call'[c])
                    /\ \A d \in Call \ {c} : Unseen(call[d], call'[d])

\* Such a step is one of CallEvents.
LEMMA EventStepMaps ==
  ASSUME EventStep
  PROVE  Events!Next \/ UNCHANGED <<[c \in Call |-> call[c].ev], [c \in Call |-> Direction(c)]>>
<1>. DEFINE ev  == [c \in Call |-> call[c].ev]
            dir == [c \in Call |-> Direction(c)]
            ev2  == [c \in Call |-> call'[c].ev]
            dir2 == [c \in Call |-> Direction(c)']
<1>1. \A d \in Call : Direction(d) = Dir(call[d]) /\ Direction(d)' = Dir(call'[d])
  BY DEF Direction, Dir
<1>2. PICK c \in Call : /\ LegalMove(call[c], call'[c])
                        /\ \A d \in Call \ {c} : Unseen(call[d], call'[d])
  BY DEF EventStep
<1>3. /\ ev2 = [ev EXCEPT ![c] = call'[c].ev]
      /\ dir2 = [dir EXCEPT ![c] = Dir(call'[c])]
  BY <1>1, <1>2 DEF Unseen
<1>4. ev[c] = call[c].ev /\ dir[c] = Dir(call[c]) /\ dir2[c] = Dir(call'[c])
  BY <1>1
<1>5. CASE Unseen(call[c], call'[c])
  <2>1. ev2 = ev /\ dir2 = dir
    BY <1>1, <1>2, <1>5 DEF Unseen
  <2>. QED BY <2>1
<1>6. CASE /\ Dir(call[c]) = None
           /\ \/ Dir(call'[c]) = "out" /\ call'[c].ev = None
              \/ Dir(call'[c]) = "in" /\ call'[c].ev \in {None, "INCOMING"}
  <2>1. PICK d \in {"in", "out"}, e \in {Events!NoEvent, "INCOMING"} :
               d = Dir(call'[c]) /\ e = call'[c].ev
    BY <1>6 DEF Events!NoEvent, None
  <2>2. Events!Begin(c, d, e)
    BY <1>3, <1>4, <1>6, <2>1 DEF Events!Begin, Events!NoEvent, None
  <2>. QED BY <2>2, Zenon DEF Events!Next
<1>7. CASE /\ Dir(call'[c]) = Dir(call[c]) /\ call'[c].ev \in Events!Follow(Dir(call[c]), call[c].ev)
           /\ call'[c].ev \in {"INCOMING", "RINGING", "PROGRESS", "ESTABLISHED"}
  <2>1. dir2 = dir
    BY <1>3, <1>4, <1>7
  <2>2. PICK e \in {"INCOMING", "RINGING", "PROGRESS", "ESTABLISHED"} : e = call'[c].ev
    BY <1>7
  <2>3. Events!Tell(c, e)
    BY <1>3, <1>4, <1>7, <2>1, <2>2 DEF Events!Tell
  <2>. QED BY <2>3, Zenon DEF Events!Next
<1>8. CASE call'[c].ev = "CLOSED" /\ Dir(call'[c]) = None
  <2>1. Events!Close(c)
    BY <1>3, <1>8 DEF Events!Close, None
  <2>. QED BY <2>1 DEF Events!Next
<1>. QED BY <1>2, <1>5, <1>6, <1>7, <1>8 DEF LegalMove

\* resume_call is not seen by the application.
LEMMA ResumedUnseen ==
  ASSUME NEW s \in Seq(Call), NEW cs \in [Call -> CallRec], NEW d \in Call
  PROVE  Unseen(cs[d], Resumed(s, cs)[d])
<1>. DEFINE R == Resumed(s, cs)
<1>0. \A e \in Call : \E b \in BOOLEAN : (b => cs[e].held) /\ R[e] = [cs[e] EXCEPT !.held = b]
  BY ResumedRecord
<1>1. PICK b \in BOOLEAN : R[d] = [cs[d] EXCEPT !.held = b]
  BY <1>0
<1>2. cs[d] \in CallRec
  OBVIOUS
<1>. HIDE DEF R
<1>3. Unseen(cs[d], R[d])
  BY <1>1, <1>2 DEF CallRec, Unseen, Dir
<1>. QED BY <1>3 DEF R

\* A handler that changes one call.
LEMMA OneEvent ==
  ASSUME call \in [Call -> CallRec], NEW c \in Call, NEW r, LegalMove(call[c], r),
         call' = [call EXCEPT ![c] = r]
  PROVE  EventStep
<1>1. \A d \in Call : call'[d] = IF d = c THEN r ELSE call[d]
  OBVIOUS
<1>. QED BY <1>1 DEF EventStep, Unseen

\* The same, followed by resume_call.
LEMMA OneEventResumed ==
  ASSUME call \in [Call -> CallRec], NEW c \in Call, NEW r \in CallRec,
         r.ev = "CLOSED", r.st = "FREE", call[c].ev \in {None, "CLOSED"}, NEW s \in Seq(Call),
         call' = Resumed(s, [call EXCEPT ![c] = r])
  PROVE  EventStep
<1>. DEFINE cs == [call EXCEPT ![c] = r]
<1>1. cs \in [Call -> CallRec] /\ cs[c] = r /\ \A d \in Call \ {c} : cs[d] = call[d]
  OBVIOUS
<1>. HIDE DEF cs
<1>2. \A d \in Call : Unseen(cs[d], call'[d])
  BY <1>1, ResumedUnseen DEF cs
<1>3. LegalMove(call[c], call'[c])
  BY <1>1, <1>2 DEF LegalMove, Unseen, Dir
<1>4. \A d \in Call \ {c} : Unseen(call[d], call'[d])
  BY <1>1, <1>2
<1>. QED BY <1>3, <1>4, Zenon DEF EventStep

\* The end of a call, for any reason, is CLOSED and nothing else.
LEMMA ClosingMaps ==
  ASSUME IInv, Closing
  PROVE  Events!Next
<1>1. PICK c \in Call, done \in SUBSET (Notifier \cup {None}) : CloseCall(c, done)
  BY DEF Closing
<1>. DEFINE cs == [call EXCEPT ![c] = Freed("CLOSED")]
<1>2. call \in [Call -> CallRec] /\ Freed("CLOSED") \in CallRec /\ Unlink(calls, c) \in Seq(Call)
  BY FreedType, UnlinkType DEF IInv, GoodCalls, Event
<1>3. cs \in [Call -> CallRec] /\ cs[c] = Freed("CLOSED") /\ \A d \in Call \ {c} : cs[d] = call[d]
  BY <1>2
<1>4. call' = Resumed(Unlink(calls, c), cs)
  BY <1>1 DEF CloseCall
<1>. HIDE DEF cs
<1>5. \A d \in Call : Unseen(cs[d], call'[d])
  BY <1>2, <1>3, <1>4, ResumedUnseen
<1>6. call'[c].ev = "CLOSED" /\ Dir(call'[c]) = None
  BY <1>3, <1>5 DEF Unseen, Dir, Freed
<1>7. \A d \in Call : Direction(d) = Dir(call[d]) /\ Direction(d)' = Dir(call'[d])
  BY DEF Direction, Dir
<1>8. Events!Close(c)
  BY <1>3, <1>5, <1>6, <1>7 DEF Events!Close, Unseen, None
<1>. QED BY <1>8 DEF Events!Next

\* A handler of which the application sees nothing.
LEMMA NoEventStep ==
  ASSUME NEW e \in Call, \A d \in Call : Unseen(call[d], call'[d])
  PROVE  EventStep
  BY DEF EventStep, LegalMove

\* A call that is dialled begins as outgoing and unannounced.
LEMMA ConnectingBegins ==
  ASSUME FreeLines # {}, NEW n \in Notifier \cup {None}, NEW r, r.st = "FREE"
  PROVE  LegalMove(r, Connecting(n))
<1>1. /\ Connecting(n).st = "OUTGOING" /\ Connecting(n).ev = None /\ Connecting(n).out = TRUE
  BY AllocatedOK, ConfigAssumption DEF Connecting
<1>. QED BY <1>1 DEF LegalMove, Dir

\* A notifier that is dropped is not seen by the application.
LEMMA DropEvent ==
  ASSUME IInv, NEW c \in Call, call' = [call EXCEPT ![c].not = None]
  PROVE  EventStep
<1>. DEFINE x == [call[c] EXCEPT !.not = None]
<1>1. call[c] \in CallRec /\ call \in [Call -> CallRec] /\ call' = [call EXCEPT ![c] = x]
  BY DEF IInv, GoodCalls
<1>2. Unseen(call[c], x)
  BY <1>1 DEF CallRec, Unseen, Dir
<1>. HIDE DEF x
<1>. QED BY <1>1, <1>2, OneEvent DEF LegalMove

\* The commands of the user: a call begins, ends, or nothing is seen.
LEMMA UserEvent ==
  ASSUME IInv, NEW c \in Call, UserNext(c)
  PROVE  EventStep \/ Closing
<1>0. /\ call[c] \in CallRec /\ RecordOK(call[c]) /\ call \in [Call -> CallRec]
      /\ {} \in SUBSET (Notifier \cup {None})
  BY DEF IInv, GoodCalls
<1>1. CASE Dial(c)
  <2>1. CanAlloc(c) /\ call' = [call EXCEPT ![c] = Connecting(None)]
    BY <1>1 DEF Dial
  <2>2. LegalMove(call[c], Connecting(None))
    BY <2>1, ConnectingBegins DEF CanAlloc
  <2>. QED BY <1>0, <2>1, <2>2, OneEvent
<1>2. CASE Answer(c)
  <2>1. PICK x \in Answered(call[c]) : SetCall(c, x)
    BY <1>2 DEF Answer
  <2>2. Unseen(call[c], x)
    BY <1>0, <1>2, <2>1, AnsweredOK DEF Answer, Unseen, Dir
  <2>. QED BY <1>0, <2>1, <2>2, OneEvent DEF SetCall, LegalMove
<1>3. CASE Progress(c)
  <2>1. PICK x \in Progressed(call[c]) : SetCall(c, x)
    BY <1>3 DEF Progress
  <2>2. Unseen(call[c], x)
    BY <1>0, <2>1, ProgressedOK DEF Unseen, Dir
  <2>. QED BY <1>0, <2>1, <2>2, OneEvent DEF SetCall, LegalMove
<1>4. CASE Hangup(c)
  BY <1>0, <1>4 DEF Hangup, Live, Closing
<1>5. ASSUME NEW hold \in BOOLEAN, Hold(c, hold) PROVE EventStep
  <2>. DEFINE x == [call[c] EXCEPT !.held = hold]
  <2>1. Unseen(call[c], x)
    BY <1>0 DEF CallRec, Unseen, Dir
  <2>2. call' = [call EXCEPT ![c] = x]
    BY <1>5 DEF Hold, SetCall
  <2>. HIDE DEF x
  <2>. QED BY <1>0, <2>1, <2>2, OneEvent DEF LegalMove
<1>6. CASE HoldAnswer(c)
  BY <1>6, HoldAnswerFields, NoEventStep DEF Unseen, Dir
<1>7. CASE SetCurrent(c)
  BY <1>7, NoEventStep DEF SetCurrent, Unseen
<1>8. CASE Transfer(c)
  <2>1. PICK ok \in BOOLEAN : SetCall(c, [call[c] EXCEPT !.sub = ok])
    BY <1>8 DEF Transfer
  <2>. DEFINE x == [call[c] EXCEPT !.sub = ok]
  <2>2. Unseen(call[c], x)
    BY <1>0 DEF CallRec, Unseen, Dir
  <2>3. call' = [call EXCEPT ![c] = x]
    BY <2>1 DEF SetCall
  <2>. HIDE DEF x
  <2>. QED BY <1>0, <2>2, <2>3, OneEvent DEF LegalMove
<1>. QED BY <1>1, <1>2, <1>3, <1>4, <1>5, <1>6, <1>7, <1>8 DEF UserNext

\* A REFER that is accepted begins the call to the target.
LEMMA ReferEvent ==
  ASSUME IInv, NEW c \in Call, NEW c2 \in Call, NEW n \in Notifier, Refer(c, c2, n)
  PROVE  EventStep
<1>. DEFINE x == [call[c] EXCEPT !.not = n]
<1>0. call[c] \in CallRec /\ RecordOK(call[c]) /\ RecordOK(call[c2]) /\ call \in [Call -> CallRec]
  BY DEF IInv, GoodCalls
<1>1. CanAlloc(c2) /\ call[c].sess = "up" /\ call' = [call EXCEPT ![c] = x, ![c2] = Connecting(n)]
  BY DEF Refer
<1>2. c # c2 /\ call[c2].st = "FREE"
  BY <1>0, <1>1 DEF CanAlloc, RecordOK
<1>3. Unseen(call[c], x)
  BY <1>0 DEF CallRec, Unseen, Dir
<1>. HIDE DEF x
<1>4. /\ call'[c] = x /\ call'[c2] = Connecting(n)
      /\ \A d \in Call \ {c, c2} : call'[d] = call[d]
  BY <1>0, <1>1, <1>2
<1>5. LegalMove(call[c2], call'[c2])
  BY <1>1, <1>2, <1>4, ConnectingBegins DEF CanAlloc
<1>6. \A d \in Call \ {c2} : Unseen(call[d], call'[d])
  BY <1>3, <1>4 DEF Unseen
<1>. QED BY <1>5, <1>6, Zenon DEF EventStep

\* The callbacks of the SIP session and of the REFER subscriptions.
LEMMA SessionEvent ==
  ASSUME IInv, NEW c \in Call, SessionNext(c)
  PROVE  EventStep \/ Closing
<1>0. /\ call[c] \in CallRec /\ RecordOK(call[c]) /\ call \in [Call -> CallRec]
      /\ calls \in Seq(Call) /\ {} \in SUBSET (Notifier \cup {None})
  BY DEF IInv, GoodCalls
<1>. DEFINE told == [call[c] EXCEPT !.ev = "CLOSED"]
<1>a. ASSUME call[c].st = "FREE"
      PROVE  /\ told \in CallRec /\ told.ev = "CLOSED" /\ told.st = "FREE"
             /\ call[c].ev \in {None, "CLOSED"}
  BY <1>0, <1>a DEF CallRec, Event, RecordOK
<1>1. CASE IncomingRefused(c)
  <2>1. call' = Resumed(calls, [call EXCEPT ![c] = told]) /\ call[c].st = "FREE"
    BY <1>1 DEF IncomingRefused, Acceptable, CanAlloc
  <2>. HIDE DEF told
  <2>. QED BY <1>0, <1>a, <2>1, OneEventResumed
<1>2. CASE IncomingBlocked(c)
  <2>1. call' = [call EXCEPT ![c] = told] /\ call[c].st = "FREE"
    BY <1>2 DEF IncomingBlocked, Acceptable, CanAlloc
  <2>. HIDE DEF told
  <2>2. LegalMove(call[c], told)
    BY <1>a, <2>1 DEF LegalMove, Dir
  <2>. QED BY <1>0, <2>1, <2>2, OneEvent
<1>3. CASE IncomingAccepted(c)
  <2>. DEFINE a == Allocated("INCOMING", "uas", None)
              r == [a EXCEPT !.tmr = LocalTimeout]
  <2>1. /\ a \in CallRec /\ RecordOK(a) /\ a.st = "INCOMING" /\ a.mnat = UseMnat
        /\ a.ev = None /\ a.out = FALSE
    BY <1>3, AllocatedOK DEF IncomingAccepted, Acceptable, CanAlloc
  <2>2. PICK x \in IF UseMnat THEN {r} ELSE Announced(r) : call' = [call EXCEPT ![c] = x]
    BY <1>3 DEF IncomingAccepted
  <2>. HIDE DEF a
  <2>3. /\ r \in CallRec /\ RecordOK(r) /\ r.st = "INCOMING" /\ r.mnat = UseMnat
        /\ r.ev = None /\ r.out = FALSE
    BY <2>1, ConfigAssumption DEF CallRec, RecordOK
  <2>. HIDE DEF r
  <2>4. x.st = "INCOMING" /\ x.ev \in {None, "INCOMING"} /\ x.out = FALSE
    BY <2>2, <2>3, AnnouncedOK
  <2>5. call[c].st = "FREE"
    BY <1>3 DEF IncomingAccepted, Acceptable, CanAlloc
  <2>6. LegalMove(call[c], x)
    BY <2>4, <2>5 DEF LegalMove, Dir
  <2>. QED BY <1>0, <2>2, <2>6, OneEvent
<1>4. CASE MnatFail(c)
  BY <1>0, <1>4 DEF MnatFail, Live, Closing
<1>5. CASE MnatDone(c)
  <2>. DEFINE r == [call[c] EXCEPT !.mnat = FALSE]
  <2>1. /\ r \in CallRec /\ RecordOK(r) /\ r.st = call[c].st /\ r.ev = call[c].ev
        /\ r.out = call[c].out /\ ~r.mnat
    BY <1>0 DEF CallRec, RecordOK
  <2>2. PICK x : /\ SetCall(c, x)
                 /\ \/ x = r
                    \/ \E m \in {"null", "uac"} : x = [r EXCEPT !.sess = m]
                    \/ r.st = "INCOMING" /\ x \in Announced(r)
    BY <1>5 DEF MnatDone
  <2>3. r.st = "INCOMING" => r.ev = None /\ ~r.out
    BY <1>0, <1>5, <2>1 DEF MnatDone, RecordOK
  <2>. HIDE DEF r
  <2>4. x.st = r.st /\ x.out = r.out /\ (x.ev = r.ev \/ (r.st = "INCOMING" /\ x.ev = "INCOMING"))
    BY <2>1, <2>2, AnnouncedOK DEF CallRec
  <2>5. LegalMove(call[c], x)
    BY <2>1, <2>3, <2>4
       DEF LegalMove, Unseen, Dir, Events!Follow, Events!NoEvent, None
  <2>. QED BY <1>0, <2>2, <2>5, OneEvent DEF SetCall
<1>6. CASE MnatBlocked(c)
  <2>1. call' = [call EXCEPT ![c] = Freed("CLOSED")]
    BY <1>6 DEF MnatBlocked
  <2>2. LegalMove(call[c], Freed("CLOSED"))
    BY <1>0, <1>6 DEF MnatBlocked, LegalMove, Dir, Freed, RecordOK
  <2>. QED BY <1>0, <2>1, <2>2, OneEvent
<1>7. ASSUME NEW st \in State, NEW media \in BOOLEAN, Progr(c, st, media) PROVE EventStep
  <2>. DEFINE x == [call[c] EXCEPT !.st = st, !.tmr = FALSE, !.media = media,
                       !.ev = IF media THEN "PROGRESS" ELSE "RINGING"]
  <2>1. /\ call[c].sess = "uac" /\ st \in {"RINGING", "EARLY", call[c].st}
        /\ call' = [call EXCEPT ![c] = x]
    BY <1>7 DEF Progr, SetCall
  <2>2. /\ call[c].st \in {"OUTGOING", "RINGING", "EARLY"} /\ call[c].out
        /\ call[c].ev \in {None, "RINGING", "PROGRESS"}
    BY <1>0, <2>1 DEF RecordOK, CallRec, State
  <2>3. x.st = st /\ x.out = call[c].out /\ x.ev \in {"RINGING", "PROGRESS"}
    BY <1>0 DEF CallRec
  <2>. HIDE DEF x
  <2>4. LegalMove(call[c], x)
    BY <2>1, <2>2, <2>3 DEF LegalMove, Dir, Events!Follow, Events!NoEvent, None
  <2>. QED BY <1>0, <2>1, <2>4, OneEvent
<1>8. ASSUME NEW media \in BOOLEAN, ProgrHangup(c, media) PROVE Closing
  BY <1>0, <1>8 DEF ProgrHangup, Closing, RecordOK
<1>9. CASE Estab(c)
  <2>. DEFINE x == [call[c] EXCEPT !.st = "ESTABLISHED", !.sess = "up",
                   !.tmr = FALSE, !.media = TRUE, !.not = None, !.ev = "ESTABLISHED"]
  <2>1. call' = [call EXCEPT ![c] = x]
    BY <1>9 DEF Estab
  <2>2. \/ call[c].st \in {"OUTGOING", "RINGING", "EARLY"}
        \/ call[c].st = "INCOMING"
    BY <1>0, <1>9 DEF Estab, RecordOK, CallRec, State
  <2>3. x.st = "ESTABLISHED" /\ x.out = call[c].out /\ x.ev = "ESTABLISHED"
    BY <1>0 DEF CallRec
  <2>. HIDE DEF x
  <2>4. LegalMove(call[c], x)
    BY <1>0, <2>2, <2>3 DEF LegalMove, RecordOK, Dir, Events!Follow, Events!NoEvent, None
  <2>. QED BY <1>0, <2>1, <2>4, OneEvent
<1>10. CASE SessClose(c)
  <2>1. {call[c].not} \in SUBSET (Notifier \cup {None}) /\ call[c].st # "FREE"
    BY <1>0, <1>10 DEF SessClose, RecordOK, CallRec
  <2>. QED BY <1>0, <1>10, <2>1 DEF SessClose, Closing
<1>11. ASSUME NEW c2 \in Call, NEW n \in Notifier, Refer(c, c2, n) PROVE EventStep
  BY <1>11, ReferEvent
<1>12. CASE ReferFails(c)
  BY <1>12, DropEvent DEF ReferFails
<1>13. CASE SubNotify(c)
  BY <1>0, <1>13 DEF SubNotify, Closing, RecordOK
<1>14. CASE SubClose(c)
  <2>. DEFINE x == [call[c] EXCEPT !.sub = FALSE]
  <2>1. Unseen(call[c], x)
    BY <1>0 DEF CallRec, Unseen, Dir
  <2>2. call' = [call EXCEPT ![c] = x]
    BY <1>14 DEF SubClose, SetCall
  <2>. HIDE DEF x
  <2>. QED BY <1>0, <2>1, <2>2, OneEvent DEF LegalMove
<1>. QED BY <1>1, <1>2, <1>3, <1>4, <1>5, <1>6, <1>7, <1>8, <1>9, <1>10, <1>11, <1>12,
            <1>13, <1>14 DEF SessionNext

\* Every step is seen by the application as a step of CallEvents, or not at all.
LEMMA NextEvent ==
  ASSUME IInv, [Next]_vars
  PROVE  EventStep \/ Closing \/ UNCHANGED call
<1>1. ASSUME NEW c \in Call, TimerNext(c) PROVE Closing
  <2>1. call[c].st # "FREE" /\ CloseCall(c, {}) /\ {} \in SUBSET (Notifier \cup {None})
    BY <1>1 DEF IInv, GoodCalls, RecordOK, TimerNext, InviteTimeout, RtpTimedOut, MediaError
  <2>. QED BY <2>1 DEF Closing
<1>2. ASSUME NEW n \in Notifier, NotClose(n) PROVE EventStep \/ UNCHANGED call
  <2>1. CASE notif[n].owner = None
    BY <1>2, <2>1 DEF NotClose
  <2>2. CASE notif[n].owner # None
    <3>1. notif[n].owner \in Call
      BY <2>2 DEF IInv, NotifRec
    <3>2. call' = [call EXCEPT ![notif[n].owner].not = None]
      BY <1>2, <2>2 DEF NotClose
    <3>. QED BY <3>1, <3>2, DropEvent
  <2>. QED BY <2>1, <2>2
<1>. QED BY <1>1, <1>2, UserEvent, SessionEvent DEF Next, vars

\* In every configuration the events of every call obey the life cycle that CallEvents
\* describes: whatever the peer, the user and the timers do, an application such as the menu
\* is told of each call in that order (ua_event, call_event_handler).
THEOREM EventsImplemented == Spec => ImplementsEvents
<1>1. Init => Events!Init
  BY DEF Init, Events!Init, Freed, Direction, Events!NoEvent, None
<1>2. IInv /\ [Next]_vars =>
         Events!Next \/ UNCHANGED <<[c \in Call |-> call[c].ev], [c \in Call |-> Direction(c)]>>
  <2>. SUFFICES ASSUME IInv, [Next]_vars
                PROVE  Events!Next
                       \/ UNCHANGED <<[c \in Call |-> call[c].ev], [c \in Call |-> Direction(c)]>>
    OBVIOUS
  <2>1. CASE UNCHANGED call
    BY <2>1 DEF Direction
  <2>. QED BY <2>1, NextEvent, EventStepMaps, ClosingMaps
<1>. QED BY <1>1, <1>2, Invariant, PTL DEF Spec, ImplementsEvents, Events!Spec, Events!evars
-----------------------------------------------------------------------------
(***************************************************************************)
(* Action properties of the list and of the hold flags.                    *)
(***************************************************************************)

\* resume_call leaves no call of the list on hold after the one it has taken off hold,
\* and one of them is not on hold.
LEMMA ResumedLast ==
  ASSUME NEW cs \in [Call -> CallRec], \A d \in Call : RecordOK(cs[d]), NEW s, ListOK(s, cs)
  PROVE  /\ s = <<>> \/ \E i \in 1..Len(s) : ~Resumed(s, cs)[s[i]].held
         /\ \A i, j \in 1..Len(s) :
               cs[s[i]].held /\ ~Resumed(s, cs)[s[i]].held /\ i < j => ~Resumed(s, cs)[s[j]].held
<1>1. s \in Seq(Call) /\ DOMAIN s = 1..Len(s) /\ Len(s) \in Nat
  BY DEF ListOK
<1>2. CASE HeldAt(s, cs) = {}
  <2>1. Resumed(s, cs) = cs /\ \A i \in 1..Len(s) : ~cs[s[i]].held
    BY <1>1, <1>2 DEF Resumed, HeldAt
  <2>2. s = <<>> \/ 1 \in 1..Len(s)
    BY <1>1
  <2>. QED BY <2>1, <2>2
<1>3. CASE HeldAt(s, cs) # {}
  <2>1. PICK m \in HeldAt(s, cs) :
            /\ \A k \in HeldAt(s, cs) : k <= m
            /\ m = CHOOSE j \in HeldAt(s, cs) : \A k \in HeldAt(s, cs) : k <= j
    BY <1>1, <1>3, LastExists DEF HeldAt
  <2>2. m \in 1..Len(s) /\ s[m] \in Call /\ cs[s[m]].held /\ cs[s[m]].sess # "null"
    BY <1>1, <2>1 DEF HeldAt, RecordOK
  <2>3. Resumed(s, cs) = [cs EXCEPT ![s[m]] = [cs[s[m]] EXCEPT !.held = (cs[s[m]].sess = "null")]]
    BY <1>3, <2>1 DEF Resumed
  <2>4. ~Resumed(s, cs)[s[m]].held
    BY <2>2, <2>3 DEF CallRec
  <2>5. \A i \in 1..Len(s) : i # m => Resumed(s, cs)[s[i]] = cs[s[i]]
    BY <1>1, <2>2, <2>3 DEF ListOK
  <2>6. \A j \in 1..Len(s) : m < j => ~cs[s[j]].held
    <3>. SUFFICES ASSUME NEW j \in 1..Len(s), m < j, cs[s[j]].held PROVE FALSE
      OBVIOUS
    <3>1. j \in HeldAt(s, cs)
      BY <1>1 DEF HeldAt
    <3>2. j <= m
      BY <2>1, <3>1
    <3>3. \A a, b \in 1..Len(s) : ~(a < b /\ b <= a)
      BY <1>1
    <3>. QED BY <2>2, <3>2, <3>3
  <2>7. ASSUME NEW i \in 1..Len(s), NEW j \in 1..Len(s),
               cs[s[i]].held, ~Resumed(s, cs)[s[i]].held, i < j
        PROVE  ~Resumed(s, cs)[s[j]].held
    <3>1. i = m
      BY <2>5, <2>7
    <3>2. j # m
      BY <1>1, <2>7, <3>1
    <3>. QED BY <2>5, <2>6, <2>7, <3>1, <3>2
  <2>. QED BY <2>2, <2>4, <2>7
<1>. QED BY <1>2, <1>3

\* When a call the application knows of is closed, a remaining call is off hold, and no
\* call nearer the tail of the list than the one resumed stays on hold.
THEOREM ClosingResumes == Spec => CloseResumesLast
<1>1. ASSUME IInv, ListOK(calls, call), [Next]_vars,
             NEW c \in Call, call[c].ev \notin {None, "CLOSED"}, call'[c].ev = "CLOSED"
      PROVE  /\ calls' = <<>> \/ \E i \in DOMAIN calls' : ~call'[calls'[i]].held
             /\ \A i, j \in DOMAIN calls' :
                   call[calls'[i]].held /\ ~call'[calls'[i]].held /\ i < j
                   => ~call'[calls'[j]].held
  <2>1. ~EventStep /\ ~UNCHANGED call
    <3>1. Events!Follow(Dir(call[c]), call[c].ev)
             \subseteq {"INCOMING", "RINGING", "PROGRESS", "ESTABLISHED"}
      BY DEF Events!Follow
    <3>. QED BY <1>1, <3>1 DEF EventStep, LegalMove, Unseen, None
  <2>2. PICK e \in Call, done \in SUBSET (Notifier \cup {None}) : call[e].st # "FREE" /\ CloseCall(e, done)
    BY <1>1, <2>1, NextEvent DEF Closing
  <2>. DEFINE cs == [call EXCEPT ![e] = Freed("CLOSED")]
              t == Unlink(calls, e)
  <2>3. call \in [Call -> CallRec] /\ Freed("CLOSED") \in CallRec
    BY <1>1, FreedType DEF IInv, GoodCalls, Event
  <2>4. /\ cs \in [Call -> CallRec] /\ cs[e].st = "FREE"
        /\ \A d \in Call \ {e} : cs[d] = call[d]
    BY <2>3 DEF Freed
  <2>5. \A d \in Call : RecordOK(cs[d])
    BY <1>1, <2>3, FreedOK DEF IInv, GoodCalls
  <2>6. calls' = t /\ call' = Resumed(t, cs)
    BY <2>2 DEF CloseCall
  <2>. HIDE DEF cs
  <2>7. ListOK(t, cs)
    BY <1>1, <2>2, <2>4, ListUnlink DEF SameLive
  <2>. HIDE DEF t
  <2>8. /\ t \in Seq(Call) /\ DOMAIN t = 1..Len(t)
        /\ \A i \in 1..Len(t) : t[i] \in Call /\ t[i] # e
    BY <2>4, <2>7 DEF ListOK
  <2>. QED BY <2>4, <2>5, <2>6, <2>7, <2>8, ResumedLast
<1>2. ASSUME IInv, ListOK(calls, call), [Next]_vars
      PROVE  (\E c \in Call : call[c].ev \notin {None, "CLOSED"} /\ call'[c].ev = "CLOSED")
             => /\ calls' = <<>> \/ \E i \in DOMAIN calls' : ~call'[calls'[i]].held
                /\ \A i, j \in DOMAIN calls' :
                     /\ call[calls'[i]].held /\ ~call'[calls'[i]].held
                     /\ i < j
                     => ~call'[calls'[j]].held
  BY <1>1, <1>2
<1>. QED BY <1>2, Invariant, ListInvariant, PTL DEF Spec, CloseResumesLast

\* The place of a call that is in the list.
LEMMA PositionOf ==
  ASSUME NEW s, NEW cs, ListOK(s, cs), NEW c \in Call, cs[c].st # "FREE"
  PROVE  /\ Position(s, c) \in 1..Len(s) /\ s[Position(s, c)] = c
         /\ \A i \in 1..Len(s) : s[i] = c => i = Position(s, c)
<1>1. DOMAIN s = 1..Len(s)
  BY DEF ListOK
<1>2. PICK i \in DOMAIN s : s[i] = c
  BY <1>1 DEF ListOK
<1>3. Position(s, c) \in DOMAIN s /\ s[Position(s, c)] = c
  BY <1>2 DEF Position
<1>. QED BY <1>1, <1>3 DEF ListOK

\* Two calls that are in both lists, s and t, and change places: the one that was first is
\* now the last of t.
OnlyToTail(s, t) ==
    \A i, j \in 1..Len(s), k, l \in 1..Len(t) :
        s[i] = t[k] /\ s[j] = t[l] /\ i < j /\ l < k => k = Len(t)

\* list_append leaves the calls before the new one in their order.
LEMMA AppendOrder ==
  ASSUME NEW s \in Seq(Call), NEW c \in Call, \A i, j \in 1..Len(s) : s[i] = s[j] => i = j
  PROVE  OnlyToTail(s, Append(s, c))
<1>. DEFINE t == Append(s, c)
<1>1. /\ Len(s) \in Nat /\ Len(t) = Len(s) + 1
      /\ \A k \in 1..Len(s) : t[k] = s[k]
  BY AppendProperties
<1>. HIDE DEF t
<1>2. ASSUME NEW i \in 1..Len(s), NEW j \in 1..Len(s), NEW k \in 1..Len(t), NEW l \in 1..Len(t),
             s[i] = t[k], s[j] = t[l], i < j, l < k, k # Len(t)
      PROVE  FALSE
  <2>1. k \in 1..Len(s) /\ l \in 1..Len(s)
    BY <1>1, <1>2
  <2>2. i = k /\ j = l
    BY <1>1, <1>2, <2>1
  <2>. QED BY <1>1, <1>2, <2>1, <2>2
<1>. QED BY <1>2 DEF OnlyToTail, t

\* Nor does list_unlink change the order of the calls that remain.
LEMMA UnlinkOrder ==
  ASSUME NEW s \in Seq(Call), NEW m \in 1..Len(s), \A i, j \in 1..Len(s) : s[i] = s[j] => i = j,
         NEW i \in 1..Len(s), NEW j \in 1..Len(s), NEW k \in 1..Len(s) - 1, NEW l \in 1..Len(s) - 1,
         s[i] = Unlink(s, s[m])[k], s[j] = Unlink(s, s[m])[l], i < j
  PROVE  ~(l < k)
<1>. DEFINE t == Unlink(s, s[m])
<1>1. /\ Len(s) \in Nat
      /\ \A x \in 1..Len(s) - 1 : t[x] = IF x < m THEN s[x] ELSE s[x + 1]
  BY UnlinkElements
<1>2. s[i] = t[k] /\ s[j] = t[l]
  OBVIOUS
<1>. HIDE DEF t
<1>3. ASSUME NEW x \in 1..Len(s) - 1, NEW y \in 1..Len(s), s[y] = t[x]
      PROVE  y = IF x < m THEN x ELSE x + 1
  <2>1. x \in 1..Len(s) /\ x + 1 \in 1..Len(s)
    BY <1>1
  <2>2. t[x] = IF x < m THEN s[x] ELSE s[x + 1]
    BY <1>1
  <2>. QED BY <1>3, <2>1, <2>2
<1>4. i = (IF k < m THEN k ELSE k + 1) /\ j = (IF l < m THEN l ELSE l + 1)
  BY <1>2, <1>3
<1>. QED BY <1>1, <1>4

\* Each kind of step moves calls to the tail only, and a new call is the last.
LEMMA ListStepOrder ==
  ASSUME IInv, ListOK(calls, call), ListStep
  PROVE  /\ OnlyToTail(calls, calls')
         /\ \A c \in Call : call[c].st = "FREE" /\ call'[c].st # "FREE" => c = calls'[Len(calls')]
<1>0. /\ calls \in Seq(Call) /\ Len(calls) \in Nat
      /\ \A i, j \in 1..Len(calls) : calls[i] = calls[j] => i = j
  BY DEF ListOK
<1>. DEFINE Last == \A c \in Call :
               call[c].st = "FREE" /\ call'[c].st # "FREE" => c = calls'[Len(calls')]
<1>1. CASE SameCalls
  <2>1. ASSUME NEW i \in 1..Len(calls), NEW j \in 1..Len(calls),
               NEW k \in 1..Len(calls), NEW l \in 1..Len(calls),
               calls[i] = calls[k], calls[j] = calls[l], i < j, l < k
        PROVE  FALSE
    <3>1. i = k /\ j = l
      BY <1>0, <2>1
    <3>. QED BY <1>0, <2>1, <3>1
  <2>2. OnlyToTail(calls, calls')
    BY <1>1, <2>1 DEF SameCalls, OnlyToTail
  <2>. QED BY <1>1, <2>2 DEF SameCalls, SameLive
<1>2. ASSUME NEW e \in Call, Added(e) PROVE OnlyToTail(calls, calls') /\ Last
  <2>1. calls'[Len(calls')] = e
    BY <1>0, <1>2, AppendProperties DEF Added
  <2>2. Last
    BY <1>2, <2>1 DEF Added, SameLive
  <2>. QED BY <1>0, <1>2, <2>2, AppendOrder DEF Added
<1>3. ASSUME NEW e \in Call, call[e].st # "FREE"
      PROVE  /\ Unlink(calls, e) \in Seq(Call) /\ Len(Unlink(calls, e)) = Len(calls) - 1
             /\ \A i, j \in 1..Len(calls), k, l \in 1..Len(calls) - 1 :
                  calls[i] = Unlink(calls, e)[k] /\ calls[j] = Unlink(calls, e)[l] /\ i < j
                  => ~(l < k)
  <2>1. PICK m \in 1..Len(calls) : calls[m] = e
    BY <1>3 DEF ListOK
  <2>2. Unlink(calls, e) \in Seq(Call) /\ Len(Unlink(calls, e)) = Len(calls) - 1
    BY <1>0, <2>1, UnlinkElements
  <2>3. ASSUME NEW i \in 1..Len(calls), NEW j \in 1..Len(calls),
               NEW k \in 1..Len(calls) - 1, NEW l \in 1..Len(calls) - 1,
               calls[i] = Unlink(calls, e)[k], calls[j] = Unlink(calls, e)[l], i < j
        PROVE  ~(l < k)
    BY <1>0, <2>1, <2>3, UnlinkOrder
  <2>. QED BY <2>2, <2>3
<1>4. ASSUME NEW e \in Call, Removed(e) PROVE OnlyToTail(calls, calls') /\ Last
  <2>1. Len(calls') = Len(calls) - 1 /\ calls' = Unlink(calls, e)
    BY <1>3, <1>4 DEF Removed
  <2>2. OnlyToTail(calls, calls')
    BY <1>3, <1>4, <2>1 DEF Removed, OnlyToTail
  <2>. QED BY <1>4, <2>2 DEF Removed, SameLive
<1>5. ASSUME NEW e \in Call, Moved(e) PROVE OnlyToTail(calls, calls') /\ Last
  <2>. DEFINE u == Unlink(calls, e)
  <2>1. u \in Seq(Call) /\ Len(u) = Len(calls) - 1
    BY <1>3, <1>5 DEF Moved
  <2>2. calls' = Append(u, e)
    BY <1>5 DEF Moved
  <2>. HIDE DEF u
  <2>3. Len(calls') = Len(calls) /\ \A k \in 1..Len(calls) - 1 : calls'[k] = u[k]
    BY <1>0, <2>1, <2>2, AppendProperties
  <2>4. ASSUME NEW i \in 1..Len(calls), NEW j \in 1..Len(calls),
               NEW k \in 1..Len(calls'), NEW l \in 1..Len(calls'),
               calls[i] = calls'[k], calls[j] = calls'[l], i < j, l < k, k # Len(calls')
        PROVE  FALSE
    <3>1. k \in 1..Len(calls) - 1 /\ l \in 1..Len(calls) - 1
      BY <1>0, <2>3, <2>4
    <3>2. calls[i] = u[k] /\ calls[j] = u[l]
      BY <2>3, <2>4, <3>1
    <3>. QED BY <1>3, <1>5, <2>4, <3>1, <3>2 DEF Moved, u
  <2>5. OnlyToTail(calls, calls')
    BY <2>4 DEF OnlyToTail
  <2>. QED BY <1>5, <2>5 DEF Moved
<1>. QED BY <1>1, <1>2, <1>4, <1>5 DEF ListStep

\* A call keeps its place among the other calls until it becomes the current one, and a new
\* call is the current one (the "current call strategy" of ua_call).
THEOREM StrategyKept == Spec => CurrentCallStrategy
<1>1. ASSUME IInv, ListOK(calls, call), ListOK(calls', call'), [Next]_vars
      PROVE  /\ \A c, d \in Call :
                  /\ Stays(c) /\ Stays(d)
                  /\ Position(calls, c) < Position(calls, d)
                  /\ Position(calls', c) > Position(calls', d)
                  => c = calls'[Len(calls')]
             /\ \A c \in Call :
                  call[c].st = "FREE" /\ call'[c].st # "FREE" => c = calls'[Len(calls')]
  <2>1. ListStep
    BY <1>1, NextStep, ReferStep DEF ListStep
  <2>2. /\ OnlyToTail(calls, calls')
        /\ \A c \in Call : call[c].st = "FREE" /\ call'[c].st # "FREE" => c = calls'[Len(calls')]
    BY <1>1, <2>1, ListStepOrder
  <2>3. ASSUME NEW c \in Call, NEW d \in Call, Stays(c), Stays(d),
               Position(calls, c) < Position(calls, d),
               Position(calls', c) > Position(calls', d)
        PROVE  c = calls'[Len(calls')]
    <3>. DEFINE i == Position(calls, c)
                j == Position(calls, d)
                k == Position(calls', c)
                l == Position(calls', d)
    <3>1. i \in 1..Len(calls) /\ j \in 1..Len(calls) /\ calls[i] = c /\ calls[j] = d
      BY <1>1, <2>3, PositionOf DEF Stays, Live
    <3>2. k \in 1..Len(calls') /\ l \in 1..Len(calls') /\ calls'[k] = c /\ calls'[l] = d
      BY <1>1, <2>3, PositionOf DEF Stays
    <3>3. l < k
      BY <2>3, <3>2
    <3>. HIDE DEF i, j, k, l
    <3>4. i < j
      BY <2>3 DEF i, j
    <3>. QED BY <2>2, <3>1, <3>2, <3>3, <3>4 DEF OnlyToTail
  <2>. QED BY <2>2, <2>3
<1>2. ASSUME ListOK(calls, call)' PROVE ListOK(calls', call')
  BY <1>2 DEF ListOK
<1>. QED BY <1>1, <1>2, Invariant, ListInvariant, PTL DEF Spec, CurrentCallStrategy
=============================================================================
