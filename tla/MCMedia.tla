------------------------------- MODULE MCMedia -------------------------------
(***************************************************************************)
(* The audio streams: the transmitter with its threads, the receiver's     *)
(* time stamps, the filters, the watch over lost RTP and the keepalive,    *)
(* and reception with and without a jitter buffer. The components share no *)
(* variable, so each is explored by itself: part names the one that moves  *)
(* while the others stay in an initial state, and what holds of every part *)
(* holds of any interleaving of them. TLC checks the values at the end of  *)
(* the definitions; the proofs that follow are for all values of the       *)
(* constants.                                                              *)
(***************************************************************************)
EXTENDS AudioTx, SequenceTheorems

CONSTANTS
    Payload, CodecOf, Wrap, Gap, Last, MaxWraps,         \* of AudioRx
    Filter, Encodes, Decodes,                            \* of AudioFilters
    Stream, Timeout, Interval, Large, Period, Method,    \* of RtpStream
    Seq16, Few, Ssrc, JbufMin, JbufMax                   \* of RtpReceive

VARIABLES
    part,   \* the component that moves
    \* AudioTx
    pollMain, pollAc, pollPsize, pollSrc, pollBuf, pollLevel, pollStarted, pollRun, pollTid,
    pollThr,
    \* AudioRx
    rxAc, pt, rxDec, player, rxBuf, set, first, last, wraps, heard, time, newest, from,
    \* AudioFilters
    enc, filtersDec, txl, rxl, at, source, failed, sent,
    \* RtpStream
    up, estab, dir, check, age, keep, flag, both, got, silent,
    \* RtpReceive
    directRecv, directPseq, directSsrc, directJbuf, directStarted, directOut, directEpoch,
    \* RtpReceive
    jbufRecv, jbufPseq, jbufSsrc, jbufJbuf, jbufStarted, jbufOut, jbufEpoch

\* The transmitter without a thread of its own, frames that come in order, reception without
\* and with a jitter buffer.
Poll == INSTANCE AudioTx WITH
    Mode <- "poll", main <- pollMain, ac <- pollAc, psize <- pollPsize, src <- pollSrc,
    buf <- pollBuf, level <- pollLevel, started <- pollStarted, run <- pollRun, tid <- pollTid,
    thr <- pollThr
Rx == INSTANCE AudioRx WITH Late <- 0, ac <- rxAc, dec <- rxDec, buf <- rxBuf
Filters == INSTANCE AudioFilters WITH dec <- filtersDec
Timers == INSTANCE RtpStream
Direct == INSTANCE RtpReceive WITH
    Source <- Ssrc, JbufMin <- 0, JbufMax <- 0, recv <- directRecv, pseq <- directPseq,
    ssrc <- directSsrc, jbuf <- directJbuf, started <- directStarted, out <- directOut,
    epoch <- directEpoch
Jbuf == INSTANCE RtpReceive WITH
    Seq16 <- Few, Source <- Ssrc, recv <- jbufRecv, pseq <- jbufPseq, ssrc <- jbufSsrc,
    jbuf <- jbufJbuf, started <- jbufStarted, out <- jbufOut, epoch <- jbufEpoch

\* What the components assume of their constants.
ASSUME PartsAssumption ==
    /\ Poll!AudioTxAssumption
    /\ Rx!AudioRxAssumption
    /\ Filters!AudioFiltersAssumption
    /\ Timers!RtpStreamAssumption
    /\ Direct!RtpReceiveAssumption
    /\ Jbuf!RtpReceiveAssumption

pollVars == <<pollMain, pollAc, pollPsize, pollSrc, pollBuf, pollLevel, pollStarted, pollRun,
      pollTid, pollThr>>
rxVars == <<rxAc, pt, rxDec, player, rxBuf, set, first, last, wraps, heard, time, newest, from>>
filtersVars == <<enc, filtersDec, txl, rxl, at, source, failed, sent>>
timersVars == <<up, estab, dir, check, age, keep, flag, both, got, silent>>
directVars == <<directRecv, directPseq, directSsrc, directJbuf, directStarted, directOut,
      directEpoch>>
jbufVars == <<jbufRecv, jbufPseq, jbufSsrc, jbufJbuf, jbufStarted, jbufOut, jbufEpoch>>

all == <<part, vars, pollVars, rxVars, filtersVars, timersVars, directVars, jbufVars>>
Parts == {"tx", "poll", "rx", "filters", "timers", "direct", "jbuf"}

\* The one that is chosen begins in any initial state, the others in one of theirs.
AllInit ==
    /\ part \in Parts
    /\ Init
    /\ Poll!Init
    /\ Rx!Init /\ (part # "rx" => newest = 0)
    /\ Filters!Init
    /\ Timers!Init /\ (part # "timers" => \A s \in Stream : dir[s])
    /\ Direct!Init
    /\ Jbuf!Init

\* Everything that does not belong to p stays as it is.
Only(p) ==
    /\ part = p /\ UNCHANGED part
    /\ IF p = "tx" THEN TRUE ELSE UNCHANGED vars
    /\ IF p = "poll" THEN TRUE ELSE UNCHANGED pollVars
    /\ IF p = "rx" THEN TRUE ELSE UNCHANGED rxVars
    /\ IF p = "filters" THEN TRUE ELSE UNCHANGED filtersVars
    /\ IF p = "timers" THEN TRUE ELSE UNCHANGED timersVars
    /\ IF p = "direct" THEN TRUE ELSE UNCHANGED directVars
    /\ IF p = "jbuf" THEN TRUE ELSE UNCHANGED jbufVars

AllNext ==
    \/ Only("tx") /\ Next
    \/ Only("poll") /\ Poll!Next
    \/ Only("rx") /\ Rx!Next
    \/ Only("filters") /\ Filters!Next
    \/ Only("timers") /\ Timers!Next
    \/ Only("direct") /\ Direct!Next
    \/ Only("jbuf") /\ Jbuf!Next

\* The fairness of each component, while it is the one that moves.
AllFairness ==
    /\ WF_all(Only("tx") /\ Stopping)
    /\ WF_all(Only("tx") /\ Encode)
    /\ WF_all(Only("tx") /\ Source)
    /\ \A t \in Thread : WF_all(Only("tx") /\ Transmit(t))
    /\ SF_all(Only("tx") /\ CloseSource)

AllSpec == AllInit /\ [][AllNext]_all /\ AllFairness

-----------------------------------------------------------------------------
\* The types of all components.
AllTypesOK ==
    /\ TypeOK /\ Poll!TypeOK /\ Rx!TypeOK /\ Filters!TypeOK /\ Timers!TypeOK
    /\ Direct!TypeOK /\ Jbuf!TypeOK

\* AudioTx: stopping ends, and what is recorded is sent; when the source's thread sends
\* itself, it has the buffer as well.
TransmitGoesOn == StopReturns /\ RecordedIsSent /\ []Poll!BufferOutlivesUsers

\* AudioRx and RtpReceive: the duration of a stream is exact across wraps of its time stamps,
\* packets are counted as lost exactly when the sequence numbers say so, each frame meets the
\* decoder of its payload type and never follows one of an earlier source.
ReceptionIsExact ==
    /\ []Rx!PlayerHasBuffer /\ []Rx!DurationIsExact /\ []Rx!PayloadIsDecoded
    /\ Direct!LossMatchesGap /\ Jbuf!LossMatchesGap /\ []Jbuf!OneSourceAtATime

\* AudioFilters: samples pass the filters in the order of their registration and back.
FramesInOrder == Filters!FramesInOrder

\* RtpStream: a stream that falls silent is found out within the timeout and one check, only
\* such a one ends the call, and while nothing is sent the path is kept open.
SilenceIsDetected ==
    []Timers!SilenceIsDetected /\ Timers!ClosedForSilence /\ []Timers!PathStaysOpen

-----------------------------------------------------------------------------
(* The values that TLC checks. *)

MCRate == [c \in Codec |-> IF c = "opus" THEN 48 ELSE 8]
MCCodecOf == [n \in {"0", "107"} |-> IF n = "107" THEN "opus" ELSE "pcmu"]
MCFilter == <<"speex_aec", "vumeter", "plc">>

-----------------------------------------------------------------------------
(* Proof of SilenceIsDetected, for any streams, timeout and intervals.       *)

\* The ticks since check_rtp_handler last ran for s, and since rtpkeep's timer did.
SinceCheck(s) == Interval - check[s]
SinceKeep(s) == Period - keep[s]

\* While it is sendrecv and watched, a stream has been silent for no longer than the timeout
\* when the check ran, and what has passed since.
Watched(s) ==
    /\ ~dir[s] => both[s] = 0
    /\ check[s] # Timers!Off /\ both[s] > SinceCheck(s) => age[s] <= Timeout + SinceCheck(s)

\* With keepalive, at most one period had passed without a packet when the timer ran, and none
\* if it found the flag clear.
Kept(s) ==
    keep[s] # Timers!Off /\ Method \in {"zero", "stun"} =>
        /\ silent[s] <= Period + SinceKeep(s)
        /\ flag[s] => silent[s] <= SinceKeep(s)

TimersInv == Timers!TypeOK /\ \A s \in Stream : up => Watched(s) /\ Kept(s)

USE DEF Timers!Off, Timers!None, Timers!Oldest, Timers!Longest

\* No stream is silent when the call begins.
LEMMA TimersInit == Timers!Init => TimersInv
<1> SUFFICES ASSUME Timers!Init PROVE TimersInv
  OBVIOUS
<1>1. {up, estab, got} \subseteq BOOLEAN
  BY Zenon DEF Timers!Init
<1>2. Timers!TypeOK
  BY <1>1, PartsAssumption DEF Timers!Init, Timers!TypeOK, Timers!RtpStreamAssumption
<1>3. \A s \in Stream : Watched(s) /\ Kept(s)
  BY PartsAssumption DEF Timers!Init, Watched, Kept, Timers!RtpStreamAssumption
<1>. QED BY <1>2, <1>3 DEF TimersInv

\* A timer that is due runs, a packet comes or goes: what is claimed of the stream holds again,
\* and nothing changes for the others.
LEMMA TimersNext == TimersInv /\ [Timers!Next]_timersVars => TimersInv'
<1> SUFFICES ASSUME TimersInv, [Timers!Next]_timersVars PROVE TimersInv'
  OBVIOUS
<1> USE DEF Timers!call, Timers!receiving, Timers!sending
<1>0. /\ Timeout \in Nat /\ Interval \in Nat /\ Interval > 0 /\ Period \in Nat /\ Period > 0
      /\ Large \in Nat /\ Timeout + Interval < Large
  BY PartsAssumption DEF Timers!RtpStreamAssumption
<1>1. /\ dir \in [Stream -> BOOLEAN] /\ check \in [Stream -> -1 .. Interval]
      /\ age \in [Stream -> -1 .. Large + Interval + 1] /\ keep \in [Stream -> -1 .. Period]
      /\ flag \in [Stream -> BOOLEAN] /\ both \in [Stream -> 0 .. Interval + 1]
      /\ silent \in [Stream -> 0 .. 2 * Period + 1]
  BY DEF TimersInv, Timers!TypeOK
<1>2. {up, estab, got} \subseteq BOOLEAN
  BY DEF TimersInv, Timers!TypeOK
<1>3. \A s \in Stream : up => Watched(s) /\ Kept(s)
  BY DEF TimersInv
<1>4. ASSUME UNCHANGED <<up, estab, got, dir, check, age, keep, flag, both, silent>>
      PROVE  TimersInv'
  BY <1>4, Zenon DEF TimersInv, Timers!TypeOK, Watched, Kept, SinceCheck, SinceKeep
<1>5. ASSUME NEW accepted \in SUBSET Stream, Timers!Establish(accepted) PROVE TimersInv'
  <2>1. up' = up /\ got' = got /\ dir' = dir /\ both' = both /\ estab' \in BOOLEAN
    BY <1>5, Zenon DEF Timers!Establish
  <2>2. /\ keep' = [s \in Stream |-> IF Method # "none" /\ s \in accepted THEN 1 ELSE -1]
        /\ flag' = [s \in Stream |-> FALSE] /\ silent' = [s \in Stream |-> 0]
    BY <1>5 DEF Timers!Establish
  <2>3. \/ check' = check /\ age' = age
        \/ check' = [s \in Stream |-> 1] /\ age' = [s \in Stream |-> 0]
    BY <1>5 DEF Timers!Establish, Timers!EnableTimeout
  <2>4. Timers!TypeOK'
    <3>1. {up, estab, got}' \subseteq BOOLEAN
      BY <1>2, <2>1, Zenon
    <3>. QED BY <1>0, <1>1, <2>1, <2>2, <2>3, <3>1 DEF Timers!TypeOK
  <2>5. ASSUME NEW s \in Stream, up PROVE Watched(s)' /\ Kept(s)'
    <3>1. Watched(s) /\ Kept(s)
      BY <1>3, <2>5
    <3>2. Watched(s)'
      BY <1>0, <1>1, <2>1, <2>3, <3>1 DEF Watched, SinceCheck
    <3>3. Kept(s)'
      BY <1>0, <2>2 DEF Kept, SinceKeep
    <3>. QED BY <3>2, <3>3
  <2>. QED BY <2>1, <2>4, <2>5 DEF TimersInv
<1>6. ASSUME NEW d \in [Stream -> BOOLEAN], Timers!Redirect(d) PROVE TimersInv'
  <2>1. /\ up' = up /\ got' = got /\ estab' = estab /\ check' = check /\ age' = age
        /\ keep' = keep /\ flag' = flag /\ silent' = silent
    BY <1>6, Zenon DEF Timers!Redirect
  <2>2. dir' = d /\ both' = [s \in Stream |-> IF d[s] THEN both[s] ELSE 0]
    BY <1>6 DEF Timers!Redirect
  <2>3. Timers!TypeOK'
    <3>1. {up, estab, got}' \subseteq BOOLEAN
      BY <1>2, <2>1, Zenon
    <3>. QED BY <1>0, <1>1, <2>1, <2>2, <3>1 DEF Timers!TypeOK
  <2>4. ASSUME NEW s \in Stream, up PROVE Watched(s)' /\ Kept(s)'
    <3>1. Watched(s) /\ Kept(s)
      BY <1>3, <2>4
    <3>2. Watched(s)'
      BY <1>0, <1>1, <2>1, <2>2, <3>1 DEF Watched, SinceCheck
    <3>3. Kept(s)'
      BY <2>1, <3>1 DEF Kept, SinceKeep
    <3>. QED BY <3>2, <3>3
  <2>. QED BY <2>1, <2>3, <2>4 DEF TimersInv
<1>7. ASSUME NEW s \in Stream, Timers!CheckRtp(s) PROVE TimersInv'
  <2>1. /\ got' = got /\ estab' = estab /\ dir' = dir /\ flag' = flag /\ both' = both
        /\ silent' = silent
    BY <1>7, Zenon DEF Timers!CheckRtp
  <2>2. CASE Timers!Close /\ UNCHANGED age
    <3>1. /\ up' = FALSE /\ age' = age
          /\ check' = [r \in Stream |-> -1] /\ keep' = [r \in Stream |-> -1]
      BY <2>2 DEF Timers!Close
    <3>2. {up, estab, got}' \subseteq BOOLEAN
      BY <1>2, <2>1, <3>1, Zenon
    <3>. QED BY <1>0, <1>1, <2>1, <3>1, <3>2 DEF TimersInv, Timers!TypeOK
  <2>3. ASSUME ~(dir[s] /\ age[s] \in Timeout + 1 .. Large),
               check' = [check EXCEPT ![s] = Interval],
               age' = IF dir[s] /\ age[s] > Large THEN [age EXCEPT ![s] = -1] ELSE age,
               UNCHANGED <<up, keep>>
        PROVE  TimersInv'
    <3>1. {up, estab, got}' \subseteq BOOLEAN
      BY <1>2, <2>1, <2>3, Zenon
    <3>2. Timers!TypeOK'
      BY <1>0, <1>1, <2>1, <2>3, <3>1 DEF Timers!TypeOK
    <3>3. ASSUME NEW r \in Stream, up PROVE Watched(r)' /\ Kept(r)'
      <4>1. Watched(r) /\ Kept(r)
        BY <1>3, <3>3
      <4>2. CASE r = s
        <5>1. check'[r] = Interval /\ (dir[r] => age'[r] <= Timeout)
          BY <1>0, <1>1, <2>3, <4>2
        <5>. QED BY <1>0, <1>1, <2>1, <2>3, <4>1, <5>1 DEF Watched, Kept, SinceCheck, SinceKeep
      <4>3. CASE r # s
        <5>1. check'[r] = check[r] /\ age'[r] = age[r]
          BY <1>1, <2>3, <4>3
        <5>. QED BY <2>1, <2>3, <4>1, <5>1 DEF Watched, Kept, SinceCheck, SinceKeep
      <4>. QED BY <4>2, <4>3
    <3>. QED BY <2>3, <3>2, <3>3 DEF TimersInv
  <2>. QED BY <1>7, <2>2, <2>3 DEF Timers!CheckRtp
<1>8. ASSUME NEW s \in Stream, Timers!Receive(s) PROVE TimersInv'
  <2>1. /\ up' = up /\ got' = TRUE /\ estab' = estab /\ dir' = dir /\ both' = both
        /\ check' = check /\ keep' = keep /\ flag' = flag /\ silent' = silent
        /\ age' = [age EXCEPT ![s] = 0]
    BY <1>8, Zenon DEF Timers!Receive
  <2>2. {up, estab, got}' \subseteq BOOLEAN
    BY <1>2, <2>1, Zenon
  <2>3. Timers!TypeOK'
    BY <1>0, <1>1, <2>1, <2>2 DEF Timers!TypeOK
  <2>4. ASSUME NEW r \in Stream, up PROVE Watched(r)' /\ Kept(r)'
    <3>1. Watched(r) /\ Kept(r)
      BY <1>3, <2>4
    <3>2. age'[r] \in {age[r], 0}
      BY <1>1, <2>1
    <3>. QED BY <1>0, <1>1, <2>1, <3>1, <3>2 DEF Watched, Kept, SinceCheck, SinceKeep
  <2>. QED BY <2>1, <2>3, <2>4 DEF TimersInv
<1>9. ASSUME NEW s \in Stream, Timers!Send(s) PROVE TimersInv'
  <2>1. /\ up' = up /\ got' = got /\ estab' = estab /\ dir' = dir /\ both' = both
        /\ check' = check /\ keep' = keep /\ age' = age
        /\ silent' = [silent EXCEPT ![s] = 0]
    BY <1>9, Zenon DEF Timers!Send
  <2>2. flag' = flag \/ flag' = [flag EXCEPT ![s] = TRUE]
    BY <1>9 DEF Timers!Send
  <2>3. {up, estab, got}' \subseteq BOOLEAN
    BY <1>2, <2>1, Zenon
  <2>4. Timers!TypeOK'
    <3>1. silent' \in [Stream -> 0 .. 2 * Period + 1]
      BY <1>0, <1>1, <2>1
    <3>2. flag' \in [Stream -> BOOLEAN]
      BY <1>1, <2>2
    <3>. QED BY <1>1, <2>1, <2>3, <3>1, <3>2 DEF Timers!TypeOK
  <2>5. ASSUME NEW r \in Stream, up PROVE Watched(r)' /\ Kept(r)'
    <3>1. Watched(r) /\ Kept(r)
      BY <1>3, <2>5
    <3>2. silent'[r] = 0 \/ (silent'[r] = silent[r] /\ flag'[r] = flag[r])
      BY <1>1, <2>1, <2>2
    <3>. QED BY <1>0, <1>1, <2>1, <3>1, <3>2 DEF Watched, Kept, SinceCheck, SinceKeep
  <2>. QED BY <2>1, <2>4, <2>5 DEF TimersInv
<1>10. ASSUME NEW s \in Stream, NEW unused \in BOOLEAN, Timers!KeepTimeout(s, unused)
       PROVE  TimersInv'
  <2>1. /\ up' = up /\ got' = got /\ estab' = estab /\ dir' = dir /\ both' = both
        /\ check' = check /\ age' = age
        /\ keep' = [keep EXCEPT ![s] = Period] /\ flag' = [flag EXCEPT ![s] = FALSE]
        /\ keep[s] = 0
    BY <1>10, Zenon DEF Timers!KeepTimeout
  <2>2. /\ silent' = silent \/ silent' = [silent EXCEPT ![s] = 0]
        /\ ~flag[s] /\ Method \in {"zero", "stun"} => silent' = [silent EXCEPT ![s] = 0]
    BY <1>10 DEF Timers!KeepTimeout, Timers!SendKeepalive
  <2>3. {up, estab, got}' \subseteq BOOLEAN
    BY <1>2, <2>1, Zenon
  <2>4. Timers!TypeOK'
    <3>1. keep' \in [Stream -> -1 .. Period] /\ flag' \in [Stream -> BOOLEAN]
      BY <1>0, <1>1, <2>1
    <3>2. silent' \in [Stream -> 0 .. 2 * Period + 1]
      BY <1>0, <1>1, <2>2
    <3>. QED BY <1>1, <2>1, <2>3, <3>1, <3>2 DEF Timers!TypeOK
  <2>5. ASSUME NEW r \in Stream, up PROVE Watched(r)' /\ Kept(r)'
    <3>1. Watched(r) /\ Kept(r)
      BY <1>3, <2>5
    <3>2. Watched(r)'
      BY <2>1, <3>1 DEF Watched, SinceCheck
    <3>3. CASE r = s
      <4>1. keep'[r] = Period /\ ~flag'[r]
        BY <1>1, <2>1, <3>3
      <4>2. Method \in {"zero", "stun"} => silent'[r] <= Period
        BY <1>0, <1>1, <2>1, <2>2, <3>1, <3>3 DEF Kept, SinceKeep
      <4>. QED BY <1>0, <3>2, <4>1, <4>2 DEF Kept, SinceKeep
    <3>4. CASE r # s
      <4>1. keep'[r] = keep[r] /\ flag'[r] = flag[r] /\ silent'[r] = silent[r]
        BY <1>1, <2>1, <2>2, <3>4
      <4>. QED BY <3>1, <3>2, <4>1 DEF Kept, SinceKeep
    <3>. QED BY <3>3, <3>4
  <2>. QED BY <2>1, <2>4, <2>5 DEF TimersInv
<1>11. ASSUME Timers!Tick PROVE TimersInv'
  <2>1. up' = up /\ got' = got /\ estab' = estab /\ dir' = dir /\ flag' = flag /\ up
    BY <1>11, Zenon DEF Timers!Tick
  <2>2. /\ check' = [s \in Stream |-> IF check[s] = -1 THEN -1 ELSE check[s] - 1]
        /\ keep' = [s \in Stream |-> IF keep[s] = -1 THEN -1 ELSE keep[s] - 1]
        /\ age' = [s \in Stream |-> IF age[s] \in {-1, Large + Interval + 1}
                                   THEN age[s] ELSE age[s] + 1]
        /\ both' = [s \in Stream |-> IF dir[s] /\ both[s] <= Interval THEN both[s] + 1 ELSE both[s]]
        /\ silent' = [s \in Stream |-> IF keep[s] = -1 \/ silent[s] = 2 * Period + 1 THEN silent[s]
                                      ELSE silent[s] + 1]
        /\ \A s \in Stream : check[s] # 0 /\ keep[s] # 0
    BY <1>11 DEF Timers!Tick
  <2>3. {up, estab, got}' \subseteq BOOLEAN
    BY <1>2, <2>1, Zenon
  <2>4. Timers!TypeOK'
    <3>1. check' \in [Stream -> -1 .. Interval] /\ keep' \in [Stream -> -1 .. Period]
      BY <1>0, <1>1, <2>2
    <3>2. age' \in [Stream -> -1 .. Large + Interval + 1]
      <4>1. ASSUME NEW n \in -1 .. Large + Interval + 1, n \notin {-1, Large + Interval + 1}
            PROVE  n + 1 \in -1 .. Large + Interval + 1
        BY <1>0, <4>1
      <4>. QED BY <1>1, <2>2, <4>1
    <3>3. both' \in [Stream -> 0 .. Interval + 1]
      BY <1>0, <1>1, <2>2
    <3>4. silent' \in [Stream -> 0 .. 2 * Period + 1]
      BY <1>0, <1>1, <2>2
    <3>. QED BY <1>1, <2>1, <2>3, <3>1, <3>2, <3>3, <3>4 DEF Timers!TypeOK
  <2>5. ASSUME NEW s \in Stream PROVE Watched(s)' /\ Kept(s)'
    <3>1. Watched(s) /\ Kept(s)
      BY <1>3, <2>1
    <3>2. check[s] # 0 /\ keep[s] # 0
      BY <2>2
    <3>3. /\ check'[s] = IF check[s] = -1 THEN -1 ELSE check[s] - 1
          /\ age'[s] = IF age[s] \in {-1, Large + Interval + 1} THEN age[s] ELSE age[s] + 1
          /\ both'[s] = IF dir[s] /\ both[s] <= Interval THEN both[s] + 1 ELSE both[s]
      BY <2>2
    <3>4. /\ keep'[s] = IF keep[s] = -1 THEN -1 ELSE keep[s] - 1
          /\ silent'[s] = IF keep[s] = -1 \/ silent[s] = 2 * Period + 1 THEN silent[s]
                          ELSE silent[s] + 1
      BY <2>2
    <3>5. Watched(s)'
      BY <1>0, <1>1, <2>1, <3>1, <3>2, <3>3 DEF Watched, SinceCheck
    <3>6. Kept(s)'
      BY <1>0, <1>1, <2>1, <3>1, <3>2, <3>4 DEF Kept, SinceKeep
    <3>. QED BY <3>5, <3>6
  <2>. QED BY <2>4, <2>5 DEF TimersInv
<1>. QED
  BY <1>4, <1>5, <1>6, <1>7, <1>8, <1>9, <1>10, <1>11 DEF Timers!Next, Timers!vars, timersVars

\* What the invariant says is what is claimed.
LEMMA TimersClaims == TimersInv => Timers!SilenceIsDetected /\ Timers!PathStaysOpen
<1> SUFFICES ASSUME TimersInv, NEW s \in Stream, up
             PROVE  /\ check[s] # -1 /\ both[s] > Interval => age[s] <= Timeout + Interval
                    /\ keep[s] # -1 /\ Method \in {"zero", "stun"} => silent[s] <= 2 * Period
  BY DEF Timers!SilenceIsDetected, Timers!PathStaysOpen
<1>1. /\ Timeout \in Nat /\ Interval \in Nat /\ Period \in Nat
  BY PartsAssumption DEF Timers!RtpStreamAssumption
<1>2. /\ check[s] \in -1 .. Interval /\ age[s] \in Int /\ keep[s] \in -1 .. Period
      /\ both[s] \in 0 .. Interval + 1 /\ silent[s] \in Int
  BY <1>1 DEF TimersInv, Timers!TypeOK
<1>3. Watched(s) /\ Kept(s)
  BY DEF TimersInv
<1>. QED BY <1>1, <1>2, <1>3 DEF Watched, Kept, SinceCheck, SinceKeep

\* Only a stream that sends and receives and was silent for too long closes the call.
LEMMA TimersClose ==
  [Timers!Next]_timersVars =>
    (up /\ ~up' => \E s \in Stream : dir[s] /\ age[s] > Timeout)
<1> SUFFICES ASSUME Timers!Next, up, ~up' PROVE \E s \in Stream : dir[s] /\ age[s] > Timeout
  BY Zenon DEF timersVars
<1>1. \E s \in Stream : Timers!CheckRtp(s)
  BY Zenon DEF Timers!Next, Timers!Establish, Timers!Redirect, Timers!Receive, Timers!Send,
     Timers!KeepTimeout, Timers!Tick, Timers!call, Timers!vars
<1>2. PICK s \in Stream : Timers!CheckRtp(s)
  BY <1>1
<1>3. dir[s] /\ age[s] \in Timeout + 1 .. Large
  BY <1>2, Zenon DEF Timers!CheckRtp
<1>4. age[s] > Timeout
  BY <1>3, PartsAssumption DEF Timers!RtpStreamAssumption
<1>. QED BY <1>3, <1>4
-----------------------------------------------------------------------------
(* Proof of the parts of ReceptionIsExact on the receiver, for any number of time stamps,  *)
(* codecs and payload types.                                                               *)

\* The decoder is that of the payload type, and the player has its buffer.
Decoding ==
    /\ rxAc \in Codec \cup {Rx!None} /\ pt \in Payload \cup {Rx!None} /\ rxDec \in BOOLEAN
    /\ player \in {"off", "idle", "reading"} /\ rxBuf \in BOOLEAN
    /\ Rx!PlayerHasBuffer /\ Rx!PayloadIsDecoded

\* The last time stamp is that of the newest frame, and the wraps counted make up for what it
\* leaves of the time.
Stamped ==
    /\ set \in BOOLEAN /\ {first, last} \subseteq 0 .. Wrap - 1 /\ wraps \in 0 .. MaxWraps
    /\ {time, newest, from} \subseteq 0 .. Last
    /\ set => /\ time = newest /\ last = time % Wrap
              /\ Rx!Extended(wraps, last) - first = time - from
    /\ ~set => wraps = 0

RxInv == Decoding /\ Stamped /\ heard \in {"none", "discarded", "decoded"}

\* The remainder of a later time, less than a round away.
LEMMA Round ==
  ASSUME NEW W \in Nat \ {0}, NEW a \in Nat, NEW b \in Nat, a <= b, b - a < W
  PROVE  /\ a % W \in 0 .. W - 1 /\ b % W \in 0 .. W - 1
         /\ b % W < a % W => b % W = (a % W) + (b - a) - W
         /\ b % W >= a % W => b % W = (a % W) + (b - a)
<1>1. a % W \in 0 .. W - 1 /\ a = W * (a \div W) + (a % W) /\ a \div W \in Int
  OBVIOUS
<1>2. b % W \in 0 .. W - 1 /\ b = W * (b \div W) + (b % W) /\ b \div W \in Int
  OBVIOUS
<1> DEFINE p == a \div W  q == b \div W  r == a % W  s == b % W
<1>3. /\ p \in Int /\ q \in Int /\ r \in 0 .. W - 1 /\ s \in 0 .. W - 1
      /\ a = W * p + r /\ b = W * q + s
  BY <1>1, <1>2
<1> HIDE DEF p, q, r, s
<1>4. W * (q - p) = (b - a) + r - s
  BY <1>3
<1>5. q - p \in {0, 1}
  <2>1. -W < W * (q - p) /\ W * (q - p) < 2 * W
    BY <1>3, <1>4
  <2>2. ASSUME NEW x \in Int, -W < W * x, W * x < 2 * W PROVE x \in {0, 1}
    BY <2>2
  <2>. QED BY <1>3, <2>1, <2>2
<1>6. CASE q - p = 0
  <2>1. s = r + (b - a)
    BY <1>3, <1>4, <1>6
  <2>. QED BY <1>3, <2>1 DEF r, s
<1>7. CASE q - p = 1
  <2>1. s = r + (b - a) - W
    BY <1>3, <1>4, <1>7
  <2>. QED BY <1>3, <2>1 DEF r, s
<1>. QED BY <1>5, <1>6, <1>7

\* timestamp_wrap of two time stamps that are less than half a round apart: it finds the wrap.
LEMMA WrapIsFound ==
  ASSUME NEW a \in Nat, NEW b \in Nat, a <= b, b - a <= Gap
  PROVE  Rx!TimestampWrap(b % Wrap, a % Wrap) = {IF b % Wrap < a % Wrap THEN 1 ELSE 0}
<1>1. /\ Wrap \in Nat \ {0} /\ Gap \in Nat /\ Gap < Wrap \div 2 /\ Wrap % 2 = 0
  BY PartsAssumption DEF Rx!AudioRxAssumption
<1>2. PICK h \in Nat : h = Wrap \div 2 /\ Wrap = 2 * h
  BY <1>1
<1>3. b - a < Wrap
  BY <1>1, <1>2
<1>4. /\ a % Wrap \in 0 .. Wrap - 1 /\ b % Wrap \in 0 .. Wrap - 1
      /\ b % Wrap < a % Wrap => b % Wrap = (a % Wrap) + (b - a) - Wrap
      /\ b % Wrap >= a % Wrap => b % Wrap = (a % Wrap) + (b - a)
  BY <1>1, <1>3, Round
<1> DEFINE r == a % Wrap  s == b % Wrap
<1>5. CASE s < r
  <2>1. Rx!Signed(s) = s /\ Rx!Signed(r) = r - Wrap
    BY <1>1, <1>2, <1>4, <1>5 DEF Rx!Signed
  <2>2. Rx!Signed(s) - Rx!Signed(r) = b - a /\ b - a > 0
    BY <1>1, <1>2, <1>4, <1>5, <2>1
  <2>3. Rx!Signed(s) - Rx!Signed(r) \in -(Wrap \div 2) .. Wrap \div 2 - 1
    BY <1>1, <1>2, <2>2
  <2>. QED BY <1>5, <2>2, <2>3 DEF Rx!TimestampWrap
<1>6. CASE s >= r
  <2>1. r - s = -(b - a)
    <3>1. s = r + (b - a) /\ r \in Int
      BY <1>1, <1>4, <1>6
    <3>2. ASSUME NEW x \in Int, NEW d \in Int PROVE x - (x + d) = -d
      OBVIOUS
    <3>. QED BY <3>1, <3>2
  <2>2. ~(Rx!Signed((r - s) % Wrap) > 0)
    <3>1. CASE b = a
      <4>1. (r - s) % Wrap = 0
        BY <1>1, <2>1, <3>1
      <4>. QED BY <1>1, <1>2, <4>1 DEF Rx!Signed
    <3>2. CASE b > a
      <4>1. (r - s) % Wrap = Wrap - (b - a)
        <5>1. r - s = Wrap * (-1) + (Wrap - (b - a)) /\ Wrap - (b - a) \in 0 .. Wrap - 1
          BY <1>1, <1>2, <2>1, <3>2
        <5>2. ASSUME NEW k \in Int, NEW m \in 0 .. Wrap - 1 PROVE (Wrap * k + m) % Wrap = m
          BY <1>1
        <5>. QED BY <5>1, <5>2
      <4>. QED BY <1>1, <1>2, <3>2, <4>1 DEF Rx!Signed
    <3>. QED BY <3>1, <3>2
  <2>. QED BY <1>4, <1>6, <2>2 DEF Rx!TimestampWrap
<1>. QED BY <1>4, <1>5, <1>6

\* start_player and the changes of the decoder.
LEMMA StartPlayerKeeps ==
  ASSUME NEW c, NEW p, Rx!StartPlayer(c, p), p \in {"off", player}, Decoding
  PROVE  /\ player' \in {"off", "idle", "reading"} /\ rxBuf' \in BOOLEAN
         /\ Rx!PlayerHasBuffer'
<1>1. CASE p = "off" /\ rxBuf' = TRUE /\ player' \in {"off", "idle"}
  <2>1. rxBuf' \in BOOLEAN /\ rxBuf'
    BY <1>1, Zenon
  <2>. QED BY <1>1, <2>1 DEF Rx!PlayerHasBuffer
<1>2. CASE p # "off" /\ player' = p /\ UNCHANGED rxBuf
  <2>1. rxBuf' \in BOOLEAN /\ (rxBuf' <=> rxBuf)
    BY <1>2, Zenon DEF Decoding
  <2>2. player' = player
    BY <1>2
  <2>. QED BY <2>1, <2>2 DEF Decoding, Rx!PlayerHasBuffer
<1>. QED BY <1>1, <1>2, Zenon DEF Rx!StartPlayer

\* audio_decoder_set leaves the decoder of the payload type, and a buffer for the player.
LEMMA DecoderSetKeeps ==
  ASSUME NEW n \in Payload, Rx!DecoderSet(CodecOf[n], n), Decoding
  PROVE  Decoding'
<1>1. CodecOf[n] \in Codec
  BY PartsAssumption DEF Rx!AudioRxAssumption
<1>2. rxAc' = CodecOf[n] /\ pt' = (IF CodecOf[n] = rxAc THEN pt ELSE n) /\ rxDec' \in BOOLEAN
  BY Zenon DEF Rx!DecoderSet
<1>3. player' \in {"off", "idle", "reading"} /\ rxBuf' \in BOOLEAN /\ Rx!PlayerHasBuffer'
  <2>1. CASE Rx!StartPlayer(CodecOf[n], "off")
    BY <2>1, StartPlayerKeeps
  <2>2. CASE UNCHANGED Rx!playing
    <3>1. rxBuf' \in BOOLEAN /\ (rxBuf' <=> rxBuf) /\ player' = player
      BY <2>2, Zenon DEF Rx!playing, Decoding
    <3>. QED BY <3>1 DEF Decoding, Rx!PlayerHasBuffer
  <2>. QED BY <2>1, <2>2, Zenon DEF Rx!DecoderSet
<1>4. rxAc' \in Codec \cup {Rx!None} /\ pt' \in Payload \cup {Rx!None} /\ Rx!PayloadIsDecoded'
  BY <1>1, <1>2 DEF Decoding, Rx!PayloadIsDecoded
<1>. QED BY <1>2, <1>3, <1>4 DEF Decoding

\* So does pt_handler, whether the codec changes or only the payload type.
LEMMA PtHandlerKeeps ==
  ASSUME NEW n \in Payload, Rx!PtHandler(n), Decoding
  PROVE  Decoding'
<1>1. CASE CodecOf[n] = rxAc
  <2>1. pt' = n /\ rxDec' \in BOOLEAN /\ rxAc' = rxAc /\ player' = player
    BY <1>1, Zenon DEF Rx!PtHandler, Rx!playing
  <2>2. rxBuf' \in BOOLEAN /\ (rxBuf' <=> rxBuf)
    BY <1>1, Zenon DEF Rx!PtHandler, Rx!playing, Decoding
  <2>. QED BY <1>1, <2>1, <2>2 DEF Decoding, Rx!PlayerHasBuffer, Rx!PayloadIsDecoded
<1>2. CASE CodecOf[n] # rxAc
  <2>1. Rx!DecoderSet(CodecOf[n], n)
    BY <1>2, Zenon DEF Rx!PtHandler
  <2>. QED BY <2>1, DecoderSetKeeps
<1>. QED BY <1>1, <1>2

\* What changes neither decoder nor player.
LEMMA DecodingStays ==
  ASSUME Decoding, rxAc' = rxAc, pt' = pt, rxDec' = rxDec, player' = player, rxBuf' = rxBuf
  PROVE  Decoding'
<1>1. rxDec' \in BOOLEAN /\ rxBuf' \in BOOLEAN /\ (rxBuf' <=> rxBuf)
  BY Zenon DEF Decoding
<1>. QED BY <1>1 DEF Decoding, Rx!PlayerHasBuffer, Rx!PayloadIsDecoded

\* A step that stamps nothing.
LEMMA StampsStay ==
  ASSUME Stamped, set' = set, UNCHANGED <<first, last, wraps, time, newest, from>>
  PROVE  Stamped'
<1>1. set' \in BOOLEAN /\ (set' <=> set)
  BY Zenon DEF Stamped
<1>. QED BY <1>1 DEF Stamped, Rx!Extended

\* A frame of a later time: the time passed since the first one is counted.
LEMMA StampKeeps ==
  ASSUME NEW t \in 0 .. Last, t >= newest, t <= newest + Gap, wraps < MaxWraps,
         Stamped, Rx!Stamp(t)
  PROVE  Stamped' /\ heard' \in {"none", "discarded", "decoded"}
<1>1. /\ Wrap \in Nat \ {0} /\ Gap \in Nat /\ Last \in Nat /\ MaxWraps \in Nat
  BY PartsAssumption DEF Rx!AudioRxAssumption
<1> DEFINE ts == t % Wrap
<1>2. ts \in 0 .. Wrap - 1
  BY <1>1
<1>3. /\ set' = TRUE /\ last' = ts /\ time' = t
      /\ first' = IF set THEN first ELSE ts
      /\ from' = IF set THEN from ELSE t
      /\ newest' = IF t > newest THEN t ELSE newest
  BY Zenon DEF Rx!Stamp
<1>4. heard' \in {"none", "discarded", "decoded"}
  BY Zenon DEF Rx!Stamp
<1>5. newest \in Int /\ newest' = t
  BY <1>1, <1>3 DEF Stamped
<1>6. set' \in BOOLEAN
  BY <1>3, Zenon
<1>7. {first, last}' \subseteq 0 .. Wrap - 1 /\ {time, newest, from}' \subseteq 0 .. Last
  BY <1>2, <1>3, <1>5 DEF Stamped
<1>8. /\ wraps' \in 0 .. MaxWraps
      /\ Rx!Extended(wraps', last') - first' = time' - from'
  <2>1. CASE set
    <3>1. /\ newest \in Nat /\ newest <= t /\ t - newest <= Gap /\ last = newest % Wrap
          /\ wraps \in Nat /\ first \in Int /\ from \in Int
          /\ (wraps * Wrap + last) - first = newest - from
      BY <1>1, <2>1 DEF Stamped, Rx!Extended
    <3>2. Rx!TimestampWrap(ts, last) = {IF ts < last THEN 1 ELSE 0}
      <4>1. t \in Nat
        BY <1>1
      <4>2. Rx!TimestampWrap(t % Wrap, newest % Wrap) = {IF t % Wrap < newest % Wrap THEN 1 ELSE 0}
        BY <3>1, <4>1, WrapIsFound
      <4>. QED BY <3>1, <4>2
    <3>3. wraps' = IF ts < last THEN wraps + 1 ELSE wraps
      BY <2>1, <3>2 DEF Rx!Stamp
    <3>4. wraps' \in 0 .. MaxWraps
      BY <1>1, <3>1, <3>3
    <3>5. t - newest < Wrap
      BY <1>1, <3>1, PartsAssumption DEF Rx!AudioRxAssumption
    <3>6. /\ ts < last => ts = last + (t - newest) - Wrap
          /\ ts >= last => ts = last + (t - newest)
      <4>1. t \in Nat
        BY <1>1
      <4>2. /\ t % Wrap < newest % Wrap => t % Wrap = (newest % Wrap) + (t - newest) - Wrap
            /\ t % Wrap >= newest % Wrap => t % Wrap = (newest % Wrap) + (t - newest)
        BY <1>1, <3>1, <3>5, <4>1, Round
      <4>. QED BY <3>1, <4>2
    <3>7. wraps' * Wrap + ts = wraps * Wrap + last + (t - newest)
      <4>1. (wraps + 1) * Wrap = wraps * Wrap + Wrap /\ wraps * Wrap \in Int /\ last \in Int
        BY <1>1, <3>1
      <4>. QED BY <1>1, <1>2, <3>1, <3>3, <3>6, <4>1
    <3>8. (wraps' * Wrap + ts) - first = t - from
      <4>1. wraps * Wrap \in Int /\ wraps' * Wrap \in Int /\ last \in Int /\ ts \in Int
        BY <1>1, <1>2, <3>1, <3>4
      <4>2. ASSUME NEW x \in Int, NEW y \in Int, NEW l \in Int, NEW m \in Int,
                   (x + l) - first = newest - from, y + m = x + l + (t - newest)
            PROVE  (y + m) - first = t - from
        BY <1>1, <3>1, <4>2
      <4>3. (wraps * Wrap + last) - first = newest - from
        BY <3>1
      <4>. QED BY <3>7, <4>1, <4>2, <4>3
    <3>9. (wraps' * Wrap + last') - first' = time' - from'
      BY <1>3, <2>1, <3>8
    <3>10. Rx!Extended(wraps', last') - first' = time' - from'
      BY <3>9, Zenon DEF Rx!Extended
    <3>. QED BY <3>4, <3>10
  <2>2. CASE ~set
    <3>1. Rx!TimestampWrap(ts, ts) = {0}
      <4>1. ~(Rx!Signed((ts - ts) % Wrap) > 0)
        <5>1. (ts - ts) % Wrap = 0
          BY <1>1, <1>2
        <5>. QED BY <1>1, <5>1, PartsAssumption DEF Rx!Signed, Rx!AudioRxAssumption
      <4>. QED BY <1>2, <4>1 DEF Rx!TimestampWrap
    <3>2. wraps' = wraps
      BY <2>2, <3>1 DEF Rx!Stamp
    <3>3. wraps = 0
      BY <2>2 DEF Stamped
    <3>4. (0 * Wrap + ts) - ts = t - t
      BY <1>1, <1>2
    <3>. QED BY <1>1, <1>3, <2>2, <3>2, <3>3, <3>4 DEF Rx!Extended
  <2>. QED BY <2>1, <2>2
<1>. QED BY <1>3, <1>4, <1>5, <1>6, <1>7, <1>8 DEF Stamped

\* There is no decoder, no player and no time stamp at first.
LEMMA RxInit == Rx!Init => RxInv
<1> SUFFICES ASSUME Rx!Init PROVE RxInv
  OBVIOUS
<1>1. Decoding
  <2>1. rxDec \in BOOLEAN /\ rxBuf \in BOOLEAN
    BY Zenon DEF Rx!Init
  <2>. QED BY <2>1 DEF Rx!Init, Decoding, Rx!PlayerHasBuffer, Rx!PayloadIsDecoded
<1>2. Stamped
  <2>1. Wrap \in Nat \ {0} /\ Last \in Nat /\ Wrap <= Last + 1 /\ MaxWraps \in Nat
    BY PartsAssumption DEF Rx!AudioRxAssumption
  <2>2. set = FALSE /\ first = 0 /\ last = 0 /\ wraps = 0 /\ newest \in 0 .. Wrap - 1
        /\ time = newest /\ from = newest
    BY Zenon DEF Rx!Init
  <2>3. set \in BOOLEAN /\ ~set
    BY <2>2, Zenon
  <2>. QED BY <2>1, <2>2, <2>3 DEF Stamped
<1>. QED BY <1>1, <1>2 DEF Rx!Init, RxInv

\* The receiver: packets of any payload type, offers, start and stop, the player's thread.
LEMMA RxNext == RxInv /\ [Rx!Next]_rxVars => RxInv'
<1> SUFFICES ASSUME RxInv, [Rx!Next]_rxVars PROVE RxInv'
  OBVIOUS
<1> USE DEF Rx!decoder, Rx!playing, Rx!stamps
<1>1. Decoding /\ Stamped /\ heard \in {"none", "discarded", "decoded"}
  BY DEF RxInv
<1>2. CASE UNCHANGED rxVars
  <2>1. Decoding'
    BY <1>1, <1>2, DecodingStays DEF rxVars
  <2>2. Stamped'
    BY <1>1, <1>2, StampsStay DEF rxVars
  <2>. QED BY <1>1, <1>2, <2>1, <2>2 DEF RxInv, rxVars
<1>3. ASSUME NEW t \in 0 .. Last, NEW n \in Payload, t >= newest - 0, t <= newest + Gap,
             Rx!Recv(t, n)
      PROVE  RxInv'
  <2>1. Decoding'
    <3>1. CASE n = pt
      <4>1. UNCHANGED <<rxAc, pt, rxDec, player, rxBuf>>
        BY <1>3, <3>1, Zenon DEF Rx!Recv
      <4>. QED BY <1>1, <4>1, DecodingStays
    <3>2. CASE n # pt
      <4>1. Rx!PtHandler(n)
        BY <1>3, <3>2, Zenon DEF Rx!Recv
      <4>. QED BY <1>1, <4>1, PtHandlerKeeps
    <3>. QED BY <3>1, <3>2
  <2>2. Stamped' /\ heard' \in {"none", "discarded", "decoded"}
    <3>1. CASE Rx!Stamp(t)
      <4>1. t >= newest /\ wraps < MaxWraps
        <5>1. newest \in 0 .. Last /\ Last \in Nat
          BY <1>1, PartsAssumption DEF Stamped, Rx!AudioRxAssumption
        <5>. QED BY <1>3, <5>1 DEF Rx!Recv
      <4>. QED BY <1>1, <1>3, <3>1, <4>1, StampKeeps
    <3>2. CASE heard' = "none" /\ UNCHANGED Rx!stamps
      <4>1. Stamped'
        BY <1>1, <3>2, StampsStay
      <4>. QED BY <3>2, <4>1
    <3>. QED BY <1>3, <3>1, <3>2, Zenon DEF Rx!Recv
  <2>. QED BY <2>1, <2>2 DEF RxInv
<1>4. CASE Rx!RecvOther
  <2>1. Decoding'
    BY <1>1, <1>4, DecodingStays DEF Rx!RecvOther
  <2>2. Stamped' /\ heard' = "none"
    BY <1>1, <1>4, StampsStay DEF Rx!RecvOther
  <2>. QED BY <2>1, <2>2 DEF RxInv
<1>5. ASSUME NEW n \in Payload, Rx!SetFromSdp(n) PROVE RxInv'
  <2>1. Decoding'
    BY <1>1, <1>5, DecoderSetKeeps DEF Rx!SetFromSdp
  <2>2. Stamped' /\ heard' = "none"
    BY <1>1, <1>5, StampsStay DEF Rx!SetFromSdp
  <2>. QED BY <2>1, <2>2 DEF RxInv
<1>6. CASE Rx!Start
  <2>1. player' \in {"off", "idle", "reading"} /\ rxBuf' \in BOOLEAN /\ Rx!PlayerHasBuffer'
    BY <1>1, <1>6, StartPlayerKeeps DEF Rx!Start
  <2>2. rxAc' = rxAc /\ pt' = pt /\ rxDec' \in BOOLEAN
    BY <1>1, <1>6, Zenon DEF Rx!Start, Decoding
  <2>3. Decoding'
    BY <1>1, <2>1, <2>2 DEF Decoding, Rx!PayloadIsDecoded
  <2>4. Stamped' /\ heard' = "none"
    BY <1>1, <1>6, StampsStay DEF Rx!Start
  <2>. QED BY <2>3, <2>4 DEF RxInv
<1>7. CASE Rx!Stop
  <2>1. rxAc' = rxAc /\ pt' = pt /\ rxDec' \in BOOLEAN /\ rxBuf' \in BOOLEAN /\ player' = "off"
    BY <1>1, <1>7, Zenon DEF Rx!Stop, Decoding
  <2>2. Decoding'
    BY <1>1, <2>1 DEF Decoding, Rx!PayloadIsDecoded, Rx!PlayerHasBuffer
  <2>3. Stamped' /\ heard' = "none"
    BY <1>1, <1>7, StampsStay DEF Rx!Stop
  <2>. QED BY <2>2, <2>3 DEF RxInv
<1>8. CASE Rx!Read
  <2>1. /\ rxAc' = rxAc /\ pt' = pt /\ rxDec' \in BOOLEAN /\ rxBuf' \in BOOLEAN
        /\ (rxBuf' <=> rxBuf) /\ player # "off"
    BY <1>1, <1>8, Zenon DEF Rx!Read, Decoding
  <2>2. player' \in {"reading", "idle"}
    <3>1. player = "idle" => player' = "reading"
      BY <1>8, Zenon DEF Rx!Read
    <3>2. player = "reading" => player' = "idle"
      BY <1>8, Zenon DEF Rx!Read
    <3>. QED BY <1>1, <2>1, <3>1, <3>2 DEF Decoding
  <2>3. Decoding'
    BY <1>1, <2>1, <2>2 DEF Decoding, Rx!PayloadIsDecoded, Rx!PlayerHasBuffer
  <2>4. Stamped' /\ heard' = heard
    BY <1>1, <1>8, StampsStay DEF Rx!Read
  <2>. QED BY <1>1, <2>3, <2>4 DEF RxInv
<1>. QED BY <1>2, <1>3, <1>4, <1>5, <1>6, <1>7, <1>8 DEF Rx!Next

\* What the invariant says is what is claimed.
LEMMA RxClaims ==
  RxInv => Rx!TypeOK /\ Rx!PlayerHasBuffer /\ Rx!PayloadIsDecoded /\ Rx!DurationIsExact
<1> SUFFICES ASSUME RxInv PROVE Rx!TypeOK /\ Rx!DurationIsExact
  BY DEF RxInv, Decoding
<1>1. Rx!DurationIsExact
  BY DEF RxInv, Stamped, Rx!DurationIsExact
<1>2. {rxDec, rxBuf, set} \subseteq BOOLEAN
  BY Zenon DEF RxInv, Decoding, Stamped
<1>. QED BY <1>1, <1>2 DEF RxInv, Decoding, Stamped, Rx!TypeOK
-----------------------------------------------------------------------------
(* Proof of FramesInOrder, for any filters and codecs.                       *)

\* A chain of filters of S in the order of their registration, all before the k-th of them.
Chain(q, S, k) ==
    /\ q \in Seq(S)
    /\ \A i, j \in 1 .. Len(q) : i < j => Filters!Position(q[i]) < Filters!Position(q[j])
    /\ \A i \in 1 .. Len(q) : Filters!Position(q[i]) \in Nat /\ Filters!Position(q[i]) < k

\* The way of a frame: through a chain, or back.
Forward(q) ==
    \A i, j \in DOMAIN q : i < j => Filters!Position(q[i]) < Filters!Position(q[j])
Backward(q) ==
    \A i, j \in DOMAIN q : i < j => Filters!Position(q[i]) > Filters!Position(q[j])

\* The filter at which the setup is, or the one past the last.
Upto == IF at > 0 THEN at ELSE Len(Filter) + 1

\* The chains are in order as far as the setup has come.
FiltersInv ==
    /\ {enc, filtersDec} \subseteq Codec \cup {Filters!None}
    /\ at \in 0 .. Len(Filter)
    /\ {source, failed} \subseteq BOOLEAN
    /\ Chain(txl, Encodes, Upto) /\ Chain(rxl, Decodes, Upto)
    /\ sent \in [tx : Seq(Encodes), rx : Seq(Decodes)]
    /\ Forward(sent.tx) /\ Backward(sent.rx)

\* The filters are a sequence without repetition.
LEMMA FilterIs ==
  /\ Filter \in Seq(Filters!ToSet(Filter)) /\ Len(Filter) \in Nat
  /\ DOMAIN Filter = 1 .. Len(Filter)
  /\ \A i, j \in 1 .. Len(Filter) : Filter[i] = Filter[j] => i = j
<1>1. Filter \in Seq(Filters!ToSet(Filter)) /\ Filters!IsInjective(Filter)
  BY PartsAssumption DEF Filters!AudioFiltersAssumption
<1>2. Len(Filter) \in Nat /\ DOMAIN Filter = 1 .. Len(Filter)
  BY <1>1, LenProperties
<1>. QED BY <1>1, <1>2 DEF Filters!IsInjective

\* The k-th filter is at position k.
LEMMA PositionIs ==
  ASSUME NEW k \in 1 .. Len(Filter)
  PROVE  Filters!Position(Filter[k]) = k
<1> DEFINE P(i) == i \in DOMAIN Filter /\ Filter[i] = Filter[k]
<1>1. Filters!Position(Filter[k]) = CHOOSE i : P(i)
  BY DEF Filters!Position
<1>2. P(k)
  BY FilterIs
<1>3. P(CHOOSE i : P(i))
  BY <1>2
<1>. QED BY <1>1, <1>3, FilterIs

\* A chain stays one when the setup goes on, gets the filter at which it is, or is emptied.
LEMMA ChainGrows ==
  ASSUME NEW S, NEW q, NEW k \in Nat, NEW n \in Nat, k <= n, Chain(q, S, k)
  PROVE  Chain(q, S, n)
BY DEF Chain

\* The filter at which the setup is comes behind all that are in the chain.
LEMMA ChainAppends ==
  ASSUME NEW S, NEW q, NEW k \in 1 .. Len(Filter), Filter[k] \in S, Chain(q, S, k)
  PROVE  Chain(Append(q, Filter[k]), S, k + 1)
<1> DEFINE a == Append(q, Filter[k])  P(f) == Filters!Position(f)
<1>1. /\ q \in Seq(S) /\ Len(q) \in Nat
      /\ \A i, j \in 1 .. Len(q) : i < j => P(q[i]) < P(q[j])
      /\ \A i \in 1 .. Len(q) : P(q[i]) \in Nat /\ P(q[i]) < k
  BY LenProperties DEF Chain
<1>2. /\ a \in Seq(S) /\ Len(a) = Len(q) + 1
      /\ \A i \in 1 .. Len(q) : a[i] = q[i]
      /\ a[Len(q) + 1] = Filter[k]
  BY <1>1, AppendProperties
<1>3. P(a[Len(q) + 1]) = k /\ k \in Nat
  BY <1>2, PositionIs, FilterIs
<1> HIDE DEF a, P
<1>4. ASSUME NEW i \in 1 .. Len(a)
      PROVE  P(a[i]) \in Nat /\ P(a[i]) < k + 1
  <2>1. CASE i \in 1 .. Len(q)
    BY <1>1, <1>2, <1>3, <2>1
  <2>2. CASE i = Len(q) + 1
    BY <1>3, <2>2
  <2>. QED BY <1>1, <1>2, <2>1, <2>2
<1>5. ASSUME NEW i \in 1 .. Len(a), NEW j \in 1 .. Len(a), i < j
      PROVE  P(a[i]) < P(a[j])
  <2>1. i \in 1 .. Len(q)
    BY <1>1, <1>2, <1>5
  <2>2. CASE j \in 1 .. Len(q)
    BY <1>1, <1>2, <1>5, <2>1, <2>2
  <2>3. CASE j = Len(q) + 1
    BY <1>1, <1>2, <1>3, <2>1, <2>3
  <2>. QED BY <1>1, <1>2, <2>2, <2>3
<1>. QED BY <1>2, <1>4, <1>5 DEF Chain, a, P

\* An empty chain is in order.
LEMMA ChainEmpty == ASSUME NEW S, NEW k PROVE Chain(<<>>, S, k)
BY EmptySeq DEF Chain

\* The way back through a chain.
LEMMA ChainReversed ==
  ASSUME NEW S, NEW q, NEW k, Chain(q, S, k)
  PROVE  Filters!Reverse(q) \in Seq(S) /\ Backward(Filters!Reverse(q)) /\ Forward(q)
<1> DEFINE n == Len(q)  r == Filters!Reverse(q)
<1>1. q \in Seq(S) /\ n \in Nat /\ DOMAIN q = 1 .. n /\ \A i \in 1 .. n : q[i] \in S
  BY LenProperties, ElementOfSeq DEF Chain
<1>2. r = [i \in 1 .. n |-> q[(n - i) + 1]]
  BY DEF Filters!Reverse
<1>3. \A i \in 1 .. n : (n - i) + 1 \in 1 .. n
  BY <1>1
<1> HIDE DEF n, r
<1>4. r \in Seq(S)
  <2>1. r \in [1 .. n -> S]
    BY <1>1, <1>2, <1>3
  <2>. QED BY <1>1, <2>1, SeqDef
<1>5. DOMAIN r = 1 .. n /\ \A i \in 1 .. n : r[i] = q[(n - i) + 1]
  BY <1>2
<1>6. \A i, j \in 1 .. n : i < j => Filters!Position(q[i]) < Filters!Position(q[j])
  BY DEF Chain, n
<1>7. ASSUME NEW i \in 1 .. n, NEW j \in 1 .. n, i < j
      PROVE  Filters!Position(r[i]) > Filters!Position(r[j])
  <2>1. (n - j) + 1 < (n - i) + 1
    BY <1>1, <1>7
  <2>2. Filters!Position(q[(n - j) + 1]) < Filters!Position(q[(n - i) + 1])
    BY <1>3, <1>6, <2>1
  <2>3. /\ Filters!Position(q[(n - j) + 1]) \in Nat
        /\ Filters!Position(q[(n - i) + 1]) \in Nat
    BY <1>3 DEF Chain, n
  <2>. QED BY <1>5, <2>2, <2>3
<1>8. Backward(r)
  BY <1>5, <1>7 DEF Backward
<1>9. Forward(q)
  BY <1>1, <1>6 DEF Forward
<1>. QED BY <1>4, <1>8, <1>9 DEF r

\* What the steps leave of the setup: the filter at which it is and the chains so far.
Setup == /\ at \in 0 .. Len(Filter)
         /\ {source, failed} \subseteq BOOLEAN
         /\ Chain(txl, Encodes, Upto) /\ Chain(rxl, Decodes, Upto)

\* No chain is there at first.
LEMMA FiltersInit == Filters!Init => FiltersInv
<1> SUFFICES ASSUME Filters!Init PROVE FiltersInv
  OBVIOUS
<1>1. {source, failed} \subseteq BOOLEAN
  BY DEF Filters!Init
<1>2. Chain(txl, Encodes, Upto) /\ Chain(rxl, Decodes, Upto)
  BY ChainEmpty DEF Filters!Init
<1>3. sent.tx = <<>> /\ sent.rx = <<>> /\ sent \in [tx : Seq(Encodes), rx : Seq(Decodes)]
  BY EmptySeq DEF Filters!Init
<1>4. Forward(<<>>) /\ Backward(<<>>)
  BY DEF Forward, Backward
<1>5. at \in 0 .. Len(Filter) /\ {enc, filtersDec} \subseteq Codec \cup {Filters!None}
  BY FilterIs DEF Filters!Init
<1>. QED BY <1>1, <1>2, <1>3, <1>4, <1>5 DEF FiltersInv

\* start_source: there is a source or not.
LEMMA StartSourceTypes ==
  ASSUME NEW e, NEW b \in BOOLEAN, Filters!StartSource(e, b)
  PROVE  source' \in BOOLEAN
BY Zenon DEF Filters!StartSource

\* audio_start with the chains that are there, or none for the frames that come.
LEMMA AudioStartKeeps ==
  ASSUME FiltersInv, at = 0, NEW e, NEW d, NEW rx \in {rxl, <<>>}, NEW b \in BOOLEAN,
         Filters!AudioStart(e, d, rx, b)
  PROVE  Setup'
<1>1. /\ Chain(txl, Encodes, Len(Filter) + 1) /\ Chain(rx, Decodes, Len(Filter) + 1)
      /\ {source, failed} \subseteq BOOLEAN
  BY ChainEmpty DEF FiltersInv, Upto
<1>2. txl' = txl /\ rxl' = rx
  BY DEF Filters!AudioStart
<1>3. CASE Filters!CanSetup(e, d, rx) /\ Filter # <<>>
  <2>1. at' = 1 /\ failed' = FALSE /\ source' = b
    BY <1>3 DEF Filters!AudioStart
  <2>2. txl = <<>> /\ rx = <<>> /\ Len(Filter) \in Nat \ {0}
    BY <1>3, FilterIs, EmptySeq DEF Filters!CanSetup
  <2>3. {source', failed'} \subseteq BOOLEAN
    BY <2>1
  <2>4. Chain(<<>>, Encodes, Upto') /\ Chain(<<>>, Decodes, Upto')
    BY ChainEmpty
  <2>5. at' \in 0 .. Len(Filter)
    BY <2>1, <2>2
  <2>. QED BY <1>2, <2>2, <2>3, <2>4, <2>5 DEF Setup
<1>4. CASE ~(Filters!CanSetup(e, d, rx) /\ Filter # <<>>)
  <2>1. at' = 0 /\ failed' = failed /\ Filters!StartSource(e, b)
    BY <1>4 DEF Filters!AudioStart
  <2>2. {source', failed'} \subseteq BOOLEAN
    BY <1>1, <2>1, StartSourceTypes
  <2>3. Upto' = Len(Filter) + 1 /\ at' \in 0 .. Len(Filter)
    BY <2>1, FilterIs DEF Upto
  <2>. QED BY <1>1, <1>2, <2>2, <2>3 DEF Setup
<1>. QED BY <1>3, <1>4

\* The next filter of aufilt_setup gets to the end of the chains it belongs to.
LEMMA SetupFilterKeeps ==
  ASSUME FiltersInv, Filters!SetupFilter
  PROVE  Setup'
<1> DEFINE f == Filter[at]
<1>1. /\ at \in 1 .. Len(Filter) /\ Len(Filter) \in Nat /\ {source, failed} \subseteq BOOLEAN
      /\ Chain(txl, Encodes, at) /\ Chain(rxl, Decodes, at)
  <2>1. at \in 0 .. Len(Filter) /\ at > 0 /\ Len(Filter) \in Nat
    BY FilterIs DEF FiltersInv, Filters!SetupFilter
  <2>2. Upto = at
    BY <2>1 DEF Upto
  <2>3. at \in 1 .. Len(Filter)
    BY <2>1
  <2>. QED BY <2>1, <2>2, <2>3 DEF FiltersInv
<1>2. /\ Chain(txl, Encodes, at + 1) /\ Chain(rxl, Decodes, at + 1)
      /\ f \in Encodes => Chain(Append(txl, f), Encodes, at + 1)
      /\ f \in Decodes => Chain(Append(rxl, f), Decodes, at + 1)
  BY <1>1, ChainGrows, ChainAppends
<1>3. /\ txl' \in {txl, Append(txl, f)} /\ (txl' # txl => f \in Encodes)
      /\ rxl' \in {rxl, Append(rxl, f)} /\ (rxl' # rxl => f \in Decodes)
  BY DEF Filters!SetupFilter, Filters!Made, Filters!Failed
<1>4. Chain(txl', Encodes, at + 1) /\ Chain(rxl', Decodes, at + 1)
  BY <1>2, <1>3
<1>5. /\ at' \in {0, at + 1} /\ at' \in 0 .. Len(Filter)
  BY <1>1 DEF Filters!SetupFilter
<1>6. Upto' \in Nat /\ at + 1 <= Upto' /\ at + 1 \in Nat
  BY <1>1, <1>5 DEF Upto
<1>7. Chain(txl', Encodes, Upto') /\ Chain(rxl', Decodes, Upto')
  BY <1>4, <1>6, ChainGrows
<1>8. source' \in BOOLEAN
  <2>1. source \in BOOLEAN
    BY <1>1
  <2>2. source' = source \/ Filters!StartSource(enc, source)
    BY DEF Filters!SetupFilter
  <2>. QED BY <2>1, <2>2, StartSourceTypes, Zenon
<1>9. failed' \in BOOLEAN
  BY <1>1 DEF Filters!SetupFilter
<1>. QED BY <1>5, <1>7, <1>8, <1>9 DEF Setup

\* A step that leaves the last ways of frames alone.
LEMMA SetupIsAll ==
  ASSUME FiltersInv, Setup', {enc, filtersDec}' \subseteq Codec \cup {Filters!None},
         sent' = sent
  PROVE  FiltersInv'
BY DEF FiltersInv, Setup

\* A step that leaves the chains alone.
LEMMA ChainsStay ==
  ASSUME FiltersInv, UNCHANGED <<txl, rxl, at, failed>>, source' \in BOOLEAN
  PROVE  Setup'
<1>1. failed' \in BOOLEAN
  BY DEF FiltersInv
<1>2. Upto' = Upto
  BY DEF Upto
<1>. QED BY <1>1, <1>2 DEF FiltersInv, Setup

\* The actions of AudioFilters keep the chains in order.
LEMMA FiltersNext ==
  ASSUME FiltersInv, Filters!Next
  PROVE  FiltersInv'
<1>0. /\ {enc, filtersDec} \subseteq Codec \cup {Filters!None} /\ {source, failed} \subseteq BOOLEAN
      /\ Chain(txl, Encodes, Upto) /\ Chain(rxl, Decodes, Upto)
      /\ sent \in [tx : Seq(Encodes), rx : Seq(Decodes)]
  BY DEF FiltersInv
<1>1. ASSUME NEW c \in Codec, Filters!EncoderSet(c) PROVE FiltersInv'
  <2>1. at = 0 /\ enc' = c /\ filtersDec' = filtersDec /\ sent' = sent
    BY <1>1 DEF Filters!EncoderSet
  <2> DEFINE b == source /\ ~Filters!Differ(enc, c)
  <2>2. b \in BOOLEAN
    OBVIOUS
  <2>3. \/ Filters!AudioStart(c, filtersDec, rxl, b)
        \/ source' = b /\ UNCHANGED <<txl, rxl, at, failed>>
    BY <1>1 DEF Filters!EncoderSet, Filters!chains
  <2> HIDE DEF b
  <2>4. Setup'
    <3>1. CASE Filters!AudioStart(c, filtersDec, rxl, b)
      BY <2>1, <2>2, <3>1, AudioStartKeeps
    <3>2. CASE source' = b /\ UNCHANGED <<txl, rxl, at, failed>>
      <4>1. source' \in BOOLEAN
        BY <2>2, <3>2
      <4>. QED BY <3>2, <4>1, ChainsStay
    <3>. QED BY <2>3, <3>1, <3>2
  <2>. QED BY <1>0, <2>1, <2>4, SetupIsAll
<1>2. ASSUME NEW c \in Codec, Filters!DecoderSet(c) PROVE FiltersInv'
  <2>1. at = 0 /\ filtersDec' = c /\ enc' = enc /\ sent' = sent
    BY <1>2 DEF Filters!DecoderSet
  <2>2. \/ Filters!AudioStart(enc, c, <<>>, source)
        \/ UNCHANGED <<txl, rxl, at, source, failed>>
    BY <1>2 DEF Filters!DecoderSet, Filters!chains
  <2>3. source \in BOOLEAN
    BY <1>0
  <2>4. Setup'
    <3>1. CASE Filters!AudioStart(enc, c, <<>>, source)
      BY <2>1, <2>3, <3>1, AudioStartKeeps
    <3>2. CASE UNCHANGED <<txl, rxl, at, source, failed>>
      BY <2>3, <3>2, ChainsStay
    <3>. QED BY <2>2, <3>1, <3>2
  <2>. QED BY <1>0, <2>1, <2>4, SetupIsAll
<1>3. ASSUME Filters!Start PROVE FiltersInv'
  <2>1. at = 0 /\ UNCHANGED <<enc, filtersDec, sent>> /\ source \in BOOLEAN
        /\ Filters!AudioStart(enc, filtersDec, rxl, source)
    BY <1>0, <1>3 DEF Filters!Start
  <2>2. Setup'
    BY <2>1, AudioStartKeeps
  <2>. QED BY <1>0, <2>1, <2>2, SetupIsAll
<1>4. ASSUME Filters!SetupFilter PROVE FiltersInv'
  <2>1. UNCHANGED <<enc, filtersDec, sent>>
    BY <1>4 DEF Filters!SetupFilter
  <2>. QED BY <1>0, <1>4, <2>1, SetupFilterKeeps, SetupIsAll
<1>5. ASSUME Filters!Stop PROVE FiltersInv'
  <2>1. /\ at = 0 /\ txl' = <<>> /\ rxl' = <<>> /\ source' = FALSE /\ failed' = FALSE
        /\ UNCHANGED <<enc, filtersDec, at, sent>>
    BY <1>5 DEF Filters!Stop
  <2>2. {source', failed'} \subseteq BOOLEAN
    BY <2>1
  <2>3. Chain(txl', Encodes, Upto') /\ Chain(rxl', Decodes, Upto')
    BY <2>1, ChainEmpty
  <2>4. at' \in 0 .. Len(Filter)
    BY <2>1, FilterIs
  <2>. QED BY <1>0, <2>1, <2>2, <2>3, <2>4, SetupIsAll DEF Setup
<1>6. ASSUME Filters!Transmit \/ Filters!Decode PROVE FiltersInv'
  <2>1. UNCHANGED <<enc, filtersDec, txl, rxl, at, source, failed>>
    BY <1>6 DEF Filters!Transmit, Filters!Decode, Filters!chains
  <2>2. \/ sent' = [sent EXCEPT !.tx = txl]
        \/ sent' = [sent EXCEPT !.rx = Filters!Reverse(rxl)]
    BY <1>6 DEF Filters!Transmit, Filters!Decode
  <2>3. /\ txl \in Seq(Encodes) /\ Filters!Reverse(rxl) \in Seq(Decodes)
        /\ Forward(txl) /\ Backward(Filters!Reverse(rxl))
    BY <1>0, ChainReversed DEF Chain
  <2>4. /\ sent' \in [tx : Seq(Encodes), rx : Seq(Decodes)]
        /\ sent'.tx \in {sent.tx, txl} /\ sent'.rx \in {sent.rx, Filters!Reverse(rxl)}
    BY <1>0, <2>2, <2>3
  <2>5. Forward(sent'.tx) /\ Backward(sent'.rx)
    BY <2>3, <2>4 DEF FiltersInv
  <2>6. source' \in BOOLEAN
    BY <1>0, <2>1
  <2>7. Setup'
    BY <2>1, <2>6, ChainsStay
  <2>. QED BY <1>0, <2>1, <2>4, <2>5, <2>7 DEF FiltersInv, Setup
<1>. QED BY <1>1, <1>2, <1>3, <1>4, <1>5, <1>6 DEF Filters!Next

\* FramesInOrder and the types.
LEMMA FiltersClaims == FiltersInv => FramesInOrder /\ Filters!TypeOK
<1> SUFFICES ASSUME FiltersInv PROVE FramesInOrder /\ Filters!TypeOK
  OBVIOUS
<1>1. FramesInOrder
  BY DEF FiltersInv, FramesInOrder, Filters!FramesInOrder, Forward, Backward
<1>2. Filters!ToSet(txl) \subseteq Encodes /\ Filters!ToSet(rxl) \subseteq Decodes
  <2>1. txl \in Seq(Encodes) /\ rxl \in Seq(Decodes)
    BY DEF FiltersInv, Chain
  <2>2. ASSUME NEW S, NEW q \in Seq(S) PROVE Filters!ToSet(q) \subseteq S
    BY LenProperties DEF Filters!ToSet
  <2>. QED BY <2>1, <2>2
<1>. QED BY <1>1, <1>2 DEF FiltersInv, Filters!TypeOK
-----------------------------------------------------------------------------
(* Proof of the parts of ReceptionIsExact on the sequence numbers and the jitter buffer, for *)
(* any numbers, sources and sizes of the buffer.                                             *)

Number == {n \in Nat : n < 65536}
Behind(a, b) == (a - b) % 65536

\* The last number is the newest of those remembered.
Numbered(last16, seen) ==
    /\ last16 \in Number \cup {-1} /\ seen \subseteq Number
    /\ last16 # -1 => last16 \in seen /\ \A e \in seen : Behind(last16, e) < 16384

\* How far a number is from another, in the arithmetic of 16 bits.
LEMMA BehindIs ==
  ASSUME NEW a \in Number, NEW b \in Number
  PROVE  Behind(a, b) = IF a >= b THEN a - b ELSE (a - b) + 65536
BY DEF Number, Behind

\* The distance is a number of 16 bits.
LEMMA BehindTypes ==
  ASSUME NEW a \in Number, NEW b \in Number
  PROVE  Behind(a, b) \in Number
<1>1. Behind(a, b) = IF a >= b THEN a - b ELSE (a - b) + 65536
  BY BehindIs
<1>2. a \in Nat /\ b \in Nat /\ a < 65536 /\ b < 65536
  BY DEF Number
<1> HIDE DEF Behind
<1>3. CASE a >= b
  BY <1>1, <1>2, <1>3 DEF Number
<1>4. CASE ~(a >= b)
  BY <1>1, <1>2, <1>4 DEF Number
<1>. QED BY <1>3, <1>4

\* The number before a number, and back.
LEMMA OneBefore ==
  ASSUME NEW a \in Number
  PROVE  Behind(a, Behind(a, 1)) = 1
<1>1. 1 \in Number /\ 0 \in Number /\ 65535 \in Number /\ a \in Nat /\ a < 65536
  BY DEF Number
<1>2. CASE a = 0
  <2>1. Behind(a, 1) = 65535
    BY <1>1, <1>2, BehindIs
  <2>. QED BY <1>1, <1>2, <2>1, BehindIs
<1>3. CASE a >= 1
  <2>1. Behind(a, 1) = a - 1 /\ a - 1 \in Number
    BY <1>1, <1>3, BehindIs DEF Number
  <2>2. a >= a - 1 /\ a - (a - 1) = 1
    BY <1>1
  <2>. QED BY <2>1, <2>2, BehindIs
<1>. QED BY <1>1, <1>2, <1>3

\* The one before is at the distance of one.
LEMMA OneIsOne ==
  ASSUME NEW a \in Number, NEW b \in Number, Behind(a, b) = 1
  PROVE  Behind(a, 1) = b
<1>1. 1 \in Number /\ a \in Nat /\ a < 65536 /\ b \in Nat /\ b < 65536
  BY DEF Number
<1>2. Behind(a, b) = IF a >= b THEN a - b ELSE (a - b) + 65536
  BY BehindIs
<1>3. Behind(a, 1) = IF a >= 1 THEN a - 1 ELSE (a - 1) + 65536
  BY <1>1, BehindIs
<1>. HIDE DEF Behind
<1>4. CASE a >= b
  BY <1>1, <1>2, <1>3, <1>4
<1>5. CASE ~(a >= b)
  BY <1>1, <1>2, <1>3, <1>5
<1>. QED BY <1>4, <1>5

\* Distances add as long as they stay within a round.
LEMMA BehindAdds ==
  ASSUME NEW a \in Number, NEW b \in Number, NEW c \in Number,
         Behind(a, b) + Behind(b, c) < 65536
  PROVE  Behind(a, c) = Behind(a, b) + Behind(b, c)
BY BehindIs DEF Number

\* The distance back.
LEMMA BehindBack ==
  ASSUME NEW a \in Number, NEW b \in Number, Behind(a, b) > 0
  PROVE  Behind(b, a) = 65536 - Behind(a, b)
<1>1. a \in Nat /\ b \in Nat /\ a < 65536 /\ b < 65536
  BY DEF Number
<1>2. /\ Behind(a, b) = IF a >= b THEN a - b ELSE (a - b) + 65536
      /\ Behind(b, a) = IF b >= a THEN b - a ELSE (b - a) + 65536
  BY BehindIs
<1>. HIDE DEF Behind
<1>3. CASE a > b
  BY <1>1, <1>2, <1>3
<1>4. CASE b > a
  BY <1>1, <1>2, <1>4
<1>5. CASE a = b
  BY <1>1, <1>2, <1>5
<1>. QED BY <1>1, <1>3, <1>4, <1>5

\* A number that is less than a quarter of the range away.
Close(e, seq) == Behind(seq, e) < 16384 \/ Behind(e, seq) < 16384

\* What lostcalc and handle_rtp make of a packet with the number seq: the last number and the
\* numbers remembered after it.
Counts(last16, seen, seq, next, now) ==
    LET delta == Behind(seq, last16)
        anew == last16 = -1 \/ (delta >= 3000 /\ delta <= 65435)
    IN  /\ next = IF anew \/ (delta > 0 /\ delta < 3000) THEN seq ELSE last16
        /\ now = IF anew THEN {seq} ELSE {e \in seen \cup {seq} : Close(e, next)}

\* A packet leaves the last number the newest of those remembered.
LEMMA CountsKeeps ==
  ASSUME NEW last16, NEW seen, NEW seq \in Number, NEW next, NEW now,
         Numbered(last16, seen), Counts(last16, seen, seq, next, now)
  PROVE  Numbered(next, now)
<1> DEFINE delta == Behind(seq, last16)
<1>1. CASE last16 = -1 \/ (delta >= 3000 /\ delta <= 65435)
  <2>1. next = seq /\ now = {seq}
    BY <1>1 DEF Counts
  <2>2. Behind(seq, seq) = 0
    BY BehindIs DEF Number
  <2>. QED BY <2>1, <2>2 DEF Numbered
<1>2. CASE ~(last16 = -1 \/ (delta >= 3000 /\ delta <= 65435))
  <2>1. last16 \in Number /\ seen \subseteq Number
    BY <1>2 DEF Numbered
  <2>2. /\ next = IF (delta > 0 /\ delta < 3000) THEN seq ELSE last16
        /\ now = {e \in seen \cup {seq} : Close(e, next)}
    BY <1>2 DEF Counts
  <2>3. Behind(seq, seq) = 0 /\ Behind(last16, last16) = 0
    BY <2>1, BehindIs DEF Number
  <2>4. CASE delta > 0 /\ delta < 3000
    <3>1. next = seq /\ seq \in now /\ now \subseteq seen \cup {seq}
      BY <2>2, <2>3, <2>4 DEF Close
    <3>2. ASSUME NEW e \in now, e # seq
          PROVE  Behind(seq, e) < 16384
      <4>1. e \in seen /\ e \in Number /\ (Behind(seq, e) < 16384 \/ Behind(e, seq) < 16384)
        BY <2>1, <2>2, <3>1, <3>2 DEF Close
      <4>2. /\ Behind(last16, e) < 16384 /\ Behind(last16, e) \in Nat /\ delta \in Nat
            /\ delta > 0 /\ delta < 3000
        BY <1>2, <2>1, <2>4, <4>1, BehindTypes DEF Numbered, Number
      <4>3. Behind(seq, last16) + Behind(last16, e) < 65536
        BY <4>2
      <4>4. Behind(seq, e) = Behind(seq, last16) + Behind(last16, e)
        BY <2>1, <4>1, <4>3, BehindAdds
      <4>5. Behind(seq, e) > 0 /\ Behind(seq, e) < 19384
        BY <4>2, <4>4
      <4>6. Behind(e, seq) = 65536 - Behind(seq, e)
        BY <4>1, <4>5, BehindBack
      <4>. HIDE DEF delta
      <4>7. Behind(seq, e) \in Nat
        BY <4>1, BehindTypes DEF Number
      <4>. QED BY <4>1, <4>5, <4>6, <4>7
    <3>. QED BY <2>1, <2>3, <3>1, <3>2 DEF Numbered
  <2>5. CASE ~(delta > 0 /\ delta < 3000)
    <3>1. next = last16 /\ last16 \in seen
      BY <1>2, <2>2, <2>5 DEF Numbered
    <3>2. last16 \in now /\ now \subseteq seen \cup {seq}
      BY <2>2, <2>3, <3>1 DEF Close
    <3>3. Behind(last16, seq) < 16384
      <4>0. delta \in Nat /\ delta \in Number
        BY <2>1, BehindTypes DEF Number
      <4>1. delta \in Nat /\ (delta = 0 \/ delta > 65435)
        <5>. HIDE DEF delta
        <5>. QED BY <1>2, <2>5, <4>0
      <4>2. CASE delta = 0
        <5>1. seq = last16
          BY <2>1, <4>2, BehindIs DEF Number
        <5>. QED BY <2>3, <5>1
      <4>3. CASE delta > 65435
        <5>1. Behind(last16, seq) = 65536 - delta
          <6>1. delta > 0
            <7>. HIDE DEF delta
            <7>. QED BY <4>1, <4>3
          <6>. QED BY <2>1, <6>1, BehindBack
        <5>. HIDE DEF delta
        <5>. QED BY <4>1, <4>3, <5>1
      <4>. QED BY <4>1, <4>2, <4>3
    <3>4. \A e \in now : Behind(last16, e) < 16384
      BY <1>2, <3>2, <3>3 DEF Numbered
    <3>. QED BY <2>1, <3>1, <3>2, <3>4 DEF Numbered
  <2>. QED BY <2>4, <2>5
<1>. QED BY <1>1, <1>2

\* Between two numbers that count on, packets are missing exactly when the later one is newer
\* than all that are remembered and the one before it is not among them.
LEMMA GapIsSeen ==
  ASSUME NEW last16 \in Number, NEW seen, NEW seq \in Number,
         Numbered(last16, seen),
         Behind(seq, last16) < 3000 \/ Behind(seq, last16) > 65435
  PROVE  (Behind(seq, last16) > 1 /\ Behind(seq, last16) < 3000) <=>
         /\ \A e \in seen : Behind(seq, e) > 0 /\ Behind(seq, e) < 32768
         /\ Behind(seq, 1) \notin seen
<1>1. /\ seen \subseteq Number /\ last16 \in seen
      /\ \A e \in seen : Behind(last16, e) < 16384
  BY DEF Numbered, Number
<1>2. \A a, b \in Number : Behind(a, b) \in Number
  BY BehindTypes
<1>3. 1 \in Number /\ Behind(seq, 1) \in Number
  <2>1. 1 \in Number
    BY DEF Number
  <2>. QED BY <1>2, <2>1
<1>4. Behind(seq, Behind(seq, 1)) = 1
  BY OneBefore
<1>5. ASSUME Behind(seq, last16) > 1 /\ Behind(seq, last16) < 3000
      PROVE  /\ \A e \in seen : Behind(seq, e) > 1 /\ Behind(seq, e) < 32768
             /\ Behind(seq, 1) \notin seen
  <2>1. ASSUME NEW e \in seen
        PROVE  Behind(seq, e) > 1 /\ Behind(seq, e) < 32768
    <3>1. e \in Number /\ Behind(last16, e) \in Number /\ Behind(seq, last16) \in Number
      BY <1>1, <1>2
    <3>2. Behind(last16, e) < 16384
      BY <1>1
    <3>3. Behind(seq, last16) + Behind(last16, e) < 65536
      BY <1>5, <3>1, <3>2 DEF Number
    <3>4. Behind(seq, e) = Behind(seq, last16) + Behind(last16, e)
      BY <3>1, <3>3, BehindAdds
    <3>. QED BY <1>5, <3>1, <3>2, <3>4 DEF Number
  <2>. QED BY <1>4, <2>1
<1>6. ASSUME ~(Behind(seq, last16) > 1 /\ Behind(seq, last16) < 3000),
             \A e \in seen : Behind(seq, e) > 0 /\ Behind(seq, e) < 32768
      PROVE  Behind(seq, 1) \in seen
  <2>1. Behind(seq, last16) > 0 /\ Behind(seq, last16) < 32768 /\ Behind(seq, last16) \in Number
    BY <1>1, <1>2, <1>6
  <2>2. Behind(seq, last16) = 1
    BY <1>6, <2>1 DEF Number
  <2>3. Behind(seq, 1) = last16
    BY <2>2, <1>1, OneIsOne
  <2>. QED BY <1>1, <2>3
<1>7. \A e \in seen : Behind(seq, e) \in Number
  BY <1>1, <1>2
<1>8. \A e \in seen : Behind(seq, e) > 1 => Behind(seq, e) > 0
  BY <1>7 DEF Number
<1>. QED BY <1>5, <1>6, <1>8

-----------------------------------------------------------------------------
\* Putting an element into a sequence.
LEMMA Inserted ==
  ASSUME NEW S, NEW room \in Seq(S), NEW k \in 0 .. Len(room), NEW f \in S
  PROVE  /\ Jbuf!InsertAt(room, k + 1, f) \in Seq(S)
         /\ Len(Jbuf!InsertAt(room, k + 1, f)) = Len(room) + 1
<1>0. Len(room) \in Nat /\ k \in Nat /\ k <= Len(room)
  BY LenProperties
<1> DEFINE a == SubSeq(room, 1, k)  b == <<f>>  c == SubSeq(room, k + 1, Len(room))
<1>1. a \in Seq(S) /\ Len(a) = k
  <2>1. \A i \in 1 .. k : room[i] \in S
    BY <1>0, ElementOfSeq
  <2>. QED BY <1>0, <2>1, SubSeqProperties
<1>2. c \in Seq(S) /\ Len(c) = Len(room) - k
  <2>1. \A i \in k + 1 .. Len(room) : room[i] \in S
    BY <1>0, ElementOfSeq
  <2>. QED BY <1>0, <2>1, SubSeqProperties
<1>3. b \in Seq(S) /\ Len(b) = 1
  OBVIOUS
<1>4. Jbuf!InsertAt(room, k + 1, f) = (a \o b) \o c
  <2>1. (k + 1) - 1 = k
    BY <1>0
  <2>. QED BY <2>1 DEF Jbuf!InsertAt
<1> HIDE DEF a, b, c
<1>5. a \o b \in Seq(S) /\ Len(a \o b) = k + 1
  <2>1. a \o b \in Seq(S) /\ Len(a \o b) = Len(a) + Len(b)
    BY <1>1, <1>3, ConcatProperties
  <2>. QED BY <1>0, <1>1, <1>3, <2>1
<1>6. (a \o b) \o c \in Seq(S) /\ Len((a \o b) \o c) = Len(a \o b) + Len(c)
  BY <1>2, <1>5, ConcatProperties
<1>7. Len((a \o b) \o c) = Len(room) + 1
  BY <1>0, <1>2, <1>5, <1>6
<1>. QED BY <1>4, <1>6, <1>7

\* jbuf_put: what it leaves are frames of the kind that were there, and never more of them
\* than the buffer has room for.
LEMMA PutKeeps ==
  ASSUME NEW S, NEW q \in Seq(S), NEW f \in S, JbufMax \in Nat \ {0}, Len(q) <= JbufMax,
         NEW r \in Jbuf!Put(q, f)
  PROVE  r \in Seq(S) /\ Len(r) <= JbufMax
<1>0. Len(q) \in Nat
  BY LenProperties
<1> DEFINE room == IF Len(q) = JbufMax THEN Tail(q) ELSE q
<1>1. room \in Seq(S) /\ Len(room) \in Nat /\ Len(room) <= JbufMax - 1
  <2>1. CASE Len(q) = JbufMax
    <3>1. q # <<>>
      BY <2>1, EmptySeq
    <3>2. Tail(q) \in Seq(S) /\ Len(Tail(q)) = Len(q) - 1
      BY <3>1, HeadTailProperties
    <3>. QED BY <2>1, <3>2
  <2>2. CASE Len(q) # JbufMax
    BY <1>0, <2>2
  <2>. QED BY <2>1, <2>2
<1>2. r = q \/ \E k \in 0 .. Len(room) : r = Jbuf!InsertAt(room, k + 1, f)
  BY DEF Jbuf!Put
<1> HIDE DEF room
<1>3. ASSUME NEW k \in 0 .. Len(room), r = Jbuf!InsertAt(room, k + 1, f)
      PROVE  r \in Seq(S) /\ Len(r) <= JbufMax
  <2>1. r \in Seq(S) /\ Len(r) = Len(room) + 1
    BY <1>1, <1>3, Inserted
  <2>. QED BY <1>1, <2>1
<1>. QED BY <1>2, <1>3

-----------------------------------------------------------------------------
\* What lostcalc returns is not negative for a packet that counts on, and positive when
\* packets are missing before it.
LEMMA LostIs ==
  ASSUME NEW anew \in BOOLEAN, NEW delta \in Nat,
         anew \/ delta < 3000 \/ delta > 65435,
         NEW lost, lost = IF anew THEN 0
                          ELSE IF delta = 0 THEN -1 ELSE IF delta < 3000 THEN delta - 1 ELSE -2
  PROVE  /\ lost >= 0 <=> anew \/ (delta > 0 /\ delta < 3000)
         /\ lost > 0 <=> ~anew /\ delta > 1 /\ delta < 3000
OBVIOUS

\* The types and the numbers of reception without a jitter buffer.
DirectInv == Direct!TypeOK /\ Numbered(directPseq, directEpoch)

\* handle_rtp without a jitter buffer keeps the numbers, and sees the gaps.
LEMMA DirectHands ==
  ASSUME NEW f, f.seq \in Number, Numbered(directPseq, directEpoch), Direct!Hand(f)
  PROVE  /\ Numbered(directPseq', directEpoch')
         /\ directOut'.frame = f
         /\ ~Direct!Restarts(f.seq) =>
              (directOut'.lost <=> (\A e \in directEpoch : Direct!Ahead(f.seq, e))
                                   /\ Direct!Minus(f.seq, 1) \notin directEpoch)
<1> DEFINE seq == f.seq  delta == Behind(seq, directPseq)
           lost == Direct!Lostcalc(seq)  anew == Direct!Restarts(seq)
<1>1. /\ directPseq' = IF lost >= 0 THEN seq ELSE directPseq
      /\ directEpoch' = IF anew THEN {seq}
                        ELSE {e \in directEpoch \cup {seq} : Close(e, directPseq')}
  BY DEF Direct!Hand, Direct!Near, Direct!Minus, Direct!Recent, Behind, Close
<1>0. directOut' = [lost |-> lost > 0, frame |-> f, given |-> ~f.bad]
  BY DEF Direct!Hand
<1>2. /\ anew <=> directPseq = -1 \/ (delta >= 3000 /\ delta <= 65435)
      /\ anew \in BOOLEAN
  BY DEF Direct!Restarts, Direct!Minus, Behind, Direct!None
<1>3. lost = IF anew THEN 0
             ELSE IF delta = 0 THEN -1 ELSE IF delta < 3000 THEN delta - 1 ELSE -2
  BY DEF Direct!Lostcalc, Direct!Minus, Behind
<1>4. /\ seq \in Number /\ (anew \/ directPseq \in Number)
      /\ delta \in Nat
  <2>1. seq \in Int /\ directPseq \in Int
    BY DEF Numbered, Number
  <2>2. delta \in Nat
    BY <2>1 DEF Behind
  <2>. QED BY <1>2, <2>2 DEF Numbered
<1>5. /\ \A e \in directEpoch :
            Direct!Ahead(seq, e) <=> Behind(seq, e) > 0 /\ Behind(seq, e) < 32768
      /\ Direct!Minus(seq, 1) = Behind(seq, 1)
  BY DEF Direct!Ahead, Direct!Minus, Behind
<1> HIDE DEF seq, lost, anew
<1>6. /\ lost >= 0 <=> anew \/ (delta > 0 /\ delta < 3000)
      /\ lost > 0 <=> ~anew /\ delta > 1 /\ delta < 3000
  <2>. HIDE DEF delta
  <2>1. anew \/ delta < 3000 \/ delta > 65435
    BY <1>2, <1>4
  <2>. QED BY <1>2, <1>3, <1>4, <2>1, LostIs
<1>7. Numbered(directPseq', directEpoch')
  <2>1. Counts(directPseq, directEpoch, seq, directPseq', directEpoch')
    BY <1>1, <1>2, <1>6 DEF Counts
  <2>. QED BY <1>4, <2>1, CountsKeeps
<1>8. ASSUME ~anew
      PROVE  directOut'.lost <=> (\A e \in directEpoch : Direct!Ahead(seq, e))
                                 /\ Direct!Minus(seq, 1) \notin directEpoch
  <2>1. directPseq \in Number /\ (delta < 3000 \/ delta > 65435)
    <3>. HIDE DEF delta
    <3>. QED BY <1>2, <1>4, <1>8
  <2>2. (delta > 1 /\ delta < 3000) <=>
         /\ \A e \in directEpoch : Behind(seq, e) > 0 /\ Behind(seq, e) < 32768
         /\ Behind(seq, 1) \notin directEpoch
    BY <1>4, <2>1, GapIsSeen
  <2>3. directOut'.lost <=> delta > 1 /\ delta < 3000
    <3>. HIDE DEF delta
    <3>1. lost \in Int
      BY <1>3, <1>4
    <3>2. directOut'.lost <=> lost > 0
      BY ONLY <1>0, <3>1
    <3>. QED BY <1>6, <1>8, <3>2
  <2>. QED BY <1>5, <2>2, <2>3
<1>9. directOut'.frame = f
  BY <1>0
<1>. QED BY <1>7, <1>8, <1>9 DEF seq, anew

\* The numbers may be any of 16 bits.
LEMMA DirectNumbers ==
  Seq16 \subseteq Number /\ 0 \in Number
<1>1. ASSUME NEW n \in Seq16 PROVE n \in Number
  BY PartsAssumption DEF Direct!RtpReceiveAssumption, Number
<1>2. 0 \in Number
  BY DEF Number
<1>. QED BY <1>1, <1>2

\* The step of LossMatchesGap without a jitter buffer.
DirectSees ==
    directOut' # directOut /\ directOut'.frame # Direct!Blank /\ directEpoch # {}
    /\ ~Direct!Restarts(directOut'.frame.seq) =>
        LET seq == directOut'.frame.seq
        IN  directOut'.lost <=> (\A e \in directEpoch : Direct!Ahead(seq, e))
                                /\ Direct!Minus(seq, 1) \notin directEpoch

\* Nothing was received at first.
LEMMA DirectInit ==
  ASSUME Direct!Init
  PROVE  DirectInv
<1>1. <<>> \in Seq(Direct!Frame) /\ Len(<<>>) = 0
  BY EmptySeq
<1>2. Direct!TypeOK
  <2>1. {directRecv, directStarted} \subseteq BOOLEAN
    BY DEF Direct!Init
  <2>. QED BY <1>1, <2>1 DEF Direct!Init, Direct!TypeOK
<1>3. Numbered(directPseq, directEpoch)
  BY DEF Direct!Init, Direct!None, Numbered
<1>. QED BY <1>2, <1>3 DEF DirectInv

\* Reception without a jitter buffer keeps the types and the numbers and sees the gaps.
LEMMA DirectNext ==
  ASSUME DirectInv, Direct!Next
  PROVE  DirectInv' /\ DirectSees
<1> USE DEF DirectInv
<1>1. ASSUME NEW f \in Direct!Frame, Direct!Direct(f) PROVE DirectInv' /\ DirectSees
  <2>1. f.seq \in Seq16 /\ f.seq \in Number /\ f.ssrc \in Ssrc
    BY <1>1, DirectNumbers DEF Direct!Frame
  <2>2. Direct!Hand(f)
    BY <1>1 DEF Direct!Direct
  <2>3. Numbered(directPseq', directEpoch') /\ DirectSees
    BY <2>1, <2>2, DirectHands DEF DirectSees
  <2>4. directPseq' \in {directPseq, f.seq} /\ directEpoch' \subseteq directEpoch \cup {f.seq}
    BY <2>2 DEF Direct!Hand
  <2>5. directPseq' \in {Direct!None, 0} \cup Seq16 /\ directEpoch' \subseteq {0} \cup Seq16
    BY <2>1, <2>4 DEF Direct!TypeOK
  <2>6. UNCHANGED <<directRecv, directJbuf, directStarted>> /\ directSsrc' \in {0} \cup Ssrc
    BY <1>1, <2>1 DEF Direct!Direct
  <2>7. {directRecv', directStarted'} \subseteq BOOLEAN
    BY <2>6 DEF Direct!TypeOK
  <2>8. directJbuf' \in Seq(Direct!Frame) /\ Len(directJbuf') <= 0
    BY <2>6 DEF Direct!TypeOK
  <2>. QED BY <2>3, <2>5, <2>6, <2>7, <2>8 DEF Direct!TypeOK
<1>2. ASSUME Direct!Ignore \/ (\E on \in BOOLEAN : Direct!Hold(on)) \/ Direct!Reset
      PROVE  DirectInv' /\ DirectSees
  <2>1. /\ directOut' = Direct!Quiet
        /\ UNCHANGED <<directPseq, directEpoch, directSsrc, directStarted>>
        /\ directRecv' \in BOOLEAN \/ directRecv' = directRecv
        /\ directJbuf' \in {directJbuf, <<>>}
    BY <1>2 DEF Direct!Ignore, Direct!Hold, Direct!Reset
  <2>2. <<>> \in Seq(Direct!Frame) /\ Len(<<>>) = 0
    BY EmptySeq
  <2>3. directOut'.frame = Direct!Blank
    BY <2>1 DEF Direct!Quiet
  <2>4. Direct!TypeOK'
    <3>1. {directRecv', directStarted'} \subseteq BOOLEAN
      BY <2>1 DEF Direct!TypeOK
    <3>2. directJbuf' \in Seq(Direct!Frame) /\ Len(directJbuf') <= 0
      BY <2>1, <2>2 DEF Direct!TypeOK
    <3>. QED BY <2>1, <3>1, <3>2 DEF Direct!TypeOK
  <2>5. Numbered(directPseq', directEpoch')
    BY <2>1
  <2>. QED BY <2>3, <2>4, <2>5 DEF DirectSees
<1>3. ASSUME NEW f, Direct!Buffered(f) \/ Direct!Underrun(f) PROVE FALSE
  BY <1>3 DEF Direct!Buffered, Direct!Underrun
<1>. QED BY <1>1, <1>2, <1>3 DEF Direct!Next

-----------------------------------------------------------------------------
\* The frames of one source.
Of(s) == {g \in Jbuf!Frame : g.ssrc = s}

\* The types and the numbers of reception with a jitter buffer, whose frames are all of the
\* source it was last told of.
JbufInv ==
    /\ Jbuf!TypeOK /\ Numbered(jbufPseq, jbufEpoch)
    /\ jbufJbuf \in Seq(Of(jbufSsrc)) /\ Jbuf!OneSourceAtATime

\* handle_rtp with the frame that leaves the jitter buffer, or with none.
LEMMA JbufHands ==
  ASSUME NEW f, f.seq \in Number, Numbered(jbufPseq, jbufEpoch), Jbuf!Hand(f)
  PROVE  /\ Numbered(jbufPseq', jbufEpoch')
         /\ jbufOut'.frame = f
         /\ ~Jbuf!Restarts(f.seq) =>
              (jbufOut'.lost <=> (\A e \in jbufEpoch : Jbuf!Ahead(f.seq, e))
                                   /\ Jbuf!Minus(f.seq, 1) \notin jbufEpoch)
<1> DEFINE seq == f.seq  delta == Behind(seq, jbufPseq)
           lost == Jbuf!Lostcalc(seq)  anew == Jbuf!Restarts(seq)
<1>1. /\ jbufPseq' = IF lost >= 0 THEN seq ELSE jbufPseq
      /\ jbufEpoch' = IF anew THEN {seq}
                        ELSE {e \in jbufEpoch \cup {seq} : Close(e, jbufPseq')}
  BY DEF Jbuf!Hand, Jbuf!Near, Jbuf!Minus, Jbuf!Recent, Behind, Close
<1>0. jbufOut' = [lost |-> lost > 0, frame |-> f, given |-> ~f.bad]
  BY DEF Jbuf!Hand
<1>2. /\ anew <=> jbufPseq = -1 \/ (delta >= 3000 /\ delta <= 65435)
      /\ anew \in BOOLEAN
  BY DEF Jbuf!Restarts, Jbuf!Minus, Behind, Jbuf!None
<1>3. lost = IF anew THEN 0
             ELSE IF delta = 0 THEN -1 ELSE IF delta < 3000 THEN delta - 1 ELSE -2
  BY DEF Jbuf!Lostcalc, Jbuf!Minus, Behind
<1>4. /\ seq \in Number /\ (anew \/ jbufPseq \in Number)
      /\ delta \in Nat
  <2>1. seq \in Int /\ jbufPseq \in Int
    BY DEF Numbered, Number
  <2>2. delta \in Nat
    BY <2>1 DEF Behind
  <2>. QED BY <1>2, <2>2 DEF Numbered
<1>5. /\ \A e \in jbufEpoch :
            Jbuf!Ahead(seq, e) <=> Behind(seq, e) > 0 /\ Behind(seq, e) < 32768
      /\ Jbuf!Minus(seq, 1) = Behind(seq, 1)
  BY DEF Jbuf!Ahead, Jbuf!Minus, Behind
<1> HIDE DEF seq, lost, anew
<1>6. /\ lost >= 0 <=> anew \/ (delta > 0 /\ delta < 3000)
      /\ lost > 0 <=> ~anew /\ delta > 1 /\ delta < 3000
  <2>. HIDE DEF delta
  <2>1. anew \/ delta < 3000 \/ delta > 65435
    BY <1>2, <1>4
  <2>. QED BY <1>2, <1>3, <1>4, <2>1, LostIs
<1>7. Numbered(jbufPseq', jbufEpoch')
  <2>1. Counts(jbufPseq, jbufEpoch, seq, jbufPseq', jbufEpoch')
    BY <1>1, <1>2, <1>6 DEF Counts
  <2>. QED BY <1>4, <2>1, CountsKeeps
<1>8. ASSUME ~anew
      PROVE  jbufOut'.lost <=> (\A e \in jbufEpoch : Jbuf!Ahead(seq, e))
                                 /\ Jbuf!Minus(seq, 1) \notin jbufEpoch
  <2>1. jbufPseq \in Number /\ (delta < 3000 \/ delta > 65435)
    <3>. HIDE DEF delta
    <3>. QED BY <1>2, <1>4, <1>8
  <2>2. (delta > 1 /\ delta < 3000) <=>
         /\ \A e \in jbufEpoch : Behind(seq, e) > 0 /\ Behind(seq, e) < 32768
         /\ Behind(seq, 1) \notin jbufEpoch
    BY <1>4, <2>1, GapIsSeen
  <2>3. jbufOut'.lost <=> delta > 1 /\ delta < 3000
    <3>. HIDE DEF delta
    <3>1. lost \in Int
      BY <1>3, <1>4
    <3>2. jbufOut'.lost <=> lost > 0
      BY ONLY <1>0, <3>1
    <3>. QED BY <1>6, <1>8, <3>2
  <2>. QED BY <1>5, <2>2, <2>3
<1>9. jbufOut'.frame = f
  BY <1>0
<1>. QED BY <1>7, <1>8, <1>9 DEF seq, anew

\* The same of the frames in the buffer.
LEMMA JbufNumbers ==
  Few \subseteq Number /\ 0 \in Number
<1>1. ASSUME NEW n \in Few PROVE n \in Number
  BY PartsAssumption DEF Jbuf!RtpReceiveAssumption, Number
<1>2. 0 \in Number
  BY DEF Number
<1>. QED BY <1>1, <1>2

\* The step of LossMatchesGap with a jitter buffer.
JbufSees ==
    jbufOut' # jbufOut /\ jbufOut'.frame # Jbuf!Blank /\ jbufEpoch # {}
    /\ ~Jbuf!Restarts(jbufOut'.frame.seq) =>
        LET seq == jbufOut'.frame.seq
        IN  jbufOut'.lost <=> (\A e \in jbufEpoch : Jbuf!Ahead(seq, e))
                                /\ Jbuf!Minus(seq, 1) \notin jbufEpoch

\* Nothing was received at first.
LEMMA JbufInit ==
  ASSUME Jbuf!Init
  PROVE  JbufInv
<1>1. <<>> \in Seq(Jbuf!Frame) /\ Len(<<>>) = 0 /\ JbufMax \in Nat
  BY EmptySeq, PartsAssumption DEF Jbuf!RtpReceiveAssumption
<1>2. Jbuf!TypeOK
  <2>1. {jbufRecv, jbufStarted} \subseteq BOOLEAN
    BY DEF Jbuf!Init
  <2>. QED BY <1>1, <2>1 DEF Jbuf!Init, Jbuf!TypeOK
<1>3. Numbered(jbufPseq, jbufEpoch)
  BY DEF Jbuf!Init, Jbuf!None, Numbered
<1>4. jbufJbuf \in Seq(Of(jbufSsrc))
  BY EmptySeq DEF Jbuf!Init
<1>5. Jbuf!OneSourceAtATime
  BY DEF Jbuf!OneSourceAtATime, Jbuf!Init, Jbuf!Quiet
<1>. QED BY <1>2, <1>3, <1>4, <1>5 DEF JbufInv

\* What jbuf_flush leaves is of the source of the frame that came.
LEMMA KeptIsOne ==
  ASSUME JbufInv, NEW f \in Jbuf!Frame
  PROVE  Jbuf!Kept(f) \in Seq(Of(f.ssrc)) /\ Len(Jbuf!Kept(f)) <= JbufMax
<1>1. <<>> \in Seq(Of(f.ssrc)) /\ Len(<<>>) = 0 /\ JbufMax \in Nat
  BY EmptySeq, PartsAssumption DEF Jbuf!RtpReceiveAssumption
<1>2. jbufJbuf \in Seq(Of(jbufSsrc)) /\ Len(jbufJbuf) <= JbufMax
  BY DEF JbufInv, Jbuf!TypeOK
<1>3. CASE jbufSsrc \notin {0, f.ssrc}
  BY <1>1, <1>3 DEF Jbuf!Kept
<1>4. CASE jbufSsrc = f.ssrc
  BY <1>2, <1>4 DEF Jbuf!Kept
<1>5. CASE jbufSsrc = 0
  <2>1. Of(0) = {}
    BY PartsAssumption DEF Jbuf!RtpReceiveAssumption, Of, Jbuf!Frame
  <2>2. jbufJbuf = <<>>
    <3>1. jbufJbuf \in Seq({})
      BY <1>2, <1>5, <2>1
    <3>2. ASSUME jbufJbuf # <<>> PROVE FALSE
      <4>1. Len(jbufJbuf) \in Nat \ {0}
        BY <3>1, <3>2, EmptySeq
      <4>2. 1 \in 1 .. Len(jbufJbuf)
        BY <4>1
      <4>3. jbufJbuf[1] \in {}
        BY <3>1, <4>2, ElementOfSeq
      <4>. QED BY <4>3
    <3>. QED BY <3>2
  <2>. QED BY <1>1, <1>5, <2>2 DEF Jbuf!Kept
<1>. QED BY <1>3, <1>4, <1>5

\* So are the frames after the new one has been put among them.
LEMMA PutIsOne ==
  ASSUME JbufInv, NEW f \in Jbuf!Frame, JbufMax > 0, NEW q \in Jbuf!Put(Jbuf!Kept(f), f)
  PROVE  q \in Seq(Of(f.ssrc)) /\ q \in Seq(Jbuf!Frame) /\ Len(q) <= JbufMax
<1>1. JbufMax \in Nat \ {0}
  BY PartsAssumption DEF Jbuf!RtpReceiveAssumption
<1>2. f \in Of(f.ssrc)
  BY DEF Of
<1>3. q \in Seq(Of(f.ssrc)) /\ Len(q) <= JbufMax
  BY <1>1, <1>2, KeptIsOne, PutKeeps
<1>4. Of(f.ssrc) \subseteq Jbuf!Frame
  BY DEF Of
<1>. QED BY <1>3, <1>4, SeqMonotonic

\* What is left to show once handle_rtp has been called, or not.
LEMMA JbufTypes ==
  ASSUME JbufInv, jbufJbuf' \in Seq(Of(jbufSsrc')), jbufJbuf' \in Seq(Jbuf!Frame),
         Len(jbufJbuf') <= JbufMax, jbufSsrc' \in {0} \cup Ssrc,
         jbufRecv' \in BOOLEAN \/ jbufRecv' = jbufRecv,
         jbufStarted' \in BOOLEAN \/ jbufStarted' = jbufStarted,
         Numbered(jbufPseq', jbufEpoch'),
         jbufPseq' \in {Jbuf!None, 0} \cup Few, jbufEpoch' \subseteq {0} \cup Few,
         (Jbuf!OneSourceAtATime)'
  PROVE  JbufInv'
<1>1. {jbufRecv', jbufStarted'} \subseteq BOOLEAN
  BY DEF JbufInv, Jbuf!TypeOK
<1>2. Jbuf!TypeOK'
  BY <1>1 DEF Jbuf!TypeOK
<1>. QED BY <1>2 DEF JbufInv

\* What handle_rtp leaves of the numbers.
LEMMA JbufHandTypes ==
  ASSUME JbufInv, NEW f, f.seq \in {0} \cup Few, Jbuf!Hand(f)
  PROVE  /\ Numbered(jbufPseq', jbufEpoch') /\ JbufSees /\ jbufOut'.frame = f
         /\ jbufPseq' \in {Jbuf!None, 0} \cup Few /\ jbufEpoch' \subseteq {0} \cup Few
<1>1. f.seq \in Number
  BY JbufNumbers
<1>2. Numbered(jbufPseq', jbufEpoch') /\ JbufSees /\ jbufOut'.frame = f
  BY <1>1, JbufHands DEF JbufSees, JbufInv
<1>3. jbufPseq' \in {jbufPseq, f.seq} /\ jbufEpoch' \subseteq jbufEpoch \cup {f.seq}
  BY DEF Jbuf!Hand
<1>. QED BY <1>2, <1>3 DEF JbufInv, Jbuf!TypeOK

\* A step with a frame that is handed on, after the jitter buffer.
LEMMA BufferedKeeps ==
  ASSUME JbufInv, NEW f \in Jbuf!Frame, Jbuf!Buffered(f)
  PROVE  JbufInv' /\ JbufSees
<1>1. PICK q \in Jbuf!Put(Jbuf!Kept(f), f) :
         Len(q) > JbufMin /\ jbufJbuf' = Tail(q) /\ Jbuf!Hand(Head(q))
  BY DEF Jbuf!Buffered
<1>2. /\ JbufMax > 0 /\ jbufSsrc' = f.ssrc /\ jbufStarted' = TRUE /\ jbufRecv' = jbufRecv
  BY DEF Jbuf!Buffered
<1>3. q \in Seq(Of(f.ssrc)) /\ q \in Seq(Jbuf!Frame) /\ Len(q) <= JbufMax
  BY <1>1, <1>2, PutIsOne
<1>4. q # <<>>
  BY <1>1, EmptySeq, PartsAssumption DEF Jbuf!RtpReceiveAssumption
<1>5. /\ Head(q) \in Of(f.ssrc) /\ Tail(q) \in Seq(Of(f.ssrc)) /\ Len(Tail(q)) = Len(q) - 1
  BY <1>3, <1>4, HeadTailProperties
<1>6. Tail(q) \in Seq(Jbuf!Frame) /\ Len(q) \in Nat
  BY <1>3, <1>4, HeadTailProperties, LenProperties
<1>7. Head(q).seq \in {0} \cup Few /\ Head(q).ssrc = f.ssrc /\ f.ssrc \in Ssrc
  BY <1>5 DEF Of, Jbuf!Frame
<1>8. /\ Numbered(jbufPseq', jbufEpoch') /\ JbufSees /\ jbufOut'.frame = Head(q)
      /\ jbufPseq' \in {Jbuf!None, 0} \cup Few /\ jbufEpoch' \subseteq {0} \cup Few
  BY <1>1, <1>7, JbufHandTypes
<1>9. (Jbuf!OneSourceAtATime)'
  BY <1>2, <1>7, <1>8 DEF Jbuf!OneSourceAtATime
<1>10. /\ Len(jbufJbuf') <= JbufMax /\ jbufJbuf' \in Seq(Of(jbufSsrc'))
       /\ jbufJbuf' \in Seq(Jbuf!Frame)
  <2>1. JbufMax \in Nat
    BY PartsAssumption DEF Jbuf!RtpReceiveAssumption
  <2>2. Len(Tail(q)) <= JbufMax
    BY <1>3, <1>5, <1>6, <2>1
  <2>. QED BY <1>1, <1>2, <1>5, <1>6, <2>2
<1>. QED BY <1>2, <1>7, <1>8, <1>9, <1>10, JbufTypes

\* A step in which the jitter buffer gives nothing.
LEMMA UnderrunKeeps ==
  ASSUME JbufInv, NEW f \in Jbuf!Frame, Jbuf!Underrun(f)
  PROVE  JbufInv' /\ JbufSees
<1>1. PICK q \in Jbuf!Put(Jbuf!Kept(f), f) : jbufJbuf' = q
  BY DEF Jbuf!Underrun
<1>2. /\ JbufMax > 0 /\ jbufSsrc' = f.ssrc
      /\ jbufStarted' = jbufStarted /\ jbufRecv' = jbufRecv
  BY DEF Jbuf!Underrun
<1>3. q \in Seq(Of(f.ssrc)) /\ q \in Seq(Jbuf!Frame) /\ Len(q) <= JbufMax
  BY <1>1, <1>2, PutIsOne
<1>4. f.ssrc \in Ssrc
  BY DEF Jbuf!Frame
<1>5. CASE jbufStarted
  <2>1. Jbuf!Hand(Jbuf!Blank) /\ Jbuf!Blank.seq \in {0} \cup Few
    BY <1>5 DEF Jbuf!Underrun, Jbuf!Blank
  <2>2. /\ Numbered(jbufPseq', jbufEpoch') /\ JbufSees /\ jbufOut'.frame = Jbuf!Blank
        /\ jbufPseq' \in {Jbuf!None, 0} \cup Few /\ jbufEpoch' \subseteq {0} \cup Few
    BY <2>1, JbufHandTypes
  <2>3. (Jbuf!OneSourceAtATime)'
    BY <2>2 DEF Jbuf!OneSourceAtATime
  <2>. QED BY <1>1, <1>2, <1>3, <1>4, <2>2, <2>3, JbufTypes
<1>6. CASE ~jbufStarted
  <2>1. jbufOut' = Jbuf!Quiet /\ UNCHANGED <<jbufPseq, jbufEpoch>>
    BY <1>6 DEF Jbuf!Underrun
  <2>2. jbufOut'.frame = Jbuf!Blank
    BY <2>1 DEF Jbuf!Quiet
  <2>3. (Jbuf!OneSourceAtATime)' /\ JbufSees
    BY <2>2 DEF Jbuf!OneSourceAtATime, JbufSees
  <2>4. /\ Numbered(jbufPseq', jbufEpoch')
        /\ jbufPseq' \in {Jbuf!None, 0} \cup Few /\ jbufEpoch' \subseteq {0} \cup Few
    BY <2>1 DEF JbufInv, Jbuf!TypeOK
  <2>. QED BY <1>1, <1>2, <1>3, <1>4, <2>3, <2>4, JbufTypes
<1>. QED BY <1>5, <1>6

\* A step without a jitter buffer, which then is empty.
LEMMA NoBufferKeeps ==
  ASSUME JbufInv, NEW f \in Jbuf!Frame, Jbuf!Direct(f)
  PROVE  JbufInv' /\ JbufSees
<1>1. /\ JbufMax = 0 /\ jbufSsrc' = f.ssrc /\ Jbuf!Hand(f)
      /\ jbufRecv' = jbufRecv /\ jbufStarted' = jbufStarted /\ jbufJbuf' = jbufJbuf
  BY DEF Jbuf!Direct
<1>2. f.seq \in {0} \cup Few /\ f.ssrc \in Ssrc
  BY DEF Jbuf!Frame
<1>3. /\ Numbered(jbufPseq', jbufEpoch') /\ JbufSees /\ jbufOut'.frame = f
      /\ jbufPseq' \in {Jbuf!None, 0} \cup Few /\ jbufEpoch' \subseteq {0} \cup Few
  BY <1>1, <1>2, JbufHandTypes
<1>4. jbufJbuf \in Seq(Jbuf!Frame) /\ Len(jbufJbuf) <= JbufMax
  BY DEF JbufInv, Jbuf!TypeOK
<1>5. jbufJbuf = <<>>
  BY <1>1, <1>4, EmptySeq
<1>6. jbufJbuf' \in Seq(Of(jbufSsrc'))
  BY <1>1, <1>5, EmptySeq
<1>7. (Jbuf!OneSourceAtATime)'
  BY <1>1, <1>3 DEF Jbuf!OneSourceAtATime
<1>. QED BY <1>1, <1>2, <1>3, <1>4, <1>6, <1>7, JbufTypes

\* Reception with a jitter buffer keeps the types, the numbers and the source, and sees the
\* gaps.
LEMMA JbufNext ==
  ASSUME JbufInv, Jbuf!Next
  PROVE  JbufInv' /\ JbufSees
<1>1. ASSUME Jbuf!Ignore \/ (\E on \in BOOLEAN : Jbuf!Hold(on)) \/ Jbuf!Reset
      PROVE  JbufInv' /\ JbufSees
  <2>1. /\ jbufOut' = Jbuf!Quiet
        /\ UNCHANGED <<jbufPseq, jbufEpoch, jbufSsrc, jbufStarted>>
        /\ jbufRecv' \in BOOLEAN \/ jbufRecv' = jbufRecv
        /\ jbufJbuf' \in {jbufJbuf, <<>>}
    BY <1>1 DEF Jbuf!Ignore, Jbuf!Hold, Jbuf!Reset
  <2>2. /\ <<>> \in Seq(Jbuf!Frame) /\ <<>> \in Seq(Of(jbufSsrc)) /\ Len(<<>>) = 0
        /\ JbufMax \in Nat
    BY EmptySeq, PartsAssumption DEF Jbuf!RtpReceiveAssumption
  <2>3. jbufOut'.frame = Jbuf!Blank
    BY <2>1 DEF Jbuf!Quiet
  <2>4. (Jbuf!OneSourceAtATime)' /\ JbufSees
    BY <2>3 DEF Jbuf!OneSourceAtATime, JbufSees
  <2>5. /\ jbufJbuf' \in Seq(Of(jbufSsrc')) /\ jbufJbuf' \in Seq(Jbuf!Frame)
        /\ Len(jbufJbuf') <= JbufMax
    <3>1. /\ jbufJbuf \in Seq(Of(jbufSsrc)) /\ jbufJbuf \in Seq(Jbuf!Frame)
          /\ Len(jbufJbuf) <= JbufMax
      BY DEF JbufInv, Jbuf!TypeOK
    <3>2. 0 <= JbufMax
      BY <2>2
    <3>3. CASE jbufJbuf' = jbufJbuf
      BY <2>1, <3>1, <3>3
    <3>4. CASE jbufJbuf' = <<>>
      BY <2>1, <2>2, <3>2, <3>4
    <3>. QED BY <2>1, <3>3, <3>4
  <2>6. /\ Numbered(jbufPseq', jbufEpoch') /\ jbufSsrc' \in {0} \cup Ssrc
        /\ jbufPseq' \in {Jbuf!None, 0} \cup Few /\ jbufEpoch' \subseteq {0} \cup Few
    BY <2>1 DEF JbufInv, Jbuf!TypeOK
  <2>. QED BY <2>1, <2>4, <2>5, <2>6, JbufTypes
<1>. QED BY <1>1, NoBufferKeeps, BufferedKeeps, UnderrunKeeps DEF Jbuf!Next

-----------------------------------------------------------------------------
(* The streams as a whole. *)

\* The components that do not move stay as they are.
LEMMA FiltersStay == FiltersInv /\ UNCHANGED filtersVars => FiltersInv'
<1> SUFFICES ASSUME FiltersInv, UNCHANGED filtersVars PROVE FiltersInv'
  OBVIOUS
<1>1. UNCHANGED <<txl, rxl, at, failed, sent, enc, filtersDec>> /\ source' = source
  BY DEF filtersVars
<1>2. source' \in BOOLEAN /\ {enc, filtersDec}' \subseteq Codec \cup {Filters!None}
  BY <1>1 DEF FiltersInv
<1>. QED BY <1>1, <1>2, ChainsStay, SetupIsAll

\* The same of reception without a jitter buffer.
LEMMA DirectStay == DirectInv /\ UNCHANGED directVars => DirectInv'
<1> SUFFICES ASSUME DirectInv, UNCHANGED directVars PROVE DirectInv'
  OBVIOUS
<1>1. {directRecv', directStarted'} \subseteq BOOLEAN
  BY DEF directVars, DirectInv, Direct!TypeOK
<1>. QED BY <1>1 DEF directVars, DirectInv, Direct!TypeOK

\* The same of reception with one.
LEMMA JbufStay == JbufInv /\ UNCHANGED jbufVars => JbufInv'
<1> SUFFICES ASSUME JbufInv, UNCHANGED jbufVars PROVE JbufInv'
  OBVIOUS
<1>1. (Jbuf!OneSourceAtATime)'
  BY DEF jbufVars, JbufInv, Jbuf!OneSourceAtATime
<1>2. UNCHANGED <<jbufRecv, jbufPseq, jbufSsrc, jbufJbuf, jbufStarted, jbufEpoch>>
  BY DEF jbufVars
<1>. QED BY <1>1, <1>2, JbufTypes DEF JbufInv, Jbuf!TypeOK

\* A step of the streams is a step of one component.
LEMMA Components ==
  /\ AllInit => /\ Init /\ Poll!Init /\ Rx!Init /\ Filters!Init /\ Timers!Init
                /\ Direct!Init /\ Jbuf!Init
  /\ [AllNext]_all => /\ [Next]_vars /\ [Poll!Next]_(Poll!vars) /\ [Rx!Next]_rxVars
                      /\ [Filters!Next]_filtersVars /\ [Timers!Next]_timersVars
                      /\ [Direct!Next]_directVars /\ [Jbuf!Next]_jbufVars
<1> DEFINE Others(p) ==
      /\ p # "tx" => UNCHANGED vars
      /\ p # "poll" => UNCHANGED pollVars
      /\ p # "rx" => UNCHANGED rxVars
      /\ p # "filters" => UNCHANGED filtersVars
      /\ p # "timers" => UNCHANGED timersVars
      /\ p # "direct" => UNCHANGED directVars
      /\ p # "jbuf" => UNCHANGED jbufVars
<1>1. AllInit => /\ Init /\ Poll!Init /\ Rx!Init /\ Filters!Init /\ Timers!Init
                 /\ Direct!Init /\ Jbuf!Init
  BY Zenon DEF AllInit
<1>2. UNCHANGED pollVars => UNCHANGED Poll!vars
  BY DEF pollVars, Poll!vars
<1>3. ASSUME UNCHANGED all PROVE Others("none")
  BY <1>3 DEF all
<1>4. ASSUME NEW p, Only(p) PROVE Others(p)
  BY <1>4, Zenon DEF Only
<1> HIDE DEF Others
<1>5. ASSUME [AllNext]_all
      PROVE  \/ Others("none")
             \/ Others("tx") /\ Next
             \/ Others("poll") /\ Poll!Next
             \/ Others("rx") /\ Rx!Next
             \/ Others("filters") /\ Filters!Next
             \/ Others("timers") /\ Timers!Next
             \/ Others("direct") /\ Direct!Next
             \/ Others("jbuf") /\ Jbuf!Next
  BY <1>3, <1>4, <1>5, Zenon DEF AllNext
<1>. QED BY <1>1, <1>2, <1>5, Zenon DEF Others

\* What the steps keep, component by component.
MediaInv ==
    /\ UsersInv /\ TypeOK /\ Poll!UsersInv /\ Poll!TypeOK
    /\ RxInv /\ FiltersInv /\ TimersInv /\ DirectInv /\ JbufInv

\* What AudioTx proves, of the transmitter in the thread of the source.
LEMMA PollKeeps ==
  /\ Poll!Init => Poll!UsersInv /\ Poll!TypeOK
  /\ Poll!UsersInv /\ Poll!TypeOK /\ [Poll!Next]_(Poll!vars) => Poll!UsersInv' /\ Poll!TypeOK'
  /\ Poll!UsersInv => Poll!BufferOutlivesAll
<1>1. Poll!AudioTxAssumption
  BY PartsAssumption
<1>2. Poll!Init => Poll!UsersInv
  BY <1>1, Poll!UsersInit, Zenon
<1>3. Poll!Init => Poll!TypeOK
  BY <1>1, Poll!TypesInit, Zenon
<1>4. Poll!UsersInv /\ [Poll!Next]_(Poll!vars) => Poll!UsersInv'
  BY <1>1, Poll!UsersNext, Zenon
<1>5. Poll!TypeOK /\ [Poll!Next]_(Poll!vars) => Poll!TypeOK'
  BY <1>1, Poll!TypesNext, Zenon
<1>6. Poll!UsersInv => Poll!BufferOutlivesAll
  BY <1>1, Poll!UsersSafe, Zenon
<1>. QED BY <1>2, <1>3, <1>4, <1>5, <1>6, Zenon

\* All of it holds at first.
LEMMA MediaInit == AllInit => MediaInv
BY Components, UsersInit, TypesInit, PollKeeps, RxInit, FiltersInit,
   TimersInit, DirectInit, JbufInit, Zenon DEF MediaInv

\* All of it is kept by every step.
LEMMA MediaNext == MediaInv /\ [AllNext]_all => MediaInv'
<1> SUFFICES ASSUME MediaInv, [AllNext]_all PROVE MediaInv'
  OBVIOUS
<1>1. UsersInv' /\ TypeOK'
  BY Components, UsersNext, TypesNext, Zenon DEF MediaInv
<1>2. Poll!UsersInv' /\ Poll!TypeOK'
  BY Components, PollKeeps, Zenon DEF MediaInv
<1>3. RxInv' /\ TimersInv'
  BY Components, RxNext, TimersNext, Zenon DEF MediaInv
<1>4. FiltersInv'
  BY Components, FiltersNext, FiltersStay, Zenon DEF MediaInv
<1>5. DirectInv' /\ JbufInv'
  BY Components, DirectNext, DirectStay, JbufNext, JbufStay, Zenon DEF MediaInv
<1>. QED BY <1>1, <1>2, <1>3, <1>4, <1>5, Zenon DEF MediaInv

\* For any streams, codecs, threads, filters and sizes of the buffers: the types of all
\* components, the levels of the buffers and the numbers among them.
THEOREM MediaTypes == AllSpec => []AllTypesOK
<1>1. MediaInv => AllTypesOK
  BY RxClaims, FiltersClaims, Zenon
  DEF MediaInv, AllTypesOK, TimersInv, DirectInv, JbufInv
<1>. QED BY <1>1, MediaInit, MediaNext, PTL DEF AllSpec

\* For any codecs, sources and threads: nobody works on a buffer that stop_tx has released,
\* and there is never a second transmit thread; nor with the source's thread as transmitter.
THEOREM MediaBuffer == AllSpec => []BufferOutlivesAll /\ []Poll!BufferOutlivesAll
<1>1. MediaInv => BufferOutlivesAll /\ Poll!BufferOutlivesAll
  BY UsersSafe, PollKeeps, Zenon DEF MediaInv
<1>. QED BY <1>1, MediaInit, MediaNext, PTL DEF AllSpec

\* For any filters and any changes of the codecs, whatever filter fails and whenever the
\* source's thread walks its chain while it is made: a frame goes through the filters in the
\* order of their registration, and back.
THEOREM MediaInOrder == AllSpec => []FramesInOrder
<1>1. MediaInv => FramesInOrder
  BY FiltersClaims DEF MediaInv
<1>. QED BY <1>1, MediaInit, MediaNext, PTL DEF AllSpec

\* For any sequence numbers and time stamps, sources and sizes of the jitter buffer: the
\* duration of a stream is exact across the wraps of its time stamps, a loss is told of
\* exactly when the numbers have a gap, each frame meets the decoder of its payload type and
\* none is of an earlier source.
THEOREM MediaReception == AllSpec => ReceptionIsExact
<1>1. MediaInv => /\ Rx!PlayerHasBuffer /\ Rx!DurationIsExact /\ Rx!PayloadIsDecoded
                  /\ Jbuf!OneSourceAtATime
  BY RxClaims, Zenon DEF MediaInv, JbufInv
<1>2. MediaInv /\ [AllNext]_all => [DirectSees]_(Direct!vars)
  <2>1. UNCHANGED directVars => UNCHANGED Direct!vars
    BY DEF directVars, Direct!vars
  <2>. QED BY <2>1, Components, DirectNext, Zenon DEF MediaInv
<1>3. MediaInv /\ [AllNext]_all => [JbufSees]_(Jbuf!vars)
  <2>1. UNCHANGED jbufVars => UNCHANGED Jbuf!vars
    BY DEF jbufVars, Jbuf!vars
  <2>. QED BY <2>1, Components, JbufNext, Zenon DEF MediaInv
<1>. QED BY <1>1, <1>2, <1>3, MediaInit, MediaNext, PTL
     DEF AllSpec, ReceptionIsExact, Direct!LossMatchesGap, Jbuf!LossMatchesGap, DirectSees,
         JbufSees

\* For any streams, timeouts and intervals: a stream that fell silent is found out within the
\* timeout and one check, only such a one ends the call, and the path is kept open while
\* nothing is sent.
THEOREM MediaSilence == AllSpec => SilenceIsDetected
<1>1. MediaInv => Timers!SilenceIsDetected /\ Timers!PathStaysOpen
  BY TimersClaims DEF MediaInv
<1>2. [AllNext]_all => [up /\ ~up' => \E s \in Stream : dir[s] /\ age[s] > Timeout]_(Timers!vars)
  BY Components, TimersClose, Zenon
<1>. QED BY <1>1, <1>2, MediaInit, MediaNext, PTL
     DEF AllSpec, SilenceIsDetected, Timers!ClosedForSilence
=============================================================================
