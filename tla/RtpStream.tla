------------------------------ MODULE RtpStream ------------------------------
(***************************************************************************)
(* The timers of the media streams of a call (src/stream.c,                *)
(* src/rtpkeep.c): the check that closes the call when RTP stops, and the  *)
(* keepalive that keeps the path open while nothing is sent.  Time is      *)
(* counted in ticks; a timer that is due runs before time goes on, as in   *)
(* the loop of libre.  What is received goes through RtpReceive.           *)
(***************************************************************************)
EXTENDS Integers

CONSTANTS
    Stream,      \* the media streams of the call
    Timeout,     \* rtp_timeout_ms, 0 for off
    Interval,    \* RTP_CHECK_INTERVAL
    Large,       \* the hour after which a gap is taken for a jump in time
    Period,      \* Tr_UDP
    Method       \* rtpkeep of the account: none, zero, stun, dyna, rtcp or other

\* What is assumed of the constants; the module that gives them values asserts it.
RtpStreamAssumption ==
    /\ Timeout \in Nat /\ {Interval, Large, Period} \subseteq Nat \ {0}
    /\ Timeout + Interval < Large
    /\ Method \in {"none", "zero", "stun", "dyna", "rtcp", "other"}

VARIABLES
    up,       \* the call is there, and its streams
    estab,    \* the call was established
    dir,      \* sdp_media_dir is SDP_SENDRECV
    check,    \* ticks until tmr_rtp runs, or Off
    age,      \* ticks since ts_last, saturated; None when ts_last is 0
    keep,     \* ticks until the timer of rtpkeep runs, or Off
    flag,     \* rtpkeep.flag
    both,     \* history: ticks in sendrecv, saturated
    got,      \* history: RTP or RTCP was received
    silent    \* history: ticks since the stream with keepalive last tried to
              \* send, saturated

call == <<up, estab>>
receiving == <<check, age, got>>
sending == <<keep, flag, silent>>
vars == <<call, dir, both, receiving, sending>>

Off == -1
None == -1
Oldest == Large + Interval + 1
Longest == 2 * Period + 1

TypeOK ==
    /\ {up, estab, got} \subseteq BOOLEAN
    /\ dir \in [Stream -> BOOLEAN]
    /\ check \in [Stream -> Off .. Interval]
    /\ age \in [Stream -> None .. Oldest]
    /\ keep \in [Stream -> Off .. Period]
    /\ flag \in [Stream -> BOOLEAN]
    /\ both \in [Stream -> 0 .. Interval + 1]
    /\ silent \in [Stream -> 0 .. Longest]

\* A call whose media was agreed on in early media, before it is established:
\* no timer of its streams runs.
Init ==
    /\ up = TRUE /\ estab = FALSE
    /\ dir \in [Stream -> BOOLEAN]
    /\ check = [s \in Stream |-> Off]
    /\ age = [s \in Stream |-> None]
    /\ keep = [s \in Stream |-> Off]
    /\ flag = [s \in Stream |-> FALSE]
    /\ both = [s \in Stream |-> 0]
    /\ got = FALSE
    /\ silent = [s \in Stream |-> 0]

\* Mutant: the first check waits for the first delay and an interval.
EnableTimeoutLong ==
    IF Timeout = 0 THEN UNCHANGED <<check, age>>
    ELSE /\ check' = [s \in Stream |-> 1 + Interval]
         /\ age' = [s \in Stream |-> 0]

\* stream_enable_rtp_timeout for every stream.
EnableTimeout ==
    IF Timeout = 0 THEN UNCHANGED <<check, age>>
    ELSE /\ check' = [s \in Stream |-> 1]
         /\ age' = [s \in Stream |-> 0]

\* sipsess_estab_handler: stream_reset for every stream, which starts the
\* keepalive of a stream the peer accepted, then stream_enable_rtp_timeout.
Establish(accepted) ==
    /\ up /\ ~estab
    /\ estab' = TRUE
    /\ keep' = [s \in Stream |-> IF Method # "none" /\ s \in accepted THEN 1 ELSE Off]
    /\ flag' = [s \in Stream |-> FALSE]
    /\ silent' = [s \in Stream |-> 0]
    /\ EnableTimeout
    /\ UNCHANGED <<up, dir, both, got>>

\* stream_close: the error handler of the stream closes the call, whose
\* destructor cancels the timers of all its streams.
Close ==
    /\ up' = FALSE
    /\ check' = [s \in Stream |-> Off]
    /\ keep' = [s \in Stream |-> Off]

\* Mutant: a gap is noticed one tick late.
CheckRtpLate(s) ==
    /\ up /\ check[s] = 0
    /\ IF dir[s] /\ age[s] > Timeout + 1
       THEN Close
       ELSE check' = [check EXCEPT ![s] = Interval] /\ UNCHANGED <<up, keep>>
    /\ UNCHANGED <<estab, dir, age, flag, both, got, silent>>

\* Mutant: the check is not started again when the stream is on hold.
CheckRtpOnce(s) ==
    /\ up /\ check[s] = 0
    /\ IF dir[s] /\ age[s] \in Timeout + 1 .. Large
       THEN Close
       ELSE check' = [check EXCEPT ![s] = IF dir[s] THEN Interval ELSE Off] /\ UNCHANGED <<up, keep>>
    /\ UNCHANGED <<estab, dir, age, flag, both, got, silent>>

\* Mutant: the direction is not looked at.
CheckRtpAlways(s) ==
    /\ up /\ check[s] = 0
    /\ IF age[s] > Timeout
       THEN Close
       ELSE check' = [check EXCEPT ![s] = Interval] /\ UNCHANGED <<up, keep>>
    /\ UNCHANGED <<estab, dir, age, flag, both, got, silent>>

\* check_rtp_handler.
CheckRtp(s) ==
    /\ up /\ check[s] = 0
    /\ \/ /\ dir[s] /\ age[s] \in Timeout + 1 .. Large
          /\ Close
          /\ UNCHANGED age
       \/ /\ ~(dir[s] /\ age[s] \in Timeout + 1 .. Large)
          /\ check' = [check EXCEPT ![s] = Interval]
          /\ age' = IF dir[s] /\ age[s] > Large THEN [age EXCEPT ![s] = None] ELSE age
          /\ UNCHANGED <<up, keep>>
    /\ UNCHANGED <<estab, dir, flag, both, got, silent>>

\* rtp_handler and rtcp_handler: any packet counts, also one that is empty or
\* that the local direction does not let through.
Receive(s) ==
    /\ up
    /\ age' = [age EXCEPT ![s] = 0]
    /\ got' = TRUE
    /\ UNCHANGED <<call, dir, check, both, sending>>

\* An answer or an offer was decoded: stream_update, after stream_hold of this
\* side or of the peer.
Redirect(d) ==
    /\ up
    /\ dir' = d
    /\ both' = [s \in Stream |-> IF d[s] THEN both[s] ELSE 0]
    /\ UNCHANGED <<call, receiving, sending>>

\* stream_send with a payload type and a remote address.  rtpkeep_refresh follows
\* whether or not rtp_send could send.
Send(s) ==
    /\ up /\ dir[s]
    /\ silent' = [silent EXCEPT ![s] = 0]
    /\ flag' = IF keep[s] = Off THEN flag ELSE [flag EXCEPT ![s] = TRUE]
    /\ UNCHANGED <<call, dir, receiving, both, keep>>

\* send_keepalive: dyna needs an unused payload type.
SendKeepalive(s, unused) ==
    silent' = IF Method \in {"zero", "stun"} \/ (Method = "dyna" /\ unused)
              THEN [silent EXCEPT ![s] = 0] ELSE silent

\* Mutant: a period with traffic does not clear the flag.
KeepTimeoutSticky(s, unused) ==
    /\ up /\ keep[s] = 0
    /\ keep' = [keep EXCEPT ![s] = Period]
    /\ IF flag[s] THEN UNCHANGED silent ELSE SendKeepalive(s, unused)
    /\ UNCHANGED <<call, dir, receiving, both, flag>>

\* timeout of rtpkeep.
KeepTimeout(s, unused) ==
    /\ up /\ keep[s] = 0
    /\ keep' = [keep EXCEPT ![s] = Period]
    /\ flag' = [flag EXCEPT ![s] = FALSE]
    /\ IF flag[s] THEN UNCHANGED silent ELSE SendKeepalive(s, unused)
    /\ UNCHANGED <<call, dir, receiving, both>>

\* tmr_jiffies goes on when no timer is due.
Tick ==
    /\ up
    /\ \A s \in Stream : check[s] # 0 /\ keep[s] # 0
    /\ check' = [s \in Stream |-> IF check[s] = Off THEN Off ELSE check[s] - 1]
    /\ keep' = [s \in Stream |-> IF keep[s] = Off THEN Off ELSE keep[s] - 1]
    /\ age' = [s \in Stream |-> IF age[s] \in {None, Oldest} THEN age[s] ELSE age[s] + 1]
    /\ both' = [s \in Stream |-> IF dir[s] /\ both[s] <= Interval THEN both[s] + 1 ELSE both[s]]
    /\ silent' = [s \in Stream |-> IF keep[s] = Off \/ silent[s] = Longest THEN silent[s] ELSE silent[s] + 1]
    /\ UNCHANGED <<call, dir, flag, got>>

Next ==
    \/ \E accepted \in SUBSET Stream : Establish(accepted)
    \/ \E d \in [Stream -> BOOLEAN] : Redirect(d)
    \/ \E s \in Stream : CheckRtp(s) \/ Receive(s) \/ Send(s)
    \/ \E s \in Stream, unused \in BOOLEAN : KeepTimeout(s, unused)
    \/ Tick
    \/ ~up /\ UNCHANGED vars

\* The loop of libre runs the timers that are due, and time goes on.
Fairness ==
    /\ WF_vars(Tick)
    /\ \A s \in Stream : WF_vars(CheckRtp(s)) /\ WF_vars(\E u \in BOOLEAN : KeepTimeout(s, u))

Spec == Init /\ [][Next]_vars /\ Fairness

-----------------------------------------------------------------------------
\* A stream that sends and receives is not left without packets for longer than
\* the timeout and one interval of check_rtp_handler, counted from the moment it
\* became sendrecv, unless the gap is so long that it is taken for a jump in time.
SilenceIsDetected ==
    \A s \in Stream : up /\ check[s] # Off /\ both[s] > Interval =>
        age[s] <= Timeout + Interval

\* check_rtp_handler closes a call only for a stream that sends and receives and
\* got nothing for longer than the timeout: never while all the others got some,
\* nor because of a stream that was put on hold.
ClosedForSilence ==
    [][up /\ ~up' => \E s \in Stream : dir[s] /\ age[s] > Timeout]_vars

\* A timer that was started keeps running for as long as the call is up: hold,
\* resumption and a jump in time do not stop the check of a stream.
ChecksGoOn ==
    Timeout # 0 => \A s \in Stream : [](up /\ check[s] # Off => []<>(~up \/ check[s] = 0))

\* The path of a stream with keepalive is never without a packet for longer than
\* two periods of rtpkeep.c, whatever the direction of the stream.
PathStaysOpen ==
    \A s \in Stream : up /\ keep[s] # Off /\ Method \in {"zero", "stun"} =>
        silent[s] <= 2 * Period

\* "If no RTP was received at all, check later" (stream.c:38): a call that never
\* got a packet is not closed.
NoRtpChecksLater ==
    [][up /\ ~up' => got]_vars
=============================================================================
