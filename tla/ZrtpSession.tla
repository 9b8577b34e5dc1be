------------------------------ MODULE ZrtpSession ------------------------------
(***************************************************************************)
(* The ZRTP sessions of the two ends of a call, module gzrtp: one stream   *)
(* of each end, the master, agrees on keys by Diffie-Hellman, the others   *)
(* derive theirs from it (multistream mode).  With zrtp_parallel all       *)
(* streams begin as masters, and the first that hears of the peer is the   *)
(* one.  The protocol engine of each stream (a Hello stands for it and its *)
(* HelloACK) and the network, which loses, repeats and reorders packets,   *)
(* are external.                                                           *)
(***************************************************************************)
EXTENDS Integers, Sequences, FiniteSets

CONSTANTS
    Order,      \* the media streams, in the order of the SDP
    Parallels,  \* the sets of ends that may have zrtp_parallel
    Hasty,      \* TRUE: a re-INVITE may come while keys are agreed on
    MaxStarts   \* how often start_stream may take a stream of an end in

Streams == {Order[i] : i \in 1 .. Len(Order)}
Ends == {"a", "b"}
None == "none"

\* What is assumed of the constants; the module that gives them values asserts it.
ZrtpSessionAssumption ==
    /\ Order \in Seq(Streams) /\ \A i, j \in 1 .. Len(Order) : Order[i] = Order[j] => i = j
    /\ None \notin Streams
    /\ Parallels \subseteq SUBSET Ends /\ Hasty \in BOOLEAN /\ MaxStarts \in Nat

VARIABLES
    sdp, due,   \* the streams of the last offer and answer; the ends that have yet to take them
    parallel,   \* the ends with zrtp_parallel
    session,    \* of each end: m_master, m_encrypted, m_streams, and the engine of each stream:
                \* "idle" (not started), "dh" or "multi"
    hello,      \* Hellos that may be on their way, by end and stream
    met,        \* the streams of an end that have heard of the peer since they started
    secure,     \* the streams of an end that have keys
    announced   \* ends that were told that all streams are encrypted, with the SAS

vars == <<sdp, due, parallel, session, hello, met, secure, announced>>

Peer(n) == IF n = "a" THEN "b" ELSE "a"
Known(n) == {session[n].streams[i] : i \in 1 .. Len(session[n].streams)}

TypeOK ==
    /\ sdp \subseteq Streams /\ due \subseteq Ends /\ parallel \in Parallels
    /\ \A n \in Ends :
          /\ session[n].master \in Streams \cup {None}
          /\ session[n].encrypted \in 0 .. Cardinality(Streams)
          /\ session[n].streams \in Seq(Streams) /\ Len(session[n].streams) <= MaxStarts
          /\ session[n].mode \in [Streams -> {"idle", "dh", "multi"}]
    /\ hello \subseteq Ends \X Streams
    /\ met \in [Ends -> SUBSET Streams] /\ secure \in [Ends -> SUBSET Streams]
    /\ announced \subseteq Ends

Init ==
    /\ sdp = {} /\ due = {} /\ parallel \in Parallels
    /\ session = [n \in Ends |->
           [master |-> None, encrypted |-> 0, streams |-> <<>>, mode |-> [s \in Streams |-> "idle"]]]
    /\ hello = {} /\ met = [n \in Ends |-> {}] /\ secure = [n \in Ends |-> {}] /\ announced = {}

-----------------------------------------------------------------------------
\* Stream::start: not twice, and in multistream mode only with a master that has keys.
Started(r, s, multi, ready) ==
    IF r.mode[s] # "idle" \/ (multi /\ ~ready) THEN r
    ELSE [r EXCEPT !.mode[s] = IF multi THEN "multi" ELSE "dh"]

\* Mutant: without zrtp_parallel each stream begins as the master.
StartStreamAsMaster(n, r, s) ==
    LET q == [r EXCEPT !.streams = Append(@, s)]
    IN  CASE r.mode[s] # "idle" -> r
          [] r.mode[s] = "idle" /\ n \in parallel ->
                 Started(q, s, q.master # None /\ q.encrypted > 0, q.master \in secure[n])
          [] OTHER -> Started([q EXCEPT !.master = s], s, FALSE, FALSE)

\* Session::start_stream.
StartStream(n, r, s) ==
    LET q == [r EXCEPT !.streams = Append(@, s)]
        ready == q.master \in secure[n]
    IN  CASE r.mode[s] # "idle" -> r
          [] r.mode[s] = "idle" /\ n \in parallel ->
                 Started(q, s, q.master # None /\ q.encrypted > 0, ready)
          [] r.mode[s] = "idle" /\ n \notin parallel /\ q.master = None ->
                 Started([q EXCEPT !.master = s], s, FALSE, ready)
          [] OTHER -> IF q.encrypted > 0 THEN Started(q, s, TRUE, ready) ELSE q

\* An offer is answered, first or by a re-INVITE: both ends get the streams of S.
OfferAnswer(S) ==
    /\ due = {} /\ (Hasty \/ \A n \in Ends : Known(n) \subseteq secure[n])
    /\ S # {} /\ sdp' = S /\ due' = Ends
    /\ \A n \in Ends : Len(session[n].streams) + Cardinality(S) <= MaxStarts
    /\ UNCHANGED <<parallel, session, hello, met, secure, announced>>

\* media_alloc for each stream that has an address then.
Update(n) ==
    LET F[i \in 0 .. Len(Order)] ==
            IF i = 0 THEN session[n]
            ELSE IF Order[i] \in sdp THEN StartStream(n, F[i - 1], Order[i]) ELSE F[i - 1]
    IN  /\ n \in due /\ due' = due \ {n}
        /\ session' = [session EXCEPT ![n] = F[Len(Order)]]
        /\ UNCHANGED <<sdp, parallel, hello, met, secure, announced>>

\* An engine sends its Hello, again and again until it has keys.
SendHello(n, s) ==
    /\ session[n].mode[s] # "idle" /\ s \notin secure[n]
    /\ hello' = hello \cup {<<n, s>>}
    /\ UNCHANGED <<sdp, due, parallel, session, met, secure, announced>>

\* Session::request_master: with zrtp_parallel the first stream that hears of the peer is the
\* master, and the others stop.
RequestMaster(n, s) ==
    /\ session' = IF n \in parallel /\ session[n].master = None
                  THEN [session EXCEPT ![n] = [@ EXCEPT !.master = s,
                           !.mode = [t \in Streams |-> IF t = s \/ t \notin Known(n) THEN session[n].mode[t] ELSE "idle"]]]
                  ELSE session
    /\ met' = [met EXCEPT ![n] = {t \in @ \cup {s} : session'[n].mode[t] # "idle"}]

\* A Hello of the peer comes; a stream that is not started leaves it alone (udp_helper_recv).
ReceiveHello(n, s) ==
    /\ <<Peer(n), s>> \in hello /\ session[n].mode[s] # "idle" /\ s \notin met[n]
    /\ IF session[n].mode[s] = "dh" THEN RequestMaster(n, s)
       ELSE met' = [met EXCEPT ![n] = @ \cup {s}] /\ UNCHANGED session
    /\ UNCHANGED <<sdp, due, parallel, hello, secure, announced>>

\* A Hello is lost.
Lose(h) == hello' = hello \ {h} /\ h \in hello /\ UNCHANGED <<sdp, due, parallel, session, met, secure, announced>>

\* The engines of a stream can agree: both have heard of each other in the same mode, and
\* derive their keys from the same master.
Agree(n, s) ==
    /\ session[n].mode[s] # "idle" /\ session[n].mode[s] = session[Peer(n)].mode[s]
    /\ s \in met[n] /\ s \in met[Peer(n)]
    /\ session[n].mode[s] = "multi" => session[n].master = session[Peer(n)].master

\* Session::on_secure: when the master has its keys, the others start in multistream mode.
OnSecure(n, s) ==
    LET r == [session[n] EXCEPT !.encrypted = @ + 1]
        all == r.encrypted = Len(r.streams) /\ r.master # None
        Go(t) == IF t # s /\ t \in Known(n) /\ r.mode[t] = "idle" THEN "multi" ELSE r.mode[t]
    IN  /\ announced' = IF all THEN announced \cup {n} ELSE announced
        /\ session' = [session EXCEPT ![n] =
               IF all \/ s # r.master THEN r ELSE [r EXCEPT !.mode = [t \in Streams |-> Go(t)]]]

\* A stream gets its keys, one end before the other.
Secure(n, s) ==
    /\ s \notin secure[n] /\ Agree(n, s)
    /\ secure' = [secure EXCEPT ![n] = @ \cup {s}]
    /\ OnSecure(n, s)
    /\ UNCHANGED <<sdp, due, parallel, hello, met>>

Next ==
    \/ \E S \in SUBSET Streams : OfferAnswer(S)
    \/ \E n \in Ends : Update(n)
    \/ \E n \in Ends, s \in Streams : SendHello(n, s) \/ ReceiveHello(n, s) \/ Secure(n, s)
    \/ \E h \in hello : Lose(h)

\* Hellos are repeated and some come, and engines that can agree do.
Fairness ==
    \A n \in Ends : WF_vars(Update(n)) /\ \A s \in Streams :
        WF_vars(SendHello(n, s)) /\ SF_vars(ReceiveHello(n, s)) /\ WF_vars(Secure(n, s))

Spec == Init /\ [][Next]_vars /\ Fairness

-----------------------------------------------------------------------------
\* No stream that has keys is stopped, and both ends derive its keys from the same master
\* (session.cpp:102-127): what one sends the other can read.
SecureStays ==
    \A n \in Ends : \A s \in secure[n] :
        /\ session[n].mode[s] # "idle" /\ session[n].master \in secure[n]
        /\ s \in secure[Peer(n)] => session[n].master = session[Peer(n)].master

\* When all streams of an end have keys the user was shown the SAS (session.cpp:132-139). With
\* Hasty a re-INVITE counts a stream that waits for the master twice, and it never is.
AnnouncedWhenAll == \A n \in Ends : (Known(n) # {} /\ Known(n) \subseteq secure[n]) => n \in announced

\* A stream that both ends have gets its keys (session.cpp:75-78): not both ends having
\* zrtp_parallel, and no re-INVITE in between (Hasty), after which one end may start a stream
\* anew in another mode than the other.
BothHave(s) == s \in Known("a") /\ s \in Known("b")
StreamsGetSecure ==
    \A s \in Streams : (parallel # Ends /\ BothHave(s)) ~> (s \in secure["a"] /\ s \in secure["b"])

\* The same when both ends have zrtp_parallel, which is the default: each may take another
\* stream for the master and stop the one that the other has taken.
StreamsGetSecureAnyway == \A s \in Streams : BothHave(s) ~> (s \in secure["a"] /\ s \in secure["b"])
===============================================================================
