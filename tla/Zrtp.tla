---------------------------------- MODULE Zrtp ----------------------------------
(***************************************************************************)
(* Module zrtp (zrtp.c): the streams of a call agree on keys through their *)
(* own media packets, and the zrtp-hash of the SDP says whose Hello is     *)
(* meant.  A Hello with another hash aborts the call, by a timer, because  *)
(* it is found while libzrtp works; until then all packets are dropped.    *)
(* libzrtp, the peer and the network are external.                         *)
(***************************************************************************)
EXTENDS Naturals

CONSTANTS
    Media,     \* the media streams of the call
    Hashes,    \* what the SDP of the peer may say: "none", "right" or "wrong"
    Faults     \* with "process" libzrtp may fail on a packet

\* What is assumed of the constants; the module that gives them values asserts it.
ZrtpAssumption == Hashes \subseteq {"none", "right", "wrong"} /\ Faults \subseteq {"process"}

VARIABLES
    sess,      \* the session: "live" or "gone"
    err,       \* sess->err is set
    timer,     \* sess->abort_timer runs
    errorh,    \* sess->errorh is set
    stream,    \* "none", "attached" or "started"
    addr,      \* st->raddr is set
    hash,      \* the zrtp-hash that libzrtp compares with
    hello,     \* libzrtp has taken the peer's Hello
    secure,    \* libzrtp has the keys
    packet,    \* what became of the last packet, Nothing if it was dropped
    late       \* history: abort_timer_h wrote to a session that was released

vars == <<sess, err, timer, errorh, stream, addr, hash, hello, secure, packet, late>>
session == <<sess, err, timer, errorh, late>>
streams == <<stream, addr, hash>>

Type == {"media", "zrtp", "other"}
Nothing == [way |-> "none"]

\* What may come: media (RTP or RTCP) or other packets, clear or encrypted, and packets of
\* libzrtp's protocol: the last one or a Hello, of our peer (ours) or of another.
Incoming ==
    [type : {"media", "other"}, form : {"clear", "coded"}]
        \cup [type : {"zrtp"}, last : BOOLEAN, ours : BOOLEAN]
Packet == {Nothing} \cup [way : {"out", "in"}, m : Media, type : Type, form : {"clear", "coded", "bad"}]

TypeOK ==
    /\ sess \in {"live", "gone"} /\ {err, timer, errorh, late} \subseteq BOOLEAN
    /\ stream \in [Media -> {"none", "attached", "started"}]
    /\ addr \in [Media -> BOOLEAN] /\ hash \in [Media -> {"none", "right", "wrong"}]
    /\ hello \in [Media -> BOOLEAN] /\ secure \in [Media -> BOOLEAN] /\ packet \in Packet

\* session_alloc.
Init ==
    /\ sess = "live" /\ err = FALSE /\ timer = FALSE /\ errorh = TRUE /\ late = FALSE
    /\ stream = [m \in Media |-> "none"] /\ addr = [m \in Media |-> FALSE]
    /\ hash = [m \in Media |-> "none"] /\ hello = [m \in Media |-> FALSE]
    /\ secure = [m \in Media |-> FALSE] /\ packet = Nothing

-----------------------------------------------------------------------------
\* sig_hash_decode, before zrtp_stream_start: a stream that has started keeps its hash.
SigHash(m, h) == hash' = IF stream[m] = "started" THEN hash ELSE [hash EXCEPT ![m] = h]

\* media_alloc, for each SDP that is sent or received: the stream is attached, and started
\* when the peer's address is known.
MediaAlloc(m, known, h) ==
    /\ sess = "live"
    /\ IF known THEN /\ stream' = [stream EXCEPT ![m] = "started"]
                     /\ addr' = [addr EXCEPT ![m] = TRUE] /\ SigHash(m, h)
       ELSE /\ stream' = [stream EXCEPT ![m] = IF @ = "none" THEN "attached" ELSE @]
            /\ UNCHANGED <<addr, hash>>
    /\ packet' = Nothing /\ UNCHANGED <<session, hello, secure>>

\* Mutant: packets are taken while the call is being aborted.
DropPacketsNot(m) == stream[m] = "none"

\* drop_packets.
DropPackets(m) == stream[m] = "none" \/ err

\* get_packet_type tells ZRTP from RTP and RTCP (media); the helpers leave others alone.
Processed(type) == type # "other"

\* udp_helper_send: libzrtp encrypts, drops, or leaves as it is what it has no keys for; when
\* it fails the packet goes out as it was.
UdpHelperSend(m, type) ==
    LET sent(form) == packet' = [way |-> "out", m |-> m, type |-> type, form |-> form]
    IN  /\ sess = "live" /\ stream[m] # "none" /\ type # "zrtp"
        /\ \/ DropPackets(m) /\ packet' = Nothing
           \/ ~DropPackets(m) /\ ~Processed(type) /\ sent("clear")
           \/ /\ ~DropPackets(m) /\ Processed(type)
              /\ \/ packet' = Nothing
                 \/ sent(IF secure[m] THEN "coded" ELSE "clear")
                 \/ "process" \in Faults /\ sent("clear")
        /\ UNCHANGED <<session, streams, hello, secure>>

\* on_zrtp_security_event and abort_call: the Hello is not the one that the SDP announced.
AbortCall ==
    /\ err' = TRUE /\ timer' = (timer \/ ~err)
    /\ UNCHANGED <<sess, errorh, late, hello, secure>>

\* What libzrtp does with a packet of its own protocol: a Hello is compared with the hash, and
\* the last packet of the agreement gives the keys.
Protocol(m, p) ==
    LET meant == hash[m] = "none" \/ (p.ours <=> hash[m] = "right")
    IN  CASE p.last /\ hello[m] -> secure' = [secure EXCEPT ![m] = TRUE] /\ UNCHANGED <<session, hello>>
          [] ~p.last /\ meant -> hello' = [hello EXCEPT ![m] = TRUE] /\ UNCHANGED <<session, secure>>
          [] ~p.last /\ ~meant -> AbortCall
          [] OTHER -> UNCHANGED <<session, hello, secure>>

\* udp_helper_recv: libzrtp decrypts and keeps the packets of its protocol; when it fails the
\* packet is delivered as it came.
UdpHelperRecv(m, p) ==
    LET heard(f) == packet' = [way |-> "in", m |-> m, type |-> p.type, form |-> f]
    IN  /\ sess = "live" /\ stream[m] # "none"
        /\ IF DropPackets(m) \/ (p.type = "zrtp" /\ stream[m] # "started")
           THEN packet' = Nothing /\ UNCHANGED <<session, hello, secure>>
           ELSE IF p.type = "zrtp" THEN packet' = Nothing /\ Protocol(m, p)
           ELSE /\ UNCHANGED <<session, hello, secure>>
                /\ \/ ~Processed(p.type) /\ heard("clear")
                   \/ /\ Processed(p.type)
                      /\ \/ packet' = Nothing
                         \/ ~secure[m] /\ heard(IF p.form = "coded" THEN "bad" ELSE p.form)
                         \/ secure[m] /\ p.form = "coded" /\ heard("clear")
                         \/ "process" \in Faults /\ heard("bad")
        /\ UNCHANGED streams

\* on_send_packet: a packet of libzrtp's own.
OnSendPacket(m) ==
    /\ sess = "live" /\ stream[m] = "started"
    /\ packet' = IF DropPackets(m) \/ ~addr[m] THEN Nothing
                 ELSE [way |-> "out", m |-> m, type |-> "zrtp", form |-> "clear"]
    /\ UNCHANGED <<session, streams, hello, secure>>

\* media_destructor of each stream, then session_destructor.
Released ==
    /\ sess' = "gone" /\ timer' = FALSE
    /\ stream' = [m \in Media |-> "none"] /\ secure' = [m \in Media |-> FALSE]
    /\ hello' = [m \in Media |-> FALSE] /\ packet' = Nothing
    /\ UNCHANGED <<err, addr, hash>>

\* abort_timer_h: menc_error_handler closes the call, which releases the session, and the
\* handler then clears sess->errorh.
AbortTimerH == timer /\ Released /\ errorh' = FALSE /\ late' = TRUE

\* The call ends for another reason.
CallEnds == sess = "live" /\ Released /\ UNCHANGED <<errorh, late>>

Next ==
    \/ AbortTimerH \/ CallEnds
    \/ \E m \in Media :
          \/ OnSendPacket(m)
          \/ \E known \in BOOLEAN, h \in Hashes : MediaAlloc(m, known, h)
          \/ \E type \in Type : UdpHelperSend(m, type)
          \/ \E p \in Incoming : UdpHelperRecv(m, p)

Spec == Init /\ [][Next]_vars

-----------------------------------------------------------------------------
\* Once a stranger's Hello was found no stream of the call sends or delivers anything, the
\* other streams included (drop_packets in both helpers and in on_send_packet).
QuietAfterAttack == err => packet = Nothing

\* What libzrtp has keys for is neither sent nor delivered unprotected (udp_helper_send,
\* udp_helper_recv), but for packets that are no media.
SecureIsKept ==
    (packet # Nothing /\ packet.type = "media" /\ secure[packet.m]) =>
        packet.form = IF packet.way = "out" THEN "coded" ELSE "clear"

\* A call that is aborted will be closed: the timer runs until the session is released
\* (abort_call starts it once).
AbortEnds == (err /\ sess = "live") => timer

\* "we need a safe shutdown" (on_zrtp_security_event): the session is not used once the
\* handler has released it.
NothingAfterRelease == ~late
=================================================================================
