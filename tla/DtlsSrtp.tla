------------------------------- MODULE DtlsSrtp -------------------------------
(***************************************************************************)
(* SRTP with keys from DTLS, module dtls_srtp: who connects follows from   *)
(* the attribute "setup" of the peer's SDP, a timer lets ICE settle, each  *)
(* component (RTP, and RTCP unless multiplexed) has a DTLS connection, and *)
(* its keys protect the packets when it is established.  The DTLS stack,   *)
(* the peer and the call, which ends when it is told of an error, are      *)
(* external.                                                               *)
(***************************************************************************)
EXTENDS Integers

CONSTANT
    Faults     \* of "swap", "again", "zero", "connect" and "keyinfo", explained where they occur

\* What is assumed of the constants; the module that gives them values asserts it.
DtlsSrtpAssumption == Faults \subseteq {"swap", "again", "zero", "connect", "keyinfo"}

VARIABLES
    offerer,     \* sess->offerer
    comps,       \* the components: 1, and 2 unless st->mux
    setup,       \* the peer's attribute, or "none" before its SDP has come
    hasMedia, raddr,  \* its SDP has this stream, and an address for it
    active, timer, started,
    sock, conn,  \* comp->dtls_sock; comp->tls_conn: "none", "client", "server" or "up"
    role,        \* the DTLS role in which the connection was established
    negotiated, tx, rx,  \* comp->negotiated, the keys in use: "none", "client" or "server"
    helpers,     \* the handlers on the socket that protect packets
    told         \* the call was told of an error, and ends

vars == <<offerer, comps, setup, hasMedia, raddr, active, timer, started, sock, conn, role, negotiated, tx, rx, helpers, told>>
sdp == <<offerer, comps, setup, hasMedia, raddr, active>>
keys == <<role, negotiated, tx, rx, helpers>>

Component == {1, 2}
Each(x) == [c \in Component |-> x]
Keys == {"none", "client", "server"}
Other(r) == IF r = "client" THEN "server" ELSE "client"

TypeOK ==
    /\ offerer \in BOOLEAN /\ comps \in {{1}, {1, 2}}
    /\ setup \in {"none", "active", "passive", "actpass"}
    /\ hasMedia \in BOOLEAN /\ raddr \in BOOLEAN
    /\ active \in BOOLEAN /\ timer \in BOOLEAN /\ started \in BOOLEAN
    /\ sock \in [Component -> BOOLEAN] /\ conn \in [Component -> {"none", "client", "server", "up"}]
    /\ role \in [Component -> Keys] /\ negotiated \in [Component -> BOOLEAN]
    /\ tx \in [Component -> Keys] /\ rx \in [Component -> Keys]
    /\ helpers \in [Component -> 0 .. 2] /\ told \in BOOLEAN

\* session_alloc says "actpass" in an offer and "active" in an answer.
Init ==
    /\ offerer \in BOOLEAN /\ comps \in {{1}, {1, 2}}
    /\ setup = "none" /\ hasMedia = FALSE /\ raddr = FALSE
    /\ active = FALSE /\ timer = FALSE /\ started = FALSE
    /\ sock = Each(FALSE) /\ conn = Each("none") /\ role = Each("none")
    /\ negotiated = Each(FALSE) /\ tx = Each("none") /\ rx = Each("none")
    /\ helpers = Each(0) /\ told = FALSE

-----------------------------------------------------------------------------
\* What the peer may say: a role in its answer, "actpass" in its offer, and the same again in
\* later ones; with "swap" a re-INVITE may say "actpass" while the connection is made.
Setups ==
    IF setup = "none" THEN IF offerer THEN {"active", "passive"} ELSE {"actpass"}
    ELSE {setup} \cup (IF "swap" \in Faults THEN {"actpass"} ELSE {})

\* media_alloc, when the peer's SDP has come, for the first time or again: the timer is
\* started (anew). With "zero" the stream may be held with the address 0.0.0.0.
MediaAlloc(s, has, set) ==
    /\ ~told /\ s \in Setups /\ (set \/ "zero" \in Faults)
    /\ setup' = s /\ hasMedia' = has /\ raddr' = set
    /\ active' = (s # "active") /\ timer' = TRUE
    /\ UNCHANGED <<offerer, comps, started, sock, conn, keys, told>>

\* The components that component_start does something for.
ToStart == {c \in comps : ~negotiated[c] /\ ~sock[c]}

\* timeout and media_start: each component listens, and connects if we are active and the
\* address is known; one that fails does not keep the other from starting, but the stream
\* counts as not started. "connect": that of a component may fail.
Timeout(deaf, mute) ==
    LET calls == active /\ raddr
        listens == ToStart \ deaf
        connects == {c \in listens : calls /\ conn[c] = "none"}
        begin == ~started /\ hasMedia
    IN  /\ ~told /\ timer /\ timer' = FALSE
        /\ deaf \subseteq ToStart /\ mute \subseteq connects /\ (mute # {} => "connect" \in Faults)
        /\ (~begin => deaf = {} /\ mute = {})
        /\ sock' = [c \in Component |-> sock[c] \/ (begin /\ c \in listens)]
        /\ conn' = [c \in Component |-> IF begin /\ c \in connects \ mute THEN "client" ELSE conn[c]]
        /\ started' = (started \/ (begin /\ deaf = {} /\ mute = {}))
        /\ UNCHANGED <<sdp, keys, told>>

\* dtls_conn_handler: the peer, when it is active, connects. With "again" it does so also
\* when there is a connection or was one.
Connected(c) ==
    /\ ~told /\ c \in comps /\ sock[c] /\ setup = "active"
    /\ (conn[c] = "none" /\ ~negotiated[c]) \/ "again" \in Faults
    /\ conn' = [conn EXCEPT ![c] = "server"]
    /\ UNCHANGED <<sdp, timer, started, sock, keys, told>>

\* srtp_stream_add and srtp_install.
Install(c, isClient) ==
    /\ tx' = [tx EXCEPT ![c] = IF isClient THEN "client" ELSE "server"]
    /\ rx' = [rx EXCEPT ![c] = IF isClient THEN "server" ELSE "client"]
    /\ helpers[c] < 2 /\ helpers' = [helpers EXCEPT ![c] = @ + 1]

\* Mutant: the keys are chosen by who made the offer.
EstabHandlerByOffer(c) ==
    /\ ~told /\ conn[c] \in {"client", "server"}
    /\ conn' = [conn EXCEPT ![c] = "up"] /\ role' = [role EXCEPT ![c] = conn[c]]
    /\ negotiated' = [negotiated EXCEPT ![c] = TRUE] /\ Install(c, ~offerer)
    /\ UNCHANGED <<sdp, timer, started, sock, told>>

\* dtls_estab_handler, the certificate verified.
EstabHandler(c) ==
    /\ ~told /\ conn[c] \in {"client", "server"}
    /\ conn' = [conn EXCEPT ![c] = "up"] /\ role' = [role EXCEPT ![c] = conn[c]]
    /\ negotiated' = [negotiated EXCEPT ![c] = TRUE] /\ Install(c, active)
    /\ UNCHANGED <<sdp, timer, started, sock, told>>

\* The same with another certificate than the SDP names: the call ends. With "keyinfo" the
\* connection may yield no keys, and that is all.
EstabFails(c) ==
    /\ ~told /\ conn[c] \in {"client", "server"}
    /\ conn' = [conn EXCEPT ![c] = "up"]
    /\ told' = TRUE \/ ("keyinfo" \in Faults /\ UNCHANGED told)
    /\ UNCHANGED <<sdp, timer, started, sock, keys>>

\* dtls_close_handler: a handshake that fails or times out ends the call; a connection that
\* has given its keys may go.
CloseHandler(c) ==
    /\ ~told /\ conn[c] # "none"
    /\ conn' = [conn EXCEPT ![c] = "none"]
    /\ told' = ~negotiated[c]
    /\ UNCHANGED <<sdp, timer, started, sock, keys>>

Next ==
    \/ \E s \in {"active", "passive", "actpass"}, has \in BOOLEAN, set \in BOOLEAN : MediaAlloc(s, has, set)
    \/ \E deaf \in SUBSET Component, mute \in SUBSET Component : Timeout(deaf, mute)
    \/ \E c \in Component : Connected(c) \/ EstabHandler(c) \/ EstabFails(c) \/ CloseHandler(c)

\* A handshake ends, one way or the other, and an active peer connects.
Handshake(c) == conn[c] # "up" /\ (EstabHandler(c) \/ EstabFails(c) \/ CloseHandler(c))
Fairness == \A c \in Component : WF_vars(Handshake(c)) /\ WF_vars(Connected(c))

Spec == Init /\ [][Next]_vars /\ Fairness

-----------------------------------------------------------------------------
\* A component with keys sends with those of its own DTLS role and receives with the
\* peer's, and each packet is protected once (dtls_estab_handler).
KeysAgree ==
    \A c \in Component : negotiated[c] =>
        tx[c] = role[c] /\ rx[c] = Other(role[c]) /\ helpers[c] = 1

\* A stream that has started gets its keys, or the call is told of an error and ends.
KeysCome == started ~> (told \/ \A c \in comps : negotiated[c])
===============================================================================
