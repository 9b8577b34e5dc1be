------------------------------ MODULE SdesCrypto ------------------------------
(***************************************************************************)
(* SRTP with keys in the SDP: modules srtp and libsrtp.  Each stream has a *)
(* key of its own to send with; the key and the suite to receive with come *)
(* with the peer's offer or answer.  Packets cross the SDP on their way,   *)
(* and re-INVITEs (a hold, say) bring the attributes again.  The peer and  *)
(* the network are external; a packet is what it is protected with.        *)
(***************************************************************************)
EXTENDS Integers, Sequences

CONSTANTS
    Kinds,      \* modules in use, of "srtp" and "libsrtp"
    Early,      \* modules whose peer may send before its answer has come
    Wraps,      \* modules whose sequence numbers may wrap
    Changes,    \* what a peer may change in a call: "key" and "suite", "drop" or "add" both
    MaxPackets  \* packets on their way

\* What is assumed of the constants; the module that gives them values asserts it.
SdesCryptoAssumption ==
    /\ Kinds \subseteq {"srtp", "libsrtp"} /\ Early \subseteq Kinds /\ Wraps \subseteq Kinds
    /\ Changes \in [Kinds -> SUBSET {"key", "suite", "drop", "add"}] /\ MaxPackets \in Nat

VARIABLES
    kind,
    phase,    \* the SDP: "idle", "offered", "answered" (on its way), "answering", "agreed"
    gotSdp,   \* st->got_sdp
    useSrtp,  \* st->use_srtp
    suite,    \* st->crypto_suite, the one in our SDP
    tx, rx,   \* what the contexts st->srtp_tx and st->srtp_rx protect with
    roc,      \* wraps counted by srtp_tx
    taken,    \* of the offer that is being answered: the attribute we took
    peer,     \* what the peer sends with
    reads,    \* what the peer receives with, and the wraps it has counted
    peerRoc,
    net,      \* packets of the peer on their way
    heard     \* the last one that the RTP receiver got: "none", "clear" or "cipher"

vars == <<kind, phase, gotSdp, useSrtp, suite, tx, rx, roc, taken, peer, reads, peerRoc, net, heard>>

Clear == <<"clear", 0>>
Suites == {"80", "32"}
Protection == Suites \X {1, 2}      \* with a suite and a key of the peer
Ours(s) == <<s, 0>>                 \* with the key that we send with

TypeOK ==
    /\ kind \in Kinds /\ phase \in {"idle", "offered", "answered", "answering", "agreed"}
    /\ gotSdp \in BOOLEAN /\ useSrtp \in BOOLEAN /\ suite \in Suites
    /\ tx \in {Ours(s) : s \in Suites} \cup {Clear} /\ rx \in Protection \cup {Clear}
    /\ roc \in 0 .. 1 /\ peerRoc \in 0 .. 1
    /\ taken \in Protection \cup {Clear} /\ peer \in Protection \cup {Clear}
    /\ reads \in {Ours(s) : s \in Suites} \cup {Clear}
    /\ net \in Seq(Protection \cup {Clear}) /\ Len(net) <= MaxPackets
    /\ heard \in {"none", "clear", "cipher"}

Init ==
    /\ kind \in Kinds /\ phase = "idle"
    /\ gotSdp = FALSE /\ useSrtp = FALSE /\ suite = "80"
    /\ tx = Clear /\ rx = Clear /\ roc = 0 /\ taken = Clear
    /\ peer = Clear /\ reads = Clear /\ peerRoc = 0 /\ net = <<>> /\ heard = "none"

-----------------------------------------------------------------------------
\* Mutant: contexts are made anew each time.
SrtpAllocAnew(p) == tx' = Ours(p[1]) /\ rx' = p /\ roc' = 0

\* start_srtp of module srtp: contexts that are there stay, whatever their key and suite.
SrtpAlloc(p) ==
    /\ tx' = IF tx = Clear THEN Ours(p[1]) ELSE tx
    /\ rx' = IF rx = Clear THEN p ELSE rx
    /\ UNCHANGED roc

\* start_srtp of module libsrtp: srtp_create makes new ones each time.
LibsrtpCreate(p) == tx' = Ours(p[1]) /\ rx' = p /\ roc' = 0

\* start_crypto of either module.
StartCrypto(p) ==
    /\ useSrtp' = TRUE
    /\ IF kind = "srtp" THEN SrtpAlloc(p) ELSE LibsrtpCreate(p)

\* cryptosuite_issupported: other suites are passed over.
Supported(attrs) == {i \in DOMAIN attrs : attrs[i][1] \in Suites}

\* alloc, when the peer's SDP has come: the first attribute with a suite that is supported
\* is taken, and ours then names this suite (sdp_attr_handler). With none, ours stays.
Alloc(attrs) ==
    LET good == Supported(attrs)
        first == attrs[CHOOSE i \in good : \A j \in good : i <= j]
    IN  /\ gotSdp' = TRUE
        /\ taken' = IF good = {} THEN Clear ELSE first
        /\ IF good = {} THEN UNCHANGED <<useSrtp, suite, tx, rx, roc>>
           ELSE suite' = first[1] /\ StartCrypto(first)

\* What the peer may put in: nothing, or one attribute, perhaps after one with a suite that we
\* do not have. A re-INVITE brings the same key and suite, or changes what it may.
Attrs(p) == IF p = Clear THEN {<<>>} ELSE {<<p>>, <<<<"256", 1>>, p>>}
NewFrom(p) ==
    {q \in Protection \cup {Clear} :
        /\ (q = Clear /\ p # Clear) => "drop" \in Changes[kind]
        /\ (q # Clear /\ p = Clear /\ gotSdp) => "add" \in Changes[kind]
        /\ (q # Clear /\ p # Clear /\ q[1] # p[1]) => "suite" \in Changes[kind]
        /\ (q # Clear /\ p # Clear /\ q[2] # p[2]) => "key" \in Changes[kind]}

\* We offer, for the first time or again: alloc has put in our key with the suite.
Offer ==
    /\ phase \in {"idle", "agreed"} /\ phase' = "offered"
    /\ UNCHANGED <<kind, gotSdp, useSrtp, suite, tx, rx, roc, taken, peer, reads, peerRoc, net, heard>>

\* The peer answers with the suite of the offer, and can send and receive.
PeerAnswers(p) ==
    /\ phase = "offered" /\ p \in NewFrom(peer) /\ (p # Clear => p[1] = suite)
    /\ phase' = "answered"
    /\ peer' = p /\ reads' = IF p = Clear THEN Clear ELSE Ours(suite)
    /\ UNCHANGED <<kind, gotSdp, useSrtp, suite, tx, rx, roc, taken, peerRoc, net, heard>>

\* Its answer comes.
Answered ==
    /\ phase = "answered" /\ phase' = "agreed"
    /\ \E a \in Attrs(peer) : Alloc(a)
    /\ UNCHANGED <<kind, peer, reads, peerRoc, net, heard>>

\* The peer's offer comes, and is answered.
PeerOffers(p) ==
    /\ phase \in {"idle", "agreed"} /\ p \in NewFrom(peer)
    /\ phase' = "answering"
    /\ \E a \in Attrs(p) : Alloc(a)
    /\ UNCHANGED <<kind, peer, reads, peerRoc, net, heard>>

\* The peer gets the answer.
PeerAnswered ==
    /\ phase = "answering" /\ phase' = "agreed"
    /\ peer' = taken /\ reads' = IF taken = Clear THEN Clear ELSE Ours(suite)
    /\ UNCHANGED <<kind, gotSdp, useSrtp, suite, tx, rx, roc, taken, peerRoc, net, heard>>

-----------------------------------------------------------------------------
\* The peer sends.
PeerSends ==
    /\ Len(net) < MaxPackets
    /\ phase = "agreed" \/ (phase = "answered" /\ kind \in Early)
    /\ net' = Append(net, peer)
    /\ UNCHANGED <<kind, phase, gotSdp, useSrtp, suite, tx, rx, roc, taken, peer, reads, peerRoc, heard>>

\* What the receiver gets without more ado.
AsItIs(p) == IF p = Clear THEN "clear" ELSE "cipher"

\* Mutant: packets are not dropped before the SDP has come.
SrtpRecvEarly(p) ==
    IF ~useSrtp THEN heard' = AsItIs(p)
    ELSE IF p = rx THEN heard' = "clear" ELSE UNCHANGED heard

\* recv_handler of srtp: nothing passes until there was an SDP.
SrtpRecv(p) ==
    IF ~gotSdp THEN UNCHANGED heard
    ELSE IF ~useSrtp THEN heard' = AsItIs(p)
    ELSE IF p = rx THEN heard' = "clear" ELSE UNCHANGED heard

\* recv_handler of libsrtp.
LibsrtpRecv(p) ==
    IF ~useSrtp THEN heard' = AsItIs(p)
    ELSE IF p = rx THEN heard' = "clear" ELSE UNCHANGED heard

\* A packet comes, or is lost.
Receive ==
    /\ net # <<>> /\ net' = Tail(net)
    /\ (IF kind = "srtp" THEN SrtpRecv(Head(net)) ELSE LibsrtpRecv(Head(net))) \/ UNCHANGED heard
    /\ UNCHANGED <<kind, phase, gotSdp, useSrtp, suite, tx, rx, roc, taken, peer, reads, peerRoc>>

\* send_handler: what a packet of ours is protected with.
Sent == IF useSrtp THEN tx ELSE Clear

\* Our sequence numbers wrap, and both sides count it.
Wrap ==
    /\ kind \in Wraps /\ phase = "agreed" /\ useSrtp /\ Sent = reads /\ roc = peerRoc /\ roc = 0
    /\ roc' = 1 /\ peerRoc' = 1
    /\ UNCHANGED <<kind, phase, gotSdp, useSrtp, suite, tx, rx, taken, peer, reads, net, heard>>

Next ==
    \/ Offer \/ Answered \/ PeerAnswered \/ PeerSends \/ Receive \/ Wrap
    \/ \E p \in Protection \cup {Clear} : PeerAnswers(p) \/ PeerOffers(p)

Spec == Init /\ [][Next]_vars

-----------------------------------------------------------------------------
\* Once offer and answer are there, each side can read what the other sends, also after
\* further re-INVITEs and after the sequence numbers have wrapped (start_srtp).
KeysAgree ==
    phase = "agreed" =>
        /\ Sent = reads /\ (useSrtp => roc = peerRoc)
        /\ peer = IF useSrtp THEN rx ELSE Clear

\* No protected packet is taken for a clear one, however it races the answer
\* (docs/ChangeLog:289, "fix SRTP for early-media").
HeardIsClear == heard # "cipher"
===============================================================================
