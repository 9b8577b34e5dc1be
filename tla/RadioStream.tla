---------------------------- MODULE RadioStream ----------------------------
(***************************************************************************)
(* The radio stream source: an HTTP connection whose body is blocks of     *)
(* MP3 data of a fixed length, each followed by a length byte and metadata *)
(* of that length. TCP may cut the body anywhere; the connection may fail  *)
(* anywhere and is made again by a timer. A byte is what the server meant   *)
(* it to be: "head" (the last of them "eoh"), "mp3", a length, "meta".      *)
(***************************************************************************)
EXTENDS Integers, Sequences, SequencesExt

CONSTANTS
    HeadLen,     \* bytes of the response header
    MetaInt,     \* icy-metaint; 0: the header has none
    MetaSizes,   \* lengths of metadata
    Named,       \* BOOLEAN: the server has a host name, to be resolved
    MaxSent,     \* bound: bytes a server sends on a connection
    MaxConn      \* bound: connections

\* What is assumed of the constants; the module that gives them values asserts it.
RadioStreamAssumption ==
    /\ {HeadLen, MaxSent, MaxConn} \subseteq Nat \ {0} /\ MetaInt \in Nat
    /\ MetaSizes \subseteq Nat /\ Named \in BOOLEAN

VARIABLES
    conn,      \* resolve, connect, up (tc set), wait (the timer runs)
    conns,     \* connections made so far
    net,       \* bytes on their way
    sent,      \* bytes sent on this connection
    server,    \* what the server sends next: <<kind, bytes left>>
    headRecv, metasz, bytec, buffered,  \* of the source; buffered: header bytes kept
    out        \* what was done with the bytes of a segment: pairs <<used as, was>>

vars == <<conn, conns, net, sent, server, headRecv, metasz, bytec, buffered, out>>
peer == <<sent, server>>
parser == <<headRecv, metasz, bytec, buffered>>

Start == conn' = IF Named THEN "resolve" ELSE "connect"
Init ==
    /\ conn = (IF Named THEN "resolve" ELSE "connect") /\ conns = 1 /\ net = <<>> /\ sent = 0
    /\ server = <<"head", HeadLen>> /\ out = {}
    /\ headRecv = FALSE /\ metasz = 0 /\ bytec = 0 /\ buffered = 0

Fail == conn' = "wait" /\ net' = <<>> /\ UNCHANGED <<conns, peer, parser>> /\ out' = {}

\* dns_handler: no address, or the connection cannot be made.
Resolved ==
    /\ conn = "resolve"
    /\ \/ conn' = "connect" /\ UNCHANGED <<conns, net, peer, parser, out>>
       \/ Fail
\* estab_handler: the request is sent.
Established == conn = "connect" /\ conn' = "up" /\ UNCHANGED <<conns, net, peer, parser, out>>
\* close_handler: the connection ends, or was never made.
Closed == conn \in {"connect", "up"} /\ Fail

\* Mutant: a new connection goes on in the middle of the block before.
ReconnectKeepsCount ==
    /\ conn = "wait" /\ conns < MaxConn
    /\ Start /\ conns' = conns + 1
    /\ sent' = 0 /\ server' = <<"head", HeadLen>> /\ net' = <<>> /\ out' = {}
    /\ headRecv' = FALSE /\ buffered' = 0 /\ UNCHANGED <<metasz, bytec>>

\* Mutant: the timer is not started again unless a header was received.
ReconnectAfterHeader ==
    /\ conn = "wait" /\ conns < MaxConn /\ headRecv
    /\ Start \/ conn' = "wait"
    /\ conns' = conns + 1
    /\ sent' = 0 /\ server' = <<"head", HeadLen>> /\ net' = <<>> /\ out' = {}
    /\ headRecv' = FALSE /\ metasz' = 0 /\ bytec' = 0 /\ buffered' = 0

\* The timer expires; when the attempt fails at once the timer is started again.
Reconnect ==
    /\ conn = "wait" /\ conns < MaxConn
    /\ Start \/ conn' = "wait"
    /\ conns' = conns + 1
    /\ sent' = 0 /\ server' = <<"head", HeadLen>> /\ net' = <<>> /\ out' = {}
    /\ headRecv' = FALSE /\ metasz' = 0 /\ bytec' = 0 /\ buffered' = 0

-----------------------------------------------------------------------------
(* The server. *)

Send(byte, next) == net' = Append(net, byte) /\ server' = next /\ sent' = sent + 1
Server ==
    /\ conn = "up" /\ sent < MaxSent
    /\ \/ server[1] = "head" /\ server[2] > 1 /\ Send(<<"head", 0>>, <<"head", server[2] - 1>>)
       \/ server = <<"head", 1>> /\ Send(<<"eoh", 0>>, <<"mp3", MetaInt>>)
       \/ server[1] = "mp3" /\ server[2] > 0 /\ Send(<<"mp3", 0>>, <<"mp3", server[2] - 1>>)
       \/ server = <<"mp3", 0>> /\ \E n \in MetaSizes : Send(<<"len", n>>, <<"meta", n>>)
       \/ server[1] = "meta" /\ server[2] > 0 /\ Send(<<"meta", 0>>, <<"meta", server[2] - 1>>)
       \/ server = <<"meta", 0>> /\ Send(<<"mp3", 0>>, <<"mp3", MetaInt - 1>>)
    /\ UNCHANGED <<conn, conns, parser, out>>

-----------------------------------------------------------------------------
(* recv_handler: one byte of the body after the other. *)

Body == [sz |-> metasz, n |-> bytec, out |-> {}]

Parse(p, b) ==
    IF p.sz > 0
    THEN LET last == p.n + 1 >= p.sz
         IN  [sz |-> IF last THEN 0 ELSE p.sz, n |-> IF last THEN 0 ELSE p.n + 1,
              out |-> p.out \cup {<<"meta", b[1]>>}]
    ELSE IF p.n < MetaInt
    THEN [p EXCEPT !.n = p.n + 1, !.out = @ \cup {<<"mp3", b[1]>>}]
    ELSE [sz |-> b[2], n |-> 0, out |-> p.out \cup {<<"len", b[1]>>}]

ParseAll(bytes) ==
    LET p == FoldLeft(LAMBDA q, b : Parse(q, b), Body, bytes)
    IN  metasz' = p.sz /\ bytec' = p.n /\ out' = p.out

\* The number of header bytes in a segment, the whole segment when the header goes on.
HeadIn(seg) == IF \E i \in DOMAIN seg : seg[i][1] = "eoh"
               THEN CHOOSE i \in DOMAIN seg : seg[i][1] = "eoh" ELSE Len(seg)
Complete(seg) == seg # <<>> /\ seg[HeadIn(seg)][1] = "eoh"

\* A segment of n bytes arrives.
Segment(n) == conn = "up" /\ n <= Len(net) /\ UNCHANGED <<conns, peer>>
Keep(n) == net' = SubSeq(net, n + 1, Len(net)) /\ UNCHANGED conn
Header(n) ==
    /\ Segment(n) /\ ~headRecv /\ ~Complete(SubSeq(net, 1, n))
    /\ Keep(n) /\ buffered' = buffered + n /\ out' = {} /\ UNCHANGED <<headRecv, metasz, bytec>>
\* The header is complete but has no interval: the connection is given up.
NoInterval(n) ==
    /\ Segment(n) /\ ~headRecv /\ Complete(SubSeq(net, 1, n)) /\ MetaInt = 0
    /\ conn' = "wait" /\ net' = <<>> /\ headRecv' = TRUE /\ UNCHANGED <<metasz, bytec, buffered>> /\ out' = {}
\* Mutant: what follows the header in its segment is taken for a part of it.
EndOfHeaderAll(n) ==
    /\ Segment(n) /\ ~headRecv /\ Complete(SubSeq(net, 1, n)) /\ MetaInt # 0
    /\ Keep(n) /\ headRecv' = TRUE /\ buffered' = buffered + n /\ ParseAll(<<>>)

EndOfHeader(n) ==
    LET seg == SubSeq(net, 1, n)
    IN  /\ Segment(n) /\ ~headRecv /\ Complete(seg) /\ MetaInt # 0
        /\ Keep(n) /\ headRecv' = TRUE /\ buffered' = buffered + HeadIn(seg)
        /\ ParseAll(SubSeq(seg, HeadIn(seg) + 1, n))
Data(n) ==
    /\ Segment(n) /\ headRecv
    /\ Keep(n) /\ ParseAll(SubSeq(net, 1, n)) /\ UNCHANGED <<headRecv, buffered>>

Recv == \E n \in 1 .. MaxSent : Header(n) \/ NoInterval(n) \/ EndOfHeader(n) \/ Data(n)
Next == Resolved \/ Established \/ Closed \/ Reconnect \/ Server \/ Recv
Spec == Init /\ [][Next]_vars /\ WF_vars(Reconnect) /\ WF_vars(Resolved \/ Established)

-----------------------------------------------------------------------------
TypeOK ==
    /\ conn \in {"resolve", "connect", "up", "wait"} /\ conns \in 1 .. MaxConn
    /\ headRecv \in BOOLEAN /\ metasz \in {0} \cup MetaSizes /\ bytec \in 0 .. MaxSent
    /\ sent \in 0 .. MaxSent /\ buffered \in 0 .. HeadLen
    /\ metasz > 0 => bytec < metasz

\* However TCP cuts the stream, and after any reconnection: the player is fed the MP3 bytes,
\* the metadata shown is metadata, and the length is taken from the length byte.
UsedAsSent == \A pair \in out : pair[1] = pair[2]

\* The source comes back: after each failure it connects again, until MaxConn.
Returns == conn = "wait" ~> conn \in {"resolve", "connect", "up"} \/ conns = MaxConn
=============================================================================
