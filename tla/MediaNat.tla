------------------------------- MODULE MediaNat -------------------------------
(***************************************************************************)
(* The media-NAT sessions of modules stun, turn and ice (full and lite):   *)
(* the server is looked up, each component (RTP, RTCP) of each media       *)
(* stream asks for its public address, and the call waits to be told that  *)
(* all have theirs before it offers them.  With ICE the peers then check   *)
(* the pairs of addresses, and a re-INVITE says which ones were selected.  *)
(* DNS, the STUN and TURN transactions, the agent that checks the pairs    *)
(* and the network are external.                                           *)
(***************************************************************************)
EXTENDS Integers, FiniteSets

CONSTANTS
    Media,     \* the media streams of the call
    Method,    \* methods in use, of "stun", "turn", "ice" and "lite"
    AtOnce,    \* methods whose server may be known at once (no look-up)
    Remaps     \* TRUE: the NAT may change the address of a STUN mapping while the call waits

\* What is assumed of the constants; the module that gives them values asserts it.
ASSUME MediaNatAssumption ==
    /\ Method \subseteq {"stun", "turn", "ice", "lite"} /\ AtOnce \subseteq Method
    /\ IsFiniteSet(Media) /\ Media # {} /\ Remaps \in BOOLEAN

VARIABLES
    method, relays,  \* the module; for ice: ice_turn
    comps,           \* the components: 1, and 2 unless RTCP is multiplexed
    role,            \* for ice: TRUE if we control, and so announce what was selected
    call,            \* "new", "waiting" (mnat_wait), "up" or "closed"
    srv,             \* sess->srv is set
    mediac,          \* sess->mediac
    req,             \* the request of a component: "none", "binding", "relay" or "over"
    nstun,           \* for ice: pending requests of a stream
    cand,            \* for ice: the kinds of local candidates
    addr,            \* the address of a component in the SDP
    check,           \* for ice: "none", "running", "done" or "failed"
    started, again,  \* sess->started, sess->send_reinvite
    offered          \* the addresses in the last offer or answer

vars == <<method, relays, comps, role, call, srv, mediac, req, nstun, cand, addr, check, started, again, offered>>
fixed == <<method, relays, comps, role>>

Kinds == {"host", "srflx", "relay"}
Address == Kinds \cup {"none", "other"}
Each(x) == [m \in Media |-> [c \in {1, 2} |-> x]]

TypeOK ==
    /\ method \in Method /\ relays \in BOOLEAN /\ comps \in {{1}, {1, 2}} /\ role \in BOOLEAN
    /\ call \in {"new", "waiting", "up", "closed"} /\ srv \in BOOLEAN /\ mediac \in Int
    /\ req \in [Media -> [{1, 2} -> {"none", "binding", "relay", "over"}]]
    /\ nstun \in [Media -> 0 .. 2]
    /\ cand \in [Media -> [{1, 2} -> SUBSET Kinds]]
    /\ addr \in [Media -> [{1, 2} -> Address]] /\ offered \in [Media -> [{1, 2} -> Address]]
    /\ check \in [Media -> {"none", "running", "done", "failed"}]
    /\ started \in BOOLEAN /\ again \in BOOLEAN

Init ==
    /\ method \in Method /\ relays \in BOOLEAN /\ comps \in {{1}, {1, 2}} /\ role \in BOOLEAN
    /\ call = "new" /\ srv = FALSE /\ mediac = 0
    /\ req = Each("none") /\ nstun = [m \in Media |-> 0]
    /\ cand = Each({}) /\ addr = Each("none") /\ offered = Each("none")
    /\ check = [m \in Media |-> "none"] /\ started = FALSE /\ again = FALSE

-----------------------------------------------------------------------------
(* mnat_handler of call.c: an error closes the call, which releases all of  *)
(* the session; success sends the offer (or announces the call, to be       *)
(* answered with these addresses), and later ones a re-INVITE.              *)

Close == call' = "closed" /\ UNCHANGED offered
Estab(a) == call' = "up" /\ offered' = a
Quiet == UNCHANGED <<call, offered>>

\* One stream less to wait for (--sess->mediac); the call is told when none is left.
Count(a) ==
    /\ mediac' = mediac - 1
    /\ IF mediac = 1 THEN Estab(a) ELSE Quiet

\* The requests that media_start sends.
Started(m, c) ==
    IF c \notin comps \/ method = "lite" THEN "none"
    ELSE IF method = "turn" \/ (method = "ice" /\ relays) THEN "relay"
    ELSE "binding"
Requests == [m \in Media |-> [c \in {1, 2} |-> Started(m, c)]]
\* Mutant: only the request of the first component is counted.
PendingFirst == [m \in Media |-> IF method = "ice" THEN 1 ELSE 0]
\* For ice: a request of each component is pending.
Pending == [m \in Media |-> IF method = "ice" THEN Cardinality(comps) ELSE 0]
Hosts == [m \in Media |-> [c \in {1, 2} |-> IF c \in comps /\ method \in {"ice", "lite"} THEN {"host"} ELSE {}]]
HostAddr == [m \in Media |-> [c \in {1, 2} |-> IF c \in comps THEN "host" ELSE "none"]]

\* The streams to wait for when all are allocated: with ICE lite and a known server each is
\* told gathered before it is counted.
Counted(atOnce) == IF atOnce /\ method = "lite" THEN 0 ELSE Cardinality(Media)

StartAll == srv' = TRUE /\ req' = Requests /\ nstun' = Pending /\ cand' = Hosts

\* session_alloc, and media_alloc for each stream, while the call is made. If the server
\* is known already, each stream starts before it is counted.
Setup(atOnce) ==
    /\ call = "new" /\ (atOnce => method \in AtOnce)
    /\ call' = "waiting"
    /\ IF atOnce THEN StartAll ELSE UNCHANGED <<srv, req, nstun, cand>>
    /\ mediac' = Counted(atOnce)
    /\ addr' = IF atOnce /\ method = "lite" THEN HostAddr ELSE addr
    /\ UNCHANGED <<fixed, check, started, again, offered>>

\* dns_handler: all streams start; with ICE lite they are gathered then and there.
Resolved(ok) ==
    /\ call = "waiting" /\ ~srv
    /\ IF ~ok THEN Close /\ UNCHANGED <<srv, mediac, req, nstun, cand, addr>>
       ELSE /\ StartAll
            /\ IF method = "lite" THEN mediac' = 0 /\ addr' = HostAddr /\ Estab(HostAddr)
               ELSE UNCHANGED <<mediac, addr>> /\ Quiet
    /\ UNCHANGED <<fixed, check, started, again>>

-----------------------------------------------------------------------------
(* Modules stun and turn. *)

\* Mutant: a stream counts as soon as its first component has an address.
MappedHasty(m, c, a) ==
    LET now == [addr EXCEPT ![m][c] = a]
    IN  /\ addr' = now /\ req' = [req EXCEPT ![m][c] = "over"]
        /\ IF \E d \in comps \ {c} : addr[m][d] # "none" THEN UNCHANGED mediac /\ Quiet
           ELSE Count(now)

\* mapped_handler1 and 2, turn_handler1 and 2: the stream counts when both components
\* have an address.
Mapped(m, c, a) ==
    LET now == [addr EXCEPT ![m][c] = a]
    IN  /\ addr' = now /\ req' = [req EXCEPT ![m][c] = "over"]
        /\ IF \E d \in comps \ {c} : addr[m][d] = "none" THEN UNCHANGED mediac /\ Quiet
           ELSE Count(now)

\* The answer to a binding request, and to a later keepalive that shows another address.
StunMapped(m, c) ==
    /\ call # "closed" /\ method = "stun"
    /\ \/ req[m][c] = "binding" /\ Mapped(m, c, "srflx")
       \/ (Remaps \/ call = "up") /\ req[m][c] = "over" /\ addr[m][c] = "srflx" /\ Mapped(m, c, "other")
    /\ UNCHANGED <<fixed, srv, nstun, cand, check, started, again>>

\* The TURN server has allocated an address.
TurnAllocated(m, c) ==
    /\ call # "closed" /\ method = "turn" /\ req[m][c] = "relay"
    /\ Mapped(m, c, "relay")
    /\ UNCHANGED <<fixed, srv, nstun, cand, check, started, again>>

\* A request, a keepalive or a refresh fails: the call is closed, also a running one.
RequestFails(m, c) ==
    /\ call # "closed" /\ method \in {"stun", "turn"} /\ req[m][c] # "none"
    /\ Close
    /\ UNCHANGED <<fixed, srv, mediac, req, nstun, cand, addr, check, started, again>>

-----------------------------------------------------------------------------
(* Module ice. *)

\* icem_comps_set_default_cand: relayed, then server reflexive, then host.
Default(kinds) ==
    IF "relay" \in kinds THEN "relay" ELSE IF "srflx" \in kinds THEN "srflx" ELSE "host"

\* call_gather_handler and gather_handler: nothing while requests are pending; an error of
\* the last one is that of the call.
Gathered(m, n, now, err) ==
    LET a == [addr EXCEPT ![m] = [c \in {1, 2} |-> IF c \in comps THEN Default(now[m][c]) ELSE "none"]]
    IN  IF n # 0 THEN UNCHANGED <<mediac, addr>> /\ Quiet
        ELSE IF err THEN UNCHANGED <<mediac, addr>> /\ Close
        ELSE addr' = a /\ Count(a)

\* stun_resp_handler.
StunResponse(m, c, ok) ==
    LET now == IF ok THEN [cand EXCEPT ![m][c] = @ \cup {"srflx"}] ELSE cand
    IN  /\ call # "closed" /\ method = "ice" /\ req[m][c] = "binding"
        /\ req' = [req EXCEPT ![m][c] = "over"]
        /\ nstun' = [nstun EXCEPT ![m] = @ - 1] /\ cand' = now
        /\ Gathered(m, nstun[m] - 1, now, ~ok)
        /\ UNCHANGED <<fixed, srv, check, started, again>>

\* turnc_handler: an error; a refusal, after which STUN is tried; an address, with or
\* without the mapped one, for which STUN is asked then.
TurnResponse(m, c, r) ==
    LET now == [cand EXCEPT ![m][c] = @ \cup (IF r = "both" THEN {"relay", "srflx"}
                                                ELSE IF r = "relay" THEN {"relay"} ELSE {})]
        binds == r \in {"refused", "relay"}
        n == IF binds THEN nstun[m] ELSE nstun[m] - 1
    IN  /\ call # "closed" /\ method = "ice" /\ req[m][c] = "relay"
        /\ req' = [req EXCEPT ![m][c] = IF binds THEN "binding" ELSE "over"]
        /\ nstun' = [nstun EXCEPT ![m] = n] /\ cand' = now
        /\ Gathered(m, n, now, r = "error")
        /\ UNCHANGED <<fixed, srv, check, started, again>>

\* ice_start: the checks of the streams of S, those that the peer takes, begin; the others
\* are done.
IceStart(S) ==
    /\ started' = TRUE
    /\ check' = [m \in Media |-> IF m \in S THEN "running" ELSE "done"]

\* update, of the answer or an offer of the peer: the checks begin once, if the peer
\* supports ICE (verify_peer_ice); later ones only encode the addresses again.
Update(S, peerIce) ==
    /\ call = "up" /\ method \in {"ice", "lite"}
    /\ IF started THEN offered' = addr /\ UNCHANGED <<check, started>>
       ELSE /\ IF peerIce THEN IceStart(S) ELSE UNCHANGED <<check, started>>
            /\ UNCHANGED offered
    /\ UNCHANGED <<fixed, call, srv, mediac, req, nstun, cand, addr, again>>

\* Mutant: only a change of the stream that is the last one is announced.
ConnCheckForgets(m, sel, ok) ==
    LET changed == ok /\ sel # addr[m]
        done == [check EXCEPT ![m] = IF ok THEN "done" ELSE "failed"]
        now == IF ok THEN [addr EXCEPT ![m] = sel] ELSE addr
        rest == ok /\ \E x \in Media : done[x] # "done"
    IN  /\ call = "up" /\ check[m] = "running"
        /\ check' = done /\ addr' = now
        /\ IF ~rest /\ changed /\ role
           THEN again' = FALSE /\ Estab(now)
           ELSE again' = changed /\ Quiet
        /\ UNCHANGED <<fixed, srv, mediac, req, nstun, cand, started>>

\* conncheck_handler: the selected addresses are taken; when all streams are done, or one
\* has failed, a re-INVITE announces what has changed.
ConnCheck(m, sel, ok) ==
    LET changed == ok /\ sel # addr[m]
        done == [check EXCEPT ![m] = IF ok THEN "done" ELSE "failed"]
        now == IF ok THEN [addr EXCEPT ![m] = sel] ELSE addr
        rest == ok /\ \E x \in Media : done[x] # "done"
    IN  /\ call = "up" /\ check[m] = "running"
        /\ check' = done /\ addr' = now
        /\ IF ~rest /\ (again \/ changed) /\ role
           THEN again' = FALSE /\ Estab(now)
           ELSE again' = (again \/ changed) /\ Quiet
        /\ UNCHANGED <<fixed, srv, mediac, req, nstun, cand, started>>

\* What may be selected: for each component one of its candidates.
Selected(m) ==
    {s \in [{1, 2} -> Address] :
        \A c \in {1, 2} : IF c \in comps THEN s[c] \in cand[m][c] ELSE s[c] = "none"}

Lookup == \E ok \in BOOLEAN : Resolved(ok)
Response(m, c) ==
    \/ StunMapped(m, c) \/ TurnAllocated(m, c)
    \/ \E ok \in BOOLEAN : StunResponse(m, c, ok)
    \/ \E r \in {"error", "refused", "relay", "both"} : TurnResponse(m, c, r)

Next ==
    \/ \E atOnce \in BOOLEAN : Setup(atOnce)
    \/ Lookup
    \/ \E m \in Media, c \in {1, 2} : Response(m, c) \/ RequestFails(m, c)
    \/ \E S \in SUBSET Media, peerIce \in BOOLEAN : Update(S, peerIce)
    \/ \E m \in Media, ok \in BOOLEAN : \E sel \in Selected(m) : ConnCheck(m, sel, ok)

\* A look-up and the requests end, with an answer or by timeout.
Fairness ==
    /\ WF_vars(Lookup)
    /\ WF_vars(\E m \in Media, c \in {1, 2} : Response(m, c))

Spec == Init /\ [][Next]_vars /\ Fairness

-----------------------------------------------------------------------------
\* No offer goes out before every component of every stream has the address that it names
\* (the counting of mediac in stun.c, turn.c and ice.c, call.c:264-277): the peer would
\* send media to nowhere.
OfferIsComplete ==
    call = "up" => \A m \in Media, c \in comps : addr[m][c] # "none" /\ offered[m][c] # "none"

\* When the checks of all streams have succeeded, the controlling side has announced the
\* addresses that were selected (ice.c:673-707).
SelectedIsOffered ==
    (call = "up" /\ role /\ started /\ \A m \in Media : check[m] = "done") => offered = addr

\* A call does not wait for ever: it is told that the addresses are there, or closed.
NatEnds == call = "waiting" ~> call \in {"up", "closed"}

\* What call.c:264 has a re-INVITE for: a new address is told to the peer. With STUN mediac
\* never comes to 0 a second time.
NewAddressIsOffered == (call = "up" /\ method = "stun") => offered = addr

\* What ice.c:700 says of the re-INVITE, also when the check of another stream has failed.
SelectedIsOfferedAnyway ==
    (call = "up" /\ role /\ started /\ \A m \in Media : check[m] # "running") => offered = addr
================================================================================
