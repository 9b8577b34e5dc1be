------------------------------ MODULE MCNetwork ------------------------------
(***************************************************************************)
(* NAT traversal, media encryption and presence for TLC: the modules stun, *)
(* turn and ice, the port mappings, the keys of SDES, DTLS-SRTP and        *)
(* (twice) ZRTP, the tests of the NAT, the publication of our presence,    *)
(* the subscriptions to that of others, and those who watch ours. The      *)
(* components share no variable, so each is explored by itself: part names *)
(* the one that moves while the others stay in an initial state, and what  *)
(* holds of every part holds of any interleaving of them.                  *)
(***************************************************************************)
EXTENDS MediaNat, Sequences, FiniteSetTheorems, WellFoundedInduction, TLAPS

CONSTANTS
    \* PortMaps: modules; components of a stream; lifetimes, waits and the uptime of the server
    MapsProto, MapsComps, Life, Renew, GiveUp, Delay, Uptime,
    \* SdesCrypto: modules, those whose peer sends early, whose numbers wrap; changes; packets
    SdesKinds, Early, Wraps, Changes, MaxPackets,
    \* ZrtpSession: streams, who has zrtp_parallel, a bound
    Order, Parallels, MaxStarts,
    \* Zrtp: what the peer's SDP may say
    Hashes,
    \* NatDetect: protocols, those whose server is configured by address, a bound
    NatbdProto, ByAddress, MaxProbes,
    \* Publisher: bounds
    MaxTag, MaxReqs,
    \* Subscriptions: contacts, those that are marked; bounds
    Contact, P2p, MaxFail, BookMaxFail,
    \* Watchers: User-Agents, watchers, those that do not register
    Ua, Watcher, Local

VARIABLES
    part,   \* the component that moves
    \* PortMaps
    proto, mapsCall, estabh, known, mapsReq, held, granted, mapsTimer, lease, address, epoch,
    seen, rebooted, mapsHeard, failed,
    \* SdesCrypto
    kind, phase, gotSdp, useSrtp, suite, sdesTx, sdesRx, roc, taken, peer, reads, peerRoc, net,
    sdesHeard,
    \* DtlsSrtp
    offerer, dtlsComps, setup, hasMedia, raddr, active, dtlsTimer, dtlsStarted, sock, conn,
    dtlsRole, negotiated, dtlsTx, dtlsRx, helpers, dtlsTold,
    \* ZrtpSession
    sdp, due, parallel, session, zrtpHello, met, zrtpSecure, announced,
    \* Zrtp
    sess, err, plainTimer, errorh, stream, plainAddr, hash, plainHello, plainSecure, packet,
    late,
    \* NatDetect
    natbd, natbdTimer, dns, natbdSrv, test, result, lifetime, probes,
    \* Publisher
    pubStatus, live, etag, refresh, pubTimer, reqs, server, tags,
    \* Subscriptions
    subsListed, subsHandler, subsUa, subsEntry, subsSub, subsTimer, subsFailc, subsWait,
    subsBackoff, subsStatus,
    \* Subscriptions
    bookListed, bookHandler, bookUa, bookEntry, bookSub, bookTimer, bookFailc, bookWait,
    bookBackoff, bookStatus,
    \* Watchers
    open, subh, watchStatus, notifier, watchTold, registered, watchStarted, box, boxes

\* The components whose ports are mapped.
MapsSlot == Media \X MapsComps

Maps == INSTANCE PortMaps WITH
    Proto <- MapsProto, Slot <- MapsSlot, call <- mapsCall, req <- mapsReq, timer <- mapsTimer,
          heard <- mapsHeard
Sdes == INSTANCE SdesCrypto WITH
    Kinds <- SdesKinds, tx <- sdesTx, rx <- sdesRx, heard <- sdesHeard
Dtls == INSTANCE DtlsSrtp WITH
    Faults <- {}, comps <- dtlsComps, timer <- dtlsTimer, started <- dtlsStarted,
    role <- dtlsRole, tx <- dtlsTx, rx <- dtlsRx, told <- dtlsTold
Zrtp == INSTANCE ZrtpSession WITH
    Hasty <- FALSE, hello <- zrtpHello, secure <- zrtpSecure
Plain == INSTANCE Zrtp WITH
    Faults <- {}, timer <- plainTimer, addr <- plainAddr, hello <- plainHello, secure <- plainSecure
Natbd == INSTANCE NatDetect WITH
    Proto <- NatbdProto, Address <- ByAddress, Faults <- {}, timer <- natbdTimer,
    srv <- natbdSrv
Pub == INSTANCE Publisher WITH
    Faults <- {"error"}, status <- pubStatus, timer <- pubTimer
Subs == INSTANCE Subscriptions WITH
    Faults <- {"flush"}, listed <- subsListed, handler <- subsHandler, ua <- subsUa,
          entry <- subsEntry,
    sub <- subsSub, timer <- subsTimer, failc <- subsFailc, wait <- subsWait,
    backoff <- subsBackoff, status <- subsStatus
Book == INSTANCE Subscriptions WITH
    Faults <- {}, MaxFail <- BookMaxFail, listed <- bookListed,
    handler <- bookHandler, ua <- bookUa, entry <- bookEntry, sub <- bookSub,
    timer <- bookTimer, failc <- bookFailc, wait <- bookWait, backoff <- bookBackoff,
    status <- bookStatus
Watch == INSTANCE Watchers WITH
    Published <- {}, Faults <- {"drop"}, status <- watchStatus, told <- watchTold,
          started <- watchStarted

\* The components' assumptions on their constants hold for these values.
ASSUME PartsAssumption ==
    /\ MapsComps \subseteq {1, 2} /\ Uptime > 0 /\ Maps!PortMapsAssumption
    /\ Sdes!SdesCryptoAssumption
    /\ Dtls!DtlsSrtpAssumption
    /\ Zrtp!ZrtpSessionAssumption
    /\ Plain!ZrtpAssumption
    /\ Natbd!NatDetectAssumption
    /\ Pub!PublisherAssumption
    /\ Subs!SubscriptionsAssumption
    /\ Book!SubscriptionsAssumption
    /\ Watch!WatchersAssumption

mapsVars == <<proto, mapsCall, estabh, known, mapsReq, held, granted, mapsTimer, lease, address,
      epoch, seen, rebooted, mapsHeard, failed>>
sdesVars == <<kind, phase, gotSdp, useSrtp, suite, sdesTx, sdesRx, roc, taken, peer, reads,
      peerRoc, net, sdesHeard>>
dtlsVars == <<offerer, dtlsComps, setup, hasMedia, raddr, active, dtlsTimer, dtlsStarted, sock,
      conn, dtlsRole, negotiated, dtlsTx, dtlsRx, helpers, dtlsTold>>
zrtpVars == <<sdp, due, parallel, session, zrtpHello, met, zrtpSecure, announced>>
plainVars == <<sess, err, plainTimer, errorh, stream, plainAddr, hash, plainHello, plainSecure,
      packet, late>>
natbdVars == <<natbd, natbdTimer, dns, natbdSrv, test, result, lifetime, probes>>
pubVars == <<pubStatus, live, etag, refresh, pubTimer, reqs, server, tags>>
subsVars == <<subsListed, subsHandler, subsUa, subsEntry, subsSub, subsTimer, subsFailc,
      subsWait, subsBackoff, subsStatus>>
bookVars == <<bookListed, bookHandler, bookUa, bookEntry, bookSub, bookTimer, bookFailc,
      bookWait, bookBackoff, bookStatus>>
watchVars == <<open, subh, watchStatus, notifier, watchTold, registered, watchStarted, box,
      boxes>>

all == <<part, vars, mapsVars, sdesVars, dtlsVars, zrtpVars, plainVars, natbdVars, pubVars,
      subsVars, bookVars,
        watchVars>>
Parts == {"nat", "maps", "sdes", "dtls", "zrtp", "zrtpc", "natbd", "publisher", "subscriber",
      "contacts",
          "watchers"}

\* The one that is chosen begins in any initial state, the others in one of theirs.
AllInit ==
    /\ part \in Parts
    /\ Init /\ (part # "nat" => method = "stun" /\ relays /\ role /\ comps = {1})
    /\ Maps!Init /\ (part # "maps" => proto = "pcp")
    /\ Sdes!Init /\ (part # "sdes" => kind = "srtp")
    /\ Dtls!Init /\ (part # "dtls" => offerer /\ dtlsComps = {1})
    /\ Zrtp!Init /\ (part # "zrtp" => parallel = {})
    /\ Plain!Init
    /\ Natbd!Init
    /\ Pub!Init
    /\ Subs!Init /\ (part # "subscriber" => subsListed = {} /\ subsUa)
    /\ Book!Init /\ (part # "contacts" => bookListed = {} /\ bookUa)
    /\ Watch!Init

\* Everything that does not belong to p stays as it is.
Only(p) ==
    /\ part = p /\ UNCHANGED part
    /\ IF p = "nat" THEN TRUE ELSE UNCHANGED vars
    /\ IF p = "maps" THEN TRUE ELSE UNCHANGED mapsVars
    /\ IF p = "sdes" THEN TRUE ELSE UNCHANGED sdesVars
    /\ IF p = "dtls" THEN TRUE ELSE UNCHANGED dtlsVars
    /\ IF p = "zrtp" THEN TRUE ELSE UNCHANGED zrtpVars
    /\ IF p = "zrtpc" THEN TRUE ELSE UNCHANGED plainVars
    /\ IF p = "natbd" THEN TRUE ELSE UNCHANGED natbdVars
    /\ IF p = "publisher" THEN TRUE ELSE UNCHANGED pubVars
    /\ IF p = "subscriber" THEN TRUE ELSE UNCHANGED subsVars
    /\ IF p = "contacts" THEN TRUE ELSE UNCHANGED bookVars
    /\ IF p = "watchers" THEN TRUE ELSE UNCHANGED watchVars

AllNext ==
    \/ Only("nat") /\ Next
    \/ Only("maps") /\ Maps!Next
    \/ Only("sdes") /\ Sdes!Next
    \/ Only("dtls") /\ Dtls!Next
    \/ Only("zrtp") /\ Zrtp!Next
    \/ Only("zrtpc") /\ Plain!Next
    \/ Only("natbd") /\ Natbd!Next
    \/ Only("publisher") /\ Pub!Next
    \/ Only("subscriber") /\ Subs!Next
    \/ Only("contacts") /\ Book!Next
    \/ Only("watchers") /\ Watch!Next

\* The fairness of each component, while it is the one that moves.
AllFairness ==
    /\ WF_all(Only("nat") /\ Lookup)
    /\ WF_all(Only("nat") /\ (\E m \in Media, c \in {1, 2} : Response(m, c)))
    /\ \A c \in {1, 2} : WF_all(Only("dtls") /\ Dtls!Handshake(c))
    /\ \A c \in {1, 2} : WF_all(Only("dtls") /\ Dtls!Connected(c))
    /\ \A n \in {"a", "b"} : WF_all(Only("zrtp") /\ Zrtp!Update(n))
    /\ \A n \in {"a", "b"}, s \in Zrtp!Streams : WF_all(Only("zrtp") /\ Zrtp!SendHello(n, s))
    /\ \A n \in {"a", "b"}, s \in Zrtp!Streams : SF_all(Only("zrtp") /\ Zrtp!ReceiveHello(n, s))
    /\ \A n \in {"a", "b"}, s \in Zrtp!Streams : WF_all(Only("zrtp") /\ Zrtp!Secure(n, s))
    /\ WF_all(Only("subscriber") /\ (\E c \in Contact : Subs!Deref(c)))
    /\ WF_all(Only("watchers") /\ (\E u \in Ua : Watch!BoxEnds(u)))

AllSpec == AllInit /\ [][AllNext]_all /\ AllFairness

-----------------------------------------------------------------------------
\* The types of all components.
AllTypesOK ==
    /\ TypeOK /\ Maps!TypeOK /\ Sdes!TypeOK /\ Dtls!TypeOK /\ Zrtp!TypeOK /\ Plain!TypeOK /\
          Natbd!TypeOK
    /\ Pub!TypeOK /\ Subs!TypeOK /\ Book!TypeOK /\ Watch!TypeOK

\* MediaNat and PortMaps: an offer names addresses that were gathered, the selected ones are
\* announced, mappings are renewed before they end and made anew after a restart.
AddressesAreRight ==
    /\ OfferIsComplete /\ SelectedIsOffered
    /\ Maps!MappingsLast /\ Maps!RebootIsFoundSingly

\* SdesCrypto, DtlsSrtp, ZrtpSession, Zrtp, Publisher, Subscriptions and Watchers: two ends know
\* the same. Both ends of a stream have the same keys, and what is secure stays so; what others
\* are told of us is our status, what is shown of them is theirs, and nobody is forgotten or
\* asked too often; and the behaviour of the NAT is tested at every interval (NatDetect).
PeersAgree ==
    /\ []Sdes!KeysAgree /\ []Sdes!HeardIsClear /\ []Dtls!KeysAgree
    /\ []Zrtp!AnnouncedWhenAll /\ []Zrtp!SecureStays
    /\ []Plain!QuietAfterAttack /\ []Plain!SecureIsKept /\ []Plain!AbortEnds
    /\ []Pub!RefreshKeepsStatus /\ []Watch!WatchersKnow /\ []Watch!OneMailbox
    /\ []Subs!KeepsTrying /\ []Subs!ShownIsSubscribed /\ []Book!EntryPerContact
    /\ Subs!BacksOff /\ []Natbd!GoesOn /\ Natbd!TestedAgain

\* A call does not wait for ever for its addresses or its keys, and a shutdown ends what
\* presence and mailboxes have begun.
AllEnd ==
    /\ NatEnds /\ Dtls!KeysCome /\ Zrtp!StreamsGetSecure
    /\ Subs!EntriesEnd /\ Watch!MailboxesEnd

-----------------------------------------------------------------------------
(* The first two properties, for any number of streams. The requests pending are those   *)
(* of the components that ask, and mediac counts the streams without an address.         *)
One(b) == IF b THEN 1 ELSE 0
Asks(m, c) == req[m][c] \in {"binding", "relay"}
Open == {m \in Media : \E c \in comps : addr[m][c] = "none"}

\* Before the server is known nothing is asked.
Unstarted ==
    /\ call = "new" => ~srv
    /\ ~srv => call # "up" /\ \A m \in Media, c \in {1, 2} : req[m][c] = "none" /\
          addr[m][c] = "none"

\* A component has no address as long as it, or with ICE its stream, asks for one.
AskedOf(m) ==
    /\ \A c \in {1, 2} : c \notin comps => req[m][c] = "none"
    /\ method = "ice" =>
          /\ nstun[m] = One(Asks(m, 1)) + One(Asks(m, 2))
          /\ \A c \in comps : addr[m][c] = "none" <=> nstun[m] # 0
    /\ method \in {"stun", "turn"} => \A c \in comps : addr[m][c] = "none" <=> Asks(m, c)
Asked == srv /\ call # "closed" => \A m \in Media : AskedOf(m)

\* The call waits for the streams that are open.
Waited ==
    /\ call = "waiting" => mediac = Cardinality(Open)
    /\ call = "up" => mediac <= 0 /\ Open = {} /\ \A m \in Media,
          c \in comps : offered[m][c] # "none"

\* What has changed since the last offer is going to be announced.
Announced ==
    /\ call \in {"new", "waiting"} => ~started
    /\ call # "closed" /\ ~started => ~again /\ \A m \in Media : check[m] = "none"
    /\ method \in {"stun", "turn"} => ~started
    /\ call = "up" /\ role /\ method \in {"ice", "lite"} => offered = addr \/ again
    /\ call = "up" /\ role /\ again => \E m \in Media : check[m] # "done"

\* The inductive invariant.
NatInv == TypeOK /\ Unstarted /\ Asked /\ Waited /\ Announced

\* The addresses with those of one stream replaced.
LEMMA AddrType ==
  ASSUME TypeOK, NEW m \in Media, NEW s \in [{1, 2} -> Address]
  PROVE  [addr EXCEPT ![m] = s] \in [Media -> [{1, 2} -> Address]]
BY DEF TypeOK

\* mapped_handler, gather_handler: a stream that has got its addresses is counted once, and
\* the last one makes the offer.
LEMMA CountKeeps ==
  ASSUME TypeOK, Waited, comps' = comps, call \in {"waiting", "up"},
         NEW m \in Open, Open' = Open \ {m}, Count(addr')
  PROVE  Waited' /\ call = "waiting" /\ call' \in {"waiting", "up"} /\ mediac' \in Int
         /\ (call' = "up" => offered' = addr') /\ (call' # "up" => offered' = offered)
<1>1. call = "waiting" /\ mediac = Cardinality(Open)
  BY DEF Waited
<1>2. IsFiniteSet(Open)
  BY MediaNatAssumption, FS_Subset DEF Open
<1>3. Cardinality(Open') = mediac - 1 /\ mediac \in Nat
  BY <1>1, <1>2, FS_RemoveElement, FS_CardinalityType
<1>4. mediac' = mediac - 1
  BY DEF Count
<1>5. CASE mediac = 1
  <2>1. call' = "up" /\ offered' = addr'
    BY <1>5 DEF Count, Estab
  <2>2. Open' = {}
    BY <1>2, <1>3, <1>5, FS_RemoveElement, FS_EmptySet
  <2>3. \A x \in Media, c \in comps : addr'[x][c] # "none"
    BY <2>2 DEF Open
  <2> QED BY <1>1, <1>4, <1>5, <2>1, <2>2, <2>3 DEF Waited
<1>6. CASE mediac # 1
  <2>1. call' = call /\ offered' = offered
    BY <1>6 DEF Count, Quiet
  <2> QED BY <1>1, <1>3, <1>4, <2>1 DEF Waited
<1> QED BY <1>5, <1>6

\* Replacing the address of components of a stream closes at most that stream.
LEMMA OpenAfter ==
  ASSUME TypeOK, comps' = comps, NEW m \in Media, NEW s \in [{1, 2} -> Address],
         addr' = [addr EXCEPT ![m] = s]
  PROVE  /\ Open \ {m} \subseteq Open' /\ Open' \subseteq Open \cup {m}
         /\ (m \in Open' <=> \E c \in comps : s[c] = "none")
         /\ \A x \in Media : addr'[x] = IF x = m THEN s ELSE addr[x]
BY DEF TypeOK, Open

\* The initial state satisfies the invariant.
LEMMA NatInit == Init => NatInv
<1> SUFFICES ASSUME Init PROVE NatInv
  OBVIOUS
<1>1. TypeOK
  <2>1. relays \in BOOLEAN /\ role \in BOOLEAN /\ srv \in BOOLEAN /\ started \in BOOLEAN /\
        again \in BOOLEAN
    BY Zenon DEF Init
  <2>2. /\ method \in Method /\ comps \in {{1}, {1, 2}} /\ call \in {"new", "waiting", "up",
           "closed"} /\ mediac \in Int
        /\ nstun \in [Media -> 0 .. 2] /\ check \in [Media -> {"none", "running", "done", "failed"}]
    BY DEF Init
  <2>3. Each("none") \in [Media -> [{1, 2} -> {"none"}]] /\ Each({}) \in [Media -> [{1, 2} -> {{}}]]
    BY DEF Each
  <2>4. /\ req \in [Media -> [{1, 2} -> {"none", "binding", "relay", "over"}]]
        /\ cand \in [Media -> [{1, 2} -> SUBSET Kinds]]
        /\ addr \in [Media -> [{1, 2} -> Address]] /\ offered \in [Media -> [{1, 2} -> Address]]
    BY <2>3 DEF Init, Address
  <2> QED BY <2>1, <2>2, <2>4, Zenon DEF TypeOK
<1>2. Unstarted
  BY DEF Init, Unstarted, Each
<1>3. Asked /\ Waited
  BY DEF Init, Asked, Waited
<1>4. Announced
  BY Zenon DEF Init, Announced
<1> QED BY <1>1, <1>2, <1>3, <1>4 DEF NatInv

\* session_alloc and media_alloc, and dns_handler: the requests of the streams are sent.
LEMMA StartAllAsks ==
  ASSUME TypeOK, Unstarted, ~srv, StartAll, UNCHANGED fixed, addr' = addr \/ method = "lite"
  PROVE  /\ Asked' /\ srv'
         /\ req' \in [Media -> [{1, 2} -> {"none", "binding", "relay", "over"}]]
         /\ nstun' \in [Media -> 0 .. 2] /\ cand' \in [Media -> [{1, 2} -> SUBSET Kinds]]
<1>1. /\ srv' = TRUE /\ req' = Requests /\ nstun' = Pending /\ cand' = Hosts
      /\ method' = method /\ comps' = comps /\ relays' = relays
  BY DEF StartAll, fixed
<1>2. comps \in {{1}, {1, 2}} /\ method \in {"stun", "turn", "ice", "lite"}
  BY MediaNatAssumption DEF TypeOK
<1>3. Cardinality(comps) = One(1 \in comps) + One(2 \in comps)
  <2>1. Cardinality({1}) = 1 /\ IsFiniteSet({1})
    BY FS_Singleton
  <2>2. Cardinality({1} \cup {2}) = 2
    BY <2>1, FS_AddElement
  <2> QED BY <1>2, <2>1, <2>2 DEF One
<1>4. Cardinality(comps) \in 1 .. 2
  BY <1>2, <1>3 DEF One
<1>5. \A m \in Media, c \in {1, 2} : req'[m][c] = Started(m, c)
  BY <1>1 DEF Requests
<1>6. \A m \in Media, c \in {1, 2} :
        /\ Started(m, c) \in {"none", "binding", "relay"}
        /\ c \notin comps => Started(m, c) = "none"
        /\ c \in comps /\ method # "lite" => Started(m, c) # "none"
  BY DEF Started
<1>7. req' \in [Media -> [{1, 2} -> {"none", "binding", "relay", "over"}]]
  BY <1>1, <1>6 DEF Requests
<1>8. nstun' \in [Media -> 0 .. 2] /\ cand' \in [Media -> [{1, 2} -> SUBSET Kinds]]
  BY <1>1, <1>4 DEF Pending, Hosts, Kinds
<1>9. ASSUME NEW m \in Media PROVE AskedOf(m)'
  <2>1. \A c \in {1, 2} : c \notin comps' => req'[m][c] = "none"
    BY <1>1, <1>5, <1>6
  <2>2. ASSUME method # "lite" PROVE \A c \in comps : addr'[m][c] = "none" /\ Asks(m, c)'
    BY <2>2, <1>1, <1>2, <1>5, <1>6 DEF Unstarted, Asks
  <2>3. ASSUME method = "ice" PROVE nstun'[m] = One(Asks(m, 1))' + One(Asks(m, 2))'
    <3>1. nstun'[m] = Cardinality(comps)
      BY <1>1, <2>3 DEF Pending
    <3>2. \A c \in {1, 2} : One(Asks(m, c))' = One(c \in comps)
      BY <2>1, <2>2, <2>3, <1>1 DEF Asks, One
    <3> QED BY <1>3, <3>1, <3>2
  <2>4. method = "ice" => nstun'[m] # 0
    BY <1>1, <1>4 DEF Pending
  <2> QED BY <1>1, <2>1, <2>2, <2>3, <2>4 DEF AskedOf
<1> QED BY <1>1, <1>7, <1>8, <1>9 DEF Asked

\* The addresses of the hosts are those of all streams.
LEMMA HostsClose ==
  ASSUME TypeOK
  PROVE  /\ HostAddr \in [Media -> [{1, 2} -> Address]]
         /\ \A m \in Media, c \in comps : HostAddr[m][c] # "none"
BY DEF TypeOK, HostAddr, Address, Kinds

\* session_alloc keeps the invariant.
LEMMA SetupInv == ASSUME NEW b \in BOOLEAN PROVE NatInv /\ Setup(b) => NatInv'
<1> SUFFICES ASSUME NatInv, Setup(b) PROVE NatInv'
  OBVIOUS
<1>1. TypeOK /\ Unstarted /\ Asked /\ Waited /\ Announced
  BY DEF NatInv
<1>2. call = "new" /\ ~srv /\ call' = "waiting"
  BY <1>1 DEF Setup, Unstarted
<1>3. UNCHANGED fixed /\ comps' = comps /\ method' = method /\ Open = Media
  <2>1. comps # {} /\ comps \subseteq {1, 2}
    BY <1>1 DEF TypeOK
  <2> QED BY <1>1, <1>2, <2>1 DEF Setup, fixed, Open, Unstarted
<1>4. addr' \in [Media -> [{1, 2} -> Address]] /\ mediac' = Cardinality(Open') /\ mediac' \in Int
  <2>1. CASE b /\ method = "lite"
    <3>1. addr' = HostAddr /\ mediac' = 0
      BY <2>1 DEF Setup, Counted
    <3>2. Open' = {}
      BY <1>1, <1>3, <3>1, HostsClose DEF Open
    <3> QED BY <1>1, <3>1, <3>2, HostsClose, FS_EmptySet
  <2>2. CASE ~(b /\ method = "lite")
    <3>1. addr' = addr /\ mediac' = Cardinality(Media)
      BY <2>2 DEF Setup, Counted
    <3>2. Open' = Media
      BY <1>3, <3>1 DEF Open
    <3> QED BY <1>1, <3>1, <3>2, MediaNatAssumption, FS_CardinalityType DEF TypeOK
  <2> QED BY <2>1, <2>2
<1>5. /\ Asked' /\ (srv' \/ UNCHANGED <<srv, req, addr>>) /\ srv' \in BOOLEAN
      /\ req' \in [Media -> [{1, 2} -> {"none", "binding", "relay", "over"}]]
      /\ nstun' \in [Media -> 0 .. 2] /\ cand' \in [Media -> [{1, 2} -> SUBSET Kinds]]
  <2>1. CASE b
    <3>1. StartAll /\ (addr' = addr \/ method = "lite")
      BY <2>1 DEF Setup
    <3>2. srv'
      BY <1>1, <1>2, <1>3, <3>1, StartAllAsks
    <3> QED BY <1>1, <1>2, <1>3, <3>1, <3>2, StartAllAsks
  <2>2. CASE ~b
    <3>1. UNCHANGED <<srv, req, nstun, cand, addr>>
      BY <2>2 DEF Setup
    <3> QED BY <1>1, <1>2, <3>1 DEF Asked, TypeOK
  <2> QED BY <2>1, <2>2
<1>6. UNCHANGED <<offered, check>> /\ (started' <=> started) /\ (again' <=> again)
  BY Zenon DEF Setup
<1>7. TypeOK'
  <2>1. started' \in BOOLEAN /\ again' \in BOOLEAN /\ relays' \in BOOLEAN /\ role' \in BOOLEAN
    BY <1>1, <1>3, Zenon DEF TypeOK, Setup, fixed
  <2> QED BY <1>1, <1>2, <1>3, <1>4, <1>5, <1>6, <2>1, Zenon DEF TypeOK
<1>8. Unstarted'
  BY <1>1, <1>2, <1>5 DEF Unstarted
<1>9. Waited' /\ Announced'
  BY <1>1, <1>2, <1>3, <1>4, <1>6 DEF Waited, Announced
<1> QED BY <1>5, <1>7, <1>8, <1>9 DEF NatInv

\* Nothing is claimed of a call that is closed but the types.
LEMMA ClosedInv ==
  ASSUME NatInv, TypeOK', call' = "closed", UNCHANGED <<method, srv>>, started' <=> started,
         UNCHANGED <<req, addr>> \/ srv
  PROVE  NatInv'
<1>1. Unstarted' /\ Asked' /\ Waited'
  BY DEF NatInv, Unstarted, Asked, Waited
<1>2. Announced'
  BY DEF NatInv, Announced
<1> QED BY <1>1, <1>2 DEF NatInv

\* dns_handler keeps the invariant.
LEMMA ResolvedInv == ASSUME NEW ok \in BOOLEAN PROVE NatInv /\ Resolved(ok) => NatInv'
<1> SUFFICES ASSUME NatInv, Resolved(ok) PROVE NatInv'
  OBVIOUS
<1>1. TypeOK /\ Unstarted /\ Asked /\ Waited /\ Announced
  BY DEF NatInv
<1>2. call = "waiting" /\ ~srv
  BY DEF Resolved
<1>3. /\ UNCHANGED fixed /\ comps' = comps /\ method' = method
      /\ check' = check /\ (started' <=> started) /\ (again' <=> again)
  BY Zenon DEF Resolved, fixed
<1>4. /\ started' \in BOOLEAN /\ again' \in BOOLEAN /\ relays' \in BOOLEAN /\ role' \in BOOLEAN
      /\ method' \in Method /\ comps' \in {{1}, {1, 2}} /\ check' = check
  BY <1>1, <1>3, Zenon DEF TypeOK, Resolved, fixed
<1>5. CASE ~ok
  <2>1. call' = "closed" /\ UNCHANGED <<offered, srv, mediac, req, nstun, cand, addr>>
    BY <1>5 DEF Resolved, Close
  <2>2. TypeOK'
    BY <1>1, <1>4, <2>1, Zenon DEF TypeOK
  <2> QED BY <1>3, <2>1, <2>2, ClosedInv
<1>6. CASE ok
  <2>1. StartAll /\ (addr' = addr \/ method = "lite")
    BY <1>6 DEF Resolved
  <2>2. /\ Asked' /\ srv'
        /\ req' \in [Media -> [{1, 2} -> {"none", "binding", "relay", "over"}]]
        /\ nstun' \in [Media -> 0 .. 2] /\ cand' \in [Media -> [{1, 2} -> SUBSET Kinds]]
    BY <1>1, <1>2, <1>3, <2>1, StartAllAsks
  <2>3. CASE method = "lite"
    <3>1. mediac' = 0 /\ addr' = HostAddr /\ call' = "up" /\ offered' = HostAddr
      BY <1>6, <2>3 DEF Resolved, Estab
    <3>2. Open' = {} /\ addr' \in [Media -> [{1, 2} -> Address]]
      BY <1>1, <1>3, <3>1, HostsClose DEF Open
    <3>3. TypeOK'
      <4>1. srv' \in BOOLEAN
        BY <2>1, Zenon DEF StartAll
      <4>2. mediac' \in Int /\ call' \in {"new", "waiting", "up", "closed"} /\
            offered' \in [Media -> [{1, 2} -> Address]]
        BY <3>1, <3>2
      <4> QED BY <1>1, <1>4, <2>2, <3>2, <4>1, <4>2, Zenon DEF TypeOK
    <3>4. Unstarted' /\ Waited'
      BY <1>1, <1>3, <2>2, <3>1, <3>2, HostsClose DEF Unstarted, Waited
    <3>5. Announced'
      BY <1>1, <1>2, <1>3, <2>3, <3>1 DEF Announced
    <3> QED BY <2>2, <3>3, <3>4, <3>5 DEF NatInv
  <2>4. CASE method # "lite"
    <3>1. UNCHANGED <<mediac, addr, call, offered>>
      BY <1>6, <2>4 DEF Resolved, Quiet
    <3>2. TypeOK'
      <4>1. srv' \in BOOLEAN
        BY <2>1, Zenon DEF StartAll
      <4> QED BY <1>1, <1>4, <2>2, <3>1, <4>1, Zenon DEF TypeOK
    <3>3. Unstarted' /\ Waited'
      BY <1>1, <1>2, <1>3, <2>2, <3>1 DEF Unstarted, Waited, Open
    <3>4. Announced'
      BY <1>1, <1>2, <1>3, <3>1 DEF Announced
    <3> QED BY <2>2, <3>2, <3>3, <3>4 DEF NatInv
  <2> QED BY <2>3, <2>4
<1> QED BY <1>5, <1>6

\* Who asks is a component of a call that waits or is up, and the server is known.
LEMMA AskingIs ==
  ASSUME NatInv, NEW m \in Media, NEW c \in {1, 2}, req[m][c] # "none", call # "closed"
  PROVE  srv /\ c \in comps /\ call \in {"waiting", "up"}
<1>1. srv /\ call # "new"
  BY DEF NatInv, Unstarted
<1>2. c \in comps
  BY <1>1 DEF NatInv, Asked, AskedOf
<1> QED BY <1>1, <1>2 DEF NatInv, TypeOK

\* mapped_handler and turn_handler keep the invariant.
LEMMA MappedInv ==
  ASSUME NatInv, NEW m \in Media, NEW c \in {1, 2}, NEW a \in {"srflx", "relay", "other"},
         Mapped(m, c, a), method \in {"stun", "turn"}, call # "closed",
         Asks(m, c) \/ (call = "up" /\ req[m][c] = "over"),
         UNCHANGED <<fixed, srv, nstun, cand, check, started, again>>
  PROVE  NatInv'
<1> DEFINE s == [addr[m] EXCEPT ![c] = a]
<1>1. TypeOK /\ Unstarted /\ Asked /\ Waited /\ Announced
  BY DEF NatInv
<1>2. srv /\ c \in comps /\ call \in {"waiting", "up"}
  BY AskingIs DEF Asks
<1>3. /\ comps' = comps /\ method' = method /\ UNCHANGED <<nstun, cand, check>>
      /\ (srv' <=> srv) /\ (started' <=> started) /\ (again' <=> again)
      /\ srv' \in BOOLEAN /\ started' \in BOOLEAN /\ again' \in BOOLEAN
      /\ relays' \in BOOLEAN /\ role' \in BOOLEAN
  BY <1>1, Zenon DEF fixed, TypeOK
<1>4. addr' = [addr EXCEPT ![m] = s] /\ req' = [req EXCEPT ![m][c] = "over"]
  BY <1>1 DEF Mapped, TypeOK
<1>5. s \in [{1, 2} -> Address] /\ s[c] = a /\ \A d \in comps \ {c} : s[d] = addr[m][d]
  BY <1>1 DEF TypeOK, Address, Kinds
<1> HIDE DEF s
<1>6. /\ addr' \in [Media -> [{1, 2} -> Address]]
      /\ req' \in [Media -> [{1, 2} -> {"none", "binding", "relay", "over"}]]
      /\ \A x \in Media, d \in {1, 2} : req'[x][d] = IF x = m /\ d = c THEN "over" ELSE req[x][d]
  BY <1>1, <1>4, <1>5 DEF TypeOK
<1>7. /\ Open \ {m} \subseteq Open' /\ Open' \subseteq Open \cup {m}
      /\ (m \in Open' <=> \E d \in comps : s[d] = "none")
      /\ \A x \in Media : addr'[x] = IF x = m THEN s ELSE addr[x]
  BY <1>1, <1>3, <1>4, <1>5, OpenAfter
<1>8. Asked'
  <2> SUFFICES ASSUME NEW x \in Media PROVE AskedOf(x)'
    BY DEF Asked
  <2>1. AskedOf(x) /\ method # "ice"
    BY <1>1, <1>2 DEF Asked
  <2>2. c \in comps /\ comps \subseteq {1, 2}
    BY <1>1, <1>2 DEF TypeOK
  <2>3. \A d \in {1, 2} : d \notin comps => req'[x][d] = "none"
    BY <1>6, <2>1, <2>2 DEF AskedOf
  <2>4. \A d \in comps : addr[x][d] = "none" <=> Asks(x, d)
    BY <2>1 DEF AskedOf
  <2>5. ASSUME NEW d \in comps PROVE addr'[x][d] = "none" <=> Asks(x, d)'
    <3>1. CASE x = m /\ d = c
      BY <1>5, <1>6, <1>7, <2>2, <3>1 DEF Asks
    <3>2. CASE ~(x = m /\ d = c)
      BY <1>5, <1>6, <1>7, <2>2, <2>4, <3>2 DEF Asks
    <3> QED BY <3>1, <3>2
  <2> QED BY <1>3, <2>1, <2>3, <2>5 DEF AskedOf
<1>9. /\ Waited' /\ call' \in {"waiting", "up"} /\ mediac' \in Int
      /\ offered' \in [Media -> [{1, 2} -> Address]]
  <2>1. CASE \E d \in comps \ {c} : addr[m][d] = "none"
    <3>1. Open' = Open
      BY <1>5, <1>7, <2>1 DEF Open
    <3>2. mediac' = mediac /\ call' = call /\ offered' = offered
      BY <2>1 DEF Mapped, Quiet
    <3> QED BY <1>1, <1>2, <1>3, <3>1, <3>2 DEF Waited, TypeOK
  <2>2. CASE \A d \in comps \ {c} : addr[m][d] # "none"
    <3>1. Count(addr') /\ m \notin Open'
      BY <1>5, <1>7, <2>2 DEF Mapped
    <3>2. Open' = Open \ {m}
      BY <1>7, <3>1
    <3>3. CASE Asks(m, c)
      <4>1. m \in Open
        BY <1>1, <1>2, <3>3 DEF Asked, AskedOf, Open
      <4>2. /\ Waited' /\ call' \in {"waiting", "up"} /\ mediac' \in Int
            /\ (call' = "up" => offered' = addr') /\ (call' # "up" => offered' = offered)
        BY <1>1, <1>2, <1>3, <3>1, <3>2, <4>1, CountKeeps
      <4> QED BY <1>1, <1>6, <4>2 DEF TypeOK
    <3>4. CASE ~Asks(m, c)
      <4>1. call = "up" /\ mediac <= 0 /\ Open = {} /\ mediac \in Int
        BY <1>1, <3>4 DEF Waited, TypeOK
      <4>2. mediac' = mediac - 1 /\ call' = call /\ offered' = offered
        BY <3>1, <4>1 DEF Count, Quiet
      <4> QED BY <1>1, <1>3, <3>2, <4>1, <4>2 DEF Waited, TypeOK
    <3> QED BY <3>3, <3>4
  <2> QED BY <2>1, <2>2
<1>10. TypeOK'
  <2>1. call' \in {"new", "waiting", "up", "closed"} /\ method' \in Method
    BY <1>1, <1>3, <1>9 DEF TypeOK
  <2> QED BY <1>1, <1>3, <1>6, <1>9, <2>1, Zenon DEF TypeOK
<1>11. Unstarted' /\ Announced'
  BY <1>1, <1>2, <1>3, <1>9 DEF Unstarted, Announced
<1> QED BY <1>8, <1>9, <1>10, <1>11 DEF NatInv

\* The answers of the STUN and the TURN server.
LEMMA StunTurnInv ==
  ASSUME NatInv, Remaps = FALSE, NEW m \in Media, NEW c \in {1, 2},
         StunMapped(m, c) \/ TurnAllocated(m, c)
  PROVE  NatInv'
<1>1. CASE StunMapped(m, c)
  <2>1. PICK a \in {"srflx", "other"} :
           Mapped(m, c, a) /\ (req[m][c] = "binding" \/ (call = "up" /\ req[m][c] = "over"))
    BY <1>1 DEF StunMapped
  <2>2. /\ method \in {"stun", "turn"} /\ call # "closed"
        /\ UNCHANGED <<fixed, srv, nstun, cand, check, started, again>>
    BY <1>1 DEF StunMapped
  <2> QED BY <2>1, <2>2, MappedInv DEF Asks
<1>2. CASE TurnAllocated(m, c)
  <2>1. /\ method \in {"stun", "turn"} /\ call # "closed" /\ req[m][c] = "relay"
        /\ Mapped(m, c, "relay") /\ UNCHANGED <<fixed, srv, nstun, cand, check, started, again>>
    BY <1>2 DEF TurnAllocated
  <2> QED BY <2>1, MappedInv DEF Asks
<1> QED BY <1>1, <1>2

\* A request that fails closes the call.
LEMMA FailsInv == ASSUME NEW m \in Media, NEW c \in {1, 2} PROVE NatInv /\ RequestFails(m, c) =>
      NatInv'
<1> SUFFICES ASSUME NatInv, RequestFails(m, c) PROVE NatInv'
  OBVIOUS
<1>1. call' = "closed" /\ UNCHANGED <<fixed, srv, mediac, req, nstun, cand, addr, check, started,
      again, offered>>
  BY DEF RequestFails, Close
<1>2. TypeOK'
  BY <1>1, Zenon DEF NatInv, TypeOK, fixed
<1>3. started' <=> started
  BY <1>1
<1> QED BY <1>1, <1>2, <1>3, ClosedInv DEF fixed

\* gather_handler, at the end of a response for a component, keeps the invariant: the
\* request r that the component has now is counted, and a stream counts when n is 0.
LEMMA GatheredInv ==
  ASSUME NatInv, NEW m \in Media, NEW c \in {1, 2}, method = "ice", call # "closed", Asks(m, c),
         NEW r \in {"binding", "over"}, NEW n,
               n = (IF r = "binding" THEN nstun[m] ELSE nstun[m] - 1),
         NEW now \in [Media -> [{1, 2} -> SUBSET Kinds]], NEW bad, Gathered(m, n, now, bad),
         req' = [req EXCEPT ![m][c] = r], nstun' = [nstun EXCEPT ![m] = n], cand' = now,
         UNCHANGED <<fixed, srv, check, started, again>>
  PROVE  NatInv'
<1> DEFINE s == [d \in {1, 2} |-> IF d \in comps THEN Default(now[m][d]) ELSE "none"]
<1>1. TypeOK /\ Unstarted /\ Asked /\ Waited /\ Announced
  BY DEF NatInv
<1>2. srv /\ c \in comps /\ call \in {"waiting", "up"} /\ comps \subseteq {1, 2}
  BY <1>1, AskingIs DEF Asks, TypeOK
<1>3. /\ comps' = comps /\ method' = method /\ check' = check
      /\ (srv' <=> srv) /\ (started' <=> started) /\ (again' <=> again)
      /\ srv' \in BOOLEAN /\ started' \in BOOLEAN /\ again' \in BOOLEAN
      /\ relays' \in BOOLEAN /\ role' \in BOOLEAN
  BY <1>1, Zenon DEF fixed, TypeOK
<1>4. /\ nstun[m] = One(Asks(m, 1)) + One(Asks(m, 2)) /\ nstun[m] \in 1 .. 2
      /\ \A d \in comps : addr[m][d] = "none"
  <2>1. AskedOf(m)
    BY <1>1, <1>2 DEF Asked
  <2> QED BY <1>1, <2>1 DEF AskedOf, One
<1>5. n \in 0 .. 2 /\ m \in Open
  BY <1>2, <1>4 DEF Open
<1>6. /\ req' \in [Media -> [{1, 2} -> {"none", "binding", "relay", "over"}]]
      /\ nstun' \in [Media -> 0 .. 2] /\ nstun'[m] = n
      /\ \A x \in Media \ {m} : nstun'[x] = nstun[x]
      /\ \A x \in Media, d \in {1, 2} : req'[x][d] = IF x = m /\ d = c THEN r ELSE req[x][d]
  BY <1>1, <1>5 DEF TypeOK
<1>7. /\ \A d \in {1, 2} : d \notin comps' => req'[m][d] = "none"
      /\ n = One(Asks(m, 1))' + One(Asks(m, 2))'
  <2>1. \A d \in {1, 2} : d \notin comps => req[m][d] = "none"
    BY <1>1, <1>2 DEF Asked, AskedOf
  <2>2. n = One(Asks(m, 1))' + One(Asks(m, 2))'
    <3>1. One(Asks(m, c))' = One(Asks(m, c)) - (IF r = "binding" THEN 0 ELSE 1)
      BY <1>6 DEF Asks, One
    <3>2. CASE c = 1
      BY <1>4, <1>6, <3>1, <3>2 DEF Asks, One
    <3>3. CASE c = 2
      BY <1>4, <1>6, <3>1, <3>3 DEF Asks, One
    <3> QED BY <3>2, <3>3
  <2> QED BY <1>2, <1>3, <1>6, <2>1, <2>2
<1>8. ASSUME call' # "closed", addr' \in [Media -> [{1, 2} -> Address]],
             \A x \in Media \ {m} : addr'[x] = addr[x],
             \A d \in comps : addr'[m][d] = "none" <=> n # 0
      PROVE  Asked'
  <2> SUFFICES ASSUME NEW x \in Media PROVE AskedOf(x)'
    BY DEF Asked
  <2>1. CASE x = m
    BY <1>3, <1>6, <1>7, <1>8, <2>1 DEF AskedOf
  <2>2. CASE x # m
    <3>1. AskedOf(x) /\ \A d \in {1, 2} : req'[x][d] = req[x][d]
      BY <1>1, <1>2, <1>6, <2>2 DEF Asked
    <3>2. \A d \in {1, 2} : One(Asks(x, d))' = One(Asks(x, d))
      BY <3>1 DEF Asks, One
    <3> QED BY <1>2, <1>3, <1>6, <1>8, <2>2, <3>1, <3>2 DEF AskedOf
  <2> QED BY <2>1, <2>2
<1>9. ASSUME call' \in {"waiting", "up", "closed"}, mediac' \in Int,
             addr' \in [Media -> [{1, 2} -> Address]], offered' \in [Media -> [{1, 2} -> Address]]
      PROVE  TypeOK'
  <2>1. call' \in {"new", "waiting", "up", "closed"} /\ method' \in Method
        /\ comps' \in {{1}, {1, 2}} /\ check' \in [Media -> {"none", "running", "done", "failed"}]
        /\ cand' \in [Media -> [{1, 2} -> SUBSET Kinds]]
    BY <1>1, <1>3, <1>9 DEF TypeOK
  <2> QED BY <1>3, <1>6, <1>9, <2>1, Zenon DEF TypeOK
<1>10. CASE n # 0
  <2>1. UNCHANGED <<mediac, addr, call, offered>>
    BY <1>10 DEF Gathered, Quiet
  <2>2. TypeOK' /\ Asked'
    BY <1>1, <1>2, <1>4, <1>8, <1>9, <1>10, <2>1 DEF TypeOK
  <2>3. Unstarted' /\ Waited'
    BY <1>1, <1>2, <1>3, <2>1 DEF Unstarted, Waited, Open
  <2>4. Announced'
    BY <1>1, <1>3, <2>1 DEF Announced, fixed
  <2> QED BY <2>2, <2>3, <2>4 DEF NatInv
<1>11. CASE n = 0 /\ bad
  <2>1. call' = "closed" /\ UNCHANGED <<mediac, addr, offered>>
    BY <1>11 DEF Gathered, Close
  <2>2. TypeOK'
    BY <1>1, <1>9, <2>1 DEF TypeOK
  <2> QED BY <1>2, <1>3, <2>1, <2>2, ClosedInv
<1>12. CASE n = 0 /\ ~bad
  <2>1. addr' = [addr EXCEPT ![m] = s] /\ Count([addr EXCEPT ![m] = s])
    BY <1>12 DEF Gathered
  <2>2. s \in [{1, 2} -> Address] /\ \A d \in comps : s[d] # "none"
    BY <1>2 DEF Default, Address, Kinds
  <2> HIDE DEF s
  <2>3. /\ Open \ {m} \subseteq Open' /\ Open' \subseteq Open \cup {m} /\ m \notin Open'
        /\ \A x \in Media : addr'[x] = IF x = m THEN s ELSE addr[x]
    <3>1. \A x \in Media : addr'[x] = IF x = m THEN s ELSE addr[x]
      BY <1>1, <2>1 DEF TypeOK
    <3> QED BY <1>3, <2>2, <3>1 DEF Open
  <2>4. addr' \in [Media -> [{1, 2} -> Address]] /\ Open' = Open \ {m} /\ Count(addr')
    BY <1>1, <2>1, <2>2, <2>3, AddrType
  <2>5. /\ Waited' /\ call = "waiting" /\ call' \in {"waiting", "up"} /\ mediac' \in Int
        /\ (call' = "up" => offered' = addr') /\ (call' # "up" => offered' = offered)
    BY <1>1, <1>2, <1>3, <1>5, <2>4, CountKeeps
  <2>6. TypeOK' /\ Asked'
    <3>1. offered' \in [Media -> [{1, 2} -> Address]]
      BY <1>1, <2>4, <2>5 DEF TypeOK
    <3> QED BY <1>8, <1>9, <1>12, <2>2, <2>3, <2>4, <2>5, <3>1
  <2>7. Unstarted' /\ Announced'
    BY <1>1, <1>2, <1>3, <2>5 DEF Unstarted, Announced
  <2> QED BY <2>5, <2>6, <2>7 DEF NatInv
<1> QED BY <1>10, <1>11, <1>12

\* stun_resp_handler and turnc_handler.
LEMMA IceInv ==
  ASSUME NatInv, NEW m \in Media, NEW c \in {1, 2},
         \/ \E ok \in BOOLEAN : StunResponse(m, c, ok)
         \/ \E r \in {"error", "refused", "relay", "both"} : TurnResponse(m, c, r)
  PROVE  NatInv'
<1>1. cand \in [Media -> [{1, 2} -> SUBSET Kinds]]
  BY DEF NatInv, TypeOK
<1>2. ASSUME NEW k \in SUBSET Kinds
      PROVE  [cand EXCEPT ![m][c] = @ \cup k] \in [Media -> [{1, 2} -> SUBSET Kinds]]
  BY <1>1
<1>3. ASSUME NEW ok \in BOOLEAN, StunResponse(m, c, ok) PROVE NatInv'
  <2> DEFINE now == IF ok THEN [cand EXCEPT ![m][c] = @ \cup {"srflx"}] ELSE cand
  <2>1. now \in [Media -> [{1, 2} -> SUBSET Kinds]]
    BY <1>1, <1>2 DEF Kinds
  <2>2. /\ call # "closed" /\ method = "ice" /\ Asks(m, c) /\ req' = [req EXCEPT ![m][c] = "over"]
        /\ nstun' = [nstun EXCEPT ![m] = nstun[m] - 1] /\ cand' = now
        /\ Gathered(m, nstun[m] - 1, now, ~ok) /\ UNCHANGED <<fixed, srv, check, started, again>>
    BY <1>3 DEF StunResponse, Asks
  <2> HIDE DEF now
  <2> QED BY <2>1, <2>2, GatheredInv
<1>4. ASSUME NEW r \in {"error", "refused", "relay", "both"}, TurnResponse(m, c, r) PROVE NatInv'
  <2> DEFINE kinds == IF r = "both" THEN {"relay",
        "srflx"} ELSE IF r = "relay" THEN {"relay"} ELSE {}
             now == [cand EXCEPT ![m][c] = @ \cup kinds]
             next == IF r \in {"refused", "relay"} THEN "binding" ELSE "over"
             n == IF next = "binding" THEN nstun[m] ELSE nstun[m] - 1
  <2>1. kinds \in SUBSET Kinds /\ next \in {"binding", "over"}
    BY DEF Kinds
  <2>2. now \in [Media -> [{1, 2} -> SUBSET Kinds]]
    BY <1>2, <2>1
  <2>3. /\ call # "closed" /\ method = "ice" /\ Asks(m, c) /\ req' = [req EXCEPT ![m][c] = next]
        /\ nstun' = [nstun EXCEPT ![m] = n] /\ cand' = now
        /\ Gathered(m, n, now, r = "error") /\ UNCHANGED <<fixed, srv, check, started, again>>
    BY <1>4 DEF TurnResponse, Asks
  <2>4. n = IF next = "binding" THEN nstun[m] ELSE nstun[m] - 1
    OBVIOUS
  <2> HIDE DEF now, kinds, next, n
  <2> QED BY <2>1, <2>2, <2>3, <2>4, GatheredInv
<1> QED BY <1>3, <1>4

\* ice_start and update keep the invariant.
LEMMA UpdateInv ==
  ASSUME NEW S \in SUBSET Media, NEW peerIce \in BOOLEAN
  PROVE  NatInv /\ Update(S, peerIce) => NatInv'
<1> SUFFICES ASSUME NatInv, Update(S, peerIce) PROVE NatInv'
  OBVIOUS
<1>1. TypeOK /\ Unstarted /\ Asked /\ Waited /\ Announced
  BY DEF NatInv
<1>2. /\ call = "up" /\ method \in {"ice", "lite"}
      /\ UNCHANGED <<fixed, call, srv, mediac, req, nstun, cand, addr, again>>
  BY DEF Update
<1>3. UNCHANGED <<method, relays, comps, role>>
  BY <1>2 DEF fixed
<1>4. \/ started /\ offered' = addr /\ check' = check /\ (started' <=> started)
      \/ /\ ~started /\ offered' = offered
         /\ \/ check' = check /\ (started' <=> started)
            \/ started' /\ \A m \in Media : check'[m] \in {"running", "done"}
  BY Zenon DEF Update, IceStart
<1>5. TypeOK'
  <2>1. started' \in BOOLEAN
    BY <1>1, Zenon DEF Update, IceStart, TypeOK
  <2>2. check' \in [Media -> {"none", "running", "done", "failed"}]
    BY <1>1 DEF Update, IceStart, TypeOK
  <2>3. offered' \in [Media -> [{1, 2} -> Address]]
    BY <1>1, <1>4 DEF TypeOK
  <2> QED BY <1>1, <1>2, <1>3, <2>1, <2>2, <2>3, Zenon DEF TypeOK
<1>6. Unstarted' /\ Asked'
  <2>1. Unstarted'
    BY <1>1, <1>2 DEF Unstarted
  <2>2. \A m \in Media : AskedOf(m)' <=> AskedOf(m)
    BY <1>2, <1>3 DEF AskedOf, Asks, One
  <2> QED BY <1>1, <1>2, <2>1, <2>2 DEF Asked
<1>7. Waited'
  <2>1. Open' = Open /\ \A m \in Media, c \in comps : offered'[m][c] # "none"
    BY <1>1, <1>2, <1>3, <1>4 DEF Waited, Open
  <2> QED BY <1>1, <1>2, <1>3, <2>1 DEF Waited
<1>8. Announced'
  BY <1>1, <1>2, <1>3, <1>4 DEF Announced
<1> QED BY <1>5, <1>6, <1>7, <1>8 DEF NatInv

\* conncheck_handler keeps the invariant: it takes candidates, after all requests are over.
LEMMA ConnCheckInv ==
  ASSUME NEW m \in Media, NEW sel \in Selected(m), NEW ok \in BOOLEAN
  PROVE  NatInv /\ ConnCheck(m, sel, ok) => NatInv'
<1> SUFFICES ASSUME NatInv, ConnCheck(m, sel, ok) PROVE NatInv'
  OBVIOUS
<1> DEFINE now == IF ok THEN [addr EXCEPT ![m] = sel] ELSE addr
           done == [check EXCEPT ![m] = IF ok THEN "done" ELSE "failed"]
<1>1. TypeOK /\ Unstarted /\ Asked /\ Waited /\ Announced
  BY DEF NatInv
<1>2. /\ call = "up" /\ check[m] = "running" /\ check' = done /\ addr' = now
      /\ UNCHANGED <<fixed, srv, mediac, req, nstun, cand, started>>
  BY DEF ConnCheck
<1>3. UNCHANGED <<method, relays, comps, role>>
  BY <1>2 DEF fixed
<1>4. sel \in [{1, 2} -> Address] /\ \A c \in comps : sel[c] # "none"
  <2>1. /\ sel \in [{1, 2} -> Address]
        /\ \A c \in {1, 2} : IF c \in comps THEN sel[c] \in cand[m][c] ELSE sel[c] = "none"
    BY DEF Selected
  <2>2. comps \subseteq {1, 2} /\ \A c \in {1, 2} : cand[m][c] \subseteq Kinds
    BY <1>1 DEF TypeOK
  <2>3. "none" \notin Kinds
    BY DEF Kinds
  <2> QED BY <2>1, <2>2, <2>3
<1>5. done \in [Media -> {"none", "running", "done", "failed"}] /\
      done[m] = IF ok THEN "done" ELSE "failed"
  BY <1>1 DEF TypeOK
<1>6. /\ now \in [Media -> [{1, 2} -> Address]]
      /\ \A x \in Media : now[x] = IF ok /\ x = m THEN sel ELSE addr[x]
      /\ (ok /\ sel # addr[m]) \/ now = addr
  BY <1>1, <1>4 DEF TypeOK
<1>7. /\ \/ call' = "up" /\ offered' = now /\ ~again' /\ role
         \/ /\ call' = "up" /\ offered' = offered
            /\ (again' <=> again \/ (ok /\ sel # addr[m]))
            /\ ~role \/ (ok /\ \E x \in Media : done[x] # "done") \/ ~(again \/ (ok /\
                  sel # addr[m]))
      /\ again' \in BOOLEAN
  <2>1. CASE ~(ok /\ \E x \in Media : done[x] # "done") /\ (again \/ (ok /\ sel # addr[m])) /\ role
    <3>1. again' = FALSE /\ Estab(now)
      BY <2>1, Zenon DEF ConnCheck
    <3> QED BY <2>1, <3>1 DEF Estab
  <2>2. CASE ~(~(ok /\ \E x \in Media : done[x] # "done") /\ (again \/ (ok /\ sel # addr[m])) /\
        role)
    <3>1. again' = (again \/ (ok /\ sel # addr[m])) /\ Quiet
      BY <2>2, Zenon DEF ConnCheck
    <3> HIDE DEF done, now
    <3> QED BY <1>1, <1>2, <2>2, <3>1, Zenon DEF Quiet
  <2> QED BY <2>1, <2>2, Zenon
<1> HIDE DEF now, done
<1>8. started /\ method \in {"ice", "lite"} /\ srv /\ Open = {} /\ Open' = {}
  <2>1. started /\ srv /\ method \in {"ice", "lite"}
    BY <1>1, <1>2, MediaNatAssumption DEF Announced, Unstarted, TypeOK
  <2>2. Open = {}
    BY <1>1, <1>2 DEF Waited
  <2> QED BY <1>2, <1>3, <1>4, <1>6, <2>1, <2>2 DEF Open
<1>9. TypeOK'
  <2>1. relays' \in BOOLEAN /\ role' \in BOOLEAN /\ srv' \in BOOLEAN /\ started' \in BOOLEAN
    BY <1>1, <1>2, <1>3, Zenon DEF TypeOK
  <2>2. call' \in {"new", "waiting", "up", "closed"} /\ offered' \in [Media -> [{1, 2} -> Address]]
    BY <1>1, <1>6, <1>7 DEF TypeOK
  <2> QED BY <1>1, <1>2, <1>3, <1>5, <1>6, <1>7, <2>1, <2>2, Zenon DEF TypeOK
<1>10. Unstarted'
  BY <1>2, <1>7, <1>8 DEF Unstarted
<1>11. Asked'
  <2>1. \A x \in Media, c \in comps : addr[x][c] # "none" /\ addr'[x][c] # "none"
    BY <1>3, <1>8 DEF Open
  <2>2. ASSUME NEW x \in Media PROVE AskedOf(x)'
    <3>1. AskedOf(x)
      BY <1>1, <1>2, <1>8 DEF Asked
    <3> QED BY <1>2, <1>3, <1>8, <2>1, <3>1 DEF AskedOf, Asks, One
  <2> QED BY <2>2 DEF Asked
<1>12. Waited'
  <2>1. mediac' <= 0 /\ \A x \in Media, c \in comps : offered[x][c] # "none"
    BY <1>1, <1>2 DEF Waited
  <2>2. \A x \in Media, c \in comps : addr'[x][c] # "none"
    BY <1>3, <1>8 DEF Open
  <2>3. \A x \in Media, c \in comps : offered'[x][c] # "none"
    BY <1>2, <1>7, <2>1, <2>2
  <2> QED BY <1>3, <1>7, <1>8, <2>1, <2>3 DEF Waited
<1>13. Announced'
  <2>1. role /\ again => \E x \in Media : check[x] # "done"
    BY <1>1, <1>2 DEF Announced
  <2>2. role => offered = addr \/ again
    BY <1>1, <1>2, <1>8 DEF Announced
  <2>3. role => offered' = addr' \/ again'
    BY <1>2, <1>6, <1>7, <2>2
  <2>4. role /\ again' => \E x \in Media : check'[x] # "done"
    BY <1>2, <1>5, <1>7
  <2>5. started' /\ call' = "up"
    BY <1>2, <1>7, <1>8
  <2> QED BY <1>3, <1>8, <2>3, <2>4, <2>5 DEF Announced
<1> QED BY <1>9, <1>10, <1>11, <1>12, <1>13 DEF NatInv

\* Every step keeps the invariant.
LEMMA NatNext == ASSUME Remaps = FALSE PROVE NatInv /\ [Next]_vars => NatInv'
<1> SUFFICES ASSUME NatInv, [Next]_vars PROVE NatInv'
  OBVIOUS
<1>1. CASE UNCHANGED vars
  <2>1. TypeOK' /\ Unstarted' /\ Waited'
    BY <1>1 DEF NatInv, TypeOK, Unstarted, Waited, Open, vars
  <2>2. Asked' /\ Announced'
    BY <1>1 DEF NatInv, Asked, AskedOf, Asks, One, Announced, vars
  <2> QED BY <2>1, <2>2 DEF NatInv
<1> QED BY <1>1, SetupInv, ResolvedInv, StunTurnInv, IceInv, FailsInv, UpdateInv, ConnCheckInv
     DEF Next, Lookup, Response

\* The invariant says what AddressesAreRight does of the offers.
LEMMA NatSafe == NatInv => OfferIsComplete /\ SelectedIsOffered
<1>1. NatInv => OfferIsComplete
  BY DEF NatInv, Waited, Open, OfferIsComplete
<1>2. NatInv => SelectedIsOffered
  BY MediaNatAssumption DEF NatInv, TypeOK, Announced, SelectedIsOffered
<1> QED BY <1>1, <1>2

-----------------------------------------------------------------------------
(* Proof about PortMaps, for any streams and times that fit the assumption.  *)

\* A component that is the only one of its stream.
Single(s) == {t \in MapsSlot : t[1] = s[1]} = {s}

\* Why a mapping that was granted lasts, unless the last request has failed: it is being asked
\* for and has not waited long, or will be before it ends; or it was lost in a restart of the
\* server, and the next announcement will show that.
Lasts(s) ==
    \/ mapsReq[s] # -1 /\ (rebooted \/ (mapsReq[s] <= Delay /\
          lease[s] + mapsReq[s] >= Life - Renew))
    \/ mapsTimer[s] # -1 /\ lease[s] - mapsTimer[s] >= Life - Renew
    \/ rebooted /\ (~Single(s) \/ epoch < seen[s[1]])

\* A component waits for an answer or for its time to ask again, and lasts once it is granted.
LastsIfGranted(s) ==
    /\ mapsReq[s] = -1 \/ mapsTimer[s] = -1
    /\ mapsCall # "closed" /\ granted[s] /\ ~failed[s] => Lasts(s)

\* The epoch of the server tells whether it was restarted.
Epochs ==
    /\ ~rebooted => epoch = Uptime
    /\ rebooted => epoch < Uptime /\ \A s \in MapsSlot : seen[s[1]] = Uptime \/ seen[s[1]] <= epoch
    /\ proto = "pcp" /\ ~rebooted => \A s \in MapsSlot : granted[s] => seen[s[1]] = Uptime
    /\ mapsHeard => rebooted /\ \A s \in MapsSlot : seen[s[1]] <= epoch

\* The inductive invariant.
MapsInv ==
    /\ Maps!TypeOK /\ Epochs
    /\ mapsCall = "up" => \A s \in MapsSlot : granted[s]
    /\ \A s \in MapsSlot : LastsIfGranted(s)

USE DEF Maps!None

\* What the assumption says of the times.
LEMMA MapsTimes ==
    /\ Life \in Nat /\ Renew \in Nat /\ GiveUp \in Nat /\ Delay \in Nat /\ Uptime \in Nat
    /\ Renew + Delay < Life /\ Delay < GiveUp /\ Uptime > 0
BY PartsAssumption DEF Maps!PortMapsAssumption

\* The types of what the invariant is about.
LEMMA MapsTypes ==
    ASSUME Maps!TypeOK
    PROVE  /\ mapsReq \in [MapsSlot -> -1 .. GiveUp] /\ mapsTimer \in [MapsSlot -> -1 .. Renew]
           /\ lease \in [MapsSlot -> 0 .. Life] /\ epoch \in 0 .. Uptime
           /\ seen \in [Maps!Streams -> 0 .. Uptime]
           /\ granted \in [MapsSlot -> BOOLEAN] /\ failed \in [MapsSlot -> BOOLEAN]
           /\ \A s \in MapsSlot : s[1] \in Maps!Streams
           /\ {estabh, known, rebooted, mapsHeard} \subseteq BOOLEAN
BY DEF Maps!TypeOK, Maps!Streams

\* All mappings have been asked for, and none is granted.
LEMMA MapsInit == Maps!Init => MapsInv
<1> SUFFICES ASSUME Maps!Init PROVE MapsInv
  OBVIOUS
<1>1. Maps!TypeOK
  <2>1. {estabh, known, rebooted, mapsHeard} \subseteq BOOLEAN
    BY Zenon DEF Maps!Init
  <2>. QED BY <2>1, MapsTimes DEF Maps!Init, Maps!Asked, Maps!All, Maps!TypeOK
<1>2. Epochs
  BY DEF Maps!Init, Maps!Asked, Maps!All, Epochs
<1>3. \A s \in MapsSlot : LastsIfGranted(s)
  BY DEF Maps!Init, Maps!Asked, Maps!All, LastsIfGranted
<1>. QED BY <1>1, <1>2, <1>3 DEF Maps!Init, MapsInv

\* What a step leaves of a component if it changes neither its request nor its lease.
LEMMA MapsKept ==
    ASSUME NEW s \in MapsSlot, LastsIfGranted(s), mapsReq'[s] = mapsReq[s],
          mapsTimer'[s] = mapsTimer[s],
           lease'[s] = lease[s], granted'[s] <=> granted[s], failed'[s] \/ ~failed[s],
           mapsCall = "closed" => mapsCall' = "closed",
           rebooted' <=> rebooted, epoch' = epoch, seen'[s[1]] = seen[s[1]] \/ ~Single(s)
    PROVE  LastsIfGranted(s)'
BY DEF LastsIfGranted, Lasts, Single

\* A mapping is granted, and with the last one the call is told.
LEMMA MapsGranted == ASSUME MapsInv, NEW s \in MapsSlot, Maps!Granted(s) PROVE MapsInv'
<1>1. Maps!TypeOK /\ Epochs /\ (mapsCall = "up" => \A t \in MapsSlot : granted[t])
      /\ \A t \in MapsSlot : LastsIfGranted(t)
  BY DEF MapsInv
<1>2. /\ mapsCall # "closed" /\ mapsReq[s] # -1
      /\ mapsReq' = [mapsReq EXCEPT ![s] = -1]
      /\ held' = held \/ held' = [held EXCEPT ![s] = "none"]
      /\ granted' = [granted EXCEPT ![s] = TRUE]
      /\ mapsTimer' = [mapsTimer EXCEPT ![s] = Renew] /\ lease' = [lease EXCEPT ![s] = Life]
      /\ \E a \in {"zero", "mapped"} : address' = [address EXCEPT ![s] = a]
      /\ seen' = IF proto = "pcp" THEN [seen EXCEPT ![s[1]] = epoch] ELSE seen
      /\ failed' = [failed EXCEPT ![s] = FALSE]
      /\ UNCHANGED <<proto, known, epoch, rebooted, mapsHeard>>
  BY DEF Maps!Granted, Maps!Over
<1>3. /\ mapsCall' = mapsCall \/ (mapsCall' = "up" /\ \A t \in MapsSlot : granted'[t])
      /\ estabh' \in BOOLEAN
  <2>1. estabh \in BOOLEAN /\ Maps!IsComplete(granted')
    BY <1>1, Zenon DEF Maps!Granted, Maps!TypeOK
  <2>. QED BY <2>1 DEF Maps!IsComplete, Maps!Complete
<1>4. Maps!TypeOK'
  <2>1. {estabh, known, rebooted, mapsHeard}' \subseteq BOOLEAN
    BY <1>1, <1>2, <1>3, MapsTypes, Zenon
  <2>. QED BY <1>1, <1>2, <1>3, <2>1, MapsTimes, MapsTypes DEF Maps!TypeOK
<1>5. Epochs'
  BY <1>1, <1>2, MapsTypes DEF Epochs
<1>6. mapsCall' = "up" => \A t \in MapsSlot : granted'[t]
  BY <1>1, <1>2, <1>3, MapsTypes
<1>7. ASSUME NEW t \in MapsSlot PROVE LastsIfGranted(t)'
  <2>1. CASE t = s
    <3>1. mapsReq'[s] = -1 /\ mapsTimer'[s] = Renew /\ lease'[s] = Life
      BY <1>1, <1>2, MapsTypes
    <3>. QED BY <2>1, <3>1, MapsTimes DEF LastsIfGranted, Lasts
  <2>2. CASE t # s
    <3>1. seen'[t[1]] = seen[t[1]] \/ ~Single(t)
      BY <1>1, <1>2, <2>2, MapsTypes DEF Single
    <3>2. /\ mapsReq'[t] = mapsReq[t] /\ mapsTimer'[t] = mapsTimer[t] /\ lease'[t] = lease[t]
          /\ (granted'[t] <=> granted[t]) /\ (failed'[t] <=> failed[t])
      BY <1>1, <1>2, <2>2, MapsTypes
    <3>. QED BY <1>1, <1>2, <1>3, <3>1, <3>2, MapsKept
  <2>. QED BY <2>1, <2>2
<1>. QED BY <1>4, <1>5, <1>6, <1>7 DEF MapsInv

\* A request that fails, when it is sent or later.
LEMMA MapsFails ==
    ASSUME MapsInv, NEW s \in MapsSlot, Maps!Refused(s) \/ Maps!SendFailing(s) PROVE MapsInv'
<1>1. Maps!TypeOK /\ Epochs /\ (mapsCall = "up" => \A t \in MapsSlot : granted[t])
      /\ \A t \in MapsSlot : LastsIfGranted(t)
  BY DEF MapsInv
<1>2. /\ mapsReq' = [mapsReq EXCEPT ![s] = -1] \/ (mapsReq' = mapsReq /\ mapsTimer[s] = 0)
      /\ \/ mapsTimer' = mapsTimer /\ mapsReq' = [mapsReq EXCEPT ![s] = -1]
         \/ mapsTimer' = [mapsTimer EXCEPT ![s] = Renew] /\ mapsReq' = [mapsReq EXCEPT ![s] = -1]
         \/ mapsTimer' = [mapsTimer EXCEPT ![s] = -1]
      /\ held' = held \/ \E h \in {"none", "freed"} : held' = [held EXCEPT ![s] = h]
      /\ failed' = [failed EXCEPT ![s] = TRUE]
      /\ UNCHANGED <<proto, known, granted, lease, address, epoch, seen, rebooted, mapsHeard>>
  BY DEF Maps!Refused, Maps!SendFailing, Maps!Over
<1>3. mapsCall' \in {mapsCall, "closed"} /\ estabh' \in BOOLEAN
  <2>1. Maps!Complete(TRUE)
    BY Zenon DEF Maps!Refused, Maps!SendFailing
  <2>. QED BY <2>1 DEF Maps!Complete
<1>4. Maps!TypeOK'
  <2>1. {estabh, known, rebooted, mapsHeard}' \subseteq BOOLEAN
    BY <1>1, <1>2, <1>3, MapsTypes, Zenon
  <2>. QED BY <1>1, <1>2, <1>3, <2>1, MapsTimes, MapsTypes DEF Maps!TypeOK
<1>5. Epochs' /\ (mapsCall' = "up" => \A t \in MapsSlot : granted'[t])
  BY <1>1, <1>2, <1>3 DEF Epochs
<1>6. ASSUME NEW t \in MapsSlot PROVE LastsIfGranted(t)'
  <2>1. CASE t = s
    BY <1>1, <1>2, <2>1, MapsTypes DEF LastsIfGranted
  <2>2. CASE t # s
    <3>1. /\ mapsReq'[t] = mapsReq[t] /\ mapsTimer'[t] = mapsTimer[t] /\ lease'[t] = lease[t]
          /\ (granted'[t] <=> granted[t]) /\ (failed'[t] <=> failed[t])
      BY <1>1, <1>2, <2>2, MapsTypes
    <3>2. (mapsCall = "closed" => mapsCall' = "closed") /\ (rebooted' <=> rebooted)
          /\ epoch' = epoch /\ seen'[t[1]] = seen[t[1]]
      BY <1>2, <1>3
    <3>. QED BY <1>1, <3>1, <3>2, MapsKept
  <2>. QED BY <2>1, <2>2
<1>. QED BY <1>4, <1>5, <1>6 DEF MapsInv

\* The mapping is asked for again, in time.
LEMMA MapsRenewed == ASSUME MapsInv, NEW s \in MapsSlot, Maps!RefreshTimeout(s) PROVE MapsInv'
<1>1. Maps!TypeOK /\ Epochs /\ (mapsCall = "up" => \A t \in MapsSlot : granted[t])
      /\ \A t \in MapsSlot : LastsIfGranted(t)
  BY DEF MapsInv
<1>2. /\ mapsTimer[s] = 0 /\ mapsTimer' = [mapsTimer EXCEPT ![s] = -1]
      /\ mapsReq' = [mapsReq EXCEPT ![s] = 0] /\ held' = [held EXCEPT ![s] = "request"]
      /\ UNCHANGED <<proto, mapsCall, estabh, known, granted, lease, address, epoch, seen,
            rebooted, mapsHeard, failed>>
  BY DEF Maps!RefreshTimeout
<1>4. Maps!TypeOK'
  <2>1. {estabh, known, rebooted, mapsHeard}' \subseteq BOOLEAN
    BY <1>1, <1>2, MapsTypes, Zenon
  <2>. QED BY <1>1, <1>2, <2>1, MapsTimes, MapsTypes DEF Maps!TypeOK
<1>5. Epochs' /\ (mapsCall' = "up" => \A t \in MapsSlot : granted'[t])
  BY <1>1, <1>2 DEF Epochs
<1>6. ASSUME NEW t \in MapsSlot PROVE LastsIfGranted(t)'
  <2>1. CASE t = s
    <3>1. mapsReq'[s] = 0 /\ mapsTimer'[s] = -1 /\ mapsReq[s] = -1 /\ lease'[s] = lease[s]
          /\ (granted'[s] <=> granted[s]) /\ (failed'[s] <=> failed[s]) /\ mapsCall' = mapsCall
      BY <1>1, <1>2, MapsTypes DEF LastsIfGranted
    <3>2. ASSUME Lasts(s) PROVE Lasts(s)'
      BY <1>1, <1>2, <3>1, <3>2, MapsTypes, MapsTimes DEF Lasts
    <3>. QED BY <1>1, <2>1, <3>1, <3>2 DEF LastsIfGranted
  <2>2. CASE t # s
    <3>1. /\ mapsReq'[t] = mapsReq[t] /\ mapsTimer'[t] = mapsTimer[t] /\ lease'[t] = lease[t]
          /\ (granted'[t] <=> granted[t]) /\ (failed'[t] <=> failed[t])
      BY <1>1, <1>2, <2>2, MapsTypes
    <3>. QED BY <1>1, <1>2, <3>1, MapsKept
  <2>. QED BY <2>1, <2>2
<1>. QED BY <1>4, <1>5, <1>6 DEF MapsInv

\* The server is restarted: what it had granted is lost, and its epoch shows it.
LEMMA MapsReboot == ASSUME MapsInv, Maps!Reboot PROVE MapsInv'
<1>1. Maps!TypeOK /\ Epochs /\ (mapsCall = "up" => \A t \in MapsSlot : granted[t])
      /\ \A t \in MapsSlot : LastsIfGranted(t)
  BY DEF MapsInv
<1>2. /\ proto = "pcp" /\ mapsCall = "up" /\ ~rebooted /\ rebooted' = TRUE /\ mapsHeard' = FALSE
      /\ epoch' = 0 /\ lease' = [s \in MapsSlot |-> 0]
      /\ UNCHANGED <<proto, mapsCall, estabh, known, mapsReq, held, granted, mapsTimer, address,
            seen, failed>>
  BY DEF Maps!Reboot, Maps!All
<1>3. Maps!TypeOK'
  <2>1. {estabh, known, rebooted, mapsHeard}' \subseteq BOOLEAN
    BY <1>1, <1>2, MapsTypes, Zenon
  <2>. QED BY <1>1, <1>2, <2>1, MapsTimes, MapsTypes DEF Maps!TypeOK
<1>4. Epochs' /\ (mapsCall' = "up" => \A t \in MapsSlot : granted'[t])
  <2>1. \A s \in MapsSlot : seen[s[1]] = Uptime
    BY <1>1, <1>2 DEF Epochs
  <2>2. epoch' < Uptime
    BY <1>2, MapsTimes
  <2>. QED BY <1>1, <1>2, <2>1, <2>2 DEF Epochs
<1>5. ASSUME NEW s \in MapsSlot PROVE LastsIfGranted(s)'
  <2>1. epoch' < seen'[s[1]]
    BY <1>1, <1>2, MapsTimes DEF Epochs
  <2>2. Lasts(s)'
    BY <1>2, <2>1 DEF Lasts
  <2>. QED BY <1>1, <1>2, <2>2 DEF LastsIfGranted
<1>. QED BY <1>3, <1>4, <1>5 DEF MapsInv

\* Its announcement: all components of a stream with a later epoch ask again.
LEMMA MapsAnnounced == ASSUME MapsInv, Maps!Announce PROVE MapsInv'
<1>1. Maps!TypeOK /\ Epochs /\ (mapsCall = "up" => \A t \in MapsSlot : granted[t])
      /\ \A t \in MapsSlot : LastsIfGranted(t)
  BY DEF MapsInv
<1>2. /\ proto = "pcp" /\ mapsCall # "closed"
      /\ mapsReq' = [s \in MapsSlot |-> IF epoch < seen[s[1]] THEN 0 ELSE mapsReq[s]]
      /\ mapsTimer' = [s \in MapsSlot |-> IF epoch < seen[s[1]] THEN -1 ELSE mapsTimer[s]]
      /\ seen' = [m \in Maps!Streams |-> epoch] /\ mapsHeard' = rebooted
      /\ UNCHANGED <<proto, mapsCall, estabh, known, held, granted, lease, address, epoch,
            rebooted, failed>>
  BY DEF Maps!Announce
<1>3. Maps!TypeOK'
  <2>1. {estabh, known, rebooted, mapsHeard}' \subseteq BOOLEAN
    BY <1>1, <1>2, MapsTypes, Zenon
  <2>. QED BY <1>1, <1>2, <2>1, MapsTimes, MapsTypes DEF Maps!TypeOK
<1>4. Epochs' /\ (mapsCall' = "up" => \A t \in MapsSlot : granted'[t])
  BY <1>1, <1>2, MapsTypes DEF Epochs
<1>5. ASSUME NEW s \in MapsSlot PROVE LastsIfGranted(s)'
  <2>1. CASE epoch < seen[s[1]]
    <3>1. rebooted
      BY <1>1, <2>1, MapsTypes, MapsTimes DEF Epochs
    <3>2. mapsReq'[s] = 0 /\ mapsTimer'[s] = -1 /\ rebooted'
      BY <1>2, <2>1, <3>1
    <3>. QED BY <3>2 DEF LastsIfGranted, Lasts
  <2>2. CASE ~(epoch < seen[s[1]])
    <3>1. mapsReq'[s] = mapsReq[s] /\ mapsTimer'[s] = mapsTimer[s] /\ lease' = lease
      BY <1>2, <2>2
    <3>. QED BY <1>1, <1>2, <2>2, <3>1 DEF LastsIfGranted, Lasts, Single
  <2>. QED BY <2>1, <2>2
<1>. QED BY <1>3, <1>4, <1>5 DEF MapsInv

\* The call ends.
LEMMA MapsDestroyed == ASSUME MapsInv, Maps!Destroy PROVE MapsInv'
<1>1. Maps!TypeOK /\ Epochs
  BY DEF MapsInv
<1>2. /\ mapsCall' = "closed" /\ mapsReq' = [s \in MapsSlot |-> -1] /\
         mapsTimer' = [s \in MapsSlot |-> -1]
      /\ held' = [s \in MapsSlot |-> "none"] /\ lease' \in [MapsSlot -> 0 .. Life]
      /\ UNCHANGED <<proto, estabh, known, granted, address, epoch, seen, rebooted, mapsHeard,
            failed>>
  BY <1>1, MapsTypes, MapsTimes DEF Maps!Destroy, Maps!All
<1>3. Maps!TypeOK'
  <2>1. {estabh, known, rebooted, mapsHeard}' \subseteq BOOLEAN
    BY <1>1, <1>2, MapsTypes, Zenon
  <2>. QED BY <1>1, <1>2, <2>1, MapsTimes, MapsTypes DEF Maps!TypeOK
<1>4. Epochs'
  BY <1>1, <1>2 DEF Epochs
<1>5. \A s \in MapsSlot : LastsIfGranted(s)'
  BY <1>2 DEF LastsIfGranted
<1>. QED BY <1>2, <1>3, <1>4, <1>5 DEF MapsInv

\* Time passes.
LEMMA MapsTick == ASSUME MapsInv, Maps!Tick PROVE MapsInv'
<1>1. Maps!TypeOK /\ Epochs /\ (mapsCall = "up" => \A t \in MapsSlot : granted[t])
      /\ \A t \in MapsSlot : LastsIfGranted(t)
  BY DEF MapsInv
<1>2. /\ mapsCall # "closed" /\ \A s \in MapsSlot : mapsTimer[s] # 0 /\ mapsReq[s] # GiveUp
      /\ mapsTimer' = [s \in MapsSlot |-> IF mapsTimer[s] = -1 THEN -1 ELSE mapsTimer[s] - 1]
      /\ mapsReq' = [s \in MapsSlot |-> IF mapsReq[s] = -1 THEN -1 ELSE mapsReq[s] + 1]
      /\ lease' = [s \in MapsSlot |-> IF lease[s] = 0 THEN 0 ELSE lease[s] - 1]
      /\ epoch' = IF proto = "pcp" /\ epoch < Uptime - 1 THEN epoch + 1 ELSE epoch
      /\ failed' = [s \in MapsSlot |-> failed[s] \/ mapsReq'[s] > Delay]
      /\ UNCHANGED <<proto, mapsCall, estabh, known, held, granted, address, seen, rebooted,
            mapsHeard>>
  BY DEF Maps!Tick
<1>3. Maps!TypeOK'
  <2>1. {estabh, known, rebooted, mapsHeard}' \subseteq BOOLEAN
    BY <1>1, <1>2, MapsTypes, Zenon
  <2>2. failed' \in [MapsSlot -> BOOLEAN]
    BY <1>2
  <2>3. mapsReq' \in [MapsSlot -> -1 .. GiveUp] /\ mapsTimer' \in [MapsSlot -> -1 .. Renew]
        /\ lease' \in [MapsSlot -> 0 .. Life] /\ epoch' \in 0 .. Uptime
    BY <1>1, <1>2, MapsTypes, MapsTimes
  <2>. QED BY <1>1, <1>2, <2>1, <2>2, <2>3 DEF Maps!TypeOK
<1>4. Epochs' /\ (mapsCall' = "up" => \A t \in MapsSlot : granted'[t])
  <2>1. epoch' \in {epoch, epoch + 1} /\ (~rebooted => epoch' = epoch) /\ epoch \in Int
    BY <1>1, <1>2, MapsTypes, MapsTimes DEF Epochs
  <2>2. \A s \in MapsSlot : seen[s[1]] \in Int
    BY <1>1, MapsTypes
  <2>3. rebooted => epoch' < Uptime
    BY <1>1, <1>2, <2>1, MapsTimes DEF Epochs
  <2>4. rebooted => \A s \in MapsSlot : seen[s[1]] = Uptime \/ seen[s[1]] <= epoch'
    BY <1>1, <2>1, <2>2 DEF Epochs
  <2>5. mapsHeard => rebooted /\ \A s \in MapsSlot : seen[s[1]] <= epoch'
    BY <1>1, <2>1, <2>2 DEF Epochs
  <2>. QED BY <1>1, <1>2, <2>1, <2>3, <2>4, <2>5 DEF Epochs
<1>5. ASSUME NEW s \in MapsSlot PROVE LastsIfGranted(s)'
  <2>1. mapsReq'[s] = -1 \/ mapsTimer'[s] = -1
    BY <1>1, <1>2, MapsTypes DEF LastsIfGranted
  <2>2. ASSUME granted'[s], ~failed'[s] PROVE Lasts(s)'
    <3>1. granted[s] /\ ~failed[s] /\ mapsReq'[s] <= Delay
      BY <1>1, <1>2, <2>2, MapsTypes, MapsTimes
    <3>2. Lasts(s)
      BY <1>1, <1>2, <3>1 DEF LastsIfGranted
    <3>. DEFINE q == mapsReq[s]  t == mapsTimer[s]  l == lease[s]
    <3>3. q \in Int /\ t \in Int /\ l \in Nat /\ q >= -1 /\ t >= -1 /\ t # 0
      BY <1>1, <1>2, MapsTypes
    <3>4. /\ mapsReq'[s] = IF q = -1 THEN -1 ELSE q + 1
          /\ mapsTimer'[s] = IF t = -1 THEN -1 ELSE t - 1
          /\ lease'[s] = IF l = 0 THEN 0 ELSE l - 1
      BY <1>2
    <3>5. CASE q # -1 /\ (rebooted \/ (q <= Delay /\ l + q >= Life - Renew))
      <4>1. rebooted \/ l > 0
        BY <3>3, <3>5, MapsTimes
      <4>. QED BY <1>2, <3>1, <3>3, <3>4, <3>5, <4>1, MapsTimes DEF Lasts
    <3>6. CASE t # -1 /\ l - t >= Life - Renew
      BY <3>3, <3>4, <3>6, MapsTimes DEF Lasts
    <3>7. CASE rebooted /\ ~Single(s)
      BY <1>2, <3>7 DEF Lasts, Single
    <3>8. CASE rebooted /\ epoch < seen[s[1]]
      <4>1. seen[s[1]] = Uptime /\ epoch' < Uptime
        BY <1>1, <1>2, <3>8, MapsTypes, MapsTimes DEF Epochs
      <4>. QED BY <1>2, <3>8, <4>1 DEF Lasts
    <3>. QED BY <3>2, <3>5, <3>6, <3>7, <3>8 DEF Lasts
  <2>. QED BY <2>1, <2>2 DEF LastsIfGranted
<1>. QED BY <1>3, <1>4, <1>5 DEF MapsInv

\* Every step keeps the invariant.
LEMMA MapsNext == MapsInv /\ [Maps!Next]_mapsVars => MapsInv'
<1> SUFFICES ASSUME MapsInv, [Maps!Next]_mapsVars PROVE MapsInv'
  OBVIOUS
<1>1. CASE UNCHANGED mapsVars
  BY <1>1, Zenon DEF mapsVars, MapsInv, Maps!TypeOK, Epochs, LastsIfGranted, Lasts
<1>2. CASE Maps!Extaddr
  <2>1. /\ known' = TRUE
        /\ UNCHANGED <<proto, mapsCall, estabh, mapsReq, held, granted, mapsTimer, lease,
              address, epoch, seen, rebooted, mapsHeard, failed>>
    BY <1>2, Zenon DEF Maps!Extaddr
  <2>. QED BY <2>1, Zenon DEF MapsInv, Maps!TypeOK, Epochs, LastsIfGranted, Lasts
<1>. QED BY <1>1, <1>2, MapsGranted, MapsFails, MapsRenewed, MapsReboot, MapsAnnounced,
      MapsDestroyed,
        MapsTick DEF Maps!Next

\* The invariant says what AddressesAreRight does of the mappings.
LEMMA MapsSafe == MapsInv => Maps!MappingsLast /\ Maps!RebootIsFoundSingly
<1> SUFFICES ASSUME MapsInv PROVE Maps!MappingsLast /\ Maps!RebootIsFoundSingly
  OBVIOUS
<1>1. Maps!TypeOK /\ Epochs
  BY DEF MapsInv
<1>2. ASSUME NEW s \in MapsSlot, mapsCall = "up" PROVE failed[s] \/ Lasts(s)
  BY <1>2 DEF MapsInv, LastsIfGranted
<1>3. ASSUME NEW s \in MapsSlot
      PROVE  lease[s] \in Int /\ mapsReq[s] \in Int /\ mapsTimer[s] \in -1 .. Renew /\
            seen[s[1]] \in Int
             /\ epoch \in Int
  BY <1>1, MapsTypes
<1>4. Maps!MappingsLast
  BY <1>2, <1>3, MapsTimes DEF Maps!MappingsLast, Lasts
<1>5. ASSUME NEW s \in MapsSlot, mapsHeard, mapsCall = "up", Single(s), ~failed[s], mapsReq[s] = -1
      PROVE  lease[s] > 0
  <2>1. seen[s[1]] <= epoch
    BY <1>1, <1>5 DEF Epochs
  <2>2. mapsTimer[s] # -1 /\ lease[s] - mapsTimer[s] >= Life - Renew
    BY <1>2, <1>3, <1>5, <2>1 DEF Lasts
  <2>3. lease[s] \in Int /\ mapsTimer[s] \in -1 .. Renew
    BY <1>3
  <2>4. Life - Renew \in Int /\ Life - Renew > 0 /\ Renew \in Nat
    BY MapsTimes
  <2>5. mapsTimer[s] \in Nat
    BY <2>2, <2>3, <2>4
  <2>. QED BY <2>2, <2>3, <2>4, <2>5
<1>6. Maps!RebootIsFoundSingly
  BY <1>5 DEF Maps!RebootIsFoundSingly, Single
<1>. QED BY <1>4, <1>6

-----------------------------------------------------------------------------
(* Proof about SdesCrypto, for any number of packets. *)

\* What is assumed of the peers: none takes its keys away in a call. With module srtp, whose
\* contexts stay as they are, none changes them, and one that sends before its answer does not
\* add them later. Only there do sequence numbers wrap: libsrtp's contexts begin anew.
SdesSteady ==
    /\ \A k \in SdesKinds : "drop" \notin Changes[k]
    /\ "srtp" \in SdesKinds => Changes["srtp"] \subseteq {"add"}
    /\ \A k \in Early : k = "srtp" /\ "add" \notin Changes[k]
    /\ Wraps \subseteq {"srtp"}

\* The types.
SdesTyped ==
    /\ kind \in SdesKinds /\ phase \in {"idle", "offered", "answered", "answering", "agreed"}
    /\ {gotSdp, useSrtp} \subseteq BOOLEAN /\ suite \in Sdes!Suites
    /\ taken \in Sdes!Protection \cup {Sdes!Clear} /\ peer \in Sdes!Protection \cup {Sdes!Clear}
    /\ net \in Seq(Sdes!Protection \cup {Sdes!Clear}) /\ Len(net) <= MaxPackets
    /\ sdesHeard \in {"none", "clear"}

\* What we send with has the suite of what we receive with, which our SDP names.
SdesContexts ==
    /\ sdesRx \in Sdes!Protection \cup {Sdes!Clear}
    /\ useSrtp <=> sdesRx # Sdes!Clear
    /\ sdesTx = IF sdesRx = Sdes!Clear THEN Sdes!Clear ELSE Sdes!Ours(sdesRx[1])
    /\ sdesRx # Sdes!Clear => gotSdp /\ suite = sdesRx[1]
    /\ roc \in {0, 1} /\ peerRoc = roc /\ (kind # "srtp" => roc = 0)

\* The peer has what we have, unless an answer is on its way.
SdesPeer ==
    /\ phase \notin {"answered", "answering"} => sdesTx = reads /\ sdesRx = peer
    /\ phase = "answering" => sdesRx = taken
    /\ phase = "answered" =>
          /\ reads = IF peer = Sdes!Clear THEN Sdes!Clear ELSE Sdes!Ours(peer[1])
          /\ peer = Sdes!Clear => sdesRx = Sdes!Clear
          /\ (kind = "srtp" /\ sdesRx # Sdes!Clear) => peer = sdesRx
          /\ (peer # Sdes!Clear /\ sdesRx = Sdes!Clear) => ~gotSdp \/ "add" \in Changes[kind]
    /\ reads \in {Sdes!Ours(s) : s \in Sdes!Suites} \cup {Sdes!Clear}

\* Packets that cross the answer are dropped: there was no SDP yet.
SdesEarly == kind = "srtp" /\ ~gotSdp /\ phase = "answered" /\ peer # Sdes!Clear
SdesPackets == \A i \in 1 .. Len(net) : net[i] # Sdes!Clear => useSrtp \/ SdesEarly

\* The inductive invariant.
SdesInv == SdesTyped /\ SdesContexts /\ SdesPeer /\ SdesPackets

\* The types, for the provers.
LEMMA SdesBits == SdesInv => gotSdp \in BOOLEAN /\ useSrtp \in BOOLEAN
BY Zenon DEF SdesInv, SdesTyped

\* What protects is not clear.
LEMMA SdesKeyed ==
    /\ \A p \in Sdes!Protection : p # Sdes!Clear /\ p[1] \in Sdes!Suites
    /\ \A s \in Sdes!Suites : Sdes!Ours(s) # Sdes!Clear
    /\ \A p, q \in Sdes!Protection : p[1] = q[1] /\ p[2] = q[2] => p = q
BY DEF Sdes!Protection, Sdes!Clear, Sdes!Suites, Sdes!Ours

\* The attribute of the peer that is supported is taken.
LEMMA SdesAlloc ==
    ASSUME NEW p \in Sdes!Protection \cup {Sdes!Clear}, NEW a \in Sdes!Attrs(p), Sdes!Alloc(a)
    PROVE  /\ gotSdp' = TRUE /\ taken' = p
           /\ p = Sdes!Clear => UNCHANGED <<useSrtp, suite, sdesTx, sdesRx, roc>>
           /\ p # Sdes!Clear => suite' = p[1] /\ Sdes!StartCrypto(p)
<1>1. CASE p = Sdes!Clear
  <2>1. a = <<>>
    BY <1>1 DEF Sdes!Attrs
  <2>2. Sdes!Supported(a) = {}
    BY <2>1 DEF Sdes!Supported
  <2>. QED BY <1>1, <2>2 DEF Sdes!Alloc
<1>2. CASE p # Sdes!Clear
  <2>1. p \in Sdes!Protection /\ p[1] \in {"80", "32"}
    BY <1>2, SdesKeyed DEF Sdes!Suites
  <2>2. PICK n \in {1, 2} : Sdes!Supported(a) = {n} /\ a[n] = p
    <3>1. a = <<p>> \/ a = <<<<"256", 1>>, p>>
      BY <1>2 DEF Sdes!Attrs
    <3>2. CASE a = <<p>>
      BY <2>1, <3>2 DEF Sdes!Supported, Sdes!Suites
    <3>3. CASE a = <<<<"256", 1>>, p>>
      <4>1. DOMAIN a = {1, 2} /\ a[1] = <<"256", 1>> /\ a[2] = p
        BY <3>3
      <4>2. a[1][1] = "256"
        BY <4>1
      <4>. QED BY <2>1, <4>1, <4>2 DEF Sdes!Supported, Sdes!Suites
    <3>. QED BY <3>1, <3>2, <3>3
  <2>3. (CHOOSE i \in {n} : \A j \in {n} : i <= j) = n
    OBVIOUS
  <2>. QED BY <1>2, <2>2, <2>3 DEF Sdes!Alloc
<1>. QED BY <1>1, <1>2

\* What a steady peer may put in.
LEMMA SdesNewFrom ==
    ASSUME SdesSteady, SdesInv, NEW p \in Sdes!NewFrom(peer)
    PROVE  /\ p \in Sdes!Protection \cup {Sdes!Clear}
           /\ p = Sdes!Clear => peer = Sdes!Clear
           /\ (kind = "srtp" /\ peer # Sdes!Clear) => p = peer
           /\ (p # Sdes!Clear /\ peer = Sdes!Clear) => ~gotSdp \/ "add" \in Changes[kind]
<1>1. kind \in SdesKinds /\ peer \in Sdes!Protection \cup {Sdes!Clear}
  BY DEF SdesInv, SdesTyped
<1>2. p \in Sdes!Protection \cup {Sdes!Clear} /\ (p = Sdes!Clear => peer = Sdes!Clear)
  BY <1>1 DEF SdesSteady, Sdes!NewFrom
<1>3. ASSUME kind = "srtp", peer # Sdes!Clear PROVE p = peer
  <2>1. "key" \notin Changes[kind] /\ "suite" \notin Changes[kind]
    BY <1>1, <1>3 DEF SdesSteady
  <2>2. p # Sdes!Clear /\ p \in Sdes!Protection /\ peer \in Sdes!Protection
    BY <1>1, <1>2, <1>3
  <2>. QED BY <1>3, <2>1, <2>2, SdesKeyed DEF Sdes!NewFrom
<1>. QED BY <1>2, <1>3 DEF Sdes!NewFrom

\* The contexts after an SDP with p: they are those of p.
LEMMA SdesStarts ==
    ASSUME SdesInv, NEW p \in Sdes!Protection \cup {Sdes!Clear}, NEW a \in Sdes!Attrs(p),
          Sdes!Alloc(a),
           p = Sdes!Clear => sdesRx = Sdes!Clear,
           (kind = "srtp" /\ sdesRx # Sdes!Clear) => p = sdesRx,
           UNCHANGED <<kind, peerRoc>>
    PROVE  /\ SdesContexts' /\ sdesRx' = p /\ taken' = p /\ {gotSdp, useSrtp}' \subseteq BOOLEAN
           /\ suite' \in Sdes!Suites
<1>1. useSrtp \in BOOLEAN /\ SdesContexts /\ suite \in Sdes!Suites
  BY SdesBits DEF SdesInv, SdesTyped
<1>2. CASE p = Sdes!Clear
  <2>1. gotSdp' = TRUE /\ taken' = p /\ UNCHANGED <<useSrtp, suite, sdesTx, sdesRx, roc>>
    BY <1>2, SdesAlloc
  <2>. QED BY <1>1, <1>2, <2>1 DEF SdesContexts
<1>3. CASE p # Sdes!Clear
  <2>1. gotSdp' = TRUE /\ taken' = p /\ suite' = p[1] /\ useSrtp' = TRUE
    BY <1>3, SdesAlloc DEF Sdes!StartCrypto
  <2>2. p \in Sdes!Protection /\ p[1] \in Sdes!Suites
    BY <1>3, SdesKeyed
  <2>3. sdesRx' = p /\ sdesTx' = Sdes!Ours(p[1]) /\ roc' \in {0, 1} /\ peerRoc' = roc' /\
        (kind # "srtp" => roc' = 0)
    <3>1. CASE kind = "srtp"
      <4>1. /\ sdesTx' = (IF sdesTx = Sdes!Clear THEN Sdes!Ours(p[1]) ELSE sdesTx)
            /\ sdesRx' = (IF sdesRx = Sdes!Clear THEN p ELSE sdesRx) /\ UNCHANGED roc
        BY <1>3, <3>1, SdesAlloc DEF Sdes!StartCrypto, Sdes!SrtpAlloc
      <4>2. sdesRx = Sdes!Clear => sdesTx = Sdes!Clear
        BY <1>1 DEF SdesContexts
      <4>3. sdesRx # Sdes!Clear => sdesTx = Sdes!Ours(p[1]) /\ sdesTx # Sdes!Clear /\ p = sdesRx
        BY <1>1, <2>2, <3>1, SdesKeyed DEF SdesContexts
      <4>. QED BY <1>1, <3>1, <4>1, <4>2, <4>3 DEF SdesContexts
    <3>2. CASE kind # "srtp"
      <4>1. sdesTx' = Sdes!Ours(p[1]) /\ sdesRx' = p /\ roc' = 0
        BY <1>3, <3>2, SdesAlloc DEF Sdes!StartCrypto, Sdes!LibsrtpCreate
      <4>. QED BY <1>1, <3>2, <4>1 DEF SdesContexts
    <3>. QED BY <3>1, <3>2
  <2>. QED BY <1>3, <2>1, <2>2, <2>3 DEF SdesContexts
<1>. QED BY <1>2, <1>3

\* There was no SDP yet.
LEMMA SdesInit == Sdes!Init => SdesInv
<1> SUFFICES ASSUME Sdes!Init PROVE SdesInv
  OBVIOUS
<1>1. {gotSdp, useSrtp} \subseteq BOOLEAN
  BY Zenon DEF Sdes!Init
<1>2. MaxPackets \in Nat /\ net = <<>>
  BY PartsAssumption DEF Sdes!SdesCryptoAssumption, Sdes!Init
<1>3. SdesTyped
  BY <1>1, <1>2 DEF Sdes!Init, SdesTyped, Sdes!Suites
<1>4. SdesContexts /\ SdesPeer
  BY DEF Sdes!Init, SdesContexts, SdesPeer
<1>5. SdesPackets
  BY <1>2 DEF SdesPackets
<1>. QED BY <1>3, <1>4, <1>5 DEF SdesInv

\* Every step keeps the invariant.
LEMMA SdesNext == ASSUME SdesSteady PROVE SdesInv /\ [Sdes!Next]_sdesVars => SdesInv'
<1> SUFFICES ASSUME SdesInv, [Sdes!Next]_sdesVars PROVE SdesInv'
  OBVIOUS
<1>0. SdesTyped /\ SdesContexts /\ SdesPeer /\ SdesPackets /\ gotSdp \in BOOLEAN /\
      useSrtp \in BOOLEAN
  BY SdesBits DEF SdesInv
<1>1. CASE UNCHANGED sdesVars
  BY <1>1, Zenon DEF SdesInv, SdesTyped, SdesContexts, SdesPeer, SdesPackets, SdesEarly, sdesVars
<1>2. CASE Sdes!Offer
  <2>1. phase' = "offered" /\ phase \in {"idle", "agreed"}
        /\ UNCHANGED <<kind, gotSdp, useSrtp, suite, sdesTx, sdesRx, roc, taken, peer, reads,
              peerRoc, net,
                      sdesHeard>>
    BY <1>2 DEF Sdes!Offer
  <2>2. SdesTyped' /\ SdesContexts'
    BY <1>0, <2>1 DEF SdesTyped, SdesContexts
  <2>3. SdesPeer'
    BY <1>0, <2>1 DEF SdesPeer
  <2>4. SdesPackets'
    BY <1>0, <2>1 DEF SdesPackets, SdesEarly
  <2>. QED BY <2>2, <2>3, <2>4 DEF SdesInv
<1>3. ASSUME NEW p \in Sdes!Protection \cup {Sdes!Clear}, Sdes!PeerAnswers(p) PROVE SdesInv'
  <2>1. /\ phase' = "answered" /\ phase = "offered" /\ peer' = p /\ p \in Sdes!NewFrom(peer)
        /\ p # Sdes!Clear => p[1] = suite
        /\ reads' = (IF p = Sdes!Clear THEN Sdes!Clear ELSE Sdes!Ours(suite))
        /\ UNCHANGED <<kind, gotSdp, useSrtp, suite, sdesTx, sdesRx, roc, taken, peerRoc, net,
              sdesHeard>>
    BY <1>3 DEF Sdes!PeerAnswers
  <2>2. SdesTyped' /\ SdesContexts'
    BY <1>0, <1>3, <2>1 DEF SdesTyped, SdesContexts
  <2>3. sdesRx = peer
    BY <1>0, <2>1 DEF SdesPeer
  <2>4. /\ p = Sdes!Clear => peer = Sdes!Clear
        /\ (kind = "srtp" /\ peer # Sdes!Clear) => p = peer
        /\ (p # Sdes!Clear /\ peer = Sdes!Clear) => ~gotSdp \/ "add" \in Changes[kind]
    BY <2>1, SdesNewFrom
  <2>5. suite \in Sdes!Suites
    BY <1>0 DEF SdesTyped
  <2>6. SdesPeer'
    BY <2>1, <2>3, <2>4, <2>5 DEF SdesPeer
  <2>7. SdesPackets'
    BY <1>0, <2>1 DEF SdesPackets, SdesEarly
  <2>. QED BY <2>2, <2>6, <2>7 DEF SdesInv
<1>4. CASE Sdes!Answered
  <2>1. /\ phase = "answered" /\ phase' = "agreed" /\ UNCHANGED <<kind, peer, reads, peerRoc,
           net, sdesHeard>>
    BY <1>4 DEF Sdes!Answered
  <2>2. PICK a \in Sdes!Attrs(peer) : Sdes!Alloc(a)
    BY <1>4 DEF Sdes!Answered
  <2>3. peer \in Sdes!Protection \cup {Sdes!Clear}
    BY <1>0 DEF SdesTyped
  <2>4. /\ reads = IF peer = Sdes!Clear THEN Sdes!Clear ELSE Sdes!Ours(peer[1])
        /\ peer = Sdes!Clear => sdesRx = Sdes!Clear
        /\ (kind = "srtp" /\ sdesRx # Sdes!Clear) => peer = sdesRx
    BY <1>0, <2>1 DEF SdesPeer
  <2>5. /\ SdesContexts' /\ sdesRx' = peer /\ taken' = peer /\ {gotSdp, useSrtp}' \subseteq BOOLEAN
        /\ suite' \in Sdes!Suites
    BY <2>1, <2>2, <2>3, <2>4, SdesStarts
  <2>6. SdesTyped'
    BY <1>0, <2>1, <2>3, <2>5 DEF SdesTyped
  <2>7. sdesTx' = reads
    BY <2>4, <2>5 DEF SdesContexts
  <2>8. SdesPeer'
    BY <1>0, <2>1, <2>5, <2>7 DEF SdesPeer
  <2>9. peer # Sdes!Clear => useSrtp'
    BY <2>5 DEF SdesContexts
  <2>10. useSrtp => useSrtp'
    BY <1>0, <2>4, <2>9 DEF SdesContexts
  <2>11. SdesPackets'
    BY <1>0, <2>1, <2>9, <2>10 DEF SdesPackets, SdesEarly
  <2>. QED BY <2>5, <2>6, <2>8, <2>11 DEF SdesInv
<1>5. ASSUME NEW p \in Sdes!Protection \cup {Sdes!Clear}, Sdes!PeerOffers(p) PROVE SdesInv'
  <2>1. /\ phase \in {"idle", "agreed"} /\ p \in Sdes!NewFrom(peer) /\ phase' = "answering"
        /\ UNCHANGED <<kind, peer, reads, peerRoc, net, sdesHeard>>
    BY <1>5 DEF Sdes!PeerOffers
  <2>2. PICK a \in Sdes!Attrs(p) : Sdes!Alloc(a)
    BY <1>5 DEF Sdes!PeerOffers
  <2>3. sdesRx = peer
    BY <1>0, <2>1 DEF SdesPeer
  <2>4. /\ p = Sdes!Clear => sdesRx = Sdes!Clear
        /\ (kind = "srtp" /\ sdesRx # Sdes!Clear) => p = sdesRx
    BY <2>1, <2>3, SdesNewFrom
  <2>5. /\ SdesContexts' /\ sdesRx' = p /\ taken' = p /\ {gotSdp, useSrtp}' \subseteq BOOLEAN
        /\ suite' \in Sdes!Suites
    BY <1>5, <2>1, <2>2, <2>4, SdesStarts
  <2>6. SdesTyped'
    BY <1>0, <1>5, <2>1, <2>5 DEF SdesTyped
  <2>7. SdesPeer'
    BY <1>0, <2>1, <2>5 DEF SdesPeer
  <2>8. useSrtp => useSrtp'
    BY <1>0, <2>4, <2>5 DEF SdesContexts
  <2>9. SdesPackets'
    BY <1>0, <2>1, <2>8 DEF SdesPackets, SdesEarly
  <2>. QED BY <2>5, <2>6, <2>7, <2>9 DEF SdesInv
<1>6. CASE Sdes!PeerAnswered
  <2>1. /\ phase = "answering" /\ phase' = "agreed" /\ peer' = taken
        /\ reads' = (IF taken = Sdes!Clear THEN Sdes!Clear ELSE Sdes!Ours(suite))
        /\ UNCHANGED <<kind, gotSdp, useSrtp, suite, sdesTx, sdesRx, roc, taken, peerRoc, net,
              sdesHeard>>
    BY <1>6 DEF Sdes!PeerAnswered
  <2>2. SdesTyped' /\ SdesContexts'
    BY <1>0, <2>1 DEF SdesTyped, SdesContexts
  <2>3. sdesRx = taken /\ suite \in Sdes!Suites
    BY <1>0, <2>1 DEF SdesPeer, SdesTyped
  <2>4. sdesTx = reads'
    BY <1>0, <2>1, <2>3 DEF SdesContexts
  <2>5. SdesPeer'
    BY <2>1, <2>3, <2>4 DEF SdesPeer
  <2>6. SdesPackets'
    BY <1>0, <2>1 DEF SdesPackets, SdesEarly
  <2>. QED BY <2>2, <2>5, <2>6 DEF SdesInv
<1>7. CASE Sdes!PeerSends
  <2>1. /\ Len(net) < MaxPackets /\ (phase = "agreed" \/ (phase = "answered" /\ kind \in Early))
        /\ net' = Append(net, peer)
        /\ UNCHANGED <<kind, phase, gotSdp, useSrtp, suite, sdesTx, sdesRx, roc, taken, peer,
              reads, peerRoc,
                      sdesHeard>>
    BY <1>7 DEF Sdes!PeerSends
  <2>2. MaxPackets \in Nat /\ net \in Seq(Sdes!Protection \cup {Sdes!Clear})
        /\ peer \in Sdes!Protection \cup {Sdes!Clear}
    BY <1>0, PartsAssumption DEF Sdes!SdesCryptoAssumption, SdesTyped
  <2>3. net' \in Seq(Sdes!Protection \cup {Sdes!Clear}) /\ Len(net') = Len(net) + 1 /\
        Len(net) \in Nat
        /\ net'[Len(net) + 1] = peer /\ \A i \in 1 .. Len(net) : net'[i] = net[i]
    BY <2>1, <2>2
  <2>4. SdesTyped'
    BY <1>0, <2>1, <2>2, <2>3 DEF SdesTyped
  <2>5. SdesContexts' /\ SdesPeer'
    BY <1>0, <2>1 DEF SdesContexts, SdesPeer
  <2>6. peer # Sdes!Clear => useSrtp \/ SdesEarly
    BY <1>0, <2>1 DEF SdesContexts, SdesPeer, SdesEarly, SdesSteady
  <2>7. \A i \in 1 .. Len(net) + 1 : net'[i] # Sdes!Clear => useSrtp \/ SdesEarly
    BY <1>0, <2>3, <2>6 DEF SdesPackets
  <2>8. SdesPackets'
    BY <2>1, <2>3, <2>7 DEF SdesPackets, SdesEarly
  <2>. QED BY <2>4, <2>5, <2>8 DEF SdesInv
<1>8. CASE Sdes!Receive
  <2>1. /\ net # <<>> /\ net' = Tail(net)
        /\ UNCHANGED <<kind, phase, gotSdp, useSrtp, suite, sdesTx, sdesRx, roc, taken, peer,
              reads, peerRoc>>
    BY <1>8 DEF Sdes!Receive
  <2>2. net \in Seq(Sdes!Protection \cup {Sdes!Clear}) /\ Len(net) <= MaxPackets /\
        MaxPackets \in Nat
    BY <1>0, PartsAssumption DEF Sdes!SdesCryptoAssumption, SdesTyped
  <2>3. net' \in Seq(Sdes!Protection \cup {Sdes!Clear}) /\ Len(net') = Len(net) - 1 /\
        Len(net) \in Nat \ {0}
        /\ Head(net) = net[1] /\ \A i \in 1 .. Len(net) - 1 : net'[i] = net[i + 1]
    BY <2>1, <2>2
  <2>4. Head(net) # Sdes!Clear => useSrtp \/ SdesEarly
    BY <1>0, <2>3 DEF SdesPackets
  <2>5. sdesHeard' \in {"none", "clear"}
    BY <1>0, <1>8, <2>4
       DEF Sdes!Receive, Sdes!SrtpRecv, Sdes!LibsrtpRecv, Sdes!AsItIs, SdesEarly, SdesTyped
  <2>6. SdesTyped'
    BY <1>0, <2>1, <2>2, <2>3, <2>5 DEF SdesTyped
  <2>7. SdesContexts' /\ SdesPeer'
    BY <1>0, <2>1 DEF SdesContexts, SdesPeer
  <2>8. \A i \in 1 .. Len(net) - 1 : net'[i] # Sdes!Clear => useSrtp \/ SdesEarly
    BY <1>0, <2>3 DEF SdesPackets
  <2>9. SdesPackets'
    BY <2>1, <2>3, <2>8 DEF SdesPackets, SdesEarly
  <2>. QED BY <2>6, <2>7, <2>9 DEF SdesInv
<1>9. CASE Sdes!Wrap
  <2>1. /\ kind \in Wraps /\ roc' = 1 /\ peerRoc' = 1
        /\ UNCHANGED <<kind, phase, gotSdp, useSrtp, suite, sdesTx, sdesRx, taken, peer, reads,
              net, sdesHeard>>
    BY <1>9 DEF Sdes!Wrap
  <2>2. kind = "srtp"
    BY <2>1 DEF SdesSteady
  <2>3. SdesTyped' /\ SdesContexts'
    BY <1>0, <2>1, <2>2 DEF SdesTyped, SdesContexts
  <2>4. SdesPeer' /\ SdesPackets'
    BY <1>0, <2>1 DEF SdesPeer, SdesPackets, SdesEarly
  <2>. QED BY <2>3, <2>4 DEF SdesInv
<1>. QED BY <1>1, <1>2, <1>3, <1>4, <1>5, <1>6, <1>7, <1>8, <1>9 DEF Sdes!Next

\* The invariant says what PeersAgree does of the keys.
LEMMA SdesSafe == SdesInv => Sdes!TypeOK /\ Sdes!KeysAgree /\ Sdes!HeardIsClear
<1> SUFFICES ASSUME SdesInv PROVE Sdes!TypeOK /\ Sdes!KeysAgree /\ Sdes!HeardIsClear
  OBVIOUS
<1>0. SdesTyped /\ SdesContexts /\ SdesPeer /\ gotSdp \in BOOLEAN /\ useSrtp \in BOOLEAN
  BY SdesBits DEF SdesInv
<1>1. sdesTx \in {Sdes!Ours(s) : s \in Sdes!Suites} \cup {Sdes!Clear}
  BY <1>0, SdesKeyed DEF SdesContexts
<1>2. roc \in 0 .. 1 /\ peerRoc \in 0 .. 1 /\ sdesRx \in Sdes!Protection \cup {Sdes!Clear}
  BY <1>0 DEF SdesContexts
<1>3. Sdes!TypeOK
  BY <1>0, <1>1, <1>2 DEF SdesTyped, SdesPeer, Sdes!TypeOK
<1>4. Sdes!KeysAgree
  BY <1>0 DEF SdesContexts, SdesPeer, Sdes!KeysAgree, Sdes!Sent
<1>. QED BY <1>0, <1>3, <1>4 DEF SdesTyped, Sdes!HeardIsClear

-----------------------------------------------------------------------------
(* Proof about DtlsSrtp. *)

\* A connection is made in the role that the peer's attribute gives us; one without keys has no
\* helpers, one with keys has those of its role.
DtlsRoles(c) ==
    /\ conn[c] = "client" => active /\ ~negotiated[c]
    /\ conn[c] = "server" => ~active /\ ~negotiated[c]
    /\ ~negotiated[c] => helpers[c] = 0
    /\ negotiated[c] => /\ dtlsTx[c] = dtlsRole[c] /\ dtlsRx[c] = Dtls!Other(dtlsRole[c])
                        /\ helpers[c] = 1

\* The inductive invariant.
DtlsInv ==
    /\ Dtls!TypeOK /\ \A c \in {1, 2} : DtlsRoles(c)
    /\ setup # "none" => (active <=> setup # "active")
    /\ setup = "none" => \A c \in {1, 2} : conn[c] = "none"
    /\ setup = "none" => ~dtlsTimer /\ \A c \in {1, 2} : ~sock[c]

\* The types, one by one.
LEMMA DtlsTypes ==
    ASSUME DtlsInv
    PROVE  /\ {offerer, hasMedia, raddr, active, dtlsTimer, dtlsStarted, dtlsTold} \subseteq BOOLEAN
           /\ dtlsComps \in {{1}, {1, 2}} /\ setup \in {"none", "active", "passive", "actpass"}
           /\ sock \in [{1, 2} -> BOOLEAN]
           /\ conn \in [{1, 2} -> {"none", "client", "server", "up"}]
           /\ dtlsRole \in [{1, 2} -> {"none", "client", "server"}]
           /\ negotiated \in [{1, 2} -> BOOLEAN]
           /\ dtlsTx \in [{1, 2} -> {"none", "client", "server"}]
           /\ dtlsRx \in [{1, 2} -> {"none", "client", "server"}]
           /\ helpers \in [{1, 2} -> 0 .. 2]
BY Zenon DEF DtlsInv, Dtls!TypeOK, Dtls!Component, Dtls!Keys

\* The peer's SDP has not come.
LEMMA DtlsInit == Dtls!Init => DtlsInv
<1> SUFFICES ASSUME Dtls!Init PROVE DtlsInv
  OBVIOUS
<1>1. {offerer, hasMedia, raddr, active, dtlsTimer, dtlsStarted, dtlsTold} \subseteq BOOLEAN
  BY Zenon DEF Dtls!Init
<1>. QED BY <1>1 DEF Dtls!Init, DtlsInv, DtlsRoles, Dtls!TypeOK, Dtls!Component, Dtls!Keys,
      Dtls!Each

\* Every step keeps the invariant.
LEMMA DtlsNext == DtlsInv /\ [Dtls!Next]_dtlsVars => DtlsInv'
<1> SUFFICES ASSUME DtlsInv, [Dtls!Next]_dtlsVars PROVE DtlsInv'
  OBVIOUS
<1>1. CASE UNCHANGED dtlsVars
  BY <1>1, Zenon DEF dtlsVars, DtlsInv, DtlsRoles, Dtls!TypeOK
<1>2. ASSUME NEW s \in {"active", "passive", "actpass"}, NEW has \in BOOLEAN, NEW set \in BOOLEAN,
             Dtls!MediaAlloc(s, has, set)
      PROVE  DtlsInv'
  <2>1. /\ setup' = s /\ hasMedia' = has /\ raddr' = set /\ active' = (s # "active")
        /\ dtlsTimer' = TRUE /\ setup \in {"none", s}
        /\ UNCHANGED <<offerer, dtlsComps, dtlsStarted, sock, conn, dtlsRole, negotiated, dtlsTx,
              dtlsRx,
                       helpers, dtlsTold>>
    BY <1>2 DEF Dtls!MediaAlloc, Dtls!Setups, Dtls!keys
  <2>2. Dtls!TypeOK'
    BY <2>1, DtlsTypes DEF Dtls!TypeOK, Dtls!Component, Dtls!Keys
  <2>3. setup = s => active' = active
    BY <2>1, DtlsTypes DEF DtlsInv
  <2>4. ASSUME NEW c \in {1, 2} PROVE DtlsRoles(c)'
    BY <2>1, <2>3 DEF DtlsInv, DtlsRoles
  <2>. QED BY <2>1, <2>2, <2>4 DEF DtlsInv
<1>3. ASSUME NEW deaf \in SUBSET Dtls!Component, NEW mute \in SUBSET Dtls!Component,
             Dtls!Timeout(deaf, mute)
      PROVE  DtlsInv'
  <2>1. /\ dtlsTimer /\ dtlsTimer' = FALSE
        /\ sock' \in [{1, 2} -> BOOLEAN]
        /\ dtlsStarted' \in BOOLEAN
        /\ UNCHANGED <<offerer, dtlsComps, setup, hasMedia, raddr, active, dtlsRole, negotiated,
              dtlsTx,
                       dtlsRx, helpers, dtlsTold>>
    BY <1>3 DEF Dtls!Timeout, Dtls!sdp, Dtls!keys, Dtls!Component
  <2>2. PICK C \in SUBSET {c \in {1, 2} : ~negotiated[c] /\ active /\ conn[c] = "none"} :
            conn' = [c \in {1, 2} |-> IF c \in C THEN "client" ELSE conn[c]]
    <3> DEFINE C == IF ~dtlsStarted /\ hasMedia
                    THEN {c \in Dtls!ToStart \ deaf : active /\ raddr /\ conn[c] = "none"} \ mute
                    ELSE {}
    <3>1. conn' = [c \in {1, 2} |-> IF c \in C THEN "client" ELSE conn[c]]
      BY <1>3 DEF Dtls!Timeout, Dtls!Component
    <3>2. C \in SUBSET {c \in {1, 2} : ~negotiated[c] /\ active /\ conn[c] = "none"}
      BY DtlsTypes DEF Dtls!ToStart
    <3>. QED BY <3>1, <3>2
  <2>3. Dtls!TypeOK'
    BY <2>1, <2>2, DtlsTypes DEF Dtls!TypeOK, Dtls!Component, Dtls!Keys
  <2>4. ASSUME NEW c \in {1, 2} PROVE DtlsRoles(c)'
    BY <2>1, <2>2 DEF DtlsInv, DtlsRoles
  <2>. QED BY <2>1, <2>3, <2>4 DEF DtlsInv
<1>4. ASSUME NEW c \in {1, 2}, Dtls!Connected(c) PROVE DtlsInv'
  <2>1. /\ setup = "active" /\ ~negotiated[c] /\ conn' = [conn EXCEPT ![c] = "server"]
        /\ UNCHANGED <<offerer, dtlsComps, setup, hasMedia, raddr, active, dtlsTimer,
              dtlsStarted, sock,
                       dtlsRole, negotiated, dtlsTx, dtlsRx, helpers, dtlsTold>>
    BY <1>4 DEF Dtls!Connected, Dtls!sdp, Dtls!keys
  <2>2. Dtls!TypeOK'
    BY <2>1, DtlsTypes DEF Dtls!TypeOK, Dtls!Component, Dtls!Keys
  <2>3. ASSUME NEW d \in {1, 2} PROVE DtlsRoles(d)'
    BY <2>1, DtlsTypes DEF DtlsInv, DtlsRoles
  <2>. QED BY <2>1, <2>2, <2>3 DEF DtlsInv
<1>5. ASSUME NEW c \in {1, 2}, Dtls!EstabHandler(c) PROVE DtlsInv'
  <2>1. /\ conn[c] \in {"client", "server"} /\ conn' = [conn EXCEPT ![c] = "up"]
        /\ dtlsRole' = [dtlsRole EXCEPT ![c] = conn[c]]
        /\ negotiated' = [negotiated EXCEPT ![c] = TRUE]
        /\ dtlsTx' = [dtlsTx EXCEPT ![c] = IF active THEN "client" ELSE "server"]
        /\ dtlsRx' = [dtlsRx EXCEPT ![c] = IF active THEN "server" ELSE "client"]
        /\ helpers[c] < 2 /\ helpers' = [helpers EXCEPT ![c] = @ + 1]
        /\ UNCHANGED <<offerer, dtlsComps, setup, hasMedia, raddr, active, dtlsTimer,
              dtlsStarted, sock,
                       dtlsTold>>
    BY <1>5 DEF Dtls!EstabHandler, Dtls!Install, Dtls!sdp
  <2>2. Dtls!TypeOK'
    BY <2>1, DtlsTypes DEF Dtls!TypeOK, Dtls!Component, Dtls!Keys
  <2>3. ~negotiated[c] /\ helpers[c] = 0 /\ (active <=> conn[c] = "client")
    BY <2>1, DtlsTypes DEF DtlsInv, DtlsRoles
  <2>4. ASSUME NEW d \in {1, 2} PROVE DtlsRoles(d)'
    <3>1. CASE d = c
      BY <2>1, <2>3, <3>1, DtlsTypes DEF DtlsRoles, Dtls!Other
    <3>2. CASE d # c
      BY <2>1, <3>2, DtlsTypes DEF DtlsInv, DtlsRoles
    <3>. QED BY <3>1, <3>2
  <2>5. setup # "none"
    BY <2>1 DEF DtlsInv
  <2>. QED BY <2>1, <2>2, <2>4, <2>5 DEF DtlsInv
<1>6. ASSUME NEW c \in {1, 2}, Dtls!EstabFails(c) \/ Dtls!CloseHandler(c) PROVE DtlsInv'
  <2>1. /\ conn[c] # "none" /\ \E x \in {"up", "none"} : conn' = [conn EXCEPT ![c] = x]
        /\ dtlsTold' \in BOOLEAN
        /\ UNCHANGED <<offerer, dtlsComps, setup, hasMedia, raddr, active, dtlsTimer,
              dtlsStarted, sock,
                       dtlsRole, negotiated, dtlsTx, dtlsRx, helpers>>
    BY <1>6, DtlsTypes DEF Dtls!EstabFails, Dtls!CloseHandler, Dtls!sdp, Dtls!keys
  <2>2. Dtls!TypeOK'
    BY <2>1, DtlsTypes DEF Dtls!TypeOK, Dtls!Component, Dtls!Keys
  <2>3. ASSUME NEW d \in {1, 2} PROVE DtlsRoles(d)'
    BY <2>1, DtlsTypes DEF DtlsInv, DtlsRoles
  <2>4. setup # "none"
    BY <2>1 DEF DtlsInv
  <2>. QED BY <2>1, <2>2, <2>3, <2>4 DEF DtlsInv
<1>. QED BY <1>1, <1>2, <1>3, <1>4, <1>5, <1>6 DEF Dtls!Next, Dtls!Component

\* The invariant says what PeersAgree does of the keys.
LEMMA DtlsSafe == DtlsInv => Dtls!KeysAgree
BY DEF DtlsInv, DtlsRoles, Dtls!KeysAgree, Dtls!Component

-----------------------------------------------------------------------------
(* Proof about ZrtpSession, for any streams and ends. *)

\* What a session keeps of its streams.
ZrtpRec == [master : Zrtp!Streams \cup {Zrtp!None}, encrypted : Nat, streams : Seq(Zrtp!Streams),
            mode : [Zrtp!Streams -> {"idle", "dh", "multi"}]]
ZrtpElems(r) == {r.streams[i] : i \in 1 .. Len(r.streams)}

\* A session knows its streams once, has only those started, and a master among them.
ZrtpTakenIn(n, r) ==
    /\ \A i, j \in 1 .. Len(r.streams) : r.streams[i] = r.streams[j] => i = j
    /\ \A s \in Zrtp!Streams : r.mode[s] # "idle" => s \in ZrtpElems(r)
    /\ r.master # Zrtp!None => r.master \in ZrtpElems(r)
    /\ (n \notin parallel /\ ZrtpElems(r) # {}) => r.master # Zrtp!None

\* Streams with keys run, and are counted; the master has the first. One that agrees on keys by
\* itself is the master, if there is one; the others derive theirs when the master has its own.
ZrtpModes(n, r) ==
    /\ \A s \in zrtpSecure[n] : r.mode[s] # "idle"
    /\ r.encrypted = Cardinality(zrtpSecure[n])
    /\ zrtpSecure[n] # {} => r.master \in zrtpSecure[n]
    /\ \A s \in Zrtp!Streams : (r.mode[s] = "dh" /\ r.master # Zrtp!None) => s = r.master
    /\ \A s \in Zrtp!Streams : r.mode[s] = "multi" => r.master \in zrtpSecure[n]
    /\ \A s \in met[n] : r.mode[s] # "idle" /\ (r.mode[s] = "dh" => r.master = s)

\* The types.
ZrtpTyped ==
    /\ sdp \subseteq Zrtp!Streams /\ due \subseteq Zrtp!Ends /\ parallel \in Parallels
    /\ session \in [Zrtp!Ends -> ZrtpRec] /\ zrtpHello \subseteq Zrtp!Ends \X Zrtp!Streams
    /\ met \in [Zrtp!Ends -> SUBSET Zrtp!Streams]
    /\ zrtpSecure \in [Zrtp!Ends -> SUBSET Zrtp!Streams] /\ announced \subseteq Zrtp!Ends

\* An end that takes streams in has keys for those it knows, and room for the new ones. An end
\* that has keys has the peer's master, and one that has them all was told.
ZrtpEnd(n) ==
    /\ n \in due => /\ ZrtpElems(session[n]) \subseteq zrtpSecure[n]
                    /\ Len(session[n].streams) + Cardinality(sdp) <= MaxStarts
    /\ Len(session[n].streams) <= MaxStarts
    /\ zrtpSecure[n] # {} => session[n].master = session[Zrtp!Peer(n)].master
    /\ (ZrtpElems(session[n]) # {} /\ ZrtpElems(session[n]) \subseteq zrtpSecure[n]) =>
          n \in announced

\* The inductive invariant.
ZrtpInv ==
    /\ ZrtpTyped
    /\ \A n \in Zrtp!Ends : ZrtpTakenIn(n, session[n]) /\ ZrtpModes(n, session[n]) /\ ZrtpEnd(n)

\* Numbers have a least one.
LEMMA LeastNumber ==
    ASSUME NEW T \in SUBSET Nat, T # {} PROVE \E x \in T : \A y \in T : x <= y
<1> DEFINE R == OpToRel(<, Nat)
<1>1. \A x, y \in Nat : <<x, y>> \in R <=> x < y
  BY DEF OpToRel
<1>2. IsWellFoundedOn(R, Nat)
  BY NatLessThanWellFounded
<1> HIDE DEF R
<1>3. PICK x \in T : \A y \in T : ~ (<<y, x>> \in R)
  BY <1>2, WFMin, Zenon
<1>4. \A y \in T : ~ (y < x)
  BY <1>1, <1>3
<1>. QED BY <1>4

\* Induction up to a number.
LEMMA StepByStep ==
    ASSUME NEW n \in Nat, NEW T, 0 \in T, \A i \in 0 .. n : i > 0 /\ i - 1 \in T => i \in T
    PROVE  0 .. n \subseteq T
<1> SUFFICES ASSUME NEW z \in 0 .. n, z \notin T PROVE FALSE
  OBVIOUS
<1>1. PICK x \in (0 .. n) \ T : \A y \in (0 .. n) \ T : x <= y
  <2> DEFINE U == (0 .. n) \ T
  <2>1. U \in SUBSET Nat /\ U # {}
    OBVIOUS
  <2> HIDE DEF U
  <2>2. \E x \in U : \A y \in U : x <= y
    BY <2>1, LeastNumber
  <2>. QED BY <2>2 DEF U
<1>2. x > 0 /\ x - 1 \in 0 .. n
  BY <1>1
<1>. QED BY <1>1, <1>2

\* The instance's operators on sets are those of the library.
LEMMA ZrtpSets == \A S : Zrtp!Cardinality(S) = Cardinality(S)
BY DEF Zrtp!Cardinality, Cardinality, Zrtp!IsFiniteSet, IsFiniteSet

\* The streams are those of the SDP, each once.
LEMMA ZrtpOrder ==
    /\ Order \in Seq(Zrtp!Streams) /\ Zrtp!None \notin Zrtp!Streams /\ MaxStarts \in Nat
    /\ \A i, j \in 1 .. Len(Order) : Order[i] = Order[j] => i = j
    /\ \A i \in 1 .. Len(Order) : Order[i] \in Zrtp!Streams
<1>1. Order \in Seq(Zrtp!Streams)
  BY PartsAssumption DEF Zrtp!ZrtpSessionAssumption
<1>. QED BY <1>1, PartsAssumption DEF Zrtp!ZrtpSessionAssumption

\* Streams are finitely many.
LEMMA ZrtpFinite == IsFiniteSet(Zrtp!Streams)
<1>1. Order \in [1 .. Len(Order) -> Zrtp!Streams] /\ Len(Order) \in Nat
  BY ZrtpOrder
<1>2. \A s \in Zrtp!Streams : \E i \in 1 .. Len(Order) : Order[i] = s
  BY DEF Zrtp!Streams
<1>3. Order \in Surjection(1 .. Len(Order), Zrtp!Streams)
  BY <1>1, <1>2, Zenon DEF Surjection
<1>4. IsFiniteSet(1 .. Len(Order))
  BY <1>1, FS_Interval
<1>. QED BY <1>3, <1>4, FS_Surjection

\* A session that knows each stream once knows as many as it has counted.
LEMMA ZrtpCounts ==
    ASSUME NEW r \in ZrtpRec, \A i, j \in 1 .. Len(r.streams) : r.streams[i] = r.streams[j] => i = j
    PROVE  IsFiniteSet(ZrtpElems(r)) /\ Cardinality(ZrtpElems(r)) = Len(r.streams)
           /\ ZrtpElems(r) \subseteq Zrtp!Streams
<1> DEFINE q == r.streams
           E == ZrtpElems(r)
<1>1. q \in Seq(Zrtp!Streams)
  BY DEF ZrtpRec
<1>2. Len(q) \in Nat /\ DOMAIN q = 1 .. Len(q) /\ \A i \in 1 .. Len(q) : q[i] \in Zrtp!Streams
  BY <1>1
<1>3. E = {q[i] : i \in 1 .. Len(q)}
  BY DEF ZrtpElems
<1>4. E \subseteq Zrtp!Streams
  BY <1>2, <1>3
<1>5. q \in [1 .. Len(q) -> E]
  <2>1. q = [i \in 1 .. Len(q) |-> q[i]]
    BY <1>1
  <2>. QED BY <1>3, <2>1
<1>6. \A i, j \in 1 .. Len(q) : q[i] = q[j] => i = j
  OBVIOUS
<1> HIDE DEF q, E
<1>7. q \in Injection(1 .. Len(q), E)
  BY <1>5, <1>6 DEF Injection, IsInjective
<1>8. q \in Surjection(1 .. Len(q), E)
  BY <1>3, <1>5 DEF Surjection
<1>9. IsFiniteSet(1 .. Len(q)) /\ Cardinality(1 .. Len(q)) = Len(q)
  BY <1>2, FS_Interval
<1>10. IsFiniteSet(E) /\ Cardinality(E) = Len(q)
  BY <1>7, <1>8, <1>9, FS_Surjection
<1>. QED BY <1>4, <1>10 DEF q, E

\* What a stream starts as, and the master then.
ZrtpStartFrom(n, r, s, m, z) ==
    /\ n \in parallel =>
          /\ z = r.master
          /\ m = IF r.master = Zrtp!None \/ ~(r.encrypted > 0) THEN "dh"
                 ELSE IF r.master \in zrtpSecure[n] THEN "multi" ELSE "idle"
    /\ (n \notin parallel /\ r.master = Zrtp!None) => z = s /\ m = "dh"
    /\ (n \notin parallel /\ r.master # Zrtp!None) =>
          /\ z = r.master
          /\ m = IF r.encrypted > 0 /\ r.master \in zrtpSecure[n] THEN "multi" ELSE "idle"
ZrtpStartsAs(n, r, s, q, m, z) ==
    /\ q = [master |-> z, encrypted |-> r.encrypted, streams |-> Append(r.streams, s),
            mode |-> [r.mode EXCEPT ![s] = m]]
    /\ ZrtpStartFrom(n, r, s, m, z)

\* Session::start_stream: nothing for a stream that runs; another is known, and starts as the
\* master, with the master's keys, or when they are there.
LEMMA ZrtpStarts ==
    ASSUME NEW n, NEW r \in ZrtpRec, NEW s \in Zrtp!Streams
    PROVE  /\ r.mode[s] # "idle" => Zrtp!StartStream(n, r, s) = r
           /\ r.mode[s] = "idle" =>
                 \E m \in {"idle", "dh", "multi"} : \E z \in {r.master, s} :
                    ZrtpStartsAs(n, r, s, Zrtp!StartStream(n, r, s), m, z)
<1> DEFINE q == [r EXCEPT !.streams = Append(@, s)]
           ready == q.master \in zrtpSecure[n]
           S == Zrtp!StartStream(n, r, s)
<1>1. r.mode[s] # "idle" => S = r
  BY Zenon DEF Zrtp!StartStream
<1>2. ASSUME r.mode[s] = "idle", n \in parallel
      PROVE  S = Zrtp!Started(q, s, q.master # Zrtp!None /\ q.encrypted > 0, ready)
  BY <1>2, Zenon DEF Zrtp!StartStream
<1>3. ASSUME r.mode[s] = "idle", n \notin parallel, q.master = Zrtp!None
      PROVE  S = Zrtp!Started([q EXCEPT !.master = s], s, FALSE, ready)
  BY <1>3, Zenon DEF Zrtp!StartStream
<1>4. ASSUME r.mode[s] = "idle", n \notin parallel, q.master # Zrtp!None
      PROVE  S = IF q.encrypted > 0 THEN Zrtp!Started(q, s, TRUE, ready) ELSE q
  BY <1>4, Zenon DEF Zrtp!StartStream
<1>5. q = [master |-> r.master, encrypted |-> r.encrypted, streams |-> Append(r.streams, s),
      mode |-> r.mode]
  <2> DEFINE a == Append(r.streams, s)
  <2> HIDE DEF a
  <2>1. [r EXCEPT !.streams = a] = [master |-> r.master, encrypted |-> r.encrypted, streams |->
        a, mode |-> r.mode]
    BY DEF ZrtpRec
  <2>. QED BY <2>1 DEF a
<1> DEFINE T(z, m) == [master |-> z, encrypted |-> r.encrypted, streams |-> Append(r.streams, s),
                       mode |-> [r.mode EXCEPT ![s] = m]]
<1>6. /\ q.mode = r.mode /\ q.master = r.master /\ q.encrypted = r.encrypted
      /\ q.streams = Append(r.streams, s)
      /\ r.mode \in [Zrtp!Streams -> {"idle", "dh", "multi"}]
  BY <1>5 DEF ZrtpRec
<1>7. q \in ZrtpRec
  <2> DEFINE a == Append(r.streams, s)
  <2>1. a \in Seq(Zrtp!Streams)
    BY DEF ZrtpRec
  <2>2. q = [master |-> r.master, encrypted |-> r.encrypted, streams |-> a, mode |-> r.mode]
    BY <1>5
  <2> HIDE DEF a, q
  <2>. QED BY <2>1, <2>2 DEF ZrtpRec
<1> HIDE DEF q, S
<1>8. ASSUME NEW m \in {"dh", "multi"} PROVE [q EXCEPT !.mode[s] = m] = T(r.master, m)
  <2>1. [q EXCEPT !.mode[s] = m] = [master |-> q.master, encrypted |-> q.encrypted, streams |->
        q.streams,
                                    mode |-> [q.mode EXCEPT ![s] = m]]
    BY <1>7 DEF ZrtpRec
  <2>. QED BY <1>6, <2>1
<1>9. [[q EXCEPT !.master = s] EXCEPT !.mode[s] = "dh"] = T(s, "dh") /\
      [q EXCEPT !.master = s].mode = r.mode
  <2>1. [q EXCEPT !.master = s] = [master |-> s, encrypted |-> q.encrypted, streams |->
        q.streams, mode |-> q.mode]
    BY <1>7 DEF ZrtpRec
  <2> DEFINE p == [q EXCEPT !.master = s]
  <2>2. p \in ZrtpRec /\ p.master = s /\ p.encrypted = r.encrypted /\
        p.streams = Append(r.streams, s)
        /\ p.mode = r.mode
    BY <1>6, <1>7, <2>1 DEF ZrtpRec
  <2> HIDE DEF p
  <2>3. ASSUME NEW m \in {"dh", "multi"}
        PROVE  [p EXCEPT !.mode[s] = m] = [master |-> p.master, encrypted |-> p.encrypted,
                                          streams |-> p.streams, mode |-> [p.mode EXCEPT ![s] = m]]
    <3>1. p \in ZrtpRec
      BY <2>2
    <3>. QED BY <3>1 DEF ZrtpRec
  <2>. QED BY <2>2, <2>3 DEF p
<1>10. r.mode[s] = "idle" => q = T(r.master, "idle")
  BY <1>5, <1>6 DEF q
<1> HIDE DEF T
<1>11. r.mode[s] = "idle" => Zrtp!Started([q EXCEPT !.master = s], s, FALSE, ready) = T(s, "dh")
  BY <1>9, Zenon DEF Zrtp!Started
<1>16. ASSUME r.mode[s] = "idle", NEW multi, multi PROVE
          Zrtp!Started(q, s, multi, ready) = T(r.master, IF ready THEN "multi" ELSE "idle")
  <2>1. CASE ready
    BY <1>6, <1>8, <1>16, <2>1, Zenon DEF Zrtp!Started
  <2>2. CASE ~ready
    BY <1>6, <1>10, <1>16, <2>2, Zenon DEF Zrtp!Started
  <2>. QED BY <2>1, <2>2
<1>17. ASSUME r.mode[s] = "idle", NEW multi, ~multi PROVE Zrtp!Started(q, s, multi,
      ready) = T(r.master, "dh")
  BY <1>6, <1>8, <1>17, Zenon DEF Zrtp!Started
<1> HIDE DEF ready
<1>12. ASSUME r.mode[s] = "idle", n \in parallel
       PROVE  S = T(r.master, IF r.master = Zrtp!None \/ ~(r.encrypted > 0) THEN "dh"
                              ELSE IF r.master \in zrtpSecure[n] THEN "multi" ELSE "idle")
  <2> DEFINE multi == q.master # Zrtp!None /\ q.encrypted > 0
  <2>1. S = Zrtp!Started(q, s, multi, ready)
    BY <1>2, <1>12
  <2>2. multi <=> ~(r.master = Zrtp!None \/ ~(r.encrypted > 0))
    BY <1>6
  <2>3. ready <=> r.master \in zrtpSecure[n]
    BY <1>6 DEF ready
  <2> HIDE DEF multi
  <2>4. CASE multi
    BY <1>12, <1>16, <2>1, <2>2, <2>3, <2>4
  <2>5. CASE ~multi
    BY <1>12, <1>17, <2>1, <2>2, <2>5
  <2>. QED BY <2>4, <2>5
<1>13. ASSUME r.mode[s] = "idle", n \notin parallel, r.master = Zrtp!None PROVE S = T(s, "dh")
  BY <1>3, <1>6, <1>11, <1>13
<1>14. ASSUME r.mode[s] = "idle", n \notin parallel, r.master # Zrtp!None
       PROVE  S = T(r.master, IF r.encrypted > 0 /\
             r.master \in zrtpSecure[n] THEN "multi" ELSE "idle")
  <2>1. CASE r.encrypted > 0
    <3>1. S = Zrtp!Started(q, s, TRUE, ready)
      BY <1>4, <1>6, <1>14, <2>1
    <3>2. S = T(r.master, IF ready THEN "multi" ELSE "idle")
      BY <1>14, <1>16, <3>1
    <3>. QED BY <1>6, <2>1, <3>2 DEF ready
  <2>2. CASE ~(r.encrypted > 0)
    BY <1>4, <1>6, <1>10, <1>14, <2>2
  <2>. QED BY <2>1, <2>2
<1>15. ASSUME r.mode[s] = "idle"
       PROVE  \E m \in {"idle", "dh", "multi"} : \E z \in {r.master, s} :
                 S = T(z, m) /\ ZrtpStartFrom(n, r, s, m, z)
  <2>1. CASE n \in parallel
    <3> DEFINE m == IF r.master = Zrtp!None \/ ~(r.encrypted > 0) THEN "dh"
                    ELSE IF r.master \in zrtpSecure[n] THEN "multi" ELSE "idle"
    <3>1. m \in {"idle", "dh", "multi"} /\ S = T(r.master, m)
      BY <1>12, <1>15, <2>1
    <3>2. ZrtpStartFrom(n, r, s, m, r.master)
      BY <2>1 DEF ZrtpStartFrom
    <3>. QED BY <3>1, <3>2
  <2>2. CASE n \notin parallel /\ r.master = Zrtp!None
    <3>1. ZrtpStartFrom(n, r, s, "dh", s)
      BY <2>2 DEF ZrtpStartFrom
    <3>. QED BY <1>13, <1>15, <2>2, <3>1
  <2>3. CASE n \notin parallel /\ r.master # Zrtp!None
    <3> DEFINE m == IF r.encrypted > 0 /\ r.master \in zrtpSecure[n] THEN "multi" ELSE "idle"
    <3>1. m \in {"idle", "dh", "multi"} /\ S = T(r.master, m)
      BY <1>14, <1>15, <2>3
    <3>2. ZrtpStartFrom(n, r, s, m, r.master)
      BY <2>3 DEF ZrtpStartFrom
    <3>. QED BY <3>1, <3>2
  <2>. QED BY <2>1, <2>2, <2>3
<1>. QED BY <1>1, <1>15, Zenon DEF S, T, ZrtpStartsAs

\* The record that is made.
LEMMA ZrtpStartTyped ==
    ASSUME NEW n, NEW r \in ZrtpRec, NEW s \in Zrtp!Streams
    PROVE  Zrtp!StartStream(n, r, s) \in ZrtpRec
<1> DEFINE q == Zrtp!StartStream(n, r, s)
<1>1. CASE r.mode[s] # "idle"
  BY <1>1, ZrtpStarts
<1>2. CASE r.mode[s] = "idle"
  <2>0. PICK m \in {"idle", "dh", "multi"}, z \in {r.master, s} : ZrtpStartsAs(n, r, s, q, m, z)
    BY <1>2, ZrtpStarts
  <2>1. q = [master |-> z, encrypted |-> r.encrypted, streams |-> Append(r.streams, s),
             mode |-> [r.mode EXCEPT ![s] = m]]
    BY <2>0 DEF ZrtpStartsAs
  <2>2. /\ r.mode \in [Zrtp!Streams -> {"idle", "dh", "multi"}] /\ r.streams \in Seq(Zrtp!Streams)
        /\ r.master \in Zrtp!Streams \cup {Zrtp!None} /\ r.encrypted \in Nat
    BY DEF ZrtpRec
  <2>3. [r.mode EXCEPT ![s] = m] \in [Zrtp!Streams -> {"idle", "dh", "multi"}]
        /\ Append(r.streams, s) \in Seq(Zrtp!Streams)
    BY <2>2
  <2> HIDE DEF q
  <2>. QED BY <2>1, <2>2, <2>3 DEF ZrtpRec, q
<1>. QED BY <1>1, <1>2

\* A stream is taken in: what holds of a session still does, and it has the same master and
\* keys, if it had them.
LEMMA ZrtpTakesOne ==
    ASSUME NEW n, NEW r \in ZrtpRec, NEW s \in Zrtp!Streams, ZrtpTakenIn(n, r), ZrtpModes(n, r),
           zrtpSecure[n] \subseteq Zrtp!Streams, met[n] \subseteq Zrtp!Streams,
           r.mode[s] = "idle" => s \notin ZrtpElems(r),
           (n \in parallel /\ zrtpSecure[n] = {}) => r.master = Zrtp!None
    PROVE  LET q == Zrtp!StartStream(n, r, s)
           IN  /\ q \in ZrtpRec /\ ZrtpTakenIn(n, q) /\ ZrtpModes(n, q)
               /\ r.master # Zrtp!None => q.master = r.master
               /\ n \in parallel => q.master = r.master
               /\ ZrtpElems(r) \subseteq ZrtpElems(q) /\
                     ZrtpElems(q) \subseteq ZrtpElems(r) \cup {s}
<1> DEFINE q == Zrtp!StartStream(n, r, s)
<1>1. CASE r.mode[s] # "idle"
  BY <1>1, ZrtpStarts
<1>2. CASE r.mode[s] = "idle"
  <2>0. PICK m \in {"idle", "dh", "multi"}, z \in {r.master, s} : ZrtpStartsAs(n, r, s, q, m, z)
    BY <1>2, ZrtpStarts
  <2>1. /\ q = [master |-> z, encrypted |-> r.encrypted, streams |-> Append(r.streams, s),
                mode |-> [r.mode EXCEPT ![s] = m]]
        /\ n \in parallel =>
              /\ z = r.master
              /\ m = IF r.master = Zrtp!None \/ ~(r.encrypted > 0) THEN "dh"
                     ELSE IF r.master \in zrtpSecure[n] THEN "multi" ELSE "idle"
        /\ (n \notin parallel /\ r.master = Zrtp!None) => z = s /\ m = "dh"
        /\ (n \notin parallel /\ r.master # Zrtp!None) =>
              /\ z = r.master
              /\ m = IF r.encrypted > 0 /\ r.master \in zrtpSecure[n] THEN "multi" ELSE "idle"
    BY <2>0, Zenon DEF ZrtpStartsAs, ZrtpStartFrom
  <2> HIDE DEF q
  <2>2. /\ q.master = z /\ q.encrypted = r.encrypted /\ q.streams = Append(r.streams, s)
        /\ q.mode = [r.mode EXCEPT ![s] = m]
    BY <2>1
  <2>3. /\ r.mode \in [Zrtp!Streams -> {"idle", "dh", "multi"}] /\ r.streams \in Seq(Zrtp!Streams)
        /\ r.master \in Zrtp!Streams \cup {Zrtp!None} /\ r.encrypted \in Nat
    BY DEF ZrtpRec
  <2>4. /\ q.mode \in [Zrtp!Streams -> {"idle", "dh", "multi"}] /\ q.mode[s] = m
        /\ \A t \in Zrtp!Streams : t # s => q.mode[t] = r.mode[t]
    BY <2>2, <2>3
  <2>5. /\ q.streams \in Seq(Zrtp!Streams) /\ Len(q.streams) = Len(r.streams) + 1
        /\ Len(r.streams) \in Nat /\ q.streams[Len(r.streams) + 1] = s
        /\ \A i \in 1 .. Len(r.streams) : q.streams[i] = r.streams[i]
    BY <2>2, <2>3
  <2>6. q \in ZrtpRec
    BY <2>1, <2>2, <2>3, <2>4, <2>5 DEF ZrtpRec
  <2>7. ZrtpElems(q) = ZrtpElems(r) \cup {s}
    BY <2>5 DEF ZrtpElems
  <2>8. s \notin ZrtpElems(r)
    BY <1>2
  <2>9. \A i, j \in 1 .. Len(q.streams) : q.streams[i] = q.streams[j] => i = j
    <3>1. \A i \in 1 .. Len(r.streams) : r.streams[i] # s
      BY <2>8 DEF ZrtpElems
    <3>2. \A i, j \in 1 .. Len(r.streams) : r.streams[i] = r.streams[j] => i = j
      BY DEF ZrtpTakenIn
    <3>3. \A i \in 1 .. Len(q.streams) : i \in 1 .. Len(r.streams) \/ i = Len(r.streams) + 1
      BY <2>5
    <3>. QED BY <2>5, <3>1, <3>2, <3>3
  <2>10. z = r.master \/ (n \notin parallel /\ r.master = Zrtp!None /\ z = s)
    BY <2>1
  <2>11. ZrtpTakenIn(n, q)
    <3>1. \A t \in Zrtp!Streams : q.mode[t] # "idle" => t \in ZrtpElems(q)
      BY <2>4, <2>7 DEF ZrtpTakenIn
    <3>2. q.master # Zrtp!None => q.master \in ZrtpElems(q)
      BY <2>2, <2>7, <2>10 DEF ZrtpTakenIn
    <3>3. n \notin parallel => q.master # Zrtp!None
      BY <2>1, <2>2, ZrtpOrder
    <3>. QED BY <2>9, <3>1, <3>2, <3>3 DEF ZrtpTakenIn
  <2>12. s \notin zrtpSecure[n] /\ s \notin met[n]
    BY <1>2 DEF ZrtpModes
  <2>13. zrtpSecure[n] = {} <=> r.encrypted = 0
    <3>1. IsFiniteSet(zrtpSecure[n])
      BY ZrtpFinite, FS_Subset
    <3>. QED BY <3>1, FS_EmptySet DEF ZrtpModes
  <2>14. z # r.master => zrtpSecure[n] = {} /\
        met[n] \cap {t \in Zrtp!Streams : r.mode[t] = "dh"} = {}
    BY <2>10, ZrtpOrder DEF ZrtpModes
  <2>15. m = "multi" => z \in zrtpSecure[n]
    BY <2>1
  <2>16. m = "dh" /\ z # Zrtp!None => z = s
    BY <2>1, <2>3, <2>10, <2>13 DEF ZrtpModes
  <2>17. ZrtpModes(n, q)
    <3>1. /\ \A t \in zrtpSecure[n] : q.mode[t] # "idle"
          /\ q.encrypted = Cardinality(zrtpSecure[n])
      BY <2>2, <2>4, <2>12 DEF ZrtpModes
    <3>2. zrtpSecure[n] # {} => q.master \in zrtpSecure[n]
      BY <2>2, <2>14 DEF ZrtpModes
    <3>3. \A t \in Zrtp!Streams : q.mode[t] = "multi" => q.master \in zrtpSecure[n]
      BY <2>2, <2>4, <2>14, <2>15 DEF ZrtpModes
    <3>4. \A t \in met[n] : q.mode[t] # "idle" /\ (q.mode[t] = "dh" => q.master = t)
      BY <2>2, <2>4, <2>12, <2>14 DEF ZrtpModes
    <3>5. ASSUME NEW t \in Zrtp!Streams, q.mode[t] = "dh", q.master # Zrtp!None PROVE t = q.master
      <4>1. CASE t = s
        BY <2>2, <2>4, <2>16, <3>5, <4>1
      <4>2. CASE t # s /\ z = r.master
        BY <2>2, <2>4, <3>5, <4>2 DEF ZrtpModes
      <4>3. CASE t # s /\ z # r.master
        <5>1. r.mode[t] = "dh" /\ n \notin parallel /\ r.master = Zrtp!None
          BY <2>4, <2>10, <3>5, <4>3
        <5>. QED BY <5>1 DEF ZrtpTakenIn
      <4>. QED BY <4>1, <4>2, <4>3
    <3>. QED BY <3>1, <3>2, <3>3, <3>4, <3>5 DEF ZrtpModes
  <2>18. (r.master # Zrtp!None => q.master = r.master) /\ (n \in parallel => q.master = r.master)
    BY <2>2, <2>10
  <2>. QED BY <2>6, <2>7, <2>11, <2>17, <2>18 DEF q
<1>. QED BY <1>1, <1>2

\* The streams that are taken in, one after the other.
LEMMA ZrtpUnfolds ==
    ASSUME ZrtpTyped, NEW n \in Zrtp!Ends, Zrtp!Update(n)
    PROVE  \E f : /\ f[0] = session[n]
                  /\ \A i \in 1 .. Len(Order) : f[i] = IF Order[i] \in sdp
                                                       THEN Zrtp!StartStream(n, f[i - 1], Order[i])
                                                       ELSE f[i - 1]
                  /\ session' = [session EXCEPT ![n] = f[Len(Order)]]
<1> DEFINE L == Len(Order)
           Step(i, r) == IF Order[i] \in sdp THEN Zrtp!StartStream(n, r, Order[i]) ELSE r
           Upto(k, f) == f[0] = session[n] /\ \A i \in 1 .. k : f[i] = Step(i, f[i - 1])
           T == {k \in 0 .. L : \E f \in [0 .. k -> ZrtpRec] : Upto(k, f)}
<1>1. L \in Nat /\ session[n] \in ZrtpRec
  BY ZrtpOrder DEF ZrtpTyped
<1>2. ASSUME NEW i \in 1 .. L, NEW r \in ZrtpRec PROVE Step(i, r) \in ZrtpRec
  <2>1. Order[i] \in Zrtp!Streams
    BY ZrtpOrder
  <2>. QED BY <2>1, ZrtpStartTyped
<1> HIDE DEF L, Step
<1>3. 0 \in T
  <2>1. [i \in 0 .. 0 |-> session[n]] \in [0 .. 0 -> ZrtpRec] /\ Upto(0, [i \in 0 .. 0 |->
        session[n]])
    BY <1>1
  <2> DEFINE g == [i \in 0 .. 0 |-> session[n]]
  <2>2. g \in [0 .. 0 -> ZrtpRec] /\ Upto(0, g) /\ 0 \in 0 .. L
    BY <1>1, <2>1
  <2> HIDE DEF g, Upto
  <2>. QED BY <2>2
<1>4. ASSUME NEW k \in 0 .. L, k > 0, k - 1 \in T PROVE k \in T
  <2>1. PICK f \in [0 .. k - 1 -> ZrtpRec] : Upto(k - 1, f)
    BY <1>4
  <2> DEFINE g == [i \in 0 .. k |-> IF i = k THEN Step(k, f[k - 1]) ELSE f[i]]
  <2>2. k \in 1 .. L /\ k - 1 \in 0 .. k - 1
    BY <1>1, <1>4
  <2>3. g \in [0 .. k -> ZrtpRec]
    BY <1>1, <1>2, <2>1, <2>2
  <2>4. Upto(k, g)
    BY <1>1, <2>1, <2>2
  <2>. QED BY <2>3, <2>4
<1>5. PICK f \in [0 .. L -> ZrtpRec] : Upto(L, f)
  <2> HIDE DEF T
  <2>1. 0 .. L \subseteq T
    BY <1>1, <1>3, <1>4, StepByStep
  <2>2. L \in T
    BY <1>1, <2>1
  <2>. QED BY <2>2 DEF T
<1> DEFINE F[i \in 0 .. Len(Order)] ==
              IF i = 0 THEN session[n]
              ELSE IF Order[i] \in sdp THEN Zrtp!StartStream(n, F[i - 1], Order[i]) ELSE F[i - 1]
<1>6. session' = [session EXCEPT ![n] = F[Len(Order)]]
  BY DEF Zrtp!Update
<1>7. f = [i \in 0 .. Len(Order) |->
              IF i = 0 THEN session[n]
              ELSE IF Order[i] \in sdp THEN Zrtp!StartStream(n, f[i - 1], Order[i]) ELSE f[i - 1]]
  BY <1>1, <1>5 DEF L, Step
<1>8. F = [i \in 0 .. Len(Order) |->
              IF i = 0 THEN session[n]
              ELSE IF Order[i] \in sdp THEN Zrtp!StartStream(n, F[i - 1], Order[i]) ELSE F[i - 1]]
  BY <1>7, Zenon
<1> HIDE DEF F
<1>9. F[0] = session[n]
  BY <1>1, <1>8 DEF L
<1>10. ASSUME NEW i \in 1 .. Len(Order)
       PROVE  F[i] = IF Order[i] \in sdp THEN Zrtp!StartStream(n, F[i - 1], Order[i]) ELSE F[i - 1]
  <2>1. i \in 0 .. Len(Order) /\ i # 0
    BY <1>1 DEF L
  <2>. QED BY <1>8, <2>1, Zenon
<1>. QED BY <1>6, <1>9, <1>10, Zenon

\* After all of them the session is as before, with streams of the SDP added.
LEMMA ZrtpTakes ==
    ASSUME ZrtpInv, NEW n \in Zrtp!Ends, Zrtp!Update(n)
    PROVE  \E q \in ZrtpRec :
              /\ session' = [session EXCEPT ![n] = q] /\ ZrtpTakenIn(n, q) /\ ZrtpModes(n, q)
              /\ session[n].master # Zrtp!None => q.master = session[n].master
              /\ ZrtpElems(session[n]) \subseteq ZrtpElems(q)
              /\ ZrtpElems(q) \subseteq ZrtpElems(session[n]) \cup sdp
<1> DEFINE r == session[n]
           L == Len(Order)
           Old == ZrtpElems(r)
           Good(i, q) ==
              /\ q \in ZrtpRec /\ ZrtpTakenIn(n, q) /\ ZrtpModes(n, q)
              /\ r.master # Zrtp!None => q.master = r.master
              /\ (n \in parallel /\ zrtpSecure[n] = {}) => q.master = Zrtp!None
              /\ Old \subseteq ZrtpElems(q)
              /\ \A s \in ZrtpElems(q) : s \in Old \/ (s \in sdp /\ \E j \in 1 .. i : s = Order[j])
<1>1. /\ r \in ZrtpRec /\ ZrtpTakenIn(n, r) /\ ZrtpModes(n, r) /\ Old \subseteq zrtpSecure[n]
      /\ zrtpSecure[n] \subseteq Zrtp!Streams /\ met[n] \subseteq Zrtp!Streams
  <2>1. n \in due
    BY DEF Zrtp!Update
  <2>. QED BY <2>1 DEF ZrtpInv, ZrtpTyped, ZrtpEnd
<1>2. PICK f : /\ f[0] = r
               /\ \A i \in 1 .. Len(Order) : f[i] = IF Order[i] \in sdp
                                                    THEN Zrtp!StartStream(n, f[i - 1], Order[i])
                                                    ELSE f[i - 1]
               /\ session' = [session EXCEPT ![n] = f[Len(Order)]]
  BY ZrtpUnfolds DEF ZrtpInv
<1>3. L \in Nat
  BY ZrtpOrder
<1>4. Good(0, r)
  <2>1. (n \in parallel /\ zrtpSecure[n] = {}) => r.master = Zrtp!None
    BY <1>1 DEF ZrtpTakenIn
  <2>. QED BY <1>1, <2>1
<1>5. ASSUME NEW i \in 1 .. L, NEW q, Good(i - 1, q)
      PROVE  Good(i, IF Order[i] \in sdp THEN Zrtp!StartStream(n, q, Order[i]) ELSE q)
  <2>0. \A j \in 1 .. i - 1 : j \in 1 .. i
    BY <1>3
  <2>1. CASE Order[i] \notin sdp
    BY <1>5, <2>0, <2>1
  <2>2. CASE Order[i] \in sdp
    <3> DEFINE s == Order[i]
               p == Zrtp!StartStream(n, q, s)
    <3>1. s \in Zrtp!Streams /\ \A j \in 1 .. i - 1 : Order[j] # s
      <4>1. i \in 1 .. Len(Order) /\ \A j \in 1 .. i - 1 : j \in 1 .. Len(Order) /\ j # i
        BY <1>3
      <4>. QED BY <4>1, ZrtpOrder
    <3>2. q.mode[s] = "idle" => s \notin ZrtpElems(q)
      <4>1. \A t \in zrtpSecure[n] : q.mode[t] # "idle"
        BY <1>5 DEF ZrtpModes
      <4>. QED BY <1>1, <1>5, <3>1, <4>1
    <3> HIDE DEF s, p
    <3>3. /\ p \in ZrtpRec /\ ZrtpTakenIn(n, p) /\ ZrtpModes(n, p)
          /\ q.master # Zrtp!None => p.master = q.master
          /\ n \in parallel => p.master = q.master
          /\ ZrtpElems(q) \subseteq ZrtpElems(p) /\ ZrtpElems(p) \subseteq ZrtpElems(q) \cup {s}
      BY <1>1, <1>5, <3>1, <3>2, ZrtpTakesOne DEF p
    <3>4. \E j \in 1 .. i : s = Order[j]
      BY <1>3 DEF s
    <3>5. \A t \in ZrtpElems(p) : t \in Old \/ (t \in sdp /\ \E j \in 1 .. i : t = Order[j])
      <4>1. s \in sdp
        BY <2>2 DEF s
      <4>. QED BY <1>5, <2>0, <3>3, <3>4, <4>1
    <3>6. r.master # Zrtp!None => p.master = r.master
      BY <1>5, <3>3
    <3>7. Good(i, p)
      BY <1>5, <3>3, <3>5, <3>6
    <3>. QED BY <2>2, <3>7 DEF p, s
  <2>. QED BY <2>1, <2>2
<1> DEFINE T == {k \in 0 .. L : Good(k, f[k])}
<1> HIDE DEF Good
<1>6. 0 \in T
  BY <1>2, <1>3, <1>4
<1>7. ASSUME NEW k \in 0 .. L, k > 0, k - 1 \in T PROVE k \in T
  <2>1. k \in 1 .. L /\ Good(k - 1, f[k - 1])
    BY <1>3, <1>7
  <2>2. f[k] = IF Order[k] \in sdp THEN Zrtp!StartStream(n, f[k - 1], Order[k]) ELSE f[k - 1]
    BY <1>2, <2>1
  <2>. QED BY <1>5, <2>1, <2>2
<1>8. L \in T
  <2> HIDE DEF T
  <2>1. 0 .. L \subseteq T
    BY <1>3, <1>6, <1>7, StepByStep
  <2>. QED BY <1>3, <2>1
<1>9. Good(L, f[L]) /\ session' = [session EXCEPT ![n] = f[L]]
  BY <1>2, <1>8
<1> DEFINE q == f[L]
<1> HIDE DEF q, L, r
<1>10. /\ q \in ZrtpRec /\ ZrtpTakenIn(n, q) /\ ZrtpModes(n, q)
       /\ r.master # Zrtp!None => q.master = r.master
       /\ Old \subseteq ZrtpElems(q) /\ ZrtpElems(q) \subseteq Old \cup sdp
       /\ session' = [session EXCEPT ![n] = q]
  BY <1>9 DEF Good, q
<1>. QED BY <1>10 DEF r

\* The two ends, each the peer of the other.
LEMMA ZrtpPeers ==
    /\ Zrtp!Ends = {"a", "b"}
    /\ \A n \in Zrtp!Ends : Zrtp!Peer(n) \in Zrtp!Ends /\ Zrtp!Peer(n) # n
                            /\ Zrtp!Peer(Zrtp!Peer(n)) = n
                            /\ \A m \in Zrtp!Ends : m = n \/ m = Zrtp!Peer(n)
BY DEF Zrtp!Ends, Zrtp!Peer

\* The streams a session knows.
LEMMA ZrtpKnows == \A n : Zrtp!Known(n) = ZrtpElems(session[n])
BY Zenon DEF Zrtp!Known, ZrtpElems

\* What follows for an end: only streams that it knows run, have keys or heard of the peer, and
\* those with keys are finitely many.
LEMMA ZrtpFacts ==
    ASSUME ZrtpInv, NEW n \in Zrtp!Ends
    PROVE  /\ session[n] \in ZrtpRec /\ zrtpSecure[n] \subseteq ZrtpElems(session[n])
           /\ ZrtpElems(session[n]) \subseteq Zrtp!Streams /\ met[n] \subseteq Zrtp!Streams
           /\ IsFiniteSet(zrtpSecure[n]) /\ IsFiniteSet(ZrtpElems(session[n]))
           /\ Cardinality(ZrtpElems(session[n])) = Len(session[n].streams)
           /\ zrtpSecure[n] # {} => session[n].master # Zrtp!None
<1>1. /\ session[n] \in ZrtpRec /\ met[n] \subseteq Zrtp!Streams
      /\ zrtpSecure[n] \subseteq Zrtp!Streams
  BY DEF ZrtpInv, ZrtpTyped
<1>2. ZrtpTakenIn(n, session[n]) /\ ZrtpModes(n, session[n])
  BY DEF ZrtpInv
<1>3. zrtpSecure[n] \subseteq ZrtpElems(session[n])
  BY <1>1, <1>2 DEF ZrtpTakenIn, ZrtpModes
<1>4. /\ IsFiniteSet(ZrtpElems(session[n])) /\ ZrtpElems(session[n]) \subseteq Zrtp!Streams
      /\ Cardinality(ZrtpElems(session[n])) = Len(session[n].streams)
  <2> DEFINE r == session[n]
  <2>1. r \in ZrtpRec /\ \A i, j \in 1 .. Len(r.streams) : r.streams[i] = r.streams[j] => i = j
    BY <1>1, <1>2 DEF ZrtpTakenIn
  <2> HIDE DEF r
  <2>2. /\ IsFiniteSet(ZrtpElems(r)) /\ Cardinality(ZrtpElems(r)) = Len(r.streams)
        /\ ZrtpElems(r) \subseteq Zrtp!Streams
    BY <2>1, ZrtpCounts
  <2>. QED BY <2>2 DEF r
<1>5. IsFiniteSet(zrtpSecure[n])
  BY <1>3, <1>4, FS_Subset
<1>6. zrtpSecure[n] # {} => session[n].master # Zrtp!None
  BY <1>1, <1>2, ZrtpOrder DEF ZrtpModes
<1>. QED BY <1>1, <1>3, <1>4, <1>5, <1>6

\* Initially.
LEMMA ZrtpInit == Zrtp!Init => ZrtpInv
<1> SUFFICES ASSUME Zrtp!Init PROVE ZrtpInv
  OBVIOUS
<1> DEFINE r == [master |-> Zrtp!None, encrypted |-> 0, streams |-> <<>>,
                 mode |-> [s \in Zrtp!Streams |-> "idle"]]
<1>1. r \in ZrtpRec /\ ZrtpElems(r) = {} /\ Len(r.streams) = 0
  BY DEF ZrtpRec, ZrtpElems
<1>2. \A n \in Zrtp!Ends : session[n] = r /\ zrtpSecure[n] = {} /\ met[n] = {}
  BY DEF Zrtp!Init
<1>3. ZrtpTyped
  BY <1>1 DEF Zrtp!Init, ZrtpTyped
<1>4. ASSUME NEW n \in Zrtp!Ends
      PROVE  ZrtpTakenIn(n, session[n]) /\ ZrtpModes(n, session[n]) /\ ZrtpEnd(n)
  <2>1. /\ r.master = Zrtp!None /\ r.encrypted = 0 /\ Cardinality({}) = 0
        /\ \A s \in Zrtp!Streams : r.mode[s] = "idle"
    BY FS_EmptySet
  <2>2. due = {}
    BY DEF Zrtp!Init
  <2> HIDE DEF r
  <2>3. ZrtpTakenIn(n, session[n])
    BY <1>1, <1>2, <2>1 DEF ZrtpTakenIn
  <2>4. ZrtpModes(n, session[n])
    BY <1>2, <2>1 DEF ZrtpModes
  <2>5. ZrtpEnd(n)
    BY <1>1, <1>2, <2>2, ZrtpOrder DEF ZrtpEnd
  <2>. QED BY <2>3, <2>4, <2>5
<1>. QED BY <1>3, <1>4 DEF ZrtpInv

\* An offer is answered.
LEMMA ZrtpOffers ==
    ASSUME ZrtpInv, NEW S \in SUBSET Zrtp!Streams, Zrtp!OfferAnswer(S) PROVE ZrtpInv'
<1>1. /\ due = {} /\ sdp' = S /\ due' = Zrtp!Ends
      /\ \A n \in Zrtp!Ends : Zrtp!Known(n) \subseteq zrtpSecure[n]
      /\ \A n \in Zrtp!Ends : Len(session[n].streams) + Zrtp!Cardinality(S) <= MaxStarts
  BY DEF Zrtp!OfferAnswer
<1>2. /\ parallel' = parallel /\ session' = session /\ zrtpHello' = zrtpHello /\ met' = met
      /\ zrtpSecure' = zrtpSecure /\ announced' = announced
  BY DEF Zrtp!OfferAnswer
<1>3. ZrtpTyped'
  BY <1>1, <1>2 DEF ZrtpInv, ZrtpTyped
<1>4. ASSUME NEW n \in Zrtp!Ends
      PROVE  (ZrtpTakenIn(n, session[n]) /\ ZrtpModes(n, session[n]) /\ ZrtpEnd(n))'
  <2>1. ZrtpTakenIn(n, session[n])'
    <3>1. ZrtpElems(session[n])' = ZrtpElems(session[n])
      BY <1>2
    <3>. QED BY <1>2, <3>1 DEF ZrtpInv, ZrtpTakenIn
  <2>2. ZrtpModes(n, session[n])'
    BY <1>2 DEF ZrtpInv, ZrtpModes
  <2>3. /\ ZrtpElems(session[n]) \subseteq zrtpSecure[n]
        /\ Len(session[n].streams) + Cardinality(S) <= MaxStarts
    BY <1>1, ZrtpKnows, ZrtpSets
  <2>4. ZrtpEnd(n)'
    <3>1. ZrtpEnd(n)
      BY DEF ZrtpInv
    <3>2. ZrtpElems(session[n])' = ZrtpElems(session[n])
      BY <1>2
    <3>. QED BY <1>1, <1>2, <2>3, <3>1, <3>2 DEF ZrtpEnd
  <2>. QED BY <2>1, <2>2, <2>4
<1>. QED BY <1>3, <1>4 DEF ZrtpInv

\* What is kept of an end that a step leaves alone, when the other end keeps its keys and, if it
\* has some, its master.
LEMMA ZrtpOthers ==
    ASSUME ZrtpInv, NEW n \in Zrtp!Ends, parallel' = parallel, sdp' = sdp,
           n \in due' => n \in due, session'[n] = session[n], met'[n] = met[n],
           zrtpSecure'[n] = zrtpSecure[n], announced \subseteq announced',
           zrtpSecure[n] # {} => session'[Zrtp!Peer(n)].master = session[Zrtp!Peer(n)].master
    PROVE  (ZrtpTakenIn(n, session[n]) /\ ZrtpModes(n, session[n]) /\ ZrtpEnd(n))'
<1>1. ZrtpTakenIn(n, session[n]) /\ ZrtpModes(n, session[n]) /\ ZrtpEnd(n)
  BY DEF ZrtpInv
<1>2. ZrtpElems(session[n])' = ZrtpElems(session[n])
  OBVIOUS
<1>3. ZrtpTakenIn(n, session[n])'
  BY <1>1, <1>2 DEF ZrtpTakenIn
<1>4. ZrtpModes(n, session[n])'
  BY <1>1 DEF ZrtpModes
<1>5. ZrtpEnd(n)'
  BY <1>1, <1>2 DEF ZrtpEnd
<1>. QED BY <1>3, <1>4, <1>5

\* An end takes the streams of the SDP in.
LEMMA ZrtpUpdates ==
    ASSUME ZrtpInv, NEW n \in Zrtp!Ends, Zrtp!Update(n) PROVE ZrtpInv'
<1>1. /\ n \in due /\ due' = due \ {n}
      /\ sdp' = sdp /\ parallel' = parallel /\ zrtpHello' = zrtpHello /\ met' = met
      /\ zrtpSecure' = zrtpSecure /\ announced' = announced
  BY DEF Zrtp!Update
<1>2. PICK q \in ZrtpRec :
         /\ session' = [session EXCEPT ![n] = q] /\ ZrtpTakenIn(n, q) /\ ZrtpModes(n, q)
         /\ session[n].master # Zrtp!None => q.master = session[n].master
         /\ ZrtpElems(session[n]) \subseteq ZrtpElems(q)
         /\ ZrtpElems(q) \subseteq ZrtpElems(session[n]) \cup sdp
  BY ZrtpTakes
<1>3. session'[n] = q /\ \A m \in Zrtp!Ends : m # n => session'[m] = session[m]
  BY <1>2 DEF ZrtpInv, ZrtpTyped
<1>4. ZrtpTyped'
  BY <1>1, <1>2 DEF ZrtpInv, ZrtpTyped
<1> DEFINE p == Zrtp!Peer(n)
<1>5. p \in Zrtp!Ends /\ p # n /\ Zrtp!Peer(p) = n /\ \A m \in Zrtp!Ends : m = n \/ m = p
  BY ZrtpPeers
<1> HIDE DEF p
<1>6. (ZrtpTakenIn(p, session[p]) /\ ZrtpModes(p, session[p]) /\ ZrtpEnd(p))'
  <2>1. zrtpSecure[p] # {} => session[n].master # Zrtp!None
    BY <1>5, ZrtpFacts DEF ZrtpInv, ZrtpEnd
  <2>. QED BY <1>1, <1>2, <1>3, <1>5, <2>1, ZrtpOthers
<1>7. ZrtpTakenIn(n, session[n])'
  BY <1>1, <1>2, <1>3 DEF ZrtpTakenIn
<1>8. ZrtpModes(n, session[n])'
  BY <1>1, <1>2, <1>3 DEF ZrtpModes
<1>9. ZrtpEnd(n)'
  <2>1. Len(q.streams) <= MaxStarts
    <3> DEFINE E == ZrtpElems(session[n])
    <3>1. Len(session[n].streams) + Cardinality(sdp) <= MaxStarts /\ sdp \subseteq Zrtp!Streams
      BY <1>1 DEF ZrtpInv, ZrtpEnd, ZrtpTyped
    <3>2. IsFiniteSet(sdp) /\ Cardinality(sdp) \in Nat
      BY <3>1, ZrtpFinite, FS_Subset, FS_CardinalityType
    <3>3. IsFiniteSet(E) /\ Cardinality(E) = Len(session[n].streams)
      BY ZrtpFacts
    <3>4. Cardinality(ZrtpElems(q)) = Len(q.streams)
      BY <1>2, ZrtpCounts DEF ZrtpTakenIn
    <3>5. IsFiniteSet(E \cup sdp) /\ Cardinality(E \cup sdp) <= Cardinality(E) + Cardinality(sdp)
      <4>1. /\ IsFiniteSet(E \cup sdp)
            /\ Cardinality(E \cup sdp) = Cardinality(E) + Cardinality(sdp) - Cardinality(E \cap sdp)
        BY <3>2, <3>3, FS_Union
      <4>2. Cardinality(E \cap sdp) \in Nat /\ Cardinality(E) \in Nat
        BY <3>2, <3>3, FS_Intersection, FS_CardinalityType
      <4>. QED BY <3>2, <4>1, <4>2
    <3>6. ZrtpElems(q) \in SUBSET (E \cup sdp)
      BY <1>2
    <3> HIDE DEF E
    <3>7. /\ Cardinality(ZrtpElems(q)) <= Cardinality(E \cup sdp)
          /\ Cardinality(ZrtpElems(q)) \in Nat /\ Cardinality(E \cup sdp) \in Nat
          /\ Cardinality(E) \in Nat
      BY <3>3, <3>5, <3>6, FS_Subset, FS_CardinalityType
    <3> DEFINE a == Len(q.streams)
               b == Len(session[n].streams)
               u == Cardinality(E \cup sdp)
               v == Cardinality(sdp)
    <3>8. a <= u /\ u <= b + v /\ b + v <= MaxStarts /\ a \in Nat /\ b \in Nat /\ u \in Nat /\
          v \in Nat
      BY <3>1, <3>2, <3>3, <3>4, <3>5, <3>7
    <3> HIDE DEF a, b, u, v
    <3>9. a <= MaxStarts
      BY <3>8, ZrtpOrder
    <3>. QED BY <3>9 DEF a
  <2>2. zrtpSecure[n] # {} => q.master = session'[p].master
    BY <1>2, <1>3, <1>5, ZrtpFacts DEF ZrtpInv, ZrtpEnd, p
  <2>3. (ZrtpElems(q) # {} /\ ZrtpElems(q) \subseteq zrtpSecure[n]) => n \in announced
    <3>1. zrtpSecure[n] \subseteq ZrtpElems(session[n])
      BY ZrtpFacts
    <3>. QED BY <1>2, <3>1 DEF ZrtpInv, ZrtpEnd
  <2>. QED BY <1>1, <1>3, <2>1, <2>2, <2>3 DEF ZrtpEnd, p
<1>10. ASSUME NEW m \in Zrtp!Ends
       PROVE  (ZrtpTakenIn(m, session[m]) /\ ZrtpModes(m, session[m]) /\ ZrtpEnd(m))'
  BY <1>5, <1>6, <1>7, <1>8, <1>9
<1>. QED BY <1>4, <1>10 DEF ZrtpInv

\* A Hello is sent or lost, or nothing happens.
LEMMA ZrtpHellos ==
    ASSUME ZrtpInv, UNCHANGED <<sdp, due, parallel, session, met, zrtpSecure, announced>>,
           zrtpHello' \subseteq Zrtp!Ends \X Zrtp!Streams
    PROVE  ZrtpInv'
<1>1. ZrtpTyped'
  BY DEF ZrtpInv, ZrtpTyped
<1>2. ASSUME NEW n \in Zrtp!Ends
      PROVE  (ZrtpTakenIn(n, session[n]) /\ ZrtpModes(n, session[n]) /\ ZrtpEnd(n))'
  BY ZrtpOthers, ZrtpPeers
<1>. QED BY <1>1, <1>2 DEF ZrtpInv

\* The first stream of an end with zrtp_parallel hears of the peer.
LEMMA ZrtpMasters ==
    ASSUME ZrtpInv, NEW n \in Zrtp!Ends, NEW s \in Zrtp!Streams, Zrtp!ReceiveHello(n, s),
           session[n].mode[s] = "dh", n \in parallel, session[n].master = Zrtp!None
    PROVE  ZrtpInv'
<1> DEFINE r == session[n]
           M == [t \in Zrtp!Streams |->
                    IF t = s \/ t \notin Zrtp!Known(n) THEN session[n].mode[t] ELSE "idle"]
           q == [r EXCEPT !.master = s, !.mode = M]
           Met == {t \in met[n] \cup {s} : session'[n].mode[t] # "idle"}
<1>1. /\ sdp' = sdp /\ due' = due /\ parallel' = parallel /\ zrtpHello' = zrtpHello
      /\ zrtpSecure' = zrtpSecure /\ announced' = announced
  BY DEF Zrtp!ReceiveHello
<1>2. session' = [session EXCEPT ![n] = q] /\ met' = [met EXCEPT ![n] = Met]
  BY DEF Zrtp!ReceiveHello, Zrtp!RequestMaster
<1>3. /\ session \in [Zrtp!Ends -> ZrtpRec] /\ met \in [Zrtp!Ends -> SUBSET Zrtp!Streams]
      /\ r \in ZrtpRec
  BY DEF ZrtpInv, ZrtpTyped
<1>4. \A t \in Zrtp!Streams : r.mode[t] # "idle" => t \in ZrtpElems(r)
  BY DEF ZrtpInv, ZrtpTakenIn
<1>5. M \in [Zrtp!Streams -> {"idle", "dh", "multi"}] /\ M[s] = "dh"
      /\ \A t \in Zrtp!Streams : t # s => M[t] = "idle"
  <2>1. r.mode \in [Zrtp!Streams -> {"idle", "dh", "multi"}]
    BY <1>3 DEF ZrtpRec
  <2>2. \A t \in Zrtp!Streams : t \notin Zrtp!Known(n) => r.mode[t] = "idle"
    BY <1>4, ZrtpKnows
  <2>. QED BY <2>1, <2>2
<1> HIDE DEF M
<1>6. q \in ZrtpRec /\ q.master = s /\ q.encrypted = r.encrypted /\ q.streams = r.streams
      /\ q.mode = M
  BY <1>3, <1>5 DEF ZrtpRec
<1> HIDE DEF q
<1>7. session'[n] = q /\ \A m \in Zrtp!Ends : m # n => session'[m] = session[m] /\ met'[m] = met[m]
  BY <1>2, <1>3
<1>8. met'[n] \subseteq {s} /\ Met \in SUBSET Zrtp!Streams
  BY <1>2, <1>3, <1>5, <1>6, <1>7
<1>9. ZrtpTyped'
  BY <1>1, <1>2, <1>3, <1>6, <1>8 DEF ZrtpInv, ZrtpTyped
<1>10. zrtpSecure[n] = {} /\ zrtpSecure[Zrtp!Peer(n)] = {}
  <2>1. zrtpSecure[n] = {}
    BY ZrtpFacts
  <2>2. ASSUME zrtpSecure[Zrtp!Peer(n)] # {} PROVE FALSE
    BY <2>2, ZrtpFacts, ZrtpPeers DEF ZrtpInv, ZrtpEnd
  <2>. QED BY <2>1, <2>2
<1>11. ZrtpElems(q) = ZrtpElems(r) /\ s \in ZrtpElems(r)
  BY <1>4, <1>6 DEF ZrtpElems
<1>12. (ZrtpTakenIn(n, session[n]) /\ ZrtpModes(n, session[n]) /\ ZrtpEnd(n))'
  <2>0. ZrtpTakenIn(n, r) /\ ZrtpModes(n, r) /\ ZrtpEnd(n)
    BY DEF ZrtpInv
  <2> HIDE DEF r
  <2>1. ZrtpTakenIn(n, q)
    BY <1>5, <1>6, <1>11, <2>0 DEF ZrtpTakenIn
  <2>2. ZrtpTakenIn(n, session[n])'
    BY <1>1, <1>7, <2>1 DEF ZrtpTakenIn
  <2>3. ZrtpModes(n, session[n])'
    BY <1>1, <1>5, <1>6, <1>7, <1>8, <1>10, <2>0 DEF ZrtpModes
  <2>4. ZrtpEnd(n)'
    BY <1>1, <1>6, <1>7, <1>10, <1>11, <2>0 DEF ZrtpEnd, r
  <2>. QED BY <2>2, <2>3, <2>4
<1>13. ASSUME NEW m \in Zrtp!Ends, m # n
       PROVE  (ZrtpTakenIn(m, session[m]) /\ ZrtpModes(m, session[m]) /\ ZrtpEnd(m))'
  <2>1. m = Zrtp!Peer(n)
    BY <1>13, ZrtpPeers
  <2>. QED BY <1>1, <1>7, <1>10, <1>13, <2>1, ZrtpOthers
<1>. QED BY <1>9, <1>12, <1>13 DEF ZrtpInv

\* Another stream hears of the peer.
LEMMA ZrtpMeets ==
    ASSUME ZrtpInv, NEW n \in Zrtp!Ends, NEW s \in Zrtp!Streams, Zrtp!ReceiveHello(n, s),
           ~(session[n].mode[s] = "dh" /\ n \in parallel /\ session[n].master = Zrtp!None)
    PROVE  ZrtpInv'
<1>1. /\ sdp' = sdp /\ due' = due /\ parallel' = parallel /\ zrtpHello' = zrtpHello
      /\ zrtpSecure' = zrtpSecure /\ announced' = announced /\ session' = session
  BY DEF Zrtp!ReceiveHello, Zrtp!RequestMaster
<1>2. /\ session \in [Zrtp!Ends -> ZrtpRec] /\ met \in [Zrtp!Ends -> SUBSET Zrtp!Streams]
  BY DEF ZrtpInv, ZrtpTyped
<1>3. session[n].mode[s] # "idle" /\ met' = [met EXCEPT ![n] = met'[n]]
      /\ met'[n] \subseteq met[n] \cup {s}
  BY <1>1, <1>2 DEF Zrtp!ReceiveHello, Zrtp!RequestMaster
<1>4. ZrtpTyped'
  BY <1>1, <1>2, <1>3 DEF ZrtpInv, ZrtpTyped
<1>5. session[n].mode[s] = "dh" => session[n].master = s
  <2>0. ZrtpTakenIn(n, session[n]) /\ ZrtpModes(n, session[n])
    BY DEF ZrtpInv
  <2>1. ASSUME session[n].mode[s] = "dh" PROVE session[n].master # Zrtp!None
    BY <2>0, <2>1 DEF ZrtpTakenIn
  <2>. QED BY <2>0, <2>1 DEF ZrtpModes
<1>6. (ZrtpTakenIn(n, session[n]) /\ ZrtpModes(n, session[n]) /\ ZrtpEnd(n))'
  <2>0. ZrtpTakenIn(n, session[n]) /\ ZrtpModes(n, session[n]) /\ ZrtpEnd(n)
    BY DEF ZrtpInv
  <2>1. ZrtpElems(session[n])' = ZrtpElems(session[n])
    BY <1>1
  <2>2. ZrtpTakenIn(n, session[n])'
    BY <1>1, <2>0, <2>1 DEF ZrtpTakenIn
  <2>3. ZrtpModes(n, session[n])'
    BY <1>1, <1>3, <1>5, <2>0 DEF ZrtpModes
  <2>4. ZrtpEnd(n)'
    BY <1>1, <2>0, <2>1 DEF ZrtpEnd
  <2>. QED BY <2>2, <2>3, <2>4
<1>7. ASSUME NEW m \in Zrtp!Ends, m # n
      PROVE  (ZrtpTakenIn(m, session[m]) /\ ZrtpModes(m, session[m]) /\ ZrtpEnd(m))'
  <2>1. met'[m] = met[m]
    BY <1>2, <1>3, <1>7
  <2>. QED BY <1>1, <2>1, ZrtpOthers
<1>. QED BY <1>4, <1>6, <1>7 DEF ZrtpInv

\* A stream gets its keys.
LEMMA ZrtpSecures ==
    ASSUME ZrtpInv, NEW n \in Zrtp!Ends, NEW s \in Zrtp!Streams, Zrtp!Secure(n, s)
    PROVE  ZrtpInv'
<1> DEFINE r == session[n]
           p == Zrtp!Peer(n)
           c == [r EXCEPT !.encrypted = @ + 1]
           whole == c.encrypted = Len(c.streams) /\ c.master # Zrtp!None
           Go(t) == IF t # s /\ t \in Zrtp!Known(n) /\
                 c.mode[t] = "idle" THEN "multi" ELSE c.mode[t]
           q == IF whole \/ s # c.master THEN c
                ELSE [c EXCEPT !.mode = [t \in Zrtp!Streams |-> Go(t)]]
<1>1. /\ sdp' = sdp /\ due' = due /\ parallel' = parallel /\ zrtpHello' = zrtpHello
      /\ met' = met /\ zrtpSecure' = [zrtpSecure EXCEPT ![n] = @ \cup {s}]
  BY DEF Zrtp!Secure
<1>2. /\ announced' = IF whole THEN announced \cup {n} ELSE announced
      /\ session' = [session EXCEPT ![n] = q]
  BY Zenon DEF Zrtp!Secure, Zrtp!OnSecure
<1>3. /\ s \notin zrtpSecure[n] /\ r.mode[s] # "idle" /\ r.mode[s] = session[p].mode[s]
      /\ s \in met[n] /\ s \in met[p]
      /\ r.mode[s] = "multi" => r.master = session[p].master
  BY Zenon DEF Zrtp!Secure, Zrtp!Agree
<1>4. /\ session \in [Zrtp!Ends -> ZrtpRec] /\ zrtpSecure \in [Zrtp!Ends -> SUBSET Zrtp!Streams]
      /\ r \in ZrtpRec
  BY DEF ZrtpInv, ZrtpTyped
<1>5. ZrtpTakenIn(n, r) /\ ZrtpModes(n, r) /\ ZrtpEnd(n) /\ ZrtpModes(p, session[p]) /\
      p \in Zrtp!Ends
  BY ZrtpPeers DEF ZrtpInv
<1>6. /\ zrtpSecure'[n] = zrtpSecure[n] \cup {s}
      /\ \A m \in Zrtp!Ends : m # n => zrtpSecure'[m] = zrtpSecure[m]
  BY <1>1, <1>4
<1> HIDE DEF r, p
<1>7. /\ c \in ZrtpRec /\ c.encrypted = r.encrypted + 1 /\ c.streams = r.streams
      /\ c.mode = r.mode /\ c.master = r.master
  <2>1. r \in ZrtpRec
    BY <1>4
  <2>. QED BY <2>1 DEF ZrtpRec
<1> HIDE DEF c
<1>8. /\ q \in ZrtpRec /\ q.encrypted = r.encrypted + 1 /\ q.streams = r.streams
      /\ q.master = r.master
      /\ \A t \in Zrtp!Streams : \/ q.mode[t] = r.mode[t]
                                 \/ /\ r.mode[t] = "idle" /\ q.mode[t] = "multi" /\
                                       t \in ZrtpElems(r)
                                    /\ s = r.master
  <2> DEFINE M == [t \in Zrtp!Streams |-> Go(t)]
  <2>1. CASE whole \/ s # c.master
    BY <1>7, <2>1
  <2>2. CASE ~(whole \/ s # c.master)
    <3>1. c.mode \in [Zrtp!Streams -> {"idle", "dh", "multi"}]
      BY <1>7 DEF ZrtpRec
    <3>2. M \in [Zrtp!Streams -> {"idle", "dh", "multi"}]
      BY <3>1
    <3>3. \A t \in Zrtp!Streams : M[t] = c.mode[t] \/ (c.mode[t] = "idle" /\ M[t] = "multi" /\
          t \in Zrtp!Known(n))
      OBVIOUS
    <3>4. q = [c EXCEPT !.mode = M]
      BY <2>2
    <3> HIDE DEF M, q, whole
    <3>5. /\ q \in ZrtpRec /\ q.encrypted = c.encrypted /\ q.streams = c.streams
          /\ q.master = c.master /\ q.mode = M
      BY <1>7, <3>2, <3>4 DEF ZrtpRec
    <3>. QED BY <1>7, <2>2, <3>3, <3>5, ZrtpKnows DEF r
  <2>. QED BY <2>1, <2>2
<1> HIDE DEF q
<1>9. /\ session'[n] = q /\ \A m \in Zrtp!Ends : m # n => session'[m] = session[m]
      /\ announced \subseteq announced' /\ announced' \subseteq announced \cup {n}
  BY <1>2, <1>4
<1>10. ZrtpTyped'
  BY <1>1, <1>2, <1>4, <1>8, <1>9 DEF ZrtpInv, ZrtpTyped
<1>11. /\ r.master = session[p].master /\ (r.mode[s] = "dh" => r.master = s)
       /\ r.master \in zrtpSecure[n] \cup {s} /\ r.mode[s] \in {"dh", "multi"}
  <2>1. r.mode[s] \in {"dh", "multi"}
    BY <1>3, <1>4 DEF ZrtpRec
  <2>2. CASE r.mode[s] = "dh"
    BY <1>3, <1>5, <2>2 DEF ZrtpModes
  <2>3. CASE r.mode[s] = "multi"
    BY <1>3, <1>5, <2>3 DEF ZrtpModes
  <2>. QED BY <2>1, <2>2, <2>3
<1>12. ZrtpElems(q) = ZrtpElems(r) /\ s \in ZrtpElems(r)
  BY <1>3, <1>5, <1>8 DEF ZrtpElems, ZrtpTakenIn
<1>13. ZrtpTakenIn(n, session[n])'
  <2>1. ZrtpTakenIn(n, q)
    BY <1>5, <1>8, <1>12 DEF ZrtpTakenIn
  <2>. QED BY <1>1, <1>9, <2>1 DEF ZrtpTakenIn
<1>14. Cardinality(zrtpSecure'[n]) = q.encrypted /\ q.encrypted = r.encrypted + 1
  <2>1. IsFiniteSet(zrtpSecure[n]) /\ r.encrypted = Cardinality(zrtpSecure[n])
    BY <1>5, ZrtpFacts DEF ZrtpModes
  <2>2. Cardinality(zrtpSecure[n] \cup {s}) = Cardinality(zrtpSecure[n]) + 1
    BY <1>3, <2>1, FS_AddElement
  <2>. QED BY <1>6, <1>8, <2>1, <2>2
<1>15. ZrtpModes(n, session[n])'
  <2>1. \A t \in zrtpSecure'[n] : q.mode[t] # "idle"
    BY <1>3, <1>4, <1>5, <1>6, <1>8 DEF ZrtpModes
  <2>2. q.master \in zrtpSecure'[n]
    BY <1>6, <1>8, <1>11
  <2>3. \A t \in Zrtp!Streams : (q.mode[t] = "dh" /\ q.master # Zrtp!None) => t = q.master
    BY <1>5, <1>8 DEF ZrtpModes
  <2>4. \A t \in met[n] : q.mode[t] # "idle" /\ (q.mode[t] = "dh" => q.master = t)
    <3>1. met[n] \subseteq Zrtp!Streams
      BY ZrtpFacts
    <3>. QED BY <1>5, <1>8, <3>1 DEF ZrtpModes
  <2>. QED BY <1>1, <1>9, <1>14, <2>1, <2>2, <2>3, <2>4 DEF ZrtpModes
<1>16. ZrtpEnd(n)'
  <2>1. n \notin due'
    BY <1>1, <1>3, <1>5, <1>12 DEF ZrtpEnd, r
  <2>2. Len(q.streams) <= MaxStarts
    BY <1>5, <1>8 DEF ZrtpEnd, r
  <2>3. q.master = session'[p].master
    BY <1>8, <1>9, <1>11, ZrtpPeers DEF p
  <2>4. ASSUME ZrtpElems(q) \subseteq zrtpSecure'[n] PROVE n \in announced'
    <3>1. zrtpSecure[n] \subseteq ZrtpElems(r) /\ Cardinality(ZrtpElems(r)) = Len(r.streams)
      BY ZrtpFacts DEF r
    <3>2. zrtpSecure'[n] = ZrtpElems(r)
      BY <1>6, <1>12, <2>4, <3>1
    <3>3. c.encrypted = Len(c.streams)
      BY <1>7, <1>14, <3>1, <3>2
    <3>4. c.master # Zrtp!None
      <4>1. zrtpSecure[n] \subseteq Zrtp!Streams
        BY <1>4
      <4>. QED BY <1>7, <1>11, <4>1, ZrtpOrder
    <3>. QED BY <1>2, <3>3, <3>4
  <2>. QED BY <1>9, <2>1, <2>2, <2>3, <2>4 DEF ZrtpEnd, p
<1>17. ASSUME NEW m \in Zrtp!Ends, m # n
       PROVE  (ZrtpTakenIn(m, session[m]) /\ ZrtpModes(m, session[m]) /\ ZrtpEnd(m))'
  <2>1. m = p /\ Zrtp!Peer(m) = n /\ session'[n].master = session[n].master
    BY <1>8, <1>9, <1>17, ZrtpPeers DEF p, r
  <2>. QED BY <1>1, <1>6, <1>9, <1>17, <2>1, ZrtpOthers
<1>. QED BY <1>10, <1>13, <1>15, <1>16, <1>17 DEF ZrtpInv

\* Every step.
LEMMA ZrtpNext == ZrtpInv /\ [Zrtp!Next]_zrtpVars => ZrtpInv'
<1> SUFFICES ASSUME ZrtpInv, [Zrtp!Next]_zrtpVars PROVE ZrtpInv'
  OBVIOUS
<1>1. \/ \E S \in SUBSET Zrtp!Streams : Zrtp!OfferAnswer(S)
      \/ \E n \in Zrtp!Ends : Zrtp!Update(n)
      \/ \E n \in Zrtp!Ends : \E s \in Zrtp!Streams :
            Zrtp!SendHello(n, s) \/ Zrtp!ReceiveHello(n, s) \/ Zrtp!Secure(n, s)
      \/ \E h \in zrtpHello : Zrtp!Lose(h)
      \/ UNCHANGED zrtpVars
  BY Zenon DEF Zrtp!Next
<1>2. zrtpHello \subseteq Zrtp!Ends \X Zrtp!Streams
  BY DEF ZrtpInv, ZrtpTyped
<1>3. ASSUME NEW n \in Zrtp!Ends, NEW s \in Zrtp!Streams, Zrtp!SendHello(n, s) PROVE ZrtpInv'
  BY <1>2, <1>3, ZrtpHellos DEF Zrtp!SendHello
<1>4. ASSUME NEW h \in zrtpHello, Zrtp!Lose(h) PROVE ZrtpInv'
  BY <1>2, <1>4, ZrtpHellos DEF Zrtp!Lose
<1>5. ASSUME UNCHANGED zrtpVars PROVE ZrtpInv'
  BY <1>2, <1>5, ZrtpHellos DEF zrtpVars
<1>6. ASSUME NEW n \in Zrtp!Ends, NEW s \in Zrtp!Streams, Zrtp!ReceiveHello(n, s) PROVE ZrtpInv'
  BY <1>6, ZrtpMasters, ZrtpMeets
<1>. QED BY <1>1, <1>3, <1>4, <1>5, <1>6, ZrtpOffers, ZrtpUpdates, ZrtpSecures, Zenon

\* What the invariant is for.
LEMMA ZrtpSafe == ZrtpInv => Zrtp!TypeOK /\ Zrtp!AnnouncedWhenAll /\ Zrtp!SecureStays
<1> SUFFICES ASSUME ZrtpInv PROVE Zrtp!TypeOK /\ Zrtp!AnnouncedWhenAll /\ Zrtp!SecureStays
  OBVIOUS
<1>1. Zrtp!TypeOK
  <2>1. ASSUME NEW n \in Zrtp!Ends
        PROVE  /\ session[n].master \in Zrtp!Streams \cup {Zrtp!None}
               /\ session[n].encrypted \in 0 .. Cardinality(Zrtp!Streams)
               /\ session[n].streams \in Seq(Zrtp!Streams) /\ Len(session[n].streams) <= MaxStarts
               /\ session[n].mode \in [Zrtp!Streams -> {"idle", "dh", "multi"}]
    <3>1. session[n] \in ZrtpRec /\ ZrtpModes(n, session[n]) /\ ZrtpEnd(n)
      BY DEF ZrtpInv, ZrtpTyped
    <3>2. session[n].encrypted = Cardinality(zrtpSecure[n]) /\ Len(session[n].streams) <= MaxStarts
      BY <3>1 DEF ZrtpModes, ZrtpEnd
    <3>3. zrtpSecure[n] \in SUBSET Zrtp!Streams
      BY DEF ZrtpInv, ZrtpTyped
    <3>4. /\ Cardinality(zrtpSecure[n]) <= Cardinality(Zrtp!Streams)
          /\ Cardinality(zrtpSecure[n]) \in Nat /\ Cardinality(Zrtp!Streams) \in Nat
      BY <3>3, ZrtpFinite, FS_Subset, FS_CardinalityType
    <3>. QED BY <3>1, <3>2, <3>4 DEF ZrtpRec
  <2>. QED BY <2>1, ZrtpSets DEF ZrtpInv, ZrtpTyped, Zrtp!TypeOK
<1>2. Zrtp!AnnouncedWhenAll
  BY ZrtpKnows DEF Zrtp!AnnouncedWhenAll, ZrtpInv, ZrtpEnd
<1>3. Zrtp!SecureStays
  <2>1. ASSUME NEW n \in Zrtp!Ends, NEW s \in zrtpSecure[n]
        PROVE  /\ session[n].mode[s] # "idle" /\ session[n].master \in zrtpSecure[n]
               /\ session[n].master = session[Zrtp!Peer(n)].master
    BY DEF ZrtpInv, ZrtpModes, ZrtpEnd
  <2>. QED BY <2>1, Zenon DEF Zrtp!SecureStays
<1>. QED BY <1>1, <1>2, <1>3

-----------------------------------------------------------------------------
(* Proof about Zrtp, for any streams and hashes. *)

\* The inductive invariant.
PlainInv ==
    /\ Plain!TypeOK /\ Plain!QuietAfterAttack /\ Plain!SecureIsKept /\ Plain!AbortEnds

\* The types, one by one.
LEMMA PlainTypes ==
    ASSUME PlainInv
    PROVE  /\ sess \in {"live", "gone"} /\ {err, plainTimer, errorh, late} \subseteq BOOLEAN
           /\ stream \in [Media -> {"none", "attached", "started"}]
           /\ plainAddr \in [Media -> BOOLEAN] /\ hash \in [Media -> {"none", "right", "wrong"}]
           /\ plainHello \in [Media -> BOOLEAN] /\ plainSecure \in [Media -> BOOLEAN]
           /\ packet \in Plain!Packet
BY Zenon DEF PlainInv, Plain!TypeOK

\* No packet is under way.
PlainQuiet ==
    /\ Plain!TypeOK /\ packet = Plain!Nothing /\ Plain!AbortEnds

\* Then nothing is sent or heard that should not be.
LEMMA PlainIsQuiet == PlainQuiet => PlainInv
BY DEF PlainQuiet, PlainInv, Plain!QuietAfterAttack, Plain!SecureIsKept

\* The same after a step.
LEMMA PlainIsQuietNext == PlainQuiet' => PlainInv'
BY DEF PlainQuiet, PlainInv, Plain!QuietAfterAttack, Plain!SecureIsKept

\* A packet is sent or heard, and nothing else happens.
LEMMA PlainPacket ==
    ASSUME PlainInv, UNCHANGED <<sess, err, plainTimer, errorh, late, stream, plainAddr, hash,
                                 plainHello, plainSecure>>,
           \/ packet' = Plain!Nothing
           \/ \E way \in {"out", "in"}, m \in Media, type \in Plain!Type,
                  form \in {"clear", "coded", "bad"} :
                 /\ packet' = [way |-> way, m |-> m, type |-> type, form |-> form] /\ ~err
                 /\ plainSecure[m] /\ type = "media" =>
                        form = IF way = "out" THEN "coded" ELSE "clear"
    PROVE  PlainInv'
<1>1. packet' \in Plain!Packet
  BY DEF Plain!Packet, Plain!Type
<1>2. Plain!TypeOK'
  <2>1. {err, plainTimer, errorh, late}' \subseteq BOOLEAN
    BY PlainTypes
  <2>. QED BY <1>1, <2>1, PlainTypes DEF Plain!TypeOK
<1>3. Plain!QuietAfterAttack' /\ Plain!AbortEnds'
  BY DEF PlainInv, Plain!QuietAfterAttack, Plain!AbortEnds
<1>4. Plain!SecureIsKept'
  BY DEF Plain!SecureIsKept
<1>. QED BY <1>2, <1>3, <1>4 DEF PlainInv

\* The session is there, and its streams are not.
LEMMA PlainInit == Plain!Init => PlainInv
<1> SUFFICES ASSUME Plain!Init PROVE PlainQuiet
  BY PlainIsQuiet
<1>1. {err, plainTimer, errorh, late} \subseteq BOOLEAN
  BY Zenon DEF Plain!Init
<1>. QED BY <1>1 DEF Plain!Init, PlainQuiet, Plain!TypeOK, Plain!AbortEnds, Plain!Packet

\* Every step keeps the invariant.
LEMMA PlainNext == PlainInv /\ [Plain!Next]_plainVars => PlainInv'
<1> SUFFICES ASSUME PlainInv, [Plain!Next]_plainVars PROVE PlainInv'
  OBVIOUS
<1>1. CASE UNCHANGED plainVars
  BY <1>1, Zenon DEF plainVars, PlainInv, Plain!TypeOK, Plain!QuietAfterAttack, Plain!SecureIsKept,
                     Plain!AbortEnds
<1>2. ASSUME Plain!Released, errorh' \in BOOLEAN, late' \in BOOLEAN PROVE PlainInv'
  <2>1. /\ sess' = "gone" /\ plainTimer' = FALSE /\ stream' = [m \in Media |-> "none"]
        /\ plainSecure' = [m \in Media |-> FALSE] /\ plainHello' = [m \in Media |-> FALSE]
        /\ packet' = Plain!Nothing /\ UNCHANGED <<err, plainAddr, hash>>
    BY <1>2 DEF Plain!Released
  <2>2. {err, plainTimer, errorh, late}' \subseteq BOOLEAN
    BY <1>2, <2>1, PlainTypes
  <2>3. PlainQuiet'
    BY <2>1, <2>2, PlainTypes DEF PlainQuiet, Plain!TypeOK, Plain!AbortEnds, Plain!Packet
  <2>. QED BY <2>3, PlainIsQuietNext
<1>3. CASE Plain!AbortTimerH \/ Plain!CallEnds
  BY <1>2, <1>3, PlainTypes DEF Plain!AbortTimerH, Plain!CallEnds
<1>4. ASSUME NEW m \in Media, Plain!OnSendPacket(m) PROVE PlainInv'
  <2>1. UNCHANGED <<sess, err, plainTimer, errorh, late, stream, plainAddr, hash, plainHello,
                  plainSecure>>
    BY <1>4 DEF Plain!OnSendPacket, Plain!session, Plain!streams
  <2>2. \/ packet' = Plain!Nothing
        \/ ~err /\ packet' = [way |-> "out", m |-> m, type |-> "zrtp", form |-> "clear"]
    BY <1>4 DEF Plain!OnSendPacket, Plain!DropPackets
  <2>. QED BY <2>1, <2>2, PlainPacket DEF Plain!Type
<1>5. ASSUME NEW m \in Media, NEW set \in BOOLEAN, NEW h \in Hashes, Plain!MediaAlloc(m, set, h)
      PROVE  PlainInv'
  <2>1. /\ stream' \in [Media -> {"none", "attached", "started"}]
        /\ plainAddr' \in [Media -> BOOLEAN] /\ hash' \in [Media -> {"none", "right", "wrong"}]
        /\ packet' = Plain!Nothing
        /\ UNCHANGED <<sess, err, plainTimer, errorh, late, plainHello, plainSecure>>
    BY <1>5, PlainTypes, PartsAssumption, ZenonT(60)
       DEF Plain!MediaAlloc, Plain!SigHash, Plain!session, Plain!ZrtpAssumption
  <2>2. {err, plainTimer, errorh, late}' \subseteq BOOLEAN
    BY <2>1, PlainTypes
  <2>3. Plain!TypeOK' /\ Plain!AbortEnds'
    BY <2>1, <2>2, PlainTypes DEF PlainInv, Plain!TypeOK, Plain!AbortEnds, Plain!Packet
  <2>4. PlainQuiet'
    BY <2>1, <2>3 DEF PlainQuiet
  <2>. QED BY <2>4, PlainIsQuietNext
<1>6. ASSUME NEW m \in Media, NEW type \in Plain!Type, Plain!UdpHelperSend(m, type) PROVE PlainInv'
  <2>1. UNCHANGED <<sess, err, plainTimer, errorh, late, stream, plainAddr, hash, plainHello,
                  plainSecure>>
    BY <1>6 DEF Plain!UdpHelperSend, Plain!session, Plain!streams
  <2>2. \/ packet' = Plain!Nothing
        \/ \E form \in {"clear", "coded"} :
              /\ ~err /\ packet' = [way |-> "out", m |-> m, type |-> type, form |-> form]
              /\ plainSecure[m] /\ type = "media" => form = "coded"
    BY <1>6 DEF Plain!UdpHelperSend, Plain!DropPackets, Plain!Processed
  <2>. QED BY <2>1, <2>2, PlainPacket
<1>7. ASSUME NEW m \in Media, NEW p \in Plain!Incoming, Plain!UdpHelperRecv(m, p) PROVE PlainInv'
  <2>1. UNCHANGED <<stream, plainAddr, hash>> /\ sess = "live" /\ p.type \in Plain!Type
    BY <1>7 DEF Plain!UdpHelperRecv, Plain!streams, Plain!Incoming, Plain!Type
  <2>2. CASE Plain!DropPackets(m) \/ (p.type = "zrtp" /\ stream[m] # "started")
    BY <1>7, <2>1, <2>2, PlainPacket DEF Plain!UdpHelperRecv, Plain!session
  <2>3. CASE ~(Plain!DropPackets(m) \/ (p.type = "zrtp" /\ stream[m] # "started"))
             /\ p.type = "zrtp"
    <3>1. packet' = Plain!Nothing /\ Plain!Protocol(m, p)
      BY <1>7, <2>3 DEF Plain!UdpHelperRecv
    <3>2. \/ /\ UNCHANGED <<sess, err, plainTimer, errorh, late>>
             /\ plainHello' \in [Media -> BOOLEAN] /\ plainSecure' \in [Media -> BOOLEAN]
          \/ Plain!AbortCall
      <4>1. \/ /\ plainSecure' = [plainSecure EXCEPT ![m] = TRUE]
               /\ UNCHANGED <<Plain!session, plainHello>>
            \/ /\ plainHello' = [plainHello EXCEPT ![m] = TRUE]
               /\ UNCHANGED <<Plain!session, plainSecure>>
            \/ Plain!AbortCall
            \/ UNCHANGED <<Plain!session, plainHello, plainSecure>>
        BY <3>1, Zenon DEF Plain!Protocol
      <4>. QED BY <4>1, PlainTypes DEF Plain!session
    <3>3. /\ {err, plainTimer, errorh, late}' \subseteq BOOLEAN
          /\ (err' /\ sess' = "live" => plainTimer')
          /\ plainHello' \in [Media -> BOOLEAN] /\ plainSecure' \in [Media -> BOOLEAN]
          /\ sess' = sess
      <4>1. CASE Plain!AbortCall
        <5>1. /\ err' = TRUE /\ plainTimer' = (plainTimer \/ ~err)
              /\ UNCHANGED <<sess, errorh, late, plainHello, plainSecure>>
          BY <4>1 DEF Plain!AbortCall
        <5>. QED BY <2>1, <5>1, PlainTypes DEF PlainInv, Plain!AbortEnds
      <4>2. CASE /\ UNCHANGED <<sess, err, plainTimer, errorh, late>>
                 /\ plainHello' \in [Media -> BOOLEAN] /\ plainSecure' \in [Media -> BOOLEAN]
        BY <4>2, PlainTypes DEF PlainInv, Plain!AbortEnds
      <4>. QED BY <3>2, <4>1, <4>2
    <3>4. PlainQuiet'
      BY <2>1, <3>1, <3>3, PlainTypes DEF PlainQuiet, Plain!TypeOK, Plain!AbortEnds, Plain!Packet
    <3>. QED BY <3>4, PlainIsQuietNext
  <2>4. CASE ~(Plain!DropPackets(m) \/ (p.type = "zrtp" /\ stream[m] # "started"))
             /\ p.type # "zrtp"
    <3>1. UNCHANGED <<sess, err, plainTimer, errorh, late, stream, plainAddr, hash, plainHello,
                      plainSecure>>
      BY <1>7, <2>1, <2>4 DEF Plain!UdpHelperRecv, Plain!session
    <3>2. \/ packet' = Plain!Nothing
          \/ \E form \in {"clear", "coded", "bad"} :
                /\ packet' = [way |-> "in", m |-> m, type |-> p.type, form |-> form] /\ ~err
                /\ plainSecure[m] /\ p.type = "media" => form = "clear"
      <4>1. p.form \in {"clear", "coded"} /\ ~err
        BY <2>4 DEF Plain!Incoming, Plain!DropPackets
      <4>2. \/ /\ p.type = "other"
               /\ packet' = [way |-> "in", m |-> m, type |-> p.type, form |-> "clear"]
            \/ packet' = Plain!Nothing
            \/ /\ ~plainSecure[m]
               /\ packet' = [way |-> "in", m |-> m, type |-> p.type,
                             form |-> IF p.form = "coded" THEN "bad" ELSE p.form]
            \/ packet' = [way |-> "in", m |-> m, type |-> p.type, form |-> "clear"]
        BY <1>7, <2>4, Zenon DEF Plain!UdpHelperRecv, Plain!Processed
      <4>. QED BY <4>1, <4>2
    <3>. QED BY <2>1, <3>1, <3>2, PlainPacket
  <2>. QED BY <2>2, <2>3, <2>4
<1>. QED BY <1>1, <1>3, <1>4, <1>5, <1>6, <1>7 DEF Plain!Next

-----------------------------------------------------------------------------
(* Proof about NatDetect, for any protocols and results. *)

\* The inductive invariant: no test is stuck, and something will start the next ones.
NatbdInv ==
    /\ natbd \in [NatbdProto -> BOOLEAN] /\ dns \in [NatbdProto -> BOOLEAN]
    /\ natbdSrv \in [NatbdProto -> BOOLEAN]
    /\ natbdTimer \in [NatbdProto -> {"init", "interval", "none"}]
    /\ test \in [NatbdProto -> [Natbd!Test -> {"none", "running"}]]
    /\ result \in [NatbdProto -> [Natbd!Test -> Natbd!Found]]
    /\ lifetime \in [NatbdProto -> {"none", "running", "stuck"}]
    /\ probes \in [NatbdProto -> 0 .. MaxProbes] /\ Natbd!GoesOn

\* It says what AllTypesOK and PeersAgree do of the tests.
LEMMA NatbdSafe == NatbdInv => Natbd!TypeOK /\ Natbd!GoesOn
<1> SUFFICES ASSUME NatbdInv PROVE Natbd!TypeOK /\ Natbd!GoesOn
  OBVIOUS
<1>1. {natbd[p] : p \in NatbdProto} \cup {dns[p] : p \in NatbdProto}
          \cup {natbdSrv[p] : p \in NatbdProto} \subseteq BOOLEAN
  BY DEF NatbdInv
<1>2. \A p \in NatbdProto : test[p] \in [Natbd!Test -> {"none", "running", "stuck"}]
  BY DEF NatbdInv
<1>3. test \in [NatbdProto -> [Natbd!Test -> {"none", "running", "stuck"}]]
  BY <1>2 DEF NatbdInv
<1>. QED BY <1>1, <1>3 DEF NatbdInv, Natbd!TypeOK

\* All tests of a protocol run.
LEMMA NatbdStart ==
    ASSUME NatbdInv, NEW p \in NatbdProto, Natbd!StartTests(p)
    PROVE  /\ test' \in [NatbdProto -> [Natbd!Test -> {"none", "running"}]]
           /\ \A t \in Natbd!Tests(p) : test'[p][t] = "running"
<1> DEFINE F == [t \in Natbd!Test |->
                    IF t \in Natbd!Tests(p) THEN "running" ELSE test[p][t]]
<1>1. test \in [NatbdProto -> [Natbd!Test -> {"none", "running"}]] /\
      Natbd!Tests(p) \subseteq Natbd!Test
  BY DEF NatbdInv, Natbd!Tests
<1>2. test' = [test EXCEPT ![p] = [t \in Natbd!Test |->
                      CASE t \notin Natbd!Tests(p) \/ test[p][t] # "none" -> test[p][t]
                        [] t \in {} -> "stuck"
                        [] OTHER -> "running"]]
  BY Zenon DEF Natbd!StartTests
<1>3. ASSUME NEW t \in Natbd!Test
      PROVE  (CASE t \notin Natbd!Tests(p) \/ test[p][t] # "none" -> test[p][t]
                [] t \in {} -> "stuck"
                [] OTHER -> "running") = F[t]
  <2>1. test[p][t] = "none" \/ test[p][t] = "running"
    BY <1>1
  <2>2. CASE t \notin Natbd!Tests(p) \/ test[p][t] # "none"
    BY <2>1, <2>2
  <2>3. CASE ~(t \notin Natbd!Tests(p) \/ test[p][t] # "none")
    BY <2>1, <2>3, Zenon
  <2>. QED BY <2>2, <2>3
<1>4. test' = [test EXCEPT ![p] = F]
  BY <1>2, <1>3, Zenon
<1>. QED BY <1>1, <1>4

\* The tests have not begun.
LEMMA NatbdInit == Natbd!Init => NatbdInv
<1> SUFFICES ASSUME Natbd!Init PROVE NatbdInv
  OBVIOUS
<1>1. MaxProbes \in Nat
  BY PartsAssumption DEF Natbd!NatDetectAssumption
<1>2. Natbd!GoesOn
  BY DEF Natbd!Init, Natbd!GoesOn
<1>. QED BY <1>1, <1>2 DEF NatbdInv, Natbd!Init, Natbd!Found

\* Every step keeps the invariant, and an interval starts all tests.
LEMMA NatbdNext ==
    NatbdInv /\ [Natbd!Next]_natbdVars =>
        /\ NatbdInv'
        /\ \A p \in NatbdProto :
               Natbd!Timeout(p) => \A t \in Natbd!Tests(p) : test'[p][t] = "running"
<1> SUFFICES ASSUME NatbdInv, [Natbd!Next]_natbdVars
             PROVE  NatbdInv'
  BY NatbdStart DEF Natbd!Timeout
<1>1. /\ natbd \in [NatbdProto -> BOOLEAN] /\ dns \in [NatbdProto -> BOOLEAN]
      /\ natbdSrv \in [NatbdProto -> BOOLEAN]
      /\ natbdTimer \in [NatbdProto -> {"init", "interval", "none"}]
      /\ test \in [NatbdProto -> [Natbd!Test -> {"none", "running"}]]
      /\ result \in [NatbdProto -> [Natbd!Test -> Natbd!Found]]
      /\ lifetime \in [NatbdProto -> {"none", "running", "stuck"}]
      /\ probes \in [NatbdProto -> 0 .. MaxProbes] /\ Natbd!GoesOn /\ MaxProbes \in Nat
  BY PartsAssumption DEF NatbdInv, Natbd!NatDetectAssumption
<1>2. CASE UNCHANGED natbdVars
  <2>1. natbd' = natbd /\ natbdTimer' = natbdTimer /\ dns' = dns /\ natbdSrv' = natbdSrv /\
        test' = test
        /\ result' = result /\ lifetime' = lifetime /\ probes' = probes
    BY <1>2 DEF natbdVars
  <2>2. Natbd!GoesOn'
    BY <1>1, <2>1 DEF Natbd!GoesOn
  <2>. QED BY <1>1, <2>1, <2>2 DEF NatbdInv
<1>3. ASSUME NEW p \in NatbdProto, Natbd!DnsHandler(p, TRUE), UNCHANGED <<natbd, result, probes>>
      PROVE  NatbdInv'
  <2>1. /\ dns' = [dns EXCEPT ![p] = FALSE] /\ natbdSrv' = [natbdSrv EXCEPT ![p] = TRUE]
        /\ Natbd!StartTests(p) /\ natbdTimer' = [natbdTimer EXCEPT ![p] = "interval"]
        /\ \E l \in {"none", "running", "stuck"} : lifetime' = [lifetime EXCEPT ![p] = l]
    <3>1. \E l \in {"running", "stuck"} :
              lifetime' = [lifetime EXCEPT ![p] = IF p = "udp" THEN l ELSE @]
      BY <1>3, Zenon DEF Natbd!DnsHandler
    <3>. QED BY <1>1, <1>3, <3>1 DEF Natbd!DnsHandler
  <2>2. test' \in [NatbdProto -> [Natbd!Test -> {"none", "running"}]]
    BY <2>1, NatbdStart
  <2>3. Natbd!GoesOn'
    BY <1>1, <1>3, <2>1 DEF Natbd!GoesOn
  <2>. QED BY <1>1, <1>3, <2>1, <2>2, <2>3 DEF NatbdInv
<1>4. ASSUME NEW p \in NatbdProto, Natbd!TimeoutInit(p) PROVE NatbdInv'
  <2>1. CASE natbdSrv[p]
    BY <1>3, <1>4, <2>1 DEF Natbd!TimeoutInit
  <2>2. CASE ~natbdSrv[p]
    <3>1. /\ dns' = [dns EXCEPT ![p] = TRUE] /\ natbdTimer' = [natbdTimer EXCEPT ![p] = "none"]
          /\ UNCHANGED <<natbdSrv, test, lifetime, natbd, result, probes>>
      BY <1>4, <2>2 DEF Natbd!TimeoutInit
    <3>2. Natbd!GoesOn'
      BY <1>1, <3>1 DEF Natbd!GoesOn
    <3>. QED BY <1>1, <3>1, <3>2 DEF NatbdInv
  <2>. QED BY <2>1, <2>2
<1>5. ASSUME NEW p \in NatbdProto, NEW ok \in BOOLEAN, Natbd!Resolved(p, ok) PROVE NatbdInv'
  <2>1. ok = TRUE
    BY <1>5 DEF Natbd!Resolved
  <2>. QED BY <1>3, <1>5, <2>1 DEF Natbd!Resolved
<1>6. ASSUME NEW p \in NatbdProto, Natbd!Timeout(p) PROVE NatbdInv'
  <2>1. test' \in [NatbdProto -> [Natbd!Test -> {"none", "running"}]]
        /\ UNCHANGED <<natbd, natbdTimer, dns, natbdSrv, result, lifetime, probes>>
    BY <1>6, NatbdStart DEF Natbd!Timeout
  <2>2. Natbd!GoesOn'
    BY <1>1, <2>1 DEF Natbd!GoesOn
  <2>. QED BY <1>1, <2>1, <2>2 DEF NatbdInv
<1>7. ASSUME NEW p \in NatbdProto, Natbd!Ends(p) PROVE NatbdInv'
  <2>1. PICK r \in Natbd!Found, t \in Natbd!Test, kept \in BOOLEAN :
            Natbd!Reported(p, t, r, kept) /\ Natbd!Release(p, t)
    BY <1>7 DEF Natbd!Ends, Natbd!HairpinningHandler, Natbd!MappingHandler, Natbd!FilteringHandler,
                Natbd!GenalgHandler, Natbd!Test
  <2>2. /\ test' = [test EXCEPT ![p][t] = "none"]
        /\ \E q \in {r, result[p][t]} : result' = [result EXCEPT ![p][t] = q]
        /\ UNCHANGED <<natbd, natbdTimer, dns, natbdSrv, lifetime, probes>>
    BY <1>1, <2>1 DEF Natbd!Reported, Natbd!Release
  <2>3. test' \in [NatbdProto -> [Natbd!Test -> {"none", "running"}]]
    BY <1>1, <2>2
  <2>4. result' \in [NatbdProto -> [Natbd!Test -> Natbd!Found]]
    BY <1>1, <2>2
  <2>5. Natbd!GoesOn'
    BY <1>1, <2>2 DEF Natbd!GoesOn
  <2>. QED BY <1>1, <2>2, <2>3, <2>4, <2>5 DEF NatbdInv
<1>8. ASSUME NEW p \in NatbdProto, Natbd!LifetimeHandler(p) PROVE NatbdInv'
  <2>1. /\ probes[p] < MaxProbes /\ probes' = [probes EXCEPT ![p] = @ + 1]
        /\ UNCHANGED <<natbd, natbdTimer, dns, natbdSrv, test, result, lifetime>>
    BY <1>8 DEF Natbd!LifetimeHandler
  <2>2. probes' \in [NatbdProto -> 0 .. MaxProbes]
    BY <1>1, <2>1
  <2>3. Natbd!GoesOn'
    BY <1>1, <2>1 DEF Natbd!GoesOn
  <2>. QED BY <1>1, <2>1, <2>2, <2>3 DEF NatbdInv
<1>9. CASE Natbd!ModuleClose
  <2>1. /\ natbd' = [p \in NatbdProto |-> FALSE] /\ natbdTimer' = [p \in NatbdProto |-> "none"]
        /\ dns' = [p \in NatbdProto |-> FALSE]
        /\ test' = [p \in NatbdProto |-> [t \in Natbd!Test |-> "none"]]
        /\ lifetime' = [p \in NatbdProto |-> "none"] /\ UNCHANGED <<natbdSrv, result, probes>>
    BY <1>9 DEF Natbd!ModuleClose, Natbd!Destructor
  <2>2. Natbd!GoesOn'
    BY <2>1 DEF Natbd!GoesOn
  <2>. QED BY <1>1, <2>1, <2>2 DEF NatbdInv
<1>. QED BY <1>2, <1>4, <1>5, <1>6, <1>7, <1>8, <1>9 DEF Natbd!Next

-----------------------------------------------------------------------------
(* Proof about Publisher, for any bounds. *)

\* The publications under a tag have the status that we have.
IsCurrent(t) == \A p \in server : p[1] = t => p[2] = pubStatus

\* A request brings the status, or refreshes what has it, and so has what was made of it.
RequestFits(r) ==
    /\ r.body \in {Pub!Empty, pubStatus} /\ (r.body = Pub!Empty => IsCurrent(r.tag))
    /\ ~r.sent => r.new <= tags /\ (r.new # 0 => IsCurrent(r.new))
    /\ r.tag <= tags

\* The inductive invariant. Tags are given out in order.
PubInv ==
    /\ Pub!TypeOK /\ IsFiniteSet(reqs)
    /\ etag <= tags /\ \A p \in server : p[1] <= tags
    /\ refresh /\ live => IsCurrent(etag)
    /\ \A r \in reqs : RequestFits(r)
    /\ ~live => reqs = {}

\* The instance's operators on sets are those of the library.
LEMMA PubSets == \A S : Pub!Cardinality(S) = Cardinality(S)
BY DEF Pub!Cardinality, Cardinality, Pub!IsFiniteSet, IsFiniteSet

\* The types, one by one.
LEMMA PubTypes ==
    ASSUME PubInv
    PROVE  /\ pubStatus \in {"unknown", "open", "closed"} /\ {live, refresh,
                 pubTimer} \subseteq BOOLEAN
           /\ reqs \subseteq Pub!Request /\ Cardinality(reqs) <= MaxReqs /\ IsFiniteSet(reqs)
           /\ server \subseteq (1 .. MaxTag) \X {"unknown", "open", "closed"}
           /\ \A r \in reqs : RequestFits(r)
<1>1. {live, refresh, pubTimer} \subseteq BOOLEAN
  BY Zenon DEF PubInv, Pub!TypeOK
<1>. QED BY <1>1, PubSets DEF PubInv, Pub!TypeOK, Pub!Status

\* The tags.
LEMMA PubTags ==
    ASSUME PubInv
    PROVE  /\ etag \in 0 .. MaxTag /\ tags \in 0 .. MaxTag /\ MaxTag \in Nat /\ MaxReqs \in Nat
           /\ etag <= tags /\ \A p \in server : p[1] \in Nat /\ p[1] <= tags
<1>1. MaxTag \in Nat /\ MaxReqs \in Nat
  BY PartsAssumption DEF Pub!PublisherAssumption
<1>2. etag \in 0 .. MaxTag /\ tags \in 0 .. MaxTag /\ server \subseteq (1 .. MaxTag) \X Pub!Status
  BY DEF PubInv, Pub!TypeOK
<1>. QED BY <1>1, <1>2 DEF PubInv

\* The types after a step.
LEMMA PubTyped ==
    ASSUME {live, refresh, pubTimer}' \subseteq BOOLEAN, pubStatus' \in {"unknown", "open",
          "closed"},
           etag' \in 0 .. MaxTag, tags' \in 0 .. MaxTag, reqs' \subseteq Pub!Request,
           Cardinality(reqs') <= MaxReqs,
           server' \subseteq (1 .. MaxTag) \X {"unknown", "open", "closed"}
    PROVE  Pub!TypeOK'
<1>1. Pub!Cardinality(reqs)' <= MaxReqs
  BY PubSets
<1>. QED BY <1>1 DEF Pub!TypeOK, Pub!Status

\* A request less, and perhaps another.
LEMMA PubReqs ==
    ASSUME PubInv, NEW r \in Pub!Request
    PROVE  /\ \A q \in reqs : /\ IsFiniteSet(reqs \ {q}) /\ Cardinality(reqs \ {q}) <= MaxReqs
                              /\ IsFiniteSet((reqs \ {q}) \cup {r})
                              /\ Cardinality((reqs \ {q}) \cup {r}) <= MaxReqs
           /\ Cardinality(reqs) < MaxReqs /\ r \notin reqs =>
                  IsFiniteSet(reqs \cup {r}) /\ Cardinality(reqs \cup {r}) <= MaxReqs
<1>1. IsFiniteSet(reqs) /\ Cardinality(reqs) <= MaxReqs /\ MaxReqs \in Nat /\
      Cardinality(reqs) \in Nat
  BY PubTypes, PubTags, FS_CardinalityType
<1>2. ASSUME NEW q \in reqs
      PROVE  /\ IsFiniteSet(reqs \ {q}) /\ Cardinality(reqs \ {q}) = Cardinality(reqs) - 1
             /\ IsFiniteSet((reqs \ {q}) \cup {r})
             /\ Cardinality((reqs \ {q}) \cup {r}) <= Cardinality(reqs)
  <2>1. IsFiniteSet(reqs \ {q}) /\ Cardinality(reqs \ {q}) = Cardinality(reqs) - 1
    BY <1>1, FS_RemoveElement
  <2>2. /\ IsFiniteSet((reqs \ {q}) \cup {r})
        /\ \/ Cardinality((reqs \ {q}) \cup {r}) = Cardinality(reqs \ {q})
           \/ Cardinality((reqs \ {q}) \cup {r}) = Cardinality(reqs \ {q}) + 1
    BY <2>1, FS_AddElement
  <2>. QED BY <1>1, <2>1, <2>2
<1>3. ASSUME Cardinality(reqs) < MaxReqs, r \notin reqs
      PROVE  IsFiniteSet(reqs \cup {r}) /\ Cardinality(reqs \cup {r}) = Cardinality(reqs) + 1
  BY <1>1, <1>3, FS_AddElement
<1>4. ASSUME NEW q \in reqs
      PROVE  Cardinality((reqs \ {q}) \cup {r}) <= MaxReqs /\ Cardinality(reqs \ {q}) <= MaxReqs
  <2>1. IsFiniteSet((reqs \ {q}) \cup {r}) /\
        Cardinality((reqs \ {q}) \cup {r}) <= Cardinality(reqs)
    BY <1>2
  <2>2. Cardinality((reqs \ {q}) \cup {r}) \in Nat
    BY <2>1, FS_CardinalityType
  <2>3. Cardinality(reqs \ {q}) = Cardinality(reqs) - 1
    BY <1>2
  <2>. QED BY <1>1, <2>1, <2>2, <2>3
<1>5. ASSUME Cardinality(reqs) < MaxReqs, r \notin reqs
      PROVE  IsFiniteSet(reqs \cup {r}) /\ Cardinality(reqs \cup {r}) <= MaxReqs
  BY <1>1, <1>3, <1>5
<1>. QED BY <1>2, <1>4, <1>5

\* A step that gives the client other requests, and changes nothing at the server.
LEMMA PubAsks ==
    ASSUME PubInv, UNCHANGED <<server, tags, live>>, live,
           pubStatus' \in {"unknown", "open", "closed"}, {refresh, pubTimer}' \subseteq BOOLEAN,
           etag' \in 0 .. MaxTag, etag' <= tags, refresh' => IsCurrent(etag'),
                 pubStatus' = pubStatus \/ ~refresh',
           reqs' \subseteq Pub!Request, IsFiniteSet(reqs'), Cardinality(reqs') <= MaxReqs,
           \A r \in reqs' : RequestFits(r)'
    PROVE  PubInv'
<1>1. {live, refresh, pubTimer}' \subseteq BOOLEAN
  BY PubTypes
<1>2. Pub!TypeOK'
  BY <1>1, PubTypes, PubTags, PubTyped
<1>3. refresh' /\ live' => IsCurrent(etag)'
  BY DEF IsCurrent
<1>. QED BY <1>2, <1>3, PubTypes, PubTags DEF PubInv

\* Nothing is published, and the first request waits for its time.
LEMMA PubInit == Pub!Init => PubInv
<1> SUFFICES ASSUME Pub!Init PROVE PubInv
  OBVIOUS
<1>1. {live, refresh, pubTimer} \subseteq BOOLEAN
  BY Zenon DEF Pub!Init
<1>2. MaxTag \in Nat /\ MaxReqs \in Nat
  BY PartsAssumption DEF Pub!PublisherAssumption
<1>3. IsFiniteSet(reqs) /\ Cardinality(reqs) = 0
  BY FS_EmptySet DEF Pub!Init
<1>. QED BY <1>1, <1>2, <1>3, PubSets DEF Pub!Init, PubInv, Pub!TypeOK, Pub!Status

\* A request of the client.
LEMMA PubPublishes ==
    ASSUME PubInv, live, NEW st \in {"unknown", "open", "closed"}, NEW ref \in BOOLEAN,
           Pub!Publish(etag, ref, st), UNCHANGED <<server, tags, live, etag>>,
           pubTimer' \in BOOLEAN, pubStatus' = st, refresh' = ref,
           \/ st = pubStatus /\ ref = refresh
           \/ reqs = {} /\ ref = FALSE
    PROVE  PubInv'
<1> DEFINE r == [tag |-> etag, body |-> IF ref THEN Pub!Empty ELSE st, sent |-> TRUE, new |-> 0]
<1>1. r \notin reqs /\ Cardinality(reqs) < MaxReqs /\ reqs' = reqs \cup {r}
  BY PubSets DEF Pub!Publish
<1>2. r \in Pub!Request
  BY PubTypes, PubTags DEF Pub!Request, Pub!Status
<1>3. refresh' => IsCurrent(etag) /\ pubStatus' = pubStatus
  BY DEF PubInv
<1>4. RequestFits(r)'
  <2>1. r.tag = etag /\ r.body = (IF ref THEN Pub!Empty ELSE st) /\ r.sent = TRUE
    OBVIOUS
  <2> HIDE DEF r
  <2>2. Pub!Empty \notin {"unknown", "open", "closed"}
    BY DEF Pub!Empty
  <2>3. r' = r /\ etag <= tags
    BY PubTags DEF r
  <2>4. IsCurrent(etag)' \/ ~ref
    BY <1>3 DEF IsCurrent
  <2>5. r.body = Pub!Empty => ref
    BY <2>1, <2>2
  <2>6. r.body = Pub!Empty => IsCurrent(r.tag)'
    <3>1. r.body = Pub!Empty => IsCurrent(etag)
      BY <1>3, <2>5
    <3>2. r.body = Pub!Empty => pubStatus' = pubStatus
      BY <1>3, <2>5
    <3>. QED BY <2>1, <2>3, <3>1, <3>2 DEF IsCurrent
  <2>7. r.body \in {Pub!Empty, pubStatus'}
    BY <2>1
  <2>8. r.tag <= tags' /\ r.sent'
    BY <2>1, <2>3
  <2>. QED BY <2>3, <2>6, <2>7, <2>8 DEF RequestFits
<1> HIDE DEF r
<1>5. ASSUME NEW q \in reqs PROVE RequestFits(q)'
  <2>1. pubStatus' = pubStatus /\ RequestFits(q)
    BY <1>5, PubTypes
  <2>. QED BY <2>1 DEF RequestFits, IsCurrent
<1>6. IsFiniteSet(reqs') /\ Cardinality(reqs') <= MaxReqs /\ reqs' \subseteq Pub!Request
  BY <1>1, <1>2, PubReqs, PubTypes
<1>7. \A q \in reqs' : RequestFits(q)'
  BY <1>1, <1>4, <1>5 DEF r
<1>8. {refresh, pubTimer}' \subseteq BOOLEAN
  OBVIOUS
<1>. QED BY <1>3, <1>6, <1>7, <1>8, PubAsks, PubTags

\* The server makes of a request what fits it.
LEMMA PubServes == ASSUME PubInv, NEW r \in reqs, Pub!Serve(r) PROVE PubInv'
<1> DEFINE old == {p \in server : p[1] = r.tag}
           body == IF r.body = Pub!Empty THEN {p[2] : p \in old} ELSE {r.body}
           k == r.tag = 0 \/ old # {}
           q == [r EXCEPT !.sent = FALSE, !.new = IF k THEN tags + 1 ELSE 0]
<1>1. /\ tags < MaxTag /\ tags' = (IF k THEN tags + 1 ELSE tags)
      /\ server' = (IF k THEN (server \ old) \cup {<<tags + 1, b>> : b \in body} ELSE server)
      /\ reqs' = (reqs \ {r}) \cup {q}
      /\ UNCHANGED <<pubStatus, live, etag, refresh, pubTimer>>
  BY DEF Pub!Serve
<1>2. RequestFits(r) /\ r \in Pub!Request
  BY PubTypes
<1>3. body \subseteq {pubStatus}
  BY <1>2 DEF RequestFits, IsCurrent
<1> HIDE DEF old, body, k, q
<1>4. UNCHANGED <<pubStatus, live, etag, refresh, pubTimer>>
  BY <1>1
<1>5. tags < MaxTag /\ tags' \in {tags, tags + 1} /\ (k => tags' = tags + 1)
  BY <1>1
<1>6. tags \in Nat /\ MaxTag \in Nat /\ tags' \in 0 .. MaxTag /\ tags' >= tags
  BY <1>5, PubTags
<1>7. \A p \in server' : p \in server \/ (tags' = tags + 1 /\ p = <<tags + 1, pubStatus>>)
  BY <1>1, <1>3
<1>8. server' \subseteq (1 .. MaxTag) \X {"unknown", "open", "closed"} /\
      \A p \in server' : p[1] <= tags'
  <2>1. tags + 1 \in 1 .. MaxTag
    BY <1>5, <1>6
  <2>2. <<tags + 1, pubStatus>> \in (1 .. MaxTag) \X {"unknown", "open", "closed"}
    BY <2>1, PubTypes
  <2>3. \A p \in server : p[1] <= tags'
    BY <1>5, <1>6, PubTags
  <2>. QED BY <1>6, <1>7, <2>2, <2>3, PubTypes
<1>9. ASSUME NEW t \in Int, IsCurrent(t) \/ (t = tags + 1 /\ tags' = tags + 1) PROVE IsCurrent(t)'
  <2>1. t = tags + 1 => \A p \in server : p[1] # t
    BY <1>6, PubTags
  <2>2. \A p \in server : p[1] = t => p[2] = pubStatus
    BY <1>9, <2>1 DEF IsCurrent
  <2>3. \A p \in server' : p[1] = t => p[2] = pubStatus
    BY <1>7, <2>2
  <2>. QED BY <1>4, <2>3 DEF IsCurrent
<1>10. ASSUME NEW x \in reqs PROVE RequestFits(x)'
  <2>1. x.tag \in Int /\ x.new \in Int
    BY PubTypes DEF Pub!Request
  <2>2. RequestFits(x)
    BY PubTypes
  <2>3. (x.body = Pub!Empty => IsCurrent(x.tag)') /\ (~x.sent /\ x.new # 0 => IsCurrent(x.new)')
    BY <1>9, <2>1, <2>2 DEF RequestFits
  <2>4. x.body \in {Pub!Empty, pubStatus'}
    BY <1>4, <2>2 DEF RequestFits
  <2>5. (~x.sent => x.new <= tags') /\ x.tag <= tags'
    BY <1>6, <2>1, <2>2 DEF RequestFits
  <2>. QED BY <2>3, <2>4, <2>5 DEF RequestFits
<1>11. /\ q.tag = r.tag /\ q.body = r.body /\ q.sent = FALSE /\ q.new = IF k THEN tags + 1 ELSE 0
       /\ q \in Pub!Request
  <2>1. (IF k THEN tags + 1 ELSE 0) \in 0 .. MaxTag
    BY <1>5, <1>6
  <2>. QED BY <1>2, <2>1 DEF q, Pub!Request
<1>12. ASSUME NEW z, z = q PROVE RequestFits(z)'
  <2>1. /\ z.tag = r.tag /\ z.body = r.body /\ z.sent = FALSE /\ z.new \in 0 .. MaxTag
        /\ z.new = (IF k THEN tags + 1 ELSE 0)
    BY <1>11, <1>12 DEF Pub!Request
  <2>2. z.new # 0 => z.new = tags + 1 /\ tags' = tags + 1
    BY <1>5, <2>1
  <2>3. z.new <= tags' /\ z.new \in Int
    BY <1>6, <2>1, <2>2
  <2>4. z.new # 0 => IsCurrent(z.new)'
    BY <1>9, <2>2, <2>3
  <2>5. RequestFits(r)'
    BY <1>10
  <2>6. z.body \in {Pub!Empty, pubStatus'} /\ z.tag <= tags'
    BY <2>1, <2>5 DEF RequestFits
  <2>7. z.body = Pub!Empty => IsCurrent(z.tag)'
    BY <2>1, <2>5 DEF RequestFits, IsCurrent
  <2>. QED BY <2>3, <2>4, <2>6, <2>7 DEF RequestFits
<1>13. Pub!TypeOK' /\ IsFiniteSet(reqs')
  <2>1. IsFiniteSet(reqs') /\ Cardinality(reqs') <= MaxReqs
    BY <1>1, <1>11, PubReqs
  <2>2. reqs' \subseteq Pub!Request
    BY <1>1, <1>11, PubTypes
  <2>3. {live, refresh, pubTimer}' \subseteq BOOLEAN
    BY <1>4, PubTypes
  <2>. QED BY <1>4, <1>6, <1>8, <2>1, <2>2, <2>3, PubTypes, PubTags, PubTyped
<1>14. etag' <= tags' /\ (refresh' /\ live' => IsCurrent(etag)')
  <2>1. etag' = etag /\ etag \in Int /\ etag <= tags'
    BY <1>4, <1>6, PubTags
  <2>2. refresh /\ live => IsCurrent(etag)'
    BY <1>9, <2>1 DEF PubInv
  <2>. QED BY <1>4, <2>1, <2>2 DEF IsCurrent
<1>15. \A x \in reqs' : RequestFits(x)'
  <2>1. \A x : x \in reqs' => x \in reqs \/ x = q
    BY <1>1
  <2>. QED BY <1>10, <1>12, <2>1
<1>16. live'
  BY <1>4 DEF PubInv
<1>. QED BY <1>8, <1>13, <1>14, <1>15, <1>16 DEF PubInv

\* Every step keeps the invariant.
LEMMA PubNext == PubInv /\ [Pub!Next]_pubVars => PubInv'
<1> SUFFICES ASSUME PubInv, [Pub!Next]_pubVars PROVE PubInv'
  OBVIOUS
<1>1. CASE UNCHANGED pubVars
  BY <1>1, Zenon DEF pubVars, PubInv, Pub!TypeOK, RequestFits, IsCurrent
<1>2. CASE Pub!TmrHandler
  <2>1. Pub!Publish(etag, refresh, pubStatus) /\ pubTimer' = FALSE /\ live
        /\ UNCHANGED <<pubStatus, live, etag, refresh, server, tags>>
    BY <1>2 DEF Pub!TmrHandler
  <2>2. refresh \in BOOLEAN
    BY PubTypes
  <2>. QED BY <2>1, <2>2, PubPublishes, PubTypes
<1>3. ASSUME NEW st \in {"open", "closed"}, Pub!StatusUpdate(st) PROVE PubInv'
  <2>1. Pub!Publish(etag, FALSE, st) /\ pubStatus' = st /\ refresh' = FALSE /\ live /\ reqs = {}
        /\ UNCHANGED <<live, etag, pubTimer, server, tags>>
    BY <1>3 DEF Pub!StatusUpdate
  <2>2. pubTimer' \in BOOLEAN
    BY <2>1, PubTypes
  <2>. QED BY <2>1, <2>2, PubPublishes
<1>4. CASE Pub!Forget
  <2>1. server' = {} /\ UNCHANGED <<pubStatus, live, etag, refresh, pubTimer, reqs, tags>>
    BY <1>4 DEF Pub!Forget
  <2>2. \A t : IsCurrent(t)'
    BY <2>1 DEF IsCurrent
  <2>3. \A r \in reqs : RequestFits(r)'
    BY <2>1, <2>2, PubTypes DEF RequestFits
  <2>4. {live, refresh, pubTimer}' \subseteq BOOLEAN
    BY <2>1, PubTypes
  <2>5. Pub!TypeOK'
    BY <2>1, <2>4, PubTypes, PubTags, PubTyped
  <2>. QED BY <2>1, <2>2, <2>3, <2>5, PubTypes, PubTags DEF PubInv
<1>5. ASSUME NEW r \in reqs, Pub!Accepted(r) PROVE PubInv'
  <2>1. /\ live /\ ~r.sent /\ r.new # 0 /\ etag' = r.new /\ refresh' = TRUE /\ pubTimer' = TRUE
        /\ reqs' = reqs \ {r} /\ UNCHANGED <<pubStatus, live, server, tags>>
    BY <1>5 DEF Pub!Accepted
  <2>2. r \in Pub!Request /\ RequestFits(r)
    BY PubTypes
  <2>3. r.new \in 0 .. MaxTag /\ r.new <= tags /\ IsCurrent(r.new)
    BY <2>1, <2>2 DEF Pub!Request, RequestFits
  <2>4. IsFiniteSet(reqs') /\ Cardinality(reqs') <= MaxReqs /\ reqs' \subseteq Pub!Request
    BY <2>1, <2>2, PubReqs, PubTypes
  <2>5. \A q \in reqs' : RequestFits(q)'
    BY <2>1, PubTypes DEF RequestFits, IsCurrent
  <2>6. {refresh, pubTimer}' \subseteq BOOLEAN
    BY <2>1
  <2>. QED BY <2>1, <2>3, <2>4, <2>5, <2>6, PubAsks, PubTypes, PubTags
<1>6. ASSUME NEW r \in reqs, Pub!Refused(r) PROVE PubInv'
  <2> DEFINE anew == [tag |-> 0, body |-> pubStatus, sent |-> TRUE, new |-> 0]
  <2>1. /\ live /\ etag' = 0 /\ refresh' = FALSE /\ reqs' = (reqs \ {r}) \cup {anew}
        /\ UNCHANGED <<pubStatus, live, pubTimer, server, tags>>
    BY <1>6 DEF Pub!Refused
  <2>2. anew \in Pub!Request
    BY PubTypes, PubTags DEF Pub!Request, Pub!Status
  <2>3. RequestFits(anew)'
    BY <2>1, PubTypes, PubTags DEF RequestFits, Pub!Empty
  <2>4. IsFiniteSet(reqs') /\ Cardinality(reqs') <= MaxReqs /\ reqs' \subseteq Pub!Request
    BY <2>1, <2>2, PubReqs, PubTypes
  <2>5. \A q \in reqs' : RequestFits(q)'
    <3>1. \A q \in reqs : RequestFits(q)'
      BY <2>1, PubTypes DEF RequestFits, IsCurrent
    <3>2. \A q : q \in reqs' => q \in reqs \/ q = anew
      BY <2>1
    <3>3. \A q : q = anew => RequestFits(q)'
      BY <2>1, <2>3 DEF RequestFits, IsCurrent
    <3>. QED BY <3>1, <3>2, <3>3
  <2>6. {refresh, pubTimer}' \subseteq BOOLEAN
    BY <2>1, PubTypes
  <2>7. etag' \in 0 .. MaxTag /\ etag' <= tags
    BY <2>1, PubTags
  <2> HIDE DEF anew
  <2>. QED BY <2>1, <2>4, <2>5, <2>6, <2>7, PubAsks, PubTypes, PubTags
<1>7. ASSUME NEW r \in reqs, Pub!Failed(r) PROVE PubInv'
  <2>1. live /\ reqs' = reqs \ {r} /\ UNCHANGED <<pubStatus, live, etag, refresh, pubTimer,
        server, tags>>
    BY <1>7 DEF Pub!Failed
  <2>2. r \in Pub!Request
    BY PubTypes
  <2>3. IsFiniteSet(reqs') /\ Cardinality(reqs') <= MaxReqs /\ reqs' \subseteq Pub!Request
    BY <2>1, <2>2, PubReqs, PubTypes
  <2>4. \A q \in reqs' : RequestFits(q)'
    BY <2>1, PubTypes DEF RequestFits, IsCurrent
  <2>5. {refresh, pubTimer}' \subseteq BOOLEAN /\ (refresh' => IsCurrent(etag'))
    BY <2>1, PubTypes DEF PubInv
  <2>. QED BY <2>1, <2>3, <2>4, <2>5, PubAsks, PubTypes, PubTags
<1>8. CASE Pub!Close
  <2>1. /\ live' = FALSE /\ reqs = {} /\ pubStatus' = "closed" /\ pubTimer' = FALSE
        /\ server' \subseteq server /\ UNCHANGED <<etag, refresh, reqs, tags>>
    BY <1>8 DEF Pub!Close
  <2>2. {live, refresh, pubTimer}' \subseteq BOOLEAN
    BY <2>1, PubTypes
  <2>3. Pub!TypeOK'
    BY <2>1, <2>2, PubTypes, PubTags, PubTyped
  <2>. QED BY <2>1, <2>3, PubTypes, PubTags DEF PubInv
<1>. QED BY <1>1, <1>2, <1>3, <1>4, <1>5, <1>6, <1>7, <1>8, PubServes DEF Pub!Next

\* The invariant says what PeersAgree does of the status.
LEMMA PubSafe == PubInv => Pub!RefreshKeepsStatus
BY DEF PubInv, IsCurrent, Pub!RefreshKeepsStatus

-----------------------------------------------------------------------------
(* Proof about Subscriptions, for any contacts: the subscriber, whose list may be emptied. *)

\* The types of the lists and of what is kept for each contact.
SubsTyped ==
    /\ subsListed \subseteq Contact /\ {subsHandler, subsUa} \subseteq BOOLEAN
    /\ subsEntry \in [Contact -> {"none", "live", "ending"}] /\ subsSub \in [Contact -> BOOLEAN]
    /\ subsTimer \in [Contact -> {"none", "first", "retry", "free"}]
    /\ subsFailc \in [Contact -> 0 .. MaxFail]
    /\ subsWait \in [Contact -> Subs!Waits] /\ subsBackoff \in [Contact -> Subs!Waits]
    /\ subsStatus \in [Contact -> Subs!Shown]

\* A contact's entry subscribes or waits, is shown as what it is, and waits by its failures.
SubsFits(c) ==
    /\ subsEntry[c] = "live" => (subsSub[c] <=> subsTimer[c] = "none") /\ subsTimer[c] # "free"
    /\ subsEntry[c] # "live" => ~subsSub[c] /\ subsTimer[c] \in {"none", "free"}
    /\ (subsEntry[c] = "live" /\ subsStatus[c] # "unknown") => subsSub[c]
    /\ subsBackoff[c] = IF subsFailc[c] = 0 THEN 0 ELSE Subs!WaitFail(subsFailc[c])

\* The inductive invariant.
SubsInv == SubsTyped /\ \A c \in Contact : SubsFits(c)

\* The waits after failures, which grow.
LEMMA SubsWaits ==
    ASSUME NEW n \in Nat
    PROVE  /\ Subs!WaitFail(n + 1) \in Subs!Waits /\ Subs!WaitFail(n + 1) >= 0
           /\ n # 0 => Subs!WaitFail(n + 1) >= Subs!WaitFail(n)
<1>1. ASSUME NEW m \in Nat \ {0}
      PROVE  \/ m = 1 /\ Subs!WaitFail(m) = 30
             \/ m = 2 /\ Subs!WaitFail(m) = 300
             \/ m = 3 /\ Subs!WaitFail(m) = 3600
             \/ m > 3 /\ Subs!WaitFail(m) = 86400
  <2>1. CASE m = 1
    BY <2>1 DEF Subs!WaitFail
  <2>2. CASE m = 2
    BY <2>2 DEF Subs!WaitFail
  <2>3. CASE m = 3
    BY <2>3 DEF Subs!WaitFail
  <2>4. CASE m > 3
    BY <2>4 DEF Subs!WaitFail
  <2>. QED BY <2>1, <2>2, <2>3, <2>4
<1>2. n + 1 \in Nat \ {0}
  OBVIOUS
<1>3. Subs!WaitFail(n + 1) \in {30, 300, 3600, 86400} /\ (n # 0 =>
      Subs!WaitFail(n + 1) >= Subs!WaitFail(n))
  BY <1>1, <1>2
<1>. QED BY <1>3 DEF Subs!Waits

\* A contact whose entry and status stay fits as before.
LEMMA SubsStays ==
    ASSUME SubsInv, NEW c \in Contact, subsEntry'[c] = subsEntry[c], subsSub'[c] = subsSub[c],
           subsTimer'[c] = subsTimer[c], subsFailc'[c] = subsFailc[c],
           subsBackoff'[c] = subsBackoff[c], subsStatus'[c] = subsStatus[c]
    PROVE  SubsFits(c)'
<1>1. SubsFits(c)
  BY DEF SubsInv
<1>. QED BY <1>1 DEF SubsFits

\* Entries are made for the contacts of C, and taken from those of D.
LEMMA SubsEntries ==
    ASSUME SubsInv, NEW C, NEW D, Subs!Entries(C, D)
    PROVE  /\ subsEntry' \in [Contact -> {"none", "live", "ending"}] /\
                 subsSub' \in [Contact -> BOOLEAN]
           /\ subsTimer' \in [Contact -> {"none", "first", "retry", "free"}]
           /\ subsFailc' \in [Contact -> 0 .. MaxFail]
           /\ subsWait' \in [Contact -> Subs!Waits] /\ subsBackoff' \in [Contact -> Subs!Waits]
           /\ \A c \in Contact :
                 /\ c \in C => /\ subsEntry'[c] = "live" /\ subsSub'[c] = FALSE /\
                                     subsTimer'[c] = "first"
                               /\ subsFailc'[c] = 0 /\ subsBackoff'[c] = 0
                 /\ (c \in D /\ c \notin C) =>
                       /\ subsEntry'[c] = "none" /\ subsSub'[c] = FALSE /\ subsTimer'[c] = "none"
                       /\ subsFailc'[c] = 0 /\ subsBackoff'[c] = 0
                 /\ (c \notin D /\ c \notin C) =>
                       /\ subsEntry'[c] = subsEntry[c] /\ subsSub'[c] = subsSub[c]
                       /\ subsTimer'[c] = subsTimer[c] /\ subsFailc'[c] = subsFailc[c]
                       /\ subsBackoff'[c] = subsBackoff[c]
<1>1. MaxFail \in Nat /\ {0, 1} \subseteq Subs!Waits
  BY PartsAssumption DEF Subs!SubscriptionsAssumption, Subs!Waits
<1>2. SubsTyped
  BY DEF SubsInv
<1>3. subsEntry' \in [Contact -> {"none", "live", "ending"}] /\ subsSub' \in [Contact -> BOOLEAN]
  BY <1>2 DEF Subs!Entries, SubsTyped
<1>4. subsTimer' \in [Contact -> {"none", "first", "retry", "free"}]
  BY <1>2 DEF Subs!Entries, SubsTyped
<1>5. subsFailc' \in [Contact -> 0 .. MaxFail]
  BY <1>1, <1>2 DEF Subs!Entries, SubsTyped
<1>6. subsWait' \in [Contact -> Subs!Waits] /\ subsBackoff' \in [Contact -> Subs!Waits]
  BY <1>1, <1>2 DEF Subs!Entries, SubsTyped
<1>7. ASSUME NEW c \in Contact
      PROVE  /\ c \in C => /\ subsEntry'[c] = "live" /\ subsSub'[c] = FALSE /\
                                 subsTimer'[c] = "first"
                           /\ subsFailc'[c] = 0 /\ subsBackoff'[c] = 0
             /\ (c \in D /\ c \notin C) =>
                   /\ subsEntry'[c] = "none" /\ subsSub'[c] = FALSE /\ subsTimer'[c] = "none"
                   /\ subsFailc'[c] = 0 /\ subsBackoff'[c] = 0
             /\ (c \notin D /\ c \notin C) =>
                   /\ subsEntry'[c] = subsEntry[c] /\ subsSub'[c] = subsSub[c]
                   /\ subsTimer'[c] = subsTimer[c] /\ subsFailc'[c] = subsFailc[c]
                   /\ subsBackoff'[c] = subsBackoff[c]
  BY DEF Subs!Entries
<1>. QED BY <1>3, <1>4, <1>5, <1>6, <1>7

\* The entry of one contact fails and waits longer than before.
LEMMA SubsFails ==
    ASSUME SubsInv, NEW c \in Contact, Subs!Fails(c)
    PROVE  /\ subsTimer' \in [Contact -> {"none", "first", "retry", "free"}]
           /\ subsFailc' \in [Contact -> 0 .. MaxFail]
           /\ subsWait' \in [Contact -> Subs!Waits] /\ subsBackoff' \in [Contact -> Subs!Waits]
           /\ subsTimer'[c] = "retry" /\ subsFailc'[c] # 0
           /\ subsBackoff'[c] = Subs!WaitFail(subsFailc'[c]) /\ subsWait'[c] >= subsBackoff[c]
           /\ \A d \in Contact \ {c} : /\ subsTimer'[d] = subsTimer[d] /\
                                             subsFailc'[d] = subsFailc[d]
                                       /\ subsBackoff'[d] = subsBackoff[d]
<1> DEFINE n == subsFailc[c]
           w == Subs!WaitFail(n + 1)
<1>1. MaxFail \in Nat /\ n \in Nat /\ n < MaxFail
  BY PartsAssumption DEF Subs!SubscriptionsAssumption, SubsInv, SubsTyped, Subs!Fails
<1>2. w \in Subs!Waits /\ w >= 0 /\ (n # 0 => w >= Subs!WaitFail(n))
  BY <1>1, SubsWaits
<1>3. subsBackoff[c] = IF n = 0 THEN 0 ELSE Subs!WaitFail(n)
  BY DEF SubsInv, SubsFits
<1>4. w >= subsBackoff[c] /\ subsBackoff[c] \in Int /\ w \in Int
  BY <1>2, <1>3 DEF Subs!Waits, SubsInv, SubsTyped
<1>5. /\ subsFailc' = [subsFailc EXCEPT ![c] = n + 1] /\ subsWait' = [subsWait EXCEPT ![c] = w]
      /\ subsBackoff' = [subsBackoff EXCEPT ![c] = IF w > subsBackoff[c] THEN w ELSE subsBackoff[c]]
      /\ subsTimer' = [subsTimer EXCEPT ![c] = "retry"]
  BY Zenon DEF Subs!Fails
<1>6. SubsTyped
  BY DEF SubsInv
<1> DEFINE W == Subs!WaitFail(n + 1)
<1> HIDE DEF w
<1>7. (IF w > subsBackoff[c] THEN w ELSE subsBackoff[c]) = w
  BY <1>4
<1>8. subsBackoff' = [subsBackoff EXCEPT ![c] = w]
  BY <1>5, <1>7
<1> HIDE DEF n
<1>9. subsFailc' \in [Contact -> 0 .. MaxFail] /\ subsFailc'[c] = n + 1 /\ n + 1 # 0
  BY <1>1, <1>5, <1>6 DEF SubsTyped
<1>10. subsTimer' \in [Contact -> {"none", "first", "retry", "free"}] /\ subsTimer'[c] = "retry"
  BY <1>5, <1>6 DEF SubsTyped
<1>11. subsWait' \in [Contact -> Subs!Waits] /\ subsWait'[c] = w
  BY <1>2, <1>5, <1>6 DEF SubsTyped
<1>12. subsBackoff' \in [Contact -> Subs!Waits] /\ subsBackoff'[c] = w
  BY <1>2, <1>6, <1>8 DEF SubsTyped
<1>13. \A d \in Contact \ {c} : /\ subsTimer'[d] = subsTimer[d] /\ subsFailc'[d] = subsFailc[d]
                                /\ subsBackoff'[d] = subsBackoff[d]
  BY <1>5, <1>6, <1>8 DEF SubsTyped
<1>. QED BY <1>4, <1>9, <1>10, <1>11, <1>12, <1>13 DEF w

\* No contact has been heard of.
LEMMA SubsInit == Subs!Init => SubsInv
<1> SUFFICES ASSUME Subs!Init PROVE SubsInv
  OBVIOUS
<1>1. MaxFail \in Nat /\ {0, 1} \subseteq Subs!Waits /\ "unknown" \in Subs!Shown
  BY PartsAssumption DEF Subs!SubscriptionsAssumption, Subs!Waits, Subs!Shown
<1>2. {subsHandler, subsUa} \subseteq BOOLEAN
  BY Zenon DEF Subs!Init
<1>3. SubsTyped
  BY <1>1, <1>2 DEF Subs!Init, SubsTyped
<1>4. \A c \in Contact : SubsFits(c)
  BY DEF Subs!Init, SubsFits
<1>. QED BY <1>3, <1>4 DEF SubsInv

\* Every step keeps the invariant, and a failure waits as long as the ones before.
LEMMA SubsNext ==
    SubsInv /\ [Subs!Next]_subsVars =>
        /\ SubsInv'
        /\ \A c \in Contact : (subsEntry[c] = "live" /\ subsEntry'[c] = "live" /\
              subsFailc'[c] > subsFailc[c])
                                  => subsWait'[c] >= subsBackoff[c]
<1> DEFINE Slower == \A c \in Contact :
               (subsEntry[c] = "live" /\ subsEntry'[c] = "live" /\ subsFailc'[c] > subsFailc[c])
                   => subsWait'[c] >= subsBackoff[c]
<1> SUFFICES ASSUME SubsInv, [Subs!Next]_subsVars PROVE SubsInv' /\ Slower
  OBVIOUS
<1>0. SubsTyped /\ \A c \in Contact : SubsFits(c)
  BY DEF SubsInv
<1>00. MaxFail \in Nat /\ 0 \in Subs!Waits /\ P2p \subseteq Contact /\
      \A c \in Contact : subsFailc[c] \in Nat
  BY <1>0, PartsAssumption DEF Subs!SubscriptionsAssumption, Subs!Waits, SubsTyped
<1>1. CASE UNCHANGED subsVars
  <2>1. SubsInv'
    BY <1>1, Zenon DEF SubsInv, SubsTyped, SubsFits, subsVars
  <2>. QED BY <1>00, <1>1, <2>1 DEF subsVars
<1>2. ASSUME NEW C, NEW D, Subs!Entries(C, D), subsListed' \subseteq Contact,
             {subsHandler, subsUa}' \subseteq BOOLEAN, subsStatus' \in [Contact -> Subs!Shown],
             \A c \in Contact : subsStatus'[c] = subsStatus[c] \/ c \in C \cup D,
             \A c \in C : c \in Contact => subsStatus'[c] = "unknown"
      PROVE  SubsInv' /\ Slower
  <2>1. SubsTyped'
    BY <1>0, <1>2, SubsEntries DEF SubsTyped
  <2>2. ASSUME NEW c \in Contact PROVE SubsFits(c)'
    <3>1. CASE c \in C
      <4>1. subsEntry'[c] = "live" /\ subsSub'[c] = FALSE /\ subsTimer'[c] = "first"
            /\ subsFailc'[c] = 0 /\ subsBackoff'[c] = 0
        BY <1>2, <3>1, SubsEntries, ZenonT(60)
      <4>2. subsStatus'[c] = "unknown"
        BY <1>2, <3>1
      <4>. QED BY <4>1, <4>2 DEF SubsFits
    <3>2. CASE c \in D /\ c \notin C
      <4>1. subsEntry'[c] = "none" /\ subsSub'[c] = FALSE /\ subsTimer'[c] = "none"
            /\ subsFailc'[c] = 0 /\ subsBackoff'[c] = 0
        BY <1>2, <3>2 DEF Subs!Entries
      <4>. QED BY <4>1 DEF SubsFits
    <3>3. CASE c \notin D /\ c \notin C
      BY <1>2, <3>3, SubsEntries, SubsStays, ZenonT(60)
    <3>. QED BY <3>1, <3>2, <3>3
  <2>3. \A c \in Contact : subsFailc'[c] = subsFailc[c] \/ subsFailc'[c] = 0
    BY <1>2, SubsEntries
  <2>4. Slower
    BY <1>00, <2>3
  <2>. QED BY <2>1, <2>2, <2>4 DEF SubsInv
<1>3. ASSUME NEW c \in Contact, Subs!ContactAdd(c) PROVE SubsInv' /\ Slower
  <2>1. subsListed' = subsListed \cup {c} /\ UNCHANGED <<subsHandler, subsUa>>
        /\ subsStatus' = [subsStatus EXCEPT ![c] = "unknown"]
    BY <1>3 DEF Subs!ContactAdd
  <2>2. subsEntry[c] = "none"
    BY <1>3 DEF Subs!ContactAdd
  <2>3. subsStatus' \in [Contact -> Subs!Shown] /\ subsStatus'[c] = "unknown"
        /\ \A d \in Contact \ {c} : subsStatus'[d] = subsStatus[d]
    BY <1>0, <2>1 DEF SubsTyped, Subs!Shown
  <2>4. PICK C \in SUBSET {c} : Subs!Entries(C, {})
    BY <1>3 DEF Subs!ContactAdd
  <2>5. subsListed' \subseteq Contact /\ {subsHandler, subsUa}' \subseteq BOOLEAN
    BY <1>0, <2>1 DEF SubsTyped
  <2>6. SubsTyped'
    BY <2>3, <2>4, <2>5, SubsEntries DEF SubsTyped
  <2>7. SubsFits(c)'
    BY <1>0, <2>2, <2>3, <2>4, SubsEntries, ZenonT(60) DEF SubsFits
  <2>8. ASSUME NEW d \in Contact \ {c} PROVE SubsFits(d)'
    <3>1. d \notin {} /\ d \notin C /\ subsStatus'[d] = subsStatus[d]
      BY <2>3, <2>4
    <3>2. /\ subsEntry'[d] = subsEntry[d] /\ subsSub'[d] = subsSub[d] /\
             subsTimer'[d] = subsTimer[d]
          /\ subsFailc'[d] = subsFailc[d] /\ subsBackoff'[d] = subsBackoff[d]
      BY <2>4, <3>1 DEF Subs!Entries
    <3>. QED BY <3>1, <3>2, SubsStays
  <2>9. \A d \in Contact : subsFailc'[d] = subsFailc[d] \/ subsFailc'[d] = 0
    BY <2>4, SubsEntries
  <2>. QED BY <1>00, <2>6, <2>7, <2>8, <2>9 DEF SubsInv
<1>4. ASSUME NEW c \in Contact, Subs!ContactRemove(c) PROVE SubsInv' /\ Slower
  <2>1. PICK D \in SUBSET Contact : Subs!Entries({}, D)
    BY <1>4 DEF Subs!ContactRemove
  <2>2. subsListed' = subsListed \ {c} /\ UNCHANGED <<subsHandler, subsUa, subsStatus>>
    BY <1>4 DEF Subs!ContactRemove
  <2>. QED BY <1>0, <1>2, <2>1, <2>2 DEF SubsTyped
<1>5. CASE Subs!Flush
  <2>1. subsListed' = {}
        /\ UNCHANGED <<subsHandler, subsUa, subsEntry, subsSub, subsTimer, subsFailc, subsWait,
              subsBackoff,
                      subsStatus>>
    BY <1>5 DEF Subs!Flush
  <2>2. SubsTyped' /\ \A c \in Contact : SubsFits(c)'
    BY <1>0, <2>1 DEF SubsTyped, SubsFits
  <2>. QED BY <1>00, <2>1, <2>2 DEF SubsInv
<1>6. CASE Subs!UaChanges
  <2>1. subsUa' \in BOOLEAN
        /\ UNCHANGED <<subsListed, subsHandler, subsEntry, subsSub, subsTimer, subsFailc, subsWait,
                      subsBackoff, subsStatus>>
    BY <1>0, <1>6, Zenon DEF Subs!UaChanges, SubsTyped
  <2>2. SubsTyped' /\ \A c \in Contact : SubsFits(c)'
    BY <1>0, <2>1 DEF SubsTyped, SubsFits
  <2>. QED BY <1>00, <2>1, <2>2 DEF SubsInv
<1>7. ASSUME NEW c \in Contact, NEW ok \in BOOLEAN, Subs!TmrHandler(c, ok) PROVE SubsInv' /\ Slower
  <2>1. UNCHANGED <<subsListed, subsHandler, subsUa, subsEntry, subsStatus>>
        /\ subsTimer[c] \in {"first", "retry"}
    BY <1>7 DEF Subs!TmrHandler, Subs!lists
  <2>2. CASE ok
    <3>1. /\ subsSub' = [subsSub EXCEPT ![c] = TRUE] /\
             subsTimer' = [subsTimer EXCEPT ![c] = "none"]
          /\ UNCHANGED <<subsFailc, subsWait, subsBackoff>>
      BY <1>7, <2>2 DEF Subs!TmrHandler
    <3>2. SubsTyped'
      BY <1>0, <2>1, <3>1 DEF SubsTyped
    <3>3. \A d \in Contact : SubsFits(d)'
      BY <1>0, <2>1, <3>1 DEF SubsTyped, SubsFits
    <3>. QED BY <1>00, <3>1, <3>2, <3>3 DEF SubsInv
  <2>3. CASE ~ok
    <3>1. Subs!Fails(c) /\ UNCHANGED subsSub
      BY <1>7, <2>3 DEF Subs!TmrHandler
    <3>2. SubsTyped'
      BY <1>0, <2>1, <3>1, SubsFails DEF SubsTyped
    <3>3. SubsFits(c)'
      BY <1>0, <2>1, <3>1, SubsFails DEF SubsFits
    <3>4. \A d \in Contact \ {c} : SubsFits(d)'
      BY <1>0, <2>1, <3>1, SubsFails DEF SubsFits
    <3>5. Slower
      BY <1>00, <3>1, SubsFails
    <3>. QED BY <3>2, <3>3, <3>4, <3>5 DEF SubsInv
  <2>. QED BY <2>2, <2>3
<1>8. ASSUME NEW c \in Contact, NEW st \in Subs!Shown, Subs!Notify(c, st) PROVE SubsInv' /\ Slower
  <2>1. /\ subsEntry[c] = "live" /\ subsSub[c]
        /\ subsFailc' = [subsFailc EXCEPT ![c] = 0] /\ subsBackoff' = [subsBackoff EXCEPT ![c] = 0]
        /\ UNCHANGED <<subsListed, subsHandler, subsUa, subsEntry, subsSub, subsTimer, subsWait>>
        /\ subsStatus' = [subsStatus EXCEPT ![c] = st] \/ UNCHANGED subsStatus
    BY <1>8 DEF Subs!Notify, Subs!lists
  <2>2. subsFailc' \in [Contact -> 0 .. MaxFail] /\ subsBackoff' \in [Contact -> Subs!Waits]
    BY <1>0, <1>00, <2>1 DEF SubsTyped
  <2>3. subsStatus' \in [Contact -> Subs!Shown] /\
        \A d \in Contact \ {c} : subsStatus'[d] = subsStatus[d]
    BY <1>0, <2>1 DEF SubsTyped
  <2>4. SubsTyped'
    BY <1>0, <2>1, <2>2, <2>3 DEF SubsTyped
  <2>5. \A d \in Contact : SubsFits(d)'
    BY <1>0, <2>1, <2>3 DEF SubsTyped, SubsFits
  <2>6. Slower
    BY <1>0, <1>00, <2>1 DEF SubsTyped
  <2>. QED BY <2>4, <2>5, <2>6 DEF SubsInv
<1>9. ASSUME NEW c \in Contact, Subs!LastNotify(c) PROVE SubsInv' /\ Slower
  <2>1. Subs!Entries({}, {c}) /\ UNCHANGED <<subsListed, subsHandler, subsUa>>
        /\ subsStatus' = [subsStatus EXCEPT ![c] = "closed"]
    BY <1>9 DEF Subs!LastNotify, Subs!lists
  <2>2. subsStatus' \in [Contact -> Subs!Shown] /\
        \A d \in Contact \ {c} : subsStatus'[d] = subsStatus[d]
    BY <1>0, <2>1 DEF SubsTyped, Subs!Shown
  <2>. QED BY <1>0, <1>2, <2>1, <2>2 DEF SubsTyped
<1>10. ASSUME NEW c \in Contact, Subs!CloseHandler(c) PROVE SubsInv' /\ Slower
  <2>1. /\ subsEntry[c] = "live" /\ subsSub' = [subsSub EXCEPT ![c] = FALSE]
        /\ subsStatus' = [subsStatus EXCEPT ![c] = "unknown"]
        /\ UNCHANGED <<subsListed, subsHandler, subsUa, subsEntry>>
    BY <1>10 DEF Subs!CloseHandler, Subs!lists
  <2>2. subsSub' \in [Contact -> BOOLEAN] /\ ~subsSub'[c]
        /\ \A d \in Contact \ {c} : subsSub'[d] = subsSub[d]
    BY <1>0, <2>1 DEF SubsTyped
  <2>3. subsStatus' \in [Contact -> Subs!Shown] /\ subsStatus'[c] = "unknown"
        /\ \A d \in Contact \ {c} : subsStatus'[d] = subsStatus[d]
    BY <1>0, <2>1 DEF SubsTyped, Subs!Shown
  <2>4. CASE Subs!Fails(c)
    <3>1. SubsTyped'
      BY <1>0, <2>1, <2>2, <2>3, <2>4, SubsFails DEF SubsTyped
    <3>2. SubsFits(c)'
      BY <2>1, <2>2, <2>3, <2>4, SubsFails DEF SubsFits
    <3>3. \A d \in Contact \ {c} : SubsFits(d)'
      BY <1>0, <2>1, <2>2, <2>3, <2>4, SubsFails DEF SubsFits
    <3>4. Slower
      BY <1>00, <2>4, SubsFails
    <3>. QED BY <3>1, <3>2, <3>3, <3>4 DEF SubsInv
  <2>5. CASE ~Subs!Fails(c)
    <3>1. PICK w \in {5, 3600, 300} : subsWait' = [subsWait EXCEPT ![c] = w]
      BY <1>10, <2>5 DEF Subs!CloseHandler, Subs!WaitTerm
    <3>2. subsTimer' = [subsTimer EXCEPT ![c] = "retry"] /\ UNCHANGED <<subsFailc, subsBackoff>>
      BY <1>10, <2>5 DEF Subs!CloseHandler
    <3>3. subsWait' \in [Contact -> Subs!Waits]
      BY <1>0, <3>1 DEF SubsTyped, Subs!Waits
    <3>4. SubsTyped'
      <4>1. subsTimer' \in [Contact -> {"none", "first", "retry", "free"}]
        BY <1>0, <3>2 DEF SubsTyped
      <4>. QED BY <1>0, <2>1, <2>2, <2>3, <3>2, <3>3, <4>1 DEF SubsTyped
    <3>5. \A d \in Contact : SubsFits(d)'
      BY <1>0, <2>1, <2>2, <2>3, <3>2 DEF SubsFits, SubsTyped
    <3>. QED BY <1>00, <3>2, <3>4, <3>5 DEF SubsInv
  <2>. QED BY <2>4, <2>5
<1>11. CASE Subs!CloseAll
  <2>1. PICK B \in SUBSET Contact :
           /\ subsEntry' = [c \in Contact |-> IF c \in B THEN "ending" ELSE "none"]
           /\ subsTimer' = [c \in Contact |-> IF c \in B THEN "free" ELSE "none"]
    BY <1>11 DEF Subs!CloseAll
  <2>2. subsHandler' = FALSE /\ subsSub' = [c \in Contact |-> FALSE]
        /\ UNCHANGED <<subsListed, subsUa, subsFailc, subsWait, subsBackoff, subsStatus>>
    BY <1>11 DEF Subs!CloseAll
  <2>3. SubsTyped'
    BY <1>0, <2>1, <2>2 DEF SubsTyped
  <2>4. \A c \in Contact : SubsFits(c)'
    BY <1>0, <2>1, <2>2 DEF SubsFits
  <2>. QED BY <1>00, <2>2, <2>3, <2>4 DEF SubsInv
<1>12. ASSUME NEW c \in Contact, Subs!Deref(c) PROVE SubsInv' /\ Slower
  <2>1. Subs!Entries({}, {c}) /\ UNCHANGED <<subsListed, subsHandler, subsUa, subsStatus>>
    BY <1>12 DEF Subs!Deref, Subs!lists
  <2>. QED BY <1>0, <1>2, <2>1 DEF SubsTyped
<1>13. CASE Subs!SubscriberClose
  <2>1. Subs!Entries({}, Contact) /\ subsHandler' = FALSE /\ UNCHANGED <<subsListed, subsUa,
        subsStatus>>
    BY <1>13 DEF Subs!SubscriberClose
  <2>2. {subsHandler, subsUa}' \subseteq BOOLEAN /\ subsListed' \subseteq Contact
        /\ subsStatus' \in [Contact -> Subs!Shown]
    BY <1>0, <2>1 DEF SubsTyped
  <2>. QED BY <1>2, <2>1, <2>2
<1> HIDE DEF Slower
<1>. QED BY <1>1, <1>3, <1>4, <1>5, <1>6, <1>7, <1>8, <1>9, <1>10, <1>11, <1>12, <1>13
         DEF Subs!Next, Subs!Ends

\* The invariant says what PeersAgree does of the subscriptions.
LEMMA SubsSafe == SubsInv => Subs!TypeOK /\ Subs!KeepsTrying /\ Subs!ShownIsSubscribed
<1> SUFFICES ASSUME SubsInv PROVE Subs!TypeOK /\ Subs!KeepsTrying /\ Subs!ShownIsSubscribed
  OBVIOUS
<1>1. subsHandler \in BOOLEAN /\ subsUa \in BOOLEAN
  BY Zenon DEF SubsInv, SubsTyped
<1>2. Subs!TypeOK
  BY <1>1 DEF SubsInv, SubsTyped, Subs!TypeOK
<1>3. Subs!KeepsTrying
  BY DEF SubsInv, SubsTyped, SubsFits, Subs!KeepsTrying
<1>. QED BY <1>2, <1>3 DEF SubsInv, SubsFits, Subs!ShownIsSubscribed

-----------------------------------------------------------------------------
(* Proof about Subscriptions again: the list of contacts, which no one empties. *)

\* The types of the lists and of what is kept for each contact.
BookTyped ==
    /\ bookListed \subseteq Contact /\ {bookHandler, bookUa} \subseteq BOOLEAN
    /\ bookEntry \in [Contact -> {"none", "live", "ending"}] /\ bookSub \in [Contact -> BOOLEAN]
    /\ bookTimer \in [Contact -> {"none", "first", "retry", "free"}]
    /\ bookFailc \in [Contact -> 0 .. BookMaxFail]
    /\ bookWait \in [Contact -> Book!Waits] /\ bookBackoff \in [Contact -> Book!Waits]
    /\ bookStatus \in [Contact -> Book!Shown]

\* Until shutdown a contact has an entry if it is listed and marked, and no entry ends.
BookFits(c) ==
    bookHandler => /\ bookEntry[c] \in {"none", "live"} /\ bookTimer[c] # "free"
                   /\ bookEntry[c] = "live" <=> (c \in bookListed /\ c \in P2p)

\* The inductive invariant.
BookInv == BookTyped /\ \A c \in Contact : BookFits(c)

\* The waits after failures are some of the waits.
LEMMA BookWaits == ASSUME NEW n \in Nat PROVE Book!WaitFail(n + 1) \in Book!Waits
<1>1. CASE n + 1 \in 1 .. 3
  <2>1. n + 1 = 1 \/ n + 1 = 2 \/ n + 1 = 3
    BY <1>1
  <2>2. CASE n + 1 = 1
    BY <2>2 DEF Book!WaitFail, Book!Waits
  <2>3. CASE n + 1 = 2
    BY <2>3 DEF Book!WaitFail, Book!Waits
  <2>4. CASE n + 1 = 3
    BY <2>4 DEF Book!WaitFail, Book!Waits
  <2>. QED BY <2>1, <2>2, <2>3, <2>4
<1>2. CASE n + 1 \notin 1 .. 3
  BY <1>2 DEF Book!WaitFail, Book!Waits
<1>. QED BY <1>1, <1>2

\* Entries are made for the contacts of C, and taken from those of D.
LEMMA BookEntries ==
    ASSUME BookTyped, NEW C, NEW D, Book!Entries(C, D)
    PROVE  /\ bookEntry' \in [Contact -> {"none", "live", "ending"}] /\
                 bookSub' \in [Contact -> BOOLEAN]
           /\ bookTimer' \in [Contact -> {"none", "first", "retry", "free"}]
           /\ bookFailc' \in [Contact -> 0 .. BookMaxFail]
           /\ bookWait' \in [Contact -> Book!Waits] /\ bookBackoff' \in [Contact -> Book!Waits]
<1>1. BookMaxFail \in Nat /\ {0, 1} \subseteq Book!Waits
  BY PartsAssumption DEF Book!SubscriptionsAssumption, Book!Waits
<1>2. bookEntry' \in [Contact -> {"none", "live", "ending"}] /\ bookSub' \in [Contact -> BOOLEAN]
  BY DEF Book!Entries, BookTyped
<1>3. bookTimer' \in [Contact -> {"none", "first", "retry", "free"}]
  BY DEF Book!Entries, BookTyped
<1>4. bookFailc' \in [Contact -> 0 .. BookMaxFail]
  BY <1>1 DEF Book!Entries, BookTyped
<1>5. bookWait' \in [Contact -> Book!Waits] /\ bookBackoff' \in [Contact -> Book!Waits]
  BY <1>1 DEF Book!Entries, BookTyped
<1>. QED BY <1>2, <1>3, <1>4, <1>5

\* An entry fails: it waits.
LEMMA BookFails ==
    ASSUME BookTyped, NEW c \in Contact, Book!Fails(c)
    PROVE  /\ bookTimer' \in [Contact -> {"none", "first", "retry", "free"}]
           /\ \A d \in Contact : bookTimer'[d] = bookTimer[d] \/ bookTimer'[d] # "free"
           /\ bookFailc' \in [Contact -> 0 .. BookMaxFail]
           /\ bookWait' \in [Contact -> Book!Waits] /\ bookBackoff' \in [Contact -> Book!Waits]
<1> DEFINE n == bookFailc[c]
           w == Book!WaitFail(n + 1)
           b == IF w > bookBackoff[c] THEN w ELSE bookBackoff[c]
<1>1. BookMaxFail \in Nat /\ n \in Nat /\ n < BookMaxFail
  BY PartsAssumption DEF Book!SubscriptionsAssumption, BookTyped, Book!Fails
<1>2. w \in Book!Waits
  BY <1>1, BookWaits
<1>3. b \in Book!Waits
  BY <1>2 DEF BookTyped
<1>4. /\ bookFailc' = [bookFailc EXCEPT ![c] = n + 1] /\ bookWait' = [bookWait EXCEPT ![c] = w]
      /\ bookBackoff' = [bookBackoff EXCEPT ![c] = b]
      /\ bookTimer' = [bookTimer EXCEPT ![c] = "retry"]
  BY Zenon DEF Book!Fails
<1> HIDE DEF n, w, b
<1>5. bookFailc' \in [Contact -> 0 .. BookMaxFail]
  BY <1>1, <1>4 DEF BookTyped
<1>6. bookTimer' \in [Contact -> {"none", "first", "retry", "free"}]
      /\ \A d \in Contact : bookTimer'[d] = bookTimer[d] \/ bookTimer'[d] # "free"
  BY <1>4 DEF BookTyped
<1>7. bookWait' \in [Contact -> Book!Waits] /\ bookBackoff' \in [Contact -> Book!Waits]
  BY <1>2, <1>3, <1>4 DEF BookTyped
<1>. QED BY <1>5, <1>6, <1>7

\* The contacts that were read have their entries.
LEMMA BookInit == Book!Init => BookInv
<1> SUFFICES ASSUME Book!Init PROVE BookInv
  OBVIOUS
<1>1. BookMaxFail \in Nat /\ {0, 1} \subseteq Book!Waits /\ "unknown" \in Book!Shown
  BY PartsAssumption DEF Book!SubscriptionsAssumption, Book!Waits, Book!Shown
<1>2. {bookHandler, bookUa} \subseteq BOOLEAN
  BY Zenon DEF Book!Init
<1>3. BookTyped
  BY <1>1, <1>2 DEF Book!Init, BookTyped
<1>4. \A c \in Contact : BookFits(c)
  BY DEF Book!Init, BookFits
<1>. QED BY <1>3, <1>4 DEF BookInv

\* Every step keeps the invariant.
LEMMA BookNext == BookInv /\ [Book!Next]_bookVars => BookInv'
<1> SUFFICES ASSUME BookInv, [Book!Next]_bookVars PROVE BookInv'
  OBVIOUS
<1>0. BookTyped /\ \A c \in Contact : BookFits(c)
  BY DEF BookInv
<1>1. CASE UNCHANGED bookVars
  BY <1>1, Zenon DEF BookInv, BookTyped, BookFits, bookVars
<1>2. ASSUME NEW c \in Contact, Book!ContactAdd(c) PROVE BookInv'
  <2>1. /\ bookListed' = bookListed \cup {c} /\ UNCHANGED <<bookHandler, bookUa>>
        /\ bookStatus' = [bookStatus EXCEPT ![c] = "unknown"]
        /\ Book!Entries(IF bookHandler THEN {c} \cap P2p ELSE {}, {}) /\ bookEntry[c] = "none"
    BY <1>2 DEF Book!ContactAdd
  <2>2. bookStatus' \in [Contact -> Book!Shown]
    BY <1>0, <2>1 DEF BookTyped, Book!Shown
  <2>3. BookTyped'
    BY <1>0, <2>1, <2>2, BookEntries DEF BookTyped
  <2>4. ASSUME NEW d \in Contact, bookHandler PROVE BookFits(d)'
    <3>1. bookEntry'[d] = (IF d \in {c} \cap P2p THEN "live" ELSE bookEntry[d])
          /\ bookTimer'[d] = (IF d \in {c} \cap P2p THEN "first" ELSE bookTimer[d])
      BY <2>1, <2>4 DEF Book!Entries
    <3>2. BookFits(d)
      BY <1>0
    <3>. QED BY <2>1, <2>4, <3>1, <3>2 DEF BookFits
  <2>5. \A d \in Contact : ~bookHandler => BookFits(d)'
    BY <2>1 DEF BookFits
  <2>. QED BY <2>3, <2>4, <2>5 DEF BookInv
<1>3. ASSUME NEW c \in Contact, Book!ContactRemove(c) PROVE BookInv'
  <2>1. /\ bookListed' = bookListed \ {c} /\ UNCHANGED <<bookHandler, bookUa, bookStatus>>
        /\ Book!Entries({}, IF bookHandler THEN {c} ELSE {})
    BY <1>3 DEF Book!ContactRemove
  <2>2. BookTyped'
    BY <1>0, <2>1, BookEntries DEF BookTyped
  <2>3. ASSUME NEW d \in Contact, bookHandler PROVE BookFits(d)'
    <3>1. bookEntry'[d] = (IF d = c THEN "none" ELSE bookEntry[d])
          /\ bookTimer'[d] = (IF d = c THEN "none" ELSE bookTimer[d])
      BY <2>1, <2>3 DEF Book!Entries
    <3>2. BookFits(d)
      BY <1>0
    <3>. QED BY <2>1, <2>3, <3>1, <3>2 DEF BookFits
  <2>4. \A d \in Contact : ~bookHandler => BookFits(d)'
    BY <2>1 DEF BookFits
  <2>. QED BY <2>2, <2>3, <2>4 DEF BookInv
<1>4. CASE Book!UaChanges
  <2>1. bookUa' \in BOOLEAN
        /\ UNCHANGED <<bookListed, bookHandler, bookEntry, bookSub, bookTimer, bookFailc, bookWait,
                      bookBackoff, bookStatus>>
    BY <1>0, <1>4, Zenon DEF Book!UaChanges, BookTyped
  <2>2. BookTyped' /\ \A c \in Contact : BookFits(c)'
    BY <1>0, <2>1 DEF BookTyped, BookFits
  <2>. QED BY <2>2 DEF BookInv
<1>5. ASSUME UNCHANGED <<bookListed, bookHandler, bookUa, bookEntry>>,
             bookSub' \in [Contact -> BOOLEAN], bookStatus' \in [Contact -> Book!Shown],
             bookFailc' \in [Contact -> 0 .. BookMaxFail], bookWait' \in [Contact -> Book!Waits],
             bookBackoff' \in [Contact -> Book!Waits],
             bookTimer' \in [Contact -> {"none", "first", "retry", "free"}],
             \A d \in Contact : bookTimer'[d] = bookTimer[d] \/ bookTimer'[d] # "free"
      PROVE  BookInv'
  <2>1. BookTyped'
    BY <1>0, <1>5 DEF BookTyped
  <2>2. \A d \in Contact : BookFits(d)'
    BY <1>0, <1>5 DEF BookFits
  <2>. QED BY <2>1, <2>2 DEF BookInv
<1>6. ASSUME NEW c \in Contact, NEW ok \in BOOLEAN, Book!TmrHandler(c, ok) PROVE BookInv'
  <2>1. UNCHANGED <<bookListed, bookHandler, bookUa, bookEntry, bookStatus>>
    BY <1>6 DEF Book!TmrHandler, Book!lists
  <2>2. CASE ok
    <3>1. /\ bookSub' = [bookSub EXCEPT ![c] = TRUE] /\
             bookTimer' = [bookTimer EXCEPT ![c] = "none"]
          /\ UNCHANGED <<bookFailc, bookWait, bookBackoff>>
      BY <1>6, <2>2 DEF Book!TmrHandler
    <3>2. bookTimer' \in [Contact -> {"none", "first", "retry", "free"}]
          /\ \A d \in Contact : bookTimer'[d] = bookTimer[d] \/ bookTimer'[d] # "free"
      BY <1>0, <3>1 DEF BookTyped
    <3>. QED BY <1>0, <1>5, <2>1, <3>1, <3>2 DEF BookTyped
  <2>3. CASE ~ok
    <3>1. Book!Fails(c) /\ UNCHANGED bookSub
      BY <1>6, <2>3 DEF Book!TmrHandler
    <3>2. bookSub' \in [Contact -> BOOLEAN] /\ bookStatus' \in [Contact -> Book!Shown]
      BY <1>0, <2>1, <3>1 DEF BookTyped
    <3>. QED BY <1>0, <1>5, <2>1, <3>1, <3>2, BookFails
  <2>. QED BY <2>2, <2>3
<1>7. ASSUME NEW c \in Contact, NEW st \in Book!Shown, Book!Notify(c, st) PROVE BookInv'
  <2>1. /\ bookFailc' = [bookFailc EXCEPT ![c] = 0] /\ bookBackoff' = [bookBackoff EXCEPT ![c] = 0]
        /\ UNCHANGED <<bookListed, bookHandler, bookUa, bookEntry, bookSub, bookTimer, bookWait>>
        /\ bookStatus' = [bookStatus EXCEPT ![c] = st] \/ UNCHANGED bookStatus
    BY <1>7 DEF Book!Notify, Book!lists
  <2>2. BookMaxFail \in Nat /\ 0 \in Book!Waits
    BY PartsAssumption DEF Book!SubscriptionsAssumption, Book!Waits
  <2>3. bookFailc' \in [Contact -> 0 .. BookMaxFail] /\ bookBackoff' \in [Contact -> Book!Waits]
    BY <1>0, <2>1, <2>2 DEF BookTyped
  <2>4. bookStatus' \in [Contact -> Book!Shown] /\ bookSub' \in [Contact -> BOOLEAN]
        /\ bookWait' \in [Contact -> Book!Waits]
    BY <1>0, <2>1 DEF BookTyped
  <2>5. bookTimer' \in [Contact -> {"none", "first", "retry", "free"}]
        /\ \A d \in Contact : bookTimer'[d] = bookTimer[d] \/ bookTimer'[d] # "free"
    BY <1>0, <2>1 DEF BookTyped
  <2>. QED BY <1>5, <2>1, <2>3, <2>4, <2>5
<1>8. ASSUME NEW c \in Contact, Book!LastNotify(c) PROVE BookInv'
  <2>1. /\ Book!Entries({}, {c}) /\ UNCHANGED <<bookListed, bookHandler, bookUa>>
        /\ bookStatus' = [bookStatus EXCEPT ![c] = "closed"] /\ bookEntry[c] = "ending"
    BY <1>8 DEF Book!LastNotify, Book!lists
  <2>2. ~bookHandler
    BY <1>0, <2>1 DEF BookFits
  <2>3. bookStatus' \in [Contact -> Book!Shown]
    BY <1>0, <2>1 DEF BookTyped, Book!Shown
  <2>4. BookTyped'
    BY <1>0, <2>1, <2>3, BookEntries DEF BookTyped
  <2>. QED BY <2>1, <2>2, <2>4 DEF BookInv, BookFits
<1>9. ASSUME NEW c \in Contact, Book!CloseHandler(c) PROVE BookInv'
  <2>1. /\ bookSub' = [bookSub EXCEPT ![c] = FALSE] /\
           bookStatus' = [bookStatus EXCEPT ![c] = "unknown"]
        /\ UNCHANGED <<bookListed, bookHandler, bookUa, bookEntry>>
    BY <1>9 DEF Book!CloseHandler, Book!lists
  <2>2. bookSub' \in [Contact -> BOOLEAN] /\ bookStatus' \in [Contact -> Book!Shown]
    BY <1>0, <2>1 DEF BookTyped, Book!Shown
  <2>3. CASE Book!Fails(c)
    BY <1>0, <1>5, <2>1, <2>2, <2>3, BookFails
  <2>4. CASE ~Book!Fails(c)
    <3>1. PICK w \in {5, 3600, 300} : bookWait' = [bookWait EXCEPT ![c] = w]
      BY <1>9, <2>4 DEF Book!CloseHandler, Book!WaitTerm
    <3>2. bookTimer' = [bookTimer EXCEPT ![c] = "retry"] /\ UNCHANGED <<bookFailc, bookBackoff>>
      BY <1>9, <2>4 DEF Book!CloseHandler
    <3>3. bookWait' \in [Contact -> Book!Waits] /\ bookFailc' \in [Contact -> 0 .. BookMaxFail]
          /\ bookBackoff' \in [Contact -> Book!Waits]
      BY <1>0, <3>1, <3>2 DEF BookTyped, Book!Waits
    <3>4. bookTimer' \in [Contact -> {"none", "first", "retry", "free"}]
          /\ \A d \in Contact : bookTimer'[d] = bookTimer[d] \/ bookTimer'[d] # "free"
      BY <1>0, <3>2 DEF BookTyped
    <3>. QED BY <1>5, <2>1, <2>2, <3>3, <3>4
  <2>. QED BY <2>3, <2>4
<1>10. CASE Book!CloseAll
  <2>1. PICK B \in SUBSET Contact :
           /\ bookEntry' = [c \in Contact |-> IF c \in B THEN "ending" ELSE "none"]
           /\ bookTimer' = [c \in Contact |-> IF c \in B THEN "free" ELSE "none"]
    BY <1>10 DEF Book!CloseAll
  <2>2. bookHandler' = FALSE /\ bookSub' = [c \in Contact |-> FALSE]
        /\ UNCHANGED <<bookListed, bookUa, bookFailc, bookWait, bookBackoff, bookStatus>>
    BY <1>10 DEF Book!CloseAll
  <2>3. BookTyped'
    BY <1>0, <2>1, <2>2 DEF BookTyped
  <2>. QED BY <2>2, <2>3 DEF BookInv, BookFits
<1>11. ASSUME NEW c \in Contact, Book!Deref(c) PROVE BookInv'
  <2>1. Book!Entries({}, {c}) /\ UNCHANGED <<bookListed, bookHandler, bookUa, bookStatus>>
        /\ bookTimer[c] = "free"
    BY <1>11 DEF Book!Deref, Book!lists
  <2>2. ~bookHandler
    BY <1>0, <2>1 DEF BookFits
  <2>3. BookTyped'
    BY <1>0, <2>1, BookEntries DEF BookTyped
  <2>. QED BY <2>1, <2>2, <2>3 DEF BookInv, BookFits
<1>12. CASE Book!SubscriberClose
  <2>1. Book!Entries({}, Contact) /\ bookHandler' = FALSE /\ UNCHANGED <<bookListed, bookUa,
        bookStatus>>
    BY <1>12 DEF Book!SubscriberClose
  <2>2. BookTyped'
    BY <1>0, <2>1, BookEntries DEF BookTyped
  <2>. QED BY <2>1, <2>2 DEF BookInv, BookFits
<1>13. ~Book!Flush
  BY DEF Book!Flush
<1>. QED BY <1>1, <1>2, <1>3, <1>4, <1>6, <1>7, <1>8, <1>9, <1>10, <1>11, <1>12, <1>13
         DEF Book!Next, Book!Ends

\* The invariant says what PeersAgree does of the contacts.
LEMMA BookSafe == BookInv => Book!TypeOK /\ Book!EntryPerContact
<1> SUFFICES ASSUME BookInv PROVE Book!TypeOK /\ Book!EntryPerContact
  OBVIOUS
<1>1. bookHandler \in BOOLEAN /\ bookUa \in BOOLEAN
  BY Zenon DEF BookInv, BookTyped
<1>2. Book!TypeOK
  BY <1>1 DEF BookInv, BookTyped, Book!TypeOK
<1>. QED BY <1>2 DEF BookInv, BookFits, Book!EntryPerContact

-----------------------------------------------------------------------------
(* Proof about Watchers, for any User-Agents and watchers. *)

\* The inductive invariant. Before mwi's timer no local mailbox has an entry.
WatchInv ==
    /\ Watch!TypeOK /\ Watch!WatchersKnow /\ Watch!OneMailbox
    /\ ~watchStarted => \A u \in Local : box[u] = "none"

\* All are told, for no NOTIFY fails.
LEMMA WatchTold ==
    ASSUME NEW W, NEW st, Watch!Notify(W, st)
    PROVE  watchTold' = [w \in Watcher |-> IF w \in W THEN st ELSE watchTold[w]]
BY DEF Watch!Notify

\* A mailbox that has no entry gets one or none.
LEMMA WatchBoxed ==
    ASSUME Watch!TypeOK, Watch!OneMailbox, NEW U \in SUBSET Ua, \A u \in U : box[u] = "none",
           Watch!MwiSubscribe(U)
    PROVE  /\ box' \in [Ua -> {"none", "live", "ending"}] /\ boxes' \in [Ua -> 0 .. 2]
           /\ Watch!OneMailbox' /\ \A u \in Ua \ U : box'[u] = box[u]
<1>1. PICK ok \in SUBSET U : /\ box' = [u \in Ua |-> IF u \in ok THEN "live" ELSE box[u]]
                             /\ boxes' = [u \in Ua |-> IF u \in ok THEN boxes[u] + 1 ELSE boxes[u]]
  BY DEF Watch!MwiSubscribe
<1>2. \A u \in Ua : boxes'[u] = IF box'[u] = "none" THEN 0 ELSE 1
  BY <1>1 DEF Watch!OneMailbox
<1>3. box' \in [Ua -> {"none", "live", "ending"}]
  BY <1>1 DEF Watch!TypeOK
<1>4. boxes' \in [Ua -> 0 .. 2]
  BY <1>1, <1>2
<1>. QED BY <1>1, <1>2, <1>3, <1>4 DEF Watch!OneMailbox

\* Nobody watches, and nothing is watched.
LEMMA WatchInit == Watch!Init => WatchInv
<1> SUFFICES ASSUME Watch!Init PROVE WatchInv
  OBVIOUS
<1>1. Watch!TypeOK
  <2>1. {open, subh, watchStarted} \subseteq BOOLEAN
    BY Zenon DEF Watch!Init
  <2>. QED BY <2>1 DEF Watch!Init, Watch!TypeOK
<1>. QED BY <1>1, PartsAssumption
         DEF Watch!Init, WatchInv, Watch!WatchersKnow, Watch!OneMailbox, Watch!WatchersAssumption

\* A step that leaves the mailboxes alone, or the watchers.
LEMMA WatchNotifiers ==
    ASSUME WatchInv, UNCHANGED <<registered, watchStarted, box, boxes>>,
           subh' \in BOOLEAN, open' \in BOOLEAN,
           watchStatus' \in [Ua -> {"unknown", "open", "closed"}],
           notifier' \in [Watcher -> Ua \cup {"none"}],
           watchTold' \in [Watcher -> {"unknown", "open", "closed"}], Watch!WatchersKnow'
    PROVE  WatchInv'
BY DEF WatchInv, Watch!TypeOK, Watch!OneMailbox

\* What only changes the mailboxes keeps the invariant.
LEMMA WatchMailboxes ==
    ASSUME WatchInv, UNCHANGED <<open, subh, watchStatus, notifier, watchTold>>,
           registered' \subseteq Ua, watchStarted' \in BOOLEAN,
           box' \in [Ua -> {"none", "live", "ending"}], boxes' \in [Ua -> 0 .. 2],
           Watch!OneMailbox', ~watchStarted' => \A u \in Local : box'[u] = "none"
    PROVE  WatchInv'
BY DEF WatchInv, Watch!TypeOK, Watch!WatchersKnow

\* Every step keeps the invariant.
LEMMA WatchNext == WatchInv /\ [Watch!Next]_watchVars => WatchInv'
<1> SUFFICES ASSUME WatchInv, [Watch!Next]_watchVars PROVE WatchInv'
  OBVIOUS
<1>1. /\ watchStatus \in [Ua -> {"unknown", "open", "closed"}]
      /\ notifier \in [Watcher -> Ua \cup {"none"}]
      /\ watchTold \in [Watcher -> {"unknown", "open", "closed"}]
      /\ box \in [Ua -> {"none", "live", "ending"}] /\ boxes \in [Ua -> 0 .. 2]
      /\ registered \subseteq Ua /\ Local \subseteq Ua
  BY PartsAssumption DEF WatchInv, Watch!TypeOK, Watch!WatchersAssumption
<1>2. open \in BOOLEAN /\ subh \in BOOLEAN /\ watchStarted \in BOOLEAN
      /\ Watch!TypeOK /\ Watch!WatchersKnow /\ Watch!OneMailbox
      /\ (~watchStarted => \A u \in Local : box[u] = "none")
  BY Zenon DEF WatchInv, Watch!TypeOK
<1>3. CASE UNCHANGED watchVars
  BY <1>3 DEF watchVars, WatchInv, Watch!TypeOK, Watch!WatchersKnow, Watch!OneMailbox
<1>4. ASSUME NEW w \in Watcher, NEW u \in Ua, Watch!Subscribe(w, u) PROVE WatchInv'
  <2>1. /\ notifier' = [notifier EXCEPT ![w] = u]
        /\ watchTold' = [v \in Watcher |-> IF v \in {w} THEN watchStatus[u] ELSE watchTold[v]]
        /\ UNCHANGED <<open, subh, watchStatus, registered, watchStarted, box, boxes>>
    BY <1>4, WatchTold DEF Watch!Subscribe, Watch!mwi
  <2>2. Watch!WatchersKnow'
    BY <1>1, <1>2, <2>1 DEF Watch!WatchersKnow
  <2>. QED BY <1>1, <1>2, <2>1, <2>2, WatchNotifiers
<1>5. ASSUME NEW w \in Watcher, Watch!WatcherGone(w) PROVE WatchInv'
  <2>1. /\ notifier' = [notifier EXCEPT ![w] = "none"]
        /\ UNCHANGED <<open, subh, watchStatus, watchTold, registered, watchStarted, box, boxes>>
    BY <1>5 DEF Watch!WatcherGone, Watch!mwi
  <2>2. Watch!WatchersKnow'
    BY <1>1, <1>2, <2>1 DEF Watch!WatchersKnow
  <2>. QED BY <1>1, <1>2, <2>1, <2>2, WatchNotifiers
<1>6. ASSUME NEW u \in Ua, NEW st \in {"open", "closed"}, Watch!StatusUpdate(u, st) PROVE WatchInv'
  <2>1. /\ watchStatus' = [watchStatus EXCEPT ![u] = st]
        /\ watchTold' = [v \in Watcher |-> IF v \in {w \in Watcher : notifier[w] = u} THEN st
                                           ELSE watchTold[v]]
        /\ UNCHANGED <<open, subh, notifier, registered, watchStarted, box, boxes>>
    BY <1>6, WatchTold DEF Watch!StatusUpdate, Watch!mwi
  <2>2. Watch!WatchersKnow'
    BY <1>1, <1>2, <2>1 DEF Watch!WatchersKnow
  <2>. QED BY <1>1, <1>2, <2>1, <2>2, WatchNotifiers
<1>7. ASSUME NEW u \in Ua, Watch!RegisterOk(u) PROVE WatchInv'
  <2>1. /\ u \notin Local /\ registered' = registered \cup {u}
        /\ (box[u] = "none" /\ Watch!MwiSubscribe({u})) \/ UNCHANGED <<box, boxes>>
        /\ UNCHANGED <<open, subh, watchStatus, notifier, watchTold, watchStarted>>
    BY <1>7 DEF Watch!RegisterOk
  <2>2. /\ box' \in [Ua -> {"none", "live", "ending"}] /\ boxes' \in [Ua -> 0 .. 2]
        /\ Watch!OneMailbox' /\ \A v \in Ua \ {u} : box'[v] = box[v]
    <3>1. CASE box[u] = "none" /\ Watch!MwiSubscribe({u})
      BY <1>2, <3>1, WatchBoxed
    <3>2. CASE UNCHANGED <<box, boxes>>
      BY <1>1, <1>2, <3>2 DEF Watch!OneMailbox
    <3>. QED BY <2>1, <3>1, <3>2
  <2>. QED BY <1>1, <1>2, <2>1, <2>2, WatchMailboxes
<1>8. CASE Watch!MwiTimer
  <2>1. /\ ~watchStarted /\ watchStarted' = TRUE /\ Watch!MwiSubscribe(Local)
        /\ UNCHANGED <<open, subh, watchStatus, notifier, watchTold, registered>>
    BY <1>8 DEF Watch!MwiTimer, Watch!presence
  <2>2. /\ box' \in [Ua -> {"none", "live", "ending"}] /\ boxes' \in [Ua -> 0 .. 2]
        /\ Watch!OneMailbox'
    BY <1>1, <1>2, <2>1, WatchBoxed
  <2>. QED BY <1>1, <2>1, <2>2, WatchMailboxes
<1>9. ASSUME NEW u \in Ua, Watch!BoxCloses(u) \/ Watch!BoxEnds(u) PROVE WatchInv'
  <2>1. /\ box[u] # "none" /\ box' = [box EXCEPT ![u] = "none"]
        /\ boxes' = [boxes EXCEPT ![u] = @ - 1]
        /\ UNCHANGED <<open, subh, watchStatus, notifier, watchTold, registered, watchStarted>>
    BY <1>9 DEF Watch!BoxCloses, Watch!BoxEnds, Watch!presence
  <2>2. Watch!OneMailbox' /\ box' \in [Ua -> {"none", "live", "ending"}]
    BY <1>1, <1>2, <2>1 DEF Watch!OneMailbox
  <2>3. boxes' \in [Ua -> 0 .. 2]
    BY <1>1, <1>2, <2>1 DEF Watch!OneMailbox
  <2>4. ~watchStarted' => \A v \in Local : box'[v] = "none"
    BY <1>1, <1>2, <2>1
  <2>. QED BY <1>1, <1>2, <2>1, <2>2, <2>3, <2>4, WatchMailboxes
<1>10. CASE Watch!Shutdown
  <2>1. /\ open' = FALSE /\ subh' = FALSE /\ notifier' = [w \in Watcher |-> "none"]
        /\ watchStatus' = [u \in Ua |-> watchStatus[u]]
        /\ box' = [u \in Ua |-> IF box[u] = "live" THEN "ending" ELSE box[u]]
        /\ UNCHANGED <<watchTold, registered, watchStarted, boxes>>
    BY <1>10 DEF Watch!Shutdown
  <2>2. Watch!TypeOK'
    <3>1. {open, subh, watchStarted}' \subseteq BOOLEAN
      BY <1>2, <2>1
    <3>. QED BY <1>1, <2>1, <3>1 DEF Watch!TypeOK
  <2>3. Watch!WatchersKnow' /\ Watch!OneMailbox'
    BY <1>1, <1>2, <2>1 DEF Watch!WatchersKnow, Watch!OneMailbox
  <2>4. ~watchStarted' => \A v \in Local : box'[v] = "none"
    BY <1>1, <1>2, <2>1
  <2>. QED BY <2>2, <2>3, <2>4 DEF WatchInv
<1>. QED BY <1>3, <1>4, <1>5, <1>6, <1>7, <1>8, <1>9, <1>10 DEF Watch!Next

-----------------------------------------------------------------------------
(* All components. *)

\* What the components begin with and do, whichever of them moves.
LEMMA Components ==
    /\ AllInit => /\ Init /\ Maps!Init /\ Sdes!Init /\ Dtls!Init /\ Zrtp!Init /\ Plain!Init
                  /\ Natbd!Init /\ Pub!Init /\ Subs!Init /\ Book!Init /\ Watch!Init
    /\ [AllNext]_all => /\ [Next]_vars /\ [Maps!Next]_mapsVars /\ [Sdes!Next]_sdesVars
                        /\ [Dtls!Next]_dtlsVars /\ [Zrtp!Next]_zrtpVars
                        /\ [Plain!Next]_plainVars /\ [Natbd!Next]_natbdVars
                        /\ [Pub!Next]_pubVars /\ [Subs!Next]_subsVars /\ [Book!Next]_bookVars
                        /\ [Watch!Next]_watchVars
<1> DEFINE Others(p) ==
      /\ p # "nat" => UNCHANGED vars
      /\ p # "maps" => UNCHANGED mapsVars
      /\ p # "sdes" => UNCHANGED sdesVars
      /\ p # "dtls" => UNCHANGED dtlsVars
      /\ p # "zrtp" => UNCHANGED zrtpVars
      /\ p # "zrtpc" => UNCHANGED plainVars
      /\ p # "natbd" => UNCHANGED natbdVars
      /\ p # "publisher" => UNCHANGED pubVars
      /\ p # "subscriber" => UNCHANGED subsVars
      /\ p # "contacts" => UNCHANGED bookVars
      /\ p # "watchers" => UNCHANGED watchVars
<1>1. AllInit => /\ Init /\ Maps!Init /\ Sdes!Init /\ Dtls!Init /\ Zrtp!Init /\ Plain!Init
                 /\ Natbd!Init /\ Pub!Init /\ Subs!Init /\ Book!Init /\ Watch!Init
  BY Zenon DEF AllInit
<1>3. ASSUME UNCHANGED all PROVE Others("none")
  BY <1>3 DEF all
<1>4. ASSUME NEW p, Only(p) PROVE Others(p)
  BY <1>4, Zenon DEF Only
<1> HIDE DEF Others
<1>5. ASSUME [AllNext]_all
      PROVE  \/ Others("none")
             \/ Others("nat") /\ Next
             \/ Others("maps") /\ Maps!Next
             \/ Others("sdes") /\ Sdes!Next
             \/ Others("dtls") /\ Dtls!Next
             \/ Others("zrtp") /\ Zrtp!Next
             \/ Others("zrtpc") /\ Plain!Next
             \/ Others("natbd") /\ Natbd!Next
             \/ Others("publisher") /\ Pub!Next
             \/ Others("subscriber") /\ Subs!Next
             \/ Others("contacts") /\ Book!Next
             \/ Others("watchers") /\ Watch!Next
  BY <1>3, <1>4, <1>5, Zenon DEF AllNext
<1>. QED BY <1>1, <1>5, Zenon DEF Others

\* The inductive invariant: that of every component but the two of the addresses.
PeersInv ==
    /\ SdesInv /\ DtlsInv /\ ZrtpInv /\ PlainInv /\ NatbdInv
    /\ PubInv /\ SubsInv /\ BookInv /\ WatchInv

\* It holds initially.
LEMMA PeersInit == AllInit => PeersInv
BY Components, SdesInit, DtlsInit, ZrtpInit, PlainInit, NatbdInit, PubInit, SubsInit, BookInit,
   WatchInit, Zenon DEF PeersInv

\* Every step keeps it.
LEMMA PeersNext == ASSUME SdesSteady PROVE PeersInv /\ [AllNext]_all => PeersInv'
BY Components, SdesNext, DtlsNext, ZrtpNext, PlainNext, NatbdNext, PubNext, SubsNext, BookNext,
   WatchNext, Zenon DEF PeersInv

\* The addresses that are offered, and the mappings, for any number of streams, every method,
\* any lifetime and any order of responses, failures, offers, checks and restarts: an offer
\* names only addresses that were gathered, and the selected ones are announced (mediac and
\* nstun are counted right in stun.c, turn.c and ice.c), unless the NAT changes a mapping while
\* the call waits; and a mapping is renewed before it ends, and made anew after a restart of
\* the server.
THEOREM AddressesHold ==
    ASSUME Remaps = FALSE
    PROVE  AllSpec => []AddressesAreRight
<1> DEFINE I == NatInv /\ MapsInv
<1>1. AllInit => I
  BY Components, NatInit, MapsInit, Zenon
<1>2. I /\ [AllNext]_all => I'
  BY Components, NatNext, MapsNext, Zenon
<1>3. I => AddressesAreRight
  BY NatSafe, MapsSafe, Zenon DEF AddressesAreRight
<1>. QED BY <1>1, <1>2, <1>3, PTL DEF AllSpec

\* Two ends know the same, for any streams, contacts, User-Agents, watchers and packets in
\* flight, and any order of offers, answers, packets, notifications, failures and timeouts: the
\* keys of SDES, DTLS-SRTP and ZRTP are those of the peer and what is secure stays so, our
\* publication and our watchers have our status, those we watch are watched and asked less and
\* less often, and every interval tests the NAT again. The peer's keys change as SdesSteady says.
THEOREM PeersDoAgree ==
    ASSUME SdesSteady
    PROVE  AllSpec => PeersAgree
<1> DEFINE Safe == /\ Sdes!KeysAgree /\ Sdes!HeardIsClear /\ Dtls!KeysAgree
                   /\ Zrtp!AnnouncedWhenAll /\ Zrtp!SecureStays
                   /\ Plain!QuietAfterAttack /\ Plain!SecureIsKept /\ Plain!AbortEnds
                   /\ Pub!RefreshKeepsStatus /\ Watch!WatchersKnow /\ Watch!OneMailbox
                   /\ Subs!KeepsTrying /\ Subs!ShownIsSubscribed /\ Book!EntryPerContact
                   /\ Natbd!GoesOn
           Backs == \A c \in Contact :
                       (subsEntry[c] = "live" /\ subsEntry'[c] = "live" /\
                             subsFailc'[c] > subsFailc[c])
                           => subsWait'[c] >= subsBackoff[c]
           Again == \A p \in NatbdProto :
                       Natbd!Timeout(p) => \A t \in Natbd!Tests(p) : test'[p][t] = "running"
<1>1. AllInit => PeersInv
  BY PeersInit
<1>2. PeersInv /\ [AllNext]_all => PeersInv'
  BY PeersNext
<1>3. PeersInv => Safe
  BY SdesSafe, DtlsSafe, ZrtpSafe, NatbdSafe, PubSafe, SubsSafe, BookSafe, Zenon
     DEF PeersInv, PlainInv, WatchInv
<1>4. PeersInv /\ [AllNext]_all => [Backs]_(Subs!vars)
  BY Components, SubsNext, Zenon DEF PeersInv
<1>5. PeersInv /\ [AllNext]_all => [Again]_(Natbd!vars)
  BY Components, NatbdNext, Zenon DEF PeersInv
<1>6. AllSpec => []PeersInv
  BY <1>1, <1>2, PTL DEF AllSpec
<1>7. AllSpec => []Safe
  BY <1>3, <1>6, PTL
<1>8. AllSpec => Subs!BacksOff
  BY <1>4, <1>6, PTL DEF AllSpec, Subs!BacksOff
<1>9. AllSpec => Natbd!TestedAgain
  BY <1>5, <1>6, PTL DEF AllSpec, Natbd!TestedAgain
<1>. QED BY <1>7, <1>8, <1>9, PTL DEF PeersAgree

\* Every component keeps its types, under the same assumptions: no counter, queue or sequence of
\* the modules exceeds its bound.
THEOREM NetworkTypes ==
    ASSUME Remaps = FALSE, SdesSteady
    PROVE  AllSpec => []AllTypesOK
<1> DEFINE I == NatInv /\ MapsInv /\ PeersInv
<1>1. AllInit => I
  BY Components, NatInit, MapsInit, PeersInit, Zenon
<1>2. I /\ [AllNext]_all => I'
  BY Components, NatNext, MapsNext, PeersNext, Zenon
<1>3. I => AllTypesOK
  BY SdesSafe, ZrtpSafe, NatbdSafe, SubsSafe, BookSafe, Zenon
     DEF NatInv, MapsInv, PeersInv, DtlsInv, PlainInv, PubInv, WatchInv, AllTypesOK
<1>. QED BY <1>1, <1>2, <1>3, PTL DEF AllSpec

-----------------------------------------------------------------------------
(* The values that TLC checks. *)

\* What a re-INVITE of the peer may change: nothing for module srtp, see the README.
MCChanges == [k \in {"srtp", "libsrtp"} |-> IF k = "srtp" THEN {} ELSE {"key", "suite", "add"}]
MCOrder == <<"audio", "video">>
=============================================================================
