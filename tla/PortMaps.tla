------------------------------- MODULE PortMaps -------------------------------
(***************************************************************************)
(* The port mappings of modules natpmp (with its client libnatpmp.c) and   *)
(* pcp: each component of each media stream asks the gateway to map its    *)
(* port, the call waits until all are granted, and a mapping is asked for  *)
(* again before its lifetime ends.  A PCP server that was restarted has    *)
(* forgotten all mappings and says so to all.  The gateway, and the client *)
(* that keeps a mapping of PCP alive, are external.                        *)
(***************************************************************************)
EXTENDS Integers

CONSTANTS
    Proto,     \* "natpmp" or "pcp", or both in turn
    Slot,      \* the components: pairs of a stream and 1 or 2
    Life,      \* the lifetime of a mapping
    Renew,     \* when it is asked for again (3/4 of it)
    GiveUp,    \* when a request that has no answer ends (NATPMP_MAXTX)
    Delay,     \* an answer that comes later is a late one
    Uptime     \* the epoch of the server when the call begins

\* What is assumed of the constants; the module that gives them values asserts it.
PortMapsAssumption ==
    /\ Proto \subseteq {"natpmp", "pcp"}
    /\ {Life, Renew, GiveUp, Delay, Uptime} \subseteq Nat
    /\ Renew + Delay < Life /\ Delay < GiveUp

VARIABLES
    proto,
    call,      \* "waiting", "up" or "closed"
    estabh,    \* sess->estabh is set
    known,     \* natpmp_extaddr is set
    req,       \* the age of a component's request, or None
    held,      \* comp->natpmp: "none", "request" or "freed"
    granted,   \* comp->granted
    timer,     \* time until the mapping is asked for again, or None
    lease,     \* what is left of the mapping at the gateway
    address,   \* in the SDP: "none", "zero" or "mapped"
    epoch, seen,     \* the server's epoch; media->srv_epoch of a component's stream
    rebooted, heard, \* history: the server was restarted; and the call has heard of it
    failed     \* history: the last request had no answer in time, or was refused

vars == <<proto, call, estabh, known, req, held, granted, timer, lease, address, epoch, seen, rebooted, heard, failed>>

None == -1
Streams == {s[1] : s \in Slot}
All(x) == [s \in Slot |-> x]

TypeOK ==
    /\ proto \in Proto /\ call \in {"waiting", "up", "closed"} /\ estabh \in BOOLEAN /\ known \in BOOLEAN
    /\ req \in [Slot -> None .. GiveUp] /\ held \in [Slot -> {"none", "request", "freed"}]
    /\ granted \in [Slot -> BOOLEAN]
    /\ timer \in [Slot -> None .. Renew] /\ lease \in [Slot -> 0 .. Life]
    /\ address \in [Slot -> {"none", "zero", "mapped"}]
    /\ epoch \in 0 .. Uptime /\ seen \in [Streams -> 0 .. Uptime]
    /\ rebooted \in BOOLEAN /\ heard \in BOOLEAN /\ failed \in [Slot -> BOOLEAN]

\* media_alloc has asked for all mappings.
Asked ==
    /\ req = All(0) /\ held = All("request") /\ granted = All(FALSE) /\ timer = All(None)

\* The call's sessions are there. The gateway's address may not yet be known.
Init ==
    /\ proto \in Proto
    /\ call = "waiting" /\ estabh = TRUE /\ known = FALSE
    /\ Asked /\ lease = All(0) /\ address = All("none")
    /\ epoch = Uptime /\ seen = [m \in Streams |-> 0]
    /\ rebooted = FALSE /\ heard = FALSE /\ failed = All(FALSE)

-----------------------------------------------------------------------------
\* complete: the call is told once; an error closes it.
Complete(err) ==
    /\ estabh' = FALSE
    /\ call' = IF ~estabh THEN call ELSE IF err THEN "closed" ELSE "up"

\* Mutant: one component that is granted is enough.
IsCompleteHasty(g) == IF \E s \in Slot : g[s] THEN Complete(FALSE) ELSE UNCHANGED <<call, estabh>>

\* is_complete: all components of all streams are granted.
IsComplete(g) == IF \A s \in Slot : g[s] THEN Complete(FALSE) ELSE UNCHANGED <<call, estabh>>

\* completed of libnatpmp.c: the request is released before its handler is called.
Over(s) == req' = [req EXCEPT ![s] = None] /\ held' = [held EXCEPT ![s] = "none"]

\* natpmp_resp_handler and pcp_resp_handler: a mapping is granted.
Granted(s) ==
    /\ call # "closed" /\ req[s] # None
    /\ IF proto = "natpmp" THEN Over(s) ELSE req' = [req EXCEPT ![s] = None] /\ UNCHANGED held
    /\ granted' = [granted EXCEPT ![s] = TRUE]
    /\ timer' = [timer EXCEPT ![s] = Renew] /\ lease' = [lease EXCEPT ![s] = Life]
    /\ address' = [address EXCEPT ![s] = IF proto = "pcp" \/ known THEN "mapped" ELSE "zero"]
    /\ seen' = IF proto = "pcp" THEN [seen EXCEPT ![s[1]] = epoch] ELSE seen
    /\ failed' = [failed EXCEPT ![s] = FALSE]
    /\ IsComplete(granted')
    /\ UNCHANGED <<proto, known, epoch, rebooted, heard>>

\* A request is refused, or has had no answer to its last transmission. The client of PCP
\* goes on by itself.
Refused(s) ==
    /\ call # "closed" /\ req[s] # None
    /\ IF proto = "natpmp" THEN Over(s) /\ UNCHANGED timer
       ELSE req' = [req EXCEPT ![s] = None] /\ timer' = [timer EXCEPT ![s] = Renew] /\ UNCHANGED held
    /\ failed' = [failed EXCEPT ![s] = TRUE]
    /\ Complete(TRUE)
    /\ UNCHANGED <<proto, known, granted, lease, address, epoch, seen, rebooted, heard>>

\* Mutant: the mapping is asked for again when its lifetime has ended.
RefreshTimeoutLate(s) ==
    /\ call # "closed" /\ timer[s] = 0 /\ (failed[s] \/ lease[s] = 0)
    /\ timer' = [timer EXCEPT ![s] = None]
    /\ req' = [req EXCEPT ![s] = 0] /\ held' = [held EXCEPT ![s] = "request"]
    /\ UNCHANGED <<proto, call, estabh, known, granted, lease, address, epoch, seen, rebooted, heard, failed>>

\* refresh_timeout, and the client of PCP.
RefreshTimeout(s) ==
    /\ call # "closed" /\ timer[s] = 0
    /\ timer' = [timer EXCEPT ![s] = None]
    /\ req' = [req EXCEPT ![s] = 0] /\ held' = [held EXCEPT ![s] = "request"]
    /\ UNCHANGED <<proto, call, estabh, known, granted, lease, address, epoch, seen, rebooted, heard, failed>>

\* natpmp_mapping_request whose first packet cannot be sent: timeout has released the
\* request and called the handler, and then the component is given the request.
SendFailing(s) ==
    /\ proto = "natpmp" /\ call # "closed" /\ timer[s] = 0
    /\ timer' = [timer EXCEPT ![s] = None]
    /\ held' = [held EXCEPT ![s] = "freed"]
    /\ failed' = [failed EXCEPT ![s] = TRUE]
    /\ Complete(TRUE)
    /\ UNCHANGED <<proto, known, req, granted, lease, address, epoch, seen, rebooted, heard>>

\* extaddr_handler: the gateway's own address, asked for when the module was loaded.
Extaddr ==
    /\ proto = "natpmp" /\ ~known /\ known' = TRUE
    /\ UNCHANGED <<proto, call, estabh, req, held, granted, timer, lease, address, epoch, seen, rebooted, heard, failed>>

\* The PCP server is restarted (once): it has no mapping, and its epoch begins again.
Reboot ==
    /\ proto = "pcp" /\ call = "up" /\ ~rebooted
    /\ rebooted' = TRUE /\ heard' = FALSE
    /\ epoch' = 0 /\ lease' = All(0)
    /\ UNCHANGED <<proto, call, estabh, known, req, held, granted, timer, address, seen, failed>>

\* pcp_msg_handler: the server's announcement. A smaller epoch than the last one means
\* that it was restarted: all components of the stream ask again (media_refresh).
Announce ==
    LET lost(s) == epoch < seen[s[1]]
    IN  /\ proto = "pcp" /\ call # "closed"
        /\ req' = [s \in Slot |-> IF lost(s) THEN 0 ELSE req[s]]
        /\ timer' = [s \in Slot |-> IF lost(s) THEN None ELSE timer[s]]
        /\ seen' = [m \in Streams |-> epoch]
        /\ heard' = rebooted
        /\ UNCHANGED <<proto, call, estabh, known, held, granted, lease, address, epoch, rebooted, failed>>

\* media_destructor: the mappings of granted components are given back, unless that
\* packet is lost.
Destroy ==
    /\ call # "closed" /\ call' = "closed"
    /\ req' = All(None) /\ held' = All("none") /\ timer' = All(None)
    /\ \E lost \in SUBSET Slot :
          lease' = [s \in Slot |-> IF granted[s] /\ s \notin lost THEN 0 ELSE lease[s]]
    /\ UNCHANGED <<proto, estabh, known, granted, address, epoch, seen, rebooted, heard, failed>>

\* Time passes; timers are not late, and a request ends after GiveUp.
Tick ==
    /\ call # "closed" /\ \A s \in Slot : timer[s] # 0 /\ req[s] # GiveUp
    /\ timer' = [s \in Slot |-> IF timer[s] = None THEN None ELSE timer[s] - 1]
    /\ req' = [s \in Slot |-> IF req[s] = None THEN None ELSE req[s] + 1]
    /\ lease' = [s \in Slot |-> IF lease[s] = 0 THEN 0 ELSE lease[s] - 1]
    /\ epoch' = IF proto = "pcp" /\ epoch < Uptime - 1 THEN epoch + 1 ELSE epoch
    /\ failed' = [s \in Slot |-> failed[s] \/ req'[s] > Delay]
    /\ UNCHANGED <<proto, call, estabh, known, held, granted, address, seen, rebooted, heard>>

Next ==
    \/ \E s \in Slot : Granted(s) \/ Refused(s) \/ RefreshTimeout(s) \/ SendFailing(s)
    \/ Extaddr \/ Reboot \/ Announce \/ Destroy \/ Tick

Spec == Init /\ [][Next]_vars

-----------------------------------------------------------------------------
\* A call that was told of its mappings has all of them, as long as the gateway answers
\* in time and is not restarted: the renewal comes before the lifetime ends, in natpmp.c:151
\* and in the client that pcp.c:231 starts.
MappingsLast ==
    call = "up" => \A s \in Slot : lease[s] > 0 \/ failed[s] \/ rebooted

\* After a restart of the server that was announced, each mapping is there or asked for: of
\* streams with one component (RTCP multiplexed), see RebootIsFound.
RebootIsFoundSingly ==
    \A s \in Slot :
        (heard /\ call = "up" /\ {t \in Slot : t[1] = s[1]} = {s}) => lease[s] > 0 \/ req[s] # None \/ failed[s]

\* The same of all streams (pcp.c:271-284). A renewal that is answered between the restart and
\* the announcement hides the restart from the other component.
RebootIsFound == (heard /\ call = "up") => \A s \in Slot : lease[s] > 0 \/ req[s] # None \/ failed[s]

\* What natpmp.c:185 says: the SDP has the external address. It may not be known yet.
AddressIsKnown == call = "up" => \A s \in Slot : address[s] = "mapped"

\* A mapping that could not be renewed is asked for again while the call lasts.
NoMappingForgotten == call = "up" => \A s \in Slot : req[s] # None \/ timer[s] # None

\* libnatpmp.c:36 releases a request before it calls the handler; nobody keeps it.
RequestIsLive == \A s \in Slot : held[s] # "freed"
==============================================================================
