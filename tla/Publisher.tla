------------------------------- MODULE Publisher -------------------------------
(***************************************************************************)
(* The publication of a User-Agent's presence, module presence             *)
(* (publisher.c): a PUBLISH with the status, refreshed without it before   *)
(* it expires, replaced when the status changes, withdrawn at shutdown.    *)
(* The server names each version by an entity tag.  SIP transactions and   *)
(* the server are external; a publication there is a tag and a status.     *)
(***************************************************************************)
EXTENDS Integers, Sequences, FiniteSets

CONSTANTS
    Faults,    \* of "overlap", "error", "send" and "late", explained where they occur
    MaxTag,    \* tags that the server gives out
    MaxReqs    \* requests under way

\* What is assumed of the constants; the module that gives them values asserts it.
PublisherAssumption ==
    Faults \subseteq {"overlap", "error", "send", "late"} /\ {MaxTag, MaxReqs} \subseteq Nat

VARIABLES
    status,    \* ua_presence_status: "unknown", "open" or "closed"
    live,      \* the publisher is there
    etag,      \* pub->etag, 0 for none
    refresh,   \* pub->refresh
    timer,     \* pub->tmr runs
    reqs,      \* requests under way whose responses pub gets
    server,    \* the publications there: sets of a tag and a status
    tags       \* tags given out

vars == <<status, live, etag, refresh, timer, reqs, server, tags>>

Status == {"unknown", "open", "closed"}
Empty == "empty"
\* A request (tag, body, outcome): "sent" until the server has it, then a new tag or a refusal.
Request == [tag : 0 .. MaxTag, body : Status \cup {Empty}, sent : BOOLEAN, new : 0 .. MaxTag]

TypeOK ==
    /\ status \in Status /\ live \in BOOLEAN /\ etag \in 0 .. MaxTag
    /\ refresh \in BOOLEAN /\ timer \in BOOLEAN
    /\ reqs \subseteq Request /\ Cardinality(reqs) <= MaxReqs
    /\ server \subseteq (1 .. MaxTag) \X Status /\ tags \in 0 .. MaxTag

\* publisher_alloc, for an account with a publication interval.
Init ==
    /\ status = "unknown" /\ live = TRUE /\ etag = 0 /\ refresh = FALSE /\ timer = TRUE
    /\ reqs = {} /\ server = {} /\ tags = 0

-----------------------------------------------------------------------------
\* publish: the body is the status, or nothing when it is refreshed only.
Publish(tag, ref, st) ==
    LET r == [tag |-> tag, body |-> IF ref THEN Empty ELSE st, sent |-> TRUE, new |-> 0]
    IN  /\ r \notin reqs /\ Cardinality(reqs) < MaxReqs
        /\ reqs' = reqs \cup {r}

\* tmr_handler. A request that cannot be sent is tried again.
TmrHandler ==
    /\ live /\ timer
    /\ \/ Publish(etag, refresh, status) /\ timer' = FALSE
       \/ "send" \in Faults /\ UNCHANGED <<timer, reqs>>
    /\ UNCHANGED <<status, live, etag, refresh, server, tags>>

\* Mutant: the status changes and a refresh goes on without it.
StatusUpdateLazy(st) ==
    /\ live /\ st # status /\ (reqs = {} \/ "overlap" \in Faults)
    /\ status' = st /\ refresh' = refresh
    /\ Publish(etag, refresh, st)
    /\ UNCHANGED <<live, etag, timer, server, tags>>

\* status_update of presence.c, by command, and pub_ua_event_handler when the User-Agent is
\* registered: the status is published at once. Without "overlap" nothing else is under way.
StatusUpdate(st) ==
    /\ live /\ st # status /\ (reqs = {} \/ "overlap" \in Faults)
    /\ status' = st /\ refresh' = FALSE
    /\ Publish(etag, FALSE, st)
    /\ UNCHANGED <<live, etag, timer, server, tags>>

\* The server gets a request: a tag that it does not know is refused (412), else the
\* publication has a new tag, and the status of the body if there is one.
Serve(r) ==
    LET old == {p \in server : p[1] = r.tag}
        body == IF r.body = Empty THEN {p[2] : p \in old} ELSE {r.body}
        known == r.tag = 0 \/ old # {}
    IN  /\ r \in reqs /\ r.sent /\ tags < MaxTag
        /\ tags' = IF known THEN tags + 1 ELSE tags
        /\ server' = IF known THEN (server \ old) \cup {<<tags + 1, b>> : b \in body} ELSE server
        /\ reqs' = (reqs \ {r}) \cup {[r EXCEPT !.sent = FALSE, !.new = IF known THEN tags + 1 ELSE 0]}
        /\ UNCHANGED <<status, live, etag, refresh, timer>>

\* A publication ends before its time: the server was restarted.
Forget == server # {} /\ server' = {} /\ UNCHANGED <<status, live, etag, refresh, timer, reqs, tags>>

\* response_handler: 200 with a tag.
Accepted(r) ==
    /\ live /\ r \in reqs /\ ~r.sent /\ r.new # 0
    /\ etag' = r.new /\ refresh' = TRUE /\ timer' = TRUE
    /\ reqs' = reqs \ {r}
    /\ UNCHANGED <<status, live, server, tags>>

\* response_handler: 412. The status is published anew, if that can be sent.
Refused(r) ==
    LET anew == [tag |-> 0, body |-> status, sent |-> TRUE, new |-> 0]
    IN  /\ live /\ r \in reqs /\ ~r.sent /\ r.new = 0
        /\ etag' = 0 /\ refresh' = FALSE
        /\ \/ reqs' = (reqs \ {r}) \cup {anew}
           \/ "send" \in Faults /\ reqs' = reqs \ {r}
        /\ UNCHANGED <<status, live, timer, server, tags>>

\* response_handler: another error, or none came in time. With "error" that may happen.
Failed(r) ==
    /\ live /\ "error" \in Faults /\ r \in reqs
    /\ reqs' = reqs \ {r}
    /\ UNCHANGED <<status, live, etag, refresh, timer, server, tags>>

\* publisher_close: the publication is withdrawn, with a request nobody waits for, which may
\* be lost. Without "late" no response is outstanding then.
Close ==
    /\ live /\ live' = FALSE /\ (reqs = {} \/ "late" \in Faults)
    /\ status' = "closed" /\ timer' = FALSE
    /\ server' = {p \in server : p[1] # etag} \/ UNCHANGED server
    /\ UNCHANGED <<etag, refresh, reqs, tags>>

Next ==
    \/ TmrHandler \/ Forget \/ Close
    \/ \E st \in {"open", "closed"} : StatusUpdate(st)
    \/ \E r \in reqs : Serve(r) \/ Accepted(r) \/ Refused(r) \/ Failed(r)

Spec == Init /\ [][Next]_vars

-----------------------------------------------------------------------------
\* What is kept alive by refreshing is the status of the User-Agent: never an older one
\* (publisher.c:108, 219), unless a response overtakes the request of a change that then fails.
RefreshKeepsStatus ==
    (live /\ refresh /\ reqs = {}) => \A p \in server : p[1] = etag => p[2] = status

\* The publisher goes on: it waits for the time to refresh or for a response. It does not
\* after an error, nor when the request after a 412 cannot be sent.
GoesOn == live => timer \/ reqs # {}

\* At rest the server has one publication of ours. Changes that overlap leave others behind.
OnePublication == (live /\ reqs = {}) => Cardinality(server) <= 1

\* Whoever waits for a response is there when it comes.
ResponseHasPublisher == reqs # {} => live
==============================================================================
