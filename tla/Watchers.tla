-------------------------------- MODULE Watchers --------------------------------
(***************************************************************************)
(* Those who watch us and the mailboxes that we watch: the notifiers of    *)
(* module presence (notifier.c, with what presence.c and publisher.c do to *)
(* the status), one for each SUBSCRIBE of another, told of the status by   *)
(* NOTIFY; and module mwi, with a subscription to the mailbox of each      *)
(* User-Agent that is registered.  SIP events are external.                *)
(***************************************************************************)
EXTENDS Integers, FiniteSets

CONSTANTS
    Ua,        \* User-Agents
    Watcher,   \* dialogs in which others subscribe
    Published, \* User-Agents whose account has a publication interval
    Local,     \* User-Agents that do not register
    Faults     \* with "notify" a NOTIFY may fail; with "drop" a local mailbox may end

\* What is assumed of the constants; the module that gives them values asserts it.
WatchersAssumption == Published \cup Local \subseteq Ua /\ Faults \subseteq {"notify", "drop"}

VARIABLES
    open,      \* modules presence and mwi have not had UA_EVENT_SHUTDOWN
    subh,      \* uag.subh is set
    status,    \* ua_presence_status
    notifier,  \* not->ua of a watcher's notifier, or "none"
    told,      \* the status of the last NOTIFY to it
    registered,\* REGISTER_OK was told of a User-Agent
    started,   \* mwi's timer has fired
    box,       \* the entry in mwil: "none", "live" or "ending"
    boxes      \* history: entries made for a User-Agent and not yet released

vars == <<open, subh, status, notifier, told, registered, started, box, boxes>>
presence == <<subh, status, notifier, told>>
mwi == <<started, box, boxes>>

TypeOK ==
    /\ open \in BOOLEAN /\ subh \in BOOLEAN /\ status \in [Ua -> {"unknown", "open", "closed"}]
    /\ notifier \in [Watcher -> Ua \cup {"none"}]
    /\ told \in [Watcher -> {"unknown", "open", "closed"}]
    /\ registered \subseteq Ua /\ started \in BOOLEAN
    /\ box \in [Ua -> {"none", "live", "ending"}] /\ boxes \in [Ua -> 0 .. 2]

Init ==
    /\ open = TRUE /\ subh = TRUE /\ status = [u \in Ua |-> "unknown"]
    /\ notifier = [w \in Watcher |-> "none"] /\ told = [w \in Watcher |-> "unknown"]
    /\ registered = {} /\ started = FALSE
    /\ box = [u \in Ua |-> "none"] /\ boxes = [u \in Ua |-> 0]

-----------------------------------------------------------------------------
\* notify, to the watchers W; one that cannot be sent is forgotten.
Notify(W, st) ==
    \E lost \in SUBSET W :
        /\ (lost # {} => "notify" \in Faults)
        /\ told' = [w \in Watcher |-> IF w \in W \ lost THEN st ELSE told[w]]

\* sub_handler of notifier.c: a SUBSCRIBE is accepted, and answered with the status; or it is
\* for another event, or cannot be accepted.
Subscribe(w, u) ==
    /\ subh /\ notifier[w] = "none"
    /\ notifier' = [notifier EXCEPT ![w] = u]
    /\ Notify({w}, status[u])
    /\ UNCHANGED <<open, subh, status, registered, mwi>>

\* sipnot_close_handler: the watcher has gone.
WatcherGone(w) ==
    /\ notifier[w] # "none" /\ notifier' = [notifier EXCEPT ![w] = "none"]
    /\ UNCHANGED <<open, subh, status, told, registered, mwi>>

\* Mutant: nobody is told of the first status.
StatusUpdateQuiet(u, st) ==
    /\ status[u] # st /\ status' = [status EXCEPT ![u] = st]
    /\ Notify(IF status[u] = "unknown" THEN {} ELSE {w \in Watcher : notifier[w] = u}, st)
    /\ UNCHANGED <<open, subh, notifier, registered, mwi>>

\* status_update of presence.c, by command, and notifier_update_status.
StatusUpdate(u, st) ==
    /\ status[u] # st /\ status' = [status EXCEPT ![u] = st]
    /\ Notify({w \in Watcher : notifier[w] = u}, st)
    /\ UNCHANGED <<open, subh, notifier, registered, mwi>>

\* mwi_subscribe, which may fail; every one makes an entry of its own.
MwiSubscribe(U) ==
    \E ok \in SUBSET U :
        /\ box' = [u \in Ua |-> IF u \in ok THEN "live" ELSE box[u]]
        /\ boxes' = [u \in Ua |-> IF u \in ok THEN boxes[u] + 1 ELSE boxes[u]]

\* Mutant: mwi_find is not asked.
RegisterOkAgain(u) ==
    /\ u \notin Local /\ registered' = registered \cup {u}
    /\ status' = IF open /\ u \in Published /\ status[u] = "unknown" THEN [status EXCEPT ![u] = "open"] ELSE status
    /\ boxes[u] < 2 /\ MwiSubscribe({u})
    /\ UNCHANGED <<open, subh, notifier, told, started>>

\* UA_EVENT_REGISTER_OK, each time a registration is renewed: pub_ua_event_handler of
\* publisher.c sets the first status; mwi subscribes if it has no entry (mwi_find).
RegisterOk(u) ==
    /\ u \notin Local /\ registered' = registered \cup {u}
    /\ status' = IF open /\ u \in Published /\ status[u] = "unknown" THEN [status EXCEPT ![u] = "open"] ELSE status
    /\ IF box[u] = "none" THEN MwiSubscribe({u}) ELSE UNCHANGED <<box, boxes>>
    /\ UNCHANGED <<open, subh, notifier, told, started>>

\* tmr_handler of mwi, once: the User-Agents that do not register.
MwiTimer ==
    /\ ~started /\ started' = TRUE
    /\ MwiSubscribe(Local)
    /\ UNCHANGED <<open, presence, registered>>

\* close_handler of mwi: the subscription has ended.
BoxCloses(u) ==
    /\ box[u] = "live" /\ (u \in Local => "drop" \in Faults)
    /\ box' = [box EXCEPT ![u] = "none"] /\ boxes' = [boxes EXCEPT ![u] = @ - 1]
    /\ UNCHANGED <<open, presence, registered, started>>

\* UA_EVENT_SHUTDOWN: event_handler of presence.c (publisher_close, notifier_close), and
\* ua_event_handler of mwi.
Shutdown ==
    /\ open /\ open' = FALSE /\ subh' = FALSE
    /\ status' = [u \in Ua |-> IF u \in Published THEN "closed" ELSE status[u]]
    /\ notifier' = [w \in Watcher |-> "none"]
    /\ box' = [u \in Ua |-> IF box[u] = "live" THEN "ending" ELSE box[u]]
    /\ UNCHANGED <<told, registered, started, boxes>>

\* notify_handler and deref_handler of mwi: the last NOTIFY, or half a second.
BoxEnds(u) ==
    /\ box[u] = "ending"
    /\ box' = [box EXCEPT ![u] = "none"] /\ boxes' = [boxes EXCEPT ![u] = @ - 1]
    /\ UNCHANGED <<open, presence, registered, started>>

Next ==
    \/ Shutdown \/ MwiTimer
    \/ \E w \in Watcher : WatcherGone(w) \/ \E u \in Ua : Subscribe(w, u)
    \/ \E u \in Ua : RegisterOk(u) \/ BoxCloses(u) \/ BoxEnds(u)
    \/ \E u \in Ua, st \in {"open", "closed"} : StatusUpdate(u, st)

Spec == Init /\ [][Next]_vars /\ WF_vars(\E u \in Ua : BoxEnds(u))

-----------------------------------------------------------------------------
\* Whoever watches us was told the status that we have: notifier.c:15-17 has a NOTIFY sent to
\* all peers when it changes. The first status of a User-Agent that publishes is set by
\* publisher.c:261 without one.
WatchersKnow == \A w \in Watcher : notifier[w] # "none" => told[w] = status[notifier[w]]

\* One mailbox subscription for each User-Agent, however often it registers.
OneMailbox == \A u \in Ua : boxes[u] = IF box[u] = "none" THEN 0 ELSE 1

\* A local User-Agent has its mailbox watched while the program runs, if that began at all.
\* A subscription that ends is made anew at the next registration, which never comes.
LocalIsWatched == [][\A u \in Local : box[u] = "live" => box'[u] # "none"]_vars

\* Shutdown releases the mailboxes.
MailboxesEnd == (\E u \in Ua : box[u] = "ending") ~> (\A u \in Ua : box[u] # "ending")
================================================================================
