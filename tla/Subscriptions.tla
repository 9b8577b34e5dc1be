----------------------------- MODULE Subscriptions -----------------------------
(***************************************************************************)
(* The contacts (contact.c) and our subscriptions to their presence        *)
(* (subscriber.c of module presence): each contact marked for it has an    *)
(* entry, which subscribes by a timer, is told of the contact's status by  *)
(* NOTIFY, and tries again, later each time, when the subscription ends.   *)
(* SIP subscriptions are external: here one is there or not.               *)
(***************************************************************************)
EXTENDS Integers, FiniteSets

CONSTANTS
    Contact,   \* contacts that may be in the list
    P2p,       \* those with ";presence=p2p"
    Faults,    \* with "flush" the list may be emptied by module contact alone
    MaxFail    \* failures that are counted, for model checking

\* What is assumed of the constants; the module that gives them values asserts it.
SubscriptionsAssumption == P2p \subseteq Contact /\ Faults \subseteq {"flush"} /\ MaxFail \in Nat

VARIABLES
    listed,    \* contacts->cl
    handler,   \* contacts->handler is set
    ua,        \* uag_find_aor finds a User-Agent
    entry,     \* the entry in presencel: "none", "live" or "ending" (pres->shutdown)
    sub,       \* pres->sub
    timer,     \* pres->tmr: "none", "first", "retry" or "free"
    failc,     \* pres->failc
    wait,      \* how long the timer was set for
    backoff,   \* history: the longest wait of a failure since the last NOTIFY
    status     \* c->status of the contact: what is shown of it

vars == <<listed, handler, ua, entry, sub, timer, failc, wait, backoff, status>>
lists == <<listed, handler, ua>>

Shown == {"unknown", "open", "closed", "busy"}
Waits == {0, 1, 5, 30, 300, 3600, 86400}

TypeOK ==
    /\ listed \subseteq Contact /\ handler \in BOOLEAN /\ ua \in BOOLEAN
    /\ entry \in [Contact -> {"none", "live", "ending"}] /\ sub \in [Contact -> BOOLEAN]
    /\ timer \in [Contact -> {"none", "first", "retry", "free"}]
    /\ failc \in [Contact -> 0 .. MaxFail]
    /\ wait \in [Contact -> Waits] /\ backoff \in [Contact -> Waits]
    /\ status \in [Contact -> Shown]

-----------------------------------------------------------------------------
\* presence_alloc of the contacts C, and the destructor of others' entries, D.
Entries(C, D) ==
    /\ entry' = [c \in Contact |-> IF c \in C THEN "live" ELSE IF c \in D THEN "none" ELSE entry[c]]
    /\ sub' = [c \in Contact |-> IF c \in C \cup D THEN FALSE ELSE sub[c]]
    /\ timer' = [c \in Contact |-> IF c \in C THEN "first" ELSE IF c \in D THEN "none" ELSE timer[c]]
    /\ failc' = [c \in Contact |-> IF c \in C \cup D THEN 0 ELSE failc[c]]
    /\ wait' = [c \in Contact |-> IF c \in C THEN 1 ELSE IF c \in D THEN 0 ELSE wait[c]]
    /\ backoff' = [c \in Contact |-> IF c \in C \cup D THEN 0 ELSE backoff[c]]

\* subscriber_init, with the contacts that module contact has read.
Init ==
    /\ listed \in SUBSET Contact /\ handler = TRUE /\ ua \in BOOLEAN
    /\ entry = [c \in Contact |-> IF c \in listed \cap P2p THEN "live" ELSE "none"]
    /\ sub = [c \in Contact |-> FALSE]
    /\ timer = [c \in Contact |-> IF c \in listed \cap P2p THEN "first" ELSE "none"]
    /\ failc = [c \in Contact |-> 0]
    /\ wait = [c \in Contact |-> IF c \in listed \cap P2p THEN 1 ELSE 0]
    /\ backoff = [c \in Contact |-> 0] /\ status = [c \in Contact |-> "unknown"]

\* contact_add and the handler, contact_handler of subscriber.c.
ContactAdd(c) ==
    /\ c \notin listed /\ entry[c] = "none" /\ listed' = listed \cup {c}
    /\ status' = [status EXCEPT ![c] = "unknown"]
    /\ Entries(IF handler THEN {c} \cap P2p ELSE {}, {})
    /\ UNCHANGED <<handler, ua>>

\* contact_remove and the handler.
ContactRemove(c) ==
    /\ c \in listed /\ listed' = listed \ {c}
    /\ Entries({}, IF handler THEN {c} ELSE {})
    /\ UNCHANGED <<handler, ua, status>>

\* Module contact is closed: list_flush asks no handler.
Flush ==
    /\ "flush" \in Faults /\ listed # {} /\ listed' = {}
    /\ UNCHANGED <<handler, ua, entry, sub, timer, failc, wait, backoff, status>>

\* The first User-Agent comes, or the last one goes.
UaChanges == ua' = ~ua /\ UNCHANGED <<listed, handler, entry, sub, timer, failc, wait, backoff, status>>

\* wait_fail.
WaitFail(n) == IF n \in 1 .. 3 THEN <<30, 300, 3600>>[n] ELSE 86400

\* tmr_start with the next time of wait_fail.
Fails(c) ==
    /\ failc[c] < MaxFail /\ failc' = [failc EXCEPT ![c] = @ + 1]
    /\ wait' = [wait EXCEPT ![c] = WaitFail(failc[c] + 1)]
    /\ backoff' = [backoff EXCEPT ![c] = IF WaitFail(failc[c] + 1) > @ THEN WaitFail(failc[c] + 1) ELSE @]
    /\ timer' = [timer EXCEPT ![c] = "retry"]

\* Mutant: what was subscribed to counts as reached.
TmrHandlerForgives(c, ok) ==
    /\ timer[c] \in {"first", "retry"} /\ (ok => ua)
    /\ IF ok THEN /\ sub' = [sub EXCEPT ![c] = TRUE] /\ timer' = [timer EXCEPT ![c] = "none"]
                  /\ failc' = [failc EXCEPT ![c] = 0] /\ UNCHANGED <<wait, backoff>>
       ELSE Fails(c) /\ UNCHANGED sub
    /\ UNCHANGED <<lists, entry, status>>

\* tmr_handler: it subscribes with the first User-Agent, unless there is none or that fails.
TmrHandler(c, ok) ==
    /\ timer[c] \in {"first", "retry"} /\ (ok => ua)
    /\ IF ok THEN /\ sub' = [sub EXCEPT ![c] = TRUE] /\ timer' = [timer EXCEPT ![c] = "none"]
                  /\ UNCHANGED <<failc, wait, backoff>>
       ELSE Fails(c) /\ UNCHANGED sub
    /\ UNCHANGED <<lists, entry, status>>

\* notify_handler: a NOTIFY with a status, or with something else, which is refused.
Notify(c, st) ==
    /\ entry[c] = "live" /\ sub[c]
    /\ failc' = [failc EXCEPT ![c] = 0] /\ backoff' = [backoff EXCEPT ![c] = 0]
    /\ status' = [status EXCEPT ![c] = st] \/ UNCHANGED status
    /\ UNCHANGED <<lists, entry, sub, timer, wait>>

\* notify_handler while the entry ends: the last NOTIFY releases it.
LastNotify(c) ==
    /\ entry[c] = "ending"
    /\ status' = [status EXCEPT ![c] = "closed"]
    /\ Entries({}, {c}) /\ UNCHANGED lists

\* wait_term: by the reason that the notifier gives.
WaitTerm == {5, 3600, 300}

\* Mutant: the status stays as it was.
CloseHandlerKeeps(c) ==
    /\ entry[c] = "live" /\ sub[c] /\ sub' = [sub EXCEPT ![c] = FALSE]
    /\ \/ Fails(c)
       \/ /\ timer' = [timer EXCEPT ![c] = "retry"]
          /\ \E w \in WaitTerm : wait' = [wait EXCEPT ![c] = w]
          /\ UNCHANGED <<failc, backoff>>
    /\ UNCHANGED <<lists, entry, status>>

\* close_handler: refused, not answered, or ended by the other side with a reason.
CloseHandler(c) ==
    /\ entry[c] = "live" /\ sub[c] /\ sub' = [sub EXCEPT ![c] = FALSE]
    /\ \/ Fails(c)
       \/ /\ timer' = [timer EXCEPT ![c] = "retry"]
          /\ \E w \in WaitTerm : wait' = [wait EXCEPT ![c] = w]
          /\ UNCHANGED <<failc, backoff>>
    /\ status' = [status EXCEPT ![c] = "unknown"]
    /\ UNCHANGED <<lists, entry>>

\* Mutant: an entry that has a subscription waits for its end alone.
CloseAllWaits ==
    LET bye == {c \in Contact : entry[c] # "none" /\ sub[c]}
    IN  /\ handler /\ handler' = FALSE
        /\ entry' = [c \in Contact |-> IF c \in bye THEN "ending" ELSE "none"]
        /\ sub' = [c \in Contact |-> FALSE]
        /\ timer' = [c \in Contact |-> "none"]
        /\ UNCHANGED <<listed, ua, failc, wait, backoff, status>>

\* subscriber_close_all, at UA_EVENT_SHUTDOWN: an entry that has a subscription stays for the
\* answer to its end, the others go.
CloseAll ==
    LET bye == {c \in Contact : entry[c] # "none" /\ sub[c]}
    IN  /\ handler /\ handler' = FALSE
        /\ entry' = [c \in Contact |-> IF c \in bye THEN "ending" ELSE "none"]
        /\ sub' = [c \in Contact |-> FALSE]
        /\ timer' = [c \in Contact |-> IF c \in bye THEN "free" ELSE "none"]
        /\ UNCHANGED <<listed, ua, failc, wait, backoff, status>>

\* deref_handler, half a second later.
Deref(c) ==
    /\ timer[c] = "free"
    /\ Entries({}, {c}) /\ UNCHANGED <<lists, status>>

\* subscriber_close: the module is closed.
SubscriberClose ==
    /\ \E c \in Contact : entry[c] # "none"
    /\ handler' = FALSE /\ Entries({}, Contact)
    /\ UNCHANGED <<listed, ua, status>>

Ends(c) == Deref(c) \/ LastNotify(c)
Next ==
    \/ UaChanges \/ Flush \/ CloseAll \/ SubscriberClose
    \/ \E c \in Contact :
          \/ ContactAdd(c) \/ ContactRemove(c) \/ CloseHandler(c) \/ Ends(c)
          \/ \E ok \in BOOLEAN : TmrHandler(c, ok)
          \/ \E st \in Shown : Notify(c, st)

\* Timers fire; the last NOTIFY may be lost.
Fairness == WF_vars(\E c \in Contact : Deref(c))

Spec == Init /\ [][Next]_vars /\ Fairness

-----------------------------------------------------------------------------
\* No contact is forgotten: an entry has its subscription or a timer to make it anew, never
\* both and never neither (tmr_handler, close_handler).
KeepsTrying ==
    \A c \in Contact : entry[c] = "live" => (sub[c] <=> timer[c] \notin {"first", "retry"})

\* A contact's status is shown as known only while a subscription brings it (close_handler).
ShownIsSubscribed == \A c \in Contact : (entry[c] = "live" /\ status[c] # "unknown") => sub[c]

\* Until shutdown the contacts of the list that are marked have an entry each, and no other
\* (contact_handler).
EntryPerContact ==
    handler => \A c \in Contact : entry[c] = "live" <=> (c \in listed /\ c \in P2p)

\* While nothing is heard of a contact it is asked less and less often (wait_fail).
BacksOff ==
    [][\A c \in Contact :
          (entry[c] = "live" /\ entry'[c] = "live" /\ failc'[c] > failc[c]) => wait'[c] >= backoff[c]]_vars

\* Shutdown releases every entry.
EntriesEnd == (\E c \in Contact : entry[c] = "ending") ~> (\A c \in Contact : entry[c] # "ending")
===============================================================================
