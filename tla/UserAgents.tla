----------------------------- MODULE UserAgents -----------------------------
(***************************************************************************)
(* The User-Agents of the program (src/ua.c) and their registrations       *)
(* (src/reg.c): allocation from accounts, the list and the current one,    *)
(* REGISTER and its answers, a change of the network, and the shutdown.    *)
(* The calls of a User-Agent are those of UaCalls.                         *)
(***************************************************************************)
EXTENDS Integers, Sequences

CONSTANTS
    Ua,       \* User-Agent objects
    Account   \* accounts: [regint, outbound, proxies], see below

\* regint: the account registers.  outbound: sipnat is outbound.  proxies: which
\* of outboundv[0..1] are set.
ASSUME UserAgentsAssumption ==
    Account \subseteq [regint : BOOLEAN, outbound : BOOLEAN, proxies : SUBSET {1, 2}]

VARIABLES
    ual,       \* uag.ual, on whose order nothing here depends
    cur,       \* uag.ua_cur
    life,      \* of each object: new, live or freed
    acc,       \* its account
    regl,      \* its register clients
    held,      \* User-Agents other modules have a reference to
    told,      \* the last event told of the registration of each
    sip        \* the SIP stack: open, closing, or exited when it told so

vars == <<ual, cur, life, acc, regl, held, told, sip>>
objects == <<life, acc, held>>

None == "none"
\* A register client: its id, scode reduced to none, ok and fail, the proxy it
\* registers through (0 for none) and whether it has a struct sipreg.
Reg == [id : 0 .. 2, scode : {"none", "ok", "fail"}, proxy : 0 .. 2, open : BOOLEAN]
Event == {"none", "registering", "ok", "fail", "unregistering"}

TypeOK ==
    /\ ual \subseteq Ua
    /\ cur \in Ua \cup {None}
    /\ life \in [Ua -> {"new", "live", "freed"}]
    /\ acc \in [Ua -> Account]
    /\ \A u \in Ua : regl[u] \in Seq(Reg)
    /\ held \subseteq Ua
    /\ told \in [Ua -> Event]
    /\ sip \in {"open", "closing", "exited"}

\* ua_init.
Init ==
    /\ ual = {} /\ cur = None
    /\ life = [u \in Ua |-> "new"]
    /\ acc \in [Ua -> Account]
    /\ regl = [u \in Ua |-> <<>>]
    /\ held = {}
    /\ told = [u \in Ua |-> "none"]
    /\ sip = "open"

-----------------------------------------------------------------------------
(* Registration. *)

WithClients == {u \in Ua : regl[u] # <<>>}

\* The ids of the clients: one for each outbound proxy that is set, or a single 0.
ClientIds(a) ==
    CASE ~a.regint -> <<>>
      [] a.regint /\ ~a.outbound -> <<0>>
      [] a.regint /\ a.outbound /\ a.proxies = {1, 2} -> <<1, 2>>
      [] a.regint /\ a.outbound /\ a.proxies = {1} -> <<1>>
      [] a.regint /\ a.outbound /\ a.proxies = {2} -> <<2>>
      [] OTHER -> <<>>

\* Mutant: the ids count from two.
ClientsFromTwo(a) ==
    [i \in DOMAIN ClientIds(a) |->
        [id |-> ClientIds(a)[i] + 1, scode |-> "none", proxy |-> 0, open |-> FALSE]]

\* reg_add for what the account asks.
Clients(a) ==
    [i \in DOMAIN ClientIds(a) |->
        [id |-> ClientIds(a)[i], scode |-> "none", proxy |-> 0, open |-> FALSE]]

\* reg_register: client i goes through outboundv[i - 1].
Registering(a, i, r) ==
    [r EXCEPT !.scode = "none", !.open = TRUE, !.proxy = IF i \in a.proxies THEN i ELSE 0]

\* The clients of ua_register when client n + 1, if there is one, cannot register:
\* the others behind it are as they were.
Registered(a, rs, n) ==
    [i \in DOMAIN rs |->
        CASE i <= n -> Registering(a, i, rs[i])
          [] i = n + 1 -> [Registering(a, i, rs[i]) EXCEPT !.open = FALSE]
          [] OTHER -> rs[i]]

\* Mutant: the SIP register client goes on.
UnregisteredKeepsOpen(rs) == [i \in DOMAIN rs |-> [rs[i] EXCEPT !.scode = "none"]]

\* reg_unregister.
Unregistered(rs) == [i \in DOMAIN rs |-> [rs[i] EXCEPT !.scode = "none", !.open = FALSE]]

\* ua_register, by command and for a change of the network; it may fail half way.
Register(u) ==
    /\ u \in ual /\ sip = "open"
    /\ \E n \in 0 .. Len(regl[u]) : regl' = [regl EXCEPT ![u] = Registered(acc[u], @, n)]
    /\ told' = [told EXCEPT ![u] = "registering"]
    /\ UNCHANGED <<ual, cur, objects, sip>>

\* uag_reset_transp: every User-Agent with a regint registers again.
NetChange ==
    /\ sip = "open"
    /\ LET again == {u \in ual : acc[u].regint}
       IN  /\ \E n \in [again -> 0 .. 2] :
                 regl' = [u \in Ua |-> IF u \in again THEN Registered(acc[u], regl[u], n[u]) ELSE regl[u]]
           /\ told' = [u \in Ua |-> IF u \in again THEN "registering" ELSE told[u]]
    /\ UNCHANGED <<ual, cur, objects, sip>>

\* ua_unregister for the User-Agents in us: ua_account_unreg, ua_accounts_unreg.
Unregister(us) ==
    /\ us # {} /\ us \subseteq ual
    /\ regl' = [u \in Ua |-> IF u \in us THEN Unregistered(regl[u]) ELSE regl[u]]
    /\ told' = [u \in Ua |-> IF u \in us \cap WithClients THEN "unregistering" ELSE told[u]]
    /\ UNCHANGED <<ual, cur, objects, sip>>

\* register_handler: an answer to a REGISTER or a refresh, or its failure.
Answer(u, i, ok) ==
    /\ life[u] = "live" /\ i \in DOMAIN regl[u] /\ regl[u][i].open
    /\ regl' = [regl EXCEPT ![u][i].scode = IF ok THEN "ok" ELSE "fail"]
    /\ told' = [told EXCEPT ![u] = IF ok THEN "ok" ELSE "fail"]
    /\ UNCHANGED <<ual, cur, objects, sip>>

\* Mutant: only the first registration counts.
IsRegisteredFirst(u) == regl[u] # <<>> /\ regl[u][1].scode = "ok"

\* ua_isregistered: one registration that works is enough.
IsRegistered(u) == \E i \in DOMAIN regl[u] : regl[u][i].scode = "ok"

-----------------------------------------------------------------------------
(* Allocation, the list and the current User-Agent. *)

\* ua_destructor of every User-Agent in us, those in clients having register
\* clients, with l as the list that is left: the SIP stack is closed with the last.
Free(us, clients, l) ==
    /\ ual' = l
    /\ life' = [u \in Ua |-> IF u \in us THEN "freed" ELSE life[u]]
    /\ regl' = [u \in Ua |-> IF u \in us THEN <<>> ELSE regl[u]]
    /\ told' = [u \in Ua |-> IF u \in us \cap clients THEN "unregistering" ELSE told[u]]
    /\ sip' = IF us # {} /\ l = {} /\ sip = "open" THEN "closing" ELSE sip

\* ua_alloc succeeds. uag_current is NULL only if none was ever set, for the new
\* one is in the list by then.
Alloc(u) ==
    /\ life[u] = "new" /\ sip = "open"
    /\ life' = [life EXCEPT ![u] = "live"]
    /\ ual' = ual \cup {u}
    /\ regl' = [regl EXCEPT ![u] = Registered(acc[u], Clients(acc[u]), Len(Clients(acc[u])))]
    /\ told' = [told EXCEPT ![u] = IF acc[u].regint THEN "registering" ELSE "none"]
    /\ cur' = IF cur = None THEN u ELSE cur
    /\ UNCHANGED <<acc, held, sip>>

\* ua_alloc fails before the User-Agent is in the list, with register clients or
\* before it made them.
AllocRefused(u) ==
    /\ life[u] = "new" /\ sip = "open"
    /\ \E clients \in {{}, {u}} : (clients # {} => Clients(acc[u]) # <<>>) /\ Free({u}, clients, ual)
    /\ UNCHANGED <<cur, acc, held>>

\* ua_alloc fails because ua_register does: the User-Agent has become the current
\* one, if there was none, before it is released.
AllocUnregistered(u) ==
    /\ life[u] = "new" /\ sip = "open" /\ Clients(acc[u]) # <<>>
    /\ Free({u}, {u}, ual)
    /\ cur' = IF cur = None THEN u ELSE cur
    /\ UNCHANGED <<acc, held>>

\* uag_current_set, by a command or ua_set_current_account.
SetCurrent(u) ==
    /\ u \in ual
    /\ cur' = u
    /\ UNCHANGED <<ual, objects, regl, told, sip>>

Current == IF ual = {} THEN None ELSE cur     \* uag_current

\* A module (presence, mwi) takes a reference.
Hold(u) ==
    /\ u \in ual \ held
    /\ held' = held \cup {u}
    /\ UNCHANGED <<ual, cur, life, acc, regl, told, sip>>

\* It gives the reference back, at any time after UA_EVENT_SHUTDOWN.
Drop(u) ==
    /\ u \in held
    /\ held' = held \ {u}
    /\ IF u \in ual
       THEN UNCHANGED <<ual, life, regl, told, sip>>
       ELSE Free({u}, WithClients, ual)
    /\ UNCHANGED <<cur, acc>>

-----------------------------------------------------------------------------
(* Shutdown. *)

\* Mutant: a User-Agent with another reference stays in the list.
StopExternalKeeps(seen) ==
    /\ seen # {} /\ seen \subseteq ual \cap held
    /\ Free({}, {}, ual \ seen)
    /\ UNCHANGED <<cur, acc>>
    /\ held' = held \ seen

\* ua_stop_all when it meets User-Agents in seen with a reference elsewhere: it
\* takes these out of the list and returns, whatever else is in it.
StopExternal(seen) ==
    /\ seen # {} /\ seen \subseteq ual \cap held
    /\ Free({}, {}, ual \ seen)
    /\ UNCHANGED <<cur, acc, held>>

\* ua_stop_all, not forced, without such references: all go.
StopAll ==
    /\ held \cap ual = {}
    /\ Free(ual, WithClients, {})
    /\ UNCHANGED <<cur, acc, held>>

\* cmd_quit, which stops the program once.
Quit ==
    /\ sip = "open" /\ ual # {}
    /\ \/ \E seen \in SUBSET Ua : StopExternal(seen)
       \/ StopAll

\* exit_handler, when the last SIP transaction is done.
Exit ==
    /\ sip = "closing"
    /\ sip' = "exited"
    /\ UNCHANGED <<ual, cur, objects, regl, told>>

\* The program runs on; it may wait here for ever.
Idle == UNCHANGED vars

Next ==
    \/ \E u \in Ua : \/ Alloc(u) \/ AllocRefused(u) \/ AllocUnregistered(u)
                     \/ Register(u) \/ Unregister({u})
                     \/ SetCurrent(u) \/ Hold(u) \/ Drop(u)
                     \/ \E i \in 1 .. 2, ok \in BOOLEAN : Answer(u, i, ok)
    \/ Unregister(ual)
    \/ NetChange
    \/ Quit \/ Exit \/ Idle

Spec == Init /\ [][Next]_vars

\* Nothing happens after the first Quit but the shutdown.
Stopping == \E u \in Ua : life[u] = "live" /\ u \notin ual
ShutdownNext ==
    \/ \E u \in Ua : Drop(u) \/ (~Stopping /\ (Alloc(u) \/ Hold(u)))
    \/ ~Stopping /\ Quit
    \/ Exit \/ Idle
ShutdownSpec ==
    /\ Init /\ [][ShutdownNext]_vars
    /\ WF_vars(Exit) /\ \A u \in Ua : WF_vars(Drop(u))

-----------------------------------------------------------------------------
\* A User-Agent that was told to be unregistering has no registration and gets no
\* answer to an earlier REGISTER any more; and one that counts as registered was
\* told of a registration since: the events that modules follow and
\* ua_isregistered agree.
EventsAgree ==
    \A u \in Ua :
        /\ told[u] = "unregistering" =>
              ~IsRegistered(u) /\ \A i \in DOMAIN regl[u] : ~regl[u][i].open
        /\ told[u] = "none" => ~IsRegistered(u)

\* A User-Agent lives as long as it is in the list or some module has a reference
\* to it, through every order of allocation, failure and shutdown.
LivesWhileHeld == \A u \in Ua : life[u] = "live" <=> u \in ual \cup held

\* A registration answered with success by one proxy is not lost because another
\* one failed, until the User-Agent registers again, unregisters or goes.
OneIsEnough ==
    [][\A u \in Ua : IsRegistered(u) /\ (~IsRegistered(u))' =>
          \/ told'[u] \in {"registering", "unregistering"}
          \/ \E i \in DOMAIN regl[u] : /\ regl[u][i].scode = "ok" /\ regl'[u][i].scode = "fail"
                                       /\ \A j \in DOMAIN regl[u] : j # i => regl[u][j].scode # "ok"]_vars

\* All of it: the events that modules follow and ua_isregistered agree, a User-Agent lives
\* as long as somebody holds it, and one proxy that accepts is enough to be registered.
AgentsAgree == []EventsAgree /\ []LivesWhileHeld /\ OneIsEnough

\* "Current User-Agent" (ua.c, struct uag): uag_current gives one of the list.
CurrentIsListed == Current \in ual \cup {None}

\* "Registration ID (for SIP outbound)" (reg.c): a client registers through the
\* proxy its id names.
IdNamesProxy ==
    \A u \in Ua : \A i \in DOMAIN regl[u] :
        LET r == regl[u][i] IN r.open /\ r.id > 0 => r.proxy = r.id

\* "Stop all User-Agents" (ua_stop_all): once it was called and the references
\* are given back, the SIP stack exits.
StopEndsAll == Stopping ~> sip = "exited"
=============================================================================
