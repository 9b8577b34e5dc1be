------------------------------ MODULE MCControl ------------------------------
(***************************************************************************)
(* The control plane: the User-Agents and their registrations, the command *)
(* line, the session screen of the Android application and the tone        *)
(* player. The components share no variable, so each is explored by        *)
(* itself: part names the one that moves while the others stay in an       *)
(* initial state, and what holds of every part holds of any interleaving   *)
(* of them. TLC checks the values at the end of the definitions; the       *)
(* proofs that follow are for all values of the constants.                 *)
(***************************************************************************)
EXTENDS UserAgents, FiniteSetTheorems, SequenceTheorems, TLAPS

CONSTANTS
    Commands, Keys, Digits, Space, MaxLine,   \* of Commands
    Call, MaxScreens, Loopers,                \* of AppSession
    Lengths, Repeats, Frame, MaxHeard         \* of Player

VARIABLES
    part,   \* the component that moves
    \* Commands
    cmdl, ctx, called, completed,
    \* AppSession
    state, live, loopers, queue, screens, mSess, cdr, crash,
    \* Player
    phase, length, times, pos, repeat, eof, lock, inside, left, running, tmr, heard

Line == INSTANCE Commands
App == INSTANCE AppSession
Tone == INSTANCE Player

\* What the components assume of their constants.
ASSUME PartsAssumption ==
    /\ Line!CommandsAssumption
    /\ App!AppSessionAssumption
    /\ Tone!PlayerAssumption

commandsVars == <<cmdl, ctx, called, completed>>
appVars == <<state, live, loopers, queue, screens, mSess, cdr, crash>>
toneVars == <<phase, length, times, pos, repeat, eof, lock, inside, left, running, tmr, heard>>

all == <<part, vars, commandsVars, appVars, toneVars>>
Parts == {"agents", "commands", "app", "player"}

\* The one that is chosen begins in any initial state, the others in one of theirs.
AllInit ==
    /\ part \in Parts
    /\ Init /\ (part # "agents" => acc = [u \in Ua |-> CHOOSE a \in Account : TRUE])
    /\ Line!Init
    /\ App!Init
    /\ Tone!Init

\* Everything that does not belong to p stays as it is.
Only(p) ==
    /\ part = p /\ UNCHANGED part
    /\ IF p = "agents" THEN TRUE ELSE UNCHANGED vars
    /\ IF p = "commands" THEN TRUE ELSE UNCHANGED commandsVars
    /\ IF p = "app" THEN TRUE ELSE UNCHANGED appVars
    /\ IF p = "player" THEN TRUE ELSE UNCHANGED toneVars

AllNext ==
    \/ Only("agents") /\ Next
    \/ Only("commands") /\ Line!Next
    \/ Only("app") /\ App!Next
    \/ Only("player") /\ Tone!Next

\* The fairness of each component, while it is the one that moves.
AllFairness ==
    /\ WF_all(Only("player") /\ Tone!Enter)
    /\ WF_all(Only("player") /\ Tone!Copy)
    /\ WF_all(Only("player") /\ Tone!Leave)
    /\ SF_all(Only("player") /\ Tone!Polling)
    /\ SF_all(Only("player") /\ Tone!TmrStop)
    /\ SF_all(Only("player") /\ Tone!DeviceEnds)
    /\ WF_all(Only("player") /\ Tone!Free)

AllSpec == AllInit /\ [][AllNext]_all /\ AllFairness

-----------------------------------------------------------------------------
\* The types of all components.
AllTypesOK == TypeOK /\ Line!TypeOK /\ App!TypeOK /\ Tone!TypeOK

\* Commands: what a key or a line finds is the only command that it can mean, and what the
\* tabulator completes is the line of a command.
FindsOne == Line!FindsOne /\ Line!TabFindsCommand

\* AppSession: each call that ended is logged once, and CLOSED is the last event of a call.
LoggedOnce == App!LoggedOnce /\ App!ClosedIsLast

\* Player: a tone sounds as often as asked, nothing of it is used after it was released, and
\* one that is not repeated for ever ends and gives its memory back.
ToneAsAsked == []Tone!HeardAsAsked /\ []Tone!NothingAfterFree /\ Tone!PlayerCompletes

-----------------------------------------------------------------------------
(* The values that TLC checks. *)

\* Accounts: local, registered at the registrar, registered through two outbound proxies.
Plain == [regint |-> TRUE, outbound |-> FALSE, proxies |-> {1}]
Local == [regint |-> FALSE, outbound |-> FALSE, proxies |-> {}]
Both == [regint |-> TRUE, outbound |-> TRUE, proxies |-> {1, 2}]
MCAccounts == {Local, Both, Plain}
MCFirst == {Plain, Local}

\* The two blocks of the menu that follow the calls, one of contacts, and one that clashes.
Cmd(key, name, prm, prog) == [key |-> key, name |-> name, prm |-> prm, prog |-> prog]
MCCommands ==
    [call |-> {Cmd("t", <<"t", "r">>, TRUE, TRUE), Cmd("1", <<>>, FALSE, FALSE)},
     dial |-> {Cmd("1", <<>>, TRUE, TRUE), Cmd("r", <<"r">>, FALSE, FALSE)},
     more |-> {Cmd("none", <<"t", "1">>, FALSE, FALSE)},
     same |-> {Cmd("none", <<"t", "r">>, TRUE, FALSE)}]
MCKeys == {"t", "r", "1", " "}
MCRepeats == {-1, 0, 1, 3}

-----------------------------------------------------------------------------
(* Proof of AgentsAgree, for any User-Agents and accounts. *)

\* A list of register clients, as a function.
ClientList(rs) == rs \in [DOMAIN rs -> Reg] /\ \E n \in Nat : DOMAIN rs = 1 .. n

\* A User-Agent that is not live has no register clients, besides what is claimed.
AgentsInv ==
    /\ ual \subseteq Ua /\ held \subseteq Ua
    /\ life \in [Ua -> {"new", "live", "freed"}]
    /\ acc \in [Ua -> Account] /\ told \in [Ua -> Event]
    /\ regl = [u \in Ua |-> regl[u]] /\ \A u \in Ua : ClientList(regl[u])
    /\ \A u \in Ua : life[u] # "live" => regl[u] = <<>>
    /\ EventsAgree /\ LivesWhileHeld

\* The types of the rest.
CurrentInv == cur \in Ua \cup {None} /\ sip \in {"open", "closing", "exited"}

\* The part of OneIsEnough on one User-Agent.
StaysRegistered(u) ==
    IsRegistered(u) /\ (~IsRegistered(u))' =>
        \/ told'[u] \in {"registering", "unregistering"}
        \/ \E i \in DOMAIN regl[u] : /\ regl[u][i].scode = "ok" /\ regl'[u][i].scode = "fail"
                                     /\ \A j \in DOMAIN regl[u] : j # i => regl[u][j].scode # "ok"

\* What the register clients of one User-Agent may do in a step that leaves the others.
Agrees(t, rs) ==
    /\ t = "unregistering" => \A i \in DOMAIN rs : rs[i].scode # "ok" /\ ~rs[i].open
    /\ t = "none" => \A i \in DOMAIN rs : rs[i].scode # "ok"

\* EventsAgree says this of every User-Agent.
LEMMA AgreesIs == EventsAgree <=> \A u \in Ua : Agrees(told[u], regl[u])
  BY DEF EventsAgree, Agrees, IsRegistered

\* Registering and unregistering keep a list of register clients.
LEMMA ListsKept ==
  ASSUME NEW a \in Account, NEW rs, ClientList(rs), NEW n
  PROVE  /\ ClientList(Registered(a, rs, n)) /\ DOMAIN Registered(a, rs, n) = DOMAIN rs
         /\ ClientList(Unregistered(rs)) /\ DOMAIN Unregistered(rs) = DOMAIN rs
         /\ \A i \in DOMAIN rs : ~Unregistered(rs)[i].open /\ Unregistered(rs)[i].scode = "none"
<1>1. a.proxies \subseteq {1, 2}
  BY UserAgentsAssumption
<1>2. ASSUME NEW i \in DOMAIN rs PROVE Registered(a, rs, n)[i] \in Reg
  <2>1. ASSUME NEW r \in Reg
        PROVE  Registering(a, i, r) \in Reg /\ [Registering(a, i, r) EXCEPT !.open = FALSE] \in Reg
    <3>. DEFINE p == IF i \in a.proxies THEN i ELSE 0
    <3>1. p \in 0 .. 2 /\ Registering(a, i, r) = [r EXCEPT !.scode = "none", !.open = TRUE, !.proxy = p]
      BY <1>1 DEF Registering
    <3>. HIDE DEF p
    <3>2. Registering(a, i, r) \in Reg
      BY <3>1 DEF Reg
    <3>. QED BY <3>2 DEF Reg
  <2>2. rs[i] \in Reg
    BY DEF ClientList
  <2>. QED BY <2>1, <2>2 DEF Registered
<1>3. \A i \in DOMAIN rs : /\ Unregistered(rs)[i] \in Reg /\ ~Unregistered(rs)[i].open
                           /\ Unregistered(rs)[i].scode = "none"
  BY DEF Unregistered, ClientList, Reg
<1>. QED BY <1>2, <1>3 DEF ClientList, Registered, Unregistered

\* reg_add makes a list of register clients.
LEMMA ClientsType ==
  ASSUME NEW a \in Account
  PROVE  ClientList(Clients(a)) /\ (~a.regint => DOMAIN Clients(a) = {})
<1>1. /\ \A i \in DOMAIN ClientIds(a) : ClientIds(a)[i] \in 0 .. 2
      /\ ~a.regint => DOMAIN ClientIds(a) = {}
  BY DEF ClientIds
<1>. QED BY <1>1 DEF Clients, ClientList, Reg

LEMMA AgentTypes == AgentsInv /\ CurrentInv => TypeOK
<1>1. ASSUME NEW rs, ClientList(rs) PROVE rs \in Seq(Reg)
  <2>1. PICK n \in Nat : DOMAIN rs = 1 .. n
    BY <1>1 DEF ClientList
  <2>2. rs \in [1 .. n -> Reg]
    BY <1>1, <2>1 DEF ClientList
  <2>. QED BY <2>2, SeqDef
<1>. QED BY <1>1 DEF AgentsInv, CurrentInv, TypeOK

\* What the list and the SIP stack may become.
LEMMA CurrentKeeps ==
  /\ Init => CurrentInv
  /\ CurrentInv /\ [Next]_vars => CurrentInv'
<1>1. Init => CurrentInv
  BY DEF Init, CurrentInv
<1>2. ASSUME CurrentInv, [Next]_vars PROVE CurrentInv'
  <2>1. \A us, clients, l : Free(us, clients, l) => sip' \in {sip, "closing"}
    BY DEF Free
  <2>2. ASSUME NEW u \in Ua, Alloc(u) \/ AllocRefused(u) \/ AllocUnregistered(u) PROVE CurrentInv'
    <3>1. cur' \in {cur, u}
      BY <2>2 DEF Alloc, AllocRefused, AllocUnregistered
    <3>2. sip' \in {sip, "closing"}
      BY <2>1, <2>2 DEF Alloc, AllocRefused, AllocUnregistered
    <3>. QED BY <1>2, <3>1, <3>2 DEF CurrentInv
  <2>3. ASSUME NEW u \in Ua, SetCurrent(u) \/ Hold(u) PROVE CurrentInv'
    BY <1>2, <2>3 DEF CurrentInv, SetCurrent, Hold
  <2>4. ASSUME NEW u \in Ua, Drop(u) PROVE CurrentInv'
    BY <1>2, <2>1, <2>4 DEF CurrentInv, Drop
  <2>5. ASSUME Quit \/ Exit PROVE CurrentInv'
    BY <1>2, <2>1, <2>5 DEF CurrentInv, Quit, Exit, StopExternal, StopAll
  <2>6. ASSUME UNCHANGED <<cur, sip>> PROVE CurrentInv'
    BY <1>2, <2>6 DEF CurrentInv
  <2>7. ASSUME NEW u \in Ua, Register(u) PROVE UNCHANGED <<cur, sip>>
    BY <2>7 DEF Register
  <2>8. ASSUME NEW us, Unregister(us) PROVE UNCHANGED <<cur, sip>>
    BY <2>8 DEF Unregister
  <2>9. ASSUME NEW u, NEW i, NEW ok, Answer(u, i, ok) PROVE UNCHANGED <<cur, sip>>
    BY <2>9 DEF Answer
  <2>10. ASSUME NetChange \/ Idle \/ UNCHANGED vars PROVE UNCHANGED <<cur, sip>>
    BY <2>10 DEF NetChange, Idle, vars
  <2>. QED BY <1>2, <2>2, <2>3, <2>4, <2>5, <2>6, <2>7, <2>8, <2>9, <2>10 DEF Next
<1>. QED BY <1>1, <1>2

\* The invariant holds at the start.
LEMMA AgentsInit == Init => AgentsInv
  BY DEF Init, AgentsInv, ClientList, EventsAgree, LivesWhileHeld, IsRegistered, Event

\* The end of some User-Agents; the list that is left need not be all the others.
LEMMA FreeKeeps ==
  ASSUME AgentsInv, NEW us \in SUBSET Ua, NEW clients \in SUBSET Ua, NEW l \in SUBSET Ua,
         Free(us, clients, l), acc' = acc, held' \subseteq Ua,
         \A u \in Ua : u \in l \cup held' <=> life[u] = "live" /\ u \notin us,
         \A u \in us : regl[u] = <<>> \/ u \in clients
  PROVE  AgentsInv' /\ \A u \in Ua : StaysRegistered(u)
<1>1. /\ ual' = l /\ life' = [u \in Ua |-> IF u \in us THEN "freed" ELSE life[u]]
      /\ regl' = [u \in Ua |-> IF u \in us THEN <<>> ELSE regl[u]]
      /\ told' = [u \in Ua |-> IF u \in us \cap clients THEN "unregistering" ELSE told[u]]
  BY DEF Free
<1>2. /\ life' \in [Ua -> {"new", "live", "freed"}] /\ told' \in [Ua -> Event]
      /\ regl' = [u \in Ua |-> regl'[u]] /\ \A u \in Ua : ClientList(regl'[u])
      /\ \A u \in Ua : life'[u] # "live" => regl'[u] = <<>>
  BY <1>1 DEF AgentsInv, ClientList, Event
<1>3. EventsAgree' /\ LivesWhileHeld'
  BY <1>1 DEF AgentsInv, EventsAgree, LivesWhileHeld, IsRegistered
<1>4. ASSUME NEW u \in Ua PROVE StaysRegistered(u)
  BY <1>1 DEF StaysRegistered, IsRegistered
<1>. QED BY <1>1, <1>2, <1>3, <1>4 DEF AgentsInv

\* A step that changes the events and the register clients of live User-Agents only.
LEMMA RegistrationKeeps ==
  ASSUME AgentsInv, UNCHANGED <<ual, objects>>,
         told' \in [Ua -> Event], regl' = [u \in Ua |-> regl'[u]],
         \A u \in Ua : ClientList(regl'[u]) /\ Agrees(told'[u], regl'[u]),
         \A u \in Ua : life[u] # "live" => regl'[u] = <<>>
  PROVE  AgentsInv'
<1>1. EventsAgree'
  BY AgreesIs DEF EventsAgree, Agrees, IsRegistered
<1>. QED BY <1>1 DEF AgentsInv, LivesWhileHeld, objects

\* Every step keeps the invariant, and no registration is lost but as OneIsEnough says.
LEMMA AgentsNext == AgentsInv /\ [Next]_vars => AgentsInv' /\ \A u \in Ua : StaysRegistered(u)
<1>. SUFFICES ASSUME AgentsInv, [Next]_vars PROVE AgentsInv' /\ \A u \in Ua : StaysRegistered(u)
  OBVIOUS
<1>. DEFINE Goal == AgentsInv' /\ \A u \in Ua : StaysRegistered(u)
<1>0. /\ ual \subseteq Ua /\ held \subseteq Ua /\ regl = [u \in Ua |-> regl[u]]
      /\ told \in [Ua -> Event] /\ life \in [Ua -> {"new", "live", "freed"}]
      /\ \A u \in Ua : /\ ClientList(regl[u]) /\ Agrees(told[u], regl[u]) /\ acc[u] \in Account
                       /\ life[u] = "live" <=> u \in ual \cup held
                       /\ life[u] # "live" => regl[u] = <<>>
  BY AgreesIs DEF AgentsInv, LivesWhileHeld
<1>1. ASSUME NEW u \in Ua, Alloc(u) PROVE Goal
  <2>. DEFINE a == acc[u]
              rs == Registered(a, Clients(a), Len(Clients(a)))
              t == IF a.regint THEN "registering" ELSE "none"
  <2>1. ClientList(rs) /\ (~a.regint => DOMAIN rs = {})
    <3>. DEFINE cl == Clients(a)
                n == Len(cl)
    <3>1. a \in Account /\ ClientList(cl) /\ (~a.regint => DOMAIN cl = {})
      BY <1>0, ClientsType
    <3>. HIDE DEF a, cl, n
    <3>2. ClientList(Registered(a, cl, n)) /\ DOMAIN Registered(a, cl, n) = DOMAIN cl
      BY <3>1, ListsKept
    <3>. QED BY <3>1, <3>2 DEF cl, n
  <2>2. t \in Event /\ Agrees(t, rs)
    BY <2>1 DEF Event, Agrees
  <2>3. /\ life[u] = "new" /\ life' = [life EXCEPT ![u] = "live"] /\ ual' = ual \cup {u}
        /\ regl' = [regl EXCEPT ![u] = rs] /\ told' = [told EXCEPT ![u] = t]
        /\ acc' = acc /\ held' = held
    BY <1>1 DEF Alloc
  <2>. HIDE DEF a, rs, t
  <2>4. /\ regl' = [v \in Ua |-> regl'[v]] /\ told' \in [Ua -> Event]
        /\ life' \in [Ua -> {"new", "live", "freed"}]
        /\ \A v \in Ua : /\ regl'[v] = IF v = u THEN rs ELSE regl[v]
                         /\ told'[v] = IF v = u THEN t ELSE told[v]
                         /\ life'[v] = IF v = u THEN "live" ELSE life[v]
    BY <1>0, <2>2, <2>3
  <2>5. \A v \in Ua : /\ ClientList(regl'[v]) /\ Agrees(told'[v], regl'[v])
                      /\ life'[v] # "live" => regl'[v] = <<>>
    BY <1>0, <2>1, <2>2, <2>4
  <2>6. EventsAgree'
    BY <2>5 DEF EventsAgree, Agrees, IsRegistered
  <2>7. LivesWhileHeld'
    BY <1>0, <2>3, <2>4 DEF LivesWhileHeld
  <2>8. AgentsInv'
    BY <1>0, <2>3, <2>4, <2>5, <2>6, <2>7 DEF AgentsInv
  <2>9. \A v \in Ua : StaysRegistered(v)
    BY <1>0, <2>3, <2>4 DEF StaysRegistered, IsRegistered
  <2>. QED BY <2>8, <2>9
<1>2. ASSUME NEW u \in Ua, AllocRefused(u) PROVE Goal
  <2>1. PICK clients \in {{}, {u}} : Free({u}, clients, ual)
    BY <1>2 DEF AllocRefused
  <2>2. life[u] = "new" /\ acc' = acc /\ held' = held
    BY <1>2 DEF AllocRefused
  <2>. QED BY <1>0, <2>1, <2>2, FreeKeeps
<1>3. ASSUME NEW u \in Ua, AllocUnregistered(u) PROVE Goal
  BY <1>0, <1>3, FreeKeeps DEF AllocUnregistered
<1>4. ASSUME NEW u \in Ua, Register(u) PROVE Goal
  <2>1. PICK n : regl' = [regl EXCEPT ![u] = Registered(acc[u], regl[u], n)]
    BY <1>4 DEF Register
  <2>2. u \in ual /\ told' = [told EXCEPT ![u] = "registering"] /\ UNCHANGED <<ual, objects>>
    BY <1>4 DEF Register
  <2>3. /\ regl' = [v \in Ua |-> regl'[v]] /\ told' \in [Ua -> Event]
        /\ \A v \in Ua : /\ regl'[v] = IF v = u THEN Registered(acc[u], regl[u], n) ELSE regl[v]
                         /\ told'[v] = IF v = u THEN "registering" ELSE told[v]
    BY <1>0, <2>1, <2>2 DEF Event
  <2>4. \A v \in Ua : ClientList(regl'[v]) /\ Agrees(told'[v], regl'[v])
    BY <1>0, <2>3, ListsKept, SMTT(30) DEF Agrees
  <2>5. \A v \in Ua : life[v] # "live" => regl'[v] = <<>>
    BY <1>0, <2>2, <2>3
  <2>6. AgentsInv'
    BY <2>2, <2>3, <2>4, <2>5, RegistrationKeeps
  <2>. QED BY <2>3, <2>6 DEF StaysRegistered, IsRegistered
<1>5. ASSUME NEW us \in SUBSET Ua, Unregister(us) PROVE Goal
  <2>1. /\ us \subseteq ual /\ UNCHANGED <<ual, objects>>
        /\ regl' = [v \in Ua |-> IF v \in us THEN Unregistered(regl[v]) ELSE regl[v]]
        /\ told' = [v \in Ua |-> IF v \in us \cap WithClients THEN "unregistering" ELSE told[v]]
    BY <1>5 DEF Unregister
  <2>2. /\ regl' = [v \in Ua |-> regl'[v]] /\ told' \in [Ua -> Event]
        /\ \A v \in Ua : /\ regl'[v] = IF v \in us THEN Unregistered(regl[v]) ELSE regl[v]
                         /\ told'[v] = "unregistering" \/ told'[v] = told[v]
    BY <1>0, <2>1 DEF Event
  <2>3. \A v \in Ua : ClientList(regl'[v]) /\ Agrees(told'[v], regl'[v])
    BY <1>0, <2>1, <2>2, ListsKept, ZenonT(60) DEF Agrees
  <2>4. \A v \in Ua : life[v] # "live" => regl'[v] = <<>>
    BY <1>0, <2>1, <2>2
  <2>5. AgentsInv'
    BY <2>1, <2>2, <2>3, <2>4, RegistrationKeeps
  <2>6. \A v \in Ua : IsRegistered(v) => v \in WithClients
    BY DEF IsRegistered, WithClients
  <2>. QED BY <2>1, <2>2, <2>5, <2>6 DEF StaysRegistered, IsRegistered
<1>6. ASSUME NetChange PROVE Goal
  <2>. DEFINE again == {u \in ual : acc[u].regint}
  <2>1. PICK n : regl' = [u \in Ua |-> IF u \in again THEN Registered(acc[u], regl[u], n[u]) ELSE regl[u]]
    BY <1>6 DEF NetChange
  <2>2. told' = [u \in Ua |-> IF u \in again THEN "registering" ELSE told[u]] /\ UNCHANGED <<ual, objects>>
    BY <1>6 DEF NetChange
  <2>3. again \subseteq ual
    OBVIOUS
  <2>. HIDE DEF again
  <2>4. /\ regl' = [v \in Ua |-> regl'[v]] /\ told' \in [Ua -> Event]
        /\ \A v \in Ua : /\ regl'[v] = IF v \in again THEN Registered(acc[v], regl[v], n[v]) ELSE regl[v]
                         /\ told'[v] = IF v \in again THEN "registering" ELSE told[v]
    BY <1>0, <2>1, <2>2 DEF Event
  <2>5. ASSUME NEW v \in Ua PROVE ClientList(regl'[v]) /\ Agrees(told'[v], regl'[v])
    <3>1. ClientList(Registered(acc[v], regl[v], n[v]))
      BY <1>0, ListsKept
    <3>. QED BY <1>0, <2>4, <3>1 DEF Agrees
  <2>6. \A v \in Ua : life[v] # "live" => regl'[v] = <<>>
    BY <1>0, <2>3, <2>4
  <2>7. AgentsInv'
    BY <2>2, <2>4, <2>5, <2>6, RegistrationKeeps
  <2>. QED BY <2>4, <2>7 DEF StaysRegistered, IsRegistered
<1>7. ASSUME NEW u \in Ua, NEW i, NEW ok \in BOOLEAN, Answer(u, i, ok) PROVE Goal
  <2>. DEFINE code == IF ok THEN "ok" ELSE "fail"
              rs == [regl[u] EXCEPT ![i].scode = code]
  <2>1. /\ life[u] = "live" /\ i \in DOMAIN regl[u] /\ regl[u][i].open
        /\ regl' = [regl EXCEPT ![u] = rs] /\ told' = [told EXCEPT ![u] = code]
        /\ UNCHANGED <<ual, objects>> /\ code \in {"ok", "fail"}
    BY <1>7 DEF Answer
  <2>2. regl[u] \in [DOMAIN regl[u] -> Reg]
    BY <1>0 DEF ClientList
  <2>. HIDE DEF code
  <2>3. /\ DOMAIN rs = DOMAIN regl[u] /\ rs[i].scode = code
        /\ \A j \in DOMAIN rs : rs[j] \in Reg /\ (j # i => rs[j] = regl[u][j])
    BY <2>1, <2>2 DEF Reg
  <2>4. ClientList(rs)
    <3>1. rs = [j \in DOMAIN rs |-> rs[j]]
      BY <2>2
    <3>2. PICK n \in Nat : DOMAIN regl[u] = 1 .. n
      BY <1>0 DEF ClientList
    <3>. HIDE DEF rs
    <3>3. rs \in [DOMAIN rs -> Reg]
      BY <2>3, <3>1
    <3>4. DOMAIN rs = 1 .. n
      BY <2>3, <3>2
    <3>. QED BY <3>3, <3>4 DEF ClientList
  <2>. HIDE DEF rs
  <2>5. /\ regl' = [v \in Ua |-> regl'[v]] /\ told' \in [Ua -> Event]
        /\ \A v \in Ua : /\ regl'[v] = IF v = u THEN rs ELSE regl[v]
                         /\ told'[v] = IF v = u THEN code ELSE told[v]
    BY <1>0, <2>1 DEF Event
  <2>6. \A v \in Ua : ClientList(regl'[v]) /\ Agrees(told'[v], regl'[v])
    BY <1>0, <2>1, <2>4, <2>5 DEF Agrees
  <2>7. \A v \in Ua : life[v] # "live" => regl'[v] = <<>>
    BY <1>0, <2>1, <2>5
  <2>8. AgentsInv'
    BY <2>1, <2>5, <2>6, <2>7, RegistrationKeeps
  <2>9. \A v \in Ua : StaysRegistered(v)
    BY <2>1, <2>3, <2>5 DEF StaysRegistered, IsRegistered
  <2>. QED BY <2>8, <2>9
<1>8. ASSUME UNCHANGED <<life, regl, told, acc>>, ual \cup held = ual' \cup held',
             ual' \subseteq Ua, held' \subseteq Ua
      PROVE  Goal
  BY <1>8 DEF AgentsInv, StaysRegistered, IsRegistered, EventsAgree, LivesWhileHeld
<1>9. ASSUME NEW u \in Ua, SetCurrent(u) \/ Hold(u) PROVE Goal
  BY <1>0, <1>8, <1>9 DEF SetCurrent, Hold, objects
<1>10. ASSUME NEW u \in Ua, Drop(u) PROVE Goal
  <2>1. CASE u \in ual
    BY <1>0, <1>8, <1>10, <2>1 DEF Drop
  <2>2. CASE u \notin ual
    <3>1. Free({u}, WithClients, ual) /\ held' = held \ {u} /\ acc' = acc /\ u \in held
      BY <1>10, <2>2 DEF Drop
    <3>2. /\ WithClients \in SUBSET Ua /\ {u} \in SUBSET Ua /\ held' \subseteq Ua
          /\ \A v \in {u} : regl[v] = <<>> \/ v \in WithClients
      BY <1>0, <3>1 DEF WithClients
    <3>3. \A v \in Ua : v \in ual \cup held' <=> life[v] = "live" /\ v \notin {u}
      BY <1>0, <2>2, <3>1
    <3>. QED BY <1>0, <3>1, <3>2, <3>3, FreeKeeps
  <2>. QED BY <2>1, <2>2
<1>11. ASSUME NEW seen \in SUBSET Ua, StopExternal(seen) PROVE Goal
  <2>1. Free({}, {}, ual \ seen) /\ seen \subseteq ual \cap held /\ acc' = acc /\ held' = held
    BY <1>11 DEF StopExternal
  <2>. QED BY <1>0, <2>1, FreeKeeps
<1>12. ASSUME StopAll PROVE Goal
  <2>1. Free(ual, WithClients, {}) /\ held \cap ual = {} /\ acc' = acc /\ held' = held
    BY <1>12 DEF StopAll
  <2>. QED BY <1>0, <2>1, FreeKeeps DEF WithClients
<1>13. ASSUME Exit \/ UNCHANGED vars PROVE Goal
  BY <1>0, <1>8, <1>13 DEF Exit, vars, objects
<1>14. ASSUME NEW u \in Ua, Unregister({u}) PROVE Goal
  BY <1>5, <1>14
<1>. QED BY <1>0, <1>1, <1>2, <1>3, <1>4, <1>5, <1>6, <1>7, <1>9, <1>10, <1>11, <1>12, <1>13, <1>14
         DEF Next, Quit, Idle

\* For any number of User-Agents and any accounts, whatever is registered, refused, answered,
\* held, dropped or stopped in whatever order: the events told of a User-Agent and
\* ua_isregistered agree, it lives exactly as long as the list or a module holds it, and it
\* stays registered as long as one of its proxies accepts it.
THEOREM AgentsDoAgree == Spec => AgentsAgree
<1>1. AgentsInv /\ [Next]_vars => [\A u \in Ua : StaysRegistered(u)]_vars
  BY AgentsNext
<1>2. AgentsInv => EventsAgree /\ LivesWhileHeld
  BY DEF AgentsInv
<1>3. AgentsInv /\ [Next]_vars => AgentsInv'
  BY AgentsNext
<1>. QED BY <1>1, <1>2, <1>3, AgentsInit, PTL
         DEF Spec, AgentsAgree, OneIsEnough, StaysRegistered

-----------------------------------------------------------------------------
(* Proof of FindsOne, for any blocks of commands. *)

\* A command or none.
CommandOrNone == Line!Command \cup {Line!None}

\* Besides what is claimed: the blocks are registered once each, the line under edit is that
\* of a command, and a command that was completed is what the line says.
CommandsInv ==
    /\ cmdl \in Seq(Line!Blocks) /\ Line!IsInjective(cmdl)
    /\ Line!FindsOne
    /\ ctx = Line!NoCtx \/ (ctx.on /\ ctx.long = (ctx.cmd = Line!None))
    /\ ctx = [on |-> ctx.on, cmd |-> ctx.cmd, long |-> ctx.long, line |-> ctx.line]
    /\ ctx.cmd \in CommandOrNone
    /\ called.cmd \in CommandOrNone /\ completed \in CommandOrNone
    /\ completed # Line!None /\ ctx.on => ctx.line = completed.name /\ ctx.line # <<>>

\* Taking one element out of a sequence without repetitions leaves the others.
LEMMA RemoveFirstKeeps ==
  ASSUME NEW S, NEW s \in Seq(S), Line!IsInjective(s), NEW e
  PROVE  /\ Line!RemoveFirst(s, e) \in Seq(S) /\ Line!IsInjective(Line!RemoveFirst(s, e))
         /\ Line!ToSet(Line!RemoveFirst(s, e)) = Line!ToSet(s) \ {e}
<1>1. CASE ~\E i \in 1 .. Len(s) : s[i] = e
  BY <1>1 DEF Line!RemoveFirst, Line!ToSet
<1>2. CASE \E i \in 1 .. Len(s) : s[i] = e
  <2>1. PICK k \in 1 .. Len(s) : s[k] = e
    BY <1>2
  <2>2. {i \in 1 .. Len(s) : s[i] = e} = {k}
    BY <2>1 DEF Line!IsInjective
  <2>3. Line!RemoveFirst(s, e) = Line!RemoveAt(s, k)
    <3>1. Line!Min({k}) = k
      BY <2>1 DEF Line!Min
    <3>. QED BY <1>2, <2>2, <3>1 DEF Line!RemoveFirst, Line!SelectInSeq
  <2>. DEFINE r == Line!RemoveAt(s, k)
  <2>4. /\ r \in Seq(S) /\ Len(r) = Len(s) - 1
        /\ \A i \in 1 .. Len(s) - 1 : r[i] = IF i < k THEN s[i] ELSE s[i + 1]
    <3>. DEFINE a == SubSeq(s, 1, k - 1)
                b == SubSeq(s, k + 1, Len(s))
    <3>1. /\ a \in Seq(S) /\ Len(a) = k - 1 /\ \A i \in 1 .. k - 1 : a[i] = s[i]
          /\ b \in Seq(S) /\ Len(b) = Len(s) - k /\ \A i \in 1 .. Len(s) - k : b[i] = s[k + i]
      BY <2>1, SubSeqProperties
    <3>2. r = a \o b
      BY DEF Line!RemoveAt
    <3>. HIDE DEF a, b, r
    <3>3. /\ r \in Seq(S) /\ Len(r) = Len(s) - 1
          /\ \A i \in 1 .. Len(s) - 1 : r[i] = IF i <= k - 1 THEN a[i] ELSE b[i - (k - 1)]
      <4>1. /\ a \o b \in Seq(S) /\ Len(a \o b) = Len(a) + Len(b)
            /\ \A i \in 1 .. Len(a) + Len(b) : (a \o b)[i] = IF i <= Len(a) THEN a[i] ELSE b[i - Len(a)]
        BY <3>1, ConcatProperties, Zenon
      <4>. QED BY <2>1, <3>1, <3>2, <4>1
    <3>. QED BY <2>1, <3>1, <3>3
  <2>. HIDE DEF r
  <2>5. Line!IsInjective(r)
    <3>. SUFFICES ASSUME NEW i \in 1 .. Len(r), NEW j \in 1 .. Len(r), r[i] = r[j] PROVE i = j
      BY <2>4 DEF Line!IsInjective
    <3>1. \A m, n \in 1 .. Len(s) : s[m] = s[n] => m = n
      BY DEF Line!IsInjective
    <3>. QED BY <2>1, <2>4, <3>1
  <2>6. Line!ToSet(r) = Line!ToSet(s) \ {e}
    <3>1. ASSUME NEW x \in Line!ToSet(s) \ {e} PROVE x \in Line!ToSet(r)
      <4>1. PICK i \in 1 .. Len(s) : s[i] = x /\ i # k
        BY <2>1, <3>1 DEF Line!ToSet
      <4>2. CASE i < k
        <5>1. i \in 1 .. Len(r) /\ r[i] = x
          BY <2>1, <2>4, <4>1, <4>2
        <5>. QED BY <2>4, <5>1 DEF Line!ToSet
      <4>3. CASE i > k
        <5>1. i - 1 \in 1 .. Len(r) /\ r[i - 1] = x
          BY <2>1, <2>4, <4>1, <4>3
        <5>. QED BY <2>4, <5>1 DEF Line!ToSet
      <4>. QED BY <2>1, <4>1, <4>2, <4>3
    <3>2. ASSUME NEW i \in 1 .. Len(r) PROVE r[i] \in Line!ToSet(s) \ {e}
      BY <2>1, <2>4, <3>2 DEF Line!ToSet, Line!IsInjective
    <3>3. Line!ToSet(r) = {r[i] : i \in 1 .. Len(r)}
      BY <2>4 DEF Line!ToSet
    <3>. QED BY <3>1, <3>2, <3>3
  <2>. QED BY <2>3, <2>4, <2>5, <2>6 DEF r
<1>. QED BY <1>1, <1>2

\* What Min gives of a set of naturals of which one is known to be the least.
LEMMA MinIs ==
  ASSUME NEW S \in SUBSET Int, NEW m \in S, \A x \in S : m <= x
  PROVE  Line!Min(S) = m
<1>1. Line!Min(S) \in S /\ \A y \in S : Line!Min(S) <= y
  BY DEF Line!Min
<1>. DEFINE k == Line!Min(S)
<1>2. k \in S /\ \A y \in S : k <= y
  BY <1>1
<1>. HIDE DEF k
<1>3. k = m
  BY <1>2
<1>. QED BY <1>3 DEF k

\* The words of a line that is a name: the name alone.
LEMMA NameIsWord ==
  ASSUME NEW S, NEW n \in Seq(S), n # <<>>, Space \notin Line!ToSet(n), Line!ByName(n) # {}
  PROVE  Line!LongCall(n).cmd \in Line!ByName(n)
<1>. DEFINE text == Line!SelectInSeq(n, LAMBDA x : x # Space)
            rest == IF text = 0 THEN <<>> ELSE SubSeq(n, text, Len(n))
            gap == Line!SelectInSeq(rest, LAMBDA x : x = Space)
            name == IF gap = 0 THEN rest ELSE SubSeq(rest, 1, gap - 1)
            tail == IF gap = 0 THEN <<>> ELSE SubSeq(rest, gap, Len(rest))
            word == Line!SelectInSeq(tail, LAMBDA x : x # Space)
            prm == IF word = 0 THEN <<>> ELSE SubSeq(tail, word, Len(tail))
<1>1. Len(n) \in Nat \ {0} /\ \A i \in 1 .. Len(n) : n[i] # Space
  <2>1. Len(n) \in Nat \ {0} /\ DOMAIN n = 1 .. Len(n)
    BY EmptySeq, LenProperties
  <2>. QED BY <2>1 DEF Line!ToSet
<1>2. text = 1
  <2>. DEFINE I == {i \in 1 .. Len(n) : n[i] # Space}
  <2>1. I = 1 .. Len(n)
    BY <1>1
  <2>2. Line!Min(1 .. Len(n)) = 1
    <3>1. 1 .. Len(n) \in SUBSET Int /\ 1 \in 1 .. Len(n) /\ \A x \in 1 .. Len(n) : 1 <= x
      BY <1>1
    <3>. QED BY <3>1, MinIs
  <2>3. I # {}
    <3>1. 1 \in 1 .. Len(n)
      BY <1>1
    <3>. QED BY <2>1, <3>1
  <2>. QED BY <2>1, <2>2, <2>3 DEF Line!SelectInSeq
<1>3. rest = n
  <2>1. SubSeq(n, 1, Len(n)) = n
    BY <1>1, SubSeqFull
  <2>2. text # 0
    BY <1>2
  <2>. HIDE DEF text
  <2>. QED BY <1>2, <2>1, <2>2
<1>4. gap = 0
  <2>1. {i \in 1 .. Len(n) : n[i] = Space} = {}
    BY <1>1
  <2>. QED BY <1>3, <2>1 DEF Line!SelectInSeq
<1>5. name = n
  BY <1>3, <1>4
<1>6. Line!LongCall(n) =
        IF Line!ByName(name) = {} THEN Line!NoCall
        ELSE [on |-> TRUE, cmd |-> CHOOSE c \in Line!ByName(name) : TRUE, prm |-> prm, complete |-> TRUE]
  BY DEF Line!LongCall
<1>. HIDE DEF name, prm
<1>7. PICK p : Line!LongCall(n) = [on |-> TRUE, cmd |-> CHOOSE c \in Line!ByName(n) : TRUE,
                                   prm |-> p, complete |-> TRUE]
  BY <1>5, <1>6
<1>. QED BY <1>7

\* What is assumed of the commands.
LEMMA CommandTypes ==
  /\ \A c \in Line!Command : /\ c.key \in Keys \cup {"none"} /\ c.name \in Seq(Keys)
                             /\ Space \notin Line!ToSet(c.name)
  /\ \A b \in Line!Blocks : \A c, d \in Commands[b] : c # d => Line!Differ(c, d)
  /\ \A b \in Line!Blocks : Commands[b] \subseteq Line!Command
  BY PartsAssumption DEF Line!CommandsAssumption, Line!Command

\* The invariant implies what is claimed of the tabulator.
LEMMA CompletedIsFound == CommandsInv => Line!TabFindsCommand
<1>. SUFFICES ASSUME CommandsInv, completed # Line!None, ctx.on, completed \in Line!Registered
              PROVE  Line!LongCall(ctx.line).cmd = completed
  BY DEF Line!TabFindsCommand
<1>1. ctx.line = completed.name /\ ctx.line # <<>>
  BY DEF CommandsInv
<1>2. completed \in Line!Command
  BY DEF CommandsInv, CommandOrNone
<1>3. completed.name \in Seq(Keys) /\ Space \notin Line!ToSet(completed.name)
  BY <1>2, CommandTypes
<1>4. completed \in Line!ByName(ctx.line)
  BY <1>1 DEF Line!ByName
<1>5. Line!LongCall(ctx.line).cmd \in Line!ByName(ctx.line)
  BY <1>1, <1>3, <1>4, NameIsWord
<1>6. \A c \in Line!ByName(ctx.line) : c = completed
  BY <1>1 DEF CommandsInv, Line!FindsOne, Line!Differ, Line!ByName
<1>. QED BY <1>5, <1>6

\* The invariant holds at the start.
LEMMA CommandsInit == Line!Init => CommandsInv
<1>. SUFFICES ASSUME Line!Init PROVE CommandsInv
  OBVIOUS
<1>1. cmdl = <<>> /\ ctx = Line!NoCtx /\ called = Line!NoCall /\ completed = Line!None
  BY DEF Line!Init
<1>2. Line!IsInjective(cmdl) /\ Line!Registered = {}
  BY <1>1 DEF Line!IsInjective, Line!Registered, Line!ToSet
<1>3. /\ ctx.cmd = Line!None /\ called.cmd = Line!None
      /\ ctx = [on |-> ctx.on, cmd |-> ctx.cmd, long |-> ctx.long, line |-> ctx.line]
  BY <1>1 DEF Line!NoCtx, Line!NoCall
<1>. QED BY <1>1, <1>2, <1>3 DEF CommandsInv, Line!FindsOne, CommandOrNone

\* A change of the blocks that leaves the line under edit.
LEMMA RegistryKeeps ==
  ASSUME CommandsInv, UNCHANGED <<ctx, called, completed>>,
         cmdl' \in Seq(Line!Blocks), Line!IsInjective(cmdl'), Line!FindsOne'
  PROVE  CommandsInv'
  BY DEF CommandsInv

\* Registration of a block that may be registered keeps what is found.
LEMMA CmdRegisterKeeps ==
  ASSUME CommandsInv, NEW b \in Line!Blocks, Line!CmdRegister(b)
  PROVE  CommandsInv'
<1>1. /\ b \notin Line!ToSet(cmdl) /\ cmdl' = Append(cmdl, b) /\ UNCHANGED <<ctx, called, completed>>
      /\ \A c \in Commands[b] : Line!ByKey(c.key) = {} /\ Line!ByName(c.name) = {}
  BY DEF Line!CmdRegister, Line!MayRegister
<1>2. cmdl \in Seq(Line!Blocks) /\ Line!IsInjective(cmdl) /\ Line!FindsOne
  BY DEF CommandsInv
<1>3. /\ cmdl' \in Seq(Line!Blocks) /\ Len(cmdl') = Len(cmdl) + 1
      /\ \A i \in 1 .. Len(cmdl) : cmdl'[i] = cmdl[i]
      /\ cmdl'[Len(cmdl) + 1] = b
  BY <1>1, <1>2, AppendProperties
<1>4. Line!IsInjective(cmdl')
  <2>1. /\ \A m, n \in 1 .. Len(cmdl) : cmdl[m] = cmdl[n] => m = n
        /\ \A m \in 1 .. Len(cmdl) : cmdl[m] # b
    BY <1>1, <1>2 DEF Line!IsInjective, Line!ToSet
  <2>. SUFFICES ASSUME NEW i \in 1 .. Len(cmdl'), NEW j \in 1 .. Len(cmdl'), cmdl'[i] = cmdl'[j]
                PROVE  i = j
    BY <1>3 DEF Line!IsInjective
  <2>. QED BY <1>2, <1>3, <2>1
<1>5. Line!ToSet(cmdl') = Line!ToSet(cmdl) \cup {b}
  <2>1. DOMAIN cmdl' = 1 .. Len(cmdl) + 1 /\ DOMAIN cmdl = 1 .. Len(cmdl) /\ Len(cmdl) \in Nat
    BY <1>2, <1>3, LenProperties
  <2>2. \A i \in DOMAIN cmdl' : i \in DOMAIN cmdl \/ i = Len(cmdl) + 1
    BY <2>1
  <2>3. DOMAIN cmdl \subseteq DOMAIN cmdl' /\ Len(cmdl) + 1 \in DOMAIN cmdl'
    BY <2>1
  <2>. QED BY <1>3, <2>1, <2>2, <2>3 DEF Line!ToSet
<1>6. (Line!Registered)' = Line!Registered \cup Commands[b]
  BY <1>5 DEF Line!Registered
<1>7. Line!FindsOne'
  <2>1. ASSUME NEW c \in Line!Registered, NEW d \in Commands[b]
        PROVE  Line!Differ(c, d) /\ Line!Differ(d, c)
    BY <1>1 DEF Line!Differ, Line!ByKey, Line!ByName
  <2>2. \A c, d \in Commands[b] : c # d => Line!Differ(c, d)
    BY CommandTypes
  <2>3. \A c, d \in Line!Registered : c # d => Line!Differ(c, d)
    BY <1>2 DEF Line!FindsOne
  <2>4. \A c, d \in (Line!Registered)' : c # d => Line!Differ(c, d)
    BY <1>6, <2>1, <2>2, <2>3
  <2>. QED BY <2>4 DEF Line!FindsOne, Line!Differ
<1>. QED BY <1>1, <1>3, <1>4, <1>7, RegistryKeeps

LEMMA CmdUnregisterKeeps ==
  ASSUME CommandsInv, NEW b \in Line!Blocks, Line!CmdUnregister(b)
  PROVE  CommandsInv'
<1>1. cmdl' = Line!RemoveFirst(cmdl, b) /\ UNCHANGED <<ctx, called, completed>>
  BY DEF Line!CmdUnregister
<1>2. cmdl \in Seq(Line!Blocks) /\ Line!IsInjective(cmdl) /\ Line!FindsOne
  BY DEF CommandsInv
<1>3. /\ cmdl' \in Seq(Line!Blocks) /\ Line!IsInjective(cmdl')
      /\ Line!ToSet(cmdl') = Line!ToSet(cmdl) \ {b}
  BY <1>1, <1>2, RemoveFirstKeeps
<1>4. (Line!Registered)' \subseteq Line!Registered
  BY <1>3 DEF Line!Registered
<1>5. Line!FindsOne'
  BY <1>2, <1>4 DEF Line!FindsOne, Line!Differ
<1>. QED BY <1>1, <1>3, <1>5, RegistryKeeps

\* A step of the editor.
LEMMA EditKeeps ==
  ASSUME CommandsInv, cmdl' = cmdl,
         ctx' = [on |-> ctx'.on, cmd |-> ctx'.cmd, long |-> ctx'.long, line |-> ctx'.line],
         ctx' = Line!NoCtx \/ (ctx'.on /\ ctx'.long = (ctx'.cmd = Line!None)),
         ctx'.cmd \in CommandOrNone, called'.cmd \in CommandOrNone, completed' \in CommandOrNone,
         completed' # Line!None /\ ctx'.on => ctx'.line = completed'.name /\ ctx'.line # <<>>
  PROVE  CommandsInv'
<1>1. Line!FindsOne'
  BY DEF CommandsInv, Line!FindsOne, Line!Registered, Line!Differ
<1>. QED BY <1>1 DEF CommandsInv

\* What is registered are commands, none of which is none.
LEMMA RegisteredAreCommands ==
  ASSUME CommandsInv
  PROVE  Line!Registered \subseteq CommandOrNone
<1>1. Line!ToSet(cmdl) \subseteq Line!Blocks
  BY LenProperties DEF CommandsInv, Line!ToSet
<1>. QED BY <1>1, CommandTypes DEF Line!Registered, CommandOrNone

\* What a line may call, and where it goes.
LEMMA ReportIs ==
  ASSUME CommandsInv, NEW c, c.cmd \in CommandOrNone, NEW k
  PROVE  Line!Report(c, k).cmd \in CommandOrNone
<1>1. Line!NoCall.cmd \in CommandOrNone
  BY DEF Line!NoCall, CommandOrNone
<1>2. ASSUME NEW l PROVE Line!LongCall(l).cmd \in CommandOrNone
  <2>. DEFINE text == Line!SelectInSeq(l, LAMBDA x : x # Space)
              rest == IF text = 0 THEN <<>> ELSE SubSeq(l, text, Len(l))
              gap == Line!SelectInSeq(rest, LAMBDA x : x = Space)
              name == IF gap = 0 THEN rest ELSE SubSeq(rest, 1, gap - 1)
              tail == IF gap = 0 THEN <<>> ELSE SubSeq(rest, gap, Len(rest))
              word == Line!SelectInSeq(tail, LAMBDA x : x # Space)
              prm == IF word = 0 THEN <<>> ELSE SubSeq(tail, word, Len(tail))
  <2>1. Line!LongCall(l) =
          IF Line!ByName(name) = {} THEN Line!NoCall
          ELSE [on |-> TRUE, cmd |-> CHOOSE d \in Line!ByName(name) : TRUE, prm |-> prm, complete |-> TRUE]
    BY DEF Line!LongCall
  <2>. HIDE DEF name, prm
  <2>2. Line!ByName(name) \subseteq Line!Registered
    BY DEF Line!ByName
  <2>3. CASE Line!ByName(name) = {}
    BY <1>1, <2>1, <2>3
  <2>4. CASE Line!ByName(name) # {}
    <3>1. (CHOOSE d \in Line!ByName(name) : TRUE) \in Line!ByName(name)
      BY <2>4
    <3>2. Line!LongCall(l).cmd = CHOOSE d \in Line!ByName(name) : TRUE
      BY <2>1, <2>4
    <3>. QED BY <2>2, <3>1, <3>2, RegisteredAreCommands
  <2>. QED BY <2>3, <2>4
<1>3. CASE c.long /\ k = "enter"
  BY <1>2, <1>3 DEF Line!Report
<1>4. CASE c.long /\ k # "enter"
  BY <1>1, <1>4 DEF Line!Report
<1>5. CASE ~c.long
  <2>1. Line!Report(c, k) = Line!NoCall \/ Line!Report(c, k).cmd = c.cmd
    BY <1>5 DEF Line!Report
  <2>. QED BY <1>1, <2>1
<1>. QED BY <1>3, <1>4, <1>5

\* No line is a proper edit.
LEMMA NoCtxIs ==
  /\ Line!NoCtx = [on |-> FALSE, cmd |-> Line!None, long |-> FALSE, line |-> <<>>]
  /\ ~Line!NoCtx.on /\ Line!NoCtx.cmd = Line!None /\ Line!NoCtx.long = FALSE
  /\ Line!NoCtx.line = <<>> /\ Line!None \in CommandOrNone /\ Line!NoCall.cmd = Line!None
  BY DEF Line!NoCtx, CommandOrNone, Line!NoCall

LEMMA KeyEditKeeps ==
  ASSUME CommandsInv, NEW k, Line!KeyEdit(k)
  PROVE  CommandsInv'
<1>1. /\ ctx.on /\ ctx.long = (ctx.cmd = Line!None) /\ ctx.cmd \in CommandOrNone
      /\ ctx = [on |-> ctx.on, cmd |-> ctx.cmd, long |-> ctx.long, line |-> ctx.line]
  BY NoCtxIs DEF CommandsInv, Line!KeyEdit
<1>2. CASE k = "rel"
  <2>1. UNCHANGED <<cmdl, ctx, called, completed>>
    BY <1>2 DEF Line!KeyEdit
  <2>. QED BY <2>1 DEF CommandsInv, Line!FindsOne, Line!Registered, Line!Differ
<1>3. CASE k # "rel"
  <2>. DEFINE one == k = "tab" /\ ctx.long /\ Line!OneMatch(ctx.line)
              found == CHOOSE c \in Line!Matches(ctx.line) : TRUE
  <2>0. completed' = IF one THEN found ELSE Line!None
    BY <1>3, Zenon DEF Line!KeyEdit
  <2>1. called' = Line!Report(ctx, k) /\ ctx' = Line!Line(ctx, k) /\ cmdl' = cmdl
    BY <1>3, Zenon DEF Line!KeyEdit
  <2>2. called'.cmd \in CommandOrNone
    BY <1>1, <2>1, ReportIs
  <2>3. one => found \in Line!Registered /\ found.name # <<>>
    <3>1. one => found \in Line!Matches(ctx.line)
      BY DEF Line!OneMatch
    <3>. QED BY <3>1 DEF Line!Matches
  <2>4. CASE k \in {"enter", "esc"}
    <3>1. ctx' = Line!NoCtx /\ completed' = Line!None
      BY <2>0, <2>1, <2>4 DEF Line!Line
    <3>2. /\ ctx'.cmd \in CommandOrNone /\ completed' \in CommandOrNone
          /\ ctx' = [on |-> ctx'.on, cmd |-> ctx'.cmd, long |-> ctx'.long, line |-> ctx'.line]
      BY <3>1, NoCtxIs
    <3>. QED BY <2>1, <2>2, <3>1, <3>2, EditKeeps
  <2>5. CASE k \notin {"enter", "esc"}
    <3>1. ctx' = [ctx EXCEPT !.line = Line!Edited(ctx, k)]
      BY <2>1, <2>5 DEF Line!Line
    <3>. DEFINE l == Line!Edited(ctx, k)
    <3>2. one => l = found.name
      <4>1. one => Line!Edited(ctx, k) = Line!Tab(ctx.line)
        BY DEF Line!Edited
      <4>2. one => Line!Tab(ctx.line) = found.name
        BY DEF Line!Tab
      <4>. QED BY <4>1, <4>2
    <3>. HIDE DEF l, one, found
    <3>3. /\ ctx'.on /\ ctx'.long = (ctx'.cmd = Line!None) /\ ctx'.cmd \in CommandOrNone
          /\ ctx' = [on |-> ctx'.on, cmd |-> ctx'.cmd, long |-> ctx'.long, line |-> ctx'.line]
          /\ ctx'.line = l
      <4>1. ctx' = [on |-> ctx.on, cmd |-> ctx.cmd, long |-> ctx.long, line |-> l]
        BY <1>1, <3>1 DEF l
      <4>. QED BY <1>1, <4>1
    <3>4. completed' \in CommandOrNone
      BY <2>0, <2>3, NoCtxIs, RegisteredAreCommands
    <3>5. completed' # Line!None => ctx'.line = completed'.name /\ ctx'.line # <<>>
      BY <2>0, <2>3, <3>2, <3>3
    <3>. QED BY <2>1, <2>2, <3>3, <3>4, <3>5, EditKeeps
  <2>. QED BY <2>4, <2>5
<1>. QED BY <1>2, <1>3

LEMMA KeyCommandKeeps ==
  ASSUME CommandsInv, NEW k, Line!KeyCommand(k)
  PROVE  CommandsInv'
<1>. DEFINE cmd == CHOOSE c \in Line!ByKey(k) : TRUE
            open == [on |-> TRUE, cmd |-> cmd, long |-> FALSE, line |-> <<>>]
            first == IF k \in Digits THEN k ELSE "rel"
<1>1. /\ Line!ByKey(k) # {} /\ completed' = Line!None /\ cmdl' = cmdl
      /\ IF cmd.prm THEN called' = Line!Report(open, first) /\ ctx' = Line!Line(open, first)
         ELSE /\ called' = [on |-> TRUE, cmd |-> cmd, prm |-> <<>>, complete |-> TRUE]
              /\ ctx' = ctx
  BY DEF Line!KeyCommand
<1>2. cmd \in CommandOrNone /\ cmd # Line!None
  <2>1. cmd \in Line!ByKey(k)
    BY <1>1
  <2>. HIDE DEF cmd
  <2>2. cmd \in Line!Registered /\ cmd.key # "none"
    BY <2>1 DEF Line!ByKey
  <2>3. Line!None.key = "none"
    BY DEF Line!None
  <2>. QED BY <2>2, <2>3, RegisteredAreCommands
<1>. HIDE DEF cmd, first
<1>3. CASE cmd.prm
  <2>1. called'.cmd \in CommandOrNone
    <3>1. open.cmd \in CommandOrNone
      BY <1>2
    <3>. HIDE DEF open
    <3>. QED BY <1>1, <1>3, <3>1, ReportIs
  <2>2. \/ ctx' = Line!NoCtx
        \/ /\ ctx'.on /\ ctx'.cmd = cmd /\ ctx'.long = FALSE
           /\ ctx' = [on |-> ctx'.on, cmd |-> ctx'.cmd, long |-> ctx'.long, line |-> ctx'.line]
    <3>1. PICK o : o = open
      OBVIOUS
    <3>2. o = [on |-> o.on, cmd |-> o.cmd, long |-> o.long, line |-> o.line]
      BY <3>1
    <3>0. o.on /\ o.cmd = cmd /\ o.long = FALSE
      BY <3>1
    <3>3. PICK e : ctx' = Line!NoCtx \/ ctx' = [o EXCEPT !.line = e]
      BY <1>1, <1>3, <3>1 DEF Line!Line
    <3>. HIDE DEF open
    <3>4. [o EXCEPT !.line = e] = [on |-> o.on, cmd |-> o.cmd, long |-> o.long, line |-> e]
      BY <3>2
    <3>. QED BY <3>0, <3>3, <3>4
  <2>3. /\ ctx' = Line!NoCtx \/ (ctx'.on /\ ctx'.long = (ctx'.cmd = Line!None))
        /\ ctx'.cmd \in CommandOrNone
        /\ ctx' = [on |-> ctx'.on, cmd |-> ctx'.cmd, long |-> ctx'.long, line |-> ctx'.line]
    <3>1. CASE ctx' = Line!NoCtx
      BY <3>1, NoCtxIs
    <3>2. CASE ctx' # Line!NoCtx
      BY <1>2, <2>2, <3>2
    <3>. QED BY <3>1, <3>2
  <2>. QED BY <1>1, <2>1, <2>3, NoCtxIs, EditKeeps
<1>4. CASE ~cmd.prm
  <2>1. ctx' = ctx /\ called'.cmd = cmd
    BY <1>1, <1>4
  <2>2. /\ ctx = Line!NoCtx \/ (ctx.on /\ ctx.long = (ctx.cmd = Line!None))
        /\ ctx.cmd \in CommandOrNone
        /\ ctx = [on |-> ctx.on, cmd |-> ctx.cmd, long |-> ctx.long, line |-> ctx.line]
    BY DEF CommandsInv
  <2>. QED BY <1>1, <1>2, <2>1, <2>2, NoCtxIs, EditKeeps
<1>. QED BY <1>3, <1>4

\* Every step keeps the invariant.
LEMMA CommandsNext == CommandsInv /\ [Line!Next]_commandsVars => CommandsInv'
<1>. SUFFICES ASSUME CommandsInv, [Line!Next]_commandsVars PROVE CommandsInv'
  OBVIOUS
<1>1. CASE Line!KeyPrefix
  <2>1. /\ ctx' = [on |-> TRUE, cmd |-> Line!None, long |-> TRUE, line |-> <<>>]
        /\ called' = Line!NoCall /\ completed' = Line!None /\ cmdl' = cmdl
    BY <1>1 DEF Line!KeyPrefix
  <2>2. /\ ctx'.on /\ ctx'.long = (ctx'.cmd = Line!None) /\ ctx'.cmd = Line!None
        /\ ctx' = [on |-> ctx'.on, cmd |-> ctx'.cmd, long |-> ctx'.long, line |-> ctx'.line]
    BY <2>1
  <2>. QED BY <2>1, <2>2, NoCtxIs, EditKeeps
<1>2. CASE Line!UiReset
  <2>1. ctx' = Line!NoCtx /\ called' = Line!NoCall /\ completed' = Line!None /\ cmdl' = cmdl
    BY <1>2 DEF Line!UiReset
  <2>2. ctx' = [on |-> ctx'.on, cmd |-> ctx'.cmd, long |-> ctx'.long, line |-> ctx'.line]
    BY <2>1, NoCtxIs
  <2>. QED BY <2>1, <2>2, NoCtxIs, EditKeeps
<1>3. CASE UNCHANGED commandsVars
  BY <1>3 DEF commandsVars, CommandsInv, Line!FindsOne, Line!Registered, Line!Differ
<1>. QED BY <1>1, <1>2, <1>3, CmdRegisterKeeps, CmdUnregisterKeeps, KeyEditKeeps, KeyCommandKeeps
         DEF Line!Next

-----------------------------------------------------------------------------
(* Proof of LoggedOnce, for any calls, screens and event threads. *)

Msg == [ev : {"incoming", "established", "closed"}, call : Call]
Message(ev, c) == [ev |-> ev, call |-> c]
Queues == [1 .. Loopers -> Seq(Msg)]

\* A queue in which CLOSED of a call comes once, after all else of it, and when it is over.
Ordered(q, s) ==
    /\ \A l \in 1 .. Loopers : \A i \in 1 .. Len(q[l]) : q[l][i].ev = "closed" => s[q[l][i].call] = "over"
    /\ \A l, m \in 1 .. Loopers : \A i \in 1 .. Len(q[l]), j \in 1 .. Len(q[m]) :
          q[l][i].ev = "closed" /\ q[m][j] = q[l][i] => l = m /\ i = j
    /\ \A l \in 1 .. Loopers : \A i, j \in 1 .. Len(q[l]) :
          i < j /\ q[l][i].ev = "closed" => q[l][j].call # q[l][i].call

\* The end of c waits in queues q.
Ends(q, c) == \E l \in 1 .. Loopers : \E i \in 1 .. Len(q[l]) : q[l][i] = [ev |-> "closed", call |-> c]

\* The log d has each call that is over and of which no end waits.
Logged(q, s, d) == \A c \in Call : d[c] = IF s[c] = "over" /\ ~Ends(q, c) THEN 1 ELSE 0

\* The list l of the calls under way in state s.
Listed(l, s) ==
    /\ l \in Seq(Call) /\ App!IsInjective(l)
    /\ App!ToSet(l) = {c \in Call : s[c] \in {"ringing", "calling", "up"}}

\* Besides types and what is claimed: live are the calls that are under way, and there
\* is no message before there is an event thread.
AppInv ==
    /\ state \in [Call -> {"new", "ringing", "calling", "up", "over"}]
    /\ Listed(live, state)
    /\ loopers \in 0 .. Loopers /\ queue \in Queues
    /\ loopers = 0 => \A l \in 1 .. Loopers : queue[l] = <<>>
    /\ screens \in Seq(App!Screen) /\ mSess \in 0 .. Len(screens)
    /\ cdr \in [Call -> Nat]
    /\ crash \in {"none", "no handler", "no screen", "timer cancelled"}
    /\ Ordered(queue, state) /\ (crash = "none" => Logged(queue, state, cdr))

\* What the invariant says of messages is what is claimed.
LEMMA AppClaims == AppInv => App!TypeOK /\ App!LoggedOnce /\ App!ClosedIsLast
<1>. SUFFICES ASSUME AppInv PROVE App!TypeOK /\ App!LoggedOnce /\ App!ClosedIsLast
  OBVIOUS
<1>1. \A l \in 1 .. Loopers : DOMAIN queue[l] = 1 .. Len(queue[l])
  BY LenProperties DEF AppInv, Queues
<1>2. App!TypeOK
  BY DEF AppInv, App!TypeOK, Queues, Msg, Listed
<1>3. \A c \in Call : App!Waiting("closed", c) <=> Ends(queue, c)
  BY <1>1 DEF App!Waiting, Ends
<1>4. App!LoggedOnce
  BY <1>3 DEF AppInv, App!LoggedOnce, App!Running, Logged
<1>5. App!ClosedIsLast
  BY <1>1, ZenonT(60) DEF AppInv, App!ClosedIsLast, Ordered
<1>. QED BY <1>2, <1>4, <1>5

\* The message ev of c is put at the end of queue k.
Posted(q, r, k, ev, c) ==
    /\ q \in Queues /\ k \in 1 .. Loopers
    /\ ev \in {"incoming", "established", "closed"} /\ c \in Call
    /\ r = [q EXCEPT ![k] = Append(@, Message(ev, c))]

\* From s to t only c changes, and it is over when its last event is sent.
Changed(s, t, ev, c) ==
    /\ s[c] # "over" /\ (t[c] = "over" <=> ev = "closed")
    /\ \A e \in Call : e # c => (t[e] = "over" <=> s[e] = "over")

\* A message at the end of a queue, of a call that is not over before it.
LEMMA PostKeeps ==
  ASSUME NEW q, NEW r, NEW k, NEW ev, NEW c, NEW s, NEW t,
         Posted(q, r, k, ev, c), Changed(s, t, ev, c), Ordered(q, s)
  PROVE  r \in Queues /\ Ordered(r, t) /\ \A d : Logged(q, s, d) => Logged(r, t, d)
<1>. USE DEF Posted
<1>0. /\ s[c] # "over" /\ (t[c] = "over" <=> ev = "closed")
      /\ \A e \in Call : e # c => (t[e] = "over" <=> s[e] = "over")
  BY DEF Changed
<1>. DEFINE m == Message(ev, c)
            n == Len(q[k])
<1>1. m \in Msg /\ m.ev = ev /\ m.call = c
  BY DEF Msg, Message
<1>2. n \in Nat /\ \A l \in 1 .. Loopers : Len(q[l]) \in Nat /\ \A i \in 1 .. Len(q[l]) : q[l][i] \in Msg
  BY ElementOfSeq, LenProperties DEF Queues
<1>. HIDE DEF m
<1>3. /\ Append(q[k], m) \in Seq(Msg) /\ Len(Append(q[k], m)) = n + 1
      /\ \A i \in 1 .. n : Append(q[k], m)[i] = q[k][i]
      /\ Append(q[k], m)[n + 1] = m
  BY <1>1, AppendProperties DEF Queues
<1>4. r = [q EXCEPT ![k] = Append(@, m)]
  BY DEF m, Posted
<1>. HIDE DEF n
<1>5. /\ r \in Queues
      /\ \A l \in 1 .. Loopers : l # k => r[l] = q[l]
      /\ Len(r[k]) = n + 1 /\ r[k][n + 1] = m /\ \A i \in 1 .. n : r[k][i] = q[k][i]
  BY <1>3, <1>4 DEF Queues
<1>6. /\ \A l \in 1 .. Loopers : \A i \in 1 .. Len(r[l]) :
            \/ i \in 1 .. Len(q[l]) /\ r[l][i] = q[l][i]
            \/ l = k /\ i = n + 1 /\ r[l][i] = m
      /\ \A l \in 1 .. Loopers : \A i \in 1 .. Len(q[l]) : i \in 1 .. Len(r[l]) /\ r[l][i] = q[l][i]
      /\ n + 1 \in 1 .. Len(r[k]) /\ \A i \in 1 .. Len(q[k]) : i < n + 1
  <2>1. \A i \in 1 .. n + 1 : i \in 1 .. n \/ i = n + 1
    BY <1>2 DEF n
  <2>2. \A i \in 1 .. n : i \in 1 .. n + 1 /\ i < n + 1
    BY <1>2 DEF n
  <2>3. n + 1 \in 1 .. n + 1
    BY <1>2 DEF n
  <2>4. n = Len(q[k])
    BY DEF n
  <2>. QED BY <1>5, <2>1, <2>2, <2>3, <2>4
\* Nothing in q is the end of c.
<1>7. \A l \in 1 .. Loopers : \A i \in 1 .. Len(q[l]) :
        q[l][i].ev = "closed" => q[l][i].call # c /\ s[q[l][i].call] = "over"
  BY <1>0 DEF Ordered
<1>8. Ordered(r, t)
  <2>1. \A l \in 1 .. Loopers : \A i \in 1 .. Len(r[l]) : r[l][i].ev = "closed" => t[r[l][i].call] = "over"
    BY <1>0, <1>1, <1>2, <1>6, <1>7 DEF Msg
  <2>2. ASSUME NEW l \in 1 .. Loopers, NEW o \in 1 .. Loopers, NEW i \in 1 .. Len(r[l]),
               NEW j \in 1 .. Len(r[o]), r[l][i].ev = "closed", r[o][j] = r[l][i]
        PROVE  l = o /\ i = j
    <3>1. CASE i \in 1 .. Len(q[l]) /\ r[l][i] = q[l][i] /\ j \in 1 .. Len(q[o]) /\ r[o][j] = q[o][j]
      BY <2>2, <3>1 DEF Ordered
    <3>2. CASE i \in 1 .. Len(q[l]) /\ r[l][i] = q[l][i] /\ r[o][j] = m
      BY <1>1, <1>7, <2>2, <3>2
    <3>3. CASE r[l][i] = m /\ j \in 1 .. Len(q[o]) /\ r[o][j] = q[o][j]
      BY <1>1, <1>7, <2>2, <3>3
    <3>4. CASE l = k /\ i = n + 1 /\ o = k /\ j = n + 1
      BY <3>4
    <3>. QED BY <1>6, <3>1, <3>2, <3>3, <3>4
  <2>3. ASSUME NEW l \in 1 .. Loopers, NEW i \in 1 .. Len(r[l]), NEW j \in 1 .. Len(r[l]),
               i < j, r[l][i].ev = "closed"
        PROVE  r[l][j].call # r[l][i].call
    <3>1. i # n + 1 \/ l # k
      <4>. SUFFICES ASSUME i = n + 1, l = k PROVE FALSE
        OBVIOUS
      <4>1. j \in 1 .. n + 1 /\ n \in Nat
        BY <1>2, <1>5 DEF n
      <4>. QED BY <2>3, <4>1
    <3>2. i \in 1 .. Len(q[l]) /\ r[l][i] = q[l][i]
      BY <1>6, <3>1
    <3>. QED BY <1>1, <1>6, <1>7, <2>3, <3>2 DEF Ordered
  <2>. QED BY <2>1, <2>2, <2>3, SMTT(40) DEF Ordered
<1>9. ASSUME NEW d, Logged(q, s, d) PROVE Logged(r, t, d)
  <2>1. ASSUME NEW e \in Call, e # c PROVE Ends(r, e) <=> Ends(q, e)
    BY <1>1, <1>6, <2>1 DEF Ends
  <2>2. ev = "closed" => Ends(r, c)
    BY <1>6 DEF Ends, m, Message
  <2>. QED BY <1>0, <1>9, <2>1, <2>2 DEF Logged
<1>. QED BY <1>5, <1>8, <1>9

\* The first message of queue k is taken.
Taken(q, r, k) ==
    /\ q \in Queues /\ k \in 1 .. Loopers /\ q[k] # <<>>
    /\ r = [q EXCEPT ![k] = Tail(@)]

\* A message is taken: the end of a call is logged with it.
LEMMA TakeKeeps ==
  ASSUME NEW q, NEW r, NEW k, NEW s, NEW d, Taken(q, r, k), Ordered(q, s), d \in [Call -> Nat]
  PROVE  /\ r \in Queues /\ Ordered(r, s)
         /\ Head(q[k]) \in Msg /\ (Head(q[k]).ev = "closed" => s[Head(q[k]).call] = "over")
         /\ Logged(q, s, d) /\ Head(q[k]).ev # "closed" => Logged(r, s, d)
         /\ Logged(q, s, d) /\ Head(q[k]).ev = "closed" =>
                Logged(r, s, [d EXCEPT ![Head(q[k]).call] = @ + 1])
<1>. USE DEF Taken
<1>. DEFINE m == Head(q[k])
            n == Len(q[k])
<1>1. /\ m \in Msg /\ m = q[k][1] /\ n \in Nat \ {0}
      /\ Tail(q[k]) \in Seq(Msg) /\ Len(Tail(q[k])) = n - 1
      /\ \A i \in 1 .. Len(Tail(q[k])) : Tail(q[k])[i] = q[k][i + 1]
  BY HeadTailProperties, EmptySeq DEF Queues
<1>2. \A l \in 1 .. Loopers : Len(q[l]) \in Nat /\ \A i \in 1 .. Len(q[l]) : q[l][i] \in Msg
  BY ElementOfSeq, LenProperties DEF Queues
<1>3. n = Len(q[k])
  OBVIOUS
<1>. HIDE DEF m, n
<1>4. /\ r \in Queues
      /\ \A l \in 1 .. Loopers : l # k => r[l] = q[l]
      /\ Len(r[k]) = n - 1 /\ \A i \in 1 .. n - 1 : r[k][i] = q[k][i + 1]
  BY <1>1 DEF Queues
<1>. DEFINE At(l, i) == IF l = k THEN i + 1 ELSE i
<1>5. /\ \A l \in 1 .. Loopers : \A i \in 1 .. Len(r[l]) : At(l, i) \in 1 .. Len(q[l]) /\ r[l][i] = q[l][At(l, i)]
      /\ \A l \in 1 .. Loopers : \A i, j \in 1 .. Len(r[l]) : (At(l, i) = At(l, j) => i = j) /\ (i < j => At(l, i) < At(l, j))
      /\ \A i \in 1 .. Len(r[k]) : At(k, i) # 1 /\ 1 < At(k, i)
  BY <1>1, <1>2, <1>3, <1>4
<1>6. \A l \in 1 .. Loopers : \A i \in 1 .. Len(q[l]) :
         (l = k /\ i = 1) \/ \E j \in 1 .. Len(r[l]) : i = At(l, j)
  <2>. SUFFICES ASSUME NEW l \in 1 .. Loopers, NEW i \in 1 .. Len(q[l]), ~(l = k /\ i = 1)
                PROVE  \E j \in 1 .. Len(r[l]) : i = At(l, j)
    OBVIOUS
  <2>1. CASE l = k
    <3>1. i - 1 \in 1 .. Len(r[l]) /\ i = At(l, i - 1)
      BY <1>1, <1>3, <1>4, <2>1
    <3>. QED BY <3>1
  <2>2. CASE l # k
    BY <1>4, <2>2
  <2>. QED BY <2>1, <2>2
<1>7. 1 \in 1 .. Len(q[k]) /\ q[k][1] = m
  BY <1>1, <1>3
<1>. HIDE DEF At
<1>8. Ordered(r, s)
  <2>1. \A l \in 1 .. Loopers : \A i \in 1 .. Len(r[l]) : r[l][i].ev = "closed" => s[r[l][i].call] = "over"
    BY <1>5 DEF Ordered
  <2>2. ASSUME NEW l \in 1 .. Loopers, NEW o \in 1 .. Loopers, NEW i \in 1 .. Len(r[l]),
               NEW j \in 1 .. Len(r[o]), r[l][i].ev = "closed", r[o][j] = r[l][i]
        PROVE  l = o /\ i = j
    <3>1. PICK a \in 1 .. Len(q[l]) : a = At(l, i) /\ r[l][i] = q[l][a]
      BY <1>5
    <3>2. PICK b \in 1 .. Len(q[o]) : b = At(o, j) /\ r[o][j] = q[o][b]
      BY <1>5
    <3>5. q[l][a].ev = "closed" /\ q[o][b] = q[l][a]
      BY <2>2, <3>1, <3>2
    <3>3. l = o /\ a = b
      BY <3>1, <3>2, <3>5 DEF Ordered
    <3>4. j \in 1 .. Len(r[l])
      BY <3>3
    <3>. QED BY <1>5, <3>1, <3>2, <3>3, <3>4
  <2>3. ASSUME NEW l \in 1 .. Loopers, NEW i \in 1 .. Len(r[l]), NEW j \in 1 .. Len(r[l]),
               i < j, r[l][i].ev = "closed"
        PROVE  r[l][j].call # r[l][i].call
    <3>1. PICK a \in 1 .. Len(q[l]) : a = At(l, i) /\ r[l][i] = q[l][a]
      BY <1>5
    <3>2. PICK b \in 1 .. Len(q[l]) : b = At(l, j) /\ r[l][j] = q[l][b]
      BY <1>5
    <3>3. a < b
      BY <1>5, <2>3, <3>1, <3>2
    <3>. QED BY <2>3, <3>1, <3>2, <3>3 DEF Ordered
  <2>. QED BY <2>1, <2>2, <2>3 DEF Ordered
<1>9. m.ev = "closed" => s[m.call] = "over" /\ m = [ev |-> "closed", call |-> m.call] /\ m.call \in Call
  BY <1>1, <1>7 DEF Ordered, Msg
<1>10. ASSUME NEW c \in Call, ~(m.ev = "closed" /\ m.call = c) PROVE Ends(r, c) <=> Ends(q, c)
  <2>1. q[k][1] # [ev |-> "closed", call |-> c]
    BY <1>7, <1>10
  <2>. DEFINE e == [ev |-> "closed", call |-> c]
  <2>. HIDE DEF e
  <2>2. ASSUME NEW l \in 1 .. Loopers, NEW i \in 1 .. Len(r[l]), r[l][i] = e
        PROVE  \E j \in 1 .. Len(q[l]) : q[l][j] = e
    BY <1>5, <2>2
  <2>3. ASSUME NEW l \in 1 .. Loopers, NEW i \in 1 .. Len(q[l]), q[l][i] = e
        PROVE  \E j \in 1 .. Len(r[l]) : r[l][j] = e
    <3>1. ~(l = k /\ i = 1)
      BY <2>1, <2>3 DEF e
    <3>2. PICK j \in 1 .. Len(r[l]) : i = At(l, j)
      BY <1>6, <3>1
    <3>. QED BY <1>5, <2>3, <3>2
  <2>. QED BY <2>2, <2>3 DEF Ends, e
<1>11. m.ev = "closed" => ~Ends(r, m.call) /\ Ends(q, m.call)
  <2>. SUFFICES ASSUME m.ev = "closed" PROVE ~Ends(r, m.call) /\ Ends(q, m.call)
    OBVIOUS
  <2>1. Ends(q, m.call)
    BY <1>7, <1>9 DEF Ends
  <2>2. ASSUME NEW l \in 1 .. Loopers, NEW i \in 1 .. Len(r[l]), r[l][i] = m PROVE FALSE
    <3>1. q[l][At(l, i)] = q[k][1] /\ At(l, i) \in 1 .. Len(q[l]) /\ q[k][1].ev = "closed"
      BY <1>5, <1>7, <2>2
    <3>2. l = k /\ At(l, i) = 1
      BY <1>7, <3>1 DEF Ordered
    <3>. QED BY <1>5, <3>2
  <2>. QED BY <1>9, <2>1, <2>2 DEF Ends
<1>12. ASSUME Logged(q, s, d), m.ev # "closed" PROVE Logged(r, s, d)
  BY <1>10, <1>12 DEF Logged
<1>13. ASSUME Logged(q, s, d), m.ev = "closed"
       PROVE  Logged(r, s, [d EXCEPT ![m.call] = @ + 1])
  <2>1. d[m.call] = 0
    BY <1>9, <1>11, <1>13 DEF Logged
  <2>2. [d EXCEPT ![m.call] = @ + 1][m.call] = 1
    BY <1>9, <1>13, <2>1
  <2>3. \A c \in Call : c # m.call => [d EXCEPT ![m.call] = @ + 1][c] = d[c]
    OBVIOUS
  <2>. QED BY <1>9, <1>10, <1>11, <1>13, <2>2, <2>3 DEF Logged
<1>. QED BY <1>1, <1>4, <1>8, <1>9, <1>12, <1>13 DEF m

\* The list follows the states of the calls.
LEMMA ListKeeps ==
  ASSUME NEW s, NEW l, Listed(l, s), s \in [Call -> {"new", "ringing", "calling", "up", "over"}]
  PROVE  /\ \A c \in Call, w \in {"ringing", "calling"} :
                s[c] = "new" => Listed(Append(l, c), [s EXCEPT ![c] = w])
         /\ \A c \in App!ToSet(l) : Listed(App!RemoveFirst(l, c), [s EXCEPT ![c] = "over"])
         /\ \A c \in App!ToSet(l) : Listed(l, [s EXCEPT ![c] = "up"])
         /\ l # <<>> => App!Last(l) \in App!ToSet(l)
         /\ \A c \in App!ToSet(l) : c \in Call /\ s[c] \in {"ringing", "calling", "up"}
<1>. DEFINE n == Len(l)
<1>1. l \in Seq(Call) /\ n \in Nat /\ DOMAIN l = 1 .. n /\ \A i \in 1 .. n : l[i] \in Call
  BY LenProperties, ElementOfSeq DEF Listed
<1>2. /\ \A i, j \in 1 .. n : l[i] = l[j] => i = j
      /\ \A c : c \in App!ToSet(l) <=> \E i \in 1 .. n : l[i] = c
  BY <1>1 DEF Listed, App!IsInjective, App!ToSet
<1>3. \A c : c \in App!ToSet(l) <=> c \in Call /\ s[c] \in {"ringing", "calling", "up"}
  BY DEF Listed
<1>4. ASSUME NEW c \in Call, NEW w \in {"ringing", "calling"}, s[c] = "new"
      PROVE  Listed(Append(l, c), [s EXCEPT ![c] = w])
  <2>. DEFINE a == Append(l, c)
  <2>1. /\ a \in Seq(Call) /\ Len(a) = n + 1 /\ \A i \in 1 .. n : a[i] = l[i]
        /\ a[n + 1] = c /\ DOMAIN a = 1 .. n + 1
    BY <1>1, AppendProperties, LenProperties
  <2>. HIDE DEF a, n
  <2>2. \A i \in 1 .. n + 1 : (i \in 1 .. n /\ a[i] = l[i]) \/ (i = n + 1 /\ a[i] = c)
    BY <1>1, <2>1
  <2>3. \A i \in 1 .. n : i \in 1 .. n + 1
    BY <1>1
  <2>4. n + 1 \in 1 .. n + 1
    BY <1>1
  <2>5. c \notin App!ToSet(l)
    BY <1>3, <1>4
  <2>6. App!IsInjective(a)
    BY <1>2, <2>1, <2>2, <2>5 DEF App!IsInjective
  <2>7. App!ToSet(a) = App!ToSet(l) \cup {c}
    <3>1. \A x : x \in App!ToSet(a) <=> \E i \in 1 .. n + 1 : a[i] = x
      BY <2>1 DEF App!ToSet
    <3>. QED BY <1>2, <2>1, <2>2, <2>3, <2>4, <3>1
  <2>8. App!ToSet(a) = {d \in Call : [s EXCEPT ![c] = w][d] \in {"ringing", "calling", "up"}}
    BY <1>3, <1>4, <2>7
  <2>. QED BY <2>1, <2>6, <2>8 DEF Listed, a
<1>5. ASSUME NEW c \in App!ToSet(l) PROVE Listed(App!RemoveFirst(l, c), [s EXCEPT ![c] = "over"])
  <2>1. /\ App!RemoveFirst(l, c) \in Seq(Call) /\ App!IsInjective(App!RemoveFirst(l, c))
        /\ App!ToSet(App!RemoveFirst(l, c)) = App!ToSet(l) \ {c}
    <3>1. \A q, e : App!RemoveFirst(q, e) = Line!RemoveFirst(q, e)
      BY DEF App!RemoveFirst, Line!RemoveFirst, App!RemoveAt, Line!RemoveAt, App!SelectInSeq,
             Line!SelectInSeq, App!Min, Line!Min
    <3>2. \A q : App!ToSet(q) = Line!ToSet(q) /\ (App!IsInjective(q) <=> Line!IsInjective(q))
      BY DEF App!ToSet, Line!ToSet, App!IsInjective, Line!IsInjective
    <3>3. Line!IsInjective(l)
      BY <3>2 DEF Listed
    <3>4. /\ Line!RemoveFirst(l, c) \in Seq(Call) /\ Line!IsInjective(Line!RemoveFirst(l, c))
          /\ Line!ToSet(Line!RemoveFirst(l, c)) = Line!ToSet(l) \ {c}
      BY <1>1, <3>3, RemoveFirstKeeps
    <3>. QED BY <3>1, <3>2, <3>4
  <2>2. App!ToSet(l) \ {c} = {d \in Call : [s EXCEPT ![c] = "over"][d] \in {"ringing", "calling", "up"}}
    BY <1>3
  <2>. QED BY <2>1, <2>2 DEF Listed
<1>6. ASSUME NEW c \in App!ToSet(l) PROVE Listed(l, [s EXCEPT ![c] = "up"])
  <2>1. App!ToSet(l) = {d \in Call : [s EXCEPT ![c] = "up"][d] \in {"ringing", "calling", "up"}}
    BY <1>3
  <2>. QED BY <2>1 DEF Listed
<1>7. l # <<>> => App!Last(l) \in App!ToSet(l)
  <2>1. l # <<>> => n \in 1 .. n
    BY <1>1, EmptySeq
  <2>. QED BY <1>2, <2>1 DEF App!Last
<1>. QED BY <1>3, <1>4, <1>5, <1>6, <1>7

\* JniTools.handle of a message about call c, whose state changes with it.
LEMMA HandleKeeps ==
  ASSUME AppInv, NEW c \in Call, NEW ev \in {"incoming", "established", "closed"}, App!Post(ev, c),
         App!Running, state[c] # "over",
         NEW w \in {"ringing", "calling", "up", "over"}, w = "over" <=> ev = "closed",
         state' = [state EXCEPT ![c] = w]
  PROVE  /\ state' \in [Call -> {"new", "ringing", "calling", "up", "over"}]
         /\ queue' \in Queues /\ (loopers = 0 => \A l \in 1 .. Loopers : queue'[l] = <<>>)
         /\ crash' \in {"none", "no handler", "no screen", "timer cancelled"}
         /\ Ordered(queue', state') /\ (crash' = "none" => Logged(queue', state', cdr))
<1>1. /\ state \in [Call -> {"new", "ringing", "calling", "up", "over"}] /\ loopers \in 0 .. Loopers
      /\ queue \in Queues /\ Ordered(queue, state) /\ Logged(queue, state, cdr)
      /\ Loopers \in Nat \ {0} /\ crash = "none"
  BY PartsAssumption DEF AppInv, App!Running, App!AppSessionAssumption
<1>2. state' \in [Call -> {"new", "ringing", "calling", "up", "over"}]
  BY <1>1
<1>3. CASE loopers = 0
  <2>1. \A l \in 1 .. Loopers : Len(queue[l]) = 0
    BY <1>3, EmptySeq DEF AppInv
  <2>2. Ordered(queue, state')
    BY <2>1 DEF Ordered
  <2>. QED BY <1>1, <1>2, <1>3, <2>2 DEF App!Post, AppInv
<1>4. CASE loopers # 0
  <2>1. queue' = [queue EXCEPT ![loopers] = Append(@, [ev |-> ev, call |-> c])] /\ crash' = crash
    BY <1>4 DEF App!Post
  <2>2. loopers \in 1 .. Loopers
    BY <1>1, <1>4
  <2>3. /\ state'[c] = "over" <=> ev = "closed"
        /\ \A d \in Call : d # c => (state'[d] = "over" <=> state[d] = "over")
    BY <1>1
  <2>4. Posted(queue, queue', loopers, ev, c) /\ Changed(state, state', ev, c)
    BY <1>1, <2>1, <2>2, <2>3 DEF Posted, Changed, Message
  <2>. DEFINE s == state  t == state'  r == queue'
  <2>6. Ordered(queue, s) /\ Posted(queue, r, loopers, ev, c) /\ Changed(s, t, ev, c)
    BY <1>1, <2>4
  <2>5. r \in Queues /\ Ordered(r, t) /\ \A d : Logged(queue, s, d) => Logged(r, t, d)
    <3>. HIDE DEF s, t, r
    <3>. QED BY <2>6, PostKeeps
  <2>. QED BY <1>1, <1>2, <1>4, <2>1, <2>5
<1>. QED BY <1>3, <1>4

\* jni.hangup, and what becomes of the list.
LEMMA HangupKeeps ==
  ASSUME AppInv, App!Running, App!JniHangup, UNCHANGED <<loopers, cdr>>,
         screens' \in Seq(App!Screen), mSess' \in 0 .. Len(screens')
  PROVE  AppInv'
<1>1. CASE live = <<>>
  BY <1>1 DEF AppInv, App!JniHangup
<1>2. CASE live # <<>>
  <2>. DEFINE c == App!Last(live)
  <2>1. App!Over(c) /\ App!Post("closed", c)
    BY <1>2 DEF App!JniHangup
  <2>2. c \in Call /\ state[c] # "over" /\ Listed(App!RemoveFirst(live, c), [state EXCEPT ![c] = "over"])
    BY <1>2, ListKeeps DEF AppInv
  <2>. HIDE DEF c
  <2>3. Listed(live', state') /\ state' = [state EXCEPT ![c] = "over"]
    BY <2>1, <2>2 DEF App!Over
  <2>4. /\ state' \in [Call -> {"new", "ringing", "calling", "up", "over"}]
         /\ queue' \in Queues /\ (loopers = 0 => \A l \in 1 .. Loopers : queue'[l] = <<>>)
         /\ crash' \in {"none", "no handler", "no screen", "timer cancelled"}
         /\ Ordered(queue', state') /\ (crash' = "none" => Logged(queue', state', cdr))
    BY <2>1, <2>2, <2>3, HandleKeeps
  <2>. QED BY <2>3, <2>4 DEF AppInv
<1>. QED BY <1>1, <1>2

\* Screens come at the end of their list and change in their place.
LEMMA ScreensKeep ==
  ASSUME AppInv
  PROVE  /\ \A type \in {"in", "out"} : App!StartScreen(type) => screens' \in Seq(App!Screen) /\ Len(screens') = Len(screens) + 1
         /\ \A i \in 1 .. Len(screens) : App!Finish(i) => screens' \in Seq(App!Screen) /\ Len(screens') = Len(screens)
         /\ \A i \in 1 .. Len(screens) : \A x \in App!Screen :
               screens' = [screens EXCEPT ![i] = x] => screens' \in Seq(App!Screen) /\ Len(screens') = Len(screens)
         /\ DOMAIN screens = 1 .. Len(screens) /\ Len(screens) \in Nat
         /\ \A i \in 1 .. Len(screens) : screens[i] \in App!Screen
<1>1. /\ screens \in Seq(App!Screen) /\ Len(screens) \in Nat /\ DOMAIN screens = 1 .. Len(screens)
      /\ \A i \in 1 .. Len(screens) : screens[i] \in App!Screen
  BY LenProperties, ElementOfSeq DEF AppInv
<1>2. ASSUME NEW type \in {"in", "out"}, App!StartScreen(type)
      PROVE  screens' \in Seq(App!Screen) /\ Len(screens') = Len(screens) + 1
  <2>. DEFINE x == [type |-> type, is |-> "starting", surface |-> FALSE, timer |-> "ready", tasks |-> 0]
  <2>1. x \in App!Screen
    BY DEF App!Screen
  <2>2. screens' = Append(screens, x)
    BY <1>2 DEF App!StartScreen
  <2>. HIDE DEF x
  <2>. QED BY <1>1, <2>1, <2>2, AppendProperties
<1>3. ASSUME NEW i \in 1 .. Len(screens), NEW x \in App!Screen, screens' = [screens EXCEPT ![i] = x]
      PROVE  screens' \in Seq(App!Screen) /\ Len(screens') = Len(screens)
  BY <1>1, <1>3, ExceptSeq
<1>4. ASSUME NEW i \in 1 .. Len(screens), App!Finish(i)
      PROVE  screens' \in Seq(App!Screen) /\ Len(screens') = Len(screens)
  <2>. DEFINE x == [screens[i] EXCEPT !.timer = "cancelled", !.is = "finished"]
  <2>1. x \in App!Screen
    BY <1>1 DEF App!Screen
  <2>2. screens' = [screens EXCEPT ![i] = x]
    BY <1>4 DEF App!Finish
  <2>. HIDE DEF x
  <2>. QED BY <1>3, <2>1, <2>2
<1>. QED BY <1>1, <1>2, <1>3, <1>4

LEMMA AppInit == App!Init => AppInv
<1>. SUFFICES ASSUME App!Init PROVE AppInv
  OBVIOUS
<1>1. /\ state = [c \in Call |-> "new"] /\ live = <<>> /\ loopers = 0 /\ queue = [l \in 1 .. Loopers |-> <<>>]
      /\ screens = <<>> /\ mSess = 0 /\ cdr = [c \in Call |-> 0] /\ crash = "none" /\ Loopers \in Nat \ {0}
  BY PartsAssumption DEF App!Init, App!AppSessionAssumption
<1>2. Listed(live, state)
  BY <1>1 DEF Listed, App!IsInjective, App!ToSet
<1>3. queue \in Queues /\ \A l \in 1 .. Loopers : Len(queue[l]) = 0 /\ queue[l] = <<>>
  BY <1>1 DEF Queues
<1>4. Ordered(queue, state)
  BY <1>3 DEF Ordered
<1>5. Logged(queue, state, cdr)
  BY <1>1 DEF Logged
<1>6. screens \in Seq(App!Screen) /\ mSess \in 0 .. Len(screens)
  BY <1>1
<1>. QED BY <1>1, <1>2, <1>3, <1>4, <1>5, <1>6 DEF AppInv

\* Only the screens change, or an event thread starts.
LEMMA SameKeeps ==
  ASSUME AppInv, UNCHANGED <<state, live, queue, cdr, crash>>,
         loopers' \in 0 .. Loopers, loopers' = loopers \/ loopers' # 0,
         screens' \in Seq(App!Screen), mSess' \in 0 .. Len(screens')
  PROVE  AppInv'
<1>1. Listed(live', state') /\ Ordered(queue', state')
  BY DEF AppInv
<1>2. crash' = "none" => Logged(queue', state', cdr')
  BY DEF AppInv
<1>3. loopers' = 0 => \A l \in 1 .. Loopers : queue'[l] = <<>>
  BY DEF AppInv
<1>4. queue' \in Queues /\ cdr' \in [Call -> Nat]
  BY DEF AppInv
<1>5. /\ state' \in [Call -> {"new", "ringing", "calling", "up", "over"}]
      /\ crash' \in {"none", "no handler", "no screen", "timer cancelled"}
  BY DEF AppInv
<1>. QED BY <1>1, <1>2, <1>3, <1>4, <1>5 DEF AppInv

\* Each step of the application keeps its invariant.
LEMMA AppNext == AppInv /\ [App!Next]_appVars => AppInv'
<1>. SUFFICES ASSUME AppInv, [App!Next]_appVars PROVE AppInv'
  OBVIOUS
<1>1. /\ state \in [Call -> {"new", "ringing", "calling", "up", "over"}] /\ loopers \in 0 .. Loopers
      /\ queue \in Queues /\ Ordered(queue, state) /\ (crash = "none" => Logged(queue, state, cdr))
      /\ cdr \in [Call -> Nat] /\ Loopers \in Nat \ {0}
      /\ screens \in Seq(App!Screen) /\ mSess \in 0 .. Len(screens)
      /\ Listed(live, state) /\ (loopers = 0 => \A l \in 1 .. Loopers : queue[l] = <<>>)
      /\ crash \in {"none", "no handler", "no screen", "timer cancelled"}
  BY PartsAssumption DEF AppInv, App!AppSessionAssumption
<1>2. /\ DOMAIN screens = 1 .. Len(screens) /\ Len(screens) \in Nat
      /\ \A i \in 1 .. Len(screens) : screens[i] \in App!Screen
  BY ScreensKeep
\* What the number of a screen may be.
<1>0. /\ mSess # 0 => mSess \in 1 .. Len(screens)
      /\ \A k : k = Len(screens) + 1 => mSess \in 0 .. k
  <2>1. mSess \in 0 .. Len(screens) /\ Len(screens) \in Nat
    BY <1>1, <1>2
  <2>. QED BY <2>1
\* Only the screens change.
<1>3. ASSUME UNCHANGED <<state, live, loopers, queue, cdr, crash>>,
             screens' \in Seq(App!Screen), mSess' \in 0 .. Len(screens')
      PROVE  AppInv'
  <2>1. loopers' \in 0 .. Loopers /\ loopers' = loopers
    BY <1>1, <1>3
  <2>. QED BY <1>3, <2>1, SameKeeps
<1>4. ASSUME App!LooperStarts PROVE AppInv'
  <2>1. loopers < Loopers /\ loopers' = loopers + 1 /\ UNCHANGED <<state, live, queue, screens, mSess, cdr, crash>>
    BY <1>4 DEF App!LooperStarts
  <2>2. loopers \in 0 .. Loopers /\ Loopers \in Nat
    BY <1>1
  <2>3. loopers' \in 0 .. Loopers /\ loopers' # 0
    BY <2>1, <2>2
  <2>4. screens' \in Seq(App!Screen) /\ mSess' \in 0 .. Len(screens')
    BY <1>1, <2>1
  <2>. QED BY <2>1, <2>3, <2>4, SameKeeps
<1>5. ASSUME NEW c \in Call, App!Incoming(c) PROVE AppInv'
  <2>1. /\ App!Post("incoming", c) /\ App!Running /\ state[c] = "new"
        /\ state' = [state EXCEPT ![c] = "ringing"] /\ live' = Append(live, c)
        /\ UNCHANGED <<loopers, screens, mSess, cdr>>
    BY <1>5 DEF App!Incoming
  <2>2. Listed(live', state')
    BY <1>1, <2>1, ListKeeps
  <2>3. /\ state' \in [Call -> {"new", "ringing", "calling", "up", "over"}]
        /\ queue' \in Queues /\ (loopers = 0 => \A l \in 1 .. Loopers : queue'[l] = <<>>)
        /\ crash' \in {"none", "no handler", "no screen", "timer cancelled"}
        /\ Ordered(queue', state') /\ (crash' = "none" => Logged(queue', state', cdr))
    BY <2>1, HandleKeeps
  <2>. QED BY <1>1, <2>1, <2>2, <2>3 DEF AppInv
<1>6. ASSUME NEW c \in Call, App!Established(c) PROVE AppInv'
  <2>1. /\ App!Post("established", c) /\ App!Running /\ state[c] = "calling"
        /\ state' = [state EXCEPT ![c] = "up"] /\ UNCHANGED <<live, loopers, screens, mSess, cdr>>
    BY <1>6 DEF App!Established
  <2>2. Listed(live', state')
    <3>1. c \in App!ToSet(live)
      BY <1>1, <2>1 DEF Listed
    <3>. QED BY <1>1, <2>1, <3>1, ListKeeps
  <2>3. /\ state' \in [Call -> {"new", "ringing", "calling", "up", "over"}]
        /\ queue' \in Queues /\ (loopers = 0 => \A l \in 1 .. Loopers : queue'[l] = <<>>)
        /\ crash' \in {"none", "no handler", "no screen", "timer cancelled"}
        /\ Ordered(queue', state') /\ (crash' = "none" => Logged(queue', state', cdr))
    BY <2>1, HandleKeeps
  <2>. QED BY <1>1, <2>1, <2>2, <2>3 DEF AppInv
<1>7. ASSUME NEW c \in Call, App!Closed(c) PROVE AppInv'
  <2>1. /\ App!Post("closed", c) /\ App!Running /\ c \in App!ToSet(live) /\ App!Over(c)
        /\ state' = [state EXCEPT ![c] = "over"] /\ UNCHANGED <<loopers, screens, mSess, cdr>>
    BY <1>7 DEF App!Closed, App!Over
  <2>2. Listed(live', state') /\ state[c] # "over"
    <3>1. live' = App!RemoveFirst(live, c)
      BY <2>1 DEF App!Over
    <3>2. Listed(App!RemoveFirst(live, c), [state EXCEPT ![c] = "over"])
      BY <1>1, <2>1, ListKeeps
    <3>3. state[c] \in {"ringing", "calling", "up"}
      BY <1>1, <2>1, ListKeeps
    <3>. QED BY <2>1, <3>1, <3>2, <3>3
  <2>3. /\ state' \in [Call -> {"new", "ringing", "calling", "up", "over"}]
        /\ queue' \in Queues /\ (loopers = 0 => \A l \in 1 .. Loopers : queue'[l] = <<>>)
        /\ crash' \in {"none", "no handler", "no screen", "timer cancelled"}
        /\ Ordered(queue', state') /\ (crash' = "none" => Logged(queue', state', cdr))
    BY <2>1, <2>2, HandleKeeps
  <2>. QED BY <1>1, <2>1, <2>2, <2>3 DEF AppInv
<1>8. ASSUME App!Dial PROVE AppInv'
  <2>1. /\ App!StartScreen("out") /\ UNCHANGED <<state, live, loopers, queue, mSess, cdr, crash>>
    BY <1>8 DEF App!Dial
  <2>2. screens' \in Seq(App!Screen) /\ Len(screens') = Len(screens) + 1
    BY <2>1, ScreensKeep, Zenon
  <2>3. mSess' \in 0 .. Len(screens')
    BY <1>0, <2>1, <2>2
  <2>. QED BY <1>3, <2>1, <2>2, <2>3
<1>9. ASSUME App!DialHangup PROVE AppInv'
  BY <1>1, <1>9, HangupKeeps DEF App!DialHangup
<1>10. ASSUME NEW i, App!OnCreate(i) PROVE AppInv'
  <2>. DEFINE x == [screens[i] EXCEPT !.is = "shown"]
  <2>1. /\ i \in 1 .. Len(screens) /\ screens' = [screens EXCEPT ![i] = x] /\ mSess' = i
        /\ UNCHANGED <<state, live, loopers, queue, cdr, crash>>
    BY <1>2, <1>10 DEF App!OnCreate
  <2>2. x \in App!Screen
    BY <1>2, <2>1 DEF App!Screen
  <2>. HIDE DEF x
  <2>3. screens' \in Seq(App!Screen) /\ Len(screens') = Len(screens)
    BY <2>1, <2>2, ScreensKeep, Zenon
  <2>. QED BY <1>2, <1>3, <2>1, <2>3
<1>11. ASSUME NEW i, App!SurfaceDestroyed(i) PROVE AppInv'
  <2>. DEFINE x == [screens[i] EXCEPT !.surface = FALSE]
  <2>1. /\ i \in 1 .. Len(screens) /\ screens' = [screens EXCEPT ![i] = x]
        /\ UNCHANGED <<state, live, loopers, queue, mSess, cdr, crash>>
    BY <1>2, <1>11 DEF App!SurfaceDestroyed
  <2>2. x \in App!Screen
    BY <1>2, <2>1 DEF App!Screen
  <2>. HIDE DEF x
  <2>3. screens' \in Seq(App!Screen) /\ Len(screens') = Len(screens)
    BY <2>1, <2>2, ScreensKeep, Zenon
  <2>. QED BY <1>1, <1>2, <1>3, <2>1, <2>3
<1>12. ASSUME NEW i, App!SurfaceCreated(i) PROVE AppInv'
  <2>. DEFINE x == [screens[i] EXCEPT !.surface = TRUE]
  <2>1. /\ i \in 1 .. Len(screens) /\ screens' = [screens EXCEPT ![i] = x]
        /\ UNCHANGED <<loopers, queue, mSess, cdr, crash>>
    BY <1>2, <1>12 DEF App!SurfaceCreated
  <2>2. x \in App!Screen
    BY <1>2, <2>1 DEF App!Screen
  <2>. HIDE DEF x
  <2>3. screens' \in Seq(App!Screen) /\ Len(screens') = Len(screens)
    BY <2>1, <2>2, ScreensKeep, Zenon
  <2>4. CASE UNCHANGED <<state, live>>
    BY <1>1, <1>2, <1>3, <2>1, <2>3, <2>4
  <2>5. ASSUME NEW c \in Call, state[c] = "new", state' = [state EXCEPT ![c] = "calling"],
               live' = Append(live, c)
        PROVE  AppInv'
    <3>1. Listed(live', state')
      BY <1>1, <2>5, ListKeeps
    <3>2. Changed(state, state', "incoming", c)
      BY <1>1, <2>5 DEF Changed
    <3>3. \A d \in Call : state'[d] = "over" <=> state[d] = "over"
      BY <1>1, <2>5
    <3>. DEFINE s == state' q == queue
    <3>4. Ordered(q, state) /\ (crash = "none" => Logged(q, state, cdr)) /\ q \in Queues
          /\ \A d \in Call : s[d] = "over" <=> state[d] = "over"
      BY <1>1, <3>3
    <3>. HIDE DEF s, q
    <3>5. \A l \in 1 .. Loopers : \A j \in 1 .. Len(q[l]) : q[l][j].call \in Call
      <4>1. \A l \in 1 .. Loopers : q[l] \in Seq(Msg)
        BY <3>4 DEF Queues
      <4>2. \A l \in 1 .. Loopers : \A j \in 1 .. Len(q[l]) : q[l][j] \in Msg
        BY <4>1, ElementOfSeq
      <4>. QED BY <4>2 DEF Msg
    <3>6. Ordered(q, s)
      BY <3>4, <3>5 DEF Ordered
    <3>7. crash = "none" => Logged(q, s, cdr)
      BY <3>4 DEF Logged
    <3>8. Ordered(queue', state') /\ (crash' = "none" => Logged(queue', state', cdr'))
      <4>1. Ordered(queue, state') /\ (crash = "none" => Logged(queue, state', cdr))
        BY <3>6, <3>7 DEF s, q
      <4>. QED BY <2>1, <4>1
    <3>. QED BY <1>1, <2>1, <2>3, <2>5, <3>1, <3>8 DEF AppInv
  <2>. QED BY <1>12, <2>4, <2>5 DEF App!SurfaceCreated
<1>13. ASSUME NEW i, App!UserHangup(i) PROVE AppInv'
  <2>1. /\ App!Running /\ i \in 1 .. Len(screens) /\ App!JniHangup /\ App!Finish(i)
        /\ UNCHANGED <<loopers, mSess, cdr>>
    BY <1>2, <1>13 DEF App!UserHangup
  <2>2. screens' \in Seq(App!Screen) /\ Len(screens') = Len(screens)
    BY <2>1, ScreensKeep
  <2>. QED BY <1>1, <2>1, <2>2, HangupKeeps
<1>14. ASSUME NEW i, App!UserAnswer(i) PROVE AppInv'
  <2>. DEFINE c == App!Last(live)
  <2>1. /\ App!Post("established", c) /\ App!Running /\ live # <<>> /\ state[c] = "ringing"
        /\ state' = [state EXCEPT ![c] = "up"] /\ UNCHANGED <<live, loopers, screens, mSess, cdr>>
    BY <1>14 DEF App!UserAnswer
  <2>2. c \in App!ToSet(live) /\ c \in Call
    BY <1>1, <2>1, ListKeeps
  <2>. HIDE DEF c
  <2>3. Listed(live', state')
    BY <1>1, <2>1, <2>2, ListKeeps
  <2>4. /\ state' \in [Call -> {"new", "ringing", "calling", "up", "over"}]
        /\ queue' \in Queues /\ (loopers = 0 => \A l \in 1 .. Loopers : queue'[l] = <<>>)
        /\ crash' \in {"none", "no handler", "no screen", "timer cancelled"}
        /\ Ordered(queue', state') /\ (crash' = "none" => Logged(queue', state', cdr))
    BY <2>1, <2>2, HandleKeeps
  <2>. QED BY <1>1, <2>1, <2>3, <2>4 DEF AppInv
<1>15. ASSUME NEW l \in 1 .. Loopers,
              App!HandleIncoming(l) \/ App!HandleEstablished(l) \/ App!HandleClosed(l)
       PROVE  AppInv'
  <2>. DEFINE m == Head(queue[l])
              after == [queue EXCEPT ![l] = Tail(@)]
  <2>1. queue[l] # <<>> /\ App!Running /\ crash = "none" /\ Logged(queue, state, cdr) /\ loopers # 0
    BY <1>1, <1>15 DEF App!HandleIncoming, App!HandleEstablished, App!HandleClosed, App!Take, App!Running
  <2>2. Taken(queue, after, l)
    BY <1>1, <2>1 DEF Taken
  <2>3. after = [queue EXCEPT ![l] = Tail(@)]
    OBVIOUS
  <2>. HIDE DEF after
  <2>4. /\ after \in Queues /\ Ordered(after, state) /\ m \in Msg
        /\ m.ev # "closed" => Logged(after, state, cdr)
        /\ m.ev = "closed" => Logged(after, state, [cdr EXCEPT ![m.call] = @ + 1])
    BY <1>1, <2>1, <2>2, TakeKeeps
  <2>5. m.call \in Call
    BY <2>4 DEF Msg
  <2>. HIDE DEF m
  <2>6. ASSUME queue' = after, UNCHANGED <<state, live, loopers, cdr>>, m.ev # "closed",
               crash' \in {"none", "no screen", "timer cancelled"},
               screens' \in Seq(App!Screen), mSess' \in 0 .. Len(screens')
        PROVE  AppInv'
    <3>1. Listed(live', state') /\ Ordered(queue', state') /\ Logged(queue', state', cdr')
      BY <1>1, <2>4, <2>6
    <3>. QED BY <1>1, <2>1, <2>4, <2>6, <3>1 DEF AppInv
  <2>7. ASSUME App!HandleIncoming(l) PROVE AppInv'
    <3>1. /\ m.ev = "incoming" /\ App!StartScreen("in") /\ queue' = after
          /\ UNCHANGED <<state, live, loopers, mSess, cdr, crash>>
      BY <2>3, <2>7 DEF App!HandleIncoming, m
    <3>2. screens' \in Seq(App!Screen) /\ Len(screens') = Len(screens) + 1
      BY <3>1, ScreensKeep, Zenon
    <3>3. mSess' \in 0 .. Len(screens')
      BY <1>0, <3>1, <3>2
    <3>. QED BY <2>1, <2>6, <3>1, <3>2, <3>3
  <2>8. ASSUME App!HandleEstablished(l) PROVE AppInv'
    <3>1. m.ev = "established" /\ queue' = after /\ UNCHANGED <<state, live, loopers, mSess, cdr>>
      BY <2>3, <2>8 DEF App!HandleEstablished, m
    <3>2. CASE crash' \in {"no screen", "timer cancelled"} /\ UNCHANGED screens
      BY <1>1, <2>6, <3>1, <3>2
    <3>3. CASE mSess # 0 /\ screens' = [screens EXCEPT ![mSess].tasks = @ + 1] /\ UNCHANGED crash
      <4>. DEFINE x == [screens[mSess] EXCEPT !.tasks = @ + 1]
      <4>1. mSess \in 1 .. Len(screens)
        BY <1>0, <3>3
      <4>2. x \in App!Screen /\ screens' = [screens EXCEPT ![mSess] = x]
        BY <1>2, <3>3, <4>1 DEF App!Screen
      <4>. HIDE DEF x
      <4>3. screens' \in Seq(App!Screen) /\ Len(screens') = Len(screens)
        BY <4>1, <4>2, ScreensKeep, Zenon
      <4>4. mSess' \in 0 .. Len(screens')
        BY <1>1, <3>1, <4>3
      <4>. QED BY <2>1, <2>6, <3>1, <3>3, <4>3, <4>4
    <3>. QED BY <2>8, <3>2, <3>3 DEF App!HandleEstablished
  <2>9. ASSUME App!HandleClosed(l) PROVE AppInv'
    <3>1. m.ev = "closed" /\ cdr' = [cdr EXCEPT ![m.call] = @ + 1] /\ UNCHANGED <<loopers, mSess>>
      BY <2>9 DEF App!HandleClosed, m
    <3>2. Logged(after, state, cdr') /\ cdr' \in [Call -> Nat]
      <4>1. Logged(after, state, cdr')
        BY <2>4, <3>1
      <4>2. cdr \in [Call -> Nat]
        BY <1>1
      <4>3. cdr' \in [Call -> Nat]
        BY <2>5, <3>1, <4>2
      <4>. QED BY <4>1, <4>3
    <3>3. CASE /\ mSess = 0 /\ crash' = "no screen" /\ queue' = after /\ UNCHANGED <<state, live, screens>>
      <4>1. Listed(live', state') /\ Ordered(queue', state')
        BY <1>1, <2>4, <3>3
      <4>. QED BY <1>1, <2>1, <2>4, <3>1, <3>2, <3>3, <4>1 DEF AppInv
    <3>4. ASSUME mSess # 0, App!Finish(mSess)
          PROVE  screens' \in Seq(App!Screen) /\ mSess' \in 0 .. Len(screens')
      <4>1. mSess \in 1 .. Len(screens)
        BY <1>0, <3>4
      <4>2. screens' \in Seq(App!Screen) /\ Len(screens') = Len(screens)
        BY <3>4, <4>1, ScreensKeep
      <4>. QED BY <1>1, <3>1, <4>2
    <3>5. CASE /\ mSess # 0 /\ App!Finish(mSess) /\ live = <<>> /\ queue' = after
               /\ UNCHANGED <<state, live, crash>>
      <4>1. Listed(live', state') /\ Ordered(queue', state') /\ Logged(queue', state', cdr')
        BY <1>1, <2>4, <3>2, <3>5
      <4>. QED BY <1>1, <2>1, <2>4, <3>1, <3>2, <3>4, <3>5, <4>1 DEF AppInv
    <3>6. CASE /\ mSess # 0 /\ App!Finish(mSess) /\ live # <<>> /\ App!Over(App!Last(live))
               /\ queue' = [after EXCEPT ![loopers] = Append(@, [ev |-> "closed", call |-> App!Last(live)])]
               /\ UNCHANGED crash
      <4>. DEFINE c == App!Last(live)
      <4>1. c \in App!ToSet(live) /\ c \in Call /\ state[c] \in {"ringing", "calling", "up"}
        BY <1>1, <3>6, ListKeeps
      <4>2. /\ state' = [state EXCEPT ![c] = "over"] /\ live' = App!RemoveFirst(live, c)
            /\ queue' = [after EXCEPT ![loopers] = Append(@, Message("closed", c))]
        BY <3>6 DEF App!Over, Message
      <4>. HIDE DEF c
      <4>3. Listed(App!RemoveFirst(live, c), [state EXCEPT ![c] = "over"])
        BY <1>1, <4>1, ListKeeps
      <4>4. Listed(live', state')
        BY <4>2, <4>3
      <4>5. Posted(after, queue', loopers, "closed", c)
        BY <1>1, <2>1, <2>4, <4>1, <4>2 DEF Posted
      <4>6. Changed(state, state', "closed", c)
        BY <1>1, <4>1, <4>2 DEF Changed
      <4>7. queue' \in Queues /\ Ordered(queue', state') /\ Logged(queue', state', cdr')
        <5>. DEFINE t == state'
                    r == queue'
                    d == cdr'
        <5>1. Posted(after, r, loopers, "closed", c) /\ Changed(state, t, "closed", c) /\ Logged(after, state, d)
          BY <3>2, <4>5, <4>6
        <5>. HIDE DEF t, r, d
        <5>2. r \in Queues /\ Ordered(r, t) /\ Logged(r, t, d)
          BY <2>4, <5>1, PostKeeps
        <5>. QED BY <5>2 DEF t, r, d
      <4>8. state' \in [Call -> {"new", "ringing", "calling", "up", "over"}]
        BY <1>1, <4>1, <4>2
      <4>. QED BY <1>1, <2>1, <3>1, <3>2, <3>4, <3>6, <4>4, <4>7, <4>8 DEF AppInv
    <3>. QED BY <2>3, <2>9, <3>3, <3>5, <3>6 DEF App!HandleClosed
  <2>. QED BY <1>15, <2>7, <2>8, <2>9
<1>. QED
  BY <1>1, <1>3, <1>4, <1>5, <1>6, <1>7, <1>8, <1>9, <1>10, <1>11, <1>12, <1>13, <1>14, <1>15
     DEF App!Next, appVars

-----------------------------------------------------------------------------
(* Proof that a tone is heard as often as asked and not used after it was released. *)

\* The rounds that a tone has, and those that it still has to go.
Rounds(t) == IF t > 0 THEN t ELSE 1
ToGo(r) == IF r = 0 THEN 1 ELSE r

\* What of the tone was heard: the rounds behind and the place in this one.
Counted ==
    /\ ~eof /\ times = 0 => repeat = 0
    /\ ~eof /\ times > 0 => repeat \in 1 .. times
    /\ ~eof /\ times >= 0 => heard = length * (Rounds(times) - ToGo(repeat)) + pos
    /\ eof /\ times >= 0 => heard = length * Rounds(times)
    /\ times < 0 => repeat = times

\* The device thread is in the handler with the lock, and only while there is a buffer.
ToneInv ==
    /\ Tone!TypeOK
    /\ phase = "none" => pos = 0 /\ heard = 0 /\ left = 0 /\ ~eof
    /\ inside => running /\ lock = "device"
    /\ ~inside => lock = "none"
    /\ running => phase \in {"playing", "closing"}
    /\ phase # "playing" => tmr = "off"
    /\ phase = "playing" => Counted

LEMMA ToneClaims == ToneInv => Tone!TypeOK /\ Tone!HeardAsAsked /\ Tone!NothingAfterFree
BY DEF ToneInv, Counted, Rounds, Tone!HeardAsAsked, Tone!NothingAfterFree

LEMMA ToneInit == Tone!Init => ToneInv
<1>. SUFFICES ASSUME Tone!Init PROVE ToneInv
  OBVIOUS
<1>1. 0 \in 0 .. Frame /\ 0 \in 0 .. MaxHeard /\ 0 \in 0 .. 0 /\ 0 \in Nat
  BY PartsAssumption DEF Tone!PlayerAssumption
<1>2. Tone!TypeOK
  BY <1>1 DEF Tone!Init, Tone!TypeOK
<1>. QED BY <1>2 DEF Tone!Init, ToneInv

\* A round of the loop of write_handler counts what it copies.
LEMMA CopyCounts ==
  ASSUME ToneInv, Tone!Copy
  PROVE  /\ pos' \in 0 .. length /\ left' \in 0 .. Frame /\ heard' \in 0 .. MaxHeard
         /\ repeat' \in Repeats \cup Nat /\ eof' \in BOOLEAN
         /\ phase = "playing" => Counted'
<1>. DEFINE count == IF length - pos > left THEN left ELSE length - pos
            more == IF repeat > 0 THEN repeat - 1 ELSE repeat
<1>1. /\ ~eof /\ left > 0 /\ (heard + count <= MaxHeard \/ repeat < 0)
      /\ heard' = IF repeat < 0 THEN heard ELSE heard + count
      /\ left' = left - count /\ UNCHANGED <<phase, length, times>>
      /\ \/ left = count /\ pos' = pos + count /\ UNCHANGED <<repeat, eof>>
         \/ left # count /\ more = 0 /\ pos' = pos + count /\ repeat' = 0 /\ eof' = TRUE
         \/ left # count /\ more # 0 /\ pos' = 0 /\ repeat' = more /\ UNCHANGED eof
  BY DEF Tone!Copy
<1>2. /\ length \in Nat /\ times \in Int /\ pos \in 0 .. length /\ repeat \in Int
      /\ repeat \in Repeats \cup Nat /\ heard \in 0 .. MaxHeard /\ left \in 0 .. Frame
      /\ Frame \in Nat /\ MaxHeard \in Nat /\ eof \in BOOLEAN
  BY PartsAssumption DEF ToneInv, Tone!TypeOK, Tone!PlayerAssumption
<1>3. count \in Nat /\ count <= left /\ pos + count \in 0 .. length /\ (left # count => pos + count = length)
  BY <1>2
<1>4. more \in Int /\ (repeat > 0 => more = repeat - 1) /\ (repeat <= 0 => more = repeat)
  BY <1>2
<1>. HIDE DEF count, more
<1>5. pos' \in 0 .. length /\ left' \in 0 .. Frame /\ heard' \in 0 .. MaxHeard
  BY <1>1, <1>2, <1>3
<1>6. repeat' \in Repeats \cup Nat /\ eof' \in BOOLEAN
  <2>1. repeat > 0 => repeat - 1 \in Nat
    BY <1>2
  <2>2. repeat' \in {repeat, 0, more} /\ (more = repeat \/ (repeat > 0 /\ more = repeat - 1))
    BY <1>1, <1>2, <1>4
  <2>3. eof' = TRUE \/ eof' = eof
    BY <1>1
  <2>4. repeat \in Repeats \cup Nat /\ eof \in BOOLEAN
    BY <1>2
  <2>5. 0 \in Nat
    OBVIOUS
  <2>. QED BY <2>1, <2>2, <2>3, <2>4, <2>5, Zenon
<1>7. ASSUME phase = "playing" PROVE Counted'
  <2>1. /\ times = 0 => repeat = 0
        /\ times > 0 => repeat \in 1 .. times
        /\ times >= 0 => heard = length * (Rounds(times) - ToGo(repeat)) + pos
        /\ times < 0 => repeat = times
    BY <1>1, <1>7 DEF ToneInv, Counted
  <2>2. CASE times < 0
    <3>1. repeat' = times /\ times' = times
      BY <1>1, <1>2, <1>4, <2>1, <2>2
    <3>. QED BY <1>2, <2>2, <3>1 DEF Counted
  <2>3. CASE times = 0
    <3>1. repeat = 0 /\ heard = pos /\ heard' = pos + count /\ more = 0
      BY <1>1, <1>2, <1>3, <1>4, <2>1, <2>3 DEF Rounds, ToGo
    <3>2. repeat' = 0 /\ times' = 0 /\ length' = length /\ pos' = pos + count
      BY <1>1, <2>3, <3>1
    <3>3. eof' => pos + count = length
      BY <1>1, <1>3
    <3>. QED BY <1>2, <1>3, <3>1, <3>2, <3>3 DEF Counted, Rounds, ToGo
  <2>4. CASE times > 0
    <3>1. repeat \in 1 .. times /\ heard = length * (times - repeat) + pos /\ heard' = heard + count
      BY <1>1, <1>2, <2>1, <2>4 DEF Rounds, ToGo
    <3>2. times' = times /\ length' = length
      BY <1>1
    <3>3. CASE left = count
      <4>1. repeat' = repeat /\ pos' = pos + count /\ ~eof'
        BY <1>1, <3>3
      <4>2. heard' = length * (times - repeat) + pos'
        BY <1>2, <1>3, <3>1, <4>1
      <4>. QED BY <1>2, <2>4, <3>1, <3>2, <4>1, <4>2 DEF Counted, Rounds, ToGo
    <3>4. CASE left # count
      <4>1. heard' = length * (times - repeat) + length
        BY <1>2, <1>3, <3>1, <3>4
      <4>2. heard' = length * (times - (repeat - 1))
        BY <1>2, <3>1, <4>1
      <4>3. more = repeat - 1
        BY <1>2, <1>4, <3>1
      <4>4. CASE more = 0
        <5>1. eof' /\ heard' = length * times
          BY <1>1, <1>2, <3>1, <3>4, <4>2, <4>3, <4>4
        <5>. QED BY <1>2, <2>4, <3>2, <5>1 DEF Counted, Rounds
      <4>5. CASE more # 0
        <5>1. ~eof' /\ repeat' = repeat - 1 /\ pos' = 0 /\ repeat - 1 \in 1 .. times
          BY <1>1, <1>2, <3>1, <3>4, <4>3, <4>5
        <5>2. heard' = length * (times - repeat') + pos'
          BY <1>2, <3>1, <4>2, <5>1
        <5>. QED BY <1>2, <2>4, <3>2, <5>1, <5>2 DEF Counted, Rounds, ToGo
      <4>. QED BY <4>4, <4>5
    <3>. QED BY <3>3, <3>4
  <2>. QED BY <1>2, <2>2, <2>3, <2>4
<1>. QED BY <1>5, <1>6, <1>7

LEMMA ToneNext == ToneInv /\ [Tone!Next]_toneVars => ToneInv'
<1>. SUFFICES ASSUME ToneInv, [Tone!Next]_toneVars PROVE ToneInv'
  OBVIOUS
<1>. USE DEF ToneInv, Tone!TypeOK, Tone!sound
<1>1. ASSUME NEW n \in Lengths, NEW r \in Repeats, Tone!Play(n, r) PROVE ToneInv'
  <2>1. n \in Nat \ {0} /\ r \in Int
    BY PartsAssumption DEF Tone!PlayerAssumption
  <2>2. /\ phase' = "playing" /\ running' = TRUE /\ tmr' = "polling" /\ length' = n /\ times' = r /\ repeat' = r
        /\ UNCHANGED <<pos, eof, lock, inside, left, heard>> /\ pos = 0 /\ heard = 0 /\ ~eof
    BY <1>1 DEF Tone!Play
  <2>3. Rounds(r) - ToGo(r) = 0 \/ r < 0
    BY <2>1 DEF Rounds, ToGo
  <2>4. n * 0 = 0
    BY <2>1
  <2>5. Counted'
    BY <2>1, <2>2, <2>3, <2>4 DEF Counted
  <2>6. pos' \in 0 .. length' /\ repeat' \in Repeats \cup Nat
    BY <2>1, <2>2
  <2>. QED BY <2>2, <2>5, <2>6
<1>2. ASSUME Tone!Enter PROVE ToneInv'
  <2>1. Frame \in 0 .. Frame
    BY PartsAssumption DEF Tone!PlayerAssumption
  <2>. QED BY <1>2, <2>1 DEF Tone!Enter, Counted
<1>3. ASSUME Tone!Copy PROVE ToneInv'
  BY <1>3, CopyCounts DEF Tone!Copy
<1>4. ASSUME Tone!Leave PROVE ToneInv'
  BY <1>4 DEF Tone!Leave, Counted
<1>5. ASSUME Tone!Polling PROVE ToneInv'
  BY <1>5 DEF Tone!Polling, Counted
<1>6. ASSUME Tone!Release PROVE ToneInv'
  BY <1>6 DEF Tone!Release
<1>7. ASSUME Tone!DeviceEnds PROVE ToneInv'
  BY <1>7 DEF Tone!DeviceEnds
<1>8. ASSUME Tone!Free PROVE ToneInv'
  BY <1>8 DEF Tone!Free
<1>9. ASSUME UNCHANGED toneVars PROVE ToneInv'
  BY <1>9 DEF toneVars, Counted
<1>. QED
  BY <1>1, <1>2, <1>3, <1>4, <1>5, <1>6, <1>7, <1>8, <1>9 DEF Tone!Next, Tone!TmrStop, Tone!Done, Tone!vars, toneVars

-----------------------------------------------------------------------------
(* The control plane as a whole. *)

\* A step of the control plane is a step of one component.
LEMMA Components ==
  /\ AllInit => Init /\ Line!Init /\ App!Init /\ Tone!Init
  /\ [AllNext]_all =>
        /\ [Next]_vars /\ [Line!Next]_commandsVars
        /\ [App!Next]_appVars /\ [Tone!Next]_toneVars
<1>1. AllInit => Init /\ Line!Init /\ App!Init /\ Tone!Init
  BY DEF AllInit
<1>2. ASSUME UNCHANGED all
      PROVE  UNCHANGED vars /\ UNCHANGED commandsVars /\ UNCHANGED appVars /\ UNCHANGED toneVars
  BY <1>2 DEF all
<1>3. ASSUME Only("agents"), Next
      PROVE  UNCHANGED commandsVars /\ UNCHANGED appVars /\ UNCHANGED toneVars
  BY <1>3 DEF Only
<1>4. ASSUME Only("commands"), Line!Next
      PROVE  UNCHANGED vars /\ UNCHANGED appVars /\ UNCHANGED toneVars
  BY <1>4 DEF Only
<1>5. ASSUME Only("app"), App!Next
      PROVE  UNCHANGED vars /\ UNCHANGED commandsVars /\ UNCHANGED toneVars
  BY <1>5 DEF Only
<1>6. ASSUME Only("player"), Tone!Next
      PROVE  UNCHANGED vars /\ UNCHANGED commandsVars /\ UNCHANGED appVars
  BY <1>6 DEF Only
<1>. QED BY <1>1, <1>2, <1>3, <1>4, <1>5, <1>6 DEF AllNext

\* For any commands, keys and digits, in whatever order blocks are registered and taken
\* away and keys and lines come in: a key finds the only command that has it, a line the only
\* one that it names, and what the tabulator completes finds its command.
THEOREM FindsTheCommand == AllSpec => []FindsOne
<1>1. CommandsInv => FindsOne
  BY CompletedIsFound DEF CommandsInv, FindsOne
<1>. QED BY <1>1, Components, CommandsInit, CommandsNext, PTL DEF AllSpec

\* For any calls, screens and event threads, however the hangups of the user, the peer and
\* the event thread cross: a call that is over is in the call log once as soon as no event
\* says that it ends, and its end is the last that is told of it.
THEOREM LogsOnce == AllSpec => []LoggedOnce
<1>1. AppInv => LoggedOnce
  BY AppClaims DEF LoggedOnce
<1>. QED BY <1>1, Components, AppInit, AppNext, PTL DEF AllSpec

\* For any tones, repeats and buffers: a tone that came to its end was heard as often as
\* asked, and neither the device thread nor a timer comes to a player that is gone.
THEOREM SoundsAsAsked == AllSpec => []Tone!HeardAsAsked /\ []Tone!NothingAfterFree
<1>1. ToneInv => Tone!HeardAsAsked /\ Tone!NothingAfterFree
  BY ToneClaims
<1>. QED BY <1>1, Components, ToneInit, ToneNext, PTL DEF AllSpec

\* The types of the User-Agents, the command line, the application and the player.
THEOREM ControlTypes == AllSpec => []AllTypesOK
<1>1. AgentsInv /\ CurrentInv /\ CommandsInv /\ AppInv /\ ToneInv => AllTypesOK
  <2>1. CommandsInv => Line!TypeOK
    BY DEF CommandsInv, CommandOrNone, Line!TypeOK
  <2>. QED BY <2>1, AgentTypes, AppClaims, ToneClaims DEF AllTypesOK
<1>2. AgentsInv /\ [Next]_vars => AgentsInv'
  BY AgentsNext
<1>. QED
  BY <1>1, <1>2, Components, AgentsInit, CurrentKeeps, CommandsInit, CommandsNext, AppInit, AppNext,
     ToneInit, ToneNext, PTL DEF AllSpec
=============================================================================
