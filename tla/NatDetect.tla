-------------------------------- MODULE NatDetect --------------------------------
(***************************************************************************)
(* Module natbd: what the NAT in front of us does is tested, for UDP and   *)
(* for TCP, at the start and at an interval: hairpinning, mapping,         *)
(* filtering and a generic ALG, each by a test of its own that reports     *)
(* once; the lifetime of bindings by one that reports again and again.     *)
(* DNS, the tests and the network are external.                            *)
(***************************************************************************)
EXTENDS Naturals

CONSTANTS
    Proto,     \* of "udp" and "tcp"
    Address,   \* those whose server is configured by its address
    MaxProbes, \* reports of the lifetime that are counted, for model checking
    Faults     \* with "dns" the look-up may fail, with "start" a test may not start

\* What is assumed of the constants; the module that gives them values asserts it.
NatDetectAssumption ==
    /\ Address \subseteq Proto /\ Proto \subseteq {"udp", "tcp"} /\ MaxProbes \in Nat
    /\ Faults \subseteq {"dns", "start"}

VARIABLES
    natbd,     \* natbdv[i] is there
    timer,     \* natbd->tmr: "init", "interval" or "none"
    dns,       \* natbd->dns
    srv,       \* natbd->stun_srv is set
    test,      \* natbd->nh, nm, nf, ga: "none", "running" or "stuck" (allocated, not started)
    result,    \* natbd->res_hp, res_nm, res_nf, status_ga
    lifetime,  \* natbd->nl: "none", "running" or "stuck"
    probes     \* natbd->n_nl

vars == <<natbd, timer, dns, srv, test, result, lifetime, probes>>

Test == {"hairpinning", "mapping", "filtering", "genalg"}
Found == {"unknown", "yes", "no"}
Tests(p) == IF p = "udp" THEN Test ELSE Test \ {"filtering"}

TypeOK ==
    /\ {natbd[p] : p \in Proto} \cup {dns[p] : p \in Proto} \cup {srv[p] : p \in Proto} \subseteq BOOLEAN
    /\ timer \in [Proto -> {"init", "interval", "none"}]
    /\ test \in [Proto -> [Test -> {"none", "running", "stuck"}]]
    /\ result \in [Proto -> [Test -> Found]]
    /\ lifetime \in [Proto -> {"none", "running", "stuck"}] /\ probes \in [Proto -> 0 .. MaxProbes]

\* natbd_alloc for each protocol.
Init ==
    /\ natbd = [p \in Proto |-> TRUE] /\ timer = [p \in Proto |-> "init"]
    /\ dns = [p \in Proto |-> FALSE] /\ srv = [p \in Proto |-> p \in Address]
    /\ test = [p \in Proto |-> [t \in Test |-> "none"]]
    /\ result = [p \in Proto |-> [t \in Test |-> "unknown"]]
    /\ lifetime = [p \in Proto |-> "none"] /\ probes = [p \in Proto |-> 0]

-----------------------------------------------------------------------------
\* natbd_start: each test that does not run is made and started; one that cannot be started
\* stays as it is.
StartTests(p) ==
    \E fails \in SUBSET Tests(p) :
        /\ (fails # {} => "start" \in Faults)
        /\ test' = [test EXCEPT ![p] = [t \in Test |->
                      CASE t \notin Tests(p) \/ test[p][t] # "none" -> test[p][t]
                        [] t \in fails -> "stuck"
                        [] OTHER -> "running"]]

\* dns_handler: the tests start, with that of the lifetime for UDP, and the interval begins.
\* If the look-up has failed nothing does.
DnsHandler(p, ok) ==
    /\ dns' = [dns EXCEPT ![p] = FALSE]
    /\ IF ~ok THEN UNCHANGED <<timer, srv, test, lifetime>>
       ELSE /\ srv' = [srv EXCEPT ![p] = TRUE]
            /\ StartTests(p)
            /\ \E l \in {"running", "stuck"} :
                  /\ (l = "stuck" => "start" \in Faults)
                  /\ lifetime' = [lifetime EXCEPT ![p] = IF p = "udp" THEN l ELSE @]
            /\ timer' = [timer EXCEPT ![p] = "interval"]

\* timeout_init: the server is known, or looked up.
TimeoutInit(p) ==
    /\ timer[p] = "init"
    /\ IF srv[p]
       THEN /\ DnsHandler(p, TRUE)
       ELSE /\ dns' = [dns EXCEPT ![p] = TRUE] /\ timer' = [timer EXCEPT ![p] = "none"]
            /\ UNCHANGED <<srv, test, lifetime>>
    /\ UNCHANGED <<natbd, result, probes>>

\* The answer of the DNS server.
Resolved(p, ok) ==
    /\ dns[p] /\ (~ok => "dns" \in Faults)
    /\ DnsHandler(p, ok) /\ UNCHANGED <<natbd, result, probes>>

\* timeout.
Timeout(p) ==
    /\ timer[p] = "interval" /\ StartTests(p)
    /\ UNCHANGED <<natbd, timer, dns, srv, result, lifetime, probes>>

\* A test has reported: it is released, and its result is that it has found. r is the result,
\* or "unknown" for an error.
Reported(p, t, r, kept) ==
    /\ natbd[p] /\ test[p][t] = "running"
    /\ result' = [result EXCEPT ![p][t] = IF r = "unknown" /\ kept THEN @ ELSE r]
    /\ UNCHANGED <<natbd, timer, dns, srv, lifetime, probes>>
Release(p, t) == test' = [test EXCEPT ![p][t] = "none"]

\* nat_hairpinning_handler: an error makes the result unknown.
HairpinningHandler(p, r) == Reported(p, "hairpinning", r, FALSE) /\ Release(p, "hairpinning")

\* nat_mapping_handler: an error leaves the last result.
MappingHandler(p, r) == Reported(p, "mapping", r, TRUE) /\ Release(p, "mapping")

\* nat_filtering_handler.
FilteringHandler(p, r) == Reported(p, "filtering", r, TRUE) /\ Release(p, "filtering")

\* nat_genalg_handler, also for a refusal of the server.
GenalgHandler(p, r) == Reported(p, "genalg", r, TRUE) /\ Release(p, "genalg")

\* nat_lifetime_handler: the test goes on.
LifetimeHandler(p) ==
    /\ lifetime[p] = "running" /\ probes[p] < MaxProbes
    /\ probes' = [probes EXCEPT ![p] = @ + 1]
    /\ UNCHANGED <<natbd, timer, dns, srv, test, result, lifetime>>

\* destructor: the timer, the look-up and the tests end.
Destructor ==
    /\ natbd' = [p \in Proto |-> FALSE] /\ timer' = [p \in Proto |-> "none"]
    /\ dns' = [p \in Proto |-> FALSE]
    /\ test' = [p \in Proto |-> [t \in Test |-> "none"]]
    /\ lifetime' = [p \in Proto |-> "none"]

\* module_close.
ModuleClose ==
    /\ \E p \in Proto : natbd[p]
    /\ Destructor /\ UNCHANGED <<srv, result, probes>>

\* A test ends with a result, or with an error when its packets are not answered.
Ends(p) ==
    \E r \in Found :
        HairpinningHandler(p, r) \/ MappingHandler(p, r) \/ FilteringHandler(p, r) \/ GenalgHandler(p, r)

Next ==
    \/ ModuleClose
    \/ \E p \in Proto :
          \/ TimeoutInit(p) \/ Timeout(p) \/ Ends(p) \/ LifetimeHandler(p)
          \/ \E ok \in BOOLEAN : Resolved(p, ok)

Spec == Init /\ [][Next]_vars

-----------------------------------------------------------------------------
\* At every interval (natbd_interval) every test is made, or still runs: none is skipped for
\* ever because an earlier one of its kind has failed (natbd_start makes only those that are
\* not there).
TestedAgain ==
    [][\A p \in Proto : Timeout(p) => \A t \in Tests(p) : test'[p][t] = "running"]_vars

\* Until the module is closed the tests go on: there is a timer, or a look-up that will start
\* it.
GoesOn == \A p \in Proto : natbd[p] => timer[p] # "none" \/ dns[p]
==================================================================================
