----------------------------- MODULE LinkProbe -----------------------------
(***************************************************************************)
(* One dual-stack probe of a route (dual_stack.rs, probe_transport.rs):    *)
(* for each address family several targets at the same time; a target is   *)
(* resolved, on the link itself by several name servers at the same time,  *)
(* and tried at several of its addresses at the same time.  The report is  *)
(* published after every family.                                           *)
(***************************************************************************)
EXTENDS Integers, FiniteSets

CONSTANTS
    Targets,        \* URLs of a family
    Servers,        \* name servers of the link
    Addresses,      \* addresses a target may resolve to (at most four are used)
    Direct          \* probe of the physical link rather than the system's route

VARIABLES
    adapter,        \* the physical adapter was identified
    configured,     \* family -> it has usable addresses (Direct) or may have them
    report,         \* family -> status published
    target,         \* family -> target -> stage of its request
    dns,            \* family -> target -> name servers that have not answered
    error,          \* family -> target -> kind of its latest failure
    address         \* family -> target -> address -> attempt

vars == <<adapter, configured, report, target, dns, error, address>>

Families == {"ipv4", "ipv6"}
Failures == {"timeout", "dns_error", "connection_error", "tls_error", "response_error",
             "unavailable"}
Status == {"checking", "reachable", "not_configured", "unknown"} \cup Failures
Attempt == {"pending", "ok", "failed"}

TypeOK ==
    /\ adapter \in BOOLEAN /\ configured \in [Families -> BOOLEAN]
    /\ report \in [Families -> Status]
    /\ target \in [Families -> [Targets -> {"resolving", "connecting", "ok", "failed", "dropped"}]]
    /\ dns \in [Families -> [Targets -> SUBSET Servers]]
    /\ error \in [Families -> [Targets -> Failures \cup {"none"}]]
    /\ address \in [Families -> [Targets -> [Addresses -> Attempt]]]

Init ==
    /\ adapter \in BOOLEAN /\ configured \in [Families -> BOOLEAN]
    /\ report = [f \in Families |->      \* the first report says what needs no probing
           IF Direct /\ ~adapter THEN "unavailable"
           ELSE IF configured[f] THEN "checking" ELSE "not_configured"]
    /\ target = [f \in Families |-> [t \in Targets |-> "resolving"]]
    /\ dns = [f \in Families |-> [t \in Targets |-> Servers]]
    /\ error = [f \in Families |-> [t \in Targets |-> "none"]]
    /\ address = [f \in Families |-> [t \in Targets |-> [a \in Addresses |-> "pending"]]]

-----------------------------------------------------------------------------
Probing(f) == report[f] = "checking"

\* The kind shown for a family none of whose targets was reached.
Classified(kinds) ==
    IF "timeout" \in kinds THEN "timeout"
    ELSE IF Cardinality(kinds) = 1 THEN CHOOSE k \in kinds : TRUE ELSE "unknown"

\* Target t of family f has failed with kind k: the family waits for the others.
TargetFailedFirst(f, t, k) ==      \* variant: the first failure decides for the family
    /\ target' = [target EXCEPT ![f][t] = "failed"] /\ error' = [error EXCEPT ![f][t] = k]
    /\ report' = [report EXCEPT ![f] = k]

TargetFailed(f, t, k) ==
    /\ target' = [target EXCEPT ![f][t] = "failed"] /\ error' = [error EXCEPT ![f][t] = k]
    /\ report' = IF \A u \in Targets : target'[f][u] = "failed"
                 THEN [report EXCEPT ![f] = Classified({error'[f][u] : u \in Targets})] ELSE report

\* The first target reached decides, the requests of the others are dropped.
TargetReached(f, t) ==
    /\ target' = [target EXCEPT ![f] = [u \in Targets |->
                     IF u = t THEN "ok" ELSE IF @[u] = "failed" THEN "failed" ELSE "dropped"]]
    /\ report' = [report EXCEPT ![f] = "reachable"] /\ UNCHANGED error

-----------------------------------------------------------------------------
(* Name servers: the first usable answer is taken *)

Resolves(f, t) ==
    /\ Probing(f) /\ target[f][t] = "resolving"
    /\ target' = [target EXCEPT ![f][t] = "connecting"] /\ dns' = [dns EXCEPT ![f][t] = {}]
    /\ UNCHANGED <<adapter, configured, report, error, address>>

\* A reply of another query, a truncated or negative one and one without an address of the family
\* fail the query of that server (parse_dns), as does a socket that cannot be bound to the link; the system's
\* resolver is one query.
LastServer(f, t, s) == ~Direct \/ dns[f][t] = {s}

ServerFails(f, t, s) ==
    /\ Probing(f) /\ target[f][t] = "resolving" /\ s \in dns[f][t]
    /\ dns' = [dns EXCEPT ![f][t] = IF LastServer(f, t, s) THEN {} ELSE @ \ {s}]
    /\ IF LastServer(f, t, s) THEN \E k \in {"dns_error", "unavailable"} : TargetFailed(f, t, k)
       ELSE UNCHANGED <<report, target, error>>
    /\ UNCHANGED <<adapter, configured, address>>

-----------------------------------------------------------------------------
(* Addresses: the first answer is taken, the last failure is kept *)

Answers(f, t, a) ==
    /\ Probing(f) /\ target[f][t] = "connecting" /\ address[f][t][a] = "pending"
    /\ address' = [address EXCEPT ![f][t][a] = "ok"]
    /\ TargetReached(f, t)
    /\ UNCHANGED <<adapter, configured, dns>>

\* HTTP 204, or the page expected: anything else is an answer of an authentication page.
Intercepted(f, t, a) ==
    /\ Probing(f) /\ target[f][t] = "connecting" /\ address[f][t][a] = "pending"
    /\ address' = [address EXCEPT ![f][t][a] = "ok"]
    /\ TargetFailed(f, t, "response_error")
    /\ UNCHANGED <<adapter, configured, dns>>

LastAddress(f, t, a) == \A b \in Addresses \ {a} : address[f][t][b] = "failed"

AddressFails(f, t, a, k) ==
    /\ Probing(f) /\ target[f][t] = "connecting" /\ address[f][t][a] = "pending"
    /\ address' = [address EXCEPT ![f][t][a] = "failed"]
    /\ IF LastAddress(f, t, a) THEN TargetFailed(f, t, k) ELSE UNCHANGED <<report, target, error>>
    /\ UNCHANGED <<adapter, configured, dns>>

\* NETWORK_PROBE_TIMEOUT bounds the whole request of a target.
TimesOut(f, t) ==
    /\ Probing(f) /\ target[f][t] \in {"resolving", "connecting"}
    /\ TargetFailed(f, t, "timeout")
    /\ UNCHANGED <<adapter, configured, dns, address>>

-----------------------------------------------------------------------------
Step(f, t) ==
    \/ Resolves(f, t) \/ (\E s \in Servers : ServerFails(f, t, s)) \/ TimesOut(f, t)
    \/ \E a \in Addresses : \/ Answers(f, t, a) \/ Intercepted(f, t, a)
                            \/ \E k \in {"connection_error", "tls_error", "response_error", "unavailable"} :
                                   AddressFails(f, t, a, k)

Next == \E f \in Families, t \in Targets : Step(f, t)

Spec == Init /\ [][Next]_vars

-----------------------------------------------------------------------------
(* Properties *)

\* The targets of a family implement a race: whatever the order of the answers, one target that is
\* reached makes the family reachable and only the failure of all of them makes it unreachable.
TargetOutcome(f) ==
    [t \in Targets |-> CASE target[f][t] = "ok" -> "ok"
                         [] target[f][t] = "failed" -> "failed"
                         [] OTHER -> "pending"]
FamilyVerdict(f) ==
    CASE report[f] = "reachable" -> "won" [] report[f] = "checking" -> "open" [] OTHER -> "lost"
IPv4 == INSTANCE Race WITH Attempts <- Targets, Deadline <- FALSE,
                           outcome <- TargetOutcome("ipv4"), verdict <- FamilyVerdict("ipv4")
IPv6 == INSTANCE Race WITH Attempts <- Targets, Deadline <- FALSE,
                           outcome <- TargetOutcome("ipv6"), verdict <- FamilyVerdict("ipv6")

\* The addresses of a target implement a race with a deadline (request, FuturesUnordered): the
\* first address that answers is used, and an unreachable one does not hide a reachable one.
AddressVerdict(f, t) ==
    IF \E a \in Addresses : address[f][t][a] = "ok" THEN "won"
    ELSE IF target[f][t] \in {"failed", "dropped"} THEN "lost" ELSE "open"
AddressRace(f, t) == INSTANCE Race WITH
    Attempts <- Addresses, Deadline <- TRUE, outcome <- address[f][t], verdict <- AddressVerdict(f, t)
AddressStep(f, t) == [AddressRace(f, t)!Next]_<<address[f][t], AddressVerdict(f, t)>>

\* Both, step by step: what each initial state and each step of the probe is in the abstract races.
RacesBegin == IPv4!Init /\ IPv6!Init
RaceStep ==
    /\ [IPv4!Next]_<<TargetOutcome("ipv4"), FamilyVerdict("ipv4")>>
    /\ [IPv6!Next]_<<TargetOutcome("ipv6"), FamilyVerdict("ipv6")>>
    /\ \A f \in Families, t \in Targets : AddressStep(f, t)

\* The probe implements the races of its families and of its targets.
LinkRaces == RacesBegin /\ [][RaceStep]_vars

=============================================================================
