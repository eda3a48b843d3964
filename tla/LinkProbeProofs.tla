-------------------------- MODULE LinkProbeProofs --------------------------
(***************************************************************************)
(* For any targets, name servers and addresses: the requests of a family   *)
(* and the attempts of a target are races (Race).  What a step of the      *)
(* probe does to a race is a move (RaceMoves); that it is one needs only   *)
(* that nothing has succeeded where a request still goes on (NoneYet).     *)
(***************************************************************************)
EXTENDS LinkProbe, TLAPS

\* A kind that was never stored would show as none; that it never does is not needed.
Typed ==
    /\ report \in [Families -> Status \cup {"none"}]
    /\ target \in [Families -> [Targets -> {"resolving", "connecting", "ok", "failed", "dropped"}]]
    /\ error \in [Families -> [Targets -> Failures \cup {"none"}]]
    /\ address \in [Families -> [Targets -> [Addresses -> Attempt]]]

NoneYet ==
    \A f \in Families, t \in Targets :
        /\ report[f] = "checking" => target[f][t] # "ok"
        /\ target[f][t] \in {"resolving", "connecting"} => \A a \in Addresses : address[f][t][a] # "ok"

ProbeInv == Typed /\ NoneYet

\* A step of the race, or none, from outcome o and verdict v to p and w.
RaceMoves(attempts, deadline, o, v, p, w) ==
    \/ \E a \in attempts :
          /\ v = "open" /\ o[a] = "pending"
          /\ \/ p = [o EXCEPT ![a] = "ok"] /\ w = "won"
             \/ /\ p = [o EXCEPT ![a] = "failed"]
                /\ w = IF \A b \in attempts : p[b] = "failed" THEN "lost" ELSE "open"
    \/ deadline /\ v = "open" /\ w = "lost" /\ p = o
    \/ p = o /\ w = v

LEMMA InitInv == Init => ProbeInv
  BY DEF Init, ProbeInv, Typed, NoneYet, Status, Failures, Attempt, Families

LEMMA BeginsRaces == Init => RacesBegin
  BY DEF Init, RacesBegin, IPv4!Init, IPv6!Init, TargetOutcome, FamilyVerdict, Families

\* The kind shown for a family that failed is never a success.
LEMMA ClassifiedFails ==
  ASSUME NEW kinds \in SUBSET (Failures \cup {"none"}), kinds # {}
  PROVE  Classified(kinds) \in Failures \cup {"none", "unknown"}
  <1>1. (CHOOSE k \in kinds : TRUE) \in kinds
    OBVIOUS
  <1> QED  BY <1>1 DEF Classified, Failures

FamilyMoves(f) == RaceMoves(Targets, FALSE, TargetOutcome(f), FamilyVerdict(f), TargetOutcome(f)', FamilyVerdict(f)')
AddressMoves(f, t) ==
    RaceMoves(Addresses, TRUE, address[f][t], AddressVerdict(f, t), address'[f][t], AddressVerdict(f, t)')

\* A family whose variables a step leaves alone makes no move.
LEMMA OtherFamily ==
  ASSUME NEW g \in Families, report'[g] = report[g], target'[g] = target[g]
  PROVE  FamilyMoves(g)
  BY DEF FamilyMoves, RaceMoves, TargetOutcome, FamilyVerdict

\* The types after a request of a target has failed, and where they are found.
LEMMA FailedTyped ==
  ASSUME Typed, NEW f \in Families, NEW t \in Targets, NEW k \in Failures, Probing(f), TargetFailed(f, t, k)
  PROVE  /\ report' \in [Families -> Status \cup {"none"}]
         /\ target' \in [Families -> [Targets -> {"resolving", "connecting", "ok", "failed", "dropped"}]]
         /\ error' \in [Families -> [Targets -> Failures \cup {"none"}]]
         /\ target'[f] = [target[f] EXCEPT ![t] = "failed"]
         /\ \A g \in Families \ {f} : report'[g] = report[g] /\ target'[g] = target[g]
         /\ (\A u \in Targets : target'[f][u] = "failed") => report'[f] \notin {"checking", "reachable"}
         /\ ~(\A u \in Targets : target'[f][u] = "failed") => report'[f] = "checking"
  <1>1. /\ target' = [target EXCEPT ![f][t] = "failed"] /\ error' = [error EXCEPT ![f][t] = k]
        /\ report' = IF \A u \in Targets : target'[f][u] = "failed"
                     THEN [report EXCEPT ![f] = Classified({error'[f][u] : u \in Targets})] ELSE report
    BY DEF TargetFailed
  <1>2. /\ target' \in [Families -> [Targets -> {"resolving", "connecting", "ok", "failed", "dropped"}]]
        /\ target'[f] = [target[f] EXCEPT ![t] = "failed"]
        /\ \A g \in Families \ {f} : target'[g] = target[g]
    BY <1>1 DEF Typed
  <1>3. error' \in [Families -> [Targets -> Failures \cup {"none"}]]
    BY <1>1 DEF Typed
  <1> DEFINE kind == Classified({error'[f][u] : u \in Targets})
  <1>4. kind \in Failures \cup {"none", "unknown"}
    <2>1. {error'[f][u] : u \in Targets} \in SUBSET (Failures \cup {"none"}) /\ {error'[f][u] : u \in Targets} # {}
      BY <1>3
    <2> QED  BY <2>1, ClassifiedFails
  <1>5. kind \in Status \cup {"none"} /\ kind \notin {"checking", "reachable"}
    BY <1>4 DEF Status, Failures
  <1>6. report' = IF \A u \in Targets : target'[f][u] = "failed" THEN [report EXCEPT ![f] = kind] ELSE report
    BY <1>1
  <1> HIDE DEF kind
  <1> QED  BY <1>2, <1>3, <1>5, <1>6 DEF Typed, Probing

LEMMA FailedMoves ==
  ASSUME ProbeInv, NEW f \in Families, NEW t \in Targets, NEW k \in Failures, Probing(f), TargetFailed(f, t, k),
         target[f][t] \in {"resolving", "connecting"}
  PROVE  \A g \in Families : FamilyMoves(g)
  <1>1. ASSUME NEW g \in Families, g # f PROVE FamilyMoves(g)
    <2>1. report'[g] = report[g] /\ target'[g] = target[g]
      BY <1>1, FailedTyped DEF ProbeInv
    <2> QED  BY <2>1, OtherFamily
  <1>2. FamilyMoves(f)
    <2> DEFINE o == TargetOutcome(f)
               p == TargetOutcome(f)'
    <2>1. /\ target'[f] = [target[f] EXCEPT ![t] = "failed"]
          /\ target[f] \in [Targets -> {"resolving", "connecting", "ok", "failed", "dropped"}]
      BY FailedTyped DEF ProbeInv, Typed
    <2>2. o[t] = "pending" /\ p = [o EXCEPT ![t] = "failed"]
      BY <2>1 DEF TargetOutcome
    <2>3. \A u \in Targets : p[u] = "failed" <=> target'[f][u] = "failed"
      BY <2>1 DEF TargetOutcome
    <2>4. /\ FamilyVerdict(f) = "open"
          /\ FamilyVerdict(f)' = IF \A u \in Targets : target'[f][u] = "failed" THEN "lost" ELSE "open"
      BY FailedTyped DEF ProbeInv, Probing, FamilyVerdict
    <2>5. FamilyVerdict(f)' = IF \A u \in Targets : p[u] = "failed" THEN "lost" ELSE "open"
      BY <2>3, <2>4
    <2> HIDE DEF o, p
    <2> QED  BY <2>2, <2>4, <2>5 DEF FamilyMoves, RaceMoves, o, p
  <1> QED  BY <1>1, <1>2

\* A target that is reached makes its family reachable; the other requests are dropped.
LEMMA ReachedMoves ==
  ASSUME ProbeInv, NEW f \in Families, NEW t \in Targets, Probing(f), TargetReached(f, t), target[f][t] = "connecting"
  PROVE  /\ report' \in [Families -> Status \cup {"none"}]
         /\ target' \in [Families -> [Targets -> {"resolving", "connecting", "ok", "failed", "dropped"}]]
         /\ \A g \in Families \ {f} : report'[g] = report[g] /\ target'[g] = target[g]
         /\ report'[f] = "reachable"
         /\ \A u \in Targets : target'[f][u] \in {"ok", "failed", "dropped"}
         /\ \A g \in Families : FamilyMoves(g)
  <1>1. /\ report' = [report EXCEPT ![f] = "reachable"]
        /\ target' = [target EXCEPT ![f] = [u \in Targets |->
             IF u = t THEN "ok" ELSE IF target[f][u] = "failed" THEN "failed" ELSE "dropped"]]
    BY DEF TargetReached, ProbeInv, Typed
  <1>2. /\ report' \in [Families -> Status \cup {"none"}]
        /\ target' \in [Families -> [Targets -> {"resolving", "connecting", "ok", "failed", "dropped"}]]
        /\ \A g \in Families \ {f} : report'[g] = report[g] /\ target'[g] = target[g]
        /\ report'[f] = "reachable"
    BY <1>1 DEF ProbeInv, Typed, Status
  <1>3. target'[f] = [u \in Targets |-> IF u = t THEN "ok" ELSE IF target[f][u] = "failed" THEN "failed" ELSE "dropped"]
    BY <1>1 DEF ProbeInv, Typed
  <1>4. ASSUME NEW g \in Families, g # f PROVE FamilyMoves(g)
    BY <1>2, <1>4, OtherFamily
  <1>5. FamilyMoves(f)
    <2>1. /\ target[f] \in [Targets -> {"resolving", "connecting", "ok", "failed", "dropped"}]
          /\ \A u \in Targets : target[f][u] # "ok"
      BY DEF ProbeInv, Typed, NoneYet, Probing
    <2>2. TargetOutcome(f)[t] = "pending" /\ TargetOutcome(f)' = [TargetOutcome(f) EXCEPT ![t] = "ok"]
      BY <1>3, <2>1 DEF TargetOutcome
    <2>3. FamilyVerdict(f) = "open" /\ FamilyVerdict(f)' = "won"
      BY <1>2 DEF Probing, FamilyVerdict
    <2> QED  BY <2>2, <2>3 DEF FamilyMoves, RaceMoves
  <1> QED  BY <1>2, <1>3, <1>4, <1>5

\* A target whose attempts a step leaves alone: its request goes on, is given up, or had ended.
LEMMA OtherAttempts ==
  ASSUME NEW g \in Families, NEW u \in Targets, address'[g][u] = address[g][u],
         target[g][u] \in {"failed", "dropped"} => target'[g][u] \in {"failed", "dropped"}
  PROVE  AddressMoves(g, u)
  BY DEF AddressMoves, RaceMoves, AddressVerdict

\* An attempt of target t of family f has ended.
LEMMA AttemptEnds ==
  ASSUME ProbeInv, NEW f \in Families, NEW t \in Targets, NEW a \in Addresses, NEW end \in {"ok", "failed"},
         target[f][t] = "connecting", address[f][t][a] = "pending",
         address' = [address EXCEPT ![f][t][a] = end],
         \/ end = "ok"
         \/ LastAddress(f, t, a) /\ target'[f][t] = "failed"
         \/ ~LastAddress(f, t, a) /\ target'[f][t] = "connecting"
  PROVE  /\ AddressMoves(f, t)
         /\ address' \in [Families -> [Targets -> [Addresses -> Attempt]]]
         /\ \A g \in Families, u \in Targets : <<g, u>> # <<f, t>> => address'[g][u] = address[g][u]
         /\ end = "failed" => \A b \in Addresses : address'[f][t][b] # "ok"
  <1>1. /\ address' \in [Families -> [Targets -> [Addresses -> Attempt]]]
        /\ \A g \in Families, u \in Targets : <<g, u>> # <<f, t>> => address'[g][u] = address[g][u]
    BY DEF ProbeInv, Typed, Attempt
  <1>2. /\ address[f][t] \in [Addresses -> Attempt] /\ address'[f][t] = [address[f][t] EXCEPT ![a] = end]
        /\ \A b \in Addresses : address[f][t][b] # "ok"
    BY DEF ProbeInv, Typed, NoneYet
  <1>3. AddressVerdict(f, t) = "open"
    BY <1>2 DEF AddressVerdict
  <1>4. CASE end = "ok"
    <2>1. \E b \in Addresses : address'[f][t][b] = "ok"
      BY <1>2, <1>4
    <2>2. AddressVerdict(f, t)' = "won"
      BY <2>1 DEF AddressVerdict
    <2> QED  BY <1>1, <1>2, <1>3, <1>4, <2>2 DEF AddressMoves, RaceMoves
  <1>5. CASE end = "failed"
    <2>1. \A b \in Addresses : address'[f][t][b] # "ok"
      BY <1>2, <1>5
    <2>2. (\A b \in Addresses : address'[f][t][b] = "failed") <=> LastAddress(f, t, a)
      BY <1>2, <1>5 DEF LastAddress
    <2>3. AddressVerdict(f, t)' = IF \A b \in Addresses : address'[f][t][b] = "failed" THEN "lost" ELSE "open"
      BY <1>5, <2>1, <2>2 DEF AddressVerdict
    <2> QED  BY <1>1, <1>2, <1>3, <1>5, <2>1, <2>3 DEF AddressMoves, RaceMoves
  <1> QED  BY <1>4, <1>5

Moves ==
    /\ \A f \in Families : FamilyMoves(f)
    /\ \A f \in Families, t \in Targets : AddressMoves(f, t)

\* The end of a request that fails, with its attempts as they are or with one that has ended.
LEMMA FailureKeeps ==
  ASSUME ProbeInv, NEW f \in Families, NEW t \in Targets, NEW k \in Failures, Probing(f), TargetFailed(f, t, k),
         target[f][t] \in {"resolving", "connecting"}, AddressMoves(f, t),
         address' \in [Families -> [Targets -> [Addresses -> Attempt]]],
         \A g \in Families, u \in Targets : <<g, u>> # <<f, t>> => address'[g][u] = address[g][u]
  PROVE  ProbeInv' /\ Moves
  <1>1. \A g \in Families : FamilyMoves(g)
    BY FailedMoves
  <1>2. /\ target'[f] = [target[f] EXCEPT ![t] = "failed"]
        /\ \A g \in Families \ {f} : report'[g] = report[g] /\ target'[g] = target[g]
        /\ report'[f] = "checking" \/ report'[f] # "checking"
        /\ target[f] \in [Targets -> {"resolving", "connecting", "ok", "failed", "dropped"}]
    BY FailedTyped DEF ProbeInv, Typed
  <1>3. \A g \in Families, u \in Targets : <<g, u>> # <<f, t>> => target'[g][u] = target[g][u]
    BY <1>2
  <1>4. ASSUME NEW g \in Families, NEW u \in Targets PROVE AddressMoves(g, u)
    <2>1. CASE <<g, u>> # <<f, t>>
      BY <2>1, <1>3, OtherAttempts
    <2> QED  BY <2>1
  <1>5. Typed'
    BY FailedTyped DEF ProbeInv, Typed
  <1>6. NoneYet'
    <2> SUFFICES ASSUME NEW g \in Families, NEW u \in Targets
                 PROVE  /\ report'[g] = "checking" => target'[g][u] # "ok"
                        /\ target'[g][u] \in {"resolving", "connecting"} =>
                             \A a \in Addresses : address'[g][u][a] # "ok"
      BY DEF NoneYet
    <2>1. target'[f][t] = "failed"
      BY <1>2
    <2>2. CASE <<g, u>> = <<f, t>>
      BY <2>1, <2>2
    <2>3. CASE <<g, u>> # <<f, t>>
      <3>1. report'[g] = "checking" => report[g] = "checking"
        BY <1>2 DEF Probing
      <3> QED  BY <3>1, <2>3, <1>3 DEF ProbeInv, NoneYet
    <2> QED  BY <2>2, <2>3
  <1> QED  BY <1>1, <1>4, <1>5, <1>6 DEF ProbeInv, Moves

\* A request goes on to its addresses, or waits for another name server or address.
LEMMA OngoingKeeps ==
  ASSUME ProbeInv, NEW f \in Families, NEW t \in Targets, UNCHANGED <<report, error>>,
         \A g \in Families, u \in Targets : AddressMoves(g, u),
         address' \in [Families -> [Targets -> [Addresses -> Attempt]]],
         \/ target' = target
         \/ target[f][t] = "resolving" /\ target' = [target EXCEPT ![f][t] = "connecting"],
         \A g \in Families, u \in Targets :
            (\A a \in Addresses : address[g][u][a] # "ok") => \A a \in Addresses : address'[g][u][a] # "ok"
  PROVE  ProbeInv' /\ Moves
  <1>0. /\ target' \in [Families -> [Targets -> {"resolving", "connecting", "ok", "failed", "dropped"}]]
        /\ \A g \in Families, u \in Targets :
              target'[g][u] = target[g][u] \/ (target[g][u] = "resolving" /\ target'[g][u] = "connecting")
    <2>1. CASE target' = target
      BY <2>1 DEF ProbeInv, Typed
    <2>2. CASE target[f][t] = "resolving" /\ target' = [target EXCEPT ![f][t] = "connecting"]
      BY <2>2 DEF ProbeInv, Typed
    <2> QED  BY <2>1, <2>2
  <1>1. Typed'
    BY <1>0 DEF ProbeInv, Typed
  <1>2. \A g \in Families, u \in Targets :
          target'[g][u] = target[g][u] \/ (target[g][u] = "resolving" /\ target'[g][u] = "connecting")
    BY <1>0
  <1>3. NoneYet'
    <2> SUFFICES ASSUME NEW g \in Families, NEW u \in Targets
                 PROVE  /\ report'[g] = "checking" => target'[g][u] # "ok"
                        /\ target'[g][u] \in {"resolving", "connecting"} =>
                             \A a \in Addresses : address'[g][u][a] # "ok"
      BY DEF NoneYet
    <2>1. /\ report[g] = "checking" => target[g][u] # "ok"
          /\ target[g][u] \in {"resolving", "connecting"} => \A a \in Addresses : address[g][u][a] # "ok"
      BY DEF ProbeInv, NoneYet
    <2> QED  BY <1>2, <2>1
  <1>4. ASSUME NEW g \in Families PROVE FamilyMoves(g)
    <2>1. TargetOutcome(g)' = TargetOutcome(g)
      <3>1. \A u \in Targets : target'[g][u] = target[g][u] \/ (target[g][u] = "resolving" /\ target'[g][u] = "connecting")
        BY <1>2
      <3> QED  BY <3>1 DEF TargetOutcome
    <2> QED  BY <2>1 DEF FamilyMoves, RaceMoves, FamilyVerdict
  <1> QED  BY <1>1, <1>3, <1>4 DEF ProbeInv, Moves

LEMMA StepKeeps ==
  ASSUME ProbeInv, NEW f \in Families, NEW t \in Targets, Step(f, t)
  PROVE  ProbeInv' /\ Moves
  <1>0. address' = address =>
          /\ address' \in [Families -> [Targets -> [Addresses -> Attempt]]]
          /\ target[f][t] \in {"resolving", "connecting"} => AddressMoves(f, t)
    BY OtherAttempts DEF ProbeInv, Typed
  <1>f. {"dns_error", "timeout", "response_error", "connection_error", "tls_error", "unavailable"} \subseteq Failures
    BY DEF Failures
  <1>1. CASE Resolves(f, t)
    <2>1. /\ target[f][t] = "resolving" /\ target' = [target EXCEPT ![f][t] = "connecting"]
          /\ UNCHANGED <<report, error, address>>
      BY <1>1 DEF Resolves
    <2>2. \A g \in Families, u \in Targets : target[g][u] \in {"failed", "dropped"} => target'[g][u] = target[g][u]
      BY <2>1 DEF ProbeInv, Typed
    <2>3. \A g \in Families, u \in Targets : AddressMoves(g, u)
      BY <2>1, <2>2, OtherAttempts
    <2> QED  BY <1>0, <2>1, <2>3, OngoingKeeps
  <1>2. ASSUME NEW s \in Servers, ServerFails(f, t, s) PROVE ProbeInv' /\ Moves
    <2>1. Probing(f) /\ target[f][t] = "resolving" /\ address' = address
      BY <1>2 DEF ServerFails
    <2>2. CASE \E k \in {"dns_error", "unavailable"} : TargetFailed(f, t, k)
      BY <1>0, <1>f, <2>1, <2>2, FailureKeeps
    <2>3. CASE UNCHANGED <<report, target, error>>
      <3>1. \A g \in Families, u \in Targets : AddressMoves(g, u)
        BY <2>1, <2>3, OtherAttempts
      <3> QED  BY <1>0, <2>1, <2>3, <3>1, OngoingKeeps
    <2> QED  BY <1>2, <2>2, <2>3 DEF ServerFails
  <1>3. CASE TimesOut(f, t)
    BY <1>0, <1>f, <1>3, FailureKeeps DEF TimesOut
  <1>4. ASSUME NEW a \in Addresses, Answers(f, t, a) PROVE ProbeInv' /\ Moves
    <2>1. /\ Probing(f) /\ target[f][t] = "connecting" /\ address[f][t][a] = "pending" /\ TargetReached(f, t)
          /\ address' = [address EXCEPT ![f][t][a] = "ok"]
      BY <1>4 DEF Answers
    <2>2. /\ AddressMoves(f, t)
          /\ address' \in [Families -> [Targets -> [Addresses -> Attempt]]]
          /\ \A g \in Families, u \in Targets : <<g, u>> # <<f, t>> => address'[g][u] = address[g][u]
      BY <2>1, AttemptEnds
    <2>3. /\ report' \in [Families -> Status \cup {"none"}]
          /\ target' \in [Families -> [Targets -> {"resolving", "connecting", "ok", "failed", "dropped"}]]
          /\ \A g \in Families \ {f} : report'[g] = report[g] /\ target'[g] = target[g]
          /\ report'[f] = "reachable" /\ \A u \in Targets : target'[f][u] \in {"ok", "failed", "dropped"}
          /\ \A g \in Families : FamilyMoves(g)
      BY <2>1, ReachedMoves
    <2>4. ASSUME NEW g \in Families, NEW u \in Targets PROVE AddressMoves(g, u)
      <3>1. CASE g = f /\ u # t
        <4>1. target[f][u] # "ok" /\ target'[f] = [v \in Targets |->
                IF v = t THEN "ok" ELSE IF target[f][v] = "failed" THEN "failed" ELSE "dropped"]
          BY <2>1 DEF TargetReached, ProbeInv, Typed, NoneYet, Probing
        <4> QED  BY <3>1, <4>1, <2>2, OtherAttempts
      <3>2. CASE g # f
        BY <3>2, <2>2, <2>3, OtherAttempts
      <3> QED  BY <2>2, <3>1, <3>2
    <2>5. Typed'
      BY <2>1, <2>2, <2>3 DEF TargetReached, ProbeInv, Typed
    <2>6. NoneYet'
      <3> SUFFICES ASSUME NEW g \in Families, NEW u \in Targets
                   PROVE  /\ report'[g] = "checking" => target'[g][u] # "ok"
                          /\ target'[g][u] \in {"resolving", "connecting"} =>
                               \A b \in Addresses : address'[g][u][b] # "ok"
        BY DEF NoneYet
      <3>1. CASE g = f
        BY <3>1, <2>3
      <3>2. CASE g # f
        <4>1. /\ report'[g] = report[g] /\ target'[g][u] = target[g][u] /\ address'[g][u] = address[g][u]
          BY <3>2, <2>2, <2>3
        <4> QED  BY <4>1 DEF ProbeInv, NoneYet
      <3> QED  BY <3>1, <3>2
    <2> QED  BY <2>3, <2>4, <2>5, <2>6 DEF ProbeInv, Moves
  <1>5. ASSUME NEW a \in Addresses, Intercepted(f, t, a) PROVE ProbeInv' /\ Moves
    <2>1. /\ Probing(f) /\ target[f][t] = "connecting" /\ address[f][t][a] = "pending"
          /\ TargetFailed(f, t, "response_error") /\ address' = [address EXCEPT ![f][t][a] = "ok"]
      BY <1>5 DEF Intercepted
    <2>2. /\ AddressMoves(f, t) /\ address' \in [Families -> [Targets -> [Addresses -> Attempt]]]
          /\ \A g \in Families, u \in Targets : <<g, u>> # <<f, t>> => address'[g][u] = address[g][u]
      BY <2>1, AttemptEnds
    <2> QED  BY <1>f, <2>1, <2>2, FailureKeeps
  <1>6. ASSUME NEW a \in Addresses, NEW k \in {"connection_error", "tls_error", "response_error", "unavailable"},
               AddressFails(f, t, a, k)
        PROVE  ProbeInv' /\ Moves
    <2>1. /\ Probing(f) /\ target[f][t] = "connecting" /\ address[f][t][a] = "pending"
          /\ address' = [address EXCEPT ![f][t][a] = "failed"]
          /\ IF LastAddress(f, t, a) THEN TargetFailed(f, t, k) ELSE UNCHANGED <<report, target, error>>
      BY <1>6 DEF AddressFails
    <2>2. CASE LastAddress(f, t, a)
      <3>1. target'[f][t] = "failed"
        <4>1. target'[f] = [target[f] EXCEPT ![t] = "failed"]
          BY <1>f, <2>1, <2>2, FailedTyped DEF ProbeInv
        <4> QED  BY <4>1 DEF ProbeInv, Typed
      <3>2. /\ AddressMoves(f, t) /\ address' \in [Families -> [Targets -> [Addresses -> Attempt]]]
            /\ \A g \in Families, u \in Targets : <<g, u>> # <<f, t>> => address'[g][u] = address[g][u]
        BY <2>1, <2>2, <3>1, AttemptEnds
      <3> QED  BY <1>f, <2>1, <2>2, <3>2, FailureKeeps
    <2>3. CASE ~LastAddress(f, t, a)
      <3>1. /\ AddressMoves(f, t) /\ address' \in [Families -> [Targets -> [Addresses -> Attempt]]]
            /\ \A g \in Families, u \in Targets : <<g, u>> # <<f, t>> => address'[g][u] = address[g][u]
            /\ \A b \in Addresses : address'[f][t][b] # "ok"
        <4>1. target'[f][t] = "connecting"
          BY <2>1, <2>3
        <4>2. "failed" \in {"ok", "failed"}
          OBVIOUS
        <4> QED  BY <2>1, <2>3, <4>1, <4>2, AttemptEnds
      <3>2. \A g \in Families, u \in Targets : AddressMoves(g, u)
        BY <2>1, <2>3, <3>1, OtherAttempts
      <3> QED  BY <2>1, <2>3, <3>1, <3>2, OngoingKeeps
    <2> QED  BY <2>2, <2>3
  <1> QED  BY <1>1, <1>2, <1>3, <1>4, <1>5, <1>6 DEF Step

\* The moves are those of the abstract races.
LEMMA MovesAreRaceSteps == Moves => RaceStep
  <1> SUFFICES ASSUME Moves PROVE RaceStep
    OBVIOUS
  <1>1. [IPv4!Next]_<<TargetOutcome("ipv4"), FamilyVerdict("ipv4")>>
    <2>1. FamilyMoves("ipv4")
      BY DEF Moves, Families
    <2> QED  BY <2>1 DEF FamilyMoves, RaceMoves, IPv4!Next, IPv4!Succeed, IPv4!Fail, IPv4!Expire
  <1>2. [IPv6!Next]_<<TargetOutcome("ipv6"), FamilyVerdict("ipv6")>>
    <2>1. FamilyMoves("ipv6")
      BY DEF Moves, Families
    <2> QED  BY <2>1 DEF FamilyMoves, RaceMoves, IPv6!Next, IPv6!Succeed, IPv6!Fail, IPv6!Expire
  <1>3. ASSUME NEW f \in Families, NEW t \in Targets PROVE AddressStep(f, t)
    <2>1. AddressMoves(f, t)
      BY DEF Moves
    <2> QED  BY <2>1 DEF AddressMoves, RaceMoves, AddressStep, AddressRace!Next, AddressRace!Succeed,
               AddressRace!Fail, AddressRace!Expire
  <1> QED  BY <1>1, <1>2, <1>3 DEF RaceStep

\* Every step of the probe implements the abstract races of its families and of its targets: the first
\* success decides, and only the failure of all, or the end of the time, is a failure (dual_stack.rs).
THEOREM ProbeImplementsRaces == Spec => LinkRaces
  <1>1. Init => ProbeInv /\ RacesBegin
    BY InitInv, BeginsRaces
  <1>2. ProbeInv /\ [Next]_vars => ProbeInv' /\ [RaceStep]_vars
    <2> SUFFICES ASSUME ProbeInv, [Next]_vars PROVE ProbeInv' /\ [RaceStep]_vars
      OBVIOUS
    <2>1. CASE Next
      BY <2>1, StepKeeps, MovesAreRaceSteps DEF Next
    <2>2. CASE UNCHANGED vars
      BY <2>2 DEF vars, ProbeInv, Typed, NoneYet
    <2> QED  BY <2>1, <2>2
  <1> QED  BY <1>1, <1>2, PTL DEF Spec, LinkRaces

=============================================================================
