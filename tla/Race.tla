-------------------------------- MODULE Race --------------------------------
(***************************************************************************)
(* What every parallel attempt in the network code promises: attempts run  *)
(* side by side, the first success decides, and failure is declared only   *)
(* when every attempt has failed, or when the time is up.                  *)
(***************************************************************************)
CONSTANTS Attempts, Deadline    \* Deadline: whether the race may run out of time

VARIABLES
    outcome,    \* attempt -> pending, ok or failed
    verdict     \* open, won or lost

TypeOK ==
    /\ outcome \in [Attempts -> {"pending", "ok", "failed"}]
    /\ verdict \in {"open", "won", "lost"}

Init == outcome = [a \in Attempts |-> "pending"] /\ verdict \in {"open", "lost"}

Succeed(a) ==
    /\ verdict = "open" /\ outcome[a] = "pending"
    /\ outcome' = [outcome EXCEPT ![a] = "ok"] /\ verdict' = "won"

Fail(a) ==
    /\ verdict = "open" /\ outcome[a] = "pending"
    /\ outcome' = [outcome EXCEPT ![a] = "failed"]
    /\ verdict' = IF \A b \in Attempts : outcome'[b] = "failed" THEN "lost" ELSE "open"

Expire == Deadline /\ verdict = "open" /\ verdict' = "lost" /\ UNCHANGED outcome

Next == (\E a \in Attempts : Succeed(a) \/ Fail(a)) \/ Expire

Spec == Init /\ [][Next]_<<outcome, verdict>>
=============================================================================
