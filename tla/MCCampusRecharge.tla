-------------------------- MODULE MCCampusRecharge --------------------------
(***************************************************************************)
(* CampusRecharge for TLC.  Payments of one method are interchangeable,    *)
(* and so are the transfers.                                               *)
(***************************************************************************)
EXTENDS CampusRecharge, TLC

\* Bound: the payments and transfers begun in one behaviour.
AtMostThree == Cardinality(used) <= 3

\* Narrows the search for a counterexample: the plain form is not used.
PlainFormUnused == pc[Card] = "idle"

Symmetry == Permutations(Wechat) \cup Permutations(Payments \ Wechat) \cup Permutations(Transfers)
=============================================================================
