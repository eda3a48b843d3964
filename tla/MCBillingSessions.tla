------------------------- MODULE MCBillingSessions -------------------------
(* BillingSessions with accounts and commands that are interchangeable.    *)
EXTENDS BillingSessions, TLC

Alike == Permutations(Accounts) \cup Permutations(Commands)

\* Bound: the credentials of one account change.
OneChange == \A x, y \in Accounts : credentials[x] > 1 /\ credentials[y] > 1 => x = y
=============================================================================
