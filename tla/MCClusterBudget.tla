-------------------------- MODULE MCClusterBudget --------------------------
(* Instances of ClusterBudget.                                             *)
EXTENDS ClusterBudget

CONSTANTS k1, a1, a2, e1

\* The user edits the mutable fields only: the amount, and whether it expires.
OneKey == {[key |-> k1, val |-> [amount |-> a1, expiry |-> Unset]],
           [key |-> k1, val |-> [amount |-> a2, expiry |-> e1]]}

\* Management policies: everything or nothing but observing.
Everything == {"Create", "Update", "Delete"}
AllOrNothing == {Everything, {}}
AlwaysAll == {Everything}
=============================================================================
