----------------------- MODULE MCNamespacedCostCenter -----------------------
(* Instances of NamespacedCostCenter.                                     *)
EXTENDS NamespacedCostCenter

CONSTANTS n1, n2, o1, r1

\* The user replaces the organization by the repository, or back.
OneName == [name : {n1}, members : {{o1}, {r1}}]

\* What a status may show.
AnyMembers == SUBSET {o1, r1}

\* Management policies: everything or nothing but observing.
AllOrNothing == {{"Create", "Update", "Delete"}, {}}
=============================================================================
