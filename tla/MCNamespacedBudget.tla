------------------------- MODULE MCNamespacedBudget ------------------------
(* Instances of NamespacedBudget.                                          *)
EXTENDS NamespacedBudget

CONSTANTS k1, k2, a1, a2, e1

\* The user edits identity and mutable fields at once.
TwoKeys == {[key |-> k1, val |-> [amount |-> a1, expiry |-> Unset]],
            [key |-> k2, val |-> [amount |-> a2, expiry |-> e1]]}

\* Others make a budget of an identity the user may ask for, with other settings.
Outdated == {[key |-> k1, val |-> [amount |-> a2, expiry |-> Unset]]}

\* Management policies: everything or nothing but observing.
AllOrNothing == {{"Create", "Update", "Delete"}, {}}

\* FairSpec, except that a budget that is there from the start comes first in the
\* list: one that others make later may come before or after any of the
\* reconciler's.
InitFirst == Init /\ \A i \in Ids : github[i] # Unborn => i = 1

ForeignFirst ==
    /\ InitFirst
    /\ [][Next]_vars
    /\ WF_vars(Controller)
    /\ WF_vars(Sync /\ UNCHANGED <<github, mine, locals>>)
=============================================================================
