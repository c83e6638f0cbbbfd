------------------------------ MODULE Budgets ------------------------------
(***************************************************************************)
(* The billing budgets of one GitHub enterprise, as both Budget            *)
(* reconcilers see them through GitHubService, and how they recognise the  *)
(* one a managed resource stands for.  Scope, entity, SKU and user are one *)
(* key.  Of the mutable fields, those the CRD requires (amount, alerting,  *)
(* usage prevention) are one amount; the expiry date may be left out.  A   *)
(* spec pairs a key with the values it asks for.                           *)
(***************************************************************************)
EXTENDS ApiServer, FiniteSets

CONSTANTS
    Keys,          \* identities: scope, entity, SKU and user
    Amounts,       \* settings of the required mutable fields
    Expiries,      \* dates on which a budget may expire
    Unset,         \* no such date
    Foreign,       \* the budgets that someone else may make, and set others to
    Unborn,        \* an identifier GitHub has not handed out yet
    Deleted        \* a budget that was deleted

Values == [amount : Amounts, expiry : Expiries \cup {Unset}]

BudgetValues == [key : Keys, val : Values]

ASSUME BudgetAssumption ==
    /\ Ids \subseteq Nat   \* numbered in the order ListBudgets returns them
    /\ Specs \subseteq BudgetValues /\ Foreign \subseteq BudgetValues
    /\ Shown = {Unshown}
    /\ Unset \notin Expiries
    /\ Unborn # Deleted
    /\ Unborn \notin BudgetValues /\ Deleted \notin BudgetValues

VARIABLES
    github,   \* the budget behind each identifier
    mine      \* the identifiers of the budgets this controller created

\* Identifier i names a budget the list returns.
Live(i) == i \in Ids /\ github[i] \in BudgetValues

\* matches: same scope, entity, SKU and user.
matches(i, s) == Live(i) /\ github[i].key = s.key

\* A mistake: no field is compared.
isUpToDateAlways(i, s) == TRUE

\* isUpToDate compares the mutable fields only.  No expiry date in the spec is not
\* the date that GitHub has: a PATCH, which cannot clear the date, never makes such
\* a budget up to date.
isUpToDate(i, s) == github[i].val = s.val

\* A mistake: only the recorded identifier is looked for.
findBudgetById(o) == IF Live(o.id) THEN o.id ELSE None

\* findTargetBudget and findBudget: the budget with the recorded identifier if
\* the list has it, otherwise the first one with the same identity.
findBudget(o) ==
    LET matching == {i \in Ids : matches(i, o.spec)}
    IN  IF Live(o.id) THEN o.id
        ELSE IF matching = {} THEN None
        ELSE CHOOSE i \in matching : \A j \in matching : i <= j

\* A mistake: toExternalBudget forgets scope, entity, SKU and user.
CreateBudgetAnonymous(i, s) ==
    /\ github[i] = Unborn
    /\ github' = [github EXCEPT ![i] = [val |-> s.val]]
    /\ mine' = mine \cup {i}

\* POST: GitHub hands out an identifier it never used before.
CreateBudget(i, s) ==
    /\ github[i] = Unborn
    /\ github' = [github EXCEPT ![i] = s]
    /\ mine' = mine \cup {i}

\* A mistake: the expiry is not sent.
UpdateBudgetAmount(i, s) ==
    /\ Live(i)
    /\ github' = [github EXCEPT ![i].val.amount = s.val.amount]
    /\ UNCHANGED mine

\* A PATCH leaves alone what its body omits.
Patched(old, new) == [new EXCEPT !.expiry = IF @ = Unset THEN old.expiry ELSE @]

\* PATCH: only the mutable fields change; 404 unless the budget is there.
UpdateBudget(i, s) ==
    /\ Live(i)
    /\ github' = [github EXCEPT ![i].val = Patched(@, s.val)]
    /\ UNCHANGED mine

\* DELETE: 204 or 404, the budget is gone either way.
DeleteBudget(i) ==
    /\ github' = [github EXCEPT ![i] = IF Live(i) THEN Deleted ELSE @]
    /\ UNCHANGED mine

\* A step changes the budgets only as the management policies of copy o allow.
Permitted(o) ==
    \A i \in Ids : github'[i] # github[i] =>
        \/ allows(o, "Create") /\ github[i] = Unborn
        \/ allows(o, "Update") /\ Live(i) /\ github'[i] # Deleted
        \/ allows(o, "Delete") /\ Live(i) /\ github'[i] = Deleted

\* The identifiers that were handed out, and those of budgets that exist.
Born == {i \in Ids : github[i] # Unborn}
Alive == {i \in Ids : Live(i)}

\* Budget i has every value that spec s sets.
Settled(i, s) ==
    /\ Live(i)
    /\ github[i].val.amount = s.val.amount
    /\ s.val.expiry # Unset => github[i].val.expiry = s.val.expiry

-----------------------------------------------------------------------------
(* Someone else works on the same enterprise.                              *)

OthersCreate ==
    /\ Interfere
    /\ \E i \in Ids, b \in Foreign :
          github[i] = Unborn /\ github' = [github EXCEPT ![i] = b]
    /\ UNCHANGED <<api, seen, mine>>

OthersUpdate ==
    /\ Interfere
    /\ \E i \in Ids, b \in Foreign :
          /\ Live(i) /\ github[i].val # b.val
          /\ github' = [github EXCEPT ![i].val = b.val]
    /\ UNCHANGED <<api, seen, mine>>

OthersDelete ==
    /\ Interfere
    /\ \E i \in Ids : Live(i) /\ github' = [github EXCEPT ![i] = Deleted]
    /\ UNCHANGED <<api, seen, mine>>

Environment ==
    \/ (Sync \/ UserEdits \/ UserDeletes) /\ UNCHANGED <<github, mine>>
    \/ OthersCreate \/ OthersUpdate \/ OthersDelete
=============================================================================
