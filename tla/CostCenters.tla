---------------------------- MODULE CostCenters ----------------------------
(***************************************************************************)
(* The cost centers of one GitHub enterprise, as both CostCenter           *)
(* reconcilers see them through GitHubService.  A cost center has a name,  *)
(* a state and the organizations and repositories mapped to it.  Deleting  *)
(* one is not immediate: it stays in the list, in state "deleted", before  *)
(* it disappears.                                                          *)
(***************************************************************************)
EXTENDS ApiServer, Sequences

CONSTANTS
    Names,           \* names of cost centers
    Organizations,   \* what may be mapped to a cost center
    Repositories,
    Unborn,          \* an identifier GitHub has not handed out yet
    Purged,          \* a cost center that was deleted and is not listed any more
    OthersDo         \* what others do in the enterprise, besides creating

Members == Organizations \cup Repositories

States == {"active", "deleting", "deleted"}

CostCenterValues == [name : Names, state : States, members : SUBSET Members]

ASSUME CostCenterAssumption ==
    /\ Ids \subseteq Nat   \* numbered in the order ListCostCenters returns them
    /\ Specs \subseteq [name : Names, members : SUBSET Members]
    /\ Shown = SUBSET Members
    /\ Unshown = {}
    /\ Organizations \cap Repositories = {}
    /\ Unborn # Purged
    /\ Unborn \notin CostCenterValues /\ Purged \notin CostCenterValues
    /\ OthersDo \subseteq {"rename", "map", "delete"}

VARIABLES
    centers,   \* the cost center behind each identifier
    mine       \* the cost centers this controller created and nobody else renamed

Listed(i) == i \in Ids /\ centers[i] \in CostCenterValues

\* isResourceActive
Active(i) == Listed(i) /\ centers[i].state # "deleted"

\* A mistake: only the recorded identifier is looked for.
findCostCenterById(o) == IF Listed(o.id) THEN o.id ELSE None

\* findTargetCostCenter and findCostCenter: by the recorded identifier, else the
\* first one of that name, whatever its state.
findCostCenter(o) ==
    LET named == {i \in Ids : Listed(i) /\ centers[i].name = o.spec.name}
    IN  IF Listed(o.id) THEN o.id
        ELSE IF named = {} THEN None
        ELSE CHOOSE i \in named : \A j \in named : i <= j

\* A call that maps or unmaps the names, left out when there are none.
ResourceCall(add, names) ==
    IF names = {} THEN <<>> ELSE <<[add |-> add, names |-> names]>>

\* A mistake: nothing is ever removed.
SyncPlanAdding(current, desired) ==
    ResourceCall(TRUE, (desired \ current) \cap Organizations)
    \o ResourceCall(TRUE, (desired \ current) \cap Repositories)

\* The calls that take the members listed to the members desired: organizations
\* before repositories, adding before removing.
SyncPlan(current, desired) ==
    ResourceCall(TRUE, (desired \ current) \cap Organizations)
    \o ResourceCall(FALSE, (current \ desired) \cap Organizations)
    \o ResourceCall(TRUE, (desired \ current) \cap Repositories)
    \o ResourceCall(FALSE, (current \ desired) \cap Repositories)

\* POST and DELETE .../resource
MapResources(i, call) ==
    /\ Listed(i)
    /\ centers' = [centers EXCEPT ![i].members =
                      IF call.add THEN @ \cup call.names ELSE @ \ call.names]
    /\ UNCHANGED mine

\* A mistake: the enterprise and the name change places.
CreateCostCenterSwapped(i, s) ==
    /\ centers[i] = Unborn
    /\ centers' = [centers EXCEPT ![i] =
                      [name |-> "enterprise", state |-> "active", members |-> {}]]
    /\ mine' = mine \cup {i}

\* POST: a new, empty cost center.
CreateCostCenter(i, s) ==
    /\ centers[i] = Unborn
    /\ centers' = [centers EXCEPT ![i] =
                      [name |-> s.name, state |-> "active", members |-> {}]]
    /\ mine' = mine \cup {i}

\* PATCH
UpdateCostCenter(i, s) ==
    /\ Listed(i)
    /\ centers' = [centers EXCEPT ![i].name = s.name]
    /\ UNCHANGED mine

\* DELETE of a listed cost center: deletion begins, or is already done.
DeleteCostCenter(i) ==
    /\ Listed(i)
    /\ \/ \E st \in {"deleting", "deleted"} :
             /\ centers[i].state = "deleted" => st = "deleted"
             /\ centers' = [centers EXCEPT ![i].state = st]
       \/ centers' = [centers EXCEPT ![i] = Purged]
    /\ UNCHANGED mine

\* A step changes the cost centers only as the management policies of copy o
\* allow.
Permitted(o) ==
    \A i \in Ids : centers'[i] # centers[i] =>
        \/ allows(o, "Create") /\ centers[i] = Unborn
        \/ /\ allows(o, "Update")
           /\ Listed(i) /\ centers'[i] # Purged /\ centers'[i].state = centers[i].state
        \/ allows(o, "Delete") /\ Listed(i)

\* The identifiers that were handed out, and those of cost centers that exist.
Born == {i \in Ids : centers[i] # Unborn}
Alive == {i \in Ids : Active(i)}

-----------------------------------------------------------------------------
(* GitHub, and someone else at work in the same enterprise.                *)

\* Deletion makes progress.
Progress ==
    /\ \E i \in Ids :
          /\ Listed(i) /\ centers[i].state = "deleting"
          /\ centers' = [centers EXCEPT ![i].state = "deleted"]
    /\ UNCHANGED <<api, seen, faults, mine>>

Purge ==
    /\ \E i \in Ids :
          /\ Listed(i) /\ centers[i].state = "deleted"
          /\ centers' = [centers EXCEPT ![i] = Purged]
    /\ UNCHANGED <<api, seen, faults, mine>>

OthersCreate ==
    /\ Interfere
    /\ \E i \in Ids, n \in Names, M \in SUBSET Members :
          /\ centers[i] = Unborn
          /\ centers' = [centers EXCEPT ![i] =
                            [name |-> n, state |-> "active", members |-> M]]
    /\ UNCHANGED <<api, seen, mine>>

OthersRename ==
    /\ "rename" \in OthersDo
    /\ Interfere
    /\ \E i \in Ids, n \in Names :
          /\ Active(i) /\ centers[i].name # n
          /\ centers' = [centers EXCEPT ![i].name = n]
          /\ mine' = mine \ {i}
    /\ UNCHANGED <<api, seen>>

OthersMap ==
    /\ "map" \in OthersDo
    /\ Interfere
    /\ \E i \in Ids, m \in Members :
          /\ Active(i)
          /\ centers' = [centers EXCEPT ![i].members =
                            IF m \in @ THEN @ \ {m} ELSE @ \cup {m}]
    /\ UNCHANGED <<api, seen, mine>>

OthersDelete ==
    /\ "delete" \in OthersDo
    /\ Interfere
    /\ \E i \in Ids :
          /\ Listed(i) /\ centers[i].state = "active"
          /\ \E st \in {"deleting", "deleted"} :
                centers' = [centers EXCEPT ![i].state = st]
    /\ UNCHANGED <<api, seen, mine>>

Environment ==
    \/ (Sync \/ UserEdits \/ UserDeletes) /\ UNCHANGED <<centers, mine>>
    \/ Progress \/ Purge
    \/ OthersCreate \/ OthersRename \/ OthersMap \/ OthersDelete
=============================================================================
