--------------------------- MODULE ClusterBudget ---------------------------
(***************************************************************************)
(* The cluster-scoped Budget reconciler                                    *)
(* (internal/controller/cluster/enterprise/budget).  One action per call   *)
(* that reaches the API server or GitHub; the code between two calls runs  *)
(* in the action of the call before it.  Everything the reconciler knows   *)
(* is local to one Reconcile, so an error return, a crash and a restart    *)
(* all are: back to "idle", locals forgotten, whatever was written stays.  *)
(***************************************************************************)
EXTENDS Budgets

VARIABLES
    pc,         \* the call Reconcile makes next
    obj,        \* budget: the copy read when Reconcile began
    observed,   \* observation: "absent", "outdated" or "current"
    latest      \* latestBudget: the copy read for the metadata update

env == <<api, seen, faults, github, mine>>
locals == <<pc, obj, observed, latest>>
vars == <<env, locals>>

Labels == {"idle", "ensureFinalizer", "observe", "handle", "updateStatus",
           "refetch", "annotate", "deleteExternal", "removeFinalizer"}

TypeOK ==
    /\ api \in Objects \cup {Gone}
    /\ seen \in Objects \cup {Gone}
    /\ faults \in 0 .. MaxFaults
    /\ github \in [Ids -> BudgetValues \cup {Unborn, Deleted}]
    /\ mine \subseteq Ids
    /\ pc \in Labels
    /\ obj \in Objects \cup {Gone}
    /\ observed \in {"absent", "outdated", "current"}
    /\ latest \in Objects \cup {Gone}

\* The object was just applied; the enterprise may already have a budget.
Init ==
    /\ \E s \in Specs, p \in Policies : api = NewObject(s, p)
    /\ seen = api
    /\ faults = 0
    /\ \/ github = [i \in Ids |-> Unborn]
       \/ \E i \in Ids, b \in Foreign :
             github = [[j \in Ids |-> Unborn] EXCEPT ![i] = b]
    /\ mine = {}
    /\ pc = "idle"
    /\ obj = Gone
    /\ observed = "absent"
    /\ latest = Gone

-----------------------------------------------------------------------------
\* Reconcile returns; its locals go out of scope.
Return ==
    /\ pc' = "idle"
    /\ obj' = Gone
    /\ observed' = "absent"
    /\ latest' = Gone

\* Observe: what findTargetBudget finds for o, and what isUpToDate says of it.
Observation(o) ==
    LET target == findBudget(o)
    IN  IF target = None THEN "absent"
        ELSE IF isUpToDate(target, o.spec) THEN "current" ELSE "outdated"

\* r.Get, then the dispatch on deletion timestamp and finalizer.  Deletion goes
\* to GitHub only if the status records an identifier and policy allows it.
Reconcile ==
    /\ pc = "idle"
    /\ seen # Gone
    /\ obj' = seen
    /\ \/ /\ seen.deleting
          /\ seen.finalizer
          /\ pc' = IF seen.id # None /\ allows(seen, "Delete") THEN "deleteExternal"
                   ELSE "removeFinalizer"
       \/ /\ ~seen.deleting
          /\ pc' = IF seen.finalizer THEN "observe" ELSE "ensureFinalizer"
    /\ UNCHANGED <<env, observed, latest>>

ensureFinalizer ==
    /\ pc = "ensureFinalizer"
    /\ Update([obj EXCEPT !.finalizer = TRUE])
    /\ Return
    /\ UNCHANGED <<seen, faults, github, mine>>

\* observeResource: a second Get and ListBudgets; the status that Observe fills
\* in is the second copy's and is dropped with it.
observeResource ==
    /\ pc = "observe"
    /\ seen # Gone
    /\ observed' = Observation(seen)
    /\ pc' = "handle"
    /\ UNCHANGED <<env, obj, latest>>

\* A mistake: Create without consulting the policies.
CreateUnasked ==
    /\ pc = "handle"
    /\ observed = "absent"
    /\ \E i \in Ids :
          /\ CreateBudget(i, obj.spec)
          /\ obj' = [obj EXCEPT !.id = i, !.name = i]
    /\ pc' = "updateStatus"
    /\ UNCHANGED <<api, seen, faults, observed, latest>>

\* handleResourceState when nothing was found: POST, and the copy in memory
\* gets the identifier.
Create ==
    /\ pc = "handle"
    /\ observed = "absent"
    /\ allows(obj, "Create")
    /\ \E i \in Ids :
          /\ CreateBudget(i, obj.spec)
          /\ obj' = [obj EXCEPT !.id = i, !.name = i]
    /\ pc' = "updateStatus"
    /\ UNCHANGED <<api, seen, faults, observed, latest>>

\* handleResourceState when something differs: PATCH the recorded identifier.
UpdateExternal ==
    /\ pc = "handle"
    /\ observed = "outdated"
    /\ allows(obj, "Update")
    /\ UpdateBudget(obj.id, obj.spec)
    /\ obj' = [obj EXCEPT !.name = obj.id]
    /\ pc' = "updateStatus"
    /\ UNCHANGED <<api, seen, faults, observed, latest>>

\* The same without a recorded identifier, or with one that is gone: an error.
UpdateFails ==
    /\ pc = "handle"
    /\ observed = "outdated"
    /\ allows(obj, "Update")
    /\ ~Live(obj.id)
    /\ Return
    /\ UNCHANGED env

\* handleResourceState with nothing to do, or nothing it may do.
Nothing ==
    /\ pc = "handle"
    /\ \/ observed = "current"
       \/ observed = "absent" /\ ~allows(obj, "Create")
       \/ observed = "outdated" /\ ~allows(obj, "Update")
    /\ pc' = "updateStatus"
    /\ UNCHANGED <<env, obj, observed, latest>>

\* updateResourceStatus: Available whatever was observed, and what that was.
WriteStatus == \E sent \in Conditions(obj, observed) : UpdateStatus(sent)

StatusUpdate ==
    /\ pc = "updateStatus"
    /\ WriteStatus
    /\ pc' = "refetch"
    /\ UNCHANGED <<seen, faults, github, mine, obj, observed, latest>>

\* Get again and Observe again, which sets the external name of the copy.
Refetch ==
    /\ pc = "refetch"
    /\ seen # Gone
    /\ latest' = IF findBudget(seen) = None THEN seen
                 ELSE [seen EXCEPT !.name = findBudget(seen)]
    /\ pc' = "annotate"
    /\ UNCHANGED <<env, obj, observed>>

\* The metadata update, and the end of a successful Reconcile.
Annotate ==
    /\ pc = "annotate"
    /\ Update(latest)
    /\ Return
    /\ UNCHANGED <<seen, faults, github, mine>>

\* A mistake: a DELETE that finds nothing is an error.
DeleteExternalOnce ==
    /\ pc = "deleteExternal"
    /\ Live(obj.id)
    /\ DeleteBudget(obj.id)
    /\ pc' = "removeFinalizer"
    /\ UNCHANGED <<api, seen, faults, obj, observed, latest>>

\* handleDeletion: DELETE the recorded identifier; not found is fine.
DeleteExternal ==
    /\ pc = "deleteExternal"
    /\ DeleteBudget(obj.id)
    /\ pc' = "removeFinalizer"
    /\ UNCHANGED <<api, seen, faults, obj, observed, latest>>

\* A mistake: a patch that no stale copy can fail.
RemoveFinalizerByPatch ==
    /\ pc = "removeFinalizer"
    /\ api # Gone
    /\ api' = Stored([api EXCEPT !.finalizer = FALSE])
    /\ Return
    /\ UNCHANGED <<seen, faults, github, mine>>

RemoveFinalizer ==
    /\ pc = "removeFinalizer"
    /\ Update([obj EXCEPT !.finalizer = FALSE])
    /\ Return
    /\ UNCHANGED <<seen, faults, github, mine>>

\* A Get finds no object, or the API server refuses a stale write: an error.
Refused ==
    /\ \/ pc \in {"observe", "refetch"} /\ seen = Gone
       \/ pc \in {"ensureFinalizer", "updateStatus", "removeFinalizer"} /\ ~Current(obj)
       \/ pc = "annotate" /\ ~Current(latest)
    /\ Return
    /\ UNCHANGED env

\* Any call fails without effect (also getExternalClient's), or the provider
\* stops here.
Abort ==
    /\ pc # "idle"
    /\ Interfere
    /\ Return
    /\ UNCHANGED <<api, seen, github, mine>>

\* The call took effect, but its answer never reaches the reconciler.
AnswerLost ==
    /\ Interfere
    /\ \/ /\ pc = "handle" /\ observed = "absent" /\ allows(obj, "Create")
          /\ \E i \in Ids : CreateBudget(i, obj.spec)
          /\ UNCHANGED api
       \/ /\ pc = "handle" /\ observed = "outdated" /\ allows(obj, "Update")
          /\ UpdateBudget(obj.id, obj.spec)
          /\ UNCHANGED api
       \/ /\ pc = "deleteExternal"
          /\ DeleteBudget(obj.id)
          /\ UNCHANGED api
       \/ /\ pc = "updateStatus"
          /\ WriteStatus
          /\ UNCHANGED <<github, mine>>
    /\ Return
    /\ UNCHANGED seen

Controller ==
    \/ Reconcile \/ ensureFinalizer \/ observeResource \/ Create \/ UpdateExternal
    \/ UpdateFails \/ Nothing \/ StatusUpdate \/ Refetch \/ Annotate
    \/ DeleteExternal \/ RemoveFinalizer \/ Refused

Next ==
    \/ Controller
    \/ Abort \/ AnswerLost
    \/ Environment /\ UNCHANGED locals

Spec == Init /\ [][Next]_vars

(***************************************************************************)
(* The work queue reconciles again and again (RequeueAfter, or the error's *)
(* back-off), every call returns and the informer catches up.  Faults are  *)
(* bounded by MaxFaults, so eventually the environment is quiet.           *)
(***************************************************************************)
FairSpec == Spec /\ WF_vars(Controller) /\ WF_vars(Sync /\ UNCHANGED <<github, mine, locals>>)

-----------------------------------------------------------------------------
\* What the reconciler promises about the object and the budget it records:
\* neither a stale copy nor a lost answer, nor a crash between the deletion and
\* the finalizer's removal, loses the recorded identifier or releases the
\* object before its budget was deleted (budget.go:458-613,
\* external.go:64-149).
Promise == INSTANCE Lifecycle WITH
    stage <- Stage, id <- RecordedId, mayDelete <- MayDelete, born <- Born, live <- Alive

ImplementsLifecycle == Promise!Spec

\* The reconciler never has two budgets of its own with one identity at once,
\* although the answer to a POST or the status that records it may be lost: the
\* search by identity finds the first one (external.go:133-149).
NoDuplicates ==
    \A i, j \in mine :
        Live(i) /\ Live(j) /\ github[i].key = github[j].key => i = j

\* A step of the reconciler changes a budget only as the management policies
\* allow (budget.go:396-407, 511-530, 580).
PoliciesRespected == [][obj # Gone /\ locals' # locals => Permitted(obj)]_vars

\* A deleted object eventually goes (budget.go:573-613).
DeletionCompletes == (api # Gone /\ api.deleting) ~> (api = Gone)

\* In the end a recorded budget that still exists has every value that the spec
\* sets (budget.go:458-530).
RecordedConverges ==
    <>[](api # Gone /\ ~api.deleting /\ allows(api, "Update") /\ Live(api.id)
            => Settled(api.id, api.spec))

-----------------------------------------------------------------------------
(* What the comments say and the code does not do.                         *)

\* "Nothing to delete externally if the budget was never successfully created":
\* once the object is gone, so is every budget it created, if deleting was always
\* allowed (budget.go:578-579).
NoOrphan ==
    api = Gone /\ (\A p \in Policies : "Delete" \in p) => \A i \in mine : ~Live(i)

\* "If not provided, the budget will not expire": in the end a recorded budget
\* has no expiry date if the spec has none (budget_types.go:96-97).
ExpiryFollowsSpec ==
    <>[](api # Gone /\ ~api.deleting /\ allows(api, "Update") /\ Live(api.id)
            /\ api.spec.val.expiry = Unset
            => github[api.id].val.expiry = Unset)
=============================================================================
