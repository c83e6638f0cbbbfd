-------------------------- MODULE NamespacedBudget --------------------------
(***************************************************************************)
(* The namespaced Budget reconciler                                        *)
(* (internal/controller/namespaced/enterprise/budget).  Unlike the cluster *)
(* one it decides everything from a single copy of the object, writes the  *)
(* identifier of whatever budget it found into the status, records errors  *)
(* in the status too, and on deletion falls back on the external name.     *)
(* One action per call, as in ClusterBudget.                               *)
(***************************************************************************)
EXTENDS Budgets

VARIABLES
    pc,         \* the call Reconcile makes next
    obj,        \* cr: the one copy Reconcile works on
    found,      \* the identifier of the budget found, created or updated
    upToDate,   \* isUpToDate, of the budget found
    latest      \* latest: the copy read for the annotation

env == <<api, seen, faults, github, mine>>
locals == <<pc, obj, found, upToDate, latest>>
vars == <<env, locals>>

Labels == {"idle", "ensureFinalizer", "list", "handle", "updateStatus", "refetch",
           "annotate", "report", "deleteExternal", "removeFinalizer"}

TypeOK ==
    /\ api \in Objects \cup {Gone}
    /\ seen \in Objects \cup {Gone}
    /\ faults \in 0 .. MaxFaults
    /\ github \in [Ids -> BudgetValues \cup {Unborn, Deleted}]
    /\ mine \subseteq Ids
    /\ pc \in Labels
    /\ obj \in Objects \cup {Gone}
    /\ found \in Ids \cup {None}
    /\ upToDate \in BOOLEAN
    /\ latest \in Objects \cup {Gone}

Init ==
    /\ \E s \in Specs, p \in Policies : api = NewObject(s, p)
    /\ seen = api
    /\ faults = 0
    /\ \/ github = [i \in Ids |-> Unborn]
       \/ \E i \in Ids, b \in Foreign :
             github = [[j \in Ids |-> Unborn] EXCEPT ![i] = b]
    /\ mine = {}
    /\ pc = "idle"
    /\ obj = Gone
    /\ found = None
    /\ upToDate = FALSE
    /\ latest = Gone

-----------------------------------------------------------------------------
Return ==
    /\ pc' = "idle"
    /\ obj' = Gone
    /\ found' = None
    /\ upToDate' = FALSE
    /\ latest' = Gone

\* reconcileExternal failed: reportReconcileError writes the status next.
Fail ==
    /\ pc' = "report"
    /\ UNCHANGED <<obj, found, upToDate, latest>>

\* delete: the identifier to delete, from the status or else the annotation.
DeletionTarget(o) == IF o.id # None THEN o.id ELSE o.name

\* r.Get and the dispatch of Reconcile and delete.
Reconcile ==
    /\ pc = "idle"
    /\ seen # Gone
    /\ obj' = seen
    /\ \/ /\ seen.deleting
          /\ seen.finalizer
          /\ pc' = IF allows(seen, "Delete") /\ DeletionTarget(seen) # None
                   THEN "deleteExternal" ELSE "removeFinalizer"
       \/ /\ ~seen.deleting
          /\ pc' = IF seen.finalizer THEN "list" ELSE "ensureFinalizer"
    /\ UNCHANGED <<env, found, upToDate, latest>>

ensureFinalizer ==
    /\ pc = "ensureFinalizer"
    /\ Update([obj EXCEPT !.finalizer = TRUE])
    /\ Return
    /\ UNCHANGED <<seen, faults, github, mine>>

\* ListBudgets and findBudget.
List ==
    /\ pc = "list"
    /\ found' = findBudget(obj)
    /\ upToDate' = (found' # None /\ isUpToDate(found', obj.spec))
    /\ pc' = "handle"
    /\ UNCHANGED <<env, obj, latest>>

\* A mistake: the annotation is written without the status.
RecordNameOnly(i) ==
    /\ found' = i
    /\ obj' = SetConditions([obj EXCEPT !.id = i], "success")
    /\ pc' = "refetch"
    /\ UNCHANGED <<upToDate, latest>>

\* A mistake: the status does not get the identifier.
RecordReady(i) ==
    /\ found' = i
    /\ obj' = SetConditions(obj, "success")
    /\ pc' = "updateStatus"
    /\ UNCHANGED <<upToDate, latest>>

\* The status is filled in from budget i and written next.
Record(i) ==
    /\ found' = i
    /\ obj' = SetConditions([obj EXCEPT !.id = i], "success")
    /\ pc' = "updateStatus"
    /\ UNCHANGED <<upToDate, latest>>

Create ==
    /\ pc = "handle"
    /\ found = None
    /\ allows(obj, "Create")
    /\ \E i \in Ids : CreateBudget(i, obj.spec) /\ Record(i)
    /\ UNCHANGED <<api, seen, faults>>

\* Nothing was found and policy forbids creating: success, nothing written.
MayNotCreate ==
    /\ pc = "handle"
    /\ found = None
    /\ ~allows(obj, "Create")
    /\ Return
    /\ UNCHANGED env

\* A mistake: the policies are not consulted.
MustUpdateUnasked == found # None /\ ~upToDate

MustUpdate == found # None /\ allows(obj, "Update") /\ ~upToDate

UpdateExternal ==
    /\ pc = "handle"
    /\ MustUpdate
    /\ UpdateBudget(found, obj.spec)
    /\ Record(found)
    /\ UNCHANGED <<api, seen, faults>>

\* The budget was deleted since the list.
UpdateNotFound ==
    /\ pc = "handle"
    /\ MustUpdate
    /\ ~Live(found)
    /\ Fail
    /\ UNCHANGED env

Keep ==
    /\ pc = "handle"
    /\ found # None
    /\ ~MustUpdate
    /\ Record(found)
    /\ UNCHANGED env

\* Status().Update, whose response replaces the copy in memory.
StatusUpdate ==
    /\ pc = "updateStatus"
    /\ UpdateStatus(obj)
    /\ obj' = api'
    /\ pc' = "refetch"
    /\ UNCHANGED <<seen, faults, github, mine, found, upToDate, latest>>

Refetch ==
    /\ pc = "refetch"
    /\ seen # Gone
    /\ latest' = [seen EXCEPT !.name = found]
    /\ pc' = "annotate"
    /\ UNCHANGED <<env, obj, found, upToDate>>

Annotate ==
    /\ pc = "annotate"
    /\ Update(latest)
    /\ Return
    /\ UNCHANGED <<seen, faults, github, mine>>

\* reportReconcileError: Status().Update of the copy in memory with the error; it
\* already carries the identifier if the first status update is what failed.
Report ==
    /\ pc = "report"
    /\ \/ \E sent \in Conditions(obj, "failure") : UpdateStatus(sent)
       \/ ~Current(obj) /\ UNCHANGED api
    /\ Return
    /\ UNCHANGED <<seen, faults, github, mine>>

\* A mistake: a DELETE that finds nothing is an error.
DeleteExternalOnce ==
    /\ pc = "deleteExternal"
    /\ Live(DeletionTarget(obj))
    /\ DeleteBudget(DeletionTarget(obj))
    /\ pc' = "removeFinalizer"
    /\ UNCHANGED <<api, seen, faults, obj, found, upToDate, latest>>

\* deleteExternalBudget: not found is fine.
DeleteExternal ==
    /\ pc = "deleteExternal"
    /\ DeleteBudget(DeletionTarget(obj))
    /\ pc' = "removeFinalizer"
    /\ UNCHANGED <<api, seen, faults, obj, found, upToDate, latest>>

\* A mistake: a patch that no stale copy can fail.
RemoveFinalizerByPatch ==
    /\ pc = "removeFinalizer"
    /\ api # Gone
    /\ api' = Stored([api EXCEPT !.finalizer = FALSE])
    /\ Return
    /\ UNCHANGED <<seen, faults, github, mine>>

RemoveFinalizer ==
    /\ pc = "removeFinalizer"
    /\ Update([obj EXCEPT !.finalizer = FALSE])
    /\ Return
    /\ UNCHANGED <<seen, faults, github, mine>>

\* The API server refuses a stale write, or a Get finds no object.
Refused ==
    /\ \/ /\ pc \in {"ensureFinalizer", "removeFinalizer"} /\ ~Current(obj)
          /\ Return
       \/ /\ \/ pc = "updateStatus" /\ ~Current(obj)
             \/ pc = "refetch" /\ seen = Gone
             \/ pc = "annotate" /\ ~Current(latest)
          /\ Fail
    /\ UNCHANGED env

\* Any call fails without effect, or the provider stops here.
Abort ==
    /\ Interfere
    /\ \/ pc # "idle" /\ Return
       \/ pc \in {"list", "handle", "updateStatus", "refetch", "annotate"} /\ Fail
    /\ UNCHANGED <<api, seen, github, mine>>

\* The call took effect, but its answer is lost: an error, or a crash.
AnswerLost ==
    /\ Interfere
    /\ \/ /\ \/ /\ pc = "handle" /\ found = None /\ allows(obj, "Create")
                /\ \E i \in Ids : CreateBudget(i, obj.spec)
                /\ UNCHANGED api
             \/ /\ pc = "handle" /\ MustUpdate
                /\ UpdateBudget(found, obj.spec)
                /\ UNCHANGED api
             \/ /\ pc = "updateStatus"
                /\ UpdateStatus(obj)
                /\ UNCHANGED <<github, mine>>
          /\ Return \/ Fail
       \/ /\ pc = "deleteExternal"
          /\ DeleteBudget(DeletionTarget(obj))
          /\ UNCHANGED api
          /\ Return
    /\ UNCHANGED seen

Controller ==
    \/ Reconcile \/ ensureFinalizer \/ List \/ Create \/ MayNotCreate
    \/ UpdateExternal \/ UpdateNotFound \/ Keep \/ StatusUpdate \/ Refetch
    \/ Annotate \/ Report \/ DeleteExternal \/ RemoveFinalizer \/ Refused

Next ==
    \/ Controller
    \/ Abort \/ AnswerLost
    \/ Environment /\ UNCHANGED locals

Spec == Init /\ [][Next]_vars

\* As in ClusterBudget: the queue retries, calls return, the informer catches
\* up, and MaxFaults bounds the interference.
FairSpec == Spec /\ WF_vars(Controller) /\ WF_vars(Sync /\ UNCHANGED <<github, mine, locals>>)

-----------------------------------------------------------------------------
\* What the reconciler promises about the object and the budget it records:
\* neither a stale copy nor a lost answer, nor a crash between the deletion and
\* the finalizer's removal, loses the recorded identifier or releases the
\* object before its budget was deleted (budget.go:109-188, 320-359).
Promise == INSTANCE Lifecycle WITH
    stage <- Stage, id <- RecordedId, mayDelete <- MayDelete, born <- Born, live <- Alive

ImplementsLifecycle == Promise!Spec

\* Two budgets of one identity are never both this controller's, whatever the
\* user changes in the spec and whichever answers are lost (budget.go:109-188).
NoDuplicates ==
    \A i, j \in mine :
        Live(i) /\ Live(j) /\ github[i].key = github[j].key => i = j

\* The external name is never set before the status records an identifier: a
\* deletion that finds no identifier in the status has nothing else to go by
\* but a name that the user set (budget.go:123-148, 328-333).
NameImpliesId == api # Gone /\ api.name # None => api.id # None

\* A step of the reconciler changes a budget only as the management policies
\* allow (budget.go:153-172, 320-327, 361-372).
PoliciesRespected == [][obj # Gone /\ locals' # locals => Permitted(obj)]_vars

\* A deleted object eventually goes (budget.go:320-341).
DeletionCompletes == (api # Gone /\ api.deleting) ~> (api = Gone)

\* In the end the object records a live budget with every value its spec
\* sets, also when the budget was found by identity or created by a POST whose
\* answer was lost, if policy allows both (budget.go:109-172).  It says nothing of
\* the annotation: as long as a failed pass changes the conditions, the copy that
\* Refetch reads next may be stale, so that the name may be refused for ever.
Converges ==
    <>[](api # Gone /\ ~api.deleting /\ allows(api, "Create") /\ allows(api, "Update")
            => Settled(api.id, api.spec))
=============================================================================
