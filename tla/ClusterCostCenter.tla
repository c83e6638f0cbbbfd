------------------------- MODULE ClusterCostCenter -------------------------
(***************************************************************************)
(* The cluster-scoped CostCenter reconciler                                *)
(* (internal/controller/cluster/enterprise/costcenter).  It is built like  *)
(* the Budget reconciler, but Observe already changes GitHub (it maps and  *)
(* unmaps organizations and repositories, in up to four calls), management *)
(* policies are not consulted, and a deletion is verified by a second      *)
(* call.  One action per call, as in ClusterBudget.                        *)
(***************************************************************************)
EXTENDS CostCenters

VARIABLES
    pc,         \* the call Reconcile makes next
    obj,        \* costCenter: the copy read when Reconcile began
    observed,   \* observation: "absent", "outdated" or "current"
    target,     \* targetCostCenter: the one Observe found
    todo,       \* the calls that syncCostCenterResources still has to make
    latest      \* latestCostCenter: the copy read for the metadata update

env == <<api, seen, faults, centers, mine>>
locals == <<pc, obj, observed, target, todo, latest>>
vars == <<env, locals>>

Labels == {"idle", "ensureFinalizer", "observe", "sync", "handle", "updateStatus",
           "refetch", "resync", "annotate", "delete", "verify", "removeFinalizer"}

TypeOK ==
    /\ api \in Objects \cup {Gone}
    /\ seen \in Objects \cup {Gone}
    /\ faults \in 0 .. MaxFaults
    /\ centers \in [Ids -> CostCenterValues \cup {Unborn, Purged}]
    /\ mine \subseteq Ids
    /\ pc \in Labels
    /\ obj \in Objects \cup {Gone}
    /\ observed \in {"absent", "outdated", "current"}
    /\ target \in Ids \cup {None}
    /\ todo \in Seq([add : BOOLEAN, names : SUBSET Members])
    /\ latest \in Objects \cup {Gone}

\* The object was just applied; the enterprise may already have a cost center,
\* or remember one that was deleted.
Init ==
    /\ \E s \in Specs, p \in Policies : api = NewObject(s, p)
    /\ seen = api
    /\ faults = 0
    /\ \/ centers = [i \in Ids |-> Unborn]
       \/ \E i \in Ids, c \in CostCenterValues :
             /\ c.state # "active" => "delete" \in OthersDo
             /\ centers = [[j \in Ids |-> Unborn] EXCEPT ![i] = c]
    /\ mine = {}
    /\ pc = "idle"
    /\ obj = Gone
    /\ observed = "absent"
    /\ target = None
    /\ todo = <<>>
    /\ latest = Gone

-----------------------------------------------------------------------------
\* Reconcile returns; its locals go out of scope.
Return ==
    /\ pc' = "idle"
    /\ obj' = Gone
    /\ observed' = "absent"
    /\ target' = None
    /\ todo' = <<>>
    /\ latest' = Gone

\* r.Get, then the dispatch on deletion timestamp and finalizer.  Delete
\* requires an identifier in the status.
Reconcile ==
    /\ pc = "idle"
    /\ seen # Gone
    /\ \/ /\ seen.deleting
          /\ seen.finalizer
          /\ seen.id # None
          /\ pc' = "delete"
       \/ /\ ~seen.deleting
          /\ pc' = IF seen.finalizer THEN "observe" ELSE "ensureFinalizer"
    /\ obj' = seen
    /\ UNCHANGED <<env, observed, target, todo, latest>>

ensureFinalizer ==
    /\ pc = "ensureFinalizer"
    /\ Update([obj EXCEPT !.finalizer = TRUE])
    /\ Return
    /\ UNCHANGED <<seen, faults, centers, mine>>

\* Observe for o: ListCostCenters, then the calls that syncCostCenterResources
\* derives from what the list said, and only then the code at label after.
Observe(o, sync, after) ==
    LET found == findCostCenter(o)
    IN  \/ /\ Active(found)
           /\ target' = found
           /\ observed' = IF centers[found].name = o.spec.name
                          THEN "current" ELSE "outdated"
           /\ todo' = SyncPlan(centers[found].members, o.spec.members)
           /\ pc' = IF todo' = <<>> THEN after ELSE sync
        \/ /\ ~Active(found)
           /\ target' = None
           /\ observed' = "absent"
           /\ todo' = <<>>
           /\ pc' = after

\* observeResource: a second Get, and Observe of that copy.
observeResource ==
    /\ pc = "observe"
    /\ seen # Gone
    /\ Observe(seen, "sync", "handle")
    /\ UNCHANGED <<env, obj, latest>>

\* applySyncDiff: the next of the resource calls.
SyncResources ==
    /\ pc \in {"sync", "resync"}
    /\ MapResources(target, Head(todo))
    /\ todo' = Tail(todo)
    /\ pc' = IF todo' # <<>> THEN pc ELSE IF pc = "sync" THEN "handle" ELSE "annotate"
    /\ UNCHANGED <<api, seen, faults, obj, observed, target, latest>>

\* handleResourceState: POST, and the copy in memory shows the answer.
Create ==
    /\ pc = "handle"
    /\ observed = "absent"
    /\ \E i \in Ids :
          /\ CreateCostCenter(i, obj.spec)
          /\ obj' = [obj EXCEPT !.id = i, !.name = i, !.shown = {}]
    /\ pc' = "updateStatus"
    /\ UNCHANGED <<api, seen, faults, observed, target, todo, latest>>

\* handleResourceState: PATCH the recorded identifier.
UpdateExternal ==
    /\ pc = "handle"
    /\ observed = "outdated"
    /\ UpdateCostCenter(obj.id, obj.spec)
    /\ obj' = [obj EXCEPT !.name = obj.id, !.shown = centers[obj.id].members]
    /\ pc' = "updateStatus"
    /\ UNCHANGED <<api, seen, faults, observed, target, todo, latest>>

Nothing ==
    /\ pc = "handle"
    /\ observed = "current"
    /\ pc' = "updateStatus"
    /\ UNCHANGED <<env, obj, observed, target, todo, latest>>

\* updateResourceStatus: the copy of the beginning, and what was observed.
WriteStatus == \E sent \in Conditions(obj, observed) : UpdateStatus(sent)

StatusUpdate ==
    /\ pc = "updateStatus"
    /\ WriteStatus
    /\ pc' = "refetch"
    /\ UNCHANGED <<seen, faults, centers, mine, obj, observed, target, todo, latest>>

\* Get again and Observe again, for the external name; this maps and unmaps too.
Refetch ==
    /\ pc = "refetch"
    /\ seen # Gone
    /\ Observe(seen, "resync", "annotate")
    /\ latest' = IF target' = None THEN seen ELSE [seen EXCEPT !.name = target']
    /\ UNCHANGED <<env, obj>>

Annotate ==
    /\ pc = "annotate"
    /\ Update(latest)
    /\ Return
    /\ UNCHANGED <<seen, faults, centers, mine>>

\* Delete: DELETE the recorded identifier, and if that was accepted look whether
\* the cost center is deleted by now.
DeleteExternal ==
    /\ pc = "delete"
    /\ \/ DeleteCostCenter(obj.id) /\ pc' = "verify"
       \/ ~Listed(obj.id) /\ pc' = "removeFinalizer" /\ UNCHANGED <<centers, mine>>
    /\ UNCHANGED <<api, seen, faults, obj, observed, target, todo, latest>>

\* A mistake: an accepted DELETE counts as done.
VerifyNothing ==
    /\ pc = "verify"
    /\ pc' = "removeFinalizer"
    /\ UNCHANGED <<env, obj, observed, target, todo, latest>>

\* A mistake: only a cost center that is not found counts as deleted.
VerifyNotFound ==
    /\ pc = "verify"
    /\ ~Listed(obj.id)
    /\ pc' = "removeFinalizer"
    /\ UNCHANGED <<env, obj, observed, target, todo, latest>>

Verify ==
    /\ pc = "verify"
    /\ ~Active(obj.id)
    /\ pc' = "removeFinalizer"
    /\ UNCHANGED <<env, obj, observed, target, todo, latest>>

RemoveFinalizer ==
    /\ pc = "removeFinalizer"
    /\ Update([obj EXCEPT !.finalizer = FALSE])
    /\ Return
    /\ UNCHANGED <<seen, faults, centers, mine>>

\* An error that needs no fault: a Get finds no object, the API server refuses a
\* stale write, the cost center of a resource call or a PATCH is being deleted or
\* is none, the deletion is still in progress; or, a bound of the model, every
\* identifier was handed out.
Refused ==
    /\ \/ pc \in {"observe", "refetch"} /\ seen = Gone
       \/ pc \in {"ensureFinalizer", "updateStatus", "removeFinalizer"} /\ ~Current(obj)
       \/ pc = "annotate" /\ ~Current(latest)
       \/ pc \in {"sync", "resync"} /\ ~(Listed(target) /\ centers[target].state = "active")
       \/ /\ pc = "handle" /\ observed = "outdated"
          /\ ~(Listed(obj.id) /\ centers[obj.id].state = "active")
       \/ pc = "verify" /\ Active(obj.id)
       \/ pc = "handle" /\ observed = "absent" /\ \A i \in Ids : centers[i] # Unborn
    /\ Return
    /\ UNCHANGED env

\* Any call fails without effect, or the provider stops here.
Abort ==
    /\ pc # "idle"
    /\ Interfere
    /\ Return
    /\ UNCHANGED <<api, seen, centers, mine>>

\* The call took effect, but its answer never reaches the reconciler.
AnswerLost ==
    /\ Interfere
    /\ \/ /\ \/ pc = "handle" /\ observed = "absent"
                /\ \E i \in Ids : CreateCostCenter(i, obj.spec)
             \/ pc = "handle" /\ observed = "outdated"
                /\ UpdateCostCenter(obj.id, obj.spec)
             \/ pc \in {"sync", "resync"} /\ MapResources(target, Head(todo))
             \/ pc = "delete" /\ DeleteCostCenter(obj.id)
          /\ UNCHANGED api
       \/ /\ pc = "updateStatus"
          /\ WriteStatus
          /\ UNCHANGED <<centers, mine>>
    /\ Return
    /\ UNCHANGED seen

Controller ==
    \/ Reconcile \/ ensureFinalizer \/ observeResource \/ SyncResources \/ Create
    \/ UpdateExternal \/ Nothing \/ StatusUpdate \/ Refetch \/ Annotate
    \/ DeleteExternal \/ Verify \/ RemoveFinalizer \/ Refused

Next ==
    \/ Controller
    \/ Abort \/ AnswerLost
    \/ Environment /\ UNCHANGED locals

Spec == Init /\ [][Next]_vars

(***************************************************************************)
(* As in ClusterBudget; and GitHub completes the deletions it accepted.    *)
(***************************************************************************)
FairSpec ==
    /\ Spec
    /\ WF_vars(Controller)
    /\ WF_vars(Sync /\ UNCHANGED <<centers, mine, locals>>)
    /\ WF_vars(Progress /\ UNCHANGED locals)

\* What the reconciler promises about the object and the cost center it
\* records: neither a stale copy nor a lost answer, nor a crash between the
\* deletion and the finalizer's removal, loses the recorded identifier or
\* releases the object before its cost center is deleted, which GitHub does
\* asynchronously (external.go:147-269, costcenter.go:550-630).
Promise == INSTANCE Lifecycle WITH
    stage <- Stage, id <- RecordedId, mayDelete <- TRUE, born <- Born, live <- Alive

ImplementsLifecycle == Promise!Spec

\* Two active cost centers of one name are never both this controller's, although
\* the answer to a POST or the status that records it may be lost - unless one was
\* deleted before: the search by name may then stop at the deleted one
\* (external.go:122-182).
NoDuplicates ==
    \A i, j \in mine :
        Active(i) /\ Active(j) /\ centers[i].name = centers[j].name
            => i = j \/ \E k \in Ids : centers[k] # Unborn /\ ~Active(k)

\* A deleted object that records an identifier eventually goes
\* (costcenter.go:591-630).
RecordedDeletionCompletes ==
    (api # Gone /\ api.deleting /\ api.id # None) ~> (api = Gone)

\* In the end the recorded cost center, if it was not deleted, has the name and
\* exactly the organizations and repositories of the spec, whichever of the
\* four resource calls failed on the way (external.go:41-107).
Converges ==
    <>[](api # Gone /\ ~api.deleting /\ Listed(api.id) /\ centers[api.id].state = "active"
            => /\ centers[api.id].name = api.spec.name
               /\ centers[api.id].members = api.spec.members)

-----------------------------------------------------------------------------
(* What the API documents and the code does not do.                        *)

\* "ManagementPolicies specify the array of actions Crossplane is allowed to
\* take on the managed and external resources": a step of the reconciler
\* changes a cost center only as they allow (costcenter.go:533-548, 591-610).
PoliciesRespected == [][obj # Gone /\ locals' # locals => Permitted(obj)]_vars
=============================================================================
