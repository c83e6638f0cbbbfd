------------------------ MODULE NamespacedCostCenter ------------------------
(***************************************************************************)
(* The namespaced CostCenter reconciler                                    *)
(* (internal/controller/namespaced/enterprise/costcenter).  It decides     *)
(* from one copy of the object, honours management policies, maps and      *)
(* unmaps organizations and repositories before the identifier is          *)
(* recorded, takes a deleted cost center for an existing one, and reports  *)
(* no errors in the status.  One action per call, as in ClusterBudget.     *)
(***************************************************************************)
EXTENDS CostCenters

VARIABLES
    pc,      \* the call Reconcile makes next
    obj,     \* cr: the one copy Reconcile works on
    found,   \* the identifier of the cost center found, created or renamed
    todo,    \* the calls that syncResources still has to make
    latest,  \* latest: the copy read for the annotation
    touched  \* history: the cost centers others renamed or mapped since the last list

env == <<api, seen, faults, centers, mine>>
locals == <<pc, obj, found, todo, latest>>
vars == <<env, locals, touched>>

Labels == {"idle", "ensureFinalizer", "list", "create", "rename", "sync", "updateStatus",
           "refetch", "annotate", "delete", "verify", "removeFinalizer"}

StateOK ==
    /\ api \in Objects \cup {Gone}
    /\ seen \in Objects \cup {Gone}
    /\ faults \in 0 .. MaxFaults
    /\ centers \in [Ids -> CostCenterValues \cup {Unborn, Purged}]
    /\ mine \subseteq Ids
    /\ pc \in Labels
    /\ obj \in Objects \cup {Gone}
    /\ found \in Ids \cup {None}
    /\ todo \in Seq([add : BOOLEAN, names : SUBSET Members])
    /\ latest \in Objects \cup {Gone}

TypeOK == StateOK /\ touched \subseteq Ids

Init ==
    /\ \E s \in Specs, p \in Policies : api = NewObject(s, p)
    /\ seen = api
    /\ faults = 0
    /\ \/ centers = [i \in Ids |-> Unborn]
       \/ \E i \in Ids, c \in CostCenterValues :
             /\ c.state # "active" => "delete" \in OthersDo
             /\ centers = [[j \in Ids |-> Unborn] EXCEPT ![i] = c]
    /\ mine = {}
    /\ pc = "idle"
    /\ obj = Gone
    /\ found = None
    /\ todo = <<>>
    /\ latest = Gone
    /\ touched = {}

-----------------------------------------------------------------------------
Return ==
    /\ pc' = "idle"
    /\ obj' = Gone
    /\ found' = None
    /\ todo' = <<>>
    /\ latest' = Gone

\* delete: the identifier to delete, from the status or else the annotation.
DeletionTarget(o) == IF o.id # None THEN o.id ELSE o.name

\* r.Get and the dispatch of Reconcile and delete.
Reconcile ==
    /\ pc = "idle"
    /\ seen # Gone
    /\ \/ /\ seen.deleting
          /\ seen.finalizer
          /\ pc' = IF allows(seen, "Delete") /\ DeletionTarget(seen) # None
                   THEN "delete" ELSE "removeFinalizer"
       \/ /\ ~seen.deleting
          /\ pc' = IF seen.finalizer THEN "list" ELSE "ensureFinalizer"
    /\ obj' = seen
    /\ UNCHANGED <<env, found, todo, latest>>

ensureFinalizer ==
    /\ pc = "ensureFinalizer"
    /\ Update([obj EXCEPT !.finalizer = TRUE])
    /\ Return
    /\ UNCHANGED <<seen, faults, centers, mine>>

\* A mistake: resources are synchronised whatever the policies say.
ProceedUnasked(i, c) ==
    /\ found' = i
    /\ obj' = SetConditions([obj EXCEPT !.id = i, !.shown = c.members], "success")
    /\ todo' = SyncPlan(c.members, obj.spec.members)
    /\ pc' = IF todo' = <<>> THEN "updateStatus" ELSE "sync"
    /\ UNCHANGED latest

\* A mistake: what is to be mapped is read off the status, not off the list.
ProceedFromStatus(i, c) ==
    /\ found' = i
    /\ obj' = SetConditions([obj EXCEPT !.id = i, !.shown = c.members], "success")
    /\ todo' = IF allows(obj, "Update") THEN SyncPlan(obj.shown, obj.spec.members) ELSE <<>>
    /\ pc' = IF todo' = <<>> THEN "updateStatus" ELSE "sync"
    /\ UNCHANGED latest

\* The cost center is c, behind identifier i: syncResources if policy allows it,
\* then the status, filled in from c.
Proceed(i, c) ==
    /\ found' = i
    /\ obj' = SetConditions([obj EXCEPT !.id = i, !.shown = c.members], "success")
    /\ todo' = IF allows(obj, "Update") THEN SyncPlan(c.members, obj.spec.members) ELSE <<>>
    /\ pc' = IF todo' = <<>> THEN "updateStatus" ELSE "sync"
    /\ UNCHANGED latest

\* ListCostCenters and findCostCenter, and what ensureCostCenter makes of it.
List ==
    /\ pc = "list"
    /\ LET i == findCostCenter(obj)
       IN  \/ i = None /\ allows(obj, "Create")
              /\ pc' = "create" /\ UNCHANGED <<obj, found, todo, latest>>
           \/ i = None /\ ~allows(obj, "Create") /\ Return
           \/ i # None /\ allows(obj, "Update") /\ centers[i].name # obj.spec.name
              /\ pc' = "rename" /\ found' = i /\ UNCHANGED <<obj, todo, latest>>
           \/ i # None /\ (allows(obj, "Update") => centers[i].name = obj.spec.name)
              /\ Proceed(i, centers[i])
    /\ UNCHANGED env

Create ==
    /\ pc = "create"
    /\ \E i \in Ids : CreateCostCenter(i, obj.spec) /\ Proceed(i, centers'[i])
    /\ UNCHANGED <<api, seen, faults>>

Rename ==
    /\ pc = "rename"
    /\ UpdateCostCenter(found, obj.spec)
    /\ Proceed(found, centers'[found])
    /\ UNCHANGED <<api, seen, faults>>

\* syncResourceSet: the next of the resource calls.
SyncResources ==
    /\ pc = "sync"
    /\ MapResources(found, Head(todo))
    /\ todo' = Tail(todo)
    /\ pc' = IF todo' = <<>> THEN "updateStatus" ELSE "sync"
    /\ UNCHANGED <<api, seen, faults, obj, found, latest>>

StatusUpdate ==
    /\ pc = "updateStatus"
    /\ UpdateStatus(obj)
    /\ pc' = "refetch"
    /\ UNCHANGED <<seen, faults, centers, mine, obj, found, todo, latest>>

Refetch ==
    /\ pc = "refetch"
    /\ seen # Gone
    /\ latest' = [seen EXCEPT !.name = found]
    /\ pc' = "annotate"
    /\ UNCHANGED <<env, obj, found, todo>>

Annotate ==
    /\ pc = "annotate"
    /\ Update(latest)
    /\ Return
    /\ UNCHANGED <<seen, faults, centers, mine>>

\* deleteExternalCostCenter: DELETE, then a GET that must find it deleted.
DeleteExternal ==
    /\ pc = "delete"
    /\ LET i == DeletionTarget(obj)
       IN  \/ DeleteCostCenter(i) /\ pc' = "verify"
           \/ ~Listed(i) /\ pc' = "removeFinalizer" /\ UNCHANGED <<centers, mine>>
    /\ UNCHANGED <<api, seen, faults, obj, found, todo, latest>>

\* A mistake: an accepted DELETE counts as done.
VerifyNothing ==
    /\ pc = "verify"
    /\ pc' = "removeFinalizer"
    /\ UNCHANGED <<env, obj, found, todo, latest>>

\* A mistake: only a cost center that is not found counts as deleted.
VerifyNotFound ==
    /\ pc = "verify"
    /\ ~Listed(DeletionTarget(obj))
    /\ pc' = "removeFinalizer"
    /\ UNCHANGED <<env, obj, found, todo, latest>>

Verify ==
    /\ pc = "verify"
    /\ ~Active(DeletionTarget(obj))
    /\ pc' = "removeFinalizer"
    /\ UNCHANGED <<env, obj, found, todo, latest>>

RemoveFinalizer ==
    /\ pc = "removeFinalizer"
    /\ Update([obj EXCEPT !.finalizer = FALSE])
    /\ Return
    /\ UNCHANGED <<seen, faults, centers, mine>>

\* An error that needs no fault, as in ClusterCostCenter.
Refused ==
    /\ \/ pc \in {"ensureFinalizer", "updateStatus", "removeFinalizer"} /\ ~Current(obj)
       \/ pc = "refetch" /\ seen = Gone
       \/ pc = "annotate" /\ ~Current(latest)
       \/ /\ pc \in {"rename", "sync"}
          /\ ~(Listed(found) /\ centers[found].state = "active")
       \/ pc = "verify" /\ Active(DeletionTarget(obj))
       \/ pc = "create" /\ \A i \in Ids : centers[i] # Unborn
    /\ Return
    /\ UNCHANGED env

\* Any call fails without effect, or the provider stops here.
Abort ==
    /\ pc # "idle"
    /\ Interfere
    /\ Return
    /\ UNCHANGED <<api, seen, centers, mine>>

\* The call took effect, but its answer never reaches the reconciler.
AnswerLost ==
    /\ Interfere
    /\ \/ /\ \/ pc = "create" /\ \E i \in Ids : CreateCostCenter(i, obj.spec)
             \/ pc = "rename" /\ UpdateCostCenter(found, obj.spec)
             \/ pc = "sync" /\ MapResources(found, Head(todo))
             \/ pc = "delete" /\ DeleteCostCenter(DeletionTarget(obj))
          /\ UNCHANGED api
       \/ /\ pc = "updateStatus"
          /\ UpdateStatus(obj)
          /\ UNCHANGED <<centers, mine>>
    /\ Return
    /\ UNCHANGED seen

Controller ==
    \/ Reconcile \/ ensureFinalizer \/ List \/ Create \/ Rename \/ SyncResources
    \/ StatusUpdate \/ Refetch \/ Annotate
    \/ DeleteExternal \/ Verify \/ RemoveFinalizer \/ Refused

\* The cost centers whose name or members a step changes.
Changed ==
    {i \in Ids : Listed(i) /\ Listed(i)'
                  /\ \/ centers'[i].name # centers[i].name
                     \/ centers'[i].members # centers[i].members}

\* Steps of Reconcile, which forgets with each list what others did before.
Step == Controller /\ touched' = IF pc = "list" THEN {} ELSE touched

Next ==
    \/ Step
    \/ (Abort \/ AnswerLost) /\ UNCHANGED touched
    \/ Environment /\ UNCHANGED locals /\ touched' = touched \cup Changed

Spec == Init /\ [][Next]_vars

\* As in ClusterCostCenter.
FairSpec ==
    /\ Spec
    /\ WF_vars(Step)
    /\ WF_vars(Sync /\ UNCHANGED <<centers, mine, locals, touched>>)
    /\ WF_vars(Progress /\ UNCHANGED <<locals, touched>>)

\* What the reconciler promises about the object and the cost center it
\* records: neither a stale copy nor a lost answer, nor a crash between the
\* deletion and the finalizer's removal, loses the recorded identifier or
\* releases the object before its cost center is deleted, which GitHub does
\* asynchronously (costcenter.go:86-165, 251-291).
Promise == INSTANCE Lifecycle WITH
    stage <- Stage, id <- RecordedId, mayDelete <- MayDelete, born <- Born, live <- Alive

ImplementsLifecycle == Promise!Spec

\* No two active cost centers of one name are both this controller's, whichever
\* answers are lost and whoever deletes (costcenter.go:86-165).
NoDuplicates ==
    \A i, j \in mine :
        Active(i) /\ Active(j) /\ centers[i].name = centers[j].name => i = j

\* Available is written to the status only once the cost center has the name and
\* exactly the members of the spec, whatever members it had, whichever calls of an
\* earlier synchronisation failed or lost their answer, and however the user edits
\* the spec meanwhile - unless others changed it after this Reconcile listed it
\* (costcenter.go:86-165).
SpecReached ==
    pc = "updateStatus" /\ found \notin touched /\ allows(obj, "Update") /\ Listed(found) =>
        /\ centers[found].name = obj.spec.name
        /\ centers[found].members = obj.spec.members

\* A step of the reconciler changes a cost center only as the management policies
\* allow, the resource calls included (costcenter.go:126-151, 251-257).
PoliciesRespected == [][obj # Gone /\ locals' # locals => Permitted(obj)]_vars

\* A deleted object eventually goes (costcenter.go:251-272).
DeletionCompletes == (api # Gone /\ api.deleting) ~> (api = Gone)

\* In the end the recorded cost center, if it was not deleted, has the name and
\* exactly the members of the spec, and the status shows them
\* (costcenter.go:86-191).
Converges ==
    <>[](api # Gone /\ ~api.deleting /\ allows(api, "Update")
            /\ Listed(api.id) /\ centers[api.id].state = "active"
            => /\ centers[api.id].name = api.spec.name
               /\ centers[api.id].members = api.spec.members
               /\ api.shown = api.spec.members)
=============================================================================
