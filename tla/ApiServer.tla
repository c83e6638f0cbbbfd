----------------------------- MODULE ApiServer -----------------------------
(***************************************************************************)
(* The Kubernetes API server and the manager's informer cache, as far as   *)
(* the hand-written reconcilers use them, and the user who edits and       *)
(* deletes the managed resource.  One custom resource: controller-runtime  *)
(* never reconciles the same object twice at a time, and objects meet only *)
(* in GitHub.                                                              *)
(*                                                                         *)
(* The reconcilers use client.Client of the manager: Get reads the         *)
(* informer's copy, which lags; Update writes metadata and spec,           *)
(* Status().Update writes status (the CRDs declare the status              *)
(* subresource), and both are refused unless the object sent carries the   *)
(* stored resourceVersion.                                                 *)
(***************************************************************************)
EXTENDS Naturals

CONSTANTS
    Specs,      \* the values of spec.forProvider the user may choose
    Policies,   \* the sets of actions spec.managementPolicies may allow
    Ids,        \* the identifiers GitHub may hand out
    Shown,      \* what else status.atProvider shows of the external resource
    Unshown,    \* its value before there is anything to show
    None,       \* no identifier
    Gone,       \* no such object
    MaxFaults,  \* bound: how often the environment interferes
    MaxTransitions   \* bound: how often the conditions of an object change

\* What the conditions say: nothing yet, that Reconcile went well or failed, or,
\* of the cluster-scoped reconcilers, what Observe saw.
Reports == {"none", "success", "failure", "current", "outdated", "absent"}

\* A managed resource.
Objects ==
    [version   : Nat,                \* metadata.resourceVersion
     deleting  : BOOLEAN,            \* metadata.deletionTimestamp is set
     finalizer : BOOLEAN,            \* this controller's finalizer is listed
     name      : Ids \cup {None},    \* annotation crossplane.io/external-name
     spec      : Specs,              \* spec.forProvider
     allowed   : Policies,           \* what spec.managementPolicies allows
     id        : Ids \cup {None},    \* status.atProvider.id
     shown     : Shown,              \* the rest of status.atProvider
     report    : Reports,            \* status.conditions
     since     : 0 .. MaxTransitions]   \* how often they changed

ASSUME AbsentAssumption ==
    /\ None \notin Ids
    /\ Policies \subseteq SUBSET {"Create", "Update", "Delete"}
    /\ Unshown \in Shown
    /\ Gone \notin Objects
    /\ MaxFaults \in Nat /\ MaxTransitions \in Nat

VARIABLES
    api,     \* the stored object
    seen,    \* the informer's copy of it
    faults   \* how often the environment has interfered

\* The object the user applied.
NewObject(s, p) ==
    [version |-> 1, deleting |-> FALSE, finalizer |-> FALSE, name |-> None,
     spec |-> s, allowed |-> p, id |-> None, shown |-> Unshown,
     report |-> "none", since |-> 0]

\* allows: whether the management policies of a copy include an action.
allows(o, action) == action \in o.allowed

\* The object as the user sees it come and go, and what it records.
Stage == IF api = Gone THEN "gone" ELSE IF api.deleting THEN "deleting" ELSE "present"
RecordedId == IF api = Gone THEN None ELSE api.id
MayDelete == api # Gone /\ allows(api, "Delete")

\* A write that changes nothing is accepted and changes nothing; a deleted
\* object disappears with its last finalizer.
Stored(new) ==
    IF new = api THEN api
    ELSE IF new.deleting /\ ~new.finalizer THEN Gone
    ELSE [new EXCEPT !.version = api.version + 1]

\* The optimistic concurrency check.
Current(sent) == api # Gone /\ sent.version = api.version

\* A condition gets a new message or transition time; a bound of the model, not
\* for ever.
Transition(o, r) ==
    IF o.since = MaxTransitions THEN o
    ELSE [o EXCEPT !.report = r, !.since = @ + 1]

\* Status.SetConditions: a condition that says the same is left as it is.
SetConditions(o, r) == IF o.report = r THEN o ELSE Transition(o, r)

\* What a status update sends: an error may have another text than the last one,
\* and Available is set without and then with its message, which renews it at
\* every pass, unless the clock's second is the same.
Conditions(o, r) ==
    {SetConditions(o, r)}
    \cup (IF r \in {"failure", "current"} THEN {Transition(o, r)} ELSE {})

\* r.Update(ctx, sent)
Update(sent) ==
    /\ Current(sent)
    /\ api' = Stored([api EXCEPT !.finalizer = sent.finalizer, !.name = sent.name])

\* r.Status().Update(ctx, sent)
UpdateStatus(sent) ==
    /\ Current(sent)
    /\ api' = Stored([api EXCEPT !.id = sent.id, !.shown = sent.shown,
                                 !.report = sent.report, !.since = sent.since])

\* The informer catches up.
Sync ==
    /\ seen # api
    /\ seen' = api
    /\ UNCHANGED <<api, faults>>

Interfere == faults < MaxFaults /\ faults' = faults + 1

\* The user changes spec.forProvider or spec.managementPolicies.
UserEdits ==
    /\ Interfere
    /\ api # Gone
    /\ \/ \E s \in Specs \ {api.spec} : api' = Stored([api EXCEPT !.spec = s])
       \/ \E p \in Policies \ {api.allowed} : api' = Stored([api EXCEPT !.allowed = p])
    /\ UNCHANGED seen

\* The user deletes the object.
UserDeletes ==
    /\ api # Gone
    /\ ~api.deleting
    /\ api' = Stored([api EXCEPT !.deleting = TRUE])
    /\ UNCHANGED <<seen, faults>>
=============================================================================
