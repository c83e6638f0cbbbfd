--------------------------- MODULE ProviderConfigs ---------------------------
(***************************************************************************)
(* One ProviderConfig, the resources that refer to it and the              *)
(* ProviderConfigUsages that are to keep it from being deleted under them. *)
(*                                                                         *)
(* Three kinds of controllers use a ProviderConfig, and each accounts for  *)
(* it differently.  The generated ones ask the cache of Terraform setups   *)
(* (module TerraformSetupCache), which resolves the ProviderConfig and     *)
(* tracks the usage only when it builds; the namespaced hand-written ones  *)
(* track the usage and then read the ProviderConfig, but do not track when *)
(* they delete; the cluster-scoped hand-written ones read it and track     *)
(* nothing.  The usage count and the finalizer are kept by the library's   *)
(* reconciler as internal/controller/*/providerconfig set it up.           *)
(*                                                                         *)
(* What a resource does in GitHub is abstracted to whether its external    *)
(* resource exists; readers see the ProviderConfig as it is stored, only   *)
(* the list of usages comes from an informer that lags.                    *)
(***************************************************************************)
EXTENDS Naturals

CONSTANTS
    Generated,   \* resources of generated controllers
    Tracking,    \* Budgets and CostCenters of the namespaced scope
    Untracked,   \* Budgets and CostCenters of the cluster scope
    MaxFaults    \* bound: crashes and failing calls

Users == Generated \cup Tracking \cup Untracked

ASSUME ProviderConfigAssumption ==
    /\ Generated \cap Tracking = {}
    /\ Untracked \cap (Generated \cup Tracking) = {}
    /\ MaxFaults \in Nat

VARIABLES
    config,      \* the ProviderConfig: "present", "deleting" or "gone"
    finalizer,   \* it has the finalizer of its reconciler
    queued,      \* a request for it is in that reconciler's queue
    releasing,   \* that reconciler counted no usage and is about to release it
    usages,      \* the resources that have a ProviderConfigUsage
    listed,      \* the informer's copy of the usages
    cached,      \* the cache of Terraform setups has a fresh entry for it
    stage,       \* of each resource: "present", "deleting" or "gone"
    external,    \* whether its external resource exists
    at,          \* where its Reconcile is, and what it is about
    counted,     \* history: the users listed when its deletion was requested or counted
    relying,     \* history: the resources with an external resource at that time
    faults       \* how often the environment has interfered

configVars == <<config, finalizer, queued, releasing, counted, relying>>
vars == <<configVars, usages, listed, cached, stage, external, at, faults>>

Idle == [job |-> "none", step |-> "idle"]

TypeOK ==
    /\ config \in {"present", "deleting", "gone"}
    /\ finalizer \in BOOLEAN /\ queued \in BOOLEAN /\ releasing \in BOOLEAN
    /\ usages \subseteq Users /\ listed \subseteq Users
    /\ cached \in BOOLEAN
    /\ stage \in [Users -> {"present", "deleting", "gone"}]
    /\ external \in [Users -> BOOLEAN]
    /\ at \in [Users -> [job : {"none", "apply", "delete"},
                         step : {"idle", "get", "track", "store", "act"}]]
    /\ \A u \in Tracking :
          at[u].job = "apply" /\ at[u].step # "track" => u \in usages
    /\ counted \subseteq Users /\ relying \subseteq Users
    /\ faults \in 0 .. MaxFaults

Init ==
    /\ config = "present" /\ finalizer = FALSE /\ queued = TRUE /\ releasing = FALSE
    /\ usages = {} /\ listed = {}
    /\ cached = FALSE
    /\ stage = [u \in Users |-> "present"]
    /\ external = [u \in Users |-> FALSE]
    /\ at = [u \in Users |-> Idle]
    /\ counted = {} /\ relying = {}
    /\ faults = 0

Interfere == faults < MaxFaults /\ faults' = faults + 1

-----------------------------------------------------------------------------
(* The controllers of the resources.                                       *)

\* Reconcile of u goes on with step s.
Goto(u, s) == at' = [at EXCEPT ![u].step = s]

\* Reconcile of u begins job j at step s.
Begin(u, j, s) == at' = [at EXCEPT ![u] = [job |-> j, step |-> s]]

Return(u) == at' = [at EXCEPT ![u] = Idle]

Job(u) == IF stage[u] = "present" THEN "apply" ELSE "delete"

\* A generated controller connects, for whatever it will do: the SetupFn finds a
\* fresh Setup in the cache, or resolves the ProviderConfig.
Connect(u) ==
    /\ u \in Generated
    /\ at[u] = Idle /\ stage[u] # "gone"
    /\ Begin(u, Job(u), IF cached THEN "act" ELSE "get")
    /\ UNCHANGED <<configVars, usages, listed, cached, stage, external, faults>>

\* A mistake: the namespaced one does not track either.
ApplyUntracked(u) ==
    /\ u \in Tracking \cup Untracked
    /\ at[u] = Idle /\ stage[u] = "present"
    /\ Begin(u, "apply", "get")
    /\ UNCHANGED <<configVars, usages, listed, cached, stage, external, faults>>

\* A hand-written controller applies; the namespaced one tracks first.
Apply(u) ==
    /\ u \in Tracking \cup Untracked
    /\ at[u] = Idle /\ stage[u] = "present"
    /\ Begin(u, "apply", IF u \in Tracking THEN "track" ELSE "get")
    /\ UNCHANGED <<configVars, usages, listed, cached, stage, external, faults>>

\* It deletes what was created; otherwise it only removes its finalizer.
Delete(u) ==
    /\ u \in Tracking \cup Untracked
    /\ at[u] = Idle /\ stage[u] = "deleting"
    /\ \/ external[u] /\ Begin(u, "delete", "get") /\ UNCHANGED stage
       \/ ~external[u] /\ stage' = [stage EXCEPT ![u] = "gone"] /\ UNCHANGED at
    /\ UNCHANGED <<configVars, usages, listed, cached, external, faults>>

\* A mistake: a ProviderConfig that is being deleted is not used any more.
GetConfigUndeleted(u) ==
    /\ at[u].step = "get" /\ config = "present"
    /\ Goto(u, IF u \in Generated THEN "track" ELSE "act")
    /\ UNCHANGED <<configVars, usages, listed, cached, stage, external, faults>>

\* Get the ProviderConfig, deleted or not.
GetConfig(u) ==
    /\ at[u].step = "get" /\ config # "gone"
    /\ Goto(u, IF u \in Generated THEN "track" ELSE "act")
    /\ UNCHANGED <<configVars, usages, listed, cached, stage, external, faults>>

GetConfigFails(u) ==
    /\ at[u].step = "get" /\ config = "gone"
    /\ Return(u)
    /\ UNCHANGED <<configVars, usages, listed, cached, stage, external, faults>>

\* Track: the usage is created, or there already.
Track(u) ==
    /\ at[u].step = "track"
    /\ usages' = usages \cup {u}
    /\ Goto(u, IF u \in Generated THEN "store" ELSE "get")
    /\ UNCHANGED <<configVars, listed, cached, stage, external, faults>>

\* The Setup is built and cached.
Store(u) ==
    /\ at[u].step = "store"
    /\ cached' = TRUE
    /\ Goto(u, "act")
    /\ UNCHANGED <<configVars, usages, listed, stage, external, faults>>

\* The external resource is created or kept, or deleted and the resource with it.
Act(u) ==
    /\ at[u].step = "act"
    /\ external' = [external EXCEPT ![u] = at[u].job = "apply"]
    /\ stage' = IF at[u].job = "delete" THEN [stage EXCEPT ![u] = "gone"] ELSE stage
    /\ Return(u)
    /\ UNCHANGED <<configVars, usages, listed, cached, faults>>

\* Any call fails.
Abort(u) ==
    /\ at[u] # Idle
    /\ Interfere
    /\ Return(u)
    /\ UNCHANGED <<configVars, usages, listed, cached, stage, external>>

\* The entry's time to live is over.
Expire ==
    /\ cached
    /\ cached' = FALSE
    /\ UNCHANGED <<configVars, usages, listed, stage, external, at, faults>>

Controller(u) ==
    \/ Connect(u) \/ Apply(u) \/ Delete(u) \/ GetConfig(u) \/ GetConfigFails(u)
    \/ Track(u) \/ Store(u) \/ Act(u)

-----------------------------------------------------------------------------
(* The reconciler of the ProviderConfig.                                   *)

\* A mistake: the list is one of another kind.
UsersNone == {}

\* The usages that its reconciler lists (ProviderConfigKinds.UsageList).
UsersOf == listed

\* The reconciler adds its finalizer, or counts the usages of a deleted
\* ProviderConfig; if there are some it waits to be told of a change.
ReconcileConfig ==
    /\ queued /\ ~releasing
    /\ queued' = FALSE
    /\ finalizer' = (finalizer \/ config = "present")
    /\ releasing' = (config = "deleting" /\ UsersOf = {})
    /\ counted' = IF config = "deleting" THEN counted \cup listed ELSE counted
    /\ UNCHANGED <<config, relying, usages, listed, cached, stage,
                   external, at, faults>>

\* It removes its finalizer, whatever happened since it counted.
ReleaseConfig ==
    /\ releasing
    /\ releasing' = FALSE
    /\ finalizer' = FALSE
    /\ config' = "gone"
    /\ UNCHANGED <<queued, counted, relying, usages, listed, cached, stage,
                   external, at, faults>>

\* A call fails; the request is retried.
ReleaseFails ==
    /\ releasing
    /\ Interfere
    /\ releasing' = FALSE
    /\ queued' = TRUE
    /\ UNCHANGED <<config, finalizer, counted, relying, usages, listed, cached, stage,
                   external, at>>

\* A mistake: only the ProviderConfig itself is watched.
SyncUsagesSilently ==
    /\ listed # usages
    /\ listed' = usages
    /\ UNCHANGED <<configVars, usages, cached, stage, external, at, faults>>

\* The informer catches up, and as usages are watched, too, each change of them
\* enqueues the ProviderConfig.
SyncUsages ==
    /\ listed # usages
    /\ listed' = usages
    /\ queued' = TRUE
    /\ UNCHANGED <<config, finalizer, releasing, counted, relying, usages, cached,
                   stage, external, at, faults>>

-----------------------------------------------------------------------------
(* Users, Kubernetes, and the end of a process.                            *)

DeleteResource(u) ==
    /\ stage[u] = "present"
    /\ stage' = [stage EXCEPT ![u] = "deleting"]
    /\ UNCHANGED <<configVars, usages, listed, cached, external, at, faults>>

DeleteConfig ==
    /\ config = "present"
    /\ config' = IF finalizer THEN "deleting" ELSE "gone"
    /\ queued' = TRUE
    /\ counted' = IF finalizer THEN listed ELSE {}
    /\ relying' = IF finalizer THEN {u \in Users : external[u]} ELSE {}
    /\ UNCHANGED <<finalizer, releasing, usages, listed, cached, stage, external,
                   at, faults>>

\* A usage is owned by the resource it is for.
CollectGarbage(u) ==
    /\ u \in usages /\ stage[u] = "gone"
    /\ usages' = usages \ {u}
    /\ UNCHANGED <<configVars, listed, cached, stage, external, at, faults>>

\* The provider stops and starts again: every object is enqueued.
Crash ==
    /\ Interfere
    /\ at' = [u \in Users |-> Idle]
    /\ cached' = FALSE /\ releasing' = FALSE /\ queued' = TRUE
    /\ UNCHANGED <<config, finalizer, counted, relying, usages, listed, stage, external>>

Next ==
    \/ \E u \in Users : Controller(u) \/ Abort(u) \/ DeleteResource(u) \/ CollectGarbage(u)
    \/ Expire
    \/ ReconcileConfig \/ ReleaseConfig \/ ReleaseFails \/ SyncUsages
    \/ DeleteConfig \/ Crash

Spec == Init /\ [][Next]_vars

(***************************************************************************)
(* Resources are reconciled again and again and calls return, the queue of *)
(* the ProviderConfig's reconciler is served, the informer catches up and  *)
(* Kubernetes collects garbage.  The periodic resync is not relied upon.   *)
(***************************************************************************)
Fairness ==
    /\ \A u \in Users : WF_vars(Controller(u)) /\ WF_vars(CollectGarbage(u))
    /\ WF_vars(ReconcileConfig) /\ WF_vars(ReleaseConfig) /\ WF_vars(SyncUsages)

FairSpec == Spec /\ Fairness

-----------------------------------------------------------------------------
\* A ProviderConfig outlives every resource whose usage its reconciler listed, when
\* the deletion was requested or at any count since, although the informer that
\* lists them lags and the release is a later step (config.go:18-32,
\* github.go:314-372).  Those tracked but not listed by then it does not wait for.
CountedKeepConfig ==
    config = "gone" => \A u \in counted : stage[u] = "gone"

\* A deleted ProviderConfig and its deleted users do not wait for each other: it
\* goes once none of them is wanted any more, told by the usages that vanish and
\* not by the next resync (config.go:27-32).
ConfigReleased ==
    (config = "deleting" /\ \A u \in Users : stage[u] # "present") ~> config = "gone"

\* A deleted resource goes, unless its ProviderConfig went before and had not
\* counted it: it can use a ProviderConfig that is being deleted itself
\* (namespaced budget.go:320-351, github.go:325-370).
DeletedUsersGo ==
    \A u \in Users :
        stage[u] = "deleting" ~>
            stage[u] = "gone" \/ (config = "gone" /\ u \notin counted)

-----------------------------------------------------------------------------
(* What the comments say and the code does not do.                         *)

\* "Setup adds a controller that reconciles ProviderConfigs by accounting for
\* their current usage": a ProviderConfig does not go while a resource still has
\* an external resource that it already had when the ProviderConfig was deleted
\* (cluster/providerconfig/config.go:13-14).
UsersKeepConfig ==
    config = "gone" => \A u \in relying : ~external[u]
=============================================================================
