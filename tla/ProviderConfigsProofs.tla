------------------------ MODULE ProviderConfigsProofs -----------------------
(***************************************************************************)
(* What ProviderConfigs guarantees for any number of resources of each     *)
(* sort.                                                                   *)
(***************************************************************************)
EXTENDS ProviderConfigs, TLAPS

\* A usage that the informer still shows is stored, or its resource is gone.
ListedAreUsers == \A u \in listed : u \in usages \/ stage[u] = "gone"

\* A Reconcile ends before its resource is gone.
WorkingExists == \A u \in Users : at[u].job # "none" => stage[u] # "gone"

\* A resource that was listed when the deletion was requested or counted is listed
\* for as long as it exists.
CountedAreListed ==
    /\ config = "present" => counted = {}
    /\ \A u \in counted : stage[u] = "gone" \/ (u \in usages /\ u \in listed)

\* The ProviderConfig is about to be released, or was, only if they are gone.
CountedAreGone ==
    releasing \/ config = "gone" => \A u \in counted : stage[u] = "gone"

\* Only a ProviderConfig that is being deleted is released.
ReleasingIsDeleting == releasing => config = "deleting"

Inv ==
    /\ TypeOK
    /\ WorkingExists
    /\ ListedAreUsers
    /\ CountedAreListed
    /\ CountedAreGone
    /\ ReleasingIsDeleting
-----------------------------------------------------------------------------
LEMMA InitInv == Init => Inv
  <1> SUFFICES ASSUME Init PROVE Inv
    OBVIOUS
  <1>1. finalizer \in BOOLEAN /\ queued \in BOOLEAN /\ releasing \in BOOLEAN /\ cached \in BOOLEAN
    BY Zenon DEF Init
  <1>2. faults \in 0 .. MaxFaults
    BY ProviderConfigAssumption DEF Init
  <1>3. /\ stage \in [Users -> {"present", "deleting", "gone"}]
        /\ external \in [Users -> BOOLEAN]
        /\ at \in [Users -> [job : {"none", "apply", "delete"},
                             step : {"idle", "get", "track", "store", "act"}]]
    BY DEF Init, Idle
  <1>4. TypeOK
    BY <1>1, <1>2, <1>3 DEF Init, TypeOK, Users, Idle
  <1>5. WorkingExists /\ ListedAreUsers /\ CountedAreListed /\ CountedAreGone /\ ReleasingIsDeleting
    BY DEF Init, WorkingExists, Idle, ListedAreUsers, CountedAreListed, CountedAreGone,
           ReleasingIsDeleting
  <1> QED
    BY <1>4, <1>5 DEF Inv

\* A resource's Reconcile never brings back one that is gone.
LEMMA UserInv ==
  ASSUME Inv, NEW u \in Users, Controller(u) \/ Abort(u)
  PROVE  Inv'
  <1> USE ProviderConfigAssumption
  <1> USE DEF Inv, TypeOK, WorkingExists, ListedAreUsers, CountedAreListed, CountedAreGone,
              ReleasingIsDeleting, configVars, Goto, Begin, Return, Idle, Job
  <1>1. CASE Connect(u)
    <2>1. u \notin Tracking
      BY <1>1 DEF Connect
    <2>2. at' = [at EXCEPT ![u] = [job |-> IF stage[u] = "present" THEN "apply" ELSE "delete",
                                  step |-> IF cached THEN "act" ELSE "get"]]
      BY <1>1 DEF Connect
    <2>3. \A v \in Tracking : at'[v] = at[v]
      BY <2>1, <2>2 DEF Users
    <2>4. stage[u] # "gone" /\ UNCHANGED <<configVars, usages, listed, cached, stage,
                                         external, faults>>
      BY <1>1 DEF Connect
    <2>5. at' \in [Users -> [job : {"none", "apply", "delete"},
                             step : {"idle", "get", "track", "store", "act"}]]
      BY <2>2
    <2>6. WorkingExists'
      BY <2>2, <2>4
    <2>7. \A v \in Tracking :
             at'[v].job = "apply" /\ at'[v].step # "track" => v \in usages'
      BY <2>3, <2>4
    <2>8. TypeOK'
      BY <2>4, <2>5, <2>7
    <2> QED
      BY <2>4, <2>6, <2>8
  <1>2. CASE Apply(u)
    BY <1>2 DEF Apply
  <1>3. CASE Delete(u)
    <2>1. CASE external[u]
      <3>1. /\ at' = [at EXCEPT ![u] = [job |-> "delete", step |-> "get"]]
            /\ stage[u] = "deleting"
            /\ UNCHANGED <<configVars, usages, listed, cached, stage, external, faults>>
        BY <1>3, <2>1 DEF Delete
      <3>2. \A v \in Tracking :
               at'[v].job = "apply" /\ at'[v].step # "track" => v \in usages'
        BY <3>1 DEF Users
      <3> QED
        BY <3>1, <3>2
    <2>2. CASE ~external[u]
      BY <1>3, <2>2 DEF Delete
    <2> QED
      BY <2>1, <2>2
  <1>4. CASE GetConfig(u)
    BY <1>4 DEF GetConfig
  <1>5. CASE GetConfigFails(u)
    BY <1>5 DEF GetConfigFails
  <1>6. CASE Track(u)
    BY <1>6 DEF Track
  <1>7. CASE Store(u)
    BY <1>7 DEF Store
  <1>8. CASE Act(u)
    BY <1>8 DEF Act
  <1>9. CASE Abort(u)
    BY <1>9 DEF Abort, Interfere
  <1> QED
    BY <1>1, <1>2, <1>3, <1>4, <1>5, <1>6, <1>7, <1>8, <1>9 DEF Controller

LEMMA StepInv == Inv /\ [Next]_vars => Inv'
  <1> SUFFICES ASSUME Inv, [Next]_vars PROVE Inv'
    OBVIOUS
  <1> USE ProviderConfigAssumption
  <1> USE DEF Inv, TypeOK, WorkingExists, ListedAreUsers, CountedAreListed, CountedAreGone,
              ReleasingIsDeleting, configVars
  <1>1. CASE UNCHANGED vars
    BY <1>1 DEF vars
  <1>2. ASSUME NEW u \in Users, Controller(u) \/ Abort(u) PROVE Inv'
    BY <1>2, UserInv
  <1>3. ASSUME NEW u \in Users, DeleteResource(u) PROVE Inv'
    BY <1>3 DEF DeleteResource
  <1>4. ASSUME NEW u \in Users, CollectGarbage(u) PROVE Inv'
    BY <1>4 DEF CollectGarbage
  <1>5. CASE Expire
    BY <1>5 DEF Expire
  <1>6. CASE ReconcileConfig
    BY <1>6 DEF ReconcileConfig, UsersOf
  <1>7. CASE ReleaseConfig
    BY <1>7 DEF ReleaseConfig
  <1>8. CASE ReleaseFails
    <2>1. releasing' \in BOOLEAN /\ queued' \in BOOLEAN
      BY <1>8, Zenon DEF ReleaseFails
    <2>2. faults' \in 0 .. MaxFaults
      BY <1>8 DEF ReleaseFails, Interfere
    <2> QED
      BY <1>8, <2>1, <2>2 DEF ReleaseFails
  <1>9. CASE SyncUsages
    BY <1>9 DEF SyncUsages
  <1>10. CASE DeleteConfig
    BY <1>10 DEF DeleteConfig
  <1>11. CASE Crash
    <2>1. releasing' \in BOOLEAN /\ queued' \in BOOLEAN /\ cached' \in BOOLEAN
      BY <1>11, Zenon DEF Crash
    <2>2. faults' \in 0 .. MaxFaults
      BY <1>11 DEF Crash, Interfere
    <2>3. at' \in [Users -> [job : {"none", "apply", "delete"},
                             step : {"idle", "get", "track", "store", "act"}]]
      BY <1>11 DEF Crash, Idle
    <2> QED
      BY <1>11, <2>1, <2>2, <2>3 DEF Crash, Idle, Users
  <1> QED
    BY <1>1, <1>2, <1>3, <1>4, <1>5, <1>6, <1>7, <1>8, <1>9, <1>10, <1>11 DEF Next

LEMMA Invariance == Spec => []Inv
  BY InitInv, StepInv, PTL DEF Spec

\* The type invariant of a ProviderConfig and its users (github.go:174-372,
\* providerconfig/config.go).
THEOREM TypeCorrect == Spec => []TypeOK
  <1>1. Inv => TypeOK
    BY DEF Inv
  <1> QED
    BY <1>1, Invariance, PTL

\* However many resources use it, a ProviderConfig outlives those whose usages were
\* listed when its deletion was requested or counted by its reconciler since.  It
\* does not wait for a usage that is stored but not listed by the last count, or
\* tracked after it (config.go:18-32, github.go:314-372).
THEOREM CountedKeep == Spec => []CountedKeepConfig
  <1>1. Inv => CountedKeepConfig
    BY DEF Inv, CountedAreGone, CountedKeepConfig
  <1> QED
    BY <1>1, Invariance, PTL
=============================================================================
