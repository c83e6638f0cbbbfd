--------------------- MODULE NamespacedCostCenterProofs ---------------------
(***************************************************************************)
(* What NamespacedCostCenter guarantees for any number of identifiers,     *)
(* names, organizations, repositories, specs and policies and any number   *)
(* of faults: first what the calls of GitHubService and other users do to  *)
(* the cost centers, then the invariant of the reconciler.  New compared   *)
(* with the budgets is that deletion takes several steps, which others may *)
(* begin, and that a synchronisation of several calls precedes the status. *)
(***************************************************************************)
EXTENDS NamespacedCostCenter, ApiServerProofs, SequenceTheorems

CentersOK ==
    /\ centers \in [Ids -> CostCenterValues \cup {Unborn, Purged}]
    /\ mine \subseteq Ids

\* Identifiers are handed out once and for all, and no cost center comes back.
Grows == Born \subseteq Born' /\ Alive' \subseteq Alive \cup (Born' \ Born)

\* The identifier a copy records was handed out.
Known(o) == o # Gone /\ o.id # None => o.id \in Born

\* The resource calls.
Calls == [add : BOOLEAN, names : SUBSET Members]

\* This controller made no new cost center, and those that are still its own keep
\* their name or have one that a spec asks for.
MineKept ==
    /\ mine' \subseteq mine
    /\ \A i \in mine' : Listed(i)' =>
          /\ Listed(i)
          /\ \/ centers'[i].name = centers[i].name
             \/ \E s \in Specs : centers'[i].name = s.name
-----------------------------------------------------------------------------
LEMMA BornAlive == CentersOK => Alive \subseteq Born /\ Born \subseteq Ids
  BY CostCenterAssumption DEF CentersOK, Born, Alive, Active, Listed

LEMMA Same == UNCHANGED centers => Born' = Born /\ Alive' = Alive
  BY DEF Born, Alive, Active, Listed

\* An identifier that was handed out and has no cost center never has one again.
LEMMA StaysDead ==
  ASSUME Grows, NEW i \in Born \cup {None}, i \notin Alive
  PROVE  i \notin Alive'
  BY AbsentAssumption DEF Grows, Alive

\* findCostCenter returns a cost center of the list or None; the recorded
\* identifier, if it is in the list; and None only if neither that nor the name is.
LEMMA FindCostCenter ==
  ASSUME NEW o \in Objects
  PROVE  /\ findCostCenter(o) \in Ids \cup {None}
         /\ findCostCenter(o) # None => Listed(findCostCenter(o))
         /\ findCostCenter(o) # o.id => ~Listed(o.id)
         /\ findCostCenter(o) = None =>
               \A i \in Ids : Listed(i) => centers[i].name # o.spec.name
  <1> DEFINE named == {i \in Ids : Listed(i) /\ centers[i].name = o.spec.name}
  <1>1. CASE Listed(o.id)
    BY <1>1, AbsentAssumption DEF findCostCenter, Listed
  <1>2. CASE ~Listed(o.id) /\ named = {}
    BY <1>2 DEF findCostCenter
  <1>3. CASE ~Listed(o.id) /\ named # {}
    <2>1. named \in SUBSET Nat
      BY CostCenterAssumption
    <2>2. \E i \in named : \A j \in named : i <= j
      BY <1>3, <2>1, LeastElement
    <2>3. findCostCenter(o) = CHOOSE i \in named : \A j \in named : i <= j
      BY <1>3 DEF findCostCenter
    <2>4. findCostCenter(o) \in named
      BY <2>2, <2>3
    <2> QED
      BY <1>3, <2>4, AbsentAssumption
  <1> QED
    BY <1>1, <1>2, <1>3

\* What is planned is a sequence of calls.
LEMMA SyncPlanType ==
  ASSUME NEW current \in SUBSET Members, NEW desired \in SUBSET Members
  PROVE  SyncPlan(current, desired) \in Seq(Calls)
  <1>1. ASSUME NEW add \in BOOLEAN, NEW names \in SUBSET Members
        PROVE  ResourceCall(add, names) \in Seq(Calls)
    <2>1. [add |-> add, names |-> names] \in Calls
      BY DEF Calls
    <2> QED
      BY <2>1 DEF ResourceCall
  <1> DEFINE a == ResourceCall(TRUE, (desired \ current) \cap Organizations)
             b == ResourceCall(FALSE, (current \ desired) \cap Organizations)
             c == ResourceCall(TRUE, (desired \ current) \cap Repositories)
             d == ResourceCall(FALSE, (current \ desired) \cap Repositories)
  <1>2. a \in Seq(Calls) /\ b \in Seq(Calls) /\ c \in Seq(Calls) /\ d \in Seq(Calls)
    BY <1>1
  <1>3. SyncPlan(current, desired) = a \o b \o c \o d
    BY DEF SyncPlan
  <1> HIDE DEF a, b, c, d
  <1>4. a \o b \in Seq(Calls)
    BY <1>2, ConcatProperties
  <1>5. (a \o b) \o c \in Seq(Calls)
    BY <1>2, <1>4, ConcatProperties
  <1> QED
    BY <1>2, <1>3, <1>5, ConcatProperties

\* One listed cost center changes, and none comes back from deletion.
LEMMA ChangeFacts ==
  ASSUME CentersOK, NEW i \in Ids, NEW v \in CostCenterValues \cup {Purged},
         centers[i] \in CostCenterValues,
         centers' = [centers EXCEPT ![i] = v],
         v \in CostCenterValues /\ v.state # "deleted" => centers[i].state # "deleted",
         mine' \subseteq mine
  PROVE  /\ CentersOK' /\ Grows
         /\ centers'[i] = v
         /\ \A j \in Ids \ {i} : centers'[j] = centers[j]
         /\ v \in CostCenterValues => Listed(i)'
         /\ v \notin CostCenterValues \/ v.state = "deleted" => i \notin Alive'
         /\ v = Purged \/ v.name = centers[i].name \/ (\E s \in Specs : v.name = s.name)
               => MineKept
  <1>1. centers'[i] = v /\ \A j \in Ids \ {i} : centers'[j] = centers[j]
    BY DEF CentersOK
  <1>2. CentersOK'
    BY DEF CentersOK
  <1>3. Born' = Born
    BY <1>1, CostCenterAssumption DEF Born
  <1>4. Alive' \subseteq Alive
    BY <1>1 DEF Alive, Active, Listed
  <1>5. v \notin CostCenterValues \/ v.state = "deleted" => i \notin Alive'
    BY <1>1 DEF Alive, Active, Listed
  <1>6. ASSUME v = Purged \/ v.name = centers[i].name \/ (\E s \in Specs : v.name = s.name)
        PROVE  MineKept
    BY <1>1, <1>6, CostCenterAssumption DEF MineKept, Listed, CentersOK
  <1> QED
    BY <1>1, <1>2, <1>3, <1>4, <1>5, <1>6 DEF Grows, Listed

LEMMA CreateFacts ==
  ASSUME CentersOK, NEW i \in Ids, NEW s \in Specs, CreateCostCenter(i, s)
  PROVE  CentersOK' /\ Grows /\ i \in Born' /\ centers'[i] \in CostCenterValues
  <1> DEFINE v == [name |-> s.name, state |-> "active", members |-> {}]
  <1>1. v \in CostCenterValues
    BY CostCenterAssumption DEF CostCenterValues, States
  <1>2. centers[i] = Unborn /\ centers' = [centers EXCEPT ![i] = v] /\ mine' = mine \cup {i}
    BY DEF CreateCostCenter
  <1> HIDE DEF v
  <1>3. CentersOK'
    BY <1>1, <1>2 DEF CentersOK
  <1>4. centers'[i] = v /\ \A j \in Ids \ {i} : centers'[j] = centers[j]
    BY <1>2 DEF CentersOK
  <1>5. i \in Born' /\ i \notin Born
    BY <1>1, <1>2, <1>4, CostCenterAssumption DEF Born
  <1>6. Grows
    BY <1>4, <1>5 DEF Grows, Born, Alive, Active, Listed
  <1> QED
    BY <1>1, <1>3, <1>4, <1>5, <1>6

LEMMA RenameFacts ==
  ASSUME CentersOK, NEW i, NEW s \in Specs, UpdateCostCenter(i, s)
  PROVE  /\ CentersOK' /\ Grows /\ MineKept
         /\ i \in Ids /\ centers'[i] \in CostCenterValues
         /\ centers'[i].state = centers[i].state
         /\ \A j \in Ids \ {i} : centers'[j] = centers[j]
  <1>1. i \in Ids /\ centers[i] \in CostCenterValues
    BY DEF UpdateCostCenter, Listed
  <1> DEFINE v == [centers[i] EXCEPT !.name = s.name]
  <1>2. v \in CostCenterValues /\ v.name = s.name /\ v.state = centers[i].state
    BY <1>1, CostCenterAssumption DEF CostCenterValues
  <1>3. centers' = [centers EXCEPT ![i] = v] /\ mine' = mine
    BY DEF UpdateCostCenter
  <1> HIDE DEF v
  <1> QED
    BY <1>1, <1>2, <1>3, ChangeFacts

LEMMA MapFacts ==
  ASSUME CentersOK, NEW i, NEW call \in Calls, MapResources(i, call)
  PROVE  /\ CentersOK' /\ Grows /\ MineKept
         /\ i \in Ids /\ Listed(i) /\ centers'[i] \in CostCenterValues
         /\ centers'[i].state = centers[i].state
         /\ \A j \in Ids \ {i} : centers'[j] = centers[j]
  <1>1. i \in Ids /\ centers[i] \in CostCenterValues /\ Listed(i)
    BY DEF MapResources, Listed
  <1> DEFINE now == IF call.add THEN centers[i].members \cup call.names
                                ELSE centers[i].members \ call.names
             v == [centers[i] EXCEPT !.members = now]
  <1>2. now \in SUBSET Members
    BY <1>1 DEF CostCenterValues, Calls
  <1>3. centers' = [centers EXCEPT ![i] = v] /\ mine' = mine
    BY DEF MapResources
  <1> HIDE DEF now
  <1>4. v \in CostCenterValues /\ v.name = centers[i].name /\ v.state = centers[i].state
    BY <1>1, <1>2 DEF CostCenterValues
  <1> HIDE DEF v
  <1> QED
    BY <1>1, <1>3, <1>4, ChangeFacts

\* A listed cost center moves on in its deletion.
LEMMA StateFacts ==
  ASSUME CentersOK, NEW i \in Ids, centers[i] \in CostCenterValues,
         NEW st \in {"deleting", "deleted"},
         centers[i].state = "deleted" => st = "deleted",
         centers' = [centers EXCEPT ![i].state = st], mine' = mine
  PROVE  /\ CentersOK' /\ Grows /\ MineKept
         /\ \A j \in Ids \ {i} : centers'[j] = centers[j]
  <1> DEFINE v == [centers[i] EXCEPT !.state = st]
  <1>1. v \in CostCenterValues /\ v.name = centers[i].name /\ v.state = st
    BY DEF CostCenterValues, States
  <1>2. centers' = [centers EXCEPT ![i] = v]
    OBVIOUS
  <1> HIDE DEF v
  <1> QED
    BY <1>1, <1>2, ChangeFacts

LEMMA PurgeFacts ==
  ASSUME CentersOK, NEW i \in Ids, centers[i] \in CostCenterValues,
         centers' = [centers EXCEPT ![i] = Purged], mine' = mine
  PROVE  /\ CentersOK' /\ Grows /\ MineKept
         /\ \A j \in Ids \ {i} : centers'[j] = centers[j]
  BY ChangeFacts, CostCenterAssumption

LEMMA DeleteFacts ==
  ASSUME CentersOK, NEW i, DeleteCostCenter(i)
  PROVE  /\ CentersOK' /\ Grows /\ MineKept
         /\ i \in Ids /\ Listed(i)
         /\ \A j \in Ids \ {i} : centers'[j] = centers[j]
  <1>1. i \in Ids /\ centers[i] \in CostCenterValues /\ Listed(i) /\ mine' = mine
    BY DEF DeleteCostCenter, Listed
  <1>2. CASE centers' = [centers EXCEPT ![i] = Purged]
    BY <1>1, <1>2, PurgeFacts
  <1>3. CASE \E st \in {"deleting", "deleted"} :
                /\ centers[i].state = "deleted" => st = "deleted"
                /\ centers' = [centers EXCEPT ![i].state = st]
    BY <1>1, <1>3, StateFacts
  <1> QED
    BY <1>2, <1>3 DEF DeleteCostCenter

LEMMA OthersFacts ==
  ASSUME CentersOK,
         Progress \/ Purge \/ OthersCreate \/ OthersRename \/ OthersMap \/ OthersDelete
  PROVE  CentersOK' /\ Grows /\ (mine \subseteq Born => MineKept)
  <1>1. CASE Progress
    <2>1. PICK i \in Ids : /\ Listed(i) /\ centers[i].state = "deleting"
                           /\ centers' = [centers EXCEPT ![i].state = "deleted"]
      BY <1>1 DEF Progress
    <2>2. mine' = mine
      BY <1>1 DEF Progress
    <2> QED
      BY <2>1, <2>2, StateFacts DEF Listed
  <1>2. CASE Purge
    BY <1>2, PurgeFacts DEF Purge, Listed
  <1>3. CASE OthersCreate
    <2>1. PICK i \in Ids, n \in Names, M \in SUBSET Members :
             /\ centers[i] = Unborn
             /\ centers' = [centers EXCEPT ![i] =
                               [name |-> n, state |-> "active", members |-> M]]
      BY <1>3 DEF OthersCreate
    <2> DEFINE v == [name |-> n, state |-> "active", members |-> M]
    <2>2. v \in CostCenterValues
      BY DEF CostCenterValues, States
    <2>3. centers' = [centers EXCEPT ![i] = v] /\ mine' = mine
      BY <1>3, <2>1 DEF OthersCreate
    <2> HIDE DEF v
    <2>4. CentersOK'
      BY <2>2, <2>3 DEF CentersOK
    <2>5. centers'[i] = v /\ \A j \in Ids \ {i} : centers'[j] = centers[j]
      BY <2>3 DEF CentersOK
    <2>6. i \notin Born
      BY <2>1 DEF Born
    <2>7. Grows
      BY <2>2, <2>5, <2>6, CostCenterAssumption DEF Grows, Born, Alive, Active, Listed
    <2>8. mine \subseteq Born => MineKept
      BY <2>3, <2>5, <2>6 DEF MineKept, Listed, CentersOK
    <2> QED
      BY <2>4, <2>7, <2>8
  <1>4. CASE OthersRename
    <2>1. PICK i \in Ids, n \in Names :
             /\ Active(i)
             /\ centers' = [centers EXCEPT ![i].name = n]
             /\ mine' = mine \ {i}
      BY <1>4 DEF OthersRename
    <2> DEFINE v == [centers[i] EXCEPT !.name = n]
    <2>2. v \in CostCenterValues /\ v.state = centers[i].state
      BY <2>1 DEF CostCenterValues, Active, Listed
    <2>3. centers' = [centers EXCEPT ![i] = v]
      BY <2>1
    <2> HIDE DEF v
    <2>4. CentersOK' /\ Grows /\ \A j \in Ids \ {i} : centers'[j] = centers[j]
      BY <2>1, <2>2, <2>3, ChangeFacts DEF Active, Listed
    <2> QED
      BY <2>1, <2>4 DEF MineKept, Listed, CentersOK
  <1>5. CASE OthersMap
    <2>1. PICK i \in Ids, m \in Members :
             /\ Active(i)
             /\ centers' = [centers EXCEPT ![i].members =
                               IF m \in @ THEN @ \ {m} ELSE @ \cup {m}]
      BY <1>5 DEF OthersMap
    <2> DEFINE now == IF m \in centers[i].members THEN centers[i].members \ {m}
                                                  ELSE centers[i].members \cup {m}
               v == [centers[i] EXCEPT !.members = now]
    <2>2. centers[i] \in CostCenterValues
      BY <2>1 DEF Active, Listed
    <2>3. now \in SUBSET Members
      BY <2>2 DEF CostCenterValues
    <2>4. centers' = [centers EXCEPT ![i] = v] /\ mine' = mine
      BY <1>5, <2>1 DEF OthersMap
    <2> HIDE DEF now
    <2>5. v \in CostCenterValues /\ v.name = centers[i].name /\ v.state = centers[i].state
      BY <2>2, <2>3 DEF CostCenterValues
    <2> HIDE DEF v
    <2> QED
      BY <2>2, <2>4, <2>5, ChangeFacts
  <1>6. CASE OthersDelete
    <2>1. PICK i \in Ids, st \in {"deleting", "deleted"} :
             /\ Listed(i) /\ centers[i].state = "active"
             /\ centers' = [centers EXCEPT ![i].state = st]
      BY <1>6 DEF OthersDelete
    <2>2. mine' = mine
      BY <1>6 DEF OthersDelete
    <2> QED
      BY <2>1, <2>2, StateFacts DEF Listed
  <1> QED
    BY <1>1, <1>2, <1>3, <1>4, <1>5, <1>6

LEMMA NothingPermitted == ASSUME NEW o, UNCHANGED centers PROVE Permitted(o)
  BY DEF Permitted

LEMMA CreatePermitted ==
  ASSUME CentersOK, NEW o, allows(o, "Create"),
         NEW i \in Ids, NEW s, CreateCostCenter(i, s)
  PROVE  Permitted(o)
  BY DEF Permitted, CreateCostCenter, CentersOK

\* A PATCH, or a resource call.
LEMMA ChangePermitted ==
  ASSUME CentersOK, NEW o, allows(o, "Update"), NEW i,
         \/ \E s \in Specs : UpdateCostCenter(i, s)
         \/ \E call \in Calls : MapResources(i, call)
  PROVE  Permitted(o)
  <1>1. /\ i \in Ids /\ Listed(i) /\ centers'[i] \in CostCenterValues
        /\ centers'[i].state = centers[i].state
        /\ \A j \in Ids \ {i} : centers'[j] = centers[j]
    BY RenameFacts, MapFacts DEF UpdateCostCenter
  <1> QED
    BY <1>1, CostCenterAssumption DEF Permitted

LEMMA DeletePermitted ==
  ASSUME CentersOK, NEW o, allows(o, "Delete"), NEW i, DeleteCostCenter(i)
  PROVE  Permitted(o)
  BY DeleteFacts DEF Permitted
-----------------------------------------------------------------------------
(* The invariant of the reconciler.                                        *)

\* The informer's copy, and what copies and the object record.
WorldInv ==
    /\ CopyOf(seen, api)
    /\ api # Gone => seen # Gone
    /\ Guarded(api)
    /\ Known(api) /\ Known(seen) /\ Known(obj)

\* Until the status is filled in, obj is the object as it was read.
ObjIsCopy ==
    /\ pc # "idle" => obj # Gone
    /\ Behind(obj, api)
    /\ pc \notin {"sync", "updateStatus", "refetch", "annotate"} => Exact(obj, api)
    /\ pc \in {"delete", "verify", "removeFinalizer"} => obj.deleting
    /\ pc \in {"sync", "updateStatus"} => obj.id # None

\* An object that is worked on has its finalizer, as far as its copy is current.
ObjIsGuarded ==
    pc \in {"list", "create", "rename", "sync", "updateStatus"} /\ IsCurrent(obj) =>
        api.finalizer

\* What is about to be created or renamed differs from what is recorded only if that
\* does not exist; what was found was handed out.
FoundReplaces ==
    /\ pc = "create" => obj.id \notin Alive
    /\ pc = "rename" => found \in Born /\ (found # obj.id => obj.id \notin Alive)

\* There is a call left to make.
TodoRemains == pc = "sync" => todo # <<>>

\* The identifier about to be recorded is the one that was, or replaces that of a
\* cost center that does not exist, however long the synchronisation takes.
RecordsNew ==
    pc \in {"sync", "updateStatus"} /\ IsCurrent(obj) /\ obj.id # api.id =>
        obj.id \in Born /\ api.id \notin Alive

\* The object is about to be released only after its cost center, if it may be.
ReleasesLast ==
    pc = "removeFinalizer" /\ IsCurrent(obj) /\ MayDelete => api.id \notin Alive

\* The copy for the annotation does not touch the finalizer.
LatestIsCopy ==
    pc = "annotate" =>
        latest # Gone /\ Behind(latest, api)
        /\ (IsCurrent(latest) => latest.finalizer = api.finalizer)

Inv ==
    /\ StateOK
    /\ WorldInv
    /\ ObjIsCopy
    /\ ObjIsGuarded
    /\ FoundReplaces
    /\ TodoRemains
    /\ RecordsNew
    /\ ReleasesLast
    /\ LatestIsCopy
-----------------------------------------------------------------------------
LEMMA InitInv == Init => Inv
  <1> SUFFICES ASSUME Init PROVE Inv
    OBVIOUS
  <1> USE AbsentAssumption
  <1>1. PICK s \in Specs, p \in Policies : api = NewObject(s, p)
    BY DEF Init
  <1>2. /\ api \in Objects /\ api # Gone
        /\ api.id = None /\ ~api.deleting
    BY <1>1, NewObjectFacts
  <1>3. centers \in [Ids -> CostCenterValues \cup {Unborn, Purged}]
    BY DEF Init
  <1>4. StateOK
    <2>1. /\ seen = api /\ faults = 0 /\ mine = {} /\ pc = "idle"
          /\ obj = Gone /\ found = None /\ todo = <<>> /\ latest = Gone
      BY DEF Init
    <2>2. faults \in 0 .. MaxFaults
      BY <2>1
    <2>3. todo \in Seq([add : BOOLEAN, names : SUBSET Members])
      BY <2>1
    <2> QED
      BY <1>2, <1>3, <2>1, <2>2, <2>3, Zenon DEF StateOK, Labels
  <1>5. WorldInv
    <2>1. seen = api /\ obj = Gone
      BY DEF Init
    <2>2. CopyOf(seen, api)
      BY <1>2, <2>1 DEF CopyOf, Behind, Exact, Objects
    <2> QED
      BY <1>2, <2>1, <2>2 DEF WorldInv, Guarded, Known
  <1>6. ObjIsCopy /\ ObjIsGuarded /\ FoundReplaces /\ TodoRemains /\ RecordsNew
        /\ ReleasesLast /\ LatestIsCopy
    BY DEF Init, ObjIsCopy, ObjIsGuarded, FoundReplaces, TodoRemains, RecordsNew,
           ReleasesLast, LatestIsCopy, Behind, Exact
  <1> QED
    BY <1>4, <1>5, <1>6 DEF Inv

\* What holds of the copies whatever happens to the object and the cost centers.
LEMMA CopiesKept ==
  ASSUME Inv, api' \in Copies, Moves(api, api'), Grows,
         seen' = seen \/ (seen' = api /\ api' = api)
  PROVE  /\ seen' \in Copies
         /\ CopyOf(seen', api')
         /\ api' # Gone => seen' # Gone
         /\ Known(seen)'
         /\ Behind(obj, api')
         /\ Exact(obj, api) => Exact(obj, api')
         /\ obj # Gone /\ api' # Gone /\ obj.version = api'.version => api' = api
         /\ obj # Gone /\ obj.id # None => obj.id \in Born'
         /\ Behind(latest, api) => Behind(latest, api')
         /\ Behind(latest, api) =>
               (latest # Gone /\ api' # Gone /\ latest.version = api'.version => api' = api)
  <1>1. api \in Copies /\ seen \in Copies /\ obj \in Copies /\ latest \in Copies
    BY DEF Inv, StateOK, Copies
  <1>2. /\ Behind(seen, api) /\ Exact(seen, api)
        /\ Known(api) /\ Known(seen) /\ Known(obj)
        /\ api # Gone => seen # Gone
        /\ Behind(obj, api)
    BY DEF Inv, WorldInv, CopyOf, ObjIsCopy
  <1>3. CASE seen' = seen
    <2>1. CopyOf(seen', api')
      BY <1>1, <1>2, <1>3, CopyKept DEF CopyOf
    <2>2. api' # Gone => api # Gone
      BY DEF Moves
    <2>3. Known(seen)'
      BY <1>2, <1>3 DEF Known, Grows
    <2> QED
      BY <1>1, <1>2, <1>3, <2>1, <2>2, <2>3, CopyKept DEF Known, Grows
  <1>4. CASE seen' = api /\ api' = api
    <2>1. \A c \in Copies : c # Gone => c.version \in Nat
      BY DEF Copies, Objects
    <2>2. CopyOf(seen', api')
      BY <1>1, <1>4, <2>1 DEF CopyOf, Behind, Exact
    <2>3. Known(seen)'
      BY <1>2, <1>4 DEF Known, Grows
    <2> QED
      BY <1>1, <1>2, <1>4, <2>2, <2>3, CopyKept DEF Known, Grows
  <1> QED
    BY <1>3, <1>4

\* Reconcile stays where it is, and nothing it recorded changes.
LEMMA LocalsKept ==
  ASSUME Inv, StateOK', Moves(api, api'), Grows,
         seen' = seen \/ (seen' = api /\ api' = api),
         Guarded(api)',
         api' # Gone => api'.id = api.id,
         UNCHANGED locals
  PROVE  Inv'
  <1>1. api' \in Copies
    BY DEF StateOK, Copies
  <1>2. UNCHANGED <<pc, obj, found, todo, latest>>
    BY DEF locals
  <1>3. api' # Gone => api # Gone
    BY DEF Moves
  <1>4. Known(api)'
    BY <1>3 DEF Known, Inv, WorldInv, Grows
  <1>5. WorldInv'
    BY <1>1, <1>2, <1>4, CopiesKept DEF WorldInv, Known
  <1>6. ObjIsCopy'
    BY <1>1, <1>2, CopiesKept DEF Inv, ObjIsCopy
  <1>7. IsCurrent(obj)' => api' = api /\ IsCurrent(obj)
    BY <1>1, <1>2, CopiesKept DEF IsCurrent
  <1>8. ASSUME NEW o \in {api, obj}, o # Gone, o.id \notin Alive PROVE o.id \notin Alive'
    <2>1. o.id \in Born \cup {None}
      BY <1>8 DEF Inv, WorldInv, Known
    <2> QED
      BY <1>8, <2>1, StaysDead
  <1>9. ObjIsGuarded'
    BY <1>2, <1>7 DEF Inv, ObjIsGuarded, IsCurrent
  <1>10. FoundReplaces'
    BY <1>2, <1>8 DEF Inv, FoundReplaces, ObjIsCopy, Grows
  <1>11. RecordsNew'
    BY <1>2, <1>7, <1>8 DEF Inv, RecordsNew, IsCurrent, Grows
  <1>12. ReleasesLast'
    BY <1>2, <1>7, <1>8 DEF Inv, ReleasesLast, IsCurrent, MayDelete, allows
  <1>13. TodoRemains'
    BY <1>2 DEF Inv, TodoRemains
  <1>14. LatestIsCopy'
    BY <1>1, <1>2, CopiesKept DEF Inv, LatestIsCopy, IsCurrent
  <1> QED
    BY <1>5, <1>6, <1>9, <1>10, <1>11, <1>12, <1>13, <1>14 DEF Inv

\* Reconcile returns.
LEMMA ReturnKept ==
  ASSUME Inv, StateOK', Moves(api, api'), Grows, seen' = seen,
         Guarded(api)', Known(api)', Return
  PROVE  Inv'
  <1>1. api' \in Copies
    BY DEF StateOK, Copies
  <1>2. pc' = "idle" /\ obj' = Gone
    BY DEF Return
  <1>3. WorldInv'
    BY <1>1, <1>2, CopiesKept DEF WorldInv, Known
  <1>4. ObjIsCopy' /\ ObjIsGuarded' /\ FoundReplaces' /\ TodoRemains' /\ RecordsNew'
        /\ ReleasesLast' /\ LatestIsCopy'
    BY <1>2 DEF ObjIsCopy, ObjIsGuarded, FoundReplaces, TodoRemains, RecordsNew,
                ReleasesLast, LatestIsCopy, Behind, Exact
  <1> QED
    BY <1>3, <1>4 DEF Inv

LEMMA ReturnType == ASSUME Return PROVE
  /\ pc' \in Labels /\ obj' \in Objects \cup {Gone} /\ found' \in Ids \cup {None}
  /\ todo' \in Seq([add : BOOLEAN, names : SUBSET Members])
  /\ latest' \in Objects \cup {Gone}
  <1>1. <<>> \in Seq([add : BOOLEAN, names : SUBSET Members])
    OBVIOUS
  <1> QED
    BY <1>1 DEF Return, Labels

\* A step that leaves the object alone, also that of a lost answer.
LEMMA Unchanged ==
  ASSUME Inv, UNCHANGED api, Grows
  PROVE  Moves(api, api') /\ Guarded(api)' /\ Known(api)'
  BY DEF Moves, Grows, Inv, WorldInv, Known

LEMMA SameGrows == UNCHANGED centers => Grows
  BY Same DEF Grows

-----------------------------------------------------------------------------
(* The steps of Reconcile, in the order of its calls.                      *)

LEMMA ReconcileInv == ASSUME Inv, Reconcile PROVE Inv'
  <1> USE DEF Reconcile, env
  <1>1. seen \in Objects /\ seen # Gone
    BY DEF Inv, StateOK
  <1>2. StateOK'
    BY <1>1 DEF Inv, StateOK, Labels
  <1>3. WorldInv'
    BY Same DEF Inv, WorldInv, Known
  <1>4. CopyOf(obj, api)'
    BY <1>1 DEF Inv, WorldInv, CopyOf, Behind, Exact
  <1>5. ObjIsCopy'
    BY <1>1, <1>4 DEF ObjIsCopy, CopyOf
  <1>6. IsCurrent(obj)' => obj' = api /\ api' = api
    BY <1>1, <1>4 DEF IsCurrent, CopyOf, Exact
  <1>7. ObjIsGuarded'
    BY <1>6 DEF ObjIsGuarded
  <1>8. FoundReplaces' /\ TodoRemains' /\ RecordsNew' /\ LatestIsCopy'
    BY DEF FoundReplaces, TodoRemains, RecordsNew, LatestIsCopy
  <1>9. ReleasesLast'
    BY <1>6, AbsentAssumption DEF ReleasesLast, MayDelete, allows, Alive, DeletionTarget
  <1> QED
    BY <1>2, <1>3, <1>5, <1>7, <1>8, <1>9 DEF Inv

LEMMA EnsureFinalizerFacts ==
  ASSUME Inv, ensureFinalizer
  PROVE  /\ api # Gone /\ api' \in Copies /\ api' # Gone /\ Moves(api, api')
         /\ api'.finalizer /\ api'.id = api.id
         /\ api'.deleting = api.deleting /\ api'.allowed = api.allowed
  <1> DEFINE sent == [obj EXCEPT !.finalizer = TRUE]
  <1>1. obj \in Objects /\ api \in Copies
    BY DEF ensureFinalizer, Inv, StateOK, ObjIsCopy, Copies
  <1>2. sent \in Objects /\ sent.finalizer
    BY <1>1 DEF Objects
  <1>3. Update(sent)
    BY DEF ensureFinalizer
  <1> HIDE DEF sent
  <1> QED
    BY <1>1, <1>2, <1>3, UpdateFacts

LEMMA EnsureFinalizerInv == ASSUME Inv, ensureFinalizer PROVE Inv'
  <1>1. Return /\ UNCHANGED <<seen, faults, centers, mine>>
    BY DEF ensureFinalizer
  <1>2. StateOK'
    BY <1>1, ReturnType, EnsureFinalizerFacts DEF Inv, StateOK, Copies
  <1>3. Guarded(api)' /\ Known(api)'
    BY <1>1, EnsureFinalizerFacts, Same DEF Guarded, Known, Inv, WorldInv
  <1> QED
    BY <1>1, <1>2, <1>3, EnsureFinalizerFacts, SameGrows, ReturnKept

\* What Proceed writes to the copy in memory.
LEMMA FilledIn ==
  ASSUME obj \in Objects, NEW i \in Ids, NEW c, c.members \in Shown, Proceed(i, c)
  PROVE  /\ obj' \in Objects /\ obj'.id = i /\ obj'.version = obj.version
         /\ obj'.spec = obj.spec /\ obj'.allowed = obj.allowed
  <1> DEFINE new == [obj EXCEPT !.id = i, !.shown = c.members]
  <1>1. /\ new \in Objects /\ new.id = i /\ new.version = obj.version
        /\ new.spec = obj.spec /\ new.allowed = obj.allowed
    BY DEF Objects
  <1>2. "success" \in Reports /\ obj' = SetConditions(new, "success")
    BY DEF Reports, Proceed
  <1> HIDE DEF new
  <1> QED
    BY <1>1, <1>2, TransitionFacts

\* The status is filled in from a cost center that replaces what is recorded, and
\* the synchronisation is planned.
LEMMA ProceedInv ==
  ASSUME Inv, pc \in {"list", "create", "rename"},
         NEW i \in Ids, NEW c \in CostCenterValues, Proceed(i, c),
         CentersOK', Grows, i \in Born', i # obj.id => obj.id \notin Alive,
         UNCHANGED <<api, seen, faults>>
  PROVE  Inv'
  <1>1. obj \in Objects /\ obj # Gone /\ obj.spec.members \in SUBSET Members
    BY CostCenterAssumption DEF Inv, StateOK, ObjIsCopy, Objects
  <1>2. /\ found' = i /\ UNCHANGED latest
        /\ pc' = IF todo' = <<>> THEN "updateStatus" ELSE "sync"
    BY DEF Proceed
  <1>3. c.members \in Shown /\ c.members \in SUBSET Members
    BY CostCenterAssumption DEF CostCenterValues
  <1>4. /\ obj' \in Objects /\ obj' # Gone /\ i # None
        /\ obj'.id = i /\ obj'.version = obj.version
    <2>1. /\ obj' \in Objects /\ obj'.id = i /\ obj'.version = obj.version
      BY <1>1, <1>3, FilledIn
    <2> QED
      BY <2>1, AbsentAssumption
  <1>5. todo' \in Seq(Calls)
    BY <1>1, <1>3, SyncPlanType, EmptySeq DEF Proceed
  <1>6. StateOK'
    BY <1>2, <1>4, <1>5 DEF Inv, StateOK, CentersOK, Labels, Calls
  <1>7. WorldInv'
    BY <1>4 DEF Inv, WorldInv, Known, Grows
  <1>8. ObjIsCopy'
    BY <1>1, <1>2, <1>4 DEF Inv, ObjIsCopy, Behind
  <1>9. IsCurrent(obj)' => IsCurrent(obj) /\ obj = api
    BY <1>1, <1>4 DEF IsCurrent, Inv, ObjIsCopy, Exact
  <1>10. ObjIsGuarded'
    BY <1>2, <1>9 DEF Inv, ObjIsGuarded
  <1>11. FoundReplaces' /\ TodoRemains' /\ ReleasesLast' /\ LatestIsCopy'
    BY <1>2 DEF FoundReplaces, TodoRemains, ReleasesLast, LatestIsCopy
  <1>12. RecordsNew'
    <2>1. ASSUME obj.id \notin Alive PROVE obj.id \notin Alive'
      <3>1. obj.id \in Born \cup {None}
        BY <1>1 DEF Inv, WorldInv, Known
      <3> QED
        BY <2>1, <3>1, StaysDead
    <2> QED
      BY <1>2, <1>4, <1>9, <2>1 DEF RecordsNew
  <1> QED
    BY <1>6, <1>7, <1>8, <1>10, <1>11, <1>12 DEF Inv

LEMMA ListInv == ASSUME Inv, List PROVE Inv'
  <1> DEFINE i == findCostCenter(obj)
  <1>1. obj \in Objects /\ obj # Gone /\ pc = "list" /\ CentersOK
        /\ UNCHANGED <<api, seen, faults, centers, mine>>
    BY DEF List, env, Inv, StateOK, ObjIsCopy, CentersOK
  <1>2. /\ i \in Ids \cup {None}
        /\ i # None => Listed(i) /\ i \in Born
        /\ i # obj.id => obj.id \notin Alive
    BY <1>1, FindCostCenter, CostCenterAssumption DEF Alive, Active, Listed, Born
  <1>3. Grows /\ CentersOK' /\ Born' = Born /\ Alive' = Alive
    BY <1>1, Same DEF Grows, CentersOK
  <1>4. CASE i # None /\ Proceed(i, centers[i])
    <2>1. i \in Ids /\ centers[i] \in CostCenterValues
      BY <1>2, <1>4 DEF Listed
    <2> HIDE DEF i
    <2> QED
      BY <1>1, <1>2, <1>3, <1>4, <2>1, ProceedInv
  <1>5. CASE i = None /\ Return
    <2>1. StateOK'
      BY <1>1, <1>5, ReturnType DEF Inv, StateOK
    <2> QED
      BY <1>1, <1>3, <1>5, <2>1, Unchanged, ReturnKept
  <1>6. CASE \/ i = None /\ pc' = "create" /\ UNCHANGED <<obj, found, todo, latest>>
             \/ /\ i # None /\ pc' = "rename" /\ found' = i
                /\ UNCHANGED <<obj, todo, latest>>
    <2>1. StateOK'
      BY <1>1, <1>2, <1>6 DEF Inv, StateOK, Labels
    <2>2. WorldInv'
      BY <1>1, <1>3, <1>6 DEF Inv, WorldInv, Known
    <2>3. ObjIsCopy' /\ ObjIsGuarded'
      BY <1>1, <1>6 DEF Inv, ObjIsCopy, ObjIsGuarded, IsCurrent
    <2>4. FoundReplaces'
      <3>1. obj.id \notin Alive \/ i = obj.id
        BY <1>2
      <3>2. None \notin Alive
        BY AbsentAssumption DEF Alive
      <3> QED
        BY <1>2, <1>3, <1>6, <3>1, <3>2 DEF FoundReplaces
    <2>5. TodoRemains' /\ RecordsNew' /\ ReleasesLast' /\ LatestIsCopy'
      BY <1>6 DEF TodoRemains, RecordsNew, ReleasesLast, LatestIsCopy
    <2> QED
      BY <2>1, <2>2, <2>3, <2>4, <2>5 DEF Inv
  <1> QED
    BY <1>4, <1>5, <1>6 DEF List

LEMMA CreateInv == ASSUME Inv, Create PROVE Inv'
  <1>1. pc = "create" /\ obj.spec \in Specs /\ CentersOK /\ obj.id \notin Alive
        /\ UNCHANGED <<api, seen, faults>>
    BY DEF Create, Inv, StateOK, ObjIsCopy, Objects, FoundReplaces, CentersOK
  <1>2. PICK i \in Ids : CreateCostCenter(i, obj.spec) /\ Proceed(i, centers'[i])
    BY DEF Create
  <1>3. CentersOK' /\ Grows /\ i \in Born' /\ centers'[i] \in CostCenterValues
    BY <1>1, <1>2, CreateFacts
  <1> QED
    BY <1>1, <1>2, <1>3, ProceedInv

LEMMA RenameInv == ASSUME Inv, Rename PROVE Inv'
  <1>1. /\ pc = "rename" /\ obj.spec \in Specs /\ CentersOK /\ found \in Born
        /\ found # obj.id => obj.id \notin Alive
        /\ UNCHANGED <<api, seen, faults>>
    BY DEF Rename, Inv, StateOK, ObjIsCopy, Objects, FoundReplaces, CentersOK
  <1>2. UpdateCostCenter(found, obj.spec) /\ Proceed(found, centers'[found])
    BY DEF Rename
  <1>3. CentersOK' /\ Grows /\ found \in Ids /\ centers'[found] \in CostCenterValues
    BY <1>1, <1>2, RenameFacts
  <1>4. found \in Born'
    BY <1>1, <1>3 DEF Grows
  <1> QED
    BY <1>1, <1>2, <1>3, <1>4, ProceedInv

\* The next resource call, whether its answer arrives or not.
LEMMA NextCall ==
  ASSUME Inv, pc = "sync", MapResources(found, Head(todo))
  PROVE  /\ Head(todo) \in Calls /\ Tail(todo) \in Seq(Calls)
         /\ CentersOK' /\ Grows /\ MineKept
  <1>1. todo \in Seq(Calls) /\ todo # <<>> /\ CentersOK
    BY DEF Inv, StateOK, TodoRemains, Calls, CentersOK
  <1>2. Head(todo) \in Calls /\ Tail(todo) \in Seq(Calls)
    BY <1>1, HeadTailProperties
  <1> QED
    BY <1>1, <1>2, MapFacts

LEMMA SyncResourcesInv == ASSUME Inv, SyncResources PROVE Inv'
  <1>1. /\ pc = "sync" /\ MapResources(found, Head(todo)) /\ todo' = Tail(todo)
        /\ pc' = IF todo' = <<>> THEN "updateStatus" ELSE "sync"
        /\ UNCHANGED <<api, seen, faults, obj, found, latest>>
    BY DEF SyncResources
  <1>2. todo' \in Seq(Calls) /\ CentersOK' /\ Grows
    BY <1>1, NextCall
  <1>3. StateOK'
    BY <1>1, <1>2 DEF Inv, StateOK, CentersOK, Calls, Labels
  <1>4. WorldInv'
    BY <1>1, <1>2 DEF Inv, WorldInv, Known, Grows
  <1>5. ObjIsCopy' /\ ObjIsGuarded'
    BY <1>1 DEF Inv, ObjIsCopy, ObjIsGuarded, IsCurrent
  <1>6. FoundReplaces' /\ TodoRemains' /\ ReleasesLast' /\ LatestIsCopy'
    BY <1>1 DEF FoundReplaces, TodoRemains, ReleasesLast, LatestIsCopy
  <1>7. RecordsNew'
    <2>1. ASSUME IsCurrent(obj), api.id \notin Alive PROVE api.id \notin Alive'
      <3>1. api.id \in Born \cup {None}
        BY <2>1 DEF Inv, WorldInv, Known, IsCurrent
      <3> QED
        BY <1>2, <2>1, <3>1, StaysDead
    <2> QED
      BY <1>1, <1>2, <2>1 DEF Inv, RecordsNew, IsCurrent, Grows
  <1> QED
    BY <1>3, <1>4, <1>5, <1>6, <1>7 DEF Inv

\* Status().Update.
LEMMA StatusFacts ==
  ASSUME Inv, pc = "updateStatus", UpdateStatus(obj)
  PROVE  /\ IsCurrent(obj)
         /\ api' \in Copies /\ api' # Gone /\ Moves(api, api')
         /\ api'.id = obj.id /\ api'.deleting = api.deleting
         /\ api'.finalizer /\ api'.allowed = api.allowed
  <1>1. obj \in Objects /\ obj # Gone /\ api \in Copies
    BY DEF Inv, StateOK, ObjIsCopy, Copies
  <1>2. /\ api # Gone /\ obj.version = api.version
        /\ api' \in Copies /\ Moves(api, api')
        /\ api' = Gone => api.deleting /\ ~api.finalizer
        /\ api' # Gone => /\ api'.deleting = api.deleting
                          /\ api'.finalizer = api.finalizer
                          /\ api'.allowed = api.allowed
                          /\ api'.id = obj.id
    BY <1>1, UpdateStatusFacts
  <1>3. IsCurrent(obj)
    BY <1>1, <1>2 DEF IsCurrent
  <1>4. api.finalizer
    BY <1>3 DEF Inv, ObjIsGuarded
  <1> QED
    BY <1>2, <1>3, <1>4

LEMMA StatusUpdateInv == ASSUME Inv, StatusUpdate PROVE Inv'
  <1>1. /\ pc = "updateStatus" /\ pc' = "refetch" /\ UpdateStatus(obj)
        /\ UNCHANGED <<seen, faults, centers, mine, obj, found, todo, latest>>
    BY DEF StatusUpdate
  <1>2. /\ api' \in Copies /\ api' # Gone /\ Moves(api, api')
        /\ api'.id = obj.id /\ api'.finalizer
    BY <1>1, StatusFacts
  <1>3. obj # Gone
    BY <1>1 DEF Inv, ObjIsCopy
  <1>4. StateOK'
    BY <1>1, <1>2 DEF Inv, StateOK, Copies, Labels
  <1>5. Known(api)' /\ Guarded(api)'
    BY <1>1, <1>2, <1>3, Same DEF Inv, WorldInv, Known, Guarded
  <1>6. WorldInv'
    BY <1>1, <1>2, <1>5, CopiesKept, SameGrows DEF WorldInv, Known
  <1>7. ObjIsCopy'
    BY <1>1, <1>2, <1>3, CopiesKept, SameGrows DEF ObjIsCopy
  <1>8. ObjIsGuarded' /\ FoundReplaces' /\ TodoRemains' /\ RecordsNew' /\ ReleasesLast'
        /\ LatestIsCopy'
    BY <1>1 DEF ObjIsGuarded, FoundReplaces, TodoRemains, RecordsNew, ReleasesLast,
       LatestIsCopy
  <1> QED
    BY <1>4, <1>6, <1>7, <1>8 DEF Inv

LEMMA RefetchInv == ASSUME Inv, Refetch PROVE Inv'
  <1> USE DEF Refetch, env
  <1>1. seen \in Objects /\ seen # Gone /\ found \in Ids \cup {None}
    BY DEF Inv, StateOK
  <1>2. /\ latest' \in Objects /\ latest' # Gone
        /\ latest'.version = seen.version /\ latest'.finalizer = seen.finalizer
    BY <1>1, AbsentAssumption DEF Objects
  <1>3. StateOK'
    BY <1>2 DEF Inv, StateOK, Labels
  <1>4. WorldInv'
    BY Same DEF Inv, WorldInv, Known
  <1>5. ObjIsCopy' /\ ObjIsGuarded'
    BY DEF Inv, ObjIsCopy, ObjIsGuarded, IsCurrent
  <1>6. FoundReplaces' /\ TodoRemains' /\ RecordsNew' /\ ReleasesLast'
    BY DEF FoundReplaces, TodoRemains, RecordsNew, ReleasesLast
  <1>7. LatestIsCopy'
    BY <1>1, <1>2 DEF LatestIsCopy, IsCurrent, Inv, WorldInv, CopyOf, Behind, Exact
  <1> QED
    BY <1>3, <1>4, <1>5, <1>6, <1>7 DEF Inv

LEMMA AnnotateFacts ==
  ASSUME Inv, Annotate
  PROVE  /\ api # Gone /\ api' \in Copies /\ api' # Gone /\ Moves(api, api')
         /\ api'.id = api.id /\ api'.deleting = api.deleting
         /\ api'.finalizer = api.finalizer /\ api'.allowed = api.allowed
  <1>1. pc = "annotate" /\ Update(latest)
    BY DEF Annotate
  <1>2. latest \in Objects /\ latest # Gone /\ api \in Copies
    BY <1>1 DEF Inv, StateOK, LatestIsCopy, Copies
  <1>3. /\ api # Gone /\ latest.version = api.version
        /\ api' \in Copies /\ Moves(api, api')
        /\ api' = Gone => api.deleting /\ ~latest.finalizer
        /\ api' # Gone => /\ api'.deleting = api.deleting
                          /\ api'.finalizer = latest.finalizer
                          /\ api'.allowed = api.allowed
                          /\ api'.id = api.id
    BY <1>1, <1>2, UpdateFacts
  <1>4. latest.finalizer = api.finalizer
    BY <1>1, <1>2, <1>3 DEF Inv, LatestIsCopy, IsCurrent
  <1>5. api.deleting => api.finalizer
    BY <1>3 DEF Inv, WorldInv, Guarded
  <1> QED
    BY <1>3, <1>4, <1>5

LEMMA AnnotateInv == ASSUME Inv, Annotate PROVE Inv'
  <1>1. Return /\ UNCHANGED <<seen, faults, centers, mine>>
    BY DEF Annotate
  <1>2. StateOK'
    BY <1>1, AnnotateFacts, ReturnType DEF Inv, StateOK, Copies
  <1>3. Known(api)' /\ Guarded(api)'
    BY <1>1, AnnotateFacts, Same DEF Inv, WorldInv, Known, Guarded
  <1> QED
    BY <1>1, <1>2, <1>3, AnnotateFacts, SameGrows, ReturnKept

\* A deletion that GitHub has not refused: what the copy records is gone as soon as
\* the target of the deletion is not active.
LEMMA TargetDead ==
  ASSUME Inv, ~Active(DeletionTarget(obj))
  PROVE  obj.id \notin Alive
  BY AbsentAssumption DEF DeletionTarget, Alive

LEMMA DeleteExternalInv == ASSUME Inv, DeleteExternal PROVE Inv'
  <1>1. /\ pc = "delete" /\ CentersOK
        /\ UNCHANGED <<api, seen, faults, obj, found, todo, latest>>
    BY DEF DeleteExternal, Inv, StateOK, CentersOK
  <1>2. /\ pc' \in {"verify", "removeFinalizer"}
        /\ CentersOK' /\ Grows
        /\ pc' = "removeFinalizer" => obj.id \notin Alive'
    <2>1. CASE DeleteCostCenter(DeletionTarget(obj)) /\ pc' = "verify"
      BY <1>1, <2>1, DeleteFacts
    <2>2. CASE /\ ~Listed(DeletionTarget(obj)) /\ pc' = "removeFinalizer"
               /\ UNCHANGED <<centers, mine>>
      BY <1>1, <2>2, TargetDead, Same DEF Active, CentersOK, Grows
    <2> QED
      BY <2>1, <2>2 DEF DeleteExternal
  <1>3. StateOK'
    BY <1>1, <1>2 DEF Inv, StateOK, CentersOK, Labels
  <1>4. WorldInv'
    BY <1>1, <1>2 DEF Inv, WorldInv, Known, Grows
  <1>5. ObjIsCopy'
    BY <1>1, <1>2 DEF Inv, ObjIsCopy
  <1>6. ObjIsGuarded' /\ FoundReplaces' /\ TodoRemains' /\ RecordsNew' /\ LatestIsCopy'
    BY <1>2 DEF ObjIsGuarded, FoundReplaces, TodoRemains, RecordsNew, LatestIsCopy
  <1>7. ReleasesLast'
    BY <1>1, <1>2 DEF ReleasesLast, IsCurrent, Inv, ObjIsCopy, Exact
  <1> QED
    BY <1>3, <1>4, <1>5, <1>6, <1>7 DEF Inv

LEMMA VerifyInv == ASSUME Inv, Verify PROVE Inv'
  <1>1. /\ pc = "verify" /\ pc' = "removeFinalizer"
        /\ UNCHANGED <<api, seen, faults, centers, mine, obj, found, todo, latest>>
        /\ Born' = Born /\ Alive' = Alive
    BY Same DEF Verify, env
  <1>2. obj.id \notin Alive
    BY TargetDead DEF Verify
  <1>3. StateOK' /\ WorldInv' /\ ObjIsCopy'
    BY <1>1 DEF Inv, StateOK, Labels, WorldInv, Known, ObjIsCopy
  <1>4. ObjIsGuarded' /\ FoundReplaces' /\ TodoRemains' /\ RecordsNew' /\ LatestIsCopy'
    BY <1>1 DEF ObjIsGuarded, FoundReplaces, TodoRemains, RecordsNew, LatestIsCopy
  <1>5. ReleasesLast'
    BY <1>1, <1>2 DEF ReleasesLast, IsCurrent, Inv, ObjIsCopy, Exact
  <1> QED
    BY <1>3, <1>4, <1>5 DEF Inv

\* The object goes with its finalizer.
LEMMA RemoveFinalizerFacts ==
  ASSUME Inv, RemoveFinalizer
  PROVE  IsCurrent(obj) /\ obj = api /\ api' = Gone
  <1> DEFINE sent == [obj EXCEPT !.finalizer = FALSE]
  <1>1. /\ pc = "removeFinalizer" /\ obj \in Objects /\ obj # Gone /\ obj.deleting
        /\ api \in Copies
    BY DEF RemoveFinalizer, Inv, StateOK, ObjIsCopy, Copies
  <1>2. sent.version = obj.version /\ ~sent.finalizer
    BY <1>1 DEF Objects
  <1>3. FALSE \in BOOLEAN
    OBVIOUS
  <1>4. sent \in Objects
    BY <1>1, <1>3, Zenon DEF Objects
  <1>5. Update(sent)
    BY DEF RemoveFinalizer
  <1> HIDE DEF sent
  <1>6. /\ api # Gone /\ sent.version = api.version
        /\ api' # Gone => api'.finalizer = sent.finalizer /\ api'.deleting = api.deleting
        /\ api' \in Copies
    BY <1>1, <1>4, <1>5, UpdateFacts
  <1>7. IsCurrent(obj) /\ obj = api
    BY <1>1, <1>2, <1>6 DEF IsCurrent, Inv, ObjIsCopy, Exact
  <1>8. api' = Gone
    BY <1>1, <1>2, <1>5, <1>7 DEF Update, Stored, sent, Objects, Inv, WorldInv, Guarded
  <1> QED
    BY <1>7, <1>8

LEMMA RemoveFinalizerInv == ASSUME Inv, RemoveFinalizer PROVE Inv'
  <1>1. Return /\ UNCHANGED <<seen, faults, centers, mine>> /\ api' = Gone
    BY RemoveFinalizerFacts DEF RemoveFinalizer
  <1>2. api # Gone
    BY RemoveFinalizerFacts DEF IsCurrent
  <1>3. StateOK'
    BY <1>1, ReturnType DEF Inv, StateOK
  <1>4. Moves(api, api') /\ Guarded(api)' /\ Known(api)'
    BY <1>1, <1>2 DEF Moves, Guarded, Known
  <1> QED
    BY <1>1, <1>3, <1>4, SameGrows, ReturnKept

\* A call has its effect on the cost centers, or none, and Reconcile returns.
LEMMA ReturnsInv ==
  ASSUME Inv, UNCHANGED <<api, seen>>, faults' \in 0 .. MaxFaults,
         CentersOK', Grows, Return
  PROVE  Inv'
  <1>1. StateOK'
    BY ReturnType DEF Inv, StateOK, CentersOK
  <1> QED
    BY <1>1, Unchanged, ReturnKept

\* A call that changes the cost centers, as far as its answer may be lost.
LEMMA CallFacts ==
  ASSUME Inv,
         \/ pc = "create" /\ \E i \in Ids : CreateCostCenter(i, obj.spec)
         \/ pc = "rename" /\ UpdateCostCenter(found, obj.spec)
         \/ pc = "sync" /\ MapResources(found, Head(todo))
         \/ pc = "delete" /\ DeleteCostCenter(DeletionTarget(obj))
  PROVE  CentersOK' /\ Grows
  <1>1. obj.spec \in Specs /\ CentersOK
    BY DEF Inv, StateOK, ObjIsCopy, Objects, CentersOK
  <1> QED
    BY <1>1, CreateFacts, RenameFacts, NextCall, DeleteFacts

\* The call's effect stays although its answer is lost.
LEMMA AnswerLostInv == ASSUME Inv, AnswerLost PROVE Inv'
  <1>1. seen' = seen /\ faults' \in 0 .. MaxFaults /\ Return
    BY AbsentAssumption DEF AnswerLost, Interfere, Inv, StateOK
  <1>2. CASE pc = "updateStatus" /\ UpdateStatus(obj) /\ UNCHANGED <<centers, mine>>
    <2>1. /\ api' \in Copies /\ api' # Gone /\ Moves(api, api')
          /\ api'.id = obj.id /\ api'.finalizer
      BY <1>2, StatusFacts
    <2>2. StateOK'
      BY <1>1, <1>2, <2>1, ReturnType DEF Inv, StateOK, Copies
    <2>3. Guarded(api)' /\ Known(api)'
      BY <1>2, <2>1, Same DEF Guarded, Known, Inv, ObjIsCopy, WorldInv
    <2> QED
      BY <1>1, <1>2, <2>1, <2>2, <2>3, SameGrows, ReturnKept
  <1>3. CASE ~(pc = "updateStatus" /\ UpdateStatus(obj) /\ UNCHANGED <<centers, mine>>)
    <2>1. CentersOK' /\ Grows /\ api' = api
      BY <1>3, CallFacts DEF AnswerLost
    <2> QED
      BY <1>1, <2>1, ReturnsInv
  <1> QED
    BY <1>2, <1>3

\* The informer, the user, GitHub and others in the enterprise.
LEMMA EnvironmentInv == ASSUME Inv, Environment, UNCHANGED locals PROVE Inv'
  <1>1. api \in Copies /\ (api # Gone => api \in Objects)
    BY DEF Inv, StateOK, Copies
  <1>2. CASE Sync /\ UNCHANGED <<centers, mine>>
    <2>1. StateOK'
      BY <1>2 DEF Sync, Inv, StateOK, locals
    <2>2. seen' = api /\ api' = api
      BY <1>2 DEF Sync
    <2> QED
      BY <1>2, <2>1, <2>2, SameGrows, Unchanged, LocalsKept
  <1>3. CASE UserEdits /\ UNCHANGED <<centers, mine>>
    <2>1. StateOK'
      <3>1. faults' \in 0 .. MaxFaults /\ seen' = seen
        BY <1>3, AbsentAssumption DEF UserEdits, Interfere, Inv, StateOK
      <3>2. api' \in Objects \cup {Gone}
        BY <1>1, <1>3, UserEditsFacts DEF Copies
      <3> QED
        BY <1>3, <3>1, <3>2 DEF Inv, StateOK, locals
    <2>2. Guarded(api)'
      BY <1>1, <1>3, UserEditsFacts DEF Guarded, Inv, WorldInv
    <2>3. seen' = seen
      BY <1>3 DEF UserEdits
    <2> QED
      BY <1>1, <1>3, <2>1, <2>2, <2>3, SameGrows, UserEditsFacts, LocalsKept
  <1>4. CASE UserDeletes /\ UNCHANGED <<centers, mine>>
    <2>1. StateOK'
      BY <1>1, <1>4, UserDeletesFacts DEF UserDeletes, Inv, StateOK, locals, Copies
    <2>2. Guarded(api)'
      BY <1>1, <1>4, UserDeletesFacts DEF Guarded, Inv, WorldInv
    <2>3. seen' = seen
      BY <1>4 DEF UserDeletes
    <2> QED
      BY <1>1, <1>4, <2>1, <2>2, <2>3, SameGrows, UserDeletesFacts, LocalsKept
  <1>5. CASE Progress \/ Purge \/ OthersCreate \/ OthersRename \/ OthersMap \/ OthersDelete
    <2>1. CentersOK' /\ Grows
      BY <1>5, OthersFacts DEF Inv, StateOK, CentersOK
    <2>2. UNCHANGED <<api, seen>> /\ faults' \in 0 .. MaxFaults
      BY <1>5, AbsentAssumption
         DEF Progress, Purge, OthersCreate, OthersRename, OthersMap, OthersDelete,
             Interfere, Inv, StateOK
    <2>3. StateOK'
      BY <2>1, <2>2 DEF Inv, StateOK, CentersOK, locals
    <2> QED
      BY <2>1, <2>2, <2>3, Unchanged, LocalsKept
  <1> QED
    BY <1>2, <1>3, <1>4, <1>5 DEF Environment

LEMMA StepInv == Inv /\ [Next]_vars => Inv'
  <1> SUFFICES ASSUME Inv, [Next]_vars PROVE Inv'
    OBVIOUS
  <1>1. CASE UNCHANGED vars
    <2>1. StateOK' /\ UNCHANGED locals /\ UNCHANGED <<api, seen, centers>>
      BY <1>1 DEF vars, env, locals, Inv, StateOK
    <2> QED
      BY <2>1, SameGrows, Unchanged, LocalsKept
  <1>2. CASE Abort \/ Refused
    <2>1. UNCHANGED <<api, seen, centers, mine>> /\ faults' \in 0 .. MaxFaults /\ Return
      BY <1>2, AbsentAssumption DEF Abort, Refused, Interfere, env, Inv, StateOK
    <2>2. CentersOK'
      BY <2>1 DEF Inv, StateOK, CentersOK
    <2> QED
      BY <2>1, <2>2, SameGrows, ReturnsInv
  <1>3. CASE Environment /\ UNCHANGED locals
    BY <1>3, EnvironmentInv
  <1>4. CASE AnswerLost
    BY <1>4, AnswerLostInv
  <1>5. CASE Controller
    BY <1>2, <1>5, ReconcileInv, EnsureFinalizerInv, ListInv, CreateInv, RenameInv,
       SyncResourcesInv, StatusUpdateInv, RefetchInv, AnnotateInv, DeleteExternalInv,
       VerifyInv, RemoveFinalizerInv
       DEF Controller
  <1> QED
    BY <1>1, <1>2, <1>3, <1>4, <1>5 DEF Next, Step

LEMMA Invariance == Spec => []Inv
  BY InitInv, StepInv, PTL DEF Spec

\* The type invariant of the namespaced CostCenter reconciler and of the world it
\* works on, the calls left of a synchronisation included (costcenter.go:86-291).
THEOREM TypeCorrect == Spec => []TypeOK
  <1>1. Inv => StateOK
    BY DEF Inv
  <1>2. Init => touched \subseteq Ids
    BY DEF Init
  <1>3. touched \subseteq Ids /\ [Next]_vars => (touched \subseteq Ids)'
    BY DEF Next, Step, Changed, vars
  <1>4. StateOK /\ touched \subseteq Ids => TypeOK
    BY DEF TypeOK
  <1> QED
    BY <1>1, <1>2, <1>3, <1>4, Invariance, PTL DEF Spec
-----------------------------------------------------------------------------
(* The refinement.                                                         *)

\* A step that leaves the object alone is one of GitHub, or nothing.
LEMMA GithubRefines ==
  ASSUME Grows, UNCHANGED api
  PROVE  [Promise!Next]_(Promise!vars)
  <1>1. Born' \subseteq Ids
    BY DEF Born
  <1>2. UNCHANGED <<Stage, RecordedId, MayDelete>>
    BY DEF Stage, RecordedId, MayDelete, allows
  <1>3. Promise!ExternalChange
    BY <1>1, <1>2 DEF Promise!ExternalChange, Grows
  <1> QED
    BY <1>3 DEF Promise!Next

\* A write that changes neither what is recorded nor what is allowed is nothing.
LEMMA WriteRefines ==
  ASSUME api # Gone, api' # Gone, api'.deleting = api.deleting, api'.id = api.id,
         api'.allowed = api.allowed, UNCHANGED centers
  PROVE  UNCHANGED Promise!vars
  <1>1. UNCHANGED <<Born, Alive>>
    BY Same
  <1>2. UNCHANGED <<Stage, RecordedId, MayDelete>>
    BY DEF Stage, RecordedId, MayDelete, allows
  <1> QED
    BY <1>1, <1>2 DEF Promise!vars

\* The status update records an identifier that may be recorded.
LEMMA StatusRefines ==
  ASSUME Inv, pc = "updateStatus", UpdateStatus(obj), UNCHANGED centers
  PROVE  [Promise!Next]_(Promise!vars)
  <1>1. /\ api # Gone /\ IsCurrent(obj)
        /\ api' # Gone /\ api'.id = obj.id /\ api'.deleting = api.deleting
        /\ api'.allowed = api.allowed
    BY StatusFacts DEF IsCurrent
  <1>2. CASE obj.id = api.id
    BY <1>1, <1>2, WriteRefines
  <1>3. CASE obj.id # api.id
    <2>1. obj.id \in Born /\ api.id \notin Alive
      BY <1>1, <1>3 DEF Inv, RecordsNew
    <2>2. RecordedId = api.id /\ RecordedId' = obj.id
      BY <1>1 DEF RecordedId
    <2>3. Stage # "gone" /\ UNCHANGED <<Stage, MayDelete>>
      BY <1>1 DEF Stage, MayDelete, allows
    <2>4. UNCHANGED <<Born, Alive>>
      BY Same
    <2>5. Promise!Record
      BY <2>1, <2>2, <2>3, <2>4 DEF Promise!Record
    <2> QED
      BY <2>5 DEF Promise!Next
  <1> QED
    BY <1>2, <1>3

\* The object is released, by the reconciler or for want of a finalizer.
LEMMA ReleaseRefines ==
  ASSUME api # Gone, api' = Gone, UNCHANGED centers, MayDelete => api.id \notin Alive
  PROVE  Promise!Release
  <1>1. Stage # "gone" /\ Stage' = "gone"
    BY DEF Stage
  <1>2. RecordedId = api.id /\ RecordedId' = None
    BY DEF RecordedId
  <1>3. MayDelete' \in BOOLEAN
    BY Zenon DEF MayDelete
  <1>4. UNCHANGED <<Born, Alive>>
    BY Same
  <1> QED
    BY <1>1, <1>2, <1>3, <1>4 DEF Promise!Release

LEMMA UserRefines ==
  ASSUME Inv, UserEdits \/ UserDeletes, UNCHANGED centers
  PROVE  [Promise!Next]_(Promise!vars)
  <1>1. api \in Copies
    BY DEF Inv, StateOK, Copies
  <1>2. UNCHANGED <<Born, Alive>>
    BY Same
  <1>3. CASE UserEdits
    <2>1. /\ api # Gone /\ api' # Gone
          /\ api'.deleting = api.deleting /\ api'.id = api.id
      BY <1>1, <1>3, UserEditsFacts DEF Inv, WorldInv, Guarded
    <2>2. Stage # "gone" /\ UNCHANGED <<Stage, RecordedId>>
      BY <2>1 DEF Stage, RecordedId
    <2>3. MayDelete' \in BOOLEAN
      BY Zenon DEF MayDelete
    <2>4. Promise!Allow
      BY <1>2, <2>2, <2>3 DEF Promise!Allow
    <2> QED
      BY <2>4 DEF Promise!Next
  <1>4. CASE UserDeletes /\ api' = Gone
    <2>1. api # Gone /\ api.id = None
      BY <1>1, <1>4, UserDeletesFacts DEF Inv, WorldInv, Guarded
    <2>2. api.id \notin Alive
      BY <2>1, AbsentAssumption DEF Alive
    <2>3. Promise!Release
      BY <1>4, <2>1, <2>2, ReleaseRefines
    <2> QED
      BY <2>3 DEF Promise!Next
  <1>5. CASE UserDeletes /\ api' # Gone
    <2>1. /\ api # Gone /\ ~api.deleting /\ api'.deleting
          /\ api'.id = api.id /\ api'.allowed = api.allowed
      BY <1>1, <1>5, UserDeletesFacts
    <2>2. Stage = "present" /\ Stage' = "deleting"
      BY <1>5, <2>1 DEF Stage
    <2>3. UNCHANGED <<RecordedId, MayDelete>>
      BY <1>5, <2>1 DEF RecordedId, MayDelete, allows
    <2>4. Promise!Delete
      BY <1>2, <2>2, <2>3 DEF Promise!Delete
    <2> QED
      BY <2>4 DEF Promise!Next
  <1> QED
    BY <1>3, <1>4, <1>5

LEMMA InitRefines == Init => Promise!Init
  <1> SUFFICES ASSUME Init PROVE Promise!Init
    OBVIOUS
  <1>1. api # Gone /\ api.id = None /\ ~api.deleting
    BY NewObjectFacts, AbsentAssumption DEF Init
  <1>2. Stage = "present" /\ RecordedId = None
    BY <1>1 DEF Stage, RecordedId
  <1>3. MayDelete \in BOOLEAN
    BY Zenon DEF MayDelete
  <1>4. Born \subseteq Ids /\ Alive \subseteq Born
    BY InitInv, BornAlive DEF Inv, StateOK, CentersOK
  <1> QED
    BY <1>2, <1>3, <1>4 DEF Promise!Init

LEMMA StepRefines == Inv /\ [Next]_vars => [Promise!Next]_(Promise!vars)
  <1> SUFFICES ASSUME Inv, [Next]_vars PROVE [Promise!Next]_(Promise!vars)
    OBVIOUS
  <1>1. CentersOK
    BY DEF Inv, StateOK, CentersOK
  <1>2. CASE \/ UNCHANGED vars \/ Reconcile \/ List \/ Refetch \/ Verify \/ Refused \/ Abort
             \/ Sync /\ UNCHANGED centers
    <2>1. UNCHANGED <<api, centers>>
      BY <1>2 DEF vars, env, Reconcile, List, Refetch, Verify, Refused, Abort, Sync
    <2> QED
      BY <2>1, SameGrows, GithubRefines
  <1>3. CASE Create \/ Rename \/ SyncResources
    BY <1>3, CallFacts, GithubRefines DEF Create, Rename, SyncResources
  <1>4. CASE DeleteExternal
    <2>1. UNCHANGED api /\ pc = "delete"
      BY <1>4 DEF DeleteExternal
    <2> QED
      BY <1>4, <2>1, CallFacts, SameGrows, GithubRefines DEF DeleteExternal
  <1>5. CASE Progress \/ Purge \/ OthersCreate \/ OthersRename \/ OthersMap \/ OthersDelete
    <2>1. UNCHANGED api
      BY <1>5 DEF Progress, Purge, OthersCreate, OthersRename, OthersMap, OthersDelete
    <2> QED
      BY <1>1, <1>5, <2>1, OthersFacts, GithubRefines
  <1>6. CASE ensureFinalizer
    BY <1>6, EnsureFinalizerFacts, WriteRefines DEF ensureFinalizer
  <1>7. CASE Annotate
    BY <1>7, AnnotateFacts, WriteRefines DEF Annotate
  <1>8. CASE StatusUpdate
    BY <1>8, StatusRefines DEF StatusUpdate
  <1>9. CASE RemoveFinalizer
    <2>1. api # Gone /\ api' = Gone /\ UNCHANGED centers
      BY <1>9, RemoveFinalizerFacts DEF RemoveFinalizer, IsCurrent
    <2>2. MayDelete => api.id \notin Alive
      BY <1>9, RemoveFinalizerFacts DEF RemoveFinalizer, Inv, ReleasesLast
    <2> QED
      BY <2>1, <2>2, ReleaseRefines DEF Promise!Next
  <1>10. CASE AnswerLost
    BY <1>10, CallFacts, GithubRefines, StatusRefines DEF AnswerLost
  <1>11. CASE (UserEdits \/ UserDeletes) /\ UNCHANGED centers
    BY <1>11, UserRefines
  <1>12. CASE Environment
    BY <1>2, <1>5, <1>11, <1>12 DEF Environment
  <1>13. CASE Controller
    BY <1>2, <1>3, <1>4, <1>6, <1>7, <1>8, <1>9, <1>13 DEF Controller
  <1> QED
    BY <1>2, <1>10, <1>12, <1>13 DEF Next, Step

\* Whatever stale copies, lost answers, crashes, users and others do, and whoever
\* begins or completes a deletion: a recorded identifier is neither forgotten nor
\* replaced while its cost center is active, and the object is released only after
\* that is deleted, as far as deleting is allowed (costcenter.go:86-165, 251-291).
THEOREM Refinement == Spec => ImplementsLifecycle
  BY InitRefines, StepRefines, Invariance, PTL DEF Spec, ImplementsLifecycle, Promise!Spec
-----------------------------------------------------------------------------
(* No duplicates, as long as all specs ask for one name: a rename would let *)
(* a cost center whose creation was never recorded share its name.          *)

OneName == \A s, t \in Specs : s.name = t.name

\* What is this controller's has the name of the specs, is the only one in the
\* list, and is not in the list when another is about to be created.
UniqueInv ==
    /\ mine \subseteq Born
    /\ \A i \in mine : Listed(i) => \E s \in Specs : centers[i].name = s.name
    /\ \A i, j \in mine : Listed(i) /\ Listed(j) => i = j
    /\ pc = "create" => \A i \in mine : ~Listed(i)

LEMMA KeptUnique ==
  ASSUME UniqueInv, Grows, MineKept, pc' # "create" \/ UNCHANGED pc
  PROVE  UniqueInv'
  BY DEF UniqueInv, MineKept, Grows

\* A POST after a search that found nothing.
LEMMA CreateUnique ==
  ASSUME Inv, UniqueInv, pc = "create", pc' # "create",
         NEW i \in Ids, CreateCostCenter(i, obj.spec)
  PROVE  UniqueInv'
  <1>1. obj.spec \in Specs /\ CentersOK
    BY DEF Inv, StateOK, ObjIsCopy, Objects, CentersOK
  <1>2. Grows /\ i \in Born' /\ mine' = mine \cup {i}
    BY <1>1, CreateFacts DEF CreateCostCenter
  <1>3. centers'[i].name = obj.spec.name /\ \A j \in Ids \ {i} : centers'[j] = centers[j]
    BY <1>1 DEF CreateCostCenter, CentersOK
  <1>4. \A j \in mine : j # i => ~Listed(j)'
    BY <1>1, <1>3 DEF UniqueInv, Listed, CentersOK
  <1> QED
    BY <1>1, <1>2, <1>3, <1>4 DEF UniqueInv, Grows

LEMMA StepUnique ==
  ASSUME OneName
  PROVE  Inv /\ UniqueInv /\ [Next]_vars => UniqueInv'
  <1> SUFFICES ASSUME Inv, UniqueInv, [Next]_vars PROVE UniqueInv'
    OBVIOUS
  <1>1. CentersOK
    BY DEF Inv, StateOK, CentersOK
  <1>2. ASSUME UNCHANGED <<centers, mine>>, pc' # "create" \/ UNCHANGED pc PROVE UniqueInv'
    <2>1. MineKept
      BY <1>2 DEF MineKept, Listed
    <2> QED
      BY <1>2, <2>1, SameGrows, KeptUnique
  <1>3. ASSUME pc' # "create",
               \/ pc = "rename" /\ UpdateCostCenter(found, obj.spec)
               \/ pc = "sync" /\ MapResources(found, Head(todo))
               \/ pc = "delete" /\ DeleteCostCenter(DeletionTarget(obj))
        PROVE  UniqueInv'
    <2>1. obj.spec \in Specs
      BY <1>3 DEF Inv, StateOK, ObjIsCopy, Objects
    <2>2. Grows /\ MineKept
      BY <1>1, <1>3, <2>1, RenameFacts, NextCall, DeleteFacts
    <2> QED
      BY <1>3, <2>2, KeptUnique
  <1>4. CASE List
    <2>1. UNCHANGED <<centers, mine>>
      BY <1>4 DEF List, env
    <2>2. CASE pc' = "create"
      <3>1. obj \in Objects /\ findCostCenter(obj) = None /\ UNCHANGED <<centers, mine>>
        BY <1>4, <2>2 DEF List, env, Inv, StateOK, ObjIsCopy, Return, Proceed
      <3>2. \A i \in Ids : Listed(i) => centers[i].name # obj.spec.name
        BY <3>1, FindCostCenter
      <3>3. obj.spec \in Specs
        BY <3>1 DEF Objects
      <3>4. \A i \in mine : ~Listed(i)
        BY <3>2, <3>3 DEF UniqueInv, OneName, Listed
      <3> QED
        BY <3>1, <3>4, Same DEF UniqueInv, Listed
    <2> QED
      BY <1>2, <2>1, <2>2
  <1>5. CASE Create
    <2>1. pc = "create" /\ pc' # "create" /\ \E i \in Ids : CreateCostCenter(i, obj.spec)
      BY <1>5 DEF Create, Proceed
    <2> QED
      BY <2>1, CreateUnique
  <1>6. CASE Rename \/ SyncResources
    BY <1>3, <1>6 DEF Rename, Proceed, SyncResources
  <1>7. CASE DeleteExternal
    BY <1>2, <1>3, <1>7 DEF DeleteExternal
  <1>8. CASE \/ Reconcile \/ ensureFinalizer \/ StatusUpdate \/ Refetch \/ Annotate
             \/ Verify \/ RemoveFinalizer \/ Refused \/ Abort \/ UNCHANGED vars
    BY <1>2, <1>8 DEF Reconcile, ensureFinalizer, StatusUpdate, Refetch, Annotate,
       Verify, RemoveFinalizer, Refused, Abort, Return, env, locals, vars
  <1>9. CASE AnswerLost
    <2>1. pc' # "create"
      BY <1>9 DEF AnswerLost, Return
    <2> QED
      BY <1>2, <1>3, <1>9, <2>1, CreateUnique DEF AnswerLost
  <1>10. CASE Environment /\ UNCHANGED locals
    <2>1. UNCHANGED pc
      BY <1>10 DEF locals
    <2>2. CASE (Sync \/ UserEdits \/ UserDeletes) /\ UNCHANGED <<centers, mine>>
      BY <1>2, <2>1, <2>2
    <2>3. CASE \/ Progress \/ Purge \/ OthersCreate \/ OthersRename \/ OthersMap
               \/ OthersDelete
      BY <1>1, <2>1, <2>3, OthersFacts, KeptUnique DEF UniqueInv
    <2> QED
      BY <1>10, <2>2, <2>3 DEF Environment
  <1> QED
    BY <1>4, <1>5, <1>6, <1>7, <1>8, <1>9, <1>10 DEF Next, Step, Controller

\* If the name in the spec stays, the reconciler never has two active cost centers
\* of its own with one name, whichever answers are lost and whoever deletes: one copy
\* searches the list and creates, and a cost center under deletion is still found
\* (costcenter.go:86-165).
THEOREM NeverDuplicates ==
  ASSUME OneName
  PROVE  Spec => []NoDuplicates
  <1>1. Init => UniqueInv
    BY DEF Init, UniqueInv
  <1>2. UniqueInv => NoDuplicates
    BY DEF UniqueInv, NoDuplicates, Active
  <1>3. Inv /\ UniqueInv /\ [Next]_vars => UniqueInv'
    BY StepUnique
  <1> QED
    BY <1>1, <1>2, <1>3, Invariance, PTL DEF Spec
-----------------------------------------------------------------------------
(* The management policies.                                                *)

\* What is about to happen to cost centers may happen.
CallsAllowed ==
    /\ pc = "create" => allows(obj, "Create")
    /\ pc \in {"rename", "sync"} => allows(obj, "Update")
    /\ pc = "delete" => allows(obj, "Delete")

LEMMA StepCallsAllowed == Inv /\ CallsAllowed /\ [Next]_vars => CallsAllowed'
  <1> SUFFICES ASSUME Inv, CallsAllowed, [Next]_vars PROVE CallsAllowed'
    OBVIOUS
  <1>1. CASE UNCHANGED <<pc, obj>> \/ pc' \notin {"create", "rename", "sync", "delete"}
    BY <1>1 DEF CallsAllowed
  <1>2. CASE Reconcile
    BY <1>2 DEF Reconcile, CallsAllowed
  <1>3. ASSUME NEW i \in Ids, NEW c \in CostCenterValues, Proceed(i, c), pc # "idle"
        PROVE  CallsAllowed'
    <2>1. obj \in Objects
      BY <1>3 DEF Inv, StateOK, ObjIsCopy
    <2>2. obj'.allowed = obj.allowed
      <3>1. c.members \in Shown
        BY <1>3, CostCenterAssumption DEF CostCenterValues
      <3> QED
        BY <1>3, <2>1, <3>1, FilledIn
    <2>3. pc' = "sync" => allows(obj, "Update")
      BY <1>3 DEF Proceed
    <2> QED
      BY <1>3, <2>2, <2>3 DEF CallsAllowed, allows, Proceed
  <1>4. CentersOK
    BY DEF Inv, StateOK, CentersOK
  <1>5. CASE List
    <2> DEFINE i == findCostCenter(obj)
    <2>1. obj \in Objects /\ pc = "list"
      BY <1>5 DEF List, Inv, StateOK, ObjIsCopy
    <2>2. i \in Ids \cup {None} /\ (i # None => Listed(i))
      BY <2>1, FindCostCenter
    <2>3. i # None => i \in Ids /\ centers[i] \in CostCenterValues
      BY <2>2 DEF Listed
    <2>4. \/ i # None /\ Proceed(i, centers[i])
          \/ pc' = "idle"
          \/ pc' = "create" /\ obj' = obj /\ allows(obj, "Create")
          \/ pc' = "rename" /\ obj' = obj /\ allows(obj, "Update")
      BY <1>5 DEF List, Return
    <2> HIDE DEF i
    <2> QED
      BY <1>1, <1>3, <2>1, <2>3, <2>4 DEF CallsAllowed, allows
  <1>6. CASE Create \/ Rename
    <2>1. obj.spec \in Specs /\ pc \in {"create", "rename"}
      BY <1>6 DEF Create, Rename, Inv, StateOK, ObjIsCopy, Objects
    <2>2. CASE Create
      <3>1. PICK i \in Ids : CreateCostCenter(i, obj.spec) /\ Proceed(i, centers'[i])
        BY <2>2 DEF Create
      <3>2. centers'[i] \in CostCenterValues
        BY <1>4, <2>1, <3>1, CreateFacts
      <3> QED
        BY <1>3, <2>1, <3>1, <3>2
    <2>3. CASE Rename
      <3>1. UpdateCostCenter(found, obj.spec) /\ Proceed(found, centers'[found])
        BY <2>3 DEF Rename
      <3>2. found \in Ids /\ centers'[found] \in CostCenterValues
        BY <1>4, <2>1, <3>1, RenameFacts DEF UpdateCostCenter, Listed
      <3> QED
        BY <1>3, <2>1, <3>1, <3>2
    <2> QED
      BY <1>6, <2>2, <2>3
  <1>7. CASE SyncResources
    BY <1>7 DEF SyncResources, CallsAllowed, allows
  <1>8. CASE \/ ensureFinalizer \/ StatusUpdate \/ Refetch \/ Annotate \/ DeleteExternal
             \/ Verify \/ RemoveFinalizer \/ Refused \/ Abort \/ AnswerLost
             \/ Environment /\ UNCHANGED locals
             \/ UNCHANGED vars
    BY <1>1, <1>8 DEF ensureFinalizer, StatusUpdate, Refetch, Annotate, DeleteExternal,
       Verify, RemoveFinalizer, Refused, Abort, AnswerLost, Return, locals, vars
  <1> QED
    BY <1>2, <1>5, <1>6, <1>7, <1>8 DEF Next, Step, Controller

LEMMA StepPermitted ==
  Inv /\ CallsAllowed /\ [Next]_vars =>
      [obj # Gone /\ locals' # locals => Permitted(obj)]_vars
  <1> SUFFICES ASSUME Inv, CallsAllowed, Next, locals' # locals PROVE Permitted(obj)
    OBVIOUS
  <1>1. CentersOK
    BY DEF Inv, StateOK, CentersOK
  <1>2. ASSUME UNCHANGED centers PROVE Permitted(obj)
    BY <1>2, NothingPermitted
  <1>3. ASSUME \/ pc = "create" /\ \E i \in Ids : CreateCostCenter(i, obj.spec)
               \/ pc = "rename" /\ UpdateCostCenter(found, obj.spec)
               \/ pc = "sync" /\ MapResources(found, Head(todo))
               \/ pc = "delete" /\ DeleteCostCenter(DeletionTarget(obj))
        PROVE  Permitted(obj)
    <2>1. obj.spec \in Specs
      BY <1>3 DEF Inv, StateOK, ObjIsCopy, Objects
    <2>2. pc = "sync" => Head(todo) \in Calls
      BY <1>3, NextCall
    <2> QED
      BY <1>1, <1>3, <2>1, <2>2, CreatePermitted, ChangePermitted, DeletePermitted
         DEF CallsAllowed
  <1>4. CASE Create \/ Rename \/ SyncResources
    BY <1>3, <1>4 DEF Create, Rename, SyncResources
  <1>5. CASE DeleteExternal
    BY <1>2, <1>3, <1>5 DEF DeleteExternal
  <1>6. CASE AnswerLost
    BY <1>2, <1>3, <1>6 DEF AnswerLost
  <1>7. CASE \/ Reconcile \/ ensureFinalizer \/ List \/ StatusUpdate \/ Refetch \/ Annotate
             \/ Verify \/ RemoveFinalizer \/ Refused \/ Abort
    BY <1>2, <1>7 DEF Reconcile, ensureFinalizer, List, StatusUpdate, Refetch, Annotate,
       Verify, RemoveFinalizer, Refused, Abort, env
  <1> QED
    BY <1>4, <1>5, <1>6, <1>7 DEF Next, Step, Controller

\* A cost center is created, changed or deleted only if the policies of the copy that
\* Reconcile works on say so: also in the later calls of a synchronisation, and when
\* an answer is lost (costcenter.go:126-151, 251-257).
THEOREM PoliciesHold == Spec => PoliciesRespected
  <1>1. Init => CallsAllowed
    BY DEF Init, CallsAllowed
  <1> QED
    BY <1>1, StepCallsAllowed, StepPermitted, Invariance, PTL
       DEF Spec, PoliciesRespected
-----------------------------------------------------------------------------
(* The spec is reached before the status says so.                          *)

\* The calls add only what is desired, remove only what is not, and settle every
\* difference between the members there are and the members desired.
Leads(current, calls, desired) ==
    /\ \A call \in Range(calls) :
          IF call.add THEN call.names \subseteq desired ELSE call.names \cap desired = {}
    /\ \A m \in (desired \ current) \cup (current \ desired) :
          \E call \in Range(calls) : m \in call.names

\* What is planned leads from the members listed to those of the spec.
LEMMA PlanLeads ==
  ASSUME NEW current \in SUBSET Members, NEW desired \in SUBSET Members
  PROVE  Leads(current, SyncPlan(current, desired), desired)
  <1>1. ASSUME NEW add \in BOOLEAN, NEW names \in SUBSET Members
        PROVE  /\ ResourceCall(add, names) \in Seq(Calls)
               /\ \A call \in Range(ResourceCall(add, names)) :
                     call.add = add /\ call.names = names
               /\ \A m \in names :
                     \E call \in Range(ResourceCall(add, names)) : m \in call.names
    <2> DEFINE call == [add |-> add, names |-> names]
    <2>1. call \in Calls /\ call.add = add /\ call.names = names
      BY DEF Calls
    <2> HIDE DEF call
    <2>2. Range(<<>>) = {} /\ Range(<<call>>) = {call}
      BY DEF Range
    <2>3. ResourceCall(add, names) = IF names = {} THEN <<>> ELSE <<call>>
      BY DEF ResourceCall, call
    <2> QED
      BY <2>1, <2>2, <2>3
  <1> DEFINE a == ResourceCall(TRUE, (desired \ current) \cap Organizations)
             b == ResourceCall(FALSE, (current \ desired) \cap Organizations)
             c == ResourceCall(TRUE, (desired \ current) \cap Repositories)
             d == ResourceCall(FALSE, (current \ desired) \cap Repositories)
  <1>2. /\ a \in Seq(Calls)
        /\ \A call \in Range(a) : call.add = TRUE /\ call.names \subseteq desired
        /\ \A m \in (desired \ current) \cap Organizations :
              \E call \in Range(a) : m \in call.names
    <2> DEFINE names == (desired \ current) \cap Organizations
    <2>1. names \in SUBSET Members
      OBVIOUS
    <2>2. names \subseteq desired
      OBVIOUS
    <2> HIDE DEF names
    <2>3. /\ ResourceCall(TRUE, names) \in Seq(Calls)
          /\ \A call \in Range(ResourceCall(TRUE, names)) :
                call.add = TRUE /\ call.names = names
          /\ \A m \in names :
                \E call \in Range(ResourceCall(TRUE, names)) : m \in call.names
      BY <1>1, <2>1
    <2> QED
      BY <2>2, <2>3 DEF names
  <1>3. /\ b \in Seq(Calls)
        /\ \A call \in Range(b) : call.add = FALSE /\ call.names \cap desired = {}
        /\ \A m \in (current \ desired) \cap Organizations :
              \E call \in Range(b) : m \in call.names
    <2> DEFINE names == (current \ desired) \cap Organizations
    <2>1. names \in SUBSET Members
      OBVIOUS
    <2>2. names \cap desired = {}
      OBVIOUS
    <2> HIDE DEF names
    <2>3. /\ ResourceCall(FALSE, names) \in Seq(Calls)
          /\ \A call \in Range(ResourceCall(FALSE, names)) :
                call.add = FALSE /\ call.names = names
          /\ \A m \in names :
                \E call \in Range(ResourceCall(FALSE, names)) : m \in call.names
      BY <1>1, <2>1
    <2> QED
      BY <2>2, <2>3 DEF names
  <1>4. /\ c \in Seq(Calls)
        /\ \A call \in Range(c) : call.add = TRUE /\ call.names \subseteq desired
        /\ \A m \in (desired \ current) \cap Repositories :
              \E call \in Range(c) : m \in call.names
    <2> DEFINE names == (desired \ current) \cap Repositories
    <2>1. names \in SUBSET Members
      OBVIOUS
    <2>2. names \subseteq desired
      OBVIOUS
    <2> HIDE DEF names
    <2>3. /\ ResourceCall(TRUE, names) \in Seq(Calls)
          /\ \A call \in Range(ResourceCall(TRUE, names)) :
                call.add = TRUE /\ call.names = names
          /\ \A m \in names :
                \E call \in Range(ResourceCall(TRUE, names)) : m \in call.names
      BY <1>1, <2>1
    <2> QED
      BY <2>2, <2>3 DEF names
  <1>5. /\ d \in Seq(Calls)
        /\ \A call \in Range(d) : call.add = FALSE /\ call.names \cap desired = {}
        /\ \A m \in (current \ desired) \cap Repositories :
              \E call \in Range(d) : m \in call.names
    <2> DEFINE names == (current \ desired) \cap Repositories
    <2>1. names \in SUBSET Members
      OBVIOUS
    <2>2. names \cap desired = {}
      OBVIOUS
    <2> HIDE DEF names
    <2>3. /\ ResourceCall(FALSE, names) \in Seq(Calls)
          /\ \A call \in Range(ResourceCall(FALSE, names)) :
                call.add = FALSE /\ call.names = names
          /\ \A m \in names :
                \E call \in Range(ResourceCall(FALSE, names)) : m \in call.names
      BY <1>1, <2>1
    <2> QED
      BY <2>2, <2>3 DEF names
  <1>6. SyncPlan(current, desired) = a \o b \o c \o d
    BY DEF SyncPlan
  <1> HIDE DEF a, b, c, d
  <1>7. ASSUME NEW s \in Seq(Calls), NEW t \in Seq(Calls)
        PROVE  s \o t \in Seq(Calls) /\ Range(s \o t) = Range(s) \cup Range(t)
    BY ConcatProperties, RangeConcatenation
  <1>8. a \o b \in Seq(Calls) /\ Range(a \o b) = Range(a) \cup Range(b)
    BY <1>2, <1>3, <1>7
  <1>9. (a \o b) \o c \in Seq(Calls) /\ Range((a \o b) \o c) = Range(a \o b) \cup Range(c)
    BY <1>4, <1>7, <1>8
  <1>10. Range(SyncPlan(current, desired))
            = Range(a) \cup Range(b) \cup Range(c) \cup Range(d)
    <2>1. Range(((a \o b) \o c) \o d) = Range((a \o b) \o c) \cup Range(d)
      BY <1>5, <1>7, <1>9
    <2> QED
      BY <1>6, <1>8, <1>9, <2>1
  <1>11. \A call \in Range(SyncPlan(current, desired)) :
            IF call.add THEN call.names \subseteq desired ELSE call.names \cap desired = {}
    BY <1>2, <1>3, <1>4, <1>5, <1>10
  <1>12. \A m \in (desired \ current) \cup (current \ desired) :
            \E call \in Range(SyncPlan(current, desired)) : m \in call.names
    BY <1>2, <1>3, <1>4, <1>5, <1>10 DEF Members
  <1> QED
    BY <1>11, <1>12 DEF Leads

\* Making the first of the calls leaves calls that lead to the same members.
LEMMA LeadsOn ==
  ASSUME NEW current, NEW desired, NEW calls \in Seq(Calls), calls # <<>>,
         Leads(current, calls, desired), NEW now,
         now = IF Head(calls).add THEN current \cup Head(calls).names
                                  ELSE current \ Head(calls).names
  PROVE  Leads(now, Tail(calls), desired)
  <1>1. Range(calls) = {Head(calls)} \cup Range(Tail(calls))
    <2>1. /\ Tail(calls) \in Seq(Calls) /\ Len(Tail(calls)) = Len(calls) - 1
          /\ \A i \in 1 .. Len(Tail(calls)) : Tail(calls)[i] = calls[i + 1]
      BY HeadTailProperties
    <2>2. Len(calls) \in Nat \ {0} /\ Head(calls) = calls[1]
      BY EmptySeq
    <2>3. /\ Range(calls) = {calls[i] : i \in 1 .. Len(calls)}
          /\ Range(Tail(calls)) = {Tail(calls)[i] : i \in 1 .. Len(Tail(calls))}
      BY <2>1, RangeEquality
    <2>4. ASSUME NEW i \in 1 .. Len(calls), i # 1 PROVE calls[i] \in Range(Tail(calls))
      <3>1. i - 1 \in 1 .. Len(Tail(calls)) /\ (i - 1) + 1 = i
        BY <2>1, <2>2, <2>4
      <3> QED
        BY <2>1, <2>3, <3>1
    <2>5. ASSUME NEW i \in 1 .. Len(Tail(calls)) PROVE Tail(calls)[i] \in Range(calls)
      <3>1. i + 1 \in 1 .. Len(calls)
        BY <2>1, <2>2, <2>5
      <3> QED
        BY <2>1, <2>3, <3>1
    <2>6. 1 \in 1 .. Len(calls)
      BY <2>2
    <2> QED
      BY <2>2, <2>3, <2>4, <2>5, <2>6
  <1>2. \A m \in (desired \ now) \cup (now \ desired) :
           m \in (desired \ current) \cup (current \ desired) /\ m \notin Head(calls).names
    BY <1>1 DEF Leads
  <1> QED
    BY <1>1, <1>2 DEF Leads

\* Unless others change it, the cost center stays what the calls made of it since the
\* list, and the calls that are left lead to the spec.
Reaching ==
    /\ pc \in {"sync", "updateStatus"} => found \in Born
    /\ pc = "updateStatus" => todo = <<>>
    /\ pc \in {"sync", "updateStatus"} /\ found \notin touched
       /\ allows(obj, "Update") /\ Listed(found) =>
          /\ centers[found].name = obj.spec.name
          /\ Leads(centers[found].members, todo, obj.spec.members)

\* The call that found, created or renamed the cost center.
LEMMA ProceedReaches ==
  ASSUME Inv, NEW i \in Ids, Proceed(i, centers'[i]), pc \in {"list", "create", "rename"},
         i \in Born', centers'[i] \in CostCenterValues,
         allows(obj, "Update") => centers'[i].name = obj.spec.name
  PROVE  Reaching'
  <1>1. obj \in Objects /\ obj.spec.members \in SUBSET Members
    BY CostCenterAssumption DEF Inv, StateOK, ObjIsCopy, Objects
  <1>2. centers'[i].members \in SUBSET Members
    BY DEF CostCenterValues
  <1>3. obj'.spec = obj.spec /\ obj'.allowed = obj.allowed /\ found' = i
    <2>1. centers'[i].members \in Shown
      BY CostCenterAssumption DEF CostCenterValues
    <2>2. found' = i
      BY DEF Proceed
    <2> QED
      BY <1>1, <2>1, <2>2, FilledIn
  <1>4. pc' = "updateStatus" => todo' = <<>>
    BY DEF Proceed
  <1>5. allows(obj, "Update") =>
           Leads(centers'[i].members, SyncPlan(centers'[i].members, obj.spec.members),
                 obj.spec.members)
    BY <1>1, <1>2, PlanLeads
  <1>6. allows(obj, "Update") => todo' = SyncPlan(centers'[i].members, obj.spec.members)
    BY DEF Proceed
  <1>7. allows(obj, "Update")' <=> allows(obj, "Update")
    BY <1>3 DEF allows
  <1>8. allows(obj, "Update") => Leads(centers'[i].members, todo', obj'.spec.members)
    BY <1>3, <1>5, <1>6
  <1> QED
    BY <1>3, <1>4, <1>7, <1>8 DEF Reaching

\* The next of the resource calls.
LEMMA SyncReaches ==
  ASSUME Inv, Reaching, SyncResources, UNCHANGED touched
  PROVE  Reaching'
  <1>1. /\ pc = "sync" /\ MapResources(found, Head(todo)) /\ todo' = Tail(todo)
        /\ pc' = IF todo' = <<>> THEN "updateStatus" ELSE "sync"
        /\ UNCHANGED <<obj, found>>
    BY DEF SyncResources
  <1>2. todo \in Seq(Calls) /\ todo # <<>> /\ CentersOK /\ Grows
    BY <1>1, NextCall DEF Inv, StateOK, TodoRemains, Calls, CentersOK
  <1>3. found \in Ids /\ centers[found] \in CostCenterValues
    BY <1>1 DEF MapResources, Listed
  <1>4. /\ centers'[found].name = centers[found].name
        /\ centers'[found].members = IF Head(todo).add
              THEN centers[found].members \cup Head(todo).names
              ELSE centers[found].members \ Head(todo).names
    BY <1>1, <1>2, <1>3 DEF MapResources, CentersOK, CostCenterValues
  <1>5. ASSUME Leads(centers[found].members, todo, obj.spec.members)
        PROVE  Leads(centers'[found].members, todo', obj.spec.members)
    BY <1>1, <1>2, <1>4, <1>5, LeadsOn
  <1> QED
    BY <1>1, <1>2, <1>3, <1>4, <1>5 DEF Reaching, allows, Grows, Listed

\* What GitHub and others leave untouched keeps name and members.
LEMMA KeepsMembers ==
  ASSUME CentersOK, Environment, NEW i \in Born, i \notin Changed,
         centers'[i] \in CostCenterValues
  PROVE  /\ Listed(i)
         /\ centers'[i].name = centers[i].name
         /\ centers'[i].members = centers[i].members
  <1>1. i \in Ids /\ centers[i] # Unborn
    BY DEF Born
  <1>2. centers[i] # Purged
    <2>1. ASSUME NEW j \in Ids, Listed(j), NEW v, centers' = [centers EXCEPT ![j] = v]
          PROVE  centers[i] # Purged
      BY <1>1, <2>1, CostCenterAssumption DEF CentersOK, Listed
    <2>2. CASE Progress \/ Purge \/ OthersRename \/ OthersMap \/ OthersDelete
      BY <2>1, <2>2 DEF Progress, Purge, OthersRename, OthersMap, OthersDelete, Active
    <2>3. CASE OthersCreate
      BY <1>1, <2>3, CostCenterAssumption DEF OthersCreate, CentersOK
    <2>4. CASE UNCHANGED centers
      BY <2>4, CostCenterAssumption
    <2> QED
      BY <2>2, <2>3, <2>4 DEF Environment
  <1>3. Listed(i) /\ Listed(i)'
    BY <1>1, <1>2 DEF CentersOK, Listed
  <1> QED
    BY <1>1, <1>3 DEF Changed

LEMMA StepReaches == Inv /\ Reaching /\ [Next]_vars => Reaching'
  <1> SUFFICES ASSUME Inv, Reaching, [Next]_vars PROVE Reaching'
    OBVIOUS
  <1>1. CentersOK
    BY DEF Inv, StateOK, CentersOK
  <1>2. CASE UNCHANGED <<pc, obj, found, todo, centers, touched>>
    BY <1>2 DEF Reaching, Listed, Born, allows
  <1>3. CASE pc' \notin {"sync", "updateStatus"}
    BY <1>3 DEF Reaching
  <1>4. CASE List
    <2>1. obj \in Objects /\ pc = "list" /\ UNCHANGED centers
      BY <1>4 DEF List, env, Inv, StateOK, ObjIsCopy
    <2> DEFINE i == findCostCenter(obj)
    <2>2. \/ pc' \notin {"sync", "updateStatus"}
          \/ /\ i # None /\ allows(obj, "Update") => centers[i].name = obj.spec.name
             /\ i # None /\ Proceed(i, centers[i])
      BY <1>4 DEF List, Return
    <2>3. i \in Ids \cup {None} /\ (i # None => Listed(i))
      BY <2>1, FindCostCenter
    <2> HIDE DEF i
    <2>4. i # None => i \in Ids /\ centers'[i] \in CostCenterValues /\ i \in Born'
      BY <2>1, <2>3, CostCenterAssumption DEF Listed, Born
    <2> QED
      BY <1>3, <2>1, <2>2, <2>4, ProceedReaches
  <1>5. CASE Create
    <2>1. PICK i \in Ids : CreateCostCenter(i, obj.spec) /\ Proceed(i, centers'[i])
      BY <1>5 DEF Create
    <2>2. pc = "create" /\ obj.spec \in Specs
      BY <1>5 DEF Create, Inv, StateOK, ObjIsCopy, Objects
    <2>3. i \in Born' /\ centers'[i] \in CostCenterValues
      BY <1>1, <2>1, <2>2, CreateFacts
    <2>4. centers'[i].name = obj.spec.name
      BY <1>1, <2>1 DEF CreateCostCenter, CentersOK
    <2> QED
      BY <2>1, <2>2, <2>3, <2>4, ProceedReaches
  <1>6. CASE Rename
    <2>1. /\ pc = "rename" /\ obj.spec \in Specs /\ found \in Born
          /\ UpdateCostCenter(found, obj.spec) /\ Proceed(found, centers'[found])
      BY <1>6 DEF Rename, Inv, StateOK, ObjIsCopy, Objects, FoundReplaces
    <2>2. found \in Ids /\ found \in Born' /\ centers'[found] \in CostCenterValues
      BY <1>1, <2>1, RenameFacts DEF Grows
    <2>3. centers'[found].name = obj.spec.name
      BY <1>1, <2>1, <2>2 DEF UpdateCostCenter, Listed, CentersOK, CostCenterValues
    <2> QED
      BY <2>1, <2>2, <2>3, ProceedReaches
  <1>7. CASE SyncResources /\ Step
    BY <1>7, SyncReaches DEF SyncResources, Step
  <1>8. CASE Environment /\ UNCHANGED locals /\ touched' = touched \cup Changed
    <2>1. UNCHANGED <<pc, obj, found, todo>>
      BY <1>8 DEF locals
    <2>2. Grows
      BY <1>1, <1>8, OthersFacts, SameGrows DEF Environment
    <2>3. found \notin touched' => found \notin touched /\ found \notin Changed
      BY <1>8
    <2>4. ASSUME found \notin touched', found \in Born, centers'[found] \in CostCenterValues
          PROVE  /\ Listed(found)
                 /\ centers'[found].name = centers[found].name
                 /\ centers'[found].members = centers[found].members
      BY <1>1, <1>8, <2>3, <2>4, KeepsMembers
    <2>5. Listed(found)' <=> found \in Ids /\ centers'[found] \in CostCenterValues
      BY <2>1 DEF Listed
    <2> QED
      BY <2>1, <2>2, <2>3, <2>4, <2>5 DEF Reaching, Grows, allows
  <1>9. CASE \/ Reconcile \/ ensureFinalizer \/ StatusUpdate \/ Refetch \/ Annotate
             \/ DeleteExternal \/ Verify \/ RemoveFinalizer \/ Refused \/ Abort
             \/ AnswerLost
    BY <1>3, <1>9 DEF Reconcile, ensureFinalizer, StatusUpdate, Refetch, Annotate,
       DeleteExternal, Verify, RemoveFinalizer, Refused, Abort, AnswerLost, Return
  <1>10. CASE UNCHANGED vars
    BY <1>2, <1>10 DEF vars, env, locals
  <1> QED
    BY <1>4, <1>5, <1>6, <1>7, <1>8, <1>9, <1>10 DEF Next, Step, Controller

\* The status says Available only of a cost center with the name and exactly the
\* members of the spec, for any number of organizations and repositories, whatever
\* an earlier Reconcile left half done and whatever others do to other cost centers:
\* the plan is made from the list of this Reconcile, and the status comes after the
\* last of its calls (costcenter.go:86-165).
THEOREM SpecIsReached == Spec => []SpecReached
  <1>1. Init => Reaching
    BY DEF Init, Reaching
  <1>2. Reaching => SpecReached
    <2>1. Range(<<>>) = {}
      BY DEF Range
    <2>2. ASSUME NEW current, NEW desired, NEW calls, calls = <<>>,
                 Leads(current, calls, desired)
          PROVE  \A m : m \in current <=> m \in desired
      BY <2>1, <2>2 DEF Leads
    <2> SUFFICES ASSUME Reaching, pc = "updateStatus", found \notin touched,
                        allows(obj, "Update"), Listed(found)
                 PROVE  /\ centers[found].name = obj.spec.name
                        /\ centers[found].members = obj.spec.members
      BY DEF SpecReached
    <2>3. /\ todo = <<>> /\ centers[found].name = obj.spec.name
          /\ Leads(centers[found].members, todo, obj.spec.members)
      BY DEF Reaching
    <2>4. \A m : m \in centers[found].members <=> m \in obj.spec.members
      BY <2>2, <2>3
    <2> QED
      BY <2>3, <2>4
  <1> QED
    BY <1>1, <1>2, StepReaches, Invariance, PTL DEF Spec
=============================================================================
