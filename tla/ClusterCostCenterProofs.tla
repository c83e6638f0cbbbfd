----------------------- MODULE ClusterCostCenterProofs -----------------------
(***************************************************************************)
(* What ClusterCostCenter guarantees for any number of identifiers, names, *)
(* organizations, repositories, specs and policies and any number of       *)
(* faults: first what the calls of GitHubService and other users do to the *)
(* cost centers, as in NamespacedCostCenterProofs, then the invariant of   *)
(* the reconciler.  It is that of ClusterBudgetProofs - one copy of the    *)
(* object is observed, another one created from - with a synchronisation   *)
(* of several calls after each of the two observations, and a deletion     *)
(* that is verified.                                                       *)
(***************************************************************************)
EXTENDS ClusterCostCenter, ApiServerProofs, SequenceTheorems

CentersOK ==
    /\ centers \in [Ids -> CostCenterValues \cup {Unborn, Purged}]
    /\ mine \subseteq Ids

\* Identifiers are handed out once and for all, and no cost center comes back.
Grows == Born \subseteq Born' /\ Alive' \subseteq Alive \cup (Born' \ Born)

\* The identifier a copy records was handed out.
Known(o) == o # Gone /\ o.id # None => o.id \in Born

\* The resource calls.
Calls == [add : BOOLEAN, names : SUBSET Members]

\* This controller made no new cost center, and those that are still its own keep
\* their name or have one that a spec asks for.
MineKept ==
    /\ mine' \subseteq mine
    /\ \A i \in mine' : Listed(i)' =>
          /\ Listed(i)
          /\ \/ centers'[i].name = centers[i].name
             \/ \E s \in Specs : centers'[i].name = s.name
-----------------------------------------------------------------------------
LEMMA BornAlive == CentersOK => Alive \subseteq Born /\ Born \subseteq Ids
  BY CostCenterAssumption DEF CentersOK, Born, Alive, Active, Listed

LEMMA Same == UNCHANGED centers => Born' = Born /\ Alive' = Alive
  BY DEF Born, Alive, Active, Listed

\* An identifier that was handed out and has no cost center never has one again.
LEMMA StaysDead ==
  ASSUME Grows, NEW i \in Born \cup {None}, i \notin Alive
  PROVE  i \notin Alive'
  BY AbsentAssumption DEF Grows, Alive

\* findCostCenter returns a cost center of the list or None; the recorded
\* identifier, if it is in the list; and None only if neither that nor the name is.
LEMMA FindCostCenter ==
  ASSUME NEW o \in Objects
  PROVE  /\ findCostCenter(o) \in Ids \cup {None}
         /\ findCostCenter(o) # None => Listed(findCostCenter(o))
         /\ findCostCenter(o) # o.id => ~Listed(o.id)
         /\ findCostCenter(o) = None =>
               \A i \in Ids : Listed(i) => centers[i].name # o.spec.name
  <1> DEFINE named == {i \in Ids : Listed(i) /\ centers[i].name = o.spec.name}
  <1>1. CASE Listed(o.id)
    BY <1>1, AbsentAssumption DEF findCostCenter, Listed
  <1>2. CASE ~Listed(o.id) /\ named = {}
    BY <1>2 DEF findCostCenter
  <1>3. CASE ~Listed(o.id) /\ named # {}
    <2>1. named \in SUBSET Nat
      BY CostCenterAssumption
    <2>2. \E i \in named : \A j \in named : i <= j
      BY <1>3, <2>1, LeastElement
    <2>3. findCostCenter(o) = CHOOSE i \in named : \A j \in named : i <= j
      BY <1>3 DEF findCostCenter
    <2>4. findCostCenter(o) \in named
      BY <2>2, <2>3
    <2> QED
      BY <1>3, <2>4, AbsentAssumption
  <1> QED
    BY <1>1, <1>2, <1>3

\* What is planned is a sequence of calls.
LEMMA SyncPlanType ==
  ASSUME NEW current \in SUBSET Members, NEW desired \in SUBSET Members
  PROVE  SyncPlan(current, desired) \in Seq(Calls)
  <1>1. ASSUME NEW add \in BOOLEAN, NEW names \in SUBSET Members
        PROVE  ResourceCall(add, names) \in Seq(Calls)
    <2>1. [add |-> add, names |-> names] \in Calls
      BY DEF Calls
    <2> QED
      BY <2>1 DEF ResourceCall
  <1> DEFINE a == ResourceCall(TRUE, (desired \ current) \cap Organizations)
             b == ResourceCall(FALSE, (current \ desired) \cap Organizations)
             c == ResourceCall(TRUE, (desired \ current) \cap Repositories)
             d == ResourceCall(FALSE, (current \ desired) \cap Repositories)
  <1>2. a \in Seq(Calls) /\ b \in Seq(Calls) /\ c \in Seq(Calls) /\ d \in Seq(Calls)
    BY <1>1
  <1>3. SyncPlan(current, desired) = a \o b \o c \o d
    BY DEF SyncPlan
  <1> HIDE DEF a, b, c, d
  <1>4. a \o b \in Seq(Calls)
    BY <1>2, ConcatProperties
  <1>5. (a \o b) \o c \in Seq(Calls)
    BY <1>2, <1>4, ConcatProperties
  <1> QED
    BY <1>2, <1>3, <1>5, ConcatProperties

\* One listed cost center changes, and none comes back from deletion.
LEMMA ChangeFacts ==
  ASSUME CentersOK, NEW i \in Ids, NEW v \in CostCenterValues \cup {Purged},
         centers[i] \in CostCenterValues,
         centers' = [centers EXCEPT ![i] = v],
         v \in CostCenterValues /\ v.state # "deleted" => centers[i].state # "deleted",
         mine' \subseteq mine
  PROVE  /\ CentersOK' /\ Grows
         /\ centers'[i] = v
         /\ \A j \in Ids \ {i} : centers'[j] = centers[j]
         /\ v \in CostCenterValues => Listed(i)'
         /\ v \notin CostCenterValues \/ v.state = "deleted" => i \notin Alive'
         /\ v = Purged \/ v.name = centers[i].name \/ (\E s \in Specs : v.name = s.name)
               => MineKept
  <1>1. centers'[i] = v /\ \A j \in Ids \ {i} : centers'[j] = centers[j]
    BY DEF CentersOK
  <1>2. CentersOK'
    BY DEF CentersOK
  <1>3. Born' = Born
    BY <1>1, CostCenterAssumption DEF Born
  <1>4. Alive' \subseteq Alive
    BY <1>1 DEF Alive, Active, Listed
  <1>5. v \notin CostCenterValues \/ v.state = "deleted" => i \notin Alive'
    BY <1>1 DEF Alive, Active, Listed
  <1>6. ASSUME v = Purged \/ v.name = centers[i].name \/ (\E s \in Specs : v.name = s.name)
        PROVE  MineKept
    BY <1>1, <1>6, CostCenterAssumption DEF MineKept, Listed, CentersOK
  <1> QED
    BY <1>1, <1>2, <1>3, <1>4, <1>5, <1>6 DEF Grows, Listed

LEMMA CreateFacts ==
  ASSUME CentersOK, NEW i \in Ids, NEW s \in Specs, CreateCostCenter(i, s)
  PROVE  CentersOK' /\ Grows /\ i \in Born' /\ centers'[i] \in CostCenterValues
  <1> DEFINE v == [name |-> s.name, state |-> "active", members |-> {}]
  <1>1. v \in CostCenterValues
    BY CostCenterAssumption DEF CostCenterValues, States
  <1>2. centers[i] = Unborn /\ centers' = [centers EXCEPT ![i] = v] /\ mine' = mine \cup {i}
    BY DEF CreateCostCenter
  <1> HIDE DEF v
  <1>3. CentersOK'
    BY <1>1, <1>2 DEF CentersOK
  <1>4. centers'[i] = v /\ \A j \in Ids \ {i} : centers'[j] = centers[j]
    BY <1>2 DEF CentersOK
  <1>5. i \in Born' /\ i \notin Born
    BY <1>1, <1>2, <1>4, CostCenterAssumption DEF Born
  <1>6. Grows
    BY <1>4, <1>5 DEF Grows, Born, Alive, Active, Listed
  <1> QED
    BY <1>1, <1>3, <1>4, <1>5, <1>6

LEMMA RenameFacts ==
  ASSUME CentersOK, NEW i, NEW s \in Specs, UpdateCostCenter(i, s)
  PROVE  /\ CentersOK' /\ Grows /\ MineKept
         /\ i \in Ids /\ centers'[i] \in CostCenterValues
         /\ centers'[i].state = centers[i].state
         /\ \A j \in Ids \ {i} : centers'[j] = centers[j]
  <1>1. i \in Ids /\ centers[i] \in CostCenterValues
    BY DEF UpdateCostCenter, Listed
  <1> DEFINE v == [centers[i] EXCEPT !.name = s.name]
  <1>2. v \in CostCenterValues /\ v.name = s.name /\ v.state = centers[i].state
    BY <1>1, CostCenterAssumption DEF CostCenterValues
  <1>3. centers' = [centers EXCEPT ![i] = v] /\ mine' = mine
    BY DEF UpdateCostCenter
  <1> HIDE DEF v
  <1> QED
    BY <1>1, <1>2, <1>3, ChangeFacts

LEMMA MapFacts ==
  ASSUME CentersOK, NEW i, NEW call \in Calls, MapResources(i, call)
  PROVE  /\ CentersOK' /\ Grows /\ MineKept
         /\ i \in Ids /\ Listed(i) /\ centers'[i] \in CostCenterValues
         /\ centers'[i].state = centers[i].state
         /\ \A j \in Ids \ {i} : centers'[j] = centers[j]
  <1>1. i \in Ids /\ centers[i] \in CostCenterValues /\ Listed(i)
    BY DEF MapResources, Listed
  <1> DEFINE now == IF call.add THEN centers[i].members \cup call.names
                                ELSE centers[i].members \ call.names
             v == [centers[i] EXCEPT !.members = now]
  <1>2. now \in SUBSET Members
    BY <1>1 DEF CostCenterValues, Calls
  <1>3. centers' = [centers EXCEPT ![i] = v] /\ mine' = mine
    BY DEF MapResources
  <1> HIDE DEF now
  <1>4. v \in CostCenterValues /\ v.name = centers[i].name /\ v.state = centers[i].state
    BY <1>1, <1>2 DEF CostCenterValues
  <1> HIDE DEF v
  <1> QED
    BY <1>1, <1>3, <1>4, ChangeFacts

\* A listed cost center moves on in its deletion.
LEMMA StateFacts ==
  ASSUME CentersOK, NEW i \in Ids, centers[i] \in CostCenterValues,
         NEW st \in {"deleting", "deleted"},
         centers[i].state = "deleted" => st = "deleted",
         centers' = [centers EXCEPT ![i].state = st], mine' = mine
  PROVE  /\ CentersOK' /\ Grows /\ MineKept
         /\ \A j \in Ids \ {i} : centers'[j] = centers[j]
  <1> DEFINE v == [centers[i] EXCEPT !.state = st]
  <1>1. v \in CostCenterValues /\ v.name = centers[i].name /\ v.state = st
    BY DEF CostCenterValues, States
  <1>2. centers' = [centers EXCEPT ![i] = v]
    OBVIOUS
  <1> HIDE DEF v
  <1> QED
    BY <1>1, <1>2, ChangeFacts

LEMMA PurgeFacts ==
  ASSUME CentersOK, NEW i \in Ids, centers[i] \in CostCenterValues,
         centers' = [centers EXCEPT ![i] = Purged], mine' = mine
  PROVE  /\ CentersOK' /\ Grows /\ MineKept
         /\ \A j \in Ids \ {i} : centers'[j] = centers[j]
  BY ChangeFacts, CostCenterAssumption

LEMMA DeleteFacts ==
  ASSUME CentersOK, NEW i, DeleteCostCenter(i)
  PROVE  /\ CentersOK' /\ Grows /\ MineKept
         /\ i \in Ids /\ Listed(i)
         /\ \A j \in Ids \ {i} : centers'[j] = centers[j]
  <1>1. i \in Ids /\ centers[i] \in CostCenterValues /\ Listed(i) /\ mine' = mine
    BY DEF DeleteCostCenter, Listed
  <1>2. CASE centers' = [centers EXCEPT ![i] = Purged]
    BY <1>1, <1>2, PurgeFacts
  <1>3. CASE \E st \in {"deleting", "deleted"} :
                /\ centers[i].state = "deleted" => st = "deleted"
                /\ centers' = [centers EXCEPT ![i].state = st]
    BY <1>1, <1>3, StateFacts
  <1> QED
    BY <1>2, <1>3 DEF DeleteCostCenter

LEMMA OthersFacts ==
  ASSUME CentersOK,
         Progress \/ Purge \/ OthersCreate \/ OthersRename \/ OthersMap \/ OthersDelete
  PROVE  CentersOK' /\ Grows /\ (mine \subseteq Born => MineKept)
  <1>1. CASE Progress
    <2>1. PICK i \in Ids : /\ Listed(i) /\ centers[i].state = "deleting"
                           /\ centers' = [centers EXCEPT ![i].state = "deleted"]
      BY <1>1 DEF Progress
    <2>2. mine' = mine
      BY <1>1 DEF Progress
    <2> QED
      BY <2>1, <2>2, StateFacts DEF Listed
  <1>2. CASE Purge
    BY <1>2, PurgeFacts DEF Purge, Listed
  <1>3. CASE OthersCreate
    <2>1. PICK i \in Ids, n \in Names, M \in SUBSET Members :
             /\ centers[i] = Unborn
             /\ centers' = [centers EXCEPT ![i] =
                               [name |-> n, state |-> "active", members |-> M]]
      BY <1>3 DEF OthersCreate
    <2> DEFINE v == [name |-> n, state |-> "active", members |-> M]
    <2>2. v \in CostCenterValues
      BY DEF CostCenterValues, States
    <2>3. centers' = [centers EXCEPT ![i] = v] /\ mine' = mine
      BY <1>3, <2>1 DEF OthersCreate
    <2> HIDE DEF v
    <2>4. CentersOK'
      BY <2>2, <2>3 DEF CentersOK
    <2>5. centers'[i] = v /\ \A j \in Ids \ {i} : centers'[j] = centers[j]
      BY <2>3 DEF CentersOK
    <2>6. i \notin Born
      BY <2>1 DEF Born
    <2>7. Grows
      BY <2>2, <2>5, <2>6, CostCenterAssumption DEF Grows, Born, Alive, Active, Listed
    <2>8. mine \subseteq Born => MineKept
      BY <2>3, <2>5, <2>6 DEF MineKept, Listed, CentersOK
    <2> QED
      BY <2>4, <2>7, <2>8
  <1>4. CASE OthersRename
    <2>1. PICK i \in Ids, n \in Names :
             /\ Active(i)
             /\ centers' = [centers EXCEPT ![i].name = n]
             /\ mine' = mine \ {i}
      BY <1>4 DEF OthersRename
    <2> DEFINE v == [centers[i] EXCEPT !.name = n]
    <2>2. v \in CostCenterValues /\ v.state = centers[i].state
      BY <2>1 DEF CostCenterValues, Active, Listed
    <2>3. centers' = [centers EXCEPT ![i] = v]
      BY <2>1
    <2> HIDE DEF v
    <2>4. CentersOK' /\ Grows /\ \A j \in Ids \ {i} : centers'[j] = centers[j]
      BY <2>1, <2>2, <2>3, ChangeFacts DEF Active, Listed
    <2> QED
      BY <2>1, <2>4 DEF MineKept, Listed, CentersOK
  <1>5. CASE OthersMap
    <2>1. PICK i \in Ids, m \in Members :
             /\ Active(i)
             /\ centers' = [centers EXCEPT ![i].members =
                               IF m \in @ THEN @ \ {m} ELSE @ \cup {m}]
      BY <1>5 DEF OthersMap
    <2> DEFINE now == IF m \in centers[i].members THEN centers[i].members \ {m}
                                                  ELSE centers[i].members \cup {m}
               v == [centers[i] EXCEPT !.members = now]
    <2>2. centers[i] \in CostCenterValues
      BY <2>1 DEF Active, Listed
    <2>3. now \in SUBSET Members
      BY <2>2 DEF CostCenterValues
    <2>4. centers' = [centers EXCEPT ![i] = v] /\ mine' = mine
      BY <1>5, <2>1 DEF OthersMap
    <2> HIDE DEF now
    <2>5. v \in CostCenterValues /\ v.name = centers[i].name /\ v.state = centers[i].state
      BY <2>2, <2>3 DEF CostCenterValues
    <2> HIDE DEF v
    <2> QED
      BY <2>2, <2>4, <2>5, ChangeFacts
  <1>6. CASE OthersDelete
    <2>1. PICK i \in Ids, st \in {"deleting", "deleted"} :
             /\ Listed(i) /\ centers[i].state = "active"
             /\ centers' = [centers EXCEPT ![i].state = st]
      BY <1>6 DEF OthersDelete
    <2>2. mine' = mine
      BY <1>6 DEF OthersDelete
    <2> QED
      BY <2>1, <2>2, StateFacts DEF Listed
  <1> QED
    BY <1>1, <1>2, <1>3, <1>4, <1>5, <1>6
-----------------------------------------------------------------------------
(* The invariant of the reconciler.                                        *)

\* The informer's copy, and what copies and the object record.
WorldInv ==
    /\ CopyOf(seen, api)
    /\ api # Gone => seen # Gone
    /\ Guarded(api)
    /\ Known(api) /\ Known(seen) /\ Known(obj)

\* Until Reconcile changes its copy in memory, that is the object as it was read,
\* and never newer than what the informer shows afterwards.
ObjIsCopy ==
    /\ pc # "idle" => obj # Gone
    /\ Behind(obj, api)
    /\ pc \notin {"updateStatus", "refetch", "resync", "annotate"} => Exact(obj, api)
    /\ pc = "observe" => Behind(obj, seen)
    /\ pc \in {"delete", "verify", "removeFinalizer"} => obj.deleting /\ obj.id # None

\* An object that is worked on has its finalizer, as far as its copy is current.
ObjIsGuarded ==
    pc \in {"observe", "sync", "handle", "updateStatus"} /\ IsCurrent(obj) => api.finalizer

\* Nothing active was found, so what is recorded is not active.
AbsentIsGone ==
    pc = "handle" /\ observed = "absent" /\ IsCurrent(obj) => api.id \notin Alive

\* There is a call left to make, for a cost center that was found.
TodoRemains ==
    /\ pc \in {"sync", "resync"} => todo # <<>>
    /\ pc = "sync" => observed # "absent"

\* The identifier about to be recorded is the one that was, or replaces that of a
\* cost center that is not active.
RecordsNew ==
    pc = "updateStatus" /\ IsCurrent(obj) /\ obj.id # api.id =>
        obj.id \in Born /\ api.id \notin Alive

\* The object is about to be released only after its cost center, whatever its
\* policies say.
ReleasesLast ==
    pc = "removeFinalizer" /\ IsCurrent(obj) => api.id \notin Alive

\* The copy for the annotation does not touch the finalizer, however long the second
\* synchronisation takes.
LatestIsCopy ==
    pc \in {"resync", "annotate"} =>
        latest # Gone /\ Behind(latest, api)
        /\ (IsCurrent(latest) => latest.finalizer = api.finalizer)

Inv ==
    /\ TypeOK
    /\ WorldInv
    /\ ObjIsCopy
    /\ ObjIsGuarded
    /\ AbsentIsGone
    /\ TodoRemains
    /\ RecordsNew
    /\ ReleasesLast
    /\ LatestIsCopy
-----------------------------------------------------------------------------
LEMMA InitInv == Init => Inv
  <1> SUFFICES ASSUME Init PROVE Inv
    OBVIOUS
  <1> USE AbsentAssumption
  <1>1. PICK s \in Specs, p \in Policies : api = NewObject(s, p)
    BY DEF Init
  <1>2. /\ api \in Objects /\ api # Gone
        /\ api.id = None /\ ~api.deleting
    BY <1>1, NewObjectFacts
  <1>3. centers \in [Ids -> CostCenterValues \cup {Unborn, Purged}]
    BY DEF Init
  <1>4. TypeOK
    <2>1. /\ seen = api /\ faults = 0 /\ mine = {} /\ pc = "idle" /\ obj = Gone
          /\ observed = "absent" /\ target = None /\ todo = <<>> /\ latest = Gone
      BY DEF Init
    <2>2. faults \in 0 .. MaxFaults
      BY <2>1
    <2>3. todo \in Seq([add : BOOLEAN, names : SUBSET Members])
      BY <2>1
    <2> QED
      BY <1>2, <1>3, <2>1, <2>2, <2>3, Zenon DEF TypeOK, Labels
  <1>5. WorldInv
    <2>1. seen = api /\ obj = Gone
      BY DEF Init
    <2>2. CopyOf(seen, api)
      BY <1>2, <2>1 DEF CopyOf, Behind, Exact, Objects
    <2> QED
      BY <1>2, <2>1, <2>2 DEF WorldInv, Guarded, Known
  <1>6. ObjIsCopy /\ ObjIsGuarded /\ AbsentIsGone /\ TodoRemains /\ RecordsNew
        /\ ReleasesLast /\ LatestIsCopy
    BY DEF Init, ObjIsCopy, ObjIsGuarded, AbsentIsGone, TodoRemains, RecordsNew,
           ReleasesLast, LatestIsCopy, Behind, Exact
  <1> QED
    BY <1>4, <1>5, <1>6 DEF Inv

\* What holds of the copies whatever happens to the object and the cost centers.
LEMMA CopiesKept ==
  ASSUME Inv, api' \in Copies, Moves(api, api'), Grows,
         seen' = seen \/ (seen' = api /\ api' = api)
  PROVE  /\ seen' \in Copies
         /\ CopyOf(seen', api')
         /\ api' # Gone => seen' # Gone
         /\ Known(seen)'
         /\ Behind(obj, api')
         /\ Exact(obj, api) => Exact(obj, api')
         /\ Behind(obj, seen) => Behind(obj, seen')
         /\ obj # Gone /\ api' # Gone /\ obj.version = api'.version => api' = api
         /\ obj # Gone /\ obj.id # None => obj.id \in Born'
         /\ Behind(latest, api) => Behind(latest, api')
         /\ Behind(latest, api) =>
               (latest # Gone /\ api' # Gone /\ latest.version = api'.version => api' = api)
  <1>1. api \in Copies /\ seen \in Copies /\ obj \in Copies /\ latest \in Copies
    BY DEF Inv, TypeOK, Copies
  <1>2. /\ Behind(seen, api) /\ Exact(seen, api)
        /\ Known(api) /\ Known(seen) /\ Known(obj)
        /\ api # Gone => seen # Gone
        /\ Behind(obj, api)
    BY DEF Inv, WorldInv, CopyOf, ObjIsCopy
  <1>3. CASE seen' = seen
    <2>1. CopyOf(seen', api')
      BY <1>1, <1>2, <1>3, CopyKept DEF CopyOf
    <2>2. api' # Gone => api # Gone
      BY DEF Moves
    <2>3. Known(seen)'
      BY <1>2, <1>3 DEF Known, Grows
    <2>4. Behind(obj, seen) => Behind(obj, seen')
      BY <1>3
    <2> QED
      BY <1>1, <1>2, <1>3, <2>1, <2>2, <2>3, <2>4, CopyKept DEF Known, Grows
  <1>4. CASE seen' = api /\ api' = api
    <2>1. \A c \in Copies : c # Gone => c.version \in Nat
      BY DEF Copies, Objects
    <2>2. CopyOf(seen', api')
      BY <1>1, <1>4, <2>1 DEF CopyOf, Behind, Exact
    <2>3. Known(seen)'
      BY <1>2, <1>4 DEF Known, Grows
    <2> QED
      BY <1>1, <1>2, <1>4, <2>2, <2>3, CopyKept DEF Known, Grows
  <1> QED
    BY <1>3, <1>4

\* Reconcile stays where it is, and nothing it recorded changes.
LEMMA LocalsKept ==
  ASSUME Inv, TypeOK', Moves(api, api'), Grows,
         seen' = seen \/ (seen' = api /\ api' = api),
         Guarded(api)', Known(api)', UNCHANGED locals
  PROVE  Inv'
  <1>1. api' \in Copies
    BY DEF TypeOK, Copies
  <1>2. UNCHANGED <<pc, obj, observed, target, todo, latest>>
    BY DEF locals
  <1>3. WorldInv'
    BY <1>1, <1>2, CopiesKept DEF WorldInv, Known
  <1>4. ObjIsCopy'
    BY <1>1, <1>2, CopiesKept DEF Inv, ObjIsCopy
  <1>5. IsCurrent(obj)' => api' = api /\ IsCurrent(obj)
    BY <1>1, <1>2, CopiesKept DEF IsCurrent
  <1>6. ASSUME api' = api, api # Gone, api.id \notin Alive PROVE api.id \notin Alive'
    <2>1. api.id \in Born \cup {None}
      BY <1>6 DEF Inv, WorldInv, Known
    <2> QED
      BY <1>6, <2>1, StaysDead
  <1>7. ObjIsGuarded'
    BY <1>2, <1>5 DEF Inv, ObjIsGuarded, IsCurrent
  <1>8. AbsentIsGone'
    BY <1>2, <1>5, <1>6 DEF Inv, AbsentIsGone, IsCurrent
  <1>9. RecordsNew'
    BY <1>2, <1>5, <1>6 DEF Inv, RecordsNew, IsCurrent, Grows
  <1>10. ReleasesLast'
    BY <1>2, <1>5, <1>6 DEF Inv, ReleasesLast, IsCurrent
  <1>11. TodoRemains'
    BY <1>2 DEF Inv, TodoRemains
  <1>12. LatestIsCopy'
    BY <1>1, <1>2, CopiesKept DEF Inv, LatestIsCopy, IsCurrent
  <1> QED
    BY <1>3, <1>4, <1>7, <1>8, <1>9, <1>10, <1>11, <1>12 DEF Inv

\* Reconcile returns.
LEMMA ReturnKept ==
  ASSUME Inv, TypeOK', Moves(api, api'), Grows, seen' = seen,
         Guarded(api)', Known(api)', Return
  PROVE  Inv'
  <1>1. api' \in Copies
    BY DEF TypeOK, Copies
  <1>2. pc' = "idle" /\ obj' = Gone
    BY DEF Return
  <1>3. WorldInv'
    BY <1>1, <1>2, CopiesKept DEF WorldInv, Known
  <1>4. ObjIsCopy' /\ ObjIsGuarded' /\ AbsentIsGone' /\ TodoRemains' /\ RecordsNew'
        /\ ReleasesLast' /\ LatestIsCopy'
    BY <1>2 DEF ObjIsCopy, ObjIsGuarded, AbsentIsGone, TodoRemains, RecordsNew,
                ReleasesLast, LatestIsCopy, Behind, Exact
  <1> QED
    BY <1>3, <1>4 DEF Inv

LEMMA ReturnType == ASSUME Return PROVE
  /\ pc' \in Labels /\ obj' \in Objects \cup {Gone}
  /\ observed' \in {"absent", "outdated", "current"} /\ target' \in Ids \cup {None}
  /\ todo' \in Seq([add : BOOLEAN, names : SUBSET Members])
  /\ latest' \in Objects \cup {Gone}
  <1>1. <<>> \in Seq([add : BOOLEAN, names : SUBSET Members])
    OBVIOUS
  <1> QED
    BY <1>1 DEF Return, Labels

\* A step that leaves the object alone, also that of a lost answer.
LEMMA Unchanged ==
  ASSUME Inv, UNCHANGED api, Grows
  PROVE  Moves(api, api') /\ Guarded(api)' /\ Known(api)'
  BY DEF Moves, Grows, Inv, WorldInv, Known

LEMMA SameGrows == UNCHANGED centers => Grows
  BY Same DEF Grows

-----------------------------------------------------------------------------
(* The steps of Reconcile, in the order of its calls.                      *)

LEMMA ReconcileInv == ASSUME Inv, Reconcile PROVE Inv'
  <1> USE DEF Reconcile, env
  <1>1. seen \in Objects /\ seen # Gone
    BY DEF Inv, TypeOK
  <1>2. TypeOK'
    BY <1>1 DEF Inv, TypeOK, Labels
  <1>3. WorldInv'
    BY Same DEF Inv, WorldInv, Known
  <1>4. CopyOf(obj, api)' /\ Behind(obj, seen)'
    BY <1>1 DEF Inv, WorldInv, CopyOf, Behind, Exact, Objects
  <1>5. ObjIsCopy'
    BY <1>1, <1>4 DEF ObjIsCopy, CopyOf
  <1>6. IsCurrent(obj)' => obj' = api /\ api' = api
    BY <1>1, <1>4 DEF IsCurrent, CopyOf, Exact
  <1>7. ObjIsGuarded'
    BY <1>6 DEF ObjIsGuarded
  <1>8. AbsentIsGone' /\ TodoRemains' /\ RecordsNew' /\ ReleasesLast' /\ LatestIsCopy'
    BY DEF AbsentIsGone, TodoRemains, RecordsNew, ReleasesLast, LatestIsCopy
  <1> QED
    BY <1>2, <1>3, <1>5, <1>7, <1>8 DEF Inv

LEMMA EnsureFinalizerFacts ==
  ASSUME Inv, ensureFinalizer
  PROVE  /\ api # Gone /\ api' \in Copies /\ api' # Gone /\ Moves(api, api')
         /\ api'.finalizer /\ api'.id = api.id /\ api'.deleting = api.deleting
  <1> DEFINE sent == [obj EXCEPT !.finalizer = TRUE]
  <1>1. obj \in Objects /\ api \in Copies
    BY DEF ensureFinalizer, Inv, TypeOK, ObjIsCopy, Copies
  <1>2. sent \in Objects /\ sent.finalizer
    BY <1>1 DEF Objects
  <1>3. Update(sent)
    BY DEF ensureFinalizer
  <1> HIDE DEF sent
  <1> QED
    BY <1>1, <1>2, <1>3, UpdateFacts

LEMMA EnsureFinalizerInv == ASSUME Inv, ensureFinalizer PROVE Inv'
  <1>1. Return /\ UNCHANGED <<seen, faults, centers, mine>>
    BY DEF ensureFinalizer
  <1>2. TypeOK'
    BY <1>1, ReturnType, EnsureFinalizerFacts DEF Inv, TypeOK, Copies
  <1>3. Guarded(api)' /\ Known(api)'
    BY <1>1, EnsureFinalizerFacts, Same DEF Guarded, Known, Inv, WorldInv
  <1> QED
    BY <1>1, <1>2, <1>3, EnsureFinalizerFacts, SameGrows, ReturnKept

\* What an observation of copy o leaves behind: a cost center that is active and the
\* calls it needs, or the certainty that what o records is not active.
LEMMA ObserveFacts ==
  ASSUME CentersOK, NEW o \in Objects, NEW sync, NEW after, sync # after,
         Observe(o, sync, after)
  PROVE  /\ pc' \in {sync, after}
         /\ observed' \in {"absent", "outdated", "current"}
         /\ target' \in Ids \cup {None}
         /\ todo' \in Seq(Calls)
         /\ pc' = sync => todo' # <<>> /\ observed' # "absent"
         /\ observed' = "absent" => ~Active(findCostCenter(o)) /\ o.id \notin Alive
  <1>1. /\ findCostCenter(o) \in Ids \cup {None}
        /\ findCostCenter(o) # o.id => ~Listed(o.id)
    BY FindCostCenter
  <1>2. CASE Active(findCostCenter(o))
    <2> DEFINE found == findCostCenter(o)
    <2>1. /\ target' = found
          /\ observed' = IF centers[found].name = o.spec.name THEN "current" ELSE "outdated"
          /\ todo' = SyncPlan(centers[found].members, o.spec.members)
          /\ pc' = IF todo' = <<>> THEN after ELSE sync
      BY <1>2 DEF Observe
    <2>2. centers[found].members \in SUBSET Members
      BY <1>2 DEF Active, Listed, CostCenterValues
    <2>3. o.spec.members \in SUBSET Members
      BY CostCenterAssumption DEF Objects
    <2> HIDE DEF found
    <2>4. todo' \in Seq(Calls)
      BY <2>1, <2>2, <2>3, SyncPlanType
    <2> QED
      BY <1>1, <2>1, <2>4 DEF found
  <1>3. CASE ~Active(findCostCenter(o))
    <2>1. target' = None /\ observed' = "absent" /\ todo' = <<>> /\ pc' = after
      BY <1>3 DEF Observe
    <2>2. o.id \notin Alive
      BY <1>1, <1>3 DEF Alive, Active
    <2>3. todo' \in Seq(Calls)
      BY <2>1
    <2> QED
      BY <1>3, <2>1, <2>2, <2>3
  <1> QED
    BY <1>2, <1>3

LEMMA ObserveInv == ASSUME Inv, observeResource PROVE Inv'
  <1>1. /\ seen \in Objects /\ seen # Gone /\ obj \in Objects /\ obj # Gone
        /\ CentersOK /\ pc = "observe" /\ Observe(seen, "sync", "handle")
        /\ UNCHANGED <<env, obj, latest>>
    BY DEF observeResource, Inv, TypeOK, ObjIsCopy, CentersOK
  <1>2. /\ pc' \in {"sync", "handle"}
        /\ observed' \in {"absent", "outdated", "current"}
        /\ target' \in Ids \cup {None}
        /\ todo' \in Seq(Calls)
        /\ pc' = "sync" => todo' # <<>> /\ observed' # "absent"
        /\ observed' = "absent" => seen.id \notin Alive
    BY <1>1, ObserveFacts
  <1> USE DEF env
  <1>3. TypeOK'
    BY <1>1, <1>2 DEF Inv, TypeOK, Labels, Calls
  <1>4. WorldInv'
    BY <1>1, Same DEF Inv, WorldInv, Known
  <1>5. ObjIsCopy' /\ ObjIsGuarded'
    BY <1>1, <1>2 DEF Inv, ObjIsCopy, ObjIsGuarded, IsCurrent
  <1>6. TodoRemains' /\ RecordsNew' /\ ReleasesLast' /\ LatestIsCopy'
    BY <1>2 DEF TodoRemains, RecordsNew, ReleasesLast, LatestIsCopy
  <1>7. ASSUME observed' = "absent", IsCurrent(obj) PROVE api.id \notin Alive
    <2>1. obj.version <= seen.version /\ seen.version <= api.version
      BY <1>1, <1>7 DEF Inv, ObjIsCopy, WorldInv, CopyOf, Behind, IsCurrent
    <2>2. seen.version = api.version
      BY <1>1, <1>7, <2>1 DEF IsCurrent, Objects
    <2>3. seen = api
      BY <1>1, <1>7, <2>2 DEF Inv, WorldInv, CopyOf, Exact, IsCurrent
    <2> QED
      BY <1>2, <1>7, <2>3
  <1>8. AbsentIsGone'
    BY <1>1, <1>7, Same DEF AbsentIsGone, IsCurrent
  <1> QED
    BY <1>3, <1>4, <1>5, <1>6, <1>8 DEF Inv

\* The next resource call, whether its answer arrives or not.
LEMMA NextCall ==
  ASSUME Inv, pc \in {"sync", "resync"}, MapResources(target, Head(todo))
  PROVE  /\ Tail(todo) \in Seq(Calls)
         /\ CentersOK' /\ Grows /\ MineKept
  <1>1. todo \in Seq(Calls) /\ todo # <<>> /\ CentersOK
    BY DEF Inv, TypeOK, TodoRemains, Calls, CentersOK
  <1>2. Head(todo) \in Calls /\ Tail(todo) \in Seq(Calls)
    BY <1>1, HeadTailProperties
  <1> QED
    BY <1>1, <1>2, MapFacts

LEMMA SyncResourcesInv == ASSUME Inv, SyncResources PROVE Inv'
  <1>1. /\ pc \in {"sync", "resync"} /\ MapResources(target, Head(todo))
        /\ todo' = Tail(todo)
        /\ pc' = IF todo' # <<>> THEN pc ELSE IF pc = "sync" THEN "handle" ELSE "annotate"
        /\ UNCHANGED <<api, seen, faults, obj, observed, target, latest>>
    BY DEF SyncResources
  <1>2. todo' \in Seq(Calls) /\ CentersOK' /\ Grows
    BY <1>1, NextCall
  <1>3. TypeOK'
    BY <1>1, <1>2 DEF Inv, TypeOK, CentersOK, Calls, Labels
  <1>4. WorldInv'
    BY <1>1, <1>2 DEF Inv, WorldInv, Known, Grows
  <1>5. ObjIsCopy' /\ ObjIsGuarded'
    BY <1>1 DEF Inv, ObjIsCopy, ObjIsGuarded, IsCurrent
  <1>6. RecordsNew' /\ ReleasesLast'
    BY <1>1 DEF RecordsNew, ReleasesLast
  <1>7. LatestIsCopy'
    BY <1>1 DEF Inv, LatestIsCopy, IsCurrent
  <1>8. AbsentIsGone' /\ TodoRemains'
    BY <1>1 DEF Inv, TodoRemains, AbsentIsGone
  <1> QED
    BY <1>3, <1>4, <1>5, <1>6, <1>7, <1>8 DEF Inv

\* POST: the new identifier goes into the copy in memory.
LEMMA CreateInv == ASSUME Inv, Create PROVE Inv'
  <1>1. /\ pc = "handle" /\ observed = "absent" /\ pc' = "updateStatus"
        /\ obj \in Objects /\ obj # Gone /\ obj.spec \in Specs /\ CentersOK
        /\ UNCHANGED <<api, seen, faults, observed, target, todo, latest>>
    BY DEF Create, Inv, TypeOK, ObjIsCopy, Objects, CentersOK
  <1>2. PICK i \in Ids : /\ CreateCostCenter(i, obj.spec)
                         /\ obj' = [obj EXCEPT !.id = i, !.name = i, !.shown = {}]
    BY DEF Create
  <1>3. CentersOK' /\ Grows /\ i \in Born'
    BY <1>1, <1>2, CreateFacts
  <1>4. obj' \in Objects /\ obj' # Gone /\ obj'.id = i /\ obj'.version = obj.version
    <2>1. ASSUME NEW m \in Shown, NEW j \in Ids \cup {None},
                 obj' = [obj EXCEPT !.id = j, !.name = j, !.shown = m]
          PROVE  obj' \in Objects /\ obj'.id = j /\ obj'.version = obj.version
      BY <1>1, <2>1 DEF Objects
    <2>2. {} \in Shown
      BY CostCenterAssumption
    <2>3. obj' \in Objects /\ obj'.id = i /\ obj'.version = obj.version
      BY <1>2, <2>1, <2>2
    <2> QED
      BY <2>3, AbsentAssumption
  <1>5. TypeOK'
    BY <1>1, <1>3, <1>4 DEF Inv, TypeOK, CentersOK, Labels
  <1>6. WorldInv'
    BY <1>1, <1>3, <1>4 DEF Inv, WorldInv, Known, Grows
  <1>7. ObjIsCopy'
    BY <1>1, <1>4 DEF Inv, ObjIsCopy, Behind
  <1>8. IsCurrent(obj)' => IsCurrent(obj)
    BY <1>1, <1>4 DEF IsCurrent
  <1>9. ObjIsGuarded'
    BY <1>1, <1>8 DEF Inv, ObjIsGuarded
  <1>10. AbsentIsGone' /\ TodoRemains' /\ ReleasesLast' /\ LatestIsCopy'
    BY <1>1 DEF AbsentIsGone, TodoRemains, ReleasesLast, LatestIsCopy
  <1>11. RecordsNew'
    <2>1. ASSUME IsCurrent(obj) PROVE api.id \notin Alive'
      <3>1. api.id \in Born \cup {None} /\ api.id \notin Alive
        BY <1>1, <2>1 DEF Inv, AbsentIsGone, WorldInv, Known, IsCurrent
      <3> QED
        BY <1>3, <3>1, StaysDead
    <2> QED
      BY <1>1, <1>3, <1>4, <1>8, <2>1 DEF RecordsNew
  <1> QED
    BY <1>5, <1>6, <1>7, <1>9, <1>10, <1>11 DEF Inv

\* PATCH: the copy in memory keeps its identifier.
LEMMA UpdateExternalInv == ASSUME Inv, UpdateExternal PROVE Inv'
  <1>1. /\ pc = "handle" /\ observed = "outdated" /\ pc' = "updateStatus"
        /\ obj \in Objects /\ obj # Gone /\ obj.spec \in Specs /\ CentersOK
        /\ UpdateCostCenter(obj.id, obj.spec)
        /\ obj' = [obj EXCEPT !.name = obj.id, !.shown = centers[obj.id].members]
        /\ UNCHANGED <<api, seen, faults, observed, target, todo, latest>>
    BY DEF UpdateExternal, Inv, TypeOK, ObjIsCopy, Objects, CentersOK
  <1>2. CentersOK' /\ Grows
    BY <1>1, RenameFacts
  <1>3. obj' \in Objects /\ obj' # Gone /\ obj'.id = obj.id /\ obj'.version = obj.version
    <2>1. ASSUME NEW m \in Shown, NEW j \in Ids \cup {None},
                 obj' = [obj EXCEPT !.name = j, !.shown = m]
          PROVE  obj' \in Objects /\ obj'.id = obj.id /\ obj'.version = obj.version
      BY <1>1, <2>1 DEF Objects
    <2>2. centers[obj.id].members \in Shown /\ obj.id \in Ids
      BY <1>1, CostCenterAssumption DEF UpdateCostCenter, Listed, CostCenterValues
    <2>3. obj' \in Objects /\ obj'.id = obj.id /\ obj'.version = obj.version
      BY <1>1, <2>1, <2>2
    <2> QED
      BY <2>3, AbsentAssumption
  <1>4. TypeOK'
    BY <1>1, <1>2, <1>3 DEF Inv, TypeOK, CentersOK, Labels
  <1>5. WorldInv'
    BY <1>1, <1>2, <1>3 DEF Inv, WorldInv, Known, Grows
  <1>6. ObjIsCopy'
    BY <1>1, <1>3 DEF Inv, ObjIsCopy, Behind
  <1>7. IsCurrent(obj)' => IsCurrent(obj)
    BY <1>1, <1>3 DEF IsCurrent
  <1>8. ObjIsGuarded'
    BY <1>1, <1>7 DEF Inv, ObjIsGuarded
  <1>9. AbsentIsGone' /\ TodoRemains' /\ ReleasesLast' /\ LatestIsCopy'
    BY <1>1 DEF AbsentIsGone, TodoRemains, ReleasesLast, LatestIsCopy
  <1>10. RecordsNew'
    BY <1>1, <1>3, <1>7 DEF RecordsNew, Inv, ObjIsCopy, Exact, IsCurrent
  <1> QED
    BY <1>4, <1>5, <1>6, <1>8, <1>9, <1>10 DEF Inv

LEMMA NothingInv == ASSUME Inv, Nothing PROVE Inv'
  <1> USE DEF Nothing, env
  <1>1. TypeOK'
    BY DEF Inv, TypeOK, Labels
  <1>2. WorldInv'
    BY Same DEF Inv, WorldInv, Known
  <1>3. ObjIsCopy' /\ ObjIsGuarded'
    BY DEF Inv, ObjIsCopy, ObjIsGuarded, IsCurrent
  <1>4. AbsentIsGone' /\ TodoRemains' /\ ReleasesLast' /\ LatestIsCopy'
    BY DEF AbsentIsGone, TodoRemains, ReleasesLast, LatestIsCopy
  <1>5. RecordsNew'
    BY DEF RecordsNew, Inv, ObjIsCopy, Exact, IsCurrent
  <1> QED
    BY <1>1, <1>2, <1>3, <1>4, <1>5 DEF Inv

\* Status().Update.
LEMMA StatusFacts ==
  ASSUME Inv, pc = "updateStatus", WriteStatus
  PROVE  /\ IsCurrent(obj)
         /\ api' \in Copies /\ api' # Gone /\ Moves(api, api')
         /\ api'.id = obj.id /\ api'.deleting = api.deleting /\ api'.finalizer
  <1>1. obj \in Objects /\ obj # Gone /\ api \in Copies /\ observed \in Reports
    BY DEF Inv, TypeOK, ObjIsCopy, Copies, Reports
  <1>2. PICK sent \in Conditions(obj, observed) : UpdateStatus(sent)
    BY DEF WriteStatus
  <1>3. sent \in Objects /\ sent.id = obj.id /\ sent.version = obj.version
    BY <1>1, ConditionsFacts
  <1>4. /\ api # Gone /\ sent.version = api.version
        /\ api' \in Copies /\ Moves(api, api')
        /\ api' = Gone => api.deleting /\ ~api.finalizer
        /\ api' # Gone => /\ api'.deleting = api.deleting
                          /\ api'.finalizer = api.finalizer
                          /\ api'.id = sent.id
    BY <1>1, <1>2, <1>3, UpdateStatusFacts
  <1>5. IsCurrent(obj)
    BY <1>1, <1>3, <1>4 DEF IsCurrent
  <1>6. api.finalizer
    BY <1>5 DEF Inv, ObjIsGuarded
  <1> QED
    BY <1>3, <1>4, <1>5, <1>6

LEMMA StatusUpdateInv == ASSUME Inv, StatusUpdate PROVE Inv'
  <1>1. /\ pc = "updateStatus" /\ pc' = "refetch"
        /\ WriteStatus
        /\ UNCHANGED <<seen, faults, centers, mine, obj, observed, target, todo, latest>>
    BY DEF StatusUpdate
  <1>2. /\ api' \in Copies /\ api' # Gone /\ Moves(api, api')
        /\ api'.id = obj.id /\ api'.finalizer
    BY <1>1, StatusFacts
  <1>3. obj # Gone
    BY <1>1 DEF Inv, ObjIsCopy
  <1>4. TypeOK'
    BY <1>1, <1>2 DEF Inv, TypeOK, Copies, Labels
  <1>5. Known(api)' /\ Guarded(api)'
    BY <1>1, <1>2, <1>3, Same DEF Inv, WorldInv, Known, Guarded
  <1>6. WorldInv'
    BY <1>1, <1>2, <1>5, CopiesKept, SameGrows DEF WorldInv, Known
  <1>7. ObjIsCopy'
    BY <1>1, <1>2, <1>3, CopiesKept, SameGrows DEF ObjIsCopy
  <1>8. ObjIsGuarded' /\ AbsentIsGone' /\ TodoRemains' /\ RecordsNew' /\ ReleasesLast'
        /\ LatestIsCopy'
    BY <1>1 DEF ObjIsGuarded, AbsentIsGone, TodoRemains, RecordsNew, ReleasesLast,
       LatestIsCopy
  <1> QED
    BY <1>4, <1>6, <1>7, <1>8 DEF Inv

\* The second observation, of yet another copy.
LEMMA RefetchInv == ASSUME Inv, Refetch PROVE Inv'
  <1>1. /\ seen \in Objects /\ seen # Gone /\ CentersOK /\ pc = "refetch"
        /\ Observe(seen, "resync", "annotate")
        /\ latest' = IF target' = None THEN seen ELSE [seen EXCEPT !.name = target']
        /\ UNCHANGED <<env, obj>>
    BY DEF Refetch, Inv, TypeOK, CentersOK
  <1>2. /\ pc' \in {"resync", "annotate"}
        /\ observed' \in {"absent", "outdated", "current"}
        /\ target' \in Ids \cup {None}
        /\ todo' \in Seq(Calls)
        /\ pc' = "resync" => todo' # <<>>
    BY <1>1, ObserveFacts
  <1> USE DEF env
  <1>3. /\ latest' \in Objects /\ latest' # Gone
        /\ latest'.version = seen.version /\ latest'.finalizer = seen.finalizer
    <2>1. ASSUME NEW t \in Ids \cup {None}, latest' = [seen EXCEPT !.name = t]
          PROVE  /\ latest' \in Objects
                 /\ latest'.version = seen.version /\ latest'.finalizer = seen.finalizer
      BY <1>1, <2>1 DEF Objects
    <2> QED
      BY <1>1, <1>2, <2>1, AbsentAssumption
  <1>4. TypeOK'
    BY <1>1, <1>2, <1>3 DEF Inv, TypeOK, Labels, Calls
  <1>5. WorldInv'
    BY <1>1, Same DEF Inv, WorldInv, Known
  <1>6. ObjIsCopy'
    BY <1>1, <1>2 DEF Inv, ObjIsCopy
  <1>7. ObjIsGuarded' /\ AbsentIsGone' /\ TodoRemains' /\ RecordsNew' /\ ReleasesLast'
    BY <1>2 DEF ObjIsGuarded, AbsentIsGone, TodoRemains, RecordsNew, ReleasesLast
  <1>8. LatestIsCopy'
    BY <1>1, <1>3 DEF LatestIsCopy, IsCurrent, Inv, WorldInv, CopyOf, Behind, Exact
  <1> QED
    BY <1>4, <1>5, <1>6, <1>7, <1>8 DEF Inv

LEMMA AnnotateFacts ==
  ASSUME Inv, Annotate
  PROVE  /\ api # Gone /\ api' \in Copies /\ api' # Gone /\ Moves(api, api')
         /\ api'.id = api.id /\ api'.deleting = api.deleting
         /\ api'.finalizer = api.finalizer
  <1>1. pc = "annotate" /\ Update(latest)
    BY DEF Annotate
  <1>2. latest \in Objects /\ latest # Gone /\ api \in Copies
    BY <1>1 DEF Inv, TypeOK, LatestIsCopy, Copies
  <1>3. /\ api # Gone /\ latest.version = api.version
        /\ api' \in Copies /\ Moves(api, api')
        /\ api' = Gone => api.deleting /\ ~latest.finalizer
        /\ api' # Gone => /\ api'.deleting = api.deleting
                          /\ api'.finalizer = latest.finalizer
                          /\ api'.id = api.id
    BY <1>1, <1>2, UpdateFacts
  <1>4. latest.finalizer = api.finalizer
    BY <1>1, <1>2, <1>3 DEF Inv, LatestIsCopy, IsCurrent
  <1>5. api.deleting => api.finalizer
    BY <1>3 DEF Inv, WorldInv, Guarded
  <1> QED
    BY <1>3, <1>4, <1>5

LEMMA AnnotateInv == ASSUME Inv, Annotate PROVE Inv'
  <1>1. Return /\ UNCHANGED <<seen, faults, centers, mine>>
    BY DEF Annotate
  <1>2. TypeOK'
    BY <1>1, AnnotateFacts, ReturnType DEF Inv, TypeOK, Copies
  <1>3. Known(api)' /\ Guarded(api)'
    BY <1>1, AnnotateFacts, Same DEF Inv, WorldInv, Known, Guarded
  <1> QED
    BY <1>1, <1>2, <1>3, AnnotateFacts, SameGrows, ReturnKept

\* DELETE is accepted, and verified next; or GitHub does not know the cost center.
LEMMA DeleteExternalInv == ASSUME Inv, DeleteExternal PROVE Inv'
  <1>1. /\ pc = "delete" /\ CentersOK
        /\ UNCHANGED <<api, seen, faults, obj, observed, target, todo, latest>>
    BY DEF DeleteExternal, Inv, TypeOK, CentersOK
  <1>2. /\ pc' \in {"verify", "removeFinalizer"}
        /\ CentersOK' /\ Grows
        /\ pc' = "removeFinalizer" => obj.id \notin Alive'
    <2>1. CASE DeleteCostCenter(obj.id) /\ pc' = "verify"
      BY <1>1, <2>1, DeleteFacts
    <2>2. CASE ~Listed(obj.id) /\ pc' = "removeFinalizer" /\ UNCHANGED <<centers, mine>>
      BY <1>1, <2>2, Same DEF Alive, Active, CentersOK, Grows
    <2> QED
      BY <2>1, <2>2 DEF DeleteExternal
  <1>3. TypeOK'
    BY <1>1, <1>2 DEF Inv, TypeOK, CentersOK, Labels
  <1>4. WorldInv'
    BY <1>1, <1>2 DEF Inv, WorldInv, Known, Grows
  <1>5. ObjIsCopy'
    BY <1>1, <1>2 DEF Inv, ObjIsCopy
  <1>6. ObjIsGuarded' /\ AbsentIsGone' /\ TodoRemains' /\ RecordsNew' /\ LatestIsCopy'
    BY <1>2 DEF ObjIsGuarded, AbsentIsGone, TodoRemains, RecordsNew, LatestIsCopy
  <1>7. ReleasesLast'
    BY <1>1, <1>2 DEF ReleasesLast, IsCurrent, Inv, ObjIsCopy, Exact
  <1> QED
    BY <1>3, <1>4, <1>5, <1>6, <1>7 DEF Inv

LEMMA VerifyInv == ASSUME Inv, Verify PROVE Inv'
  <1>1. /\ pc = "verify" /\ pc' = "removeFinalizer" /\ obj.id \notin Alive
        /\ UNCHANGED <<api, seen, faults, centers, mine, obj, observed>>
        /\ UNCHANGED <<target, todo, latest>>
        /\ Born' = Born /\ Alive' = Alive
    BY Same DEF Verify, env, Alive
  <1>2. TypeOK' /\ WorldInv' /\ ObjIsCopy'
    BY <1>1 DEF Inv, TypeOK, Labels, WorldInv, Known, ObjIsCopy
  <1>3. ObjIsGuarded' /\ AbsentIsGone' /\ TodoRemains' /\ RecordsNew' /\ LatestIsCopy'
    BY <1>1 DEF ObjIsGuarded, AbsentIsGone, TodoRemains, RecordsNew, LatestIsCopy
  <1>4. ReleasesLast'
    BY <1>1 DEF ReleasesLast, IsCurrent, Inv, ObjIsCopy, Exact
  <1> QED
    BY <1>2, <1>3, <1>4 DEF Inv

\* The object goes with its finalizer.
LEMMA RemoveFinalizerFacts ==
  ASSUME Inv, RemoveFinalizer
  PROVE  IsCurrent(obj) /\ obj = api /\ api' = Gone
  <1> DEFINE sent == [obj EXCEPT !.finalizer = FALSE]
  <1>1. /\ pc = "removeFinalizer" /\ obj \in Objects /\ obj # Gone /\ obj.deleting
        /\ api \in Copies
    BY DEF RemoveFinalizer, Inv, TypeOK, ObjIsCopy, Copies
  <1>2. sent.version = obj.version /\ ~sent.finalizer
    BY <1>1 DEF Objects
  <1>3. FALSE \in BOOLEAN
    OBVIOUS
  <1>4. sent \in Objects
    BY <1>1, <1>3, Zenon DEF Objects
  <1>5. Update(sent)
    BY DEF RemoveFinalizer
  <1> HIDE DEF sent
  <1>6. /\ api # Gone /\ sent.version = api.version
        /\ api' # Gone => api'.finalizer = sent.finalizer /\ api'.deleting = api.deleting
        /\ api' \in Copies
    BY <1>1, <1>4, <1>5, UpdateFacts
  <1>7. IsCurrent(obj) /\ obj = api
    BY <1>1, <1>2, <1>6 DEF IsCurrent, Inv, ObjIsCopy, Exact
  <1>8. api' = Gone
    BY <1>1, <1>2, <1>5, <1>7 DEF Update, Stored, sent, Objects, Inv, WorldInv, Guarded
  <1> QED
    BY <1>7, <1>8

LEMMA RemoveFinalizerInv == ASSUME Inv, RemoveFinalizer PROVE Inv'
  <1>1. Return /\ UNCHANGED <<seen, faults, centers, mine>> /\ api' = Gone
    BY RemoveFinalizerFacts DEF RemoveFinalizer
  <1>2. api # Gone
    BY RemoveFinalizerFacts DEF IsCurrent
  <1>3. TypeOK'
    BY <1>1, ReturnType DEF Inv, TypeOK
  <1>4. Moves(api, api') /\ Guarded(api)' /\ Known(api)'
    BY <1>1, <1>2 DEF Moves, Guarded, Known
  <1> QED
    BY <1>1, <1>3, <1>4, SameGrows, ReturnKept

\* A call has its effect on the cost centers, or none, and Reconcile returns.
LEMMA ReturnsInv ==
  ASSUME Inv, UNCHANGED <<api, seen>>, faults' \in 0 .. MaxFaults,
         CentersOK', Grows, Return
  PROVE  Inv'
  <1>1. TypeOK'
    BY ReturnType DEF Inv, TypeOK, CentersOK
  <1> QED
    BY <1>1, Unchanged, ReturnKept

\* A call that changes the cost centers, as far as its answer may be lost.
LEMMA CallFacts ==
  ASSUME Inv,
         \/ pc = "handle" /\ \E i \in Ids : CreateCostCenter(i, obj.spec)
         \/ pc = "handle" /\ UpdateCostCenter(obj.id, obj.spec)
         \/ pc \in {"sync", "resync"} /\ MapResources(target, Head(todo))
         \/ pc = "delete" /\ DeleteCostCenter(obj.id)
  PROVE  CentersOK' /\ Grows
  <1>1. CentersOK
    BY DEF Inv, TypeOK, CentersOK
  <1>2. pc = "handle" => obj.spec \in Specs
    BY DEF Inv, TypeOK, ObjIsCopy, Objects
  <1> QED
    BY <1>1, <1>2, CreateFacts, RenameFacts, NextCall, DeleteFacts

\* The call's effect stays although its answer is lost.
LEMMA AnswerLostInv == ASSUME Inv, AnswerLost PROVE Inv'
  <1>1. seen' = seen /\ faults' \in 0 .. MaxFaults /\ Return
    BY AbsentAssumption DEF AnswerLost, Interfere, Inv, TypeOK
  <1>2. CASE /\ pc = "updateStatus" /\ WriteStatus
             /\ UNCHANGED <<centers, mine>>
    <2>1. /\ api' \in Copies /\ api' # Gone /\ Moves(api, api')
          /\ api'.id = obj.id /\ api'.finalizer
      BY <1>2, StatusFacts
    <2>2. TypeOK'
      BY <1>1, <1>2, <2>1, ReturnType DEF Inv, TypeOK, Copies
    <2>3. Guarded(api)' /\ Known(api)'
      BY <1>2, <2>1, Same DEF Guarded, Known, Inv, ObjIsCopy, WorldInv
    <2> QED
      BY <1>1, <1>2, <2>1, <2>2, <2>3, SameGrows, ReturnKept
  <1>3. CASE ~(/\ pc = "updateStatus" /\ WriteStatus
               /\ UNCHANGED <<centers, mine>>)
    <2>1. CentersOK' /\ Grows /\ api' = api
      BY <1>3, CallFacts DEF AnswerLost
    <2> QED
      BY <1>1, <2>1, ReturnsInv
  <1> QED
    BY <1>2, <1>3

\* The informer, the user, GitHub and others in the enterprise.
LEMMA EnvironmentInv == ASSUME Inv, Environment, UNCHANGED locals PROVE Inv'
  <1>1. api \in Copies /\ (api # Gone => api \in Objects)
    BY DEF Inv, TypeOK, Copies
  <1>2. CASE Sync /\ UNCHANGED <<centers, mine>>
    <2>1. TypeOK'
      BY <1>2 DEF Sync, Inv, TypeOK, locals
    <2>2. seen' = api /\ api' = api
      BY <1>2 DEF Sync
    <2> QED
      BY <1>2, <2>1, <2>2, SameGrows, Unchanged, LocalsKept
  <1>3. CASE UserEdits /\ UNCHANGED <<centers, mine>>
    <2>1. TypeOK'
      <3>1. faults' \in 0 .. MaxFaults /\ seen' = seen
        BY <1>3, AbsentAssumption DEF UserEdits, Interfere, Inv, TypeOK
      <3>2. api' \in Objects \cup {Gone}
        BY <1>1, <1>3, UserEditsFacts DEF Copies
      <3> QED
        BY <1>3, <3>1, <3>2 DEF Inv, TypeOK, locals
    <2>2. Guarded(api)' /\ Known(api)'
      BY <1>1, <1>3, UserEditsFacts, Same DEF Guarded, Known, Inv, WorldInv
    <2>3. seen' = seen
      BY <1>3 DEF UserEdits
    <2> QED
      BY <1>1, <1>3, <2>1, <2>2, <2>3, SameGrows, UserEditsFacts, LocalsKept
  <1>4. CASE UserDeletes /\ UNCHANGED <<centers, mine>>
    <2>1. TypeOK'
      BY <1>1, <1>4, UserDeletesFacts DEF UserDeletes, Inv, TypeOK, locals, Copies
    <2>2. Guarded(api)' /\ Known(api)'
      BY <1>1, <1>4, UserDeletesFacts, Same DEF Guarded, Known, Inv, WorldInv
    <2>3. seen' = seen
      BY <1>4 DEF UserDeletes
    <2> QED
      BY <1>1, <1>4, <2>1, <2>2, <2>3, SameGrows, UserDeletesFacts, LocalsKept
  <1>5. CASE Progress \/ Purge \/ OthersCreate \/ OthersRename \/ OthersMap \/ OthersDelete
    <2>1. CentersOK' /\ Grows
      BY <1>5, OthersFacts DEF Inv, TypeOK, CentersOK
    <2>2. UNCHANGED <<api, seen>> /\ faults' \in 0 .. MaxFaults
      BY <1>5, AbsentAssumption
         DEF Progress, Purge, OthersCreate, OthersRename, OthersMap, OthersDelete,
             Interfere, Inv, TypeOK
    <2>3. TypeOK'
      BY <2>1, <2>2 DEF Inv, TypeOK, CentersOK, locals
    <2> QED
      BY <2>1, <2>2, <2>3, Unchanged, LocalsKept
  <1> QED
    BY <1>2, <1>3, <1>4, <1>5 DEF Environment

LEMMA StepInv == Inv /\ [Next]_vars => Inv'
  <1> SUFFICES ASSUME Inv, [Next]_vars PROVE Inv'
    OBVIOUS
  <1>1. CASE UNCHANGED vars
    <2>1. TypeOK' /\ UNCHANGED locals /\ UNCHANGED <<api, seen, centers>>
      BY <1>1 DEF vars, env, locals, Inv, TypeOK
    <2> QED
      BY <2>1, SameGrows, Unchanged, LocalsKept
  <1>2. CASE Abort \/ Refused
    <2>1. UNCHANGED <<api, seen, centers, mine>> /\ faults' \in 0 .. MaxFaults /\ Return
      BY <1>2, AbsentAssumption DEF Abort, Refused, Interfere, env, Inv, TypeOK
    <2>2. CentersOK'
      BY <2>1 DEF Inv, TypeOK, CentersOK
    <2> QED
      BY <2>1, <2>2, SameGrows, ReturnsInv
  <1>3. CASE Environment /\ UNCHANGED locals
    BY <1>3, EnvironmentInv
  <1>4. CASE AnswerLost
    BY <1>4, AnswerLostInv
  <1>5. CASE Controller
    BY <1>2, <1>5, ReconcileInv, EnsureFinalizerInv, ObserveInv, SyncResourcesInv,
       CreateInv, UpdateExternalInv, NothingInv, StatusUpdateInv, RefetchInv, AnnotateInv,
       DeleteExternalInv, VerifyInv, RemoveFinalizerInv
       DEF Controller
  <1> QED
    BY <1>1, <1>2, <1>3, <1>4, <1>5 DEF Next

LEMMA Invariance == Spec => []Inv
  BY InitInv, StepInv, PTL DEF Spec

\* The type invariant of the cluster-scoped CostCenter reconciler and of the world it
\* works on, the calls left of either synchronisation included (costcenter.go:448-630).
THEOREM TypeCorrect == Spec => []TypeOK
  <1>1. Inv => TypeOK
    BY DEF Inv
  <1> QED
    BY <1>1, Invariance, PTL
-----------------------------------------------------------------------------
(* The refinement; deleting is always allowed here.                        *)

\* A step that leaves the object alone is one of GitHub, or nothing.
LEMMA GithubRefines ==
  ASSUME Grows, UNCHANGED api
  PROVE  [Promise!Next]_(Promise!vars)
  <1>1. Born' \subseteq Ids
    BY DEF Born
  <1>2. UNCHANGED <<Stage, RecordedId>>
    BY DEF Stage, RecordedId
  <1>3. Promise!ExternalChange
    BY <1>1, <1>2 DEF Promise!ExternalChange, Grows
  <1> QED
    BY <1>3 DEF Promise!Next

\* A write that does not change what is recorded is nothing.
LEMMA WriteRefines ==
  ASSUME api # Gone, api' # Gone, api'.deleting = api.deleting, api'.id = api.id,
         UNCHANGED centers
  PROVE  UNCHANGED Promise!vars
  <1>1. UNCHANGED <<Born, Alive>>
    BY Same
  <1>2. UNCHANGED <<Stage, RecordedId>>
    BY DEF Stage, RecordedId
  <1> QED
    BY <1>1, <1>2 DEF Promise!vars

\* The status update records an identifier that may be recorded.
LEMMA StatusRefines ==
  ASSUME Inv, pc = "updateStatus", WriteStatus,
         UNCHANGED centers
  PROVE  [Promise!Next]_(Promise!vars)
  <1>1. /\ api # Gone /\ IsCurrent(obj)
        /\ api' # Gone /\ api'.id = obj.id /\ api'.deleting = api.deleting
    BY StatusFacts DEF IsCurrent
  <1>2. CASE obj.id = api.id
    BY <1>1, <1>2, WriteRefines
  <1>3. CASE obj.id # api.id
    <2>1. obj.id \in Born /\ api.id \notin Alive
      BY <1>1, <1>3 DEF Inv, RecordsNew
    <2>2. RecordedId = api.id /\ RecordedId' = obj.id
      BY <1>1 DEF RecordedId
    <2>3. Stage # "gone" /\ UNCHANGED Stage
      BY <1>1 DEF Stage
    <2>4. UNCHANGED <<Born, Alive>>
      BY Same
    <2>5. Promise!Record
      BY <2>1, <2>2, <2>3, <2>4 DEF Promise!Record
    <2> QED
      BY <2>5 DEF Promise!Next
  <1> QED
    BY <1>2, <1>3

\* The object is released, by the reconciler or for want of a finalizer.
LEMMA ReleaseRefines ==
  ASSUME api # Gone, api' = Gone, UNCHANGED centers, api.id \notin Alive
  PROVE  Promise!Release
  <1>1. Stage # "gone" /\ Stage' = "gone"
    BY DEF Stage
  <1>2. RecordedId = api.id /\ RecordedId' = None
    BY DEF RecordedId
  <1>3. UNCHANGED <<Born, Alive>>
    BY Same
  <1> QED
    BY <1>1, <1>2, <1>3 DEF Promise!Release

LEMMA UserRefines ==
  ASSUME Inv, UserEdits \/ UserDeletes, UNCHANGED centers
  PROVE  [Promise!Next]_(Promise!vars)
  <1>1. api \in Copies
    BY DEF Inv, TypeOK, Copies
  <1>2. CASE UserEdits
    <2>1. /\ api # Gone /\ api' # Gone
          /\ api'.deleting = api.deleting /\ api'.id = api.id
      BY <1>1, <1>2, UserEditsFacts DEF Inv, WorldInv, Guarded
    <2> QED
      BY <2>1, WriteRefines
  <1>3. CASE UserDeletes /\ api' = Gone
    <2>1. api # Gone /\ api.id = None
      BY <1>1, <1>3, UserDeletesFacts DEF Inv, WorldInv, Guarded
    <2>2. api.id \notin Alive
      BY <2>1, AbsentAssumption DEF Alive
    <2>3. Promise!Release
      BY <1>3, <2>1, <2>2, ReleaseRefines
    <2> QED
      BY <2>3 DEF Promise!Next
  <1>4. CASE UserDeletes /\ api' # Gone
    <2>1. /\ api # Gone /\ ~api.deleting /\ api'.deleting /\ api'.id = api.id
      BY <1>1, <1>4, UserDeletesFacts
    <2>2. Stage = "present" /\ Stage' = "deleting" /\ UNCHANGED RecordedId
      BY <1>4, <2>1 DEF Stage, RecordedId
    <2>3. UNCHANGED <<Born, Alive>>
      BY Same
    <2>4. Promise!Delete
      BY <2>2, <2>3 DEF Promise!Delete
    <2> QED
      BY <2>4 DEF Promise!Next
  <1> QED
    BY <1>2, <1>3, <1>4

LEMMA InitRefines == Init => Promise!Init
  <1> SUFFICES ASSUME Init PROVE Promise!Init
    OBVIOUS
  <1>1. api # Gone /\ api.id = None /\ ~api.deleting
    BY NewObjectFacts, AbsentAssumption DEF Init
  <1>2. Stage = "present" /\ RecordedId = None
    BY <1>1 DEF Stage, RecordedId
  <1>3. Born \subseteq Ids /\ Alive \subseteq Born
    BY InitInv, BornAlive DEF Inv, TypeOK, CentersOK
  <1> QED
    BY <1>2, <1>3 DEF Promise!Init

LEMMA StepRefines == Inv /\ [Next]_vars => [Promise!Next]_(Promise!vars)
  <1> SUFFICES ASSUME Inv, [Next]_vars PROVE [Promise!Next]_(Promise!vars)
    OBVIOUS
  <1>1. CentersOK
    BY DEF Inv, TypeOK, CentersOK
  <1>2. CASE \/ UNCHANGED vars \/ Reconcile \/ observeResource \/ Nothing \/ Refetch
             \/ Verify \/ Refused \/ Abort
             \/ Sync /\ UNCHANGED centers
    <2>1. UNCHANGED <<api, centers>>
      BY <1>2 DEF vars, env, Reconcile, observeResource, Nothing, Refetch, Verify, Refused,
         Abort, Sync
    <2> QED
      BY <2>1, SameGrows, GithubRefines
  <1>3. CASE Create \/ UpdateExternal \/ SyncResources
    BY <1>3, CallFacts, GithubRefines DEF Create, UpdateExternal, SyncResources
  <1>4. CASE DeleteExternal
    <2>1. UNCHANGED api /\ pc = "delete"
      BY <1>4 DEF DeleteExternal
    <2> QED
      BY <1>4, <2>1, CallFacts, SameGrows, GithubRefines DEF DeleteExternal
  <1>5. CASE Progress \/ Purge \/ OthersCreate \/ OthersRename \/ OthersMap \/ OthersDelete
    <2>1. UNCHANGED api
      BY <1>5 DEF Progress, Purge, OthersCreate, OthersRename, OthersMap, OthersDelete
    <2> QED
      BY <1>1, <1>5, <2>1, OthersFacts, GithubRefines
  <1>6. CASE ensureFinalizer
    BY <1>6, EnsureFinalizerFacts, WriteRefines DEF ensureFinalizer
  <1>7. CASE Annotate
    BY <1>7, AnnotateFacts, WriteRefines DEF Annotate
  <1>8. CASE StatusUpdate
    BY <1>8, StatusRefines DEF StatusUpdate
  <1>9. CASE RemoveFinalizer
    <2>1. api # Gone /\ api' = Gone /\ UNCHANGED centers
      BY <1>9, RemoveFinalizerFacts DEF RemoveFinalizer, IsCurrent
    <2>2. api.id \notin Alive
      BY <1>9, RemoveFinalizerFacts DEF RemoveFinalizer, Inv, ReleasesLast
    <2> QED
      BY <2>1, <2>2, ReleaseRefines DEF Promise!Next
  <1>10. CASE AnswerLost
    BY <1>10, CallFacts, GithubRefines, StatusRefines DEF AnswerLost
  <1>11. CASE (UserEdits \/ UserDeletes) /\ UNCHANGED centers
    BY <1>11, UserRefines
  <1>12. CASE Environment
    BY <1>2, <1>5, <1>11, <1>12 DEF Environment
  <1>13. CASE Controller
    BY <1>2, <1>3, <1>4, <1>6, <1>7, <1>8, <1>9, <1>13 DEF Controller
  <1> QED
    BY <1>2, <1>10, <1>12, <1>13 DEF Next

\* Whatever stale copies, lost answers, crashes, users and others do, and whoever
\* begins or completes a deletion: a recorded identifier is neither forgotten nor
\* replaced while its cost center is active, and the object is released only after
\* that is deleted, whatever its policies say (costcenter.go:448-630,
\* external.go:147-269).
THEOREM Refinement == Spec => ImplementsLifecycle
  BY InitRefines, StepRefines, Invariance, PTL DEF Spec, ImplementsLifecycle, Promise!Spec
-----------------------------------------------------------------------------
(* No duplicates, as long as all specs ask for one name - the observation  *)
(* and the POST go by two copies - and nothing was deleted: the search may *)
(* stop at a deleted cost center of that name.                             *)

OneName == \A s, t \in Specs : s.name = t.name

\* What NoDuplicates excepts: a cost center that was handed out and is not active.
NoneDeleted == \A k \in Ids : centers[k] # Unborn => Active(k)

\* What is this controller's and in the list has the name of the specs; and until
\* something is deleted it is the only one, and there is none when another is about
\* to be created.
UniqueInv ==
    /\ mine \subseteq Born
    /\ \A i \in mine : Listed(i) => \E s \in Specs : centers[i].name = s.name
    /\ NoneDeleted => \A i, j \in mine : i = j
    /\ NoneDeleted /\ pc = "handle" /\ observed = "absent" => mine = {}

\* What is deleted stays so.
LEMMA DeletedStays == CentersOK' /\ Grows /\ NoneDeleted' => NoneDeleted
  BY DEF NoneDeleted, Grows, Born, Alive

LEMMA KeptUnique ==
  ASSUME UniqueInv, CentersOK', Grows, MineKept,
         pc' # "handle" \/ observed' # "absent" \/ UNCHANGED <<pc, observed>>
  PROVE  UniqueInv'
  <1>1. (mine \subseteq Born)'
    BY DEF UniqueInv, MineKept, Grows
  <1>2. (\A i \in mine : Listed(i) => \E s \in Specs : centers[i].name = s.name)'
    BY DEF UniqueInv, MineKept
  <1>3. (NoneDeleted => \A i, j \in mine : i = j)'
    BY DeletedStays DEF UniqueInv, MineKept
  <1>4. (NoneDeleted /\ pc = "handle" /\ observed = "absent" => mine = {})'
    BY DeletedStays DEF UniqueInv, MineKept
  <1> QED
    BY <1>1, <1>2, <1>3, <1>4 DEF UniqueInv

\* A POST after an observation of nothing active.
LEMMA CreateUnique ==
  ASSUME Inv, UniqueInv, pc = "handle", observed = "absent", pc' # "handle",
         NEW i \in Ids, CreateCostCenter(i, obj.spec)
  PROVE  UniqueInv'
  <1>1. obj.spec \in Specs /\ CentersOK
    BY DEF Inv, TypeOK, ObjIsCopy, Objects, CentersOK
  <1>2. CentersOK' /\ Grows /\ i \in Born' /\ mine' = mine \cup {i}
    BY <1>1, CreateFacts DEF CreateCostCenter
  <1>3. centers'[i].name = obj.spec.name /\ \A j \in Ids \ {i} : centers'[j] = centers[j]
    BY <1>1 DEF CreateCostCenter, CentersOK
  <1>4. (mine \subseteq Born)'
    BY <1>2 DEF UniqueInv, Grows
  <1>5. (\A j \in mine : Listed(j) => \E s \in Specs : centers[j].name = s.name)'
    BY <1>1, <1>2, <1>3 DEF UniqueInv, Listed
  <1>6. NoneDeleted' => mine' = {i}
    BY <1>2, DeletedStays DEF UniqueInv
  <1> QED
    BY <1>4, <1>5, <1>6 DEF UniqueInv

\* An observation of nothing active, while nothing is deleted, is one of nothing that
\* has the name.
LEMMA ObserveUnique ==
  ASSUME OneName, Inv, UniqueInv, observeResource
  PROVE  UniqueInv'
  <1>1. /\ seen \in Objects /\ CentersOK /\ Observe(seen, "sync", "handle")
        /\ UNCHANGED <<centers, mine>>
    BY DEF observeResource, env, Inv, TypeOK, CentersOK
  <1>2. Grows /\ MineKept /\ CentersOK'
    BY <1>1, Same DEF Grows, MineKept, Listed, CentersOK
  <1>3. CASE NoneDeleted /\ observed' = "absent"
    <2>1. ~Active(findCostCenter(seen))
      BY <1>1, <1>3, ObserveFacts
    <2>2. findCostCenter(seen) = None
      BY <1>1, <1>3, <2>1, FindCostCenter, CostCenterAssumption DEF NoneDeleted, Listed
    <2>3. \A i \in Ids : Listed(i) => centers[i].name # seen.spec.name
      BY <1>1, <2>2, FindCostCenter
    <2>4. seen.spec \in Specs
      BY <1>1 DEF Objects
    <2>5. \A i \in mine : ~Listed(i)
      BY <2>3, <2>4 DEF UniqueInv, OneName, Listed
    <2>6. mine = {}
      BY <1>3, <2>5 DEF UniqueInv, Born, NoneDeleted, Active
    <2>7. mine' = {}
      BY <1>1, <2>6
    <2> QED
      BY <2>7 DEF UniqueInv
  <1>4. CASE observed' # "absent"
    BY <1>2, <1>4, KeptUnique
  <1>5. CASE ~NoneDeleted
    <2>1. ~NoneDeleted'
      BY <1>2, <1>5, DeletedStays
    <2> QED
      BY <1>1, <2>1, Same DEF UniqueInv, Listed
  <1> QED
    BY <1>3, <1>4, <1>5

LEMMA StepUnique ==
  ASSUME OneName
  PROVE  Inv /\ UniqueInv /\ [Next]_vars => UniqueInv'
  <1> SUFFICES ASSUME Inv, UniqueInv, [Next]_vars PROVE UniqueInv'
    OBVIOUS
  <1>1. CentersOK
    BY DEF Inv, TypeOK, CentersOK
  <1> DEFINE Kept == \/ pc' # "handle" \/ observed' # "absent"
                     \/ UNCHANGED <<pc, observed>>
  <1>2. ASSUME UNCHANGED <<centers, mine>>, Kept PROVE UniqueInv'
    <2>1. MineKept /\ CentersOK'
      BY <1>1, <1>2 DEF MineKept, Listed, CentersOK
    <2> QED
      BY <1>2, <2>1, SameGrows, KeptUnique
  <1>3. ASSUME Kept,
               \/ pc = "handle" /\ UpdateCostCenter(obj.id, obj.spec)
               \/ pc \in {"sync", "resync"} /\ MapResources(target, Head(todo))
               \/ pc = "delete" /\ DeleteCostCenter(obj.id)
        PROVE  UniqueInv'
    <2>1. pc = "handle" => obj.spec \in Specs
      BY DEF Inv, TypeOK, ObjIsCopy, Objects
    <2>2. CentersOK' /\ Grows /\ MineKept
      BY <1>1, <1>3, <2>1, RenameFacts, NextCall, DeleteFacts
    <2> QED
      BY <1>3, <2>2, KeptUnique
  <1>4. CASE observeResource
    BY <1>4, ObserveUnique
  <1>5. CASE Create
    <2>1. /\ pc = "handle" /\ observed = "absent" /\ pc' # "handle"
          /\ \E i \in Ids : CreateCostCenter(i, obj.spec)
      BY <1>5 DEF Create
    <2> QED
      BY <2>1, CreateUnique
  <1>6. CASE UpdateExternal
    BY <1>3, <1>6 DEF UpdateExternal
  <1>7. CASE SyncResources
    <2>1. Kept
      BY <1>7 DEF SyncResources, Inv, TodoRemains
    <2> QED
      BY <1>3, <1>7, <2>1 DEF SyncResources
  <1>8. CASE DeleteExternal
    BY <1>2, <1>3, <1>8 DEF DeleteExternal
  <1>9. CASE \/ Reconcile \/ ensureFinalizer \/ Nothing \/ StatusUpdate \/ Refetch
             \/ Annotate \/ Verify \/ RemoveFinalizer \/ Refused \/ Abort \/ UNCHANGED vars
    BY <1>2, <1>9 DEF Reconcile, ensureFinalizer, Nothing, StatusUpdate, Refetch, Observe,
       Annotate, Verify, RemoveFinalizer, Refused, Abort, Return, env, locals, vars
  <1>10. CASE AnswerLost
    <2>1. pc' # "handle"
      BY <1>10 DEF AnswerLost, Return
    <2> QED
      BY <1>2, <1>3, <1>10, <2>1, CreateUnique DEF AnswerLost
  <1>11. CASE Environment /\ UNCHANGED locals
    <2>1. UNCHANGED <<pc, observed>>
      BY <1>11 DEF locals
    <2>2. CASE (Sync \/ UserEdits \/ UserDeletes) /\ UNCHANGED <<centers, mine>>
      BY <1>2, <2>1, <2>2
    <2>3. CASE \/ Progress \/ Purge \/ OthersCreate \/ OthersRename \/ OthersMap
               \/ OthersDelete
      BY <1>1, <2>1, <2>3, OthersFacts, KeptUnique DEF UniqueInv
    <2> QED
      BY <1>11, <2>2, <2>3 DEF Environment
  <1> QED
    BY <1>4, <1>5, <1>6, <1>7, <1>8, <1>9, <1>10, <1>11 DEF Next, Controller

\* If the name in the spec stays, the reconciler never has two active cost centers of
\* its own with one name until one is deleted, whichever answers are lost: what one
\* copy observed then holds of the copy that is created from (costcenter.go:448-549,
\* external.go:122-182).
THEOREM NeverDuplicates ==
  ASSUME OneName
  PROVE  Spec => []NoDuplicates
  <1>1. Init => UniqueInv
    BY DEF Init, UniqueInv
  <1>2. Inv /\ UniqueInv => NoDuplicates
    <2> SUFFICES ASSUME Inv, UniqueInv PROVE NoDuplicates
      OBVIOUS
    <2>1. CASE NoneDeleted
      BY <2>1 DEF UniqueInv, NoDuplicates
    <2>2. CASE ~NoneDeleted
      BY <2>2 DEF NoneDeleted, NoDuplicates
    <2> QED
      BY <2>1, <2>2
  <1>3. Inv /\ UniqueInv /\ [Next]_vars => UniqueInv'
    BY StepUnique
  <1> QED
    BY <1>1, <1>2, <1>3, Invariance, PTL DEF Spec
-----------------------------------------------------------------------------
(* The members of the spec are reached.                                    *)

\* The calls add only what is desired, remove only what is not, and settle every
\* difference between the members there are and the members desired.
Leads(current, calls, desired) ==
    /\ \A call \in Range(calls) :
          IF call.add THEN call.names \subseteq desired ELSE call.names \cap desired = {}
    /\ \A m \in (desired \ current) \cup (current \ desired) :
          \E call \in Range(calls) : m \in call.names

\* What is planned leads from the members listed to those of the spec.
LEMMA PlanLeads ==
  ASSUME NEW current \in SUBSET Members, NEW desired \in SUBSET Members
  PROVE  Leads(current, SyncPlan(current, desired), desired)
  <1>1. ASSUME NEW add \in BOOLEAN, NEW names \in SUBSET Members
        PROVE  /\ ResourceCall(add, names) \in Seq(Calls)
               /\ \A call \in Range(ResourceCall(add, names)) :
                     call.add = add /\ call.names = names
               /\ \A m \in names :
                     \E call \in Range(ResourceCall(add, names)) : m \in call.names
    <2> DEFINE call == [add |-> add, names |-> names]
    <2>1. call \in Calls /\ call.add = add /\ call.names = names
      BY DEF Calls
    <2> HIDE DEF call
    <2>2. Range(<<>>) = {} /\ Range(<<call>>) = {call}
      BY DEF Range
    <2>3. ResourceCall(add, names) = IF names = {} THEN <<>> ELSE <<call>>
      BY DEF ResourceCall, call
    <2> QED
      BY <2>1, <2>2, <2>3
  <1> DEFINE a == ResourceCall(TRUE, (desired \ current) \cap Organizations)
             b == ResourceCall(FALSE, (current \ desired) \cap Organizations)
             c == ResourceCall(TRUE, (desired \ current) \cap Repositories)
             d == ResourceCall(FALSE, (current \ desired) \cap Repositories)
  <1>2. /\ a \in Seq(Calls)
        /\ \A call \in Range(a) : call.add = TRUE /\ call.names \subseteq desired
        /\ \A m \in (desired \ current) \cap Organizations :
              \E call \in Range(a) : m \in call.names
    <2> DEFINE names == (desired \ current) \cap Organizations
    <2>1. names \in SUBSET Members
      OBVIOUS
    <2>2. names \subseteq desired
      OBVIOUS
    <2> HIDE DEF names
    <2>3. /\ ResourceCall(TRUE, names) \in Seq(Calls)
          /\ \A call \in Range(ResourceCall(TRUE, names)) :
                call.add = TRUE /\ call.names = names
          /\ \A m \in names :
                \E call \in Range(ResourceCall(TRUE, names)) : m \in call.names
      BY <1>1, <2>1
    <2> QED
      BY <2>2, <2>3 DEF names
  <1>3. /\ b \in Seq(Calls)
        /\ \A call \in Range(b) : call.add = FALSE /\ call.names \cap desired = {}
        /\ \A m \in (current \ desired) \cap Organizations :
              \E call \in Range(b) : m \in call.names
    <2> DEFINE names == (current \ desired) \cap Organizations
    <2>1. names \in SUBSET Members
      OBVIOUS
    <2>2. names \cap desired = {}
      OBVIOUS
    <2> HIDE DEF names
    <2>3. /\ ResourceCall(FALSE, names) \in Seq(Calls)
          /\ \A call \in Range(ResourceCall(FALSE, names)) :
                call.add = FALSE /\ call.names = names
          /\ \A m \in names :
                \E call \in Range(ResourceCall(FALSE, names)) : m \in call.names
      BY <1>1, <2>1
    <2> QED
      BY <2>2, <2>3 DEF names
  <1>4. /\ c \in Seq(Calls)
        /\ \A call \in Range(c) : call.add = TRUE /\ call.names \subseteq desired
        /\ \A m \in (desired \ current) \cap Repositories :
              \E call \in Range(c) : m \in call.names
    <2> DEFINE names == (desired \ current) \cap Repositories
    <2>1. names \in SUBSET Members
      OBVIOUS
    <2>2. names \subseteq desired
      OBVIOUS
    <2> HIDE DEF names
    <2>3. /\ ResourceCall(TRUE, names) \in Seq(Calls)
          /\ \A call \in Range(ResourceCall(TRUE, names)) :
                call.add = TRUE /\ call.names = names
          /\ \A m \in names :
                \E call \in Range(ResourceCall(TRUE, names)) : m \in call.names
      BY <1>1, <2>1
    <2> QED
      BY <2>2, <2>3 DEF names
  <1>5. /\ d \in Seq(Calls)
        /\ \A call \in Range(d) : call.add = FALSE /\ call.names \cap desired = {}
        /\ \A m \in (current \ desired) \cap Repositories :
              \E call \in Range(d) : m \in call.names
    <2> DEFINE names == (current \ desired) \cap Repositories
    <2>1. names \in SUBSET Members
      OBVIOUS
    <2>2. names \cap desired = {}
      OBVIOUS
    <2> HIDE DEF names
    <2>3. /\ ResourceCall(FALSE, names) \in Seq(Calls)
          /\ \A call \in Range(ResourceCall(FALSE, names)) :
                call.add = FALSE /\ call.names = names
          /\ \A m \in names :
                \E call \in Range(ResourceCall(FALSE, names)) : m \in call.names
      BY <1>1, <2>1
    <2> QED
      BY <2>2, <2>3 DEF names
  <1>6. SyncPlan(current, desired) = a \o b \o c \o d
    BY DEF SyncPlan
  <1> HIDE DEF a, b, c, d
  <1>7. ASSUME NEW s \in Seq(Calls), NEW t \in Seq(Calls)
        PROVE  s \o t \in Seq(Calls) /\ Range(s \o t) = Range(s) \cup Range(t)
    BY ConcatProperties, RangeConcatenation
  <1>8. a \o b \in Seq(Calls) /\ Range(a \o b) = Range(a) \cup Range(b)
    BY <1>2, <1>3, <1>7
  <1>9. (a \o b) \o c \in Seq(Calls) /\ Range((a \o b) \o c) = Range(a \o b) \cup Range(c)
    BY <1>4, <1>7, <1>8
  <1>10. Range(SyncPlan(current, desired))
            = Range(a) \cup Range(b) \cup Range(c) \cup Range(d)
    <2>1. Range(((a \o b) \o c) \o d) = Range((a \o b) \o c) \cup Range(d)
      BY <1>5, <1>7, <1>9
    <2> QED
      BY <1>6, <1>8, <1>9, <2>1
  <1>11. \A call \in Range(SyncPlan(current, desired)) :
            IF call.add THEN call.names \subseteq desired ELSE call.names \cap desired = {}
    BY <1>2, <1>3, <1>4, <1>5, <1>10
  <1>12. \A m \in (desired \ current) \cup (current \ desired) :
            \E call \in Range(SyncPlan(current, desired)) : m \in call.names
    BY <1>2, <1>3, <1>4, <1>5, <1>10 DEF Members
  <1> QED
    BY <1>11, <1>12 DEF Leads

\* Making the first of the calls leaves calls that lead to the same members.
LEMMA LeadsOn ==
  ASSUME NEW current, NEW desired, NEW calls \in Seq(Calls), calls # <<>>,
         Leads(current, calls, desired), NEW now,
         now = IF Head(calls).add THEN current \cup Head(calls).names
                                  ELSE current \ Head(calls).names
  PROVE  Leads(now, Tail(calls), desired)
  <1>1. Range(calls) = {Head(calls)} \cup Range(Tail(calls))
    <2>1. /\ Tail(calls) \in Seq(Calls) /\ Len(Tail(calls)) = Len(calls) - 1
          /\ \A i \in 1 .. Len(Tail(calls)) : Tail(calls)[i] = calls[i + 1]
      BY HeadTailProperties
    <2>2. Len(calls) \in Nat \ {0} /\ Head(calls) = calls[1]
      BY EmptySeq
    <2>3. /\ Range(calls) = {calls[i] : i \in 1 .. Len(calls)}
          /\ Range(Tail(calls)) = {Tail(calls)[i] : i \in 1 .. Len(Tail(calls))}
      BY <2>1, RangeEquality
    <2>4. ASSUME NEW i \in 1 .. Len(calls), i # 1 PROVE calls[i] \in Range(Tail(calls))
      <3>1. i - 1 \in 1 .. Len(Tail(calls)) /\ (i - 1) + 1 = i
        BY <2>1, <2>2, <2>4
      <3> QED
        BY <2>1, <2>3, <3>1
    <2>5. ASSUME NEW i \in 1 .. Len(Tail(calls)) PROVE Tail(calls)[i] \in Range(calls)
      <3>1. i + 1 \in 1 .. Len(calls)
        BY <2>1, <2>2, <2>5
      <3> QED
        BY <2>1, <2>3, <3>1
    <2>6. 1 \in 1 .. Len(calls)
      BY <2>2
    <2> QED
      BY <2>2, <2>3, <2>4, <2>5, <2>6
  <1>2. \A m \in (desired \ now) \cup (now \ desired) :
           m \in (desired \ current) \cup (current \ desired) /\ m \notin Head(calls).names
    BY <1>1 DEF Leads
  <1> QED
    BY <1>1, <1>2 DEF Leads

\* Nobody else maps or unmaps, or nobody interfered so far.
Undisturbed == faults = 0 \/ "map" \notin OthersDo

\* Reconcile writes the annotation, and thereby succeeds, only once the cost center
\* that it found has exactly the members of the spec of that copy (external.go:41-107).
MembersReached ==
    Undisturbed /\ pc = "annotate" /\ target # None /\ Listed(target) =>
        centers[target].members = latest.spec.members

\* After the second observation the cost center stays what the calls made it, and
\* the calls that are left lead to the spec.
Reaching ==
    /\ pc \in {"resync", "annotate"} /\ target # None => target \in Born
    /\ pc = "annotate" => todo = <<>>
    /\ Undisturbed /\ pc \in {"resync", "annotate"} /\ target # None /\ Listed(target) =>
          Leads(centers[target].members, todo, latest.spec.members)

\* The second observation.
LEMMA RefetchReaches == ASSUME Inv, Refetch PROVE Reaching'
  <1>1. /\ seen \in Objects /\ CentersOK /\ Observe(seen, "resync", "annotate")
        /\ latest' = IF target' = None THEN seen ELSE [seen EXCEPT !.name = target']
        /\ UNCHANGED centers
    BY DEF Refetch, env, Inv, TypeOK, CentersOK
  <1>2. latest'.spec = seen.spec /\ seen.spec.members \in SUBSET Members
    BY <1>1, CostCenterAssumption DEF Objects
  <1> DEFINE found == findCostCenter(seen)
  <1>3. CASE ~Active(found)
    BY <1>1, <1>3 DEF Observe, Reaching
  <1>4. CASE Active(found)
    <2>1. /\ target' = found /\ todo' = SyncPlan(centers[found].members, seen.spec.members)
          /\ pc' = IF todo' = <<>> THEN "annotate" ELSE "resync"
      BY <1>1, <1>4 DEF Observe
    <2>2. found \in Ids /\ centers[found] \in CostCenterValues
      BY <1>4 DEF Active, Listed
    <2> HIDE DEF found
    <2>3. found \in Born' /\ centers[found].members \in SUBSET Members
      BY <1>1, <2>2, CostCenterAssumption DEF Born, CostCenterValues
    <2>4. Leads(centers[found].members, todo', seen.spec.members)
      BY <1>2, <2>1, <2>3, PlanLeads
    <2>5. Leads(centers'[target'].members, todo', latest'.spec.members)
      BY <1>1, <1>2, <2>1, <2>4
    <2> QED
      BY <2>1, <2>3, <2>5 DEF Reaching
  <1> QED
    BY <1>3, <1>4

\* The next of the resource calls.
LEMMA SyncReaches == ASSUME Inv, Reaching, SyncResources, pc = "resync" PROVE Reaching'
  <1>1. /\ MapResources(target, Head(todo)) /\ todo' = Tail(todo)
        /\ pc' = IF todo' # <<>> THEN "resync" ELSE "annotate"
        /\ UNCHANGED <<faults, target, latest>>
    BY DEF SyncResources
  <1>2. todo \in Seq(Calls) /\ todo # <<>> /\ CentersOK /\ Grows
    BY <1>1, NextCall DEF Inv, TypeOK, TodoRemains, Calls, CentersOK
  <1>3. target \in Ids /\ centers[target] \in CostCenterValues
    BY <1>1 DEF MapResources, Listed
  <1>4. centers'[target].members = IF Head(todo).add
              THEN centers[target].members \cup Head(todo).names
              ELSE centers[target].members \ Head(todo).names
    BY <1>1, <1>2, <1>3 DEF MapResources, CentersOK, CostCenterValues
  <1>5. ASSUME Leads(centers[target].members, todo, latest.spec.members)
        PROVE  Leads(centers'[target].members, todo', latest.spec.members)
    BY <1>1, <1>2, <1>4, <1>5, LeadsOn
  <1> QED
    BY <1>1, <1>2, <1>3, <1>4, <1>5 DEF Reaching, Undisturbed, Grows, Listed

\* While nobody disturbs, what GitHub and others do keeps the members.
LEMMA KeepsMembers ==
  ASSUME CentersOK, Environment, Undisturbed', faults \in Nat, NEW i \in Born,
         centers'[i] \in CostCenterValues
  PROVE  /\ Listed(i)
         /\ centers'[i].members = centers[i].members
  <1>1. i \in Ids /\ centers[i] # Unborn
    BY DEF Born
  <1>2. CASE UNCHANGED centers
    BY <1>1, <1>2 DEF Listed
  <1>3. ASSUME NEW j \in Ids, Listed(j), NEW st \in States,
               centers' = [centers EXCEPT ![j].state = st]
        PROVE  /\ Listed(i)
               /\ centers'[i].members = centers[i].members
    BY <1>1, <1>3 DEF CentersOK, Listed, CostCenterValues
  <1>4. CASE Progress \/ OthersDelete
    BY <1>3, <1>4 DEF Progress, OthersDelete, States
  <1>5. CASE Purge
    BY <1>1, <1>5, CostCenterAssumption DEF Purge, CentersOK, Listed
  <1>6. CASE OthersCreate
    BY <1>1, <1>6 DEF OthersCreate, CentersOK, Listed
  <1>7. CASE OthersRename
    <2>1. PICK j \in Ids, n \in Names :
             Active(j) /\ centers' = [centers EXCEPT ![j].name = n]
      BY <1>7 DEF OthersRename
    <2>2. CASE i # j
      BY <1>1, <2>1, <2>2 DEF CentersOK, Listed
    <2>3. CASE i = j
      <3>1. /\ centers[i] \in CostCenterValues
            /\ centers'[i] = [centers[i] EXCEPT !.name = n]
        BY <1>1, <2>1, <2>3 DEF CentersOK, Active, Listed
      <3> QED
        BY <1>1, <3>1 DEF Listed, CostCenterValues
    <2> QED
      BY <2>2, <2>3
  <1>8. CASE OthersMap
    BY <1>8 DEF OthersMap, Interfere, Undisturbed
  <1> QED
    BY <1>2, <1>4, <1>5, <1>6, <1>7, <1>8 DEF Environment

LEMMA StepReaches == Inv /\ Reaching /\ [Next]_vars => Reaching'
  <1> SUFFICES ASSUME Inv, Reaching, [Next]_vars PROVE Reaching'
    OBVIOUS
  <1>1. CentersOK /\ faults \in Nat
    BY AbsentAssumption DEF Inv, TypeOK, CentersOK
  <1>2. CASE pc' \notin {"resync", "annotate"}
    BY <1>2 DEF Reaching
  <1>3. CASE Refetch
    BY <1>3, RefetchReaches
  <1>4. CASE SyncResources
    <2>1. pc = "sync" => pc' \notin {"resync", "annotate"}
      BY <1>4 DEF SyncResources
    <2> QED
      BY <1>2, <1>4, <2>1, SyncReaches DEF SyncResources
  <1>5. CASE Environment /\ UNCHANGED locals
    <2>1. UNCHANGED <<pc, target, todo, latest>>
      BY <1>5 DEF locals
    <2>2. Grows
      BY <1>1, <1>5, OthersFacts, SameGrows DEF Environment
    <2>3. Undisturbed' => Undisturbed
      <3>1. faults' = 0 => faults = 0
        BY <1>1, <1>5 DEF Environment, Sync, UserEdits, UserDeletes, Progress, Purge,
           OthersCreate, OthersRename, OthersMap, OthersDelete, Interfere
      <3> QED
        BY <3>1 DEF Undisturbed
    <2>4. ASSUME Undisturbed', target \in Born, centers'[target] \in CostCenterValues
          PROVE  Listed(target) /\ centers'[target].members = centers[target].members
      BY <1>1, <1>5, <2>4, KeepsMembers
    <2>5. Listed(target)' <=> target \in Ids /\ centers'[target] \in CostCenterValues
      BY <2>1 DEF Listed
    <2> QED
      BY <2>1, <2>2, <2>3, <2>4, <2>5 DEF Reaching, Grows
  <1>6. CASE \/ Reconcile \/ ensureFinalizer \/ Create \/ UpdateExternal \/ Nothing
             \/ StatusUpdate \/ Annotate \/ DeleteExternal \/ Verify \/ RemoveFinalizer
             \/ Refused \/ Abort \/ AnswerLost
    BY <1>2, <1>6 DEF Reconcile, ensureFinalizer, Create, UpdateExternal, Nothing,
       StatusUpdate, Annotate, DeleteExternal, Verify, RemoveFinalizer, Refused, Abort,
       AnswerLost, Return
  <1>7. CASE observeResource
    <2>1. pc' \notin {"resync", "annotate"}
      BY <1>7 DEF observeResource, Observe
    <2> QED
      BY <1>2, <2>1
  <1>8. CASE UNCHANGED vars
    BY <1>8 DEF vars, env, locals, Reaching, Undisturbed, Listed, Born
  <1> QED
    BY <1>3, <1>4, <1>5, <1>6, <1>7, <1>8 DEF Next, Controller

\* A Reconcile that writes the annotation has left the cost center with exactly the
\* members of the spec it read last, for any number of organizations and repositories
\* and whatever an earlier Reconcile left half done (external.go:41-107).
THEOREM MembersAreReached == Spec => []MembersReached
  <1>1. Init => Reaching
    BY DEF Init, Reaching
  <1>2. Reaching => MembersReached
    <2>1. Range(<<>>) = {}
      BY DEF Range
    <2>2. ASSUME NEW current, NEW desired, NEW calls, calls = <<>>,
                 Leads(current, calls, desired)
          PROVE  \A m : m \in current <=> m \in desired
      BY <2>1, <2>2 DEF Leads
    <2> SUFFICES ASSUME Reaching, Undisturbed, pc = "annotate", target # None,
                        Listed(target)
                 PROVE  centers[target].members = latest.spec.members
      BY DEF MembersReached
    <2>3. todo = <<>> /\ Leads(centers[target].members, todo, latest.spec.members)
      BY DEF Reaching
    <2>4. \A m : m \in centers[target].members <=> m \in latest.spec.members
      BY <2>2, <2>3
    <2> QED
      BY <2>4
  <1> QED
    BY <1>1, <1>2, StepReaches, Invariance, PTL DEF Spec
=============================================================================
