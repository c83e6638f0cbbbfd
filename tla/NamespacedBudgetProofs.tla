---------------------- MODULE NamespacedBudgetProofs -----------------------
(***************************************************************************)
(* What NamespacedBudget guarantees for any number of identifiers, specs   *)
(* and policies and any number of faults.  The argument, and the lemmas    *)
(* about the budgets that come first, are those of ClusterBudgetProofs;    *)
(* new is that one copy carries the identifier through two status updates, *)
(* and that the name in the annotation comes after the identifier in the   *)
(* status.                                                                 *)
(***************************************************************************)
EXTENDS NamespacedBudget, ApiServerProofs

GithubOK ==
    /\ github \in [Ids -> BudgetValues \cup {Unborn, Deleted}]
    /\ mine \subseteq Ids

\* Identifiers are handed out once and for all, and no budget comes back.
Grows == Born \subseteq Born' /\ Alive' \subseteq Alive \cup (Born' \ Born)

\* The identifier a copy records was handed out.
Known(o) == o # Gone /\ o.id # None => o.id \in Born
-----------------------------------------------------------------------------
LEMMA BornAlive == GithubOK => Alive \subseteq Born /\ Born \subseteq Ids
  BY BudgetAssumption DEF GithubOK, Born, Alive, Live

LEMMA Same == UNCHANGED github => Born' = Born /\ Alive' = Alive
  BY DEF Born, Alive, Live

\* An identifier that was handed out and has no budget never has one again.
LEMMA StaysDead ==
  ASSUME GithubOK', Grows, NEW i \in Born \cup {None}, i \notin Alive
  PROVE  i \notin Alive'
  BY AbsentAssumption DEF Grows, Alive

\* findBudget returns a budget of the list or None, and None only if neither the
\* recorded identifier nor the identity is in the list.
LEMMA FindBudget ==
  ASSUME NEW o \in Objects
  PROVE  /\ findBudget(o) \in Ids \cup {None}
         /\ findBudget(o) # None => findBudget(o) \in Alive
         /\ findBudget(o) = None =>
               /\ o.id \notin Alive
               /\ \A i \in Ids : Live(i) => github[i].key # o.spec.key
  <1> DEFINE matching == {i \in Ids : matches(i, o.spec)}
  <1>1. CASE Live(o.id)
    BY <1>1, AbsentAssumption DEF findBudget, Live, Alive
  <1>2. CASE ~Live(o.id) /\ matching = {}
    BY <1>2 DEF findBudget, Alive, matches
  <1>3. CASE ~Live(o.id) /\ matching # {}
    <2>1. matching \in SUBSET Nat
      BY BudgetAssumption
    <2>2. \E i \in matching : \A j \in matching : i <= j
      BY <1>3, <2>1, LeastElement
    <2>3. findBudget(o) = CHOOSE i \in matching : \A j \in matching : i <= j
      BY <1>3 DEF findBudget
    <2>4. findBudget(o) \in matching
      BY <2>2, <2>3
    <2> QED
      BY <1>3, <2>4, AbsentAssumption DEF matches, Alive
  <1> QED
    BY <1>1, <1>2, <1>3

LEMMA CreateFacts ==
  ASSUME GithubOK, NEW i \in Ids, NEW s \in BudgetValues, CreateBudget(i, s)
  PROVE  GithubOK' /\ Grows /\ i \in Born'
  <1> USE BudgetAssumption DEF GithubOK, CreateBudget
  <1>1. GithubOK'
    OBVIOUS
  <1>2. \A j \in Ids : github'[j] = IF j = i THEN s ELSE github[j]
    OBVIOUS
  <1>3. i \in Born' /\ i \notin Born
    BY <1>2 DEF Born
  <1>4. \A j \in Ids \ {i} : github'[j] = github[j]
    BY <1>2
  <1>5. Grows
    BY <1>3, <1>4 DEF Grows, Born, Alive, Live
  <1> QED
    BY <1>1, <1>3, <1>5

LEMMA PatchFacts ==
  ASSUME GithubOK, NEW i, NEW s \in BudgetValues, UpdateBudget(i, s)
  PROVE  GithubOK' /\ Grows /\ Alive' = Alive
  <1> USE BudgetAssumption DEF GithubOK
  <1> DEFINE val == Patched(github[i].val, s.val)
  <1>1. i \in Ids /\ github[i] \in BudgetValues
    BY DEF UpdateBudget, Live
  <1>2. val \in Values
    BY <1>1 DEF Patched, BudgetValues, Values
  <1>3. github' = [github EXCEPT ![i] = [github[i] EXCEPT !.val = val]]
    BY <1>1 DEF UpdateBudget
  <1>4. [github[i] EXCEPT !.val = val] \in BudgetValues
    BY <1>1, <1>2 DEF BudgetValues
  <1> HIDE DEF val
  <1>5. GithubOK'
    BY <1>1, <1>3, <1>4 DEF UpdateBudget
  <1>6. Born' = Born /\ Alive' = Alive
    <2>1. \A j \in Ids \ {i} : github'[j] = github[j]
      BY <1>3
    <2>2. github'[i] \in BudgetValues
      BY <1>1, <1>3, <1>4
    <2> QED
      BY <1>1, <2>1, <2>2 DEF Born, Alive, Live
  <1> QED
    BY <1>5, <1>6 DEF Grows

LEMMA DeleteFacts ==
  ASSUME GithubOK, NEW i \in Ids, DeleteBudget(i)
  PROVE  GithubOK' /\ Grows /\ i \notin Alive'
  <1> USE BudgetAssumption DEF GithubOK, DeleteBudget
  <1>1. GithubOK'
    OBVIOUS
  <1>2. \A j \in Ids \ {i} : github'[j] = github[j]
    OBVIOUS
  <1>3. github'[i] = IF Live(i) THEN Deleted ELSE github[i]
    OBVIOUS
  <1>4. i \notin Alive' /\ (i \in Born' <=> i \in Born)
    BY <1>3 DEF Alive, Born, Live
  <1>5. Grows
    BY <1>2, <1>4 DEF Grows, Born, Alive, Live
  <1> QED
    BY <1>1, <1>4, <1>5

LEMMA OthersFacts ==
  ASSUME GithubOK, OthersCreate \/ OthersUpdate \/ OthersDelete
  PROVE  GithubOK' /\ Grows
  <1> USE BudgetAssumption
  <1>1. CASE OthersCreate
    <2>1. PICK i \in Ids, b \in Foreign :
             github[i] = Unborn /\ github' = [github EXCEPT ![i] = b]
      BY <1>1 DEF OthersCreate
    <2>2. GithubOK'
      BY <1>1, <2>1 DEF OthersCreate, GithubOK
    <2>3. github'[i] # Unborn /\ \A j \in Ids \ {i} : github'[j] = github[j]
      BY <2>1 DEF GithubOK
    <2>4. Grows
      BY <2>1, <2>3 DEF Grows, Born, Alive, Live
    <2> QED
      BY <2>2, <2>4
  <1>2. CASE OthersUpdate
    <2>1. PICK i \in Ids, b \in Foreign :
             Live(i) /\ github' = [github EXCEPT ![i].val = b.val]
      BY <1>2 DEF OthersUpdate
    <2>2. b.val \in Values
      BY DEF BudgetValues
    <2>3. github' = [github EXCEPT ![i] = [github[i] EXCEPT !.val = b.val]]
      BY <2>1 DEF GithubOK
    <2>4. [github[i] EXCEPT !.val = b.val] \in BudgetValues
      BY <2>1, <2>2 DEF Live, BudgetValues
    <2>5. GithubOK'
      BY <1>2, <2>3, <2>4 DEF OthersUpdate, GithubOK
    <2>6. github'[i] \in BudgetValues /\ \A j \in Ids \ {i} : github'[j] = github[j]
      BY <2>3, <2>4 DEF GithubOK
    <2>7. Grows
      BY <2>1, <2>6 DEF Grows, Born, Alive, Live
    <2> QED
      BY <2>5, <2>7
  <1>3. CASE OthersDelete
    <2>1. PICK i \in Ids : Live(i) /\ github' = [github EXCEPT ![i] = Deleted]
      BY <1>3 DEF OthersDelete
    <2>2. GithubOK'
      BY <1>3, <2>1 DEF OthersDelete, GithubOK
    <2>3. github'[i] = Deleted /\ \A j \in Ids \ {i} : github'[j] = github[j]
      BY <2>1 DEF GithubOK
    <2>4. Grows
      BY <2>1, <2>3 DEF Grows, Born, Alive, Live
    <2> QED
      BY <2>2, <2>4
  <1> QED
    BY <1>1, <1>2, <1>3

\* This controller made no new budget, and none of its budgets changed its identity.
MineKept ==
    /\ mine' = mine
    /\ \A i \in mine : Live(i)' => Live(i) /\ github'[i].key = github[i].key

\* A PATCH does not send the identity.
LEMMA PatchKeeps ==
  ASSUME GithubOK, NEW i, NEW s, UpdateBudget(i, s)
  PROVE  MineKept
  <1> DEFINE val == Patched(github[i].val, s.val)
  <1>1. i \in Ids /\ github[i] \in BudgetValues
    BY DEF UpdateBudget, Live
  <1>2. github' = [github EXCEPT ![i] = [github[i] EXCEPT !.val = val]]
    BY <1>1 DEF UpdateBudget, GithubOK
  <1> HIDE DEF val
  <1>3. \A j \in Ids \ {i} : github'[j] = github[j]
    BY <1>2 DEF GithubOK
  <1>4. github'[i].key = github[i].key
    BY <1>1, <1>2 DEF GithubOK, BudgetValues
  <1> QED
    BY <1>1, <1>3, <1>4 DEF MineKept, UpdateBudget, Live, GithubOK

LEMMA DeleteKeeps ==
  ASSUME GithubOK, NEW i \in Ids, DeleteBudget(i)
  PROVE  MineKept
  <1>1. \A j \in Ids \ {i} : github'[j] = github[j]
    BY DEF DeleteBudget, GithubOK
  <1>2. github'[i] \notin BudgetValues
    BY BudgetAssumption DEF DeleteBudget, GithubOK, Live
  <1> QED
    BY <1>1, <1>2 DEF MineKept, DeleteBudget, Live, GithubOK

\* Others do not get an identifier that this controller got.
LEMMA OthersKeep ==
  ASSUME GithubOK, mine \subseteq Born, OthersCreate \/ OthersUpdate \/ OthersDelete
  PROVE  MineKept
  <1>1. mine' = mine
    BY DEF OthersCreate, OthersUpdate, OthersDelete
  <1>2. CASE OthersCreate
    <2>1. PICK i \in Ids, b \in Foreign :
             github[i] = Unborn /\ github' = [github EXCEPT ![i] = b]
      BY <1>2 DEF OthersCreate
    <2> QED
      BY <1>1, <2>1 DEF MineKept, Born, Live, GithubOK
  <1>3. CASE OthersUpdate
    <2>1. PICK i \in Ids, b \in Foreign :
             Live(i) /\ github' = [github EXCEPT ![i].val = b.val]
      BY <1>3 DEF OthersUpdate
    <2>2. github' = [github EXCEPT ![i] = [github[i] EXCEPT !.val = b.val]]
      BY <2>1 DEF GithubOK
    <2>3. github'[i].key = github[i].key
      BY <2>1, <2>2 DEF Live, BudgetValues, GithubOK
    <2> QED
      BY <1>1, <2>1, <2>2, <2>3 DEF MineKept, Live, GithubOK
  <1>4. CASE OthersDelete
    <2>1. PICK i \in Ids : Live(i) /\ github' = [github EXCEPT ![i] = Deleted]
      BY <1>4 DEF OthersDelete
    <2> QED
      BY <1>1, <2>1, BudgetAssumption DEF MineKept, Live, GithubOK
  <1> QED
    BY <1>2, <1>3, <1>4

LEMMA NothingPermitted == ASSUME NEW o, UNCHANGED github PROVE Permitted(o)
  BY DEF Permitted

LEMMA CreatePermitted ==
  ASSUME GithubOK, NEW o, allows(o, "Create"), NEW i \in Ids, NEW s, CreateBudget(i, s)
  PROVE  Permitted(o)
  BY DEF Permitted, CreateBudget, GithubOK

LEMMA UpdatePermitted ==
  ASSUME GithubOK, NEW o, allows(o, "Update"), NEW i, NEW s \in BudgetValues,
         UpdateBudget(i, s)
  PROVE  Permitted(o)
  <1>1. GithubOK' /\ Live(i)
    BY PatchFacts DEF UpdateBudget
  <1>2. \A j \in Ids \ {i} : github'[j] = github[j]
    BY DEF UpdateBudget, GithubOK
  <1>3. github'[i] # Deleted
    <2>1. i \in Ids /\ github[i] \in BudgetValues
      BY <1>1 DEF Live
    <2>2. Alive' = Alive
      BY PatchFacts
    <2> QED
      BY <2>1, <2>2, BudgetAssumption DEF Alive, Live
  <1> QED
    BY <1>1, <1>2, <1>3 DEF Permitted

LEMMA DeletePermitted ==
  ASSUME GithubOK, NEW o, allows(o, "Delete"), NEW i \in Ids, DeleteBudget(i)
  PROVE  Permitted(o)
  BY DEF Permitted, DeleteBudget, GithubOK
-----------------------------------------------------------------------------
(* The invariant of the reconciler.                                        *)

\* The informer's copy, and what copies and the object record.
WorldInv ==
    /\ CopyOf(seen, api)
    /\ api # Gone => seen # Gone
    /\ Guarded(api)
    /\ Known(api) /\ Known(seen) /\ Known(obj)

\* Except between filling in the status and the API server's answer, obj is the
\* object as it was read.
ObjIsCopy ==
    /\ pc # "idle" => obj # Gone
    /\ Behind(obj, api)
    /\ pc \notin {"updateStatus", "report"} => Exact(obj, api)
    /\ pc \in {"deleteExternal", "removeFinalizer"} => obj.deleting
    /\ pc = "deleteExternal" => DeletionTarget(obj) # None
    /\ pc = "updateStatus" => obj.id # None

\* An object that is worked on has its finalizer, as far as its copy is current.
ObjIsGuarded ==
    pc \in {"list", "handle", "updateStatus", "refetch", "annotate", "report"}
    /\ IsCurrent(obj) => api.finalizer

\* What was found was handed out, and differs from what is recorded only if that
\* does not exist.
FoundReplaces ==
    pc = "handle" =>
        /\ found # None => found \in Born
        /\ found # obj.id => obj.id \notin Alive

\* The identifier about to be recorded is the one that was, or replaces that of a
\* budget that does not exist; also when the status is written to report an error.
RecordsNew ==
    pc \in {"updateStatus", "report"} /\ IsCurrent(obj) /\ obj.id # api.id =>
        obj.id \in Born /\ api.id \notin Alive

\* The object is about to be released only after its budget, if it may be.
ReleasesLast ==
    pc = "removeFinalizer" /\ IsCurrent(obj) /\ MayDelete => api.id \notin Alive

\* An identifier is recorded before the annotation is written.
Recorded ==
    /\ pc \in {"updateStatus", "refetch", "annotate"} => found # None
    /\ pc \in {"refetch", "annotate"} /\ api # Gone => api.id # None

\* The copy for the annotation does not touch the finalizer.
LatestIsCopy ==
    pc = "annotate" =>
        latest # Gone /\ Behind(latest, api)
        /\ (IsCurrent(latest) => latest.finalizer = api.finalizer)

Inv ==
    /\ TypeOK
    /\ WorldInv
    /\ NameImpliesId
    /\ ObjIsCopy
    /\ ObjIsGuarded
    /\ FoundReplaces
    /\ RecordsNew
    /\ ReleasesLast
    /\ Recorded
    /\ LatestIsCopy
-----------------------------------------------------------------------------
LEMMA InitInv == Init => Inv
  <1> SUFFICES ASSUME Init PROVE Inv
    OBVIOUS
  <1> USE AbsentAssumption, BudgetAssumption
  <1>1. PICK s \in Specs, p \in Policies : api = NewObject(s, p)
    BY DEF Init
  <1>2. /\ api \in Objects /\ api # Gone
        /\ api.id = None /\ ~api.deleting
    BY <1>1, NewObjectFacts
  <1>3. api.name = None
    BY <1>1 DEF NewObject
  <1>4. github \in [Ids -> BudgetValues \cup {Unborn, Deleted}]
    BY DEF Init
  <1>5. TypeOK
    <2>1. /\ seen = api /\ faults = 0 /\ mine = {} /\ pc = "idle"
          /\ obj = Gone /\ found = None /\ upToDate = FALSE /\ latest = Gone
      BY DEF Init
    <2>2. faults \in 0 .. MaxFaults
      BY <2>1
    <2> QED
      BY <1>2, <1>4, <2>1, <2>2, Zenon DEF TypeOK, Labels
  <1>6. WorldInv
    <2>1. seen = api /\ obj = Gone
      BY DEF Init
    <2>2. CopyOf(seen, api)
      BY <1>2, <2>1 DEF CopyOf, Behind, Exact, Objects
    <2> QED
      BY <1>2, <2>1, <2>2 DEF WorldInv, Guarded, Known
  <1>7. NameImpliesId
    BY <1>3 DEF NameImpliesId
  <1>8. ObjIsCopy /\ ObjIsGuarded /\ FoundReplaces /\ RecordsNew /\ ReleasesLast
        /\ Recorded /\ LatestIsCopy
    BY DEF Init, ObjIsCopy, ObjIsGuarded, FoundReplaces, RecordsNew, ReleasesLast,
           Recorded, LatestIsCopy, Behind, Exact
  <1> QED
    BY <1>5, <1>6, <1>7, <1>8 DEF Inv

\* What holds of the copies whatever happens to the object and the budgets.
LEMMA CopiesKept ==
  ASSUME Inv, api' \in Copies, Moves(api, api'), Grows,
         seen' = seen \/ (seen' = api /\ api' = api)
  PROVE  /\ seen' \in Copies
         /\ CopyOf(seen', api')
         /\ api' # Gone => seen' # Gone
         /\ Known(seen)'
         /\ Behind(obj, api')
         /\ Exact(obj, api) => Exact(obj, api')
         /\ Behind(obj, seen) => Behind(obj, seen')
         /\ obj # Gone /\ api' # Gone /\ obj.version = api'.version => api' = api
         /\ obj # Gone /\ obj.id # None => obj.id \in Born'
         /\ Behind(latest, api) => Behind(latest, api')
         /\ Behind(latest, api) =>
               (latest # Gone /\ api' # Gone /\ latest.version = api'.version => api' = api)
  <1>1. api \in Copies /\ seen \in Copies /\ obj \in Copies /\ latest \in Copies
    BY DEF Inv, TypeOK, Copies
  <1>2. /\ Behind(seen, api) /\ Exact(seen, api)
        /\ Known(api) /\ Known(seen) /\ Known(obj)
        /\ api # Gone => seen # Gone
        /\ Behind(obj, api)
    BY DEF Inv, WorldInv, CopyOf, ObjIsCopy
  <1>3. CASE seen' = seen
    <2>1. CopyOf(seen', api')
      BY <1>1, <1>2, <1>3, CopyKept DEF CopyOf
    <2>2. api' # Gone => api # Gone
      BY DEF Moves
    <2>3. Known(seen)'
      BY <1>2, <1>3 DEF Known, Grows
    <2>4. Behind(obj, seen) => Behind(obj, seen')
      BY <1>3
    <2> QED
      BY <1>1, <1>2, <1>3, <2>1, <2>2, <2>3, <2>4, CopyKept DEF Known, Grows
  <1>4. CASE seen' = api /\ api' = api
    <2>1. \A c \in Copies : c # Gone => c.version \in Nat
      BY DEF Copies, Objects
    <2>2. CopyOf(seen', api')
      BY <1>1, <1>4, <2>1 DEF CopyOf, Behind, Exact
    <2>3. Known(seen)'
      BY <1>2, <1>4 DEF Known, Grows
    <2> QED
      BY <1>1, <1>2, <1>4, <2>2, <2>3, CopyKept DEF Known, Grows
  <1> QED
    BY <1>3, <1>4

\* Reconcile goes on, or the environment takes a step that changes nothing it
\* recorded.
LEMMA LocalsKept ==
  ASSUME Inv, TypeOK', Moves(api, api'), Grows,
         seen' = seen \/ (seen' = api /\ api' = api),
         Guarded(api)',
         api' # Gone => api'.id = api.id /\ api'.name = api.name,
         UNCHANGED locals
  PROVE  Inv'
  <1>1. api' \in Copies /\ GithubOK'
    BY DEF TypeOK, Copies, GithubOK
  <1>2. UNCHANGED <<pc, obj, found, upToDate, latest>>
    BY DEF locals
  <1>3. api' # Gone => api # Gone
    BY DEF Moves
  <1>4. NameImpliesId' /\ Known(api)'
    BY <1>3 DEF NameImpliesId, Known, Inv, WorldInv, Grows
  <1>5. WorldInv'
    BY <1>1, <1>2, <1>4, CopiesKept DEF WorldInv, Known
  <1>6. ObjIsCopy'
    BY <1>1, <1>2, CopiesKept DEF Inv, ObjIsCopy, DeletionTarget
  <1>7. IsCurrent(obj)' => api' = api /\ IsCurrent(obj)
    BY <1>1, <1>2, CopiesKept DEF IsCurrent
  <1>8. ASSUME NEW o \in {api, obj}, o # Gone, o.id \notin Alive PROVE o.id \notin Alive'
    <2>1. o.id \in Born \cup {None}
      BY <1>8 DEF Inv, WorldInv, Known
    <2> QED
      BY <1>1, <1>8, <2>1, StaysDead
  <1>9. ObjIsGuarded'
    BY <1>2, <1>7 DEF Inv, ObjIsGuarded, IsCurrent
  <1>10. FoundReplaces'
    BY <1>2, <1>8 DEF Inv, FoundReplaces, ObjIsCopy, Grows
  <1>11. RecordsNew'
    BY <1>2, <1>7, <1>8 DEF Inv, RecordsNew, IsCurrent, Grows
  <1>12. ReleasesLast'
    BY <1>2, <1>7, <1>8 DEF Inv, ReleasesLast, IsCurrent, MayDelete, allows
  <1>13. Recorded'
    BY <1>2, <1>3 DEF Inv, Recorded
  <1>14. LatestIsCopy'
    BY <1>1, <1>2, CopiesKept DEF Inv, LatestIsCopy, IsCurrent
  <1> QED
    BY <1>4, <1>5, <1>6, <1>9, <1>10, <1>11, <1>12, <1>13, <1>14 DEF Inv

\* Reconcile returns.
LEMMA ReturnKept ==
  ASSUME Inv, TypeOK', Moves(api, api'), Grows, seen' = seen,
         Guarded(api)', Known(api)', NameImpliesId', Return
  PROVE  Inv'
  <1>1. api' \in Copies
    BY DEF TypeOK, Copies
  <1>2. pc' = "idle" /\ obj' = Gone
    BY DEF Return
  <1>3. WorldInv'
    BY <1>1, <1>2, CopiesKept DEF WorldInv, Known
  <1>4. ObjIsCopy' /\ ObjIsGuarded' /\ FoundReplaces' /\ RecordsNew' /\ ReleasesLast'
        /\ Recorded' /\ LatestIsCopy'
    BY <1>2 DEF ObjIsCopy, ObjIsGuarded, FoundReplaces, RecordsNew, ReleasesLast,
                Recorded, LatestIsCopy, Behind, Exact
  <1> QED
    BY <1>3, <1>4 DEF Inv

\* reconcileExternal fails: the copy in memory goes into the status as it is.
LEMMA FailKept ==
  ASSUME Inv, TypeOK', Moves(api, api'), Grows, seen' = seen,
         Guarded(api)', Known(api)', NameImpliesId', Fail,
         pc \in {"list", "handle", "updateStatus", "refetch", "annotate"}
  PROVE  Inv'
  <1>1. api' \in Copies /\ GithubOK'
    BY DEF TypeOK, Copies, GithubOK
  <1>2. pc' = "report" /\ UNCHANGED <<obj, found, upToDate, latest>>
    BY DEF Fail
  <1>3. WorldInv'
    BY <1>1, <1>2, CopiesKept DEF WorldInv, Known
  <1>4. ObjIsCopy'
    BY <1>1, <1>2, CopiesKept DEF Inv, ObjIsCopy
  <1>5. IsCurrent(obj)' => api' = api /\ IsCurrent(obj)
    BY <1>1, <1>2, CopiesKept DEF IsCurrent
  <1>6. ObjIsGuarded'
    BY <1>2, <1>5 DEF Inv, ObjIsGuarded, IsCurrent
  <1>7. RecordsNew'
    <2>1. CASE pc = "updateStatus"
      <3>1. ASSUME IsCurrent(obj), api.id \notin Alive PROVE api.id \notin Alive'
        <4>1. api.id \in Born \cup {None}
          BY <3>1 DEF Inv, WorldInv, Known, IsCurrent
        <4> QED
          BY <1>1, <3>1, <4>1, StaysDead
      <3> QED
        BY <1>2, <1>5, <2>1, <3>1 DEF Inv, RecordsNew, IsCurrent, Grows
    <2>2. CASE pc # "updateStatus"
      <3>1. IsCurrent(obj) => obj = api
        BY <2>2 DEF Inv, ObjIsCopy, Exact, IsCurrent
      <3> QED
        BY <1>2, <1>5, <3>1 DEF RecordsNew
    <2> QED
      BY <2>1, <2>2
  <1>8. FoundReplaces' /\ ReleasesLast' /\ Recorded' /\ LatestIsCopy'
    BY <1>2 DEF FoundReplaces, ReleasesLast, Recorded, LatestIsCopy
  <1> QED
    BY <1>3, <1>4, <1>6, <1>7, <1>8 DEF Inv

-----------------------------------------------------------------------------
(* The steps of Reconcile, in the order of its calls.                      *)

LEMMA Unchanged ==
  ASSUME Inv, UNCHANGED <<api, github>>
  PROVE  Moves(api, api') /\ Grows /\ Guarded(api)' /\ Known(api)' /\ NameImpliesId'
  BY Same DEF Moves, Grows, Inv, WorldInv, Known, NameImpliesId

LEMMA ReconcileInv == ASSUME Inv, Reconcile PROVE Inv'
  <1> USE DEF Reconcile, env
  <1>1. seen \in Objects /\ seen # Gone
    BY DEF Inv, TypeOK
  <1>2. TypeOK'
    BY <1>1 DEF Inv, TypeOK, Labels
  <1>3. WorldInv' /\ NameImpliesId'
    BY Same DEF Inv, WorldInv, Known, NameImpliesId
  <1>4. CopyOf(obj, api)'
    BY <1>1 DEF Inv, WorldInv, CopyOf, Behind, Exact
  <1>5. ObjIsCopy'
    BY <1>1, <1>4 DEF ObjIsCopy, CopyOf
  <1>6. IsCurrent(obj)' => obj' = api /\ api' = api
    BY <1>1, <1>4 DEF IsCurrent, CopyOf, Exact
  <1>7. ObjIsGuarded'
    BY <1>6 DEF ObjIsGuarded
  <1>8. FoundReplaces' /\ RecordsNew' /\ Recorded' /\ LatestIsCopy'
    BY DEF FoundReplaces, RecordsNew, Recorded, LatestIsCopy
  <1>9. ReleasesLast'
    BY <1>6, AbsentAssumption DEF ReleasesLast, MayDelete, allows, Alive, DeletionTarget
  <1> QED
    BY <1>2, <1>3, <1>5, <1>7, <1>8, <1>9 DEF Inv

LEMMA EnsureFinalizerInv == ASSUME Inv, ensureFinalizer PROVE Inv'
  <1> DEFINE sent == [obj EXCEPT !.finalizer = TRUE]
  <1>1. obj \in Objects /\ obj # Gone /\ api \in Copies /\ Exact(obj, api)
    BY DEF ensureFinalizer, Inv, TypeOK, ObjIsCopy, Copies
  <1>2. sent \in Objects /\ sent.finalizer
        /\ sent.name = obj.name /\ sent.version = obj.version
    BY <1>1 DEF Objects
  <1>3. Update(sent) /\ Return /\ UNCHANGED <<seen, faults, github, mine>>
    BY DEF ensureFinalizer
  <1> HIDE DEF sent
  <1>4. /\ api \in Objects /\ api # Gone /\ sent.version = api.version
        /\ api' \in Copies /\ Moves(api, api')
        /\ api' # Gone =>
              api'.finalizer /\ api'.id = api.id /\ api'.name = sent.name
    BY <1>1, <1>2, <1>3, UpdateFacts
  <1>5. TypeOK'
    BY <1>3, <1>4 DEF Inv, TypeOK, Copies, Return, Labels
  <1>6. Guarded(api)' /\ Known(api)'
    BY <1>3, <1>4, Same DEF Guarded, Known, Inv, WorldInv
  <1>7. NameImpliesId'
    BY <1>1, <1>2, <1>4 DEF NameImpliesId, Inv, Exact
  <1>8. Grows
    BY <1>3, Same DEF Grows
  <1> QED
    BY <1>3, <1>4, <1>5, <1>6, <1>7, <1>8, ReturnKept

LEMMA ListInv == ASSUME Inv, List PROVE Inv'
  <1> USE DEF List, env
  <1>1. obj \in Objects /\ obj # Gone
    BY DEF Inv, TypeOK, ObjIsCopy
  <1>2. /\ found' \in Ids \cup {None}
        /\ found' # None => found' \in Alive
        /\ found' # obj.id => obj.id \notin Alive
    BY <1>1, FindBudget DEF findBudget, Alive, Live
  <1>3. upToDate' \in BOOLEAN
    BY Zenon DEF isUpToDate
  <1>4. TypeOK'
    BY <1>2, <1>3 DEF Inv, TypeOK, Labels
  <1>5. WorldInv' /\ NameImpliesId'
    BY Same DEF Inv, WorldInv, Known, NameImpliesId
  <1>6. ObjIsCopy' /\ ObjIsGuarded'
    BY DEF Inv, ObjIsCopy, ObjIsGuarded, IsCurrent
  <1>7. FoundReplaces'
    BY <1>2, Same, BornAlive DEF FoundReplaces, Inv, TypeOK, GithubOK
  <1>8. RecordsNew' /\ ReleasesLast' /\ Recorded' /\ LatestIsCopy'
    BY DEF RecordsNew, ReleasesLast, Recorded, LatestIsCopy
  <1> QED
    BY <1>4, <1>5, <1>6, <1>7, <1>8 DEF Inv

\* The status is filled in from a budget that replaces what is recorded.
LEMMA RecordInv ==
  ASSUME Inv, pc = "handle", NEW i \in Ids, Record(i),
         GithubOK', Grows, i \in Born', i # obj.id => obj.id \notin Alive,
         UNCHANGED <<api, seen, faults>>
  PROVE  Inv'
  <1>1. obj \in Objects /\ obj # Gone
    BY DEF Inv, TypeOK, ObjIsCopy
  <1>2. /\ obj' = SetConditions([obj EXCEPT !.id = i], "success")
        /\ pc' = "updateStatus" /\ found' = i /\ UNCHANGED <<upToDate, latest>>
    BY DEF Record
  <1>3. /\ obj' \in Objects /\ obj' # Gone /\ i # None
        /\ obj'.id = i /\ obj'.version = obj.version
    <2> DEFINE recorded == [obj EXCEPT !.id = i]
    <2>1. recorded \in Objects /\ recorded.id = i /\ recorded.version = obj.version
      BY <1>1 DEF Objects
    <2>2. "success" \in Reports /\ obj' = SetConditions(recorded, "success")
      BY <1>2 DEF Reports
    <2> HIDE DEF recorded
    <2>3. obj' \in Objects /\ obj'.id = recorded.id /\ obj'.version = recorded.version
      BY <2>1, <2>2, TransitionFacts
    <2> QED
      BY <2>1, <2>3, AbsentAssumption
  <1>4. TypeOK'
    BY <1>2, <1>3 DEF Inv, TypeOK, GithubOK, Labels
  <1>5. WorldInv' /\ NameImpliesId'
    BY <1>3 DEF Inv, WorldInv, Known, Grows, NameImpliesId
  <1>6. ObjIsCopy'
    BY <1>1, <1>2, <1>3 DEF Inv, ObjIsCopy, Behind
  <1>7. IsCurrent(obj)' => IsCurrent(obj) /\ obj = api
    BY <1>1, <1>3 DEF IsCurrent, Inv, ObjIsCopy, Exact
  <1>8. ObjIsGuarded'
    BY <1>2, <1>7 DEF Inv, ObjIsGuarded
  <1>9. FoundReplaces' /\ ReleasesLast' /\ Recorded' /\ LatestIsCopy'
    BY <1>2, <1>3 DEF FoundReplaces, ReleasesLast, Recorded, LatestIsCopy
  <1>10. RecordsNew'
    <2>1. ASSUME obj.id \notin Alive PROVE obj.id \notin Alive'
      <3>1. obj.id \in Born \cup {None}
        BY <1>1 DEF Inv, WorldInv, Known
      <3> QED
        BY <2>1, <3>1, StaysDead
    <2> QED
      BY <1>2, <1>3, <1>7, <2>1 DEF RecordsNew
  <1> QED
    BY <1>4, <1>5, <1>6, <1>8, <1>9, <1>10 DEF Inv

LEMMA HandleInv == ASSUME Inv, Create \/ UpdateExternal \/ Keep PROVE Inv'
  <1>1. /\ pc = "handle" /\ obj \in Objects /\ obj.spec \in BudgetValues
        /\ GithubOK /\ (found # None => found \in Ids /\ found \in Born)
        /\ found # obj.id => obj.id \notin Alive
    BY BudgetAssumption DEF Create, UpdateExternal, Keep, Inv, TypeOK, ObjIsCopy,
       Objects, GithubOK, FoundReplaces
  <1>2. CASE Create
    <2>1. PICK i \in Ids : CreateBudget(i, obj.spec) /\ Record(i)
      BY <1>2 DEF Create
    <2>2. GithubOK' /\ Grows /\ i \in Born'
      BY <1>1, <2>1, CreateFacts
    <2>3. obj.id \notin Alive
      BY <1>1, <1>2, AbsentAssumption DEF Create, Alive
    <2>4. UNCHANGED <<api, seen, faults>>
      BY <1>2 DEF Create
    <2> QED
      BY <1>1, <2>1, <2>2, <2>3, <2>4, RecordInv
  <1>3. CASE UpdateExternal
    <2>1. found \in Ids /\ UpdateBudget(found, obj.spec) /\ Record(found)
          /\ UNCHANGED <<api, seen, faults>>
      BY <1>1, <1>3 DEF UpdateExternal, MustUpdate
    <2>2. GithubOK' /\ Grows
      BY <1>1, <2>1, PatchFacts
    <2>3. found \in Born'
      BY <1>1, <1>3, <2>2 DEF Grows, UpdateExternal, MustUpdate
    <2> QED
      BY <1>1, <2>1, <2>2, <2>3, RecordInv
  <1>4. CASE Keep
    <2>1. found \in Ids /\ Record(found) /\ UNCHANGED <<api, seen, faults, github, mine>>
      BY <1>1, <1>4 DEF Keep, env
    <2>2. GithubOK' /\ Grows /\ found \in Born'
      BY <1>1, <1>4, <2>1, Same DEF GithubOK, Grows, Keep
    <2> QED
      BY <1>1, <2>1, <2>2, RecordInv
  <1> QED
    BY <1>2, <1>3, <1>4

\* Status().Update, of a copy to be recorded or to report an error.
LEMMA StatusFacts ==
  ASSUME Inv, pc \in {"updateStatus", "report"},
         NEW sent \in {obj} \cup Conditions(obj, "failure"), UpdateStatus(sent)
  PROVE  /\ IsCurrent(obj)
         /\ api' \in Copies /\ api' # Gone /\ Moves(api, api')
         /\ api'.id = obj.id /\ api'.deleting = api.deleting
         /\ api'.finalizer /\ api'.allowed = api.allowed
         /\ NameImpliesId'
  <1>1. obj \in Objects /\ obj # Gone /\ api \in Copies /\ "failure" \in Reports
    BY DEF Inv, TypeOK, ObjIsCopy, Copies, Reports
  <1>2. sent \in Objects /\ sent.id = obj.id /\ sent.version = obj.version
    BY <1>1, ConditionsFacts
  <1>3. /\ api # Gone /\ sent.version = api.version
        /\ api' \in Copies /\ Moves(api, api')
        /\ api' = Gone => api.deleting /\ ~api.finalizer
        /\ api' # Gone => /\ api'.deleting = api.deleting
                          /\ api'.finalizer = api.finalizer
                          /\ api'.name = api.name
                          /\ api'.allowed = api.allowed
                          /\ api'.id = sent.id
    BY <1>1, <1>2, UpdateStatusFacts
  <1>4. IsCurrent(obj)
    BY <1>1, <1>2, <1>3 DEF IsCurrent
  <1>5. api.finalizer
    BY <1>4 DEF Inv, ObjIsGuarded
  <1>6. obj.id # api.id => obj.id # None
    <2>1. Born \subseteq Ids
      BY DEF Born
    <2> QED
      BY <1>4, <2>1, AbsentAssumption DEF Inv, RecordsNew
  <1> QED
    BY <1>2, <1>3, <1>4, <1>5, <1>6 DEF Inv, NameImpliesId

LEMMA StatusUpdateInv == ASSUME Inv, StatusUpdate PROVE Inv'
  <1>1. /\ pc = "updateStatus" /\ pc' = "refetch"
        /\ UpdateStatus(obj) /\ obj' = api'
        /\ UNCHANGED <<seen, faults, github, mine, found, upToDate, latest>>
    BY DEF StatusUpdate
  <1>2. /\ api' \in Copies /\ api' # Gone /\ Moves(api, api')
        /\ api'.id = obj.id /\ api'.finalizer /\ NameImpliesId'
    BY <1>1, StatusFacts
  <1>3. obj # Gone /\ obj.id # None
    BY <1>1 DEF Inv, ObjIsCopy
  <1>4. Grows
    BY <1>1, Same DEF Grows
  <1>5. TypeOK'
    BY <1>1, <1>2 DEF Inv, TypeOK, Copies, Labels
  <1>6. Known(api)' /\ Guarded(api)'
    BY <1>1, <1>2, <1>3, Same DEF Inv, WorldInv, Known, Guarded
  <1>7. WorldInv'
    BY <1>1, <1>2, <1>4, <1>6, CopiesKept, Same DEF Inv, WorldInv, Known
  <1>8. ObjIsCopy'
    <2>1. api'.version \in Nat
      BY <1>2 DEF Copies, Objects
    <2> QED
      BY <1>1, <1>2, <1>3, <2>1 DEF ObjIsCopy, Behind, Exact
  <1>9. ObjIsGuarded' /\ FoundReplaces' /\ RecordsNew' /\ ReleasesLast' /\ LatestIsCopy'
    BY <1>1, <1>2 DEF ObjIsGuarded, FoundReplaces, RecordsNew, ReleasesLast, LatestIsCopy
  <1>10. Recorded'
    BY <1>1, <1>2, <1>3 DEF Inv, Recorded
  <1> QED
    BY <1>2, <1>5, <1>7, <1>8, <1>9, <1>10 DEF Inv

LEMMA RefetchInv == ASSUME Inv, Refetch PROVE Inv'
  <1> USE DEF Refetch, env
  <1>1. seen \in Objects /\ seen # Gone /\ found \in Ids
    BY DEF Inv, TypeOK, Recorded
  <1>2. /\ latest' \in Objects /\ latest' # Gone
        /\ latest'.version = seen.version /\ latest'.finalizer = seen.finalizer
    BY <1>1, AbsentAssumption DEF Objects
  <1>3. TypeOK'
    BY <1>2 DEF Inv, TypeOK, Labels
  <1>4. WorldInv' /\ NameImpliesId'
    BY Same DEF Inv, WorldInv, Known, NameImpliesId
  <1>5. ObjIsCopy' /\ ObjIsGuarded' /\ Recorded'
    BY DEF Inv, ObjIsCopy, ObjIsGuarded, Recorded, IsCurrent
  <1>6. FoundReplaces' /\ RecordsNew' /\ ReleasesLast'
    BY DEF FoundReplaces, RecordsNew, ReleasesLast
  <1>7. LatestIsCopy'
    BY <1>1, <1>2 DEF LatestIsCopy, IsCurrent, Inv, WorldInv, CopyOf, Behind, Exact
  <1> QED
    BY <1>3, <1>4, <1>5, <1>6, <1>7 DEF Inv

LEMMA AnnotateFacts ==
  ASSUME Inv, Annotate
  PROVE  /\ api # Gone /\ api' \in Copies /\ api' # Gone /\ Moves(api, api')
         /\ api'.id = api.id /\ api.id # None /\ api'.deleting = api.deleting
         /\ api'.finalizer = api.finalizer /\ api'.allowed = api.allowed
  <1>1. pc = "annotate" /\ Update(latest)
    BY DEF Annotate
  <1>2. latest \in Objects /\ latest # Gone /\ api \in Copies
    BY <1>1 DEF Inv, TypeOK, LatestIsCopy, Copies
  <1>3. /\ api # Gone /\ latest.version = api.version
        /\ api' \in Copies /\ Moves(api, api')
        /\ api' = Gone => api.deleting /\ ~latest.finalizer
        /\ api' # Gone => /\ api'.deleting = api.deleting
                          /\ api'.finalizer = latest.finalizer
                          /\ api'.allowed = api.allowed
                          /\ api'.id = api.id
    BY <1>1, <1>2, UpdateFacts
  <1>4. latest.finalizer = api.finalizer
    BY <1>1, <1>2, <1>3 DEF Inv, LatestIsCopy, IsCurrent
  <1>5. api.deleting => api.finalizer
    BY <1>3 DEF Inv, WorldInv, Guarded
  <1>6. api.id # None
    BY <1>1, <1>3 DEF Inv, Recorded
  <1> QED
    BY <1>3, <1>4, <1>5, <1>6

LEMMA AnnotateInv == ASSUME Inv, Annotate PROVE Inv'
  <1>1. Return /\ UNCHANGED <<seen, faults, github, mine>>
    BY DEF Annotate
  <1>2. TypeOK'
    BY <1>1, AnnotateFacts DEF Inv, TypeOK, Copies, Return, Labels
  <1>3. Known(api)' /\ Guarded(api)' /\ Grows /\ NameImpliesId'
    BY <1>1, AnnotateFacts, Same DEF Inv, WorldInv, Known, Guarded, Grows, NameImpliesId
  <1> QED
    BY <1>1, <1>2, <1>3, AnnotateFacts, ReturnKept

\* The error goes into the status, unless the copy is stale.
LEMMA ReportInv == ASSUME Inv, Report PROVE Inv'
  <1>1. pc = "report" /\ Return /\ UNCHANGED <<seen, faults, github, mine>>
    BY DEF Report
  <1>2. CASE \E sent \in Conditions(obj, "failure") : UpdateStatus(sent)
    <2>1. /\ api' \in Copies /\ api' # Gone /\ Moves(api, api')
          /\ api'.id = obj.id /\ api'.finalizer /\ NameImpliesId'
      BY <1>1, <1>2, StatusFacts
    <2>2. TypeOK'
      BY <1>1, <2>1 DEF Inv, TypeOK, Copies, Return, Labels
    <2>3. Grows /\ Guarded(api)' /\ Known(api)'
      BY <1>1, <2>1, Same DEF Grows, Guarded, Known, Inv, ObjIsCopy, WorldInv
    <2> QED
      BY <1>1, <2>1, <2>2, <2>3, ReturnKept
  <1>3. CASE UNCHANGED api
    <2>1. TypeOK'
      BY <1>1, <1>3 DEF Inv, TypeOK, Return, Labels
    <2> QED
      BY <1>1, <1>3, <2>1, Unchanged, ReturnKept
  <1> QED
    BY <1>2, <1>3 DEF Report

\* DELETE: afterwards what the copy records does not exist.
LEMMA DeleteRecorded ==
  ASSUME Inv, pc = "deleteExternal", DeleteBudget(DeletionTarget(obj))
  PROVE  GithubOK' /\ Grows /\ obj.id \notin Alive'
  <1>1. obj \in Objects /\ DeletionTarget(obj) # None
    BY DEF Inv, TypeOK, ObjIsCopy
  <1>2. DeletionTarget(obj) \in Ids
    BY <1>1 DEF Objects, DeletionTarget
  <1>3. GithubOK' /\ Grows /\ DeletionTarget(obj) \notin Alive'
    BY <1>2, DeleteFacts DEF Inv, TypeOK, GithubOK
  <1> QED
    BY <1>3, AbsentAssumption DEF DeletionTarget, Alive

LEMMA DeleteExternalInv == ASSUME Inv, DeleteExternal PROVE Inv'
  <1>1. /\ pc = "deleteExternal" /\ pc' = "removeFinalizer"
        /\ DeleteBudget(DeletionTarget(obj))
        /\ UNCHANGED <<api, seen, faults, obj, found, upToDate, latest>>
    BY DEF DeleteExternal
  <1>2. GithubOK' /\ Grows /\ obj.id \notin Alive'
    BY <1>1, DeleteRecorded
  <1>3. TypeOK'
    BY <1>1, <1>2 DEF Inv, TypeOK, GithubOK, Labels
  <1>4. WorldInv' /\ NameImpliesId'
    BY <1>1, <1>2 DEF Inv, WorldInv, Known, Grows, NameImpliesId
  <1>5. ObjIsCopy'
    BY <1>1 DEF Inv, ObjIsCopy
  <1>6. ObjIsGuarded' /\ FoundReplaces' /\ RecordsNew' /\ Recorded' /\ LatestIsCopy'
    BY <1>1 DEF ObjIsGuarded, FoundReplaces, RecordsNew, Recorded, LatestIsCopy
  <1>7. ReleasesLast'
    BY <1>1, <1>2 DEF ReleasesLast, IsCurrent, Inv, ObjIsCopy, Exact
  <1> QED
    BY <1>3, <1>4, <1>5, <1>6, <1>7 DEF Inv

\* The object goes with its finalizer.
LEMMA RemoveFinalizerFacts ==
  ASSUME Inv, RemoveFinalizer
  PROVE  IsCurrent(obj) /\ obj = api /\ api' = Gone
  <1> DEFINE sent == [obj EXCEPT !.finalizer = FALSE]
  <1>1. /\ pc = "removeFinalizer" /\ obj \in Objects /\ obj # Gone /\ obj.deleting
        /\ api \in Copies
    BY DEF RemoveFinalizer, Inv, TypeOK, ObjIsCopy, Copies
  <1>2. sent.version = obj.version /\ ~sent.finalizer
    BY <1>1 DEF Objects
  <1>3. FALSE \in BOOLEAN
    OBVIOUS
  <1>4. sent \in Objects
    BY <1>1, <1>3, Zenon DEF Objects
  <1>5. Update(sent)
    BY DEF RemoveFinalizer
  <1> HIDE DEF sent
  <1>6. /\ api # Gone /\ sent.version = api.version
        /\ api' # Gone => api'.finalizer = sent.finalizer /\ api'.deleting = api.deleting
        /\ api' \in Copies
    BY <1>1, <1>4, <1>5, UpdateFacts
  <1>7. IsCurrent(obj) /\ obj = api
    BY <1>1, <1>2, <1>6 DEF IsCurrent, Inv, ObjIsCopy, Exact
  <1>8. api' = Gone
    BY <1>1, <1>2, <1>5, <1>7 DEF Update, Stored, sent, Objects, Inv, WorldInv, Guarded
  <1> QED
    BY <1>7, <1>8

LEMMA RemoveFinalizerInv == ASSUME Inv, RemoveFinalizer PROVE Inv'
  <1>1. Return /\ UNCHANGED <<seen, faults, github, mine>> /\ api' = Gone
    BY RemoveFinalizerFacts DEF RemoveFinalizer
  <1>2. api # Gone
    BY RemoveFinalizerFacts DEF IsCurrent
  <1>3. TypeOK'
    BY <1>1 DEF Inv, TypeOK, Return, Labels
  <1>4. Moves(api, api') /\ Grows /\ Guarded(api)' /\ Known(api)' /\ NameImpliesId'
    BY <1>1, <1>2, Same DEF Moves, Grows, Guarded, Known, NameImpliesId
  <1> QED
    BY <1>1, <1>3, <1>4, ReturnKept

\* A call fails without effect, and Reconcile returns or reports it.
LEMMA FailureInv ==
  ASSUME Inv, UNCHANGED <<api, seen, github, mine>>, faults' \in 0 .. MaxFaults,
         \/ Return
         \/ Fail /\ pc \in {"list", "handle", "updateStatus", "refetch", "annotate"}
  PROVE  Inv'
  <1>1. TypeOK'
    BY DEF Inv, TypeOK, Return, Fail, Labels
  <1> QED
    BY <1>1, Unchanged, ReturnKept, FailKept

\* The call's effect stays although its answer is lost.
LEMMA AnswerLostInv == ASSUME Inv, AnswerLost PROVE Inv'
  <1>1. seen' = seen /\ faults' \in 0 .. MaxFaults
    BY AbsentAssumption DEF AnswerLost, Interfere, Inv, TypeOK
  <1>2. obj \in Copies /\ (pc # "idle" => obj \in Objects)
    BY DEF Inv, TypeOK, ObjIsCopy, Copies
  <1>3. CASE /\ pc = "handle" /\ api' = api
             /\ \/ \E i \in Ids : CreateBudget(i, obj.spec)
                \/ UpdateBudget(found, obj.spec)
             /\ Return \/ Fail
    <2>1. obj.spec \in BudgetValues
      BY <1>2, <1>3, BudgetAssumption DEF Objects
    <2>2. GithubOK' /\ Grows
      BY <1>3, <2>1, CreateFacts, PatchFacts DEF Inv, TypeOK, GithubOK
    <2>3. TypeOK'
      BY <1>1, <1>3, <2>2 DEF Inv, TypeOK, GithubOK, Return, Fail, Labels
    <2>4. Moves(api, api') /\ Guarded(api)' /\ Known(api)' /\ NameImpliesId'
      BY <1>3, <2>2 DEF Moves, Inv, WorldInv, Known, Grows, NameImpliesId
    <2> QED
      BY <1>1, <1>3, <2>2, <2>3, <2>4, ReturnKept, FailKept
  <1>4. CASE /\ pc = "deleteExternal" /\ DeleteBudget(DeletionTarget(obj)) /\ api' = api
             /\ Return
    <2>1. GithubOK' /\ Grows
      BY <1>4, DeleteRecorded
    <2>2. TypeOK'
      BY <1>1, <1>4, <2>1 DEF Inv, TypeOK, GithubOK, Return, Labels
    <2>3. Moves(api, api') /\ Guarded(api)' /\ Known(api)' /\ NameImpliesId'
      BY <1>4, <2>1 DEF Moves, Inv, WorldInv, Known, Grows, NameImpliesId
    <2> QED
      BY <1>1, <1>4, <2>1, <2>2, <2>3, ReturnKept
  <1>5. CASE /\ pc = "updateStatus" /\ UpdateStatus(obj) /\ UNCHANGED <<github, mine>>
             /\ Return \/ Fail
    <2>1. /\ api' \in Copies /\ api' # Gone /\ Moves(api, api')
          /\ api'.id = obj.id /\ api'.finalizer /\ NameImpliesId'
      BY <1>5, StatusFacts
    <2>2. TypeOK'
      BY <1>1, <1>5, <2>1 DEF Inv, TypeOK, Copies, Return, Fail, Labels
    <2>3. Grows /\ Guarded(api)' /\ Known(api)'
      BY <1>5, <2>1, Same DEF Grows, Guarded, Known, Inv, ObjIsCopy, WorldInv
    <2> QED
      BY <1>1, <1>5, <2>1, <2>2, <2>3, ReturnKept, FailKept
  <1> QED
    BY <1>3, <1>4, <1>5 DEF AnswerLost

\* The informer, the user and others in the enterprise.
LEMMA EnvironmentInv == ASSUME Inv, Environment, UNCHANGED locals PROVE Inv'
  <1>1. api \in Copies /\ (api # Gone => api \in Objects)
    BY DEF Inv, TypeOK, Copies
  <1>2. CASE Sync /\ UNCHANGED <<github, mine>>
    <2>1. TypeOK'
      BY <1>2 DEF Sync, Inv, TypeOK, locals
    <2>2. seen' = api /\ api' = api /\ UNCHANGED github
      BY <1>2 DEF Sync
    <2> QED
      BY <2>1, <2>2, Unchanged, LocalsKept
  <1>3. CASE UserEdits /\ UNCHANGED <<github, mine>>
    <2>1. TypeOK'
      <3>1. faults' \in 0 .. MaxFaults
        BY <1>3, AbsentAssumption DEF UserEdits, Interfere, Inv, TypeOK
      <3> QED
        BY <1>1, <1>3, <3>1, UserEditsFacts DEF UserEdits, Inv, TypeOK, locals, Copies
    <2>2. Guarded(api)' /\ Grows
      BY <1>1, <1>3, UserEditsFacts, Same DEF Guarded, Grows, Inv, WorldInv
    <2>3. seen' = seen
      BY <1>3 DEF UserEdits
    <2> QED
      BY <1>1, <1>3, <2>1, <2>2, <2>3, UserEditsFacts, LocalsKept
  <1>4. CASE UserDeletes /\ UNCHANGED <<github, mine>>
    <2>1. TypeOK'
      BY <1>1, <1>4, UserDeletesFacts DEF UserDeletes, Inv, TypeOK, locals, Copies
    <2>2. Guarded(api)' /\ Grows
      BY <1>1, <1>4, UserDeletesFacts, Same DEF Guarded, Grows, Inv, WorldInv
    <2>3. seen' = seen
      BY <1>4 DEF UserDeletes
    <2> QED
      BY <1>1, <1>4, <2>1, <2>2, <2>3, UserDeletesFacts, LocalsKept
  <1>5. CASE OthersCreate \/ OthersUpdate \/ OthersDelete
    <2>1. GithubOK' /\ Grows
      BY <1>5, OthersFacts DEF Inv, TypeOK, GithubOK
    <2>2. UNCHANGED <<api, seen, mine>> /\ faults' \in 0 .. MaxFaults
      BY <1>5, AbsentAssumption
         DEF OthersCreate, OthersUpdate, OthersDelete, Interfere, Inv, TypeOK
    <2>3. TypeOK'
      BY <2>1, <2>2 DEF Inv, TypeOK, GithubOK, locals
    <2>4. Moves(api, api') /\ Guarded(api)'
      BY <2>2 DEF Moves, Inv, WorldInv
    <2> QED
      BY <2>1, <2>2, <2>3, <2>4, LocalsKept
  <1> QED
    BY <1>2, <1>3, <1>4, <1>5 DEF Environment

LEMMA StepInv == Inv /\ [Next]_vars => Inv'
  <1> SUFFICES ASSUME Inv, [Next]_vars PROVE Inv'
    OBVIOUS
  <1>1. CASE UNCHANGED vars
    <2>1. TypeOK' /\ UNCHANGED locals /\ UNCHANGED <<api, seen, github>>
      BY <1>1 DEF vars, env, locals, Inv, TypeOK
    <2> QED
      BY <2>1, Unchanged, LocalsKept
  <1>2. CASE Abort \/ MayNotCreate \/ UpdateNotFound \/ Refused
    <2>1. UNCHANGED <<api, seen, github, mine>> /\ faults' \in 0 .. MaxFaults
      BY <1>2, AbsentAssumption
         DEF Abort, MayNotCreate, UpdateNotFound, Refused, Interfere, env, Inv, TypeOK
    <2>2. \/ Return
          \/ Fail /\ pc \in {"list", "handle", "updateStatus", "refetch", "annotate"}
      BY <1>2 DEF Abort, MayNotCreate, UpdateNotFound, Refused
    <2> QED
      BY <2>1, <2>2, FailureInv
  <1>3. CASE Environment /\ UNCHANGED locals
    BY <1>3, EnvironmentInv
  <1>4. CASE AnswerLost
    BY <1>4, AnswerLostInv
  <1>5. CASE Controller
    BY <1>2, <1>5, ReconcileInv, EnsureFinalizerInv, ListInv, HandleInv, StatusUpdateInv,
       RefetchInv, AnnotateInv, ReportInv, DeleteExternalInv, RemoveFinalizerInv
       DEF Controller
  <1> QED
    BY <1>1, <1>2, <1>3, <1>4, <1>5 DEF Next

LEMMA Invariance == Spec => []Inv
  BY InitInv, StepInv, PTL DEF Spec

\* The type invariant of the namespaced Budget reconciler and of the world it
\* works on (budget.go:62-188, 307-359).
THEOREM TypeCorrect == Spec => []TypeOK
  <1>1. Inv => TypeOK
    BY DEF Inv
  <1> QED
    BY <1>1, Invariance, PTL

\* The annotation never names a budget before the status records one, so that the
\* deletion, which falls back on the name, never goes for a budget that only the
\* annotation knows (budget.go:123-148, 328-333).
THEOREM NameFollowsId == Spec => []NameImpliesId
  <1>1. Inv => NameImpliesId
    BY DEF Inv
  <1> QED
    BY <1>1, Invariance, PTL
-----------------------------------------------------------------------------
(* The refinement.                                                         *)

\* A step that leaves the object alone is one of GitHub, or nothing.
LEMMA GithubRefines ==
  ASSUME GithubOK', Grows, UNCHANGED api
  PROVE  Promise!ExternalChange
  <1>1. Born' \subseteq Ids
    BY DEF Born
  <1>2. UNCHANGED <<Stage, RecordedId, MayDelete>>
    BY DEF Stage, RecordedId, MayDelete, allows
  <1> QED
    BY <1>1, <1>2 DEF Promise!ExternalChange, Grows

\* A write that changes neither what is recorded nor what is allowed is nothing.
LEMMA WriteRefines ==
  ASSUME api # Gone, api' # Gone, api'.deleting = api.deleting, api'.id = api.id,
         api'.allowed = api.allowed, UNCHANGED github
  PROVE  UNCHANGED Promise!vars
  <1>1. UNCHANGED <<Born, Alive>>
    BY Same
  <1>2. UNCHANGED <<Stage, RecordedId, MayDelete>>
    BY DEF Stage, RecordedId, MayDelete, allows
  <1> QED
    BY <1>1, <1>2 DEF Promise!vars

\* The status update records an identifier that may be recorded.
LEMMA StatusRefines ==
  ASSUME Inv, pc \in {"updateStatus", "report"}, UNCHANGED github,
         NEW sent \in {obj} \cup Conditions(obj, "failure"), UpdateStatus(sent)
  PROVE  [Promise!Next]_(Promise!vars)
  <1>1. /\ api # Gone /\ IsCurrent(obj)
        /\ api' # Gone /\ api'.id = obj.id /\ api'.deleting = api.deleting
        /\ api'.allowed = api.allowed
    BY StatusFacts DEF IsCurrent
  <1>2. CASE obj.id = api.id
    BY <1>1, <1>2, WriteRefines
  <1>3. CASE obj.id # api.id
    <2>1. obj.id \in Born /\ api.id \notin Alive
      BY <1>1, <1>3 DEF Inv, RecordsNew
    <2>2. RecordedId = api.id /\ RecordedId' = obj.id
      BY <1>1 DEF RecordedId
    <2>3. Stage # "gone" /\ UNCHANGED <<Stage, MayDelete>>
      BY <1>1 DEF Stage, MayDelete, allows
    <2>4. UNCHANGED <<Born, Alive>>
      BY Same
    <2>5. Promise!Record
      BY <2>1, <2>2, <2>3, <2>4 DEF Promise!Record
    <2> QED
      BY <2>5 DEF Promise!Next
  <1> QED
    BY <1>2, <1>3

\* The object is released, by the reconciler or for want of a finalizer.
LEMMA ReleaseRefines ==
  ASSUME api # Gone, api' = Gone, UNCHANGED github, MayDelete => api.id \notin Alive
  PROVE  Promise!Release
  <1>1. Stage # "gone" /\ Stage' = "gone"
    BY DEF Stage
  <1>2. RecordedId = api.id /\ RecordedId' = None
    BY DEF RecordedId
  <1>3. MayDelete' \in BOOLEAN
    BY Zenon DEF MayDelete
  <1>4. UNCHANGED <<Born, Alive>>
    BY Same
  <1> QED
    BY <1>1, <1>2, <1>3, <1>4 DEF Promise!Release

LEMMA UserRefines ==
  ASSUME Inv, UserEdits \/ UserDeletes, UNCHANGED github
  PROVE  [Promise!Next]_(Promise!vars)
  <1>1. api \in Copies
    BY DEF Inv, TypeOK, Copies
  <1>2. UNCHANGED <<Born, Alive>>
    BY Same
  <1>3. CASE UserEdits
    <2>1. /\ api # Gone /\ api' # Gone
          /\ api'.deleting = api.deleting /\ api'.id = api.id
      BY <1>1, <1>3, UserEditsFacts DEF Inv, WorldInv, Guarded
    <2>2. Stage # "gone" /\ UNCHANGED <<Stage, RecordedId>>
      BY <2>1 DEF Stage, RecordedId
    <2>3. MayDelete' \in BOOLEAN
      BY Zenon DEF MayDelete
    <2>4. Promise!Allow
      BY <1>2, <2>2, <2>3 DEF Promise!Allow
    <2> QED
      BY <2>4 DEF Promise!Next
  <1>4. CASE UserDeletes /\ api' = Gone
    <2>1. api # Gone /\ api.id = None
      BY <1>1, <1>4, UserDeletesFacts DEF Inv, WorldInv, Guarded
    <2>2. api.id \notin Alive
      BY <2>1, AbsentAssumption DEF Alive
    <2>3. Promise!Release
      BY <1>4, <2>1, <2>2, ReleaseRefines
    <2> QED
      BY <2>3 DEF Promise!Next
  <1>5. CASE UserDeletes /\ api' # Gone
    <2>1. /\ api # Gone /\ ~api.deleting /\ api'.deleting
          /\ api'.id = api.id /\ api'.allowed = api.allowed
      BY <1>1, <1>5, UserDeletesFacts
    <2>2. Stage = "present" /\ Stage' = "deleting"
      BY <1>5, <2>1 DEF Stage
    <2>3. UNCHANGED <<RecordedId, MayDelete>>
      BY <1>5, <2>1 DEF RecordedId, MayDelete, allows
    <2>4. Promise!Delete
      BY <1>2, <2>2, <2>3 DEF Promise!Delete
    <2> QED
      BY <2>4 DEF Promise!Next
  <1> QED
    BY <1>3, <1>4, <1>5

LEMMA InitRefines == Init => Promise!Init
  <1> SUFFICES ASSUME Init PROVE Promise!Init
    OBVIOUS
  <1>1. api # Gone /\ api.id = None /\ ~api.deleting
    BY NewObjectFacts, AbsentAssumption DEF Init
  <1>2. Stage = "present" /\ RecordedId = None
    BY <1>1 DEF Stage, RecordedId
  <1>3. MayDelete \in BOOLEAN
    BY Zenon DEF MayDelete
  <1>4. Born \subseteq Ids /\ Alive \subseteq Born
    BY InitInv, BornAlive DEF Inv, TypeOK, GithubOK
  <1> QED
    BY <1>2, <1>3, <1>4 DEF Promise!Init

LEMMA StepRefines == Inv /\ Inv' /\ [Next]_vars => [Promise!Next]_(Promise!vars)
  <1> SUFFICES ASSUME Inv, Inv', [Next]_vars PROVE [Promise!Next]_(Promise!vars)
    OBVIOUS
  <1>1. ASSUME UNCHANGED <<api, github>> PROVE [Promise!Next]_(Promise!vars)
    <2>1. Grows /\ GithubOK'
      BY <1>1, Same DEF Grows, Inv, TypeOK, GithubOK
    <2> QED
      BY <1>1, <2>1, GithubRefines DEF Promise!Next
  <1>2. ASSUME GithubOK', Grows, UNCHANGED api PROVE [Promise!Next]_(Promise!vars)
    BY <1>2, GithubRefines DEF Promise!Next
  <1>3. CASE \/ UNCHANGED vars \/ Reconcile \/ List \/ MayNotCreate \/ UpdateNotFound
             \/ Keep \/ Refetch \/ Refused \/ Abort
             \/ Sync /\ UNCHANGED github
    <2>1. UNCHANGED <<api, github>>
      BY <1>3 DEF vars, env, Reconcile, List, MayNotCreate, UpdateNotFound, Keep,
         Refetch, Refused, Abort, Sync
    <2> QED
      BY <1>1, <2>1
  <1>4. ASSUME pc = "handle", UNCHANGED api,
               (\E i \in Ids : CreateBudget(i, obj.spec)) \/ UpdateBudget(found, obj.spec)
        PROVE  [Promise!Next]_(Promise!vars)
    <2>1. obj.spec \in BudgetValues
      BY <1>4, BudgetAssumption DEF Inv, TypeOK, ObjIsCopy, Objects
    <2>2. GithubOK' /\ Grows
      BY <1>4, <2>1, CreateFacts, PatchFacts DEF Inv, TypeOK, GithubOK
    <2> QED
      BY <1>2, <1>4, <2>2
  <1>5. ASSUME pc = "deleteExternal", UNCHANGED api, DeleteBudget(DeletionTarget(obj))
        PROVE  [Promise!Next]_(Promise!vars)
    BY <1>2, <1>5, DeleteRecorded
  <1>6. CASE Create \/ UpdateExternal \/ DeleteExternal
    BY <1>4, <1>5, <1>6 DEF Create, UpdateExternal, DeleteExternal
  <1>7. CASE OthersCreate \/ OthersUpdate \/ OthersDelete
    <2>1. UNCHANGED api
      BY <1>7 DEF OthersCreate, OthersUpdate, OthersDelete
    <2> QED
      BY <1>2, <1>7, <2>1, OthersFacts DEF Inv, TypeOK, GithubOK
  <1>8. CASE ensureFinalizer
    <2>1. api # Gone /\ api' # Gone /\ api'.deleting = api.deleting /\ api'.id = api.id
          /\ api'.allowed = api.allowed
      <3> DEFINE sent == [obj EXCEPT !.finalizer = TRUE]
      <3>1. obj \in Objects /\ api \in Copies
        BY <1>8 DEF ensureFinalizer, Inv, TypeOK, ObjIsCopy, Copies
      <3>2. sent \in Objects /\ sent.finalizer
        BY <3>1 DEF Objects
      <3>3. Update(sent)
        BY <1>8 DEF ensureFinalizer
      <3> HIDE DEF sent
      <3> QED
        BY <3>1, <3>2, <3>3, UpdateFacts
    <2> QED
      BY <1>8, <2>1, WriteRefines DEF ensureFinalizer
  <1>9. CASE Annotate
    BY <1>9, AnnotateFacts, WriteRefines DEF Annotate
  <1>10. CASE StatusUpdate \/ Report
    BY <1>1, <1>10, StatusRefines DEF StatusUpdate, Report
  <1>11. CASE RemoveFinalizer
    <2>1. api # Gone /\ api' = Gone /\ UNCHANGED github
      BY <1>11, RemoveFinalizerFacts DEF RemoveFinalizer, IsCurrent
    <2>2. MayDelete => api.id \notin Alive
      BY <1>11, RemoveFinalizerFacts DEF RemoveFinalizer, Inv, ReleasesLast
    <2> QED
      BY <2>1, <2>2, ReleaseRefines DEF Promise!Next
  <1>12. CASE AnswerLost
    BY <1>4, <1>5, <1>12, StatusRefines DEF AnswerLost
  <1>13. CASE (UserEdits \/ UserDeletes) /\ UNCHANGED github
    BY <1>13, UserRefines
  <1>14. CASE Environment
    BY <1>3, <1>7, <1>13, <1>14 DEF Environment
  <1>15. CASE Controller
    BY <1>3, <1>6, <1>8, <1>9, <1>10, <1>11, <1>15 DEF Controller
  <1> QED
    BY <1>3, <1>12, <1>14, <1>15 DEF Next

\* Whatever stale copies, lost answers, crashes, reported errors, users and others
\* do: a recorded identifier is neither forgotten nor replaced while its budget
\* exists, and the object is released only after it, as far as deleting is allowed
\* (budget.go:109-188, 320-359).
THEOREM Refinement == Spec => ImplementsLifecycle
  BY InitRefines, StepRefines, Invariance, PTL DEF Spec, ImplementsLifecycle, Promise!Spec
-----------------------------------------------------------------------------
(* No duplicates, for any number of identities in the specs.               *)

\* Nothing was found, so no budget of this controller's has the identity that a
\* POST of the same copy asks for, whatever others did since the list.
FoundNothing ==
    pc = "handle" /\ found = None =>
        \A i \in mine : Live(i) => github[i].key # obj.spec.key

UniqueInv == NoDuplicates /\ FoundNothing /\ mine \subseteq Born

LEMMA KeptUnique ==
  ASSUME Inv, UniqueInv, Grows, MineKept,
         pc' # "handle" \/ UNCHANGED <<pc, found, obj>>
  PROVE  UniqueInv'
  <1>1. NoDuplicates'
    BY DEF UniqueInv, NoDuplicates, MineKept
  <1>2. FoundNothing'
    BY DEF UniqueInv, FoundNothing, MineKept
  <1>3. (mine \subseteq Born)'
    BY DEF UniqueInv, MineKept, Grows
  <1> QED
    BY <1>1, <1>2, <1>3 DEF UniqueInv

\* A POST after a search that found nothing.
LEMMA CreateUnique ==
  ASSUME Inv, UniqueInv, pc = "handle", found = None, pc' # "handle",
         NEW i \in Ids, CreateBudget(i, obj.spec)
  PROVE  UniqueInv'
  <1>1. obj.spec \in BudgetValues /\ GithubOK
    BY BudgetAssumption DEF Inv, TypeOK, ObjIsCopy, Objects, GithubOK
  <1>2. Grows /\ i \in Born' /\ mine' = mine \cup {i}
    BY <1>1, CreateFacts DEF CreateBudget
  <1>3. github'[i] = obj.spec /\ \A j \in Ids \ {i} : github'[j] = github[j]
    BY <1>1 DEF CreateBudget, GithubOK
  <1>4. ASSUME NEW j \in mine, Live(j)', j # i PROVE github'[j].key # github'[i].key
    BY <1>1, <1>3, <1>4 DEF UniqueInv, FoundNothing, Live, GithubOK
  <1>5. NoDuplicates'
    <2>1. ASSUME NEW j \in mine, NEW k \in mine, j # i, k # i, Live(j)', Live(k)',
                 github'[j].key = github'[k].key
          PROVE  j = k
      BY <1>1, <1>3, <2>1 DEF UniqueInv, NoDuplicates, Live, GithubOK
    <2> QED
      BY <1>2, <1>4, <2>1 DEF NoDuplicates
  <1>6. FoundNothing'
    BY DEF FoundNothing
  <1> QED
    BY <1>2, <1>5, <1>6 DEF UniqueInv, Grows

LEMMA StepUnique == Inv /\ UniqueInv /\ [Next]_vars => UniqueInv'
  <1> SUFFICES ASSUME Inv, UniqueInv, [Next]_vars PROVE UniqueInv'
    OBVIOUS
  <1>1. GithubOK
    BY DEF Inv, TypeOK, GithubOK
  <1>2. ASSUME UNCHANGED <<github, mine>>, pc' # "handle" \/ UNCHANGED <<pc, found, obj>>
        PROVE  UniqueInv'
    <2>1. Grows /\ MineKept
      BY <1>2, Same DEF Grows, MineKept, Live
    <2> QED
      BY <1>2, <2>1, KeptUnique
  <1>3. ASSUME pc = "handle", found = None, pc' # "handle",
               \E i \in Ids : CreateBudget(i, obj.spec)
        PROVE  UniqueInv'
    BY <1>3, CreateUnique
  <1>4. ASSUME pc = "handle", pc' # "handle", UpdateBudget(found, obj.spec)
        PROVE  UniqueInv'
    <2>1. obj.spec \in BudgetValues
      BY <1>4, BudgetAssumption DEF Inv, TypeOK, ObjIsCopy, Objects
    <2> QED
      BY <1>1, <1>4, <2>1, PatchFacts, PatchKeeps, KeptUnique
  <1>5. ASSUME pc = "deleteExternal", pc' # "handle", DeleteBudget(DeletionTarget(obj))
        PROVE  UniqueInv'
    <2>1. DeletionTarget(obj) \in Ids
      BY <1>5 DEF Inv, TypeOK, ObjIsCopy, Objects, DeletionTarget
    <2> QED
      BY <1>1, <1>5, <2>1, DeleteFacts, DeleteKeeps, KeptUnique
  <1>6. CASE List
    <2>1. obj \in Objects /\ UNCHANGED <<obj, github, mine>> /\ found' = findBudget(obj)
      BY <1>6 DEF List, env, Inv, TypeOK, ObjIsCopy
    <2>2. found' = None => \A i \in Ids : Live(i) => github[i].key # obj.spec.key
      BY <2>1, FindBudget
    <2>3. FoundNothing'
      BY <2>1, <2>2 DEF FoundNothing, Live
    <2>4. NoDuplicates' /\ (mine \subseteq Born)'
      BY <2>1, Same DEF UniqueInv, NoDuplicates, Live
    <2> QED
      BY <2>3, <2>4 DEF UniqueInv
  <1>7. CASE Create
    BY <1>3, <1>7 DEF Create, Record
  <1>8. CASE UpdateExternal
    BY <1>4, <1>8 DEF UpdateExternal, Record
  <1>9. CASE DeleteExternal
    BY <1>5, <1>9 DEF DeleteExternal
  <1>10. CASE \/ Reconcile \/ ensureFinalizer \/ MayNotCreate \/ UpdateNotFound \/ Keep
              \/ StatusUpdate \/ Refetch \/ Annotate \/ Report \/ RemoveFinalizer
              \/ Refused \/ Abort \/ UNCHANGED vars
    BY <1>2, <1>10 DEF Reconcile, ensureFinalizer, MayNotCreate, UpdateNotFound, Keep,
       Record, StatusUpdate, Refetch, Annotate, Report, RemoveFinalizer, Refused, Abort,
       Return, Fail, env, locals, vars
  <1>11. CASE AnswerLost
    <2>1. pc' # "handle"
      BY <1>11 DEF AnswerLost, Return, Fail
    <2> QED
      BY <1>2, <1>3, <1>4, <1>5, <1>11, <2>1 DEF AnswerLost
  <1>12. CASE Environment /\ UNCHANGED locals
    <2>1. UNCHANGED <<pc, found, obj>>
      BY <1>12 DEF locals
    <2>2. CASE (Sync \/ UserEdits \/ UserDeletes) /\ UNCHANGED <<github, mine>>
      BY <1>2, <2>1, <2>2
    <2>3. CASE OthersCreate \/ OthersUpdate \/ OthersDelete
      BY <1>1, <2>1, <2>3, OthersFacts, OthersKeep, KeptUnique DEF UniqueInv
    <2> QED
      BY <1>12, <2>2, <2>3 DEF Environment
  <1> QED
    BY <1>6, <1>7, <1>8, <1>9, <1>10, <1>11, <1>12 DEF Next, Controller

\* The namespaced reconciler never has two budgets of its own with one identity at
\* once: it searches and creates by one copy, and no answer that is lost, no other
\* user and no edit of the spec comes in between (budget.go:109-188).
THEOREM NeverDuplicates == Spec => []NoDuplicates
  <1>1. Init => UniqueInv
    BY DEF Init, UniqueInv, NoDuplicates, FoundNothing
  <1>2. UniqueInv => NoDuplicates
    BY DEF UniqueInv
  <1> QED
    BY <1>1, <1>2, StepUnique, Invariance, PTL DEF Spec
-----------------------------------------------------------------------------
(* The management policies.                                                *)

\* What is about to be deleted may be.
DeletesAllowed == pc = "deleteExternal" => allows(obj, "Delete")

LEMMA StepDeletesAllowed == DeletesAllowed /\ [Next]_vars => DeletesAllowed'
  <1> SUFFICES ASSUME DeletesAllowed, [Next]_vars PROVE DeletesAllowed'
    OBVIOUS
  <1>1. CASE Reconcile
    BY <1>1 DEF Reconcile, DeletesAllowed
  <1>2. CASE UNCHANGED <<pc, obj>> \/ pc' # "deleteExternal"
    BY <1>2 DEF DeletesAllowed
  <1>3. CASE ~Reconcile
    BY <1>2, <1>3 DEF Next, Controller, vars, locals, Return, Fail, Record,
       ensureFinalizer, List, Create, MayNotCreate, UpdateExternal, UpdateNotFound, Keep,
       StatusUpdate, Refetch, Annotate, Report, DeleteExternal, RemoveFinalizer, Refused,
       Abort, AnswerLost
  <1> QED
    BY <1>1, <1>3

LEMMA StepPermitted ==
  Inv /\ DeletesAllowed /\ [Next]_vars =>
      [obj # Gone /\ locals' # locals => Permitted(obj)]_vars
  <1> SUFFICES ASSUME Inv, DeletesAllowed, Next, locals' # locals PROVE Permitted(obj)
    OBVIOUS
  <1>1. GithubOK
    BY DEF Inv, TypeOK, GithubOK
  <1>2. ASSUME UNCHANGED github PROVE Permitted(obj)
    BY <1>2, NothingPermitted
  <1>3. ASSUME allows(obj, "Create"), \E i \in Ids : CreateBudget(i, obj.spec)
        PROVE  Permitted(obj)
    BY <1>1, <1>3, CreatePermitted
  <1>4. ASSUME pc = "handle", allows(obj, "Update"), UpdateBudget(found, obj.spec)
        PROVE  Permitted(obj)
    <2>1. obj.spec \in BudgetValues
      BY <1>4, BudgetAssumption DEF Inv, TypeOK, ObjIsCopy, Objects
    <2> QED
      BY <1>1, <1>4, <2>1, UpdatePermitted
  <1>5. ASSUME pc = "deleteExternal", DeleteBudget(DeletionTarget(obj)) PROVE Permitted(obj)
    <2>1. DeletionTarget(obj) \in Ids
      BY <1>5 DEF Inv, TypeOK, ObjIsCopy, Objects, DeletionTarget
    <2> QED
      BY <1>1, <1>5, <2>1, DeletePermitted DEF DeletesAllowed
  <1>6. CASE Create
    BY <1>3, <1>6 DEF Create
  <1>7. CASE UpdateExternal
    BY <1>4, <1>7 DEF UpdateExternal, MustUpdate
  <1>8. CASE DeleteExternal
    BY <1>5, <1>8 DEF DeleteExternal
  <1>9. CASE AnswerLost
    BY <1>2, <1>3, <1>4, <1>5, <1>9 DEF AnswerLost, MustUpdate
  <1>10. CASE \/ Reconcile \/ ensureFinalizer \/ List \/ MayNotCreate \/ UpdateNotFound \/ Keep
              \/ StatusUpdate \/ Refetch \/ Annotate \/ Report \/ RemoveFinalizer
              \/ Refused \/ Abort
    BY <1>2, <1>10 DEF Reconcile, ensureFinalizer, List, MayNotCreate, UpdateNotFound, Keep,
       StatusUpdate, Refetch, Annotate, Report, RemoveFinalizer, Refused, Abort, env
  <1> QED
    BY <1>6, <1>7, <1>8, <1>9, <1>10 DEF Next, Controller

\* A budget is created, changed or deleted only if the policies of the copy that
\* Reconcile works on say so, also when the answer is lost
\* (budget.go:153-172, 320-327, 361-372).
THEOREM PoliciesHold == Spec => PoliciesRespected
  <1>1. Init => DeletesAllowed
    BY DEF Init, DeletesAllowed
  <1> QED
    BY <1>1, StepDeletesAllowed, StepPermitted, Invariance, PTL
       DEF Spec, PoliciesRespected
=============================================================================
