--------------------------- MODULE ApiServerProofs --------------------------
(***************************************************************************)
(* What a write to the API server does to the stored object, and what a    *)
(* copy of the object read before still says about it.                     *)
(***************************************************************************)
EXTENDS ApiServer, WellFoundedInduction, TLAPS

Copies == Objects \cup {Gone}

\* A copy is never newer than the stored object.
Behind(c, o) == c # Gone /\ o # Gone => c.version <= o.version

\* A copy with the stored version is the stored object.
Exact(c, o) == c # Gone /\ o # Gone /\ c.version = o.version => c = o

CopyOf(c, o) == Behind(c, o) /\ Exact(c, o)

\* A copy has the version of the stored object.
IsCurrent(c) == c # Gone /\ api # Gone /\ c.version = api.version

\* The stored object only changes together with its version, and never returns.
Moves(o, n) ==
    \/ n = o
    \/ o # Gone /\ n = Gone
    \/ o # Gone /\ n # Gone /\ n.version = o.version + 1

\* An object that is being deleted, or records an identifier, has the finalizer.
Guarded(o) == o # Gone /\ (o.deleting \/ o.id # None) => o.finalizer
-----------------------------------------------------------------------------
\* A set of numbers that is not empty has a least element: what the searches that
\* take the first match rely on.
LEMMA LeastElement ==
  ASSUME NEW S \in SUBSET Nat, S # {}
  PROVE  \E i \in S : \A j \in S : i <= j
  <1>1. PICK i \in S : \A j \in S : <<j, i>> \notin OpToRel(<, Nat)
    BY WFMin, NatLessThanWellFounded, Zenon
  <1>2. ASSUME NEW j \in S PROVE i <= j
    <2>1. i \in Nat /\ j \in Nat
      OBVIOUS
    <2>2. ~(j < i)
      BY <1>1, <2>1 DEF OpToRel
    <2> QED
      BY <2>1, <2>2
  <1> QED
    BY <1>2

\* An object that was just applied is one, with nothing recorded.
LEMMA NewObjectFacts ==
  ASSUME NEW s \in Specs, NEW p \in Policies
  PROVE  /\ NewObject(s, p) \in Objects
         /\ NewObject(s, p).id = None
         /\ ~NewObject(s, p).deleting
  <1>1. /\ 1 \in Nat /\ FALSE \in BOOLEAN /\ None \in Ids \cup {None} /\ Unshown \in Shown
        /\ "none" \in Reports /\ 0 \in 0 .. MaxTransitions
    BY AbsentAssumption DEF Reports
  <1>2. NewObject(s, p) \in Objects
    BY <1>1, Zenon DEF NewObject, Objects
  <1> QED
    BY <1>2 DEF NewObject

\* A copy stays one, and while its version is current nothing has changed.
LEMMA CopyKept ==
  ASSUME NEW c \in Copies, NEW o \in Copies, NEW n \in Copies,
         Behind(c, o), Moves(o, n)
  PROVE  /\ Behind(c, n)
         /\ Exact(c, o) => Exact(c, n)
         /\ c # Gone /\ n # Gone /\ c.version = n.version => n = o
  <1>1. \A x \in Copies : x # Gone => x.version \in Nat
    BY DEF Copies, Objects
  <1> QED
    BY <1>1 DEF Behind, Exact, Moves

\* The stored object after a write: unchanged, gone, or the next version.
LEMMA StoredFacts ==
  ASSUME api \in Objects, NEW new \in Objects
  PROVE  /\ Stored(new) \in Copies
         /\ Moves(api, Stored(new))
         /\ Stored(new) = Gone => new.deleting /\ ~new.finalizer
         /\ Stored(new) # Gone =>
               /\ Stored(new).deleting = new.deleting
               /\ Stored(new).finalizer = new.finalizer
               /\ Stored(new).name = new.name
               /\ Stored(new).spec = new.spec
               /\ Stored(new).allowed = new.allowed
               /\ Stored(new).id = new.id
               /\ Stored(new).deleting => Stored(new).finalizer \/ new = api
  <1>1. CASE new = api
    BY <1>1, AbsentAssumption DEF Stored, Copies, Moves
  <1>2. CASE new # api /\ new.deleting /\ ~new.finalizer
    BY <1>2, AbsentAssumption DEF Stored, Copies, Moves
  <1>3. CASE new # api /\ ~(new.deleting /\ ~new.finalizer)
    <2>1. Stored(new) = [new EXCEPT !.version = api.version + 1]
      BY <1>3 DEF Stored
    <2>2. api.version + 1 \in Nat
      BY DEF Objects
    <2>3. Stored(new) \in Objects /\ Stored(new).version = api.version + 1
      BY <2>1, <2>2 DEF Objects
    <2>4. /\ Stored(new).deleting = new.deleting
          /\ Stored(new).finalizer = new.finalizer
          /\ Stored(new).name = new.name
          /\ Stored(new).spec = new.spec
          /\ Stored(new).allowed = new.allowed
          /\ Stored(new).id = new.id
      BY <2>1, <2>2 DEF Objects
    <2> QED
      BY <1>3, <2>3, <2>4, AbsentAssumption DEF Copies, Moves
  <1> QED
    BY <1>1, <1>2, <1>3

\* Update writes finalizers and annotations.
LEMMA UpdateFacts ==
  ASSUME api \in Copies, NEW sent \in Objects, Update(sent)
  PROVE  /\ api \in Objects /\ api # Gone /\ sent.version = api.version
         /\ api' \in Copies /\ Moves(api, api')
         /\ api' = Gone => api.deleting /\ ~sent.finalizer
         /\ api' # Gone =>
               /\ api'.deleting = api.deleting
               /\ api'.finalizer = sent.finalizer
               /\ api'.name = sent.name
               /\ api'.spec = api.spec
               /\ api'.allowed = api.allowed
               /\ api'.id = api.id
  <1>1. api \in Objects /\ api # Gone /\ sent.version = api.version
    BY AbsentAssumption DEF Update, Current, Copies
  <1> DEFINE new == [api EXCEPT !.finalizer = sent.finalizer, !.name = sent.name]
  <1>2. /\ new \in Objects
        /\ new.deleting = api.deleting
        /\ new.finalizer = sent.finalizer
        /\ new.name = sent.name
        /\ new.spec = api.spec
        /\ new.allowed = api.allowed
        /\ new.id = api.id
    BY <1>1 DEF Objects
  <1>3. api' = Stored(new)
    BY DEF Update
  <1> HIDE DEF new
  <1> QED
    BY <1>1, <1>2, <1>3, StoredFacts

\* Conditions are all that a transition changes.
LEMMA TransitionFacts ==
  ASSUME NEW o \in Objects, NEW r \in Reports, NEW sent \in {Transition(o, r), SetConditions(o, r)}
  PROVE  /\ sent \in Objects
         /\ sent.version = o.version /\ sent.deleting = o.deleting
         /\ sent.finalizer = o.finalizer /\ sent.name = o.name
         /\ sent.spec = o.spec /\ sent.allowed = o.allowed
         /\ sent.id = o.id /\ sent.shown = o.shown
  <1> DEFINE new == [o EXCEPT !.report = r, !.since = @ + 1]
  <1>1. sent = o \/ (o.since # MaxTransitions /\ sent = new)
    BY DEF Transition, SetConditions
  <1>2. o.since \in 0 .. MaxTransitions
    BY DEF Objects
  <1>3. ASSUME o.since # MaxTransitions PROVE o.since + 1 \in 0 .. MaxTransitions
    BY <1>2, <1>3, AbsentAssumption
  <1>4. ASSUME o.since # MaxTransitions PROVE new \in Objects
    BY <1>3, <1>4 DEF Objects
  <1>5. /\ new.version = o.version /\ new.deleting = o.deleting
        /\ new.finalizer = o.finalizer /\ new.name = o.name
        /\ new.spec = o.spec /\ new.allowed = o.allowed
        /\ new.id = o.id /\ new.shown = o.shown
    BY DEF Objects
  <1> QED
    BY <1>1, <1>4, <1>5

LEMMA ConditionsFacts ==
  ASSUME NEW o \in Objects, NEW r \in Reports, NEW sent \in Conditions(o, r)
  PROVE  /\ sent \in Objects
         /\ sent.version = o.version /\ sent.id = o.id
  <1>1. sent \in {Transition(o, r), SetConditions(o, r)}
    BY DEF Conditions
  <1> QED
    BY <1>1, TransitionFacts

\* Update of the status subresource.
LEMMA UpdateStatusFacts ==
  ASSUME api \in Copies, NEW sent \in Objects, UpdateStatus(sent)
  PROVE  /\ api \in Objects /\ api # Gone /\ sent.version = api.version
         /\ api' \in Copies /\ Moves(api, api')
         /\ api' = Gone => api.deleting /\ ~api.finalizer
         /\ api' # Gone =>
               /\ api'.deleting = api.deleting
               /\ api'.finalizer = api.finalizer
               /\ api'.name = api.name
               /\ api'.spec = api.spec
               /\ api'.allowed = api.allowed
               /\ api'.id = sent.id
  <1>1. api \in Objects /\ api # Gone /\ sent.version = api.version
    BY AbsentAssumption DEF UpdateStatus, Current, Copies
  <1> DEFINE new == [api EXCEPT !.id = sent.id, !.shown = sent.shown,
                                !.report = sent.report, !.since = sent.since]
  <1>2. /\ new \in Objects
        /\ new.deleting = api.deleting
        /\ new.finalizer = api.finalizer
        /\ new.name = api.name
        /\ new.spec = api.spec
        /\ new.allowed = api.allowed
        /\ new.id = sent.id
    BY <1>1 DEF Objects
  <1>3. api' = Stored(new)
    BY DEF UpdateStatus
  <1> HIDE DEF new
  <1> QED
    BY <1>1, <1>2, <1>3, StoredFacts

\* The user changes what is wanted or allowed, and nothing else.
LEMMA UserEditsFacts ==
  ASSUME api \in Copies, UserEdits
  PROVE  /\ api \in Objects /\ api # Gone
         /\ api' \in Copies /\ Moves(api, api')
         /\ api' = Gone => api.deleting /\ ~api.finalizer
         /\ api' # Gone =>
               /\ api'.deleting = api.deleting
               /\ api'.finalizer = api.finalizer
               /\ api'.name = api.name
               /\ api'.id = api.id
  <1>1. api \in Objects /\ api # Gone
    BY AbsentAssumption DEF UserEdits, Copies
  <1>2. ASSUME NEW s \in Specs, api' = Stored([api EXCEPT !.spec = s])
        PROVE  /\ api' \in Copies /\ Moves(api, api')
               /\ api' = Gone => api.deleting /\ ~api.finalizer
               /\ api' # Gone => /\ api'.deleting = api.deleting
                                 /\ api'.finalizer = api.finalizer
                                 /\ api'.name = api.name
                                 /\ api'.id = api.id
    <2> DEFINE new == [api EXCEPT !.spec = s]
    <2>1. /\ new \in Objects
          /\ new.deleting = api.deleting
          /\ new.finalizer = api.finalizer
          /\ new.name = api.name
          /\ new.id = api.id
      BY <1>1 DEF Objects
    <2>2. api' = Stored(new)
      BY <1>2
    <2> HIDE DEF new
    <2> QED
      BY <1>1, <2>1, <2>2, StoredFacts
  <1>3. ASSUME NEW p \in Policies, api' = Stored([api EXCEPT !.allowed = p])
        PROVE  /\ api' \in Copies /\ Moves(api, api')
               /\ api' = Gone => api.deleting /\ ~api.finalizer
               /\ api' # Gone => /\ api'.deleting = api.deleting
                                 /\ api'.finalizer = api.finalizer
                                 /\ api'.name = api.name
                                 /\ api'.id = api.id
    <2> DEFINE new == [api EXCEPT !.allowed = p]
    <2>1. /\ new \in Objects
          /\ new.deleting = api.deleting
          /\ new.finalizer = api.finalizer
          /\ new.name = api.name
          /\ new.id = api.id
      BY <1>1 DEF Objects
    <2>2. api' = Stored(new)
      BY <1>3
    <2> HIDE DEF new
    <2> QED
      BY <1>1, <2>1, <2>2, StoredFacts
  <1> QED
    BY <1>1, <1>2, <1>3 DEF UserEdits

\* The user deletes the object, which goes at once if nothing guards it.
LEMMA UserDeletesFacts ==
  ASSUME api \in Copies, UserDeletes
  PROVE  /\ api \in Objects /\ api # Gone /\ ~api.deleting
         /\ api' \in Copies /\ Moves(api, api')
         /\ api' = Gone => ~api.finalizer
         /\ api' # Gone =>
               /\ api'.deleting
               /\ api'.finalizer
               /\ api.finalizer
               /\ api'.name = api.name
               /\ api'.allowed = api.allowed
               /\ api'.id = api.id
  <1>1. api \in Objects /\ api # Gone /\ ~api.deleting
    BY AbsentAssumption DEF UserDeletes, Copies
  <1> DEFINE new == [api EXCEPT !.deleting = TRUE]
  <1>2. /\ new \in Objects
        /\ new.deleting
        /\ new # api
        /\ new.finalizer = api.finalizer
        /\ new.name = api.name
        /\ new.allowed = api.allowed
        /\ new.id = api.id
    BY <1>1 DEF Objects
  <1>3. api' = Stored(new)
    BY DEF UserDeletes
  <1> HIDE DEF new
  <1> QED
    BY <1>1, <1>2, <1>3, StoredFacts
=============================================================================
