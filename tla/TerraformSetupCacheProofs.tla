--------------------- MODULE TerraformSetupCacheProofs ---------------------
(***************************************************************************)
(* What TerraformSetupCache guarantees for any number of callers,          *)
(* ProviderConfigs and names and any TTL, hold and build time.             *)
(***************************************************************************)
EXTENDS TerraformSetupCache, TLAPS

\* A usable copy of an entry for name n: built from a ProviderConfig of that
\* name, and expiring at most MaxBuild + TTL after its token was minted.
Sound(e, n) ==
    /\ NameOf[e.setup.config] = n
    /\ e.expiry <= e.setup.minted + MaxBuild + TTL

CacheSound ==
    \A n \in Names : cache[n] # NoEntry => Sound(cache[n], n)

LocalSound ==
    \A c \in Callers :
        pc[c] \in {"check", "holding"} /\ local[c] # NoEntry
            => Sound(local[c], configRefName(c))

\* A builder started with nothing fresh under its name, and nobody else has
\* stored anything since.
BuildJustified ==
    \A c \in Callers :
        pc[c] \in {"build", "configure"} => ~Fresh(cache[configRefName(c)])

BuildRecent ==
    \A c \in Callers :
        pc[c] = "configure" =>
            /\ local[c] # NoEntry
            /\ local[c].setup.config = ConfigOf[c]
            /\ local[c].setup.minted <= clock
            /\ clock <= local[c].setup.minted + MaxBuild

HoldTakenFresh ==
    \A c \in Callers :
        pc[c] = "holding" => local[c] # NoEntry /\ taken[c] < local[c].expiry

Inv ==
    /\ TypeOK
    /\ SingleBuild
    /\ FastPathIsCurrent
    /\ CacheSound
    /\ LocalSound
    /\ BuildJustified
    /\ BuildRecent
    /\ HoldTakenFresh
-----------------------------------------------------------------------------
LEMMA InitInv == Init => Inv
  <1> SUFFICES ASSUME Init PROVE Inv
    OBVIOUS
  <1> USE ConfigAssumption, TimeAssumption, AbsenceAssumption
  <1>1. TypeOK
    BY DEF Init, TypeOK, Time, Labels
  <1>2. SingleBuild
    BY DEF Init, SingleBuild, Critical
  <1>3. FastPathIsCurrent /\ CacheSound /\ LocalSound
    BY DEF Init, FastPathIsCurrent, CacheSound, LocalSound
  <1>4. BuildJustified /\ BuildRecent /\ HoldTakenFresh
    BY DEF Init, BuildJustified, BuildRecent, HoldTakenFresh
  <1> QED
    BY <1>1, <1>2, <1>3, <1>4 DEF Inv

LEMMA StepInv == Inv /\ [Next]_vars => Inv'
  <1> SUFFICES ASSUME Inv, [Next]_vars PROVE Inv'
    OBVIOUS
  <1> USE ConfigAssumption, TimeAssumption, AbsenceAssumption
  <1> USE DEF Inv, configRefName, Goto
  <1>1. CASE UNCHANGED vars
    BY <1>1 DEF vars, TypeOK, SingleBuild, FastPathIsCurrent, CacheSound, LocalSound,
       BuildJustified, BuildRecent, HoldTakenFresh, Fresh, Sound
  <1>2. CASE Tick
    BY <1>2 DEF Tick, TypeOK, SingleBuild, FastPathIsCurrent, CacheSound, LocalSound,
       BuildJustified, BuildRecent, HoldTakenFresh, Fresh, Sound, Entries, Setups, Time
  <1>3. ASSUME NEW c \in Callers, Step(c) PROVE Inv'
    <2> USE DEF TypeOK, SingleBuild, FastPathIsCurrent, CacheSound, LocalSound,
       BuildJustified, BuildRecent, HoldTakenFresh, Fresh, Sound, Labels, Critical,
       Entries, Setups, Time
    <2>1. CASE Request(c)
      BY <2>1 DEF Request
    <2>2. CASE ReadCache(c)
      BY <2>2 DEF ReadCache
    <2>3. CASE FastPath(c)
      BY <2>3 DEF FastPath, Give
    <2>4. CASE Miss(c)
      BY <2>4 DEF Miss, Forget
    <2>5. CASE AcquireLock(c)
      BY <2>5 DEF AcquireLock
    <2>6. CASE RecheckHit(c)
      BY <2>6 DEF RecheckHit, Give
    <2>7. CASE BeginBuild(c)
      BY <2>7 DEF BeginBuild
    <2>8. CASE Resolve(c)
      BY <2>8 DEF Resolve
    <2>9. CASE Store(c)
      BY <2>9 DEF Store, Give
    <2>10. CASE BuildFails(c)
      BY <2>10 DEF BuildFails, Forget
    <2>11. CASE Release(c)
      BY <2>11 DEF Release, Forget
    <2> QED
      BY <1>3, <2>1, <2>2, <2>3, <2>4, <2>5, <2>6, <2>7, <2>8, <2>9, <2>10, <2>11
      DEF Step
  <1> QED
    BY <1>1, <1>2, <1>3 DEF Next

\* The inductive invariant holds in every reachable state.
THEOREM Invariance == Spec => []Inv
  BY InitInv, StepInv, PTL DEF Spec

\* Every variable keeps its type, whatever the interleaving.
THEOREM TypeCorrect == Spec => []TypeOK
  <1>1. Inv => TypeOK
    BY DEF Inv
  <1> QED
    BY <1>1, Invariance, PTL

\* Builds are mutually exclusive, for any number of concurrent callers.
THEOREM BuildsAreExclusive == Spec => []SingleBuild
  <1>1. Inv => SingleBuild
    BY DEF Inv
  <1> QED
    BY <1>1, Invariance, PTL

\* The unlocked window of the fast path never serves a replaced Setup.
THEOREM FastPathSound == Spec => []FastPathIsCurrent
  <1>1. Inv => FastPathIsCurrent
    BY DEF Inv
  <1> QED
    BY <1>1, Invariance, PTL

\* A held token is at most TTL + MaxHold old, plus the time of its build.
THEOREM HoldsAreBounded == Spec => []HeldAgeBounded
  <1>1. Inv => HeldAgeBounded
    <2> SUFFICES ASSUME Inv, NEW c \in Callers, pc[c] = "holding",
                        clock <= taken[c] + MaxHold
                 PROVE  clock < local[c].setup.minted + TTL + MaxHold + MaxBuild
      BY DEF HeldAgeBounded
    <2>1. local[c] \in Entries /\ taken[c] < local[c].expiry
      BY DEF Inv, TypeOK, HoldTakenFresh
    <2>2. local[c].expiry <= local[c].setup.minted + MaxBuild + TTL
      BY <2>1 DEF Inv, LocalSound, Sound, HoldTakenFresh
    <2>3. /\ clock \in Nat /\ taken[c] \in Nat
          /\ local[c].expiry \in Nat /\ local[c].setup.minted \in Nat
      BY <2>1, TimeAssumption DEF Inv, TypeOK, Entries, Setups, Time
    <2> QED
      BY <2>1, <2>2, <2>3, TimeAssumption
  <1> QED
    BY <1>1, Invariance, PTL

\* If a name identifies a ProviderConfig, nobody is given another's Setup.
THEOREM OwnConfigIfNamesUnique ==
  ASSUME \A p, q \in ProviderConfigs : NameOf[p] = NameOf[q] => p = q
  PROVE  Spec => []OwnConfig
  <1>1. Inv => OwnConfig
    <2> SUFFICES ASSUME Inv, NEW c \in Callers, pc[c] = "holding"
                 PROVE  local[c].setup.config = ConfigOf[c]
      BY DEF OwnConfig
    <2>1. local[c] # NoEntry
      BY DEF Inv, HoldTakenFresh
    <2>2. local[c].setup.config \in ProviderConfigs
      BY <2>1 DEF Inv, TypeOK, Entries, Setups
    <2>3. NameOf[local[c].setup.config] = NameOf[ConfigOf[c]]
      BY <2>1 DEF Inv, LocalSound, Sound, configRefName
    <2> QED
      BY <2>2, <2>3, ConfigAssumption
  <1> QED
    BY <1>1, Invariance, PTL

\* No entry is replaced while it is fresh.
THEOREM FreshEntriesStay == Spec => FreshEntryKept
  <1> DEFINE Kept == \A n \in Names :
               cache'[n] # cache[n] => cache[n] = NoEntry \/ cache[n].expiry <= clock
  <1>1. Inv /\ [Next]_vars => [Kept]_vars
    <2> SUFFICES ASSUME Inv, Next PROVE Kept
      BY DEF vars
    <2>1. CASE cache' = cache
      BY <2>1
    <2>2. ASSUME NEW c \in Callers, Store(c) PROVE Kept
      <3> SUFFICES ASSUME NEW n \in Names, cache'[n] # cache[n], cache[n] # NoEntry
                   PROVE  cache[n].expiry <= clock
        OBVIOUS
      <3>1. n = configRefName(c) /\ ~Fresh(cache[n])
        BY <2>2 DEF Store, Inv, TypeOK, BuildJustified
      <3>2. cache[n].expiry \in Nat /\ clock \in Nat
        BY TimeAssumption DEF Inv, TypeOK, Entries, Time
      <3> QED
        BY <3>1, <3>2 DEF Fresh
    <2> QED
      BY <2>1, <2>2 DEF Next, Tick, Step, Request, ReadCache, FastPath, Miss,
         AcquireLock, RecheckHit, BeginBuild, Resolve, BuildFails, Release
  <1> QED
    BY <1>1, Invariance, PTL DEF Spec, FreshEntryKept
-----------------------------------------------------------------------------
(* The refinement of SetupService.                                         *)

LEMMA InitRefines == Init => Service!Init
  BY ConfigAssumption DEF Init, Service!Init, heldEntries

LEMMA StepRefines == Inv /\ [Next]_vars => [Service!Next]_(Service!vars)
  <1> SUFFICES ASSUME Inv, [Next]_vars PROVE [Service!Next]_(Service!vars)
    OBVIOUS
  <1> USE ConfigAssumption, TimeAssumption, AbsenceAssumption
  <1> USE DEF configRefName, heldEntries, Inv, TypeOK, Service!vars, Goto
  <1>1. CASE UNCHANGED vars
    BY <1>1 DEF vars
  <1>2. CASE Tick
    BY <1>2 DEF Tick, Service!Next, Service!Tick
  <1>3. ASSUME NEW c \in Callers, Step(c) PROVE [Service!Next]_(Service!vars)
    <2>1. CASE FastPath(c)
      <3>1. /\ cache[configRefName(c)] = local[c]
            /\ local[c] # NoEntry /\ clock < local[c].expiry
        BY <2>1 DEF FastPath, FastPathIsCurrent, Fresh
      <3>2. heldEntries[c] = NoEntry
        BY <2>1 DEF FastPath
      <3>3. heldEntries' = [heldEntries EXCEPT ![c] = local[c]]
        BY <2>1 DEF FastPath, Give
      <3>4. Service!Serve(c)
        BY <2>1, <3>1, <3>2, <3>3 DEF FastPath, Service!Serve, Service!Fresh
      <3> QED
        BY <3>4 DEF Service!Next
    <2>2. CASE RecheckHit(c)
      <3>1. heldEntries[c] = NoEntry
        BY <2>2 DEF RecheckHit
      <3>2. heldEntries' = [heldEntries EXCEPT ![c] = cache[configRefName(c)]]
        BY <2>2 DEF RecheckHit, Give
      <3>3. Service!Serve(c)
        BY <2>2, <3>1, <3>2 DEF RecheckHit, Service!Serve, Service!Fresh, Fresh
      <3> QED
        BY <3>3 DEF Service!Next
    <2>3. CASE Store(c)
      <3> DEFINE minted == local[c].setup.minted
                 entry == [setup |-> [config |-> ConfigOf[c], minted |-> minted],
                           expiry |-> clock + TTL]
      <3>1. /\ local[c] \in Entries /\ local[c].setup.config = ConfigOf[c]
            /\ minted <= clock /\ clock <= minted + MaxBuild
        BY <2>3 DEF Store, BuildRecent
      <3>2. minted \in 0 .. clock
        BY <3>1 DEF Entries, Setups, Time
      <3>3. local[c].setup = [config |-> ConfigOf[c], minted |-> minted]
        BY <3>1 DEF Entries, Setups
      <3>4. heldEntries[c] = NoEntry
        BY <2>3 DEF Store
      <3>5. /\ heldEntries' = [heldEntries EXCEPT ![c] = entry]
            /\ cache' = [cache EXCEPT ![configRefName(c)] = entry]
        BY <2>3, <3>3 DEF Store, Give
      <3>6. ~Service!Fresh(cache[configRefName(c)])
        BY <2>3 DEF Store, BuildJustified, Fresh, Service!Fresh
      <3>7. Service!Refresh(c)
        BY <2>3, <3>1, <3>2, <3>4, <3>5, <3>6 DEF Store, Service!Refresh
      <3> QED
        BY <3>7 DEF Service!Next
    <2>4. CASE Release(c)
      <3>1. heldEntries[c] # NoEntry
        BY <2>4 DEF Release, HoldTakenFresh
      <3>2. heldEntries' = [heldEntries EXCEPT ![c] = NoEntry]
        BY <2>4 DEF Release, Forget
      <3>3. Service!Release(c)
        BY <2>4, <3>1, <3>2 DEF Release, Service!Release
      <3> QED
        BY <3>3 DEF Service!Next
    <2>5. CASE \/ Request(c) \/ ReadCache(c) \/ Miss(c) \/ AcquireLock(c)
               \/ BeginBuild(c) \/ Resolve(c) \/ BuildFails(c)
      <3>1. UNCHANGED <<clock, cache>>
        BY <2>5 DEF Request, ReadCache, Miss, AcquireLock, BeginBuild, Resolve, BuildFails
      <3>2. heldEntries' = heldEntries
        BY <2>5 DEF Request, ReadCache, Miss, AcquireLock, BeginBuild, Resolve,
           BuildFails, Forget, Labels
      <3> QED
        BY <3>1, <3>2
    <2> QED
      BY <1>3, <2>1, <2>2, <2>3, <2>4, <2>5 DEF Step
  <1> QED
    BY <1>1, <1>2, <1>3 DEF Next

\* The concurrent cache implements the one-step service: every return of a
\* Setup takes effect at once, every other step is invisible.
THEOREM Refinement == Spec => ImplementsService
  BY InitRefines, StepRefines, Invariance, PTL DEF Spec, ImplementsService, Service!Spec
=============================================================================
