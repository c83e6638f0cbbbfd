# Verification of provider-upjet-github

TLA+ models of the hand-written, stateful code of this repository, model-checked with TLC, and theorems
about most of them proved with TLAPS.  Everything that manages a GitHub resource through Terraform is
generated and runs upjet's generic reconciler.  What this repository adds, and what is modelled, is

- the cache behind the `SetupFn` of those reconcilers,
- four reconcilers that talk to the GitHub REST API themselves,
- the way all of them account for their use of a ProviderConfig, and
- the start of the provider, which holds controllers back until their CRDs are there.

## Inventory

| Component | Code | State it keeps | Operations | Hard because |
|---|---|---|---|---|
| Terraform setup cache | `internal/clients/github.go` | a map from ProviderConfig name to a configured provider and its expiry, a `RWMutex` | `TerraformSetupBuilder`, `getOrBuildTerraformSetup` | up to 100 concurrent reconciles, an unlocked test, a double check, slow and failing builds, tokens that age while they are held |
| ProviderConfig resolution | same file | none; writes a ProviderConfigUsage | `resolveLegacy`, `resolveModern` | runs only when the cache misses; each sort of controller tracks differently |
| Budget reconciler, cluster-scoped | `internal/controller/cluster/enterprise/budget` | spec, status, annotation and finalizer of the `Budget` object; the budgets in GitHub | `Reconcile`, `Observe`, `Create`, `Update`, `Delete`, `handleDeletion` | two stores without a transaction, lost answers, crashes, a lagging informer cache, optimistic locking, two reads of the object in one Reconcile |
| Budget reconciler, namespaced | `internal/controller/namespaced/enterprise/budget` | the same | `Reconcile`, `reconcileExternal`, `reportReconcileError`, `delete` | the same with one read; errors are written into the status too |
| CostCenter reconciler, cluster-scoped | `internal/controller/cluster/enterprise/costcenter` | the same for cost centers, and the organizations and repositories mapped to them | as for Budget, and `syncCostCenterResources` | up to four further calls inside each `Observe`, twice per Reconcile; GitHub deletes asynchronously |
| CostCenter reconciler, namespaced | `internal/controller/namespaced/enterprise/costcenter` | the same | `Reconcile`, `ensureCostCenter`, `syncResources`, `delete` | the same; resource calls precede the recording of the identifier |
| `GitHubService` clients | in the two cluster packages | none (an HTTP client per Reconcile) | list, get, create, update, delete, map | what a failed call may have done |
| ProviderConfig reconcilers | `internal/controller/*/providerconfig` | finalizer and usage count of a ProviderConfig | `Setup`, `SetupGated`; the logic is crossplane-runtime's | counts from a lagging informer and releases in a later step; depends on the usages that others track |
| Controller setup, SafeStart gates | `cmd/provider/main.go`, `zz_setup.go`, `manual_setup.go` | which setup functions the gate holds back, which controllers run | `Setup`, `SetupGated`, `canWatchCRD` | CRDs that appear in any order and disappear, permissions that come late, failures that are only logged |
| Provider process | `cmd/provider/main.go` | flags, manager | `main` | leader election is off by default |
| Upjet configuration, generated code, generator | `config/`, `zz_*.go`, `cmd/generator` | none at run time | - | - |

Interaction: a generated controller calls the `SetupFn`, and keeps the `Setup` it returns for a whole
asynchronous operation.  The direct reconcilers do not use the cache; each Reconcile reads the object from
the informer, builds its own client from the ProviderConfig, calls GitHub and writes the object back.
Reconcilers meet each other, and other users, only in the enterprise's list of budgets and cost centers, and
in the ProviderConfig that they use.

What makes each component correct:

- cache: one build at a time; the unlocked test never serves a replaced Setup; an entry is not replaced
  while it is fresh; no Setup outlives a known age; a caller gets its own ProviderConfig's Setup; every call
  returns;
- reconcilers: the object is not released while what it records still exists in GitHub; a lost answer does
  not lead to a second budget or cost center; policies bound what is done; deletion completes; the external
  resource converges to the spec;
- ProviderConfigs: one that is deleted outlives those that it counts as its users, and neither waits for the
  other for ever;
- start: a CRD that is not there yet ends nothing; in the end every controller runs that has its CRDs.

## Modules

| Module | Models | Composed of |
|---|---|---|
| `SetupService` | what the cache promises: a call that gets a Setup is one atomic step | |
| `TerraformSetupCache` | the cache, step by step | instance of `SetupService` for the refinement |
| `TerraformSetupCacheProofs` | theorems about it | extends `TerraformSetupCache` |
| `Lifecycle` | what every hand-written reconciler promises about an object and the external resource it records | |
| `ApiServer` | one custom resource in the API server, the informer's copy, the user | |
| `Budgets` | the budgets of an enterprise, `GitHubService`, the search for the target, other users | extends `ApiServer` |
| `ClusterBudget`, `NamespacedBudget` | the two Budget reconcilers | extend `Budgets`, instances of `Lifecycle` |
| `CostCenters` | the cost centers of an enterprise, their asynchronous deletion, the diff of resources | extends `ApiServer` |
| `ClusterCostCenter`, `NamespacedCostCenter` | the two CostCenter reconcilers | extend `CostCenters`, instances of `Lifecycle` |
| `ApiServerProofs` | lemmas about writes, copies and the user | extends `ApiServer` |
| `ClusterBudgetProofs`, `NamespacedBudgetProofs` | lemmas about GitHub's calls and the search for a budget, theorems about the Budget reconcilers | extend them and `ApiServerProofs` |
| `ClusterCostCenterProofs`, `NamespacedCostCenterProofs` | lemmas about the cost centers and the plan of resource calls, theorems about the CostCenter reconcilers | extend them and `ApiServerProofs` |
| `ProviderConfigs`, `ProviderConfigsProofs` | one ProviderConfig, its users of three sorts, its usages and its reconciler; theorems | |
| `SafeStart`, `SafeStartProofs` | the precheck, the gate, the controllers and their CRDs; theorems | |
| `MC...` | the instances that TLC checks | extend the module they are named for |

### The cache

`cache` is `tfSetups`, `lock` the writer of `tfSetupLock`, `local` the map entry a caller has copied or is
building, `pc` its place in `getOrBuildTerraformSetup`.  Readers hold the read lock for one map access, so a
reader is one step that needs the lock free.  `ReadCache` is that step; `FastPath` and `Miss` test the copy
afterwards; `AcquireLock`, `RecheckHit` and `BeginBuild` are the double check; `Resolve` is the build's call
of `resolveProviderConfig`, credential extraction and `Configure`, when the usage is tracked and the token
is minted; `Store` stamps the expiry from `now()` after the build; `BuildFails` is every error return.  A
Setup is abstracted to the ProviderConfig it was built from and the time of its token.  `Tick` is the clock;
a build lasts at most `MaxBuild`, a bound that the code does not have.  The cluster-scoped and the
namespaced controllers have one cache each (`main.go:115,134`); the model is one of them.

### The reconcilers

One action per call that reaches the API server or GitHub; the code between two calls belongs to the action
of the call before.  `pc` names the call made next.  `api` is the stored object (`Gone` once its last
finalizer is removed), `seen` the informer's copy, which `Sync` brings up to date at any later time, `obj`
the copy a Reconcile works on and `latest` the one read for the metadata update.  A write is refused unless
its copy carries the stored `resourceVersion`; `Refused` is the error return.  Everything else a Reconcile
knows is local, so `Return` forgets it: an error return, a crash and a restart look the same from outside.
`Abort` is a call that fails without effect or a crash; `AnswerLost` a call that took effect and whose
answer was lost.  The conditions of an object are one value, `report`, and `since` counts their changes: a
status update that changes them gives the object a new version even if nothing else changed.  The namespaced
Budget reconciler goes from success to failure and back with every failed pass (`Record`, `Report`); the
cluster-scoped ones set Available without and then with its message in every pass that finds everything up
to date, which renews it (`Conditions`).  `github` or `centers` is the enterprise: identifiers are never
reused, `Unborn` before a POST, and numbered in the order the list returns them, which is unrelated to the
order of creation.  `mine` is auxiliary: what this controller created (and, for cost centers, what nobody
else renamed).  The user edits `spec.forProvider` and `spec.managementPolicies` and deletes the object;
others create, change and delete budgets and cost centers.

Scope, entity, SKU and user of a budget are one value, its *key*.  Of its other fields, those that the CRD
requires (amount, alerting, usage prevention) are one, *amount*; the expiry date may be absent: the PATCH
leaves out an absent one (`Patched`), and `isUpToDate` does not: a budget with a date that the spec does not
set is outdated, and stays so whatever is patched.  A cost center has a name, a state and a set of members;
a call that maps or unmaps is atomic, four of them are not.

Differences the models make visible: the cluster-scoped reconcilers read the object three times in a
Reconcile and act on the first copy, observe the second and annotate the third; only a POST or PATCH puts an
identifier into a status that is written, so what is merely found is never recorded.  The namespaced ones
work from one copy and record what they found.  The cluster-scoped CostCenter reconciler treats a deleted
cost center as absent, the namespaced one as existing.

`Lifecycle` is the abstract specification of all four: the object is present, deleting or gone; GitHub hands
out identifiers and things with an identifier come and go; an identifier is recorded only if it was handed
out and what was recorded before does not exist; the object is released only when what it records does not
exist or may not be deleted.  `Stage`, `RecordedId`, `MayDelete`, `Born` and `Alive` are the refinement
mapping.  Copies, locals, versions, finalizers, calls, faults and retries are all hidden by it.

### ProviderConfigs

One ProviderConfig and the resources that refer to it.  `stage` and `external` are a resource and its
external resource, `at` where its Reconcile is; `usages` the ProviderConfigUsages, `listed` the informer's
copy of them that the ProviderConfig's reconciler counts.  The three sorts of controllers:

- `Generated` ones call the `SetupFn` (`Connect`); only a cache miss resolves the ProviderConfig and tracks
  (`github.go:314-372`), a hit goes straight to `Act`;
- `Tracking` ones, the namespaced Budget and CostCenter reconcilers, track and then read the ProviderConfig
  when they apply, and only read it when they delete;
- `Untracked` ones, the cluster-scoped Budget and CostCenter reconcilers, never track.

`ReconcileConfig` and `ReleaseConfig` are crossplane-runtime's reconciler as `config.go` sets it up: the
count and the removal of the finalizer are two steps.  `SyncUsages` also enqueues the ProviderConfig, which
is the `Watches` of `config.go:31`; the model does not rely on periodic resyncs.  `counted` and `relying`
are history: who was listed, when the deletion was requested or at any count since, and who had something in
GitHub when it was requested.

### SafeStart

`AskVerb` is one question of `canWatchCRD`, `Setup` and `SetupGated` the two ways both scopes are set up,
`GateReconcile` the gate when it learns of a CRD (crossplane-runtime's, external), `SetupReleased` the
function registered with it and `SetupReleasedFails` that function when `Setup` returns an error, which is
only logged.  The namespaced ProviderConfig's function sets up two controllers and waits for three kinds.  A
controller is "starting" until the informers of every kind that it watches have synced; `SyncTimeout` is the
manager giving up on one and ending the process.  CRDs are established in any order (`Establish`), may be
removed (`Remove`), and permissions may arrive late (`Grant`).  `removed` is history: what was removed since
the last start.

## Runs

| Run | Shows |
|---|---|
| `TerraformSetupCache_unique` | invariants of the cache, that it implements `SetupService`, and that every call returns |
| `TerraformSetupCache_shared` (violation) | two ProviderConfigs of one name share an entry, so a caller may get the other's owner and credentials |
| `ClusterBudget` | no duplicates, `Lifecycle` implemented, policies respected, deletion completes, recorded budgets converge |
| `ClusterBudget_orphan` (violation) | the POST succeeded, the status was not written, the object is deleted: the budget stays |
| `ClusterBudget_expiry` (violation) | the user removes the expiry date; the budget keeps it for ever: it is outdated at every reconcile, and patched in vain |
| `NamespacedBudget` | the same as `ClusterBudget` with edits of the identity; the identifier is recorded before the name; found budgets converge, although every failed pass changes the conditions |
| `ClusterCostCenter` | no duplicates unless something was deleted, `Lifecycle` implemented, deletion and convergence |
| `ClusterCostCenter_policies` (violation) | policies are not consulted |
| `NamespacedCostCenter` | the same as `ClusterCostCenter`, without exception; policies respected; Available is only reported once name and members are those of the spec, unless others changed them since the list |
| `ProviderConfigs` | a ProviderConfig outlives the users that were listed at the request or a later count; it and its users are released together |
| `ProviderConfigs_untracked` (violation) | a ProviderConfig goes although a resource whose use was never tracked still needs it for its deletion |
| `SafeStart` | with SafeStart no CRD ends the process that is merely not there yet; every controller that has its CRDs runs in the end |

Each property of a passing run has a mutant beside the definition it changes ("A mistake: ..."), a bug that
the code might have had and that breaks the property under the run's own configuration.

Restrictions in the properties, and what they hide:

- `NoDuplicates` of the cluster reconcilers is checked while the user does not edit the identity: a
  Reconcile that observes one version and creates from another makes a duplicate.
- `NoDuplicates` of `ClusterCostCenter` excepts enterprises in which a cost center was deleted:
  `findCostCenterByName` takes the first of the name, whatever its state (`external.go:174-182`), and one
  that is deleted but still listed hides the active one behind it.
- `RecordedConverges` speaks of a *recorded* budget.  A budget that the cluster-scoped reconciler found by
  identity is not updated (`external.go:93-95`), and one whose identity the user changed in the spec is
  kept as it is, because it is found by identifier first.
- `RecordedDeletionCompletes` of `ClusterCostCenter` needs an identifier in the status; without one
  `Delete` returns an error at every attempt (`external.go:244-246`) and the object stays.
- `SpecReached` excepts a cost center that others renamed or mapped after the Reconcile listed it (`touched`,
  history): the code does not look again.  Calls of earlier synchronisations that failed or lost their
  answers, crashes, edits of the spec, deletions, and whatever others did before the list, are not excepted.
- `Converges` of `NamespacedBudget` says nothing of the annotation.  A pass that fails and one that succeeds
  change the Synced condition and with it the version (`budget.go:101,131`), the next copy for the
  annotation comes from the informer (`budget.go:137`), and if that lags each time by this one write, the
  annotation is refused and the refusal reported for ever.  Nothing but time between two passes prevents it.
- `ConfigReleased` and `DeletedUsersGo` are checked with generated and tracking users; what an untracked one
  breaks is `ProviderConfigs_untracked`.  `DeletedUsersGo` excepts users that no count had listed, such as
  those of a deletion that overtook their first Reconcile.
- `CountedKeepConfig` is about users whose usage was listed when the deletion was requested or at a count.  A
  usage that is stored but not listed by the last count, or tracked between that count and the release, is
  missed: the release asks for nothing that happened since.
- `MissingKindsAreHarmless` excepts crashes and the removal of a CRD that a starting controller watches, which
  does end the process; no other fault excuses an end.
- `HeldAgeBounded` bounds a Setup's age by TTL + MaxHold + *MaxBuild*: the code's TTL + MaxHold is exactly a
  token's lifetime, so a build's duration is what a holder can exceed it by.

### Bounds

- Cache: three callers, two of one ProviderConfig and one of another, are enough for a reader, a builder and
  one waiting on the lock, and for a name collision; TTL, hold and build of one instant each and three
  instants let an entry be built, expire while it is held and be built again.  More of each is covered by the
  proofs.
- Budgets: three identifiers (four where the identity changes) are one for an existing budget and one for
  each that a fault or an edit may add; `MaxFaults = 2` allows, for example, a lost answer followed by an
  edit or a crash.  `Sync`, `UserDeletes` and the work queue are not counted as faults.  `Policies` is
  everything or nothing, and the user may switch.  The two specs differ in amount and in whether there is an
  expiry date, so that an edit sets or removes it.  In `NamespacedBudget` others create budgets of one kind
  (`Foreign`), an identity the user may ask for with other settings, and one that is there from the start comes first in
  the list (`ForeignFirst`).
- Conditions: they change at most `MaxTransitions` times, twice, and three times in `NamespacedBudget`, which
  is a failure, a success and another failure; later changes are not seen.  The proofs hold for any number.
- CostCenters: two identifiers, two names, one organization and one repository, which is the least for which
  four resource calls, a rename and a second cost center happen; one fault, and others who rename, map and
  delete.  When every identifier is used a POST fails (`Refused`), which no property depends on.
- ProviderConfigs: one generated and one tracking user, which differ in when they track, and two faults; the
  cache's entry expires whenever it likes, so an entry may come from a user that is long gone.
  `ProviderConfigs_untracked` adds an untracked user and needs no fault.
- SafeStart: the kinds of both ProviderConfigs, which is where one function waits for several kinds, and one
  more kind with a controller of its own; a second such kind would behave in the same way, which the proofs
  confirm.  Two faults allow a failed set-up and a crash, or a removed CRD and a late permission.
- `CHECK_DEADLOCK FALSE` in all runs but the cache's: once the object is gone, or the controllers run, and
  the faults are used up, the system has nothing left to do.

### Fairness

The cache: every runnable goroutine runs (weak fairness of each caller's own steps); `sync.RWMutex` starves
neither readers nor writers (strong fairness of the two acquisitions); the build returns.  Nothing is
assumed of `Request`, `Release` or the clock.  The reconcilers: the work queue reconciles again after every
success (`RequeueAfter` or resync) and every error (back-off), and calls return (weak fairness of
`Controller`); the informer catches up (`Sync`); GitHub finishes deletions it accepted (`Progress`).  Nothing is
assumed of users, others, crashes or lost answers, and since these are bounded they eventually stop, which
is what "in the end" means in the properties.  In `ProviderConfigs` each resource's controller, the queue of
the ProviderConfig's reconciler, its informer and the garbage collector go on; nobody need delete anything.
In `SafeStart` the kubelet restarts the process, `main` and the goroutines of the gate go on, informers sync
when their CRDs are there; nobody need install a CRD, and `SyncTimeout` is not fair: a controller may wait.

## Proofs

`TerraformSetupCacheProofs` proves, for any number of callers, ProviderConfigs and names, any `ConfigOf`
and `NameOf`, and any `TTL > 0`, `MaxHold`, `MaxBuild` and `Horizon`:

- `TypeCorrect`, `BuildsAreExclusive`, `FastPathSound`, `HoldsAreBounded`: the invariants of the run;
- `OwnConfigIfNamesUnique`: with the assumption that `NameOf` is injective, a caller holds only its own
  ProviderConfig's Setup; `TerraformSetupCache_shared` shows that the assumption is needed;
- `FreshEntriesStay`: the action property;
- `Refinement`: the cache implements `SetupService`.

The argument: `Inv` strengthens the properties by what a caller knows at each place.  `FastPathIsCurrent` is
not inductive alone: that a fresh copy is what the map holds needs that nobody replaces a fresh entry, which
needs `BuildJustified` (whoever builds found nothing fresh, and still does, because it holds the lock - hence
`SingleBuild` - and time only makes entries older).  The age bound needs that an entry expires at most
`MaxBuild + TTL` after its token was minted (`CacheSound`, `LocalSound`), which `Store` establishes from
`BuildRecent`, and that it was fresh when the hold began (`HoldTakenFresh`).  For the refinement a step of
`FastPath` or `RecheckHit` is `Serve`, `Store` is `Refresh`, and every other step but `Release` and `Tick`
stutters.  The assumptions used are those of the modules: types of the constants, and that `NoEntry` and
`Free` are different from entries and callers.

`ClusterBudgetProofs` and `NamespacedBudgetProofs` prove, for any identifiers, keys, amounts, expiry dates,
specs, policies, budgets of others and any number of faults:

- `TypeCorrect`, and for the namespaced one `NameFollowsId`: the type invariant and `NameImpliesId`;
- `Refinement`: the reconciler implements `Lifecycle`;
- `NeverDuplicates`: the invariant `NoDuplicates`, for the cluster-scoped one under the assumption that all
  specs ask for one identity (`OneIdentity`), for the namespaced one without;
- `PoliciesHold`: the action property `PoliciesRespected`.

The argument is one about versions.  The stored object changes only together with its version (`Moves`), so a
copy with the stored version *is* the stored object (`CopyOf`), and a write is accepted only from such a copy
(`ApiServerProofs`).  Identifiers are handed out once, and a budget that is gone stays gone (`Grows`,
`StaysDead`), so what a Reconcile learns from GitHub about a *recorded* identifier being dead stays true while
it works.  `Inv` says what this comes to at each call: `ObjIsCopy` when `obj` is still what
was read; `AbsentIsGone` (`FoundReplaces`) that an unsuccessful search means that the recorded budget does not
exist; `RecordsNew` that an identifier about to be written is the recorded one or replaces a dead one;
`ReleasesLast` that the finalizer is about to go only after the budget; `LatestIsCopy` that the copy for the
metadata update does not take the finalizer away.  None of these is inductive without `Guarded`: an object
that records an identifier or is being deleted has its finalizer, so no user can make it disappear.  In the
namespaced reconciler the same copy may be written a second time, as an error report, and `RecordsNew` covers
that write too.  With `Inv`, a status update is `Record` or a stutter, the removal of the finalizer is
`Release`, calls to GitHub are `ExternalChange`, and everything else stutters.  For `NeverDuplicates` the
search says that no budget of this controller has the identity that the POST will ask for; nobody else can
make one of this controller's, and no PATCH changes an identity (`MineKept`).

`ClusterCostCenterProofs` and `NamespacedCostCenterProofs` prove, for any identifiers, names, organizations,
repositories, specs and policies, whatever others may do, and any number of faults:

- `TypeCorrect` and `Refinement`, for the cluster-scoped one whatever the policies say, since it reads none;
- `NeverDuplicates`, under `OneName`: all specs ask for one name, as in the runs.  Without it a cost center
  whose creation was never recorded keeps the old name when the user edits it, and gets a namesake when the
  user edits it back;
- the namespaced one, `PoliciesHold`, and `SpecIsReached`: the invariant `SpecReached`;
- the cluster-scoped one, `MembersAreReached`: a Reconcile that goes on to the annotation, its last write, has
  left the cost center with exactly the members of the spec it read last.  It says nothing of the name: that
  is changed by the PATCH after the first observation, of the recorded cost center.

The argument is that of the budgets, with "exists" being "is active": GitHub deletes in steps that others may
begin, so `ReleasesLast` is established by `Verify` and not by the DELETE, and nothing that is deleted becomes
active again.  In the namespaced reconciler a synchronisation of several calls comes between filling in the
status and writing it, so `RecordsNew` and `CallsAllowed` hold over all of them (`TodoRemains` says that there
is one left).  In the cluster-scoped one the copy that is created from is older than the one that was observed:
that an absence observed in the newer copy holds of the older one (`AbsentIsGone`) follows as long as the
older one is current, since then they are the same.  A second synchronisation follows the status update, and
`LatestIsCopy` carries the copy for the annotation over all its calls.

For `NeverDuplicates` a cost center of this controller's is found by the one name as long as it is in the
list; the namespaced reconciler takes a deleted one as found and creates nothing beside it.  The cluster-scoped
one does not, and its search may stop at a deleted cost center in front of an active one; its `UniqueInv`
holds as long as nothing was deleted (`NoneDeleted`), which is what `NoDuplicates` says of it.

For `SpecIsReached` and `MembersAreReached` the invariant `Reaching` says that the calls that are left lead
from the members there are to those of the spec (`Leads`): each adds only what is desired or removes only what
is not, and every difference is in one of them.  `PlanLeads` is that of the diff, `LeadsOn` that a call that
is made leaves it true of the rest; with no call left it is equality.  Nothing keeps others from mapping
between two calls: `MembersAreReached` supposes that nobody does, `SpecIsReached` only that nobody touched
this cost center since the list (`touched`), whatever they do to it before and to others.

`ProviderConfigsProofs` proves for any number of users of each sort `TypeCorrect` and `CountedKeep`, the
invariant `CountedKeepConfig`.  It is not inductive because the reconciler counts an informer's copy and
releases later: `CountedAreListed` says that a user that was counted stays stored and listed while it
exists, so that a count of zero (`CountedAreGone`) means that all of them are gone.  `WorkingExists` is what
the type invariant needs, which says that a tracking user that applies has its usage stored.

`SafeStartProofs` proves for any kinds with generated or hand-written controllers `TypeCorrect` and
`MissingKindsHarmless`, the action property.  The lemma `WatchedAreGated` is the heart: every setup function
waits for every kind that one of its controllers watches.  `OnlyProvided` carries it to the controllers that
are starting: what they watch is there, or was removed since the start.

The assumptions used are those of the modules: types and distinctness of the constants, and that identifiers
are numbers, by which the list is ordered.

Only model-checked: liveness (`EveryCallReturns`, `DeletionCompletes`, `RecordedDeletionCompletes`,
`Converges`, `RecordedConverges`, `ConfigReleased`, `DeletedUsersGo`, `ControllersRun`), which depends on
fairness.  Every invariant, action property and refinement that a passing run checks is also a theorem,
`NoDuplicates` of the cost centers and of the cluster-scoped budgets, and `OwnConfig`, with the hypotheses
on the constants that are named above.

## Findings

Each is a violation run and quotes the line it contradicts in `PROJECT.json`.

- Two ProviderConfigs of one name (two namespaces, or a ProviderConfig and a ClusterProviderConfig) share a
  cached Setup (`github.go:178`).
- A budget whose identifier was never stored is left behind by the deletion (`budget.go:580`).
- The cluster-scoped CostCenter reconciler ignores management policies (`costcenter.go:535`).
- An expiry date is never cleared (`budget.go:303`).
- A ProviderConfig is released under cluster-scoped Budgets and CostCenters, whose deletion then fails for
  ever (`external.go:260`).

## Not modelled

- Generated code: 98,682 of the 104,998 lines of implementation are generated by upjet or controller-gen -
  deep copies, types, accessors and one set-up per kind, all alike.  They have no logic of this repository's;
  the lists of set-ups in `zz_setup.go` are in `SafeStart`, the rest is not.  The upjet configuration is
  tables for the generator.
- HTTP, JSON, credentials and GitHub App authentication: a call succeeds, is not found, fails without
  effect, or takes effect without an answer.
- The second optional list of a budget, the recipients of its alerts, which is never cleared either, for the
  same reason as the expiry date.
- `spec.deletionPolicy`: the CRDs of the cluster-scoped kinds have it, the reconcilers do not read it
  (`handleDeletion` asks only for management policies).
- The choice of a ProviderConfig's kind: the namespaced CostCenter reconciler ignores the kind in the
  reference (`costcenter.go:239-249`), the Budget reconciler rejects an unknown one.
- A comment of `isUpToDate` says that the identity is enforced by `matches`; a budget that is found by its
  identifier is not matched at all, so an edit of the identity does nothing.  The models have this; no property
  says it.
- The cluster-scoped CostCenter controller has no event filter and changes the message of its condition, so
  its own status updates trigger it; the models reconcile at any time and say nothing about how often.
- Two replicas of the provider: leader election is off by default (`main.go:49`).

## Plan

Done: the cache with its abstract service; the four reconcilers with their environment and their common
abstract specification; ProviderConfigs and their usages; the start.  Theorems about all of them: every
safety property of the passing runs is proved.

1. The counterpart of `SpecReached` for the Budget reconcilers: what the settings are when the status is
   written, with the fields that a PATCH leaves out.
2. Two replicas of one reconciler without leader election; which of the properties survive.
3. The cache and a ProviderConfig's rotation of credentials in one model.
