------------------------ MODULE TerraformSetupCache ------------------------
(***************************************************************************)
(* The cache of configured Terraform providers behind the SetupFn of every *)
(* generated controller (internal/clients/github.go, TerraformSetupBuilder *)
(* and getOrBuildTerraformSetup).                                          *)
(*                                                                         *)
(* Every Connect of every managed resource calls the SetupFn concurrently. *)
(* A call reads the cache under the read lock, tests the copy's expiry     *)
(* after releasing it, and if that fails takes the write lock, tests the   *)
(* cache again and builds: it resolves the ProviderConfig, tracks the      *)
(* usage, reads the credentials and configures the Terraform provider,     *)
(* which mints a GitHub App installation token.  The caller then holds the *)
(* Setup for its whole (asynchronous) operation.                           *)
(*                                                                         *)
(* A Setup is abstracted to the ProviderConfig it was built from and the   *)
(* time at which its credentials were read and its token minted.           *)
(***************************************************************************)
EXTENDS Naturals

CONSTANTS
    Callers,          \* calls of the SetupFn, each made for one managed resource
    ProviderConfigs,  \* the ProviderConfig objects, of any kind and namespace
    Names,            \* the metadata.name values of ProviderConfigs
    ConfigOf,         \* the ProviderConfig a caller's resource refers to
    NameOf,           \* the name of a ProviderConfig
    NoEntry,          \* the zero value the map returns for an absent key
    Free,             \* nobody holds the write lock
    TTL,              \* tfSetupCacheTTL
    MaxHold,          \* tfSetupMaxHold
    MaxBuild,         \* bound: longest time from minting a token to storing its Setup
    Horizon           \* bound: last instant of the clock

ASSUME ConfigAssumption ==
    /\ ConfigOf \in [Callers -> ProviderConfigs]
    /\ NameOf \in [ProviderConfigs -> Names]

ASSUME TimeAssumption ==
    /\ TTL \in Nat \ {0}
    /\ MaxHold \in Nat
    /\ MaxBuild \in Nat
    /\ Horizon \in Nat

Time == 0 .. Horizon

Setups == [config : ProviderConfigs, minted : Time]

\* CachedTerraformSetup.
Entries == [setup : Setups, expiry : Nat]

ASSUME AbsenceAssumption ==
    /\ NoEntry \notin Entries
    /\ Free \notin Callers

VARIABLES
    clock,   \* time.Now
    cache,   \* tfSetups: the entry cached under each name
    lock,    \* tfSetupLock: who holds the write lock
    pc,      \* where each caller is in getOrBuildTerraformSetup
    local,   \* what each caller has read, is building or was given
    taken    \* when each caller was given its Setup

vars == <<clock, cache, lock, pc, local, taken>>

Labels == {"idle", "read", "check", "lock", "recheck", "build", "configure",
           "holding"}

\* The labels at which a caller is between Lock and the deferred Unlock.
Critical == {"recheck", "build", "configure"}

\* A mistake: one cache entry for all ProviderConfigs.
constantName(c) == CHOOSE n \in Names : TRUE

\* getProviderConfigName: the cache key is the bare name of the reference.
configRefName(c) == NameOf[ConfigOf[c]]

\* ok && tfSetup.expiry.After(now())
Fresh(e) == e # NoEntry /\ clock < e.expiry

TypeOK ==
    /\ clock \in Time
    /\ cache \in [Names -> Entries \cup {NoEntry}]
    /\ lock \in Callers \cup {Free}
    /\ pc \in [Callers -> Labels]
    /\ local \in [Callers -> Entries \cup {NoEntry}]
    /\ taken \in [Callers -> Time]

Init ==
    /\ clock = 0
    /\ cache = [n \in Names |-> NoEntry]
    /\ lock = Free
    /\ pc = [c \in Callers |-> "idle"]
    /\ local = [c \in Callers |-> NoEntry]
    /\ taken = [c \in Callers |-> 0]

-----------------------------------------------------------------------------
Goto(c, l) == pc' = [pc EXCEPT ![c] = l]

\* Hand entry e to caller c, whose hold starts now.
Give(c, e) ==
    /\ local' = [local EXCEPT ![c] = e]
    /\ taken' = [taken EXCEPT ![c] = clock]
    /\ Goto(c, "holding")

\* Caller c's locals go out of scope.
Forget(c) ==
    /\ local' = [local EXCEPT ![c] = NoEntry]
    /\ taken' = [taken EXCEPT ![c] = 0]

\* A controller connects and calls the SetupFn.
Request(c) ==
    /\ pc[c] = "idle"
    /\ Goto(c, "read")
    /\ UNCHANGED <<clock, cache, lock, local, taken>>

\* RLock, copy the map entry, RUnlock: excluded only by a writer.
ReadCache(c) ==
    /\ pc[c] = "read"
    /\ lock = Free
    /\ local' = [local EXCEPT ![c] = cache[configRefName(c)]]
    /\ Goto(c, "check")
    /\ UNCHANGED <<clock, cache, lock, taken>>

\* A mistake: any entry found is served, expired or not.
FastPathUnchecked(c) ==
    /\ pc[c] = "check"
    /\ local[c] # NoEntry
    /\ Give(c, local[c])
    /\ UNCHANGED <<clock, cache, lock>>

\* The fast path: the copy is tested after the lock was released.
FastPath(c) ==
    /\ pc[c] = "check"
    /\ Fresh(local[c])
    /\ Give(c, local[c])
    /\ UNCHANGED <<clock, cache, lock>>

\* A mistake: a miss reads again and leaves the build to others.
MissRetried(c) ==
    /\ pc[c] = "check"
    /\ ~Fresh(local[c])
    /\ Forget(c)
    /\ Goto(c, "read")
    /\ UNCHANGED <<clock, cache, lock>>

Miss(c) ==
    /\ pc[c] = "check"
    /\ ~Fresh(local[c])
    /\ Forget(c)
    /\ Goto(c, "lock")
    /\ UNCHANGED <<clock, cache, lock>>

AcquireLock(c) ==
    /\ pc[c] = "lock"
    /\ lock = Free
    /\ lock' = c
    /\ Goto(c, "recheck")
    /\ UNCHANGED <<clock, cache, local, taken>>

\* A mistake: the double check tests presence only.
RecheckHitUnchecked(c) ==
    /\ pc[c] = "recheck"
    /\ cache[configRefName(c)] # NoEntry
    /\ Give(c, cache[configRefName(c)])
    /\ lock' = Free
    /\ UNCHANGED <<clock, cache>>

\* The double check finds what another caller stored meanwhile.
RecheckHit(c) ==
    /\ pc[c] = "recheck"
    /\ Fresh(cache[configRefName(c)])
    /\ Give(c, cache[configRefName(c)])
    /\ lock' = Free
    /\ UNCHANGED <<clock, cache>>

\* A mistake: no double check, whoever gets the lock builds.
BeginBuildAlways(c) ==
    /\ pc[c] = "recheck"
    /\ Goto(c, "build")
    /\ UNCHANGED <<clock, cache, lock, local, taken>>

BeginBuild(c) ==
    /\ pc[c] = "recheck"
    /\ ~Fresh(cache[configRefName(c)])
    /\ Goto(c, "build")
    /\ UNCHANGED <<clock, cache, lock, local, taken>>

\* The build resolves the ProviderConfig, reads the credentials and starts
\* configuring the provider: the token is minted.
Resolve(c) ==
    /\ pc[c] = "build"
    /\ local' = [local EXCEPT ![c] =
                    [setup  |-> [config |-> ConfigOf[c], minted |-> clock],
                     expiry |-> clock]]
    /\ Goto(c, "configure")
    /\ UNCHANGED <<clock, cache, lock, taken>>

\* A mistake: the sign of the TTL.
StoreExpired(c) ==
    LET entry == [setup |-> local[c].setup, expiry |-> clock - TTL]
    IN  /\ pc[c] = "configure"
        /\ cache' = [cache EXCEPT ![configRefName(c)] = entry]
        /\ Give(c, entry)
        /\ lock' = Free
        /\ UNCHANGED <<clock>>

\* The provider is configured; only now is the expiry computed from now().
Store(c) ==
    LET entry == [setup |-> local[c].setup, expiry |-> clock + TTL]
    IN  /\ pc[c] = "configure"
        /\ cache' = [cache EXCEPT ![configRefName(c)] = entry]
        /\ Give(c, entry)
        /\ lock' = Free
        /\ UNCHANGED <<clock>>

\* A mistake: the error path does not unlock.
BuildFailsLocked(c) ==
    /\ pc[c] \in {"build", "configure"}
    /\ Forget(c)
    /\ Goto(c, "idle")
    /\ UNCHANGED <<clock, cache, lock>>

\* Any call of the build fails, or it panics (an empty app_auth is indexed), which
\* the controller recovers: the deferred Unlock runs and nothing is cached.
BuildFails(c) ==
    /\ pc[c] \in {"build", "configure"}
    /\ Forget(c)
    /\ Goto(c, "idle")
    /\ lock' = Free
    /\ UNCHANGED <<clock, cache>>

\* The operation that captured the Setup ends.
Release(c) ==
    /\ pc[c] = "holding"
    /\ Forget(c)
    /\ Goto(c, "idle")
    /\ UNCHANGED <<clock, cache, lock>>

\* Time passes, but no build takes longer than MaxBuild.
Tick ==
    /\ clock < Horizon
    /\ \A c \in Callers : pc[c] = "configure" => clock < local[c].setup.minted + MaxBuild
    /\ clock' = clock + 1
    /\ UNCHANGED <<cache, lock, pc, local, taken>>

Step(c) ==
    \/ Request(c) \/ ReadCache(c) \/ FastPath(c) \/ Miss(c) \/ AcquireLock(c)
    \/ RecheckHit(c) \/ BeginBuild(c) \/ Resolve(c) \/ Store(c) \/ BuildFails(c)
    \/ Release(c)

Next == Tick \/ \E c \in Callers : Step(c)

Spec == Init /\ [][Next]_vars

(***************************************************************************)
(* The Go scheduler runs every runnable goroutine, sync.RWMutex starves    *)
(* neither readers nor writers, and the build is assumed to return.        *)
(***************************************************************************)
Fairness ==
    \A c \in Callers :
        /\ SF_vars(ReadCache(c))
        /\ SF_vars(AcquireLock(c))
        /\ WF_vars(FastPath(c) \/ Miss(c))
        /\ WF_vars(RecheckHit(c) \/ BeginBuild(c))
        /\ WF_vars(Resolve(c))
        /\ WF_vars(Store(c) \/ BuildFails(c))

FairSpec == Spec /\ Fairness

-----------------------------------------------------------------------------
(* What the cache guarantees.                                              *)

\* At most one build is in flight, and it is the lock holder's: callers are
\* collapsed (github.go:239-241, the write lock around re-check and build).
SingleBuild ==
    \A c \in Callers : pc[c] \in Critical <=> lock = c

\* The fast path tests a copy it read before; if the copy has not expired, it
\* still is what the cache holds: the unlocked window never serves a Setup that
\* was replaced meanwhile (github.go:231-237).
FastPathIsCurrent ==
    \A c \in Callers :
        pc[c] = "check" /\ Fresh(local[c]) => cache[configRefName(c)] = local[c]

\* A caller that holds its Setup no longer than tfSetupMaxHold uses a token no
\* older than TTL + MaxHold, and the credentials it was given were current that
\* recently, except for the time the build itself took (github.go:153-169).
HeldAgeBounded ==
    \A c \in Callers :
        pc[c] = "holding" /\ clock <= taken[c] + MaxHold
            => clock < local[c].setup.minted + TTL + MaxHold + MaxBuild

\* A caller holds a Setup that was built from the ProviderConfig its own
\* resource refers to (github.go:177, 184-215).  It needs names to be unique.
OwnConfig ==
    \A c \in Callers :
        pc[c] = "holding" => local[c].setup.config = ConfigOf[c]

\* An entry is replaced only once it has expired, however many callers queued on
\* the lock behind the one that stored it: no token is minted while the cached
\* one is usable (github.go:242-259).
FreshEntryKept ==
    [][\A n \in Names :
           cache'[n] # cache[n] => cache[n] = NoEntry \/ cache[n].expiry <= clock]_vars

\* Every call returns, with a Setup or an error: the losers of the race wait for
\* the lock but are not left behind (github.go:239-260).
EveryCallReturns ==
    \A c \in Callers : pc[c] = "read" ~> pc[c] \in {"idle", "holding"}

\* The entries callers hold, as the abstract service sees them.
heldEntries == [c \in Callers |-> IF pc[c] = "holding" THEN local[c] ELSE NoEntry]

Service == INSTANCE SetupService WITH held <- heldEntries

\* The cache with its unlocked fast path, double check and slow builds behaves
\* as if each call took effect at once (github.go:223-260).
ImplementsService == Service!Spec
=============================================================================
