---------------------------- MODULE SetupService ----------------------------
(***************************************************************************)
(* What TerraformSetupBuilder promises its callers: one Setup per          *)
(* ProviderConfig name, shared by everyone while it is fresh, replaced     *)
(* only after it expired, and never older than a build when it is stored.  *)
(* No lock, no phases: a call that returns a Setup does so in one step, a  *)
(* call that fails does nothing.  TerraformSetupCache implements it.       *)
(***************************************************************************)
EXTENDS Naturals

CONSTANTS Callers, ProviderConfigs, Names, ConfigOf, NameOf, NoEntry,
          TTL, MaxBuild, Horizon

VARIABLES
    clock,   \* the current time
    cache,   \* the entry shared under each name
    held     \* the entry each caller holds, or NoEntry

vars == <<clock, cache, held>>

Fresh(e) == e # NoEntry /\ clock < e.expiry

Init ==
    /\ clock = 0
    /\ cache = [n \in Names |-> NoEntry]
    /\ held = [c \in Callers |-> NoEntry]

\* The caller gets the entry everyone shares.
Serve(c) ==
    LET shared == cache[NameOf[ConfigOf[c]]]
    IN  /\ held[c] = NoEntry
        /\ Fresh(shared)
        /\ held' = [held EXCEPT ![c] = shared]
        /\ UNCHANGED <<clock, cache>>

\* Nothing fresh is shared: the caller's own ProviderConfig is built, from
\* credentials that were current at most MaxBuild ago.
Refresh(c) ==
    /\ held[c] = NoEntry
    /\ ~Fresh(cache[NameOf[ConfigOf[c]]])
    /\ \E minted \in 0 .. clock :
          LET entry == [setup  |-> [config |-> ConfigOf[c], minted |-> minted],
                        expiry |-> clock + TTL]
          IN  /\ clock <= minted + MaxBuild
              /\ cache' = [cache EXCEPT ![NameOf[ConfigOf[c]]] = entry]
              /\ held' = [held EXCEPT ![c] = entry]
    /\ UNCHANGED clock

Release(c) ==
    /\ held[c] # NoEntry
    /\ held' = [held EXCEPT ![c] = NoEntry]
    /\ UNCHANGED <<clock, cache>>

Tick ==
    /\ clock < Horizon
    /\ clock' = clock + 1
    /\ UNCHANGED <<cache, held>>

Next == Tick \/ \E c \in Callers : Serve(c) \/ Refresh(c) \/ Release(c)

Spec == Init /\ [][Next]_vars
=============================================================================
