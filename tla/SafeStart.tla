------------------------------ MODULE SafeStart ------------------------------
(***************************************************************************)
(* The start of the provider (cmd/provider/main.go): the precheck that     *)
(* chooses between SafeStart and a plain start, the registration of the    *)
(* cluster-scoped and the namespaced controllers, and their release while  *)
(* the package manager installs the CRDs in any order.                     *)
(*                                                                         *)
(* Nothing of the process runs concurrently before mgr.Start, so the       *)
(* registration of all controllers is one step.  A setup function is named *)
(* by its scope and the kind it is for, and so is a controller.            *)
(***************************************************************************)
EXTENDS Naturals

CONSTANTS
    Generated,   \* scope and kind of the resources whose controller upjet generates
    Manual,      \* scope and kind of those with a hand-written controller
    MaxFaults    \* bound: crashes, failures, CRDs removed, permissions granted late

Config(scope) == <<scope, "ProviderConfig">>
Usage(scope) == <<scope, "ProviderConfigUsage">>
ClusterConfig == <<"namespaced", "ClusterProviderConfig">>

ASSUME SafeStartAssumption ==
    /\ Generated \cap Manual = {}
    /\ \A s \in {"cluster", "namespaced"} :
          {Config(s), Usage(s), ClusterConfig} \cap (Generated \cup Manual) = {}
    /\ MaxFaults \in Nat

\* The entries of the lists in both zz_setup.go.
GeneratedSetups == Generated \cup {Config("cluster"), Config("namespaced")}

\* The setup functions of both scopes, the hand-written controllers' among them.
Setups == GeneratedSetups \cup Manual

Kinds == Setups \cup {Usage("cluster"), Usage("namespaced"), ClusterConfig}

\* Setup: the controllers a setup function adds to the manager.
controllers(s) == IF s = Config("namespaced") THEN {ClusterConfig, s} ELSE {s}

Controllers == UNION {controllers(s) : s \in Setups}

\* For and Watches: the kinds whose informers a controller waits for.
watched(c) ==
    IF c \in {Config("cluster"), Config("namespaced"), ClusterConfig}
    THEN {c, Usage(c[1])} ELSE {c}

\* A mistake: usages are watched, but not waited for.
dependsOnConfigs(s) == controllers(s)

\* SetupGated: the kinds a setup function waits for.
depends(s) ==
    IF s = Config("namespaced") THEN {ClusterConfig, s, Usage("namespaced")}
    ELSE IF s = Config("cluster") THEN {s, Usage("cluster")}
    ELSE {s}

\* What canWatchCRD asks, in this order.
verbs == <<"get", "list", "watch">>
Verbs == {verbs[n] : n \in 1 .. 3}

VARIABLES
    phase,        \* of the process: "down", "precheck", "setup" or "running"
    asked,        \* how many verbs canWatchCRD has asked about
    gated,        \* canSafeStart
    registered,   \* setup functions the gate holds back
    released,     \* setup functions the gate has started, each in a goroutine
    satisfied,    \* the kinds the gate takes to be established
    status,       \* of each controller: "none", "starting" or "running"
    lost,         \* setup functions whose failure was only logged
    established,  \* the kinds whose CRD is established
    removed,      \* history: the kinds whose CRD was removed since the last start
    granted,      \* what RBAC lets the provider do with CRDs
    faults        \* how often the environment has interfered

gate == <<registered, released, satisfied>>
process == <<phase, asked, gated, gate, status, lost>>
crds == <<established, removed>>
vars == <<process, crds, granted, faults>>

TypeOK ==
    /\ phase \in {"down", "precheck", "setup", "running"}
    /\ asked \in 0 .. 3
    /\ gated \in BOOLEAN
    /\ registered \subseteq Setups
    /\ released \subseteq Setups
    /\ satisfied \subseteq Kinds
    /\ status \in [Controllers -> {"none", "starting", "running"}]
    /\ lost \subseteq Setups
    /\ established \subseteq Kinds /\ removed \subseteq Kinds
    /\ granted \subseteq Verbs
    /\ faults \in 0 .. MaxFaults

Init ==
    /\ phase = "down" /\ asked = 0 /\ gated = FALSE
    /\ registered = {} /\ released = {} /\ satisfied = {} /\ lost = {}
    /\ status = [c \in Controllers |-> "none"]
    /\ established \in {{}, Kinds} /\ removed = {}
    /\ granted \in SUBSET Verbs
    /\ faults = 0

Interfere == faults < MaxFaults /\ faults' = faults + 1

-----------------------------------------------------------------------------
\* The process ends, and with it all it knew: kingpin.FatalIfError, or a crash.
Exit ==
    /\ phase' = "down" /\ asked' = 0 /\ gated' = FALSE
    /\ registered' = {} /\ released' = {} /\ satisfied' = {} /\ lost' = {}
    /\ status' = [c \in Controllers |-> "none"]
    /\ UNCHANGED <<crds, granted>>

\* The kubelet starts the process.
Start ==
    /\ phase = "down"
    /\ phase' = "precheck"
    /\ removed' = {}
    /\ UNCHANGED <<asked, gated, gate, status, lost, established, granted, faults>>

\* A mistake: the first answer decides.
AskVerbOnce ==
    /\ phase = "precheck"
    /\ asked' = 1
    /\ phase' = "setup"
    /\ gated' = (verbs[1] \in granted)
    /\ UNCHANGED <<gate, status, lost, crds, granted, faults>>

\* canWatchCRD: one SelfSubjectAccessReview after the other, until one says no.
AskVerb ==
    /\ phase = "precheck"
    /\ asked' = asked + 1
    /\ gated' = (asked' = 3 /\ verbs[asked'] \in granted)
    /\ phase' = IF asked' = 3 \/ verbs[asked'] \notin granted THEN "setup" ELSE "precheck"
    /\ UNCHANGED <<gate, status, lost, crds, granted, faults>>

\* A mistake: one registration for each kind.
SetupGatedByKind ==
    /\ phase = "setup" /\ gated
    /\ registered' = Kinds
    /\ phase' = "running"
    /\ UNCHANGED <<asked, gated, released, satisfied, status, lost,
                   crds, granted, faults>>

\* Both SetupGated only register with the gate, which knows of no CRD yet.
SetupGated ==
    /\ phase = "setup" /\ gated
    /\ registered' = Setups
    /\ phase' = "running"
    /\ UNCHANGED <<asked, gated, released, satisfied, status, lost,
                   crds, granted, faults>>

\* Both Setup add every controller, whose informers start with the manager.
Setup ==
    /\ phase = "setup" /\ ~gated
    /\ status' = [c \in Controllers |-> "starting"]
    /\ phase' = "running"
    /\ UNCHANGED <<asked, gated, gate, lost, crds, granted, faults>>

\* The CRD controller sees kind k and tells the gate, which starts, once and for
\* all, the setup functions that wait for nothing else.
GateReconcile(k) ==
    /\ phase = "running" /\ gated
    /\ {"list", "watch"} \subseteq granted
    /\ (k \in satisfied) # (k \in established)
    /\ satisfied' = IF k \in established THEN satisfied \cup {k} ELSE satisfied \ {k}
    /\ LET ready == {s \in registered : depends(s) \subseteq satisfied'}
       IN  /\ registered' = registered \ ready
           /\ released' = released \cup ready
    /\ UNCHANGED <<phase, asked, gated, status, lost, crds, granted, faults>>

\* The controllers C are added to the running manager.
Add(C) == status' = [c \in Controllers |-> IF c \in C THEN "starting" ELSE status[c]]

\* The function given to Register.
SetupReleased(s) ==
    /\ s \in released
    /\ released' = released \ {s}
    /\ Add(controllers(s))
    /\ UNCHANGED <<phase, asked, gated, registered, satisfied, lost,
                   crds, granted, faults>>

\* Setup fails, of two controllers perhaps only for the second: a line in the log.
SetupReleasedFails(s) ==
    /\ s \in released
    /\ Interfere
    /\ released' = released \ {s}
    /\ lost' = lost \cup {s}
    /\ \E C \in {{}, controllers(s) \cap {ClusterConfig}} : Add(C)
    /\ UNCHANGED <<phase, asked, gated, registered, satisfied, crds, granted>>

\* A controller's informers have synced.
Synced(c) ==
    /\ status[c] = "starting"
    /\ watched(c) \subseteq established
    /\ status' = [status EXCEPT ![c] = "running"]
    /\ UNCHANGED <<phase, asked, gated, gate, lost, crds, granted, faults>>

\* They have not in time: mgr.Start returns an error.
SyncTimeout(c) ==
    /\ status[c] = "starting"
    /\ ~(watched(c) \subseteq established)
    /\ Exit
    /\ UNCHANGED faults

\* Any fatal error of main, or a crash.
Crash ==
    /\ phase # "down"
    /\ Interfere
    /\ Exit

-----------------------------------------------------------------------------
(* The package manager installs CRDs; someone removes one; RBAC catches up. *)

Establish(k) ==
    /\ k \notin established
    /\ established' = established \cup {k}
    /\ UNCHANGED <<process, removed, granted, faults>>

Remove(k) ==
    /\ k \in established
    /\ Interfere
    /\ established' = established \ {k}
    /\ removed' = removed \cup {k}
    /\ UNCHANGED <<process, granted>>

Grant(v) ==
    /\ v \in Verbs \ granted
    /\ Interfere
    /\ granted' = granted \cup {v}
    /\ UNCHANGED <<process, crds>>

Next ==
    \/ Start \/ AskVerb \/ SetupGated \/ Setup \/ Crash
    \/ \E s \in Setups : SetupReleased(s) \/ SetupReleasedFails(s)
    \/ \E c \in Controllers : Synced(c) \/ SyncTimeout(c)
    \/ \E k \in Kinds : GateReconcile(k) \/ Establish(k) \/ Remove(k)
    \/ \E v \in Verbs : Grant(v)

Spec == Init /\ [][Next]_vars

(***************************************************************************)
(* The kubelet restarts the process, the process and its goroutines run,   *)
(* informers and the CRD controller catch up.  Nobody need install a CRD.  *)
(***************************************************************************)
Fairness ==
    /\ WF_vars(Start) /\ WF_vars(AskVerb) /\ WF_vars(SetupGated) /\ WF_vars(Setup)
    /\ \A k \in Kinds : WF_vars(GateReconcile(k))
    /\ \A s \in Setups : WF_vars(SetupReleased(s))
    /\ \A c \in Controllers : WF_vars(Synced(c))

FairSpec == Spec /\ Fairness

-----------------------------------------------------------------------------
\* With SafeStart the provider does not go down for want of a CRD, in whichever
\* order they come, whatever failed before and whatever is removed elsewhere: only
\* a crash ends it, or the removal of a CRD that a starting controller watches
\* (main.go:145-157; the kinds that each SetupGated names cover For and Watches).
MissingKindsAreHarmless ==
    [][phase = "running" /\ gated /\ phase' = "down" =>
          \/ faults' > faults
          \/ \E c \in Controllers :
                status[c] = "starting" /\ watched(c) \cap (removed \ established) # {}]_vars

\* What the controllers of s need to be there.
Provided(s) == IF gated THEN depends(s) \subseteq established ELSE established = Kinds

\* Whatever comes late, is removed for a while or crashes, in the end the
\* controllers run that have their own CRDs, or without SafeStart all of them
\* once every CRD is there; only one whose setup failed is left behind
\* (main.go:145-190, both zz_setup.go and manual_setup.go).
ControllersRun ==
    \A s \in Setups :
        <>[]Provided(s) =>
            <>[](s \in lost \/ \A c \in controllers(s) : status[c] = "running")
=============================================================================
