--------------------------- MODULE SafeStartProofs --------------------------
(***************************************************************************)
(* What SafeStart guarantees whatever kinds have generated or hand-written *)
(* controllers.                                                            *)
(***************************************************************************)
EXTENDS SafeStart, TLAPS

\* Questions are asked one by one, and nothing is set up while they are.
SetUpLate ==
    /\ phase = "down" => asked = 0
    /\ phase = "precheck" => asked < 3
    /\ phase # "running" => released = {} /\ \A c \in Controllers : status[c] = "none"

\* What the gate released and what it started finds every CRD that it waits for,
\* except those that were removed.
OnlyProvided ==
    phase = "running" /\ gated =>
        /\ satisfied \subseteq established \cup removed
        /\ \A s \in released : depends(s) \subseteq established \cup removed
        /\ \A c \in Controllers :
              status[c] = "starting" => watched(c) \subseteq established \cup removed

\* Before the manager runs the gate knows of no CRD.
GateEmpty == phase # "running" => satisfied = {}

Inv == TypeOK /\ SetUpLate /\ GateEmpty /\ OnlyProvided
-----------------------------------------------------------------------------
\* A setup function waits for every kind that one of its controllers watches.
LEMMA WatchedAreGated ==
  ASSUME NEW s \in Setups, NEW c \in controllers(s)
  PROVE  watched(c) \subseteq depends(s)
  <1> USE SafeStartAssumption
  <1>1. CASE s = Config("namespaced")
    <2>1. c \in {ClusterConfig, s}
      BY <1>1 DEF controllers
    <2>2. c[1] = "namespaced"
      BY <1>1, <2>1 DEF Config, ClusterConfig
    <2>3. watched(c) = {c, Usage("namespaced")}
      BY <1>1, <2>1, <2>2 DEF watched
    <2>4. depends(s) = {ClusterConfig, s, Usage("namespaced")}
      BY <1>1 DEF depends
    <2> QED
      BY <2>1, <2>3, <2>4
  <1>2. CASE s = Config("cluster")
    <2>1. s # Config("namespaced")
      BY <1>2 DEF Config
    <2>2. c = s /\ depends(s) = {s, Usage("cluster")}
      BY <1>2, <2>1 DEF controllers, depends
    <2>3. c[1] = "cluster"
      BY <1>2, <2>2 DEF Config
    <2>4. watched(c) = {c, Usage("cluster")}
      BY <1>2, <2>2, <2>3 DEF watched
    <2> QED
      BY <2>2, <2>4
  <1>3. CASE s # Config("namespaced") /\ s # Config("cluster")
    <2>1. s \in Generated \cup Manual
      BY <1>3 DEF Setups, GeneratedSetups
    <2>2. s # ClusterConfig
      BY <2>1
    <2>3. c = s /\ depends(s) = {s}
      BY <1>3 DEF controllers, depends
    <2>4. watched(c) = {c}
      BY <1>3, <2>2, <2>3 DEF watched
    <2> QED
      BY <2>3, <2>4
  <1> QED
    BY <1>1, <1>2, <1>3

LEMMA InitInv == Init => Inv
  <1> SUFFICES ASSUME Init PROVE Inv
    OBVIOUS
  <1>1. gated \in BOOLEAN
    BY Zenon DEF Init
  <1>2. faults \in 0 .. MaxFaults /\ asked \in 0 .. 3
    BY SafeStartAssumption DEF Init
  <1>3. TypeOK
    BY <1>1, <1>2 DEF Init, TypeOK
  <1>4. SetUpLate /\ GateEmpty /\ OnlyProvided
    BY DEF Init, SetUpLate, GateEmpty, OnlyProvided
  <1> QED
    BY <1>3, <1>4 DEF Inv

\* What a process knew ends with it.
LEMMA ExitInv ==
  ASSUME Inv, Exit, faults' \in 0 .. MaxFaults
  PROVE  Inv'
  <1>1. gated' \in BOOLEAN
    BY Zenon DEF Exit
  <1>2. asked' \in 0 .. 3
    BY DEF Exit
  <1>3. TypeOK'
    BY <1>1, <1>2 DEF Exit, Inv, TypeOK, crds
  <1>4. SetUpLate' /\ GateEmpty' /\ OnlyProvided'
    BY DEF Exit, SetUpLate, GateEmpty, OnlyProvided
  <1> QED
    BY <1>3, <1>4 DEF Inv

\* The steps of the process before the manager runs, and its end.
LEMMA StartInv ==
  ASSUME Inv, Start \/ AskVerb \/ SetupGated \/ Setup \/ Crash
  PROVE  Inv'
  <1> USE SafeStartAssumption DEF Inv
  <1>1. CASE Start
    BY <1>1 DEF Start, TypeOK, SetUpLate, GateEmpty, OnlyProvided, gate
  <1>2. CASE AskVerb
    BY <1>2 DEF AskVerb, TypeOK, SetUpLate, GateEmpty, OnlyProvided, gate, crds
  <1>3. CASE SetupGated
    BY <1>3 DEF SetupGated, TypeOK, SetUpLate, GateEmpty, OnlyProvided, crds
  <1>4. CASE Setup
    BY <1>4 DEF Setup, TypeOK, SetUpLate, GateEmpty, OnlyProvided, gate, crds
  <1>5. CASE Crash
    BY <1>5, ExitInv DEF Crash, Interfere, TypeOK
  <1> QED
    BY <1>1, <1>2, <1>3, <1>4, <1>5

\* The gate releases a setup function only if all its kinds are established.
LEMMA GateInv ==
  ASSUME Inv, NEW k \in Kinds, GateReconcile(k)
  PROVE  Inv'
  <1> USE DEF Inv, GateReconcile, crds
  <1>1. TypeOK'
    BY DEF TypeOK
  <1>2. SetUpLate' /\ GateEmpty'
    BY DEF SetUpLate, GateEmpty
  <1>3. OnlyProvided'
    <2>1. satisfied' \subseteq established \cup removed
      BY DEF OnlyProvided
    <2>2. \A s \in released' : s \in released \/ depends(s) \subseteq satisfied'
      OBVIOUS
    <2> QED
      BY <2>1, <2>2 DEF OnlyProvided, watched
  <1> QED
    BY <1>1, <1>2, <1>3

\* The controllers that a released function adds find their kinds.
LEMMA AddInv ==
  ASSUME OnlyProvided, phase = "running", NEW s \in released, released \subseteq Setups,
         NEW C \in SUBSET controllers(s), Add(C), released' \subseteq released,
         UNCHANGED <<phase, gated, satisfied, crds>>
  PROVE  OnlyProvided'
  <1>1. ASSUME gated, NEW c \in Controllers, status'[c] = "starting"
        PROVE  watched(c) \subseteq established \cup removed
    <2>1. CASE c \in C
      BY <1>1, <2>1, WatchedAreGated DEF OnlyProvided
    <2>2. CASE c \notin C
      <3>1. status[c] = "starting"
        BY <1>1, <2>2 DEF Add
      <3> QED
        BY <1>1, <3>1 DEF OnlyProvided
    <2> QED
      BY <2>1, <2>2
  <1> QED
    BY <1>1 DEF OnlyProvided, crds, depends, watched

\* The controllers that are set up find their kinds.
LEMMA SetupInv ==
  ASSUME Inv, NEW s \in Setups, SetupReleased(s) \/ SetupReleasedFails(s)
  PROVE  Inv'
  <1> USE SafeStartAssumption DEF Inv
  <1>1. phase = "running"
    BY DEF SetupReleased, SetupReleasedFails, SetUpLate
  <1>2. CASE SetupReleased(s)
    <2>1. TypeOK'
      BY <1>2 DEF SetupReleased, Add, TypeOK, crds
    <2>2. SetUpLate' /\ GateEmpty'
      BY <1>1, <1>2 DEF SetupReleased, SetUpLate, GateEmpty
    <2>3. \E C \in SUBSET controllers(s) : Add(C)
      BY <1>2 DEF SetupReleased
    <2>4. /\ s \in released /\ released' \subseteq released
          /\ UNCHANGED <<phase, gated, satisfied, crds>>
      BY <1>2 DEF SetupReleased
    <2>5. released \subseteq Setups /\ OnlyProvided
      BY DEF TypeOK
    <2>6. OnlyProvided'
      BY <1>1, <2>3, <2>4, <2>5, AddInv
    <2> QED
      BY <2>1, <2>2, <2>6
  <1>3. CASE SetupReleasedFails(s)
    <2>1. TypeOK'
      BY <1>3 DEF SetupReleasedFails, Interfere, Add, TypeOK, crds
    <2>2. SetUpLate' /\ GateEmpty'
      BY <1>1, <1>3 DEF SetupReleasedFails, SetUpLate, GateEmpty
    <2>3. \E C \in SUBSET controllers(s) : Add(C)
      BY <1>3 DEF SetupReleasedFails
    <2>4. /\ s \in released /\ released' \subseteq released
          /\ UNCHANGED <<phase, gated, satisfied, crds>>
      BY <1>3 DEF SetupReleasedFails, crds
    <2>5. released \subseteq Setups /\ OnlyProvided
      BY DEF TypeOK
    <2>6. OnlyProvided'
      BY <1>1, <2>3, <2>4, <2>5, AddInv
    <2> QED
      BY <2>1, <2>2, <2>6
  <1> QED
    BY <1>2, <1>3

LEMMA StepInv == Inv /\ [Next]_vars => Inv'
  <1> SUFFICES ASSUME Inv, [Next]_vars PROVE Inv'
    OBVIOUS
  <1> USE SafeStartAssumption
  <1> USE DEF Inv, TypeOK, SetUpLate, GateEmpty, OnlyProvided
  <1>1. CASE UNCHANGED vars
    BY <1>1 DEF vars, process, gate, crds, depends, watched
  <1>2. CASE Start \/ AskVerb \/ SetupGated \/ Setup \/ Crash
    BY <1>2, StartInv
  <1>3. ASSUME NEW s \in Setups, SetupReleased(s) \/ SetupReleasedFails(s) PROVE Inv'
    BY <1>3, SetupInv
  <1>4. ASSUME NEW c \in Controllers, Synced(c) PROVE Inv'
    BY <1>4 DEF Synced, gate, crds, watched, depends
  <1>5. ASSUME NEW c \in Controllers, SyncTimeout(c) PROVE Inv'
    BY <1>5, ExitInv DEF SyncTimeout
  <1>6. ASSUME NEW k \in Kinds, GateReconcile(k) PROVE Inv'
    BY <1>6, GateInv
  <1>7. ASSUME NEW k \in Kinds, Establish(k) PROVE Inv'
    BY <1>7 DEF Establish, process, gate
  <1>8. ASSUME NEW k \in Kinds, Remove(k) PROVE Inv'
    BY <1>8 DEF Remove, Interfere, process, gate
  <1>9. ASSUME NEW v \in Verbs, Grant(v) PROVE Inv'
    BY <1>9 DEF Grant, Interfere, process, gate, crds
  <1> QED
    BY <1>1, <1>2, <1>3, <1>4, <1>5, <1>6, <1>7, <1>8, <1>9 DEF Next

LEMMA Invariance == Spec => []Inv
  BY InitInv, StepInv, PTL DEF Spec

\* The type invariant of the provider's start (main.go:70-190).
THEOREM TypeCorrect == Spec => []TypeOK
  <1>1. Inv => TypeOK
    BY DEF Inv
  <1> QED
    BY <1>1, Invariance, PTL

\* With SafeStart a process ends only in a crash or after the removal of a CRD
\* that one of its starting controllers watches, however late and in whatever order
\* CRDs are established: what each SetupGated waits for covers what its
\* controllers watch (main.go:145-157).
THEOREM MissingKindsHarmless == Spec => MissingKindsAreHarmless
  <1> DEFINE Removed(c) ==
                status[c] = "starting" /\ watched(c) \cap (removed \ established) # {}
             Harmless ==
                phase = "running" /\ gated /\ phase' = "down" =>
                   faults' > faults \/ \E c \in Controllers : Removed(c)
  <1>1. Inv /\ [Next]_vars => [Harmless]_vars
    <2> SUFFICES ASSUME Inv, Next, phase = "running", gated, phase' = "down"
                 PROVE  faults' > faults \/ \E c \in Controllers : Removed(c)
      BY DEF vars, process
    <2> USE SafeStartAssumption
    <2>1. CASE Crash
      BY <2>1 DEF Crash, Interfere, Inv, TypeOK
    <2>2. ASSUME NEW c \in Controllers, SyncTimeout(c) PROVE Removed(c)
      BY <2>2 DEF SyncTimeout, Inv, OnlyProvided
    <2>3. CASE ~Crash /\ \A c \in Controllers : ~SyncTimeout(c)
      BY <2>3 DEF Next, Start, AskVerb, SetupGated, Setup, SetupReleased,
         SetupReleasedFails, Synced, GateReconcile, Establish, Remove, Grant, process
    <2> QED
      BY <2>1, <2>2, <2>3
  <1> QED
    BY <1>1, Invariance, PTL DEF Spec, MissingKindsAreHarmless
=============================================================================
