-------------------------- MODULE PolitenessProofs --------------------------
(***************************************************************************)
(* The gate of Politeness keeps its promises for any number of callers,    *)
(* any max_concurrent and any min_interval.                                *)
(***************************************************************************)
EXTENDS Politeness, FiniteSetTheorems, TLAPS

USE CallersAssumption, MaxConcurrentAssumption, MinIntervalAssumption, NobodyAssumption

(* Whoever sleeps holds the lock, nobody else holds it across an await, and   *)
(* the sleep lasts until the last start is MinInterval ago.                   *)
PacerSleeps ==
    \A c \in Callers :
        /\ pc[c] = "sleep" <=> pacer = c
        /\ pc[c] = "sleep" => sleep[c] + since >= MinInterval

GateInv == TypeOK /\ PermitsConserved /\ PacerSleeps

-----------------------------------------------------------------------------
(* Taking a permit takes one, giving it back gives one back *)

(* The number of permits that are out is a number no larger than the callers. *)
LEMMA HoldingFinite == IsFiniteSet(Holding) /\ Cardinality(Holding) \in Nat
<1>1. Holding \subseteq Callers
  BY DEF Holding
<1>2. QED
  BY <1>1, FS_Subset, FS_CardinalityType

(* A caller that starts to hold a permit adds one holder. *)
LEMMA OneMoreHolds ==
    ASSUME NEW c \in Callers, c \notin Holding, Holding' = Holding \cup {c}
    PROVE  Cardinality(Holding') = Cardinality(Holding) + 1
  BY HoldingFinite, FS_AddElement

(* A caller that gives its permit back takes one holder away. *)
LEMMA OneLessHolds ==
    ASSUME NEW c \in Callers, c \in Holding, Holding' = Holding \ {c}
    PROVE  Cardinality(Holding') = Cardinality(Holding) - 1
  BY HoldingFinite, FS_RemoveElement

(* Every step conserves the permits, and so keeps their number in range. *)
LEMMA PermitsStep == GateInv /\ [Next]_vars => PermitsConserved' /\ permits' \in 0..MaxConcurrent
<1> SUFFICES ASSUME GateInv, [Next]_vars
             PROVE  PermitsConserved' /\ permits' \in 0..MaxConcurrent
  OBVIOUS
<1>1. permits \in Nat /\ permits + Cardinality(Holding) = MaxConcurrent
  BY DEF GateInv, TypeOK, PermitsConserved
<1>2. ASSUME NEW c \in Callers, Acquire(c)
      PROVE  PermitsConserved' /\ permits' \in 0..MaxConcurrent
  <2>1. c \notin Holding /\ Holding' = Holding \cup {c}
    BY <1>2 DEF GateInv, TypeOK, Acquire, Goto, Holding
  <2>2. Cardinality(Holding') = Cardinality(Holding) + 1
    BY <2>1, OneMoreHolds
  <2>3. QED
    BY <1>1, <1>2, <2>2, HoldingFinite DEF Acquire, PermitsConserved
<1>3. ASSUME NEW c \in Callers, Leave(c) \/ (Cancel(c) /\ pc[c] # "acquire")
      PROVE  PermitsConserved' /\ permits' \in 0..MaxConcurrent
  <2>1. c \in Holding /\ Holding' = Holding \ {c}
    BY <1>3 DEF GateInv, TypeOK, Leave, Cancel, Goto, Holding
  <2>2. Cardinality(Holding') = Cardinality(Holding) - 1 /\ Cardinality(Holding) > 0
    BY <2>1, OneLessHolds, HoldingFinite, FS_EmptySet
  <2>3. permits' = permits + 1
    BY <1>3 DEF Leave, Cancel
  <2>4. QED
    BY <1>1, <2>2, <2>3, HoldingFinite DEF PermitsConserved
<1>4. CASE permits' = permits /\ Holding' = Holding
  BY <1>1, <1>4, HoldingFinite DEF PermitsConserved
<1>5. QED
  BY <1>2, <1>3, <1>4
  DEF Next, Enter, Arrive, Pass, Pause, WakeUp, Cancel, Tick, Goto, Holding, vars, GateInv, TypeOK

-----------------------------------------------------------------------------
(* The other conjuncts *)

(* Every step keeps the types and the relation of the lock to the sleep. *)
LEMMA GateStep == GateInv /\ [Next]_vars => GateInv'
<1> SUFFICES ASSUME GateInv, [Next]_vars PROVE GateInv'
  OBVIOUS
<1>1. TypeOK'
  BY PermitsStep
  DEF GateInv, TypeOK, Next, Enter, Arrive, Acquire, Pass, Pause, WakeUp, Leave, Cancel, Tick,
      Goto, vars
<1>2. PacerSleeps'
  <2>1. ASSUME NEW c \in Callers, Arrive(c) \/ Acquire(c) \/ Leave(c) PROVE PacerSleeps'
    BY <2>1 DEF GateInv, TypeOK, PacerSleeps, Arrive, Acquire, Leave, Goto
  <2>2. ASSUME NEW c \in Callers, Pass(c) PROVE PacerSleeps'
    BY <2>2 DEF GateInv, TypeOK, PacerSleeps, Pass, Goto
  <2>3. ASSUME NEW c \in Callers, Pause(c) PROVE PacerSleeps'
    BY <2>3 DEF GateInv, TypeOK, PacerSleeps, Pause, Goto
  <2>4. ASSUME NEW c \in Callers, WakeUp(c) PROVE PacerSleeps'
    BY <2>4 DEF GateInv, TypeOK, PacerSleeps, WakeUp, Goto
  <2>5. ASSUME NEW c \in Callers, Cancel(c) PROVE PacerSleeps'
    BY <2>5 DEF GateInv, TypeOK, PacerSleeps, Cancel, Goto
  <2>6. CASE Tick
    BY <2>6 DEF GateInv, TypeOK, PacerSleeps, Tick
  <2>7. CASE UNCHANGED vars
    BY <2>7 DEF GateInv, PacerSleeps, vars
  <2>8. QED
    BY <2>1, <2>2, <2>3, <2>4, <2>5, <2>6, <2>7 DEF Next, Enter
<1>3. QED
  BY <1>1, <1>2, PermitsStep DEF GateInv

(* The gate starts with all its permits. *)
LEMMA GateInit == Init => GateInv
<1> SUFFICES ASSUME Init PROVE GateInv
  OBVIOUS
<1>1. Holding = {}
  BY DEF Init, Holding
<1>2. QED
  BY <1>1, FS_EmptySet DEF Init, GateInv, TypeOK, PermitsConserved, PacerSleeps

(* The variables keep their types; in particular the semaphore's counter     *)
(* stays between nothing and its cap.                                        *)
THEOREM GateTypes == Spec => []TypeOK
<1>1. GateInv => TypeOK
  BY DEF GateInv
<1>2. QED
  BY GateInit, GateStep, <1>1, PTL DEF Spec

(* Permits are conserved, with any number of callers cancelled anywhere.     *)
THEOREM GateInvariant == Spec => []PermitsConserved
<1>1. GateInv => PermitsConserved
  BY DEF GateInv
<1>2. QED
  BY GateInit, GateStep, <1>1, PTL DEF Spec

(* Hence never more than max_concurrent attempts are in flight. *)
THEOREM CapHolds == Spec => []AtMostMaxConcurrent
<1>1. TypeOK /\ PermitsConserved => AtMostMaxConcurrent
  <2> SUFFICES ASSUME TypeOK, PermitsConserved PROVE AtMostMaxConcurrent
    OBVIOUS
  <2>1. Inside \subseteq Holding
    BY DEF Inside, Holding
  <2>2. Cardinality(Inside) \in Nat /\ Cardinality(Inside) <= Cardinality(Holding)
    BY <2>1, HoldingFinite, FS_Subset, FS_CardinalityType
  <2>3. QED
    BY <2>2, HoldingFinite DEF TypeOK, PermitsConserved, AtMostMaxConcurrent
<1>2. QED
  BY GateTypes, GateInvariant, <1>1, PTL

(* Starts are min_interval apart whatever the interleaving. *)
THEOREM StartsSpaced == Spec => StartsAreSpaced
<1> DEFINE Spaced ==
      \A c \in Callers : pc[c] # "inside" /\ pc'[c] = "inside" => since = MinInterval
<1>1. GateInv /\ [Next]_vars => [Spaced]_vars
  BY DEF GateInv, TypeOK, PacerSleeps, Next, Enter, Arrive, Acquire, Pass, Pause, WakeUp, Leave,
         Cancel, Tick, Goto, vars
<1>2. QED
  BY GateInit, GateStep, <1>1, PTL DEF Spec, StartsAreSpaced

(* A caller that starts has a permit, so one is free for it among those that *)
(* are inside.                                                               *)
LEMMA RoomInside ==
    ASSUME GateInv, NEW c \in Callers, pc[c] \in {"lock", "sleep"}
    PROVE  Cardinality(Inside) < MaxConcurrent
<1>1. c \in Holding /\ Inside \subseteq Holding \ {c}
  BY DEF Holding, Inside
<1>2. IsFiniteSet(Holding \ {c}) /\ Cardinality(Holding \ {c}) = Cardinality(Holding) - 1
  BY <1>1, HoldingFinite, FS_RemoveElement
<1>3. Cardinality(Inside) <= Cardinality(Holding \ {c}) /\ Cardinality(Inside) \in Nat
  BY <1>1, <1>2, FS_Subset, FS_CardinalityType
<1>4. QED
  BY <1>2, <1>3, HoldingFinite DEF GateInv, TypeOK, PermitsConserved

(* Every step is one of the gate, or hidden from it. *)
LEMMA StepOfGate == GateInv /\ [Next]_vars => [Promise!Next]_<<Inside, since>>
<1> SUFFICES ASSUME GateInv, [Next]_vars PROVE [Promise!Next]_<<Inside, since>>
  OBVIOUS
<1>1. ASSUME NEW c \in Callers, Pass(c) \/ WakeUp(c) PROVE Promise!Start(c)
  <2>1. pc[c] \in {"lock", "sleep"} /\ since = MinInterval /\ since' = 0
    BY <1>1 DEF Pass, WakeUp, GateInv, TypeOK, PacerSleeps
  <2>2. c \notin Inside /\ Inside' = Inside \cup {c}
    BY <1>1, <2>1 DEF Pass, WakeUp, Goto, Inside, GateInv, TypeOK
  <2>3. Promise!Cardinality(Inside) = Cardinality(Inside)
    BY DEF Promise!Cardinality, Cardinality
  <2>4. QED
    BY <2>1, <2>2, <2>3, RoomInside DEF Promise!Start
<1>2. ASSUME NEW c \in Callers, Leave(c) PROVE Promise!End(c)
  BY <1>2 DEF Leave, Goto, Promise!End, Inside, GateInv, TypeOK
<1>3. ASSUME NEW c \in Callers, Arrive(c) \/ Acquire(c) \/ Pause(c) \/ Cancel(c)
      PROVE  UNCHANGED <<Inside, since>>
  BY <1>3 DEF Arrive, Acquire, Pause, Cancel, Goto, Inside, GateInv, TypeOK
<1>4. CASE Tick
  BY <1>4 DEF Tick, Promise!Tick, Promise!Next, Inside, GateInv, TypeOK
<1>5. CASE UNCHANGED vars
  BY <1>5 DEF vars, Inside
<1>6. QED
  BY <1>1, <1>2, <1>3, <1>4, <1>5 DEF Next, Enter, Promise!Next

(* The gate is what it promises to be, for any number of callers. *)
THEOREM Implements == Spec => ImplementsGate
<1>1. Init => Promise!Init
  BY DEF Init, Promise!Init, Inside
<1>2. QED
  BY <1>1, GateInit, GateStep, StepOfGate, PTL DEF Spec, ImplementsGate, Promise!Spec
=============================================================================
