-------------------------- MODULE GadgetFSM_proofs --------------------------
(***************************************************************************)
(* Proofs about the gadget state machine, for any set of clients, any      *)
(* grace period and any number of failures.                                *)
(***************************************************************************)
EXTENDS GadgetFSM, FiniteSetTheorems, TLAPS

(***************************************************************************)
(* Sets of clients are finite, so adding and removing one moves the        *)
(* cardinality by one: what the reference count is compared with.          *)
(***************************************************************************)
LEMMA ClientSets ==
  ASSUME NEW S \in SUBSET Clients, NEW c \in Clients
  PROVE  /\ Cardinality(S) \in Nat
         /\ c \notin S => Cardinality(S \cup {c}) = Cardinality(S) + 1
         /\ c \in S => /\ Cardinality(S) > 0
                       /\ Cardinality(S \ {c}) = Cardinality(S) - 1
         /\ Cardinality(S) = 0 <=> S = {}
<1>1. IsFiniteSet(S)
  BY FS_Subset, FSMAssumption
<1>2. Cardinality(S) \in Nat /\ Cardinality(S \ {c}) \in Nat
  BY <1>1, FS_CardinalityType, FS_RemoveElement
<1>3. c \notin S => Cardinality(S \cup {c}) = Cardinality(S) + 1
  BY <1>1, FS_AddElement
<1>4. c \in S => Cardinality(S \ {c}) = Cardinality(S) - 1
  BY <1>1, FS_RemoveElement
<1>5. Cardinality(S) = 0 <=> S = {}
  BY <1>1, FS_EmptySet
<1> QED
  BY <1>2, <1>3, <1>4, <1>5

(***************************************************************************)
(* Every step keeps the fields of the Python object, its callers and the   *)
(* model's counters in their ranges.                                       *)
(***************************************************************************)
LEMMA TypeStep == TypeOK /\ [Next]_vars => TypeOK'
<1> SUFFICES ASSUME TypeOK, [Next]_vars
             PROVE  TypeOK'
  OBVIOUS
<1> USE FSMAssumption DEF TypeOK, State
<1>1. ASSUME NEW c \in Clients, DemandReturns(c)
      PROVE  TypeOK'
  BY <1>1 DEF DemandReturns, CountDemand, Hold, callVars
<1>2. ASSUME NEW c \in Clients, DemandActivates(c)
      PROVE  TypeOK'
  BY <1>2 DEF DemandActivates, CountDemand, historyVars
<1>3. ASSUME NEW c \in Clients, ActivateOk(c)
      PROVE  TypeOK'
  BY <1>3 DEF ActivateOk, Hold
<1>4. ASSUME NEW c \in Clients, ActivateRaises(c)
      PROVE  TypeOK'
  BY <1>4 DEF ActivateRaises, RolledBackCount, historyVars
<1>5. ASSUME NEW c \in Clients, Release(c)
      PROVE  TypeOK'
  BY <1>5 DEF Release, IsLastRelease, StartGrace, fsmVars, callVars
<1>6. CASE Tick
  BY <1>6 DEF Tick, historyVars
<1>7. CASE DeactivateOk
  <2>1. deactivating' \in 0 .. MaxTicks
    BY <1>7 DEF DeactivateOk
  <2>2. bound' \in BOOLEAN
    BY <1>7 DEF DeactivateOk
  <2> QED
    BY <1>7, <2>1, <2>2 DEF DeactivateOk, historyVars
<1>8. CASE DeactivateRaises
  BY <1>8 DEF DeactivateRaises, historyVars
<1>9. CASE Elapse
  BY <1>9 DEF Elapse, callVars
<1>10. CASE UNCHANGED vars
  BY <1>10 DEF vars, fsmVars, callVars, historyVars
<1> QED
  BY <1>1, <1>2, <1>3, <1>4, <1>5, <1>6, <1>7, <1>8, <1>9, <1>10
     DEF Next, ClientStep

(***************************************************************************)
(* Type correctness of the state machine and of its callers.               *)
(***************************************************************************)
THEOREM TypeCorrect == Spec => []TypeOK
<1>1. Init => TypeOK
  BY FSMAssumption DEF Init, TypeOK, BootRefs, State
<1> QED
  BY <1>1, TypeStep, PTL DEF Spec

-----------------------------------------------------------------------------

(***************************************************************************)
(* No step of demand(), its rollback, release() or tick() makes _refcount  *)
(* differ from the number of callers it stands for.  Neither the single    *)
(* owner nor clean failures are needed.                                    *)
(***************************************************************************)
LEMMA RefcountStep ==
  TypeOK /\ RefcountExact /\ [Next]_vars => RefcountExact'
<1> SUFFICES ASSUME TypeOK, RefcountExact, [Next]_vars
             PROVE  RefcountExact'
  OBVIOUS
<1> USE DEF RefcountExact
<1>0. /\ holders \in SUBSET Clients /\ activating \in SUBSET Clients
      /\ refcount \in Nat /\ BootRefs \in {0, 1}
  BY DEF TypeOK, BootRefs
<1>1. ASSUME NEW c \in Clients, DemandReturns(c)
      PROVE  RefcountExact'
  <2>1. /\ holders' = holders \cup {c} /\ c \notin holders \cup activating
        /\ UNCHANGED <<activating, legacy>> /\ refcount' = refcount + 1
    BY <1>1 DEF DemandReturns, CountDemand, Hold, callVars
  <2>2. /\ Cardinality(holders') = Cardinality(holders) + 1
        /\ Cardinality(holders) \in Nat /\ Cardinality(activating) \in Nat
    BY <1>0, <2>1, ClientSets
  <2> QED
    BY <1>0, <2>1, <2>2 DEF BootRefs
<1>2. ASSUME NEW c \in Clients, DemandActivates(c)
      PROVE  RefcountExact'
  <2>1. /\ activating' = activating \cup {c} /\ c \notin holders \cup activating
        /\ UNCHANGED <<holders, legacy>> /\ refcount' = refcount + 1
    BY <1>2 DEF DemandActivates, CountDemand, historyVars
  <2>2. /\ Cardinality(activating') = Cardinality(activating) + 1
        /\ Cardinality(holders) \in Nat /\ Cardinality(activating) \in Nat
    BY <1>0, <2>1, ClientSets
  <2> QED
    BY <1>0, <2>1, <2>2 DEF BootRefs
<1>3. ASSUME NEW c \in Clients, ActivateOk(c)
      PROVE  RefcountExact'
  <2>1. /\ c \in activating /\ activating' = activating \ {c}
        /\ holders' = holders \cup {c} /\ UNCHANGED <<refcount, legacy>>
    BY <1>3 DEF ActivateOk, Hold
  <2>2. /\ Cardinality(activating') = Cardinality(activating) - 1
        /\ Cardinality(holders') = Cardinality(holders) + 1
        /\ Cardinality(holders) \in Nat /\ Cardinality(activating) \in Nat
    BY <1>0, <2>1, ClientSets
  <2> QED
    BY <1>0, <2>1, <2>2 DEF BootRefs
<1>4. ASSUME NEW c \in Clients, ActivateRaises(c)
      PROVE  RefcountExact'
  <2>1. /\ c \in activating /\ activating' = activating \ {c}
        /\ refcount' = (IF refcount > 0 THEN refcount - 1 ELSE 0)
        /\ UNCHANGED <<holders, legacy>>
    BY <1>4 DEF ActivateRaises, RolledBackCount, historyVars
  <2>2. /\ Cardinality(activating') = Cardinality(activating) - 1
        /\ Cardinality(activating) > 0
        /\ Cardinality(holders) \in Nat /\ Cardinality(activating) \in Nat
    BY <1>0, <2>1, ClientSets
  <2> QED
    BY <1>0, <2>1, <2>2 DEF BootRefs
<1>5. ASSUME NEW c \in Clients, Release(c)
      PROVE  RefcountExact'
  <2>1. /\ c \in holders /\ holders' = holders \ {c}
        /\ refcount # 0 => refcount' = refcount - 1
        /\ UNCHANGED <<activating, legacy>>
    BY <1>5 DEF Release, callVars
  <2>2. /\ Cardinality(holders') = Cardinality(holders) - 1
        /\ Cardinality(holders) > 0
        /\ Cardinality(holders) \in Nat /\ Cardinality(activating) \in Nat
    BY <1>0, <2>1, ClientSets
  <2> QED
    BY <1>0, <2>1, <2>2 DEF BootRefs
<1>6. CASE \/ Tick \/ DeactivateOk \/ DeactivateRaises \/ Elapse \/ UNCHANGED vars
  <2>1. UNCHANGED <<refcount, activating, holders, legacy>>
    BY <1>6 DEF Tick, DeactivateOk, DeactivateRaises, Elapse, vars, fsmVars,
                callVars, historyVars
  <2> QED
    BY <2>1 DEF BootRefs
<1> QED
  BY <1>1, <1>2, <1>3, <1>4, <1>5, <1>6 DEF Next, ClientStep

(***************************************************************************)
(* RefcountExact holds of every behaviour, for calls that overlap as well. *)
(***************************************************************************)
THEOREM RefcountIsExact == Spec => []RefcountExact
<1>1. Init => RefcountExact
  <2> SUFFICES ASSUME Init
               PROVE  RefcountExact
    OBVIOUS
  <2>1. holders = {} /\ activating = {} /\ refcount = BootRefs /\ BootRefs \in Nat
    BY DEF Init, BootRefs
  <2> QED
    BY <2>1, FS_EmptySet DEF RefcountExact
<1> QED
  BY <1>1, RefcountStep, TypeCorrect, PTL DEF Spec

-----------------------------------------------------------------------------

(***************************************************************************)
(* With a single owner, release() sees a reference count of one exactly    *)
(* when nobody is left once the caller is gone.                            *)
(***************************************************************************)
LEMMA LastRelease ==
  ASSUME TypeOK, RefcountExact, activating = {}, NEW c \in Clients, Release(c)
  PROVE  /\ refcount \in Nat \ {0}
         /\ refcount = 1 <=> Users' = {}
         /\ Users # {}
<1>1. /\ holders \in SUBSET Clients /\ holders' \in SUBSET Clients
      /\ c \in holders /\ holders' = holders \ {c} /\ legacy' = legacy
  BY DEF TypeOK, Release
<1>2. /\ Cardinality(holders) \in Nat /\ Cardinality(holders) > 0
      /\ Cardinality(holders') = Cardinality(holders) - 1
      /\ Cardinality(holders') = 0 <=> holders' = {}
  BY <1>1, ClientSets
<1>3. refcount = Cardinality(holders) + BootRefs /\ BootRefs \in {0, 1}
  <2>1. Cardinality({}) = 0
    BY FS_EmptySet
  <2> QED
    BY <1>2, <2>1 DEF RefcountExact, BootRefs
<1>4. CASE legacy
  BY <1>1, <1>2, <1>3, <1>4 DEF BootRefs, Users
<1>5. CASE ~legacy
  BY <1>1, <1>2, <1>3, <1>5 DEF BootRefs, Users
<1> QED
  BY <1>4, <1>5 DEF TypeOK

(***************************************************************************)
(* Serialized calls keep at most one call in flight: an activate() in      *)
(* Initializing, or a deactivate() in Releasing with its deadline reached. *)
(***************************************************************************)
LEMMA CallsStep == Inv /\ [Next]_vars => CallsMatchState'
<1> SUFFICES ASSUME Inv, [Next]_vars, SingleOwner
             PROVE  CallsMatchState'
  BY DEF CallsMatchState
<1> USE FSMAssumption DEF Inv, TypeOK, CallsMatchState, CountsMatchState, Callable
<1>1. ASSUME NEW c \in Clients, DemandReturns(c)
      PROVE  CallsMatchState'
  BY <1>1 DEF DemandReturns, CountDemand, Hold, callVars
<1>2. ASSUME NEW c \in Clients, DemandActivates(c)
      PROVE  CallsMatchState'
  BY <1>2 DEF DemandActivates, CountDemand, historyVars
<1>3. ASSUME NEW c \in Clients, ActivateOk(c)
      PROVE  CallsMatchState'
  BY <1>3 DEF ActivateOk, Hold
<1>4. ASSUME NEW c \in Clients, ActivateRaises(c)
      PROVE  CallsMatchState'
  BY <1>4 DEF ActivateRaises, historyVars
<1>5. ASSUME NEW c \in Clients, Release(c)
      PROVE  CallsMatchState'
  BY <1>5 DEF Release, IsLastRelease, StartGrace, fsmVars, callVars
<1>6. CASE Tick
  BY <1>6 DEF Tick, GraceExpired, historyVars
<1>7. CASE DeactivateOk
  BY <1>7 DEF DeactivateOk, historyVars
<1>8. CASE DeactivateRaises
  BY <1>8 DEF DeactivateRaises, historyVars
<1>9. CASE Elapse
  BY <1>9 DEF Elapse, callVars
<1>10. CASE UNCHANGED vars
  BY <1>10 DEF vars, fsmVars, callVars, historyVars
<1> QED
  BY <1>1, <1>2, <1>3, <1>4, <1>5, <1>6, <1>7, <1>8, <1>9, <1>10
     DEF Next, ClientStep

(***************************************************************************)
(* Serialized calls keep Active for the states with users and the other    *)
(* states for those without.                                               *)
(***************************************************************************)
LEMMA CountsStep == Inv /\ [Next]_vars => CountsMatchState'
<1> SUFFICES ASSUME Inv, [Next]_vars, SingleOwner
             PROVE  CountsMatchState'
  BY DEF CountsMatchState
<1> USE FSMAssumption DEF CallsMatchState, CountsMatchState, Callable
<1>0. TypeOK /\ RefcountExact /\ CallsMatchState /\ CountsMatchState
  BY DEF Inv
<1>1. ASSUME NEW c \in Clients, DemandReturns(c)
      PROVE  CountsMatchState'
  BY <1>0, <1>1 DEF DemandReturns, CountDemand, Hold, callVars, Users, TypeOK, State
<1>2. ASSUME NEW c \in Clients, DemandActivates(c)
      PROVE  CountsMatchState'
  BY <1>0, <1>2 DEF DemandActivates, CountDemand, historyVars, Users
<1>3. ASSUME NEW c \in Clients, ActivateOk(c)
      PROVE  CountsMatchState'
  BY <1>0, <1>3 DEF ActivateOk, Hold, Users
<1>4. ASSUME NEW c \in Clients, ActivateRaises(c)
      PROVE  CountsMatchState'
  BY <1>0, <1>4 DEF ActivateRaises, historyVars, Users
<1>5. ASSUME NEW c \in Clients, Release(c)
      PROVE  CountsMatchState'
  <2>1. activating = {}
    BY <1>5 DEF Release
  <2>2. refcount \in Nat \ {0} /\ (refcount = 1 <=> Users' = {}) /\ Users # {}
    BY <1>0, <1>5, <2>1, LastRelease
  <2>3. state = "Active" /\ state' = IF refcount = 1 THEN "Releasing" ELSE "Active"
    BY <1>0, <1>5, <2>2 DEF Release, IsLastRelease, fsmVars, TypeOK, State
  <2> QED
    BY <2>2, <2>3
<1>6. CASE Tick
  <2>1. Users' = Users /\ activating = {}
    BY <1>6 DEF Tick, historyVars, Users
  <2>2. refcount = 0
    <3>1. Users = {}
      BY <1>0, <1>6 DEF Tick
    <3>2. holders = {} /\ BootRefs = 0
      BY <3>1 DEF Users, BootRefs
    <3> QED
      BY <1>0, <2>1, <3>2, FS_EmptySet DEF RefcountExact
  <2> QED
    BY <1>0, <1>6, <2>1, <2>2 DEF Tick
<1>7. CASE DeactivateOk
  BY <1>0, <1>7 DEF DeactivateOk, historyVars, Users
<1>8. CASE DeactivateRaises
  BY <1>0, <1>8 DEF DeactivateRaises, historyVars, Users
<1>9. CASE Elapse
  BY <1>0, <1>9 DEF Elapse, Users
<1>10. CASE UNCHANGED vars
  BY <1>0, <1>10 DEF vars, fsmVars, callVars, historyVars, Users
<1> QED
  BY <1>1, <1>2, <1>3, <1>4, <1>5, <1>6, <1>7, <1>8, <1>9, <1>10
     DEF Next, ClientStep

(***************************************************************************)
(* The grace timer runs in Releasing only, and keeps pace with the time    *)
(* since the last release.                                                 *)
(***************************************************************************)
LEMMA TimerStep == Inv /\ [Next]_vars => TimerMeasuresQuiet'
<1> SUFFICES ASSUME Inv, [Next]_vars, SingleOwner
             PROVE  TimerMeasuresQuiet'
  BY DEF TimerMeasuresQuiet
<1> USE FSMAssumption DEF CallsMatchState, CountsMatchState, TimerMeasuresQuiet,
                          QuietMeansUnused, Callable
<1>0. /\ TypeOK /\ RefcountExact /\ CallsMatchState /\ CountsMatchState
      /\ TimerMeasuresQuiet /\ QuietMeansUnused
  BY DEF Inv
<1>1. ASSUME NEW c \in Clients, DemandReturns(c)
      PROVE  TimerMeasuresQuiet'
  BY <1>0, <1>1 DEF DemandReturns, CountDemand
<1>2. ASSUME NEW c \in Clients, DemandActivates(c)
      PROVE  TimerMeasuresQuiet'
  BY <1>0, <1>2 DEF DemandActivates, CountDemand
<1>3. ASSUME NEW c \in Clients, ActivateOk(c)
      PROVE  TimerMeasuresQuiet'
  BY <1>0, <1>3 DEF ActivateOk, Hold
<1>4. ASSUME NEW c \in Clients, ActivateRaises(c)
      PROVE  TimerMeasuresQuiet'
  BY <1>0, <1>4 DEF ActivateRaises, historyVars
<1>5. ASSUME NEW c \in Clients, Release(c)
      PROVE  TimerMeasuresQuiet'
  <2>1. Users # {} /\ activating = {}
    BY <1>0, <1>5, LastRelease DEF Release
  <2>2. quiet = 0 /\ state = "Active" /\ quiet' = quiet
    BY <1>0, <1>5, <2>1 DEF Release, TypeOK, State
  <2> QED
    BY <1>0, <1>5, <2>2 DEF Release, StartGrace, fsmVars, TypeOK
<1>6. CASE Tick
  BY <1>0, <1>6 DEF Tick, historyVars
<1>7. CASE DeactivateOk
  BY <1>0, <1>7 DEF DeactivateOk
<1>8. CASE DeactivateRaises
  BY <1>0, <1>8 DEF DeactivateRaises
<1>9. CASE Elapse
  BY <1>0, <1>9 DEF Elapse, TypeOK
<1>10. CASE UNCHANGED vars
  BY <1>0, <1>10 DEF vars, fsmVars, callVars, historyVars
<1> QED
  BY <1>1, <1>2, <1>3, <1>4, <1>5, <1>6, <1>7, <1>8, <1>9, <1>10
     DEF Next, ClientStep

(***************************************************************************)
(* With clean failures the mechanism is bound in Active and Releasing      *)
(* only: the snap back to Active without activate() finds it bound.        *)
(***************************************************************************)
LEMMA BoundStep == Inv /\ [Next]_vars => BoundMatchesState'
<1> SUFFICES ASSUME Inv, [Next]_vars, SingleOwner, CleanFailures
             PROVE  BoundMatchesState'
  BY DEF BoundMatchesState
<1> USE DEF CallsMatchState, BoundMatchesState, Callable
<1>0. TypeOK /\ CallsMatchState /\ BoundMatchesState
  BY DEF Inv
<1>1. ASSUME NEW c \in Clients, DemandReturns(c)
      PROVE  BoundMatchesState'
  BY <1>0, <1>1 DEF DemandReturns, TypeOK, State
<1>2. ASSUME NEW c \in Clients, DemandActivates(c)
      PROVE  BoundMatchesState'
  BY <1>0, <1>2 DEF DemandActivates
<1>3. ASSUME NEW c \in Clients, ActivateOk(c)
      PROVE  BoundMatchesState'
  BY <1>0, <1>3 DEF ActivateOk
<1>4. ASSUME NEW c \in Clients, ActivateRaises(c)
      PROVE  BoundMatchesState'
  BY <1>0, <1>4 DEF ActivateRaises, FailureLeaves
<1>5. ASSUME NEW c \in Clients, Release(c)
      PROVE  BoundMatchesState'
  BY <1>0, <1>5 DEF Release, IsLastRelease, fsmVars
<1>6. CASE Tick
  BY <1>0, <1>6 DEF Tick
<1>7. CASE DeactivateOk
  BY <1>0, <1>7 DEF DeactivateOk
<1>8. CASE DeactivateRaises
  BY <1>0, <1>8 DEF DeactivateRaises, FailureLeaves
<1>9. CASE Elapse
  BY <1>0, <1>9 DEF Elapse
<1>10. CASE UNCHANGED vars
  BY <1>0, <1>10 DEF vars, fsmVars
<1> QED
  BY <1>1, <1>2, <1>3, <1>4, <1>5, <1>6, <1>7, <1>8, <1>9, <1>10
     DEF Next, ClientStep

(***************************************************************************)
(* The history variable restarts whenever somebody gets the gadget.        *)
(***************************************************************************)
LEMMA QuietStep == Inv /\ [Next]_vars => QuietMeansUnused'
<1> SUFFICES ASSUME TypeOK, QuietMeansUnused, [Next]_vars
             PROVE  QuietMeansUnused'
  BY DEF Inv
<1> USE DEF QuietMeansUnused
<1>1. ASSUME NEW c \in Clients, DemandReturns(c) \/ ActivateOk(c)
      PROVE  QuietMeansUnused'
  BY <1>1 DEF DemandReturns, ActivateOk, Hold
<1>2. ASSUME NEW c \in Clients, DemandActivates(c) \/ ActivateRaises(c)
      PROVE  QuietMeansUnused'
  BY <1>2 DEF DemandActivates, ActivateRaises, historyVars, Users
<1>3. ASSUME NEW c \in Clients, Release(c)
      PROVE  QuietMeansUnused'
  BY <1>3 DEF Release, Users
<1>4. CASE Elapse
  BY <1>4 DEF Elapse, Users
<1>5. CASE Tick \/ DeactivateOk \/ DeactivateRaises \/ UNCHANGED vars
  BY <1>5 DEF Tick, DeactivateOk, DeactivateRaises, vars, historyVars, Users
<1> QED
  BY <1>1, <1>2, <1>3, <1>4, <1>5 DEF Next, ClientStep

(***************************************************************************)
(* The constructor, lazy or legacy, establishes the inductive invariant.   *)
(***************************************************************************)
LEMMA InitInv == Init => Inv
<1> SUFFICES ASSUME Init
             PROVE  Inv
  OBVIOUS
<1>1. TypeOK
  BY FSMAssumption DEF Init, TypeOK, BootRefs, State
<1>2. RefcountExact
  <2>1. holders = {} /\ activating = {} /\ refcount = BootRefs /\ BootRefs \in Nat
    BY DEF Init, BootRefs
  <2> QED
    BY <2>1, FS_EmptySet DEF RefcountExact
<1>3. CallsMatchState /\ CountsMatchState
  BY DEF Init, CallsMatchState, CountsMatchState, Users
<1>4. TimerMeasuresQuiet /\ QuietMeansUnused
  BY DEF Init, TimerMeasuresQuiet, QuietMeansUnused, Users
<1>5. BoundMatchesState
  BY DEF Init, BoundMatchesState
<1> QED
  BY <1>1, <1>2, <1>3, <1>4, <1>5 DEF Inv

(***************************************************************************)
(* Every step preserves the inductive invariant.                           *)
(***************************************************************************)
LEMMA InvStep == Inv /\ [Next]_vars => Inv'
<1> SUFFICES ASSUME Inv, [Next]_vars
             PROVE  Inv'
  OBVIOUS
<1>1. TypeOK' /\ RefcountExact'
  BY TypeStep, RefcountStep DEF Inv
<1>2. CallsMatchState' /\ CountsMatchState'
  BY CallsStep, CountsStep
<1>3. TimerMeasuresQuiet' /\ BoundMatchesState' /\ QuietMeansUnused'
  BY TimerStep, BoundStep, QuietStep
<1> QED
  BY <1>1, <1>2, <1>3 DEF Inv

(***************************************************************************)
(* The inductive invariant holds of every behaviour, whatever the          *)
(* constants.                                                              *)
(***************************************************************************)
THEOREM Invariance == Spec => []Inv
<1> QED
  BY InitInv, InvStep, PTL DEF Spec

(***************************************************************************)
(* A client whose demand() has returned has the gadget bound, when calls   *)
(* are serialized and a mechanism call that raises changes nothing.        *)
(***************************************************************************)
THEOREM HeldIsBound ==
  ASSUME SingleOwner, CleanFailures
  PROVE  Spec => []HeldMeansBound
<1>1. Inv => HeldMeansBound
  <2> SUFFICES ASSUME Inv, Users # {}
               PROVE  bound
    BY DEF HeldMeansBound
  <2>1. state = "Active"
    BY DEF Inv, CountsMatchState, TypeOK, State
  <2> QED
    BY <2>1 DEF Inv, BoundMatchesState
<1> QED
  BY <1>1, Invariance, PTL

(***************************************************************************)
(* The gadget is unbound only by a tick() that finds it unused, and the    *)
(* deadline it waited for is a whole grace period after the last release.  *)
(***************************************************************************)
LEMMA UnbindStep ==
  ASSUME SingleOwner, CleanFailures, Inv, [Next]_vars, bound, ~bound'
  PROVE  DeactivateOk /\ Users = {} /\ Users' = {} /\ quiet = Grace /\ quiet' = Grace
<1>1. DeactivateOk
  <2>1. ASSUME NEW c \in Clients, ClientStep(c)
        PROVE  FALSE
    <3>1. CASE ActivateOk(c)
      BY <3>1 DEF ActivateOk
    <3>2. CASE ActivateRaises(c)
      <4>1. PICK b \in BOOLEAN : FailureLeaves(b) /\ bound' = b
        BY <3>2 DEF ActivateRaises
      <4> QED
        BY <4>1 DEF FailureLeaves
    <3>3. CASE DemandReturns(c) \/ DemandActivates(c) \/ Release(c)
      BY <3>3 DEF DemandReturns, DemandActivates, Release
    <3> QED
      BY <2>1, <3>1, <3>2, <3>3 DEF ClientStep
  <2>2. ASSUME DeactivateRaises
        PROVE  FALSE
    <3>1. PICK b \in BOOLEAN : FailureLeaves(b) /\ bound' = b
      BY <2>2 DEF DeactivateRaises
    <3> QED
      BY <3>1 DEF FailureLeaves
  <2>3. ~Tick /\ ~Elapse /\ ~UNCHANGED vars
    BY DEF Tick, Elapse, vars
  <2> QED
    BY <2>1, <2>2, <2>3 DEF Next
<1>2. state = "Releasing" /\ graceLeft = 0
  BY <1>1 DEF DeactivateOk, Inv, TypeOK, CallsMatchState
<1>3. Users = {} /\ Users' = {}
  BY <1>1, <1>2 DEF DeactivateOk, historyVars, Inv, CountsMatchState, Users
<1>4. quiet = Grace /\ quiet' = Grace
  BY <1>1, <1>2, FSMAssumption
     DEF DeactivateOk, historyVars, Inv, TypeOK, TimerMeasuresQuiet
<1> QED
  BY <1>1, <1>3, <1>4

(***************************************************************************)
(* The gadget goes down only after it has been unused for a whole grace    *)
(* period.                                                                 *)
(***************************************************************************)
THEOREM NeverFlaps ==
  ASSUME SingleOwner, CleanFailures
  PROVE  Spec => NoFlap
<1>1. Inv /\ [Next]_vars => (bound /\ ~bound' => Users = {} /\ quiet = Grace)
  BY UnbindStep
<1> QED
  BY <1>1, Invariance, PTL DEF Spec, NoFlap

(***************************************************************************)
(* Each step of the machine is a step of the lifecycle it promises, or     *)
(* changes nothing a feature can see.                                      *)
(***************************************************************************)
LEMMA LifecycleStep ==
  ASSUME SingleOwner, CleanFailures, Inv, [Next]_vars
  PROVE  [Lifecycle!Next]_(Lifecycle!vars)
<1> USE DEF Lifecycle!Next, Lifecycle!vars
<1>1. ASSUME NEW c \in Clients, DemandReturns(c) \/ ActivateOk(c)
      PROVE  Lifecycle!Next
  <2>1. Users' = Users \cup {c} /\ quiet' = 0
    BY <1>1 DEF DemandReturns, ActivateOk, Hold, Users
  <2>2. bound' = TRUE
    <3>1. CASE ActivateOk(c)
      BY <3>1 DEF ActivateOk
    <3>2. CASE DemandReturns(c)
      <4>1. activating = {} /\ state # "Idle"
        BY <3>2 DEF DemandReturns, Callable
      <4>2. state \in {"Active", "Releasing"}
        BY <4>1 DEF Inv, TypeOK, State, CallsMatchState
      <4> QED
        BY <3>2, <4>2 DEF DemandReturns, Inv, TypeOK, BoundMatchesState
    <3> QED
      BY <1>1, <3>1, <3>2
  <2> QED
    BY <2>1, <2>2 DEF Lifecycle!Acquire
<1>2. ASSUME NEW c \in Clients, DemandActivates(c) \/ ActivateRaises(c)
      PROVE  UNCHANGED Lifecycle!vars
  <2>1. UNCHANGED <<holders, legacy, quiet>>
    BY <1>2 DEF DemandActivates, ActivateRaises, historyVars
  <2>2. UNCHANGED bound
    BY <1>2 DEF DemandActivates, ActivateRaises, FailureLeaves
  <2> QED
    BY <2>1, <2>2 DEF Users
<1>3. ASSUME NEW c \in Clients, Release(c)
      PROVE  Lifecycle!Next
  <2>1. c \in Users /\ Users' = Users \ {c} /\ UNCHANGED <<bound, quiet>>
    BY <1>3, FSMAssumption DEF Release, Users
  <2> QED
    BY <2>1 DEF Lifecycle!Drop
<1>4. CASE DeactivateOk
  <2>1. bound
    BY <1>4 DEF DeactivateOk, Inv, TypeOK, CallsMatchState, BoundMatchesState
  <2>2. ~bound'
    BY <1>4 DEF DeactivateOk
  <2>3. Users = {} /\ Users' = {} /\ quiet = Grace /\ quiet' = Grace
    BY <2>1, <2>2, UnbindStep
  <2>4. bound' = FALSE
    BY <1>4 DEF DeactivateOk
  <2> QED
    BY <2>3, <2>4 DEF Lifecycle!TakeDown
<1>5. CASE Elapse
  <2>1. UNCHANGED <<Users, bound>>
    BY <1>5 DEF Elapse, Users
  <2>2. quiet' = IF Users = {} /\ quiet < Grace THEN quiet + 1 ELSE quiet
    BY <1>5 DEF Elapse
  <2> QED
    BY <2>1, <2>2 DEF Lifecycle!Elapse
<1>6. CASE Tick \/ DeactivateRaises \/ UNCHANGED vars
  BY <1>6 DEF Tick, DeactivateRaises, FailureLeaves, vars, historyVars, Users
<1> QED
  BY <1>1, <1>2, <1>3, <1>4, <1>5, <1>6 DEF Next, ClientStep

(***************************************************************************)
(* gadget_fsm.py implements the lifecycle it promises.                     *)
(***************************************************************************)
THEOREM Implementation ==
  ASSUME SingleOwner, CleanFailures
  PROVE  Spec => ImplementsLifecycle
<1>1. Init => Lifecycle!Init
  <2> SUFFICES ASSUME Init
               PROVE  Lifecycle!Init
    OBVIOUS
  <2>1. legacy \in BOOLEAN /\ holders = {} /\ bound = legacy
        /\ quiet = IF legacy THEN 0 ELSE Grace
    BY DEF Init
  <2>2. CASE legacy
    BY <2>1, <2>2 DEF Lifecycle!Init, Users
  <2>3. CASE ~legacy
    BY <2>1, <2>3 DEF Lifecycle!Init, Users
  <2> QED
    BY <2>1, <2>2, <2>3
<1>2. Inv /\ [Next]_vars => [Lifecycle!Next]_(Lifecycle!vars)
  BY LifecycleStep
<1> QED
  BY <1>1, <1>2, Invariance, PTL DEF Spec, ImplementsLifecycle, Lifecycle!Spec

=============================================================================
