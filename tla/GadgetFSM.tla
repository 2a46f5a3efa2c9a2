----------------------------- MODULE GadgetFSM -----------------------------
(***************************************************************************)
(* gadget_fsm.py: the reference-counted state machine that brings the USB  *)
(* gadget up on the first demand() and takes it down by tick() once a      *)
(* grace period has passed since the last release().                       *)
(*                                                                         *)
(* demand() and tick() call into the mechanism (a bind, an unbind, a       *)
(* pull-up), which takes time and may raise: each such call is split where *)
(* it enters the mechanism, so that time passes, and other calls are made, *)
(* while it is in flight.  The class has no lock; the design's "single     *)
(* owner serializes all transitions" is the constant SingleOwner.          *)
(***************************************************************************)
EXTENDS Naturals, FiniteSets

CONSTANTS
  Clients,        \* usage windows: each demands once and releases once, again and again
  BootCompat,     \* the holder "__boot_compat__" of legacy mode: it never releases
  Grace,          \* grace_seconds, in units of the clock
  NoDeadline,     \* _release_deadline = None
  SingleOwner,    \* calls are serialized: none is made while another is in flight
  CleanFailures,  \* a mechanism call that raises has changed nothing
  MaxFails,       \* bound of the model: mechanism calls that raise
  MaxTicks        \* bound of the model: tick() calls inside deactivate() at a time

ASSUME FSMAssumption ==
  /\ IsFiniteSet(Clients)
  /\ BootCompat \notin Clients
  /\ Grace \in Nat
  /\ NoDeadline \notin Nat
  /\ SingleOwner \in BOOLEAN
  /\ CleanFailures \in BOOLEAN
  /\ MaxFails \in Nat
  /\ MaxTicks \in Nat \ {0}

VARIABLES
  state,          \* _state
  refcount,       \* _refcount
  graceLeft,      \* _release_deadline - now, not below 0; or NoDeadline
  bound,          \* the mechanism: the gadget is bound to the controller
  activating,     \* the clients whose demand() is inside activate()
  deactivating,   \* the tick() calls that are inside deactivate()
  holders,        \* the clients whose demand() has returned, release() still to come
  legacy,         \* default_active: the argument of the constructor
  fails,          \* the mechanism calls that have raised so far
  quiet           \* history: time since anybody held the gadget, counted up to Grace

fsmVars == <<state, refcount, graceLeft>>
callVars == <<activating, deactivating>>
historyVars == <<holders, quiet>>
vars == <<fsmVars, bound, callVars, historyVars, legacy, fails>>

State == {"Idle", "Initializing", "Active", "Releasing"}

TypeOK ==
  /\ state \in State
  /\ refcount \in Nat
  /\ graceLeft \in 0 .. Grace \cup {NoDeadline}
  /\ bound \in BOOLEAN
  /\ activating \in SUBSET Clients
  /\ deactivating \in 0 .. MaxTicks
  /\ holders \in SUBSET Clients
  /\ legacy \in BOOLEAN
  /\ fails \in 0 .. MaxFails
  /\ quiet \in 0 .. Grace

\* Everyone who counts on the gadget, the permanent user of legacy mode included.
Users == holders \cup (IF legacy THEN {BootCompat} ELSE {})

BootRefs == IF legacy THEN 1 ELSE 0

-----------------------------------------------------------------------------

\* __init__; with default_active it has called demand("__boot_compat__"), and when
\* that raises there is no object.
Init ==
  /\ legacy \in BOOLEAN
  /\ state = IF legacy THEN "Active" ELSE "Idle"
  /\ refcount = BootRefs
  /\ graceLeft = NoDeadline
  /\ bound = legacy
  /\ activating = {}
  /\ deactivating = 0
  /\ holders = {}
  /\ fails = 0
  /\ quiet = IF legacy THEN 0 ELSE Grace

\* A call can be made: any time without a single owner, else when none is in flight.
Callable == SingleOwner => activating = {} /\ deactivating = 0

\* demand() returns to c: from now on c counts on the gadget.
Hold(c) ==
  /\ holders' = holders \cup {c}
  /\ quiet' = 0

\* The effect of a mechanism call that raises.
FailureLeaves(b) == CleanFailures => b = bound

-----------------------------------------------------------------------------
\* demand(feature_id)

\* Faulty: the demands are not counted, only that there is one.
CountDemandAsFlag ==
  /\ refcount' = 1
  /\ graceLeft' = NoDeadline

CountDemand ==
  /\ refcount' = refcount + 1
  /\ graceLeft' = NoDeadline

\* A demand that finds the machine Active, or still Initializing for another caller,
\* returns at once; one that finds it Releasing snaps back to Active.
DemandReturns(c) ==
  /\ Callable
  /\ c \notin holders \cup activating
  /\ state # "Idle"
  /\ CountDemand
  /\ state' = IF state = "Releasing" THEN "Active" ELSE state
  /\ Hold(c)
  /\ UNCHANGED <<bound, callVars, legacy, fails>>

DemandActivates(c) ==
  /\ Callable
  /\ c \notin holders \cup activating
  /\ state = "Idle"
  /\ CountDemand
  /\ state' = "Initializing"
  /\ activating' = activating \cup {c}
  /\ UNCHANGED <<bound, deactivating, historyVars, legacy, fails>>

ActivateOk(c) ==
  /\ c \in activating
  /\ activating' = activating \ {c}
  /\ bound' = TRUE
  /\ state' = "Active"
  /\ Hold(c)
  /\ UNCHANGED <<refcount, graceLeft, deactivating, legacy, fails>>

\* Faulty: the rollback forgets the reference that demand() took.
RolledBackCountKept == refcount

\* max(0, self._refcount - 1)
RolledBackCount == IF refcount > 0 THEN refcount - 1 ELSE 0

ActivateRaises(c) ==
  /\ c \in activating
  /\ fails < MaxFails
  /\ fails' = fails + 1
  /\ activating' = activating \ {c}
  /\ \E b \in BOOLEAN : FailureLeaves(b) /\ bound' = b
  /\ refcount' = RolledBackCount
  /\ state' = "Idle"
  /\ UNCHANGED <<graceLeft, deactivating, historyVars, legacy>>

-----------------------------------------------------------------------------
\* release(feature_id)

IsLastRelease == refcount = 1 /\ state = "Active"

\* Faulty: Releasing is entered without a deadline.
StartGraceForgotten == NoDeadline

\* self._now() + self._grace
StartGrace == Grace

Release(c) ==
  /\ Callable
  /\ c \in holders
  /\ IF refcount = 0
     THEN UNCHANGED fsmVars
     ELSE /\ refcount' = refcount - 1
          /\ IF IsLastRelease
             THEN state' = "Releasing" /\ graceLeft' = StartGrace
             ELSE UNCHANGED <<state, graceLeft>>
  /\ holders' = holders \ {c}
  /\ UNCHANGED <<bound, callVars, quiet, legacy, fails>>

-----------------------------------------------------------------------------
\* tick()

\* Faulty: the first tick of Releasing takes the gadget down.
GraceExpiredAtOnce == graceLeft # NoDeadline

\* self._now() >= self._release_deadline
GraceExpired == graceLeft = 0

\* A tick that finds nothing to do is a stuttering step.
Tick ==
  /\ Callable
  /\ state = "Releasing" /\ graceLeft # NoDeadline
  /\ IF refcount > 0
     THEN /\ state' = "Active"
          /\ graceLeft' = NoDeadline
          /\ UNCHANGED deactivating
     ELSE /\ GraceExpired
          /\ deactivating < MaxTicks
          /\ deactivating' = deactivating + 1
          /\ UNCHANGED <<state, graceLeft>>
  /\ UNCHANGED <<refcount, bound, activating, historyVars, legacy, fails>>

DeactivateOk ==
  /\ deactivating > 0
  /\ deactivating' = deactivating - 1
  /\ bound' = FALSE
  /\ state' = "Idle"
  /\ graceLeft' = NoDeadline
  /\ UNCHANGED <<refcount, activating, historyVars, legacy, fails>>

\* The machine stays Releasing; the finally clause clears the deadline here too.
DeactivateRaises ==
  /\ deactivating > 0
  /\ fails < MaxFails
  /\ fails' = fails + 1
  /\ deactivating' = deactivating - 1
  /\ \E b \in BOOLEAN : FailureLeaves(b) /\ bound' = b
  /\ graceLeft' = NoDeadline
  /\ UNCHANGED <<state, refcount, activating, historyVars, legacy>>

-----------------------------------------------------------------------------

\* One unit of the injected clock.
Elapse ==
  /\ graceLeft' = IF graceLeft \in 1 .. Grace THEN graceLeft - 1 ELSE graceLeft
  /\ quiet' = IF Users = {} /\ quiet < Grace THEN quiet + 1 ELSE quiet
  /\ <<graceLeft, quiet>>' # <<graceLeft, quiet>>
  /\ UNCHANGED <<state, refcount, bound, callVars, holders, legacy, fails>>

ClientStep(c) ==
  \/ DemandReturns(c)
  \/ DemandActivates(c)
  \/ ActivateOk(c)
  \/ ActivateRaises(c)
  \/ Release(c)

Next ==
  \/ \E c \in Clients : ClientStep(c)
  \/ Tick
  \/ DeactivateOk
  \/ DeactivateRaises
  \/ Elapse

Spec == Init /\ [][Next]_vars

\* tick() is called periodically, time passes, and a mechanism call returns in the end
\* (it may raise, MaxFails times at most).  Nobody is obliged to demand or to release.
Fairness ==
  /\ WF_vars(Tick)
  /\ WF_vars(Elapse)
  /\ WF_vars(DeactivateOk \/ DeactivateRaises)
  /\ \A c \in Clients : WF_vars(ActivateOk(c) \/ ActivateRaises(c))

FairSpec == Spec /\ Fairness

-----------------------------------------------------------------------------

(***************************************************************************)
(* _refcount counts the callers that hold the gadget and the one whose     *)
(* activate() is in flight, and nothing else: no path through demand(),    *)
(* its rollback and release() leaks a reference or drops one twice.  It    *)
(* needs no single owner.                                                  *)
(***************************************************************************)
RefcountExact ==
  /\ holders \cap activating = {}
  /\ refcount = Cardinality(holders) + Cardinality(activating) + BootRefs

(***************************************************************************)
(* A client whose demand() has returned has the gadget bound until it      *)
(* releases: tick() never takes it down under a holder, and the snap back  *)
(* from Releasing, which skips activate(), finds the gadget still bound.   *)
(* (For serialized calls and a mechanism that fails cleanly.)              *)
(***************************************************************************)
HeldMeansBound == Users # {} => bound

(***************************************************************************)
(* Anti-flapping: the gadget is unbound only when nobody has held it for a *)
(* whole grace period, however often it was demanded and released before.  *)
(***************************************************************************)
NoFlap == [][bound /\ ~bound' => Users = {} /\ quiet = Grace]_vars

(***************************************************************************)
(* As long as the mechanism does not fail, Releasing always ends: by a new *)
(* demand or by Idle.                                                      *)
(***************************************************************************)
ReleasingEnds ==
  (state = "Releasing" /\ fails = 0) ~> (state # "Releasing" \/ fails > 0)

(***************************************************************************)
(* The comment at gadget_fsm.py:114 says that after a failed deactivate    *)
(* the machine stays in Releasing and "caller/watchdog may retry": a later *)
(* tick() would then end Releasing once the mechanism works again.         *)
(***************************************************************************)
RetryEndsReleasing == (state = "Releasing") ~> (state # "Releasing")

\* The promise that the machine implements.
Lifecycle == INSTANCE GadgetLifecycle WITH
  Clients <- Clients \cup {BootCompat}, users <- Users, up <- bound

ImplementsLifecycle == Lifecycle!Spec

(***************************************************************************)
(* The inductive invariant.  The parts that need the single owner, or a    *)
(* mechanism that fails cleanly, say so.                                   *)
(***************************************************************************)

\* One call in flight at a time, and the state says which.
CallsMatchState ==
  SingleOwner =>
    /\ deactivating > 0 => activating = {} /\ deactivating = 1
    /\ (state = "Initializing") <=> (activating # {})
    /\ \A c, d \in activating : c = d
    /\ deactivating > 0 => state = "Releasing" /\ graceLeft = 0

\* Who is counted in which state.
CountsMatchState ==
  SingleOwner =>
    /\ state \in {"Idle", "Initializing", "Releasing"} => Users = {}
    /\ state = "Active" => Users # {}

\* The timer runs in Releasing only, and it measures how long nobody has held the gadget.
TimerMeasuresQuiet ==
  SingleOwner =>
    (graceLeft # NoDeadline => state = "Releasing" /\ quiet + graceLeft = Grace)

\* Active and Releasing are the states in which the gadget is bound.
BoundMatchesState ==
  SingleOwner /\ CleanFailures => (bound <=> (state \in {"Active", "Releasing"}))

QuietMeansUnused == Users # {} => quiet = 0

Inv ==
  /\ TypeOK
  /\ RefcountExact
  /\ CallsMatchState
  /\ CountsMatchState
  /\ TimerMeasuresQuiet
  /\ BoundMatchesState
  /\ QuietMeansUnused

=============================================================================
