-------------------------- MODULE GadgetLifecycle --------------------------
(***************************************************************************)
(* What the g_service lifecycle promises to the features that need USB     *)
(* device mode (docs/GADGET_LIFECYCLE_DESIGN.md, sections 3 and 4), without *)
(* the states, the reference count and the timer that gadget_fsm.py uses:  *)
(* the gadget is up for as long as somebody uses it, and it goes down only *)
(* after nobody has used it for a whole grace period (no flapping).        *)
(***************************************************************************)
EXTENDS Naturals

CONSTANTS
  Clients,      \* usage windows of features: the callers of demand and release
  Grace         \* the grace period, in units of the clock

VARIABLES
  users,        \* the clients that have the gadget
  up,           \* the gadget is bound: a USB host can see it
  quiet         \* time since the last user left, counted up to Grace

vars == <<users, up, quiet>>

\* The gadget boots down and unused, or up for a permanent user (legacy mode).
Init ==
  /\ users \in SUBSET Clients
  /\ up = (users # {})
  /\ quiet = IF users = {} THEN Grace ELSE 0

Acquire(c) ==
  /\ users' = users \cup {c}
  /\ up' = TRUE
  /\ quiet' = 0

Drop(c) ==
  /\ c \in users
  /\ users' = users \ {c}
  /\ UNCHANGED <<up, quiet>>

Elapse ==
  /\ users = {}
  /\ quiet < Grace
  /\ quiet' = quiet + 1
  /\ UNCHANGED <<users, up>>

TakeDown ==
  /\ users = {}
  /\ quiet = Grace
  /\ up' = FALSE
  /\ UNCHANGED <<users, quiet>>

Next ==
  \/ \E c \in Clients : Acquire(c) \/ Drop(c)
  \/ Elapse
  \/ TakeDown

Spec == Init /\ [][Next]_vars

=============================================================================
