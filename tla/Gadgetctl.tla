----------------------------- MODULE Gadgetctl -----------------------------
(***************************************************************************)
(* gadgetctl.sh: the command that loads the gadget module g_service and    *)
(* reports on it through /tmp/usb_gadget_state.                            *)
(*                                                                         *)
(* Several shells run it at a time (an engineer, ensure_gadget_up.py, a    *)
(* feature hook); a shell is killed when its telnet slot is lost.  A step  *)
(* is one look at /proc/modules, one write of the state file or one        *)
(* insmod.  The two greps of guard() are one step: a protected module that *)
(* is gone does not come back before the next boot, so what they find in   *)
(* two looks is what one of the looks would have found.                    *)
(***************************************************************************)
CONSTANTS
  Shells,         \* the shells that run gadgetctl
  LoadedAtBoot    \* the firmware loads g_service when it boots

Protected == {"u_service", "usb_f_service"}     \* the modules guard() asks for
GADGET_MOD == "g_service"
Module == Protected \cup {GADGET_MOD}

ASSUME GadgetctlAssumption == LoadedAtBoot \in BOOLEAN

VARIABLES
  modules,        \* /proc/modules
  refcnt,         \* the references to g_service: none or some
  STATE_FILE,     \* what the state file says; "" is no file
  pc,             \* where each shell is
  st,             \* what a status command has found, or has printed
  code,           \* the exit code of each shell
  overlap,        \* history: two ups were under way at a time since the boot
  killed          \* history: an up was killed since the boot

shellVars == <<pc, st, code>>
vars == <<modules, refcnt, STATE_FILE, shellVars, overlap, killed>>

\* Where an up that has not found the module, or has yet to write what it did, may be.
UnderWay == {"mark_init", "insmod", "mark_active", "mark_idle"}
Place == {"idle", "probe"} \cup UnderWay \cup {"read_file"}
Word == {"Idle", "Active", "Loaded-Idle", "Initializing", "Releasing"}

TypeOK ==
  /\ modules \in SUBSET Module
  /\ refcnt \in {0, 1}
  /\ STATE_FILE \in Word \cup {""}
  /\ pc \in [Shells -> Place]
  /\ st \in [Shells -> Word \cup {""}]
  /\ code \in [Shells -> {0, 1, 3}]
  /\ overlap \in BOOLEAN
  /\ killed \in BOOLEAN

AtBoot == IF LoadedAtBoot THEN Module ELSE Protected

Init ==
  /\ modules = AtBoot
  /\ refcnt = 0
  /\ STATE_FILE = ""
  /\ pc = [s \in Shells |-> "idle"]
  /\ st = [s \in Shells |-> ""]
  /\ code = [s \in Shells |-> 0]
  /\ overlap = FALSE
  /\ killed = FALSE

is_loaded(m) == m \in modules
guard == Protected \subseteq modules

Goto(s, place) == pc' = [pc EXCEPT ![s] = place]
Return(s, n) == Goto(s, "idle") /\ code' = [code EXCEPT ![s] = n]

-----------------------------------------------------------------------------
\* gadgetctl up

Up(s) ==
  /\ pc[s] = "idle"
  /\ IF guard THEN Goto(s, "probe") /\ UNCHANGED code ELSE Return(s, 1)
  /\ st' = [st EXCEPT ![s] = ""]
  /\ UNCHANGED <<modules, refcnt, STATE_FILE, overlap, killed>>

\* Faulty: the session is announced before the module is loaded.
AfterProbeEager(s) == "mark_active"

AfterProbe(s) == IF is_loaded(GADGET_MOD) THEN "mark_active" ELSE "mark_init"

Probe(s) ==
  /\ pc[s] = "probe"
  /\ Goto(s, AfterProbe(s))
  /\ overlap' = (overlap \/ \E t \in Shells \ {s} : pc[t] \in UnderWay)
  /\ UNCHANGED <<modules, refcnt, STATE_FILE, st, code, killed>>

MarkInitializing(s) ==
  /\ pc[s] = "mark_init"
  /\ STATE_FILE' = "Initializing"
  /\ Goto(s, "insmod")
  /\ UNCHANGED <<modules, refcnt, st, code, overlap, killed>>

\* Faulty: the two branches after insmod are swapped.
AfterInsmodSwapped(ok) == IF ok THEN "mark_idle" ELSE "mark_active"

AfterInsmod(ok) == IF ok THEN "mark_active" ELSE "mark_idle"

\* It fails when the module is there by now, and may fail for reasons of its own.
Insmod(s) ==
  /\ pc[s] = "insmod"
  /\ \E ok \in BOOLEAN :
       /\ ok => ~is_loaded(GADGET_MOD)
       /\ modules' = IF ok THEN modules \cup {GADGET_MOD} ELSE modules
       /\ Goto(s, AfterInsmod(ok))
  /\ UNCHANGED <<refcnt, STATE_FILE, st, code, overlap, killed>>

MarkActive(s) ==
  /\ pc[s] = "mark_active"
  /\ STATE_FILE' = "Active"
  /\ Return(s, 0)
  /\ UNCHANGED <<modules, refcnt, st, overlap, killed>>

\* Faulty: a failed insmod leaves the state file alone.
FailedWordForgotten == STATE_FILE

FailedWord == "Idle"

MarkFailed(s) ==
  /\ pc[s] = "mark_idle"
  /\ STATE_FILE' = FailedWord
  /\ Return(s, 1)
  /\ UNCHANGED <<modules, refcnt, st, overlap, killed>>

-----------------------------------------------------------------------------
\* gadgetctl down: disabled; what follows its "return 3" never runs

Down(s) ==
  /\ pc[s] = "idle"
  /\ Return(s, 3)
  /\ st' = [st EXCEPT ![s] = ""]
  /\ UNCHANGED <<modules, refcnt, STATE_FILE, overlap, killed>>

-----------------------------------------------------------------------------
\* gadgetctl status: the module first, then the state file

Status(s) ==
  /\ pc[s] = "idle"
  /\ st' = [st EXCEPT ![s] =
       IF is_loaded(GADGET_MOD) THEN IF refcnt = 0 THEN "Loaded-Idle" ELSE "Active" ELSE "Idle"]
  /\ Goto(s, "read_file")
  /\ UNCHANGED <<modules, refcnt, STATE_FILE, code, overlap, killed>>

\* The words of the state file that are preferred to what /proc/modules says.
Preferred == {"Initializing", "Releasing"}

ReadStateFile(s) ==
  /\ pc[s] = "read_file"
  /\ st' = IF STATE_FILE \in Preferred THEN [st EXCEPT ![s] = STATE_FILE] ELSE st
  /\ Return(s, 0)
  /\ UNCHANGED <<modules, refcnt, STATE_FILE, overlap, killed>>

-----------------------------------------------------------------------------
\* The surroundings

Kill(s) ==
  /\ pc[s] # "idle"
  /\ Goto(s, "idle")
  /\ st' = [st EXCEPT ![s] = ""]
  /\ killed' = (killed \/ pc[s] \in UnderWay)
  /\ UNCHANGED <<modules, refcnt, STATE_FILE, code, overlap>>

\* A session with the computer takes a reference, and gives it back.
Session ==
  /\ is_loaded(GADGET_MOD)
  /\ refcnt' \in {0, 1} \ {refcnt}
  /\ UNCHANGED <<modules, STATE_FILE, shellVars, overlap, killed>>

\* Something else breaks the transport stack of Live TV.
LoseTransport ==
  /\ \E m \in Protected \cap modules : modules' = modules \ {m}
  /\ UNCHANGED <<refcnt, STATE_FILE, shellVars, overlap, killed>>

PowerCycle ==
  /\ modules' = AtBoot
  /\ refcnt' = 0
  /\ STATE_FILE' = ""
  /\ pc' = [s \in Shells |-> "idle"]
  /\ st' = [s \in Shells |-> ""]
  /\ UNCHANGED code
  /\ overlap' = FALSE
  /\ killed' = FALSE

ShellStep(s) ==
  Up(s) \/ Probe(s) \/ MarkInitializing(s) \/ Insmod(s) \/ MarkActive(s) \/ MarkFailed(s)
  \/ Down(s) \/ Status(s) \/ ReadStateFile(s) \/ Kill(s)

Next == (\E s \in Shells : ShellStep(s)) \/ Session \/ LoseTransport \/ PowerCycle

Spec == Init /\ [][Next]_vars

-----------------------------------------------------------------------------

(***************************************************************************)
(* Whatever announces the module, the state file or the answer of a        *)
(* finished status command, the module is loaded.                          *)
(***************************************************************************)
ActiveIsHonest ==
  /\ STATE_FILE = "Active" => is_loaded(GADGET_MOD)
  /\ \A s \in Shells : st[s] \in {"Active", "Loaded-Idle"} => is_loaded(GADGET_MOD)

(***************************************************************************)
(* The file says Idle of a loaded module only if two ups were under way at *)
(* a time: the one that failed writes last.                                *)
(***************************************************************************)
IdleIsHonest == STATE_FILE = "Idle" /\ is_loaded(GADGET_MOD) => overlap

(***************************************************************************)
(* The dashboard is not left at Initializing: an up is still under way, or *)
(* was killed half-way.                                                    *)
(***************************************************************************)
InitializingEnds ==
  STATE_FILE = "Initializing" => killed \/ \E s \in Shells : pc[s] \in UnderWay \ {"mark_init"}

\* What keeps the honesty of the file: where each shell is tells what it may write.
PlaceInv ==
  /\ \A s \in Shells : pc[s] = "mark_active" => is_loaded(GADGET_MOD)
  /\ refcnt # 0 => is_loaded(GADGET_MOD)
  /\ ~overlap => \A s, t \in Shells : pc[s] \in UnderWay /\ pc[t] \in UnderWay => s = t
  /\ ~overlap => \A s \in Shells : pc[s] \in {"mark_init", "mark_idle", "insmod"} => ~is_loaded(GADGET_MOD)
  /\ ~overlap => \A s \in Shells : pc[s] = "insmod" => STATE_FILE = "Initializing"

Inv == TypeOK /\ ActiveIsHonest /\ IdleIsHonest /\ InitializingEnds /\ PlaceInv

=============================================================================
