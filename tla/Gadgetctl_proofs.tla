-------------------------- MODULE Gadgetctl_proofs --------------------------
(***************************************************************************)
(* Proofs about Gadgetctl, for any set of shells: however many run the     *)
(* command at a time, whichever are killed, the state file is as honest as *)
(* the model checker finds it for three of them.                           *)
(***************************************************************************)
EXTENDS Gadgetctl, TLAPS

USE DEF Module, Protected, GADGET_MOD, Place, UnderWay, Word, is_loaded

\* The modules of a boot are modules.
LEMMA BootType == AtBoot \in SUBSET Module
BY DEF AtBoot

\* The initial states satisfy the invariant: no file, no shell at work.
LEMMA InitInv == Init => Inv
<1> SUFFICES ASSUME Init PROVE Inv
  OBVIOUS
<1>1. /\ pc = [s \in Shells |-> "idle"] /\ st = [s \in Shells |-> ""]
      /\ code = [s \in Shells |-> 0] /\ refcnt = 0
      /\ modules = AtBoot /\ STATE_FILE = ""
  BY DEF Init
<1>2. overlap = FALSE /\ killed = FALSE
  BY DEF Init
<1>3. /\ pc \in [Shells -> Place] /\ st \in [Shells -> Word \cup {""}]
      /\ code \in [Shells -> {0, 1, 3}] /\ refcnt \in {0, 1}
      /\ modules \in SUBSET Module /\ STATE_FILE \in Word \cup {""}
  BY <1>1, BootType
<1>4. overlap \in BOOLEAN /\ killed \in BOOLEAN
  BY <1>2
<1>5. TypeOK
  BY <1>3, <1>4 DEF TypeOK
<1>6. ActiveIsHonest /\ IdleIsHonest /\ InitializingEnds /\ PlaceInv
  BY <1>1 DEF ActiveIsHonest, IdleIsHonest, InitializingEnds, PlaceInv
<1> QED
  BY <1>5, <1>6 DEF Inv

\* A shell that goes to a place, or returns, keeps the type of what it changes.
LEMMA GotoType ==
  ASSUME TypeOK, NEW s \in Shells, NEW place \in Place, Goto(s, place)
  PROVE  pc' \in [Shells -> Place]
BY DEF TypeOK, Goto

LEMMA ReturnType ==
  ASSUME TypeOK, NEW s \in Shells, NEW n \in {0, 1, 3}, Return(s, n)
  PROVE  pc' \in [Shells -> Place] /\ code' \in [Shells -> {0, 1, 3}]
<1>1. pc' \in [Shells -> Place]
  BY DEF TypeOK, Return, Goto
<1>2. code' \in [Shells -> {0, 1, 3}]
  BY DEF TypeOK, Return
<1> QED
  BY <1>1, <1>2

(***************************************************************************)
(* Every step is well typed: first what the shells hold, then what they    *)
(* share, then the two histories.                                          *)
(***************************************************************************)
LEMMA TypeStep == TypeOK /\ [Next]_vars => TypeOK'
<1> SUFFICES ASSUME TypeOK, [Next]_vars PROVE TypeOK'
  OBVIOUS
<1> DEFINE ShellType == pc \in [Shells -> Place] /\ code \in [Shells -> {0, 1, 3}]
           StType == st \in [Shells -> Word \cup {""}]
           SharedType == modules \in SUBSET Module /\ STATE_FILE \in Word \cup {""}
           RefType == refcnt \in {0, 1}
           HistoryType == overlap \in BOOLEAN /\ killed \in BOOLEAN
<1>0. ShellType /\ StType /\ SharedType /\ RefType /\ HistoryType
  BY DEF TypeOK
<1>1. ASSUME NEW s \in Shells, Up(s) PROVE TypeOK'
  <2>0. (Goto(s, "probe") /\ UNCHANGED code) \/ Return(s, 1)
    BY <1>1 DEF Up
  <2>1. ShellType'
    BY <1>0, <2>0, GotoType, ReturnType
  <2>2. StType'
    BY <1>0, <1>1 DEF Up
  <2>3. SharedType' /\ RefType'
    BY <1>0, <1>1 DEF Up
  <2>4. HistoryType'
    BY <1>0, <1>1 DEF Up
  <2> QED
    BY <2>1, <2>2, <2>3, <2>4 DEF TypeOK
<1>2. ASSUME NEW s \in Shells, Probe(s) PROVE TypeOK'
  <2>1. ShellType'
    BY <1>0, <1>2, GotoType, ReturnType DEF Probe, AfterProbe
  <2>2. StType'
    BY <1>0, <1>2 DEF Probe
  <2>3. SharedType' /\ RefType'
    BY <1>0, <1>2 DEF Probe
  <2>4. HistoryType'
    BY <1>0, <1>2 DEF Probe
  <2> QED
    BY <2>1, <2>2, <2>3, <2>4 DEF TypeOK
<1>3. ASSUME NEW s \in Shells, MarkInitializing(s) PROVE TypeOK'
  <2>1. ShellType'
    BY <1>0, <1>3, GotoType, ReturnType DEF MarkInitializing
  <2>2. StType'
    BY <1>0, <1>3 DEF MarkInitializing
  <2>3. SharedType' /\ RefType'
    BY <1>0, <1>3 DEF MarkInitializing
  <2>4. HistoryType'
    BY <1>0, <1>3 DEF MarkInitializing
  <2> QED
    BY <2>1, <2>2, <2>3, <2>4 DEF TypeOK
<1>4. ASSUME NEW s \in Shells, Insmod(s) PROVE TypeOK'
  <2>1. ShellType'
    BY <1>0, <1>4, GotoType, ReturnType DEF Insmod, AfterInsmod
  <2>2. StType'
    BY <1>0, <1>4 DEF Insmod
  <2>3. SharedType' /\ RefType'
    BY <1>0, <1>4 DEF Insmod
  <2>4. HistoryType'
    BY <1>0, <1>4 DEF Insmod
  <2> QED
    BY <2>1, <2>2, <2>3, <2>4 DEF TypeOK
<1>5. ASSUME NEW s \in Shells, MarkActive(s) PROVE TypeOK'
  <2>0. Return(s, 0)
    BY <1>5 DEF MarkActive
  <2>1. ShellType'
    BY <2>0, ReturnType
  <2>2. StType'
    BY <1>0, <1>5 DEF MarkActive
  <2>3. SharedType' /\ RefType'
    BY <1>0, <1>5 DEF MarkActive
  <2>4. HistoryType'
    BY <1>0, <1>5 DEF MarkActive
  <2> QED
    BY <2>1, <2>2, <2>3, <2>4 DEF TypeOK
<1>6. ASSUME NEW s \in Shells, MarkFailed(s) PROVE TypeOK'
  <2>0. Return(s, 1)
    BY <1>6 DEF MarkFailed
  <2>1. ShellType'
    BY <2>0, ReturnType
  <2>2. StType'
    BY <1>0, <1>6 DEF MarkFailed
  <2>3. SharedType' /\ RefType'
    BY <1>0, <1>6 DEF MarkFailed, FailedWord
  <2>4. HistoryType'
    BY <1>0, <1>6 DEF MarkFailed
  <2> QED
    BY <2>1, <2>2, <2>3, <2>4 DEF TypeOK
<1>7. ASSUME NEW s \in Shells, Down(s) PROVE TypeOK'
  <2>0. Return(s, 3)
    BY <1>7 DEF Down
  <2>1. ShellType'
    BY <2>0, ReturnType
  <2>2. StType'
    BY <1>0, <1>7 DEF Down
  <2>3. SharedType' /\ RefType'
    BY <1>0, <1>7 DEF Down
  <2>4. HistoryType'
    BY <1>0, <1>7 DEF Down
  <2> QED
    BY <2>1, <2>2, <2>3, <2>4 DEF TypeOK
<1>8. ASSUME NEW s \in Shells, Status(s) PROVE TypeOK'
  <2>1. ShellType'
    BY <1>0, <1>8, GotoType, ReturnType DEF Status
  <2>2. StType'
    BY <1>0, <1>8 DEF Status
  <2>3. SharedType' /\ RefType'
    BY <1>0, <1>8 DEF Status
  <2>4. HistoryType'
    BY <1>0, <1>8 DEF Status
  <2> QED
    BY <2>1, <2>2, <2>3, <2>4 DEF TypeOK
<1>9. ASSUME NEW s \in Shells, ReadStateFile(s) PROVE TypeOK'
  <2>0. Return(s, 0)
    BY <1>9 DEF ReadStateFile
  <2>1. ShellType'
    BY <2>0, ReturnType
  <2>2. StType'
    BY <1>0, <1>9 DEF ReadStateFile, Preferred
  <2>3. SharedType' /\ RefType'
    BY <1>0, <1>9 DEF ReadStateFile
  <2>4. HistoryType'
    BY <1>0, <1>9 DEF ReadStateFile
  <2> QED
    BY <2>1, <2>2, <2>3, <2>4 DEF TypeOK
<1>10. ASSUME NEW s \in Shells, Kill(s) PROVE TypeOK'
  <2>1. ShellType'
    BY <1>0, <1>10, GotoType, ReturnType DEF Kill
  <2>2. StType'
    BY <1>0, <1>10 DEF Kill
  <2>3. SharedType' /\ RefType'
    BY <1>0, <1>10 DEF Kill
  <2>4. HistoryType'
    BY <1>0, <1>10 DEF Kill
  <2> QED
    BY <2>1, <2>2, <2>3, <2>4 DEF TypeOK
<1>11. CASE Session
  <2>1. RefType'
    BY <1>11 DEF Session
  <2> QED
    BY <1>0, <1>11, <2>1 DEF TypeOK, Session, shellVars
<1>12. CASE LoseTransport
  BY <1>0, <1>12 DEF TypeOK, LoseTransport, shellVars
<1>13. CASE PowerCycle
  <2>1. ShellType' /\ StType'
    BY <1>0, <1>13 DEF PowerCycle
  <2>0. modules' = AtBoot /\ STATE_FILE' = "" /\ refcnt' = 0
    BY <1>13 DEF PowerCycle
  <2>2. SharedType' /\ RefType'
    BY <2>0, BootType
  <2>3. HistoryType'
    BY <1>13 DEF PowerCycle
  <2> QED
    BY <2>1, <2>2, <2>3 DEF TypeOK
<1>14. CASE UNCHANGED vars
  BY <1>0, <1>14 DEF TypeOK, vars, shellVars
<1>15. QED
  BY <1>1, <1>2, <1>3, <1>4, <1>5, <1>6, <1>7, <1>8, <1>9, <1>10, <1>11, <1>12, <1>13, <1>14
     DEF Next, ShellStep

\* What the state file and the shells say of the module, without the types.
Honest == ActiveIsHonest /\ IdleIsHonest /\ InitializingEnds /\ PlaceInv

(***************************************************************************)
(* Every step of gadgetctl.sh, and of what surrounds it, keeps the state   *)
(* file honest.  The cases that matter are Probe, where a second shell     *)
(* passes the test a first one has passed, and Insmod.                     *)
(***************************************************************************)
LEMMA HonestStep == Inv /\ [Next]_vars => Honest'
<1> SUFFICES ASSUME TypeOK, Honest, [Next]_vars PROVE Honest'
  BY DEF Inv, Honest
<1>0. /\ pc \in [Shells -> Place] /\ st \in [Shells -> Word \cup {""}]
      /\ code \in [Shells -> {0, 1, 3}] /\ modules \in SUBSET Module /\ refcnt \in {0, 1}
  BY DEF TypeOK
<1> USE <1>0 DEF Honest, ActiveIsHonest, IdleIsHonest, InitializingEnds, PlaceInv, Goto, Return
<1>1. ASSUME NEW s \in Shells, Up(s) PROVE Honest'
  <2>1. /\ pc' = [pc EXCEPT ![s] = "probe"] \/ pc' = [pc EXCEPT ![s] = "idle"]
        /\ pc[s] = "idle" /\ st' = [st EXCEPT ![s] = ""]
        /\ UNCHANGED <<modules, refcnt, STATE_FILE, overlap, killed>>
    BY <1>1 DEF Up
  <2>2. pc'[s] \in {"probe", "idle"} /\ \A t \in Shells \ {s} : pc'[t] = pc[t]
    BY <2>1
  <2>3. st'[s] = "" /\ \A t \in Shells \ {s} : st'[t] = st[t]
    BY <2>1
  <2> QED
    BY ZenonT(60), <2>1, <2>2, <2>3
<1>2. ASSUME NEW s \in Shells, Probe(s) PROVE Honest'
  BY <1>2 DEF Probe, AfterProbe
<1>3. ASSUME NEW s \in Shells, MarkInitializing(s) PROVE Honest'
  BY <1>3 DEF MarkInitializing
<1>4. ASSUME NEW s \in Shells, Insmod(s) PROVE Honest'
  <2>1. CASE /\ modules' = modules \cup {GADGET_MOD} /\ ~is_loaded(GADGET_MOD)
             /\ pc' = [pc EXCEPT ![s] = "mark_active"]
    BY ZenonT(60), <1>4, <2>1 DEF Insmod
  <2>2. CASE modules' = modules /\ pc' = [pc EXCEPT ![s] = "mark_idle"]
    BY <1>4, <2>2 DEF Insmod
  <2> QED
    BY <1>4, <2>1, <2>2 DEF Insmod, AfterInsmod
<1>5. ASSUME NEW s \in Shells, MarkActive(s) PROVE Honest'
  BY <1>5 DEF MarkActive
<1>6. ASSUME NEW s \in Shells, MarkFailed(s) PROVE Honest'
  BY <1>6 DEF MarkFailed, FailedWord
<1>7. ASSUME NEW s \in Shells, Down(s) PROVE Honest'
  BY <1>7 DEF Down
<1>8. ASSUME NEW s \in Shells, Status(s) PROVE Honest'
  BY <1>8 DEF Status
<1>9. ASSUME NEW s \in Shells, ReadStateFile(s) PROVE Honest'
  BY <1>9 DEF ReadStateFile, Preferred
<1>10. ASSUME NEW s \in Shells, Kill(s) PROVE Honest'
  BY <1>10 DEF Kill
<1>11. CASE Session
  BY <1>11 DEF Session, shellVars
<1>12. CASE LoseTransport
  BY <1>12 DEF LoseTransport, shellVars
<1>13. CASE PowerCycle
  BY <1>13 DEF PowerCycle
<1>14. CASE UNCHANGED vars
  BY <1>14 DEF vars, shellVars
<1>15. QED
  BY <1>1, <1>2, <1>3, <1>4, <1>5, <1>6, <1>7, <1>8, <1>9, <1>10, <1>11, <1>12, <1>13, <1>14
     DEF Next, ShellStep

\* gadgetctl.sh keeps the whole invariant, for any number of shells.
THEOREM Invariance == Spec => []Inv
<1>1. Init => Inv
  BY InitInv
<1>2. Inv /\ [Next]_vars => Inv'
  BY TypeStep, HonestStep DEF Inv, Honest
<1>3. QED
  BY <1>1, <1>2, PTL DEF Spec

(***************************************************************************)
(* The state file, and every answer of a status command, announces the     *)
(* module only when it is loaded.                                          *)
(***************************************************************************)
THEOREM ActiveHonest == Spec => []ActiveIsHonest
<1>1. Inv => ActiveIsHonest
  BY DEF Inv
<1>2. QED
  BY <1>1, Invariance, PTL

\* Without two ups at a time the file never calls a loaded module idle.
THEOREM IdleHonest == Spec => []IdleIsHonest
<1>1. Inv => IdleIsHonest
  BY DEF Inv
<1>2. QED
  BY <1>1, Invariance, PTL

\* The file is not left at Initializing but by an up that was killed.
THEOREM InitializingPasses == Spec => []InitializingEnds
<1>1. Inv => InitializingEnds
  BY DEF Inv
<1>2. QED
  BY <1>1, Invariance, PTL

=============================================================================
