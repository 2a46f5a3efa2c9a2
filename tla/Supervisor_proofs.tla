------------------------- MODULE Supervisor_proofs -------------------------
(***************************************************************************)
(* Proofs about bianbiang.sh, for any set of installed services and any    *)
(* number of processes of one.                                             *)
(***************************************************************************)
EXTENDS Supervisor, TLAPS

(***************************************************************************)
(* The five services, one by one; Len and DOMAIN stay out of the other     *)
(* proofs.                                                                 *)
(***************************************************************************)
LEMMA TheServices ==
  /\ DOMAIN Services = 1 .. 5 /\ Len(Services) = 5
  /\ \A i \in 1 .. 5 : Services[i] \in Service
  /\ Guarded \subseteq Service
BY DEF Services, Service, Guarded

\* Nothing runs and nothing is mounted in the initial state.
LEMMA InitInv == Init => Inv
<1> SUFFICES ASSUME Init PROVE Inv
  OBVIOUS
<1>1. TypeOK
  BY TheServices, SupervisorAssumption DEF Init, TypeOK, ExitCode, Crash, Entry
<1>2. PlaceInv /\ MountInv
  BY DEF Init, PlaceInv, MountInv
<1> QED
  BY <1>1, <1>2 DEF Inv

\* One more process keeps the count in its range.
LEMMA OneMoreType ==
  ASSUME TypeOK, NEW s \in Service
  PROVE  OneMore(s) \in 0 .. MaxInstances
BY SupervisorAssumption DEF TypeOK, OneMore

(***************************************************************************)
(* Every step of the script and of what surrounds it is well typed.        *)
(***************************************************************************)
LEMMA TypeStep == TypeOK /\ PlaceInv /\ [Next]_vars => TypeOK'
<1> SUFFICES ASSUME TypeOK, PlaceInv, [Next]_vars PROVE TypeOK'
  OBVIOUS
<1> USE TheServices, SupervisorAssumption
    DEF TypeOK, mountVars, scriptVars, systemVars, handVars
<1>1. CASE Check
  BY <1>1 DEF Check, AtService
<1>2. CASE Launch
  <2>1. next \in 1 .. 5
    BY <1>2 DEF Launch, PlaceInv
  <2> QED
    BY <1>2, <2>1, OneMoreType DEF Launch
<1>3. CASE StartUI
  BY <1>3 DEF StartUI
<1>4. CASE Again
  <2>1. CASE ret \in Crash
    <3>1. PICK inUse \in SUBSET mounted : CleanUp(inUse)
      BY <1>4, <2>1 DEF Again
    <3>2. /\ entry' \in [MountPoints -> Entry]
          /\ mounted' \in SUBSET MountPoints /\ stuck' \in SUBSET MountPoints
      BY <3>1 DEF CleanUp, Entry
    <3> QED
      BY <1>4, <3>2 DEF Again
  <2>2. CASE ret \notin Crash
    BY <1>4, <2>2 DEF Again
  <2> QED
    BY <2>1, <2>2
<1>5. CASE Continue
  BY <1>5 DEF Continue
<1>6. CASE GoDown
  BY <1>6 DEF GoDown
<1>7. CASE Ofgwrite
  BY <1>7 DEF Ofgwrite
<1>8. CASE InitOne
  BY <1>8 DEF InitOne
<1>9. CASE WaitForUser
  BY <1>9 DEF WaitForUser
<1>10. ASSUME NEW c \in ExitCode, UIExits(c) PROVE TypeOK'
  BY <1>10 DEF UIExits
<1>11. ASSUME NEW s \in Service, Die(s) PROVE TypeOK'
  BY <1>11 DEF Die
<1>12. ASSUME NEW s \in Service, StartByHand(s) PROVE TypeOK'
  BY <1>12 DEF StartByHand
<1>13. ASSUME NEW d \in MountPoints, NEW kind \in {"link", "dir"}, Mount(d, kind) PROVE TypeOK'
  BY <1>13 DEF Mount, Entry
<1>14. CASE Boot
  BY <1>14 DEF Boot, ExitCode, Crash, Entry
<1>17. ASSUME NEW d \in MountPoints, Unplug(d) PROVE TypeOK'
  BY <1>17 DEF Unplug, Entry
<1>15. CASE LeaveRescue
  BY <1>15 DEF LeaveRescue
<1>16. CASE UNCHANGED vars
  BY <1>16 DEF vars
<1> QED
  BY <1>1, <1>2, <1>3, <1>4, <1>5, <1>6, <1>7, <1>8, <1>9, <1>10, <1>11, <1>12, <1>13, <1>14,
     <1>15, <1>16, <1>17 DEF Next, ScriptStep

(***************************************************************************)
(* What a clean-up leaves: no link, and of what is mounted only what is in *)
(* use or was so in an earlier clean-up.                                   *)
(***************************************************************************)
LEMMA CleanedUp ==
  ASSUME TypeOK, MountInv, NEW inUse \in SUBSET mounted, CleanUp(inUse)
  PROVE  /\ stuck' \subseteq mounted' /\ mounted' \subseteq stuck'
         /\ \A d \in MountPoints : entry'[d] # "link"
<1> DEFINE seen == {d \in MountPoints : entry[d] \in {"link", "dir"}}
           removed == {Removed(d) : d \in seen}
<1>1. /\ entry' = [d \in MountPoints |->
                    IF d \in removed /\ entry[d] # "dir" THEN "none" ELSE entry[d]]
      /\ mounted' = mounted \ (seen \ inUse)
      /\ stuck' = (stuck \ seen) \cup (seen \cap inUse)
  BY DEF CleanUp
<1>2. removed = seen
  BY DEF Removed
<1>3. \A d \in MountPoints : entry'[d] # "link"
  BY <1>1, <1>2
<1>4. \A d \in mounted : d \in seen \/ d \in stuck
  BY DEF MountInv, TypeOK
<1>5. stuck \subseteq mounted
  BY DEF MountInv
<1> HIDE DEF seen, removed
<1> QED
  BY <1>1, <1>3, <1>4, <1>5

(***************************************************************************)
(* Every step keeps the two parts of the invariant that say more than      *)
(* types.                                                                  *)
(***************************************************************************)
LEMMA InvStep == Inv /\ [Next]_vars => (PlaceInv /\ MountInv)'
<1> SUFFICES ASSUME Inv, [Next]_vars PROVE (PlaceInv /\ MountInv)'
  OBVIOUS
<1>0. TypeOK /\ PlaceInv /\ MountInv
  BY DEF Inv
<1> USE <1>0, TheServices DEF PlaceInv, MountInv, mountVars, scriptVars, systemVars, handVars
<1>1. CASE Check
  BY <1>1 DEF Check, AtService, WantsStart
<1>2. CASE Launch
  BY <1>2 DEF Launch
<1>3. CASE StartUI
  BY <1>3 DEF StartUI
<1>4. CASE Again
  <2>1. CASE ret \in Crash
    <3>1. PICK inUse \in SUBSET mounted : CleanUp(inUse)
      BY <1>4, <2>1 DEF Again
    <3>2. stuck' \subseteq mounted' /\ mounted' \subseteq stuck'
      BY <3>1, CleanedUp
    <3> QED
      BY <1>4, <3>2 DEF Again
  <2>2. CASE ret \notin Crash
    BY <1>4, <2>2 DEF Again
  <2> QED
    BY <2>1, <2>2
<1>5. CASE Continue
  BY <1>5 DEF Continue
<1>6. CASE GoDown
  BY <1>6 DEF GoDown
<1>7. CASE Ofgwrite
  BY <1>7 DEF Ofgwrite
<1>8. CASE InitOne
  BY <1>8 DEF InitOne
<1>9. CASE WaitForUser
  BY <1>9 DEF WaitForUser
<1>10. ASSUME NEW c \in ExitCode, UIExits(c) PROVE (PlaceInv /\ MountInv)'
  BY <1>10 DEF UIExits
<1>11. ASSUME NEW s \in Service, Die(s) PROVE (PlaceInv /\ MountInv)'
  BY <1>11 DEF Die, TypeOK
<1>12. ASSUME NEW s \in Service, StartByHand(s) PROVE (PlaceInv /\ MountInv)'
  BY <1>12 DEF StartByHand, TypeOK
<1>13. ASSUME NEW d \in MountPoints, NEW kind \in {"link", "dir"}, Mount(d, kind)
       PROVE  (PlaceInv /\ MountInv)'
  BY <1>13 DEF Mount, TypeOK
<1>14. CASE Boot
  BY <1>14 DEF Boot
<1>15. CASE LeaveRescue
  BY <1>15 DEF LeaveRescue
<1>16. CASE UNCHANGED vars
  BY <1>16 DEF vars
<1>17. ASSUME NEW d \in MountPoints, Unplug(d) PROVE (PlaceInv /\ MountInv)'
  BY <1>17 DEF Unplug, TypeOK
<1> QED
  BY <1>1, <1>2, <1>3, <1>4, <1>5, <1>6, <1>7, <1>8, <1>9, <1>10, <1>11, <1>12, <1>13, <1>14,
     <1>15, <1>16, <1>17 DEF Next, ScriptStep

(***************************************************************************)
(* The invariant of the supervisor: its types, what it knows of a service  *)
(* it is about to start, and what a clean-up can no longer see.            *)
(***************************************************************************)
THEOREM Invariance == Spec => []Inv
<1>1. Init => Inv
  BY InitInv
<1>2. Inv /\ [Next]_vars => Inv'
  BY TypeStep, InvStep DEF Inv
<1>3. QED
  BY <1>1, <1>2, PTL DEF Spec

(***************************************************************************)
(* The script makes a second process of a pidof-guarded service only after *)
(* one was started by hand between its pidof and its start.                *)
(***************************************************************************)
THEOREM OneOfEach == Spec => []TwoOnlyByRace
<1> USE DEF TwoOnlyByRace, mountVars, scriptVars, systemVars, handVars
<1>1. Init => TwoOnlyByRace
  BY TheServices DEF Init
<1>2. Inv /\ TwoOnlyByRace /\ [Next]_vars => TwoOnlyByRace'
  <2> SUFFICES ASSUME Inv, TwoOnlyByRace, [Next]_vars PROVE TwoOnlyByRace'
    OBVIOUS
  <2>0. TypeOK /\ PlaceInv
    BY DEF Inv
  <2>1. CASE Launch
    <3> DEFINE it == Services[next]
    <3>1. pc = "launch" /\ alive' = [alive EXCEPT ![it] = OneMore(it)] /\ it \in Service
      BY <2>0, <2>1, TheServices DEF Launch, PlaceInv
    <3>2. UNCHANGED <<raced, doubled>>
      BY <2>1 DEF Launch
    <3>3. it \in Guarded /\ alive[it] > 0 => it \in raced
      BY <2>0, <3>1 DEF PlaceInv
    <3>4. OneMore(it) \in 0 .. MaxInstances /\ (OneMore(it) > 1 => alive[it] > 0)
      BY <2>0, <3>1, OneMoreType, SupervisorAssumption DEF OneMore, TypeOK
    <3> HIDE DEF it
    <3> QED
      BY <2>0, <3>1, <3>2, <3>3, <3>4, TheServices DEF TypeOK
  <2>2. ASSUME NEW s \in Service, Die(s) PROVE TwoOnlyByRace'
    BY <2>0, <2>2, TheServices DEF Die, TypeOK
  <2>3. ASSUME NEW s \in Service, StartByHand(s) PROVE TwoOnlyByRace'
    BY <2>0, <2>3, TheServices DEF StartByHand, TypeOK
  <2>4. CASE Boot
    BY <2>4, TheServices DEF Boot
  <2>5. ASSUME UNCHANGED <<alive, raced, doubled>> PROVE TwoOnlyByRace'
    BY <2>5
  <2> QED
    BY <2>1, <2>2, <2>3, <2>4, <2>5
       DEF Next, ScriptStep, Check, StartUI, Again, Continue, GoDown, Ofgwrite, InitOne,
           WaitForUser, UIExits, Mount, Unplug, LeaveRescue, vars
<1>3. QED
  BY <1>1, <1>2, Invariance, PTL DEF Spec

\* The loop ends only with the system on its way down.
THEOREM NoBlackScreen == Spec => []EndsOnlyGoingDown
<1> USE DEF EndsOnlyGoingDown
<1>1. Init => EndsOnlyGoingDown
  BY DEF Init
<1>2. EndsOnlyGoingDown /\ [Next]_vars => EndsOnlyGoingDown'
  BY DEF Next, ScriptStep, Check, Launch, StartUI, Again, Continue, GoDown, Ofgwrite, InitOne,
         WaitForUser, UIExits, Die, StartByHand, Mount, Unplug, Boot, LeaveRescue, vars,
         BreakCodes, scriptVars, systemVars
<1>3. QED
  BY <1>1, <1>2, PTL DEF Spec

(***************************************************************************)
(* ISSUE-005: when the user interface comes back after a crash no link is  *)
(* left, and what is still mounted a clean-up has found in use, however    *)
(* often interfaces have crashed and sticks have come and gone before.     *)
(***************************************************************************)
THEOREM NoOrphans == Spec => []NoOrphanMounts
<1> USE DEF NoOrphanMounts, mountVars, scriptVars, systemVars
<1>1. Init => NoOrphanMounts
  BY DEF Init
<1>2. Inv /\ NoOrphanMounts /\ [Next]_vars => NoOrphanMounts'
  <2> SUFFICES ASSUME Inv, NoOrphanMounts, [Next]_vars PROVE NoOrphanMounts'
    OBVIOUS
  <2>0. TypeOK /\ MountInv
    BY DEF Inv
  <2>1. CASE Again
    <3>1. CASE ret \in Crash
      <4>1. PICK inUse \in SUBSET mounted : CleanUp(inUse)
        BY <2>1, <3>1 DEF Again
      <4> QED
        BY <2>0, <4>1, CleanedUp
    <3>2. CASE ret \notin Crash
      BY <2>1, <3>2 DEF Again
    <3> QED
      BY <3>1, <3>2
  <2>2. CASE Boot
    BY <2>2 DEF Boot
  <2>3. ASSUME NEW d \in MountPoints, Unplug(d) PROVE NoOrphanMounts'
    BY <2>0, <2>3 DEF Unplug, TypeOK
  <2>4. CASE Check \/ Launch \/ Continue
    BY <2>4 DEF Check, Launch, Continue, AtService
  <2>5. CASE StartUI \/ GoDown \/ Ofgwrite \/ InitOne \/ WaitForUser
    BY <2>5 DEF StartUI, GoDown, Ofgwrite, InitOne, WaitForUser
  <2>6. ASSUME NEW c \in ExitCode, UIExits(c) PROVE NoOrphanMounts'
    BY <2>6 DEF UIExits
  <2>7. ASSUME NEW s \in Service, Die(s) \/ StartByHand(s) PROVE NoOrphanMounts'
    BY <2>7 DEF Die, StartByHand
  <2>8. ASSUME NEW d \in MountPoints, NEW kind \in {"link", "dir"}, Mount(d, kind)
        PROVE  NoOrphanMounts'
    BY <2>8 DEF Mount
  <2>9. CASE LeaveRescue
    BY <2>9 DEF LeaveRescue
  <2>10. CASE UNCHANGED vars
    BY <2>10 DEF vars
  <2> QED
    BY <2>1, <2>2, <2>3, <2>4, <2>5, <2>6, <2>7, <2>8, <2>9, <2>10 DEF Next, ScriptStep
<1>3. QED
  BY <1>1, <1>2, Invariance, PTL DEF Spec

=============================================================================
