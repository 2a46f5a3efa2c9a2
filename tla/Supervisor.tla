----------------------------- MODULE Supervisor -----------------------------
(***************************************************************************)
(* bianbiang.sh: the shell loop that starts the background services, runs  *)
(* the user interface (the closed program bianbiang) in the foreground and *)
(* acts on its exit code.                                                  *)
(*                                                                         *)
(* Around it: services that die at any time, a person or a deploy script   *)
(* that starts one by hand, a user interface that leaves with any code and *)
(* leaves mount points behind, sticks that are pulled out, and the reboots *)
(* the codes ask for.  Debug logs are left out.                            *)
(***************************************************************************)
EXTENDS Naturals, Sequences

CONSTANTS
  Installed,      \* the services whose program is there
  MountPoints,    \* the names in /tmp that the user interface mounts sticks under
  MaxInstances    \* bound of the model: processes of one service

\* The order in which start_services() takes them.
Services == <<"satipclient", "app_console", "streamrelay", "user_script", "dbgbar">>
Service == {Services[i] : i \in DOMAIN Services}

\* The services that are started only if pidof finds no process.
Guarded == Service \ {"user_script"}

\* What stands in /tmp under such a name: a link to where the stick is mounted, a link
\* whose target has gone, or a directory that is the mount point itself.
Entry == {"none", "link", "dangling", "dir"}

\* The exit codes the script tells apart; 0 stands for all the others, signals included.
Restart == {3, 42, 45}
PowerDown == {1, 2, 4, 16}
Flash == {43, 46, 47}
WaitForPowerOff == {44}
Crash == {0}
ExitCode == Restart \cup PowerDown \cup Flash \cup WaitForPowerOff \cup Crash

ASSUME SupervisorAssumption ==
  /\ Installed \subseteq Service
  /\ MountPoints \subseteq {"UD0", "UD1", "UD2", "UD3"}
  /\ MaxInstances \in Nat \ {0, 1}

VARIABLES
  pc,             \* where the script is
  next,           \* in start_services(): the service it is at
  alive,          \* the running processes of each service
  ret,            \* ret: the last exit code of the user interface
  entry,          \* what stands in /tmp under each name
  mounted,        \* the names whose file system is mounted
  stuck,          \* history: those of them that a clean-up found in use and could not unmount
  power,          \* the system is up, or has been told to halt, reboot or change its runlevel
  boot_mode,      \* /proc/stb/fp/boot_mode
  raced,          \* history: services started by hand between the script's pidof and its start
  doubled         \* history: services started by hand beside a process that runs

scriptVars == <<pc, next, ret>>
mountVars == <<entry, mounted, stuck>>
systemVars == <<power, boot_mode>>
handVars == <<raced, doubled>>
vars == <<scriptVars, alive, mountVars, systemVars, handVars>>

TypeOK ==
  /\ pc \in {"check", "launch", "ui", "case", "flash", "sleep", "wait", "ended", "rescue"}
  /\ next \in 1 .. Len(Services) + 1
  /\ alive \in [Service -> 0 .. MaxInstances]
  /\ ret \in ExitCode
  /\ entry \in [MountPoints -> Entry]
  /\ mounted \in SUBSET MountPoints
  /\ stuck \in SUBSET MountPoints
  /\ power \in {"up", "going_down"}
  /\ boot_mode \in {"normal", "rescue"}
  /\ raced \in SUBSET Guarded
  /\ doubled \in SUBSET Guarded

Init ==
  /\ pc = "check"
  /\ next = 1
  /\ alive = [s \in Service |-> 0]
  /\ ret = 0
  /\ entry = [d \in MountPoints |-> "none"]
  /\ mounted = {}
  /\ stuck = {}
  /\ power = "up"
  /\ boot_mode = "normal"
  /\ raced = {} /\ doubled = {}

\* One more process, up to the bound.
OneMore(s) == IF alive[s] < MaxInstances THEN alive[s] + 1 ELSE alive[s]

-----------------------------------------------------------------------------
\* start_services()

AtService == pc = "check" /\ next \in DOMAIN Services

\* Faulty: the service is started whether or not it runs.
WantsStartAlways(s) == s \in Installed

\* The condition in front of each start; user_script is not asked for a process.
WantsStart(s) == s \in Installed /\ (s \in Guarded => alive[s] = 0)

Check ==
  /\ AtService
  /\ IF WantsStart(Services[next])
     THEN pc' = "launch" /\ UNCHANGED next
     ELSE next' = next + 1 /\ UNCHANGED pc
  /\ UNCHANGED <<alive, ret, mountVars, systemVars, handVars>>

Launch ==
  /\ pc = "launch"
  /\ alive' = [alive EXCEPT ![Services[next]] = OneMore(Services[next])]
  /\ next' = next + 1
  /\ pc' = "check"
  /\ UNCHANGED <<ret, mountVars, systemVars, handVars>>

-----------------------------------------------------------------------------
\* The loop

StartUI ==
  /\ pc = "check" /\ next \notin DOMAIN Services
  /\ pc' = "ui"
  /\ UNCHANGED <<next, alive, ret, mountVars, systemVars, handVars>>

UIExits(code) ==
  /\ pc = "ui"
  /\ pc' = "case"
  /\ ret' = code
  /\ UNCHANGED <<next, alive, mountVars, systemVars, handVars>>

\* Faulty (the copy-paste bug of ISSUE-005): every branch removes UD0.
RemovedAlwaysUD0(d) == "UD0"

\* What the branch for /tmp/d removes.
Removed(d) == d

(***************************************************************************)
(* The clean-up, one branch per name.  [ -e ] does not see a link whose    *)
(* target has gone; umount fails for a file system in use; rm, which runs  *)
(* all the same, takes a link and fails on a directory.                    *)
(***************************************************************************)
CleanUp(inUse) ==
  LET seen == {d \in MountPoints : entry[d] \in {"link", "dir"}}
      removed == {Removed(d) : d \in seen}
  IN  /\ entry' = [d \in MountPoints |->
                     IF d \in removed /\ entry[d] # "dir" THEN "none" ELSE entry[d]]
      /\ mounted' = mounted \ (seen \ inUse)
      /\ stuck' = (stuck \ seen) \cup (seen \cap inUse)

\* continue, after sleep 1 or sleep 2; an unexpected exit cleans up first.
Again ==
  /\ pc = "case" /\ ret \in Restart \cup Crash
  /\ pc' = "sleep"
  /\ IF ret \in Crash
     THEN \E inUse \in SUBSET mounted : CleanUp(inUse)
     ELSE UNCHANGED mountVars
  /\ UNCHANGED <<next, alive, ret, systemVars, handVars>>

Continue ==
  /\ pc = "sleep"
  /\ pc' = "check"
  /\ next' = 1
  /\ UNCHANGED <<alive, ret, mountVars, systemVars, handVars>>

\* Faulty: an internal restart leaves the loop like the other known codes.
BreakCodesWide == PowerDown \cup {42}

BreakCodes == PowerDown

\* halt or reboot, and break
GoDown ==
  /\ pc = "case" /\ ret \in BreakCodes
  /\ pc' = "ended"
  /\ power' = IF ret \in PowerDown THEN "going_down" ELSE power
  /\ boot_mode' = IF ret = 16 THEN "rescue" ELSE boot_mode
  /\ UNCHANGED <<next, alive, ret, mountVars, handVars>>

Ofgwrite ==
  /\ pc = "case" /\ ret \in Flash
  /\ pc' = "flash"
  /\ UNCHANGED <<next, alive, ret, mountVars, systemVars, handVars>>

\* ofgwrite returns; init 1, and break
InitOne ==
  /\ pc = "flash"
  /\ pc' = "ended"
  /\ power' = "going_down"
  /\ UNCHANGED <<next, alive, ret, mountVars, boot_mode, handVars>>

\* while(true); do sleep 60; done
WaitForUser ==
  /\ pc = "case" /\ ret \in WaitForPowerOff
  /\ pc' = "wait"
  /\ UNCHANGED <<next, alive, ret, mountVars, systemVars, handVars>>

-----------------------------------------------------------------------------
\* The surroundings

Die(s) ==
  /\ alive[s] > 0
  /\ alive' = [alive EXCEPT ![s] = @ - 1]
  /\ raced' = IF alive[s] = 1 THEN raced \ {s} ELSE raced
  /\ doubled' = IF alive[s] <= 2 THEN doubled \ {s} ELSE doubled
  /\ UNCHANGED <<scriptVars, mountVars, systemVars>>

\* Somebody starts a service by hand, because it is not there or though it is.
StartByHand(s) ==
  /\ pc # "rescue"
  /\ s \in Installed \cap Guarded /\ alive[s] < MaxInstances
  /\ alive' = [alive EXCEPT ![s] = @ + 1]
  /\ raced' = IF pc = "launch" /\ s = Services[next] THEN raced \cup {s} ELSE raced
  /\ doubled' = IF alive[s] > 0 THEN doubled \cup {s} ELSE doubled
  /\ UNCHANGED <<scriptVars, mountVars, systemVars>>

\* A stick is mounted, on a directory or elsewhere with a link to it.
Mount(d, kind) ==
  /\ pc = "ui"
  /\ d \notin mounted \/ entry[d] = "none"
  /\ entry' = [entry EXCEPT ![d] = IF @ = "dir" THEN "dir" ELSE kind]
  /\ mounted' = mounted \cup {d}
  /\ stuck' = stuck \ {d}
  /\ UNCHANGED <<scriptVars, alive, systemVars, handVars>>

\* A stick is pulled out: its file system goes, and the target of a link with it.
Unplug(d) ==
  /\ d \in mounted
  /\ entry' = [entry EXCEPT ![d] = IF @ = "link" THEN "dangling" ELSE @]
  /\ mounted' = mounted \ {d}
  /\ stuck' = stuck \ {d}
  /\ UNCHANGED <<scriptVars, alive, systemVars, handVars>>

(***************************************************************************)
(* The system boots again after a power-down, or because the user pulls    *)
(* the plug as code 44 asks.  A power cut at any other moment would lead   *)
(* to the same state, the initial one.                                     *)
(***************************************************************************)
Boot ==
  /\ power = "going_down" \/ pc = "wait"
  /\ pc' = IF boot_mode = "rescue" THEN "rescue" ELSE "check"
  /\ next' = 1
  /\ ret' = 0
  /\ alive' = [s \in Service |-> 0]
  /\ entry' = [d \in MountPoints |-> "none"]
  /\ mounted' = {} /\ stuck' = {}
  /\ power' = "up"
  /\ boot_mode' = "normal"
  /\ raced' = {} /\ doubled' = {}

\* The rescue system is left for a normal boot.
LeaveRescue ==
  /\ pc = "rescue"
  /\ pc' = "check"
  /\ UNCHANGED <<next, ret, alive, mountVars, systemVars, handVars>>

ScriptStep == Check \/ Launch \/ StartUI \/ Again \/ Continue \/ GoDown \/ Ofgwrite \/ InitOne \/ WaitForUser

Next ==
  \/ ScriptStep
  \/ \E code \in ExitCode : UIExits(code)
  \/ \E s \in Service : Die(s) \/ StartByHand(s)
  \/ \E d \in MountPoints : Unplug(d) \/ \E kind \in {"link", "dir"} : Mount(d, kind)
  \/ Boot \/ LeaveRescue

Spec == Init /\ [][Next]_vars

\* The script goes on by itself and ofgwrite returns.  The user interface need never leave.
FairSpec == Spec /\ WF_vars(ScriptStep)

-----------------------------------------------------------------------------

(***************************************************************************)
(* ISSUE-001: the user interface always recovers.  However it leaves, the  *)
(* script runs it again, unless the code asked for the system to go down   *)
(* or for the user to pull the plug.                                       *)
(***************************************************************************)
UIRecovers ==
  pc = "case" ~> (pc \in {"ui", "wait"} \/ power = "going_down")

\* The loop is left only with the system on its way down: never a black screen for good.
EndsOnlyGoingDown == pc = "ended" => power = "going_down"

(***************************************************************************)
(* The script never makes a second process of a pidof-guarded service,     *)
(* however its starts, deaths and starts by hand interleave, except when   *)
(* one is started by hand between its pidof and its start.  (Whoever       *)
(* starts one by hand beside a running one has made the second himself.)   *)
(***************************************************************************)
TwoOnlyByRace == \A s \in Guarded : alive[s] > 1 => s \in raced \cup doubled

(***************************************************************************)
(* ISSUE-005, as far as it goes: when the user interface comes back after  *)
(* a crash no link to a mounted stick is left in /tmp, and a file system   *)
(* is still mounted only if this clean-up or an earlier one found it in    *)
(* use, also one whose link such a clean-up has removed.                   *)
(***************************************************************************)
NoOrphanMounts ==
  pc \in {"sleep", "check", "launch", "rescue"} /\ ret \in Crash =>
    /\ \A d \in MountPoints : entry[d] # "link"
    /\ mounted \subseteq stuck

(***************************************************************************)
(* ISSUE-005 in the words of README_CUSTOM_BUILD.md:24, "each mount point  *)
(* UD1/UD2/UD3 is now removed itself": after a crash nothing stands in     *)
(* /tmp under such a name, but for a stick in use.                         *)
(* Not so of a directory (MountRemoval.cfg).                               *)
(***************************************************************************)
MountPointsAreRemoved ==
  pc = "sleep" /\ ret \in Crash =>
    \A d \in MountPoints : entry[d] = "none" \/ d \in stuck

(***************************************************************************)
(* bianbiang.sh:24, "Light supervision: respawn if it ever exits": a       *)
(* status bar that has gone is started again, unless the system goes down. *)
(* Not so while the interface runs (Respawn.cfg).                          *)
(***************************************************************************)
StatusBarRespawns ==
  (pc = "ui" /\ alive["dbgbar"] = 0)
    ~> (alive["dbgbar"] > 0 \/ power = "going_down" \/ pc = "wait")

\* A service about to be started was seen missing; if it is there, raced says why.
PlaceInv ==
  pc = "launch" =>
    /\ next \in DOMAIN Services
    /\ Services[next] \in Guarded /\ alive[Services[next]] > 0 => Services[next] \in raced

\* A file system that a clean-up can no longer see is one it has found in use.
MountInv ==
  /\ stuck \subseteq mounted
  /\ \A d \in mounted : entry[d] \in {"link", "dir"} \/ d \in stuck

Inv == TypeOK /\ PlaceInv /\ MountInv

=============================================================================
