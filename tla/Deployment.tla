----------------------------- MODULE Deployment -----------------------------
(***************************************************************************)
(* The validation of the status bar on a live receiver: deploy_dbgbar.py   *)
(* installs and starts it, capture_dbgbar.py pushes the configuration and  *)
(* a screen grabber and restarts it, cleanup_dbgbar.py removes everything. *)
(* The developer runs the tools by hand, one at a time, in any order.      *)
(*                                                                         *)
(* A tool is a list of shell commands.  The shell takes them in the order  *)
(* in which they are sent, a wait that runs into its time limit            *)
(* notwithstanding (TelnetSession), and no tool looks at an exit status: a *)
(* command may fail and the tool goes on.  When the connection breaks the  *)
(* rest of the list is lost.                                               *)
(*                                                                         *)
(* Init, Next, Spec and vars begin with Deploy here: the two modules are   *)
(* parts of the same tools and proved together (DeployTools_proofs).       *)
(***************************************************************************)
EXTENDS Naturals, Sequences, FiniteSets

CONSTANTS
  Versions,     \* builds of the status bar
  Chunks,       \* lines in which the binary is pushed
  MaxRuns,      \* bound on the tools run
  MaxFaults     \* bound on the commands that fail

ASSUME DeploymentAssumption == Chunks \in Nat \ {0} /\ MaxRuns \in Nat /\ MaxFaults \in Nat

VARIABLES
  todo,         \* the commands the tool has still to send
  tool,         \* the tool run last; "none" before the first
  version,      \* the build it deploys
  verdict,      \* what deploy_dbgbar.py has said of the checksums: "", "MATCH" or "MISMATCH"
  clean,        \* history: no command of this tool has failed or was lost
  files,        \* on the receiver: what each path holds; <<>> for no such file
  executable,   \* the binary may be executed
  mount,        \* the root file system: "ro" or "rw"
  daemons,      \* how many of each build are running
  runs, faults  \* counted for the bounds

receiver == <<files, executable, mount, daemons>>
deployVars == <<todo, tool, version, verdict, clean, receiver, runs, faults>>

-----------------------------------------------------------------------------
(* Files.  A file is the sequence of its chunks, encoded or not.           *)

Whole(v) == [k \in 1..Chunks |-> <<v, k>>]
Conf == <<<<"dbgbar.conf", 1>>>>
Grab == <<<<"grab_fb1.py", 1>>>>
Png == <<<<"png", 1>>>>
Torn == <<"torn", 0>>       \* a chunk of which only a part was written

BIN == "/usr/local/dbgbar/dbgbar"
CONF == "/data/dbgbar.conf"
GRAB == "/tmp/grab_fb1.py"
PNG == "/tmp/dbgbar_png.b64"
BIN_B64 == "/tmp/dbgbar.b64"
CONF_B64 == "/tmp/dbgbarconf.b64"
CONF_B64_capture == "/data/dbgbar.conf.b64"
GRAB_B64_capture == "/tmp/grab_fb1.py.b64"

Paths == {BIN, CONF, GRAB, PNG, BIN_B64, CONF_B64, CONF_B64_capture, GRAB_B64_capture}

Writable(p) == p # BIN \/ mount = "rw"

-----------------------------------------------------------------------------
(* The commands of the tools.                                              *)

Command(do, path, data) == [do |-> do, path |-> path, data |-> data, from |-> path]
Decode(from, path) == [Command("decode", path, Torn) EXCEPT !.from = from]
Rm(path) == Command("rm", path, Torn)
Appends(content, path) == [k \in DOMAIN content |-> Command("append", path, content[k])]
Do(do) == <<Command(do, BIN, Torn)>>

\* Mutant: what an earlier transfer left is not removed first.
PushOntoOld(content, b64, final) == Appends(content, b64) \o <<Decode(b64, final)>>

push_b64(content, b64, final) ==
  <<Rm(b64), Rm(final)>> \o Appends(content, b64) \o <<Decode(b64, final)>>

\* The same, in capture_dbgbar.py, with the encoded file next to the final one.
push_text(content, remote, remoteB64) ==
  <<Rm(remoteB64), Rm(remote)>> \o Appends(content, remoteB64)
    \o <<Decode(remoteB64, remote)>>

deploy(v) ==
  Do("remount rw") \o push_b64(Whole(v), BIN_B64, BIN) \o Do("chmod") \o Do("md5sum")
    \o push_b64(Conf, CONF_B64, CONF) \o Do("kill") \o Do("launch")

capture ==
  push_text(Conf, CONF, CONF_B64_capture) \o push_text(Grab, GRAB, GRAB_B64_capture)
    \o Do("kill") \o Do("launch") \o Do("grab")

\* Mutant: the binary is removed while the file system is still read-only.
CleanupReadOnly ==
  Do("kill") \o <<Rm(BIN), Rm(CONF), Rm(BIN_B64), Rm(CONF_B64),
                  Rm(PNG), Rm(GRAB)>> \o Do("remount ro")

cleanup ==
  Do("kill") \o Do("remount rw")
    \o <<Rm(BIN), Rm(CONF), Rm(BIN_B64), Rm(CONF_B64), Rm(PNG), Rm(GRAB)>>
    \o Do("remount ro")

-----------------------------------------------------------------------------
(* The receiver (external): what its shell makes of a command.  To write   *)
(* over the file of a running program, which the tools avoid by removing   *)
(* it first, is taken to succeed or, as any command, to fail.  A kill ends *)
(* every copy there is within the second the tools wait after it; one that *)
(* a daemon is longer about counts as one that fails.                      *)

\* A program starts if it is whole; the pieces of one do not.
Started == {v \in Versions : executable /\ files[BIN] = Whole(v)}

Written(path, content) == [files EXCEPT ![path] = content]

NoDaemon == [v \in Versions |-> 0]
Only(v) == [NoDaemon EXCEPT ![v] = 1]
Launched == [v \in Versions |-> IF v \in Started THEN daemons[v] + 1 ELSE daemons[v]]

Effect(c) ==
  /\ files' = CASE c.do = "rm" /\ Writable(c.path) -> Written(c.path, <<>>)
                [] c.do = "append" -> Written(c.path, Append(files[c.path], c.data))
                [] c.do = "decode" /\ Writable(c.path) -> Written(c.path, files[c.from])
                [] c.do = "grab" /\ files[GRAB] = Grab -> Written(PNG, Png)
                [] OTHER -> files
  /\ executable' = CASE c.do = "chmod" /\ mount = "rw" -> files[BIN] # <<>>
                     [] c.do = "rm" /\ c.path = BIN /\ mount = "rw" -> FALSE
                     [] OTHER -> executable
  /\ mount' = CASE c.do = "remount rw" -> "rw" [] c.do = "remount ro" -> "ro" [] OTHER -> mount
  /\ daemons' = CASE c.do = "kill" -> NoDaemon
                  [] c.do = "launch" -> Launched
                  [] OTHER -> daemons

\* A line of a transfer of which a part is written, and a file decoded in part: the rest of
\* what fails has no effect.
PartEffect(c) ==
  /\ files' \in {files} \cup
       (CASE c.do = "append" -> {Written(c.path, Append(files[c.path], Torn))}
          [] c.do = "decode" /\ Writable(c.path) ->
               {Written(c.path, SubSeq(files[c.from], 1, n)) : n \in 0..Len(files[c.from])}
          [] OTHER -> {})
  /\ UNCHANGED <<executable, mount, daemons>>

-----------------------------------------------------------------------------
(* The tools at work.                                                      *)

DeployInit ==
  /\ todo = <<>> /\ tool = "none" /\ verdict = "" /\ clean = TRUE
  /\ version \in Versions
  /\ files = [p \in Paths |-> <<>>]
  /\ executable = FALSE /\ mount = "ro" /\ daemons = NoDaemon
  /\ runs = 0 /\ faults = 0

Start(name, v, commands) ==
  /\ todo = <<>>
  /\ runs < MaxRuns
  /\ runs' = runs + 1
  /\ tool' = name /\ version' = v /\ todo' = commands
  /\ verdict' = "" /\ clean' = TRUE
  /\ UNCHANGED <<receiver, faults>>

Deploy(v) == Start("deploy", v, deploy(v))
Capture == Start("capture", version, capture)
Cleanup == Start("cleanup", version, cleanup)

\* Mutant: any checksum in the answer will do.
ComparedAny(c) ==
  IF c.do # "md5sum" THEN verdict
  ELSE IF files[BIN] # <<>> THEN "MATCH" ELSE "MISMATCH"

\* deploy_dbgbar.py compares with the checksum of the file on the host.
Compared(c) ==
  IF c.do # "md5sum" THEN verdict
  ELSE IF files[BIN] = Whole(version) THEN "MATCH" ELSE "MISMATCH"

Execute ==
  /\ todo # <<>>
  /\ Effect(Head(todo))
  /\ verdict' = Compared(Head(todo))
  /\ todo' = Tail(todo)
  /\ UNCHANGED <<tool, version, clean, runs, faults>>

\* The command fails; without a checksum in the answer the files count as different.
Fail ==
  /\ todo # <<>>
  /\ faults < MaxFaults
  /\ PartEffect(Head(todo))
  /\ verdict' = IF Head(todo).do = "md5sum" THEN "MISMATCH" ELSE verdict
  /\ clean' = FALSE
  /\ todo' = Tail(todo)
  /\ faults' = faults + 1
  /\ UNCHANGED <<tool, version, runs>>

\* The connection breaks, or a send runs into the time limit of the socket: the tool ends.
Disconnect ==
  /\ todo # <<>>
  /\ faults < MaxFaults
  /\ clean' = FALSE
  /\ todo' = <<>>
  /\ faults' = faults + 1
  /\ UNCHANGED <<tool, version, verdict, receiver, runs>>

DeployNext == (\E v \in Versions : Deploy(v)) \/ Capture \/ Cleanup \/ Execute \/ Fail \/ Disconnect

DeploySpec == DeployInit /\ [][DeployNext]_deployVars

-----------------------------------------------------------------------------
(* Properties.                                                             *)

Ended(name) == tool = name /\ todo = <<>> /\ clean

\* A deployment none of whose commands fails ends with the new build installed, matched and
\* running alone, in one copy, with its configuration, whatever broken deployments,
\* captures and clean-ups left on the receiver before (deploy_dbgbar.py:85-131).
DeployRecovers ==
  Ended("deploy") =>
    /\ files[BIN] = Whole(version) /\ files[CONF] = Conf
    /\ verdict = "MATCH" /\ daemons = Only(version)

\* Once deploy_dbgbar.py has said MATCH the binary is the host's, and no other build of it
\* is started, whatever fails before and after; a build that ran before may run on
\* (lines 113-127).
MatchIsTrusted ==
  [][(tool = "deploy" /\ verdict = "MATCH" /\ todo # <<>>) =>
       /\ files'[BIN] = Whole(version)
       /\ \A v \in Versions \ {version} : daemons'[v] <= daemons[v]]_deployVars

\* A clean-up none of whose commands fails leaves no daemon and no file, whatever was run
\* before, but two files of capture_dbgbar.py that its list does not name, and the root
\* file system as it was found (cleanup_dbgbar.py:95-117, capture_dbgbar.py:76-82).
CleanupLeavesTwo ==
  Ended("cleanup") =>
    /\ \A p \in Paths \ {CONF_B64_capture, GRAB_B64_capture} : files[p] = <<>>
    /\ daemons = NoDaemon /\ mount = "ro"
=============================================================================
