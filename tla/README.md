# SpiderVIP-Toolkit: TLA+ models, model checking and proofs

These modules describe the programs of this repository that keep state, run concurrently with
something, talk to a device that answers late, or pass files to one another: the state machine of
the USB gadget, the status bar daemon with its providers, the script that keeps the receiver's
user interface alive, the `gadgetctl` command, the telnet tools, the firmware image builder with
its readers and its verifier, and the LyngSat scraper. TLC checks them on small instances; TLAPS
proves the main safety properties for every value of the constants. Paths below are relative to
the repository.

    tlc -config MCGadgetFSM.cfg GadgetFSM        # one of the runs listed in PROJECT.json
    tlapm GadgetFSM_proofs.tla                   # one of the proof modules

Contents: 1 the system · 2 modules and code · 3 what the runs show · 4 bounds · 5 fairness · 6
what is proved · 7 disagreements and surprises · 8 what is not modelled · 9 what is left.

## 1. The system

The repository patches the firmware of a satellite receiver. Some parts run on the receiver,
some on the PC of the person who works on it.

| part | state it keeps | operations | what is hard |
|---|---|---|---|
| gadget lifecycle machine, `gadgetd/gadget_fsm.py` | `_state`, `_refcount`, `_release_deadline` | `demand`, `release`, `tick`, each calling into a mechanism that may raise | calls that arrive in any phase of a release; time limits; failures half-way; a class without a lock |
| status bar daemon, `dbgbar/main.c`, `config.c` | configuration, its modification time, timer, run flag, what is painted on fb1 | start-up, timer tick with hot reload, toggle, signal, exit | the file changes between `stat` and read; time in whole seconds; signals at any moment; a kill skips the clean-up |
| its shortcut, `seq_feed` in `main.c` | stage, time of the last key | one key | overlapping sequences, pauses, a wall clock that is set |
| its renderer, `render.c` | the two rows of the overlay | draw, clear, close | rows left over from an earlier mode |
| its providers, `providers.c` | previous counters, stall ticks | one sample per tick | counters that restart, change their source or stand still |
| supervision script, `bianbiang.sh` | the place in the script, the running services, mount points | start services, run the interface, act on its exit code | services that die at any time; `pidof` and start are two steps; mount points in use |
| `gadgetctl.sh` | `/proc/modules` and `/tmp/usb_gadget_state` | `up`, `down`, `status` | several shells at a time, each of which may be killed at any step |
| telnet tools, `tools/telnet_run.py` and ten others | one byte stream in each direction | log in, run a command, push and pull files | echo and output in one stream, cut anywhere; time limits; a connection that breaks |
| deployment of the status bar, `deploy_dbgbar.py`, `capture_dbgbar.py`, `cleanup_dbgbar.py` | files, mount and processes of the receiver | push a file in chunks, compare, start, remove | commands that fail unnoticed, leftovers of the tool before |
| image builder and verifier, `build_custom_mupg.py`, `verify_custom.py` | the container with its size fields | rewrite an archive, pad or resize, patch, verify | fields that must agree, lengths at the boundary, a patch that hits more than it should |
| image readers, `extract_partitions.py`, `parse_partitions.py`, `analyze_header.py`, `scan_version.py`, `unpack_rootfs.py`, `extract_tar.py` | the files each leaves to the next | find the table, add up lengths, copy, decompress, extract | four copies of one computation; steps that fail silently |
| LyngSat scraper, `lyngsat_scraper.py` | the open transponder, the keys kept | read a row, keep or drop | nested tables, columns that mislead, the last transponder of a page |
| firmware analysis, `analyze_firmware.py`, `crack_checksum.py` | the tail of the chunk before; none | signature scan, CRC sweep | borders of chunks; the order of reflections |

How they meet. `bianbiang.sh` starts the daemon and the closed program `bianbiang`; a person or a
deploy tool also starts and kills the daemon. The daemon and the editor of `/data/dbgbar.conf`
share that file. `gadgetctl` and the dashboard share `/tmp/usb_gadget_state`; `ensure_gadget_up.py`
runs `gadgetctl` through a telnet session, and a lost session kills it in the middle. The image
builder, the verifier and the readers share the image; each step of the chain that takes it apart
reads the file that the one before it left. `gadget_fsm.py` is the design that `gadgetctl` is a
first prototype of: it calls a mechanism object that the repository does not implement yet.

What makes each part correct:

* gadget machine: the count is exact; who holds has the gadget; no flapping; a release ends.
* daemon: what is saved comes into force; no paint without an owner; the timer never stops; a
  signal ends it.
* shortcut: the mode toggles on MENU 9 9 9 9 typed in time and on nothing else.
* script: there is always an interface, or the box goes down; one process per service.
* `gadgetctl`: what the state file and `status` say is true, or wrong only in known ways.
* telnet tools: an answer belongs to its command, and nothing a command printed is lost.
* providers: an alarm means three quiet ticks, a rate is what was received, a load is a share.
* deployment: what went through is complete, whatever was left before; a match is a match.
* image tools: sizes agree with contents, every reader computes the same places, the verifier
  passes nothing broken, and what is taken apart is what was put together.
* scraper: the file is what the Encryption and Provider Name columns of the whole page select.
* analysis: a signature is found wherever it stands; "no checksum matches" is true.

Not all of this holds of the code. Section 3 says what holds and within which limits, section 7
what does not.

The hazards of each part are in `PROJECT.json`, with the line where each bites and the
properties that guard it.

## 2. Modules and code

A module has its code's names for variables and operators wherever TLA+ allows it; the comment
of each variable says which variable of the code it is. Variables marked `history` are not in
the code: they remember what a property needs to talk about.

**GadgetLifecycle** is the abstract promise, from section 3 and 4 of
`docs/GADGET_LIFECYCLE_DESIGN.md`: a set of users, up or down, and how long nobody has used it.
No states, no count, no timer.

**GadgetFSM** is `gadget_fsm.py`. `demand` is `DemandReturns` (nothing to activate) or
`DemandActivates` followed by `ActivateOk` or `ActivateRaises`; `release` is one action; `tick`
is `Tick`, which may enter the mechanism, followed by `DeactivateOk` or `DeactivateRaises`. A
call is split exactly where it enters the mechanism, because there time passes. The deadline is
kept as the time left, so that the clock need not grow. Two constants say what the surroundings
promise: `SingleOwner` (calls do not overlap, which the design asks of its owner and the class
does not enforce) and `CleanFailures` (a mechanism call that raises has changed nothing).

**DbgbarDaemon** is `main.c` with `config.c` and the effect of `render.c` on the overlay. `Start`
reads the file, `Setup` takes its time and arms the timer, a tick either finds the time unchanged
(`TickUntouched`) or takes it and later reads (`TickTouched`, `Reload`), so that the editor may
write between the two. `Edit` rewrites the file with any content, truncates it or removes it, in
the second of the change before or in a later one. History: what the file has asked for in the
second of its last change (`said`), whether start-up has missed a change (`missed`), the
engineering mode that start-up and the remote chose (`live`), and whether the remote has
(`toggled`).

**Shortcut** is `seq_feed`. One action per key; time passes in seconds; the wall clock may be
set. History: the last five keys, with "soon after the one before".

**Supervisor** is `bianbiang.sh`: `Check` (pidof) and `Launch` per service, `StartUI`, `UIExits`
with any code, and one action per group of codes in the `case`. Under each name in `/tmp` stands
nothing, a link to a mounted stick, a link whose stick was pulled out, or a directory that is the
mount point. `CleanUp` does with each what the shell does: `[ -e ]` does not see a link without a
target, `umount` fails for a stick in use, `rm` runs all the same, takes a link and fails on a
directory. Services die at any time and are started by hand at any time, beside a running one, too.

**Gadgetctl** is `gadgetctl.sh` run by a set of shells: one step per look at `/proc/modules`,
write of the file or `insmod`. A shell may be killed between any two.

**TelnetSession** is a session of a telnet tool. Lines typed and not yet run, items on their way
back (echo, text, prompt), what the `recv_until` under way has read. The tools copy one another's
`recv_until` and differ in the marker they wait for: a token that its own echo does not hold,
another one for every command (`telnet_run.py`); one that its echo does hold, taken from the clock
(`deploy_dbgbar.py`, `cleanup_dbgbar.py`, `capture_dbgbar.py`, `grab_and_pull.py`); or the prompt
(`ensure_gadget_up.py`, `deploy_gadgetctl.py`, `pull_modules.py`). Commands sent in one unit of the
clock share their token: a whole second in `grab_and_pull.py`, a millisecond in the other three.
`TakeToken` lets every command have the token of the one before (`same`), unless that one has run
into its time limit, which is longer than the unit. The terminal may echo a line when it arrives or
when the shell takes it, and `recv` may cut the stream anywhere.

**Deployment** is one level up: a tool is a list of shell commands, taken in the order in which
they are sent, none of whose exit statuses anybody looks at. `Execute` takes the next one, `Fail`
has it fail, with nothing or a part of it done, `Disconnect` loses the rest of the list, as does a
`sendall` that runs into the time limit of the socket. A file is the sequence of its chunks, so that
a lost, torn or doubled chunk makes another file; of every build the copies that run are counted. A
`kill` whose process outlives the second that the tool waits is one that failed.

**Providers** is the part of `providers.c` that remembers: `av_sample` (video state),
`net_sample` (receive rate), `cpu_sample`. `Sample` is one tick of an enabled daemon, for which
each file may be unreadable, a frame count missing, and the line of the interface too short for its
nine counters. Between two ticks anything may happen: frames, stops, a count that starts again, a
change of the interface, a driver loaded again, idle time that steps back, a daemon restarted.
`strtol` saturates at `LongMax`, for frames as for bytes; the load is computed modulo `Word` and
cast to an int that wraps at `IntMax`. Time is counted in ticks. One kind of event
moves per behaviour (`Parts`), because the three samplers share no variable.

**Mupg** is the image and what each tool that only reads computes from it: a size field, two
version blocks, a table, a body of cells, each cell a run of bytes of one partition. The five
readers are operators side by side, as they are in the code, where each has its own copy.

**SignatureScan** is `scan_signatures`: the rounds in which an offset is reported, with the tail
that is kept. **ImageWorkbench** composes the two with the builder (`Build`, in both modes, then
`raw_patch` on every cell that holds the old version string), the verifier (one operator per
check) and the three tools that take an image apart (`Extract...`, `Unpack`, `ExtractTar`), which
run in any order and may stop half-way. Whether the compressed archive holds the version string
by chance is open (`hit`).

**Scraper** is `parse_transponders` with what is around it. A row is what it is and what its
columns say; the code sees only the text of the whole row, and four operators say what it makes
of that text. An Encryption column is empty, names a system of the list, or one that the list does
not have; and a word in any other column may look like one of the two tests' markers. A wrapper is
a row of an outer table: its text holds that of the table nested in it, whose rows follow. The
properties speak of the columns (`Clear`, `WorthByColumns`), the code's `IsClean` of the text.

**ChecksumSweep** is `crack_checksum.py`. `make_crc` is the function the program builds, bit by
bit; `Named` is the checksum that the parameters stand for, computed from the definition of a CRC
without a table.

The proofs are in `<module>_proofs.tla`, but for two pairs that belong to one program each and
share a module: **StatusBar_proofs** has those of DbgbarDaemon and Shortcut, **DeployTools_proofs**
those of TelnetSession and Deployment. That is why Shortcut says `SeqInit`, `SeqSpec`, ... and
Deployment `DeployInit`, `DeploySpec`, .... `PROJECT.json` maps every definition to the lines it
stands for.

## 3. What the runs show

| run | question | answer |
|---|---|---|
| `gadget_fsm` | five features demand and release in any order, up to three mechanism calls raise | the count is exact (`Inv`), a holder has the gadget (`HeldMeansBound`), it goes down only after a whole unused grace period (`NoFlap`), a release ends while nothing fails (`ReleasingEnds`), and the machine implements `GadgetLifecycle` |
| `gadget_retry` | does a failed `deactivate()` get another try? | no (section 7) |
| `dbgbar_daemon` | edits, toggles, signals, kills and restarts at any moment | a tick that finds nothing new runs on what the file has said in the second of its last change, and on the engineering mode that start-up and the remote chose (`InForceOnceSeen`), and the daemon gets there (`SavedIsLoaded`), however often the file is edited and however that falls between a tick's `stat` and read; excepted is a change during start-up. No paint stays behind but that of a killed instance (`PaintHasOwner`); a disabled daemon shows nothing and keeps its timer (`Inv`); a signal ends the daemon even if it comes between the loop's test and the wait (`SignalEndsDaemon`) |
| `shortcut` | any keys, pauses and clock changes | the mode toggles exactly on the sequence, for keys between which nobody set the clock; the stage is the longest beginning the last keys form |
| `supervisor` | services that die and are started by hand, an interface that leaves with any code | the interface comes back or the box goes down (`UIRecovers`, `EndsOnlyGoingDown`); the script doubles a guarded service only by the race between its `pidof` and its start (`TwoOnlyByRace`); after a crash no link to a stick is left in `/tmp`, and a file system is still mounted only if a clean-up has found it in use (`NoOrphanMounts`) |
| `gadgetctl` | three shells, killed anywhere | "Active" is never said of a missing module; "Idle" of a loaded one only after two `up`s at a time; "Initializing" stays only behind a killed `up` |
| `telnet_session` | three commands per session, early and late echoes, time limits, a break | the split token resynchronizes after every wait that timed out (`SplitAnswersAreWhole`); with the plain token an answer lags by half the number of the commands that share its token, and by nothing if it is its own, as long as none of their token lines was echoed early, and whatever was with other tokens (`TokenLagIsBounded`); the prompt lags by one command, and by one more for every wait that timed out (`PromptLagIsBounded`); no receiver can hang a tool (`SessionEnds`) |
| `scraper` | every page of up to five rows over two transponders | the file lists no transponder twice, and of those whose rows mislead neither test and which no nested table repeats exactly the ones that the two columns ask for, whatever stands in between (`FileFollowsColumns`); none with a channel that is plainly clear is lost, misleading rows and wrappers or not (`ClearIsKept`); a locked one stays only because of a wrapper row, of an empty header, or of a system the list does not know (`LockedIsDropped`) |
| `firmware` | images built in both modes, for lengths below, at and above the old one | what is taken apart is what was built, or a failure shows (`RoundTrip`); all readers, and the header, agree (`ReadersAgree`); an image that passes checks 2 to 5 is sound even after a chance hit (`GreenMeansGood`); the verdict on good images (`VerdictOfGoodBuild`); the signature scan misses nothing (`ScanFindsAll`) |
| `deployment` | three tools in a row, two faults anywhere | a deployment that went through is complete and runs alone, in one copy, whatever was there (`DeployRecovers`); after MATCH no step changes the binary or starts another build (`MatchIsTrusted`); a clean-up leaves two files, both made by `capture_dbgbar.py` (`CleanupLeavesTwo`) |
| `providers` | counters that advance, stand, restart and step back between ticks | HANG means three quiet ticks, the third is never missed (`HangIsThreeStalls`); between two readings of one interface, the first of a whole line, the rate is what was received, or less after a restart, on a short line or beyond 2^31 - 1 (`RateIsBytesSince`); the load is the share of the time, and 100 when idle time steps back (`CpuLoadIsShare`) |
| `checksum_sweep` | does "no standard checksum in catalog matches" mean that none does? | no (section 7) |

Each property of a passing run has a mutant in `PROJECT.json`: a small bug in one definition
that breaks it. A mutant stands in the module as an operator of its own, marked as such, before
the definition it could replace; no other definition uses it.

What the same models say outside the assumptions of the runs, found by changing one constant:

* `CleanFailures = FALSE`: `HeldMeansBound` fails. A `deactivate()` that raises after it has
  unbound leaves the machine in Releasing; the next `demand()` snaps back to Active without
  `activate()`, and its caller has no gadget.
* `SingleOwner = FALSE`: `RefcountExact` and `ReleasingEnds` still hold, `NoFlap` does not.

What the properties leave room for:

* `InForceOnceSeen` speaks of a file that exists. A file that is removed has time 0, which is also
  what a daemon without a file has on record; removed, saved during that tick's reload and removed
  again looks like no change.
* `NoOrphanMounts` lets a stick in use stay mounted after its link has gone, for `rm` runs after an
  `umount` that failed. No later clean-up sees such a stick.
* `PaintHasOwner` is about disabling and leaving, where both rows are cleared (`StripIsCleared` of
  section 7 is about the row left over while the bar goes on), and lets the paint of a killed
  daemon stay.
* `user_script` has no `pidof` guard, so every return of the interface starts one more.
* `HangIsThreeStalls` lets a stall count across two playbacks.

## 4. Bounds

| run | instance | why it is enough |
|---|---|---|
| `gadget_fsm`, `gadget_retry` | 5 clients, `Grace` 4, 3 failures | a first holder, a second, one in flight and one that joins a release, with one to spare; a timer with a start, a middle and an end; a failure in each of `activate`, `deactivate` and a repetition. 207 states |
| `dbgbar_daemon` | periods 3 and 5 written (3 is not allowed and must become the default), modifications up to second 3, any number in each | the file is modified before start-up, between `stat` and read, and after it, in one second and in several. 648,408 states |
| `shortcut` | three classes of keys, clock set back by up to 2 s | a history of five keys is as long as the sequence, and pauses are told apart up to one second beyond the limit. 1,035,120 states |
| `supervisor` | one guarded service, the unguarded one and the status bar installed, 2 processes of each, 2 names in `/tmp` | the services are independent of one another but for their order; two is one too many; a branch of the clean-up that takes another one's name. 310,069 states |
| `gadgetctl` | 3 shells | two overlap and a third reads. 1,521,176 states |
| `telnet_session` | 3 commands | one times out, one reads what it left behind, one must be in step again; three share a token. 954,653 states |
| `scraper` | 2 transponders, 5 rows | a header, its repetition, its channels and the other transponder fit on a page. 467,049 states |
| `firmware` | 2 patched files, 2 versions of each patch, an old length of 2 cells and new ones of 1 to 3, chunk and tail of 2 | shorter, equal, longer; two builds that differ; a signature within a chunk, across a border, inside the tail. 154,458 states |
| `deployment` | 2 builds, 2 chunks, 3 tools, 2 faults | a build left broken, another one that goes through, a clean-up; one fault in each of two tools. 83,616 states |
| `providers` | counters to 4, stall ticks to 4, `LongMax` 2, `IntMax` 255, `Word` 100,000 | one tick more than an alarm needs; counts on both sides of the largest long, shares on both sides of the largest int; `Word` is far above 100 times any count, as 2^64 is above any number of ticks. 1,502,095 states |
| `checksum_sweep` | partitions of 1 or 2 bytes, six entries | one byte is enough for MODBUS, whose register does not start at 0, two for ARC |

`LongMax`, `IntMax` and `Word` are the widths of the code's types, made small. Bounds that are
guards of the model and not of the code: `MaxFails`, `MaxTicks` (GadgetFSM), `MaxStamp`
(DbgbarDaemon), `MaxBack` (Shortcut), `MaxInstances` (Supervisor), `MaxRows` (Scraper), `MaxStream`
(ImageWorkbench), `MaxRuns`, `MaxFaults` (Deployment), `MaxCount`, `MaxStall`, `Parts` (Providers),
`MaxLen` (ChecksumSweep). Symmetry is not used: several runs check liveness, with which it is not
sound.

Deadlock is checked except where the system may really stop: a session, a page, a sweep comes to
its end, the number of tools is bounded, and in the workbench a reader stays without a file.

## 5. Fairness

* GadgetFSM: `tick()` is called again and again, time passes, and a mechanism call returns or
  raises in the end (weak fairness of `Tick`, `Elapse`, the two ends of `deactivate`, and the
  two ends of each client's `activate`). That is the class's contract: `tick` is documented as
  periodic, and a mechanism that never returns blocks the owner. Nobody must demand or release.
* DbgbarDaemon: the process is scheduled: `Setup`, the ticks, `Reload` and `Close` happen. The
  timer is periodic, so that a tick is never missing while it is armed. Edits, toggles, signals
  and kills need never happen.
* Supervisor: weak fairness of `ScriptStep`, that is, the shell goes on and `ofgwrite` returns.
  The interface need never leave, no service need die, and the person at the box need not do
  anything.
* TelnetSession: weak fairness of the tool's own steps. Nothing is asked of the receiver:
  `recv_until` looks at the clock at least once every 0.8 s, because the socket has a time
  limit, so `GiveUp` is always possible for a tool that waits.
* The other modules have no liveness property and no fairness: the tools are run by hand and
  promise nothing about when.

## 6. What is proved

All theorems are checked to the last leaf, for every value of the constants that satisfies the
named assumptions of the module. Each follows from an inductive invariant. Where that fits into the
component's module it is called `Inv` (`SeqInv` in Shortcut); where it says something that the
other properties of the module do not, the run checks it, too (not in Scraper and Providers, whose
runs check what follows from it). The
invariants of ImageWorkbench, TelnetSession and Deployment speak of things that only the argument
needs (the form of an image cell by cell, the number of a prompt, the place in a list) and stand in
the proof modules. The assumptions are those that the code justifies: sizes and bounds are natural
numbers, a chunk, a tail and a root file system are not empty, and two more named below
(`OffsetAssumption`, `LoadAssumption`).

**GadgetFSM_proofs.** `TypeCorrect` and `RefcountIsExact` need no assumption on the
surroundings: the count is the number of holders, of callers inside `activate()`, and one for
legacy mode, even for overlapping calls and dirty failures. `Invariance` is the inductive
invariant. It says which call is in flight in which state (`CallsMatchState`), that nobody is
counted outside Active (`CountsMatchState`), that in Releasing the time left and the time nobody
has held the gadget add up to `Grace` (`TimerMeasuresQuiet`), and that Active and Releasing are
the states in which the gadget is bound. None of the properties is inductive alone: that the
gadget is bound under a holder depends on the snap back from Releasing finding it bound, and no
flapping on the deadline being the one of the last release. `HeldIsBound`, `NeverFlaps` and
`Implementation` (every step is a step of `GadgetLifecycle` or a stutter, under the mapping
users = holders and callers in flight, up = bound) assume `SingleOwner` and `CleanFailures`.

**StatusBar_proofs, the daemon.** `Invariance`, `PaintIsOwned`, and `NoMissedEdit`, for any
sequence of edits, several in one second included. The key is `CacheCoherent`: the recorded time
never lies ahead of the file, and if it equals the file's time then the configuration is something
that the file has said in that second, or start-up has missed the change. An edit between a tick's
stat and its read is harmless because the older time is recorded for the newer content. `EngIsLive`
says where the engineering mode in force comes from: never from a reload.

**StatusBar_proofs, the shortcut.** `SeqInvariance` (the stage is the longest beginning of the
sequence among the last keys) and from it `ToggleCorrect`.

**Supervisor_proofs.** `Invariance`, `OneOfEach`, `NoBlackScreen`, `NoOrphans`, for every set of
installed services, any number of processes and any set of the four names. The invariant adds that
a service about to be started was seen missing, or was started by hand since (`PlaceInv`), and that
a mounted stick has its entry in `/tmp` or was found in use by a clean-up (`MountInv`): that is what
an earlier clean-up leaves to a later one, and `NoOrphanMounts` does not follow without it.

**Gadgetctl_proofs.** `Invariance`, `ActiveHonest`, `IdleHonest`, `InitializingPasses`, for any
number of shells. The invariant adds what each place in `up` knows of the module, and that without
an overlap at most one shell is inside `up`.

**Scraper_proofs.** `Invariance`, `FileIsRight`, `ClearSurvives`, `LockedGoes`, for pages of any
length. The reference is stated over the columns of the whole page, while the pass keeps one open
transponder, so the invariant ties the two: the open transponder is the last header with what its
rows say so far (`CurrentIsLastStart`), and the keys kept are those of the headers already closed
that are worth it (`SeenIsWorth`). The lemmas say what one more row does to the headers, to their
channels and to those that are closed. All this is in terms of the text, as the code is;
`PlainWorth` carries it over to the columns, for transponders whose rows do not mislead.

**Providers_proofs.** `Invariance`, `HangIsRight`, `RateIsRight`, `LoadIsRight`. The stall counter
is tied to the history of the last three readings (`StallIsQuiet`), the remembered counts to what
was counted since (`CountRuns`, `ReadIsPast`, `ReadingIsPast`). `ReadIsPast` is about whole lines:
after a short one the remembered count is 0 and bounds nothing, and `basis` keeps such a reading,
and one of the other interface, out of `RateIsBytesSince`. The load is computed modulo `Word`, and
the proof shows where that matters: `100 * (total - idle)` must be below a word, which is
`LoadAssumption` (`100 * MaxCount < Word`; a counter of 2^64 ticks holds for longer than any
receiver does); when idle time steps back by k its difference wraps, wraps back in the next
subtraction to a share of `dt + k` out of `dt`, and the cap makes it 100, unless the cast to an int
has already wrapped it.

**ImageWorkbench_proofs.** `ScanIsRight`: for every file, chunk and tail, the scan reports a
signature not longer than the tail and one wherever it stands, and twice exactly inside a tail. By
arithmetic: the round that reads the last byte of an occurrence has all of it in its buffer.

`Invariance`, `RoundTripHolds`, `ReadersDoAgree`, `GreenIsGood`, `VerdictIsRight` and
`ScanOfBuilds` are about the images that the builder writes, for every length of the root file
system and of the new one, every patch and every order of the tools. The argument is one normal
form: `File(b, text, room)` is the image that run `b` means, cell by cell, with version string
`text` and a root file system of `room` cells. The stock image has this form, either mode of the
builder keeps it (padding up to the old length, or all that follows moved by the difference), and
the raw patch turns `text` from "old" to "new" and hits a cell of the archive only where `hit` says
so. Every reader is then evaluated on the form: its offsets are those of the table because the
table's lengths are (`ReadersForm`), the places are in the body, and what stands there is the
stream. `Trace` ties the extracted files to the history of the run they come from. The table has
four entries, so the sums over it unfold and no induction is needed. `OffsetAssumption` says that
the offset written into the tools as a number is the one that the stock table gives.

**DeployTools_proofs, the session.** `SessionInvariance`, `SplitIsWhole`, `TokenLags`,
`PromptLags`, for any number of commands and time limits, with a receiver that may echo early, cut
the stream anywhere and go away. `SplitAnswersAreWhole` is not inductive: it speaks of answers
already given, and the next one depends on what is on its way. `MarkersHold` says it of every place
where a marker can be, read, in the stream, or in a line not yet taken: the outputs of the commands
up to its own are in front of it. With the plain token a marker may be that of any of the commands
that share the token, so the argument counts (`TokenOrder`). As long as no token line of such a row
of commands is echoed early, the two markers of each, its echo and its output, come behind the
output of its own command, in the order of the commands (`InTurn`). A wait uses up at least one of
them, and the row has two for each command, so the wait for the l-th command of the row ends on a
marker of a command in the second half of the first l (`Ahead`). With the first command of the row
nothing is left over and the answer is whole. With the prompt no marker belongs to a command
either, and the invariant counts, too (`PromptOrder`): the prompts are numbered as they are shown,
starting with the one in the echo of the line that sets the prompt; a wait that does not time out
uses up a number; and the output of the j-th command stands in front of every prompt from the (j +
2)-nd on. Hence the lag of one, and one more for each time limit, for a connection that breaks as
well.

**DeployTools_proofs, the deployment.** `DeployInvariance`, `Recovery`, `MatchTrusted`,
`CleanupLeaves`, for files of any number of lines, and any number of tools and faults, in any
order. `Recovery` says one copy: what ran before was killed, whatever its number, and the list
starts one. The invariant says at which position of its list the tool is (`Position`) and what the
commands before it have made of the receiver if none of them failed (`Reached`, by position:
before the transfer nothing is assumed of what was there, because the first command removes it;
during it the file is the beginning of the transfer). `Matched` needs no success: behind the
comparison no command of the list touches the binary (`Late`). `Place` and `Cleared` are the
counterparts for the clean-up.

Only model-checked: the liveness properties (`ReleasingEnds`, `SavedIsLoaded`,
`SignalEndsDaemon`, `UIRecovers`, `SessionEnds`), because TLAPS does not reason about `ENABLED`
and so not about fairness; and ChecksumSweep, whose CRC is a recursion over data.

## 7. Disagreements and surprises

Shown by a run:

| run | the text | the code |
|---|---|---|
| `gadget_retry` | `gadget_fsm.py:114`: "stay in Releasing; caller/watchdog may retry" | the `finally` clause clears the deadline, and `tick()` does nothing in Releasing without one |
| `checksum_sweep` | `crack_checksum.py:118`: "RESULT: no standard checksum in catalog matches the USER target." | for reflected entries the table is indexed with the register folded into a byte that is reflected when the table is filled, so that ARC, MODBUS, BLE and refl0 are not the checksums of those names; partitions that carry one of them are reported as carrying none |

Stated in a module in the words of the text, and refuted by TLC under a configuration of its own
(`tlc -config HotReloadKeys.cfg DbgbarDaemon` and so on; these stand beside the runs of
`PROJECT.json`, which say what holds instead):

| configuration, property | the text | the code |
|---|---|---|
| `HotReloadKeys.cfg`, `EngModeIsReloaded` | `dbgbar.conf:2-3`: "The daemon hot-reloads this file within one refresh tick (no restart needed)"; `DEBUG_STATUS_BAR.md:156-159` lists `eng_mode` among the keys | a reload puts the mode in force before it back (`main.c:135, 138`), also when the remote was never used; the file's is read at the next start |
| `HotReloadSeconds.cfg`, `LastSaveIsLoaded` | `dbgbar.conf:2-3`, as above | times are compared in whole seconds (`main.c:134`): a second save in the second on record is not loaded |
| `HotReloadStart.cfg`, `StartUpEditIsLoaded` | `dbgbar.conf:2-3`, as above | `main.c:88-89` reads the file before it takes its time: a save in between is recorded as loaded |
| `StripResidue.cfg`, `StripIsCleared` | `render.c:266-267`: "Fully transparent first so we never leave residue over menu items" | only the rows about to be painted are cleared, so the second row stays when engineering mode is left |
| `MountRemoval.cfg`, `MountPointsAreRemoved` | `README_CUSTOM_BUILD.md:24`, in Persian: each mount point UD1/UD2/UD3 is now removed itself | `bianbiang.sh:98-101` calls `rm` without `-r`, which fails on a directory |
| `Respawn.cfg`, `StatusBarRespawns` | `bianbiang.sh:24`: "Light supervision: respawn if it ever exits" | services are looked at only before the interface is started; a status bar that ends stays away for as long as the interface runs |
| `TokenEcho.cfg`, `EchoedAnswersAreWhole` | `deploy_dbgbar.py:4-5`: "start it, and verify it is running" | the token is in the echo of the line that prints it: echoed at once, it ends the wait before the command has run. `telnet_run.py:75-76` knows of it; the four tools with the plain token do not |
| `TokenSecond.cfg`, `AnswersOfOneSecondAreWhole` | `grab_and_pull.py:5-6`: "pull /tmp/volbar.b64 back and decode it" | the token of line 64 is the time in whole seconds: what is left over of the marker of one command ends the wait for the next of that second |
| `UnknownSystem.cfg`, `EncryptedIsSkipped` | `lyngsat_scraper.py:11`: "If the "Encryption" column has a value, that frequency row is skipped." | the text of the row is searched for sixteen names; a system that is not among them passes for none |
| `MarkerInName.cfg`, `FreeToAirIsKept` | `README_lyngsat_scraper.md:40-41`: "A transponder is kept if it has at least one free-to-air channel" | the same search finds a marker in the other columns, as it finds the word for a feed in a channel's name |
| `NestedTable.cfg`, `NestedIsSkipped` | `README_lyngsat_scraper.md:38-40`: "if a transponder's channels are all encrypted ... that frequency is **skipped**" | the row that a table is nested in comes first, holds the frequency and counts as a transponder without channels, which is kept |
| `RateRelink.cfg`, `RateIsOfTheActive` | `providers.c:342`: "throughput for the active iface from /proc/net/dev" | one remembered count serves both interfaces: the first rate after a change is the difference of the two |
| `RateShort.cfg`, `RateIsOfWholeLines` | `providers.c:342`, as above | of a line with fewer than nine counters 0 is remembered (`providers.c:347, 355, 361`), and the next rate is the whole counter |

Part of a property that holds:

* `ensure_gadget_up.py:6-7` says that it "prints the module state to PROVE ...". The echo of the
  line that sets the prompt holds the prompt: every answer is read one command late
  (`PromptLagIsBounded` allows just that), and the last, the state of the transport modules, never.
* `cleanup_dbgbar.py:5-6, 122` promises the state before the validation. `/data/dbgbar.conf.b64`
  and `/tmp/grab_fb1.py.b64`, made by `capture_dbgbar.py`, stay (`CleanupLeavesTwo` names them).
* `verify_custom.py:23` heads its first check "must be identical". The raw patch of the builder
  changes both version blocks of the header, so the check fails for every image that is as it
  should be (`VerdictOfGoodBuild`); the conclusion printed at line 71 is printed in any case.
* `deploy_dbgbar.py:117` prints MISMATCH and goes on to start the binary. Nothing that is not whole
  starts, but the deployment ends with "DEPLOY DONE".

Seen while reading, outside the modules: `gadget_sample` takes the number of the interrupt for its
count (`providers.c:388-389`), so the rate is 0 and streaming is never shown; rates are per tick
and named per second, whatever `refresh_sec` is, and no layout draws that of the network; when the
input device goes away `epoll_wait` reports it again and again, and the loop spins (`main.c:155`); `extract_satellites.py:88-89` takes the
frequencies of the database for Hz, `gen_turksat_receiver.py:7,55` for kHz; the tokens of `pull_modules.py`, the blob of `capture_dbgbar.py` and the mark of `liveness_once.py` are found in
the echo of the line that prints them.

## 8. What is not modelled

* Wording, layout, glyphs, colours, debug logs, the transition log of `gadget_fsm.py`.
* Inside the telnet sessions: IAC negotiation, the user name and password, the filter on the
  answer's lines, tokens that come again when their clock wraps (after 100,000 s in
  `grab_and_pull.py`, 1,000 s in the others), `connect_retry`, and what the tools that only pull
  make of the answers.
* A wall clock that is set back between two changes of `dbgbar.conf`: the times of a file ascend.
* A daemon that outlives the second after its `kill` and then ends: to the model the `kill` failed.
* Of the providers: temperature, memory, uptime, signal, storage, the engineering fields and the
  audio and demultiplexer states, which show what a file says; the transmit rate, which is computed
  as the receive rate is; the interrupt rate (section 7); that `strstr` finds `eth0:` also in the
  line of an interface whose name ends in it.
* Of the image tools: `BINARY_PATCH_MAP`, which is empty; entries that a reader rejects; the images
  as bytes (a cell is a run of them, so an archive one byte longer is one cell longer); an image
  file that is itself only half written; `find_partition_table.py`, which prints every known name
  it meets.
* Of the checksum sweep: the CRC-32 variants, which `zlib` computes, and seven of the thirteen
  entries, which differ from the six in parameters only.
* The regular expressions of the scraper: a row is given what they find.
* `gadgetctl down` beyond its return 3: nothing after it runs.
* The renderer's drawing; the mechanism behind `gadget_fsm.py`, which does not exist yet; the
  closed program `bianbiang`, which appears only as something that runs, leaves with a code and
  mounts.
* Probes and report generators (`probe_*.py`, `dump_infoblocks.py`, `_analyze_db.py`,
  `extract_satellites.py`, `gen_turksat_receiver.py`): straight-line scripts without state.
* Build set-up (`get_zig.py`, `build_dbgbar.py`, `Makefile`, font data, `sysctl.conf`).

## 9. What is left

1. Proofs about the composition of modules, once there are any (item 3); the safety part of the
   liveness properties, such as that a signal is never forgotten while the daemon runs.
2. The pulls (`pull_modules.py`, `pull_png.py`, `grab_and_pull.py`) on top of TelnetSession: what
   is announced as a match is complete.
3. Composition of Supervisor and DbgbarDaemon (a daemon that dies and is started again must take
   over the overlay) and of Gadgetctl and TelnetSession (a session lost while `up` runs).
4. `gadget_sample`, once it reads the count; the transmit rate.
