---------------------------- MODULE DbgbarDaemon ----------------------------
(***************************************************************************)
(* The life of the debug status bar daemon (dbgbar/main.c): start-up, the  *)
(* epoll loop with its timer tick, the hot reload of /data/dbgbar.conf,    *)
(* the overlay it paints on fb1, signals and exit.                         *)
(*                                                                         *)
(* Around it: an editor that rewrites the file at any time, also between   *)
(* the daemon's stat() and its read; SIGTERM, SIGKILL or the OOM killer;   *)
(* and bianbiang.sh, which starts the daemon again.  The sampling of the   *)
(* providers and what is drawn are left out; of the overlay only which of  *)
(* its two rows hold paint is kept.                                        *)
(***************************************************************************)
EXTENDS Naturals

CONSTANTS
  Refreshes,      \* the values of refresh_sec that somebody may write in the file
  NoFile,         \* the file does not exist
  EmptyFile,      \* the file exists and says nothing (an editor has truncated it)
  MaxStamp        \* bound of the model: the last second in which the file is modified

ASSUME DaemonAssumption ==
  /\ Refreshes \subseteq Nat
  /\ MaxStamp \in Nat \ {0}
  /\ NoFile # EmptyFile
  /\ {NoFile, EmptyFile} \cap [enabled : BOOLEAN, eng_mode : BOOLEAN, refresh_sec : Refreshes] = {}

VARIABLES
  file,           \* /data/dbgbar.conf: what it says
  stamp,          \* the second in which it was last modified
  pc,             \* where the daemon is: off, stat, idle, reload or close
  cfg,            \* config_t cfg
  cfg_mtime,      \* the modification time that cfg was loaded for
  mt,             \* main's local mt: the modification time this tick has seen
  armed,          \* the period of the timerfd, 0 when there is none
  s_run,          \* cleared by the signal handler
  overlay,        \* the rows of the overlay that hold paint
  orphaned,       \* history: a killed instance has left its paint on fb1
  said,           \* history: what the file has asked for in the second of its last change
  missed,         \* history: cfg was read in an earlier second than the one on record
  live,           \* history: the engineering mode that start-up and the remote have chosen
  toggled         \* history: the remote has chosen since start-up

fileVars == <<file, stamp, said>>
engVars == <<live, toggled>>
vars == <<fileVars, pc, cfg, cfg_mtime, mt, armed, s_run, overlay, orphaned, missed, engVars>>

Contents == [enabled : BOOLEAN, eng_mode : BOOLEAN, refresh_sec : Refreshes]
Periods == {1, 2, 5, 10}

TypeOK ==
  /\ file \in Contents \cup {NoFile, EmptyFile}
  /\ stamp \in 1 .. MaxStamp
  /\ pc \in {"off", "stat", "idle", "reload", "close"}
  /\ cfg \in [enabled : BOOLEAN, eng_mode : BOOLEAN, refresh_sec : Periods]
  /\ cfg_mtime \in 0 .. MaxStamp
  /\ mt \in 0 .. MaxStamp
  /\ armed \in Periods \cup {0}
  /\ s_run \in BOOLEAN
  /\ overlay \in SUBSET {"bar", "eng"}
  /\ orphaned \in BOOLEAN
  /\ said \in SUBSET [enabled : BOOLEAN, refresh_sec : Periods]
  /\ missed \in BOOLEAN
  /\ live \in BOOLEAN
  /\ toggled \in BOOLEAN

-----------------------------------------------------------------------------
\* The configuration file

config_defaults == [enabled |-> TRUE, eng_mode |-> FALSE, refresh_sec |-> 1]

\* config_load() of a file: the defaults, and what the file says over them.
loaded(content) ==
  IF content \in {NoFile, EmptyFile}
  THEN config_defaults
  ELSE [content EXCEPT !.refresh_sec = IF @ \in Periods THEN @ ELSE 1]

config_load == loaded(file)

\* A configuration but for the engineering mode, which the remote sets, too.
Asked(c) == [enabled |-> c.enabled, refresh_sec |-> c.refresh_sec]

\* Faulty: tells only whether the file is there.
conf_exists == IF file = NoFile THEN 0 ELSE 1

conf_mtime == IF file = NoFile THEN 0 ELSE stamp

\* A save, a truncation or a removal of the file, in this second or a later one.
Edit(content) ==
  /\ content # file
  /\ file' = content
  /\ \/ stamp' = stamp /\ said' = said \cup {Asked(loaded(content))} /\ UNCHANGED missed
     \/ /\ stamp' = stamp + 1 /\ stamp < MaxStamp
        /\ said' = {Asked(loaded(content))}
        /\ missed' = (missed \/ pc = "stat")
  /\ UNCHANGED <<pc, cfg, cfg_mtime, mt, armed, s_run, overlay, orphaned, engVars>>

-----------------------------------------------------------------------------
\* The overlay

\* Faulty: clears the main row only.
cleared_bar_row == overlay \ {"bar"}

\* render_clear(): both rows.
cleared == {}

\* render_bar(): the main row, and the second one in engineering mode.  It clears only
\* the rows it is about to paint, so a second row painted earlier stays.
painted(c) == IF c.eng_mode THEN {"bar", "eng"} ELSE overlay \cup {"bar"}

-----------------------------------------------------------------------------
\* main()

Init ==
  /\ file \in Contents \cup {NoFile, EmptyFile}
  /\ stamp = 1
  /\ pc = "off"
  /\ cfg = config_defaults
  /\ cfg_mtime = 0
  /\ mt = 0
  /\ armed = 0
  /\ s_run = TRUE
  /\ overlay = {}
  /\ orphaned = FALSE
  /\ said = {Asked(config_load)}
  /\ missed = FALSE
  /\ live = FALSE /\ toggled = FALSE

\* Started by bianbiang.sh or by hand: the first thing main() does is to read the file.
Start ==
  /\ pc = "off"
  /\ pc' = "stat"
  /\ cfg' = config_load
  /\ s_run' = TRUE
  /\ missed' = FALSE
  /\ live' = config_load.eng_mode /\ toggled' = FALSE
  /\ UNCHANGED <<fileVars, cfg_mtime, mt, armed, overlay, orphaned>>

\* The rest of the start-up: stat the file; exit when disabled or when fb1 cannot be
\* mapped; else install the handlers and arm the timer.
Setup ==
  /\ pc = "stat"
  /\ cfg_mtime' = conf_mtime
  /\ \/ /\ cfg.enabled
        /\ pc' = "idle"
        /\ armed' = cfg.refresh_sec
     \/ /\ pc' = "off"
        /\ UNCHANGED armed
  /\ UNCHANGED <<fileVars, cfg, mt, s_run, overlay, orphaned, missed, engVars>>

\* Faulty: the loop is left only by an interrupted epoll_wait().
LoopForever == "idle"

\* while (s_run), once the events that epoll_wait() has returned are handled.
LoopAgain == IF s_run THEN "idle" ELSE "close"

Paint(c) ==
  IF c.enabled
  THEN overlay' = painted(c) /\ orphaned' = (orphaned /\ ~c.eng_mode /\ "eng" \in overlay)
  ELSE UNCHANGED <<overlay, orphaned>>

\* mt != cfg_mtime fails
FileUntouched == conf_mtime = cfg_mtime

\* A tick that finds the file as it was: sample and paint, unless disabled.
TickUntouched ==
  /\ pc = "idle" /\ armed # 0
  /\ FileUntouched
  /\ mt' = conf_mtime
  /\ Paint(cfg)
  /\ pc' = LoopAgain
  /\ UNCHANGED <<fileVars, cfg, cfg_mtime, armed, s_run, missed, engVars>>

TickTouched ==
  /\ pc = "idle" /\ armed # 0
  /\ ~FileUntouched
  /\ mt' = conf_mtime
  /\ pc' = "reload"
  /\ UNCHANGED <<fileVars, cfg, cfg_mtime, armed, s_run, overlay, orphaned, missed, engVars>>

\* Faulty: a new period is used from the next start on.
RearmedNever(period) == armed

\* arm_timer(), when the period has changed
Rearmed(period) == IF period # cfg.refresh_sec THEN period ELSE armed

\* The rest of that tick: load the file as it is now, keep the live eng_mode, clear the
\* overlay when the bar has been disabled, re-arm the timer, sample and paint.
Reload ==
  /\ pc = "reload"
  /\ cfg' = [config_load EXCEPT !.eng_mode = cfg.eng_mode]
  /\ cfg_mtime' = mt
  /\ armed' = Rearmed(config_load.refresh_sec)
  /\ IF config_load.enabled
     THEN Paint(cfg')
     ELSE overlay' = cleared /\ orphaned' = FALSE
  /\ pc' = LoopAgain
  /\ missed' = FALSE
  /\ UNCHANGED <<fileVars, mt, s_run, engVars>>

\* The remote completes MENU 9 9 9 9 (module Shortcut).
ToggleEng ==
  /\ pc = "idle"
  /\ cfg' = [cfg EXCEPT !.eng_mode = ~@]
  /\ live' = ~live /\ toggled' = TRUE
  /\ pc' = LoopAgain
  /\ UNCHANGED <<fileVars, cfg_mtime, mt, armed, s_run, overlay, orphaned, missed>>

\* SIGTERM or SIGINT once the handlers are installed.  It ends epoll_wait() with EINTR,
\* unless it arrives between the loop's test and epoll_wait().
Terminate ==
  /\ pc \in {"idle", "reload"} /\ s_run
  /\ s_run' = FALSE
  /\ pc' \in IF pc = "idle" THEN {"idle", "close"} ELSE {pc}
  /\ UNCHANGED <<fileVars, cfg, cfg_mtime, mt, armed, overlay, orphaned, missed, engVars>>

\* render_close(), and the timer is closed
Close ==
  /\ pc = "close"
  /\ pc' = "off"
  /\ overlay' = cleared
  /\ orphaned' = FALSE
  /\ armed' = 0
  /\ UNCHANGED <<fileVars, cfg, cfg_mtime, mt, s_run, missed, engVars>>

\* SIGKILL, the OOM killer, or a signal before the handlers are there.
Kill ==
  /\ pc # "off"
  /\ pc' = "off"
  /\ armed' = 0
  /\ orphaned' = (overlay # {})
  /\ UNCHANGED <<fileVars, cfg, cfg_mtime, mt, s_run, overlay, missed, engVars>>

Next ==
  \/ \E content \in Contents \cup {NoFile, EmptyFile} : Edit(content)
  \/ Start \/ Setup
  \/ TickUntouched \/ TickTouched \/ Reload
  \/ ToggleEng
  \/ Terminate \/ Close \/ Kill

Spec == Init /\ [][Next]_vars

\* The timer fires and the single thread goes on; nobody has to edit, start or kill.
Fairness ==
  /\ WF_vars(Setup)
  /\ WF_vars(TickUntouched \/ TickTouched)
  /\ WF_vars(Reload)
  /\ WF_vars(Close)

FairSpec == Spec /\ Fairness

-----------------------------------------------------------------------------

(***************************************************************************)
(* What is in force is what the file has said in the second of its last    *)
(* change, and the engineering mode that start-up and the remote chose.    *)
(***************************************************************************)
InForce == Asked(cfg) \in said /\ cfg.eng_mode = live

(***************************************************************************)
(* What holds of dbgbar.conf:2-3, "hot-reloads this file within one        *)
(* refresh tick", whenever and however often the file is edited: a tick    *)
(* that finds nothing new runs on what the file has said in the second of  *)
(* its last change (with one change in that second: on what it says), also *)
(* when an edit fell between a tick's stat and its read.  The exception is *)
(* a file changed between the first read of start-up and its stat.         *)
(***************************************************************************)
InForceOnceSeen ==
  pc = "idle" /\ file # NoFile /\ conf_mtime = cfg_mtime => InForce \/ missed

(***************************************************************************)
(* dbgbar.conf:2-3 with 7 and DEBUG_STATUS_BAR.md:156-159, which list      *)
(* eng_mode among the keys that are hot-reloaded: a reload takes it over,  *)
(* unless the remote has set the mode since start-up.                      *)
(* The code does not: lines 135 and 138 put the mode in force back         *)
(* (HotReloadKeys.cfg).                                                    *)
(***************************************************************************)
EngModeIsReloaded ==
  [][Reload /\ ~toggled => cfg'.eng_mode = config_load.eng_mode]_vars

(***************************************************************************)
(* dbgbar.conf:2-3 to the letter, for the keys but eng_mode: what was      *)
(* saved last comes into force, unless the file is edited again.           *)
(* Not so of a second save in one second (HotReloadSeconds.cfg).           *)
(***************************************************************************)
LastSaveIsLoaded ==
  \A content \in Contents :
    (pc = "idle" /\ file = content /\ ~missed)
      ~> (Asked(cfg) = Asked(loaded(content)) \/ file # content \/ pc \in {"close", "off"})

(***************************************************************************)
(* The same of a file changed during start-up, between main()'s first read *)
(* of it and its first stat().                                             *)
(* Not so (HotReloadStart.cfg).                                            *)
(***************************************************************************)
StartUpEditIsLoaded ==
  (pc = "idle" /\ file # NoFile)
    ~> (InForce \/ file = NoFile \/ pc \in {"close", "off"})

(***************************************************************************)
(* render.c:266-267, "clear our strip only (top of screen).  Fully         *)
(* transparent first so we never leave residue": the second row goes when  *)
(* engineering mode is left.                                               *)
(* Not so while the bar goes on (StripResidue.cfg).                        *)
(***************************************************************************)
StripIsCleared ==
  (pc = "idle" /\ cfg.enabled /\ ~cfg.eng_mode)
    ~> ("eng" \notin overlay \/ cfg.eng_mode \/ pc \in {"close", "off"})

(***************************************************************************)
(* The paint on fb1 belongs to a daemon that is enabled and alive, or to   *)
(* one that was killed: neither disabling the bar nor an orderly exit      *)
(* leaves any of its rows behind.                                          *)
(***************************************************************************)
PaintHasOwner ==
  overlay # {} =>
    \/ orphaned
    \/ pc \in {"idle", "reload", "close"} /\ cfg.enabled

\* While the daemon runs disabled nothing is on screen, a predecessor's paint included.
DisabledShowsNothing == pc = "idle" /\ ~cfg.enabled => overlay = {}

(***************************************************************************)
(* The timer runs with the configured period as long as the daemon runs,   *)
(* disabled or not: it is the only thing that wakes a disabled daemon.     *)
(***************************************************************************)
TimerRuns == pc \in {"idle", "reload"} => armed = cfg.refresh_sec

(***************************************************************************)
(* Whatever is saved, and as often as it is: the running daemon gets to    *)
(* what the file has said in the second of its last change (or the file or *)
(* the daemon goes).                                                       *)
(***************************************************************************)
SavedIsLoaded ==
  (pc = "idle" /\ file # NoFile /\ ~missed)
    ~> (InForce \/ file = NoFile \/ pc \in {"close", "off"})

(***************************************************************************)
(* A termination signal ends the daemon even if it arrives after the       *)
(* loop's test and before epoll_wait(), which it then does not interrupt.  *)
(***************************************************************************)
SignalEndsDaemon == ~s_run ~> pc = "off"

(***************************************************************************)
(* The inductive invariant.                                                *)
(***************************************************************************)

\* The time seen by a tick is not ahead of the file.
SeenIsPast == pc = "reload" => mt <= stamp

\* What cfg was loaded for: the file in the second of its last change, or in an earlier one.
CacheCoherent ==
  /\ cfg_mtime <= stamp
  /\ Asked(config_load) \in said
  /\ pc = "stat" => Asked(cfg) \in said \/ missed
  /\ pc \in {"idle", "reload"} /\ cfg_mtime = stamp => Asked(cfg) \in said \/ missed

EngIsLive == pc # "off" => cfg.eng_mode = live

Inv ==
  /\ TypeOK
  /\ DisabledShowsNothing
  /\ TimerRuns
  /\ SeenIsPast
  /\ CacheCoherent
  /\ EngIsLive

=============================================================================
