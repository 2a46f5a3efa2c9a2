--------------------------- MODULE StatusBar_proofs ---------------------------
(***************************************************************************)
(* Proofs about the status bar (dbgbar/main.c): its daemon, for any        *)
(* history of edits of its configuration file and any values of            *)
(* refresh_sec in it, and its hidden shortcut, for any behaviour of the    *)
(* wall clock.                                                             *)
(***************************************************************************)
EXTENDS DbgbarDaemon, Shortcut, TLAPS

-----------------------------------------------------------------------------
(* The daemon.                                                             *)

(***************************************************************************)
(* config_load() always yields one of the four periods the timer accepts.  *)
(***************************************************************************)
Configs == [enabled : BOOLEAN, eng_mode : BOOLEAN, refresh_sec : Periods]
Requests == [enabled : BOOLEAN, refresh_sec : Periods]

LEMMA LoadedType ==
  ASSUME NEW content \in Contents \cup {NoFile, EmptyFile}
  PROVE  loaded(content) \in Configs /\ Asked(loaded(content)) \in Requests
<1>1. loaded(content) \in Configs
  <2>1. CASE content \in {NoFile, EmptyFile}
    BY <2>1 DEF loaded, config_defaults, Periods, Configs
  <2>2. CASE content \in Contents /\ content \notin {NoFile, EmptyFile}
    BY <2>2 DEF loaded, Contents, Periods, Configs
  <2> QED
    BY <2>1, <2>2
<1> QED
  BY <1>1 DEF Asked, Configs, Requests

LEMMA LoadType ==
  ASSUME file \in Contents \cup {NoFile, EmptyFile}
  PROVE  config_load \in Configs
BY LoadedType DEF config_load

\* Two configurations that agree but for the engineering mode ask for the same.
LEMMA SameAsked ==
  ASSUME NEW c, NEW d, c.enabled = d.enabled, c.refresh_sec = d.refresh_sec
  PROVE  Asked(c) = Asked(d)
BY DEF Asked

(***************************************************************************)
(* A reload takes everything from the file but the live engineering mode.  *)
(***************************************************************************)
LEMMA ReloadedConfig ==
  ASSUME TypeOK, Reload
  PROVE  /\ cfg' \in Configs
         /\ cfg'.enabled = config_load.enabled
         /\ cfg'.refresh_sec = config_load.refresh_sec
         /\ cfg'.eng_mode = cfg.eng_mode
<1>1. config_load \in Configs
  BY LoadType DEF TypeOK
<1>2. cfg' = [config_load EXCEPT !.eng_mode = cfg.eng_mode] /\ cfg.eng_mode \in BOOLEAN
  BY DEF Reload, TypeOK
<1> QED
  BY <1>1, <1>2 DEF Configs

(***************************************************************************)
(* The remote changes the engineering mode and nothing else of it.         *)
(***************************************************************************)
LEMMA ToggledConfig ==
  ASSUME TypeOK, ToggleEng
  PROVE  /\ cfg' \in Configs
         /\ cfg'.enabled = cfg.enabled
         /\ cfg'.refresh_sec = cfg.refresh_sec
         /\ cfg'.eng_mode = ~cfg.eng_mode
<1>1. cfg \in Configs /\ cfg.eng_mode \in BOOLEAN
  BY DEF TypeOK, Configs
<1>2. cfg' = [cfg EXCEPT !.eng_mode = ~cfg.eng_mode]
  BY DEF ToggleEng
<1> QED
  BY <1>1, <1>2 DEF Configs

(***************************************************************************)
(* Every step of the daemon and of its surroundings is well typed.         *)
(***************************************************************************)
LEMMA TypeStep == TypeOK /\ [Next]_vars => TypeOK'
<1> SUFFICES ASSUME TypeOK, [Next]_vars
             PROVE  TypeOK'
  OBVIOUS
<1> USE DEF TypeOK
<1>0. conf_mtime \in 0 .. MaxStamp
  BY DaemonAssumption DEF conf_mtime
<1>1. ASSUME NEW content \in Contents \cup {NoFile, EmptyFile}, Edit(content)
      PROVE  TypeOK'
  <2>1. Asked(loaded(content)) \in Requests
    BY LoadedType
  <2>2. stamp' \in 1 .. MaxStamp
    BY <1>1, DaemonAssumption DEF Edit
  <2>3. said' \in SUBSET [enabled : BOOLEAN, refresh_sec : Periods]
    BY <1>1, <2>1 DEF Edit, Requests
  <2>4. missed' \in BOOLEAN
    BY <1>1 DEF Edit
  <2>5. file' \in Contents \cup {NoFile, EmptyFile}
    BY <1>1 DEF Edit
  <2> QED
    BY <1>1, <2>2, <2>3, <2>4, <2>5 DEF Edit, engVars
<1>2. CASE Start
  BY <1>2, LoadType DEF Start, fileVars, Configs
<1>3. CASE Setup
  BY <1>0, <1>3 DEF Setup, fileVars, engVars
<1>4. CASE TickUntouched \/ TickTouched
  BY <1>0, <1>4 DEF TickUntouched, TickTouched, Paint, painted, LoopAgain, fileVars, engVars
<1>5. CASE Reload
  <2>1. cfg' \in [enabled : BOOLEAN, eng_mode : BOOLEAN, refresh_sec : Periods]
    BY <1>5, ReloadedConfig DEF Configs
  <2>2. armed' \in Periods \cup {0}
    <3>1. config_load.refresh_sec \in Periods
      BY LoadType DEF Configs
    <3> QED
      BY <1>5, <3>1 DEF Reload, Rearmed
  <2>3. overlay' \in SUBSET {"bar", "eng"} /\ orphaned' \in BOOLEAN
    BY <1>5 DEF Reload, Paint, painted, cleared
  <2> QED
    BY <1>5, <2>1, <2>2, <2>3 DEF Reload, LoopAgain, fileVars, engVars
<1>6. CASE ToggleEng
  BY <1>6, ToggledConfig DEF ToggleEng, Configs, LoopAgain, fileVars, engVars
<1>7. CASE Terminate
  BY <1>7 DEF Terminate, fileVars, engVars
<1>8. CASE Close
  BY <1>8 DEF Close, cleared, fileVars, engVars
<1>9. CASE Kill
  BY <1>9 DEF Kill, fileVars, engVars
<1>10. CASE UNCHANGED vars
  BY <1>10 DEF vars, fileVars, engVars
<1> QED
  BY <1>1, <1>2, <1>3, <1>4, <1>5, <1>6, <1>7, <1>8, <1>9, <1>10 DEF Next

(***************************************************************************)
(* The overlay: no step leaves paint without an owner, or on screen while  *)
(* the daemon runs disabled.                                               *)
(***************************************************************************)
LEMMA OverlayStep ==
  ASSUME TypeOK, PaintHasOwner, DisabledShowsNothing, [Next]_vars
  PROVE  PaintHasOwner' /\ DisabledShowsNothing'
<1> DEFINE Goal == PaintHasOwner' /\ DisabledShowsNothing'
<1> USE DEF PaintHasOwner, DisabledShowsNothing
<1>1. ASSUME NEW content \in Contents \cup {NoFile, EmptyFile}, Edit(content)
      PROVE  Goal
  BY <1>1 DEF Edit
<1>2. CASE Start
  BY <1>2 DEF Start
<1>3. CASE Setup
  BY <1>3 DEF Setup
<1>4. CASE TickUntouched \/ TickTouched
  BY <1>4 DEF TickUntouched, TickTouched, Paint, painted, LoopAgain, TypeOK
<1>5. CASE Reload
  <2>1. cfg'.enabled = config_load.enabled
    BY <1>5, ReloadedConfig
  <2>2. CASE config_load.enabled
    BY <1>5, <2>1, <2>2 DEF Reload, LoopAgain
  <2>3. CASE ~config_load.enabled
    BY <1>5, <2>1, <2>3 DEF Reload, cleared
  <2> QED
    BY <2>2, <2>3
<1>6. CASE ToggleEng
  <2>1. cfg'.enabled = cfg.enabled
    BY <1>6, ToggledConfig
  <2> QED
    BY <1>6, <2>1 DEF ToggleEng, LoopAgain
<1>7. CASE Terminate
  BY <1>7 DEF Terminate
<1>8. CASE Close
  BY <1>8 DEF Close, cleared
<1>9. CASE Kill
  BY <1>9 DEF Kill
<1>10. CASE UNCHANGED vars
  BY <1>10 DEF vars
<1> QED
  BY <1>1, <1>2, <1>3, <1>4, <1>5, <1>6, <1>7, <1>8, <1>9, <1>10 DEF Next

(***************************************************************************)
(* The timer always runs with the period in force.                         *)
(***************************************************************************)
LEMMA TimerStep ==
  ASSUME TypeOK, TimerRuns, [Next]_vars
  PROVE  TimerRuns'
<1> USE DEF TimerRuns
<1>1. ASSUME NEW content \in Contents \cup {NoFile, EmptyFile}, Edit(content)
      PROVE  TimerRuns'
  BY <1>1 DEF Edit
<1>2. CASE Start
  BY <1>2 DEF Start
<1>3. CASE Setup
  BY <1>3 DEF Setup
<1>4. CASE TickUntouched \/ TickTouched
  BY <1>4 DEF TickUntouched, TickTouched
<1>5. CASE Reload
  BY <1>5, ReloadedConfig DEF Reload, Rearmed, LoopAgain
<1>6. CASE ToggleEng
  <2>1. cfg'.refresh_sec = cfg.refresh_sec
    BY <1>6, ToggledConfig
  <2> QED
    BY <1>6, <2>1 DEF ToggleEng, LoopAgain
<1>7. CASE Terminate
  BY <1>7 DEF Terminate
<1>8. CASE Close
  BY <1>8 DEF Close
<1>9. CASE Kill
  BY <1>9 DEF Kill
<1>10. CASE UNCHANGED vars
  BY <1>10 DEF vars
<1> QED
  BY <1>1, <1>2, <1>3, <1>4, <1>5, <1>6, <1>7, <1>8, <1>9, <1>10 DEF Next

(***************************************************************************)
(* The record of which file is in force.  An edit in a later second moves  *)
(* the file's time past the one on record, and one in the same second only *)
(* adds to what the file has said; a reload records the time it saw before *)
(* it read, so what it read is that file or a later one.                   *)
(***************************************************************************)
LEMMA CacheStep ==
  ASSUME TypeOK, SeenIsPast, CacheCoherent, [Next]_vars
  PROVE  SeenIsPast' /\ CacheCoherent'
<1> DEFINE Goal == SeenIsPast' /\ CacheCoherent'
<1>0. stamp \in Nat /\ cfg_mtime \in Nat /\ conf_mtime <= stamp
  BY DaemonAssumption DEF TypeOK, conf_mtime
<1> USE <1>0 DEF SeenIsPast, CacheCoherent
<1>1. ASSUME NEW content \in Contents \cup {NoFile, EmptyFile}, Edit(content)
      PROVE  Goal
  <2>1. file' = content /\ UNCHANGED <<pc, cfg, cfg_mtime, mt>>
    BY <1>1 DEF Edit
  <2>2. config_load' = loaded(content) /\ Asked(config_load)' = Asked(config_load')
    BY <2>1 DEF config_load, Asked, loaded
  <2>3. CASE stamp' = stamp /\ said' = said \cup {Asked(loaded(content))} /\ UNCHANGED missed
    BY <2>1, <2>2, <2>3 DEF Asked
  <2>4. CASE /\ stamp' = stamp + 1 /\ said' = {Asked(loaded(content))}
             /\ missed' = (missed \/ pc = "stat")
    <3>1. Asked(config_load)' \in said'
      BY <2>2, <2>4
    <3>2. cfg_mtime' <= stamp' /\ cfg_mtime' # stamp'
      BY <2>1, <2>4
    <3>3. pc' = "reload" => mt' <= stamp'
      BY <2>1, <2>4, DaemonAssumption DEF TypeOK
    <3> QED
      BY <2>1, <2>4, <3>1, <3>2, <3>3
  <2> QED
    BY <1>1, <2>3, <2>4 DEF Edit
<1>2. ASSUME UNCHANGED <<file, stamp, said>>
      PROVE  Asked(config_load)' = Asked(config_load)
  BY <1>2 DEF config_load, Asked, loaded
<1>3. CASE Start
  <2>1. UNCHANGED <<file, stamp, said, cfg_mtime>> /\ cfg' = config_load /\ pc' = "stat"
    BY <1>3 DEF Start, fileVars
  <2>2. Asked(cfg)' = Asked(config_load)
    BY <2>1 DEF Asked
  <2> QED
    BY <1>2, <2>1, <2>2
<1>4. CASE Setup
  <2>1. UNCHANGED <<file, stamp, said, cfg, missed>> /\ pc = "stat" /\ pc' \in {"idle", "off"}
        /\ cfg_mtime' = conf_mtime
    BY <1>4 DEF Setup, fileVars
  <2>2. Asked(cfg)' = Asked(cfg)
    BY <2>1 DEF Asked
  <2> QED
    BY <1>2, <2>1, <2>2
<1>5. CASE TickUntouched \/ TickTouched
  <2>1. UNCHANGED <<file, stamp, said, cfg, cfg_mtime, missed>> /\ pc = "idle" /\ mt' = conf_mtime
        /\ pc' \in {"idle", "close", "reload"}
    BY <1>5 DEF TickUntouched, TickTouched, LoopAgain, fileVars
  <2>2. Asked(cfg)' = Asked(cfg)
    BY <2>1 DEF Asked
  <2> QED
    BY <1>2, <2>1, <2>2
<1>6. CASE Reload
  <2>1. UNCHANGED <<file, stamp, said>> /\ cfg_mtime' = mt /\ pc = "reload"
        /\ pc' \in {"idle", "close"}
    BY <1>6 DEF Reload, LoopAgain, fileVars
  <2>2. cfg'.enabled = config_load.enabled /\ cfg'.refresh_sec = config_load.refresh_sec
    BY <1>6, ReloadedConfig
  <2>3. Asked(cfg)' = Asked(config_load)
    BY <2>2 DEF Asked
  <2> QED
    BY <1>2, <2>1, <2>3
<1>7. CASE ToggleEng
  <2>1. UNCHANGED <<file, stamp, said, cfg_mtime, mt, missed>> /\ pc = "idle"
        /\ pc' \in {"idle", "close"}
    BY <1>7 DEF ToggleEng, LoopAgain, fileVars
  <2>2. Asked(cfg)' = Asked(cfg)
    BY <1>7, ToggledConfig DEF Asked
  <2> QED
    BY <1>2, <2>1, <2>2
<1>8. CASE Terminate \/ Close \/ Kill \/ UNCHANGED vars
  <2>1. /\ UNCHANGED <<file, stamp, said, cfg, cfg_mtime, mt, missed>>
        /\ pc' = pc \/ pc' \in {"close", "off"}
    BY <1>8 DEF Terminate, Close, Kill, vars, fileVars
  <2>2. Asked(cfg)' = Asked(cfg)
    BY <2>1 DEF Asked
  <2> QED
    BY <1>2, <2>1, <2>2
<1> QED
  BY <1>1, <1>3, <1>4, <1>5, <1>6, <1>7, <1>8 DEF Next

(***************************************************************************)
(* The engineering mode: only start-up and the remote set it.              *)
(***************************************************************************)
LEMMA EngStep ==
  ASSUME TypeOK, EngIsLive, [Next]_vars
  PROVE  EngIsLive'
<1> USE DEF EngIsLive
<1>1. ASSUME NEW content \in Contents \cup {NoFile, EmptyFile}, Edit(content)
      PROVE  EngIsLive'
  BY <1>1 DEF Edit, engVars
<1>2. CASE Start
  BY <1>2 DEF Start
<1>3. CASE Setup
  BY <1>3 DEF Setup, engVars
<1>4. CASE TickUntouched \/ TickTouched
  BY <1>4 DEF TickUntouched, TickTouched, engVars
<1>5. CASE Reload
  BY <1>5, ReloadedConfig DEF Reload, engVars
<1>6. CASE ToggleEng
  BY <1>6, ToggledConfig DEF ToggleEng
<1>7. CASE Terminate \/ Close \/ Kill \/ UNCHANGED vars
  BY <1>7 DEF Terminate, Close, Kill, vars, engVars
<1> QED
  BY <1>1, <1>2, <1>3, <1>4, <1>5, <1>6, <1>7 DEF Next

(***************************************************************************)
(* The inductive invariant, and that paint has an owner, hold at the start *)
(* and are kept together.                                                  *)
(***************************************************************************)
LEMMA InitInv == Init => Inv /\ PaintHasOwner
<1> SUFFICES ASSUME Init
             PROVE  Inv /\ PaintHasOwner
  OBVIOUS
<1>1. file \in Contents \cup {NoFile, EmptyFile} /\ said = {Asked(config_load)}
  BY DEF Init
<1>2. Asked(config_load) \in Requests
  BY <1>1, LoadedType DEF config_load
<1>3. TypeOK
  <2>1. cfg \in [enabled : BOOLEAN, eng_mode : BOOLEAN, refresh_sec : Periods]
    BY DEF Init, config_defaults, Periods
  <2>2. stamp \in 1 .. MaxStamp /\ cfg_mtime \in 0 .. MaxStamp /\ mt \in 0 .. MaxStamp
    BY DaemonAssumption DEF Init
  <2>3. said \in SUBSET [enabled : BOOLEAN, refresh_sec : Periods]
    BY <1>1, <1>2 DEF Requests
  <2> QED
    BY <2>1, <2>2, <2>3 DEF Init, TypeOK
<1>4. pc = "off" /\ overlay = {} /\ cfg_mtime = 0 /\ stamp = 1
  BY DEF Init
<1> QED
  BY <1>1, <1>3, <1>4
     DEF Inv, PaintHasOwner, DisabledShowsNothing, TimerRuns, SeenIsPast, CacheCoherent, EngIsLive

LEMMA InvStep == Inv /\ PaintHasOwner /\ [Next]_vars => Inv' /\ PaintHasOwner'
BY TypeStep, OverlayStep, TimerStep, CacheStep, EngStep DEF Inv

(***************************************************************************)
(* The inductive invariant holds of every behaviour.                       *)
(***************************************************************************)
THEOREM Invariance == Spec => []Inv
BY InitInv, InvStep, PTL DEF Spec

(***************************************************************************)
(* Neither disabling the bar nor an orderly exit leaves paint on fb1.      *)
(***************************************************************************)
THEOREM PaintIsOwned == Spec => []PaintHasOwner
BY InitInv, InvStep, PTL DEF Spec

(***************************************************************************)
(* The tick's stat-then-read order cannot miss an edit, whenever and       *)
(* however often the file is edited: what is in force under the time on    *)
(* record is what the file said in that second, with the engineering mode  *)
(* of start-up and the remote.  Only start-up may miss one.                *)
(***************************************************************************)
THEOREM NoMissedEdit == Spec => []InForceOnceSeen
<1>1. Inv => InForceOnceSeen
  BY DEF Inv, CacheCoherent, EngIsLive, InForceOnceSeen, InForce, conf_mtime
<1> QED
  BY <1>1, Invariance, PTL

-----------------------------------------------------------------------------
(* The shortcut.                                                           *)

(***************************************************************************)
(* What it means that the last keys begin the sequence, written out.       *)
(***************************************************************************)
LEMMA BeginsCases ==
  ASSUME NEW r \in [1 .. 5 -> [key : Key, soon : BOOLEAN]]
  PROVE  /\ Begins(r, 1) <=> r[5].key = "MENU"
         /\ Begins(r, 2) <=> r[4].key = "MENU" /\ r[5].key = "9" /\ r[5].soon
         /\ Begins(r, 3) <=> /\ r[3].key = "MENU" /\ r[4].key = "9" /\ r[4].soon
                             /\ r[5].key = "9" /\ r[5].soon
         /\ Begins(r, 4) <=> /\ r[2].key = "MENU" /\ r[3].key = "9" /\ r[3].soon
                             /\ r[4].key = "9" /\ r[4].soon
                             /\ r[5].key = "9" /\ r[5].soon
         /\ Begins(r, 5) <=> /\ r[1].key = "MENU" /\ r[2].key = "9" /\ r[2].soon
                             /\ r[3].key = "9" /\ r[3].soon
                             /\ r[4].key = "9" /\ r[4].soon
                             /\ r[5].key = "9" /\ r[5].soon
  BY DEF Begins

(***************************************************************************)
(* Every step is well typed.                                               *)
(***************************************************************************)
LEMMA SeqTypeStep == SeqTypeOK /\ [SeqNext]_seqVars => SeqTypeOK'
<1> SUFFICES ASSUME SeqTypeOK, [SeqNext]_seqVars
             PROVE  SeqTypeOK'
  OBVIOUS
<1> USE ShortcutAssumption DEF SeqTypeOK, Pauses, Timeout
<1>1. ASSUME NEW key \in Key, seq_feed(key)
      PROVE  SeqTypeOK'
  <2>1. s_seq_stage' \in 0 .. 4
    BY <1>1 DEF seq_feed, stage_after, live_stage, completes
  <2>2. recent' \in [1 .. 5 -> [key : Key, soon : BOOLEAN]]
    BY <1>1 DEF seq_feed
  <2>3. eng_mode' \in BOOLEAN
    BY <1>1 DEF seq_feed
  <2> QED
    BY <1>1, <2>1, <2>2, <2>3 DEF seq_feed
<1>2. CASE Second
  BY <1>2 DEF Second
<1>3. CASE ClockStep
  BY <1>3 DEF ClockStep
<1>4. CASE UNCHANGED seqVars
  BY <1>4 DEF seqVars
<1> QED
  BY <1>1, <1>2, <1>3, <1>4 DEF SeqNext

(***************************************************************************)
(* A key press shifts the history by one and appends the key.              *)
(***************************************************************************)
LEMMA PressShifts ==
  ASSUME SeqTypeOK, NEW key \in Key, seq_feed(key)
  PROVE  /\ recent' \in [1 .. 5 -> [key : Key, soon : BOOLEAN]]
         /\ \A i \in 1 .. 4 : recent'[i] = recent[i + 1]
         /\ recent'[5].key = key /\ (recent'[5].soon <=> pause <= Timeout)
<1> DEFINE last == [key |-> key, soon |-> pause <= Timeout]
<1>1. last \in [key : Key, soon : BOOLEAN]
  OBVIOUS
<1>2. recent' = [i \in 1 .. 5 |-> IF i = 5 THEN last ELSE recent[i + 1]]
  BY DEF seq_feed
<1>3. last.key = key /\ (last.soon <=> pause <= Timeout)
  OBVIOUS
<1>4. recent'[5] = last /\ \A i \in 1 .. 4 : recent'[i] = recent[i + 1]
  BY <1>2
<1>5. recent' \in [1 .. 5 -> [key : Key, soon : BOOLEAN]]
  <2>1. ASSUME NEW i \in 1 .. 5, i # 5
        PROVE  recent[i + 1] \in [key : Key, soon : BOOLEAN]
    BY <2>1 DEF SeqTypeOK
  <2> HIDE DEF last
  <2> QED
    BY <1>1, <1>2, <2>1
<1> QED
  BY <1>3, <1>4, <1>5

(***************************************************************************)
(* Every step keeps the stage equal to the beginning of the sequence that  *)
(* the last keys form, as far as the clock has been left alone.            *)
(***************************************************************************)
LEMMA PrefixStep == SeqInv /\ [SeqNext]_seqVars => StageIsPrefix'
<1> SUFFICES ASSUME SeqInv, [SeqNext]_seqVars
             PROVE  StageIsPrefix'
  OBVIOUS
<1> USE ShortcutAssumption DEF SeqInv, Pauses, Timeout
<1>1. ASSUME NEW key \in Key, seq_feed(key)
      PROVE  StageIsPrefix'
  <2>1. /\ recent \in [1 .. 5 -> [key : Key, soon : BOOLEAN]]
        /\ recent' \in [1 .. 5 -> [key : Key, soon : BOOLEAN]]
        /\ recent'[4] = recent[5] /\ recent'[3] = recent[4] /\ recent'[2] = recent[3]
        /\ recent'[5].key = key /\ (recent'[5].soon <=> pause <= Timeout)
    BY <1>1, PressShifts DEF SeqTypeOK
  <2>2. /\ since' = 0 /\ pause' = 0 /\ steady' = IF steady < 4 THEN steady + 1 ELSE steady
        /\ s_seq_stage' = stage_after(key)
    BY <1>1 DEF seq_feed
  <2>3. /\ steady \in -1 .. 4 /\ s_seq_stage \in 0 .. 4
        /\ pause \in 0 .. 4 /\ since \in Int
    BY DEF SeqTypeOK
  <2>4. /\ Begins(recent', 1) <=> key = "MENU"
        /\ Begins(recent', 2) <=> Begins(recent, 1) /\ key = "9" /\ pause <= 3
        /\ Begins(recent', 3) <=> Begins(recent, 2) /\ key = "9" /\ pause <= 3
        /\ Begins(recent', 4) <=> Begins(recent, 3) /\ key = "9" /\ pause <= 3
    BY <2>1, BeginsCases
  <2>5. /\ steady >= 0 => since = pause
        /\ s_seq_stage > 0 /\ steady >= s_seq_stage - 1 => Begins(recent, s_seq_stage)
        /\ \A k \in 1 .. 4 : Begins(recent, k) /\ steady >= k - 1 => s_seq_stage = k
    BY DEF StageIsPrefix
  <2>6. s_seq_stage' > 0 /\ steady' >= s_seq_stage' - 1 => Begins(recent', s_seq_stage')
    BY <2>2, <2>3, <2>4, <2>5 DEF stage_after, live_stage, completes, Key
  <2>7. \A k \in 1 .. 4 : Begins(recent', k) /\ steady' >= k - 1 => s_seq_stage' = k
    BY <2>2, <2>3, <2>4, <2>5 DEF stage_after, live_stage, completes, Key
  <2> QED
    BY <2>2, <2>6, <2>7 DEF StageIsPrefix
<1>2. CASE Second
  BY <1>2 DEF Second, StageIsPrefix, SeqTypeOK
<1>3. CASE ClockStep
  BY <1>3 DEF ClockStep, StageIsPrefix, SeqTypeOK
<1>4. CASE UNCHANGED seqVars
  BY <1>4 DEF seqVars, StageIsPrefix
<1> QED
  BY <1>1, <1>2, <1>3, <1>4 DEF SeqNext

(***************************************************************************)
(* The inductive invariant holds of every behaviour.                       *)
(***************************************************************************)
THEOREM SeqInvariance == SeqSpec => []SeqInv
<1>1. SeqInit => SeqInv
  <2> SUFFICES ASSUME SeqInit
               PROVE  SeqInv
    OBVIOUS
  <2> USE ShortcutAssumption DEF SeqInit, Timeout
  <2>1. recent \in [1 .. 5 -> [key : Key, soon : BOOLEAN]]
    BY DEF Key
  <2>2. SeqTypeOK
    BY <2>1 DEF SeqTypeOK, Pauses
  <2>3. recent[5].key = "other" /\ recent[4].key = "other" /\ recent[3].key = "other"
    OBVIOUS
  <2>4. ~Begins(recent, 1) /\ ~Begins(recent, 2) /\ ~Begins(recent, 3) /\ ~Begins(recent, 4)
    BY <2>1, <2>3, BeginsCases
  <2>5. StageIsPrefix
    BY <2>4 DEF StageIsPrefix
  <2> QED
    BY <2>2, <2>5 DEF SeqInv
<1>2. SeqInv /\ [SeqNext]_seqVars => SeqInv'
  BY SeqTypeStep, PrefixStep DEF SeqInv
<1> QED
  BY <1>1, <1>2, PTL DEF SeqSpec

(***************************************************************************)
(* The engineering mode toggles on MENU 9 9 9 9 keyed in without a long    *)
(* pause, and only then, unless the clock is set in between.               *)
(***************************************************************************)
THEOREM ToggleCorrect == SeqSpec => TogglesOnSequence
<1>1. ASSUME SeqInv, [SeqNext]_seqVars, steady' = 4
      PROVE  (eng_mode' # eng_mode) <=> (recent' # recent /\ Begins(recent', 5))
  <2> USE DEF SeqInv, Timeout
  <2>1. ASSUME NEW key \in Key, seq_feed(key)
        PROVE  (eng_mode' # eng_mode) <=> (recent' # recent /\ Begins(recent', 5))
    <3>1. /\ recent \in [1 .. 5 -> [key : Key, soon : BOOLEAN]]
          /\ recent' \in [1 .. 5 -> [key : Key, soon : BOOLEAN]]
          /\ recent'[4] = recent[5] /\ recent'[3] = recent[4] /\ recent'[2] = recent[3]
          /\ recent'[1] = recent[2]
          /\ recent'[5].key = key /\ (recent'[5].soon <=> pause <= Timeout)
      BY <1>1, <2>1, PressShifts DEF SeqTypeOK
    <3>2. Begins(recent', 5) <=> Begins(recent, 4) /\ key = "9" /\ pause <= 3
      BY <3>1, BeginsCases
    <3>3. Begins(recent', 5) => recent' # recent
      <4>1. Begins(recent', 5) => recent'[1].key = "MENU" /\ recent'[2].key = "9"
        BY <3>1, BeginsCases
      <4>2. recent' = recent => recent'[1] = recent'[2]
        BY <3>1
      <4> QED
        BY <4>1, <4>2
    <3>4. steady >= 3 /\ since = pause
      BY <1>1, <2>1 DEF seq_feed, SeqTypeOK, StageIsPrefix
    <3>5. s_seq_stage = 4 <=> Begins(recent, 4)
      BY <1>1, <3>4 DEF StageIsPrefix
    <3>6. completes(key) <=> Begins(recent, 4) /\ key = "9" /\ pause <= 3
      BY <1>1, <3>4, <3>5 DEF completes, live_stage, SeqTypeOK, Pauses
    <3>7. eng_mode' # eng_mode <=> completes(key)
      <4>1. eng_mode \in BOOLEAN
        BY <1>1 DEF SeqTypeOK
      <4>2. eng_mode' = IF completes(key) THEN ~eng_mode ELSE eng_mode
        BY <2>1 DEF seq_feed
      <4>3. CASE completes(key)
        BY <4>1, <4>2, <4>3
      <4>4. CASE ~completes(key)
        BY <4>2, <4>4
      <4> QED
        BY <4>3, <4>4
    <3> QED
      BY <3>2, <3>3, <3>6, <3>7
  <2>2. CASE Second \/ ClockStep \/ UNCHANGED seqVars
    BY <2>2 DEF Second, ClockStep, seqVars
  <2> QED
    BY <1>1, <2>1, <2>2 DEF SeqNext
<1> QED
  BY <1>1, SeqInvariance, PTL DEF SeqSpec, TogglesOnSequence

=============================================================================
