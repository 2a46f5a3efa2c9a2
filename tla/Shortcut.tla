------------------------------ MODULE Shortcut ------------------------------
(***************************************************************************)
(* The hidden shortcut of the status bar (dbgbar/main.c, seq_feed): MENU   *)
(* and then 9 9 9 9 on the remote toggles the engineering mode, unless     *)
(* more than three seconds pass between two of the keys.                   *)
(*                                                                         *)
(* The code measures the pause with time(NULL), the wall clock, and counts *)
(* a key when it reads it; the model keeps the pause by that clock         *)
(* (since) and the true one (pause) apart.                                 *)
(*                                                                         *)
(* Names that the daemon's module has, too, begin with Seq here: the two   *)
(* are parts of one program and proved together (StatusBar_proofs).        *)
(***************************************************************************)
EXTENDS Integers

CONSTANT
  MaxBack         \* bound of the model: how far behind s_seq_last the clock is set

ASSUME ShortcutAssumption == MaxBack \in Nat

VARIABLES
  s_seq_stage,    \* 0: idle, 1: MENU seen, 2 .. 4: so many keys of the sequence seen
  since,          \* time(NULL) - s_seq_last, counted up to one more than the timeout
  eng_mode,       \* cfg->eng_mode
  pause,          \* history: the true time since the last key, counted up likewise
  recent,         \* history: the last five keys, and whether each came in time
  steady          \* history: the latest pauses between keys, up to 4, in which the clock
                  \* was not set; -1 when it has been set since the last key

seqVars == <<s_seq_stage, since, eng_mode, pause, recent, steady>>

Key == {"MENU", "9", "other"}
Timeout == 3
Pauses == 0 .. Timeout + 1

SeqTypeOK ==
  /\ s_seq_stage \in 0 .. 4
  /\ since \in -MaxBack .. Timeout + 1
  /\ eng_mode \in BOOLEAN
  /\ pause \in Pauses
  /\ recent \in [1 .. 5 -> [key : Key, soon : BOOLEAN]]
  /\ steady \in -1 .. 4

SeqInit ==
  /\ s_seq_stage = 0
  /\ since = Timeout + 1
  /\ eng_mode \in BOOLEAN
  /\ pause = Timeout + 1
  /\ recent = [i \in 1 .. 5 |-> [key |-> "other", soon |-> FALSE]]
  /\ steady = 0

\* Faulty: the pause before the last key is not looked at.
live_stage_late ==
  IF s_seq_stage \in 1 .. 3 /\ since > Timeout THEN 0 ELSE s_seq_stage

\* The stage once a timeout has been taken into account.
live_stage == IF s_seq_stage > 0 /\ since > Timeout THEN 0 ELSE s_seq_stage

\* The keys that complete the sequence, seen before this one.
completes(key) == live_stage = 4 /\ key = "9"

\* Faulty: MENU in the middle of a sequence only cancels it.
stage_after_menu_cancels(key) ==
  IF key = "MENU" THEN (IF live_stage = 0 THEN 1 ELSE 0)
  ELSE IF key = "9" /\ live_stage >= 1 /\ ~completes(key) THEN live_stage + 1
  ELSE 0

stage_after(key) ==
  IF key = "MENU" THEN 1
  ELSE IF key = "9" /\ live_stage >= 1 /\ ~completes(key) THEN live_stage + 1
  ELSE 0

\* A press (EV_KEY with value 1; releases and repeats never get here).
seq_feed(key) ==
  /\ s_seq_stage' = stage_after(key)
  /\ eng_mode' = IF completes(key) THEN ~eng_mode ELSE eng_mode
  /\ since' = 0
  /\ pause' = 0
  /\ recent' = [i \in 1 .. 5 |->
                  IF i = 5 THEN [key |-> key, soon |-> pause <= Timeout] ELSE recent[i + 1]]
  /\ steady' = IF steady < 4 THEN steady + 1 ELSE steady

Second ==
  /\ <<since, pause>> # <<Timeout + 1, Timeout + 1>>
  /\ since' = IF since <= Timeout THEN since + 1 ELSE since
  /\ pause' = IF pause <= Timeout THEN pause + 1 ELSE pause
  /\ UNCHANGED <<s_seq_stage, eng_mode, recent, steady>>

\* The receiver sets its clock (from the broadcast, or by NTP), after the last key.
ClockStep ==
  /\ since' \in -MaxBack .. Timeout + 1
  /\ steady' = -1
  /\ UNCHANGED <<s_seq_stage, eng_mode, pause, recent>>

SeqNext ==
  \/ \E key \in Key : seq_feed(key)
  \/ Second
  \/ ClockStep

SeqSpec == SeqInit /\ [][SeqNext]_seqVars

-----------------------------------------------------------------------------

\* The last k of the recent keys begin the sequence, each after MENU having come in time.
Begins(r, k) ==
  \A i \in 6 - k .. 5 :
    IF i = 6 - k THEN r[i].key = "MENU" ELSE r[i].key = "9" /\ r[i].soon

(***************************************************************************)
(* The engineering mode toggles when the last five keys are MENU 9 9 9 9,  *)
(* with no pause of more than three seconds between two of them, and at no *)
(* other time: not for a sequence begun twice, cancelled by another key,   *)
(* or continued after its end (main.c:11-13, DEBUG_STATUS_BAR section 5).  *)
(* It holds for five keys between which the wall clock is not set.         *)
(***************************************************************************)
TogglesOnSequence ==
  [][steady' = 4 =>
       ((eng_mode' # eng_mode) <=> (recent' # recent /\ Begins(recent', 5)))]_seqVars

(***************************************************************************)
(* The stage counts the longest beginning of the sequence that the last    *)
(* keys form; nothing that was keyed in is forgotten, nothing else counts. *)
(***************************************************************************)
StageIsPrefix ==
  /\ steady >= 0 => since = pause
  /\ s_seq_stage > 0 /\ steady >= s_seq_stage - 1 => Begins(recent, s_seq_stage)
  /\ \A k \in 1 .. 4 : Begins(recent, k) /\ steady >= k - 1 => s_seq_stage = k

SeqInv == SeqTypeOK /\ StageIsPrefix

=============================================================================
