-------------------------- MODULE Providers_proofs --------------------------
(***************************************************************************)
(* What the providers say of the decoder, of the network and of the        *)
(* processor is right, for every history of counters, whatever the bounds. *)
(***************************************************************************)
EXTENDS Providers, TLAPS

\* The part of the type invariant a sample of the decoder writes.
AvTypes ==
  /\ s_prev_framededed \in Nat \cup {-1} /\ s_stall_ticks \in Nat
  /\ vdec_state \in {"UNKNOWN", "OK", "RESET", "ERR"}
  /\ decoded \in BOOLEAN /\ restarted \in BOOLEAN /\ judged \in BOOLEAN
  /\ outcomes \in [first : Outcome, second : Outcome, third : Outcome]

\* The part a sample of the network writes.
NetTypes ==
  /\ s_prev_rx \in Nat /\ s_have_prev_net \in BOOLEAN /\ net_rx_bps \in Int
  /\ readlink \in Interfaces \cup {"none"} /\ whole \in BOOLEAN
  /\ basis \in {"other", "same", "short"} /\ received \in Nat /\ exact \in BOOLEAN
  /\ since \in [Interfaces -> Nat] /\ reset \in [Interfaces -> BOOLEAN]

DeviceTypes ==
  /\ part \in Parts
  /\ frames \in Nat /\ play \in {"never", "on", "stopped"}
  /\ link \in Interfaces \cup {"none"} /\ rx \in [Interfaces -> Nat]

\* The three parts of the invariant; no step of one part of the receiver touches another.
AvInv == AvTypes /\ CountRuns /\ StallIsQuiet /\ HangIsThreeStalls
NetInv == NetTypes /\ ReadIsPast /\ RateIsBytesSince
CpuInv == CpuTypes /\ ReadingIsPast /\ CpuLoadIsShare
Media == DeviceTypes /\ AvInv /\ NetInv

av_vars == <<frames, play, s_prev_framededed, s_stall_ticks, vdec_state, av_history>>
net_vars == <<link, rx, s_prev_rx, s_have_prev_net, net_rx_bps, net_history>>
cpu_vars == <<worked, idled, s_prev_idle, s_prev_total, cpu_load_pct, cpu_history>>

\* The invariant is its parts and the types of the receiver.
LEMMA Parted == Inv <=> Media /\ CpuInv
  BY DEF Inv, TypeOK, Media, DeviceTypes, AvInv, NetInv, AvTypes, NetTypes, CpuInv

\* A new daemon has read nothing.
LEMMA InitialMedia == Init => Media
<1> SUFFICES ASSUME Init PROVE Media
  OBVIOUS
<1> USE DEF Init
<1>1. DeviceTypes
  BY DEF DeviceTypes
<1>2. AvTypes
  BY DEF AvTypes, Outcome
<1>3. CountRuns
  BY DEF CountRuns, strtol
<1>4. StallIsQuiet
  BY DEF StallIsQuiet, Of
<1>5. HangIsThreeStalls
  BY DEF HangIsThreeStalls
<1>6. NetTypes
  <2>1. /\ s_have_prev_net \in BOOLEAN /\ exact \in BOOLEAN /\ whole \in BOOLEAN
        /\ reset \in [Interfaces -> BOOLEAN]
    BY Zenon
  <2>2. /\ s_prev_rx \in Nat /\ net_rx_bps \in Int /\ received \in Nat
        /\ basis \in {"other", "same", "short"}
        /\ since \in [Interfaces -> Nat] /\ readlink \in Interfaces \cup {"none"}
    OBVIOUS
  <2>3. QED
    BY <2>1, <2>2 DEF NetTypes
<1>7. ReadIsPast /\ RateIsBytesSince
  BY DEF ReadIsPast, RateIsBytesSince
<1>8. QED
  BY <1>1, <1>2, <1>3, <1>4, <1>5, <1>6, <1>7 DEF Media, AvInv, NetInv

\* Steps that leave a half alone keep it.
LEMMA AvFrame == AvInv /\ UNCHANGED av_vars => AvInv'
  BY DEF AvInv, AvTypes, CountRuns, StallIsQuiet, HangIsThreeStalls, Of, av_vars, av_history, strtol

LEMMA NetFrame == NetInv /\ UNCHANGED net_vars => NetInv'
  BY DEF NetInv, NetTypes, ReadIsPast, RateIsBytesSince, net_vars, net_history, strtol

\* A sample of the decoder keeps its half: the counter of stalls and the history of
\* outcomes advance together.
LEMMA AvSampled ==
  ASSUME DeviceTypes, AvInv, UNCHANGED device,
         NEW readable \in BOOLEAN, NEW runs \in BOOLEAN, NEW framed \in {strtol(frames), -1},
         av_sample(readable, framed, runs)
  PROVE  AvInv'
<1> DEFINE counted == readable /\ play = "on" /\ s_prev_framededed >= 0
           stalls == stall_ticks(framed > s_prev_framededed)
           what == outcome(framed)
<1>1. /\ s_prev_framededed' = IF readable THEN framed ELSE s_prev_framededed
      /\ s_stall_ticks' = IF counted THEN stalls ELSE s_stall_ticks
      /\ vdec_state' = IF readable /\ play = "on"
                         THEN IF counted /\ stalls >= 3 THEN "ERR" ELSE "OK"
                       ELSE IF readable /\ play = "stopped" THEN "RESET"
                       ELSE IF runs THEN "OK" ELSE "UNKNOWN"
      /\ judged' = counted
      /\ outcomes' = IF ~counted THEN outcomes
                     ELSE [first |-> what, second |-> outcomes.first,
                           third |-> outcomes.second]
      /\ decoded' = (decoded /\ ~readable) /\ restarted' = (restarted /\ ~readable)
      /\ frames' = frames /\ play' = play
  BY DEF av_sample, device
<1>2. /\ frames \in Nat /\ framed \in Nat \cup {-1} /\ play \in {"never", "on", "stopped"}
      /\ AvTypes /\ CountRuns /\ StallIsQuiet /\ strtol(frames) \in Nat
  BY ProvidersAssumption DEF DeviceTypes, AvInv, strtol
<1>3. /\ what \in {"missing", "restarted", "frames", "none", "beyond"}
      /\ counted /\ what = "frames" => framed > s_prev_framededed
      /\ counted /\ what = "none" => ~(framed > s_prev_framededed)
  <2>1. framed # -1 => framed = strtol(frames)
    OBVIOUS
  <2>2. CASE framed = -1
    <3>1. what = "missing"
      BY <2>2 DEF outcome
    <3>2. QED
      BY <3>1
  <2>3. CASE framed # -1 /\ restarted
    <3>1. what = "restarted"
      BY <2>3 DEF outcome
    <3>2. QED
      BY <3>1
  <2>4. CASE framed # -1 /\ ~restarted /\ ~decoded
    <3>1. what = "none"
      BY <2>4 DEF outcome
    <3>2. counted => framed = s_prev_framededed
      BY <1>2, <2>1, <2>4 DEF CountRuns
    <3>3. QED
      BY <1>2, <3>1, <3>2
  <2>5. CASE framed # -1 /\ ~restarted /\ decoded
    <3>1. what = IF frames > LongMax THEN "beyond" ELSE "frames"
      BY <2>5 DEF outcome
    <3>2. counted /\ ~(frames > LongMax) => framed > s_prev_framededed
      BY <1>2, <2>1, <2>5, ProvidersAssumption DEF CountRuns, strtol
    <3>3. QED
      BY <3>1, <3>2
  <2>6. QED
    BY <1>2, <2>2, <2>3, <2>4, <2>5 DEF AvTypes
<1>4. /\ stalls \in Nat
      /\ framed > s_prev_framededed => stalls = 0
      /\ ~(framed > s_prev_framededed) => stalls = s_stall_ticks + 1
  BY <1>2 DEF AvTypes, stall_ticks
<1> HIDE DEF what, stalls
<1>5. /\ vdec_state' \in {"UNKNOWN", "OK", "RESET", "ERR"}
      /\ vdec_state' = "ERR" <=> counted /\ stalls >= 3
  BY <1>1, <1>2
<1>6. CASE ~counted
  <2>1. s_stall_ticks' = s_stall_ticks /\ outcomes' = outcomes /\ judged' = FALSE /\ vdec_state' # "ERR"
    BY <1>1, <1>5, <1>6
  <2>2. AvTypes'
    BY <1>1, <1>2, <1>5, <2>1 DEF AvTypes
  <2>3. CountRuns'
    BY <1>1, <1>2 DEF CountRuns, AvTypes, strtol
  <2>4. StallIsQuiet'
    BY <1>2, <2>1 DEF StallIsQuiet, Of
  <2>5. HangIsThreeStalls'
    BY <2>1 DEF HangIsThreeStalls
  <2>6. QED
    BY <2>2, <2>3, <2>4, <2>5 DEF AvInv
<1>7. CASE counted
  <2>1. /\ s_stall_ticks' = stalls /\ judged' = TRUE
        /\ outcomes'.first = what /\ outcomes'.second = outcomes.first
        /\ outcomes'.third = outcomes.second
        /\ outcomes' \in [first : Outcome, second : Outcome, third : Outcome]
    BY <1>1, <1>2, <1>3, <1>7 DEF AvTypes, Outcome
  <2>2. AvTypes'
    BY <1>1, <1>2, <1>4, <1>5, <2>1 DEF AvTypes
  <2>3. CountRuns'
    BY <1>1, <1>2 DEF CountRuns, AvTypes, strtol
  <2>4. StallIsQuiet'
    BY <1>2, <1>3, <1>4, <1>7, <2>1 DEF StallIsQuiet, Of, Quiet, AvTypes
  <2>5. HangIsThreeStalls'
    BY <1>5, <1>7, <2>1, <2>4, <2>2 DEF HangIsThreeStalls, StallIsQuiet, Of, Quiet, AvTypes
  <2>6. QED
    BY <2>2, <2>3, <2>4, <2>5 DEF AvInv
<1>8. QED
  BY <1>6, <1>7

\* A sample of the network keeps its half: what is kept is the count of the interface
\* read, and it differs from the next one by what the interface receives in between.
LEMMA NetSampled ==
  ASSUME DeviceTypes, NetInv, UNCHANGED device,
         NEW readable \in BOOLEAN, NEW short \in BOOLEAN, net_sample(readable, short)
  PROVE  NetInv'
<1>1. CASE link = "none" \/ ~readable
  <2>1. /\ net_rx_bps' = -1 /\ rx' = rx
        /\ UNCHANGED <<s_prev_rx, s_have_prev_net, readlink, whole, since, reset, basis, received, exact>>
    BY <1>1 DEF net_sample, device, net_history
  <2>2. QED
    BY <2>1 DEF NetInv, NetTypes, ReadIsPast, RateIsBytesSince, strtol
<1>2. CASE ~(link = "none" \/ ~readable)
  <2> DEFINE count == IF short THEN 0 ELSE strtol(rx[link])
             drx == count - s_prev_rx
  <2>1. /\ net_rx_bps' = IF ~s_have_prev_net THEN -1 ELSE IF drx < 0 THEN 0 ELSE drx
        /\ s_prev_rx' = count
        /\ s_have_prev_net' = TRUE
        /\ basis' = IF readlink # link THEN "other" ELSE IF whole THEN "same" ELSE "short"
        /\ received' = since[link]
        /\ exact' = (~short /\ ~reset[link] /\ rx[link] <= LongMax)
        /\ readlink' = link
        /\ whole' = ~short
        /\ since' = [i \in Interfaces |-> 0]
        /\ reset' = [i \in Interfaces |-> FALSE]
        /\ rx' = rx
    BY <1>2 DEF net_sample, device, remembered
  <2>2. /\ link \in Interfaces /\ rx \in [Interfaces -> Nat] /\ rx[link] \in Nat
        /\ since[link] \in Nat /\ reset[link] \in BOOLEAN /\ s_prev_rx \in Nat
        /\ LongMax \in Nat /\ strtol(rx[link]) \in Nat /\ count \in Nat
        /\ short => count = 0
        /\ ~short => count = strtol(rx[link])
    BY <1>2, ProvidersAssumption
    DEF DeviceTypes, NetInv, NetTypes, ProvidersAssumption, strtol
  <2> HIDE DEF count
  <2>3. NetTypes'
    <3>1. /\ s_have_prev_net' \in BOOLEAN /\ whole' \in BOOLEAN /\ exact' \in BOOLEAN
          /\ reset' \in [Interfaces -> BOOLEAN]
      BY <2>1, Zenon
    <3>2. /\ s_prev_rx' \in Nat /\ net_rx_bps' \in Int /\ received' \in Nat
          /\ basis' \in {"other", "same", "short"}
          /\ since' \in [Interfaces -> Nat] /\ readlink' \in Interfaces \cup {"none"}
      BY <2>1, <2>2
    <3>3. QED
      BY <3>1, <3>2 DEF NetTypes
  <2>4. ReadIsPast'
    <3>1. CASE short
      <4>1. whole' = FALSE /\ s_have_prev_net' = TRUE /\ readlink' # "none"
        BY <2>1, <2>2, <3>1 DEF Interfaces
      <4>2. QED
        BY <4>1 DEF ReadIsPast
    <3>2. CASE ~short
      BY <2>1, <2>2, <3>2 DEF ReadIsPast, strtol, Interfaces
    <3>3. QED
      BY <3>1, <3>2
  <2>5. RateIsBytesSince'
    <3> SUFFICES ASSUME net_rx_bps' # -1, basis' = "same"
                 PROVE  /\ 0 <= net_rx_bps' /\ net_rx_bps' <= received'
                        /\ exact' => net_rx_bps' = received'
      BY DEF RateIsBytesSince
    <3>1. readlink = link /\ whole /\ s_have_prev_net /\ received' = since[link]
      BY <2>1
    <3>2. /\ ~reset[link] =>
               since[link] <= rx[link] /\ s_prev_rx = strtol(rx[link] - since[link])
          /\ rx[link] <= since[link] + s_prev_rx \/ LongMax <= s_prev_rx
      BY <3>1 DEF NetInv, ReadIsPast
    <3>3. net_rx_bps' = IF drx < 0 THEN 0 ELSE drx
      BY <2>1, <3>1
    <3>4. 0 <= net_rx_bps' /\ net_rx_bps' <= since[link]
      <4>1. count <= strtol(rx[link])
        BY <2>2
      <4>2. QED
        BY <2>2, <3>2, <3>3, <4>1 DEF strtol
    <3>5. ASSUME exact' PROVE net_rx_bps' = since[link]
      <4>1. ~short /\ ~reset[link] /\ rx[link] <= LongMax
        BY <2>1, <3>5, Zenon
      <4>2. QED
        BY <2>2, <3>1, <3>2, <3>3, <4>1 DEF strtol
    <3>6. QED
      BY <3>1, <3>4, <3>5
  <2>6. QED
    BY <2>3, <2>4, <2>5 DEF NetInv
<1>3. QED
  BY <1>1, <1>2

\* Every step keeps what is known of the decoder and of the network.
LEMMA StepMedia == ASSUME Media, [Next]_vars PROVE Media'
<1> USE DEF Interfaces
<1>0. DeviceTypes /\ AvInv /\ NetInv
  BY DEF Media
<1>1. CASE DecodeFrame
  <2>1. DeviceTypes'
    BY <1>0, <1>1 DEF DecodeFrame, DeviceTypes
  <2>2. AvInv'
    <3>1. /\ frames' = frames + 1 /\ decoded' = TRUE /\ frames \in Nat
          /\ UNCHANGED <<s_prev_framededed, s_stall_ticks, vdec_state, restarted, judged, outcomes>>
      BY <1>0, <1>1 DEF DecodeFrame, DeviceTypes, statics, metrics
    <3>2. AvTypes'
      BY <1>0, <3>1 DEF AvInv, AvTypes
    <3>3. CountRuns'
      BY <1>0, <3>1, ProvidersAssumption DEF AvInv, AvTypes, CountRuns, strtol
    <3>4. StallIsQuiet' /\ HangIsThreeStalls'
      BY <1>0, <3>1 DEF AvInv, StallIsQuiet, HangIsThreeStalls, Of
    <3>5. QED
      BY <3>2, <3>3, <3>4 DEF AvInv
  <2>3. NetInv'
    BY <1>0, <1>1, NetFrame DEF DecodeFrame, net_vars, statics, metrics
  <2>4. QED
    BY <2>1, <2>2, <2>3 DEF Media
<1>2. CASE Play
  <2>1. DeviceTypes'
    BY <1>0, <1>2 DEF Play, DeviceTypes
  <2>2. AvInv'
    <3>1. UNCHANGED <<s_prev_framededed, s_stall_ticks, vdec_state, decoded, judged, outcomes>>
      BY <1>2 DEF Play, statics, metrics
    <3>2. UNCHANGED <<frames, restarted>> \/ (frames' = 0 /\ restarted' = TRUE)
      BY <1>2 DEF Play
    <3>3. AvTypes'
      BY <1>0, <3>1, <3>2 DEF AvInv, AvTypes
    <3>4. CountRuns'
      BY <1>0, <1>2, <3>1, <3>2 DEF Play, AvInv, CountRuns, strtol
    <3>5. StallIsQuiet' /\ HangIsThreeStalls'
      BY <1>0, <3>1 DEF AvInv, StallIsQuiet, HangIsThreeStalls, Of
    <3>6. QED
      BY <3>3, <3>4, <3>5 DEF AvInv
  <2>3. NetInv'
    BY <1>0, <1>2, NetFrame DEF Play, net_vars, statics, metrics
  <2>4. QED
    BY <2>1, <2>2, <2>3 DEF Media
<1>3. ASSUME NEW i \in Interfaces, ReceiveByte(i) PROVE Media'
  <2>1. DeviceTypes'
    BY <1>0, <1>3 DEF ReceiveByte, DeviceTypes
  <2>2. AvInv'
    BY <1>0, <1>3, AvFrame DEF ReceiveByte, av_vars, statics, metrics
  <2>3. NetTypes'
    BY <1>0, <1>3 DEF ReceiveByte, NetInv, NetTypes, statics, metrics
  <2>4. ReadIsPast'
    <3>1. CASE readlink = i
      <4>1. /\ rx'[readlink] = rx[readlink] + 1 /\ since'[readlink] = since[readlink] + 1
            /\ rx[readlink] \in Nat /\ since[readlink] \in Nat /\ s_prev_rx \in Nat
            /\ UNCHANGED <<readlink, whole, reset, s_prev_rx, s_have_prev_net>>
        BY <1>0, <1>3, <3>1 DEF ReceiveByte, DeviceTypes, NetInv, NetTypes, statics
      <4>2. rx'[readlink] - since'[readlink] = rx[readlink] - since[readlink]
        BY <4>1
      <4>3. QED
        BY <1>0, <4>1, <4>2, ProvidersAssumption
        DEF NetInv, ReadIsPast, ProvidersAssumption, strtol
    <3>2. CASE readlink # i
      <4>1. UNCHANGED <<readlink, whole, reset, s_prev_rx, s_have_prev_net>>
        BY <1>3 DEF ReceiveByte, statics
      <4>2. s_have_prev_net => rx'[readlink] = rx[readlink] /\ since'[readlink] = since[readlink]
        BY <1>0, <1>3, <3>2 DEF ReceiveByte, DeviceTypes, NetInv, NetTypes, ReadIsPast
      <4>3. QED
        BY <1>0, <4>1, <4>2 DEF NetInv, ReadIsPast, strtol
    <3>3. QED
      BY <3>1, <3>2
  <2>5. RateIsBytesSince'
    BY <1>0, <1>3 DEF ReceiveByte, NetInv, RateIsBytesSince, metrics
  <2>6. QED
    BY <2>1, <2>2, <2>3, <2>4, <2>5 DEF Media, NetInv
<1>4. CASE Relink
  <2>1. DeviceTypes'
    BY <1>0, <1>4 DEF Relink, DeviceTypes
  <2>2. AvInv'
    BY <1>0, <1>4, AvFrame DEF Relink, av_vars, statics, metrics
  <2>3. NetTypes'
    BY <1>0, <1>4 DEF Relink, NetInv, NetTypes, statics, metrics
  <2>4. UNCHANGED <<readlink, whole, since, s_prev_rx, s_have_prev_net, basis, received, exact, net_rx_bps>>
    BY <1>4 DEF Relink, statics, metrics
  <2>5. ReadIsPast'
    <3>1. CASE UNCHANGED <<rx, reset>>
      BY <1>0, <2>4, <3>1 DEF NetInv, ReadIsPast, strtol
    <3>2. ASSUME NEW i \in Interfaces, rx' = [rx EXCEPT ![i] = 0],
                 reset' = [reset EXCEPT ![i] = TRUE]
          PROVE  ReadIsPast'
      <4>1. CASE readlink = i
        <5>1. /\ rx'[readlink] = 0 /\ reset'[readlink] /\ since[readlink] \in Nat
              /\ s_prev_rx \in Nat
          BY <1>0, <3>2, <4>1 DEF DeviceTypes, NetInv, NetTypes
        <5>2. QED
          BY <1>0, <2>4, <5>1 DEF NetInv, ReadIsPast
      <4>2. CASE readlink # i
        <5>1. s_have_prev_net =>
                rx'[readlink] = rx[readlink] /\ (reset'[readlink] <=> reset[readlink])
          BY <1>0, <3>2, <4>2 DEF DeviceTypes, NetInv, NetTypes, ReadIsPast
        <5>2. QED
          BY <1>0, <2>4, <5>1 DEF NetInv, ReadIsPast, strtol
      <4>3. QED
        BY <4>1, <4>2
    <3>3. QED
      BY <1>4, <3>1, <3>2 DEF Relink
  <2>6. RateIsBytesSince'
    BY <1>0, <2>4 DEF NetInv, RateIsBytesSince
  <2>7. QED
    BY <2>1, <2>2, <2>3, <2>5, <2>6 DEF Media, NetInv
<1>5. CASE Spend
  <2>1. DeviceTypes' /\ UNCHANGED av_vars /\ UNCHANGED net_vars
    BY <1>0, <1>5 DEF Spend, DeviceTypes, av_vars, net_vars, statics, metrics
  <2>2. QED
    BY <1>0, <2>1, AvFrame, NetFrame DEF Media
<1>6. CASE Sample
  <2>1. UNCHANGED device /\ DeviceTypes'
    BY <1>0, <1>6 DEF Sample, device, DeviceTypes
  <2>2. AvInv'
    <3>1. PICK readable \in Chance("av"), runs \in Chance("av"), framed \in {strtol(frames), -1} :
            av_sample(readable, framed, runs)
      BY <1>6 DEF Sample
    <3>2. readable \in BOOLEAN /\ runs \in BOOLEAN
      BY DEF Chance
    <3>3. QED
      BY <1>0, <2>1, <3>1, <3>2, AvSampled
  <2>3. NetInv'
    <3>1. PICK readable \in Chance("net"), full \in Chance("net") : net_sample(readable, ~full)
      BY <1>6 DEF Sample
    <3>2. readable \in BOOLEAN /\ full \in BOOLEAN /\ (~full) \in BOOLEAN
      BY DEF Chance
    <3>3. QED
      BY <1>0, <2>1, <3>1, <3>2, NetSampled
  <2>4. QED
    BY <2>1, <2>2, <2>3 DEF Media
<1>7. CASE Restart
  <2>1. DeviceTypes'
    BY <1>0, <1>7 DEF Restart, device, DeviceTypes
  <2>2. AvInv'
    <3>1. AvTypes'
      BY <1>7 DEF Restart, AvTypes, Outcome
    <3>2. CountRuns'
      BY <1>7 DEF Restart, CountRuns, strtol
    <3>3. StallIsQuiet'
      BY <1>7 DEF Restart, StallIsQuiet, Of
    <3>4. HangIsThreeStalls'
      BY <1>7 DEF Restart, HangIsThreeStalls
    <3>5. QED
      BY <3>1, <3>2, <3>3, <3>4 DEF AvInv
  <2>3. NetInv'
    <3>1. NetTypes'
      <4>1. /\ s_have_prev_net' \in BOOLEAN /\ exact' \in BOOLEAN /\ whole' \in BOOLEAN
            /\ reset' \in [Interfaces -> BOOLEAN]
        BY <1>7, Zenon DEF Restart
      <4>2. /\ s_prev_rx' \in Nat /\ net_rx_bps' \in Int /\ received' \in Nat
            /\ basis' \in {"other", "same", "short"}
            /\ since' \in [Interfaces -> Nat] /\ readlink' \in Interfaces \cup {"none"}
        BY <1>7 DEF Restart
      <4>3. QED
        BY <4>1, <4>2 DEF NetTypes
    <3>2. ReadIsPast'
      BY <1>7 DEF Restart, ReadIsPast
    <3>3. RateIsBytesSince'
      BY <1>7 DEF Restart, RateIsBytesSince
    <3>4. QED
      BY <3>1, <3>2, <3>3 DEF NetInv
  <2>4. QED
    BY <2>1, <2>2, <2>3 DEF Media
<1>8. CASE UNCHANGED vars
  <2>1. UNCHANGED device /\ UNCHANGED av_vars /\ UNCHANGED net_vars
    BY <1>8 DEF vars, device, statics, metrics, av_vars, net_vars
  <2>2. DeviceTypes'
    BY <1>0, <2>1 DEF device, DeviceTypes
  <2>3. QED
    BY <1>0, <2>1, <2>2, AvFrame, NetFrame DEF Media
<1>9. QED
  BY <1>1, <1>2, <1>3, <1>4, <1>5, <1>6, <1>7, <1>8 DEF Next

-----------------------------------------------------------------------------
(* The load of the processor.                                              *)

\* The remainder by w of a number within one w of 0: itself, or w more if it is below 0.
LEMMA Residue ==
  ASSUME NEW w \in Nat, w >= 1, NEW n \in Int, -w <= n, n < w
  PROVE  n % w = IF n < 0 THEN n + w ELSE n
<1>2. /\ n \div w \in Int
      /\ n = w * (n \div w) + (n % w)
      /\ n % w \in 0..w - 1
  OBVIOUS
<1>3. PICK q \in Int : n = w * q + (n % w)
  BY <1>2
<1>4. q < 1
  <2>1. q >= 1 => w * q >= w
    OBVIOUS
  <2> QED
    BY <1>2, <1>3, <2>1
<1>5. q > -2
  <2>1. q <= -2 => w * q <= -(2 * w)
    OBVIOUS
  <2> QED
    BY <1>2, <1>3, <2>1
<1>6. CASE q = 0
  BY <1>2, <1>3, <1>6
<1>7. CASE q = -1
  <2>1. w * q = -w
    BY <1>7
  <2> QED
    BY <1>2, <1>3, <2>1
<1> QED
  BY <1>3, <1>4, <1>5, <1>6, <1>7

\* A percentage is between 0 and 100, and what it is of if that is, too; a number above 100
\* gives 100 as long as it is an int.
LEMMA Percentage ==
  ASSUME NEW n \in Nat
  PROVE  /\ percent(n) \in 0..100
         /\ n <= 100 => percent(n) = n
         /\ n >= 100 /\ n <= IntMax => percent(n) = 100
<1> DEFINE w == 2 * (IntMax + 1)
<1>1. IntMax \in Nat /\ IntMax >= 100 /\ w \in Nat /\ w >= 1 /\ IntMax < w
  BY ProvidersAssumption
<1>2. n <= IntMax => n % w = n
  <2> SUFFICES ASSUME n <= IntMax PROVE n % w = n
    OBVIOUS
  <2>1. -w <= n /\ n < w /\ ~(n < 0)
    BY <1>1
  <2> HIDE DEF w
  <2> QED
    BY <1>1, <2>1, Residue
<1>3. n % w \in Int
  <2> HIDE DEF w
  <2> QED
    BY <1>1
<1>4. int(n) = IF n % w > IntMax THEN (n % w) - w ELSE n % w
  BY DEF int
<1> HIDE DEF w
<1>5. int(n) \in Int
  BY <1>1, <1>3, <1>4
<1>6. n <= IntMax => int(n) = n
  BY <1>1, <1>2, <1>4
<1> QED
  BY <1>1, <1>5, <1>6 DEF percent

\* A share of the time is at most a hundred percent if the work is at most the time, and
\* at least that if it is at least the time.
LEMMA Share ==
  ASSUME NEW w \in Nat, NEW d \in Nat, d > 0
  PROVE  /\ (100 * w) \div d \in Int
         /\ w <= d => (100 * w) \div d <= 100
         /\ w >= d => (100 * w) \div d >= 100
<1>1. /\ (100 * w) \div d \in Int
      /\ 100 * w = d * ((100 * w) \div d) + ((100 * w) % d)
      /\ (100 * w) % d \in 0..d - 1
  OBVIOUS
<1>2. PICK q \in Int : q = (100 * w) \div d
  BY <1>1
<1>3. PICK r \in 0..d - 1 : 100 * w = d * q + r
  BY <1>1, <1>2
<1>4. q >= 101 => d * q >= 101 * d
  OBVIOUS
<1>5. q <= 99 => d * q <= 99 * d
  OBVIOUS
<1>6. w <= d => q <= 100
  BY <1>3, <1>4
<1>7. w >= d => q >= 100
  BY <1>3, <1>5
<1> QED
  BY <1>1, <1>2, <1>6, <1>7

LEMMA CpuFrame == CpuInv /\ UNCHANGED cpu_vars => CpuInv'
  BY DEF CpuInv, CpuTypes, ReadingIsPast, CpuLoadIsShare, cpu_vars, cpu_history

\* A sample of the processor keeps its part: the differences of the two counts are the
\* ticks counted since the last reading.
LEMMA CpuSampled ==
  ASSUME CpuInv, UNCHANGED device, NEW readable \in BOOLEAN, cpu_sample(readable)
  PROVE  CpuInv'
<1>1. CASE ~readable
  <2>1. cpu_load_pct' = -1 /\ UNCHANGED <<worked, idled, s_prev_idle, s_prev_total, cpu_history>>
    BY <1>1 DEF cpu_sample, device
  <2> QED
    BY <2>1 DEF CpuInv, CpuTypes, ReadingIsPast, CpuLoadIsShare, cpu_history
<1>2. CASE readable
  <2> DEFINE total == worked + idled
             dt == total - s_prev_total
             di == (idled - s_prev_idle) % Word
             pct == percent(((100 * ((dt - di) % Word)) % Word) \div dt)
  <2>1. /\ worked' = worked /\ idled' = idled
        /\ s_prev_idle' = idled /\ s_prev_total' = total
        /\ spent' = [work |-> w_since, idle |-> i_since]
        /\ w_since' = 0 /\ i_since' = 0
        /\ cpu_load_pct' = IF s_prev_total # 0 /\ total > s_prev_total THEN pct ELSE -1
    BY <1>2 DEF cpu_sample, device
  <2>2. /\ worked \in 0..MaxCount /\ idled \in 0..MaxCount
        /\ s_prev_idle \in 0..MaxCount /\ s_prev_total \in Nat
        /\ w_since \in Nat /\ i_since \in Int
        /\ MaxCount \in Nat /\ Word \in Nat /\ Word >= 1 /\ 100 * MaxCount < Word
    BY ProvidersAssumption, LoadAssumption DEF CpuInv, CpuTypes
  <2>3. ASSUME s_prev_total # 0, total > s_prev_total
        PROVE  LET share == (100 * w_since) \div (w_since + i_since) IN
               /\ pct \in 0..100
               /\ i_since >= 0 => pct = share
               /\ i_since < 0 /\ share <= IntMax => pct = 100
    <3>1. /\ s_prev_idle + i_since = idled /\ dt = w_since + i_since
          /\ w_since <= worked
      BY <2>2, <2>3 DEF CpuInv, ReadingIsPast
    <3>2. /\ dt \in Nat /\ dt > 0 /\ idled - s_prev_idle = i_since
          /\ -Word <= i_since /\ i_since < Word /\ w_since < Word
          /\ 100 * w_since \in Nat /\ 100 * w_since < Word
      BY <2>2, <2>3, <3>1
    <3>3. di = IF i_since < 0 THEN i_since + Word ELSE i_since
      <4>1. i_since % Word = IF i_since < 0 THEN i_since + Word ELSE i_since
        BY <2>2, <3>2, Residue
      <4> QED
        BY <3>2, <4>1
    <3>4. dt - di = IF i_since < 0 THEN w_since - Word ELSE w_since
      BY <2>2, <3>1, <3>2, <3>3
    <3>5. (dt - di) % Word = w_since
      <4>1. dt - di \in Int /\ -Word <= dt - di /\ dt - di < Word
        BY <2>2, <3>2, <3>4
      <4>2. (dt - di) % Word = IF dt - di < 0 THEN (dt - di) + Word ELSE dt - di
        BY <2>2, <4>1, Residue
      <4> HIDE DEF dt, di
      <4> QED
        BY <2>2, <3>2, <3>4, <4>2
    <3>6. (100 * w_since) % Word = 100 * w_since
      <4>1. PICK m \in Nat : m = 100 * w_since
        BY <2>2
      <4>2. -Word <= m /\ m < Word /\ ~(m < 0)
        BY <2>2, <3>2, <4>1
      <4>3. m % Word = m
        BY <2>2, <4>2, Residue
      <4> QED
        BY <4>1, <4>3
    <3>7. pct = percent((100 * w_since) \div dt)
      BY <3>5, <3>6
    <3>8. /\ (100 * w_since) \div dt \in Int
          /\ w_since <= dt => (100 * w_since) \div dt <= 100
          /\ w_since >= dt => (100 * w_since) \div dt >= 100
      BY <2>2, <3>2, Share
    <3>9. (100 * w_since) \div dt >= 0
      BY <2>2, <3>2
    <3>10. PICK q \in Nat : q = (100 * w_since) \div dt
      BY <3>8, <3>9
    <3>11. /\ pct \in 0..100
           /\ i_since >= 0 => pct = q
           /\ i_since < 0 /\ q <= IntMax => pct = 100
      <4> HIDE DEF pct, dt
      <4>1. i_since < 0 => w_since >= dt
        BY <2>2, <3>1
      <4>2. i_since >= 0 => w_since <= dt
        BY <2>2, <3>1
      <4>3. pct = percent(q)
        BY <3>7, <3>10
      <4>4. (i_since < 0 => q >= 100) /\ (i_since >= 0 => q <= 100)
        BY <3>8, <3>10, <4>1, <4>2
      <4> QED
        BY <4>3, <4>4, Percentage
    <3> QED
      BY <3>1, <3>10, <3>11
  <2> HIDE DEF pct
  <2>4. CpuTypes'
    BY <2>1, <2>2, <2>3 DEF CpuTypes
  <2>5. ReadingIsPast'
    BY <2>1, <2>2 DEF ReadingIsPast
  <2>6. CpuLoadIsShare'
    BY <2>1, <2>3 DEF CpuLoadIsShare
  <2> QED
    BY <2>4, <2>5, <2>6 DEF CpuInv
<1> QED
  BY <1>1, <1>2

\* Every step keeps what is known of the processor.
LEMMA StepCpu == ASSUME CpuInv, [Next]_vars PROVE CpuInv'
<1>1. CASE Spend
  <2>1. UNCHANGED <<s_prev_idle, s_prev_total, cpu_load_pct, spent>>
    BY <1>1 DEF Spend, statics, metrics
  <2>2. \/ worked' = worked + 1 /\ w_since' = w_since + 1 /\ worked < MaxCount
           /\ UNCHANGED <<idled, i_since>>
        \/ idled' = idled + 1 /\ i_since' = i_since + 1 /\ idled < MaxCount
           /\ UNCHANGED <<worked, w_since>>
        \/ idled' = idled - 1 /\ i_since' = i_since - 1 /\ idled > 0
           /\ UNCHANGED <<worked, w_since>>
    BY <1>1 DEF Spend
  <2> QED
    BY <2>1, <2>2, ProvidersAssumption
    DEF CpuInv, CpuTypes, ReadingIsPast, CpuLoadIsShare
<1>2. CASE Sample
  <2>1. PICK readable \in Chance("cpu") : cpu_sample(readable)
    BY <1>2 DEF Sample
  <2>2. readable \in BOOLEAN /\ UNCHANGED device
    BY <1>2 DEF Chance, Sample
  <2> QED
    BY <2>1, <2>2, CpuSampled
<1>3. CASE Restart
  BY <1>3, ProvidersAssumption DEF Restart, device, CpuInv, CpuTypes, ReadingIsPast, CpuLoadIsShare
<1>4. CASE DecodeFrame \/ Play \/ (\E i \in Interfaces : ReceiveByte(i)) \/ Relink
  <2>1. UNCHANGED cpu_vars
    BY <1>4 DEF DecodeFrame, Play, ReceiveByte, Relink, cpu_vars, statics, metrics
  <2> QED
    BY <2>1, CpuFrame
<1>5. CASE UNCHANGED vars
  BY <1>5, CpuFrame DEF vars, device, statics, metrics, cpu_vars
<1> QED
  BY <1>1, <1>2, <1>3, <1>4, <1>5 DEF Next

-----------------------------------------------------------------------------
(* The theorems.                                                           *)

\* The inductive invariant holds of every history of the receiver and its samples.
THEOREM Invariance == Spec => []Inv
<1>1. Init => Inv
  <2>1. Init => CpuInv
    BY ProvidersAssumption DEF Init, CpuInv, CpuTypes, ReadingIsPast, CpuLoadIsShare
  <2> QED
    BY <2>1, InitialMedia, Parted
<1>2. Inv /\ [Next]_vars => Inv'
  <2> SUFFICES ASSUME Inv, [Next]_vars
               PROVE  Inv'
    OBVIOUS
  <2>1. Media /\ CpuInv
    BY Parted
  <2>2. Media'
    BY <2>1, StepMedia
  <2>3. CpuInv'
    BY <2>1, StepCpu
  <2> QED
    BY <2>2, <2>3
    DEF Inv, TypeOK, Media, DeviceTypes, AvInv, NetInv, AvTypes, NetTypes, CpuInv
<1>3. QED
  BY <1>1, <1>2, PTL DEF Spec

\* VDEC HANG is shown at the third stall in a row and never without three (av_sample).
THEOREM HangIsRight == Spec => []HangIsThreeStalls
<1>1. Inv => HangIsThreeStalls
  BY DEF Inv
<1>2. QED
  BY <1>1, Invariance, PTL

\* The rate of the network is what was received, or less, between two readings of one
\* interface of which the first was of a whole line (net_sample).
THEOREM RateIsRight == Spec => []RateIsBytesSince
<1>1. Inv => RateIsBytesSince
  BY DEF Inv
<1>2. QED
  BY <1>1, Invariance, PTL

\* The load is the share of the time since the last reading that was not idle, and 100
\* when the idle time has stepped back (cpu_sample).
THEOREM LoadIsRight == Spec => []CpuLoadIsShare
<1>1. Inv => CpuLoadIsShare
  BY DEF Inv
<1>2. QED
  BY <1>1, Invariance, PTL
=============================================================================
