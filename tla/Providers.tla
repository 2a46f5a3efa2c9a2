----------------------------- MODULE Providers -----------------------------
(***************************************************************************)
(* The providers of the status bar that remember something from one tick   *)
(* to the next (providers.c): whether the video decoder hangs, the rate of *)
(* the network, the load of the processor.  Each takes the difference      *)
(* between a counter of the kernel and what it read the time before, while *)
(* the counters advance, stand still, start again, or step back.           *)
(*                                                                         *)
(* Between two ticks anything may happen to the receiver, for a daemon     *)
(* that is disabled samples nothing for as long as it is.  The history     *)
(* variables record what did happen, and the properties compare it with    *)
(* what the providers say.                                                 *)
(***************************************************************************)
EXTENDS Integers

CONSTANTS
  LongMax,    \* the largest long: strtol returns it for every larger number
  IntMax,     \* the largest int: the load is cast to one
  Word,       \* the unsigned arithmetic of the load is modulo this
  MaxCount,   \* bound on the counters of the kernel
  MaxStall,   \* bound on the ticks counted as a stall
  Parts       \* bound: a behaviour moves only one of these parts of the receiver, for the
              \* samplers share nothing

ASSUME ProvidersAssumption ==
  /\ LongMax \in Nat /\ IntMax \in Nat /\ IntMax >= 100 /\ Word \in Nat \ {0} /\ MaxCount \in Nat /\ MaxStall \in Nat
  /\ Parts \subseteq {"av", "net", "cpu"}

\* The word has 64 bits and the ticks are hundredths of a second: a hundred times as many
\* do not overflow while the receiver is up.
ASSUME LoadAssumption == 100 * MaxCount < Word

Interfaces == {"eth0", "wlan0"}

VARIABLES
  part,                       \* the part that moves
  frames, play,               \* FRAMEDECED of /proc/hisi/msp/stat; VSTART against VSTOP
  link, rx,                   \* the interface that has an address; bytes received by each
  worked, idled,              \* /proc/stat: ticks of the clock spent at work and idle
  s_prev_framededed, s_stall_ticks,
  s_prev_rx, s_have_prev_net,
  s_prev_idle, s_prev_total,
  vdec_state, net_rx_bps, cpu_load_pct,   \* the metrics: what the bar shows
  decoded, restarted,         \* history, since the counter was read: a frame was decoded; the
                              \* counter started again
  judged, outcomes,           \* of the last sample: it compared two counts; of the last three that
                              \* did: what had become of the decoder
  readlink, whole,            \* of the last reading: the interface; its line was read in full
  since, reset,               \* since that reading: bytes received, counter cleared
  basis, received, exact,     \* of net_rx_bps: what the count before was; bytes received in
                              \* between; nothing spoils it
  w_since, i_since, spent     \* ticks since the load was read, and before the last reading

device == <<part, frames, play, link, rx, worked, idled>>
statics == <<s_prev_framededed, s_stall_ticks, s_prev_rx, s_have_prev_net, s_prev_idle, s_prev_total>>
metrics == <<vdec_state, net_rx_bps, cpu_load_pct>>
av_history == <<decoded, restarted, judged, outcomes>>
net_history == <<readlink, whole, since, reset, basis, received, exact>>
cpu_history == <<w_since, i_since, spent>>
vars == <<device, statics, metrics, av_history, net_history, cpu_history>>

-----------------------------------------------------------------------------
(* The receiver.                                                           *)

DecodeFrame ==
  /\ part = "av" /\ play = "on" /\ frames < MaxCount
  /\ frames' = frames + 1 /\ decoded' = TRUE
  /\ UNCHANGED <<part, play, link, rx, worked, idled, statics, metrics>>
  /\ UNCHANGED <<restarted, judged, outcomes, net_history, cpu_history>>

\* Playback starts and stops; a start may begin a new count.
Play ==
  /\ part = "av"
  /\ play' \in {"on", "stopped"} \ {play} /\ (play = "never" => play' = "on")
  /\ \/ UNCHANGED <<frames, restarted>>
     \/ play' = "on" /\ frames' = 0 /\ restarted' = TRUE
  /\ UNCHANGED <<part, link, rx, worked, idled, statics, metrics>>
  /\ UNCHANGED <<decoded, judged, outcomes, net_history, cpu_history>>

ReceiveByte(i) ==
  /\ part = "net" /\ rx[i] < MaxCount /\ since[i] < MaxCount
  /\ rx' = [rx EXCEPT ![i] = @ + 1]
  /\ since' = [since EXCEPT ![i] = @ + 1]
  /\ UNCHANGED <<part, frames, play, link, worked, idled, statics, metrics>>
  /\ UNCHANGED <<av_history, readlink, whole, reset, basis, received, exact, cpu_history>>

\* The address moves to the other interface or goes; a driver that is loaded again counts
\* from zero.
Relink ==
  /\ part = "net"
  /\ link' \in (Interfaces \cup {"none"}) \ {link}
  /\ \/ UNCHANGED <<rx, reset>>
     \/ \E i \in Interfaces : rx' = [rx EXCEPT ![i] = 0] /\ reset' = [reset EXCEPT ![i] = TRUE]
  /\ UNCHANGED <<part, frames, play, worked, idled, statics, metrics>>
  /\ UNCHANGED <<av_history, readlink, whole, since, basis, received, exact, cpu_history>>

\* The time spent waiting for devices, which counts as idle, may step back.
Spend ==
  /\ part = "cpu"
  /\ \/ worked < MaxCount /\ worked' = worked + 1 /\ w_since' = w_since + 1
        /\ UNCHANGED <<idled, i_since>>
     \/ idled < MaxCount /\ idled' = idled + 1 /\ i_since' = i_since + 1
        /\ UNCHANGED <<worked, w_since>>
     \/ idled > 0 /\ idled' = idled - 1 /\ i_since' = i_since - 1
        /\ UNCHANGED <<worked, w_since>>
  /\ UNCHANGED <<part, frames, play, link, rx, statics, metrics>>
  /\ UNCHANGED <<av_history, net_history, spent>>

-----------------------------------------------------------------------------
(* The providers.                                                          *)

\* Mutant: a frame does not end the stall.
stall_ticks_kept(advanced) == IF advanced THEN s_stall_ticks ELSE s_stall_ticks + 1

stall_ticks(advanced) == IF advanced THEN 0 ELSE s_stall_ticks + 1

strtol(n) == IF n > LongMax THEN LongMax ELSE n

\* What has become of the decoder since the count was read.
outcome(framed) ==
  CASE framed = -1 -> "missing"
    [] framed # -1 /\ restarted -> "restarted"
    [] framed # -1 /\ ~restarted /\ ~decoded -> "none"
    [] framed # -1 /\ ~restarted /\ decoded -> IF frames > LongMax THEN "beyond" ELSE "frames"

\* framed: the count read, -1 if it is not in the file; runs: vdec00 says RUN.
av_sample(readable, framed, runs) ==
  LET counted == readable /\ play = "on" /\ s_prev_framededed >= 0
      stalls == stall_ticks(framed > s_prev_framededed)
  IN
  /\ s_prev_framededed' = IF readable THEN framed ELSE s_prev_framededed
  /\ s_stall_ticks' = IF counted THEN stalls ELSE s_stall_ticks
  /\ vdec_state' = IF readable /\ play = "on" THEN IF counted /\ stalls >= 3 THEN "ERR" ELSE "OK"
                   ELSE IF readable /\ play = "stopped" THEN "RESET"
                   ELSE IF runs THEN "OK" ELSE "UNKNOWN"
  /\ judged' = counted
  /\ outcomes' = IF ~counted THEN outcomes
                 ELSE [first |-> outcome(framed), second |-> outcomes.first,
                       third |-> outcomes.second]
  /\ decoded' = (decoded /\ ~readable)
  /\ restarted' = (restarted /\ ~readable)

\* Mutant: what was read first is kept for good.
remembered_first(n) == IF s_have_prev_net THEN s_prev_rx ELSE n

remembered(n) == n

\* short: fewer than nine counters are read of the line of the interface, and the count is 0.
net_sample(readable, short) ==
  IF link = "none" \/ ~readable
    THEN /\ net_rx_bps' = -1
         /\ UNCHANGED <<s_prev_rx, s_have_prev_net, net_history>>
    ELSE LET count == IF short THEN 0 ELSE strtol(rx[link])
             drx == count - s_prev_rx
         IN
         /\ net_rx_bps' = IF ~s_have_prev_net THEN -1 ELSE IF drx < 0 THEN 0 ELSE drx
         /\ s_prev_rx' = remembered(count)
         /\ s_have_prev_net' = TRUE
         /\ basis' = IF readlink # link THEN "other" ELSE IF whole THEN "same" ELSE "short"
         /\ received' = since[link]
         /\ exact' = (~short /\ ~reset[link] /\ rx[link] <= LongMax)
         /\ readlink' = link
         /\ whole' = ~short
         /\ since' = [i \in Interfaces |-> 0]
         /\ reset' = [i \in Interfaces |-> FALSE]

\* The cast of the share to an int wraps.
int(n) == LET m == n % (2 * (IntMax + 1)) IN IF m > IntMax THEN m - 2 * (IntMax + 1) ELSE m

\* Mutant: the share is not limited.
percent_unlimited(n) == int(n)

percent(n) == IF int(n) < 0 THEN 0 ELSE IF int(n) > 100 THEN 100 ELSE int(n)

cpu_sample(readable) ==
  IF ~readable
    THEN cpu_load_pct' = -1 /\ UNCHANGED <<s_prev_idle, s_prev_total, cpu_history>>
    ELSE LET total == worked + idled
             dt == total - s_prev_total
             di == (idled - s_prev_idle) % Word
         IN
         /\ cpu_load_pct' = IF s_prev_total # 0 /\ total > s_prev_total
                              THEN percent(((100 * ((dt - di) % Word)) % Word) \div dt)
                              ELSE -1
         /\ s_prev_idle' = idled /\ s_prev_total' = total
         /\ spent' = [work |-> w_since, idle |-> i_since]
         /\ w_since' = 0 /\ i_since' = 0

\* Whether a file can be read, and in full, is left open for the part that moves.
Chance(p) == IF part = p THEN BOOLEAN ELSE {TRUE}

\* One tick of an enabled daemon (main.c:143-146): every provider samples.
Sample ==
  /\ s_stall_ticks < MaxStall
  /\ \E readable, runs \in Chance("av"), framed \in {strtol(frames), -1} :
       av_sample(readable, framed, runs)
  /\ \E readable, full \in Chance("net") : net_sample(readable, ~full)
  /\ \E readable \in Chance("cpu") : cpu_sample(readable)
  /\ UNCHANGED device

Init ==
  /\ part \in Parts
  /\ frames = 0 /\ play = "never"
  /\ link = "none" /\ rx = [i \in Interfaces |-> 0]
  /\ worked = 0 /\ idled = 0
  /\ s_prev_framededed = -1 /\ s_stall_ticks = 0
  /\ s_prev_rx = 0 /\ s_have_prev_net = FALSE
  /\ s_prev_idle = 0 /\ s_prev_total = 0
  /\ vdec_state = "UNKNOWN" /\ net_rx_bps = -1 /\ cpu_load_pct = -1
  /\ decoded = FALSE /\ restarted = FALSE /\ judged = FALSE
  /\ outcomes = [first |-> "unread", second |-> "unread", third |-> "unread"]
  /\ readlink = "none" /\ whole = FALSE /\ basis = "other" /\ received = 0 /\ exact = FALSE
  /\ since = [i \in Interfaces |-> 0] /\ reset = [i \in Interfaces |-> FALSE]
  /\ w_since = 0 /\ i_since = 0 /\ spent = [work |-> 0, idle |-> 0]

\* The daemon ends and is started again.
Restart ==
  /\ s_prev_framededed' = -1 /\ s_stall_ticks' = 0
  /\ s_prev_rx' = 0 /\ s_have_prev_net' = FALSE
  /\ s_prev_idle' = 0 /\ s_prev_total' = 0
  /\ vdec_state' = "UNKNOWN" /\ net_rx_bps' = -1 /\ cpu_load_pct' = -1
  /\ decoded' = FALSE /\ restarted' = FALSE /\ judged' = FALSE
  /\ outcomes' = [first |-> "unread", second |-> "unread", third |-> "unread"]
  /\ readlink' = "none" /\ whole' = FALSE /\ basis' = "other" /\ received' = 0 /\ exact' = FALSE
  /\ since' = [i \in Interfaces |-> 0] /\ reset' = [i \in Interfaces |-> FALSE]
  /\ w_since' = 0 /\ i_since' = 0 /\ spent' = [work |-> 0, idle |-> 0]
  /\ UNCHANGED device

Next ==
  \/ DecodeFrame \/ Play
  \/ \E i \in Interfaces : ReceiveByte(i)
  \/ Relink \/ Spend
  \/ Sample \/ Restart

Spec == Init /\ [][Next]_vars

-----------------------------------------------------------------------------
(* Properties.                                                             *)

Of(kinds) == outcomes.first \in kinds /\ outcomes.second \in kinds /\ outcomes.third \in kinds

\* "stall>=3 = HANG" (DEBUG_STATUS_BAR.md:93): VDEC HANG is shown only if none of the last
\* three counts read during playback, with a count before it, came with a new frame on a
\* running count that a long can hold, and it is shown without fail at the third that brought
\* none.  The three may lie in two playbacks, for a stop does not end a stall
\* (providers.c:206-215).
HangIsThreeStalls ==
  /\ vdec_state = "ERR" => judged /\ Of({"none", "restarted", "missing", "beyond"})
  /\ judged /\ Of({"none"}) => vdec_state = "ERR"

\* The rate is never more than what the interface has received since it was last read, and
\* is just that unless its driver was loaded again, its line is cut off or the count is
\* beyond the largest long.  That is of two readings of one interface, the first of a whole
\* line: the two properties below tell what the code does otherwise.
RateIsBytesSince ==
  net_rx_bps # -1 /\ basis = "same" =>
    /\ 0 <= net_rx_bps /\ net_rx_bps <= received
    /\ exact => net_rx_bps = received

\* "throughput for the active iface" (providers.c:342), as long as every line is read in
\* full, but whichever the interface was before.
\* Not so (RateRelink.cfg).
RateIsOfTheActive ==
  net_rx_bps # -1 /\ basis # "short" => net_rx_bps <= received

\* The same as long as the interface stays, but whatever could be read of its line.
\* Not so (RateShort.cfg).
RateIsOfWholeLines ==
  net_rx_bps # -1 /\ basis # "other" => net_rx_bps <= received

\* The load is the share of the time since the last reading, however long ago, that was
\* not idle.  If the idle time has stepped back, which as an unsigned difference is huge
\* (lines 121-127), it is 100, unless the share is then too large even for an int.
CpuLoadIsShare ==
  cpu_load_pct # -1 =>
    LET share == (100 * spent.work) \div (spent.work + spent.idle) IN
    /\ cpu_load_pct \in 0..100
    /\ spent.idle >= 0 => cpu_load_pct = share
    /\ spent.idle < 0 /\ share <= IntMax => cpu_load_pct = 100

-----------------------------------------------------------------------------
(* The inductive invariant.                                                *)

Outcome == {"unread", "frames", "restarted", "none", "missing", "beyond"}
Quiet == {"none", "restarted", "missing", "beyond"}

TypeOK ==
  /\ part \in Parts
  /\ frames \in Nat /\ play \in {"never", "on", "stopped"}
  /\ link \in Interfaces \cup {"none"} /\ rx \in [Interfaces -> Nat]
  /\ s_prev_framededed \in Nat \cup {-1} /\ s_stall_ticks \in Nat
  /\ s_prev_rx \in Nat /\ s_have_prev_net \in BOOLEAN
  /\ vdec_state \in {"UNKNOWN", "OK", "RESET", "ERR"} /\ net_rx_bps \in Int
  /\ decoded \in BOOLEAN /\ restarted \in BOOLEAN /\ judged \in BOOLEAN
  /\ outcomes \in [first : Outcome, second : Outcome, third : Outcome]
  /\ readlink \in Interfaces \cup {"none"} /\ whole \in BOOLEAN
  /\ basis \in {"other", "same", "short"} /\ received \in Nat /\ exact \in BOOLEAN
  /\ since \in [Interfaces -> Nat] /\ reset \in [Interfaces -> BOOLEAN]

\* On a running count what was read and what is there differ by the frames decoded since.
CountRuns ==
  s_prev_framededed >= 0 /\ ~restarted =>
    /\ ~decoded => s_prev_framededed = strtol(frames)
    /\ decoded /\ frames <= LongMax => s_prev_framededed < frames

\* The ticks counted are the quiet outcomes at the end of the history.
StallIsQuiet ==
  /\ s_stall_ticks >= 1 => outcomes.first \in Quiet
  /\ s_stall_ticks >= 2 => outcomes.second \in Quiet
  /\ s_stall_ticks >= 3 => outcomes.third \in Quiet
  /\ outcomes.first = "none" => s_stall_ticks >= 1
  /\ outcomes.first = "none" /\ outcomes.second = "none" => s_stall_ticks >= 2
  /\ Of({"none"}) => s_stall_ticks >= 3

\* What was read of an interface is what it had then.
ReadIsPast ==
  /\ s_have_prev_net <=> readlink # "none"
  /\ s_have_prev_net /\ whole /\ ~reset[readlink] =>
       /\ since[readlink] <= rx[readlink]
       /\ s_prev_rx = strtol(rx[readlink] - since[readlink])
  /\ s_have_prev_net /\ whole =>
       rx[readlink] <= since[readlink] + s_prev_rx \/ LongMax <= s_prev_rx

CpuTypes ==
  /\ worked \in 0..MaxCount /\ idled \in 0..MaxCount
  /\ s_prev_idle \in 0..MaxCount /\ s_prev_total \in Nat /\ cpu_load_pct \in Int
  /\ w_since \in Nat /\ i_since \in Int /\ spent \in [work : Nat, idle : Int]

\* A reading of the processor and the ticks since give what is there; a reading of nothing
\* counts for none.
ReadingIsPast ==
  s_prev_total # 0 =>
    /\ s_prev_idle + i_since = idled
    /\ s_prev_total + w_since + i_since = worked + idled
    /\ w_since <= worked

Inv == TypeOK /\ CountRuns /\ StallIsQuiet /\ ReadIsPast /\ HangIsThreeStalls /\ RateIsBytesSince
       /\ CpuTypes /\ ReadingIsPast /\ CpuLoadIsShare
=============================================================================
