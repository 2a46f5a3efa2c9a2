--------------------------- MODULE TelnetSession ---------------------------
(***************************************************************************)
(* The tools under tools/ that log in to the receiver by telnet and run    *)
(* commands there: telnet_run.py, deploy_dbgbar.py and the four that share *)
(* its run(), ensure_gadget_up.py and the two that share its run().        *)
(*                                                                         *)
(* Everything the receiver says comes back in one stream: the echo of each *)
(* line, what the line prints, the prompt after it.  A tool knows that a   *)
(* command has ended only by finding a marker in that stream, and the      *)
(* three families choose it differently:                                   *)
(*   "split"   a token printed by a line whose own text does not hold it,  *)
(*             another one for every command;                              *)
(*   "token"   a token printed by a line that does hold it, taken from the *)
(*             clock: commands sent in one unit of it (a second in         *)
(*             grab_and_pull.py, a millisecond in the others) share it;    *)
(*   "prompt"  the prompt, set to a special string at login.               *)
(*                                                                         *)
(* A line is <<what, i>>: the line that sets the prompt, the i-th command, *)
(* or the line that prints the i-th token.  The session starts after the   *)
(* password; IAC negotiation and the filtering of the answer are left out. *)
(***************************************************************************)
EXTENDS Integers, Sequences, FiniteSets, SequencesExt

CONSTANTS
  Kinds,        \* the families of tools checked
  N             \* the number of commands a tool runs

ASSUME SessionAssumption ==
  /\ Kinds \subseteq {"split", "token", "prompt"}
  /\ N \in Nat \ {0}

VARIABLES
  kind,         \* the family of this tool
  pc,           \* "ready" to send, "waiting" for a marker, "done" or "aborted"
  cur,          \* the command being run; 0 is the line that sets the prompt
  typed,        \* lines the receiver has not run yet, each with "its echo is out"
  stream,       \* on the way to the tool
  buf,          \* what the recv_until under way has read: its order tells nothing
  answered,     \* the commands whose output is in an answer some run() has returned
  gaveup,       \* history: the commands whose wait ended without the marker
  early,        \* history: the commands whose token line was echoed before the shell took it
  same,         \* history: the commands whose token is that of the command before
  link          \* the connection

toolVars == <<pc, cur, buf, answered, gaveup>>
vars == <<kind, typed, stream, link, early, same, toolVars>>

Ps1 == <<"ps1", 0>>
Cmd(i) == <<"cmd", i>>
Mark(i) == <<"mark", i>>

Echo(line) == <<"echo", line>>
Text(line) == <<"text", line>>
Prompt == <<"prompt", Ps1>>                 \* whatever the line before it was

Init ==
  /\ kind \in Kinds
  /\ pc = "ready"
  /\ cur = 0
  /\ typed = <<>>
  /\ stream = <<>>
  /\ buf = {}
  /\ answered = {}
  /\ gaveup = {}
  /\ early = {}
  /\ same = {}
  /\ link = "open"

-----------------------------------------------------------------------------
(* The markers.                                                            *)

\* The special prompt shows in every prompt and in the echo of the line that sets it.
PromptMarker == {Prompt, Echo(Ps1)}

\* The commands up to i that have the token of i.
Alike(i) == {j \in 1..i : (j + 1)..i \subseteq same}

\* The echo of  echo ZZ1ZZ  holds ZZ1ZZ, whichever command's it is.
TokenMarker(i) == {Text(Mark(j)) : j \in Alike(i)} \cup {Echo(Mark(j)) : j \in Alike(i)}

\* Mutant: the marker of telnet_run.py written without the quotes in the middle.
UnsplitMarker(i) == TokenMarker(i)

\* The echo of  echo "MK""0""END"  does not hold MK0END.
SplitMarker(i) == {Text(Mark(i))}

Marker(k, i) ==
  CASE i = 0 \/ k = "prompt" -> PromptMarker
    [] i > 0 /\ k = "split"  -> SplitMarker(i)
    [] i > 0 /\ k = "token"  -> TokenMarker(i)

Found(read) == read \cap Marker(kind, cur) # {}

-----------------------------------------------------------------------------
(* The tool.                                                               *)

\* Mutant: the tools with the token send its line first.
SentTokenFirst ==
  IF cur = 0 THEN <<Ps1>>
  ELSE CASE kind = "prompt" -> <<Cmd(cur)>>
         [] kind = "token"  -> <<Mark(cur), Cmd(cur)>>
         [] kind = "split"  -> <<Cmd(cur), Mark(cur)>>

\* Mutant: the tools that wait for the prompt send a token line, too.
SentTwoLines == IF cur = 0 THEN <<Ps1>> ELSE <<Cmd(cur), Mark(cur)>>

\* What run() sends for command i, both lines at once where there are two.
Sent ==
  IF cur = 0 THEN <<Ps1>>
  ELSE IF kind = "prompt" THEN <<Cmd(cur)>> ELSE <<Cmd(cur), Mark(cur)>>

\* The token of the tools that take it from the clock: the unit of the command before may
\* not have passed, unless that command has waited for its time limit.
TakeToken ==
  IF kind = "token" /\ cur > 1 /\ cur - 1 \notin gaveup
  THEN same' \in {same, same \cup {cur}}
  ELSE UNCHANGED same

Wait == pc' = "waiting" /\ buf' = {} /\ TakeToken

Send ==
  /\ pc = "ready"
  /\ link = "open"
  /\ typed' = typed \o [n \in DOMAIN Sent |-> [line |-> Sent[n], echoed |-> FALSE]]
  /\ Wait
  /\ UNCHANGED <<kind, early, stream, link, cur, answered, gaveup>>

\* On a broken connection sendall may still succeed, and nobody reads the line ...
SendIntoTheVoid ==
  /\ pc = "ready"
  /\ link = "broken"
  /\ Wait
  /\ UNCHANGED <<kind, early, typed, stream, link, cur, answered, gaveup>>

\* ... or it raises, and no tool catches that.
SendRaises ==
  /\ pc = "ready"
  /\ link = "broken"
  /\ pc' = "aborted"
  /\ UNCHANGED <<kind, early, same, typed, stream, link, cur, buf, answered, gaveup>>

\* run() returns what was read, and the next recv_until starts with an empty buffer;
\* after the last command the tool says exit and closes the connection.
Return(read, rest) ==
  /\ answered' = answered \cup {i \in 1..N : Text(Cmd(i)) \in read}
  /\ buf' = {}
  /\ IF cur < N
     THEN cur' = cur + 1 /\ pc' = "ready" /\ stream' = rest /\ link' = link
     ELSE cur' = cur /\ pc' = "done" /\ stream' = <<>> /\ link' = "closed"

\* recv returns the first n items under way; all that was read is returned once a
\* marker is in it, what came behind the marker included.  (Without a marker n is 1:
\* a longer read without one is several of these.)
Receive ==
  /\ pc = "waiting"
  /\ \E n \in 1..Len(stream) :
       LET read == buf \cup ToSet(SubSeq(stream, 1, n))
           rest == SubSeq(stream, n + 1, Len(stream))
       IN  \/ /\ Found(read)
              /\ Return(read, rest)
           \/ /\ n = 1
              /\ ~Found(read)
              /\ buf' = read
              /\ stream' = rest
              /\ UNCHANGED <<answered, cur, pc, link>>
  /\ UNCHANGED <<kind, early, same, typed, gaveup>>

\* Mutant: recv_until without a time limit.
GiveUpIfBroken ==
  /\ pc = "waiting"
  /\ link = "broken"
  /\ stream = <<>>
  /\ gaveup' = gaveup \cup {cur}
  /\ Return(buf, stream)
  /\ UNCHANGED <<kind, early, same, typed>>

\* The time limit, or the end of a broken connection: what has been read is the answer.
GiveUp ==
  /\ pc = "waiting"
  /\ gaveup' = gaveup \cup {cur}
  /\ Return(buf, stream)
  /\ UNCHANGED <<kind, early, same, typed>>

-----------------------------------------------------------------------------
(* The receiver (external): a terminal that echoes and a shell.            *)

\* The terminal echoes a line when it arrives, while the shell is at something else.
EchoAtArrival ==
  /\ link = "open"
  /\ \E n \in DOMAIN typed :
       /\ ~typed[n].echoed
       /\ \A m \in 1..(n - 1) : typed[m].echoed
       /\ typed' = [typed EXCEPT ![n].echoed = TRUE]
       /\ early' = early \cup {i \in 1..N : kind = "token" /\ typed[n].line = Mark(i)}
       /\ stream' = Append(stream, Echo(typed[n].line))
  /\ UNCHANGED <<kind, same, link, toolVars>>

\* The shell takes the next line (and echoes it now, if the terminal has not), runs
\* it and prompts.  It goes on after the tool has closed, until it is hung up.
Shell ==
  /\ link # "broken"
  /\ typed # <<>>
  /\ LET line == Head(typed).line
         echo == IF Head(typed).echoed THEN <<>> ELSE <<Echo(line)>>
         text == IF line = Ps1 THEN <<>> ELSE <<Text(line)>>
     IN  stream' = IF link = "closed" THEN stream
                   ELSE stream \o echo \o text \o <<Prompt>>
  /\ typed' = Tail(typed)
  /\ UNCHANGED <<kind, early, same, link, toolVars>>

\* The connection breaks, with any of what is under way, and the shell with it.
Break ==
  /\ link = "open"
  /\ link' = "broken"
  /\ typed' = <<>>
  /\ \E n \in 0..Len(stream) : stream' = SubSeq(stream, 1, n)
  /\ UNCHANGED <<kind, early, same, toolVars>>

HangUp ==
  /\ link = "closed"
  /\ typed # <<>>
  /\ typed' = <<>>
  /\ UNCHANGED <<kind, early, same, stream, link, toolVars>>

ToolStep == Send \/ SendIntoTheVoid \/ SendRaises \/ Receive \/ GiveUp
Next == ToolStep \/ EchoAtArrival \/ Shell \/ Break \/ HangUp

Spec == Init /\ [][Next]_vars
FairSpec == Spec /\ WF_vars(ToolStep)

-----------------------------------------------------------------------------
(* Properties.                                                             *)

Over == pc \in {"done", "aborted"}

\* The command run() has just returned an answer for.
Latest == IF pc = "done" THEN cur ELSE cur - 1

\* The split marker resynchronizes: once an answer has ended with its marker, whatever
\* its own command printed has been read, and no output of an earlier command is
\* missing, those that ran into their time limit included.
SplitAnswersAreWhole ==
  (kind = "split" /\ Latest >= 1 /\ Latest \notin gaveup) => 1..Latest \subseteq answered

\* With a token that shows in its own echo, too, and may be that of the commands before:
\* if neither its line nor theirs was echoed before the shell took it, an answer that ends
\* with its marker lags by half the number of those commands, rounded up, and by nothing if
\* the token is its own, whatever was echoed early or timed out with other tokens.
TokenLagIsBounded ==
  (kind = "token" /\ Latest >= 1 /\ Latest \notin gaveup) =>
    \A f \in 1..Latest :
      (f \notin same /\ (f + 1)..Latest \subseteq same /\ (f..Latest) \cap early = {}) =>
        1..(f + (Latest - f) \div 2) \subseteq answered

\* deploy_dbgbar.py:4-5, "start it, and verify it is running": what run() returns is what
\* the receiver printed.  A token line may be echoed at once, as terminals do; no token is
\* used twice.  Not so (TokenEcho.cfg).
EchoedAnswersAreWhole ==
  (kind = "token" /\ same = {} /\ Latest >= 1 /\ Latest \notin gaveup) =>
    1..Latest \subseteq answered

\* grab_and_pull.py:5-6, "pull /tmp/volbar.b64 back and decode it": the same of a terminal
\* that never echoes a token line early, with two commands in one second.
\* Not so (TokenSecond.cfg).
AnswersOfOneSecondAreWhole ==
  (kind = "token" /\ early = {} /\ Latest >= 1 /\ Latest \notin gaveup) =>
    1..Latest \subseteq answered

\* With the prompt as the marker an answer lags: by one for the login, whose wait ends
\* with the echo, and by one more for every wait that timed out, for ever.  No more,
\* whether the connection has held or not.
PromptLagIsBounded ==
  (kind = "prompt" /\ Latest >= 1 /\ Latest \notin gaveup) =>
    1..(Latest - 1 - Cardinality(gaveup)) \subseteq answered

\* Whatever the receiver does, a tool comes to its end: no wait is without a limit.
SessionEnds == <>Over
=============================================================================
