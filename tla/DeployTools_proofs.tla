-------------------------- MODULE DeployTools_proofs --------------------------
(***************************************************************************)
(* The tools that work on a live receiver, in two parts: the session they  *)
(* talk over (TelnetSession), for every number of commands, and the lists  *)
(* of commands that install and remove the status bar (Deployment), for    *)
(* every set of builds, every number of lines of a transfer and every      *)
(* number of runs and faults.                                              *)
(*                                                                         *)
(* The session.  Three arguments.                                          *)
(*                                                                         *)
(*   A marker of its own (MarkersHold).  Wherever the text of the i-th     *)
(*   marker is - read, under way, or as a line the shell has not taken -   *)
(*   the outputs of the commands 1..i are in front of it: the shell takes  *)
(*   the lines in their order, the stream keeps the order, and what a wait *)
(*   gives up on is still in front of the next marker.  So an answer that  *)
(*   ends with the i-th marker has all of them behind it.  With the token  *)
(*   that shows in its own echo this needs the echo to come from the       *)
(*   shell, which is what Sure(i) says.                                    *)
(*                                                                         *)
(*   A token that is shared (TokenOrder).  Number what shows the i-th      *)
(*   token 2i, the echo of its line, and 2i + 1, what the line prints:     *)
(*   without early echoes they come in this order.  A wait ends with one   *)
(*   of its token, so in a group f, f + 1, ... of commands with one token  *)
(*   the k-th wait finds number 2f + k - 1 or a later one (Ahead), which   *)
(*   is of command f + (k - 1) \div 2 at least.                            *)
(*                                                                         *)
(*   The prompt (PromptOrder).  Number the markers as they are emitted:    *)
(*   the echo of the line that sets the prompt is 1, the prompt after it   *)
(*   2, the prompt after the j-th command j + 2.  A wait ends with the     *)
(*   first marker and takes it, so each wait that does not time out uses   *)
(*   up at least one number: the markers under way are numbered above      *)
(*   Due, the waits over less those that timed out.  The output of the     *)
(*   j-th command is in front of every marker numbered j + 2 or more.      *)
(*                                                                         *)
(* The deployment.  The tool is at a position p of its list: what it has   *)
(* still to send is the rest of deploy(version) behind p (Position).  As   *)
(* long as nothing has failed, Reached(p) says what the first p commands   *)
(* have made of the receiver, whatever it was before; Place and Cleared    *)
(* say the same of the clean-up.  Matched says what the verdict MATCH      *)
(* means, and that is true with failures, too: behind the comparison no    *)
(* command touches the binary (Late).                                      *)
(***************************************************************************)
EXTENDS TelnetSession, Deployment, SequenceTheorems, FiniteSetTheorems, TLAPS

-----------------------------------------------------------------------------
(* Sequences.                                                              *)

\* The concatenation, under a name that the provers do not look into.
Cat(s, t) == s \o t

\* c is s followed by t.
Joined(c, s, t) ==
  /\ Len(s) \in Nat /\ Len(t) \in Nat /\ Len(c) = Len(s) + Len(t)
  /\ \A p \in 1..Len(s) : c[p] = s[p]
  /\ \A p \in 1..Len(t) : c[Len(s) + p] = t[p]

\* What a concatenation holds, item by item.
LEMMA CatForm ==
  ASSUME NEW S, NEW s \in Seq(S), NEW t \in Seq(S)
  PROVE  Cat(s, t) \in Seq(S) /\ Joined(Cat(s, t), s, t)
<1>1. /\ Cat(s, t) \in Seq(S)
      /\ Len(Cat(s, t)) = Len(s) + Len(t)
      /\ \A p \in 1..Len(s) + Len(t) : Cat(s, t)[p] = IF p <= Len(s) THEN s[p] ELSE t[p - Len(s)]
  BY ConcatProperties DEF Cat
<1>2. Len(s) \in Nat /\ Len(t) \in Nat
  OBVIOUS
<1>3. \A p \in 1..Len(s) : p \in 1..Len(s) + Len(t) /\ p <= Len(s)
  BY <1>2
<1>4. \A p \in 1..Len(t) :
        Len(s) + p \in 1..Len(s) + Len(t) /\ ~(Len(s) + p <= Len(s)) /\ (Len(s) + p) - Len(s) = p
  BY <1>2
<1> QED
  BY <1>1, <1>2, <1>3, <1>4 DEF Joined

\* A sequence of one item.
LEMMA OneForm == ASSUME NEW S, NEW x \in S PROVE <<x>> \in Seq(S) /\ Len(<<x>>) = 1 /\ <<x>>[1] = x
  OBVIOUS

\* A sequence of two items.
LEMMA TwoForm ==
  ASSUME NEW S, NEW x \in S, NEW y \in S
  PROVE  <<x, y>> \in Seq(S) /\ Len(<<x, y>>) = 2 /\ <<x, y>>[1] = x /\ <<x, y>>[2] = y
  OBVIOUS

\* A sequence of six items.
LEMMA SixForm ==
  ASSUME NEW S, NEW a \in S, NEW b \in S, NEW c \in S, NEW d \in S, NEW e \in S, NEW f \in S
  PROVE  /\ <<a, b, c, d, e, f>> \in Seq(S) /\ Len(<<a, b, c, d, e, f>>) = 6
         /\ <<a, b, c, d, e, f>>[1] = a /\ <<a, b, c, d, e, f>>[2] = b
         /\ <<a, b, c, d, e, f>>[3] = c /\ <<a, b, c, d, e, f>>[4] = d
         /\ <<a, b, c, d, e, f>>[5] = e /\ <<a, b, c, d, e, f>>[6] = f
  OBVIOUS

\* The first item of a sequence, and the others.
LEMMA TailForm ==
  ASSUME NEW S, NEW s \in Seq(S), s # <<>>
  PROVE  /\ Tail(s) \in Seq(S) /\ Len(s) \in Nat /\ Len(s) >= 1 /\ Len(Tail(s)) = Len(s) - 1
         /\ Head(s) = s[1]
         /\ \A i \in 1..Len(s) - 1 : Tail(s)[i] = s[i + 1]
<1>1. Len(s) \in Nat /\ Len(s) # 0
  BY EmptySeq
<1>2. /\ Tail(s) \in Seq(S) /\ Len(Tail(s)) = Len(s) - 1
      /\ \A i \in 1..Len(Tail(s)) : Tail(s)[i] = s[i + 1]
  BY HeadTailProperties
<1>3. Head(s) = s[1]
  OBVIOUS
<1> QED
  BY <1>1, <1>2, <1>3

-----------------------------------------------------------------------------
(* The session: its types and the form of its steps.                       *)

Lines == {Ps1} \cup {Cmd(i) : i \in 1..N} \cup {Mark(i) : i \in 1..N}

Items == {Prompt} \cup {Echo(l) : l \in Lines} \cup {Text(l) : l \in Lines}

TypedLine == [line : Lines, echoed : BOOLEAN]

\* The waits that are over.
Waited == 0..(IF pc = "done" THEN cur ELSE cur - 1)

\* The types, and what goes with them: the connection is closed once the tool is done,
\* nothing is under way then, and no marker is in what the wait under way has read.
TypeInv ==
  /\ kind \in {"split", "token", "prompt"}
  /\ pc \in {"ready", "waiting", "done", "aborted"}
  /\ link \in {"open", "broken", "closed"}
  /\ cur \in 0..N
  /\ early \subseteq 1..N
  /\ same \subseteq 1..N
  /\ typed \in Seq(TypedLine)
  /\ stream \in Seq(Items)
  /\ buf \subseteq Items
  /\ answered \subseteq 1..N
  /\ gaveup \subseteq Waited
  /\ pc = "done" <=> link = "closed"
  /\ link = "closed" => stream = <<>>
  /\ pc # "waiting" => buf = {}
  /\ pc = "waiting" => ~Found(buf)

\* No two lines are the same, and no command is taken for a marker.
LEMMA LineNames ==
  /\ \A i, j : Cmd(i) # Mark(j) /\ Cmd(i) # Ps1 /\ Mark(i) # Ps1
  /\ \A i, j : (Cmd(i) = Cmd(j) => i = j) /\ (Mark(i) = Mark(j) => i = j)
  /\ \A i : Mark(i)[1] = "mark" /\ Cmd(i)[1] # "mark" /\ Ps1[1] # "mark"
  BY DEF Cmd, Mark, Ps1

\* No echo is taken for an output or a prompt.
LEMMA ItemNames ==
  /\ \A l, m : Echo(l) # Text(m) /\ Text(l) # Prompt /\ Echo(l) # Prompt
  /\ \A l, m : (Text(l) = Text(m) => l = m) /\ (Echo(l) = Echo(m) => l = m)
  BY DEF Echo, Text, Prompt

LineNo(i) == IF i = 0 THEN Ps1 ELSE Cmd(i)

Fresh(line) == [line |-> line, echoed |-> FALSE]

FreshLines(sent) == [n \in DOMAIN sent |-> [line |-> sent[n], echoed |-> FALSE]]

\* The lines that one sendall adds.
LEMMA FreshForm ==
  ASSUME NEW sent \in Seq(Lines)
  PROVE  /\ FreshLines(sent) \in Seq(TypedLine) /\ Len(FreshLines(sent)) = Len(sent)
         /\ \A n \in 1..Len(sent) : FreshLines(sent)[n] = Fresh(sent[n])
<1>1. Len(sent) \in Nat /\ DOMAIN sent = 1..Len(sent) /\ \A n \in 1..Len(sent) : sent[n] \in Lines
  OBVIOUS
<1>2. FreshLines(sent) = [n \in 1..Len(sent) |-> Fresh(sent[n])]
  BY <1>1 DEF FreshLines, Fresh
<1>3. \A n \in 1..Len(sent) : Fresh(sent[n]) \in TypedLine
  BY <1>1 DEF Fresh, TypedLine
<1> HIDE DEF FreshLines
<1>4. FreshLines(sent) \in Seq(TypedLine)
  BY <1>1, <1>2, <1>3
<1>5. DOMAIN FreshLines(sent) = 1..Len(sent)
  BY <1>2
<1>6. Len(FreshLines(sent)) = Len(sent)
  BY <1>1, <1>4, <1>5, LenProperties
<1> QED
  BY <1>2, <1>4, <1>6

\* Send adds a line, or the command and the line that prints its marker.
LEMMA SendForm ==
  ASSUME TypeInv, Send
  PROVE  /\ typed' \in Seq(TypedLine)
         /\ \A p \in 1..Len(typed) : typed'[p] = typed[p]
         /\ kind = "prompt" \/ cur = 0 =>
              Len(typed') = Len(typed) + 1 /\ typed'[Len(typed) + 1] = Fresh(LineNo(cur))
         /\ kind # "prompt" /\ cur # 0 =>
              /\ Len(typed') = Len(typed) + 2
              /\ typed'[Len(typed) + 1] = Fresh(Cmd(cur))
              /\ typed'[Len(typed) + 2] = Fresh(Mark(cur))
<1> DEFINE new == FreshLines(Sent)
           old == typed
           len == Len(typed)
<1>1. typed' = Cat(old, new)
  BY DEF Send, Cat, FreshLines
<1>2. old \in Seq(TypedLine) /\ cur \in 0..N /\ len \in Nat
  BY DEF TypeInv
<1>3. LineNo(cur) \in Lines /\ (cur # 0 => Cmd(cur) \in Lines /\ Mark(cur) \in Lines)
  BY <1>2, SessionAssumption DEF LineNo, Lines
<1>4. /\ kind = "prompt" \/ cur = 0 => Sent = <<LineNo(cur)>>
      /\ ~(kind = "prompt" \/ cur = 0) => Sent = <<Cmd(cur), Mark(cur)>>
  BY DEF Sent, LineNo
<1>5. /\ Sent \in Seq(Lines)
      /\ kind = "prompt" \/ cur = 0 => Len(Sent) = 1 /\ Sent[1] = LineNo(cur)
      /\ ~(kind = "prompt" \/ cur = 0) =>
           Len(Sent) = 2 /\ Sent[1] = Cmd(cur) /\ Sent[2] = Mark(cur)
  <2> DEFINE a == LineNo(cur)
             c == Cmd(cur)
             m == Mark(cur)
  <2>0. /\ a \in Lines /\ (cur # 0 => c \in Lines /\ m \in Lines)
        /\ kind = "prompt" \/ cur = 0 => Sent = <<a>>
        /\ ~(kind = "prompt" \/ cur = 0) => Sent = <<c, m>>
    BY <1>3, <1>4
  <2> SUFFICES /\ Sent \in Seq(Lines)
               /\ kind = "prompt" \/ cur = 0 => Len(Sent) = 1 /\ Sent[1] = a
               /\ ~(kind = "prompt" \/ cur = 0) => Len(Sent) = 2 /\ Sent[1] = c /\ Sent[2] = m
    OBVIOUS
  <2> HIDE DEF a, c, m
  <2>1. CASE kind = "prompt" \/ cur = 0
    <3>1. a \in Lines /\ Sent = <<a>>
      BY <2>0, <2>1
    <3>2. Sent \in Seq(Lines) /\ Len(Sent) = 1 /\ Sent[1] = a
      BY <3>1
    <3> QED
      BY <2>1, <3>2
  <2>2. CASE ~(kind = "prompt" \/ cur = 0)
    <3>1. c \in Lines /\ m \in Lines /\ Sent = <<c, m>>
      BY <2>0, <2>2
    <3>2. Sent \in Seq(Lines) /\ Len(Sent) = 2 /\ Sent[1] = c /\ Sent[2] = m
      BY <3>1
    <3> QED
      BY <2>2, <3>2
  <2> QED
    BY <2>1, <2>2
<1>6. /\ new \in Seq(TypedLine) /\ Len(new) = Len(Sent)
      /\ \A n \in 1..Len(Sent) : new[n] = Fresh(Sent[n])
  BY <1>5, FreshForm
<1>8. old = typed /\ len = Len(old)
  OBVIOUS
<1> HIDE DEF new, old, len
<1>7. Cat(old, new) \in Seq(TypedLine) /\ Joined(Cat(old, new), old, new)
  <2>1. old \in Seq(TypedLine) /\ new \in Seq(TypedLine)
    BY <1>2, <1>6
  <2> QED
    BY <2>1, CatForm
<1>9. CASE kind = "prompt" \/ cur = 0
  <2>1. 1 \in 1..Len(new) /\ 1 \in 1..Len(Sent)
    BY <1>5, <1>6, <1>9
  <2> QED
    BY <1>1, <1>5, <1>6, <1>7, <1>8, <1>9, <2>1 DEF Joined
<1>10. CASE ~(kind = "prompt" \/ cur = 0)
  <2>1. 1 \in 1..Len(new) /\ 2 \in 1..Len(new) /\ 1 \in 1..Len(Sent) /\ 2 \in 1..Len(Sent)
    BY <1>5, <1>6, <1>10
  <2> QED
    BY <1>1, <1>5, <1>6, <1>7, <1>8, <1>10, <2>1 DEF Joined
<1> QED
  BY <1>9, <1>10

\* The first n items under way, and the rest.
LEMMA SplitForm ==
  ASSUME stream \in Seq(Items), NEW n \in 0..Len(stream)
  PROVE  LET rest == SubSeq(stream, n + 1, Len(stream))
         IN  /\ rest \in Seq(Items) /\ Len(rest) = Len(stream) - n
             /\ \A p \in 1..Len(rest) : rest[p] = stream[p + n]
             /\ ToSet(SubSeq(stream, 1, n)) = {stream[k] : k \in 1..n}
             /\ SubSeq(stream, 1, n) \in Seq(Items) /\ Len(SubSeq(stream, 1, n)) = n
             /\ \A p \in 1..n : SubSeq(stream, 1, n)[p] = stream[p]
<1> DEFINE rest == SubSeq(stream, n + 1, Len(stream))
           first == SubSeq(stream, 1, n)
<1>1. Len(stream) \in Nat /\ \A i \in 1..Len(stream) : stream[i] \in Items
  OBVIOUS
<1>2. (\A i \in n + 1 .. Len(stream) : stream[i] \in Items) /\ \A i \in 1..n : stream[i] \in Items
  BY <1>1
<1>3. /\ rest \in Seq(Items)
      /\ Len(rest) = IF n + 1 <= Len(stream) THEN Len(stream) - (n + 1) + 1 ELSE 0
      /\ \A i \in 1 .. Len(stream) - (n + 1) + 1 : rest[i] = stream[(n + 1) + i - 1]
  BY <1>1, <1>2, SubSeqProperties
<1>4. /\ first \in Seq(Items)
      /\ Len(first) = IF 1 <= n THEN n - 1 + 1 ELSE 0
      /\ \A i \in 1 .. n - 1 + 1 : first[i] = stream[1 + i - 1]
  BY <1>1, <1>2, SubSeqProperties
<1> HIDE DEF rest, first
<1>5. Len(rest) = Len(stream) - n /\ \A p \in 1..Len(rest) : rest[p] = stream[p + n]
  BY <1>1, <1>3
<1>6. Len(first) = n /\ \A p \in 1..n : first[p] = stream[p]
  BY <1>1, <1>4
<1>7. DOMAIN first = 1..n
  BY <1>4, <1>6
<1>8. ToSet(first) = {stream[k] : k \in 1..n}
  BY <1>6, <1>7 DEF ToSet
<1> QED
  BY <1>3, <1>4, <1>5, <1>6, <1>8 DEF rest, first

\* The terminal echoes one line and leaves its place in the queue.
LEMMA EchoForm ==
  ASSUME TypeInv, EchoAtArrival
  PROVE  \E n \in 1..Len(typed) :
           /\ ~typed[n].echoed
           /\ typed' \in Seq(TypedLine) /\ Len(typed') = Len(typed)
           /\ \A p \in 1..Len(typed) : typed'[p].line = typed[p].line
           /\ \A p \in 1..Len(typed) : typed'[p].echoed = IF p = n THEN TRUE ELSE typed[p].echoed
           /\ early' = early \cup {i \in 1..N : kind = "token" /\ typed[n].line = Mark(i)}
           /\ stream' \in Seq(Items) /\ Len(stream') = Len(stream) + 1
           /\ \A p \in 1..Len(stream) : stream'[p] = stream[p]
           /\ stream'[Len(stream) + 1] = Echo(typed[n].line)
<1>1. typed \in Seq(TypedLine) /\ stream \in Seq(Items)
  BY DEF TypeInv
<1>2. PICK n \in DOMAIN typed :
        /\ ~typed[n].echoed
        /\ typed' = [typed EXCEPT ![n].echoed = TRUE]
        /\ early' = early \cup {i \in 1..N : kind = "token" /\ typed[n].line = Mark(i)}
        /\ stream' = Append(stream, Echo(typed[n].line))
  BY DEF EchoAtArrival
<1>3. n \in 1..Len(typed) /\ typed[n] \in TypedLine
  BY <1>1
<1>4. Echo(typed[n].line) \in Items
  BY <1>3 DEF TypedLine, Items
<1>5. /\ stream' \in Seq(Items) /\ Len(stream') = Len(stream) + 1
      /\ \A p \in 1..Len(stream) : stream'[p] = stream[p]
      /\ stream'[Len(stream) + 1] = Echo(typed[n].line)
  BY <1>1, <1>2, <1>4, AppendProperties
<1> DEFINE e == [typed[n] EXCEPT !.echoed = TRUE]
<1>6. e \in TypedLine /\ e.line = typed[n].line /\ e.echoed = TRUE
  BY <1>3 DEF TypedLine
<1>7. typed' = [typed EXCEPT ![n] = e]
  BY <1>2
<1> HIDE DEF e
<1>8. /\ typed' \in Seq(TypedLine) /\ Len(typed') = Len(typed)
      /\ \A p \in 1..Len(typed) : typed'[p] = IF p = n THEN e ELSE typed[p]
  BY <1>1, <1>3, <1>6, <1>7, ExceptSeq
<1>9. ASSUME NEW p \in 1..Len(typed)
      PROVE  typed'[p].line = typed[p].line
             /\ typed'[p].echoed = IF p = n THEN TRUE ELSE typed[p].echoed
  <2>1. CASE p = n
    <3>1. typed'[p] = e
      BY <1>8, <2>1
    <3> QED
      BY <1>6, <2>1, <3>1
  <2>2. CASE p # n
    <3>1. typed'[p] = typed[p]
      BY <1>8, <2>2
    <3> QED
      BY <2>2, <3>1
  <2> QED
    BY <2>1, <2>2
<1> QED
  BY <1>2, <1>3, <1>5, <1>8, <1>9

\* The shell takes the first line: its echo (e), its output (t) and the prompt join the
\* stream, unless the tool has closed it.
LEMMA ShellForm ==
  ASSUME TypeInv, Shell, NEW e, NEW t,
         e = (IF typed[1].echoed THEN 0 ELSE 1), t = (IF typed[1].line = Ps1 THEN 0 ELSE 1)
  PROVE  /\ link # "broken"
         /\ Len(typed) \in Nat /\ Len(typed) >= 1 /\ typed[1] \in TypedLine
         /\ typed' \in Seq(TypedLine) /\ Len(typed') = Len(typed) - 1
         /\ \A p \in 1..Len(typed) - 1 : typed'[p] = typed[p + 1]
         /\ link = "closed" => stream' = stream
         /\ link # "closed" =>
              /\ stream' \in Seq(Items) /\ Len(stream) \in Nat
              /\ Len(stream') = Len(stream) + e + t + 1
              /\ \A p \in 1..Len(stream) : stream'[p] = stream[p]
              /\ e = 1 => stream'[Len(stream) + 1] = Echo(typed[1].line)
              /\ t = 1 => stream'[Len(stream) + e + 1] = Text(typed[1].line)
              /\ stream'[Len(stream) + e + t + 1] = Prompt
<1> DEFINE line == typed[1].line
           echo == IF typed[1].echoed THEN <<>> ELSE <<Echo(line)>>
           text == IF line = Ps1 THEN <<>> ELSE <<Text(line)>>
           last == <<Prompt>>
           old == stream
<1>1. typed \in Seq(TypedLine) /\ old \in Seq(Items) /\ typed # <<>> /\ link # "broken"
  BY DEF TypeInv, Shell
<1>2. Len(typed) \in Nat /\ Len(typed) >= 1 /\ typed[1] \in TypedLine /\ Head(typed) = typed[1]
  BY <1>1
<1>3. /\ typed' \in Seq(TypedLine) /\ Len(typed') = Len(typed) - 1
      /\ \A p \in 1..Len(typed) - 1 : typed'[p] = typed[p + 1]
  <2>1. typed' = Tail(typed)
    BY DEF Shell
  <2> QED
    BY <1>1, <1>2, <2>1, HeadTailProperties
<1>4. line \in Lines
  BY <1>2 DEF TypedLine
<1>5. stream' = IF link = "closed" THEN stream ELSE Cat(Cat(Cat(old, echo), text), last)
  BY <1>2 DEF Shell, Cat
<1>6. Echo(line) \in Items /\ Text(line) \in Items /\ Prompt \in Items
  BY <1>4 DEF Items
<1>7. echo \in Seq(Items) /\ Len(echo) = e /\ (e = 1 => echo[1] = Echo(line))
  <2> DEFINE item == Echo(line)
  <2>1. item \in Items /\ echo = IF typed[1].echoed THEN <<>> ELSE <<item>>
    BY <1>6
  <2> SUFFICES echo \in Seq(Items) /\ Len(echo) = e /\ (e = 1 => echo[1] = item)
    OBVIOUS
  <2> HIDE DEF item, echo
  <2> QED
    BY <2>1
<1>8. text \in Seq(Items) /\ Len(text) = t /\ (t = 1 => text[1] = Text(line))
  <2> DEFINE item == Text(line)
  <2>1. item \in Items /\ text = IF line = Ps1 THEN <<>> ELSE <<item>>
    BY <1>6
  <2>2. t = IF line = Ps1 THEN 0 ELSE 1
    OBVIOUS
  <2> SUFFICES text \in Seq(Items) /\ Len(text) = t /\ (t = 1 => text[1] = item)
    OBVIOUS
  <2> HIDE DEF item, text, line
  <2> QED
    BY <2>1, <2>2
<1>9. last \in Seq(Items) /\ Len(last) = 1 /\ last[1] = Prompt
  <2> DEFINE item == Prompt
  <2>1. item \in Items /\ last = <<item>>
    BY <1>6
  <2> SUFFICES last \in Seq(Items) /\ Len(last) = 1 /\ last[1] = item
    OBVIOUS
  <2> HIDE DEF item, last
  <2> QED
    BY <2>1
<1>10. old = stream /\ line = typed[1].line
  OBVIOUS
<1>11. e \in 0..1 /\ t \in 0..1
  OBVIOUS
<1> HIDE DEF old, echo, text, last, line
<1>12. Cat(old, echo) \in Seq(Items) /\ Joined(Cat(old, echo), old, echo)
  BY <1>1, <1>7, CatForm
<1>13. /\ Cat(Cat(old, echo), text) \in Seq(Items)
       /\ Joined(Cat(Cat(old, echo), text), Cat(old, echo), text)
  BY <1>12, <1>8, CatForm
<1>14. /\ Cat(Cat(Cat(old, echo), text), last) \in Seq(Items)
       /\ Joined(Cat(Cat(Cat(old, echo), text), last), Cat(Cat(old, echo), text), last)
  BY <1>13, <1>9, CatForm
<1>15. ASSUME link # "closed"
       PROVE  /\ stream' \in Seq(Items) /\ Len(stream) \in Nat
              /\ Len(stream') = Len(stream) + e + t + 1
              /\ \A p \in 1..Len(stream) : stream'[p] = stream[p]
              /\ e = 1 => stream'[Len(stream) + 1] = Echo(typed[1].line)
              /\ t = 1 => stream'[Len(stream) + e + 1] = Text(typed[1].line)
              /\ stream'[Len(stream) + e + t + 1] = Prompt
  <2> DEFINE a == Cat(old, echo)
             b == Cat(a, text)
             l == Len(stream)
  <2>1. stream' = Cat(b, last)
    BY <1>5, <1>15
  <2>2. stream' \in Seq(Items) /\ Joined(stream', b, last) /\ Joined(b, a, text) /\ Joined(a, stream, echo)
    BY <1>10, <1>12, <1>13, <1>14, <2>1
  <2> HIDE DEF a, b
  <2>3. /\ l \in Nat /\ Len(a) = l + e /\ Len(b) = l + e + t /\ Len(stream') = l + e + t + 1
    BY <2>2, <1>7, <1>8, <1>9, <1>11 DEF Joined
  <2>4. \A p \in 1..l + e : stream'[p] = a[p]
    BY <2>2, <2>3, <1>11 DEF Joined
  <2>5. \A p \in 1..l : stream'[p] = stream[p]
    BY <2>2, <2>3, <2>4, <1>11 DEF Joined
  <2>6. e = 1 => stream'[l + 1] = Echo(line)
    <3> SUFFICES ASSUME e = 1 PROVE stream'[l + 1] = Echo(line)
      OBVIOUS
    <3>1. 1 \in 1..Len(echo) /\ l + 1 \in 1..l + e
      BY <1>7, <2>3
    <3>2. a[l + 1] = echo[1]
      BY <2>2, <3>1 DEF Joined
    <3> QED
      BY <1>7, <2>4, <3>1, <3>2
  <2>7. t = 1 => stream'[l + e + 1] = Text(line)
    <3> SUFFICES ASSUME t = 1 PROVE stream'[l + e + 1] = Text(line)
      OBVIOUS
    <3>1. 1 \in 1..Len(text) /\ l + e + 1 \in 1..Len(b)
      BY <1>8, <1>11, <2>3
    <3>2. b[Len(a) + 1] = text[1]
      BY <2>2, <3>1 DEF Joined
    <3>3. stream'[l + e + 1] = b[l + e + 1]
      BY <2>2, <3>1 DEF Joined
    <3> QED
      BY <1>8, <2>3, <3>2, <3>3
  <2>8. stream'[l + e + t + 1] = Prompt
    <3>1. 1 \in 1..Len(last)
      BY <1>9
    <3>2. stream'[Len(b) + 1] = last[1]
      BY <2>2, <3>1 DEF Joined
    <3> QED
      BY <1>9, <2>3, <3>2
  <2> QED
    BY <1>10, <2>2, <2>3, <2>5, <2>6, <2>7, <2>8
<1>16. link = "closed" => stream' = stream
  BY <1>5
<1> QED
  BY <1>1, <1>2, <1>3, <1>15, <1>16

\* The output of the j-th command is in what has been read when n more items are.
ReadOf(n, j) == Text(Cmd(j)) \in buf \/ \E k \in 1..n : stream[k] = Text(Cmd(j))

\* What was read has been answered, or is still in the buffer.
Moved(n) ==
  /\ n \in 0..Len(stream)
  /\ stream' \in Seq(Items)
  /\ answered \subseteq answered' /\ answered' \subseteq 1..N
  /\ buf' \subseteq Items
  /\ \A j \in 1..N : ReadOf(n, j) => j \in answered' \/ Text(Cmd(j)) \in buf'

\* The first n items are off the stream.
Shifted(n) ==
  /\ Len(stream') = Len(stream) - n
  /\ \A p \in 1..Len(stream') : stream'[p] = stream[p + n]

\* The wait is over.
Onward ==
  /\ buf' = {}
  /\ \/ cur < N /\ cur' = cur + 1 /\ pc' = "ready" /\ link' = link
     \/ cur = N /\ cur' = cur /\ pc' = "done" /\ link' = "closed" /\ stream' = <<>>

\* The wait goes on.
Reads(n) ==
  /\ pc' = "waiting" /\ cur' = cur /\ gaveup' = gaveup /\ answered' = answered /\ link' = link
  /\ Shifted(n)
  /\ ~Found(buf)'

\* The wait ends with its marker.
Finds(n) ==
  /\ Onward /\ gaveup' = gaveup
  /\ cur < N => Shifted(n)
  /\ \E k \in 1..n : stream[k] \in Marker(kind, cur)

\* The empty stream.
LEMMA NothingRead == <<>> \in Seq(Items)
  OBVIOUS

\* A recv takes some items off the stream, and the wait goes on or ends with its marker.
LEMMA ReceiveForm ==
  ASSUME TypeInv, Receive
  PROVE  \E n \in 0..Len(stream) : Moved(n) /\ (Reads(n) \/ Finds(n))
<1>1. /\ stream \in Seq(Items) /\ cur \in 0..N /\ N \in Nat /\ buf \subseteq Items /\ answered \subseteq 1..N
      /\ ~Found(buf) /\ pc = "waiting"
  BY SessionAssumption DEF TypeInv, Receive
<1>2. PICK n \in 1..Len(stream) :
       LET read == buf \cup ToSet(SubSeq(stream, 1, n))
           rest == SubSeq(stream, n + 1, Len(stream))
       IN  \/ /\ Found(read)
              /\ Return(read, rest)
           \/ /\ n = 1
              /\ ~Found(read)
              /\ buf' = read
              /\ stream' = rest
              /\ UNCHANGED <<answered, cur, pc, link>>
  BY DEF Receive
<1> DEFINE read == buf \cup ToSet(SubSeq(stream, 1, n))
           rest == SubSeq(stream, n + 1, Len(stream))
<1>3. Len(stream) \in Nat /\ n \in 0..Len(stream)
  BY <1>1
<1>4. /\ rest \in Seq(Items) /\ Len(rest) = Len(stream) - n
      /\ \A p \in 1..Len(rest) : rest[p] = stream[p + n]
      /\ read = buf \cup {stream[k] : k \in 1..n}
  BY <1>1, <1>3, SplitForm
<1>5. \/ Found(read) /\ Return(read, rest)
      \/ ~Found(read) /\ buf' = read /\ stream' = rest /\ UNCHANGED <<answered, cur, pc, link>>
  BY <1>2
<1> HIDE DEF read, rest
<1>6. \A j \in 1..N : ReadOf(n, j) => Text(Cmd(j)) \in read
  BY <1>4 DEF ReadOf
<1>7. \A k \in 1..n : stream[k] \in Items
  BY <1>1, <1>3
<1>8. read \subseteq Items
  BY <1>1, <1>4, <1>7
<1>9. gaveup' = gaveup /\ kind' = kind /\ same' = same
  BY DEF Receive
<1>10. CASE Found(read) /\ Return(read, rest)
  <2>1. answered' = answered \cup {i \in 1..N : Text(Cmd(i)) \in read} /\ buf' = {}
    BY <1>10 DEF Return
  <2>2. stream' = rest \/ stream' = <<>>
    BY <1>10 DEF Return
  <2>3. stream' \in Seq(Items)
    BY <1>4, <2>2, NothingRead
  <2>4. Moved(n)
    BY <1>1, <1>3, <1>6, <2>1, <2>3 DEF Moved
  <2>5. Onward /\ (cur < N => stream' = rest)
    BY <1>1, <1>10, <2>1 DEF Return, Onward
  <2>6. cur < N => Shifted(n)
    BY <1>4, <2>5 DEF Shifted
  <2>7. \E k \in 1..n : stream[k] \in Marker(kind, cur)
    BY <1>1, <1>4, <1>10 DEF Found
  <2> QED
    BY <1>3, <1>9, <2>4, <2>5, <2>6, <2>7 DEF Finds
<1>11. CASE ~Found(read) /\ buf' = read /\ stream' = rest /\ UNCHANGED <<answered, cur, pc, link>>
  <2>1. Moved(n)
    BY <1>1, <1>3, <1>4, <1>6, <1>8, <1>11 DEF Moved
  <2>2. Shifted(n)
    BY <1>4, <1>11 DEF Shifted
  <2>3. ~Found(buf)'
    BY <1>9, <1>11 DEF Found, Marker, TokenMarker, Alike
  <2> QED
    BY <1>1, <1>3, <1>9, <1>11, <2>1, <2>2, <2>3 DEF Reads
<1> QED
  BY <1>5, <1>10, <1>11

\* The wait ends without its marker.
GivesUp == gaveup' = gaveup \cup {cur} /\ Onward /\ (cur < N => stream' = stream)

\* A wait that ends without its marker takes nothing off the stream.
LEMMA GiveUpForm ==
  ASSUME TypeInv, GiveUp
  PROVE  Moved(0) /\ GivesUp /\ (cur < N => Shifted(0))
<1>1. /\ stream \in Seq(Items) /\ cur \in 0..N /\ N \in Nat /\ buf \subseteq Items /\ answered \subseteq 1..N
      /\ Len(stream) \in Nat /\ pc = "waiting"
  BY SessionAssumption DEF TypeInv, GiveUp
<1>2. Return(buf, stream) /\ gaveup' = gaveup \cup {cur}
  BY DEF GiveUp
<1>3. answered' = answered \cup {i \in 1..N : Text(Cmd(i)) \in buf} /\ buf' = {}
  BY <1>2 DEF Return
<1>4. Onward /\ (cur < N => stream' = stream) /\ (stream' = stream \/ stream' = <<>>)
  BY <1>1, <1>2, <1>3 DEF Return, Onward
<1>5. stream' \in Seq(Items)
  BY <1>1, <1>4, NothingRead
<1>6. \A j \in 1..N : ReadOf(0, j) => Text(Cmd(j)) \in buf
  BY DEF ReadOf
<1>7. Moved(0)
  <2>1. 0 \in 0..Len(stream)
    BY <1>1
  <2>2. answered \subseteq answered' /\ answered' \subseteq 1..N /\ buf' \subseteq Items
    BY <1>1, <1>3
  <2>3. \A j \in 1..N : ReadOf(0, j) => j \in answered'
    BY <1>3, <1>6
  <2> QED
    BY <1>5, <2>1, <2>2, <2>3 DEF Moved
<1>8. cur < N => Shifted(0)
  BY <1>1, <1>4 DEF Shifted
<1> QED
  BY <1>2, <1>4, <1>7, <1>8 DEF GivesUp

\* The session starts well typed.
LEMMA InitTyped == ASSUME Init PROVE TypeInv
<1>1. typed \in Seq(TypedLine) /\ stream \in Seq(Items)
  BY NothingRead DEF Init
<1>2. gaveup \subseteq Waited /\ cur \in 0..N /\ answered \subseteq 1..N
  BY SessionAssumption DEF Init, Waited
<1>3. kind \in {"split", "token", "prompt"}
  BY SessionAssumption DEF Init
<1> QED
  BY <1>1, <1>2, <1>3 DEF Init, TypeInv

\* A step that ends a wait keeps the types.
LEMMA OnwardTyped ==
  ASSUME TypeInv, pc = "waiting", kind' = kind, early' = early, same' = same, typed' = typed, Onward,
         stream' \in Seq(Items), answered' \subseteq 1..N, gaveup' \subseteq gaveup \cup {cur}
  PROVE  TypeInv'
<1>1. /\ kind \in {"split", "token", "prompt"} /\ early \subseteq 1..N /\ same \subseteq 1..N /\ typed \in Seq(TypedLine)
      /\ cur \in 0..N /\ N \in Nat /\ gaveup \subseteq 0..cur - 1 /\ buf' = {}
      /\ link \in {"open", "broken"}
  BY SessionAssumption DEF TypeInv, Waited, Onward
<1>2. CASE cur < N /\ cur' = cur + 1 /\ pc' = "ready" /\ link' = link
  <2>1. gaveup' \subseteq Waited' /\ cur' \in 0..N
    BY <1>1, <1>2 DEF Waited
  <2> QED
    BY <1>1, <1>2, <2>1 DEF TypeInv
<1>3. CASE cur = N /\ cur' = cur /\ pc' = "done" /\ link' = "closed" /\ stream' = <<>>
  <2>1. gaveup' \subseteq Waited' /\ cur' \in 0..N
    BY <1>1, <1>3 DEF Waited
  <2> QED
    BY <1>1, <1>3, <2>1 DEF TypeInv
<1> QED
  BY <1>2, <1>3 DEF Onward

\* The token taken for a command is its own, or that of the command before it.
LEMMA TakenTyped ==
  ASSUME TypeInv, TakeToken
  PROVE  /\ same' \subseteq 1..N
         /\ same' = same \/ (same' = same \cup {cur} /\ cur > 1 /\ cur - 1 \notin gaveup)
<1>1. cur \in 0..N /\ N \in Nat /\ same \subseteq 1..N
  BY SessionAssumption DEF TypeInv
<1>2. same' = same \/ (same' = same \cup {cur} /\ cur > 1 /\ cur - 1 \notin gaveup)
  BY DEF TakeToken
<1>3. cur > 1 => cur \in 1..N
  BY <1>1
<1>4. CASE same' = same
  BY <1>1, <1>4
<1>5. CASE same' = same \cup {cur} /\ cur > 1 /\ cur - 1 \notin gaveup
  <2>1. same' \subseteq 1..N
    BY <1>1, <1>3, <1>5
  <2> QED
    BY <1>5, <2>1
<1> QED
  BY <1>2, <1>4, <1>5

\* Every step keeps the types.
LEMMA TypeStep == ASSUME TypeInv, [Next]_vars PROVE TypeInv'
<1> USE DEF toolVars
<1>1. CASE Send
  <2>1. typed' \in Seq(TypedLine)
    BY <1>1, SendForm
  <2>2. ~Found(buf)' /\ Waited' = Waited
    BY <1>1 DEF Send, Wait, Found, Waited
  <2>3. same' \subseteq 1..N
    BY <1>1, TakenTyped DEF Send, Wait
  <2> QED
    BY <1>1, <2>1, <2>2, <2>3 DEF TypeInv, Send, Wait
<1>2. CASE SendIntoTheVoid
  <2>2. ~Found(buf)' /\ Waited' = Waited
    BY <1>2 DEF SendIntoTheVoid, Wait, Found, Waited
  <2>3. same' \subseteq 1..N
    BY <1>2, TakenTyped DEF SendIntoTheVoid, Wait
  <2> QED
    BY <1>2, <2>2, <2>3 DEF TypeInv, SendIntoTheVoid, Wait
<1>3. CASE SendRaises
  <2>2. Waited' = Waited
    BY <1>3 DEF SendRaises, Waited
  <2> QED
    BY <1>3, <2>2 DEF TypeInv, SendRaises
<1>4. CASE Receive
  <2>1. PICK n \in 0..Len(stream) : Moved(n) /\ (Reads(n) \/ Finds(n))
    BY <1>4, ReceiveForm
  <2>2. /\ pc = "waiting" /\ kind' = kind /\ early' = early /\ same' = same /\ typed' = typed
        /\ gaveup' = gaveup
    BY <1>4 DEF Receive
  <2>3. stream' \in Seq(Items) /\ answered' \subseteq 1..N /\ buf' \subseteq Items
    BY <2>1 DEF Moved
  <2>4. CASE Reads(n)
    <3>1. Waited' = Waited /\ ~Found(buf)'
      BY <2>2, <2>4 DEF Reads, Waited
    <3> QED
      BY <2>2, <2>3, <2>4, <3>1 DEF TypeInv, Reads
  <2>5. CASE Finds(n)
    BY <2>2, <2>3, <2>5, OnwardTyped DEF Finds
  <2> QED
    BY <2>1, <2>4, <2>5
<1>5. CASE GiveUp
  <2>1. Moved(0) /\ GivesUp
    BY <1>5, GiveUpForm
  <2>2. pc = "waiting" /\ kind' = kind /\ early' = early /\ same' = same /\ typed' = typed
    BY <1>5 DEF GiveUp
  <2> QED
    BY <2>1, <2>2, OnwardTyped DEF Moved, GivesUp
<1>6. CASE EchoAtArrival
  <2>1. typed' \in Seq(TypedLine) /\ stream' \in Seq(Items)
    BY <1>6, EchoForm
  <2>2. kind' = kind /\ pc' = pc /\ link' = link /\ cur' = cur /\ buf' = buf /\ answered' = answered
        /\ gaveup' = gaveup /\ link = "open" /\ early' \subseteq 1..N /\ same' = same
    BY <1>6 DEF EchoAtArrival, TypeInv
  <2>3. Waited' = Waited /\ Found(buf)' = Found(buf)
    BY <2>2 DEF Waited, Found, Marker, TokenMarker, Alike
  <2> QED
    BY <2>1, <2>2, <2>3 DEF TypeInv
<1>7. CASE Shell
  <2>1. typed' \in Seq(TypedLine) /\ (link = "closed" => stream' = stream) /\ stream' \in Seq(Items)
    <3> DEFINE e == IF typed[1].echoed THEN 0 ELSE 1
               t == IF typed[1].line = Ps1 THEN 0 ELSE 1
    <3>1. /\ typed' \in Seq(TypedLine)
          /\ link = "closed" => stream' = stream
          /\ link # "closed" => stream' \in Seq(Items)
      BY <1>7, ShellForm
    <3> QED
      BY <3>1 DEF TypeInv
  <2>2. kind' = kind /\ pc' = pc /\ link' = link /\ cur' = cur /\ buf' = buf /\ answered' = answered
        /\ gaveup' = gaveup /\ early' = early /\ same' = same
    BY <1>7 DEF Shell
  <2>3. Waited' = Waited /\ Found(buf)' = Found(buf)
    BY <2>2 DEF Waited, Found, Marker, TokenMarker, Alike
  <2> QED
    BY <2>1, <2>2, <2>3 DEF TypeInv
<1>8. CASE Break
  <2>1. PICK n \in 0..Len(stream) : stream' = SubSeq(stream, 1, n)
    BY <1>8 DEF Break
  <2>2. typed' \in Seq(TypedLine) /\ stream' \in Seq(Items)
    BY <1>8, <2>1, SplitForm DEF Break, TypeInv
  <2>3. kind' = kind /\ pc' = pc /\ cur' = cur /\ buf' = buf /\ answered' = answered
        /\ gaveup' = gaveup /\ early' = early /\ same' = same /\ link = "open" /\ link' = "broken"
    BY <1>8 DEF Break
  <2>4. Waited' = Waited /\ Found(buf)' = Found(buf)
    BY <2>3 DEF Waited, Found, Marker, TokenMarker, Alike
  <2> QED
    BY <2>2, <2>3, <2>4 DEF TypeInv
<1>9. CASE HangUp
  <2>1. typed' \in Seq(TypedLine)
    BY <1>9 DEF HangUp
  <2>3. kind' = kind /\ pc' = pc /\ cur' = cur /\ buf' = buf /\ answered' = answered
        /\ gaveup' = gaveup /\ early' = early /\ same' = same /\ link' = link /\ stream' = stream
    BY <1>9 DEF HangUp
  <2>4. Waited' = Waited /\ Found(buf)' = Found(buf)
    BY <2>3 DEF Waited, Found, Marker, TokenMarker, Alike
  <2> QED
    BY <2>1, <2>3, <2>4 DEF TypeInv
<1>10. CASE UNCHANGED vars
  BY <1>10 DEF TypeInv, vars, Waited, Found, Marker, PromptMarker, TokenMarker, SplitMarker, Alike
<1> QED
  BY <1>1, <1>2, <1>3, <1>4, <1>5, <1>6, <1>7, <1>8, <1>9, <1>10 DEF Next, ToolStep

-----------------------------------------------------------------------------
(* The session: markers of their own.                                      *)

\* The i-th marker is nowhere before its line is taken.
Sure(i) == kind = "split" \/ (kind = "token" /\ i \notin early)

\* The items that hold the i-th marker.
IsMark(i, item) == item = Text(Mark(i)) \/ (kind = "token" /\ item = Echo(Mark(i)))

\* The output of the j-th command has been read, or is to be read before the p-th item
\* under way.
ReadBefore(j, p) ==
  j \in answered \/ Text(Cmd(j)) \in buf \/ \E q \in 1..p - 1 : stream[q] = Text(Cmd(j))

\* It has been read or is under way.
Under(j) == ReadBefore(j, Len(stream) + 1)

\* It is, or it is to be printed before the p-th line waiting for the shell is taken.
Comes(j, p) == Under(j) \/ \E q \in 1..p - 1 : typed[q].line = Cmd(j)

\* The j-th command has been sent.
SentOff(j) == j < cur \/ (j = cur /\ pc = "waiting")

MarksLate ==
  \A p \in 1..Len(stream), i \in 1..N :
    (Sure(i) /\ IsMark(i, stream[p])) => \A j \in 1..i : ReadBefore(j, p)

MarkLinesLate ==
  (kind # "prompt" /\ link = "open") =>
    \A p \in 1..Len(typed), i \in 1..N : typed[p].line = Mark(i) => \A j \in 1..i : Comes(j, p)

NothingLost ==
  (kind # "prompt" /\ link = "open") => \A j \in 1..N : SentOff(j) => Comes(j, Len(typed) + 1)

MarkersHold == MarksLate /\ MarkLinesLate /\ NothingLost

\* What is read before an item stays so when items in front of it are taken off.
LEMMA MovedRead ==
  ASSUME TypeInv, NEW n, Moved(n), Shifted(n), NEW j \in 1..N,
         NEW p \in 1..Len(stream') + 1, ReadBefore(j, p + n)
  PROVE  ReadBefore(j, p)'
<1>1. n \in Nat /\ n <= Len(stream) /\ Len(stream) \in Nat /\ Len(stream') = Len(stream) - n
      /\ \A k \in 1..Len(stream') : stream'[k] = stream[k + n]
  BY DEF TypeInv, Moved, Shifted
<1>2. CASE j \in answered \/ ReadOf(n, j)
  BY <1>2 DEF Moved, ReadBefore
<1>3. CASE ~(j \in answered \/ ReadOf(n, j))
  <2> DEFINE r == p + n
  <2>0. ReadBefore(j, r)
    OBVIOUS
  <2>1. PICK q \in 1..r - 1 : stream[q] = Text(Cmd(j))
    <3> HIDE DEF r
    <3>1. j \notin answered /\ Text(Cmd(j)) \notin buf
      BY <1>3 DEF ReadOf
    <3> QED
      BY <3>1, <2>0 DEF ReadBefore
  <2>2. q > n
    BY <1>1, <1>3, <2>1 DEF ReadOf
  <2>3. q - n \in 1..p - 1 /\ (q - n) + n = q /\ q - n \in 1..Len(stream')
    BY <1>1, <2>2
  <2>4. stream'[q - n] = Text(Cmd(j))
    BY <1>1, <2>1, <2>3
  <2> QED
    BY <2>3, <2>4 DEF ReadBefore
<1> QED
  BY <1>2, <1>3

\* The stream only grows.
Longer ==
  /\ buf' = buf /\ answered' = answered
  /\ Len(stream') \in Nat /\ Len(stream') >= Len(stream)
  /\ \A p \in 1..Len(stream) : stream'[p] = stream[p]

\* What is read before an item stays so when the stream grows.
LEMMA LongerRead ==
  ASSUME TypeInv, Longer, NEW j, NEW p \in 1..Len(stream) + 1, NEW q \in Nat, q >= p, ReadBefore(j, p)
  PROVE  ReadBefore(j, q)'
<1>1. Len(stream) \in Nat
  BY DEF TypeInv
<1>2. \A k \in 1..p - 1 : k \in 1..q - 1 /\ k \in 1..Len(stream)
  BY <1>1
<1> QED
  BY <1>2 DEF ReadBefore, Longer

\* What is under way stays so when the stream grows.
LEMMA LongerUnder ==
  ASSUME TypeInv, Longer, NEW j, Under(j)
  PROVE  Under(j)'
<1>1. Len(stream) \in Nat /\ Len(stream) + 1 \in 1..Len(stream) + 1
      /\ Len(stream') + 1 \in Nat /\ Len(stream') + 1 >= Len(stream) + 1
  BY DEF TypeInv, Longer
<1>2. ReadBefore(j, Len(stream) + 1)
  BY DEF Under
<1>3. \A q : q \in Nat /\ q >= Len(stream) + 1 => ReadBefore(j, q)'
  BY <1>1, <1>2, LongerRead
<1>4. ReadBefore(j, Len(stream) + 1)'
  BY <1>1, <1>3 DEF ReadBefore
<1> QED
  BY <1>4 DEF Under

\* Only the line of the i-th marker prints it.
LEMMA MarkNames ==
  ASSUME NEW i, NEW line
  PROVE  /\ ~IsMark(i, Prompt)
         /\ IsMark(i, Text(line)) => line = Mark(i)
         /\ IsMark(i, Echo(line)) => kind = "token" /\ line = Mark(i)
  BY ItemNames DEF IsMark

\* The argument about the markers holds at first.
LEMMA InitMarkers == ASSUME Init PROVE MarkersHold
<1>1. Len(stream) = 0 /\ Len(typed) = 0
  BY DEF Init
<1>2. \A j \in 1..N : ~SentOff(j)
  BY SessionAssumption DEF Init, SentOff
<1> QED
  BY <1>1, <1>2 DEF MarkersHold, MarksLate, MarkLinesLate, NothingLost

\* A step that reads keeps the argument about the markers, whether it ends the wait or not.
LEMMA ReadMarkers ==
  ASSUME TypeInv, MarkersHold, NEW n, Moved(n), kind' = kind, early' = early, typed' = typed,
         pc = "waiting",
         \/ Reads(n)
         \/ Onward /\ (cur < N => Shifted(n))
  PROVE  MarkersHold'
<1>1. cur \in 0..N /\ N \in Nat /\ n \in Nat /\ Len(stream) \in Nat
  BY SessionAssumption DEF TypeInv, Moved
<1>2. \A i : Sure(i)' = Sure(i) /\ \A item : IsMark(i, item)' = IsMark(i, item)
  BY DEF Sure, IsMark
<1>3. CASE Shifted(n) /\ link' = link /\ \A j \in 1..N : SentOff(j)' => SentOff(j)
  <2>1. Len(stream') \in Nat /\ Len(stream) = Len(stream') + n
    BY <1>1, <1>3 DEF Moved, Shifted
  <2>2. ASSUME NEW p \in 1..Len(stream'), NEW i \in 1..N, Sure(i), IsMark(i, stream'[p]),
               NEW j \in 1..i
        PROVE  ReadBefore(j, p)'
    <3>1. p + n \in 1..Len(stream) /\ j \in 1..N /\ p \in 1..Len(stream') + 1
      BY <1>1, <2>1
    <3>2. stream'[p] = stream[p + n]
      BY <1>3 DEF Shifted
    <3>3. ReadBefore(j, p + n)
      BY <2>2, <3>1, <3>2 DEF MarkersHold, MarksLate
    <3> QED
      BY <1>3, <3>1, <3>3, MovedRead
  <2>3. ASSUME NEW j \in 1..N, Under(j)
        PROVE  Under(j)'
    <3>1. Len(stream') + 1 \in 1..Len(stream') + 1 /\ Len(stream) + 1 = (Len(stream') + 1) + n
      BY <1>1, <2>1
    <3>2. ReadBefore(j, (Len(stream') + 1) + n)
      BY <2>3, <3>1 DEF Under
    <3>3. \A p \in 1..Len(stream') + 1 : ReadBefore(j, p + n) => ReadBefore(j, p)'
      BY <1>3, MovedRead
    <3>4. ReadBefore(j, Len(stream) + 1)'
      BY <3>1, <3>2, <3>3 DEF ReadBefore
    <3> QED
      BY <3>4 DEF Under
  <2>4. \A j \in 1..N, p \in Nat : Comes(j, p) => Comes(j, p)'
    BY <2>3 DEF Comes
  <2>5. MarksLate'
    BY <1>2, <2>2 DEF MarksLate
  <2>6. MarkLinesLate'
    <3>1. \A i \in 1..N : \A j \in 1..i : j \in 1..N
      BY <1>1
    <3> QED
      BY <1>2, <1>3, <2>4, <3>1 DEF MarkLinesLate, MarkersHold
  <2>7. NothingLost'
    <3>1. Len(typed) + 1 \in Nat
      BY DEF TypeInv
    <3> QED
      BY <1>2, <1>3, <2>4, <3>1 DEF NothingLost, MarkersHold
  <2> QED
    BY <2>5, <2>6, <2>7 DEF MarkersHold
<1>4. CASE Reads(n)
  <2>1. \A j \in 1..N : SentOff(j)' => SentOff(j)
    BY <1>4 DEF Reads, SentOff
  <2> QED
    BY <1>3, <1>4, <2>1 DEF Reads
<1>5. CASE cur < N /\ cur' = cur + 1 /\ pc' = "ready" /\ link' = link /\ Shifted(n)
  <2>1. \A j \in 1..N : SentOff(j)' => SentOff(j)
    BY <1>1, <1>5 DEF SentOff
  <2> QED
    BY <1>3, <1>5, <2>1 DEF SentOff
<1>6. CASE link' = "closed" /\ stream' = <<>>
  BY <1>6 DEF MarkersHold, MarksLate, MarkLinesLate, NothingLost
<1> QED
  BY <1>1, <1>4, <1>5, <1>6 DEF Onward

\* To send the next command and its marker keeps the argument.
LEMMA SendMarkers ==
  ASSUME TypeInv, MarkersHold, Send
  PROVE  MarkersHold'
<1>1. cur \in 0..N /\ N \in Nat /\ typed \in Seq(TypedLine) /\ Len(typed) \in Nat
  BY SessionAssumption DEF TypeInv
<1>2. /\ \A p \in 1..Len(typed) : typed'[p] = typed[p]
      /\ kind = "prompt" \/ cur = 0 =>
           Len(typed') = Len(typed) + 1 /\ typed'[Len(typed) + 1] = Fresh(LineNo(cur))
      /\ kind # "prompt" /\ cur # 0 =>
           /\ Len(typed') = Len(typed) + 2
           /\ typed'[Len(typed) + 1] = Fresh(Cmd(cur))
           /\ typed'[Len(typed) + 2] = Fresh(Mark(cur))
  BY SendForm
<1>3. /\ kind' = kind /\ early' = early /\ stream' = stream /\ link' = link /\ cur' = cur
      /\ answered' = answered /\ buf' = {} /\ pc' = "waiting" /\ pc = "ready" /\ link = "open"
      /\ buf = {}
  BY DEF Send, Wait, TypeInv
<1>4. \A j, p : ReadBefore(j, p)' <=> ReadBefore(j, p)
  BY <1>3 DEF ReadBefore
<1>5. \A j : Under(j)' <=> Under(j)
  BY <1>3 DEF Under, ReadBefore
<1>6. ASSUME NEW j, NEW p \in 1..Len(typed) + 1, NEW q \in Nat, q >= p, Comes(j, p)
      PROVE  Comes(j, q)'
  <2>0. \A k \in 1..p - 1 : k \in 1..q - 1 /\ k \in 1..Len(typed)
    BY <1>1, <1>6
  <2>1. \A k \in 1..p - 1 : k \in 1..q - 1 /\ typed'[k].line = typed[k].line
    BY <1>2, <2>0
  <2> QED
    BY <1>5, <1>6, <2>1 DEF Comes
<1>7. MarksLate'
  BY <1>3, <1>4 DEF MarkersHold, MarksLate, Sure, IsMark
<1>8. MarkLinesLate' /\ NothingLost'
  <2> SUFFICES ASSUME kind # "prompt" PROVE MarkLinesLate' /\ NothingLost'
    BY <1>3 DEF MarkLinesLate, NothingLost
  <2>1. kind # "prompt" /\ MarkLinesLate /\ NothingLost
    BY DEF MarkersHold
  <2>2. \A j \in 1..N : j < cur => Comes(j, Len(typed) + 1)
    BY <1>3, <2>1 DEF NothingLost, SentOff
  <2>3. ASSUME NEW j \in 1..N, j < cur, NEW q \in Nat, q >= Len(typed) + 1
        PROVE  Comes(j, q)'
    <3>1. Len(typed) + 1 \in 1..Len(typed) + 1
      BY <1>1
    <3>2. Comes(j, Len(typed) + 1)
      BY <2>2, <2>3
    <3>3. \A p \in 1..Len(typed) + 1 : q >= p /\ Comes(j, p) => Comes(j, q)'
      BY <1>6
    <3> QED
      BY <2>3, <3>1, <3>2, <3>3
  <2>4. ASSUME NEW j \in 1..N, j = cur, NEW q \in Nat, q >= Len(typed) + 2
        PROVE  Comes(j, q)'
    <3>1. Len(typed) + 1 \in 1..q - 1
      BY <1>1, <2>4
    <3>2. typed'[Len(typed) + 1].line = Cmd(j)
      BY <1>2, <2>1, <2>4 DEF Fresh
    <3> QED
      BY <3>1, <3>2 DEF Comes
  <2>5. NothingLost'
    <3> SUFFICES ASSUME NEW j \in 1..N, SentOff(j)' PROVE Comes(j, Len(typed) + 1)'
      BY DEF NothingLost
    <3>2. j < cur \/ (j = cur /\ cur # 0)
      BY <1>1, <1>3 DEF SentOff
    <3>3. ASSUME NEW q, q = Len(typed') + 1
          PROVE  Comes(j, q)'
      <4>1. q \in Nat /\ q >= Len(typed) + 1 /\ (cur # 0 => q >= Len(typed) + 2)
        BY <1>1, <1>2, <2>1, <3>3
      <4> QED
        BY <2>3, <2>4, <3>2, <4>1
    <3> QED
      BY <3>3 DEF Comes
  <2>6. MarkLinesLate'
    <3> SUFFICES ASSUME NEW p \in 1..Len(typed'), NEW i \in 1..N, typed'[p].line = Mark(i),
                        NEW j \in 1..i
                 PROVE  Comes(j, p)'
      BY DEF MarkLinesLate
    <3>0. p \in Nat /\ j \in 1..N
      BY <1>1
    <3>1. CASE p \in 1..Len(typed)
      <4>1. typed[p].line = Mark(i)
        BY <1>2, <3>1
      <4>2. Comes(j, p)
        BY <1>3, <2>1, <3>1, <4>1 DEF MarkLinesLate
      <4>3. p \in 1..Len(typed) + 1 /\ p >= p
        BY <1>1, <3>1
      <4> QED
        BY <1>6, <3>0, <4>2, <4>3
    <3>2. CASE p = Len(typed) + 1
      <4>1. typed'[p].line = LineNo(cur)
        BY <1>2, <2>1, <3>2 DEF Fresh, LineNo
      <4> QED
        BY <4>1, LineNames DEF LineNo
    <3>3. CASE p = Len(typed) + 2 /\ cur # 0
      <4>1. i = cur
        BY <1>2, <2>1, <3>3, LineNames DEF Fresh
      <4>2. CASE j < cur
        BY <1>1, <2>3, <3>0, <3>3, <4>2
      <4>3. CASE j = cur
        BY <1>1, <2>4, <3>0, <3>3, <4>3
      <4> QED
        BY <1>1, <4>1, <4>2, <4>3
    <3> QED
      BY <1>1, <1>2, <2>1, <3>1, <3>2, <3>3
  <2> QED
    BY <2>5, <2>6
<1> QED
  BY <1>7, <1>8 DEF MarkersHold

\* An echo at arrival keeps the argument.
LEMMA EchoMarkers ==
  ASSUME TypeInv, MarkersHold, EchoAtArrival
  PROVE  MarkersHold'
<1>1. PICK n \in 1..Len(typed) :
        /\ Len(typed') = Len(typed)
        /\ \A p \in 1..Len(typed) : typed'[p].line = typed[p].line
        /\ early' = early \cup {i \in 1..N : kind = "token" /\ typed[n].line = Mark(i)}
        /\ stream' \in Seq(Items) /\ Len(stream') = Len(stream) + 1
        /\ \A p \in 1..Len(stream) : stream'[p] = stream[p]
        /\ stream'[Len(stream) + 1] = Echo(typed[n].line)
  BY EchoForm
<1>2. /\ kind' = kind /\ link' = link /\ cur' = cur /\ pc' = pc
      /\ answered' = answered /\ buf' = buf /\ link = "open"
  BY DEF EchoAtArrival, toolVars
<1>3. cur \in 0..N /\ N \in Nat /\ Len(typed) \in Nat /\ Len(stream) \in Nat
  BY SessionAssumption DEF TypeInv
<1>4. Longer
  BY <1>1, <1>2, <1>3 DEF Longer
<1>5. \A j : Under(j) => Under(j)'
  BY <1>4, LongerUnder
<1>6. \A i \in 1..N : Sure(i)' => Sure(i) /\ (kind = "token" => typed[n].line # Mark(i))
  BY <1>1, <1>2 DEF Sure
<1>7. \A i, item : IsMark(i, item)' <=> IsMark(i, item)
  BY <1>2 DEF IsMark
<1>8. \A j : \A p \in 1..Len(typed) + 1 : Comes(j, p) => Comes(j, p)'
  <2> SUFFICES ASSUME NEW j, NEW p \in 1..Len(typed) + 1, Comes(j, p)
               PROVE  Comes(j, p)'
    OBVIOUS
  <2>1. \A q \in 1..p - 1 : typed'[q].line = typed[q].line
    BY <1>1, <1>3
  <2> QED
    BY <1>5, <2>1 DEF Comes
<1>9. MarksLate'
  <2> SUFFICES ASSUME NEW p \in 1..Len(stream'), NEW i \in 1..N, Sure(i)', IsMark(i, stream'[p]),
                      NEW j \in 1..i
               PROVE  ReadBefore(j, p)'
    BY <1>7 DEF MarksLate
  <2>1. CASE p \in 1..Len(stream)
    <3>1. stream'[p] = stream[p] /\ p \in 1..Len(stream) + 1 /\ p \in Nat /\ p >= p
      BY <1>1, <1>3, <2>1
    <3>2. ReadBefore(j, p)
      BY <1>6, <2>1, <3>1 DEF MarkersHold, MarksLate
    <3>3. \A q \in 1..Len(stream) + 1 : ReadBefore(j, q) /\ p >= q => ReadBefore(j, p)'
      BY <1>4, <3>1, LongerRead
    <3> QED
      BY <3>1, <3>2, <3>3
  <2>2. CASE p = Len(stream) + 1
    <3>1. kind = "token" /\ typed[n].line = Mark(i)
      BY <1>1, <2>2, MarkNames
    <3> QED
      BY <1>6, <3>1
  <2> QED
    BY <1>1, <1>3, <2>1, <2>2
<1>10. MarkLinesLate'
  <2>1. \A i \in 1..N : \A j \in 1..i : j \in 1..N
    BY <1>3
  <2>2. \A p \in 1..Len(typed) : p \in 1..Len(typed) + 1
    BY <1>3
  <2> QED
    BY <1>1, <1>2, <1>6, <1>8, <2>1, <2>2 DEF MarkersHold, MarkLinesLate
<1>11. NothingLost'
  <2>1. Len(typed) + 1 \in 1..Len(typed) + 1
    BY <1>3
  <2>2. \A j : Comes(j, Len(typed) + 1) => Comes(j, Len(typed) + 1)'
    <3>1. \A j : Comes(j, Len(typed) + 1)' <=>
                 Under(j)' \/ \E q \in 1..(Len(typed) + 1) - 1 : typed'[q].line = Cmd(j)
      BY <1>1 DEF Comes
    <3>2. \A j : Comes(j, Len(typed) + 1) <=>
                 Under(j) \/ \E q \in 1..(Len(typed) + 1) - 1 : typed[q].line = Cmd(j)
      BY DEF Comes
    <3>3. \A q \in 1..(Len(typed) + 1) - 1 : typed'[q].line = typed[q].line
      BY <1>1, <1>3
    <3> QED
      BY <1>5, <3>1, <3>2, <3>3
  <2>3. \A j : SentOff(j)' <=> SentOff(j)
    BY <1>2 DEF SentOff
  <2> QED
    BY <1>2, <1>6, <2>2, <2>3 DEF MarkersHold, NothingLost
<1> QED
  BY <1>9, <1>10, <1>11 DEF MarkersHold

\* A break of the connection keeps the argument.
LEMMA BreakMarkers ==
  ASSUME TypeInv, MarkersHold, Break
  PROVE  MarkersHold'
<1>1. PICK n \in 0..Len(stream) : stream' = SubSeq(stream, 1, n)
  BY DEF Break
<1>2. Len(stream') = n /\ \A p \in 1..n : stream'[p] = stream[p]
  BY <1>1, SplitForm DEF TypeInv
<1>3. kind' = kind /\ early' = early /\ answered' = answered /\ buf' = buf /\ link' = "broken"
  BY DEF Break, toolVars
<1>4. Len(stream) \in Nat
  BY DEF TypeInv
<1>5. \A j : \A p \in 1..n : ReadBefore(j, p) => ReadBefore(j, p)'
  <2>1. \A p \in 1..n : \A q \in 1..p - 1 : stream'[q] = stream[q]
    BY <1>2, <1>4
  <2> QED
    BY <1>3, <2>1 DEF ReadBefore
<1>6. MarksLate'
  <2>1. \A p \in 1..n : p \in 1..Len(stream)
    BY <1>4
  <2> QED
    BY <1>2, <1>3, <1>5, <2>1 DEF MarkersHold, MarksLate, Sure, IsMark
<1> QED
  BY <1>3, <1>6 DEF MarkersHold, MarkLinesLate, NothingLost

\* A line that the shell takes keeps the argument.
LEMMA ShellMarkers ==
  ASSUME TypeInv, MarkersHold, Shell
  PROVE  MarkersHold'
<1> DEFINE line == typed[1].line
           l == Len(stream)
           m == Len(typed)
<1>1. PICK e, t :
        /\ e = (IF typed[1].echoed THEN 0 ELSE 1) /\ t = (IF typed[1].line = Ps1 THEN 0 ELSE 1)
  OBVIOUS
<1>2. /\ m \in Nat /\ m >= 1
      /\ Len(typed') = m - 1
      /\ \A p \in 1..m - 1 : typed'[p] = typed[p + 1]
      /\ link = "closed" => stream' = stream
      /\ link # "closed" =>
           /\ stream' \in Seq(Items)
           /\ Len(stream') = l + e + t + 1
           /\ \A p \in 1..l : stream'[p] = stream[p]
           /\ e = 1 => stream'[l + 1] = Echo(line)
           /\ t = 1 => stream'[l + e + 1] = Text(line)
           /\ stream'[l + e + t + 1] = Prompt
  BY <1>1, ShellForm, ZenonT(60)
<1>3. /\ kind' = kind /\ early' = early /\ link' = link /\ cur' = cur /\ pc' = pc
      /\ answered' = answered /\ buf' = buf /\ link # "broken"
  BY DEF Shell, toolVars
<1>4. cur \in 0..N /\ N \in Nat /\ l \in Nat /\ e \in 0..1 /\ t \in 0..1
  BY <1>1, SessionAssumption DEF TypeInv
<1>5. CASE link = "closed"
  BY <1>2, <1>3, <1>5 DEF MarkersHold, MarksLate, MarkLinesLate, NothingLost, Sure, IsMark, ReadBefore
<1>6. CASE kind = "prompt"
  BY <1>3, <1>6 DEF MarkersHold, MarksLate, MarkLinesLate, NothingLost, Sure
<1>7. CASE link # "closed" /\ kind # "prompt"
  <2>1. Longer
    BY <1>2, <1>3, <1>4, <1>7 DEF Longer
  <2>2. \A j : Under(j) => Under(j)'
    BY <2>1, LongerUnder
  <2>3. ASSUME NEW j \in 1..N, line = Cmd(j)
        PROVE  Under(j)'
    <3>1. t = 1
      BY <1>1, <2>3, LineNames
    <3>2. stream'[l + e + 1] = Text(Cmd(j)) /\ l + e + 1 \in 1..(Len(stream') + 1) - 1
      BY <1>2, <1>4, <1>7, <2>3, <3>1
    <3> QED
      BY <3>2 DEF Under, ReadBefore
  <2>4. ASSUME NEW j \in 1..N, NEW p \in 1..m, Comes(j, p + 1)
        PROVE  Comes(j, p)'
    <3>1. CASE Under(j)
      BY <2>2, <3>1 DEF Comes
    <3>2. CASE ~Under(j)
      <4> DEFINE r == p + 1
      <4>0. Comes(j, r)
        BY <2>4
      <4>1. PICK q \in 1..r - 1 : typed[q].line = Cmd(j)
        <5> HIDE DEF r
        <5> QED
          BY <3>2, <4>0 DEF Comes
      <4>2. CASE q = 1
        BY <2>3, <4>1, <4>2 DEF Comes
      <4>3. CASE q # 1
        <5>1. q - 1 \in 1..p - 1 /\ q - 1 \in 1..m - 1 /\ (q - 1) + 1 = q
          BY <1>2, <2>4, <4>3
        <5>2. typed'[q - 1].line = Cmd(j)
          BY <1>2, <4>1, <5>1
        <5> QED
          BY <5>1, <5>2 DEF Comes
      <4> QED
        BY <4>2, <4>3
    <3> QED
      BY <3>1, <3>2
  <2>5. \A i, item : IsMark(i, item)' <=> IsMark(i, item)
    BY <1>3 DEF IsMark
  <2>6. link = "open"
    BY <1>3, <1>7 DEF TypeInv
  <2>7. ASSUME NEW i \in 1..N, line = Mark(i), NEW j \in 1..i
        PROVE  Under(j)
    <3>1. 1 \in 1..m /\ Comes(j, 1)
      BY <1>2, <1>7, <2>6, <2>7 DEF MarkersHold, MarkLinesLate
    <3> QED
      BY <3>1 DEF Comes
  <2>8. MarksLate'
    <3> SUFFICES ASSUME NEW p \in 1..Len(stream'), NEW i \in 1..N, Sure(i), IsMark(i, stream'[p]),
                        NEW j \in 1..i
                 PROVE  ReadBefore(j, p)'
      BY <1>3, <2>5 DEF MarksLate, Sure
    <3>0. p \in Nat /\ l + 1 \in 1..l + 1 /\ Len(stream') = l + e + t + 1
      BY <1>2, <1>4, <1>7
    <3>1. \A q \in 1..l + 1 : ReadBefore(j, q) /\ p >= q => ReadBefore(j, p)'
      BY <2>1, <3>0, LongerRead
    <3>2. CASE p \in 1..l
      <4>1. stream'[p] = stream[p] /\ p \in 1..l + 1 /\ p >= p
        BY <1>2, <1>4, <1>7, <3>2
      <4>2. ReadBefore(j, p)
        BY <1>7, <3>2, <4>1 DEF MarkersHold, MarksLate
      <4> QED
        BY <3>1, <4>1, <4>2
    <3>3. CASE p \notin 1..l
      <4>1. p >= l + 1
        BY <1>4, <3>0, <3>3
      <4>2. stream'[p] \in {Echo(line), Text(line), Prompt}
        <5>1. (p = l + 1 /\ e = 1) \/ (p = l + e + 1 /\ t = 1) \/ p = l + e + t + 1
          BY <1>4, <3>0, <4>1
        <5> QED
          BY <1>2, <1>7, <5>1
      <4>3. line = Mark(i)
        <5>1. ~IsMark(i, Prompt)
          BY MarkNames
        <5>2. IsMark(i, Text(line)) => line = Mark(i)
          BY MarkNames
        <5>3. IsMark(i, Echo(line)) => line = Mark(i)
          BY MarkNames
        <5> QED
          BY <4>2, <5>1, <5>2, <5>3
      <4>4. ReadBefore(j, l + 1)
        BY <2>7, <4>3 DEF Under
      <4> QED
        BY <3>0, <3>1, <4>1, <4>4
    <3> QED
      BY <3>2, <3>3
  <2>9. MarkLinesLate'
    <3> SUFFICES ASSUME NEW p \in 1..Len(typed'), NEW i \in 1..N, typed'[p].line = Mark(i),
                        NEW j \in 1..i
                 PROVE  Comes(j, p)'
      BY DEF MarkLinesLate
    <3>1. p + 1 \in 1..m /\ p \in 1..m /\ typed[p + 1].line = Mark(i) /\ j \in 1..N
      BY <1>2, <1>4
    <3>2. Comes(j, p + 1)
      BY <1>7, <2>6, <3>1 DEF MarkersHold, MarkLinesLate
    <3> QED
      BY <2>4, <3>1, <3>2
  <2>10. NothingLost'
    <3> SUFFICES ASSUME NEW j \in 1..N, SentOff(j)'
                 PROVE  Comes(j, Len(typed) + 1)'
      BY DEF NothingLost
    <3>1. SentOff(j)
      BY <1>3 DEF SentOff
    <3>2. Comes(j, m + 1)
      BY <1>7, <2>6, <3>1 DEF MarkersHold, NothingLost
    <3>3. m \in 1..m
      BY <1>2
    <3>4. \A q : q = m => Comes(j, q)'
      BY <2>4, <3>2, <3>3
    <3>5. \A q : q = m => q = Len(typed') + 1
      BY <1>2
    <3> QED
      BY <3>4, <3>5 DEF Comes
  <2> QED
    BY <2>8, <2>9, <2>10 DEF MarkersHold
<1> QED
  BY <1>5, <1>6, <1>7

\* Every step keeps the argument about the markers.
LEMMA MarkersStep == ASSUME TypeInv, MarkersHold, [Next]_vars PROVE MarkersHold'
<1>1. CASE Send
  BY <1>1, SendMarkers
<1>2. CASE SendIntoTheVoid \/ SendRaises
  <2>1. link' = "broken" /\ kind' = kind /\ early' = early /\ stream' = stream /\ answered' = answered
        /\ buf = {} /\ buf' = {}
    BY <1>2 DEF SendIntoTheVoid, SendRaises, Wait, TypeInv
  <2> QED
    BY <2>1 DEF MarkersHold, MarksLate, MarkLinesLate, NothingLost, Sure, IsMark, ReadBefore
<1>3. CASE Receive
  <2>1. PICK n \in 0..Len(stream) : Moved(n) /\ (Reads(n) \/ Finds(n))
    BY <1>3, ReceiveForm
  <2>2. kind' = kind /\ early' = early /\ typed' = typed /\ pc = "waiting"
    BY <1>3 DEF Receive
  <2>3. Reads(n) \/ (Onward /\ (cur < N => Shifted(n)))
    BY <2>1 DEF Finds
  <2> QED
    BY <2>1, <2>2, <2>3, ReadMarkers
<1>4. CASE GiveUp
  <2>1. Moved(0) /\ GivesUp /\ (cur < N => Shifted(0))
    BY <1>4, GiveUpForm
  <2>2. kind' = kind /\ early' = early /\ typed' = typed /\ pc = "waiting"
    BY <1>4 DEF GiveUp
  <2> QED
    BY <2>1, <2>2, ReadMarkers DEF GivesUp
<1>5. CASE EchoAtArrival
  BY <1>5, EchoMarkers
<1>6. CASE Shell
  BY <1>6, ShellMarkers
<1>7. CASE Break
  BY <1>7, BreakMarkers
<1>8. CASE HangUp
  BY <1>8 DEF HangUp, toolVars, MarkersHold, MarksLate, MarkLinesLate, NothingLost, Sure, IsMark, ReadBefore
<1>9. CASE UNCHANGED vars
  BY <1>9 DEF vars, toolVars, MarkersHold, MarksLate, MarkLinesLate, NothingLost, Sure, IsMark,
     ReadBefore, Under, Comes, SentOff
<1> QED
  BY <1>1, <1>2, <1>3, <1>4, <1>5, <1>6, <1>7, <1>8, <1>9 DEF Next, ToolStep

\* The family of the tool never changes, and no early echo and no token is forgotten; the
\* tokens known to be alike change only as the next command is sent.
LEMMA KindKept ==
  ASSUME TypeInv, [Next]_vars
  PROVE  /\ kind' = kind /\ early \subseteq early' /\ same \subseteq same'
         /\ \A i \in same' : i \in same \/ i > Latest
<1>1. CASE Send \/ SendIntoTheVoid
  <2>1. kind' = kind /\ early' = early /\ pc = "ready" /\ TakeToken
    BY <1>1 DEF Send, SendIntoTheVoid, Wait
  <2>2. same' = same \/ same' = same \cup {cur}
    BY <2>1, TakenTyped
  <2>3. cur > Latest
    BY <2>1 DEF Latest, TypeInv
  <2> QED
    BY <2>1, <2>2, <2>3
<1>2. CASE SendRaises \/ Receive \/ GiveUp \/ Shell \/ Break \/ HangUp \/ UNCHANGED vars
  BY <1>2 DEF SendRaises, Receive, GiveUp, Shell, Break, HangUp, vars
<1>3. CASE EchoAtArrival
  <2>1. kind' = kind /\ same' = same
    BY <1>3 DEF EchoAtArrival
  <2>2. early \subseteq early'
    BY <1>3, EchoForm
  <2> QED
    BY <2>1, <2>2
<1> QED
  BY <1>1, <1>2, <1>3 DEF Next, ToolStep

-----------------------------------------------------------------------------
(* The session: tokens that are shared.                                    *)

Going == pc \in {"ready", "waiting"}

\* The last command sent.
LastSent == IF pc = "waiting" THEN cur ELSE cur - 1

\* The commands f..i have one token, that of f, and none of their lines was echoed early.
Grouped(f, i) == f \notin same /\ (f + 1)..i \subseteq same /\ (f..i) \cap early = {}

\* An item that holds the i-th token, and its place among all that do: the shell prints the
\* echo of the line that prints it, then the token.
Shows(i, r, item) ==
  \/ r = 2 * i /\ item = Echo(Mark(i))
  \/ r = 2 * i + 1 /\ item = Text(Mark(i))

\* No token is out that has not been taken.
TokensTaken ==
  /\ \A i \in same : i <= LastSent
  /\ \A p \in 1..Len(stream), i \in 1..N, r \in Nat : Shows(i, r, stream[p]) => i <= LastSent
  /\ \A p \in 1..Len(typed), i \in 1..N : typed[p].line = Mark(i) => i <= LastSent

\* The items and the lines come in the order of the commands, early echoes apart.
ItemsAscend ==
  \A p \in 1..Len(stream), q \in 1..Len(stream), i \in (1..N) \ early, j \in (1..N) \ early,
     r \in Nat, u \in Nat :
    p < q /\ Shows(i, r, stream[p]) /\ Shows(j, u, stream[q]) => r < u

ItemsFirst ==
  \A p \in 1..Len(stream), q \in 1..Len(typed), i \in (1..N) \ early, j \in 1..N, r \in Nat :
    Shows(i, r, stream[p]) /\ typed[q].line = Mark(j) => i < j

LinesAscend ==
  \A p \in 1..Len(typed), q \in 1..Len(typed), i \in 1..N, j \in 1..N :
    p < q /\ typed[p].line = Mark(i) /\ typed[q].line = Mark(j) => i < j

\* Each wait that its token has ended has used up one of the items that show it: what is left
\* of the tokens from f on has its place at or behind f + cur.
Ahead ==
  \A f \in 1..N : f <= LastSent /\ Grouped(f, LastSent) /\ LastSent \notin gaveup =>
    /\ \A p \in 1..Len(stream), i \in f..N, r \in Nat : Shows(i, r, stream[p]) => r >= f + cur
    /\ \A p \in 1..Len(typed), i \in f..N : typed[p].line = Mark(i) => 2 * i >= f + cur

InTurn == TokensTaken /\ ItemsAscend /\ ItemsFirst /\ LinesAscend

TokenOrder == (kind = "token" /\ Going) => InTurn /\ Ahead

\* An item shows at most one token, in one place.
LEMMA ShowsOne ==
  ASSUME NEW i \in Nat, NEW line, NEW r \in Nat
  PROVE  /\ ~Shows(i, r, Prompt)
         /\ Shows(i, r, Echo(line)) => line = Mark(i) /\ r = 2 * i
         /\ Shows(i, r, Text(line)) => line = Mark(i) /\ r = 2 * i + 1
  BY ItemNames DEF Shows

\* The argument about the tokens holds at first.
LEMMA InitTokens == ASSUME Init PROVE TokenOrder
<1>1. Len(stream) = 0 /\ Len(typed) = 0 /\ same = {} /\ LastSent = -1
  BY DEF Init, LastSent
<1>2. TokensTaken /\ ItemsAscend /\ ItemsFirst /\ LinesAscend
  BY <1>1 DEF TokensTaken, ItemsAscend, ItemsFirst, LinesAscend
<1>3. Ahead
  BY <1>1 DEF Ahead
<1> QED
  BY <1>2, <1>3 DEF TokenOrder, InTurn

\* The stream loses items at its ends, and the lines stay or are all dropped.
Shorter(n) ==
  /\ n \in Nat /\ Len(stream') \in Nat /\ Len(stream') + n <= Len(stream)
  /\ \A p \in 1..Len(stream') : stream'[p] = stream[p + n]
  /\ typed' = typed \/ typed' = <<>>
  /\ early' = early

\* That keeps the order.
LEMMA ShorterInTurn ==
  ASSUME TypeInv, InTurn, NEW n, Shorter(n), LastSent \in Int, LastSent' \in Int, LastSent <= LastSent',
         \A i \in same' : i <= LastSent'
  PROVE  InTurn'
<1>1. Len(stream) \in Nat /\ Len(typed) \in Nat /\ N \in Nat
  BY SessionAssumption DEF TypeInv
<1>2. \A p \in 1..Len(stream') : p + n \in 1..Len(stream) /\ stream'[p] = stream[p + n]
  BY <1>1 DEF Shorter
<1>3. \A p \in 1..Len(typed') : p \in 1..Len(typed) /\ typed'[p] = typed[p]
  BY <1>1 DEF Shorter
<1>4. TokensTaken'
  <2>1. ASSUME NEW p \in 1..Len(stream'), NEW i \in 1..N, NEW r \in Nat, Shows(i, r, stream'[p])
        PROVE  i <= LastSent'
    <3>1. i <= LastSent
      BY <1>2, <2>1 DEF InTurn, TokensTaken
    <3> QED
      BY <1>1, <3>1
  <2>2. ASSUME NEW p \in 1..Len(typed'), NEW i \in 1..N, typed'[p].line = Mark(i)
        PROVE  i <= LastSent'
    <3>1. i <= LastSent
      BY <1>3, <2>2 DEF InTurn, TokensTaken
    <3> QED
      BY <1>1, <3>1
  <2> QED
    BY <2>1, <2>2 DEF TokensTaken
<1>5. ItemsAscend'
  <2>1. ASSUME NEW p \in 1..Len(stream'), NEW q \in 1..Len(stream'), p < q,
               NEW i \in (1..N) \ early, NEW j \in (1..N) \ early, NEW r \in Nat, NEW u \in Nat,
               Shows(i, r, stream'[p]), Shows(j, u, stream'[q])
        PROVE  r < u
    <3>1. p + n \in 1..Len(stream) /\ q + n \in 1..Len(stream) /\ p + n < q + n
      BY <1>1, <1>2, <2>1 DEF Shorter
    <3>2. Shows(i, r, stream[p + n]) /\ Shows(j, u, stream[q + n])
      BY <1>2, <2>1
    <3> QED
      BY <3>1, <3>2 DEF InTurn, ItemsAscend
  <2> QED
    BY <2>1 DEF ItemsAscend, Shorter
<1>6. ItemsFirst'
  <2>1. ASSUME NEW p \in 1..Len(stream'), NEW q \in 1..Len(typed'),
               NEW i \in (1..N) \ early, NEW j \in 1..N, NEW r \in Nat,
               Shows(i, r, stream'[p]), typed'[q].line = Mark(j)
        PROVE  i < j
    BY <1>2, <1>3, <2>1 DEF InTurn, ItemsFirst
  <2> QED
    BY <2>1 DEF ItemsFirst, Shorter
<1>7. LinesAscend'
  BY <1>3 DEF InTurn, LinesAscend
<1> QED
  BY <1>4, <1>5, <1>6, <1>7 DEF InTurn

\* A wait that goes on keeps the argument.
LEMMA ReadsTokens ==
  ASSUME TypeInv, TokenOrder, kind = "token", Going, NEW n, Shorter(n),
         pc' = pc, cur' = cur, gaveup' = gaveup, same' = same
  PROVE  InTurn' /\ Ahead'
<1>1. cur \in 0..N /\ N \in Nat /\ Len(stream) \in Nat /\ Len(typed) \in Nat
  BY SessionAssumption DEF TypeInv
<1>2. LastSent' = LastSent /\ LastSent \in Int /\ InTurn /\ Ahead
  BY <1>1 DEF LastSent, TokenOrder
<1>3. \A i \in same' : i <= LastSent'
  BY <1>2 DEF InTurn, TokensTaken
<1>4. InTurn'
  BY <1>2, <1>3, ShorterInTurn
<1>5. \A p \in 1..Len(stream') : p + n \in 1..Len(stream) /\ stream'[p] = stream[p + n]
  BY <1>1 DEF Shorter
<1>6. \A p \in 1..Len(typed') : p \in 1..Len(typed) /\ typed'[p] = typed[p]
  BY <1>1 DEF Shorter
<1>7. \A f : Grouped(f, LastSent)' <=> Grouped(f, LastSent)
  BY <1>2 DEF Grouped, Shorter
<1>8. Ahead'
  <2> SUFFICES ASSUME NEW f \in 1..N, f <= LastSent, Grouped(f, LastSent), LastSent \notin gaveup
               PROVE  /\ \A p \in 1..Len(stream'), i \in f..N, r \in Nat :
                           Shows(i, r, stream'[p]) => r >= f + cur
                      /\ \A p \in 1..Len(typed'), i \in f..N : typed'[p].line = Mark(i) => 2 * i >= f + cur
    BY <1>2, <1>7 DEF Ahead
  <2>1. /\ \A p \in 1..Len(stream), i \in f..N, r \in Nat : Shows(i, r, stream[p]) => r >= f + cur
        /\ \A p \in 1..Len(typed), i \in f..N : typed[p].line = Mark(i) => 2 * i >= f + cur
    BY <1>2 DEF Ahead
  <2> QED
    BY <1>5, <1>6, <2>1
<1> QED
  BY <1>4, <1>8

\* The marker that ends a wait: it shows a token of the group, from its place on.
LEMMA FoundToken ==
  ASSUME TypeInv, TokenOrder, kind = "token", pc = "waiting",
         NEW f \in 1..cur, Grouped(f, cur), NEW k \in 1..Len(stream), stream[k] \in Marker(kind, cur)
  PROVE  \E i \in f..cur, r \in Nat :
           /\ i \in (1..N) \ early
           /\ Shows(i, r, stream[k]) /\ IsMark(i, stream[k])
           /\ r >= f + cur /\ i >= f + (cur - f) \div 2
<1>1. cur \in 1..N /\ N \in Nat /\ f \in 1..N /\ cur \notin gaveup
  BY SessionAssumption DEF TypeInv, Waited
<1>2. LastSent = cur /\ Ahead
  BY DEF LastSent, TokenOrder, Going
<1>3. Marker(kind, cur) = TokenMarker(cur)
  BY <1>1 DEF Marker
<1>4. PICK i \in Alike(cur) : stream[k] = Text(Mark(i)) \/ stream[k] = Echo(Mark(i))
  BY <1>3 DEF TokenMarker
<1>5. i \in 1..cur /\ (i + 1)..cur \subseteq same
  BY <1>4 DEF Alike
<1>6. i >= f
  <2>1. i < f => f \in (i + 1)..cur
    BY <1>1, <1>5
  <2> QED
    BY <1>1, <1>5, <2>1 DEF Grouped
<1>7. i \in f..cur /\ i \in f..N /\ i \in (1..N) \ early
  BY <1>1, <1>5, <1>6 DEF Grouped
<1>8. PICK r \in Nat : Shows(i, r, stream[k]) /\ (r = 2 * i \/ r = 2 * i + 1)
  BY <1>4, <1>7, <1>1 DEF Shows
<1>9. r >= f + cur
  BY <1>1, <1>2, <1>7, <1>8 DEF Ahead
<1>10. i >= f + (cur - f) \div 2
  BY <1>1, <1>5, <1>8, <1>9
<1>11. IsMark(i, stream[k])
  BY <1>4 DEF IsMark
<1> QED
  BY <1>7, <1>8, <1>9, <1>10, <1>11

\* A wait that ends with its marker keeps the argument.
LEMMA FindsTokens ==
  ASSUME TypeInv, TokenOrder, kind = "token", pc = "waiting", NEW n \in 0..Len(stream), Shorter(n),
         pc' = "ready", cur' = cur + 1, gaveup' = gaveup, same' = same, typed' = typed,
         NEW k \in 1..n, stream[k] \in Marker(kind, cur)
  PROVE  InTurn' /\ Ahead'
<1>1. cur \in 0..N /\ N \in Nat /\ Len(stream) \in Nat /\ Len(typed) \in Nat /\ k \in 1..Len(stream)
  BY SessionAssumption DEF TypeInv
<1>2. LastSent' = cur /\ LastSent = cur /\ InTurn
  BY <1>1 DEF LastSent, TokenOrder, Going
<1>3. \A i \in same' : i <= LastSent'
  BY <1>2 DEF InTurn, TokensTaken
<1>4. InTurn'
  BY <1>1, <1>2, <1>3, ShorterInTurn
<1>5. ASSUME NEW f \in 1..cur, Grouped(f, cur)
      PROVE  /\ \A p \in 1..Len(stream'), j \in f..N, u \in Nat :
                  Shows(j, u, stream'[p]) => u >= f + (cur + 1)
             /\ \A p \in 1..Len(typed), j \in f..N : typed[p].line = Mark(j) => 2 * j >= f + (cur + 1)
  <2>1. PICK i \in f..cur, r \in Nat :
          /\ i \in (1..N) \ early
          /\ Shows(i, r, stream[k])
          /\ r >= f + cur /\ i >= f + (cur - f) \div 2
    BY <1>1, <1>5, FoundToken
  <2>2. ASSUME NEW p \in 1..Len(stream'), NEW j \in f..N, NEW u \in Nat, Shows(j, u, stream'[p])
        PROVE  u >= f + (cur + 1)
    <3>1. p + n \in 1..Len(stream) /\ stream'[p] = stream[p + n] /\ k < p + n
      BY <1>1 DEF Shorter
    <3>2. j \in 1..N /\ j <= cur
      BY <1>1, <1>2, <1>5, <2>2, <3>1 DEF InTurn, TokensTaken
    <3>3. j \in (1..N) \ early
      BY <1>5, <2>2, <3>2 DEF Grouped
    <3>4. r < u
      BY <1>1, <1>2, <2>1, <2>2, <3>1, <3>3 DEF InTurn, ItemsAscend
    <3> QED
      BY <1>1, <2>1, <3>4
  <2>3. ASSUME NEW p \in 1..Len(typed), NEW j \in f..N, typed[p].line = Mark(j)
        PROVE  2 * j >= f + (cur + 1)
    <3>1. i < j
      BY <1>1, <1>2, <1>5, <2>1, <2>3 DEF InTurn, ItemsFirst
    <3>2. r <= 2 * i + 1
      BY <2>1 DEF Shows
    <3> QED
      BY <1>1, <2>1, <3>1, <3>2
  <2> QED
    BY <2>2, <2>3
<1>6. Ahead'
  <2>1. \A f : Grouped(f, LastSent)' <=> Grouped(f, cur)
    BY <1>2 DEF Grouped, Shorter
  <2> SUFFICES ASSUME NEW f \in 1..N, f <= cur, Grouped(f, cur)
               PROVE  /\ \A p \in 1..Len(stream'), j \in f..N, u \in Nat :
                           Shows(j, u, stream'[p]) => u >= f + (cur + 1)
                      /\ \A p \in 1..Len(typed), j \in f..N : typed[p].line = Mark(j) => 2 * j >= f + (cur + 1)
    BY <1>2, <2>1 DEF Ahead
  <2> QED
    BY <1>1, <1>5
<1> QED
  BY <1>4, <1>6

\* A command sent, or lost on a broken connection, with the token taken for it.
Adds ==
  /\ Len(typed') \in Nat /\ Len(typed') >= Len(typed)
  /\ \A p \in 1..Len(typed) : typed'[p] = typed[p]
  /\ \A p \in 1..Len(typed') : p > Len(typed) =>
       \/ \A i : typed'[p].line # Mark(i)
       \/ cur >= 1 /\ p = Len(typed) + 2 /\ typed'[p].line = Mark(cur)

LEMMA AddsTokens ==
  ASSUME TypeInv, TokenOrder, kind = "token", pc = "ready", pc' = "waiting", TakeToken, Adds,
         stream' = stream, cur' = cur, gaveup' = gaveup, early' = early
  PROVE  InTurn' /\ Ahead'
<1>1. /\ cur \in 0..N /\ N \in Nat /\ Len(stream) \in Nat /\ Len(typed) \in Nat /\ cur \notin gaveup
      /\ same \subseteq 1..N
  BY SessionAssumption DEF TypeInv, Waited
<1>2. LastSent' = cur /\ LastSent = cur - 1 /\ InTurn /\ Ahead
  BY DEF LastSent, TokenOrder, Going
<1>3. same' = same \/ (same' = same \cup {cur} /\ cur > 1 /\ cur - 1 \notin gaveup)
  BY TakenTyped
<1>4. ASSUME NEW p \in 1..Len(typed'), NEW i \in 1..N, typed'[p].line = Mark(i)
      PROVE  \/ p \in 1..Len(typed) /\ typed[p].line = Mark(i) /\ i < cur
             \/ p = Len(typed) + 2 /\ i = cur
  <2>1. CASE p \in 1..Len(typed)
    <3>1. typed[p].line = Mark(i)
      BY <1>4, <2>1 DEF Adds
    <3>2. i <= cur - 1
      BY <1>2, <2>1, <3>1 DEF InTurn, TokensTaken
    <3> QED
      BY <1>1, <2>1, <3>1, <3>2
  <2>2. CASE p > Len(typed)
    <3>1. p = Len(typed) + 2 /\ typed'[p].line = Mark(cur)
      BY <1>4, <2>2 DEF Adds
    <3> QED
      BY <1>4, <3>1, LineNames
  <2> QED
    BY <1>1, <2>1, <2>2 DEF Adds
<1>5. \A p \in 1..Len(stream), i \in 1..N, r \in Nat : Shows(i, r, stream[p]) => i < cur
  BY <1>1, <1>2 DEF InTurn, TokensTaken
<1>6. TokensTaken'
  <2>1. \A i \in same' : i <= cur
    <3>1. \A i \in same : i <= cur - 1
      BY <1>2 DEF InTurn, TokensTaken
    <3>2. \A i \in same' : i \in same \/ i = cur
      BY <1>3
    <3>3. \A i \in same : i \in Nat /\ i <= cur
      <4>1. \A i \in same : i \in Nat
        BY <1>1
      <4>2. \A i \in Nat : i <= cur - 1 => i <= cur
        BY <1>1
      <4> QED
        BY <3>1, <4>1, <4>2
    <3>4. cur <= cur
      BY <1>1
    <3> QED
      BY <3>2, <3>3, <3>4
  <2>2. \A p \in 1..Len(stream), i \in 1..N, r \in Nat : Shows(i, r, stream[p]) => i <= cur
    BY <1>1, <1>5
  <2>3. \A p \in 1..Len(typed'), i \in 1..N : typed'[p].line = Mark(i) => i <= cur
    BY <1>1, <1>4
  <2> QED
    BY <1>2, <2>1, <2>2, <2>3 DEF TokensTaken
<1>7. ItemsAscend'
  BY <1>2 DEF InTurn, ItemsAscend
<1>8. ItemsFirst'
  <2>1. ASSUME NEW p \in 1..Len(stream), NEW q \in 1..Len(typed'), NEW i \in (1..N) \ early,
               NEW j \in 1..N, NEW r \in Nat, Shows(i, r, stream[p]), typed'[q].line = Mark(j)
        PROVE  i < j
    <3>1. i < cur
      BY <1>5, <2>1
    <3>2. (q \in 1..Len(typed) /\ typed[q].line = Mark(j)) \/ j = cur
      BY <1>4, <2>1
    <3> QED
      BY <1>2, <2>1, <3>1, <3>2 DEF InTurn, ItemsFirst
  <2> QED
    BY <2>1 DEF ItemsFirst
<1>9. LinesAscend'
  <2>1. ASSUME NEW p \in 1..Len(typed'), NEW q \in 1..Len(typed'), NEW i \in 1..N, NEW j \in 1..N,
               p < q, typed'[p].line = Mark(i), typed'[q].line = Mark(j)
        PROVE  i < j
    <3>1. \/ p \in 1..Len(typed) /\ typed[p].line = Mark(i) /\ i < cur
          \/ p = Len(typed) + 2 /\ i = cur
      BY <1>4, <2>1
    <3>2. \/ q \in 1..Len(typed) /\ typed[q].line = Mark(j) /\ j < cur
          \/ q = Len(typed) + 2 /\ j = cur
      BY <1>4, <2>1
    <3>3. p \in 1..Len(typed) /\ typed[p].line = Mark(i) /\ i < cur
      BY <1>1, <2>1, <3>1, <3>2
    <3> QED
      BY <1>1, <1>2, <2>1, <3>2, <3>3 DEF InTurn, LinesAscend
  <2> QED
    BY <2>1 DEF LinesAscend
<1>10. ASSUME NEW f \in 1..N, f <= cur, Grouped(f, cur)'
       PROVE  /\ \A p \in 1..Len(stream), i \in f..N, r \in Nat : Shows(i, r, stream[p]) => r >= f + cur
              /\ \A p \in 1..Len(typed'), i \in f..N : typed'[p].line = Mark(i) => 2 * i >= f + cur
  <2>1. CASE f = cur
    <3>1. \A i \in f..N : i \in 1..N /\ 2 * i >= f + cur /\ ~(i < cur)
      BY <1>1, <2>1
    <3> QED
      BY <1>5, <3>1
  <2>2. CASE f < cur
    <3>1. cur \in (f + 1)..cur /\ cur \in same'
      BY <1>1, <1>10, <2>2 DEF Grouped
    <3>2. cur \notin same
      BY <1>1, <1>2 DEF InTurn, TokensTaken
    <3>3. same' = same \cup {cur} /\ cur - 1 \notin gaveup
      BY <1>3, <3>1, <3>2
    <3>4. Grouped(f, cur - 1)
      <4>1. \A i \in (f + 1)..(cur - 1) : i \in (f + 1)..cur /\ i # cur
        BY <1>1
      <4>2. \A i \in f..(cur - 1) : i \in f..cur
        BY <1>1
      <4> QED
        BY <1>10, <3>3, <4>1, <4>2 DEF Grouped
    <3>5. f <= cur - 1
      BY <1>1, <2>2
    <3>6. /\ \A p \in 1..Len(stream), i \in f..N, r \in Nat : Shows(i, r, stream[p]) => r >= f + cur
          /\ \A p \in 1..Len(typed), i \in f..N : typed[p].line = Mark(i) => 2 * i >= f + cur
      BY <1>2, <3>3, <3>4, <3>5 DEF Ahead
    <3>7. ASSUME NEW p \in 1..Len(typed'), NEW i \in f..N, typed'[p].line = Mark(i)
          PROVE  2 * i >= f + cur
      <4>1. i \in 1..N
        BY <1>1
      <4>2. (p \in 1..Len(typed) /\ typed[p].line = Mark(i)) \/ i = cur
        BY <1>4, <3>7, <4>1
      <4>3. i = cur => 2 * i >= f + cur
        BY <1>1, <2>2
      <4> QED
        BY <3>6, <4>2, <4>3
    <3> QED
      BY <3>6, <3>7
  <2> QED
    BY <1>1, <1>10, <2>1, <2>2
<1>11. Ahead'
  BY <1>2, <1>10 DEF Ahead
<1> QED
  BY <1>6, <1>7, <1>8, <1>9, <1>11 DEF InTurn

\* To send the next command and its token keeps the argument.
LEMMA SendTokens ==
  ASSUME TypeInv, TokenOrder, kind = "token", Send
  PROVE  InTurn' /\ Ahead'
<1>1. cur \in 0..N /\ N \in Nat /\ Len(typed) \in Nat
  BY SessionAssumption DEF TypeInv
<1>2. /\ \A p \in 1..Len(typed) : typed'[p] = typed[p]
      /\ cur = 0 => Len(typed') = Len(typed) + 1 /\ typed'[Len(typed) + 1] = Fresh(LineNo(cur))
      /\ cur # 0 => /\ Len(typed') = Len(typed) + 2
                    /\ typed'[Len(typed) + 1] = Fresh(Cmd(cur))
                    /\ typed'[Len(typed) + 2] = Fresh(Mark(cur))
  BY SendForm
<1>3. \A i : LineNo(0) # Mark(i) /\ Cmd(cur) # Mark(i)
  BY LineNames DEF LineNo
<1>4. ASSUME NEW p \in 1..Len(typed'), p > Len(typed)
      PROVE  \/ \A i : typed'[p].line # Mark(i)
             \/ cur >= 1 /\ p = Len(typed) + 2 /\ typed'[p].line = Mark(cur)
  <2>1. CASE p = Len(typed) + 1
    BY <1>2, <1>3, <2>1 DEF Fresh
  <2>2. CASE p = Len(typed) + 2 /\ cur # 0
    BY <1>1, <1>2, <2>2 DEF Fresh
  <2> QED
    BY <1>1, <1>2, <1>4, <2>1, <2>2
<1>5. Adds
  BY <1>1, <1>2, <1>4 DEF Adds
<1>6. /\ pc = "ready" /\ pc' = "waiting" /\ TakeToken /\ stream' = stream /\ cur' = cur
      /\ gaveup' = gaveup /\ early' = early
  BY DEF Send, Wait
<1> QED
  BY <1>5, <1>6, AddsTokens

\* An echo at arrival keeps the argument.
LEMMA EchoTokens ==
  ASSUME TypeInv, TokenOrder, kind = "token", Going, EchoAtArrival
  PROVE  InTurn' /\ Ahead'
<1>1. PICK n \in 1..Len(typed) :
        /\ Len(typed') = Len(typed)
        /\ \A p \in 1..Len(typed) : typed'[p].line = typed[p].line
        /\ early' = early \cup {i \in 1..N : kind = "token" /\ typed[n].line = Mark(i)}
        /\ stream' \in Seq(Items) /\ Len(stream') = Len(stream) + 1
        /\ \A p \in 1..Len(stream) : stream'[p] = stream[p]
        /\ stream'[Len(stream) + 1] = Echo(typed[n].line)
  BY EchoForm
<1>2. cur' = cur /\ pc' = pc /\ gaveup' = gaveup /\ same' = same
  BY DEF EchoAtArrival, toolVars
<1>3. cur \in 0..N /\ N \in Nat /\ Len(typed) \in Nat /\ Len(stream) \in Nat /\ LastSent' = LastSent
  BY <1>2, SessionAssumption DEF TypeInv, LastSent
<1>4. InTurn /\ Ahead
  BY DEF TokenOrder
<1>5. ASSUME NEW p \in 1..Len(stream'), NEW i \in 1..N, NEW r \in Nat, Shows(i, r, stream'[p])
      PROVE  \/ p \in 1..Len(stream) /\ Shows(i, r, stream[p])
             \/ i \in early' /\ typed[n].line = Mark(i) /\ r = 2 * i
  <2>1. CASE p \in 1..Len(stream)
    BY <1>1, <1>5, <2>1
  <2>2. CASE p = Len(stream) + 1
    <3>0. i \in Nat /\ Shows(i, r, Echo(typed[n].line))
      BY <1>1, <1>3, <1>5, <2>2
    <3>1. typed[n].line = Mark(i) /\ r = 2 * i
      BY <3>0, ShowsOne
    <3> QED
      BY <1>1, <3>1
  <2> QED
    BY <1>1, <1>3, <2>1, <2>2
<1>6. early \subseteq early' /\ \A i \in (1..N) \ early' : i \in (1..N) \ early
  BY <1>1
<1>7. TokensTaken'
  <2>1. \A p \in 1..Len(typed'), i \in 1..N : typed'[p].line = Mark(i) => i <= LastSent
    BY <1>1, <1>4 DEF InTurn, TokensTaken
  <2>2. \A p \in 1..Len(stream'), i \in 1..N, r \in Nat : Shows(i, r, stream'[p]) => i <= LastSent
    BY <1>4, <1>5 DEF InTurn, TokensTaken
  <2>3. \A i \in same : i <= LastSent
    BY <1>4 DEF InTurn, TokensTaken
  <2> QED
    BY <1>2, <1>3, <2>1, <2>2, <2>3 DEF TokensTaken
<1>8. ItemsAscend'
  <2>1. ASSUME NEW p \in 1..Len(stream'), NEW q \in 1..Len(stream'), p < q,
               NEW i \in (1..N) \ early', NEW j \in (1..N) \ early', NEW r \in Nat, NEW u \in Nat,
               Shows(i, r, stream'[p]), Shows(j, u, stream'[q])
        PROVE  r < u
    <3>1. p \in 1..Len(stream) /\ Shows(i, r, stream[p]) /\ i \in (1..N) \ early
      BY <1>5, <1>6, <2>1
    <3>2. q \in 1..Len(stream) /\ Shows(j, u, stream[q]) /\ j \in (1..N) \ early
      BY <1>5, <1>6, <2>1
    <3> QED
      BY <1>4, <2>1, <3>1, <3>2 DEF InTurn, ItemsAscend
  <2> QED
    BY <2>1 DEF ItemsAscend
<1>9. ItemsFirst'
  <2>1. ASSUME NEW p \in 1..Len(stream'), NEW q \in 1..Len(typed'), NEW i \in (1..N) \ early',
               NEW j \in 1..N, NEW r \in Nat, Shows(i, r, stream'[p]), typed'[q].line = Mark(j)
        PROVE  i < j
    <3>1. p \in 1..Len(stream) /\ Shows(i, r, stream[p]) /\ i \in (1..N) \ early
      BY <1>5, <1>6, <2>1
    <3>2. q \in 1..Len(typed) /\ typed[q].line = Mark(j)
      BY <1>1, <2>1
    <3> QED
      BY <1>4, <3>1, <3>2 DEF InTurn, ItemsFirst
  <2> QED
    BY <2>1 DEF ItemsFirst
<1>10. LinesAscend'
  BY <1>1, <1>4 DEF InTurn, LinesAscend
<1>11. Ahead'
  <2>1. \A f : Grouped(f, LastSent)' => Grouped(f, LastSent)
    BY <1>2, <1>3, <1>6 DEF Grouped
  <2> SUFFICES ASSUME NEW f \in 1..N, f <= LastSent, Grouped(f, LastSent), LastSent \notin gaveup
               PROVE  /\ \A p \in 1..Len(stream'), i \in f..N, r \in Nat :
                           Shows(i, r, stream'[p]) => r >= f + cur
                      /\ \A p \in 1..Len(typed'), i \in f..N : typed'[p].line = Mark(i) => 2 * i >= f + cur
    BY <1>2, <1>3, <2>1 DEF Ahead
  <2>2. /\ \A p \in 1..Len(stream), i \in f..N, r \in Nat : Shows(i, r, stream[p]) => r >= f + cur
        /\ \A p \in 1..Len(typed), i \in f..N : typed[p].line = Mark(i) => 2 * i >= f + cur
    BY <1>4 DEF Ahead
  <2>3. \A i \in f..N : i \in 1..N
    BY <1>3
  <2> QED
    BY <1>1, <1>5, <2>2, <2>3
<1> QED
  BY <1>7, <1>8, <1>9, <1>10, <1>11 DEF InTurn

\* The places of a stream of l items to which the shell added up to an echo, a text and the prompt.
LEMMA ShellPlaces ==
  ASSUME NEW l \in Nat, NEW e \in 0..1, NEW t \in 0..1, NEW p \in 1..l + e + t + 1
  PROVE  \/ p \in 1..l
         \/ p = l + 1 /\ e = 1
         \/ p = l + e + 1 /\ t = 1
         \/ p = l + e + t + 1
<1>1. p \in Int /\ 1 <= p /\ p <= l + e + t + 1
  OBVIOUS
<1>2. CASE e = 0
  BY <1>1, <1>2
<1>3. CASE e = 1
  BY <1>1, <1>3
<1> QED
  BY <1>2, <1>3

\* A line that the shell takes keeps the argument.
LEMMA ShellTokens ==
  ASSUME TypeInv, TokenOrder, kind = "token", Going, Shell
  PROVE  InTurn' /\ Ahead'
<1> DEFINE line == typed[1].line
           l == Len(stream)
           m == Len(typed)
<1>1. PICK e, t :
        /\ e = (IF typed[1].echoed THEN 0 ELSE 1) /\ t = (IF typed[1].line = Ps1 THEN 0 ELSE 1)
  OBVIOUS
<1>0. link # "closed"
  BY DEF TypeInv, Going
<1>2. /\ m \in Nat /\ m >= 1
      /\ Len(typed') = m - 1
      /\ \A p \in 1..m - 1 : typed'[p] = typed[p + 1]
      /\ stream' \in Seq(Items)
      /\ Len(stream') = l + e + t + 1
      /\ \A p \in 1..l : stream'[p] = stream[p]
      /\ e = 1 => stream'[l + 1] = Echo(line)
      /\ t = 1 => stream'[l + e + 1] = Text(line)
      /\ stream'[l + e + t + 1] = Prompt
  BY <1>0, <1>1, ShellForm, ZenonT(60)
<1>3. cur' = cur /\ pc' = pc /\ gaveup' = gaveup /\ same' = same /\ early' = early
  BY DEF Shell, toolVars
<1>4. cur \in 0..N /\ N \in Nat /\ l \in Nat /\ e \in 0..1 /\ t \in 0..1 /\ LastSent' = LastSent
  BY <1>1, <1>3, SessionAssumption DEF TypeInv, LastSent
<1>5. InTurn /\ Ahead
  BY DEF TokenOrder
<1>6. ASSUME NEW p \in 1..Len(stream'), NEW i \in 1..N, NEW r \in Nat, Shows(i, r, stream'[p])
      PROVE  \/ p \in 1..l /\ Shows(i, r, stream[p])
             \/ p = l + 1 /\ line = Mark(i) /\ r = 2 * i /\ e = 1
             \/ p = l + e + 1 /\ line = Mark(i) /\ r = 2 * i + 1
  <2>0. i \in Nat
    BY <1>4
  <2>1. CASE p \in 1..l
    BY <1>2, <1>6, <2>1
  <2>2. CASE p = l + 1 /\ e = 1
    <3>1. Shows(i, r, Echo(line))
      BY <1>2, <1>6, <2>2
    <3>2. line = Mark(i) /\ r = 2 * i
      BY <2>0, <3>1, ShowsOne
    <3> QED
      BY <2>2, <3>2
  <2>3. CASE p = l + e + 1 /\ t = 1
    <3>1. Shows(i, r, Text(line))
      BY <1>2, <1>6, <2>3
    <3>2. line = Mark(i) /\ r = 2 * i + 1
      BY <2>0, <3>1, ShowsOne
    <3> QED
      BY <2>3, <3>2
  <2>4. CASE p = l + e + t + 1
    <3>1. Shows(i, r, Prompt)
      BY <1>2, <1>6, <2>4
    <3> QED
      BY <2>0, <3>1, ShowsOne
  <2>5. Len(stream') = l + e + t + 1
    BY <1>2
  <2>6. \/ p \in 1..l
        \/ p = l + 1 /\ e = 1
        \/ p = l + e + 1 /\ t = 1
        \/ p = l + e + t + 1
    <3>1. l \in Nat /\ e \in 0..1 /\ t \in 0..1
      BY <1>4
    <3>2. p \in 1..l + e + t + 1
      BY <2>5
    <3> QED
      BY <3>1, <3>2, ShellPlaces
  <2> QED
    BY <2>1, <2>2, <2>3, <2>4, <2>6, ZenonT(60)
<1>7. 1 \in 1..m /\ \A p \in 1..m - 1 : p \in 1..m /\ p + 1 \in 1..m /\ 1 < p + 1
  BY <1>2
<1> HIDE DEF line, l, m
<1>8. \A p \in 1..Len(typed') : p + 1 \in 1..m /\ 1 < p + 1 /\ typed'[p] = typed[p + 1]
  BY <1>2, <1>7
<1>9. \A i \in 1..N : line = Mark(i) => i <= LastSent
  BY <1>5, <1>7 DEF InTurn, TokensTaken, line, m
<1>10. TokensTaken'
  <2>1. \A p \in 1..Len(typed'), i \in 1..N : typed'[p].line = Mark(i) => i <= LastSent
    BY <1>5, <1>8 DEF InTurn, TokensTaken, m
  <2>2. \A p \in 1..Len(stream'), i \in 1..N, r \in Nat : Shows(i, r, stream'[p]) => i <= LastSent
    BY <1>5, <1>6, <1>9 DEF InTurn, TokensTaken, l
  <2>3. \A i \in same : i <= LastSent
    BY <1>5 DEF InTurn, TokensTaken
  <2> QED
    BY <1>3, <1>4, <2>1, <2>2, <2>3 DEF TokensTaken
<1>11. \A p \in 1..l, i \in (1..N) \ early, j \in 1..N, r \in Nat :
         Shows(i, r, stream[p]) /\ line = Mark(j) => i < j /\ r < 2 * j
  <2>1. \A p \in 1..l, i \in (1..N) \ early, j \in 1..N, r \in Nat :
          Shows(i, r, stream[p]) /\ line = Mark(j) => i < j
    BY <1>5, <1>7 DEF InTurn, ItemsFirst, line, l, m
  <2>2. \A item : \A i \in 1..N, j \in 1..N, r \in Nat : i < j /\ Shows(i, r, item) => r < 2 * j
    BY <1>4 DEF Shows
  <2> QED
    BY <2>1, <2>2
<1>12. ItemsAscend'
  <2>1. ASSUME NEW p \in 1..Len(stream'), NEW q \in 1..Len(stream'), p < q,
               NEW i \in (1..N) \ early, NEW j \in (1..N) \ early, NEW r \in Nat, NEW u \in Nat,
               Shows(i, r, stream'[p]), Shows(j, u, stream'[q])
        PROVE  r < u
    <3>1. \/ p \in 1..l /\ Shows(i, r, stream[p])
          \/ p = l + 1 /\ line = Mark(i) /\ r = 2 * i /\ e = 1
          \/ p = l + e + 1 /\ line = Mark(i) /\ r = 2 * i + 1
      BY <1>6, <2>1
    <3>2. \/ q \in 1..l /\ Shows(j, u, stream[q])
          \/ q = l + 1 /\ line = Mark(j) /\ u = 2 * j /\ e = 1
          \/ q = l + e + 1 /\ line = Mark(j) /\ u = 2 * j + 1
      BY <1>6, <2>1
    <3>3. CASE q \in 1..l /\ Shows(j, u, stream[q])
      <4>1. p \in 1..l /\ Shows(i, r, stream[p])
        BY <1>4, <2>1, <3>1, <3>3
      <4> QED
        BY <1>5, <2>1, <3>3, <4>1 DEF InTurn, ItemsAscend, l
    <3>4. CASE line = Mark(j) /\ u >= 2 * j /\ p \in 1..l /\ Shows(i, r, stream[p])
      <4>1. r < 2 * j
        BY <1>11, <2>1, <3>4
      <4> QED
        BY <1>4, <3>4, <4>1
    <3>5. CASE line = Mark(j) /\ p \notin 1..l
      <4>1. line = Mark(i) /\ (p = l + 1 \/ p = l + e + 1)
        BY <3>1, <3>5
      <4>2. i = j
        BY <3>5, <4>1, LineNames
      <4> QED
        BY <1>4, <2>1, <3>1, <3>2, <3>5, <4>2
    <3>6. CASE line = Mark(j) /\ u >= 2 * j
      <4>1. (p \in 1..l /\ Shows(i, r, stream[p])) \/ p \notin 1..l
        BY <1>4, <3>1
      <4> QED
        BY <3>4, <3>5, <3>6, <4>1
    <3>7. u = 2 * j \/ u = 2 * j + 1 => u >= 2 * j
      BY <1>4
    <3> QED
      BY <3>2, <3>3, <3>6, <3>7
  <2> QED
    BY <1>3, <2>1 DEF ItemsAscend
<1>13. LinesAscend'
  <2>1. ASSUME NEW p \in 1..Len(typed'), NEW q \in 1..Len(typed'), NEW i \in 1..N, NEW j \in 1..N,
               p < q, typed'[p].line = Mark(i), typed'[q].line = Mark(j)
        PROVE  i < j
    <3>1. /\ p + 1 \in 1..m /\ typed[p + 1].line = Mark(i)
          /\ q + 1 \in 1..m /\ typed[q + 1].line = Mark(j)
      BY <1>8, <2>1
    <3>2. p + 1 < q + 1
      BY <2>1
    <3> QED
      BY <1>5, <3>1, <3>2 DEF InTurn, LinesAscend, m
  <2> QED
    BY <2>1 DEF LinesAscend
<1>14. ItemsFirst'
  <2>1. ASSUME NEW p \in 1..Len(stream'), NEW q \in 1..Len(typed'), NEW i \in (1..N) \ early,
               NEW j \in 1..N, NEW r \in Nat, Shows(i, r, stream'[p]), typed'[q].line = Mark(j)
        PROVE  i < j
    <3>1. q + 1 \in 1..m /\ 1 < q + 1 /\ typed[q + 1].line = Mark(j)
      BY <1>8, <2>1
    <3>2. CASE p \in 1..l /\ Shows(i, r, stream[p])
      BY <1>5, <2>1, <3>1, <3>2 DEF InTurn, ItemsFirst, l, m
    <3>3. CASE line = Mark(i)
      BY <1>5, <1>7, <2>1, <3>1, <3>3 DEF InTurn, LinesAscend, line, m
    <3> QED
      BY <1>6, <2>1, <3>2, <3>3
  <2> QED
    BY <1>3, <2>1 DEF ItemsFirst
<1>15. Ahead'
  <2>1. \A f : Grouped(f, LastSent)' => Grouped(f, LastSent)
    BY <1>3, <1>4 DEF Grouped
  <2> SUFFICES ASSUME NEW f \in 1..N, f <= LastSent, Grouped(f, LastSent), LastSent \notin gaveup
               PROVE  /\ \A p \in 1..Len(stream'), i \in f..N, r \in Nat :
                           Shows(i, r, stream'[p]) => r >= f + cur
                      /\ \A p \in 1..Len(typed'), i \in f..N : typed'[p].line = Mark(i) => 2 * i >= f + cur
    BY <1>3, <1>4, <2>1 DEF Ahead
  <2>2. /\ \A p \in 1..l, i \in f..N, r \in Nat : Shows(i, r, stream[p]) => r >= f + cur
        /\ \A p \in 1..m, i \in f..N : typed[p].line = Mark(i) => 2 * i >= f + cur
    BY <1>5 DEF Ahead, l, m
  <2>3. ASSUME NEW p \in 1..Len(stream'), NEW i \in f..N, NEW r \in Nat, Shows(i, r, stream'[p])
        PROVE  r >= f + cur
    <3>1. i \in 1..N
      BY <1>4
    <3>2. CASE p \in 1..l /\ Shows(i, r, stream[p])
      BY <2>2, <2>3, <3>2
    <3>3. CASE line = Mark(i) /\ (r = 2 * i \/ r = 2 * i + 1)
      <4>1. 2 * i >= f + cur
        BY <1>7, <2>2, <3>3 DEF line
      <4> QED
        BY <1>4, <3>1, <3>3, <4>1
    <3> QED
      BY <1>6, <2>3, <3>1, <3>2, <3>3
  <2>4. \A p \in 1..Len(typed'), i \in f..N : typed'[p].line = Mark(i) => 2 * i >= f + cur
    BY <1>8, <2>2
  <2> QED
    BY <2>3, <2>4
<1> QED
  BY <1>10, <1>12, <1>13, <1>14, <1>15 DEF InTurn

\* Every step keeps the argument about the tokens.
LEMMA TokensStep == ASSUME TypeInv, TokenOrder, [Next]_vars PROVE TokenOrder'
<1> SUFFICES ASSUME kind' = "token", Going' PROVE InTurn' /\ Ahead'
  BY DEF TokenOrder
<1>0. kind = "token"
  BY KindKept
<1>1. /\ cur \in 0..N /\ N \in Nat /\ Len(stream) \in Nat /\ Len(typed) \in Nat
      /\ LastSent \in Int /\ gaveup \subseteq Waited
  BY SessionAssumption DEF TypeInv, LastSent
<1>2. CASE Send
  BY <1>0, <1>2, SendTokens
<1>3. CASE SendIntoTheVoid
  <2>1. /\ pc = "ready" /\ pc' = "waiting" /\ TakeToken /\ stream' = stream /\ cur' = cur
        /\ gaveup' = gaveup /\ early' = early /\ typed' = typed
    BY <1>3 DEF SendIntoTheVoid, Wait
  <2>2. Adds
    BY <1>1, <2>1 DEF Adds
  <2> QED
    BY <1>0, <2>1, <2>2, AddsTokens
<1>4. CASE SendRaises
  BY <1>4 DEF SendRaises, Going
<1>5. CASE Receive
  <2>1. PICK n \in 0..Len(stream) : Moved(n) /\ (Reads(n) \/ Finds(n))
    BY <1>5, ReceiveForm
  <2>2. /\ pc = "waiting" /\ early' = early /\ same' = same /\ typed' = typed /\ gaveup' = gaveup /\ Going
    BY <1>5 DEF Receive, Going
  <2>3. Shifted(n) => Shorter(n)
    <3>1. stream' \in Seq(Items) /\ Len(stream') \in Nat
      BY <2>1 DEF Moved
    <3> QED
      BY <1>1, <2>2, <3>1 DEF Shifted, Shorter
  <2>4. CASE Reads(n)
    BY <1>0, <2>2, <2>3, <2>4, ReadsTokens DEF Reads
  <2>5. CASE Finds(n)
    <3>1. cur < N /\ pc' = "ready" /\ cur' = cur + 1 /\ Shifted(n)
      BY <2>5 DEF Finds, Onward, Going
    <3>2. PICK k \in 1..n : stream[k] \in Marker(kind, cur)
      BY <2>5 DEF Finds
    <3> QED
      BY <1>0, <2>2, <2>3, <3>1, <3>2, FindsTokens
  <2> QED
    BY <2>1, <2>4, <2>5
<1>6. CASE GiveUp
  <2>1. Moved(0) /\ GivesUp /\ (cur < N => Shifted(0))
    BY <1>6, GiveUpForm
  <2>2. pc = "waiting" /\ early' = early /\ same' = same /\ typed' = typed /\ Going
    BY <1>6 DEF GiveUp, Going
  <2>3. pc' = "ready" /\ cur' = cur + 1 /\ Shifted(0) /\ gaveup' = gaveup \cup {cur}
    BY <2>1 DEF GivesUp, Onward, Going
  <2>4. LastSent' = cur /\ LastSent = cur /\ InTurn
    BY <1>0, <1>1, <2>2, <2>3 DEF LastSent, TokenOrder
  <2>5. Shorter(0)
    <3>1. stream' \in Seq(Items) /\ Len(stream') \in Nat
      BY <2>1 DEF Moved
    <3> QED
      BY <1>1, <2>2, <2>3, <3>1 DEF Shifted, Shorter
  <2>6. \A i \in same' : i <= LastSent'
    BY <2>2, <2>4 DEF InTurn, TokensTaken
  <2>7. InTurn'
    BY <1>1, <2>4, <2>5, <2>6, ShorterInTurn
  <2>8. Ahead'
    BY <2>3, <2>4 DEF Ahead
  <2> QED
    BY <2>7, <2>8
<1>7. CASE EchoAtArrival
  <2>1. Going
    BY <1>7 DEF EchoAtArrival, toolVars, Going
  <2> QED
    BY <1>0, <1>7, <2>1, EchoTokens
<1>8. CASE Shell
  <2>1. Going
    BY <1>8 DEF Shell, toolVars, Going
  <2> QED
    BY <1>0, <1>8, <2>1, ShellTokens
<1>9. CASE Break
  <2>1. PICK n \in 0..Len(stream) : stream' = SubSeq(stream, 1, n)
    BY <1>9 DEF Break
  <2>2. /\ early' = early /\ same' = same /\ typed' = <<>> /\ pc' = pc /\ cur' = cur
        /\ gaveup' = gaveup /\ Going
    BY <1>9 DEF Break, toolVars, Going
  <2>3. Len(stream') = n /\ \A p \in 1..n : stream'[p] = stream[p]
    BY <2>1, SplitForm DEF TypeInv
  <2>4. Shorter(0)
    BY <1>1, <2>2, <2>3 DEF Shorter
  <2> QED
    BY <1>0, <2>2, <2>4, ReadsTokens
<1>10. CASE HangUp
  BY <1>10 DEF HangUp, toolVars, Going, TypeInv
<1>11. CASE UNCHANGED vars
  <2>1. InTurn /\ Ahead
    BY <1>0, <1>11 DEF vars, toolVars, Going, TokenOrder
  <2> QED
    BY <1>11, <2>1 DEF vars, toolVars, InTurn, TokensTaken, ItemsAscend, ItemsFirst, LinesAscend,
       Ahead, Grouped, Shows, LastSent
<1> QED
  BY <1>2, <1>3, <1>4, <1>5, <1>6, <1>7, <1>8, <1>9, <1>10, <1>11 DEF Next, ToolStep

-----------------------------------------------------------------------------
(* The session: whole answers.                                             *)

\* What the two arguments are for.
AnswersWhole == SplitAnswersAreWhole /\ TokenLagIsBounded

\* Every step leaves the answers whole.
LEMMA WholeStep == ASSUME TypeInv, MarkersHold, TokenOrder, AnswersWhole, [Next]_vars PROVE AnswersWhole'
<1>1. CASE Receive
  <2>1. PICK n \in 0..Len(stream) : Moved(n) /\ (Reads(n) \/ Finds(n))
    BY <1>1, ReceiveForm
  <2>2. kind' = kind /\ early' = early /\ same' = same /\ gaveup' = gaveup /\ pc = "waiting"
    BY <1>1 DEF Receive
  <2>3. CASE Reads(n)
    BY <2>2, <2>3 DEF Reads, AnswersWhole, SplitAnswersAreWhole, TokenLagIsBounded, Latest
  <2>4. CASE Finds(n)
    <3>1. Latest' = cur /\ cur \in 0..N /\ N \in Nat /\ buf' = {} /\ Len(stream) \in Nat
      BY <2>4, SessionAssumption DEF Finds, Onward, Latest, TypeInv
    <3>2. PICK k \in 1..n : stream[k] \in Marker(kind, cur)
      BY <2>4 DEF Finds
    <3>3. ASSUME NEW i \in 1..N, Sure(i), IsMark(i, stream[k]), NEW j \in 1..i
          PROVE  j \in answered'
      <4>1. k \in 1..Len(stream)
        BY <3>1
      <4>2. ReadBefore(j, k)
        BY <3>3, <4>1 DEF MarkersHold, MarksLate
      <4>3. j \in 1..N /\ answered \subseteq answered'
        BY <2>1, <3>1 DEF Moved
      <4>4. j \in answered \/ ReadOf(n, j)
        <5>1. \A q \in 1..k - 1 : q \in 1..n
          BY <3>1
        <5> QED
          BY <4>2, <5>1 DEF ReadBefore, ReadOf
      <4> QED
        BY <2>1, <3>1, <4>3, <4>4 DEF Moved
    <3>4. SplitAnswersAreWhole'
      <4>1. ASSUME kind = "split", cur >= 1
            PROVE  IsMark(cur, stream[k]) /\ Sure(cur) /\ cur \in 1..N
        <5>1. Marker(kind, cur) = SplitMarker(cur)
          BY <3>1, <4>1 DEF Marker
        <5> QED
          BY <3>1, <3>2, <4>1, <5>1 DEF SplitMarker, IsMark, Sure
      <4> QED
        BY <2>2, <3>1, <3>3, <4>1 DEF SplitAnswersAreWhole
    <3>5. TokenLagIsBounded'
      <4>1. ASSUME kind = "token", NEW f \in 1..cur, Grouped(f, cur)
            PROVE  1..(f + (cur - f) \div 2) \subseteq answered'
        <5>1. k \in 1..Len(stream)
          BY <3>1
        <5>2. PICK i \in f..cur : /\ i \in (1..N) \ early /\ IsMark(i, stream[k])
                                  /\ i >= f + (cur - f) \div 2
          BY <2>2, <3>2, <4>1, <5>1, FoundToken
        <5>3. 1..i \subseteq answered'
          BY <3>3, <4>1, <5>2 DEF Sure
        <5>4. 1..(f + (cur - f) \div 2) \subseteq 1..i
          BY <3>1, <5>2
        <5> QED
          BY <5>3, <5>4
      <4> QED
        BY <2>2, <3>1, <4>1 DEF TokenLagIsBounded, Grouped
    <3> QED
      BY <3>4, <3>5 DEF AnswersWhole
  <2> QED
    BY <2>1, <2>3, <2>4
<1>2. CASE GiveUp
  <2>1. GivesUp
    BY <1>2, GiveUpForm
  <2>2. Latest' = cur /\ cur \in gaveup'
    BY <2>1, SessionAssumption DEF GivesUp, Onward, Latest, TypeInv
  <2> QED
    BY <2>2 DEF AnswersWhole, SplitAnswersAreWhole, TokenLagIsBounded
<1>3. CASE Send \/ SendIntoTheVoid \/ SendRaises \/ UNCHANGED toolVars
  <2>1. Latest' = Latest /\ gaveup' = gaveup /\ answered' = answered
    BY <1>3 DEF Send, SendIntoTheVoid, SendRaises, Wait, toolVars, Latest
  <2>2. kind' = kind /\ early \subseteq early' /\ same \subseteq same'
    BY KindKept
  <2>3. \A i \in same' : i \in same \/ i > Latest
    BY KindKept
  <2>4. Latest \in Int
    BY DEF TypeInv, Latest
  <2>5. ASSUME NEW f \in 1..Latest, f \notin same', (f + 1)..Latest \subseteq same',
               (f..Latest) \cap early' = {}
        PROVE  f \notin same /\ (f + 1)..Latest \subseteq same /\ (f..Latest) \cap early = {}
    <3>1. \A i \in (f + 1)..Latest : ~(i > Latest)
      BY <2>4
    <3> QED
      BY <2>2, <2>3, <2>5, <3>1
  <2>6. SplitAnswersAreWhole'
    BY <2>1, <2>2 DEF AnswersWhole, SplitAnswersAreWhole
  <2>7. TokenLagIsBounded'
    BY <2>1, <2>2, <2>5 DEF AnswersWhole, TokenLagIsBounded
  <2> QED
    BY <2>6, <2>7 DEF AnswersWhole
<1>4. EchoAtArrival \/ Shell \/ Break \/ HangUp \/ UNCHANGED vars => UNCHANGED toolVars
  BY DEF EchoAtArrival, Shell, Break, HangUp, vars
<1> QED
  BY <1>1, <1>2, <1>3, <1>4 DEF Next, ToolStep

-----------------------------------------------------------------------------
(* The session: the prompt as the marker.                                  *)

\* The lines sent, the one that sets the prompt included.
Posted == cur + (IF pc = "waiting" THEN 1 ELSE 0)

\* The lines the shell has taken, as long as the connection holds.
Ran == Posted - Len(typed)

\* The line that sets the prompt has been echoed.
EchoOut == Ran >= 1 \/ (Len(typed) >= 1 /\ typed[1].echoed)

\* The number of the last marker emitted.
Emitted == Ran + (IF EchoOut THEN 1 ELSE 0)

\* The waits over, less those that timed out.
Due == cur - Cardinality(gaveup)

\* num numbers the markers under way in the order they were emitted.
Counted(num) ==
  /\ num \in [1..Len(stream) -> Nat]
  /\ \A p \in 1..Len(stream) : stream[p] \in PromptMarker => num[p] > Due
  /\ \A p, q \in 1..Len(stream) :
       p < q /\ stream[p] \in PromptMarker /\ stream[q] \in PromptMarker => num[p] < num[q]
  /\ \A p \in 1..Len(stream), j \in 1..N :
       stream[p] \in PromptMarker /\ j + 2 <= num[p] => ReadBefore(j, p)

Numbered(num) ==
  Counted(num) /\ \A p \in 1..Len(stream) : stream[p] \in PromptMarker => num[p] <= Emitted

LinesInOrder ==
  /\ Len(typed) <= Posted
  /\ \A p \in 1..Len(typed) : typed[p].line = LineNo(Ran + p - 1)

Order ==
  /\ LinesInOrder
  /\ \E num : Numbered(num)
  /\ \A j \in 1..N : j < Ran => Under(j)
  /\ Due <= Emitted

PromptOrder ==
  kind = "prompt" => /\ link = "open" => Order
                     /\ link # "open" => \E num : Counted(num)

\* All these are numbers.
LEMMA Numbers ==
  ASSUME TypeInv
  PROVE  /\ cur \in 0..N /\ N \in Nat /\ Posted \in Nat /\ Len(typed) \in Nat /\ Len(stream) \in Nat
         /\ Ran \in Int /\ Emitted \in Int /\ Due \in Int
         /\ IsFiniteSet(gaveup) /\ Cardinality(gaveup) \in Nat
<1>1. cur \in 0..N /\ N \in Nat /\ Len(typed) \in Nat /\ Len(stream) \in Nat /\ gaveup \subseteq 0..N
  BY SessionAssumption DEF TypeInv, Waited
<1>2. IsFiniteSet(gaveup) /\ Cardinality(gaveup) \in Nat
  <2>1. IsFiniteSet(0..N)
    BY <1>1, FS_Interval
  <2>2. IsFiniteSet(gaveup)
    BY <1>1, <2>1, FS_Subset
  <2> QED
    BY <2>2, FS_CardinalityType
<1> QED
  BY <1>1, <1>2 DEF Posted, Ran, Emitted, Due

\* Of the lines and their outputs only the line that sets the prompt shows the marker.
LEMMA LineOrder ==
  /\ \A i \in Nat : Echo(LineNo(i)) \in PromptMarker <=> i = 0
  /\ \A line : Text(line) \notin PromptMarker
  /\ Prompt \in PromptMarker
  BY ItemNames, LineNames DEF PromptMarker, LineNo

\* The numbering holds at first.
LEMMA InitOrder == ASSUME Init PROVE PromptOrder
<1>0. Len(stream) = 0 /\ Len(typed) = 0 /\ cur = 0 /\ pc = "ready"
  BY DEF Init
<1>1. Len(stream) = 0 /\ Len(typed) = 0 /\ Posted = 0 /\ Ran = 0 /\ Emitted = 0
  <2>1. Posted = 0 /\ Ran = 0
    BY <1>0 DEF Posted, Ran
  <2>2. ~EchoOut
    BY <1>0, <2>1 DEF EchoOut
  <2> QED
    BY <1>0, <2>1, <2>2 DEF Emitted
<1>2. Due = 0
  BY FS_EmptySet DEF Init, Due
<1>3. Numbered([p \in 1..Len(stream) |-> 0])
  BY <1>1 DEF Numbered, Counted
<1>4. LinesInOrder
  BY <1>1 DEF LinesInOrder
<1>5. \A j \in 1..N : ~(j < Ran)
  BY <1>1, SessionAssumption
<1>6. link = "open"
  BY DEF Init
<1> QED
  BY <1>1, <1>2, <1>3, <1>4, <1>5, <1>6 DEF PromptOrder, Order

\* A numbering goes on from Emitted when the stream grows.
LEMMA GrownNumbers ==
  ASSUME TypeInv, Emitted' \in Int, Longer, Due' = Due, Due <= Emitted, Emitted <= Emitted',
         NEW num, Numbered(num),
         NEW f \in [1..Len(stream') -> Nat],
         \A p \in 1..Len(stream) : f[p] = num[p],
         NEW New, New = (Len(stream) + 1)..Len(stream'),
         \A p \in New : stream'[p] \in PromptMarker => Emitted < f[p] /\ f[p] <= Emitted',
         \A p, q \in New :
           p < q /\ stream'[p] \in PromptMarker /\ stream'[q] \in PromptMarker => f[p] < f[q],
         \A p \in New, j \in 1..N :
           stream'[p] \in PromptMarker /\ j + 2 <= f[p] => ReadBefore(j, p)'
  PROVE  Numbered(f)'
<1>1. /\ Len(stream) \in Nat /\ Len(stream') \in Nat /\ Len(stream') >= Len(stream)
      /\ Due \in Int /\ Emitted \in Int /\ Emitted' \in Int
      /\ \A p \in 1..Len(stream) : stream'[p] = stream[p]
  BY Numbers DEF Longer, TypeInv
<1>2. \A p \in 1..Len(stream') : (p \in 1..Len(stream) \/ p \in New) /\ f[p] \in Nat
  BY <1>1
<1>3. \A p \in 1..Len(stream) : p \in 1..Len(stream')
  BY <1>1
<1>4. ASSUME NEW p \in 1..Len(stream'), stream'[p] \in PromptMarker
      PROVE  f[p] > Due /\ f[p] <= Emitted'
  BY <1>1, <1>2, <1>3, <1>4 DEF Numbered, Counted
<1>5. ASSUME NEW p \in 1..Len(stream'), NEW q \in 1..Len(stream'), p < q,
             stream'[p] \in PromptMarker, stream'[q] \in PromptMarker
      PROVE  f[p] < f[q]
  <2>1. CASE p \in 1..Len(stream) /\ q \in 1..Len(stream)
    BY <1>1, <1>5, <2>1 DEF Numbered, Counted
  <2>2. CASE p \in 1..Len(stream) /\ q \in New
    <3>1. num[p] <= Emitted /\ f[p] = num[p] /\ Emitted < f[q]
      BY <1>1, <1>5, <2>2 DEF Numbered, Counted
    <3>2. f[p] \in Nat /\ f[q] \in Nat
      BY <1>2
    <3> QED
      BY <1>1, <3>1, <3>2
  <2>3. CASE p \in New /\ q \in New
    BY <1>5, <2>3
  <2> QED
    BY <1>1, <1>2, <1>5, <2>1, <2>2, <2>3
<1>6. ASSUME NEW p \in 1..Len(stream'), NEW j \in 1..N, stream'[p] \in PromptMarker, j + 2 <= f[p]
      PROVE  ReadBefore(j, p)'
  <2>1. CASE p \in 1..Len(stream)
    <3>1. ReadBefore(j, p) /\ p \in 1..Len(stream) + 1 /\ p \in Nat /\ p >= p
      BY <1>1, <1>6, <2>1 DEF Numbered, Counted
    <3>2. \A q \in 1..Len(stream) + 1 : ReadBefore(j, q) /\ p >= q => ReadBefore(j, p)'
      BY <3>1, LongerRead
    <3> QED
      BY <3>1, <3>2
  <2>2. CASE p \in New
    BY <1>6, <2>2
  <2> QED
    BY <1>2, <2>1, <2>2
<1> QED
  BY <1>4, <1>5, <1>6 DEF Numbered, Counted, PromptMarker

\* To send a line keeps the numbering.
LEMMA SendOrder ==
  ASSUME TypeInv, PromptOrder, Send
  PROVE  PromptOrder'
<1> SUFFICES ASSUME kind = "prompt" PROVE PromptOrder'
  BY DEF PromptOrder, Send
<1>1. /\ stream' = stream /\ cur' = cur /\ gaveup' = gaveup /\ answered' = answered /\ buf' = buf
      /\ pc' = "waiting" /\ pc = "ready" /\ link = "open" /\ link' = link /\ kind' = kind
  BY DEF Send, Wait, TypeInv
<1>2. /\ \A p \in 1..Len(typed) : typed'[p] = typed[p]
      /\ Len(typed') = Len(typed) + 1 /\ typed'[Len(typed) + 1] = Fresh(LineNo(cur))
  BY SendForm
<1>3. cur \in 0..N /\ N \in Nat /\ Posted \in Nat /\ Len(typed) \in Nat /\ Ran \in Int /\ Order
  BY <1>1, Numbers DEF PromptOrder
<1>4. Posted = cur /\ Posted' = cur + 1 /\ Ran' = Ran /\ Ran = cur - Len(typed)
  BY <1>1, <1>2, <1>3 DEF Posted, Ran
<1>5. EchoOut' <=> EchoOut
  <2>1. CASE Len(typed) >= 1
    <3>1. typed'[1] = typed[1]
      BY <1>2, <1>3, <2>1
    <3> QED
      BY <1>2, <1>3, <1>4, <2>1, <3>1 DEF EchoOut
  <2>2. CASE Len(typed) = 0
    <3>1. typed'[1].echoed = FALSE
      BY <1>2, <2>2 DEF Fresh
    <3> QED
      BY <1>4, <2>2, <3>1 DEF EchoOut
  <2> QED
    BY <1>3, <2>1, <2>2
<1>6. Emitted' = Emitted /\ Due' = Due
  BY <1>1, <1>4, <1>5 DEF Emitted, Due
<1>7. LinesInOrder'
  <2>1. Len(typed') <= Posted'
    BY <1>2, <1>3, <1>4 DEF Order, LinesInOrder
  <2>2. ASSUME NEW p \in 1..Len(typed')
        PROVE  typed'[p].line = LineNo(Ran + p - 1)
    <3>1. CASE p \in 1..Len(typed)
      BY <1>2, <1>3, <3>1 DEF Order, LinesInOrder
    <3>2. CASE p = Len(typed) + 1
      <4>1. Ran + p - 1 = cur
        BY <1>3, <1>4, <3>2
      <4> QED
        BY <1>2, <3>2, <4>1 DEF Fresh
    <3> QED
      BY <1>2, <1>3, <3>1, <3>2
  <2> QED
    BY <1>4, <2>1, <2>2 DEF LinesInOrder, LineNo
<1>8. \A j, p : ReadBefore(j, p)' <=> ReadBefore(j, p)
  BY <1>1 DEF ReadBefore
<1>9. PICK num : Numbered(num)
  BY <1>3 DEF Order
<1>10. Numbered(num)'
  BY <1>1, <1>6, <1>8, <1>9 DEF Numbered, Counted, PromptMarker
<1>11. \A j \in 1..N : j < Ran' => Under(j)'
  BY <1>1, <1>3, <1>4 DEF Order, Under, ReadBefore
<1> QED
  BY <1>1, <1>3, <1>6, <1>7, <1>10, <1>11 DEF PromptOrder, Order

\* An echo at arrival keeps the numbering, and is the marker 1 or none.
LEMMA EchoOrder ==
  ASSUME TypeInv, PromptOrder, EchoAtArrival
  PROVE  PromptOrder'
<1> SUFFICES ASSUME kind = "prompt" PROVE PromptOrder'
  BY DEF PromptOrder, EchoAtArrival
<1>1. PICK n \in 1..Len(typed) :
        /\ ~typed[n].echoed
        /\ Len(typed') = Len(typed)
        /\ \A p \in 1..Len(typed) : typed'[p].line = typed[p].line
        /\ \A p \in 1..Len(typed) : typed'[p].echoed = IF p = n THEN TRUE ELSE typed[p].echoed
        /\ stream' \in Seq(Items) /\ Len(stream') = Len(stream) + 1
        /\ \A p \in 1..Len(stream) : stream'[p] = stream[p]
        /\ stream'[Len(stream) + 1] = Echo(typed[n].line)
  BY EchoForm
<1>2. /\ kind' = kind /\ link' = link /\ cur' = cur /\ pc' = pc /\ gaveup' = gaveup
      /\ answered' = answered /\ buf' = buf /\ link = "open"
  BY DEF EchoAtArrival, toolVars
<1>3. /\ cur \in 0..N /\ N \in Nat /\ Len(typed) \in Nat /\ Len(stream) \in Nat /\ Posted \in Nat
      /\ Ran \in Int /\ Emitted \in Int /\ Due \in Int /\ Order
  BY <1>2, Numbers DEF PromptOrder
<1>4. Longer
  BY <1>1, <1>2, <1>3 DEF Longer
<1>5. Posted' = Posted /\ Ran' = Ran /\ Due' = Due
  BY <1>1, <1>2 DEF Posted, Ran, Due
<1>6. Ran >= 0 /\ Ran + n - 1 \in Nat /\ typed[n].line = LineNo(Ran + n - 1)
  BY <1>1, <1>3 DEF Order, LinesInOrder, Ran
<1>7. /\ (EchoOut => EchoOut') /\ (Emitted' = Emitted \/ Emitted' = Emitted + 1) /\ Emitted' \in Int
  <2>1. EchoOut => EchoOut'
    <3>1. Len(typed) >= 1 /\ typed[1].echoed => typed'[1].echoed
      <4> SUFFICES ASSUME Len(typed) >= 1, typed[1].echoed PROVE typed'[1].echoed
        OBVIOUS
      <4>1. 1 \in 1..Len(typed)
        BY <1>3
      <4>2. typed'[1].echoed = IF 1 = n THEN TRUE ELSE typed[1].echoed
        BY <1>1, <4>1
      <4>3. CASE 1 = n
        BY <4>2, <4>3
      <4>4. CASE 1 # n
        BY <4>2, <4>4
      <4> QED
        BY <4>3, <4>4
    <3> QED
      BY <1>1, <1>5, <3>1 DEF EchoOut
  <2> QED
    BY <1>3, <1>5, <2>1 DEF Emitted
<1>8. stream'[Len(stream) + 1] \in PromptMarker <=> Ran = 0 /\ n = 1
  <2>1. stream'[Len(stream) + 1] \in PromptMarker <=> Ran + n - 1 = 0
    BY <1>1, <1>6, LineOrder
  <2> QED
    BY <1>3, <1>6, <2>1
<1>9. Ran = 0 /\ n = 1 => Emitted = 0 /\ Emitted' = 1
  <2> SUFFICES ASSUME Ran = 0, n = 1 PROVE Emitted = 0 /\ Emitted' = 1
    OBVIOUS
  <2>1. ~EchoOut /\ EchoOut'
    <3>1. 1 \in 1..Len(typed) /\ Len(typed) >= 1 /\ Len(typed') >= 1
      BY <1>1, <1>3
    <3>2. typed'[1].echoed = TRUE
      BY <1>1, <3>1
    <3>3. ~typed[1].echoed
      BY <1>1
    <3> QED
      BY <1>5, <3>1, <3>2, <3>3 DEF EchoOut
  <2> QED
    BY <1>5, <2>1 DEF Emitted
<1>10. PICK num : Numbered(num)
  BY <1>3 DEF Order
<1>11. PICK f : f = [p \in 1..Len(stream') |-> IF p \in 1..Len(stream) THEN num[p] ELSE 1]
  OBVIOUS
<1>12. PICK new : new = (Len(stream) + 1)..Len(stream')
  OBVIOUS
<1>13. /\ f \in [1..Len(stream') -> Nat]
       /\ \A p \in 1..Len(stream) : f[p] = num[p]
       /\ f[Len(stream) + 1] = 1 /\ new = {Len(stream) + 1}
  BY <1>1, <1>3, <1>10, <1>11, <1>12 DEF Numbered, Counted
<1>14. Numbered(f)'
  <2>1. \A p \in new : stream'[p] \in PromptMarker => Emitted < f[p] /\ f[p] <= Emitted'
    BY <1>8, <1>9, <1>13
  <2>2. \A p, q \in new :
          p < q /\ stream'[p] \in PromptMarker /\ stream'[q] \in PromptMarker => f[p] < f[q]
    BY <1>3, <1>13
  <2>3. \A p \in new, j \in 1..N :
          stream'[p] \in PromptMarker /\ j + 2 <= f[p] => ReadBefore(j, p)'
    BY <1>3, <1>13
  <2>4. Due <= Emitted /\ Emitted <= Emitted'
    BY <1>3, <1>7 DEF Order
  <2> QED
    BY <1>4, <1>5, <1>7, <1>10, <1>12, <1>13, <2>1, <2>2, <2>3, <2>4, GrownNumbers
<1>15. LinesInOrder'
  BY <1>1, <1>3, <1>5 DEF Order, LinesInOrder, LineNo
<1>16. \A j \in 1..N : j < Ran' => Under(j)'
  BY <1>3, <1>4, <1>5, LongerUnder DEF Order
<1>17. Due' <= Emitted'
  BY <1>3, <1>5, <1>7 DEF Order
<1> QED
  BY <1>2, <1>14, <1>15, <1>16, <1>17 DEF PromptOrder, Order

\* A line that the shell takes keeps the numbering and adds one marker, or two.
LEMMA ShellOrder ==
  ASSUME TypeInv, PromptOrder, Shell
  PROVE  PromptOrder'
<1>0. CASE ~(kind = "prompt" /\ link = "open")
  <2>1. /\ kind' = kind /\ link' = link /\ cur' = cur /\ gaveup' = gaveup /\ answered' = answered
        /\ buf' = buf /\ link # "broken"
    BY DEF Shell, toolVars
  <2>2. CASE link = "closed"
    <3>1. stream' = stream
      BY <2>2 DEF Shell
    <3> QED
      BY <2>1, <2>2, <3>1 DEF PromptOrder, Counted, ReadBefore, Due, PromptMarker
  <2> QED
    BY <1>0, <2>1, <2>2 DEF PromptOrder, TypeInv
<1> SUFFICES ASSUME kind = "prompt", link = "open" PROVE PromptOrder'
  BY <1>0
<1> DEFINE line == typed[1].line
           l == Len(stream)
           m == Len(typed)
<1>1. PICK e, t :
        /\ e = (IF typed[1].echoed THEN 0 ELSE 1) /\ t = (IF typed[1].line = Ps1 THEN 0 ELSE 1)
  OBVIOUS
<1>2. /\ m >= 1
      /\ Len(typed') = m - 1
      /\ \A p \in 1..m - 1 : typed'[p] = typed[p + 1]
      /\ stream' \in Seq(Items)
      /\ Len(stream') = l + e + t + 1
      /\ \A p \in 1..l : stream'[p] = stream[p]
      /\ e = 1 => stream'[l + 1] = Echo(line)
      /\ t = 1 => stream'[l + e + 1] = Text(line)
      /\ stream'[l + e + t + 1] = Prompt
  BY <1>1, ShellForm, ZenonT(60)
<1>3. /\ kind' = kind /\ link' = link /\ cur' = cur /\ pc' = pc /\ gaveup' = gaveup
      /\ answered' = answered /\ buf' = buf
  BY DEF Shell, toolVars
<1>4. /\ cur \in 0..N /\ N \in Nat /\ l \in Nat /\ m \in Nat /\ Posted \in Nat
      /\ Ran \in Int /\ Emitted \in Int /\ Due \in Int /\ Order /\ e \in 0..1 /\ t \in 0..1
  BY <1>1, Numbers DEF PromptOrder
<1>5. Longer
  BY <1>2, <1>3, <1>4 DEF Longer
<1>6. Posted' = Posted /\ Ran' = Ran + 1 /\ Due' = Due /\ Ran >= 0
  BY <1>2, <1>3, <1>4 DEF Posted, Ran, Due, Order, LinesInOrder
<1>7. EchoOut' /\ Emitted' = Ran + 2
  BY <1>4, <1>6 DEF EchoOut, Emitted
<1>8. line = LineNo(Ran)
  <2>1. 1 \in 1..m /\ Ran + 1 - 1 = Ran
    BY <1>2, <1>4
  <2> QED
    BY <1>4, <2>1 DEF Order, LinesInOrder
<1>9. /\ Ran = 0 => t = 0 /\ line = Ps1 /\ Emitted = 1 - e
      /\ Ran # 0 => t = 1 /\ line = Cmd(Ran) /\ Emitted = Ran + 1 /\ Echo(line) \notin PromptMarker
  <2>1. CASE Ran = 0
    BY <1>1, <1>2, <1>4, <1>8, <2>1 DEF LineNo, Emitted, EchoOut
  <2>2. CASE Ran # 0
    <3>1. line = Cmd(Ran) /\ t = 1
      BY <1>1, <1>8, <2>2, LineNames DEF LineNo
    <3>2. Emitted = Ran + 1
      BY <1>4, <1>6, <2>2 DEF EchoOut, Emitted
    <3>3. Echo(line) \notin PromptMarker
      BY <1>4, <1>6, <1>8, <2>2, LineOrder
    <3> QED
      BY <2>2, <3>1, <3>2, <3>3
  <2> QED
    BY <2>1, <2>2
<1>10. PICK num : Numbered(num)
  BY <1>4 DEF Order
<1>11. PICK f : f = [p \in 1..Len(stream') |->
                       IF p \in 1..l THEN num[p] ELSE IF p = Len(stream') THEN Ran + 2 ELSE 1]
  OBVIOUS
<1>12. PICK new : new = (l + 1)..Len(stream')
  OBVIOUS
<1>13. /\ f \in [1..Len(stream') -> Nat]
       /\ \A p \in 1..l : f[p] = num[p]
       /\ f[l + e + t + 1] = Ran + 2
       /\ \A p \in new : p # l + e + t + 1 => f[p] = 1
  <2>1. num \in [1..l -> Nat]
    BY <1>10 DEF Numbered, Counted
  <2>2. Ran + 2 \in Nat /\ (l + e + t + 1 \in 1..Len(stream')) /\ l + e + t + 1 \notin 1..l
    <3>1. Ran + 2 \in Nat
      BY <1>4, <1>6
    <3>2. l \in Nat /\ e \in 0..1 /\ t \in 0..1
      BY <1>4
    <3>3. Len(stream') = l + e + t + 1
      BY <1>2
    <3> HIDE DEF l
    <3>4. l + e + t + 1 \in 1..l + e + t + 1 /\ l + e + t + 1 \notin 1..l
      BY <3>2
    <3> QED
      BY <3>1, <3>3, <3>4
  <2>3. \A p \in new : p \in 1..Len(stream') /\ p \notin 1..l
    BY <1>4, <1>12
  <2>4. \A p \in 1..l : p \in 1..Len(stream')
    BY <1>2, <1>4
  <2> QED
    BY <1>2, <1>11, <2>1, <2>2, <2>3, <2>4
<1>14. ASSUME NEW p \in new, stream'[p] \in PromptMarker
       PROVE  p = l + e + t + 1 \/ (p = l + 1 /\ e = 1 /\ t = 0 /\ Ran = 0)
  <2>1. p = l + e + t + 1 \/ (p = l + 1 /\ e = 1) \/ (p = l + e + 1 /\ t = 1)
    <3>1. l \in Nat /\ e \in 0..1 /\ t \in 0..1
      BY <1>4
    <3>2. Len(stream') = l + e + t + 1
      BY <1>2
    <3>3. p \in (l + 1)..(l + e + t + 1)
      BY <1>12, <3>2
    <3> HIDE DEF l
    <3> QED
      BY <3>1, <3>3
  <2>2. ~(p = l + e + 1 /\ t = 1)
    BY <1>2, <1>14, LineOrder
  <2>3. p = l + 1 /\ e = 1 => Ran = 0
    BY <1>2, <1>9, <1>14
  <2> QED
    BY <1>9, <2>1, <2>2, <2>3
<1>15. ASSUME NEW j \in 1..N, j < Ran + 1, NEW r, r = l + e + t + 1
       PROVE  ReadBefore(j, r)'
  <2>0. r \in Nat /\ r >= l + 1 /\ l + 1 \in 1..l + 1
    BY <1>4, <1>15
  <2>1. CASE j < Ran
    <3>1. ReadBefore(j, l + 1)
      BY <1>4, <2>1 DEF Order, Under
    <3> QED
      BY <1>5, <2>0, <3>1, LongerRead
  <2>2. CASE j = Ran
    <3>1. t = 1 /\ stream'[l + e + 1] = Text(Cmd(j)) /\ l + e + 1 \in 1..r - 1
      BY <1>2, <1>4, <1>6, <1>9, <1>15, <2>2
    <3> QED
      BY <3>1 DEF ReadBefore
  <2> QED
    BY <1>4, <1>15, <2>1, <2>2
<1>16. Emitted <= Emitted' /\ Due <= Emitted /\ Emitted' \in Int
  BY <1>4, <1>6, <1>7, <1>9 DEF Order
<1>17. Numbered(f)'
  <2>1. \A p \in new : stream'[p] \in PromptMarker => Emitted < f[p] /\ f[p] <= Emitted'
    <3> SUFFICES ASSUME NEW p \in new, stream'[p] \in PromptMarker
                 PROVE  Emitted < f[p] /\ f[p] <= Emitted'
      OBVIOUS
    <3>1. CASE p = l + e + t + 1
      BY <1>4, <1>6, <1>7, <1>9, <1>13, <3>1
    <3>2. CASE p = l + 1 /\ e = 1 /\ t = 0 /\ Ran = 0
      <4>1. p # l + e + t + 1
        BY <1>4, <3>2
      <4> QED
        BY <1>7, <1>9, <1>13, <3>2, <4>1
    <3> QED
      BY <1>14, <3>1, <3>2
  <2>2. \A p, q \in new :
          p < q /\ stream'[p] \in PromptMarker /\ stream'[q] \in PromptMarker => f[p] < f[q]
    <3> SUFFICES ASSUME NEW p \in new, NEW q \in new, p < q, stream'[p] \in PromptMarker,
                        stream'[q] \in PromptMarker
                 PROVE  f[p] < f[q]
      OBVIOUS
    <3>1. p \in l + 1 .. l + e + t + 1 /\ q \in l + 1 .. l + e + t + 1
      BY <1>2, <1>12
    <3>2. p # l + e + t + 1
      BY <1>4, <3>1
    <3>3. p = l + 1 /\ Ran = 0
      BY <1>14, <3>2
    <3>4. q = l + e + t + 1
      BY <1>4, <1>14, <3>1, <3>3
    <3> QED
      BY <1>13, <3>2, <3>3, <3>4
  <2>3. ASSUME NEW p \in new, NEW j \in 1..N, stream'[p] \in PromptMarker, j + 2 <= f[p]
        PROVE  ReadBefore(j, p)'
    <3>1. p = l + e + t + 1
      <4> SUFFICES ASSUME p # l + e + t + 1 PROVE FALSE
        OBVIOUS
      <4>1. f[p] = 1
        BY <1>13
      <4> QED
        BY <1>4, <2>3, <4>1
    <3>2. j < Ran + 1
      BY <1>4, <1>13, <2>3, <3>1
    <3> QED
      BY <1>15, <3>1, <3>2
  <2> QED
    BY SMTT(60), <1>5, <1>6, <1>10, <1>12, <1>13, <1>16, <2>1, <2>2, <2>3, GrownNumbers
<1>18. LinesInOrder'
  <2>1. \A p \in 1..m - 1 : p + 1 \in 1..m /\ Ran + (p + 1) - 1 = (Ran + 1) + p - 1
    BY <1>4
  <2> QED
    BY SMTT(60), <1>2, <1>4, <1>6, <2>1 DEF Order, LinesInOrder, LineNo
<1>19. \A j \in 1..N : j < Ran' => Under(j)'
  <2> SUFFICES ASSUME NEW j \in 1..N, j < Ran' PROVE Under(j)'
    OBVIOUS
  <2>1. PICK r : r = l + e + t + 1
    OBVIOUS
  <2>2. ReadBefore(j, r)' /\ r \in Nat /\ r <= Len(stream') /\ Len(stream') \in Nat
    BY <1>2, <1>4, <1>6, <1>15, <2>1
  <2>3. \A q \in 1..r - 1 : q \in 1..(Len(stream') + 1) - 1
    BY <2>2
  <2> QED
    BY <2>2, <2>3 DEF Under, ReadBefore
<1>20. Due' <= Emitted'
  BY <1>4, <1>6, <1>16
<1> QED
  BY <1>3, <1>17, <1>18, <1>19, <1>20 DEF PromptOrder, Order

\* A step that reads keeps the numbers, as long as no marker above Due is lost.
LEMMA ReadCounted ==
  ASSUME TypeInv, NEW n, Moved(n), Shifted(n), NEW num, Counted(num), Due' \in Int,
         \A p \in 1..Len(stream) : p > n /\ stream[p] \in PromptMarker => num[p] > Due'
  PROVE  \E f : Counted(f)' /\ \A p \in 1..Len(stream') : f[p] = num[p + n]
<1>1. /\ n \in Nat /\ n <= Len(stream) /\ Len(stream) \in Nat /\ Len(stream') = Len(stream) - n
      /\ \A k \in 1..Len(stream') : stream'[k] = stream[k + n]
      /\ N \in Nat
  BY Numbers DEF Moved, Shifted
<1>4. \A p \in 1..Len(stream') : p + n \in 1..Len(stream) /\ p + n > n /\ p \in 1..Len(stream') + 1
  BY <1>1
<1>5. PICK f : f = [p \in 1..Len(stream') |-> num[p + n]]
  OBVIOUS
<1>6. f \in [1..Len(stream') -> Nat] /\ \A p \in 1..Len(stream') : f[p] = num[p + n]
  BY <1>4, <1>5 DEF Counted
<1>7. \A p \in 1..Len(stream') : stream'[p] \in PromptMarker => f[p] > Due'
  BY <1>1, <1>4, <1>6
<1>8. \A p, q \in 1..Len(stream') :
        p < q /\ stream'[p] \in PromptMarker /\ stream'[q] \in PromptMarker => f[p] < f[q]
  <2> SUFFICES ASSUME NEW p \in 1..Len(stream'), NEW q \in 1..Len(stream'), p < q,
                      stream'[p] \in PromptMarker, stream'[q] \in PromptMarker
               PROVE  f[p] < f[q]
    OBVIOUS
  <2>1. p + n < q + n /\ stream[p + n] \in PromptMarker /\ stream[q + n] \in PromptMarker
    BY <1>1
  <2> QED
    BY <1>4, <1>6, <2>1 DEF Counted
<1>9. ASSUME NEW p \in 1..Len(stream'), NEW j \in 1..N, stream'[p] \in PromptMarker, j + 2 <= f[p]
      PROVE  ReadBefore(j, p)'
  <2>1. ReadBefore(j, p + n)
    BY <1>1, <1>4, <1>6, <1>9 DEF Counted
  <2> QED
    BY <1>4, <2>1, MovedRead
<1>10. Counted(f)'
  BY <1>6, <1>7, <1>8, <1>9 DEF Counted, PromptMarker
<1> QED
  BY <1>6, <1>10

\* ... and the order of the lines behind them.
LEMMA ReadOrder ==
  ASSUME TypeInv, Order, NEW n, Moved(n), Shifted(n), typed' = typed, Posted' = Posted,
         NEW num, Numbered(num), Due' \in Int, Due' <= Emitted,
         \A p \in 1..Len(stream) : p > n /\ stream[p] \in PromptMarker => num[p] > Due'
  PROVE  Order'
<1>1. /\ n \in Nat /\ n <= Len(stream) /\ Len(stream) \in Nat /\ Len(stream') = Len(stream) - n
      /\ \A k \in 1..Len(stream') : stream'[k] = stream[k + n]
      /\ N \in Nat /\ Ran \in Int /\ Emitted \in Int
  BY Numbers DEF Moved, Shifted
<1>2. Ran' = Ran /\ Emitted' = Emitted
  BY DEF Ran, Emitted, EchoOut
<1>3. LinesInOrder'
  BY <1>2 DEF Order, LinesInOrder, LineNo
<1>4. PICK f : Counted(f)' /\ \A p \in 1..Len(stream') : f[p] = num[p + n]
  BY ReadCounted DEF Numbered
<1>5. \A p \in 1..Len(stream') : p + n \in 1..Len(stream)
  BY <1>1
<1>6. \A p \in 1..Len(stream') : stream'[p] \in PromptMarker => f[p] <= Emitted'
  BY <1>1, <1>2, <1>4, <1>5 DEF Numbered
<1>10. Numbered(f)'
  BY <1>4, <1>6 DEF Numbered, PromptMarker
<1>11. ASSUME NEW j \in 1..N, j < Ran'
       PROVE  Under(j)'
  <2>1. PICK r : r = Len(stream') + 1
    OBVIOUS
  <2>2. r \in 1..Len(stream') + 1 /\ r + n = Len(stream) + 1
    BY <1>1, <2>1
  <2>3. ReadBefore(j, r + n)
    BY <1>2, <1>11, <2>2 DEF Order, Under
  <2>4. ReadBefore(j, r)'
    BY <2>2, <2>3, MovedRead
  <2> QED
    BY <2>1, <2>4 DEF Under, ReadBefore
<1> QED
  BY <1>2, <1>3, <1>10, <1>11 DEF Order

\* The markers under way can be numbered, whether the connection holds or not.
LEMMA OrderCounts == ASSUME PromptOrder, kind = "prompt" PROVE \E num : Counted(num)
  BY DEF PromptOrder, Order, Numbered

\* Once the tool has closed nothing is under way.
LEMMA ClosedOrder ==
  ASSUME TypeInv, link' = "closed", stream' = <<>>
  PROVE  PromptOrder'
<1>1. PICK f : f = [p \in 1..Len(stream') |-> 0]
  OBVIOUS
<1>2. Counted(f)'
  BY <1>1 DEF Counted
<1> QED
  BY <1>2 DEF PromptOrder

\* What a step that reads and goes on keeps, whether the connection holds or not.
LEMMA OnOrder ==
  ASSUME TypeInv, PromptOrder, kind = "prompt", kind' = kind, link' = link, typed' = typed,
         NEW n, Moved(n), Shifted(n), Posted' = Posted, Due' \in Int,
         \A num : Counted(num) =>
           \A p \in 1..Len(stream) : p > n /\ stream[p] \in PromptMarker => num[p] > Due',
         \A num : Numbered(num) => (Due <= Emitted => Due' <= Emitted)
  PROVE  PromptOrder'
<1>1. CASE link = "open"
  <2>1. Order
    BY <1>1 DEF PromptOrder
  <2>2. PICK num : Numbered(num)
    BY <2>1 DEF Order
  <2>3. Due' <= Emitted
    BY <2>1, <2>2 DEF Order
  <2>4. \A p \in 1..Len(stream) : p > n /\ stream[p] \in PromptMarker => num[p] > Due'
    BY <2>2 DEF Numbered
  <2>5. Order'
    BY <2>1, <2>2, <2>3, <2>4, ReadOrder
  <2> QED
    BY <1>1, <2>5 DEF PromptOrder
<1>2. CASE link # "open"
  <2>1. PICK num : Counted(num)
    BY <1>2 DEF PromptOrder
  <2>2. \A p \in 1..Len(stream) : p > n /\ stream[p] \in PromptMarker => num[p] > Due'
    BY <2>1
  <2>3. \E f : Counted(f)'
    BY <2>1, <2>2, ReadCounted
  <2> QED
    BY <1>2, <2>3 DEF PromptOrder
<1> QED
  BY <1>1, <1>2

\* Every step keeps the numbering.
LEMMA OrderStep == ASSUME TypeInv, PromptOrder, [Next]_vars PROVE PromptOrder'
<1>0. kind' = kind
  BY KindKept
<1>1. CASE Send
  BY <1>1, SendOrder
<1>2. CASE SendIntoTheVoid \/ SendRaises
  <2>1. /\ link' = "broken" /\ link = "broken" /\ stream' = stream /\ buf' = buf /\ answered' = answered
        /\ cur' = cur /\ gaveup' = gaveup
    BY <1>2 DEF SendIntoTheVoid, SendRaises, Wait, TypeInv
  <2> QED
    BY <1>0, <2>1 DEF PromptOrder, Counted, ReadBefore, Due, PromptMarker
<1>3. CASE Receive
  <2> SUFFICES ASSUME kind = "prompt" PROVE PromptOrder'
    BY <1>0 DEF PromptOrder
  <2>1. PICK n \in 0..Len(stream) : Moved(n) /\ (Reads(n) \/ Finds(n))
    BY <1>3, ReceiveForm
  <2>2. kind' = kind /\ typed' = typed /\ gaveup' = gaveup /\ pc = "waiting"
    BY <1>3 DEF Receive
  <2>3. cur \in 0..N /\ N \in Nat /\ Cardinality(gaveup) \in Nat /\ Due \in Int /\ Emitted \in Int
        /\ Len(stream) \in Nat
    BY Numbers
  <2>4. CASE Reads(n)
    <3>1. Shifted(n) /\ Posted' = Posted /\ Due' = Due /\ link' = link
      BY <2>2, <2>4 DEF Reads, Posted, Due
    <3>2. \A num : Counted(num) =>
            \A p \in 1..Len(stream) : p > n /\ stream[p] \in PromptMarker => num[p] > Due'
      BY <3>1 DEF Counted
    <3> QED
      BY <2>1, <2>2, <2>3, <3>1, <3>2, OnOrder
  <2>5. CASE Finds(n) /\ cur < N
    <3>1. cur' = cur + 1 /\ pc' = "ready" /\ link' = link /\ Shifted(n)
      BY <2>3, <2>5 DEF Finds, Onward
    <3>2. Posted' = Posted /\ Due' = Due + 1 /\ Due' \in Int
      BY <2>2, <2>3, <3>1 DEF Posted, Due
    <3>3. PICK k \in 1..n : stream[k] \in PromptMarker
      BY <2>5 DEF Finds, Marker
    <3>4. ASSUME NEW num, Counted(num)
          PROVE  k \in 1..Len(stream) /\ num \in [1..Len(stream) -> Nat] /\ num[k] >= Due'
      BY <2>3, <3>2, <3>3, <3>4, SMTT(60) DEF Counted
    <3>5. ASSUME NEW num, Counted(num), NEW p \in 1..Len(stream), p > n, stream[p] \in PromptMarker
          PROVE  num[p] > Due'
      <4>1. k < p /\ k \in 1..Len(stream) /\ num \in [1..Len(stream) -> Nat] /\ num[k] >= Due'
        BY <2>3, <3>4, <3>5
      <4>2. num[k] < num[p] /\ num[p] \in Nat /\ num[k] \in Nat
        BY <3>3, <3>5, <4>1 DEF Counted
      <4> QED
        BY <2>3, <3>2, <4>1, <4>2
    <3>6. ASSUME NEW num, Numbered(num)
          PROVE  Due' <= Emitted
      <4>1. k \in 1..Len(stream) /\ num \in [1..Len(stream) -> Nat] /\ num[k] >= Due'
        BY <3>4, <3>6 DEF Numbered
      <4>2. num[k] <= Emitted /\ num[k] \in Nat
        BY <3>3, <3>6, <4>1 DEF Numbered
      <4> QED
        BY <2>3, <3>2, <4>1, <4>2
    <3> QED
      BY <2>1, <2>2, <3>1, <3>2, <3>5, <3>6, OnOrder
  <2>6. CASE Finds(n) /\ ~(cur < N)
    <3>1. link' = "closed" /\ stream' = <<>>
      BY <2>3, <2>6 DEF Finds, Onward
    <3> QED
      BY <3>1, ClosedOrder
  <2> QED
    BY <2>1, <2>4, <2>5, <2>6
<1>4. CASE GiveUp
  <2> SUFFICES ASSUME kind = "prompt" PROVE PromptOrder'
    BY <1>0 DEF PromptOrder
  <2>1. Moved(0) /\ GivesUp /\ (cur < N => Shifted(0))
    BY <1>4, GiveUpForm
  <2>2. kind' = kind /\ typed' = typed /\ pc = "waiting" /\ gaveup' = gaveup \cup {cur}
    BY <1>4, <2>1 DEF GiveUp, GivesUp
  <2>3. /\ cur \in 0..N /\ N \in Nat /\ IsFiniteSet(gaveup) /\ Cardinality(gaveup) \in Nat
        /\ Due \in Int /\ Emitted \in Int
    BY Numbers
  <2>4. CASE cur < N
    <3>1. cur' = cur + 1 /\ pc' = "ready" /\ link' = link /\ Shifted(0)
      BY <2>1, <2>3, <2>4 DEF GivesUp, Onward
    <3>2. Posted' = Posted
      BY <2>2, <2>3, <3>1 DEF Posted
    <3>3. cur \notin gaveup
      BY <2>2, <2>3 DEF TypeInv, Waited
    <3>4. Cardinality(gaveup') = Cardinality(gaveup) + 1
      BY <2>2, <2>3, <3>3, FS_AddElement
    <3>5. Due' = Due
      BY <2>3, <3>1, <3>4 DEF Due
    <3>6. \A num : Counted(num) =>
            \A p \in 1..Len(stream) : p > 0 /\ stream[p] \in PromptMarker => num[p] > Due'
      BY <3>5 DEF Counted
    <3> QED
      BY <2>1, <2>2, <2>3, <3>1, <3>2, <3>5, <3>6, OnOrder
  <2>5. CASE ~(cur < N)
    <3>1. link' = "closed" /\ stream' = <<>>
      BY <2>1, <2>3, <2>5 DEF GivesUp, Onward
    <3> QED
      BY <3>1, ClosedOrder
  <2> QED
    BY <2>4, <2>5
<1>5. CASE EchoAtArrival
  BY <1>5, EchoOrder
<1>6. CASE Shell
  BY <1>6, ShellOrder
<1>7. CASE Break
  <2> SUFFICES ASSUME kind = "prompt" PROVE PromptOrder'
    BY <1>0 DEF PromptOrder
  <2>1. PICK n \in 0..Len(stream) : stream' = SubSeq(stream, 1, n)
    BY <1>7 DEF Break
  <2>2. Len(stream') = n /\ Len(stream) \in Nat /\ \A p \in 1..n : stream'[p] = stream[p]
    BY <2>1, SplitForm DEF TypeInv
  <2>3. /\ cur' = cur /\ gaveup' = gaveup /\ answered' = answered /\ buf' = buf /\ link' = "broken"
    BY <1>7 DEF Break, toolVars
  <2>4. PICK num : Counted(num)
    BY OrderCounts
  <2>5. PICK f : f = [p \in 1..n |-> num[p]]
    OBVIOUS
  <2>6. \A p \in 1..n : p \in 1..Len(stream) /\ \A q \in 1..p - 1 : q \in 1..n
    BY <2>2
  <2>7. Due' = Due
    BY <2>3 DEF Due
  <2>8. f \in [1..n -> Nat] /\ \A p \in 1..n : f[p] = num[p]
    BY <2>4, <2>5, <2>6 DEF Counted
  <2>9. \A j : \A p \in 1..n : ReadBefore(j, p) => ReadBefore(j, p)'
    BY <2>2, <2>3, <2>6 DEF ReadBefore
  <2>10. \A p \in 1..n, j \in 1..N :
           stream'[p] \in PromptMarker /\ j + 2 <= f[p] => ReadBefore(j, p)'
    BY <2>2, <2>4, <2>6, <2>8, <2>9 DEF Counted
  <2>11. /\ \A p \in 1..n : stream'[p] \in PromptMarker => f[p] > Due'
         /\ \A p, q \in 1..n :
              p < q /\ stream'[p] \in PromptMarker /\ stream'[q] \in PromptMarker => f[p] < f[q]
    BY <2>2, <2>4, <2>6, <2>7, <2>8 DEF Counted
  <2>12. Counted(f)'
    BY <2>2, <2>8, <2>10, <2>11 DEF Counted, PromptMarker
  <2> QED
    BY <2>3, <2>12 DEF PromptOrder
<1>8. CASE HangUp
  <2>1. link = "closed" /\ link' = "closed" /\ stream' = <<>>
    BY <1>8 DEF HangUp, TypeInv
  <2> QED
    BY <2>1, ClosedOrder
<1>9. CASE UNCHANGED vars
  BY <1>9 DEF vars, toolVars, PromptOrder, Order, LinesInOrder, Numbered, Counted, Under, ReadBefore, Ran,
     Posted, Emitted, EchoOut, Due, LineNo, PromptMarker
<1> QED
  BY <1>1, <1>2, <1>3, <1>4, <1>5, <1>6, <1>7, <1>8, <1>9 DEF Next, ToolStep

\* Every step keeps the bound on the lag.
LEMMA LagStep ==
  ASSUME TypeInv, PromptOrder, PromptLagIsBounded, [Next]_vars
  PROVE  PromptLagIsBounded'
<1>0. kind' = kind
  BY KindKept
<1>1. CASE Receive
  <2>1. PICK n \in 0..Len(stream) : Moved(n) /\ (Reads(n) \/ Finds(n))
    BY <1>1, ReceiveForm
  <2>2. gaveup' = gaveup /\ pc = "waiting"
    BY <1>1 DEF Receive
  <2>3. CASE Reads(n)
    BY <1>0, <2>2, <2>3 DEF Reads, PromptLagIsBounded, Latest
  <2>4. CASE Finds(n)
    <3>1. /\ Latest' = cur /\ buf' = {}
          /\ cur \in 0..N /\ N \in Nat /\ Len(stream) \in Nat /\ Cardinality(gaveup) \in Nat /\ Due \in Int
      BY <2>4, Numbers DEF Finds, Onward, Latest
    <3> SUFFICES ASSUME kind = "prompt", NEW j \in 1..cur - 1 - Cardinality(gaveup)
                 PROVE  j \in answered'
      BY <1>0, <2>2, <3>1 DEF PromptLagIsBounded
    <3>2. PICK num : Counted(num)
      BY OrderCounts
    <3>3. PICK k \in 1..n : stream[k] \in PromptMarker
      BY <2>4 DEF Finds, Marker
    <3>4. k \in 1..Len(stream) /\ num[k] \in Nat /\ num[k] > Due /\ Due = cur - Cardinality(gaveup)
      BY <3>1, <3>2, <3>3 DEF Counted, Due
    <3>5. j \in 1..N /\ j + 2 <= num[k]
      BY <3>1, <3>4
    <3>6. ReadBefore(j, k)
      BY <3>2, <3>3, <3>4, <3>5 DEF Counted
    <3>7. \A q \in 1..k - 1 : q \in 1..n
      BY <3>1
    <3>8. j \in answered \/ ReadOf(n, j)
      BY <3>6, <3>7 DEF ReadBefore, ReadOf
    <3> QED
      BY <2>1, <3>1, <3>5, <3>8 DEF Moved
  <2> QED
    BY <2>1, <2>3, <2>4
<1>2. CASE GiveUp
  <2>1. GivesUp
    BY <1>2, GiveUpForm
  <2>2. Latest' = cur /\ cur \in gaveup'
    BY <2>1, SessionAssumption DEF GivesUp, Onward, Latest, TypeInv
  <2> QED
    BY <2>2 DEF PromptLagIsBounded
<1>3. CASE Send \/ SendIntoTheVoid \/ SendRaises \/ UNCHANGED toolVars
  <2>1. Latest' = Latest /\ gaveup' = gaveup /\ answered' = answered
    BY <1>3 DEF Send, SendIntoTheVoid, SendRaises, Wait, toolVars, Latest
  <2> QED
    BY <1>0, <2>1 DEF PromptLagIsBounded
<1>4. EchoAtArrival \/ Shell \/ Break \/ HangUp \/ UNCHANGED vars => UNCHANGED toolVars
  BY DEF EchoAtArrival, Shell, Break, HangUp, vars
<1> QED
  BY <1>1, <1>2, <1>3, <1>4 DEF Next, ToolStep

-----------------------------------------------------------------------------
(* The session: theorems.                                                  *)

SessionInv ==
  TypeInv /\ MarkersHold /\ TokenOrder /\ AnswersWhole /\ PromptOrder /\ PromptLagIsBounded

\* The types of the session, the order of its markers and the numbers of its prompts are an
\* invariant of the tools' run() and of everything the receiver may do meanwhile.
THEOREM SessionInvariance == Spec => []SessionInv
<1>1. Init => SessionInv
  <2>1. Init => AnswersWhole
    BY DEF Init, AnswersWhole, SplitAnswersAreWhole, TokenLagIsBounded, Latest
  <2>2. Init => PromptLagIsBounded
    BY DEF Init, PromptLagIsBounded, Latest
  <2> QED
    BY <2>1, <2>2, InitTyped, InitMarkers, InitTokens, InitOrder DEF SessionInv
<1>2. SessionInv /\ [Next]_vars => SessionInv'
  BY TypeStep, MarkersStep, TokensStep, WholeStep, OrderStep, LagStep DEF SessionInv
<1> QED
  BY <1>1, <1>2, PTL DEF Spec

\* The split marker of telnet_run.py resynchronizes: an answer that ends with its marker lacks
\* no output of a command up to its own, whatever timed out before.
THEOREM SplitIsWhole == Spec => []SplitAnswersAreWhole
<1>1. SessionInv => SplitAnswersAreWhole
  BY DEF SessionInv, AnswersWhole
<1> QED
  BY <1>1, SessionInvariance, PTL

\* A token of the clock that shows in its own echo, too: as long as its lines are not echoed
\* before the shell takes them, an answer that ends with a token lags by half the number of
\* the commands before that had the same one, and by none if it was its own.
THEOREM TokenLags == Spec => []TokenLagIsBounded
<1>1. SessionInv => TokenLagIsBounded
  BY DEF SessionInv, AnswersWhole
<1> QED
  BY <1>1, SessionInvariance, PTL

\* With the prompt as the marker an answer lacks the output of its own command and of one
\* more for every wait that timed out, and never of more.
THEOREM PromptLags == Spec => []PromptLagIsBounded
<1>1. SessionInv => PromptLagIsBounded
  BY DEF SessionInv
<1> QED
  BY <1>1, SessionInvariance, PTL

-----------------------------------------------------------------------------
(* The deployment: commands.                                               *)

Pieces == {<<v, k>> : v \in Versions, k \in 1..Chunks} \cup {Conf[1], Torn}

Verbs == {"remount rw", "remount ro", "rm", "append", "decode", "chmod", "md5sum", "kill", "launch"}

Commands == [do : Verbs, path : Paths, data : Pieces, from : Paths]

\* A command of the tools is a Command.
LEMMA CommandType ==
  ASSUME NEW do \in Verbs, NEW path \in Paths, NEW data \in Pieces
  PROVE  Command(do, path, data) \in Commands
  BY DEF Command, Commands

\* So is any record of its parts.
LEMMA RecordType ==
  ASSUME NEW do \in Verbs, NEW path \in Paths, NEW data \in Pieces, NEW from \in Paths
  PROVE  [do |-> do, path |-> path, data |-> data, from |-> from] \in Commands
  BY DEF Commands

\* The verbs the lists use.
LEMMA VerbNames ==
  /\ "remount rw" \in Verbs /\ "remount ro" \in Verbs /\ "rm" \in Verbs /\ "append" \in Verbs
  /\ "decode" \in Verbs /\ "chmod" \in Verbs /\ "md5sum" \in Verbs /\ "kill" \in Verbs
  /\ "launch" \in Verbs
  BY DEF Verbs

\* The paths the lists use.
LEMMA PathNames ==
  /\ BIN \in Paths /\ CONF \in Paths /\ BIN_B64 \in Paths /\ CONF_B64 \in Paths /\ PNG \in Paths /\ GRAB \in Paths
  /\ Torn \in Pieces /\ Conf[1] \in Pieces
  BY DEF Paths, Pieces

\* No two of these paths are the same file.
LEMMA PathsDiffer ==
  /\ BIN # CONF /\ BIN # BIN_B64 /\ BIN # CONF_B64 /\ BIN # PNG /\ BIN # GRAB
  /\ CONF # BIN_B64 /\ CONF # CONF_B64 /\ CONF # PNG /\ CONF # GRAB
  /\ BIN_B64 # CONF_B64 /\ BIN_B64 # PNG /\ BIN_B64 # GRAB
  /\ CONF_B64 # PNG /\ CONF_B64 # GRAB /\ PNG # GRAB
  BY DEF BIN, CONF, BIN_B64, CONF_B64, PNG, GRAB

\* A list of one command that names no file.
LEMMA DoForm ==
  ASSUME NEW do \in Verbs
  PROVE  Do(do) \in Seq(Commands) /\ Len(Do(do)) = 1 /\ Do(do)[1] = Command(do, BIN, Torn)
<1> DEFINE c == Command(do, BIN, Torn)
<1>1. c \in Commands
  BY CommandType, PathNames
<1>2. Do(do) = <<c>>
  BY DEF Do
<1> SUFFICES Do(do) \in Seq(Commands) /\ Len(Do(do)) = 1 /\ Do(do)[1] = c
  OBVIOUS
<1> HIDE DEF c
<1> QED
  BY <1>1, <1>2, OneForm

\* A transfer sends its content a line at a time.
LEMMA AppendsForm ==
  ASSUME NEW content \in Seq(Pieces), NEW path \in Paths
  PROVE  /\ Appends(content, path) \in Seq(Commands) /\ Len(Appends(content, path)) = Len(content)
         /\ \A k \in 1..Len(content) : Appends(content, path)[k] = Command("append", path, content[k])
<1>1. Len(content) \in Nat /\ DOMAIN content = 1..Len(content) /\ \A k \in 1..Len(content) : content[k] \in Pieces
  OBVIOUS
<1>2. Appends(content, path) = [k \in 1..Len(content) |-> Command("append", path, content[k])]
  BY <1>1 DEF Appends
<1>3. \A k \in 1..Len(content) : Command("append", path, content[k]) \in Commands
  BY <1>1, CommandType, VerbNames
<1>4. Appends(content, path) \in Seq(Commands)
  BY <1>1, <1>2, <1>3
<1>5. DOMAIN Appends(content, path) = 1..Len(content)
  BY <1>2
<1>6. Len(Appends(content, path)) = Len(content)
  BY <1>1, <1>4, <1>5, LenProperties
<1> QED
  BY <1>2, <1>4, <1>6

\* The command that decodes a transfer.
LEMMA DecodeForm ==
  ASSUME NEW from \in Paths, NEW path \in Paths
  PROVE  /\ Decode(from, path) \in Commands
         /\ Decode(from, path) = [do |-> "decode", path |-> path, data |-> Torn, from |-> from]
<1>1. Decode(from, path) = [do |-> "decode", path |-> path, data |-> Torn, from |-> from]
  BY DEF Decode, Command
<1> QED
  BY <1>1, PathNames, VerbNames, RecordType

\* The parts of a command.
LEMMA CommandFields ==
  ASSUME NEW do, NEW path, NEW data
  PROVE  /\ Command(do, path, data).do = do /\ Command(do, path, data).path = path
         /\ Command(do, path, data).data = data /\ Command(do, path, data).from = path
  BY DEF Command

\* The parts of a removal.
LEMMA RmFields == ASSUME NEW path PROVE Rm(path).do = "rm" /\ Rm(path).path = path
  BY DEF Rm, Command

\* The parts of a decoding.
LEMMA DecodeFields ==
  ASSUME NEW from, NEW path
  PROVE  Decode(from, path).do = "decode" /\ Decode(from, path).path = path /\ Decode(from, path).from = from
<1>1. Decode(from, path) = [do |-> "decode", path |-> path, data |-> Torn, from |-> from]
  BY DEF Decode, Command
<1> QED
  BY <1>1

\* The parts of the commands that name no file.
LEMMA VerbFields ==
  /\ Command("remount rw", BIN, Torn).do = "remount rw" /\ Command("remount ro", BIN, Torn).do = "remount ro"
  /\ Command("chmod", BIN, Torn).do = "chmod" /\ Command("md5sum", BIN, Torn).do = "md5sum"
  /\ Command("kill", BIN, Torn).do = "kill" /\ Command("launch", BIN, Torn).do = "launch"
  /\ Command("kill", BIN, Torn).path = BIN /\ Command("launch", BIN, Torn).path = BIN
  BY DEF Command

\* The parts of a line of a transfer.
LEMMA AppendFields ==
  ASSUME NEW path, NEW data
  PROVE  /\ Command("append", path, data).do = "append" /\ Command("append", path, data).path = path
         /\ Command("append", path, data).data = data
  BY DEF Command

\* p pushes the content: both files removed, its lines, and the decoding.
Pushes(p, content, b64, final) ==
  /\ p \in Seq(Commands) /\ Len(p) = Len(content) + 3
  /\ p[1] = Rm(b64) /\ p[2] = Rm(final)
  /\ \A k \in 1..Len(content) : p[2 + k] = Command("append", b64, content[k])
  /\ p[Len(content) + 3] = Decode(b64, final)

\* What push_b64 sends.
LEMMA PushForm ==
  ASSUME NEW content \in Seq(Pieces), NEW b64 \in Paths, NEW final \in Paths
  PROVE  Pushes(push_b64(content, b64, final), content, b64, final)
<1> DEFINE r1 == Rm(b64)
           r2 == Rm(final)
           d == Decode(b64, final)
           first == <<r1, r2>>
           mid == Appends(content, b64)
           last == <<d>>
           n == Len(content)
           p == push_b64(content, b64, final)
<1>1. r1 \in Commands /\ r2 \in Commands /\ d \in Commands /\ n \in Nat
  <2>1. r1 \in Commands /\ r2 \in Commands
    BY CommandType, PathNames, VerbNames DEF Rm
  <2>2. d \in Commands
    BY DecodeForm
  <2> QED
    BY <2>1, <2>2
<1>2. p = Cat(Cat(first, mid), last)
  BY DEF push_b64, Cat
<1>3. /\ mid \in Seq(Commands) /\ Len(mid) = n
      /\ \A k \in 1..n : mid[k] = Command("append", b64, content[k])
  BY AppendsForm
<1>4. /\ first \in Seq(Commands) /\ Len(first) = 2 /\ first[1] = r1 /\ first[2] = r2
      /\ last \in Seq(Commands) /\ Len(last) = 1 /\ last[1] = d
  <2> HIDE DEF r1, r2, d
  <2> QED
    BY <1>1, OneForm, TwoForm
<1>5. Pushes(p, content, b64, final) <=>
        /\ p \in Seq(Commands) /\ Len(p) = n + 3
        /\ p[1] = r1 /\ p[2] = r2
        /\ \A k \in 1..n : p[2 + k] = Command("append", b64, content[k])
        /\ p[n + 3] = d
  BY DEF Pushes
<1>13. p = push_b64(content, b64, final)
  OBVIOUS
<1> HIDE DEF r1, r2, d, first, mid, last, p
<1>6. Cat(first, mid) \in Seq(Commands) /\ Joined(Cat(first, mid), first, mid)
  BY <1>3, <1>4, CatForm
<1>7. Cat(Cat(first, mid), last) \in Seq(Commands) /\ Joined(Cat(Cat(first, mid), last), Cat(first, mid), last)
  BY <1>4, <1>6, CatForm
<1> DEFINE a == Cat(first, mid)
<1>8. p \in Seq(Commands) /\ Joined(p, a, last) /\ Joined(a, first, mid)
  BY <1>2, <1>6, <1>7
<1> HIDE DEF a
<1>9. Len(a) = n + 2 /\ Len(p) = n + 3
  BY <1>1, <1>3, <1>4, <1>8 DEF Joined
<1>10. p[1] = r1 /\ p[2] = r2
  BY <1>1, <1>4, <1>8, <1>9 DEF Joined
<1>11. \A k \in 1..n : p[2 + k] = mid[k]
  BY <1>1, <1>3, <1>4, <1>8, <1>9 DEF Joined
<1>12. p[n + 3] = d
  <2>1. 1 \in 1..Len(last) /\ Len(a) + 1 = n + 3
    BY <1>1, <1>4, <1>9
  <2> QED
    BY <1>4, <1>8, <2>1 DEF Joined
<1> QED
  <2>1. \A k \in 1..n : p[2 + k] = Command("append", b64, content[k])
    BY <1>3, <1>11
  <2> QED
    BY <1>5, <1>8, <1>9, <1>10, <1>12, <1>13, <2>1

\* The list of deploy_dbgbar.py, position by position.
Deploys(s, v) ==
  /\ s \in Seq(Commands) /\ Len(s) = Chunks + 12
  /\ s[1] = Command("remount rw", BIN, Torn)
  /\ s[2] = Rm(BIN_B64) /\ s[3] = Rm(BIN)
  /\ \A k \in 1..Chunks : s[3 + k] = Command("append", BIN_B64, <<v, k>>)
  /\ s[Chunks + 4] = Decode(BIN_B64, BIN)
  /\ s[Chunks + 5] = Command("chmod", BIN, Torn)
  /\ s[Chunks + 6] = Command("md5sum", BIN, Torn)
  /\ s[Chunks + 7] = Rm(CONF_B64) /\ s[Chunks + 8] = Rm(CONF)
  /\ s[Chunks + 9] = Command("append", CONF_B64, Conf[1])
  /\ s[Chunks + 10] = Decode(CONF_B64, CONF)
  /\ s[Chunks + 11] = Command("kill", BIN, Torn)
  /\ s[Chunks + 12] = Command("launch", BIN, Torn)

\* A whole binary.
LEMMA WholeForm ==
  ASSUME NEW v \in Versions
  PROVE  /\ Whole(v) \in Seq(Pieces) /\ Len(Whole(v)) = Chunks
         /\ \A k \in 1..Chunks : Whole(v)[k] = <<v, k>>
<1>1. Chunks \in Nat /\ \A k \in 1..Chunks : <<v, k>> \in Pieces
  BY DeploymentAssumption DEF Pieces
<1>2. Whole(v) \in Seq(Pieces) /\ DOMAIN Whole(v) = 1..Chunks
  BY <1>1 DEF Whole
<1>3. Len(Whole(v)) = Chunks
  BY <1>1, <1>2, LenProperties
<1> QED
  BY <1>2, <1>3 DEF Whole

\* The binaries of two builds differ.
LEMMA WholeDiffers ==
  ASSUME NEW v \in Versions, NEW w \in Versions, Whole(v) = Whole(w)
  PROVE  v = w
<1>1. 1 \in 1..Chunks
  BY DeploymentAssumption
<1>2. <<v, 1>> = <<w, 1>>
  BY <1>1, WholeForm
<1> QED
  BY <1>2

\* The configuration is one line.
LEMMA ConfForm == Conf \in Seq(Pieces) /\ Len(Conf) = 1
  BY DEF Conf, Pieces

\* What deploy_dbgbar.py sends.
LEMMA DeployForm == ASSUME NEW v \in Versions PROVE Deploys(deploy(v), v)
<1> DEFINE rw == Do("remount rw")
           push == push_b64(Whole(v), BIN_B64, BIN)
           ch == Do("chmod")
           md == Do("md5sum")
           conf == push_b64(Conf, CONF_B64, CONF)
           ki == Do("kill")
           la == Do("launch")
           a == Cat(rw, push)
           b == Cat(a, ch)
           c == Cat(b, md)
           e == Cat(c, conf)
           f == Cat(e, ki)
           s == Cat(f, la)
<1>1. deploy(v) = s
  BY DEF deploy, Cat
<1>0. /\ rw[1] = Command("remount rw", BIN, Torn)
      /\ ch[1] = Command("chmod", BIN, Torn) /\ md[1] = Command("md5sum", BIN, Torn)
      /\ ki[1] = Command("kill", BIN, Torn) /\ la[1] = Command("launch", BIN, Torn)
  BY DoForm, VerbNames
<1>2. /\ rw \in Seq(Commands) /\ Len(rw) = 1 /\ ch \in Seq(Commands) /\ Len(ch) = 1
      /\ md \in Seq(Commands) /\ Len(md) = 1 /\ ki \in Seq(Commands) /\ Len(ki) = 1
      /\ la \in Seq(Commands) /\ Len(la) = 1
  BY DoForm, VerbNames
<1>3. Pushes(push, Whole(v), BIN_B64, BIN) /\ Pushes(conf, Conf, CONF_B64, CONF)
  BY PushForm, WholeForm, ConfForm, PathNames
<1>4. /\ Chunks \in Nat /\ Chunks >= 1
      /\ Len(push) = Chunks + 3 /\ Len(conf) = 4
      /\ push \in Seq(Commands) /\ conf \in Seq(Commands)
  BY <1>3, WholeForm, ConfForm, DeploymentAssumption DEF Pushes
<1> HIDE DEF rw, push, ch, md, conf, ki, la
<1>5. a \in Seq(Commands) /\ Joined(a, rw, push)
  BY <1>2, <1>4, CatForm
<1> HIDE DEF a
<1>6. b \in Seq(Commands) /\ Joined(b, a, ch)
  BY <1>2, <1>5, CatForm
<1> HIDE DEF b
<1>7. c \in Seq(Commands) /\ Joined(c, b, md)
  BY <1>2, <1>6, CatForm
<1> HIDE DEF c
<1>8. e \in Seq(Commands) /\ Joined(e, c, conf)
  BY <1>4, <1>7, CatForm
<1> HIDE DEF e
<1>9. f \in Seq(Commands) /\ Joined(f, e, ki)
  BY <1>2, <1>8, CatForm
<1> HIDE DEF f
<1>10. s \in Seq(Commands) /\ Joined(s, f, la)
  BY <1>2, <1>9, CatForm
<1> HIDE DEF s
<1>11. /\ Len(a) = Chunks + 4 /\ Len(b) = Chunks + 5 /\ Len(c) = Chunks + 6
       /\ Len(e) = Chunks + 10 /\ Len(f) = Chunks + 11 /\ Len(s) = Chunks + 12
  <2>1. Len(a) = Chunks + 4
    BY <1>2, <1>4, <1>5 DEF Joined
  <2>2. Len(b) = Chunks + 5
    BY <1>2, <1>4, <1>6, <2>1 DEF Joined
  <2>3. Len(c) = Chunks + 6
    BY <1>2, <1>4, <1>7, <2>2 DEF Joined
  <2>4. Len(e) = Chunks + 10
    BY <1>2, <1>4, <1>8, <2>3 DEF Joined
  <2>5. Len(f) = Chunks + 11
    BY <1>2, <1>4, <1>9, <2>4 DEF Joined
  <2>6. Len(s) = Chunks + 12
    BY <1>2, <1>4, <1>10, <2>5 DEF Joined
  <2> QED
    BY <2>1, <2>2, <2>3, <2>4, <2>5, <2>6
<1>12. s[Chunks + 12] = la[1] /\ \A p \in 1..Chunks + 11 : s[p] = f[p]
  <2>1. 1 \in 1..Len(la)
    BY <1>2
  <2> QED
    BY <1>4, <1>10, <1>11, <2>1 DEF Joined
<1>13. s[Chunks + 11] = ki[1] /\ \A p \in 1..Chunks + 10 : s[p] = e[p]
  <2>1. 1 \in 1..Len(ki) /\ Chunks + 11 \in 1..Chunks + 11
    BY <1>2, <1>4
  <2>2. f[Len(e) + 1] = ki[1] /\ \A p \in 1..Chunks + 10 : f[p] = e[p]
    BY <1>9, <1>11, <2>1 DEF Joined
  <2> QED
    BY <1>4, <1>11, <1>12, <2>1, <2>2
<1>14. (\A k \in 1..4 : s[Chunks + 6 + k] = conf[k]) /\ \A p \in 1..Chunks + 6 : s[p] = c[p]
  <2>1. (\A k \in 1..4 : e[Chunks + 6 + k] = conf[k]) /\ \A p \in 1..Chunks + 6 : e[p] = c[p]
    BY <1>4, <1>8, <1>11 DEF Joined
  <2>2. \A k \in 1..4 : Chunks + 6 + k \in 1..Chunks + 10
    BY <1>4
  <2>3. \A p \in 1..Chunks + 6 : p \in 1..Chunks + 10
    BY <1>4
  <2> QED
    BY <1>13, <2>1, <2>2, <2>3
<1>15. s[Chunks + 6] = md[1] /\ s[Chunks + 5] = ch[1] /\ \A p \in 1..Chunks + 4 : s[p] = a[p]
  <2>1. 1 \in 1..Len(md) /\ 1 \in 1..Len(ch)
    BY <1>2
  <2>2. c[Chunks + 6] = md[1] /\ \A p \in 1..Chunks + 5 : c[p] = b[p]
    BY <1>4, <1>7, <1>11, <2>1 DEF Joined
  <2>3. b[Chunks + 5] = ch[1] /\ \A p \in 1..Chunks + 4 : b[p] = a[p]
    BY <1>4, <1>6, <1>11, <2>1 DEF Joined
  <2> QED
    BY <1>4, <1>14, <2>2, <2>3
<1>16. s[1] = rw[1] /\ \A k \in 1..Chunks + 3 : s[1 + k] = push[k]
  <2>1. a[1] = rw[1] /\ \A k \in 1..Chunks + 3 : a[1 + k] = push[k]
    BY <1>2, <1>4, <1>5, <1>11 DEF Joined
  <2>2. 1 \in 1..Chunks + 4 /\ \A k \in 1..Chunks + 3 : 1 + k \in 1..Chunks + 4
    BY <1>4
  <2> QED
    BY <1>15, <2>1, <2>2
<1>17. s[2] = Rm(BIN_B64) /\ s[3] = Rm(BIN) /\ s[Chunks + 4] = Decode(BIN_B64, BIN)
  <2>1. push[1] = Rm(BIN_B64) /\ push[2] = Rm(BIN) /\ push[Chunks + 3] = Decode(BIN_B64, BIN)
    BY <1>3, WholeForm DEF Pushes
  <2>2. 1 \in 1..Chunks + 3 /\ 2 \in 1..Chunks + 3 /\ Chunks + 3 \in 1..Chunks + 3
        /\ 1 + (Chunks + 3) = Chunks + 4
    BY <1>4
  <2> QED
    BY <1>16, <2>1, <2>2
<1>18. \A k \in 1..Chunks : s[3 + k] = Command("append", BIN_B64, <<v, k>>)
  <2> SUFFICES ASSUME NEW k \in 1..Chunks PROVE s[3 + k] = Command("append", BIN_B64, <<v, k>>)
    OBVIOUS
  <2>1. push[2 + k] = Command("append", BIN_B64, Whole(v)[k]) /\ Whole(v)[k] = <<v, k>>
    BY <1>3, WholeForm DEF Pushes
  <2>2. 2 + k \in 1..Chunks + 3 /\ 1 + (2 + k) = 3 + k
    BY <1>4
  <2> QED
    BY <1>16, <2>1, <2>2
<1>19. /\ s[Chunks + 7] = Rm(CONF_B64) /\ s[Chunks + 8] = Rm(CONF)
       /\ s[Chunks + 9] = Command("append", CONF_B64, Conf[1])
       /\ s[Chunks + 10] = Decode(CONF_B64, CONF)
  <2>1. /\ conf[1] = Rm(CONF_B64) /\ conf[2] = Rm(CONF)
        /\ conf[3] = Command("append", CONF_B64, Conf[1])
        /\ conf[4] = Decode(CONF_B64, CONF)
    <3>1. 1 \in 1..Len(Conf) /\ Len(Conf) = 1
      BY ConfForm
    <3> QED
      BY <1>3, <3>1 DEF Pushes
  <2>2. /\ Chunks + 6 + 1 = Chunks + 7 /\ Chunks + 6 + 2 = Chunks + 8
        /\ Chunks + 6 + 3 = Chunks + 9 /\ Chunks + 6 + 4 = Chunks + 10
    BY <1>4
  <2>3. /\ s[Chunks + 6 + 1] = conf[1] /\ s[Chunks + 6 + 2] = conf[2]
        /\ s[Chunks + 6 + 3] = conf[3] /\ s[Chunks + 6 + 4] = conf[4]
    BY <1>14
  <2> QED
    BY <2>1, <2>2, <2>3
<1> QED
  BY <1>0, <1>1, <1>10, <1>11, <1>12, <1>13, <1>15, <1>16, <1>17, <1>18, <1>19 DEF Deploys

\* The files cleanup_dbgbar.py removes.
Listed == <<BIN, CONF, BIN_B64, CONF_B64, PNG, GRAB>>

\* They are files of the receiver.
LEMMA ListedForm ==
  /\ Listed[1] = BIN /\ Listed[2] = CONF /\ Listed[3] = BIN_B64 /\ Listed[4] = CONF_B64
  /\ Listed[5] = PNG /\ Listed[6] = GRAB
  /\ \A i \in 1..6 : Listed[i] \in Paths
<1>1. /\ Listed[1] = BIN /\ Listed[2] = CONF /\ Listed[3] = BIN_B64 /\ Listed[4] = CONF_B64
      /\ Listed[5] = PNG /\ Listed[6] = GRAB
  BY DEF Listed
<1>2. \A i \in 1..6 : i = 1 \/ i = 2 \/ i = 3 \/ i = 4 \/ i = 5 \/ i = 6
  OBVIOUS
<1> QED
  BY <1>1, <1>2, PathNames

\* The list of cleanup_dbgbar.py, position by position.
Cleans(s) ==
  /\ s \in Seq(Commands) /\ Len(s) = 9
  /\ s[1] = Command("kill", BIN, Torn)
  /\ s[2] = Command("remount rw", BIN, Torn)
  /\ \A i \in 1..6 : s[2 + i] = Rm(Listed[i])
  /\ s[9] = Command("remount ro", BIN, Torn)

\* What cleanup_dbgbar.py sends.
LEMMA CleanupForm == Cleans(cleanup)
<1> DEFINE ki == Do("kill")
           rw == Do("remount rw")
           r1 == Rm(BIN)
           r2 == Rm(CONF)
           r3 == Rm(BIN_B64)
           r4 == Rm(CONF_B64)
           r5 == Rm(PNG)
           r6 == Rm(GRAB)
           six == <<r1, r2, r3, r4, r5, r6>>
           ro == Do("remount ro")
           a == Cat(ki, rw)
           b == Cat(a, six)
           s == Cat(b, ro)
<1>1. cleanup = s
  BY DEF cleanup, Cat
<1>0. /\ ki[1] = Command("kill", BIN, Torn) /\ rw[1] = Command("remount rw", BIN, Torn)
      /\ ro[1] = Command("remount ro", BIN, Torn)
  BY DoForm, VerbNames
<1>2. /\ ki \in Seq(Commands) /\ Len(ki) = 1 /\ rw \in Seq(Commands) /\ Len(rw) = 1
      /\ ro \in Seq(Commands) /\ Len(ro) = 1
  BY DoForm, VerbNames
<1>3. /\ r1 \in Commands /\ r2 \in Commands /\ r3 \in Commands
      /\ r4 \in Commands /\ r5 \in Commands /\ r6 \in Commands
  BY CommandType, PathNames, VerbNames DEF Rm
<1>4. /\ r1 = Rm(Listed[1]) /\ r2 = Rm(Listed[2]) /\ r3 = Rm(Listed[3])
      /\ r4 = Rm(Listed[4]) /\ r5 = Rm(Listed[5]) /\ r6 = Rm(Listed[6])
  BY ListedForm
<1> HIDE DEF ki, rw, ro, r1, r2, r3, r4, r5, r6
<1>5. /\ six \in Seq(Commands) /\ Len(six) = 6
      /\ six[1] = r1 /\ six[2] = r2 /\ six[3] = r3 /\ six[4] = r4 /\ six[5] = r5 /\ six[6] = r6
  BY <1>3, SixForm
<1> HIDE DEF six
<1>6. \A i \in 1..6 : six[i] = Rm(Listed[i])
  <2>1. \A i \in 1..6 : i = 1 \/ i = 2 \/ i = 3 \/ i = 4 \/ i = 5 \/ i = 6
    OBVIOUS
  <2> QED
    BY <1>4, <1>5, <2>1
<1>7. a \in Seq(Commands) /\ Joined(a, ki, rw)
  BY <1>2, CatForm
<1> HIDE DEF a
<1>8. b \in Seq(Commands) /\ Joined(b, a, six)
  BY <1>5, <1>7, CatForm
<1> HIDE DEF b
<1>9. s \in Seq(Commands) /\ Joined(s, b, ro)
  BY <1>2, <1>8, CatForm
<1> HIDE DEF s
<1>10. Len(a) = 2 /\ Len(b) = 8 /\ Len(s) = 9
  <2>1. Len(a) = 2
    <3>1. Len(a) = Len(ki) + Len(rw)
      BY <1>7 DEF Joined
    <3> QED
      BY <1>2, <3>1
  <2>2. Len(b) = 8
    BY <1>5, <1>8, <2>1 DEF Joined
  <2>3. Len(s) = Len(b) + Len(ro)
    BY <1>9 DEF Joined
  <2> QED
    BY <1>2, <2>1, <2>2, <2>3
<1>11. a[1] = ki[1] /\ a[2] = rw[1]
  <2>1. 1 \in 1..Len(ki) /\ 1 \in 1..Len(rw) /\ Len(ki) + 1 = 2
    BY <1>2
  <2> QED
    BY <1>7, <2>1 DEF Joined
<1>12. b[1] = a[1] /\ b[2] = a[2] /\ \A i \in 1..6 : b[2 + i] = six[i]
  BY <1>5, <1>8, <1>10 DEF Joined
<1>13. s[9] = ro[1] /\ \A i \in 1..8 : s[i] = b[i]
  <2>1. 1 \in 1..Len(ro) /\ Len(b) + 1 = 9
    BY <1>2, <1>10
  <2> QED
    BY <1>9, <1>10, <2>1 DEF Joined
<1>14. 1 \in 1..8 /\ 2 \in 1..8 /\ \A i \in 1..6 : 2 + i \in 1..8
  OBVIOUS
<1>15. \A i \in 1..6 : s[2 + i] = Rm(Listed[i])
  BY <1>6, <1>12, <1>13, <1>14
<1>16. s[1] = ki[1] /\ s[2] = rw[1]
  BY <1>11, <1>12, <1>13, <1>14
<1> QED
  BY <1>0, <1>1, <1>9, <1>10, <1>13, <1>15, <1>16 DEF Cleans

-----------------------------------------------------------------------------
(* The deployment: what a command does.                                    *)

FilesForm == files = [p \in Paths |-> files[p]]

\* To write a file changes that file alone.
LEMMA WrittenForm ==
  ASSUME FilesForm, NEW p \in Paths, NEW x
  PROVE  /\ Written(p, x) = [q \in Paths |-> Written(p, x)[q]]
         /\ Written(p, x)[p] = x
         /\ \A q \in Paths : q # p => Written(p, x)[q] = files[q]
  BY DEF FilesForm, Written

\* To write any file leaves files a function on the paths.
LEMMA WrittenAny == ASSUME FilesForm, NEW p, NEW x PROVE Written(p, x) = [q \in Paths |-> Written(p, x)[q]]
  BY DEF FilesForm, Written

\* So does a command that succeeds.
LEMMA EffectFiles == ASSUME FilesForm, NEW c, Effect(c) PROVE FilesForm'
<1>1. files' = files \/ \E p, x : files' = Written(p, x)
  BY DEF Effect
<1>2. CASE files' = files
  BY <1>2 DEF FilesForm
<1>3. CASE \E p, x : files' = Written(p, x)
  BY <1>3, WrittenAny DEF FilesForm
<1> QED
  BY <1>1, <1>2, <1>3

\* So does a command that fails.
LEMMA PartEffectFiles == ASSUME FilesForm, NEW c, PartEffect(c) PROVE FilesForm'
<1>1. files' = files \/ \E p, x : files' = Written(p, x)
  BY DEF PartEffect
<1>2. CASE files' = files
  BY <1>2 DEF FilesForm
<1>3. CASE \E p, x : files' = Written(p, x)
  BY <1>3, WrittenAny DEF FilesForm
<1> QED
  BY <1>1, <1>2, <1>3

\* p alone is written.
OnlyOf(p) == FilesForm' /\ \A q \in Paths : q # p => files'[q] = files[q]

\* A removal.
LEMMA RmStep ==
  ASSUME FilesForm, NEW c, Effect(c), c.do = "rm", c.path \in Paths
  PROVE  /\ OnlyOf(c.path)
         /\ c.path # BIN \/ mount = "rw" => files'[c.path] = <<>>
         /\ mount' = mount /\ daemons' = daemons
         /\ c.path # BIN => executable' = executable
<1>1. files' = IF Writable(c.path) THEN Written(c.path, <<>>) ELSE files
  BY DEF Effect
<1>2. mount' = mount /\ daemons' = daemons
  BY DEF Effect
<1>3. c.path # BIN => executable' = executable
  BY DEF Effect
<1>4. CASE Writable(c.path)
  <2>1. /\ Written(c.path, <<>>) = [q \in Paths |-> Written(c.path, <<>>)[q]]
        /\ Written(c.path, <<>>)[c.path] = <<>>
        /\ \A q \in Paths : q # c.path => Written(c.path, <<>>)[q] = files[q]
    BY WrittenForm
  <2> QED
    BY <1>1, <1>2, <1>3, <1>4, <2>1 DEF OnlyOf, FilesForm
<1>5. CASE ~Writable(c.path)
  BY <1>1, <1>2, <1>3, <1>5 DEF OnlyOf, FilesForm, Writable
<1> QED
  BY <1>4, <1>5

\* A line of a transfer.
LEMMA AppendStep ==
  ASSUME FilesForm, NEW c, Effect(c), c.do = "append", c.path \in Paths
  PROVE  /\ OnlyOf(c.path)
         /\ files'[c.path] = Append(files[c.path], c.data)
         /\ mount' = mount /\ daemons' = daemons /\ executable' = executable
<1>1. files' = Written(c.path, Append(files[c.path], c.data))
  BY DEF Effect
<1>2. mount' = mount /\ daemons' = daemons /\ executable' = executable
  BY DEF Effect
<1> DEFINE x == Append(files[c.path], c.data)
<1>3. /\ Written(c.path, x) = [q \in Paths |-> Written(c.path, x)[q]]
      /\ Written(c.path, x)[c.path] = x
      /\ \A q \in Paths : q # c.path => Written(c.path, x)[q] = files[q]
  <2> HIDE DEF x
  <2> QED
    BY WrittenForm
<1> QED
  BY <1>1, <1>2, <1>3 DEF OnlyOf, FilesForm

\* A decoding.
LEMMA DecodeStep ==
  ASSUME FilesForm, NEW c, Effect(c), c.do = "decode", c.path \in Paths
  PROVE  /\ OnlyOf(c.path)
         /\ c.path # BIN \/ mount = "rw" => files'[c.path] = files[c.from]
         /\ mount' = mount /\ daemons' = daemons /\ executable' = executable
<1>1. files' = IF Writable(c.path) THEN Written(c.path, files[c.from]) ELSE files
  BY DEF Effect
<1>2. mount' = mount /\ daemons' = daemons /\ executable' = executable
  BY DEF Effect
<1> DEFINE x == files[c.from]
<1>3. /\ Written(c.path, x) = [q \in Paths |-> Written(c.path, x)[q]]
      /\ Written(c.path, x)[c.path] = x
      /\ \A q \in Paths : q # c.path => Written(c.path, x)[q] = files[q]
  <2> HIDE DEF x
  <2> QED
    BY WrittenForm
<1>4. CASE Writable(c.path)
  BY <1>1, <1>2, <1>3, <1>4 DEF OnlyOf, FilesForm
<1>5. CASE ~Writable(c.path)
  BY <1>1, <1>2, <1>5 DEF OnlyOf, FilesForm, Writable
<1> QED
  BY <1>4, <1>5

\* The commands that write no file.
LEMMA DoStep ==
  ASSUME FilesForm, NEW c, Effect(c),
         c.do \in {"remount rw", "remount ro", "chmod", "md5sum", "kill", "launch"}
  PROVE  /\ files' = files /\ FilesForm'
         /\ c.do = "remount rw" => mount' = "rw"
         /\ c.do = "remount ro" => mount' = "ro"
         /\ c.do \notin {"remount rw", "remount ro"} => mount' = mount
         /\ c.do = "chmod" /\ mount = "rw" => executable' = (files[BIN] # <<>>)
         /\ c.do # "chmod" => executable' = executable
         /\ c.do = "kill" => daemons' = NoDaemon
         /\ c.do = "launch" => daemons' = Launched
         /\ c.do \notin {"kill", "launch"} => daemons' = daemons
<1>1. files' = files
  BY DEF Effect
<1>2. FilesForm'
  BY <1>1 DEF FilesForm
<1>3. /\ c.do = "remount rw" => mount' = "rw"
      /\ c.do = "remount ro" => mount' = "ro"
      /\ c.do \notin {"remount rw", "remount ro"} => mount' = mount
  BY DEF Effect
<1>4. /\ c.do = "chmod" /\ mount = "rw" => executable' = (files[BIN] # <<>>)
      /\ c.do # "chmod" => executable' = executable
  BY DEF Effect
<1>5. /\ c.do = "kill" => daemons' = NoDaemon
      /\ c.do = "launch" => daemons' = Launched
      /\ c.do \notin {"kill", "launch"} => daemons' = daemons
  BY DEF Effect
<1> QED
  BY <1>1, <1>2, <1>3, <1>4, <1>5

\* The command neither touches the binary nor says anything about it.
Late(c) ==
  /\ c.do \in {"rm", "append", "decode", "kill", "launch"}
  /\ c.path \in Paths /\ (c.do \notin {"kill", "launch"} => c.path # BIN)

\* Such a command leaves the binary and the verdict, and starts only what is installed.
LEMMA LateEffect ==
  ASSUME FilesForm, NEW c, Effect(c), Late(c)
  PROVE  /\ files'[BIN] = files[BIN] /\ Compared(c) = verdict
         /\ daemons \in [Versions -> Nat] => \A v \in Versions \ Started : daemons'[v] <= daemons[v]
<1>1. Compared(c) = verdict
  BY DEF Compared, Late
<1>2. CASE c.do = "rm"
  BY <1>1, <1>2, RmStep, PathNames DEF Late, OnlyOf
<1>3. CASE c.do = "append"
  BY <1>1, <1>3, AppendStep, PathNames DEF Late, OnlyOf
<1>4. CASE c.do = "decode"
  BY <1>1, <1>4, DecodeStep, PathNames DEF Late, OnlyOf
<1>5. CASE c.do \in {"kill", "launch"}
  <2>1. files' = files /\ (daemons' = NoDaemon \/ daemons' = Launched)
    BY <1>5, DoStep
  <2> QED
    BY <1>1, <2>1 DEF NoDaemon, Launched
<1> QED
  BY <1>2, <1>3, <1>4, <1>5 DEF Late

\* It does so when it fails half-way, too.
LEMMA LatePart ==
  ASSUME FilesForm, NEW c, PartEffect(c), Late(c)
  PROVE  files'[BIN] = files[BIN] /\ daemons' = daemons
<1>1. daemons' = daemons
  BY DEF PartEffect
<1>2. files' = files \/ (c.path # BIN /\ \E x : files' = Written(c.path, x))
  BY DEF PartEffect, Late
<1>3. CASE c.path # BIN /\ \E x : files' = Written(c.path, x)
  <2>1. PICK x : files' = Written(c.path, x)
    BY <1>3
  <2>2. c.path \in Paths /\ BIN \in Paths /\ BIN # c.path
    BY <1>3, PathNames DEF Late
  <2>3. Written(c.path, x)[BIN] = files[BIN]
    BY <2>2, WrittenForm
  <2> QED
    BY <1>1, <2>1, <2>3
<1> QED
  BY <1>1, <1>2, <1>3

\* It leaves the mode of the binary and the mount.
LEMMA LateExecutable ==
  ASSUME FilesForm, NEW c, Effect(c), Late(c)
  PROVE  executable' = executable /\ mount' = mount
<1>1. CASE c.do = "rm"
  BY <1>1, RmStep DEF Late
<1>2. CASE c.do = "append"
  BY <1>2, AppendStep DEF Late
<1>3. CASE c.do = "decode"
  BY <1>3, DecodeStep, PathNames DEF Late
<1>4. CASE c.do \in {"kill", "launch"}
  BY <1>4, DoStep
<1> QED
  BY <1>1, <1>2, <1>3, <1>4 DEF Late

\* Behind the comparison there are only such commands.
LEMMA DeployLate ==
  ASSUME NEW v \in Versions, NEW k \in Chunks + 7..Chunks + 12
  PROVE  Late(deploy(v)[k])
<1> DEFINE c == deploy(v)[k]
<1>1. Deploys(deploy(v), v) /\ Chunks \in Nat
  BY DeployForm, DeploymentAssumption
<1>2. CASE k = Chunks + 7
  BY <1>1, <1>2, RmFields, PathNames, PathsDiffer DEF Deploys, Late
<1>3. CASE k = Chunks + 8
  BY <1>1, <1>3, RmFields, PathNames, PathsDiffer DEF Deploys, Late
<1>4. CASE k = Chunks + 9
  <2>1. c = Command("append", CONF_B64, Conf[1])
    BY <1>1, <1>4 DEF Deploys
  <2>2. Command("append", CONF_B64, Conf[1]).do = "append" /\ Command("append", CONF_B64, Conf[1]).path = CONF_B64
    BY AppendFields
  <2> QED
    BY <2>1, <2>2, PathNames, PathsDiffer DEF Late
<1>5. CASE k = Chunks + 10
  <2>1. c = Decode(CONF_B64, CONF)
    BY <1>1, <1>5 DEF Deploys
  <2>2. Decode(CONF_B64, CONF).do = "decode" /\ Decode(CONF_B64, CONF).path = CONF
    BY DecodeFields
  <2> QED
    BY <2>1, <2>2, PathNames, PathsDiffer DEF Late
<1>6. CASE k = Chunks + 11
  BY <1>1, <1>6, VerbFields, PathNames DEF Deploys, Late
<1>7. CASE k = Chunks + 12
  BY <1>1, <1>7, VerbFields, PathNames DEF Deploys, Late
<1> QED
  BY <1>1, <1>2, <1>3, <1>4, <1>5, <1>6, <1>7

\* In front of it nothing is compared.
LEMMA DeployEarly ==
  ASSUME NEW v \in Versions, NEW k \in 1..Chunks + 5
  PROVE  deploy(v)[k].do # "md5sum"
<1>1. Deploys(deploy(v), v) /\ Chunks \in Nat
  BY DeployForm, DeploymentAssumption
<1>2. CASE k = 1
  BY <1>1, <1>2, VerbFields DEF Deploys
<1>3. CASE k \in {2, 3}
  BY <1>1, <1>3, RmFields DEF Deploys
<1>4. CASE k \in 4..3 + Chunks
  <2>1. k - 3 \in 1..Chunks /\ 3 + (k - 3) = k
    BY <1>1, <1>4
  <2>2. deploy(v)[3 + (k - 3)] = Command("append", BIN_B64, <<v, k - 3>>)
    BY <1>1, <2>1 DEF Deploys
  <2> QED
    BY <2>1, <2>2, AppendFields
<1>5. CASE k = Chunks + 4
  <2>1. Decode(BIN_B64, BIN).do = "decode"
    BY DecodeFields
  <2> QED
    BY <1>1, <1>5, <2>1 DEF Deploys
<1>6. CASE k = Chunks + 5
  BY <1>1, <1>6, VerbFields DEF Deploys
<1> QED
  BY <1>1, <1>2, <1>3, <1>4, <1>5, <1>6

\* The binary after n lines of its transfer.
Prefix(v, n) == [k \in 1..n |-> <<v, k>>]

\* The transfer of the binary, line by line.
LEMMA PrefixForm ==
  ASSUME NEW v, NEW n \in Nat
  PROVE  /\ Append(Prefix(v, n), <<v, n + 1>>) = Prefix(v, n + 1)
         /\ Prefix(v, 0) = <<>>
         /\ Prefix(v, Chunks) = Whole(v)
<1> DEFINE S == {<<v, k>> : k \in 1..n + 1}
           a == Append(Prefix(v, n), <<v, n + 1>>)
           b == Prefix(v, n + 1)
<1>1. Prefix(v, n) \in Seq(S) /\ b \in Seq(S) /\ <<v, n + 1>> \in S
  <2>1. \A k \in 1..n : k \in 1..n + 1
    OBVIOUS
  <2>2. \A k \in 1..n + 1 : <<v, k>> \in S
    OBVIOUS
  <2>3. n + 1 \in 1..n + 1 /\ n + 1 \in Nat
    OBVIOUS
  <2> HIDE DEF S
  <2>4. Prefix(v, n) \in [1..n -> S] /\ b \in [1..n + 1 -> S]
    BY <2>1, <2>2 DEF Prefix
  <2> QED
    BY <2>2, <2>3, <2>4, SeqDef
<1>2. Len(Prefix(v, n)) = n /\ Len(b) = n + 1 /\ \A k \in 1..n : Prefix(v, n)[k] = <<v, k>>
  <2>1. DOMAIN Prefix(v, n) = 1..n /\ DOMAIN b = 1..n + 1
    BY DEF Prefix
  <2> QED
    BY <1>1, <2>1, LenProperties DEF Prefix
<1>3. /\ a \in Seq(S) /\ Len(a) = n + 1
      /\ \A k \in 1..n : a[k] = Prefix(v, n)[k]
      /\ a[n + 1] = <<v, n + 1>>
  BY <1>1, <1>2, AppendProperties
<1>4. \A k \in 1..n + 1 : b[k] = <<v, k>>
  BY DEF Prefix
<1>5. \A k \in 1..n + 1 : a[k] = b[k]
  <2> SUFFICES ASSUME NEW k \in 1..n + 1 PROVE a[k] = b[k]
    OBVIOUS
  <2>1. CASE k = n + 1
    BY <1>3, <1>4, <2>1
  <2>2. CASE k # n + 1
    <3>1. k \in 1..n
      BY <2>2
    <3> QED
      BY <1>2, <1>3, <1>4, <3>1
  <2> QED
    BY <2>1, <2>2
<1>6. a = b
  <2> HIDE DEF a, b, S
  <2> QED
    BY <1>1, <1>2, <1>3, <1>5, SeqEqual
<1>7. Prefix(v, 0) = <<>>
  <2>1. Prefix(v, 0) \in Seq({}) /\ DOMAIN Prefix(v, 0) = 1..0
    BY DEF Prefix
  <2>2. Len(Prefix(v, 0)) = 0
    BY <2>1, LenProperties
  <2> QED
    BY <2>1, <2>2, EmptySeq
<1>8. Prefix(v, Chunks) = Whole(v)
  BY DEF Prefix, Whole
<1> QED
  BY <1>6, <1>7, <1>8

-----------------------------------------------------------------------------
(* The deployment: the invariant.                                          *)

Typed == version \in Versions /\ FilesForm /\ daemons \in [Versions -> Nat]

\* Every step keeps the types.
LEMMA TypedStep == ASSUME Typed, [DeployNext]_deployVars PROVE Typed'
<1>1. CASE \E v \in Versions : Deploy(v)
  BY <1>1 DEF Deploy, Start, Typed, FilesForm, receiver
<1>2. CASE Capture
  BY <1>2 DEF Capture, Start, Typed, FilesForm, receiver
<1>3. CASE Cleanup
  BY <1>3 DEF Cleanup, Start, Typed, FilesForm, receiver
<1>4. CASE Execute
  <2>1. daemons' \in {daemons, NoDaemon, Launched}
    BY <1>4 DEF Execute, Effect
  <2>2. NoDaemon \in [Versions -> Nat] /\ Launched \in [Versions -> Nat]
    BY DEF NoDaemon, Launched, Typed
  <2> QED
    BY <1>4, <2>1, <2>2, EffectFiles DEF Execute, Typed
<1>5. CASE Fail
  BY <1>5, PartEffectFiles DEF Fail, PartEffect, Typed
<1>6. CASE Disconnect
  BY <1>6 DEF Disconnect, Typed, FilesForm, receiver
<1>7. CASE UNCHANGED deployVars
  BY <1>7 DEF deployVars, Typed, FilesForm, receiver
<1> QED
  BY <1>1, <1>2, <1>3, <1>4, <1>5, <1>6, <1>7 DEF DeployNext

\* p commands of the deployment have been sent.
Position(p) ==
  /\ p \in 0..Chunks + 12
  /\ todo \in Seq(Commands)
  /\ Len(todo) = Chunks + 12 - p
  /\ \A i \in 1..Len(todo) : todo[i] = deploy(version)[p + i]

\* What p commands none of which failed have made of the receiver.
Reached(p) ==
  /\ p >= 1 => mount = "rw"
  /\ p = 2 => files[BIN_B64] = <<>>
  /\ p >= 3 /\ p <= Chunks + 3 => files[BIN_B64] = Prefix(version, p - 3)
  /\ p >= Chunks + 4 => files[BIN] = Whole(version)
  /\ p >= Chunks + 5 => executable
  /\ p >= Chunks + 6 => verdict = "MATCH"
  /\ p \in {Chunks + 7, Chunks + 8} => files[CONF_B64] = <<>>
  /\ p = Chunks + 9 => files[CONF_B64] = Conf
  /\ p >= Chunks + 10 => files[CONF] = Conf
  /\ p = Chunks + 11 => daemons = NoDaemon
  /\ p = Chunks + 12 => daemons = Only(version)

\* What the verdict means after p commands.
Matched(p) == verdict = "MATCH" /\ todo # <<>> => p >= Chunks + 6 /\ files[BIN] = Whole(version)

Deploying == tool = "deploy" => \E p : Position(p) /\ (clean => Reached(p)) /\ Matched(p)

\* The next command is the one at the next position.
LEMMA Advance ==
  ASSUME NEW p, NEW q, q = p + 1, Position(p), todo # <<>>, todo' = Tail(todo), version' = version
  PROVE  p \in 0..Chunks + 11 /\ Head(todo) = deploy(version)[q] /\ Position(q)'
<1>1. /\ Tail(todo) \in Seq(Commands) /\ Len(todo) \in Nat /\ Len(todo) >= 1 /\ Len(Tail(todo)) = Len(todo) - 1
      /\ Head(todo) = todo[1]
      /\ \A i \in 1..Len(todo) - 1 : Tail(todo)[i] = todo[i + 1]
  BY TailForm DEF Position
<1>2. /\ p \in 0..Chunks + 12 /\ Len(todo) = Chunks + 12 - p /\ Chunks \in Nat
      /\ \A i \in 1..Len(todo) : todo[i] = deploy(version)[p + i]
  BY DeploymentAssumption DEF Position
<1>3. p \in 0..Chunks + 11 /\ q \in 0..Chunks + 12 /\ Len(todo') = Chunks + 12 - q
  BY <1>1, <1>2
<1>4. Head(todo) = deploy(version)[q]
  <2>1. 1 \in 1..Len(todo)
    BY <1>1
  <2> QED
    BY <1>1, <1>2, <2>1
<1>5. ASSUME NEW i \in 1..Len(todo') PROVE todo'[i] = deploy(version)[q + i]
  <2>1. i \in 1..Len(todo) - 1 /\ i + 1 \in 1..Len(todo) /\ p + (i + 1) = q + i
    BY <1>1, <1>2, <1>3
  <2>2. todo[i + 1] = deploy(version)[p + (i + 1)]
    BY <1>2, <2>1
  <2> QED
    BY <1>1, <2>1, <2>2
<1> QED
  BY <1>1, <1>3, <1>4, <1>5 DEF Position

\* The commands up to the comparison bring the binary, whole.
LEMMA EarlyStep ==
  ASSUME FilesForm, version \in Versions, version' = version,
         NEW p \in 0..Chunks + 5, NEW q, q = p + 1, Reached(p),
         Effect(deploy(version)[q]), verdict' = Compared(deploy(version)[q])
  PROVE  Reached(q)'
<1> DEFINE c == deploy(version)[q]
<1>0. Effect(c) /\ verdict' = Compared(c)
  OBVIOUS
<1>1. Deploys(deploy(version), version) /\ Chunks \in Nat /\ Chunks >= 1
  BY DeployForm, DeploymentAssumption
<1>10. /\ q \notin {Chunks + 7, Chunks + 8} /\ q # Chunks + 9 /\ ~(q >= Chunks + 10)
       /\ q # Chunks + 11 /\ q # Chunks + 12
  BY <1>1
<1>2. CASE p = 0
  <2>0. q = 1
    BY <1>2
  <2>1. c.do = "remount rw"
    BY <1>1, <2>0, VerbFields DEF Deploys
  <2> HIDE DEF c
  <2>2. mount' = "rw"
    BY <1>0, <2>1, DoStep
  <2> QED
    BY <1>1, <1>2, <2>2 DEF Reached
<1>3. CASE p = 1
  <2>0. q = 2
    BY <1>3
  <2>1. c.do = "rm" /\ c.path = BIN_B64
    BY <1>1, <2>0, RmFields DEF Deploys
  <2> HIDE DEF c
  <2>2. mount' = mount /\ files'[BIN_B64] = <<>>
    BY <1>0, <2>1, RmStep, PathNames, PathsDiffer
  <2> QED
    BY <1>1, <1>3, <1>10, <2>2 DEF Reached
<1>4. CASE p = 2
  <2>0. q = 3
    BY <1>4
  <2>1. c.do = "rm" /\ c.path = BIN
    BY <1>1, <2>0, RmFields DEF Deploys
  <2> HIDE DEF c
  <2>2. mount' = mount /\ files'[BIN_B64] = files[BIN_B64]
    BY <1>0, <2>1, RmStep, PathNames, PathsDiffer DEF OnlyOf
  <2>3. Prefix(version, 0) = <<>>
    BY PrefixForm
  <2>4. q - 3 = 0
    BY <1>4
  <2>5. files'[BIN_B64] = Prefix(version', q - 3)
    BY <1>4, <2>2, <2>3, <2>4 DEF Reached
  <2> QED
    BY <1>1, <1>4, <2>2, <2>5, SMTT(60) DEF Reached
<1>5. CASE p \in 3..Chunks + 2
  <2> DEFINE k == p - 2
             n == p - 3
  <2>1. k \in 1..Chunks /\ 3 + k = q /\ n \in Nat /\ n + 1 = k /\ q - 3 = k
    BY <1>1, <1>5
  <2>2. c = Command("append", BIN_B64, <<version, k>>)
    <3>1. deploy(version)[3 + k] = Command("append", BIN_B64, <<version, k>>)
      BY <1>1, <2>1 DEF Deploys
    <3> QED
      BY <2>1, <3>1
  <2>3. c.do = "append" /\ c.path = BIN_B64 /\ c.data = <<version, k>>
    BY <2>2, AppendFields
  <2>7. files[BIN_B64] = Prefix(version, n)
    BY <1>1, <1>5 DEF Reached
  <2> HIDE DEF c, k, n
  <2>4. mount' = mount /\ files'[BIN_B64] = Append(files[BIN_B64], <<version, k>>)
    BY <1>0, <2>3, AppendStep, PathNames
  <2>5. Append(Prefix(version, n), <<version, n + 1>>) = Prefix(version, n + 1)
    BY <2>1, PrefixForm
  <2>8. files'[BIN_B64] = Prefix(version', q - 3)
    BY <2>1, <2>4, <2>5, <2>7
  <2> QED
    BY <1>1, <1>5, <2>4, <2>8 DEF Reached
<1>6. CASE p = Chunks + 3
  <2>0. q = Chunks + 4
    BY <1>1, <1>6
  <2>1. c = Decode(BIN_B64, BIN)
    BY <1>1, <2>0 DEF Deploys
  <2>2. c.do = "decode" /\ c.path = BIN /\ c.from = BIN_B64
    BY <2>1, DecodeFields
  <2>3. files[BIN_B64] = Prefix(version, Chunks) /\ mount = "rw"
    <3>1. p - 3 = Chunks
      BY <1>1, <1>6
    <3>2. files[BIN_B64] = Prefix(version, p - 3) /\ mount = "rw"
      BY <1>1, <1>6 DEF Reached
    <3> QED
      BY <3>1, <3>2
  <2> HIDE DEF c
  <2>4. mount' = mount /\ files'[BIN] = files[BIN_B64]
    BY <1>0, <2>2, <2>3, DecodeStep, PathNames
  <2>5. files'[BIN] = Whole(version')
    BY <2>3, <2>4, PrefixForm
  <2>6. /\ q # 2 /\ ~(q <= Chunks + 3) /\ ~(q >= Chunks + 5) /\ ~(q >= Chunks + 6)
        /\ q \notin {Chunks + 7, Chunks + 8} /\ q # Chunks + 9 /\ ~(q >= Chunks + 10)
        /\ q # Chunks + 11 /\ q # Chunks + 12
    BY <1>1, <2>0
  <2>7. mount' = "rw"
    BY <2>3, <2>4
  <2> QED
    BY <2>5, <2>6, <2>7 DEF Reached
<1>7. CASE p = Chunks + 4
  <2>0. q = Chunks + 5
    BY <1>1, <1>7
  <2>1. c.do = "chmod"
    BY <1>1, <2>0, VerbFields DEF Deploys
  <2>2. mount = "rw" /\ files[BIN] = Whole(version)
    BY <1>1, <1>7 DEF Reached
  <2> HIDE DEF c
  <2>3. mount' = mount /\ files' = files /\ executable' = (files[BIN] # <<>>)
    BY <1>0, <2>1, <2>2, DoStep
  <2>4. Whole(version) # <<>>
    <3>1. Len(Whole(version)) = Chunks
      BY WholeForm
    <3> QED
      BY <1>1, <3>1
  <2>5. executable' = TRUE
    BY <2>2, <2>3, <2>4
  <2>6. /\ q # 2 /\ ~(q <= Chunks + 3) /\ ~(q >= Chunks + 6)
        /\ q \notin {Chunks + 7, Chunks + 8} /\ q # Chunks + 9 /\ ~(q >= Chunks + 10)
        /\ q # Chunks + 11 /\ q # Chunks + 12
    BY <1>1, <2>0
  <2>7. mount' = "rw" /\ files'[BIN] = Whole(version')
    BY <2>2, <2>3
  <2> QED
    BY <2>5, <2>6, <2>7 DEF Reached
<1>8. CASE p = Chunks + 5
  <2>0. q = Chunks + 6
    BY <1>1, <1>8
  <2>1. c.do = "md5sum"
    BY <1>1, <2>0, VerbFields DEF Deploys
  <2>2. mount = "rw" /\ files[BIN] = Whole(version) /\ executable
    BY <1>1, <1>8 DEF Reached
  <2> HIDE DEF c
  <2>3. mount' = mount /\ files' = files /\ executable' = executable
    BY <1>0, <2>1, DoStep
  <2>4. verdict' = "MATCH"
    BY <1>0, <2>1, <2>2 DEF Compared
  <2> QED
    BY <1>1, <1>10, <2>0, <2>2, <2>3, <2>4 DEF Reached
<1>9. p = 0 \/ p = 1 \/ p = 2 \/ p \in 3..Chunks + 2 \/ p = Chunks + 3 \/ p = Chunks + 4 \/ p = Chunks + 5
  BY <1>1
<1> QED
  BY <1>2, <1>3, <1>4, <1>5, <1>6, <1>7, <1>8, <1>9

\* The commands behind it bring the configuration and the daemon.
LEMMA LateStep ==
  ASSUME FilesForm, version \in Versions, version' = version,
         NEW p \in Chunks + 6..Chunks + 11, NEW q, q = p + 1, Reached(p),
         Effect(deploy(version)[q]), verdict' = Compared(deploy(version)[q])
  PROVE  Reached(q)'
<1> DEFINE c == deploy(version)[q]
<1>0. Effect(c) /\ verdict' = Compared(c)
  OBVIOUS
<1>1. Deploys(deploy(version), version) /\ Chunks \in Nat /\ Chunks >= 1
  BY DeployForm, DeploymentAssumption
<1>2. Late(c)
  <2>1. q \in Chunks + 7..Chunks + 12
    BY <1>1
  <2> QED
    BY <2>1, DeployLate
<1>3. mount = "rw" /\ files[BIN] = Whole(version) /\ executable /\ verdict = "MATCH"
  BY <1>1 DEF Reached
<1>4. mount' = "rw" /\ files'[BIN] = Whole(version') /\ executable' /\ verdict' = "MATCH"
  <2> HIDE DEF c
  <2>1. files'[BIN] = files[BIN] /\ Compared(c) = verdict
    BY <1>0, <1>2, LateEffect
  <2>2. executable' = executable /\ mount' = mount
    BY <1>0, <1>2, LateExecutable
  <2> QED
    BY <1>0, <1>3, <2>1, <2>2
<1>5. q # 2 /\ ~(q <= Chunks + 3)
  BY <1>1
<1>6. CASE p = Chunks + 6
  <2>0. q = Chunks + 7
    BY <1>1, <1>6
  <2>1. c.do = "rm" /\ c.path = CONF_B64
    BY <1>1, <2>0, RmFields DEF Deploys
  <2> HIDE DEF c
  <2>2. files'[CONF_B64] = <<>>
    BY <1>0, <2>1, RmStep, PathNames, PathsDiffer
  <2>3. q # Chunks + 9 /\ ~(q >= Chunks + 10) /\ q # Chunks + 11 /\ q # Chunks + 12
    BY <1>1, <2>0
  <2> QED
    BY <1>4, <1>5, <2>2, <2>3 DEF Reached
<1>7. CASE p = Chunks + 7
  <2>0. q = Chunks + 8
    BY <1>1, <1>7
  <2>1. c.do = "rm" /\ c.path = CONF
    BY <1>1, <2>0, RmFields DEF Deploys
  <2> HIDE DEF c
  <2>2. files'[CONF_B64] = files[CONF_B64]
    BY <1>0, <2>1, RmStep, PathNames, PathsDiffer DEF OnlyOf
  <2>3. q # Chunks + 9 /\ ~(q >= Chunks + 10) /\ q # Chunks + 11 /\ q # Chunks + 12
    BY <1>1, <2>0
  <2>4. files[CONF_B64] = <<>>
    BY <1>1, <1>7 DEF Reached
  <2> QED
    BY <1>4, <1>5, <2>2, <2>3, <2>4 DEF Reached
<1>8. CASE p = Chunks + 8
  <2>0. q = Chunks + 9
    BY <1>1, <1>8
  <2>1. c = Command("append", CONF_B64, Conf[1])
    BY <1>1, <2>0 DEF Deploys
  <2>2. c.do = "append" /\ c.path = CONF_B64 /\ c.data = Conf[1]
    BY <2>1, AppendFields
  <2>3. files[CONF_B64] = <<>>
    BY <1>1, <1>8 DEF Reached
  <2> HIDE DEF c
  <2>4. files'[CONF_B64] = Append(files[CONF_B64], Conf[1])
    BY <1>0, <2>2, AppendStep, PathNames
  <2>5. Append(<<>>, Conf[1]) = Conf
    BY DEF Conf
  <2>6. /\ q \notin {Chunks + 7, Chunks + 8} /\ ~(q >= Chunks + 10) /\ q # Chunks + 11
        /\ q # Chunks + 12
    BY <1>1, <2>0
  <2> QED
    BY <1>4, <1>5, <2>3, <2>4, <2>5, <2>6 DEF Reached
<1>9. CASE p = Chunks + 9
  <2>0. q = Chunks + 10
    BY <1>1, <1>9
  <2>1. c = Decode(CONF_B64, CONF)
    BY <1>1, <2>0 DEF Deploys
  <2>2. c.do = "decode" /\ c.path = CONF /\ c.from = CONF_B64
    BY <2>1, DecodeFields
  <2>3. files[CONF_B64] = Conf
    BY <1>1, <1>9 DEF Reached
  <2> HIDE DEF c
  <2>4. files'[CONF] = files[CONF_B64]
    BY <1>0, <2>2, DecodeStep, PathNames, PathsDiffer
  <2>6. q \notin {Chunks + 7, Chunks + 8} /\ q # Chunks + 9 /\ q # Chunks + 11 /\ q # Chunks + 12
    BY <1>1, <2>0
  <2> QED
    BY <1>4, <1>5, <2>3, <2>4, <2>6 DEF Reached
<1>10. CASE p = Chunks + 10
  <2>0. q = Chunks + 11
    BY <1>1, <1>10
  <2>1. c.do = "kill"
    BY <1>1, <2>0, VerbFields DEF Deploys
  <2>3. files[CONF] = Conf
    BY <1>1, <1>10 DEF Reached
  <2> HIDE DEF c
  <2>4. files' = files /\ daemons' = NoDaemon
    BY <1>0, <2>1, DoStep
  <2>6. q \notin {Chunks + 7, Chunks + 8} /\ q # Chunks + 9 /\ q # Chunks + 12
    BY <1>1, <2>0
  <2> QED
    BY <1>4, <1>5, <2>3, <2>4, <2>6 DEF Reached
<1>11. CASE p = Chunks + 11
  <2>0. q = Chunks + 12
    BY <1>1, <1>11
  <2>1. c.do = "launch"
    BY <1>1, <2>0, VerbFields DEF Deploys
  <2>3. files[CONF] = Conf /\ daemons = NoDaemon
    BY <1>1, <1>11 DEF Reached
  <2> HIDE DEF c
  <2>4. files' = files /\ daemons' = Launched
    BY <1>0, <2>1, DoStep
  <2>5. Started = {version}
    BY <1>3, WholeDiffers DEF Started
  <2>6. q \notin {Chunks + 7, Chunks + 8} /\ q # Chunks + 9 /\ q # Chunks + 11
    BY <1>1, <2>0
  <2>7. daemons' = Only(version')
    BY <2>3, <2>4, <2>5 DEF Launched, NoDaemon, Only
  <2> QED
    BY <1>4, <1>5, <2>3, <2>4, <2>6, <2>7 DEF Reached
<1>12. \/ p = Chunks + 6 \/ p = Chunks + 7 \/ p = Chunks + 8 \/ p = Chunks + 9
       \/ p = Chunks + 10 \/ p = Chunks + 11
  BY <1>1
<1> QED
  BY <1>6, <1>7, <1>8, <1>9, <1>10, <1>11, <1>12

\* Whether it succeeds or fails, the next command leaves the verdict true.
LEMMA TrustedStep ==
  ASSUME FilesForm, version \in Versions, version' = version,
         NEW p \in 0..Chunks + 11, NEW q, q = p + 1, todo # <<>>, Matched(p),
         \/ Effect(deploy(version)[q]) /\ verdict' = Compared(deploy(version)[q])
         \/ /\ PartEffect(deploy(version)[q])
            /\ verdict' = IF deploy(version)[q].do = "md5sum" THEN "MISMATCH" ELSE verdict
  PROVE  Matched(q)'
<1> DEFINE c == deploy(version)[q]
<1>0. \/ Effect(c) /\ verdict' = Compared(c)
      \/ PartEffect(c) /\ verdict' = IF c.do = "md5sum" THEN "MISMATCH" ELSE verdict
  OBVIOUS
<1>1. Deploys(deploy(version), version) /\ Chunks \in Nat /\ Chunks >= 1
  BY DeployForm, DeploymentAssumption
<1>2. CASE p <= Chunks + 4
  <2>1. q \in 1..Chunks + 5 /\ ~(p >= Chunks + 6)
    BY <1>1, <1>2
  <2>2. c.do # "md5sum"
    BY <2>1, DeployEarly
  <2>3. verdict # "MATCH"
    BY <2>1 DEF Matched
  <2> HIDE DEF c
  <2>4. verdict' = verdict
    BY <1>0, <2>2 DEF Compared
  <2> QED
    BY <2>3, <2>4 DEF Matched
<1>3. CASE p = Chunks + 5
  <2>0. q = Chunks + 6 /\ q >= Chunks + 6
    BY <1>1, <1>3
  <2>1. c.do = "md5sum"
    BY <1>1, <2>0, VerbFields DEF Deploys
  <2> HIDE DEF c
  <2>2. CASE PartEffect(c) /\ verdict' = IF c.do = "md5sum" THEN "MISMATCH" ELSE verdict
    BY <2>1, <2>2 DEF Matched
  <2>3. CASE Effect(c) /\ verdict' = Compared(c)
    <3>1. files' = files
      BY <2>1, <2>3, DoStep
    <3>2. verdict' = IF files[BIN] = Whole(version) THEN "MATCH" ELSE "MISMATCH"
      BY <2>1, <2>3 DEF Compared
    <3> QED
      BY <2>0, <3>1, <3>2 DEF Matched
  <2> QED
    BY <1>0, <2>2, <2>3
<1>4. CASE p >= Chunks + 6
  <2>1. q \in Chunks + 7..Chunks + 12 /\ q >= Chunks + 6
    BY <1>1, <1>4
  <2>2. Late(c)
    BY <2>1, DeployLate
  <2> HIDE DEF c
  <2>3. verdict' = verdict /\ files'[BIN] = files[BIN]
    <3>1. CASE Effect(c) /\ verdict' = Compared(c)
      BY <2>2, <3>1, LateEffect
    <3>2. CASE PartEffect(c) /\ verdict' = IF c.do = "md5sum" THEN "MISMATCH" ELSE verdict
      <4>1. c.do # "md5sum"
        BY <2>2 DEF Late
      <4>2. files'[BIN] = files[BIN]
        BY <2>2, <3>2, LatePart
      <4> QED
        BY <3>2, <4>1, <4>2
    <3> QED
      BY <1>0, <3>1, <3>2
  <2> QED
    BY <2>1, <2>3 DEF Matched
<1> QED
  BY <1>1, <1>2, <1>3, <1>4

\* A new deployment starts at position 0.
LEMMA DeployingStart ==
  ASSUME NEW v \in Versions, Deploy(v)
  PROVE  Deploying'
<1>1. /\ tool' = "deploy" /\ version' = v /\ todo' = deploy(v) /\ verdict' = ""
  BY DEF Deploy, Start
<1>2. Chunks \in Nat /\ Chunks >= 1 /\ Deploys(deploy(v), v)
  BY DeployForm, DeploymentAssumption
<1>3. PICK z \in Nat : z = 0
  OBVIOUS
<1>4. Position(z)'
  <2>1. z \in 0..Chunks + 12 /\ Chunks + 12 - z = Chunks + 12
    BY <1>2, <1>3
  <2>2. todo' \in Seq(Commands) /\ Len(todo') = Chunks + 12
    BY <1>1, <1>2 DEF Deploys
  <2>3. \A i \in 1..Len(todo') : todo'[i] = deploy(version')[z + i]
    <3>1. \A i \in 1..Chunks + 12 : z + i = i
      BY <1>2, <1>3
    <3> QED
      BY <1>1, <2>2, <3>1
  <2> QED
    BY <2>1, <2>2, <2>3 DEF Position
<1>5. Reached(z)'
  BY <1>2, <1>3 DEF Reached
<1>6. Matched(z)'
  BY <1>1 DEF Matched
<1> QED
  BY <1>4, <1>5, <1>6 DEF Deploying

\* Every step keeps the invariant of the deployment.
LEMMA DeployingStep == ASSUME Typed, Deploying, [DeployNext]_deployVars PROVE Deploying'
<1>1. CASE \E v \in Versions : Deploy(v)
  BY <1>1, DeployingStart
<1>2. CASE Capture \/ Cleanup
  BY <1>2 DEF Capture, Cleanup, Start, Deploying
<1>3. CASE UNCHANGED deployVars
  BY <1>3 DEF deployVars, receiver, Deploying, Position, Reached, Matched
<1>4. ASSUME Execute \/ Fail, tool = "deploy" PROVE Deploying'
  <2>1. PICK p : Position(p) /\ (clean => Reached(p)) /\ Matched(p)
    BY <1>4 DEF Deploying
  <2>2. PICK q : q = p + 1
    OBVIOUS
  <2>3. todo # <<>> /\ todo' = Tail(todo) /\ version' = version /\ tool' = tool
    BY <1>4 DEF Execute, Fail
  <2>4. p \in 0..Chunks + 11 /\ Head(todo) = deploy(version)[q] /\ Position(q)'
    BY <2>1, <2>2, <2>3, Advance
  <2>5. FilesForm /\ version \in Versions
    BY DEF Typed
  <2>6. Matched(q)'
    <3>1. \/ Effect(deploy(version)[q]) /\ verdict' = Compared(deploy(version)[q])
          \/ /\ PartEffect(deploy(version)[q])
             /\ verdict' = IF deploy(version)[q].do = "md5sum" THEN "MISMATCH" ELSE verdict
      BY <1>4, <2>4 DEF Execute, Fail
    <3> QED
      BY <2>1, <2>2, <2>3, <2>4, <2>5, <3>1, TrustedStep
  <2>7. clean' => Reached(q)'
    <3>1. SUFFICES ASSUME clean' PROVE Reached(q)'
      OBVIOUS
    <3>2. Execute /\ clean
      BY <1>4, <3>1 DEF Execute, Fail
    <3>3. Effect(deploy(version)[q]) /\ verdict' = Compared(deploy(version)[q])
      BY <2>4, <3>2 DEF Execute
    <3>4. CASE p <= Chunks + 5
      <4>1. p \in 0..Chunks + 5
        BY <2>4, <3>4
      <4> QED
        BY <2>1, <2>2, <2>3, <2>5, <3>2, <3>3, <4>1, EarlyStep
    <3>5. CASE ~(p <= Chunks + 5)
      <4>1. p \in Chunks + 6..Chunks + 11
        BY <2>4, <3>5, DeploymentAssumption
      <4> QED
        BY <2>1, <2>2, <2>3, <2>5, <3>2, <3>3, <4>1, LateStep
    <3> QED
      BY <3>4, <3>5
  <2> QED
    BY <2>4, <2>6, <2>7 DEF Deploying
<1>5. ASSUME Disconnect PROVE Deploying'
  <2>1. todo' = <<>> /\ clean' = FALSE
    BY <1>5 DEF Disconnect
  <2>2. PICK q : q = Chunks + 12
    OBVIOUS
  <2>3. Position(q)'
    BY <2>1, <2>2, DeploymentAssumption DEF Position
  <2>4. Matched(q)'
    BY <2>1 DEF Matched
  <2> QED
    BY <2>1, <2>3, <2>4 DEF Deploying
<1>6. ASSUME Execute \/ Fail, tool # "deploy" PROVE Deploying'
  BY <1>6 DEF Execute, Fail, Deploying
<1> QED
  BY <1>1, <1>2, <1>3, <1>4, <1>5, <1>6 DEF DeployNext

\* At the last position the deployment is complete.
LEMMA DeployingEnds == Deploying => DeployRecovers
<1> SUFFICES ASSUME Deploying, tool = "deploy", todo = <<>>, clean
             PROVE  /\ files[BIN] = Whole(version) /\ files[CONF] = Conf
                    /\ verdict = "MATCH" /\ daemons = Only(version)
  BY DEF DeployRecovers, Ended
<1>1. PICK p : Position(p) /\ Reached(p)
  BY DEF Deploying
<1>2. p = Chunks + 12
  BY <1>1, DeploymentAssumption DEF Position
<1> QED
  BY <1>1, <1>2, DeploymentAssumption DEF Reached

\* No deployment runs at first.
LEMMA DeployingInit == DeployInit => Typed /\ Deploying
<1>1. DeployInit => daemons \in [Versions -> Nat]
  <2>1. NoDaemon \in [Versions -> Nat]
    BY DEF NoDaemon
  <2> QED
    BY <2>1 DEF DeployInit
<1>2. DeployInit => version \in Versions /\ FilesForm /\ Deploying
  BY DEF DeployInit, FilesForm, Deploying
<1> QED
  BY <1>1, <1>2 DEF Typed

\* What a step may do once the verdict is MATCH.
LEMMA TrustedAction ==
  ASSUME Typed, Deploying, [DeployNext]_deployVars, tool = "deploy", verdict = "MATCH", todo # <<>>
  PROVE  /\ files'[BIN] = Whole(version)
         /\ \A v \in Versions \ {version} : daemons'[v] <= daemons[v]
<1>1. PICK p : Position(p) /\ p >= Chunks + 6 /\ files[BIN] = Whole(version)
  BY DEF Deploying, Matched
<1>2. PICK q : q = p + 1
  OBVIOUS
<1>3. Started \subseteq {version}
  BY <1>1, WholeDiffers DEF Started, Typed
<1>4. CASE Execute \/ Fail
  <2>3. todo' = Tail(todo) /\ version' = version
    BY <1>4 DEF Execute, Fail
  <2>4. p \in 0..Chunks + 11 /\ Head(todo) = deploy(version)[q]
    BY <1>1, <1>2, <2>3, Advance
  <2>5. q \in Chunks + 7..Chunks + 12
    BY <1>1, <1>2, <2>4, DeploymentAssumption
  <2>6. Late(Head(todo))
    BY <2>4, <2>5, DeployLate DEF Typed
  <2>7. /\ files'[BIN] = files[BIN]
        /\ \A v \in Versions \ Started : daemons'[v] <= daemons[v]
    BY <1>4, <2>6, LateEffect, LatePart DEF Execute, Fail, Typed
  <2> QED
    BY <1>1, <1>3, <2>7
<1>5. CASE UNCHANGED receiver
  BY <1>1, <1>5 DEF receiver, Typed
<1>6. Execute \/ Fail \/ UNCHANGED receiver
  BY DEF DeployNext, Deploy, Capture, Cleanup, Start, Disconnect, deployVars
<1> QED
  BY <1>4, <1>5, <1>6

\* p commands of the clean-up have been sent.
Place(p) ==
  /\ p \in 0..9
  /\ todo \in Seq(Commands)
  /\ Len(todo) = 9 - p
  /\ \A i \in 1..Len(todo) : todo[i] = cleanup[p + i]

\* What p commands of it none of which failed have made of the receiver.
Cleared(p) ==
  /\ p >= 1 => daemons = NoDaemon
  /\ p \in 2..8 => mount = "rw"
  /\ \A i \in 1..6 : p >= i + 2 => files[Listed[i]] = <<>>
  /\ p = 9 => mount = "ro"

Cleaning == tool = "cleanup" => \E p : Place(p) /\ (clean => Cleared(p))

\* The next command of the clean-up is the one at the next position.
LEMMA AdvanceCleanup ==
  ASSUME NEW p, NEW q, q = p + 1, Place(p), todo # <<>>, todo' = Tail(todo)
  PROVE  p \in 0..8 /\ Head(todo) = cleanup[q] /\ Place(q)'
<1>1. /\ Tail(todo) \in Seq(Commands) /\ Len(todo) \in Nat /\ Len(todo) >= 1 /\ Len(Tail(todo)) = Len(todo) - 1
      /\ Head(todo) = todo[1]
      /\ \A i \in 1..Len(todo) - 1 : Tail(todo)[i] = todo[i + 1]
  BY TailForm DEF Place
<1>2. /\ p \in 0..9 /\ Len(todo) = 9 - p
      /\ \A i \in 1..Len(todo) : todo[i] = cleanup[p + i]
  BY DEF Place
<1>3. p \in 0..8 /\ q \in 0..9 /\ Len(todo') = 9 - q
  BY <1>1, <1>2
<1>4. Head(todo) = cleanup[q]
  <2>1. 1 \in 1..Len(todo)
    BY <1>1
  <2> QED
    BY <1>1, <1>2, <2>1
<1>5. ASSUME NEW i \in 1..Len(todo') PROVE todo'[i] = cleanup[q + i]
  <2>1. i \in 1..Len(todo) - 1 /\ i + 1 \in 1..Len(todo) /\ p + (i + 1) = q + i
    BY <1>1, <1>2, <1>3
  <2>2. todo[i + 1] = cleanup[p + (i + 1)]
    BY <1>2, <2>1
  <2> QED
    BY <1>1, <2>1, <2>2
<1> QED
  BY <1>1, <1>3, <1>4, <1>5 DEF Place

\* A command of the clean-up that succeeds does its part.
LEMMA ClearedStep ==
  ASSUME FilesForm, NEW p \in 0..8, NEW q, q = p + 1, Cleared(p), Effect(cleanup[q])
  PROVE  Cleared(q)'
<1> DEFINE c == cleanup[q]
<1>0. Effect(c)
  OBVIOUS
<1>1. Cleans(cleanup)
  BY CleanupForm
<1>2. CASE p = 0
  <2>0. q = 1
    BY <1>2
  <2>1. c.do = "kill"
    BY <1>1, <2>0, VerbFields DEF Cleans
  <2> HIDE DEF c
  <2>2. daemons' = NoDaemon
    BY <1>0, <2>1, DoStep
  <2> QED
    BY <2>0, <2>2 DEF Cleared
<1>3. CASE p = 1
  <2>0. q = 2
    BY <1>3
  <2>1. c.do = "remount rw"
    BY <1>1, <2>0, VerbFields DEF Cleans
  <2> HIDE DEF c
  <2>2. daemons' = daemons /\ mount' = "rw"
    BY <1>0, <2>1, DoStep
  <2> QED
    BY <1>3, <2>0, <2>2 DEF Cleared
<1>4. CASE p \in 2..7
  <2>0. PICK i \in 1..6 : i = p - 1 /\ q = 2 + i /\ p = i + 1
    BY <1>4
  <2>1. c = Rm(Listed[i])
    BY <1>1, <2>0 DEF Cleans
  <2>2. c.do = "rm" /\ c.path = Listed[i]
    BY <2>1, RmFields
  <2>3. mount = "rw" /\ daemons = NoDaemon /\ \A j \in 1..6 : p >= j + 2 => files[Listed[j]] = <<>>
    BY <1>4 DEF Cleared
  <2> HIDE DEF c
  <2>4. /\ files'[Listed[i]] = <<>> /\ mount' = mount /\ daemons' = daemons
        /\ \A f \in Paths : f # Listed[i] => files'[f] = files[f]
    <3>1. c.path \in Paths
      BY <2>2, ListedForm
    <3> QED
      BY <1>0, <2>2, <2>3, <3>1, RmStep DEF OnlyOf
  <2>5. ASSUME NEW j \in 1..6, q >= j + 2 PROVE files'[Listed[j]] = <<>>
    <3>1. CASE Listed[j] = Listed[i]
      BY <2>4, <3>1
    <3>2. CASE Listed[j] # Listed[i]
      <4>1. j # i /\ Listed[j] \in Paths
        BY <3>2, ListedForm
      <4>2. p >= j + 2
        BY <2>0, <2>5, <4>1
      <4> QED
        BY <2>3, <2>4, <3>2, <4>1, <4>2
    <3> QED
      BY <3>1, <3>2
  <2>6. q # 9
    BY <2>0
  <2> QED
    BY <2>3, <2>4, <2>5, <2>6 DEF Cleared
<1>5. CASE p = 8
  <2>0. q = 9
    BY <1>5
  <2>1. c.do = "remount ro"
    BY <1>1, <2>0, VerbFields DEF Cleans
  <2> HIDE DEF c
  <2>2. daemons' = daemons /\ mount' = "ro" /\ files' = files
    BY <1>0, <2>1, DoStep
  <2>3. \A i \in 1..6 : p >= i + 2
    BY <1>5
  <2> QED
    BY <1>5, <2>0, <2>2, <2>3 DEF Cleared
<1> QED
  BY <1>2, <1>3, <1>4, <1>5

\* Every step keeps the invariant of the clean-up.
LEMMA CleaningStep == ASSUME Typed, Cleaning, [DeployNext]_deployVars PROVE Cleaning'
<1>1. CASE (\E v \in Versions : Deploy(v)) \/ Capture
  BY <1>1 DEF Deploy, Capture, Start, Cleaning
<1>2. CASE Cleanup
  <2>1. PICK z \in Nat : z = 0
    OBVIOUS
  <2>2. todo' = cleanup /\ Cleans(cleanup)
    BY <1>2, CleanupForm DEF Cleanup, Start
  <2>3. \A i \in 1..9 : z + i = i
    BY <2>1
  <2>4. todo' \in Seq(Commands) /\ Len(todo') = 9 /\ \A i \in 1..9 : todo'[i] = cleanup[z + i]
    BY <2>2, <2>3 DEF Cleans
  <2>5. z \in 0..9 /\ 9 - z = 9
    BY <2>1
  <2>6. Place(z)'
    BY <2>4, <2>5 DEF Place
  <2>7. Cleared(z)'
    BY <2>1 DEF Cleared
  <2> QED
    BY <2>6, <2>7 DEF Cleaning
<1>3. CASE UNCHANGED deployVars
  BY <1>3 DEF deployVars, receiver, Cleaning, Place, Cleared
<1>4. ASSUME Execute \/ Fail, tool = "cleanup" PROVE Cleaning'
  <2>1. PICK p : Place(p) /\ (clean => Cleared(p))
    BY <1>4 DEF Cleaning
  <2>2. PICK q : q = p + 1
    OBVIOUS
  <2>3. todo # <<>> /\ todo' = Tail(todo)
    BY <1>4 DEF Execute, Fail
  <2>4. p \in 0..8 /\ Head(todo) = cleanup[q] /\ Place(q)'
    BY <2>1, <2>2, <2>3, AdvanceCleanup
  <2>5. clean' => Cleared(q)'
    BY <1>4, <2>1, <2>2, <2>4, ClearedStep DEF Execute, Fail, Typed
  <2> QED
    BY <2>4, <2>5 DEF Cleaning
<1>5. CASE Disconnect
  <2>1. todo' = <<>> /\ clean' = FALSE
    BY <1>5 DEF Disconnect
  <2>2. PICK q : q = 9
    OBVIOUS
  <2>3. Place(q)'
    BY <2>1, <2>2 DEF Place
  <2> QED
    BY <2>1, <2>3 DEF Cleaning
<1>6. ASSUME Execute \/ Fail, tool # "cleanup" PROVE Cleaning'
  BY <1>6 DEF Execute, Fail, Cleaning
<1> QED
  BY <1>1, <1>2, <1>3, <1>4, <1>5, <1>6 DEF DeployNext

\* At the last position the clean-up is complete.
LEMMA CleaningEnds == Cleaning => CleanupLeavesTwo
<1> SUFFICES ASSUME Cleaning, tool = "cleanup", todo = <<>>, clean
             PROVE  /\ \A p \in Paths \ {CONF_B64_capture, GRAB_B64_capture} : files[p] = <<>>
                    /\ daemons = NoDaemon /\ mount = "ro"
  BY DEF CleanupLeavesTwo, Ended
<1>1. PICK p : Place(p) /\ Cleared(p)
  BY DEF Cleaning
<1>2. p = 9
  BY <1>1 DEF Place
<1>3. daemons = NoDaemon /\ mount = "ro" /\ \A i \in 1..6 : files[Listed[i]] = <<>>
  BY <1>1, <1>2 DEF Cleared
<1>4. /\ files[BIN] = <<>> /\ files[CONF] = <<>> /\ files[BIN_B64] = <<>>
      /\ files[CONF_B64] = <<>> /\ files[PNG] = <<>> /\ files[GRAB] = <<>>
  <2>1. /\ files[Listed[1]] = <<>> /\ files[Listed[2]] = <<>> /\ files[Listed[3]] = <<>>
        /\ files[Listed[4]] = <<>> /\ files[Listed[5]] = <<>> /\ files[Listed[6]] = <<>>
    BY <1>3
  <2> QED
    BY <2>1, ListedForm
<1> QED
  BY <1>3, <1>4 DEF Paths

-----------------------------------------------------------------------------
(* The deployment: theorems.                                               *)

DeployInv == Typed /\ Deploying /\ Cleaning

\* Where the tool is in its list and what that says about the receiver are an invariant of
\* deploy_dbgbar.py, capture_dbgbar.py and cleanup_dbgbar.py, run in any order, with faults.
THEOREM DeployInvariance == DeploySpec => []DeployInv
<1>1. DeployInit => DeployInv
  BY DeployingInit DEF DeployInit, DeployInv, Cleaning
<1>2. DeployInv /\ [DeployNext]_deployVars => DeployInv'
  BY TypedStep, DeployingStep, CleaningStep DEF DeployInv
<1> QED
  BY <1>1, <1>2, PTL DEF DeploySpec

\* A deployment none of whose commands fails ends with its build installed, matched and
\* running alone, whatever was on the receiver before.
THEOREM Recovery == DeploySpec => []DeployRecovers
<1>1. DeployInv => DeployRecovers
  BY DeployingEnds DEF DeployInv
<1> QED
  BY <1>1, DeployInvariance, PTL

\* Once deploy_dbgbar.py has said MATCH no step of it, failed or not, leaves another binary
\* or starts another build.
THEOREM MatchTrusted == DeploySpec => MatchIsTrusted
<1>1. DeployInv /\ [DeployNext]_deployVars
        => [(tool = "deploy" /\ verdict = "MATCH" /\ todo # <<>>) =>
              /\ files'[BIN] = Whole(version)
              /\ \A v \in Versions \ {version} : daemons'[v] <= daemons[v]]_deployVars
  BY TrustedAction DEF DeployInv
<1> QED
  BY <1>1, DeployInvariance, PTL DEF DeploySpec, MatchIsTrusted

\* A clean-up none of whose commands fails leaves no daemon, the root file system read-only
\* and no file, but the two of capture_dbgbar.py that its list does not name.
THEOREM CleanupLeaves == DeploySpec => []CleanupLeavesTwo
<1>1. DeployInv => CleanupLeavesTwo
  BY CleaningEnds DEF DeployInv
<1> QED
  BY <1>1, DeployInvariance, PTL
=============================================================================
