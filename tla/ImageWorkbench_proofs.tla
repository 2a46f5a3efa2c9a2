------------------------ MODULE ImageWorkbench_proofs -----------------------
(***************************************************************************)
(* The firmware tools, for every size of the root file system, every place *)
(* of the first image, every number of targets and patches and every       *)
(* length of a stream: an image that the builder writes has the form the   *)
(* builder meant, all who compute where its partitions are agree about it, *)
(* what is taken out of it decompresses to what was put in, and the        *)
(* verdict on it is right.  And for every file, every size of a chunk and  *)
(* every tail, the scan of analyze_firmware.py reports a signature that is *)
(* not too long wherever it stands.                                        *)
(*                                                                         *)
(* The argument: File(b, text, room) is the image of the run b of the      *)
(* builder, cell by cell, with the version string text and a root file     *)
(* system of room cells.  The stock image has this form, either mode of    *)
(* the builder gives it this form, and the raw patch changes text from     *)
(* "old" to "new" (StockForm, SafeForm, ResizeForm, RawForm); the rest is  *)
(* read off it.                                                            *)
(***************************************************************************)
EXTENDS ImageWorkbench, SequenceTheorems, FiniteSetTheorems, TLAPS

-----------------------------------------------------------------------------
(* The scan.                                                               *)

\* The borders between the chunks.
LEMMA Borders ==
  ASSUME NEW c \in Nat, NEW d \in Nat
  PROVE  /\ c * Chunk \in Nat
         /\ (c + 1) * Chunk = c * Chunk + Chunk
         /\ c <= c * Chunk
         /\ c < d => (c + 1) * Chunk <= d * Chunk
<1>1. Chunk \in Nat /\ Chunk >= 1
  BY ScanAssumption
<1>2. c * Chunk \in Nat /\ (c + 1) * Chunk = c * Chunk + Chunk
  BY <1>1
<1>3. c <= c * Chunk
  BY <1>1
<1>4. ASSUME c < d
      PROVE  (c + 1) * Chunk <= d * Chunk
  BY <1>1, <1>4
<1> QED
  BY <1>2, <1>3, <1>4

\* Every offset lies between two borders.
LEMMA ChunkOf ==
  ASSUME NEW n \in Nat
  PROVE  \E c \in Nat : c * Chunk <= n /\ n < (c + 1) * Chunk
<1>1. Chunk \in Nat /\ Chunk >= 1
  BY ScanAssumption
<1>2. n \div Chunk \in Nat
  BY <1>1
<1>3. n = Chunk * (n \div Chunk) + (n % Chunk) /\ n % Chunk \in 0..Chunk - 1
  BY <1>1
<1>4. PICK c \in Nat : n = Chunk * c + (n % Chunk)
  BY <1>2, <1>3
<1>5. Chunk * c = c * Chunk
  BY <1>1
<1>6. c * Chunk \in Nat /\ (c + 1) * Chunk = c * Chunk + Chunk
  BY Borders
<1>7. PICK r \in 0..Chunk - 1 : n = c * Chunk + r
  BY <1>3, <1>4, <1>5
<1>8. c * Chunk <= n /\ n < (c + 1) * Chunk
  BY <1>1, <1>6, <1>7
<1> QED
  BY <1>8

\* The round that reads the last byte of a signature reports it.
LEMMA LastByte ==
  ASSUME NEW S, NEW data \in Seq(S), NEW magic \in Seq(S), Len(magic) \in 1..Overlap + 1,
         NEW i \in 0..Len(data), Occurs(data, magic, i)
  PROVE  \E c \in scan_signatures(data, magic, i) : c * Chunk < i + Len(magic)
<1> DEFINE last == i + Len(magic) - 1
<1>1. Chunk \in Nat /\ Overlap \in Nat
  BY ScanAssumption
<1>2. Len(data) \in Nat /\ Len(magic) \in Nat /\ i \in Nat /\ last \in Nat
  BY <1>1
<1>3. last < Len(data)
  BY <1>2 DEF Occurs
<1>4. PICK c \in Nat : c * Chunk <= last /\ last < (c + 1) * Chunk
  BY <1>2, ChunkOf
<1>5. c * Chunk \in Nat /\ c <= c * Chunk /\ (c + 1) * Chunk \in Nat
  BY <1>4, Borders
<1>6. c \in Rounds(data)
  BY <1>2, <1>3, <1>4, <1>5 DEF Rounds
<1>7. Base(c) <= i
  BY <1>1, <1>2, <1>4, <1>5 DEF Base
<1>8. i + Len(magic) <= End(data, c)
  BY <1>2, <1>3, <1>4, <1>5 DEF End
<1> QED
  BY <1>2, <1>4, <1>5, <1>6, <1>7, <1>8 DEF scan_signatures

\* The scan is right for every file and every signature not longer than the tail and one.
THEOREM ScanIsRight ==
  ASSUME NEW S, NEW data \in Seq(S), NEW magic \in Seq(S), Len(magic) \in 1..Overlap + 1
  PROVE  ScansRight(data, magic)
<1> SUFFICES ASSUME NEW i \in 0..Len(data)
             PROVE  LET rounds == scan_signatures(data, magic, i)
                    IN  /\ rounds # {} <=> Occurs(data, magic, i)
                        /\ (\E c, d \in rounds : c # d)
                             <=> (Occurs(data, magic, i) /\ InTail(data, magic, i))
  BY DEF ScansRight
<1>1. Overlap \in Nat /\ Len(data) \in Nat /\ Len(magic) \in Nat /\ i \in Nat
  BY ScanAssumption
<1>2. scan_signatures(data, magic, i) # {} <=> Occurs(data, magic, i)
  <2>1. scan_signatures(data, magic, i) # {} => Occurs(data, magic, i)
    BY DEF scan_signatures
  <2> QED
    BY <2>1, LastByte
<1>3. ASSUME NEW c \in scan_signatures(data, magic, i), NEW d \in scan_signatures(data, magic, i),
             c < d
      PROVE  InTail(data, magic, i)
  <2>1. c \in Nat /\ d \in Nat /\ d \in Rounds(data) /\ Base(d) <= i
        /\ i + Len(magic) <= End(data, c)
    BY <1>1 DEF scan_signatures, Rounds
  <2>2. (c + 1) * Chunk <= d * Chunk /\ (c + 1) * Chunk \in Nat /\ d * Chunk \in Nat
    BY <1>3, <2>1, Borders
  <2>3. End(data, c) <= (c + 1) * Chunk
    BY <1>1, <2>2 DEF End
  <2>4. End(data, c) \in Nat
    BY <1>1, <2>2 DEF End
  <2>5. i + Len(magic) <= d * Chunk
    BY <1>1, <2>1, <2>2, <2>3, <2>4
  <2>6. d > 0
    BY <1>3, <2>1
  <2> QED
    BY <2>1, <2>5, <2>6 DEF InTail
<1>4. ASSUME Occurs(data, magic, i), InTail(data, magic, i)
      PROVE  \E c, d \in scan_signatures(data, magic, i) : c # d
  <2>1. PICK d \in Rounds(data) : d > 0 /\ Base(d) <= i /\ i + Len(magic) <= d * Chunk
    BY <1>4 DEF InTail
  <2>2. d \in Nat /\ d * Chunk \in Nat /\ (d + 1) * Chunk \in Nat /\ d * Chunk <= (d + 1) * Chunk
    <3>1. d \in Nat
      BY <1>1 DEF Rounds
    <3>2. Chunk \in Nat
      BY ScanAssumption
    <3> QED
      BY <3>1, <3>2, Borders
  <2>3. i + Len(magic) <= End(data, d)
    BY <1>1, <1>4, <2>1, <2>2 DEF End, Occurs
  <2>4. d \in scan_signatures(data, magic, i)
    BY <1>4, <2>1, <2>3 DEF scan_signatures
  <2>5. PICK c \in scan_signatures(data, magic, i) : c * Chunk < i + Len(magic)
    BY <1>4, LastByte
  <2>6. c # d
    BY <1>1, <2>1, <2>2, <2>5
  <2> QED
    BY <2>4, <2>5, <2>6
<1>5. ASSUME NEW c \in scan_signatures(data, magic, i), NEW d \in scan_signatures(data, magic, i),
             c # d
      PROVE  Occurs(data, magic, i) /\ InTail(data, magic, i)
  <2>1. c \in Nat /\ d \in Nat
    BY <1>1 DEF scan_signatures, Rounds
  <2>2. c < d \/ d < c
    BY <1>5, <2>1
  <2> QED
    BY <1>3, <2>2 DEF scan_signatures
<1> QED
  BY <1>2, <1>4, <1>5

-----------------------------------------------------------------------------
(* Sequences, whatever their members are.                                   *)

\* A sequence of something.
IsSeq(s) == \E S : s \in Seq(S)

\* A function on 1..n is a sequence of length n.
LEMMA Tabulated ==
  ASSUME NEW n \in Nat, NEW s, s = [k \in 1..n |-> s[k]]
  PROVE  IsSeq(s) /\ Len(s) = n
<1>1. s \in Seq({s[k] : k \in 1..n}) /\ Len(s) = n
  OBVIOUS
<1> QED
  BY <1>1 DEF IsSeq

\* Two sequences that agree at every place are one.
LEMMA SameSeq ==
  ASSUME NEW s, NEW t, IsSeq(s), IsSeq(t), Len(s) = Len(t), \A k \in 1..Len(s) : s[k] = t[k]
  PROVE  s = t
<1>1. PICK S : s \in Seq(S)
  BY DEF IsSeq
<1>2. PICK T : t \in Seq(T)
  BY DEF IsSeq
<1>3. s \in Seq(S \cup T) /\ t \in Seq(S \cup T)
  BY <1>1, <1>2
<1> QED
  BY <1>3, SeqEqual

\* One sequence after another, kept from being rewritten.
Cat(s, t) == s \o t

\* The length and the members of two sequences joined.
LEMMA Joined ==
  ASSUME NEW s, NEW t, IsSeq(s), IsSeq(t)
  PROVE  /\ IsSeq(Cat(s, t)) /\ Len(s) \in Nat /\ Len(t) \in Nat
         /\ Len(Cat(s, t)) = Len(s) + Len(t)
         /\ \A k \in 1..Len(s) + Len(t) : Cat(s, t)[k] = IF k <= Len(s) THEN s[k] ELSE t[k - Len(s)]
<1>1. PICK S : s \in Seq(S)
  BY DEF IsSeq
<1>2. PICK T : t \in Seq(T)
  BY DEF IsSeq
<1>3. s \in Seq(S \cup T) /\ t \in Seq(S \cup T) /\ Len(s) \in Nat /\ Len(t) \in Nat
  BY <1>1, <1>2
<1>4. /\ Cat(s, t) \in Seq(S \cup T)
      /\ Len(Cat(s, t)) = Len(s) + Len(t)
      /\ \A k \in 1..Len(s) + Len(t) : Cat(s, t)[k] = IF k <= Len(s) THEN s[k] ELSE t[k - Len(s)]
  BY <1>3, ConcatProperties DEF Cat
<1> QED
  BY <1>3, <1>4 DEF IsSeq

\* What is read from d cells after the beginning of the body.
LEMMA ReadForm ==
  ASSUME NEW f, IsSeq(f.body), NEW d \in 0..Len(f.body), NEW len \in Nat
  PROVE  LET r == Read(f, DataStart + d, len)
         IN  /\ IsSeq(r) /\ Len(r) = Least(len, Len(f.body) - d)
             /\ \A k \in 1..Len(r) : r[k] = f.body[k + d]
<1> DEFINE e == Least(d + len, Len(f.body))
           r == SubSeq(f.body, d + 1, e)
<1>1. PICK S : f.body \in Seq(S)
  BY DEF IsSeq
<1>2. Len(f.body) \in Nat /\ DataStart \in Nat /\ d \in Nat
  BY <1>1, MupgAssumption
<1>3. e \in Nat /\ d <= e /\ e <= Len(f.body) /\ e - d = Least(len, Len(f.body) - d)
  BY <1>2 DEF Least
<1>4. Read(f, DataStart + d, len) = r
  <2>1. Read(f, DataStart + d, len)
          = SubSeq(f.body, (DataStart + d) - DataStart + 1,
                   Least((DataStart + d) - DataStart + len, Len(f.body)))
    BY DEF Read
  <2>2. (DataStart + d) - DataStart = d
    BY <1>2
  <2> QED
    BY <1>2, <2>1, <2>2
<1> HIDE DEF e
<1>5. \A i \in d + 1 .. e : f.body[i] \in S
  BY <1>1, <1>2, <1>3
<1>6. /\ r \in Seq(S) /\ Len(r) = IF d + 1 <= e THEN e - (d + 1) + 1 ELSE 0
      /\ \A k \in 1..e - (d + 1) + 1 : r[k] = f.body[(d + 1) + k - 1]
  BY <1>2, <1>3, <1>5, SubSeqProperties
<1>7. Len(r) = e - d /\ \A k \in 1..e - d : r[k] = f.body[k + d]
  BY <1>2, <1>3, <1>6
<1> QED
  BY <1>3, <1>4, <1>6, <1>7 DEF IsSeq

-----------------------------------------------------------------------------
(* The partition table, and where it says that the images are.             *)

\* The rows of the table.
LEMMA TableFacts ==
  ASSUME NEW L \in Nat
  PROVE  /\ Len(Table(L)) = 4 /\ DOMAIN Table(L) = 1..4
         /\ Table(L)[1].name = "fastboot" /\ Table(L)[1].img = 1
         /\ Table(L)[2].name = "logo" /\ Table(L)[2].img = 2
         /\ Table(L)[3].name = "rootfs" /\ Table(L)[3].img = L
         /\ Table(L)[4].name = "user" /\ Table(L)[4].img = 1
  BY DEF Table

\* Where each image begins, and where the last one ends.
Starts(L) ==
  [k \in 0..4 |-> IF k = 0 THEN DataStart ELSE IF k = 1 THEN DataStart + 1
                  ELSE IF k = 2 THEN DataStart + 3 ELSE IF k = 3 THEN DataStart + 3 + L
                  ELSE DataStart + 4 + L]

\* The equation that defines the ends of the images.
Sums(S, L) ==
  S = [k \in 0..4 |-> IF k = 0 THEN DataStart ELSE S[k - 1] + Table(L)[k].img]

\* It has one solution.
LEMMA SumsAreStarts ==
  ASSUME NEW L \in Nat, NEW S
  PROVE  Sums(S, L) <=> S = Starts(L)
<1> DEFINE Img(k) == Table(L)[k].img
<1>1. Img(1) = 1 /\ Img(2) = 2 /\ Img(3) = L /\ Img(4) = 1
  BY TableFacts
<1> HIDE DEF Img
<1>2. Sums(Starts(L), L)
  <2>1. \A k \in 1..4 : Starts(L)[k] = Starts(L)[k - 1] + Img(k)
    <3> SUFFICES ASSUME NEW k \in 1..4
                 PROVE  Starts(L)[k] = Starts(L)[k - 1] + Img(k)
      OBVIOUS
    <3>1. k = 1 \/ k = 2 \/ k = 3 \/ k = 4
      OBVIOUS
    <3> QED
      BY <1>1, <3>1, MupgAssumption DEF Starts
  <2>2. Starts(L) = [k \in 0..4 |-> Starts(L)[k]] /\ Starts(L)[0] = DataStart
    BY DEF Starts
  <2> QED
    BY <2>1, <2>2 DEF Sums, Img
<1>3. ASSUME Sums(S, L)
      PROVE  S = Starts(L)
  <2>1. S = [k \in 0..4 |-> S[k]]
    BY <1>3 DEF Sums
  <2>2. \A k \in 0..4 : S[k] = IF k = 0 THEN DataStart ELSE S[k - 1] + Img(k)
    BY <1>3 DEF Sums, Img
  <2>3. S[0] = DataStart /\ S[1] = S[0] + Img(1) /\ S[2] = S[1] + Img(2)
        /\ S[3] = S[2] + Img(3) /\ S[4] = S[3] + Img(4)
    BY <2>2
  <2>4. S[1] = DataStart + 1 /\ S[2] = DataStart + 3 /\ S[3] = DataStart + 3 + L
        /\ S[4] = DataStart + 4 + L
    BY <1>1, <2>3, MupgAssumption
  <2> QED
    BY <2>1, <2>3, <2>4 DEF Starts
<1> QED
  BY <1>2, <1>3

\* Hence the ends of the images of the table.
LEMMA EndsAre ==
  ASSUME NEW L \in Nat
  PROVE  Ends(Table(L)) = Starts(L)
<1>1. Ends(Table(L)) = CHOOSE S : Sums(S, L)
  <2>1. Len(Table(L)) = 4
    BY TableFacts
  <2> QED
    BY <2>1 DEF Ends, Sums
<1>2. \A S : Sums(S, L) <=> S = Starts(L)
  BY SumsAreStarts
<1> QED
  BY <1>1, <1>2

\* The same, one by one.
LEMMA StartsAre ==
  ASSUME NEW L \in Nat
  PROVE  /\ Starts(L)[1 - 1] = DataStart /\ Starts(L)[2 - 1] = DataStart + 1
         /\ Starts(L)[3 - 1] = DataStart + 3 /\ Starts(L)[4 - 1] = DataStart + 3 + L
         /\ Starts(L)[4] = DataStart + (L + 4)
  BY MupgAssumption DEF Starts

\* The offset written into the tools.
LEMMA OffsetIs == RootfsOff = DataStart + 3 /\ DataStart \in Nat /\ DataStart >= 2 /\ RootfsLen \in Nat
<1>1. RootfsLen \in Nat /\ DataStart \in Nat /\ DataStart >= 2
  BY WorkbenchAssumption, MupgAssumption
<1>2. Ends(Table(RootfsLen))[2] = DataStart + 3
  BY <1>1, EndsAre DEF Starts
<1> QED
  BY <1>1, <1>2, OffsetAssumption

\* The table names the root file system third and fastboot first, and nowhere else.
LEMMA RootfsThird ==
  ASSUME NEW f, NEW L \in Nat, f.table = Table(L)
  PROVE  IndexOf(f, {"rootfs"}, 0) = 3 /\ IndexOf(f, {"fastboot"}, 1) = 1
<1>1. /\ DOMAIN Table(L) = 1..4
      /\ Table(L)[1].name = "fastboot" /\ Table(L)[2].name = "logo"
      /\ Table(L)[3].name = "rootfs" /\ Table(L)[4].name = "user"
  BY TableFacts
<1> DEFINE T == Table(L)
<1> HIDE DEF T
<1>2. T = f.table
  BY DEF T
<1>3. /\ DOMAIN T = 1..4
      /\ T[1].name = "fastboot" /\ T[2].name = "logo"
      /\ T[3].name = "rootfs" /\ T[4].name = "user"
  BY <1>1 DEF T
<1>4. IndexOf(f, {"rootfs"}, 0) = 3
  <2> DEFINE P(k) == T[k].name \in {"rootfs"} /\ \A j \in 1..k - 1 : T[j].name \notin {"rootfs"}
  <2>1. IndexOf(f, {"rootfs"}, 0)
          = IF \E k \in DOMAIN T : T[k].name \in {"rootfs"} THEN CHOOSE k \in DOMAIN T : P(k) ELSE 0
    BY <1>2 DEF IndexOf
  <2>2. P(3)
    <3>1. \A j \in 1..3 - 1 : j = 1 \/ j = 2
      OBVIOUS
    <3> QED
      BY <1>3, <3>1
  <2>3. \A k \in 1..4 : P(k) => k = 3
    <3>1. \A k \in 1..4 : k = 1 \/ k = 2 \/ k = 3 \/ k = 4
      OBVIOUS
    <3> QED
      BY <1>3, <3>1
  <2>4. \E k \in DOMAIN T : T[k].name \in {"rootfs"}
    BY <1>3
  <2> HIDE DEF P
  <2>5. (CHOOSE k \in DOMAIN T : P(k)) = 3
    BY <1>3, <2>2, <2>3
  <2> QED
    BY <2>1, <2>4, <2>5
<1>5. IndexOf(f, {"fastboot"}, 1) = 1
  <2> DEFINE P(k) == T[k].name \in {"fastboot"} /\ \A j \in 1..k - 1 : T[j].name \notin {"fastboot"}
  <2>1. IndexOf(f, {"fastboot"}, 1)
          = IF \E k \in DOMAIN T : T[k].name \in {"fastboot"} THEN CHOOSE k \in DOMAIN T : P(k) ELSE 1
    BY <1>2 DEF IndexOf
  <2>2. P(1)
    BY <1>3
  <2>3. \A k \in 1..4 : P(k) => k = 1
    <3>1. \A k \in 1..4 : k = 1 \/ k = 2 \/ k = 3 \/ k = 4
      OBVIOUS
    <3> QED
      BY <1>3, <3>1
  <2>4. \E k \in DOMAIN T : T[k].name \in {"fastboot"}
    BY <1>3
  <2> HIDE DEF P
  <2>5. (CHOOSE k \in DOMAIN T : P(k)) = 1
    BY <1>3, <2>2, <2>3
  <2> QED
    BY <2>1, <2>4, <2>5
<1> QED
  BY <1>4, <1>5

\* The images of a file of four partitions, one after the other.
Rows(room) ==
  {[name |-> "fastboot", off |-> DataStart, len |-> 1],
   [name |-> "logo", off |-> DataStart + 1, len |-> 2],
   [name |-> "rootfs", off |-> DataStart + 3, len |-> room],
   [name |-> "user", off |-> DataStart + 3 + room, len |-> 1]}

\* They are what the table lays out.
LEMMA LayoutForm ==
  ASSUME NEW L \in Nat
  PROVE  Layout(Table(L)) = Rows(L)
<1> DEFINE T == Table(L)
           S == Starts(L)
           Row(k) == [name |-> T[k].name, off |-> S[k - 1], len |-> T[k].img]
<1>1. Layout(T) = {Row(k) : k \in 1..4}
  BY EndsAre, TableFacts DEF Layout
<1>2. /\ T[1].name = "fastboot" /\ T[1].img = 1 /\ T[2].name = "logo" /\ T[2].img = 2
      /\ T[3].name = "rootfs" /\ T[3].img = L /\ T[4].name = "user" /\ T[4].img = 1
  BY TableFacts
<1>3. /\ S[1 - 1] = DataStart /\ S[2 - 1] = DataStart + 1
      /\ S[3 - 1] = DataStart + 3 /\ S[4 - 1] = DataStart + 3 + L
  BY StartsAre
<1> HIDE DEF T, S
<1>4. Rows(L) = {Row(1), Row(2), Row(3), Row(4)}
  BY <1>2, <1>3 DEF Rows
<1> HIDE DEF Row
<1>5. {Row(k) : k \in 1..4} = {Row(1), Row(2), Row(3), Row(4)}
  OBVIOUS
<1> QED
  BY <1>1, <1>4, <1>5 DEF T

\* A reader that takes four entries or more takes the whole table.
LEMMA EntriesForm ==
  ASSUME NEW f, NEW L \in Nat, f.table = Table(L), NEW limit \in Nat, limit >= 4
  PROVE  EntriesFrom(f, 1, limit) = Table(L)
<1> DEFINE T == Table(L)
<1>1. Len(T) = 4 /\ T \in Seq({T[k] : k \in 1..4})
  BY TableFacts DEF Table
<1>2. Least(1 + limit - 1, 4) = 4
  BY DEF Least
<1>3. EntriesFrom(f, 1, limit) = SubSeq(T, 1, Len(T))
  BY <1>1, <1>2 DEF EntriesFrom
<1> HIDE DEF T
<1>4. SubSeq(T, 1, Len(T)) = T
  BY <1>1, SubSeqFull
<1> QED
  BY <1>3, <1>4 DEF T

\* scan_version.py passes over none of the four.
LEMMA VersionLayoutForm ==
  ASSUME NEW f, NEW L \in Nat, f.table = Table(L)
  PROVE  version_layout(f) = Rows(L)
<1> DEFINE T == Table(L)
           listed == {k \in DOMAIN T : T[k].name \in Listed}
           Sum(S) == S = [k \in 0..Len(T) |->
                            IF k = 0 THEN DataStart
                            ELSE S[k - 1] + IF k \in listed THEN T[k].img ELSE 0]
           V == CHOOSE S : Sum(S)
<1>1. version_layout(f) = {[name |-> T[k].name, off |-> V[k - 1], len |-> T[k].img] : k \in listed}
  BY DEF version_layout
<1>2. DOMAIN T = 1..4 /\ Len(T) = 4 /\ \A k \in 1..4 : T[k].name \in Listed
  <2>1. \A k \in 1..4 : k = 1 \/ k = 2 \/ k = 3 \/ k = 4
    OBVIOUS
  <2> QED
    BY <2>1, TableFacts DEF Listed
<1>3. listed = 1..4
  BY <1>2
<1>4. \A S : Sum(S) <=> Sums(S, L)
  <2> SUFFICES ASSUME NEW S
               PROVE  Sum(S) <=> Sums(S, L)
    OBVIOUS
  <2> HIDE DEF T, listed
  <2>1. [k \in 0..Len(T) |-> IF k = 0 THEN DataStart
                             ELSE S[k - 1] + IF k \in listed THEN T[k].img ELSE 0]
          = [k \in 0..4 |-> IF k = 0 THEN DataStart ELSE S[k - 1] + T[k].img]
    BY <1>2, <1>3
  <2> QED
    BY <2>1 DEF Sums, T
<1> HIDE DEF Sum
<1>5. V = Starts(L)
  BY <1>4, SumsAreStarts
<1> HIDE DEF V, listed
<1>6. Layout(T) = {[name |-> T[k].name, off |-> Starts(L)[k - 1], len |-> T[k].img] : k \in 1..4}
  BY <1>2, EndsAre DEF Layout
<1>7. version_layout(f) = Layout(T)
  BY <1>1, <1>3, <1>5, <1>6
<1> QED
  BY <1>7, LayoutForm

\* The other three readers start at the first entry.
LEMMA ReadersForm ==
  ASSUME NEW f, NEW L \in Nat, f.table = Table(L)
  PROVE  /\ parse_table(f) = Table(L) /\ parse_report_table(f) = Table(L)
         /\ EntriesFrom(f, 1, 12) = Table(L)
<1>1. find_table_start(f) = 1
  BY RootfsThird DEF find_table_start
<1>2. find_report_start(f) = 1
  <2>1. 1 \in DOMAIN f.table /\ f.table[1].name = "fastboot"
    BY TableFacts
  <2> QED
    BY <1>1, <2>1 DEF find_report_start
<1>3. EntriesFrom(f, 1, 12) = Table(L) /\ EntriesFrom(f, 1, 32) = Table(L)
  <2>1. 12 \in Nat /\ 12 >= 4 /\ 32 \in Nat /\ 32 >= 4
    OBVIOUS
  <2> QED
    BY <2>1, EntriesForm
<1> QED
  BY <1>1, <1>2, <1>3 DEF parse_table, parse_report_table

-----------------------------------------------------------------------------
(* The form of an image.                                                   *)

\* The k-th cell of the image of a run b of the builder: what comes before the root file
\* system, the stream, the zeros that fill up its room, and what comes after.
CellOf(b, text, room, k) ==
  IF k = 1 THEN Cell("fastboot", NoArchive, 1, 1, "")
  ELSE IF k = 2 THEN Cell("logo", NoArchive, 1, 2, "")
  ELSE IF k = 3 THEN Cell("logo", NoArchive, 2, 2, text)
  ELSE IF k <= 3 + b.len
       THEN Cell("gz", b.archive, k - 3, b.len, IF b.hit /\ k = 3 + b.len THEN text ELSE "")
  ELSE IF k <= 3 + room THEN Zero
  ELSE Cell("user", NoArchive, 1, 1, "")

\* The whole image.
File(b, text, room) ==
  [size |-> DataStart + (room + 4) - SizeBase, vers |-> <<text, text>>,
   table |-> Table(room), body |-> [k \in 1..room + 4 |-> CellOf(b, text, room, k)]]

\* What a run of the builder means to write, as the history variable built has it.
Run(a, n, hit) == [archive |-> a, len |-> n, hit |-> hit]

\* The room the root file system has in the image built of this run.
Room(b) == IF b.len <= RootfsLen THEN RootfsLen ELSE b.len

\* The stock image, as if a run had built it.
StockRun == Run(stock, RootfsLen, FALSE)

\* The cells, one part after the other.
LEMMA CellFacts ==
  ASSUME NEW b, NEW text, NEW room \in Nat, b.len \in Nat, b.len <= room
  PROVE  /\ CellOf(b, text, room, 1) = Cell("fastboot", NoArchive, 1, 1, "")
         /\ CellOf(b, text, room, 2) = Cell("logo", NoArchive, 1, 2, "")
         /\ CellOf(b, text, room, 3) = Cell("logo", NoArchive, 2, 2, text)
         /\ \A k \in 1..b.len :
              CellOf(b, text, room, k + 3)
                = Cell("gz", b.archive, k, b.len, IF b.hit /\ k = b.len THEN text ELSE "")
         /\ \A k \in b.len + 1 .. room : CellOf(b, text, room, k + 3) = Zero
         /\ CellOf(b, text, room, room + 4) = Cell("user", NoArchive, 1, 1, "")
<1>1. /\ CellOf(b, text, room, 1) = Cell("fastboot", NoArchive, 1, 1, "")
      /\ CellOf(b, text, room, 2) = Cell("logo", NoArchive, 1, 2, "")
      /\ CellOf(b, text, room, 3) = Cell("logo", NoArchive, 2, 2, text)
  BY DEF CellOf
<1>2. ASSUME NEW k \in 1..b.len
      PROVE  CellOf(b, text, room, k + 3)
               = Cell("gz", b.archive, k, b.len, IF b.hit /\ k = b.len THEN text ELSE "")
  <2>1. /\ ~(k + 3 = 1) /\ ~(k + 3 = 2) /\ ~(k + 3 = 3) /\ k + 3 <= 3 + b.len /\ (k + 3) - 3 = k
        /\ (k + 3 = 3 + b.len) = (k = b.len)
    OBVIOUS
  <2> QED
    BY <2>1 DEF CellOf
<1>3. ASSUME NEW k \in b.len + 1 .. room
      PROVE  CellOf(b, text, room, k + 3) = Zero
  <2>1. /\ ~(k + 3 = 1) /\ ~(k + 3 = 2) /\ ~(k + 3 = 3) /\ ~(k + 3 <= 3 + b.len)
        /\ k + 3 <= 3 + room
    OBVIOUS
  <2> QED
    BY <2>1 DEF CellOf
<1>4. CellOf(b, text, room, room + 4) = Cell("user", NoArchive, 1, 1, "")
  <2>1. /\ ~(room + 4 = 1) /\ ~(room + 4 = 2) /\ ~(room + 4 = 3) /\ ~(room + 4 <= 3 + b.len)
        /\ ~(room + 4 <= 3 + room)
    OBVIOUS
  <2> QED
    BY <2>1 DEF CellOf
<1> QED
  BY <1>1, <1>2, <1>3, <1>4

\* The body as a sequence.
LEMMA BodyForm ==
  ASSUME NEW b, NEW text, NEW room \in Nat
  PROVE  LET body == File(b, text, room).body
         IN  /\ IsSeq(body) /\ Len(body) = room + 4
             /\ \A k \in 1..room + 4 : body[k] = CellOf(b, text, room, k)
<1> DEFINE body == File(b, text, room).body
<1>1. body = [k \in 1..room + 4 |-> body[k]]
      /\ \A k \in 1..room + 4 : body[k] = CellOf(b, text, room, k)
  BY DEF File
<1> HIDE DEF body
<1>2. IsSeq(body) /\ Len(body) = room + 4
  <2>1. room + 4 \in Nat
    OBVIOUS
  <2> QED
    BY <1>1, <2>1, Tabulated
<1> QED
  BY <1>1, <1>2 DEF body

\* The fields of a cell.
LEMMA CellFields ==
  ASSUME NEW of, NEW a, NEW k, NEW n, NEW text
  PROVE  /\ Cell(of, a, k, n, text).of = of /\ Cell(of, a, k, n, text).a = a
         /\ Cell(of, a, k, n, text).k = k /\ Cell(of, a, k, n, text).n = n
         /\ Cell(of, a, k, n, text).text = text
  BY DEF Cell

\* A cell with another text.
LEMMA Rewritten ==
  ASSUME NEW of, NEW a, NEW k, NEW n, NEW text, NEW other
  PROVE  [Cell(of, a, k, n, text) EXCEPT !.text = other] = Cell(of, a, k, n, other)
  BY DEF Cell

\* The text of a cell without a version string.
LEMMA NoText ==
  ASSUME NEW s, NEW i, NEW of, NEW a, NEW k, NEW n, s[i] = Cell(of, a, k, n, "")
  PROVE  s[i].text = ""
<1> DEFINE c == s[i]
<1>1. c = Cell(of, a, k, n, "")
  OBVIOUS
<1> HIDE DEF c
<1>2. c.text = ""
  BY <1>1 DEF Cell
<1> QED
  BY <1>2 DEF c

-----------------------------------------------------------------------------
(* What the builder puts together.                                         *)

\* A partition no tool looks into.
LEMMA PlainForm ==
  ASSUME NEW p, NEW n \in Nat
  PROVE  IsSeq(Plain(p, n)) /\ Len(Plain(p, n)) = n
<1> DEFINE s == Plain(p, n)
<1>1. s = [k \in 1..n |-> s[k]]
  BY DEF Plain
<1> HIDE DEF s
<1>2. IsSeq(s) /\ Len(s) = n
  BY <1>1, Tabulated
<1> QED
  BY <1>2 DEF s

\* What comes before the root file system.
Front == Cat(Plain("fastboot", 1), Plain("logo", 2))

\* Its three cells.
LEMMA FrontForm ==
  /\ IsSeq(Front) /\ Len(Front) = 3
  /\ Front[1] = Cell("fastboot", NoArchive, 1, 1, "")
  /\ Front[2] = Cell("logo", NoArchive, 1, 2, "")
  /\ Front[3] = Cell("logo", NoArchive, 2, 2, "old")
<1> DEFINE s == Plain("fastboot", 1)
           t == Plain("logo", 2)
<1>1. IsSeq(s) /\ Len(s) = 1 /\ IsSeq(t) /\ Len(t) = 2
  BY PlainForm
<1>2. /\ s[1] = Cell("fastboot", NoArchive, 1, 1, "")
      /\ t[1] = Cell("logo", NoArchive, 1, 2, "") /\ t[2] = Cell("logo", NoArchive, 2, 2, "old")
  BY DEF Plain
<1>3. Front = Cat(s, t)
  BY DEF Front
<1> HIDE DEF s, t
<1>4. /\ IsSeq(Cat(s, t)) /\ Len(Cat(s, t)) = 3
      /\ \A k \in 1..3 : Cat(s, t)[k] = IF k <= 1 THEN s[k] ELSE t[k - 1]
  <2>1. /\ IsSeq(Cat(s, t)) /\ Len(Cat(s, t)) = Len(s) + Len(t)
        /\ \A k \in 1..Len(s) + Len(t) : Cat(s, t)[k] = IF k <= Len(s) THEN s[k] ELSE t[k - Len(s)]
    BY <1>1, Joined
  <2> QED
    BY <1>1, <2>1
<1>5. Cat(s, t)[2] = t[1] /\ Cat(s, t)[3] = t[2] /\ Cat(s, t)[1] = s[1]
  BY <1>4
<1> QED
  BY <1>2, <1>3, <1>4, <1>5

\* What comes after has one cell.
LEMMA UserForm == IsSeq(User) /\ Len(User) = 1 /\ User[1] = Cell("user", NoArchive, 1, 1, "")
<1>1. IsSeq(User) /\ Len(User) = 1
  BY PlainForm DEF User
<1>2. User[1] = Cell("user", NoArchive, 1, 1, "")
  BY DEF User, Plain
<1> QED
  BY <1>1, <1>2

\* A stream, cell by cell.
LEMMA StreamForm ==
  ASSUME NEW a, NEW n \in Nat, NEW hit
  PROVE  /\ IsSeq(Stream(a, n, hit)) /\ Len(Stream(a, n, hit)) = n
         /\ \A k \in 1..n : Stream(a, n, hit)[k]
                              = Cell("gz", a, k, n, IF hit /\ k = n THEN "old" ELSE "")
<1> DEFINE s == Stream(a, n, hit)
<1>1. s = [k \in 1..n |-> s[k]]
  BY DEF Stream
<1>2. \A k \in 1..n : s[k] = Cell("gz", a, k, n, IF hit /\ k = n THEN "old" ELSE "")
  BY DEF Stream
<1> HIDE DEF s
<1>3. IsSeq(s) /\ Len(s) = n
  BY <1>1, Tabulated
<1> QED
  BY <1>2, <1>3 DEF s

\* A stream, and what fills up the room it has.
Padded(gz, m) == Cat(gz, [k \in 1..m |-> Zero])

\* Its cells.
LEMMA PaddedForm ==
  ASSUME NEW a, NEW n \in Nat, NEW hit, NEW m \in Nat
  PROVE  LET s == Padded(Stream(a, n, hit), m)
         IN  /\ IsSeq(s) /\ Len(s) = n + m
             /\ \A k \in 1..n + m :
                  s[k] = IF k <= n THEN Cell("gz", a, k, n, IF hit /\ k = n THEN "old" ELSE "")
                         ELSE Zero
<1> DEFINE gz == Stream(a, n, hit)
           pad == [k \in 1..m |-> Zero]
<1>1. /\ IsSeq(gz) /\ Len(gz) = n
      /\ \A k \in 1..n : gz[k] = Cell("gz", a, k, n, IF hit /\ k = n THEN "old" ELSE "")
  BY ZenonT(60), StreamForm
<1>2. pad = [k \in 1..m |-> pad[k]] /\ \A k \in 1..m : pad[k] = Zero
  OBVIOUS
<1>3. Padded(gz, m) = Cat(gz, pad)
  BY DEF Padded
<1> HIDE DEF gz, pad
<1>4. IsSeq(pad) /\ Len(pad) = m
  BY <1>2, Tabulated
<1>5. /\ IsSeq(Cat(gz, pad)) /\ Len(Cat(gz, pad)) = Len(gz) + Len(pad)
      /\ \A k \in 1..Len(gz) + Len(pad) :
           Cat(gz, pad)[k] = IF k <= Len(gz) THEN gz[k] ELSE pad[k - Len(gz)]
  BY <1>1, <1>4, Joined
<1>6. \A k \in 1..n + m : (k <= n => k \in 1..n) /\ (~(k <= n) => k - n \in 1..m)
  OBVIOUS
<1>7. /\ IsSeq(Cat(gz, pad)) /\ Len(Cat(gz, pad)) = n + m
      /\ \A k \in 1..n + m :
           Cat(gz, pad)[k] = IF k <= n THEN Cell("gz", a, k, n, IF hit /\ k = n THEN "old" ELSE "")
                             ELSE Zero
  BY <1>1, <1>2, <1>4, <1>5, <1>6
<1> QED
  BY <1>3, <1>7 DEF gz

\* With no room left nothing is filled up.
LEMMA Unpadded ==
  ASSUME NEW a, NEW n \in Nat, NEW hit
  PROVE  Padded(Stream(a, n, hit), 0) = Stream(a, n, hit)
<1> DEFINE s == Padded(Stream(a, n, hit), 0)
           t == Stream(a, n, hit)
<1>1. /\ IsSeq(t) /\ Len(t) = n
      /\ \A k \in 1..n : t[k] = Cell("gz", a, k, n, IF hit /\ k = n THEN "old" ELSE "")
  BY ZenonT(60), StreamForm
<1>2. /\ IsSeq(s) /\ Len(s) = n + 0
      /\ \A k \in 1..n + 0 :
           s[k] = IF k <= n THEN Cell("gz", a, k, n, IF hit /\ k = n THEN "old" ELSE "") ELSE Zero
  BY PaddedForm
<1> HIDE DEF s, t
<1>3. n + 0 = n
  OBVIOUS
<1>4. Len(s) = n /\ \A k \in 1..n : s[k] = t[k]
  <2>1. \A k \in 1..n : k <= n /\ k \in 1..n + 0
    OBVIOUS
  <2> QED
    BY <1>1, <1>2, <1>3, <2>1
<1>5. s = t
  BY <1>1, <1>2, <1>4, SameSeq
<1> QED
  BY <1>5 DEF s, t

\* The parts of an image, joined.
LEMMA ImageForm ==
  ASSUME NEW rootfs, NEW m, IsSeq(rootfs), Len(rootfs) = m
  PROVE  /\ IsSeq(Image(rootfs, User)) /\ m \in Nat /\ Len(Image(rootfs, User)) = m + 4
         /\ \A k \in 1..m + 4 :
              Image(rootfs, User)[k] = IF k <= 3 THEN Front[k]
                                       ELSE IF k <= m + 3 THEN rootfs[k - 3] ELSE User[1]
<1> DEFINE first == Cat(Front, rootfs)
           image == Cat(first, User)
<1>1. image = Image(rootfs, User)
  BY DEF Image, Front, Cat
<1>2. /\ IsSeq(first) /\ m \in Nat /\ Len(first) = 3 + m
      /\ \A k \in 1..3 + m : first[k] = IF k <= 3 THEN Front[k] ELSE rootfs[k - 3]
  <2>1. /\ IsSeq(first) /\ Len(rootfs) \in Nat /\ Len(first) = Len(Front) + Len(rootfs)
        /\ \A k \in 1..Len(Front) + Len(rootfs) :
             first[k] = IF k <= Len(Front) THEN Front[k] ELSE rootfs[k - Len(Front)]
    BY FrontForm, Joined
  <2> QED
    BY <2>1, FrontForm
<1> HIDE DEF first
<1>3. /\ IsSeq(image) /\ Len(image) = (3 + m) + 1
      /\ \A k \in 1..(3 + m) + 1 : image[k] = IF k <= 3 + m THEN first[k] ELSE User[k - (3 + m)]
  <2>1. /\ IsSeq(image) /\ Len(image) = Len(first) + Len(User)
        /\ \A k \in 1..Len(first) + Len(User) :
             image[k] = IF k <= Len(first) THEN first[k] ELSE User[k - Len(first)]
    BY <1>2, UserForm, Joined
  <2> QED
    BY <1>2, <2>1, UserForm
<1> HIDE DEF image
<1>4. \A k \in 1..m + 4 : k \in 1..(3 + m) + 1 /\ (~(k <= 3 + m) => k - (3 + m) = 1)
  BY <1>2
<1>5. \A k \in 1..m + 4 : k <= m + 3 => k \in 1..3 + m
  BY <1>2
<1>6. \A k \in 1..m + 4 :
        image[k] = IF k <= 3 THEN Front[k] ELSE IF k <= m + 3 THEN rootfs[k - 3] ELSE User[1]
  BY <1>2, <1>3, <1>4, <1>5
<1> QED
  BY <1>1, <1>2, <1>3, <1>6

\* The image around a padded stream.
LEMMA FullForm ==
  ASSUME NEW a, NEW n \in Nat, NEW hit \in BOOLEAN, NEW m \in Nat
  PROVE  Image(Padded(Stream(a, n, hit), m), User) = File(Run(a, n, hit), "old", n + m).body
<1> DEFINE gz == Padded(Stream(a, n, hit), m)
           image == Image(gz, User)
           b == Run(a, n, hit)
           body == File(b, "old", n + m).body
           Gz(k) == Cell("gz", a, k, n, IF hit /\ k = n THEN "old" ELSE "")
<1>1. /\ IsSeq(gz) /\ Len(gz) = n + m
      /\ \A k \in 1..n + m : gz[k] = IF k <= n THEN Gz(k) ELSE Zero
  BY PaddedForm
<1>2. /\ IsSeq(body) /\ Len(body) = (n + m) + 4
      /\ \A k \in 1..(n + m) + 4 : body[k] = CellOf(b, "old", n + m, k)
  <2>1. n + m \in Nat
    OBVIOUS
  <2> QED
    BY <2>1, BodyForm
<1>3. b.archive = a /\ b.len = n /\ b.hit = hit
  BY DEF Run
<1> HIDE DEF gz, b, body
<1>4. /\ IsSeq(image) /\ Len(image) = (n + m) + 4
      /\ \A k \in 1..(n + m) + 4 :
           image[k] = IF k <= 3 THEN Front[k]
                      ELSE IF k <= (n + m) + 3 THEN gz[k - 3] ELSE User[1]
  BY <1>1, ImageForm
<1> HIDE DEF image, Gz
<1>5. /\ body[1] = Cell("fastboot", NoArchive, 1, 1, "")
      /\ body[2] = Cell("logo", NoArchive, 1, 2, "")
      /\ body[3] = Cell("logo", NoArchive, 2, 2, "old")
      /\ \A k \in 1..n : body[k + 3] = Gz(k)
      /\ \A k \in n + 1 .. n + m : body[k + 3] = Zero
      /\ body[n + m + 4] = Cell("user", NoArchive, 1, 1, "")
  <2>1. n + m \in Nat /\ b.len \in Nat /\ b.len <= n + m
    BY <1>3
  <2>2. /\ CellOf(b, "old", n + m, 1) = Cell("fastboot", NoArchive, 1, 1, "")
        /\ CellOf(b, "old", n + m, 2) = Cell("logo", NoArchive, 1, 2, "")
        /\ CellOf(b, "old", n + m, 3) = Cell("logo", NoArchive, 2, 2, "old")
        /\ \A k \in 1..b.len :
             CellOf(b, "old", n + m, k + 3)
               = Cell("gz", b.archive, k, b.len, IF b.hit /\ k = b.len THEN "old" ELSE "")
        /\ \A k \in b.len + 1 .. n + m : CellOf(b, "old", n + m, k + 3) = Zero
        /\ CellOf(b, "old", n + m, (n + m) + 4) = Cell("user", NoArchive, 1, 1, "")
    BY <2>1, CellFacts
  <2>3. /\ 1 \in 1..(n + m) + 4 /\ 2 \in 1..(n + m) + 4 /\ 3 \in 1..(n + m) + 4
        /\ (n + m) + 4 \in 1..(n + m) + 4
        /\ \A k \in 1..n + m : k + 3 \in 1..(n + m) + 4
        /\ \A k \in 1..n : k \in 1..n + m
        /\ \A k \in n + 1 .. n + m : k \in 1..n + m
    OBVIOUS
  <2>4. \A k \in 1..n : body[k + 3] = Gz(k)
    BY <1>2, <1>3, <2>2, <2>3 DEF Gz
  <2> QED
    BY <1>2, <1>3, <2>2, <2>3, <2>4
<1>6. ASSUME NEW k \in 1..(n + m) + 4
      PROVE  image[k] = body[k]
  <2>1. CASE k <= 3
    <3>1. k = 1 \/ k = 2 \/ k = 3
      BY <2>1
    <3>2. image[k] = Front[k]
      BY <1>4, <2>1
    <3> QED
      BY <1>5, <3>1, <3>2, FrontForm
  <2>2. CASE k > 3 /\ k <= n + m + 3
    <3>1. PICK j \in 1..n + m : j = k - 3
      BY <2>2
    <3>2. image[k] = gz[j] /\ k = j + 3
      BY <1>4, <2>2, <3>1
    <3>3. CASE j <= n
      <4>1. gz[j] = Gz(j)
        BY <1>1, <3>3
      <4>2. j \in 1..n
        BY <3>3
      <4>3. body[j + 3] = Gz(j)
        BY <1>5, <4>2
      <4> QED
        BY <3>2, <4>1, <4>3
    <3>4. CASE ~(j <= n)
      <4>1. gz[j] = Zero
        BY <1>1, <3>4
      <4>2. j \in n + 1 .. n + m
        BY <3>4
      <4>3. body[j + 3] = Zero
        BY <1>5, <4>2
      <4> QED
        BY <3>2, <4>1, <4>3
    <3> QED
      BY <3>3, <3>4
  <2>3. CASE k > n + m + 3
    <3>1. image[k] = User[1] /\ k = n + m + 4
      BY <1>4, <2>3
    <3> QED
      BY <1>5, <3>1, UserForm
  <2> QED
    BY <2>1, <2>2, <2>3
<1>7. image = body
  BY <1>2, <1>4, <1>6, SameSeq
<1> QED
  BY <1>7 DEF image, body, gz, b

\* The stock image has the form.
LEMMA StockForm == Stock = File(StockRun, "old", RootfsLen)
<1> DEFINE gz == Stream(stock, RootfsLen, FALSE)
           body == File(StockRun, "old", RootfsLen).body
<1>1. RootfsLen \in Nat
  BY OffsetIs
<1>2. Padded(gz, 0) = gz
  BY <1>1, Unpadded
<1>3. Image(Padded(gz, 0), User) = File(Run(stock, RootfsLen, FALSE), "old", RootfsLen + 0).body
  BY <1>1, FullForm
<1>4. Image(gz, User) = body
  <2>1. RootfsLen + 0 = RootfsLen
    BY <1>1
  <2>2. Image(gz, User) = File(Run(stock, RootfsLen, FALSE), "old", RootfsLen).body
    BY <1>2, <1>3, <2>1
  <2> QED
    BY <2>2 DEF StockRun
<1>5. Len(body) = RootfsLen + 4
  BY <1>1, BodyForm
<1>6. Stock = [size |-> DataStart + Len(Image(gz, User)) - SizeBase, vers |-> <<"old", "old">>,
               table |-> Table(RootfsLen), body |-> Image(gz, User)]
  BY DEF Stock
<1>7. File(StockRun, "old", RootfsLen)
        = [size |-> DataStart + (RootfsLen + 4) - SizeBase, vers |-> <<"old", "old">>,
           table |-> Table(RootfsLen), body |-> body]
  BY DEF File
<1> HIDE DEF body, gz
<1> QED
  BY <1>4, <1>5, <1>6, <1>7

\* Its cells outside the root file system.
LEMMA StockBody ==
  /\ IsSeq(Stock.body) /\ Len(Stock.body) = RootfsLen + 4
  /\ Stock.body[1] = Front[1] /\ Stock.body[2] = Front[2] /\ Stock.body[3] = Front[3]
  /\ Stock.body[RootfsLen + 4] = User[1]
<1> DEFINE body == Stock.body
<1>1. RootfsLen \in Nat
  BY OffsetIs
<1>2. /\ IsSeq(body) /\ Len(body) = RootfsLen + 4
      /\ \A k \in 1..RootfsLen + 4 : body[k] = CellOf(StockRun, "old", RootfsLen, k)
  BY <1>1, StockForm, BodyForm
<1> HIDE DEF body
<1>3. StockRun.len \in Nat /\ StockRun.len <= RootfsLen
  BY <1>1 DEF StockRun, Run
<1>4. /\ CellOf(StockRun, "old", RootfsLen, 1) = Cell("fastboot", NoArchive, 1, 1, "")
      /\ CellOf(StockRun, "old", RootfsLen, 2) = Cell("logo", NoArchive, 1, 2, "")
      /\ CellOf(StockRun, "old", RootfsLen, 3) = Cell("logo", NoArchive, 2, 2, "old")
      /\ CellOf(StockRun, "old", RootfsLen, RootfsLen + 4) = Cell("user", NoArchive, 1, 1, "")
  BY <1>1, <1>3, CellFacts
<1>5. 1 \in 1..RootfsLen + 4 /\ 2 \in 1..RootfsLen + 4 /\ 3 \in 1..RootfsLen + 4
      /\ RootfsLen + 4 \in 1..RootfsLen + 4
  BY <1>1
<1>6. /\ body[1] = Front[1] /\ body[2] = Front[2] /\ body[3] = Front[3]
      /\ body[RootfsLen + 4] = User[1]
  BY <1>2, <1>4, <1>5, FrontForm, UserForm
<1> QED
  BY <1>2, <1>6 DEF body

\* The builder puts the new stream between what was before the old one and what was after.
LEMMA ReplacedForm ==
  ASSUME NEW rootfs
  PROVE  Replaced(rootfs) = Image(rootfs, User)
<1> DEFINE before == Read(Stock, DataStart, RootfsOff - DataStart)
           after == Read(Stock, RootfsOff + RootfsLen, FileSize(Stock))
<1>1. RootfsOff = DataStart + 3 /\ DataStart \in Nat /\ RootfsLen \in Nat
  BY OffsetIs
<1>2. before = Front
  <2>1. before = Read(Stock, DataStart + 0, 3)
    <3>1. RootfsOff - DataStart = 3 /\ DataStart = DataStart + 0
      BY <1>1
    <3> QED
      BY <3>1
  <2> DEFINE r == Read(Stock, DataStart + 0, 3)
  <2>2. 0 \in 0..Len(Stock.body) /\ 3 \in Nat
    BY <1>1, StockBody
  <2>3. /\ IsSeq(r) /\ Len(r) = Least(3, Len(Stock.body) - 0)
        /\ \A k \in 1..Len(r) : r[k] = Stock.body[k + 0]
    BY <2>2, StockBody, ReadForm
  <2>4. Least(3, Len(Stock.body) - 0) = 3
    BY <1>1, StockBody DEF Least
  <2> HIDE DEF r
  <2>5. r[1] = Stock.body[1] /\ r[2] = Stock.body[2] /\ r[3] = Stock.body[3]
    BY <2>3, <2>4
  <2>6. \A k \in 1..3 : k = 1 \/ k = 2 \/ k = 3
    OBVIOUS
  <2>7. Len(r) = 3 /\ \A k \in 1..3 : r[k] = Front[k]
    BY <2>3, <2>4, <2>5, <2>6, StockBody
  <2>8. r = Front
    BY <2>3, <2>7, FrontForm, SameSeq
  <2> QED
    BY <2>1, <2>8 DEF r
<1>3. after = User
  <2> DEFINE d == 3 + RootfsLen
             len == FileSize(Stock)
             r == Read(Stock, DataStart + d, len)
  <2>1. RootfsOff + RootfsLen = DataStart + d
    BY <1>1
  <2>2. d \in 0..Len(Stock.body) /\ len \in Nat /\ len >= 1 /\ Len(Stock.body) - d = 1
    BY <1>1, StockBody DEF FileSize
  <2>3. after = r
    BY <2>1
  <2> HIDE DEF d, len
  <2>4. /\ IsSeq(r) /\ Len(r) = Least(len, Len(Stock.body) - d)
        /\ \A k \in 1..Len(r) : r[k] = Stock.body[k + d]
    BY <2>2, StockBody, ReadForm
  <2> HIDE DEF r
  <2>5. Len(r) = 1
    BY <2>2, <2>4 DEF Least
  <2>6. r[1] = User[1]
    <3>1. 1 + d = RootfsLen + 4
      BY <1>1 DEF d
    <3>2. 1 \in 1..Len(r)
      BY <2>5
    <3>3. r[1] = Stock.body[1 + d]
      BY <2>4, <3>2
    <3> QED
      BY <3>1, <3>3, StockBody
  <2>7. \A k \in 1..1 : k = 1
    OBVIOUS
  <2>8. Len(r) = Len(User) /\ \A k \in 1..Len(r) : r[k] = User[k]
    BY <2>5, <2>6, <2>7, UserForm
  <2>9. r = User
    BY <2>4, <2>8, UserForm, SameSeq
  <2> QED
    BY <2>3, <2>9
<1>4. Replaced(rootfs) = before \o rootfs \o after
  BY DEF Replaced
<1>5. Image(rootfs, User) = Front \o rootfs \o User
  BY DEF Image, Front, Cat
<1> HIDE DEF before, after
<1> QED
  BY <1>2, <1>3, <1>4, <1>5

\* The fields of a file, and a file with one of them changed.
Record(size, vers, table, body) ==
  [size |-> size, vers |-> vers, table |-> table, body |-> body]

\* Another body.
LEMMA NewBody ==
  ASSUME NEW size, NEW vers, NEW table, NEW body, NEW new
  PROVE  [Record(size, vers, table, body) EXCEPT !.body = new] = Record(size, vers, table, new)
  BY DEF Record

\* Another size.
LEMMA NewSize ==
  ASSUME NEW size, NEW vers, NEW table, NEW body, NEW new
  PROVE  [Record(size, vers, table, body) EXCEPT !.size = new] = Record(new, vers, table, body)
  BY DEF Record

\* Another length in the table.
LEMMA NewImg ==
  ASSUME NEW size, NEW vers, NEW table, NEW body, NEW k, NEW new
  PROVE  [Record(size, vers, table, body) EXCEPT !.table[k].img = new]
           = Record(size, vers, [table EXCEPT ![k].img = new], body)
  BY DEF Record

\* Safe mode gives the form, with the room of the stock image.
LEMMA SafeForm ==
  ASSUME NEW a, NEW n \in Nat, n <= RootfsLen, NEW hit \in BOOLEAN
  PROVE  safe_mode(Stream(a, n, hit)) = File(Run(a, n, hit), "old", RootfsLen)
<1> DEFINE gz == Stream(a, n, hit)
           m == RootfsLen - n
           body == File(Run(a, n, hit), "old", RootfsLen).body
<1>1. Len(gz) = n /\ m \in Nat /\ n + m = RootfsLen /\ RootfsLen \in Nat
  <2>1. Len(gz) = n
    BY StreamForm
  <2> QED
    BY <2>1, OffsetIs
<1>2. gz \o [k \in 1..RootfsLen - Len(gz) |-> Zero] = Padded(gz, m)
  BY <1>1 DEF Padded, Cat
<1>3. safe_mode(gz) = [Stock EXCEPT !.body = Replaced(Padded(gz, m))]
  BY <1>2 DEF safe_mode
<1>4. Image(Padded(Stream(a, n, hit), m), User) = File(Run(a, n, hit), "old", n + m).body
  BY <1>1, FullForm
<1>5. Replaced(Padded(gz, m)) = body
  BY <1>1, <1>4, ReplacedForm
<1>6. safe_mode(gz) = [File(StockRun, "old", RootfsLen) EXCEPT !.body = body]
  BY <1>3, <1>5, StockForm
<1> HIDE DEF gz
<1>7. body = [k \in 1..RootfsLen + 4 |-> CellOf(Run(a, n, hit), "old", RootfsLen, k)]
  BY DEF File
<1> HIDE DEF body
<1>8. File(Run(a, n, hit), "old", RootfsLen)
        = Record(DataStart + (RootfsLen + 4) - SizeBase, <<"old", "old">>, Table(RootfsLen), body)
  BY <1>7 DEF File, Record
<1> DEFINE old == File(StockRun, "old", RootfsLen).body
<1>9. File(StockRun, "old", RootfsLen)
        = Record(DataStart + (RootfsLen + 4) - SizeBase, <<"old", "old">>, Table(RootfsLen), old)
  BY DEF File, Record
<1> HIDE DEF old
<1>10. [File(StockRun, "old", RootfsLen) EXCEPT !.body = body]
         = Record(DataStart + (RootfsLen + 4) - SizeBase, <<"old", "old">>, Table(RootfsLen), body)
  BY <1>9, NewBody
<1> QED
  BY <1>6, <1>8, <1>10 DEF gz

\* Resize mode gives the form, with no room to spare.
LEMMA ResizeForm ==
  ASSUME NEW a, NEW n \in Nat, NEW hit \in BOOLEAN
  PROVE  resize_mode(Stream(a, n, hit)) = File(Run(a, n, hit), "old", n)
<1> DEFINE gz == Stream(a, n, hit)
           body == File(Run(a, n, hit), "old", n).body
           S == File(StockRun, "old", RootfsLen)
<1>1. Len(gz) = n /\ RootfsLen \in Nat /\ n + 0 = n
  <2>1. Len(gz) = n
    BY StreamForm
  <2> QED
    BY <2>1, OffsetIs
<1>2. Padded(gz, 0) = gz
  BY Unpadded
<1>3. Image(Padded(Stream(a, n, hit), 0), User) = File(Run(a, n, hit), "old", n + 0).body
  BY FullForm
<1>4. Replaced(gz) = body
  BY <1>1, <1>2, <1>3, ReplacedForm
<1>5. Len(body) = n + 4
  BY BodyForm
<1>6. find_rootfs_entry(Stock) = 3
  <2>1. Stock.table = Table(RootfsLen)
    BY StockForm DEF File
  <2> QED
    BY <1>1, <2>1, RootfsThird DEF find_rootfs_entry
<1>7. resize_mode(gz)
        = [S EXCEPT !.body = body, !.size = DataStart + (n + 4) - SizeBase, !.table[3].img = n]
  BY <1>1, <1>4, <1>5, <1>6, StockForm DEF resize_mode
<1> HIDE DEF gz
<1>8. body = [k \in 1..n + 4 |-> CellOf(Run(a, n, hit), "old", n, k)]
  BY DEF File
<1> HIDE DEF body
<1>9. [Table(RootfsLen) EXCEPT ![3].img = n] = Table(n)
  BY DEF Table
<1> DEFINE old == S.body
           size == DataStart + (n + 4) - SizeBase
<1>10. S = Record(S.size, <<"old", "old">>, Table(RootfsLen), old)
  BY DEF File, Record
<1> HIDE DEF S, old, size
<1>11. [S EXCEPT !.body = body, !.size = size, !.table[3].img = n]
         = Record(size, <<"old", "old">>, [Table(RootfsLen) EXCEPT ![3].img = n], body)
  <2> DEFINE vers == <<"old", "old">>
             table == Table(RootfsLen)
  <2> HIDE DEF vers, table
  <2>1. [S EXCEPT !.body = body] = Record(S.size, vers, table, body)
    BY <1>10, NewBody DEF vers, table
  <2>2. [Record(S.size, vers, table, body) EXCEPT !.size = size] = Record(size, vers, table, body)
    BY NewSize
  <2>3. [Record(size, vers, table, body) EXCEPT !.table[3].img = n]
          = Record(size, vers, [table EXCEPT ![3].img = n], body)
    BY SMTT(60), NewImg
  <2>4. [S EXCEPT !.body = body, !.size = size, !.table[3].img = n]
          = [[[S EXCEPT !.body = body] EXCEPT !.size = size] EXCEPT !.table[3].img = n]
    OBVIOUS
  <2> QED
    BY <2>1, <2>2, <2>3, <2>4 DEF vers, table
<1>12. File(Run(a, n, hit), "old", n) = Record(size, <<"old", "old">>, Table(n), body)
  BY <1>8 DEF File, Record, size
<1> QED
  BY <1>7, <1>9, <1>11, <1>12 DEF gz, size

-----------------------------------------------------------------------------
(* The raw patch.                                                          *)

\* What it makes of a cell.
Patched(cell) == IF cell.text = "old" THEN [cell EXCEPT !.text = "new"] ELSE cell

\* It changes the old version string and nothing else.
LEMMA PatchedCell ==
  ASSUME NEW of, NEW a, NEW k, NEW n
  PROVE  /\ Patched(Cell(of, a, k, n, "old")) = Cell(of, a, k, n, "new")
         /\ Patched(Cell(of, a, k, n, "")) = Cell(of, a, k, n, "")
  BY DEF Patched, Cell

\* The cells of an image, patched.
LEMMA PatchedCellOf ==
  ASSUME NEW b, NEW room \in Nat, b.len \in Nat, b.len <= room, NEW k \in 1..room + 4
  PROVE  Patched(CellOf(b, "old", room, k)) = CellOf(b, "new", room, k)
<1>1. /\ CellOf(b, "old", room, 1) = Cell("fastboot", NoArchive, 1, 1, "")
      /\ CellOf(b, "old", room, 2) = Cell("logo", NoArchive, 1, 2, "")
      /\ CellOf(b, "old", room, 3) = Cell("logo", NoArchive, 2, 2, "old")
      /\ \A j \in 1..b.len :
           CellOf(b, "old", room, j + 3)
             = Cell("gz", b.archive, j, b.len, IF b.hit /\ j = b.len THEN "old" ELSE "")
      /\ \A j \in b.len + 1 .. room : CellOf(b, "old", room, j + 3) = Zero
      /\ CellOf(b, "old", room, room + 4) = Cell("user", NoArchive, 1, 1, "")
  BY CellFacts
<1>2. /\ CellOf(b, "new", room, 1) = Cell("fastboot", NoArchive, 1, 1, "")
      /\ CellOf(b, "new", room, 2) = Cell("logo", NoArchive, 1, 2, "")
      /\ CellOf(b, "new", room, 3) = Cell("logo", NoArchive, 2, 2, "new")
      /\ \A j \in 1..b.len :
           CellOf(b, "new", room, j + 3)
             = Cell("gz", b.archive, j, b.len, IF b.hit /\ j = b.len THEN "new" ELSE "")
      /\ \A j \in b.len + 1 .. room : CellOf(b, "new", room, j + 3) = Zero
      /\ CellOf(b, "new", room, room + 4) = Cell("user", NoArchive, 1, 1, "")
  BY CellFacts
<1>3. CASE k = 1 \/ k = 2 \/ k = 3
  <2>1. CASE k = 1
    BY ZenonT(60), <1>1, <1>2, <2>1, PatchedCell
  <2>2. CASE k = 2
    BY <1>1, <1>2, <2>2, PatchedCell
  <2>3. CASE k = 3
    <3>1. /\ CellOf(b, "old", room, k) = Cell("logo", NoArchive, 2, 2, "old")
          /\ CellOf(b, "new", room, k) = Cell("logo", NoArchive, 2, 2, "new")
      BY <1>1, <1>2, <2>3
    <3> QED
      BY <3>1, PatchedCell
  <2> QED
    BY <1>3, <2>1, <2>2, <2>3
<1>4. CASE k = room + 4
  BY <1>1, <1>2, <1>4, PatchedCell
<1>5. CASE k > 3 /\ k <= room + 3
  <2>1. PICK j \in 1..room : k = j + 3
    <3>1. k - 3 \in 1..room /\ k = (k - 3) + 3
      BY <1>5
    <3> QED
      BY <3>1
  <2>2. CASE j <= b.len
    <3>1. j \in 1..b.len
      BY <2>2
    <3>2. CellOf(b, "old", room, k)
            = Cell("gz", b.archive, j, b.len, IF b.hit /\ j = b.len THEN "old" ELSE "")
      BY <1>1, <2>1, <3>1
    <3>3. CellOf(b, "new", room, k)
            = Cell("gz", b.archive, j, b.len, IF b.hit /\ j = b.len THEN "new" ELSE "")
      BY <1>2, <2>1, <3>1
    <3> QED
      BY <3>2, <3>3, PatchedCell
  <2>3. CASE ~(j <= b.len)
    <3>1. j \in b.len + 1 .. room
      BY <2>3
    <3>2. CellOf(b, "old", room, k) = Zero /\ CellOf(b, "new", room, k) = Zero
      BY <1>1, <1>2, <2>1, <3>1
    <3>3. Patched(Zero) = Zero
      BY PatchedCell DEF Zero
    <3> QED
      BY <3>2, <3>3
  <2> QED
    BY <2>2, <2>3
<1> QED
  BY <1>3, <1>4, <1>5

\* A patched image is the image of the same run with the new version string.
LEMMA RawForm ==
  ASSUME NEW b, NEW room \in Nat, b.len \in Nat, b.len <= room
  PROVE  raw_patch(File(b, "old", room)) = File(b, "new", room)
<1> DEFINE size == DataStart + (room + 4) - SizeBase
           old == File(b, "old", room).body
           new == File(b, "new", room).body
           body == [k \in DOMAIN old |-> Patched(old[k])]
           vers == <<"old", "old">>
           table == Table(room)
           next == [k \in DOMAIN vers |-> IF vers[k] = "old" THEN "new" ELSE vers[k]]
<1>1. File(b, "old", room) = Record(size, vers, table, old)
      /\ File(b, "new", room) = Record(size, <<"new", "new">>, table, new)
  BY DEF File, Record
<1>2. next = <<"new", "new">>
  OBVIOUS
<1>3. raw_patch(File(b, "old", room)) = Record(size, next, table, body)
  <2> HIDE DEF size, old, table, new, vers
  <2> DEFINE f == Record(size, vers, table, old)
  <2>1. raw_patch(f) = [[f EXCEPT !.vers = next] EXCEPT !.body = body]
    <3>1. f.vers = vers /\ f.body = old
      BY DEF Record
    <3> HIDE DEF f
    <3> QED
      BY <3>1 DEF raw_patch, Patched
  <2> HIDE DEF next, body
  <2>2. [f EXCEPT !.vers = next] = Record(size, next, table, old)
    BY DEF Record
  <2>3. [Record(size, next, table, old) EXCEPT !.body = body] = Record(size, next, table, body)
    BY DEF Record
  <2> QED
    BY <1>1, <2>1, <2>2, <2>3
<1>4. /\ IsSeq(old) /\ Len(old) = room + 4
      /\ \A k \in 1..room + 4 : old[k] = CellOf(b, "old", room, k)
  BY BodyForm
<1>5. /\ IsSeq(new) /\ Len(new) = room + 4
      /\ \A k \in 1..room + 4 : new[k] = CellOf(b, "new", room, k)
  BY BodyForm
<1> HIDE DEF size, old, table, new, vers, next
<1>6. DOMAIN old = 1..room + 4
  BY <1>4 DEF IsSeq
<1>7. IsSeq(body) /\ Len(body) = room + 4
  <2>1. body = [k \in 1..room + 4 |-> body[k]]
    BY <1>6
  <2> HIDE DEF body
  <2>2. room + 4 \in Nat
    OBVIOUS
  <2> QED
    BY <2>1, <2>2, Tabulated
<1>8. \A k \in 1..room + 4 : body[k] = new[k]
  <2> SUFFICES ASSUME NEW k \in 1..room + 4
               PROVE  body[k] = new[k]
    OBVIOUS
  <2>1. body[k] = Patched(old[k])
    BY <1>6
  <2>2. Patched(CellOf(b, "old", room, k)) = CellOf(b, "new", room, k)
    BY PatchedCellOf
  <2> HIDE DEF body
  <2> QED
    BY <1>4, <1>5, <2>1, <2>2
<1> HIDE DEF body
<1>9. body = new
  BY <1>5, <1>7, <1>8, SameSeq
<1> QED
  BY <1>1, <1>2, <1>3, <1>9

-----------------------------------------------------------------------------
(* The readers.                                                            *)

\* The version strings.
Texts == {"old", "new"}

\* The cells of an image that hold a version string.
LEMMA TextCells ==
  ASSUME NEW b, NEW text, NEW room \in Nat, b.len \in Nat \ {0}, b.len <= room, b.hit \in BOOLEAN
  PROVE  LET body == File(b, text, room).body
         IN  /\ body[3].text = text /\ body[3].of = "logo"
             /\ b.hit => body[b.len + 3].text = text
             /\ body[b.len + 3].of = "gz"
             /\ \A k \in 1..room + 4 :
                  body[k].text \in Texts => k = 3 \/ (b.hit /\ k = b.len + 3)
<1> DEFINE body == File(b, text, room).body
<1>1. \A k \in 1..room + 4 : body[k] = CellOf(b, text, room, k)
  BY BodyForm
<1> HIDE DEF body
<1>2. /\ CellOf(b, text, room, 1) = Cell("fastboot", NoArchive, 1, 1, "")
      /\ CellOf(b, text, room, 2) = Cell("logo", NoArchive, 1, 2, "")
      /\ CellOf(b, text, room, 3) = Cell("logo", NoArchive, 2, 2, text)
      /\ \A j \in 1..b.len :
           CellOf(b, text, room, j + 3)
             = Cell("gz", b.archive, j, b.len, IF b.hit /\ j = b.len THEN text ELSE "")
      /\ \A j \in b.len + 1 .. room : CellOf(b, text, room, j + 3) = Zero
      /\ CellOf(b, text, room, room + 4) = Cell("user", NoArchive, 1, 1, "")
  <2>1. b.len \in Nat
    OBVIOUS
  <2> QED
    BY <2>1, CellFacts
<1>3. /\ 1 \in 1..room + 4 /\ 2 \in 1..room + 4 /\ 3 \in 1..room + 4 /\ room + 4 \in 1..room + 4
      /\ b.len \in 1..b.len /\ b.len + 3 \in 1..room + 4
  OBVIOUS
<1>4. body[3].text = text /\ body[3].of = "logo"
  <2>1. body[3] = Cell("logo", NoArchive, 2, 2, text)
    BY <1>1, <1>2, <1>3
  <2> QED
    BY <2>1 DEF Cell
<1>5. (b.hit => body[b.len + 3].text = text) /\ body[b.len + 3].of = "gz"
  <2>1. body[b.len + 3]
          = Cell("gz", b.archive, b.len, b.len, IF b.hit /\ b.len = b.len THEN text ELSE "")
    BY <1>1, <1>2, <1>3
  <2> QED
    <3> DEFINE c == body[b.len + 3]
               t == IF b.hit /\ b.len = b.len THEN text ELSE ""
               a == b.archive
               n == b.len
    <3>1. c = Cell("gz", a, n, n, t)
      BY <2>1
    <3>2. b.hit => t = text
      OBVIOUS
    <3> HIDE DEF c, t, a, n
    <3>3. c.of = "gz" /\ c.text = t
      BY <3>1, CellFields
    <3> QED
      BY <3>2, <3>3 DEF c
<1>6. ASSUME NEW k \in 1..room + 4, body[k].text \in Texts
      PROVE  k = 3 \/ (b.hit /\ k = b.len + 3)
  <2>1. CASE k = 1
    <3>1. body[k] = Cell("fastboot", NoArchive, 1, 1, "")
      BY <1>1, <1>2, <2>1
    <3> QED
      <4>1. body[k].text = ""
        BY <3>1, NoText
      <4> QED
        BY <1>6, <4>1 DEF Texts
  <2>2. CASE k = 2
    <3>1. body[k] = Cell("logo", NoArchive, 1, 2, "")
      BY <1>1, <1>2, <2>2
    <3> QED
      <4>1. body[k].text = ""
        BY <3>1, NoText
      <4> QED
        BY <1>6, <4>1 DEF Texts
  <2>3. CASE k = room + 4
    <3>1. body[k] = Cell("user", NoArchive, 1, 1, "")
      BY <1>1, <1>2, <2>3
    <3> QED
      <4>1. body[k].text = ""
        BY <3>1, NoText
      <4> QED
        BY <1>6, <4>1 DEF Texts
  <2>4. CASE k > 3 /\ k <= room + 3
    <3>1. PICK j \in 1..room : k = j + 3
      <4>1. k - 3 \in 1..room /\ k = (k - 3) + 3
        BY <2>4
      <4> QED
        BY <4>1
    <3>2. CASE j <= b.len
      <4>1. j \in 1..b.len
        BY <3>2
      <4>2. body[k] = Cell("gz", b.archive, j, b.len, IF b.hit /\ j = b.len THEN text ELSE "")
        BY <1>1, <1>2, <3>1, <4>1
      <4>3. body[k].text = IF b.hit /\ j = b.len THEN text ELSE ""
        <5> DEFINE t == IF b.hit /\ j = b.len THEN text ELSE ""
                   a == b.archive
                   n == b.len
        <5>1. body[k] = Cell("gz", a, j, n, t)
          BY <4>2
        <5> DEFINE c == body[k]
        <5> HIDE DEF t, a, n, c
        <5>2. c.text = t
          BY <5>1, CellFields DEF c
        <5> QED
          BY <5>2 DEF t, c
      <4>4. b.hit /\ j = b.len
        BY <1>6, <4>3 DEF Texts
      <4> QED
        BY <3>1, <4>4
    <3>3. CASE ~(j <= b.len)
      <4>1. j \in b.len + 1 .. room
        BY <3>3
      <4>2. body[k] = Zero
        BY <1>1, <1>2, <3>1, <4>1
      <4> QED
        <5>1. body[k].text = ""
          BY <4>2, NoText DEF Zero
        <5> QED
          BY <1>6, <5>1 DEF Texts
    <3> QED
      BY <3>2, <3>3
  <2>5. k = 1 \/ k = 2 \/ k = 3 \/ k = room + 4 \/ (k > 3 /\ k <= room + 3)
    OBVIOUS
  <2> QED
    BY <2>1, <2>2, <2>3, <2>4, <2>5
<1> QED
  BY <1>4, <1>5, <1>6 DEF body

\* What scan_version.py says of an offset in the body.
Where(room, off) == {e.name : e \in {x \in Rows(room) : x.off <= off /\ off < x.off + x.len}}

\* The offsets at which a version string can be.
LEMMA WhereIs ==
  ASSUME NEW room \in Nat
  PROVE  /\ Where(room, DataStart + 2) = {"logo"}
         /\ \A n \in 1..room : Where(room, DataStart + 2 + n) = {"rootfs"}
<1>1. DataStart \in Nat
  BY MupgAssumption
<1> DEFINE r1 == [name |-> "fastboot", off |-> DataStart, len |-> 1]
           r2 == [name |-> "logo", off |-> DataStart + 1, len |-> 2]
           r3 == [name |-> "rootfs", off |-> DataStart + 3, len |-> room]
           r4 == [name |-> "user", off |-> DataStart + 3 + room, len |-> 1]
<1>2. /\ r1.name = "fastboot" /\ r1.off = DataStart /\ r1.len = 1
      /\ r2.name = "logo" /\ r2.off = DataStart + 1 /\ r2.len = 2
      /\ r3.name = "rootfs" /\ r3.off = DataStart + 3 /\ r3.len = room
      /\ r4.name = "user" /\ r4.off = DataStart + 3 + room /\ r4.len = 1
  OBVIOUS
<1>3. Rows(room) = {r1, r2, r3, r4}
  BY DEF Rows
<1> HIDE DEF r1, r2, r3, r4
<1>4. Where(room, DataStart + 2) = {"logo"}
  <2>1. {x \in Rows(room) : x.off <= DataStart + 2 /\ DataStart + 2 < x.off + x.len} = {r2}
    BY <1>1, <1>2, <1>3
  <2> QED
    BY <1>2, <2>1 DEF Where
<1>5. ASSUME NEW n \in 1..room
      PROVE  Where(room, DataStart + 2 + n) = {"rootfs"}
  <2>1. {x \in Rows(room) : x.off <= DataStart + 2 + n /\ DataStart + 2 + n < x.off + x.len} = {r3}
    BY <1>1, <1>2, <1>3
  <2> QED
    BY <1>2, <2>1 DEF Where
<1> QED
  BY <1>4, <1>5

\* What ReadersAgree says of scan_version.py.
Said(f, text) ==
  \A h \in scan_version(f, text) :
    h.where = IF h.off < DataStart THEN {"HEADER"} ELSE {Owner(f.body[h.off - DataStart + 1])}

\* It names the partition of every version string.
LEMMA SaidRight ==
  ASSUME NEW b, NEW t, NEW room \in Nat, b.len \in Nat \ {0}, b.len <= room, b.hit \in BOOLEAN,
         NEW text \in Texts
  PROVE  Said(File(b, t, room), text)
<1> DEFINE f == File(b, t, room)
           body == f.body
<1>1. version_layout(f) = Rows(room)
  <2>1. f.table = Table(room)
    BY DEF File
  <2> QED
    BY <2>1, VersionLayoutForm
<1>2. DOMAIN f.vers = 1..2
  BY DEF File
<1>3. DOMAIN body = 1..room + 4
  BY BodyForm DEF IsSeq
<1>4. /\ body[3].text = t /\ body[3].of = "logo"
      /\ body[b.len + 3].of = "gz"
      /\ \A k \in 1..room + 4 :
           body[k].text \in Texts => k = 3 \/ (b.hit /\ k = b.len + 3)
  BY TextCells
<1>5. DataStart \in Nat /\ DataStart >= 2
  BY MupgAssumption
<1> HIDE DEF f
<1> SUFFICES ASSUME NEW h \in scan_version(f, text)
             PROVE  h.where = IF h.off < DataStart THEN {"HEADER"}
                              ELSE {Owner(f.body[h.off - DataStart + 1])}
  BY DEF Said, f
<1>6. PICK off \in scan(f, text) :
        h = [off |-> off, where |-> IF off < DataStart THEN {"HEADER"} ELSE Where(room, off)]
  BY <1>1 DEF scan_version, Where
<1>7. h.off = off /\ h.where = IF off < DataStart THEN {"HEADER"} ELSE Where(room, off)
  BY <1>6
<1>8. CASE off < DataStart
  BY <1>7, <1>8
<1>9. CASE ~(off < DataStart)
  <2>1. PICK k \in 1..room + 4 : off = DataStart + k - 1 /\ body[k].text = text
    <3>1. ~\E k \in {j \in DOMAIN f.vers : f.vers[j] = text} : off = k - 1
      BY <1>2, <1>5, <1>9
    <3>2. \E k \in {j \in DOMAIN f.body : f.body[j].text = text} : off = DataStart + k - 1
      BY <3>1 DEF scan
    <3> QED
      BY <1>3, <3>2
  <2>2. off - DataStart + 1 = k
    BY <1>5, <2>1
  <2>3. CASE k = 3
    <3>1. off = DataStart + 2
      BY <1>5, <2>1, <2>3
    <3>2. Owner(body[k]) = "logo"
      BY <1>4, <2>3 DEF Owner
    <3> QED
      BY <1>7, <1>9, <2>2, <3>1, <3>2, WhereIs
  <2>4. CASE k = b.len + 3
    <3>1. off = DataStart + 2 + b.len /\ b.len \in 1..room
      BY <1>5, <2>1, <2>4
    <3>2. Owner(body[k]) = "rootfs"
      BY <1>4, <2>4 DEF Owner
    <3>3. Where(room, off) = {"rootfs"}
      BY <3>1, WhereIs
    <3> QED
      BY <1>7, <1>9, <2>2, <3>2, <3>3
  <2>5. k = 3 \/ k = b.len + 3
    BY <1>4, <2>1
  <2> QED
    BY <2>3, <2>4, <2>5
<1> QED
  BY <1>8, <1>9

\* What ReadersAgree says of one file.
Agrees(f) ==
  LET header == analyze_header(f)
  IN  /\ header.size_agrees /\ header.sum_agrees
      /\ header.layout = Layout(parse_table(f)) /\ header.layout = version_layout(f)
      /\ parse_partitions(f).total_img = FileSize(f) - DataStart
      /\ \A text \in {"old", "new"} : Said(f, text)

\* All readers agree about a file of the form.
LEMMA AllAgree ==
  ASSUME NEW b, NEW t, NEW room \in Nat, b.len \in Nat \ {0}, b.len <= room, b.hit \in BOOLEAN
  PROVE  Agrees(File(b, t, room))
<1> DEFINE f == File(b, t, room)
           T == Table(room)
<1>1. f.table = T /\ f.size = DataStart + (room + 4) - SizeBase
  BY DEF File
<1>2. Len(f.body) = room + 4
  BY BodyForm
<1>3. DataStart \in Nat
  BY MupgAssumption
<1>4. \A text \in {"old", "new"} : Said(f, text)
  BY SaidRight DEF Texts
<1> HIDE DEF f
<1>5. Len(T) = 4 /\ Ends(T)[4] = DataStart + (room + 4)
  BY TableFacts, EndsAre, StartsAre
<1>6. /\ parse_table(f) = T /\ parse_report_table(f) = T /\ EntriesFrom(f, 1, 12) = T
      /\ version_layout(f) = Rows(room) /\ Layout(T) = Rows(room)
  BY <1>1, ReadersForm, VersionLayoutForm, LayoutForm
<1> HIDE DEF T
<1>7. FileSize(f) = DataStart + (room + 4)
  BY <1>2 DEF FileSize
<1>8. /\ analyze_header(f).layout = Layout(T)
      /\ analyze_header(f).size_agrees = (f.size = FileSize(f) - SizeBase)
      /\ analyze_header(f).sum_agrees = (Ends(T)[Len(T)] = FileSize(f))
  BY <1>6 DEF analyze_header
<1>9. parse_partitions(f).total_img = Ends(T)[Len(T)] - DataStart
  BY <1>6 DEF parse_partitions
<1>10. analyze_header(f).size_agrees /\ analyze_header(f).sum_agrees
  <2>1. f.size = FileSize(f) - SizeBase
    BY <1>1, <1>3, <1>7, MupgAssumption
  <2>2. Ends(T)[Len(T)] = Ends(T)[4]
    BY <1>5
  <2>3. Ends(T)[Len(T)] = FileSize(f)
    BY <1>5, <1>7, <2>2
  <2> QED
    BY <1>8, <2>1, <2>3
<1>11. parse_partitions(f).total_img = FileSize(f) - DataStart
  BY <1>5, <1>7, <1>9
<1> QED
  BY <1>4, <1>6, <1>8, <1>10, <1>11 DEF Agrees, f

\* What extract_partitions.py takes out of an image.
LEMMA RootfsForm ==
  ASSUME NEW b, NEW t, NEW room \in Nat
  PROVE  LET r == Read(File(b, t, room), DataStart + 3, room)
         IN  /\ IsSeq(r) /\ Len(r) = room
             /\ \A k \in 1..room : r[k] = CellOf(b, t, room, k + 3)
             /\ \E e \in extract_partitions(File(b, t, room)) : e.name = "rootfs" /\ e.image = r
             /\ \A e \in extract_partitions(File(b, t, room)) : e.name = "rootfs" => e.image = r
<1> DEFINE f == File(b, t, room)
           r == Read(f, DataStart + 3, room)
<1>1. /\ IsSeq(f.body) /\ Len(f.body) = room + 4
      /\ \A k \in 1..room + 4 : f.body[k] = CellOf(b, t, room, k)
  BY BodyForm
<1>2. f.table = Table(room)
  BY DEF File
<1> HIDE DEF f
<1>3. /\ IsSeq(r) /\ Len(r) = Least(room, Len(f.body) - 3)
      /\ \A k \in 1..Len(r) : r[k] = f.body[k + 3]
  <2>1. 3 \in 0..Len(f.body)
    BY <1>1
  <2> QED
    BY <1>1, <2>1, ReadForm
<1> HIDE DEF r
<1>4. Len(r) = room
  BY <1>1, <1>3 DEF Least
<1>5. \A k \in 1..room : r[k] = CellOf(b, t, room, k + 3)
  <2>1. \A k \in 1..room : k + 3 \in 1..room + 4
    OBVIOUS
  <2> QED
    BY <1>1, <1>3, <1>4, <2>1
<1>6. extract_partitions(f) = {[name |-> e.name, image |-> Read(f, e.off, e.len)] : e \in Rows(room)}
  BY <1>2, ReadersForm, LayoutForm DEF extract_partitions
<1>7. ASSUME NEW x \in Rows(room), x.name = "rootfs"
      PROVE  Read(f, x.off, x.len) = r
  <2>1. x.off = DataStart + 3 /\ x.len = room
    BY <1>7 DEF Rows
  <2> QED
    BY <2>1 DEF r
<1>8. \E x \in Rows(room) : x.name = "rootfs"
  BY DEF Rows
<1> HIDE DEF r
<1>9. \E e \in extract_partitions(f) : e.name = "rootfs" /\ e.image = r
  <2>1. PICK x \in Rows(room) : x.name = "rootfs"
    BY <1>8
  <2> DEFINE e == [name |-> x.name, image |-> Read(f, x.off, x.len)]
  <2>2. e \in extract_partitions(f)
    BY <1>6
  <2>3. e.name = x.name /\ e.image = Read(f, x.off, x.len)
    OBVIOUS
  <2> HIDE DEF e
  <2> QED
    BY <1>7, <2>1, <2>2, <2>3
<1>10. ASSUME NEW e \in extract_partitions(f), e.name = "rootfs"
       PROVE  e.image = r
  <2>1. PICK x \in Rows(room) : e = [name |-> x.name, image |-> Read(f, x.off, x.len)]
    BY <1>6
  <2>2. e.name = x.name /\ e.image = Read(f, x.off, x.len)
    BY <2>1
  <2> QED
    BY <1>7, <1>10, <2>2
<1> QED
  BY <1>3, <1>4, <1>5, <1>9, <1>10 DEF r, f

\* It decompresses to the archive of the run, unless the raw patch hit the stream.
LEMMA Unpacks ==
  ASSUME NEW b, NEW t \in Texts, NEW room \in Nat, b.len \in Nat \ {0}, b.len <= room,
         b.hit \in BOOLEAN, ~b.hit \/ t = "old",
         NEW r, IsSeq(r), Len(r) = room, \A k \in 1..room : r[k] = CellOf(b, t, room, k + 3)
  PROVE  Gunzips(r) /\ r[1].a = b.archive
<1> DEFINE n == b.len
           a == b.archive
           T(k) == IF b.hit /\ k = b.len THEN t ELSE ""
<1>1. n \in Nat /\ n >= 1 /\ n <= room
  OBVIOUS
<1>2. /\ \A k \in 1..n : CellOf(b, t, room, k + 3) = Cell("gz", a, k, n, T(k))
      /\ \A k \in n + 1 .. room : CellOf(b, t, room, k + 3) = Zero
  <2>1. /\ \A k \in 1..b.len :
             CellOf(b, t, room, k + 3)
               = Cell("gz", b.archive, k, b.len, IF b.hit /\ k = b.len THEN t ELSE "")
        /\ \A k \in b.len + 1 .. room : CellOf(b, t, room, k + 3) = Zero
    <3>1. b.len \in Nat
      OBVIOUS
    <3>2. /\ CellOf(b, t, room, 1) = Cell("fastboot", NoArchive, 1, 1, "")
          /\ CellOf(b, t, room, 2) = Cell("logo", NoArchive, 1, 2, "")
          /\ CellOf(b, t, room, 3) = Cell("logo", NoArchive, 2, 2, t)
          /\ \A k \in 1..b.len :
               CellOf(b, t, room, k + 3)
                 = Cell("gz", b.archive, k, b.len, IF b.hit /\ k = b.len THEN t ELSE "")
          /\ \A k \in b.len + 1 .. room : CellOf(b, t, room, k + 3) = Zero
          /\ CellOf(b, t, room, room + 4) = Cell("user", NoArchive, 1, 1, "")
      BY ZenonT(60), <3>1, CellFacts
    <3> QED
      BY <3>2
  <2> QED
    BY <2>1
<1>3. \A k : T(k) # "new"
  BY DEF Texts
<1> HIDE DEF n, a, T
<1>4. ASSUME NEW k \in 1..n
      PROVE  r[k] = Cell("gz", a, k, n, T(k))
  <2>1. k \in 1..room
    BY <1>1
  <2> QED
    BY <1>2, <2>1
<1>5. \A k \in n + 1 .. room : r[k] = Zero
  <2>1. \A k \in n + 1 .. room : k \in 1..room
    BY <1>1
  <2> QED
    BY <1>2, <2>1
<1>6. ASSUME NEW k \in 1..n
      PROVE  /\ r[k].of = "gz" /\ r[k].a = a /\ r[k].n = n /\ r[k].text # "new"
             /\ [r[k] EXCEPT !.text = ""] = Cell("gz", a, k, n, "")
  <2> DEFINE c == r[k]
  <2>1. c = Cell("gz", a, k, n, T(k))
    BY <1>4
  <2> HIDE DEF c
  <2>2. c.of = "gz" /\ c.a = a /\ c.n = n /\ c.text = T(k)
    BY <2>1, CellFields
  <2>3. [c EXCEPT !.text = ""] = Cell("gz", a, k, n, "")
    <3> DEFINE e == ""
    <3> HIDE DEF e
    <3>1. [c EXCEPT !.text = e] = Cell("gz", a, k, n, e)
      BY <2>1, Rewritten
    <3> QED
      BY <3>1 DEF e
  <2> QED
    BY <1>3, <2>2, <2>3 DEF c
<1>7. 1 \in 1..n
  BY <1>1
<1> DEFINE c == r[1]
<1> HIDE DEF c
<1>8. c.of = "gz" /\ c.a = a /\ c.n = n
  BY <1>6, <1>7 DEF c
<1>9. r # <<>>
  <2>1. Len(r) # 0
    BY <1>1
  <2> QED
    BY <2>1
<1>10. Decodes(r)
  <2>1. c.n <= Len(r)
    BY <1>1, <1>8
  <2>2. \A k \in 1..c.n :
          [r[k] EXCEPT !.text = ""] = Cell("gz", c.a, k, c.n, "") /\ r[k].text # "new"
    BY <1>6, <1>8
  <2> QED
    BY <1>8, <1>9, <2>1, <2>2 DEF Decodes, c
<1>11. \A k \in c.n + 1 .. Len(r) : r[k] = Zero
  BY <1>5, <1>8
<1> QED
  BY <1>8, <1>10, <1>11 DEF Gunzips, c, a

\* Where a scan finds the version string of the image, and that it finds no other.
LEMMA ScanForm ==
  ASSUME NEW b, NEW t \in Texts, NEW room \in Nat, b.len \in Nat \ {0}, b.len <= room,
         b.hit \in BOOLEAN
  PROVE  /\ scan(File(b, t, room), t)
              = {0, 1, DataStart + 2} \cup (IF b.hit THEN {DataStart + 2 + b.len} ELSE {})
         /\ \A x \in Texts : x # t => scan(File(b, t, room), x) = {}
<1> DEFINE f == File(b, t, room)
           body == f.body
<1>1. /\ body[3].text = t
      /\ b.hit => body[b.len + 3].text = t
      /\ \A k \in 1..room + 4 :
           body[k].text \in Texts => k = 3 \/ (b.hit /\ k = b.len + 3)
  BY TextCells
<1>2. DOMAIN f.vers = 1..2 /\ f.vers[1] = t /\ f.vers[2] = t
  BY DEF File
<1>3. DOMAIN body = 1..room + 4
  BY BodyForm DEF IsSeq
<1>4. DataStart \in Nat
  BY MupgAssumption
<1> HIDE DEF f
<1> DEFINE H(x) == {j \in DOMAIN f.vers : f.vers[j] = x}
           B(x) == {j \in DOMAIN body : body[j].text = x}
<1>5. \A x : scan(f, x) = {k - 1 : k \in H(x)} \cup {DataStart + k - 1 : k \in B(x)}
  BY DEF scan
<1>6. H(t) = {1, 2} /\ \A x \in Texts : x # t => H(x) = {}
  BY <1>2
<1>7. B(t) = {3} \cup (IF b.hit THEN {b.len + 3} ELSE {})
  <2>1. 3 \in 1..room + 4 /\ b.len + 3 \in 1..room + 4
    OBVIOUS
  <2>2. ASSUME NEW k \in B(t)
        PROVE  k = 3 \/ (b.hit /\ k = b.len + 3)
    BY <1>1, <1>3
  <2>3. 3 \in B(t) /\ (b.hit => b.len + 3 \in B(t))
    BY <1>1, <1>3, <2>1
  <2> HIDE DEF B
  <2> QED
    BY <2>2, <2>3
<1>8. ASSUME NEW x \in Texts, x # t
      PROVE  B(x) = {}
  <2> SUFFICES ASSUME NEW k \in B(x)
               PROVE  FALSE
    OBVIOUS
  <2>1. k \in 1..room + 4 /\ body[k].text = x
    BY <1>3
  <2>2. k = 3 \/ (b.hit /\ k = b.len + 3)
    BY <1>1, <2>1
  <2> QED
    BY <1>1, <1>8, <2>1, <2>2
<1> HIDE DEF H, B
<1>9. scan(f, t) = {0, 1, DataStart + 2} \cup (IF b.hit THEN {DataStart + 2 + b.len} ELSE {})
  <2>1. {k - 1 : k \in {1, 2}} = {0, 1}
    OBVIOUS
  <2>2. {DataStart + k - 1 : k \in B(t)}
          = {DataStart + 2} \cup (IF b.hit THEN {DataStart + 2 + b.len} ELSE {})
    <3>1. CASE b.hit
      <4>1. B(t) = {3, b.len + 3}
        BY <1>7, <3>1
      <4>2. {DataStart + k - 1 : k \in {3, b.len + 3}} = {DataStart + 2, DataStart + 2 + b.len}
        BY <1>4
      <4> QED
        BY <3>1, <4>1, <4>2
    <3>2. CASE ~b.hit
      <4>1. B(t) = {3}
        BY <1>7, <3>2
      <4>2. {DataStart + k - 1 : k \in {3}} = {DataStart + 2}
        BY <1>4
      <4> QED
        BY <3>2, <4>1, <4>2
    <3> QED
      BY <3>1, <3>2
  <2> QED
    BY <1>5, <1>6, <2>1, <2>2
<1>10. \A x \in Texts : x # t => scan(f, x) = {}
  BY <1>5, <1>6, <1>8
<1> QED
  BY <1>9, <1>10 DEF f

\* One element more.
LEMMA OneMore ==
  ASSUME NEW S, NEW x, IsFiniteSet(S), x \notin S
  PROVE  IsFiniteSet(S \cup {x}) /\ Cardinality(S \cup {x}) = Cardinality(S) + 1
  BY FS_AddElement

\* Three blocks exactly, if no version string came up by chance.
LEMMA BlocksCount ==
  ASSUME NEW b, NEW room \in Nat, b.len \in Nat \ {0}, b.len <= room, b.hit \in BOOLEAN
  PROVE  ThreeBlocks(File(b, "new", room)) <=> ~b.hit
<1> DEFINE f == File(b, "new", room)
           three == {0, 1, DataStart + 2}
           more == IF b.hit THEN {DataStart + 2 + b.len} ELSE {}
<1>1. DataStart \in Nat /\ DataStart >= 2
  BY MupgAssumption
<1>2. scan(f, "new") = three \cup more /\ scan(f, "old") = {}
  <2>1. "new" \in Texts /\ "old" \in Texts /\ "old" # "new"
    BY DEF Texts
  <2> QED
    BY <2>1, ScanForm
<1>3. IsFiniteSet(three) /\ Cardinality(three) = 3
  <2> DEFINE one == {0}
             two == one \cup {1}
  <2>1. IsFiniteSet(one) /\ Cardinality(one) = 1
    BY FS_Singleton
  <2>2. 1 \notin one /\ DataStart + 2 \notin two
    BY <1>1
  <2>3. three = two \cup {DataStart + 2}
    OBVIOUS
  <2> HIDE DEF one
  <2>4. IsFiniteSet(two) /\ Cardinality(two) = 2
    BY <2>1, <2>2, OneMore
  <2> HIDE DEF two, three
  <2>5. IsFiniteSet(two \cup {DataStart + 2})
        /\ Cardinality(two \cup {DataStart + 2}) = Cardinality(two) + 1
    BY <2>2, <2>4, OneMore
  <2> QED
    BY <2>3, <2>4, <2>5
<1> DEFINE x == DataStart + 2 + b.len
<1>4. x \notin three
  BY <1>1
<1> HIDE DEF f, three, x
<1>5. Cardinality(three \cup {x}) = 4
  <2>1. Cardinality(three \cup {x}) = Cardinality(three) + 1
    BY <1>3, <1>4, OneMore
  <2> QED
    BY <1>3, <2>1
<1>6. CASE b.hit
  BY <1>2, <1>5, <1>6 DEF ThreeBlocks, f, x
<1>7. CASE ~b.hit
  <2>1. three \cup more = three
    BY <1>7
  <2> QED
    BY <1>2, <1>3, <1>7, <2>1 DEF ThreeBlocks, f
<1> QED
  BY <1>6, <1>7

\* The last partition is where it was, when the size did not change.
LEMMA UserUnchanged ==
  ASSUME NEW b, NEW t, b.len \in Nat, b.len <= RootfsLen
  PROVE  UserSame(File(b, t, RootfsLen))
<1> DEFINE f == File(b, t, RootfsLen)
           s == Read(Stock, DataStart + (RootfsLen + 3), 1)
           u == Read(f, DataStart + (RootfsLen + 3), 1)
<1>1. RootfsOff = DataStart + 3 /\ DataStart \in Nat /\ RootfsLen \in Nat
  BY OffsetIs
<1>2. /\ IsSeq(Stock.body) /\ Len(Stock.body) = RootfsLen + 4
      /\ Stock.body[RootfsLen + 4] = User[1]
  BY StockBody
<1>3. /\ IsSeq(f.body) /\ Len(f.body) = RootfsLen + 4
      /\ f.body[RootfsLen + 4] = User[1]
  <2>1. /\ IsSeq(f.body) /\ Len(f.body) = RootfsLen + 4
        /\ \A k \in 1..RootfsLen + 4 : f.body[k] = CellOf(b, t, RootfsLen, k)
    BY <1>1, BodyForm
  <2> HIDE DEF f
  <2>2. CellOf(b, t, RootfsLen, RootfsLen + 4) = Cell("user", NoArchive, 1, 1, "")
    BY <1>1, CellFacts
  <2>3. RootfsLen + 4 \in 1..RootfsLen + 4
    BY <1>1
  <2> QED
    BY <2>1, <2>2, <2>3, UserForm
<1> HIDE DEF f
<1>4. RootfsLen + 3 \in 0..RootfsLen + 4 /\ 1 \in Nat /\ Least(1, (RootfsLen + 4) - (RootfsLen + 3)) = 1
  BY <1>1 DEF Least
<1>5. /\ IsSeq(s) /\ Len(s) = 1 /\ \A k \in 1..1 : s[k] = Stock.body[k + (RootfsLen + 3)]
  <2>1. /\ IsSeq(s) /\ Len(s) = Least(1, Len(Stock.body) - (RootfsLen + 3))
        /\ \A k \in 1..Len(s) : s[k] = Stock.body[k + (RootfsLen + 3)]
    BY <1>2, <1>4, ReadForm
  <2> HIDE DEF s
  <2> QED
    BY <1>2, <1>4, <2>1
<1>6. /\ IsSeq(u) /\ Len(u) = 1 /\ \A k \in 1..1 : u[k] = f.body[k + (RootfsLen + 3)]
  <2>1. /\ IsSeq(u) /\ Len(u) = Least(1, Len(f.body) - (RootfsLen + 3))
        /\ \A k \in 1..Len(u) : u[k] = f.body[k + (RootfsLen + 3)]
    BY <1>3, <1>4, ReadForm
  <2> HIDE DEF u
  <2>2. Len(u) = 1
    BY <1>3, <1>4, <2>1
  <2> QED
    BY <2>1, <2>2
<1> HIDE DEF s, u
<1>7. 1 + (RootfsLen + 3) = RootfsLen + 4 /\ \A k \in 1..1 : k = 1
  BY <1>1
<1>8. \A k \in 1..1 : s[k] = u[k]
  BY <1>2, <1>3, <1>5, <1>6, <1>7
<1>9. s = u
  BY <1>5, <1>6, <1>8, SameSeq
<1>10. RootfsOff + RootfsLen = DataStart + (RootfsLen + 3)
       /\ FileSize(Stock) - (RootfsOff + RootfsLen) = 1
  BY <1>1, <1>2 DEF FileSize
<1>11. UserSame(f)
  BY <1>9, <1>10 DEF UserSame, s, u
<1> QED
  BY <1>11 DEF f

-----------------------------------------------------------------------------
(* The invariant.                                                          *)

\* What the builder means to write, while the stock archive is the same.
IsRun(b) ==
  /\ b.len \in Nat \ {0} /\ b.hit \in BOOLEAN
  /\ \E patch \in Patches : b.archive = rewrite_tar(patch)

\* The image on disk is the one its run meant to write.
OutForm == out # NoFile => IsRun(built) /\ out = File(built, "new", Room(built))

\* What the history variable says of the files is true of them.
Trace ==
  /\ origin = [bin |-> origin.bin, unpacked |-> origin.unpacked, tree |-> origin.tree]
  /\ origin.bin # NoArchive => Gunzips(bin) /\ bin[1].a = origin.bin
  /\ origin.unpacked # NoArchive => unpacked.whole /\ unpacked.archive = origin.unpacked
  /\ origin.tree # NoArchive =>
       \A t \in Targets : origin.tree[t] # "absent" => tree[t] = origin.tree[t]

\* Both.
WorkbenchInv == OutForm /\ Trace

\* The numbers of a run.
LEMMA RunFacts ==
  ASSUME NEW b, IsRun(b)
  PROVE  /\ b.len \in Nat \ {0} /\ b.hit \in BOOLEAN /\ Room(b) \in Nat /\ b.len <= Room(b)
         /\ RootfsLen \in Nat /\ RootfsLen # 0
         /\ Room(b) = RootfsLen <=> b.len <= RootfsLen
  BY WorkbenchAssumption DEF IsRun, Room

\* A build keeps the first part.
LEMMA BuildForm ==
  ASSUME NEW patch \in Patches, NEW n \in 1..MaxStream, NEW hit \in BOOLEAN, Build(patch, n, hit)
  PROVE  OutForm'
<1> DEFINE a == rewrite_tar(patch)
           b == Run(a, n, hit)
<1>1. n \in Nat /\ n # 0 /\ RootfsLen \in Nat
  BY OffsetIs
<1>2. built' = b /\ b.archive = a /\ b.len = n /\ b.hit = hit
  BY DEF Build, Run
<1>3. out' = raw_patch(IF n <= RootfsLen THEN safe_mode(Stream(a, n, hit))
                       ELSE resize_mode(Stream(a, n, hit)))
  BY DEF Build
<1>4. IsRun(built)'
  <2>1. a' = a
    BY DEF rewrite_tar, Build
  <2> HIDE DEF a, b
  <2>2. \E p \in Patches : a = rewrite_tar(p)'
    BY <2>1 DEF a
  <2> QED
    BY <1>1, <1>2, <2>2 DEF IsRun
<1> HIDE DEF a
<1>5. CASE n <= RootfsLen
  <2>1. safe_mode(Stream(a, n, hit)) = File(b, "old", RootfsLen)
    BY <1>1, <1>5, SafeForm
  <2> HIDE DEF b
  <2>2. raw_patch(File(b, "old", RootfsLen)) = File(b, "new", RootfsLen)
    BY <1>1, <1>2, <1>5, RawForm
  <2>3. Room(b) = RootfsLen
    BY <1>2, <1>5 DEF Room
  <2>4. out' = File(b, "new", Room(b))
    BY <1>3, <1>5, <2>1, <2>2, <2>3
  <2> QED
    BY <1>2, <1>4, <2>4 DEF OutForm
<1>6. CASE ~(n <= RootfsLen)
  <2>1. resize_mode(Stream(a, n, hit)) = File(b, "old", n)
    BY <1>1, ResizeForm
  <2> HIDE DEF b
  <2>2. raw_patch(File(b, "old", n)) = File(b, "new", n)
    BY <1>1, <1>2, RawForm
  <2>3. Room(b) = n
    BY <1>2, <1>6 DEF Room
  <2>4. out' = File(b, "new", Room(b))
    BY <1>3, <1>6, <2>1, <2>2, <2>3
  <2> QED
    BY <1>2, <1>4, <2>4 DEF OutForm
<1> QED
  BY <1>5, <1>6

\* extract_partitions.py keeps the invariant, on an image of the form.
LEMMA ExtractKeeps ==
  ASSUME WorkbenchInv, NEW b, NEW t \in Texts, NEW room \in Nat, b.len \in Nat \ {0},
         b.len <= room, b.hit \in BOOLEAN,
         NEW archive, archive # NoArchive => (~b.hit \/ t = "old") /\ archive = b.archive,
         Extract(File(b, t, room), archive)
  PROVE  WorkbenchInv'
<1> DEFINE f == File(b, t, room)
           r == Read(f, DataStart + 3, room)
<1>1. /\ IsSeq(r) /\ Len(r) = room
      /\ \A k \in 1..room : r[k] = CellOf(b, t, room, k + 3)
      /\ \A e \in extract_partitions(f) : e.name = "rootfs" => e.image = r
  BY RootfsForm
<1> HIDE DEF f, r
<1>2. UNCHANGED <<stock, out, built, unpacked, tree>>
  BY DEF Extract
<1>3. OutForm'
  <2>1. IsRun(built) <=> IsRun(built')
    BY <1>2 DEF IsRun, rewrite_tar
  <2> QED
    BY <1>2, <2>1 DEF WorkbenchInv, OutForm, IsRun, rewrite_tar
<1>4. \/ bin' = r /\ origin' = [origin EXCEPT !.bin = archive]
      \/ origin' = [origin EXCEPT !.bin = NoArchive]
  BY <1>1 DEF Extract, f
<1>5. /\ origin' = [bin |-> origin'.bin, unpacked |-> origin.unpacked, tree |-> origin.tree]
      /\ origin'.unpacked = origin.unpacked /\ origin'.tree = origin.tree
      /\ origin'.bin # NoArchive => bin' = r /\ origin'.bin = archive
  <2>1. origin = [bin |-> origin.bin, unpacked |-> origin.unpacked, tree |-> origin.tree]
    BY DEF WorkbenchInv, Trace
  <2>2. \A x : [origin EXCEPT !.bin = x]
                 = [bin |-> x, unpacked |-> origin.unpacked, tree |-> origin.tree]
    BY <2>1
  <2> QED
    BY <1>4, <2>2
<1>6. origin'.bin # NoArchive => Gunzips(bin') /\ bin'[1].a = origin'.bin
  <2> SUFFICES ASSUME origin'.bin # NoArchive
               PROVE  Gunzips(bin') /\ bin'[1].a = origin'.bin
    OBVIOUS
  <2>1. ~b.hit \/ t = "old"
    BY <1>5
  <2>2. Gunzips(r) /\ r[1].a = b.archive
    BY <1>1, <2>1, Unpacks
  <2> QED
    BY <1>5, <2>2
<1>7. Trace'
  BY <1>2, <1>5, <1>6 DEF WorkbenchInv, Trace
<1> QED
  BY <1>3, <1>7 DEF WorkbenchInv

\* Every tool keeps the invariant.
LEMMA WorkbenchInvStep == WorkbenchInv /\ [Next]_vars => WorkbenchInv'
<1> SUFFICES ASSUME WorkbenchInv, [Next]_vars
             PROVE  WorkbenchInv'
  OBVIOUS
<1> USE DEF WorkbenchInv
<1>1. ASSUME UNCHANGED <<stock, out, built>>
      PROVE  OutForm'
  <2>1. IsRun(built) <=> IsRun(built')
    BY <1>1 DEF IsRun, rewrite_tar
  <2> QED
    BY <1>1, <2>1 DEF OutForm, IsRun, rewrite_tar
<1>2. ASSUME NEW patch \in Patches, NEW n \in 1..MaxStream, NEW hit \in BOOLEAN,
             Build(patch, n, hit)
      PROVE  WorkbenchInv'
  <2>1. OutForm'
    BY <1>2, BuildForm
  <2>2. Trace'
    BY <1>2 DEF Build, Trace
  <2> QED
    BY <2>1, <2>2
<1>3. CASE ExtractStock
  <2> DEFINE b == StockRun
  <2>1. Extract(File(b, "old", RootfsLen), stock)
    BY <1>3, StockForm DEF ExtractStock
  <2>2. /\ b.len \in Nat \ {0} /\ b.len <= RootfsLen /\ b.hit \in BOOLEAN /\ ~b.hit
        /\ b.archive = stock /\ RootfsLen \in Nat
    BY WorkbenchAssumption DEF StockRun, Run
  <2> HIDE DEF b, WorkbenchInv
  <2>3. "old" \in Texts
    BY DEF Texts
  <2> QED
    BY <2>1, <2>2, <2>3, ExtractKeeps
<1>4. CASE ExtractCustom
  <2> DEFINE archive == IF built.hit THEN NoArchive ELSE built.archive
             room == Room(built)
  <2>1. out # NoFile /\ Extract(out, archive)
    BY <1>4 DEF ExtractCustom
  <2>2. IsRun(built) /\ out = File(built, "new", room)
    BY <2>1 DEF OutForm
  <2>3. built.len \in Nat \ {0} /\ built.hit \in BOOLEAN /\ room \in Nat /\ built.len <= room
    BY <2>2, RunFacts
  <2>4. archive # NoArchive => (~built.hit \/ "new" = "old") /\ archive = built.archive
    OBVIOUS
  <2> HIDE DEF archive, room, WorkbenchInv
  <2>5. Extract(File(built, "new", room), archive) /\ "new" \in Texts
    BY <2>1, <2>2 DEF Texts
  <2> QED
    BY <2>3, <2>4, <2>5, ExtractKeeps
<1>5. CASE Unpack
  <2>1. OutForm'
    BY <1>1, <1>5 DEF Unpack
  <2>2. /\ origin' = [bin |-> origin.bin, unpacked |-> origin'.unpacked, tree |-> origin.tree]
        /\ origin'.bin = origin.bin /\ origin'.tree = origin.tree
        /\ origin'.unpacked # NoArchive =>
             Gunzips(bin) /\ origin'.unpacked = origin.bin
             /\ unpacked' = [archive |-> bin[1].a, whole |-> TRUE]
    <3>1. origin = [bin |-> origin.bin, unpacked |-> origin.unpacked, tree |-> origin.tree]
      BY DEF Trace
    <3>2. \A x : [origin EXCEPT !.unpacked = x]
                   = [bin |-> origin.bin, unpacked |-> x, tree |-> origin.tree]
      BY <3>1
    <3>3. \/ /\ Gunzips(bin) /\ unpacked' = [archive |-> bin[1].a, whole |-> TRUE]
             /\ origin' = [origin EXCEPT !.unpacked = origin.bin]
          \/ origin' = [origin EXCEPT !.unpacked = NoArchive]
      BY <1>5 DEF Unpack
    <3> QED
      BY <3>2, <3>3
  <2>3. origin'.unpacked # NoArchive => unpacked'.whole /\ unpacked'.archive = origin'.unpacked
    BY <2>2 DEF Trace
  <2>4. UNCHANGED <<bin, tree>>
    BY <1>5 DEF Unpack
  <2>5. Trace'
    BY <2>2, <2>3, <2>4 DEF Trace
  <2> QED
    BY <2>1, <2>5
<1>6. CASE ExtractTar
  <2>1. UNCHANGED <<stock, out, built, bin, unpacked>>
    BY <1>6 DEF ExtractTar
  <2>2. PICK done \in SUBSET Targets :
          /\ tree' = [t \in Targets |->
                        IF unpacked.archive # NoArchive /\ t \in done /\ unpacked.archive[t] # "absent"
                        THEN unpacked.archive[t] ELSE tree[t]]
          /\ origin' = [origin EXCEPT !.tree = IF unpacked.whole /\ done = Targets
                                               THEN origin.unpacked ELSE NoArchive]
    BY <1>6 DEF ExtractTar
  <2>3. /\ origin' = [bin |-> origin.bin, unpacked |-> origin.unpacked, tree |-> origin'.tree]
        /\ origin'.bin = origin.bin /\ origin'.unpacked = origin.unpacked
        /\ origin'.tree # NoArchive => done = Targets /\ origin'.tree = origin.unpacked
    <3>1. origin = [bin |-> origin.bin, unpacked |-> origin.unpacked, tree |-> origin.tree]
      BY DEF Trace
    <3>2. \A x : [origin EXCEPT !.tree = x]
                   = [bin |-> origin.bin, unpacked |-> origin.unpacked, tree |-> x]
      BY <3>1
    <3> QED
      BY <2>2, <3>2
  <2>4. ASSUME origin'.tree # NoArchive, NEW t \in Targets, origin'.tree[t] # "absent"
        PROVE  tree'[t] = origin'.tree[t]
    <3>1. done = Targets /\ origin'.tree = origin.unpacked /\ unpacked.archive = origin.unpacked
      BY <2>3, <2>4 DEF Trace
    <3> QED
      BY <2>2, <2>4, <3>1
  <2>5. Trace'
    BY <2>1, <2>3, <2>4 DEF Trace
  <2> QED
    BY <1>1, <2>1, <2>5
<1>7. CASE UNCHANGED vars
  BY <1>1, <1>7 DEF vars, Trace
<1> QED
  BY <1>2, <1>3, <1>4, <1>5, <1>6, <1>7 DEF Next

\* Whatever tools are run, in whatever order, and wherever they are stopped, the image on
\* disk has the form its run meant it to have and the extracted files are what the history
\* says they are.
THEOREM Invariance == Spec => []WorkbenchInv
<1>1. Init => WorkbenchInv
  <2> SUFFICES ASSUME Init
               PROVE  WorkbenchInv
    OBVIOUS
  <2>1. origin = [bin |-> NoArchive, unpacked |-> NoArchive, tree |-> NoArchive]
    BY DEF Init
  <2> QED
    BY <2>1 DEF Init, WorkbenchInv, OutForm, Trace
<1> QED
  BY <1>1, WorkbenchInvStep, PTL DEF Spec

-----------------------------------------------------------------------------
(* The properties.                                                         *)

\* RoundTrip: what is extracted of an image no version string was hit in decompresses, and
\* three runs without a failure give back the archive it was built from.
THEOREM RoundTripHolds == Spec => []RoundTrip
<1>1. WorkbenchInv => RoundTrip
  BY DEF WorkbenchInv, Trace, RoundTrip
<1> QED
  BY <1>1, Invariance, PTL

\* ReadersAgree: the four tools agree about where the images of every image built are.
THEOREM ReadersDoAgree == Spec => []ReadersAgree
<1>1. WorkbenchInv => ReadersAgree
  <2> SUFFICES ASSUME WorkbenchInv
               PROVE  ReadersAgree
    OBVIOUS
  <2>1. Agrees(Stock)
    <3>1. /\ StockRun.len \in Nat \ {0} /\ StockRun.len <= RootfsLen /\ StockRun.hit \in BOOLEAN
          /\ RootfsLen \in Nat
      BY WorkbenchAssumption DEF StockRun, Run
    <3> QED
      BY <3>1, StockForm, AllAgree
  <2>2. ASSUME out # NoFile
        PROVE  Agrees(out)
    <3>1. IsRun(built) /\ out = File(built, "new", Room(built))
      BY <2>2 DEF WorkbenchInv, OutForm
    <3>2. /\ built.len \in Nat \ {0} /\ built.hit \in BOOLEAN
          /\ Room(built) \in Nat /\ built.len <= Room(built)
      BY <3>1, RunFacts
    <3> QED
      BY <3>1, <3>2, AllAgree
  <2>3. \A f \in {Stock} \cup (IF out = NoFile THEN {} ELSE {out}) : Agrees(f)
    BY <2>1, <2>2
  <2> QED
    BY <2>3 DEF Agrees, Said, ReadersAgree
<1> QED
  BY <1>1, Invariance, PTL

\* GreenMeansGood: an image that passes the checks 2 to 5 of verify_custom.py reads back as
\* the archive of its run, with every target patched.
THEOREM GreenIsGood == Spec => []GreenMeansGood
<1>1. WorkbenchInv => GreenMeansGood
  <2> SUFFICES ASSUME WorkbenchInv, out # NoFile, Green(out)
               PROVE  \E e \in extract_partitions(out) :
                        /\ e.name = "rootfs" /\ Gunzips(e.image)
                        /\ e.image[1].a = built.archive
                        /\ \A t \in Targets : built.archive[t] \in Patches
    BY DEF GreenMeansGood
  <2> DEFINE room == Room(built)
             r == Read(out, DataStart + 3, room)
             gz == Read(out, DataStart + 3, FileSize(out))
  <2>1. IsRun(built) /\ out = File(built, "new", room)
    BY DEF WorkbenchInv, OutForm
  <2>2. /\ built.len \in Nat \ {0} /\ built.hit \in BOOLEAN /\ room \in Nat /\ built.len <= room
    BY <2>1, RunFacts
  <2> HIDE DEF room
  <2>3. ~built.hit
    <3>1. ThreeBlocks(out)
      BY DEF Green
    <3> QED
      BY <2>1, <2>2, <3>1, BlocksCount
  <2>4. /\ IsSeq(r) /\ Len(r) = room
        /\ \A k \in 1..room : r[k] = CellOf(built, "new", room, k + 3)
        /\ \E e \in extract_partitions(out) : e.name = "rootfs" /\ e.image = r
    BY <2>1, <2>2, RootfsForm
  <2>5. Gunzips(r) /\ r[1].a = built.archive
    <3>1. "new" \in Texts
      BY DEF Texts
    <3> HIDE DEF r
    <3> QED
      BY <2>2, <2>3, <2>4, <3>1, Unpacks
  <2>6. gz[1] = r[1]
    <3>1. IsSeq(out.body) /\ Len(out.body) = room + 4
      BY <2>1, <2>2, BodyForm
    <3>2. 3 \in 0..Len(out.body) /\ FileSize(out) \in Nat /\ FileSize(out) >= 1
      BY <2>2, <3>1, OffsetIs DEF FileSize
    <3>3. Len(gz) = Least(FileSize(out), Len(out.body) - 3) /\ \A k \in 1..Len(gz) : gz[k] = out.body[k + 3]
      BY <3>1, <3>2, ReadForm
    <3>4. Len(r) = Least(room, Len(out.body) - 3) /\ \A k \in 1..Len(r) : r[k] = out.body[k + 3]
      BY <2>2, <3>1, <3>2, ReadForm
    <3> HIDE DEF gz, r
    <3>5. 1 \in 1..Len(gz) /\ 1 \in 1..Len(r)
      BY <2>2, <2>4, <3>1, <3>2, <3>3 DEF Least
    <3>6. gz[1] = out.body[1 + 3] /\ r[1] = out.body[1 + 3]
      BY <3>3, <3>4, <3>5
    <3> QED
      BY <3>6
  <2>7. \A t \in Targets : gz[1].a[t] \in Patches
    <3>1. RootfsOff = DataStart + 3
      BY OffsetIs
    <3>2. PatchesFound(out)
      BY DEF Green
    <3> QED
      BY <3>1, <3>2 DEF PatchesFound
  <2> HIDE DEF gz, r
  <2>8. \A t \in Targets : built.archive[t] \in Patches
    BY <2>5, <2>6, <2>7
  <2> QED
    BY <2>4, <2>5, <2>8
<1> QED
  BY <1>1, Invariance, PTL

\* VerdictOfGoodBuild: of the images that are as they should be, those that kept their size
\* pass the checks 2 to 5, those that grew do not, and none passes the first.
THEOREM VerdictIsRight == Spec => []VerdictOfGoodBuild
<1>1. WorkbenchInv => VerdictOfGoodBuild
  <2> SUFFICES ASSUME WorkbenchInv, out # NoFile, ~built.hit,
                      \A t \in Targets : stock[t] = "stock"
               PROVE  /\ ~HeadSame(out)
                      /\ Green(out) <=> built.len <= RootfsLen
                      /\ SizeSame(out) <=> built.len <= RootfsLen
    BY DEF VerdictOfGoodBuild
  <2> DEFINE room == Room(built)
  <2>1. IsRun(built) /\ out = File(built, "new", room)
    BY DEF WorkbenchInv, OutForm
  <2>2. /\ built.len \in Nat \ {0} /\ built.hit \in BOOLEAN /\ room \in Nat /\ built.len <= room
        /\ room = RootfsLen <=> built.len <= RootfsLen
    BY <2>1, RunFacts
  <2>3. RootfsOff = DataStart + 3 /\ DataStart \in Nat /\ RootfsLen \in Nat
    BY OffsetIs
  <2> HIDE DEF room
  <2>4. ~HeadSame(out)
    <3>1. [Stock EXCEPT !.body = <<>>].vers = <<"old", "old">>
      BY DEF Stock
    <3>2. [out EXCEPT !.body = <<>>].vers = <<"new", "new">>
      BY <2>1 DEF File
    <3>3. <<"old", "old">> # <<"new", "new">>
      OBVIOUS
    <3> QED
      BY <3>1, <3>2, <3>3 DEF HeadSame
  <2>5. SizeSame(out) <=> built.len <= RootfsLen
    <3>1. Len(out.body) = room + 4
      BY <2>1, <2>2, BodyForm
    <3> QED
      BY <2>2, <2>3, <3>1, StockBody DEF SizeSame, FileSize
  <2>6. ASSUME built.len <= RootfsLen
        PROVE  Green(out)
    <3>1. UserSame(out)
      BY <2>1, <2>2, <2>6, UserUnchanged
    <3>2. ThreeBlocks(out)
      BY <2>1, <2>2, BlocksCount
    <3>3. PatchesFound(out)
      <4> DEFINE gz == Read(out, DataStart + 3, FileSize(out))
                 c == gz[1]
      <4>1. /\ IsSeq(out.body) /\ Len(out.body) = room + 4
            /\ \A k \in 1..room + 4 : out.body[k] = CellOf(built, "new", room, k)
        BY <2>1, <2>2, BodyForm
      <4>2. 3 \in 0..Len(out.body) /\ FileSize(out) \in Nat /\ FileSize(out) >= 1
        BY <2>2, <2>3, <4>1 DEF FileSize
      <4>3. /\ Len(gz) = Least(FileSize(out), Len(out.body) - 3)
            /\ \A k \in 1..Len(gz) : gz[k] = out.body[k + 3]
        BY <4>1, <4>2, ReadForm
      <4> HIDE DEF gz
      <4>4. 1 \in 1..Len(gz)
        BY <2>2, <4>1, <4>2, <4>3 DEF Least
      <4>5. c = CellOf(built, "new", room, 1 + 3)
        <5>1. c = out.body[1 + 3] /\ 1 + 3 \in 1..room + 4
          BY <2>2, <4>3, <4>4
        <5> QED
          BY <4>1, <5>1
      <4> HIDE DEF c
      <4>6. c.of = "gz" /\ c.a = built.archive
        <5> DEFINE x == IF built.hit /\ 1 = built.len THEN "new" ELSE ""
                   a == built.archive
                   n == built.len
        <5>1. /\ CellOf(built, "new", room, 1) = Cell("fastboot", NoArchive, 1, 1, "")
              /\ CellOf(built, "new", room, 2) = Cell("logo", NoArchive, 1, 2, "")
              /\ CellOf(built, "new", room, 3) = Cell("logo", NoArchive, 2, 2, "new")
              /\ \A k \in 1..built.len :
                   CellOf(built, "new", room, k + 3)
                     = Cell("gz", built.archive, k, built.len,
                            IF built.hit /\ k = built.len THEN "new" ELSE "")
              /\ \A k \in built.len + 1 .. room : CellOf(built, "new", room, k + 3) = Zero
              /\ CellOf(built, "new", room, room + 4) = Cell("user", NoArchive, 1, 1, "")
          BY <2>2, CellFacts
        <5>2. 1 \in 1..built.len
          BY <2>2
        <5>3. c = Cell("gz", a, 1, n, x)
          BY <4>5, <5>1, <5>2
        <5> HIDE DEF a, n, x
        <5>4. c.of = "gz" /\ c.a = a
          BY <5>3, CellFields
        <5> QED
          BY <5>4 DEF a
      <4>7. \A t \in Targets : built.archive[t] \in Patches
        <5>1. PICK patch \in Patches : built.archive = rewrite_tar(patch)
          BY <2>1 DEF IsRun
        <5> QED
          BY <5>1 DEF rewrite_tar
      <4>8. \A t \in Targets : c.a[t] \in Patches
        BY <4>6, <4>7
      <4> QED
        BY <2>3, <4>6, <4>8 DEF PatchesFound, c, gz
    <3>4. SizeSame(out)
      BY <2>5, <2>6
    <3> QED
      BY <3>1, <3>2, <3>3, <3>4 DEF Green
  <2>7. Green(out) => SizeSame(out)
    BY DEF Green
  <2> QED
    BY <2>4, <2>5, <2>6, <2>7
<1> QED
  BY <1>1, Invariance, PTL

\* analyze_firmware.py finds, in every image the builder ever writes, every run of cells
\* that is not longer than the tail and one, at all its places.
THEOREM ScanOfBuilds == Spec => []ScanFindsAll
<1>1. WorkbenchInv => ScanFindsAll
  <2> SUFFICES ASSUME WorkbenchInv, out # NoFile, NEW i \in DOMAIN out.body,
                      NEW j \in i..Least(i + Overlap, Len(out.body))
               PROVE  ScansRight(out.body, SubSeq(out.body, i, j))
    BY DEF ScanFindsAll
  <2>1. IsSeq(out.body)
    <3>1. IsRun(built) /\ out = File(built, "new", Room(built))
      BY DEF WorkbenchInv, OutForm
    <3>2. Room(built) \in Nat
      BY <3>1, RunFacts
    <3> QED
      BY <3>1, <3>2, BodyForm
  <2>2. PICK S : out.body \in Seq(S)
    BY <2>1 DEF IsSeq
  <2>3. i \in 1..Len(out.body) /\ Len(out.body) \in Nat /\ Overlap \in Nat
    BY <2>2, ScanAssumption
  <2>4. j \in Int /\ i <= j /\ j <= i + Overlap /\ j <= Len(out.body)
    BY <2>3 DEF Least
  <2>5. \A k \in i..j : out.body[k] \in S
    BY <2>2, <2>3, <2>4
  <2>6. SubSeq(out.body, i, j) \in Seq(S) /\ Len(SubSeq(out.body, i, j)) = j - i + 1
    BY <2>3, <2>4, <2>5, SubSeqProperties
  <2>7. Len(SubSeq(out.body, i, j)) \in 1..Overlap + 1
    BY SMTT(60), <2>3, <2>4, <2>6
  <2> QED
    BY <2>2, <2>6, <2>7, ScanIsRight
<1> QED
  BY <1>1, Invariance, PTL
=============================================================================
