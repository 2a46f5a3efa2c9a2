--------------------------- MODULE SignatureScan ---------------------------
(***************************************************************************)
(* tools/analyze_firmware.py: a file is read in chunks and each chunk,     *)
(* with the tail of what was read before it, is searched for a signature.  *)
(* Offsets are counted from 0; a sequence of data holds the byte of offset *)
(* i at i + 1.                                                             *)
(***************************************************************************)
EXTENDS Naturals, Sequences

CONSTANTS
  Chunk,     \* bytes read at a time (8 MB)
  Overlap    \* bytes of the buffer kept for the next chunk (16)

ASSUME ScanAssumption == Chunk \in Nat \ {0} /\ Overlap \in Nat \ {0}

\* The signature stands at this offset.
Occurs(data, magic, i) ==
  i + Len(magic) <= Len(data) /\ \A k \in 1..Len(magic) : data[i + k] = magic[k]

\* Rounds of the loop: a read at position c * Chunk, while that is within the file.
Rounds(data) == {c \in 0..Len(data) : c * Chunk < Len(data)}

\* The buffer of a round holds the offsets from Base to End - 1.
Base(c) == IF Overlap < c * Chunk THEN c * Chunk - Overlap ELSE 0
End(data, c) == IF (c + 1) * Chunk < Len(data) THEN (c + 1) * Chunk ELSE Len(data)

\* Mutant: no tail is kept.
ScanWithoutTail(data, magic, i) ==
  {c \in Rounds(data) :
     c * Chunk <= i /\ i + Len(magic) <= End(data, c) /\ Occurs(data, magic, i)}

\* The rounds in which find() reports an offset: where the whole signature is in the buffer.
scan_signatures(data, magic, i) ==
  {c \in Rounds(data) :
     Base(c) <= i /\ i + Len(magic) <= End(data, c) /\ Occurs(data, magic, i)}

-----------------------------------------------------------------------------
(* What is wanted of it.                                                   *)

\* The signature lies wholly in the tail that a later round searches again.
InTail(data, magic, i) ==
  \E c \in Rounds(data) : c > 0 /\ Base(c) <= i /\ i + Len(magic) <= c * Chunk

\* A signature not longer than the tail is reported wherever it stands, across the
\* border of two chunks as well, nothing else is, and it is reported in two rounds
\* just if it lies wholly in a tail (analyze_firmware.py:75-95; there the count that
\* main() prints at line 135 counts it twice).
ScansRight(data, magic) ==
  \A i \in 0..Len(data) :
    LET rounds == scan_signatures(data, magic, i)
    IN  /\ rounds # {} <=> Occurs(data, magic, i)
        /\ (\E c, d \in rounds : c # d) <=> (Occurs(data, magic, i) /\ InTail(data, magic, i))
=============================================================================
