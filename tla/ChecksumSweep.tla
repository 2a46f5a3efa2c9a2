--------------------------- MODULE ChecksumSweep ---------------------------
(***************************************************************************)
(* tools/crack_checksum.py: which checksum is in the flags of a partition? *)
(* Every entry of a catalogue is computed over the user partition and, if  *)
(* it matches, over rootfs.  The CRC-32 variants, which zlib computes, are *)
(* left out.                                                               *)
(***************************************************************************)
EXTENDS Naturals, Sequences, Bitwise

CONSTANTS
  Bytes,      \* the bytes partitions are made of
  MaxLen      \* bound on their length

VARIABLES
  user, rootfs,   \* the two partitions
  actual,         \* the entry whose checksum is in the flags; 0 for none of them
  next,           \* the entry to be tried
  candidates,     \* those that match user
  result          \* "", "none in catalog", "user only" or "confirmed"

vars == <<user, rootfs, actual, next, candidates, result>>

-----------------------------------------------------------------------------
(* The parametric CRC.                                                     *)

Entry(width, poly, init, refin, refout, xorout) ==
  [width |-> width, poly |-> poly, init |-> init, refin |-> refin, refout |-> refout,
   xorout |-> xorout]

\* FLEXRAY-A, LTE-B, CCITT-F, XMODEM, ARC and MODBUS of the thirteen entries.
CRC_DEFS ==
  <<Entry(24, 6122955, 16702650, FALSE, FALSE, 0), Entry(24, 8388707, 0, FALSE, FALSE, 0),
    Entry(16, 4129, 65535, FALSE, FALSE, 0), Entry(16, 4129, 0, FALSE, FALSE, 0),
    Entry(16, 32773, 0, TRUE, TRUE, 0), Entry(16, 32773, 65535, TRUE, TRUE, 0)>>

Pow2(n) == 2 ^ n

reflect(x, n) ==
  LET R[i \in 0..n] ==
        IF i = 0 THEN 0 ELSE R[i - 1] + ((x \div Pow2(i - 1)) % 2) * Pow2(n - i)
  IN  R[n]

\* Eight bits through the shift register.
EightSteps(e, c) ==
  LET S[k \in 0..8] ==
        IF k = 0 THEN c
        ELSE LET d == (S[k - 1] * 2) % Pow2(e.width)
             IN  IF S[k - 1] >= Pow2(e.width - 1) THEN d ^^ e.poly ELSE d
  IN  S[8]

\* An entry of the table, which is indexed with the byte as it is.
TableEntry(e, b) == EightSteps(e, (IF e.refin THEN reflect(b, 8) ELSE b) * Pow2(e.width - 8))

Finish(e, c) == (IF e.refout THEN reflect(c, e.width) ELSE c) ^^ e.xorout

\* What the function that make_crc() returns computes: the register is folded into the
\* index before the index is reflected.
make_crc(e, buf) ==
  LET C[k \in 0..Len(buf)] ==
        IF k = 0 THEN e.init
        ELSE ((C[k - 1] % Pow2(e.width - 8)) * 256)
               ^^ TableEntry(e, (C[k - 1] \div Pow2(e.width - 8)) ^^ buf[k])
  IN  Finish(e, C[Len(buf)])

\* The checksum the parameters stand for: the bits of each byte, from the end that refin
\* says, go through the register.
Named(e, buf) ==
  LET C[k \in 0..Len(buf)] ==
        IF k = 0 THEN e.init
        ELSE EightSteps(e, C[k - 1] ^^ ((IF e.refin THEN reflect(buf[k], 8) ELSE buf[k])
                                         * Pow2(e.width - 8)))
  IN  Finish(e, C[Len(buf)])

-----------------------------------------------------------------------------
(* The sweep.                                                              *)

Contents == UNION {[1..n -> Bytes] : n \in 1..MaxLen}

\* The low 24 bits of the flags.  Another algorithm's value is none of the catalogue's.
Flags(part) == IF actual = 0 THEN Pow2(24) ELSE Named(CRC_DEFS[actual], part)

Init ==
  /\ user \in Contents /\ rootfs \in Contents
  /\ actual \in 0..Len(CRC_DEFS)
  /\ next = 1
  /\ candidates = {}
  /\ result = ""

TryOnUser ==
  /\ next <= Len(CRC_DEFS)
  /\ next' = next + 1
  /\ candidates' = IF make_crc(CRC_DEFS[next], user) = Flags(user)
                   THEN candidates \cup {next} ELSE candidates
  /\ UNCHANGED <<user, rootfs, actual, result>>

\* The result line of a sweep without a candidate ends it.
NoCandidate ==
  /\ next > Len(CRC_DEFS) /\ candidates = {} /\ result = ""
  /\ result' = "none in catalog"
  /\ UNCHANGED <<user, rootfs, actual, next, candidates>>

VerifyOnRootfs ==
  /\ next > Len(CRC_DEFS) /\ candidates # {} /\ result = ""
  /\ result' = IF \E c \in candidates : make_crc(CRC_DEFS[c], rootfs) = Flags(rootfs)
               THEN "confirmed" ELSE "user only"
  /\ UNCHANGED <<user, rootfs, actual, next, candidates>>

Next == TryOnUser \/ NoCandidate \/ VerifyOnRootfs

Spec == Init /\ [][Next]_vars

-----------------------------------------------------------------------------
(* Property.                                                               *)

\* No checksum of the catalogue matches, if the program says so: the flags are then not
\* the checksum of any of its entries (crack_checksum.py:116-123).
NoneMeansNone == result = "none in catalog" => actual = 0
=============================================================================
