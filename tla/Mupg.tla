-------------------------------- MODULE Mupg --------------------------------
(***************************************************************************)
(* The firmware file (.mupg) as the tools know it, and what each tool that *)
(* only reads makes of it.                                                 *)
(*                                                                         *)
(* A file is its size field (at 0x50), the two version blocks of its       *)
(* header, its partition table and, from DataStart on, its body: the       *)
(* images one after the other.  A cell of the body stands for a run of     *)
(* bytes.                                                                  *)
(***************************************************************************)
EXTENDS Naturals, Sequences

CONSTANTS
  DataStart,    \* offset of the first image (0x1000)
  SizeBase,     \* what the size field leaves out (0x400)
  Targets,      \* members of the root file system that are patched
  NoArchive     \* in place of an archive, where there is none

ASSUME MupgAssumption == SizeBase \in 0..DataStart /\ DataStart \in Nat \ {0, 1}

-----------------------------------------------------------------------------
(* Cells.  text is the version string a cell holds: "old", "new" or "".    *)

Cell(of, a, k, n, text) == [of |-> of, a |-> a, k |-> k, n |-> n, text |-> text]

Zero == Cell("zero", NoArchive, 0, 0, "")

\* A partition no tool looks into.  The image of logo ends in a version block.
Plain(p, n) ==
  [k \in 1..n |-> Cell(p, NoArchive, k, n, IF p = "logo" /\ k = n THEN "old" ELSE "")]

\* An archive, compressed to n cells.  hit: the last happens to hold the old version string.
Stream(a, n, hit) ==
  [k \in 1..n |-> Cell("gz", a, k, n, IF hit /\ k = n THEN "old" ELSE "")]

\* The cells begin with a whole stream, all of whose bytes are what the compressor wrote.
Decodes(cells) ==
  /\ cells # <<>>
  /\ cells[1].of = "gz"
  /\ cells[1].n <= Len(cells)
  /\ \A k \in 1..cells[1].n :
       [cells[k] EXCEPT !.text = ""] = Cell("gz", cells[1].a, k, cells[1].n, "")
  /\ \A k \in 1..cells[1].n : cells[k].text # "new"

\* gzip takes zeros after the stream for padding and anything else for an error.
Gunzips(cells) ==
  Decodes(cells) /\ \A k \in cells[1].n + 1 .. Len(cells) : cells[k] = Zero

-----------------------------------------------------------------------------
(* Reading.                                                                *)

FileSize(f) == DataStart + Len(f.body)

Least(a, b) == IF a < b THEN a ELSE b

\* What read() gives: nothing beyond the end.
Read(f, off, len) ==
  SubSeq(f.body, off - DataStart + 1, Least(off - DataStart + len, Len(f.body)))

\* Offsets of the images of these entries: S[k] is the end of the k-th.
Ends(entries) ==
  LET S[k \in 0..Len(entries)] == IF k = 0 THEN DataStart ELSE S[k - 1] + entries[k].img
  IN  S

Layout(entries) ==
  {[name |-> entries[k].name, off |-> Ends(entries)[k - 1], len |-> entries[k].img] :
     k \in DOMAIN entries}

EntriesFrom(f, k, limit) == SubSeq(f.table, k, Least(k + limit - 1, Len(f.table)))

\* The first entry of these names.
IndexOf(f, names, default) ==
  IF \E k \in DOMAIN f.table : f.table[k].name \in names
  THEN CHOOSE k \in DOMAIN f.table :
         f.table[k].name \in names /\ \A j \in 1..k - 1 : f.table[j].name \notin names
  ELSE default

-----------------------------------------------------------------------------
(* tools/extract_partitions.py: the table starts at the name fastboot, or  *)
(* where the first entry should be.                                        *)

find_table_start(f) == IndexOf(f, {"fastboot"}, 1)

parse_table(f) == EntriesFrom(f, find_table_start(f), 32)

\* The images written, each with its name.
extract_partitions(f) ==
  {[name |-> e.name, image |-> Read(f, e.off, e.len)] : e \in Layout(parse_table(f))}

-----------------------------------------------------------------------------
(* tools/parse_partitions.py: at fastboot, else at any name with boot in   *)
(* it, else at the magic number before the table, where nothing is parsed. *)

HasBoot == {"fastboot", "bootargs"}

find_report_start(f) ==
  IF \E k \in DOMAIN f.table : f.table[k].name = "fastboot" THEN find_table_start(f)
  ELSE IndexOf(f, HasBoot, Len(f.table) + 1)

parse_report_table(f) == EntriesFrom(f, find_report_start(f), 32)

\* The report: the rows, and the sum of the images against the size of the file.
parse_partitions(f) ==
  [rows |-> parse_report_table(f),
   total_img |-> Ends(parse_report_table(f))[Len(parse_report_table(f))] - DataStart]

-----------------------------------------------------------------------------
(* tools/analyze_header.py: up to twelve entries from a fixed offset.      *)

analyze_header(f) ==
  LET entries == EntriesFrom(f, 1, 12)
  IN  [layout |-> Layout(entries),
       size_agrees |-> f.size = FileSize(f) - SizeBase,
       sum_agrees |-> Ends(entries)[Len(entries)] = FileSize(f)]

-----------------------------------------------------------------------------
(* tools/scan_version.py: the entries whose name is in a list, in the order *)
(* of the file, and what partition each version string is in.              *)

Listed == {"logo", "kernel", "rootfs", "user", "deviceinfo", "fastplay", "baseparam",
           "pqparam", "loader", "fastboot", "bootargs", "softwareinfo", "version",
           "mainapp", "apploader"}

\* An entry that is not in the list is passed over, and its image with it.
version_layout(f) ==
  LET listed == {k \in DOMAIN f.table : f.table[k].name \in Listed}
      S[k \in 0..Len(f.table)] ==
        IF k = 0 THEN DataStart ELSE S[k - 1] + IF k \in listed THEN f.table[k].img ELSE 0
  IN  {[name |-> f.table[k].name, off |-> S[k - 1], len |-> f.table[k].img] : k \in listed}

\* The version blocks of the header stand at the offsets 0 and 1.
scan(f, text) ==
  {k - 1 : k \in {j \in DOMAIN f.vers : f.vers[j] = text}}
  \cup {DataStart + k - 1 : k \in {j \in DOMAIN f.body : f.body[j].text = text}}

\* Where each hit is said to be.
scan_version(f, text) ==
  {[off |-> off,
    where |-> IF off < DataStart THEN {"HEADER"}
              ELSE {e.name : e \in {x \in version_layout(f) : x.off <= off /\ off < x.off + x.len}}] :
     off \in scan(f, text)}
=============================================================================
