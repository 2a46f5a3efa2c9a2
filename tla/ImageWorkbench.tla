--------------------------- MODULE ImageWorkbench ---------------------------
(***************************************************************************)
(* The firmware workbench: tools/build_custom_mupg.py builds a custom      *)
(* image from the stock one, verify_custom.py passes judgement on it, and  *)
(* extract_partitions.py, unpack_rootfs.py and extract_tar.py take an      *)
(* image apart, each from the file the one before it left.  The tools are  *)
(* run by hand, in any order; each may fail or be stopped half-way.        *)
(***************************************************************************)
EXTENDS Mupg, SignatureScan, FiniteSets

CONSTANTS
  Patches,       \* versions of the patch files, edited together
  NoFile,        \* what a file not yet written holds
  RootfsLen,     \* cells of the stock root file system (ROOTFS_IMG)
  RootfsOff,     \* where it begins (ROOTFS_OFF)
  MaxStream      \* bound on the length of a compressed archive

ASSUME WorkbenchAssumption ==
  RootfsLen \in Nat \ {0} /\ RootfsOff \in Nat /\ MaxStream \in Nat

VARIABLES
  stock,         \* the archive in the stock image: by target, "absent", "link" for one that
                 \* is not a regular file, or "stock"; an archive built has versions of Patches
  out,           \* OUT_MUPG
  built,         \* history: what the build that wrote it meant to write
  bin,           \* extracted/rootfs.bin
  unpacked,      \* extracted/rootfs.unpacked: an archive, whole or cut off
  tree,          \* extracted/rootfs_tree: the targets in it
  origin         \* history: the archive that a file ought to hold, if no step went wrong

vars == <<stock, out, built, bin, unpacked, tree, origin>>

-----------------------------------------------------------------------------
(* The stock image.  Of its partitions before rootfs the model keeps two.  *)

Image(rootfs, user) == Plain("fastboot", 1) \o Plain("logo", 2) \o rootfs \o user

User == Plain("user", 1)

Table(rootfsLen) ==
  <<[name |-> "fastboot", img |-> 1], [name |-> "logo", img |-> 2],
    [name |-> "rootfs", img |-> rootfsLen], [name |-> "user", img |-> 1]>>

Stock ==
  LET body == Image(Stream(stock, RootfsLen, FALSE), User)
  IN  [size |-> DataStart + Len(body) - SizeBase, vers |-> <<"old", "old">>,
       table |-> Table(RootfsLen), body |-> body]

\* The offset written into the tools is the one the table gives.
ASSUME OffsetAssumption == RootfsOff = Ends(Table(RootfsLen))[2]

-----------------------------------------------------------------------------
(* build_custom_mupg.py                                                    *)

\* The members are copied in order; a target that is a regular file is replaced.
rewrite_tar(patch) ==
  [t \in Targets |-> IF stock[t] = "stock" THEN patch ELSE stock[t]]

find_rootfs_entry(f) == IndexOf(f, {"rootfs"}, 0)

\* Mutant: only the first version string found is replaced.
RawPatchFirst(f) == [f EXCEPT !.vers[1] = "new"]

\* Every old version string in the file, wherever it is.
raw_patch(f) ==
  [f EXCEPT !.vers = [k \in DOMAIN @ |-> IF @[k] = "old" THEN "new" ELSE @[k]],
            !.body = [k \in DOMAIN @ |-> IF @[k].text = "old"
                                         THEN [@[k] EXCEPT !.text = "new"] ELSE @[k]]]

\* What is before the root file system, the new one, and what is after the old one.
Replaced(rootfs) ==
  Read(Stock, DataStart, RootfsOff - DataStart) \o rootfs
    \o Read(Stock, RootfsOff + RootfsLen, FileSize(Stock))

safe_mode(gz) ==
  [Stock EXCEPT !.body = Replaced(gz \o [k \in 1..RootfsLen - Len(gz) |-> Zero])]

\* Mutant: the length in the table is not updated.
ResizeBodyOnly(gz) ==
  [Stock EXCEPT !.body = Replaced(gz), !.size = DataStart + Len(Replaced(gz)) - SizeBase]

\* Mutant: the size field holds the size of the file.
ResizeWholeSize(gz) ==
  [Stock EXCEPT !.body = Replaced(gz), !.size = DataStart + Len(Replaced(gz)),
                !.table[find_rootfs_entry(Stock)].img = Len(gz)]

resize_mode(gz) ==
  [Stock EXCEPT !.body = Replaced(gz), !.size = DataStart + Len(Replaced(gz)) - SizeBase,
                !.table[find_rootfs_entry(Stock)].img = Len(gz)]

\* A run that gets as far as the image.  One that fails or is stopped earlier leaves the
\* image of an earlier run.  The patch files are edited between the runs; how long the
\* stream is and whether the version string comes up in it is up to the compressor.
Build(patch, n, hit) ==
  LET gz == Stream(rewrite_tar(patch), n, hit)
  IN  /\ out' = raw_patch(IF n <= RootfsLen THEN safe_mode(gz) ELSE resize_mode(gz))
      /\ built' = [archive |-> rewrite_tar(patch), len |-> n, hit |-> hit]
      /\ UNCHANGED <<stock, bin, unpacked, tree, origin>>

-----------------------------------------------------------------------------
(* verify_custom.py                                                        *)

HeadSame(f) == /\ [Stock EXCEPT !.body = <<>>] = [f EXCEPT !.body = <<>>]
               /\ Read(Stock, DataStart, RootfsOff - DataStart)
                    = Read(f, DataStart, RootfsOff - DataStart)

\* The range is the one of the stock image in both files.
UserSame(f) ==
  LET from == RootfsOff + RootfsLen
      len == FileSize(Stock) - from
  IN  Read(Stock, from, len) = Read(f, from, len)

SizeSame(f) == FileSize(Stock) = FileSize(f)

\* The stream is read as far as the last target and no further.  A target that is
\* missing, or not a regular file, ends the program with an error.  The marks looked for
\* are in every version of a patch and in no stock file.  No checksum is tested on the way:
\* a stream hit by the raw patch may pass.
PatchesFound(f) ==
  LET gz == Read(f, RootfsOff, FileSize(f))
  IN  gz[1].of = "gz" /\ \A t \in Targets : gz[1].a[t] \in Patches

\* Mutant: three blocks at least.
AtLeastThree(f) == Cardinality(scan(f, "new")) >= 3 /\ scan(f, "old") = {}

ThreeBlocks(f) == Cardinality(scan(f, "new")) = 3 /\ scan(f, "old") = {}

\* All that is asked of an image but the first of the five checks, HeadSame.
Green(f) == UserSame(f) /\ SizeSame(f) /\ PatchesFound(f) /\ ThreeBlocks(f)

-----------------------------------------------------------------------------
(* The tools that take an image apart.                                     *)

\* extract_partitions.py, on either image: the root file system, or the part of it
\* written before the tool was stopped.
Extract(f, archive) ==
  /\ \E e \in extract_partitions(f) :
       /\ e.name = "rootfs"
       /\ \/ bin' = e.image /\ origin' = [origin EXCEPT !.bin = archive]
          \/ \E n \in 0..Len(e.image) - 1 :
               bin' = SubSeq(e.image, 1, n) /\ origin' = [origin EXCEPT !.bin = NoArchive]
  /\ UNCHANGED <<stock, out, built, unpacked, tree>>

ExtractStock == Extract(Stock, stock)

ExtractCustom ==
  /\ out # NoFile
  /\ Extract(out, IF built.hit THEN NoArchive ELSE built.archive)

\* unpack_rootfs.py: what could be decompressed stays when the rest cannot, or when the
\* tool is stopped before the end.
Unpack ==
  /\ bin # NoFile
  /\ \/ /\ Gunzips(bin)
        /\ unpacked' = [archive |-> bin[1].a, whole |-> TRUE]
        /\ origin' = [origin EXCEPT !.unpacked = origin.bin]
     \/ /\ unpacked' = [archive |-> IF bin = <<>> THEN NoArchive ELSE bin[1].a, whole |-> FALSE]
        /\ origin' = [origin EXCEPT !.unpacked = NoArchive]
  /\ UNCHANGED <<stock, out, built, bin, tree>>

\* extract_tar.py: a member that cannot be extracted is passed over, and what the tree
\* held of it stays; so does whatever the archive does not hold.
ExtractTar ==
  /\ unpacked # NoFile
  /\ \E done \in SUBSET Targets :
       /\ tree' = [t \in Targets |->
                     IF unpacked.archive # NoArchive /\ t \in done /\ unpacked.archive[t] # "absent"
                     THEN unpacked.archive[t] ELSE tree[t]]
       /\ origin' = [origin EXCEPT !.tree = IF unpacked.whole /\ done = Targets
                                            THEN origin.unpacked ELSE NoArchive]
  /\ UNCHANGED <<stock, out, built, bin, unpacked>>

-----------------------------------------------------------------------------
(* The specification.                                                      *)

Init ==
  /\ stock \in [Targets -> {"absent", "link", "stock"}]
  /\ out = NoFile /\ built = NoFile /\ bin = NoFile /\ unpacked = NoFile
  /\ tree = [t \in Targets |-> "absent"]
  /\ origin = [bin |-> NoArchive, unpacked |-> NoArchive, tree |-> NoArchive]

Next ==
  \/ \E patch \in Patches, n \in 1..MaxStream, hit \in BOOLEAN : Build(patch, n, hit)
  \/ ExtractStock \/ ExtractCustom \/ Unpack \/ ExtractTar

Spec == Init /\ [][Next]_vars

-----------------------------------------------------------------------------
(* Properties.                                                             *)

\* A round trip: what extract_partitions.py reads of an image in which no version string
\* was hit by chance decompresses, in either mode of the builder, and after three runs
\* without a failure the tree holds what the image was built from, whatever it held
\* before (build_custom_mupg.py:176-194, extract_partitions.py:95-121, unpack_rootfs.py:31-44).
RoundTrip ==
  /\ origin.bin # NoArchive => Gunzips(bin)
  /\ origin.tree # NoArchive =>
       \A t \in Targets : origin.tree[t] # "absent" => tree[t] = origin.tree[t]

\* The partition a cell was written as a part of.
Owner(cell) == IF cell.of = "gz" THEN "rootfs" ELSE cell.of

\* The four tools that compute where the images are agree about every image built, with
\* each other and with its header: the images are the whole of the file, the size field is
\* right, and each version string is in the partition scan_version.py says it is in
\* (build_custom_mupg.py:184-194).
ReadersAgree ==
  \A f \in {Stock} \cup (IF out = NoFile THEN {} ELSE {out}) :
    LET header == analyze_header(f)
    IN  /\ header.size_agrees /\ header.sum_agrees
        /\ header.layout = Layout(parse_table(f)) /\ header.layout = version_layout(f)
        /\ parse_partitions(f).total_img = FileSize(f) - DataStart
        /\ \A text \in {"old", "new"} : \A h \in scan_version(f, text) :
             h.where = IF h.off < DataStart THEN {"HEADER"}
                       ELSE {Owner(f.body[h.off - DataStart + 1])}

\* The checks 2 to 5 of verify_custom.py are worth something: when all four are passed, the
\* image reads back as the archive of the build that wrote it, every target patched, even
\* when the raw patch found the version string where it should not (verify_custom.py:28-62,
\* build_custom_mupg.py:198-219).
GreenMeansGood ==
  (out # NoFile /\ Green(out)) =>
    \E e \in extract_partitions(out) :
      /\ e.name = "rootfs" /\ Gunzips(e.image)
      /\ e.image[1].a = built.archive
      /\ \A t \in Targets : built.archive[t] \in Patches

\* The verdict on every image that is as it should be: one that kept its size passes the
\* checks 2 to 5, one that grew fails the third, and the first, whose heading says that the
\* header must be identical, fails for both, since the raw patch changes it
\* (verify_custom.py:23-37, build_custom_mupg.py:44-53).
VerdictOfGoodBuild ==
  (out # NoFile /\ ~built.hit /\ \A t \in Targets : stock[t] = "stock") =>
    /\ ~HeadSame(out)
    /\ Green(out) <=> built.len <= RootfsLen
    /\ SizeSame(out) <=> built.len <= RootfsLen

\* analyze_firmware.py reports what is there: every run of cells of an image built that
\* is not longer than the tail and one, taken for a signature, is found at all its places
\* (analyze_firmware.py:72-101).
ScanFindsAll ==
  out # NoFile =>
    \A i \in DOMAIN out.body : \A j \in i..Least(i + Overlap, Len(out.body)) :
      ScansRight(out.body, SubSeq(out.body, i, j))
=============================================================================
