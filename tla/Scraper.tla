------------------------------ MODULE Scraper ------------------------------
(***************************************************************************)
(* tools/lyngsat_scraper.py: one pass over the table rows of a LyngSat     *)
(* page, in document order, which keeps the transponders worth tuning to.  *)
(*                                                                         *)
(* The page is read row by row.  Of a row the model keeps what it is and   *)
(* what its columns say; the code never sees columns, only the text of the *)
(* whole row, and the operators of the first section say what it makes of  *)
(* that text.  A wrapper is a row of an outer table: its text holds the    *)
(* text of the table nested in it, and find_all("tr") returns it first.    *)
(***************************************************************************)
EXTENDS Naturals, Sequences

CONSTANTS
  Transponders,   \* frequency, polarization, symbol rate and FEC, as one value
  NoKey,          \* of a row in which the two patterns are not both found
  MaxRows         \* bound on the length of a page

ASSUME ScraperAssumption == NoKey \notin Transponders /\ MaxRows \in Nat

VARIABLES
  pc,             \* "fetching", "parsing", "parsed", "written" or "failed"
  rows,           \* history: the rows read so far
  current,        \* the transponder whose rows are being read; its key is NoKey for none
  seen,           \* the keys kept so far
  results,        \* the same, in the order in which they were kept
  file            \* the output file; empty stands for what an earlier run left

vars == <<pc, rows, current, seen, results, file>>

-----------------------------------------------------------------------------
(* Rows.                                                                   *)

\* system: the Encryption column is empty; names a system of the list; names another
\* one; is empty, but another column of the row holds the name of one (BRANDS holds nds).
System == {"none", "listed", "unlisted", "lookalike"}
\* provider: the column holds the word feed; another column does; none does.
Provider == {"plain", "feed", "lookalike"}

Row == [is : {"header", "wrapper", "channel", "separator"},
        key : Transponders \cup {NoKey}, system : System, provider : Provider]

Header(k) == [is |-> "header", key |-> k, system |-> "none", provider |-> "plain"]
Wrapper(k) == [Header(k) EXCEPT !.is = "wrapper"]
Channel(s, p) == [is |-> "channel", key |-> NoKey, system |-> s, provider |-> p]
Separator == [Header(NoKey) EXCEPT !.is = "separator"]

\* One misleading column per row is enough.
Rows ==
  {Header(k) : k \in Transponders} \cup {Wrapper(k) : k \in Transponders}
  \cup {Channel(s, "plain") : s \in System} \cup {Channel("none", p) : p \in Provider}
  \cup {Separator}

\* Both patterns are found in the text.
StartsTransponder(r) == r.key # NoKey

is_encrypted(r) == r.system \in {"listed", "lookalike"}
is_feed(r) == r.provider \in {"feed", "lookalike"}
IsClean(r) == ~is_encrypted(r) /\ ~is_feed(r)

-----------------------------------------------------------------------------
(* The pass.                                                               *)

NoTransponder == [key |-> NoKey, clean |-> FALSE, had_channels |-> FALSE]

Init ==
  /\ pc = "fetching"
  /\ rows = <<>>
  /\ current = NoTransponder
  /\ seen = {}
  /\ results = <<>>
  /\ file = <<>>

Fetch ==
  /\ pc = "fetching"
  /\ pc' \in {"parsing", "failed"}
  /\ UNCHANGED <<rows, current, seen, results, file>>

\* The rows of the nested table are still to come, whatever they are.
InWrapper == Len(rows) > 0 /\ rows[Len(rows)].is = "wrapper"

Kept == current.key # NoKey /\ (current.clean \/ ~current.had_channels)

flush ==
  IF Kept /\ current.key \notin seen
  THEN seen' = seen \cup {current.key} /\ results' = Append(results, current.key)
  ELSE UNCHANGED <<seen, results>>

Reads(r) ==
  /\ pc = "parsing"
  /\ Len(rows) < MaxRows
  /\ rows' = Append(rows, r)
  /\ UNCHANGED <<pc, file>>

ReadHeader(r) ==
  /\ StartsTransponder(r)
  /\ Reads(r)
  /\ flush
  /\ current' = [key |-> r.key, clean |-> FALSE, had_channels |-> FALSE]

\* Mutant: the last channel row decides.
ReadLastChannel(r) ==
  /\ r.is = "channel"
  /\ current.key # NoKey
  /\ Reads(r)
  /\ current' = [current EXCEPT !.had_channels = TRUE, !.clean = IsClean(r)]
  /\ UNCHANGED <<seen, results>>

\* Mutant: rows that are filtered do not count as channel rows.
ReadCleanChannel(r) ==
  /\ r.is = "channel"
  /\ current.key # NoKey
  /\ Reads(r)
  /\ current' = IF IsClean(r) THEN [current EXCEPT !.had_channels = TRUE, !.clean = TRUE]
                ELSE current
  /\ UNCHANGED <<seen, results>>

ReadChannel(r) ==
  /\ r.is = "channel"
  /\ current.key # NoKey
  /\ Reads(r)
  /\ current' = [current EXCEPT !.had_channels = TRUE, !.clean = @ \/ IsClean(r)]
  /\ UNCHANGED <<seen, results>>

\* A row before the first transponder, or one without cells or text.
SkipRow(r) ==
  /\ ~StartsTransponder(r)
  /\ current.key = NoKey \/ r.is = "separator"
  /\ Reads(r)
  /\ UNCHANGED <<current, seen, results>>

\* Mutant: the last transponder of the page is forgotten.
EndWithoutFlush ==
  /\ pc = "parsing"
  /\ ~InWrapper
  /\ pc' = "parsed"
  /\ UNCHANGED <<rows, current, seen, results, file>>

EndOfPage ==
  /\ pc = "parsing"
  /\ ~InWrapper
  /\ flush
  /\ pc' = "parsed"
  /\ UNCHANGED <<rows, current, file>>

\* main() writes the file only if there is something to write.
Finish ==
  /\ pc = "parsed"
  /\ IF results = <<>>
     THEN pc' = "failed" /\ UNCHANGED file
     ELSE pc' = "written" /\ file' = results
  /\ UNCHANGED <<rows, current, seen, results>>

Next ==
  \/ Fetch \/ EndOfPage \/ Finish
  \/ \E r \in Rows : ReadHeader(r) \/ ReadChannel(r) \/ SkipRow(r)

Spec == Init /\ [][Next]_vars

-----------------------------------------------------------------------------
(* The page as a whole: every row that starts a transponder has the rows   *)
(* up to the next one.                                                     *)

Starts == {i \in DOMAIN rows : StartsTransponder(rows[i])}

ChannelsOf(i) ==
  {j \in DOMAIN rows :
     /\ i < j
     /\ rows[j].is = "channel"
     /\ \A n \in Starts : n <= i \/ j < n}

Worth(i) == ChannelsOf(i) = {} \/ \E j \in ChannelsOf(i) : IsClean(rows[j])

InFile(k) == \E n \in DOMAIN file : file[n] = k

\* The starts whose rows are all read.
Closed == IF pc \in {"fetching", "parsing"}
          THEN {i \in Starts : \E n \in Starts : i < n}
          ELSE Starts

-----------------------------------------------------------------------------
(* The inductive invariant.                                                *)

TypeOK ==
  /\ pc \in {"fetching", "parsing", "parsed", "written", "failed"}
  /\ rows \in Seq(Row)
  /\ current \in [key : Transponders \cup {NoKey}, clean : BOOLEAN, had_channels : BOOLEAN]
  /\ seen \subseteq Transponders
  /\ results \in Seq(Transponders)
  /\ file \in Seq(Transponders)

\* The transponder being read is the last one started, with what its rows say so far.
CurrentIsLastStart ==
  IF Starts = {} THEN current = NoTransponder
  ELSE \E i \in Starts :
         /\ \A n \in Starts : n <= i
         /\ current.key = rows[i].key
         /\ current.had_channels = (ChannelsOf(i) # {})
         /\ current.clean = (\E j \in ChannelsOf(i) : IsClean(rows[j]))

\* Kept are the keys of the closed starts worth it.
SeenIsWorth == seen = {rows[i].key : i \in {n \in Closed : Worth(n)}}

\* Every key stands once in the results.
ResultsAreSeen ==
  /\ seen = {results[n] : n \in DOMAIN results}
  /\ \A m, n \in DOMAIN results : results[m] = results[n] => m = n

FileIsResults == pc = "written" => file = results

NothingRead == pc = "fetching" => rows = <<>>

Inv ==
  /\ TypeOK /\ NothingRead /\ FileIsResults
  /\ CurrentIsLastStart /\ SeenIsWorth /\ ResultsAreSeen

-----------------------------------------------------------------------------
(* Properties.  What the documentation asks for is a matter of the          *)
(* Encryption and the Provider Name column (lyngsat_scraper.py:10-12,      *)
(* README_lyngsat_scraper.md:38-43), which the code does not look at.      *)

\* A free-to-air channel that is no feed.
Clear(r) == r.system \in {"none", "lookalike"} /\ r.provider # "feed"

\* One clear channel, or no channel row at all (parse_transponders, lines 88-91).
WorthByColumns(i) == ChannelsOf(i) = {} \/ \E j \in ChannelsOf(i) : Clear(rows[j])

\* The columns say no more and no less than the whole text does to the code.
Plain(r) == r.system \in {"none", "listed"} /\ r.provider \in {"plain", "feed"}

\* The starts of a transponder that are headers with nothing but plain channels under them.
PlainStart(i) == rows[i].is = "header" /\ \A j \in ChannelsOf(i) : Plain(rows[j])

\* The file lists no transponder twice.  One whose rows are plain and which no nested
\* table repeats is in it exactly if the columns of the channels under one of its
\* headers ask for it, wherever on the page they are, however often it comes, and
\* whatever misleading rows of other transponders stand in between
\* (parse_transponders, lyngsat_scraper.py:82-160).
FileFollowsColumns ==
  pc = "written" =>
    /\ \A m, n \in DOMAIN file : file[m] = file[n] => m = n
    /\ \A k \in Transponders :
         (\A i \in Starts : rows[i].key = k => PlainStart(i))
           => (InFile(k) <=> \E i \in Starts : rows[i].key = k /\ WorthByColumns(i))

\* No channel that can be watched is lost: a transponder one of whose channels has an
\* empty Encryption column and no feed for a provider is in the file, unless another
\* column misleads is_encrypted() or is_feed() (lines 71-79), wrappers or not.
ClearIsKept ==
  pc = "written" =>
    \A i \in Starts, j \in DOMAIN rows :
      (j \in ChannelsOf(i) /\ rows[j].system = "none" /\ rows[j].provider = "plain")
        => InFile(rows[i].key)

\* Nothing locked is kept but for a reason one can see on the page: a transponder whose
\* headers all have channels, each under a listed system or of a feed, is in the file
\* only if a wrapper row repeats it, for to the code the wrapper is a transponder
\* without channels (lines 109, 127-137).
LockedIsDropped ==
  pc = "written" =>
    \A n \in DOMAIN file : \E i \in Starts :
      /\ rows[i].key = file[n]
      /\ \/ rows[i].is = "wrapper"
         \/ ChannelsOf(i) = {}
         \/ \E j \in ChannelsOf(i) : rows[j].system # "listed" /\ rows[j].provider # "feed"

\* Violated: a frequency row with a value in the Encryption column is skipped
\* (lyngsat_scraper.py:11).  A system that ENCRYPTION_MARKERS (lines 44-48) does not name
\* passes for none (UnknownSystem.cfg).
EncryptedIsSkipped ==
  pc = "written" =>
    \A n \in DOMAIN file : \E i \in Starts :
      rows[i].key = file[n] /\ (rows[i].is = "wrapper" \/ WorthByColumns(i))

\* Violated: a transponder is kept if it has at least one free-to-air channel
\* (README_lyngsat_scraper.md:40-41).  The tests of lines 154-155 read the whole row, and a
\* channel or provider whose name holds a marker passes for encrypted, or for a feed.
\* (MarkerInName.cfg).
FreeToAirIsKept ==
  pc = "written" => \A i \in Starts : WorthByColumns(i) => InFile(rows[i].key)

\* Violated: if a transponder's channels are all encrypted, that frequency is skipped
\* (README_lyngsat_scraper.md:38-40).  The row a table is nested in starts the transponder
\* too, and is itself followed by no channel (NestedTable.cfg).
NestedIsSkipped ==
  pc = "written" =>
    \A k \in Transponders :
      LET headers == {i \in Starts : rows[i].key = k /\ rows[i].is = "header"}
      IN  (headers # {} /\ \A i \in headers :
             ChannelsOf(i) # {} /\ \A j \in ChannelsOf(i) : rows[j].system = "listed")
            => ~InFile(k)
=============================================================================
