--------------------------- MODULE Scraper_proofs ---------------------------
(***************************************************************************)
(* For every page and every set of transponders: what the file written     *)
(* holds of the transponders whose rows mislead nobody, and of the others. *)
(***************************************************************************)
EXTENDS Scraper, TLAPS

-----------------------------------------------------------------------------
(* Rows and blocks.                                                        *)

\* What the rows of a page look like.
LEMMA RowFacts ==
  ASSUME NEW r \in Rows
  PROVE  /\ r \in Row
         /\ StartsTransponder(r) => r.key \in Transponders /\ r.is # "channel"
         /\ ~StartsTransponder(r) <=> r.key = NoKey
<1> NoKey \notin Transponders
  BY ScraperAssumption
<1>1. CASE \E k \in Transponders : r = Header(k) \/ r = Wrapper(k)
  BY <1>1 DEF Row, Header, Wrapper, System, Provider, StartsTransponder
<1>2. CASE \E s \in System, p \in Provider : r = Channel(s, p)
  BY <1>2 DEF Row, Channel, StartsTransponder
<1>3. CASE r = Separator
  BY <1>3 DEF Row, Separator, Header, System, Provider, StartsTransponder
<1> QED
  BY <1>1, <1>2, <1>3 DEF Rows, System, Provider

\* One more row leaves the earlier rows alone.
LEMMA AppendFacts ==
  ASSUME TypeOK, NEW r \in Rows, rows' = Append(rows, r)
  PROVE  /\ Len(rows) \in Nat
         /\ rows' \in Seq(Row)
         /\ DOMAIN rows = 1..Len(rows)
         /\ DOMAIN rows' = 1..(Len(rows) + 1)
         /\ rows'[Len(rows) + 1] = r
         /\ \A i \in 1..Len(rows) : rows'[i] = rows[i]
BY RowFacts DEF TypeOK

\* A row that starts a transponder closes the block before it and opens an empty one.
LEMMA StartBlocks ==
  ASSUME TypeOK, NEW r \in Rows, rows' = Append(rows, r), StartsTransponder(r),
         NEW L, L = Len(rows) + 1
  PROVE  /\ Starts' = Starts \cup {L}
         /\ \A i \in Starts : ChannelsOf(i)' = ChannelsOf(i)
         /\ ChannelsOf(L)' = {}
<1>1. r.is # "channel"
  BY RowFacts
<1>2. Starts' = Starts \cup {L}
  BY AppendFacts DEF Starts
<1>3. ASSUME NEW i \in Starts
      PROVE  ChannelsOf(i)' = ChannelsOf(i)
  BY <1>1, <1>2, AppendFacts DEF ChannelsOf, Starts
<1>4. ChannelsOf(L)' = {}
  BY AppendFacts DEF ChannelsOf
<1> QED
  BY <1>2, <1>3, <1>4

\* Any other row belongs to the last block, if it is a channel.
LEMMA OtherBlocks ==
  ASSUME TypeOK, NEW r \in Rows, rows' = Append(rows, r), ~StartsTransponder(r)
  PROVE  /\ Starts' = Starts
         /\ \A i \in Starts : (\E n \in Starts : i < n) => ChannelsOf(i)' = ChannelsOf(i)
         /\ \A i \in Starts : (\A n \in Starts : n <= i) =>
              ChannelsOf(i)' = IF r.is = "channel" THEN ChannelsOf(i) \cup {Len(rows) + 1}
                               ELSE ChannelsOf(i)
<1>1. Starts' = Starts
  BY AppendFacts DEF Starts
<1>2. ASSUME NEW i \in Starts, NEW n \in Starts, i < n
      PROVE  ChannelsOf(i)' = ChannelsOf(i)
  BY <1>1, <1>2, AppendFacts DEF ChannelsOf, Starts
<1>3. ASSUME NEW i \in Starts, \A n \in Starts : n <= i
      PROVE  ChannelsOf(i)' = IF r.is = "channel" THEN ChannelsOf(i) \cup {Len(rows) + 1}
                              ELSE ChannelsOf(i)
  <2>1. i \in 1..Len(rows)
    BY <1>3, AppendFacts DEF Starts
  <2> QED
    BY <1>1, <1>3, <2>1, AppendFacts DEF ChannelsOf
<1> QED
  BY <1>1, <1>2, <1>3

-----------------------------------------------------------------------------
(* The invariant.                                                          *)

\* Keeping the current transponder, or not, keeps the results in step with the keys seen.
LEMMA FlushFacts ==
  ASSUME TypeOK, ResultsAreSeen, flush
  PROVE  /\ seen' \subseteq Transponders
         /\ results' \in Seq(Transponders)
         /\ ResultsAreSeen'
         /\ seen' = IF Kept THEN seen \cup {current.key} ELSE seen
<1>1. CASE Kept /\ current.key \notin seen
  <2>1. current.key \in Transponders
    BY <1>1 DEF TypeOK, Kept
  <2>2. seen' = seen \cup {current.key} /\ results' = Append(results, current.key)
    BY <1>1 DEF flush
  <2>3. results' \in Seq(Transponders)
    BY <2>1, <2>2 DEF TypeOK
  <2>4. /\ DOMAIN results' = 1..(Len(results) + 1)
        /\ DOMAIN results = 1..Len(results)
        /\ Len(results) \in Nat
        /\ results'[Len(results) + 1] = current.key
        /\ \A n \in 1..Len(results) : results'[n] = results[n]
    BY <2>1, <2>2 DEF TypeOK
  <2>5. seen' = {results'[n] : n \in DOMAIN results'}
    BY <2>2, <2>4 DEF ResultsAreSeen
  <2>6. ASSUME NEW m \in DOMAIN results', NEW n \in DOMAIN results', results'[m] = results'[n]
        PROVE  m = n
    BY <1>1, <2>4, <2>6 DEF ResultsAreSeen
  <2> QED
    BY <1>1, <2>1, <2>2, <2>3, <2>5, <2>6 DEF ResultsAreSeen, TypeOK
<1>2. CASE ~(Kept /\ current.key \notin seen)
  BY <1>2 DEF flush, ResultsAreSeen, TypeOK
<1> QED
  BY <1>1, <1>2

\* The block that ends is worth keeping just if the code keeps it.
LEMMA KeptIsWorth ==
  ASSUME CurrentIsLastStart, TypeOK, NEW i \in Starts, \A n \in Starts : n <= i
  PROVE  current.key = rows[i].key /\ (Kept <=> Worth(i))
<1>1. PICK k \in Starts : /\ \A n \in Starts : n <= k
                          /\ current.key = rows[k].key
                          /\ current.had_channels = (ChannelsOf(k) # {})
                          /\ current.clean = (\E j \in ChannelsOf(k) : IsClean(rows[j]))
  BY DEF CurrentIsLastStart
<1>2. k \in Nat /\ i \in Nat /\ k <= i /\ i <= k
  BY <1>1 DEF Starts, TypeOK
<1>3. k = i
  BY <1>2
<1>4. current.key # NoKey
  BY <1>1 DEF Starts, StartsTransponder
<1> QED
  BY <1>1, <1>3, <1>4 DEF Kept, Worth

\* Without a start nothing is kept; with one there is a last one.
LEMMA LastStart ==
  ASSUME CurrentIsLastStart
  PROVE  /\ Starts = {} => ~Kept
         /\ Starts # {} => \E i \in Starts : \A n \in Starts : n <= i
<1>1. ASSUME Starts = {}
      PROVE  ~Kept
  <2>1. current = NoTransponder
    BY <1>1 DEF CurrentIsLastStart
  <2>2. current.key = NoKey
    BY <2>1 DEF NoTransponder
  <2> QED
    BY <2>2 DEF Kept
<1>2. ASSUME Starts # {}
      PROVE  \E i \in Starts : \A n \in Starts : n <= i
  BY <1>2 DEF CurrentIsLastStart
<1> QED
  BY <1>1, <1>2

\* When the last block ends, the keys seen are those of all starts worth it.
LEMMA CloseLast ==
  ASSUME Inv, pc = "parsing", flush
  PROVE  seen' = {rows[i].key : i \in {n \in Starts : Worth(n)}}
<1> USE DEF Inv
<1>1. seen' = IF Kept THEN seen \cup {current.key} ELSE seen
  BY FlushFacts
<1>2. Closed = {i \in Starts : \E n \in Starts : i < n}
  BY DEF Closed
<1>3. Starts \subseteq Nat
  BY DEF Starts, TypeOK
<1>4. CASE Starts = {}
  BY <1>1, <1>2, <1>4, LastStart DEF SeenIsWorth
<1>5. CASE Starts # {}
  <2>1. PICK i \in Starts : \A n \in Starts : n <= i
    BY <1>5, LastStart
  <2>2. Closed = Starts \ {i}
    <3>1. ASSUME NEW n \in Starts
          PROVE  n \in Nat /\ i \in Nat /\ n <= i
      BY <1>3, <2>1
    <3>2. ASSUME NEW n \in Closed
          PROVE  n \in Starts /\ n # i
      <4>1. n \in Starts /\ \E k \in Starts : n < k
        BY <1>2
      <4> QED
        BY <3>1, <4>1
    <3>3. ASSUME NEW n \in Starts, n # i
          PROVE  n \in Closed
      <4>1. n < i
        BY <3>1, <3>3
      <4> QED
        BY <1>2, <2>1, <4>1
    <3> QED
      BY <2>1, <3>2, <3>3
  <2>3. current.key = rows[i].key /\ (Kept <=> Worth(i))
    BY <2>1, KeptIsWorth
  <2> QED
    BY <1>1, <2>1, <2>2, <2>3 DEF SeenIsWorth
<1> QED
  BY <1>4, <1>5

\* A block that is not added to is worth what it was worth.
LEMMA WorthStable ==
  ASSUME TypeOK, NEW r \in Rows, rows' = Append(rows, r),
         NEW i \in Starts, ChannelsOf(i)' = ChannelsOf(i)
  PROVE  rows'[i].key = rows[i].key /\ (Worth(i)' <=> Worth(i))
<1>1. \A j \in DOMAIN rows : rows'[j] = rows[j]
  BY AppendFacts
<1>2. i \in DOMAIN rows /\ ChannelsOf(i) \subseteq DOMAIN rows
  BY DEF Starts, ChannelsOf
<1> QED
  BY <1>1, <1>2 DEF Worth, IsClean, is_encrypted, is_feed

\* To name the last start is to show the invariant of the current transponder.
LEMMA LastStartIntro ==
  ASSUME NEW i \in Starts', \A n \in Starts' : n <= i,
         current'.key = rows'[i].key,
         current'.had_channels = (ChannelsOf(i)' # {}),
         current'.clean = (\E j \in ChannelsOf(i)' : IsClean(rows'[j]))
  PROVE  CurrentIsLastStart'
<1>1. Starts' # {}
  OBVIOUS
<1>2. CurrentIsLastStart' <=>
        \E k \in Starts' :
          /\ \A n \in Starts' : n <= k
          /\ current'.key = rows'[k].key
          /\ current'.had_channels = (ChannelsOf(k)' # {})
          /\ current'.clean = (\E j \in ChannelsOf(k)' : IsClean(rows'[j]))
  BY <1>1, Zenon DEF CurrentIsLastStart, IsClean, is_encrypted, is_feed
<1> QED
  BY <1>2, Zenon

\* A row that starts nothing closes nothing.
LEMMA OtherKeepsSeen ==
  ASSUME TypeOK, SeenIsWorth, pc = "parsing", pc' = pc, UNCHANGED seen,
         NEW r \in Rows, rows' = Append(rows, r), ~StartsTransponder(r)
  PROVE  SeenIsWorth'
<1>1. Starts' = Starts
  BY OtherBlocks
<1>2. /\ Closed = {i \in Starts : \E n \in Starts : i < n}
      /\ Closed' = {i \in Starts' : \E n \in Starts' : i < n}
  BY DEF Closed
<1>3. Closed' = Closed
  BY <1>1, <1>2
<1>4. ASSUME NEW i \in Closed
      PROVE  rows'[i].key = rows[i].key /\ (Worth(i)' <=> Worth(i))
  <2>1. i \in Starts /\ \E n \in Starts : i < n
    BY <1>2
  <2>2. ChannelsOf(i)' = ChannelsOf(i)
    BY <2>1, OtherBlocks
  <2> QED
    BY <2>1, <2>2, WorthStable
<1> QED
  BY <1>3, <1>4 DEF SeenIsWorth

\* A header keeps the invariant.
LEMMA HeaderKeepsInv ==
  ASSUME Inv, NEW r \in Rows, ReadHeader(r)
  PROVE  Inv'
<1> PICK L : L = Len(rows) + 1
  OBVIOUS
<1> USE DEF Inv
<1>1. pc = "parsing" /\ pc' = pc /\ file' = file /\ rows' = Append(rows, r) /\ flush
      /\ StartsTransponder(r)
      /\ current' = [key |-> r.key, clean |-> FALSE, had_channels |-> FALSE]
  BY DEF ReadHeader, Reads
<1>2. r.key \in Transponders
  BY <1>1, RowFacts
<1>3. TypeOK'
  BY <1>1, <1>2, AppendFacts, FlushFacts DEF TypeOK
<1>4. /\ Starts' = Starts \cup {L}
      /\ \A i \in Starts : ChannelsOf(i)' = ChannelsOf(i)
      /\ ChannelsOf(L)' = {}
  BY <1>1, StartBlocks
<1>5. Starts \subseteq 1..Len(rows) /\ Len(rows) \in Nat
  BY AppendFacts DEF Starts, TypeOK
<1>6. CurrentIsLastStart'
  <2>1. \A n \in Starts' : n <= L
    BY <1>4, <1>5
  <2>2. current'.key = rows'[L].key /\ ~current'.had_channels /\ ~current'.clean
    BY <1>1, AppendFacts
  <2>3. current'.had_channels = (ChannelsOf(L)' # {})
    BY <1>1, <1>4, <2>2
  <2>4. current'.clean = (\E j \in ChannelsOf(L)' : IsClean(rows'[j]))
    BY <1>1, <1>4, <2>2
  <2>5. L \in Starts'
    BY <1>4
  <2> QED
    BY <2>1, <2>2, <2>3, <2>4, <2>5, LastStartIntro
<1>7. SeenIsWorth'
  <2>1. Closed' = {i \in Starts' : \E n \in Starts' : i < n}
    BY <1>1 DEF Closed
  <2>2. Closed' = Starts
    <3>1. Starts \subseteq Nat /\ L \in Nat /\ \A i \in Starts : i < L
      BY <1>5
    <3>2. ASSUME NEW i \in Closed'
          PROVE  i \in Starts
      <4>1. i \in Starts \cup {L} /\ \E n \in Starts \cup {L} : i < n
        BY <1>4, <2>1
      <4>2. i # L
        BY <3>1, <4>1
      <4> QED
        BY <4>1, <4>2
    <3>3. ASSUME NEW i \in Starts
          PROVE  i \in Closed'
      BY <1>4, <2>1, <3>1
    <3> QED
      BY <3>2, <3>3
  <2>3. \A i \in Starts : rows'[i].key = rows[i].key /\ (Worth(i)' <=> Worth(i))
    BY <1>1, <1>4, WorthStable
  <2>4. seen' = {rows[i].key : i \in {n \in Starts : Worth(n)}}
    BY <1>1, CloseLast
  <2> QED
    BY <2>2, <2>3, <2>4 DEF SeenIsWorth
<1>8. ResultsAreSeen' /\ FileIsResults' /\ NothingRead'
  BY <1>1, FlushFacts DEF FileIsResults, NothingRead
<1> QED
  BY <1>3, <1>6, <1>7, <1>8

\* A channel row keeps it: the row is one of the last block's.
LEMMA ChannelKeepsInv ==
  ASSUME Inv, NEW r \in Rows, ReadChannel(r)
  PROVE  Inv'
<1> DEFINE L == Len(rows) + 1
<1> USE DEF Inv
<1>1. pc = "parsing" /\ pc' = pc /\ file' = file /\ rows' = Append(rows, r)
      /\ r.is = "channel" /\ current.key # NoKey /\ UNCHANGED <<seen, results>>
      /\ current' = [current EXCEPT !.had_channels = TRUE, !.clean = @ \/ IsClean(r)]
  BY DEF ReadChannel, Reads
<1>2. ~StartsTransponder(r)
  BY <1>1, RowFacts
<1>3. TypeOK'
  <2>1. IsClean(r) \in BOOLEAN
    BY DEF IsClean
  <2> QED
    BY <1>1, <2>1, AppendFacts DEF TypeOK
<1>4. PICK i \in Starts : /\ \A n \in Starts : n <= i
                          /\ current.key = rows[i].key
                          /\ current.had_channels = (ChannelsOf(i) # {})
                          /\ current.clean = (\E j \in ChannelsOf(i) : IsClean(rows[j]))
  <2>1. Starts # {}
    <3>1. current # NoTransponder
      BY <1>1 DEF NoTransponder
    <3> QED
      BY <3>1 DEF CurrentIsLastStart
  <2> QED
    BY <2>1 DEF CurrentIsLastStart
<1>5. Starts' = Starts /\ ChannelsOf(i)' = ChannelsOf(i) \cup {L}
  BY <1>1, <1>2, <1>4, OtherBlocks
<1>6. /\ rows'[L] = r
      /\ \A j \in DOMAIN rows : rows'[j] = rows[j]
      /\ i \in DOMAIN rows /\ ChannelsOf(i) \subseteq DOMAIN rows
  BY <1>1, AppendFacts DEF Starts, ChannelsOf
<1>7. CurrentIsLastStart'
  <2> HIDE DEF L
  <2>1. current'.key = rows'[i].key
    BY <1>1, <1>4, <1>6 DEF TypeOK
  <2>2. current'.had_channels = (ChannelsOf(i)' # {})
    BY <1>1, <1>5 DEF TypeOK
  <2>3. current'.clean = (\E j \in ChannelsOf(i)' : IsClean(rows'[j]))
    <3>1. current'.clean = (current.clean \/ IsClean(r))
      BY <1>1 DEF TypeOK
    <3>2. (\E j \in ChannelsOf(i)' : IsClean(rows'[j]))
            <=> (\E j \in ChannelsOf(i) : IsClean(rows[j])) \/ IsClean(r)
      BY <1>5, <1>6
    <3> QED
      BY <1>4, <3>1, <3>2 DEF IsClean
  <2> QED
    BY <1>4, <1>5, <2>1, <2>2, <2>3, LastStartIntro
<1>8. SeenIsWorth'
  BY <1>1, <1>2, OtherKeepsSeen
<1>9. ResultsAreSeen' /\ FileIsResults' /\ NothingRead'
  BY <1>1 DEF ResultsAreSeen, FileIsResults, NothingRead
<1> QED
  BY <1>3, <1>7, <1>8, <1>9

\* A row skipped keeps it.
LEMMA SkipKeepsInv ==
  ASSUME Inv, NEW r \in Rows, SkipRow(r)
  PROVE  Inv'
<1> USE DEF Inv
<1>1. pc = "parsing" /\ pc' = pc /\ file' = file /\ rows' = Append(rows, r)
      /\ ~StartsTransponder(r) /\ (current.key = NoKey \/ r.is = "separator")
      /\ UNCHANGED <<current, seen, results>>
  BY DEF SkipRow, Reads
<1>2. TypeOK'
  BY <1>1, AppendFacts DEF TypeOK
<1>3. CurrentIsLastStart'
  <2>1. Starts' = Starts
    BY <1>1, OtherBlocks
  <2>2. CASE Starts = {}
    BY <1>1, <2>1, <2>2 DEF CurrentIsLastStart, NoTransponder
  <2>3. CASE Starts # {}
    <3>1. PICK i \in Starts : /\ \A n \in Starts : n <= i
                              /\ current.key = rows[i].key
                              /\ current.had_channels = (ChannelsOf(i) # {})
                              /\ current.clean = (\E j \in ChannelsOf(i) : IsClean(rows[j]))
      BY <2>3 DEF CurrentIsLastStart
    <3>2. /\ \A j \in DOMAIN rows : rows'[j] = rows[j]
          /\ i \in DOMAIN rows /\ ChannelsOf(i) \subseteq DOMAIN rows
      BY <1>1, AppendFacts DEF Starts, ChannelsOf
    <3>3. current.key # NoKey
      BY <3>1 DEF Starts, StartsTransponder
    <3>4. r.is # "channel"
      BY <1>1, <3>3
    <3>5. ChannelsOf(i)' = ChannelsOf(i)
      BY <1>1, <3>1, <3>4, OtherBlocks
    <3>6. (\E j \in ChannelsOf(i)' : IsClean(rows'[j]))
            <=> (\E j \in ChannelsOf(i) : IsClean(rows[j]))
      BY <3>2, <3>5
    <3> QED
      BY <1>1, <2>1, <3>1, <3>2, <3>5, <3>6, LastStartIntro
  <2> QED
    BY <2>2, <2>3
<1>4. SeenIsWorth'
  BY <1>1, OtherKeepsSeen
<1>5. ResultsAreSeen' /\ FileIsResults' /\ NothingRead'
  BY <1>1 DEF ResultsAreSeen, FileIsResults, NothingRead
<1> QED
  BY <1>2, <1>3, <1>4, <1>5

\* The end of the page keeps it: the last block is closed.
LEMMA EndKeepsInv ==
  ASSUME Inv, EndOfPage
  PROVE  Inv'
<1> USE DEF Inv
<1>1. pc = "parsing" /\ pc' = "parsed" /\ flush /\ UNCHANGED <<rows, current, file>>
  BY DEF EndOfPage
<1>2. TypeOK'
  BY <1>1, FlushFacts DEF TypeOK
<1>3. Starts' = Starts /\ \A i : ChannelsOf(i)' = ChannelsOf(i) /\ (Worth(i)' <=> Worth(i))
  BY <1>1 DEF Starts, ChannelsOf, Worth
<1>4. CurrentIsLastStart'
  BY <1>1 DEF CurrentIsLastStart, Starts, ChannelsOf
<1>5. SeenIsWorth'
  <2>1. Closed' = Starts
    BY <1>1, <1>3 DEF Closed
  <2>2. seen' = {rows[i].key : i \in {n \in Starts : Worth(n)}}
    BY <1>1, CloseLast
  <2> QED
    BY <1>1, <1>3, <2>1, <2>2 DEF SeenIsWorth
<1>6. ResultsAreSeen' /\ FileIsResults' /\ NothingRead'
  BY <1>1, FlushFacts DEF FileIsResults, NothingRead
<1> QED
  BY <1>2, <1>4, <1>5, <1>6

\* The fetch and the writing of the file keep it: they read no row.
LEMMA EndsKeepInv ==
  ASSUME Inv, Fetch \/ Finish
  PROVE  Inv'
<1> USE DEF Inv
<1>1. UNCHANGED <<rows, current, seen, results>>
  BY DEF Fetch, Finish
<1>2. TypeOK' /\ FileIsResults' /\ NothingRead'
  BY DEF Fetch, Finish, TypeOK, FileIsResults, NothingRead
<1>3. CurrentIsLastStart'
  BY <1>1 DEF CurrentIsLastStart, Starts, ChannelsOf
<1>4. Starts' = Starts /\ \A i : Worth(i)' <=> Worth(i)
  BY <1>1 DEF Starts, Worth, ChannelsOf
<1>5. SeenIsWorth'
  <2>1. CASE Fetch
    <3>1. pc = "fetching" /\ pc' \in {"parsing", "failed"} /\ rows = <<>>
      BY <2>1 DEF Fetch, NothingRead
    <3>2. Starts = {}
      BY <3>1 DEF Starts
    <3>3. Closed = {} /\ Closed' = {}
      BY <1>4, <3>2 DEF Closed
    <3> QED
      BY <1>1, <3>3 DEF SeenIsWorth
  <2>2. CASE Finish
    <3>1. Closed' = Closed
      BY <1>4, <2>2 DEF Finish, Closed
    <3> QED
      BY <1>1, <1>4, <3>1 DEF SeenIsWorth
  <2> QED
    BY <2>1, <2>2
<1>6. ResultsAreSeen'
  BY <1>1 DEF ResultsAreSeen
<1> QED
  BY <1>2, <1>3, <1>5, <1>6

\* The invariant holds of every state, for every page.
THEOREM Invariance == Spec => []Inv
<1>1. Init => Inv
  <2> SUFFICES ASSUME Init PROVE Inv
    OBVIOUS
  <2>1. Starts = {}
    BY DEF Init, Starts
  <2>2. Closed = {}
    BY <2>1 DEF Closed
  <2>3. TypeOK /\ NothingRead /\ FileIsResults /\ ResultsAreSeen
    BY DEF Init, TypeOK, NothingRead, FileIsResults, ResultsAreSeen, NoTransponder
  <2> QED
    BY <2>1, <2>2, <2>3 DEF Init, Inv, CurrentIsLastStart, SeenIsWorth
<1>2. Inv /\ [Next]_vars => Inv'
  <2> SUFFICES ASSUME Inv, [Next]_vars PROVE Inv'
    OBVIOUS
  <2>1. CASE Fetch \/ Finish
    BY <2>1, EndsKeepInv
  <2>2. CASE EndOfPage
    BY <2>2, EndKeepsInv
  <2>3. ASSUME NEW r \in Rows, ReadHeader(r) \/ ReadChannel(r) \/ SkipRow(r)
        PROVE  Inv'
    BY <2>3, HeaderKeepsInv, ChannelKeepsInv, SkipKeepsInv
  <2>4. CASE UNCHANGED vars
    <3>1. UNCHANGED <<pc, rows, current, seen, results, file>>
      BY <2>4 DEF vars
    <3>2. TypeOK' /\ NothingRead' /\ FileIsResults' /\ ResultsAreSeen'
      BY <3>1 DEF Inv, TypeOK, NothingRead, FileIsResults, ResultsAreSeen
    <3>3. Starts' = Starts /\ \A i : ChannelsOf(i)' = ChannelsOf(i) /\ (Worth(i)' <=> Worth(i))
      BY <3>1 DEF Starts, ChannelsOf, Worth
    <3>4. CurrentIsLastStart'
      BY <3>1 DEF Inv, CurrentIsLastStart, Starts, ChannelsOf
    <3>5. SeenIsWorth'
      <4>1. Closed' = Closed
        BY <3>1, <3>3 DEF Closed
      <4> QED
        BY <3>1, <3>3, <4>1 DEF Inv, SeenIsWorth
    <3> QED
      BY <3>2, <3>4, <3>5 DEF Inv
  <2> QED
    BY <2>1, <2>2, <2>3, <2>4 DEF Next
<1> QED
  BY <1>1, <1>2, PTL DEF Spec

-----------------------------------------------------------------------------
(* What it gives of the file.                                              *)

\* A file is what the keys kept were when it was written.
LEMMA WrittenFile ==
  ASSUME Inv, pc = "written"
  PROVE  /\ \A k : InFile(k) <=> \E i \in Starts : rows[i].key = k /\ Worth(i)
         /\ \A m, n \in DOMAIN file : file[m] = file[n] => m = n
<1>1. file = results /\ Closed = Starts
  BY DEF Inv, FileIsResults, Closed
<1>2. {file[n] : n \in DOMAIN file} = {rows[i].key : i \in {n \in Starts : Worth(n)}}
  BY <1>1 DEF Inv, SeenIsWorth, ResultsAreSeen
<1>3. ASSUME NEW k
      PROVE  InFile(k) <=> \E i \in Starts : rows[i].key = k /\ Worth(i)
  BY <1>2 DEF InFile
<1> QED
  BY <1>1, <1>3 DEF Inv, ResultsAreSeen

\* On plain rows the whole text and the columns agree.
LEMMA PlainWorth ==
  ASSUME NEW i, PlainStart(i)
  PROVE  Worth(i) <=> WorthByColumns(i)
<1>1. \A j \in ChannelsOf(i) : IsClean(rows[j]) <=> Clear(rows[j])
  BY DEF PlainStart, Plain, IsClean, is_encrypted, is_feed, Clear
<1> QED
  BY <1>1 DEF Worth, WorthByColumns

\* The file lists nothing twice, and of the transponders whose rows are plain those the
\* Encryption and Provider Name columns ask for, on every page.
THEOREM FileIsRight == Spec => []FileFollowsColumns
<1>1. Inv => FileFollowsColumns
  <2> SUFFICES ASSUME Inv, pc = "written" PROVE FileFollowsColumns
    BY DEF FileFollowsColumns
  <2>1. \A m, n \in DOMAIN file : file[m] = file[n] => m = n
    BY WrittenFile
  <2>2. ASSUME NEW k \in Transponders,
               \A i \in Starts : rows[i].key = k => PlainStart(i)
        PROVE  InFile(k) <=> \E i \in Starts : rows[i].key = k /\ WorthByColumns(i)
    <3>1. InFile(k) <=> \E i \in Starts : rows[i].key = k /\ Worth(i)
      BY WrittenFile
    <3>2. \A i \in Starts : rows[i].key = k => (Worth(i) <=> WorthByColumns(i))
      BY <2>2, PlainWorth
    <3> QED
      BY <3>1, <3>2
  <2> QED
    BY <2>1, <2>2 DEF FileFollowsColumns
<1> QED
  BY <1>1, Invariance, PTL

\* No transponder with a channel in the clear is lost.
THEOREM ClearSurvives == Spec => []ClearIsKept
<1>1. Inv => ClearIsKept
  <2> SUFFICES ASSUME Inv, pc = "written", NEW i \in Starts, NEW j \in ChannelsOf(i),
                      rows[j].system = "none", rows[j].provider = "plain"
               PROVE  InFile(rows[i].key)
    BY DEF ClearIsKept
  <2>1. Worth(i)
    BY DEF Worth, IsClean, is_encrypted, is_feed
  <2> QED
    BY <2>1, WrittenFile
<1> QED
  BY <1>1, Invariance, PTL

\* A transponder all of whose channels are locked is dropped, unless a wrapper repeats it.
THEOREM LockedGoes == Spec => []LockedIsDropped
<1>1. Inv => LockedIsDropped
  <2> SUFFICES ASSUME Inv, pc = "written", NEW n \in DOMAIN file
               PROVE  \E i \in Starts :
                        /\ rows[i].key = file[n]
                        /\ \/ rows[i].is = "wrapper"
                           \/ ChannelsOf(i) = {}
                           \/ \E j \in ChannelsOf(i) :
                                rows[j].system # "listed" /\ rows[j].provider # "feed"
    BY DEF LockedIsDropped
  <2>1. PICK i \in Starts : Worth(i) /\ rows[i].key = file[n]
    BY WrittenFile DEF InFile
  <2>2. ASSUME NEW j \in ChannelsOf(i), IsClean(rows[j])
        PROVE  rows[j].system # "listed" /\ rows[j].provider # "feed"
    BY <2>2 DEF IsClean, is_encrypted, is_feed
  <2> QED
    BY <2>1, <2>2 DEF Worth
<1> QED
  BY <1>1, Invariance, PTL

=============================================================================
