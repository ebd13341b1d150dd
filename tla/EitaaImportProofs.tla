-------------------------- MODULE EitaaImportProofs --------------------------
(***************************************************************************)
(* For every channel, chunk size and outcome of the searches: what the     *)
(* import works on, what it asks of Torob, and what its rows hold when it  *)
(* ends, breaks or is interrupted by a restart.                            *)
(***************************************************************************)
EXTENDS EitaaImport, EitaaHistoryProofs

\* What the cache has of a name is what was sent and failed of its searches: a
\* search that runs or had results is the one that did not fail.
CacheInv ==
    /\ requests.sent \in [Queries -> Nat] /\ requests.failed \in [Queries -> Nat]
    /\ DOMAIN requests = {"sent", "failed", "images", "uncounted"}
    /\ cache \in [Queries -> {"none", "asked", "results"}]
    /\ \A q \in Queries :
          requests.sent[q] = requests.failed[q] + (IF cache[q] = "none" THEN 0 ELSE 1)

LEMMA InitCache == Init => CacheInv
  BY DEF Init, CacheInv

LEMMA CacheKept ==
    ASSUME CacheInv, cache' = cache, requests' = requests
    PROVE  CacheInv'
  BY DEF CacheInv

\* A chunk searches for its names that the cache has nothing of.
LEMMA StartsChunkStep == ASSUME CacheInv, NEW got, StartsChunk(got) PROVE CacheInv'
<1>1. /\ cache' = [q \in Queries |-> IF q \in NewQueries THEN "asked" ELSE cache[q]]
      /\ requests' = [requests EXCEPT
            !.sent = [q \in Queries |-> IF q \in NewQueries THEN @[q] + 1 ELSE @[q]],
            !.images = @ + Cardinality(got)]
  BY DEF StartsChunk
<1>2. /\ requests'.sent = [q \in Queries |-> IF q \in NewQueries THEN requests.sent[q] + 1
                                             ELSE requests.sent[q]]
      /\ requests'.failed = requests.failed
      /\ DOMAIN requests' = DOMAIN requests
  BY <1>1 DEF CacheInv
<1>3. \A q \in NewQueries : cache[q] = "none"
  BY DEF NewQueries
<1> HIDE DEF NewQueries
<1>4. \A q \in Queries :
         requests'.sent[q] = requests'.failed[q] + (IF cache'[q] = "none" THEN 0 ELSE 1)
  BY <1>1, <1>2, <1>3 DEF CacheInv
<1> QED
  BY <1>1, <1>2, <1>4 DEF CacheInv

\* A search that failed leaves the cache, so the next row with its name asks again.
LEMMA TextSearchEndsStep ==
    ASSUME CacheInv, NEW q \in Queries, NEW answer \in {"results", "error", "blocked"},
           TextSearchEnds(q, answer)
    PROVE  CacheInv'
<1>1. /\ cache[q] = "asked"
      /\ cache' = [cache EXCEPT ![q] = IF answer = "results" THEN "results" ELSE "none"]
      /\ requests' = [requests EXCEPT !.failed[q] = IF answer = "results" THEN @ ELSE @ + 1]
  BY DEF TextSearchEnds
<1>2. /\ requests'.failed = [requests.failed EXCEPT ![q] = IF answer = "results" THEN @ ELSE @ + 1]
      /\ requests'.sent = requests.sent
      /\ DOMAIN requests' = DOMAIN requests
  BY <1>1 DEF CacheInv
<1>3. ASSUME NEW p \in Queries
      PROVE  requests'.sent[p] = requests'.failed[p] + (IF cache'[p] = "none" THEN 0 ELSE 1)
  <2>1. CASE p = q
    BY <1>1, <1>2, <2>1 DEF CacheInv
  <2>2. CASE p # q
    BY <1>1, <1>2, <2>2 DEF CacheInv
  <2> QED
    BY <2>1, <2>2
<1> QED
  BY <1>1, <1>2, <1>3 DEF CacheInv

LEMMA ImageSearchEndsStep ==
    ASSUME CacheInv, NEW i, NEW answer, ImageSearchEnds(i, answer)
    PROVE  CacheInv'
<1>1. /\ cache' = cache
      /\ requests' = [requests EXCEPT !.uncounted = IF answer = "broken" THEN @ + 1 ELSE @]
  BY DEF ImageSearchEnds
<1>2. /\ requests'.sent = requests.sent /\ requests'.failed = requests.failed
      /\ DOMAIN requests' = DOMAIN requests
  BY <1>1 DEF CacheInv
<1> QED
  BY <1>1, <1>2 DEF CacheInv

LEMMA NextCache == CacheInv /\ [Next]_vars => CacheInv'
<1> SUFFICES ASSUME CacheInv, [Next]_vars PROVE CacheInv'
  OBVIOUS
<1>1. CASE \E got \in SUBSET (1 .. Total) : StartsChunk(got)
  BY <1>1, StartsChunkStep
<1>2. CASE \E q \in Queries, answer \in {"results", "error", "blocked"} : TextSearchEnds(q, answer)
  BY <1>2, TextSearchEndsStep
<1>3. CASE \E i \in 1 .. Total, answer \in {"results", "nothing", "error", "blocked", "broken"} :
              ImageSearchEnds(i, answer)
  BY <1>3, ImageSearchEndsStep
<1>4. CASE \/ Import \/ SellerPostsOrDeletes \/ Crash \/ UNCHANGED vars
           \/ FindsChannel \/ FetchesPage \/ ImportFails \/ ReadsProducts
  BY <1>4, CacheKept
  DEF Import, SellerPostsOrDeletes, Crash, vars, FindsChannel, FetchesPage, ImportFails,
      ReadsProducts, job, chunk
<1>5. CASE \/ GatherEnds \/ RecordsError
           \/ \E outcome \in {"not_found", "matches", "selected"} : RecordsResults(outcome)
           \/ NextChunk \/ Finishes \/ Breaks
  BY <1>5, CacheKept
  DEF GatherEnds, RecordsError, RecordsResults, NextChunk, Finishes, Breaks, job, chunk
<1> QED
  BY <1>1, <1>2, <1>3, <1>4, <1>5 DEF Next, JobStep

-----------------------------------------------------------------------------
(* The inductive invariant. Nothing changes any more when the job is over, *)
(* so most of it is about the phases before.                               *)

Early   == phase \in {"none", "chat", "history"}
Running == phase \in {"prefetch", "search", "record"}

ImageAnswers == {"results", "nothing", "error", "blocked"}

\* What the variables hold.
Types ==
    /\ status \in {"none", "processing", "ready", "failed"}
    /\ phase \in {"none", "chat", "history", "prefetch", "search", "record", "over"}
    /\ drafts \in Seq(Drafts) /\ Total <= MaxProducts
    /\ rows \in Seq(Outcomes) /\ Len(rows) \in {0, Total}
    /\ stored \in Seq(Outcomes) /\ Len(stored) \in {0, Total}
    /\ first \in 1 .. MaxProducts /\ at \in 1 .. MaxProducts + 1
    /\ counts \in [images : Nat, failures : Nat]
    /\ flags \in [noImages : BOOLEAN, stop : BOOLEAN]
    /\ crashes \in 0 .. MaxCrashes
    /\ requests.images \in Nat /\ requests.uncounted \in Nat

NoSearches == text = <<>> /\ image = <<>>

Searches ==
    /\ text \in [Chunk -> {"asked", "results", "error", "blocked"}]
    /\ image \in [Chunk -> ImageAnswers \cup {"none", "asked", "broken"}]

NothingBegun ==
    /\ drafts = <<>> /\ rows = <<>> /\ stored = <<>> /\ first = 1 /\ at = 1
    /\ NoSearches /\ ~flags.stop
    /\ counts.images = 0 /\ counts.failures = 0 /\ requests.images = 0

\* Where in its chunk the job is in each phase.
Position ==
    /\ phase = "none" <=> status = "none"
    /\ phase \notin {"none", "over"} => status = "processing"
    /\ NoSearches \/ Searches
    /\ Early => NothingBegun
    /\ Running => /\ Len(rows) = Total
                  /\ first \in 1 .. Total /\ first <= at /\ at <= ChunkEnd + 1
    /\ phase \in {"prefetch", "search"} => at = first
    /\ phase = "prefetch" => NoSearches
    /\ phase \in {"search", "record"} => Searches
    /\ phase = "record" => \A i \in Chunk : image[i] # "asked"

Shape == Types /\ Position

\* The products are read once, of a history that does not change afterwards.
DraftsInv ==
    /\ HistoryInv
    /\ \A i \in 1 .. Total : \A p \in drafts[i].photos :
          Belongs(ToSet(history.messages), p, drafts[i])

Failing == {"error", "blocked"}

\* The rows before the one to be recorded have an outcome; the failures that are
\* counted are those of the last rows; none of the rows has stopped the job, or
\* the last one just has.
RunRows ==
    /\ \A k \in 1 .. Total : rows[k] = "blank" <=> k >= at
    /\ \A k \in 1 .. Len(stored) : stored[k] \in {"blank", rows[k]}
    /\ \A r \in 1 .. at - 1 : StopsAt(r) => flags.stop /\ r = at - 1
    /\ flags.stop => phase = "record" /\ first < at /\ StopsAt(at - 1)
    /\ ~flags.stop =>
          /\ counts.failures < MaxFailures /\ counts.failures < at
          /\ \A k \in at - counts.failures .. at - 1 : rows[k] \in Failing
          /\ counts.failures < at - 1 => rows[at - 1 - counts.failures] \notin Failing

RowsInv ==
    /\ counts.failures <= MaxFailures
    /\ Running => RunRows
    /\ SparesTorob
    /\ ReadyIsDecided

\* Image searches of the chunk that are counted, or may be, when it is recorded.
Pending == {i \in DOMAIN image : i >= at /\ image[i] \in ImageAnswers \cup {"asked"}}

\* Each image that was sent is counted, is going to be, or broke; and the budget
\* has room for those that are going to be counted.
BudgetInv ==
    /\ ImageBudget
    /\ counts.images <= ImageLimit
    /\ Running => /\ requests.images <= counts.images + Cardinality(Pending) + requests.uncounted
                  /\ counts.images + Cardinality(Pending) <= ImageLimit

Unsaved == {r \in DOMAIN rows : rows[r] # "blank" /\ (r \in DOMAIN stored => stored[r] = "blank")}

\* The rows that a restart would lose were all recorded since the last multiple
\* of CommitEvery.
RunLoss ==
    \E q \in Nat :
        /\ CommitEvery * q < at /\ at <= CommitEvery * q + CommitEvery
        /\ \A r \in Unsaved : r > CommitEvery * q

LossInv == LossIsBounded /\ (Running => RunLoss)

ImportInv == CacheInv /\ Shape /\ DraftsInv /\ RowsInv /\ BudgetInv /\ LossInv

-----------------------------------------------------------------------------
(* Shape.                                                                  *)

LEMMA ConstantTypes ==
    /\ MaxProducts \in Nat \ {0} /\ ChunkSize \in Nat \ {0} /\ CommitEvery \in Nat \ {0}
    /\ MaxFailures \in Nat \ {0} /\ ImageLimit \in Nat /\ MaxCrashes \in Nat
  BY EitaaImportAssumption, EitaaHistoryAssumption

LEMMA ChunkKept ==
    ASSUME UNCHANGED <<drafts, first>>
    PROVE  Chunk' = Chunk /\ ChunkEnd' = ChunkEnd /\ Total' = Total
  BY DEF Chunk, ChunkEnd, Total

\* A chunk ends with its last row or with the last of all.
LEMMA ChunkEndType ==
    ASSUME Types, first \in 1 .. Total
    PROVE  /\ Total \in Nat \ {0} /\ first \in Nat \ {0}
           /\ ChunkEnd \in first .. Total /\ ChunkEnd \in Nat
           /\ Chunk \subseteq 1 .. Total
<1>1. Total \in Nat /\ first \in Nat \ {0} /\ first <= Total
  <2>1. Total \in Nat
    BY DEF Types, Total
  <2> QED
    BY <2>1
<1> DEFINE last == first + ChunkSize - 1
<1>2. last \in Nat /\ first <= last
  BY <1>1, ConstantTypes
<1> HIDE DEF last
<1>3. ChunkEnd \in {last, Total} /\ ChunkEnd <= Total
  <2>1. Min({last, Total}) \in {last, Total} /\ Min({last, Total}) <= Total
    BY <1>1, <1>2, MinOfTwo
  <2> QED
    BY <2>1 DEF ChunkEnd, last
<1> QED
  BY <1>1, <1>2, <1>3 DEF Chunk

LEMMA InitShape == Init => Shape
<1> SUFFICES ASSUME Init PROVE Shape
  OBVIOUS
<1>1. Total = 0 /\ <<>> \in Seq(Drafts) /\ <<>> \in Seq(Outcomes) /\ Len(<<>>) = 0
  BY DEF Init, Total
<1>2. Types
  BY <1>1, ConstantTypes DEF Init, Types
<1>3. Position
  BY <1>1 DEF Init, Position, Early, Running, NothingBegun, NoSearches
<1> QED
  BY <1>2, <1>3 DEF Shape

\* The channel and its history are no part of it.
LEMMA ShapeKept == ASSUME Shape, UNCHANGED <<tables, job, crashes>> PROVE Shape'
<1>1. Chunk' = Chunk /\ ChunkEnd' = ChunkEnd /\ Total' = Total
  BY ChunkKept DEF job, chunk
<1>2. Types'
  BY <1>1 DEF Shape, Types, tables, job, chunk
<1>3. Position'
  BY <1>1 DEF Shape, Position, tables, job, chunk, NoSearches, Searches, NothingBegun, Early, Running
<1> QED
  BY <1>2, <1>3 DEF Shape

\* The job may end in every phase; it leaves the rows as they are or were stored.
LEMMA ShapeOver ==
    ASSUME Shape, UNCHANGED <<drafts, chunk>>, phase' = "over",
           status' \in {"processing", "ready", "failed"},
           rows' \in {rows, stored}, stored' \in {stored, rows}, crashes' \in 0 .. MaxCrashes
    PROVE  Shape'
<1>1. Chunk' = Chunk /\ ChunkEnd' = ChunkEnd /\ Total' = Total
  BY ChunkKept DEF chunk
<1>2. Types'
  BY <1>1 DEF Shape, Types, chunk
<1>3. Position'
  BY <1>1 DEF Shape, Position, chunk, NoSearches, Searches, Early, Running
<1> QED
  BY <1>2, <1>3 DEF Shape

LEMMA BeginsShape == ASSUME Shape, Import \/ FindsChannel PROVE Shape'
<1>1. Chunk' = Chunk /\ ChunkEnd' = ChunkEnd /\ Total' = Total
  BY ChunkKept DEF Import, FindsChannel, job, chunk
<1>2. /\ phase' \in {"chat", "history"} /\ status' \in {status, "processing"}
      /\ Early /\ status' # "none"
      /\ UNCHANGED <<rows, stored, drafts, chunk, crashes>>
  BY DEF Shape, Types, Position, Import, FindsChannel, Early, tables, job, chunk
<1>3. Types'
  BY <1>1, <1>2 DEF Shape, Types, chunk
<1>4. Position'
  BY <1>1, <1>2 DEF Shape, Position, chunk, NoSearches, Searches, NothingBegun, Early, Running
<1> QED
  BY <1>3, <1>4 DEF Shape

LEMMA ReadsProductsShape == ASSUME Shape, HistoryInv, ReadsProducts PROVE Shape'
<1>1. /\ phase = "history" /\ UNCHANGED <<stored, chunk, crashes>>
      /\ drafts' = ExtractProducts(history.messages)
      /\ rows' = [i \in DOMAIN drafts' |-> "blank"]
      /\ status' = IF drafts' = <<>> THEN "failed" ELSE status
      /\ phase' = IF drafts' = <<>> THEN "over" ELSE "prefetch"
  BY DEF ReadsProducts
<1>2. drafts' \in Seq(Drafts) /\ Len(drafts') <= MaxProducts
  <2>1. history.messages \in Seq(1 .. MaxId)
    BY DEF HistoryInv, Histories
  <2> QED
    BY <1>1, <2>1, ExtractedProducts
<1>3. Total' = Len(drafts') /\ Total' \in Nat /\ DOMAIN drafts' = 1 .. Total'
      /\ (drafts' # <<>> => Total' \in Nat \ {0})
  BY <1>2 DEF Total
<1>4. rows' \in Seq(Outcomes) /\ Len(rows') = Total'
  BY <1>1, <1>3 DEF Outcomes
<1>5. NothingBegun /\ status = "processing"
  BY <1>1 DEF Shape, Types, Position, Early
<1>6. Types'
  BY <1>1, <1>2, <1>3, <1>4, <1>5 DEF Shape, Types, chunk, NothingBegun
<1>7. NoSearches'
  BY <1>1, <1>5 DEF NothingBegun, NoSearches, chunk
<1>8. Running' => /\ Len(rows') = Total'
                  /\ first' \in 1 .. Total' /\ first' <= at' /\ at' <= ChunkEnd' + 1 /\ at' = first'
  <2> SUFFICES ASSUME Running' PROVE /\ Len(rows') = Total'
                  /\ first' \in 1 .. Total' /\ first' <= at' /\ at' <= ChunkEnd' + 1 /\ at' = first'
    OBVIOUS
  <2>1. drafts' # <<>> /\ first' = 1 /\ at' = 1
    BY <1>1, <1>5 DEF Running, NothingBegun, chunk
  <2>2. first' \in 1 .. Total'
    BY <1>3, <2>1
  <2>3. 1 <= ChunkEnd' + 1
    <3> DEFINE last == first' + ChunkSize - 1
               end == Min({last, Total'})
    <3>1. last \in Nat
      BY <2>1, ConstantTypes
    <3>2. ChunkEnd' = end
      BY DEF ChunkEnd
    <3>3. end \in {last, Total'}
      <4> HIDE DEF last
      <4> QED
        BY <1>3, <3>1, MinOfTwo
    <3> HIDE DEF last, end
    <3>4. end \in Nat
      BY <1>3, <3>1, <3>3
    <3>5. 1 <= end + 1
      BY <3>4
    <3> QED
      BY <3>2, <3>5
  <2> QED
    BY <1>4, <2>1, <2>2, <2>3
<1>9. Position'
  BY <1>1, <1>5, <1>7, <1>8 DEF Position, Early, Running
<1> QED
  BY <1>6, <1>9 DEF Shape

\* The searches of a chunk leave the rows, and where the job is in the chunk.
LEMMA StartsChunkShape == ASSUME Shape, NEW got, StartsChunk(got) PROVE Shape'
<1>1. /\ phase = "prefetch" /\ phase' = "search" /\ got \subseteq ImageTargets
      /\ image' = [i \in Chunk |-> IF i \in got THEN "asked" ELSE "none"]
      /\ text' = [i \in Chunk |-> IF cache[drafts[i].name] = "results" THEN "results" ELSE "asked"]
      /\ requests' = [requests EXCEPT
            !.sent = [q \in Queries |-> IF q \in NewQueries THEN @[q] + 1 ELSE @[q]],
            !.images = @ + Cardinality(got)]
      /\ UNCHANGED <<tables, drafts, first, at, counts, flags, crashes>>
  BY DEF StartsChunk
<1>2. Chunk' = Chunk /\ ChunkEnd' = ChunkEnd /\ Total' = Total
  BY <1>1, ChunkKept
<1>3. IsFiniteSet(got) /\ Cardinality(got) \in Nat
  <2>1. Chunk \subseteq 1 .. Total /\ Total \in Nat
    BY <1>1, ChunkEndType DEF Shape, Position, Running
  <2>2. got \in SUBSET (1 .. Total)
    BY <1>1, <2>1 DEF ImageTargets
  <2>3. IsFiniteSet(1 .. Total)
    BY <2>1, FS_Interval
  <2> QED
    BY <2>2, <2>3, FS_Subset, FS_CardinalityType
<1>4. requests'.images \in Nat /\ requests'.uncounted \in Nat
  <2> DEFINE sent == [q \in Queries |-> IF q \in NewQueries THEN requests.sent[q] + 1 ELSE requests.sent[q]]
             n == Cardinality(got)
  <2>1. requests' = [requests EXCEPT !.sent = sent, !.images = @ + n]
    BY <1>1
  <2> HIDE DEF sent, n
  <2>2. requests'.images \in {requests.images, requests.images + n}
        /\ requests'.uncounted = requests.uncounted
    BY <2>1
  <2> QED
    BY <1>3, <2>2 DEF Shape, Types, n
<1>5. Types'
  BY <1>1, <1>2, <1>4 DEF Shape, Types, tables
<1>6. Searches'
  BY <1>1, <1>2 DEF Searches
<1>7. Position'
  BY <1>1, <1>2, <1>6 DEF Shape, Position, Early, Running, tables
<1> QED
  BY <1>5, <1>7 DEF Shape

LEMMA TextSearchEndsShape ==
    ASSUME Shape, NEW q \in Queries, NEW answer \in {"results", "error", "blocked"},
           TextSearchEnds(q, answer)
    PROVE  Shape'
<1>1. /\ phase = "search" /\ phase' = phase
      /\ text' = [i \in Chunk |-> IF drafts[i].name = q THEN answer ELSE text[i]]
      /\ requests' = [requests EXCEPT !.failed[q] = IF answer = "results" THEN @ ELSE @ + 1]
      /\ UNCHANGED <<tables, drafts, first, at, image, counts, flags, crashes>>
  BY DEF TextSearchEnds
<1>2. Chunk' = Chunk /\ ChunkEnd' = ChunkEnd /\ Total' = Total
  BY <1>1, ChunkKept
<1>3. requests'.images = requests.images /\ requests'.uncounted = requests.uncounted
  BY <1>1
<1>4. Types'
  BY <1>1, <1>2, <1>3 DEF Shape, Types, tables
<1>5. Searches'
  BY <1>1, <1>2 DEF Shape, Position, Searches
<1>6. Position'
  BY <1>1, <1>2, <1>5 DEF Shape, Position, Early, Running, tables
<1> QED
  BY <1>4, <1>6 DEF Shape

LEMMA ImageSearchEndsShape ==
    ASSUME Shape, NEW i, NEW answer \in ImageAnswers \cup {"broken"}, ImageSearchEnds(i, answer)
    PROVE  Shape'
<1>1. /\ phase = "search" /\ phase' = phase /\ i \in Chunk
      /\ image' = [image EXCEPT ![i] = answer]
      /\ requests' = [requests EXCEPT !.uncounted = IF answer = "broken" THEN @ + 1 ELSE @]
      /\ UNCHANGED <<tables, drafts, first, at, text, counts, flags, crashes>>
  BY DEF ImageSearchEnds
<1>2. Chunk' = Chunk /\ ChunkEnd' = ChunkEnd /\ Total' = Total
  BY <1>1, ChunkKept
<1>3. /\ requests'.images = requests.images
      /\ requests'.uncounted \in {requests.uncounted, requests.uncounted + 1}
  BY <1>1
<1>4. Types'
  BY <1>1, <1>2, <1>3 DEF Shape, Types, tables
<1>5. Searches'
  BY <1>1, <1>2 DEF Shape, Position, Searches
<1>6. Position'
  BY <1>1, <1>2, <1>5 DEF Shape, Position, Early, Running, tables
<1> QED
  BY <1>4, <1>6 DEF Shape

LEMMA GatherEndsShape == ASSUME Shape, GatherEnds PROVE Shape'
<1>1. /\ phase = "search" /\ phase' = "record" /\ at' = first
      /\ \A i \in Chunk : image[i] # "asked"
      /\ UNCHANGED <<tables, drafts, first, text, image, counts, flags, crashes, requests>>
  BY DEF GatherEnds
<1>2. Chunk' = Chunk /\ ChunkEnd' = ChunkEnd /\ Total' = Total /\ at = first
  BY <1>1, ChunkKept DEF Shape, Position
<1>3. Types'
  BY <1>1, <1>2 DEF Shape, Types, tables
<1>4. Searches'
  BY <1>1, <1>2 DEF Shape, Position, Searches
<1>5. Position'
  BY <1>1, <1>2, <1>4 DEF Shape, Position, Early, Running, tables
<1> QED
  BY <1>3, <1>5 DEF Shape

\* A row is recorded as a whole, and the job goes on to the next.
LEMMA RecordsShape ==
    ASSUME Shape, Recording, NEW outcome \in Outcomes, rows' = [rows EXCEPT ![at] = outcome],
           stored' \in {stored, rows'}, at' = at + 1,
           counts' \in [images : Nat, failures : Nat],
           flags' \in [noImages : BOOLEAN, stop : BOOLEAN],
           UNCHANGED <<status, phase, drafts, first, text, image, crashes, requests>>
    PROVE  Shape'
<1>1. Chunk' = Chunk /\ ChunkEnd' = ChunkEnd /\ Total' = Total
  BY ChunkKept
<1>2. /\ phase = "record" /\ at <= ChunkEnd /\ ChunkEnd \in first .. Total /\ ChunkEnd \in Nat
      /\ Total \in Nat /\ at \in Nat /\ first \in Nat /\ first <= at /\ Total <= MaxProducts
      /\ MaxProducts \in Nat /\ 1 <= at
  BY ChunkEndType, ConstantTypes DEF Recording, Shape, Types, Position, Running
<1>3. at + 1 \in 1 .. MaxProducts + 1 /\ first <= at + 1 /\ at + 1 <= ChunkEnd + 1
  BY <1>2
<1>4. rows' \in Seq(Outcomes) /\ Len(rows') = Len(rows)
  <2>1. rows \in Seq(Outcomes) /\ Len(rows) = Total
    BY <1>2 DEF Shape, Types, Position, Running
  <2>2. at \in 1 .. Len(rows)
    BY <1>2, <2>1
  <2> QED
    BY <2>1, <2>2
<1>5. Types'
  BY <1>1, <1>3, <1>4 DEF Shape, Types
<1>6. Position'
  BY <1>1, <1>2, <1>3, <1>4 DEF Shape, Position, Early, Running, Searches
<1> QED
  BY <1>5, <1>6 DEF Shape

LEMMA RecordsErrorShape == ASSUME Shape, RecordsError PROVE Shape'
<1>1. /\ Recording /\ text[at] \in Outcomes
      /\ rows' = [rows EXCEPT ![at] = text[at]] /\ stored' = rows' /\ at' = at + 1
      /\ counts' = [images |-> ImagesNow, failures |-> counts.failures + 1]
      /\ flags' = [noImages |-> NoImages, stop |-> Stops]
      /\ UNCHANGED <<status, phase, drafts, first, text, image, crashes, requests>>
  BY DEF RecordsError, Outcomes, CommitsError
<1>2. ImagesNow \in Nat /\ counts.failures + 1 \in Nat
  BY DEF ImagesNow, Shape, Types
<1>3. NoImages \in BOOLEAN /\ Stops \in BOOLEAN
  BY DEF NoImages, Stops, Shape, Types
<1> QED
  BY <1>1, <1>2, <1>3, RecordsShape

LEMMA RecordsResultsShape ==
    ASSUME Shape, NEW outcome \in {"not_found", "matches", "selected"}, RecordsResults(outcome)
    PROVE  Shape'
<1>1. /\ Recording /\ outcome \in Outcomes
      /\ rows' = [rows EXCEPT ![at] = outcome] /\ stored' \in {stored, rows'} /\ at' = at + 1
      /\ counts' = [images |-> ImagesNow, failures |-> FailuresReset]
      /\ flags' = [flags EXCEPT !.noImages = NoImages]
      /\ UNCHANGED <<status, phase, drafts, first, text, image, crashes, requests>>
  BY DEF RecordsResults, Outcomes
<1>2. ImagesNow \in Nat /\ FailuresReset \in Nat
  BY DEF ImagesNow, FailuresReset, Shape, Types
<1>3. NoImages \in BOOLEAN
  BY DEF NoImages, Shape, Types
<1>4. flags' \in [noImages : BOOLEAN, stop : BOOLEAN]
  BY <1>1, <1>3 DEF Shape, Types
<1> QED
  BY <1>1, <1>2, <1>4, RecordsShape

LEMMA NextChunkShape == ASSUME Shape, NextChunk PROVE Shape'
<1>1. /\ phase = "record" /\ at > ChunkEnd /\ ChunkEnd < Total
      /\ first' = ChunkEnd + 1 /\ phase' = "prefetch" /\ text' = <<>> /\ image' = <<>>
      /\ UNCHANGED <<tables, drafts, at, counts, flags, crashes, requests>>
  BY DEF NextChunk
<1>2. /\ ChunkEnd \in Nat /\ Total \in Nat /\ at \in Nat /\ at <= ChunkEnd + 1
      /\ Total <= MaxProducts /\ MaxProducts \in Nat
  BY <1>1, ChunkEndType, ConstantTypes DEF Shape, Types, Position, Running
<1>3. at = ChunkEnd + 1 /\ ChunkEnd + 1 \in 1 .. Total /\ ChunkEnd + 1 \in 1 .. MaxProducts
  BY <1>1, <1>2
<1>4. Total' = Total
  BY <1>1 DEF Total
<1>5. Types'
  BY <1>1, <1>3, <1>4 DEF Shape, Types, tables
<1>6. NoSearches'
  BY <1>1 DEF NoSearches
<1>7. at' <= ChunkEnd' + 1
  <2> DEFINE last == first' + ChunkSize - 1
             end == Min({last, Total})
  <2>1. last \in Nat /\ first' \in Nat /\ first' <= last /\ first' <= Total
    BY <1>1, <1>2, <1>3, ConstantTypes
  <2>2. ChunkEnd' = end
    BY <1>4 DEF ChunkEnd
  <2>3. end \in {last, Total}
    <3> HIDE DEF last
    <3> QED
      BY <1>2, <2>1, MinOfTwo
  <2> HIDE DEF last, end
  <2>4. end \in Nat /\ first' <= end + 1
    BY <1>2, <2>1, <2>3
  <2> QED
    BY <1>1, <1>3, <2>2, <2>4
<1>8. Position'
  BY <1>1, <1>3, <1>4, <1>6, <1>7 DEF Shape, Position, Early, Running, tables
<1> QED
  BY <1>5, <1>8 DEF Shape

LEMMA NextShape == Shape /\ HistoryInv /\ [Next]_vars => Shape'
<1> SUFFICES ASSUME Shape, HistoryInv, [Next]_vars PROVE Shape'
  OBVIOUS
<1>1. CASE SellerPostsOrDeletes \/ FetchesPage \/ UNCHANGED vars
  BY <1>1, ShapeKept DEF SellerPostsOrDeletes, FetchesPage, vars
<1>2. CASE Import \/ FindsChannel
  BY <1>2, BeginsShape
<1>3. CASE ImportFails \/ Finishes \/ Breaks \/ Crash
  <2>1. /\ status \in {"none", "processing", "ready", "failed"} /\ crashes \in 0 .. MaxCrashes
        /\ status = "none" => phase = "none"
    BY DEF Shape, Types, Position
  <2>2. /\ UNCHANGED <<drafts, chunk>> /\ phase' = "over" /\ phase # "none"
        /\ rows' \in {rows, stored} /\ stored' \in {stored, rows}
    BY <1>3 DEF ImportFails, Finishes, Breaks, Crash
  <2>3. status' \in {status, "ready", "failed"}
    BY <1>3 DEF ImportFails, Finishes, Breaks, Crash
  <2>4. crashes' = crashes \/ (crashes' = crashes + 1 /\ crashes < MaxCrashes)
    BY <1>3 DEF ImportFails, Finishes, Breaks, Crash
  <2>5. crashes' \in 0 .. MaxCrashes
    BY <2>1, <2>4, ConstantTypes
  <2> QED
    BY <2>1, <2>2, <2>3, <2>5, ShapeOver
<1>4. CASE ReadsProducts
  BY <1>4, ReadsProductsShape
<1>5. CASE \E got \in SUBSET (1 .. Total) : StartsChunk(got)
  BY <1>5, StartsChunkShape
<1>6. CASE \E q \in Queries, answer \in {"results", "error", "blocked"} : TextSearchEnds(q, answer)
  BY <1>6, TextSearchEndsShape
<1>7. CASE \E i \in 1 .. Total, answer \in {"results", "nothing", "error", "blocked", "broken"} :
              ImageSearchEnds(i, answer)
  BY <1>7, ImageSearchEndsShape DEF ImageAnswers
<1>8. CASE \E outcome \in {"not_found", "matches", "selected"} : RecordsResults(outcome)
  BY <1>8, RecordsResultsShape
<1>9. CASE GatherEnds \/ RecordsError \/ NextChunk
  BY <1>9, GatherEndsShape, RecordsErrorShape, NextChunkShape
<1> QED
  BY <1>1, <1>2, <1>3, <1>4, <1>5, <1>6, <1>7, <1>8, <1>9 DEF Next, JobStep

-----------------------------------------------------------------------------
(* The history and the products that are read of it.                       *)

LEMMA InitDrafts == Init => DraftsInv
<1> SUFFICES ASSUME Init PROVE DraftsInv
  OBVIOUS
<1>1. PagingBegins
  <2>1. Posted \in Posted .. MaxId /\ 0 \in 0 .. MaxDeletes
    BY EitaaHistoryAssumption
  <2> QED
    BY <2>1 DEF Init, HistoryInit, PagingBegins
<1>2. Total = 0
  BY DEF Init, Total
<1> QED
  BY <1>1, <1>2, FirstPageOK DEF DraftsInv

\* The paging goes on only while there are no products yet.
LEMMA PagingKeepsDrafts ==
    ASSUME Shape, HistoryInv, SellerPostsOrDeletes \/ FindsChannel \/ FetchesPage
    PROVE  DraftsInv'
<1>1. drafts' = <<>>
  BY DEF SellerPostsOrDeletes, FindsChannel, FetchesPage, job, Shape, Position, Early, NothingBegun
<1>2. Total' = 0
  BY <1>1 DEF Total
<1>3. HistoryInv'
  <2>1. CASE SellerPostsOrDeletes
    BY <2>1, SellerKeepsHistory DEF SellerPostsOrDeletes
  <2>2. CASE FetchesPage
    BY <2>2, PageArrivesStep, PageFailsStep DEF FetchesPage
  <2>3. CASE FindsChannel
    <3>1. history' = FirstPage /\ UNCHANGED <<channel, published, deletes>>
      BY <2>3 DEF FindsChannel
    <3>2. FirstPage' = FirstPage
      BY <3>1 DEF FirstPage, NoOffset
    <3>3. FirstPage = [FirstPage EXCEPT !.state = "paging"]
      <4> DEFINE size == Min({PageSize, TotalLimit})
      <4>1. FirstPage = [state |-> "paging", messages |-> <<>>, offset |-> NoOffset,
                         size |-> size, start |-> published]
        BY DEF FirstPage
      <4> HIDE DEF size
      <4> QED
        BY <4>1
    <3>4. PagingBegins'
      BY <3>1, <3>2, <3>3 DEF PagingBegins, HistoryInv, HistoryTypeOK
    <3>5. (PagingBegins => HistoryInv)'
      BY FirstPageOK, PTL
    <3> QED
      BY <3>4, <3>5
  <2> QED
    BY <2>1, <2>2, <2>3
<1> QED
  BY <1>2, <1>3 DEF DraftsInv

LEMMA ReadsProductsDrafts == ASSUME Shape, DraftsInv, ReadsProducts PROVE DraftsInv'
<1>1. drafts' = ExtractProducts(history.messages) /\ UNCHANGED feed
  BY DEF ReadsProducts
<1>2. HistoryInv'
  BY <1>1, HistoryKept DEF feed, DraftsInv
<1>3. history.messages \in Seq(1 .. MaxId)
  BY DEF DraftsInv, HistoryInv, Histories
<1>4. \A i \in 1 .. Len(drafts') : \A p \in drafts'[i].photos :
         Belongs(ToSet(history.messages), p, drafts'[i])
  BY <1>1, <1>3, ExtractedProducts
<1>5. history' = history
  BY <1>1 DEF feed
<1> QED
  BY <1>2, <1>4, <1>5 DEF DraftsInv, Total

LEMMA DraftsKept == ASSUME DraftsInv, UNCHANGED <<feed, drafts>> PROVE DraftsInv'
<1>1. HistoryInv'
  BY HistoryKept DEF feed, DraftsInv
<1>2. history' = history
  BY DEF feed
<1> QED
  BY <1>1, <1>2 DEF DraftsInv, Total

LEMMA NextDrafts == Shape /\ DraftsInv /\ [Next]_vars => DraftsInv'
<1> SUFFICES ASSUME Shape, DraftsInv, [Next]_vars PROVE DraftsInv'
  OBVIOUS
<1>1. CASE SellerPostsOrDeletes \/ FindsChannel \/ FetchesPage
  BY <1>1, PagingKeepsDrafts DEF DraftsInv
<1>2. CASE ReadsProducts
  BY <1>2, ReadsProductsDrafts
<1>3. CASE Import \/ Crash \/ UNCHANGED vars \/ ImportFails \/ Finishes \/ Breaks
  BY <1>3, DraftsKept DEF Import, Crash, vars, ImportFails, Finishes, Breaks, job
<1>4. CASE \/ \E got \in SUBSET (1 .. Total) : StartsChunk(got)
           \/ \E q \in Queries, answer \in {"results", "error", "blocked"} : TextSearchEnds(q, answer)
           \/ \E i \in 1 .. Total, answer \in {"results", "nothing", "error", "blocked", "broken"} :
                 ImageSearchEnds(i, answer)
  BY <1>4, DraftsKept DEF StartsChunk, TextSearchEnds, ImageSearchEnds
<1>5. CASE \/ GatherEnds \/ RecordsError \/ NextChunk
           \/ \E outcome \in {"not_found", "matches", "selected"} : RecordsResults(outcome)
  BY <1>5, DraftsKept DEF GatherEnds, RecordsError, NextChunk, RecordsResults
<1> QED
  BY <1>1, <1>2, <1>3, <1>4, <1>5 DEF Next, JobStep

-----------------------------------------------------------------------------
(* The rows.                                                               *)

\* What Shape says of a running job, for use where rows are recorded.
LEMMA RunningShape ==
    ASSUME Shape, Running
    PROVE  /\ Total \in Nat /\ Len(rows) = Total /\ DOMAIN rows = 1 .. Total
           /\ rows \in Seq(Outcomes) /\ \A k \in 1 .. Total : rows[k] \in Outcomes
           /\ stored \in Seq(Outcomes) /\ Len(stored) \in {0, Total}
           /\ DOMAIN stored = 1 .. Len(stored)
           /\ first \in Nat \ {0} /\ at \in Nat \ {0} /\ first <= at /\ at <= Total + 1
           /\ ChunkEnd \in Nat /\ ChunkEnd <= Total /\ first <= ChunkEnd /\ at <= ChunkEnd + 1
           /\ status = "processing" /\ counts.failures \in Nat
           /\ MaxFailures \in Nat \ {0}
<1>1. /\ Total \in Nat \ {0} /\ first \in Nat \ {0} /\ ChunkEnd \in first .. Total
      /\ ChunkEnd \in Nat /\ first <= at /\ at <= ChunkEnd + 1 /\ Len(rows) = Total
  BY ChunkEndType DEF Shape, Position
<1>2. rows \in Seq(Outcomes) /\ stored \in Seq(Outcomes) /\ at \in Nat \ {0}
      /\ Len(stored) \in {0, Total} /\ counts.failures \in Nat
  BY ConstantTypes DEF Shape, Types
<1>3. DOMAIN rows = 1 .. Total /\ \A k \in 1 .. Total : rows[k] \in Outcomes
  BY <1>1, <1>2
<1>4. DOMAIN stored = 1 .. Len(stored)
  BY <1>2
<1>5. at <= Total + 1 /\ ChunkEnd <= Total /\ first <= ChunkEnd
  BY <1>1, <1>2
<1>6. status = "processing"
  BY DEF Shape, Position, Running
<1> QED
  BY <1>1, <1>2, <1>3, <1>4, <1>5, <1>6, ConstantTypes

\* A row without an outcome does not stop the job.
LEMMA BlankStopsNothing ==
    ASSUME NEW r \in Int, rows[r] = "blank"
    PROVE  ~StopsAt(r)
<1>1. r \in r - MaxFailures + 1 .. r
  BY ConstantTypes
<1> QED
  BY <1>1 DEF StopsAt

LEMMA RunningSpares ==
    Shape /\ Running /\ RunRows => SparesTorob /\ ReadyIsDecided
<1> SUFFICES ASSUME Shape, Running, RunRows PROVE SparesTorob /\ ReadyIsDecided
  OBVIOUS
<1>1. ReadyIsDecided
  BY RunningShape DEF ReadyIsDecided
<1>2. ASSUME NEW r \in DOMAIN rows, StopsAt(r)
      PROVE  first <= r /\ \A k \in r + 1 .. Total : rows[k] = "blank"
  <2>1. r \in 1 .. Total /\ rows[r] # "blank"
    BY <1>2, RunningShape, BlankStopsNothing
  <2>2. r \in 1 .. at - 1
    BY <2>1, RunningShape DEF RunRows
  <2>3. r = at - 1 /\ first < at
    BY <1>2, <2>2 DEF RunRows
  <2>4. first <= r
    BY <2>2, <2>3, RunningShape
  <2>5. ASSUME NEW k \in r + 1 .. Total PROVE rows[k] = "blank"
    <3>1. k \in 1 .. Total /\ k >= at
      BY <2>1, <2>3, RunningShape
    <3> QED
      BY <3>1 DEF RunRows
  <2> QED
    BY <2>4, <2>5
<1> QED
  BY <1>1, <1>2 DEF SparesTorob

LEMMA InitRows == Init => RowsInv
<1> SUFFICES ASSUME Init PROVE RowsInv
  OBVIOUS
<1>1. counts.failures <= MaxFailures
  BY ConstantTypes DEF Init
<1> QED
  BY <1>1 DEF Init, RowsInv, Running, SparesTorob, ReadyIsDecided

\* Before the products are read, and after the end, there is nothing to record.
LEMMA IdleRows ==
    ASSUME RowsInv, UNCHANGED <<rows, stored, drafts, counts, first>>,
           ~Running', status' = status \/ status' # "ready"
    PROVE  RowsInv'
<1>1. \A r : StopsAt(r)' <=> StopsAt(r)
  BY DEF StopsAt
<1>2. Total' = Total
  BY DEF Total
<1>3. SparesTorob'
  BY <1>1, <1>2 DEF RowsInv, SparesTorob
<1>4. ReadyIsDecided'
  BY <1>1, <1>2 DEF RowsInv, ReadyIsDecided
<1> QED
  BY <1>3, <1>4 DEF RowsInv

\* The searches and the turn from one chunk to the next leave the rows alone.
LEMMA SearchesKeepRows ==
    ASSUME Shape, Shape', RowsInv, Running, Running', ~flags.stop,
           UNCHANGED <<rows, stored, drafts, counts, at, flags>>
    PROVE  RowsInv'
<1>1. \A r : StopsAt(r)' <=> StopsAt(r)
  BY DEF StopsAt
<1>2. Total' = Total
  BY DEF Total
<1>3. RunRows'
  BY <1>1, <1>2 DEF RowsInv, RunRows
<1>4. (Shape /\ Running /\ RunRows => SparesTorob /\ ReadyIsDecided)'
  BY RunningSpares, PTL
<1> QED
  BY <1>3, <1>4 DEF RowsInv

LEMMA ReadsProductsRows == ASSUME Shape, Shape', RowsInv, ReadsProducts PROVE RowsInv'
<1>1. /\ phase = "history" /\ UNCHANGED <<stored, chunk>>
      /\ rows' = [i \in DOMAIN drafts' |-> "blank"]
      /\ status' = IF drafts' = <<>> THEN "failed" ELSE status
      /\ phase' = IF drafts' = <<>> THEN "over" ELSE "prefetch"
  BY DEF ReadsProducts
<1>2. NothingBegun
  BY <1>1 DEF Shape, Position, Early
<1>3. /\ stored' = <<>> /\ at' = 1 /\ ~flags'.stop /\ counts'.failures = 0
      /\ MaxFailures \in Nat \ {0}
  BY <1>1, <1>2, ConstantTypes DEF NothingBegun, chunk
<1>4. CASE drafts' = <<>>
  <2>1. DOMAIN rows' = {} /\ phase' = "over" /\ status' = "failed"
    BY <1>1, <1>4
  <2> QED
    BY <1>3, <2>1 DEF RowsInv, Running, SparesTorob, ReadyIsDecided
<1>5. CASE drafts' # <<>>
  <2>1. Total' \in Nat /\ DOMAIN drafts' = 1 .. Total'
    BY DEF Shape, Types, Total
  <2>2. \A k \in 1 .. Total' : rows'[k] = "blank" /\ k >= 1
    BY <1>1, <2>1
  <2>3. RunRows'
    BY <1>3, <2>2 DEF RunRows
  <2>4. Running'
    BY <1>1, <1>5 DEF Running
  <2>5. (Shape /\ Running /\ RunRows => SparesTorob /\ ReadyIsDecided)'
    BY RunningSpares, PTL
  <2> QED
    BY <1>3, <2>3, <2>4, <2>5 DEF RowsInv
<1> QED
  BY <1>4, <1>5

\* What was stored of the rows stops the job nowhere else.
LEMMA BackToStored ==
    ASSUME Shape, RowsInv, phase \notin {"none", "over"}, rows' = stored, stored' = stored,
           UNCHANGED <<drafts, counts, first>>, phase' = "over", status' # "ready"
    PROVE  RowsInv'
<1>1. SparesTorob'
  <2>1. CASE stored = <<>>
    BY <2>1 DEF SparesTorob
  <2>2. CASE stored # <<>>
    <3>1. Running
      BY <2>2 DEF Shape, Types, Position, Early, Running, NothingBegun
    <3>2. DOMAIN stored = 1 .. Total /\ DOMAIN rows = 1 .. Total /\ Len(stored) = Total
          /\ Total \in Nat
      BY <2>2, <3>1, RunningShape
    <3>3. \A k \in 1 .. Total : stored[k] = "blank" \/ stored[k] = rows[k]
      BY <3>1, <3>2 DEF RowsInv, RunRows
    <3>4. Total' = Total
      BY DEF Total
    <3>5. ASSUME NEW r \in 1 .. Total, StopsAt(r)' PROVE StopsAt(r)
      <4>1. CASE stored[r] = "blocked"
        BY <3>3, <4>1 DEF StopsAt
      <4>2. CASE /\ r >= MaxFailures
                 /\ \A k \in r - MaxFailures + 1 .. r : stored[k] \in {"error", "blocked"}
        <5>1. \A k \in r - MaxFailures + 1 .. r : k \in 1 .. Total
          BY <3>2, <4>2, ConstantTypes
        <5>2. \A k \in r - MaxFailures + 1 .. r : rows[k] \in {"error", "blocked"}
          BY <3>3, <4>2, <5>1
        <5> QED
          BY <4>2, <5>2 DEF StopsAt
      <4> QED
        BY <3>5, <4>1, <4>2 DEF StopsAt
    <3>6. ASSUME NEW r \in 1 .. Total, StopsAt(r)'
          PROVE  first <= r /\ \A k \in r + 1 .. Total : stored[k] = "blank"
      <4>1. first <= r /\ \A k \in r + 1 .. Total : rows[k] = "blank"
        BY <3>2, <3>5, <3>6 DEF RowsInv, SparesTorob
      <4>2. \A k \in r + 1 .. Total : k \in 1 .. Total
        BY <3>2
      <4> QED
        BY <3>3, <4>1, <4>2
    <3> QED
      BY <3>2, <3>4, <3>6 DEF SparesTorob
  <2> QED
    BY <2>1, <2>2
<1> QED
  BY <1>1 DEF RowsInv, Running, ReadyIsDecided

\* The seller is sent to the rows when the last is recorded, or behind the one
\* that stopped the job.
LEMMA FinishesRows == ASSUME Shape, RowsInv, Finishes PROVE RowsInv'
<1>1. /\ phase = "record" /\ phase' = "over" /\ (flags.stop \/ at > Total) /\ Running
      /\ stored' = rows /\ UNCHANGED <<rows, drafts, chunk>>
  BY DEF Finishes, Running
<1>2. \A r : StopsAt(r)' <=> StopsAt(r)
  BY <1>1 DEF StopsAt
<1>3. Total' = Total
  BY <1>1 DEF Total
<1>4. SparesTorob'
  BY <1>1, <1>2, <1>3 DEF RowsInv, SparesTorob, chunk
<1>5. ASSUME NEW r \in 1 .. Total, rows[r] = "blank"
      PROVE  \E k \in 1 .. r - 1 : StopsAt(k)
  <2>1. r >= at
    BY <1>1, <1>5 DEF RowsInv, RunRows
  <2>2. flags.stop
    BY <1>1, <2>1, RunningShape
  <2>3. first < at /\ StopsAt(at - 1)
    BY <1>1, <2>2 DEF RowsInv, RunRows
  <2>4. at - 1 \in 1 .. r - 1
    BY <1>1, <2>1, <2>3, RunningShape
  <2> QED
    BY <2>3, <2>4
<1>6. ReadyIsDecided'
  BY <1>1, <1>2, <1>3, <1>5 DEF ReadyIsDecided
<1> QED
  BY <1>1, <1>4, <1>6 DEF RowsInv, Running, chunk

\* Recording a row changes nothing about the rows before it.
LEMMA RecordedBefore ==
    ASSUME Shape, RowsInv, Recording, NEW outcome, rows' = [rows EXCEPT ![at] = outcome]
    PROVE  /\ at \in 1 .. Total /\ Running /\ RunRows /\ ~flags.stop
           /\ rows'[at] = outcome /\ \A k \in 1 .. Total : k # at => rows'[k] = rows[k]
           /\ \A r \in 1 .. at - 1 : ~StopsAt(r)'
<1>1. Running /\ ~flags.stop /\ at <= ChunkEnd
  BY DEF Recording, Running
<1>2. at \in 1 .. Total /\ at \in Nat /\ Total \in Nat
  BY <1>1, RunningShape
<1>3. rows'[at] = outcome /\ \A k \in 1 .. Total : k # at => rows'[k] = rows[k]
  BY <1>1, <1>2, RunningShape
<1>4. ASSUME NEW r \in 1 .. at - 1, StopsAt(r)' PROVE FALSE
  <2>1. ~StopsAt(r)
    BY <1>1 DEF RowsInv, RunRows
  <2>2. \A k \in 1 .. r : rows'[k] = rows[k]
    BY <1>2, <1>3
  <2>3. r \in 1 .. r /\ r \in Nat
    BY <1>2
  <2>4. r >= MaxFailures => \A k \in r - MaxFailures + 1 .. r : k \in 1 .. r
    BY <2>3, ConstantTypes
  <2> QED
    BY <1>4, <2>1, <2>2, <2>3, <2>4 DEF StopsAt
<1> QED
  BY <1>1, <1>2, <1>3, <1>4 DEF RowsInv

\* A search that failed: the job stops exactly behind a row that stops it.
LEMMA RecordsErrorRows == ASSUME Shape, Shape', RowsInv, RecordsError PROVE RowsInv'
<1> DEFINE F == counts.failures
<1>1. /\ Recording /\ text[at] \in Failing
      /\ rows' = [rows EXCEPT ![at] = text[at]] /\ stored' = rows' /\ at' = at + 1
      /\ counts'.failures = F + 1 /\ flags'.stop = Stops
      /\ UNCHANGED <<status, phase, drafts, first>>
  BY DEF RecordsError, CommitsError, Failing
<1>2. /\ at \in 1 .. Total /\ Running /\ RunRows /\ ~flags.stop
      /\ rows'[at] = text[at] /\ \A k \in 1 .. Total : k # at => rows'[k] = rows[k]
      /\ \A r \in 1 .. at - 1 : ~StopsAt(r)'
  BY <1>1, RecordedBefore
<1>3. /\ Total \in Nat /\ at \in Nat \ {0} /\ first \in Nat /\ first <= at
      /\ F \in Nat /\ MaxFailures \in Nat \ {0}
  BY <1>2, RunningShape
<1>4. /\ F < MaxFailures /\ F < at
      /\ \A k \in at - F .. at - 1 : rows[k] \in Failing
      /\ F < at - 1 => rows[at - 1 - F] \notin Failing
  BY <1>2 DEF RunRows
<1>5. Total' = Total /\ Running'
  BY <1>1, <1>2 DEF Total, Running
<1>5a. PICK n \in Nat : n = at
  BY <1>3
<1> HIDE DEF F
<1>6. \A k \in at - F .. at : rows'[k] \in Failing
  <2> TAKE k \in at - F .. at
  <2>1. CASE k = at
    BY <1>1, <1>2, <2>1
  <2>2. CASE k # at
    <3>1. k \in at - F .. at - 1 /\ k \in 1 .. Total
      BY <1>2, <1>3, <1>4, <2>2
    <3> QED
      BY <1>2, <1>4, <2>2, <3>1
  <2> QED
    BY <2>1, <2>2
<1>7. F < at - 1 => rows'[at - 1 - F] \notin Failing
  <2> SUFFICES ASSUME F < at - 1 PROVE rows'[at - 1 - F] \notin Failing
    OBVIOUS
  <2>1. at - 1 - F \in 1 .. Total /\ at - 1 - F # at
    BY <1>2, <1>3
  <2> QED
    BY <1>2, <1>4, <2>1
<1>8. Stops => StopsAt(n)'
  <2>1. CASE text[at] = "blocked"
    BY <1>2, <1>5a, <2>1 DEF StopsAt
  <2>2. CASE F + 1 >= MaxFailures
    <3>1. F + 1 = MaxFailures
      BY <1>3, <1>4, <2>2
    <3>2. at >= MaxFailures /\ at - MaxFailures + 1 = at - F
      BY <1>3, <1>4, <3>1
    <3> QED
      BY <1>5a, <1>6, <3>2 DEF StopsAt, Failing
  <2> QED
    BY <2>1, <2>2 DEF Stops, F
<1>9. StopsAt(n)' => Stops
  <2> SUFFICES ASSUME StopsAt(n)', ~Stops PROVE FALSE
    OBVIOUS
  <2>1. text[at] # "blocked" /\ ~(F + 1 >= MaxFailures)
    BY DEF Stops, F
  <2>2. at >= MaxFailures /\ \A k \in at - MaxFailures + 1 .. at : rows'[k] \in Failing
    BY <1>2, <1>5a, <2>1 DEF StopsAt, Failing
  <2>3. F < at - 1 /\ at - 1 - F \in at - MaxFailures + 1 .. at
    BY <1>3, <2>1, <2>2
  <2> QED
    BY <1>7, <2>2, <2>3
<1>10. RunRows'
  <2>1. \A k \in 1 .. Total : rows'[k] = "blank" <=> k >= at'
    <3> TAKE k \in 1 .. Total
    <3>1. CASE k = at
      BY <1>1, <1>2, <1>3, <3>1 DEF Failing
    <3>2. CASE k # at
      BY <1>1, <1>2, <1>3, <3>2 DEF RunRows
    <3> QED
      BY <3>1, <3>2
  <2>2. \A r \in 1 .. at' - 1 : StopsAt(r)' => flags'.stop /\ r = at' - 1
    <3> TAKE r \in 1 .. at' - 1
    <3>1. CASE r = at
      BY <1>1, <1>3, <1>5a, <1>9, <3>1
    <3>2. CASE r # at
      <4>1. r \in 1 .. at - 1
        BY <1>1, <1>3, <3>2
      <4> QED
        BY <1>2, <4>1
    <3> QED
      BY <3>1, <3>2
  <2>3. flags'.stop => phase' = "record" /\ first' < at' /\ StopsAt(at - 1)'
    <3>1. phase' = "record" /\ first' < at' /\ at' - 1 = n
      BY <1>1, <1>3, <1>5a DEF Recording
    <3>2. StopsAt(n)' => StopsAt(at - 1)'
      BY <3>1 DEF StopsAt
    <3> QED
      BY <1>1, <1>8, <3>1, <3>2
  <2>4. ~flags'.stop =>
          /\ F + 1 < MaxFailures /\ F + 1 < at'
          /\ \A k \in at' - (F + 1) .. at' - 1 : rows'[k] \in Failing
          /\ F + 1 < at' - 1 => rows'[at' - 1 - (F + 1)] \notin Failing
    <3>1. /\ at' - (F + 1) = at - F /\ at' - 1 = at /\ F + 1 < at' /\ at' - 1 - (F + 1) = at - 1 - F
          /\ F + 1 < at' - 1 => F < at - 1
      BY <1>1, <1>3, <1>4
    <3>2. ~flags'.stop => F + 1 < MaxFailures
      <4>1. F + 1 >= MaxFailures => Stops
        BY DEF Stops, F
      <4>2. ~(F + 1 >= MaxFailures) => F + 1 < MaxFailures
        BY <1>3
      <4> QED
        BY <1>1, <4>1, <4>2
    <3> QED
      BY <1>6, <1>7, <3>1, <3>2
  <2>5. \A k \in 1 .. Len(stored') : stored'[k] \in {"blank", rows'[k]}
    BY <1>1
  <2> QED
    BY <1>1, <1>5, <2>1, <2>2, <2>3, <2>4, <2>5 DEF RunRows
<1>11. (Shape /\ Running /\ RunRows => SparesTorob /\ ReadyIsDecided)'
  BY RunningSpares, PTL
<1>12. counts'.failures <= MaxFailures
  BY <1>1, <1>3, <1>4
<1> QED
  BY <1>5, <1>10, <1>11, <1>12 DEF RowsInv

\* A result ends the failures before it.
LEMMA RecordsResultsRows ==
    ASSUME Shape, Shape', RowsInv, NEW outcome \in {"not_found", "matches", "selected"},
           RecordsResults(outcome)
    PROVE  RowsInv'
<1>1. /\ Recording
      /\ rows' = [rows EXCEPT ![at] = outcome] /\ stored' \in {stored, rows'} /\ at' = at + 1
      /\ counts'.failures = 0
      /\ UNCHANGED <<status, phase, drafts, first>>
  BY DEF RecordsResults, FailuresReset
<1>2. /\ at \in 1 .. Total /\ Running /\ RunRows /\ ~flags.stop
      /\ rows'[at] = outcome /\ \A k \in 1 .. Total : k # at => rows'[k] = rows[k]
      /\ \A r \in 1 .. at - 1 : ~StopsAt(r)'
  BY <1>1, RecordedBefore
<1>2a. ~flags'.stop
  <2>1. flags' = [flags EXCEPT !.noImages = NoImages] /\ flags \in [noImages : BOOLEAN, stop : BOOLEAN]
    BY DEF RecordsResults, Shape, Types
  <2> QED
    BY <1>2, <2>1
<1>3. /\ Total \in Nat /\ at \in Nat \ {0} /\ first \in Nat /\ first <= at
      /\ MaxFailures \in Nat \ {0} /\ Len(stored) \in {0, Total}
  BY <1>2, RunningShape
<1>4. Total' = Total /\ Running'
  BY <1>1, <1>2 DEF Total, Running
<1>4a. PICK n \in Nat : n = at
  BY <1>3
<1>5. ~StopsAt(n)'
  <2>1. at \in at - MaxFailures + 1 .. at /\ rows'[at] \notin {"error", "blocked"}
    BY <1>2, <1>3
  <2> QED
    BY <1>4a, <2>1 DEF StopsAt
<1>6. RunRows'
  <2>1. \A k \in 1 .. Total : rows'[k] = "blank" <=> k >= at'
    <3> TAKE k \in 1 .. Total
    <3>1. CASE k = at
      BY <1>1, <1>2, <1>3, <3>1
    <3>2. CASE k # at
      BY <1>1, <1>2, <1>3, <3>2 DEF RunRows
    <3> QED
      BY <3>1, <3>2
  <2>2. \A r \in 1 .. at' - 1 : ~StopsAt(r)'
    <3> TAKE r \in 1 .. at' - 1
    <3>1. CASE r = at
      BY <1>4a, <1>5, <3>1
    <3>2. CASE r # at
      <4>1. r \in 1 .. at - 1
        BY <1>1, <1>3, <3>2
      <4> QED
        BY <1>2, <4>1
    <3> QED
      BY <3>1, <3>2
  <2>3. /\ 0 < MaxFailures /\ 0 < at'
        /\ \A k \in at' - 0 .. at' - 1 : rows'[k] \in Failing
        /\ 0 < at' - 1 => rows'[at' - 1 - 0] \notin Failing
    <3>1. at' - 1 - 0 = at /\ at' - 0 .. at' - 1 = {} /\ 0 < at'
      BY <1>1, <1>3
    <3> QED
      BY <1>2, <1>3, <3>1 DEF Failing
  <2>4. \A k \in 1 .. Len(stored') : stored'[k] \in {"blank", rows'[k]}
    <3>1. CASE stored' = rows'
      BY <3>1
    <3>2. CASE stored' = stored
      <4> SUFFICES ASSUME NEW k \in 1 .. Len(stored) PROVE stored[k] \in {"blank", rows'[k]}
        BY <3>2
      <4>1. k \in 1 .. Total /\ stored[k] \in {"blank", rows[k]}
        BY <1>2, <1>3 DEF RunRows
      <4>2. rows[at] = "blank"
        BY <1>2, <1>3 DEF RunRows
      <4> QED
        BY <1>2, <4>1, <4>2
    <3> QED
      BY <1>1, <3>1, <3>2
  <2> QED
    BY <1>1, <1>2a, <1>4, <2>1, <2>2, <2>3, <2>4 DEF RunRows
<1>7. (Shape /\ Running /\ RunRows => SparesTorob /\ ReadyIsDecided)'
  BY RunningSpares, PTL
<1>8. counts'.failures <= MaxFailures
  BY <1>1, <1>3
<1> QED
  BY <1>4, <1>6, <1>7, <1>8 DEF RowsInv

LEMMA NextRows == Shape /\ Shape' /\ RowsInv /\ [Next]_vars => RowsInv'
<1> SUFFICES ASSUME Shape, Shape', RowsInv, [Next]_vars PROVE RowsInv'
  OBVIOUS
<1>1. CASE UNCHANGED vars
  <2>1. UNCHANGED <<tables, phase, drafts, first, at, counts, flags>>
    BY <1>1 DEF vars, job, chunk
  <2> QED
    BY <2>1 DEF RowsInv, Running, RunRows, SparesTorob, ReadyIsDecided, StopsAt, Total, tables
<1>2. CASE SellerPostsOrDeletes \/ FetchesPage \/ Import \/ FindsChannel \/ ImportFails
  <2>1. /\ UNCHANGED <<rows, stored, drafts, counts, first>> /\ ~Running'
        /\ status' = status \/ status' # "ready"
    BY <1>2 DEF SellerPostsOrDeletes, FetchesPage, Import, FindsChannel, ImportFails, tables, job, chunk,
                Running
  <2> QED
    BY <2>1, IdleRows
<1>3. CASE Breaks \/ Crash
  <2>1. /\ phase \notin {"none", "over"} /\ phase' = "over" /\ status' \in {status, "failed"}
        /\ rows' = stored /\ stored' = stored /\ UNCHANGED <<drafts, counts, first>>
    BY <1>3 DEF Breaks, Crash, chunk
  <2>2. status' # "ready"
    BY <2>1 DEF Shape, Position
  <2> QED
    BY <2>1, <2>2, BackToStored
<1>4. CASE \/ \E got \in SUBSET (1 .. Total) : StartsChunk(got)
           \/ \E q \in Queries, answer \in {"results", "error", "blocked"} : TextSearchEnds(q, answer)
           \/ \E i \in 1 .. Total, answer \in {"results", "nothing", "error", "blocked", "broken"} :
                 ImageSearchEnds(i, answer)
  <2>1. /\ phase \in {"prefetch", "search"} /\ phase' = "search"
        /\ UNCHANGED <<rows, stored, drafts, counts, at, flags>>
    BY <1>4 DEF StartsChunk, TextSearchEnds, ImageSearchEnds, tables
  <2>2. Running /\ Running'
    BY <2>1 DEF Running
  <2>3. ~flags.stop
    BY <2>1, <2>2 DEF RowsInv, RunRows
  <2> QED
    BY <2>1, <2>2, <2>3, SearchesKeepRows
<1>5. CASE GatherEnds \/ NextChunk
  <2>1. /\ phase \in {"search", "record"} /\ phase' \in {"record", "prefetch"}
        /\ UNCHANGED <<rows, stored, drafts, counts, flags>>
    BY <1>5 DEF GatherEnds, NextChunk, tables
  <2>2. Running /\ Running'
    BY <2>1 DEF Running
  <2>3. at' = at /\ ~flags.stop
    BY <1>5, <2>2 DEF GatherEnds, NextChunk, Shape, Position, RowsInv, RunRows
  <2> QED
    BY <2>1, <2>2, <2>3, SearchesKeepRows
<1>6. CASE ReadsProducts \/ Finishes \/ RecordsError
  BY <1>6, ReadsProductsRows, FinishesRows, RecordsErrorRows
<1>7. CASE \E outcome \in {"not_found", "matches", "selected"} : RecordsResults(outcome)
  BY <1>7, RecordsResultsRows
<1> QED
  BY <1>1, <1>2, <1>3, <1>4, <1>5, <1>6, <1>7 DEF Next, JobStep

-----------------------------------------------------------------------------
(* The budget of image searches.                                           *)

LEMMA InitBudget == Init => BudgetInv
<1> SUFFICES ASSUME Init PROVE BudgetInv
  OBVIOUS
<1>1. counts.images = 0 /\ requests.images = 0 /\ requests.uncounted = 0 /\ ~Running
  BY DEF Init, Running
<1> QED
  BY <1>1, ConstantTypes DEF BudgetInv, ImageBudget

\* What the steps are reasoned about with: numbers, and the searches of the chunk.
LEMMA BudgetShape ==
    ASSUME Shape, BudgetInv, Running
    PROVE  /\ counts.images \in Nat /\ requests.images \in Nat /\ requests.uncounted \in Nat
           /\ ImageLimit \in Nat
           /\ IsFiniteSet(Chunk) /\ Chunk \in SUBSET Nat /\ \A i \in Chunk : i >= first /\ i <= ChunkEnd
           /\ IsFiniteSet(Pending) /\ Cardinality(Pending) \in Nat
           /\ requests.images <= counts.images + Cardinality(Pending) + requests.uncounted
           /\ counts.images + Cardinality(Pending) <= ImageLimit
<1>1. first \in Nat /\ ChunkEnd \in Nat
  BY RunningShape
<1>2. IsFiniteSet(Chunk) /\ Chunk \in SUBSET Nat /\ \A i \in Chunk : i >= first /\ i <= ChunkEnd
  BY <1>1, FS_Interval DEF Chunk
<1>3. Pending \in SUBSET Chunk
  BY DEF Pending, Shape, Position, NoSearches, Searches
<1>4. IsFiniteSet(Pending) /\ Cardinality(Pending) \in Nat
  BY <1>2, <1>3, FS_Subset, FS_CardinalityType
<1> QED
  BY <1>2, <1>4, ConstantTypes DEF Shape, Types, BudgetInv

\* A running job that keeps to the budget has sent no more images than the limit.
LEMMA BudgetKept ==
    ASSUME Shape, BudgetInv,
           UNCHANGED <<counts, image, at, requests>> \/ (~Running' /\ UNCHANGED <<counts, requests>>),
           Running' => Running
    PROVE  BudgetInv'
  BY DEF BudgetInv, ImageBudget, Pending, Running

\* Step: what is sent, counted and pending fits together again.
LEMMA BudgetStep ==
    ASSUME NEW images \in Nat, NEW pending \in Nat, NEW sent \in Nat, NEW uncounted \in Nat,
           counts'.images = images, requests'.images = sent, requests'.uncounted = uncounted,
           Cardinality(Pending)' = pending,
           sent <= images + pending + uncounted, images + pending <= ImageLimit
    PROVE  BudgetInv'
  BY ConstantTypes DEF BudgetInv, ImageBudget

LEMMA ReadsProductsBudget == ASSUME Shape, Shape', BudgetInv, ReadsProducts PROVE BudgetInv'
<1>1. NothingBegun /\ UNCHANGED chunk
  BY DEF ReadsProducts, Shape, Position, Early
<1>2. /\ counts'.images = 0 /\ requests'.images = 0 /\ image' = <<>>
      /\ requests'.uncounted \in Nat
  BY <1>1 DEF NothingBegun, NoSearches, chunk, Shape, Types
<1>3. Cardinality(Pending)' = 0
  BY <1>2, FS_EmptySet DEF Pending
<1> QED
  BY <1>2, <1>3, ConstantTypes DEF BudgetInv, ImageBudget

\* No more images are sent for a chunk than the budget has left.
LEMMA StartsChunkBudget == ASSUME CacheInv, Shape, BudgetInv, NEW got, StartsChunk(got) PROVE BudgetInv'
<1>1. /\ phase = "prefetch" /\ Running /\ got \subseteq ImageTargets
      /\ image' = [i \in Chunk |-> IF i \in got THEN "asked" ELSE "none"]
      /\ requests' = [requests EXCEPT
            !.sent = [q \in Queries |-> IF q \in NewQueries THEN @[q] + 1 ELSE @[q]],
            !.images = @ + Cardinality(got)]
      /\ UNCHANGED <<at, counts>>
  BY DEF StartsChunk, Running
<1>2. /\ counts.images \in Nat /\ requests.images \in Nat /\ requests.uncounted \in Nat
      /\ ImageLimit \in Nat
      /\ IsFiniteSet(Chunk) /\ Chunk \in SUBSET Nat /\ \A i \in Chunk : i >= first /\ i <= ChunkEnd
      /\ requests.images <= counts.images + Cardinality(Pending) + requests.uncounted
      /\ counts.images + Cardinality(Pending) <= ImageLimit
  BY <1>1, BudgetShape
<1>3. Cardinality(Pending) = 0 /\ at = first
  <2>1. image = <<>> /\ at = first
    BY <1>1 DEF Shape, Position, NoSearches
  <2>2. Pending = {}
    BY <2>1 DEF Pending
  <2> QED
    BY <2>1, <2>2, FS_EmptySet
<1>4. got \subseteq Chunk /\ IsFiniteSet(got) /\ Cardinality(got) \in Nat
      /\ counts.images + Cardinality(got) <= ImageLimit
  <2> DEFINE some == Chunk \cap HasPhoto
             few == {i \in some : Cardinality({k \in some : k < i}) < Remaining}
  <2>1. Remaining \in Nat /\ counts.images + Remaining <= ImageLimit
    BY <1>2, <1>3 DEF Remaining
  <2>2. some \in SUBSET Nat /\ \A i \in some : i <= ChunkEnd
    BY <1>2
  <2>3. IsFiniteSet(some) /\ ChunkEnd \in Nat
    <3>1. some \in SUBSET Chunk
      OBVIOUS
    <3> QED
      BY <1>1, <1>2, <3>1, FS_Subset, RunningShape
  <2>4. IsFiniteSet(few) /\ Cardinality(few) <= Remaining
    <3> HIDE DEF some
    <3> QED
      BY <2>1, <2>2, <2>3, FewSmaller
  <2>5. got \in SUBSET few
    BY <1>1 DEF ImageTargets
  <2>6. few \subseteq Chunk
    OBVIOUS
  <2> HIDE DEF few
  <2>7. IsFiniteSet(got) /\ Cardinality(got) <= Cardinality(few)
        /\ Cardinality(got) \in Nat /\ Cardinality(few) \in Nat
    BY <2>4, <2>5, FS_Subset, FS_CardinalityType
  <2> QED
    BY <1>2, <2>1, <2>4, <2>5, <2>6, <2>7
<1>5. Pending' = got
  <2>1. \A i \in Chunk : image'[i] \in ImageAnswers \cup {"asked"} <=> i \in got
    BY <1>1 DEF ImageAnswers
  <2>2. DOMAIN image' = Chunk
    BY <1>1
  <2>3. \A i \in Chunk : i >= at'
    BY <1>1, <1>2, <1>3
  <2> QED
    BY <1>4, <2>1, <2>2, <2>3 DEF Pending
<1>6. /\ requests'.images = requests.images + Cardinality(got)
      /\ requests'.uncounted = requests.uncounted
  <2> DEFINE sent == [q \in Queries |-> IF q \in NewQueries THEN requests.sent[q] + 1 ELSE requests.sent[q]]
             n == Cardinality(got)
  <2>1. requests' = [requests EXCEPT !.sent = sent, !.images = @ + n]
    BY <1>1
  <2>2. DOMAIN requests = {"sent", "failed", "images", "uncounted"}
    BY DEF CacheInv
  <2> HIDE DEF sent, n
  <2>3. requests'.images = requests.images + n
    BY <2>1, <2>2
  <2>4. requests'.uncounted = requests.uncounted
    BY <2>1, <2>2
  <2> QED
    BY <2>3, <2>4 DEF n
<1> QED
  BY <1>1, <1>2, <1>3, <1>4, <1>5, <1>6, BudgetStep

\* An image search ends with something to count, or breaks.
LEMMA ImageSearchEndsBudget ==
    ASSUME CacheInv, Shape, BudgetInv, NEW i, NEW answer \in ImageAnswers \cup {"broken"},
           ImageSearchEnds(i, answer)
    PROVE  BudgetInv'
<1>1. /\ phase = "search" /\ Running /\ i \in Chunk /\ image[i] = "asked"
      /\ image' = [image EXCEPT ![i] = answer]
      /\ requests' = [requests EXCEPT !.uncounted = IF answer = "broken" THEN @ + 1 ELSE @]
      /\ UNCHANGED <<at, counts>>
  BY DEF ImageSearchEnds, Running
<1>2. /\ counts.images \in Nat /\ requests.images \in Nat /\ requests.uncounted \in Nat
      /\ ImageLimit \in Nat /\ \A k \in Chunk : k >= first /\ k <= ChunkEnd
      /\ IsFiniteSet(Pending) /\ Cardinality(Pending) \in Nat
      /\ requests.images <= counts.images + Cardinality(Pending) + requests.uncounted
      /\ counts.images + Cardinality(Pending) <= ImageLimit
  BY <1>1, BudgetShape
<1>3. DOMAIN image = Chunk /\ image' = [k \in Chunk |-> IF k = i THEN answer ELSE image[k]] /\ at = first
  BY <1>1 DEF Shape, Position, Searches
<1>4. i \in Pending
  BY <1>1, <1>2, <1>3 DEF Pending
<1>5. requests'.images = requests.images
      /\ requests'.uncounted = IF answer = "broken" THEN requests.uncounted + 1 ELSE requests.uncounted
  BY <1>1 DEF CacheInv
<1>6. CASE answer \in ImageAnswers
  <2>1. Pending' = Pending
    BY <1>1, <1>3, <1>4, <1>6 DEF Pending
  <2>2. answer # "broken"
    BY <1>6 DEF ImageAnswers
  <2> QED
    BY <1>1, <1>2, <1>5, <2>1, <2>2, BudgetStep
<1>7. CASE answer = "broken"
  <2>1. Pending' = Pending \ {i}
    BY <1>1, <1>3, <1>7 DEF Pending, ImageAnswers
  <2>2. Cardinality(Pending \ {i}) = Cardinality(Pending) - 1 /\ Cardinality(Pending \ {i}) \in Nat
    BY <1>2, <1>4, FS_RemoveElement, FS_Subset, FS_CardinalityType
  <2> DEFINE pending == Cardinality(Pending \ {i})
             uncounted == requests.uncounted + 1
  <2>3. Cardinality(Pending)' = pending /\ requests'.uncounted = uncounted
    BY <1>5, <1>7, <2>1
  <2>4. /\ pending \in Nat /\ uncounted \in Nat
        /\ requests.images <= counts.images + pending + uncounted
        /\ counts.images + pending <= ImageLimit
    BY <1>2, <2>2
  <2> HIDE DEF pending, uncounted
  <2> QED
    BY <1>1, <1>2, <1>5, <2>3, <2>4, BudgetStep
<1> QED
  BY <1>6, <1>7

\* A row that is recorded is no longer pending, but counted if it was.
LEMMA RecordsBudget ==
    ASSUME Shape, BudgetInv, Recording, at' = at + 1, counts'.images = ImagesNow,
           UNCHANGED <<image, requests>>
    PROVE  BudgetInv'
<1>1. Running /\ phase = "record" /\ at <= ChunkEnd
  BY DEF Recording, Running
<1>2. /\ counts.images \in Nat /\ requests.images \in Nat /\ requests.uncounted \in Nat
      /\ ImageLimit \in Nat /\ \A k \in Chunk : k \in Nat
      /\ IsFiniteSet(Pending) /\ Cardinality(Pending) \in Nat
      /\ requests.images <= counts.images + Cardinality(Pending) + requests.uncounted
      /\ counts.images + Cardinality(Pending) <= ImageLimit
  BY <1>1, BudgetShape
<1>3. /\ at \in Chunk /\ DOMAIN image = Chunk /\ image[at] # "asked" /\ at \in Nat
  BY <1>1, RunningShape DEF Chunk, Shape, Position, Searches
<1>4. at \in Pending <=> Counted
  BY <1>3 DEF Pending, Counted, ImageAnswers
<1>5. Pending' = Pending \ {at}
  <2>1. \A k \in Chunk : k >= at' <=> k >= at /\ k # at
    BY <1>2, <1>3
  <2>2. Pending' = {k \in Chunk : k >= at' /\ image[k] \in ImageAnswers \cup {"asked"}}
    BY <1>3 DEF Pending
  <2>3. Pending = {k \in Chunk : k >= at /\ image[k] \in ImageAnswers \cup {"asked"}}
    BY <1>3 DEF Pending
  <2> QED
    BY <2>1, <2>2, <2>3
<1>6. CASE Counted
  <2>1. Cardinality(Pending \ {at}) = Cardinality(Pending) - 1 /\ Cardinality(Pending \ {at}) \in Nat
    BY <1>2, <1>4, <1>6, FS_RemoveElement, FS_Subset, FS_CardinalityType
  <2> DEFINE pending == Cardinality(Pending \ {at})
             images == counts.images + 1
  <2>2. Cardinality(Pending)' = pending /\ counts'.images = images
    BY <1>5, <1>6 DEF ImagesNow
  <2>3. /\ pending \in Nat /\ images \in Nat
        /\ requests.images <= images + pending + requests.uncounted
        /\ images + pending <= ImageLimit
    BY <1>2, <2>1
  <2> HIDE DEF pending, images
  <2> QED
    BY <1>2, <2>2, <2>3, BudgetStep
<1>7. CASE ~Counted
  <2>1. Pending' = Pending /\ counts'.images = counts.images
    BY <1>4, <1>5, <1>7 DEF ImagesNow
  <2> QED
    BY <1>2, <2>1, BudgetStep
<1> QED
  BY <1>6, <1>7

LEMMA NextChunkBudget == ASSUME Shape, BudgetInv, NextChunk PROVE BudgetInv'
<1>1. /\ phase = "record" /\ Running /\ at > ChunkEnd /\ image' = <<>>
      /\ UNCHANGED <<counts, requests>>
  BY DEF NextChunk, Running
<1>2. /\ counts.images \in Nat /\ requests.images \in Nat /\ requests.uncounted \in Nat
      /\ ImageLimit \in Nat /\ \A k \in Chunk : k \in Nat /\ k <= ChunkEnd
      /\ requests.images <= counts.images + Cardinality(Pending) + requests.uncounted
      /\ counts.images + Cardinality(Pending) <= ImageLimit
  BY <1>1, BudgetShape
<1>3. DOMAIN image = Chunk /\ at \in Nat /\ ChunkEnd \in Nat
  BY <1>1, RunningShape DEF Shape, Position, Searches
<1>4. Pending = {} /\ Pending' = {}
  BY <1>1, <1>2, <1>3 DEF Pending
<1>5. Cardinality(Pending) = 0 /\ Cardinality(Pending)' = 0
  BY <1>4, FS_EmptySet
<1> QED
  BY <1>1, <1>2, <1>5, BudgetStep

LEMMA NextBudget == CacheInv /\ Shape /\ Shape' /\ BudgetInv /\ [Next]_vars => BudgetInv'
<1> SUFFICES ASSUME CacheInv, Shape, Shape', BudgetInv, [Next]_vars PROVE BudgetInv'
  OBVIOUS
<1>1. CASE \/ SellerPostsOrDeletes \/ FetchesPage \/ Import \/ FindsChannel \/ ImportFails
           \/ Breaks \/ Crash \/ Finishes \/ UNCHANGED vars
  <2>1. UNCHANGED <<counts, image, at, requests>> /\ (Running' => Running)
    BY <1>1 DEF SellerPostsOrDeletes, FetchesPage, Import, FindsChannel, ImportFails, Breaks, Crash,
                Finishes, vars, job, chunk, Running
  <2> QED
    BY <2>1, BudgetKept
<1>2. CASE ReadsProducts
  BY <1>2, ReadsProductsBudget
<1>3. CASE \E got \in SUBSET (1 .. Total) : StartsChunk(got)
  BY <1>3, StartsChunkBudget
<1>4. ASSUME NEW q \in Queries, NEW answer \in {"results", "error", "blocked"}, TextSearchEnds(q, answer)
      PROVE  BudgetInv'
  <2>1. /\ requests'.images = requests.images /\ requests'.uncounted = requests.uncounted
        /\ UNCHANGED <<counts, image, at>> /\ Running /\ Running'
    BY <1>4 DEF TextSearchEnds, CacheInv, Running
  <2> QED
    BY <2>1 DEF BudgetInv, ImageBudget, Pending
<1>5. CASE \E i \in 1 .. Total, answer \in {"results", "nothing", "error", "blocked", "broken"} :
              ImageSearchEnds(i, answer)
  BY <1>5, ImageSearchEndsBudget DEF ImageAnswers
<1>6. CASE GatherEnds
  <2>1. UNCHANGED <<counts, image, at, requests>> /\ Running
    BY <1>6 DEF GatherEnds, Running, Shape, Position
  <2> QED
    BY <2>1, BudgetKept
<1>7. CASE RecordsError \/ \E outcome \in {"not_found", "matches", "selected"} : RecordsResults(outcome)
  <2>1. /\ Recording /\ at' = at + 1 /\ counts'.images = ImagesNow
        /\ UNCHANGED <<image, requests>>
    BY <1>7 DEF RecordsError, RecordsResults
  <2> QED
    BY <2>1, RecordsBudget
<1>8. CASE NextChunk
  BY <1>8, NextChunkBudget
<1> QED
  BY <1>1, <1>2, <1>3, <1>4, <1>5, <1>6, <1>7, <1>8 DEF Next, JobStep

-----------------------------------------------------------------------------
(* The rows that a restart would lose.                                     *)

LEMMA NothingUnsaved == Unsaved = {} => LossIsBounded
<1> SUFFICES ASSUME Unsaved = {} PROVE LossIsBounded
  OBVIOUS
<1>1. Cardinality(Unsaved) < CommitEvery
  BY FS_EmptySet, ConstantTypes
<1> QED
  BY <1>1 DEF Unsaved, LossIsBounded

\* They are rows behind a multiple of CommitEvery, and less than CommitEvery.
LEMMA RunLossIsBounded == Shape /\ Running /\ RunRows /\ RunLoss => LossIsBounded
<1> SUFFICES ASSUME Shape, Running, RunRows, RunLoss PROVE LossIsBounded
  OBVIOUS
<1>1. PICK q \in Nat : /\ CommitEvery * q < at /\ at <= CommitEvery * q + CommitEvery
                       /\ \A r \in Unsaved : r > CommitEvery * q
  BY DEF RunLoss
<1> DEFINE saved == CommitEvery * q
<1>2. saved \in Nat /\ at \in Nat /\ CommitEvery \in Nat /\ saved < at /\ at <= saved + CommitEvery
  BY <1>1, RunningShape, ConstantTypes
<1>3. ASSUME NEW r \in Unsaved PROVE r \in saved + 1 .. at - 1
  <2>1. r \in 1 .. Total /\ rows[r] # "blank" /\ r > saved /\ Total \in Nat
    BY <1>1, RunningShape DEF Unsaved
  <2>2. ~(r >= at)
    BY <2>1 DEF RunRows
  <2> HIDE DEF saved
  <2> QED
    BY <1>2, <2>1, <2>2
<1> HIDE DEF saved
<1>4. IsFiniteSet(saved + 1 .. at - 1) /\ Cardinality(saved + 1 .. at - 1) <= at - 1 - saved
  <2>1. saved + 1 \in Int /\ at - 1 \in Int
    BY <1>2
  <2>2. IsFiniteSet(saved + 1 .. at - 1)
        /\ Cardinality(saved + 1 .. at - 1)
              = IF saved + 1 > at - 1 THEN 0 ELSE at - 1 - (saved + 1) + 1
    BY <2>1, FS_Interval
  <2> QED
    BY <1>2, <2>2
<1>5. Unsaved \in SUBSET (saved + 1 .. at - 1)
  BY <1>3
<1>6. Cardinality(Unsaved) <= Cardinality(saved + 1 .. at - 1) /\ Cardinality(Unsaved) \in Nat
      /\ Cardinality(saved + 1 .. at - 1) \in Nat
  BY <1>4, <1>5, FS_Subset, FS_CardinalityType
<1>7. Cardinality(Unsaved) < CommitEvery
  BY <1>2, <1>4, <1>6
<1> QED
  BY <1>7 DEF Unsaved, LossIsBounded

LEMMA InitLoss == Init => LossInv
<1> SUFFICES ASSUME Init PROVE LossInv
  OBVIOUS
<1>1. Unsaved = {} /\ ~Running
  BY DEF Init, Unsaved, Running
<1> QED
  BY <1>1, NothingUnsaved DEF LossInv

LEMMA LossKept ==
    ASSUME LossInv, UNCHANGED <<rows, stored>>, at' = at \/ ~Running', Running' => Running
    PROVE  LossInv'
<1>1. LossIsBounded'
  BY DEF LossInv, LossIsBounded
<1>2. Unsaved' = Unsaved
  BY DEF Unsaved
<1>3. Running' => RunLoss'
  BY <1>2 DEF LossInv, RunLoss
<1> QED
  BY <1>1, <1>3 DEF LossInv

\* After a commit nothing is unsaved.
LEMMA SavedLosesNothing ==
    ASSUME stored' = rows', NEW next \in Nat \ {0}, at' = next
    PROVE  LossInv'
<1>1. Unsaved' = {}
  BY DEF Unsaved
<1>2. LossIsBounded'
  <2>1. (Unsaved = {} => LossIsBounded)'
    BY NothingUnsaved, PTL
  <2> QED
    BY <1>1, <2>1
<1>3. RunLoss'
  <2> DEFINE n == next - 1
             q == n \div CommitEvery
  <2>1. n \in Nat /\ next = n + 1 /\ CommitEvery \in Nat \ {0}
    <3>1. n \in Nat /\ next = n + 1
      OBVIOUS
    <3> QED
      BY <3>1, ConstantTypes
  <2> HIDE DEF n
  <2>2. q \in Nat /\ n = CommitEvery * q + (n % CommitEvery) /\ n % CommitEvery \in 0 .. CommitEvery - 1
    BY <2>1
  <2> DEFINE saved == CommitEvery * q
  <2>3. saved \in Nat
    BY <2>1, <2>2
  <2>4. saved < next /\ next <= saved + CommitEvery
    <3> HIDE DEF saved
    <3>1. n = saved + (n % CommitEvery)
      BY <2>2 DEF saved
    <3> QED
      BY <2>1, <2>2, <2>3, <3>1
  <2> HIDE DEF q
  <2>5. CommitEvery * q < at' /\ at' <= CommitEvery * q + CommitEvery
    BY <2>4
  <2> QED
    BY <1>1, <2>2, <2>5 DEF RunLoss
<1> QED
  BY <1>2, <1>3 DEF LossInv

LEMMA ReadsProductsLoss == ASSUME Shape, Shape', LossInv, ReadsProducts PROVE LossInv'
<1>1. /\ rows' = [i \in DOMAIN drafts' |-> "blank"] /\ UNCHANGED chunk /\ NothingBegun
  BY DEF ReadsProducts, Shape, Position, Early
<1>2. Unsaved' = {} /\ at' = 1
  BY <1>1 DEF Unsaved, NothingBegun, chunk
<1>3. LossIsBounded'
  <2>1. (Unsaved = {} => LossIsBounded)'
    BY NothingUnsaved, PTL
  <2> QED
    BY <1>2, <2>1
<1>4. RunLoss'
  <2>1. CommitEvery * 0 < 1 /\ 1 <= CommitEvery * 0 + CommitEvery
    BY ConstantTypes
  <2> QED
    BY <1>2, <2>1 DEF RunLoss
<1> QED
  BY <1>3, <1>4 DEF LossInv

LEMMA MultipleHasNoRest == ASSUME NEW c \in Nat \ {0}, NEW q \in Nat PROVE (c * q + c) % c = 0
<1>1. c * q + c = c * (q + 1) /\ q + 1 \in Nat
  OBVIOUS
<1>2. \A n \in Nat : (c * n) % c = 0
  OBVIOUS
<1> QED
  BY <1>1, <1>2

\* A result is committed with the rows before it, or adds one to the unsaved rows
\* without reaching the next multiple of CommitEvery.
LEMMA RecordsResultsLoss ==
    ASSUME Shape, Shape', RowsInv, RowsInv', LossInv,
           NEW outcome \in {"not_found", "matches", "selected"}, RecordsResults(outcome)
    PROVE  LossInv'
<1>1. /\ Recording /\ Running /\ Running'
      /\ rows' = [rows EXCEPT ![at] = outcome] /\ at' = at + 1
      /\ stored' = IF at % CommitEvery = 0 THEN rows' ELSE stored
  BY DEF RecordsResults, Recording, Running
<1>2. at \in Nat \ {0} /\ CommitEvery \in Nat \ {0}
  BY <1>1, RunningShape, ConstantTypes
<1>3. CASE at % CommitEvery = 0
  BY <1>1, <1>2, <1>3, SavedLosesNothing
<1>4. CASE at % CommitEvery # 0
  <2>1. PICK q \in Nat : /\ CommitEvery * q < at /\ at <= CommitEvery * q + CommitEvery
                         /\ \A r \in Unsaved : r > CommitEvery * q
    BY <1>1 DEF LossInv, RunLoss
  <2>2. at # CommitEvery * q + CommitEvery
    BY <1>2, <1>4, MultipleHasNoRest
  <2>3. CommitEvery * q < at' /\ at' <= CommitEvery * q + CommitEvery
    <3> DEFINE saved == CommitEvery * q
    <3>1. saved \in Nat /\ saved < at /\ at <= saved + CommitEvery /\ at # saved + CommitEvery
      BY <1>2, <2>1, <2>2
    <3> HIDE DEF saved
    <3>2. saved < at' /\ at' <= saved + CommitEvery
      BY <1>1, <1>2, <3>1
    <3> QED
      BY <3>2 DEF saved
  <2>4. stored' = stored /\ DOMAIN rows' = DOMAIN rows
        /\ \A r \in DOMAIN rows : r # at => rows'[r] = rows[r]
    BY <1>1, <1>4
  <2>5. Unsaved' \subseteq Unsaved \cup {at}
    BY <2>4 DEF Unsaved
  <2>6. RunLoss'
    BY <2>1, <2>3, <2>5 DEF RunLoss
  <2>7. (Shape /\ Running /\ RunRows /\ RunLoss => LossIsBounded)'
    BY RunLossIsBounded, PTL
  <2> QED
    BY <1>1, <2>6, <2>7 DEF LossInv, RowsInv
<1> QED
  BY <1>3, <1>4

LEMMA NextLoss ==
    Shape /\ Shape' /\ RowsInv /\ RowsInv' /\ LossInv /\ [Next]_vars => LossInv'
<1> SUFFICES ASSUME Shape, Shape', RowsInv, RowsInv', LossInv, [Next]_vars PROVE LossInv'
  OBVIOUS
<1>1. CASE SellerPostsOrDeletes \/ FetchesPage \/ Import \/ FindsChannel \/ ImportFails \/ UNCHANGED vars
  <2>1. UNCHANGED <<rows, stored, at>> /\ (Running' => Running)
    BY <1>1 DEF SellerPostsOrDeletes, FetchesPage, Import, FindsChannel, ImportFails, vars, tables, job,
                chunk, Running
  <2> QED
    BY <2>1, LossKept
<1>2. CASE \/ \E got \in SUBSET (1 .. Total) : StartsChunk(got)
           \/ \E q \in Queries, answer \in {"results", "error", "blocked"} : TextSearchEnds(q, answer)
           \/ \E i \in 1 .. Total, answer \in {"results", "nothing", "error", "blocked", "broken"} :
                 ImageSearchEnds(i, answer)
  <2>1. UNCHANGED <<rows, stored, at>> /\ Running
    BY <1>2 DEF StartsChunk, TextSearchEnds, ImageSearchEnds, tables, Running
  <2> QED
    BY <2>1, LossKept
<1>3. CASE GatherEnds \/ NextChunk
  <2>1. UNCHANGED <<rows, stored, at>> /\ Running
    BY <1>3 DEF GatherEnds, NextChunk, tables, Running, Shape, Position
  <2> QED
    BY <2>1, LossKept
<1>4. CASE Breaks \/ Crash \/ Finishes \/ RecordsError
  <2>1. at' \in Nat \ {0}
    BY ConstantTypes DEF Shape, Types
  <2>2. stored' = rows'
    BY <1>4 DEF Breaks, Crash, Finishes, RecordsError, CommitsError
  <2> QED
    BY <2>1, <2>2, SavedLosesNothing
<1>5. CASE ReadsProducts
  BY <1>5, ReadsProductsLoss
<1>6. CASE \E outcome \in {"not_found", "matches", "selected"} : RecordsResults(outcome)
  BY <1>6, RecordsResultsLoss
<1> QED
  BY <1>1, <1>2, <1>3, <1>4, <1>5, <1>6 DEF Next, JobStep

-----------------------------------------------------------------------------
(* The invariant as a whole, and what follows from it.                     *)

LEMMA InvImpliesTypeOK == ImportInv => TypeOK
<1> SUFFICES ASSUME ImportInv PROVE TypeOK
  OBVIOUS
<1>1. HistoryTypeOK
  BY DEF ImportInv, DraftsInv, HistoryInv
<1>2. /\ rows \in Seq(Outcomes) /\ Len(rows) \in {0, Total}
      /\ stored \in Seq(Outcomes) /\ Len(stored) \in {0, Total}
  BY DEF ImportInv, Shape, Types
<1>3. rows \in [1 .. Len(rows) -> Outcomes] /\ stored \in [1 .. Len(stored) -> Outcomes]
  BY <1>2
<1>4. /\ DOMAIN text \in {{}, Chunk} /\ DOMAIN image = DOMAIN text
      /\ \A i \in DOMAIN text : text[i] \in {"asked", "results", "error", "blocked"}
  <2>1. CASE NoSearches
    BY <2>1 DEF NoSearches
  <2>2. CASE Searches
    BY <2>2 DEF Searches
  <2> QED
    BY <2>1, <2>2 DEF ImportInv, Shape, Position
<1>5. counts.images \in 0 .. ImageLimit + requests.uncounted
  BY ConstantTypes DEF ImportInv, Shape, Types, BudgetInv
<1>6. counts.failures \in 0 .. MaxFailures
  BY ConstantTypes DEF ImportInv, Shape, Types, RowsInv
<1>7. cache \in [Queries -> {"none", "asked", "results"}]
  BY DEF ImportInv, CacheInv
<1>8. /\ status \in {"none", "processing", "ready", "failed"} /\ Total <= MaxProducts
      /\ phase \in {"none", "chat", "history", "prefetch", "search", "record", "over"}
      /\ first \in 1 .. MaxProducts /\ at \in 1 .. MaxProducts + 1
      /\ flags \in [noImages : BOOLEAN, stop : BOOLEAN] /\ crashes \in 0 .. MaxCrashes
  BY DEF ImportInv, Shape, Types
<1> QED
  BY <1>1, <1>2, <1>3, <1>4, <1>5, <1>6, <1>7, <1>8 DEF TypeOK

LEMMA InvImpliesPhotosBelong == ImportInv => PhotosBelong
<1> SUFFICES ASSUME ImportInv, NEW d \in ToSet(drafts), NEW m \in d.photos, m # d.message
             PROVE  /\ m < d.message /\ d.message - m <= Near
                    /\ \A k \in ToSet(history.messages) : m <= k /\ k < d.message => ~Content[k].text
  BY DEF PhotosBelong
<1>1. PICK i \in 1 .. Total : d = drafts[i]
  <2>1. DOMAIN drafts = 1 .. Total
    BY DEF ImportInv, Shape, Types, Total
  <2> QED
    BY <2>1 DEF ToSet
<1>2. Belongs(ToSet(history.messages), m, d)
  BY <1>1 DEF ImportInv, DraftsInv
<1> QED
  BY <1>2 DEF Belongs

\* Each part is kept with the help of those before it.
THEOREM SpecInv == Spec => []ImportInv
<1>1. Init => ImportInv
  BY InitCache, InitShape, InitDrafts, InitRows, InitBudget, InitLoss DEF ImportInv
<1>2. ImportInv /\ [Next]_vars => ImportInv'
  <2> SUFFICES ASSUME ImportInv, [Next]_vars PROVE ImportInv'
    OBVIOUS
  <2>1. CacheInv'
    BY NextCache DEF ImportInv
  <2>2. Shape'
    BY NextShape DEF ImportInv, DraftsInv
  <2>3. DraftsInv'
    BY NextDrafts DEF ImportInv
  <2>4. RowsInv'
    BY <2>2, NextRows DEF ImportInv
  <2>5. BudgetInv'
    BY <2>2, NextBudget DEF ImportInv
  <2>6. LossInv'
    BY <2>2, <2>4, NextLoss DEF ImportInv
  <2> QED
    BY <2>1, <2>2, <2>3, <2>4, <2>5, <2>6 DEF ImportInv
<1> QED
  BY <1>1, <1>2, PTL DEF Spec

\* The tables hold what their columns allow, the job stays within its chunk and
\* the counters within their limits.
THEOREM SpecTypeOK == Spec => []TypeOK
  BY SpecInv, InvImpliesTypeOK, PTL

\* get_chat_history_paginated: an import works on the newest messages, none of
\* them twice, whatever the seller posts and deletes while the pages are fetched.
THEOREM SpecHistoryIsNewest == Spec => []HistoryIsNewest
<1>1. ImportInv => HistoryIsNewest
  BY DEF ImportInv, DraftsInv, HistoryInv
<1> QED
  BY <1>1, SpecInv, PTL

\* extract_products: a photo is shown for the product that it was posted with.
THEOREM SpecPhotosBelong == Spec => []PhotosBelong
  BY SpecInv, InvImpliesPhotosBelong, PTL

\* eitaa_image_match_limit: the chunks together send no more images than allowed,
\* apart from those whose search broke without an answer.
THEOREM SpecImageBudget == Spec => []ImageBudget
<1>1. ImportInv => ImageBudget
  BY DEF ImportInv, BudgetInv
<1> QED
  BY <1>1, SpecInv, PTL

\* Behind a row that Torob turned away, or the last of MaxFailures failing ones,
\* nothing is recorded and no later chunk is searched for.
THEOREM SpecSparesTorob == Spec => []SparesTorob
<1>1. ImportInv => SparesTorob
  BY DEF ImportInv, RowsInv
<1> QED
  BY <1>1, SpecInv, PTL

\* A submission that is ready has an outcome in every row, apart from the rows
\* behind one that stopped the job.
THEOREM SpecReadyIsDecided == Spec => []ReadyIsDecided
<1>1. ImportInv => ReadyIsDecided
  BY DEF ImportInv, RowsInv
<1> QED
  BY <1>1, SpecInv, PTL

\* EITAA_DB_COMMIT_EVERY: a restart or an exception costs less than so many rows.
THEOREM SpecLossIsBounded == Spec => []LossIsBounded
<1>1. ImportInv => LossIsBounded
  BY DEF ImportInv, LossInv
<1> QED
  BY <1>1, SpecInv, PTL

\* text_search_cache: rows with the same name share a search, and what they are
\* given is the result of one that did not fail.
THEOREM SpecSearchesAreShared == Spec => []SearchesAreShared
<1>1. Init => CacheInv
  BY InitCache
<1>2. CacheInv /\ [Next]_vars => CacheInv'
  BY NextCache
<1>3. CacheInv => SearchesAreShared
  BY DEF CacheInv, SearchesAreShared
<1> QED
  BY <1>1, <1>2, <1>3, PTL DEF Spec
=============================================================================
