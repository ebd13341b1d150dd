----------------------------- MODULE EitaaImport -----------------------------
(***************************************************************************)
(* POST /eitaa/import and the job that it starts: fetch the history of the *)
(* channel, read products from it, and look for each on Torob, by its name *)
(* and by its photo. The rows of a chunk are searched concurrently; rows   *)
(* with the same name share one search; when all have ended, the outcomes  *)
(* are recorded row by row, and committed now and then.                    *)
(*                                                                         *)
(* All rows of a chunk look up the search cache before the first search    *)
(* starts, and its lock is never waited for, so a shared search ends for   *)
(* all its rows in one step.                                               *)
(***************************************************************************)
EXTENDS EitaaHistory

CONSTANTS
    ChunkSize,      \* eitaa_concurrency
    ImageLimit,     \* eitaa_image_match_limit
    MaxFailures,    \* 3: failing rows in a row after which the job stops
    CommitEvery,    \* EITAA_DB_COMMIT_EVERY
    MaxCrashes      \* bound of the model: restarts of the process

ASSUME EitaaImportAssumption ==
    /\ {ImageLimit, MaxCrashes} \subseteq Nat
    /\ {ChunkSize, MaxFailures, CommitEvery} \subseteq Nat \ {0}

VARIABLES
    status,         \* submission.status, "none" before the import
    drafts,         \* the products read from the channel
    rows,           \* what the session holds of the rows
    stored,         \* what is committed of them
    phase,          \* where the job is
    first,          \* first row of the chunk
    at,             \* the row to be recorded
    text,           \* the text search of the rows of the chunk
    image,          \* their image searches
    cache,          \* text_search_cache: what it has of a query
    counts,         \* image searches counted, failures in a row
    flags,          \* image searches are blocked, the job stops
    crashes,
    requests        \* history: searches sent to Torob, failed ones, images, uncounted ones

tables == <<status, rows, stored>>
chunk  == <<first, at, text, image, cache, counts, flags, requests>>
job    == <<phase, drafts, chunk>>
feed   == <<channel, published, deletes, history>>
vars   == <<feed, tables, job, crashes>>

Outcomes == {"blank", "error", "blocked", "not_found", "matches", "selected"}

Total     == Len(drafts)
ChunkEnd  == Min({first + ChunkSize - 1, Total})
Chunk     == first .. ChunkEnd
HasPhoto  == {i \in 1 .. Total : drafts[i].photos # {}}
QueriesOf(is) == {drafts[i].name : i \in is}

----------------------------------------------------------------------------
Init ==
    /\ HistoryInit
    /\ status = "none"
    /\ drafts = <<>> /\ rows = <<>> /\ stored = <<>>
    /\ phase = "none"
    /\ first = 1 /\ at = 1
    /\ text = <<>> /\ image = <<>>
    /\ cache = [q \in Queries |-> "none"]
    /\ counts = [images |-> 0, failures |-> 0]
    /\ flags = [noImages |-> FALSE, stop |-> FALSE]
    /\ crashes = 0
    /\ requests = [sent |-> [q \in Queries |-> 0], failed |-> [q \in Queries |-> 0],
                   images |-> 0, uncounted |-> 0]

SellerPostsOrDeletes ==
    /\ phase = "history"        \* before and after, it makes no difference
    /\ (Posts \/ \E m \in channel : Deletes(m))
    /\ UNCHANGED <<tables, job, crashes>>

Import ==
    /\ status = "none"
    /\ status' = "processing"
    /\ phase' = "chat"
    /\ UNCHANGED <<feed, rows, stored, drafts, chunk, crashes>>

FindsChannel ==
    /\ phase = "chat"
    /\ phase' = "history"
    /\ history' = FirstPage
    /\ UNCHANGED <<channel, published, deletes, tables, drafts, chunk, crashes>>

FetchesPage ==
    /\ phase = "history"
    /\ (\E page \in Pages : PageArrives(page)) \/ PageFails
    /\ UNCHANGED <<tables, job, crashes>>

\* Mutant: the error of Uniom ends the job and is not recorded.
ImportFailsSilently ==
    /\ phase = "chat" \/ (phase = "history" /\ history.state = "failed")
    /\ phase' = "over"
    /\ UNCHANGED <<feed, tables, drafts, chunk, crashes>>

\* Uniom gave up on the channel or its history.
ImportFails ==
    /\ phase = "chat" \/ (phase = "history" /\ history.state = "failed")
    /\ status' = "failed"
    /\ phase' = "over"
    /\ UNCHANGED <<feed, rows, stored, drafts, chunk, crashes>>

\* The rows are flushed, and stay uncommitted until the first commit of the loop.
ReadsProducts ==
    /\ phase = "history" /\ history.state = "done"
    /\ drafts' = ExtractProducts(history.messages)
    /\ rows' = [i \in DOMAIN drafts' |-> "blank"]
    /\ status' = IF drafts' = <<>> THEN "failed" ELSE status
    /\ phase' = IF drafts' = <<>> THEN "over" ELSE "prefetch"
    /\ UNCHANGED <<feed, stored, chunk, crashes>>

----------------------------------------------------------------------------
\* Mutant: the images of a chunk are limited without those already searched.
WholeBudget == ImageLimit

Remaining == IF counts.images < ImageLimit THEN ImageLimit - counts.images ELSE 0

\* The first rows of the chunk with a photo, as many as the budget has left.
ImageTargets ==
    IF flags.noImages THEN {}
    ELSE {i \in Chunk \cap HasPhoto : Cardinality({k \in Chunk \cap HasPhoto : k < i}) < Remaining}

\* Mutant: every chunk searches anew.
AllQueries == QueriesOf(Chunk)

NewQueries == {q \in QueriesOf(Chunk) : cache[q] = "none"}

\* The photos of got could be downloaded. The searches of the chunk start.
StartsChunk(got) ==
    /\ phase = "prefetch"
    /\ got \subseteq ImageTargets
    /\ image' = [i \in Chunk |-> IF i \in got THEN "asked" ELSE "none"]
    /\ text' = [i \in Chunk |-> IF cache[drafts[i].name] = "results" THEN "results" ELSE "asked"]
    /\ cache' = [q \in Queries |-> IF q \in NewQueries THEN "asked" ELSE cache[q]]
    /\ requests' = [requests EXCEPT
          !.sent = [q \in Queries |-> IF q \in NewQueries THEN @[q] + 1 ELSE @[q]],
          !.images = @ + Cardinality(got)]
    /\ phase' = "search"
    /\ UNCHANGED <<feed, tables, drafts, first, at, counts, flags, crashes>>

\* The search for a name ends for all its rows; when it failed the first row
\* that sees it takes it out of the cache.
TextSearchEnds(q, answer) ==
    /\ phase = "search" /\ cache[q] = "asked"
    /\ text' = [i \in Chunk |-> IF drafts[i].name = q THEN answer ELSE text[i]]
    /\ cache' = [cache EXCEPT ![q] = IF answer = "results" THEN "results" ELSE "none"]
    /\ requests' = [requests EXCEPT !.failed[q] = IF answer = "results" THEN @ ELSE @ + 1]
    /\ UNCHANGED <<feed, tables, phase, drafts, first, at, image, counts, flags, crashes>>

\* "broken": an exception that is not an error of Torob, and is swallowed.
ImageSearchEnds(i, answer) ==
    /\ phase = "search" /\ i \in Chunk /\ image[i] = "asked"
    /\ image' = [image EXCEPT ![i] = answer]
    /\ requests' = [requests EXCEPT !.uncounted = IF answer = "broken" THEN @ + 1 ELSE @]
    /\ UNCHANGED <<feed, tables, phase, drafts, first, at, text, cache, counts, flags, crashes>>

GatherEnds ==
    /\ phase = "search"
    /\ \A i \in Chunk : text[i] # "asked" /\ image[i] # "asked"
    /\ phase' = "record"
    /\ at' = first
    /\ UNCHANGED <<feed, tables, drafts, first, text, image, cache, counts, flags, crashes, requests>>

----------------------------------------------------------------------------
(* Recording the outcomes. The event loop is held, but each commit is seen  *)
(* by the polling page, and a restart may come between two of them.         *)

Recording == phase = "record" /\ at <= ChunkEnd /\ ~flags.stop

Counted == image[at] \in {"results", "nothing", "error", "blocked"}

ImagesNow  == IF Counted THEN counts.images + 1 ELSE counts.images
NoImages   == flags.noImages \/ image[at] = "blocked"

\* Mutant: the failures of the whole job are counted.
FailuresAfterResult == counts.failures

FailuresReset == 0

\* Mutant: the job stops one failure too late.
StopsLater == text[at] = "blocked" \/ counts.failures + 1 > MaxFailures

Stops == text[at] = "blocked" \/ counts.failures + 1 >= MaxFailures

\* Mutant: an error is left to the next commit.
ErrorUncommitted(newRows) == stored

CommitsError(newRows) == newRows

RecordsError ==
    /\ Recording /\ text[at] \in {"error", "blocked"}
    /\ rows' = [rows EXCEPT ![at] = text[at]]
    /\ stored' = CommitsError(rows')
    /\ counts' = [images |-> ImagesNow, failures |-> counts.failures + 1]
    /\ flags' = [noImages |-> NoImages, stop |-> Stops]
    /\ at' = at + 1
    /\ UNCHANGED <<feed, status, phase, drafts, first, text, image, cache, crashes, requests>>

\* The row gets its matches; the best of them is selected if it is near enough
\* and the product has a price.
RecordsResults(outcome) ==
    /\ Recording /\ text[at] = "results"
    /\ image[at] = "results" => outcome # "not_found"
    /\ rows' = [rows EXCEPT ![at] = outcome]
    /\ stored' = IF at % CommitEvery = 0 THEN rows' ELSE stored
    /\ counts' = [images |-> ImagesNow, failures |-> FailuresReset]
    /\ flags' = [flags EXCEPT !.noImages = NoImages]
    /\ at' = at + 1
    /\ UNCHANGED <<feed, status, phase, drafts, first, text, image, cache, crashes, requests>>

NextChunk ==
    /\ phase = "record" /\ at > ChunkEnd /\ ~flags.stop
    /\ ChunkEnd < Total
    /\ first' = ChunkEnd + 1
    /\ phase' = "prefetch"
    /\ text' = <<>> /\ image' = <<>>
    /\ UNCHANGED <<feed, tables, drafts, at, cache, counts, flags, crashes, requests>>

Finishes ==
    /\ phase = "record"
    /\ flags.stop \/ at > Total
    /\ status' = "ready"
    /\ stored' = rows
    /\ phase' = "over"
    /\ UNCHANGED <<feed, rows, drafts, chunk, crashes>>

\* Any other exception, also of a flush or commit between two rows: back to the
\* last commit.
Breaks ==
    /\ phase \notin {"none", "over"}
    /\ status' = "failed"
    /\ rows' = stored
    /\ phase' = "over"
    /\ UNCHANGED <<feed, stored, drafts, chunk, crashes>>

Crash ==
    /\ crashes < MaxCrashes /\ phase \notin {"none", "over"}
    /\ crashes' = crashes + 1
    /\ rows' = stored
    /\ phase' = "over"
    /\ UNCHANGED <<feed, status, stored, drafts, chunk>>

JobStep ==
    \/ FindsChannel \/ FetchesPage \/ ImportFails \/ ReadsProducts
    \/ \E got \in SUBSET (1 .. Total) : StartsChunk(got)
    \/ \E q \in Queries, answer \in {"results", "error", "blocked"} : TextSearchEnds(q, answer)
    \/ \E i \in 1 .. Total, answer \in {"results", "nothing", "error", "blocked", "broken"} :
          ImageSearchEnds(i, answer)
    \/ GatherEnds \/ RecordsError
    \/ \E outcome \in {"not_found", "matches", "selected"} : RecordsResults(outcome)
    \/ NextChunk \/ Finishes \/ Breaks

Next == Import \/ JobStep \/ SellerPostsOrDeletes \/ Crash

Spec == Init /\ [][Next]_vars

\* The task is scheduled by the event loop, and every call to Uniom or Torob
\* ends: the clients have timeouts and a bounded number of attempts.
FairSpec == Spec /\ WF_vars(JobStep)
----------------------------------------------------------------------------
\* The tables hold what their columns allow, the job stays within its chunk.
TypeOK ==
    /\ HistoryTypeOK
    /\ status \in {"none", "processing", "ready", "failed"}
    /\ Total <= MaxProducts
    /\ rows \in [1 .. Len(rows) -> Outcomes] /\ Len(rows) \in {0, Total}
    /\ stored \in [1 .. Len(stored) -> Outcomes] /\ Len(stored) \in {0, Total}
    /\ phase \in {"none", "chat", "history", "prefetch", "search", "record", "over"}
    /\ first \in 1 .. MaxProducts /\ at \in 1 .. MaxProducts + 1
    /\ DOMAIN text \in {{}, Chunk} /\ DOMAIN image = DOMAIN text
    /\ \A i \in DOMAIN text : text[i] \in {"asked", "results", "error", "blocked"}
    /\ cache \in [Queries -> {"none", "asked", "results"}]
    /\ counts.images \in 0 .. ImageLimit + requests.uncounted
    /\ counts.failures \in 0 .. MaxFailures
    /\ flags \in [noImages : BOOLEAN, stop : BOOLEAN]
    /\ crashes \in 0 .. MaxCrashes

\* A photo is shown for the product it was posted with: in the same message, or
\* in one of the ids shortly before, without any other text in between.
PhotosBelong ==
    \A d \in ToSet(drafts) : \A m \in d.photos : m # d.message =>
        /\ m < d.message /\ d.message - m <= Near
        /\ \A k \in ToSet(history.messages) : m <= k /\ k < d.message => ~Content[k].text

\* Torob is sent no more images than the limit, however the chunks run; those
\* whose search broke without an answer of Torob come on top.
ImageBudget == requests.images <= ImageLimit + requests.uncounted

\* Rows with the same name share one search: Torob is asked for a name again
\* only after a search for it failed, and what the rows are given is the result
\* of a search that did not fail.
SearchesAreShared ==
    \A q \in Queries :
        /\ requests.sent[q] <= requests.failed[q] + 1
        /\ cache[q] = "results" => requests.sent[q] = requests.failed[q] + 1

\* Torob turned the search of a row away, or this row is the last of
\* MaxFailures failing ones.
StopsAt(r) ==
    \/ rows[r] = "blocked"
    \/ r >= MaxFailures /\ \A k \in r - MaxFailures + 1 .. r : rows[k] \in {"error", "blocked"}

\* After such a row nothing is recorded, and no search of a later chunk starts.
SparesTorob ==
    \A r \in DOMAIN rows : StopsAt(r) => first <= r /\ \A k \in r + 1 .. Total : rows[k] = "blank"

\* When the seller is sent to the rows, each has matches or an error, apart from
\* the rows behind one that stopped the job.
ReadyIsDecided ==
    status = "ready" => \A r \in 1 .. Total :
        stored[r] = "blank" => \E k \in 1 .. r - 1 : StopsAt(k)

\* A restart or an exception costs less than CommitEvery recorded rows.
LossIsBounded ==
    Cardinality({r \in DOMAIN rows : rows[r] # "blank"
                    /\ (r \in DOMAIN stored => stored[r] = "blank")}) < CommitEvery

\* While the process stays up, the import ends by telling the polling seller.
ImportEnds == (status = "processing" /\ crashes = 0) ~> (status \in {"ready", "failed"} \/ crashes > 0)
=============================================================================
