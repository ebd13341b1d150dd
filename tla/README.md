# Torobjan in TLA+

Torobjan takes the products of a shop from an Excel file or from an Eitaa
channel, finds each of them in the catalogue of Torob, lets the seller choose
and price the matches, registers what the seller confirms as batches, and lets
an admin send a batch to the shop on Torob. It is a FastAPI application: one
process, one event loop for `async def` handlers and background tasks, a thread
pool for plain `def` handlers, and an SQL database (Postgres in production)
reached through SQLAlchemy. There are no row locks and no unique constraints
beyond primary keys and the channel id of a store.

That shapes the models. What stands between two awaits of a coroutine is one
step; a handler in the thread pool can take its steps anywhere, also inside a
coroutine that does not await; a transaction is atomic when it commits, and
what it read before may be old by then; a restart keeps the tables and loses
every coroutine, every background task and every uncommitted change.

## Inventory

| Part (under `src/app`) | State | Operations | Depends on |
|---|---|---|---|
| Excel upload and processing, `routes/seller.py` | `submission.status`, rows, matches, selections, one background task | upload, search job, price-update job, status polling | search clients, history of the store |
| Eitaa import and processing, `routes/seller.py`, `services/eitaa.py` | the same, a text-search cache, an image budget | import job with concurrent chunks | Uniom, Torob |
| Eitaa update previews, `services/eitaa_updates.py`, both routers | `store.eitaa_last_update_id`, preview submissions | check by the admin, check by the seller | Uniom, history of the store |
| Selection and registration, `routes/seller.py` | selections, `row.submitted_at`, batches, `submission.status` | draft, confirm, retry, more | search clients |
| Rebuild, `routes/admin.py` | batches, `row.submitted_at`, `submission.status` | rebuild-batch | what registration stored |
| Batch sending, `routes/admin.py`, `services/torob_bulk.py` | `batch.status` and its counts, `submission.shop_id` | send-torob, shop-id | Torob's bulk-add endpoint |
| Search clients, `services/torob.py`, `basalam.py`, `product_search.py` | HTTP clients | search | rate limiter |
| Rate limiter, `services/torob_rate_limiter.py` | time of the next request | acquire | |
| Uniom client, `services/uniom.py` | paging position | history, updates, files | Uniom |
| Rules for names and prices, `services/excel.py`, `eitaa.py`, `update_matching.py` | none | parse, normalise, score, look up | |
| Stores, `routes/seller.py` | `stores` | find or create, price unit | |
| Export, admin pages, templates, migrations | none | reads | |

How the parts interact. Processing, selection, rebuild and sending share the
tables and nothing else: a submission goes from processing to selection by its
status, from selection to sending by a batch, which is never changed once it
exists except for its status and counts. Processing and the seller's searches
call Torob through one rate limiter. An update preview and a price-update file
read the selections of earlier submissions of the same store.

Where it is hard. Handlers read, await and then write what they read; two
requests for the same batch, row or store are not kept apart; the thread pool
runs the rebuild beside everything else; requests to Torob can time out and
still arrive; background jobs are not persisted; a job commits many times.
`PROJECT.json` lists the hazards with their lines and the properties that
speak of them.

What makes each part correct:

* processing: when the status says ready, every row can be acted on; nothing
  found is hidden because Torob failed; the search for new products leaves a
  failing Torob alone; the job ends;
* selection: what is registered is what the seller selected and confirmed, at
  its price and with its operation, once, and stays so; only new products are
  posted as products to add; no reference dangles; rows hidden from the seller
  are the registered ones;
* sending: reported as sent means held by one shop, whole; counts add up; an
  attempt ends;
* Eitaa previews: each change is previewed once, and the cursor does not pass a
  change without a preview nor move back;
* Eitaa import: it works on the newest messages, photos belong to their product,
  the image budget holds, rows of one name share a search, a failing Torob is
  left alone, a restart loses little, the job ends;
* pages of matches: "more" leaves no result out and ends when all were shown;
* rate limiter: requests are an interval apart and nobody waits for ever.

## Modules

`BatchDelivery` says what sending promises: the catalogue of Torob only grows,
by products of the batch that is sent, and a batch is reported only when one
shop holds all of it.

`BatchSend` is `send_batch_to_torob` with the loop of `TorobBulkAddClient` and
`update_shop_id`. A sender is a request of the admin; `attempt[s]` is what its
coroutine holds: the batch, the shop id it read, the number of items in answered
chunks, and whether Torob has taken the chunk being posted. The refusals
(`FailPriceUpdate`, `FailNothingSendable`) and the commit of "sending" (`Begin`)
are single steps, since nothing is awaited before. `Stores` is Torob taking a
chunk, `AnswerOk` its answer, `Fails` any error that the client turns into
`TorobBulkAddError`; the chunk may have been taken, be lost, or be on its way
(`late`, `ArrivesLate`). `Succeeds` comes after the last answer and the closing
of the client. `UpdateShopId` runs in a thread, at any time. Items are numbers:
item `n` of a batch in a shop is the triple `<<batch, shop, n>>`.

`SubmissionLedger` says what registration promises: selections of rows that are
not registered change as the seller likes; registering takes rows that are not
hidden, with all that is selected of them, into one batch and hides them; batches
and what they hold never change.

`SubmissionFlow` is one submission after its processing: the saves of the seller
(`LoadSave`, then `CommitDraft` or `CommitConfirm`), the searches (`BeginRetry`,
`RetryFinds`, `RetryFails`, `BeginMore`, `EndMore`) and the admin's rebuild
(`LoadRebuild`, `PlanRebuild`, `CommitRebuild`). A save has the event loop from
its load to its commit, so the model holds the other coroutines back meanwhile
(`LoopFree`) and lets rebuilds through; it keeps what it read, since that decides
which rows it saves and which columns SQLAlchemy writes. A retry commits the
blank row, awaits the search and then compares the results with the matches it
loaded before the await, that is none. The rebuild loads rows and selections,
then the batches, then commits. Batch items refer to matches by a foreign key
that the database enforces: a retry of a registered row and a rebuild over a
deleted match end with an integrity error. Ids of matches grow and are not used
again. The form of a save is any choice of ticks and one price for each row; an
empty price, or ids that the row does not have, mean that nothing is ticked. A
row keeps the operation that its processing gave it: "add", "price_update", or
"needs_review", which comes with an error and offers a search again.
`PostedAsAdds` is the check by which the send tells the batches that it posts.

`ExcelProcessing` is the upload, which commits the submission and then its rows,
and the job it starts: for new products `Finds`, `FailsAtOnce`, `Fails` and
`MarksRemaining`, for price updates `NoNewPrice`, `Unchanged`, `SelectsKnown`,
`FindsNew` and `SearchFails` (finds nothing, fails or is turned away), for both `Finishes` and `Breaks` (any other exception). A row is
one step. The pausing job commits three times, so the row, the waiting rows and
the status are steps of their own.

`EitaaUpdates` is a store's cursor and its previews. A check, `AdminBegins` or
`SellerBegins`, reads the cursor; Uniom answers (`Receives`); the seller's check
searches for each priced product (`Searches`); one transaction stores the preview
and the cursor (`StoresPreview`). What a request holds over its awaits is
`check[r]`. The operation of a row depends on what the store is known to have
registered: the seller's request reads that afresh, while the admin's page has
loaded the rows of one submission before its await and may still see them as they
were (`MayRecognise`).

`EitaaHistory` is the first half of an import, `get_chat_history_paginated` page
by page and `extract_eitaa_products`, beside a seller who posts and deletes.
`EitaaImport` extends it by `POST /eitaa/import` and `process_eitaa_submission`:
the chunks (`StartsChunk`), their concurrent text and image searches
(`TextSearchEnds`, `ImageSearchEnds`), the recording after `gather`
(`RecordsError`, `RecordsResults`, `NextChunk`) and the ends of the job. `rows`
is what the session holds and `stored` what is committed, since the job commits
at errors and at every third row. All rows of a chunk look up the cache before
the first search starts, so a shared search ends for its rows in one step. A name
is what is searched for, a message its products, whether it has text and whether
it has a photo.

`MatchPaging` is `search_products` with both clients, and the loops of the first
search and of "more": what Torob is asked for, how it is sorted, which window of
it a page takes, and what Basalam adds. Results are numbers in the order of
their source; `better` are those whose names fit the query best. A sorted answer
is the set of its results, each with its place: the number of those that fit
better (`Place`), which is its index in the list of the code.

`TorobRequests` is the rate limiter and those who use it: text searches with
their retries, and image searches with two requests. Time passes in ticks; a
coroutine that holds the lock sends at or after the time it slept for.

The proof modules, `BatchSendProofs`, `SubmissionFlowProofs`,
`ExcelProcessingProofs`, `EitaaUpdatesProofs`, `EitaaHistoryProofs`,
`EitaaImportProofs`, `MatchPagingProofs` and `TorobRequestsProofs`, each extend
the module they are named for; `EitaaImportProofs` builds upon the lemmas of
`EitaaHistoryProofs`. `MCBatchSend`,
`MCBatchSendLive`, `MCSubmissionFlow`, `MCEitaaUpdates` and `MCEitaaImport` give
constants their values.

## Runs

| Run | Configuration | What it shows |
|---|---|---|
| `batch_send` | `MCBatchSend.cfg` | safety of two concurrent sends and the refinement of `BatchDelivery` |
| `batch_send_live` | `MCBatchSendLive.cfg` | "sending" is left again, with fairness and a restart |
| `batch_send_twice` | `BatchSendTwice.cfg` | violated: "sent" is not final |
| `submission_serial` | `SubmissionSerial.cfg` | registration with one search at a time and no rebuild, and the refinement of `SubmissionLedger` |
| `submission_concurrent` | `SubmissionConcurrent.cfg` | what still holds beside two rebuilds |
| `rebuild_keeps_operation` | `RebuildKeepsOperation.cfg` | violated: a rebuilt price update is a product to add |
| `rebuild_twice` | `RebuildTwice.cfg` | violated: a row in two batches |
| `excel_processing` | `MCExcelProcessing.cfg` | both jobs over every sequence of outcomes; that Torob is left alone of the job of new products |
| `eitaa_updates` | `MCEitaaUpdates.cfg` | the cursor and the previews of overlapping, failing and interrupted checks |
| `eitaa_import` | `MCEitaaImport.cfg` | an import from the first page to the last row, safety and its end |
| `match_paging` | `MatchPaging.cfg` | what "more" shows of two catalogues of up to 13 results |
| `torob_requests` | `TorobRequests.cfg` | spacing and turn-taking of three searchers |

Bounds and why they are enough.

* `batch_send`: four batches, one for each way through the handler: two chunks
  with a skipped item, price updates, nothing sendable, more than the client
  accepts. Chunks of two items and a batch of three give a full and a short
  chunk. Two shops suffice to tell a split delivery, two senders for every pair
  of interleaved attempts, one restart for a state found after it. Senders and
  shops are symmetric. `MaxItemsPerRequest` and `MaxTotalItems` are 100 and
  10000 in the code; the theorems hold for every value.
* `batch_send_live`: one shop, the batch of two chunks and the refused one, no
  symmetry.
* `submission_serial`: a price update and a row still to be reviewed (new products
  begin like the one and are retried like the other), two products that a search can
  find, three matches per row (`MaxMatches`, a guard of `AppendMatches`), so a
  row can be searched twice and tick several matches; one price, as what
  depends on prices is the comparison of a rebuild; one restart.
* `submission_concurrent`: two rebuilds in two threads, a legacy row that was
  submitted before there were batches, one search, at most two matches per row.
  Larger instances (two searches, three matches) stay without a violation but
  exceed what is useful to run each time.
* `rebuild_twice`, `rebuild_keeps_operation`: no search is needed.
* `excel_processing`: five rows with a limit of three failures, so that a job
  can pause in the middle, and with rows left to wait; the limit is the code's.

* `eitaa_updates`: four updates, one of them no post and one without prices, so
  that the cursor passes what makes no preview; two requests and three checks, so
  that a pair overlaps and a third one finds what they left; three updates at a
  time (100 in the code), so that one answer may not be all.
* `eitaa_import`: six messages, the last of which may come during the fetch, and
  one that is deleted; five are kept, in pages of four and, after a failure, of
  two, so the paging meets a full list, a short page and a smaller page. Between
  them the messages give a list, a product of its own, a loose photo, a text
  that separates, and names that repeat within a chunk and between chunks.
  Chunks of two rows, a budget of two images, a commit at every third row and
  three failures fall at different rows. Configured are a history of 700 in
  pages of 50, chunks of 4 and 300 images.
* `match_paging`: one result per source and page, two to be enough, and 6 to 12
  results asked of Torob, in place of 2, 4, and 12 to 24. With 13 results each,
  a catalogue can be empty, end within any page, or be larger than is asked for;
  the sets of better fits move a late result to the front, before and after the
  first request reaches it. Two answers may fail or come late.
* `torob_requests`: three searchers, so one holds the lock while two wait; an
  interval of two ticks, so that a wait can be partly over; two retries.

`CHECK_DEADLOCK FALSE` is used for `ExcelProcessing`, `EitaaImport` and
`MatchPaging`: a job that ended does nothing more, and neither does a row that
has no more to offer.

## Fairness

`BatchSend!FairSpec`: every attempt that can go on does (`WF`). `httpx` bounds
each wait by `torob_bulk_add_timeout_seconds`, after which the attempt fails, so
an attempt always goes on; nothing is assumed of Torob.

`SubmissionFlow!FairSpec`: a save that has the event loop commits (`WF`), and a
search ends (`SF`, because saves hold the loop again and again). The clients
bound each request by a timeout and their retries by a number.

`ExcelProcessing!FairSpec` and `EitaaImport!FairSpec`: the job goes on (`WF`),
for the same reason; the paging through a history makes progress with each page
and gives up after failures at the smallest page.

`TorobRequests!FairSpec`: time passes, `asyncio.Lock` is handed to the first in
its line, and a searcher whose request ended, which its timeout ensures, goes on
(`WF` of each).

No action of the seller, of the admin, of Torob's catalogue or of a restart is
fair. Liveness is claimed while the process stays up: each property supposes
that no restart is left (`crashes = MaxCrashes`).

## What is proved

`BatchSendProofs` proves, for all senders, batches, shops, item counts, chunk
sizes and any number of restarts, and from `BatchSendAssumption` alone:

* `SpecTypeOK`, `SpecSentMeansDelivered`, `SpecSentCountsAddUp`,
  `SpecPendingIsUntouched`: the safety invariants of `batch_send`;
* `SpecImplementsDelivery`: `BatchSend` implements `BatchDelivery`, with
  `reported` as the batches whose sent count was recorded;
* `SpecSentIsFinal`: a batch that was sent stays sent as long as no two attempts
  work on one batch (`OneAttemptEach`). The run `batch_send_twice` shows that the
  condition is needed.

The invariants are not inductive alone: when an attempt reports success, that
Torob holds the whole batch follows from what the attempt did before. `IInv`
adds `AttemptInv`: what a running attempt counts as done lies within its batch
and is held, in order, by the shop that it read when it began; when a chunk is
stored and not yet answered, that chunk is held as well. The proof has one step
per action. The catalogue only grows (`HeldGrows`, `SoundGrows`), so a step of
one sender cannot harm what another one counts, whatever shop id it read. The
refinement needs one thing more, that a late chunk lies within its batch
(`LateInv`).

`SubmissionFlowProofs` proves, for all rows, products, searches, rebuilds and
restarts:

* beside any number of rebuilds: `SpecTypeOK`, `SpecReferencesResolve`,
  `SpecSubmittedMeansBatched`. `IInv` adds what requests in progress hold. That
  the rows in a batch are those marked as submitted survives concurrent writers
  because no writer takes a mark away, and each sets it with its batch.
* where no rebuild runs (`Rebuilders = {}`): `SpecRowInOneBatch`,
  `SpecBatchedAsSelected`, `SpecNoPriceUpdatePosted` and
  `SpecRegisteredRowsFrozen`, and that `SubmissionFlow` implements
  `SubmissionLedger` (`SpecImplementsLedger`), with `hidden` as the submitted rows:
  a confirm registers the rows it confirms, any other step changes selections of
  rows in no batch, or nothing of the ledger. `SerialInv` adds that a save has
  seen the submitted rows as they are when it commits. The runs `rebuild_twice`
  and `rebuild_keeps_operation` show that the assumption is needed.
  `SpecNoPriceUpdatePosted` is about rows marked as a price update; rows still
  to be reviewed can be posted without any rebuild (see "What disagrees").
* as long as no row has two searches at once (`OneSearchEach`; nothing is asked
  of searches of different rows, of rebuilds or of saves): `SpecNoDuplicateMatch`
  and `SpecRowShowsOutcome`. `SearchInv` adds that a search knows all matches that
  its row has, and that a row that is searched again is blank; what goes on in
  other rows disturbs neither (`OtherRowsKept`).

`ExcelProcessingProofs` proves, for files of any length and any limit of
failures, all five safety properties of `excel_processing`, two of them with the
limits that their names and comments state: `SearchJobSparesTorob` is about the
job of new products, `NothingThrownAway` about a job that gives up because of
Torob. `IInv` adds that the
rows before the current one are decided and those after it untouched unless a
pausing job has marked them (`RowsFollowJob`), which steps a pause is in
(`Pausing`), and that the counters agree with the rows (`CountersAgree`): the row
before the failing ones did not fail, so a full count means that many failing
rows in succession.

`EitaaUpdatesProofs` proves the three properties of `eitaa_updates` and, beyond
them, `SpecCursorOnlyForward`. `IInv` adds that a request read a cursor up to
which all prices are in previews (`SeenCovered`), that its updates follow on it
without a gap (`GotFollows`), that it still sees the cursor unless another check
overtook it (`SeesCursor`), and that previews lie behind the cursor as long as
none did (`PreviewedIsBehind`). So a check that ends late may move the cursor
back, but never to where a price was passed over.

`EitaaImportProofs` proves all eight safety properties of `eitaa_import`, for
channels, chunks, pages, limits and numbers of failures of any size. The
invariant `ImportInv` is a conjunction whose parts build upon each other:

* `CacheInv`: what the cache has of a name is the difference between the searches
  sent and those that failed;
* `Shape`: where the job stands, in which chunk and at which row, and which of
  the variables mean something there;
* `DraftsInv`: what the products were read from. `HistoryInv`, from
  `EitaaHistoryProofs`, says of the paging that whatever was there at its start
  and still is has been fetched, or lies at or below the offset while everything
  fetched lies above (`Covered`). A failing page, a smaller page, new messages and
  deleted ones all keep that; so the list is cut only at its old end;
* `RowsInv`: the rows before the current one have an outcome, the failures that
  are counted are those of the last rows, and none before the last of them could
  have stopped the job;
* `BudgetInv`: an image that was sent is counted, or will be when its row is
  recorded, or broke; the budget has room for those that will be. Therefore
  concurrent searches of a chunk cannot exceed it together;
* `LossInv`: the rows that are not committed were recorded since the last multiple
  of `CommitEvery`.

`EitaaHistoryProofs` holds what the two loops compute. That a page is the newest
of what is there needs the number of elements above a place in a finite set
(`FewLarger`, `FewSmaller`). The reading of products is a recursive function over
the messages from the newest to the oldest; `ReadDownToOK` proves what it has read
at each message. Since it cannot use an induction theorem, it argues with the
largest message at which that were wrong (`MaxExists`).

`MatchPagingProofs` proves the three properties of `match_paging` for catalogues,
pages and requests of any size. A smaller request gets the beginning of what a
larger one gets, and, where the later answers bring nothing better, its results
have the same places in both (`PopularPlaces`). So a window begins where the one
before it ended (`WindowIsNext`). The invariant `WindowsInv` is that what is shown
are the best `page` times the width of a page, or everything. Since the places
have no gaps (`PlacesFilled`), a window with nothing in it is behind the last
result (`EmptyWindow`), and "more" cannot end before.

`TorobRequestsProofs` proves `SpecSpacing`, `SpecTypeOK` and
`SpecOnePlaceInLine`; `SpecTypeOK` holds the limits of requests, `MaxRetries` + 1
for a text search and two for a search by image. Its invariant is that the time still to wait and the time
since the last request make up an interval, and that a search that has left the
line has sent its request.

The assumptions on constants are those of the modules, and no more.

Only model-checked: the liveness properties `SendingSettles`,
`RetriedRowSettles`, `JobFinishes`, `ImportEnds` and `EveryoneIsServed`, since
fairness and ENABLED are out of reach of the prover. `SubmissionFlow` is checked
beside two rebuilds for what the theorems say of any number of them, and its
other theorems hold without a rebuild, or while no row has two searches at once,
as they say.

## What disagrees

* Two sends of one batch: the slower one overwrites the result of the faster
  one, so a batch that was sent becomes failed and can be sent again.
* A rebuild loses the operation of price updates (`rebuild_keeps_operation`), and
  registers rows of a draft that the seller did not confirm (the rebuild in that
  run is one of these).
* Two rebuilds, or a rebuild beside a confirm, register a row twice
  (`rebuild_twice`).
* A row of a price update that is still to be reviewed keeps that operation when
  it is searched again. The seller can confirm it, and its batch is posted to the
  endpoint that adds products, since the send looks for "price_update" only
  (`routes/seller.py:1421`, `routes/admin.py:425`). The page says of these rows
  only to review them (`templates/match.html:109`); one without a price in the
  file may be of a product that the store has registered. `SubmissionFlow` has
  these rows, and `NoPriceUpdatePosted` does not speak of them.
* The job of a price update searches on after any number of failures and after
  Torob turned a search away (`routes/seller.py:467-473`), while the job of new
  products pauses. `SearchJobSparesTorob` is therefore about the latter.
* A restart leaves a submission in processing for ever, and a row that was being
  searched again without matches and without an error.
* Of two checks for updates of one store that overlap, the later one stores a
  cursor computed from what it read before its await, so the cursor may move
  back; `docs/product-architecture-and-update-plan.md:1602`
  and the test at `tests/test_eitaa_updates.py:212` say it must not. No price is lost by that
  (`CursorCoversPreviews`), but further checks preview prices again. Therefore
  `PreviewedOnce` is stated for checks that do not overlap.
* The window into Torob's results is the page number times the width of the
  present page. When Basalam has four results, pages 0 and 1 take T1 to T4, two
  at a time, and page 2, now four wide, begins with T9: T5 to T8 are never shown,
  and when Torob has no more than eight, "more" ends early. The same happens when
  Basalam is late once. `NothingSkipped` and `EndMeansExhausted` therefore suppose
  pages of one width.
* The first page is cut from a sorted answer of twelve results, later ones from
  up to 24: a better one among the thirteenth to the last takes a place that was
  passed already, and pushes another one behind it. The properties suppose that
  there is none.
* The end of the results is an error to the search, since two empty answers raise
  one; "more" ends by it without a message.
* A row that a stopped Eitaa job left blank offers "more", which begins with page
  1, so page 0 is never shown for it (the `whole` of `MatchPaging`).
* An image search that ends in an unexpected exception does not count against the
  limit of image searches (`ImageBudget` counts those apart).

## What is left out

* The order of the matches on a page, in which the results of Torob and Basalam
  take turns.
* Texts, layout, dates and the counts `selected_rows` and `submitted_count`;
  `rank`, and the pair `final_price` and `selected_match_id` of a row, which repeat
  what its selections say. `has_more_matches` and `next_search_page` are in
  `MatchPaging` and not in `SubmissionFlow`.
* Rows without a product name, which have an error and are skipped everywhere.
* Rows of a price update that are unchanged: they have no matches and are hidden.
* Requests for a submission that is still processing: the pages offer none, the
  URLs do not refuse them.
* In `SubmissionFlow`, rows that a stopped Eitaa job left without matches and
  without an error.
* Databases that do not enforce foreign keys (SQLite in local use).
* Login, sessions and rendering; file formats; the HTTP of the clients.
* How stores are found or made by name, phone or channel, their price units, and
  which selection of a store's submissions is the latest: `EitaaUpdates` has a
  store's known products as a set that changes at any time, `ExcelProcessing`
  each outcome of the lookup. So nothing is said of the price an update is
  compared with. The test at `tests/test_app.py:2071`, of an Excel file sent a
  second time as a price update, is about that lookup.
* The rules that find names and prices in texts and score matches: regular
  expressions and weights without state. `EitaaHistory` has their results.
* Retries within a call to Uniom: the call answers or fails.
* The dates of messages: a loose photo belongs to a product at most 20 ids behind
  it (`Near`); that both were posted within 20 minutes of each other
  (`services/eitaa.py:337-340`) is a further condition of the code, which only
  takes photos away.

What is supposed of services that are not in the repository:

* When the bulk-add endpoint answers below 400, Torob took the whole chunk,
  whatever its answer says of single items, which the code keeps and does not
  read (`services/torob_bulk.py:129-141`). `SentMeansDelivered` and
  `BatchDelivery` rest on it.
* Uniom keeps its updates and delivers them from the offset on, in order and
  without gaps, possibly with some before it. Updates of one bot token that
  belong to the channels of several stores are not told apart by the code;
  `EitaaUpdates` is about the updates that a store's checks are given.
* A page of a history is what the channel has at or below the offset, newest
  first, as in the tests of the client; an offset of 0 may mean none. A message
  has at most 20 products.
* Torob gives the most popular results first, the same ones to each search of a
  row. Basalam's pages do not overlap. (It is off unless configured: `Basalam` 0.)
* Settings: the search by image is on (off, no photo would be downloaded), and
  `torob_rate_limit_seconds` is not 0, which switches the limiter off.

## Plan

Done, in the order of importance: `BatchSend` with `BatchDelivery`;
`SubmissionFlow` with `SubmissionLedger`; `ExcelProcessing`; `EitaaUpdates`;
`EitaaHistory` and `EitaaImport`; `MatchPaging`; `TorobRequests`; proofs of the
safety of all of them.

What is left:

1. `StoreHistory`: the selections of a store over several submissions,
   `find_known_store_product`, price units and the price an update is compared
   with. Hazards: drafts and unsent batches count as the price at Torob; a price
   below ten rials becomes none.
2. Compositions: `ExcelProcessing` with `SubmissionFlow` (a retry, draft or
   rebuild by URL while the job still works), and `SubmissionFlow` with
   `BatchSend` (a row that two rebuilds registered is posted from both batches).
3. Proofs of what these add.
