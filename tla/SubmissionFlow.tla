---------------------------- MODULE SubmissionFlow ----------------------------
(***************************************************************************)
(* One submission after its processing: the seller saves drafts, confirms  *)
(* rows, searches a row again and loads more matches; the admin rebuilds a *)
(* batch from selections that are in no batch.                             *)
(*                                                                         *)
(* draft, confirm, retry and more are coroutines of one event loop. Between*)
(* their awaits no other coroutine runs, so a save, which awaits nothing   *)
(* once its form is read, keeps the loop for itself. The rebuild runs in a *)
(* thread of the pool: its steps fall anywhere, also inside a save. There  *)
(* are no row locks: a transaction reads what is committed when it reads.  *)
(***************************************************************************)
EXTENDS Naturals, Sequences, FiniteSets, SequencesExt

CONSTANTS
    Rows,          \* the rows that have a product name
    Found,         \* products that a search may find
    Prices,        \* final prices, after _normalize_final_price
    Operation,     \* [Rows -> Operations]: row.operation, as processing left it
    LegacyRows,    \* rows submitted before there were batches
    Searches,      \* retry and more requests that can be in progress at once
    Rebuilders,    \* rebuild requests that can be in progress at once
    MaxMatches,    \* bound of the model: matches ever created for one row
    MaxRebuilds,   \* bound of the model: rebuilds started
    MaxCrashes     \* bound of the model: restarts of the process

\* needs_review: a row of a price update for which neither the store nor Torob
\* had a product, or the file no price. Nothing after processing changes it.
Operations == {"add", "price_update", "needs_review"}

ASSUME SubmissionFlowAssumption ==
    /\ Operation \in [Rows -> Operations]
    /\ LegacyRows \subseteq Rows
    /\ MaxMatches \in Nat \ {0} /\ MaxRebuilds \in Nat /\ MaxCrashes \in Nat
    /\ IsFiniteSet(Found)

VARIABLES
    \* tables
    status,        \* submission.status
    failed,        \* [Rows -> BOOLEAN]: row.error_message is set
    matches,       \* [Rows -> SUBSET Match]
    issued,        \* [Rows -> Nat]: match ids the row has used up
    selections,    \* [Rows -> SUBSET Pick]
    submitted,     \* [Rows -> BOOLEAN]: row.submitted_at is set
    batches,       \* Seq(SUBSET Item)
    \* requests in progress
    save,          \* the save that has the event loop
    search,        \* [Searches -> ...]
    rebuild,       \* [Rebuilders -> ...]
    rebuilds, crashes

rowVars == <<failed, matches, issued>>
tables  == <<status, rowVars, selections, submitted, batches>>
vars    == <<status, failed, matches, issued, selections, submitted, batches,
             save, search, rebuild, rebuilds, crashes>>

Match == [n : 1 .. MaxMatches, product : Found]
Pick  == [match : 1 .. MaxMatches, price : Prices]
Item  == [row : Rows, match : 1 .. MaxMatches, price : Prices, operation : Operations]

NoSave    == [kind |-> "none"]
NoSearch  == [kind |-> "none"]
NoRebuild == [at |-> "idle"]

Items == UNION {batches[k] : k \in DOMAIN batches}

\* A match as the foreign keys see it.
MatchExists(r, n) == \E m \in matches[r] : m.n = n

Batched(r) == \E i \in Items : i.row = r

\* The send refuses a batch with an item marked as a price update, and posts any
\* other to the endpoint that adds products.
PostedAsAdds(batch) == \A i \in batch : i.operation # "price_update"

ProductsOf(r) == {m.product : m \in matches[r]}

----------------------------------------------------------------------------
\* Processing left a row with an error, with matches, or with a match it
\* selected by itself: a row to review has an error, a price update is always
\* of the last kind (an error it can only have from a retry). A legacy row is
\* submitted and its selections are in no batch.
Init ==
    /\ status \in {"ready", "submitted"}
    /\ failed \in [Rows -> BOOLEAN]
    /\ \E product \in [Rows -> Found], price \in [Rows -> Prices] :
          /\ matches = [r \in Rows |->
                IF failed[r] THEN {} ELSE {[n |-> 1, product |-> product[r]]}]
          /\ selections \in [Rows -> SUBSET {[match |-> 1, price |-> p] : p \in Prices}]
          /\ \A r \in Rows : selections[r] \subseteq {[match |-> 1, price |-> price[r]]}
    /\ issued = [r \in Rows |-> IF failed[r] THEN 0 ELSE 1]
    /\ \A r \in Rows : failed[r] => selections[r] = {} /\ r \notin LegacyRows
    /\ \A r \in Rows : Operation[r] = "needs_review" => failed[r] \/ r \in LegacyRows
    /\ \A r \in Rows : ~failed[r] /\ (Operation[r] = "price_update" \/ r \in LegacyRows)
                          => selections[r] # {}
    /\ submitted = [r \in Rows |-> r \in LegacyRows]
    /\ status = "submitted" <=> LegacyRows # {}
    /\ batches = <<>>
    /\ save = NoSave
    /\ search = [q \in Searches |-> NoSearch]
    /\ rebuild = [t \in Rebuilders |-> NoRebuild]
    /\ rebuilds = 0
    /\ crashes = 0

----------------------------------------------------------------------------
(* Draft and confirm.                                                      *)

\* What a form can say of a row: some of its matches, ticked, at one price. Ids
\* that the row has no more and a missing price count as nothing ticked.
Ticked(r) ==
    {{[match |-> m.n, price |-> p] : m \in ms} : ms \in SUBSET matches[r], p \in Prices}

Forms == {f \in [Rows -> UNION {Ticked(r) : r \in Rows}] : \A r \in Rows : f[r] \in Ticked(r)}

LoopFree == save = NoSave

\* The form is read and the submission loaded, with the submitted_at and the
\* status that the rest of the handler goes by. Nothing sees the form before the
\* commit and no match changes until then, so what it says is chosen there.
LoadSave(kind) ==
    /\ LoopFree
    /\ save' = [kind |-> kind, seenSubmitted |-> submitted, seenStatus |-> status]
    /\ UNCHANGED <<tables, search, rebuild, rebuilds, crashes>>

\* Mutant: rows that are submitted already are not left out.
OpenThoughSubmitted(r) == ~failed[r]

\* Rows with an error and rows seen as submitted are left as they are.
Open(r) == ~failed[r] /\ ~save.seenSubmitted[r]

\* Mutant: the rows that are left as they are lose their selections.
SavedClearsOthers(form) == [r \in Rows |-> IF Open(r) THEN form[r] ELSE {}]

SavedSelections(form) == [r \in Rows |-> IF Open(r) THEN form[r] ELSE selections[r]]

\* Mutant: a row counts as submitted before it is known that it selects anything.
ConfirmedThoughBlank(form) == {r \in Rows : Open(r)}

ConfirmedRows(form) == {r \in Rows : Open(r) /\ form[r] # {}}

ItemsOfPicks(r, picks, operation) ==
    {[row |-> r, match |-> c.match, price |-> c.price, operation |-> operation] : c \in picks}

\* Mutant: the operation of the row is left to the default of the column.
ConfirmedAsAdds(form) ==
    UNION {ItemsOfPicks(r, form[r], "add") : r \in ConfirmedRows(form)}

ConfirmedItems(form) ==
    UNION {ItemsOfPicks(r, form[r], Operation[r]) : r \in ConfirmedRows(form)}

\* SQLAlchemy writes a column only if its value differs from the loaded one.
Written(seen, new, now) == IF seen = new THEN now ELSE new

\* Mutant: a status that no page knows.
CommitDraftAsDraft(form) ==
    /\ save.kind = "draft"
    /\ selections' = SavedSelections(form)
    /\ status' = "draft"
    /\ save' = NoSave
    /\ UNCHANGED <<rowVars, submitted, batches, search, rebuild, rebuilds, crashes>>

CommitDraft(form) ==
    /\ save.kind = "draft"
    /\ selections' = SavedSelections(form)
    /\ status' = IF save.seenStatus = "submitted" THEN "ready" ELSE status
    /\ save' = NoSave
    /\ UNCHANGED <<rowVars, submitted, batches, search, rebuild, rebuilds, crashes>>

\* "continue" keeps the submission open, "complete" closes it.
CommitConfirm(form) ==
    /\ save.kind \in {"continue", "complete"}
    /\ selections' = SavedSelections(form)
    /\ submitted' = [r \in Rows |-> submitted[r] \/ r \in ConfirmedRows(form)]
    /\ batches' = IF ConfirmedItems(form) = {} THEN batches
                  ELSE Append(batches, ConfirmedItems(form))
    /\ status' = Written(save.seenStatus,
                         IF save.kind = "continue" THEN "ready" ELSE "submitted", status)
    /\ save' = NoSave
    /\ UNCHANGED <<rowVars, search, rebuild, rebuilds, crashes>>

----------------------------------------------------------------------------
(* Searching a row again, and loading more of its matches.                 *)

\* Mutant: batch items do not hold back the deletion.
MayDeleteAlways(r) == r \in Rows

\* The foreign key of a batch item: its match cannot be deleted. The request
\* ends with an integrity error and changes nothing.
MayDelete(r) == \A i \in Items : i.row = r => ~MatchExists(r, i.match)

BeginRetry(q, r) ==
    /\ LoopFree
    /\ search[q] = NoSearch
    /\ MayDelete(r)
    /\ matches' = [matches EXCEPT ![r] = {}]
    /\ selections' = [selections EXCEPT ![r] = {}]
    /\ failed' = [failed EXCEPT ![r] = FALSE]
    /\ search' = [search EXCEPT ![q] = [kind |-> "retry", row |-> r, known |-> {}]]
    /\ UNCHANGED <<status, issued, submitted, batches, save, rebuild, rebuilds, crashes>>

\* Mutant: the matches that the row shows are not compared with.
BeginMoreBlind(q, r) ==
    /\ LoopFree
    /\ search[q] = NoSearch
    /\ ~failed[r]
    /\ search' = [search EXCEPT ![q] = [kind |-> "more", row |-> r, known |-> {}]]
    /\ UNCHANGED <<tables, save, rebuild, rebuilds, crashes>>

BeginMore(q, r) ==
    /\ LoopFree
    /\ search[q] = NoSearch
    /\ ~failed[r]
    /\ search' = [search EXCEPT ![q] = [kind |-> "more", row |-> r, known |-> ProductsOf(r)]]
    /\ UNCHANGED <<tables, save, rebuild, rebuilds, crashes>>

\* The products that are not among the matches the request knows of become
\* matches with new ids. It knows those it loaded before it awaited the search.
AppendMatches(r, products) ==
    LET new == SetToSeq(products) IN
    /\ issued[r] + Len(new) <= MaxMatches
    /\ matches' = [matches EXCEPT ![r] =
          @ \cup {[n |-> issued[r] + k, product |-> new[k]] : k \in DOMAIN new}]
    /\ issued' = [issued EXCEPT ![r] = @ + Len(new)]

\* A search that finds nothing raises, so a result is never empty.
RetryFinds(q, products) ==
    /\ LoopFree
    /\ search[q].kind = "retry"
    /\ products # {}
    /\ AppendMatches(search[q].row, products \ search[q].known)
    /\ search' = [search EXCEPT ![q] = NoSearch]
    /\ UNCHANGED <<status, failed, selections, submitted, batches, save, rebuild, rebuilds, crashes>>

\* Mutant: the error is not stored.
RetryFailsSilently(q) ==
    /\ LoopFree
    /\ search[q].kind = "retry"
    /\ search' = [search EXCEPT ![q] = NoSearch]
    /\ UNCHANGED <<tables, save, rebuild, rebuilds, crashes>>

RetryFails(q) ==
    /\ LoopFree
    /\ search[q].kind = "retry"
    /\ failed' = [failed EXCEPT ![search[q].row] = TRUE]
    /\ search' = [search EXCEPT ![q] = NoSearch]
    /\ UNCHANGED <<status, matches, issued, selections, submitted, batches, save,
                   rebuild, rebuilds, crashes>>

\* Up to three pages; what came before an error is kept.
EndMore(q, products) ==
    /\ LoopFree
    /\ search[q].kind = "more"
    /\ AppendMatches(search[q].row, products \ search[q].known)
    /\ search' = [search EXCEPT ![q] = NoSearch]
    /\ UNCHANGED <<status, failed, selections, submitted, batches, save, rebuild, rebuilds, crashes>>

----------------------------------------------------------------------------
(* The rebuild, in its thread: rows and selections are loaded first, the   *)
(* batches after them, and the new batch is committed last.                *)

LoadRebuild(t) ==
    /\ rebuild[t] = NoRebuild
    /\ rebuilds < MaxRebuilds
    /\ rebuild' = [rebuild EXCEPT ![t] = [at |-> "loaded", picks |-> selections,
                                          seenSubmitted |-> submitted, seenStatus |-> status]]
    /\ rebuilds' = rebuilds + 1
    /\ UNCHANGED <<tables, save, search, crashes>>

InBatch(r, c) == \E i \in Items : i.row = r /\ i.match = c.match /\ i.price = c.price

Unbatched(t) ==
    [r \in Rows |-> {c \in rebuild[t].picks[r] : ~InBatch(r, c)}]

PlanRebuild(t) ==
    /\ rebuild[t].at = "loaded"
    /\ rebuild' = [rebuild EXCEPT ![t] =
          IF \A r \in Rows : Unbatched(t)[r] = {} THEN NoRebuild
          ELSE [@ EXCEPT !.at = "planned", !.picks = Unbatched(t)]]
    /\ UNCHANGED <<tables, save, search, rebuilds, crashes>>

\* The operation of the row is not passed on: the column's default is "add".
RebuiltItems(t) == UNION {ItemsOfPicks(r, rebuild[t].picks[r], "add") : r \in Rows}

\* Mutant: no foreign key stops the commit.
CommitRebuildUnchecked(t) ==
    /\ rebuild[t].at = "planned"
    /\ rebuild' = [rebuild EXCEPT ![t] = NoRebuild]
    /\ batches' = Append(batches, RebuiltItems(t))
    /\ submitted' = [r \in Rows |-> submitted[r] \/ rebuild[t].picks[r] # {}]
    /\ status' = Written(rebuild[t].seenStatus, "submitted", status)
    /\ UNCHANGED <<rowVars, selections, save, search, rebuilds, crashes>>

\* Mutant: the rows of the new batch are not marked.
CommitRebuildUnmarked(t) ==
    /\ rebuild[t].at = "planned"
    /\ rebuild' = [rebuild EXCEPT ![t] = NoRebuild]
    /\ \A i \in RebuiltItems(t) : MatchExists(i.row, i.match)
    /\ batches' = Append(batches, RebuiltItems(t))
    /\ status' = Written(rebuild[t].seenStatus, "submitted", status)
    /\ UNCHANGED <<rowVars, selections, submitted, save, search, rebuilds, crashes>>

\* Or an integrity error, if a match was deleted meanwhile.
CommitRebuild(t) ==
    /\ rebuild[t].at = "planned"
    /\ rebuild' = [rebuild EXCEPT ![t] = NoRebuild]
    /\ IF \A i \in RebuiltItems(t) : MatchExists(i.row, i.match)
       THEN /\ batches' = Append(batches, RebuiltItems(t))
            /\ submitted' = [r \in Rows |-> submitted[r] \/ rebuild[t].picks[r] # {}]
            /\ status' = Written(rebuild[t].seenStatus, "submitted", status)
       ELSE UNCHANGED <<batches, submitted, status>>
    /\ UNCHANGED <<rowVars, selections, save, search, rebuilds, crashes>>

----------------------------------------------------------------------------
\* A transaction that was not committed is gone, and so is every request.
Crash ==
    /\ crashes < MaxCrashes
    /\ save' = NoSave
    /\ search' = [q \in Searches |-> NoSearch]
    /\ rebuild' = [t \in Rebuilders |-> NoRebuild]
    /\ crashes' = crashes + 1
    /\ UNCHANGED <<tables, rebuilds>>

SaveNext ==
    \/ \E kind \in {"draft", "continue", "complete"} : LoadSave(kind)
    \/ \E form \in Forms : CommitDraft(form) \/ CommitConfirm(form)

SearchNext ==
    \/ \E q \in Searches, r \in Rows : BeginRetry(q, r) \/ BeginMore(q, r)
    \/ \E q \in Searches : \E products \in SUBSET Found : RetryFinds(q, products) \/ EndMore(q, products)
    \/ \E q \in Searches : RetryFails(q)

RebuildNext ==
    \E t \in Rebuilders : LoadRebuild(t) \/ PlanRebuild(t) \/ CommitRebuild(t)

Next == SaveNext \/ SearchNext \/ RebuildNext \/ Crash

Spec == Init /\ [][Next]_vars

\* A handler that has the loop runs to its next await, and the clients bound
\* every search by timeouts and a number of attempts.
FairSpec ==
    /\ Spec
    /\ WF_vars(\E form \in Forms : CommitDraft(form) \/ CommitConfirm(form))
    /\ \A q \in Searches : SF_vars(RetryFails(q) \/ \E products \in SUBSET Found : RetryFinds(q, products))

----------------------------------------------------------------------------
\* The tables hold what their columns allow. (Requests in progress are typed by
\* the actions that begin them.)
TypeOK ==
    /\ status \in {"ready", "submitted"}
    /\ failed \in [Rows -> BOOLEAN]
    /\ matches \in [Rows -> SUBSET Match]
    /\ issued \in [Rows -> 0 .. MaxMatches]
    /\ selections \in [Rows -> SUBSET Pick]
    /\ submitted \in [Rows -> BOOLEAN]
    /\ batches \in Seq(SUBSET Item)
    /\ rebuilds \in 0 .. MaxRebuilds
    /\ crashes \in 0 .. MaxCrashes

\* Whatever a selection or a batch item refers to is still a match of its row,
\* so the send and the exports can always read it.
ReferencesResolve ==
    /\ \A r \in Rows : \A c \in selections[r] : MatchExists(r, c.match)
    /\ \A i \in Items : MatchExists(i.row, i.match)

\* A row counts as submitted exactly when a batch holds it: rows hidden from the
\* seller are registered, and registered rows are hidden.
SubmittedMeansBatched ==
    \A r \in Rows : (submitted[r] /\ r \notin LegacyRows => Batched(r)) /\ (Batched(r) => submitted[r])

ItemsOfRow(r) == {i \in Items : i.row = r}

\* What is registered of a row is what the row has selected, each selection at
\* its price and with the operation of the row.
BatchedAsSelected ==
    \A r \in Rows : Batched(r) => ItemsOfRow(r) = ItemsOfPicks(r, selections[r], Operation[r])

\* No row is registered twice, so no product is sent to Torob again with the next
\* batch. (A rebuild beside another one or beside a confirm breaks it.)
RowInOneBatch ==
    \A j, k \in DOMAIN batches : \A a \in batches[j], b \in batches[k] : a.row = b.row => j = k

\* No row marked as a price update is in a batch that the send would post to the
\* endpoint for new products. (A rebuild breaks it. Rows of a price update that
\* are still to be reviewed do get posted: a retry keeps their mark, and the send
\* looks for the other one.)
NoPriceUpdatePosted ==
    \A k \in DOMAIN batches : PostedAsAdds(batches[k]) =>
        \A i \in batches[k] : Operation[i.row] # "price_update"

\* No late draft, no search and no second confirm changes a registered row.
RegisteredRowsFrozen ==
    [][\A r \in Rows : Batched(r) =>
          /\ submitted'[r]
          /\ selections'[r] = selections[r]
          /\ matches[r] \subseteq matches'[r]]_vars

\* The matches of a row are different products.
NoDuplicateMatch ==
    \A r \in Rows : \A m, o \in matches[r] : m.product = o.product => m = o

SearchedAgain(r) == \E q \in Searches : search[q].kind = "retry" /\ search[q].row = r

\* Unless it is being searched again, a row shows an error or matches and never
\* both: without an error there is no retry button, with one no selection counts.
RowShowsOutcome ==
    crashes = 0 => \A r \in Rows : SearchedAgain(r) \/ (failed[r] <=> matches[r] = {})

\* Without rebuilds, all of this is what SubmissionLedger promises: a row is
\* registered once, as it is selected then, is hidden from then on, and stays so.
Ledger == INSTANCE SubmissionLedger WITH
    Picks <- Pick, hidden <- {r \in Rows : submitted[r]}

LedgerSpec == Ledger!LedgerSpec

\* While the process stays up, a retry that blanked a row always brings back
\* matches or an error: the seller never keeps a row that can do nothing.
RetriedRowSettles ==
    \A r \in Rows : (crashes = MaxCrashes /\ SearchedAgain(r))
                        ~> (failed[r] \/ matches[r] # {})
=============================================================================
