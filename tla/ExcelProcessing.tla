--------------------------- MODULE ExcelProcessing ---------------------------
(***************************************************************************)
(* POST /uploads and the background job it starts: either the search for   *)
(* every row of a file of new products, or the comparison of every row of a*)
(* price update with what the store has registered. The job commits row by *)
(* row; the seller's page polls the status meanwhile. A restart ends the   *)
(* job and nothing starts it again.                                        *)
(*                                                                         *)
(* A row is one step: its search is the only await, and while a submission *)
(* is processing the seller's pages offer nothing that writes to its rows. *)
(***************************************************************************)
EXTENDS Naturals

CONSTANTS
    MaxRows,        \* bound of the model: rows of the file with a product name
    MaxFailures,    \* failing searches in a row after which the job pauses
    MaxCrashes      \* bound of the model: restarts of the process

ASSUME ExcelProcessingAssumption ==
    MaxRows \in Nat /\ MaxFailures \in Nat \ {0} /\ MaxCrashes \in Nat

VARIABLES
    kind,           \* "add" or "price_update": submission.operation
    status,         \* submission.status, "none" before the first commit
    reason,         \* why the submission failed
    total,          \* submission.total_rows
    shows,          \* [1 .. total -> Outcomes]: error message and matches of the row
    operation,      \* [1 .. total -> Operations]: row.operation
    selected,       \* rows with a selection
    uploading,      \* the request that stores the file is in progress
    job,            \* the background task: the row it is at and its two counters
    crashes

rows == <<total, shows, operation, selected>>
vars == <<kind, status, reason, rows, uploading, job, crashes>>

\* "blocked": an error that says that Torob turns every search away.
\* "waiting": the row was not searched, since the job paused.
Outcomes   == {"nothing", "error", "blocked", "waiting", "matches"}
Operations == {"add", "price_update", "needs_review", "unchanged"}

\* pause: the pausing job has yet to mark the remaining rows, or to end.
NoJob == [at |-> 0, failures |-> 0, found |-> 0, pause |-> "no"]

Working == job.at # 0

AtRow(k) == Working /\ kind = k /\ job.at <= total /\ job.pause = "no"

----------------------------------------------------------------------------
Init ==
    /\ kind \in {"add", "price_update"}
    /\ status = "none"
    /\ reason = "none"
    /\ total = 0
    /\ shows = <<>>
    /\ operation = <<>>
    /\ selected = {}
    /\ uploading = FALSE
    /\ job = NoJob
    /\ crashes = 0

\* The upload commits twice: the submission, then its rows, and leaves the job
\* to run after the response.
CreateSubmission ==
    /\ status = "none"
    /\ status' = "processing"
    /\ uploading' = TRUE
    /\ UNCHANGED <<kind, reason, rows, job, crashes>>

\* Mutant: the total is not stored with the rows.
StoreRowsUncounted(n) ==
    /\ uploading
    /\ uploading' = FALSE
    /\ shows' = [r \in 1 .. n |-> "nothing"]
    /\ operation' = [r \in 1 .. n |-> IF kind = "add" THEN "add" ELSE "needs_review"]
    /\ job' = IF n = 0 THEN NoJob ELSE [NoJob EXCEPT !.at = 1]
    /\ UNCHANGED <<kind, status, reason, total, selected, crashes>>

StoreRows(n) ==
    /\ uploading
    /\ uploading' = FALSE
    /\ total' = n
    /\ shows' = [r \in 1 .. n |-> "nothing"]
    /\ operation' = [r \in 1 .. n |-> IF kind = "add" THEN "add" ELSE "needs_review"]
    /\ status' = IF n = 0 THEN "ready" ELSE status
    /\ job' = IF n = 0 THEN NoJob ELSE [NoJob EXCEPT !.at = 1]
    /\ UNCHANGED <<kind, reason, selected, crashes>>

\* The file cannot be written.
UploadFails ==
    /\ uploading
    /\ uploading' = FALSE
    /\ UNCHANGED <<kind, status, reason, rows, job, crashes>>

----------------------------------------------------------------------------
(* New products.                                                           *)

Finds ==
    /\ AtRow("add")
    /\ shows' = [shows EXCEPT ![job.at] = "matches"]
    /\ job' = [job EXCEPT !.at = @ + 1, !.failures = 0, !.found = @ + 1]
    /\ UNCHANGED <<kind, status, reason, total, operation, selected, uploading, crashes>>

\* Mutant: every error is taken for an error of the connection.
FailsAtAnyTime ==
    /\ AtRow("add")
    /\ status' = "failed"
    /\ reason' = "torob"
    /\ job' = NoJob
    /\ UNCHANGED <<kind, rows, uploading, crashes>>

\* Before anything was found, an error is taken for an error of the connection.
FailsAtOnce ==
    /\ AtRow("add")
    /\ job.found = 0
    /\ status' = "failed"
    /\ reason' = "torob"
    /\ job' = NoJob
    /\ UNCHANGED <<kind, rows, uploading, crashes>>

\* Mutant: the job goes on after MaxFailures failures and pauses one later.
PausesLater(outcome) == outcome = "blocked" \/ job.failures + 1 > MaxFailures

Pauses(outcome) == outcome = "blocked" \/ job.failures + 1 >= MaxFailures

Fails(outcome) ==
    /\ AtRow("add")
    /\ job.found > 0
    /\ shows' = [shows EXCEPT ![job.at] = outcome]
    /\ job' = IF Pauses(outcome) THEN [job EXCEPT !.pause = "mark"]
              ELSE [job EXCEPT !.at = @ + 1, !.failures = @ + 1]
    /\ UNCHANGED <<kind, status, reason, total, operation, selected, uploading, crashes>>

\* Mutant: whatever it shows, a row that is not the current one waits.
WaitsUnlessCurrent(r) == r # job.at

\* Mutant: the mark is never set, so no row waits.
NeverWaits(r) == r > job.at /\ r < job.at

Waits(r) == r > job.at /\ shows[r] = "nothing"

MarksRemaining ==
    /\ job.pause = "mark"
    /\ shows' = [r \in 1 .. total |-> IF Waits(r) THEN "waiting" ELSE shows[r]]
    /\ job' = [job EXCEPT !.pause = "end"]
    /\ UNCHANGED <<kind, status, reason, total, operation, selected, uploading, crashes>>

----------------------------------------------------------------------------
(* Prices of products that the store has registered already.               *)

Goes == job' = [job EXCEPT !.at = @ + 1]

\* The row stays to be reviewed, as the upload stored it.
ToReview(outcome) ==
    /\ AtRow("price_update")
    /\ shows' = [shows EXCEPT ![job.at] = outcome]
    /\ Goes
    /\ UNCHANGED <<kind, status, reason, total, operation, selected, uploading, crashes>>

\* The file has no new price: neither the store nor Torob is asked.
NoNewPrice == ToReview("error")

\* The store does not know the product and the search fails, as one does that
\* finds nothing. This job counts no failures and never pauses, not even when
\* Torob turns the search away.
SearchFails(outcome) == ToReview(outcome)

Unchanged ==
    /\ AtRow("price_update")
    /\ operation' = [operation EXCEPT ![job.at] = "unchanged"]
    /\ Goes
    /\ UNCHANGED <<kind, status, reason, total, shows, selected, uploading, crashes>>

SelectsKnown ==
    /\ AtRow("price_update")
    /\ operation' = [operation EXCEPT ![job.at] = "price_update"]
    /\ shows' = [shows EXCEPT ![job.at] = "matches"]
    /\ selected' = selected \cup {job.at}
    /\ Goes
    /\ UNCHANGED <<kind, status, reason, total, uploading, crashes>>

FindsNew ==
    /\ AtRow("price_update")
    /\ operation' = [operation EXCEPT ![job.at] = "add"]
    /\ shows' = [shows EXCEPT ![job.at] = "matches"]
    /\ Goes
    /\ UNCHANGED <<kind, status, reason, total, selected, uploading, crashes>>

----------------------------------------------------------------------------
Finishes ==
    /\ Working
    /\ job.at > total \/ job.pause = "end"
    /\ status' = "ready"
    /\ job' = NoJob
    /\ UNCHANGED <<kind, reason, rows, uploading, crashes>>

\* Mutant: the exception ends the job and is not recorded.
BreaksSilently ==
    /\ Working
    /\ job' = NoJob
    /\ UNCHANGED <<kind, status, reason, rows, uploading, crashes>>

\* Any other exception: what the row did is rolled back, the rest stays.
Breaks ==
    /\ Working
    /\ status' = "failed"
    /\ reason' = "exception"
    /\ job' = NoJob
    /\ UNCHANGED <<kind, rows, uploading, crashes>>

\* The background task is not persisted. The upload, too, ends here.
Crash ==
    /\ crashes < MaxCrashes
    /\ job' = NoJob
    /\ uploading' = FALSE
    /\ crashes' = crashes + 1
    /\ UNCHANGED <<kind, status, reason, rows>>

JobStep ==
    \/ Finds \/ FailsAtOnce
    \/ \E outcome \in {"error", "blocked"} : Fails(outcome)
    \/ MarksRemaining
    \/ NoNewPrice \/ Unchanged \/ SelectsKnown \/ FindsNew
    \/ \E outcome \in {"error", "blocked"} : SearchFails(outcome)
    \/ Finishes \/ Breaks

Next ==
    \/ CreateSubmission
    \/ \E n \in 0 .. MaxRows : StoreRows(n)
    \/ UploadFails
    \/ JobStep
    \/ Crash

Spec == Init /\ [][Next]_vars

\* The task is scheduled by the event loop and every search ends: the clients
\* have timeouts and a bounded number of attempts.
FairSpec == Spec /\ WF_vars(JobStep)

----------------------------------------------------------------------------
\* The tables hold what their columns allow, and the job stays within its rows.
TypeOK ==
    /\ kind \in {"add", "price_update"}
    /\ status \in {"none", "processing", "ready", "failed"}
    /\ reason \in {"none", "torob", "exception"}
    /\ total \in 0 .. MaxRows
    /\ shows \in [1 .. total -> Outcomes]
    /\ operation \in [1 .. total -> Operations]
    /\ selected \subseteq 1 .. total
    /\ uploading \in BOOLEAN
    /\ job \in [at : 0 .. MaxRows + 1, failures : 0 .. MaxFailures, found : 0 .. MaxRows,
               pause : {"no", "mark", "end"}]
    /\ crashes \in 0 .. MaxCrashes

Decided(r) ==
    IF kind = "add" THEN shows[r] # "nothing"
    ELSE \/ operation[r] = "unchanged"    /\ shows[r] = "nothing" /\ r \notin selected
         \/ operation[r] = "price_update" /\ shows[r] = "matches" /\ r \in selected
         \/ operation[r] = "add"          /\ shows[r] = "matches" /\ r \notin selected
         \/ /\ operation[r] = "needs_review"
            /\ shows[r] \in {"error", "blocked"} /\ r \notin selected

\* When the seller is sent to the rows, every row can be acted on: it shows an
\* error with its retry button or matches to tick. In a price update what it
\* shows agrees with its operation, which decides where the page lists it.
ReadyIsDecided == status = "ready" => \A r \in 1 .. total : Decided(r)

Searched(r) == shows[r] \in {"error", "blocked", "matches"}

\* The job of a file of new products leaves Torob alone after it turned a search
\* away, and after MaxFailures searches in a row that failed: no later row was
\* searched. (The job of a price update does not: it searches on after any.)
SearchJobSparesTorob ==
    kind = "add" => \A r \in 1 .. total :
        \/ shows[r] = "blocked"
        \/ r >= MaxFailures /\ \A s \in r - MaxFailures + 1 .. r : shows[s] = "error"
        => \A s \in r + 1 .. total : ~Searched(s)

\* A submission is given up for an error of Torob only if nothing was found
\* for it: no result that the seller could use is hidden because Torob failed.
\* (Another exception may fail a submission that has matches.)
NothingThrownAway ==
    reason = "torob" => \A r \in 1 .. total : shows[r] = "nothing"

\* What the polling seller has seen of a row is not taken back, so the number
\* of processed rows never falls.
OutcomesAreFinal ==
    [][\A r \in 1 .. total :
          shows[r] # "nothing" => shows'[r] = shows[r] /\ operation'[r] = operation[r]]_vars

\* While the process stays up, the job that works ends by telling the seller.
JobFinishes == (Working /\ crashes = MaxCrashes) ~> status \in {"ready", "failed"}
=============================================================================
