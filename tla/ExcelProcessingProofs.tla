------------------------ MODULE ExcelProcessingProofs ------------------------
(***************************************************************************)
(* For files of any length, any limit of failures and any number of        *)
(* restarts: the types of ExcelProcessing, that ready rows can be acted on,*)
(* that the search for new products leaves a failing Torob alone, that an  *)
(* error of Torob throws no result away, and that what the seller was shown*)
(* of a row is final.                                                      *)
(***************************************************************************)
EXTENDS ExcelProcessing, TLAPS

\* The job works on a submission that is being processed, within its rows.
JobIsCurrent ==
    /\ status = "none" => total = 0 /\ reason = "none" /\ ~uploading /\ ~Working
    /\ uploading => status = "processing" /\ total = 0 /\ reason = "none" /\ ~Working
    /\ Working => status = "processing" /\ reason = "none" /\ job.at <= total + 1

Untouched(r) ==
    /\ shows[r] = "nothing" /\ r \notin selected
    /\ kind = "price_update" => operation[r] = "needs_review"

\* Rows before the current one are done, and further rows are not, unless a
\* pausing job has marked them.
RowsFollowJob ==
    Working => \A r \in 1 .. total :
        /\ r < job.at => Decided(r)
        /\ r >= job.at /\ job.pause = "no" => Untouched(r)
        /\ r > job.at /\ job.pause = "mark" => Untouched(r)
        /\ r > job.at /\ job.pause = "end" => shows[r] = "waiting"

Pausing ==
    job.pause # "no" =>
        /\ Working /\ kind = "add" /\ job.at <= total /\ job.found > 0
        /\ shows[job.at] \in {"error", "blocked"}

StopsAt(r) ==
    \/ shows[r] = "blocked"
    \/ r >= MaxFailures /\ \A s \in r - MaxFailures + 1 .. r : shows[s] = "error"

\* The counters of the job say what its rows show: the row before the failing
\* ones did not fail, and as long as nothing was found nothing is shown.
CountersAgree ==
    Working /\ kind = "add" =>
        /\ job.failures < MaxFailures
        /\ job.found < job.at
        /\ job.failures + 1 < job.at => shows[job.at - job.failures - 1] # "error"
        /\ \A r \in 1 .. total : r < job.at => ~StopsAt(r)
        /\ job.found = 0 => \A r \in 1 .. total : shows[r] = "nothing"

IInv ==
    /\ TypeOK
    /\ JobIsCurrent
    /\ RowsFollowJob
    /\ Pausing
    /\ CountersAgree
    /\ SearchJobSparesTorob
    /\ ReadyIsDecided
    /\ NothingThrownAway

Jobs == [at : 0 .. MaxRows + 1, failures : 0 .. MaxFailures, found : 0 .. MaxRows,
         pause : {"no", "mark", "end"}]

-----------------------------------------------------------------------------
\* There is no submission at first.
LEMMA InitIInv == Init => IInv
<1> SUFFICES ASSUME Init PROVE IInv
  OBVIOUS
<1>1. NoJob \in Jobs /\ ~Working
  BY ExcelProcessingAssumption DEF Init, NoJob, Jobs, Working
<1>2. TypeOK
  <2>1. uploading \in BOOLEAN
    BY DEF Init
  <2> QED
    BY <2>1, <1>1, ExcelProcessingAssumption DEF Init, TypeOK, Jobs
<1>3. JobIsCurrent
  BY <1>1 DEF Init, JobIsCurrent
<1> QED
  BY <1>1, <1>2, <1>3 DEF Init, IInv, RowsFollowJob, Pausing, CountersAgree, SearchJobSparesTorob,
     ReadyIsDecided, NothingThrownAway, NoJob

\* The job is over: nothing is claimed of it any more.
LEMMA JobOver ==
    ASSUME IInv, job' = NoJob, UNCHANGED <<kind, rows, crashes>>,
           uploading' \in BOOLEAN, uploading' => uploading,
           status' \in {"none", "processing", "ready", "failed"},
           reason' \in {"none", "torob", "exception"},
           status' = "none" => status = "none" /\ reason' = reason,
           uploading' => status' = status /\ reason' = reason,
           status' = "ready" => \A r \in 1 .. total : Decided(r),
           reason' = "torob" => \A r \in 1 .. total : shows[r] = "nothing"
    PROVE  IInv'
<1>1. job' \in Jobs /\ ~Working' /\ job'.pause = "no"
  BY ExcelProcessingAssumption DEF NoJob, Jobs, Working
<1>2. TypeOK'
  BY <1>1 DEF IInv, TypeOK, rows, Jobs
<1>3. JobIsCurrent'
  BY <1>1 DEF IInv, JobIsCurrent, rows
<1>4. SearchJobSparesTorob'
  BY DEF IInv, SearchJobSparesTorob, Searched, rows
<1>5. ReadyIsDecided' /\ NothingThrownAway'
  BY DEF ReadyIsDecided, NothingThrownAway, Decided, rows
<1> QED
  BY <1>1, <1>2, <1>3, <1>4, <1>5 DEF IInv, RowsFollowJob, Pausing, CountersAgree

-----------------------------------------------------------------------------
\* The submission is committed.
LEMMA CreateSubmissionStep == IInv /\ CreateSubmission => IInv'
<1> SUFFICES ASSUME IInv, CreateSubmission PROVE IInv'
  OBVIOUS
<1> USE DEF IInv, CreateSubmission, rows
<1>1. TypeOK'
  <2>1. uploading' \in BOOLEAN
    OBVIOUS
  <2> QED
    BY <2>1 DEF TypeOK
<1>2. ~Working /\ ~Working'
  BY DEF JobIsCurrent, Working
<1>3. JobIsCurrent'
  BY <1>2 DEF JobIsCurrent
<1>4. Pausing'
  BY <1>2 DEF Pausing
<1>5. SearchJobSparesTorob'
  BY DEF SearchJobSparesTorob, Searched
<1>6. NothingThrownAway' /\ ReadyIsDecided'
  BY DEF NothingThrownAway, ReadyIsDecided
<1> QED
  BY <1>1, <1>2, <1>3, <1>4, <1>5, <1>6 DEF RowsFollowJob, CountersAgree

\* Its rows are committed, and none of them shows anything yet.
LEMMA StoreRowsStep == ASSUME IInv, NEW n \in 0 .. MaxRows, StoreRows(n) PROVE IInv'
<1> USE DEF IInv, StoreRows
<1>1. total = 0 /\ ~Working /\ status = "processing" /\ reason = "none" /\ selected = {}
  BY DEF JobIsCurrent, TypeOK
<1>2. total' = n /\ selected' = {} /\ reason' = "none"
  BY <1>1
<1>3. \A r \in 1 .. n : shows'[r] = "nothing"
  OBVIOUS
<1>4. CASE n = 0
  <2>1. job' = NoJob /\ NoJob \in Jobs /\ ~Working'
    BY <1>4, ExcelProcessingAssumption DEF NoJob, Jobs, Working
  <2>2. TypeOK'
    <3>1. shows' \in [1 .. total' -> Outcomes] /\ operation' \in [1 .. total' -> Operations]
      BY DEF Outcomes, Operations
    <3>2. uploading' \in BOOLEAN
      OBVIOUS
    <3> QED
      BY <1>2, <2>1, <3>1, <3>2 DEF TypeOK, Jobs
  <2>3. JobIsCurrent'
    BY <1>1, <1>4, <2>1 DEF JobIsCurrent
  <2>4. 1 .. total' = {}
    BY <1>2, <1>4
  <2> QED
    BY <2>1, <2>2, <2>3, <2>4, <1>2 DEF NoJob, RowsFollowJob, Pausing, CountersAgree, SearchJobSparesTorob,
       ReadyIsDecided, NothingThrownAway
<1>5. CASE n # 0
  <2>1. /\ job' = [NoJob EXCEPT !.at = 1]
        /\ job' \in Jobs /\ Working'
        /\ job'.at = 1 /\ job'.failures = 0 /\ job'.found = 0 /\ job'.pause = "no"
        /\ status' = "processing"
    BY <1>1, <1>5, ExcelProcessingAssumption DEF NoJob, Jobs, Working
  <2>2. TypeOK'
    <3>1. shows' \in [1 .. total' -> Outcomes] /\ operation' \in [1 .. total' -> Operations]
      BY DEF Outcomes, Operations
    <3>2. uploading' \in BOOLEAN
      OBVIOUS
    <3> QED
      BY <1>2, <2>1, <3>1, <3>2 DEF TypeOK, Jobs
  <2>3. JobIsCurrent'
    BY <1>1, <1>2, <2>1 DEF JobIsCurrent
  <2>4. RowsFollowJob'
    BY <1>2, <1>3, <2>1 DEF RowsFollowJob, Untouched
  <2>5. Pausing' /\ CountersAgree'
    BY <1>2, <1>3, <2>1, ExcelProcessingAssumption DEF Pausing, CountersAgree
  <2>6. SearchJobSparesTorob' /\ ReadyIsDecided' /\ NothingThrownAway'
    BY <1>2, <1>3, <2>1 DEF SearchJobSparesTorob, Searched, ReadyIsDecided, NothingThrownAway
  <2> QED
    BY <2>2, <2>3, <2>4, <2>5, <2>6
<1> QED
  BY <1>4, <1>5

\* The file cannot be written, and no job starts.
LEMMA UploadFailsStep == IInv /\ UploadFails => IInv'
<1> SUFFICES ASSUME IInv, UploadFails PROVE IInv'
  OBVIOUS
<1> USE DEF IInv, UploadFails, rows
<1>1. TypeOK'
  <2>1. uploading' \in BOOLEAN
    OBVIOUS
  <2> QED
    BY <2>1 DEF TypeOK
<1>2. JobIsCurrent'
  BY DEF JobIsCurrent, Working
<1>3. RowsFollowJob' /\ Pausing' /\ CountersAgree'
  BY DEF RowsFollowJob, Pausing, CountersAgree, Working, Decided, Untouched, StopsAt
<1>4. SearchJobSparesTorob' /\ ReadyIsDecided' /\ NothingThrownAway'
  BY DEF SearchJobSparesTorob, ReadyIsDecided, NothingThrownAway, Searched, Decided
<1> QED
  BY <1>1, <1>2, <1>3, <1>4

-----------------------------------------------------------------------------
\* The current row of the job has not been touched, and the job keeps a place
\* of its own in the status.
LEMMA CurrentRow ==
    ASSUME IInv, NEW k \in {"add", "price_update"}, AtRow(k)
    PROVE  /\ Working /\ kind = k /\ job.at \in 1 .. total /\ job.pause = "no"
           /\ status = "processing" /\ reason = "none" /\ ~uploading
           /\ Untouched(job.at)
           /\ job \in Jobs /\ total \in Nat /\ total <= MaxRows
           /\ \A r \in 1 .. total : r < job.at => Decided(r)
           /\ \A r \in 1 .. total : r > job.at => Untouched(r)
<1> USE DEF IInv, AtRow
<1>1. /\ Working /\ kind = k /\ job.pause = "no" /\ job \in Jobs
      /\ total \in Nat /\ total <= MaxRows /\ job.at \in Nat
  BY ExcelProcessingAssumption DEF TypeOK, Jobs
<1>2. job.at \in 1 .. total
  BY <1>1 DEF Working
<1>3. status = "processing" /\ reason = "none" /\ ~uploading
  BY <1>1 DEF JobIsCurrent
<1>4. \A r \in 1 .. total : r >= job.at => Untouched(r)
  BY <1>1 DEF RowsFollowJob
<1>5. \A r \in 1 .. total : r < job.at => Decided(r)
  BY <1>1 DEF RowsFollowJob
<1>6. Untouched(job.at)
  BY <1>1, <1>2, <1>4
<1>7. \A r \in 1 .. total : r > job.at => Untouched(r)
  BY <1>1, <1>4
<1> QED
  BY <1>1, <1>2, <1>3, <1>5, <1>6, <1>7

\* A row that was found, or has failed, is shown and the job goes on with the
\* next one.
LEMMA FindsStep == IInv /\ Finds => IInv'
<1> SUFFICES ASSUME IInv, Finds PROVE IInv'
  OBVIOUS
<1>1. AtRow("add")
  BY DEF Finds
<1>c. /\ Working /\ kind = "add" /\ job.at \in 1 .. total /\ job.pause = "no"
      /\ status = "processing" /\ reason = "none" /\ ~uploading
      /\ Untouched(job.at)
      /\ job \in Jobs /\ total \in Nat /\ total <= MaxRows
      /\ \A r \in 1 .. total : r < job.at => Decided(r)
      /\ \A r \in 1 .. total : r > job.at => Untouched(r)
  BY <1>1, CurrentRow
<1>t. TypeOK /\ CountersAgree
  BY DEF IInv
<1>k. /\ job.failures < MaxFailures /\ job.found < job.at
      /\ \A r \in 1 .. total : r < job.at => ~StopsAt(r)
  BY <1>c, <1>t DEF CountersAgree
<1>2. /\ job'.at = job.at + 1 /\ job'.failures = 0 /\ job'.found = job.found + 1
      /\ job'.pause = "no" /\ job' \in Jobs /\ Working'
  <2>1. /\ job.at + 1 \in 0 .. MaxRows + 1 /\ job.found + 1 \in 0 .. MaxRows
        /\ 0 \in 0 .. MaxFailures /\ job.at + 1 # 0
    BY <1>c, <1>k, ExcelProcessingAssumption DEF Jobs
  <2>2. job' = [job EXCEPT !.at = job.at + 1, !.failures = 0, !.found = job.found + 1]
    BY DEF Finds
  <2> QED
    BY <2>1, <2>2, <1>c DEF Jobs, Working
<1>3. /\ shows' \in [1 .. total -> Outcomes]
      /\ shows'[job.at] = "matches"
      /\ \A r \in 1 .. total : r # job.at => shows'[r] = shows[r]
  BY <1>c, <1>t DEF Finds, TypeOK, Outcomes
<1>4. TypeOK'
  <2>1. uploading' \in BOOLEAN
    BY <1>t DEF Finds, TypeOK
  <2> QED
    BY <1>t, <1>2, <1>3, <2>1 DEF TypeOK, Finds, Jobs
<1>5. JobIsCurrent'
  BY <1>c, <1>2 DEF JobIsCurrent, Finds, Working
<1>6. RowsFollowJob'
  BY <1>c, <1>2, <1>3 DEF RowsFollowJob, Finds, Decided, Untouched, Jobs
<1>7. Pausing'
  BY <1>2 DEF Pausing
<1>8. \A r \in 1 .. total : r <= job.at => ~StopsAt(r)'
  <2> SUFFICES ASSUME NEW r \in 1 .. total, r <= job.at PROVE ~StopsAt(r)'
    OBVIOUS
  <2>1. CASE r = job.at
    BY <2>1, <1>c, <1>3, ExcelProcessingAssumption DEF StopsAt
  <2>2. CASE r < job.at
    <3>1. \A s \in r - MaxFailures + 1 .. r : r >= MaxFailures => s \in 1 .. total /\ s # job.at
      BY <2>2, <1>c, ExcelProcessingAssumption DEF Jobs
    <3> QED
      BY <2>2, <3>1, <1>c, <1>k, <1>3 DEF StopsAt
  <2> QED
    BY <2>1, <2>2, <1>c DEF Jobs
<1>9. CountersAgree'
  BY <1>c, <1>k, <1>2, <1>3, <1>8, ExcelProcessingAssumption DEF CountersAgree, Finds, Jobs
<1>10. SearchJobSparesTorob'
  BY <1>c, <1>2, <1>3, <1>8, ExcelProcessingAssumption
  DEF SearchJobSparesTorob, Searched, Finds, StopsAt, Untouched, Jobs
<1>11. ReadyIsDecided' /\ NothingThrownAway'
  BY <1>c DEF ReadyIsDecided, NothingThrownAway, Finds
<1> QED
  BY <1>4, <1>5, <1>6, <1>7, <1>9, <1>10, <1>11 DEF IInv

LEMMA FailsStep ==
    ASSUME IInv, NEW outcome \in {"error", "blocked"}, Fails(outcome)
    PROVE  IInv'
<1>1. AtRow("add") /\ job.found > 0
  BY DEF Fails
<1>c. /\ Working /\ kind = "add" /\ job.at \in 1 .. total /\ job.pause = "no"
      /\ status = "processing" /\ reason = "none" /\ ~uploading
      /\ Untouched(job.at)
      /\ job \in Jobs /\ total \in Nat /\ total <= MaxRows
      /\ \A r \in 1 .. total : r < job.at => Decided(r)
      /\ \A r \in 1 .. total : r > job.at => Untouched(r)
  BY <1>1, CurrentRow
<1>t. TypeOK /\ CountersAgree
  BY DEF IInv
<1>k. /\ job.failures < MaxFailures /\ job.found < job.at
      /\ job.failures + 1 < job.at => shows[job.at - job.failures - 1] # "error"
      /\ \A r \in 1 .. total : r < job.at => ~StopsAt(r)
  BY <1>c, <1>t DEF CountersAgree
<1>3. /\ shows' \in [1 .. total -> Outcomes]
      /\ shows'[job.at] = outcome
      /\ \A r \in 1 .. total : r # job.at => shows'[r] = shows[r]
  BY <1>c, <1>t DEF Fails, TypeOK, Outcomes
<1>2. /\ job'.found = job.found /\ job' \in Jobs /\ Working'
      /\ \/ job'.at = job.at /\ job'.failures = job.failures /\ job'.pause = "mark"
         \/ /\ job'.at = job.at + 1 /\ job'.failures = job.failures + 1 /\ job'.pause = "no"
            /\ outcome = "error" /\ job.failures + 1 < MaxFailures
  <2>1. CASE Pauses(outcome)
    BY <2>1, <1>c DEF Fails, Jobs, Working
  <2>2. CASE ~Pauses(outcome)
    <3>1. outcome = "error" /\ job.failures + 1 < MaxFailures
      BY <2>2, <1>c, ExcelProcessingAssumption DEF Pauses, Jobs
    <3>2. job' = [job EXCEPT !.at = @ + 1, !.failures = @ + 1]
      BY <2>2 DEF Fails
    <3> QED
      <4>1. /\ job.at + 1 \in 0 .. MaxRows + 1 /\ job.failures + 1 \in 0 .. MaxFailures
            /\ job.at + 1 # 0
        BY <3>1, <1>c, ExcelProcessingAssumption DEF Jobs
      <4> QED
        BY <3>1, <3>2, <4>1, <1>c DEF Jobs, Working
  <2> QED
    BY <2>1, <2>2
<1>4. TypeOK'
  <2>1. uploading' \in BOOLEAN
    BY <1>t DEF Fails, TypeOK
  <2> QED
    BY <1>t, <1>2, <1>3, <2>1 DEF TypeOK, Fails, Jobs
<1>5. JobIsCurrent'
  BY <1>c, <1>2 DEF JobIsCurrent, Fails, Working, Jobs
<1>6. RowsFollowJob'
  BY <1>c, <1>2, <1>3 DEF RowsFollowJob, Fails, Decided, Untouched, Jobs
<1>7. Pausing'
  BY <1>1, <1>c, <1>2, <1>3 DEF Pausing, Fails
<1>8. \A r \in 1 .. total : r < job'.at => ~StopsAt(r)'
  <2> SUFFICES ASSUME NEW r \in 1 .. total, r < job'.at PROVE ~StopsAt(r)'
    OBVIOUS
  <2>1. CASE r = job.at
    <3>1. /\ job'.at = job.at + 1 /\ outcome = "error" /\ job.failures + 1 < MaxFailures
      BY <2>1, <1>2, <1>c DEF Jobs
    <3>2. SUFFICES ASSUME r >= MaxFailures
                   PROVE  \E s \in r - MaxFailures + 1 .. r : shows'[s] # "error"
      BY <2>1, <3>1, <1>3 DEF StopsAt
    <3>3. /\ job.failures \in Nat /\ job.failures + 1 < job.at
          /\ job.at - job.failures - 1 \in r - MaxFailures + 1 .. r
          /\ job.at - job.failures - 1 \in 1 .. total
          /\ job.at - job.failures - 1 # job.at
      BY <2>1, <3>1, <3>2, <1>c, ExcelProcessingAssumption DEF Jobs
    <3> QED
      BY <3>3, <1>k, <1>3
  <2>2. CASE r < job.at
    <3>1. \A s \in r - MaxFailures + 1 .. r : r >= MaxFailures => s \in 1 .. total /\ s # job.at
      BY <2>2, <1>c, ExcelProcessingAssumption DEF Jobs
    <3> QED
      BY <2>2, <3>1, <1>c, <1>k, <1>3 DEF StopsAt
  <2> QED
    BY <2>1, <2>2, <1>c, <1>2 DEF Jobs
<1>9. CountersAgree'
  <2>1. job'.failures < MaxFailures /\ job'.found < job'.at /\ job'.found # 0
    BY <1>1, <1>c, <1>k, <1>2 DEF Jobs
  <2>2. ASSUME job'.failures + 1 < job'.at
        PROVE  shows'[job'.at - job'.failures - 1] # "error"
    <3>1. /\ job'.at - job'.failures - 1 = job.at - job.failures - 1
          /\ job.failures + 1 < job.at
          /\ job.at - job.failures - 1 \in 1 .. total
          /\ job.at - job.failures - 1 # job.at
      BY <2>2, <1>2, <1>c DEF Jobs
    <3> QED
      BY <3>1, <1>k, <1>3
  <2> QED
    BY <2>1, <2>2, <1>8 DEF CountersAgree, Fails
<1>10. SearchJobSparesTorob'
  BY <1>c, <1>2, <1>3, <1>8, ExcelProcessingAssumption
  DEF SearchJobSparesTorob, Searched, Fails, StopsAt, Untouched, Jobs
<1>11. ReadyIsDecided' /\ NothingThrownAway'
  BY <1>c DEF ReadyIsDecided, NothingThrownAway, Fails
<1> QED
  BY <1>4, <1>5, <1>6, <1>7, <1>9, <1>10, <1>11 DEF IInv

LEMMA FailsAtOnceStep == IInv /\ FailsAtOnce => IInv'
<1> SUFFICES ASSUME IInv, FailsAtOnce PROVE IInv'
  OBVIOUS
<1>1. AtRow("add") /\ job.found = 0 /\ CountersAgree
  BY DEF FailsAtOnce, IInv
<1>2. \A r \in 1 .. total : shows[r] = "nothing"
  BY <1>1 DEF CountersAgree, AtRow
<1>3. ~uploading
  BY <1>1, CurrentRow
<1>4. /\ job' = NoJob /\ UNCHANGED <<kind, rows, crashes>>
      /\ status' = "failed" /\ reason' = "torob"
  BY DEF FailsAtOnce
<1>5. uploading' \in BOOLEAN /\ uploading' = uploading
  BY DEF FailsAtOnce, IInv, TypeOK
<1> QED
  BY <1>2, <1>3, <1>4, <1>5, JobOver

\* The rows that the pausing job did not search are marked.
LEMMA MarksRemainingStep == IInv /\ MarksRemaining => IInv'
<1> SUFFICES ASSUME IInv, MarksRemaining PROVE IInv'
  OBVIOUS
<1>1. /\ Working /\ kind = "add" /\ job.at <= total /\ job.found > 0 /\ job.pause = "mark"
      /\ shows[job.at] \in {"error", "blocked"}
  BY DEF IInv, Pausing, MarksRemaining
<1>2. TypeOK /\ job \in Jobs /\ total \in Nat /\ job.at \in 1 .. total
  BY <1>1, ExcelProcessingAssumption DEF IInv, TypeOK, Jobs, Working
<1>3. /\ job' \in Jobs /\ job'.at = job.at /\ job'.failures = job.failures
      /\ job'.found = job.found /\ job'.pause = "end" /\ Working'
  BY <1>1, <1>2 DEF MarksRemaining, Jobs, Working
<1>4. \A r \in 1 .. total : /\ r < job.at => shows[r] # "nothing"
                            /\ r > job.at => shows[r] = "nothing"
  BY <1>1, <1>2 DEF IInv, RowsFollowJob, Decided, Untouched
<1>5. shows' = [r \in 1 .. total |-> IF Waits(r) THEN "waiting" ELSE shows[r]]
  BY DEF MarksRemaining
<1>6. \A r \in 1 .. total : /\ r <= job.at => shows'[r] = shows[r]
                            /\ r > job.at => shows'[r] = "waiting"
  BY <1>1, <1>2, <1>4, <1>5 DEF Waits, Jobs
<1>7. shows' \in [1 .. total -> Outcomes]
  BY <1>2, <1>5 DEF TypeOK, Outcomes
<1>8. TypeOK'
  <2>1. uploading' \in BOOLEAN
    BY <1>2 DEF MarksRemaining, TypeOK
  <2> QED
    BY <1>2, <1>3, <1>7, <2>1 DEF TypeOK, MarksRemaining, Jobs
<1>9. JobIsCurrent'
  BY <1>1, <1>3 DEF IInv, JobIsCurrent, MarksRemaining
<1>10. RowsFollowJob'
  BY <1>1, <1>2, <1>3, <1>4, <1>6 DEF RowsFollowJob, Decided, MarksRemaining, Jobs
<1>11. Pausing'
  BY <1>1, <1>2, <1>3, <1>6 DEF Pausing, MarksRemaining, Jobs
<1>12. \A r \in 1 .. total : StopsAt(r)' => r >= job.at
  <2> SUFFICES ASSUME NEW r \in 1 .. total, r < job.at PROVE ~StopsAt(r)'
    BY <1>2 DEF Jobs
  <2>1. ~StopsAt(r)
    BY <1>1 DEF IInv, CountersAgree
  <2>2. r >= MaxFailures => \A s \in r - MaxFailures + 1 .. r : s \in 1 .. total /\ s <= job.at
    BY <1>2, ExcelProcessingAssumption DEF Jobs
  <2>3. shows'[r] = shows[r]
    BY <1>2, <1>6 DEF Jobs
  <2> QED
    BY <2>1, <2>2, <2>3, <1>6 DEF StopsAt
<1>13. CountersAgree'
  <2>1. job.failures + 1 < job.at => /\ job.at - job.failures - 1 \in 1 .. total
                                     /\ job.at - job.failures - 1 <= job.at
    BY <1>2 DEF Jobs
  <2>2. job.failures + 1 < job.at => shows'[job.at - job.failures - 1] # "error"
    BY <1>1, <1>6, <2>1 DEF IInv, CountersAgree
  <2>3. job.failures < MaxFailures /\ job.found < job.at
    BY <1>1 DEF IInv, CountersAgree
  <2>4. \A r \in 1 .. total : r < job.at => ~StopsAt(r)'
    BY <1>2, <1>12 DEF Jobs
  <2>5. job.found # 0
    BY <1>1, <1>2 DEF Jobs
  <2> QED
    BY <1>3, <2>2, <2>3, <2>4, <2>5 DEF CountersAgree, MarksRemaining
<1>14. SearchJobSparesTorob'
  <2> SUFFICES ASSUME NEW r \in 1 .. total, StopsAt(r)', NEW s \in r + 1 .. total
               PROVE  ~Searched(s)'
    BY DEF SearchJobSparesTorob, StopsAt, MarksRemaining
  <2>1. s \in 1 .. total /\ s > job.at
    BY <1>2, <1>12 DEF Jobs
  <2> QED
    BY <2>1, <1>6 DEF Searched
<1>15. ReadyIsDecided' /\ NothingThrownAway'
  BY <1>1 DEF IInv, JobIsCurrent, ReadyIsDecided, NothingThrownAway, MarksRemaining
<1> QED
  BY <1>8, <1>9, <1>10, <1>11, <1>13, <1>14, <1>15 DEF IInv

\* A row of a price update has no new price, or its search failed.
StaysToReview == \E outcome \in {"error", "blocked"} : ToReview(outcome)

LEMMA NoPriceOrSearchFails ==
    NoNewPrice \/ (\E outcome \in {"error", "blocked"} : SearchFails(outcome)) => StaysToReview
  BY DEF NoNewPrice, SearchFails, StaysToReview

\* A row of a price update is decided in one step, whatever is found out.
LEMMA PriceStep ==
    IInv /\ (StaysToReview \/ Unchanged \/ SelectsKnown \/ FindsNew) => IInv'
<1> SUFFICES ASSUME IInv, StaysToReview \/ Unchanged \/ SelectsKnown \/ FindsNew PROVE IInv'
  OBVIOUS
<1> USE DEF StaysToReview, ToReview, Unchanged, SelectsKnown, FindsNew
<1>1. AtRow("price_update")
  OBVIOUS
<1>c. /\ Working /\ kind = "price_update" /\ job.at \in 1 .. total /\ job.pause = "no"
      /\ status = "processing" /\ reason = "none" /\ ~uploading
      /\ Untouched(job.at)
      /\ job \in Jobs /\ total \in Nat /\ total <= MaxRows
      /\ \A r \in 1 .. total : r < job.at => Decided(r)
      /\ \A r \in 1 .. total : r > job.at => Untouched(r)
  BY <1>1, CurrentRow
<1>t. TypeOK
  BY DEF IInv
<1>2. /\ job' \in Jobs /\ job'.at = job.at + 1 /\ job'.pause = "no" /\ Working'
  <2>1. job.at + 1 \in 0 .. MaxRows + 1 /\ job.at + 1 # 0
    BY <1>c, ExcelProcessingAssumption DEF Jobs
  <2>2. job' = [job EXCEPT !.at = job.at + 1]
    BY DEF Goes
  <2> QED
    BY <2>1, <2>2, <1>c DEF Jobs, Working
<1>3. UNCHANGED <<kind, status, reason, total, crashes>> /\ uploading' = uploading
  OBVIOUS
<1>o. operation[job.at] \in Operations
  BY <1>c, <1>t DEF TypeOK
<1>4. /\ shows' \in [1 .. total -> Outcomes]
      /\ operation' \in [1 .. total -> Operations]
      /\ selected' \subseteq 1 .. total
      /\ \A r \in 1 .. total : r # job.at =>
            shows'[r] = shows[r] /\ operation'[r] = operation[r] /\ (r \in selected' <=> r \in selected)
  <2>1. CASE StaysToReview
    BY <2>1, <1>c, <1>t DEF TypeOK, Outcomes, Operations
  <2>2. CASE Unchanged
    BY <2>2, <1>c, <1>t DEF TypeOK, Outcomes, Operations
  <2>3. CASE SelectsKnown \/ FindsNew
    BY <2>3, <1>c, <1>t DEF TypeOK, Outcomes, Operations
  <2> QED
    BY <2>1, <2>2, <2>3
<1>5. TypeOK'
  <2>1. uploading' \in BOOLEAN
    BY <1>t DEF TypeOK
  <2> QED
    BY <1>t, <1>2, <1>3, <1>4, <2>1 DEF TypeOK, Jobs
<1>6. JobIsCurrent'
  <2>1. job'.at <= total' + 1 /\ ~uploading'
    BY <1>c, <1>2, <1>3 DEF Jobs
  <2> QED
    BY <2>1, <1>c, <1>2, <1>3 DEF JobIsCurrent
<1>7. ASSUME NEW r \in 1 .. total, r = job.at PROVE Decided(r)'
  <2>1. CASE StaysToReview
    BY <2>1, <1>7, <1>c, <1>t DEF Untouched, Decided, TypeOK, AtRow
  <2>2. CASE Unchanged
    BY <2>2, <1>7, <1>c, <1>t DEF Untouched, Decided, TypeOK, AtRow
  <2>3. CASE SelectsKnown
    BY <2>3, <1>7, <1>c, <1>t DEF Untouched, Decided, TypeOK, AtRow
  <2>4. CASE FindsNew
    BY <2>4, <1>7, <1>c, <1>t DEF Untouched, Decided, TypeOK, AtRow
  <2> QED
    BY <2>1, <2>2, <2>3, <2>4
<1> HIDE DEF StaysToReview, ToReview, Unchanged, SelectsKnown, FindsNew
<1>8. RowsFollowJob'
  <2> SUFFICES ASSUME NEW r \in 1 .. total
               PROVE  /\ r < job'.at => Decided(r)'
                      /\ r >= job'.at => Untouched(r)'
    BY <1>2, <1>3 DEF RowsFollowJob
  <2>1. CASE r = job.at
    BY <2>1, <1>7, <1>2, <1>c DEF Jobs
  <2>2. CASE r < job.at
    <3>1. Decided(r)' /\ r < job'.at
      BY <2>2, <1>2, <1>3, <1>4, <1>c DEF Decided, Jobs
    <3> QED
      BY <3>1, <1>2, <1>c DEF Jobs
  <2>3. CASE r > job.at
    <3>1. Untouched(r)' /\ ~(r < job'.at)
      BY <2>3, <1>2, <1>3, <1>4, <1>c DEF Untouched, Jobs
    <3> QED
      BY <3>1
  <2> QED
    BY <2>1, <2>2, <2>3, <1>c DEF Jobs
<1>9. Pausing' /\ CountersAgree'
  BY <1>c, <1>2, <1>3 DEF Pausing, CountersAgree
<1>10. SearchJobSparesTorob' /\ ReadyIsDecided' /\ NothingThrownAway'
  BY <1>c, <1>3 DEF SearchJobSparesTorob, ReadyIsDecided, NothingThrownAway
<1> QED
  BY <1>5, <1>6, <1>8, <1>9, <1>10 DEF IInv

-----------------------------------------------------------------------------
\* The job ends when every row is decided: it is past the last one, or has
\* marked those that it did not search.
LEMMA FinishesStep == IInv /\ Finishes => IInv'
<1> SUFFICES ASSUME IInv, Finishes PROVE IInv'
  OBVIOUS
<1>1. Working /\ ~uploading /\ reason = "none" /\ status = "processing"
  BY DEF IInv, JobIsCurrent, Finishes
<1>2. job \in Jobs /\ total \in Nat
  BY ExcelProcessingAssumption DEF IInv, TypeOK, Jobs
<1>3. \A r \in 1 .. total : Decided(r)
  <2>1. CASE job.pause = "end"
    BY <2>1, <1>1, <1>2 DEF IInv, Pausing, RowsFollowJob, Decided, Jobs
  <2>2. CASE job.at > total
    BY <2>2, <1>1, <1>2 DEF IInv, RowsFollowJob, Jobs
  <2> QED
    BY <2>1, <2>2 DEF Finishes
<1>4. /\ job' = NoJob /\ UNCHANGED <<kind, rows, crashes>>
      /\ status' = "ready" /\ reason' = "none"
  BY <1>1 DEF Finishes
<1>5. uploading' \in BOOLEAN /\ uploading' = uploading
  BY DEF Finishes, IInv, TypeOK
<1> QED
  BY <1>1, <1>3, <1>4, <1>5, JobOver

LEMMA BreaksStep == IInv /\ Breaks => IInv'
<1> SUFFICES ASSUME IInv, Breaks PROVE IInv'
  OBVIOUS
<1>1. ~uploading
  BY DEF IInv, JobIsCurrent, Breaks
<1>2. /\ job' = NoJob /\ UNCHANGED <<kind, rows, crashes>>
      /\ status' = "failed" /\ reason' = "exception"
  BY DEF Breaks
<1>3. uploading' \in BOOLEAN /\ uploading' = uploading
  BY DEF Breaks, IInv, TypeOK
<1> QED
  BY <1>1, <1>2, <1>3, JobOver

\* A restart leaves the tables as they are.
LEMMA CrashStep == IInv /\ Crash => IInv'
<1> SUFFICES ASSUME IInv, Crash PROVE IInv'
  OBVIOUS
<1>1. job' \in Jobs /\ ~Working' /\ job'.pause = "no"
  BY ExcelProcessingAssumption DEF Crash, NoJob, Jobs, Working
<1>2. TypeOK /\ UNCHANGED <<kind, status, reason, rows>> /\ uploading' = FALSE
  BY DEF Crash, IInv
<1>3. TypeOK'
  <2>1. crashes' \in 0 .. MaxCrashes
    BY <1>2, ExcelProcessingAssumption DEF Crash, TypeOK
  <2>2. uploading' \in BOOLEAN
    BY <1>2
  <2> QED
    BY <1>1, <1>2, <2>1, <2>2 DEF TypeOK, rows, Jobs
<1>4. JobIsCurrent'
  BY <1>1, <1>2 DEF IInv, JobIsCurrent, rows
<1>5. SearchJobSparesTorob'
  BY <1>2 DEF IInv, SearchJobSparesTorob, Searched, rows
<1>6. ReadyIsDecided' /\ NothingThrownAway'
  BY <1>2 DEF IInv, ReadyIsDecided, NothingThrownAway, Decided, rows
<1> QED
  BY <1>1, <1>3, <1>4, <1>5, <1>6 DEF IInv, RowsFollowJob, Pausing, CountersAgree

LEMMA StutterStep == IInv /\ UNCHANGED vars => IInv'
<1> SUFFICES ASSUME IInv, UNCHANGED vars PROVE IInv'
  OBVIOUS
<1> USE DEF IInv, vars, rows
<1>1. TypeOK' /\ JobIsCurrent'
  <2>1. TypeOK'
    BY DEF TypeOK
  <2>2. JobIsCurrent'
    BY DEF JobIsCurrent, Working
  <2> QED
    BY <2>1, <2>2
<1>2. RowsFollowJob' /\ Pausing' /\ CountersAgree'
  BY DEF RowsFollowJob, Pausing, CountersAgree, Working, Decided, Untouched, StopsAt
<1>3. SearchJobSparesTorob' /\ ReadyIsDecided' /\ NothingThrownAway'
  BY DEF SearchJobSparesTorob, ReadyIsDecided, NothingThrownAway, Searched, Decided
<1> QED
  BY <1>1, <1>2, <1>3

LEMMA NextIInv == IInv /\ [Next]_vars => IInv'
<1> SUFFICES ASSUME IInv, [Next]_vars PROVE IInv'
  OBVIOUS
<1>1. CASE CreateSubmission
  BY <1>1, CreateSubmissionStep
<1>2. CASE \E n \in 0 .. MaxRows : StoreRows(n)
  BY <1>2, StoreRowsStep
<1>3. CASE UploadFails
  BY <1>3, UploadFailsStep
<1>4. CASE JobStep
  BY <1>4, FindsStep, FailsAtOnceStep, FailsStep, MarksRemainingStep, NoPriceOrSearchFails, PriceStep,
     FinishesStep, BreaksStep DEF JobStep
<1>5. CASE Crash
  BY <1>5, CrashStep
<1>6. CASE UNCHANGED vars
  BY <1>6, StutterStep
<1> QED
  BY <1>1, <1>2, <1>3, <1>4, <1>5, <1>6 DEF Next

\* A row that shows something is none that a step of the job writes to.
LEMMA NextOutcomesAreFinal ==
    ASSUME IInv, [Next]_vars, NEW r \in 1 .. total, shows[r] # "nothing"
    PROVE  shows'[r] = shows[r] /\ operation'[r] = operation[r]
<1>1. shows \in [1 .. total -> Outcomes] /\ operation \in [1 .. total -> Operations]
  BY DEF IInv, TypeOK
<1>2. ASSUME NEW k \in {"add", "price_update"}, AtRow(k) PROVE job.at # r
  BY <1>2, CurrentRow DEF Untouched
<1>3. CASE \E n \in 0 .. MaxRows : StoreRows(n)
  <2>1. total = 0
    BY <1>3 DEF IInv, JobIsCurrent, StoreRows
  <2> QED
    BY <2>1
<1>4. CASE Finds \/ \E outcome \in {"error", "blocked"} : Fails(outcome)
  <2>1. AtRow("add")
    BY <1>4 DEF Finds, Fails
  <2>2. job.at # r
    BY <2>1, <1>2
  <2> QED
    BY <1>1, <1>4, <2>2 DEF Finds, Fails
<1>5. CASE StaysToReview \/ Unchanged \/ SelectsKnown \/ FindsNew
  <2>1. AtRow("price_update")
    BY <1>5 DEF StaysToReview, ToReview, Unchanged, SelectsKnown, FindsNew
  <2>2. job.at # r
    BY <2>1, <1>2
  <2> QED
    BY <1>1, <1>5, <2>2 DEF StaysToReview, ToReview, Unchanged, SelectsKnown, FindsNew
<1>6. CASE MarksRemaining
  BY <1>6 DEF MarksRemaining, Waits
<1>7. CASE \/ CreateSubmission \/ UploadFails \/ FailsAtOnce \/ Finishes \/ Breaks \/ Crash
           \/ UNCHANGED vars
  BY <1>7 DEF CreateSubmission, UploadFails, FailsAtOnce, Finishes, Breaks, Crash, vars, rows
<1> QED
  BY <1>3, <1>4, <1>5, <1>6, <1>7, NoPriceOrSearchFails DEF Next, JobStep

-----------------------------------------------------------------------------
\* The invariant of the upload and both jobs (process_submission_matches,
\* process_excel_update_submission): the rows are decided up to the current one.
THEOREM SpecIInv == Spec => []IInv
<1>1. Init => IInv
  BY InitIInv
<1>2. IInv /\ [Next]_vars => IInv'
  BY NextIInv
<1> QED
  BY <1>1, <1>2, PTL DEF Spec

\* Every variable keeps its type, the job stays within the rows of its file.
THEOREM SpecTypeOK == Spec => []TypeOK
<1>1. IInv => TypeOK
  BY DEF IInv
<1> QED
  BY <1>1, SpecIInv, PTL

\* When either job reports ready, every row shows what the seller can act on.
THEOREM SpecReadyIsDecided == Spec => []ReadyIsDecided
<1>1. IInv => ReadyIsDecided
  BY DEF IInv
<1> QED
  BY <1>1, SpecIInv, PTL

\* After the limit of failing searches in a row, or a search that Torob turned
\* away, the job of a file of new products searches for no further row.
THEOREM SpecSearchJobSparesTorob == Spec => []SearchJobSparesTorob
<1>1. IInv => SearchJobSparesTorob
  BY DEF IInv
<1> QED
  BY <1>1, SpecIInv, PTL

\* The job gives up for an error of Torob only when nothing was found. (Of other
\* exceptions, which fail a submission with what it has, it says nothing.)
THEOREM SpecNothingThrownAway == Spec => []NothingThrownAway
<1>1. IInv => NothingThrownAway
  BY DEF IInv
<1> QED
  BY <1>1, SpecIInv, PTL

\* What processing-status has reported of a row is not taken back.
THEOREM SpecOutcomesAreFinal == Spec => OutcomesAreFinal
<1> DEFINE Final == \A r \in 1 .. total :
                        shows[r] # "nothing" => shows'[r] = shows[r] /\ operation'[r] = operation[r]
<1>1. IInv /\ [Next]_vars => [Final]_vars
  BY NextOutcomesAreFinal
<1> QED
  BY <1>1, SpecIInv, PTL DEF Spec, OutcomesAreFinal
=============================================================================
