---------------------------- MODULE TorobRequests ----------------------------
(***************************************************************************)
(* The requests of all searches to Torob pass through one rate limiter: it *)
(* holds its lock while it sleeps, so the searches pass in the order in    *)
(* which they asked. A text search asks again after some errors; a search  *)
(* by image makes two requests. Time goes in ticks; waking up may be late. *)
(* (An interval of 0 switches the limiter off.)                            *)
(***************************************************************************)
EXTENDS Naturals, Sequences, SequencesExt

CONSTANTS
    Searchers,      \* coroutines that search, again and again
    Interval,       \* torob_rate_limit_seconds, in ticks
    MaxRetries      \* torob_max_retries

ASSUME TorobRequestsAssumption == Interval \in Nat \ {0} /\ MaxRetries \in Nat

VARIABLES
    search,         \* what each searcher is doing
    queue,          \* those who wait for the lock of the limiter, first in first out
    holder,         \* who holds the lock and sleeps, and how long it has waited
    allowed,        \* ticks until _next_allowed_at, 0 once it is past
    sinceLast       \* history: ticks since the last request, up to Interval

vars == <<search, queue, holder, allowed, sinceLast>>

Idle == [phase |-> "idle", kind |-> "none", sent |-> 0]
Free == [waited |-> 0, by |-> {}]

Init ==
    /\ search = [s \in Searchers |-> Idle]
    /\ queue = <<>>
    /\ holder = Free
    /\ allowed = 0
    /\ sinceLast = Interval

\* Mutant: the last one to ask is served first.
Pushed(s) == <<s>> \o queue

Queued(s) == Append(queue, s)

Starts(s, kind) ==
    /\ search[s].phase = "idle"
    /\ search' = [search EXCEPT ![s] = [phase |-> "queued", kind |-> kind, sent |-> 0]]
    /\ queue' = Queued(s)
    /\ UNCHANGED <<holder, allowed, sinceLast>>

TakesLock ==
    /\ queue # <<>> /\ holder.by = {}
    /\ holder' = [waited |-> 0, by |-> {Head(queue)}]
    /\ queue' = Tail(queue)
    /\ UNCHANGED <<search, allowed, sinceLast>>

\* Mutant: the next time is computed from the time before the sleep.
FromBeforeTheSleep == IF holder.waited < Interval THEN Interval - holder.waited ELSE 0

NextAllowed == Interval

\* The sleep is over: the lock is released and the request is sent.
Sends(s) ==
    /\ s \in holder.by
    /\ allowed = 0
    /\ allowed' = NextAllowed
    /\ holder' = Free
    /\ search' = [search EXCEPT ![s].phase = "sent", ![s].sent = @ + 1]
    /\ sinceLast' = 0
    /\ UNCHANGED queue

\* The search ends with its results, or with an error that is raised at once.
Ends(s) ==
    /\ search[s].phase = "sent"
    /\ search' = [search EXCEPT ![s] = Idle]
    /\ UNCHANGED <<queue, holder, allowed, sinceLast>>

\* The upload of an image was answered: the search for it is another request.
ImageUploaded(s) ==
    /\ search[s].phase = "sent" /\ search[s].kind = "image" /\ search[s].sent = 1
    /\ search' = [search EXCEPT ![s].phase = "queued"]
    /\ queue' = Queued(s)
    /\ UNCHANGED <<holder, allowed, sinceLast>>

\* A timeout or an unusable answer of a text search.
BacksOff(s) ==
    /\ search[s].phase = "sent" /\ search[s].kind = "text"
    /\ search[s].sent <= MaxRetries
    /\ search' = [search EXCEPT ![s].phase = "backoff"]
    /\ UNCHANGED <<queue, holder, allowed, sinceLast>>

TriesAgain(s) ==
    /\ search[s].phase = "backoff"
    /\ search' = [search EXCEPT ![s].phase = "queued"]
    /\ queue' = Queued(s)
    /\ UNCHANGED <<holder, allowed, sinceLast>>

Tick ==
    /\ allowed > 0 \/ sinceLast < Interval
    /\ allowed' = IF allowed > 0 THEN allowed - 1 ELSE 0
    /\ sinceLast' = IF sinceLast < Interval THEN sinceLast + 1 ELSE sinceLast
    /\ holder' = IF holder.by # {} /\ allowed > 0 THEN [holder EXCEPT !.waited = @ + 1] ELSE holder
    /\ UNCHANGED <<search, queue>>

Step(s) == Sends(s) \/ Ends(s) \/ ImageUploaded(s) \/ BacksOff(s) \/ TriesAgain(s)

Next ==
    \/ \E s \in Searchers : Step(s) \/ \E kind \in {"text", "image"} : Starts(s, kind)
    \/ TakesLock
    \/ Tick

Spec == Init /\ [][Next]_vars

\* Time goes on, the lock is handed over, and a searcher whose request ended,
\* which it does after its timeout at the latest, goes on.
FairSpec == Spec /\ WF_vars(Tick) /\ WF_vars(TakesLock) /\ \A s \in Searchers : WF_vars(Step(s))

----------------------------------------------------------------------------
Searches == [phase : {"idle", "queued", "sent", "backoff"}, kind : {"none", "text", "image"},
             sent : Nat]

\* A text search asks once and MaxRetries times again, a search by image uploads
\* the image and asks for it.
WithinRequests(c) ==
    /\ c.kind = "none" => c.sent = 0
    /\ c.kind = "text" => c.sent <= MaxRetries + 1
    /\ c.kind = "image" => c.sent <= 2

\* No search makes more requests than its kind is allowed, and the clock of the
\* limiter stays within an interval.
TypeOK ==
    /\ search \in [Searchers -> Searches]
    /\ \A s \in Searchers : WithinRequests(search[s])
    /\ queue \in Seq(Searchers)
    /\ holder \in [waited : 0 .. Interval, by : SUBSET Searchers]
    /\ {allowed, sinceLast} \subseteq 0 .. Interval

\* Who waits for the limiter has one place in its line or holds its lock, and
\* nobody else does.
OnePlaceInLine ==
    /\ IsInjective(queue)
    /\ holder.by \subseteq Searchers \ ToSet(queue)
    /\ \A s, t \in holder.by : s = t
    /\ \A s \in Searchers : search[s].phase = "queued" <=> s \in ToSet(queue) \cup holder.by

\* Torob sees the requests of all searches at least an interval apart, first
\* attempts, repeated ones and those of image searches alike.
Spacing ==
    [][\A s \in Searchers :
          search[s].phase # "sent" /\ search'[s].phase = "sent" => sinceLast = Interval]_vars

\* A search that waits gets its turn, however many others go on searching.
EveryoneIsServed == \A s \in Searchers : search[s].phase = "queued" ~> search[s].phase = "sent"
=============================================================================
