----------------------------- MODULE MatchPaging -----------------------------
(***************************************************************************)
(* The matches of one row, page by page: the first search, and what the    *)
(* seller gets from "more". A page is a window of what Torob finds, sorted *)
(* by how well it fits the name, beside the results of Basalam. The more   *)
(* Basalam has, the smaller is the window; and the first page is cut from  *)
(* a smaller answer of Torob than the pages after it.                      *)
(*                                                                         *)
(* A sorted answer is the set of its results, each with its place.         *)
(***************************************************************************)
EXTENDS Naturals, FiniteSets, FiniteSetsExt

CONSTANTS
    Torob,          \* bound of the model: results that Torob may have, by popularity
    Basalam,        \* bound of the model: results that Basalam may have
    Better,         \* the sets of results whose names may fit better than all others
    MaxFailures,    \* bound of the model: searches that fail or come too late
    PerSource,      \* MATCH_BATCH_PER_SOURCE
    Enough,         \* INITIAL_MATCH_COUNT
    FetchMin, FetchMax  \* 12 and 24: how much a search asks Torob for

ASSUME MatchPagingAssumption ==
    /\ {Torob, Basalam, MaxFailures, FetchMin, FetchMax} \subseteq Nat
    /\ {PerSource, Enough} \subseteq Nat \ {0}
    /\ Better \subseteq SUBSET (1 .. Torob)

VARIABLES
    torob, basalam, better,     \* what the two catalogues have for the name
    matches,        \* the matches of the row: <<source, id>>
    page,           \* row.next_search_page
    more,           \* row.has_more_matches
    error,          \* the row has an error message
    request,        \* the search in progress, of the first page or for "more"
    failures,
    slots,          \* history: how many results of Basalam the pages had
    whole           \* history: page 0 was shown and Torob never failed

catalogue == <<torob, basalam, better>>
row  == <<matches, page, more, error>>
vars == <<catalogue, row, request, failures, slots, whole>>

NoRequest == [kind |-> "none", page |-> 0, added |-> 0, tries |-> 0]

----------------------------------------------------------------------------
(* The search of both sources.                                             *)

Width == 2 * PerSource

FetchSize(size) == Min({Max({size * 3, FetchMin}), FetchMax})

Fits(a, b) == (a \in better /\ b \notin better) \/ ((a \in better <=> b \in better) /\ a < b)

\* The most popular results, which a search for so many gets an answer of.
Popular(size) == 1 .. Min({torob, FetchSize(size)})

\* The place of a result when they are sorted, from 0 up.
Place(found, i) == Cardinality({k \in found : Fits(k, i)})

BasalamFinds(p) == {i \in 1 .. basalam : p * PerSource < i /\ i <= (p + 1) * PerSource}

\* Mutant: the window begins as if Basalam had filled no slot.
StartOfFullPages(p, count) == p * Width

PageSize(count) == Width - Min({count, PerSource})

WindowStart(p, count) == p * PageSize(count)

\* Mutant: Torob is always asked for one page.
AsksOnePage(p) == Width

Asks(p) == Width * (p + 1)

\* The window of the best Asks(p) results.
Window(p, count) ==
    LET found == Popular(Asks(p))
        start == WindowStart(p, count)
    IN  {i \in found : /\ start <= Place(found, i) /\ Place(found, i) < start + PageSize(count)
                       /\ Place(found, i) < Asks(p)}

\* Torob may fail; Basalam may fail or take longer than it is waited for.
SearchProducts(p, torobAnswers, basalamAnswers) ==
    LET fromBasalam == IF basalamAnswers THEN BasalamFinds(p) ELSE {}
        fromTorob   == IF torobAnswers THEN Window(p, Cardinality(fromBasalam)) ELSE {}
    IN  ({"torob"} \X fromTorob) \cup ({"basalam"} \X fromBasalam)

Appended(results) == matches \cup results

----------------------------------------------------------------------------
Init ==
    /\ torob \in 0 .. Torob /\ basalam \in 0 .. Basalam /\ better \in Better
    /\ matches = {} /\ page = 1 /\ more = TRUE /\ error = FALSE
    /\ request = NoRequest
    /\ failures = 0
    /\ slots = {}
    /\ whole = FALSE

BeginFirst ==
    /\ request = NoRequest /\ matches = {} /\ (error \/ slots = {})
    /\ request' = [NoRequest EXCEPT !.kind = "first"]
    /\ more' = TRUE /\ error' = FALSE /\ page' = 1
    /\ UNCHANGED <<catalogue, matches, failures, slots, whole>>

\* The button is offered as long as the row has more. A row that a stopped
\* Eitaa job left blank begins with page 1.
BeginMore ==
    /\ request = NoRequest /\ more /\ ~error
    /\ request' = [NoRequest EXCEPT !.kind = "more", !.page = page]
    /\ UNCHANGED <<catalogue, row, failures, slots, whole>>

Shown == {i \in 1 .. torob : <<"torob", i>> \in matches}

Exhausted == Shown = 1 .. Min({torob, FetchMax})

\* What the searches did, for the properties. Once everything is shown, the
\* pages show nothing about the windows.
Observes(torobAnswers, basalamAnswers) ==
    LET used   == IF basalamAnswers THEN Cardinality(BasalamFinds(request.page)) ELSE 0
        failed == (IF torobAnswers THEN 0 ELSE 1) + (IF basalamAnswers THEN 0 ELSE 1)
    IN  /\ failures + failed <= MaxFailures
        /\ failures' = failures + failed
        /\ slots' = CASE request.kind = "first"               -> {used}
                      [] request.kind = "more" /\ Exhausted  -> slots
                      [] request.kind = "more" /\ ~Exhausted -> slots \cup {used}
        /\ whole' = (torobAnswers /\ (request.kind = "first" \/ whole))

\* Mutant: a row whose first search found nothing still offers more.
StillOffersMore(results) == TRUE

OffersMore(results) == results # {}

FirstSearchEnds(torobAnswers, basalamAnswers) ==
    LET results == SearchProducts(0, torobAnswers, basalamAnswers)
    IN  /\ request.kind = "first"
        /\ matches' = Appended(results)
        /\ error' = (results = {})
        /\ more' = OffersMore(results)
        /\ page' = 1
        /\ request' = NoRequest
        /\ Observes(torobAnswers, basalamAnswers)
        /\ UNCHANGED catalogue

\* One of up to three pages of a "more". No results are an error of the search,
\* which ends "more" for good and keeps what the pages before have added.
MoreSearchEnds(torobAnswers, basalamAnswers) ==
    LET results == SearchProducts(request.page, torobAnswers, basalamAnswers)
        added   == request.added + Cardinality(results \ matches)
        ends    == results = {} \/ added >= Enough \/ request.tries = 2
    IN  /\ request.kind = "more"
        /\ matches' = Appended(results)
        /\ page' = IF results = {} THEN page ELSE request.page + 1
        /\ more' = (more /\ results # {} /\ (ends => added > 0))
        /\ request' = IF ends THEN NoRequest
                      ELSE [request EXCEPT !.page = @ + 1, !.added = added, !.tries = @ + 1]
        /\ Observes(torobAnswers, basalamAnswers)
        /\ UNCHANGED <<catalogue, error>>

Next ==
    \/ BeginFirst \/ BeginMore
    \/ \E torobAnswers, basalamAnswers \in BOOLEAN :
          \/ FirstSearchEnds(torobAnswers, basalamAnswers)
          \/ MoreSearchEnds(torobAnswers, basalamAnswers)

Spec == Init /\ [][Next]_vars

----------------------------------------------------------------------------
\* The row holds what its columns allow; a row with an error has no matches.
TypeOK ==
    /\ torob \in 0 .. Torob /\ basalam \in 0 .. Basalam /\ better \in Better
    /\ matches \subseteq ({"torob"} \X (1 .. torob)) \cup ({"basalam"} \X (1 .. basalam))
    /\ page \in Nat \ {0}
    /\ {more, error, whole} \subseteq BOOLEAN
    /\ error => matches = {} /\ ~more
    /\ request \in [kind : {"none", "first", "more"}, page : Nat, added : 0 .. Enough, tries : 0 .. 2]
    /\ failures \in 0 .. MaxFailures

\* The pages had one width, and the later ones did not bring better results
\* into places that were passed already.
Steady == Cardinality(slots) <= 1 /\ \A b \in better : b <= FetchSize(Width)

\* While the pages keep their width, what the seller sees of Torob are its best
\* results, with none left out between them.
NothingSkipped ==
    whole /\ Steady /\ request = NoRequest =>
        \A a \in Shown, b \in 1 .. Min({torob, FetchMax}) : Fits(b, a) => b \in Shown

\* Then, too, "more" is taken away only when everything was shown that Torob
\* gives for the name.
EndMeansExhausted ==
    whole /\ Steady /\ ~more => Exhausted
=============================================================================
