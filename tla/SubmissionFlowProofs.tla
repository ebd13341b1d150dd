------------------------- MODULE SubmissionFlowProofs -------------------------
(***************************************************************************)
(* For any rows, searches, rebuilds and restarts: the types of             *)
(* SubmissionFlow, that no reference dangles, and that the submitted rows  *)
(* are those in a batch. Without rebuilds also that a row is registered    *)
(* once, as it was selected, and that registered rows do not change.       *)
(***************************************************************************)
EXTENDS SubmissionFlow, FiniteSetTheorems, TLAPS

Statuses == {"ready", "submitted"}

Saves == {NoSave} \cup [kind : {"draft", "continue", "complete"},
                        seenSubmitted : [Rows -> BOOLEAN], seenStatus : Statuses]

SearchStates == {NoSearch} \cup [kind : {"retry", "more"}, row : Rows, known : SUBSET Found]

RebuildStates == {NoRebuild} \cup [at : {"loaded", "planned"}, picks : [Rows -> SUBSET Pick],
                                   seenSubmitted : [Rows -> BOOLEAN], seenStatus : Statuses]

\* What the requests in progress hold.
RequestsOK ==
    /\ save \in Saves
    /\ search \in [Searches -> SearchStates]
    /\ rebuild \in [Rebuilders -> RebuildStates]

IInv ==
    /\ TypeOK
    /\ RequestsOK
    /\ ReferencesResolve
    /\ SubmittedMeansBatched

-----------------------------------------------------------------------------
\* What is selected of a row becomes items of that row and no other.
LEMMA ItemsOfPicksType ==
    ASSUME NEW r \in Rows, NEW picks \in SUBSET Pick, NEW operation \in Operations
    PROVE  /\ ItemsOfPicks(r, picks, operation) \subseteq Item
           /\ \A i \in ItemsOfPicks(r, picks, operation) :
                 i.row = r /\ i.operation = operation /\ \E c \in picks : i.match = c.match
           /\ picks # {} => ItemsOfPicks(r, picks, operation) # {}
<1> DEFINE item(c) == [row |-> r, match |-> c.match, price |-> c.price, operation |-> operation]
<1>1. ASSUME NEW c \in picks
      PROVE  item(c) \in Item /\ item(c).row = r /\ item(c).operation = operation
             /\ item(c).match = c.match
  BY DEF Pick, Item
<1>2. ItemsOfPicks(r, picks, operation) = {item(c) : c \in picks}
  BY DEF ItemsOfPicks
<1> HIDE DEF item
<1> QED
  BY <1>1, <1>2

\* A form ticks matches that its row has.
LEMMA FormsTick ==
    ASSUME TypeOK, NEW form \in Forms, NEW r \in Rows
    PROVE  form[r] \in SUBSET Pick /\ \A c \in form[r] : MatchExists(r, c.match)
<1>1. form[r] \in Ticked(r)
  BY DEF Forms
<1>2. PICK ms \in SUBSET matches[r], p \in Prices : form[r] = {[match |-> m.n, price |-> p] : m \in ms}
  BY <1>1 DEF Ticked
<1>3. \A m \in ms : m.n \in 1 .. MaxMatches /\ m \in matches[r]
  BY DEF TypeOK, Match
<1>4. ASSUME NEW c \in form[r] PROVE c \in Pick /\ \E m \in matches[r] : m.n = c.match
  <2>1. PICK m \in ms : c = [match |-> m.n, price |-> p]
    BY <1>2
  <2>2. c.match = m.n
    BY <2>1
  <2> QED
    BY <1>3, <2>1, <2>2 DEF Pick
<1> QED
  BY <1>4 DEF MatchExists

\* A new batch adds its items, and the other batches stay.
LEMMA BatchAppended ==
    ASSUME batches \in Seq(SUBSET Item), NEW new \in SUBSET Item, batches' = Append(batches, new)
    PROVE  /\ batches' \in Seq(SUBSET Item)
           /\ Items' = Items \cup new
           /\ \A r : Batched(r)' <=> Batched(r) \/ \E i \in new : i.row = r
<1>1. /\ batches' \in Seq(SUBSET Item)
      /\ DOMAIN batches' = 1 .. Len(batches) + 1
      /\ DOMAIN batches = 1 .. Len(batches)
      /\ Len(batches) \in Nat
      /\ \A k \in 1 .. Len(batches) : batches'[k] = batches[k]
      /\ batches'[Len(batches) + 1] = new
  OBVIOUS
<1>2. Items' = Items \cup new
  BY <1>1 DEF Items
<1> QED
  BY <1>1, <1>2 DEF Batched

LEMMA ItemsType == ASSUME batches \in Seq(SUBSET Item) PROVE Items \subseteq Item
  BY DEF Items

\* A finite set is listed by SetToSeq.
LEMMA SetToSeqIsBijection ==
    ASSUME NEW S, IsFiniteSet(S)
    PROVE  /\ Cardinality(S) \in Nat
           /\ SetToSeq(S) \in [1 .. Cardinality(S) -> S]
           /\ Len(SetToSeq(S)) = Cardinality(S)
           /\ DOMAIN SetToSeq(S) = 1 .. Cardinality(S)
           /\ IsInjective(SetToSeq(S))
<1>1. Cardinality(S) \in Nat /\ ExistsBijection(1 .. Cardinality(S), S)
  BY FS_CardinalityType
<1>2. \E f \in [1 .. Cardinality(S) -> S] : IsInjective(f)
  BY <1>1 DEF ExistsBijection, Bijection, Injection, IsInjective
<1>3. SetToSeq(S) \in [1 .. Cardinality(S) -> S] /\ IsInjective(SetToSeq(S))
  BY <1>2 DEF SetToSeq
<1> HIDE DEF SetToSeq
<1> QED
  BY <1>1, <1>3

\* New matches are added to those of the row, and no row loses any.
LEMMA AppendMatchesGrows ==
    ASSUME TypeOK, NEW r \in Rows, NEW products \in SUBSET Found, AppendMatches(r, products)
    PROVE  /\ matches' \in [Rows -> SUBSET Match]
           /\ issued' \in [Rows -> 0 .. MaxMatches]
           /\ \A s \in Rows : matches[s] \subseteq matches'[s]
<1> DEFINE new == SetToSeq(products)
           added == {[n |-> issued[r] + k, product |-> new[k]] : k \in DOMAIN new}
<1>1. IsFiniteSet(products)
  BY SubmissionFlowAssumption, FS_Subset
<1>2. /\ Len(new) \in Nat /\ DOMAIN new = 1 .. Len(new)
      /\ \A k \in DOMAIN new : new[k] \in Found
  BY <1>1, SetToSeqIsBijection
<1>3. issued[r] \in Nat /\ issued[r] + Len(new) <= MaxMatches /\ MaxMatches \in Nat
  BY SubmissionFlowAssumption DEF TypeOK, AppendMatches
<1>4. /\ matches' = [matches EXCEPT ![r] = @ \cup added]
      /\ issued' = [issued EXCEPT ![r] = @ + Len(new)]
  BY DEF AppendMatches
<1> HIDE DEF new
<1>5. added \subseteq Match
  <2>1. \A k \in DOMAIN new : issued[r] + k \in 1 .. MaxMatches
    BY <1>2, <1>3
  <2> QED
    BY <1>2, <2>1 DEF Match
<1> HIDE DEF added
<1>6. matches' \in [Rows -> SUBSET Match] /\ \A s \in Rows : matches[s] \subseteq matches'[s]
  BY <1>4, <1>5 DEF TypeOK
<1>7. issued' \in [Rows -> 0 .. MaxMatches]
  <2>1. issued[r] + Len(new) \in 0 .. MaxMatches
    BY <1>2, <1>3
  <2> QED
    BY <1>4, <2>1 DEF TypeOK
<1> QED
  BY <1>6, <1>7

-----------------------------------------------------------------------------
\* Where matches stay and neither selections nor batches change, references
\* resolve as before.
LEMMA ReferencesKept ==
    ASSUME ReferencesResolve, selections' = selections, batches' = batches,
           \A r \in Rows : matches[r] \subseteq matches'[r], batches \in Seq(SUBSET Item)
    PROVE  ReferencesResolve'
<1>1. Items' = Items
  BY DEF Items
<1>2. \A i \in Items : i.row \in Rows
  BY DEF Items, Item
<1>3. \A r \in Rows : \A n : MatchExists(r, n) => MatchExists(r, n)'
  BY DEF MatchExists
<1> QED
  BY <1>1, <1>2, <1>3 DEF ReferencesResolve

LEMMA BatchesKept ==
    ASSUME SubmittedMeansBatched, submitted' = submitted, batches' = batches
    PROVE  SubmittedMeansBatched'
  BY DEF SubmittedMeansBatched, Batched, Items

\* Nothing is batched at first, and the only matches are those of processing.
LEMMA InitIInv == Init => IInv
<1> SUFFICES ASSUME Init PROVE IInv
  OBVIOUS
<1>1. PICK product \in [Rows -> Found], price \in [Rows -> Prices] :
          /\ matches = [r \in Rows |-> IF failed[r] THEN {} ELSE {[n |-> 1, product |-> product[r]]}]
          /\ selections \in [Rows -> SUBSET {[match |-> 1, price |-> p] : p \in Prices}]
  BY DEF Init
<1>2. Items = {}
  BY DEF Init, Items
<1>3. ReferencesResolve
  <2>1. \A r \in Rows : failed[r] => selections[r] = {}
    BY DEF Init
  <2>2. ASSUME NEW r \in Rows, NEW c \in selections[r] PROVE MatchExists(r, c.match)
    <3>1. c.match = 1 /\ ~failed[r]
      BY <1>1, <2>1, <2>2
    <3>2. [n |-> 1, product |-> product[r]] \in matches[r]
      BY <1>1, <3>1
    <3> QED
      BY <3>1, <3>2 DEF MatchExists
  <2> QED
    BY <1>2, <2>2 DEF ReferencesResolve
<1>4. SubmittedMeansBatched
  <2>1. \A r \in Rows : submitted[r] = (r \in LegacyRows)
    BY DEF Init
  <2>2. \A r : ~Batched(r)
    BY <1>2 DEF Batched
  <2> QED
    BY <2>1, <2>2, Zenon DEF SubmittedMeansBatched
<1>5. TypeOK
  <2>1. matches \in [Rows -> SUBSET Match]
    <3>1. 1 \in 1 .. MaxMatches
      BY SubmissionFlowAssumption
    <3>2. \A r \in Rows : [n |-> 1, product |-> product[r]] \in Match
      BY <3>1 DEF Match
    <3> QED
      BY <1>1, <3>2
  <2>2. issued \in [Rows -> 0 .. MaxMatches]
    BY SubmissionFlowAssumption DEF Init
  <2>3. selections \in [Rows -> SUBSET Pick]
    <3>1. 1 \in 1 .. MaxMatches
      BY SubmissionFlowAssumption
    <3>2. {[match |-> 1, price |-> p] : p \in Prices} \subseteq Pick
      BY <3>1 DEF Pick
    <3> QED
      BY <1>1, <3>2
  <2>4. submitted \in [Rows -> BOOLEAN]
    BY DEF Init
  <2>5. failed \in [Rows -> BOOLEAN]
    BY DEF Init
  <2>6. batches \in Seq(SUBSET Item) /\ rebuilds \in 0 .. MaxRebuilds /\ crashes \in 0 .. MaxCrashes
    BY SubmissionFlowAssumption DEF Init
  <2> QED
    BY <2>1, <2>2, <2>3, <2>4, <2>5, <2>6 DEF Init, TypeOK
<1>6. RequestsOK
  BY DEF Init, RequestsOK, Saves, SearchStates, RebuildStates
<1> QED
  BY <1>3, <1>4, <1>5, <1>6 DEF IInv

-----------------------------------------------------------------------------
(* Draft and confirm.                                                      *)

LEMMA LoadSaveStep ==
    ASSUME IInv, NEW kind \in {"draft", "continue", "complete"}, LoadSave(kind)
    PROVE  IInv'
<1>1. UNCHANGED <<tables, search, rebuild, rebuilds, crashes>>
  BY DEF LoadSave
<1>2. UNCHANGED <<status, failed, matches, issued, selections, submitted, batches>>
  BY <1>1 DEF tables, rowVars
<1>3. TypeOK'
  BY <1>1, <1>2 DEF IInv, TypeOK
<1>4. save' \in Saves
  BY DEF IInv, TypeOK, LoadSave, Saves, Statuses
<1>5. RequestsOK'
  BY <1>1, <1>4 DEF IInv, RequestsOK, Saves, SearchStates, RebuildStates
<1>6. ReferencesResolve'
  BY <1>2, ReferencesKept DEF IInv, TypeOK
<1>7. SubmittedMeansBatched'
  BY <1>2, BatchesKept DEF IInv
<1> QED
  BY <1>3, <1>5, <1>6, <1>7 DEF IInv

\* What a form selects resolves; the rows that it leaves alone keep what they have.
LEMMA SavedSelectionsResolve ==
    ASSUME IInv, NEW form \in Forms
    PROVE  /\ SavedSelections(form) \in [Rows -> SUBSET Pick]
           /\ \A r \in Rows : \A c \in SavedSelections(form)[r] : MatchExists(r, c.match)
<1>1. ASSUME NEW r \in Rows
      PROVE  /\ SavedSelections(form)[r] \in SUBSET Pick
             /\ \A c \in SavedSelections(form)[r] : MatchExists(r, c.match)
  <2>1. SavedSelections(form)[r] \in {form[r], selections[r]}
    BY DEF SavedSelections
  <2>2. selections[r] \in SUBSET Pick /\ \A c \in selections[r] : MatchExists(r, c.match)
    BY DEF IInv, TypeOK, ReferencesResolve
  <2>3. form[r] \in SUBSET Pick /\ \A c \in form[r] : MatchExists(r, c.match)
    BY FormsTick DEF IInv
  <2> QED
    BY <2>1, <2>2, <2>3
<1> QED
  BY <1>1 DEF SavedSelections

LEMMA CommitDraftStep == ASSUME IInv, NEW form \in Forms, CommitDraft(form) PROVE IInv'
<1>1. /\ UNCHANGED <<failed, matches, issued, submitted, batches, search, rebuild, rebuilds, crashes>>
      /\ selections' = SavedSelections(form) /\ save' = NoSave
      /\ status' \in {status, "ready"}
  BY DEF CommitDraft, rowVars
<1>2. TypeOK'
  BY <1>1, SavedSelectionsResolve DEF IInv, TypeOK
<1>3. RequestsOK'
  BY <1>1 DEF IInv, RequestsOK, Saves, SearchStates, RebuildStates
<1>4. ReferencesResolve'
  BY <1>1, SavedSelectionsResolve DEF IInv, ReferencesResolve, MatchExists, Items
<1>5. SubmittedMeansBatched'
  BY <1>1, BatchesKept DEF IInv
<1> QED
  BY <1>2, <1>3, <1>4, <1>5 DEF IInv

\* The items of a confirm are those of the rows that it confirms.
LEMMA ConfirmedItemsType ==
    ASSUME IInv, NEW form \in Forms
    PROVE  /\ ConfirmedItems(form) \in SUBSET Item
           /\ \A i \in ConfirmedItems(form) :
                 i.row \in ConfirmedRows(form) /\ MatchExists(i.row, i.match)
           /\ \A r \in ConfirmedRows(form) : \E i \in ConfirmedItems(form) : i.row = r
<1>1. ASSUME NEW r \in ConfirmedRows(form)
      PROVE  /\ ItemsOfPicks(r, form[r], Operation[r]) \subseteq Item
             /\ \A i \in ItemsOfPicks(r, form[r], Operation[r]) :
                   i.row = r /\ MatchExists(r, i.match)
             /\ ItemsOfPicks(r, form[r], Operation[r]) # {}
  <2>1. r \in Rows /\ form[r] # {} /\ Operation[r] \in Operations
    BY SubmissionFlowAssumption DEF ConfirmedRows
  <2>2. form[r] \in SUBSET Pick /\ \A c \in form[r] : MatchExists(r, c.match)
    BY <2>1, FormsTick DEF IInv
  <2> QED
    BY <2>1, <2>2, ItemsOfPicksType
<1> QED
  BY <1>1 DEF ConfirmedItems

LEMMA CommitConfirmStep == ASSUME IInv, NEW form \in Forms, CommitConfirm(form) PROVE IInv'
<1> DEFINE new == ConfirmedItems(form)
<1>1. /\ UNCHANGED <<failed, matches, issued, search, rebuild, rebuilds, crashes>>
      /\ selections' = SavedSelections(form) /\ save' = NoSave
      /\ submitted' = [r \in Rows |-> submitted[r] \/ r \in ConfirmedRows(form)]
      /\ batches' = IF new = {} THEN batches ELSE Append(batches, new)
      /\ status' \in {status, "ready", "submitted"}
  BY DEF CommitConfirm, rowVars, Written
<1>2. /\ new \in SUBSET Item
      /\ \A i \in new : i.row \in ConfirmedRows(form) /\ MatchExists(i.row, i.match)
      /\ \A r \in ConfirmedRows(form) : \E i \in new : i.row = r
  BY ConfirmedItemsType
<1> HIDE DEF new
<1>3. /\ batches' \in Seq(SUBSET Item)
      /\ Items' = Items \cup new
      /\ \A r : Batched(r)' <=> Batched(r) \/ \E i \in new : i.row = r
  <2>1. batches \in Seq(SUBSET Item)
    BY DEF IInv, TypeOK
  <2>2. CASE new = {}
    BY <1>1, <2>1, <2>2 DEF Items, Batched
  <2>3. CASE new # {}
    BY <1>1, <1>2, <2>1, <2>3, BatchAppended
  <2> QED
    BY <2>2, <2>3
<1>4. TypeOK'
  <2>1. submitted' \in [Rows -> BOOLEAN]
    BY <1>1
  <2> QED
    BY <1>1, <1>3, <2>1, SavedSelectionsResolve DEF IInv, TypeOK
<1>5. RequestsOK'
  BY <1>1 DEF IInv, RequestsOK, Saves, SearchStates, RebuildStates
<1>6. ReferencesResolve'
  <2>1. \A r, n : MatchExists(r, n)' <=> MatchExists(r, n)
    BY <1>1 DEF MatchExists
  <2>2. \A r \in Rows : \A c \in selections'[r] : MatchExists(r, c.match)
    BY <1>1, SavedSelectionsResolve
  <2>3. \A i \in Items' : MatchExists(i.row, i.match)
    BY <1>2, <1>3 DEF IInv, ReferencesResolve
  <2> QED
    BY <2>1, <2>2, <2>3 DEF ReferencesResolve
<1>7. SubmittedMeansBatched'
  <2> SUFFICES ASSUME NEW r \in Rows
               PROVE  /\ submitted'[r] /\ r \notin LegacyRows => Batched(r)'
                      /\ Batched(r)' => submitted'[r]
    BY DEF SubmittedMeansBatched
  <2>1. submitted'[r] <=> submitted[r] \/ r \in ConfirmedRows(form)
    BY <1>1
  <2>2. /\ submitted[r] /\ r \notin LegacyRows => Batched(r)
        /\ Batched(r) => submitted[r]
    BY DEF IInv, SubmittedMeansBatched
  <2>3. Batched(r)' <=> Batched(r) \/ r \in ConfirmedRows(form)
    BY <1>2, <1>3
  <2> QED
    BY <2>1, <2>2, <2>3
<1> QED
  BY <1>4, <1>5, <1>6, <1>7 DEF IInv

-----------------------------------------------------------------------------
(* Searches.                                                               *)

\* The matches of a row are deleted only if no batch item refers to them; its
\* selections go with them.
LEMMA BeginRetryStep ==
    ASSUME IInv, NEW q \in Searches, NEW r \in Rows, BeginRetry(q, r)
    PROVE  IInv'
<1>1. /\ matches' = [matches EXCEPT ![r] = {}]
      /\ selections' = [selections EXCEPT ![r] = {}]
      /\ failed' = [failed EXCEPT ![r] = FALSE]
      /\ search' = [search EXCEPT ![q] = [kind |-> "retry", row |-> r, known |-> {}]]
      /\ UNCHANGED <<status, issued, submitted, batches, save, rebuild, rebuilds, crashes>>
      /\ MayDelete(r)
  BY DEF BeginRetry
<1>2. TypeOK'
  <2>1. failed' \in [Rows -> BOOLEAN]
    BY <1>1 DEF IInv, TypeOK
  <2>2. matches' \in [Rows -> SUBSET Match] /\ selections' \in [Rows -> SUBSET Pick]
    BY <1>1 DEF IInv, TypeOK
  <2> QED
    BY <1>1, <2>1, <2>2 DEF IInv, TypeOK
<1>3. RequestsOK'
  <2>1. [kind |-> "retry", row |-> r, known |-> {}] \in SearchStates
    BY DEF SearchStates
  <2>2. search' \in [Searches -> SearchStates]
    BY <1>1, <2>1 DEF IInv, RequestsOK
  <2> QED
    BY <1>1, <2>2 DEF IInv, RequestsOK, Saves, SearchStates, RebuildStates
<1>4. ReferencesResolve'
  <2>1. matches \in [Rows -> SUBSET Match] /\ selections \in [Rows -> SUBSET Pick]
    BY DEF IInv, TypeOK
  <2>2. \A s \in Rows : s # r => matches'[s] = matches[s] /\ selections'[s] = selections[s]
    BY <1>1, <2>1
  <2>3. selections'[r] = {}
    BY <1>1, <2>1
  <2>4. Items' = Items
    BY <1>1 DEF Items
  <2>5. \A i \in Items : i.row \in Rows /\ i.row # r
    BY <1>1, ItemsType DEF IInv, TypeOK, ReferencesResolve, MayDelete, Item
  <2> QED
    BY <2>2, <2>3, <2>4, <2>5 DEF IInv, ReferencesResolve, MatchExists
<1>5. SubmittedMeansBatched'
  BY <1>1, BatchesKept DEF IInv
<1> QED
  BY <1>2, <1>3, <1>4, <1>5 DEF IInv

LEMMA BeginMoreStep ==
    ASSUME IInv, NEW q \in Searches, NEW r \in Rows, BeginMore(q, r)
    PROVE  IInv'
<1>1. /\ UNCHANGED <<status, failed, matches, issued, selections, submitted, batches,
                     save, rebuild, rebuilds, crashes>>
      /\ search' = [search EXCEPT ![q] = [kind |-> "more", row |-> r, known |-> ProductsOf(r)]]
  BY DEF BeginMore, tables, rowVars
<1>2. TypeOK'
  BY <1>1 DEF IInv, TypeOK
<1>3. RequestsOK'
  <2>1. ProductsOf(r) \subseteq Found
    BY DEF IInv, TypeOK, Match, ProductsOf
  <2>2. [kind |-> "more", row |-> r, known |-> ProductsOf(r)] \in SearchStates
    BY <2>1 DEF SearchStates
  <2>3. search' \in [Searches -> SearchStates]
    BY <1>1, <2>2 DEF IInv, RequestsOK
  <2> QED
    BY <1>1, <2>3 DEF IInv, RequestsOK, Saves, SearchStates, RebuildStates
<1>4. ReferencesResolve'
  BY <1>1, ReferencesKept DEF IInv, TypeOK
<1>5. SubmittedMeansBatched'
  BY <1>1, BatchesKept DEF IInv
<1> QED
  BY <1>2, <1>3, <1>4, <1>5 DEF IInv

\* A search knows its row.
LEMMA SearchedRow ==
    ASSUME RequestsOK, NEW q \in Searches, search[q].kind \in {"retry", "more"}
    PROVE  search[q].row \in Rows
<1>1. search[q] \in SearchStates
  BY DEF RequestsOK
<1>2. search[q] # NoSearch
  BY DEF NoSearch
<1> QED
  BY <1>1, <1>2 DEF SearchStates

LEMMA SearchEndsStep ==
    ASSUME IInv, NEW q \in Searches, NEW products \in SUBSET Found,
           RetryFinds(q, products) \/ EndMore(q, products)
    PROVE  IInv'
<1> DEFINE r == search[q].row
<1>1. /\ search[q].kind \in {"retry", "more"}
      /\ AppendMatches(r, products \ search[q].known)
      /\ search' = [search EXCEPT ![q] = NoSearch]
      /\ UNCHANGED <<status, failed, selections, submitted, batches, save, rebuild, rebuilds, crashes>>
  BY DEF RetryFinds, EndMore
<1>2. r \in Rows
  BY <1>1, SearchedRow DEF IInv
<1> HIDE DEF r
<1>3. /\ matches' \in [Rows -> SUBSET Match]
      /\ issued' \in [Rows -> 0 .. MaxMatches]
      /\ \A s \in Rows : matches[s] \subseteq matches'[s]
  BY <1>1, <1>2, AppendMatchesGrows DEF IInv
<1>4. TypeOK'
  BY <1>1, <1>3 DEF IInv, TypeOK
<1>5. RequestsOK'
  <2>1. search' \in [Searches -> SearchStates]
    BY <1>1 DEF IInv, RequestsOK, SearchStates
  <2> QED
    BY <1>1, <2>1 DEF IInv, RequestsOK, Saves, SearchStates, RebuildStates
<1>6. ReferencesResolve'
  BY <1>1, <1>3, ReferencesKept DEF IInv, TypeOK
<1>7. SubmittedMeansBatched'
  BY <1>1, BatchesKept DEF IInv
<1> QED
  BY <1>4, <1>5, <1>6, <1>7 DEF IInv

LEMMA RetryFailsStep == ASSUME IInv, NEW q \in Searches, RetryFails(q) PROVE IInv'
<1>1. /\ search[q].kind = "retry"
      /\ failed' = [failed EXCEPT ![search[q].row] = TRUE]
      /\ search' = [search EXCEPT ![q] = NoSearch]
      /\ UNCHANGED <<status, matches, issued, selections, submitted, batches, save,
                     rebuild, rebuilds, crashes>>
  BY DEF RetryFails
<1>2. TypeOK'
  <2>1. failed' \in [Rows -> BOOLEAN]
    BY <1>1 DEF IInv, TypeOK
  <2> QED
    BY <1>1, <2>1 DEF IInv, TypeOK
<1>3. RequestsOK'
  <2>1. search' \in [Searches -> SearchStates]
    BY <1>1 DEF IInv, RequestsOK, SearchStates
  <2> QED
    BY <1>1, <2>1 DEF IInv, RequestsOK, Saves, SearchStates, RebuildStates
<1>4. ReferencesResolve'
  BY <1>1, ReferencesKept DEF IInv, TypeOK
<1>5. SubmittedMeansBatched'
  BY <1>1, BatchesKept DEF IInv
<1> QED
  BY <1>2, <1>3, <1>4, <1>5 DEF IInv

-----------------------------------------------------------------------------
(* Rebuilds, and a restart.                                                *)

LEMMA LoadRebuildStep == ASSUME IInv, NEW t \in Rebuilders, LoadRebuild(t) PROVE IInv'
<1>1. UNCHANGED <<status, failed, matches, issued, selections, submitted, batches, save, search, crashes>>
  BY DEF LoadRebuild, tables, rowVars
<1>2. TypeOK'
  <2>1. rebuilds' \in 0 .. MaxRebuilds
    BY SubmissionFlowAssumption DEF IInv, TypeOK, LoadRebuild
  <2> QED
    BY <1>1, <2>1 DEF IInv, TypeOK
<1>3. RequestsOK'
  <2>1. [at |-> "loaded", picks |-> selections, seenSubmitted |-> submitted, seenStatus |-> status]
           \in RebuildStates
    BY DEF IInv, TypeOK, RebuildStates, Statuses
  <2>2. rebuild' \in [Rebuilders -> RebuildStates]
    BY <2>1 DEF IInv, RequestsOK, LoadRebuild
  <2> QED
    BY <1>1, <2>2 DEF IInv, RequestsOK, Saves, SearchStates, RebuildStates
<1>4. ReferencesResolve'
  BY <1>1, ReferencesKept DEF IInv, TypeOK
<1>5. SubmittedMeansBatched'
  BY <1>1, BatchesKept DEF IInv
<1> QED
  BY <1>2, <1>3, <1>4, <1>5 DEF IInv

LEMMA PlanRebuildStep == ASSUME IInv, NEW t \in Rebuilders, PlanRebuild(t) PROVE IInv'
<1>1. UNCHANGED <<status, failed, matches, issued, selections, submitted, batches, save, search,
                  rebuilds, crashes>>
  BY DEF PlanRebuild, tables, rowVars
<1>2. TypeOK'
  BY <1>1 DEF IInv, TypeOK
<1>3. RequestsOK'
  <2>1. rebuild[t] \in RebuildStates /\ rebuild[t] # NoRebuild
    BY DEF IInv, RequestsOK, PlanRebuild, NoRebuild
  <2>2. rebuild[t].picks \in [Rows -> SUBSET Pick]
    BY <2>1 DEF RebuildStates
  <2>3. Unbatched(t) \in [Rows -> SUBSET Pick]
    BY <2>2 DEF Unbatched
  <2>4. [rebuild[t] EXCEPT !.at = "planned", !.picks = Unbatched(t)] \in RebuildStates
    BY <2>1, <2>3 DEF RebuildStates
  <2>5. NoRebuild \in RebuildStates
    BY DEF RebuildStates
  <2>6. rebuild' \in [Rebuilders -> RebuildStates]
    BY <2>4, <2>5 DEF IInv, RequestsOK, PlanRebuild
  <2> QED
    BY <1>1, <2>6 DEF IInv, RequestsOK, Saves, SearchStates
<1>4. ReferencesResolve'
  BY <1>1, ReferencesKept DEF IInv, TypeOK
<1>5. SubmittedMeansBatched'
  BY <1>1, BatchesKept DEF IInv
<1> QED
  BY <1>2, <1>3, <1>4, <1>5 DEF IInv

\* The foreign keys are checked when the rebuild commits.
LEMMA CommitRebuildStep == ASSUME IInv, NEW t \in Rebuilders, CommitRebuild(t) PROVE IInv'
<1> DEFINE new == RebuiltItems(t)
           picks == rebuild[t].picks
<1>1. /\ UNCHANGED <<failed, matches, issued, selections, save, search, rebuilds, crashes>>
      /\ rebuild' = [rebuild EXCEPT ![t] = NoRebuild]
  BY DEF CommitRebuild, rowVars
<1>2. RequestsOK'
  <2>1. rebuild' \in [Rebuilders -> RebuildStates]
    BY <1>1 DEF IInv, RequestsOK, RebuildStates
  <2> QED
    BY <1>1, <2>1 DEF IInv, RequestsOK, Saves, SearchStates
<1>3. picks \in [Rows -> SUBSET Pick]
  <2>1. rebuild[t] \in RebuildStates /\ rebuild[t] # NoRebuild
    BY DEF IInv, RequestsOK, CommitRebuild, NoRebuild
  <2> QED
    BY <2>1 DEF RebuildStates
<1>4. /\ new \in SUBSET Item
      /\ \A i \in new : i.row \in Rows /\ picks[i.row] # {}
      /\ \A r \in Rows : picks[r] # {} => \E i \in new : i.row = r
  <2>1. ASSUME NEW r \in Rows
        PROVE  /\ ItemsOfPicks(r, picks[r], "add") \subseteq Item
               /\ \A i \in ItemsOfPicks(r, picks[r], "add") : i.row = r /\ picks[r] # {}
               /\ picks[r] # {} => ItemsOfPicks(r, picks[r], "add") # {}
    BY <1>3, ItemsOfPicksType DEF Operations
  <2> QED
    BY <2>1 DEF RebuiltItems
<1>5. CASE \A i \in new : MatchExists(i.row, i.match)
  <2>1. /\ batches' = Append(batches, new)
        /\ submitted' = [r \in Rows |-> submitted[r] \/ picks[r] # {}]
        /\ status' \in {status, "submitted"}
    BY <1>5 DEF CommitRebuild, Written
  <2> HIDE DEF new, picks
  <2>2. /\ batches' \in Seq(SUBSET Item)
        /\ Items' = Items \cup new
        /\ \A r : Batched(r)' <=> Batched(r) \/ \E i \in new : i.row = r
    BY <1>4, <2>1, BatchAppended DEF IInv, TypeOK
  <2>3. TypeOK'
    <3>1. submitted' \in [Rows -> BOOLEAN]
      BY <2>1
    <3> QED
      BY <1>1, <2>1, <2>2, <3>1 DEF IInv, TypeOK
  <2>4. ReferencesResolve'
    BY <1>1, <1>5, <2>2 DEF IInv, ReferencesResolve, MatchExists
  <2>5. SubmittedMeansBatched'
    <3> SUFFICES ASSUME NEW r \in Rows
                 PROVE  /\ submitted'[r] /\ r \notin LegacyRows => Batched(r)'
                        /\ Batched(r)' => submitted'[r]
      BY DEF SubmittedMeansBatched
    <3>1. submitted'[r] <=> submitted[r] \/ picks[r] # {}
      BY <2>1
    <3>2. /\ submitted[r] /\ r \notin LegacyRows => Batched(r)
          /\ Batched(r) => submitted[r]
      BY DEF IInv, SubmittedMeansBatched
    <3>3. Batched(r)' <=> Batched(r) \/ picks[r] # {}
      BY <1>4, <2>2
    <3> QED
      BY <3>1, <3>2, <3>3
  <2> QED
    BY <1>2, <2>3, <2>4, <2>5 DEF IInv
<1>6. CASE ~\A i \in new : MatchExists(i.row, i.match)
  <2>1. UNCHANGED <<batches, submitted, status>>
    BY <1>6 DEF CommitRebuild
  <2> HIDE DEF new, picks
  <2>2. TypeOK'
    BY <1>1, <2>1 DEF IInv, TypeOK
  <2>3. ReferencesResolve'
    BY <1>1, <2>1, ReferencesKept DEF IInv, TypeOK
  <2>4. SubmittedMeansBatched'
    BY <2>1, BatchesKept DEF IInv
  <2> QED
    BY <1>2, <2>2, <2>3, <2>4 DEF IInv
<1> QED
  BY <1>5, <1>6

LEMMA CrashStep == IInv /\ Crash => IInv'
<1> SUFFICES ASSUME IInv, Crash PROVE IInv'
  OBVIOUS
<1>1. UNCHANGED <<status, failed, matches, issued, selections, submitted, batches, rebuilds>>
  BY DEF Crash, tables, rowVars
<1>2. TypeOK'
  <2>1. crashes' \in 0 .. MaxCrashes
    BY SubmissionFlowAssumption DEF IInv, TypeOK, Crash
  <2> QED
    BY <1>1, <2>1 DEF IInv, TypeOK
<1>3. RequestsOK'
  BY DEF Crash, RequestsOK, Saves, SearchStates, RebuildStates
<1>4. ReferencesResolve'
  BY <1>1, ReferencesKept DEF IInv, TypeOK
<1>5. SubmittedMeansBatched'
  BY <1>1, BatchesKept DEF IInv
<1> QED
  BY <1>2, <1>3, <1>4, <1>5 DEF IInv

LEMMA StutterStep == IInv /\ UNCHANGED vars => IInv'
<1> SUFFICES ASSUME IInv, UNCHANGED vars PROVE IInv'
  OBVIOUS
<1>1. TypeOK'
  BY DEF IInv, TypeOK, vars
<1>2. RequestsOK'
  BY DEF IInv, RequestsOK, vars, Saves, SearchStates, RebuildStates
<1>3. ReferencesResolve'
  BY ReferencesKept DEF IInv, TypeOK, vars
<1>4. SubmittedMeansBatched'
  BY BatchesKept DEF IInv, vars
<1> QED
  BY <1>1, <1>2, <1>3, <1>4 DEF IInv

LEMMA NextIInv == IInv /\ [Next]_vars => IInv'
<1> SUFFICES ASSUME IInv, [Next]_vars PROVE IInv'
  OBVIOUS
<1>1. CASE SaveNext
  BY <1>1, LoadSaveStep, CommitDraftStep, CommitConfirmStep DEF SaveNext
<1>2. CASE SearchNext
  BY <1>2, BeginRetryStep, BeginMoreStep, SearchEndsStep, RetryFailsStep DEF SearchNext
<1>3. CASE RebuildNext
  BY <1>3, LoadRebuildStep, PlanRebuildStep, CommitRebuildStep DEF RebuildNext
<1>4. CASE Crash
  BY <1>4, CrashStep
<1>5. CASE UNCHANGED vars
  BY <1>5, StutterStep
<1> QED
  BY <1>1, <1>2, <1>3, <1>4, <1>5 DEF Next

-----------------------------------------------------------------------------
\* The invariant of draft, confirm, retry, more and rebuild-batch: types, and
\* how selections, matches, batches and submitted rows belong together.
THEOREM SpecIInv == Spec => []IInv
<1>1. Init => IInv
  BY InitIInv
<1>2. IInv /\ [Next]_vars => IInv'
  BY NextIInv
<1> QED
  BY <1>1, <1>2, PTL DEF Spec

\* Every table keeps its type.
THEOREM SpecTypeOK == Spec => []TypeOK
<1>1. IInv => TypeOK
  BY DEF IInv
<1> QED
  BY <1>1, SpecIInv, PTL

\* However saves, searches and rebuilds interleave, what selections and batch
\* items refer to is a match of their row.
THEOREM SpecReferencesResolve == Spec => []ReferencesResolve
<1>1. IInv => ReferencesResolve
  BY DEF IInv
<1> QED
  BY <1>1, SpecIInv, PTL

\* However they interleave, the rows that count as submitted are the rows that
\* a batch holds.
THEOREM SpecSubmittedMeansBatched == Spec => []SubmittedMeansBatched
<1>1. IInv => SubmittedMeansBatched
  BY DEF IInv
<1> QED
  BY <1>1, SpecIInv, PTL

-----------------------------------------------------------------------------
(* Without rebuilds.                                                       *)

\* A save has seen the submitted rows as they are, so it leaves every row alone
\* that a batch holds.
SerialInv ==
    /\ save # NoSave => save.seenSubmitted = submitted
    /\ RowInOneBatch
    /\ BatchedAsSelected

LEMMA InitSerial == Init => SerialInv
<1> SUFFICES ASSUME Init PROVE SerialInv
  OBVIOUS
<1>1. Items = {} /\ DOMAIN batches = {}
  BY DEF Init, Items
<1> QED
  BY <1>1 DEF Init, SerialInv, RowInOneBatch, BatchedAsSelected, Batched

\* A step that leaves batches, submitted rows and the selections of batched rows
\* as they are, and loads no save but with the rows submitted now.
LEMMA SerialKept ==
    ASSUME SerialInv, batches' = batches, submitted' = submitted,
           \A r \in Rows : Batched(r) => selections'[r] = selections[r],
           save' \in {save, NoSave} \/ save'.seenSubmitted = submitted
    PROVE  SerialInv'
<1>1. RowInOneBatch'
  BY DEF SerialInv, RowInOneBatch
<1>2. Items' = Items
  BY DEF Items
<1>3. BatchedAsSelected'
  BY <1>2 DEF SerialInv, BatchedAsSelected, Batched, ItemsOfRow
<1>4. save' # NoSave => save'.seenSubmitted = submitted'
  BY DEF SerialInv
<1> QED
  BY <1>1, <1>3, <1>4 DEF SerialInv, NoSave

LEMMA SaveLeavesBatched ==
    ASSUME IInv, SerialInv, save # NoSave, NEW form \in Forms, NEW r \in Rows
    PROVE  /\ Batched(r) => SavedSelections(form)[r] = selections[r] /\ r \notin ConfirmedRows(form)
           /\ r \in ConfirmedRows(form) => SavedSelections(form)[r] = form[r]
<1>1. Batched(r) => ~Open(r)
  BY DEF IInv, SubmittedMeansBatched, SerialInv, Open
<1> QED
  BY <1>1 DEF SavedSelections, ConfirmedRows

LEMMA CommitDraftSerial ==
    ASSUME IInv, SerialInv, NEW form \in Forms, CommitDraft(form)
    PROVE  SerialInv'
<1>1. save # NoSave
  BY DEF CommitDraft, NoSave
<1>2. \A r \in Rows : Batched(r) => selections'[r] = selections[r]
  BY <1>1, SaveLeavesBatched DEF CommitDraft
<1>3. batches' = batches /\ submitted' = submitted /\ save' = NoSave
  BY DEF CommitDraft
<1> QED
  BY <1>2, <1>3, SerialKept

LEMMA CommitConfirmSerial ==
    ASSUME IInv, SerialInv, NEW form \in Forms, CommitConfirm(form)
    PROVE  SerialInv'
<1> DEFINE new == ConfirmedItems(form)
<1>1. /\ save # NoSave /\ save' = NoSave
      /\ selections' = SavedSelections(form)
      /\ batches' = IF new = {} THEN batches ELSE Append(batches, new)
  BY DEF CommitConfirm, NoSave
<1>2. batches \in Seq(SUBSET Item) /\ new \in SUBSET Item
  BY ConfirmedItemsType DEF IInv, TypeOK
<1>3. \A i \in new : i.row \in ConfirmedRows(form) /\ i.row \in Rows /\ ~Batched(i.row)
  BY <1>1, ConfirmedItemsType, SaveLeavesBatched DEF ConfirmedRows
<1>4. ASSUME NEW r \in ConfirmedRows(form)
      PROVE  {i \in new : i.row = r} = ItemsOfPicks(r, form[r], Operation[r])
  <2>1. ASSUME NEW s \in ConfirmedRows(form)
        PROVE  \A i \in ItemsOfPicks(s, form[s], Operation[s]) : i.row = s
    BY FormsTick, ItemsOfPicksType, SubmissionFlowAssumption DEF ConfirmedRows, IInv
  <2> QED
    BY <2>1 DEF ConfirmedItems
<1>5. \A r \in ConfirmedRows(form) : r \in Rows
  BY DEF ConfirmedRows
<1> HIDE DEF new
<1>6. /\ Items' = Items \cup new
      /\ \A r : Batched(r)' <=> Batched(r) \/ \E i \in new : i.row = r
  <2>1. CASE new = {}
    BY <1>1, <2>1 DEF Items, Batched
  <2>2. CASE new # {}
    BY <1>1, <1>2, <2>2, BatchAppended
  <2> QED
    BY <2>1, <2>2
<1>7. BatchedAsSelected'
  <2> SUFFICES ASSUME NEW r \in Rows, Batched(r)'
               PROVE  {i \in Items' : i.row = r} = ItemsOfPicks(r, selections'[r], Operation[r])
    BY DEF BatchedAsSelected, ItemsOfRow, ItemsOfPicks
  <2>1. CASE Batched(r)
    <3>1. selections'[r] = selections[r] /\ \A i \in new : i.row # r
      BY <1>1, <1>3, <2>1, SaveLeavesBatched
    <3>2. {i \in Items' : i.row = r} = {i \in Items : i.row = r}
      BY <1>6, <3>1
    <3> QED
      BY <2>1, <3>1, <3>2 DEF SerialInv, BatchedAsSelected, ItemsOfRow
  <2>2. CASE ~Batched(r)
    <3>1. r \in ConfirmedRows(form) /\ \A i \in Items : i.row # r
      BY <1>3, <1>6, <2>2 DEF Batched
    <3>2. {i \in Items' : i.row = r} = {i \in new : i.row = r}
      BY <1>6, <3>1
    <3>3. selections'[r] = form[r]
      BY <1>1, <3>1, SaveLeavesBatched
    <3> QED
      BY <1>4, <3>1, <3>2, <3>3
  <2> QED
    BY <2>1, <2>2
<1>8. RowInOneBatch'
  <2>1. CASE new = {}
    BY <1>1, <2>1 DEF SerialInv, RowInOneBatch
  <2>2. CASE new # {}
    <3>1. /\ DOMAIN batches' = 1 .. Len(batches) + 1
          /\ DOMAIN batches = 1 .. Len(batches) /\ Len(batches) \in Nat
          /\ \A k \in 1 .. Len(batches) : batches'[k] = batches[k]
          /\ batches'[Len(batches) + 1] = new
      BY <1>1, <1>2, <2>2
    <3>2. ASSUME NEW k \in 1 .. Len(batches), NEW b \in batches[k] PROVE \A a \in new : a.row # b.row
      <4>1. b \in Items
        BY <3>1 DEF Items
      <4> QED
        BY <4>1, <1>3 DEF Batched
    <3> SUFFICES ASSUME NEW j \in DOMAIN batches', NEW k \in DOMAIN batches',
                        NEW a \in batches'[j], NEW b \in batches'[k], a.row = b.row
                 PROVE  j = k
      BY DEF RowInOneBatch
    <3>3. CASE j \in 1 .. Len(batches) /\ k \in 1 .. Len(batches)
      BY <3>1, <3>3 DEF SerialInv, RowInOneBatch
    <3>4. CASE j = Len(batches) + 1 /\ k \in 1 .. Len(batches)
      BY <3>1, <3>2, <3>4
    <3>5. CASE k = Len(batches) + 1 /\ j \in 1 .. Len(batches)
      BY <3>1, <3>2, <3>5
    <3>6. CASE j = Len(batches) + 1 /\ k = Len(batches) + 1
      BY <3>6
    <3> QED
      BY <3>1, <3>3, <3>4, <3>5, <3>6
  <2> QED
    BY <2>1, <2>2
<1> QED
  BY <1>1, <1>7, <1>8 DEF SerialInv

\* A batched row is not searched again.
LEMMA RetriedIsNotBatched ==
    ASSUME IInv, NEW q \in Searches, NEW r \in Rows, BeginRetry(q, r)
    PROVE  ~Batched(r)
  BY DEF IInv, ReferencesResolve, Batched, BeginRetry, MayDelete

LEMMA NextSerial ==
    ASSUME Rebuilders = {}, IInv, SerialInv, [Next]_vars
    PROVE  SerialInv'
<1>1. ASSUME NEW kind \in {"draft", "continue", "complete"}, LoadSave(kind)
      PROVE  SerialInv'
  <2>1. batches' = batches /\ submitted' = submitted /\ selections' = selections
    BY <1>1 DEF LoadSave, tables
  <2>2. save'.seenSubmitted = submitted
    BY <1>1 DEF LoadSave
  <2> QED
    BY <2>1, <2>2, SerialKept
<1>2. ASSUME NEW q \in Searches, NEW r \in Rows, BeginRetry(q, r)
      PROVE  SerialInv'
  <2>1. batches' = batches /\ submitted' = submitted /\ save' = save
    BY <1>2 DEF BeginRetry
  <2>2. \A s \in Rows : Batched(s) => selections'[s] = selections[s]
    BY <1>2, RetriedIsNotBatched DEF IInv, TypeOK, BeginRetry
  <2> QED
    BY <2>1, <2>2, SerialKept
<1>3. CASE SearchNext
  <2>1. CASE \E q \in Searches, r \in Rows : BeginRetry(q, r)
    BY <2>1, <1>2
  <2>2. CASE \/ \E q \in Searches, r \in Rows : BeginMore(q, r)
             \/ \E q \in Searches : \E products \in SUBSET Found :
                   RetryFinds(q, products) \/ EndMore(q, products)
             \/ \E q \in Searches : RetryFails(q)
    <3>1. batches' = batches /\ submitted' = submitted /\ save' = save /\ selections' = selections
      BY <2>2 DEF BeginMore, RetryFinds, EndMore, RetryFails, tables
    <3> QED
      BY <3>1, SerialKept
  <2> QED
    BY <1>3, <2>1, <2>2 DEF SearchNext
<1>4. CASE SaveNext
  BY <1>4, <1>1, CommitDraftSerial, CommitConfirmSerial DEF SaveNext
<1>5. CASE RebuildNext
  BY <1>5 DEF RebuildNext
<1>6. CASE Crash
  <2>1. batches' = batches /\ submitted' = submitted /\ save' = NoSave /\ selections' = selections
    BY <1>6 DEF Crash, tables
  <2> QED
    BY <2>1, SerialKept
<1>7. CASE UNCHANGED vars
  <2>1. batches' = batches /\ submitted' = submitted /\ save' = save /\ selections' = selections
    BY <1>7 DEF vars
  <2> QED
    BY <2>1, SerialKept
<1> QED
  BY <1>3, <1>4, <1>5, <1>6, <1>7 DEF Next

LEMMA SpecSerial == ASSUME Rebuilders = {} PROVE Spec => [](IInv /\ SerialInv)
<1>1. Init => IInv /\ SerialInv
  BY InitIInv, InitSerial
<1>2. IInv /\ SerialInv /\ [Next]_vars => (IInv /\ SerialInv)'
  BY NextIInv, NextSerial
<1> QED
  BY <1>1, <1>2, PTL DEF Spec

\* As long as no rebuild runs, no row is registered twice.
THEOREM SpecRowInOneBatch == ASSUME Rebuilders = {} PROVE Spec => []RowInOneBatch
<1>1. IInv /\ SerialInv => RowInOneBatch
  BY DEF SerialInv
<1> QED
  BY <1>1, SpecSerial, PTL

\* As long as no rebuild runs, batches hold what the rows have selected.
THEOREM SpecBatchedAsSelected == ASSUME Rebuilders = {} PROVE Spec => []BatchedAsSelected
<1>1. IInv /\ SerialInv => BatchedAsSelected
  BY DEF SerialInv
<1> QED
  BY <1>1, SpecSerial, PTL

\* As long as no rebuild runs, no row that updates a price is posted as a product
\* to add, so the rebuild alone loses its operation. (Rows still to be reviewed,
\* which a seller searched again and confirmed, are posted.)
THEOREM SpecNoPriceUpdatePosted == ASSUME Rebuilders = {} PROVE Spec => []NoPriceUpdatePosted
<1>1. ASSUME IInv, SerialInv, NEW i \in Items PROVE i.operation = Operation[i.row]
  <2>1. i.row \in Rows /\ Batched(i.row)
    BY <1>1, ItemsType DEF IInv, TypeOK, Item, Batched
  <2>2. i \in ItemsOfPicks(i.row, selections[i.row], Operation[i.row])
    BY <1>1, <2>1 DEF SerialInv, BatchedAsSelected, ItemsOfRow
  <2>3. selections[i.row] \in SUBSET Pick /\ Operation[i.row] \in Operations
    BY <1>1, <2>1, SubmissionFlowAssumption DEF IInv, TypeOK
  <2> QED
    BY <2>1, <2>2, <2>3, ItemsOfPicksType
<1>2. ASSUME IInv, SerialInv PROVE NoPriceUpdatePosted
  <2> SUFFICES ASSUME NEW k \in DOMAIN batches, PostedAsAdds(batches[k]), NEW i \in batches[k]
               PROVE  Operation[i.row] # "price_update"
    BY DEF NoPriceUpdatePosted
  <2>1. i \in Items /\ i.operation # "price_update"
    BY DEF Items, PostedAsAdds
  <2> QED
    BY <1>1, <1>2, <2>1
<1>3. IInv /\ SerialInv => NoPriceUpdatePosted
  BY <1>2
<1> QED
  BY <1>3, SpecSerial, PTL

\* A step without rebuilds leaves every batched row as it is, but for more matches.
LEMMA NextFrozen ==
    ASSUME Rebuilders = {}, IInv, SerialInv, [Next]_vars, NEW r \in Rows, Batched(r)
    PROVE  submitted'[r] /\ selections'[r] = selections[r] /\ matches[r] \subseteq matches'[r]
<1>1. submitted[r]
  BY DEF IInv, SubmittedMeansBatched
<1>2. ASSUME NEW form \in Forms, CommitDraft(form) \/ CommitConfirm(form)
      PROVE  submitted'[r] /\ selections'[r] = selections[r] /\ matches' = matches
  <2>1. save # NoSave
    BY <1>2 DEF CommitDraft, CommitConfirm, NoSave
  <2>2. selections'[r] = selections[r]
    BY <1>2, <2>1, SaveLeavesBatched DEF CommitDraft, CommitConfirm
  <2>3. submitted'[r]
    BY <1>1, <1>2 DEF CommitDraft, CommitConfirm
  <2> QED
    BY <1>2, <2>2, <2>3 DEF CommitDraft, CommitConfirm, rowVars
<1>3. ASSUME NEW q \in Searches, NEW s \in Rows, BeginRetry(q, s)
      PROVE  submitted' = submitted /\ selections'[r] = selections[r] /\ matches[r] \subseteq matches'[r]
  <2>1. s # r
    BY <1>3, RetriedIsNotBatched
  <2> QED
    BY <1>3, <2>1 DEF BeginRetry, IInv, TypeOK
<1>4. ASSUME NEW q \in Searches, NEW products \in SUBSET Found,
             RetryFinds(q, products) \/ EndMore(q, products)
      PROVE  submitted' = submitted /\ selections' = selections /\ matches[r] \subseteq matches'[r]
  <2>1. search[q].kind \in {"retry", "more"} /\ AppendMatches(search[q].row, products \ search[q].known)
    BY <1>4 DEF RetryFinds, EndMore
  <2>2. search[q].row \in Rows
    BY <2>1, SearchedRow DEF IInv
  <2>3. matches[r] \subseteq matches'[r]
    BY <2>1, <2>2, AppendMatchesGrows DEF IInv
  <2> QED
    BY <1>4, <2>3 DEF RetryFinds, EndMore
<1>5. CASE \/ \E kind \in {"draft", "continue", "complete"} : LoadSave(kind)
           \/ \E q \in Searches, s \in Rows : BeginMore(q, s)
           \/ \E q \in Searches : RetryFails(q)
           \/ Crash \/ UNCHANGED vars
  BY <1>1, <1>5 DEF LoadSave, BeginMore, RetryFails, Crash, vars, tables, rowVars
<1> QED
  BY <1>1, <1>2, <1>3, <1>4, <1>5 DEF Next, SaveNext, SearchNext, RebuildNext

\* As long as no rebuild runs, no draft, search or second confirm changes what
\* was registered.
THEOREM SpecRegisteredRowsFrozen ==
    ASSUME Rebuilders = {} PROVE Spec => RegisteredRowsFrozen
<1> DEFINE Frozen == \A r \in Rows : Batched(r) =>
                         /\ submitted'[r]
                         /\ selections'[r] = selections[r]
                         /\ matches[r] \subseteq matches'[r]
<1>1. IInv /\ SerialInv /\ [Next]_vars => [Frozen]_vars
  BY NextFrozen
<1> QED
  BY <1>1, SpecSerial, PTL DEF Spec, RegisteredRowsFrozen

\* A confirm registers the rows that it confirms, if there are any; each of them
\* was not hidden before.
LEMMA CommitConfirmRegisters ==
    ASSUME IInv, SerialInv, NEW form \in Forms, CommitConfirm(form), Ledger!KeepsRegistered
    PROVE  Ledger!LedgerNext
<1>0. PICK rows \in SUBSET Rows : rows = ConfirmedRows(form)
  BY DEF ConfirmedRows
<1> DEFINE hidden == {r \in Rows : submitted[r]}
<1>1. save # NoSave
  BY DEF CommitConfirm, NoSave
<1>2. save.seenSubmitted = submitted
  BY <1>1 DEF SerialInv
<1>3. \A r \in rows : ~submitted[r] /\ selections'[r] = form[r] /\ form[r] # {}
  BY <1>0, <1>2 DEF CommitConfirm, ConfirmedRows, SavedSelections, Open
<1>4. hidden' = hidden \cup rows
  BY <1>0, <1>3 DEF CommitConfirm
<1>5. ConfirmedItems(form) = UNION {Ledger!Registration(r, selections'[r]) : r \in rows}
  BY <1>0, <1>3 DEF ConfirmedItems, ItemsOfPicks, Ledger!Registration
<1>6. batches' = IF ConfirmedItems(form) = {} THEN batches ELSE Append(batches, ConfirmedItems(form))
  BY DEF CommitConfirm
<1> HIDE DEF hidden
<1>7. CASE rows = {}
  <2>1. ConfirmedItems(form) = {} /\ hidden' = hidden
    BY <1>4, <1>5, <1>7
  <2>2. Ledger!Select
    BY <1>6, <2>1 DEF Ledger!Select, hidden
  <2> QED
    BY <2>2 DEF Ledger!LedgerNext
<1>8. CASE rows # {}
  <2>1. PICK r \in rows : TRUE
    BY <1>8
  <2>2. form[r] \in SUBSET Pick /\ Operation[r] \in Operations
    BY <1>3, <2>1, FormsTick, SubmissionFlowAssumption DEF IInv
  <2>3. ItemsOfPicks(r, form[r], Operation[r]) # {}
    BY <1>3, <2>1, <2>2, ItemsOfPicksType
  <2>4. ConfirmedItems(form) # {}
    BY <1>0, <2>1, <2>3 DEF ConfirmedItems
  <2>5. \A s \in rows : s \notin hidden
    BY <1>3 DEF hidden
  <2>6. Ledger!Register(rows)
    BY <1>3, <1>4, <1>5, <1>6, <1>8, <2>4, <2>5 DEF Ledger!Register, hidden
  <2> QED
    BY <2>6 DEF Ledger!LedgerNext
<1> QED
  BY <1>7, <1>8

\* A step without rebuilds selects, registers or leaves the ledger as it is.
LEMMA NextLedger ==
    ASSUME Rebuilders = {}, IInv, SerialInv, [Next]_vars
    PROVE  [Ledger!LedgerNext]_(Ledger!ledgerVars)
<1>1. selections' \in [Rows -> SUBSET Pick]
  BY NextIInv DEF IInv, TypeOK
<1>2. \A r \in Rows : Ledger!Registered(r) <=> Batched(r)
  BY DEF Ledger!Registered, Batched, Items
<1>3. Ledger!KeepsRegistered
  BY <1>1, <1>2, NextFrozen DEF Ledger!KeepsRegistered
<1>4. ASSUME batches' = batches, submitted' = submitted PROVE Ledger!LedgerNext
  BY <1>3, <1>4 DEF Ledger!LedgerNext, Ledger!Select
<1>5. CASE SaveNext
  <2>1. ASSUME NEW kind \in {"draft", "continue", "complete"}, LoadSave(kind) PROVE Ledger!LedgerNext
    BY <1>4, <2>1 DEF LoadSave, tables
  <2>2. ASSUME NEW form \in Forms, CommitDraft(form) PROVE Ledger!LedgerNext
    BY <1>4, <2>2 DEF CommitDraft
  <2>3. ASSUME NEW form \in Forms, CommitConfirm(form) PROVE Ledger!LedgerNext
    BY <1>3, <2>3, CommitConfirmRegisters
  <2> QED
    BY <1>5, <2>1, <2>2, <2>3 DEF SaveNext
<1>6. CASE SearchNext
  <2>1. batches' = batches /\ submitted' = submitted
    BY <1>6 DEF SearchNext, BeginRetry, BeginMore, RetryFinds, EndMore, RetryFails, tables
  <2> QED
    BY <1>4, <2>1
<1>7. CASE Crash
  BY <1>4, <1>7 DEF Crash, tables
<1>8. CASE UNCHANGED vars
  BY <1>4, <1>8 DEF vars
<1> QED
  BY <1>5, <1>6, <1>7, <1>8 DEF Next, RebuildNext

\* Where no rebuild runs, SubmissionFlow implements SubmissionLedger: a row is
\* registered once, as it is selected at that time, and is hidden and does not
\* change from then on, whatever saves, searches and restarts come.
THEOREM SpecImplementsLedger ==
    ASSUME Rebuilders = {} PROVE Spec => LedgerSpec
<1>1. Init => Ledger!LedgerInit
  <2> SUFFICES ASSUME Init PROVE Ledger!LedgerInit
    OBVIOUS
  <2>1. selections \in [Rows -> SUBSET Pick]
    BY InitIInv DEF IInv, TypeOK
  <2>2. {r \in Rows : submitted[r]} = LegacyRows
    BY SubmissionFlowAssumption DEF Init
  <2> QED
    BY <2>1, <2>2 DEF Init, Ledger!LedgerInit
<1>2. IInv /\ SerialInv /\ [Next]_vars => [Ledger!LedgerNext]_(Ledger!ledgerVars)
  BY NextLedger
<1> QED
  BY <1>1, <1>2, SpecSerial, PTL DEF Spec, LedgerSpec, Ledger!LedgerSpec

-----------------------------------------------------------------------------
(* One search of a row at a time.                                          *)

InProgress(q) == search[q].kind \in {"retry", "more"}

\* No row has two searches at once. (Different rows may.)
OneSearchEach ==
    \A p, q \in Searches :
        InProgress(p) /\ InProgress(q) /\ search[p].row = search[q].row => p = q

\* A search knows all matches that its row has, so it adds none of them again;
\* a row that is searched again is blank until it ends.
KnowsRow(q) ==
    /\ InProgress(q) => search[q].known = ProductsOf(search[q].row) /\ ~failed[search[q].row]
    /\ search[q].kind = "retry" => matches[search[q].row] = {}

ShowsOutcome(r) == SearchedAgain(r) \/ (failed[r] <=> matches[r] = {})

SearchInv ==
    /\ \A q \in Searches : KnowsRow(q)
    /\ NoDuplicateMatch
    /\ crashes = 0 => \A r \in Rows : ShowsOutcome(r)

LEMMA InitSearch == Init => SearchInv
<1> SUFFICES ASSUME Init PROVE SearchInv
  OBVIOUS
<1>1. PICK product \in [Rows -> Found] :
        matches = [r \in Rows |-> IF failed[r] THEN {} ELSE {[n |-> 1, product |-> product[r]]}]
  BY DEF Init
<1>2. NoDuplicateMatch
  BY <1>1 DEF NoDuplicateMatch
<1>3. \A r \in Rows : ShowsOutcome(r)
  BY <1>1 DEF Init, ShowsOutcome
<1>4. \A q \in Searches : search[q].kind = "none"
  BY DEF Init, NoSearch
<1> QED
  BY <1>2, <1>3, <1>4 DEF SearchInv, KnowsRow, InProgress

\* A step that changes neither a row's matches and error nor a search.
LEMMA SearchKept ==
    ASSUME SearchInv, matches' = matches, failed' = failed, search' = search,
           crashes' = crashes
    PROVE  SearchInv'
<1>1. NoDuplicateMatch'
  BY DEF SearchInv, NoDuplicateMatch
<1>2. \A q \in Searches : KnowsRow(q)'
  BY DEF SearchInv, KnowsRow, InProgress, ProductsOf
<1>3. \A r \in Rows : ShowsOutcome(r) => ShowsOutcome(r)'
  BY DEF ShowsOutcome, SearchedAgain
<1> QED
  BY <1>1, <1>2, <1>3 DEF SearchInv

\* A search of one row is nothing to the other rows and their searches.
LEMMA OtherRowsKept ==
    ASSUME IInv, SearchInv, NEW q \in Searches, NEW r \in Rows,
           \A p \in Searches : p # q => search'[p] = search[p],
           InProgress(q) => search[q].row = r,
           \A p \in Searches : p # q /\ InProgress(p) => search[p].row # r,
           \A s \in Rows : s # r => matches'[s] = matches[s] /\ failed'[s] = failed[s],
           crashes' = crashes
    PROVE  /\ \A p \in Searches : p # q => KnowsRow(p)'
           /\ crashes' = 0 => \A s \in Rows : s # r => ShowsOutcome(s)'
<1>1. \A p \in Searches : p # q => search'[p] = search[p]
  OBVIOUS
<1>2. ASSUME NEW p \in Searches, p # q PROVE KnowsRow(p)'
  <2>1. search'[p] = search[p] /\ KnowsRow(p)
    BY <1>1, <1>2 DEF SearchInv
  <2>2. CASE InProgress(p)
    <3>1. search[p].row \in Rows /\ search[p].row # r
      BY <1>2, <2>2, SearchedRow DEF IInv, InProgress
    <3>2. /\ matches'[search[p].row] = matches[search[p].row]
          /\ failed'[search[p].row] = failed[search[p].row]
      BY <3>1
    <3> QED
      BY <2>1, <3>2 DEF KnowsRow, InProgress, ProductsOf
  <2>3. CASE ~InProgress(p)
    BY <2>1, <2>3 DEF KnowsRow, InProgress
  <2> QED
    BY <2>2, <2>3
<1>3. ASSUME NEW s \in Rows, s # r, ShowsOutcome(s) PROVE ShowsOutcome(s)'
  <2>1. SearchedAgain(s) => SearchedAgain(s)'
    <3> SUFFICES ASSUME NEW p \in Searches, search[p].kind = "retry", search[p].row = s
                 PROVE  SearchedAgain(s)'
      BY DEF SearchedAgain
    <3>1. p # q
      BY <1>3 DEF InProgress
    <3>2. search'[p] = search[p]
      BY <1>1, <3>1
    <3> QED
      BY <3>2 DEF SearchedAgain
  <2>2. matches'[s] = matches[s] /\ failed'[s] = failed[s]
    BY <1>3
  <2> QED
    BY <1>3, <2>1, <2>2 DEF ShowsOutcome
<1>4. crashes' = 0 => \A s \in Rows : s # r => ShowsOutcome(s)'
  BY <1>3 DEF SearchInv
<1> QED
  BY <1>1, <1>2, <1>4

\* The searches that go on are of other rows than the one that begins or ends.
LEMMA OthersElsewhere ==
    ASSUME IInv, NEW q \in Searches, NEW r \in Rows, NEW x \in SearchStates,
           search' = [search EXCEPT ![q] = x],
           \/ OneSearchEach /\ InProgress(q) /\ search[q].row = r
           \/ OneSearchEach' /\ x.kind \in {"retry", "more"} /\ x.row = r
    PROVE  \A p \in Searches : p # q /\ InProgress(p) => search[p].row # r
<1>1. search'[q] = x /\ \A p \in Searches : p # q => search'[p] = search[p]
  BY DEF IInv, RequestsOK
<1>2. CASE OneSearchEach /\ InProgress(q) /\ search[q].row = r
  BY <1>2 DEF OneSearchEach
<1>3. CASE OneSearchEach' /\ x.kind \in {"retry", "more"} /\ x.row = r
  <2> SUFFICES ASSUME NEW p \in Searches, p # q, InProgress(p), search[p].row = r PROVE FALSE
    OBVIOUS
  <2>1. InProgress(p)' /\ InProgress(q)' /\ search'[p].row = search'[q].row
    BY <1>1, <1>3 DEF InProgress
  <2> QED
    BY <1>3, <2>1 DEF OneSearchEach
<1> QED
  BY <1>2, <1>3

LEMMA BeginRetrySearch ==
    ASSUME OneSearchEach', IInv, SearchInv, NEW q \in Searches, NEW r \in Rows, BeginRetry(q, r)
    PROVE  SearchInv'
<1> DEFINE x == [kind |-> "retry", row |-> r, known |-> {}]
<1>1. /\ matches' = [matches EXCEPT ![r] = {}]
      /\ failed' = [failed EXCEPT ![r] = FALSE]
      /\ search' = [search EXCEPT ![q] = x]
      /\ crashes' = crashes /\ search[q] = NoSearch
  BY DEF BeginRetry
<1>2. /\ x \in SearchStates /\ x # NoSearch /\ x.kind = "retry" /\ x.row = r /\ x.known = {}
      /\ ~InProgress(q)
  BY <1>1 DEF SearchStates, NoSearch, InProgress
<1>3. /\ matches'[r] = {} /\ ~failed'[r]
      /\ \A s \in Rows : s # r => matches'[s] = matches[s] /\ failed'[s] = failed[s]
  BY <1>1 DEF IInv, TypeOK
<1> HIDE DEF x
<1>4. \A p \in Searches : p # q /\ InProgress(p) => search[p].row # r
  BY <1>1, <1>2, OthersElsewhere
<1>5. search'[q] = x /\ \A p \in Searches : p # q => search'[p] = search[p]
  BY <1>1 DEF IInv, RequestsOK
<1>6. /\ \A p \in Searches : p # q => KnowsRow(p)'
      /\ crashes' = 0 => \A s \in Rows : s # r => ShowsOutcome(s)'
  BY <1>1, <1>2, <1>3, <1>4, <1>5, OtherRowsKept
<1>7. KnowsRow(q)'
  BY <1>2, <1>3, <1>5 DEF KnowsRow, InProgress, ProductsOf
<1>8. ShowsOutcome(r)'
  BY <1>2, <1>5 DEF ShowsOutcome, SearchedAgain
<1>9. NoDuplicateMatch'
  BY <1>3 DEF SearchInv, NoDuplicateMatch
<1> QED
  BY <1>6, <1>7, <1>8, <1>9 DEF SearchInv

LEMMA BeginMoreSearch ==
    ASSUME OneSearchEach', IInv, SearchInv, NEW q \in Searches, NEW r \in Rows, BeginMore(q, r)
    PROVE  SearchInv'
<1> DEFINE x == [kind |-> "more", row |-> r, known |-> ProductsOf(r)]
<1>1. /\ matches' = matches /\ failed' = failed /\ crashes' = crashes
      /\ search' = [search EXCEPT ![q] = x] /\ search[q] = NoSearch /\ ~failed[r]
  BY DEF BeginMore, tables, rowVars
<1>2. /\ x \in SearchStates /\ x # NoSearch /\ x.kind = "more" /\ x.row = r
      /\ x.known = ProductsOf(r) /\ ~InProgress(q)
  <2>1. ProductsOf(r) \in SUBSET Found
    BY DEF ProductsOf, IInv, TypeOK, Match
  <2> QED
    BY <1>1, <2>1 DEF SearchStates, NoSearch, InProgress
<1> HIDE DEF x
<1>3. \A p \in Searches : p # q /\ InProgress(p) => search[p].row # r
  BY <1>1, <1>2, OthersElsewhere
<1>4. search'[q] = x /\ \A p \in Searches : p # q => search'[p] = search[p]
  BY <1>1 DEF IInv, RequestsOK
<1>5. /\ \A p \in Searches : p # q => KnowsRow(p)'
      /\ crashes' = 0 => \A s \in Rows : s # r => ShowsOutcome(s)'
  BY <1>1, <1>2, <1>3, <1>4, OtherRowsKept
<1>6. KnowsRow(q)'
  BY <1>1, <1>2, <1>4 DEF KnowsRow, InProgress, ProductsOf
<1>7. crashes = 0 => ShowsOutcome(r)'
  <2>1. ~SearchedAgain(r)
    BY <1>2, <1>3 DEF SearchedAgain, InProgress
  <2> QED
    BY <1>1, <2>1 DEF SearchInv, ShowsOutcome
<1>8. NoDuplicateMatch'
  BY <1>1 DEF SearchInv, NoDuplicateMatch
<1> QED
  BY <1>1, <1>5, <1>6, <1>7, <1>8 DEF SearchInv

\* Matches for products that the row does not have yet are different from its
\* matches and from each other; other rows keep theirs.
LEMMA AppendMatchesDistinct ==
    ASSUME TypeOK, NoDuplicateMatch, NEW r \in Rows, NEW products \in SUBSET Found,
           products \cap ProductsOf(r) = {}, AppendMatches(r, products)
    PROVE  /\ NoDuplicateMatch'
           /\ \A s \in Rows : s # r => matches'[s] = matches[s]
           /\ matches[r] \subseteq matches'[r]
           /\ products # {} => matches'[r] # {}
<1> DEFINE new == SetToSeq(products)
           match(k) == [n |-> issued[r] + k, product |-> new[k]]
           added == {match(k) : k \in DOMAIN new}
<1>1. IsFiniteSet(products)
  BY SubmissionFlowAssumption, FS_Subset
<1>2. /\ IsInjective(new) /\ DOMAIN new = 1 .. Cardinality(products)
      /\ \A k \in DOMAIN new : new[k] \in products
  BY <1>1, SetToSeqIsBijection
<1>3. matches' = [matches EXCEPT ![r] = @ \cup added]
  BY DEF AppendMatches
<1>4. products # {} => DOMAIN new # {}
  <2>1. products # {} => Cardinality(products) \in Nat \ {0}
    BY <1>1, FS_CardinalityType, FS_EmptySet
  <2> QED
    BY <1>2, <2>1
<1> HIDE DEF new
<1>5. \A k \in DOMAIN new : match(k).product \in products
  BY <1>2
<1>6. \A j, k \in DOMAIN new : match(j).product = match(k).product => match(j) = match(k)
  BY <1>2 DEF IsInjective
<1> HIDE DEF match
<1>7. /\ \A m \in added : m.product \in products
      /\ \A m, o \in added : m.product = o.product => m = o
  BY <1>5, <1>6
<1>8. products # {} => added # {}
  BY <1>4
<1> HIDE DEF added
<1>9. /\ matches'[r] = matches[r] \cup added
      /\ \A s \in Rows : s # r => matches'[s] = matches[s]
  BY <1>3 DEF TypeOK
<1>10. \A m \in matches[r] : m.product \notin products
  BY DEF ProductsOf
<1>11. NoDuplicateMatch'
  <2> SUFFICES ASSUME NEW s \in Rows, NEW m \in matches'[s], NEW o \in matches'[s],
                      m.product = o.product
               PROVE  m = o
    BY DEF NoDuplicateMatch
  <2>1. CASE s # r
    BY <1>9, <2>1 DEF NoDuplicateMatch
  <2>2. CASE s = r
    BY <1>7, <1>9, <1>10, <2>2 DEF NoDuplicateMatch
  <2> QED
    BY <2>1, <2>2
<1> QED
  BY <1>8, <1>9, <1>11

LEMMA SearchEndsSearch ==
    ASSUME OneSearchEach, IInv, SearchInv, NEW q \in Searches, NEW products \in SUBSET Found,
           RetryFinds(q, products) \/ EndMore(q, products)
    PROVE  SearchInv'
<1> DEFINE new == products \ search[q].known
<1>1. PICK r \in Rows : r = search[q].row
  BY SearchedRow DEF RetryFinds, EndMore, IInv
<1>2. /\ InProgress(q) /\ AppendMatches(r, new)
      /\ search' = [search EXCEPT ![q] = NoSearch]
      /\ failed' = failed /\ crashes' = crashes
  BY <1>1 DEF RetryFinds, EndMore, InProgress
<1>3. new \in SUBSET Found /\ new \cap ProductsOf(r) = {}
  BY <1>1, <1>2 DEF SearchInv, KnowsRow
<1>4. /\ search[q].kind = "retry" => matches[r] = {} /\ new # {}
      /\ ~failed[r]
  <2>1. ~failed[r] /\ (search[q].kind = "retry" => matches[r] = {} /\ search[q].known = ProductsOf(r))
    BY <1>1, <1>2 DEF SearchInv, KnowsRow, InProgress
  <2>2. search[q].kind = "retry" => search[q].known = {}
    BY <2>1 DEF ProductsOf
  <2>3. search[q].kind = "retry" => products # {}
    BY DEF RetryFinds, EndMore
  <2> QED
    BY <2>1, <2>2, <2>3
<1> HIDE DEF new
<1>5. /\ NoDuplicateMatch'
      /\ \A s \in Rows : s # r => matches'[s] = matches[s]
      /\ matches[r] \subseteq matches'[r]
      /\ new # {} => matches'[r] # {}
  BY <1>2, <1>3, AppendMatchesDistinct DEF IInv, SearchInv
<1>6. NoSearch \in SearchStates
  BY DEF SearchStates
<1>7. \A p \in Searches : p # q /\ InProgress(p) => search[p].row # r
  BY <1>1, <1>2, <1>6, OthersElsewhere
<1>8. search'[q] = NoSearch /\ \A p \in Searches : p # q => search'[p] = search[p]
  BY <1>2 DEF IInv, RequestsOK
<1>9. \A s \in Rows : s # r => matches'[s] = matches[s] /\ failed'[s] = failed[s]
  BY <1>2, <1>5
<1>10. /\ \A p \in Searches : p # q => KnowsRow(p)'
       /\ crashes' = 0 => \A s \in Rows : s # r => ShowsOutcome(s)'
  BY <1>1, <1>2, <1>7, <1>8, <1>9, OtherRowsKept
<1>11. KnowsRow(q)'
  BY <1>8 DEF KnowsRow, InProgress, NoSearch
<1>12. crashes = 0 => ShowsOutcome(r)'
  <2>1. CASE search[q].kind = "retry"
    BY <1>2, <1>4, <1>5, <2>1 DEF ShowsOutcome
  <2>2. CASE search[q].kind # "retry"
    <3>1. ~SearchedAgain(r)
      BY <1>7, <2>2 DEF SearchedAgain, InProgress
    <3>2. crashes = 0 => matches[r] # {}
      BY <1>4, <3>1 DEF SearchInv, ShowsOutcome
    <3> QED
      BY <1>2, <1>4, <1>5, <3>2 DEF ShowsOutcome
  <2> QED
    BY <2>1, <2>2
<1>13. crashes' = 0 => \A s \in Rows : ShowsOutcome(s)'
  BY <1>2, <1>10, <1>12
<1>14. \A p \in Searches : KnowsRow(p)'
  BY <1>10, <1>11
<1> QED
  BY <1>5, <1>13, <1>14 DEF SearchInv

LEMMA RetryFailsSearch ==
    ASSUME OneSearchEach, IInv, SearchInv, NEW q \in Searches, RetryFails(q)
    PROVE  SearchInv'
<1>1. PICK r \in Rows : r = search[q].row
  BY SearchedRow DEF RetryFails, IInv
<1>2. /\ search[q].kind = "retry" /\ search' = [search EXCEPT ![q] = NoSearch]
      /\ failed' = [failed EXCEPT ![r] = TRUE] /\ matches' = matches /\ crashes' = crashes
  BY <1>1 DEF RetryFails
<1>3. InProgress(q) /\ matches[r] = {} /\ NoSearch \in SearchStates
  BY <1>1, <1>2 DEF SearchInv, KnowsRow, InProgress, SearchStates
<1>4. failed'[r] /\ \A s \in Rows : s # r => failed'[s] = failed[s]
  BY <1>2 DEF IInv, TypeOK
<1>5. \A p \in Searches : p # q /\ InProgress(p) => search[p].row # r
  BY <1>1, <1>2, <1>3, OthersElsewhere
<1>6. search'[q] = NoSearch /\ \A p \in Searches : p # q => search'[p] = search[p]
  BY <1>2 DEF IInv, RequestsOK
<1>7. \A s \in Rows : s # r => matches'[s] = matches[s] /\ failed'[s] = failed[s]
  BY <1>2, <1>4
<1>8. /\ \A p \in Searches : p # q => KnowsRow(p)'
      /\ crashes' = 0 => \A s \in Rows : s # r => ShowsOutcome(s)'
  BY <1>1, <1>2, <1>5, <1>6, <1>7, OtherRowsKept
<1>9. KnowsRow(q)'
  BY <1>6 DEF KnowsRow, InProgress, NoSearch
<1>10. ShowsOutcome(r)'
  BY <1>2, <1>3, <1>4 DEF ShowsOutcome
<1>11. NoDuplicateMatch'
  BY <1>2 DEF SearchInv, NoDuplicateMatch
<1> QED
  BY <1>8, <1>9, <1>10, <1>11 DEF SearchInv

LEMMA NextSearchInv ==
    ASSUME OneSearchEach, OneSearchEach', IInv, SearchInv, [Next]_vars
    PROVE  SearchInv'
<1>1. CASE SearchNext
  BY <1>1, BeginRetrySearch, BeginMoreSearch, SearchEndsSearch, RetryFailsSearch DEF SearchNext
<1>2. CASE SaveNext \/ RebuildNext \/ UNCHANGED vars
  <2>1. matches' = matches /\ failed' = failed /\ search' = search /\ crashes' = crashes
    BY <1>2 DEF SaveNext, LoadSave, CommitDraft, CommitConfirm, RebuildNext, LoadRebuild, PlanRebuild,
       CommitRebuild, vars, tables, rowVars
  <2> QED
    BY <2>1, SearchKept
<1>3. CASE Crash
  <2>1. matches' = matches /\ crashes' # 0 /\ \A q \in Searches : search'[q].kind = "none"
    BY <1>3, SubmissionFlowAssumption DEF Crash, tables, rowVars, NoSearch, IInv, TypeOK
  <2>2. NoDuplicateMatch'
    BY <2>1 DEF SearchInv, NoDuplicateMatch
  <2> QED
    BY <2>1, <2>2 DEF SearchInv, KnowsRow, InProgress
<1> QED
  BY <1>1, <1>2, <1>3 DEF Next

LEMMA SpecSearch == Spec /\ []OneSearchEach => [](IInv /\ SearchInv)
<1>1. Init => IInv /\ SearchInv
  BY InitIInv, InitSearch
<1>2. OneSearchEach /\ OneSearchEach' /\ IInv /\ SearchInv /\ [Next]_vars => (IInv /\ SearchInv)'
  BY NextIInv, NextSearchInv
<1> QED
  BY <1>1, <1>2, PTL DEF Spec

\* As long as no row has two searches at once, a row never lists a product twice,
\* whatever rebuilds, saves and searches of other rows do beside it.
THEOREM SpecNoDuplicateMatch == Spec /\ []OneSearchEach => []NoDuplicateMatch
<1>1. IInv /\ SearchInv => NoDuplicateMatch
  BY DEF SearchInv
<1> QED
  BY <1>1, SpecSearch, PTL

\* Then, too, and without a restart, a row that is not being searched shows an
\* error or matches and never both.
THEOREM SpecRowShowsOutcome == Spec /\ []OneSearchEach => []RowShowsOutcome
<1>1. IInv /\ SearchInv => RowShowsOutcome
  BY DEF SearchInv, RowShowsOutcome, ShowsOutcome
<1> QED
  BY <1>1, SpecSearch, PTL
=============================================================================
