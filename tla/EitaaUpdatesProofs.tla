------------------------- MODULE EitaaUpdatesProofs -------------------------
(***************************************************************************)
(* For every channel, limit of Uniom and number of overlapping checks: the *)
(* types of EitaaUpdates, that the cursor passes over no price that was    *)
(* not previewed, and, without overlapping checks, that no change of price *)
(* is previewed twice and that the cursor only moves forward.              *)
(***************************************************************************)
EXTENDS EitaaUpdates, WellFoundedInduction, TLAPS

Previews == UNION {[rows -> Operations] : rows \in SUBSET (Updates \X Products)}

PreviewsAreSeq == previews \in Seq(Previews)

Busy(r) == check[r].phase # "idle"

\* A request has read a cursor that its store had, so the prices up to it are
\* in previews; its updates follow on that cursor without a gap.
SeenCovered(r) == \A row \in Priced(1 .. check[r].seen) : Previewed(row)

GotFollows(r) ==
    check[r].phase \in {"searches", "stores"} =>
        \E first \in 1 .. check[r].seen + 1, last \in 0 .. published : check[r].got = first .. last

CheckInv ==
    \A r \in Requests : SeenCovered(r) /\ GotFollows(r) /\ (Busy(r) \/ check[r] = Idle)

\* A check that no other one has overtaken has read the cursor as it is.
SeesCursor == \A r \in Requests : Busy(r) /\ r \notin overtaken => check[r].seen = cursor

\* Without overlapping checks, what was previewed is at or below the cursor.
PreviewedIsBehind ==
    ~overlapped => \A i \in DOMAIN previews : \A row \in DOMAIN previews[i] : row[1] <= cursor

IInv ==
    /\ TypeOK
    /\ PreviewsAreSeq
    /\ CheckInv
    /\ CursorCoversPreviews
    /\ SeesCursor
    /\ PreviewedIsBehind
    /\ PreviewedOnce

-----------------------------------------------------------------------------
\* A set of numbers that is bounded and not empty has a largest one.
LEMMA LargestExists ==
    ASSUME NEW n \in Nat, NEW us \in SUBSET (1 .. n), us # {}
    PROVE  Largest(us) \in us /\ \A v \in us : v <= Largest(us)
<1> DEFINE below == {n - u : u \in us}
           less  == {pair \in Nat \X Nat : pair[1] < pair[2]}
<1>1. IsWellFoundedOn(less, Nat)
  BY NatLessThanWellFounded DEF OpToRel
<1>2. below \subseteq Nat /\ below # {}
  <2>1. \A u \in us : n - u \in Nat
    OBVIOUS
  <2>2. PICK u \in us : TRUE
    OBVIOUS
  <2> QED
    BY <2>1, <2>2
<1>3. PICK b \in below : \A c \in below : <<c, b>> \notin less
  <2> HIDE DEF below, less
  <2> QED
    BY <1>1, <1>2, WFMin
<1>4. PICK u \in us : b = n - u
  BY <1>3
<1>5. \A v \in us : v <= u
  <2> TAKE v \in us
  <2>1. n - v \in below /\ <<n - v, n - u>> \notin less
    BY <1>3, <1>4
  <2>2. n - v \in Nat /\ n - u \in Nat /\ ~(n - v < n - u)
    BY <2>1
  <2> QED
    BY <2>2
<1> QED
  BY <1>5 DEF Largest

-----------------------------------------------------------------------------
\* Nothing is checked and nothing is previewed at first.
LEMMA InitIInv == Init => IInv
<1> SUFFICES ASSUME Init PROVE IInv
  OBVIOUS
<1>1. TypeOK
  <2>1. Idle \in Checks
    BY DEF Init, Idle, Checks
  <2>2. DOMAIN previews = {}
    BY DEF Init
  <2>3. published \in 0 .. MaxUpdates /\ cursor \in 0 .. published /\ begun \in 0 .. MaxChecks
    BY EitaaUpdatesAssumption DEF Init
  <2>4. known \subseteq Products /\ overtaken \subseteq Requests /\ overlapped \in BOOLEAN
    BY DEF Init
  <2>5. check \in [Requests -> Checks]
    BY <2>1 DEF Init
  <2> QED
    BY <2>2, <2>3, <2>4, <2>5 DEF TypeOK
<1>2. PreviewsAreSeq
  BY DEF Init, PreviewsAreSeq
<1>3. Priced(1 .. 0) = {}
  BY DEF Priced
<1>4. CheckInv
  BY <1>3 DEF Init, CheckInv, SeenCovered, GotFollows, Busy, Idle
<1>5. CursorCoversPreviews
  BY <1>3 DEF Init, CursorCoversPreviews
<1>6. SeesCursor
  BY DEF Init, SeesCursor, Busy, Idle
<1>7. PreviewedIsBehind /\ PreviewedOnce
  BY DEF Init, PreviewedIsBehind, PreviewedOnce
<1> QED
  BY <1>1, <1>2, <1>4, <1>5, <1>6, <1>7 DEF IInv

-----------------------------------------------------------------------------
(* Steps that store nothing.                                               *)

\* A request ends or has not begun, begins with the cursor as it is, or goes on
\* with the cursor that it read.
Proceeds(q) ==
    \/ check'[q] = Idle
    \/ check'[q].seen = cursor /\ check'[q].phase = "asks"
    \/ /\ Busy(q) /\ Busy(q)' /\ check'[q].seen = check[q].seen
       /\ q \in overtaken => q \in overtaken'
       /\ GotFollows(q)'

\* As long as nothing is stored and every request proceeds, the invariant holds.
LEMMA QuietKeeps ==
    ASSUME IInv, UNCHANGED <<cursor, previews, overlapped>>, \A q \in Requests : Proceeds(q)
    PROVE  CheckInv' /\ CursorCoversPreviews' /\ SeesCursor' /\ PreviewedIsBehind' /\ PreviewedOnce'
<1>1. \A row : Previewed(row)' <=> Previewed(row)
  BY DEF Previewed
<1>2. Priced(1 .. 0) = {}
  BY DEF Priced
<1>3. CheckInv'
  <2> SUFFICES ASSUME NEW q \in Requests PROVE SeenCovered(q)' /\ GotFollows(q)' /\ (Busy(q)' \/ check'[q] = Idle)
    BY DEF CheckInv
  <2>1. CASE check'[q] = Idle
    BY <2>1, <1>2 DEF SeenCovered, GotFollows, Idle
  <2>2. CASE check'[q].seen = cursor /\ check'[q].phase = "asks"
    BY <2>2, <1>1 DEF IInv, CursorCoversPreviews, SeenCovered, GotFollows, Busy
  <2>3. CASE Busy(q)' /\ check'[q].seen = check[q].seen /\ GotFollows(q)'
    BY <2>3, <1>1 DEF IInv, CheckInv, SeenCovered
  <2> QED
    BY <2>1, <2>2, <2>3 DEF Proceeds
<1>4. CursorCoversPreviews'
  BY <1>1 DEF IInv, CursorCoversPreviews
<1>5. SeesCursor'
  BY DEF IInv, SeesCursor, Proceeds, Busy, Idle
<1>6. PreviewedIsBehind' /\ PreviewedOnce'
  BY DEF IInv, PreviewedIsBehind, PreviewedOnce
<1> QED
  BY <1>3, <1>4, <1>5, <1>6

\* A request of which nothing changes proceeds.
LEMMA SameProceeds ==
    ASSUME IInv, NEW q \in Requests, check'[q] = check[q],
           q \in overtaken => q \in overtaken', published' \in Nat, published <= published'
    PROVE  Proceeds(q)
<1>1. GotFollows(q) /\ published \in Nat
  BY EitaaUpdatesAssumption DEF IInv, CheckInv, TypeOK
<1>2. GotFollows(q)'
  BY <1>1 DEF GotFollows
<1>3. Busy(q) \/ check[q] = Idle
  BY DEF IInv, CheckInv
<1> QED
  BY <1>2, <1>3 DEF Proceeds, Busy

\* What was published stays within the bounds that it widens.
LEMMA TypeKeeps ==
    ASSUME TypeOK, PreviewsAreSeq, UNCHANGED <<cursor, previews>>,
           published' \in published .. MaxUpdates, known' \subseteq Products,
           check' \in [Requests -> Checks'], begun' \in 0 .. MaxChecks,
           overtaken' \subseteq Requests, overlapped' \in BOOLEAN
    PROVE  TypeOK' /\ PreviewsAreSeq'
<1>1. published \in Nat /\ published' \in Nat /\ published <= published' /\ published' \in 0 .. MaxUpdates
  BY EitaaUpdatesAssumption DEF TypeOK
<1>2. cursor' \in 0 .. published'
  BY <1>1 DEF TypeOK
<1>3. \A i \in DOMAIN previews' :
          /\ DOMAIN previews'[i] \subseteq (1 .. published') \X Products
          /\ \A row \in DOMAIN previews'[i] : previews'[i][row] \in Operations
  <2>1. 1 .. published \subseteq 1 .. published'
    BY <1>1
  <2> QED
    BY <2>1 DEF TypeOK
<1>4. PreviewsAreSeq'
  BY DEF PreviewsAreSeq
<1> QED
  BY <1>1, <1>2, <1>3, <1>4 DEF TypeOK

\* A request is one of the possible ones when its fields are.
LEMMA OneCheck ==
    ASSUME TypeOK, NEW r \in Requests, NEW c \in Checks, check' = [check EXCEPT ![r] = c],
           UNCHANGED published
    PROVE  /\ check' \in [Requests -> Checks']
           /\ check'[r] = c
           /\ \A q \in Requests : q # r => check'[q] = check[q]
<1>1. Checks' = Checks
  BY DEF Checks
<1> QED
  BY <1>1 DEF TypeOK

\* A step of one request that stores nothing.
LEMMA OneProceeds ==
    ASSUME IInv, NEW r \in Requests, NEW c \in Checks, check' = [check EXCEPT ![r] = c],
           UNCHANGED <<published, known, cursor, previews, overlapped>>, begun' \in 0 .. MaxChecks,
           overtaken' \in {overtaken, overtaken \ {r}}, Proceeds(r)
    PROVE  IInv'
<1>1. TypeOK /\ PreviewsAreSeq
  BY DEF IInv
<1>2. /\ check' \in [Requests -> Checks']
      /\ \A q \in Requests : q # r => check'[q] = check[q]
  BY <1>1, OneCheck
<1>3. published \in Nat /\ published' \in published .. MaxUpdates
  BY <1>1, EitaaUpdatesAssumption DEF TypeOK
<1>4. known' \subseteq Products /\ overtaken' \subseteq Requests /\ overlapped' \in BOOLEAN
  BY <1>1 DEF TypeOK
<1>5. TypeOK' /\ PreviewsAreSeq'
  BY <1>1, <1>2, <1>3, <1>4, TypeKeeps
<1>6. ASSUME NEW q \in Requests PROVE Proceeds(q)
  <2>1. CASE q = r
    BY <2>1
  <2>2. CASE q # r
    BY <2>2, <1>2, <1>3, SameProceeds
  <2> QED
    BY <2>1, <2>2
<1> QED
  BY <1>5, <1>6, QuietKeeps DEF IInv

-----------------------------------------------------------------------------
LEMMA PublishStep == IInv /\ Publish => IInv'
<1> SUFFICES ASSUME IInv, Publish PROVE IInv'
  OBVIOUS
<1>1. published \in Nat /\ published' = published + 1 /\ published' \in published .. MaxUpdates
  BY EitaaUpdatesAssumption DEF IInv, TypeOK, Publish
<1>2. Checks \subseteq Checks'
  <2>1. 0 .. published \subseteq 0 .. published' /\ 1 .. published \subseteq 1 .. published'
    BY <1>1
  <2> QED
    BY <2>1 DEF Checks
<1>3. check' \in [Requests -> Checks']
  BY <1>2 DEF IInv, TypeOK, Publish
<1>4. TypeOK' /\ PreviewsAreSeq'
  BY <1>1, <1>3, TypeKeeps DEF IInv, TypeOK, Publish, store, history
<1>5. \A q \in Requests : Proceeds(q)
  BY <1>1, SameProceeds DEF Publish, history
<1> QED
  BY <1>4, <1>5, QuietKeeps DEF IInv, Publish, store, history

LEMMA ChangeHistoryStep == ASSUME IInv, NEW p \in Products, ChangeHistory(p) PROVE IInv'
<1>1. published \in Nat /\ UNCHANGED published /\ published' \in published .. MaxUpdates
  BY EitaaUpdatesAssumption DEF IInv, TypeOK, ChangeHistory
<1>2. known' \subseteq Products
  BY DEF IInv, TypeOK, ChangeHistory
<1>3. check' \in [Requests -> Checks']
  BY <1>1 DEF IInv, TypeOK, ChangeHistory, Checks
<1>4. TypeOK' /\ PreviewsAreSeq'
  BY <1>1, <1>2, <1>3, TypeKeeps DEF IInv, TypeOK, ChangeHistory, history
<1>5. \A q \in Requests : Proceeds(q)
  BY <1>1, SameProceeds DEF ChangeHistory, history
<1> QED
  BY <1>4, <1>5, QuietKeeps DEF IInv, ChangeHistory, history

LEMMA BeginsStep ==
    ASSUME IInv, NEW r \in Requests, NEW role \in {"admin", "seller"}, Begins(r, role)
    PROVE  IInv'
<1> DEFINE c == [Idle EXCEPT !.phase = "asks", !.role = role, !.seen = cursor, !.had = known]
<1>1. c \in Checks
  BY EitaaUpdatesAssumption DEF IInv, TypeOK, Checks, Idle
<1>2. check' = [check EXCEPT ![r] = c] /\ check'[r] = c
  BY DEF Begins, IInv, TypeOK
<1>3. Proceeds(r)
  BY <1>2 DEF Proceeds, Idle
<1>4. begun' \in 0 .. MaxChecks
  BY EitaaUpdatesAssumption DEF IInv, TypeOK, Begins
<1> HIDE DEF c
<1> QED
  BY <1>1, <1>2, <1>3, <1>4, OneProceeds DEF Begins, store

LEMMA ReceivesStep ==
    ASSUME IInv, NEW r \in Requests, NEW first \in 1 .. MaxUpdates + 1, NEW last \in 0 .. MaxUpdates,
           Receives(r, first, last)
    PROVE  IInv'
<1> DEFINE c == [check[r] EXCEPT !.got = first .. last,
                                 !.phase = IF check[r].role = "seller" THEN "searches" ELSE "stores"]
<1>1. /\ check[r] \in Checks /\ published \in Nat
      /\ first \in Nat /\ last \in Nat /\ 1 <= first /\ last <= published
  BY EitaaUpdatesAssumption DEF IInv, TypeOK, Receives
<1>2. c \in Checks
  <2>1. first .. last \in SUBSET (1 .. published)
    BY <1>1
  <2>2. (IF check[r].role = "seller" THEN "searches" ELSE "stores")
           \in {"idle", "asks", "searches", "stores"}
    OBVIOUS
  <2> QED
    BY <1>1, <2>1, <2>2 DEF Checks
<1>3. check' = [check EXCEPT ![r] = c] /\ check'[r] = c
  BY DEF Receives, Received, IInv, TypeOK
<1>4. Busy(r) /\ Busy(r)' /\ check'[r].seen = check[r].seen
  BY <1>1, <1>3 DEF Busy, Receives, Checks
<1>5. GotFollows(r)'
  <2>1. c.got = first .. last /\ c.seen = check[r].seen /\ check[r].seen \in Nat
    BY <1>1 DEF Checks
  <2>2. first \in 1 .. c.seen + 1 /\ last \in 0 .. published'
    BY <1>1, <2>1 DEF Receives
  <2> HIDE DEF c
  <2> QED
    BY <1>3, <2>1, <2>2 DEF GotFollows
<1>6. Proceeds(r)
  BY <1>4, <1>5 DEF Proceeds, Receives, history
<1>7. begun' \in 0 .. MaxChecks
  BY DEF IInv, TypeOK, Receives
<1> HIDE DEF c
<1> QED
  BY <1>2, <1>3, <1>6, <1>7, OneProceeds DEF Receives, store, history

LEMMA SearchesStep ==
    ASSUME IInv, NEW r \in Requests, NEW found \in SUBSET Products, Searches(r, found)
    PROVE  IInv'
<1> DEFINE c == [check[r] EXCEPT !.found = found, !.phase = "stores"]
<1>1. check[r] \in Checks /\ published \in Nat /\ GotFollows(r)
  BY EitaaUpdatesAssumption DEF IInv, TypeOK, CheckInv
<1>2. c \in Checks
  BY <1>1 DEF Checks
<1>3. check' = [check EXCEPT ![r] = c] /\ check'[r] = c
  BY DEF Searches, IInv, TypeOK
<1>4. c.phase = "stores" /\ c.seen = check[r].seen /\ c.got = check[r].got
  BY <1>1 DEF Checks
<1> HIDE DEF c
<1>5. Busy(r) /\ Busy(r)' /\ GotFollows(r)'
  <2>1. check[r].phase = "searches" /\ published' = published
    BY DEF Searches
  <2>2. Busy(r) /\ Busy(r)'
    BY <1>3, <1>4, <2>1 DEF Busy
  <2> QED
    BY <1>1, <1>3, <1>4, <2>1, <2>2 DEF GotFollows
<1>6. Proceeds(r)
  BY <1>3, <1>4, <1>5 DEF Proceeds, Searches, history
<1>7. begun' \in 0 .. MaxChecks
  BY DEF IInv, TypeOK, Searches
<1> QED
  BY <1>2, <1>3, <1>6, <1>7, OneProceeds DEF Searches, store, history

LEMMA EndsStep ==
    ASSUME IInv, NEW r \in Requests, Fails(r) \/ NothingToStore(r)
    PROVE  IInv'
<1>1. Idle \in Checks
  BY EitaaUpdatesAssumption DEF IInv, TypeOK, Checks, Idle
<1>2. check' = [check EXCEPT ![r] = Idle] /\ check'[r] = Idle
  BY DEF Fails, NothingToStore, IInv, TypeOK
<1>3. Proceeds(r)
  BY <1>2 DEF Proceeds
<1>4. begun' \in 0 .. MaxChecks
  BY DEF IInv, TypeOK, Fails, NothingToStore
<1> QED
  BY <1>1, <1>2, <1>3, <1>4, OneProceeds DEF Fails, NothingToStore, store, history

LEMMA CrashStep == IInv /\ Crash => IInv'
<1> SUFFICES ASSUME IInv, Crash PROVE IInv'
  OBVIOUS
<1>1. published \in Nat /\ UNCHANGED published /\ published' \in published .. MaxUpdates
  BY EitaaUpdatesAssumption DEF IInv, TypeOK, Crash
<1>2. Idle \in Checks'
  BY <1>1 DEF Checks, Idle
<1>3. check' \in [Requests -> Checks'] /\ \A q \in Requests : check'[q] = Idle
  BY <1>2 DEF Crash
<1>4. TypeOK' /\ PreviewsAreSeq'
  BY <1>1, <1>3, TypeKeeps DEF IInv, TypeOK, Crash, store, history
<1>5. \A q \in Requests : Proceeds(q)
  BY <1>3 DEF Proceeds
<1> QED
  BY <1>4, <1>5, QuietKeeps DEF IInv, Crash, store, history

LEMMA StutterStep == IInv /\ UNCHANGED vars => IInv'
<1> SUFFICES ASSUME IInv, UNCHANGED vars PROVE IInv'
  OBVIOUS
<1>1. published \in Nat /\ UNCHANGED published /\ published' \in published .. MaxUpdates
  BY EitaaUpdatesAssumption DEF IInv, TypeOK, vars
<1>2. check' \in [Requests -> Checks']
  BY <1>1 DEF IInv, TypeOK, vars, Checks
<1>3. TypeOK' /\ PreviewsAreSeq'
  BY <1>1, <1>2, TypeKeeps DEF IInv, TypeOK, vars, store, history
<1>4. \A q \in Requests : Proceeds(q)
  BY <1>1, SameProceeds DEF vars, history
<1> QED
  BY <1>3, <1>4, QuietKeeps DEF IInv, vars, store, history

-----------------------------------------------------------------------------
(* Storing a preview.                                                      *)

\* What a check that is about to store accepts: its updates after the cursor
\* that it read, up to the largest one, leave out no price.
LEMMA AcceptedLeavesNoGap ==
    ASSUME IInv, NEW r \in Requests, check[r].phase = "stores", Accepted(r) # {}
    PROVE  /\ Accepted(r) \subseteq 1 .. published
           /\ NextCursor(r) \in 0 .. published
           /\ check[r].seen < NextCursor(r)
           /\ \A u \in Accepted(r) : check[r].seen < u /\ u <= NextCursor(r)
           /\ Priced(1 .. NextCursor(r)) \subseteq Priced(1 .. check[r].seen) \cup Priced(Accepted(r))
<1> DEFINE seen == check[r].seen
           top  == Largest(Accepted(r))
<1>1. /\ published \in Nat /\ published <= MaxUpdates
      /\ seen \in Nat /\ seen <= published /\ check[r].got \subseteq 1 .. published
  BY EitaaUpdatesAssumption DEF IInv, TypeOK, Checks
<1>2. Accepted(r) \subseteq 1 .. published
  BY <1>1 DEF Accepted
<1>3. top \in Accepted(r) /\ \A u \in Accepted(r) : u <= top
  BY <1>1, <1>2, LargestExists
<1>4. \A u \in Accepted(r) : seen < u
  BY <1>1 DEF Accepted
<1>5. NextCursor(r) = top
  BY <1>1, <1>2, <1>3, <1>4 DEF NextCursor, Greater
<1>6. ASSUME NEW row \in Priced(1 .. top)
      PROVE  row \in Priced(1 .. seen) \cup Priced(Accepted(r))
  <2>1. row \in (1 .. top) \X Products /\ row[2] \in Offers[row[1]]
    BY DEF Priced
  <2>2. CASE row[1] <= seen
    BY <1>1, <1>2, <1>3, <2>1, <2>2 DEF Priced
  <2>3. CASE ~(row[1] <= seen)
    <3>1. row[1] \in Posts
      BY <1>1, <1>2, <1>3, <2>1, EitaaUpdatesAssumption
    <3>2. PICK first \in 1 .. seen + 1, last \in 0 .. published : check[r].got = first .. last
      BY DEF IInv, CheckInv, GotFollows
    <3>3. top <= last
      BY <1>3, <3>2 DEF Accepted
    <3>4. row[1] \in check[r].got
      BY <1>1, <1>2, <1>3, <2>1, <2>3, <3>2, <3>3
    <3>5. row[1] \in Accepted(r)
      BY <1>1, <2>1, <2>3, <3>1, <3>4 DEF Accepted
    <3> QED
      BY <2>1, <3>5 DEF Priced
  <2> QED
    BY <2>2, <2>3
<1> QED
  BY <1>1, <1>2, <1>3, <1>4, <1>5, <1>6

\* What the step appends: nothing, if there is no price, or the rows of all
\* prices that were accepted.
LEMMA PreviewIsAppended ==
    ASSUME IInv, NEW r \in Requests, StoresPreview(r), Accepted(r) \subseteq 1 .. published
    PROVE  /\ PreviewsAreSeq'
           /\ \/ Priced(Accepted(r)) = {} /\ previews' = previews
              \/ \E preview : /\ previews' = Append(previews, preview)
                              /\ preview \in [Priced(Accepted(r)) -> Operations]
<1>1. PICK recognised :
          LET preview == [row \in Priced(Accepted(r)) |-> Operation(r, row[2], recognised)]
          IN  previews' = IF DOMAIN preview = {} THEN previews ELSE Append(previews, preview)
  BY DEF StoresPreview
<1> DEFINE preview == [row \in Priced(Accepted(r)) |-> Operation(r, row[2], recognised)]
<1>2. preview \in [Priced(Accepted(r)) -> Operations]
  BY DEF Operation, Operations
<1>3. Priced(Accepted(r)) \in SUBSET (Updates \X Products)
  BY EitaaUpdatesAssumption DEF Priced, Updates, IInv, TypeOK
<1>4. preview \in Previews
  BY <1>2, <1>3 DEF Previews
<1>5. DOMAIN preview = Priced(Accepted(r))
  OBVIOUS
<1>6. previews' = IF DOMAIN preview = {} THEN previews ELSE Append(previews, preview)
  BY <1>1
<1> HIDE DEF preview
<1> QED
  BY <1>2, <1>4, <1>5, <1>6 DEF PreviewsAreSeq, IInv

\* The previews that are there stay, and at most one comes to them.
LEMMA PreviewsGrow ==
    ASSUME PreviewsAreSeq, NEW preview, NEW rows, DOMAIN preview = rows,
           previews' = Append(previews, preview)
    PROVE  /\ DOMAIN previews' = 1 .. Len(previews) + 1
           /\ DOMAIN previews = 1 .. Len(previews) /\ Len(previews) \in Nat
           /\ \A i \in DOMAIN previews : previews'[i] = previews[i]
           /\ DOMAIN previews'[Len(previews) + 1] = rows
           /\ \A row : Previewed(row) \/ row \in rows => Previewed(row)'
<1>1. /\ DOMAIN previews' = 1 .. Len(previews) + 1
      /\ DOMAIN previews = 1 .. Len(previews) /\ Len(previews) \in Nat
      /\ \A i \in DOMAIN previews : previews'[i] = previews[i]
      /\ previews'[Len(previews) + 1] = preview
  BY DEF PreviewsAreSeq
<1> QED
  BY <1>1 DEF Previewed

LEMMA StoresPreviewStep ==
    ASSUME IInv, NEW r \in Requests, StoresPreview(r)
    PROVE  IInv' /\ (~overlapped' => cursor' >= cursor)
<1> DEFINE rows == Priced(Accepted(r))
<1>1. /\ check[r].phase = "stores" /\ Accepted(r) # {}
      /\ cursor' = NextCursor(r) /\ UNCHANGED <<published, known, begun>>
      /\ overlapped' = (overlapped \/ r \in overtaken)
      /\ overtaken' = overtaken \cup {q \in Requests \ {r} : Busy(q)}
      /\ check' = [check EXCEPT ![r] = Idle]
  BY DEF StoresPreview, Busy
<1>2. /\ Accepted(r) \subseteq 1 .. published
      /\ cursor' \in 0 .. published
      /\ check[r].seen < cursor'
      /\ \A u \in Accepted(r) : check[r].seen < u /\ u <= cursor'
      /\ Priced(1 .. cursor') \subseteq Priced(1 .. check[r].seen) \cup rows
  BY <1>1, AcceptedLeavesNoGap
<1>3. /\ PreviewsAreSeq /\ PreviewsAreSeq'
      /\ \/ rows = {} /\ previews' = previews
         \/ \E preview : previews' = Append(previews, preview) /\ preview \in [rows -> Operations]
  BY <1>2, PreviewIsAppended DEF IInv
<1>4. published \in Nat /\ cursor \in Nat /\ cursor' \in Nat /\ check[r].seen \in Nat
  BY <1>2, EitaaUpdatesAssumption DEF IInv, TypeOK, Checks
<1>5. Idle \in Checks
  BY EitaaUpdatesAssumption DEF IInv, TypeOK, Checks, Idle
<1>6. /\ check' \in [Requests -> Checks'] /\ check'[r] = Idle
      /\ \A q \in Requests : q # r => check'[q] = check[q]
  BY <1>1, <1>5, OneCheck DEF IInv
<1>7. rows \subseteq (1 .. published) \X Products /\ \A row \in rows : row[1] \in Accepted(r)
  BY <1>2 DEF Priced
<1> HIDE DEF rows
<1>8. \A row : Previewed(row) \/ row \in rows => Previewed(row)'
  <2>1. CASE rows = {} /\ previews' = previews
    BY <2>1 DEF Previewed
  <2>2. ASSUME NEW preview, previews' = Append(previews, preview), preview \in [rows -> Operations]
        PROVE  \A row : Previewed(row) \/ row \in rows => Previewed(row)'
    BY <1>3, <2>2, PreviewsGrow
  <2> QED
    BY <1>3, <2>1, <2>2
<1>9. TypeOK'
  <2>1. \A i \in DOMAIN previews' :
            /\ DOMAIN previews'[i] \subseteq (1 .. published) \X Products
            /\ \A row \in DOMAIN previews'[i] : previews'[i][row] \in Operations
    <3>1. CASE previews' = previews
      BY <3>1 DEF IInv, TypeOK
    <3>2. ASSUME NEW preview, previews' = Append(previews, preview), preview \in [rows -> Operations],
                 NEW i \in DOMAIN previews'
          PROVE  /\ DOMAIN previews'[i] \subseteq (1 .. published) \X Products
                 /\ \A row \in DOMAIN previews'[i] : previews'[i][row] \in Operations
      <4>1. /\ i \in 1 .. Len(previews) + 1 /\ Len(previews) \in Nat
            /\ DOMAIN previews = 1 .. Len(previews)
            /\ \A k \in DOMAIN previews : previews'[k] = previews[k]
        BY <1>3, <3>2, PreviewsGrow
      <4>2. CASE i \in DOMAIN previews
        BY <4>1, <4>2 DEF IInv, TypeOK
      <4>3. CASE i = Len(previews) + 1
        <5>1. previews'[i] = preview
          BY <1>3, <3>2, <4>3 DEF PreviewsAreSeq
        <5> QED
          BY <1>7, <3>2, <5>1
      <4> QED
        BY <4>1, <4>2, <4>3
    <3> QED
      BY <1>3, <3>1, <3>2
  <2>2. known' \subseteq Products /\ begun' \in 0 .. MaxChecks /\ published' \in 0 .. MaxUpdates
    BY <1>1 DEF IInv, TypeOK
  <2>3. overtaken' \subseteq Requests
    BY <1>1 DEF IInv, TypeOK
  <2>4. overlapped' \in BOOLEAN
    BY <1>1
  <2> QED
    BY <1>1, <1>2, <1>6, <2>1, <2>2, <2>3, <2>4 DEF TypeOK
<1>10. CheckInv'
  <2> SUFFICES ASSUME NEW q \in Requests
               PROVE  SeenCovered(q)' /\ GotFollows(q)' /\ (Busy(q)' \/ check'[q] = Idle)
    BY DEF CheckInv
  <2>1. CASE q = r
    <3>1. Priced(1 .. 0) = {}
      BY DEF Priced
    <3> QED
      BY <1>6, <2>1, <3>1 DEF SeenCovered, GotFollows, Idle
  <2>2. CASE q # r
    <3>1. check'[q] = check[q] /\ published' = published
      BY <1>1, <1>6, <2>2
    <3> QED
      BY <1>8, <3>1 DEF IInv, CheckInv, SeenCovered, GotFollows, Busy
  <2> QED
    BY <2>1, <2>2
<1>11. CursorCoversPreviews'
  BY <1>2, <1>8 DEF IInv, CheckInv, SeenCovered, CursorCoversPreviews
<1>12. SeesCursor'
  BY <1>1, <1>6 DEF SeesCursor, Busy, Idle
<1>13. ~overlapped' => ~overlapped /\ check[r].seen = cursor
  BY <1>1 DEF IInv, SeesCursor, Busy
<1>14. ~overlapped' => /\ \A row \in rows : cursor < row[1] /\ row[1] <= cursor'
                       /\ cursor <= cursor'
  BY <1>2, <1>4, <1>7, <1>13
<1>15. PreviewedIsBehind' /\ PreviewedOnce'
  <2> SUFFICES ASSUME ~overlapped'
               PROVE  /\ \A i \in DOMAIN previews' : \A row \in DOMAIN previews'[i] : row[1] <= cursor'
                      /\ \A i, j \in DOMAIN previews' :
                             i # j => DOMAIN previews'[i] \cap DOMAIN previews'[j] = {}
    BY DEF PreviewedIsBehind, PreviewedOnce
  <2>1. \A i \in DOMAIN previews : \A row \in DOMAIN previews[i] : row[1] \in Nat /\ row[1] <= cursor
    BY <1>4, <1>13 DEF IInv, PreviewedIsBehind, TypeOK
  <2>2. \A i, j \in DOMAIN previews : i # j => DOMAIN previews[i] \cap DOMAIN previews[j] = {}
    BY <1>13 DEF IInv, PreviewedOnce
  <2>3. \A row \in rows : row[1] \in Nat
    BY <1>4, <1>7
  <2>4. CASE previews' = previews
    BY <1>4, <1>14, <2>1, <2>2, <2>4
  <2>5. ASSUME NEW preview, previews' = Append(previews, preview), preview \in [rows -> Operations]
        PROVE  /\ \A i \in DOMAIN previews' : \A row \in DOMAIN previews'[i] : row[1] <= cursor'
               /\ \A i, j \in DOMAIN previews' :
                      i # j => DOMAIN previews'[i] \cap DOMAIN previews'[j] = {}
    <3>1. /\ DOMAIN previews' = DOMAIN previews \cup {Len(previews) + 1}
          /\ \A i \in DOMAIN previews : previews'[i] = previews[i]
          /\ DOMAIN previews'[Len(previews) + 1] = rows
      BY <1>3, <2>5, PreviewsGrow
    <3>2. \A i \in DOMAIN previews : DOMAIN previews[i] \cap rows = {}
      BY <1>4, <1>14, <2>1, <2>3
    <3>3. \A i \in DOMAIN previews' : \A row \in DOMAIN previews'[i] : row[1] <= cursor'
      BY <1>4, <1>14, <2>1, <3>1
    <3> QED
      BY <2>2, <3>1, <3>2, <3>3
  <2> QED
    BY <1>3, <2>4, <2>5
<1> QED
  BY <1>3, <1>4, <1>9, <1>10, <1>11, <1>12, <1>14, <1>15 DEF IInv

-----------------------------------------------------------------------------
\* Every step keeps the invariant, and moves the cursor forward unless checks
\* have overlapped.
LEMMA StepIInv == IInv /\ [Next]_vars => IInv' /\ (~overlapped' => cursor' >= cursor)
<1> SUFFICES ASSUME IInv, [Next]_vars PROVE IInv' /\ (~overlapped' => cursor' >= cursor)
  OBVIOUS
<1>1. cursor \in Nat
  BY EitaaUpdatesAssumption DEF IInv, TypeOK
<1>2. CASE Publish
  BY <1>1, <1>2, PublishStep DEF Publish, store
<1>3. ASSUME NEW p \in Products, ChangeHistory(p) PROVE IInv' /\ cursor' >= cursor
  BY <1>1, <1>3, ChangeHistoryStep DEF ChangeHistory
<1>4. ASSUME NEW r \in Requests, AdminBegins(r) \/ SellerBegins(r) PROVE IInv' /\ cursor' >= cursor
  BY <1>1, <1>4, BeginsStep DEF AdminBegins, SellerBegins, Begins, store
<1>5. ASSUME NEW r \in Requests, NEW first \in 1 .. MaxUpdates + 1, NEW last \in 0 .. MaxUpdates,
             Receives(r, first, last)
      PROVE  IInv' /\ cursor' >= cursor
  BY <1>1, <1>5, ReceivesStep DEF Receives, store
<1>6. ASSUME NEW r \in Requests, NEW found \in SUBSET Products, Searches(r, found)
      PROVE  IInv' /\ cursor' >= cursor
  <2>1. IInv'
    BY <1>6, SearchesStep
  <2>2. cursor' = cursor
    BY <1>6 DEF Searches, store
  <2> QED
    BY <1>1, <2>1, <2>2
<1>7. ASSUME NEW r \in Requests, Fails(r) \/ NothingToStore(r) PROVE IInv' /\ cursor' >= cursor
  BY <1>1, <1>7, EndsStep DEF Fails, NothingToStore, store
<1>8. ASSUME NEW r \in Requests, StoresPreview(r) PROVE IInv' /\ (~overlapped' => cursor' >= cursor)
  BY <1>8, StoresPreviewStep
<1>9. CASE Crash
  BY <1>1, <1>9, CrashStep DEF Crash, store
<1>10. CASE UNCHANGED vars
  BY <1>1, <1>10, StutterStep DEF vars, store
<1> QED
  BY <1>2, <1>3, <1>4, <1>5, <1>6, <1>7, <1>8, <1>9, <1>10 DEF Next, CheckStep

LEMMA SpecIInv == Spec => []IInv
<1>1. IInv /\ [Next]_vars => IInv'
  BY StepIInv
<1> QED
  BY InitIInv, <1>1, PTL DEF Spec

\* The cursor and what every request holds stay within what was published.
THEOREM SpecTypeOK == Spec => []TypeOK
<1>1. IInv => TypeOK
  BY DEF IInv
<1> QED
  BY SpecIInv, <1>1, PTL

\* However checks overlap, fail or are cut off by a restart, the cursor passes
\* no price that is in no preview.
THEOREM SpecCursorCoversPreviews == Spec => []CursorCoversPreviews
<1>1. IInv => CursorCoversPreviews
  BY DEF IInv
<1> QED
  BY SpecIInv, <1>1, PTL

\* Without overlapping checks no change of price is previewed twice.
THEOREM SpecPreviewedOnce == Spec => []PreviewedOnce
<1>1. IInv => PreviewedOnce
  BY DEF IInv
<1> QED
  BY SpecIInv, <1>1, PTL

\* Without overlapping checks the cursor of a store does not move back.
THEOREM SpecCursorOnlyForward == Spec => CursorOnlyForward
<1>1. IInv /\ [Next]_vars => [~overlapped' => cursor' >= cursor]_vars
  BY StepIInv
<1> QED
  BY SpecIInv, <1>1, PTL DEF Spec, CursorOnlyForward
=============================================================================
