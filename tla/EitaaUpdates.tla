---------------------------- MODULE EitaaUpdates ----------------------------
(***************************************************************************)
(* Price changes that a seller posts to the Eitaa channel of a store. A    *)
(* check, by the admin or by the seller, asks Uniom for what comes after   *)
(* the store's cursor (eitaa_last_update_id) and stores a preview of the   *)
(* prices it finds together with the new cursor. The cursor is read before *)
(* the awaits and written after them, and nothing keeps two checks apart.  *)
(*                                                                         *)
(* Uniom is taken to keep its updates: it delivers from the offset on, in  *)
(* order and without gaps, possibly after updates that it delivered before.*)
(***************************************************************************)
EXTENDS Naturals, Sequences, FiniteSets

CONSTANTS
    Requests,       \* requests that check for updates
    Products,
    MaxUpdates,     \* bound of the model: updates of the channel
    Posts,          \* the updates that are posts, new or edited
    Offers,         \* [1 .. MaxUpdates -> SUBSET Products]: priced products of an update
    Limit,          \* updates that Uniom delivers at once
    MaxChecks       \* bound of the model: checks that are begun

ASSUME EitaaUpdatesAssumption ==
    /\ MaxUpdates \in Nat /\ MaxChecks \in Nat /\ Limit \in Nat \ {0}
    /\ Posts \subseteq 1 .. MaxUpdates
    /\ Offers \in [1 .. MaxUpdates -> SUBSET Products]
    /\ \A u \in 1 .. MaxUpdates : u \notin Posts => Offers[u] = {}

VARIABLES
    published,      \* number of updates that the channel has had
    known,          \* products with a selection in a submission of the store that adds
    cursor,         \* store.eitaa_last_update_id, 0 at first
    previews,       \* the preview submissions: what each row <<update, product>> is
    check,          \* what the coroutine of a request holds
    begun,
    overtaken,      \* history: requests whose cursor was changed by another one
    overlapped      \* history: a check that had been overtaken changed the cursor

history == <<overtaken, overlapped>>
store   == <<known, cursor, previews>>
vars    == <<published, store, check, begun, history>>

Updates    == 1 .. MaxUpdates
Operations == {"price_update", "add", "needs_review"}

\* seen: the cursor that the request read; had: what was known at that time;
\* got: the updates it was given; found: the products for which a search of
\* the seller's check had results.
Idle == [phase |-> "idle", role |-> "none", seen |-> 0, had |-> {}, got |-> {}, found |-> {}]

Priced(us) == {row \in us \X Products : row[2] \in Offers[row[1]]}

Largest(us) == CHOOSE u \in us : \A v \in us : v <= u
Greater(a, b) == IF a > b THEN a ELSE b

----------------------------------------------------------------------------
Init ==
    /\ published = 0
    /\ known \in SUBSET Products
    /\ cursor = 0
    /\ previews = <<>>
    /\ check = [r \in Requests |-> Idle]
    /\ begun = 0
    /\ overtaken = {}
    /\ overlapped = FALSE

\* The seller posts to the channel.
Publish ==
    /\ published < MaxUpdates
    /\ published' = published + 1
    /\ UNCHANGED <<store, check, begun, history>>

\* The seller's other submissions change what the store has registered.
ChangeHistory(p) ==
    /\ known' = IF p \in known THEN known \ {p} ELSE known \cup {p}
    /\ UNCHANGED <<published, cursor, previews, check, begun, history>>

Begins(r, role) ==
    /\ check[r].phase = "idle"
    /\ begun < MaxChecks
    /\ check' = [check EXCEPT ![r] =
                    [Idle EXCEPT !.phase = "asks", !.role = role, !.seen = cursor, !.had = known]]
    /\ begun' = begun + 1
    /\ overtaken' = overtaken \ {r}
    /\ UNCHANGED <<published, store, overlapped>>

AdminBegins(r) == Begins(r, "admin")

\* The seller's check is for stores that have added something.
SellerBegins(r) == known # {} /\ Begins(r, "seller")

Received(r, first, last) ==
    check' = [check EXCEPT ![r].got = first .. last,
                           ![r].phase = IF check[r].role = "seller" THEN "searches" ELSE "stores"]

\* Mutant: the cursor is stored with the answer and not with the preview.
ReceivesAndMoves(r, first, last) ==
    /\ check[r].phase = "asks"
    /\ first <= check[r].seen + 1 /\ last <= published /\ last < first + Limit
    /\ Received(r, first, last)
    /\ cursor' = IF first .. last = {} THEN cursor ELSE Greater(check[r].seen, last)
    /\ UNCHANGED <<published, known, previews, begun, history>>

\* Uniom answers with the updates from first to last. The client waits up to 30
\* seconds for an update, so the answer may be empty.
Receives(r, first, last) ==
    /\ check[r].phase = "asks"
    /\ first <= check[r].seen + 1 /\ last <= published /\ last < first + Limit
    /\ Received(r, first, last)
    /\ UNCHANGED <<published, store, begun, history>>

\* The seller's check searches for every product with a price; a search that
\* fails finds nothing.
Searches(r, found) ==
    /\ check[r].phase = "searches"
    /\ found \subseteq UNION {Offers[u] : u \in check[r].got}
    /\ check' = [check EXCEPT ![r].found = found, ![r].phase = "stores"]
    /\ UNCHANGED <<published, store, begun, history>>

\* Uniom, or anything else, fails: the request ends without a change.
Fails(r) ==
    /\ check[r].phase \in {"asks", "searches"}
    /\ check' = [check EXCEPT ![r] = Idle]
    /\ UNCHANGED <<published, store, begun, history>>

\* Mutant: updates are not compared with the cursor.
AcceptedAgain(r) == check[r].got \cap Posts

Accepted(r) == {u \in check[r].got : u > check[r].seen} \cap Posts

\* What the request takes for registered. The admin's page has loaded the rows
\* of one submission before the await and sees them as they were then.
MayRecognise(r) ==
    IF check[r].role = "seller" THEN {known}
    ELSE {ps \in SUBSET Products : /\ known \cap check[r].had \subseteq ps
                                   /\ ps \subseteq known \cup check[r].had}

Operation(r, p, recognised) ==
    CASE p \in recognised                             -> "price_update"
      [] p \notin recognised /\ p \in check[r].found  -> "add"
      [] OTHER                                        -> "needs_review"

\* Mutant: the next offset is stored instead of the last update.
NextOffset(r) == Greater(check[r].seen, Largest(Accepted(r)) + 1)

NextCursor(r) == Greater(check[r].seen, Largest(Accepted(r)))

\* One transaction stores the preview, if a price was found, and the cursor.
StoresPreview(r) ==
    /\ check[r].phase = "stores"
    /\ Accepted(r) # {}
    /\ \E recognised \in MayRecognise(r) :
          LET preview == [row \in Priced(Accepted(r)) |-> Operation(r, row[2], recognised)]
          IN  previews' = IF DOMAIN preview = {} THEN previews ELSE Append(previews, preview)
    /\ cursor' = NextCursor(r)
    /\ overlapped' = (overlapped \/ r \in overtaken)
    /\ overtaken' = overtaken \cup {q \in Requests \ {r} : check[q].phase # "idle"}
    /\ check' = [check EXCEPT ![r] = Idle]
    /\ UNCHANGED <<published, known, begun>>

NothingToStore(r) ==
    /\ check[r].phase = "stores"
    /\ Accepted(r) = {}
    /\ check' = [check EXCEPT ![r] = Idle]
    /\ UNCHANGED <<published, store, begun, history>>

\* A restart ends every request.
Crash ==
    /\ \E r \in Requests : check[r].phase # "idle"
    /\ check' = [r \in Requests |-> Idle]
    /\ UNCHANGED <<published, store, begun, history>>

CheckStep(r) ==
    \/ AdminBegins(r) \/ SellerBegins(r)
    \/ \E first \in 1 .. MaxUpdates + 1, last \in 0 .. MaxUpdates : Receives(r, first, last)
    \/ \E found \in SUBSET Products : Searches(r, found)
    \/ Fails(r) \/ StoresPreview(r) \/ NothingToStore(r)

Next ==
    \/ Publish
    \/ \E p \in Products : ChangeHistory(p)
    \/ \E r \in Requests : CheckStep(r)
    \/ Crash

Spec == Init /\ [][Next]_vars

----------------------------------------------------------------------------
Checks ==
    [phase : {"idle", "asks", "searches", "stores"}, role : {"none", "admin", "seller"},
     seen : 0 .. published, had : SUBSET Products, got : SUBSET (1 .. published),
     found : SUBSET Products]

\* The cursor and what the requests hold are within what was published.
TypeOK ==
    /\ published \in 0 .. MaxUpdates
    /\ known \subseteq Products
    /\ cursor \in 0 .. published
    /\ \A i \in DOMAIN previews :
          /\ DOMAIN previews[i] \subseteq (1 .. published) \X Products
          /\ \A row \in DOMAIN previews[i] : previews[i][row] \in Operations
    /\ check \in [Requests -> Checks]
    /\ begun \in 0 .. MaxChecks
    /\ overtaken \subseteq Requests
    /\ overlapped \in BOOLEAN

\* The update is in a preview that was stored.
Previewed(row) == \E i \in DOMAIN previews : row \in DOMAIN previews[i]

\* Wherever the cursor is, and whatever checks overlapped, a price that was
\* posted up to it is in a preview: nothing is passed over for good.
CursorCoversPreviews == \A row \in Priced(1 .. cursor) : Previewed(row)

\* As long as no check ran into another one, a change of price is in one
\* preview only, so the seller confirms it once.
PreviewedOnce ==
    ~overlapped => \A i, j \in DOMAIN previews :
        i # j => DOMAIN previews[i] \cap DOMAIN previews[j] = {}

\* As long as no check ran into another one, the cursor does not move back.
CursorOnlyForward == [][~overlapped' => cursor' >= cursor]_vars
=============================================================================
