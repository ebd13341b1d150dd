------------------------------ MODULE BatchSend ------------------------------
(***************************************************************************)
(* POST /admin/submissions/{id}/batches/{id}/send-torob, run by several    *)
(* requests at once, the bulk-add client it calls, the endpoint that       *)
(* changes the shop id in between, and the restart of the process.         *)
(*                                                                         *)
(* The handler is a coroutine: what stands between two awaits is one step. *)
(* It awaits at every chunk it posts, and once more to close the client.   *)
(* The tables survive a crash; the attempts, kept in memory, do not.       *)
(***************************************************************************)
EXTENDS Naturals, FiniteSets

CONSTANTS
    Senders,          \* requests of the admin that can be in progress at once
    Batches,          \* the registered batches of the submission
    Shops,            \* numeric shop ids
    NoShop,           \* the shop id is empty or not a number
    Sendable,         \* [Batches -> Nat]: items of a Torob source with a price
    Unsendable,       \* [Batches -> Nat]: the other items, which are skipped
    PriceUpdates,     \* batches that hold an item whose operation is price_update
    KeyConfigured,    \* the bulk-add key is set
    MaxItemsPerRequest,
    MaxTotalItems,
    MaxCrashes        \* bound of the model: restarts of the process

ASSUME BatchSendAssumption ==
    /\ Sendable \in [Batches -> Nat]
    /\ Unsendable \in [Batches -> Nat]
    /\ PriceUpdates \subseteq Batches
    /\ KeyConfigured \in BOOLEAN
    /\ MaxItemsPerRequest \in Nat \ {0}
    /\ MaxTotalItems \in Nat
    /\ MaxCrashes \in Nat
    /\ NoShop \notin Shops

VARIABLES
    \* tables
    status,           \* [Batches -> Statuses]
    sentCount,        \* [Batches -> Nat]
    skippedCount,     \* [Batches -> Nat]
    shopId,           \* submission.shop_id, as _parse_shop_id reads it
    \* the attempts in memory
    attempt,          \* [Senders -> Attempts]
    \* outside the program: Torob and the network
    catalog,          \* <<batch, shop, n>>: product n of the batch in the shop
    late,             \* chunks given up by their sender that may still arrive
    crashes

tables == <<status, sentCount, skippedCount, shopId>>
torob  == <<catalog, late>>
vars   == <<status, sentCount, skippedCount, shopId, attempt, catalog, late, crashes>>

Statuses == {"pending", "sending", "sent", "failed"}

Chunks == [batch : Batches, shop : Shops, first : Nat, last : Nat]

Idle == [at |-> "idle"]

\* done: items in answered chunks. "stored": Torob has taken the chunk that is
\* posted and has not answered yet.
Attempts ==
    {Idle} \cup [at : {"posting", "stored"}, batch : Batches, shop : Shops, done : Nat]

Running(a) == a.at # "idle"

----------------------------------------------------------------------------
\* The client's loop over chunks of at most MaxItemsPerRequest items.

ChunkEnd(b, done) ==
    IF done + MaxItemsPerRequest < Sendable[b] THEN done + MaxItemsPerRequest ELSE Sendable[b]

Remaining(a) == a.done < Sendable[a.batch]

\* bulk_add raises before it posts anything.
RefusedByClient(b) == ~KeyConfigured \/ Sendable[b] > MaxTotalItems

Posting(a) == Running(a) /\ Remaining(a) /\ ~RefusedByClient(a.batch)

\* Mutant: the shop id is read again for every chunk.
CurrentChunkRereadsShop(a) ==
    [batch |-> a.batch, shop |-> IF shopId = NoShop THEN a.shop ELSE shopId,
     first |-> a.done + 1, last |-> ChunkEnd(a.batch, a.done)]

CurrentChunk(a) ==
    [batch |-> a.batch, shop |-> a.shop, first |-> a.done + 1, last |-> ChunkEnd(a.batch, a.done)]

ItemsOf(c) == {<<c.batch, c.shop, i>> : i \in c.first .. c.last}

\* A chunk given up before Torob took it is lost or arrives later.
GivenUp(a) == IF Posting(a) /\ a.at = "posting" THEN {{}, {CurrentChunk(a)}} ELSE {{}}

----------------------------------------------------------------------------
Init ==
    /\ status = [b \in Batches |-> "pending"]
    /\ sentCount = [b \in Batches |-> 0]
    /\ skippedCount = [b \in Batches |-> 0]
    /\ shopId \in Shops \cup {NoShop}
    /\ attempt = [s \in Senders |-> Idle]
    /\ catalog = {}
    /\ late = {}
    /\ crashes = 0

\* The refusals. A batch that was sent and a missing shop id change nothing.
FailPriceUpdate(b) ==
    /\ status[b] # "sent"
    /\ b \in PriceUpdates
    /\ status' = [status EXCEPT ![b] = "failed"]
    /\ UNCHANGED <<sentCount, skippedCount, shopId, attempt, torob, crashes>>

FailNothingSendable(b) ==
    /\ status[b] # "sent"
    /\ b \notin PriceUpdates
    /\ shopId # NoShop
    /\ Sendable[b] = 0
    /\ status' = [status EXCEPT ![b] = "failed"]
    /\ skippedCount' = [skippedCount EXCEPT ![b] = Unsendable[b]]
    /\ UNCHANGED <<sentCount, shopId, attempt, torob, crashes>>

\* Mutant: the first commit is left out.
BeginUncommitted(s, b) ==
    /\ ~Running(attempt[s])
    /\ status[b] # "sent"
    /\ b \notin PriceUpdates
    /\ shopId # NoShop
    /\ Sendable[b] > 0
    /\ attempt' = [attempt EXCEPT
          ![s] = [at |-> "posting", batch |-> b, shop |-> shopId, done |-> 0]]
    /\ UNCHANGED <<tables, torob, crashes>>

\* Up to the commit of "sending". The status "sending" is not refused.
Begin(s, b) ==
    /\ ~Running(attempt[s])
    /\ status[b] # "sent"
    /\ b \notin PriceUpdates
    /\ shopId # NoShop
    /\ Sendable[b] > 0
    /\ status' = [status EXCEPT ![b] = "sending"]
    /\ skippedCount' = [skippedCount EXCEPT ![b] = Unsendable[b]]
    /\ attempt' = [attempt EXCEPT
          ![s] = [at |-> "posting", batch |-> b, shop |-> shopId, done |-> 0]]
    /\ UNCHANGED <<sentCount, shopId, torob, crashes>>

\* Torob takes the chunk that is being posted.
Stores(s) ==
    /\ Posting(attempt[s])
    /\ attempt[s].at = "posting"
    /\ catalog' = catalog \cup ItemsOf(CurrentChunk(attempt[s]))
    /\ attempt' = [attempt EXCEPT ![s].at = "stored"]
    /\ UNCHANGED <<tables, late, crashes>>

\* Mutant: a chunk is counted although nothing says that Torob took it.
AnswerOkUnstored(s) ==
    /\ Posting(attempt[s])
    /\ attempt' = [attempt EXCEPT
          ![s].done = ChunkEnd(attempt[s].batch, attempt[s].done), ![s].at = "posting"]
    /\ UNCHANGED <<tables, torob, crashes>>

\* The answer is below 400: the chunk is counted and the next one is posted.
\* What the answer says of single items is kept and never read, so this supposes
\* of Torob that below 400 it took the whole chunk.
AnswerOk(s) ==
    /\ Posting(attempt[s])
    /\ attempt[s].at = "stored"
    /\ attempt' = [attempt EXCEPT
          ![s].done = ChunkEnd(attempt[s].batch, attempt[s].done), ![s].at = "posting"]
    /\ UNCHANGED <<tables, torob, crashes>>

\* Mutant: the error is recorded and the status is not.
FailsSilently(s) ==
    /\ Running(attempt[s])
    /\ Posting(attempt[s]) \/ RefusedByClient(attempt[s].batch)
    /\ \E lost \in GivenUp(attempt[s]) : late' = late \cup lost
    /\ attempt' = [attempt EXCEPT ![s] = Idle]
    /\ UNCHANGED <<tables, catalog, crashes>>

\* Mutant: a status the tables do not know.
FailsElsewhere(s) ==
    /\ Running(attempt[s])
    /\ Posting(attempt[s]) \/ RefusedByClient(attempt[s].batch)
    /\ \E lost \in GivenUp(attempt[s]) : late' = late \cup lost
    /\ status' = [status EXCEPT ![attempt[s].batch] = "error"]
    /\ attempt' = [attempt EXCEPT ![s] = Idle]
    /\ UNCHANGED <<sentCount, skippedCount, shopId, catalog, crashes>>

\* A timeout, a network error, a bot challenge or a status from 400 on; or the
\* client raised before it posted. Only the status and the texts are recorded.
Fails(s) ==
    /\ Running(attempt[s])
    /\ Posting(attempt[s]) \/ RefusedByClient(attempt[s].batch)
    /\ \E lost \in GivenUp(attempt[s]) : late' = late \cup lost
    /\ status' = [status EXCEPT ![attempt[s].batch] = "failed"]
    /\ attempt' = [attempt EXCEPT ![s] = Idle]
    /\ UNCHANGED <<sentCount, skippedCount, shopId, catalog, crashes>>

\* Mutant: the count starts again with every chunk.
SucceedsCountsLastChunk(s) ==
    /\ Running(attempt[s])
    /\ ~Remaining(attempt[s])
    /\ LET b == attempt[s].batch IN
         /\ status' = [status EXCEPT ![b] = "sent"]
         /\ sentCount' = [sentCount EXCEPT ![b] = attempt[s].done % MaxItemsPerRequest]
         /\ skippedCount' = [skippedCount EXCEPT ![b] = Unsendable[b]]
    /\ attempt' = [attempt EXCEPT ![s] = Idle]
    /\ UNCHANGED <<shopId, torob, crashes>>

Succeeds(s) ==
    /\ Running(attempt[s])
    /\ ~Remaining(attempt[s])
    /\ LET b == attempt[s].batch IN
         /\ status' = [status EXCEPT ![b] = "sent"]
         /\ sentCount' = [sentCount EXCEPT ![b] = attempt[s].done]
         /\ skippedCount' = [skippedCount EXCEPT ![b] = Unsendable[b]]
    /\ attempt' = [attempt EXCEPT ![s] = Idle]
    /\ UNCHANGED <<shopId, torob, crashes>>

\* A request whose sender gave it up reaches Torob after all.
ArrivesLate(c) ==
    /\ c \in late
    /\ catalog' = catalog \cup ItemsOf(c)
    /\ late' = late \ {c}
    /\ UNCHANGED <<tables, attempt, crashes>>

\* Runs in a thread of its own, so between any two steps of an attempt.
UpdateShopId(v) ==
    /\ v # shopId
    /\ shopId' = v
    /\ UNCHANGED <<status, sentCount, skippedCount, attempt, torob, crashes>>

Crash ==
    /\ crashes < MaxCrashes
    /\ \E lost \in SUBSET UNION {UNION GivenUp(attempt[s]) : s \in Senders} :
          late' = late \cup lost
    /\ attempt' = [s \in Senders |-> Idle]
    /\ crashes' = crashes + 1
    /\ UNCHANGED <<tables, catalog>>

Next ==
    \/ \E b \in Batches : FailPriceUpdate(b) \/ FailNothingSendable(b)
    \/ \E s \in Senders, b \in Batches : Begin(s, b)
    \/ \E s \in Senders : Stores(s) \/ AnswerOk(s) \/ Fails(s) \/ Succeeds(s)
    \/ \E c \in late : ArrivesLate(c)
    \/ \E v \in Shops \cup {NoShop} : UpdateShopId(v)
    \/ Crash

Spec == Init /\ [][Next]_vars

\* httpx bounds every wait for Torob, so an attempt always goes on or fails.
Goes(s) == AnswerOk(s) \/ Fails(s) \/ Succeeds(s)

FairSpec == Spec /\ \A s \in Senders : WF_vars(Goes(s))

----------------------------------------------------------------------------
\* The tables, the attempts and Torob hold what the handler can put there.
TypeOK ==
    /\ status \in [Batches -> Statuses]
    /\ sentCount \in [Batches -> Nat]
    /\ skippedCount \in [Batches -> Nat]
    /\ shopId \in Shops \cup {NoShop}
    /\ attempt \in [Senders -> Attempts]
    /\ catalog \subseteq Batches \X Shops \X Nat
    /\ late \subseteq Chunks
    /\ crashes \in 0 .. MaxCrashes

HoldsUpTo(b, sh, n) == \A i \in 1 .. n : <<b, sh, i>> \in catalog

Reported(b) == status[b] = "sent" \/ sentCount[b] > 0

\* A batch that the admin page shows as sent, or once did, is in one shop of
\* Torob with all its products, whatever chunks timed out, were posted twice
\* or arrived late and however the shop id changed meanwhile.
SentMeansDelivered ==
    \A b \in Batches : Reported(b) => \E sh \in Shops : HoldsUpTo(b, sh, Sendable[b])

\* The counts shown beside a batch that was sent account for each of its items.
SentCountsAddUp ==
    \A b \in Batches :
        status[b] = "sent" => sentCount[b] = Sendable[b] /\ skippedCount[b] = Unsendable[b]

\* Of a pending batch nothing was posted: neither does Torob hold a product of
\* it nor is one still on its way, so its first attempt repeats nothing.
PendingIsUntouched ==
    \A b \in Batches : status[b] = "pending" =>
        /\ \A p \in catalog : p[1] # b
        /\ \A c \in late : c.batch # b
        /\ \A s \in Senders : Running(attempt[s]) => attempt[s].batch # b

Working(b) == \E s \in Senders : Running(attempt[s]) /\ attempt[s].batch = b

\* While the process stays up, "sending" is never left behind: an attempt is
\* behind it and the status moves on.
SendingSettles ==
    \A b \in Batches :
        (crashes = MaxCrashes /\ Working(b) /\ status[b] = "sending") ~> status[b] # "sending"

\* What the refusal of a second send says: a batch that was sent stays sent, so
\* it is never posted again. (Two attempts at once break it.)
SentIsFinal == [][\A b \in Batches : status[b] = "sent" => status'[b] = "sent"]_status

Delivery == INSTANCE BatchDelivery WITH
    reported <- {b \in Batches : sentCount[b] > 0}

\* The catalogue grows by products of the batch, and success is reported only
\* for a whole delivery: the recorded count is what stays after a later failure.
DeliverySpec == Delivery!DeliverySpec
=============================================================================
