--------------------------- MODULE BatchSendProofs ---------------------------
(***************************************************************************)
(* Type correctness and the safety invariants of BatchSend, and that it    *)
(* implements BatchDelivery, for every set of senders, batches and shops.  *)
(***************************************************************************)
EXTENDS BatchSend, TLAPS

\* The catalogue c holds products 1 .. n of batch b in shop sh.
Held(c, b, sh, n) == \A i \in 1 .. n : <<b, sh, i>> \in c

\* What Torob holds on behalf of a running attempt: the chunks that were
\* answered and, once it is stored, the one that is not yet answered.
Sound(c, a) ==
    /\ a.done <= Sendable[a.batch]
    /\ Sendable[a.batch] > 0
    /\ Held(c, a.batch, a.shop, a.done)
    /\ a.at = "stored" => Remaining(a) /\ Held(c, a.batch, a.shop, ChunkEnd(a.batch, a.done))

AttemptInv == \A s \in Senders : Running(attempt[s]) => Sound(catalog, attempt[s])

IInv == /\ TypeOK
        /\ AttemptInv
        /\ SentMeansDelivered
        /\ SentCountsAddUp
        /\ PendingIsUntouched

-----------------------------------------------------------------------------
\* The end of a chunk lies beyond what is done and within the batch.
LEMMA ChunkEndBounds ==
    ASSUME NEW b \in Batches, NEW done \in Nat, done <= Sendable[b]
    PROVE  /\ ChunkEnd(b, done) \in Nat
           /\ done <= ChunkEnd(b, done)
           /\ ChunkEnd(b, done) <= Sendable[b]
           /\ done < Sendable[b] => done < ChunkEnd(b, done)
BY BatchSendAssumption DEF ChunkEnd

\* A running attempt has all its fields.
LEMMA AttemptFields ==
    ASSUME TypeOK, NEW s \in Senders, Running(attempt[s])
    PROVE  /\ attempt[s].batch \in Batches
           /\ attempt[s].shop \in Shops
           /\ attempt[s].done \in Nat
           /\ attempt[s].at \in {"posting", "stored"}
           /\ attempt[s] = [at |-> attempt[s].at, batch |-> attempt[s].batch,
                            shop |-> attempt[s].shop, done |-> attempt[s].done]
<1>1. attempt[s] \in Attempts
  BY DEF TypeOK
<1>2. attempt[s] # Idle
  BY DEF Running, Idle
<1>3. attempt[s] \in [at : {"posting", "stored"}, batch : Batches, shop : Shops, done : Nat]
  BY <1>1, <1>2 DEF Attempts
<1> QED
  BY <1>3

\* A sender without an attempt is not running one.
LEMMA IdleNotRunning == ~Running(Idle)
BY DEF Running, Idle

\* The chunk an attempt is posting is a chunk of its batch.
LEMMA CurrentChunkType ==
    ASSUME TypeOK, NEW s \in Senders, Running(attempt[s]), attempt[s].done <= Sendable[attempt[s].batch]
    PROVE  CurrentChunk(attempt[s]) \in Chunks
<1> DEFINE a == attempt[s]
<1>1. a.batch \in Batches /\ a.shop \in Shops /\ a.done \in Nat
  BY AttemptFields
<1>2. ChunkEnd(a.batch, a.done) \in Nat
  BY <1>1, ChunkEndBounds
<1> QED
  BY <1>1, <1>2 DEF CurrentChunk, Chunks

\* A chunk adds products of its own batch, in its own shop.
LEMMA ItemsOfType ==
    ASSUME NEW c \in Chunks
    PROVE  /\ ItemsOf(c) \subseteq Batches \X Shops \X Nat
           /\ \A p \in ItemsOf(c) : p[1] = c.batch
BY DEF ItemsOf, Chunks

\* What is given up of an attempt is at most the chunk it was posting.
LEMMA GivenUpType ==
    ASSUME TypeOK, AttemptInv, NEW s \in Senders, NEW lost \in GivenUp(attempt[s])
    PROVE  /\ lost \subseteq Chunks
           /\ \A c \in lost : Running(attempt[s]) /\ c.batch = attempt[s].batch
<1>1. CASE Posting(attempt[s]) /\ attempt[s].at = "posting"
  <2>1. Running(attempt[s]) /\ attempt[s].done <= Sendable[attempt[s].batch]
    BY <1>1 DEF Posting, AttemptInv, Sound
  <2>2. CurrentChunk(attempt[s]) \in Chunks /\ CurrentChunk(attempt[s]).batch = attempt[s].batch
    BY <2>1, CurrentChunkType DEF CurrentChunk
  <2>3. lost = {} \/ lost = {CurrentChunk(attempt[s])}
    BY <1>1 DEF GivenUp
  <2> QED
    BY <2>1, <2>2, <2>3
<1>2. CASE ~(Posting(attempt[s]) /\ attempt[s].at = "posting")
  BY <1>2 DEF GivenUp
<1> QED
  BY <1>1, <1>2

-----------------------------------------------------------------------------
\* Nothing was posted and no attempt runs at first.
LEMMA InitIInv == Init => IInv
<1> SUFFICES ASSUME Init PROVE IInv
  OBVIOUS
<1>1. TypeOK
  BY BatchSendAssumption DEF Init, TypeOK, Attempts, Idle, Statuses
<1>2. AttemptInv /\ PendingIsUntouched
  BY IdleNotRunning DEF Init, AttemptInv, PendingIsUntouched
<1>3. SentMeansDelivered /\ SentCountsAddUp
  BY DEF Init, SentMeansDelivered, SentCountsAddUp, Reported
<1> QED
  BY <1>1, <1>2, <1>3 DEF IInv

\* What is held stays held while the catalogue only grows.
LEMMA HeldGrows ==
    ASSUME NEW c, NEW d, c \subseteq d, NEW b, NEW sh, NEW n, Held(c, b, sh, n)
    PROVE  Held(d, b, sh, n)
BY DEF Held

\* What is known of an attempt stays true while the catalogue only grows.
LEMMA SoundGrows ==
    ASSUME NEW c, NEW d, c \subseteq d, NEW a, Sound(c, a)
    PROVE  Sound(d, a)
<1>1. Held(d, a.batch, a.shop, a.done)
  BY HeldGrows DEF Sound
<1>2. a.at = "stored" => Held(d, a.batch, a.shop, ChunkEnd(a.batch, a.done))
  BY HeldGrows DEF Sound
<1> QED
  BY <1>1, <1>2 DEF Sound

\* A step of one sender leaves the attempts of the others alone.
LEMMA OneAttempt ==
    ASSUME TypeOK, NEW s \in Senders, NEW x \in Attempts, attempt' = [attempt EXCEPT ![s] = x]
    PROVE  /\ attempt'[s] = x
           /\ \A r \in Senders : r # s => attempt'[r] = attempt[r]
           /\ attempt' \in [Senders -> Attempts]
BY DEF TypeOK

\* A step of one sender keeps what is known of the attempts, if the catalogue
\* only grows and what that sender then has, if anything, is sound.
LEMMA AttemptsKept ==
    ASSUME AttemptInv, catalog \subseteq catalog', NEW s \in Senders,
           \A r \in Senders : r # s => attempt'[r] = attempt[r],
           Running(attempt'[s]) => Sound(catalog', attempt'[s])
    PROVE  AttemptInv'
<1>1. ASSUME NEW r \in Senders, r # s, Running(attempt'[r]) PROVE Sound(catalog', attempt'[r])
  <2>1. attempt'[r] = attempt[r] /\ Sound(catalog, attempt[r])
    BY <1>1 DEF AttemptInv
  <2> QED
    BY <2>1, SoundGrows
<1> QED
  BY <1>1 DEF AttemptInv

\* So does a step that leaves all of them alone.
LEMMA AttemptsUnchanged ==
    ASSUME AttemptInv, catalog \subseteq catalog', UNCHANGED attempt
    PROVE  AttemptInv'
BY SoundGrows DEF AttemptInv

\* Steps after which no other batch counts as reported keep the deliveries.
LEMMA DeliveriesKept ==
    ASSUME TypeOK, SentMeansDelivered, catalog \subseteq catalog',
           \A b \in Batches : Reported(b)' => Reported(b)
    PROVE  SentMeansDelivered'
<1> SUFFICES ASSUME NEW b \in Batches, Reported(b)'
             PROVE  \E sh \in Shops : Held(catalog', b, sh, Sendable[b])
  BY DEF SentMeansDelivered, HoldsUpTo, Held
<1>1. PICK sh \in Shops : Held(catalog, b, sh, Sendable[b])
  BY DEF SentMeansDelivered, HoldsUpTo, Held
<1> QED
  BY <1>1, HeldGrows

-----------------------------------------------------------------------------
\* One step per action of the specification, and under it one per conjunct.
LEMMA StepIInv == IInv /\ [Next]_vars => IInv'
<1> SUFFICES ASSUME IInv, [Next]_vars PROVE IInv'
  OBVIOUS
<1> USE BatchSendAssumption
<1>t. TypeOK /\ AttemptInv /\ SentMeansDelivered /\ SentCountsAddUp /\ PendingIsUntouched
  BY DEF IInv
<1>1. ASSUME NEW b \in Batches, FailPriceUpdate(b) PROVE IInv'
  <2>1. TypeOK'
    BY <1>t, <1>1 DEF FailPriceUpdate, TypeOK, Statuses, torob
  <2>2. AttemptInv'
    BY <1>t, <1>1, AttemptsUnchanged DEF FailPriceUpdate, torob
  <2>3. SentMeansDelivered'
    BY <1>t, <1>1, DeliveriesKept DEF FailPriceUpdate, torob, Reported, TypeOK
  <2>4. SentCountsAddUp'
    BY <1>t, <1>1 DEF FailPriceUpdate, SentCountsAddUp, TypeOK
  <2>5. PendingIsUntouched'
    BY <1>t, <1>1 DEF FailPriceUpdate, torob, PendingIsUntouched, TypeOK
  <2> QED
    BY <2>1, <2>2, <2>3, <2>4, <2>5 DEF IInv
<1>2. ASSUME NEW b \in Batches, FailNothingSendable(b) PROVE IInv'
  <2>1. TypeOK'
    BY <1>t, <1>2 DEF FailNothingSendable, TypeOK, Statuses, torob
  <2>2. AttemptInv'
    BY <1>t, <1>2, AttemptsUnchanged DEF FailNothingSendable, torob
  <2>3. SentMeansDelivered'
    BY <1>t, <1>2, DeliveriesKept DEF FailNothingSendable, torob, Reported, TypeOK
  <2>4. SentCountsAddUp'
    BY <1>t, <1>2 DEF FailNothingSendable, SentCountsAddUp, TypeOK
  <2>5. PendingIsUntouched'
    BY <1>t, <1>2 DEF FailNothingSendable, torob, PendingIsUntouched, TypeOK
  <2> QED
    BY <2>1, <2>2, <2>3, <2>4, <2>5 DEF IInv
<1>3. ASSUME NEW s \in Senders, NEW b \in Batches, Begin(s, b) PROVE IInv'
  <2> DEFINE x == [at |-> "posting", batch |-> b, shop |-> shopId, done |-> 0]
  <2>0. x \in Attempts /\ attempt' = [attempt EXCEPT ![s] = x]
    BY <1>t, <1>3 DEF Begin, TypeOK, Attempts
  <2>a. /\ attempt'[s] = x
        /\ \A r \in Senders : r # s => attempt'[r] = attempt[r]
        /\ attempt' \in [Senders -> Attempts]
    BY <1>t, <2>0, OneAttempt
  <2>1. TypeOK'
    BY <1>t, <1>3, <2>a DEF Begin, TypeOK, Statuses, torob
  <2>2. AttemptInv'
    <3>1. Sendable[b] > 0 /\ UNCHANGED catalog
      BY <1>3 DEF Begin, torob
    <3>2. Sound(catalog', x)
      BY <3>1 DEF Sound, Held
    <3> QED
      BY <1>t, <2>a, <3>1, <3>2, AttemptsKept
  <2>3. SentMeansDelivered'
    BY <1>t, <1>3, DeliveriesKept DEF Begin, torob, Reported, TypeOK
  <2>4. SentCountsAddUp'
    BY <1>t, <1>3 DEF Begin, SentCountsAddUp, TypeOK
  <2>5. PendingIsUntouched'
    <3>1. status' = [status EXCEPT ![b] = "sending"] /\ UNCHANGED <<catalog, late>>
      BY <1>3 DEF Begin, torob
    <3> QED
      BY <1>t, <2>a, <3>1 DEF PendingIsUntouched, TypeOK
  <2> QED
    BY <2>1, <2>2, <2>3, <2>4, <2>5 DEF IInv
<1>4. ASSUME NEW s \in Senders, Stores(s) PROVE IInv'
  <2> DEFINE a == attempt[s]
             e == ChunkEnd(a.batch, a.done)
             x == [at |-> "stored", batch |-> a.batch, shop |-> a.shop, done |-> a.done]
  <2>0. /\ Running(a)
        /\ Remaining(a)
        /\ catalog' = catalog \cup ItemsOf(CurrentChunk(a))
        /\ attempt' = [attempt EXCEPT ![s].at = "stored"]
        /\ UNCHANGED <<status, sentCount, skippedCount, shopId, late, crashes>>
    BY <1>4 DEF Stores, Posting, tables
  <2>1. /\ a.batch \in Batches
        /\ a.shop \in Shops
        /\ a.done \in Nat
        /\ a = [at |-> a.at, batch |-> a.batch, shop |-> a.shop, done |-> a.done]
    BY <1>t, <2>0, AttemptFields
  <2>2. Sound(catalog, a)
    BY <1>t, <2>0 DEF AttemptInv
  <2>3. e \in Nat /\ a.done <= e /\ CurrentChunk(a) \in Chunks
    BY <1>t, <2>0, <2>1, <2>2, ChunkEndBounds, CurrentChunkType DEF Sound
  <2>4. x \in Attempts /\ attempt' = [attempt EXCEPT ![s] = x]
    <3>1. x \in Attempts
      BY <2>1 DEF Attempts
    <3>2. [a EXCEPT !.at = "stored"] = x
      BY <2>1
    <3>3. attempt' = [attempt EXCEPT ![s] = [a EXCEPT !.at = "stored"]]
      BY <1>t, <2>0 DEF TypeOK
    <3> QED
      BY <3>1, <3>2, <3>3
  <2>a. /\ attempt'[s] = x
        /\ \A r \in Senders : r # s => attempt'[r] = attempt[r]
        /\ attempt' \in [Senders -> Attempts]
    BY <1>t, <2>4, OneAttempt
  <2>b. TypeOK'
    <3>1. catalog' \subseteq Batches \X Shops \X Nat
      BY <1>t, <2>0, <2>3, ItemsOfType DEF TypeOK
    <3> QED
      BY <1>t, <2>0, <2>a, <3>1 DEF TypeOK
  <2>5. AttemptInv'
    <3>1. ASSUME NEW i \in 1 .. e PROVE <<a.batch, a.shop, i>> \in catalog'
      <4>1. CASE i <= a.done
        BY <2>0, <2>1, <2>2, <2>3, <4>1 DEF Sound, Held
      <4>2. CASE i > a.done
        BY <2>0, <2>1, <2>3, <4>2 DEF ItemsOf, CurrentChunk
      <4> QED
        BY <2>1, <4>1, <4>2
    <3>2. Held(catalog', a.batch, a.shop, e)
      BY <3>1 DEF Held
    <3>3. Held(catalog', a.batch, a.shop, a.done)
      BY <2>0, <2>2, HeldGrows DEF Sound
    <3>4. Sound(catalog', x)
      BY <2>0, <2>2, <3>2, <3>3 DEF Sound, Remaining
    <3> QED
      BY <1>t, <2>0, <2>a, <3>4, AttemptsKept
  <2>6. SentMeansDelivered'
    BY <1>t, <2>0, DeliveriesKept DEF Reported
  <2>7. SentCountsAddUp'
    BY <1>t, <2>0 DEF SentCountsAddUp
  <2>8. PendingIsUntouched'
    <3>1. \A p \in ItemsOf(CurrentChunk(a)) : p[1] = a.batch
      BY <2>3, ItemsOfType DEF CurrentChunk
    <3>2. status[a.batch] # "pending"
      BY <1>t, <2>0, <2>1 DEF PendingIsUntouched
    <3> QED
      BY <1>t, <2>0, <2>a, <3>1, <3>2 DEF PendingIsUntouched
  <2> QED
    BY <2>b, <2>5, <2>6, <2>7, <2>8 DEF IInv
<1>5. ASSUME NEW s \in Senders, AnswerOk(s) PROVE IInv'
  <2> DEFINE a == attempt[s]
             e == ChunkEnd(a.batch, a.done)
             x == [at |-> "posting", batch |-> a.batch, shop |-> a.shop, done |-> e]
  <2>0. /\ Running(a)
        /\ a.at = "stored"
        /\ attempt' = [attempt EXCEPT ![s].done = e, ![s].at = "posting"]
        /\ UNCHANGED <<status, sentCount, skippedCount, shopId, catalog, late, crashes>>
    BY <1>5 DEF AnswerOk, Posting, tables, torob
  <2>1. /\ a.batch \in Batches
        /\ a.shop \in Shops
        /\ a.done \in Nat
        /\ a = [at |-> a.at, batch |-> a.batch, shop |-> a.shop, done |-> a.done]
    BY <1>t, <2>0, AttemptFields
  <2>2. Sound(catalog, a)
    BY <1>t, <2>0 DEF AttemptInv
  <2>3. e \in Nat /\ e <= Sendable[a.batch]
    BY <2>1, <2>2, ChunkEndBounds DEF Sound
  <2>4. x \in Attempts /\ attempt' = [attempt EXCEPT ![s] = x]
    <3>1. x \in Attempts
      BY <2>1, <2>3 DEF Attempts
    <3>2. [a EXCEPT !.done = e] = [at |-> a.at, batch |-> a.batch, shop |-> a.shop, done |-> e]
      BY <2>1
    <3>2a. [[at |-> a.at, batch |-> a.batch, shop |-> a.shop, done |-> e] EXCEPT !.at = "posting"] = x
      OBVIOUS
    <3>4. [[a EXCEPT !.done = e] EXCEPT !.at = "posting"] = x
      BY <3>2, <3>2a, Zenon
    <3>3. attempt' = [attempt EXCEPT ![s] = [[a EXCEPT !.done = e] EXCEPT !.at = "posting"]]
      BY <1>t, <2>0 DEF TypeOK
    <3> QED
      BY <3>1, <3>4, <3>3
  <2>a. /\ attempt'[s] = x
        /\ \A r \in Senders : r # s => attempt'[r] = attempt[r]
        /\ attempt' \in [Senders -> Attempts]
    BY <1>t, <2>4, OneAttempt
  <2>b. TypeOK'
    BY <1>t, <2>0, <2>a DEF TypeOK
  <2>5. AttemptInv'
    <3>1. Sound(catalog', x)
      BY <2>0, <2>2, <2>3 DEF Sound
    <3> QED
      BY <1>t, <2>0, <2>a, <3>1, AttemptsKept
  <2>6. SentMeansDelivered'
    BY <1>t, <2>0, DeliveriesKept DEF Reported
  <2>7. SentCountsAddUp'
    BY <1>t, <2>0 DEF SentCountsAddUp
  <2>8. PendingIsUntouched'
    BY <1>t, <2>0, <2>a DEF PendingIsUntouched
  <2> QED
    BY <2>b, <2>5, <2>6, <2>7, <2>8 DEF IInv
<1>6. ASSUME NEW s \in Senders, Fails(s) PROVE IInv'
  <2> DEFINE b == attempt[s].batch
  <2>0. /\ Running(attempt[s])
        /\ status' = [status EXCEPT ![b] = "failed"]
        /\ attempt' = [attempt EXCEPT ![s] = Idle]
        /\ UNCHANGED <<sentCount, skippedCount, shopId, catalog, crashes>>
    BY <1>6 DEF Fails
  <2>1. PICK lost \in GivenUp(attempt[s]) : late' = late \cup lost
    BY <1>6 DEF Fails
  <2>2. lost \subseteq Chunks /\ \A c \in lost : c.batch = b
    BY <1>t, GivenUpType
  <2>3. b \in Batches
    BY <1>t, <2>0, AttemptFields
  <2>4. /\ attempt'[s] = Idle
        /\ \A r \in Senders : r # s => attempt'[r] = attempt[r]
        /\ attempt' \in [Senders -> Attempts]
    BY <1>t, <2>0 DEF TypeOK, Idle, Attempts
  <2>5. TypeOK'
    BY <1>t, <2>0, <2>1, <2>2, <2>3, <2>4 DEF TypeOK, Statuses
  <2>6. AttemptInv'
    BY <1>t, <2>0, <2>4, IdleNotRunning, AttemptsKept
  <2>7. SentMeansDelivered'
    BY <1>t, <2>0, <2>3, DeliveriesKept DEF Reported, TypeOK
  <2>8. SentCountsAddUp'
    BY <1>t, <2>0, <2>3 DEF SentCountsAddUp, TypeOK
  <2>9. PendingIsUntouched'
    <3>1. \A d \in Batches : status'[d] = "pending" => d # b /\ status[d] = "pending"
      BY <1>t, <2>0, <2>3 DEF TypeOK
    <3> QED
      BY <1>t, <2>0, <2>1, <2>2, <2>4, <3>1, IdleNotRunning DEF PendingIsUntouched
  <2> QED
    BY <2>5, <2>6, <2>7, <2>8, <2>9 DEF IInv
<1>7. ASSUME NEW s \in Senders, Succeeds(s) PROVE IInv'
  <2> DEFINE a == attempt[s]
             b == attempt[s].batch
  <2>0. /\ Running(a)
        /\ ~Remaining(a)
        /\ status' = [status EXCEPT ![b] = "sent"]
        /\ sentCount' = [sentCount EXCEPT ![b] = a.done]
        /\ skippedCount' = [skippedCount EXCEPT ![b] = Unsendable[b]]
        /\ attempt' = [attempt EXCEPT ![s] = Idle]
        /\ UNCHANGED <<shopId, catalog, late, crashes>>
    BY <1>7 DEF Succeeds, torob
  <2>1. /\ b \in Batches
        /\ a.shop \in Shops
        /\ a.done = Sendable[b]
        /\ Held(catalog, b, a.shop, a.done)
    <3>1. b \in Batches /\ a.shop \in Shops /\ a.done \in Nat
      BY <1>t, <2>0, AttemptFields
    <3>2. a.done <= Sendable[b] /\ Held(catalog, b, a.shop, a.done)
      BY <1>t, <2>0 DEF AttemptInv, Sound
    <3>3. ~(a.done < Sendable[b])
      BY <2>0 DEF Remaining
    <3> QED
      BY <3>1, <3>2, <3>3
  <2>2. /\ attempt'[s] = Idle
        /\ \A r \in Senders : r # s => attempt'[r] = attempt[r]
        /\ attempt' \in [Senders -> Attempts]
    BY <1>t, <2>0 DEF TypeOK, Idle, Attempts
  <2>3. TypeOK'
    BY <1>t, <2>0, <2>1, <2>2 DEF TypeOK, Statuses
  <2>4. AttemptInv'
    BY <1>t, <2>0, <2>2, IdleNotRunning, AttemptsKept
  <2>5. SentMeansDelivered'
    <3> SUFFICES ASSUME NEW d \in Batches, Reported(d)'
                 PROVE  \E sh \in Shops : Held(catalog, d, sh, Sendable[d])
      BY <2>0 DEF SentMeansDelivered, HoldsUpTo, Held
    <3>1. CASE d = b
      BY <2>1, <3>1
    <3>2. CASE d # b
      <4>1. Reported(d)
        BY <1>t, <2>0, <2>1, <3>2 DEF Reported, TypeOK
      <4> QED
        BY <1>t, <4>1 DEF SentMeansDelivered, HoldsUpTo, Held
    <3> QED
      BY <3>1, <3>2
  <2>6. SentCountsAddUp'
    BY <1>t, <2>0, <2>1 DEF SentCountsAddUp, TypeOK
  <2>7. PendingIsUntouched'
    <3>1. \A d \in Batches : status'[d] = "pending" => status[d] = "pending"
      BY <1>t, <2>0, <2>1 DEF TypeOK
    <3> QED
      BY <1>t, <2>0, <2>2, <3>1, IdleNotRunning DEF PendingIsUntouched
  <2> QED
    BY <2>3, <2>4, <2>5, <2>6, <2>7 DEF IInv
<1>8. ASSUME NEW c \in late, ArrivesLate(c) PROVE IInv'
  <2>0. /\ catalog' = catalog \cup ItemsOf(c)
        /\ late' = late \ {c}
        /\ UNCHANGED <<status, sentCount, skippedCount, shopId, attempt, crashes>>
    BY <1>8 DEF ArrivesLate, tables
  <2>1. c \in Chunks
    BY <1>t DEF TypeOK
  <2>2. TypeOK'
    BY <1>t, <2>0, <2>1, ItemsOfType DEF TypeOK
  <2>3. AttemptInv'
    BY <1>t, <2>0, AttemptsUnchanged
  <2>4. SentMeansDelivered'
    BY <1>t, <2>0, DeliveriesKept DEF Reported
  <2>5. SentCountsAddUp'
    BY <1>t, <2>0 DEF SentCountsAddUp
  <2>6. PendingIsUntouched'
    BY <1>t, <2>0, <2>1, ItemsOfType DEF PendingIsUntouched
  <2> QED
    BY <2>2, <2>3, <2>4, <2>5, <2>6 DEF IInv
<1>9. ASSUME NEW v \in Shops \cup {NoShop}, UpdateShopId(v) PROVE IInv'
  <2>0. shopId' = v /\ UNCHANGED <<status, sentCount, skippedCount, attempt, catalog, late, crashes>>
    BY <1>9 DEF UpdateShopId, torob
  <2>1. TypeOK'
    BY <1>t, <2>0 DEF TypeOK
  <2>2. AttemptInv'
    BY <1>t, <2>0, AttemptsUnchanged
  <2>3. SentMeansDelivered'
    BY <1>t, <2>0, DeliveriesKept DEF Reported
  <2>4. SentCountsAddUp' /\ PendingIsUntouched'
    BY <1>t, <2>0 DEF SentCountsAddUp, PendingIsUntouched
  <2> QED
    BY <2>1, <2>2, <2>3, <2>4 DEF IInv
<1>10. ASSUME Crash PROVE IInv'
  <2>0. /\ crashes < MaxCrashes
        /\ attempt' = [s \in Senders |-> Idle]
        /\ crashes' = crashes + 1
        /\ UNCHANGED <<status, sentCount, skippedCount, shopId, catalog>>
    BY <1>10 DEF Crash, tables
  <2>1. PICK lost \in SUBSET UNION {UNION GivenUp(attempt[s]) : s \in Senders} : late' = late \cup lost
    BY <1>10 DEF Crash
  <2>2. ASSUME NEW c \in lost
        PROVE  c \in Chunks /\ \E s \in Senders : Running(attempt[s]) /\ c.batch = attempt[s].batch
    <3>1. PICK s \in Senders : \E one \in GivenUp(attempt[s]) : c \in one
      OBVIOUS
    <3> QED
      BY <1>t, <3>1, GivenUpType
  <2>3. TypeOK'
    BY <1>t, <2>0, <2>1, <2>2 DEF TypeOK, Idle, Attempts
  <2>4. AttemptInv'
    BY <2>0, IdleNotRunning DEF AttemptInv
  <2>5. SentMeansDelivered'
    BY <1>t, <2>0, DeliveriesKept DEF Reported
  <2>6. SentCountsAddUp'
    BY <1>t, <2>0 DEF SentCountsAddUp
  <2>7. PendingIsUntouched'
    BY <1>t, <2>0, <2>1, <2>2, IdleNotRunning DEF PendingIsUntouched
  <2> QED
    BY <2>3, <2>4, <2>5, <2>6, <2>7 DEF IInv
<1>11. ASSUME UNCHANGED vars PROVE IInv'
  <2>1. UNCHANGED <<status, sentCount, skippedCount, shopId, attempt, catalog, late, crashes>>
    BY <1>11 DEF vars
  <2>2. TypeOK' /\ SentCountsAddUp' /\ PendingIsUntouched'
    BY <1>t, <2>1 DEF TypeOK, SentCountsAddUp, PendingIsUntouched
  <2>3. AttemptInv' /\ SentMeansDelivered'
    BY <1>t, <2>1, AttemptsUnchanged, DeliveriesKept DEF Reported
  <2> QED
    BY <2>2, <2>3 DEF IInv
<1> QED
  BY <1>1, <1>2, <1>3, <1>4, <1>5, <1>6, <1>7, <1>8, <1>9, <1>10, <1>11 DEF Next

-----------------------------------------------------------------------------
\* The inductive invariant: what an attempt counts as done is held by the one
\* shop that it read when it began, and the recorded results rest on that.
THEOREM SpecIInv == Spec => []IInv
<1>1. Init => IInv
  BY InitIInv
<1>2. IInv /\ [Next]_vars => IInv'
  BY StepIInv
<1> QED
  BY <1>1, <1>2, PTL DEF Spec

\* Every variable keeps its type.
THEOREM SpecTypeOK == Spec => []TypeOK
<1>1. IInv => TypeOK
  BY DEF IInv
<1> QED
  BY <1>1, SpecIInv, PTL

\* A batch reported as sent is in one shop with all its products, for any
\* number of concurrent attempts, timeouts, late arrivals and restarts.
THEOREM SpecSentMeansDelivered == Spec => []SentMeansDelivered
<1>1. IInv => SentMeansDelivered
  BY DEF IInv
<1> QED
  BY <1>1, SpecIInv, PTL

\* The counts of a batch that was sent account for all of its items.
THEOREM SpecSentCountsAddUp == Spec => []SentCountsAddUp
<1>1. IInv => SentCountsAddUp
  BY DEF IInv
<1> QED
  BY <1>1, SpecIInv, PTL

\* Nothing of a pending batch was ever posted.
THEOREM SpecPendingIsUntouched == Spec => []PendingIsUntouched
<1>1. IInv => PendingIsUntouched
  BY DEF IInv
<1> QED
  BY <1>1, SpecIInv, PTL

-----------------------------------------------------------------------------
\* A chunk that reaches Torob is a delivery of products of its batch.
LEMMA ChunkIsStore ==
    ASSUME NEW c \in Chunks, c.last <= Sendable[c.batch], c.first >= 1,
           catalog' = catalog \cup ItemsOf(c), UNCHANGED sentCount
    PROVE  Delivery!DeliveryNext
<1> DEFINE items == c.first .. c.last
<1>1. items \in SUBSET (1 .. Sendable[c.batch])
  BY BatchSendAssumption DEF Chunks
<1>2. catalog' = catalog \cup {<<c.batch, c.shop, i>> : i \in items}
  BY DEF ItemsOf
<1>3. Delivery!Store(c.batch, c.shop)
  BY <1>1, <1>2 DEF Delivery!Store, Delivery!Products
<1> QED
  BY <1>3 DEF Delivery!DeliveryNext, Chunks

\* The late chunks are chunks of their batches, too.
LateInv == \A c \in late : c.last <= Sendable[c.batch] /\ c.first >= 1

\* A chunk that is given up lies within its batch.
LEMMA GivenUpWithin ==
    ASSUME IInv, NEW s \in Senders, NEW lost \in GivenUp(attempt[s])
    PROVE  \A c \in lost : c.last <= Sendable[c.batch] /\ c.first >= 1
<1>1. CASE Posting(attempt[s]) /\ attempt[s].at = "posting"
  <2>1. Running(attempt[s]) /\ Sound(catalog, attempt[s])
    BY <1>1 DEF IInv, Posting, AttemptInv
  <2>2. attempt[s].batch \in Batches /\ attempt[s].done \in Nat
    BY <2>1, AttemptFields DEF IInv
  <2>3. ChunkEnd(attempt[s].batch, attempt[s].done) <= Sendable[attempt[s].batch]
    BY <2>1, <2>2, ChunkEndBounds DEF Sound
  <2>4. lost = {} \/ lost = {CurrentChunk(attempt[s])}
    BY <1>1 DEF GivenUp
  <2> QED
    BY <2>2, <2>3, <2>4 DEF CurrentChunk
<1>2. CASE ~(Posting(attempt[s]) /\ attempt[s].at = "posting")
  BY <1>2 DEF GivenUp
<1> QED
  BY <1>1, <1>2

\* Every step keeps the late chunks within their batches.
LEMMA StepLateInv == IInv /\ LateInv /\ [Next]_vars => LateInv'
<1> SUFFICES ASSUME IInv, LateInv, [Next]_vars PROVE LateInv'
  OBVIOUS
<1>1. CASE late' \subseteq late
  BY <1>1 DEF LateInv
<1>2. ASSUME NEW s \in Senders, Fails(s) PROVE LateInv'
  <2>1. PICK lost \in GivenUp(attempt[s]) : late' = late \cup lost
    BY <1>2 DEF Fails
  <2> QED
    BY <2>1, GivenUpWithin DEF LateInv
<1>3. CASE Crash
  <2>1. PICK lost \in SUBSET UNION {UNION GivenUp(attempt[s]) : s \in Senders} : late' = late \cup lost
    BY <1>3 DEF Crash
  <2>2. ASSUME NEW c \in lost PROVE c.last <= Sendable[c.batch] /\ c.first >= 1
    <3>1. PICK s \in Senders : \E one \in GivenUp(attempt[s]) : c \in one
      OBVIOUS
    <3> QED
      BY <3>1, GivenUpWithin
  <2> QED
    BY <2>1, <2>2 DEF LateInv
<1>4. CASE UNCHANGED vars
  BY <1>1, <1>4 DEF vars
<1>5. \A b \in Batches : FailPriceUpdate(b) \/ FailNothingSendable(b) => late' \subseteq late
  BY DEF FailPriceUpdate, FailNothingSendable, torob
<1>6. \A s \in Senders, b \in Batches : Begin(s, b) => late' \subseteq late
  BY DEF Begin, torob
<1>7. \A s \in Senders : Stores(s) \/ AnswerOk(s) \/ Succeeds(s) => late' \subseteq late
  BY DEF Stores, AnswerOk, Succeeds, torob
<1>8. \A c : ArrivesLate(c) => late' \subseteq late
  BY DEF ArrivesLate
<1>9. \A v : UpdateShopId(v) => late' \subseteq late
  BY DEF UpdateShopId, torob
<1> QED
  BY <1>1, <1>2, <1>3, <1>4, <1>5, <1>6, <1>7, <1>8, <1>9 DEF Next

\* Every step is a delivery, a report or a stutter of BatchDelivery.
LEMMA StepDelivers ==
    IInv /\ LateInv /\ [Next]_vars => [Delivery!DeliveryNext]_(Delivery!deliveryVars)
<1> SUFFICES ASSUME IInv, LateInv, [Next]_vars
             PROVE  Delivery!DeliveryNext \/ UNCHANGED <<catalog, sentCount>>
  BY DEF Delivery!deliveryVars
<1>t. TypeOK /\ AttemptInv
  BY DEF IInv
<1>1. ASSUME NEW s \in Senders, Stores(s) PROVE Delivery!DeliveryNext
  <2> DEFINE a == attempt[s]
  <2>1. Running(a) /\ Sound(catalog, a)
    BY <1>t, <1>1 DEF Stores, Posting, AttemptInv
  <2>2. a.batch \in Batches /\ a.done \in Nat /\ a.done <= Sendable[a.batch]
    BY <1>t, <2>1, AttemptFields DEF Sound
  <2>3. CurrentChunk(a) \in Chunks
    BY <1>t, <2>1, <2>2, CurrentChunkType
  <2>4. CurrentChunk(a).last <= Sendable[CurrentChunk(a).batch] /\ CurrentChunk(a).first >= 1
    BY <2>2, ChunkEndBounds DEF CurrentChunk
  <2>5. catalog' = catalog \cup ItemsOf(CurrentChunk(a)) /\ UNCHANGED sentCount
    BY <1>1 DEF Stores, tables
  <2> QED
    BY <2>3, <2>4, <2>5, ChunkIsStore
<1>2. ASSUME NEW c \in late, ArrivesLate(c) PROVE Delivery!DeliveryNext
  <2>1. c \in Chunks /\ c.last <= Sendable[c.batch] /\ c.first >= 1
    BY <1>t DEF TypeOK, LateInv
  <2>2. catalog' = catalog \cup ItemsOf(c) /\ UNCHANGED sentCount
    BY <1>2 DEF ArrivesLate, tables
  <2> QED
    BY <2>1, <2>2, ChunkIsStore
<1>3. ASSUME NEW s \in Senders, Succeeds(s) PROVE Delivery!DeliveryNext
  <2> DEFINE a == attempt[s]
             b == attempt[s].batch
  <2>1. /\ Running(a)
        /\ Sound(catalog, a)
        /\ ~(a.done < Sendable[b])
        /\ sentCount' = [sentCount EXCEPT ![b] = a.done]
        /\ UNCHANGED catalog
    BY <1>t, <1>3 DEF Succeeds, torob, AttemptInv, Remaining
  <2>2. b \in Batches /\ a.shop \in Shops /\ a.done \in Nat
    BY <1>t, <2>1, AttemptFields
  <2>3. a.done = Sendable[b] /\ Sendable[b] > 0 /\ Held(catalog, b, a.shop, Sendable[b])
    BY <2>1, <2>2, BatchSendAssumption DEF Sound
  <2>4. {d \in Batches : sentCount'[d] > 0} = {d \in Batches : sentCount[d] > 0} \cup {b}
    BY <1>t, <2>1, <2>2, <2>3 DEF TypeOK
  <2>5. PICK d \in Batches, sh \in Shops : d = b /\ sh = a.shop
    BY <2>2
  <2>6. Delivery!Report(d, sh)
    BY <2>1, <2>3, <2>4, <2>5 DEF Delivery!Report, Delivery!HoldsUpTo, Held
  <2> QED
    BY <2>6 DEF Delivery!DeliveryNext
<1>4. \A b \in Batches : FailPriceUpdate(b) \/ FailNothingSendable(b) => UNCHANGED <<catalog, sentCount>>
  BY DEF FailPriceUpdate, FailNothingSendable, torob
<1>5. \A s \in Senders, b \in Batches : Begin(s, b) => UNCHANGED <<catalog, sentCount>>
  BY DEF Begin, torob
<1>6. \A s \in Senders : AnswerOk(s) \/ Fails(s) => UNCHANGED <<catalog, sentCount>>
  BY DEF AnswerOk, Fails, tables, torob
<1>7. \A v : UpdateShopId(v) => UNCHANGED <<catalog, sentCount>>
  BY DEF UpdateShopId, torob
<1>8. Crash => UNCHANGED <<catalog, sentCount>>
  BY DEF Crash, tables
<1>9. UNCHANGED vars => UNCHANGED <<catalog, sentCount>>
  BY DEF vars
<1> QED
  BY <1>1, <1>2, <1>3, <1>4, <1>5, <1>6, <1>7, <1>8, <1>9 DEF Next

\* BatchSend implements BatchDelivery: the catalogue grows only by products of
\* the batch being sent, and success is recorded only for a whole delivery.
THEOREM SpecImplementsDelivery == Spec => DeliverySpec
<1>1. Init => Delivery!DeliveryInit /\ LateInv
  BY DEF Init, Delivery!DeliveryInit, LateInv
<1>2. Init => IInv
  BY InitIInv
<1>3. IInv /\ LateInv /\ [Next]_vars => IInv' /\ LateInv'
  BY StepIInv, StepLateInv
<1>4. IInv /\ LateInv /\ [Next]_vars => [Delivery!DeliveryNext]_(Delivery!deliveryVars)
  BY StepDelivers
<1> QED
  BY <1>1, <1>2, <1>3, <1>4, PTL DEF Spec, DeliverySpec, Delivery!DeliverySpec

-----------------------------------------------------------------------------
(* Attempts that do not overlap.                                           *)

\* No batch is worked on by two attempts at once.
OneAttemptEach ==
    \A s, r \in Senders :
        Running(attempt[s]) /\ Running(attempt[r]) /\ attempt[s].batch = attempt[r].batch => s = r

\* What is worked on has not been sent.
WorksOnUnsent ==
    \A s \in Senders : Running(attempt[s]) => status[attempt[s].batch] # "sent"

\* A step sends no batch that another attempt works on, and takes "sent" from no
\* batch, if none is worked on that was sent.
LEMMA StepUnsent ==
    ASSUME TypeOK, TypeOK', OneAttemptEach, WorksOnUnsent, [Next]_vars
    PROVE  WorksOnUnsent' /\ \A b \in Batches : status[b] = "sent" => status'[b] = "sent"
<1> DEFINE Final == \A b \in Batches : status[b] = "sent" => status'[b] = "sent"
<1>1. ASSUME UNCHANGED status, \A s \in Senders :
                Running(attempt'[s]) => Running(attempt[s]) /\ attempt'[s].batch = attempt[s].batch
      PROVE  WorksOnUnsent' /\ Final
  BY <1>1 DEF WorksOnUnsent
<1>2. ASSUME NEW b \in Batches, status[b] # "sent", status' = [status EXCEPT ![b] = "failed"],
             UNCHANGED attempt
      PROVE  WorksOnUnsent' /\ Final
  <2>1. \A d \in Batches : status'[d] = (IF d = b THEN "failed" ELSE status[d])
    BY <1>2 DEF TypeOK
  <2>2. \A s \in Senders : Running(attempt[s]) => attempt[s].batch \in Batches
    BY AttemptFields
  <2> QED
    BY <1>2, <2>1, <2>2 DEF WorksOnUnsent
<1>3. ASSUME NEW s \in Senders, NEW b \in Batches, Begin(s, b) PROVE WorksOnUnsent' /\ Final
  <2>1. /\ status[b] # "sent" /\ status' = [status EXCEPT ![b] = "sending"]
        /\ attempt'[s].batch = b /\ \A r \in Senders : r # s => attempt'[r] = attempt[r]
    BY <1>3 DEF Begin, TypeOK
  <2>2. \A d \in Batches : status'[d] = (IF d = b THEN "sending" ELSE status[d])
    BY <2>1 DEF TypeOK
  <2>3. \A r \in Senders : Running(attempt[r]) => attempt[r].batch \in Batches
    BY AttemptFields
  <2> QED
    BY <2>1, <2>2, <2>3 DEF WorksOnUnsent
<1>4. ASSUME NEW s \in Senders, NEW outcome \in {"failed", "sent"}, Running(attempt[s]),
             status' = [status EXCEPT ![attempt[s].batch] = outcome],
             attempt' = [attempt EXCEPT ![s] = Idle]
      PROVE  WorksOnUnsent' /\ Final
  <2>1. attempt[s].batch \in Batches /\ status[attempt[s].batch] # "sent"
    BY <1>4, AttemptFields DEF WorksOnUnsent
  <2>2. \A d \in Batches : status'[d] = (IF d = attempt[s].batch THEN outcome ELSE status[d])
    BY <1>4 DEF TypeOK
  <2>3. attempt'[s] = Idle /\ \A r \in Senders : r # s => attempt'[r] = attempt[r]
    BY <1>4 DEF TypeOK
  <2>4. ASSUME NEW r \in Senders, Running(attempt'[r]) PROVE status'[attempt'[r].batch] # "sent"
    <3>1. r # s /\ attempt'[r] = attempt[r]
      BY <2>3, <2>4, IdleNotRunning
    <3>2. attempt[r].batch \in Batches /\ attempt[r].batch # attempt[s].batch
      BY <1>4, <2>4, <3>1, AttemptFields DEF OneAttemptEach
    <3>3. status[attempt[r].batch] # "sent"
      BY <2>4, <3>1 DEF WorksOnUnsent
    <3> QED
      BY <2>2, <3>1, <3>2, <3>3
  <2>5. Final
    BY <2>1, <2>2
  <2> QED
    BY <2>4, <2>5 DEF WorksOnUnsent
<1>5. ASSUME NEW b \in Batches, FailPriceUpdate(b) \/ FailNothingSendable(b)
      PROVE  WorksOnUnsent' /\ Final
  BY <1>2, <1>5 DEF FailPriceUpdate, FailNothingSendable
<1>6. ASSUME NEW s \in Senders, Stores(s) \/ AnswerOk(s) PROVE WorksOnUnsent' /\ Final
  <2>1. Running(attempt[s]) /\ UNCHANGED status
    BY <1>6 DEF Stores, AnswerOk, Posting, tables
  <2>2. attempt'[s].batch = attempt[s].batch
    <3>1. attempt[s] \in [at : {"posting", "stored"}, batch : Batches, shop : Shops, done : Nat]
      <4>1. attempt[s] \in Attempts /\ attempt[s] # Idle
        BY <2>1 DEF TypeOK, Running, Idle
      <4> QED
        BY <4>1 DEF Attempts
    <3>2. CASE Stores(s)
      BY <3>1, <3>2 DEF Stores, TypeOK
    <3>3. CASE AnswerOk(s)
      BY <3>1, <3>3 DEF AnswerOk, TypeOK
    <3> QED
      BY <1>6, <3>2, <3>3
  <2>3. \A r \in Senders : r # s => attempt'[r] = attempt[r]
    BY <1>6 DEF Stores, AnswerOk, TypeOK
  <2> QED
    BY <1>1, <2>1, <2>2, <2>3
<1>7. ASSUME NEW s \in Senders, Fails(s) PROVE WorksOnUnsent' /\ Final
  BY <1>4, <1>7 DEF Fails
<1>8. ASSUME NEW s \in Senders, Succeeds(s) PROVE WorksOnUnsent' /\ Final
  BY <1>4, <1>8 DEF Succeeds
<1>9. ASSUME NEW c \in late, ArrivesLate(c) PROVE WorksOnUnsent' /\ Final
  BY <1>1, <1>9 DEF ArrivesLate, tables
<1>10. ASSUME NEW v \in Shops \cup {NoShop}, UpdateShopId(v) PROVE WorksOnUnsent' /\ Final
  BY <1>1, <1>10 DEF UpdateShopId
<1>11. CASE Crash
  BY <1>1, <1>11, IdleNotRunning DEF Crash, tables
<1>12. CASE UNCHANGED vars
  BY <1>1, <1>12 DEF vars
<1> QED
  BY <1>3, <1>5, <1>6, <1>7, <1>8, <1>9, <1>10, <1>11, <1>12 DEF Next

\* As long as no two attempts work on one batch, a batch that was sent stays sent
\* and is never posted again, whatever fails, is late or restarts: the run
\* batch_send_twice needs an overlap.
THEOREM SpecSentIsFinal == Spec /\ []OneAttemptEach => SentIsFinal
<1> DEFINE Final == \A b \in Batches : status[b] = "sent" => status'[b] = "sent"
<1>1. Init => WorksOnUnsent
  BY IdleNotRunning DEF Init, WorksOnUnsent
<1>2. TypeOK /\ TypeOK' /\ OneAttemptEach /\ WorksOnUnsent /\ [Next]_vars => WorksOnUnsent'
  BY StepUnsent
<1>3. TypeOK /\ TypeOK' /\ OneAttemptEach /\ WorksOnUnsent /\ [Next]_vars => [Final]_status
  BY StepUnsent
<1> QED
  BY <1>1, <1>2, <1>3, SpecTypeOK, PTL DEF Spec, SentIsFinal
=============================================================================
