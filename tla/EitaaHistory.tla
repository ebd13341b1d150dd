---------------------------- MODULE EitaaHistory ----------------------------
(***************************************************************************)
(* The first half of an import from an Eitaa channel: the newest messages  *)
(* of the channel are fetched page by page through Uniom, and products are *)
(* read from them. The seller goes on posting and deleting meanwhile.      *)
(*                                                                         *)
(* A page is what Uniom has at or below the offset, newest first, as the   *)
(* tests of the client have it. An offset of 0 may mean no offset to it.   *)
(***************************************************************************)
EXTENDS Naturals, Sequences, SequencesExt, FiniteSets, FiniteSetsExt

CONSTANTS
    MaxId,          \* bound of the model: messages of the channel
    Posted,         \* messages posted before the import
    MaxDeletes,     \* bound of the model: messages that the seller deletes
    Queries,        \* names of products, as they are searched for
    Content,        \* what a message holds: product names, any text, a photo
    TotalLimit,     \* eitaa_history_limit
    PageSize,       \* eitaa_history_page_size
    SmallPage,      \* 5: the smallest page, and by how much a page grows again
    MaxProducts,    \* eitaa_max_products
    Near            \* 20: ids between a product and its photos

ASSUME EitaaHistoryAssumption ==
    /\ MaxId \in Nat /\ Posted \in 0 .. MaxId /\ MaxDeletes \in Nat
    /\ {TotalLimit, PageSize, SmallPage, MaxProducts, Near} \subseteq Nat \ {0}
    /\ \A m \in 1 .. MaxId :
          /\ Content[m].names \in Seq(Queries) /\ {Content[m].text, Content[m].photo} \subseteq BOOLEAN
          /\ Content[m].names # <<>> => Content[m].text

VARIABLES
    channel,        \* ids of the messages that the channel has
    published,      \* the largest id so far
    deletes,
    history         \* what get_chat_history_paginated holds

NoOffset == MaxId

\* start: the largest id when the paging began, for the properties.
FirstPage == [state |-> "paging", messages |-> <<>>, offset |-> NoOffset,
              size |-> Min({PageSize, TotalLimit}), start |-> published]

HistoryInit ==
    /\ channel = 1 .. Posted
    /\ published = Posted
    /\ deletes = 0
    /\ history = [FirstPage EXCEPT !.state = "off"]

\* The seller posts or deletes a message.
Posts ==
    /\ published < MaxId
    /\ published' = published + 1
    /\ channel' = channel \cup {published'}
    /\ UNCHANGED <<deletes, history>>

Deletes(m) ==
    /\ deletes < MaxDeletes
    /\ channel' = channel \ {m}
    /\ deletes' = deletes + 1
    /\ UNCHANGED <<published, history>>

----------------------------------------------------------------------------
Asked == Min({history.size, TotalLimit - Len(history.messages)})

\* The newest messages at or below the offset.
PageFrom(offset) ==
    LET below == {m \in channel : m <= offset}
    IN  {m \in below : Cardinality({k \in below : k > m}) < Asked}

Pages == {PageFrom(history.offset)} \cup (IF history.offset = 0 THEN {PageFrom(NoOffset)} ELSE {})

\* Mutant: messages that were seen before are taken again.
AllMessages(page) == page

NewMessages(page) == page \ ToSet(history.messages)

NextOffset(new) == Min(new) - 1

\* The loop ends with nothing new, a short page or enough messages.
PageArrives(page) ==
    LET new == NewMessages(page)
        all == history.messages \o SetToSeq(new)    \* sorted when they are read
    IN  /\ history.state = "paging"
        /\ page \in Pages
        /\ history' = [history EXCEPT
              !.messages = all,
              !.offset = IF new = {} THEN @ ELSE NextOffset(new),
              !.size   = Min({PageSize, TotalLimit, @ + SmallPage}),
              !.state  = IF new = {} \/ Cardinality(page) < Asked \/ Len(all) >= TotalLimit
                         THEN "done" ELSE @]
        /\ UNCHANGED <<channel, published, deletes>>

\* All attempts at a page failed: a smaller page, or the import fails.
PageFails ==
    /\ history.state = "paging"
    /\ history' = IF history.size <= SmallPage THEN [history EXCEPT !.state = "failed"]
                  ELSE [history EXCEPT !.size = Max({SmallPage, @ \div 2})]
    /\ UNCHANGED <<channel, published, deletes>>

----------------------------------------------------------------------------
(* Reading products, newest message first. at: the draft that the photos of *)
(* further messages belong to, 0 if there is none.                          *)

IsNear(m, draft) == draft.message - m <= Near

TakesProducts(read, m) ==
    LET names == Content[m].names
        own   == IF Content[m].photo /\ Len(names) = 1 THEN {m} ELSE {}
        drafts == [i \in DOMAIN names |-> [message |-> m, name |-> names[i], photos |-> own]]
        room   == MaxProducts - Len(read.drafts)
    IN  [drafts |-> read.drafts \o SubSeq(drafts, 1, Min({room, Len(drafts)})),
         at     |-> IF Len(names) = 1 THEN Len(read.drafts) + 1 ELSE 0]

TakesPhoto(read, m) == [read EXCEPT !.drafts[read.at].photos = @ \cup {m}]

\* Mutant: a text without a product leaves the last product in place.
NeverEnds(m) == FALSE

EndsProduct(m) == Content[m].names = <<>> /\ Content[m].text

HasLoosePhoto(m) == ~Content[m].text /\ Content[m].photo

Reads(read, m) ==
    IF Len(read.drafts) >= MaxProducts THEN read
    ELSE CASE Content[m].names # <<>> -> TakesProducts(read, m)
           [] EndsProduct(m)          -> [read EXCEPT !.at = 0]
           [] HasLoosePhoto(m) /\ read.at # 0 /\ IsNear(m, read.drafts[read.at])
                                      -> TakesPhoto(read, m)
           [] OTHER                   -> read

NothingRead == [drafts |-> <<>>, at |-> 0]

\* What is read of the messages with the ids m and above, newest first.
ReadDownTo(messages) ==
    LET read[m \in 1 .. MaxId + 1] ==
            IF m = MaxId + 1 THEN NothingRead
            ELSE IF m \in messages THEN Reads(read[m + 1], m) ELSE read[m + 1]
    IN  read

ExtractProducts(messages) == ReadDownTo(ToSet(messages))[1].drafts

----------------------------------------------------------------------------
HistoryTypeOK ==
    /\ channel \subseteq 1 .. published
    /\ published \in Posted .. MaxId
    /\ deletes \in 0 .. MaxDeletes
    /\ history.state \in {"off", "paging", "done", "failed"}
    /\ history.messages \in Seq(1 .. published) /\ Len(history.messages) <= TotalLimit
    /\ history.offset \in 0 .. MaxId
    /\ history.size \in 1 .. PageSize
    /\ history.start \in Posted .. published

\* The import works on the newest messages: no message twice, and none left out
\* that the channel had before the first page and still has, except for those
\* that are older than everything in a full list.
HistoryIsNewest ==
    history.state = "done" =>
        /\ IsInjective(history.messages)
        /\ \A m \in channel :
              m <= history.start /\ m \notin ToSet(history.messages)
              => Len(history.messages) = TotalLimit /\ m < Min(ToSet(history.messages))
=============================================================================
