--------------------------- MODULE SubmissionLedger ---------------------------
(***************************************************************************)
(* What the registration of one submission promises: the seller changes    *)
(* selections as long as a row is not registered; registering puts rows    *)
(* that are not hidden yet, with all that is selected of them and with     *)
(* their operation, into one batch and hides them. Batches never change,   *)
(* nor does what a registered row has selected.                            *)
(***************************************************************************)
EXTENDS Naturals, Sequences

CONSTANTS
    Rows,           \* the rows of the submission
    Picks,          \* what can be selected of a row: a match at a price
    Operation,      \* [Rows -> Operations], see SubmissionFlow
    LegacyRows      \* rows that are hidden from the start

VARIABLES
    selections,     \* [Rows -> SUBSET Picks]
    batches,        \* the registered batches, in their order
    hidden          \* the rows that the seller is not shown any more

ledgerVars == <<selections, batches, hidden>>

Registered(r) == \E k \in DOMAIN batches : \E i \in batches[k] : i.row = r

Registration(r, picks) ==
    {[row |-> r, match |-> c.match, price |-> c.price, operation |-> Operation[r]] : c \in picks}

LedgerInit ==
    /\ selections \in [Rows -> SUBSET Picks]
    /\ batches = <<>>
    /\ hidden = LegacyRows

\* Any change of selections, but not of those that are registered.
KeepsRegistered ==
    /\ selections' \in [Rows -> SUBSET Picks]
    /\ \A r \in Rows : Registered(r) => selections'[r] = selections[r]

Select == KeepsRegistered /\ UNCHANGED <<batches, hidden>>

\* What is registered is what is selected when it is.
Register(rows) ==
    /\ KeepsRegistered
    /\ rows # {} /\ \A r \in rows : r \notin hidden /\ selections'[r] # {}
    /\ batches' = Append(batches, UNION {Registration(r, selections'[r]) : r \in rows})
    /\ hidden' = hidden \cup rows

LedgerNext == Select \/ \E rows \in SUBSET Rows : Register(rows)

LedgerSpec == LedgerInit /\ [][LedgerNext]_ledgerVars
=============================================================================
