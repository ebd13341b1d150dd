---------------------------- MODULE BatchDelivery ----------------------------
(***************************************************************************)
(* What sending a registered batch to Torob promises, whatever the         *)
(* interleaving of attempts: the catalogue of Torob only grows, by         *)
(* products of the batch that is sent, and a batch is reported as sent, for*)
(* good, only once one single shop holds every product of it.              *)
(***************************************************************************)
EXTENDS Naturals

CONSTANTS
    Batches,    \* the registered batches of one submission
    Shops,      \* numeric Torob shop ids
    Sendable    \* [Batches -> Nat]: products of the batch that bulk-add takes

VARIABLES
    catalog,    \* <<batch, shop, n>>: product n of the batch, held by the shop
    reported    \* the batches whose success was recorded at some time

deliveryVars == <<catalog, reported>>

Products(b) == 1 .. Sendable[b]

\* The shop holds products 1 .. n of batch b.
HoldsUpTo(b, sh, n) == \A i \in 1 .. n : <<b, sh, i>> \in catalog

DeliveryInit == catalog = {} /\ reported = {}

Store(b, sh) ==
    /\ \E items \in SUBSET Products(b) :
          catalog' = catalog \cup {<<b, sh, i>> : i \in items}
    /\ UNCHANGED reported

Report(b, sh) ==
    /\ HoldsUpTo(b, sh, Sendable[b])
    /\ reported' = reported \cup {b}
    /\ UNCHANGED catalog

DeliveryNext ==
    \E b \in Batches, sh \in Shops : Store(b, sh) \/ Report(b, sh)

DeliverySpec == DeliveryInit /\ [][DeliveryNext]_deliveryVars
=============================================================================
