----------------------------- MODULE MCBatchSend -----------------------------
(* Four batches: one of two chunks with a skipped item, one that only holds  *)
(* price updates, one over the total limit or without sendable items.         *)
EXTENDS BatchSend, TLC

CONSTANTS s1, s2, plain, update, basalam, huge, shopA, shopB

MCSenders    == {s1, s2}
MCBatches    == {plain, update, basalam, huge}
MCShops      == {shopA, shopB}
MCSendable   == (plain :> 3) @@ (update :> 1) @@ (basalam :> 0) @@ (huge :> 4)
MCUnsendable == (plain :> 1) @@ (update :> 0) @@ (basalam :> 2) @@ (huge :> 0)
MCPriceUpdates == {update}

\* Senders and shops are interchangeable; used where no liveness is checked.
MCSymmetry == Permutations(MCSenders) \cup Permutations(MCShops)
=============================================================================
