--------------------------- MODULE MCBatchSendLive ---------------------------
(* Liveness of the attempts: one batch of two chunks and one that the client *)
(* refuses, one shop, two senders and a restart.                             *)
EXTENDS BatchSend, TLC

CONSTANTS s1, s2, plain, huge, shopA

MCSenders    == {s1, s2}
MCBatches    == {plain, huge}
MCShops      == {shopA}
MCSendable   == (plain :> 3) @@ (huge :> 4)
MCUnsendable == (plain :> 1) @@ (huge :> 0)
=============================================================================
