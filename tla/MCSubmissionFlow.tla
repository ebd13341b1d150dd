--------------------------- MODULE MCSubmissionFlow ---------------------------
(* Two rows, one of which updates a price; the other one is of a new product *)
(* or still to be reviewed. Searches, rebuilds, legacy rows and the kind of  *)
(* the rows are given by each cfg.                                           *)
EXTENDS SubmissionFlow, TLC

CONSTANTS rowA, rowB, x, y

MCRows       == {rowA, rowB}
MCFound      == {x, y}
MCOperation  == (rowA :> "add") @@ (rowB :> "price_update")
MCReviewed   == (rowA :> "needs_review") @@ (rowB :> "price_update")
MCLegacyRows == {rowA}
=============================================================================
