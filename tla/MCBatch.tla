------------------------------ MODULE MCBatch -------------------------------
(***************************************************************************)
(* The batches TLC checks: lists of scraping_args entries.                 *)
(***************************************************************************)
EXTENDS Batch

Good(i) == [id |-> i, good |-> TRUE, capped |-> FALSE]
Bad(i) == [id |-> i, good |-> FALSE, capped |-> FALSE]

(* A page-capped entry between two with bad parameters; the id of the last *)
(* one is no number.                                                       *)
MixedBatch == <<Bad("2"), [Good("1") EXCEPT !.capped = TRUE], Bad("x")>>
OneEntry == <<Good("1")>>
=============================================================================
