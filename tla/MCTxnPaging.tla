----------------------------- MODULE MCTxnPaging ----------------------------
(* Up to three pages of two, over a ledger of up to six transactions.       *)
EXTENDS TxnPaging

MCStarts == {None, 0, 1, 4, 15}
MCLimits == {None, 0, 1, 2, 3, 5}
MCBlocks == {[first |-> 1, last |-> 2], [first |-> 0, last |-> 2], [first |-> 0, last |-> 4]}
MCLedgers == {<<FALSE, TRUE>>, <<FALSE, FALSE, TRUE, TRUE, TRUE>>}
==============================================================================
