---------------------------- MODULE MCEnqueueing ----------------------------
(* Instances of Enqueueing for TLC.                                        *)
EXTENDS Enqueueing, TLC

Many(items) == [tx |-> FALSE, items |-> items]
Tx(items)   == [tx |-> TRUE, items |-> items]

CONSTANTS c1, c2

(* Batches and transactions over two keys in both orders, a key twice in a *)
(* transaction, an item without a key, items that are refused.             *)
MCMakes ==
  (c1 :> {Many(<<"k">>), Tx(<<"k", "l">>)}) @@
  (c2 :> {Many(<<NoKey, "k", BadParams>>), Tx(<<"l", "k">>),
          Tx(<<BadParams, "k", "k">>)})
=============================================================================
