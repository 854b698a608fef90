--------------------------- MODULE MCChainstate ---------------------------
(***************************************************************************)
(* Two branches over a common block.  Transaction T (c1 -> x) is in a2 at  *)
(* height 2 and in b3 at height 3; U (x -> y) follows it in the next block *)
(* of one branch and in the same block of the other.                       *)
(***************************************************************************)
EXTENDS Chainstate, TLC

CONSTANTS g, a1, a2, a3, b2, b3, c1, c2, x, y

MCBlocks == {g, a1, a2, a3, b2, b3}
MCOutPoints == {c1, c2, x, y}
MCParent == a1 :> g @@ a2 :> a1 @@ a3 :> a2 @@ b2 :> a1 @@ b3 :> b2

MCHeight[b \in MCBlocks] == IF b = g THEN 0 ELSE MCHeight[MCParent[b]] + 1

Coinbase(out) == [coinbase |-> TRUE, in |-> {}, out |-> out]
Transfer(in, out) == [coinbase |-> FALSE, in |-> in, out |-> out]
T == Transfer({c1}, {x})
U == Transfer({x}, {y})

MCTxs ==
    g  :> <<>> @@
    a1 :> <<Coinbase({c1})>> @@
    a2 :> <<Coinbase({}), T>> @@
    a3 :> <<Coinbase({}), U>> @@
    b2 :> <<Coinbase({c2})>> @@
    b3 :> <<Coinbase({}), T, U>>

MCCoins == 1..3
=============================================================================
