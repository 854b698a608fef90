----------------------------- MODULE MCBestChain -----------------------------
(***************************************************************************)
(* A tree of blocks for BestChain, with the branches g - a1 - a2,          *)
(* g - b1 - b2 and g - c; and who calls what.                              *)
(***************************************************************************)
EXTENDS BestChain, TLC

CONSTANTS g, a1, a2, b1, b2, c, t1, t2

TreeBlocks == {g, a1, a2, b1, b2, c}
TreeParent == a1 :> g @@ a2 :> a1 @@ b1 :> g @@ b2 :> b1 @@ c :> g

TreeHeight[b \in TreeBlocks] == IF b = g THEN 0 ELSE TreeHeight[TreeParent[b]] + 1

(* b2 has the proof of two blocks. *)
TreeWork == [b \in TreeBlocks |-> IF b = b2 THEN 4 ELSE TreeHeight[b] + 1]

Order == g :> 1 @@ a1 :> 2 @@ a2 :> 3 @@ b1 :> 4 @@ b2 :> 5 @@ c :> 6
Backwards == [b \in TreeBlocks |-> 7 - Order[b]]

Two == [callers |-> {t1, t2}, calls |-> {}, maxPrecious |-> 0, maxRestarts |-> 0,
        orders |-> {Order}]
TwoCallers == {Two}

(* A user who invalidates and reconsiders blocks, with a restart; one who  *)
(* makes blocks precious; two activating threads.                          *)
AllSetups ==
    {[callers |-> {t1}, calls |-> {"invalidateblock", "reconsiderblock"},
      maxPrecious |-> 0, maxRestarts |-> 1, orders |-> {Order, Backwards}],
     [callers |-> {t1}, calls |-> {"preciousblock"}, maxPrecious |-> 2, maxRestarts |-> 0,
      orders |-> {Order}],
     Two}
=============================================================================
