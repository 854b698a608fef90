--------------------------- MODULE MCAddressIndex ---------------------------
(* Two branches above the block c that pays X and Y: both mine t, s and r, *)
(* in other blocks and at other places.  s spends an output of t, on one   *)
(* branch in the block of t.  The coinbase outputs pay a public key and    *)
(* stay unspent.                                                           *)
EXTENDS AddressIndex

CONSTANTS g, c, a1, a2, b1, b2, f, k1, k2, k3, k4, r, s, t, X, Y

MCBlocks == {g, c, a1, a2, b1, b2}

MCParent == [b \in MCBlocks \ {g} |-> CASE b = a2 -> a1 [] b = b2 -> b1 [] b \in {a1, b1} -> c [] OTHER -> g]

MCHeight[b \in MCBlocks] == IF b = g THEN 0 ELSE MCHeight[MCParent[b]] + 1

MCvtx == [b \in MCBlocks |->
    CASE b = g -> <<>>
      [] b = c -> <<f>>
      [] b = a1 -> <<k1, t, s>>
      [] b = a2 -> <<k2, r>>
      [] b = b1 -> <<k3, r, t>>
      [] b = b2 -> <<k4, s>>]

MCvin == [x \in {f, k1, k2, k3, k4, r, s, t} |->
    CASE x = t -> <<<<f, 1>>>>
      [] x = r -> <<<<f, 2>>, <<f, 3>>>>
      [] x = s -> <<<<t, 2>>, <<t, 1>>>>
      [] OTHER -> <<>>]

MCvout == [x \in {f, k1, k2, k3, k4, r, s, t} |->
    LET Hash(a) == [type |-> "hash", address |-> a]
        Other == [type |-> "other", address |-> None]
    IN  CASE x = f -> <<Hash(X), Hash(Y), Other>>
          [] x = t -> <<Other, Hash(X)>>
          [] x = s -> <<Hash(Y)>>
          [] x = r -> <<Hash(X), Other>>
          [] OTHER -> <<[type |-> "key", address |-> Y]>>]
=============================================================================
