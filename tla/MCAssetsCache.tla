---------------------------- MODULE MCAssetsCache ----------------------------
(***************************************************************************)
(* Small trees of blocks with asset transactions for AssetsCache.          *)
(***************************************************************************)
EXTENDS AssetsCache

CONSTANTS A, B, U, p, q, g, a1, a2, a3, b1, b2, b3, c2

Data(amount, units, ipfs) == [amount |-> amount, reissuable |-> 1, units |-> units, ipfs |-> ipfs]
Asset(n, adr, data) == [name |-> n, address |-> adr, data |-> data]
Coin(n, adr, amount) == [name |-> n, address |-> adr, amount |-> amount]

Tx(id, type, new, in, out) == [id |-> id, type |-> type, new |-> new, in |-> in, out |-> out]

(* The issue of n to adr, and a reissue by the owner at adr. *)
Issue(id, n, adr, data) == Tx(id, "issue", <<Asset(n, adr, data)>>, <<>>, <<>>)
Reissue(id, n, adr, data) ==
    Tx(id, "reissue", <<Asset(n, adr, data)>>,
       <<Coin(OwnerName(n), adr, 1)>>, <<Coin(OwnerName(n), adr, 1)>>)
Pay(id, n, from, amount, to, part) ==
    Tx(id, "transfer", <<>>, <<Coin(n, from, amount)>>,
       <<Coin(n, to, part)>> \o IF part = amount THEN <<>> ELSE <<Coin(n, from, amount - part)>>)

IssueA == Issue("iA", A, p, Data(2, 0, "h0"))
IssueU == Tx("uU", "unique", <<Asset(U, q, Data(1, 0, ""))>>,
             <<Coin(OwnerName(A), p, 1)>>, <<Coin(OwnerName(A), q, 1)>>)

(***************************************************************************)
(* Three branches.  On one A is issued, reissued with a new hash and paid  *)
(* on, and a unique asset U is issued; on another B is issued, then A by   *)
(* the same transaction as on the first, both are reissued and U is issued *)
(* too, so that there are more assets than the LRU cache has room for; the *)
(* third pays all of A away.                                               *)
(***************************************************************************)
ForkBlocks == {g, a1, a2, a3, b1, b2, b3, c2}
ForkParent == a1 :> g @@ a2 :> a1 @@ a3 :> a2 @@ b1 :> g @@ b2 :> b1 @@ b3 :> b2 @@ c2 :> a1
ForkTxs ==
       g  :> <<>>
    @@ a1 :> <<IssueA>>
    @@ a2 :> <<Reissue("rA1", A, p, Data(1, 0, "h1")), Pay("tA1", A, p, 2, q, 2)>>
    @@ a3 :> <<IssueU, Pay("tA2", A, q, 2, p, 1)>>
    @@ b1 :> <<Issue("iB", B, p, Data(3, 0, "h2"))>>
    @@ b2 :> <<IssueA, Pay("tB1", B, p, 3, q, 2)>>
    @@ b3 :> <<Reissue("rA2", A, p, Data(1, 1, "")), Reissue("rB", B, p, Data(1, -1, "h3")), IssueU>>
    @@ c2 :> <<Pay("tA3", A, p, 2, q, 2)>>

(* The same name is issued to p on one branch and to q on the other. *)
RaceBlocks == {g, a1, b1}
RaceParent == a1 :> g @@ b1 :> g
RaceTxs == g :> <<>> @@ a1 :> <<IssueA>> @@ b1 :> <<Issue("iA2", A, q, Data(2, 0, "h0"))>>
=============================================================================
