----------------------------- MODULE MCMempool -----------------------------
(***************************************************************************)
(* Two branches on the genesis block, where f funds the others and issues  *)
(* B.  x, y and z spend each other, w spends what x spends, k spends the   *)
(* reward of a1.  t issues A on one branch and u on the other; s spends an *)
(* output of t.  r reissues B, v reissues it after r, j instead of r.      *)
(***************************************************************************)
EXTENDS Mempool, TLC

CONSTANTS g, a1, a2, b1, b2, cg, ca, ca2, cb, cb2, f, k, j, r, s, t, u, v, w, x, y, z, A, B

Rewards == {cg, ca, ca2, cb, cb2}
Childless == Rewards \cup {f, k, j, r, t, u, v, w, x, y, z}
WithChild == Rewards \cup {f, s, t, u, x}
AllTxs == Childless \cup WithChild
AllBlocks == {g, a1, a2, b1, b2}
ParentOf == a1 :> g @@ a2 :> a1 @@ b1 :> g @@ b2 :> b1
Transactions == g :> <<cg, f>> @@ a1 :> <<ca, x, t>> @@ a2 :> <<ca2, y, r>>
                @@ b1 :> <<cb, u>> @@ b2 :> <<cb2, w, j>>
ShortTransactions == g :> <<cg, f>> @@ a1 :> <<ca, x, t>> @@ a2 :> <<ca2>> @@ b1 :> <<cb, u>> @@ b2 :> <<cb2>>

InsOf == [c \in Rewards |-> {}] @@ f :> {<<cg, 0>>}
         @@ x :> {<<f, 0>>} @@ y :> {<<x, 0>>} @@ z :> {<<x, 1>>, <<y, 0>>} @@ w :> {<<f, 0>>}
         @@ k :> {<<ca, 0>>} @@ t :> {<<f, 1>>} @@ u :> {<<f, 2>>} @@ s :> {<<t, 0>>}
         @@ r :> {<<f, 3>>} @@ v :> {<<r, 0>>} @@ j :> {<<f, 3>>}
OutsOf == [c \in AllTxs |-> IF c = f THEN 4 ELSE IF c = x THEN 2 ELSE 1]
FeeOf == [c \in AllTxs |-> IF c \in {y, w} THEN 3 ELSE IF c \in {k, t, u} THEN 2 ELSE 1]
LockOf == [c \in AllTxs |-> IF c = z THEN 1 ELSE 0]
IssueOf == [c \in AllTxs |-> IF c = f THEN B ELSE IF c \in {t, u} THEN A ELSE None]
ReissueOf == [c \in AllTxs |-> IF c \in {r, v, j} THEN B ELSE None]

Newer == <<f, x, t, r, y, u, v, k, j, w, z, s>>
Orders == {[c \in ToSet(Newer) |-> CHOOSE i \in DOMAIN Newer : Newer[i] = c],
           [c \in ToSet(Newer) |-> CHOOSE i \in DOMAIN Newer : Reverse(Newer)[i] = c]}
=============================================================================
