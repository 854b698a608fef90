-------------------------- MODULE MCBlockDownload --------------------------
(* A prompt peer on a chain of three blocks and a slow one that also has a *)
(* branch of its own.                                                      *)
EXTENDS BlockDownload, TLC

CONSTANTS g, a1, a2, a3, b1, p1, p2

AllBlocks == {g, a1, a2, a3, b1}
ParentOf == a1 :> g @@ a2 :> a1 @@ a3 :> a2 @@ b1 :> g
HeightOf[b \in AllBlocks] == IF b = g THEN 0 ELSE HeightOf[ParentOf[b]] + 1
KnownTo == p1 :> {g, a1, a2, a3} @@ p2 :> {g, a1, a2, a3, b1}
Tells == p1 :> {a3} @@ p2 :> {a2, b1}
=============================================================================
