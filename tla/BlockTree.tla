----------------------------- MODULE BlockTree -----------------------------
(***************************************************************************)
(* The tree of blocks that CBlockIndex::pprev makes, with nHeight, and the *)
(* walks through it of chain.h and chain.cpp: from a block to its          *)
(* ancestors, to where two branches part, and up along a branch.           *)
(***************************************************************************)
EXTENDS Integers, FiniteSets

CONSTANTS Blocks, Genesis, Parent, nHeight

(* AddToBlockIndex gives a block the height of its parent and one more. *)
ASSUME TreeOfBlocks ==
    /\ IsFiniteSet(Blocks) /\ Genesis \in Blocks
    /\ Parent \in [Blocks \ {Genesis} -> Blocks]
    /\ nHeight \in [Blocks -> Nat]
    /\ \A b \in Blocks \ {Genesis} : nHeight[b] = nHeight[Parent[b]] + 1

(* A set of blocks with the parents of its blocks. *)
AncestorClosed(S) == \A b \in S \ {Genesis} : Parent[b] \in S

(* Of each block: itself and its ancestors, the least such set. *)
Branch ==
    [b \in Blocks |-> {c \in Blocks : \A S \in SUBSET Blocks : b \in S /\ AncestorClosed(S) => c \in S}]

Highest(S) == CHOOSE b \in S : \A c \in S : nHeight[c] <= nHeight[b]
Lowest(S) == CHOOSE b \in S : \A c \in S : nHeight[b] <= nHeight[c]

LastCommonAncestor(b, c) == Highest(Branch[b] \cap Branch[c])

(* The first max of some blocks of a branch, from the lowest. *)
Rank(S, b) == Cardinality({c \in S : nHeight[c] < nHeight[b]})
FromLowest(S, max) ==
    [i \in 1..(IF max < Cardinality(S) THEN max ELSE Cardinality(S)) |-> CHOOSE b \in S : Rank(S, b) = i - 1]
=============================================================================
