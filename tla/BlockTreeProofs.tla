-------------------------- MODULE BlockTreeProofs --------------------------
(***************************************************************************)
(* What the proofs about chains need to know of the tree of blocks.        *)
(*                                                                         *)
(* Facts about a whole branch are not proved by induction on heights: a    *)
(* branch is the least set with a block and the parents of its blocks, so  *)
(* that what holds of the block and passes on to parents holds in all of   *)
(* the branch (BranchLeast).                                               *)
(***************************************************************************)
EXTENDS BlockTree, TLAPS

(* A branch is within any set with its block and all parents. *)
LEMMA BranchLeast ==
  ASSUME NEW b \in Blocks, NEW S \in SUBSET Blocks, b \in S, AncestorClosed(S)
  PROVE  Branch[b] \subseteq S
  BY DEF Branch

(* ... and is such a set itself. *)
LEMMA BranchClosed ==
  ASSUME NEW b \in Blocks
  PROVE  b \in Branch[b] /\ Branch[b] \subseteq Blocks /\ AncestorClosed(Branch[b])
  BY TreeOfBlocks DEF Branch, AncestorClosed

(* The branch of a block is the one of its parent and the block. *)
LEMMA BranchOfChild ==
  ASSUME NEW b \in Blocks \ {Genesis}
  PROVE  Branch[b] = Branch[Parent[b]] \cup {b}
  <1>1. Parent[b] \in Blocks
    BY TreeOfBlocks
  <1>2. Branch[Parent[b]] \subseteq Branch[b]
    BY <1>1, BranchClosed, BranchLeast DEF AncestorClosed
  <1>3. Branch[b] \subseteq Branch[Parent[b]] \cup {b}
    <2> DEFINE S == Branch[Parent[b]] \cup {b}
    <2>1. S \in SUBSET Blocks /\ b \in S /\ AncestorClosed(S)
      BY <1>1, BranchClosed DEF AncestorClosed
    <2> HIDE DEF S
    <2>2. Branch[b] \subseteq S
      BY <2>1, BranchLeast
    <2> QED BY <2>2 DEF S
  <1> QED BY <1>2, <1>3, BranchClosed

LEMMA BranchOfGenesis == Branch[Genesis] = {Genesis}
  <1>1. Genesis \in Blocks /\ AncestorClosed({Genesis})
    BY TreeOfBlocks DEF AncestorClosed
  <1> QED BY <1>1, BranchLeast, BranchClosed

(* Ancestors of an ancestor are ancestors. *)
LEMMA BranchTransitive ==
  ASSUME NEW b \in Blocks, NEW c \in Branch[b]
  PROVE  c \in Blocks /\ Branch[c] \subseteq Branch[b]
  BY BranchClosed, BranchLeast

(* Ancestors are lower. *)
LEMMA BranchLower ==
  ASSUME NEW b \in Blocks, NEW c \in Branch[b]
  PROVE  nHeight[c] <= nHeight[b] /\ (c # b => nHeight[c] < nHeight[b])
  <1> DEFINE S == {x \in Blocks : x = b \/ nHeight[x] < nHeight[b]}
  <1>1. S \in SUBSET Blocks /\ b \in S
    OBVIOUS
  <1>2. AncestorClosed(S)
    <2> SUFFICES ASSUME NEW x \in S \ {Genesis} PROVE Parent[x] \in S
      BY DEF AncestorClosed
    <2>1. /\ Parent[x] \in Blocks /\ nHeight[Parent[x]] \in Nat /\ nHeight[x] \in Nat /\ nHeight[b] \in Nat
          /\ nHeight[x] = nHeight[Parent[x]] + 1
      BY TreeOfBlocks
    <2> QED BY <2>1
  <1>3. c \in S
    <2> HIDE DEF S
    <2> QED BY <1>1, <1>2, BranchLeast
  <1>4. nHeight[c] \in Nat /\ nHeight[b] \in Nat
    BY <1>3, TreeOfBlocks
  <1> QED BY <1>3, <1>4

(* Of two blocks of a branch one is an ancestor of the other. *)
LEMMA BranchLinear ==
  ASSUME NEW b \in Blocks, NEW c \in Branch[b], NEW d \in Branch[b]
  PROVE  c \in Branch[d] \/ d \in Branch[c]
  <1> DEFINE S == {x \in Blocks : x \in Branch[d] \/ d \in Branch[x]}
  <1>1. S \in SUBSET Blocks /\ b \in S
    OBVIOUS
  <1>2. AncestorClosed(S)
    <2> SUFFICES ASSUME NEW x \in S \ {Genesis} PROVE Parent[x] \in S
      BY DEF AncestorClosed
    <2>1. Parent[x] \in Blocks /\ d \in Blocks
      BY TreeOfBlocks, BranchClosed
    <2>2. CASE x \in Branch[d]
      BY <2>1, <2>2, BranchClosed DEF AncestorClosed
    <2>3. CASE d \in Branch[x] /\ d # x
      BY <2>1, <2>3, BranchOfChild
    <2>4. CASE d = x
      BY <2>1, <2>4, BranchClosed DEF AncestorClosed
    <2> QED BY <2>2, <2>3, <2>4
  <1>3. c \in S
    <2> HIDE DEF S
    <2> QED BY <1>1, <1>2, BranchLeast
  <1> QED BY <1>3

(* ... so that no two blocks of a branch are at one height. *)
LEMMA BranchHeights ==
  ASSUME NEW b \in Blocks, NEW c \in Branch[b], NEW d \in Branch[b], nHeight[c] = nHeight[d]
  PROVE  c = d
  <1>1. c \in Blocks /\ d \in Blocks /\ nHeight[c] \in Nat
    BY BranchClosed, TreeOfBlocks
  <1> QED BY <1>1, BranchLinear, BranchLower

-----------------------------------------------------------------------------
(* What is used of the blocks being finitely many: a number of blocks is a *)
(* natural number, and sets of blocks have a minimal one.  The modules     *)
(* with the theorems derive it from FiniteSetTheorems, which no lemma has  *)
(* in its context this way.                                                *)
FiniteTree ==
    /\ \A S \in SUBSET Blocks : Cardinality(S) \in Nat
    /\ \A C \in SUBSET SUBSET Blocks : C # {} => \E T \in C : \A U \in C : U \subseteq T => U = T

(* R orders the blocks of S, and one of them is the greatest.              *)
OrderedBy(R, S) ==
    /\ \A x, y \in S : x = y \/ <<x, y>> \in R \/ <<y, x>> \in R
    /\ \A x, y, z \in S : <<x, y>> \in R /\ <<y, z>> \in R => <<x, z>> \in R

HasGreatest(R, S) == \E b \in S : \A x \in S : x = b \/ <<x, b>> \in R

(* Blocks that are ordered have a greatest one: a minimal one of the sets  *)
(* that have a block as great as any of them has a single block.           *)
LEMMA GreatestIs ==
  ASSUME FiniteTree, NEW S \in SUBSET Blocks, S # {}, NEW R, OrderedBy(R, S)
  PROVE  HasGreatest(R, S)
  <1> DEFINE C == {T \in SUBSET S : T # {} /\ \A x \in S : \E y \in T : x = y \/ <<x, y>> \in R}
  <1>1. S \in C /\ C \in SUBSET SUBSET Blocks
    OBVIOUS
  <1>2. PICK T \in C : \A U \in C : U \subseteq T => U = T
    <2> HIDE DEF C
    <2> QED BY <1>1 DEF FiniteTree
  <1>3. PICK b \in T : TRUE
    OBVIOUS
  <1>4. \A x \in S : x = b \/ <<x, b>> \in R
    <2> SUFFICES ASSUME NEW z \in S, z # b, <<z, b>> \notin R PROVE FALSE
      OBVIOUS
    <2>1. PICK y \in T : z = y \/ <<z, y>> \in R
      OBVIOUS
    <2>2. y # b /\ <<b, y>> \in R
      BY <2>1 DEF OrderedBy
    <2>3. T \ {b} \in C
      BY <2>2 DEF OrderedBy
    <2> HIDE DEF C
    <2> QED BY <1>2, <1>3, <2>3
  <1> QED BY <1>4 DEF HasGreatest

(* A set of blocks has a highest and a lowest one. *)
LEMMA HighestIs ==
  ASSUME FiniteTree, NEW S \in SUBSET Blocks, S # {}
  PROVE  Highest(S) \in S /\ \A c \in S : nHeight[c] <= nHeight[Highest(S)]
  <1> DEFINE R == {p \in S \X S : nHeight[p[1]] <= nHeight[p[2]]}
  <1>1. \A c \in S : nHeight[c] \in Nat
    BY TreeOfBlocks
  <1>2. \A x, y \in S : <<x, y>> \in R <=> nHeight[x] <= nHeight[y]
    OBVIOUS
  <1> HIDE DEF R
  <1>3. OrderedBy(R, S)
    BY <1>1, <1>2 DEF OrderedBy
  <1>4. PICK b \in S : \A x \in S : x = b \/ <<x, b>> \in R
    <2>1. HasGreatest(R, S)
      BY <1>3, GreatestIs
    <2> QED BY <2>1 DEF HasGreatest
  <1>5. ASSUME NEW c \in S PROVE nHeight[c] <= nHeight[b]
    <2>1. c = b \/ nHeight[c] <= nHeight[b]
      BY <1>2, <1>4
    <2>2. nHeight[b] \in Nat
      BY <1>1
    <2> QED BY <2>1, <2>2
  <1> QED BY <1>5 DEF Highest

LEMMA LowestIs ==
  ASSUME FiniteTree, NEW S \in SUBSET Blocks, S # {}
  PROVE  Lowest(S) \in S /\ \A c \in S : nHeight[Lowest(S)] <= nHeight[c]
  <1> DEFINE R == {p \in S \X S : nHeight[p[2]] <= nHeight[p[1]]}
  <1>1. \A c \in S : nHeight[c] \in Nat
    BY TreeOfBlocks
  <1>2. \A x, y \in S : <<x, y>> \in R <=> nHeight[y] <= nHeight[x]
    OBVIOUS
  <1> HIDE DEF R
  <1>3. OrderedBy(R, S)
    BY <1>1, <1>2 DEF OrderedBy
  <1>4. PICK b \in S : \A x \in S : x = b \/ <<x, b>> \in R
    <2>1. HasGreatest(R, S)
      BY <1>3, GreatestIs
    <2> QED BY <2>1 DEF HasGreatest
  <1>5. ASSUME NEW c \in S PROVE nHeight[b] <= nHeight[c]
    <2>1. c = b \/ nHeight[b] <= nHeight[c]
      BY <1>2, <1>4
    <2>2. nHeight[b] \in Nat
      BY <1>1
    <2> QED BY <2>1, <2>2
  <1> QED BY <1>5 DEF Lowest

(* The first block is an ancestor of every block. *)
LEMMA GenesisInBranch ==
  ASSUME FiniteTree, NEW b \in Blocks
  PROVE  Genesis \in Branch[b]
  <1> DEFINE l == Lowest(Branch[b])
  <1>1. l \in Branch[b] /\ \A c \in Branch[b] : nHeight[l] <= nHeight[c]
    BY BranchClosed, LowestIs
  <1> HIDE DEF l
  <1>2. ASSUME l # Genesis PROVE FALSE
    <2>1. l \in Blocks /\ Parent[l] \in Branch[b] /\ Parent[l] \in Blocks
      BY <1>1, <1>2, BranchClosed DEF AncestorClosed
    <2>2. nHeight[l] = nHeight[Parent[l]] + 1 /\ nHeight[Parent[l]] \in Nat
      BY <1>2, <2>1, TreeOfBlocks
    <2> QED BY <1>1, <2>1, <2>2
  <1> QED BY <1>1, <1>2

(* Two branches part at a block that is on both. *)
LEMMA LastCommonAncestorIs ==
  ASSUME FiniteTree, NEW b \in Blocks, NEW c \in Blocks
  PROVE  LastCommonAncestor(b, c) \in Branch[b] \cap Branch[c]
  BY GenesisInBranch, BranchClosed, HighestIs DEF LastCommonAncestor
=============================================================================
