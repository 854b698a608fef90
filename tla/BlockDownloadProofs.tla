------------------------ MODULE BlockDownloadProofs ------------------------
(***************************************************************************)
(* The records of which block was asked of which peer agree for any set of *)
(* peers and any tree of blocks, and with them the limit, the stalling     *)
(* mark and the last common block.                                         *)
(***************************************************************************)
EXTENDS BlockDownload, BlockTreeProofs, FiniteSetTheorems

(* Most of the leaves are about sets, for Zenon; those with arithmetic or  *)
(* functions in them cite SMT.                                             *)
USE ZenonT(60)

(* CNodeState. *)
Nodes ==
    [pindexBestKnownBlock : Blocks \cup {None}, hashLastUnknownBlock : Blocks \cup {None},
     pindexLastCommonBlock : Blocks \cup {None},
     vBlocksInFlight : Seq(Blocks), nBlocksInFlight : Nat, partial : SUBSET Blocks,
     late : BOOLEAN, stalling : {"no", "since", "over"}]

(* What a node's own record says of the blocks asked of it. *)
NodeOK(n) ==
    /\ n \in Nodes
    /\ n.nBlocksInFlight = Len(n.vBlocksInFlight)
    /\ n.nBlocksInFlight <= MAX_BLOCKS_IN_TRANSIT_PER_PEER
    /\ IsInjective(n.vBlocksInFlight)
    /\ n.partial \subseteq Range(n.vBlocksInFlight)
    /\ n.stalling # "no" => n.vBlocksInFlight # <<>>

(* The peers that owe a block. *)
Busy(node) == {p \in DOMAIN node : node[p].vBlocksInFlight # <<>>}

(* The three records, taken together. *)
DownloadOK(d) ==
    /\ d = [node |-> d.node, inFlight |-> d.inFlight, peers |-> d.peers]
    /\ DOMAIN d.node \subseteq Peers
    /\ d.node \in [DOMAIN d.node -> Nodes]
    /\ DOMAIN d.inFlight \subseteq Blocks
    /\ d.inFlight \in [DOMAIN d.inFlight -> DOMAIN d.node]
    /\ \A p \in DOMAIN d.node :
          /\ NodeOK(d.node[p])
          /\ Range(d.node[p].vBlocksInFlight) = {b \in DOMAIN d.inFlight : d.inFlight[b] = p}
    /\ d.peers = Cardinality(Busy(d.node))

(* No last common block is past a block that is not in S. *)
CommonWithin(d, S) ==
    \A p \in DOMAIN d.node : LET c == d.node[p].pindexLastCommonBlock IN c # None => Branch[c] \subseteq S

(* The inductive invariant. *)
DownloadInv ==
    /\ have \subseteq mapBlockIndex /\ mapBlockIndex \subseteq Blocks
    /\ tip \in Blocks /\ Linked(tip)
    /\ closing \subseteq Connected
    /\ DownloadOK(dl)
    /\ CommonWithin(dl, have)

-----------------------------------------------------------------------------
LEMMA FiniteBlocks ==
  ASSUME NEW S \in SUBSET Blocks
  PROVE  IsFiniteSet(S) /\ Cardinality(S) \in Nat
  BY TreeOfBlocks, FS_Subset, FS_CardinalityType

LEMMA FewerBlocks ==
  ASSUME NEW S \in SUBSET Blocks, NEW T \in SUBSET S
  PROVE  Cardinality(T) <= Cardinality(S) /\ (T # S => Cardinality(T) # Cardinality(S))
  BY FiniteBlocks, FS_Subset

LEMMA TreeIsFinite == FiniteTree
  <1>1. ASSUME NEW C \in SUBSET SUBSET Blocks, C # {}
        PROVE  \E T \in C : \A U \in C : U \subseteq T => U = T
    <2>1. C \subseteq FiniteSubsetsOf(Blocks)
      BY FiniteBlocks DEF FiniteSubsetsOf
    <2>2. PICK T \in C : \A U \in C : ~(<<U, T>> \in StrictSubsetOrdering(Blocks))
      BY <1>1, <2>1, FS_StrictSubsetOrderingWellFounded, WFMin
    <2> QED BY <2>2 DEF StrictSubsetOrdering
  <1> QED BY <1>1, FiniteBlocks DEF FiniteTree

(* The ranks of n blocks of a branch are 0 .. n-1. *)
LEMMA RankIs ==
  ASSUME NEW b \in Blocks, NEW S \in SUBSET Branch[b]
  PROVE  /\ IsFiniteSet(S) /\ Cardinality(S) \in Nat
         /\ \A k \in 0..Cardinality(S)-1 : \E x \in S : Rank(S, x) = k
  <1>1. IsFiniteSet(S) /\ S \subseteq Blocks
    BY BranchClosed, FiniteBlocks
  <1>2. Cardinality(S) \in Nat
    BY <1>1, FiniteBlocks
  <1> DEFINE Below(x) == {c \in S : nHeight[c] < nHeight[x]}
             f == [x \in S |-> Rank(S, x)]
             K == 0..Cardinality(S)-1
  <1>3. \A x \in S : nHeight[x] \in Nat
    BY <1>1, TreeOfBlocks
  <1>4. ASSUME NEW x \in S
        PROVE  /\ IsFiniteSet(Below(x)) /\ Rank(S, x) = Cardinality(Below(x)) /\ Rank(S, x) \in K
    <2>1. Below(x) \subseteq S /\ Below(x) # S
      BY <1>3, SMTT(30)
    <2>2. Rank(S, x) = Cardinality(Below(x))
      BY DEF Rank
    <2> HIDE DEF Below
    <2>3. /\ IsFiniteSet(Below(x)) /\ Cardinality(Below(x)) <= Cardinality(S)
          /\ Cardinality(Below(x)) # Cardinality(S) /\ Cardinality(Below(x)) \in Nat
      BY <1>1, <2>1, FiniteBlocks, FewerBlocks
    <2> QED BY <1>2, <2>2, <2>3, SMTT(30)
  <1>5. ASSUME NEW x \in S, NEW y \in S, nHeight[x] < nHeight[y] PROVE Rank(S, x) # Rank(S, y)
    <2>1. Below(x) \subseteq Below(y) /\ Below(x) # Below(y)
      <3>1. x \in Below(y) /\ x \notin Below(x)
        BY <1>3, <1>5, SMTT(30)
      <3>2. Below(x) \subseteq Below(y)
        BY <1>3, <1>5, SMTT(30)
      <3> QED BY <3>1, <3>2
    <2>2. Below(y) \subseteq Blocks
      BY <1>1 DEF Below
    <2> HIDE DEF Below
    <2> QED BY <1>4, <2>1, <2>2, FewerBlocks
  <1>6. \A x, y \in S : Rank(S, x) = Rank(S, y) => x = y
    <2> SUFFICES ASSUME NEW x \in S, NEW y \in S, Rank(S, x) = Rank(S, y) PROVE x = y
      OBVIOUS
    <2>1. nHeight[x] = nHeight[y]
      BY <1>3, <1>5, SMTT(30)
    <2> QED BY <2>1, BranchHeights
  <1>7. f \in Injection(S, K)
    <2>1. f \in [S -> K]
      BY <1>4
    <2>2. IsInjective(f)
      BY <1>6 DEF IsInjective
    <2> QED BY <2>1, <2>2 DEF Injection
  <1>8. IsFiniteSet(S) /\ IsFiniteSet(K) /\ Cardinality(K) = Cardinality(S)
    <2>1. Cardinality(S) - 1 \in Int
      BY <1>2, SMTT(30)
    <2>2. IsFiniteSet(K) /\ Cardinality(K) = IF 0 > Cardinality(S) - 1 THEN 0 ELSE Cardinality(S) - 1 - 0 + 1
      BY <2>1, FS_Interval, SMTT(30)
    <2>3. IsFiniteSet(S) /\ Cardinality(S) = Cardinality(S)
      BY <1>1, FiniteBlocks
    <2> QED BY <1>2, <2>2, <2>3, SMTT(30)
  <1>9. f \in Surjection(S, K)
    <2> HIDE DEF f, K
    <2> QED BY <1>7, <1>8, FS_Injection
  <1> QED BY <1>1, <1>2, <1>9 DEF Surjection

(* The first blocks of a set from the lowest are blocks of the set, each   *)
(* once, and no more than was asked for.                                   *)
LEMMA FromLowestIs ==
  ASSUME NEW b \in Blocks, NEW S \in SUBSET Branch[b], NEW max \in Nat
  PROVE  /\ FromLowest(S, max) \in Seq(S)
         /\ Len(FromLowest(S, max)) <= max
         /\ IsInjective(FromLowest(S, max))
  <1> DEFINE m == IF max < Cardinality(S) THEN max ELSE Cardinality(S)
             q == FromLowest(S, max)
  <1>1. Cardinality(S) \in Nat
    BY RankIs
  <1>2. m \in Nat /\ m <= max /\ m <= Cardinality(S)
    BY <1>1, SMTT(30)
  <1>3. q = [i \in 1..m |-> CHOOSE x \in S : Rank(S, x) = i - 1]
    BY DEF FromLowest
  <1> HIDE DEF m, q
  <1>4. ASSUME NEW i \in 1..m PROVE q[i] \in S /\ Rank(S, q[i]) = i - 1
    <2>1. i - 1 \in 0..Cardinality(S)-1
      BY <1>1, <1>2, SMTT(30)
    <2>2. \E x \in S : Rank(S, x) = i - 1
      BY <2>1, RankIs
    <2>3. q[i] = CHOOSE x \in S : Rank(S, x) = i - 1
      BY <1>3
    <2> QED BY <2>2, <2>3
  <1>5. q \in Seq(S) /\ Len(q) = m
    BY <1>2, <1>3, <1>4, SMTT(30)
  <1>6. IsInjective(q)
    BY <1>2, <1>4, <1>5, SMTT(30) DEF IsInjective
  <1> QED BY <1>2, <1>5, <1>6 DEF q

-----------------------------------------------------------------------------
LEMMA EmptyIs ==
  ASSUME NEW v \in Seq(Blocks)
  PROVE  v # <<>> <=> Len(v) # 0
  BY SMTT(30)

(* Erasing a block from vBlocksInFlight takes out that block and no other. *)
LEMMA ErasedIs ==
  ASSUME NEW v \in Seq(Blocks), IsInjective(v), NEW b \in Range(v)
  PROVE  /\ Erased(v, b) \in Seq(Blocks)
         /\ Len(Erased(v, b)) = Len(v) - 1
         /\ IsInjective(Erased(v, b))
         /\ Range(Erased(v, b)) = Range(v) \ {b}
  <1> DEFINE k == CHOOSE k \in DOMAIN v : v[k] = b
             e == Erased(v, b)
  <1>1. k \in 1..Len(v) /\ v[k] = b
    BY SMTT(30) DEF Range
  <1>2. e = [i \in 1..Len(v)-1 |-> IF i < k THEN v[i] ELSE v[i+1]]
    BY DEF Erased
  <1>3. DOMAIN v = 1..Len(v) /\ Len(v) \in Nat
    BY SMTT(30)
  <1> HIDE DEF k, e
  <1>4. e \in Seq(Blocks) /\ Len(e) = Len(v) - 1 /\ DOMAIN e = 1..Len(v)-1
    BY <1>1, <1>2, <1>3, SMTT(30)
  <1>5. \A i, j \in 1..Len(v) : v[i] = v[j] => i = j
    BY <1>3 DEF IsInjective
  <1>6. IsInjective(e)
    BY <1>1, <1>2, <1>3, <1>4, <1>5, SMTT(30) DEF IsInjective
  <1>7. ASSUME NEW x \in Range(e) PROVE x \in Range(v) /\ x # b
    BY <1>1, <1>2, <1>3, <1>4, <1>5, SMTT(30) DEF Range
  <1>8. ASSUME NEW x \in Range(v), x # b PROVE x \in Range(e)
    <2>1. PICK i \in 1..Len(v) : v[i] = x
      BY <1>3 DEF Range
    <2>2. CASE i < k
      BY <1>1, <1>2, <1>3, <1>4, <2>1, <2>2, SMTT(30) DEF Range
    <2>3. CASE i > k
      <3>1. i - 1 \in 1..Len(v)-1 /\ e[i-1] = x
        BY <1>1, <1>2, <1>3, <2>1, <2>3, SMTT(30)
      <3> QED BY <1>4, <3>1 DEF Range
    <2> QED BY <1>1, <1>8, <2>1, <2>2, <2>3, SMTT(30)
  <1> QED BY <1>4, <1>6, <1>7, <1>8 DEF e

(* Asking for more blocks adds them and keeps the others. *)
LEMMA AppendedIs ==
  ASSUME NEW v \in Seq(Blocks), IsInjective(v), NEW w \in Seq(Blocks), IsInjective(w),
         Range(v) \cap Range(w) = {}
  PROVE  /\ v \o w \in Seq(Blocks)
         /\ Len(v \o w) = Len(v) + Len(w)
         /\ IsInjective(v \o w)
         /\ Range(v \o w) = Range(v) \cup Range(w)
  <1> DEFINE q == v \o w
  <1>1. /\ q \in Seq(Blocks) /\ Len(q) = Len(v) + Len(w) /\ Len(v) \in Nat /\ Len(w) \in Nat
        /\ DOMAIN q = 1..Len(v) + Len(w) /\ DOMAIN v = 1..Len(v) /\ DOMAIN w = 1..Len(w)
    BY SMTT(30)
  <1>2. /\ \A i \in 1..Len(v) : q[i] = v[i]
        /\ \A i \in 1..Len(w) : q[Len(v) + i] = w[i]
    BY SMTT(30)
  <1> HIDE DEF q
  <1>3. \A i \in DOMAIN q : \/ i \in 1..Len(v) /\ q[i] = v[i]
                            \/ i - Len(v) \in 1..Len(w) /\ q[i] = w[i - Len(v)]
    <2> SUFFICES ASSUME NEW i \in DOMAIN q, ~(i \in 1..Len(v))
                 PROVE  i - Len(v) \in 1..Len(w) /\ q[i] = w[i - Len(v)]
      BY <1>2
    <2>1. i - Len(v) \in 1..Len(w) /\ Len(v) + (i - Len(v)) = i
      BY <1>1, SMTT(30)
    <2> QED BY <1>2, <2>1
  <1>4. IsInjective(q)
    <2> SUFFICES ASSUME NEW i \in DOMAIN q, NEW j \in DOMAIN q, q[i] = q[j] PROVE i = j
      BY DEF IsInjective
    <2>1. CASE i \in 1..Len(v) /\ j \in 1..Len(v)
      BY <1>1, <1>2, <2>1 DEF IsInjective
    <2>2. CASE i \notin 1..Len(v) /\ j \notin 1..Len(v)
      <3>1. i - Len(v) = j - Len(v)
        BY <1>1, <1>3, <2>2 DEF IsInjective
      <3> QED BY <1>1, <3>1, SMTT(30)
    <2>3. CASE i \in 1..Len(v) /\ j \notin 1..Len(v)
      <3>1. q[i] \in Range(v) /\ q[j] \in Range(w)
        BY <1>1, <1>2, <1>3, <2>3 DEF Range
      <3> QED BY <3>1
    <2>4. CASE i \notin 1..Len(v) /\ j \in 1..Len(v)
      <3>1. q[j] \in Range(v) /\ q[i] \in Range(w)
        BY <1>1, <1>2, <1>3, <2>4 DEF Range
      <3> QED BY <3>1
    <2> QED BY <2>1, <2>2, <2>3, <2>4
  <1>5. Range(q) \subseteq Range(v) \cup Range(w)
    BY <1>1, <1>3 DEF Range
  <1>6. Range(v) \subseteq Range(q)
    BY <1>1, <1>2, SMTT(30) DEF Range
  <1>7. Range(w) \subseteq Range(q)
    <2> SUFFICES ASSUME NEW i \in 1..Len(w) PROVE w[i] \in Range(q)
      BY <1>1 DEF Range
    <2>1. Len(v) + i \in DOMAIN q
      BY <1>1, SMTT(30)
    <2> QED BY <1>2, <2>1 DEF Range
  <1> QED BY <1>1, <1>4, <1>5, <1>6, <1>7 DEF q

-----------------------------------------------------------------------------
(* How the number of peers that owe a block changes with one of them. *)
LEMMA BusyCount ==
  ASSUME NEW f, NEW g, DOMAIN f = DOMAIN g, DOMAIN f \subseteq Peers, NEW p \in DOMAIN f,
         \A x \in DOMAIN f \ {p} : f[x].vBlocksInFlight = g[x].vBlocksInFlight
  PROVE  /\ p \in Busy(f) /\ p \notin Busy(g) => Cardinality(Busy(g)) = Cardinality(Busy(f)) - 1
         /\ p \notin Busy(f) /\ p \in Busy(g) => Cardinality(Busy(g)) = Cardinality(Busy(f)) + 1
         /\ (p \in Busy(f) <=> p \in Busy(g)) => Cardinality(Busy(g)) = Cardinality(Busy(f))
  <1>1. IsFiniteSet(Busy(f)) /\ IsFiniteSet(Busy(g))
    <2>1. Busy(f) \subseteq Peers /\ Busy(g) \subseteq Peers
      BY DEF Busy
    <2> QED BY <2>1, DownloadConstants, FS_Subset
  <1>2. Busy(f) \ {p} = Busy(g) \ {p}
    BY DEF Busy
  <1>3. ASSUME p \in Busy(f), p \notin Busy(g) PROVE Cardinality(Busy(g)) = Cardinality(Busy(f)) - 1
    <2>1. Busy(g) = Busy(f) \ {p}
      BY <1>2, <1>3
    <2> QED BY <1>1, <1>3, <2>1, FS_RemoveElement
  <1>4. ASSUME p \notin Busy(f), p \in Busy(g) PROVE Cardinality(Busy(g)) = Cardinality(Busy(f)) + 1
    <2>1. Busy(g) = Busy(f) \cup {p}
      BY <1>2, <1>4
    <2> QED BY <1>1, <1>4, <2>1, FS_AddElement
  <1>5. ASSUME p \in Busy(f) <=> p \in Busy(g) PROVE Cardinality(Busy(g)) = Cardinality(Busy(f))
    <2>1. CASE p \in Busy(f)
      <3>1. Busy(g) = Busy(f)
        BY <1>2, <1>5, <2>1, SMTT(30)
      <3> QED BY <3>1
    <2>2. CASE p \notin Busy(f)
      <3>1. Busy(g) = Busy(f)
        BY <1>2, <1>5, <2>2, SMTT(30)
      <3> QED BY <3>1
    <2> QED BY <2>1, <2>2
  <1> QED BY <1>3, <1>4, <1>5

(* What changes in a node but vBlocksInFlight leaves the records as they   *)
(* are.                                                                    *)
LEMMA NodeUpdated ==
  ASSUME NEW d, DownloadOK(d), NEW p \in DOMAIN d.node, NEW n, NodeOK(n),
         n.vBlocksInFlight = d.node[p].vBlocksInFlight
  PROVE  LET e == [d EXCEPT !.node[p] = n]
         IN  /\ DownloadOK(e)
             /\ e.node = [d.node EXCEPT ![p] = n] /\ e.inFlight = d.inFlight
             /\ DOMAIN e.node = DOMAIN d.node
  <1> DEFINE e == [d EXCEPT !.node[p] = n]
  <1>1. d = [node |-> d.node, inFlight |-> d.inFlight, peers |-> d.peers] /\ d.node \in [DOMAIN d.node -> Nodes]
    BY DEF DownloadOK
  <1>2. /\ e = [node |-> e.node, inFlight |-> e.inFlight, peers |-> e.peers]
        /\ e.node = [d.node EXCEPT ![p] = n] /\ e.inFlight = d.inFlight /\ e.peers = d.peers
    BY <1>1, SMTT(30)
  <1> HIDE DEF e
  <1>3. /\ DOMAIN e.node = DOMAIN d.node /\ e.node[p] = n
        /\ \A x \in DOMAIN d.node \ {p} : e.node[x] = d.node[x]
    BY <1>1, <1>2
  <1>4. Cardinality(Busy(e.node)) = Cardinality(Busy(d.node))
    <2>1. DOMAIN d.node \subseteq Peers
      BY DEF DownloadOK
    <2>2. p \in Busy(d.node) <=> p \in Busy(e.node)
      BY <1>3 DEF Busy
    <2> QED BY <1>3, <2>1, <2>2, BusyCount
  <1>5. e.node \in [DOMAIN e.node -> Nodes]
    BY <1>1, <1>2, <1>3 DEF NodeOK
  <1>6. DownloadOK(e)
    BY <1>2, <1>3, <1>4, <1>5, SMTT(30) DEF DownloadOK
  <1> QED BY <1>2, <1>3, <1>6 DEF e

(* MarkBlockAsReceived takes the block out of all records. *)
LEMMA Received ==
  ASSUME NEW d, DownloadOK(d), NEW b \in Blocks
  PROVE  LET e == MarkBlockAsReceived(d, b)
         IN  /\ DownloadOK(e)
             /\ DOMAIN e.node = DOMAIN d.node
             /\ b \notin DOMAIN e.inFlight
             /\ \A p \in DOMAIN d.node :
                   /\ e.node[p].pindexLastCommonBlock = d.node[p].pindexLastCommonBlock
                   /\ e.node[p].nBlocksInFlight <= d.node[p].nBlocksInFlight
  <1>1. CASE b \notin DOMAIN d.inFlight
    <2>1. MarkBlockAsReceived(d, b) = d
      BY <1>1 DEF MarkBlockAsReceived
    <2>2. \A p \in DOMAIN d.node : d.node[p].nBlocksInFlight \in Nat
      BY DEF DownloadOK, Nodes
    <2> QED BY <1>1, <2>1, <2>2, SMTT(30)
  <1>2. CASE b \in DOMAIN d.inFlight
    <2> DEFINE p == d.inFlight[b]
               n == d.node[p]
               m == WithoutBlock(n, b)
               e == MarkBlockAsReceived(d, b)
    <2>1. /\ e = [node |-> [d.node EXCEPT ![p] = m],
                  inFlight |-> Restrict(d.inFlight, DOMAIN d.inFlight \ {b}),
                  peers |-> IF n.nBlocksInFlight = 1 THEN d.peers - 1 ELSE d.peers]
      BY <1>2 DEF MarkBlockAsReceived
    <2>2. /\ d.node \in [DOMAIN d.node -> Nodes] /\ DOMAIN d.node \subseteq Peers
          /\ DOMAIN d.inFlight \subseteq Blocks /\ d.inFlight \in [DOMAIN d.inFlight -> DOMAIN d.node]
          /\ d.peers = Cardinality(Busy(d.node))
      BY DEF DownloadOK
    <2>3. p \in DOMAIN d.node
      BY <1>2, <2>2
    <2>4. NodeOK(n) /\ Range(n.vBlocksInFlight) = {x \in DOMAIN d.inFlight : d.inFlight[x] = p}
      BY <2>3 DEF DownloadOK
    <2>5. /\ n \in Nodes /\ n.vBlocksInFlight \in Seq(Blocks) /\ IsInjective(n.vBlocksInFlight)
          /\ n.nBlocksInFlight = Len(n.vBlocksInFlight) /\ n.partial \subseteq Range(n.vBlocksInFlight)
          /\ n.nBlocksInFlight <= MAX_BLOCKS_IN_TRANSIT_PER_PEER /\ n.nBlocksInFlight \in Nat
      BY <2>4 DEF NodeOK, Nodes
    <2>6. b \in Range(n.vBlocksInFlight)
      BY <1>2, <2>4
    <2> HIDE DEF p, n
    <2> DEFINE v == Erased(n.vBlocksInFlight, b)
    <2>7. /\ v \in Seq(Blocks) /\ Len(v) = Len(n.vBlocksInFlight) - 1 /\ IsInjective(v)
          /\ Range(v) = Range(n.vBlocksInFlight) \ {b}
      BY <2>5, <2>6, ErasedIs
    <2> HIDE DEF v
    <2>8. /\ m = [n EXCEPT !.vBlocksInFlight = v, !.nBlocksInFlight = @ - 1, !.partial = @ \ {b},
                           !.late = @ /\ Head(n.vBlocksInFlight) # b, !.stalling = "no"]
      BY DEF WithoutBlock, v
    <2>9. n.vBlocksInFlight # <<>> /\ n.nBlocksInFlight >= 1
      BY <2>5, <2>6, SMTT(30) DEF Range
    <2>10. /\ m.vBlocksInFlight = v /\ m.nBlocksInFlight = n.nBlocksInFlight - 1
           /\ m.partial = n.partial \ {b} /\ m.stalling = "no"
           /\ m.pindexLastCommonBlock = n.pindexLastCommonBlock
      BY <2>5, <2>8 DEF Nodes
    <2>11. m \in Nodes
      <3>1. n.nBlocksInFlight - 1 \in Nat /\ n.partial \ {b} \in SUBSET Blocks
        BY <2>5, <2>9, SMTT(30) DEF Nodes
      <3>2. (n.late /\ Head(n.vBlocksInFlight) # b) \in BOOLEAN
        OBVIOUS
      <3> QED BY <2>5, <2>7, <2>8, <3>1, <3>2 DEF Nodes
    <2> HIDE DEF m, e
    <2>12. NodeOK(m)
      BY <2>5, <2>7, <2>10, <2>11, DownloadConstants, SMTT(30) DEF NodeOK
    <2>13. /\ e.node = [d.node EXCEPT ![p] = m]
           /\ e.inFlight = [x \in DOMAIN d.inFlight \ {b} |-> d.inFlight[x]]
           /\ e = [node |-> e.node, inFlight |-> e.inFlight, peers |-> e.peers]
           /\ e.peers = IF n.nBlocksInFlight = 1 THEN d.peers - 1 ELSE d.peers
      BY <2>1 DEF Restrict
    <2>14. /\ DOMAIN e.node = DOMAIN d.node /\ e.node[p] = m
           /\ \A x \in DOMAIN d.node \ {p} : e.node[x] = d.node[x]
           /\ e.node \in [DOMAIN e.node -> Nodes]
      BY <2>2, <2>3, <2>11, <2>13, SMTT(30)
    <2>15. /\ DOMAIN e.inFlight = DOMAIN d.inFlight \ {b}
           /\ \A x \in DOMAIN e.inFlight : e.inFlight[x] = d.inFlight[x]
           /\ e.inFlight \in [DOMAIN e.inFlight -> DOMAIN e.node]
      BY <2>2, <2>13, <2>14, SMTT(30)
    <2>16. e.peers = Cardinality(Busy(e.node))
      <3>1. p \in Busy(d.node)
        BY <2>3, <2>9 DEF Busy, n
      <3>2. p \in Busy(e.node) <=> n.nBlocksInFlight # 1
        <4>1. p \in Busy(e.node) <=> v # <<>>
          BY <2>3, <2>10, <2>14 DEF Busy
        <4>2. v # <<>> <=> Len(v) # 0
          BY <2>7, EmptyIs
        <4> QED BY <2>5, <2>7, <4>1, <4>2, SMTT(30)
      <3> QED BY <2>2, <2>3, <2>13, <2>14, <3>1, <3>2, BusyCount
    <2>17. ASSUME NEW x \in DOMAIN e.node
           PROVE  /\ NodeOK(e.node[x])
                  /\ Range(e.node[x].vBlocksInFlight) = {y \in DOMAIN e.inFlight : e.inFlight[y] = x}
      <3>1. CASE x = p
        BY <2>4, <2>7, <2>10, <2>12, <2>14, <2>15, <3>1
      <3>2. CASE x # p
        <4>1. /\ NodeOK(d.node[x]) /\ e.node[x] = d.node[x]
              /\ Range(d.node[x].vBlocksInFlight) = {y \in DOMAIN d.inFlight : d.inFlight[y] = x}
          BY <2>14, <2>17, <3>2 DEF DownloadOK
        <4>2. d.inFlight[b] # x
          BY <3>2 DEF p
        <4> QED BY <2>15, <4>1, <4>2
      <3> QED BY <3>1, <3>2
    <2>18. DownloadOK(e)
      BY <2>2, <2>13, <2>14, <2>15, <2>16, <2>17 DEF DownloadOK
    <2>19. ASSUME NEW x \in DOMAIN d.node
           PROVE  /\ e.node[x].pindexLastCommonBlock = d.node[x].pindexLastCommonBlock
                  /\ e.node[x].nBlocksInFlight <= d.node[x].nBlocksInFlight
      <3>1. CASE x = p
        <4>1. d.node[x] = n /\ e.node[x] = m
          BY <2>14, <3>1 DEF n
        <4> QED BY <2>5, <2>10, <4>1, SMTT(30)
      <3>2. CASE x # p
        <4>1. e.node[x] = d.node[x] /\ d.node[x].nBlocksInFlight \in Nat
          BY <2>2, <2>14, <3>2 DEF Nodes
        <4> QED BY <4>1, SMTT(30)
      <3> QED BY <3>1, <3>2
    <2> QED BY <2>14, <2>15, <2>18, <2>19 DEF e
  <1> QED BY <1>1, <1>2

(* e: what d becomes when the blocks bs are asked of p as well. *)
MoreInFlight(d, p, bs, e) ==
    /\ DownloadOK(e)
    /\ DOMAIN e.node = DOMAIN d.node
    /\ DOMAIN e.inFlight = DOMAIN d.inFlight \cup Range(bs)
    /\ \A b \in DOMAIN e.inFlight : e.inFlight[b] = IF b \in Range(bs) THEN p ELSE d.inFlight[b]
    /\ \A x \in DOMAIN d.node : e.node[x].pindexLastCommonBlock = d.node[x].pindexLastCommonBlock

(* MarkBlockAsInFlight for blocks of which none is in flight. *)
LEMMA InFlight ==
  ASSUME NEW d, DownloadOK(d), NEW p \in DOMAIN d.node, NEW bs \in Seq(Blocks), IsInjective(bs),
         Range(bs) \cap DOMAIN d.inFlight = {},
         d.node[p].nBlocksInFlight + Len(bs) <= MAX_BLOCKS_IN_TRANSIT_PER_PEER
  PROVE  MoreInFlight(d, p, bs, MarkBlocksAsInFlight(d, p, bs))
  <1>1. CASE bs = <<>>
    <2>1. MarkBlocksAsInFlight(d, p, bs) = d /\ Range(bs) = {}
      BY <1>1, SMTT(30) DEF MarkBlocksAsInFlight, Range
    <2> QED BY <2>1 DEF MoreInFlight
  <1>2. CASE bs # <<>>
    <2> DEFINE n == d.node[p]
               m == WithBlocks(n, bs)
               e == MarkBlocksAsInFlight(d, p, bs)
    <2>1. e = [node |-> [d.node EXCEPT ![p] = m],
               inFlight |-> [x \in DOMAIN d.inFlight \cup Range(bs) |->
                                 IF x \in Range(bs) THEN p ELSE d.inFlight[x]],
               peers |-> IF n.nBlocksInFlight = 0 THEN d.peers + 1 ELSE d.peers]
      BY <1>2 DEF MarkBlocksAsInFlight
    <2>2. /\ d.node \in [DOMAIN d.node -> Nodes] /\ DOMAIN d.node \subseteq Peers
          /\ DOMAIN d.inFlight \subseteq Blocks /\ d.inFlight \in [DOMAIN d.inFlight -> DOMAIN d.node]
          /\ d.peers = Cardinality(Busy(d.node))
      BY DEF DownloadOK
    <2>4. NodeOK(n) /\ Range(n.vBlocksInFlight) = {x \in DOMAIN d.inFlight : d.inFlight[x] = p}
      BY DEF DownloadOK
    <2>5. /\ n \in Nodes /\ n.vBlocksInFlight \in Seq(Blocks) /\ IsInjective(n.vBlocksInFlight)
          /\ n.nBlocksInFlight = Len(n.vBlocksInFlight) /\ n.partial \subseteq Range(n.vBlocksInFlight)
          /\ n.nBlocksInFlight \in Nat /\ Len(bs) \in Nat /\ Len(bs) # 0 /\ Range(bs) \subseteq Blocks
      <3>1. /\ n \in Nodes /\ n.vBlocksInFlight \in Seq(Blocks) /\ IsInjective(n.vBlocksInFlight)
            /\ n.nBlocksInFlight = Len(n.vBlocksInFlight) /\ n.partial \subseteq Range(n.vBlocksInFlight)
        <4> HIDE DEF n
        <4> QED BY <2>4, SMTT(30) DEF NodeOK, Nodes
      <3>2. Len(bs) \in Nat /\ Len(bs) # 0 /\ Range(bs) \subseteq Blocks
        BY <1>2, EmptyIs, SMTT(30) DEF Range
      <3> HIDE DEF n
      <3> QED BY <3>1, <3>2, SMTT(30)
    <2> DEFINE v == n.vBlocksInFlight \o bs
    <2>7. /\ v \in Seq(Blocks) /\ Len(v) = Len(n.vBlocksInFlight) + Len(bs) /\ IsInjective(v)
          /\ Range(v) = Range(n.vBlocksInFlight) \cup Range(bs)
      BY <2>4, <2>5, AppendedIs
    <2>6. n.nBlocksInFlight + Len(bs) <= MAX_BLOCKS_IN_TRANSIT_PER_PEER
      OBVIOUS
    <2>8. m = [n EXCEPT !.vBlocksInFlight = v, !.nBlocksInFlight = @ + Len(bs),
                        !.late = @ /\ n.nBlocksInFlight # 0]
      BY DEF WithBlocks
    <2> HIDE DEF v, n
    <2>9. v # <<>>
      BY <2>5, <2>7, EmptyIs, SMTT(30)
    <2>10. /\ m.vBlocksInFlight = v /\ m.nBlocksInFlight = n.nBlocksInFlight + Len(bs)
           /\ m.partial = n.partial /\ m.stalling = n.stalling
           /\ m.pindexLastCommonBlock = n.pindexLastCommonBlock
      BY <2>5, <2>8 DEF Nodes
    <2>11. m \in Nodes
      <3>1. n.nBlocksInFlight + Len(bs) \in Nat
        BY <2>5, SMTT(30)
      <3>2. (n.late /\ n.nBlocksInFlight # 0) \in BOOLEAN
        OBVIOUS
      <3> QED BY <2>5, <2>7, <2>8, <3>1, <3>2 DEF Nodes
    <2> HIDE DEF m, e
    <2>12. NodeOK(m)
      BY <2>5, <2>6, <2>7, <2>9, <2>10, <2>11, DownloadConstants DEF NodeOK
    <2>13. /\ e.node = [d.node EXCEPT ![p] = m]
           /\ e.inFlight = [x \in DOMAIN d.inFlight \cup Range(bs) |->
                                IF x \in Range(bs) THEN p ELSE d.inFlight[x]]
           /\ e = [node |-> e.node, inFlight |-> e.inFlight, peers |-> e.peers]
           /\ e.peers = IF n.nBlocksInFlight = 0 THEN d.peers + 1 ELSE d.peers
      BY <2>1
    <2>14. /\ DOMAIN e.node = DOMAIN d.node /\ e.node[p] = m
           /\ \A x \in DOMAIN d.node \ {p} : e.node[x] = d.node[x]
           /\ e.node \in [DOMAIN e.node -> Nodes]
      BY <2>2, <2>11, <2>13
    <2>15. /\ DOMAIN e.inFlight = DOMAIN d.inFlight \cup Range(bs)
           /\ \A x \in DOMAIN e.inFlight : e.inFlight[x] = IF x \in Range(bs) THEN p ELSE d.inFlight[x]
           /\ e.inFlight \in [DOMAIN e.inFlight -> DOMAIN e.node]
           /\ DOMAIN e.inFlight \subseteq Blocks
      BY <2>2, <2>5, <2>13, <2>14, SMTT(30)
    <2>16. e.peers = Cardinality(Busy(e.node))
      <3>1. p \in Busy(e.node)
        BY <2>9, <2>10, <2>14 DEF Busy
      <3>2. p \in Busy(d.node) <=> n.nBlocksInFlight # 0
        <4>1. p \in Busy(d.node) <=> n.vBlocksInFlight # <<>>
          BY DEF Busy, n
        <4> QED BY <2>5, <4>1, EmptyIs
      <3> QED BY <2>2, <2>13, <2>14, <3>1, <3>2, BusyCount
    <2>17. ASSUME NEW x \in DOMAIN e.node
           PROVE  /\ NodeOK(e.node[x])
                  /\ Range(e.node[x].vBlocksInFlight) = {y \in DOMAIN e.inFlight : e.inFlight[y] = x}
      <3>1. CASE x = p
        BY <2>4, <2>7, <2>10, <2>12, <2>14, <2>15, <3>1
      <3>2. CASE x # p
        <4>1. /\ NodeOK(d.node[x]) /\ e.node[x] = d.node[x]
              /\ Range(d.node[x].vBlocksInFlight) = {y \in DOMAIN d.inFlight : d.inFlight[y] = x}
          BY <2>14, <2>17, <3>2 DEF DownloadOK
        <4> QED BY <2>15, <3>2, <4>1
      <3> QED BY <3>1, <3>2
    <2>18. DownloadOK(e)
      BY <2>2, <2>13, <2>14, <2>15, <2>16, <2>17 DEF DownloadOK
    <2>19. \A x \in DOMAIN d.node : e.node[x].pindexLastCommonBlock = d.node[x].pindexLastCommonBlock
      BY <2>10, <2>14 DEF n
    <2> QED BY <2>14, <2>15, <2>18, <2>19 DEF e, MoreInFlight
  <1> QED BY <1>1, <1>2

(* MarkBlockAsInFlight for one block, that another peer may have been      *)
(* asked for.                                                              *)
LEMMA OneInFlight ==
  ASSUME NEW d, DownloadOK(d), NEW p \in DOMAIN d.node, NEW b \in Blocks,
         \/ b \in DOMAIN d.inFlight /\ d.inFlight[b] = p
         \/ d.node[p].nBlocksInFlight < MAX_BLOCKS_IN_TRANSIT_PER_PEER
  PROVE  LET e == MarkBlockAsInFlight(d, p, b)
         IN  /\ DownloadOK(e)
             /\ DOMAIN e.node = DOMAIN d.node
             /\ b \in DOMAIN e.inFlight /\ e.inFlight[b] = p
             /\ \A x \in DOMAIN d.node :
                   e.node[x].pindexLastCommonBlock = d.node[x].pindexLastCommonBlock
  <1>1. CASE b \in DOMAIN d.inFlight /\ d.inFlight[b] = p
    BY <1>1 DEF MarkBlockAsInFlight
  <1>2. CASE ~(b \in DOMAIN d.inFlight /\ d.inFlight[b] = p)
    <2> DEFINE bs == <<b>>
               r == MarkBlockAsReceived(d, b)
               e == MarkBlocksAsInFlight(r, p, bs)
    <2>1. MarkBlockAsInFlight(d, p, b) = e
      BY <1>2 DEF MarkBlockAsInFlight
    <2>2. /\ DownloadOK(r) /\ DOMAIN r.node = DOMAIN d.node /\ b \notin DOMAIN r.inFlight
          /\ \A x \in DOMAIN d.node :
                /\ r.node[x].pindexLastCommonBlock = d.node[x].pindexLastCommonBlock
                /\ r.node[x].nBlocksInFlight <= d.node[x].nBlocksInFlight
      BY Received
    <2> HIDE DEF r
    <2>3. /\ bs \in Seq(Blocks) /\ Len(bs) = 1 /\ IsInjective(bs) /\ Range(bs) = {b}
      BY SMTT(30) DEF IsInjective, Range
    <2>4. r.node[p].nBlocksInFlight + 1 <= MAX_BLOCKS_IN_TRANSIT_PER_PEER
      <3>1. r.node[p].nBlocksInFlight \in Nat /\ d.node[p].nBlocksInFlight \in Nat
        BY <2>2 DEF DownloadOK, Nodes
      <3> QED BY <1>2, <2>2, <3>1, DownloadConstants, SMTT(30)
    <2> HIDE DEF bs
    <2>5. r.node[p].nBlocksInFlight + Len(bs) <= MAX_BLOCKS_IN_TRANSIT_PER_PEER
      BY <2>3, <2>4
    <2>6. MoreInFlight(r, p, bs, e)
      <3>1. Range(bs) \cap DOMAIN r.inFlight = {}
        BY <2>2, <2>3
      <3>2. p \in DOMAIN r.node /\ bs \in Seq(Blocks) /\ IsInjective(bs) /\ DownloadOK(r)
        BY <2>2, <2>3
      <3> QED BY <2>5, <3>1, <3>2, InFlight
    <2> HIDE DEF e
    <2> QED BY <2>1, <2>2, <2>3, <2>6 DEF MoreInFlight
  <1> QED BY <1>1, <1>2

(* The best block a peer is known to have is all that                      *)
(* ProcessBlockAvailability and UpdateBlockAvailability change.            *)
SameDownload(d, e) ==
    /\ DownloadOK(e)
    /\ DOMAIN e.node = DOMAIN d.node
    /\ e.inFlight = d.inFlight
    /\ \A x \in DOMAIN d.node :
          /\ e.node[x].pindexLastCommonBlock = d.node[x].pindexLastCommonBlock
          /\ e.node[x].vBlocksInFlight = d.node[x].vBlocksInFlight
          /\ e.node[x].nBlocksInFlight = d.node[x].nBlocksInFlight

SameNode(n, m) ==
    /\ NodeOK(m)
    /\ m.pindexLastCommonBlock = n.pindexLastCommonBlock
    /\ m.vBlocksInFlight = n.vBlocksInFlight
    /\ m.nBlocksInFlight = n.nBlocksInFlight

LEMMA NodeAvailability ==
  ASSUME NEW n, NodeOK(n), NEW index \in SUBSET Blocks
  PROVE  /\ SameNode(n, ProcessBlockAvailability(n, index))
         /\ \A b \in Blocks : SameNode(n, BetterKnown(n, b))
         /\ \A b \in Blocks : SameNode(n, [n EXCEPT !.hashLastUnknownBlock = b])
  <1>1. ASSUME NEW k \in Nodes, SameNode(n, k), NEW b \in Blocks
        PROVE  SameNode(n, BetterKnown(k, b))
    <2>1. BetterKnown(k, b) \in Nodes
      BY DEF BetterKnown, Nodes
    <2> QED BY <1>1, <2>1 DEF BetterKnown, SameNode, NodeOK, Nodes
  <1>2. ASSUME NEW k \in Nodes, SameNode(n, k), NEW b \in Blocks \cup {None}
        PROVE  SameNode(n, [k EXCEPT !.hashLastUnknownBlock = b])
    <2>1. [k EXCEPT !.hashLastUnknownBlock = b] \in Nodes
      BY DEF Nodes
    <2> QED BY <1>2, <2>1 DEF SameNode, NodeOK, Nodes
  <1>3. n \in Nodes /\ SameNode(n, n)
    BY DEF SameNode, NodeOK
  <1>4. ASSUME n.hashLastUnknownBlock \in index PROVE SameNode(n, ProcessBlockAvailability(n, index))
    <2> DEFINE k == BetterKnown(n, n.hashLastUnknownBlock)
    <2>1. SameNode(n, k) /\ k \in Nodes
      BY <1>1, <1>3, <1>4 DEF SameNode, NodeOK
    <2> HIDE DEF k
    <2>2. SameNode(n, [k EXCEPT !.hashLastUnknownBlock = None])
      BY <1>2, <2>1
    <2> QED BY <1>4, <2>2 DEF ProcessBlockAvailability, k
  <1> QED BY <1>1, <1>2, <1>3, <1>4 DEF ProcessBlockAvailability

LEMMA NodeReplaced ==
  ASSUME NEW d, DownloadOK(d), NEW p \in DOMAIN d.node, NEW m, SameNode(d.node[p], m)
  PROVE  SameDownload(d, [d EXCEPT !.node[p] = m]) /\ [d EXCEPT !.node[p] = m].node[p] = m
  <1> DEFINE e == [d EXCEPT !.node[p] = m]
  <1>1. /\ DownloadOK(e) /\ e.node = [d.node EXCEPT ![p] = m] /\ e.inFlight = d.inFlight
        /\ DOMAIN e.node = DOMAIN d.node
    BY NodeUpdated, SMTT(30) DEF SameNode
  <1> HIDE DEF e
  <1>2. \A x \in DOMAIN d.node : e.node[x] = IF x = p THEN m ELSE d.node[x]
    BY <1>1 DEF DownloadOK
  <1> QED BY <1>1, <1>2 DEF SameDownload, SameNode, e

LEMMA Availability ==
  ASSUME NEW d, DownloadOK(d), NEW p \in DOMAIN d.node, NEW b \in Blocks, NEW index \in SUBSET Blocks
  PROVE  SameDownload(d, UpdateBlockAvailability(d, p, b, index))
  <1> DEFINE n == ProcessBlockAvailability(d.node[p], index)
             m == IF b \in index THEN BetterKnown(n, b) ELSE [n EXCEPT !.hashLastUnknownBlock = b]
  <1>1. SameNode(d.node[p], n)
    BY NodeAvailability DEF DownloadOK
  <1>2. NodeOK(n)
    BY <1>1 DEF SameNode
  <1> HIDE DEF n
  <1>3. SameNode(n, m)
    BY <1>2, NodeAvailability
  <1>4. UpdateBlockAvailability(d, p, b, index) = [d EXCEPT !.node[p] = m]
    BY DEF UpdateBlockAvailability, n
  <1> HIDE DEF m
  <1>5. SameNode(d.node[p], m)
    BY <1>1, <1>3 DEF SameNode
  <1>6. SameDownload(d, [d EXCEPT !.node[p] = m])
    BY <1>5, NodeReplaced
  <1> QED BY <1>4, <1>6

-----------------------------------------------------------------------------
(* The peers and their last common blocks stay. *)
SameCommon(d, e) ==
    /\ DownloadOK(e)
    /\ DOMAIN e.node = DOMAIN d.node
    /\ \A x \in DOMAIN d.node : e.node[x].pindexLastCommonBlock = d.node[x].pindexLastCommonBlock

(* Direct fetch asks for no block twice and for no more than the limit. *)
LEMMA DirectFetched ==
  ASSUME NEW d, DownloadOK(d), NEW p \in DOMAIN d.node, NEW b \in Blocks
  PROVE  SameCommon(d, DirectFetch(d, p, b))
  <1> DEFINE missing == {x \in Branch[b] \ Branch[tip] : x \notin have /\ x \notin DOMAIN d.inFlight}
             room == MAX_BLOCKS_IN_TRANSIT_PER_PEER - d.node[p].nBlocksInFlight
             bs == FromLowest(missing, room)
             e == MarkBlocksAsInFlight(d, p, bs)
  <1>1. DirectFetch(d, p, b) = d \/ DirectFetch(d, p, b) = e
    BY DEF DirectFetch
  <1>2. room \in Nat /\ d.node[p].nBlocksInFlight \in Nat
    BY DownloadConstants, SMTT(30) DEF DownloadOK, NodeOK, Nodes
  <1>3. missing \subseteq Branch[b] /\ missing \cap DOMAIN d.inFlight = {} /\ missing \subseteq Blocks
    BY BranchClosed
  <1> HIDE DEF missing
  <1>4. bs \in Seq(missing) /\ Len(bs) <= room /\ IsInjective(bs)
    <2> HIDE DEF room
    <2> QED BY <1>2, <1>3, FromLowestIs
  <1> HIDE DEF bs
  <1>5. bs \in Seq(Blocks) /\ Range(bs) \subseteq missing /\ Len(bs) \in Nat
    BY <1>3, <1>4, SMTT(30) DEF Range
  <1>6. d.node[p].nBlocksInFlight + Len(bs) <= MAX_BLOCKS_IN_TRANSIT_PER_PEER
    BY <1>2, <1>4, <1>5, DownloadConstants, SMTT(30)
  <1>7. Range(bs) \cap DOMAIN d.inFlight = {}
    BY <1>3, <1>5
  <1>8. MoreInFlight(d, p, bs, e)
    BY <1>4, <1>5, <1>6, <1>7, InFlight
  <1> HIDE DEF e
  <1> QED BY <1>1, <1>8 DEF MoreInFlight, SameCommon

(* The common block of a peer is linked before the walk ... *)
LEMMA CommonStarts ==
  ASSUME NEW n \in Nodes, tip \in Blocks, Linked(tip), n.pindexBestKnownBlock # None,
         n.pindexLastCommonBlock # None => Linked(n.pindexLastCommonBlock)
  PROVE  LastCommonBlock(n) \in Blocks /\ Linked(LastCommonBlock(n))
  <1> DEFINE best == n.pindexBestKnownBlock
             G == {b \in Branch[tip] : nHeight[b] <= nHeight[best]}
             c == IF n.pindexLastCommonBlock = None THEN Highest(G) ELSE n.pindexLastCommonBlock
  <1>1. best \in Blocks /\ n.pindexLastCommonBlock \in Blocks \cup {None}
    BY DEF Nodes
  <1> HIDE DEF best
  <1>2. Highest(G) \in Branch[tip]
    <2>1. G \subseteq Blocks /\ Genesis \in G
      BY <1>1, TreeIsFinite, GenesisInBranch, BranchClosed, BranchLower
    <2>2. Highest(G) \in G
      <3> HIDE DEF G
      <3> QED BY <2>1, TreeIsFinite, HighestIs
    <2> QED BY <2>2
  <1>3. Highest(G) \in Blocks /\ Linked(Highest(G))
    <2> HIDE DEF G
    <2> QED BY <1>2, BranchTransitive DEF Linked
  <1>4. c \in Blocks /\ Linked(c)
    <2> HIDE DEF G
    <2> QED BY <1>1, <1>3
  <1>5. LastCommonBlock(n) = LastCommonAncestor(c, best)
    BY DEF LastCommonBlock, best
  <1> HIDE DEF c
  <1>6. LastCommonBlock(n) \in Branch[c]
    BY <1>1, <1>4, <1>5, TreeIsFinite, LastCommonAncestorIs
  <1> QED BY <1>4, <1>6, BranchTransitive DEF Linked

(* ... and after it. *)
LEMMA CommonAdvances ==
  ASSUME NEW common \in Blocks, Linked(common), NEW path \in SUBSET Blocks
  PROVE  NextCommon(common, path) \in Blocks /\ Linked(NextCommon(common, path))
  <1> DEFINE S == {common} \cup {b \in path : Linked(b)}
  <1>1. S \subseteq Blocks /\ S # {} /\ \A b \in S : Linked(b)
    OBVIOUS
  <1>2. NextCommon(common, path) = Highest(S)
    BY DEF NextCommon
  <1> HIDE DEF S
  <1> QED BY <1>1, <1>2, TreeIsFinite, HighestIs

(* What FindNextBlocksToDownload finds. *)
LEMMA Found ==
  ASSUME NEW d, DownloadOK(d), CommonWithin(d, have), tip \in Blocks, Linked(tip),
         NEW p \in DOMAIN d.node, d.node[p].pindexBestKnownBlock # None, NEW count \in Nat
  PROVE  LET w == FindNextBlocksToDownload(d, p, count)
         IN  /\ w.common \in Blocks /\ Linked(w.common)
             /\ w.blocks \in Seq(Blocks) /\ IsInjective(w.blocks) /\ Len(w.blocks) <= count
             /\ Range(w.blocks) \cap DOMAIN d.inFlight = {}
             /\ w.staller # None => \E b \in DOMAIN d.inFlight : d.inFlight[b] = w.staller
  <1> DEFINE n == d.node[p]
             common == LastCommonBlock(n)
             nWindowEnd == nHeight[common] + BLOCK_DOWNLOAD_WINDOW
             path == {b \in Branch[n.pindexBestKnownBlock] \ Branch[common] : nHeight[b] <= nWindowEnd + 1}
             missing == path \ (have \cup DOMAIN d.inFlight)
             within == {b \in missing : nHeight[b] <= nWindowEnd}
             waiting == (path \ have) \cap DOMAIN d.inFlight
             waitingfor == d.inFlight[Lowest(waiting)]
             w == FindNextBlocksToDownload(d, p, count)
  <1>1. w = [common |-> NextCommon(common, path),
             blocks |-> FromLowest(within, count),
             staller |-> IF within = {} /\ missing # {} /\ waiting # {} /\ waitingfor # p
                         THEN waitingfor ELSE None]
    BY DEF FindNextBlocksToDownload
  <1>2. n \in Nodes /\ n.pindexBestKnownBlock \in Blocks
    BY DEF DownloadOK, Nodes
  <1>3. n.pindexLastCommonBlock # None => Linked(n.pindexLastCommonBlock)
    BY DEF CommonWithin, Linked
  <1>4. common \in Blocks /\ Linked(common)
    <2> HIDE DEF n
    <2> QED BY <1>2, <1>3, CommonStarts DEF n
  <1> HIDE DEF common
  <1>5. path \subseteq Branch[n.pindexBestKnownBlock] /\ path \subseteq Blocks
    BY <1>2, BranchClosed
  <1> HIDE DEF path
  <1>6. /\ within \subseteq Branch[n.pindexBestKnownBlock] /\ within \subseteq Blocks
        /\ within \cap DOMAIN d.inFlight = {}
    BY <1>5
  <1>7. w.common = NextCommon(common, path) /\ w.blocks = FromLowest(within, count)
    <2> HIDE DEF within, missing, waiting, waitingfor, w
    <2> QED BY <1>1
  <1>8. w.common \in Blocks /\ Linked(w.common)
    <2> HIDE DEF w
    <2> QED BY <1>4, <1>5, <1>7, CommonAdvances
  <1>9. w.blocks \in Seq(within) /\ IsInjective(w.blocks) /\ Len(w.blocks) <= count
    <2> HIDE DEF w, within, n
    <2> QED BY <1>2, <1>6, <1>7, FromLowestIs
  <1>10. w.blocks \in Seq(Blocks) /\ Range(w.blocks) \cap DOMAIN d.inFlight = {}
    <2> HIDE DEF w, within
    <2> QED BY <1>6, <1>9, SMTT(30) DEF Range
  <1>11. ASSUME w.staller # None PROVE \E b \in DOMAIN d.inFlight : d.inFlight[b] = w.staller
    <2>1. waiting # {} /\ w.staller = waitingfor
      <3> HIDE DEF within, missing, waiting, waitingfor, w
      <3> QED BY <1>1, <1>11
    <2>2. waiting \subseteq Blocks /\ waiting \subseteq DOMAIN d.inFlight
      BY <1>5
    <2>3. Lowest(waiting) \in DOMAIN d.inFlight
      <3> HIDE DEF waiting
      <3> QED BY <2>1, <2>2, TreeIsFinite, LowestIs
    <2> QED BY <2>1, <2>3
  <1> QED BY <1>8, <1>9, <1>10, <1>11

(* A new common block that is linked. *)
LEMMA CommonReplaced ==
  ASSUME NEW d, DownloadOK(d), CommonWithin(d, have), NEW p \in DOMAIN d.node,
         NEW c \in Blocks, Linked(c)
  PROVE  LET e == [d EXCEPT !.node[p].pindexLastCommonBlock = c]
         IN  /\ DownloadOK(e) /\ CommonWithin(e, have)
             /\ DOMAIN e.node = DOMAIN d.node /\ e.inFlight = d.inFlight
             /\ e.node[p].nBlocksInFlight = d.node[p].nBlocksInFlight
  <1> DEFINE n == d.node[p]
             m == [n EXCEPT !.pindexLastCommonBlock = c]
             e == [d EXCEPT !.node[p] = m]
  <1>1. NodeOK(n) /\ n \in Nodes
    BY DEF DownloadOK, NodeOK
  <1> HIDE DEF n
  <1>2. m \in Nodes
    BY <1>1 DEF Nodes
  <1>3. NodeOK(m) /\ m.vBlocksInFlight = n.vBlocksInFlight /\ m.pindexLastCommonBlock = c
        /\ m.nBlocksInFlight = n.nBlocksInFlight
    BY <1>1, <1>2 DEF NodeOK, Nodes
  <1> HIDE DEF m
  <1>4. /\ DownloadOK(e) /\ e.node = [d.node EXCEPT ![p] = m] /\ e.inFlight = d.inFlight
        /\ DOMAIN e.node = DOMAIN d.node
    BY <1>3, NodeUpdated, SMTT(30) DEF n
  <1>5. [d EXCEPT !.node[p].pindexLastCommonBlock = c] = e
    BY DEF m, n
  <1> HIDE DEF e
  <1>6. \A x \in DOMAIN d.node : e.node[x] = IF x = p THEN m ELSE d.node[x]
    BY <1>4 DEF DownloadOK
  <1>7. CommonWithin(e, have)
    BY <1>3, <1>4, <1>6 DEF CommonWithin, Linked
  <1>8. e.node[p].nBlocksInFlight = d.node[p].nBlocksInFlight
    BY <1>3, <1>6 DEF n
  <1> QED BY <1>4, <1>5, <1>7, <1>8

(* A peer that owes a block may be marked as stalling. *)
LEMMA StallMarked ==
  ASSUME NEW d, DownloadOK(d), NEW b \in DOMAIN d.inFlight
  PROVE  LET e == [d EXCEPT !.node[d.inFlight[b]].stalling = "since"]
         IN  SameCommon(d, e)
  <1> DEFINE p == d.inFlight[b]
             n == d.node[p]
             m == [n EXCEPT !.stalling = "since"]
             e == [d EXCEPT !.node[p] = m]
  <1>1. p \in DOMAIN d.node
    BY DEF DownloadOK
  <1>2. NodeOK(n) /\ b \in Range(n.vBlocksInFlight)
    BY <1>1 DEF DownloadOK
  <1>3. n \in Nodes /\ n.vBlocksInFlight \in Seq(Blocks)
    BY <1>2 DEF NodeOK, Nodes
  <1>4. n.vBlocksInFlight # <<>>
    <2> HIDE DEF n
    <2> QED BY <1>2, SMTT(30) DEF Range
  <1> HIDE DEF n
  <1>5. m \in Nodes
    BY <1>3 DEF Nodes
  <1>6. /\ NodeOK(m) /\ m.vBlocksInFlight = n.vBlocksInFlight
        /\ m.pindexLastCommonBlock = n.pindexLastCommonBlock
    BY <1>2, <1>3, <1>4, <1>5 DEF NodeOK, Nodes
  <1> HIDE DEF m, p
  <1>7. /\ DownloadOK(e) /\ e.node = [d.node EXCEPT ![p] = m] /\ DOMAIN e.node = DOMAIN d.node
    BY <1>1, <1>6, NodeUpdated, SMTT(30) DEF n
  <1>8. [d EXCEPT !.node[d.inFlight[b]].stalling = "since"] = e
    BY DEF m, n, p
  <1> HIDE DEF e
  <1>9. \A x \in DOMAIN d.node : e.node[x] = IF x = p THEN m ELSE d.node[x]
    BY <1>7 DEF DownloadOK
  <1>10. SameCommon(d, e)
    BY <1>6, <1>7, <1>9 DEF SameCommon, n
  <1> QED BY <1>8, <1>10

LEMMA CommonStays ==
  ASSUME NEW d, NEW e, NEW S, CommonWithin(d, S), SameCommon(d, e)
  PROVE  CommonWithin(e, S)
  BY DEF CommonWithin, SameCommon

(* SendMessages asks for blocks. *)
LEMMA Fetched ==
  ASSUME NEW d, DownloadOK(d), CommonWithin(d, have), tip \in Blocks, Linked(tip), NEW p \in DOMAIN d.node
  PROVE  LET e == Fetch(d, p)
         IN  DownloadOK(e) /\ CommonWithin(e, have) /\ DOMAIN e.node = DOMAIN d.node
  <1> DEFINE n == d.node[p]
             room == MAX_BLOCKS_IN_TRANSIT_PER_PEER - n.nBlocksInFlight
             w == FindNextBlocksToDownload(d, p, room)
             c == [d EXCEPT !.node[p].pindexLastCommonBlock = w.common]
             e == MarkBlocksAsInFlight(c, p, w.blocks)
             s == [e EXCEPT !.node[w.staller].stalling = "since"]
  <1>1. CASE n.nBlocksInFlight >= MAX_BLOCKS_IN_TRANSIT_PER_PEER \/ ~Interesting(n)
    <2>1. Fetch(d, p) = d
      BY <1>1 DEF Fetch
    <2> QED BY <2>1
  <1>2. CASE ~(n.nBlocksInFlight >= MAX_BLOCKS_IN_TRANSIT_PER_PEER \/ ~Interesting(n))
    <2>1. /\ Fetch(d, p) = e \/ (w.staller # None /\ Fetch(d, p) = s)
      BY <1>2 DEF Fetch
    <2>2. room \in Nat /\ n.nBlocksInFlight \in Nat /\ n.pindexBestKnownBlock # None
      BY <1>2, DownloadConstants, SMTT(30) DEF DownloadOK, Nodes, Interesting
    <2> HIDE DEF room
    <2>3. /\ w.common \in Blocks /\ Linked(w.common)
          /\ w.blocks \in Seq(Blocks) /\ IsInjective(w.blocks) /\ Len(w.blocks) <= room
          /\ Range(w.blocks) \cap DOMAIN d.inFlight = {}
          /\ w.staller # None => \E b \in DOMAIN d.inFlight : d.inFlight[b] = w.staller
      BY <2>2, Found
    <2> HIDE DEF w
    <2>4. /\ DownloadOK(c) /\ CommonWithin(c, have) /\ DOMAIN c.node = DOMAIN d.node
          /\ c.inFlight = d.inFlight /\ c.node[p].nBlocksInFlight = n.nBlocksInFlight
      BY <2>3, CommonReplaced
    <2> HIDE DEF c
    <2>5. c.node[p].nBlocksInFlight + Len(w.blocks) <= MAX_BLOCKS_IN_TRANSIT_PER_PEER
      <3>1. Len(w.blocks) \in Nat
        BY <2>3, SMTT(30)
      <3> QED BY <2>2, <2>3, <2>4, <3>1, DownloadConstants, SMTT(30) DEF room
    <2>6. MoreInFlight(c, p, w.blocks, e)
      BY <2>3, <2>4, <2>5, InFlight
    <2> HIDE DEF e
    <2>7. SameCommon(c, e) /\ DownloadOK(e) /\ CommonWithin(e, have) /\ DOMAIN e.node = DOMAIN d.node
      BY <2>4, <2>6, CommonStays DEF MoreInFlight, SameCommon
    <2>8. ASSUME w.staller # None
          PROVE  DownloadOK(s) /\ CommonWithin(s, have) /\ DOMAIN s.node = DOMAIN d.node
      <3>1. PICK b \in DOMAIN d.inFlight : d.inFlight[b] = w.staller
        BY <2>3, <2>8
      <3>2. b \in DOMAIN e.inFlight /\ e.inFlight[b] = w.staller
        BY <2>3, <2>4, <2>6, <3>1 DEF MoreInFlight
      <3>3. SameCommon(e, s)
        BY <2>7, <3>2, StallMarked
      <3> HIDE DEF s
      <3> QED BY <2>7, <3>3, CommonStays DEF SameCommon
    <2> HIDE DEF s
    <2> QED BY <2>1, <2>7, <2>8
  <1> QED BY <1>1, <1>2

(* SendMessages. *)
LEMMA SentIs ==
  ASSUME DownloadInv, NEW p \in Served
  PROVE  /\ DownloadOK(Sent(p)[1]) /\ CommonWithin(Sent(p)[1], have)
         /\ DOMAIN Sent(p)[1].node = Connected
         /\ Sent(p)[2] \in {closing, closing \cup {p}}
  <1> DEFINE n == ProcessBlockAvailability(dl.node[p], mapBlockIndex)
             d == [dl EXCEPT !.node[p] = n]
  <1>1. p \in DOMAIN dl.node /\ DownloadOK(dl) /\ mapBlockIndex \subseteq Blocks
    BY DEF Served, Connected, DownloadInv
  <1>2. SameNode(dl.node[p], n)
    BY <1>1, NodeAvailability DEF DownloadOK
  <1>3. Sent(p) = <<d, closing \cup {p}>> \/ Sent(p) = <<Fetch(d, p), closing>>
    BY DEF Sent
  <1> HIDE DEF n
  <1>4. SameDownload(dl, d)
    BY <1>1, <1>2, NodeReplaced
  <1> HIDE DEF d
  <1>5. SameCommon(dl, d)
    BY <1>4 DEF SameDownload, SameCommon
  <1>6. DownloadOK(d) /\ CommonWithin(d, have) /\ DOMAIN d.node = Connected
    BY <1>5, CommonStays DEF DownloadInv, SameCommon, Connected
  <1>7. /\ DownloadOK(Fetch(d, p)) /\ CommonWithin(Fetch(d, p), have)
        /\ DOMAIN Fetch(d, p).node = Connected
    BY <1>1, <1>6, Fetched DEF DownloadInv, Connected
  <1> QED BY <1>3, <1>6, <1>7, SMTT(30)

(* A new block: what is stored grows, and the tip is linked. *)
LEMMA NewBlock ==
  ASSUME DownloadInv, NEW b \in Blocks, NEW fRequested, ProcessNewBlock(b, fRequested)
  PROVE  /\ have \subseteq have' /\ have' \subseteq mapBlockIndex' /\ mapBlockIndex' \subseteq Blocks
         /\ tip' \in Blocks /\ Branch[tip'] \subseteq have'
  <1> DEFINE best == Highest(BestLinked(have'))
  <1>1. /\ mapBlockIndex' = mapBlockIndex \cup {b} /\ have' \in {have, have \cup {b}}
        /\ tip' \in {best, tip}
    BY DEF ProcessNewBlock
  <1>2. tip \in Blocks /\ Branch[tip] \subseteq have'
    BY <1>1 DEF DownloadInv, Linked
  <1>3. best \in BestLinked(have')
    BY <1>2, TreeIsFinite, HighestIs DEF BestLinked
  <1> HIDE DEF best
  <1>4. best \in Blocks /\ Branch[best] \subseteq have'
    BY <1>3 DEF BestLinked
  <1> QED BY <1>1, <1>2, <1>4 DEF DownloadInv

-----------------------------------------------------------------------------
(* A step that keeps the peers and their common blocks ... *)
LEMMA KeepsInv ==
  ASSUME DownloadInv, SameCommon(dl, dl'), closing' \subseteq Connected,
         have \subseteq have', have' \subseteq mapBlockIndex', mapBlockIndex' \subseteq Blocks,
         tip' \in Blocks, Branch[tip'] \subseteq have'
  PROVE  DownloadInv'
  <1>1. DownloadOK(dl') /\ DOMAIN dl'.node = DOMAIN dl.node
    BY DEF SameCommon
  <1>2. CommonWithin(dl', have')
    BY DEF SameCommon, CommonWithin, DownloadInv
  <1> QED BY <1>1, <1>2 DEF DownloadInv, Linked, Connected

(* ... and, of those, one that leaves the blocks alone. *)
LEMMA KeepsChain ==
  ASSUME DownloadInv, SameCommon(dl, dl'), closing' \subseteq Connected, UNCHANGED <<have, tip>>,
         mapBlockIndex \subseteq mapBlockIndex', mapBlockIndex' \subseteq Blocks
  PROVE  DownloadInv'
  BY KeepsInv DEF DownloadInv, Linked

LEMMA SameIsCommon ==
  ASSUME NEW d, NEW e, SameDownload(d, e)
  PROVE  SameCommon(d, e)
  BY DEF SameDownload, SameCommon

LEMMA CommonTransitive ==
  ASSUME NEW d, NEW e, NEW f, SameCommon(d, e), SameCommon(e, f)
  PROVE  SameCommon(d, f)
  BY DEF SameCommon

LEMMA ReceivedCommon ==
  ASSUME NEW d, DownloadOK(d), NEW b \in Blocks
  PROVE  SameCommon(d, MarkBlockAsReceived(d, b))
  BY Received DEF SameCommon

(* A peer's vBlocksInFlight has the blocks that mapBlocksInFlight says it  *)
(* was asked for.                                                          *)
LEMMA QueueIs ==
  ASSUME NEW d, DownloadOK(d), NEW p \in DOMAIN d.node
  PROVE  Range(d.node[p].vBlocksInFlight) = {b \in DOMAIN d.inFlight : d.inFlight[b] = p}
  BY DEF DownloadOK

(* Marking a block as in flight moves no last common block.                *)
LEMMA OneCommon ==
  ASSUME NEW d, DownloadOK(d), NEW p \in DOMAIN d.node, NEW b \in Blocks,
         \/ b \in DOMAIN d.inFlight /\ d.inFlight[b] = p
         \/ d.node[p].nBlocksInFlight < MAX_BLOCKS_IN_TRANSIT_PER_PEER
  PROVE  /\ SameCommon(d, MarkBlockAsInFlight(d, p, b))
         /\ b \in Range(MarkBlockAsInFlight(d, p, b).node[p].vBlocksInFlight)
  <1> DEFINE e == MarkBlockAsInFlight(d, p, b)
  <1>1. /\ DownloadOK(e) /\ DOMAIN e.node = DOMAIN d.node /\ b \in DOMAIN e.inFlight /\ e.inFlight[b] = p
        /\ \A x \in DOMAIN d.node : e.node[x].pindexLastCommonBlock = d.node[x].pindexLastCommonBlock
    BY OneInFlight, SMTT(30)
  <1> HIDE DEF e
  <1>2. Range(e.node[p].vBlocksInFlight) = {x \in DOMAIN e.inFlight : e.inFlight[x] = p}
    <2>1. DownloadOK(e) /\ p \in DOMAIN e.node
      BY <1>1
    <2> QED BY <2>1, QueueIs
  <1> QED BY <1>1, <1>2 DEF SameCommon, e

(* An inv message. *)
LEMMA InvStep ==
  ASSUME DownloadInv, NEW p \in Served, NEW b \in Blocks, Inv(p, b)
  PROVE  DownloadInv'
  <1>1. p \in DOMAIN dl.node /\ DownloadOK(dl) /\ mapBlockIndex \subseteq Blocks /\ closing \subseteq Connected
    BY DEF Served, Connected, DownloadInv
  <1>2. SameCommon(dl, dl')
    BY <1>1, Availability, SameIsCommon DEF Inv
  <1> QED BY <1>1, <1>2, KeepsChain DEF Inv

(* A headers message. *)
LEMMA HeadersStep ==
  ASSUME DownloadInv, NEW p \in Served, NEW first \in Blocks, NEW b \in Blocks, Headers(p, first, b)
  PROVE  DownloadInv'
  <1>1. p \in DOMAIN dl.node /\ DownloadOK(dl) /\ mapBlockIndex \subseteq Blocks /\ closing \subseteq Connected
    BY DEF Served, Connected, DownloadInv
  <1>2. mapBlockIndex \subseteq mapBlockIndex' /\ mapBlockIndex' \subseteq Blocks
    BY <1>1, BranchClosed DEF Headers
  <1>3. UNCHANGED <<have, tip, closing>>
    BY DEF Headers
  <1>4. CASE Parent[first] \notin mapBlockIndex
    <2>1. dl' = UpdateBlockAvailability(dl, p, b, mapBlockIndex)
      BY <1>4 DEF Headers
    <2>2. SameCommon(dl, dl')
      BY <1>1, <2>1, Availability, SameIsCommon
    <2> QED BY <1>1, <1>2, <1>3, <2>2, KeepsChain
  <1>5. CASE Parent[first] \in mapBlockIndex
    <2> DEFINE d == UpdateBlockAvailability(dl, p, b, mapBlockIndex')
    <2>1. dl' = d \/ dl' = DirectFetch(d, p, b)
      BY <1>5 DEF Headers
    <2>2. SameCommon(dl, d)
      BY <1>1, <1>2, Availability, SameIsCommon
    <2> HIDE DEF d
    <2>3. SameCommon(d, DirectFetch(d, p, b))
      BY <1>1, <2>2, DirectFetched DEF SameCommon
    <2>4. SameCommon(dl, dl')
      BY <2>1, <2>2, <2>3, CommonTransitive, SMTT(30)
    <2> QED BY <1>1, <1>2, <1>3, <2>4, KeepsChain
  <1> QED BY <1>4, <1>5

(* A block is stored, or the peer is to be disconnected. *)
LEMMA BlockArrives ==
  ASSUME DownloadInv, NEW p \in Served, NEW b \in Blocks, NEW fRequested, SameCommon(dl, dl'),
         \/ ProcessNewBlock(b, fRequested) /\ UNCHANGED closing
         \/ Misbehaving(p) /\ UNCHANGED chain
  PROVE  DownloadInv'
  <1>1. closing \subseteq Connected /\ p \in Connected /\ mapBlockIndex \subseteq Blocks
    BY DEF DownloadInv, Served
  <1>2. CASE ProcessNewBlock(b, fRequested) /\ UNCHANGED closing
    BY <1>1, <1>2, NewBlock, KeepsInv
  <1>3. CASE Misbehaving(p) /\ UNCHANGED chain
    BY <1>1, <1>3, KeepsChain DEF Misbehaving, chain
  <1> QED BY <1>2, <1>3

LEMMA BlockStep ==
  ASSUME DownloadInv, NEW p \in Served, NEW b \in Blocks, Block(p, b) \/ BlockTxn(p, b)
  PROVE  DownloadInv'
  <1>1. DownloadOK(dl)
    BY DEF DownloadInv
  <1>2. SameCommon(dl, dl')
    BY <1>1, ReceivedCommon DEF Block, BlockTxn
  <1>3. CASE Block(p, b)
    BY <1>2, <1>3, BlockArrives DEF Block
  <1>4. CASE BlockTxn(p, b)
    BY <1>2, <1>4, BlockArrives DEF BlockTxn
  <1> QED BY <1>3, <1>4

(* A compact block whose transactions are missing is kept with the block   *)
(* asked for.                                                              *)
LEMMA PartialKept ==
  ASSUME NEW d, DownloadOK(d), NEW p \in DOMAIN d.node, NEW b \in Range(d.node[p].vBlocksInFlight)
  PROVE  SameCommon(d, [d EXCEPT !.node[p].partial = @ \cup {b}])
  <1> DEFINE n == d.node[p]
             m == [n EXCEPT !.partial = @ \cup {b}]
             e == [d EXCEPT !.node[p] = m]
  <1>1. NodeOK(n) /\ n \in Nodes
    BY DEF DownloadOK, NodeOK
  <1> HIDE DEF n
  <1>2. b \in Blocks
    BY <1>1, SMTT(30) DEF Nodes, Range, n
  <1>3. m \in Nodes
    BY <1>1, <1>2 DEF Nodes
  <1>4. /\ NodeOK(m) /\ m.vBlocksInFlight = n.vBlocksInFlight
        /\ m.pindexLastCommonBlock = n.pindexLastCommonBlock /\ m.nBlocksInFlight = n.nBlocksInFlight
    <2>1. b \in Range(n.vBlocksInFlight)
      BY DEF n
    <2> QED BY <1>1, <1>3, <2>1 DEF NodeOK, Nodes
  <1> HIDE DEF m
  <1>5. SameNode(d.node[p], m)
    BY <1>4 DEF SameNode, n
  <1>6. SameCommon(d, e)
    BY <1>5, NodeReplaced, SameIsCommon
  <1>7. [d EXCEPT !.node[p].partial = @ \cup {b}] = e
    BY DEF m, n
  <1> QED BY <1>6, <1>7

(* A compact block. *)
LEMMA CmpctBlockStep ==
  ASSUME DownloadInv, NEW p \in Served, NEW b \in Blocks, CmpctBlock(p, b)
  PROVE  DownloadInv'
  <1> DEFINE index == mapBlockIndex \cup {b}
             d == UpdateBlockAvailability(dl, p, b, index)
             asked == MarkBlockAsInFlight(d, p, b)
             mayAsk == IF b \in DOMAIN d.inFlight THEN d.inFlight[b] = p
                       ELSE d.node[p].nBlocksInFlight < MAX_BLOCKS_IN_TRANSIT_PER_PEER
             most == IF mayAsk THEN asked ELSE d
  <1>1. /\ p \in DOMAIN dl.node /\ DownloadOK(dl) /\ index \subseteq Blocks /\ closing \subseteq Connected
        /\ p \in Connected
    BY DEF Served, Connected, DownloadInv
  <1>2. \/ dl' = d /\ mapBlockIndex' = index /\ UNCHANGED <<have, tip, closing>>
        \/ dl' = DirectFetch(d, p, b) /\ mapBlockIndex' = index /\ UNCHANGED <<have, tip, closing>>
        \/ /\ mayAsk /\ dl' = [asked EXCEPT !.node[p].partial = @ \cup {b}]
           /\ mapBlockIndex' = index /\ UNCHANGED <<have, tip, closing>>
        \/ /\ mayAsk /\ dl' = MarkBlockAsReceived(asked, b)
           /\ mapBlockIndex' = index /\ Misbehaving(p) /\ UNCHANGED <<have, tip>>
        \/ dl' = MarkBlockAsReceived(most, b) /\ ProcessNewBlock(b, TRUE) /\ UNCHANGED closing
    BY DEF CmpctBlock
  <1>3. SameCommon(dl, d)
    BY <1>1, Availability, SameIsCommon
  <1> HIDE DEF d, index
  <1>4. DownloadOK(d) /\ p \in DOMAIN d.node
    BY <1>1, <1>3 DEF SameCommon
  <1>5. ASSUME mayAsk
        PROVE  /\ SameCommon(d, asked) /\ b \in Range(asked.node[p].vBlocksInFlight)
               /\ DownloadOK(asked) /\ p \in DOMAIN asked.node
    BY <1>4, <1>5, OneCommon DEF SameCommon
  <1> HIDE DEF mayAsk, asked
  <1>6. CASE dl' = d /\ mapBlockIndex' = index /\ UNCHANGED <<have, tip, closing>>
    <2>1. SameCommon(dl, dl')
      BY <1>3, <1>6
    <2> QED BY <1>1, <1>6, <2>1, KeepsChain DEF index
  <1>7. CASE dl' = DirectFetch(d, p, b) /\ mapBlockIndex' = index /\ UNCHANGED <<have, tip, closing>>
    <2>1. SameCommon(d, dl')
      BY <1>4, <1>7, DirectFetched
    <2>2. SameCommon(dl, dl')
      BY <1>3, <2>1, CommonTransitive
    <2> QED BY <1>1, <1>7, <2>2, KeepsChain DEF index
  <1>8. CASE /\ mayAsk /\ dl' = [asked EXCEPT !.node[p].partial = @ \cup {b}]
             /\ mapBlockIndex' = index /\ UNCHANGED <<have, tip, closing>>
    <2>1. SameCommon(asked, [asked EXCEPT !.node[p].partial = @ \cup {b}])
      BY <1>5, <1>8, PartialKept
    <2>2. SameCommon(asked, dl')
      BY <1>8, <2>1
    <2>3. SameCommon(dl, dl')
      BY <1>3, <1>5, <1>8, <2>2, CommonTransitive
    <2> QED BY <1>1, <1>8, <2>3, KeepsChain DEF index
  <1>9. CASE /\ mayAsk /\ dl' = MarkBlockAsReceived(asked, b)
             /\ mapBlockIndex' = index /\ Misbehaving(p) /\ UNCHANGED <<have, tip>>
    <2>1. SameCommon(asked, dl')
      BY <1>5, <1>9, ReceivedCommon
    <2>2. SameCommon(dl, dl')
      BY <1>3, <1>5, <1>9, <2>1, CommonTransitive
    <2> QED BY <1>1, <1>9, <2>2, KeepsChain DEF index, Misbehaving
  <1>10. CASE dl' = MarkBlockAsReceived(most, b) /\ ProcessNewBlock(b, TRUE) /\ UNCHANGED closing
    <2>1. SameCommon(d, most) /\ DownloadOK(most)
      BY <1>4, <1>5 DEF SameCommon
    <2> HIDE DEF most
    <2>2. SameCommon(most, dl')
      BY <1>10, <2>1, ReceivedCommon
    <2>3. SameCommon(dl, dl')
      BY <1>3, <2>1, <2>2, CommonTransitive
    <2> QED BY <1>10, <2>3, BlockArrives
  <1> QED BY <1>2, <1>6, <1>7, <1>8, <1>9, <1>10

(* Time passes. *)
LEMMA TickStep ==
  ASSUME DownloadInv, NEW p \in Served, Tick(p)
  PROVE  DownloadInv'
  <1> DEFINE n == dl.node[p]
             m == [n EXCEPT !.late = n.vBlocksInFlight # <<>>,
                            !.stalling = IF @ = "since" THEN "over" ELSE @]
             e == [dl EXCEPT !.node[p] = m]
  <1>1. /\ p \in DOMAIN dl.node /\ DownloadOK(dl) /\ mapBlockIndex \subseteq Blocks
        /\ closing \subseteq Connected
    BY DEF Served, Connected, DownloadInv
  <1>2. NodeOK(n) /\ n \in Nodes
    BY <1>1 DEF DownloadOK, NodeOK
  <1>3. dl' = e
    <2>1. dl = [node |-> dl.node, inFlight |-> dl.inFlight, peers |-> dl.peers]
          /\ dl.node \in [DOMAIN dl.node -> Nodes]
      BY <1>1 DEF DownloadOK
    <2>2. dl' = [dl EXCEPT !.node[p].late = dl.node[p].vBlocksInFlight # <<>>,
                           !.node[p].stalling = IF @ = "since" THEN "over" ELSE @]
      BY DEF Tick
    <2> QED BY <1>1, <1>2, <2>1, <2>2 DEF Nodes
  <1> HIDE DEF n
  <1>4. m \in Nodes
    <2>1. (n.vBlocksInFlight # <<>>) \in BOOLEAN
      OBVIOUS
    <2>2. (IF n.stalling = "since" THEN "over" ELSE n.stalling) \in {"no", "since", "over"}
      BY <1>2 DEF Nodes
    <2> QED BY <1>2, <2>1, <2>2 DEF Nodes
  <1>5. /\ m.vBlocksInFlight = n.vBlocksInFlight /\ m.nBlocksInFlight = n.nBlocksInFlight
        /\ m.partial = n.partial /\ m.pindexLastCommonBlock = n.pindexLastCommonBlock
        /\ m.stalling = IF n.stalling = "since" THEN "over" ELSE n.stalling
    BY <1>2 DEF Nodes
  <1> HIDE DEF m
  <1>6. NodeOK(m)
    BY <1>2, <1>4, <1>5 DEF NodeOK
  <1>7. SameNode(dl.node[p], m)
    BY <1>5, <1>6 DEF SameNode, n
  <1>8. SameCommon(dl, e)
    BY <1>1, <1>7, NodeReplaced, SameIsCommon
  <1>9. SameCommon(dl, dl')
    BY <1>3, <1>8
  <1> QED BY <1>1, <1>9, KeepsChain DEF Tick

(* The node's own block, and a socket that closes. *)
LEMMA OwnStep ==
  ASSUME DownloadInv,
         \/ \E b \in Blocks : SubmitBlock(b)
         \/ \E p \in Served : CloseSocket(p)
  PROVE  DownloadInv'
  <1>1. CASE \E b \in Blocks : SubmitBlock(b)
    <2>1. PICK b \in Blocks : SubmitBlock(b)
      BY <1>1
    <2>2. SameCommon(dl, dl')
      BY <2>1 DEF SubmitBlock, SameCommon, DownloadInv
    <2> QED BY <2>1, <2>2, NewBlock, KeepsInv DEF SubmitBlock, DownloadInv
  <1>2. CASE \E p \in Served : CloseSocket(p)
    <2>1. PICK p \in Served : CloseSocket(p)
      BY <1>2
    <2>2. SameCommon(dl, dl')
      BY <2>1 DEF CloseSocket, SameCommon, DownloadInv
    <2> QED BY <2>1, <2>2, KeepsChain DEF CloseSocket, DownloadInv, Served
  <1> QED BY <1>1, <1>2

(* The end of a connection. *)
LEMMA FinalizeStep ==
  ASSUME DownloadInv, NEW p \in closing, FinalizeNode(p)
  PROVE  DownloadInv'
  <1> DEFINE n == dl.node[p]
             N == Restrict(dl.node, Connected \ {p})
             F == Restrict(dl.inFlight, DOMAIN dl.inFlight \ Range(n.vBlocksInFlight))
             m == IF n.nBlocksInFlight # 0 THEN dl.peers - 1 ELSE dl.peers
  <1>1. /\ p \in Connected /\ DownloadOK(dl) /\ dl.node \in [Connected -> Nodes] /\ Connected \subseteq Peers
        /\ dl.inFlight \in [DOMAIN dl.inFlight -> Connected] /\ DOMAIN dl.inFlight \subseteq Blocks
        /\ dl.peers = Cardinality(Busy(dl.node))
    BY DEF DownloadInv, DownloadOK, Connected
  <1>2. dl' = [node |-> N, inFlight |-> F, peers |-> m]
    BY DEF FinalizeNode
  <1>3. /\ DOMAIN N = Connected \ {p} /\ N \in [Connected \ {p} -> Nodes]
        /\ \A x \in Connected \ {p} : N[x] = dl.node[x]
    BY <1>1 DEF Restrict
  <1>4. /\ NodeOK(n) /\ n \in Nodes
        /\ Range(n.vBlocksInFlight) = {b \in DOMAIN dl.inFlight : dl.inFlight[b] = p}
    BY <1>1 DEF DownloadOK, NodeOK, Connected
  <1>5. /\ DOMAIN F = {b \in DOMAIN dl.inFlight : dl.inFlight[b] # p}
        /\ \A b \in DOMAIN F : F[b] = dl.inFlight[b]
        /\ F \in [DOMAIN F -> Connected \ {p}]
    BY <1>1, <1>4 DEF Restrict
  <1>6. m = Cardinality(Busy(N))
    <2>1. Busy(N) = Busy(dl.node) \ {p}
      BY <1>3 DEF Busy, Connected
    <2>2. p \in Busy(dl.node) <=> n.nBlocksInFlight # 0
      <3>1. p \in Busy(dl.node) <=> n.vBlocksInFlight # <<>>
        BY <1>1 DEF Busy, Connected
      <3>2. n.nBlocksInFlight = Len(n.vBlocksInFlight) /\ n.vBlocksInFlight \in Seq(Blocks)
        BY <1>4 DEF NodeOK, Nodes
      <3> QED BY <3>1, <3>2, EmptyIs
    <2>3. IsFiniteSet(Busy(dl.node))
      <3>1. Busy(dl.node) \subseteq Peers
        BY <1>1 DEF Busy, Connected
      <3> QED BY <3>1, DownloadConstants, FS_Subset
    <2> HIDE DEF N, n
    <2>4. CASE p \in Busy(dl.node)
      BY <1>1, <2>1, <2>2, <2>3, <2>4, FS_RemoveElement
    <2>5. CASE p \notin Busy(dl.node)
      <3>1. Busy(N) = Busy(dl.node)
        BY <2>1, <2>5
      <3> QED BY <1>1, <2>2, <2>5, <3>1
    <2> QED BY <2>4, <2>5
  <1> HIDE DEF N, F, m
  <1>7. /\ dl'.node = N /\ dl'.inFlight = F /\ dl'.peers = m
        /\ dl' = [node |-> dl'.node, inFlight |-> dl'.inFlight, peers |-> dl'.peers]
    BY <1>2
  <1>8. ASSUME NEW x \in DOMAIN N
        PROVE  /\ NodeOK(N[x])
               /\ Range(N[x].vBlocksInFlight) = {b \in DOMAIN F : F[b] = x}
    <2>1. x \in Connected /\ x # p /\ N[x] = dl.node[x]
      BY <1>3, <1>8
    <2>2. /\ NodeOK(dl.node[x])
          /\ Range(dl.node[x].vBlocksInFlight) = {b \in DOMAIN dl.inFlight : dl.inFlight[b] = x}
      BY <1>1, <2>1 DEF DownloadOK, Connected
    <2> QED BY <1>5, <2>1, <2>2
  <1>9. DownloadOK(dl')
    BY <1>1, <1>3, <1>5, <1>6, <1>7, <1>8, SMTT(30) DEF DownloadOK
  <1>10. CommonWithin(dl', have)
    <2>1. CommonWithin(dl, have)
      BY DEF DownloadInv
    <2> QED BY <1>3, <1>7, <2>1 DEF CommonWithin, Connected
  <1>11. closing' = closing \ {p} /\ UNCHANGED <<mapBlockIndex, have, tip>>
    BY DEF FinalizeNode
  <1>12. closing' \subseteq DOMAIN dl'.node
    BY <1>3, <1>7, <1>11 DEF DownloadInv
  <1> QED BY <1>9, <1>10, <1>11, <1>12 DEF DownloadInv, Linked, Connected

LEMMA NewNodeOK == NodeOK(NewNode) /\ NewNode.vBlocksInFlight = <<>> /\ NewNode.pindexLastCommonBlock = None
  <1>1. NewNode \in Nodes
    BY SMTT(30) DEF NewNode, Nodes
  <1>2. Len(<<>>) = 0 /\ IsInjective(<<>>)
    BY SMTT(30) DEF IsInjective
  <1>3. NewNode.partial = {} /\ NewNode.nBlocksInFlight = 0 /\ NewNode.vBlocksInFlight = <<>>
        /\ NewNode.stalling = "no" /\ NewNode.pindexLastCommonBlock = None
    BY DEF NewNode
  <1>4. 0 <= MAX_BLOCKS_IN_TRANSIT_PER_PEER
    BY DownloadConstants, SMTT(30)
  <1> QED BY <1>1, <1>2, <1>3, <1>4 DEF NodeOK

(* A new connection. *)
LEMMA InitializeStep ==
  ASSUME DownloadInv, NEW p \in Peers \ Connected, InitializeNode(p)
  PROVE  DownloadInv'
  <1> DEFINE N == [x \in Connected \cup {p} |-> IF x = p THEN NewNode ELSE dl.node[x]]
  <1>1. /\ DownloadOK(dl) /\ dl.node \in [Connected -> Nodes] /\ Connected \subseteq Peers
        /\ dl.inFlight \in [DOMAIN dl.inFlight -> Connected] /\ DOMAIN dl.inFlight \subseteq Blocks
        /\ dl.peers = Cardinality(Busy(dl.node)) /\ DOMAIN dl.node = Connected
        /\ dl = [node |-> dl.node, inFlight |-> dl.inFlight, peers |-> dl.peers]
    BY DEF DownloadInv, DownloadOK, Connected
  <1>2. dl' = [dl EXCEPT !.node = N]
    BY DEF InitializeNode
  <1>3. NodeOK(NewNode) /\ NewNode \in Nodes /\ NewNode.vBlocksInFlight = <<>>
        /\ NewNode.pindexLastCommonBlock = None
    BY NewNodeOK DEF NodeOK
  <1>4. /\ DOMAIN N = Connected \cup {p} /\ N \in [Connected \cup {p} -> Nodes] /\ N[p] = NewNode
        /\ \A x \in Connected : N[x] = dl.node[x]
    BY <1>1, <1>3
  <1>5. Busy(N) = Busy(dl.node)
    BY <1>1, <1>3, <1>4 DEF Busy
  <1> HIDE DEF N
  <1>6. /\ dl'.node = N /\ dl'.inFlight = dl.inFlight /\ dl'.peers = dl.peers
        /\ dl' = [node |-> dl'.node, inFlight |-> dl'.inFlight, peers |-> dl'.peers]
    BY <1>1, <1>2
  <1>7. ASSUME NEW x \in DOMAIN N
        PROVE  /\ NodeOK(N[x])
               /\ Range(N[x].vBlocksInFlight) = {b \in DOMAIN dl.inFlight : dl.inFlight[b] = x}
    <2>1. CASE x = p
      <3>1. Range(<<>>) = {}
        BY SMTT(30) DEF Range
      <3> QED BY <1>1, <1>3, <1>4, <2>1, <3>1
    <2>2. CASE x # p
      <3>1. x \in Connected /\ N[x] = dl.node[x]
        BY <1>4, <1>7, <2>2
      <3> QED BY <1>1, <3>1 DEF DownloadOK, Connected
    <2> QED BY <2>1, <2>2
  <1>8. DownloadOK(dl')
    BY <1>1, <1>4, <1>5, <1>6, <1>7, SMTT(30) DEF DownloadOK
  <1>9. CommonWithin(dl', have)
    <2>1. CommonWithin(dl, have)
      BY DEF DownloadInv
    <2> QED BY <1>1, <1>3, <1>4, <1>6, <2>1 DEF CommonWithin
  <1>10. UNCHANGED <<mapBlockIndex, have, tip, closing>>
    BY DEF InitializeNode
  <1>11. closing' \subseteq DOMAIN dl'.node
    BY <1>4, <1>6, <1>10 DEF DownloadInv
  <1> QED BY <1>8, <1>9, <1>10, <1>11 DEF DownloadInv, Linked, Connected

LEMMA SendStep ==
  ASSUME DownloadInv, NEW p \in Served, SendMessages(p)
  PROVE  DownloadInv'
  <1>1. /\ DownloadOK(dl') /\ CommonWithin(dl', have) /\ DOMAIN dl'.node = Connected
        /\ closing' \in {closing, closing \cup {p}}
    BY SentIs DEF SendMessages
  <1>2. UNCHANGED <<mapBlockIndex, have, tip>>
    BY DEF SendMessages
  <1>3. closing' \subseteq DOMAIN dl'.node
    BY <1>1 DEF DownloadInv, Served
  <1> QED BY <1>1, <1>2, <1>3 DEF DownloadInv, Linked, Connected

LEMMA InitInv == Init => DownloadInv
  <1> SUFFICES ASSUME Init PROVE DownloadInv
    OBVIOUS
  <1>1. /\ mapBlockIndex = {Genesis} /\ have = {Genesis} /\ tip = Genesis /\ closing = {}
        /\ dl = [node |-> [p \in Prompt |-> NewNode], inFlight |-> <<>>, peers |-> 0]
    BY DEF Init
  <1>2. Genesis \in Blocks /\ Linked(tip)
    BY <1>1, TreeOfBlocks, BranchOfGenesis DEF Linked
  <1>3. /\ dl.node = [p \in Prompt |-> NewNode] /\ dl.inFlight = <<>> /\ dl.peers = 0
        /\ dl = [node |-> dl.node, inFlight |-> dl.inFlight, peers |-> dl.peers]
    BY <1>1
  <1>4. NodeOK(NewNode) /\ NewNode \in Nodes /\ NewNode.vBlocksInFlight = <<>>
        /\ NewNode.pindexLastCommonBlock = None
    BY NewNodeOK DEF NodeOK
  <1>5. /\ DOMAIN dl.node = Prompt /\ dl.node \in [Prompt -> Nodes] /\ Prompt \subseteq Peers
        /\ \A p \in Prompt : dl.node[p] = NewNode
    BY <1>3, <1>4, DownloadConstants
  <1>6. DOMAIN dl.inFlight = {} /\ dl.inFlight \in [{} -> Prompt] /\ Range(<<>>) = {}
    BY <1>3, SMTT(30) DEF Range
  <1>7. Busy(dl.node) = {}
    BY <1>4, <1>5 DEF Busy
  <1>8. dl.peers = Cardinality(Busy(dl.node))
    BY <1>3, <1>7, FS_EmptySet
  <1>9. DownloadOK(dl)
    BY <1>3, <1>4, <1>5, <1>6, <1>8 DEF DownloadOK
  <1>10. CommonWithin(dl, have)
    BY <1>4, <1>5 DEF CommonWithin
  <1> QED BY <1>1, <1>2, <1>9, <1>10 DEF DownloadInv

(* The records agree in every state. *)
LEMMA DownloadInvariant == Spec => []DownloadInv
  <1>1. ASSUME DownloadInv, [Next]_vars PROVE DownloadInv'
    <2>1. CASE \E p \in Served, b \in Blocks : Inv(p, b)
      BY <1>1, <2>1, InvStep
    <2>2. CASE \E p \in Served, first, b \in Blocks : Headers(p, first, b)
      BY <1>1, <2>2, HeadersStep
    <2>3. CASE \E p \in Served, b \in Blocks : Block(p, b)
      BY <1>1, <2>3, BlockStep
    <2>4. CASE \E p \in Served, b \in Blocks : BlockTxn(p, b)
      BY <1>1, <2>4, BlockStep
    <2>5. CASE \E p \in Served, b \in Blocks : CmpctBlock(p, b)
      BY <1>1, <2>5, CmpctBlockStep
    <2>6. CASE \E p \in Served : SendMessages(p)
      BY <1>1, <2>6, SendStep
    <2>7. CASE \E p \in Served : Tick(p)
      BY <1>1, <2>7, TickStep
    <2>8. CASE \/ \E b \in Blocks : SubmitBlock(b)
               \/ \E p \in Served : CloseSocket(p)
      BY <1>1, <2>8, OwnStep
    <2>9. CASE \E p \in closing : FinalizeNode(p)
      BY <1>1, <2>9, FinalizeStep
    <2>10. CASE \E p \in Peers \ Connected : InitializeNode(p)
      BY <1>1, <2>10, InitializeStep
    <2>11. CASE UNCHANGED vars
      BY <1>1, <2>11 DEF vars, DownloadInv, Linked, Connected
    <2> QED BY <1>1, <2>1, <2>2, <2>3, <2>4, <2>5, <2>6, <2>7, <2>8, <2>9, <2>10, <2>11 DEF Next
  <1> QED BY <1>1, InitInv, PTL DEF Spec

-----------------------------------------------------------------------------
(* No peer is ever asked for more than MAX_BLOCKS_IN_TRANSIT_PER_PEER      *)
(* blocks at a time, by headers, by compact blocks and by SendMessages     *)
(* together, and only blocks that are in flight have a partial block.      *)
THEOREM LimitKept == Spec => []TypeOK
  <1>1. DownloadInv => TypeOK
    <2> SUFFICES ASSUME DownloadInv PROVE TypeOK
      OBVIOUS
    <2>1. tip \in have
      BY BranchClosed DEF DownloadInv, Linked
    <2>2. ASSUME NEW p \in Connected
          PROVE  /\ dl.node[p].nBlocksInFlight \in 0..MAX_BLOCKS_IN_TRANSIT_PER_PEER
                 /\ dl.node[p].partial \subseteq Range(dl.node[p].vBlocksInFlight)
      <3>1. NodeOK(dl.node[p])
        BY <2>2 DEF DownloadInv, DownloadOK, Connected
      <3> QED BY <3>1, DownloadConstants, SMTT(30) DEF NodeOK, Nodes
    <2> QED BY <2>1, <2>2 DEF TypeOK, DownloadInv, DownloadOK, Connected
  <1> QED BY <1>1, DownloadInvariant, PTL

(* mapBlocksInFlight, every vBlocksInFlight and                            *)
(* nPeersWithValidatedDownloads tell the same, for any number of peers     *)
(* that answer for each other, time out and leave.                         *)
THEOREM RecordsAgree == Spec => []InFlightAgrees
  <1>1. DownloadInv => InFlightAgrees
    <2> SUFFICES ASSUME DownloadInv PROVE InFlightAgrees
      OBVIOUS
    <2>1. ASSUME NEW p \in Connected
          PROVE  /\ dl.node[p].nBlocksInFlight = Len(dl.node[p].vBlocksInFlight)
                 /\ IsInjective(dl.node[p].vBlocksInFlight)
                 /\ Range(dl.node[p].vBlocksInFlight) = {b \in DOMAIN dl.inFlight : dl.inFlight[b] = p}
      BY <2>1 DEF DownloadInv, DownloadOK, Connected, NodeOK
    <2>2. \A b \in DOMAIN dl.inFlight : dl.inFlight[b] \in Connected
      BY DEF DownloadInv, DownloadOK, Connected
    <2>3. dl.peers = Cardinality({p \in Connected : dl.node[p].vBlocksInFlight # <<>>})
      BY DEF DownloadInv, DownloadOK, Connected, Busy
    <2> QED BY <2>1, <2>2, <2>3 DEF InFlightAgrees
  <1> QED BY <1>1, DownloadInvariant, PTL

(* nStallingSince is only set, and SendMessages only disconnects a peer    *)
(* for it, while the peer owes a block.                                    *)
THEOREM StallersOwe == Spec => []StallerOwesBlock
  <1>1. DownloadInv => StallerOwesBlock
    BY DEF DownloadInv, DownloadOK, NodeOK, Connected, StallerOwesBlock
  <1> QED BY <1>1, DownloadInvariant, PTL

(* pindexLastCommonBlock is never past a block that is missing, on any     *)
(* tree of blocks, whatever the peer announced before.                     *)
THEOREM CommonStaysLinked == Spec => []CommonIsLinked
  <1>1. DownloadInv => CommonIsLinked
    BY DEF DownloadInv, CommonWithin, Linked, Connected, CommonIsLinked
  <1> QED BY <1>1, DownloadInvariant, PTL
=============================================================================
