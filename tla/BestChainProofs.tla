-------------------------- MODULE BestChainProofs --------------------------
(***************************************************************************)
(* The block index and the choice of the active chain, for any tree of     *)
(* blocks: the inductive invariant of BestChain, its preservation by each  *)
(* action, and what it says of the properties.                             *)
(*                                                                         *)
(* The candidates lose blocks all the time: the ones worse than the tip,   *)
(* and the ones on an invalid block, which FindMostWorkChain may drop      *)
(* before it has marked all of them.  What is kept is that every linked    *)
(* block that is not marked is in the set, or worse than a block of the    *)
(* set that will connect (Covered).  That is why the best candidate is the *)
(* best block, and why the set never becomes empty.                        *)
(***************************************************************************)
EXTENDS BestChain, BlockTreeProofs

(* Most of the leaves are about sets, for Zenon; those with arithmetic or  *)
(* functions in them cite SMT.                                             *)
USE ZenonT(60)

(* A block whose chain ConnectBlock takes as it stands. *)
Sound(b) == Branch[b] \cap (failedValid \cup FailsConnect) = {}

(* A block is a candidate, or worse than a candidate that will connect.    *)
Covered(b) == b \in candidates \/ \E c \in candidates : Sound(c) /\ Less(b, c)

(* No linked block that is not marked is better. *)
Peak(m) == \A b \in linked : ~Failed(b) => ~Less(m, b)

(* Which blocks can be in which of the sets.  A block that is not linked   *)
(* is marked by ContextualCheckBlock only.                                 *)
Types ==
    /\ setup \in Setups /\ Regular
    /\ Genesis \in have /\ have \subseteq known /\ known \subseteq Blocks
    /\ AncestorClosed(known)
    /\ have \cap FailsCheck = {}
    /\ linked = {b \in Blocks : Branch[b] \subseteq have}
    /\ failedValid \cup failedChild \subseteq known
    /\ failedChild \subseteq linked
    /\ failedValid \ linked \subseteq FailsCheck
    /\ candidates \subseteq linked
    /\ Waiting \subseteq have
    /\ tip \in linked
    /\ busy \subseteq setup.callers
    /\ mostWork \in [Threads -> linked \cup {None}]

(* What makes CBlockIndexWorkComparator an order, and keeps the numbers of *)
(* precious blocks apart from those of blocks as they are linked.          *)
OrderTypes ==
    /\ seq \in [Blocks -> Int]
    /\ address \in Injection(Blocks, Nat)
    /\ nBlockSequenceId \in Nat \ {0}
    /\ nBlockReverseSequenceId \in Int /\ nBlockReverseSequenceId < 0
    /\ nLastPreciousChainwork \in Nat
    /\ \A b \in Blocks \ linked : seq[b] <= 0

(* The levels of the blocks follow their data, and scripts are checked     *)
(* from the first block on.                                                *)
Levels ==
    /\ valid \in [Blocks -> {0, TREE, TRANSACTIONS, SCRIPTS}]
    /\ \A b \in known : valid[b] >= TREE
    /\ \A b \in Blocks : b \in have <=> valid[b] >= TRANSACTIONS
    /\ AncestorClosed({b \in Blocks : valid[b] = SCRIPTS})
    /\ valid[tip] = SCRIPTS

(* A block is marked for a block found invalid below it or for itself, the *)
(* active chain has neither, and without a user the blocks found invalid   *)
(* are those that are.                                                     *)
Marks ==
    /\ \A b \in known : Failed(b) => ~NoneInvalid(b)
    /\ \A b \in chainActive : ~Failed(b) /\ b \notin FailsConnect
    /\ setup.calls = {} => failedValid \subseteq FailsCheck \cup FailsConnect

(* mapBlocksUnlinked has the blocks that can still be linked.              *)
WaitingInv ==
    /\ \A b \in have \ linked : Branch[b] \cap FailsCheck = {} => b \in Waiting
    /\ Waiting \cap linked = {}

(* setBlockIndexCandidates has no block worse than the tip, and nothing    *)
(* that is missing in it is missed.                                        *)
CandidatesInv ==
    /\ \A b \in candidates : ~Less(b, tip)
    /\ \A b \in linked : ~Failed(b) => Covered(b)

(* A caller that is alone works towards the best chain.                    *)
TargetsInv ==
    \A t \in Threads :
        mostWork[t] # None =>
            /\ t \in busy
            /\ Alone => Peak(mostWork[t]) /\ \A x \in Branch[mostWork[t]] : ~Failed(x)

(* ... and has found it when it is done.                                   *)
PeakInv == Alone /\ busy = {} => Peak(tip)

(* Precious blocks have no more work than the tip had at the last call, no *)
(* two of them with that much work have one number, the next number is     *)
(* still lower, and some chain that connects has that much work, so that   *)
(* the tip will not fall below it.                                         *)
PreciousInv ==
    IF "preciousblock" \in setup.calls
    THEN /\ \A b \in linked : ~Failed(b) /\ seq[b] < 0 =>
                /\ nChainWork[b] <= nLastPreciousChainwork
                /\ nChainWork[b] = nLastPreciousChainwork => seq[b] > nBlockReverseSequenceId
         /\ \A b, c \in linked : /\ ~Failed(b) /\ ~Failed(c) /\ seq[b] = seq[c] /\ seq[b] < 0
                                 /\ nChainWork[b] = nLastPreciousChainwork /\ nChainWork[c] = nLastPreciousChainwork
                                 => b = c
         /\ nLastPreciousChainwork > 0 => nBlockReverseSequenceId < -1
         /\ nLastPreciousChainwork > 0 => \E c \in linked : Sound(c) /\ nChainWork[c] >= nLastPreciousChainwork
    ELSE nLastPreciousChainwork = 0

(* The inductive invariant.                                                *)
IndexInv ==
    Types /\ OrderTypes /\ Levels /\ Marks /\ WaitingInv /\ CandidatesInv /\ TargetsInv /\ PeakInv /\ PreciousInv

-----------------------------------------------------------------------------
(* Facts about the tree and the order of its blocks. *)

Order(id, at) == id \in [Blocks -> Int] /\ at \in Injection(Blocks, Nat)

(* CBlockIndexWorkComparator is a strict total order. *)
LEMMA LessOrder ==
  ASSUME NEW id, NEW at, Order(id, at), NEW a \in Blocks, NEW b \in Blocks
  PROVE  /\ ~LessBy(id, at, a, a)
         /\ LessBy(id, at, a, b) => ~LessBy(id, at, b, a)
         /\ a = b \/ LessBy(id, at, a, b) \/ LessBy(id, at, b, a)
         /\ LessBy(id, at, a, b) => nChainWork[a] <= nChainWork[b]
  <1>1. /\ nChainWork[a] \in Nat /\ nChainWork[b] \in Nat /\ id[a] \in Int /\ id[b] \in Int
        /\ at[a] \in Nat /\ at[b] \in Nat
    BY BestChainConstants DEF Order, Injection
  <1>2. at[a] = at[b] => a = b
    BY DEF Order, Injection, IsInjective
  <1> QED BY <1>1, <1>2, SMTT(30) DEF LessBy

LEMMA LessTransitive ==
  ASSUME NEW id, NEW at, Order(id, at), NEW a \in Blocks, NEW b \in Blocks, NEW c \in Blocks,
         LessBy(id, at, a, b), LessBy(id, at, b, c)
  PROVE  LessBy(id, at, a, c)
  <1>1. /\ nChainWork[a] \in Nat /\ nChainWork[b] \in Nat /\ nChainWork[c] \in Nat
        /\ id[a] \in Int /\ id[b] \in Int /\ id[c] \in Int
        /\ at[a] \in Nat /\ at[b] \in Nat /\ at[c] \in Nat
    BY BestChainConstants DEF Order, Injection
  <1> QED BY <1>1, SMTT(30) DEF LessBy

(* An ancestor has less work. *)
LEMMA WorkGrows ==
  ASSUME NEW b \in Blocks, NEW c \in Branch[b]
  PROVE  c = b \/ nChainWork[c] < nChainWork[b]
  <1> DEFINE S == {x \in Blocks : x = b \/ nChainWork[x] < nChainWork[b]}
  <1>1. S \in SUBSET Blocks /\ b \in S
    OBVIOUS
  <1>2. AncestorClosed(S)
    <2> SUFFICES ASSUME NEW x \in S \ {Genesis} PROVE Parent[x] \in S
      BY DEF AncestorClosed
    <2>1. /\ Parent[x] \in Blocks /\ nChainWork[Parent[x]] \in Nat /\ nChainWork[x] \in Nat
          /\ nChainWork[b] \in Nat /\ nChainWork[Parent[x]] < nChainWork[x]
      BY TreeOfBlocks, BestChainConstants
    <2> QED BY <2>1, SMTT(30)
  <1> HIDE DEF S
  <1>3. c \in S
    BY <1>1, <1>2, BranchLeast
  <1> QED BY <1>3 DEF S

LEMMA AncestorLess ==
  ASSUME NEW b \in Blocks, NEW c \in Branch[b], NEW id, NEW at
  PROVE  c = b \/ LessBy(id, at, c, b)
  BY WorkGrows DEF LessBy

(* The candidates have a best one. *)
LEMMA BestIs ==
  ASSUME FiniteTree, Order(seq, address), NEW S \in SUBSET Blocks, S # {}
  PROVE  Best(S) \in S /\ \A x \in S : x = Best(S) \/ Less(x, Best(S))
  <1> DEFINE R == {p \in S \X S : Less(p[1], p[2])}
  <1>1. \A x, y \in S : <<x, y>> \in R <=> Less(x, y)
    OBVIOUS
  <1>2. /\ \A x, y \in S : x = y \/ Less(x, y) \/ Less(y, x)
        /\ \A x, y, z \in S : Less(x, y) /\ Less(y, z) => Less(x, z)
    BY LessOrder, LessTransitive DEF Less
  <1> HIDE DEF R
  <1>3. OrderedBy(R, S)
    BY <1>1, <1>2 DEF OrderedBy
  <1>4. PICK b \in S : \A x \in S : x = b \/ <<x, b>> \in R
    <2>1. HasGreatest(R, S)
      BY <1>3, GreatestIs
    <2> QED BY <2>1 DEF HasGreatest
  <1>5. \A x \in S : x = b \/ Less(x, b)
    BY <1>1, <1>4
  <1> QED BY <1>5 DEF Best

-----------------------------------------------------------------------------
(* Facts about the states of the inductive invariant. *)

LEMMA LinkedClosed ==
  ASSUME Types, NEW b \in linked
  PROVE  b \in Blocks /\ b \in Branch[b] /\ Branch[b] \subseteq linked /\ Branch[b] \subseteq have
  BY BranchClosed, BranchTransitive DEF Types

LEMMA OrderIs ==
  ASSUME OrderTypes
  PROVE  Order(seq, address)
  BY DEF OrderTypes, Order

(* A block on blocks found valid is not marked. *)
LEMMA Unmarked ==
  ASSUME Types, Marks, NEW b \in linked
  PROVE  /\ NoneInvalid(b) => \A x \in Branch[b] : ~Failed(x)
         /\ Sound(b) => NoneInvalid(b)
         /\ (\A x \in Branch[b] : ~Failed(x)) => NoneInvalid(b)
  <1>1. \A x \in Branch[b] : x \in known /\ x \in linked /\ Branch[x] \subseteq Branch[b]
    BY LinkedClosed, BranchTransitive DEF Types
  <1> QED BY <1>1 DEF Marks, NoneInvalid, Sound, Failed

(* The active chain connects. *)
LEMMA ActiveSound ==
  ASSUME Types, Marks
  PROVE  /\ tip \in Blocks /\ tip \in chainActive /\ chainActive \subseteq linked
         /\ \A b \in chainActive : Sound(b) /\ ~Failed(b)
  <1>1. tip \in linked
    BY DEF Types
  <1>2. tip \in Blocks /\ tip \in chainActive /\ chainActive \subseteq linked
    BY <1>1, LinkedClosed DEF chainActive
  <1>3. \A b \in chainActive : Branch[b] \subseteq chainActive
    BY <1>2, BranchTransitive DEF chainActive
  <1> QED BY <1>2, <1>3 DEF Marks, Sound, Failed

(* What the caller knows that goes on towards m: with marked, it has marked *)
(* blocks on blocks found invalid, and it has left the candidates cands.    *)
Chosen(m, marked, cands) ==
    /\ m \in linked
    /\ marked \subseteq linked /\ \A x \in marked : ~NoneInvalid(x)
    /\ cands \subseteq candidates
    /\ \A b \in linked : ~Failed(b) /\ b \notin marked =>
          b \in cands \/ \E c \in cands : Sound(c) /\ Less(b, c)
    /\ \A x \in Branch[m] : Failed(x) \/ x \in marked => Branch[x] \cap FailsConnect # {}
    /\ Alone => /\ \A b \in linked : ~Failed(b) /\ b \notin marked => ~Less(m, b)
                /\ \A x \in Branch[m] : ~Failed(x) /\ x \notin marked

(* The first block found to be marked, from the candidate down. *)
LEMMA FirstFailedIs ==
  ASSUME FiniteTree, Types, NEW b \in linked, ~Usable(b)
  PROVE  /\ FirstFailed(b) \in OffChain(b) /\ Failed(FirstFailed(b))
         /\ \A x \in OffChain(b) : nHeight[x] > nHeight[FirstFailed(b)] => FirstFailed(b) \in Branch[x]
  <1> DEFINE S == {x \in OffChain(b) : Failed(x)}
             f == FirstFailed(b)
  <1>1. S \in SUBSET Blocks /\ S # {} /\ OffChain(b) \subseteq Branch[b] /\ b \in Blocks
    BY LinkedClosed, BranchClosed DEF Usable, OffChain
  <1>2. f \in S
    <2> HIDE DEF S
    <2> QED BY <1>1, HighestIs DEF FirstFailed, S
  <1> HIDE DEF f
  <1>3. f \in Blocks /\ nHeight[f] \in Nat
    BY <1>1, <1>2, TreeOfBlocks
  <1>4. ASSUME NEW x \in OffChain(b), nHeight[x] > nHeight[f] PROVE f \in Branch[x]
    <2>1. x \in Branch[b] /\ f \in Branch[b] /\ x \in Blocks /\ nHeight[x] \in Nat
      BY <1>1, <1>2, BranchClosed, TreeOfBlocks
    <2>2. f \in Branch[x] \/ x \in Branch[f]
      BY <1>1, <2>1, BranchLinear
    <2>3. f = x \/ (f \in Branch[x] /\ nHeight[f] < nHeight[x]) \/ (x \in Branch[f] /\ nHeight[x] < nHeight[f])
      BY <1>3, <2>1, <2>2, BranchLower
    <2> QED BY <1>3, <1>4, <2>1, <2>3, SMTT(30)
  <1> QED BY <1>2, <1>4 DEF f

(* A stale pindexMostWork. *)
LEMMA ChosenStale ==
  ASSUME IndexInv, NEW t \in Threads, mostWork[t] # None
  PROVE  Chosen(mostWork[t], {}, candidates)
  <1> DEFINE m == mostWork[t]
  <1>1. m \in linked
    BY DEF IndexInv, Types
  <1>2. Branch[m] \subseteq linked /\ Branch[m] \subseteq have
    BY <1>1, LinkedClosed DEF IndexInv
  <1>3. ASSUME NEW x \in Branch[m], Failed(x) PROVE Branch[x] \cap FailsConnect # {}
    <2>1. CASE Alone
      BY <1>3, <2>1 DEF IndexInv, TargetsInv
    <2>2. CASE ~Alone
      <3>1. failedValid \subseteq FailsCheck \cup FailsConnect
        BY <2>2 DEF IndexInv, Types, Marks, Regular
      <3>2. x \in known /\ Branch[x] \subseteq have /\ have \cap FailsCheck = {}
        BY <1>2, LinkedClosed DEF IndexInv, Types
      <3>3. ~NoneInvalid(x)
        BY <1>3, <3>2 DEF IndexInv, Marks
      <3> QED BY <3>1, <3>2, <3>3 DEF NoneInvalid
    <2> QED BY <2>1, <2>2
  <1>4. \A b \in linked : ~Failed(b) => b \in candidates \/ \E c \in candidates : Sound(c) /\ Less(b, c)
    BY DEF IndexInv, CandidatesInv, Covered
  <1>5. Alone => (\A b \in linked : ~Failed(b) => ~Less(m, b)) /\ \A x \in Branch[m] : ~Failed(x)
    BY DEF IndexInv, TargetsInv, Peak
  <1> HIDE DEF m
  <1>6. Chosen(m, {}, candidates)
    BY <1>1, <1>3, <1>4, <1>5 DEF Chosen
  <1> QED BY <1>6 DEF m

(* FindMostWorkChain. *)
LEMMA ChosenFresh ==
  ASSUME FiniteTree, IndexInv
  PROVE  Chosen(FindMostWorkChain, NewlyFailed, UsableCandidates)
  <1> DEFINE usable == {b \in candidates : Usable(b)}
             m == FindMostWorkChain
  <1>0. Types /\ Marks /\ CandidatesInv /\ Order(seq, address)
    BY OrderIs DEF IndexInv
  <1>1. /\ tip \in linked /\ ~Failed(tip) /\ Sound(tip)
        /\ candidates \subseteq linked /\ linked \subseteq Blocks
        /\ \A b \in chainActive : ~Failed(b)
    BY <1>0, ActiveSound DEF Types
  <1>2. \A c \in candidates : Sound(c) => c \in usable
    BY <1>0, <1>1, Unmarked DEF Usable, OffChain
  <1>3. usable # {}
    BY <1>0, <1>1, <1>2 DEF CandidatesInv, Covered
  <1>4. m \in usable /\ \A x \in usable : x = m \/ Less(x, m)
    <2>1. m = Best(usable)
      BY <1>3 DEF FindMostWorkChain
    <2>2. usable \in SUBSET Blocks
      BY <1>1
    <2> HIDE DEF usable, m
    <2> QED BY <1>0, <1>3, <2>1, <2>2, BestIs
  <1>5. m # None /\ m \in linked /\ m \in Blocks
    BY <1>1, <1>4, BestChainConstants
  <1> HIDE DEF m
  <1>6. \A b \in Unusable : b \in candidates /\ ~Usable(b)
    BY DEF Unusable
  <1>7. ASSUME NEW x \in NewlyFailed
        PROVE  x \in linked /\ \E f \in Branch[x] : Failed(f) /\ f \in known
    <2>1. PICK b \in Unusable : x \in OffChain(b) /\ nHeight[x] > nHeight[FirstFailed(b)]
      BY DEF NewlyFailed
    <2>2. b \in linked /\ ~Usable(b)
      BY <1>1, <1>6
    <2>3. x \in linked /\ FirstFailed(b) \in Branch[x] /\ Failed(FirstFailed(b))
      BY <1>0, <2>1, <2>2, FirstFailedIs, LinkedClosed DEF OffChain
    <2>4. FirstFailed(b) \in known
      BY <1>0, <2>3 DEF Types, Failed
    <2> QED BY <2>3, <2>4
  <1>8. ASSUME NEW x \in NewlyFailed PROVE ~NoneInvalid(x)
    BY <1>0, <1>7, <1>8, Unmarked
  <1>9. \A x \in Branch[m] : ~Failed(x) /\ x \notin NewlyFailed
    <2>1. \A x \in Branch[m] : ~Failed(x)
      BY <1>1, <1>4 DEF Usable, OffChain
    <2>2. \A x \in Branch[m] : Branch[x] \subseteq Branch[m]
      BY <1>5, BranchTransitive
    <2> QED BY <1>7, <2>1, <2>2
  <1>10. \A b \in candidates : ~Failed(b) /\ b \notin NewlyFailed => b \in UsableCandidates
    <2>1. \A b \in Unusable : Failed(FirstFailed(b))
      BY <1>0, <1>1, <1>6, FirstFailedIs
    <2> QED BY <2>1 DEF UsableCandidates
  <1>11. ASSUME NEW c \in candidates, Sound(c) PROVE c \in UsableCandidates
    <2>1. ~Failed(c) /\ NoneInvalid(c)
      BY <1>0, <1>1, <1>11, Unmarked, LinkedClosed
    <2> QED BY <1>8, <1>10, <2>1
  <1>12. ASSUME NEW b \in linked, ~Failed(b), b \notin NewlyFailed
         PROVE  b \in UsableCandidates \/ \E c \in UsableCandidates : Sound(c) /\ Less(b, c)
    <2>1. Covered(b)
      BY <1>0, <1>12 DEF CandidatesInv
    <2> QED BY <1>10, <1>11, <1>12, <2>1 DEF Covered
  <1>13. ASSUME NEW b \in linked, ~Failed(b), b \notin NewlyFailed PROVE ~Less(m, b)
    <2>0. b \in Blocks
      BY <1>1
    <2>1. CASE b \in candidates /\ Usable(b)
      BY <1>0, <1>4, <1>5, <2>0, <2>1, LessOrder, SMTT(30) DEF Less
    <2>2. CASE b \in candidates /\ ~Usable(b)
      <3> SUFFICES ASSUME Less(m, b) PROVE FALSE
        OBVIOUS
      <3>1. b \in Unusable
        BY <2>2 DEF Unusable, m
      <3>2. FirstFailed(b) \in OffChain(b) /\ Failed(FirstFailed(b)) /\ b \in OffChain(b)
        <4>1. FirstFailed(b) \in OffChain(b) /\ Failed(FirstFailed(b))
          BY <1>0, <2>2, FirstFailedIs
        <4>2. b \in OffChain(b)
          <5>1. b \in chainActive => FALSE
            BY <2>0, <4>1, BranchTransitive, ActiveSound, <1>0 DEF OffChain, chainActive
          <5> QED BY <5>1, <2>0, BranchClosed DEF OffChain
        <4> QED BY <4>1, <4>2
      <3>3. nHeight[b] > nHeight[FirstFailed(b)]
        <4>1. FirstFailed(b) \in Branch[b] /\ FirstFailed(b) # b
          BY <1>13, <3>2 DEF OffChain
        <4>2. nHeight[b] \in Nat /\ nHeight[FirstFailed(b)] \in Nat
          BY <2>0, <4>1, BranchClosed, TreeOfBlocks
        <4> QED BY <2>0, <4>1, <4>2, BranchLower
      <3> QED BY <1>13, <3>1, <3>2, <3>3, SMTT(30) DEF NewlyFailed
    <2>3. CASE b \notin candidates
      <3>1. PICK c \in candidates : Sound(c) /\ Less(b, c)
        BY <1>0, <1>13, <2>3 DEF CandidatesInv, Covered
      <3>2. c = m \/ Less(c, m)
        BY <1>2, <1>4, <3>1
      <3>3. c \in Blocks
        BY <1>1
      <3>4. Less(b, m)
        BY <1>0, <1>5, <2>0, <3>1, <3>2, <3>3, LessTransitive DEF Less
      <3> QED BY <1>0, <1>5, <2>0, <3>4, LessOrder DEF Less
    <2> QED BY <2>1, <2>2, <2>3
  <1>14. UsableCandidates \subseteq candidates
    BY DEF UsableCandidates
  <1>15. Chosen(m, NewlyFailed, UsableCandidates)
    BY <1>5, <1>7, <1>8, <1>9, <1>12, <1>13, <1>14 DEF Chosen
  <1> QED BY <1>15 DEF m

-----------------------------------------------------------------------------
(* ActivateBestChainStep. *)

(* What a step towards m reaches: newTip, on which last was the last block *)
(* that was tried, after connecting connected.                             *)
Reaches(m, marked, last, newTip, connected) ==
    /\ last \in Branch[m] /\ last \in linked
    /\ newTip \in Branch[last] /\ newTip \in linked
    /\ IF last \in FailsConnect THEN last \notin Branch[newTip] ELSE newTip = last
    /\ \A x \in Branch[newTip] : x \notin FailsConnect /\ ~Failed(x) /\ x \notin marked
    /\ connected \subseteq Branch[newTip]
    /\ Branch[newTip] \ connected \subseteq chainActive
    /\ connected = {} => newTip \in chainActive
    /\ Alone /\ last \notin FailsConnect => nChainWork[tip] <= nChainWork[newTip]

LEMMA StepReaches ==
  ASSUME FiniteTree, IndexInv, NEW m, NEW marked, NEW cands, Chosen(m, marked, cands),
         NEW last, last = StepTo(m),
         NEW newTip, newTip = IF last \in FailsConnect THEN Parent[last] ELSE last,
         NEW connected, connected = (Branch[last] \ Branch[FindFork(m)]) \ FailsConnect
  PROVE  Reaches(m, marked, last, newTip, connected)
  <1> DEFINE f == FindFork(m)
             path == Branch[m] \ Branch[f]
             stops == {b \in path : b \in FailsConnect \/ nChainWork[b] > nChainWork[tip]}
  <1>0. Types /\ Marks /\ OrderTypes
    BY DEF IndexInv
  <1>1. m \in linked /\ m \in Blocks /\ m \in Branch[m] /\ Branch[m] \subseteq linked
    BY <1>0, LinkedClosed DEF Chosen
  <1>2. f \in chainActive /\ f \in Branch[m] /\ f \in Blocks
    BY <1>0, <1>1, ActiveSound, LastCommonAncestorIs, BranchClosed DEF FindFork, chainActive
  <1>3. Branch[f] \subseteq chainActive
    BY <1>0, <1>2, ActiveSound, BranchTransitive DEF chainActive
  <1>4. \A x \in Branch[f] : x \notin FailsConnect
    BY <1>0, <1>3 DEF Marks
  <1>5. last = IF stops = {} THEN m ELSE Lowest(stops)
    BY DEF StepTo
  <1> HIDE DEF f
  <1>6. stops \subseteq Branch[m] /\ stops \in SUBSET Blocks
    BY <1>1, BranchClosed
  <1>7. /\ last \in Branch[m] /\ last \in Blocks /\ last \in linked /\ last \in Branch[last]
        /\ stops # {} => last \in stops /\ \A c \in stops : nHeight[last] <= nHeight[c]
    <2> HIDE DEF stops
    <2>1. stops # {} => last \in stops /\ \A c \in stops : nHeight[last] <= nHeight[c]
      BY <1>5, <1>6, LowestIs
    <2>2. last \in Branch[m]
      BY <1>1, <1>5, <1>6, <2>1
    <2> QED BY <1>1, <2>1, <2>2, BranchClosed
  <1>8. /\ newTip \in Branch[last] /\ newTip \in Blocks /\ newTip \in linked
        /\ IF last \in FailsConnect
           THEN /\ last \in Blocks \ {Genesis} /\ newTip = Parent[last] /\ last \notin Branch[newTip]
                /\ Branch[last] = Branch[newTip] \cup {last}
           ELSE newTip = last
    <2>1. CASE last \in FailsConnect
      <3>1. last \in Blocks \ {Genesis} /\ newTip = Parent[last] /\ newTip \in Blocks
        BY <1>7, <2>1, BestChainConstants, TreeOfBlocks
      <3>2. Branch[last] = Branch[newTip] \cup {last}
        BY <3>1, BranchOfChild
      <3>3. nHeight[last] = nHeight[newTip] + 1 /\ nHeight[newTip] \in Nat
        BY <3>1, TreeOfBlocks
      <3>4. last \notin Branch[newTip]
        BY <3>1, <3>3, BranchLower, SMTT(30)
      <3>5. newTip \in Branch[last]
        BY <3>1, <3>2, BranchClosed
      <3>6. newTip \in linked
        BY <1>0, <1>7, <3>5, LinkedClosed
      <3> QED BY <2>1, <3>1, <3>2, <3>4, <3>5, <3>6
    <2>2. CASE last \notin FailsConnect
      BY <1>7, <2>2
    <2> QED BY <2>1, <2>2
  <1>9. Branch[newTip] \subseteq Branch[last] /\ Branch[last] \subseteq Branch[m]
    BY <1>1, <1>7, <1>8, BranchTransitive
  <1>10. ASSUME NEW x \in Branch[newTip], x \in FailsConnect PROVE FALSE
    <2>1. x \in Branch[m] /\ x \in stops /\ x \in Branch[last] /\ x # last
      BY <1>4, <1>8, <1>9, <1>10
    <2>2. nHeight[x] < nHeight[last] /\ nHeight[x] \in Nat /\ nHeight[last] \in Nat
      BY <1>7, <2>1, BranchLower, BranchClosed, TreeOfBlocks
    <2> HIDE DEF stops
    <2> QED BY <1>7, <2>1, <2>2, SMTT(30)
  <1>11. ASSUME NEW x \in Branch[newTip] PROVE ~Failed(x) /\ x \notin marked
    <2>1. Branch[x] \cap FailsConnect = {}
      BY <1>8, <1>10, BranchTransitive
    <2> QED BY <1>9, <2>1 DEF Chosen
  <1>12. /\ connected = Branch[newTip] \ Branch[f]
    <2>1. connected = (Branch[last] \ Branch[f]) \ FailsConnect
      BY DEF f
    <2>2. CASE last \in FailsConnect
      BY <1>8, <1>10, <2>1, <2>2
    <2>3. CASE last \notin FailsConnect
      BY <1>8, <1>10, <2>1, <2>3
    <2> QED BY <2>2, <2>3
  <1>13. newTip \in Branch[newTip]
    BY <1>8, BranchClosed
  <1>14. ASSUME Alone, last \notin FailsConnect PROVE nChainWork[tip] <= nChainWork[newTip]
    <2>0. tip \in linked /\ tip \in Blocks /\ ~Failed(tip) /\ NoneInvalid(tip)
      BY <1>0, ActiveSound, Unmarked
    <2>1. nChainWork[tip] \in Nat /\ nChainWork[newTip] \in Nat /\ newTip = last
      BY <1>8, <1>14, <2>0, BestChainConstants
    <2>2. CASE stops = {}
      <3>1. newTip = m /\ ~Less(m, tip)
        BY <1>5, <1>14, <2>0, <2>1, <2>2 DEF Chosen
      <3> QED BY <2>1, <3>1, SMTT(30) DEF Less, LessBy
    <2>3. CASE stops # {}
      BY <1>7, <1>14, <2>1, <2>3, SMTT(30)
    <2> QED BY <2>2, <2>3
  <1> QED BY <1>3, <1>7, <1>8, <1>10, <1>11, <1>12, <1>13, <1>14 DEF Reaches

(* What a round of ActivateBestChain does to the index, once it has marked *)
(* blocks and found others not to connect.                                 *)
Remarks(marked, fails) ==
    /\ UNCHANGED <<known, have, linked, order, unlinked, setup>>
    /\ marked \subseteq linked /\ \A x \in marked : ~NoneInvalid(x)
    /\ fails \subseteq linked \cap FailsConnect
    /\ failedChild' = failedChild \cup marked
    /\ failedValid' = failedValid \cup fails
    /\ tip' \in linked
    /\ \A x \in Branch[tip'] : x \notin FailsConnect /\ ~Failed(x) /\ x \notin marked
    /\ candidates' \subseteq candidates
    /\ busy' \subseteq busy
    /\ mostWork' \in [Threads -> linked \cup {None}]

LEMMA RemarksMean ==
  ASSUME NEW marked, NEW fails, Remarks(marked, fails)
  PROVE  /\ \A b \in Blocks : Failed(b)' <=> Failed(b) \/ b \in marked \/ b \in fails
         /\ \A b \in Blocks : Sound(b)' <=> Sound(b)
         /\ \A b \in Blocks : NoneInvalid(b)' => NoneInvalid(b)
         /\ \A b \in Blocks : Failed(b) => Failed(b)'
         /\ \A a, b \in Blocks : Less(a, b)' <=> Less(a, b)
         /\ Alone' <=> Alone
  <1>1. \A b \in Blocks : Failed(b)' <=> Failed(b) \/ b \in marked \/ b \in fails
    BY DEF Remarks, Failed
  <1>2. \A b \in Blocks : Sound(b)' <=> Sound(b)
    BY DEF Remarks, Sound
  <1>3. \A b \in Blocks : NoneInvalid(b)' => NoneInvalid(b)
    BY DEF Remarks, NoneInvalid
  <1>4. \A a, b \in Blocks : Less(a, b)' <=> Less(a, b)
    BY DEF Remarks, order, Less, LessBy
  <1>5. Alone' <=> Alone
    BY DEF Remarks, Alone
  <1> QED BY <1>1, <1>2, <1>3, <1>4, <1>5

LEMMA RemarksKeep ==
  ASSUME IndexInv, NEW marked, NEW fails, Remarks(marked, fails)
  PROVE  Types' /\ OrderTypes' /\ Marks' /\ WaitingInv' /\ PreciousInv'
  <1>0. Types /\ OrderTypes /\ Marks /\ WaitingInv /\ PreciousInv
    BY DEF IndexInv
  <1>a. linked \subseteq known /\ linked \subseteq Blocks /\ known \subseteq Blocks
    BY <1>0, LinkedClosed DEF Types
  <1>1. Types'
    <2>1. Regular'
      BY <1>0 DEF Types, Remarks, Regular, Alone
    <2> QED BY <1>0, <1>a, <2>1 DEF Types, Remarks, Waiting
  <1>2. OrderTypes'
    BY <1>0 DEF OrderTypes, Remarks, order
  <1>3. Marks'
    <2>1. ASSUME NEW b \in known, Failed(b)' PROVE ~NoneInvalid(b)'
      <3>1. b \in Blocks /\ b \in Branch[b]
        BY <1>a, BranchClosed
      <3>2. CASE Failed(b) \/ b \in marked
        BY <1>0, <3>1, <3>2, RemarksMean DEF Marks, Remarks
      <3>3. CASE b \in fails
        BY <3>1, <3>3 DEF Remarks, NoneInvalid
      <3> QED BY <2>1, <3>1, <3>2, <3>3, RemarksMean
    <2>2. ASSUME NEW b \in chainActive' PROVE ~Failed(b)' /\ b \notin FailsConnect
      <3>1. b \in Branch[tip'] /\ b \in Blocks
        BY <1>a, BranchClosed DEF chainActive, Remarks
      <3> QED BY <3>1, RemarksMean DEF Remarks
    <2>3. setup'.calls = {} => failedValid' \subseteq FailsCheck \cup FailsConnect
      BY <1>0 DEF Marks, Remarks
    <2> QED BY <2>1, <2>2, <2>3 DEF Marks, Remarks
  <1>4. WaitingInv'
    BY <1>0 DEF WaitingInv, Remarks, Waiting
  <1>5. PreciousInv'
    <2>0. UNCHANGED <<seq, nLastPreciousChainwork, nBlockReverseSequenceId, linked, setup>>
      BY DEF Remarks, order
    <2>1. CASE "preciousblock" \in setup.calls
      <3>1. \A b \in linked : Sound(b) => Sound(b)'
        BY <1>a, RemarksMean
      <3>2. \A b \in linked : ~Failed(b)' => ~Failed(b)
        BY <1>a, RemarksMean
      <3>3. ASSUME NEW b \in linked, ~Failed(b)', seq[b] < 0
            PROVE  /\ nChainWork[b] <= nLastPreciousChainwork
                   /\ nChainWork[b] = nLastPreciousChainwork => seq[b] > nBlockReverseSequenceId
        BY <1>0, <2>1, <3>2, <3>3 DEF PreciousInv
      <3>4. ASSUME NEW b \in linked, NEW c \in linked, ~Failed(b)', ~Failed(c)', seq[b] = seq[c], seq[b] < 0,
                   nChainWork[b] = nLastPreciousChainwork, nChainWork[c] = nLastPreciousChainwork
            PROVE  b = c
        BY <1>0, <2>1, <3>2, <3>4 DEF PreciousInv
      <3>5. nLastPreciousChainwork > 0 =>
              /\ nBlockReverseSequenceId < -1
              /\ \E c \in linked : Sound(c)' /\ nChainWork[c] >= nLastPreciousChainwork
        BY <1>0, <2>1, <3>1 DEF PreciousInv
      <3> QED BY <2>0, <2>1, <3>3, <3>4, <3>5 DEF PreciousInv
    <2>2. CASE "preciousblock" \notin setup.calls
      BY <1>0, <2>0, <2>2 DEF PreciousInv
    <2> QED BY <2>1, <2>2
  <1> QED BY <1>1, <1>2, <1>3, <1>4, <1>5

(* The marks of Chosen are those of the next state, but for fails. *)
LEMMA ChosenNext ==
  ASSUME IndexInv, NEW m, NEW marked, NEW cands, Chosen(m, marked, cands), NEW fails, Remarks(marked, fails)
  PROVE  /\ \A b \in linked : ~Failed(b)' =>
                b \notin fails /\ (b \in cands \/ \E c \in cands : Sound(c)' /\ Less(b, c))
         /\ Alone => /\ Peak(m)'
                     /\ fails = {} => \A x \in Branch[m] : ~Failed(x)'
  <1>1. linked \subseteq Blocks /\ m \in linked /\ Branch[m] \subseteq Blocks /\ cands \subseteq linked
    BY LinkedClosed, BranchClosed DEF IndexInv, Types, Chosen
  <1>2. ASSUME NEW b \in linked, ~Failed(b)'
        PROVE  b \notin fails /\ (b \in cands \/ \E c \in cands : Sound(c)' /\ Less(b, c))
    BY <1>1, <1>2, RemarksMean DEF Chosen
  <1>3. ASSUME Alone PROVE Peak(m)'
    <2> SUFFICES ASSUME NEW b \in linked, ~Failed(b)' PROVE ~Less(m, b)'
      BY DEF Peak, Remarks
    <2> QED BY <1>1, <1>3, RemarksMean DEF Chosen
  <1>4. ASSUME Alone, fails = {} PROVE \A x \in Branch[m] : ~Failed(x)'
    BY <1>1, <1>4, RemarksMean DEF Chosen
  <1> QED BY <1>2, <1>3, <1>4

(* The candidates left when newTip is the tip: one of them connects and is *)
(* no worse than newTip.                                                   *)
LEMMA StepCandidates ==
  ASSUME IndexInv, NEW m, NEW marked, NEW cands, Chosen(m, marked, cands), NEW fails, Remarks(marked, fails),
         NEW last, NEW newTip, NEW connected, Reaches(m, marked, last, newTip, connected), tip' = newTip,
         fails = {last} \cap FailsConnect,
         candidates' = (IF connected = {} THEN cands ELSE Prune(cands, newTip)) \ fails
  PROVE  CandidatesInv'
  <1>0. Types /\ Marks /\ CandidatesInv /\ Order(seq, address)
    BY OrderIs DEF IndexInv
  <1>1. /\ linked \subseteq Blocks /\ linked' = linked /\ cands \subseteq linked /\ cands \subseteq candidates
        /\ newTip \in linked /\ tip \in linked
    BY <1>0, LinkedClosed DEF Types, Chosen, Remarks, Reaches
  <1>2. newTip \in Branch[newTip] /\ ~Failed(newTip)' /\ Sound(newTip)'
    <2>1. newTip \in Branch[newTip]
      BY <1>1, BranchClosed
    <2>2. \A x \in Branch[newTip] : x \in Blocks /\ ~Failed(x)' /\ x \notin FailsConnect
      BY <1>1, RemarksMean, BranchClosed DEF Remarks
    <2>3. Sound(newTip)'
      BY <2>2 DEF Sound, Failed
    <2> QED BY <2>1, <2>2, <2>3
  <1>3. \A a, b \in linked : Less(a, b)' <=> Less(a, b)
    BY <1>1, RemarksMean
  <1>4. ASSUME NEW b \in candidates' PROVE ~Less(b, newTip)
    <2>1. b \in cands /\ b \in linked
      BY <1>1 DEF Prune
    <2>2. CASE connected # {}
      BY <2>2 DEF Prune
    <2>3. CASE connected = {}
      <3>1. newTip \in chainActive
        BY <2>3 DEF Reaches
      <3>2. newTip = tip \/ Less(newTip, tip)
        BY <1>1, <3>1, AncestorLess DEF chainActive, Less
      <3>3. ~Less(b, tip)
        BY <1>0, <1>1, <2>1 DEF CandidatesInv
      <3> QED BY <1>0, <1>1, <2>1, <3>2, <3>3, LessTransitive DEF Less
    <2> QED BY <2>2, <2>3
  <1>5. ASSUME NEW c \in cands, Sound(c)', c = newTip \/ Less(newTip, c) PROVE c \in candidates'
    <2>1. ~Less(c, newTip)
      BY <1>0, <1>1, <1>5, LessOrder, SMTT(30) DEF Less
    <2>2. c \notin fails
      <3>1. c \in Branch[c]
        BY <1>1, BranchClosed
      <3> QED BY <1>5, <3>1 DEF Sound
    <2> QED BY <2>1, <2>2 DEF Prune
  <1>6. PICK top \in candidates' : Sound(top)' /\ (top = newTip \/ Less(newTip, top))
    <2>1. newTip \in cands \/ \E c \in cands : Sound(c)' /\ Less(newTip, c)
      BY <1>1, <1>2, ChosenNext
    <2> QED BY <1>2, <1>5, <2>1
  <1>7. top \in linked
    BY <1>1 DEF Prune
  <1>8. ASSUME NEW b \in linked, Less(b, newTip) PROVE Less(b, top)
    BY <1>0, <1>1, <1>6, <1>7, <1>8, LessTransitive DEF Less
  <1>9. ASSUME NEW b \in linked, ~Failed(b)'
        PROVE  b \in candidates' \/ \E c \in candidates' : Sound(c)' /\ Less(b, c)
    <2>1. b \notin fails /\ (b \in cands \/ \E c \in cands : Sound(c)' /\ Less(b, c))
      BY <1>9, ChosenNext
    <2>2. CASE Less(b, newTip)
      BY <1>6, <1>8, <2>2
    <2>3. CASE ~Less(b, newTip) /\ b \in cands
      BY <2>1, <2>3 DEF Prune
    <2>4. CASE ~Less(b, newTip) /\ b \notin cands
      <3>1. PICK c \in cands : Sound(c)' /\ Less(b, c)
        BY <2>1, <2>4
      <3>2. c = newTip \/ Less(newTip, c)
        <4>1. ~Less(c, newTip)
          BY <1>0, <1>1, <2>4, <3>1, LessTransitive DEF Less
        <4> QED BY <1>0, <1>1, <4>1, LessOrder DEF Less
      <3> QED BY <1>5, <3>1, <3>2
    <2> QED BY <2>2, <2>3, <2>4
  <1>10. candidates' \subseteq linked
    BY <1>1 DEF Prune
  <1>11. \A b \in candidates' : ~Less(b, tip)'
    BY <1>4 DEF Less, LessBy, Remarks, order
  <1>12. \A b \in linked : ~Failed(b)' => Covered(b)'
    BY <1>3, <1>9, <1>10 DEF Covered
  <1> QED BY <1>1, <1>11, <1>12 DEF CandidatesInv

(* Levels after the blocks of connected had their scripts checked. *)
LEMMA StepLevels ==
  ASSUME IndexInv, NEW m, NEW marked, NEW last, NEW connected, Reaches(m, marked, last, tip', connected),
         UNCHANGED <<known, have>>,
         valid' = [b \in Blocks |-> IF b \in connected /\ ~Failed(b) THEN SCRIPTS ELSE valid[b]]
  PROVE  Levels'
  <1>0. Types /\ Marks /\ Levels
    BY DEF IndexInv
  <1> DEFINE S == {b \in Blocks : valid[b] = SCRIPTS}
             T == {b \in Blocks : valid'[b] = SCRIPTS}
  <1>1. tip' \in linked /\ tip' \in Blocks /\ Branch[tip'] \subseteq have /\ have \subseteq Blocks /\ tip' \in Branch[tip']
    BY <1>0, LinkedClosed DEF Reaches, Types
  <1>2. connected \subseteq Branch[tip'] /\ \A x \in Branch[tip'] : ~Failed(x)
    BY DEF Reaches
  <1>3. \A b \in Blocks : valid'[b] = IF b \in connected THEN SCRIPTS ELSE valid[b]
    BY <1>2
  <1>4. chainActive \subseteq S
    <2>1. tip \in S /\ S \in SUBSET Blocks /\ AncestorClosed(S)
      BY <1>0, ActiveSound DEF Levels
    <2> HIDE DEF S
    <2> QED BY <2>1, BranchLeast DEF chainActive
  <1>5. T = S \cup connected /\ Branch[tip'] \subseteq T
    <2>1. T = S \cup connected
      BY <1>1, <1>2, <1>3
    <2> QED BY <1>4, <2>1 DEF Reaches
  <1>6. AncestorClosed(T)
    <2> SUFFICES ASSUME NEW b \in T \ {Genesis} PROVE Parent[b] \in T
      BY DEF AncestorClosed
    <2>1. CASE b \in S
      <3>1. AncestorClosed(S)
        BY <1>0 DEF Levels
      <3> HIDE DEF S, T
      <3> QED BY <1>5, <2>1, <3>1 DEF AncestorClosed
    <2>2. CASE b \in connected
      <3>1. Parent[b] \in Branch[tip']
        BY <1>1, <1>2, <2>2, BranchClosed DEF AncestorClosed
      <3> QED BY <1>5, <3>1
    <2> QED BY <1>5, <2>1, <2>2
  <1>7. valid' \in [Blocks -> {0, TREE, TRANSACTIONS, SCRIPTS}]
    BY <1>0 DEF Levels
  <1>8. \A b \in known : valid'[b] >= TREE
    BY <1>0, <1>3, SMTT(30) DEF Levels, Types, TREE, SCRIPTS
  <1>9. \A b \in Blocks : b \in have <=> valid'[b] >= TRANSACTIONS
    BY <1>0, <1>1, <1>2, <1>3, SMTT(30) DEF Levels, TRANSACTIONS, SCRIPTS
  <1>10. valid'[tip'] = SCRIPTS
    BY <1>1, <1>5
  <1> QED BY <1>6, <1>7, <1>8, <1>9, <1>10 DEF Levels

(* A round of ActivateBestChain. *)
LEMMA ActivateKeeps ==
  ASSUME FiniteTree, IndexInv, NEW t \in Threads, ActivateBestChain(t)
  PROVE  IndexInv'
  <1> DEFINE fresh == mostWork[t] = None
             m == IF fresh THEN FindMostWorkChain ELSE mostWork[t]
             marked == IF fresh THEN NewlyFailed ELSE {}
             cands == IF fresh THEN UsableCandidates ELSE candidates
             last == StepTo(m)
             newTip == IF last \in FailsConnect THEN Parent[last] ELSE last
             connected == (Branch[last] \ Branch[FindFork(m)]) \ FailsConnect
             fails == {last} \cap FailsConnect
  <1>0. Types /\ Marks /\ Levels /\ TargetsInv /\ PeakInv
    BY DEF IndexInv
  <1>1. Chosen(m, marked, cands)
    BY ChosenFresh, ChosenStale
  <1>2. m \in linked /\ m # None
    BY <1>1, LinkedClosed, <1>0, BestChainConstants DEF Chosen
  <1>3. /\ t \in busy
        /\ UNCHANGED <<known, have, linked, order, unlinked, restarts, setup>>
        /\ failedChild' = failedChild \cup marked
    BY DEF ActivateBestChain
  <1>4. CASE m = tip
    <2>1. /\ candidates' = cands /\ busy' = busy \ {t} /\ mostWork' = [mostWork EXCEPT ![t] = None]
          /\ UNCHANGED <<tip, valid, failedValid>>
      BY <1>4 DEF ActivateBestChain
    <2> HIDE DEF m, marked, cands, last, newTip, connected, fails, fresh
    <2>2. Remarks(marked, {})
      <3>1. mostWork' \in [Threads -> linked \cup {None}] /\ tip' \in linked
        BY <1>0, <2>1 DEF Types
      <3>2. \A x \in Branch[tip'] : x \notin FailsConnect /\ ~Failed(x) /\ x \notin marked
        <4>1. \A x \in Branch[tip] : x \notin FailsConnect /\ ~Failed(x) /\ Sound(x) /\ x \in linked
          BY <1>0, ActiveSound DEF chainActive, Marks
        <4>2. \A x \in Branch[tip] : x \notin marked
          BY <1>0, <1>1, <4>1, Unmarked DEF Chosen
        <4> QED BY <2>1, <4>1, <4>2
      <3> QED BY <1>1, <1>3, <2>1, <3>1, <3>2 DEF Remarks, Chosen
    <2>3. CandidatesInv'
      <3>1. linked \subseteq Blocks /\ candidates' \subseteq linked /\ tip \in linked
        BY <1>0, <1>1, <2>1, LinkedClosed DEF Chosen, Types
      <3>2. \A b \in candidates' : ~Less(b, tip)'
        BY <1>1, <2>1, <2>2, <3>1, RemarksMean DEF IndexInv, CandidatesInv, Chosen
      <3>3. \A b \in linked : ~Failed(b)' => Covered(b)'
        BY <1>1, <2>1, <2>2, <3>1, ChosenNext, RemarksMean, SMTT(30) DEF Covered
      <3> QED BY <1>3, <3>2, <3>3 DEF CandidatesInv
    <2>4. Levels'
      BY <1>0, <1>3, <2>1 DEF Levels
    <2>5. PeakInv'
      BY <1>1, <1>4, <2>1, <2>2, ChosenNext, RemarksMean DEF PeakInv
    <2>6. TargetsInv'
      <3> SUFFICES ASSUME NEW u \in Threads, mostWork'[u] # None
                   PROVE  u \in busy' /\ (Alone' => Peak(mostWork[u])' /\ \A x \in Branch[mostWork'[u]] : ~Failed(x)')
        BY DEF TargetsInv
      <3>1. u # t /\ mostWork[u] # None /\ u \in busy
        BY <1>0, <2>1 DEF TargetsInv, Types
      <3>2. ~Alone
        BY <1>0, <1>3, <3>1 DEF Types, Alone
      <3> QED BY <2>1, <2>2, <3>1, <3>2, RemarksMean
    <2> QED BY <2>2, <2>3, <2>4, <2>5, <2>6, RemarksKeep DEF IndexInv
  <1>5. CASE m # tip
    <2>1. /\ tip' = newTip
          /\ valid' = [b \in Blocks |-> IF b \in connected /\ ~Failed(b) THEN SCRIPTS ELSE valid[b]]
          /\ candidates' = LET pruned == IF connected = {} THEN cands ELSE Prune(cands, tip')
                           IN  IF last \in FailsConnect THEN pruned \ {last} ELSE pruned
          /\ failedValid' = IF last \in FailsConnect THEN failedValid \cup {last} ELSE failedValid
          /\ mostWork' = [mostWork EXCEPT ![t] = Target(last, m)]
          /\ busy' = IF last = m /\ last \notin FailsConnect THEN busy \ {t} ELSE busy
      BY <1>2, <1>5 DEF ActivateBestChain, ConnectTo
    <2>2. Reaches(m, marked, last, newTip, connected)
      <3> HIDE DEF m, marked, cands
      <3> QED BY <1>1, StepReaches
    <2> HIDE DEF m, marked, cands, last, newTip, connected, fresh
    <2>3. candidates' = (IF connected = {} THEN cands ELSE Prune(cands, tip')) \ fails
      BY <2>1
    <2>4. failedValid' = failedValid \cup fails
      BY <2>1
    <2>5. fails = {last} \cap FailsConnect
      OBVIOUS
    <2> HIDE DEF fails
    <2>6. Reaches(m, marked, last, tip', connected)
      BY <2>1, <2>2
    <2>7. Remarks(marked, fails)
      <3>1. mostWork' \in [Threads -> linked \cup {None}]
        BY <1>0, <1>2, <2>1 DEF Types, Target
      <3>2. candidates' \subseteq candidates
        BY <1>1, <2>3 DEF Chosen, Prune
      <3>3. tip' \in linked /\ \A x \in Branch[tip'] : x \notin FailsConnect /\ ~Failed(x) /\ x \notin marked
        BY <2>6 DEF Reaches
      <3>4. fails \subseteq linked \cap FailsConnect
        BY <2>5, <2>6 DEF Reaches
      <3>5. busy' \subseteq busy
        BY <2>1
      <3> QED BY <1>1, <1>3, <2>4, <3>1, <3>2, <3>3, <3>4, <3>5 DEF Remarks, Chosen
    <2>8. CandidatesInv'
      BY <1>1, <2>3, <2>5, <2>6, <2>7, StepCandidates
    <2>9. Levels'
      BY <1>3, <2>1, <2>6, StepLevels
    <2>10. ASSUME Alone, busy' = {} PROVE Peak(tip)'
      <3>1. tip' = m
        BY <1>3, <2>1, <2>10, <2>6 DEF Reaches
      <3> QED BY <1>1, <2>7, <2>10, <3>1, ChosenNext
    <2>11. PeakInv'
      BY <2>7, <2>10, RemarksMean DEF PeakInv
    <2>12. TargetsInv'
      <3> SUFFICES ASSUME NEW u \in Threads, mostWork'[u] # None
                   PROVE  u \in busy' /\ (Alone' => Peak(mostWork[u])' /\ \A x \in Branch[mostWork'[u]] : ~Failed(x)')
        BY DEF TargetsInv
      <3>1. CASE u = t
        <4>1. mostWork'[u] = Target(last, m)
          BY <1>0, <2>1, <3>1 DEF Types
        <4>2. mostWork'[u] = m /\ last # m /\ last \notin FailsConnect
          BY <4>1 DEF Target
        <4>3. fails = {}
          BY <2>5, <4>2
        <4> QED BY <1>1, <1>3, <2>1, <2>7, <3>1, <4>2, <4>3, ChosenNext, RemarksMean
      <3>2. CASE u # t
        <4>1. mostWork[u] # None /\ u \in busy
          BY <1>0, <2>1, <3>2 DEF TargetsInv, Types
        <4>2. ~Alone
          BY <1>0, <1>3, <3>2, <4>1 DEF Types, Alone
        <4> QED BY <2>1, <2>7, <3>2, <4>1, <4>2, RemarksMean
      <3> QED BY <3>1, <3>2
    <2> QED BY <2>7, <2>8, <2>9, <2>11, <2>12, RemarksKeep DEF IndexInv
  <1> QED BY <1>4, <1>5

-----------------------------------------------------------------------------
(* A caller that enters ActivateBestChain has no pindexMostWork, and is the *)
(* only one within it when it is alone.                                     *)
LEMMA ActivateTargets ==
  ASSUME Types, TargetsInv, NEW t \in Threads, Idle(t), Activate(t), setup' = setup
  PROVE  /\ mostWork' \in [Threads -> linked \cup {None}] /\ busy' \subseteq setup.callers
         /\ TargetsInv' /\ PeakInv'
  <1>1. mostWork' \in [Threads -> linked \cup {None}] /\ busy' \subseteq setup.callers
    BY DEF Types, Activate, Idle
  <1>2. ASSUME NEW u \in Threads, mostWork'[u] # None PROVE u \in busy' /\ ~Alone'
    <2>1. u # t /\ mostWork[u] # None /\ u \in busy
      BY <1>2 DEF TargetsInv, Types, Activate
    <2>2. u \in setup.callers /\ t \in setup.callers
      BY <2>1 DEF Types, Idle
    <2> QED BY <2>1, <2>2, SMTT(30) DEF Alone, Activate
  <1>3. TargetsInv'
    BY <1>2 DEF TargetsInv
  <1>4. PeakInv'
    BY DEF PeakInv, Activate
  <1> QED BY <1>1, <1>3, <1>4

(* A user's calls. *)
LEMMA AloneIdle ==
  ASSUME Types, NEW t \in Threads, Idle(t), setup.calls # {}
  PROVE  Alone /\ busy = {}
  BY SMTT(30) DEF Types, Idle, Regular, Alone

-----------------------------------------------------------------------------
(* A block enters the index, and may be found invalid at once. *)
LEMMA HeaderKeeps ==
  ASSUME IndexInv, NEW b \in Blocks, HeaderAcceptable(b), AddToBlockIndex(b),
         NEW F, F \subseteq {b} \cap FailsCheck, failedValid' = failedValid \cup F,
         UNCHANGED <<have, failedChild, linked, order, candidates, unlinked, tip, setup>>,
         mostWork' \in [Threads -> linked \cup {None}], busy' \subseteq setup.callers
  PROVE  /\ Types' /\ OrderTypes' /\ Levels' /\ Marks' /\ WaitingInv' /\ CandidatesInv' /\ PreciousInv'
         /\ \A x \in linked : Failed(x)' <=> Failed(x)
         /\ \A x, y \in Blocks : Less(x, y)' <=> Less(x, y)
  <1>0. Types /\ OrderTypes /\ Levels /\ Marks /\ WaitingInv /\ CandidatesInv /\ PreciousInv
    BY DEF IndexInv
  <1>1. linked \subseteq Blocks /\ \A x \in linked : Branch[x] \subseteq linked /\ x \in have /\ x \notin F
    <2>1. \A x \in linked : x \in Blocks /\ x \in Branch[x] /\ Branch[x] \subseteq linked /\ Branch[x] \subseteq have
      BY <1>0, LinkedClosed
    <2>2. have \cap F = {}
      BY <1>0 DEF Types
    <2> QED BY <2>1, <2>2
  <1>2. \A x \in linked : Failed(x)' <=> Failed(x)
    BY <1>1 DEF Failed
  <1>3. \A x \in linked : Sound(x)' <=> Sound(x)
    BY <1>1 DEF Sound
  <1>4. \A x, y \in Blocks : Less(x, y)' <=> Less(x, y)
    BY DEF order, Less, LessBy
  <1>5. Types'
    <2>1. Regular'
      BY <1>0 DEF Types, Regular, Alone
    <2>2. known' = known \cup {b}
      BY DEF AddToBlockIndex
    <2>3. AncestorClosed(known')
      BY <1>0, <2>2 DEF Types, HeaderAcceptable, AncestorClosed
    <2> QED BY <1>0, <2>1, <2>2, <2>3 DEF Types, Waiting
  <1>6. OrderTypes'
    BY <1>0 DEF OrderTypes, order
  <1>7. Levels'
    <2>1. valid' = [valid EXCEPT ![b] = IF b \in known THEN @ ELSE TREE] /\ known' = known \cup {b}
      BY DEF AddToBlockIndex
    <2>2. b \notin known => b \notin have
      BY <1>0 DEF Types
    <2>3. \A x \in Blocks : valid'[x] = IF x = b /\ b \notin known THEN TREE ELSE valid[x]
      BY <1>0, <2>1 DEF Levels
    <2>4. \A x \in Blocks : valid[x] \in {0, TREE, TRANSACTIONS, SCRIPTS} /\ (x \in have <=> valid[x] >= TRANSACTIONS)
      BY <1>0 DEF Levels
    <2>5. \A x \in Blocks : (valid'[x] >= TRANSACTIONS <=> valid[x] >= TRANSACTIONS) /\ (valid'[x] = SCRIPTS <=> valid[x] = SCRIPTS)
      BY <2>2, <2>3, <2>4, SMTT(30) DEF TREE, TRANSACTIONS, SCRIPTS
    <2>6. {x \in Blocks : valid'[x] = SCRIPTS} = {x \in Blocks : valid[x] = SCRIPTS}
      BY <2>5
    <2>7. \A x \in known' : valid'[x] >= TREE
      BY <1>0, <2>1, <2>3, SMTT(30) DEF Levels, Types, TREE
    <2>8. valid' \in [Blocks -> {0, TREE, TRANSACTIONS, SCRIPTS}]
      BY <1>0, <2>1 DEF Levels
    <2>9. valid'[tip] = SCRIPTS
      BY <1>0, <2>5, ActiveSound DEF Levels
    <2>10. AncestorClosed({x \in Blocks : valid'[x] = SCRIPTS})
      BY <1>0, <2>6 DEF Levels
    <2> QED BY <1>0, <2>4, <2>5, <2>7, <2>8, <2>9, <2>10 DEF Levels
  <1>8. Marks'
    <2>1. ASSUME NEW x \in known', Failed(x)' PROVE ~NoneInvalid(x)'
      <3>1. CASE x \in F
        BY <3>1, BranchClosed DEF NoneInvalid
      <3>2. CASE x \notin F
        <4>1. Failed(x) /\ x \in known
          BY <1>0, <2>1, <3>2 DEF Failed, Types
        <4> QED BY <1>0, <4>1 DEF Marks, NoneInvalid
      <3> QED BY <3>1, <3>2
    <2>2. \A x \in chainActive' : ~Failed(x)' /\ x \notin FailsConnect
      BY <1>0, <1>2, ActiveSound DEF chainActive, Marks
    <2>3. setup'.calls = {} => failedValid' \subseteq FailsCheck \cup FailsConnect
      BY <1>0 DEF Marks
    <2> QED BY <2>1, <2>2, <2>3 DEF Marks
  <1>9. WaitingInv'
    BY <1>0 DEF WaitingInv, Waiting
  <1>10. CandidatesInv'
    <2>1. candidates \subseteq linked /\ tip \in linked
      BY <1>0 DEF Types
    <2>2. \A x \in candidates : ~Less(x, tip)'
      BY <1>0, <1>1, <1>4, <2>1 DEF CandidatesInv
    <2>3. \A x \in linked : ~Failed(x)' => Covered(x)'
      BY <1>0, <1>1, <1>2, <1>3, <1>4, <2>1 DEF CandidatesInv, Covered
    <2> QED BY <2>2, <2>3 DEF CandidatesInv
  <1>11. PreciousInv'
    BY <1>0, <1>2, <1>3 DEF PreciousInv, order
  <1> QED BY <1>2, <1>4, <1>5, <1>6, <1>7, <1>8, <1>9, <1>10, <1>11

LEMMA HeaderTargets ==
  ASSUME Types, TargetsInv, PeakInv, \A x \in linked : Failed(x)' <=> Failed(x),
         \A x, y \in Blocks : Less(x, y)' <=> Less(x, y),
         UNCHANGED <<linked, tip, setup, busy, mostWork>>
  PROVE  TargetsInv' /\ PeakInv'
  <1>1. linked \subseteq Blocks /\ (\A x \in linked : Branch[x] \subseteq linked) /\ tip \in linked
    BY LinkedClosed DEF Types
  <1>2. \A m \in linked : Peak(m) => Peak(m)'
    BY <1>1 DEF Peak
  <1>3. Alone' <=> Alone
    BY DEF Alone
  <1>4. TargetsInv'
    <2> SUFFICES ASSUME NEW u \in Threads, mostWork[u] # None
                 PROVE  u \in busy /\ (Alone => Peak(mostWork[u])' /\ \A x \in Branch[mostWork[u]] : ~Failed(x)')
      BY <1>3 DEF TargetsInv
    <2>1. mostWork[u] \in linked
      BY DEF Types
    <2> QED BY <1>1, <1>2, <2>1 DEF TargetsInv
  <1>5. PeakInv'
    BY <1>1, <1>2, <1>3 DEF PeakInv
  <1> QED BY <1>4, <1>5

LEMMA AcceptBlockHeaderKeeps ==
  ASSUME IndexInv, NEW b \in Blocks, AcceptBlockHeader(b)
  PROVE  IndexInv'
  <1>0. Types /\ TargetsInv /\ PeakInv
    BY DEF IndexInv
  <1>1. /\ HeaderAcceptable(b) /\ AddToBlockIndex(b)
        /\ failedValid' = failedValid \cup {}
        /\ UNCHANGED <<have, failedChild, linked, order, candidates, unlinked, tip, busy, mostWork, setup>>
    BY DEF AcceptBlockHeader
  <1>2. mostWork' \in [Threads -> linked \cup {None}] /\ busy' \subseteq setup.callers
    BY <1>0, <1>1 DEF Types
  <1>3. /\ Types' /\ OrderTypes' /\ Levels' /\ Marks' /\ WaitingInv' /\ CandidatesInv' /\ PreciousInv'
        /\ \A x \in linked : Failed(x)' <=> Failed(x)
        /\ \A x, y \in Blocks : Less(x, y)' <=> Less(x, y)
    BY <1>1, <1>2, HeaderKeeps
  <1>4. TargetsInv' /\ PeakInv'
    BY <1>0, <1>1, <1>3, HeaderTargets
  <1> QED BY <1>3, <1>4 DEF IndexInv

LEMMA ProcessUnwantedKeeps ==
  ASSUME IndexInv, NEW t \in Threads, NEW b \in Blocks, Idle(t), HeaderAcceptable(b), ProcessUnwanted(t, b),
         UNCHANGED <<tip, setup>>
  PROVE  IndexInv'
  <1>1. /\ AddToBlockIndex(b) /\ Activate(t) /\ failedValid' = failedValid \cup {}
        /\ UNCHANGED <<have, failedChild, linked, order, candidates, unlinked, tip, setup>>
    BY DEF ProcessUnwanted
  <1>2. /\ mostWork' \in [Threads -> linked \cup {None}] /\ busy' \subseteq setup.callers
        /\ TargetsInv' /\ PeakInv'
    BY <1>1, ActivateTargets DEF IndexInv
  <1>3. Types' /\ OrderTypes' /\ Levels' /\ Marks' /\ WaitingInv' /\ CandidatesInv' /\ PreciousInv'
    BY <1>1, <1>2, HeaderKeeps
  <1> QED BY <1>2, <1>3 DEF IndexInv

LEMMA ProcessBadKeeps ==
  ASSUME IndexInv, NEW b \in Blocks, HeaderAcceptable(b), ProcessBad(b), UNCHANGED <<tip, setup>>
  PROVE  IndexInv'
  <1>0. Types /\ TargetsInv /\ PeakInv
    BY DEF IndexInv
  <1>1. /\ AddToBlockIndex(b) /\ failedValid' = failedValid \cup {b} /\ {b} \subseteq {b} \cap FailsCheck
        /\ UNCHANGED <<have, failedChild, linked, order, candidates, unlinked, tip, busy, mostWork, setup>>
    BY DEF ProcessBad
  <1>2. mostWork' \in [Threads -> linked \cup {None}] /\ busy' \subseteq setup.callers
    BY <1>0, <1>1 DEF Types
  <1>3. /\ Types' /\ OrderTypes' /\ Levels' /\ Marks' /\ WaitingInv' /\ CandidatesInv' /\ PreciousInv'
        /\ \A x \in linked : Failed(x)' <=> Failed(x)
        /\ \A x, y \in Blocks : Less(x, y)' <=> Less(x, y)
    BY <1>1, <1>2, HeaderKeeps
  <1>4. TargetsInv' /\ PeakInv'
    BY <1>0, <1>1, <1>3, HeaderTargets
  <1> QED BY <1>3, <1>4 DEF IndexInv

-----------------------------------------------------------------------------
(* ReceivedBlockTransactions links exactly the blocks on which all data has *)
(* come.                                                                    *)
Links(b) ==
    /\ linked' = {x \in Blocks : Branch[x] \subseteq have'}
    /\ \A x \in linked' \ linked : ~Failed(x) /\ seq'[x] >= 0
    /\ \A x \in Blocks : x \notin linked' \ linked => seq'[x] = seq[x]
    /\ candidates' = candidates \cup {x \in linked' \ linked : ~LessBy(seq', address, x, tip)}
    /\ linked \subseteq linked'
    /\ seq' \in [Blocks -> Int] /\ nBlockSequenceId' \in Nat \ {0}
    /\ Waiting' \subseteq have' /\ WaitingInv'

LEMMA ReceivedLinks ==
  ASSUME FiniteTree, IndexInv, NEW b \in Blocks, b # Genesis, HeaderAcceptable(b), b \notin have, b \notin FailsCheck,
         ReceivedBlockTransactions(b)
  PROVE  Links(b)
  <1>0. Types /\ OrderTypes /\ WaitingInv /\ Marks
    BY DEF IndexInv
  <1>1. /\ have' = have \cup {b} /\ have \subseteq Blocks /\ have' \cap FailsCheck = {} /\ b \notin linked
        /\ Waiting \subseteq have /\ linked = {x \in Blocks : Branch[x] \subseteq have}
    BY <1>0, LinkedClosed, SMTT(30) DEF Types, ReceivedBlockTransactions
  <1>2. Parent[b] \in Blocks /\ Parent[b] \in known /\ Branch[b] = Branch[Parent[b]] \cup {b} /\ b \notin Branch[Parent[b]]
    <2>1. Parent[b] \in known
      BY <1>0 DEF Types, HeaderAcceptable, AncestorClosed
    <2>2. Parent[b] \in Blocks /\ nHeight[b] = nHeight[Parent[b]] + 1 /\ nHeight[Parent[b]] \in Nat
      BY TreeOfBlocks
    <2> QED BY <2>1, <2>2, BranchOfChild, BranchLower, SMTT(30)
  <1>3. \A x \in Blocks : x \notin linked => x \notin failedChild /\ (x \in failedValid => x \in FailsCheck)
    BY <1>0 DEF Types
  <1>4. CASE Parent[b] \in linked
    <2> DEFINE new == LinkedWith(b)
    <2>1. /\ linked' = linked \cup new
          /\ seq' = [x \in Blocks |-> IF x \in new
                                      THEN nBlockSequenceId + Cardinality({y \in new : LinkedBefore(y, x)})
                                      ELSE seq[x]]
          /\ nBlockSequenceId' = nBlockSequenceId + Cardinality(new)
          /\ candidates' = candidates \cup {x \in new : ~LessBy(seq', address, x, tip)}
          /\ Waiting' = Waiting \ new
      BY <1>4 DEF ReceivedBlockTransactions, Waiting
    <2>2. \A x \in new : x \in Blocks /\ b \in Branch[x] /\ x \notin linked /\ Branch[x] \subseteq have'
      BY <1>1, <1>2, <1>4 DEF LinkedWith
    <2>3. ASSUME NEW x \in Blocks, Branch[x] \subseteq have', x \notin linked PROVE x \in new
      <3>1. b \in Branch[x]
        BY <1>1, <2>3
      <3>2. ASSUME NEW y \in Branch[x], y \notin Branch[b] PROVE y \in Waiting
        <4>1. y \in Blocks /\ Branch[y] \subseteq Branch[x] /\ b \in Branch[y]
          BY <2>3, <3>1, <3>2, BranchTransitive, BranchLinear
        <4>2. y \in have \ linked /\ Branch[y] \cap FailsCheck = {}
          BY <1>1, <2>3, <3>2, <4>1, BranchClosed
        <4> QED BY <1>0, <4>2 DEF WaitingInv
      <3>3. x \in Branch[x] /\ (x \in Branch[b] => x = b)
        <4>1. nHeight[x] \in Nat /\ nHeight[b] \in Nat
          BY TreeOfBlocks
        <4> QED BY <3>1, <4>1, BranchClosed, BranchLower, SMTT(30)
      <3> QED BY <3>1, <3>2, <3>3 DEF LinkedWith
    <2>4. Cardinality(new) \in Nat /\ \A x \in new : Cardinality({y \in new : LinkedBefore(y, x)}) \in Nat
      BY <2>2 DEF FiniteTree
    <2> HIDE DEF new
    <2>5. linked' = {x \in Blocks : Branch[x] \subseteq have'} /\ linked' \ linked = new /\ linked \subseteq linked'
      BY <1>1, <2>1, <2>2, <2>3
    <2>6. \A x \in new : ~Failed(x)
      <3>1. \A x \in new : x \in have' /\ x \notin linked /\ x \in Blocks
        BY <2>2, BranchClosed
      <3> QED BY <1>1, <1>3, <3>1 DEF Failed
    <2>7. seq' \in [Blocks -> Int] /\ nBlockSequenceId' \in Nat \ {0} /\ \A x \in new : seq'[x] >= 0
      BY <1>0, <2>1, <2>2, <2>4, SMTT(30) DEF OrderTypes
    <2>8. \A x \in Blocks : x \notin new => seq'[x] = seq[x]
      BY <2>1
    <2>9. WaitingInv'
      <3>1. ASSUME NEW x \in have' \ linked', Branch[x] \cap FailsCheck = {} PROVE x \in Waiting'
        <4>1. x # b
          <5>1. Branch[b] \subseteq have'
            BY <1>1, <1>2, <1>4
          <5> QED BY <2>5, <3>1, <5>1
        <4>2. x \in have \ linked /\ x \notin new
          BY <1>1, <2>1, <4>1
        <4> QED BY <1>0, <2>1, <3>1, <4>2 DEF WaitingInv
      <3>2. Waiting' \cap linked' = {}
        BY <1>0, <2>1 DEF WaitingInv
      <3> QED BY <3>1, <3>2 DEF WaitingInv
    <2>10. Waiting' \subseteq have'
      BY <1>1, <2>1
    <2> QED BY <2>1, <2>5, <2>6, <2>7, <2>8, <2>9, <2>10 DEF Links
  <1>5. CASE Parent[b] \notin linked
    <2>1. /\ UNCHANGED <<linked, seq, nBlockSequenceId, candidates>>
          /\ Waiting' = IF IsValid(Parent[b], TREE) THEN Waiting \cup {b} ELSE Waiting
      BY <1>5 DEF ReceivedBlockTransactions, Waiting
    <2>2. ASSUME NEW x \in Blocks, Branch[x] \subseteq have' PROVE x \in linked
      <3>1. CASE b \in Branch[x]
        <4>1. Branch[Parent[b]] \subseteq have
          BY <1>1, <1>2, <2>2, <3>1, BranchTransitive
        <4> QED BY <1>1, <1>2, <1>5, <4>1
      <3>2. CASE b \notin Branch[x]
        BY <1>1, <2>2, <3>2
      <3> QED BY <3>1, <3>2
    <2>3. linked' = {x \in Blocks : Branch[x] \subseteq have'} /\ linked' \ linked = {} /\ linked \subseteq linked'
      BY <1>1, <2>1, <2>2
    <2>4. WaitingInv'
      <3>1. ASSUME NEW x \in have' \ linked', Branch[x] \cap FailsCheck = {} PROVE x \in Waiting'
        <4>1. CASE x # b
          BY <1>0, <1>1, <2>1, <3>1, <4>1 DEF WaitingInv
        <4>2. CASE x = b
          <5>1. Parent[b] \notin FailsCheck
            BY <1>2, <3>1, <4>2, BranchClosed
          <5>2. ~Failed(Parent[b])
            BY <1>2, <1>3, <1>5, <5>1 DEF Failed
          <5>3. valid[Parent[b]] >= TREE
            BY <1>2 DEF IndexInv, Levels
          <5> QED BY <2>1, <4>2, <5>2, <5>3 DEF IsValid
        <4> QED BY <4>1, <4>2
      <3>2. Waiting' \cap linked' = {}
        BY <1>0, <1>1, <2>1 DEF WaitingInv
      <3> QED BY <3>1, <3>2 DEF WaitingInv
    <2>5. Waiting' \subseteq have'
      BY <1>1, <2>1
    <2>6. seq' \in [Blocks -> Int] /\ nBlockSequenceId' \in Nat \ {0}
      BY <1>0, <2>1 DEF OrderTypes
    <2>7. candidates' = candidates \cup {x \in linked' \ linked : ~LessBy(seq', address, x, tip)}
      BY <2>1, <2>3
    <2> QED BY <2>1, <2>3, <2>4, <2>5, <2>6, <2>7 DEF Links
  <1> QED BY <1>4, <1>5

LEMMA ProcessGoodKeeps ==
  ASSUME FiniteTree, IndexInv, NEW t \in Threads, NEW b \in Blocks, b # Genesis, Idle(t), HeaderAcceptable(b), ProcessGood(t, b),
         UNCHANGED <<tip, setup>>
  PROVE  IndexInv'
  <1>0. Types /\ OrderTypes /\ Levels /\ Marks /\ CandidatesInv /\ TargetsInv /\ PreciousInv /\ Order(seq, address)
    BY OrderIs DEF IndexInv
  <1>1. /\ b \notin have /\ b \notin FailsCheck
        /\ known' = known \cup {b} /\ have' = have \cup {b}
        /\ valid' = [valid EXCEPT ![b] = TRANSACTIONS]
        /\ ReceivedBlockTransactions(b) /\ Activate(t)
        /\ UNCHANGED <<failedValid, failedChild, nBlockReverseSequenceId, nLastPreciousChainwork, address>>
    BY DEF ProcessGood, ReceivedBlockTransactions
  <1>2. Links(b)
    BY <1>1, ReceivedLinks
  <1>3. /\ mostWork' \in [Threads -> linked \cup {None}] /\ busy' \subseteq setup.callers
        /\ TargetsInv' /\ PeakInv'
    BY <1>0, <1>1, ActivateTargets
  <1>4. linked \subseteq linked' /\ linked' \subseteq Blocks /\ tip \in linked /\ candidates \subseteq linked
    BY <1>0, <1>2 DEF Links, Types
  <1>5. (\A x : Failed(x)' <=> Failed(x)) /\ (\A x \in Blocks : Sound(x)' <=> Sound(x))
    BY <1>1 DEF Failed, Sound
  <1>6. Types'
    <2>1. Regular'
      BY <1>0 DEF Types, Regular, Alone
    <2>2. AncestorClosed(known')
      BY <1>0, <1>1 DEF Types, HeaderAcceptable, AncestorClosed
    <2>3. candidates' \subseteq linked' /\ Waiting' \subseteq have' /\ linked' = {x \in Blocks : Branch[x] \subseteq have'}
      BY <1>2, <1>4 DEF Links
    <2>4. mostWork' \in [Threads -> linked' \cup {None}]
      BY <1>3, <1>4
    <2>5. failedChild' \subseteq linked' /\ failedValid' \ linked' \subseteq FailsCheck
      BY <1>0, <1>1, <1>4 DEF Types
    <2>6. Genesis \in have' /\ have' \subseteq known' /\ known' \subseteq Blocks /\ have' \cap FailsCheck = {}
      <3>1. Genesis \in have /\ have \subseteq known /\ known \subseteq Blocks /\ have \cap FailsCheck = {}
        BY <1>0 DEF Types
      <3>2. b \notin FailsCheck /\ known' = known \cup {b} /\ have' = have \cup {b}
        BY <1>1
      <3> QED BY <3>1, <3>2
    <2>7. /\ failedValid' \cup failedChild' \subseteq known' /\ tip' \in linked'
          /\ setup' \in Setups /\ busy' \subseteq setup'.callers
      BY <1>0, <1>1, <1>3, <1>4 DEF Types
    <2> QED BY <2>1, <2>2, <2>3, <2>4, <2>5, <2>6, <2>7 DEF Types
  <1>7. OrderTypes' /\ Order(seq', address')
    <2>1. \A x \in Blocks \ linked' : seq'[x] <= 0
      BY <1>0, <1>2, <1>4 DEF OrderTypes, Links
    <2> QED BY <1>0, <1>1, <1>2, <2>1 DEF OrderTypes, Links, Order
  <1>8. Levels'
    <2>1. \A x \in Blocks : valid[x] \in {0, TREE, TRANSACTIONS, SCRIPTS} /\ (x \in have <=> valid[x] >= TRANSACTIONS)
      BY <1>0 DEF Levels
    <2>2. \A x \in Blocks : valid'[x] = IF x = b THEN TRANSACTIONS ELSE valid[x]
      BY <1>0, <1>1 DEF Levels
    <2>3. {x \in Blocks : valid'[x] = SCRIPTS} = {x \in Blocks : valid[x] = SCRIPTS}
      BY <1>1, <2>1, <2>2, SMTT(30) DEF SCRIPTS, TRANSACTIONS
    <2>4. valid' \in [Blocks -> {0, TREE, TRANSACTIONS, SCRIPTS}]
      BY <1>0, <1>1 DEF Levels
    <2>5. \A x \in Blocks : x \in have' <=> valid'[x] >= TRANSACTIONS
      BY <1>1, <2>1, <2>2, SMTT(30) DEF TRANSACTIONS
    <2>6. \A x \in known' : valid'[x] >= TREE
      BY <1>0, <1>1, <2>2, SMTT(30) DEF Levels, Types, TREE, TRANSACTIONS
    <2>7. AncestorClosed({x \in Blocks : valid'[x] = SCRIPTS})
      BY <1>0, <2>3 DEF Levels
    <2>8. valid'[tip'] = SCRIPTS
      BY <1>0, <1>4, <2>3 DEF Levels
    <2> QED BY <2>4, <2>5, <2>6, <2>7, <2>8 DEF Levels
  <1>9. Marks'
    <2>1. ASSUME NEW x \in known', Failed(x)' PROVE ~NoneInvalid(x)'
      <3>1. Failed(x) /\ x \in known
        BY <1>0, <1>5, <2>1 DEF Types, Failed
      <3> QED BY <1>0, <1>1, <3>1 DEF Marks, NoneInvalid
    <2>2. \A x \in chainActive' : ~Failed(x)' /\ x \notin FailsConnect
      BY <1>0, <1>5 DEF chainActive, Marks
    <2> QED BY <1>0, <1>1, <2>1, <2>2 DEF Marks
  <1>10. \A x, y \in linked : Less(x, y)' <=> Less(x, y)
    <2>1. \A x \in linked : seq'[x] = seq[x]
      BY <1>2, <1>4 DEF Links
    <2> QED BY <1>1, <2>1 DEF Less, LessBy
  <1>11. CandidatesInv'
    <2>1. ASSUME NEW x \in candidates' PROVE ~Less(x, tip)'
      <3>1. CASE x \in candidates
        BY <1>0, <1>4, <1>10, <3>1 DEF CandidatesInv
      <3>2. CASE x \notin candidates
        BY <1>1, <1>2, <3>2 DEF Links, Less
      <3> QED BY <3>1, <3>2
    <2>2. PICK top \in candidates : top = tip \/ (Sound(top)' /\ Less(tip, top)')
      <3>1. ~Failed(tip)
        BY <1>0, ActiveSound
      <3>2. Covered(tip)
        BY <1>0, <1>4, <3>1 DEF CandidatesInv
      <3> QED BY <1>4, <1>5, <1>10, <3>2 DEF Covered
    <2>3. top \in candidates' /\ Sound(top)'
      BY <1>0, <1>2, <1>4, <1>5, <2>2, ActiveSound DEF Links
    <2>4. ASSUME NEW x \in linked', ~Failed(x)' PROVE Covered(x)'
      <3>1. CASE x \in linked
        <4>1. Covered(x)
          BY <1>0, <1>5, <2>4, <3>1 DEF CandidatesInv
        <4>2. candidates \subseteq candidates'
          BY <1>2 DEF Links
        <4> QED BY <1>4, <1>5, <1>10, <3>1, <4>1, <4>2 DEF Covered
      <3>2. CASE x \notin linked
        <4>1. CASE Less(x, tip)'
          <5>1. Less(x, top)'
            BY <1>4, <1>7, <2>2, <4>1, LessTransitive DEF Less
          <5> QED BY <2>3, <5>1 DEF Covered
        <4>2. CASE ~Less(x, tip)'
          <5>1. x \in candidates'
            BY <1>1, <1>2, <3>2, <4>2 DEF Links, Less
          <5> QED BY <5>1 DEF Covered
        <4> QED BY <4>1, <4>2
      <3> QED BY <3>1, <3>2
    <2> QED BY <2>1, <2>4 DEF CandidatesInv
  <1>12. PreciousInv'
    <2>1. CASE "preciousblock" \in setup.calls
      <3>1. \A x \in linked' : seq'[x] < 0 => x \in linked /\ seq'[x] = seq[x]
        <4>1. \A x \in Blocks : seq'[x] \in Int
          BY <1>7 DEF Order
        <4> QED BY <1>2, <1>4, <4>1, SMTT(30) DEF Links
      <3>2. ASSUME NEW x \in linked', ~Failed(x)', seq'[x] < 0
            PROVE  /\ nChainWork[x] <= nLastPreciousChainwork
                   /\ nChainWork[x] = nLastPreciousChainwork => seq'[x] > nBlockReverseSequenceId
        BY <1>0, <1>5, <2>1, <3>1, <3>2 DEF PreciousInv
      <3>3. ASSUME NEW x \in linked', NEW y \in linked', ~Failed(x)', ~Failed(y)', seq'[x] = seq'[y], seq'[x] < 0,
                   nChainWork[x] = nLastPreciousChainwork, nChainWork[y] = nLastPreciousChainwork
            PROVE  x = y
        <4>1. x \in linked /\ y \in linked /\ seq[x] = seq[y] /\ seq[x] < 0 /\ ~Failed(x) /\ ~Failed(y)
          BY <1>5, <3>1, <3>3
        <4> QED BY <1>0, <2>1, <3>3, <4>1 DEF PreciousInv
      <3>4. nLastPreciousChainwork > 0 =>
              /\ nBlockReverseSequenceId < -1
              /\ \E c \in linked' : Sound(c)' /\ nChainWork[c] >= nLastPreciousChainwork
        BY <1>0, <1>4, <1>5, <2>1 DEF PreciousInv
      <3> QED BY <1>1, <2>1, <3>2, <3>3, <3>4 DEF PreciousInv
    <2>2. CASE "preciousblock" \notin setup.calls
      BY <1>0, <1>1, <2>2 DEF PreciousInv
    <2> QED BY <2>1, <2>2
  <1> QED BY <1>2, <1>3, <1>6, <1>7, <1>8, <1>9, <1>11, <1>12 DEF IndexInv, Links

LEMMA ProcessNewBlockKeeps ==
  ASSUME FiniteTree, IndexInv, NEW t \in Threads, NEW b \in Blocks, ProcessNewBlock(t, b)
  PROVE  IndexInv'
  BY ProcessUnwantedKeeps, ProcessBadKeeps, ProcessGoodKeeps DEF ProcessNewBlock

-----------------------------------------------------------------------------
(* invalidateblock *)
LEMMA InvalidateKeeps ==
  ASSUME IndexInv, NEW t \in Threads, NEW b \in Blocks, InvalidateBlock(t, b)
  PROVE  IndexInv'
  <1> DEFINE walked == IF b \in chainActive THEN {x \in chainActive : b \in Branch[x]} ELSE {}
             newTip == IF b \in chainActive THEN Parent[b] ELSE tip
  <1>0. Types /\ OrderTypes /\ Levels /\ Marks /\ WaitingInv /\ CandidatesInv /\ TargetsInv /\ Order(seq, address)
    BY OrderIs DEF IndexInv
  <1>1. /\ Idle(t) /\ setup.calls # {}
        /\ failedValid' = failedValid \cup {b} /\ failedChild' = failedChild \cup walked
        /\ tip' = newTip
        /\ candidates' = (candidates \ (walked \cup {b})) \cup
                CandidatesAgain(newTip, failedValid' \cup failedChild')
        /\ Activate(t)
        /\ UNCHANGED <<known, have, valid, linked, order, unlinked, setup>>
    BY DEF InvalidateBlock
  <1>2. b \in linked \ {Genesis} /\ "preciousblock" \notin setup.calls
    <2>1. "invalidateblock" \in setup.calls
      BY DEF InvalidateBlock
    <2>2. setup.calls \subseteq {"invalidateblock", "reconsiderblock"}
      BY <1>0, <2>1 DEF Types, Regular
    <2>3. "invalidateblock unlinked" \notin setup.calls /\ "preciousblock" \notin setup.calls
      BY <2>2
    <2> QED BY <2>3 DEF InvalidateBlock
  <1>3. /\ mostWork' \in [Threads -> linked \cup {None}] /\ busy' \subseteq setup.callers
        /\ TargetsInv' /\ PeakInv'
    BY <1>0, <1>1, ActivateTargets
  <1>4. /\ tip \in linked /\ tip \in Blocks /\ chainActive \subseteq linked /\ linked \subseteq known /\ linked \subseteq Blocks
        /\ \A x \in chainActive : Sound(x) /\ ~Failed(x)
    BY <1>0, ActiveSound, LinkedClosed DEF Types
  <1>5. newTip \in chainActive /\ b \notin Branch[newTip]
    <2>1. CASE b \in chainActive
      <3>1. newTip = Parent[b] /\ Parent[b] \in chainActive /\ Parent[b] \in Blocks
        BY <1>2, <1>4, <2>1, BranchClosed DEF chainActive, AncestorClosed
      <3>2. nHeight[b] = nHeight[Parent[b]] + 1 /\ nHeight[Parent[b]] \in Nat
        BY <1>2, <3>1, TreeOfBlocks
      <3> QED BY <3>1, <3>2, BranchLower, SMTT(30)
    <2>2. CASE b \notin chainActive
      BY <1>4, <2>2, BranchClosed DEF chainActive
    <2> QED BY <2>1, <2>2
  <1>6. Branch[newTip] \subseteq chainActive /\ newTip \in Blocks /\ newTip \in linked /\ newTip \in Branch[newTip]
    BY <1>4, <1>5, BranchTransitive, BranchClosed DEF chainActive
  <1>7. newTip = tip \/ Less(newTip, tip)
    BY <1>4, <1>5, AncestorLess DEF chainActive, Less
  <1>8. walked \subseteq chainActive /\ \A x \in walked : b \in Branch[x]
    OBVIOUS
  <1> HIDE DEF newTip, walked
  <1>9. \A x \in Branch[newTip] : x \notin failedValid' \cup failedChild' /\ x \notin FailsConnect
    <2>1. \A x \in Branch[newTip] : x \in chainActive /\ x # b /\ x \notin walked
      BY <1>5, <1>6, <1>8, BranchTransitive
    <2> QED BY <1>0, <1>1, <2>1 DEF Marks, Failed
  <1>10. Types'
    <2>1. Regular'
      BY <1>0, <1>1 DEF Types, Regular, Alone
    <2>2. candidates' \subseteq linked
      BY <1>0, <1>1 DEF Types, CandidatesAgain
    <2>3. failedChild' \subseteq linked /\ failedValid' \ linked \subseteq FailsCheck /\ failedValid' \cup failedChild' \subseteq known
      <3>1. failedChild \subseteq linked /\ failedValid \ linked \subseteq FailsCheck /\ failedValid \cup failedChild \subseteq known
        BY <1>0 DEF Types
      <3>2. walked \subseteq linked /\ b \in linked /\ linked \subseteq known
        BY <1>2, <1>4, <1>8
      <3> QED BY <1>1, <3>1, <3>2
    <2> QED BY <1>0, <1>1, <1>3, <1>6, <2>1, <2>2, <2>3 DEF Types, Waiting
  <1>11. OrderTypes'
    BY <1>0, <1>1 DEF OrderTypes, order
  <1>12. Levels'
    <2> DEFINE S == {x \in Blocks : valid[x] = SCRIPTS}
    <2>1. tip \in S /\ S \in SUBSET Blocks /\ AncestorClosed(S)
      BY <1>0, <1>4 DEF Levels
    <2>2. chainActive \subseteq S
      <3> HIDE DEF S
      <3> QED BY <2>1, BranchLeast DEF chainActive
    <2>3. valid[newTip] = SCRIPTS
      BY <1>5, <2>2
    <2> QED BY <1>0, <1>1, <2>3 DEF Levels
  <1>13. Marks'
    <2>1. ASSUME NEW x \in known, Failed(x)' PROVE ~NoneInvalid(x)'
      <3>1. CASE Failed(x)
        BY <1>0, <1>1, <3>1 DEF Marks, NoneInvalid
      <3>2. CASE ~Failed(x)
        <4>1. b \in Branch[x]
          BY <1>1, <1>8, <2>1, <3>2, BranchClosed DEF Failed
        <4> QED BY <1>1, <4>1 DEF NoneInvalid
      <3> QED BY <3>1, <3>2
    <2>2. \A x \in chainActive' : ~Failed(x)' /\ x \notin FailsConnect
      BY <1>1, <1>9 DEF chainActive, Failed
    <2> QED BY <1>1, <2>1, <2>2 DEF Marks
  <1>14. WaitingInv'
    BY <1>0, <1>1 DEF WaitingInv, Waiting
  <1>15. CandidatesInv'
    <2>1. PICK top : top = newTip
      OBVIOUS
    <2>2. ASSUME NEW x \in candidates' PROVE x \in linked /\ ~Less(x, newTip)
      <3>1. CASE x \in candidates
        <4>1. ~Less(x, tip) /\ x \in linked
          BY <1>0, <3>1 DEF CandidatesInv, Types
        <4> QED BY <1>0, <1>4, <1>6, <1>7, <4>1, LessTransitive DEF Less
      <3>2. CASE x \notin candidates
        BY <1>1, <3>2 DEF CandidatesAgain
      <3> QED BY <3>1, <3>2
    <2>3. \A x \in linked : valid[x] >= TRANSACTIONS
      BY <1>0, LinkedClosed DEF Levels
    <2>4. \A x \in linked : ~Failed(x)' /\ ~Less(x, top) => x \in candidates'
      BY <1>1, <2>1, <2>3 DEF CandidatesAgain, Failed
    <2>5. top \in candidates'
      <3>1. ~Failed(top)'
        BY <1>6, <1>9, <2>1 DEF Failed
      <3> QED BY <1>0, <1>6, <2>1, <2>4, <3>1, LessOrder DEF Less
    <2>6. Sound(top)'
      BY <1>9, <2>1 DEF Sound
    <2>7. ASSUME NEW x \in linked, ~Failed(x)' PROVE Covered(x)'
      <3>1. CASE Less(x, top)
        <4>1. Less(x, top)'
          BY <1>1, <3>1 DEF Less, LessBy, order
        <4> QED BY <2>5, <2>6, <4>1 DEF Covered
      <3>2. CASE ~Less(x, top)
        BY <2>4, <2>7, <3>2 DEF Covered
      <3> QED BY <3>1, <3>2
    <2>8. \A x \in candidates' : ~Less(x, tip)'
      BY <1>1, <2>2 DEF Less, LessBy, order
    <2> QED BY <1>1, <2>7, <2>8 DEF CandidatesInv
  <1>16. PreciousInv'
    BY <1>1, <1>2 DEF IndexInv, PreciousInv, order
  <1> QED BY <1>3, <1>10, <1>11, <1>12, <1>13, <1>14, <1>15, <1>16 DEF IndexInv

-----------------------------------------------------------------------------
(* reconsiderblock *)
LEMMA ReconsiderKeeps ==
  ASSUME IndexInv, NEW t \in Threads, NEW b \in Blocks, ReconsiderBlock(t, b)
  PROVE  IndexInv'
  <1> DEFINE cleared == NotValidBelow(b) \cup Branch[b]
  <1>0. Types /\ OrderTypes /\ Levels /\ Marks /\ WaitingInv /\ CandidatesInv /\ TargetsInv /\ Order(seq, address)
    BY OrderIs DEF IndexInv
  <1>1. /\ Failed(b) /\ Idle(t)
        /\ failedValid' = failedValid \ cleared /\ failedChild' = failedChild \ cleared
        /\ candidates' = candidates \cup CandidatesOf(b)
        /\ Activate(t)
        /\ UNCHANGED <<known, have, valid, linked, order, unlinked, tip, setup>>
    BY DEF ReconsiderBlock, ResetBlockFailureFlags
  <1>2. (\A x \in Ancestors(b) : ~Failed(x)) /\ "preciousblock" \notin setup.calls /\ setup.calls # {}
    <2>1. "reconsiderblock" \in setup.calls
      BY DEF ReconsiderBlock
    <2>2. setup.calls \subseteq {"invalidateblock", "reconsiderblock"}
      BY <1>0, <2>1 DEF Types, Regular
    <2>3. "reconsiderblock below" \notin setup.calls /\ "preciousblock" \notin setup.calls
      BY <2>2
    <2> QED BY <2>1, <2>3 DEF ReconsiderBlock
  <1>3. /\ mostWork' \in [Threads -> linked \cup {None}] /\ busy' \subseteq setup.callers
        /\ TargetsInv' /\ PeakInv'
    BY <1>0, <1>1, ActivateTargets
  <1>4. /\ tip \in linked /\ tip \in Blocks /\ linked \subseteq known /\ linked \subseteq Blocks
        /\ \A x \in chainActive : Sound(x) /\ ~Failed(x)
        /\ b \in known /\ known \subseteq Blocks /\ b \in Branch[b]
    BY <1>0, <1>1, ActiveSound, LinkedClosed, BranchClosed DEF Types, Failed
  <1>5. \A x \in known : Failed(x) /\ b \in Branch[x] => x \in NotValidBelow(b)
    BY DEF NotValidBelow, IsValid
  <1>6. \A x \in Branch[b] : Failed(x) => x = b
    BY <1>2 DEF Ancestors
  <1>7. \A x \in known : Failed(x)' <=> Failed(x) /\ b \notin Branch[x]
    BY <1>1, <1>4, <1>5, <1>6 DEF Failed, NotValidBelow
  <1> HIDE DEF cleared
  <1>8. Types'
    <2>1. Regular'
      BY <1>0, <1>1 DEF Types, Regular, Alone
    <2>2. candidates' \subseteq linked
      BY <1>0, <1>1 DEF Types, CandidatesOf
    <2>3. failedChild' \subseteq linked /\ failedValid' \ linked \subseteq FailsCheck /\ failedValid' \cup failedChild' \subseteq known
      BY <1>0, <1>1 DEF Types
    <2> QED BY <1>0, <1>1, <1>3, <2>1, <2>2, <2>3 DEF Types, Waiting
  <1>9. OrderTypes'
    BY <1>0, <1>1 DEF OrderTypes, order
  <1>10. Levels'
    BY <1>0, <1>1 DEF Levels
  <1>11. Marks'
    <2>1. ASSUME NEW x \in known, Failed(x)' PROVE ~NoneInvalid(x)'
      <3>1. Failed(x) /\ b \notin Branch[x]
        BY <1>7, <2>1
      <3>2. PICK z \in Branch[x] : z \in failedValid
        BY <1>0, <3>1 DEF Marks, NoneInvalid
      <3>3. z \in known /\ Failed(z) /\ b \notin Branch[z]
        BY <1>0, <1>4, <3>1, <3>2, BranchTransitive DEF Types, Failed
      <3>4. z \in failedValid'
        BY <1>1, <1>4, <1>6, <3>2, <3>3 DEF cleared, NotValidBelow
      <3> QED BY <3>2, <3>4 DEF NoneInvalid
    <2>2. \A x \in chainActive' : ~Failed(x)' /\ x \notin FailsConnect
      BY <1>0, <1>1, <1>4 DEF chainActive, Failed, Marks
    <2> QED BY <1>1, <1>2, <2>1, <2>2 DEF Marks
  <1>12. WaitingInv'
    BY <1>0, <1>1 DEF WaitingInv, Waiting
  <1>13. CandidatesInv'
    <2>1. \A x, y \in Blocks : Less(x, y)' <=> Less(x, y)
      BY <1>1 DEF order, Less, LessBy
    <2>2. \A x \in Blocks : Sound(x) => Sound(x)'
      BY <1>1 DEF Sound
    <2>3. candidates \subseteq linked /\ candidates \subseteq candidates' /\ candidates' \subseteq linked
      BY <1>0, <1>1 DEF Types, CandidatesOf
    <2>4. ASSUME NEW x \in candidates' PROVE ~Less(x, tip)
      <3>1. CASE x \in candidates
        BY <1>0, <3>1 DEF CandidatesInv
      <3>2. CASE x \notin candidates
        <4>1. Less(tip, x) /\ x \in Blocks
          BY <1>1, <1>4, <2>3, <3>2 DEF CandidatesOf
        <4> QED BY <1>0, <1>4, <4>1, LessOrder DEF Less
      <3> QED BY <3>1, <3>2
    <2>5. \A x \in linked : Covered(x) => Covered(x)'
      BY <1>4, <2>1, <2>2, <2>3 DEF Covered
    <2>6. Covered(tip)
      BY <1>0, <1>4, ActiveSound DEF CandidatesInv
    <2>7. PICK top \in candidates : Sound(top) /\ (top = tip \/ Less(tip, top))
      BY <1>0, <2>6, ActiveSound DEF Covered
    <2>8. ASSUME NEW x \in linked, ~Failed(x)' PROVE Covered(x)'
      <3>1. CASE ~Failed(x)
        BY <1>0, <2>5, <3>1 DEF CandidatesInv
      <3>2. CASE Failed(x)
        <4>1. x \in NotValidBelow(b) /\ valid[x] >= TRANSACTIONS
          <5>1. x \in NotValidBelow(b)
            BY <1>4, <1>5, <1>7, <2>8, <3>2
          <5>2. valid[x] >= TRANSACTIONS
            BY <1>0, LinkedClosed DEF Levels
          <5> QED BY <5>1, <5>2
        <4>2. CASE Less(tip, x)
          BY <1>1, <4>1, <4>2 DEF CandidatesOf, Covered
        <4>3. CASE ~Less(tip, x)
          <5>1. Less(x, tip)
            <6>1. x # tip
              BY <1>0, <3>2, ActiveSound
            <6> QED BY <1>0, <1>4, <4>3, <6>1, LessOrder DEF Less
          <5>2. Less(x, top)
            BY <1>0, <1>4, <2>3, <2>7, <5>1, LessTransitive DEF Less
          <5> QED BY <1>4, <2>1, <2>2, <2>3, <2>7, <5>2 DEF Covered
        <4> QED BY <4>2, <4>3
      <3> QED BY <3>1, <3>2
    <2>9. \A x \in candidates' : ~Less(x, tip)'
      BY <1>4, <2>1, <2>3, <2>4, <1>1
    <2> QED BY <1>1, <2>8, <2>9 DEF CandidatesInv
  <1>14. PreciousInv'
    BY <1>1, <1>2 DEF IndexInv, PreciousInv, order
  <1> QED BY <1>3, <1>8, <1>9, <1>10, <1>11, <1>12, <1>13, <1>14 DEF IndexInv

-----------------------------------------------------------------------------
(* preciousblock: the new nSequenceId is less than that of every block as  *)
(* good as the tip.                                                        *)
LEMMA ReverseSequenceIdIs ==
  ASSUME IndexInv, "preciousblock" \in setup.calls, Peak(tip)
  PROVE  /\ ReverseSequenceId \in Int /\ ReverseSequenceId < 0
         /\ nLastPreciousChainwork <= nChainWork[tip]
         /\ \A x \in linked : ~Failed(x) /\ nChainWork[x] = nChainWork[tip] => seq[x] > ReverseSequenceId
         /\ \A x \in linked : ~Failed(x) => nChainWork[x] <= nChainWork[tip]
  <1>0. Types /\ OrderTypes /\ Marks /\ PreciousInv
    BY DEF IndexInv
  <1>1. nChainWork[tip] \in Nat /\ tip \in Blocks /\ \A x \in linked : nChainWork[x] \in Nat /\ seq[x] \in Int
    BY <1>0, LinkedClosed, ActiveSound, BestChainConstants DEF OrderTypes
  <1>2. \A x \in linked : ~Failed(x) => nChainWork[x] <= nChainWork[tip]
    BY <1>1, SMTT(30) DEF Peak, Less, LessBy
  <1>3. nLastPreciousChainwork \in Nat /\ nBlockReverseSequenceId \in Int /\ nBlockReverseSequenceId < 0
    BY <1>0 DEF OrderTypes
  <1>4. nLastPreciousChainwork <= nChainWork[tip]
    <2>1. CASE nLastPreciousChainwork > 0
      <3>1. PICK c \in linked : Sound(c) /\ nChainWork[c] >= nLastPreciousChainwork
        BY <1>0, <2>1 DEF PreciousInv
      <3>2. ~Failed(c)
        BY <1>0, <3>1, Unmarked, LinkedClosed
      <3> QED BY <1>1, <1>2, <1>3, <3>1, <3>2, SMTT(30)
    <2> QED BY <1>1, <1>3, <2>1, SMTT(30)
  <1>5. ASSUME NEW x \in linked, ~Failed(x), nChainWork[x] = nChainWork[tip] PROVE seq[x] > ReverseSequenceId
    <2>1. seq[x] < 0 => /\ nChainWork[x] <= nLastPreciousChainwork
                        /\ nChainWork[x] = nLastPreciousChainwork => seq[x] > nBlockReverseSequenceId
      BY <1>0, <1>5 DEF PreciousInv
    <2> QED BY <1>1, <1>3, <1>4, <1>5, <2>1, SMTT(30) DEF ReverseSequenceId
  <1> QED BY <1>2, <1>3, <1>4, <1>5, SMTT(30) DEF ReverseSequenceId

LEMMA PreciousKeeps ==
  ASSUME IndexInv, NEW t \in Threads, NEW b \in Blocks, PreciousBlock(t, b)
  PROVE  IndexInv'
  <1>0. Types /\ OrderTypes /\ Levels /\ Marks /\ WaitingInv /\ CandidatesInv /\ TargetsInv /\ PreciousInv /\ Order(seq, address)
    BY OrderIs DEF IndexInv
  <1>a. PICK id : id = ReverseSequenceId
    OBVIOUS
  <1>1. /\ "preciousblock" \in setup.calls /\ Idle(t)
        /\ nChainWork[b] >= nChainWork[tip]
        /\ nLastPreciousChainwork' = nChainWork[tip]
        /\ seq' = [seq EXCEPT ![b] = id]
        /\ nBlockReverseSequenceId' = id - 1
        /\ candidates' = CandidatesPrecious(b, seq')
        /\ Activate(t)
        /\ UNCHANGED <<known, have, valid, failedValid, failedChild, linked, nBlockSequenceId, address, unlinked, tip, setup>>
    BY <1>a DEF PreciousBlock, index
  <1>2. Alone /\ Peak(tip)
    <2>1. Alone /\ busy = {}
      BY <1>0, <1>1, AloneIdle
    <2> QED BY <2>1 DEF IndexInv, PeakInv
  <1>3. /\ mostWork' \in [Threads -> linked \cup {None}] /\ busy' \subseteq setup.callers
        /\ TargetsInv' /\ PeakInv'
    BY <1>0, <1>1, ActivateTargets
  <1>4. /\ id \in Int /\ id < 0
        /\ nLastPreciousChainwork <= nChainWork[tip]
        /\ \A x \in linked : ~Failed(x) /\ nChainWork[x] = nChainWork[tip] => seq[x] > id
        /\ \A x \in linked : ~Failed(x) => nChainWork[x] <= nChainWork[tip]
    BY <1>1, <1>2, <1>a, ReverseSequenceIdIs
  <1>5. /\ tip \in linked /\ tip \in Blocks /\ linked \subseteq Blocks /\ ~Failed(tip) /\ Sound(tip)
        /\ candidates \subseteq linked
    BY <1>0, ActiveSound, LinkedClosed DEF Types
  <1>6. (\A x : Failed(x)' <=> Failed(x)) /\ (\A x \in Blocks : Sound(x)' <=> Sound(x))
    BY <1>1 DEF Failed, Sound
  <1>7. \A x \in Blocks : seq'[x] = IF x = b THEN id ELSE seq[x]
    BY <1>0, <1>1 DEF Order
  <1>8. \A x \in linked : valid[x] >= TRANSACTIONS
    BY <1>0, LinkedClosed DEF Levels
  <1>9. candidates' = IF b \in linked /\ ~Failed(b)
                      THEN {x \in candidates \cup {b} : ~LessBy(seq', address, x, tip)}
                      ELSE candidates \ {b}
    BY <1>1, <1>8 DEF CandidatesPrecious, IsValid
  <1>10. Types'
    <2>1. Regular'
      BY <1>0, <1>1 DEF Types, Regular, Alone
    <2>2. candidates' \subseteq linked
      BY <1>5, <1>9
    <2> QED BY <1>0, <1>1, <1>3, <2>1, <2>2 DEF Types, Waiting
  <1>11. OrderTypes' /\ Order(seq', address')
    <2>1. nChainWork[tip] \in Nat
      BY <1>5, BestChainConstants
    <2>2. \A x \in Blocks \ linked : seq'[x] <= 0
      BY <1>0, <1>4, <1>7, SMTT(30) DEF OrderTypes
    <2> QED BY <1>0, <1>1, <1>4, <2>1, <2>2, SMTT(30) DEF OrderTypes, Order
  <1>12. Levels'
    BY <1>0, <1>1 DEF Levels
  <1>13. Marks'
    BY <1>0, <1>1, <1>6 DEF Marks, NoneInvalid, chainActive
  <1>14. WaitingInv'
    BY <1>0, <1>1 DEF WaitingInv, Waiting
  <1>15. CandidatesInv'
    <2>1. tip \in candidates
      <3>1. ASSUME NEW c \in candidates, Sound(c), Less(tip, c) PROVE FALSE
        <4>1. c \in linked /\ ~Failed(c)
          BY <1>0, <1>5, <3>1, Unmarked, LinkedClosed
        <4> QED BY <1>2, <3>1, <4>1 DEF Peak
      <3> QED BY <1>0, <1>5, <3>1 DEF CandidatesInv, Covered
    <2>2. ASSUME NEW x \in linked, ~Failed(x), x # b, x # tip PROVE LessBy(seq', address, x, tip)
      <3>1. LessBy(seq, address, x, tip)
        BY <1>0, <1>2, <1>5, <2>2, LessOrder DEF Peak, Less
      <3>2. seq'[x] = seq[x] /\ seq[x] \in Int /\ seq'[tip] = IF tip = b THEN id ELSE seq[tip]
        BY <1>0, <1>5, <1>7, <2>2 DEF Order
      <3>3. nChainWork[x] = nChainWork[tip] => seq[x] > id
        BY <1>4, <2>2
      <3> QED BY <1>4, <3>1, <3>2, <3>3 DEF LessBy
    <2>3. tip \in candidates' /\ Sound(tip)'
      <3>1. ~LessBy(seq', address, tip, tip)
        BY <1>1, <1>5, <1>11, LessOrder
      <3>2. b = tip => b \in linked /\ ~Failed(b)
        BY <1>5
      <3> QED BY <1>1, <1>5, <1>6, <1>9, <2>1, <3>1, <3>2
    <2>4. ASSUME NEW x \in linked, ~Failed(x)' PROVE Covered(x)'
      <3>0. ~Failed(x)
        BY <1>6, <2>4
      <3>1. CASE x = tip
        BY <2>3, <3>1 DEF Covered
      <3>2. CASE x # tip /\ LessBy(seq', address, x, tip)
        <4>1. Less(x, tip)'
          BY <1>1, <3>2 DEF Less
        <4> QED BY <1>1, <2>3, <4>1 DEF Covered
      <3>3. CASE x # tip /\ ~LessBy(seq', address, x, tip)
        <4>1. x = b
          BY <2>2, <3>0, <3>3
        <4>2. x \in candidates'
          BY <1>9, <3>0, <3>3, <4>1
        <4> QED BY <4>2 DEF Covered
      <3> QED BY <3>1, <3>2, <3>3
    <2>5. ASSUME NEW x \in candidates' PROVE ~LessBy(seq', address, x, tip)
      <3>1. CASE b \in linked /\ ~Failed(b)
        BY <1>9, <3>1
      <3>2. CASE ~(b \in linked /\ ~Failed(b))
        <4>1. x \in candidates /\ x # b /\ b # tip
          BY <1>5, <1>9, <3>2
        <4>2. seq'[x] = seq[x] /\ seq'[tip] = seq[tip] /\ ~LessBy(seq, address, x, tip)
          BY <1>0, <1>5, <1>7, <4>1 DEF CandidatesInv, Less
        <4> QED BY <4>2 DEF LessBy
      <3> QED BY <3>1, <3>2
    <2>6. \A x \in candidates' : ~Less(x, tip)'
      BY <1>1, <2>5 DEF Less
    <2> QED BY <1>1, <2>4, <2>6 DEF CandidatesInv
  <1>16. PreciousInv'
    <2>0. \A x \in linked : nChainWork[x] \in Nat /\ seq[x] \in Int /\ seq'[x] = IF x = b THEN id ELSE seq[x]
      BY <1>0, <1>5, <1>7, BestChainConstants DEF Order
    <2>a. nChainWork[tip] \in Nat /\ nLastPreciousChainwork \in Nat
      BY <1>0, <1>5, BestChainConstants DEF OrderTypes
    <2>1. ASSUME NEW x \in linked, ~Failed(x)', seq'[x] < 0
          PROVE  nChainWork[x] <= nChainWork[tip] /\ (nChainWork[x] = nChainWork[tip] => seq'[x] > id - 1)
      BY <1>4, <1>6, <2>0, <2>1, SMTT(30)
    <2>2. ASSUME NEW x \in linked, NEW y \in linked, ~Failed(x)', ~Failed(y)', seq'[x] = seq'[y], seq'[x] < 0,
                 nChainWork[x] = nChainWork[tip], nChainWork[y] = nChainWork[tip]
          PROVE  x = y
      <3>1. ~Failed(x) /\ ~Failed(y) /\ seq[x] > id /\ seq[y] > id
        BY <1>4, <1>6, <2>2
      <3>2. CASE x = b \/ y = b
        BY <1>4, <2>0, <2>2, <3>1, <3>2, SMTT(30)
      <3>3. CASE x # b /\ y # b
        <4>1. seq[x] = seq[y] /\ seq[x] < 0
          BY <2>0, <2>2, <3>3
        <4>2. nChainWork[x] <= nLastPreciousChainwork
          BY <1>0, <1>1, <3>1, <4>1 DEF PreciousInv
        <4>3. nChainWork[x] = nLastPreciousChainwork /\ nChainWork[y] = nLastPreciousChainwork
          BY <1>4, <2>a, <2>2, <4>2, SMTT(30)
        <4> QED BY <1>0, <1>1, <3>1, <4>1, <4>3 DEF PreciousInv
      <3> QED BY <3>2, <3>3
    <2>3. id - 1 < -1
      BY <1>4, SMTT(30)
    <2>4. \E c \in linked : Sound(c)' /\ nChainWork[c] >= nChainWork[tip]
      BY <1>5, <1>6, <2>a, SMTT(30)
    <2> QED BY <1>1, <2>1, <2>2, <2>3, <2>4 DEF PreciousInv
  <1> QED BY <1>3, <1>10, <1>11, <1>12, <1>13, <1>14, <1>15, <1>16 DEF IndexInv

-----------------------------------------------------------------------------
(* A restart. *)
LEMMA RestartKeeps ==
  ASSUME FiniteTree, IndexInv, NEW t \in Threads, Restart(t)
  PROVE  IndexInv'
  <1>0. Types /\ OrderTypes /\ Levels /\ Marks
    BY DEF IndexInv
  <1>1. PICK lost \in SUBSET unsaved :
        /\ failedChild' = failedChild \ lost
        /\ linked' = {b \in known : \A x \in Branch[b] : x \in have}
        /\ seq' = [b \in Blocks |-> 0]
        /\ address' \in setup.orders
        /\ candidates' = {b \in linked' : /\ b \notin failedValid \cup failedChild'
                                          /\ valid[b] >= TRANSACTIONS
                                          /\ ~LessBy(seq', address', b, tip)}
        /\ Waiting' = {b \in have \ {Genesis} : Parent[b] \notin linked'}
        /\ nBlockSequenceId' = 1 /\ nBlockReverseSequenceId' = -1 /\ nLastPreciousChainwork' = 0
        /\ busy' = {t} /\ mostWork' = [c \in Threads |-> None]
    BY DEF Restart, LoadBlockIndex, Waiting
  <1>2. t \in setup.callers /\ UNCHANGED <<known, have, valid, failedValid, tip, setup>>
    BY DEF Restart
  <1>3. linked' = linked
    <2>1. \A b \in linked : b \in Branch[b] /\ Branch[b] \subseteq have
      BY <1>0, LinkedClosed
    <2> QED BY <1>0, <1>1, <2>1 DEF Types
  <1>4. /\ tip \in linked /\ tip \in Blocks /\ linked \subseteq Blocks
        /\ \A x \in chainActive : ~Failed(x) /\ Sound(x)
    BY <1>0, ActiveSound, LinkedClosed DEF Types
  <1>5. Order(seq', address')
    <2>1. address' \in Injection(Blocks, Nat)
      BY <1>0, <1>1, BestChainConstants DEF Types
    <2> QED BY <1>1, <2>1, SMTT(30) DEF Order
  <1>6. Types'
    <2>1. Regular'
      BY <1>0, <1>2 DEF Types, Regular, Alone
    <2>2. candidates' \subseteq linked /\ Waiting' \subseteq have /\ failedChild' \subseteq failedChild
      BY <1>1, <1>3
    <2>3. busy' \subseteq setup.callers /\ mostWork' \in [Threads -> linked \cup {None}]
      BY <1>1, <1>2
    <2> QED BY <1>0, <1>2, <1>3, <2>1, <2>2, <2>3 DEF Types
  <1>7. OrderTypes'
    BY <1>1, <1>5, SMTT(30) DEF OrderTypes, Order
  <1>8. Levels'
    BY <1>0, <1>2 DEF Levels
  <1>9. Marks'
    <2>1. \A x : Failed(x)' => Failed(x)
      BY <1>1, <1>2 DEF Failed
    <2> QED BY <1>0, <1>2, <2>1 DEF Marks, NoneInvalid, chainActive
  <1>10. WaitingInv'
    <2>1. \A b \in linked \ {Genesis} : Parent[b] \in linked
      <3>1. \A b \in linked : Branch[b] \subseteq linked /\ AncestorClosed(Branch[b]) /\ b \in Branch[b]
        BY <1>0, <1>4, LinkedClosed, BranchClosed
      <3> QED BY <3>1 DEF AncestorClosed
    <2>2. ASSUME NEW b \in have \ linked PROVE b # Genesis /\ Parent[b] \notin linked
      <3>1. b \in Blocks /\ Genesis \in linked
        BY <1>0, <1>4, LinkedClosed, GenesisInBranch DEF Types
      <3>2. Branch[b] = Branch[Parent[b]] \cup {b}
        BY <2>2, <3>1, BranchOfChild
      <3> QED BY <1>0, <2>2, <3>1, <3>2 DEF Types
    <2> QED BY <1>1, <1>2, <1>3, <2>1, <2>2 DEF WaitingInv
  <1>11. CandidatesInv'
    <2>1. \A x \in linked : valid[x] >= TRANSACTIONS
      BY <1>0, LinkedClosed DEF Levels
    <2>2. \A x \in candidates' : ~Less(x, tip)'
      BY <1>1, <1>2 DEF Less
    <2>3. tip \in candidates' /\ Sound(tip)'
      <3>1. ~LessBy(seq', address', tip, tip)
        BY <1>4, <1>5, LessOrder
      <3>2. ~Failed(tip) /\ Sound(tip)
        BY <1>0, ActiveSound
      <3> QED BY <1>1, <1>2, <1>3, <1>4, <2>1, <3>1, <3>2 DEF Failed, Sound
    <2>4. ASSUME NEW x \in linked, ~Failed(x)' PROVE Covered(x)'
      <3>1. CASE LessBy(seq', address', x, tip)
        <4>1. Less(x, tip)'
          BY <1>2, <3>1 DEF Less
        <4> QED BY <1>2, <2>3, <4>1 DEF Covered
      <3>2. CASE ~LessBy(seq', address', x, tip)
        BY <1>1, <1>2, <1>3, <2>1, <2>4, <3>2 DEF Covered, Failed
      <3> QED BY <3>1, <3>2
    <2> QED BY <1>3, <2>2, <2>4 DEF CandidatesInv
  <1>12. TargetsInv' /\ PeakInv'
    BY <1>1 DEF TargetsInv, PeakInv
  <1>13. PreciousInv'
    BY <1>1, <1>3, <1>4, SMTT(30) DEF PreciousInv
  <1> QED BY <1>6, <1>7, <1>8, <1>9, <1>10, <1>11, <1>12, <1>13 DEF IndexInv


(* In the states of the invariant the candidates are those CheckBlockIndex *)
(* expects.                                                                *)
LEMMA CandidatesAreComplete ==
  ASSUME IndexInv
  PROVE  CandidatesComplete
  <1>0. Types /\ Marks /\ CandidatesInv /\ PeakInv /\ Order(seq, address)
    BY OrderIs DEF IndexInv
  <1>1. /\ tip \in linked /\ tip \in Blocks /\ ~Failed(tip) /\ linked \subseteq Blocks /\ candidates \subseteq linked
    BY <1>0, ActiveSound, LinkedClosed DEF Types
  <1>2. candidates # {}
    BY <1>0, <1>1 DEF CandidatesInv, Covered
  <1>3. ASSUME Alone, busy = {}, NEW b \in linked, ~Less(b, tip), NoneInvalid(b) PROVE b \in candidates
    <2>1. ~Failed(b) /\ Peak(tip)
      BY <1>0, <1>3, Unmarked, LinkedClosed DEF PeakInv
    <2>2. ASSUME NEW c \in candidates, Sound(c), Less(b, c) PROVE FALSE
      <3>1. c \in linked /\ ~Failed(c)
        BY <1>0, <1>1, <2>2, Unmarked, LinkedClosed
      <3>2. c = tip \/ Less(c, tip)
        BY <1>0, <1>1, <2>1, <3>1, LessOrder DEF Peak, Less
      <3> QED BY <1>0, <1>1, <1>3, <2>2, <3>1, <3>2, LessTransitive DEF Less
    <2> QED BY <1>0, <2>1, <2>2 DEF CandidatesInv, Covered
  <1> QED BY <1>0, <1>1, <1>2, <1>3 DEF CandidatesComplete, CandidatesInv

-----------------------------------------------------------------------------
LEMMA InitIndex ==
  ASSUME Init, Regular
  PROVE  IndexInv
  <1>1. Genesis \in Blocks /\ Branch[Genesis] = {Genesis} /\ \A b \in Blocks : b \in Branch[b]
    BY TreeOfBlocks, BranchOfGenesis, BranchClosed
  <1>2. linked = {b \in Blocks : Branch[b] \subseteq have} /\ linked = {Genesis} /\ have = {Genesis} /\ known = {Genesis}
    BY <1>1 DEF Init
  <1>3. \A b : ~Failed(b)
    BY DEF Init, Failed
  <1>4. Order(seq, address)
    BY BestChainConstants, SMTT(30) DEF Init, Order
  <1>5. Types
    <2>1. Waiting = {}
      BY SMTT(30) DEF Init, Waiting
    <2> QED BY <1>1, <1>2, <2>1, BestChainConstants, SMTT(30) DEF Init, Types, AncestorClosed
  <1>6. OrderTypes
    BY <1>4, SMTT(30) DEF Init, Order, OrderTypes
  <1>7. Levels
    <2>1. valid = [b \in Blocks |-> IF b = Genesis THEN SCRIPTS ELSE 0] /\ tip = Genesis
      BY DEF Init
    <2>2. {b \in Blocks : valid[b] = SCRIPTS} = {Genesis}
      BY <1>1, <2>1, SMTT(30) DEF SCRIPTS
    <2> QED BY <1>1, <1>2, <2>1, <2>2, SMTT(30) DEF Levels, AncestorClosed, SCRIPTS, TRANSACTIONS, TREE
  <1>8. Marks
    BY <1>1, <1>3, BestChainConstants DEF Init, Marks, chainActive
  <1>9. WaitingInv
    BY <1>2, SMTT(30) DEF Init, WaitingInv, Waiting
  <1>10. ~Less(Genesis, Genesis)
    BY <1>1, <1>4, LessOrder DEF Less
  <1>11. CandidatesInv
    BY <1>2, <1>10 DEF Init, CandidatesInv, Covered
  <1>12. TargetsInv
    BY DEF Init, TargetsInv
  <1>13. PeakInv
    BY <1>2, <1>10 DEF Init, PeakInv, Peak
  <1>14. PreciousInv
    BY <1>1, <1>2, SMTT(30) DEF Init, PreciousInv
  <1> QED BY <1>5, <1>6, <1>7, <1>8, <1>9, <1>11, <1>12, <1>13, <1>14 DEF IndexInv

(* Every step preserves the invariant. *)
LEMMA NextKeeps ==
  ASSUME FiniteTree, IndexInv, [Next]_vars
  PROVE  IndexInv'
  <1>1. ASSUME NEW b \in Blocks, AcceptBlockHeader(b) PROVE IndexInv'
    BY <1>1, AcceptBlockHeaderKeeps
  <1>2. ASSUME NEW t \in Threads, NEW b \in Blocks, ProcessNewBlock(t, b) PROVE IndexInv'
    BY <1>2, ProcessNewBlockKeeps
  <1>3. ASSUME NEW t \in Threads, ActivateBestChain(t) PROVE IndexInv'
    BY <1>3, ActivateKeeps
  <1>4. ASSUME NEW t \in Threads, NEW b \in Blocks, InvalidateBlock(t, b) PROVE IndexInv'
    BY <1>4, InvalidateKeeps
  <1>5. ASSUME NEW t \in Threads, NEW b \in Blocks, ReconsiderBlock(t, b) PROVE IndexInv'
    BY <1>5, ReconsiderKeeps
  <1>6. ASSUME NEW t \in Threads, NEW b \in Blocks, PreciousBlock(t, b) PROVE IndexInv'
    BY <1>6, PreciousKeeps
  <1>7. ASSUME NEW t \in Threads, Restart(t) PROVE IndexInv'
    BY <1>7, RestartKeeps
  <1>8. CASE UNCHANGED vars
    <2>1. UNCHANGED <<known, have, valid, failedValid, failedChild, linked, seq, nBlockSequenceId,
                      nBlockReverseSequenceId, nLastPreciousChainwork, address, candidates, unlinked,
                      tip, busy, mostWork, setup>>
      BY <1>8 DEF vars, index, order
    <2>2. /\ \A x : (Failed(x)' <=> Failed(x)) /\ (NoneInvalid(x)' <=> NoneInvalid(x)) /\ (Sound(x)' <=> Sound(x))
          /\ \A x, y : Less(x, y)' <=> Less(x, y)
          /\ Alone' <=> Alone
      BY <2>1 DEF Failed, NoneInvalid, Sound, Less, LessBy, Alone
    <2>3. \A x : (Peak(x)' <=> Peak(x)) /\ (Covered(x)' <=> Covered(x))
      BY <2>1, <2>2 DEF Peak, Covered
    <2>4. Types'
      BY <2>1, <2>2 DEF IndexInv, Types, Waiting, Regular
    <2>5. OrderTypes' /\ Levels' /\ WaitingInv'
      BY <2>1 DEF IndexInv, OrderTypes, Levels, WaitingInv, Waiting
    <2>6. Marks'
      BY <2>1, <2>2 DEF IndexInv, Marks, chainActive
    <2>7. CandidatesInv'
      BY <2>1, <2>2, <2>3 DEF IndexInv, CandidatesInv
    <2>8. TargetsInv' /\ PeakInv'
      BY <2>1, <2>2, <2>3 DEF IndexInv, TargetsInv, PeakInv
    <2>9. PreciousInv'
      BY <2>1, <2>2 DEF IndexInv, PreciousInv
    <2> QED BY <2>4, <2>5, <2>6, <2>7, <2>8, <2>9 DEF IndexInv
  <1> QED BY <1>1, <1>2, <1>3, <1>4, <1>5, <1>6, <1>7, <1>8 DEF Next

(* A step of a thread that is alone gives up work only for a block that is *)
(* found or declared invalid.                                              *)
LEMMA WorkKept ==
  ASSUME FiniteTree, IndexInv, [Next]_vars, Alone, nChainWork[tip'] < nChainWork[tip], failedValid' = failedValid
  PROVE  FALSE
  <1>0. Types /\ Marks /\ tip \in Blocks /\ nChainWork[tip] \in Nat
    BY ActiveSound, BestChainConstants DEF IndexInv
  <1>1. tip' # tip
    BY <1>0, SMTT(30)
  <1>2. ASSUME NEW t \in Threads, ActivateBestChain(t) PROVE FALSE
    <2> DEFINE fresh == mostWork[t] = None
               m == IF fresh THEN FindMostWorkChain ELSE mostWork[t]
               marked == IF fresh THEN NewlyFailed ELSE {}
               cands == IF fresh THEN UsableCandidates ELSE candidates
               last == StepTo(m)
               newTip == IF last \in FailsConnect THEN Parent[last] ELSE last
               connected == (Branch[last] \ Branch[FindFork(m)]) \ FailsConnect
    <2>1. Chosen(m, marked, cands)
      BY ChosenFresh, ChosenStale
    <2>2. tip' = newTip /\ failedValid' = IF last \in FailsConnect THEN failedValid \cup {last} ELSE failedValid
      BY <1>1, <1>2 DEF ActivateBestChain, ConnectTo
    <2> HIDE DEF m, marked, cands
    <2>3. Reaches(m, marked, last, newTip, connected)
      BY <2>1, StepReaches
    <2> HIDE DEF last, newTip, connected
    <2>4. last \notin FailsConnect
      <3>1. last \in Branch[m] /\ ~Failed(last)
        BY <2>1, <2>3 DEF Reaches, Chosen
      <3> QED BY <2>2, <3>1 DEF Failed
    <2>5. nChainWork[tip] <= nChainWork[newTip] /\ newTip \in Blocks
      BY <1>0, <2>3, <2>4, LinkedClosed DEF Reaches
    <2> QED BY <1>0, <2>2, <2>5, BestChainConstants, SMTT(30)
  <1>3. ASSUME NEW t \in Threads, NEW b \in Blocks, InvalidateBlock(t, b) PROVE FALSE
    <2>1. b \in chainActive /\ failedValid' = failedValid \cup {b}
      BY <1>1, <1>3 DEF InvalidateBlock
    <2> QED BY <1>0, <2>1 DEF Marks, Failed
  <1>4. \/ \E t \in Threads : ActivateBestChain(t)
        \/ \E t \in Threads, b \in Blocks : InvalidateBlock(t, b)
    BY <1>1 DEF Next, vars, AcceptBlockHeader, ProcessNewBlock, ReconsiderBlock, ResetBlockFailureFlags,
                      PreciousBlock, Restart
  <1> QED BY <1>2, <1>3, <1>4

-----------------------------------------------------------------------------
(* From here on FiniteSetTheorems is in the context. *)
Finite == INSTANCE FiniteSetTheorems

LEMMA TreeIsFinite == FiniteTree
  <1>1. \A S : Finite!IsFiniteSet(S) <=> IsFiniteSet(S)
    BY DEF Finite!IsFiniteSet, IsFiniteSet
  <1>2. \A S : Finite!Cardinality(S) = Cardinality(S)
    BY DEF Finite!Cardinality, Cardinality, Finite!IsFiniteSet, IsFiniteSet
  <1>3. \A S \in SUBSET Blocks : Finite!IsFiniteSet(S)
    BY <1>1, TreeOfBlocks, Finite!FS_Subset
  <1>4. ASSUME NEW C \in SUBSET SUBSET Blocks, C # {}
        PROVE  \E T \in C : \A U \in C : U \subseteq T => U = T
    <2>1. C \subseteq Finite!FiniteSubsetsOf(Blocks)
      BY <1>3 DEF Finite!FiniteSubsetsOf
    <2>2. PICK T \in C : \A U \in C : ~(<<U, T>> \in Finite!StrictSubsetOrdering(Blocks))
      BY <1>4, <2>1, Finite!FS_StrictSubsetOrderingWellFounded, Finite!WFMin
    <2> QED BY <2>2 DEF Finite!StrictSubsetOrdering
  <1> QED BY <1>2, <1>3, <1>4, Finite!FS_CardinalityType DEF FiniteTree

LEMMA IndexInvariant == Spec /\ Regular => []IndexInv
  <1>1. Init /\ Regular => IndexInv
    BY InitIndex
  <1>2. IndexInv /\ [Next]_vars => IndexInv'
    BY TreeIsFinite, NextKeeps
  <1> QED BY <1>1, <1>2, PTL DEF Spec

(* CheckBlockIndex holds after any order of headers, data, user calls and  *)
(* restarts, for every tree of blocks, whichever of them are invalid.      *)
THEOREM IndexChecks == Spec /\ Regular => []CheckBlockIndex
  <1>1. IndexInv => CheckBlockIndex
    <2> SUFFICES ASSUME IndexInv PROVE CheckBlockIndex
      OBVIOUS
    <2>0. Types /\ OrderTypes /\ Levels /\ Marks /\ WaitingInv
      BY DEF IndexInv
    <2>1. TypeOK
      <3>1. linked \subseteq have
        BY <2>0, LinkedClosed
      <3> QED BY <2>0, <3>1 DEF TypeOK, Types, Levels
    <2>2. MarksConsistent
      <3> SUFFICES ASSUME NEW b \in known
                   PROVE  /\ b \in linked <=> Branch[b] \subseteq have
                          /\ b \in have <=> valid[b] >= TRANSACTIONS
                          /\ valid[b] = SCRIPTS => \A x \in Branch[b] : valid[x] = SCRIPTS
                          /\ b \notin linked => seq[b] <= 0
                          /\ Failed(b) => ~NoneInvalid(b)
        BY DEF MarksConsistent
      <3>1. b \in Blocks
        BY <2>0 DEF Types
      <3>2. ASSUME valid[b] = SCRIPTS PROVE \A x \in Branch[b] : valid[x] = SCRIPTS
        <4> DEFINE S == {x \in Blocks : valid[x] = SCRIPTS}
        <4>1. b \in S /\ S \in SUBSET Blocks /\ AncestorClosed(S)
          BY <2>0, <3>1, <3>2 DEF Levels
        <4>2. Branch[b] \subseteq S
          <5> HIDE DEF S
          <5> QED BY <3>1, <4>1, BranchLeast
        <4> QED BY <4>2
      <3> QED BY <2>0, <3>1, <3>2 DEF Types, Levels, OrderTypes, Marks
    <2>3. UnlinkedComplete
      BY <2>0 DEF WaitingInv, UnlinkedComplete
    <2> QED BY <2>1, <2>2, <2>3, CandidatesAreComplete DEF CheckBlockIndex
  <1> QED BY <1>1, IndexInvariant, PTL

(* No block of the active chain is marked invalid, and the only thread     *)
(* that calls ActivateBestChain leaves it with the best chain active: the  *)
(* tip is the best linked block that is on no block found invalid.         *)
THEOREM BestChainFound == Spec /\ Regular => []AloneFindsBest
  <1>1. IndexInv => AloneFindsBest
    <2> SUFFICES ASSUME IndexInv PROVE AloneFindsBest
      OBVIOUS
    <2>0. Types /\ Marks /\ PeakInv
      BY DEF IndexInv
    <2>1. NoInvalidBlockActive
      BY <2>0 DEF Marks, NoInvalidBlockActive
    <2>2. Alone => TipIsBest
      BY <2>0, Unmarked, LinkedClosed DEF PeakInv, Peak, TipIsBest
    <2> QED BY <2>1, <2>2 DEF AloneFindsBest
  <1> QED BY <1>1, IndexInvariant, PTL

(* The block that was made precious last is the tip if it is as good as    *)
(* the tip, when ActivateBestChain has returned.                           *)
THEOREM LastPreciousWins == Spec /\ Regular => []LastPreciousIsTip
  <1>1. IndexInv => LastPreciousIsTip
    <2> SUFFICES ASSUME IndexInv, busy = {}, nLastPreciousChainwork > 0, NEW b \in linked,
                        seq[b] = nBlockReverseSequenceId + 1, nChainWork[b] = nChainWork[tip], NoneInvalid(b)
                 PROVE  b = tip
      BY DEF LastPreciousIsTip
    <2>0. Types /\ Marks /\ PeakInv /\ PreciousInv /\ OrderTypes
      BY DEF IndexInv
    <2>1. "preciousblock" \in setup.calls
      BY <2>0, SMTT(30) DEF PreciousInv
    <2>2. Alone
      BY <2>0, <2>1 DEF Types, Regular
    <2>3. Peak(tip)
      BY <2>0, <2>2 DEF PeakInv
    <2>4. ~Failed(b) /\ ~Failed(tip) /\ tip \in linked /\ tip \in Blocks /\ b \in Blocks
      BY <2>0, Unmarked, LinkedClosed, ActiveSound DEF Types
    <2>5. nLastPreciousChainwork <= nChainWork[tip]
      BY <2>1, <2>3, ReverseSequenceIdIs
    <2>6. /\ nChainWork[tip] \in Nat /\ nLastPreciousChainwork \in Nat /\ seq[b] \in Int /\ seq[tip] \in Int
          /\ nBlockReverseSequenceId \in Int
      BY <2>0, <2>4, BestChainConstants DEF OrderTypes
    <2>7. nBlockReverseSequenceId < -1
      BY <2>0, <2>1 DEF PreciousInv
    <2>8. seq[b] < 0 /\ nChainWork[b] <= nLastPreciousChainwork
      <3>1. \A c \in linked : ~Failed(c) /\ seq[c] < 0 => nChainWork[c] <= nLastPreciousChainwork
        BY <2>0, <2>1 DEF PreciousInv
      <3>2. seq[b] < 0
        BY <2>6, <2>7, SMTT(30)
      <3> QED BY <2>4, <3>1, <3>2
    <2>9. nChainWork[b] = nLastPreciousChainwork /\ nChainWork[tip] = nLastPreciousChainwork
      BY <2>5, <2>6, <2>8, SMTT(30)
    <2>10. seq[tip] <= seq[b]
      BY <2>3, <2>4, <2>6, <2>9, SMTT(30) DEF Peak, Less, LessBy
    <2>11. seq[tip] > nBlockReverseSequenceId
      BY <2>0, <2>1, <2>4, <2>6, <2>8, <2>9, <2>10, SMTT(30) DEF PreciousInv
    <2>12. seq[tip] = seq[b]
      BY <2>6, <2>10, <2>11, SMTT(30)
    <2> QED BY <2>0, <2>1, <2>4, <2>8, <2>9, <2>12 DEF PreciousInv
  <1> QED BY <1>1, IndexInvariant, PTL

(* The only thread that calls ActivateBestChain gives up work only when a  *)
(* block is found or declared invalid.                                     *)
THEOREM WorkGivenUp == Spec /\ Regular => LessWorkOnlyForInvalid
  <1>1. IndexInv /\ [Next]_vars =>
          [Alone /\ nChainWork[tip'] < nChainWork[tip] => failedValid' # failedValid]_vars
    BY TreeIsFinite, WorkKept
  <1> QED BY <1>1, IndexInvariant, PTL DEF Spec, LessWorkOnlyForInvalid
=============================================================================
