------------------------------ MODULE Mempool ------------------------------
(***************************************************************************)
(* The memory pool: the entries of CTxMemPool with the totals over their   *)
(* ancestors and descendants, mapLinks, mapNextTx and mapDeltas, the maps  *)
(* that keep a second issue or reissue of an asset out of the pool, and    *)
(* what AcceptToMemoryPool, a change of the active chain, eviction, expiry *)
(* and a restart do to them.                                               *)
(*                                                                         *)
(* Every transaction has the size 1: sizes and signature operations are    *)
(* totalled by the statements that total counts and fees.  Fees above the  *)
(* minimum, scripts, standardness and relative lock times are taken to be  *)
(* right; a block of the tree is valid on its parent.                      *)
(***************************************************************************)
EXTENDS Integers, Sequences, FiniteSets, SequencesExt, FiniteSetsExt, Functions

CONSTANTS
    Txs, Coinbases, Assets, None,
    Ins, Outs,              \* of a transaction: the outpoints <<tx, n>> it spends, its number of outputs
    Fee, LockHeight,        \* nFee; the height nLockTime names
    Issues, Reissues,       \* the asset a transaction issues or reissues, or None
    Replaceable,            \* transactions that signal BIP125, if -mempoolreplacement is on
    Blocks, Genesis, Parent, vtx,
    CoinbaseMaturity, LimitAncestors, LimitDescendants,
    MaxPool,                \* -maxmempool, in entries
    MaxDisconnected,        \* MAX_DISCONNECTED_TX_POOL_SIZE, in entries
    Ranks,                  \* orders of entries with one score, by time
    Prioritised, FeeDelta, MaxDelta,    \* calls of prioritisetransaction
    MaxExpired,             \* entries that Expire finds too old in one call
    MaxRestarts

VARIABLES
    tip,        \* chainActive.Tip()
    failed,     \* blocks that ConnectBlock refused
    pool,       \* the CTxMemPool and the maps of reissues
    saved,      \* the tip and mapReissuedAssets on disk
    restarts

vars == <<tip, failed, pool, saved, restarts>>

-----------------------------------------------------------------------------
(* The chain up to a block: its height, transactions, coins and assets. *)
Height[b \in Blocks] == IF b = Genesis THEN 0 ELSE Height[Parent[b]] + 1
Branch[b \in Blocks] == IF b = Genesis THEN {b} ELSE Branch[Parent[b]] \cup {b}

Created(b) == UNION {{t} \X (0..Outs[t] - 1) : t \in ToSet(vtx[b])}
Coins[b \in Blocks] ==
    ((IF b = Genesis THEN {} ELSE Coins[Parent[b]]) \cup Created(b)) \
        UNION {Ins[t] : t \in ToSet(vtx[b])}
Issued(b) == {Issues[t] : t \in UNION {ToSet(vtx[x]) : x \in Branch[b]}} \ {None}
MinedAt(t, b) == Height[CHOOSE x \in Branch[b] : t \in ToSet(vtx[x])]

(* CheckFinalTx and, for the coins of the chain, COINBASE_MATURITY, for    *)
(* the block after b.                                                      *)
Final(t, b) == LockHeight[t] < Height[b] + 1
Mature(o, b) == o[1] \in Coinbases => Height[b] + 1 - MinedAt(o[1], b) >= CoinbaseMaturity

-----------------------------------------------------------------------------
mapTx(p) == DOMAIN p.entry
ModifiedFee(p, t) == Fee[t] + p.entry[t].delta
FeesOf(p, S) == MapThenSumSet(LAMBDA t : ModifiedFee(p, t), S)

NoEntries == <<>>
Empty(reissued) ==
    [entry  |-> NoEntries,
     next   |-> NoEntries,
     deltas |-> [t \in Txs |-> 0],
     reissuedAssets |-> reissued,
     reissuedTx |-> [t \in Txs |-> IF \E a \in Assets : reissued[a] = t
                                   THEN CHOOSE a \in Assets : reissued[a] = t ELSE None],
     assetToHash |-> [a \in Assets |-> None],
     hashToAsset |-> [t \in Txs |-> None]]

(* What is reached from S by the links of mapLinks. *)
Reached(links, S) ==
    LET Closed[X \in SUBSET Txs] ==
            LET more == X \cup UNION {links[t] : t \in X}
            IN  IF more = X THEN X ELSE Closed[more]
    IN  Closed[S]

Children(p) == [t \in mapTx(p) |-> p.entry[t].children]
Parents(p) == [t \in mapTx(p) |-> p.entry[t].parents]
CalculateDescendants(p, S) == Reached(Children(p), S)
LinkedAncestors(p, t) == Reached(Parents(p), p.entry[t].parents)

(* CalculateMemPoolAncestors of a transaction that is not in the pool yet. *)
InputTxs(t) == {o[1] : o \in Ins[t]}
CalculateMemPoolAncestors(p, t) == Reached(Parents(p), InputTxs(t) \cap mapTx(p))

WithinLimits(p, t) ==
    LET ancestors == CalculateMemPoolAncestors(p, t)
    IN  /\ Cardinality(ancestors) + 1 <= LimitAncestors
        /\ \A a \in ancestors : p.entry[a].countD + 1 <= LimitDescendants

-----------------------------------------------------------------------------
(***************************************************************************)
(* RemoveStaged: the totals of what is left, the links, and removeUnchecked *)
(* of each entry with the maps of assets.                                  *)
(***************************************************************************)

UpdateForRemoveFromMempool(p, S, t, update) ==
    LET above == {r \in S : t \in LinkedAncestors(p, r)}
        below == IF update THEN {r \in S : t \in CalculateDescendants(p, {r}) \ {r}} ELSE {}
    IN  [p.entry[t] EXCEPT !.countD = @ - Cardinality(above), !.feesD = @ - FeesOf(p, above),
                           !.countA = @ - Cardinality(below), !.feesA = @ - FeesOf(p, below),
                           !.children = @ \ S, !.parents = @ \ S]

(* The reissues among S whose asset is locked. *)
ReissuesOf(p, S) ==
    {r \in S : p.reissuedTx[r] # None /\ p.reissuedAssets[p.reissuedTx[r]] # None}

FreeReissues(p, S) ==
    [p EXCEPT !.reissuedAssets = [a \in Assets |-> IF \E r \in S : p.reissuedTx[r] = a THEN None ELSE @[a]],
              !.reissuedTx = [t \in Txs |-> IF t \in S THEN None ELSE @[t]]]

RemoveUnchecked(p, S) ==
    LET q == FreeReissues(p, ReissuesOf(p, S))
    IN  [q EXCEPT !.next = Restrict(@, DOMAIN @ \ UNION {Ins[r] : r \in S}),
                  !.assetToHash = [a \in Assets |->
                      IF \E r \in S : p.hashToAsset[r] = a THEN None ELSE @[a]],
                  !.hashToAsset = [t \in Txs |-> IF t \in S THEN None ELSE @[t]]]

RemoveStaged(p, S, update) ==
    [RemoveUnchecked(p, S) EXCEPT
        !.entry = [t \in mapTx(p) \ S |-> UpdateForRemoveFromMempool(p, S, t, update)]]

RemoveRecursive(p, t) ==
    LET spenders == {p.next[o] : o \in {o \in DOMAIN p.next : o[1] = t}}
    IN  RemoveStaged(p, CalculateDescendants(p, IF t \in mapTx(p) THEN {t} ELSE spenders), FALSE)

-----------------------------------------------------------------------------
(***************************************************************************)
(* AcceptToMemoryPool.                                                     *)
(***************************************************************************)
Conflicts(p, t) == {p.next[o] : o \in Ins[t] \cap DOMAIN p.next}

HaveInputs(p, t, b) ==
    \A o \in Ins[t] : o[1] \notin mapTx(p) => o \in Coins[b] /\ Mature(o, b)

(* Replacement pays for what it replaces and adds no unconfirmed input. *)
PaysForReplacement(p, t) ==
    LET conflicts == Conflicts(p, t)
        fee == Fee[t] + p.deltas[t]
    IN  /\ conflicts \subseteq Replaceable
        /\ conflicts \cap CalculateMemPoolAncestors(p, t) = {}
        /\ \A c \in conflicts : fee > ModifiedFee(p, c)
        /\ \A i \in InputTxs(t) : i \in mapTx(p) => \E c \in conflicts : i \in InputTxs(c)
        /\ fee > FeesOf(p, CalculateDescendants(p, conflicts))

(* CheckTransaction and CheckTxAssets on the asset a transaction issues or *)
(* reissues.                                                               *)
CheckIssue(p, t, b) == Issues[t] # None => Issues[t] \notin Issued(b) /\ p.assetToHash[Issues[t]] = None

NotLocked(p, t) == Reissues[t] # None => p.reissuedAssets[Reissues[t]] \in {None, t}

CheckTxAssets(p, t, b) == NotLocked(p, t) /\ (Reissues[t] # None => Reissues[t] \in Issued(b))

Acceptable(p, t, b) ==
    /\ t \notin Coinbases
    /\ CheckIssue(p, t, b)
    /\ Final(t, b)
    /\ t \notin mapTx(p)
    /\ HaveInputs(p, t, b)
    /\ CheckTxAssets(p, t, b)
    /\ WithinLimits(p, t)
    /\ Conflicts(p, t) = {} \/ PaysForReplacement(p, t)

AddUnchecked(p, t) ==
    LET ancestors == CalculateMemPoolAncestors(p, t)
        parents == InputTxs(t) \cap mapTx(p)
        new == [delta |-> p.deltas[t], parents |-> parents, children |-> {},
                countD |-> 1, feesD |-> Fee[t] + p.deltas[t],
                countA |-> 1 + Cardinality(ancestors),
                feesA |-> Fee[t] + p.deltas[t] + FeesOf(p, ancestors)]
        updated(x) == [p.entry[x] EXCEPT
                         !.children = IF x \in parents THEN @ \cup {t} ELSE @,
                         !.countD = IF x \in ancestors THEN @ + 1 ELSE @,
                         !.feesD = IF x \in ancestors THEN @ + new.feesD ELSE @]
    IN  [p EXCEPT !.entry = [x \in mapTx(p) \cup {t} |-> IF x = t THEN new ELSE updated(x)],
                  !.next = [o \in DOMAIN @ \cup Ins[t] |-> IF o \in DOMAIN @ THEN @[o] ELSE t]]

(* The maps of assets, entered once the transaction is in the pool. *)
LockAssets(p, t) ==
    LET locks == Reissues[t] # None /\ p.reissuedAssets[Reissues[t]] = None
    IN  [p EXCEPT
          !.reissuedAssets = [a \in Assets |-> IF locks /\ a = Reissues[t] THEN t ELSE @[a]],
          !.reissuedTx = [x \in Txs |-> IF locks /\ x = t THEN Reissues[t] ELSE @[x]],
          !.assetToHash = [a \in Assets |-> IF a = Issues[t] THEN t ELSE @[a]],
          !.hashToAsset = [x \in Txs |-> IF x = t THEN Issues[t] ELSE @[x]]]

Replaced(p, t) ==
    AddUnchecked(RemoveStaged(p, CalculateDescendants(p, Conflicts(p, t)), FALSE), t)

(* CompareTxMemPoolEntryByDescendantScore: x is evicted before y. *)
Score(p, x) ==
    LET e == p.entry[x]
    IN  IF e.feesD > ModifiedFee(p, x) * e.countD THEN [fee |-> e.feesD, size |-> e.countD]
        ELSE [fee |-> ModifiedFee(p, x), size |-> 1]

EvictedBefore(p, rank, x, y) ==
    LET a == Score(p, x)  b == Score(p, y)
    IN  \/ a.fee * b.size < a.size * b.fee
        \/ a.fee * b.size = a.size * b.fee /\ rank[x] < rank[y]

TrimToSize(p, rank) ==
    LET Trim(q, i) ==
            LET worst == CHOOSE x \in mapTx(q) : \A y \in mapTx(q) \ {x} : EvictedBefore(q, rank, x, y)
            IN  IF Cardinality(mapTx(q)) <= MaxPool THEN q
                ELSE RemoveStaged(q, CalculateDescendants(q, {worst}), FALSE)
    IN  FoldLeft(Trim, p, [i \in 1..Cardinality(mapTx(p)) |-> i])

Expired(p) == {S \in SUBSET mapTx(p) : Cardinality(S) <= MaxExpired}

(* Mutation: expiry is taken to make room enough. *)
OnlyExpire(p, old, rank) == RemoveStaged(p, CalculateDescendants(p, old \cap mapTx(p)), FALSE)

LimitMempoolSize(p, old, rank) ==
    TrimToSize(RemoveStaged(p, CalculateDescendants(p, old \cap mapTx(p)), FALSE), rank)

(* A transaction arrives, from a peer, the wallet or mempool.dat; entries  *)
(* in old have been in the pool for too long.                              *)
AcceptToMemoryPool(t) ==
    /\ Acceptable(pool, t, tip)
    /\ LET added == Replaced(pool, t)
       IN  \E old \in Expired(pool), rank \in Ranks :
              LET p == LimitMempoolSize(added, old, rank)
              IN  pool' = IF t \in mapTx(p) THEN LockAssets(p, t) ELSE p
    /\ UNCHANGED <<tip, failed, saved, restarts>>

PrioritiseTransaction(t) ==
    LET above == LinkedAncestors(pool, t)
        below == CalculateDescendants(pool, {t}) \ {t}
        delta == pool.deltas[t] + FeeDelta
        updated(x) ==
            IF x = t THEN [pool.entry[x] EXCEPT !.feesD = @ + delta - pool.entry[t].delta,
                                                !.feesA = @ + delta - pool.entry[t].delta,
                                                !.delta = delta]
            ELSE [pool.entry[x] EXCEPT !.feesD = IF x \in above THEN @ + FeeDelta ELSE @,
                                       !.feesA = IF x \in below THEN @ + FeeDelta ELSE @]
    IN  /\ delta <= MaxDelta
        /\ pool' = [pool EXCEPT !.deltas[t] = delta,
                                !.entry = IF t \in mapTx(pool) THEN [x \in mapTx(pool) |-> updated(x)] ELSE @]
        /\ UNCHANGED <<tip, failed, saved, restarts>>
-----------------------------------------------------------------------------
(***************************************************************************)
(* A change of the active chain.  c is the tip, the pool and the           *)
(* DisconnectedBlockTransactions, oldest first, while it goes on.          *)
(***************************************************************************)
Path(from, to) ==    \* the blocks that DisconnectTip meets, tip first
    SetToSortSeq(Branch[from] \ Branch[to], LAMBDA x, y : Height[x] > Height[y])
PathTo(from, to) ==    \* the blocks that ConnectTip meets
    SetToSortSeq(Branch[to] \ Branch[from], LAMBDA x, y : Height[x] < Height[y])

(* Mutation: what no longer fits is dropped and its children are kept. *)
ForgetEarliest(c) == [c EXCEPT !.queued = Tail(@)]

DropEarliest(c) ==
    [c EXCEPT !.queued = Tail(@), !.pool = RemoveRecursive(@, Head(c.queued))]

DisconnectTip(c, b) ==
    LET Drop(d, i) == IF Len(d.queued) > MaxDisconnected THEN DropEarliest(d) ELSE d
    IN  [FoldLeft(Drop, [c EXCEPT !.queued = @ \o Reverse(vtx[b])], vtx[b]) EXCEPT !.tip = Parent[b]]

RemoveConflicts(p, t) ==
    LET RemoveSpender(q, o) ==
            IF o \in DOMAIN q.next /\ q.next[o] # t
            THEN RemoveRecursive([q EXCEPT !.deltas[q.next[o]] = 0], q.next[o])
            ELSE q
    IN  FoldLeft(RemoveSpender, p, SetToSeq(Ins[t]))

RemoveMined(p, t) ==
    LET q == IF t \in mapTx(p) THEN RemoveStaged(p, {t}, TRUE) ELSE p
    IN  [RemoveConflicts(q, t) EXCEPT !.deltas[t] = 0]

(* Mutation: issues of the assets that the block creates stay. *)
RivalsStay(p, b) == {}

(* Issues in the pool of the assets that the block creates. *)
Rivals(p, b) ==
    {p.assetToHash[a] : a \in {Issues[t] : t \in ToSet(vtx[b])} \ {None}} \cap mapTx(p)

RemoveForBlock(p, b) ==
    LET mined == FoldLeft(RemoveMined, p, vtx[b])
    IN  FoldLeft(RemoveMined, mined, SetToSeq(Rivals(p, b)))

(* ConnectBlock passes the maps of the pool to CheckTxAssets. *)
ConnectBlock(p, b) == \A t \in ToSet(vtx[b]) : NotLocked(p, t)

ConnectTip(c, b) ==
    LET mined == {t \in ToSet(vtx[b]) : c.pool.reissuedTx[t] # None}
    IN  [c EXCEPT !.tip = b,
                  !.pool = RemoveForBlock(FreeReissues(@, mined), b),
                  !.queued = SelectSeq(@, LAMBDA t : t \notin ToSet(vtx[b]))]

(* Mutation: the children in the pool are linked and not counted. *)
NoUpdateForDescendants(p, t, added) == p

(* Links and totals of the entries that came back with children in the     *)
(* pool; added is in the order of the chain.                               *)
UpdateForDescendants(p, t, added) ==
    LET below == CalculateDescendants(p, {t}) \ ({t} \cup added)
    IN  [p EXCEPT !.entry = [x \in mapTx(p) |->
            IF x = t THEN [@[t] EXCEPT !.countD = @ + Cardinality(below), !.feesD = @ + FeesOf(p, below)]
            ELSE IF x \in below THEN [@[x] EXCEPT !.countA = @ + 1, !.feesA = @ + ModifiedFee(p, t)]
            ELSE @[x]]]

UpdateTransactionsFromBlock(p, added) ==
    LET Linked(q, t) ==
            LET spenders == {q.next[o] : o \in {o \in DOMAIN q.next : o[1] = t}} \ ToSet(added)
            IN  [q EXCEPT !.entry = [x \in mapTx(q) |->
                    IF x = t THEN [@[x] EXCEPT !.children = @ \cup spenders]
                    ELSE IF x \in spenders THEN [@[x] EXCEPT !.parents = @ \cup {t}]
                    ELSE @[x]]]
        Update(q, t) ==
            IF t \in mapTx(q) THEN UpdateForDescendants(Linked(q, t), t, ToSet(added)) ELSE q
    IN  FoldLeft(Update, p, Reverse(added))

StillValid(p, t, b) ==
    /\ Final(t, b)
    /\ InputTxs(t) \cap Coinbases # {} =>
          \A o \in Ins[t] : o[1] \notin mapTx(p) => o \in Coins[b] /\ Mature(o, b)

RemoveForReorg(p, b) ==
    RemoveStaged(p, CalculateDescendants(p, {t \in mapTx(p) : ~StillValid(p, t, b)}), FALSE)

UpdateMempoolForReorg(c) ==
    LET Readd(d, t) ==
            IF Acceptable(d.pool, t, c.tip)
            THEN [pool |-> LockAssets(Replaced(d.pool, t), t), added |-> Append(d.added, t)]
            ELSE [d EXCEPT !.pool = RemoveRecursive(@, t)]
        readded == FoldLeft(Readd, [pool |-> c.pool, added |-> <<>>], Reverse(c.queued))
        updated == UpdateTransactionsFromBlock(readded.pool, readded.added)
        valid == RemoveForReorg(updated, c.tip)
    IN  {LimitMempoolSize(valid, old, rank) : old \in Expired(valid), rank \in Ranks}

(* ActivateBestChainStep towards m: it returns at the first tip with more  *)
(* work than the old one, and at a block that does not connect.            *)
StepTo(m) ==
    LET start == [tip |-> tip, pool |-> pool, queued |-> <<>>, bad |-> {}]
        atFork == FoldLeft(DisconnectTip, start, Path(tip, m))
        Connect(c, b) == IF c.bad # {} \/ Height[c.tip] > Height[tip] THEN c
                         ELSE IF ConnectBlock(c.pool, b) THEN ConnectTip(c, b)
                         ELSE [c EXCEPT !.bad = {b}]
    IN  FoldLeft(Connect, atFork, PathTo(tip, m))

ActivateBestChainStep(m) ==
    /\ Height[m] > Height[tip]
    /\ Branch[m] \cap failed = {}
    /\ LET c == StepTo(m)
       IN  /\ tip' = c.tip
           /\ failed' = failed \cup c.bad
           /\ pool' \in IF tip \in Branch[m] THEN {c.pool} ELSE UpdateMempoolForReorg(c)
    /\ UNCHANGED <<saved, restarts>>

(* invalidateblock; the marks it leaves are those of the BestChain module. *)
InvalidateBlock(b) ==
    /\ b \in Branch[tip] \ {Genesis}
    /\ LET c == FoldLeft(DisconnectTip, [tip |-> tip, pool |-> pool, queued |-> <<>>],
                         Path(tip, Parent[b]))
       IN  /\ tip' = c.tip
           /\ pool' \in UpdateMempoolForReorg(c)
    /\ UNCHANGED <<failed, saved, restarts>>

-----------------------------------------------------------------------------
(* FlushStateToDisk writes the coins of the tip and mapReissuedAssets; a   *)
(* start reads both, and the pool is empty until LoadMempool.              *)
FlushStateToDisk ==
    /\ saved' = [tip |-> tip, reissued |-> pool.reissuedAssets]
    /\ UNCHANGED <<tip, failed, pool, restarts>>

Restart ==
    /\ restarts < MaxRestarts
    /\ restarts' = restarts + 1
    /\ tip' = saved.tip
    /\ pool' = Empty(saved.reissued)
    /\ UNCHANGED <<failed, saved>>

Init ==
    /\ tip = Genesis
    /\ failed = {}
    /\ pool = Empty([a \in Assets |-> None])
    /\ saved = [tip |-> Genesis, reissued |-> [a \in Assets |-> None]]
    /\ restarts = 0

Next ==
    \/ \E t \in Txs : AcceptToMemoryPool(t)
    \/ \E t \in Prioritised : PrioritiseTransaction(t)
    \/ \E m \in Blocks : ActivateBestChainStep(m)
    \/ \E b \in Blocks : InvalidateBlock(b)
    \/ FlushStateToDisk
    \/ Restart

Spec == Init /\ [][Next]_vars

-----------------------------------------------------------------------------
(* The types, and the size that TrimToSize leaves. *)
TypeOK ==
    /\ tip \in Blocks
    /\ failed \subseteq Blocks
    /\ saved \in [tip : Blocks, reissued : [Assets -> Txs \cup {None}]]
    /\ restarts \in 0..MaxRestarts
    /\ mapTx(pool) \subseteq Txs \ Coinbases
    /\ Cardinality(mapTx(pool)) <= MaxPool
    /\ pool.reissuedTx \in [Txs -> Assets \cup {None}]
    /\ pool.hashToAsset \in [Txs -> Assets \cup {None}]

(* The assertions of CTxMemPool::check on inputs: whatever was accepted,   *)
(* mined, evicted, expired or brought back by a reorganisation, the inputs *)
(* of an entry are outputs of another or unspent, mature coins of the      *)
(* chain, the entry is final for the next block, and mapNextTx is the      *)
(* function from exactly these inputs to the one entry that spends each.   *)
InputsAvailable ==
    /\ DOMAIN pool.next = UNION {Ins[t] : t \in mapTx(pool)}
    /\ \A t \in mapTx(pool) :
          /\ \A o \in Ins[t] : pool.next[o] = t
          /\ HaveInputs(pool, t, tip)
          /\ Final(t, tip)

(* The assertions of CTxMemPool::check on links and totals: mapLinks holds *)
(* the parents and children of each entry, and the counts and fees with    *)
(* ancestors and with descendants, on which eviction and the miner's order *)
(* rest, are the sums over the graph of the transactions themselves,       *)
(* however it was taken apart and put together.                            *)
TotalsMatchGraph ==
    LET up == [t \in mapTx(pool) |-> InputTxs(t) \cap mapTx(pool)]
        Above(t) == Reached(up, {t})
        Below(t) == {x \in mapTx(pool) : t \in Above(x)}
    IN  \A t \in mapTx(pool) :
            /\ pool.entry[t].parents = up[t]
            /\ pool.entry[t].children = {x \in mapTx(pool) : t \in up[x]}
            /\ pool.entry[t].delta = pool.deltas[t]
            /\ pool.entry[t].countA = Cardinality(Above(t))
            /\ pool.entry[t].feesA = FeesOf(pool, Above(t))
            /\ pool.entry[t].countD = Cardinality(Below(t))
            /\ pool.entry[t].feesD = FeesOf(pool, Below(t))

(* The maps of assets and the pool agree: an asset has at most one issue   *)
(* in the pool, the one mapAssetToHash names, and none once the chain has  *)
(* it; every reissue in the pool locks its asset; and as long as the node  *)
(* has not been restarted, an asset is locked by an entry of the pool only *)
(* (a lock no entry holds keeps every reissue of the asset out for good).  *)
AssetMapsMatchPool ==
    /\ \A t \in mapTx(pool) : Issues[t] # None =>
          pool.assetToHash[Issues[t]] = t /\ Issues[t] \notin Issued(tip)
    /\ \A a \in Assets : pool.assetToHash[a] # None => pool.assetToHash[a] \in mapTx(pool)
    /\ \A t \in mapTx(pool) : Reissues[t] # None =>
          pool.reissuedAssets[Reissues[t]] = t /\ pool.reissuedTx[t] = Reissues[t]
    /\ restarts = 0 => \A a \in Assets :
          pool.reissuedAssets[a] # None => pool.reissuedAssets[a] \in mapTx(pool)
=============================================================================
