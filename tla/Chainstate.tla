----------------------------- MODULE Chainstate -----------------------------
(***************************************************************************)
(* The chain state across crashes: blocks are connected to and             *)
(* disconnected from pcoinsTip (ConnectTip, DisconnectTip), pcoinsTip is   *)
(* flushed to the coins database in several batches (FlushStateToDisk,     *)
(* CCoinsViewDB::BatchWrite), the process may die between any two disk     *)
(* writes, and the next start repairs a half-written database              *)
(* (ReplayBlocks, LoadChainTip).                                           *)
(*                                                                         *)
(* Blocks are those that pass validation; which one is connected next is   *)
(* left open (chain selection is a matter of its own).  A coin is          *)
(* represented by the height at which it was created, since the same       *)
(* transaction may be in two branches at different heights.                *)
(***************************************************************************)
EXTENDS CoinEntry, BlockTree, Sequences, Functions

CONSTANTS
    OutPoints,
    NoBlock,
    Txs,         \* the transactions of a block, the coinbase first:
                 \* [coinbase : BOOLEAN, in, out : SUBSET OutPoints]
    MaxCrashes   \* bound on the crashes of a behaviour

VARIABLES
    index,       \* per block: not in mapBlockIndex, HAVE_DATA, or HAVE_UNDO too
    diskIndex,   \* the same in the block tree database
    undo,        \* the undo files: per block and transaction, the coins of its inputs
    active,      \* chainActive.Tip()
    tip,         \* cacheCoins of pcoinsTip (of ReplayBlocks' cache while replaying)
    tipBlock,    \* its hashBlock
    db,          \* the coins database
    dbBest,      \* DB_BEST_BLOCK
    dbHeads,     \* DB_HEAD_BLOCKS: empty or <<new, old>>
    pc,          \* where the node is
    target,      \* the block UpdateTip makes the tip once the flush is over
    failed,      \* an assertion, an exception or an unrecoverable error
    crashes      \* how often the process died

mem  == <<index, active, tip, tipBlock, target>>
disk == <<diskIndex, undo, db, dbBest, dbHeads>>
vars == <<mem, disk, pc, failed, crashes>>

(***************************************************************************)
(* A cache under work: the entries, the outpoints looked up in the base,   *)
(* whether the outcome is clean and whether the code gave up.  The inputs  *)
(* and the outputs of one transaction are different outpoints, so the      *)
(* loops over them are one step.                                           *)
(***************************************************************************)
EmptyCache == [o \in OutPoints |-> NoEntry]

Work(c) == [cache |-> c, missed |-> {}, clean |-> TRUE, gaveUp |-> FALSE]

Fetch(w, base, S) ==
    [w EXCEPT !.missed = @ \cup {o \in S : ~ w.cache[o].cached},
              !.cache = [o \in OutPoints |-> IF o \in S THEN Fetched(@[o], base[o]) ELSE @[o]]]

Spend(w, base, S) ==
    [Fetch(w, base, S) EXCEPT !.cache = [o \in OutPoints |-> IF o \in S THEN SpentOut(@[o]) ELSE @[o]]]

(* coin: the coins to add, over: the outpoints at which one may be there.  *)
Add(w, coin, over) ==
    LET thrown == {o \in DOMAIN coin : AddCoinThrows(w.cache[o], o \in over)}
    IN  [w EXCEPT !.gaveUp = @ \/ thrown # {},
                  !.cache = [o \in OutPoints |-> IF o \in DOMAIN coin \ thrown THEN Added(@[o], coin[o], o \in over)
                                                 ELSE @[o]]]

AddChecked(w, base, coin) ==
    LET f == Fetch(w, base, DOMAIN coin) IN Add(f, coin, {o \in DOMAIN coin : f.cache[o].coin # Spent})

(***************************************************************************)
(* UpdateCoins for one transaction: spend the inputs, then add the         *)
(* outputs.  An input that is missing makes HaveInputs reject the block    *)
(* (and would trip assert(is_spent)); the blocks here are valid, so it     *)
(* shows that the coins are not those of the block's parent.               *)
(***************************************************************************)
UpdateCoins(w, base, tx, height) ==
    LET spent == [Spend(w, base, tx.in) EXCEPT !.gaveUp = @ \/ \E o \in tx.in : Lookup(w.cache[o], base[o]) = Spent]
    IN  Add(spent, [o \in tx.out |-> height], IF tx.coinbase THEN tx.out ELSE {})

(* ConnectBlock after each of its transactions. *)
Connecting(base, b) ==
    LET w[i \in 0..Len(Txs[b])] ==
            IF i = 0 THEN Work(EmptyCache) ELSE UpdateCoins(w[i - 1], base, Txs[b][i], nHeight[b])
    IN  w

ConnectBlock(base, b) == Connecting(base, b)[Len(Txs[b])]

(***************************************************************************)
(* The undo data of a block: for each transaction the coins its inputs     *)
(* had, the outputs of earlier transactions of the block included.         *)
(***************************************************************************)
BlockUndo(base, b) ==
    [i \in DOMAIN Txs[b] |-> [o \in Txs[b][i].in |-> Lookup(Connecting(base, b)[i - 1].cache[o], base[o])]]

(***************************************************************************)
(* ApplyTxInUndo: a coin is added back; it is unclean if it was there.     *)
(***************************************************************************)
ApplyTxInUndo(w, base, coin) ==
    [AddChecked(w, base, coin) EXCEPT !.clean = @ /\ \A o \in DOMAIN coin : Lookup(w.cache[o], base[o]) = Spent]

(***************************************************************************)
(* DisconnectBlock on top of work w: transactions last to first, outputs   *)
(* removed (unclean if missing or of another height), inputs restored.     *)
(* Without undo data it returns DISCONNECT_FAILED.                         *)
(***************************************************************************)
DisconnectTx(w, base, b, i) ==
    LET out == Txs[b][i].out
        removed == [Spend(w, base, out) EXCEPT !.clean = @ /\ \A o \in out : Lookup(w.cache[o], base[o]) = nHeight[b]]
    IN  ApplyTxInUndo(removed, base, undo[b][i])

Disconnecting(w, base, b) ==
    LET v[k \in 0..Len(Txs[b])] ==
            IF k = 0 THEN w ELSE DisconnectTx(v[k - 1], base, b, Len(Txs[b]) - k + 1)
    IN  v

DisconnectBlock(w, base, b) ==
    IF index[b] # "undo" THEN [w EXCEPT !.gaveUp = TRUE] ELSE Disconnecting(w, base, b)[Len(Txs[b])]

(* Mutation: outputs are added as if they could not be there yet.          *)
RollforwardTxUnchecked(w, base, tx, height) ==
    Add(Fetch(Spend(w, base, tx.in), base, tx.out), [o \in tx.out |-> height], IF tx.coinbase THEN tx.out ELSE {})

(***************************************************************************)
(* RollforwardBlock on top of work w: nothing is checked and every output  *)
(* may overwrite one that the interrupted flush already wrote.             *)
(***************************************************************************)
RollforwardTx(w, base, tx, height) ==
    AddChecked(Spend(w, base, tx.in), base, [o \in tx.out |-> height])

RollingForward(w, base, b) ==
    LET v[i \in 0..Len(Txs[b])] ==
            IF i = 0 THEN w ELSE RollforwardTx(v[i - 1], base, Txs[b][i], nHeight[b])
    IN  v

RollforwardBlock(w, base, b) ==
    IF index[b] = "none" THEN [w EXCEPT !.gaveUp = TRUE] ELSE RollingForward(w, base, b)[Len(Txs[b])]

(***************************************************************************)
(* The loops of ReplayBlocks: down from the old tip to the fork, and up    *)
(* from there to the new one.  An unclean disconnect is accepted.          *)
(***************************************************************************)
GetAncestor(b, height) == CHOOSE x \in Branch[b] : nHeight[x] = height

RollingBack(w, old, fork) ==
    LET v[k \in 0..(nHeight[old] - nHeight[fork])] ==
            IF k = 0 THEN w ELSE DisconnectBlock(v[k - 1], db, GetAncestor(old, nHeight[old] - k + 1))
    IN  v

Replaying(w, new, fork) ==
    LET v[k \in 0..(nHeight[new] - nHeight[fork])] ==
            IF k = 0 THEN w ELSE RollforwardBlock(v[k - 1], db, GetAncestor(new, nHeight[fork] + k))
    IN  v

(* Mutation: the old branch is not rolled back.                            *)
ReplayForwardOnly(new, old) ==
    LET fork == IF old = NoBlock THEN Genesis ELSE LastCommonAncestor(old, new)
    IN  Replaying(Work(EmptyCache), new, fork)[nHeight[new] - nHeight[fork]]

(***************************************************************************)
(* The cache ReplayBlocks builds over the database.  Genesis is neither    *)
(* rolled back nor forward.                                                *)
(***************************************************************************)
ReplayBlocks(new, old) ==
    LET fork == IF old = NoBlock THEN Genesis ELSE LastCommonAncestor(old, new)
        back == IF old = NoBlock THEN Work(EmptyCache)
                ELSE RollingBack(Work(EmptyCache), old, fork)[nHeight[old] - nHeight[fork]]
    IN  Replaying(back, new, fork)[nHeight[new] - nHeight[fork]]

-----------------------------------------------------------------------------
TipCoins == [o \in OutPoints |-> Lookup(tip[o], db[o])]

TipBest == IF tipBlock = NoBlock THEN dbBest ELSE tipBlock

(***************************************************************************)
(* The block's own cache is flushed into pcoinsTip, which has fetched from *)
(* the database whatever was looked up through it.                         *)
(***************************************************************************)
TipFetched(w) ==
    [o \in OutPoints |-> IF o \in w.missed THEN Fetched(tip[o], db[o]) ELSE tip[o]]

FlushIntoTip(w, best) ==
    LET p == TipFetched(w)
    IN  /\ tip' = [o \in OutPoints |-> Merged(p[o], w.cache[o])]
        /\ tipBlock' = best
        /\ failed' = (failed \/ w.gaveUp \/ \E o \in OutPoints : MergeThrows(p[o], w.cache[o]))

Init ==
    /\ index = [b \in Blocks |-> "none"]
    /\ diskIndex = index
    /\ undo = [b \in Blocks |-> <<>>]
    /\ active = NoBlock
    /\ tip = EmptyCache
    /\ tipBlock = NoBlock
    /\ db = [o \in OutPoints |-> Spent]
    /\ dbBest = NoBlock
    /\ dbHeads = <<>>
    /\ pc = "down"
    /\ target = NoBlock
    /\ failed = FALSE
    /\ crashes = 0

(* AcceptBlock: a block whose parent is known is stored.                   *)
AcceptBlock(b) ==
    /\ pc = "idle"
    /\ b # Genesis
    /\ index[b] = "none"
    /\ index[Parent[b]] # "none"
    /\ index' = [index EXCEPT ![b] = "data"]
    /\ UNCHANGED <<disk, active, tip, tipBlock, target, pc, failed, crashes>>

(***************************************************************************)
(* ConnectTip up to its FlushStateToDisk: ConnectBlock on a view over      *)
(* pcoinsTip, whose best block must be the parent (the assertion at the    *)
(* top of ConnectBlock), the undo data if the block has none yet, and the  *)
(* flush of the view.  Genesis only sets the best block.                   *)
(***************************************************************************)
ConnectTip(b) ==
    LET w == ConnectBlock(TipCoins, b)
        ok == TipBest = active
    IN  /\ pc = "idle"
        /\ index[b] # "none"
        /\ IF b = Genesis THEN active = NoBlock ELSE active = Parent[b]
        /\ FlushIntoTip([w EXCEPT !.gaveUp = @ \/ ~ok], b)
        /\ IF b = Genesis \/ index[b] = "undo"
           THEN UNCHANGED <<index, undo>>
           ELSE /\ index' = [index EXCEPT ![b] = "undo"]
                /\ undo' = [undo EXCEPT ![b] = BlockUndo(TipCoins, b)]
        /\ target' = b
        /\ pc' = "flush"
        /\ UNCHANGED <<diskIndex, active, db, dbBest, dbHeads, crashes>>

(***************************************************************************)
(* DisconnectTip up to its FlushStateToDisk: anything but a clean          *)
(* DisconnectBlock is an error.                                            *)
(***************************************************************************)
DisconnectTip ==
    LET w == DisconnectBlock(Work(EmptyCache), TipCoins, active)
    IN  /\ pc = "idle"
        /\ active \notin {NoBlock, Genesis}
        /\ FlushIntoTip([w EXCEPT !.gaveUp = @ \/ ~w.clean \/ TipBest # active],
                        Parent[active])
        /\ target' = Parent[active]
        /\ pc' = "flush"
        /\ UNCHANGED <<index, active, disk, crashes>>

(* The periodic FlushStateToDisk between blocks.                           *)
FlushPeriodically ==
    /\ pc = "idle"
    /\ active # NoBlock
    /\ target' = active
    /\ pc' = "flush"
    /\ UNCHANGED <<index, active, tip, tipBlock, disk, failed, crashes>>

(* UpdateTip, with which ConnectTip and DisconnectTip end.                 *)
UpdateTip ==
    /\ active' = target
    /\ pc' = "idle"

(* FlushStateToDisk finds that nothing needs to be written.                *)
FlushNothing ==
    /\ pc = "flush"
    /\ UpdateTip
    /\ UNCHANGED <<index, tip, tipBlock, target, disk, failed, crashes>>

(***************************************************************************)
(* FlushStateToDisk: block and undo files are synced and the dirty part of *)
(* the block index is written before the coins.  A periodic call may stop  *)
(* there; the call of RewindBlockIndex at the end of a start may not.      *)
(***************************************************************************)
WriteBlockIndex ==
    /\ pc \in {"flush", "rewind"}
    /\ diskIndex' = index
    /\ \/ /\ pc' = "coins"
          /\ UNCHANGED active
       \/ /\ pc = "flush"
          /\ target = active
          /\ UpdateTip
    /\ UNCHANGED <<index, tip, tipBlock, target, undo, db, dbBest, dbHeads, failed, crashes>>

(***************************************************************************)
(* CCoinsViewDB::BatchWrite: the cache is written and emptied in batches,  *)
(* the first of which marks the database as being in transition and the    *)
(* last of which marks it as consistent.                                   *)
(***************************************************************************)
OldTip == IF dbBest = NoBlock /\ dbHeads # <<>> THEN dbHeads[2] ELSE dbBest

BatchWriteAsserts ==
    /\ tipBlock # NoBlock
    /\ dbBest = NoBlock /\ dbHeads # <<>> => dbHeads[1] = tipBlock

WriteEntries(S) ==
    /\ db' = [o \in OutPoints |-> IF o \in S THEN Written(db[o], tip[o]) ELSE db[o]]
    /\ tip' = [o \in OutPoints |-> IF o \in S THEN NoEntry ELSE tip[o]]
    /\ failed' = (failed \/ ~BatchWriteAsserts)

(* Mutation: DB_BEST_BLOCK is not erased by the first batch.               *)
WriteUnmarkedBatch ==
    /\ pc \in {"coins", "replay"}
    /\ \E S \in SUBSET {o \in OutPoints : "DIRTY" \in tip[o].flags} :
          S # {} /\ WriteEntries(S)
    /\ UNCHANGED <<index, active, tipBlock, target, diskIndex, undo, dbBest, dbHeads, pc, crashes>>

WritePartialBatch ==
    /\ pc \in {"coins", "replay"}
    /\ \E S \in SUBSET {o \in OutPoints : "DIRTY" \in tip[o].flags} :
          S # {} /\ WriteEntries(S)
    /\ dbBest' = NoBlock
    /\ dbHeads' = <<tipBlock, OldTip>>
    /\ UNCHANGED <<index, active, tipBlock, target, diskIndex, undo, pc, crashes>>

WriteFinalBatch ==
    /\ pc \in {"coins", "replay"}
    /\ WriteEntries(OutPoints)
    /\ dbBest' = tipBlock
    /\ dbHeads' = <<>>
    /\ IF pc = "coins" THEN UpdateTip ELSE pc' = "load" /\ UNCHANGED active
    /\ UNCHANGED <<index, tipBlock, target, diskIndex, undo, crashes>>

(***************************************************************************)
(* The process dies.  What the block index on disk does not refer to, the  *)
(* undo files included, cannot be relied on any more.                      *)
(***************************************************************************)
Crash ==
    /\ pc # "down"
    /\ crashes < MaxCrashes
    /\ crashes' = crashes + 1
    /\ index' = [b \in Blocks |-> "none"]
    /\ undo' = [b \in Blocks |-> IF diskIndex[b] = "undo" THEN undo[b] ELSE <<>>]
    /\ active' = NoBlock
    /\ tip' = EmptyCache
    /\ tipBlock' = NoBlock
    /\ target' = NoBlock
    /\ pc' = "down"
    /\ UNCHANGED <<diskIndex, db, dbBest, dbHeads, failed>>

(***************************************************************************)
(* The start of AppInitMain: LoadBlockIndex and LoadGenesisBlock ...       *)
(***************************************************************************)
LoadBlockIndex ==
    /\ pc = "down"
    /\ index' = [diskIndex EXCEPT ![Genesis] = "data"]
    /\ pc' = IF dbHeads = <<>> THEN "load" ELSE "heads"
    /\ UNCHANGED <<active, tip, tipBlock, target, disk, failed, crashes>>

(* ... ReplayBlocks when a flush was interrupted ...                       *)
ReplayHeads(new, old) ==
    LET known == index[new] # "none" /\ (old = NoBlock \/ index[old] # "none")
        w == ReplayBlocks(new, old)
    IN  /\ failed' = (failed \/ ~known \/ w.gaveUp)
        /\ tip' = w.cache
        /\ tipBlock' = new
        /\ pc' = "replay"
        /\ UNCHANGED <<index, active, target, disk, crashes>>

Replay ==
    /\ pc = "heads"
    /\ ReplayHeads(dbHeads[1], dbHeads[2])

(***************************************************************************)
(* ... and a new pcoinsTip with LoadChainTip.  An empty database has no    *)
(* tip yet and skips the flush of RewindBlockIndex.                        *)
(***************************************************************************)
LoadChainTip ==
    /\ pc = "load"
    /\ tip' = EmptyCache
    /\ tipBlock' = dbBest
    /\ failed' = (failed \/ (dbBest # NoBlock /\ index[dbBest] = "none"))
    /\ active' = dbBest
    /\ target' = dbBest
    /\ pc' = IF dbBest = NoBlock THEN "idle" ELSE "rewind"
    /\ UNCHANGED <<index, disk, crashes>>

Next ==
    \/ \E b \in Blocks : AcceptBlock(b) \/ ConnectTip(b)
    \/ DisconnectTip
    \/ FlushPeriodically
    \/ FlushNothing
    \/ WriteBlockIndex
    \/ WritePartialBatch
    \/ WriteFinalBatch
    \/ Crash
    \/ LoadBlockIndex
    \/ Replay
    \/ LoadChainTip

Spec == Init /\ [][Next]_vars

-----------------------------------------------------------------------------
(***************************************************************************)
(* The reference: the coins that exist after the first i transactions of a *)
(* block b on top of its branch, without caches, flags or undo data.  They *)
(* are the outputs that were made there and not spent there.               *)
(***************************************************************************)
Tx(p) == Txs[p[1]][p[2]]

Applied(b, i) ==
    {p \in UNION {{x} \X DOMAIN Txs[x] : x \in Branch[b]} : p[1] = b => p[2] <= i}

CoinsAt ==
    [b \in Blocks |-> [i \in 0..Len(Txs[b]) |-> [o \in OutPoints |->
        IF (\E p \in Applied(b, i) : o \in Tx(p).out) /\ \A p \in Applied(b, i) : o \notin Tx(p).in
        THEN nHeight[(CHOOSE p \in Applied(b, i) : o \in Tx(p).out)[1]]
        ELSE Spent]]]

NoCoins == [o \in OutPoints |-> Spent]

CoinsOf(b) == IF b = NoBlock THEN NoCoins ELSE CoinsAt[b][Len(Txs[b])]

(***************************************************************************)
(* The block tree is one of valid blocks: on a branch a transaction spends *)
(* outputs of transactions before it, no output is spent twice, and none   *)
(* is made twice (BIP30, BIP34).                                           *)
(***************************************************************************)
ASSUME BlocksAreValid ==
    /\ NoBlock \notin Blocks
    /\ MaxCrashes \in Nat
    /\ Txs[Genesis] = <<>>
    /\ \A b \in Blocks \ {Genesis} :
          /\ nHeight[b] \in Coins
          /\ Txs[b] \in Seq([coinbase : BOOLEAN, in : SUBSET OutPoints, out : SUBSET OutPoints])
          /\ \A p, q \in Applied(b, Len(Txs[b])) :
                p # q => Tx(p).out \cap Tx(q).out = {} /\ Tx(p).in \cap Tx(q).in = {}
          /\ \A i \in DOMAIN Txs[b] :
                /\ \A o \in Txs[b][i].in : \E p \in Applied(b, i - 1) : o \in Tx(p).out
                /\ Txs[b][i].coinbase <=> i = 1
                /\ Txs[b][i].coinbase => Txs[b][i].in = {}

(* The type of the state; coins carry the heights of blocks of the tree.   *)
TypeOK ==
    /\ index \in [Blocks -> {"none", "data", "undo"}]
    /\ diskIndex \in [Blocks -> {"none", "data", "undo"}]
    /\ {active, tipBlock, dbBest, target} \subseteq Blocks \cup {NoBlock}
    /\ tip \in [OutPoints -> Entry]
    /\ db \in [OutPoints -> MaybeCoin]
    /\ dbHeads = <<>> \/ dbHeads \in (Blocks \cup {NoBlock}) \X (Blocks \cup {NoBlock})
    /\ pc \in {"down", "heads", "replay", "load", "rewind", "idle", "flush", "coins"}
    /\ failed \in BOOLEAN
    /\ crashes \in 0..MaxCrashes

(***************************************************************************)
(* Through pcoinsTip one reads exactly the coins of the chain that ends in *)
(* its best block, whatever was connected, disconnected, flushed (also in  *)
(* the middle of a flush), interrupted and replayed before; while nothing  *)
(* is under way that block is chainActive.Tip().                           *)
(***************************************************************************)
CoinsMatchChain ==
    /\ TypeOK
    /\ pc \in {"replay", "rewind", "idle", "flush", "coins"} => TipCoins = CoinsOf(TipBest)
    /\ pc = "idle" => TipBest = active

(***************************************************************************)
(* A coins database that names a best block holds the coins of that block, *)
(* and one that names none while not new has the two heads to replay from: *)
(* the batches of CCoinsViewDB::BatchWrite never leave it unmarked.        *)
(***************************************************************************)
DiskMatchesMark ==
    /\ dbBest # NoBlock => dbHeads = <<>>
    /\ dbHeads = <<>> => db = CoinsOf(dbBest)

(***************************************************************************)
(* No start after a crash needs a reindex, no disconnect is unclean and    *)
(* no assertion or logic_error is reached: the block index and the undo    *)
(* data are on disk before the coins that need them (the order of writes   *)
(* in FlushStateToDisk).                                                   *)
(***************************************************************************)
NeverStuck == ~failed

(***************************************************************************)
(* Everything a start may have to undo can be undone: each block of the    *)
(* durable chain, and of both heads of an interrupted flush, has its undo  *)
(* data on disk, and that data is what the block's inputs held in the      *)
(* chain before it.                                                        *)
(***************************************************************************)
DurableUndo ==
    \A h \in (Range(dbHeads) \cup {dbBest}) \ {NoBlock} :
      \A b \in Branch[h] \ {Genesis} :
        /\ diskIndex[b] = "undo"
        /\ \A i \in DOMAIN Txs[b] : \A o \in Txs[b][i].in : undo[b][i][o] = CoinsAt[b][i - 1][o]

(***************************************************************************)
(* Wherever the process stops, also between two batches, the disk is one   *)
(* a start can work with: it says which coins it holds, or between which   *)
(* two blocks, and has the undo data of all blocks up to there.            *)
(***************************************************************************)
DiskIsRecoverable == DiskMatchesMark /\ DurableUndo
=============================================================================
