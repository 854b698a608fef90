---------------------------- MODULE AssetsCache ----------------------------
(***************************************************************************)
(* The state of the assets: which assets exist, their data, and who holds  *)
(* how much (with -assetindex).  A block is connected or disconnected on a *)
(* CAssetsCache of its own, which is flushed into the global passets;      *)
(* passets collects sets of additions and removals until                   *)
(* DumpCacheToDatabase writes them to the asset database; passetsCache is  *)
(* an LRU cache of database rows.                                          *)
(*                                                                         *)
(* Blocks hold asset transactions only.  The chain and the coins are those *)
(* of Chainstate: active is the tip, durable the tip the coins database    *)
(* was last flushed at.                                                    *)
(***************************************************************************)
EXTENDS Integers, Sequences, FiniteSets, SequencesExt, Functions, TLC

CONSTANTS
    Assets, Addresses,
    Blocks, Genesis, Parent,
    Txs,        \* per block, a sequence of
                \* [id, type : {"issue", "unique", "reissue", "transfer"},
                \*  new : Seq([name, address, data]), in, out : Seq([name, address, amount])]
                \* where new has the asset of an issue, the unique assets of an
                \* issue of those, or a reissue
    MAX_MONEY,
    LruSize     \* MAX_CACHE_ASSETS_SIZE

VARIABLES
    active,     \* chainActive.Tip()
    durable,    \* the best block of the coins database
    passets,    \* the global CAssetsCache
    lru,        \* passetsCache, most recently used first
    adb,        \* the asset database: asset data and address quantities
    undoData,   \* the blocks' asset undo data (in the asset database)
    failed      \* a block was refused or could not be disconnected

vars == <<active, durable, passets, lru, adb, undoData, failed>>

(* The owner token of asset n, and what IsAssetNameAnOwner tells.          *)
OwnerName(n) == <<n, "!">>
IsAssetNameAnOwner(n) == n \notin Assets
OWNER_ASSET_AMOUNT == 1

Nothing == <<>>     \* the empty map

Without(f, S) == Restrict(f, DOMAIN f \ S)

(***************************************************************************)
(* A CAssetsCache.  The std::sets are maps from what their operator<       *)
(* compares to the rest of the item, so that insert keeps an item that is  *)
(* there already (f @@ g); the vectors of touched balances are sets.       *)
(***************************************************************************)
EmptyCache ==
    [balance  |-> Nothing,   \* mapAssetsAddressAmount : <<name, address>> -> amount
     reissued |-> Nothing,   \* mapReissuedAssetData : name -> data
     newAdd   |-> Nothing,   \* setNewAssetsToAdd : name -> [data, address]
     newRem   |-> Nothing,   \* setNewAssetsToRemove : name -> [data, address]
     ownAdd   |-> Nothing,   \* setNewOwnerAssetsToAdd : name -> address
     ownRem   |-> Nothing,   \* setNewOwnerAssetsToRemove : name -> address
     reAdd    |-> Nothing,   \* setNewReissueToAdd : outpoint -> <<name, address>>
     reRem    |-> Nothing,   \* setNewReissueToRemove : outpoint -> <<name, address>>
     trAdd    |-> Nothing,   \* setNewTransferAssetsToAdd : outpoint -> <<name, address>>
     trRem    |-> Nothing,   \* setNewTransferAssetsToRemove : outpoint -> <<name, address>>
     spent    |-> {},        \* vSpentAssets
     undone   |-> {}]        \* vUndoAssetAmount

(* CLRUCache *)
LruHas(l, n) == \E i \in DOMAIN l : l[i].name = n
LruGet(l, n) == l[CHOOSE i \in DOMAIN l : l[i].name = n].data
LruErase(l, n) == SelectSeq(l, LAMBDA e : e.name # n)

LruPut(l, n, d) ==
    LET r == <<[name |-> n, data |-> d]>> \o LruErase(l, n)
    IN  IF Len(r) > LruSize THEN Front(r) ELSE r

-----------------------------------------------------------------------------
(***************************************************************************)
(* Reads.  Work on a cache is a record w of the cache, the LRU cache, the  *)
(* asset undo data collected and whether all went well so far.             *)
(***************************************************************************)
Work(c) == [cache |-> c, lru |-> lru, undo |-> <<>>, ok |-> TRUE]

Fail(w) == [w EXCEPT !.ok = FALSE]

RemovedRecently(c, n) == n \in DOMAIN c.newRem \/ n \in DOMAIN passets.newRem
AddedRecently(c, n) == n \in DOMAIN c.newAdd \/ n \in DOMAIN passets.newAdd

CheckIfAssetExists(w, n) ==
    /\ ~RemovedRecently(w.cache, n)
    /\ AddedRecently(w.cache, n) \/ LruHas(w.lru, n) \/ n \in DOMAIN adb.data

(* ... which leaves a row it had to read from the database in the LRU cache. *)
Checked(w, n) ==
    IF RemovedRecently(w.cache, n) \/ AddedRecently(w.cache, n) \/ LruHas(w.lru, n)
       \/ n \notin DOMAIN adb.data
    THEN w ELSE [w EXCEPT !.lru = LruPut(@, n, adb.data[n])]

NoData == [amount |-> -1, reissuable |-> 0, units |-> 0, ipfs |-> ""]

(***************************************************************************)
(* GetAssetMetaDataIfExists: reissued data first, then the removals, the   *)
(* additions, the LRU cache (whose entry is moved to the front) and the    *)
(* database (whose row is put in the LRU cache).                           *)
(***************************************************************************)
GetAssetMetaDataIfExists(w, n) ==
    CASE n \in DOMAIN w.cache.reissued -> w.cache.reissued[n]
      [] n \notin DOMAIN w.cache.reissued /\ n \in DOMAIN passets.reissued -> passets.reissued[n]
      [] OTHER ->
          IF RemovedRecently(w.cache, n) THEN NoData
          ELSE IF n \in DOMAIN w.cache.newAdd THEN w.cache.newAdd[n].data
          ELSE IF n \in DOMAIN passets.newAdd THEN passets.newAdd[n].data
          ELSE IF LruHas(w.lru, n) THEN LruGet(w.lru, n)
          ELSE IF n \in DOMAIN adb.data THEN adb.data[n]
          ELSE NoData

Looked(w, n) ==
    LET dirty == \/ n \in DOMAIN w.cache.reissued \/ n \in DOMAIN passets.reissued
                 \/ RemovedRecently(w.cache, n) \/ AddedRecently(w.cache, n)
    IN  IF dirty \/ GetAssetMetaDataIfExists(w, n) = NoData THEN w
        ELSE [w EXCEPT !.lru = LruPut(@, n, GetAssetMetaDataIfExists(w, n))]

(* Mutation: the database is not asked for the amount.                     *)
KnowsAmountInMemory(c, pair) == pair \in DOMAIN c.balance \cup DOMAIN passets.balance

(***************************************************************************)
(* GetBestAssetAddressAmount: whether an amount is known for the pair, and *)
(* the cache with that amount copied into it.                              *)
(***************************************************************************)
KnowsAmount(c, pair) ==
    pair \in DOMAIN c.balance \cup DOMAIN passets.balance \cup DOMAIN adb.quantity

AmountOr0(c, pair) ==
    IF pair \in DOMAIN c.balance THEN c.balance[pair]
    ELSE IF pair \in DOMAIN passets.balance THEN passets.balance[pair]
    ELSE IF pair \in DOMAIN adb.quantity THEN adb.quantity[pair] ELSE 0

SetAmount(c, pair, amount) == [c EXCEPT !.balance = pair :> amount @@ @]

-----------------------------------------------------------------------------
(***************************************************************************)
(* Connecting a block: what SpendCoin and AddCoins do to the cache.        *)
(***************************************************************************)
TrySpendCoin(w, i) ==
    LET pair == <<i.name, i.address>>
        rest == AmountOr0(w.cache, pair) - i.amount
    IN  IF i.amount = 0 THEN Fail(w)
        ELSE IF ~KnowsAmount(w.cache, pair) THEN w
        ELSE [w EXCEPT !.cache = [SetAmount(@, pair, IF rest < 0 THEN 0 ELSE rest)
                                  EXCEPT !.spent = @ \cup {pair}]]

AddNewAsset(w, a) ==
    IF CheckIfAssetExists(w, a.name) THEN Checked(w, a.name)
    ELSE [Checked(w, a.name) EXCEPT !.cache =
            [SetAmount(@, <<a.name, a.address>>, a.data.amount)
             EXCEPT !.newRem = Without(@, {a.name}),
                    !.newAdd = @ @@ a.name :> [data |-> a.data, address |-> a.address]]]

AddOwnerAsset(w, n, address) ==
    [w EXCEPT !.cache = [SetAmount(@, <<n, address>>, OWNER_ASSET_AMOUNT)
                         EXCEPT !.ownRem = Without(@, {n}),
                                !.ownAdd = @ @@ n :> address]]

(* The data of an asset after a reissue r; -1 and "" leave a field alone.  *)
Reissued(data, r) ==
    [amount |-> data.amount + r.amount,
     reissuable |-> r.reissuable,
     units |-> IF r.units # -1 THEN r.units ELSE data.units,
     ipfs  |-> IF r.ipfs # "" THEN r.ipfs ELSE data.ipfs]

AddReissueAsset(w, a, out) ==
    LET data == GetAssetMetaDataIfExists(w, a.name)
        pair == <<a.name, a.address>>
    IN  IF data = NoData THEN w
        ELSE [Looked(w, a.name) EXCEPT !.cache =
                [SetAmount(@, pair, AmountOr0(@, pair) + a.data.amount)
                 EXCEPT !.reissued = a.name :> Reissued(data, a.data) @@ @,
                        !.reRem = Without(@, {out}),
                        !.reAdd = @ @@ out :> pair]]

AddTransferAsset(w, t, out) ==
    LET pair == <<t.name, t.address>>
        amount == IF IsAssetNameAnOwner(t.name) THEN OWNER_ASSET_AMOUNT
                  ELSE AmountOr0(w.cache, pair) + t.amount
    IN  [w EXCEPT !.cache = [SetAmount(@, pair, amount)
                             EXCEPT !.trRem = Without(@, {out}),
                                    !.trAdd = @ @@ out :> pair]]

(***************************************************************************)
(* CReissueAsset::IsValid, CheckTxAssets (which asks passets, the state    *)
(* before the block) and the checks of ConnectBlock (which ask the cache   *)
(* of the block).                                                          *)
(***************************************************************************)
ReissueIsValid(w, a) ==
    LET data == GetAssetMetaDataIfExists(w, a.name)
    IN  /\ data # NoData
        /\ data.reissuable = 1
        /\ data.amount + a.data.amount <= MAX_MONEY
        /\ a.data.units = -1 \/ a.data.units >= data.units

CheckTxAssets(w, tx) ==
    LET LookedUp(v, n) == [Looked([v EXCEPT !.cache = passets], n) EXCEPT !.cache = w.cache]
        transfers == SelectSeq(tx.out, LAMBDA t : ~IsAssetNameAnOwner(t.name))
        names == [i \in DOMAIN transfers |-> transfers[i].name]
                 \o IF tx.type = "reissue" THEN <<tx.new[1].name>> ELSE <<>>
        v == FoldLeft(LookedUp, w, names)
        global == [v EXCEPT !.cache = passets]
    IN  [v EXCEPT !.ok = @
            /\ \A n \in ToSet(names) : GetAssetMetaDataIfExists(global, n) # NoData
            /\ tx.type = "reissue" => ReissueIsValid(global, tx.new[1])]

CheckAsset(w, tx) ==
    LET NotYet(v, a) == [Checked(v, a.name) EXCEPT !.ok = @ /\ ~CheckIfAssetExists(v, a.name)]
    IN  CASE tx.type \in {"issue", "unique"} -> FoldLeft(NotYet, w, tx.new)
          [] tx.type = "reissue" -> [Looked(w, tx.new[1].name)
                                     EXCEPT !.ok = @ /\ ReissueIsValid(w, tx.new[1])]
          [] OTHER -> w

ReissueOut(tx) == <<tx.id, "last">>   \* COutPoint(txid, tx.vout.size() - 1)

(* The undo record of a reissue of an asset with data old. *)
AssetUndo(a, old) ==
    IF a.data.ipfs = "" /\ a.data.units = -1 THEN <<>>
    ELSE <<[name |-> a.name, fIPFS |-> a.data.ipfs # "", fUnits |-> a.data.units # -1,
            ipfs |-> old.ipfs, units |-> old.units]>>

(* AddCoins: the assets of the transaction, then the transfers. *)
AddCoins(w, tx) ==
    LET a == tx.new[1]
        v == CASE tx.type = "issue"  -> AddOwnerAsset(AddNewAsset(w, a), OwnerName(a.name), a.address)
               [] tx.type = "unique" -> FoldLeft(AddNewAsset, w, tx.new)
               [] tx.type = "reissue" ->
                    [AddReissueAsset(w, a, ReissueOut(tx))
                     EXCEPT !.undo = @ \o AssetUndo(a, GetAssetMetaDataIfExists(w, a.name))]
               [] OTHER -> w
    IN  FoldLeft(LAMBDA u, k : AddTransferAsset(u, tx.out[k], <<tx.id, k>>), v,
                 [k \in 1..Len(tx.out) |-> k])

ConnectTx(w, tx) ==
    LET v == CheckAsset(CheckTxAssets(w, tx), tx)
    IN  IF ~v.ok THEN v ELSE AddCoins(FoldLeft(TrySpendCoin, v, tx.in), tx)

ConnectBlock(b) == FoldLeft(ConnectTx, Work(EmptyCache), Txs[b])

-----------------------------------------------------------------------------
(***************************************************************************)
(* Disconnecting a block.                                                  *)
(***************************************************************************)

(* Mutation: only the addition is taken back, no removal is recorded.      *)
RemoveUnwrittenAsset(w, a) ==
    [Checked(w, a.name) EXCEPT !.cache = [SetAmount(@, <<a.name, a.address>>, 0)
                                          EXCEPT !.newAdd = Without(@, {a.name})]]

RemoveNewAsset(w, a) ==
    IF ~CheckIfAssetExists(w, a.name) THEN Checked(w, a.name)
    ELSE [Checked(w, a.name) EXCEPT !.cache =
            [SetAmount(@, <<a.name, a.address>>, 0)
             EXCEPT !.newAdd = Without(@, {a.name}),
                    !.newRem = @ @@ a.name :> [data |-> a.data, address |-> a.address]]]

RemoveOwnerAsset(w, n, address) ==
    [w EXCEPT !.cache = [SetAmount(@, <<n, address>>, 0)
                         EXCEPT !.ownAdd = Without(@, {n}),
                                !.ownRem = @ @@ n :> address]]

(* The data before reissue r, by the first record for the asset in the undo *)
(* data of the block.                                                       *)
Unreissued(data, a, undo) ==
    LET records == SelectSeq(undo, LAMBDA r : r.name = a.name)
        u == Head(records)
    IN  [amount |-> data.amount - a.data.amount,
         reissuable |-> 1,
         units |-> IF records # <<>> /\ u.fUnits THEN u.units ELSE data.units,
         ipfs  |-> IF records # <<>> /\ u.fIPFS THEN u.ipfs ELSE data.ipfs]

RemoveReissueAsset(w, a, out, undo) ==
    LET data == GetAssetMetaDataIfExists(w, a.name)
        pair == <<a.name, a.address>>
        rest == AmountOr0(w.cache, pair) - a.data.amount
    IN  IF ~CheckIfAssetExists(w, a.name) THEN Checked(w, a.name)
        ELSE IF data = NoData \/ ~KnowsAmount(w.cache, pair) \/ rest < 0 THEN Fail(w)
        ELSE [Looked(Checked(w, a.name), a.name) EXCEPT !.cache =
                [SetAmount(@, pair, rest)
                 EXCEPT !.reissued = a.name :> Unreissued(data, a, undo) @@ @,
                        !.reAdd = Without(@, {out}),
                        !.reRem = @ @@ out :> pair]]

(* Mutation: an amount that becomes 0 is refused.                          *)
RemoveTransferOfSome(w, t, out) ==
    LET pair == <<t.name, t.address>>
    IN  IF ~KnowsAmount(w.cache, pair) \/ AmountOr0(w.cache, pair) <= t.amount THEN Fail(w)
        ELSE [w EXCEPT !.cache =
                [SetAmount(@, pair, AmountOr0(@, pair) - t.amount)
                 EXCEPT !.trAdd = Without(@, {out}),
                        !.trRem = @ @@ out :> pair]]

RemoveTransfer(w, t, out) ==
    LET pair == <<t.name, t.address>>
    IN  IF ~KnowsAmount(w.cache, pair) \/ AmountOr0(w.cache, pair) < t.amount THEN Fail(w)
        ELSE [w EXCEPT !.cache =
                [SetAmount(@, pair, AmountOr0(@, pair) - t.amount)
                 EXCEPT !.trAdd = Without(@, {out}),
                        !.trRem = @ @@ out :> pair]]

(* UndoAssetCoin with AddBackSpentAsset *)
UndoAssetCoin(w, i) ==
    LET pair == <<i.name, i.address>>
    IN  IF i.amount = 0 THEN Fail(w)
        ELSE [w EXCEPT !.cache = [SetAmount(@, pair, AmountOr0(@, pair) + i.amount)
                                  EXCEPT !.undone = @ \cup {pair}]]

DisconnectTx(w, tx, undo) ==
    LET a == tx.new[1]
        v == CASE tx.type = "issue" ->
                    RemoveOwnerAsset(RemoveNewAsset(w, a), OwnerName(a.name), a.address)
               [] tx.type = "unique" -> FoldLeft(RemoveNewAsset, w, tx.new)
               [] tx.type = "reissue" -> RemoveReissueAsset(w, a, ReissueOut(tx), undo)
               [] OTHER -> w
        u == FoldLeft(LAMBDA x, k : RemoveTransfer(x, tx.out[k], <<tx.id, k>>), v,
                      [k \in 1..Len(tx.out) |-> k])
    IN  FoldLeft(UndoAssetCoin, u, Reverse(tx.in))

DisconnectBlock(b) ==
    FoldLeft(LAMBDA w, tx : DisconnectTx(w, tx, undoData[b]), Work(EmptyCache), Reverse(Txs[b]))

-----------------------------------------------------------------------------
(***************************************************************************)
(* Flush: the block's cache c into passets.  For each kind the additions   *)
(* first, which cancel removals, then the removals, which cancel           *)
(* additions.                                                              *)
(***************************************************************************)
FlushedAdd(add, cAdd, cRem) == Without(add @@ cAdd, DOMAIN cRem)
FlushedRem(rem, cAdd, cRem) == Without(rem, DOMAIN cAdd) @@ cRem

Flushed(c) ==
    [balance  |-> c.balance @@ passets.balance,
     reissued |-> c.reissued @@ passets.reissued,
     newAdd   |-> FlushedAdd(passets.newAdd, c.newAdd, c.newRem),
     newRem   |-> FlushedRem(passets.newRem, c.newAdd, c.newRem),
     ownAdd   |-> FlushedAdd(passets.ownAdd, c.ownAdd, c.ownRem),
     ownRem   |-> FlushedRem(passets.ownRem, c.ownAdd, c.ownRem),
     reAdd    |-> FlushedAdd(passets.reAdd, c.reAdd, c.reRem),
     reRem    |-> FlushedRem(passets.reRem, c.reAdd, c.reRem),
     trAdd    |-> FlushedAdd(passets.trAdd, c.trAdd, c.trRem),
     trRem    |-> FlushedRem(passets.trRem, c.trAdd, c.trRem),
     spent    |-> passets.spent \cup c.spent,
     undone   |-> passets.undone \cup c.undone]

(***************************************************************************)
(* DumpCacheToDatabase, in the order of the code.  Save writes the amounts *)
(* passets has for some pairs, as erasures where they are 0 if so told.    *)
(***************************************************************************)
Image(f) == {f[k] : k \in DOMAIN f}

Save(q, pairs, eraseZero) ==
    LET known == pairs \cap DOMAIN passets.balance
        zero == {p \in known : eraseZero /\ passets.balance[p] = 0}
    IN  Restrict(passets.balance, known \ zero) @@ Without(q, zero)

Positive(pairs) == {p \in pairs \cap DOMAIN passets.balance : passets.balance[p] > 0}

AddressesOf(set) == {<<n, set[n].address>> : n \in DOMAIN set}

ReissuedNames(set) == {p[1] : p \in Image(set)} \cap DOMAIN passets.reissued

(* Mutation: reissues of assets whose issue is undone too are written.     *)
AllUndoneReissues == Image(passets.reRem)

(* The reissues that are undone, without those whose issue is undone too.  *)
UndoneReissues == {p \in Image(passets.reRem) : p[1] \notin DOMAIN passets.newRem}

DumpedData ==
    LET issued == [n \in DOMAIN passets.newAdd |-> passets.newAdd[n].data]
                  @@ Without(adb.data, DOMAIN passets.newRem)
        names == ReissuedNames(passets.reAdd)
                 \cup ({p[1] : p \in UndoneReissues} \cap DOMAIN passets.reissued)
    IN  Restrict(passets.reissued, names) @@ issued

DumpedQuantity ==
    LET q1 == Without(adb.quantity, AddressesOf(passets.newRem))
        q2 == [p \in AddressesOf(passets.newAdd) |-> passets.newAdd[p[1]].data.amount] @@ q1
        q3 == Without(q2, {<<n, passets.ownRem[n]>> : n \in DOMAIN passets.ownRem})
        q4 == Save(q3, Positive({<<n, passets.ownAdd[n]>> : n \in DOMAIN passets.ownAdd}), FALSE)
        q5 == Save(Save(q4, Image(passets.trRem), TRUE), Image(passets.trAdd), FALSE)
        q6 == Save(q5, Positive({p \in Image(passets.reAdd) : p[1] \in DOMAIN passets.reissued}),
                   FALSE)
        q7 == Save(q6, {p \in UndoneReissues : p[1] \in DOMAIN passets.reissued}, TRUE)
    IN  Save(Save(q7, passets.undone, FALSE), passets.spent, TRUE)

(* Mutation: the rows of reissued assets stay cached.                      *)
DumpedLruKeepingReissued ==
    FoldLeft(LAMBDA l, n : LruPut(l, n, passets.newAdd[n].data),
             FoldLeft(LruErase, lru, SetToSeq(DOMAIN passets.newRem)),
             SetToSeq(DOMAIN passets.newAdd))

DumpedLru ==
    LET erased == FoldLeft(LruErase, lru, SetToSeq(DOMAIN passets.newRem))
        put == FoldLeft(LAMBDA l, n : LruPut(l, n, passets.newAdd[n].data), erased,
                        SetToSeq(DOMAIN passets.newAdd))
        names == ReissuedNames(passets.reAdd)
                 \cup ({p[1] : p \in UndoneReissues} \cap DOMAIN passets.reissued)
    IN  FoldLeft(LruErase, put, SetToSeq(names))

Dumped == [data |-> DumpedData, quantity |-> DumpedQuantity]

-----------------------------------------------------------------------------
(***************************************************************************)
(* The actions.                                                            *)
(***************************************************************************)
Init ==
    /\ active = Genesis /\ durable = Genesis
    /\ passets = EmptyCache
    /\ lru = <<>>
    /\ adb = [data |-> Nothing, quantity |-> Nothing]
    /\ undoData = [b \in Blocks |-> <<>>]
    /\ failed = FALSE

ConnectTip(b) ==
    LET w == ConnectBlock(b)
    IN  /\ ~failed
        /\ b # Genesis /\ Parent[b] = active
        /\ lru' = w.lru
        /\ IF w.ok
           THEN /\ active' = b
                /\ passets' = Flushed(w.cache)
                /\ undoData' = IF undoData[b] = <<>> THEN [undoData EXCEPT ![b] = w.undo]
                               ELSE undoData
                /\ UNCHANGED failed
           ELSE failed' = TRUE /\ UNCHANGED <<active, passets, undoData>>
        /\ UNCHANGED <<durable, adb>>

DisconnectTip ==
    LET w == DisconnectBlock(active)
    IN  /\ ~failed
        /\ active # Genesis
        /\ lru' = w.lru
        /\ IF w.ok
           THEN active' = Parent[active] /\ passets' = Flushed(w.cache) /\ UNCHANGED failed
           ELSE failed' = TRUE /\ UNCHANGED <<active, passets>>
        /\ UNCHANGED <<durable, adb, undoData>>

(* The getassetdata call of the RPC interface. *)
GetAssetData(n) ==
    /\ lru' = Looked(Work(passets), n).lru
    /\ lru' # lru
    /\ UNCHANGED <<active, durable, passets, adb, undoData, failed>>

(* A full flush: the coins, then the assets. *)
FlushStateToDisk ==
    /\ durable' = active
    /\ adb' = Dumped
    /\ lru' = DumpedLru
    /\ passets' = EmptyCache
    /\ UNCHANGED <<active, undoData, failed>>

(* LoadAssets: half of the LRU cache and one amount more than fits. *)
LoadAssets(db) ==
    LET FirstOf(S, k) == SubSeq(SetToSeq(S), 1, k)
        Few(S, k) == FirstOf(S, IF Cardinality(S) < k THEN Cardinality(S) ELSE k)
        rows == Few(DOMAIN db.data, LruSize \div 2)
        amounts == ToSet(Few(DOMAIN db.quantity, LruSize + 1))
    IN  /\ lru' = FoldLeft(LAMBDA l, n : LruPut(l, n, db.data[n]), <<>>, rows)
        /\ passets' = [EmptyCache EXCEPT !.balance = Restrict(db.quantity, amounts)]

(* The node stops without a flush and starts again. *)
Restart ==
    /\ active' = durable
    /\ LoadAssets(adb)
    /\ UNCHANGED <<durable, adb, undoData, failed>>

(* The node stops within a flush, after the coins and before the assets.   *)
StopWithinFlush ==
    /\ durable' = active
    /\ LoadAssets(adb)
    /\ UNCHANGED <<active, adb, undoData, failed>>

Next ==
    \/ \E b \in Blocks : ConnectTip(b)
    \/ DisconnectTip
    \/ \E n \in Assets : GetAssetData(n)
    \/ FlushStateToDisk
    \/ Restart

Spec == Init /\ [][Next]_vars

(* With crashes within a flush. *)
SpecTorn == Init /\ [][Next \/ StopWithinFlush]_vars

-----------------------------------------------------------------------------
(***************************************************************************)
(* What the chain up to a block says: the data of the assets that exist    *)
(* and the amount every address holds of them.                             *)
(***************************************************************************)
Names == Assets \cup {OwnerName(n) : n \in Assets}

LedgerTx(l, tx) ==
    LET Sum(ts, p) == FoldLeft(LAMBDA x, t : IF <<t.name, t.address>> = p THEN x + t.amount ELSE x,
                               0, ts)
        issues == IF tx.type \in {"issue", "unique"} THEN tx.new ELSE <<>>
        owners == IF tx.type = "issue"
                  THEN <<[name |-> OwnerName(tx.new[1].name), address |-> tx.new[1].address,
                          amount |-> OWNER_ASSET_AMOUNT]>>
                  ELSE <<>>
        received == [k \in DOMAIN tx.new |-> [name |-> tx.new[k].name, address |-> tx.new[k].address,
                                              amount |-> tx.new[k].data.amount]]
        Issued(d, a) == a.name :> a.data @@ d
    IN  [data |-> IF tx.type = "reissue"
                  THEN tx.new[1].name :> Reissued(l.data[tx.new[1].name], tx.new[1].data) @@ l.data
                  ELSE FoldLeft(Issued, l.data, issues),
         held |-> [p \in Names \X Addresses |->
                     l.held[p] + Sum(tx.out \o received \o owners, p) - Sum(tx.in, p)]]

Ledger[b \in Blocks] ==
    IF b = Genesis THEN [data |-> Nothing, held |-> [p \in Names \X Addresses |-> 0]]
    ELSE FoldLeft(LedgerTx, Ledger[Parent[b]], Txs[b])

LedgerOf == Ledger     \* evaluated once, as a constant

Held(quantity, p) == IF p \in DOMAIN quantity THEN quantity[p] ELSE 0

-----------------------------------------------------------------------------
(* The sets and maps hold what their names say, no amount is negative, and *)
(* the LRU cache keeps to MAX_CACHE_ASSETS_SIZE with one row per asset.    *)
TypeOK ==
    /\ active \in Blocks /\ durable \in Blocks
    /\ \A p \in DOMAIN passets.balance : p \in Names \X Addresses /\ passets.balance[p] >= 0
    /\ \A p \in DOMAIN adb.quantity : p \in Names \X Addresses /\ adb.quantity[p] >= 0
    /\ DOMAIN passets.newAdd \cup DOMAIN passets.newRem \cup DOMAIN passets.reissued
         \cup DOMAIN adb.data \subseteq Assets
    /\ Len(lru) <= LruSize
    /\ \A i, j \in DOMAIN lru : lru[i].name = lru[j].name => i = j
    /\ failed \in BOOLEAN

(* Whatever blocks were connected and disconnected, flushed or not, and    *)
(* whatever the LRU cache dropped: CheckIfAssetExists on passets finds     *)
(* exactly the assets of the active chain, and GetAssetMetaDataIfExists    *)
(* the data the chain gives each of them.                                  *)
AssetsMatchChain ==
    \A n \in Assets :
        LET w == Work(passets)
        IN  /\ CheckIfAssetExists(w, n) <=> n \in DOMAIN LedgerOf[active].data
            /\ CheckIfAssetExists(w, n) => GetAssetMetaDataIfExists(w, n) = LedgerOf[active].data[n]

(* The amount GetBestAssetAddressAmount finds for an asset and an address  *)
(* is the one the active chain gives the address.                          *)
BalancesMatchChain ==
    \A p \in Names \X Addresses : AmountOr0(passets, p) = LedgerOf[active].held[p]

(* What DumpCacheToDatabase left in the asset database is the state of the *)
(* assets at the block the coins database was flushed at, and stays so     *)
(* until the next dump.                                                    *)
DatabaseMatchesChain ==
    /\ adb.data = LedgerOf[durable].data
    /\ \A p \in Names \X Addresses : Held(adb.quantity, p) = LedgerOf[durable].held[p]

(* A row in passetsCache is the row of the asset database: every write to  *)
(* the database replaces or erases the cached row.                         *)
LruCoherent ==
    /\ TypeOK
    /\ \A i \in DOMAIN lru : /\ lru[i].name \in DOMAIN adb.data
                             /\ lru[i].data = adb.data[lru[i].name]

(* No valid block is refused by CheckTxAssets or the checks on the block's *)
(* cache, and no block fails to disconnect for an amount that is not known *)
(* or too small.                                                           *)
NoBlockFails == ~failed
=============================================================================
