----------------------------- MODULE CoinsCache -----------------------------
(***************************************************************************)
(* The coins cache hierarchy of the node: the CCoinsViewCache "view" that  *)
(* ConnectTip and DisconnectTip build for one block, over the global       *)
(* CCoinsViewCache pcoinsTip, over the database CCoinsViewDB.              *)
(*                                                                         *)
(* All of it runs under cs_main, so one action is one call of a method.    *)
(* Lookups change state too: a miss copies entries up through the caches.  *)
(* Partial database batches are in module Chainstate; here a flush of      *)
(* pcoinsTip is one step.                                                  *)
(***************************************************************************)
EXTENDS CoinEntry

CONSTANTS
    OutPoints,
    Blocks,
    NoBlock    \* uint256(): hashBlock not set

ASSUME NoBlockIsNoBlock == NoBlock \notin Blocks

VARIABLES
    open,        \* a block view exists
    view,        \* its cacheCoins
    viewBlock,   \* its hashBlock
    tip,         \* cacheCoins of pcoinsTip
    tipBlock,    \* its hashBlock
    db,          \* the coins on disk
    dbBlock,     \* DB_BEST_BLOCK
    threw        \* a std::logic_error left one of the methods

vars == <<open, view, viewBlock, tip, tipBlock, db, dbBlock, threw>>

EmptyCache == [o \in OutPoints |-> NoEntry]

(* The type of the state; nothing of a view outlives its block.            *)
TypeOK ==
    /\ open \in BOOLEAN
    /\ view \in [OutPoints -> Entry]
    /\ tip \in [OutPoints -> Entry]
    /\ db \in [OutPoints -> MaybeCoin]
    /\ viewBlock \in Blocks \cup {NoBlock}
    /\ tipBlock \in Blocks \cup {NoBlock}
    /\ dbBlock \in Blocks \cup {NoBlock}
    /\ threw \in BOOLEAN
    /\ ~open => view = EmptyCache /\ viewBlock = NoBlock

(***************************************************************************)
(* What a reader of pcoinsTip, and of the view over it, gets.              *)
(***************************************************************************)
TipCoin(o) == Lookup(tip[o], db[o])

ViewCoin(o) == Lookup(view[o], TipCoin(o))

BestOver(hash, base) == IF hash = NoBlock THEN base ELSE hash

TipBest == BestOver(tipBlock, dbBlock)

ViewBest == BestOver(viewBlock, TipBest)

Init ==
    /\ open = FALSE
    /\ view = EmptyCache
    /\ viewBlock = NoBlock
    /\ tip = EmptyCache
    /\ tipBlock = NoBlock
    /\ db = [o \in OutPoints |-> Spent]
    /\ dbBlock = NoBlock
    /\ threw = FALSE

(***************************************************************************)
(* CCoinsViewCache view(pcoinsTip), followed by the GetBestBlock with      *)
(* which ConnectBlock and DisconnectTip check where they are; it fills in  *)
(* hashBlock of both caches.                                               *)
(***************************************************************************)
NewView ==
    /\ ~open
    /\ open' = TRUE
    /\ view' = EmptyCache
    /\ tipBlock' = TipBest
    /\ viewBlock' = TipBest
    /\ UNCHANGED <<tip, db, dbBlock, threw>>

(***************************************************************************)
(* FetchCoin of the view: only a miss asks pcoinsTip, which may then miss  *)
(* too and ask the database.                                               *)
(***************************************************************************)
TipAfterFetch(o) ==
    IF view[o].cached THEN tip ELSE [tip EXCEPT ![o] = Fetched(@, db[o])]

ViewEntryAfterFetch(o) == Fetched(view[o], TipCoin(o))

(* AccessCoin, HaveCoin and GetCoin of the view.                           *)
AccessCoin(o) ==
    /\ open
    /\ view' = [view EXCEPT ![o] = ViewEntryAfterFetch(o)]
    /\ tip' = TipAfterFetch(o)
    /\ UNCHANGED <<open, viewBlock, tipBlock, db, dbBlock, threw>>

(***************************************************************************)
(* AddCoin as AddCoins calls it when a block is connected: no lookup, and  *)
(* possible_overwrite only for the outputs of a coinbase.  An output of    *)
(* another transaction is new because a transaction id occurs once.        *)
(***************************************************************************)
AddCoin(o, c, isCoinBase) ==
    /\ open
    /\ isCoinBase \/ ViewCoin(o) = Spent
    /\ IF AddCoinThrows(view[o], isCoinBase)
       THEN threw' = TRUE /\ UNCHANGED view
       ELSE /\ view' = [view EXCEPT ![o] = Added(@, c, isCoinBase)]
            /\ UNCHANGED threw
    /\ UNCHANGED <<open, viewBlock, tip, tipBlock, db, dbBlock>>

(***************************************************************************)
(* AddCoin after a HaveCoin that decides possible_overwrite: ApplyTxInUndo *)
(* when a block is disconnected, and AddCoins with check when one is       *)
(* replayed.                                                               *)
(***************************************************************************)
AddCoinChecked(o, c) ==
    LET e    == ViewEntryAfterFetch(o)
        have == e.coin # Spent
    IN  /\ open
        /\ tip' = TipAfterFetch(o)
        /\ IF AddCoinThrows(e, have)
           THEN threw' = TRUE /\ view' = [view EXCEPT ![o] = e]
           ELSE /\ view' = [view EXCEPT ![o] = Added(e, c, have)]
                /\ UNCHANGED threw
        /\ UNCHANGED <<open, viewBlock, tipBlock, db, dbBlock>>

SpendCoin(o) ==
    /\ open
    /\ view' = [view EXCEPT ![o] = SpentOut(ViewEntryAfterFetch(o))]
    /\ tip' = TipAfterFetch(o)
    /\ UNCHANGED <<open, viewBlock, tipBlock, db, dbBlock, threw>>

SetBestBlock(b) ==
    /\ open
    /\ viewBlock' = b
    /\ UNCHANGED <<open, view, tip, tipBlock, db, dbBlock, threw>>

(***************************************************************************)
(* view.Flush() into pcoinsTip, after which the view goes out of scope.    *)
(***************************************************************************)
FlushView ==
    /\ open
    /\ open' = FALSE
    /\ threw' = (threw \/ \E o \in OutPoints : MergeThrows(tip[o], view[o]))
    /\ tip' = [o \in OutPoints |-> Merged(tip[o], view[o])]
    /\ tipBlock' = viewBlock
    /\ view' = EmptyCache
    /\ viewBlock' = NoBlock
    /\ UNCHANGED <<db, dbBlock>>

(* ConnectBlock or DisconnectBlock failed: the view is simply destroyed.   *)
DropView ==
    /\ open
    /\ open' = FALSE
    /\ view' = EmptyCache
    /\ viewBlock' = NoBlock
    /\ UNCHANGED <<tip, tipBlock, db, dbBlock, threw>>

(***************************************************************************)
(* Lookups in pcoinsTip itself between blocks (the memory pool, RPC), and  *)
(* the Uncache of AcceptToMemoryPool for a rejected transaction.           *)
(***************************************************************************)
TipAccessCoin(o) ==
    /\ ~open
    /\ tip' = [tip EXCEPT ![o] = Fetched(@, db[o])]
    /\ UNCHANGED <<open, view, viewBlock, tipBlock, db, dbBlock, threw>>

TipUncache(o) ==
    /\ ~open
    /\ tip' = [tip EXCEPT ![o] = Uncached(@)]
    /\ UNCHANGED <<open, view, viewBlock, tipBlock, db, dbBlock, threw>>

(***************************************************************************)
(* pcoinsTip->Flush() in FlushStateToDisk.  The database asserts that the  *)
(* block is known; LoadChainTip has set it before anything can flush.      *)
(***************************************************************************)
FlushTip ==
    /\ ~open
    /\ tipBlock # NoBlock
    /\ db' = [o \in OutPoints |-> Written(db[o], tip[o])]
    /\ dbBlock' = tipBlock
    /\ tip' = EmptyCache
    /\ UNCHANGED <<open, view, viewBlock, tipBlock, threw>>

(* The process ends without a flush and is started again.                  *)
Crash ==
    /\ open' = FALSE
    /\ view' = EmptyCache
    /\ viewBlock' = NoBlock
    /\ tip' = EmptyCache
    /\ tipBlock' = NoBlock
    /\ UNCHANGED <<db, dbBlock, threw>>

Next ==
    \/ NewView
    \/ \E o \in OutPoints : AccessCoin(o)
    \/ \E o \in OutPoints, c \in Coins, cb \in BOOLEAN : AddCoin(o, c, cb)
    \/ \E o \in OutPoints, c \in Coins : AddCoinChecked(o, c)
    \/ \E o \in OutPoints : SpendCoin(o)
    \/ \E b \in Blocks : SetBestBlock(b)
    \/ FlushView
    \/ DropView
    \/ \E o \in OutPoints : TipAccessCoin(o)
    \/ \E o \in OutPoints : TipUncache(o)
    \/ FlushTip
    \/ Crash

Spec == Init /\ [][Next]_vars

-----------------------------------------------------------------------------
(***************************************************************************)
(* The flags of both caches tell the truth about the view below them, at   *)
(* every step of every interleaving of lookups, additions, spends, flushes *)
(* and restarts (coins.h, CCoinsCacheEntry::Flags).                        *)
(***************************************************************************)
FlagsSound ==
    \A o \in OutPoints :
        /\ FlagsHonest(tip[o], db[o])
        /\ FlagsHonest(view[o], TipCoin(o))

(***************************************************************************)
(* Neither AddCoin ("Adding new coin that replaces non-pruned entry") nor  *)
(* BatchWrite ("FRESH flag misapplied") ever throws std::logic_error.      *)
(***************************************************************************)
NoLogicError == ~threw

(***************************************************************************)
(* A view that Flush would hand an unset hashBlock down for stands on a    *)
(* tip without a block: Flush copies hashBlock as it is, so this is what   *)
(* keeps a flush from making pcoinsTip forget its best block.              *)
(***************************************************************************)
ViewKnowsItsBlock == open /\ viewBlock = NoBlock => TipBest = NoBlock

(***************************************************************************)
(* Caching is invisible: the three layers behave like three plain versions *)
(* of the unspent set that move down as a whole.  Lookups, Uncache and the *)
(* choice of flags change nothing that a reader can see, a flush of the    *)
(* view makes its version the tip's and a flush of pcoinsTip makes the     *)
(* tip's version the one on disk.                                          *)
(***************************************************************************)
Working == [coin |-> [o \in OutPoints |-> ViewCoin(o)], best |-> ViewBest]

Committed == [coin |-> [o \in OutPoints |-> TipCoin(o)], best |-> TipBest]

Disk == [coin |-> db, best |-> dbBlock]

Store == INSTANCE UTXOStore
         WITH working <- Working, committed <- Committed, disk <- Disk

CachingIsInvisible == Store!Spec
=============================================================================
