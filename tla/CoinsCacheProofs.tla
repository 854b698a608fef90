-------------------------- MODULE CoinsCacheProofs --------------------------
(***************************************************************************)
(* Proofs about CoinsCache for any outpoints, coins and blocks: the flags  *)
(* are honest, no std::logic_error is thrown, and the caches implement     *)
(* UTXOStore.                                                              *)
(***************************************************************************)
EXTENDS CoinsCache, TLAPS

(* The inductive invariant.                                                *)
CacheInv == TypeOK /\ FlagsSound /\ NoLogicError /\ ViewKnowsItsBlock

-----------------------------------------------------------------------------
(* FetchCoin keeps an entry honest and does not change what is read.       *)
LEMMA FetchedHonest ==
    ASSUME NEW e \in Entry, NEW b \in MaybeCoin, FlagsHonest(e, b)
    PROVE  /\ Fetched(e, b) \in Entry
           /\ FlagsHonest(Fetched(e, b), b)
           /\ Lookup(Fetched(e, b), b) = Lookup(e, b)
  BY ZenonT(40) DEF Fetched, FlagsHonest, Lookup, Entry, MaybeCoin, Flags, NoEntry

(* AddCoin of a coin that may overwrite, or that the view does not hold,   *)
(* does not throw, keeps the entry honest and makes the coin readable.     *)
LEMMA AddedHonest ==
    ASSUME NEW e \in Entry, NEW b \in MaybeCoin, FlagsHonest(e, b),
           NEW c \in Coins, NEW po \in BOOLEAN, po \/ Lookup(e, b) = Spent
    PROVE  /\ ~AddCoinThrows(e, po)
           /\ Added(e, c, po) \in Entry
           /\ FlagsHonest(Added(e, c, po), b)
           /\ Lookup(Added(e, c, po), b) = c
  BY SpentIsNoCoin
  DEF Added, AddCoinThrows, FlagsHonest, Lookup, Entry, MaybeCoin, Flags, NoEntry

(* SpendCoin keeps an entry honest and leaves nothing to read.             *)
LEMMA SpentOutHonest ==
    ASSUME NEW e \in Entry, NEW b \in MaybeCoin, FlagsHonest(e, b),
           e.cached \/ b = Spent
    PROVE  /\ SpentOut(e) \in Entry
           /\ FlagsHonest(SpentOut(e), b)
           /\ Lookup(SpentOut(e), b) = Spent
  BY ZenonT(40) DEF SpentOut, FlagsHonest, Lookup, Entry, MaybeCoin, Flags, NoEntry

(* Uncache keeps an entry honest and does not change what is read.         *)
LEMMA UncachedHonest ==
    ASSUME NEW e \in Entry, NEW b \in MaybeCoin, FlagsHonest(e, b)
    PROVE  /\ Uncached(e) \in Entry
           /\ FlagsHonest(Uncached(e), b)
           /\ Lookup(Uncached(e), b) = Lookup(e, b)
  BY DEF Uncached, FlagsHonest, Lookup, Entry, MaybeCoin, Flags, NoEntry

(* BatchWrite of an honest child into an honest parent does not throw,     *)
(* leaves the parent honest over the grandparent d, and makes the parent   *)
(* read what the child read.                                               *)
LEMMA MergedHonest ==
    ASSUME NEW p \in Entry, NEW c \in Entry, NEW d \in MaybeCoin,
           FlagsHonest(p, d), FlagsHonest(c, Lookup(p, d))
    PROVE  /\ ~MergeThrows(p, c)
           /\ Merged(p, c) \in Entry
           /\ FlagsHonest(Merged(p, c), d)
           /\ Lookup(Merged(p, c), d) = Lookup(c, Lookup(p, d))
  <1>1. ~MergeThrows(p, c)
    BY DEF MergeThrows, FlagsHonest, Lookup, NoEntry
  <1>2. CASE "DIRTY" \notin c.flags
    BY <1>1, <1>2, ZenonT(40) DEF Merged, FlagsHonest, Lookup, Entry, NoEntry
  <1>3. CASE "DIRTY" \in c.flags /\ ~p.cached
    BY <1>1, <1>3 DEF Merged, FlagsHonest, Lookup, Entry, Flags, MaybeCoin, NoEntry
  <1>4. CASE "DIRTY" \in c.flags /\ p.cached
    <2>1. CASE "FRESH" \in p.flags /\ c.coin = Spent
      <3>1. Merged(p, c) = NoEntry
        BY <1>4, <2>1 DEF Merged
      <3> QED BY <1>1, <1>4, <2>1, <3>1
              DEF FlagsHonest, Lookup, Entry, Flags, MaybeCoin, NoEntry
    <2>2. CASE ~("FRESH" \in p.flags /\ c.coin = Spent)
      <3> DEFINE m == [p EXCEPT !.coin = c.coin, !.flags = @ \cup {"DIRTY"}]
      <3>1. Merged(p, c) = m
        BY <1>4, <2>2 DEF Merged
      <3>2. m \in Entry /\ m.cached /\ m.coin = c.coin /\ m.flags = p.flags \cup {"DIRTY"}
        BY <1>4, ZenonT(40) DEF Entry, Flags, MaybeCoin
      <3>3. c.cached
        BY <1>4 DEF FlagsHonest, NoEntry
      <3> HIDE DEF m
      <3> QED BY <1>1, <1>4, <3>1, <3>2, <3>3 DEF FlagsHonest, Lookup, Entry
    <2> QED BY <2>1, <2>2
  <1> QED BY <1>2, <1>3, <1>4 DEF Entry

(* The database ends up with what the cache over it read.                  *)
LEMMA WrittenHonest ==
    ASSUME NEW e \in Entry, NEW d \in MaybeCoin, FlagsHonest(e, d)
    PROVE  Written(d, e) \in MaybeCoin /\ Written(d, e) = Lookup(e, d)
  BY DEF Written, FlagsHonest, Lookup, Entry, NoEntry

LEMMA NoEntryHonest ==
    ASSUME NEW b \in MaybeCoin
    PROVE  /\ NoEntry \in Entry
           /\ FlagsHonest(NoEntry, b)
           /\ Lookup(NoEntry, b) = b
  BY DEF FlagsHonest, Lookup, Entry, NoEntry, MaybeCoin, Flags
-----------------------------------------------------------------------------
(* A lookup through the view changes no coin that a reader can see.        *)
LEMMA FetchStep ==
    ASSUME TypeOK, FlagsSound, NEW o \in OutPoints
    PROVE  /\ ViewEntryAfterFetch(o) \in Entry
           /\ FlagsHonest(ViewEntryAfterFetch(o), TipCoin(o))
           /\ Lookup(ViewEntryAfterFetch(o), TipCoin(o)) = ViewCoin(o)
           /\ ViewEntryAfterFetch(o).cached \/ TipCoin(o) = Spent
           /\ TipAfterFetch(o) \in [OutPoints -> Entry]
           /\ \A q \in OutPoints :
                 /\ FlagsHonest(TipAfterFetch(o)[q], db[q])
                 /\ Lookup(TipAfterFetch(o)[q], db[q]) = TipCoin(q)
  <1>1. \A q \in OutPoints : /\ tip[q] \in Entry
                             /\ view[q] \in Entry
                             /\ db[q] \in MaybeCoin
                             /\ TipCoin(q) \in MaybeCoin
                             /\ FlagsHonest(tip[q], db[q])
                             /\ FlagsHonest(view[q], TipCoin(q))
    BY DEF TypeOK, FlagsSound, TipCoin, Lookup, Entry
  <1>2. /\ ViewEntryAfterFetch(o) \in Entry
        /\ FlagsHonest(ViewEntryAfterFetch(o), TipCoin(o))
        /\ Lookup(ViewEntryAfterFetch(o), TipCoin(o)) = ViewCoin(o)
    BY <1>1, FetchedHonest DEF ViewEntryAfterFetch, ViewCoin
  <1>3. ViewEntryAfterFetch(o).cached \/ TipCoin(o) = Spent
    BY DEF ViewEntryAfterFetch, Fetched
  <1>4. /\ TipAfterFetch(o) \in [OutPoints -> Entry]
        /\ \A q \in OutPoints :
             /\ FlagsHonest(TipAfterFetch(o)[q], db[q])
             /\ Lookup(TipAfterFetch(o)[q], db[q]) = TipCoin(q)
    <2>1. /\ Fetched(tip[o], db[o]) \in Entry
          /\ FlagsHonest(Fetched(tip[o], db[o]), db[o])
          /\ Lookup(Fetched(tip[o], db[o]), db[o]) = TipCoin(o)
      BY <1>1, FetchedHonest DEF TipCoin
    <2> QED BY <1>1, <2>1 DEF TipAfterFetch, TipCoin, TypeOK
  <1> QED BY <1>2, <1>3, <1>4

(* A call that replaces one entry of the view by an honest one, with or    *)
(* without a lookup before it, changes one coin of the working version.    *)
LEMMA ViewUpdate ==
    ASSUME CacheInv, open, NEW o \in OutPoints,
           NEW e \in Entry, FlagsHonest(e, TipCoin(o)),
           view' = [view EXCEPT ![o] = e],
           tip' = tip \/ tip' = TipAfterFetch(o),
           UNCHANGED <<open, viewBlock, tipBlock, db, dbBlock, threw>>
    PROVE  /\ CacheInv'
           /\ Committed' = Committed
           /\ Disk' = Disk
           /\ Working' = [Working EXCEPT !.coin[o] = Lookup(e, TipCoin(o))]
  <1>1. /\ tip' \in [OutPoints -> Entry]
        /\ \A q \in OutPoints : /\ FlagsHonest(tip'[q], db[q])
                                /\ Lookup(tip'[q], db[q]) = TipCoin(q)
    BY FetchStep DEF CacheInv, TypeOK, FlagsSound, TipCoin
  <1>2. \A q \in OutPoints : TipCoin(q)' = TipCoin(q)
    BY <1>1 DEF TipCoin
  <1>3. view \in [OutPoints -> Entry] /\ view' \in [OutPoints -> Entry]
    BY DEF CacheInv, TypeOK
  <1>4. \A q \in OutPoints :
            ViewCoin(q)' = IF q = o THEN Lookup(e, TipCoin(o)) ELSE ViewCoin(q)
    BY <1>2, <1>3 DEF ViewCoin
  <1>5. FlagsSound'
    BY <1>1, <1>2, <1>3 DEF CacheInv, FlagsSound
  <1>6. TypeOK'
    BY <1>1, <1>3 DEF CacheInv, TypeOK
  <1>7. NoLogicError' /\ ViewKnowsItsBlock' /\ ViewBest' = ViewBest /\ TipBest' = TipBest
    BY DEF CacheInv, NoLogicError, ViewKnowsItsBlock, ViewBest, TipBest, BestOver
  <1>8. Committed' = Committed /\ Disk' = Disk
    BY <1>2, <1>7 DEF Committed, Disk
  <1>9. Working' = [Working EXCEPT !.coin[o] = Lookup(e, TipCoin(o))]
    <2> DEFINE coin == [q \in OutPoints |-> ViewCoin(q)]
               l    == Lookup(e, TipCoin(o))
    <2>1. Working = [coin |-> coin, best |-> ViewBest]
      BY DEF Working
    <2>2. Working' = [coin |-> [coin EXCEPT ![o] = l], best |-> ViewBest]
      BY <1>4, <1>7, ZenonT(40) DEF Working
    <2> HIDE DEF coin, l
    <2>3. Working' = [Working EXCEPT !.coin[o] = l]
      BY <2>1, <2>2
    <2> QED BY <2>3 DEF l
  <1> QED BY <1>5, <1>6, <1>7, <1>8, <1>9 DEF CacheInv

(* What one step may do to the three visible versions.                     *)
StoreStep == Store!Next \/ UNCHANGED <<Working, Committed, Disk>>

(* Every call keeps the invariant and is a step of the store or invisible. *)
LEMMA StepOK ==
    ASSUME CacheInv, Next
    PROVE  CacheInv' /\ StoreStep
  <1> USE DEF CacheInv
  <1>a. \A q \in OutPoints : /\ tip[q] \in Entry
                             /\ view[q] \in Entry
                             /\ db[q] \in MaybeCoin
                             /\ TipCoin(q) \in MaybeCoin
                             /\ ViewCoin(q) \in MaybeCoin
                             /\ FlagsHonest(tip[q], db[q])
                             /\ FlagsHonest(view[q], TipCoin(q))
    BY DEF TypeOK, FlagsSound, TipCoin, ViewCoin, Lookup, Entry
  <1>b. NoBlock \notin Blocks /\ viewBlock \in Blocks \cup {NoBlock}
        /\ tipBlock \in Blocks \cup {NoBlock} /\ dbBlock \in Blocks \cup {NoBlock}
    BY NoBlockIsNoBlock DEF TypeOK
  <1>1. CASE NewView
    <2>1. view = EmptyCache /\ viewBlock = NoBlock
      BY <1>1 DEF NewView, TypeOK
    <2>2. TypeOK' /\ FlagsSound' /\ NoLogicError'
      BY <1>1, <2>1, <1>b
      DEF NewView, TypeOK, FlagsSound, NoLogicError, TipBest, BestOver, TipCoin
    <2>3. ViewKnowsItsBlock'
      BY <1>1 DEF NewView, ViewKnowsItsBlock, TipBest, BestOver
    <2>4. UNCHANGED <<Working, Committed, Disk>>
      BY <1>1, <2>1
      DEF NewView, Working, Committed, Disk, ViewCoin, TipCoin, ViewBest, TipBest, BestOver
    <2> QED BY <2>2, <2>3, <2>4 DEF StoreStep
  <1>2. ASSUME NEW o \in OutPoints, AccessCoin(o) PROVE CacheInv' /\ StoreStep
    <2>1. /\ CacheInv'
          /\ Committed' = Committed
          /\ Disk' = Disk
          /\ Working' = [Working EXCEPT !.coin[o] = ViewCoin(o)]
      <3>1. /\ ViewEntryAfterFetch(o) \in Entry
            /\ FlagsHonest(ViewEntryAfterFetch(o), TipCoin(o))
            /\ Lookup(ViewEntryAfterFetch(o), TipCoin(o)) = ViewCoin(o)
        BY FetchStep DEF CacheInv
      <3>2. Working' = [Working EXCEPT !.coin[o] = Lookup(ViewEntryAfterFetch(o), TipCoin(o))]
            /\ CacheInv' /\ Committed' = Committed /\ Disk' = Disk
        BY <1>2, <3>1, ViewUpdate, ZenonT(40) DEF AccessCoin
      <3> QED BY <3>1, <3>2, ZenonT(40)
    <2>2. Working' = Working
      BY <2>1 DEF Working
    <2> QED BY <2>1, <2>2 DEF StoreStep
  <1>3. ASSUME NEW o \in OutPoints, NEW c \in Coins, NEW cb \in BOOLEAN,
               AddCoin(o, c, cb)
        PROVE  CacheInv' /\ StoreStep
    <2>1. /\ ~AddCoinThrows(view[o], cb)
          /\ Added(view[o], c, cb) \in Entry
          /\ FlagsHonest(Added(view[o], c, cb), TipCoin(o))
          /\ Lookup(Added(view[o], c, cb), TipCoin(o)) = c
      BY <1>3, <1>a, AddedHonest DEF AddCoin, ViewCoin
    <2>2. /\ CacheInv'
          /\ Committed' = Committed
          /\ Disk' = Disk
          /\ Working' = [Working EXCEPT !.coin[o] = c]
      BY <1>3, <2>1, ViewUpdate DEF AddCoin
    <2> QED BY <2>2 DEF StoreStep, Store!Next, Store!Create
  <1>4. ASSUME NEW o \in OutPoints, NEW c \in Coins, AddCoinChecked(o, c)
        PROVE  CacheInv' /\ StoreStep
    <2> DEFINE e == ViewEntryAfterFetch(o)
               have == e.coin # Spent
    <2>1. /\ e \in Entry
          /\ FlagsHonest(e, TipCoin(o))
          /\ Lookup(e, TipCoin(o)) = ViewCoin(o)
          /\ e.cached \/ TipCoin(o) = Spent
      BY FetchStep
    <2>2. have \in BOOLEAN /\ (have \/ Lookup(e, TipCoin(o)) = Spent)
      BY <2>1 DEF Lookup
    <2>3. /\ ~AddCoinThrows(e, have)
          /\ Added(e, c, have) \in Entry
          /\ FlagsHonest(Added(e, c, have), TipCoin(o))
          /\ Lookup(Added(e, c, have), TipCoin(o)) = c
      <3> HIDE DEF e, have
      <3> QED BY <1>a, <2>1, <2>2, AddedHonest
    <2>4. /\ open
          /\ view' = [view EXCEPT ![o] = Added(e, c, have)]
          /\ tip' = TipAfterFetch(o)
          /\ UNCHANGED <<open, viewBlock, tipBlock, db, dbBlock, threw>>
      BY <1>4, <2>3 DEF AddCoinChecked
    <2>5. /\ CacheInv'
          /\ Committed' = Committed
          /\ Disk' = Disk
          /\ Working' = [Working EXCEPT !.coin[o] = c]
      <3> HIDE DEF e, have
      <3> QED BY <2>3, <2>4, ViewUpdate, ZenonT(40)
    <2> QED BY <2>5 DEF StoreStep, Store!Next, Store!Create
  <1>5. ASSUME NEW o \in OutPoints, SpendCoin(o) PROVE CacheInv' /\ StoreStep
    <2> DEFINE e == ViewEntryAfterFetch(o)
    <2>1. /\ SpentOut(e) \in Entry
          /\ FlagsHonest(SpentOut(e), TipCoin(o))
          /\ Lookup(SpentOut(e), TipCoin(o)) = Spent
      BY <1>a, FetchStep, SpentOutHonest
    <2>2. /\ CacheInv'
          /\ Committed' = Committed
          /\ Disk' = Disk
          /\ Working' = [Working EXCEPT !.coin[o] = Spent]
      BY <1>5, <2>1, ViewUpdate, ZenonT(40) DEF SpendCoin
    <2> QED BY <2>2, ZenonT(40) DEF StoreStep, Store!Next, Store!Consume
  <1>6. ASSUME NEW b \in Blocks, SetBestBlock(b) PROVE CacheInv' /\ StoreStep
    <2>1. CacheInv'
      BY <1>6, <1>b
      DEF SetBestBlock, TypeOK, FlagsSound, NoLogicError, ViewKnowsItsBlock, TipCoin,
          TipBest, BestOver
    <2> DEFINE coin == [q \in OutPoints |-> ViewCoin(q)]
    <2>2. Committed' = Committed /\ Disk' = Disk
      BY <1>6 DEF SetBestBlock, Committed, Disk, TipCoin, TipBest, BestOver
    <2>3. Working' = [coin |-> coin, best |-> b]
      BY <1>6, <1>b
      DEF SetBestBlock, Working, ViewCoin, TipCoin, ViewBest, TipBest, BestOver
    <2>4. Working = [coin |-> coin, best |-> ViewBest]
      BY DEF Working
    <2>5. Working' = [Working EXCEPT !.best = b]
      <3> HIDE DEF coin
      <3> QED BY <2>3, <2>4
    <2> QED BY <2>1, <2>2, <2>5 DEF StoreStep, Store!Next, Store!Name
  <1>7. CASE FlushView
    <2>1. \A q \in OutPoints :
            /\ ~MergeThrows(tip[q], view[q])
            /\ Merged(tip[q], view[q]) \in Entry
            /\ FlagsHonest(Merged(tip[q], view[q]), db[q])
            /\ Lookup(Merged(tip[q], view[q]), db[q]) = ViewCoin(q)
      BY <1>a, MergedHonest DEF TipCoin, ViewCoin
    <2>2. \A q \in OutPoints : TipCoin(q)' = ViewCoin(q) /\ ViewCoin(q)' = ViewCoin(q)
      BY <1>7, <2>1 DEF FlushView, TipCoin, ViewCoin, Lookup, EmptyCache, NoEntry
    <2>3. TipBest' = ViewBest /\ ViewBest' = ViewBest
      BY <1>7, <1>b DEF FlushView, TipBest, ViewBest, BestOver, ViewKnowsItsBlock
    <2>4. TypeOK' /\ NoLogicError' /\ ViewKnowsItsBlock'
      BY <1>7, <1>b, <2>1, NoEntryHonest, ZenonT(40)
      DEF FlushView, TypeOK, NoLogicError, ViewKnowsItsBlock, EmptyCache
    <2>5. FlagsSound'
      BY <1>7, <1>a, <2>1, <2>2, NoEntryHonest DEF FlushView, FlagsSound, EmptyCache
    <2>6. Committed' = Working /\ Working' = Working /\ Disk' = Disk
      BY <1>7, <2>2, <2>3 DEF FlushView, Committed, Working, Disk
    <2> QED BY <2>4, <2>5, <2>6 DEF StoreStep, Store!Next, Store!Commit
  <1>8. CASE DropView
    <2>1. \A q \in OutPoints : TipCoin(q)' = TipCoin(q) /\ ViewCoin(q)' = TipCoin(q)
      BY <1>8 DEF DropView, TipCoin, ViewCoin, Lookup, EmptyCache, NoEntry
    <2>2. TipBest' = TipBest /\ ViewBest' = TipBest
      BY <1>8 DEF DropView, TipBest, ViewBest, BestOver
    <2>3. TypeOK' /\ NoLogicError' /\ ViewKnowsItsBlock'
      BY <1>8, <1>b, NoEntryHonest, <1>a, ZenonT(40)
      DEF DropView, TypeOK, NoLogicError, ViewKnowsItsBlock, EmptyCache
    <2>4. FlagsSound'
      BY <1>8, <1>a, <2>1, NoEntryHonest DEF DropView, FlagsSound, EmptyCache
    <2>5. Working' = Committed /\ Committed' = Committed /\ Disk' = Disk
      BY <1>8, <2>1, <2>2 DEF DropView, Committed, Working, Disk
    <2> QED BY <2>3, <2>4, <2>5 DEF StoreStep, Store!Next, Store!Abort
  <1>9. ASSUME NEW o \in OutPoints, TipAccessCoin(o) \/ TipUncache(o)
        PROVE  CacheInv' /\ StoreStep
    <2>1. PICK e \in Entry : /\ tip' = [tip EXCEPT ![o] = e]
                             /\ FlagsHonest(e, db[o])
                             /\ Lookup(e, db[o]) = TipCoin(o)
      BY <1>9, <1>a, FetchedHonest, UncachedHonest DEF TipAccessCoin, TipUncache, TipCoin
    <2>2. UNCHANGED <<open, view, viewBlock, tipBlock, db, dbBlock, threw>>
      BY <1>9 DEF TipAccessCoin, TipUncache
    <2>3. \A q \in OutPoints : TipCoin(q)' = TipCoin(q) /\ ViewCoin(q)' = ViewCoin(q)
      BY <2>1, <2>2 DEF TypeOK, TipCoin, ViewCoin
    <2>4. TipBest' = TipBest /\ ViewBest' = ViewBest
      BY <2>2 DEF TipBest, ViewBest, BestOver
    <2>5. TypeOK' /\ NoLogicError' /\ ViewKnowsItsBlock'
      BY <2>1, <2>2, <2>4 DEF TypeOK, NoLogicError, ViewKnowsItsBlock
    <2>6. FlagsSound'
      BY <1>a, <2>1, <2>2, <2>3 DEF FlagsSound, TypeOK
    <2>7. UNCHANGED <<Working, Committed, Disk>>
      BY <2>2, <2>3, <2>4 DEF Working, Committed, Disk
    <2> QED BY <2>5, <2>6, <2>7 DEF StoreStep
  <1>10. CASE FlushTip
    <2>1. \A q \in OutPoints : /\ Written(db[q], tip[q]) \in MaybeCoin
                               /\ Written(db[q], tip[q]) = TipCoin(q)
      BY <1>a, WrittenHonest DEF TipCoin
    <2>2. \A q \in OutPoints : db'[q] = TipCoin(q) /\ TipCoin(q)' = TipCoin(q)
                               /\ ViewCoin(q)' = ViewCoin(q)
      BY <1>10, <2>1 DEF FlushTip, TipCoin, ViewCoin, Lookup, EmptyCache, NoEntry
    <2>3. TipBest' = TipBest /\ ViewBest' = ViewBest /\ dbBlock' = TipBest
      BY <1>10 DEF FlushTip, TipBest, ViewBest, BestOver
    <2>4. TypeOK' /\ NoLogicError' /\ ViewKnowsItsBlock'
      BY <1>10, <2>1, <2>3, NoEntryHonest, <1>a
      DEF FlushTip, TypeOK, NoLogicError, ViewKnowsItsBlock, EmptyCache
    <2>5. FlagsSound'
      BY <1>10, <1>a, <2>2, NoEntryHonest DEF FlushTip, FlagsSound, EmptyCache
    <2>6. db' = [q \in OutPoints |-> TipCoin(q)]
      BY <1>10, <2>1 DEF FlushTip
    <2>7. Disk' = Committed /\ Committed' = Committed /\ Working' = Working
      BY <2>2, <2>3, <2>6 DEF Committed, Working, Disk
    <2> QED BY <2>4, <2>5, <2>7 DEF StoreStep, Store!Next, Store!Persist
  <1>11. CASE Crash
    <2>1. \A q \in OutPoints : TipCoin(q)' = db[q] /\ ViewCoin(q)' = db[q]
      BY <1>11 DEF Crash, TipCoin, ViewCoin, Lookup, EmptyCache, NoEntry
    <2>2. TipBest' = dbBlock /\ ViewBest' = dbBlock
      BY <1>11 DEF Crash, TipBest, ViewBest, BestOver
    <2>3. TypeOK' /\ NoLogicError' /\ ViewKnowsItsBlock'
      BY <1>11, <1>a, NoEntryHonest, ZenonT(40)
      DEF Crash, TypeOK, NoLogicError, ViewKnowsItsBlock, EmptyCache
    <2>4. FlagsSound'
      BY <1>11, <1>a, <2>1, NoEntryHonest DEF Crash, FlagsSound, EmptyCache
    <2>5. db = [q \in OutPoints |-> db[q]]
      BY DEF TypeOK
    <2>6. Working' = Disk /\ Committed' = Disk /\ Disk' = Disk
      BY <1>11, <2>1, <2>2, <2>5 DEF Crash, Committed, Working, Disk
    <2> QED BY <2>3, <2>4, <2>6 DEF StoreStep, Store!Next, Store!Crash
  <1> QED BY <1>1, <1>2, <1>3, <1>4, <1>5, <1>6, <1>7, <1>8, <1>9, <1>10, <1>11 DEF Next

(* The caches start empty over an empty database.                          *)
LEMMA InitOK ==
    ASSUME Init
    PROVE  CacheInv /\ Store!Init
  <1>1. TypeOK /\ NoLogicError /\ ViewKnowsItsBlock
    BY ZenonT(40) DEF Init, TypeOK, NoLogicError, ViewKnowsItsBlock, TipBest, BestOver, EmptyCache,
           NoEntry, Entry, MaybeCoin, Flags
  <1>2. \A q \in OutPoints : TipCoin(q) = Spent /\ ViewCoin(q) = Spent
    BY DEF Init, TipCoin, ViewCoin, Lookup, EmptyCache, NoEntry
  <1>3. FlagsSound
    BY <1>2 DEF Init, FlagsSound, FlagsHonest, EmptyCache, NoEntry
  <1>4. Store!Init
    BY <1>2 DEF Init, Store!Init, Working, Committed, Disk, ViewBest, TipBest, BestOver
  <1> QED BY <1>1, <1>3, <1>4 DEF CacheInv

(* Nothing visible changes when no variable does.                          *)
LEMMA StutterOK ==
    ASSUME CacheInv, UNCHANGED vars
    PROVE  CacheInv' /\ UNCHANGED <<Working, Committed, Disk>>
  BY DEF CacheInv, vars, TypeOK, FlagsSound, NoLogicError, ViewKnowsItsBlock, Working,
         Committed, Disk, TipCoin, ViewCoin, TipBest, ViewBest, BestOver

(***************************************************************************)
(* For any outpoints, coins and blocks, at every step: the state is well   *)
(* typed, the DIRTY and FRESH flags of both caches are honest, no method   *)
(* throws std::logic_error, and a view that is flushed knows its block.    *)
(***************************************************************************)
THEOREM CachesSound == Spec => [](TypeOK /\ FlagsSound /\ NoLogicError /\ ViewKnowsItsBlock)
  <1>1. Init => CacheInv
    BY InitOK
  <1>2. CacheInv /\ [Next]_vars => CacheInv'
    BY StepOK, StutterOK
  <1> QED BY <1>1, <1>2, PTL DEF Spec, CacheInv

(***************************************************************************)
(* For any outpoints, coins and blocks: the view over pcoinsTip over the   *)
(* database implements three plain versions of the unspent set.            *)
(***************************************************************************)
THEOREM CachesImplementStore == Spec => CachingIsInvisible
  <1>1. Init => CacheInv /\ Store!Init
    BY InitOK
  <1>2. CacheInv /\ [Next]_vars => CacheInv' /\ [Store!Next]_(Store!storeVars)
    BY StepOK, StutterOK DEF StoreStep, Store!storeVars
  <1> QED BY <1>1, <1>2, PTL DEF Spec, CachingIsInvisible, Store!Spec
=============================================================================
