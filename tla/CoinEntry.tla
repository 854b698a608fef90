----------------------------- MODULE CoinEntry -----------------------------
(***************************************************************************)
(* One slot of a CCoinsViewCache (src/coins.h, src/coins.cpp).             *)
(*                                                                         *)
(* A cache maps outpoints to CCoinsCacheEntry, a Coin plus the flags DIRTY *)
(* ("potentially different from the version in the parent view") and FRESH *)
(* ("the parent view does not have this entry, or it is pruned").  Every   *)
(* method of the cache works on one slot at a time, so the methods are     *)
(* operators on slots here and the modules that have caches as variables   *)
(* map them over outpoints.  A slot that the map does not contain is       *)
(* NoEntry, whose coin is Spent like that of a default-constructed Coin.   *)
(***************************************************************************)
CONSTANTS
    Coins,   \* the unspent coins an outpoint may carry
    Spent    \* Coin::Clear(): the pruned coin

ASSUME SpentIsNoCoin == Spent \notin Coins

MaybeCoin == Coins \cup {Spent}

Flags == {"DIRTY", "FRESH"}

Entry == [cached : BOOLEAN, coin : MaybeCoin, flags : SUBSET Flags]

NoEntry == [cached |-> FALSE, coin |-> Spent, flags |-> {}]

(***************************************************************************)
(* What a lookup in a cache sees when its base view answers b.             *)
(***************************************************************************)
Lookup(e, b) == IF e.cached THEN e.coin ELSE b

(***************************************************************************)
(* FetchCoin: a miss copies the base's coin without flags.  GetCoin of a   *)
(* base returns true only for an unspent coin, so nothing is cached for a  *)
(* spent one and the branch that would mark such an entry FRESH is dead.   *)
(***************************************************************************)
Fetched(e, b) ==
    IF e.cached \/ b = Spent THEN e
    ELSE [cached |-> TRUE, coin |-> b, flags |-> {}]

(***************************************************************************)
(* AddCoin of coin c.  Without possible_overwrite an unspent entry makes   *)
(* it throw; the entry becomes FRESH when it was not yet DIRTY.            *)
(***************************************************************************)
AddCoinThrows(e, possibleOverwrite) == ~possibleOverwrite /\ e.coin # Spent

(* Mutation: fresh without looking at the DIRTY flag of the old entry.     *)
AddedFreshOverDirty(e, c, possibleOverwrite) ==
    [cached |-> TRUE, coin |-> c,
     flags  |-> e.flags \cup {"DIRTY"}
                \cup IF ~possibleOverwrite THEN {"FRESH"} ELSE {}]

Added(e, c, possibleOverwrite) ==
    [cached |-> TRUE, coin |-> c,
     flags  |-> e.flags \cup {"DIRTY"}
                \cup IF ~possibleOverwrite /\ "DIRTY" \notin e.flags
                     THEN {"FRESH"} ELSE {}]

(***************************************************************************)
(* SpendCoin of a fetched entry: a FRESH one is erased, any other one is   *)
(* kept as a DIRTY tombstone for the parent.                               *)
(***************************************************************************)
SpentOut(e) ==
    CASE ~e.cached           -> e
      [] "FRESH" \in e.flags -> NoEntry
      [] OTHER               -> [e EXCEPT !.coin = Spent,
                                          !.flags = @ \cup {"DIRTY"}]

(***************************************************************************)
(* Uncache: only an entry without flags may be dropped.                    *)
(***************************************************************************)
Uncached(e) == IF e.flags = {} THEN NoEntry ELSE e

(***************************************************************************)
(* CCoinsViewCache::BatchWrite: the child's entry c is merged into the     *)
(* parent's entry p.  It throws when the child's FRESH contradicts an      *)
(* unspent parent coin.                                                    *)
(***************************************************************************)
MergeThrows(p, c) ==
    /\ "DIRTY" \in c.flags
    /\ "FRESH" \in c.flags
    /\ p.coin # Spent

(* Mutation: the child's FRESH flag is copied onto an existing parent entry. *)
MergedCopyingFresh(p, c) ==
    CASE "DIRTY" \notin c.flags -> p
      [] "DIRTY" \in c.flags /\ ~p.cached ->
            IF "FRESH" \in c.flags /\ c.coin = Spent THEN NoEntry
            ELSE [cached |-> TRUE, coin |-> c.coin,
                  flags  |-> {"DIRTY"} \cup (c.flags \cap {"FRESH"})]
      [] OTHER ->
            IF "FRESH" \in p.flags /\ c.coin = Spent THEN NoEntry
            ELSE [p EXCEPT !.coin = c.coin, !.flags = @ \cup c.flags]

Merged(p, c) ==
    CASE "DIRTY" \notin c.flags -> p
      [] "DIRTY" \in c.flags /\ ~p.cached ->
            IF "FRESH" \in c.flags /\ c.coin = Spent THEN NoEntry
            ELSE [cached |-> TRUE, coin |-> c.coin,
                  flags  |-> {"DIRTY"} \cup (c.flags \cap {"FRESH"})]
      [] OTHER ->
            IF "FRESH" \in p.flags /\ c.coin = Spent THEN NoEntry
            ELSE [p EXCEPT !.coin = c.coin, !.flags = @ \cup {"DIRTY"}]

(***************************************************************************)
(* CCoinsViewDB::BatchWrite on one outpoint: only DIRTY entries reach the  *)
(* database, a spent coin as an erase.                                     *)
(***************************************************************************)
Written(d, e) == IF "DIRTY" \in e.flags THEN e.coin ELSE d

(***************************************************************************)
(* What the flags promise about an entry e over a base that answers b      *)
(* (coins.h, CCoinsCacheEntry): no entry no flags, FRESH only over a spent *)
(* coin, and an entry that is not DIRTY repeats the base.                  *)
(***************************************************************************)
FlagsHonest(e, b) ==
    /\ ~e.cached => e = NoEntry
    /\ "FRESH" \in e.flags => b = Spent
    /\ e.cached /\ "DIRTY" \notin e.flags => e.coin = b
=============================================================================
