-------------------------- MODULE ChainstateProofs --------------------------
(***************************************************************************)
(* Proofs about Chainstate for any tree of valid blocks and any number of  *)
(* crashes: pcoinsTip holds the coins of its best block, the disk can be   *)
(* recovered from wherever the process stops, and nothing ever fails.      *)
(*                                                                         *)
(* A work w is Near V when its entries are honest about their base and     *)
(* what is read through it at an outpoint o is in V[o].  While a block is  *)
(* connected or disconnected V[o] is the one coin of the reference; while  *)
(* a half-written database is replayed it also has the coin of the new     *)
(* head, since the database already held that one at some outpoints.       *)
(***************************************************************************)
EXTENDS Chainstate, BlockTreeProofs

(* Most of the leaves are about sets, for Zenon; those with arithmetic,    *)
(* functions or records in them cite SMT.                                  *)
USE ZenonT(60)

(* An honest entry through which one reads a coin of V. *)
Good(e, b, V) == e \in Entry /\ FlagsHonest(e, b) /\ Lookup(e, b) \in V

Works == [cache : [OutPoints -> Entry], missed : SUBSET OutPoints, clean : BOOLEAN, gaveUp : BOOLEAN]

Bases == [OutPoints -> MaybeCoin]

Near(w, base, V) ==
    w \in Works /\ ~w.gaveUp /\ \A o \in OutPoints : Good(w.cache[o], base[o], V[o])

-----------------------------------------------------------------------------
(* Slots: what the methods of the cache do to an honest entry. *)
LEMMA GoodNone ==
  ASSUME NEW b \in MaybeCoin
  PROVE  Good(NoEntry, b, {b})
  BY DEF Good, FlagsHonest, Lookup, Entry, NoEntry, MaybeCoin, Flags

LEMMA GoodFetched ==
  ASSUME NEW b \in MaybeCoin, NEW V, NEW e, Good(e, b, V)
  PROVE  Good(Fetched(e, b), b, V) /\ Fetched(e, b).coin = Lookup(e, b)
  <1>1. Good(Fetched(e, b), b, V)
    BY ZenonT(40) DEF Good, Fetched, FlagsHonest, Lookup, Entry, MaybeCoin, Flags, NoEntry
  <1>2. Fetched(e, b).coin = Lookup(e, b)
    BY SMTT(30) DEF Good, Fetched, FlagsHonest, Lookup, NoEntry
  <1> QED BY <1>1, <1>2

LEMMA GoodSpent ==
  ASSUME NEW b \in MaybeCoin, NEW V, NEW e, Good(e, b, V)
  PROVE  Good(SpentOut(Fetched(e, b)), b, {Spent})
  <1> DEFINE f == Fetched(e, b)
  <1>1. Good(f, b, V)
    BY GoodFetched
  <1>2. f.cached \/ b = Spent
    BY DEF Fetched
  <1> HIDE DEF f
  <1>3. Good(SpentOut(f), b, {Spent})
    BY <1>1, <1>2, ZenonT(40) DEF Good, SpentOut, FlagsHonest, Lookup, Entry, MaybeCoin, Flags, NoEntry
  <1> QED BY <1>3 DEF f

LEMMA GoodAdded ==
  ASSUME NEW b \in MaybeCoin, NEW V, NEW e, Good(e, b, V), NEW c \in Coins, NEW over \in BOOLEAN,
         over \/ Lookup(e, b) = Spent
  PROVE  ~AddCoinThrows(e, over) /\ Good(Added(e, c, over), b, {c})
  <1>1. ~AddCoinThrows(e, over)
    BY SMTT(30) DEF Good, AddCoinThrows, FlagsHonest, Lookup, NoEntry
  <1>2. Good(Added(e, c, over), b, {c})
    BY SpentIsNoCoin DEF Good, Added, FlagsHonest, Lookup, Entry, MaybeCoin, Flags, NoEntry
  <1> QED BY <1>1, <1>2

(* A child over what the parent p reads, merged into p. *)
LEMMA GoodMerged ==
  ASSUME NEW d \in MaybeCoin, NEW u, NEW V, NEW p, NEW c, Good(p, d, {u}), Good(c, u, V)
  PROVE  ~MergeThrows(p, c) /\ Good(Merged(p, c), d, V)
  <1>0. u = Lookup(p, d) /\ p \in Entry /\ c \in Entry /\ FlagsHonest(p, d) /\ FlagsHonest(c, u) /\ Lookup(c, u) \in V
    BY DEF Good
  <1>1. ~MergeThrows(p, c)
    BY <1>0, SMTT(30) DEF MergeThrows, FlagsHonest, Lookup, NoEntry
  <1>2. CASE "DIRTY" \notin c.flags
    <2>1. Merged(p, c) = p
      BY <1>2 DEF Merged
    <2>2. Lookup(c, u) = u
      BY <1>0, <1>2 DEF FlagsHonest, Lookup
    <2> QED BY <1>0, <1>1, <2>1, <2>2 DEF Good
  <1>3. CASE "DIRTY" \in c.flags /\ ~p.cached
    BY <1>0, <1>1, <1>3, SMTT(30) DEF Good, Merged, FlagsHonest, Lookup, Entry, Flags, MaybeCoin, NoEntry
  <1>4. CASE "DIRTY" \in c.flags /\ p.cached
    <2>0. c.cached
      BY <1>0, <1>4, SMTT(30) DEF FlagsHonest, NoEntry
    <2>1. CASE "FRESH" \in p.flags /\ c.coin = Spent
      <3>1. Merged(p, c) = NoEntry
        BY <1>4, <2>1 DEF Merged
      <3> QED BY <1>0, <1>1, <1>4, <2>0, <2>1, <3>1, SMTT(30) DEF Good, FlagsHonest, Lookup, Entry, Flags, MaybeCoin, NoEntry
    <2>2. CASE ~("FRESH" \in p.flags /\ c.coin = Spent)
      <3> DEFINE m == [p EXCEPT !.coin = c.coin, !.flags = @ \cup {"DIRTY"}]
      <3>1. Merged(p, c) = m
        BY <1>4, <2>2 DEF Merged
      <3>2. m \in Entry /\ m.cached /\ m.coin = c.coin /\ m.flags = p.flags \cup {"DIRTY"}
        BY <1>0, <1>4, ZenonT(40) DEF Entry, Flags, MaybeCoin
      <3> HIDE DEF m
      <3> QED BY <1>0, <1>1, <1>4, <2>0, <3>1, <3>2, SMTT(30) DEF Good, FlagsHonest, Lookup, Entry
    <2> QED BY <2>1, <2>2
  <1> QED BY <1>2, <1>3, <1>4 DEF Entry

(* What is written to the database is what was read through the cache. *)
LEMMA GoodWritten ==
  ASSUME NEW d \in MaybeCoin, NEW v, NEW e, Good(e, d, {v})
  PROVE  Written(d, e) = v /\ v \in MaybeCoin
  BY SMTT(30) DEF Good, Written, FlagsHonest, Lookup, Entry, NoEntry
-----------------------------------------------------------------------------
(* The fields of a work after the steps of the cache. *)
LEMMA FetchFields ==
  ASSUME NEW w \in Works, NEW base, NEW S \in SUBSET OutPoints
  PROVE  /\ Fetch(w, base, S).cache = [o \in OutPoints |-> IF o \in S THEN Fetched(w.cache[o], base[o]) ELSE w.cache[o]]
         /\ Fetch(w, base, S).missed \in SUBSET OutPoints
         /\ Fetch(w, base, S).clean = w.clean
         /\ Fetch(w, base, S).gaveUp = w.gaveUp
         /\ Fetch(w, base, S) = [cache |-> Fetch(w, base, S).cache, missed |-> Fetch(w, base, S).missed,
                                 clean |-> w.clean, gaveUp |-> w.gaveUp]
  <1> DEFINE c == [o \in OutPoints |-> IF o \in S THEN Fetched(w.cache[o], base[o]) ELSE w.cache[o]]
             m == w.missed \cup {o \in S : ~ w.cache[o].cached}
             f == Fetch(w, base, S)
  <1>1. f = [w EXCEPT !.missed = m, !.cache = c]
    BY DEF Fetch
  <1>2. m \in SUBSET OutPoints
    BY DEF Works
  <1> HIDE DEF c, m, f
  <1>3. f = [cache |-> c, missed |-> m, clean |-> w.clean, gaveUp |-> w.gaveUp]
    BY <1>1 DEF Works
  <1> QED BY <1>2, <1>3, SMTT(30) DEF c, f

(* A work is in Works when its fields are. *)
LEMMA WorkOfFields ==
  ASSUME NEW c \in [OutPoints -> Entry], NEW m \in SUBSET OutPoints, NEW k \in BOOLEAN, NEW g \in BOOLEAN
  PROVE  [cache |-> c, missed |-> m, clean |-> k, gaveUp |-> g] \in Works
  BY DEF Works

LEMMA FetchNear ==
  ASSUME NEW base \in Bases, NEW V, NEW w, Near(w, base, V), NEW S \in SUBSET OutPoints
  PROVE  /\ Near(Fetch(w, base, S), base, V)
         /\ Fetch(w, base, S).clean = w.clean
         /\ \A o \in S : Fetch(w, base, S).cache[o].coin = Lookup(w.cache[o], base[o])
  <1> DEFINE f == Fetch(w, base, S)
  <1>0. w \in Works /\ ~w.gaveUp /\ \A o \in OutPoints : base[o] \in MaybeCoin /\ Good(w.cache[o], base[o], V[o])
    BY DEF Near, Bases
  <1>1. /\ f.cache = [o \in OutPoints |-> IF o \in S THEN Fetched(w.cache[o], base[o]) ELSE w.cache[o]]
        /\ f.missed \in SUBSET OutPoints /\ f.clean = w.clean /\ f.gaveUp = w.gaveUp
        /\ f = [cache |-> f.cache, missed |-> f.missed, clean |-> w.clean, gaveUp |-> w.gaveUp]
    BY <1>0, FetchFields, SMTT(30)
  <1> HIDE DEF f
  <1>2. \A o \in OutPoints : Good(f.cache[o], base[o], V[o])
    BY <1>0, <1>1, GoodFetched, SMTT(30)
  <1>3. f.cache \in [OutPoints -> Entry]
    BY <1>1, <1>2 DEF Good
  <1>4. f \in Works
    BY <1>0, <1>1, <1>3, WorkOfFields DEF Works
  <1>5. ASSUME NEW o \in S PROVE f.cache[o].coin = Lookup(w.cache[o], base[o])
    <2>1. base[o] \in MaybeCoin /\ Good(w.cache[o], base[o], V[o])
      BY <1>0
    <2>2. f.cache[o] = Fetched(w.cache[o], base[o])
      BY <1>1
    <2> QED BY <2>1, <2>2, GoodFetched
  <1> QED BY <1>0, <1>1, <1>2, <1>4, <1>5 DEF Near, f

LEMMA SpendNear ==
  ASSUME NEW base \in Bases, NEW V, NEW w, Near(w, base, V), NEW S \in SUBSET OutPoints,
         NEW U, \A o \in OutPoints : IF o \in S THEN Spent \in U[o] ELSE V[o] \subseteq U[o]
  PROVE  Near(Spend(w, base, S), base, U) /\ Spend(w, base, S).clean = w.clean
  <1> DEFINE f == Fetch(w, base, S)
             s == Spend(w, base, S)
  <1>0. w \in Works /\ ~w.gaveUp /\ \A o \in OutPoints : base[o] \in MaybeCoin /\ Good(w.cache[o], base[o], V[o])
    BY DEF Near, Bases
  <1>1. /\ f.cache = [o \in OutPoints |-> IF o \in S THEN Fetched(w.cache[o], base[o]) ELSE w.cache[o]]
        /\ f.missed \in SUBSET OutPoints /\ f.clean = w.clean /\ f.gaveUp = w.gaveUp
        /\ f = [cache |-> f.cache, missed |-> f.missed, clean |-> w.clean, gaveUp |-> w.gaveUp]
    BY <1>0, FetchFields, SMTT(30)
  <1>2. s = [f EXCEPT !.cache = [o \in OutPoints |-> IF o \in S THEN SpentOut(f.cache[o]) ELSE f.cache[o]]]
    BY DEF Spend
  <1> HIDE DEF f, s
  <1>3. /\ s.cache = [o \in OutPoints |-> IF o \in S THEN SpentOut(f.cache[o]) ELSE f.cache[o]]
        /\ s = [cache |-> s.cache, missed |-> f.missed, clean |-> w.clean, gaveUp |-> w.gaveUp]
        /\ s.clean = w.clean /\ s.gaveUp = w.gaveUp
    BY <1>1, <1>2
  <1>4. \A o \in OutPoints : Good(s.cache[o], base[o], U[o])
    <2> SUFFICES ASSUME NEW o \in OutPoints PROVE Good(s.cache[o], base[o], U[o])
      OBVIOUS
    <2>1. CASE o \in S
      <3>1. Good(s.cache[o], base[o], {Spent})
        <4>1. s.cache[o] = SpentOut(Fetched(w.cache[o], base[o]))
          BY <1>1, <1>3, <2>1
        <4> QED BY <1>0, <4>1, GoodSpent
      <3> QED BY <2>1, <3>1 DEF Good
    <2>2. CASE o \notin S
      BY <1>0, <1>1, <1>3, <2>2 DEF Good
    <2> QED BY <2>1, <2>2
  <1>5. s.cache \in [OutPoints -> Entry]
    BY <1>3, <1>4 DEF Good
  <1>6. s \in Works
    BY <1>0, <1>1, <1>3, <1>5, WorkOfFields, SMTT(30) DEF Works
  <1> QED BY <1>0, <1>3, <1>4, <1>6 DEF Near, s

LEMMA AddNear ==
  ASSUME NEW base \in Bases, NEW V, NEW w, Near(w, base, V), NEW coin, NEW over,
         DOMAIN coin \subseteq OutPoints, \A o \in DOMAIN coin : coin[o] \in Coins,
         \A o \in DOMAIN coin : o \in over \/ Lookup(w.cache[o], base[o]) = Spent,
         NEW U, \A o \in OutPoints : IF o \in DOMAIN coin THEN coin[o] \in U[o] ELSE V[o] \subseteq U[o]
  PROVE  Near(Add(w, coin, over), base, U) /\ Add(w, coin, over).clean = w.clean
  <1> DEFINE a == Add(w, coin, over)
             thrown == {o \in DOMAIN coin : AddCoinThrows(w.cache[o], o \in over)}
  <1>0. w \in Works /\ ~w.gaveUp /\ \A o \in OutPoints : base[o] \in MaybeCoin /\ Good(w.cache[o], base[o], V[o])
    BY DEF Near, Bases
  <1>1. \A o \in DOMAIN coin : /\ ~AddCoinThrows(w.cache[o], o \in over)
                               /\ Good(Added(w.cache[o], coin[o], o \in over), base[o], {coin[o]})
    <2> SUFFICES ASSUME NEW o \in DOMAIN coin
                 PROVE  /\ ~AddCoinThrows(w.cache[o], o \in over)
                        /\ Good(Added(w.cache[o], coin[o], o \in over), base[o], {coin[o]})
      OBVIOUS
    <2>1. o \in OutPoints /\ coin[o] \in Coins /\ (o \in over) \in BOOLEAN
      BY SMTT(30)
    <2>2. base[o] \in MaybeCoin /\ Good(w.cache[o], base[o], V[o])
      BY <1>0, <2>1
    <2> QED BY <2>1, <2>2, GoodAdded
  <1>2. thrown = {}
    BY <1>1
  <1>3. a = [w EXCEPT !.gaveUp = w.gaveUp \/ thrown # {},
                      !.cache = [o \in OutPoints |-> IF o \in DOMAIN coin \ thrown
                                                     THEN Added(w.cache[o], coin[o], o \in over) ELSE w.cache[o]]]
    BY DEF Add
  <1> HIDE DEF a, thrown
  <1>4. /\ a.cache = [o \in OutPoints |-> IF o \in DOMAIN coin THEN Added(w.cache[o], coin[o], o \in over) ELSE w.cache[o]]
        /\ a = [cache |-> a.cache, missed |-> w.missed, clean |-> w.clean, gaveUp |-> w.gaveUp]
        /\ a.clean = w.clean /\ a.gaveUp = w.gaveUp
    BY <1>0, <1>2, <1>3 DEF Works
  <1>5. \A o \in OutPoints : Good(a.cache[o], base[o], U[o])
    <2> SUFFICES ASSUME NEW o \in OutPoints PROVE Good(a.cache[o], base[o], U[o])
      OBVIOUS
    <2>1. CASE o \in DOMAIN coin
      <3>1. Good(a.cache[o], base[o], {coin[o]})
        BY <1>1, <1>4, <2>1
      <3> QED BY <2>1, <3>1 DEF Good
    <2>2. CASE o \notin DOMAIN coin
      BY <1>0, <1>4, <2>2 DEF Good
    <2> QED BY <2>1, <2>2
  <1>6. a.cache \in [OutPoints -> Entry]
    BY <1>4, <1>5 DEF Good
  <1>7. a \in Works
    BY <1>0, <1>4, <1>6, WorkOfFields, SMTT(30) DEF Works
  <1> QED BY <1>0, <1>4, <1>5, <1>7 DEF Near, a

(* AddCoins with the lookup first: an output that is there is overwritten. *)
LEMMA AddCheckedNear ==
  ASSUME NEW base \in Bases, NEW V, NEW w, Near(w, base, V), NEW coin,
         DOMAIN coin \subseteq OutPoints, \A o \in DOMAIN coin : coin[o] \in Coins,
         NEW U, \A o \in OutPoints : IF o \in DOMAIN coin THEN coin[o] \in U[o] ELSE V[o] \subseteq U[o]
  PROVE  Near(AddChecked(w, base, coin), base, U) /\ AddChecked(w, base, coin).clean = w.clean
  <1> DEFINE f == Fetch(w, base, DOMAIN coin)
             over == {o \in DOMAIN coin : f.cache[o].coin # Spent}
  <1>1. Near(f, base, V) /\ f.clean = w.clean
    BY FetchNear, SMTT(30)
  <1>2. AddChecked(w, base, coin) = Add(f, coin, over)
    BY DEF AddChecked
  <1>3. ASSUME NEW o \in DOMAIN coin PROVE o \in over \/ Lookup(f.cache[o], base[o]) = Spent
    <2>1. f.cache[o].coin = Lookup(w.cache[o], base[o])
      BY FetchNear, SMTT(30)
    <2>2. f.cache[o] = Fetched(w.cache[o], base[o])
      <3>1. w \in Works
        BY DEF Near
      <3>2. f.cache = [x \in OutPoints |-> IF x \in DOMAIN coin THEN Fetched(w.cache[x], base[x]) ELSE w.cache[x]]
        BY <3>1, FetchFields, SMTT(30)
      <3> QED BY <3>2
    <2>3. base[o] \in MaybeCoin /\ Good(w.cache[o], base[o], V[o]) 
      BY DEF Near, Bases
    <2>4. Lookup(f.cache[o], base[o]) = f.cache[o].coin
      <3> HIDE DEF f
      <3> QED BY <2>2, <2>3, SMTT(30) DEF Fetched, Lookup, Good, FlagsHonest, NoEntry
    <2> QED BY <2>4
  <1> HIDE DEF f, over
  <1> QED BY <1>1, <1>2, <1>3, AddNear, SMTT(30)
-----------------------------------------------------------------------------
(* One transaction: connected, disconnected and rolled forward. *)
LEMMA UpdateCoinsNear ==
  ASSUME NEW base \in Bases, NEW V, NEW w, Near(w, base, V), NEW tx, NEW height \in Coins,
         tx.in \in SUBSET OutPoints, tx.out \in SUBSET OutPoints, tx.in \cap tx.out = {},
         \A o \in tx.in : Spent \notin V[o],
         tx.coinbase \/ \A o \in tx.out : V[o] \subseteq {Spent},
         NEW U, \A o \in OutPoints : IF o \in tx.out THEN height \in U[o]
                                     ELSE IF o \in tx.in THEN Spent \in U[o] ELSE V[o] \subseteq U[o]
  PROVE  Near(UpdateCoins(w, base, tx, height), base, U) /\ UpdateCoins(w, base, tx, height).clean = w.clean
  <1> DEFINE M == [o \in OutPoints |-> IF o \in tx.in THEN {Spent} ELSE V[o]]
             s == Spend(w, base, tx.in)
             coin == [o \in tx.out |-> height]
             over == IF tx.coinbase THEN tx.out ELSE {}
  <1>1. Near(s, base, M) /\ s.clean = w.clean
    BY SpendNear, SMTT(30)
  <1>2. ~ \E o \in tx.in : Lookup(w.cache[o], base[o]) = Spent
    BY DEF Near, Good
  <1>3. s = [s EXCEPT !.gaveUp = s.gaveUp \/ \E o \in tx.in : Lookup(w.cache[o], base[o]) = Spent]
    <2> HIDE DEF s
    <2>1. s \in Works /\ ~s.gaveUp
      BY <1>1 DEF Near
    <2> QED BY <1>2, <2>1 DEF Works
  <1>4. UpdateCoins(w, base, tx, height) = Add(s, coin, over)
    BY <1>3 DEF UpdateCoins
  <1> HIDE DEF s
  <1>5. DOMAIN coin \subseteq OutPoints /\ \A o \in DOMAIN coin : coin[o] \in Coins
    OBVIOUS
  <1>6. ASSUME NEW o \in DOMAIN coin PROVE o \in over \/ Lookup(s.cache[o], base[o]) = Spent
    <2>1. CASE tx.coinbase
      BY <2>1
    <2>2. CASE ~tx.coinbase
      <3>1. M[o] \subseteq {Spent}
        BY <2>2
      <3>2. Lookup(s.cache[o], base[o]) \in M[o]
        BY <1>1 DEF Near, Good
      <3> QED BY <3>1, <3>2
    <2> QED BY <2>1, <2>2
  <1>7. \A o \in OutPoints : IF o \in DOMAIN coin THEN coin[o] \in U[o] ELSE M[o] \subseteq U[o]
    OBVIOUS
  <1> HIDE DEF M, coin, over
  <1> QED BY <1>1, <1>4, <1>5, <1>6, <1>7, AddNear, SMTT(30)

LEMMA RollforwardTxNear ==
  ASSUME NEW base \in Bases, NEW V, NEW w, Near(w, base, V), NEW tx, NEW height \in Coins,
         tx.in \in SUBSET OutPoints, tx.out \in SUBSET OutPoints,
         NEW U, \A o \in OutPoints : IF o \in tx.out THEN height \in U[o]
                                     ELSE IF o \in tx.in THEN Spent \in U[o] ELSE V[o] \subseteq U[o]
  PROVE  Near(RollforwardTx(w, base, tx, height), base, U)
  <1> DEFINE M == [o \in OutPoints |-> IF o \in tx.in THEN {Spent} ELSE V[o]]
             s == Spend(w, base, tx.in)
             coin == [o \in tx.out |-> height]
  <1>1. Near(s, base, M)
    BY SpendNear
  <1>2. RollforwardTx(w, base, tx, height) = AddChecked(s, base, coin)
    BY DEF RollforwardTx
  <1>3. DOMAIN coin \subseteq OutPoints /\ \A o \in DOMAIN coin : coin[o] \in Coins
    OBVIOUS
  <1>4. \A o \in OutPoints : IF o \in DOMAIN coin THEN coin[o] \in U[o] ELSE M[o] \subseteq U[o]
    OBVIOUS
  <1> HIDE DEF M, s, coin
  <1> QED BY <1>1, <1>2, <1>3, <1>4, AddCheckedNear, SMTT(30)

(* A disconnect is clean when the outputs are there and the inputs are not. *)
LEMMA DisconnectTxNear ==
  ASSUME NEW base \in Bases, NEW V, NEW w, Near(w, base, V), NEW b, NEW i,
         Txs[b][i].out \in SUBSET OutPoints, Txs[b][i].in \cap Txs[b][i].out = {},
         Txs[b][i].in \in SUBSET OutPoints,
         DOMAIN undo[b][i] = Txs[b][i].in, \A o \in Txs[b][i].in : undo[b][i][o] \in Coins,
         NEW U, \A o \in OutPoints : IF o \in Txs[b][i].in THEN undo[b][i][o] \in U[o]
                                     ELSE IF o \in Txs[b][i].out THEN Spent \in U[o] ELSE V[o] \subseteq U[o]
  PROVE  /\ Near(DisconnectTx(w, base, b, i), base, U)
         /\ w.clean /\ (\A o \in Txs[b][i].out : V[o] \subseteq {nHeight[b]})
                    /\ (\A o \in Txs[b][i].in : V[o] \subseteq {Spent}) => DisconnectTx(w, base, b, i).clean
  <1> DEFINE in == Txs[b][i].in
             out == Txs[b][i].out
             coin == undo[b][i]
             M == [o \in OutPoints |-> IF o \in out THEN {Spent} ELSE V[o]]
             s == Spend(w, base, out)
             r == [s EXCEPT !.clean = s.clean /\ \A o \in out : Lookup(w.cache[o], base[o]) = nHeight[b]]
             a == AddChecked(r, base, coin)
             back == \A o \in in : Lookup(r.cache[o], base[o]) = Spent
  <1>0. DisconnectTx(w, base, b, i) = [a EXCEPT !.clean = a.clean /\ back]
    BY DEF DisconnectTx, ApplyTxInUndo
  <1>1. Near(s, base, M) /\ s.clean = w.clean
    BY SpendNear, SMTT(30)
  <1> HIDE DEF s
  <1>2. /\ r \in Works /\ r.gaveUp = s.gaveUp /\ r.cache = s.cache
        /\ r.clean = (w.clean /\ \A o \in out : Lookup(w.cache[o], base[o]) = nHeight[b])
    BY <1>1 DEF Near, Works
  <1>3. Near(r, base, M)
    BY <1>1, <1>2 DEF Near
  <1>4. \A o \in OutPoints : IF o \in DOMAIN coin THEN coin[o] \in U[o] ELSE M[o] \subseteq U[o]
    OBVIOUS
  <1> HIDE DEF r
  <1>5. Near(a, base, U) /\ a.clean = r.clean
    <2> HIDE DEF M
    <2> QED BY <1>3, <1>4, AddCheckedNear, SMTT(30)
  <1> HIDE DEF a
  <1> DEFINE d == [a EXCEPT !.clean = a.clean /\ back]
  <1>6. d \in Works /\ d.gaveUp = a.gaveUp /\ d.cache = a.cache /\ d.clean = (a.clean /\ back)
    BY <1>5 DEF Near, Works
  <1>7. Near(d, base, U)
    BY <1>5, <1>6 DEF Near
  <1>8. ASSUME w.clean, \A o \in out : V[o] \subseteq {nHeight[b]}, \A o \in in : V[o] \subseteq {Spent}
        PROVE  d.clean
    <2>1. \A o \in out : Lookup(w.cache[o], base[o]) = nHeight[b]
      BY <1>8, SMTT(30) DEF Near, Good
    <2>2. ASSUME NEW o \in in PROVE Lookup(r.cache[o], base[o]) = Spent
      <3>1. M[o] \subseteq {Spent}
        BY <1>8
      <3>2. Lookup(r.cache[o], base[o]) \in M[o]
        BY <1>3 DEF Near, Good
      <3> QED BY <3>1, <3>2
    <2> QED BY <1>2, <1>5, <1>6, <1>8, <2>1, <2>2
  <1> HIDE DEF d
  <1> QED BY <1>0, <1>7, <1>8 DEF d
-----------------------------------------------------------------------------
(* Induction over the steps of a loop.  The naturals enter as a hypothesis *)
(* that the last part of this module discharges, as with FiniteTree.       *)
Inductive == \A S \in SUBSET Nat : 0 \in S /\ (\A i \in S : i + 1 \in S) => S = Nat

LEMMA Upward ==
  ASSUME Inductive, NEW n \in Nat, NEW Ok, NEW f, f[0] \in Ok[0],
         \A i \in 1..n : f[i - 1] \in Ok[i - 1] => f[i] \in Ok[i]
  PROVE  \A i \in 0..n : f[i] \in Ok[i]
  <1> DEFINE S == {i \in Nat : i <= n => f[i] \in Ok[i]}
  <1>1. S \in SUBSET Nat /\ 0 \in S
    OBVIOUS
  <1>2. ASSUME NEW i \in S PROVE i + 1 \in S
    <2>1. i + 1 \in Nat /\ (i + 1) - 1 = i
      BY SMTT(30)
    <2>2. ASSUME i + 1 <= n PROVE f[i + 1] \in Ok[i + 1]
      <3>1. i <= n /\ i + 1 \in 1..n
        BY <2>2, SMTT(30)
      <3> QED BY <2>1, <3>1
    <2> QED BY <2>1, <2>2
  <1> HIDE DEF S
  <1>3. S = Nat
    BY <1>1, <1>2 DEF Inductive
  <1> QED BY <1>3, SMTT(30) DEF S

Iteration(f, n, a, step) == f = [i \in 0..n |-> IF i = 0 THEN a ELSE step[i][f[i - 1]]]

(* Steps that keep to Ok can be iterated. *)
LEMMA Iterates ==
  ASSUME Inductive, NEW n \in Nat, NEW Ok, NEW a, NEW step, a \in Ok[0],
         \A i \in 1..n : \A v \in Ok[i - 1] : step[i][v] \in Ok[i]
  PROVE  \E f : Iteration(f, n, a, step) /\ \A i \in 0..n : f[i] \in Ok[i]
  <1> DEFINE Is(f, k) == /\ f = [i \in 0..k |-> IF i = 0 THEN a ELSE step[i][f[i - 1]]]
                         /\ \A i \in 0..k : f[i] \in Ok[i]
             S == {k \in Nat : k <= n => \E f : Is(f, k)}
  <1>1. 0 \in S
    <2> DEFINE f == [i \in 0..0 |-> a]
    <2>1. f = [i \in 0..0 |-> IF i = 0 THEN a ELSE step[i][f[i - 1]]]
      BY SMTT(30)
    <2>2. \A i \in 0..0 : f[i] \in Ok[i]
      BY SMTT(30)
    <2> HIDE DEF f
    <2>3. Is(f, 0)
      BY <2>1, <2>2
    <2> QED BY <2>3
  <1>2. ASSUME NEW k \in S PROVE k + 1 \in S
    <2> SUFFICES ASSUME k + 1 <= n PROVE \E f : Is(f, k + 1)
      BY SMTT(30)
    <2>1. k \in Nat /\ k + 1 \in 1..n /\ k <= n /\ k \in 0..k /\ (k + 1) - 1 = k
      BY SMTT(30)
    <2>2. PICK f : Is(f, k)
      BY <2>1
    <2> DEFINE g == [i \in 0..(k + 1) |-> IF i = k + 1 THEN step[k + 1][f[k]] ELSE f[i]]
    <2>3. \A i \in 0..k : g[i] = f[i]
      BY <2>1, SMTT(30)
    <2>4. g[k + 1] = step[k + 1][f[k]] /\ DOMAIN g = 0..(k + 1)
      BY <2>1, SMTT(30)
    <2> HIDE DEF g
    <2>5. ASSUME NEW i \in 0..(k + 1) PROVE g[i] = (IF i = 0 THEN a ELSE step[i][g[i - 1]]) /\ g[i] \in Ok[i]
      <3>1. CASE i = k + 1
        <4>1. f[k] \in Ok[k] /\ g[k] = f[k]
          BY <2>1, <2>2, <2>3
        <4>2. step[k + 1][f[k]] \in Ok[k + 1]
          BY <2>1, <4>1
        <4> QED BY <2>1, <2>4, <3>1, <4>1, <4>2, SMTT(30)
      <3>2. CASE i \in 0..k
        <4>1. f[i] = (IF i = 0 THEN a ELSE step[i][f[i - 1]]) /\ f[i] \in Ok[i]
          BY <2>2, <3>2
        <4>2. i # 0 => i - 1 \in 0..k
          BY <3>2, SMTT(30)
        <4> QED BY <2>3, <3>2, <4>1, <4>2
      <3> QED BY <3>1, <3>2, SMTT(30)
    <2>6. g = [i \in 0..(k + 1) |-> g[i]]
      BY DEF g
    <2>7. Is(g, k + 1)
      BY <2>5, <2>6
    <2> QED BY <2>7
  <1>3. n \in S
    <2>1. S \in SUBSET Nat
      OBVIOUS
    <2> HIDE DEF S
    <2>2. S = Nat
      BY <1>1, <1>2, <2>1 DEF Inductive
    <2> QED BY <2>2
  <1> QED BY <1>3, SMTT(30) DEF Iteration
-----------------------------------------------------------------------------
(* The coins of the reference: what one transaction changes. *)
LEMMA TxsOfBlock ==
  ASSUME NEW b \in Blocks
  PROVE  /\ Len(Txs[b]) \in Nat /\ DOMAIN Txs[b] = 1..Len(Txs[b])
         /\ b = Genesis => Len(Txs[b]) = 0
         /\ b # Genesis => nHeight[b] \in Coins
         /\ \A i \in 1..Len(Txs[b]) : Txs[b][i].in \in SUBSET OutPoints /\ Txs[b][i].out \in SUBSET OutPoints
  <1>1. CASE b = Genesis
    <2>1. Txs[b] = <<>>
      BY <1>1, BlocksAreValid
    <2>2. Len(Txs[b]) = 0 /\ DOMAIN Txs[b] = 1..0
      BY <2>1, SMTT(30)
    <2> QED BY <1>1, <2>2, SMTT(30)
  <1>2. CASE b # Genesis
    <2> DEFINE T == [coinbase : BOOLEAN, in : SUBSET OutPoints, out : SUBSET OutPoints]
    <2>1. Txs[b] \in Seq(T) /\ nHeight[b] \in Coins
      BY <1>2, BlocksAreValid
    <2>2. \A t \in T : t.in \in SUBSET OutPoints /\ t.out \in SUBSET OutPoints
      OBVIOUS
    <2> HIDE DEF T
    <2>3. Len(Txs[b]) \in Nat /\ DOMAIN Txs[b] = 1..Len(Txs[b]) /\ \A i \in 1..Len(Txs[b]) : Txs[b][i] \in T
      BY <2>1, SMTT(30)
    <2> QED BY <1>2, <2>1, <2>2, <2>3
  <1> QED BY <1>1, <1>2

LEMMA InApplied ==
  ASSUME NEW b \in Blocks, NEW i, NEW p
  PROVE  p \in Applied(b, i) <=> \E x \in Branch[b] : \E j \in 1..Len(Txs[x]) : p = <<x, j>> /\ (x = b => j <= i)
  <1>1. \A x \in Branch[b] : DOMAIN Txs[x] = 1..Len(Txs[x])
    BY TxsOfBlock, BranchClosed
  <1> QED BY <1>1, SMTT(30) DEF Applied

LEMMA AppliedTx ==
  ASSUME NEW b \in Blocks, NEW i \in 1..Len(Txs[b])
  PROVE  /\ Applied(b, i) = Applied(b, i - 1) \cup {<<b, i>>}
         /\ <<b, i>> \notin Applied(b, i - 1)
         /\ Applied(b, i) \subseteq Applied(b, Len(Txs[b]))
  <1>1. b \in Branch[b] /\ Len(Txs[b]) \in Nat
    BY BranchClosed, TxsOfBlock
  <1>2. ASSUME NEW p PROVE p \in Applied(b, i) <=> p \in Applied(b, i - 1) \/ p = <<b, i>>
    <2>1. ASSUME p \in Applied(b, i) PROVE p \in Applied(b, i - 1) \/ p = <<b, i>>
      <3>1. PICK x \in Branch[b] : \E j \in 1..Len(Txs[x]) : p = <<x, j>> /\ (x = b => j <= i)
        BY <2>1, InApplied, SMTT(30)
      <3>2. PICK j \in 1..Len(Txs[x]) : p = <<x, j>> /\ (x = b => j <= i)
        BY <3>1
      <3>3. x = b /\ j # i => j <= i - 1
        BY <3>2, SMTT(30)
      <3>4. p # <<b, i>> => (x = b => j <= i - 1)
        BY <3>2, <3>3
      <3> QED BY <3>2, <3>4, InApplied
    <2>2. ASSUME p \in Applied(b, i - 1) PROVE p \in Applied(b, i)
      <3>1. PICK x \in Branch[b] : \E j \in 1..Len(Txs[x]) : p = <<x, j>> /\ (x = b => j <= i - 1)
        BY <2>2, InApplied, SMTT(30)
      <3>2. PICK j \in 1..Len(Txs[x]) : p = <<x, j>> /\ (x = b => j <= i - 1)
        BY <3>1
      <3>3. x = b => j <= i
        BY <3>2, SMTT(30)
      <3> QED BY <3>2, <3>3, InApplied
    <2>3. i <= i
      BY SMTT(30)
    <2>4. <<b, i>> \in Applied(b, i)
      BY <1>1, <2>3, InApplied
    <2> QED BY <2>1, <2>2, <2>4
  <1>3. ASSUME <<b, i>> \in Applied(b, i - 1) PROVE FALSE
    <2>1. PICK x \in Branch[b] : \E j \in 1..Len(Txs[x]) : <<b, i>> = <<x, j>> /\ (x = b => j <= i - 1)
      BY <1>3, InApplied, SMTT(30)
    <2>2. i <= i - 1
      BY <2>1
    <2> QED BY <2>2, SMTT(30)
  <1>4. ASSUME NEW p \in Applied(b, i) PROVE p \in Applied(b, Len(Txs[b]))
    <2>1. PICK x \in Branch[b] : \E j \in 1..Len(Txs[x]) : p = <<x, j>> /\ (x = b => j <= i)
      BY <1>4, InApplied, SMTT(30)
    <2>2. PICK j \in 1..Len(Txs[x]) : p = <<x, j>>
      BY <2>1
    <2>3. x = b => j <= Len(Txs[b])
      BY <2>2, SMTT(30)
    <2> QED BY <2>2, <2>3, InApplied
  <1> QED BY <1>2, <1>3, <1>4

LEMMA AppliedBelow ==
  ASSUME NEW b \in Blocks \ {Genesis}
  PROVE  Applied(b, 0) = Applied(Parent[b], Len(Txs[Parent[b]]))
  <1>1. Parent[b] \in Blocks /\ Branch[b] = Branch[Parent[b]] \cup {b} /\ nHeight[b] = nHeight[Parent[b]] + 1 /\ nHeight[Parent[b]] \in Nat
    BY TreeOfBlocks, BranchOfChild
  <1>2. b \notin Branch[Parent[b]]
    <2>1. nHeight[b] > nHeight[Parent[b]] /\ ~(nHeight[b] <= nHeight[Parent[b]])
      BY <1>1, SMTT(30)
    <2> QED BY <1>1, <2>1, BranchLower
  <1>3. ASSUME NEW p \in Applied(b, 0) PROVE p \in Applied(Parent[b], Len(Txs[Parent[b]]))
    <2>1. PICK x \in Branch[b] : \E j \in 1..Len(Txs[x]) : p = <<x, j>> /\ (x = b => j <= 0)
      BY <1>3, InApplied, SMTT(30)
    <2>2. PICK j \in 1..Len(Txs[x]) : p = <<x, j>> /\ (x = b => j <= 0)
      BY <2>1
    <2>3. x # b /\ j <= Len(Txs[x])
      BY <2>2, SMTT(30)
    <2> QED BY <1>1, <2>2, <2>3, InApplied
  <1>4. ASSUME NEW p \in Applied(Parent[b], Len(Txs[Parent[b]])) PROVE p \in Applied(b, 0)
    <2>1. PICK x \in Branch[Parent[b]] : \E j \in 1..Len(Txs[x]) : p = <<x, j>>
      BY <1>1, <1>4, InApplied, SMTT(30)
    <2>2. x # b /\ x \in Branch[b]
      BY <1>1, <1>2
    <2> QED BY <2>1, <2>2, InApplied
  <1> QED BY <1>3, <1>4

LEMMA AppliedNone == Applied(Genesis, 0) = {}
  BY InApplied, BranchOfGenesis, TxsOfBlock, TreeOfBlocks, SMTT(30)
(* An output that is not spent yet is a coin of the height it was made at. *)
LEMMA CoinMade ==
  ASSUME NEW b \in Blocks \ {Genesis}, NEW i \in 0..Len(Txs[b]), NEW o \in OutPoints,
         NEW p \in Applied(b, i), o \in Tx(p).out, \A q \in Applied(b, i) : o \notin Tx(q).in
  PROVE  CoinsAt[b][i][o] = nHeight[p[1]] /\ nHeight[p[1]] \in Coins
  <1>1. \A q \in Applied(b, i) : q \in Applied(b, Len(Txs[b]))
    <2>1. ASSUME NEW q \in Applied(b, i) PROVE q \in Applied(b, Len(Txs[b]))
      <3>1. PICK x \in Branch[b] : \E j \in 1..Len(Txs[x]) : q = <<x, j>>
        BY <2>1, InApplied, SMTT(30)
      <3>2. PICK j \in 1..Len(Txs[x]) : q = <<x, j>>
        BY <3>1
      <3>3. x = b => j <= Len(Txs[b])
        BY <3>2, SMTT(30)
      <3> QED BY <3>2, <3>3, InApplied
    <2> QED BY <2>1
  <1>2. \A q \in Applied(b, i) : o \in Tx(q).out => q = p
    BY <1>1, BlocksAreValid
  <1>3. (CHOOSE q \in Applied(b, i) : o \in Tx(q).out) = p
    BY <1>2
  <1>4. CoinsAt[b][i][o] = nHeight[p[1]]
    BY <1>3 DEF CoinsAt
  <1>5. PICK x \in Branch[b] : \E j \in 1..Len(Txs[x]) : p = <<x, j>>
    BY InApplied, SMTT(30)
  <1>6. x \in Blocks /\ p[1] = x
    BY <1>5, BranchClosed, SMTT(30)
  <1>7. x # Genesis
    BY <1>5, <1>6, TxsOfBlock, SMTT(30)
  <1> QED BY <1>4, <1>6, <1>7, TxsOfBlock

LEMMA CoinNotThere ==
  ASSUME NEW b \in Blocks, NEW i \in 0..Len(Txs[b]), NEW o \in OutPoints,
         \/ \A p \in Applied(b, i) : o \notin Tx(p).out
         \/ \E p \in Applied(b, i) : o \in Tx(p).in
  PROVE  CoinsAt[b][i][o] = Spent
  BY DEF CoinsAt

(* The coins after a transaction: its outputs are new and its inputs were  *)
(* there.                                                                  *)
CoinsStep(b, i) ==
    /\ \A o \in Txs[b][i].out : CoinsAt[b][i - 1][o] = Spent /\ CoinsAt[b][i][o] = nHeight[b]
    /\ \A o \in Txs[b][i].in : CoinsAt[b][i - 1][o] \in Coins /\ CoinsAt[b][i][o] = Spent
    /\ \A o \in OutPoints \ (Txs[b][i].out \cup Txs[b][i].in) : CoinsAt[b][i][o] = CoinsAt[b][i - 1][o]
    /\ Txs[b][i].in \cap Txs[b][i].out = {}

LEMMA CoinsOfTx ==
  ASSUME NEW b \in Blocks, NEW i \in 1..Len(Txs[b])
  PROVE  CoinsStep(b, i)
  <1> DEFINE p == <<b, i>>
             n == Len(Txs[b])
  <1>0. /\ b \in Blocks \ {Genesis} /\ n \in Nat /\ i \in 0..n /\ i - 1 \in 0..n /\ i \in DOMAIN Txs[b]
        /\ Tx(p) = Txs[b][i] /\ p[1] = b /\ p[2] = i
        /\ Txs[b][i].in \in SUBSET OutPoints /\ Txs[b][i].out \in SUBSET OutPoints
    BY TxsOfBlock, SMTT(30) DEF Tx
  <1>1. /\ Applied(b, i) = Applied(b, i - 1) \cup {p} /\ p \notin Applied(b, i - 1)
        /\ Applied(b, i) \subseteq Applied(b, n)
    BY AppliedTx
  <1> HIDE DEF p
  <1>2. \A q, r \in Applied(b, n) : q # r => Tx(q).out \cap Tx(r).out = {} /\ Tx(q).in \cap Tx(r).in = {}
    BY <1>0, BlocksAreValid
  <1>3. ASSUME NEW o \in Tx(p).out PROVE \A q \in Applied(b, i) : o \notin Tx(q).in
    <2> SUFFICES ASSUME NEW q \in Applied(b, i), o \in Tx(q).in PROVE FALSE
      OBVIOUS
    <2>1. PICK x \in Branch[b] : \E j \in 1..Len(Txs[x]) : q = <<x, j>> /\ (x = b => j <= i)
      BY InApplied, SMTT(30)
    <2>2. PICK j \in 1..Len(Txs[x]) : q = <<x, j>> /\ (x = b => j <= i)
      BY <2>1
    <2>3. x \in Blocks \ {Genesis} /\ j \in DOMAIN Txs[x] /\ o \in Txs[x][j].in
      BY <2>2, BranchClosed, TxsOfBlock, SMTT(30) DEF Tx
    <2>4. PICK r \in Applied(x, j - 1) : o \in Tx(r).out
      BY <2>3, BlocksAreValid
    <2>5. PICK y \in Branch[x] : \E k \in 1..Len(Txs[y]) : r = <<y, k>> /\ (y = x => k <= j - 1)
      BY <2>3, <2>4, InApplied, SMTT(30)
    <2>6. PICK k \in 1..Len(Txs[y]) : r = <<y, k>> /\ (y = x => k <= j - 1)
      BY <2>5
    <2>7. y \in Branch[b]
      BY <2>5, BranchTransitive
    <2>8. y = b => k <= n
      BY <2>6, SMTT(30)
    <2>9. r \in Applied(b, n)
      BY <2>6, <2>7, <2>8, InApplied
    <2>10. r = p
      BY <1>1, <1>2, <2>4, <2>9
    <2>11. y = b /\ k = i
      BY <2>6, <2>10, SMTT(30) DEF p
    <2>12. x = b
      <3>1. nHeight[x] \in Nat /\ nHeight[b] \in Nat
        BY <2>3, TreeOfBlocks
      <3>2. nHeight[b] <= nHeight[x] /\ (x # b => nHeight[x] < nHeight[b])
        BY <2>3, <2>5, <2>11, BranchLower
      <3> QED BY <3>1, <3>2, SMTT(30)
    <2> QED BY <2>2, <2>6, <2>11, <2>12, SMTT(30)
  <1>4. ASSUME NEW o \in Txs[b][i].out
        PROVE  CoinsAt[b][i - 1][o] = Spent /\ CoinsAt[b][i][o] = nHeight[b] /\ o \notin Txs[b][i].in
    <2>1. \A q \in Applied(b, i - 1) : o \notin Tx(q).out
      BY <1>0, <1>1, <1>2
    <2>2. CoinsAt[b][i - 1][o] = Spent
      BY <1>0, <2>1, CoinNotThere
    <2>3. \A q \in Applied(b, i) : o \notin Tx(q).in
      BY <1>0, <1>3
    <2>4. CoinsAt[b][i][o] = nHeight[p[1]]
      BY <1>0, <1>1, <2>3, CoinMade, SMTT(30)
    <2> QED BY <1>0, <1>1, <2>2, <2>3, <2>4
  <1>5. ASSUME NEW o \in Txs[b][i].in
        PROVE  CoinsAt[b][i - 1][o] \in Coins /\ CoinsAt[b][i][o] = Spent
    <2>1. PICK q \in Applied(b, i - 1) : o \in Tx(q).out
      BY <1>0, BlocksAreValid, SMTT(30)
    <2>2. \A r \in Applied(b, i - 1) : o \notin Tx(r).in
      BY <1>0, <1>1, <1>2
    <2>3. CoinsAt[b][i - 1][o] \in Coins
      <3>1. o \in OutPoints /\ i - 1 \in 0..Len(Txs[b]) /\ b \in Blocks \ {Genesis}
        BY <1>0, TxsOfBlock
      <3>2. CoinsAt[b][i - 1][o] = nHeight[q[1]] /\ nHeight[q[1]] \in Coins
        BY <2>1, <2>2, <3>1, CoinMade
      <3> QED BY <3>2
    <2>4. CoinsAt[b][i][o] = Spent
      BY <1>0, <1>1, CoinNotThere, SMTT(30)
    <2> QED BY <2>3, <2>4
  <1>6. ASSUME NEW o \in OutPoints \ (Txs[b][i].out \cup Txs[b][i].in)
        PROVE  CoinsAt[b][i][o] = CoinsAt[b][i - 1][o]
    <2>1. CASE (\E q \in Applied(b, i - 1) : o \in Tx(q).out) /\ \A q \in Applied(b, i - 1) : o \notin Tx(q).in
      <3>1. PICK q \in Applied(b, i - 1) : o \in Tx(q).out
        BY <2>1
      <3>2. q \in Applied(b, i) /\ \A r \in Applied(b, i) : o \notin Tx(r).in
        BY <1>0, <1>1, <2>1
      <3>3. CoinsAt[b][i - 1][o] = nHeight[q[1]]
        BY <1>0, <2>1, <3>1, CoinMade, SMTT(30)
      <3>4. CoinsAt[b][i][o] = nHeight[q[1]]
        BY <1>0, <3>1, <3>2, CoinMade, SMTT(30)
      <3> QED BY <3>3, <3>4
    <2>2. CASE ~((\E q \in Applied(b, i - 1) : o \in Tx(q).out) /\ \A q \in Applied(b, i - 1) : o \notin Tx(q).in)
      <3>1. \/ \A q \in Applied(b, i) : o \notin Tx(q).out
            \/ \E q \in Applied(b, i) : o \in Tx(q).in
        BY <1>0, <1>1, <2>2
      <3>2. \/ \A q \in Applied(b, i - 1) : o \notin Tx(q).out
            \/ \E q \in Applied(b, i - 1) : o \in Tx(q).in
        BY <2>2
      <3> QED BY <1>0, <3>1, <3>2, CoinNotThere, SMTT(30)
    <2> QED BY <2>1, <2>2
  <1> QED BY <1>4, <1>5, <1>6 DEF CoinsStep

(* From a block to its parent, and what the coins are. *)
LEMMA CoinsBelow ==
  ASSUME NEW b \in Blocks
  PROVE  /\ b # Genesis => CoinsAt[b][0] = CoinsOf(Parent[b])
         /\ b = Genesis => CoinsAt[b][0] = NoCoins
         /\ CoinsOf(b) = CoinsAt[b][Len(Txs[b])]
  <1>0. b # NoBlock /\ Len(Txs[b]) \in Nat /\ 0 \in 0..Len(Txs[b])
    BY BlocksAreValid, TxsOfBlock, SMTT(30)
  <1>1. ASSUME b # Genesis PROVE CoinsAt[b][0] = CoinsOf(Parent[b])
    <2>1. Parent[b] \in Blocks /\ Parent[b] # NoBlock /\ Len(Txs[Parent[b]]) \in Nat
      BY <1>1, TreeOfBlocks, BlocksAreValid, TxsOfBlock, SMTT(30)
    <2>2. Len(Txs[Parent[b]]) \in 0..Len(Txs[Parent[b]])
      BY <2>1, SMTT(30)
    <2>3. Applied(b, 0) = Applied(Parent[b], Len(Txs[Parent[b]]))
      BY <1>1, AppliedBelow
    <2>4. CoinsAt[b][0] = CoinsAt[Parent[b]][Len(Txs[Parent[b]])]
      BY <1>0, <2>1, <2>2, <2>3 DEF CoinsAt
    <2> QED BY <2>1, <2>4 DEF CoinsOf
  <1>2. ASSUME b = Genesis PROVE CoinsAt[b][0] = NoCoins
    BY <1>0, <1>2, AppliedNone DEF CoinsAt, NoCoins
  <1> QED BY <1>0, <1>1, <1>2 DEF CoinsOf

LEMMA CoinsOfFirst == CoinsOf(Genesis) = NoCoins /\ CoinsOf(NoBlock) = NoCoins
  BY CoinsBelow, TxsOfBlock, TreeOfBlocks DEF CoinsOf

LEMMA CoinsTyped ==
  ASSUME NEW b \in Blocks \cup {NoBlock}
  PROVE  CoinsOf(b) \in Bases
  <1>1. CASE b \in {Genesis, NoBlock}
    BY <1>1, CoinsOfFirst DEF NoCoins, Bases, MaybeCoin
  <1>2. CASE b \notin {Genesis, NoBlock}
    <2> DEFINE n == Len(Txs[b])
    <2>1. b \in Blocks \ {Genesis} /\ n \in 0..n
      BY <1>2, TxsOfBlock, SMTT(30)
    <2>2. CoinsAt[b][n] = [o \in OutPoints |-> CoinsAt[b][n][o]]
      BY <2>1 DEF CoinsAt
    <2> HIDE DEF n
    <2>3. ASSUME NEW o \in OutPoints PROVE CoinsAt[b][n][o] \in MaybeCoin
      <3>1. CASE \E p \in Applied(b, n) : o \in Tx(p).out /\ \A q \in Applied(b, n) : o \notin Tx(q).in
        BY <2>1, <3>1, CoinMade, SMTT(30) DEF MaybeCoin, n
      <3>2. CASE ~ \E p \in Applied(b, n) : o \in Tx(p).out /\ \A q \in Applied(b, n) : o \notin Tx(q).in
        BY <2>1, <3>2, CoinNotThere DEF MaybeCoin, n
      <3> QED BY <3>1, <3>2
    <2> QED BY <1>2, <2>2, <2>3 DEF CoinsOf, Bases, n
  <1> QED BY <1>1, <1>2
-----------------------------------------------------------------------------
(* The loops over the transactions of a block. *)
Exactly(c) == [o \in OutPoints |-> {c[o]}]

LEMMA EmptyNear ==
  ASSUME NEW base \in Bases, NEW V, \A o \in OutPoints : base[o] \in V[o]
  PROVE  Near(Work(EmptyCache), base, V) /\ Work(EmptyCache).clean
  <1>1. EmptyCache \in [OutPoints -> Entry]
    BY DEF EmptyCache, NoEntry, Entry, MaybeCoin, Flags
  <1>2. ASSUME NEW o \in OutPoints PROVE Good(EmptyCache[o], base[o], V[o])
    <2>1. Good(NoEntry, base[o], {base[o]})
      BY GoodNone DEF Bases
    <2> QED BY <2>1 DEF EmptyCache, Good
  <1>3. Work(EmptyCache) \in Works
    BY <1>1, WorkOfFields DEF Work
  <1>4. Work(EmptyCache).cache = EmptyCache /\ ~Work(EmptyCache).gaveUp /\ Work(EmptyCache).clean
    BY DEF Work
  <1> QED BY <1>2, <1>3, <1>4 DEF Near

(* Connecting a block to the coins of its parent: nothing is missing,      *)
(* nothing throws and the coins are the reference's after each step.       *)
LEMMA ConnectingNear ==
  ASSUME Inductive, NEW b \in Blocks, NEW base \in Bases, base = CoinsAt[b][0]
  PROVE  \A i \in 0..Len(Txs[b]) : Near(Connecting(base, b)[i], base, Exactly(CoinsAt[b][i]))
  <1> DEFINE n == Len(Txs[b])
             a == Work(EmptyCache)
             Ok == [i \in 0..n |-> {v \in Works : Near(v, base, Exactly(CoinsAt[b][i]))}]
             step == [i \in 1..n |-> [v \in Works |-> UpdateCoins(v, base, Txs[b][i], nHeight[b])]]
             h == Connecting(base, b)
  <1>0. n \in Nat
    BY TxsOfBlock
  <1>1. a \in Ok[0]
    <2>1. Near(a, base, Exactly(CoinsAt[b][0]))
      BY EmptyNear DEF Exactly
    <2> QED BY <1>0, <2>1, SMTT(30) DEF Near
  <1>2. ASSUME NEW i \in 1..n, NEW v \in Ok[i - 1]
        PROVE  UpdateCoins(v, base, Txs[b][i], nHeight[b]) \in Ok[i] /\ v \in Works
    <2> DEFINE V == Exactly(CoinsAt[b][i - 1])
               U == Exactly(CoinsAt[b][i])
               tx == Txs[b][i]
    <2>0. i \in 0..n /\ i - 1 \in 0..n
      BY <1>0, SMTT(30)
    <2>1. v \in Works /\ Near(v, base, V)
      BY <2>0
    <2>2. /\ b # Genesis /\ nHeight[b] \in Coins /\ tx.in \in SUBSET OutPoints /\ tx.out \in SUBSET OutPoints
      BY <1>0, TxsOfBlock, SMTT(30)
    <2>3. CoinsStep(b, i)
      BY CoinsOfTx
    <2>4. /\ \A o \in OutPoints : V[o] = {CoinsAt[b][i - 1][o]} /\ U[o] = {CoinsAt[b][i][o]}
      BY DEF Exactly
    <2> HIDE DEF V, U
    <2>5. /\ tx.in \cap tx.out = {} /\ \A o \in tx.in : Spent \notin V[o]
          /\ \A o \in tx.out : V[o] \subseteq {Spent}
      <3>1. tx.in \cap tx.out = {}
        BY <2>3 DEF CoinsStep
      <3>2. ASSUME NEW o \in tx.in PROVE Spent \notin V[o]
        <4>1. o \in OutPoints /\ CoinsAt[b][i - 1][o] \in Coins
          BY <2>2, <2>3 DEF CoinsStep
        <4> QED BY <2>4, <4>1, SpentIsNoCoin
      <3>3. ASSUME NEW o \in tx.out PROVE V[o] \subseteq {Spent}
        <4>1. o \in OutPoints /\ CoinsAt[b][i - 1][o] = Spent
          BY <2>2, <2>3 DEF CoinsStep
        <4> QED BY <2>4, <4>1
      <3> QED BY <3>1, <3>2, <3>3
    <2>6. \A o \in OutPoints : IF o \in tx.out THEN nHeight[b] \in U[o]
                               ELSE IF o \in tx.in THEN Spent \in U[o] ELSE V[o] \subseteq U[o]
      BY <2>3, <2>4 DEF CoinsStep
    <2> HIDE DEF tx
    <2>7. Near(UpdateCoins(v, base, tx, nHeight[b]), base, U)
      BY <2>1, <2>2, <2>5, <2>6, UpdateCoinsNear
    <2> QED BY <2>0, <2>1, <2>7 DEF U, tx, Near
  <1>3. \A i \in 1..n : \A v \in Ok[i - 1] : step[i][v] \in Ok[i]
    BY <1>2
  <1>4. \E f : f = [i \in 0..n |-> IF i = 0 THEN a ELSE UpdateCoins(f[i - 1], base, Txs[b][i], nHeight[b])]
    <2> HIDE DEF Ok, step, n, a
    <2>1. PICK f : Iteration(f, n, a, step) /\ \A i \in 0..n : f[i] \in Ok[i]
      BY <1>0, <1>1, <1>3, Iterates
    <2>2. ASSUME NEW i \in 0..n, i # 0
          PROVE  step[i][f[i - 1]] = UpdateCoins(f[i - 1], base, Txs[b][i], nHeight[b])
      <3>1. i \in 1..n /\ i - 1 \in 0..n
        BY <1>0, <2>2, SMTT(30)
      <3>2. f[i - 1] \in Works
        BY <1>2, <2>1, <3>1
      <3> QED BY <3>1, <3>2 DEF step
    <2>3. f = [i \in 0..n |-> IF i = 0 THEN a ELSE UpdateCoins(f[i - 1], base, Txs[b][i], nHeight[b])]
      BY <2>1, <2>2 DEF Iteration
    <2> QED BY <2>3
  <1>5. h = CHOOSE f : f = [i \in 0..n |-> IF i = 0 THEN a ELSE UpdateCoins(f[i - 1], base, Txs[b][i], nHeight[b])]
    BY DEF Connecting
  <1>6. h = [i \in 0..n |-> IF i = 0 THEN a ELSE UpdateCoins(h[i - 1], base, Txs[b][i], nHeight[b])]
    <2> HIDE DEF n, a, h
    <2> QED BY <1>4, <1>5
  <1> HIDE DEF h
  <1>7. h[0] \in Ok[0] /\ \A i \in 1..n : h[i - 1] \in Ok[i - 1] => h[i] \in Ok[i]
    <2> HIDE DEF Ok, a, n
    <2>1. 0 \in 0..n /\ \A i \in 1..n : i \in 0..n /\ i # 0
      BY <1>0, SMTT(30)
    <2>2. h[0] = a /\ \A i \in 1..n : h[i] = UpdateCoins(h[i - 1], base, Txs[b][i], nHeight[b])
      BY <1>6, <2>1
    <2> QED BY <1>1, <1>2, <2>2
  <1>8. \A i \in 0..n : h[i] \in Ok[i]
    <2> HIDE DEF Ok, n
    <2> QED BY <1>0, <1>7, Upward
  <1> QED BY <1>8 DEF h
(* The coin of c or one that A allows as well. *)
Around(c, A) == [o \in OutPoints |-> {c[o]} \cup A[o]]

(* The undo data of a block is what its inputs held before it. *)
UndoOf(u, b) ==
    \A i \in DOMAIN Txs[b] : /\ DOMAIN u[b][i] = Txs[b][i].in
                             /\ \A o \in Txs[b][i].in : u[b][i][o] = CoinsAt[b][i - 1][o]

(* Disconnecting a block leads to the coins of its parent, and is clean    *)
(* when one started from the coins of the block.                           *)
LEMMA DisconnectingNear ==
  ASSUME Inductive, NEW b \in Blocks \ {Genesis}, NEW base \in Bases, NEW A, NEW w,
         Near(w, base, Around(CoinsOf(b), A)), UndoOf(undo, b)
  PROVE  LET v == Disconnecting(w, base, b)[Len(Txs[b])]
         IN  /\ Near(v, base, Around(CoinsOf(Parent[b]), A))
             /\ w.clean /\ (\A o \in OutPoints : A[o] = {}) => v.clean
  <1> DEFINE n == Len(Txs[b])
             Clean(v) == w.clean /\ (\A o \in OutPoints : A[o] = {}) => v.clean
             Ok == [k \in 0..n |-> {v \in Works : Near(v, base, Around(CoinsAt[b][n - k], A)) /\ Clean(v)}]
             step == [k \in 1..n |-> [v \in Works |-> DisconnectTx(v, base, b, n - k + 1)]]
             h == Disconnecting(w, base, b)
  <1>0. n \in Nat /\ n - 0 = n /\ n - n = 0
    BY TxsOfBlock, SMTT(30)
  <1>1. w \in Ok[0]
    <2>1. Near(w, base, Around(CoinsAt[b][n], A)) /\ w \in Works /\ Clean(w)
      BY CoinsBelow DEF Near
    <2> HIDE DEF n, Clean
    <2>2. 0 \in 0..n
      BY <1>0, SMTT(30)
    <2> QED BY <1>0, <2>1, <2>2
  <1>2. ASSUME NEW k \in 1..n, NEW v \in Ok[k - 1]
        PROVE  DisconnectTx(v, base, b, n - k + 1) \in Ok[k] /\ v \in Works
    <2> DEFINE i == n - k + 1
               V == Around(CoinsAt[b][i], A)
               U == Around(CoinsAt[b][i - 1], A)
               in == Txs[b][i].in
               out == Txs[b][i].out
               d == DisconnectTx(v, base, b, i)
    <2>0. k \in 0..n /\ k - 1 \in 0..n /\ i \in 1..n /\ n - (k - 1) = i /\ n - k = i - 1
      BY <1>0, SMTT(30)
    <2>1. v \in Works /\ Near(v, base, V) /\ Clean(v)
      BY <2>0
    <2>2. in \in SUBSET OutPoints /\ out \in SUBSET OutPoints /\ i \in DOMAIN Txs[b]
      BY <2>0, TxsOfBlock
    <2> HIDE DEF i
    <2>3. CoinsStep(b, i)
      BY <2>0, CoinsOfTx
    <2>4. \A o \in OutPoints : V[o] = {CoinsAt[b][i][o]} \cup A[o] /\ U[o] = {CoinsAt[b][i - 1][o]} \cup A[o]
      BY DEF Around
    <2> HIDE DEF V, U
    <2>5. in \cap out = {} /\ DOMAIN undo[b][i] = in /\ \A o \in in : undo[b][i][o] \in Coins
      BY <2>2, <2>3 DEF CoinsStep, UndoOf
    <2>6. \A o \in OutPoints : IF o \in in THEN undo[b][i][o] \in U[o]
                               ELSE IF o \in out THEN Spent \in U[o] ELSE V[o] \subseteq U[o]
      <3> SUFFICES ASSUME NEW o \in OutPoints
                   PROVE  IF o \in in THEN undo[b][i][o] \in U[o]
                          ELSE IF o \in out THEN Spent \in U[o] ELSE V[o] \subseteq U[o]
        OBVIOUS
      <3>1. CASE o \in in
        <4>1. undo[b][i][o] = CoinsAt[b][i - 1][o]
          BY <2>2, <3>1 DEF UndoOf
        <4> QED BY <2>4, <3>1, <4>1
      <3>2. CASE o \notin in /\ o \in out
        <4>1. CoinsAt[b][i - 1][o] = Spent
          BY <2>3, <3>2 DEF CoinsStep
        <4> QED BY <2>4, <3>2, <4>1
      <3>3. CASE o \notin in /\ o \notin out
        <4>1. CoinsAt[b][i][o] = CoinsAt[b][i - 1][o]
          BY <2>3, <3>3 DEF CoinsStep
        <4> QED BY <2>4, <3>3, <4>1
      <3> QED BY <3>1, <3>2, <3>3
    <2>7. /\ Near(d, base, U)
          /\ v.clean /\ (\A o \in out : V[o] \subseteq {nHeight[b]}) /\ (\A o \in in : V[o] \subseteq {Spent}) => d.clean
      BY <2>1, <2>2, <2>5, <2>6, DisconnectTxNear
    <2> HIDE DEF d
    <2>8. Clean(d)
      <3> SUFFICES ASSUME w.clean, \A o \in OutPoints : A[o] = {} PROVE d.clean
        OBVIOUS
      <3>1. /\ \A o \in out : V[o] \subseteq {nHeight[b]}
            /\ \A o \in in : V[o] \subseteq {Spent}
        <4>1. \A o \in OutPoints : V[o] = {CoinsAt[b][i][o]}
          BY <2>4
        <4>2. /\ \A o \in out : CoinsAt[b][i][o] = nHeight[b]
              /\ \A o \in in : CoinsAt[b][i][o] = Spent
          BY <2>3 DEF CoinsStep
        <4>3. in \subseteq OutPoints /\ out \subseteq OutPoints
          BY <2>2
        <4> HIDE DEF in, out, Ok
        <4>4. \A o \in out : V[o] \subseteq {nHeight[b]}
          BY <4>1, <4>2, <4>3
        <4>5. \A o \in in : V[o] \subseteq {Spent}
          BY <4>1, <4>2, <4>3
        <4> QED BY <4>4, <4>5
      <3> QED BY <2>1, <2>7, <3>1
    <2>9. d \in Works /\ U = Around(CoinsAt[b][n - k], A)
      BY <2>0, <2>7 DEF Near, U
    <2>10. d \in Ok[k]
      BY <2>0, <2>7, <2>8, <2>9
    <2> QED BY <2>1, <2>10 DEF d, i
  <1>3. \A k \in 1..n : \A v \in Ok[k - 1] : step[k][v] \in Ok[k]
    BY <1>2
  <1>4. \E f : f = [k \in 0..n |-> IF k = 0 THEN w ELSE DisconnectTx(f[k - 1], base, b, n - k + 1)]
    <2> HIDE DEF Ok, step, n
    <2>1. PICK f : Iteration(f, n, w, step) /\ \A k \in 0..n : f[k] \in Ok[k]
      BY <1>0, <1>1, <1>3, Iterates
    <2>2. ASSUME NEW k \in 0..n, k # 0
          PROVE  step[k][f[k - 1]] = DisconnectTx(f[k - 1], base, b, n - k + 1)
      <3>1. k \in 1..n /\ k - 1 \in 0..n
        BY <1>0, <2>2, SMTT(30)
      <3>2. f[k - 1] \in Works
        BY <1>2, <2>1, <3>1
      <3> QED BY <3>1, <3>2 DEF step
    <2>3. f = [k \in 0..n |-> IF k = 0 THEN w ELSE DisconnectTx(f[k - 1], base, b, n - k + 1)]
      BY <2>1, <2>2 DEF Iteration
    <2> QED BY <2>3
  <1>5. h = CHOOSE f : f = [k \in 0..n |-> IF k = 0 THEN w ELSE DisconnectTx(f[k - 1], base, b, n - k + 1)]
    BY DEF Disconnecting
  <1>6. h = [k \in 0..n |-> IF k = 0 THEN w ELSE DisconnectTx(h[k - 1], base, b, n - k + 1)]
    <2> HIDE DEF n, h
    <2> QED BY <1>4, <1>5
  <1> HIDE DEF h
  <1>7. h[0] \in Ok[0] /\ \A k \in 1..n : h[k - 1] \in Ok[k - 1] => h[k] \in Ok[k]
    <2> HIDE DEF Ok, n
    <2>1. 0 \in 0..n /\ \A k \in 1..n : k \in 0..n /\ k # 0
      BY <1>0, SMTT(30)
    <2>2. h[0] = w /\ \A k \in 1..n : h[k] = DisconnectTx(h[k - 1], base, b, n - k + 1)
      BY <1>6, <2>1
    <2> QED BY <1>1, <1>2, <2>2
  <1>8. \A k \in 0..n : h[k] \in Ok[k]
    <2> HIDE DEF Ok, n
    <2> QED BY <1>0, <1>7, Upward
  <1>9. Near(h[n], base, Around(CoinsAt[b][0], A)) /\ Clean(h[n])
    <2>1. n \in 0..n
      BY <1>0, SMTT(30)
    <2>2. h[n] \in Ok[n]
      BY <1>8, <2>1
    <2>3. Ok[n] = {v \in Works : Near(v, base, Around(CoinsAt[b][n - n], A)) /\ Clean(v)}
      BY <2>1
    <2> HIDE DEF Ok
    <2> QED BY <1>0, <2>2, <2>3
  <1> QED BY <1>9, CoinsBelow DEF h

(* Rolling a block forward leads to its coins. *)
LEMMA RollingForwardNear ==
  ASSUME Inductive, NEW b \in Blocks \ {Genesis}, NEW base \in Bases, NEW A, NEW w,
         Near(w, base, Around(CoinsOf(Parent[b]), A))
  PROVE  Near(RollingForward(w, base, b)[Len(Txs[b])], base, Around(CoinsOf(b), A))
  <1> DEFINE n == Len(Txs[b])
             Ok == [i \in 0..n |-> {v \in Works : Near(v, base, Around(CoinsAt[b][i], A))}]
             step == [i \in 1..n |-> [v \in Works |-> RollforwardTx(v, base, Txs[b][i], nHeight[b])]]
             h == RollingForward(w, base, b)
  <1>0. n \in Nat
    BY TxsOfBlock
  <1>1. w \in Ok[0]
    <2>1. Near(w, base, Around(CoinsAt[b][0], A))
      BY CoinsBelow
    <2> QED BY <1>0, <2>1, SMTT(30) DEF Near
  <1>2. ASSUME NEW i \in 1..n, NEW v \in Ok[i - 1]
        PROVE  RollforwardTx(v, base, Txs[b][i], nHeight[b]) \in Ok[i] /\ v \in Works
    <2> DEFINE V == Around(CoinsAt[b][i - 1], A)
               U == Around(CoinsAt[b][i], A)
               tx == Txs[b][i]
    <2>0. i \in 0..n /\ i - 1 \in 0..n
      BY <1>0, SMTT(30)
    <2>1. v \in Works /\ Near(v, base, V)
      BY <2>0
    <2>2. nHeight[b] \in Coins /\ tx.in \in SUBSET OutPoints /\ tx.out \in SUBSET OutPoints
      BY <1>0, TxsOfBlock
    <2>3. CoinsStep(b, i)
      BY CoinsOfTx
    <2>4. \A o \in OutPoints : V[o] = {CoinsAt[b][i - 1][o]} \cup A[o] /\ U[o] = {CoinsAt[b][i][o]} \cup A[o]
      BY DEF Around
    <2> HIDE DEF V, U
    <2>5. \A o \in OutPoints : IF o \in tx.out THEN nHeight[b] \in U[o]
                               ELSE IF o \in tx.in THEN Spent \in U[o] ELSE V[o] \subseteq U[o]
      BY <2>3, <2>4 DEF CoinsStep
    <2> HIDE DEF tx
    <2>6. Near(RollforwardTx(v, base, tx, nHeight[b]), base, U)
      BY <2>1, <2>2, <2>5, RollforwardTxNear
    <2> QED BY <2>0, <2>1, <2>6 DEF U, tx, Near
  <1>3. \A i \in 1..n : \A v \in Ok[i - 1] : step[i][v] \in Ok[i]
    BY <1>2
  <1>4. \E f : f = [i \in 0..n |-> IF i = 0 THEN w ELSE RollforwardTx(f[i - 1], base, Txs[b][i], nHeight[b])]
    <2> HIDE DEF Ok, step, n
    <2>1. PICK f : Iteration(f, n, w, step) /\ \A i \in 0..n : f[i] \in Ok[i]
      BY <1>0, <1>1, <1>3, Iterates
    <2>2. ASSUME NEW i \in 0..n, i # 0
          PROVE  step[i][f[i - 1]] = RollforwardTx(f[i - 1], base, Txs[b][i], nHeight[b])
      <3>1. i \in 1..n /\ i - 1 \in 0..n
        BY <1>0, <2>2, SMTT(30)
      <3>2. f[i - 1] \in Works
        BY <1>2, <2>1, <3>1
      <3> QED BY <3>1, <3>2 DEF step
    <2>3. f = [i \in 0..n |-> IF i = 0 THEN w ELSE RollforwardTx(f[i - 1], base, Txs[b][i], nHeight[b])]
      BY <2>1, <2>2 DEF Iteration
    <2> QED BY <2>3
  <1>5. h = CHOOSE f : f = [i \in 0..n |-> IF i = 0 THEN w ELSE RollforwardTx(f[i - 1], base, Txs[b][i], nHeight[b])]
    BY DEF RollingForward
  <1>6. h = [i \in 0..n |-> IF i = 0 THEN w ELSE RollforwardTx(h[i - 1], base, Txs[b][i], nHeight[b])]
    <2> HIDE DEF n, h
    <2> QED BY <1>4, <1>5
  <1> HIDE DEF h
  <1>7. h[0] \in Ok[0] /\ \A i \in 1..n : h[i - 1] \in Ok[i - 1] => h[i] \in Ok[i]
    <2> HIDE DEF Ok, n
    <2>1. 0 \in 0..n /\ \A i \in 1..n : i \in 0..n /\ i # 0
      BY <1>0, SMTT(30)
    <2>2. h[0] = w /\ \A i \in 1..n : h[i] = RollforwardTx(h[i - 1], base, Txs[b][i], nHeight[b])
      BY <1>6, <2>1
    <2> QED BY <1>1, <1>2, <2>2
  <1>8. \A i \in 0..n : h[i] \in Ok[i]
    <2> HIDE DEF Ok, n
    <2> QED BY <1>0, <1>7, Upward
  <1>9. Near(h[n], base, Around(CoinsAt[b][n], A))
    <2>1. n \in 0..n
      BY <1>0, SMTT(30)
    <2>2. h[n] \in Ok[n]
      BY <1>8, <2>1
    <2> QED BY <2>1, <2>2
  <1> QED BY <1>9, CoinsBelow DEF h
-----------------------------------------------------------------------------
(* The loops of ReplayBlocks over the blocks of a branch. *)
AncestorIs(b, f, h) ==
    /\ GetAncestor(b, h) \in Branch[b] /\ nHeight[GetAncestor(b, h)] = h
    /\ \A x \in Branch[b] : nHeight[x] = h => x = GetAncestor(b, h)
    /\ h > nHeight[f] => /\ GetAncestor(b, h) # Genesis
                         /\ Parent[GetAncestor(b, h)] = GetAncestor(b, h - 1)

LEMMA Ancestors ==
  ASSUME FiniteTree, NEW b \in Blocks, NEW f \in Branch[b], NEW h \in nHeight[f]..nHeight[b]
  PROVE  AncestorIs(b, f, h)
  <1>0. f \in Blocks /\ Branch[b] \subseteq Blocks /\ AncestorClosed(Branch[b]) /\ b \in Branch[b]
    BY BranchClosed
  <1>1. /\ \A x \in Branch[b] : nHeight[x] \in Nat
        /\ nHeight[Genesis] <= nHeight[f]
        /\ \A x \in Branch[b] \ {Genesis} : Parent[x] \in Branch[b] /\ nHeight[x] = nHeight[Parent[x]] + 1
    <2>1. nHeight[Genesis] <= nHeight[f]
      BY <1>0, GenesisInBranch, BranchLower
    <2> QED BY <1>0, <2>1, TreeOfBlocks DEF AncestorClosed
  <1>2. \E x \in Branch[b] : nHeight[x] = h
    <2> DEFINE S == {x \in Branch[b] : nHeight[x] >= h}
               l == Lowest(S)
    <2>1. S \in SUBSET Blocks /\ b \in S
      BY <1>0, <1>1, SMTT(30)
    <2>2. l \in S /\ \A c \in S : nHeight[l] <= nHeight[c]
      <3> HIDE DEF S
      <3> QED BY <2>1, LowestIs
    <2> HIDE DEF l
    <2>3. l \in Branch[b] /\ nHeight[l] \in Nat /\ nHeight[l] >= h /\ h \in Int /\ nHeight[f] \in Nat
      BY <1>1, <2>2, SMTT(30)
    <2>4. CASE l = Genesis
      BY <1>1, <2>3, <2>4, SMTT(30)
    <2>5. CASE l # Genesis
      <3>1. Parent[l] \in Branch[b] /\ nHeight[l] = nHeight[Parent[l]] + 1 /\ nHeight[Parent[l]] \in Nat
        BY <1>1, <2>3, <2>5
      <3>2. ~(nHeight[Parent[l]] >= h)
        BY <2>2, <3>1, SMTT(30)
      <3> QED BY <2>3, <3>1, <3>2, SMTT(30)
    <2> QED BY <2>4, <2>5
  <1>3. GetAncestor(b, h) \in Branch[b] /\ nHeight[GetAncestor(b, h)] = h
    BY <1>2 DEF GetAncestor
  <1>4. \A x \in Branch[b] : nHeight[x] = h => x = GetAncestor(b, h)
    BY <1>3, BranchHeights
  <1>5. ASSUME h > nHeight[f]
        PROVE  GetAncestor(b, h) # Genesis /\ Parent[GetAncestor(b, h)] = GetAncestor(b, h - 1)
    <2> DEFINE g == GetAncestor(b, h)
               p == Parent[g]
    <2>1. g # Genesis
      <3>1. h \in Int /\ nHeight[f] \in Nat
        BY <1>1, SMTT(30)
      <3>2. nHeight[Genesis] # h
        BY <1>0, <1>1, <1>5, <3>1, TreeOfBlocks, SMTT(30)
      <3> QED BY <1>3, <3>2
    <2> HIDE DEF g
    <2>2. p \in Branch[b] /\ nHeight[g] = nHeight[p] + 1 /\ nHeight[p] \in Nat
      BY <1>1, <1>3, <2>1 DEF g
    <2> HIDE DEF p
    <2>3. nHeight[p] = h - 1
      BY <1>3, <2>2, SMTT(30) DEF g
    <2>4. GetAncestor(b, h - 1) \in Branch[b] /\ nHeight[GetAncestor(b, h - 1)] = h - 1
      BY <2>2, <2>3 DEF GetAncestor
    <2>5. p = GetAncestor(b, h - 1)
      BY <2>2, <2>3, <2>4, BranchHeights
    <2> QED BY <2>1, <2>5 DEF g, p
  <1> QED BY <1>3, <1>4, <1>5 DEF AncestorIs

LEMMA RollingBackNear ==
  ASSUME Inductive, FiniteTree, NEW old \in Blocks, NEW fork \in Branch[old], db \in Bases, NEW A, NEW w,
         Near(w, db, Around(CoinsOf(old), A)),
         \A x \in Branch[old] \ {Genesis} : index[x] = "undo" /\ UndoOf(undo, x)
  PROVE  Near(RollingBack(w, old, fork)[nHeight[old] - nHeight[fork]], db, Around(CoinsOf(fork), A))
  <1> DEFINE top == nHeight[old]
             n == top - nHeight[fork]
             At(k) == GetAncestor(old, top - k)
             Ok == [k \in 0..n |-> {v \in Works : Near(v, db, Around(CoinsOf(At(k)), A))}]
             step == [k \in 1..n |-> [v \in Works |-> DisconnectBlock(v, db, GetAncestor(old, top - k + 1))]]
             h == RollingBack(w, old, fork)
  <1>0. /\ fork \in Blocks /\ Branch[old] \subseteq Blocks /\ old \in Branch[old]
        /\ n \in Nat /\ top \in Nat /\ nHeight[fork] \in Nat
    <2>1. fork \in Blocks /\ Branch[old] \subseteq Blocks /\ old \in Branch[old]
      BY BranchClosed
    <2>2. top \in Nat /\ nHeight[fork] \in Nat /\ nHeight[fork] <= top
      BY <2>1, TreeOfBlocks, BranchLower
    <2> QED BY <2>1, <2>2, SMTT(30)
  <1>1. At(0) = old /\ At(n) = fork
    <2>1. top - 0 = top /\ top \in nHeight[fork]..top
      BY <1>0, SMTT(30)
    <2>2. top - n = nHeight[fork] /\ nHeight[fork] \in nHeight[fork]..top
      BY <1>0, SMTT(30)
    <2>3. old = GetAncestor(old, top)
      <3> HIDE DEF n, At, Ok, step, h
      <3>1. AncestorIs(old, fork, top)
        BY <2>1, Ancestors
      <3> QED BY <1>0, <3>1 DEF AncestorIs
    <2>4. fork = GetAncestor(old, nHeight[fork])
      <3> HIDE DEF n, At, Ok, step, h
      <3>1. AncestorIs(old, fork, nHeight[fork])
        BY <2>2, Ancestors
      <3> QED BY <1>0, <3>1 DEF AncestorIs
    <2> HIDE DEF n, top
    <2> QED BY <2>1, <2>2, <2>3, <2>4
  <1>2. w \in Ok[0]
    <2>1. w \in Works
      BY DEF Near
    <2>2. 0 \in 0..n
      <3> HIDE DEF n
      <3> QED BY <1>0, SMTT(30)
    <2>3. Near(w, db, Around(CoinsOf(At(0)), A))
      <3> HIDE DEF At
      <3> QED BY <1>1
    <2> HIDE DEF n, At
    <2> QED BY <2>1, <2>2, <2>3
  <1>3. ASSUME NEW k \in 1..n, NEW v \in Ok[k - 1]
        PROVE  DisconnectBlock(v, db, GetAncestor(old, top - k + 1)) \in Ok[k] /\ v \in Works
    <2> DEFINE i == top - k + 1
               x == GetAncestor(old, i)
    <2>0. /\ k \in 0..n /\ k - 1 \in 0..n /\ top - (k - 1) = i /\ top - k = i - 1
          /\ i \in nHeight[fork]..top /\ i > nHeight[fork]
      <3> HIDE DEF At, Ok, step, h
      <3> QED BY <1>0, SMTT(30)
    <2>1. v \in Works /\ Near(v, db, Around(CoinsOf(x), A))
      BY <2>0
    <2> HIDE DEF i, top
    <2>2. x \in Branch[old] /\ x # Genesis /\ Parent[x] = GetAncestor(old, i - 1)
      <3>1. AncestorIs(old, fork, i)
        BY <2>0, Ancestors DEF top
      <3> QED BY <2>0, <3>1 DEF AncestorIs
    <2> HIDE DEF x
    <2>3. x \in Blocks \ {Genesis} /\ index[x] = "undo" /\ UndoOf(undo, x)
      BY <1>0, <2>2
    <2>4. DisconnectBlock(v, db, x) = Disconnecting(v, db, x)[Len(Txs[x])]
      BY <2>3 DEF DisconnectBlock
    <2>5. Near(DisconnectBlock(v, db, x), db, Around(CoinsOf(Parent[x]), A))
      BY <2>1, <2>3, <2>4, DisconnectingNear
    <2>6. Parent[x] = At(k)
      BY <2>0, <2>2
    <2>7. DisconnectBlock(v, db, x) \in Ok[k]
      BY <2>0, <2>5, <2>6 DEF Near
    <2> QED BY <2>1, <2>7 DEF x, i
  <1>4. \A k \in 1..n : \A v \in Ok[k - 1] : step[k][v] \in Ok[k]
    BY <1>3
  <1>5. \E f : f = [k \in 0..n |-> IF k = 0 THEN w ELSE DisconnectBlock(f[k - 1], db, GetAncestor(old, top - k + 1))]
    <2> HIDE DEF Ok, step, n, top, At, h
    <2>1. PICK f : Iteration(f, n, w, step) /\ \A k \in 0..n : f[k] \in Ok[k]
      BY <1>0, <1>2, <1>4, Iterates
    <2>2. ASSUME NEW k \in 0..n, k # 0
          PROVE  step[k][f[k - 1]] = DisconnectBlock(f[k - 1], db, GetAncestor(old, top - k + 1))
      <3>1. k \in 1..n /\ k - 1 \in 0..n
        BY <1>0, <2>2, SMTT(30)
      <3>2. f[k - 1] \in Works
        BY <1>3, <2>1, <3>1
      <3> QED BY <3>1, <3>2 DEF step
    <2>3. f = [k \in 0..n |-> IF k = 0 THEN w ELSE DisconnectBlock(f[k - 1], db, GetAncestor(old, top - k + 1))]
      BY <2>1, <2>2 DEF Iteration
    <2> QED BY <2>3
  <1>6. h = CHOOSE f : f = [k \in 0..n |-> IF k = 0 THEN w ELSE DisconnectBlock(f[k - 1], db, GetAncestor(old, top - k + 1))]
    BY DEF RollingBack
  <1>7. h = [k \in 0..n |-> IF k = 0 THEN w ELSE DisconnectBlock(h[k - 1], db, GetAncestor(old, top - k + 1))]
    <2> HIDE DEF n, h, top
    <2> QED BY <1>5, <1>6
  <1> HIDE DEF h
  <1>8. h[0] \in Ok[0] /\ \A k \in 1..n : h[k - 1] \in Ok[k - 1] => h[k] \in Ok[k]
    <2> HIDE DEF Ok, n, top
    <2>1. 0 \in 0..n /\ \A k \in 1..n : k \in 0..n /\ k # 0
      BY <1>0, SMTT(30)
    <2>2. h[0] = w /\ \A k \in 1..n : h[k] = DisconnectBlock(h[k - 1], db, GetAncestor(old, top - k + 1))
      BY <1>7, <2>1
    <2> QED BY <1>2, <1>3, <2>2
  <1>9. h[n] \in Ok[n] /\ n \in 0..n
    <2> HIDE DEF Ok, n
    <2> QED BY <1>0, <1>8, Upward, SMTT(30)
  <1>10. Near(h[n], db, Around(CoinsOf(fork), A))
    <2>1. Ok[n] = {v \in Works : Near(v, db, Around(CoinsOf(At(n)), A))}
      BY <1>9
    <2> HIDE DEF Ok, At, n
    <2> QED BY <1>1, <1>9, <2>1
  <1> QED BY <1>10 DEF h

LEMMA ReplayingNear ==
  ASSUME Inductive, FiniteTree, NEW new \in Blocks, NEW fork \in Branch[new], db \in Bases, NEW A, NEW w,
         Near(w, db, Around(CoinsOf(fork), A)),
         \A x \in Branch[new] \ {Genesis} : index[x] # "none"
  PROVE  Near(Replaying(w, new, fork)[nHeight[new] - nHeight[fork]], db, Around(CoinsOf(new), A))
  <1> DEFINE low == nHeight[fork]
             n == nHeight[new] - low
             At(k) == GetAncestor(new, low + k)
             Ok == [k \in 0..n |-> {v \in Works : Near(v, db, Around(CoinsOf(At(k)), A))}]
             step == [k \in 1..n |-> [v \in Works |-> RollforwardBlock(v, db, At(k))]]
             h == Replaying(w, new, fork)
  <1>0. /\ fork \in Blocks /\ Branch[new] \subseteq Blocks /\ new \in Branch[new]
        /\ n \in Nat /\ low \in Nat /\ nHeight[new] \in Nat
    <2>1. fork \in Blocks /\ Branch[new] \subseteq Blocks /\ new \in Branch[new]
      BY BranchClosed
    <2>2. low \in Nat /\ nHeight[new] \in Nat /\ low <= nHeight[new]
      BY <2>1, TreeOfBlocks, BranchLower
    <2> QED BY <2>1, <2>2, SMTT(30)
  <1>1. At(0) = fork /\ At(n) = new
    <2>1. low + 0 = low /\ low \in low..nHeight[new]
      BY <1>0, SMTT(30)
    <2>2. low + n = nHeight[new] /\ nHeight[new] \in low..nHeight[new]
      BY <1>0, SMTT(30)
    <2>3. fork = GetAncestor(new, low)
      <3> HIDE DEF n, At, Ok, step, h
      <3>1. AncestorIs(new, fork, low)
        BY <2>1, Ancestors
      <3> QED BY <1>0, <3>1 DEF AncestorIs
    <2>4. new = GetAncestor(new, nHeight[new])
      <3> HIDE DEF n, At, Ok, step, h
      <3>1. AncestorIs(new, fork, nHeight[new])
        BY <2>2, Ancestors
      <3> QED BY <1>0, <3>1 DEF AncestorIs
    <2> HIDE DEF n, low
    <2> QED BY <2>1, <2>2, <2>3, <2>4
  <1>2. w \in Ok[0]
    <2>1. w \in Works
      BY DEF Near
    <2>2. 0 \in 0..n
      <3> HIDE DEF n
      <3> QED BY <1>0, SMTT(30)
    <2>3. Near(w, db, Around(CoinsOf(At(0)), A))
      <3> HIDE DEF At
      <3> QED BY <1>1
    <2> HIDE DEF n, At
    <2> QED BY <2>1, <2>2, <2>3
  <1>3. ASSUME NEW k \in 1..n, NEW v \in Ok[k - 1]
        PROVE  RollforwardBlock(v, db, At(k)) \in Ok[k] /\ v \in Works
    <2> DEFINE i == low + k
               x == GetAncestor(new, i)
    <2>0. k \in 0..n /\ k - 1 \in 0..n /\ low + (k - 1) = i - 1 /\ i \in low..nHeight[new] /\ i > low
      <3> HIDE DEF At, Ok, step, h
      <3> QED BY <1>0, SMTT(30)
    <2>1. v \in Works /\ Near(v, db, Around(CoinsOf(GetAncestor(new, i - 1)), A))
      BY <2>0
    <2> HIDE DEF i
    <2>2. x \in Branch[new] /\ x # Genesis /\ Parent[x] = GetAncestor(new, i - 1)
      <3>1. AncestorIs(new, fork, i)
        BY <2>0, Ancestors
      <3> QED BY <2>0, <3>1 DEF AncestorIs
    <2> HIDE DEF x
    <2>3. x \in Blocks \ {Genesis} /\ index[x] # "none"
      BY <1>0, <2>2
    <2>4. RollforwardBlock(v, db, x) = RollingForward(v, db, x)[Len(Txs[x])]
      BY <2>3 DEF RollforwardBlock
    <2>5. Near(RollforwardBlock(v, db, x), db, Around(CoinsOf(x), A))
      BY <2>1, <2>2, <2>3, <2>4, RollingForwardNear
    <2>6. x = At(k)
      BY DEF x, i
    <2> QED BY <2>0, <2>1, <2>5, <2>6 DEF Near
  <1>4. \A k \in 1..n : \A v \in Ok[k - 1] : step[k][v] \in Ok[k]
    BY <1>3
  <1>5. \E f : f = [k \in 0..n |-> IF k = 0 THEN w ELSE RollforwardBlock(f[k - 1], db, At(k))]
    <2> HIDE DEF Ok, step, n, At
    <2>1. PICK f : Iteration(f, n, w, step) /\ \A k \in 0..n : f[k] \in Ok[k]
      BY <1>0, <1>2, <1>4, Iterates
    <2>2. ASSUME NEW k \in 0..n, k # 0
          PROVE  step[k][f[k - 1]] = RollforwardBlock(f[k - 1], db, At(k))
      <3>1. k \in 1..n /\ k - 1 \in 0..n
        BY <1>0, <2>2, SMTT(30)
      <3>2. f[k - 1] \in Works
        BY <1>3, <2>1, <3>1
      <3> QED BY <3>1, <3>2 DEF step
    <2>3. f = [k \in 0..n |-> IF k = 0 THEN w ELSE RollforwardBlock(f[k - 1], db, At(k))]
      BY <2>1, <2>2 DEF Iteration
    <2> QED BY <2>3
  <1>6. h = CHOOSE f : f = [k \in 0..n |-> IF k = 0 THEN w ELSE RollforwardBlock(f[k - 1], db, At(k))]
    BY DEF Replaying
  <1>7. h = [k \in 0..n |-> IF k = 0 THEN w ELSE RollforwardBlock(h[k - 1], db, At(k))]
    <2> HIDE DEF n, h, At
    <2> QED BY <1>5, <1>6
  <1> HIDE DEF h
  <1>8. h[0] \in Ok[0] /\ \A k \in 1..n : h[k - 1] \in Ok[k - 1] => h[k] \in Ok[k]
    <2> HIDE DEF Ok, n, At
    <2>1. 0 \in 0..n /\ \A k \in 1..n : k \in 0..n /\ k # 0
      BY <1>0, SMTT(30)
    <2>2. h[0] = w /\ \A k \in 1..n : h[k] = RollforwardBlock(h[k - 1], db, At(k))
      BY <1>7, <2>1
    <2> QED BY <1>2, <1>3, <2>2
  <1>9. h[n] \in Ok[n] /\ n \in 0..n
    <2> HIDE DEF Ok, n
    <2> QED BY <1>0, <1>8, Upward, SMTT(30)
  <1>10. Near(h[n], db, Around(CoinsOf(new), A))
    <2>1. Ok[n] = {v \in Works : Near(v, db, Around(CoinsOf(At(n)), A))}
      BY <1>9
    <2> HIDE DEF Ok, At, n
    <2> QED BY <1>1, <1>9, <2>1
  <1> QED BY <1>10 DEF h
(* The cache that ReplayBlocks builds over a half-written database. *)
LEMMA ReplayBlocksNear ==
  ASSUME Inductive, FiniteTree, NEW new \in Blocks, NEW old \in Blocks \cup {NoBlock}, db \in Bases,
         \A o \in OutPoints : db[o] \in {CoinsOf(new)[o], CoinsOf(old)[o]},
         \A x \in Branch[new] \ {Genesis} : index[x] # "none",
         old # NoBlock => \A x \in Branch[old] \ {Genesis} : index[x] = "undo" /\ UndoOf(undo, x)
  PROVE  Near(ReplayBlocks(new, old), db, Exactly(CoinsOf(new)))
  <1> DEFINE A == Exactly(CoinsOf(new))
             fork == IF old = NoBlock THEN Genesis ELSE LastCommonAncestor(old, new)
             back == IF old = NoBlock THEN Work(EmptyCache)
                     ELSE RollingBack(Work(EmptyCache), old, fork)[nHeight[old] - nHeight[fork]]
  <1>1. Near(Work(EmptyCache), db, Around(CoinsOf(old), A))
    <2>1. \A o \in OutPoints : db[o] \in Around(CoinsOf(old), A)[o]
      BY DEF Around, Exactly
    <2> QED BY <2>1, EmptyNear
  <1> HIDE DEF A
  <1>2. fork \in Branch[new] /\ Near(back, db, Around(CoinsOf(fork), A))
    <2>1. CASE old = NoBlock
      <3>1. CoinsOf(fork) = CoinsOf(old) /\ fork = Genesis
        BY <2>1, CoinsOfFirst
      <3> QED BY <1>1, <2>1, <3>1, GenesisInBranch
    <2>2. CASE old # NoBlock
      <3>1. old \in Blocks /\ fork \in Branch[old] /\ fork \in Branch[new]
        BY <2>2, LastCommonAncestorIs
      <3> HIDE DEF fork
      <3> QED BY <1>1, <2>2, <3>1, RollingBackNear
    <2> QED BY <2>1, <2>2
  <1>3. ReplayBlocks(new, old) = Replaying(back, new, fork)[nHeight[new] - nHeight[fork]]
    BY DEF ReplayBlocks
  <1> HIDE DEF fork, back
  <1>4. Near(ReplayBlocks(new, old), db, Around(CoinsOf(new), A))
    <2>1. \A x \in Branch[new] \ {Genesis} : index[x] # "none"
      OBVIOUS
    <2>2. Near(Replaying(back, new, fork)[nHeight[new] - nHeight[fork]], db, Around(CoinsOf(new), A))
      BY <1>2, <2>1, ReplayingNear
    <2> QED BY <1>3, <2>2
  <1>5. \A o \in OutPoints : Around(CoinsOf(new), A)[o] = Exactly(CoinsOf(new))[o]
    BY DEF A, Around, Exactly
  <1> QED BY <1>4, <1>5 DEF Near

-----------------------------------------------------------------------------
(* The inductive invariant. *)
Up == pc \in {"replay", "rewind", "idle", "flush", "coins"}

(* Each block of the chain that ends in h has its undo data. *)
Undone(ind, h) == h # NoBlock => \A b \in Branch[h] \ {Genesis} : ind[b] = "undo"

(* Undo data that an index refers to is right. *)
UndoInv(ind, dind, u) ==
    /\ DOMAIN u = Blocks
    /\ \A b \in Blocks \ {Genesis} : ind[b] = "undo" \/ dind[b] = "undo" => UndoOf(u, b)

(* The database holds the coins of its best block, or at each outpoint the *)
(* coin of one of its heads.                                               *)
DiskInv(dind, d, best, heads) ==
    /\ d \in Bases
    /\ heads # <<>> => heads[1] \in Blocks /\ heads[2] \in Blocks \cup {NoBlock} /\ best = NoBlock
    /\ heads = <<>> => d = CoinsOf(best) /\ Undone(dind, best)
    /\ heads # <<>> => /\ Undone(dind, heads[1]) /\ Undone(dind, heads[2])
                       /\ \A o \in OutPoints : d[o] \in {CoinsOf(heads[1])[o], CoinsOf(heads[2])[o]}

(* pcoinsTip reads the coins of its best block. *)
TipInv(ind, t, tb, d) ==
    /\ \A o \in OutPoints : Good(t[o], d[o], {CoinsOf(tb)[o]})
    /\ Undone(ind, tb)

IndexCovers == pc # "down" => index[Genesis] # "none" /\ \A b \in Blocks \ {Genesis} : diskIndex[b] = "undo" => index[b] = "undo"

Control ==
    /\ pc \in {"idle", "flush", "rewind", "load"} => dbHeads = <<>>
    /\ pc = "idle" => tipBlock = active /\ (active = NoBlock => dbBest = NoBlock)
    /\ pc \in {"flush", "coins", "rewind"} => tipBlock = target
    /\ pc \in {"flush", "coins", "rewind", "replay"} => tipBlock # NoBlock
    /\ pc = "coins" => diskIndex = index
    /\ pc \in {"heads", "replay"} => dbHeads # <<>>
    /\ pc \in {"coins", "replay"} /\ dbHeads # <<>> => dbHeads[1] = tipBlock

ChainInv ==
    /\ TypeOK
    /\ ~failed
    /\ UndoInv(index, diskIndex, undo)
    /\ DiskInv(diskIndex, db, dbBest, dbHeads)
    /\ IndexCovers
    /\ Control
    /\ Up => TipInv(index, tip, tipBlock, db)

LEMMA InitChain == Init => ChainInv
  <1> SUFFICES ASSUME Init PROVE ChainInv
    OBVIOUS
  <1>1. EmptyCache \in [OutPoints -> Entry]
    BY DEF EmptyCache, NoEntry, Entry, MaybeCoin, Flags
  <1>2. MaxCrashes \in Nat
    BY BlocksAreValid
  <1>3. TypeOK
    <2>1. index \in [Blocks -> {"none", "data", "undo"}] /\ diskIndex = index
      BY DEF Init
    <2>2. {active, tipBlock, dbBest, target} \subseteq Blocks \cup {NoBlock} /\ dbHeads = <<>>
      BY DEF Init
    <2>3. tip \in [OutPoints -> Entry] /\ db \in [OutPoints -> MaybeCoin]
      BY <1>1 DEF Init, MaybeCoin
    <2>4. pc = "down" /\ failed = FALSE /\ crashes \in 0..MaxCrashes
      BY <1>2, SMTT(30) DEF Init
    <2> QED BY <2>1, <2>2, <2>3, <2>4 DEF TypeOK
  <1>4. UndoInv(index, diskIndex, undo) /\ IndexCovers /\ Control /\ ~Up /\ ~failed
    BY DEF Init, UndoInv, IndexCovers, Control, Up
  <1>5. db = CoinsOf(NoBlock) /\ dbBest = NoBlock /\ dbHeads = <<>>
    BY CoinsOfFirst DEF Init, NoCoins
  <1>6. DiskInv(diskIndex, db, dbBest, dbHeads)
    BY <1>5, CoinsTyped DEF DiskInv, Undone
  <1> QED BY <1>3, <1>4, <1>6 DEF ChainInv

(* A chain keeps its undo data while the index loses none. *)
LEMMA UndoneKept ==
  ASSUME NEW h \in Blocks \cup {NoBlock}, NEW ind, NEW ind2, Undone(ind, h),
         \A b \in Blocks \ {Genesis} : ind[b] = "undo" => ind2[b] = "undo"
  PROVE  Undone(ind2, h)
  BY BranchClosed DEF Undone

(* What is read through pcoinsTip. *)
LEMMA TipReads ==
  ASSUME ChainInv, Up
  PROVE  TipCoins = CoinsOf(tipBlock) /\ tipBlock \in Blocks \cup {NoBlock} /\ CoinsOf(tipBlock) \in Bases
  <1>1. tipBlock \in Blocks \cup {NoBlock}
    BY DEF ChainInv, TypeOK
  <1>2. CoinsOf(tipBlock) \in Bases
    BY <1>1, CoinsTyped
  <1>3. \A o \in OutPoints : Lookup(tip[o], db[o]) = CoinsOf(tipBlock)[o]
    BY DEF ChainInv, TipInv, Good
  <1> QED BY <1>1, <1>2, <1>3 DEF TipCoins, Bases

(* The flush of a block's view into pcoinsTip. *)
LEMMA FlushedTip ==
  ASSUME ChainInv, Up, NEW w, NEW b, Near(w, TipCoins, Exactly(CoinsOf(b))), FlushIntoTip(w, b)
  PROVE  /\ tip' \in [OutPoints -> Entry] /\ \A o \in OutPoints : Good(tip'[o], db[o], {CoinsOf(b)[o]})
         /\ tipBlock' = b /\ failed' = FALSE
  <1> DEFINE p == TipFetched(w)
  <1>1. /\ \A o \in OutPoints : db[o] \in MaybeCoin /\ Good(tip[o], db[o], {CoinsOf(tipBlock)[o]})
        /\ ~failed
    BY DEF ChainInv, TypeOK, TipInv
  <1>2. \A o \in OutPoints : Good(w.cache[o], CoinsOf(tipBlock)[o], {CoinsOf(b)[o]})
    BY TipReads DEF Near, Exactly
  <1>3. \A o \in OutPoints : Good(p[o], db[o], {CoinsOf(tipBlock)[o]})
    BY <1>1, GoodFetched DEF TipFetched
  <1>4. /\ tip' = [o \in OutPoints |-> Merged(p[o], w.cache[o])]
        /\ tipBlock' = b
        /\ failed' = (failed \/ w.gaveUp \/ \E o \in OutPoints : MergeThrows(p[o], w.cache[o]))
    BY DEF FlushIntoTip
  <1> HIDE DEF p
  <1>5. \A o \in OutPoints : ~MergeThrows(p[o], w.cache[o]) /\ Good(Merged(p[o], w.cache[o]), db[o], {CoinsOf(b)[o]})
    BY <1>1, <1>2, <1>3, GoodMerged
  <1>6. \A o \in OutPoints : Good(tip'[o], db[o], {CoinsOf(b)[o]})
    BY <1>4, <1>5
  <1>7. ~w.gaveUp
    BY DEF Near
  <1> QED BY <1>1, <1>4, <1>5, <1>6, <1>7 DEF Good
-----------------------------------------------------------------------------
(* One lemma for each action. *)
LEMMA AcceptBlockKeeps ==
  ASSUME ChainInv, NEW b \in Blocks, AcceptBlock(b)
  PROVE  ChainInv'
  <1>0. /\ TypeOK /\ ~failed /\ UndoInv(index, diskIndex, undo) /\ DiskInv(diskIndex, db, dbBest, dbHeads)
        /\ IndexCovers /\ Control /\ Up /\ TipInv(index, tip, tipBlock, db)
    BY DEF ChainInv, AcceptBlock, Up
  <1>1. /\ pc = "idle" /\ index[b] = "none" /\ b # Genesis /\ index' = [index EXCEPT ![b] = "data"]
        /\ UNCHANGED <<diskIndex, undo, db, dbBest, dbHeads, active, tip, tipBlock, target, pc, failed, crashes>>
    BY DEF AcceptBlock, disk
  <1>2. index \in [Blocks -> {"none", "data", "undo"}] /\ tipBlock \in Blocks \cup {NoBlock}
    BY <1>0 DEF TypeOK
  <1>3. /\ \A x \in Blocks : index'[x] = "undo" <=> index[x] = "undo"
        /\ index'[Genesis] = index[Genesis] /\ index' \in [Blocks -> {"none", "data", "undo"}]
    BY <1>1, <1>2, TreeOfBlocks
  <1>4. TypeOK'
    BY <1>0, <1>1, <1>3 DEF TypeOK
  <1>5. UndoInv(index', diskIndex', undo')
    BY <1>0, <1>1, <1>3 DEF UndoInv
  <1>6. DiskInv(diskIndex', db', dbBest', dbHeads')
    BY <1>0, <1>1
  <1>7. IndexCovers'
    BY <1>0, <1>1, <1>3 DEF IndexCovers
  <1>8. Control'
    BY <1>0, <1>1 DEF Control
  <1>9. TipInv(index', tip', tipBlock', db')
    BY <1>0, <1>1, <1>2, <1>3, UndoneKept DEF TipInv
  <1> QED BY <1>0, <1>1, <1>4, <1>5, <1>6, <1>7, <1>8, <1>9 DEF ChainInv

LEMMA ConnectTipKeeps ==
  ASSUME Inductive, ChainInv, NEW b \in Blocks, ConnectTip(b)
  PROVE  ChainInv'
  <1> DEFINE w == ConnectBlock(TipCoins, b)
  <1>0. /\ TypeOK /\ ~failed /\ UndoInv(index, diskIndex, undo) /\ DiskInv(diskIndex, db, dbBest, dbHeads)
        /\ IndexCovers /\ Control /\ Up /\ TipInv(index, tip, tipBlock, db)
    BY DEF ChainInv, ConnectTip, Up
  <1>1. /\ pc = "idle" /\ IF b = Genesis THEN active = NoBlock ELSE active = Parent[b]
        /\ FlushIntoTip([w EXCEPT !.gaveUp = w.gaveUp \/ ~(TipBest = active)], b)
        /\ IF b = Genesis \/ index[b] = "undo" THEN UNCHANGED <<index, undo>>
           ELSE index' = [index EXCEPT ![b] = "undo"] /\ undo' = [undo EXCEPT ![b] = BlockUndo(TipCoins, b)]
        /\ target' = b /\ pc' = "flush" /\ UNCHANGED <<diskIndex, active, db, dbBest, dbHeads, crashes>>
    BY DEF ConnectTip
  <1>2. tipBlock = active /\ TipBest = active /\ dbHeads = <<>>
    BY <1>0, <1>1 DEF Control, TipBest
  <1>3. TipCoins = CoinsAt[b][0] /\ TipCoins \in Bases
    BY <1>0, <1>1, <1>2, TipReads, CoinsBelow, CoinsOfFirst
  <1>4. \A i \in 0..Len(Txs[b]) : Near(Connecting(TipCoins, b)[i], TipCoins, Exactly(CoinsAt[b][i]))
    BY <1>3, ConnectingNear
  <1>5. Near(w, TipCoins, Exactly(CoinsOf(b)))
    <2>1. Len(Txs[b]) \in 0..Len(Txs[b])
      BY TxsOfBlock, SMTT(30)
    <2>2. CoinsOf(b) = CoinsAt[b][Len(Txs[b])]
      BY CoinsBelow
    <2> QED BY <1>4, <2>1, <2>2 DEF ConnectBlock
  <1>6. w = [w EXCEPT !.gaveUp = w.gaveUp \/ ~(TipBest = active)]
    <2> HIDE DEF w
    <2>1. w \in Works /\ ~w.gaveUp
      BY <1>5 DEF Near
    <2> QED BY <1>2, <2>1 DEF Works
  <1>7. FlushIntoTip(w, b)
    BY <1>1, <1>6
  <1> HIDE DEF w
  <1>8. /\ tip' \in [OutPoints -> Entry] /\ \A o \in OutPoints : Good(tip'[o], db[o], {CoinsOf(b)[o]})
        /\ tipBlock' = b /\ failed' = FALSE
    BY <1>0, <1>5, <1>7, FlushedTip
  <1>9. index \in [Blocks -> {"none", "data", "undo"}] /\ DOMAIN undo = Blocks
    BY <1>0 DEF TypeOK, UndoInv
  <1>10. /\ index' \in [Blocks -> {"none", "data", "undo"}] /\ index'[Genesis] = index[Genesis]
         /\ \A x \in Blocks : index[x] = "undo" => index'[x] = "undo"
         /\ \A x \in Blocks \ {b} : index'[x] = index[x]
         /\ b # Genesis => index'[b] = "undo"
    BY <1>1, <1>9, TreeOfBlocks
  <1>11. UndoInv(index', diskIndex, undo')
    <2>1. CASE b = Genesis \/ index[b] = "undo"
      BY <1>0, <1>1, <2>1
    <2>2. CASE ~(b = Genesis \/ index[b] = "undo")
      <3>1. DOMAIN undo' = Blocks /\ undo'[b] = BlockUndo(TipCoins, b) /\ \A x \in Blocks \ {b} : undo'[x] = undo[x]
        BY <1>1, <1>9, <2>2
      <3>2. UndoOf(undo', b)
        <4> SUFFICES ASSUME NEW i \in DOMAIN Txs[b]
                     PROVE  /\ DOMAIN undo'[b][i] = Txs[b][i].in
                            /\ \A o \in Txs[b][i].in : undo'[b][i][o] = CoinsAt[b][i - 1][o]
          BY DEF UndoOf
        <4>1. undo'[b][i] = [o \in Txs[b][i].in |-> Lookup(Connecting(TipCoins, b)[i - 1].cache[o], TipCoins[o])]
          BY <3>1 DEF BlockUndo
        <4>2. i - 1 \in 0..Len(Txs[b]) /\ Txs[b][i].in \in SUBSET OutPoints
          BY TxsOfBlock, SMTT(30)
        <4>3. Near(Connecting(TipCoins, b)[i - 1], TipCoins, Exactly(CoinsAt[b][i - 1]))
          BY <1>4, <4>2
        <4>4. \A o \in OutPoints : Lookup(Connecting(TipCoins, b)[i - 1].cache[o], TipCoins[o]) = CoinsAt[b][i - 1][o]
          BY <4>3 DEF Near, Good, Exactly
        <4> QED BY <4>1, <4>2, <4>4
      <3>3. ASSUME NEW x \in Blocks \ {Genesis}, index'[x] = "undo" \/ diskIndex[x] = "undo"
            PROVE  UndoOf(undo', x)
        <4>1. CASE x = b
          BY <3>2, <4>1
        <4>2. CASE x # b
          <5>1. UndoOf(undo, x)
            BY <1>0, <1>10, <3>3, <4>2 DEF UndoInv
          <5>2. undo'[x] = undo[x]
            BY <3>1, <4>2
          <5> QED BY <5>1, <5>2 DEF UndoOf
        <4> QED BY <4>1, <4>2
      <3> QED BY <3>1, <3>3 DEF UndoInv
    <2> QED BY <2>1, <2>2
  <1>12. Undone(index', b)
    <2>1. CASE b = Genesis
      BY <2>1, BranchOfGenesis DEF Undone
    <2>2. CASE b # Genesis
      <3>1. active \in Blocks /\ active # NoBlock /\ Branch[b] = Branch[active] \cup {b}
        BY <1>1, <2>2, BranchOfChild, TreeOfBlocks, BlocksAreValid, SMTT(30)
      <3>2. Undone(index', active)
        BY <1>0, <1>2, <1>10, <3>1, UndoneKept DEF TipInv
      <3> QED BY <1>10, <2>2, <3>1, <3>2 DEF Undone
    <2> QED BY <2>1, <2>2
  <1>13. TypeOK'
    <2>1. active' \in Blocks \cup {NoBlock} /\ dbBest' \in Blocks \cup {NoBlock} /\ tipBlock' = b /\ target' = b
      BY <1>0, <1>1, <1>8 DEF TypeOK
    <2>2. {active, tipBlock, dbBest, target}' \subseteq Blocks \cup {NoBlock}
      BY <2>1
    <2>3. /\ diskIndex' \in [Blocks -> {"none", "data", "undo"}] /\ db' \in [OutPoints -> MaybeCoin]
          /\ crashes' \in 0..MaxCrashes
      BY <1>0, <1>1 DEF TypeOK
    <2> QED BY <1>1, <1>2, <1>8, <1>10, <2>2, <2>3 DEF TypeOK
  <1>14. IndexCovers' /\ DiskInv(diskIndex', db', dbBest', dbHeads')
    BY <1>0, <1>1, <1>10 DEF IndexCovers
  <1>15. Control'
    BY <1>0, <1>1, <1>2, <1>8, BlocksAreValid DEF Control
  <1>16. TipInv(index', tip', tipBlock', db')
    BY <1>1, <1>8, <1>12 DEF TipInv
  <1> QED BY <1>1, <1>8, <1>11, <1>13, <1>14, <1>15, <1>16 DEF ChainInv

LEMMA DisconnectTipKeeps ==
  ASSUME Inductive, ChainInv, DisconnectTip
  PROVE  ChainInv'
  <1> DEFINE w == DisconnectBlock(Work(EmptyCache), TipCoins, active)
             p == Parent[active]
             None == [o \in OutPoints |-> {}]
  <1>0. /\ TypeOK /\ ~failed /\ UndoInv(index, diskIndex, undo) /\ DiskInv(diskIndex, db, dbBest, dbHeads)
        /\ IndexCovers /\ Control /\ Up /\ TipInv(index, tip, tipBlock, db)
    BY DEF ChainInv, DisconnectTip, Up
  <1>1. /\ pc = "idle" /\ active \notin {NoBlock, Genesis}
        /\ FlushIntoTip([w EXCEPT !.gaveUp = w.gaveUp \/ ~w.clean \/ TipBest # active], p)
        /\ target' = p /\ pc' = "flush"
        /\ UNCHANGED <<index, active, diskIndex, undo, db, dbBest, dbHeads, crashes>>
    BY DEF DisconnectTip, disk
  <1>2. tipBlock = active /\ TipBest = active /\ dbHeads = <<>>
    BY <1>0, <1>1 DEF Control, TipBest
  <1>3. active \in Blocks \ {Genesis} /\ p \in Blocks /\ p # NoBlock /\ Branch[active] = Branch[p] \cup {active}
    BY <1>0, <1>1, TreeOfBlocks, BlocksAreValid, BranchOfChild, SMTT(30) DEF TypeOK
  <1>4. index[active] = "undo" /\ UndoOf(undo, active) /\ Undone(index, p)
    BY <1>0, <1>1, <1>2, <1>3, BranchClosed DEF TipInv, Undone, UndoInv
  <1>5. TipCoins = CoinsOf(active) /\ TipCoins \in Bases
    BY <1>0, <1>2, TipReads
  <1>6. Near(Work(EmptyCache), TipCoins, Around(CoinsOf(active), None)) /\ Work(EmptyCache).clean
    <2>1. \A o \in OutPoints : TipCoins[o] \in Around(CoinsOf(active), None)[o]
      BY <1>5 DEF Around
    <2> QED BY <1>5, <2>1, EmptyNear
  <1>7. w = Disconnecting(Work(EmptyCache), TipCoins, active)[Len(Txs[active])]
    BY <1>4 DEF DisconnectBlock
  <1>8. Near(w, TipCoins, Around(CoinsOf(p), None)) /\ w.clean
    <2>1. \A o \in OutPoints : None[o] = {}
      OBVIOUS
    <2> HIDE DEF w, None
    <2> QED BY <1>3, <1>4, <1>5, <1>6, <1>7, <2>1, DisconnectingNear
  <1>9. Near(w, TipCoins, Exactly(CoinsOf(p)))
    <2>1. \A o \in OutPoints : Around(CoinsOf(p), None)[o] = Exactly(CoinsOf(p))[o]
      BY DEF Around, Exactly
    <2> HIDE DEF w, None, p
    <2> QED BY <1>8, <2>1 DEF Near
  <1>10. w = [w EXCEPT !.gaveUp = w.gaveUp \/ ~w.clean \/ TipBest # active]
    <2> HIDE DEF w
    <2>1. w \in Works /\ ~w.gaveUp /\ w.clean
      BY <1>8, <1>9 DEF Near
    <2> QED BY <1>2, <2>1 DEF Works
  <1>11. FlushIntoTip(w, p)
    BY <1>1, <1>10
  <1> HIDE DEF w, p
  <1>12. /\ tip' \in [OutPoints -> Entry] /\ \A o \in OutPoints : Good(tip'[o], db[o], {CoinsOf(p)[o]})
         /\ tipBlock' = p /\ failed' = FALSE
    BY <1>0, <1>9, <1>11, FlushedTip
  <1>13. TypeOK'
    BY <1>0, <1>1, <1>3, <1>12 DEF TypeOK
  <1>14. IndexCovers' /\ DiskInv(diskIndex', db', dbBest', dbHeads') /\ UndoInv(index', diskIndex', undo')
    BY <1>0, <1>1 DEF IndexCovers
  <1>15. Control'
    BY <1>0, <1>1, <1>2, <1>3, <1>12 DEF Control
  <1>16. TipInv(index', tip', tipBlock', db')
    BY <1>1, <1>4, <1>12 DEF TipInv
  <1> QED BY <1>12, <1>13, <1>14, <1>15, <1>16 DEF ChainInv
LEMMA FlushKeeps ==
  ASSUME ChainInv, FlushPeriodically \/ FlushNothing
  PROVE  ChainInv'
  <1>0. /\ TypeOK /\ ~failed /\ UndoInv(index, diskIndex, undo) /\ DiskInv(diskIndex, db, dbBest, dbHeads)
        /\ IndexCovers /\ Control /\ TipInv(index, tip, tipBlock, db)
    BY DEF ChainInv, FlushPeriodically, FlushNothing, Up
  <1>1. /\ \/ pc = "idle" /\ active # NoBlock /\ target' = active /\ pc' = "flush" /\ active' = active
           \/ pc = "flush" /\ active' = target /\ pc' = "idle" /\ target' = target
        /\ UNCHANGED <<index, tip, tipBlock, diskIndex, undo, db, dbBest, dbHeads, failed, crashes>>
    BY DEF FlushPeriodically, FlushNothing, UpdateTip, disk
  <1>2. TypeOK'
    BY <1>0, <1>1, SMTT(30) DEF TypeOK
  <1>3. UndoInv(index', diskIndex', undo') /\ DiskInv(diskIndex', db', dbBest', dbHeads') /\ TipInv(index', tip', tipBlock', db')
    BY <1>0, <1>1
  <1>4. IndexCovers' /\ Control'
    BY <1>0, <1>1 DEF IndexCovers, Control
  <1> QED BY <1>0, <1>1, <1>2, <1>3, <1>4 DEF ChainInv

LEMMA WriteBlockIndexKeeps ==
  ASSUME ChainInv, WriteBlockIndex
  PROVE  ChainInv'
  <1>0. /\ TypeOK /\ ~failed /\ UndoInv(index, diskIndex, undo) /\ DiskInv(diskIndex, db, dbBest, dbHeads)
        /\ IndexCovers /\ Control /\ TipInv(index, tip, tipBlock, db)
    BY DEF ChainInv, WriteBlockIndex, Up
  <1>1. /\ pc \in {"flush", "rewind"} /\ diskIndex' = index
        /\ \/ pc' = "coins" /\ active' = active
           \/ active' = target /\ pc' = "idle"
        /\ UNCHANGED <<index, tip, tipBlock, target, undo, db, dbBest, dbHeads, failed, crashes>>
    BY DEF WriteBlockIndex, UpdateTip
  <1>2. TypeOK'
    BY <1>0, <1>1, SMTT(30) DEF TypeOK
  <1>3. UndoInv(index', diskIndex', undo') /\ TipInv(index', tip', tipBlock', db')
    BY <1>0, <1>1 DEF UndoInv
  <1>4. dbHeads = <<>> /\ dbBest \in Blocks \cup {NoBlock} /\ \A b \in Blocks \ {Genesis} : diskIndex[b] = "undo" => index[b] = "undo"
    BY <1>0, <1>1 DEF Control, TypeOK, IndexCovers
  <1>5. Undone(index, dbBest)
    BY <1>0, <1>4, UndoneKept DEF DiskInv
  <1>6. DiskInv(diskIndex', db', dbBest', dbHeads')
    BY <1>0, <1>1, <1>4, <1>5 DEF DiskInv
  <1>7. IndexCovers' /\ Control'
    BY <1>0, <1>1, <1>4 DEF IndexCovers, Control
  <1> QED BY <1>0, <1>1, <1>2, <1>3, <1>6, <1>7 DEF ChainInv

(* Entries written to the database: the coins there change to those of     *)
(* pcoinsTip, through which nothing changes.                               *)
LEMMA EntriesWritten ==
  ASSUME ChainInv, Up, tipBlock # NoBlock, dbHeads # <<>> => dbHeads[1] = tipBlock,
         NEW S \in SUBSET OutPoints, WriteEntries(S)
  PROVE  /\ db' \in Bases /\ tip' \in [OutPoints -> Entry] /\ failed' = FALSE
         /\ \A o \in OutPoints : db'[o] = IF o \in S THEN CoinsOf(tipBlock)[o] ELSE db[o]
         /\ \A o \in OutPoints : Good(tip'[o], db'[o], {CoinsOf(tipBlock)[o]})
  <1>1. /\ db \in [OutPoints -> MaybeCoin] /\ ~failed
        /\ \A o \in OutPoints : db[o] \in MaybeCoin /\ Good(tip[o], db[o], {CoinsOf(tipBlock)[o]})
    BY DEF ChainInv, TypeOK, TipInv
  <1>2. /\ db' = [o \in OutPoints |-> IF o \in S THEN Written(db[o], tip[o]) ELSE db[o]]
        /\ tip' = [o \in OutPoints |-> IF o \in S THEN NoEntry ELSE tip[o]]
        /\ failed' = FALSE
    BY <1>1 DEF WriteEntries, BatchWriteAsserts
  <1>3. \A o \in OutPoints : Written(db[o], tip[o]) = CoinsOf(tipBlock)[o] /\ CoinsOf(tipBlock)[o] \in MaybeCoin
    BY <1>1, GoodWritten
  <1>4. \A o \in OutPoints : Good(tip'[o], db'[o], {CoinsOf(tipBlock)[o]})
    BY <1>1, <1>2, <1>3, GoodNone
  <1> QED BY <1>1, <1>2, <1>3, <1>4 DEF Bases, Good

(* The chain of pcoinsTip has its undo data on disk before the coins. *)
LEMMA DurableBeforeCoins ==
  ASSUME ChainInv, pc \in {"coins", "replay"}
  PROVE  /\ Up /\ tipBlock \in Blocks /\ (dbHeads # <<>> => dbHeads[1] = tipBlock)
         /\ Undone(diskIndex, tipBlock)
  <1>1. Up /\ tipBlock # NoBlock /\ (dbHeads # <<>> => dbHeads[1] = tipBlock)
    BY DEF ChainInv, Control, Up
  <1>2. tipBlock \in Blocks
    BY <1>1 DEF ChainInv, TypeOK
  <1>3. CASE pc = "coins"
    BY <1>1, <1>2, <1>3 DEF ChainInv, Control, TipInv
  <1>4. CASE pc = "replay"
    BY <1>1, <1>2, <1>4 DEF ChainInv, Control, DiskInv
  <1> QED BY <1>1, <1>2, <1>3, <1>4

LEMMA WritePartialBatchKeeps ==
  ASSUME ChainInv, WritePartialBatch
  PROVE  ChainInv'
  <1>0. /\ TypeOK /\ ~failed /\ UndoInv(index, diskIndex, undo) /\ DiskInv(diskIndex, db, dbBest, dbHeads)
        /\ IndexCovers /\ Control
    BY DEF ChainInv
  <1>1. /\ pc \in {"coins", "replay"} /\ dbBest' = NoBlock /\ dbHeads' = <<tipBlock, OldTip>>
        /\ UNCHANGED <<index, active, tipBlock, target, diskIndex, undo, pc, crashes>>
    BY DEF WritePartialBatch
  <1>2. PICK S \in SUBSET OutPoints : WriteEntries(S)
    BY DEF WritePartialBatch
  <1>3. Up /\ tipBlock \in Blocks /\ tipBlock # NoBlock /\ (dbHeads # <<>> => dbHeads[1] = tipBlock) /\ Undone(diskIndex, tipBlock)
    BY <1>1, DurableBeforeCoins, BlocksAreValid
  <1>4. /\ db' \in Bases /\ tip' \in [OutPoints -> Entry] /\ failed' = FALSE
        /\ \A o \in OutPoints : db'[o] = IF o \in S THEN CoinsOf(tipBlock)[o] ELSE db[o]
        /\ \A o \in OutPoints : Good(tip'[o], db'[o], {CoinsOf(tipBlock)[o]})
    BY <1>2, <1>3, EntriesWritten
  <1>5. /\ OldTip \in Blocks \cup {NoBlock} /\ Undone(diskIndex, OldTip)
        /\ \A o \in OutPoints : db[o] \in {CoinsOf(tipBlock)[o], CoinsOf(OldTip)[o]}
    <2>1. CASE dbHeads = <<>>
      <3>1. OldTip = dbBest /\ db = CoinsOf(dbBest) /\ Undone(diskIndex, dbBest)
        BY <1>0, <2>1 DEF OldTip, DiskInv
      <3> QED BY <1>0, <3>1 DEF TypeOK
    <2>2. CASE dbHeads # <<>>
      <3>1. OldTip = dbHeads[2] /\ dbHeads[1] = tipBlock
        BY <1>0, <1>3, <2>2 DEF OldTip, DiskInv
      <3> QED BY <1>0, <2>2, <3>1 DEF DiskInv
    <2> QED BY <2>1, <2>2
  <1>6. dbHeads' # <<>> /\ dbHeads'[1] = tipBlock /\ dbHeads'[2] = OldTip /\ dbHeads' \in (Blocks \cup {NoBlock}) \X (Blocks \cup {NoBlock})
    BY <1>1, <1>3, <1>5
  <1>7. \A o \in OutPoints : db'[o] \in {CoinsOf(tipBlock)[o], CoinsOf(OldTip)[o]}
    BY <1>4, <1>5
  <1>8. DiskInv(diskIndex', db', dbBest', dbHeads')
    BY <1>1, <1>3, <1>4, <1>5, <1>6, <1>7 DEF DiskInv
  <1>9. TipInv(index', tip', tipBlock', db')
    <2>1. Undone(index, tipBlock)
      BY <1>3 DEF ChainInv, TipInv
    <2> QED BY <1>1, <1>4, <2>1 DEF TipInv
  <1>10. TypeOK'
    <2>1. {active', tipBlock', dbBest', target'} \subseteq Blocks \cup {NoBlock}
      <3>1. active \in Blocks \cup {NoBlock} /\ tipBlock \in Blocks \cup {NoBlock} /\ target \in Blocks \cup {NoBlock}
        BY <1>0 DEF TypeOK
      <3>2. active' = active /\ tipBlock' = tipBlock /\ target' = target /\ dbBest' = NoBlock
        BY <1>1
      <3> QED BY <3>1, <3>2
    <2>2. index' = index /\ diskIndex' = diskIndex /\ crashes' = crashes /\ pc' \in {"coins", "replay", "idle", "load"}
      BY <1>1
    <2>3. tip' \in [OutPoints -> Entry] /\ db' \in [OutPoints -> MaybeCoin] /\ failed' = FALSE
      BY <1>4 DEF Bases
    <2> QED BY <1>0, <1>6, <2>1, <2>2, <2>3 DEF TypeOK
  <1>11. UndoInv(index', diskIndex', undo') /\ IndexCovers'
    BY <1>0, <1>1 DEF IndexCovers
  <1>12. Control'
    BY <1>0, <1>1, <1>6 DEF Control
  <1> QED BY <1>4, <1>8, <1>9, <1>10, <1>11, <1>12 DEF ChainInv

LEMMA WriteFinalBatchKeeps ==
  ASSUME ChainInv, WriteFinalBatch
  PROVE  ChainInv'
  <1>0. /\ TypeOK /\ ~failed /\ UndoInv(index, diskIndex, undo) /\ DiskInv(diskIndex, db, dbBest, dbHeads)
        /\ IndexCovers /\ Control
    BY DEF ChainInv
  <1>1. /\ pc \in {"coins", "replay"} /\ WriteEntries(OutPoints) /\ dbBest' = tipBlock /\ dbHeads' = <<>>
        /\ \/ pc = "coins" /\ active' = target /\ pc' = "idle"
           \/ pc' = "load" /\ active' = active
        /\ UNCHANGED <<index, tipBlock, target, diskIndex, undo, crashes>>
    BY DEF WriteFinalBatch, UpdateTip
  <1>2. Up /\ tipBlock \in Blocks /\ tipBlock # NoBlock /\ (dbHeads # <<>> => dbHeads[1] = tipBlock) /\ Undone(diskIndex, tipBlock)
    BY <1>1, DurableBeforeCoins, BlocksAreValid
  <1>3. /\ db' \in Bases /\ tip' \in [OutPoints -> Entry] /\ failed' = FALSE
        /\ \A o \in OutPoints : db'[o] = IF o \in OutPoints THEN CoinsOf(tipBlock)[o] ELSE db[o]
        /\ \A o \in OutPoints : Good(tip'[o], db'[o], {CoinsOf(tipBlock)[o]})
    BY <1>1, <1>2, EntriesWritten
  <1>4. db' = CoinsOf(tipBlock)
    BY <1>2, <1>3, CoinsTyped, SMTT(30) DEF Bases
  <1>5. DiskInv(diskIndex', db', dbBest', dbHeads')
    BY <1>1, <1>2, <1>3, <1>4 DEF DiskInv
  <1>6. TipInv(index', tip', tipBlock', db')
    <2>1. Undone(index, tipBlock)
      BY <1>2 DEF ChainInv, TipInv
    <2> QED BY <1>1, <1>3, <2>1 DEF TipInv
  <1>7. TypeOK'
    <2>1. {active', tipBlock', dbBest', target'} \subseteq Blocks \cup {NoBlock}
      BY <1>0, <1>1, SMTT(30) DEF TypeOK
    <2>2. index' = index /\ diskIndex' = diskIndex /\ crashes' = crashes /\ pc' \in {"coins", "replay", "idle", "load"}
      BY <1>1
    <2>3. tip' \in [OutPoints -> Entry] /\ db' \in [OutPoints -> MaybeCoin] /\ failed' = FALSE
      BY <1>3 DEF Bases
    <2> QED BY <1>0, <1>1, <2>1, <2>2, <2>3 DEF TypeOK
  <1>8. UndoInv(index', diskIndex', undo') /\ IndexCovers'
    BY <1>0, <1>1 DEF IndexCovers
  <1>9. Control'
    BY <1>0, <1>1, <1>2 DEF Control
  <1> QED BY <1>3, <1>5, <1>6, <1>7, <1>8, <1>9 DEF ChainInv
LEMMA CrashKeeps ==
  ASSUME ChainInv, Crash
  PROVE  ChainInv'
  <1>0. /\ TypeOK /\ ~failed /\ UndoInv(index, diskIndex, undo) /\ DiskInv(diskIndex, db, dbBest, dbHeads)
    BY DEF ChainInv
  <1>1. /\ crashes < MaxCrashes /\ crashes' = crashes + 1 /\ index' = [b \in Blocks |-> "none"]
        /\ undo' = [b \in Blocks |-> IF diskIndex[b] = "undo" THEN undo[b] ELSE <<>>]
        /\ active' = NoBlock /\ tip' = EmptyCache /\ tipBlock' = NoBlock /\ target' = NoBlock /\ pc' = "down"
        /\ UNCHANGED <<diskIndex, db, dbBest, dbHeads, failed>>
    BY DEF Crash
  <1>2. TypeOK'
    <2>1. {active', tipBlock', dbBest', target'} \subseteq Blocks \cup {NoBlock}
      BY <1>0, <1>1 DEF TypeOK
    <2>2. crashes' \in 0..MaxCrashes
      <3>1. crashes \in 0..MaxCrashes /\ MaxCrashes \in Nat
        BY <1>0, BlocksAreValid DEF TypeOK
      <3> QED BY <1>1, <3>1, SMTT(30)
    <2>3. tip' \in [OutPoints -> Entry]
      BY <1>1 DEF EmptyCache, NoEntry, Entry, MaybeCoin, Flags
    <2>4. index' \in [Blocks -> {"none", "data", "undo"}]
      BY <1>1
    <2> QED BY <1>0, <1>1, <2>1, <2>2, <2>3, <2>4 DEF TypeOK
  <1>3. UndoInv(index', diskIndex', undo')
    <2>1. DOMAIN undo' = Blocks /\ \A b \in Blocks : diskIndex[b] = "undo" => undo'[b] = undo[b]
      BY <1>1
    <2>2. \A b \in Blocks : index'[b] = "none"
      BY <1>1
    <2>3. ASSUME NEW b \in Blocks \ {Genesis}, index'[b] = "undo" \/ diskIndex'[b] = "undo"
          PROVE  UndoOf(undo', b)
      <3>1. diskIndex[b] = "undo"
        BY <1>1, <2>2, <2>3
      <3>2. UndoOf(undo, b) /\ undo'[b] = undo[b]
        BY <1>0, <2>1, <3>1 DEF UndoInv
      <3> QED BY <3>2 DEF UndoOf
    <2> QED BY <2>1, <2>3 DEF UndoInv
  <1>4. DiskInv(diskIndex', db', dbBest', dbHeads')
    BY <1>0, <1>1
  <1>5. IndexCovers' /\ Control' /\ ~Up' /\ ~failed'
    BY <1>0, <1>1 DEF IndexCovers, Control, Up
  <1> QED BY <1>2, <1>3, <1>4, <1>5 DEF ChainInv

LEMMA LoadBlockIndexKeeps ==
  ASSUME ChainInv, LoadBlockIndex
  PROVE  ChainInv'
  <1>0. /\ TypeOK /\ ~failed /\ UndoInv(index, diskIndex, undo) /\ DiskInv(diskIndex, db, dbBest, dbHeads)
    BY DEF ChainInv
  <1>1. /\ index' = [diskIndex EXCEPT ![Genesis] = "data"] /\ pc' = IF dbHeads = <<>> THEN "load" ELSE "heads"
        /\ UNCHANGED <<active, tip, tipBlock, target, diskIndex, undo, db, dbBest, dbHeads, failed, crashes>>
    BY DEF LoadBlockIndex, disk
  <1>2. /\ index' \in [Blocks -> {"none", "data", "undo"}] /\ index'[Genesis] = "data"
        /\ \A b \in Blocks \ {Genesis} : index'[b] = diskIndex[b]
    BY <1>0, <1>1, TreeOfBlocks DEF TypeOK
  <1>3. TypeOK'
    BY <1>0, <1>1, <1>2 DEF TypeOK
  <1>4. UndoInv(index', diskIndex', undo')
    BY <1>0, <1>1, <1>2 DEF UndoInv
  <1>5. DiskInv(diskIndex', db', dbBest', dbHeads')
    BY <1>0, <1>1
  <1>6. IndexCovers' /\ Control' /\ ~Up' /\ ~failed'
    BY <1>0, <1>1, <1>2 DEF IndexCovers, Control, Up
  <1> QED BY <1>3, <1>4, <1>5, <1>6 DEF ChainInv

LEMMA ReplayKeeps ==
  ASSUME Inductive, FiniteTree, ChainInv, Replay
  PROVE  ChainInv'
  <1> DEFINE new == dbHeads[1]
             old == dbHeads[2]
             w == ReplayBlocks(new, old)
  <1>0. /\ TypeOK /\ ~failed /\ UndoInv(index, diskIndex, undo) /\ DiskInv(diskIndex, db, dbBest, dbHeads)
        /\ IndexCovers /\ Control
    BY DEF ChainInv
  <1>1. /\ pc = "heads" /\ tip' = w.cache /\ tipBlock' = new /\ pc' = "replay"
        /\ failed' = (failed \/ ~(index[new] # "none" /\ (old = NoBlock \/ index[old] # "none")) \/ w.gaveUp)
        /\ UNCHANGED <<index, active, target, diskIndex, undo, db, dbBest, dbHeads, crashes>>
    BY DEF Replay, ReplayHeads, disk
  <1>2. /\ dbHeads # <<>> /\ new \in Blocks /\ new # NoBlock /\ old \in Blocks \cup {NoBlock} /\ db \in Bases
        /\ \A o \in OutPoints : db[o] \in {CoinsOf(new)[o], CoinsOf(old)[o]}
        /\ Undone(diskIndex, new) /\ Undone(diskIndex, old)
    BY <1>0, <1>1, BlocksAreValid DEF Control, DiskInv
  <1> HIDE DEF new, old
  <1>3. index[Genesis] # "none" /\ \A b \in Blocks \ {Genesis} : diskIndex[b] = "undo" => index[b] = "undo"
    BY <1>0, <1>1 DEF IndexCovers
  <1>4. Undone(index, new) /\ Undone(index, old)
    BY <1>2, <1>3, UndoneKept
  <1>5. \A x \in Branch[new] \ {Genesis} : index[x] = "undo" /\ index[x] # "none"
    BY <1>2, <1>4 DEF Undone
  <1>6. old # NoBlock => \A x \in Branch[old] \ {Genesis} : index[x] = "undo" /\ UndoOf(undo, x)
    BY <1>0, <1>2, <1>4, BranchClosed DEF Undone, UndoInv
  <1>7. Near(w, db, Exactly(CoinsOf(new)))
    BY <1>2, <1>5, <1>6, ReplayBlocksNear
  <1>8. index[new] # "none" /\ (old = NoBlock \/ index[old] # "none")
    <2>1. new \in Branch[new] /\ (old # NoBlock => old \in Branch[old])
      BY <1>2, BranchClosed
    <2>2. old # NoBlock /\ old # Genesis => index[old] = "undo"
      BY <1>6, <2>1
    <2> QED BY <1>3, <1>5, <2>1, <2>2
  <1> HIDE DEF w
  <1>9. w.cache \in [OutPoints -> Entry] /\ ~w.gaveUp /\ \A o \in OutPoints : Good(w.cache[o], db[o], {CoinsOf(new)[o]})
    BY <1>7 DEF Near, Exactly, Works
  <1>10. TypeOK'
    <2>1. {active', tipBlock', dbBest', target'} \subseteq Blocks \cup {NoBlock}
      BY <1>0, <1>1, <1>2, SMTT(30) DEF TypeOK
    <2>2. tip' \in [OutPoints -> Entry] /\ failed' = FALSE
      BY <1>0, <1>1, <1>8, <1>9
    <2> QED BY <1>0, <1>1, <2>1, <2>2 DEF TypeOK
  <1>11. ~failed' /\ UndoInv(index', diskIndex', undo') /\ DiskInv(diskIndex', db', dbBest', dbHeads')
    BY <1>0, <1>1, <1>8, <1>9
  <1>12. IndexCovers' /\ Control'
    BY <1>0, <1>1, <1>2 DEF IndexCovers, Control, new
  <1>13. TipInv(index', tip', tipBlock', db')
    BY <1>1, <1>4, <1>9 DEF TipInv
  <1> QED BY <1>10, <1>11, <1>12, <1>13 DEF ChainInv

LEMMA LoadChainTipKeeps ==
  ASSUME ChainInv, LoadChainTip
  PROVE  ChainInv'
  <1>0. /\ TypeOK /\ ~failed /\ UndoInv(index, diskIndex, undo) /\ DiskInv(diskIndex, db, dbBest, dbHeads)
        /\ IndexCovers /\ Control
    BY DEF ChainInv
  <1>1. /\ pc = "load" /\ tip' = EmptyCache /\ tipBlock' = dbBest /\ active' = dbBest /\ target' = dbBest
        /\ failed' = (failed \/ (dbBest # NoBlock /\ index[dbBest] = "none"))
        /\ pc' = IF dbBest = NoBlock THEN "idle" ELSE "rewind"
        /\ UNCHANGED <<index, diskIndex, undo, db, dbBest, dbHeads, crashes>>
    BY DEF LoadChainTip, disk
  <1>2. dbHeads = <<>> /\ db = CoinsOf(dbBest) /\ db \in Bases /\ dbBest \in Blocks \cup {NoBlock} /\ Undone(diskIndex, dbBest)
    BY <1>0, <1>1 DEF Control, DiskInv, TypeOK
  <1>3. index[Genesis] # "none" /\ \A b \in Blocks \ {Genesis} : diskIndex[b] = "undo" => index[b] = "undo"
    BY <1>0, <1>1 DEF IndexCovers
  <1>4. Undone(index, dbBest)
    BY <1>2, <1>3, UndoneKept
  <1>5. dbBest # NoBlock => index[dbBest] # "none"
    <2>1. dbBest # NoBlock /\ dbBest # Genesis => index[dbBest] = "undo"
      BY <1>2, <1>4, BranchClosed DEF Undone
    <2> QED BY <1>3, <2>1
  <1>6. \A o \in OutPoints : Good(EmptyCache[o], db[o], {CoinsOf(dbBest)[o]})
    BY <1>2, GoodNone DEF EmptyCache, Bases
  <1>7. TypeOK'
    <2>1. {active', tipBlock', dbBest', target'} \subseteq Blocks \cup {NoBlock}
      BY <1>1, <1>2
    <2>2. tip' \in [OutPoints -> Entry] /\ failed' = FALSE
      BY <1>0, <1>1, <1>5 DEF EmptyCache, NoEntry, Entry, MaybeCoin, Flags
    <2> QED BY <1>0, <1>1, <2>1, <2>2 DEF TypeOK
  <1>8. ~failed' /\ UndoInv(index', diskIndex', undo') /\ DiskInv(diskIndex', db', dbBest', dbHeads')
    BY <1>0, <1>1, <1>5
  <1>9. IndexCovers' /\ Control'
    BY <1>0, <1>1, <1>2 DEF IndexCovers, Control
  <1>10. TipInv(index', tip', tipBlock', db')
    BY <1>1, <1>4, <1>6 DEF TipInv
  <1> QED BY <1>7, <1>8, <1>9, <1>10 DEF ChainInv

LEMMA NextKeeps ==
  ASSUME Inductive, FiniteTree, ChainInv, [Next]_vars
  PROVE  ChainInv'
  <1>1. CASE UNCHANGED vars
    <2>1. UNCHANGED <<index, active, tip, tipBlock, target, diskIndex, undo, db, dbBest, dbHeads, pc, failed, crashes>>
      BY <1>1 DEF vars, mem, disk
    <2> QED BY <2>1 DEF ChainInv, TypeOK, IndexCovers, Control, Up
  <1>2. CASE Next
    BY <1>2, AcceptBlockKeeps, ConnectTipKeeps, DisconnectTipKeeps, FlushKeeps, WriteBlockIndexKeeps,
       WritePartialBatchKeeps, WriteFinalBatchKeeps, CrashKeeps, LoadBlockIndexKeeps, ReplayKeeps,
       LoadChainTipKeeps DEF Next
  <1> QED BY <1>1, <1>2
-----------------------------------------------------------------------------
(* From here on FiniteSetTheorems is in the context. *)
Finite == INSTANCE FiniteSetTheorems

LEMMA TreeIsFinite == FiniteTree
  <1>1. \A S : Finite!IsFiniteSet(S) <=> IsFiniteSet(S)
    BY DEF Finite!IsFiniteSet, IsFiniteSet
  <1>2. \A S : Finite!Cardinality(S) = Cardinality(S)
    BY DEF Finite!Cardinality, Cardinality, Finite!IsFiniteSet, IsFiniteSet
  <1>3. \A S \in SUBSET Blocks : Finite!IsFiniteSet(S)
    BY <1>1, TreeOfBlocks, Finite!FS_Subset
  <1>4. ASSUME NEW C \in SUBSET SUBSET Blocks, C # {}
        PROVE  \E T \in C : \A U \in C : U \subseteq T => U = T
    <2>1. C \subseteq Finite!FiniteSubsetsOf(Blocks)
      BY <1>3 DEF Finite!FiniteSubsetsOf
    <2>2. PICK T \in C : \A U \in C : ~(<<U, T>> \in Finite!StrictSubsetOrdering(Blocks))
      BY <1>4, <2>1, Finite!FS_StrictSubsetOrderingWellFounded, Finite!WFMin
    <2> QED BY <2>2 DEF Finite!StrictSubsetOrdering
  <1> QED BY <1>2, <1>3, <1>4, Finite!FS_CardinalityType DEF FiniteTree

(* Of the naturals outside S there would be a least one. *)
LEMMA NaturalsAreInductive == Inductive
  <1> SUFFICES ASSUME NEW S \in SUBSET Nat, 0 \in S, \A i \in S : i + 1 \in S, Nat \ S # {}
               PROVE  FALSE
    BY DEF Inductive
  <1>1. PICK m \in Nat \ S : \A k \in Nat \ S : ~(<<k, m>> \in Finite!OpToRel(<, Nat))
    BY Finite!NatLessThanWellFounded, Finite!WFMin, Zenon
  <1>2. \A k \in Nat \ S : ~(k < m)
    BY <1>1 DEF Finite!OpToRel
  <1>3. m - 1 \in Nat /\ m - 1 < m /\ (m - 1) + 1 = m
    <2>1. m # 0
      OBVIOUS
    <2> QED BY <2>1, SMTT(30)
  <1> QED BY <1>2, <1>3

LEMMA ChainInvariant == Spec => []ChainInv
  <1>1. ChainInv /\ [Next]_vars => ChainInv'
    BY TreeIsFinite, NaturalsAreInductive, NextKeeps
  <1> QED BY <1>1, InitChain, PTL DEF Spec

(* Through pcoinsTip one reads the coins of the chain of its best block,   *)
(* whatever was connected, disconnected, flushed, interrupted and replayed *)
(* before: for any tree of valid blocks and any number of crashes.         *)
THEOREM CoinsAreOfChain == Spec => []CoinsMatchChain
  <1>1. ChainInv => CoinsMatchChain
    <2> SUFFICES ASSUME ChainInv PROVE CoinsMatchChain
      OBVIOUS
    <2>1. TypeOK /\ Control
      BY DEF ChainInv
    <2>2. ASSUME Up PROVE TipCoins = CoinsOf(TipBest) /\ (pc = "idle" => TipBest = active)
      <3>1. TipCoins = CoinsOf(tipBlock)
        BY <2>2, TipReads
      <3>2. tipBlock = NoBlock => pc = "idle" /\ dbBest = NoBlock
        BY <2>1, <2>2 DEF Control, Up
      <3>3. TipBest = tipBlock
        BY <3>2 DEF TipBest
      <3> QED BY <2>1, <3>1, <3>3 DEF Control
    <2>3. pc \in {"replay", "rewind", "idle", "flush", "coins"} <=> Up
      BY DEF Up
    <2>4. pc = "idle" => Up
      BY DEF Up
    <2> QED BY <2>1, <2>2, <2>3, <2>4 DEF CoinsMatchChain
  <1> QED BY <1>1, ChainInvariant, PTL

(* No assertion or logic_error is reached, no disconnect is unclean and no *)
(* start needs a reindex, however often a flush is interrupted.            *)
THEOREM NothingFails == Spec => []NeverStuck
  <1>1. ChainInv => NeverStuck
    BY DEF ChainInv, NeverStuck
  <1> QED BY <1>1, ChainInvariant, PTL

(* Wherever the process stops, the disk says which coins it holds, or      *)
(* between which two blocks, and has the undo data a start needs.          *)
THEOREM DiskRecovers == Spec => []DiskIsRecoverable
  <1>1. ChainInv => DiskIsRecoverable
    <2> SUFFICES ASSUME ChainInv PROVE DiskIsRecoverable
      OBVIOUS
    <2>1. TypeOK /\ UndoInv(index, diskIndex, undo) /\ DiskInv(diskIndex, db, dbBest, dbHeads)
      BY DEF ChainInv
    <2>2. DiskMatchesMark
      BY <2>1 DEF DiskInv, DiskMatchesMark
    <2>3. ASSUME NEW h \in (Range(dbHeads) \cup {dbBest}) \ {NoBlock}
          PROVE  h \in Blocks /\ Undone(diskIndex, h)
      <3>1. CASE dbHeads = <<>>
        <4>1. h = dbBest
          BY <3>1, SMTT(30) DEF Range
        <4> QED BY <2>1, <3>1, <4>1 DEF DiskInv, TypeOK
      <3>2. CASE dbHeads # <<>>
        <4>1. dbBest = NoBlock /\ dbHeads \in (Blocks \cup {NoBlock}) \X (Blocks \cup {NoBlock})
          BY <2>1, <3>2 DEF DiskInv, TypeOK
        <4>2. h \in {dbHeads[1], dbHeads[2]}
          BY <4>1, SMTT(30) DEF Range
        <4> QED BY <2>1, <3>2, <4>2 DEF DiskInv
      <3> QED BY <3>1, <3>2
    <2>4. DurableUndo
      <3> SUFFICES ASSUME NEW h \in (Range(dbHeads) \cup {dbBest}) \ {NoBlock}, NEW b \in Branch[h] \ {Genesis}
                   PROVE  /\ diskIndex[b] = "undo"
                          /\ \A i \in DOMAIN Txs[b] : \A o \in Txs[b][i].in : undo[b][i][o] = CoinsAt[b][i - 1][o]
        BY DEF DurableUndo
      <3>1. b \in Blocks \ {Genesis} /\ diskIndex[b] = "undo"
        BY <2>3, BranchClosed DEF Undone
      <3> QED BY <2>1, <3>1 DEF UndoInv, UndoOf
    <2> QED BY <2>2, <2>4 DEF DiskIsRecoverable
  <1> QED BY <1>1, ChainInvariant, PTL
=============================================================================
