------------------------- MODULE AddressIndexProofs -------------------------
(***************************************************************************)
(* For every tree of valid blocks in which no output to a public key is    *)
(* spent: the three indexes are those of the active chain whenever nothing *)
(* a crash left behind is outstanding.                                     *)
(*                                                                         *)
(* The properties say nothing while something is outstanding, and are not  *)
(* inductive.  The invariant says of every state what is right: the rows   *)
(* are of indexed blocks, with all those of the indexed blocks of the      *)
(* chain; the unspent index tells of every output that no outstanding      *)
(* block makes or spends; and the spent index names the inputs of the      *)
(* indexed blocks of the chain.  Connecting or disconnecting a block       *)
(* rewrites everything that it touches, whatever was there, which is why a *)
(* crash does no lasting harm.                                             *)
(***************************************************************************)
EXTENDS AddressIndex, BlockTreeProofs

(* Undoing the spend of an output to a public key erases the wrong row. *)
KeysUnspent ==
    \A b \in Blocks : \A i \in DOMAIN vtx[b] : \A j \in DOMAIN vin[vtx[b][i]] :
        Output(vin[vtx[b][i]][j]).type # "key"

(* The outputs that a block makes, and those that it spends. *)
Makes(b) == UNION {Outpoints(vtx[b][i]) : i \in DOMAIN vtx[b]}
Spends(b) == UNION {Range(vin[vtx[b][i]]) : i \in DOMAIN vtx[b]}
Touches(b) == Makes(b) \cup Spends(b)
Outputs == UNION {Makes(b) : b \in Blocks \ {Genesis}}

(* On the chain with a tip b: an output is unspent, the height of a        *)
(* transaction, and the unspent index tells both of an output.             *)
IsCoin(b, o) == (\E x \in Chain(b) : o \in Makes(x)) /\ \A x \in Chain(b) : o \notin Spends(x)
HeightOn(b, t) == nHeight[CHOOSE x \in Chain(b) : t \in Range(vtx[x])]
Tells(index, b, o) ==
    /\ UnspentKey(o) \in DOMAIN index <=> IsCoin(b, o)
    /\ IsCoin(b, o) => index[UnspentKey(o)] = HeightOn(b, o[1])

(* The blocks at which the indexes may be out of step with the chain of a  *)
(* tip, for the blocks that are indexed and those that are torn.           *)
Outstanding(ind, tor, top) == (ind \ Chain(top)) \cup (Chain(top) \ ind) \cup tor

(* The rows are of indexed blocks, with all those of the chain. *)
RowsOf(rows, ind, tor, top) ==
    /\ \A r \in rows : \E b \in ind : r \in ConnectRows(b)
    /\ \A b \in (ind \ tor) \cap Chain(top) : ConnectRows(b) \subseteq rows

(* The unspent index tells of each output no outstanding block touches. *)
UnspentOf(index, ind, tor, top) ==
    /\ \A x \in DOMAIN index : \E o \in Outputs : Indexable(o) /\ x = UnspentKey(o)
    /\ \A o \in Outputs :
          Indexable(o) /\ (\A b \in Outstanding(ind, tor, top) : o \notin Touches(b)) => Tells(index, top, o)

(* The spent index names the inputs of the indexed blocks of the chain. *)
SpentOf(index, ind, tor, top) ==
    \A b \in (ind \ tor) \cap Chain(top) : \A i \in DOMAIN vtx[b] : \A j \in DOMAIN vin[vtx[b][i]] :
        /\ vin[vtx[b][i]][j] \in DOMAIN index
        /\ index[vin[vtx[b][i]][j]] = Spender(b, i, j)

(* A block that is indexed, not torn, and on the chain on disk, is on the  *)
(* active chain; one of the active chain that is not indexed is on disk.   *)
ChainsOf(top, disk, ind, tor) ==
    /\ top \in Blocks /\ disk \in Blocks
    /\ ind \subseteq Blocks \ {Genesis} /\ tor \subseteq ind
    /\ (ind \ tor) \cap Chain(disk) \subseteq Chain(top)
    /\ Chain(top) \ ind \subseteq Chain(disk)

IndexInv ==
    /\ crashes \in 0..MaxCrashes
    /\ ChainsOf(tip, flushed, indexed, torn)
    /\ RowsOf(addressIndex, indexed, torn, tip)
    /\ UnspentOf(unspentIndex, indexed, torn, tip)
    /\ SpentOf(spentIndex, indexed, torn, tip)

-----------------------------------------------------------------------------
(* A chain is the one below its tip and the tip, and of valid blocks. *)
LEMMA ChainOfChild ==
  ASSUME NEW b \in Blocks \ {Genesis}
  PROVE  /\ Parent[b] \in Blocks /\ Chain(b) = Chain(Parent[b]) \cup {b}
         /\ b \notin Chain(Parent[b]) /\ b \in Chain(b)
  <1>1. Parent[b] \in Blocks /\ nHeight[b] = nHeight[Parent[b]] + 1 /\ nHeight[Parent[b]] \in Nat
    BY TreeOfBlocks
  <1>2. b \notin Branch[Parent[b]]
    <2> SUFFICES ASSUME b \in Branch[Parent[b]] PROVE FALSE
      OBVIOUS
    <2>1. nHeight[b] <= nHeight[Parent[b]]
      BY <1>1, BranchLower
    <2> QED BY <1>1, <2>1
  <1> QED BY <1>1, <1>2, BranchOfChild, Zenon DEF Chain

LEMMA ChainBlocks ==
  ASSUME NEW b \in Blocks, NEW c \in Chain(b)
  PROVE  c \in Blocks \ {Genesis} /\ Chain(c) \subseteq Chain(b) /\ c \in Chain(c)
  BY BranchTransitive, BranchClosed, Zenon DEF Chain

LEMMA ChainOfGenesis == Chain(Genesis) = {} /\ Genesis \in Blocks
  BY BranchOfGenesis, TreeOfBlocks DEF Chain

(* An output is made by one transaction of a chain, ... *)
LEMMA MadeOnce ==
  ASSUME NEW b \in Blocks, NEW c \in Chain(b), NEW d \in Chain(b), NEW i \in DOMAIN vtx[c], NEW k \in DOMAIN vtx[d],
         NEW o, o \in Outpoints(vtx[c][i]), o \in Outpoints(vtx[d][k])
  PROVE  c = d /\ i = k
  <1>1. PICK n : o = <<vtx[c][i], n>>
    BY DEF Outpoints
  <1>2. PICK m : o = <<vtx[d][k], m>>
    BY DEF Outpoints
  <1>3. vtx[c][i] = vtx[d][k]
    BY <1>1, <1>2, SMT
  <1> QED BY <1>3, BlocksAreValid

LEMMA MadeByOneBlock ==
  ASSUME NEW b \in Blocks, NEW c \in Chain(b), NEW d \in Chain(b), NEW o, o \in Makes(c), o \in Makes(d)
  PROVE  c = d
  <1>1. PICK i \in DOMAIN vtx[c] : o \in Outpoints(vtx[c][i])
    BY Zenon DEF Makes
  <1>2. PICK k \in DOMAIN vtx[d] : o \in Outpoints(vtx[d][k])
    BY Zenon DEF Makes
  <1> QED BY <1>1, <1>2, MadeOnce, Zenon

(* ... and spent by one, ... *)
LEMMA SpentByOneTx ==
  ASSUME NEW b \in Blocks, NEW c \in Chain(b), NEW d \in Chain(b), NEW i \in DOMAIN vtx[c], NEW k \in DOMAIN vtx[d],
         NEW o, o \in Range(vin[vtx[c][i]]), o \in Range(vin[vtx[d][k]])
  PROVE  c = d /\ i = k
  <1>1. PICK j \in DOMAIN vin[vtx[c][i]] : o = vin[vtx[c][i]][j]
    BY Zenon DEF Range
  <1>2. PICK l \in DOMAIN vin[vtx[d][k]] : o = vin[vtx[d][k]][l]
    BY Zenon DEF Range
  <1>3. vin[vtx[c][i]][j] = vin[vtx[d][k]][l]
    BY <1>1, <1>2, Zenon
  <1>4. c = d /\ i = k /\ j = l
    BY <1>3, BlocksAreValid
  <1> QED BY <1>4

LEMMA SpentByOneBlock ==
  ASSUME NEW b \in Blocks, NEW c \in Chain(b), NEW d \in Chain(b), NEW o, o \in Spends(c), o \in Spends(d)
  PROVE  c = d
  <1>1. PICK i \in DOMAIN vtx[c] : o \in Range(vin[vtx[c][i]])
    BY Zenon DEF Spends
  <1>2. PICK k \in DOMAIN vtx[d] : o \in Range(vin[vtx[d][k]])
    BY Zenon DEF Spends
  <1> QED BY <1>1, <1>2, SpentByOneTx

(* ... which comes after the one that makes it. *)
LEMMA SpentAfterMade ==
  ASSUME NEW c \in Blocks \ {Genesis}, NEW i \in DOMAIN vtx[c], NEW o \in Range(vin[vtx[c][i]])
  PROVE  /\ \E d \in Chain(c) : o \in Makes(d)
         /\ \A k \in DOMAIN vtx[c] : o \in Outpoints(vtx[c][k]) => k < i
         /\ o \in Outputs
  <1>1. PICK d \in Chain(c) : \E k \in DOMAIN vtx[d] : o \in Outpoints(vtx[d][k]) /\ (d = c => k < i)
    BY BlocksAreValid
  <1>2. PICK k \in DOMAIN vtx[d] : o \in Outpoints(vtx[d][k]) /\ (d = c => k < i)
    BY <1>1
  <1>3. o \in Makes(d) /\ d \in Blocks \ {Genesis} /\ c \in Chain(c) /\ c \in Blocks
    <2>1. o \in Makes(d)
      BY <1>2, Zenon DEF Makes
    <2> QED BY <2>1, ChainBlocks, ChainOfChild, Zenon
  <1>4. ASSUME NEW m \in DOMAIN vtx[c], o \in Outpoints(vtx[c][m]) PROVE m < i
    <2>1. d = c /\ k = m
      BY <1>2, <1>3, <1>4, MadeOnce, Zenon
    <2> QED BY <1>2, <2>1
  <1> QED BY <1>3, <1>4, Zenon DEF Outputs

(* The key of an output in the unspent index tells it from all others. *)
LEMMA OutputIsPair ==
  ASSUME NEW o \in Outputs
  PROVE  \E t, k : o = <<t, k>> /\ o[1] = t /\ o[2] = k /\ k \in DOMAIN vout[t]
  <1>1. PICK b \in Blocks \ {Genesis} : o \in Makes(b)
    BY Zenon DEF Outputs
  <1>2. PICK t : o \in Outpoints(t)
    BY <1>1, Zenon DEF Makes
  <1>3. PICK k \in DOMAIN vout[t] : o = <<t, k>>
    BY <1>2 DEF Outpoints
  <1> QED BY <1>3

LEMMA KeysDiffer ==
  ASSUME NEW o \in Outputs, NEW p \in Outputs, UnspentKey(o) = UnspentKey(p)
  PROVE  o = p
  <1>1. PICK t, k : o = <<t, k>> /\ o[1] = t /\ o[2] = k
    BY OutputIsPair
  <1>2. PICK u, l : p = <<u, l>> /\ p[1] = u /\ p[2] = l
    BY OutputIsPair
  <1>3. <<Output(o).address, t, k>> = <<Output(p).address, u, l>>
    BY <1>1, <1>2, Zenon DEF UnspentKey
  <1>4. t = u /\ k = l
    BY <1>3, SMT
  <1> QED BY <1>1, <1>2, <1>4

-----------------------------------------------------------------------------
(* A batch leaves a key alone that it does not name, ... *)
LEMMA KeyAlone ==
  ASSUME NEW index, NEW changes, NEW x, \A c \in changes : c.key # x
  PROVE  /\ x \in DOMAIN Updated(index, changes) <=> x \in DOMAIN index
         /\ x \in DOMAIN index => Updated(index, changes)[x] = index[x]
  BY Zenon DEF Updated

(* ... and gives one that it names the value of the last change. *)
LEMMA KeyChanged ==
  ASSUME NEW index, NEW changes, NEW c \in changes, c.place \in Int,
         \A d \in changes : d.key = c.key => /\ d.place \in Int /\ d.place <= c.place
                                             /\ d.place = c.place => d.value = c.value
  PROVE  /\ c.key \in DOMAIN Updated(index, changes) <=> c.value # None
         /\ c.value # None => Updated(index, changes)[c.key] = c.value
  <1> DEFINE l == LastChange(changes, c.key)
  <1>1. l \in changes /\ l.key = c.key /\ \A d \in changes : d.key = c.key => d.place <= l.place
    BY Zenon DEF LastChange
  <1> HIDE DEF l
  <1>2. l.value = c.value
    BY <1>1, SMT
  <1>3. LastChange(changes, c.key).value = c.value
    BY <1>2 DEF l
  <1> QED BY <1>3, Zenon DEF Updated

(* A batch adds no keys but its own. *)
LEMMA KeysOfBatch ==
  ASSUME NEW index, NEW changes, NEW x \in DOMAIN Updated(index, changes)
  PROVE  x \in DOMAIN index \/ \E c \in changes : c.key = x
  BY KeyAlone, Zenon
-----------------------------------------------------------------------------
(* An input of a block erases an output, an output of the block writes one. *)
ErasesAt(b, i, o, d) == o \in Range(vin[vtx[b][i]]) /\ d = Change(2 * i, UnspentKey(o), None)
WritesAt(b, i, o, d) == o \in Outpoints(vtx[b][i]) /\ d = Change(2 * i + 1, UnspentKey(o), nHeight[b])

LEMMA ConnectChange ==
  ASSUME NEW b \in Blocks \ {Genesis}, NEW d \in ConnectUnspent(b)
  PROVE  \E i \in DOMAIN vtx[b] : \E o \in Outputs :
            Indexable(o) /\ d.key = UnspentKey(o) /\ (ErasesAt(b, i, o, d) \/ WritesAt(b, i, o, d))
  <1>1. PICK i \in DOMAIN vtx[b] : d \in ConnectTx(b, i, vtx[b][i])
    BY Zenon DEF ConnectUnspent
  <1>2. CASE d \in {Change(2 * i, UnspentKey(o), None) : o \in Ins(vtx[b][i])}
    <2>1. PICK o \in Ins(vtx[b][i]) : d = Change(2 * i, UnspentKey(o), None)
      BY <1>2, Zenon
    <2>2. Indexable(o) /\ o \in Range(vin[vtx[b][i]])
      BY Zenon DEF Ins
    <2>3. o \in Outputs
      BY <2>2, SpentAfterMade, Zenon
    <2>5. d.key = UnspentKey(o)
      BY <2>1, SMT DEF Change
    <2> QED BY <2>1, <2>2, <2>3, <2>5, Zenon DEF ErasesAt
  <1>3. CASE d \in {Change(2 * i + 1, UnspentKey(o), nHeight[b]) : o \in Outs(vtx[b][i])}
    <2>1. PICK o \in Outs(vtx[b][i]) : d = Change(2 * i + 1, UnspentKey(o), nHeight[b])
      BY <1>3, Zenon
    <2>2. Indexable(o) /\ o \in Outpoints(vtx[b][i])
      BY Zenon DEF Outs
    <2>3. o \in Makes(b)
      BY <2>2, Zenon DEF Makes
    <2>4. o \in Outputs
      BY <2>3, Zenon DEF Outputs
    <2>5. d.key = UnspentKey(o)
      BY <2>1, SMT DEF Change
    <2> QED BY <2>1, <2>2, <2>4, <2>5, Zenon DEF WritesAt
  <1> QED BY <1>1, <1>2, <1>3, Zenon DEF ConnectTx

(* The changes that concern one output. *)
LEMMA ConnectChangeOf ==
  ASSUME NEW b \in Blocks \ {Genesis}, NEW d \in ConnectUnspent(b), NEW o \in Outputs, d.key = UnspentKey(o)
  PROVE  \E i \in DOMAIN vtx[b] : ErasesAt(b, i, o, d) \/ WritesAt(b, i, o, d)
  <1>1. PICK i \in DOMAIN vtx[b] : \E p \in Outputs :
            Indexable(p) /\ d.key = UnspentKey(p) /\ (ErasesAt(b, i, p, d) \/ WritesAt(b, i, p, d))
    BY ConnectChange, Zenon
  <1>2. PICK p \in Outputs : d.key = UnspentKey(p) /\ (ErasesAt(b, i, p, d) \/ WritesAt(b, i, p, d))
    BY <1>1, Zenon
  <1>3. p = o
    BY <1>2, KeysDiffer, Zenon
  <1> QED BY <1>2, <1>3, Zenon

(* Connecting a block erases the outputs that it spends, also its own,     *)
(* writes the others that it makes, and leaves the rest alone.             *)
LEMMA ConnectErases ==
  ASSUME NEW b \in Blocks \ {Genesis}, NEW index, NEW o \in Spends(b), Indexable(o)
  PROVE  UnspentKey(o) \notin DOMAIN Updated(index, ConnectUnspent(b))
  <1>1. PICK i \in DOMAIN vtx[b] : o \in Range(vin[vtx[b][i]])
    BY Zenon DEF Spends
  <1>2. o \in Outputs /\ (\A k \in DOMAIN vtx[b] : o \in Outpoints(vtx[b][k]) => k < i) /\ b \in Chain(b)
    BY <1>1, SpentAfterMade, ChainOfChild, Zenon
  <1>3. i \in Nat /\ \A k \in DOMAIN vtx[b] : k \in Nat
    BY BlocksAreValid
  <1> DEFINE c == Change(2 * i, UnspentKey(o), None)
  <1>4. c \in ConnectUnspent(b)
    <2>1. o \in Ins(vtx[b][i])
      BY <1>1, Zenon DEF Ins
    <2>2. c \in ConnectTx(b, i, vtx[b][i])
      BY <2>1, Zenon DEF ConnectTx
    <2> QED BY <2>2, Zenon DEF ConnectUnspent
  <1>5. c.place = 2 * i /\ c.key = UnspentKey(o) /\ c.value = None
    BY SMT DEF Change
  <1> HIDE DEF c
  <1>6. ASSUME NEW d \in ConnectUnspent(b), d.key = c.key
        PROVE  d.place \in Int /\ d.place <= c.place /\ (d.place = c.place => d.value = c.value)
    <2>1. PICK k \in DOMAIN vtx[b] : ErasesAt(b, k, o, d) \/ WritesAt(b, k, o, d)
      BY <1>2, <1>5, <1>6, ConnectChangeOf, Zenon
    <2>2. CASE ErasesAt(b, k, o, d)
      <3>1. k = i
        BY <1>1, <1>2, <2>2, SpentByOneTx, Zenon DEF ErasesAt
      <3>2. d.place = 2 * i /\ d.value = None
        BY <2>2, <3>1, SMT DEF ErasesAt, Change
      <3> QED BY <1>3, <1>5, <3>2
    <2>3. CASE WritesAt(b, k, o, d)
      <3>1. k < i
        BY <1>2, <2>3, Zenon DEF WritesAt
      <3>2. d.place = 2 * k + 1
        BY <2>3, SMT DEF WritesAt, Change
      <3> QED BY <1>3, <1>5, <3>1, <3>2
    <2> QED BY <2>1, <2>2, <2>3
  <1>7. c.place \in Int
    BY <1>3, <1>5
  <1>8. c.key \in DOMAIN Updated(index, ConnectUnspent(b)) <=> c.value # None
    BY <1>4, <1>6, <1>7, KeyChanged, Zenon
  <1> QED BY <1>5, <1>8

LEMMA ConnectWrites ==
  ASSUME NEW b \in Blocks \ {Genesis}, NEW index, NEW o \in Makes(b), o \notin Spends(b), Indexable(o)
  PROVE  /\ UnspentKey(o) \in DOMAIN Updated(index, ConnectUnspent(b))
         /\ Updated(index, ConnectUnspent(b))[UnspentKey(o)] = nHeight[b]
  <1>1. PICK i \in DOMAIN vtx[b] : o \in Outpoints(vtx[b][i])
    BY Zenon DEF Makes
  <1>2. o \in Outputs /\ b \in Chain(b) /\ nHeight[b] # None
    BY ChainOfChild, TreeOfBlocks, IndexConstants DEF Outputs
  <1>3. i \in Nat
    BY BlocksAreValid
  <1> DEFINE c == Change(2 * i + 1, UnspentKey(o), nHeight[b])
  <1>4. c \in ConnectUnspent(b)
    <2>1. o \in Outs(vtx[b][i])
      BY <1>1, Zenon DEF Outs
    <2>2. c \in ConnectTx(b, i, vtx[b][i])
      BY <2>1, Zenon DEF ConnectTx
    <2> QED BY <2>2, Zenon DEF ConnectUnspent
  <1>5. c.place = 2 * i + 1 /\ c.key = UnspentKey(o) /\ c.value = nHeight[b]
    BY SMT DEF Change
  <1>6. ASSUME NEW d \in ConnectUnspent(b), d.key = c.key PROVE d = c
    <2>1. PICK k \in DOMAIN vtx[b] : ErasesAt(b, k, o, d) \/ WritesAt(b, k, o, d)
      BY <1>2, <1>5, <1>6, ConnectChangeOf, Zenon
    <2>2. ~ ErasesAt(b, k, o, d)
      BY Zenon DEF ErasesAt, Spends
    <2>3. k = i
      BY <1>1, <1>2, <2>1, <2>2, MadeOnce, Zenon DEF WritesAt
    <2> QED BY <2>1, <2>2, <2>3, Zenon DEF WritesAt
  <1> HIDE DEF c
  <1>7. c.place \in Int
    BY <1>3, <1>5
  <1>8. \A d \in ConnectUnspent(b) : d.key = c.key =>
            d.place \in Int /\ d.place <= c.place /\ (d.place = c.place => d.value = c.value)
    BY <1>6, <1>7
  <1>9. /\ c.key \in DOMAIN Updated(index, ConnectUnspent(b)) <=> c.value # None
        /\ c.value # None => Updated(index, ConnectUnspent(b))[c.key] = c.value
    BY <1>4, <1>7, <1>8, KeyChanged, Zenon
  <1> QED BY <1>2, <1>5, <1>9

LEMMA ConnectLeaves ==
  ASSUME NEW b \in Blocks \ {Genesis}, NEW index, NEW o \in Outputs, o \notin Touches(b)
  PROVE  /\ UnspentKey(o) \in DOMAIN Updated(index, ConnectUnspent(b)) <=> UnspentKey(o) \in DOMAIN index
         /\ UnspentKey(o) \in DOMAIN index => Updated(index, ConnectUnspent(b))[UnspentKey(o)] = index[UnspentKey(o)]
  <1>1. ASSUME NEW d \in ConnectUnspent(b), d.key = UnspentKey(o) PROVE FALSE
    <2>1. PICK k \in DOMAIN vtx[b] : ErasesAt(b, k, o, d) \/ WritesAt(b, k, o, d)
      BY <1>1, ConnectChangeOf, Zenon
    <2> QED BY <2>1, Zenon DEF ErasesAt, WritesAt, Touches, Makes, Spends
  <1> QED BY <1>1, KeyAlone, Zenon
-----------------------------------------------------------------------------
(* Undoing a block, an output of it erases and an input restores an output. *)
UnmakesAt(b, i, o, d) == o \in Outpoints(vtx[b][i]) /\ d = Change(-2 * i, UnspentKey(o), None)
RestoresAt(b, i, o, d) == o \in Range(vin[vtx[b][i]]) /\ d = Change(-2 * i + 1, UnspentKey(o), MinedAt(o[1]))

LEMMA RestoredIs ==
  ASSUME KeysUnspent, NEW b \in Blocks, NEW i \in DOMAIN vtx[b], NEW j \in DOMAIN vin[vtx[b][i]]
  PROVE  Restored(-2 * i + 1, vtx[b][i], j)
             = Change(-2 * i + 1, UnspentKey(vin[vtx[b][i]][j]), MinedAt(vin[vtx[b][i]][j][1]))
  BY Zenon DEF Restored, KeysUnspent

LEMMA DisconnectChange ==
  ASSUME KeysUnspent, NEW b \in Blocks \ {Genesis}, NEW d \in DisconnectUnspent(b)
  PROVE  \E i \in DOMAIN vtx[b] : \E o \in Outputs :
            Indexable(o) /\ d.key = UnspentKey(o) /\ (UnmakesAt(b, i, o, d) \/ RestoresAt(b, i, o, d))
  <1>1. PICK i \in DOMAIN vtx[b] : d \in DisconnectTx(-2 * i, vtx[b][i])
    BY Zenon DEF DisconnectUnspent
  <1> DEFINE t == vtx[b][i]
  <1>2. CASE d \in {Change(-2 * i, UnspentKey(o), None) : o \in Outs(t)}
    <2>1. PICK o \in Outs(t) : d = Change(-2 * i, UnspentKey(o), None)
      BY <1>2, Zenon
    <2>2. Indexable(o) /\ o \in Outpoints(t)
      BY Zenon DEF Outs
    <2>3. o \in Makes(b)
      BY <2>2, Zenon DEF Makes
    <2>4. o \in Outputs
      BY <2>3, Zenon DEF Outputs
    <2>5. d.key = UnspentKey(o)
      BY <2>1, SMT DEF Change
    <2> QED BY <2>1, <2>2, <2>4, <2>5, Zenon DEF UnmakesAt
  <1>3. CASE d \in {Restored(-2 * i + 1, t, j) : j \in {j \in DOMAIN vin[t] : Indexable(vin[t][j])}}
    <2>1. PICK j \in DOMAIN vin[t] : Indexable(vin[t][j]) /\ d = Restored(-2 * i + 1, t, j)
      BY <1>3, Zenon
    <2>2. d = Change(-2 * i + 1, UnspentKey(vin[t][j]), MinedAt(vin[t][j][1]))
      BY <2>1, RestoredIs, Zenon
    <2>3. vin[t][j] \in Range(vin[t])
      BY Zenon DEF Range
    <2>4. vin[t][j] \in Outputs
      BY <2>3, SpentAfterMade, Zenon
    <2>5. d.key = UnspentKey(vin[t][j])
      BY <2>2, SMT DEF Change
    <2> QED BY <2>1, <2>2, <2>3, <2>4, <2>5, Zenon DEF RestoresAt
  <1> QED BY <1>1, <1>2, <1>3, Zenon DEF DisconnectTx

LEMMA DisconnectChangeOf ==
  ASSUME KeysUnspent, NEW b \in Blocks \ {Genesis}, NEW d \in DisconnectUnspent(b), NEW o \in Outputs,
         d.key = UnspentKey(o)
  PROVE  \E i \in DOMAIN vtx[b] : UnmakesAt(b, i, o, d) \/ RestoresAt(b, i, o, d)
  <1>1. PICK i \in DOMAIN vtx[b] : \E p \in Outputs :
            Indexable(p) /\ d.key = UnspentKey(p) /\ (UnmakesAt(b, i, p, d) \/ RestoresAt(b, i, p, d))
    BY DisconnectChange, Zenon
  <1>2. PICK p \in Outputs : d.key = UnspentKey(p) /\ (UnmakesAt(b, i, p, d) \/ RestoresAt(b, i, p, d))
    BY <1>1, Zenon
  <1>3. p = o
    BY <1>2, KeysDiffer, Zenon
  <1> QED BY <1>2, <1>3, Zenon

(* Disconnecting a block erases the outputs that it makes, also those that *)
(* it spends, restores the others that it spends, and no more.             *)
LEMMA DisconnectErases ==
  ASSUME KeysUnspent, NEW b \in Blocks \ {Genesis}, NEW index, NEW o \in Makes(b), Indexable(o)
  PROVE  UnspentKey(o) \notin DOMAIN Updated(index, DisconnectUnspent(b))
  <1>1. PICK i \in DOMAIN vtx[b] : o \in Outpoints(vtx[b][i])
    BY Zenon DEF Makes
  <1>2. o \in Outputs /\ b \in Chain(b)
    <2>1. b \in Chain(b)
      BY ChainOfChild, Zenon
    <2> QED BY <1>1, <2>1, ZenonT(60) DEF Outputs
  <1>3. i \in Nat /\ \A k \in DOMAIN vtx[b] : k \in Nat
    BY BlocksAreValid
  <1> DEFINE c == Change(-2 * i, UnspentKey(o), None)
  <1>4. c \in DisconnectUnspent(b)
    <2>1. o \in Outs(vtx[b][i])
      BY <1>1, Zenon DEF Outs
    <2>2. c \in DisconnectTx(-2 * i, vtx[b][i])
      BY <2>1, Zenon DEF DisconnectTx
    <2> QED BY <2>2, Zenon DEF DisconnectUnspent
  <1>5. c.place = -2 * i /\ c.key = UnspentKey(o) /\ c.value = None
    BY SMT DEF Change
  <1> HIDE DEF c
  <1>6. ASSUME NEW d \in DisconnectUnspent(b), d.key = c.key
        PROVE  d.place \in Int /\ d.place <= c.place /\ (d.place = c.place => d.value = c.value)
    <2>1. PICK k \in DOMAIN vtx[b] : UnmakesAt(b, k, o, d) \/ RestoresAt(b, k, o, d)
      BY <1>2, <1>5, <1>6, DisconnectChangeOf, Zenon
    <2>2. CASE UnmakesAt(b, k, o, d)
      <3>1. k = i
        BY <1>1, <1>2, <2>2, MadeOnce, Zenon DEF UnmakesAt
      <3>2. d.place = -2 * i /\ d.value = None
        BY <2>2, <3>1, SMT DEF UnmakesAt, Change
      <3> QED BY <1>3, <1>5, <3>2
    <2>3. CASE RestoresAt(b, k, o, d)
      <3>1. i < k
        BY <1>1, <2>3, SpentAfterMade, Zenon DEF RestoresAt
      <3>2. d.place = -2 * k + 1
        BY <2>3, SMT DEF RestoresAt, Change
      <3> QED BY <1>3, <1>5, <3>1, <3>2
    <2> QED BY <2>1, <2>2, <2>3
  <1>7. c.place \in Int
    BY <1>3, <1>5
  <1>8. c.key \in DOMAIN Updated(index, DisconnectUnspent(b)) <=> c.value # None
    BY <1>4, <1>6, <1>7, KeyChanged, Zenon
  <1> QED BY <1>5, <1>8

LEMMA DisconnectRestores ==
  ASSUME KeysUnspent, NEW b \in Blocks \ {Genesis}, NEW index, NEW o \in Spends(b), o \notin Makes(b), Indexable(o),
         MinedAt(o[1]) # None
  PROVE  /\ UnspentKey(o) \in DOMAIN Updated(index, DisconnectUnspent(b))
         /\ Updated(index, DisconnectUnspent(b))[UnspentKey(o)] = MinedAt(o[1])
  <1>1. PICK i \in DOMAIN vtx[b] : o \in Range(vin[vtx[b][i]])
    BY Zenon DEF Spends
  <1>2. o \in Outputs /\ b \in Chain(b)
    BY <1>1, SpentAfterMade, ChainOfChild, Zenon
  <1>3. i \in Nat
    BY BlocksAreValid
  <1> DEFINE c == Change(-2 * i + 1, UnspentKey(o), MinedAt(o[1]))
  <1>4. c \in DisconnectUnspent(b)
    <2>1. PICK j \in DOMAIN vin[vtx[b][i]] : o = vin[vtx[b][i]][j]
      BY <1>1, Zenon DEF Range
    <2>2. c = Restored(-2 * i + 1, vtx[b][i], j)
      BY <2>1, RestoredIs, Zenon
    <2>3. c \in DisconnectTx(-2 * i, vtx[b][i])
      BY <2>1, <2>2, Zenon DEF DisconnectTx
    <2> QED BY <2>3, Zenon DEF DisconnectUnspent
  <1>5. c.place = -2 * i + 1 /\ c.key = UnspentKey(o) /\ c.value = MinedAt(o[1])
    BY SMT DEF Change
  <1>6. ASSUME NEW d \in DisconnectUnspent(b), d.key = c.key PROVE d = c
    <2>1. PICK k \in DOMAIN vtx[b] : UnmakesAt(b, k, o, d) \/ RestoresAt(b, k, o, d)
      BY <1>2, <1>5, <1>6, DisconnectChangeOf, Zenon
    <2>2. ~ UnmakesAt(b, k, o, d)
      BY Zenon DEF UnmakesAt, Makes
    <2>3. k = i
      BY <1>1, <1>2, <2>1, <2>2, SpentByOneTx, Zenon DEF RestoresAt
    <2> QED BY <2>1, <2>2, <2>3, Zenon DEF RestoresAt
  <1> HIDE DEF c
  <1>7. c.place \in Int
    BY <1>3, <1>5
  <1>8. \A d \in DisconnectUnspent(b) : d.key = c.key =>
            d.place \in Int /\ d.place <= c.place /\ (d.place = c.place => d.value = c.value)
    BY <1>6, <1>7
  <1>9. /\ c.key \in DOMAIN Updated(index, DisconnectUnspent(b)) <=> c.value # None
        /\ c.value # None => Updated(index, DisconnectUnspent(b))[c.key] = c.value
    BY <1>4, <1>7, <1>8, KeyChanged, Zenon
  <1> QED BY <1>5, <1>9

LEMMA DisconnectLeaves ==
  ASSUME KeysUnspent, NEW b \in Blocks \ {Genesis}, NEW index, NEW o \in Outputs, o \notin Touches(b)
  PROVE  /\ UnspentKey(o) \in DOMAIN Updated(index, DisconnectUnspent(b)) <=> UnspentKey(o) \in DOMAIN index
         /\ UnspentKey(o) \in DOMAIN index => Updated(index, DisconnectUnspent(b))[UnspentKey(o)] = index[UnspentKey(o)]
  <1>1. ASSUME NEW d \in DisconnectUnspent(b), d.key = UnspentKey(o) PROVE FALSE
    <2>1. PICK k \in DOMAIN vtx[b] : UnmakesAt(b, k, o, d) \/ RestoresAt(b, k, o, d)
      BY <1>1, DisconnectChangeOf, Zenon
    <2> QED BY <2>1, Zenon DEF UnmakesAt, RestoresAt, Touches, Makes, Spends
  <1> QED BY <1>1, KeyAlone, Zenon
-----------------------------------------------------------------------------
(* The height of a transaction on a chain, and of an output, is the one of *)
(* the block that has it.                                                  *)
LEMMA TxHeight ==
  ASSUME NEW b \in Blocks, NEW x \in Chain(b), NEW i \in DOMAIN vtx[x]
  PROVE  HeightOn(b, vtx[x][i]) = nHeight[x]
  <1> DEFINE y == CHOOSE y \in Chain(b) : vtx[x][i] \in Range(vtx[y])
  <1>1. vtx[x][i] \in Range(vtx[x])
    BY Zenon DEF Range
  <1>2. y \in Chain(b) /\ vtx[x][i] \in Range(vtx[y])
    BY <1>1, Zenon
  <1>3. HeightOn(b, vtx[x][i]) = nHeight[y]
    BY Zenon DEF HeightOn
  <1> HIDE DEF y
  <1>4. PICK k \in DOMAIN vtx[y] : vtx[x][i] = vtx[y][k]
    BY <1>2, Zenon DEF Range
  <1>5. y = x
    BY <1>2, <1>4, BlocksAreValid, SMT
  <1> QED BY <1>3, <1>5

LEMMA HeightOnIs ==
  ASSUME NEW b \in Blocks, NEW x \in Chain(b), NEW o \in Makes(x)
  PROVE  HeightOn(b, o[1]) = nHeight[x] /\ HeightOn(b, o[1]) \in Nat
  <1>1. PICK i \in DOMAIN vtx[x] : o \in Outpoints(vtx[x][i])
    BY Zenon DEF Makes
  <1>2. PICK n : o = <<vtx[x][i], n>>
    BY <1>1, Zenon DEF Outpoints
  <1>3. o[1] = vtx[x][i]
    BY <1>2, SMT
  <1>4. nHeight[x] \in Nat
    BY ChainBlocks, TreeOfBlocks
  <1> QED BY <1>3, <1>4, TxHeight

(* What a block does to the coins of the chain below it. *)
LEMMA CoinSteps ==
  ASSUME NEW b \in Blocks \ {Genesis}, NEW o
  PROVE  /\ o \in Spends(b) => ~ IsCoin(b, o) /\ (o \notin Makes(b) => IsCoin(Parent[b], o))
         /\ o \in Makes(b) => ~ IsCoin(Parent[b], o) /\ (o \notin Spends(b) => IsCoin(b, o))
         /\ o \notin Touches(b) => (IsCoin(b, o) <=> IsCoin(Parent[b], o))
         /\ IsCoin(Parent[b], o) => HeightOn(Parent[b], o[1]) = HeightOn(b, o[1])
  <1>1. /\ Parent[b] \in Blocks /\ Chain(b) = Chain(Parent[b]) \cup {b}
        /\ b \notin Chain(Parent[b]) /\ b \in Chain(b) /\ b \in Blocks
    BY ChainOfChild, Zenon
  <1>2. ASSUME o \in Spends(b), o \notin Makes(b) PROVE IsCoin(Parent[b], o)
    <2>1. PICK i \in DOMAIN vtx[b] : o \in Range(vin[vtx[b][i]])
      BY <1>2, Zenon DEF Spends
    <2>2. PICK d \in Chain(b) : o \in Makes(d)
      BY <2>1, SpentAfterMade, Zenon
    <2>3. d \in Chain(Parent[b])
      BY <1>1, <1>2, <2>2, Zenon
    <2>4. \A x \in Chain(Parent[b]) : o \notin Spends(x)
      BY <1>1, <1>2, SpentByOneBlock, Zenon
    <2> QED BY <2>2, <2>3, <2>4, Zenon DEF IsCoin
  <1>3. ASSUME o \in Makes(b) PROVE ~ IsCoin(Parent[b], o)
    BY <1>1, <1>3, MadeByOneBlock, Zenon DEF IsCoin
  <1>4. ASSUME o \in Makes(b), o \notin Spends(b) PROVE IsCoin(b, o)
    <2>1. ASSUME NEW x \in Chain(b), o \in Spends(x) PROVE FALSE
      <3>1. x \in Chain(Parent[b]) /\ x \in Blocks \ {Genesis} /\ Chain(x) \subseteq Chain(Parent[b])
        BY <1>1, <1>4, <2>1, ChainBlocks, Zenon
      <3>2. PICK i \in DOMAIN vtx[x] : o \in Range(vin[vtx[x][i]])
        BY <2>1, Zenon DEF Spends
      <3>3. PICK d \in Chain(x) : o \in Makes(d)
        BY <3>1, <3>2, SpentAfterMade, Zenon
      <3>4. d \in Chain(b) /\ d # b
        BY <1>1, <3>1, Zenon
      <3> QED BY <1>1, <1>4, <3>3, <3>4, MadeByOneBlock, Zenon
    <2> QED BY <1>1, <1>4, <2>1, Zenon DEF IsCoin
  <1>5. o \in Spends(b) => ~ IsCoin(b, o)
    BY <1>1, Zenon DEF IsCoin
  <1>6. o \notin Touches(b) => (IsCoin(b, o) <=> IsCoin(Parent[b], o))
    BY <1>1, Zenon DEF IsCoin, Touches
  <1>7. ASSUME IsCoin(Parent[b], o) PROVE HeightOn(Parent[b], o[1]) = HeightOn(b, o[1])
    <2>1. PICK x \in Chain(Parent[b]) : o \in Makes(x)
      BY <1>7, Zenon DEF IsCoin
    <2>2. HeightOn(Parent[b], o[1]) = nHeight[x] /\ HeightOn(b, o[1]) = nHeight[x]
      BY <1>1, <2>1, HeightOnIs, Zenon
    <2> QED BY <2>2
  <1> QED BY <1>2, <1>3, <1>4, <1>5, <1>6, <1>7, Zenon

(* Connecting a block makes the index tell of every output that the block  *)
(* touches, whatever it told before, and it goes on telling of the others. *)
LEMMA TellsConnected ==
  ASSUME NEW b \in Blocks \ {Genesis}, NEW index, NEW o \in Outputs, Indexable(o),
         o \in Touches(b) \/ Tells(index, Parent[b], o)
  PROVE  Tells(Updated(index, ConnectUnspent(b)), b, o)
  <1>1. b \in Chain(b) /\ b \in Blocks
    BY ChainOfChild, Zenon
  <1>2. CASE o \in Spends(b)
    BY <1>2, ConnectErases, CoinSteps, Zenon DEF Tells
  <1>3. CASE o \in Makes(b) /\ o \notin Spends(b)
    <2>1. IsCoin(b, o) /\ HeightOn(b, o[1]) = nHeight[b]
      BY <1>1, <1>3, CoinSteps, HeightOnIs, Zenon
    <2> QED BY <1>3, <2>1, ConnectWrites, Zenon DEF Tells
  <1>4. CASE o \notin Touches(b)
    <2>1. (IsCoin(b, o) <=> IsCoin(Parent[b], o)) /\ (IsCoin(b, o) => HeightOn(Parent[b], o[1]) = HeightOn(b, o[1]))
      BY <1>4, CoinSteps, Zenon
    <2> QED BY <1>4, <2>1, ConnectLeaves, Zenon DEF Tells
  <1> QED BY <1>2, <1>3, <1>4, Zenon DEF Touches

(* So does disconnecting the tip. *)
LEMMA TellsDisconnected ==
  ASSUME KeysUnspent, tip \in Blocks \ {Genesis}, NEW index, NEW o \in Outputs, Indexable(o),
         o \in Touches(tip) \/ Tells(index, tip, o)
  PROVE  Tells(Updated(index, DisconnectUnspent(tip)), Parent[tip], o)
  <1>1. CASE o \in Makes(tip)
    BY <1>1, DisconnectErases, CoinSteps, Zenon DEF Tells
  <1>2. CASE o \in Spends(tip) /\ o \notin Makes(tip)
    <2>1. IsCoin(Parent[tip], o) /\ HeightOn(Parent[tip], o[1]) = HeightOn(tip, o[1]) /\ Parent[tip] \in Blocks
      BY <1>2, CoinSteps, ChainOfChild, Zenon
    <2>2. PICK x \in Chain(Parent[tip]) : o \in Makes(x)
      BY <2>1, Zenon DEF IsCoin
    <2>3. MinedAt(o[1]) = HeightOn(tip, o[1])
      BY Zenon DEF MinedAt, HeightOn, chainActive
    <2>4. HeightOn(Parent[tip], o[1]) \in Nat
      BY <2>1, <2>2, HeightOnIs, Zenon
    <2>5. MinedAt(o[1]) # None
      BY <2>1, <2>3, <2>4, IndexConstants
    <2> QED BY <1>2, <2>1, <2>3, <2>5, DisconnectRestores, Zenon DEF Tells
  <1>3. CASE o \notin Touches(tip)
    <2>1. (IsCoin(tip, o) <=> IsCoin(Parent[tip], o)) /\ (IsCoin(Parent[tip], o) => HeightOn(Parent[tip], o[1]) = HeightOn(tip, o[1]))
      BY <1>3, CoinSteps, Zenon
    <2> QED BY <1>3, <2>1, DisconnectLeaves, Zenon DEF Tells
  <1> QED BY <1>1, <1>2, <1>3, Zenon DEF Touches

(* An index that tells of an output on one chain tells of it on another,   *)
(* when no block that is on one of them only touches it.                   *)
LEMMA TellsElsewhere ==
  ASSUME NEW c \in Blocks, NEW d \in Blocks, NEW index, NEW o,
         \A x \in (Chain(c) \ Chain(d)) \cup (Chain(d) \ Chain(c)) : o \notin Touches(x), Tells(index, c, o)
  PROVE  Tells(index, d, o)
  <1>1. IsCoin(c, o) <=> IsCoin(d, o)
    BY Zenon DEF IsCoin, Touches
  <1>2. ASSUME IsCoin(c, o) PROVE HeightOn(c, o[1]) = HeightOn(d, o[1])
    <2>1. PICK x \in Chain(c) : o \in Makes(x)
      BY <1>2, Zenon DEF IsCoin
    <2>2. x \in Chain(d)
      BY <2>1, Zenon DEF Touches
    <2>3. HeightOn(c, o[1]) = nHeight[x] /\ HeightOn(d, o[1]) = nHeight[x]
      BY <2>1, <2>2, HeightOnIs, Zenon
    <2> QED BY <2>3
  <1> QED BY <1>1, <1>2, Zenon DEF Tells
-----------------------------------------------------------------------------
(* The key of a row has the height of its block (CAddressIndexKey). *)
LEMMA RowHeights ==
  ASSUME NEW b
  PROVE  /\ \A r \in ConnectRows(b) : r[2] = nHeight[b]
         /\ \A r \in DisconnectRows(b) : r[2] = nHeight[b]
  <1>1. ASSUME NEW i, NEW t, NEW r \in Received(b, i, t) PROVE r[2] = nHeight[b]
    <2>1. PICK k \in DOMAIN vout[t] : r = <<vout[t][k].address, nHeight[b], i, t, k, FALSE>>
      BY Zenon DEF Received
    <2> QED BY <2>1
  <1>2. ASSUME NEW i, NEW t, NEW r \in Spending(b, i, t) PROVE r[2] = nHeight[b]
    <2>1. PICK j \in DOMAIN vin[t] : r = <<Output(vin[t][j]).address, nHeight[b], i, t, j, TRUE>>
      BY Zenon DEF Spending
    <2> QED BY <2>1
  <1>3. ASSUME NEW i, NEW t, NEW r \in SpendingUndone(b, i, t) PROVE r[2] = nHeight[b]
    BY DEF SpendingUndone
  <1>4. ASSUME NEW r \in ConnectRows(b) PROVE r[2] = nHeight[b]
    <2>1. PICK i \in DOMAIN vtx[b] : r \in Received(b, i, vtx[b][i]) \cup Spending(b, i, vtx[b][i])
      BY DEF ConnectRows
    <2> QED BY <1>1, <1>2, <2>1
  <1>5. ASSUME NEW r \in DisconnectRows(b) PROVE r[2] = nHeight[b]
    <2>1. PICK i \in DOMAIN vtx[b] : r \in Received(b, i, vtx[b][i]) \cup SpendingUndone(b, i, vtx[b][i])
      BY DEF DisconnectRows
    <2> QED BY <1>1, <1>3, <2>1
  <1> QED BY <1>4, <1>5

(* Disconnecting a block erases what connecting it wrote. *)
LEMMA RowsUndone ==
  ASSUME KeysUnspent, NEW b \in Blocks
  PROVE  DisconnectRows(b) = ConnectRows(b)
  <1>1. ASSUME NEW i \in DOMAIN vtx[b]
        PROVE  SpendingUndone(b, i, vtx[b][i]) = Spending(b, i, vtx[b][i])
    BY ZenonT(40) DEF KeysUnspent, SpendingUndone, Spending
  <1> QED BY <1>1 DEF ConnectRows, DisconnectRows

(* Two blocks of a chain have no row in common. *)
LEMMA RowsDiffer ==
  ASSUME NEW b \in Blocks, NEW c \in Chain(b), NEW d \in Chain(b), c # d
  PROVE  ConnectRows(c) \cap DisconnectRows(d) = {}
  <1>1. nHeight[c] # nHeight[d]
    BY BranchHeights, Zenon DEF Chain
  <1> QED BY <1>1, RowHeights

(* How connecting a block, disconnecting the tip and a crash keep the rows. *)
LEMMA RowsConnected ==
  ASSUME NEW b \in Blocks \ {Genesis}, NEW rows, NEW ind, NEW tor, RowsOf(rows, ind, tor, Parent[b])
  PROVE  RowsOf(rows \cup ConnectRows(b), ind \cup {b}, tor \ {b}, b)
  <1>1. Chain(b) = Chain(Parent[b]) \cup {b}
    BY ChainOfChild, Zenon
  <1> QED BY <1>1, Zenon DEF RowsOf

LEMMA RowsDisconnected ==
  ASSUME KeysUnspent, NEW b \in Blocks \ {Genesis}, NEW rows, NEW ind, NEW tor, RowsOf(rows, ind, tor, b)
  PROVE  RowsOf(rows \ DisconnectRows(b), ind \ {b}, tor \ {b}, Parent[b])
  <1>1. Chain(b) = Chain(Parent[b]) \cup {b} /\ b \notin Chain(Parent[b]) /\ b \in Chain(b) /\ b \in Blocks
    BY ChainOfChild, Zenon
  <1>2. \A r \in rows \ DisconnectRows(b) : \E c \in ind \ {b} : r \in ConnectRows(c)
    BY <1>1, RowsUndone, Zenon DEF RowsOf
  <1>3. ASSUME NEW c \in ((ind \ {b}) \ (tor \ {b})) \cap Chain(Parent[b])
        PROVE  ConnectRows(c) \subseteq rows \ DisconnectRows(b)
    <2>1. c \in (ind \ tor) \cap Chain(b) /\ c # b
      BY <1>1, Zenon
    <2>2. ConnectRows(c) \subseteq rows
      BY <2>1, Zenon DEF RowsOf
    <2> QED BY <1>1, <2>1, <2>2, RowsDiffer, Zenon
  <1> QED BY <1>2, <1>3, Zenon DEF RowsOf

LEMMA RowsCrashed ==
  ASSUME NEW b, NEW c \in Blocks, NEW d \in Blocks, NEW rows, NEW ind, NEW tor, NEW rows2, NEW ind2, NEW tor2,
         RowsOf(rows, ind, tor, c), (ind \ tor) \cap Chain(d) \subseteq Chain(c),
         \/ rows2 = rows /\ ind2 = ind /\ tor2 = tor
         \/ rows2 = rows \cup ConnectRows(b) /\ ind2 = ind \cup {b} /\ tor2 = tor \cup {b}
         \/ b \in Chain(c) /\ rows2 = rows \ DisconnectRows(b) /\ ind2 = ind \cup {b} /\ tor2 = tor \cup {b}
  PROVE  RowsOf(rows2, ind2, tor2, d)
  <1>1. \A r \in rows2 : \E x \in ind2 : r \in ConnectRows(x)
    BY Zenon DEF RowsOf
  <1>2. ASSUME NEW x \in (ind2 \ tor2) \cap Chain(d) PROVE ConnectRows(x) \subseteq rows2
    <2>1. x \in (ind \ tor) \cap Chain(c)
      BY Zenon
    <2>2. ConnectRows(x) \subseteq rows
      BY <2>1, Zenon DEF RowsOf
    <2>3. b \in Chain(c) /\ tor2 = tor \cup {b} => ConnectRows(x) \cap DisconnectRows(b) = {}
      BY <2>1, RowsDiffer, Zenon
    <2> QED BY <2>2, <2>3, Zenon
  <1> QED BY <1>1, <1>2, Zenon DEF RowsOf

-----------------------------------------------------------------------------
(* How they keep the unspent index. *)
LEMMA UnspentConnected ==
  ASSUME NEW b \in Blocks \ {Genesis}, NEW index, NEW ind, NEW tor, UnspentOf(index, ind, tor, Parent[b])
  PROVE  UnspentOf(Updated(index, ConnectUnspent(b)), ind \cup {b}, tor \ {b}, b)
  <1>1. Chain(b) = Chain(Parent[b]) \cup {b} /\ b \notin Chain(Parent[b])
    BY ChainOfChild, Zenon
  <1>2. Outstanding(ind, tor, Parent[b]) \subseteq Outstanding(ind \cup {b}, tor \ {b}, b) \cup {b}
    BY <1>1, Zenon DEF Outstanding
  <1>3. ASSUME NEW x \in DOMAIN Updated(index, ConnectUnspent(b))
        PROVE  \E o \in Outputs : Indexable(o) /\ x = UnspentKey(o)
    <2>1. x \in DOMAIN index \/ \E d \in ConnectUnspent(b) : d.key = x
      BY KeysOfBatch, Zenon
    <2>2. ASSUME NEW d \in ConnectUnspent(b), d.key = x
          PROVE  \E o \in Outputs : Indexable(o) /\ x = UnspentKey(o)
      BY <2>2, ConnectChange, Zenon
    <2>3. x \in DOMAIN index => \E o \in Outputs : Indexable(o) /\ x = UnspentKey(o)
      BY Zenon DEF UnspentOf
    <2> QED BY <2>1, <2>2, <2>3, Zenon
  <1>4. ASSUME NEW o \in Outputs, Indexable(o), \A c \in Outstanding(ind \cup {b}, tor \ {b}, b) : o \notin Touches(c)
        PROVE  Tells(Updated(index, ConnectUnspent(b)), b, o)
    <2>1. o \in Touches(b) \/ Tells(index, Parent[b], o)
      BY <1>2, <1>4, Zenon DEF UnspentOf
    <2> QED BY <1>4, <2>1, TellsConnected, Zenon
  <1> QED BY <1>3, <1>4, Zenon DEF UnspentOf

LEMMA UnspentDisconnected ==
  ASSUME KeysUnspent, tip \in Blocks \ {Genesis}, NEW index, NEW ind, NEW tor, UnspentOf(index, ind, tor, tip)
  PROVE  UnspentOf(Updated(index, DisconnectUnspent(tip)), ind \ {tip}, tor \ {tip}, Parent[tip])
  <1>1. Chain(tip) = Chain(Parent[tip]) \cup {tip} /\ tip \notin Chain(Parent[tip])
    BY ChainOfChild, Zenon
  <1>2. Outstanding(ind, tor, tip) \subseteq Outstanding(ind \ {tip}, tor \ {tip}, Parent[tip]) \cup {tip}
    BY <1>1, Zenon DEF Outstanding
  <1>3. ASSUME NEW x \in DOMAIN Updated(index, DisconnectUnspent(tip))
        PROVE  \E o \in Outputs : Indexable(o) /\ x = UnspentKey(o)
    <2>1. x \in DOMAIN index \/ \E d \in DisconnectUnspent(tip) : d.key = x
      BY KeysOfBatch, Zenon
    <2>2. ASSUME NEW d \in DisconnectUnspent(tip), d.key = x
          PROVE  \E o \in Outputs : Indexable(o) /\ x = UnspentKey(o)
      BY <2>2, DisconnectChange, Zenon
    <2>3. x \in DOMAIN index => \E o \in Outputs : Indexable(o) /\ x = UnspentKey(o)
      BY Zenon DEF UnspentOf
    <2> QED BY <2>1, <2>2, <2>3, Zenon
  <1>4. ASSUME NEW o \in Outputs, Indexable(o),
               \A c \in Outstanding(ind \ {tip}, tor \ {tip}, Parent[tip]) : o \notin Touches(c)
        PROVE  Tells(Updated(index, DisconnectUnspent(tip)), Parent[tip], o)
    <2>1. o \in Touches(tip) \/ Tells(index, tip, o)
      BY <1>2, <1>4, Zenon DEF UnspentOf
    <2> QED BY <1>4, <2>1, TellsDisconnected, Zenon
  <1> QED BY <1>3, <1>4, Zenon DEF UnspentOf

LEMMA UnspentCrashed ==
  ASSUME NEW b \in Blocks \ {Genesis}, NEW c \in Blocks, NEW d \in Blocks, NEW index, NEW ind, NEW tor,
         NEW index2, NEW ind2, NEW tor2, UnspentOf(index, ind, tor, c),
         (ind \ tor) \cap Chain(d) \subseteq Chain(c), Chain(c) \ ind \subseteq Chain(d),
         \/ index2 = index /\ ind2 = ind /\ tor2 = tor
         \/ /\ index2 \in {index, Updated(index, ConnectUnspent(b))}
            /\ ind2 = ind \cup {b} /\ tor2 = tor \cup {b}
  PROVE  UnspentOf(index2, ind2, tor2, d)
  <1>1. ASSUME NEW x \in DOMAIN index2 PROVE \E o \in Outputs : Indexable(o) /\ x = UnspentKey(o)
    <2>1. x \in DOMAIN index \/ \E e \in ConnectUnspent(b) : e.key = x
      BY KeysOfBatch, Zenon
    <2>2. ASSUME NEW e \in ConnectUnspent(b), e.key = x
          PROVE  \E o \in Outputs : Indexable(o) /\ x = UnspentKey(o)
      BY <2>2, ConnectChange, Zenon
    <2>3. x \in DOMAIN index => \E o \in Outputs : Indexable(o) /\ x = UnspentKey(o)
      BY Zenon DEF UnspentOf
    <2> QED BY <2>1, <2>2, <2>3, Zenon
  <1>2. ASSUME NEW o \in Outputs, Indexable(o), \A x \in Outstanding(ind2, tor2, d) : o \notin Touches(x)
        PROVE  Tells(index2, d, o)
    <2>1. Outstanding(ind, tor, c) \cup (Chain(c) \ Chain(d)) \cup (Chain(d) \ Chain(c)) \subseteq Outstanding(ind2, tor2, d)
      BY Zenon DEF Outstanding
    <2>2. Tells(index, c, o)
      BY <1>2, <2>1, Zenon DEF UnspentOf
    <2>3. Tells(index, d, o)
      BY <1>2, <2>1, <2>2, TellsElsewhere, Zenon
    <2>4. index2 = index \/ (index2 = Updated(index, ConnectUnspent(b)) /\ o \notin Touches(b))
      BY <1>2, Zenon DEF Outstanding
    <2>5. CASE o \notin Touches(b) /\ index2 = Updated(index, ConnectUnspent(b))
      BY <2>3, <2>5, ConnectLeaves, Zenon DEF Tells
    <2> QED BY <2>3, <2>4, <2>5, Zenon
  <1> QED BY <1>1, <1>2, Zenon DEF UnspentOf

(* No output is spent by both blocks, or twice by one.                     *)
SpendApart(c, d) ==
    \A i \in DOMAIN vtx[c], k \in DOMAIN vtx[d] : \A j \in DOMAIN vin[vtx[c][i]], l \in DOMAIN vin[vtx[d][k]] :
        vin[vtx[c][i]][j] = vin[vtx[d][k]][l] => c = d /\ i = k /\ j = l

(* A chain spends an output once.                                          *)
LEMMA SpentOnce ==
  ASSUME NEW b \in Blocks
  PROVE  \A c, d \in Chain(b) : SpendApart(c, d)
  <1> SUFFICES ASSUME NEW c \in Chain(b), NEW d \in Chain(b), NEW i \in DOMAIN vtx[c], NEW k \in DOMAIN vtx[d]
               PROVE  \A j \in DOMAIN vin[vtx[c][i]], l \in DOMAIN vin[vtx[d][k]] :
                         vin[vtx[c][i]][j] = vin[vtx[d][k]][l] => c = d /\ i = k /\ j = l
    BY Zenon DEF SpendApart
  <1>1. \A n \in DOMAIN vtx[d] :
          \A j \in DOMAIN vin[vtx[c][i]], l \in DOMAIN vin[vtx[d][n]] :
            vin[vtx[c][i]][j] = vin[vtx[d][n]][l] => c = d /\ i = n /\ j = l
    BY BlocksAreValid, SMT
  <1> QED BY <1>1, SMT

-----------------------------------------------------------------------------
(* And the spent index: no other block of the chain spends what a block of *)
(* the chain spends.                                                       *)
LEMMA SpentConnected ==
  ASSUME NEW b \in Blocks \ {Genesis}, NEW index, NEW ind, NEW tor, SpentOf(index, ind, tor, Parent[b])
  PROVE  SpentOf(Updated(index, ConnectSpent(b)), ind \cup {b}, tor \ {b}, b)
  <1> SUFFICES ASSUME NEW c \in ((ind \cup {b}) \ (tor \ {b})) \cap Chain(b),
                      NEW i \in DOMAIN vtx[c], NEW j \in DOMAIN vin[vtx[c][i]]
               PROVE  /\ vin[vtx[c][i]][j] \in DOMAIN Updated(index, ConnectSpent(b))
                      /\ Updated(index, ConnectSpent(b))[vin[vtx[c][i]][j]] = Spender(c, i, j)
    BY Zenon DEF SpentOf
  <1> DEFINE o == vin[vtx[c][i]][j]
  <1>1. Chain(b) = Chain(Parent[b]) \cup {b} /\ b \in Blocks /\ b \in Chain(b) /\ c \in Chain(b)
    BY ChainOfChild, Zenon
  <1>2. ASSUME NEW d \in ConnectSpent(b), d.key = o
        PROVE  c = b /\ d = Change(i, o, Spender(b, i, j))
    <2>1. PICK k \in DOMAIN vtx[b] : d \in SpentBy(b, k, vtx[b][k])
      BY Zenon DEF ConnectSpent
    <2>2. PICK l \in DOMAIN vin[vtx[b][k]] : d = Change(k, vin[vtx[b][k]][l], Spender(b, k, l))
      BY <2>1, Zenon DEF SpentBy
    <2>3. d.key = vin[vtx[b][k]][l]
      BY <2>2, SMT DEF Change
    <2>4. vin[vtx[c][i]][j] = vin[vtx[b][k]][l]
      BY <1>2, <2>3
    <2>5. c = b /\ i = k /\ j = l
      <3>1. SpendApart(c, b)
        BY <1>1, SpentOnce, Zenon
      <3> QED BY <2>4, <3>1, SMT DEF SpendApart
    <2> QED BY <2>2, <2>5, Zenon
  <1>3. CASE c = b
    <2> DEFINE e == Change(i, o, Spender(b, i, j))
    <2>1. e \in SpentBy(b, i, vtx[b][i])
      BY <1>3, Zenon DEF SpentBy
    <2>2. e \in ConnectSpent(b)
      BY <1>3, <2>1, Zenon DEF ConnectSpent
    <2>3. e.place = i /\ e.key = o /\ e.value = Spender(b, i, j)
      BY SMT DEF Change
    <2>4. i \in Int
      <3>1. DOMAIN vtx[b] \subseteq Nat
        BY <1>1, BlocksAreValid, Zenon
      <3> QED BY <1>3, <3>1
    <2>5. e.value # None
      BY <1>1, <1>3, <2>3, IndexConstants
    <2>6. \A d \in ConnectSpent(b) : d.key = e.key => d = e
      BY <1>2, <2>3, Zenon
    <2> HIDE DEF e
    <2>7. \A d \in ConnectSpent(b) : d.key = e.key =>
              d.place \in Int /\ d.place <= e.place /\ (d.place = e.place => d.value = e.value)
      BY <2>3, <2>4, <2>6
    <2>8. e.key \in DOMAIN Updated(index, ConnectSpent(b)) /\ Updated(index, ConnectSpent(b))[e.key] = e.value
      BY <2>2, <2>3, <2>4, <2>5, <2>7, KeyChanged, Zenon
    <2> QED BY <1>3, <2>3, <2>8
  <1>4. CASE c # b
    <2>1. c \in (ind \ tor) \cap Chain(Parent[b])
      BY <1>1, <1>4, Zenon
    <2>2. o \in DOMAIN index /\ index[o] = Spender(c, i, j)
      BY <2>1, Zenon DEF SpentOf
    <2>3. \A d \in ConnectSpent(b) : d.key # o
      BY <1>2, <1>4, Zenon
    <2> HIDE DEF o
    <2>4. o \in DOMAIN Updated(index, ConnectSpent(b)) /\ Updated(index, ConnectSpent(b))[o] = index[o]
      BY <2>2, <2>3, KeyAlone, Zenon
    <2> QED BY <2>2, <2>4, Zenon DEF o
  <1> QED BY <1>3, <1>4
-----------------------------------------------------------------------------
(* The invariant holds on empty indexes. *)
LEMMA InitIndex == Init => IndexInv
  <1> SUFFICES ASSUME Init PROVE IndexInv
    OBVIOUS
  <1>1. Chain(Genesis) = {} /\ Genesis \in Blocks
    BY ChainOfGenesis
  <1>2. crashes \in 0..MaxCrashes
    BY IndexConstants DEF Init
  <1>3. ChainsOf(Genesis, Genesis, {}, {}) /\ RowsOf({}, {}, {}, Genesis) /\ SpentOf(spentIndex, {}, {}, Genesis)
    BY <1>1, Zenon DEF ChainsOf, RowsOf, SpentOf
  <1>4. UnspentOf(<<>>, {}, {}, Genesis)
    <2>1. \A x : x \notin DOMAIN <<>>
      BY SMT
    <2>2. \A o : ~ IsCoin(Genesis, o)
      BY <1>1, Zenon DEF IsCoin
    <2> QED BY <2>1, <2>2, Zenon DEF UnspentOf, Tells
  <1> QED BY <1>2, <1>3, <1>4, Zenon DEF Init, IndexInv

(* Connecting a block preserves it, ... *)
LEMMA ConnectPreserves ==
  ASSUME IndexInv, NEW b \in Blocks \ {Genesis}, ConnectBlock(b)
  PROVE  IndexInv'
  <1>1. /\ tip = Parent[b] /\ tip' = b /\ flushed' = flushed /\ crashes' = crashes
        /\ indexed' = indexed \cup {b} /\ torn' = torn \ {b}
        /\ addressIndex' = addressIndex \cup ConnectRows(b)
        /\ unspentIndex' = Updated(unspentIndex, ConnectUnspent(b))
        /\ spentIndex' = Updated(spentIndex, ConnectSpent(b))
    BY Zenon DEF ConnectBlock
  <1>2. Chain(b) = Chain(Parent[b]) \cup {b} /\ b \in Blocks
    BY ChainOfChild, Zenon
  <1>3. ChainsOf(tip', flushed', indexed', torn')
    BY <1>1, <1>2, Zenon DEF IndexInv, ChainsOf
  <1>4. RowsOf(addressIndex', indexed', torn', tip')
    BY <1>1, RowsConnected, Zenon DEF IndexInv
  <1>5. UnspentOf(unspentIndex', indexed', torn', tip')
    BY <1>1, UnspentConnected, Zenon DEF IndexInv
  <1>6. SpentOf(spentIndex', indexed', torn', tip')
    BY <1>1, SpentConnected, Zenon DEF IndexInv
  <1> QED BY <1>1, <1>3, <1>4, <1>5, <1>6, Zenon DEF IndexInv

(* ... disconnecting the tip, ... *)
LEMMA DisconnectPreserves ==
  ASSUME KeysUnspent, IndexInv, DisconnectBlock
  PROVE  IndexInv'
  <1>1. /\ tip \in Blocks \ {Genesis} /\ tip' = Parent[tip] /\ flushed' = flushed /\ crashes' = crashes
        /\ indexed' = indexed \ {tip} /\ torn' = torn \ {tip}
        /\ addressIndex' = addressIndex \ DisconnectRows(tip)
        /\ unspentIndex' = Updated(unspentIndex, DisconnectUnspent(tip))
        /\ spentIndex' = spentIndex
    BY Zenon DEF DisconnectBlock, IndexInv, ChainsOf
  <1>2. Chain(tip) = Chain(Parent[tip]) \cup {tip} /\ tip \notin Chain(Parent[tip]) /\ Parent[tip] \in Blocks
    BY <1>1, ChainOfChild, Zenon
  <1>3. ChainsOf(tip', flushed', indexed', torn')
    BY <1>1, <1>2, Zenon DEF IndexInv, ChainsOf
  <1>4. RowsOf(addressIndex', indexed', torn', tip')
    BY <1>1, RowsDisconnected, Zenon DEF IndexInv
  <1>5. UnspentOf(unspentIndex', indexed', torn', tip')
    BY <1>1, UnspentDisconnected, Zenon DEF IndexInv
  <1>6. SpentOf(spentIndex', indexed', torn', tip')
    BY <1>1, <1>2, Zenon DEF IndexInv, SpentOf
  <1> QED BY <1>1, <1>3, <1>4, <1>5, <1>6, Zenon DEF IndexInv

(* ... a flush, ... *)
LEMMA FlushPreserves ==
  ASSUME IndexInv, FlushStateToDisk
  PROVE  IndexInv'
  <1>1. flushed' = tip /\ UNCHANGED <<tip, addressIndex, unspentIndex, spentIndex, indexed, torn, crashes>>
    BY Zenon DEF FlushStateToDisk
  <1>2. ChainsOf(tip', flushed', indexed', torn')
    BY <1>1, Zenon DEF IndexInv, ChainsOf
  <1> QED BY <1>1, <1>2, Zenon DEF IndexInv

(* ... and a crash, between blocks or within one. *)
CrashWith(b) ==
    \/ UNCHANGED <<addressIndex, unspentIndex, indexed, torn>>
    \/ /\ addressIndex' = addressIndex \cup ConnectRows(b)
       /\ indexed' = indexed \cup {b} /\ torn' = torn \cup {b}
       /\ unspentIndex' \in {unspentIndex, Updated(unspentIndex, ConnectUnspent(b))}
    \/ /\ b \in Chain(tip) /\ addressIndex' = addressIndex \ DisconnectRows(b)
       /\ indexed' = indexed \cup {b} /\ torn' = torn \cup {b} /\ unspentIndex' = unspentIndex

LEMMA CrashPreserves ==
  ASSUME IndexInv, Crash
  PROVE  IndexInv'
  <1>1. tip' = flushed /\ flushed' = flushed /\ spentIndex' = spentIndex /\ tip \in Blocks /\ flushed \in Blocks
    BY Zenon DEF Crash, IndexInv, ChainsOf
  <1>2. crashes' \in 0..MaxCrashes
    <2>1. crashes \in 0..MaxCrashes /\ crashes < MaxCrashes /\ crashes' = crashes + 1
      BY Zenon DEF Crash, IndexInv
    <2> QED BY <2>1, IndexConstants
  <1>3. /\ (indexed \ torn) \cap Chain(flushed) \subseteq Chain(tip) /\ Chain(tip) \ indexed \subseteq Chain(flushed)
        /\ indexed \subseteq Blocks \ {Genesis} /\ torn \subseteq indexed
    BY Zenon DEF IndexInv, ChainsOf
  <1>4. UNCHANGED <<addressIndex, unspentIndex, indexed, torn>> \/ \E b \in Blocks \ {Genesis} : CrashWith(b)
    <2>1. tip # Genesis => tip \in Blocks \ {Genesis} /\ tip \in Chain(tip)
      BY <1>1, ChainOfChild, Zenon
    <2> QED BY <2>1, Zenon DEF Crash, CrashWith
  <1>5. CASE UNCHANGED <<addressIndex, unspentIndex, indexed, torn>>
    <2>1. ChainsOf(tip', flushed', indexed', torn')
      BY <1>1, <1>3, <1>5, Zenon DEF ChainsOf
    <2>2. RowsOf(addressIndex', indexed', torn', tip')
      BY <1>1, <1>3, <1>5, RowsCrashed, Zenon DEF IndexInv
    <2>3. UnspentOf(unspentIndex', indexed', torn', tip')
      <3>1. CASE Blocks \ {Genesis} = {}
        <4>1. tip = flushed
          BY <1>1, <3>1, SMT
        <4> QED BY <1>1, <1>5, <4>1, Zenon DEF IndexInv
      <3>2. CASE Blocks \ {Genesis} # {}
        <4>1. PICK b : b \in Blocks \ {Genesis}
          BY <3>2, Zenon
        <4> QED BY <1>1, <1>3, <1>5, <4>1, UnspentCrashed, Zenon DEF IndexInv
      <3> QED BY <3>1, <3>2
    <2>4. SpentOf(spentIndex', indexed', torn', tip')
      <3>1. SpentOf(spentIndex, indexed, torn, tip)
        BY Zenon DEF IndexInv
      <3>2. SpentOf(spentIndex, indexed, torn, flushed)
        BY <1>3, <3>1, Zenon DEF SpentOf
      <3> QED BY <1>1, <1>5, <3>2, Zenon
    <2> QED BY <1>2, <2>1, <2>2, <2>3, <2>4, Zenon DEF IndexInv
  <1>6. ASSUME NEW b \in Blocks \ {Genesis}, CrashWith(b), ~ UNCHANGED <<addressIndex, unspentIndex, indexed, torn>>
        PROVE  IndexInv'
    <2>1. indexed' = indexed \cup {b} /\ torn' = torn \cup {b}
      BY <1>6, Zenon DEF CrashWith
    <2>2. ChainsOf(tip', flushed', indexed', torn')
      BY <1>1, <1>3, <2>1, Zenon DEF ChainsOf
    <2>3. RowsOf(addressIndex', indexed', torn', tip')
      BY <1>1, <1>3, <1>6, RowsCrashed, Zenon DEF IndexInv, CrashWith
    <2>4. unspentIndex' \in {unspentIndex, Updated(unspentIndex, ConnectUnspent(b))}
      BY <1>6, Zenon DEF CrashWith
    <2>5. UnspentOf(unspentIndex', indexed', torn', tip')
      BY <1>1, <1>3, <2>1, <2>4, UnspentCrashed, Zenon DEF IndexInv
    <2>6. SpentOf(spentIndex', indexed', torn', tip')
      BY <1>1, <1>3, <2>1, Zenon DEF IndexInv, SpentOf
    <2> QED BY <1>2, <2>2, <2>3, <2>5, <2>6, Zenon DEF IndexInv
  <1> QED BY <1>4, <1>5, <1>6, Zenon

LEMMA IndexInvariant ==
  ASSUME KeysUnspent
  PROVE  Spec => []IndexInv
  <1>1. IndexInv /\ [Next]_vars => IndexInv'
    <2> SUFFICES ASSUME IndexInv, [Next]_vars PROVE IndexInv'
      OBVIOUS
    <2>1. CASE UNCHANGED vars
      BY <2>1, Zenon DEF vars, IndexInv
    <2> QED BY <2>1, ConnectPreserves, DisconnectPreserves, FlushPreserves, CrashPreserves, Zenon DEF Next
  <1> QED BY InitIndex, <1>1, PTL DEF Spec

-----------------------------------------------------------------------------
(***************************************************************************)
(* For every tree of blocks without spends of outputs to public keys, and  *)
(* any number of crashes: the rows of the address index are exactly those  *)
(* of the active chain when every block that was indexed is on it and none *)
(* is torn.                                                                *)
(***************************************************************************)
THEOREM RowsAreOfChain ==
  ASSUME KeysUnspent
  PROVE  Spec => []RowsMatchChain
  <1>1. IndexInv => RowsMatchChain
    <2> SUFFICES ASSUME IndexInv, InStep PROVE addressIndex = UNION {ConnectRows(b) : b \in chainActive}
      BY DEF RowsMatchChain
    <2>1. indexed = Chain(tip) /\ torn = {} /\ chainActive = Chain(tip)
      BY DEF InStep, chainActive
    <2> QED BY <2>1 DEF IndexInv, RowsOf
  <1> QED BY IndexInvariant, <1>1, PTL

LEMMA MinedIs == \A t : t \in Mined <=> \E b \in Chain(tip) : \E i \in DOMAIN vtx[b] : t = vtx[b][i]
  BY SMT DEF Mined, Range, chainActive

(* The coins of the chain in the words of the invariant. *)
LEMMA CoinsAre ==
    \A o : /\ o \in SpentIn <=> \E b \in Chain(tip) : o \in Spends(b)
           /\ o \in Coins <=> IsCoin(tip, o)
  <1>1. ASSUME NEW o PROVE (\E t \in Mined : o \in Outpoints(t)) <=> \E b \in Chain(tip) : o \in Makes(b)
    <2>1. ASSUME NEW t \in Mined, o \in Outpoints(t) PROVE \E b \in Chain(tip) : o \in Makes(b)
      <3>1. PICK b \in Chain(tip) : \E i \in DOMAIN vtx[b] : t = vtx[b][i]
        BY MinedIs, Zenon
      <3>2. o \in Makes(b)
        BY <2>1, <3>1, Zenon DEF Makes
      <3> QED BY <3>2
    <2>2. ASSUME NEW b \in Chain(tip), o \in Makes(b) PROVE \E t \in Mined : o \in Outpoints(t)
      <3>1. PICK i \in DOMAIN vtx[b] : o \in Outpoints(vtx[b][i])
        BY <2>2, Zenon DEF Makes
      <3>2. vtx[b][i] \in Mined
        BY MinedIs, Zenon
      <3> QED BY <3>1, <3>2, Zenon
    <2> QED BY <2>1, <2>2, Zenon
  <1>2. ASSUME NEW o PROVE o \in SpentIn <=> \E b \in Chain(tip) : o \in Spends(b)
    <2>1. ASSUME NEW t \in Mined, o \in Range(vin[t]) PROVE \E b \in Chain(tip) : o \in Spends(b)
      <3>1. PICK b \in Chain(tip) : \E i \in DOMAIN vtx[b] : t = vtx[b][i]
        BY MinedIs, Zenon
      <3>2. o \in Spends(b)
        BY <2>1, <3>1, Zenon DEF Spends
      <3> QED BY <3>2
    <2>2. ASSUME NEW b \in Chain(tip), o \in Spends(b) PROVE o \in SpentIn
      <3>1. PICK i \in DOMAIN vtx[b] : o \in Range(vin[vtx[b][i]])
        BY <2>2, Zenon DEF Spends
      <3>2. vtx[b][i] \in Mined
        BY MinedIs, Zenon
      <3> QED BY <3>1, <3>2, Zenon DEF SpentIn
    <2> QED BY <2>1, <2>2, Zenon DEF SpentIn
  <1>3. \A o : o \in Coins <=> IsCoin(tip, o)
    <2>1. \A o : o \in Coins <=> (\E t \in Mined : o \in Outpoints(t)) /\ o \notin SpentIn
      BY SMT DEF Coins
    <2> QED BY <1>1, <1>2, <2>1, Zenon DEF IsCoin
  <1> QED BY <1>2, <1>3, Zenon

(***************************************************************************)
(* Likewise the unspent index holds exactly the indexable coins of the     *)
(* active chain, with the heights they were mined at.                      *)
(***************************************************************************)
THEOREM UnspentIsOfCoins ==
  ASSUME KeysUnspent
  PROVE  Spec => []UnspentMatchesCoins
  <1>1. IndexInv => TypeOK
    <2> SUFFICES ASSUME IndexInv PROVE TypeOK
      OBVIOUS
    <2>1. ASSUME NEW x \in DOMAIN unspentIndex
          PROVE  x[3] \in DOMAIN vout[x[2]] /\ x = UnspentKey(<<x[2], x[3]>>)
      <3>1. PICK o \in Outputs : x = UnspentKey(o)
        BY Zenon DEF IndexInv, UnspentOf
      <3>2. PICK t, k : o = <<t, k>> /\ o[1] = t /\ o[2] = k /\ k \in DOMAIN vout[t]
        BY OutputIsPair, Zenon
      <3>3. x = <<Output(o).address, t, k>>
        BY <3>1, <3>2, Zenon DEF UnspentKey
      <3>4. x[2] = t /\ x[3] = k
        BY <3>3, SMT
      <3> QED BY <3>1, <3>2, <3>4, Zenon
    <2>2. \A r \in addressIndex : \E b \in Blocks \ {Genesis} : r \in ConnectRows(b)
      BY Zenon DEF IndexInv, RowsOf, ChainsOf
    <2> QED BY <2>1, <2>2, Zenon DEF IndexInv, ChainsOf, TypeOK
  <1>2. ASSUME IndexInv, InStep
        PROVE  /\ DOMAIN unspentIndex = {UnspentKey(o) : o \in {o \in Coins : Indexable(o)}}
               /\ \A o \in Coins : Indexable(o) => unspentIndex[UnspentKey(o)] = MinedAt(o[1])
    <2>1. \A o \in Outputs : Indexable(o) => Tells(unspentIndex, tip, o)
      BY <1>2, Zenon DEF InStep, IndexInv, UnspentOf, Outstanding, chainActive
    <2>2. \A o \in Coins : o \in Outputs /\ IsCoin(tip, o)
      <3> SUFFICES ASSUME NEW o \in Coins PROVE o \in Outputs /\ IsCoin(tip, o)
        OBVIOUS
      <3>1. IsCoin(tip, o)
        BY CoinsAre, Zenon
      <3>2. PICK b \in Chain(tip) : o \in Makes(b)
        BY <3>1, Zenon DEF IsCoin
      <3>3. b \in Blocks \ {Genesis}
        BY <1>2, ChainBlocks, Zenon DEF IndexInv, ChainsOf
      <3> QED BY <3>1, <3>2, <3>3, Zenon DEF Outputs
    <2>3. \A o \in Coins : Indexable(o) => UnspentKey(o) \in DOMAIN unspentIndex /\ unspentIndex[UnspentKey(o)] = MinedAt(o[1])
      BY <2>1, <2>2, Zenon DEF Tells, HeightOn, MinedAt, chainActive
    <2>4. \A x \in DOMAIN unspentIndex : \E o \in Coins : Indexable(o) /\ x = UnspentKey(o)
      <3> SUFFICES ASSUME NEW x \in DOMAIN unspentIndex PROVE \E o \in Coins : Indexable(o) /\ x = UnspentKey(o)
        OBVIOUS
      <3>1. PICK o \in Outputs : Indexable(o) /\ x = UnspentKey(o)
        BY <1>2, Zenon DEF IndexInv, UnspentOf
      <3>2. o \in Coins
        BY <2>1, <3>1, CoinsAre, Zenon DEF Tells
      <3> QED BY <3>1, <3>2, Zenon
    <2> QED BY <2>3, <2>4, Zenon
  <1>3. IndexInv => UnspentMatchesCoins
    BY <1>1, <1>2, Zenon DEF UnspentMatchesCoins
  <1> QED BY IndexInvariant, <1>3, PTL

(***************************************************************************)
(* And the spent index, of which nothing is ever undone, names for every   *)
(* output the active chain spends the input of the chain that spends it.   *)
(***************************************************************************)
THEOREM SpendersAreInChain ==
  ASSUME KeysUnspent
  PROVE  Spec => []SpenderIsInChain
  <1>1. ASSUME IndexInv, InStep, NEW o \in SpentIn
        PROVE  /\ o \in DOMAIN spentIndex
               /\ spentIndex[o].tx \in Mined /\ vin[spentIndex[o].tx][spentIndex[o].j] = o
               /\ spentIndex[o].height = MinedAt(spentIndex[o].tx)
    <2>0. PICK b \in Chain(tip) : o \in Spends(b)
      BY CoinsAre, Zenon
    <2>1. PICK i \in DOMAIN vtx[b] : o \in Range(vin[vtx[b][i]])
      BY <2>0, Zenon DEF Spends
    <2>2. PICK j \in DOMAIN vin[vtx[b][i]] : o = vin[vtx[b][i]][j]
      BY <2>1, Zenon DEF Range
    <2>3. b \in (indexed \ torn) \cap Chain(tip) /\ tip \in Blocks
      BY <1>1, Zenon DEF InStep, chainActive, IndexInv, ChainsOf
    <2>4. o \in DOMAIN spentIndex /\ spentIndex[o] = Spender(b, i, j)
      BY <1>1, <2>2, <2>3, Zenon DEF IndexInv, SpentOf
    <2>5. spentIndex[o].tx = vtx[b][i] /\ spentIndex[o].j = j /\ spentIndex[o].height = nHeight[b]
      BY <2>4, SMT DEF Spender
    <2>6. vtx[b][i] \in Mined
      BY MinedIs, Zenon
    <2>7. MinedAt(vtx[b][i]) = nHeight[b]
      <3>1. HeightOn(tip, vtx[b][i]) = nHeight[b]
        BY <2>3, TxHeight, Zenon
      <3> QED BY <3>1, Zenon DEF MinedAt, HeightOn, chainActive
    <2> QED BY <2>2, <2>4, <2>5, <2>6, <2>7, Zenon
  <1>2. IndexInv => SpenderIsInChain
    BY <1>1, Zenon DEF SpenderIsInChain
  <1> QED BY IndexInvariant, <1>2, PTL
=============================================================================
