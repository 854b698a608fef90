---------------------------- MODULE AddressIndex ----------------------------
(***************************************************************************)
(* The indexes of -addressindex and -spentindex.  ConnectBlock and         *)
(* DisconnectBlock write them to the block tree database at once, while    *)
(* the coins of the tip reach the disk with the next flush: a crash takes  *)
(* the chain back and leaves the indexes where they were.                  *)
(*                                                                         *)
(* Amounts are left out.  An output pays to an address by its hash         *)
(* (P2PKH, P2SH and the asset scripts), to a public key, or to neither.    *)
(***************************************************************************)
EXTENDS BlockTree, Sequences, Functions

CONSTANTS
    vtx,            \* of a block: the sequence of its transactions
    vin,            \* of a transaction: the sequence of its outpoints <<tx, n>>
    vout,           \* of a transaction: the sequence of its outputs, [type, address]
    None,
    MaxCrashes

VARIABLES
    tip,            \* chainActive.Tip()
    flushed,        \* the tip whose coins are on disk
    addressIndex,   \* rows <<address, height, i, tx, k, spending>>
    unspentIndex,   \* <<address, tx, n>> -> height
    spentIndex,     \* outpoint -> [tx, j, height]
    indexed,        \* blocks whose changes were last written, and not undone
    torn,           \* blocks at which a crash parted the batches
    crashes

vars == <<tip, flushed, addressIndex, unspentIndex, spentIndex, indexed, torn, crashes>>

(* The genesis block is on the chain and not connected. *)
Chain(b) == Branch[b] \ {Genesis}
chainActive == Chain(tip)

Output(o) == vout[o[1]][o[2]]
Outpoints(t) == {<<t, k>> : k \in DOMAIN vout[t]}
Indexable(o) == Output(o).type # "other"

(* What has been checked of the blocks of a branch: a transaction is mined *)
(* once (BIP30, BIP34), its inputs are outputs of transactions before it,  *)
(* and no output is spent twice.                                           *)
ASSUME BlocksAreValid ==
    /\ \A b \in Blocks : \A c, d \in Chain(b) : \A i \in DOMAIN vtx[c], k \in DOMAIN vtx[d] :
          /\ vtx[c][i] = vtx[d][k] => c = d /\ i = k
          /\ \A j \in DOMAIN vin[vtx[c][i]], l \in DOMAIN vin[vtx[d][k]] :
                vin[vtx[c][i]][j] = vin[vtx[d][k]][l] => c = d /\ i = k /\ j = l
    /\ \A c \in Blocks \ {Genesis} : \A i \in DOMAIN vtx[c] : \A o \in Range(vin[vtx[c][i]]) :
          \E d \in Chain(c) : \E k \in DOMAIN vtx[d] : o \in Outpoints(vtx[d][k]) /\ (d = c => k < i)
    /\ \A b \in Blocks : DOMAIN vtx[b] \subseteq Nat

(* CSpentIndexValue. *)
Spender(b, i, j) == [tx |-> vtx[b][i], j |-> j, height |-> nHeight[b]]

ASSUME IndexConstants ==
    /\ None \notin Nat /\ MaxCrashes \in Nat
    /\ \A b \in Blocks : \A i \in DOMAIN vtx[b] : \A j \in DOMAIN vin[vtx[b][i]] : Spender(b, i, j) # None

(* The height at which a transaction of the active chain was mined. *)
MinedAt(t) == nHeight[CHOOSE x \in chainActive : t \in Range(vtx[x])]

-----------------------------------------------------------------------------
(***************************************************************************)
(* A batch for an index: changes, each with its place in the batch, a key  *)
(* and the value to write, or None to erase.  Of the changes of one key    *)
(* the last one counts.                                                    *)
(***************************************************************************)
Change(place, key, value) == [place |-> place, key |-> key, value |-> value]

LastChange(changes, x) ==
    CHOOSE c \in changes : c.key = x /\ \A d \in changes : d.key = x => d.place <= c.place

Updated(index, changes) ==
    LET keys == {c.key : c \in changes}
        left == {x \in DOMAIN index \cup keys : x \in keys => LastChange(changes, x).value # None}
    IN  [x \in left |-> IF x \in keys THEN LastChange(changes, x).value ELSE index[x]]

(* CAddressUnspentKey. *)
UnspentKey(o) == <<Output(o).address, o[1], o[2]>>

(* What ConnectBlock collects, transaction by transaction: an input erases *)
(* the unspent output, an output writes one.                               *)
Received(b, i, t) ==
    {<<vout[t][k].address, nHeight[b], i, t, k, FALSE>> : k \in {k \in DOMAIN vout[t] : Indexable(<<t, k>>)}}

Spending(b, i, t) ==
    {<<Output(vin[t][j]).address, nHeight[b], i, t, j, TRUE>> : j \in {j \in DOMAIN vin[t] : Indexable(vin[t][j])}}

ConnectRows(b) == UNION {Received(b, i, vtx[b][i]) \cup Spending(b, i, vtx[b][i]) : i \in DOMAIN vtx[b]}

Ins(t) == {o \in Range(vin[t]) : Indexable(o)}
Outs(t) == {o \in Outpoints(t) : Indexable(o)}

ConnectTx(b, i, t) ==
    {Change(2 * i, UnspentKey(o), None) : o \in Ins(t)} \cup {Change(2 * i + 1, UnspentKey(o), nHeight[b]) : o \in Outs(t)}

ConnectUnspent(b) == UNION {ConnectTx(b, i, vtx[b][i]) : i \in DOMAIN vtx[b]}

SpentBy(b, i, t) == {Change(i, vin[t][j], Spender(b, i, j)) : j \in DOMAIN vin[t]}

(* Mutation: an output that is in the index keeps its entry. *)
ConnectSpentOnce(b) ==
    {c \in UNION {SpentBy(b, i, vtx[b][i]) : i \in DOMAIN vtx[b]} : c.key \notin DOMAIN spentIndex}

ConnectSpent(b) == UNION {SpentBy(b, i, vtx[b][i]) : i \in DOMAIN vtx[b]}

(* What DisconnectBlock collects, last transaction first.  For an input    *)
(* that spent an output to a public key it names the keys of an output of  *)
(* the spending transaction, and restores nothing.                         *)
SpendingUndone(b, i, t) ==
    {<<Output(vin[t][j]).address, nHeight[b], i, t, j, Output(vin[t][j]).type # "key">>
        : j \in {j \in DOMAIN vin[t] : Indexable(vin[t][j])}}

(* Mutation: only the receiving rows are erased. *)
ReceivedOnly(b) == UNION {Received(b, i, vtx[b][i]) : i \in DOMAIN vtx[b]}

DisconnectRows(b) == UNION {Received(b, i, vtx[b][i]) \cup SpendingUndone(b, i, vtx[b][i]) : i \in DOMAIN vtx[b]}

Restored(place, t, j) ==
    LET o == vin[t][j]
    IN  IF Output(o).type = "key" THEN Change(place, <<Output(o).address, t, j>>, None)
        ELSE Change(place, UnspentKey(o), MinedAt(o[1]))

DisconnectTx(place, t) ==
    {Change(place, UnspentKey(o), None) : o \in Outs(t)}
        \cup {Restored(place + 1, t, j) : j \in {j \in DOMAIN vin[t] : Indexable(vin[t][j])}}

(* Mutation: the transactions are undone in the order of the block. *)
DisconnectFromFirst(b) == UNION {DisconnectTx(2 * i, vtx[b][i]) : i \in DOMAIN vtx[b]}

DisconnectUnspent(b) == UNION {DisconnectTx(-2 * i, vtx[b][i]) : i \in DOMAIN vtx[b]}

-----------------------------------------------------------------------------
ConnectBlock(b) ==
    /\ Parent[b] = tip
    /\ tip' = b
    /\ addressIndex' = addressIndex \cup ConnectRows(b)
    /\ unspentIndex' = Updated(unspentIndex, ConnectUnspent(b))
    /\ spentIndex' = Updated(spentIndex, ConnectSpent(b))
    /\ indexed' = indexed \cup {b}
    /\ torn' = torn \ {b}
    /\ UNCHANGED <<flushed, crashes>>

(* The changes of the spent index are collected and not written. *)
DisconnectBlock ==
    /\ tip # Genesis
    /\ tip' = Parent[tip]
    /\ addressIndex' = addressIndex \ DisconnectRows(tip)
    /\ unspentIndex' = Updated(unspentIndex, DisconnectUnspent(tip))
    /\ indexed' = indexed \ {tip}
    /\ torn' = torn \ {tip}
    /\ UNCHANGED <<flushed, spentIndex, crashes>>

FlushStateToDisk ==
    /\ flushed' = tip
    /\ UNCHANGED <<tip, addressIndex, unspentIndex, spentIndex, indexed, torn, crashes>>

(* A crash, also between the batches of the rows, of the unspent outputs   *)
(* and of the spent ones for a block that is connected or disconnected.    *)
Crash ==
    /\ crashes < MaxCrashes
    /\ crashes' = crashes + 1
    /\ tip' = flushed
    /\ \/ UNCHANGED <<addressIndex, unspentIndex, indexed, torn>>
       \/ \E b \in Blocks \ {Genesis} :
             /\ Parent[b] = tip
             /\ addressIndex' = addressIndex \cup ConnectRows(b)
             /\ indexed' = indexed \cup {b}
             /\ torn' = torn \cup {b}
             /\ unspentIndex' \in {unspentIndex, Updated(unspentIndex, ConnectUnspent(b))}
       \/ /\ tip # Genesis
          /\ addressIndex' = addressIndex \ DisconnectRows(tip)
          /\ indexed' = indexed \cup {tip}
          /\ torn' = torn \cup {tip}
          /\ UNCHANGED unspentIndex
    /\ UNCHANGED <<flushed, spentIndex>>

Init ==
    /\ tip = Genesis
    /\ flushed = Genesis
    /\ addressIndex = {}
    /\ unspentIndex = <<>>
    /\ spentIndex = <<>>
    /\ indexed = {}
    /\ torn = {}
    /\ crashes = 0

Next ==
    \/ \E b \in Blocks \ {Genesis} : ConnectBlock(b)
    \/ DisconnectBlock
    \/ FlushStateToDisk
    \/ Crash

Spec == Init /\ [][Next]_vars

-----------------------------------------------------------------------------
(* The chain itself: its transactions, and the outputs it leaves unspent. *)
Mined == UNION {Range(vtx[b]) : b \in chainActive}
SpentIn == UNION {Range(vin[t]) : t \in Mined}
Coins == (UNION {Outpoints(t) : t \in Mined}) \ SpentIn

(* Nothing that was indexed is out of step with the chain. *)
InStep == indexed = chainActive /\ torn = {}

(* The types: every row is one that connecting some block writes, and      *)
(* every key of the unspent index names an output and the address it pays. *)
TypeOK ==
    /\ tip \in Blocks /\ flushed \in Blocks
    /\ \A x \in DOMAIN unspentIndex : x[3] \in DOMAIN vout[x[2]] /\ x = UnspentKey(<<x[2], x[3]>>)
    /\ \A r \in addressIndex : \E b \in Blocks \ {Genesis} : r \in ConnectRows(b)
    /\ indexed \subseteq Blocks /\ torn \subseteq indexed
    /\ crashes \in 0..MaxCrashes

(* The rows of the address index are those of the active chain, through    *)
(* reorganisations and crashes, as soon as every block whose rows a crash  *)
(* left behind, or took away, has been connected or disconnected again.    *)
RowsMatchChain == InStep => addressIndex = UNION {ConnectRows(b) : b \in chainActive}

(* Likewise the unspent index holds exactly the indexable coins of the     *)
(* chain with the heights they were mined at, even where a transaction     *)
(* spends an output of its own block.                                      *)
UnspentMatchesCoins ==
    /\ TypeOK
    /\ InStep => /\ DOMAIN unspentIndex = {UnspentKey(o) : o \in {o \in Coins : Indexable(o)}}
                 /\ \A o \in Coins : Indexable(o) => unspentIndex[UnspentKey(o)] = MinedAt(o[1])

(* Although its changes are never undone, the spent index names for every  *)
(* output that the chain spends the transaction and the input of the chain *)
(* that spends it, and not the ones of a branch that was left.             *)
SpenderIsInChain ==
    InStep => \A o \in SpentIn :
        /\ o \in DOMAIN spentIndex
        /\ spentIndex[o].tx \in Mined /\ vin[spentIndex[o].tx][spentIndex[o].j] = o
        /\ spentIndex[o].height = MinedAt(spentIndex[o].tx)

(* The spent index has no output that the chain does not spend             *)
(* (DisconnectBlock: "undo and delete the spent index").                   *)
SpentIndexMatchesChain == InStep => DOMAIN spentIndex \subseteq SpentIn
=============================================================================
