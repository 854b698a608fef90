--------------------------- MODULE BlockDownload ---------------------------
(***************************************************************************)
(* Which block is asked of which peer: CNodeState, mapBlocksInFlight and   *)
(* nPeersWithValidatedDownloads of net_processing.cpp, as the messages     *)
(* inv, headers, block, cmpctblock and blocktxn, the fetching and the      *)
(* timeouts of SendMessages and the end of a connection change them.       *)
(*                                                                         *)
(* One thread handles the messages of all peers, so a handler is a step;   *)
(* the socket thread (FinalizeNode) and an RPC thread (a block of the      *)
(* node's own miner) take cs_main between handlers.  A block is valid; its *)
(* work is its height.  Every request passes its CBlockIndex, so           *)
(* nBlocksInFlightValidHeaders is nBlocksInFlight.  A handler that changes *)
(* nothing sends messages at most and is not shown.                        *)
(***************************************************************************)
EXTENDS BlockTree, Sequences, Functions

CONSTANTS
    Peers,
    Known,              \* of a peer: the blocks it has
    Announced,          \* of a peer: the blocks it tells of unasked
    OwnBlocks,          \* blocks that come from an RPC
    Prompt,             \* peers that answer before any timeout
    None,
    MAX_BLOCKS_IN_TRANSIT_PER_PEER,
    BLOCK_DOWNLOAD_WINDOW,
    MIN_BLOCKS_TO_KEEP,
    MaxConnections      \* connections of one peer

ASSUME DownloadConstants ==
    /\ IsFiniteSet(Peers) /\ Prompt \subseteq Peers
    /\ None \notin Blocks /\ None \notin Peers
    /\ Known \in [Peers -> SUBSET Blocks]
    /\ Announced \in [Peers -> SUBSET (Blocks \ {Genesis})]
    /\ OwnBlocks \subseteq Blocks \ {Genesis}
    /\ MAX_BLOCKS_IN_TRANSIT_PER_PEER \in Nat
    /\ BLOCK_DOWNLOAD_WINDOW \in Nat

VARIABLES
    mapBlockIndex,      \* blocks whose header is known
    have,               \* blocks with BLOCK_HAVE_DATA
    tip,
    dl,                 \* [node, inFlight, peers]: mapNodeState, mapBlocksInFlight,
                        \* nPeersWithValidatedDownloads
    closing,            \* peers with fDisconnect
    connections         \* of a peer: its connections so far

chain == <<mapBlockIndex, have, tip>>
vars == <<mapBlockIndex, have, tip, dl, closing, connections>>

Linked(b) == Branch[b] \subseteq have    \* nChainTx # 0

Connected == DOMAIN dl.node
Served == Connected \ closing

-----------------------------------------------------------------------------
(* CNodeState.  late: nDownloadingSince is longer ago than the timeout;    *)
(* stalling: nStallingSince is 0 ("no"), recent, or too long ago.          *)
NewNode ==
    [pindexBestKnownBlock |-> None, hashLastUnknownBlock |-> None, pindexLastCommonBlock |-> None,
     vBlocksInFlight |-> <<>>, nBlocksInFlight |-> 0, partial |-> {},
     late |-> FALSE, stalling |-> "no"]

(* Mutation: the peer that was asked is not told that the block came. *)
ForgetInFlight(d, b) == [d EXCEPT !.inFlight = Restrict(@, DOMAIN @ \ {b})]

(* vBlocksInFlight without one of its blocks. *)
Erased(v, b) ==
    LET k == CHOOSE k \in DOMAIN v : v[k] = b
    IN  [i \in 1..Len(v)-1 |-> IF i < k THEN v[i] ELSE v[i+1]]

(* Mutation: the peer is still taken to hold up the window. *)
StillStalling(n, b) ==
    [n EXCEPT !.vBlocksInFlight = Erased(@, b), !.nBlocksInFlight = @ - 1,
              !.partial = @ \ {b}, !.late = @ /\ Head(n.vBlocksInFlight) # b]

WithoutBlock(n, b) ==
    [n EXCEPT !.vBlocksInFlight = Erased(@, b), !.nBlocksInFlight = @ - 1,
              !.partial = @ \ {b}, !.late = @ /\ Head(n.vBlocksInFlight) # b,
              !.stalling = "no"]

MarkBlockAsReceived(d, b) ==
    IF b \notin DOMAIN d.inFlight THEN d
    ELSE LET p == d.inFlight[b]
             n == d.node[p]
         IN  [node |-> [d.node EXCEPT ![p] = WithoutBlock(n, b)],
              inFlight |-> Restrict(d.inFlight, DOMAIN d.inFlight \ {b}),
              peers |-> IF n.nBlocksInFlight = 1 THEN d.peers - 1 ELSE d.peers]

(* MarkBlockAsInFlight for one block after another, none of them in flight *)
(* yet.                                                                    *)
WithBlocks(n, bs) ==
    [n EXCEPT !.vBlocksInFlight = @ \o bs, !.nBlocksInFlight = @ + Len(bs),
              !.late = @ /\ n.nBlocksInFlight # 0]

MarkBlocksAsInFlight(d, p, bs) ==
    IF bs = <<>> THEN d
    ELSE [node |-> [d.node EXCEPT ![p] = WithBlocks(@, bs)],
          inFlight |-> [x \in DOMAIN d.inFlight \cup Range(bs) |->
                            IF x \in Range(bs) THEN p ELSE d.inFlight[x]],
          peers |-> IF d.node[p].nBlocksInFlight = 0 THEN d.peers + 1 ELSE d.peers]

MarkBlockAsInFlight(d, p, b) ==
    IF b \in DOMAIN d.inFlight /\ d.inFlight[b] = p THEN d
    ELSE MarkBlocksAsInFlight(MarkBlockAsReceived(d, b), p, <<b>>)

(* The best block a peer is known to have, once its header is known. *)
BetterKnown(n, b) ==
    IF n.pindexBestKnownBlock = None \/ nHeight[b] >= nHeight[n.pindexBestKnownBlock]
    THEN [n EXCEPT !.pindexBestKnownBlock = b] ELSE n

ProcessBlockAvailability(n, index) ==
    IF n.hashLastUnknownBlock \in index
    THEN [BetterKnown(n, n.hashLastUnknownBlock) EXCEPT !.hashLastUnknownBlock = None] ELSE n

UpdateBlockAvailability(d, p, b, index) ==
    LET n == ProcessBlockAvailability(d.node[p], index)
    IN  [d EXCEPT !.node[p] = IF b \in index THEN BetterKnown(n, b)
                              ELSE [n EXCEPT !.hashLastUnknownBlock = b]]

(* AcceptBlock and ActivateBestChain: what is stored and the tip then. *)
Stored(b, fRequested) ==
    b \notin have /\ (fRequested \/ (nHeight[b] > nHeight[tip]
                                     /\ nHeight[b] <= nHeight[tip] + MIN_BLOCKS_TO_KEEP))

BestLinked(S) == {b \in Blocks : Branch[b] \subseteq S}

ProcessNewBlock(b, fRequested) ==
    LET S == IF Stored(b, fRequested) THEN have \cup {b} ELSE have
        best == Highest(BestLinked(S))
    IN  /\ mapBlockIndex' = mapBlockIndex \cup {b}
        /\ have' = S
        /\ tip' = IF nHeight[best] > nHeight[tip] THEN best ELSE tip

-----------------------------------------------------------------------------
(***************************************************************************)
(* Messages of a peer.                                                     *)
(***************************************************************************)
Inv(p, b) ==
    /\ b \in Announced[p]
    /\ dl' = UpdateBlockAvailability(dl, p, b, mapBlockIndex)
    /\ dl' # dl
    /\ UNCHANGED <<mapBlockIndex, have, tip, closing, connections>>

(* Mutation: all that is missing is asked for at once. *)
FetchWithoutLimit(d, p, b) ==
    LET missing == Branch[b] \ (have \cup DOMAIN d.inFlight)
    IN  MarkBlocksAsInFlight(d, p, FromLowest(missing, Cardinality(missing)))

(* The blocks that direct fetch asks for, from the earliest; fLarge: the   *)
(* walk back from b stops before it meets the active chain.                *)
DirectFetch(d, p, b) ==
    LET missing == {x \in Branch[b] \ Branch[tip] : x \notin have /\ x \notin DOMAIN d.inFlight}
        From(x) == {y \in missing : nHeight[y] >= nHeight[x]}
        fLarge == \E x \in missing : /\ Cardinality(From(x)) = MAX_BLOCKS_IN_TRANSIT_PER_PEER + 1
                                     /\ Parent[x] \notin Branch[tip]
        room == MAX_BLOCKS_IN_TRANSIT_PER_PEER - d.node[p].nBlocksInFlight
    IN  IF fLarge THEN d ELSE MarkBlocksAsInFlight(d, p, FromLowest(missing, room))

(* The headers from first to b; fCanDirectFetch depends on the age of the  *)
(* tip.                                                                    *)
Headers(p, first, b) ==
    /\ b \in Announced[p]
    /\ first \in Branch[b] \ {Genesis}
    /\ IF Parent[first] \notin mapBlockIndex
       THEN /\ dl' = UpdateBlockAvailability(dl, p, b, mapBlockIndex)
            /\ UNCHANGED mapBlockIndex
       ELSE /\ mapBlockIndex' = mapBlockIndex \cup Branch[b]
            /\ LET d == UpdateBlockAvailability(dl, p, b, mapBlockIndex')
               IN  \E fCanDirectFetch \in BOOLEAN :
                      dl' = IF fCanDirectFetch /\ nHeight[tip] <= nHeight[b] THEN DirectFetch(d, p, b) ELSE d
    /\ <<dl', mapBlockIndex'>> # <<dl, mapBlockIndex>>
    /\ UNCHANGED <<have, tip, closing, connections>>

(* A peer whose block does not pass CheckBlock is disconnected. *)
Misbehaving(p) == p \notin Prompt /\ closing' = closing \cup {p}

(* A block, asked for or not, whose parent's header is known. *)
Block(p, b) ==
    /\ \/ b \in Known[p] \cap DOMAIN dl.inFlight
       \/ b \in Announced[p] \ have
    /\ Parent[b] \in mapBlockIndex
    /\ dl' = MarkBlockAsReceived(dl, b)
    /\ \/ ProcessNewBlock(b, b \in DOMAIN dl.inFlight) /\ UNCHANGED closing
       \/ Misbehaving(p) /\ UNCHANGED chain
    /\ UNCHANGED connections

(* The transactions that a compact block lacks; the peer is disconnected   *)
(* for ones that do not fit, and asked for the whole block on a collision  *)
(* of short ids, which changes nothing here.                               *)
BlockTxn(p, b) ==
    /\ b \in DOMAIN dl.inFlight
    /\ dl.inFlight[b] = p
    /\ b \in dl.node[p].partial
    /\ dl' = MarkBlockAsReceived(dl, b)
    /\ \/ ProcessNewBlock(b, TRUE) /\ UNCHANGED closing
       \/ Misbehaving(p) /\ UNCHANGED chain
    /\ UNCHANGED connections

(* A compact block of which the pool has all, some or none of the          *)
(* transactions.  One further ahead than two blocks is handled as its      *)
(* header; one that is not new, that was not asked for while the tip is    *)
(* old, or that cannot be used adds its header and no more.                *)
CmpctBlock(p, b) ==
    LET index == mapBlockIndex \cup {b}
        d == UpdateBlockAvailability(dl, p, b, index)
        asked == MarkBlockAsInFlight(d, p, b)
        next == /\ b \notin have
                /\ nHeight[b] \in nHeight[tip] + 1 .. nHeight[tip] + 2
                /\ b \notin d.node[p].partial
        mayAsk == IF b \in DOMAIN d.inFlight THEN d.inFlight[b] = p
                  ELSE d.node[p].nBlocksInFlight < MAX_BLOCKS_IN_TRANSIT_PER_PEER
    IN  /\ b \in Announced[p]
        /\ Parent[b] \in mapBlockIndex
        /\ \/ /\ ~(next /\ mayAsk /\ b \in DOMAIN d.inFlight)
              /\ dl' = d
              /\ mapBlockIndex' = index
              /\ UNCHANGED <<have, tip, closing>>
           \/ /\ nHeight[b] > nHeight[tip] + 2    \* fRevertToHeaderProcessing
              /\ b \notin have \cup DOMAIN d.inFlight
              /\ dl' = DirectFetch(d, p, b)
              /\ mapBlockIndex' = index
              /\ UNCHANGED <<have, tip, closing>>
           \/ /\ next /\ mayAsk    \* transactions are missing, or the whole block is asked for
              /\ dl' = [asked EXCEPT !.node[p].partial = @ \cup {b}]
              /\ mapBlockIndex' = index
              /\ UNCHANGED <<have, tip, closing>>
           \/ /\ next /\ mayAsk    \* it cannot be a block
              /\ dl' = MarkBlockAsReceived(asked, b)
              /\ mapBlockIndex' = index
              /\ Misbehaving(p)
              /\ UNCHANGED <<have, tip>>
           \/ /\ next    \* nothing is missing, even if another peer was asked
              /\ dl' = MarkBlockAsReceived(IF mayAsk THEN asked ELSE d, b)
              /\ ProcessNewBlock(b, TRUE)
              /\ UNCHANGED closing
        /\ UNCHANGED connections

-----------------------------------------------------------------------------
(***************************************************************************)
(* SendMessages.                                                           *)
(***************************************************************************)

(* pindexLastCommonBlock before the walk: a guess at first, and never off  *)
(* the branch of the peer.                                                 *)
LastCommonBlock(n) ==
    LET best == n.pindexBestKnownBlock
        guess == Highest({b \in Branch[tip] : nHeight[b] <= nHeight[best]})
    IN  LastCommonAncestor(IF n.pindexLastCommonBlock = None THEN guess ELSE n.pindexLastCommonBlock, best)

(* Mutation: a block that is stored is taken to be linked. *)
StoredIsCommon(common, path) == Highest({common} \cup (path \cap have))

(* The last block the walk comes to with all blocks before it linked. *)
NextCommon(common, path) == Highest({common} \cup {b \in path : Linked(b)})

(* The walk of FindNextBlocksToDownload from the common block towards the  *)
(* best block of the peer: the new common block; the blocks to ask for, at *)
(* most count of the missing ones within the window; and, if the walk      *)
(* comes to the end of the window with none, the peer that holds it up,    *)
(* the one asked for the first block that is in flight.                    *)
FindNextBlocksToDownload(d, p, count) ==
    LET n == d.node[p]
        common == LastCommonBlock(n)
        nWindowEnd == nHeight[common] + BLOCK_DOWNLOAD_WINDOW
        path == {b \in Branch[n.pindexBestKnownBlock] \ Branch[common] : nHeight[b] <= nWindowEnd + 1}
        missing == path \ (have \cup DOMAIN d.inFlight)
        within == {b \in missing : nHeight[b] <= nWindowEnd}
        waiting == (path \ have) \cap DOMAIN d.inFlight
        waitingfor == d.inFlight[Lowest(waiting)]
    IN  [common |-> NextCommon(common, path),
         blocks |-> FromLowest(within, count),
         staller |-> IF within = {} /\ missing # {} /\ waiting # {} /\ waitingfor # p
                     THEN waitingfor ELSE None]

Interesting(n) == n.pindexBestKnownBlock # None /\ nHeight[n.pindexBestKnownBlock] >= nHeight[tip]

Fetch(d, p) ==
    LET n == d.node[p]
        w == FindNextBlocksToDownload(d, p, MAX_BLOCKS_IN_TRANSIT_PER_PEER - n.nBlocksInFlight)
        e == MarkBlocksAsInFlight([d EXCEPT !.node[p].pindexLastCommonBlock = w.common], p, w.blocks)
        stall == e.node[p].nBlocksInFlight = 0 /\ w.staller # None
    IN  IF n.nBlocksInFlight >= MAX_BLOCKS_IN_TRANSIT_PER_PEER \/ ~Interesting(n) THEN d
        ELSE IF stall /\ e.node[w.staller].stalling = "no"
        THEN [e EXCEPT !.node[w.staller].stalling = "since"] ELSE e

(* Mutation: only a peer that holds up the window times out. *)
SentUnlessStalling(p) ==
    LET n == ProcessBlockAvailability(dl.node[p], mapBlockIndex)
        d == [dl EXCEPT !.node[p] = n]
    IN  IF n.stalling = "over" THEN <<d, closing \cup {p}>> ELSE <<Fetch(d, p), closing>>

(* What SendMessages makes of dl and closing. *)
Sent(p) ==
    LET n == ProcessBlockAvailability(dl.node[p], mapBlockIndex)
        d == [dl EXCEPT !.node[p] = n]
        timeout == n.stalling = "over" \/ (n.vBlocksInFlight # <<>> /\ n.late)
    IN  IF timeout THEN <<d, closing \cup {p}>> ELSE <<Fetch(d, p), closing>>

SendMessages(p) ==
    /\ UNCHANGED <<mapBlockIndex, have, tip, connections>>
    /\ dl' = Sent(p)[1]
    /\ closing' = Sent(p)[2]

-----------------------------------------------------------------------------
(* Time passes while a peer does not answer. *)
Tick(p) ==
    /\ p \notin Prompt
    /\ dl.node[p].vBlocksInFlight # <<>> \/ dl.node[p].stalling = "since"
    /\ dl' = [dl EXCEPT !.node[p].late = dl.node[p].vBlocksInFlight # <<>>,
                        !.node[p].stalling = IF @ = "since" THEN "over" ELSE @]
    /\ UNCHANGED <<mapBlockIndex, have, tip, closing, connections>>

(* A block of submitblock or of the node's own miner. *)
SubmitBlock(b) ==
    /\ b \in OwnBlocks \ have
    /\ Linked(Parent[b])
    /\ ProcessNewBlock(b, TRUE)
    /\ UNCHANGED <<dl, closing, connections>>

CloseSocket(p) ==
    /\ p \notin Prompt
    /\ closing' = closing \cup {p}
    /\ UNCHANGED <<mapBlockIndex, have, tip, dl, connections>>

FinalizeNode(p) ==
    LET n == dl.node[p]
    IN  /\ dl' = [node |-> Restrict(dl.node, Connected \ {p}),
                  inFlight |-> Restrict(dl.inFlight, DOMAIN dl.inFlight \ Range(n.vBlocksInFlight)),
                  peers |-> IF n.nBlocksInFlight # 0 THEN dl.peers - 1 ELSE dl.peers]
        /\ closing' = closing \ {p}
        /\ UNCHANGED <<mapBlockIndex, have, tip, connections>>

InitializeNode(p) ==
    /\ connections[p] < MaxConnections
    /\ connections' = [connections EXCEPT ![p] = @ + 1]
    /\ dl' = [dl EXCEPT !.node = [x \in Connected \cup {p} |-> IF x = p THEN NewNode ELSE @[x]]]
    /\ UNCHANGED <<mapBlockIndex, have, tip, closing>>

Init ==
    /\ mapBlockIndex = {Genesis}
    /\ have = {Genesis}
    /\ tip = Genesis
    /\ dl = [node |-> [p \in Prompt |-> NewNode], inFlight |-> <<>>, peers |-> 0]
    /\ closing = {}
    /\ connections = [p \in Peers |-> IF p \in Prompt THEN 1 ELSE 0]

Next ==
    \/ \E p \in Served, b \in Blocks : Inv(p, b)
    \/ \E p \in Served, first, b \in Blocks : Headers(p, first, b)
    \/ \E p \in Served, b \in Blocks : Block(p, b)
    \/ \E p \in Served, b \in Blocks : BlockTxn(p, b)
    \/ \E p \in Served, b \in Blocks : CmpctBlock(p, b)
    \/ \E p \in Served : SendMessages(p)
    \/ \E p \in Served : Tick(p)
    \/ \E p \in Served : CloseSocket(p)
    \/ \E p \in closing : FinalizeNode(p)
    \/ \E p \in Peers \ Connected : InitializeNode(p)
    \/ \E b \in Blocks : SubmitBlock(b)

(* A prompt peer announces its best block and sends what it is asked for,  *)
(* in order.                                                               *)
Announces(p) == \E first \in Blocks : Headers(p, first, Highest(Announced[p]))
Asked(p) == dl.node[p].vBlocksInFlight # <<>>
Answers(p) == Asked(p) /\ Block(p, Head(dl.node[p].vBlocksInFlight))

(* The message thread serves every peer in turn, the socket thread removes *)
(* the closed ones, and time passes.                                       *)
Fairness ==
    /\ \A p \in Peers :
          /\ []<>(p \notin Served \/ Sent(p) = <<dl, closing>>) \/ []<><<p \in Served /\ SendMessages(p)>>_vars
          /\ []<>(p \notin closing) \/ []<><<p \in closing /\ FinalizeNode(p)>>_vars
    /\ \A p \in Peers \ Prompt :
          []<>(p \notin Served \/ ~Asked(p) \/ dl.node[p].late) \/ []<><<p \in Served /\ Tick(p)>>_vars
    /\ \A p \in Prompt :
          /\ []<>(dl.node[p].pindexBestKnownBlock = Highest(Announced[p])) \/ []<><<Announces(p)>>_vars
          /\ []<>~Asked(p) \/ []<><<Answers(p)>>_vars

Spec == Init /\ [][Next]_vars /\ Fairness

-----------------------------------------------------------------------------
(* The types, and the limit on blocks in flight from a peer. *)
TypeOK ==
    /\ have \subseteq mapBlockIndex /\ mapBlockIndex \subseteq Blocks
    /\ tip \in have
    /\ closing \subseteq Connected /\ Connected \subseteq Peers
    /\ \A p \in Connected :
          /\ dl.node[p].nBlocksInFlight \in 0..MAX_BLOCKS_IN_TRANSIT_PER_PEER
          /\ dl.node[p].partial \subseteq Range(dl.node[p].vBlocksInFlight)

(* The three records of what is in flight agree, whichever peer answers    *)
(* for whichever other and whoever leaves: a block is in flight from one   *)
(* peer, once, in its vBlocksInFlight and in mapBlocksInFlight, and        *)
(* nPeersWithValidatedDownloads, which stretches the timeout of the others, *)
(* counts the peers with such a block.  With no peer left all are empty,   *)
(* as FinalizeNode asserts.                                                *)
InFlightAgrees ==
    /\ \A p \in Connected :
          /\ dl.node[p].nBlocksInFlight = Len(dl.node[p].vBlocksInFlight)
          /\ IsInjective(dl.node[p].vBlocksInFlight)
          /\ Range(dl.node[p].vBlocksInFlight) = {b \in DOMAIN dl.inFlight : dl.inFlight[b] = p}
    /\ \A b \in DOMAIN dl.inFlight : dl.inFlight[b] \in Connected
    /\ dl.peers = Cardinality({p \in Connected : dl.node[p].vBlocksInFlight # <<>>})

(* A peer is disconnected for stalling only while it owes a block: the     *)
(* mark that it holds up the window goes when any block it was asked for   *)
(* arrives, from it or from another peer.                                  *)
StallerOwesBlock ==
    \A p \in Connected : dl.node[p].stalling # "no" => dl.node[p].vBlocksInFlight # <<>>

(* pindexLastCommonBlock, from which the search for missing blocks starts, *)
(* is never past a block that is missing: such a block would not be asked  *)
(* for again.                                                              *)
CommonIsLinked ==
    \A p \in Connected : LET c == dl.node[p].pindexLastCommonBlock IN c # None => Linked(c)

(* With one peer that answers promptly the chain of that peer, or a better *)
(* one, becomes active, whatever the others announce, keep back or leave   *)
(* half done: no block stays in flight from a peer that will not send it.  *)
TipCatchesUp == \A p \in Prompt : <>(nHeight[tip] >= nHeight[Highest(Announced[p])])
=============================================================================
