----------------------------- MODULE BestChain -----------------------------
(***************************************************************************)
(* The block index and the choice of the active chain: which blocks are    *)
(* known, have their data, are linked to the genesis block and are marked  *)
(* invalid; setBlockIndexCandidates and mapBlocksUnlinked; and the callers *)
(* of ActivateBestChain, which release cs_main between two steps and keep  *)
(* the pindexMostWork they work towards in a local variable.               *)
(*                                                                         *)
(* Connecting a block succeeds unless the block is in FailsConnect; what   *)
(* it does to the coins is in Chainstate and AssetsCache.  Pruning of      *)
(* block files, pindexBestInvalid and pindexBestHeader are left out.       *)
(***************************************************************************)
EXTENDS BlockTree, Functions

CONSTANTS
    None,
    nChainWork,             \* of each block: the work of its branch
    FailsCheck,             \* the blocks ContextualCheckBlock refuses
    FailsConnect,           \* the blocks ConnectBlock refuses
    Threads,                \* threads that may call ActivateBestChain
    Setups                  \* who calls what in a behaviour

(* AddToBlockIndex gives a block the work of its parent and its own, which *)
(* is more than 0; objects in memory have different addresses.             *)
ASSUME BestChainConstants ==
    /\ None \notin Blocks
    /\ nChainWork \in [Blocks -> Nat]
    /\ \A b \in Blocks \ {Genesis} : nChainWork[Parent[b]] < nChainWork[b]
    /\ Genesis \notin FailsCheck \cup FailsConnect
    /\ \A s \in Setups : s.orders \subseteq Injection(Blocks, Nat) /\ s.callers \subseteq Threads

VARIABLES
    setup,      \* chosen once: the threads that call ActivateBestChain, the RPC calls
                \* in use, bounds on calls of preciousblock and on restarts, and
                \* the possible orders of the CBlockIndex objects in memory
    known,      \* mapBlockIndex
    have,       \* blocks with BLOCK_HAVE_DATA
    valid,      \* the BLOCK_VALID level of each block
    failedValid, failedChild,   \* blocks with BLOCK_FAILED_VALID, BLOCK_FAILED_CHILD
    unsaved,    \* blocks whose BLOCK_FAILED_CHILD may not have been saved
    linked,     \* blocks with nChainTx # 0
    seq,        \* nSequenceId
    nBlockSequenceId, nBlockReverseSequenceId, nLastPreciousChainwork,
    candidates, \* setBlockIndexCandidates
    unlinked,   \* of each block in mapBlocksUnlinked: those that were put there before it
    tip,        \* chainActive.Tip()
    address,    \* the position of each CBlockIndex in memory
    busy,       \* callers within ActivateBestChain
    mostWork,   \* their pindexMostWork
    restarts

index == <<known, have, valid, failedValid, failedChild, unsaved, linked>>
order == <<seq, nBlockSequenceId, nBlockReverseSequenceId, nLastPreciousChainwork, address>>
vars == <<index, order, candidates, unlinked, tip, busy, mostWork, restarts, setup>>

TREE == 2
TRANSACTIONS == 3
SCRIPTS == 5

Ancestors(b) == Branch[b] \ {b}

chainActive == Branch[tip]
FindFork(b) == LastCommonAncestor(tip, b)

Failed(b) == b \in failedValid \cup failedChild
IsValid(b, level) == ~Failed(b) /\ valid[b] >= level

(* CBlockIndexWorkComparator: a sorts before, that is worse than, b. *)
LessBy(id, at, a, b) ==
    \/ nChainWork[a] < nChainWork[b]
    \/ nChainWork[a] = nChainWork[b] /\ id[a] > id[b]
    \/ nChainWork[a] = nChainWork[b] /\ id[a] = id[b] /\ at[a] > at[b]

Less(a, b) == LessBy(seq, address, a, b)

Prune(cands, t) == {b \in cands : ~Less(b, t)}   \* PruneBlockIndexCandidates

-----------------------------------------------------------------------------
Init ==
    /\ setup \in Setups
    /\ known = {Genesis} /\ have = {Genesis} /\ linked = {Genesis}
    /\ valid = [b \in Blocks |-> IF b = Genesis THEN SCRIPTS ELSE 0]
    /\ failedValid = {} /\ failedChild = {} /\ unsaved = {}
    /\ seq = [b \in Blocks |-> 0]
    /\ nBlockSequenceId = 1 /\ nBlockReverseSequenceId = -1 /\ nLastPreciousChainwork = 0
    /\ candidates = {Genesis}
    /\ unlinked = <<>>
    /\ tip = Genesis
    /\ address \in setup.orders
    /\ busy = {}
    /\ mostWork = [t \in Threads |-> None]
    /\ restarts = 0

Idle(t) == t \in setup.callers \ busy

(* A caller enters ActivateBestChain, with no pindexMostWork yet. *)
Activate(t) == busy' = busy \cup {t} /\ mostWork' = [mostWork EXCEPT ![t] = None]

-----------------------------------------------------------------------------
(***************************************************************************)
(* AcceptBlockHeader accepts a header on a block that is known and not     *)
(* marked invalid (it may refuse more, by the header's contents and age).  *)
(***************************************************************************)
HeaderAcceptable(b) ==
    \/ b \in known /\ ~Failed(b)
    \/ b \notin known /\ Parent[b] \in known /\ ~Failed(Parent[b])

AddToBlockIndex(b) ==
    /\ known' = known \cup {b}
    /\ valid' = [valid EXCEPT ![b] = IF b \in known THEN @ ELSE TREE]

AcceptBlockHeader(b) ==
    /\ b \notin known /\ HeaderAcceptable(b)
    /\ AddToBlockIndex(b)
    /\ UNCHANGED <<have, failedValid, failedChild, unsaved, linked, order,
                   candidates, unlinked, tip, busy, mostWork, restarts, setup>>

(***************************************************************************)
(* ReceivedBlockTransactions: a block whose parent is linked is linked     *)
(* itself and so is, breadth first, every block that waited for it.        *)
(***************************************************************************)
Waiting == DOMAIN unlinked

LinkedWith(b) == {x \in Waiting \cup {b} : b \in Branch[x] /\ Branch[x] \ Branch[b] \subseteq Waiting}

(* Of two of them the lower one is first; at one height the one whose      *)
(* ancestor, where the branches of the two part, has waited longer.        *)
Toward(f, x) == CHOOSE y \in Branch[x] : nHeight[y] = nHeight[f] + 1

LinkedBefore(x, y) ==
    LET f == LastCommonAncestor(x, y)
    IN  \/ nHeight[x] < nHeight[y]
        \/ nHeight[x] = nHeight[y] /\ x # y /\ Toward(f, x) \in unlinked[Toward(f, y)]

ReceivedBlockTransactions(b) ==
    LET new == LinkedWith(b)
    IN  /\ have' = have \cup {b}
        /\ IF Parent[b] \in linked
           THEN /\ linked' = linked \cup new
                /\ seq' = [x \in Blocks |->
                             IF x \in new
                             THEN nBlockSequenceId + Cardinality({y \in new : LinkedBefore(y, x)})
                             ELSE seq[x]]
                /\ nBlockSequenceId' = nBlockSequenceId + Cardinality(new)
                /\ candidates' = candidates \cup {x \in new : ~LessBy(seq', address, x, tip)}
                /\ unlinked' = [x \in Waiting \ new |-> unlinked[x] \ new]
           ELSE /\ unlinked' = IF IsValid(Parent[b], TREE)
                               THEN [x \in Waiting \cup {b} |-> IF x = b THEN Waiting ELSE unlinked[x]]
                               ELSE unlinked
                /\ UNCHANGED <<linked, seq, nBlockSequenceId, candidates>>

(***************************************************************************)
(* ProcessNewBlock: AcceptBlock, and unless the block is refused then      *)
(* ActivateBestChain.                                                      *)
(***************************************************************************)
ProcessUnwanted(t, b) ==
    /\ b \in have \/ nChainWork[b] <= nChainWork[tip]
    /\ AddToBlockIndex(b)
    /\ Activate(t)
    /\ UNCHANGED <<have, failedValid, failedChild, unsaved, linked, order, candidates, unlinked>>

ProcessBad(b) ==
    /\ b \notin have /\ b \in FailsCheck
    /\ AddToBlockIndex(b)
    /\ failedValid' = failedValid \cup {b}
    /\ unsaved' = unsaved \ {b}
    /\ UNCHANGED <<have, failedChild, linked, order, candidates, unlinked, busy, mostWork>>

ProcessGood(t, b) ==
    /\ b \notin have /\ b \notin FailsCheck
    /\ known' = known \cup {b}
    /\ valid' = [valid EXCEPT ![b] = TRANSACTIONS]
    /\ unsaved' = unsaved \ {b}
    /\ ReceivedBlockTransactions(b)
    /\ Activate(t)
    /\ UNCHANGED <<failedValid, failedChild, nBlockReverseSequenceId,
                   nLastPreciousChainwork, address>>

ProcessNewBlock(t, b) ==
    /\ Idle(t)
    /\ b # Genesis /\ HeaderAcceptable(b)
    /\ ProcessUnwanted(t, b) \/ ProcessBad(b) \/ ProcessGood(t, b)
    /\ UNCHANGED <<tip, restarts, setup>>

-----------------------------------------------------------------------------
(***************************************************************************)
(* FindMostWorkChain: the best candidate whose branch off the active chain *)
(* has no block marked invalid.  Of every better candidate, the blocks     *)
(* down to the first one that is marked are marked and dropped.            *)
(***************************************************************************)
OffChain(b) == Branch[b] \ chainActive

Usable(b) == \A x \in OffChain(b) : ~Failed(x)

(* Mutation: the other end of the sorted set is taken.                     *)
Worst(S) == CHOOSE b \in S : \A x \in S \ {b} : Less(b, x)

Best(S) == CHOOSE b \in S : \A x \in S \ {b} : Less(x, b)

FindMostWorkChain ==
    LET usable == {b \in candidates : Usable(b)}
    IN  IF usable = {} THEN None ELSE Best(usable)

Unusable ==
    {b \in candidates : ~Usable(b) /\ (FindMostWorkChain = None \/ Less(FindMostWorkChain, b))}

FirstFailed(b) == Highest({x \in OffChain(b) : Failed(x)})

NewlyFailed == UNION {{x \in OffChain(b) : nHeight[x] > nHeight[FirstFailed(b)]} : b \in Unusable}

UsableCandidates == candidates \ (NewlyFailed \cup {FirstFailed(b) : b \in Unusable})

(* Mutation: a step ends after one block, with less work or not.           *)
StepToNext(m) ==
    CHOOSE b \in Branch[m] \ Branch[FindFork(m)] : nHeight[b] = nHeight[FindFork(m)] + 1

(***************************************************************************)
(* ActivateBestChainStep towards m: back to the fork, then forward until a *)
(* block fails or there is more work than before.                          *)
(***************************************************************************)
StepTo(m) ==
    LET path == Branch[m] \ Branch[FindFork(m)]
        stops == {b \in path : b \in FailsConnect \/ nChainWork[b] > nChainWork[tip]}
    IN  IF stops = {} THEN m ELSE Lowest(stops)

ConnectTo(last, m, cands) ==
    LET connected == (Branch[last] \ Branch[FindFork(m)]) \ FailsConnect
    IN  /\ tip' = IF last \in FailsConnect THEN Parent[last] ELSE last
        /\ valid' = [b \in Blocks |-> IF b \in connected /\ ~Failed(b) THEN SCRIPTS ELSE valid[b]]
        /\ candidates' = LET pruned == IF connected = {} THEN cands ELSE Prune(cands, tip')
                         IN  IF last \in FailsConnect THEN pruned \ {last} ELSE pruned
        /\ failedValid' = IF last \in FailsConnect THEN failedValid \cup {last} ELSE failedValid

(* Mutation: a caller goes on towards a chain with an invalid block.       *)
TargetKept(last, m) == IF last = m /\ last \notin FailsConnect THEN None ELSE m

(* The pindexMostWork a caller goes on with.                               *)
Target(last, m) == IF last = m \/ last \in FailsConnect THEN None ELSE m

(* One round of the loop of ActivateBestChain for a caller: nothing to do, *)
(* or a step after which the caller goes on, unless it has arrived.        *)
ActivateBestChain(t) ==
    LET fresh == mostWork[t] = None
        m == IF fresh THEN FindMostWorkChain ELSE mostWork[t]
        marked == IF fresh THEN NewlyFailed ELSE {}
        cands == IF fresh THEN UsableCandidates ELSE candidates
    IN  /\ t \in busy
        /\ UNCHANGED <<known, have, linked, order, unlinked, restarts, setup>>
        /\ failedChild' = failedChild \cup marked
        /\ IF m = None \/ m = tip
           THEN /\ candidates' = cands
                /\ busy' = busy \ {t}
                /\ unsaved' = unsaved \cup marked
                /\ mostWork' = [mostWork EXCEPT ![t] = None]
                /\ UNCHANGED <<tip, valid, failedValid>>
           ELSE LET last == StepTo(m)
                IN  /\ ConnectTo(last, m, cands)
                    /\ unsaved' = (unsaved \cup marked) \ (failedValid' \ failedValid)
                    /\ mostWork' = [mostWork EXCEPT ![t] = Target(last, m)]
                    /\ busy' = IF last = m /\ last \notin FailsConnect THEN busy \ {t} ELSE busy

-----------------------------------------------------------------------------
(***************************************************************************)
(* The RPC calls invalidateblock, reconsiderblock and preciousblock, and   *)
(* the ActivateBestChain each of them ends with.                           *)
(***************************************************************************)

(* The candidates there are again once newTip is the tip. *)
CandidatesAgain(newTip, failing) ==
    {x \in linked \ failing : valid[x] >= TRANSACTIONS /\ ~Less(x, newTip)}

InvalidateBlock(t, b) ==
    LET walked == IF b \in chainActive THEN {x \in chainActive : b \in Branch[x]} ELSE {}
        newTip == IF b \in chainActive THEN Parent[b] ELSE tip
    IN  /\ "invalidateblock" \in setup.calls
        /\ Idle(t)
        /\ b \in (IF "invalidateblock unlinked" \in setup.calls THEN known ELSE linked) \ {Genesis}
        /\ failedValid' = failedValid \cup {b}
        /\ failedChild' = failedChild \cup walked
        /\ unsaved' = (unsaved \ walked) \ {b}
        /\ tip' = newTip
        /\ candidates' = (candidates \ (walked \cup {b})) \cup
                CandidatesAgain(newTip, failedValid' \cup failedChild')
        /\ Activate(t)
        /\ UNCHANGED <<known, have, valid, linked, order, unlinked, restarts, setup>>

(* Mutation: the marks of the descendants are not cleared.                 *)
NotValidBelowItself(b) == {b}

(* What ResetBlockFailureFlags clears: the marks of the block, of the      *)
(* blocks below that are not valid, and of its ancestors.                  *)
NotValidBelow(b) == {x \in known : b \in Branch[x] /\ ~IsValid(x, TRANSACTIONS)}

CandidatesOf(b) ==
    {x \in NotValidBelow(b) \cap linked : valid[x] >= TRANSACTIONS /\ Less(tip, x)}

ResetBlockFailureFlags(t, b) ==
    LET cleared == NotValidBelow(b) \cup Branch[b]
    IN  /\ Idle(t)
        /\ failedValid' = failedValid \ cleared
        /\ failedChild' = failedChild \ cleared
        /\ unsaved' = unsaved \ cleared
        /\ candidates' = candidates \cup CandidatesOf(b)
        /\ Activate(t)
        /\ UNCHANGED <<known, have, valid, linked, order, unlinked, tip, restarts, setup>>

(* reconsiderblock, which users may or may not call on a block below one   *)
(* that is marked invalid itself                                           *)
ReconsiderBlock(t, b) ==
    /\ "reconsiderblock" \in setup.calls
    /\ Failed(b)
    /\ "reconsiderblock below" \in setup.calls \/ \A x \in Ancestors(b) : ~Failed(x)
    /\ ResetBlockFailureFlags(t, b)

CandidatesPrecious(b, id) ==
    IF IsValid(b, TRANSACTIONS) /\ b \in linked
    THEN {x \in candidates \cup {b} : ~LessBy(id, address, x, tip)}
    ELSE candidates \ {b}

(* Mutation: every precious block gets the same sequence number.           *)
SameSequenceId == -1

(* The nSequenceId the block gets: less than that of every block as good.  *)
ReverseSequenceId == IF nChainWork[tip] > nLastPreciousChainwork THEN -1 ELSE nBlockReverseSequenceId

PreciousBlock(t, b) ==
    LET id == ReverseSequenceId
    IN  /\ "preciousblock" \in setup.calls
        /\ Idle(t)
        /\ b \in known /\ nChainWork[b] >= nChainWork[tip]
        /\ -id <= setup.maxPrecious
        /\ nLastPreciousChainwork' = nChainWork[tip]
        /\ seq' = [seq EXCEPT ![b] = id]
        /\ nBlockReverseSequenceId' = id - 1
        /\ candidates' = CandidatesPrecious(b, seq')
        /\ Activate(t)
        /\ UNCHANGED <<index, nBlockSequenceId, address, unlinked, tip, restarts, setup>>

-----------------------------------------------------------------------------
(***************************************************************************)
(* The node stops and starts again: LoadBlockIndexDB rebuilds what is in   *)
(* memory only from the saved index, LoadChainTip prunes the candidates,   *)
(* and ThreadImport calls ActivateBestChain.                               *)
(***************************************************************************)
LoadBlockIndex(t) ==
    \E lost \in SUBSET unsaved :
        /\ failedChild' = failedChild \ lost
        /\ linked' = {b \in known : \A x \in Branch[b] : x \in have}
        /\ seq' = [b \in Blocks |-> 0]
        /\ address' \in setup.orders
        /\ candidates' = {b \in linked' : /\ b \notin failedValid \cup failedChild'
                                          /\ valid[b] >= TRANSACTIONS
                                          /\ ~LessBy(seq', address', b, tip)}
        /\ LET waiting == {b \in have \ {Genesis} : Parent[b] \notin linked'}
           IN  unlinked' = [b \in waiting |->
                   {x \in waiting : \/ nHeight[x] < nHeight[b]
                                    \/ nHeight[x] = nHeight[b] /\ address'[x] < address'[b]}]
        /\ nBlockSequenceId' = 1 /\ nBlockReverseSequenceId' = -1 /\ nLastPreciousChainwork' = 0
        /\ busy' = {t}
        /\ mostWork' = [c \in Threads |-> None]

Restart(t) ==
    /\ t \in setup.callers
    /\ restarts < setup.maxRestarts
    /\ restarts' = restarts + 1
    /\ LoadBlockIndex(t)
    /\ unsaved' = {}
    /\ UNCHANGED <<known, have, valid, failedValid, tip, setup>>

Next ==
    \/ \E b \in Blocks : AcceptBlockHeader(b)
    \/ \E t \in Threads, b \in Blocks : ProcessNewBlock(t, b)
    \/ \E t \in Threads : ActivateBestChain(t)
    \/ \E t \in Threads, b \in Blocks : InvalidateBlock(t, b)
    \/ \E t \in Threads, b \in Blocks : ReconsiderBlock(t, b)
    \/ \E t \in Threads, b \in Blocks : PreciousBlock(t, b)
    \/ \E t \in Threads : Restart(t)

(***************************************************************************)
(* A thread within ActivateBestChain goes on.  This is weak fairness of    *)
(* ActivateBestChain(t), which can change the state exactly when t is in   *)
(* busy: its enabling condition is written out.                            *)
(***************************************************************************)
GoesOn(t) == []<>(t \notin busy) \/ []<><<ActivateBestChain(t)>>_vars

Spec == Init /\ [][Next]_vars /\ \A t \in Threads : GoesOn(t)

-----------------------------------------------------------------------------
(* A single thread calls ActivateBestChain. *)
Alone == \E t \in Threads : setup.callers = {t}

(* The setups the properties are stated for: any number of callers without *)
(* a user, or one with a user who calls invalidateblock and                *)
(* reconsiderblock, or preciousblock.                                      *)
Regular ==
    \/ setup.calls = {}
    \/ Alone /\ setup.calls \subseteq {"invalidateblock", "reconsiderblock"}
    \/ Alone /\ setup.calls = {"preciousblock"}

NoneInvalid(b) == Branch[b] \cap failedValid = {}

(* The block index is of its type: blocks are linked only with data,       *)
(* candidates, the tip and what callers work towards are linked blocks.    *)
TypeOK ==
    /\ linked \subseteq have /\ have \subseteq known /\ known \subseteq Blocks
    /\ failedValid \cup failedChild \subseteq known
    /\ valid \in [Blocks -> {0, TREE, TRANSACTIONS, SCRIPTS}]
    /\ candidates \subseteq linked
    /\ Waiting \subseteq have
    /\ tip \in linked
    /\ mostWork \in [Threads -> linked \cup {None}]

(* Assertions of CheckBlockIndex on the marks of a block and of its        *)
(* ancestors: nChainTx is set when all of them have data, a block whose    *)
(* scripts were checked is on such blocks only, a sequence number is given *)
(* to linked blocks only, and "the failed mask cannot be set for blocks    *)
(* without invalid parents".                                               *)
MarksConsistent ==
    \A b \in known :
        /\ b \in linked <=> Branch[b] \subseteq have
        /\ b \in have <=> valid[b] >= TRANSACTIONS
        /\ valid[b] = SCRIPTS => \A x \in Branch[b] : valid[x] = SCRIPTS
        /\ b \notin linked => seq[b] <= 0
        /\ Failed(b) => ~NoneInvalid(b)

(* Its assertions on mapBlocksUnlinked, which has every block with data    *)
(* that waits for an ancestor's data, unless one of them was found invalid *)
(* or cannot come, and no block that is linked already.                    *)
UnlinkedComplete ==
    /\ \A b \in have \ linked : NoneInvalid(b) /\ Branch[b] \cap FailsCheck = {} => b \in Waiting
    /\ Waiting \cap linked = {}

(* Its assertions on setBlockIndexCandidates.  The one of                  *)
(* PruneBlockIndexCandidates, that "either the current tip or a successor  *)
(* of it we're working towards is left", for any callers; and for one,     *)
(* between two calls: every linked block is there that is no worse than    *)
(* the tip and on no block found invalid, and no block worse than the tip  *)
(* or not linked.                                                          *)
CandidatesComplete ==
    /\ candidates # {}
    /\ Alone /\ busy = {} =>
        \A b \in known :
            IF b \in linked /\ ~Less(b, tip) THEN NoneInvalid(b) => b \in candidates
            ELSE b \notin candidates

(* What CheckBlockIndex asserts, which the node runs on test networks      *)
(* only: the marks of every block agree with those of its ancestors, and   *)
(* mapBlocksUnlinked and setBlockIndexCandidates have the blocks they are  *)
(* for, after any order of headers, data, user calls and restarts.         *)
CheckBlockIndex ==
    /\ TypeOK
    /\ MarksConsistent
    /\ UnlinkedComplete
    /\ CandidatesComplete

(* No block of the active chain is marked invalid.                         *)
NoInvalidBlockActive == \A b \in chainActive : ~Failed(b)

(* When no caller is within ActivateBestChain, the tip is the best of the  *)
(* blocks that are linked and on no block found invalid: "the result is    *)
(* either failure or an activated best chain".                             *)
TipIsBest == busy = {} => \A b \in linked : NoneInvalid(b) => ~Less(tip, b)

(* No thread leaves a block that is marked invalid in the active chain,    *)
(* and one that is alone in calling ActivateBestChain does find the best   *)
(* chain.                                                                  *)
AloneFindsBest == NoInvalidBlockActive /\ (Alone => TipIsBest)

(* With one thread activating, the active chain changes for one with less  *)
(* work only when a block is found or declared invalid.                    *)
LessWorkOnlyForInvalid ==
    [][Alone /\ nChainWork[tip'] < nChainWork[tip] => failedValid' # failedValid]_vars

(* "Treats a block as if it were received before others with the same      *)
(* work", "a later preciousblock call can override the effect of an        *)
(* earlier one": the block that was made precious last is the tip when it  *)
(* has as much work as the tip and is on no block found invalid.           *)
LastPreciousIsTip ==
    busy = {} /\ nLastPreciousChainwork > 0 =>
        \A b \in linked : /\ seq[b] = nBlockReverseSequenceId + 1
                          /\ nChainWork[b] = nChainWork[tip]
                          /\ NoneInvalid(b)
                          => b = tip

(* Every call of ActivateBestChain ends: whatever the other thread and the *)
(* peers do, a thread is outside of it again and again.                    *)
ActivationEnds == \A t \in Threads : []<>(t \notin busy)
=============================================================================
