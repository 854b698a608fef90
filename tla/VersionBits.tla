----------------------------- MODULE VersionBits -----------------------------
(***************************************************************************)
(* BIP9 deployments: AbstractThresholdConditionChecker, which computes the *)
(* state of a deployment for the child of a block and remembers it in a    *)
(* cache indexed by block pointers, and the users of the state of the      *)
(* assets deployment, among them the flag fAssetsIsActive.                 *)
(*                                                                         *)
(* A block header is abstracted to whether it signals the deployment and   *)
(* to the phase its median time past falls in: 0 before nTimeStart, 1 from *)
(* then on, 2 from nTimeTimeout on.  The version of a block is outdated    *)
(* when it lacks VERSIONBITS_TOP_BITS_ASSETS.  Everything runs under       *)
(* cs_main, so that each function is one step.                             *)
(***************************************************************************)
EXTENDS Integers, Sequences, FiniteSets, SequencesExt, FiniteSetsExt, TLC

CONSTANTS
    Blocks, NoBlock,
    Parent,           \* of each block; NoBlock for genesis
    Outdated,         \* the blocks with an outdated version
    Indexed,          \* the blocks in the index on disk
    Histories,        \* the headers the blocks may turn out to have
    nPeriod, nThreshold

ASSUME VersionBitsConstants ==
    /\ Parent \in [Blocks -> Blocks \cup {NoBlock}] /\ NoBlock \notin Blocks
    /\ Outdated \subseteq Blocks
    /\ \A b \in Indexed : Parent[b] \in Indexed \cup {NoBlock}
    /\ \A h \in Histories : h \in [signal : [Blocks -> BOOLEAN], time : [Blocks -> 0..2]]
    /\ nPeriod \in Nat \ {0} /\ nThreshold \in 1..nPeriod

(* GetMedianTimePast never decreases along a chain.                        *)
ASSUME TimeIsMonotone ==
    \A h \in Histories, b \in Blocks : Parent[b] \in Blocks => h.time[Parent[b]] <= h.time[b]

VARIABLES
    history,          \* the headers behind the pointers
    mapBlockIndex, tip,
    cache,            \* versionbitscache.caches[DEPLOYMENT_ASSETS]
    fAssetsIsActive

vars == <<history, mapBlockIndex, tip, cache, fAssetsIsActive>>

(* The blocks from genesis to b; the block of height h is the one at h+1.  *)
Path[b \in Blocks \cup {NoBlock}] ==
    IF b = NoBlock THEN <<>> ELSE Append(Path[Parent[b]], b)

Height(b) == Len(Path[b]) - 1

GetAncestor(b, h) == IF h < 0 THEN NoBlock ELSE Path[b][h + 1]

(* The last block of the period before the one the child of b is in.       *)
PeriodEnd(b) == GetAncestor(b, Height(b) - ((Height(b) + 1) % nPeriod))

(* The period ends of b's branch: number 0 is before genesis.              *)
Periods(b) == Len(Path[b]) \div nPeriod
End(b, i) == GetAncestor(b, i * nPeriod - 1)

-----------------------------------------------------------------------------
(* How many of the last blocks up to b satisfy Condition.                  *)
Signalling(b, length) ==
    Cardinality({i \in 0..(length - 1) : history.signal[GetAncestor(b, Height(b) - i)]})

NextState(state, e) ==
    CASE state = "DEFINED" ->
            IF history.time[e] = 2 THEN "FAILED"
            ELSE IF history.time[e] = 1 THEN "STARTED" ELSE state
      [] state = "STARTED" ->
            IF history.time[e] = 2 THEN "FAILED"
            ELSE IF Signalling(e, nPeriod) >= nThreshold THEN "LOCKED_IN" ELSE state
      [] state = "LOCKED_IN" -> "ACTIVE"
      [] OTHER -> state

(* GetStateFor walks back to a period end whose state is in the cache c or *)
(* that lies before the start time, and forward again; it returns the      *)
(* state and leaves in the cache the states it came across.                *)
GetStateFor(b, c) ==
    LET n == Periods(b)
        known == Max({0} \cup {i \in 1..n : End(b, i) \in DOMAIN c \/ history.time[End(b, i)] = 0})
        state[i \in known..n] ==
            IF i > known THEN NextState(state[i - 1], End(b, i))
            ELSE IF End(b, i) \in DOMAIN c THEN c[End(b, i)] ELSE "DEFINED"
        found == {End(b, i) : i \in known..n}
    IN  [state |-> state[n],
         cache |-> c @@ [e \in found |-> state[CHOOSE i \in known..n : End(b, i) = e]]]

SinceAfter(e) == Height(e) + 1

(* It walks back, one period at a time, for as long as the state is the    *)
(* same.                                                                   *)
GetStateSinceHeightFor(b, c) ==
    LET initial == GetStateFor(b, c)
        n == Periods(b)
        Back(w, i) ==
            LET r == GetStateFor(End(b, i), w.cache)
            IN  IF w.done THEN w
                ELSE IF r.state # initial.state THEN [w EXCEPT !.done = TRUE, !.cache = r.cache]
                ELSE [w EXCEPT !.period = i, !.cache = r.cache]
        walk == FoldLeft(Back, [period |-> n, cache |-> initial.cache, done |-> FALSE],
                         [k \in 1..(n - 1) |-> n - k])
    IN  IF initial.state = "DEFINED" THEN [height |-> 0, cache |-> initial.cache]
        ELSE [height |-> SinceAfter(End(b, walk.period)), cache |-> walk.cache]

GetStateStatisticsFor(b) ==
    LET elapsed == Height(b) - Height(PeriodEnd(b))
        count == Signalling(b, elapsed)
    IN  [elapsed |-> elapsed, count |-> count,
         possible |-> nPeriod - nThreshold >= elapsed - count]

-----------------------------------------------------------------------------
(* Mutation: a deployment that is locked in is taken for active.           *)
AreAssetsLockedIn(d, t) ==
    LET r == GetStateFor(t, d.cache)
    IN  IF d.flag THEN d ELSE [cache |-> r.cache, flag |-> r.state \in {"LOCKED_IN", "ACTIVE"}]

(* AreAssetsDeployed asks for the tip, until the answer has been yes once. *)
(* d holds the two pieces of state it changes.                             *)
AreAssetsDeployed(d, t) ==
    LET r == GetStateFor(t, d.cache)
    IN  IF d.flag THEN d ELSE [cache |-> r.cache, flag |-> r.state = "ACTIVE"]

(* ComputeBlockVersion sets the bit of a deployment that is STARTED or     *)
(* LOCKED_IN for the child of b.                                           *)
ComputeBlockVersion(d, t, b) ==
    LET e == AreAssetsDeployed(d, t)
    IN  [e EXCEPT !.cache = GetStateFor(b, e.cache).cache]

(* Out of the initial download UpdateTip computes the version expected of  *)
(* the last blocks.  The 100 it looks at are all blocks here.              *)
UpdateTip(d, t, initialDownload) ==
    IF initialDownload THEN d
    ELSE FoldLeft(LAMBDA e, b : ComputeBlockVersion(e, t, Parent[b]), d, Reverse(Path[t]))

Deployment == [cache |-> cache, flag |-> fAssetsIsActive]
Become(d) == cache' = d.cache /\ fAssetsIsActive' = d.flag

-----------------------------------------------------------------------------
(* A start of the node: the index and the tip are read from disk.          *)
Init ==
    /\ history \in Histories
    /\ mapBlockIndex = Indexed
    /\ tip \in Indexed
    /\ cache = <<>>
    /\ fAssetsIsActive = FALSE

(* Mutation: the cache survives the blocks it refers to.                   *)
UncachedKept == cache
Uncached == <<>>

(* UnloadBlockIndex, when loading the index has failed and is tried again: *)
(* new block index entries may get the addresses of old ones.              *)
UnloadBlockIndex ==
    /\ history' \in Histories
    /\ mapBlockIndex' = Indexed
    /\ tip' \in Indexed
    /\ cache' = Uncached
    /\ UNCHANGED fAssetsIsActive

(* ContextualCheckBlockHeader, on the way into the index: it accepts the   *)
(* header or else returns an error.                                        *)
AcceptBlockHeader(b) ==
    LET d == AreAssetsDeployed(Deployment, tip)
    IN  /\ b \notin mapBlockIndex /\ Parent[b] \in mapBlockIndex
        /\ Become(d)
        /\ mapBlockIndex' = IF d.flag /\ b \in Outdated THEN mapBlockIndex ELSE mapBlockIndex \cup {b}
        /\ UNCHANGED <<history, tip>>

(* Mutation: a block is connected before its header is in the index.       *)
AnyChildren(b) == {c \in Blocks : Parent[c] = b}
Children(b) == {c \in mapBlockIndex : Parent[c] = b}

(* ConnectBlock asks whether assets are deployed at the old tip, and so    *)
(* does DisconnectBlock.                                                   *)
ConnectTip(b, initialDownload) ==
    /\ b \in Children(tip)
    /\ tip' = b
    /\ Become(UpdateTip(AreAssetsDeployed(Deployment, tip), b, initialDownload))
    /\ UNCHANGED <<history, mapBlockIndex>>

DisconnectTip(initialDownload) ==
    /\ Parent[tip] # NoBlock
    /\ tip' = Parent[tip]
    /\ Become(UpdateTip(AreAssetsDeployed(Deployment, tip), Parent[tip], initialDownload))
    /\ UNCHANGED <<history, mapBlockIndex>>

(* getblocktemplate, and getblockchaininfo's BIP9SoftForkDesc.             *)
CreateNewBlock ==
    /\ Become(ComputeBlockVersion(Deployment, tip, tip))
    /\ UNCHANGED <<history, mapBlockIndex, tip>>

BIP9SoftForkDesc ==
    /\ cache' = GetStateSinceHeightFor(tip, GetStateFor(tip, cache).cache).cache
    /\ UNCHANGED <<history, mapBlockIndex, tip, fAssetsIsActive>>

(* Mutation: BIP9SoftForkDesc shows the statistics whatever the state.     *)
AlwaysShown(state) == TRUE
StatisticsShown(state) == state = "STARTED"

Next ==
    \/ UnloadBlockIndex
    \/ CreateNewBlock
    \/ BIP9SoftForkDesc
    \/ \E b \in Blocks : AcceptBlockHeader(b)
    \/ \E initialDownload \in BOOLEAN :
        \/ DisconnectTip(initialDownload)
        \/ \E b \in Blocks : ConnectTip(b, initialDownload)

Spec == Init /\ [][Next]_vars

-----------------------------------------------------------------------------
(***************************************************************************)
(* BIP9 in closed form, without a cache and without a walk: the period     *)
(* that ends with number i locks in when the deployment had started at the *)
(* end before, has not timed out at its own end, and enough of its blocks  *)
(* signal.                                                                 *)
(***************************************************************************)
LocksIn(b, i) ==
    /\ i > 1 /\ history.time[End(b, i - 1)] = 1 /\ history.time[End(b, i)] = 1
    /\ Signalling(End(b, i), nPeriod) >= nThreshold

BIP9State(b) ==
    LET n == Periods(b)
        locked == {i \in 1..n : LocksIn(b, i)}
    IN  IF locked # {} THEN IF Min(locked) = n THEN "LOCKED_IN" ELSE "ACTIVE"
        ELSE IF n = 0 THEN "DEFINED"
        ELSE <<"DEFINED", "STARTED", "FAILED">>[history.time[End(b, n)] + 1]

(* All keys of the cache are null or a block with (height + 1) a multiple  *)
(* of the period, as the comment on ThresholdConditionCache says.          *)
TypeOK ==
    /\ history \in Histories
    /\ mapBlockIndex \subseteq Blocks /\ tip \in mapBlockIndex
    /\ \A e \in DOMAIN cache :
        /\ e # NoBlock => e \in mapBlockIndex /\ (Height(e) + 1) % nPeriod = 0
        /\ cache[e] \in {"DEFINED", "STARTED", "LOCKED_IN", "ACTIVE", "FAILED"}
    /\ fAssetsIsActive \in BOOLEAN

(* GetStateFor gives every block the state BIP9 defines for it, whatever   *)
(* queries, on whatever branches, have filled the cache, and after the     *)
(* index has been loaded again; so the cache and the shortcut at the start *)
(* time do not show.                                                       *)
StateIsBIP9 == \A b \in mapBlockIndex : GetStateFor(b, cache).state = BIP9State(b)

(* GetStateSinceHeightFor gives the height of the first block of the       *)
(* branch from which on all blocks have the state the next block has.      *)
SinceIsFirst ==
    \A b \in mapBlockIndex :
        LET before == [h \in 0..Height(b) |-> IF h = 0 THEN NoBlock ELSE GetAncestor(b, h - 1)]
            same == {h \in 0..Height(b) : \A k \in h..Height(b) : BIP9State(before[k]) = BIP9State(b)}
        IN  GetStateSinceHeightFor(b, cache).height
                = IF same = {} THEN Height(b) + 1 ELSE Min(same)

(* Neither the cache nor the order in which it was filled shows in either  *)
(* answer.                                                                 *)
AnswersAreBIP9 == StateIsBIP9 /\ SinceIsFirst

(* The statistics getblockchaininfo shows are computed only where there is *)
(* a period before, whose last block GetStateStatisticsFor dereferences,   *)
(* and a period they call impossible does not lock in on any branch.       *)
StatisticsTell ==
    StatisticsShown(GetStateFor(tip, cache).state) =>
        /\ PeriodEnd(tip) # NoBlock
        /\ ~GetStateStatisticsFor(tip).possible =>
            \A e \in Blocks : tip \in ToSet(Path[e]) /\ Periods(e) = Periods(tip) + 1
                                => BIP9State(e) # "LOCKED_IN"

(* Assets come to count as deployed only at a tip whose next block has the *)
(* deployment active: no state of another branch, of another period or of  *)
(* an index loaded before is taken for it.                                 *)
DeployedOnlyWhenActive ==
    [][~fAssetsIsActive /\ fAssetsIsActive' =>
        BIP9State(tip) = "ACTIVE" \/ (BIP9State(tip) = "ACTIVE")']_vars
=============================================================================
