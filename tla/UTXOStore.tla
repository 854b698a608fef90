----------------------------- MODULE UTXOStore -----------------------------
(***************************************************************************)
(* What the stack block view / pcoinsTip / CCoinsViewDB promises to its    *)
(* callers, without any cache: three versions of the unspent set, the one  *)
(* a block being connected or disconnected works on, the one of the active *)
(* tip, and the one on disk, each with the block it belongs to.  A version *)
(* only ever moves down as a whole.                                        *)
(***************************************************************************)
CONSTANTS OutPoints, Coins, Spent, Blocks, NoBlock

VARIABLES working, committed, disk

storeVars == <<working, committed, disk>>

Version == [coin : [OutPoints -> Coins \cup {Spent}], best : Blocks \cup {NoBlock}]

Init ==
    /\ disk = [coin |-> [o \in OutPoints |-> Spent], best |-> NoBlock]
    /\ committed = disk
    /\ working = disk

Create(o, c) ==
    /\ working' = [working EXCEPT !.coin[o] = c]
    /\ UNCHANGED <<committed, disk>>

Consume(o) ==
    /\ working' = [working EXCEPT !.coin[o] = Spent]
    /\ UNCHANGED <<committed, disk>>

Name(b) ==
    /\ working' = [working EXCEPT !.best = b]
    /\ UNCHANGED <<committed, disk>>

Commit == committed' = working /\ UNCHANGED <<working, disk>>

Abort == working' = committed /\ UNCHANGED <<committed, disk>>

Persist == disk' = committed /\ UNCHANGED <<working, committed>>

Crash == committed' = disk /\ working' = disk /\ UNCHANGED disk

Next ==
    \/ \E o \in OutPoints, c \in Coins : Create(o, c)
    \/ \E o \in OutPoints : Consume(o)
    \/ \E b \in Blocks : Name(b)
    \/ Commit
    \/ Abort
    \/ Persist
    \/ Crash

Spec == Init /\ [][Next]_storeVars
=============================================================================
