----------------------------- MODULE CheckQueue -----------------------------
(***************************************************************************)
(* CCheckQueue, by which ConnectBlock has the scripts of a block checked   *)
(* in parallel, and CCheckQueueControl, which owns the queue for one       *)
(* block.  The thread that owns it (the master) adds checks and then works *)
(* on the queue itself until all checks are done.                          *)
(*                                                                         *)
(* A check is the Boolean it evaluates to.  What a thread does while it    *)
(* holds the mutex is one step; waiting on a condition variable releases   *)
(* the mutex, may end without a notification and, in a worker, may be      *)
(* interrupted when the node shuts down.                                   *)
(***************************************************************************)
EXTENDS Integers, Sequences, FiniteSets, FiniteSetsExt

CONSTANTS
    Masters, Workers, NoThread,
    nBatchSize,
    MaxAdd,       \* bound on the checks of one Add
    MaxChecks     \* bound on the checks of one block

ASSUME CheckQueueConstants ==
    /\ Masters \cap Workers = {} /\ NoThread \notin Masters \cup Workers
    /\ nBatchSize \in Nat \ {0}

VARIABLES
    queue,        \* the checks not taken yet
    nIdle, nTotal, fAllOk, nTodo,
    ControlMutex, \* its owner, or NoThread
    pc,           \* where each thread is
    vChecks,      \* the batch each thread has taken
    fOk,          \* and its result so far
    fRet,         \* what Wait returned to the owner last
    added         \* the checks its owner has added since it took the queue

shared == <<queue, nIdle, nTotal, fAllOk, nTodo>>
local == <<vChecks, fOk>>
control == <<ControlMutex, fRet, added>>
vars == <<shared, local, control, pc>>

Threads == Masters \cup Workers

Init ==
    /\ queue = <<>> /\ nIdle = 0 /\ nTotal = 0 /\ fAllOk = TRUE /\ nTodo = 0
    /\ pc = [t \in Threads |-> IF t \in Masters THEN "out" ELSE "enter"]
    /\ vChecks = [t \in Threads |-> <<>>] /\ fOk = [t \in Threads |-> TRUE]
    /\ ControlMutex = NoThread /\ fRet = TRUE /\ added = <<>>

Goto(t, place) == pc' = [pc EXCEPT ![t] = place]

(* condWorker and condMaster: who sleeps on them, and their notifications. *)
Asleep(S) == {t \in S : pc[t] = "asleep"}
NotifyAll(S) == [t \in Threads |-> IF t \in Asleep(S) THEN "awake" ELSE pc[t]]
NotifyOne(S) == IF Asleep(S) = {} THEN {pc} ELSE {[pc EXCEPT ![t] = "awake"] : t \in Asleep(S)}

-----------------------------------------------------------------------------
(***************************************************************************)
(* CCheckQueueControl: the constructor takes ControlMutex, Add puts checks *)
(* on the queue and wakes one worker or all of them, Wait (called by       *)
(* ConnectBlock or else by the destructor) enters Loop as the master, and  *)
(* the destructor leaves ControlMutex.                                     *)
(***************************************************************************)
Control(m) ==
    /\ pc[m] = "out" /\ ControlMutex = NoThread
    /\ ControlMutex' = m
    /\ added' = <<>>
    /\ Goto(m, "control")
    /\ UNCHANGED <<shared, local, fRet>>

Add(m, checks) ==
    /\ pc[m] = "control"
    /\ Len(added) + Len(checks) <= MaxChecks
    /\ queue' = queue \o checks
    /\ nTodo' = nTodo + Len(checks)
    /\ added' = added \o checks
    /\ CASE Len(checks) = 0 -> UNCHANGED pc
         [] Len(checks) = 1 -> pc' \in NotifyOne(Workers)
         [] OTHER -> pc' = NotifyAll(Workers)
    /\ UNCHANGED <<nIdle, nTotal, fAllOk, local, ControlMutex, fRet>>

Wait(m) == pc[m] = "control" /\ Goto(m, "enter") /\ UNCHANGED <<shared, local, control>>

Release(m) ==
    /\ pc[m] = "returned"
    /\ ControlMutex' = NoThread
    /\ Goto(m, "out")
    /\ UNCHANGED <<shared, local, fRet, added>>

-----------------------------------------------------------------------------
(***************************************************************************)
(* Loop.  Under the mutex a thread first accounts for the batch it has     *)
(* done, or for itself in the first round, and then, in a loop around the  *)
(* wait, returns, goes to sleep or takes a batch.  The state within that   *)
(* critical section is a record s.  fQuit is never set.                    *)
(***************************************************************************)

(* Mutation: a master may return once nothing is left to be taken.         *)
MayReturnOnEmpty(t, s) == t \in Masters
MayReturn(t, s) == t \in Masters /\ s.nTodo = 0

(* Mutation: the result is not reset for the next block.                   *)
KeptResult(s) == s.fAllOk
ResetResult(s) == TRUE

Cleared(t) == [vChecks EXCEPT ![t] = <<>>]

Return(t, s) ==
    /\ fRet' = s.fAllOk /\ fAllOk' = ResetResult(s)
    /\ nTotal' = s.nTotal - 1 /\ nIdle' = s.nIdle
    /\ pc' = [s.pc EXCEPT ![t] = "returned"]
    /\ vChecks' = Cleared(t)
    /\ UNCHANGED <<queue, fOk>>

Sleep(t, s) ==
    /\ fAllOk' = s.fAllOk /\ nTotal' = s.nTotal /\ nIdle' = s.nIdle + 1
    /\ pc' = [s.pc EXCEPT ![t] = "asleep"]
    /\ vChecks' = Cleared(t)
    /\ UNCHANGED <<queue, fOk, fRet>>

BatchSize(s) == Max({1, Min({nBatchSize, Len(queue) \div (s.nTotal + s.nIdle + 1)})})

Take(t, s) ==
    LET nNow == BatchSize(s)
    IN  /\ fAllOk' = s.fAllOk /\ nTotal' = s.nTotal /\ nIdle' = s.nIdle
        /\ vChecks' = [vChecks EXCEPT ![t] = [i \in 1..nNow |-> queue[Len(queue) - i + 1]]]
        /\ queue' = SubSeq(queue, 1, Len(queue) - nNow)
        /\ fOk' = [fOk EXCEPT ![t] = s.fAllOk]
        /\ pc' = [s.pc EXCEPT ![t] = "working"]
        /\ UNCHANGED fRet

LoopHead(t, s) ==
    /\ nTodo' = s.nTodo
    /\ CASE queue # <<>> -> Take(t, s)
         [] queue = <<>> /\ MayReturn(t, s) -> Return(t, s)
         [] OTHER -> Sleep(t, s)
    /\ UNCHANGED <<ControlMutex, added>>

Current == [nTodo |-> nTodo, nTotal |-> nTotal, nIdle |-> nIdle, fAllOk |-> fAllOk, pc |-> pc]

Enter(t) == pc[t] = "enter" /\ LoopHead(t, [Current EXCEPT !.nTotal = @ + 1])

Wake(t) == pc[t] = "awake" /\ LoopHead(t, [Current EXCEPT !.nIdle = @ - 1])

(* Mutation: a batch counts as one check.                                  *)
OneDone(t) == 1
Done(t) == Len(vChecks[t])

(* Mutation: a worker that did the last check does not tell the master.    *)
TellNobody(t, todo) == pc

(* Only the owner can sleep on condMaster, so notify_one wakes all.        *)
TellMaster(t, todo) == IF todo = 0 /\ t \notin Masters THEN NotifyAll(Masters) ELSE pc

Again(t) ==
    LET todo == nTodo - Done(t)
    IN  /\ pc[t] = "done"
        /\ LoopHead(t, [Current EXCEPT !.nTodo = todo, !.fAllOk = @ /\ fOk[t],
                                       !.pc = TellMaster(t, todo)])

(* The checks of a batch are evaluated without the mutex, until one fails. *)
Work(t) ==
    /\ pc[t] = "working"
    /\ fOk' = [fOk EXCEPT ![t] = @ /\ FALSE \notin Range(vChecks[t])]
    /\ Goto(t, "done")
    /\ UNCHANGED <<shared, vChecks, control>>

(* A wait ends without a notification ...                                  *)
WakeSpuriously(t) ==
    pc[t] = "asleep" /\ Goto(t, "awake") /\ UNCHANGED <<shared, local, control>>

(* ... or with thread_interrupted, which leaves nIdle and nTotal as they   *)
(* are; a notification the worker was given is lost with it.               *)
Interrupt(t) ==
    /\ t \in Workers /\ pc[t] \in {"asleep", "awake"}
    /\ Goto(t, "interrupted")
    /\ UNCHANGED <<shared, local, control>>

Checks == UNION {[1..n -> BOOLEAN] : n \in 0..MaxAdd}

Loop(t) == Enter(t) \/ Again(t) \/ Wake(t) \/ Work(t)

Next ==
    \/ \E m \in Masters : Control(m) \/ Wait(m) \/ Release(m)
    \/ \E m \in Masters, checks \in Checks : Add(m, checks)
    \/ \E t \in Threads : Enter(t) \/ Again(t) \/ Wake(t) \/ Work(t)
    \/ \E t \in Threads : WakeSpuriously(t)
    \/ \E t \in Workers : Interrupt(t)

(* A thread that is not asleep goes on; checks end.                        *)
Spec == Init /\ [][Next]_vars /\ \A t \in Threads : WF_vars(Loop(t))

-----------------------------------------------------------------------------
(* The state is of its type, and no thread holds a batch it is not at.     *)
TypeOK ==
    /\ queue \in Seq(BOOLEAN) /\ fAllOk \in BOOLEAN /\ fRet \in BOOLEAN
    /\ {nIdle, nTotal, nTodo} \subseteq Nat
    /\ ControlMutex \in Masters \cup {NoThread}
    /\ pc \in [Threads -> {"out", "control", "enter", "working", "done", "asleep", "awake",
                           "interrupted", "returned"}]
    /\ \A t \in Threads : vChecks[t] # <<>> => pc[t] \in {"working", "done"}

(* Checks point into the block that is being connected: once the owner's   *)
(* Wait has returned, and until the next block's checks are added, no      *)
(* check is queued and no worker holds one.                                *)
NoCheckOutlivesWait ==
    (ControlMutex = NoThread \/ \E m \in Masters : pc[m] = "returned")
    => queue = <<>> /\ \A t \in Threads : vChecks[t] = <<>>

(* Wait returns whether all the checks of this block, and only of this     *)
(* block, evaluate to true, whichever threads evaluated or skipped them.   *)
WaitTellsAll ==
    \A m \in Masters : pc[m] = "returned" => (fRet <=> FALSE \notin Range(added))

(* The checks in the batches of threads, each with its thread.             *)
Held == UNION {{t} \X DOMAIN vChecks[t] : t \in Threads}

(* nTodo is the number of checks queued or in some thread's batch, so that *)
(* it reaches 0 (and is never decremented below) exactly at the end.       *)
TodoIsExact ==
    /\ TypeOK
    /\ nTodo = Len(queue) + Cardinality(Held)

(* Every Wait returns: no wake-up of the master is lost, even when all     *)
(* workers have been interrupted.                                          *)
WaitEnds == \A m \in Masters : pc[m] = "enter" ~> pc[m] = "returned"
=============================================================================
