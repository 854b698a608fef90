------------------------------ MODULE Scheduler ------------------------------
(***************************************************************************)
(* CScheduler, whose threads run tasks when their time has come, and       *)
(* SingleThreadedSchedulerClient, which runs callbacks one after another   *)
(* on whatever scheduler threads there are.                                *)
(*                                                                         *)
(* A task is a timed job or a call of ProcessQueue.  What is done under a  *)
(* mutex is one step, and a notification is a step of its own where it is  *)
(* sent after the mutex has been released.  The clock does not go back.    *)
(***************************************************************************)
EXTENDS Integers, Sequences, FiniteSets, Functions

CONSTANTS
    Threads,        \* in serviceQueue
    Producers,      \* call AddToProcessQueue
    Jobs,           \* tasks that are scheduled for a later time
    MaxTime,        \* bound on the clock
    MaxCallbacks    \* bound on the callbacks added

Main == "main"
Actors == Threads \cup Producers \cup {Main}
ProcessQueueTask == "ProcessQueue"

ASSUME SchedulerConstants ==
    /\ MaxTime \in Nat /\ MaxCallbacks \in Nat /\ IsFiniteSet(Threads)
    /\ Threads \cap Producers = {} /\ Main \notin Threads \cup Producers
    /\ ProcessQueueTask \notin Jobs

VARIABLES
    now,
    taskQueue,      \* pairs of time and task, in the order of the multimap
    nThreadsServicingQueue, stopRequested, stopWhenEmpty,
    interrupted,    \* the threads have been interrupted
    m_callbacks_pending, m_are_callbacks_running,
    pc,             \* where each actor is
    deadline,       \* the time each thread waits for
    added, ran,     \* the callbacks in the order they were added and started
    unscheduled     \* the jobs not scheduled yet

queueVars == <<taskQueue, nThreadsServicingQueue, deadline, unscheduled>>
stopVars == <<stopRequested, stopWhenEmpty, interrupted>>
clientVars == <<m_callbacks_pending, m_are_callbacks_running, added, ran>>
vars == <<now, queueVars, stopVars, clientVars, pc>>

Init ==
    /\ now = 0 /\ taskQueue = <<>> /\ nThreadsServicingQueue = 0
    /\ stopRequested = FALSE /\ stopWhenEmpty = FALSE /\ interrupted = FALSE
    /\ m_callbacks_pending = <<>> /\ m_are_callbacks_running = FALSE
    /\ pc = [a \in Actors |-> IF a \in Threads THEN "start" ELSE "idle"]
    /\ deadline = [t \in Threads |-> 0]
    /\ added = <<>> /\ ran = <<>> /\ unscheduled = Jobs

Goto(a, place) == pc' = [pc EXCEPT ![a] = place]

shouldStop == stopRequested \/ (stopWhenEmpty /\ taskQueue = <<>>)

(* newTaskScheduled: the threads that sleep on it, and what pc may become. *)
Asleep == {t \in Threads : pc[t] \in {"wait", "wait_until"}}
NotifyAll(p) == {[a \in Actors |-> IF a \in Asleep THEN "awake" ELSE p[a]]}
NotifyOne(p) == IF Asleep = {} THEN {p} ELSE {[p EXCEPT ![t] = "awake"] : t \in Asleep}

(* Mutation: the first place is taken for a task. *)
BeforeAll(i, time) == i = 1

(* The place of a new task of that time: behind those of the same time. *)
PlaceOf(i, time) ==
    /\ \A k \in 1..i-1 : taskQueue[k].time <= time
    /\ \A k \in i..Len(taskQueue) : taskQueue[k].time > time

Inserted(i, entry) ==
    [k \in 1..Len(taskQueue)+1 |->
        IF k < i THEN taskQueue[k] ELSE IF k = i THEN entry ELSE taskQueue[k-1]]

-----------------------------------------------------------------------------
(* serviceQueue.  Under the mutex a thread leaves, or waits for a task, or *)
(* waits for the time of the first task.                                   *)
Serve(t) ==
    IF shouldStop
    THEN /\ nThreadsServicingQueue' = nThreadsServicingQueue - (IF pc[t] = "start" THEN 0 ELSE 1)
         /\ pc' \in NotifyOne([pc EXCEPT ![t] = "ended"])
         /\ UNCHANGED deadline
    ELSE /\ nThreadsServicingQueue' = nThreadsServicingQueue + (IF pc[t] = "start" THEN 1 ELSE 0)
         /\ IF taskQueue = <<>>
            THEN Goto(t, "wait") /\ UNCHANGED deadline
            ELSE Goto(t, "wait_until") /\ deadline' = [deadline EXCEPT ![t] = taskQueue[1].time]

ServiceQueue(t) ==
    /\ pc[t] \in {"start", "next", "awake"}
    /\ Serve(t)
    /\ UNCHANGED <<now, taskQueue, unscheduled, stopVars, clientVars>>

WakeSpuriously(t) ==
    /\ t \in Asleep
    /\ Goto(t, "awake")
    /\ UNCHANGED <<now, queueVars, stopVars, clientVars>>

Timeout(t) ==
    /\ pc[t] = "wait_until" /\ now >= deadline[t]
    /\ Goto(t, "timeout")
    /\ UNCHANGED <<now, queueVars, stopVars, clientVars>>

(* After a timeout the thread takes the first task, whichever that is now. *)
TakeTask(t) ==
    /\ pc[t] = "timeout"
    /\ IF shouldStop \/ taskQueue = <<>>
       THEN Serve(t) /\ UNCHANGED taskQueue
       ELSE /\ taskQueue' = Tail(taskQueue)
            /\ Goto(t, IF taskQueue[1].task \in Jobs THEN "job" ELSE "process")
            /\ UNCHANGED <<nThreadsServicingQueue, deadline>>
    /\ UNCHANGED <<now, unscheduled, stopVars, clientVars>>

FinishJob(t) ==
    /\ pc[t] = "job" /\ Goto(t, "next")
    /\ UNCHANGED <<now, queueVars, stopVars, clientVars>>

(* thread_interrupted ends a wait and serviceQueue.                        *)
Interrupt(t) ==
    /\ interrupted /\ pc[t] \in {"wait", "wait_until", "awake", "timeout"}
    /\ nThreadsServicingQueue' = nThreadsServicingQueue - 1
    /\ Goto(t, "ended")
    /\ UNCHANGED <<now, taskQueue, deadline, unscheduled, stopVars, clientVars>>

-----------------------------------------------------------------------------
(* SingleThreadedSchedulerClient.                                          *)
Return(a) == IF a \in Threads THEN "next" ELSE IF a = Main THEN "emptied" ELSE "idle"

(* Peers and RPC are gone before the remaining callbacks are run.          *)
Producing == pc[Main] \in {"idle", "notify_all", "join"}

AddToProcessQueue(p) ==
    /\ pc[p] = "idle" /\ Producing /\ Len(added) < MaxCallbacks
    /\ m_callbacks_pending' = Append(m_callbacks_pending, Len(added) + 1)
    /\ added' = Append(added, Len(added) + 1)
    /\ Goto(p, "maybe")
    /\ UNCHANGED <<now, queueVars, stopVars, m_are_callbacks_running, ran>>

MaybeScheduleProcessQueue(a) ==
    /\ pc[a] = "maybe"
    /\ Goto(a, IF m_are_callbacks_running \/ m_callbacks_pending = <<>> THEN Return(a) ELSE "schedule")
    /\ UNCHANGED <<now, queueVars, stopVars, clientVars>>

(* schedule, and its notification: for now, or for a later time.           *)
Schedule(a, task, time) ==
    /\ \E i \in 1..Len(taskQueue)+1 :
          PlaceOf(i, time) /\ taskQueue' = Inserted(i, [time |-> time, task |-> task])
    /\ Goto(a, "notify")
    /\ UNCHANGED <<now, nThreadsServicingQueue, deadline, stopVars, clientVars>>

ScheduleProcessQueue(a) ==
    /\ pc[a] = "schedule"
    /\ Schedule(a, ProcessQueueTask, now)
    /\ UNCHANGED unscheduled

ScheduleJob(p, j, time) ==
    /\ pc[p] = "idle" /\ Producing /\ time > now
    /\ j \in unscheduled /\ unscheduled' = unscheduled \ {j}
    /\ Schedule(p, j, time)

(* Mutation: no thread is told of a new task.                              *)
NotifyNobody(p) == {p}
NewTask(p) == NotifyOne(p)

Notify(a) ==
    /\ pc[a] = "notify"
    /\ pc' \in NewTask([pc EXCEPT ![a] = Return(a)])
    /\ UNCHANGED <<now, queueVars, stopVars, clientVars>>

(* Mutation: ProcessQueue does not look whether callbacks are running.     *)
MayProcessAnyway == m_callbacks_pending # <<>>
MayProcess == ~m_are_callbacks_running /\ m_callbacks_pending # <<>>

TakeFront == <<Head(m_callbacks_pending), Tail(m_callbacks_pending)>>

ProcessQueue(a) ==
    /\ pc[a] = "process"
    /\ IF MayProcess
       THEN /\ m_are_callbacks_running' = TRUE
            /\ ran' = Append(ran, TakeFront[1])
            /\ m_callbacks_pending' = TakeFront[2]
            /\ Goto(a, "callback")
       ELSE Goto(a, Return(a)) /\ UNCHANGED <<m_are_callbacks_running, ran, m_callbacks_pending>>
    /\ UNCHANGED <<now, queueVars, stopVars, added>>

(* Mutation: callbacks added meanwhile are left for the next caller.       *)
LeaveToNext(a) == Return(a)
AfterCallback(a) == "maybe"

(* ~RAIICallbacksRunning, whether or not the callback throws.              *)
CallbackDone(a) ==
    /\ pc[a] = "callback"
    /\ m_are_callbacks_running' = FALSE
    /\ Goto(a, AfterCallback(a))
    /\ UNCHANGED <<now, queueVars, stopVars, m_callbacks_pending, added, ran>>

-----------------------------------------------------------------------------
(* The main thread stops the scheduler's threads, or interrupts them, ...  *)
Stop(drain) ==
    /\ pc[Main] = "idle"
    /\ IF drain THEN stopWhenEmpty' = TRUE /\ UNCHANGED stopRequested
       ELSE stopRequested' = TRUE /\ UNCHANGED stopWhenEmpty
    /\ Goto(Main, "notify_all")
    /\ UNCHANGED <<now, queueVars, interrupted, clientVars>>

(* Mutation: stop wakes no thread.                                         *)
WakeNoneStopped(p) == {p}
WakeStopped(p) == NotifyAll(p)

NotifyStop ==
    /\ pc[Main] = "notify_all"
    /\ pc' \in WakeStopped([pc EXCEPT ![Main] = "join"])
    /\ UNCHANGED <<now, queueVars, stopVars, clientVars>>

InterruptAll ==
    /\ pc[Main] = "idle"
    /\ interrupted' = TRUE
    /\ Goto(Main, "join")
    /\ UNCHANGED <<now, queueVars, stopRequested, stopWhenEmpty, clientVars>>

(* ... and, with the threads joined and no producer left, calls EmptyQueue.*)
EmptyQueue ==
    /\ \/ /\ pc[Main] = "join" /\ nThreadsServicingQueue = 0
          /\ \A t \in Threads : pc[t] = "ended"
          /\ \A p \in Producers : pc[p] = "idle"
          /\ Goto(Main, "process")
       \/ /\ pc[Main] = "emptied"
          /\ Goto(Main, IF m_callbacks_pending # <<>> THEN "process" ELSE "empty")
    /\ UNCHANGED <<now, queueVars, stopVars, clientVars>>

(* Time passes.                                                            *)
Tick == now < MaxTime /\ now' = now + 1 /\ UNCHANGED <<queueVars, stopVars, clientVars, pc>>

Ended == pc[Main] = "empty" /\ UNCHANGED vars

ThreadStep(t) == ServiceQueue(t) \/ Timeout(t) \/ TakeTask(t) \/ FinishJob(t) \/ Interrupt(t)

ClientStep(a) ==
    MaybeScheduleProcessQueue(a) \/ ScheduleProcessQueue(a) \/ Notify(a) \/ ProcessQueue(a) \/ CallbackDone(a)

Next ==
    \/ Tick \/ Ended \/ InterruptAll \/ NotifyStop \/ EmptyQueue
    \/ \E drain \in BOOLEAN : Stop(drain)
    \/ \E p \in Producers :
        AddToProcessQueue(p) \/ \E j \in Jobs, time \in 1..MaxTime : ScheduleJob(p, j, time)
    \/ \E t \in Threads : ThreadStep(t) \/ WakeSpuriously(t)
    \/ \E a \in Actors : ClientStep(a)

Spec == Init /\ [][Next]_vars

(* Every thread that can run does, an interruption is delivered, and waits *)
(* that time out are not for ever cut short by wake-ups without a reason;  *)
(* nobody has to add anything or to stop the scheduler.                    *)
FairSpec ==
    /\ Spec /\ WF_vars(Tick) /\ WF_vars(NotifyStop) /\ WF_vars(EmptyQueue)
    /\ \A t \in Threads : WF_vars(ThreadStep(t)) /\ WF_vars(Interrupt(t)) /\ SF_vars(Timeout(t))
    /\ \A a \in Actors : WF_vars(ClientStep(a))

-----------------------------------------------------------------------------
(* The values the variables take; the tasks are in the order of their      *)
(* times, and nThreadsServicingQueue counts the threads in serviceQueue.   *)
TypeOK ==
    /\ now \in 0..MaxTime
    /\ \A i, j \in DOMAIN taskQueue : i < j => taskQueue[i].time <= taskQueue[j].time
    /\ nThreadsServicingQueue = Cardinality({t \in Threads : pc[t] \notin {"start", "ended"}})
    /\ {stopRequested, stopWhenEmpty, interrupted, m_are_callbacks_running} \subseteq BOOLEAN

(* "no two jobs will be executed at the same time", however many threads   *)
(* have a ProcessQueue to run ...                                          *)
OneAtATime == \A a, b \in Actors : pc[a] = "callback" /\ pc[b] = "callback" => a = b

(* ... and they run in the order in which they were added, each once: what *)
(* was added is what has been started and, behind it, what is pending.     *)
RanInOrder == added = ran \o m_callbacks_pending

(* Callbacks are serial and in order, on however many threads.             *)
SerialInOrder == OneAtATime /\ RanInOrder

(* As long as a callback is pending, some actor is bound to come to it: a  *)
(* callback runs, a ProcessQueue is scheduled or about to be, or somebody  *)
(* has yet to look.                                                        *)
NoneStranded ==
    m_callbacks_pending # <<>> =>
        \/ \E i \in DOMAIN taskQueue : taskQueue[i].task = ProcessQueueTask
        \/ \E a \in Actors : pc[a] \in {"process", "callback", "maybe", "schedule", "emptied"}

(* Unless the threads are told to stop, every callback added is started.   *)
CallbacksRun ==
    \A k \in 1..MaxCallbacks :
        k \in Range(added) ~> (k \in Range(ran) \/ pc[Main] # "idle")

(* A stop, draining or not, or an interruption ends all threads, after     *)
(* which EmptyQueue comes to its end, with every callback run.             *)
StopEnds == pc[Main] # "idle" ~> pc[Main] = "empty" /\ ran = added
=============================================================================
