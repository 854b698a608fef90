--------------------------- MODULE SchedulerProofs ---------------------------
(***************************************************************************)
(* Callbacks run one at a time, in the order in which they were added, and *)
(* none is stranded between the two queues: for any number of scheduler    *)
(* threads, producers, jobs and callbacks.                                 *)
(*                                                                         *)
(* OneAtATime is not inductive: ProcessQueue looks at                      *)
(* m_are_callbacks_running and not at the other threads, so the invariant  *)
(* ties that flag to the threads that are within a callback.               *)
(***************************************************************************)
EXTENDS Scheduler, FiniteSetTheorems, SequenceTheorems, TLAPS

Places == {"start", "next", "awake", "wait", "wait_until", "timeout", "job", "ended",
           "idle", "maybe", "schedule", "notify", "process", "callback",
           "emptied", "empty", "notify_all", "join"}

(* An actor at one of these places will come to the pending callbacks. *)
Bound == {"process", "callback", "maybe", "schedule", "emptied"}

Tasks == [time : Nat, task : Jobs \cup {ProcessQueueTask}]

Typed ==
    /\ now \in Nat
    /\ taskQueue \in Seq(Tasks)
    /\ m_callbacks_pending \in Seq(Nat) /\ added \in Seq(Nat) /\ ran \in Seq(Nat)
    /\ m_are_callbacks_running \in BOOLEAN
    /\ pc \in [Actors -> Places]

FlagTells == m_are_callbacks_running <=> \E a \in Actors : pc[a] = "callback"

ClientInv == Typed /\ FlagTells /\ SerialInOrder /\ NoneStranded

Scheduled(queue) == \E i \in DOMAIN queue : queue[i].task = ProcessQueueTask

-----------------------------------------------------------------------------
(* Callbacks are numbers: how sequences of them are put together does not  *)
(* matter.                                                                 *)
LEMMA Regrouped ==
  ASSUME NEW a \in Seq(Nat), NEW b \in Seq(Nat), NEW c \in Seq(Nat)
  PROVE  (a \o b) \o c = a \o (b \o c)
  BY ConcatAssociative, SMTT(30)

(* Taking the first pending callback and appending it to those that ran    *)
(* leaves the two together as they were (ProcessQueue).                    *)
LEMMA MoveFront ==
  ASSUME NEW r \in Seq(Nat), NEW q \in Seq(Nat), q # <<>>
  PROVE  /\ Append(r, Head(q)) \in Seq(Nat) /\ Tail(q) \in Seq(Nat)
         /\ Append(r, Head(q)) \o Tail(q) = r \o q
  <1>1. Head(q) \in Nat /\ Tail(q) \in Seq(Nat) /\ Append(r, Head(q)) \in Seq(Nat)
    OBVIOUS
  <1>2. Append(r, Head(q)) = r \o <<Head(q)>> /\ <<Head(q)>> \in Seq(Nat)
    BY <1>1, AppendIsConcat
  <1>3. <<Head(q)>> \o Tail(q) = q
    OBVIOUS
  <1>4. (r \o <<Head(q)>>) \o Tail(q) = r \o (<<Head(q)>> \o Tail(q))
    BY <1>1, <1>2, Regrouped, ZenonT(40)
  <1> QED BY <1>1, <1>2, <1>3, <1>4, Zenon

(* Adding a callback adds it behind the pending ones (AddToProcessQueue).  *)
LEMMA AddBack ==
  ASSUME NEW r \in Seq(Nat), NEW q \in Seq(Nat), NEW n \in Nat
  PROVE  Append(r \o q, n) = r \o Append(q, n)
  <1>1. Append(r \o q, n) = (r \o q) \o <<n>> /\ Append(q, n) = q \o <<n>>
    BY AppendIsConcat, ConcatProperties, SMTT(30)
  <1>2. (r \o q) \o <<n>> = r \o (q \o <<n>>)
    <2>1. <<n>> \in Seq(Nat)
      OBVIOUS
    <2> QED BY <2>1, Regrouped, Zenon
  <1> QED BY <1>1, <1>2, Zenon

(* A task inserted into the queue is in it, and so are the tasks that were *)
(* (schedule).                                                             *)
LEMMA InsertKeeps ==
  ASSUME taskQueue \in Seq(Tasks), NEW i \in 1..Len(taskQueue)+1, NEW e \in Tasks
  PROVE  /\ Inserted(i, e) \in Seq(Tasks)
         /\ Scheduled(taskQueue) \/ e.task = ProcessQueueTask => Scheduled(Inserted(i, e))
  <1> DEFINE s == Inserted(i, e)
  <1>1. /\ s \in Seq(Tasks) /\ DOMAIN s = 1..Len(taskQueue)+1 /\ s[i] = e
        /\ \A k \in 1..Len(taskQueue) : s[IF k < i THEN k ELSE k+1] = taskQueue[k]
    BY DEF Inserted
  <1> HIDE DEF s
  <1>2. ASSUME NEW k \in DOMAIN taskQueue, taskQueue[k].task = ProcessQueueTask PROVE Scheduled(s)
    BY <1>1, <1>2 DEF Scheduled
  <1>3. e.task = ProcessQueueTask => Scheduled(s)
    BY <1>1 DEF Scheduled
  <1> QED BY <1>1, <1>2, <1>3 DEF Scheduled, s

-----------------------------------------------------------------------------
(* A notification changes nothing but that threads asleep become awake.    *)
LEMMA Notified ==
  ASSUME Typed, NEW p \in [Actors -> Places], \A t \in Asleep : p[t] = pc[t],
         pc' \in NotifyOne(p) \cup NotifyAll(p)
  PROVE  /\ pc' \in [Actors -> Places]
         /\ \A a \in Actors : \/ pc'[a] = p[a]
                              \/ p[a] \in {"wait", "wait_until"} /\ pc'[a] = "awake"
  <1>1. Asleep \subseteq Actors /\ \A t \in Asleep : p[t] \in {"wait", "wait_until"}
    BY DEF Asleep, Actors
  <1>2. CASE pc' \in NotifyOne(p)
    BY <1>1, <1>2 DEF NotifyOne, Places
  <1>3. CASE pc' \in NotifyAll(p)
    BY <1>1, <1>3 DEF NotifyAll, Places
  <1> QED BY <1>2, <1>3

(* A step that does not touch the client, and takes no actor into or out   *)
(* of a callback, preserves the invariant if it strands no callback.       *)
LEMMA QuietStep ==
  ASSUME ClientInv, UNCHANGED clientVars,
         now' \in Nat, taskQueue' \in Seq(Tasks), pc' \in [Actors -> Places],
         \A a \in Actors : pc'[a] = "callback" <=> pc[a] = "callback",
         NoneStranded'
  PROVE  ClientInv'
  <1>1. Typed'
    BY DEF ClientInv, Typed, clientVars
  <1>2. FlagTells'
    BY DEF ClientInv, FlagTells, clientVars
  <1>3. SerialInOrder'
    BY DEF ClientInv, SerialInOrder, OneAtATime, RanInOrder, clientVars
  <1> QED BY <1>1, <1>2, <1>3 DEF ClientInv

(* ... which it does not do if a scheduled ProcessQueue stays scheduled    *)
(* and actors that are bound to look stay so.                              *)
LEMMA AsidePreserves ==
  ASSUME ClientInv, UNCHANGED clientVars,
         now' \in Nat, taskQueue' \in Seq(Tasks), pc' \in [Actors -> Places],
         \A a \in Actors : pc'[a] = "callback" <=> pc[a] = "callback",
         \A a \in Actors : pc[a] \in Bound => pc'[a] \in Bound,
         Scheduled(taskQueue) => Scheduled(taskQueue')
  PROVE  ClientInv'
  <1>1. NoneStranded'
    BY DEF ClientInv, NoneStranded, Scheduled, Bound, clientVars
  <1> QED BY <1>1, QuietStep

-----------------------------------------------------------------------------
(* serviceQueue under the mutex: a thread that is not at a client's place  *)
(* goes to sleep or ends.                                                  *)
LEMMA ServeAside ==
  ASSUME Typed, NEW t \in Threads, pc[t] \in {"start", "next", "awake", "timeout"}, Serve(t)
  PROVE  /\ pc' \in [Actors -> Places]
         /\ \A a \in Actors : pc'[a] = "callback" <=> pc[a] = "callback"
         /\ \A a \in Actors : pc[a] \in Bound => pc'[a] \in Bound
  <1>0. t \in Actors /\ pc \in [Actors -> Places]
    BY DEF Actors, Typed
  <1>1. CASE shouldStop
    <2> DEFINE p == [pc EXCEPT ![t] = "ended"]
    <2>1. pc' \in NotifyOne(p)
      BY <1>1 DEF Serve
    <2>2. p \in [Actors -> Places] /\ \A x \in Asleep : p[x] = pc[x]
      BY <1>0 DEF Asleep, Places, Actors
    <2>3. /\ pc' \in [Actors -> Places]
          /\ \A a \in Actors : \/ pc'[a] = p[a]
                               \/ p[a] \in {"wait", "wait_until"} /\ pc'[a] = "awake"
      <3> HIDE DEF p
      <3> QED BY <2>1, <2>2, Notified
    <2> QED BY <1>0, <2>3 DEF Bound
  <1>2. CASE ~shouldStop
    BY <1>0, <1>2 DEF Serve, Goto, Places, Bound
  <1> QED BY <1>1, <1>2

(* Each step of a scheduler thread preserves the invariant. *)
LEMMA ThreadPreserves ==
  ASSUME SchedulerConstants, ClientInv, NEW t \in Threads, ThreadStep(t) \/ WakeSpuriously(t)
  PROVE  ClientInv'
  <1>0. Typed /\ t \in Actors /\ pc \in [Actors -> Places] /\ now \in Nat /\ taskQueue \in Seq(Tasks)
    BY DEF ClientInv, Typed, Actors
  <1>1. CASE ServiceQueue(t)
    <2>1. /\ pc' \in [Actors -> Places]
          /\ \A a \in Actors : pc'[a] = "callback" <=> pc[a] = "callback"
          /\ \A a \in Actors : pc[a] \in Bound => pc'[a] \in Bound
      BY <1>0, <1>1, ServeAside DEF ServiceQueue
    <2> QED BY <1>0, <1>1, <2>1, AsidePreserves DEF ServiceQueue
  <1>2. CASE Timeout(t) \/ FinishJob(t) \/ Interrupt(t) \/ WakeSpuriously(t)
    <2>1. /\ pc' \in [Actors -> Places]
          /\ \A a \in Actors : pc'[a] = "callback" <=> pc[a] = "callback"
          /\ \A a \in Actors : pc[a] \in Bound => pc'[a] \in Bound
          /\ UNCHANGED <<now, taskQueue, clientVars>>
      BY <1>0, <1>2 DEF Timeout, FinishJob, Interrupt, WakeSpuriously, Asleep, Goto, Places, Bound, queueVars
    <2> QED BY <1>0, <2>1, AsidePreserves
  <1>3. CASE TakeTask(t) /\ (shouldStop \/ taskQueue = <<>>)
    <2>1. Serve(t) /\ UNCHANGED <<now, taskQueue, clientVars>> /\ pc[t] = "timeout"
      BY <1>3 DEF TakeTask
    <2>2. /\ pc' \in [Actors -> Places]
          /\ \A a \in Actors : pc'[a] = "callback" <=> pc[a] = "callback"
          /\ \A a \in Actors : pc[a] \in Bound => pc'[a] \in Bound
      BY <1>0, <2>1, ServeAside
    <2> QED BY <1>0, <2>1, <2>2, AsidePreserves, SMTT(30)
  <1>4. CASE TakeTask(t) /\ ~(shouldStop \/ taskQueue = <<>>)
    <2>1. /\ taskQueue # <<>> /\ taskQueue' = Tail(taskQueue) /\ pc[t] = "timeout"
          /\ UNCHANGED <<now, clientVars>>
          /\ pc' = [pc EXCEPT ![t] = IF taskQueue[1].task \in Jobs THEN "job" ELSE "process"]
      BY <1>4 DEF TakeTask, Goto
    <2>2. /\ pc' \in [Actors -> Places]
          /\ \A a \in Actors : pc'[a] = "callback" <=> pc[a] = "callback"
          /\ \A a \in Actors : pc[a] \in Bound => pc'[a] \in Bound
      BY <1>0, <2>1 DEF Places, Bound
    <2>3. taskQueue' \in Seq(Tasks)
      BY <1>0, <2>1
    <2>4. CASE taskQueue[1].task \in Jobs
      <3>1. Scheduled(taskQueue) => Scheduled(taskQueue')
        <4> SUFFICES ASSUME NEW k \in DOMAIN taskQueue, taskQueue[k].task = ProcessQueueTask
                     PROVE  Scheduled(taskQueue')
          BY DEF Scheduled
        <4>1. k # 1
          BY <2>4 DEF SchedulerConstants
        <4>2. k-1 \in 1..Len(Tail(taskQueue)) /\ Tail(taskQueue)[k-1] = taskQueue[k]
          BY <1>0, <2>1, <4>1, SMTT(30)
        <4> QED BY <1>0, <2>1, <2>3, <4>2, SMTT(30) DEF Scheduled
      <3> QED BY <1>0, <2>1, <2>2, <2>3, <3>1, AsidePreserves, SMTT(30)
    <2>5. CASE taskQueue[1].task \notin Jobs
      <3>1. NoneStranded'
        BY <1>0, <2>1, <2>5 DEF NoneStranded
      <3> QED BY <1>0, <2>1, <2>2, <2>3, <3>1, QuietStep, SMTT(30)
    <2> QED BY <2>4, <2>5
  <1> QED BY <1>1, <1>2, <1>3, <1>4 DEF ThreadStep

(* schedule puts a task in the queue and leaves those that are there. *)
LEMMA ScheduleInserts ==
  ASSUME Typed, NEW a \in Actors, NEW task \in Jobs \cup {ProcessQueueTask}, NEW time \in Nat,
         Schedule(a, task, time)
  PROVE  /\ taskQueue' \in Seq(Tasks)
         /\ Scheduled(taskQueue) \/ task = ProcessQueueTask => Scheduled(taskQueue')
  <1> DEFINE e == [time |-> time, task |-> task]
  <1>1. PICK i \in 1..Len(taskQueue)+1 : taskQueue' = Inserted(i, e)
    BY DEF Schedule
  <1>2. e \in Tasks /\ e.task = task /\ taskQueue \in Seq(Tasks)
    BY DEF Tasks, Typed
  <1> HIDE DEF e
  <1> QED BY <1>1, <1>2, InsertKeeps, SMTT(30)

(* Each step of a client preserves the invariant. *)
LEMMA ClientPreserves ==
  ASSUME SchedulerConstants, ClientInv, NEW a \in Actors, ClientStep(a)
  PROVE  ClientInv'
  <1>0. Typed /\ pc \in [Actors -> Places] /\ now \in Nat /\ taskQueue \in Seq(Tasks)
    BY DEF ClientInv, Typed
  <1>r. Return(a) \in {"next", "emptied", "idle"}
    BY DEF Return
  <1>1. CASE MaybeScheduleProcessQueue(a)
    <2>1. /\ pc[a] = "maybe" /\ UNCHANGED <<now, taskQueue, clientVars>>
          /\ pc' = [pc EXCEPT ![a] = IF m_are_callbacks_running \/ m_callbacks_pending = <<>>
                                     THEN Return(a) ELSE "schedule"]
      BY <1>1 DEF MaybeScheduleProcessQueue, Goto, queueVars
    <2>2. /\ pc' \in [Actors -> Places]
          /\ \A b \in Actors : pc'[b] = "callback" <=> pc[b] = "callback"
      BY <1>0, <1>r, <2>1 DEF Places
    <2>3. CASE m_are_callbacks_running
      <3>1. PICK b \in Actors : pc[b] = "callback"
        BY <2>3 DEF ClientInv, FlagTells
      <3>2. pc'[b] = "callback"
        BY <2>2, <3>1
      <3>3. NoneStranded'
        BY <3>2 DEF NoneStranded
      <3> QED BY <1>0, <2>1, <2>2, <3>3, QuietStep, SMTT(30)
    <2>4. CASE m_callbacks_pending = <<>>
      <3>1. NoneStranded'
        BY <2>1, <2>4, SMTT(30) DEF NoneStranded, clientVars
      <3> QED BY <1>0, <2>1, <2>2, <3>1, QuietStep, SMTT(30)
    <2>5. CASE ~m_are_callbacks_running /\ m_callbacks_pending # <<>>
      <3>1. pc'[a] = "schedule"
        BY <1>0, <2>1, <2>5, SMTT(30)
      <3>2. NoneStranded'
        BY <3>1 DEF NoneStranded
      <3> QED BY <1>0, <2>1, <2>2, <3>2, QuietStep
    <2> QED BY <2>3, <2>4, <2>5
  <1>2. CASE ScheduleProcessQueue(a)
    <2>1. /\ pc[a] = "schedule" /\ UNCHANGED <<now, clientVars>> /\ pc' = [pc EXCEPT ![a] = "notify"]
          /\ Schedule(a, ProcessQueueTask, now)
      BY <1>2 DEF ScheduleProcessQueue, Schedule, Goto
    <2>2. taskQueue' \in Seq(Tasks) /\ Scheduled(taskQueue')
      BY <1>0, <2>1, ScheduleInserts
    <2>3. /\ pc' \in [Actors -> Places]
          /\ \A b \in Actors : pc'[b] = "callback" <=> pc[b] = "callback"
      BY <1>0, <2>1 DEF Places
    <2>4. NoneStranded'
      BY <2>2 DEF NoneStranded, Scheduled
    <2> QED BY <1>0, <2>1, <2>2, <2>3, <2>4, QuietStep, SMTT(30)
  <1>3. CASE Notify(a)
    <2> DEFINE p == [pc EXCEPT ![a] = Return(a)]
    <2>1. pc[a] = "notify" /\ UNCHANGED <<now, taskQueue, clientVars>> /\ pc' \in NotifyOne(p)
      BY <1>3 DEF Notify, NewTask, queueVars
    <2>2. /\ p \in [Actors -> Places] /\ \A t \in Asleep : p[t] = pc[t]
          /\ \A b \in Actors : p[b] = "callback" <=> pc[b] = "callback"
          /\ \A b \in Actors : pc[b] \in Bound => p[b] \in Bound
      BY <1>0, <1>r, <2>1 DEF Asleep, Places, Bound, Actors
    <2> HIDE DEF p
    <2>3. /\ pc' \in [Actors -> Places]
          /\ \A b \in Actors : \/ pc'[b] = p[b]
                               \/ p[b] \in {"wait", "wait_until"} /\ pc'[b] = "awake"
      BY <1>0, <2>1, <2>2, Notified, SMTT(30)
    <2>4. /\ \A b \in Actors : pc'[b] = "callback" <=> pc[b] = "callback"
          /\ \A b \in Actors : pc[b] \in Bound => pc'[b] \in Bound
      BY <2>2, <2>3 DEF Bound
    <2> QED BY <1>0, <2>1, <2>3, <2>4, AsidePreserves, SMTT(30)
  <1>4. CASE ProcessQueue(a) /\ MayProcess
    <2>1. /\ pc[a] = "process" /\ ~m_are_callbacks_running /\ m_callbacks_pending # <<>>
          /\ m_are_callbacks_running' = TRUE
          /\ ran' = Append(ran, Head(m_callbacks_pending))
          /\ m_callbacks_pending' = Tail(m_callbacks_pending)
          /\ pc' = [pc EXCEPT ![a] = "callback"]
          /\ UNCHANGED <<now, taskQueue, added>>
      BY <1>4 DEF ProcessQueue, MayProcess, TakeFront, Goto, queueVars
    <2>2. /\ ran' \in Seq(Nat) /\ m_callbacks_pending' \in Seq(Nat)
          /\ ran' \o m_callbacks_pending' = ran \o m_callbacks_pending
      BY <1>0, <2>1, MoveFront, ZenonT(40) DEF Typed
    <2>3. Typed'
      BY <1>0, <2>1, <2>2, SMTT(30) DEF Typed, Places
    <2>4. \A b \in Actors : pc[b] # "callback"
      BY <2>1 DEF ClientInv, FlagTells
    <2>5. pc'[a] = "callback" /\ \A b \in Actors : pc'[b] = "callback" => b = a
      BY <1>0, <2>1, <2>4, SMTT(30)
    <2>6. FlagTells' /\ OneAtATime' /\ NoneStranded'
      BY <2>1, <2>5 DEF FlagTells, OneAtATime, NoneStranded
    <2>7. RanInOrder'
      BY <2>1, <2>2, Zenon DEF ClientInv, SerialInOrder, RanInOrder
    <2> QED BY <2>3, <2>6, <2>7, SMTT(30) DEF ClientInv, SerialInOrder
  <1>5. CASE ProcessQueue(a) /\ ~MayProcess
    <2>1. /\ pc[a] = "process" /\ (m_are_callbacks_running \/ m_callbacks_pending = <<>>)
          /\ pc' = [pc EXCEPT ![a] = Return(a)]
          /\ UNCHANGED <<now, taskQueue, clientVars>>
      BY <1>5 DEF ProcessQueue, MayProcess, Goto, queueVars, clientVars
    <2>2. /\ pc' \in [Actors -> Places]
          /\ \A b \in Actors : pc'[b] = "callback" <=> pc[b] = "callback"
      BY <1>0, <1>r, <2>1 DEF Places
    <2>3. m_are_callbacks_running => \E b \in Actors : pc'[b] = "callback"
      BY <2>2 DEF ClientInv, FlagTells
    <2>4. NoneStranded'
      BY <2>1, <2>3, SMTT(30) DEF NoneStranded, clientVars
    <2> QED BY <1>0, <2>1, <2>2, <2>4, QuietStep, SMTT(30)
  <1>6. CASE CallbackDone(a)
    <2>1. /\ pc[a] = "callback" /\ m_are_callbacks_running' = FALSE
          /\ pc' = [pc EXCEPT ![a] = "maybe"]
          /\ UNCHANGED <<now, taskQueue, m_callbacks_pending, added, ran>>
      BY <1>6 DEF CallbackDone, AfterCallback, Goto, queueVars
    <2>2. Typed'
      BY <1>0, <2>1, Zenon DEF Typed, Places
    <2>3. pc'[a] = "maybe" /\ \A b \in Actors : pc'[b] # "callback"
      BY <1>0, <2>1 DEF ClientInv, SerialInOrder, OneAtATime
    <2>4. FlagTells' /\ OneAtATime' /\ NoneStranded'
      BY <2>1, <2>3 DEF FlagTells, OneAtATime, NoneStranded
    <2>5. RanInOrder'
      BY <2>1 DEF ClientInv, SerialInOrder, RanInOrder
    <2> QED BY <2>2, <2>4, <2>5 DEF ClientInv, SerialInOrder
  <1> QED BY <1>1, <1>2, <1>3, <1>4, <1>5, <1>6, SMTT(30) DEF ClientStep

(* Each step of a producer preserves the invariant. *)
LEMMA ProducerPreserves ==
  ASSUME SchedulerConstants, ClientInv, NEW p \in Producers,
         AddToProcessQueue(p) \/ \E j \in Jobs, time \in 1..MaxTime : ScheduleJob(p, j, time)
  PROVE  ClientInv'
  <1>0. Typed /\ p \in Actors /\ pc \in [Actors -> Places] /\ now \in Nat /\ taskQueue \in Seq(Tasks)
    BY DEF ClientInv, Typed, Actors
  <1>1. CASE AddToProcessQueue(p)
    <2> DEFINE n == Len(added) + 1
    <2>1. /\ pc[p] = "idle" /\ pc' = [pc EXCEPT ![p] = "maybe"]
          /\ m_callbacks_pending' = Append(m_callbacks_pending, n) /\ added' = Append(added, n)
          /\ UNCHANGED <<now, taskQueue, m_are_callbacks_running, ran>>
      BY <1>1 DEF AddToProcessQueue, Goto, queueVars
    <2>2. n \in Nat /\ m_callbacks_pending \in Seq(Nat) /\ ran \in Seq(Nat) /\ added \in Seq(Nat)
      BY <1>0 DEF Typed
    <2> HIDE DEF n
    <2>3. Typed'
      BY <1>0, <2>1, <2>2 DEF Typed, Places
    <2>4. pc'[p] = "maybe" /\ \A b \in Actors : pc'[b] = "callback" <=> pc[b] = "callback"
      BY <1>0, <2>1
    <2>5. FlagTells' /\ OneAtATime' /\ NoneStranded'
      BY <1>0, <2>1, <2>4 DEF ClientInv, SerialInOrder, FlagTells, OneAtATime, NoneStranded
    <2>6. RanInOrder'
      <3>1. RanInOrder
        BY DEF ClientInv, SerialInOrder
      <3> QED BY <2>1, <2>2, <3>1, AddBack, ZenonT(60) DEF RanInOrder
    <2> QED BY <2>3, <2>5, <2>6, SMTT(30) DEF ClientInv, SerialInOrder
  <1>2. ASSUME NEW j \in Jobs, NEW time \in 1..MaxTime, ScheduleJob(p, j, time)
        PROVE  ClientInv'
    <2>1. /\ pc[p] = "idle" /\ pc' = [pc EXCEPT ![p] = "notify"] /\ UNCHANGED <<now, clientVars>>
          /\ Schedule(p, j, time) /\ time \in Nat
      BY <1>2 DEF ScheduleJob, Schedule, Goto, SchedulerConstants
    <2>2. taskQueue' \in Seq(Tasks) /\ (Scheduled(taskQueue) => Scheduled(taskQueue'))
      BY <1>0, <2>1, ScheduleInserts, SMTT(30)
    <2>3. /\ pc' \in [Actors -> Places]
          /\ \A b \in Actors : pc'[b] = "callback" <=> pc[b] = "callback"
          /\ \A b \in Actors : pc[b] \in Bound => pc'[b] \in Bound
      BY <1>0, <2>1 DEF Places, Bound
    <2> QED BY <1>0, <2>1, <2>2, <2>3, AsidePreserves, SMTT(30)
  <1> QED BY <1>1, <1>2

(* Each step of the main thread, and of the clock, preserves it. *)
LEMMA MainPreserves ==
  ASSUME ClientInv,
         Tick \/ Ended \/ InterruptAll \/ NotifyStop \/ EmptyQueue \/ \E drain \in BOOLEAN : Stop(drain)
  PROVE  ClientInv'
  <1>0. Typed /\ Main \in Actors /\ pc \in [Actors -> Places] /\ now \in Nat /\ taskQueue \in Seq(Tasks)
    BY DEF ClientInv, Typed, Actors
  <1>1. CASE Tick \/ Ended
    <2>1. now' \in Nat /\ UNCHANGED <<taskQueue, clientVars, pc>>
      BY <1>0, <1>1 DEF Tick, Ended, vars, queueVars
    <2> QED BY <1>0, <2>1, AsidePreserves, SMTT(30)
  <1>2. CASE InterruptAll \/ \E drain \in BOOLEAN : Stop(drain)
    <2>1. /\ pc[Main] = "idle" /\ UNCHANGED <<now, taskQueue, clientVars>>
          /\ \E place \in {"join", "notify_all"} : pc' = [pc EXCEPT ![Main] = place]
      BY <1>2 DEF InterruptAll, Stop, Goto, queueVars
    <2>2. /\ pc' \in [Actors -> Places]
          /\ \A b \in Actors : pc'[b] = "callback" <=> pc[b] = "callback"
          /\ \A b \in Actors : pc[b] \in Bound => pc'[b] \in Bound
      BY <1>0, <2>1 DEF Places, Bound
    <2> QED BY <1>0, <2>1, <2>2, AsidePreserves, SMTT(30)
  <1>3. CASE NotifyStop
    <2> DEFINE p == [pc EXCEPT ![Main] = "join"]
    <2>1. pc[Main] = "notify_all" /\ UNCHANGED <<now, taskQueue, clientVars>> /\ pc' \in NotifyAll(p)
      BY <1>3 DEF NotifyStop, WakeStopped, queueVars
    <2>2. /\ p \in [Actors -> Places] /\ \A t \in Asleep : p[t] = pc[t]
          /\ \A b \in Actors : p[b] = "callback" <=> pc[b] = "callback"
          /\ \A b \in Actors : pc[b] \in Bound => p[b] \in Bound
      BY <1>0, <2>1 DEF Asleep, Places, Bound, Actors
    <2> HIDE DEF p
    <2>3. /\ pc' \in [Actors -> Places]
          /\ \A b \in Actors : \/ pc'[b] = p[b]
                               \/ p[b] \in {"wait", "wait_until"} /\ pc'[b] = "awake"
      BY <1>0, <2>1, <2>2, Notified, SMTT(30)
    <2>4. /\ \A b \in Actors : pc'[b] = "callback" <=> pc[b] = "callback"
          /\ \A b \in Actors : pc[b] \in Bound => pc'[b] \in Bound
      BY <2>2, <2>3, SMTT(30) DEF Bound
    <2> QED BY <1>0, <2>1, <2>3, <2>4, AsidePreserves, SMTT(20)
  <1>4. CASE EmptyQueue
    <2>1. /\ pc[Main] \in {"join", "emptied"} /\ UNCHANGED <<now, taskQueue, clientVars>>
          /\ \E place \in {"process", "empty"} :
                /\ pc' = [pc EXCEPT ![Main] = place]
                /\ place = "empty" => m_callbacks_pending = <<>>
      BY <1>4 DEF EmptyQueue, Goto, queueVars
    <2>2. /\ pc' \in [Actors -> Places]
          /\ \A b \in Actors : pc'[b] = "callback" <=> pc[b] = "callback"
          /\ pc'[Main] = "process" \/ m_callbacks_pending = <<>>
      BY <1>0, <2>1 DEF Places
    <2>3. NoneStranded'
      BY <1>0, <2>1, <2>2, SMTT(30) DEF NoneStranded, clientVars
    <2> QED BY <1>0, <2>1, <2>2, <2>3, QuietStep, SMTT(20)
  <1> QED BY <1>1, <1>2, <1>3, <1>4

(* The invariant holds when the scheduler is constructed. *)
LEMMA InitClient == Init => ClientInv
  <1> SUFFICES ASSUME Init PROVE ClientInv
    OBVIOUS
  <1>1. Typed /\ \A a \in Actors : pc[a] # "callback"
    <2>1. pc \in [Actors -> Places] /\ \A a \in Actors : pc[a] # "callback"
      BY DEF Init, Places
    <2>2. taskQueue \in Seq(Tasks) /\ m_callbacks_pending \in Seq(Nat) /\ added \in Seq(Nat) /\ ran \in Seq(Nat)
      BY DEF Init
    <2> QED BY <2>1, <2>2, Zenon DEF Init, Typed
  <1>2. RanInOrder
    BY DEF Init, RanInOrder
  <1> QED BY <1>1, <1>2 DEF Init, ClientInv, FlagTells, SerialInOrder, OneAtATime, NoneStranded

(* The invariant of SingleThreadedSchedulerClient holds throughout. *)
LEMMA ClientInvariant == Spec => []ClientInv
  <1>1. ClientInv /\ [Next]_vars => ClientInv'
    <2> SUFFICES ASSUME ClientInv, [Next]_vars PROVE ClientInv'
      OBVIOUS
    <2>1. CASE Tick \/ Ended \/ InterruptAll \/ NotifyStop \/ EmptyQueue \/ \E drain \in BOOLEAN : Stop(drain)
      BY <2>1, MainPreserves
    <2>2. ASSUME NEW p \in Producers,
                 AddToProcessQueue(p) \/ \E j \in Jobs, time \in 1..MaxTime : ScheduleJob(p, j, time)
          PROVE  ClientInv'
      BY <2>2, ProducerPreserves, SchedulerConstants, SMTT(30)
    <2>3. ASSUME NEW t \in Threads, ThreadStep(t) \/ WakeSpuriously(t) PROVE ClientInv'
      BY <2>3, ThreadPreserves, SchedulerConstants, SMTT(30)
    <2>4. ASSUME NEW a \in Actors, ClientStep(a) PROVE ClientInv'
      BY <2>4, ClientPreserves, SchedulerConstants, SMTT(30)
    <2>5. CASE UNCHANGED vars
      BY <2>5 DEF vars, queueVars, clientVars, ClientInv, Typed, FlagTells, SerialInOrder, OneAtATime, RanInOrder,
         NoneStranded
    <2> QED BY <2>1, <2>2, <2>3, <2>4, <2>5, SMTT(30) DEF Next
  <1> QED BY InitClient, <1>1, PTL DEF Spec

(* On any number of scheduler threads, with any number of producers, jobs  *)
(* and callbacks, through every way of stopping: SingleThreadedScheduler-  *)
(* Client runs callbacks one at a time and in the order they were added.   *)
THEOREM CallbacksSerial == Spec => []SerialInOrder
  BY ClientInvariant, PTL DEF ClientInv

(* As long as a callback is pending, some actor is bound to come to it:    *)
(* between MaybeScheduleProcessQueue, which may find callbacks running,    *)
(* and the end of ProcessQueue none is forgotten, for any number of        *)
(* threads and producers.                                                  *)
THEOREM CallbacksNotStranded == Spec => []NoneStranded
  BY ClientInvariant, PTL DEF ClientInv

-----------------------------------------------------------------------------
(* taskQueue is in the order of its times. *)
Sorted(queue) == \A i, j \in DOMAIN queue : i < j => queue[i].time <= queue[j].time

(* The threads within serviceQueue, which nThreadsServicingQueue counts. *)
Servicing == {t \in Threads : pc[t] \notin {"start", "ended"}}

(* No thread enters serviceQueue or leaves it. *)
LEMMA SameServicing ==
  ASSUME \A t \in Threads : pc'[t] \in {"start", "ended"} <=> pc[t] \in {"start", "ended"},
         UNCHANGED nThreadsServicingQueue,
         nThreadsServicingQueue = Cardinality(Servicing)
  PROVE  (nThreadsServicingQueue = Cardinality(Servicing))'
  <1>1. Servicing' = Servicing
    BY DEF Servicing
  <1> QED BY <1>1, Zenon

(* Thread t leaves serviceQueue.  Where it was notified nobody else is     *)
(* counted otherwise.                                                      *)
LEMMA OneLeaves ==
  ASSUME SchedulerConstants, NEW t \in Threads, pc[t] \notin {"start", "ended"}, pc'[t] = "ended",
         \A u \in Threads \ {t} : pc'[u] \in {"start", "ended"} <=> pc[u] \in {"start", "ended"},
         nThreadsServicingQueue = Cardinality(Servicing),
         nThreadsServicingQueue' = nThreadsServicingQueue - 1
  PROVE  (nThreadsServicingQueue = Cardinality(Servicing))'
  <1>1. Servicing' = Servicing \ {t} /\ t \in Servicing /\ Servicing \subseteq Threads
    BY DEF Servicing
  <1>2. IsFiniteSet(Servicing)
    BY <1>1, FS_Subset DEF SchedulerConstants
  <1>3. Cardinality(Servicing \ {t}) = Cardinality(Servicing) - 1
    BY <1>1, <1>2, FS_RemoveElement
  <1> QED BY <1>1, <1>3, Zenon

(* Thread t enters serviceQueue. *)
LEMMA OneEnters ==
  ASSUME SchedulerConstants, NEW t \in Threads, pc[t] = "start", pc'[t] \notin {"start", "ended"},
         \A u \in Threads \ {t} : pc'[u] \in {"start", "ended"} <=> pc[u] \in {"start", "ended"},
         nThreadsServicingQueue = Cardinality(Servicing),
         nThreadsServicingQueue' = nThreadsServicingQueue + 1
  PROVE  (nThreadsServicingQueue = Cardinality(Servicing))'
  <1>1. Servicing' = Servicing \cup {t} /\ t \notin Servicing /\ Servicing \subseteq Threads
    BY DEF Servicing
  <1>2. IsFiniteSet(Servicing)
    BY <1>1, FS_Subset DEF SchedulerConstants
  <1>3. Cardinality(Servicing \cup {t}) = Cardinality(Servicing) + 1
    BY <1>1, <1>2, FS_AddElement
  <1> QED BY <1>1, <1>3, Zenon

(* Under the mutex, a thread that enters or leaves serviceQueue counts     *)
(* itself (Serve).                                                         *)
LEMMA ServeCounts ==
  ASSUME SchedulerConstants, Typed, NEW t \in Threads, pc[t] \in {"start", "next", "awake", "timeout"}, Serve(t),
         nThreadsServicingQueue = Cardinality(Servicing)
  PROVE  (nThreadsServicingQueue = Cardinality(Servicing))'
  <1>0. t \in Actors /\ Threads \subseteq Actors /\ pc \in [Actors -> Places] /\ Cardinality(Servicing) \in Nat
    <2>1. IsFiniteSet(Servicing)
      BY FS_Subset DEF SchedulerConstants, Servicing
    <2> QED BY <2>1, FS_CardinalityType DEF Actors, Typed
  <1>1. CASE shouldStop
    <2> DEFINE p == [pc EXCEPT ![t] = "ended"]
    <2>1. pc' \in NotifyOne(p) /\ nThreadsServicingQueue' = nThreadsServicingQueue - (IF pc[t] = "start" THEN 0 ELSE 1)
      BY <1>1 DEF Serve
    <2>2. p \in [Actors -> Places] /\ \A x \in Asleep : p[x] = pc[x]
      BY <1>0 DEF Asleep, Places, Actors
    <2>3. /\ pc' \in [Actors -> Places]
          /\ \A a \in Actors : \/ pc'[a] = p[a]
                               \/ p[a] \in {"wait", "wait_until"} /\ pc'[a] = "awake"
      <3> HIDE DEF p
      <3> QED BY <2>1, <2>2, Notified
    <2>4. /\ pc'[t] = "ended"
          /\ \A u \in Threads \ {t} : pc'[u] \in {"start", "ended"} <=> pc[u] \in {"start", "ended"}
      BY <1>0, <2>3
    <2>5. CASE pc[t] = "start"
      BY <1>0, <2>1, <2>4, <2>5, SameServicing
    <2>6. CASE pc[t] # "start"
      BY <1>0, <2>1, <2>4, <2>6, OneLeaves
    <2> QED BY <2>5, <2>6
  <1>2. CASE ~shouldStop
    <2>1. /\ pc'[t] \in {"wait", "wait_until"}
          /\ \A u \in Threads \ {t} : pc'[u] = pc[u]
          /\ nThreadsServicingQueue' = nThreadsServicingQueue + (IF pc[t] = "start" THEN 1 ELSE 0)
      BY <1>0, <1>2 DEF Serve, Goto
    <2>2. CASE pc[t] = "start"
      BY <2>1, <2>2, OneEnters
    <2>3. CASE pc[t] # "start"
      BY <1>0, <2>1, <2>3, SameServicing
    <2> QED BY <2>2, <2>3
  <1> QED BY <1>1, <1>2

(* schedule puts a task behind those of an earlier or of the same time and *)
(* before those of a later time: the queue stays in order.                 *)
LEMMA InsertSorts ==
  ASSUME taskQueue \in Seq(Tasks), Sorted(taskQueue), NEW e \in Tasks,
         NEW i \in 1..Len(taskQueue)+1, PlaceOf(i, e.time)
  PROVE  Sorted(Inserted(i, e))
  <1> DEFINE s == Inserted(i, e)
  <1> SUFFICES ASSUME NEW j \in DOMAIN s, NEW k \in DOMAIN s, j < k PROVE s[j].time <= s[k].time
    BY DEF Sorted
  <1>1. /\ DOMAIN s = 1..Len(taskQueue)+1 /\ DOMAIN taskQueue = 1..Len(taskQueue)
        /\ s[j] = (IF j < i THEN taskQueue[j] ELSE IF j = i THEN e ELSE taskQueue[j-1])
        /\ s[k] = (IF k < i THEN taskQueue[k] ELSE IF k = i THEN e ELSE taskQueue[k-1])
    BY DEF Inserted
  <1> HIDE DEF s
  <1>2. \A x \in DOMAIN taskQueue : taskQueue[x].time \in Nat
    <2>1. \A x \in DOMAIN taskQueue : taskQueue[x] \in Tasks
      OBVIOUS
    <2> QED BY <2>1 DEF Tasks
  <1>3. e.time \in Nat
    BY DEF Tasks
  <1>4. CASE j < i /\ k < i BY <1>1, <1>4 DEF Sorted
  <1>5. CASE j < i /\ k = i BY <1>1, <1>5 DEF PlaceOf
  <1>6. CASE j < i /\ k > i BY <1>1, <1>6 DEF Sorted
  <1>7. CASE j = i /\ k > i
    <2>1. s[j] = e /\ s[k] = taskQueue[k - 1] /\ k - 1 \in DOMAIN taskQueue /\ k - 1 >= i
      BY <1>1, <1>7
    <2>2. e.time < taskQueue[k - 1].time
      BY <2>1 DEF PlaceOf
    <2>3. taskQueue[k - 1].time \in Nat
      BY <1>2, <2>1
    <2> QED BY <1>3, <2>1, <2>2, <2>3
  <1>8. CASE j > i BY <1>1, <1>8 DEF Sorted
  <1>9. \/ j < i /\ k < i
        \/ j < i /\ k = i
        \/ j < i /\ k > i
        \/ j = i /\ k > i
        \/ j > i
    BY <1>1
  <1> QED BY <1>4, <1>5, <1>6, <1>7, <1>8, <1>9, Zenon

(* Every step keeps the queue in order and the threads counted. *)
LEMMA StepTypes ==
  ASSUME SchedulerConstants, ClientInv, TypeOK, [Next]_vars
  PROVE  TypeOK'
  <1>0. /\ Typed /\ pc \in [Actors -> Places] /\ now \in Nat /\ taskQueue \in Seq(Tasks)
        /\ Threads \subseteq Actors /\ Producers \subseteq Actors /\ Main \in Actors /\ Main \notin Threads
        /\ \A p \in Producers : p \notin Threads
        /\ Sorted(taskQueue) /\ nThreadsServicingQueue = Cardinality(Servicing)
    BY DEF ClientInv, Typed, Actors, SchedulerConstants, TypeOK, Sorted, Servicing
  <1> DEFINE Flags == {stopRequested, stopWhenEmpty, interrupted, m_are_callbacks_running} \subseteq BOOLEAN
             Counted == nThreadsServicingQueue = Cardinality(Servicing)
             SameThreads == \A t \in Threads : pc'[t] \in {"start", "ended"} <=> pc[t] \in {"start", "ended"}
  <1>a. ASSUME now' \in 0..MaxTime, Sorted(taskQueue'), Flags', Counted' PROVE TypeOK'
    BY <1>a DEF TypeOK, Sorted, Servicing
  <1>f. now \in 0..MaxTime /\ Flags
    BY DEF TypeOK
  <1>b. ASSUME SameThreads, UNCHANGED nThreadsServicingQueue PROVE Counted'
    BY <1>0, <1>b, SameServicing
  <1> HIDE DEF Counted
  <1>1. CASE Tick \/ Ended \/ UNCHANGED vars
    <2>1. now' \in 0..MaxTime /\ UNCHANGED <<taskQueue, pc, nThreadsServicingQueue, stopVars, m_are_callbacks_running>>
      BY <1>1, <1>f DEF Tick, Ended, vars, queueVars, clientVars, SchedulerConstants
    <2> QED BY <1>0, <1>a, <1>b, <1>f, <2>1 DEF stopVars
  <1>2. CASE InterruptAll \/ EmptyQueue \/ \E drain \in BOOLEAN : Stop(drain)
    <2>1. /\ UNCHANGED <<now, taskQueue, nThreadsServicingQueue, m_are_callbacks_running>>
          /\ {stopRequested', stopWhenEmpty', interrupted'} \subseteq BOOLEAN
      BY <1>2, <1>f DEF InterruptAll, EmptyQueue, Stop, queueVars, clientVars, stopVars
    <2>2. SameThreads
      BY <1>0, <1>2 DEF InterruptAll, EmptyQueue, Stop, Goto
    <2> QED BY <1>0, <1>a, <1>b, <1>f, <2>1, <2>2
  <1>3. CASE NotifyStop
    <2> DEFINE p == [pc EXCEPT ![Main] = "join"]
    <2>1. UNCHANGED <<now, taskQueue, nThreadsServicingQueue, stopVars, m_are_callbacks_running>> /\ pc' \in NotifyAll(p)
      BY <1>3 DEF NotifyStop, WakeStopped, queueVars, clientVars
    <2>2. p \in [Actors -> Places] /\ \A t \in Threads : p[t] = pc[t]
      BY <1>0 DEF Places
    <2>3. SameThreads
      <3> HIDE DEF p
      <3> QED BY <1>0, <2>1, <2>2, Notified DEF Asleep
    <2> QED BY <1>0, <1>a, <1>b, <1>f, <2>1, <2>3 DEF stopVars
  <1>4. ASSUME NEW p \in Producers, AddToProcessQueue(p) PROVE TypeOK'
    <2>1. /\ UNCHANGED <<now, taskQueue, nThreadsServicingQueue, stopVars, m_are_callbacks_running>>
          /\ SameThreads
      BY <1>0, <1>4 DEF AddToProcessQueue, Goto, queueVars
    <2> QED BY <1>0, <1>a, <1>b, <1>f, <2>1 DEF stopVars
  <1>5. ASSUME NEW a \in Actors, NEW task \in Jobs \cup {ProcessQueueTask}, NEW time \in Nat,
               Schedule(a, task, time), pc[a] \in {"idle", "schedule"}
        PROVE  TypeOK'
    <2> DEFINE e == [time |-> time, task |-> task]
    <2>1. /\ UNCHANGED <<now, nThreadsServicingQueue, stopVars, m_are_callbacks_running>>
          /\ SameThreads
      BY <1>0, <1>5 DEF Schedule, Goto, clientVars
    <2>2. PICK i \in 1..Len(taskQueue)+1 : PlaceOf(i, time) /\ taskQueue' = Inserted(i, e)
      BY <1>5 DEF Schedule
    <2>3. e \in Tasks /\ e.time = time
      BY DEF Tasks
    <2>4. Sorted(Inserted(i, e))
      <3> HIDE DEF e
      <3> QED BY <1>0, <2>2, <2>3, InsertSorts
    <2> QED BY <1>0, <1>a, <1>b, <1>f, <2>1, <2>2, <2>4 DEF stopVars
  <1>6. ASSUME NEW p \in Producers, NEW j \in Jobs, NEW time \in 1..MaxTime, ScheduleJob(p, j, time) PROVE TypeOK'
    BY <1>0, <1>5, <1>6 DEF ScheduleJob, SchedulerConstants
  <1>7. ASSUME NEW t \in Threads, ServiceQueue(t) PROVE TypeOK'
    <2>1. /\ UNCHANGED <<now, taskQueue, stopVars, m_are_callbacks_running>>
          /\ pc[t] \in {"start", "next", "awake", "timeout"} /\ Serve(t)
      BY <1>7 DEF ServiceQueue, clientVars
    <2>2. Counted'
      BY <1>0, <2>1, ServeCounts DEF Counted
    <2> QED BY <1>0, <1>a, <1>f, <2>1, <2>2 DEF stopVars
  <1>8. ASSUME NEW t \in Threads, Timeout(t) \/ FinishJob(t) \/ WakeSpuriously(t) PROVE TypeOK'
    <2>1. /\ UNCHANGED <<now, taskQueue, nThreadsServicingQueue, stopVars, m_are_callbacks_running>>
          /\ SameThreads
      BY <1>0, <1>8 DEF Timeout, FinishJob, WakeSpuriously, Asleep, Goto, queueVars, clientVars
    <2> QED BY <1>0, <1>a, <1>b, <1>f, <2>1 DEF stopVars
  <1>9. ASSUME NEW t \in Threads, TakeTask(t), shouldStop \/ taskQueue = <<>> PROVE TypeOK'
    <2>1. UNCHANGED <<now, taskQueue, stopVars, m_are_callbacks_running>> /\ pc[t] = "timeout" /\ Serve(t)
      BY <1>9 DEF TakeTask, clientVars
    <2>2. Counted'
      BY <1>0, <2>1, ServeCounts DEF Counted
    <2> QED BY <1>0, <1>a, <1>f, <2>1, <2>2 DEF stopVars
  <1>10. ASSUME NEW t \in Threads, TakeTask(t), ~(shouldStop \/ taskQueue = <<>>) PROVE TypeOK'
    <2>1. /\ UNCHANGED <<now, nThreadsServicingQueue, stopVars, m_are_callbacks_running>>
          /\ taskQueue # <<>> /\ taskQueue' = Tail(taskQueue)
          /\ SameThreads
      BY <1>0, <1>10 DEF TakeTask, Goto, clientVars
    <2>2. Sorted(taskQueue')
      <3>1. \A i \in DOMAIN Tail(taskQueue) : i+1 \in DOMAIN taskQueue /\ Tail(taskQueue)[i] = taskQueue[i+1]
        BY <1>0, <2>1
      <3>2. \A i \in DOMAIN Tail(taskQueue) : i \in Nat
        BY <1>0, <2>1
      <3> QED BY <1>0, <2>1, <3>1, <3>2 DEF Sorted
    <2> QED BY <1>0, <1>a, <1>b, <1>f, <2>1, <2>2 DEF stopVars
  <1>11. ASSUME NEW t \in Threads, Interrupt(t) PROVE TypeOK'
    <2>1. /\ UNCHANGED <<now, taskQueue, stopVars, m_are_callbacks_running>>
          /\ nThreadsServicingQueue' = nThreadsServicingQueue - 1
          /\ pc[t] \notin {"start", "ended"} /\ pc'[t] = "ended" /\ \A u \in Threads \ {t} : pc'[u] = pc[u]
      BY <1>0, <1>11 DEF Interrupt, Goto, clientVars
    <2>2. Counted'
      BY <1>0, <2>1, OneLeaves DEF Counted
    <2> QED BY <1>0, <1>a, <1>f, <2>1, <2>2 DEF stopVars
  <1>12. ASSUME NEW a \in Actors, ClientStep(a) PROVE TypeOK'
    <2>r. Return(a) \in {"next", "emptied", "idle"}
      BY DEF Return
    <2>1. CASE MaybeScheduleProcessQueue(a) \/ ProcessQueue(a) \/ CallbackDone(a)
      <3>1. /\ UNCHANGED <<now, taskQueue, nThreadsServicingQueue, stopVars>> /\ m_are_callbacks_running' \in BOOLEAN
            /\ SameThreads
        BY <1>0, <1>f, <2>r, <2>1 DEF MaybeScheduleProcessQueue, ProcessQueue, CallbackDone, AfterCallback, Goto,
           queueVars, clientVars
      <3> QED BY <1>0, <1>a, <1>b, <1>f, <3>1 DEF stopVars
    <2>2. CASE ScheduleProcessQueue(a)
      BY <1>0, <1>5, <2>2 DEF ScheduleProcessQueue
    <2>3. CASE Notify(a)
      <3> DEFINE p == [pc EXCEPT ![a] = Return(a)]
      <3>1. /\ UNCHANGED <<now, taskQueue, nThreadsServicingQueue, stopVars, m_are_callbacks_running>>
            /\ pc' \in NotifyOne(p) /\ pc[a] = "notify"
        BY <2>3 DEF Notify, NewTask, queueVars, clientVars
      <3>2. /\ p \in [Actors -> Places] /\ \A t \in Asleep : p[t] = pc[t]
            /\ \A t \in Threads : p[t] \in {"start", "ended"} <=> pc[t] \in {"start", "ended"}
        BY <1>0, <2>r, <3>1 DEF Places, Asleep
      <3>3. SameThreads
        <4> HIDE DEF p
        <4> QED BY <1>0, <3>1, <3>2, Notified
      <3> QED BY <1>0, <1>a, <1>b, <1>f, <3>1, <3>3 DEF stopVars
    <2> QED BY <1>12, <2>1, <2>2, <2>3 DEF ClientStep
  <1> QED BY <1>1, <1>2, <1>3, <1>4, <1>6, <1>7, <1>8, <1>9, <1>10, <1>11, <1>12 DEF Next, ThreadStep

(* Tasks are kept in the order of their times, in which serviceQueue takes *)
(* them, and nThreadsServicingQueue is the number of threads within        *)
(* serviceQueue (the destructor asserts that it is 0), for any number of   *)
(* threads, producers and jobs and for every way a thread is woken,        *)
(* stopped or interrupted.                                                 *)
THEOREM QueueInOrder == Spec => []TypeOK
  <1>1. Init => TypeOK
    <2> SUFFICES ASSUME Init PROVE TypeOK
      OBVIOUS
    <2>1. {t \in Threads : pc[t] \notin {"start", "ended"}} = {}
      BY DEF Init, Actors
    <2>2. Cardinality({t \in Threads : pc[t] \notin {"start", "ended"}}) = 0
      BY <2>1, FS_EmptySet, Zenon
    <2>3. now \in 0..MaxTime /\ nThreadsServicingQueue = 0 /\ DOMAIN taskQueue = {}
      BY SchedulerConstants DEF Init
    <2>4. {stopRequested, stopWhenEmpty, interrupted, m_are_callbacks_running} \subseteq BOOLEAN
      BY Zenon DEF Init
    <2> QED BY <2>2, <2>3, <2>4, Zenon DEF TypeOK
  <1>2. ClientInv /\ TypeOK /\ [Next]_vars => TypeOK'
    BY StepTypes, SchedulerConstants
  <1> QED BY <1>1, <1>2, ClientInvariant, PTL DEF Spec
=============================================================================
