-------------------------- MODULE CheckQueueProofs --------------------------
(***************************************************************************)
(* CCheckQueue for any number of owners, workers and checks: nTodo counts  *)
(* the checks that are left, none of them outlives Wait, and Wait returns  *)
(* whether all checks of its own block are true.                           *)
(*                                                                         *)
(* That Wait may return when nTodo is 0 rests on nTodo being exact; that   *)
(* the result is the block's own rests on where a failed check can be      *)
(* between the moment it is added and the moment fAllOk tells of it.       *)
(***************************************************************************)
EXTENDS CheckQueue, FiniteSetTheorems, SequenceTheorems, TLAPS

(* Most of the leaves are about sets, for Zenon; those with arithmetic or  *)
(* functions in them cite SMT.                                             *)
USE ZenonT(60)

Places == {"out", "control", "enter", "working", "done", "asleep", "awake", "interrupted", "returned"}

Inside == {t \in Threads : pc[t] \in {"working", "done", "asleep", "awake", "interrupted"}}
Idle == {t \in Threads : pc[t] \in {"asleep", "awake", "interrupted"}}
Batches(v, T) == UNION {{u} \X DOMAIN v[u] : u \in T}
HeldBut(t) == Batches(vChecks, Threads \ {t})

Typed ==
    /\ queue \in Seq(BOOLEAN) /\ added \in Seq(BOOLEAN)
    /\ fAllOk \in BOOLEAN /\ fRet \in BOOLEAN
    /\ nIdle \in Nat /\ nTotal \in Nat /\ nTodo \in Nat
    /\ ControlMutex \in Masters \cup {NoThread}
    /\ pc \in [Threads -> Places]
    /\ vChecks \in [Threads -> Seq(BOOLEAN)]
    /\ fOk \in [Threads -> BOOLEAN]
    /\ \A t \in Threads : vChecks[t] # <<>> <=> pc[t] \in {"working", "done"}

(* Who is where: an owner holds ControlMutex until it is out again. *)
Placed ==
    /\ \A m \in Masters : pc[m] # "interrupted" /\ (pc[m] # "out" => ControlMutex = m)
    /\ \A w \in Workers : pc[w] \notin {"out", "control", "returned"}

(* The three counters count. *)
Counted ==
    /\ IsFiniteSet(Held) /\ nTodo = Len(queue) + Cardinality(Held)
    /\ IsFiniteSet(Inside) /\ nTotal = Cardinality(Inside)
    /\ IsFiniteSet(Idle) /\ nIdle = Cardinality(Idle)

(* The block is done with, and where a failed check of it can be before.   *)
Over == ControlMutex = NoThread \/ \E m \in Masters : pc[m] = "returned"

FailedIn(t) == (pc[t] = "working" /\ FALSE \in Range(vChecks[t])) \/ (pc[t] = "done" /\ ~fOk[t])
Failing == ~fAllOk \/ FALSE \in Range(queue) \/ \E t \in Threads : FailedIn(t)

Told ==
    /\ ~Over => (Failing <=> FALSE \in Range(added))
    /\ Over => ~Failing
    /\ \A t \in Threads : pc[t] = "working" /\ ~fOk[t] => ~fAllOk
    /\ NoCheckOutlivesWait
    /\ WaitTellsAll

QueueInv == Typed /\ Placed /\ Counted /\ Told

-----------------------------------------------------------------------------
(* A batch has as many checks as it has positions. *)
LEMMA BatchCount ==
  ASSUME NEW t, NEW v \in Seq(BOOLEAN)
  PROVE  IsFiniteSet({t} \X DOMAIN v) /\ Cardinality({t} \X DOMAIN v) = Len(v)
  <1>1. DOMAIN v = 1..Len(v) /\ Len(v) \in Nat
    BY SMTT(30)
  <1>2. IsFiniteSet(1..Len(v)) /\ Cardinality(1..Len(v)) = Len(v)
    BY <1>1, FS_Interval, SMTT(30)
  <1>3. IsFiniteSet({t}) /\ Cardinality({t}) = 1
    BY FS_Singleton
  <1>4. IsFiniteSet({t} \X (1..Len(v))) /\ Cardinality({t} \X (1..Len(v))) = 1 * Len(v)
    BY <1>2, <1>3, FS_Product
  <1>5. 1 * Len(v) = Len(v)
    <2>1. \A n \in Nat : 1 * n = n
      BY SMTT(30)
    <2> QED BY <1>1, <2>1
  <1> QED BY <1>1, <1>4, <1>5

(* The checks in the batches of all threads are those of one thread and    *)
(* those of the others.                                                    *)
LEMMA HeldSplit ==
  ASSUME NEW v \in [Threads -> Seq(BOOLEAN)], NEW t \in Threads, IsFiniteSet(Batches(v, Threads \ {t}))
  PROVE  /\ IsFiniteSet(Batches(v, Threads))
         /\ Cardinality(Batches(v, Threads)) = Cardinality(Batches(v, Threads \ {t})) + Len(v[t])
  <1> DEFINE batch == {t} \X DOMAIN v[t]
             others == Batches(v, Threads \ {t})
  <1>1. Batches(v, Threads) = others \cup batch /\ others \cap batch = {}
    BY SMTT(30) DEF Batches
  <1>2. v[t] \in Seq(BOOLEAN) /\ Len(v[t]) \in Nat
    BY SMTT(30)
  <1>3. IsFiniteSet(batch) /\ Cardinality(batch) = Len(v[t])
    BY <1>2, BatchCount
  <1>4. Cardinality(others) \in Nat
    BY FS_CardinalityType
  <1> HIDE DEF batch
  <1>5. /\ IsFiniteSet(others \cup batch)
        /\ Cardinality(others \cup batch) = Cardinality(others) + Cardinality(batch) - Cardinality(others \cap batch)
    <2> HIDE DEF others
    <2>1. IsFiniteSet(others)
      BY DEF others
    <2> QED BY <1>3, <2>1, FS_Union
  <1>6. Cardinality(others \cap batch) = 0
    BY <1>1, FS_EmptySet
  <1> QED BY <1>1, <1>2, <1>3, <1>4, <1>5, <1>6, SMTT(30)

(* A batch has at least one check, and no more than are queued. *)
LEMMA BatchFits ==
  ASSUME CheckQueueConstants, queue \in Seq(BOOLEAN), queue # <<>>, NEW s, s.nTotal \in Nat, s.nIdle \in Nat
  PROVE  BatchSize(s) \in 1..Len(queue)
  <1> DEFINE part == Len(queue) \div (s.nTotal + s.nIdle + 1)
             low == Min({nBatchSize, part})
  <1>1. Len(queue) \in Nat \ {0} /\ part \in Nat /\ part <= Len(queue)
    <2>1. Len(queue) \in Nat \ {0} /\ s.nTotal + s.nIdle + 1 \in Nat \ {0}
      BY SMTT(20)
    <2>2. \A a \in Nat, b \in Nat \ {0} : a \div b \in Nat /\ a \div b <= a
      BY SMTT(30)
    <2> QED BY <2>1, <2>2
  <1>2. nBatchSize \in Nat \ {0}
    BY DEF CheckQueueConstants
  <1> HIDE DEF part
  <1>3. low \in {nBatchSize, part} /\ low <= nBatchSize /\ low <= part
    <2>1. \E x \in {nBatchSize, part} : \A y \in {nBatchSize, part} : x =< y
      BY <1>1, <1>2, SMTT(30)
    <2> QED BY <2>1 DEF Min
  <1> HIDE DEF low
  <1>4. \E x \in {1, low} : \A y \in {1, low} : x >= y
    BY <1>1, <1>2, <1>3, SMTT(30)
  <1>5. Max({1, low}) \in {1, low} /\ Max({1, low}) >= 1
    BY <1>4 DEF Max
  <1>6. BatchSize(s) = Max({1, low})
    BY DEF BatchSize, low, part
  <1> QED BY <1>1, <1>2, <1>3, <1>5, <1>6, SMTT(30)

(* What is added is behind what is queued. *)
LEMMA ToSetConcat ==
  ASSUME NEW p \in Seq(BOOLEAN), NEW q \in Seq(BOOLEAN)
  PROVE  /\ p \o q \in Seq(BOOLEAN) /\ Len(p \o q) = Len(p) + Len(q)
         /\ Range(p \o q) = Range(p) \cup Range(q)
  <1> DEFINE r == p \o q
  <1>1. /\ r \in Seq(BOOLEAN) /\ Len(r) = Len(p) + Len(q)
        /\ \A i \in 1..Len(p) + Len(q) : r[i] = IF i <= Len(p) THEN p[i] ELSE q[i - Len(p)]
    BY ConcatProperties
  <1> HIDE DEF r
  <1>2. /\ DOMAIN r = 1..Len(r) /\ DOMAIN p = 1..Len(p) /\ DOMAIN q = 1..Len(q)
        /\ Len(p) \in Nat /\ Len(q) \in Nat
    BY <1>1, SMTT(30)
  <1>3. ASSUME NEW i \in DOMAIN r PROVE r[i] \in Range(p) \cup Range(q)
    <2>1. CASE i <= Len(p)
      <3>1. r[i] = p[i] /\ i \in DOMAIN p
        BY <1>1, <1>2, <2>1, SMTT(30)
      <3> QED BY <3>1 DEF Range
    <2>2. CASE ~(i <= Len(p))
      <3>1. r[i] = q[i - Len(p)] /\ i - Len(p) \in DOMAIN q
        BY <1>1, <1>2, <2>2, SMTT(30)
      <3> QED BY <3>1 DEF Range
    <2> QED BY <2>1, <2>2
  <1>4. ASSUME NEW i \in DOMAIN p PROVE p[i] \in Range(r)
    <2>1. r[i] = p[i] /\ i \in DOMAIN r
      BY <1>1, <1>2, SMTT(30)
    <2> QED BY <2>1 DEF Range
  <1>5. ASSUME NEW i \in DOMAIN q PROVE q[i] \in Range(r)
    <2>1. r[i + Len(p)] = q[i] /\ i + Len(p) \in DOMAIN r
      BY <1>1, <1>2, SMTT(30)
    <2> QED BY <2>1 DEF Range
  <1>6. Range(r) = Range(p) \cup Range(q)
    BY <1>3, <1>4, <1>5 DEF Range
  <1> QED BY <1>1, <1>6 DEF r

(* A batch and what is left of the queue are the queue. *)
LEMMA TakeSplits ==
  ASSUME NEW q \in Seq(BOOLEAN), NEW n \in 1..Len(q)
  PROVE  LET batch == [i \in 1..n |-> q[Len(q) - i + 1]]
             left == SubSeq(q, 1, Len(q) - n)
         IN  /\ batch \in Seq(BOOLEAN) /\ Len(batch) = n
             /\ left \in Seq(BOOLEAN) /\ Len(left) = Len(q) - n
             /\ Range(q) = Range(left) \cup Range(batch)
  <1> DEFINE k == Len(q) - n
             batch == [i \in 1..n |-> q[Len(q) - i + 1]]
             left == SubSeq(q, 1, k)
  <1>1. /\ Len(q) \in Nat /\ n \in Nat /\ k \in Nat /\ k + n = Len(q) /\ n >= 1
        /\ DOMAIN q = 1..Len(q) /\ \A i \in 1..Len(q) : q[i] \in BOOLEAN
    BY SMTT(30)
  <1> HIDE DEF k
  <1>2. \A i \in 1..n : k + n - i + 1 \in 1..Len(q)
    BY <1>1, SMTT(30)
  <1>3. /\ batch \in Seq(BOOLEAN) /\ Len(batch) = n
        /\ \A i \in 1..n : batch[i] = q[k + n - i + 1]
    BY <1>1, <1>2, SMTT(30)
  <1>4. /\ left \in Seq(BOOLEAN) /\ Len(left) = k
        /\ \A i \in 1..k : left[i] = q[i]
    <2>1. \A i \in 1..k : q[i] \in BOOLEAN
      BY <1>1, SMTT(30)
    <2>2. 1 \in Int /\ k \in Int
      BY <1>1, SMTT(30)
    <2>3. /\ left \in Seq(BOOLEAN) /\ Len(left) = (IF 1 <= k THEN k - 1 + 1 ELSE 0)
          /\ \A i \in 1..k - 1 + 1 : left[i] = q[1 + i - 1]
      BY <2>1, <2>2, SubSeqProperties, SMTT(30)
    <2> HIDE DEF left
    <2> QED BY <1>1, <2>3, SMTT(30)
  <1> HIDE DEF batch, left
  <1>5. DOMAIN batch = 1..n /\ DOMAIN left = 1..k
    BY <1>3, <1>4, SMTT(30)
  <1>6. ASSUME NEW i \in DOMAIN q PROVE q[i] \in Range(left) \cup Range(batch)
    <2>1. CASE i <= k
      <3>1. left[i] = q[i] /\ i \in DOMAIN left
        BY <1>1, <1>4, <1>5, <2>1, SMTT(30)
      <3> QED BY <3>1 DEF Range
    <2>2. CASE ~(i <= k)
      <3>1. batch[k + n - i + 1] = q[i] /\ k + n - i + 1 \in DOMAIN batch
        BY <1>1, <1>3, <1>5, <2>2, SMTT(30)
      <3> QED BY <3>1 DEF Range
    <2> QED BY <2>1, <2>2
  <1>7. ASSUME NEW i \in DOMAIN left PROVE left[i] \in Range(q)
    <2>1. left[i] = q[i] /\ i \in DOMAIN q
      BY <1>1, <1>4, <1>5, SMTT(30)
    <2> QED BY <2>1 DEF Range
  <1>8. ASSUME NEW i \in DOMAIN batch PROVE batch[i] \in Range(q)
    <2>1. batch[i] = q[k + n - i + 1] /\ k + n - i + 1 \in DOMAIN q
      BY <1>1, <1>3, <1>5, SMTT(30)
    <2> QED BY <2>1 DEF Range
  <1>9. Range(q) = Range(left) \cup Range(batch)
    BY <1>6, <1>7, <1>8 DEF Range
  <1> QED BY <1>3, <1>4, <1>9 DEF batch, left, k

-----------------------------------------------------------------------------
(* What holds within the critical section of Loop, once t has accounted    *)
(* for the batch it has done, or for itself.                               *)
FailingBut(t, s) == ~s.fAllOk \/ FALSE \in Range(queue) \/ \E u \in Threads \ {t} : FailedIn(u)

Accounted(t, s) ==
    /\ s.nTodo \in Nat /\ s.nTotal \in Nat /\ s.nIdle \in Nat /\ s.fAllOk \in BOOLEAN
    /\ s.pc \in [Threads -> Places]
    /\ \A u \in Threads : s.pc[u] = pc[u] \/ (pc[u] = "asleep" /\ s.pc[u] = "awake")
    /\ pc[t] \in {"enter", "awake", "done"} /\ t \in Threads
    /\ IsFiniteSet(HeldBut(t)) /\ s.nTodo = Len(queue) + Cardinality(HeldBut(t))
    /\ IsFiniteSet(Inside \cup {t}) /\ s.nTotal = Cardinality(Inside \cup {t})
    /\ IsFiniteSet(Idle \ {t}) /\ s.nIdle = Cardinality(Idle \ {t})
    /\ Failing <=> FailingBut(t, s)
    /\ s.fAllOk => fAllOk

(* Taking a batch. *)
LEMMA TakePreserves ==
  ASSUME CheckQueueConstants, QueueInv, NEW t \in Threads, NEW s, Accounted(t, s),
         queue # <<>>, Take(t, s), nTodo' = s.nTodo, UNCHANGED <<ControlMutex, added>>
  PROVE  QueueInv'
  <1> DEFINE n == BatchSize(s)
             batch == [i \in 1..n |-> queue[Len(queue) - i + 1]]
             left == SubSeq(queue, 1, Len(queue) - n)
  <1>1. queue \in Seq(BOOLEAN) /\ n \in 1..Len(queue)
    BY BatchFits DEF QueueInv, Typed, Accounted
  <1>2. /\ fAllOk' = s.fAllOk /\ nTotal' = s.nTotal /\ nIdle' = s.nIdle
        /\ vChecks' = [vChecks EXCEPT ![t] = batch]
        /\ queue' = left
        /\ fOk' = [fOk EXCEPT ![t] = s.fAllOk]
        /\ pc' = [s.pc EXCEPT ![t] = "working"]
        /\ fRet' = fRet
    BY DEF Take
  <1> HIDE DEF n
  <1>3. /\ batch \in Seq(BOOLEAN) /\ Len(batch) = n
        /\ left \in Seq(BOOLEAN) /\ Len(left) = Len(queue) - n
        /\ Range(queue) = Range(left) \cup Range(batch)
    BY <1>1, TakeSplits
  <1> HIDE DEF batch, left
  <1>4. batch # <<>> /\ n \in Nat /\ Len(queue) \in Nat /\ n <= Len(queue)
    BY <1>1, <1>3, SMTT(30)
  <1>5. \A u \in Threads \ {t} : /\ pc'[u] = pc[u] \/ (pc[u] = "asleep" /\ pc'[u] = "awake")
                                 /\ vChecks'[u] = vChecks[u] /\ fOk'[u] = fOk[u]
    BY <1>2 DEF Accounted, QueueInv, Typed
  <1>6. pc'[t] = "working" /\ vChecks'[t] = batch /\ fOk'[t] = s.fAllOk
    BY <1>2 DEF Accounted, QueueInv, Typed
  <1>7. Typed'
    <2>1. /\ queue' \in Seq(BOOLEAN) /\ added' \in Seq(BOOLEAN)
          /\ fAllOk' \in BOOLEAN /\ fRet' \in BOOLEAN
          /\ nIdle' \in Nat /\ nTotal' \in Nat /\ nTodo' \in Nat
          /\ ControlMutex' \in Masters \cup {NoThread}
      BY <1>2, <1>3 DEF Accounted, QueueInv, Typed
    <2>2. pc' \in [Threads -> Places]
      BY <1>2 DEF Accounted, Places
    <2>3. vChecks' \in [Threads -> Seq(BOOLEAN)] /\ fOk' \in [Threads -> BOOLEAN]
      BY <1>2, <1>3 DEF Accounted, QueueInv, Typed
    <2>4. \A u \in Threads : vChecks'[u] # <<>> <=> pc'[u] \in {"working", "done"}
      BY <1>4, <1>5, <1>6 DEF QueueInv, Typed
    <2> QED BY <2>1, <2>2, <2>3, <2>4, SMTT(20) DEF Typed
  <1>8. Placed'
    <2>1. \A m \in Masters : m \in Threads /\ pc'[m] # "interrupted" /\ (pc'[m] # "out" => ControlMutex' = m)
      BY <1>5, <1>6 DEF Accounted, QueueInv, Placed, Threads
    <2>2. \A w \in Workers : pc'[w] \notin {"out", "control", "returned"}
      BY <1>5, <1>6, SMTT(30) DEF QueueInv, Placed, Threads
    <2> QED BY <2>1, <2>2 DEF Placed
  <1>9. Counted'
    <2>1. HeldBut(t)' = HeldBut(t)
      BY <1>5 DEF HeldBut, Batches
    <2>2. IsFiniteSet(Held') /\ Cardinality(Held') = Cardinality(HeldBut(t)) + n
      <3>1. IsFiniteSet(HeldBut(t)')
        BY <2>1 DEF Accounted
      <3>2. IsFiniteSet(Held') /\ Cardinality(Held') = Cardinality(HeldBut(t)') + Len(vChecks'[t])
        BY <1>7, <3>1, HeldSplit DEF Typed, HeldBut, Held, Batches
      <3> QED BY <1>3, <1>6, <2>1, <3>2, SMTT(20)
    <2>3. Inside' = Inside \cup {t} /\ Idle' = Idle \ {t}
      BY <1>5, <1>6 DEF Inside, Idle
    <2>4. Cardinality(HeldBut(t)) \in Nat
      BY FS_CardinalityType DEF Accounted
    <2>5. nTodo' = Len(queue') + Cardinality(Held')
      BY <1>2, <1>3, <1>4, <2>2, <2>4, SMTT(30) DEF Accounted
    <2> QED BY <1>2, <2>2, <2>3, <2>5, SMTT(30) DEF Accounted, Counted
  <1>10. Told'
    <2>1. Over' <=> Over
      BY <1>5, <1>6 DEF Over, Accounted, Threads
    <2>2. ~Over
      BY DEF QueueInv, Told, NoCheckOutlivesWait, Over
    <2>3. \A u \in Threads \ {t} : FailedIn(u)' <=> FailedIn(u)
      BY <1>5 DEF FailedIn
    <2>4. FailedIn(t)' <=> FALSE \in Range(batch)
      BY <1>6 DEF FailedIn
    <2>5. Failing' <=> Failing
      BY <1>2, <1>3, <2>3, <2>4 DEF Failing, FailingBut, Accounted
    <2>6. ~Over' => (Failing' <=> FALSE \in Range(added'))
      BY <2>2, <2>5 DEF QueueInv, Told
    <2>7. \A u \in Threads : pc'[u] = "working" /\ ~fOk'[u] => ~fAllOk'
      BY <1>2, <1>5, <1>6, SMTT(30) DEF QueueInv, Told, Accounted
    <2>8. NoCheckOutlivesWait'
      BY <2>1, <2>2 DEF NoCheckOutlivesWait, Over
    <2>9. WaitTellsAll'
      BY <2>1, <2>2 DEF WaitTellsAll, Over
    <2> QED BY <2>1, <2>2, <2>6, <2>7, <2>8, <2>9 DEF Told
  <1> QED BY <1>7, <1>8, <1>9, <1>10, SMTT(30) DEF QueueInv

(* An owner returns from Wait: no check is left anywhere. *)
LEMMA ReturnPreserves ==
  ASSUME CheckQueueConstants, QueueInv, NEW t \in Threads, NEW s, Accounted(t, s),
         queue = <<>>, MayReturn(t, s), Return(t, s), nTodo' = s.nTodo, UNCHANGED <<ControlMutex, added>>
  PROVE  QueueInv'
  <1>1. /\ fRet' = s.fAllOk /\ fAllOk' = TRUE /\ nTotal' = s.nTotal - 1 /\ nIdle' = s.nIdle
        /\ pc' = [s.pc EXCEPT ![t] = "returned"]
        /\ vChecks' = [vChecks EXCEPT ![t] = <<>>] /\ queue' = queue /\ fOk' = fOk
    BY DEF Return, ResetResult, Cleared
  <1>2. t \in Masters /\ s.nTodo = 0
    BY DEF MayReturn
  <1>3. \A u \in Threads \ {t} : /\ pc'[u] = pc[u] \/ (pc[u] = "asleep" /\ pc'[u] = "awake")
                                 /\ vChecks'[u] = vChecks[u] /\ fOk'[u] = fOk[u]
    BY <1>1 DEF Accounted, QueueInv, Typed
  <1>4. pc'[t] = "returned" /\ vChecks'[t] = <<>>
    BY <1>1 DEF Accounted, QueueInv, Typed
  <1>5. HeldBut(t) = {}
    <2>1. Cardinality(HeldBut(t)) \in Nat /\ Len(queue) = 0
      BY FS_CardinalityType DEF Accounted
    <2>2. Cardinality(HeldBut(t)) = 0
      BY <1>2, <2>1, SMTT(30) DEF Accounted
    <2> QED BY <2>2, FS_EmptySet, SMTT(30) DEF Accounted
  <1>6. \A u \in Threads : vChecks'[u] = <<>>
    <2>1. ASSUME NEW u \in Threads \ {t} PROVE vChecks[u] = <<>>
      <3> SUFFICES ASSUME vChecks[u] # <<>> PROVE FALSE
        OBVIOUS
      <3>1. vChecks[u] \in Seq(BOOLEAN)
        BY DEF QueueInv, Typed
      <3>2. 1 \in DOMAIN vChecks[u]
        BY <3>1, SMTT(30)
      <3>3. <<u, 1>> \in HeldBut(t)
        BY <3>2, SMTT(30) DEF HeldBut, Batches
      <3> QED BY <1>5, <3>3
    <2> QED BY <1>3, <1>4, <2>1, SMTT(30)
  <1>7. Typed'
    <2>1. t \in Inside \cup {t} /\ Cardinality(Inside \cup {t}) \in Nat \ {0}
      BY FS_CardinalityType, FS_EmptySet DEF Accounted
    <2>2. /\ queue' \in Seq(BOOLEAN) /\ added' \in Seq(BOOLEAN)
          /\ fAllOk' \in BOOLEAN /\ fRet' \in BOOLEAN
          /\ nIdle' \in Nat /\ nTotal' \in Nat /\ nTodo' \in Nat
          /\ ControlMutex' \in Masters \cup {NoThread}
      BY <1>1, <2>1, SMTT(30) DEF Accounted, QueueInv, Typed
    <2>3. pc' \in [Threads -> Places]
      BY <1>1 DEF Accounted, Places
    <2>4. vChecks' \in [Threads -> Seq(BOOLEAN)] /\ fOk' \in [Threads -> BOOLEAN]
      BY <1>1 DEF QueueInv, Typed
    <2>5. \A u \in Threads : vChecks'[u] # <<>> <=> pc'[u] \in {"working", "done"}
      BY <1>3, <1>4 DEF QueueInv, Typed
    <2> QED BY <2>2, <2>3, <2>4, <2>5, SMTT(20) DEF Typed
  <1>8. Placed'
    <2>1. \A m \in Masters : m \in Threads /\ pc'[m] # "interrupted" /\ (pc'[m] # "out" => ControlMutex' = m)
      BY <1>3, <1>4 DEF Accounted, QueueInv, Placed, Threads
    <2>2. \A w \in Workers : pc'[w] \notin {"out", "control", "returned"}
      BY <1>2, <1>3 DEF QueueInv, Placed, Threads, CheckQueueConstants
    <2> QED BY <2>1, <2>2, SMTT(30) DEF Placed
  <1>9. Counted'
    <2>1. HeldBut(t)' = HeldBut(t)
      BY <1>3 DEF HeldBut, Batches
    <2>2. Held' = {}
      BY <1>6, SMTT(30) DEF Held
    <2>3. Inside' = (Inside \cup {t}) \ {t} /\ Idle' = Idle \ {t}
      BY <1>3, <1>4 DEF Inside, Idle
    <2>4. /\ IsFiniteSet((Inside \cup {t}) \ {t})
          /\ Cardinality((Inside \cup {t}) \ {t}) = Cardinality(Inside \cup {t}) - 1
      <3> DEFINE S == Inside \cup {t}
      <3>1. IsFiniteSet(S) /\ t \in S
        BY DEF Accounted
      <3> HIDE DEF S
      <3>2. IsFiniteSet(S \ {t}) /\ Cardinality(S \ {t}) = Cardinality(S) - 1
        BY <3>1, FS_RemoveElement
      <3> QED BY <3>2 DEF S
    <2>5. nTodo' = Len(queue') + Cardinality(Held') /\ IsFiniteSet(Held')
      BY <1>1, <1>2, <2>2, FS_EmptySet, SMTT(30)
    <2> QED BY <1>1, <2>3, <2>4, <2>5, SMTT(30) DEF Accounted, Counted
  <1>10. Told'
    <2>1. Over' /\ ~Over
      BY <1>2, <1>4 DEF Over, Accounted, QueueInv, Placed, Threads, CheckQueueConstants
    <2>2. \A u \in Threads : ~FailedIn(u)'
      BY <1>6, <1>7 DEF FailedIn, Typed
    <2>3. Range(queue) = {}
      BY SMTT(30) DEF Range
    <2>4. ~Failing'
      BY <1>1, <2>2, <2>3 DEF Failing
    <2>5. \A u \in Threads \ {t} : ~FailedIn(u)
      BY <1>3, <1>6 DEF FailedIn, QueueInv, Typed
    <2>6. s.fAllOk <=> FALSE \notin Range(added)
      BY <2>1, <2>3, <2>5 DEF FailingBut, Accounted, QueueInv, Told
    <2>7. WaitTellsAll'
      BY <1>1, <2>6 DEF WaitTellsAll
    <2>8. NoCheckOutlivesWait'
      BY <1>1, <1>6 DEF NoCheckOutlivesWait
    <2>9. \A u \in Threads : pc'[u] # "working"
      BY <1>6, <1>7 DEF Typed
    <2> QED BY <2>1, <2>4, <2>7, <2>8, <2>9, SMTT(20) DEF Told
  <1> QED BY <1>7, <1>8, <1>9, <1>10, SMTT(20) DEF QueueInv

(* A thread that finds nothing to do goes to sleep. *)
LEMMA SleepPreserves ==
  ASSUME CheckQueueConstants, QueueInv, NEW t \in Threads, NEW s, Accounted(t, s),
         queue = <<>>, Sleep(t, s), nTodo' = s.nTodo, UNCHANGED <<ControlMutex, added>>
  PROVE  QueueInv'
  <1>1. /\ fAllOk' = s.fAllOk /\ nTotal' = s.nTotal /\ nIdle' = s.nIdle + 1
        /\ pc' = [s.pc EXCEPT ![t] = "asleep"]
        /\ vChecks' = [vChecks EXCEPT ![t] = <<>>] /\ queue' = queue /\ fOk' = fOk /\ fRet' = fRet
    BY DEF Sleep, Cleared
  <1>2. \A u \in Threads \ {t} : /\ pc'[u] = pc[u] \/ (pc[u] = "asleep" /\ pc'[u] = "awake")
                                 /\ vChecks'[u] = vChecks[u] /\ fOk'[u] = fOk[u]
    BY <1>1 DEF Accounted, QueueInv, Typed
  <1>3. pc'[t] = "asleep" /\ vChecks'[t] = <<>>
    BY <1>1 DEF Accounted, QueueInv, Typed
  <1>4. Typed'
    <2>1. /\ queue' \in Seq(BOOLEAN) /\ added' \in Seq(BOOLEAN)
          /\ fAllOk' \in BOOLEAN /\ fRet' \in BOOLEAN
          /\ nIdle' \in Nat /\ nTotal' \in Nat /\ nTodo' \in Nat
          /\ ControlMutex' \in Masters \cup {NoThread}
      BY <1>1, SMTT(30) DEF Accounted, QueueInv, Typed
    <2>2. pc' \in [Threads -> Places]
      BY <1>1 DEF Accounted, Places
    <2>3. vChecks' \in [Threads -> Seq(BOOLEAN)] /\ fOk' \in [Threads -> BOOLEAN]
      BY <1>1 DEF QueueInv, Typed
    <2>4. \A u \in Threads : vChecks'[u] # <<>> <=> pc'[u] \in {"working", "done"}
      BY <1>2, <1>3, SMTT(30) DEF QueueInv, Typed
    <2> QED BY <2>1, <2>2, <2>3, <2>4, SMTT(30) DEF Typed
  <1>5. Placed'
    <2>1. \A m \in Masters : m \in Threads /\ pc'[m] # "interrupted" /\ (pc'[m] # "out" => ControlMutex' = m)
      BY <1>2, <1>3 DEF Accounted, QueueInv, Placed, Threads
    <2>2. \A w \in Workers : pc'[w] \notin {"out", "control", "returned"}
      BY <1>2, <1>3, SMTT(30) DEF QueueInv, Placed, Threads
    <2> QED BY <2>1, <2>2, SMTT(30) DEF Placed
  <1>6. Counted'
    <2>1. HeldBut(t)' = HeldBut(t)
      BY <1>2 DEF HeldBut, Batches
    <2>2. Held' = HeldBut(t)
      <3>1. Held' = HeldBut(t)'
        BY <1>3, SMTT(30) DEF Held, HeldBut, Batches
      <3> QED BY <2>1, <3>1
    <2>3. Inside' = Inside \cup {t} /\ Idle' = (Idle \ {t}) \cup {t}
      BY <1>2, <1>3 DEF Inside, Idle
    <2>4. /\ IsFiniteSet((Idle \ {t}) \cup {t})
          /\ Cardinality((Idle \ {t}) \cup {t}) = Cardinality(Idle \ {t}) + 1
      <3> DEFINE S == Idle \ {t}
      <3>1. IsFiniteSet(S) /\ t \notin S
        BY DEF Accounted
      <3> HIDE DEF S
      <3>2. IsFiniteSet(S \cup {t}) /\ Cardinality(S \cup {t}) = Cardinality(S) + 1
        BY <3>1, FS_AddElement
      <3> QED BY <3>2 DEF S
    <2> QED BY <1>1, <2>2, <2>3, <2>4, SMTT(30) DEF Accounted, Counted
  <1>7. Told'
    <2>1. Over' <=> Over
      BY <1>2, <1>3 DEF Over, Accounted, Threads
    <2>2. \A u \in Threads \ {t} : FailedIn(u)' <=> FailedIn(u)
      BY <1>2 DEF FailedIn
    <2>3. ~FailedIn(t)'
      BY <1>3 DEF FailedIn
    <2>4. Failing' <=> Failing
      BY <1>1, <2>2, <2>3 DEF Failing, FailingBut, Accounted
    <2>5. \A u \in Threads : pc'[u] = "working" /\ ~fOk'[u] => ~fAllOk'
      BY <1>1, <1>2, <1>3, SMTT(30) DEF QueueInv, Told, Accounted
    <2>6. NoCheckOutlivesWait'
      BY <1>1, <1>2, <1>3, <2>1, SMTT(30) DEF QueueInv, Told, NoCheckOutlivesWait, Over
    <2>7. WaitTellsAll'
      BY <1>1, <1>2, <1>3 DEF QueueInv, Told, WaitTellsAll, Threads
    <2> QED BY <2>1, <2>4, <2>5, <2>6, <2>7 DEF QueueInv, Told
  <1> QED BY <1>4, <1>5, <1>6, <1>7, SMTT(30) DEF QueueInv

(* So the rest of the critical section preserves the invariant. *)
LEMMA LoopHeadPreserves ==
  ASSUME CheckQueueConstants, QueueInv, NEW t \in Threads, NEW s, Accounted(t, s), LoopHead(t, s)
  PROVE  QueueInv'
  <1>1. nTodo' = s.nTodo /\ UNCHANGED <<ControlMutex, added>>
    BY DEF LoopHead
  <1>2. CASE queue # <<>>
    <2>1. Take(t, s)
      BY <1>2 DEF LoopHead
    <2> QED BY <1>1, <1>2, <2>1, TakePreserves, SMTT(30)
  <1>3. CASE queue = <<>> /\ MayReturn(t, s)
    <2>1. Return(t, s)
      BY <1>3 DEF LoopHead
    <2> QED BY <1>1, <1>3, <2>1, ReturnPreserves, SMTT(30)
  <1>4. CASE queue = <<>> /\ ~MayReturn(t, s)
    <2>1. Sleep(t, s)
      BY <1>4 DEF LoopHead
    <2> QED BY <1>1, <1>4, <2>1, SleepPreserves, SMTT(30)
  <1> QED BY <1>2, <1>3, <1>4, SMTT(30)

-----------------------------------------------------------------------------
(* nTodo without the batch of a thread. *)
LEMMA TodoBut ==
  ASSUME QueueInv, NEW t \in Threads
  PROVE  /\ IsFiniteSet(HeldBut(t)) /\ Cardinality(HeldBut(t)) \in Nat
         /\ nTodo = Len(queue) + Cardinality(HeldBut(t)) + Len(vChecks[t])
  <1>1. HeldBut(t) \in SUBSET Held /\ IsFiniteSet(Held)
    BY DEF HeldBut, Held, Batches, QueueInv, Counted
  <1>2. IsFiniteSet(HeldBut(t))
    BY <1>1, FS_Subset
  <1>3. Cardinality(HeldBut(t)) \in Nat
    BY <1>2, FS_CardinalityType
  <1>4. Held = Batches(vChecks, Threads)
    BY DEF Held, Batches
  <1>5. Cardinality(Batches(vChecks, Threads)) = Cardinality(HeldBut(t)) + Len(vChecks[t])
    BY <1>2, HeldSplit DEF QueueInv, Typed, HeldBut
  <1>6. nTodo = Len(queue) + Cardinality(Batches(vChecks, Threads))
    BY <1>4 DEF QueueInv, Counted
  <1>7. Len(queue) \in Nat /\ Len(vChecks[t]) \in Nat
    BY SMTT(30) DEF QueueInv, Typed
  <1> QED BY <1>2, <1>3, <1>5, <1>6, <1>7, SMTT(30)

(* A thread enters Loop. *)
LEMMA EnterPreserves ==
  ASSUME CheckQueueConstants, QueueInv, NEW t \in Threads, Enter(t)
  PROVE  QueueInv'
  <1> DEFINE s == [Current EXCEPT !.nTotal = @ + 1]
  <1>1. /\ s.nTodo = nTodo /\ s.nTotal = nTotal + 1 /\ s.nIdle = nIdle /\ s.fAllOk = fAllOk /\ s.pc = pc
        /\ pc[t] = "enter" /\ LoopHead(t, s)
    BY DEF Enter, Current
  <1> HIDE DEF s
  <1>2. vChecks[t] = <<>> /\ t \notin Inside /\ t \notin Idle /\ ~FailedIn(t)
    BY <1>1, SMTT(30) DEF QueueInv, Typed, Inside, Idle, FailedIn
  <1>3. IsFiniteSet(HeldBut(t)) /\ s.nTodo = Len(queue) + Cardinality(HeldBut(t))
    <2>1. Len(vChecks[t]) = 0
      BY <1>2, SMTT(30)
    <2> QED BY <1>1, <2>1, TodoBut, SMTT(30) DEF QueueInv, Typed
  <1>4. IsFiniteSet(Inside \cup {t}) /\ s.nTotal = Cardinality(Inside \cup {t})
    BY <1>1, <1>2, FS_AddElement DEF QueueInv, Counted
  <1>5. Idle \ {t} = Idle
    BY <1>2
  <1>6. Failing <=> FailingBut(t, s)
    BY <1>1, <1>2 DEF Failing, FailingBut
  <1>7. Accounted(t, s)
    <2>1. s.nTodo \in Nat /\ s.nTotal \in Nat /\ s.nIdle \in Nat /\ s.fAllOk \in BOOLEAN /\ s.pc \in [Threads -> Places]
      BY <1>1, SMTT(30) DEF QueueInv, Typed
    <2>2. IsFiniteSet(Idle) /\ s.nIdle = Cardinality(Idle)
      BY <1>1 DEF QueueInv, Counted
    <2> QED BY <1>1, <1>3, <1>4, <1>5, <1>6, <2>1, <2>2 DEF Accounted
  <1> QED BY <1>1, <1>7, LoopHeadPreserves

(* A thread comes out of a wait. *)
LEMMA WakePreserves ==
  ASSUME CheckQueueConstants, QueueInv, NEW t \in Threads, Wake(t)
  PROVE  QueueInv'
  <1> DEFINE s == [Current EXCEPT !.nIdle = @ - 1]
  <1>1. /\ s.nTodo = nTodo /\ s.nTotal = nTotal /\ s.nIdle = nIdle - 1 /\ s.fAllOk = fAllOk /\ s.pc = pc
        /\ pc[t] = "awake" /\ LoopHead(t, s)
    BY DEF Wake, Current
  <1> HIDE DEF s
  <1>2. vChecks[t] = <<>> /\ t \in Inside /\ t \in Idle /\ ~FailedIn(t)
    BY <1>1 DEF QueueInv, Typed, Inside, Idle, FailedIn
  <1>3. IsFiniteSet(HeldBut(t)) /\ s.nTodo = Len(queue) + Cardinality(HeldBut(t))
    <2>1. Len(vChecks[t]) = 0
      BY <1>2, SMTT(30)
    <2> QED BY <1>1, <2>1, TodoBut, SMTT(30) DEF QueueInv, Typed
  <1>4. IsFiniteSet(Idle \ {t}) /\ s.nIdle = Cardinality(Idle \ {t}) /\ s.nIdle \in Nat
    <2>1. IsFiniteSet(Idle \ {t}) /\ Cardinality(Idle \ {t}) = Cardinality(Idle) - 1
      BY <1>2, FS_RemoveElement, SMTT(30) DEF QueueInv, Counted
    <2>2. Cardinality(Idle \ {t}) \in Nat
      BY <2>1, FS_CardinalityType
    <2> QED BY <1>1, <2>1, <2>2, SMTT(20) DEF QueueInv, Counted
  <1>5. Inside \cup {t} = Inside
    BY <1>2
  <1>6. Failing <=> FailingBut(t, s)
    BY <1>1, <1>2 DEF Failing, FailingBut
  <1>7. Accounted(t, s)
    <2>1. s.nTodo \in Nat /\ s.nTotal \in Nat /\ s.fAllOk \in BOOLEAN /\ s.pc \in [Threads -> Places]
      BY <1>1 DEF QueueInv, Typed
    <2>2. IsFiniteSet(Inside) /\ s.nTotal = Cardinality(Inside)
      BY <1>1 DEF QueueInv, Counted
    <2> QED BY <1>1, <1>3, <1>4, <1>5, <1>6, <2>1, <2>2 DEF Accounted
  <1> QED BY <1>1, <1>7, LoopHeadPreserves

(* A thread has done a batch. *)
LEMMA AgainPreserves ==
  ASSUME CheckQueueConstants, QueueInv, NEW t \in Threads, Again(t)
  PROVE  QueueInv'
  <1> DEFINE todo == nTodo - Len(vChecks[t])
             s == [Current EXCEPT !.nTodo = todo, !.fAllOk = @ /\ fOk[t], !.pc = TellMaster(t, todo)]
  <1>1. /\ s.nTodo = todo /\ s.nTotal = nTotal /\ s.nIdle = nIdle /\ s.fAllOk = (fAllOk /\ fOk[t])
        /\ s.pc = TellMaster(t, todo) /\ pc[t] = "done" /\ LoopHead(t, s)
    BY DEF Again, Current, Done
  <1> HIDE DEF s
  <1>2. t \in Inside /\ t \notin Idle /\ (FailedIn(t) <=> ~fOk[t])
    BY <1>1 DEF Inside, Idle, FailedIn
  <1>3. IsFiniteSet(HeldBut(t)) /\ s.nTodo = Len(queue) + Cardinality(HeldBut(t)) /\ s.nTodo \in Nat
    <2>1. Len(queue) \in Nat /\ Len(vChecks[t]) \in Nat
      BY SMTT(30) DEF QueueInv, Typed
    <2> QED BY <1>1, <2>1, TodoBut, SMTT(30)
  <1> HIDE DEF todo
  <1>4. /\ s.pc \in [Threads -> Places]
        /\ \A u \in Threads : s.pc[u] = pc[u] \/ (pc[u] = "asleep" /\ s.pc[u] = "awake")
    <2>1. CASE s.pc = pc
      BY <2>1 DEF QueueInv, Typed
    <2>2. CASE s.pc = NotifyAll(Masters)
      BY <2>2 DEF QueueInv, Typed, NotifyAll, Asleep, Places
    <2> QED BY <1>1, <2>1, <2>2, SMTT(20) DEF TellMaster
  <1>5. Inside \cup {t} = Inside /\ Idle \ {t} = Idle
    BY <1>2
  <1>6. s.fAllOk \in BOOLEAN /\ (s.fAllOk <=> fAllOk /\ fOk[t])
    BY <1>1
  <1>7. Failing <=> FailingBut(t, s)
    BY <1>2, <1>6 DEF Failing, FailingBut
  <1>8. Accounted(t, s)
    <2>1. s.nTotal \in Nat /\ s.nIdle \in Nat
      BY <1>1 DEF QueueInv, Typed
    <2>2. IsFiniteSet(Inside) /\ s.nTotal = Cardinality(Inside) /\ IsFiniteSet(Idle) /\ s.nIdle = Cardinality(Idle)
      BY <1>1 DEF QueueInv, Counted
    <2> QED BY <1>1, <1>3, <1>4, <1>5, <1>6, <1>7, <2>1, <2>2 DEF Accounted
  <1> QED BY <1>1, <1>8, LoopHeadPreserves

-----------------------------------------------------------------------------
(* A step that leaves the counters and the checks alone, and takes no      *)
(* thread into or out of Loop, its waits and its batches.                  *)
LEMMA CountsKept ==
  ASSUME Counted, UNCHANGED <<queue, nTodo, nTotal, nIdle, vChecks>>,
         \A t \in Threads : \/ pc'[t] = pc[t]
                            \/ {pc[t], pc'[t]} \subseteq {"asleep", "awake", "interrupted"}
                            \/ {pc[t], pc'[t]} \subseteq {"working", "done"}
                            \/ {pc[t], pc'[t]} \subseteq {"out", "control", "enter", "returned"}
  PROVE  Counted'
  <1>1. Inside' = Inside /\ Idle' = Idle
    BY DEF Inside, Idle
  <1>2. Held' = Held
    BY DEF Held
  <1> QED BY <1>1, <1>2 DEF Counted

(* The constructor and the destructor of CCheckQueueControl, and the call  *)
(* of Wait.                                                                *)
LEMMA OwnerPreserves ==
  ASSUME CheckQueueConstants, QueueInv, NEW m \in Masters, Control(m) \/ Wait(m) \/ Release(m)
  PROVE  QueueInv'
  <1> m \in Threads
    BY DEF Threads
  <1>1. /\ UNCHANGED <<queue, nTodo, nTotal, nIdle, fAllOk, vChecks, fOk, fRet>>
        /\ \E place \in {"control", "enter", "out"} : pc' = [pc EXCEPT ![m] = place]
        /\ pc[m] \in {"out", "control", "returned"}
    BY DEF Control, Wait, Release, Goto, shared, local, control
  <1>2. \A t \in Threads \ {m} : pc'[t] = pc[t]
    BY <1>1 DEF QueueInv, Typed
  <1>3. pc'[m] \in {"control", "enter", "out"} /\ pc' \in [Threads -> Places]
    BY <1>1 DEF QueueInv, Typed, Places
  <1>4. /\ ControlMutex' \in Masters \cup {NoThread} /\ added' \in Seq(BOOLEAN)
        /\ pc'[m] # "out" => ControlMutex' = m
        /\ \A x \in Masters \ {m} : pc[x] = "out"
    <2>1. pc[m] # "out" => ControlMutex = m
      BY DEF QueueInv, Placed
    <2>2. CASE Control(m)
      <3>1. ControlMutex = NoThread /\ ControlMutex' = m /\ added' = <<>>
        BY <2>2 DEF Control
      <3> QED BY <3>1, SMTT(30) DEF QueueInv, Placed, CheckQueueConstants
    <2>3. CASE Wait(m)
      BY <2>1, <2>3, SMTT(30) DEF Wait, control, QueueInv, Typed, Placed
    <2>4. CASE Release(m)
      <3>1. pc'[m] = "out"
        BY <2>4 DEF Release, Goto, QueueInv, Typed
      <3>2. pc[m] = "returned" /\ ControlMutex' = NoThread /\ added' = added
        BY <2>4 DEF Release
      <3> QED BY <2>1, <3>1, <3>2, SMTT(30) DEF QueueInv, Typed, Placed
    <2> QED BY <2>2, <2>3, <2>4, SMTT(30)
  <1>5. Typed'
    BY <1>1, <1>2, <1>3, <1>4, SMTT(20) DEF QueueInv, Typed
  <1>6. Placed'
    <2>1. \A x \in Masters : pc'[x] # "interrupted" /\ (pc'[x] # "out" => ControlMutex' = x)
      BY <1>2, <1>3, <1>4, SMTT(20) DEF Threads
    <2>2. \A w \in Workers : pc'[w] \notin {"out", "control", "returned"}
      BY <1>2 DEF QueueInv, Placed, Threads, CheckQueueConstants
    <2> QED BY <2>1, <2>2 DEF Placed
  <1>7. Counted'
    <2>1. \A t \in Threads : \/ pc'[t] = pc[t]
                             \/ {pc[t], pc'[t]} \subseteq {"out", "control", "enter", "returned"}
      BY <1>1, <1>2, <1>3
    <2> QED BY <1>1, <2>1, CountsKept, SMTT(30) DEF QueueInv
  <1>8. Told'
    <2>1. \A t \in Threads : FailedIn(t)' <=> FailedIn(t)
      BY <1>1, <1>2, <1>3 DEF FailedIn
    <2>2. Failing' <=> Failing
      BY <1>1, <2>1 DEF Failing
    <2>3. \A t \in Threads : pc'[t] = "working" /\ ~fOk'[t] => ~fAllOk'
      BY <1>1, <1>2, <1>3, SMTT(30) DEF QueueInv, Told
    <2>4. \A x \in Masters : pc'[x] # "returned"
      BY <1>2, <1>3, <1>4 DEF Threads
    <2>5. WaitTellsAll'
      BY <2>4 DEF WaitTellsAll
    <2>6. CASE Control(m)
      <3>1. Over /\ ControlMutex' = m /\ added' = <<>>
        BY <2>6 DEF Control, Over
      <3>2. ~Over'
        BY <2>4, <3>1 DEF Over, CheckQueueConstants
      <3>3. FALSE \notin Range(added')
        BY <3>1, SMTT(30) DEF Range
      <3>4. NoCheckOutlivesWait'
        BY <3>2 DEF NoCheckOutlivesWait, Over
      <3> QED BY <2>2, <2>3, <2>5, <3>1, <3>2, <3>3, <3>4 DEF QueueInv, Told
    <2>7. CASE Wait(m)
      <3>1. pc[m] = "control" /\ ControlMutex = m /\ UNCHANGED <<ControlMutex, added>>
        BY <2>7 DEF Wait, control, QueueInv, Placed
      <3>2. ~Over /\ ~Over'
        BY <1>4, <2>4, <3>1 DEF Over, CheckQueueConstants
      <3>3. NoCheckOutlivesWait'
        BY <3>2 DEF NoCheckOutlivesWait, Over
      <3> QED BY <2>2, <2>3, <2>5, <3>1, <3>2, <3>3 DEF QueueInv, Told
    <2>8. CASE Release(m)
      <3>1. pc[m] = "returned" /\ ControlMutex' = NoThread
        BY <2>8 DEF Release
      <3>2. Over /\ Over'
        BY <3>1, SMTT(30) DEF Over
      <3>3. NoCheckOutlivesWait'
        BY <1>1, <3>2 DEF QueueInv, Told, NoCheckOutlivesWait, Over
      <3> QED BY <2>2, <2>3, <2>5, <3>2, <3>3, SMTT(30) DEF QueueInv, Told
    <2> QED BY <2>6, <2>7, <2>8
  <1> QED BY <1>5, <1>6, <1>7, <1>8 DEF QueueInv

(* Add. *)
LEMMA AddPreserves ==
  ASSUME CheckQueueConstants, QueueInv, NEW m \in Masters, NEW checks \in Checks, Add(m, checks)
  PROVE  QueueInv'
  <1> m \in Threads
    BY DEF Threads
  <1>1. checks \in Seq(BOOLEAN)
    BY SMTT(30) DEF Checks
  <1>2. /\ queue' = queue \o checks /\ nTodo' = nTodo + Len(checks) /\ added' = added \o checks
        /\ UNCHANGED <<nIdle, nTotal, fAllOk, vChecks, fOk, ControlMutex, fRet>> /\ pc[m] = "control"
    BY DEF Add, local
  <1>3. /\ queue' \in Seq(BOOLEAN) /\ Len(queue') = Len(queue) + Len(checks)
        /\ Range(queue') = Range(queue) \cup Range(checks)
        /\ added' \in Seq(BOOLEAN) /\ Range(added') = Range(added) \cup Range(checks)
    BY <1>1, <1>2, ToSetConcat, SMTT(30) DEF QueueInv, Typed
  <1>4. /\ pc' \in [Threads -> Places]
        /\ \A t \in Threads : pc'[t] = pc[t] \/ (pc[t] = "asleep" /\ pc'[t] = "awake")
    <2>1. pc' = pc \/ pc' \in NotifyOne(Workers) \/ pc' = NotifyAll(Workers)
      <3>1. CASE Len(checks) = 0 BY <3>1 DEF Add
      <3>2. CASE Len(checks) = 1 BY <3>2 DEF Add
      <3>3. CASE Len(checks) # 0 /\ Len(checks) # 1 BY <3>3 DEF Add
      <3> QED BY <3>1, <3>2, <3>3
    <2>2. CASE pc' = pc
      BY <2>2 DEF QueueInv, Typed
    <2>3. CASE pc' \in NotifyOne(Workers)
      <3>1. pc' = pc \/ \E u \in Asleep(Workers) : pc' = [pc EXCEPT ![u] = "awake"]
        BY <2>3 DEF NotifyOne
      <3>2. CASE \E u \in Asleep(Workers) : pc' = [pc EXCEPT ![u] = "awake"]
        BY <3>2 DEF Asleep, QueueInv, Typed, Places, Threads
      <3> QED BY <2>2, <3>1, <3>2, SMTT(30)
    <2>4. CASE pc' = NotifyAll(Workers)
      BY <2>4 DEF NotifyAll, Asleep, QueueInv, Typed, Places
    <2> QED BY <2>1, <2>2, <2>3, <2>4, SMTT(20)
  <1>5. Typed'
    <2>1. nTodo' \in Nat
      BY <1>1, <1>2, SMTT(30) DEF QueueInv, Typed
    <2> QED BY <1>2, <1>3, <1>4, <2>1 DEF QueueInv, Typed
  <1>6. Placed'
    BY <1>2, <1>4, SMTT(30) DEF QueueInv, Placed, Threads
  <1>7. Counted'
    <2>1. Inside' = Inside /\ Idle' = Idle
      BY <1>4, SMTT(30) DEF Inside, Idle
    <2>2. Held' = Held
      BY <1>2, SMTT(30) DEF Held
    <2>3. Cardinality(Held) \in Nat /\ Len(queue) \in Nat /\ Len(checks) \in Nat
      BY <1>1, FS_CardinalityType, SMTT(30) DEF QueueInv, Typed, Counted
    <2>4. nTodo' = Len(queue') + Cardinality(Held)
      BY <1>2, <1>3, <2>3, SMTT(30) DEF QueueInv, Counted
    <2> QED BY <1>2, <2>1, <2>2, <2>4, SMTT(30) DEF QueueInv, Counted
  <1>8. Told'
    <2>1. ~Over /\ ~Over'
      BY <1>2, <1>4, SMTT(30) DEF Over, QueueInv, Placed, Threads, CheckQueueConstants
    <2>2. \A t \in Threads : FailedIn(t)' <=> FailedIn(t)
      BY <1>2, <1>4 DEF FailedIn
    <2>3. Failing' <=> Failing \/ FALSE \in Range(checks)
      BY <1>2, <1>3, <2>2 DEF Failing
    <2>4. Failing' <=> FALSE \in Range(added')
      BY <1>3, <2>1, <2>3 DEF QueueInv, Told
    <2>5. \A t \in Threads : pc'[t] = "working" /\ ~fOk'[t] => ~fAllOk'
      BY <1>2, <1>4 DEF QueueInv, Told
    <2>6. NoCheckOutlivesWait' /\ WaitTellsAll'
      BY <2>1 DEF NoCheckOutlivesWait, WaitTellsAll, Over
    <2> QED BY <2>1, <2>4, <2>5, <2>6 DEF Told
  <1> QED BY <1>5, <1>6, <1>7, <1>8, SMTT(30) DEF QueueInv

(* Checks are evaluated: what failed in a batch is now in its result. *)
LEMMA WorkPreserves ==
  ASSUME QueueInv, NEW t \in Threads, Work(t)
  PROVE  QueueInv'
  <1>1. /\ UNCHANGED <<queue, nTodo, nTotal, nIdle, fAllOk, vChecks, ControlMutex, fRet, added>>
        /\ pc[t] = "working" /\ pc' = [pc EXCEPT ![t] = "done"]
        /\ fOk' = [fOk EXCEPT ![t] = @ /\ FALSE \notin Range(vChecks[t])]
    BY DEF Work, Goto, shared, control
  <1>2. \A u \in Threads \ {t} : pc'[u] = pc[u] /\ fOk'[u] = fOk[u]
    BY <1>1 DEF QueueInv, Typed
  <1>3. pc'[t] = "done" /\ pc' \in [Threads -> Places]
    BY <1>1 DEF QueueInv, Typed, Places
  <1>4. fOk' \in [Threads -> BOOLEAN] /\ (fOk'[t] <=> fOk[t] /\ FALSE \notin Range(vChecks[t]))
    BY <1>1 DEF QueueInv, Typed
  <1>5. Typed'
    BY <1>1, <1>2, <1>3, <1>4, SMTT(20) DEF QueueInv, Typed
  <1>6. Placed'
    BY <1>1, <1>2, <1>3, SMTT(30) DEF QueueInv, Placed, Threads
  <1>7. Counted'
    <2>1. \A u \in Threads : pc'[u] = pc[u] \/ {pc[u], pc'[u]} \subseteq {"working", "done"}
      BY <1>1, <1>2, <1>3, SMTT(30)
    <2> QED BY <1>1, <2>1, CountsKept, SMTT(30) DEF QueueInv
  <1>8. Told'
    <2>1. Over' <=> Over
      BY <1>1, <1>2, <1>3, SMTT(30) DEF Over, Threads
    <2>2. \A u \in Threads \ {t} : FailedIn(u)' <=> FailedIn(u)
      BY <1>1, <1>2 DEF FailedIn
    <2>3. FailedIn(t)' <=> FailedIn(t) \/ ~fOk[t]
      BY <1>1, <1>3, <1>4 DEF FailedIn
    <2>4. ~fOk[t] => ~fAllOk
      BY <1>1 DEF QueueInv, Told
    <2>5. Failing' <=> Failing
      BY <1>1, <2>2, <2>3, <2>4 DEF Failing
    <2>6. \A u \in Threads : pc'[u] = "working" /\ ~fOk'[u] => ~fAllOk'
      BY <1>1, <1>2, <1>3 DEF QueueInv, Told
    <2>7. NoCheckOutlivesWait' /\ WaitTellsAll'
      BY <1>1, <1>2, <1>3, <2>1 DEF QueueInv, Told, NoCheckOutlivesWait, WaitTellsAll, Over, Threads
    <2> QED BY <1>1, <2>1, <2>5, <2>6, <2>7 DEF QueueInv, Told
  <1> QED BY <1>5, <1>6, <1>7, <1>8, SMTT(30) DEF QueueInv

(* A wait ends without a notification, or is interrupted. *)
LEMMA WaitEndsPreserves ==
  ASSUME CheckQueueConstants, QueueInv, NEW t \in Threads, WakeSpuriously(t) \/ Interrupt(t)
  PROVE  QueueInv'
  <1>1. /\ UNCHANGED <<queue, nTodo, nTotal, nIdle, fAllOk, vChecks, fOk, ControlMutex, fRet, added>>
        /\ pc[t] \in {"asleep", "awake"}
        /\ pc' = [pc EXCEPT ![t] = "awake"] \/ (t \in Workers /\ pc' = [pc EXCEPT ![t] = "interrupted"])
    BY DEF WakeSpuriously, Interrupt, Goto, shared, local, control
  <1>2. \A u \in Threads \ {t} : pc'[u] = pc[u]
    BY <1>1 DEF QueueInv, Typed
  <1>3. /\ pc'[t] \in {"awake", "interrupted"} /\ (pc'[t] = "interrupted" => t \in Workers)
        /\ pc' \in [Threads -> Places]
    BY <1>1 DEF QueueInv, Typed, Places
  <1>4. Typed'
    BY <1>1, <1>2, <1>3 DEF QueueInv, Typed
  <1>5. Placed'
    BY <1>1, <1>2, <1>3, SMTT(30) DEF QueueInv, Placed, Threads, CheckQueueConstants
  <1>6. Counted'
    <2>1. \A u \in Threads : pc'[u] = pc[u] \/ {pc[u], pc'[u]} \subseteq {"asleep", "awake", "interrupted"}
      BY <1>1, <1>2, <1>3, SMTT(30)
    <2> QED BY <1>1, <2>1, CountsKept, SMTT(30) DEF QueueInv
  <1>7. Told'
    <2>1. Over' <=> Over
      BY <1>1, <1>2, <1>3, SMTT(30) DEF Over, Threads
    <2>2. \A u \in Threads : FailedIn(u)' <=> FailedIn(u)
      BY <1>1, <1>2, <1>3 DEF FailedIn
    <2>3. Failing' <=> Failing
      BY <1>1, <2>2 DEF Failing
    <2>4. \A u \in Threads : pc'[u] = "working" /\ ~fOk'[u] => ~fAllOk'
      BY <1>1, <1>2, <1>3, SMTT(30) DEF QueueInv, Told
    <2>5. NoCheckOutlivesWait' /\ WaitTellsAll'
      BY <1>1, <1>2, <1>3, <2>1 DEF QueueInv, Told, NoCheckOutlivesWait, WaitTellsAll, Over, Threads
    <2> QED BY <1>1, <2>1, <2>3, <2>4, <2>5 DEF QueueInv, Told
  <1> QED BY <1>4, <1>5, <1>6, <1>7, SMTT(30) DEF QueueInv

-----------------------------------------------------------------------------
(* The invariant holds before any thread has entered Loop. *)
LEMMA InitQueue == ASSUME CheckQueueConstants, Init PROVE QueueInv
  <1>1. \A t \in Threads : pc[t] = (IF t \in Masters THEN "out" ELSE "enter") /\ vChecks[t] = <<>>
    BY DEF Init
  <1>2. Typed
    <2>1. pc \in [Threads -> Places] /\ vChecks \in [Threads -> Seq(BOOLEAN)] /\ fOk \in [Threads -> BOOLEAN]
      BY SMTT(30) DEF Init, Places
    <2> QED BY <1>1, <2>1, SMTT(30) DEF Init, Typed
  <1>3. Placed
    BY <1>1, SMTT(30) DEF Placed, Threads, CheckQueueConstants
  <1>4. Counted
    <2>1. Held = {} /\ Inside = {} /\ Idle = {}
      BY <1>1, SMTT(30) DEF Held, Inside, Idle
    <2> QED BY <2>1, FS_EmptySet, SMTT(30) DEF Init, Counted
  <1>5. Told
    <2>1. Over /\ \A m \in Masters : pc[m] = "out"
      BY <1>1, SMTT(30) DEF Init, Over, Threads
    <2>2. ~Failing
      BY <1>1, SMTT(30) DEF Init, Failing, FailedIn, Range
    <2> QED BY <1>1, <2>1, <2>2 DEF Init, Told, NoCheckOutlivesWait, WaitTellsAll
  <1> QED BY <1>2, <1>3, <1>4, <1>5, SMTT(30) DEF QueueInv

(* Every step preserves it. *)
LEMMA StepQueue ==
  ASSUME CheckQueueConstants, QueueInv, [Next]_vars
  PROVE  QueueInv'
  <1>1. CASE \E m \in Masters : Control(m) \/ Wait(m) \/ Release(m)
    BY <1>1, OwnerPreserves, SMTT(30)
  <1>2. CASE \E m \in Masters, checks \in Checks : Add(m, checks)
    BY <1>2, AddPreserves, SMTT(30)
  <1>3. CASE \E t \in Threads : Enter(t) \/ Again(t) \/ Wake(t) \/ Work(t)
    BY <1>3, EnterPreserves, AgainPreserves, WakePreserves, WorkPreserves, SMTT(20)
  <1>4. CASE (\E t \in Threads : WakeSpuriously(t)) \/ \E t \in Workers : Interrupt(t)
    BY <1>4, WaitEndsPreserves, SMTT(30) DEF Threads
  <1>5. CASE UNCHANGED vars
    BY <1>5 DEF vars, shared, local, control, QueueInv, Typed, Placed, Counted, Told, Held, Inside, Idle,
                Over, Failing, FailedIn, NoCheckOutlivesWait, WaitTellsAll
  <1> QED BY <1>1, <1>2, <1>3, <1>4, <1>5, SMTT(20) DEF Next

(* The invariant of CCheckQueue holds throughout, for any threads and      *)
(* blocks.                                                                 *)
LEMMA QueueInvariant == Spec => []QueueInv
  <1>1. Init => QueueInv
    BY CheckQueueConstants, InitQueue, SMTT(30)
  <1>2. QueueInv /\ [Next]_vars => QueueInv'
    BY CheckQueueConstants, StepQueue, SMTT(30)
  <1> QED BY <1>1, <1>2, PTL DEF Spec

(* nTodo is the number of checks that are queued or in some thread's       *)
(* batch, for any number of threads and checks: Add and Loop keep it exact *)
(* although a thread accounts for a batch only when it asks for the next.  *)
THEOREM TodoExact == Spec => []TodoIsExact
  <1>1. QueueInv => TodoIsExact
    <2> SUFFICES ASSUME QueueInv PROVE TodoIsExact
      OBVIOUS
    <2>1. TypeOK
      BY DEF QueueInv, Typed, TypeOK, Places
    <2> QED BY <2>1 DEF QueueInv, Counted, TodoIsExact
  <1> QED BY <1>1, QueueInvariant, PTL

(* No check of a block is queued or held by a thread when the Wait of the  *)
(* CCheckQueueControl has returned, for any threads and any blocks: the    *)
(* coins that the checks refer to may go out of scope.                     *)
THEOREM WaitIsExact == Spec => []NoCheckOutlivesWait
  <1>1. QueueInv => NoCheckOutlivesWait
    BY DEF QueueInv, Told
  <1> QED BY <1>1, QueueInvariant, PTL

(* Wait returns the conjunction of the checks that were added for the      *)
(* block, whichever threads ran them and whenever one of them failed.      *)
THEOREM WaitTells == Spec => []WaitTellsAll
  <1>1. QueueInv => WaitTellsAll
    BY DEF QueueInv, Told
  <1> QED BY <1>1, QueueInvariant, PTL
=============================================================================
