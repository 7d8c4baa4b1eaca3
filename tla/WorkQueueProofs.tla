---------------------------- MODULE WorkQueueProofs ----------------------------
(* The work queue is correct for every queue size, batch size and number of     *)
(* commands (module WorkQueue).                                                 *)
EXTENDS WorkQueue, SequenceTheorems, TLAPS

RingInv == BusyCount <= QSize /\ NoOverlap

\* An index of the circular buffer stays inside it.
LEMMA WrapInCells ==
    ASSUME NEW i \in Nat, i < 2 * QSize
    PROVE  Wrap(i) \in Cells
BY QueueAssumption, SMT DEF Wrap, Cells

\* Wrapping twice is wrapping once.
LEMMA WrapWrap ==
    ASSUME NEW a \in Nat, NEW b \in Nat, NEW j \in Nat, a < QSize, b + j <= QSize
    PROVE  Wrap(Wrap(a + b) + j) = Wrap(a + b + j)
BY QueueAssumption, SMT DEF Wrap

\* Different offsets below QSize lead to different cells.
LEMMA WrapInjective ==
    ASSUME NEW a \in Nat, NEW i \in Nat, NEW j \in Nat,
           a < QSize, i < QSize, j < QSize, i # j
    PROVE  Wrap(a + i) # Wrap(a + j)
BY QueueAssumption, SMT DEF Wrap

\* The initial state satisfies the inductive invariant.
LEMMA InitInv == Init => IInv
<1> SUFFICES ASSUME Init PROVE IInv
  OBVIOUS
<1> USE QueueAssumption, BoundAssumption DEF Init
<1>1. TypeOK
  <2>1. queue \in [Cells -> Item \cup {NoItem}]
    OBVIOUS
  <2>2. batch \in [base : Cells, cnt : 0 .. QSize, alloc : 0 .. QSize] /\ next \in Cells
    BY DEF Cells
  <2> QED
    BY <2>1, <2>2 DEF TypeOK, ProducerPc, WorkerPc, Ops, FlushOps
<1>2. ControlInv
  BY DEF ControlInv
<1>3. BusyCount <= QSize /\ NoOverlap
  BY DEF BusyCount, NoOverlap
<1>4. ContentInv
  BY DEF ContentInv, Busy, BatchCells, BusyCount
<1> QED
  BY <1>1, <1>2, <1>3, <1>4 DEF IInv

\* A step that leaves the cells, the batch and the busy cells alone preserves the
\* two invariants about cells.
LEMMA RingFrame ==
    ASSUME IInv, UNCHANGED <<queue, next, batch>>, BusyCount' = BusyCount
    PROVE  RingInv' /\ ContentInv'
BY DEF IInv, RingInv, NoOverlap, ContentInv, Busy, BatchCells, Wrap

\* Each action preserves the inductive invariant.
LEMMA ActionInv ==
    ASSUME IInv, [Next]_vars
    PROVE  IInv'
<1> USE QueueAssumption, BoundAssumption, OpAssumption
    DEF IInv, queueVars, producerVars, workerVars
<1>0. SUFFICES (TypeOK /\ ControlInv)' /\ RingInv' /\ ContentInv'
  BY DEF RingInv
<1>t. /\ next \in Nat /\ next < QSize /\ fill \in Nat /\ fill <= QSize
      /\ batch.base \in Nat /\ batch.base < QSize
      /\ batch.cnt \in Nat /\ batch.alloc \in Nat
  BY DEF TypeOK, Cells
<1>1. CASE SetTime
  <2>1. (TypeOK /\ ControlInv)'
    BY <1>1 DEF SetTime, TypeOK, ControlInv
  <2> QED
    BY <2>1, <1>1, RingFrame DEF SetTime, BusyCount
<1>2. ASSUME NEW o \in BatchedOps \cup {"WT_FLUSH"}, Put(o)
      PROVE  IInv'
  <2>1. (TypeOK /\ ControlInv)'
    BY <1>2, <1>t DEF Put, StartPut, TypeOK, ControlInv, Ops, FlushOps, ProducerPc
  <2> QED
    BY <2>1, <1>2, RingFrame DEF Put, StartPut, BusyCount, RingInv
<1>3. CASE Terminate
  <2>1. (TypeOK /\ ControlInv)'
    BY <1>3, <1>t DEF Terminate, StartPut, TypeOK, ControlInv, Ops, FlushOps, ProducerPc
  <2> QED
    BY <2>1, <1>3, RingFrame DEF Terminate, StartPut, BusyCount
<1>4. CASE GrabItem
  <2>0. wpc # "pop2" /\ BusyCount = fill /\ BusyCount' = BusyCount
    BY <1>4 DEF GrabItem, CanLock, ControlInv, BusyCount
  <2>1. CASE QSize - fill < BatchMin
    <3>1. (TypeOK /\ ControlInv)'
      BY <1>4, <2>1, <1>t DEF GrabItem, TypeOK, ControlInv, Threads
    <3> QED
      BY <3>1, <2>0, <2>1, <1>4, RingFrame DEF GrabItem
  <2>2. CASE ~(QSize - fill < BatchMin)
    <3>1. /\ BatchAlloc \in Nat /\ 0 < BatchAlloc /\ fill + BatchAlloc <= QSize
          /\ BatchBase \in Cells
      BY <2>2, <1>t, WrapInCells DEF BatchAlloc, BatchBase
    <3>2. batch' = [base |-> BatchBase, cnt |-> 0, alloc |-> BatchAlloc]
      BY <1>4, <2>2 DEF GrabItem
    <3>3. TypeOK'
      BY <3>1, <3>2, <1>4, <2>2, <1>t DEF GrabItem, TypeOK, ProducerPc
    <3>4. ControlInv'
      BY <3>1, <3>2, <1>4, <2>2, <1>t DEF GrabItem, ControlInv
    <3>5. RingInv'
      BY <3>1, <3>2, <2>0, <1>4, <1>t DEF GrabItem, RingInv, NoOverlap, BatchBase, Wrap
    <3>6. Busy' = Busy /\ BatchCells' = {}
      BY <3>2, <2>0, <1>4 DEF GrabItem, Busy, BatchCells, Wrap
    <3>7. ContentInv'
      BY <3>6, <1>4 DEF GrabItem, ContentInv
    <3> QED
      BY <3>3, <3>4, <3>5, <3>7
  <2> QED
    BY <2>1, <2>2
<1>5. CASE WriteItem
  <2> DEFINE cur == Wrap(batch.base + batch.cnt)
             item == [type |-> op, time |-> nextTime]
  <2>0. /\ ppc = "write"
        /\ queue' = [queue EXCEPT ![cur] = item]
        /\ batch' = [batch EXCEPT !.cnt = batch.cnt + 1]
        /\ next' = next /\ BusyCount' = BusyCount
    BY <1>5 DEF WriteItem, BusyCount
  <2>1. /\ batch.cnt < batch.alloc /\ op \in Ops
        /\ BusyCount \in Nat /\ BusyCount + batch.alloc <= QSize
        /\ batch.base = Wrap(next + BusyCount)
    BY <2>0, <1>t DEF ControlInv, NoOverlap, BusyCount
  <2>2. cur \in Cells /\ item \in Item
    BY <2>1, <1>t, WrapInCells DEF TypeOK, Item
  <2>3. TypeOK'
    <3>1. queue' \in [Cells -> Item \cup {NoItem}]
      BY <2>0, <2>2 DEF TypeOK
    <3>2. heap' \subseteq Cells
      BY <1>5, <2>2 DEF WriteItem, TypeOK
    <3>3. batch' \in [base : Cells, cnt : 0 .. QSize, alloc : 0 .. QSize]
      BY <2>0, <2>1, <1>t DEF TypeOK
    <3> QED
      BY <3>1, <3>2, <3>3, <1>5 DEF WriteItem, TypeOK, ProducerPc
  <2>4. ControlInv'
    BY <2>0, <2>1, <1>t, <1>5 DEF WriteItem, ControlInv, TypeOK, BatchComplete, FlushOps
  <2>5. RingInv'
    BY <2>0, <1>t, <1>5 DEF WriteItem, RingInv, NoOverlap, TypeOK, Wrap
  <2>6. Busy' = Busy /\ BatchCells' \subseteq BatchCells \cup {cur}
    <3>1. Busy' = Busy
      BY <2>0 DEF Busy, Wrap
    <3>2. batch'.base = batch.base /\ batch'.cnt = batch.cnt + 1
      BY <2>0 DEF TypeOK
    <3>3. ASSUME NEW i \in 0 .. batch'.cnt - 1
          PROVE  Wrap(batch'.base + i) \in BatchCells \cup {cur}
      <4>1. CASE i = batch.cnt
        BY <4>1, <3>2
      <4>2. CASE i # batch.cnt
        <5>1. i \in 0 .. batch.cnt - 1
          BY <4>2, <3>2, <1>t
        <5> QED
          BY <5>1, <3>2 DEF BatchCells
      <4> QED
        BY <4>1, <4>2
    <3> QED
      BY <3>1, <3>3 DEF BatchCells, Wrap
  <2>7. ContentInv'
    <3> SUFFICES ASSUME NEW c \in Busy' \cup BatchCells' PROVE queue'[c] \in Item
      BY DEF ContentInv
    <3>1. CASE c = cur
      BY <3>1, <2>0, <2>2 DEF TypeOK
    <3>2. CASE c # cur
      BY <3>2, <2>0, <2>2, <2>6 DEF ContentInv, TypeOK
    <3> QED
      BY <3>1, <3>2
  <2> QED
    BY <2>3, <2>4, <2>5, <2>7
<1>6. CASE EndBatch
  <2>0. /\ ppc = "endbatch" /\ wpc # "pop2" /\ wpc' = wpc
        /\ BusyCount = fill /\ BusyCount' = fill + batch.cnt
        /\ next' = next /\ queue' = queue
        /\ batch' = [base |-> batch.base, cnt |-> 0, alloc |-> 0]
    BY <1>6 DEF EndBatch, CanLock, ControlInv, BusyCount
  <2>1. /\ batch.alloc > 0 /\ batch.cnt <= batch.alloc
        /\ fill + batch.alloc <= QSize
        /\ batch.base = Wrap(next + fill)
    BY <2>0, <1>t DEF ControlInv, NoOverlap
  <2>2. /\ batch' \in [base : Cells, cnt : 0 .. QSize, alloc : 0 .. QSize]
        /\ batch'.cnt = 0 /\ batch'.alloc = 0
    BY <2>0 DEF TypeOK
  <2>3. TypeOK'
    BY <2>1, <2>2, <1>t, <1>6 DEF EndBatch, TypeOK, ProducerPc
  <2>4. ControlInv'
    BY <2>0, <2>1, <2>2, <1>t, <1>6
       DEF EndBatch, ControlInv, TypeOK, Ops, FlushOps
  <2>5. RingInv'
    BY <2>0, <2>1, <2>2, <1>t DEF RingInv, NoOverlap
  <2>6. Busy' \subseteq Busy \cup BatchCells /\ BatchCells' = {}
    <3>1. ASSUME NEW i \in 0 .. (fill + batch.cnt) - 1
          PROVE  Wrap(next + i) \in Busy \cup BatchCells
      <4>1. CASE i < fill
        BY <4>1, <2>0, <1>t DEF Busy
      <4>2. CASE i >= fill
        <5> DEFINE j == i - fill
        <5>1. j \in Nat /\ j \in 0 .. batch.cnt - 1 /\ fill + j = i /\ fill + j <= QSize
          BY <4>2, <2>1, <1>t
        <5>2. next + fill + j = next + i
          BY <5>1, <1>t
        <5> HIDE DEF j
        <5>3. Wrap(Wrap(next + fill) + j) = Wrap(next + fill + j)
          BY <5>1, <1>t DEF Wrap
        <5>4. Wrap(batch.base + j) = Wrap(next + i)
          BY <5>2, <5>3, <2>1
        <5> QED
          BY <5>1, <5>4 DEF BatchCells
      <4> QED
        BY <4>1, <4>2, <1>t
    <3>2. Busy' = {Wrap(next + i) : i \in 0 .. (fill + batch.cnt) - 1}
      BY <2>0 DEF Busy, Wrap
    <3>3. BatchCells' = {}
      BY <2>2 DEF BatchCells
    <3> QED
      BY <3>1, <3>2, <3>3
  <2>7. ContentInv'
    BY <2>0, <2>6 DEF ContentInv
  <2> QED
    BY <2>3, <2>4, <2>5, <2>7
<1>7. CASE Sync
  <2>1. (TypeOK /\ ControlInv)'
    BY <1>7, <1>t DEF Sync, TypeOK, ControlInv, ProducerPc
  <2> QED
    BY <2>1, <1>7, RingFrame DEF Sync, BusyCount
<1>8. CASE SyncTest
  <2>1. (TypeOK /\ ControlInv)'
    BY <1>8, <1>t DEF SyncTest, TypeOK, ControlInv, ProducerPc
  <2> QED
    BY <2>1, <1>8, RingFrame DEF SyncTest, BusyCount
<1>9. CASE SyncWait
  <2>1. (TypeOK /\ ControlInv)'
    BY <1>9, <1>t DEF SyncWait, TypeOK, ControlInv, ProducerPc, Threads
  <2> QED
    BY <2>1, <1>9, RingFrame DEF SyncWait, BusyCount
<1>10. CASE Join
  <2>1. (TypeOK /\ ControlInv)'
    BY <1>10, <1>t DEF Join, TypeOK, ControlInv, ProducerPc
  <2> QED
    BY <2>1, <1>10, RingFrame DEF Join, BusyCount
<1>11. CASE Peek
  <2>1. (TypeOK /\ ControlInv)'
    BY <1>11, <1>t DEF Peek, TypeOK, ControlInv, WorkerPc
  <2>2. BusyCount' = BusyCount
    BY <1>11 DEF Peek, BusyCount
  <2> QED
    BY <2>1, <2>2, <1>11, RingFrame DEF Peek
<1>12. CASE PeekWait
  <2>1. TypeOK'
    BY <1>12 DEF PeekWait, TypeOK, WorkerPc, Threads
  <2>3. ControlInv'
    BY <1>12, <1>t DEF PeekWait, TypeOK, ControlInv
  <2>2. BusyCount' = BusyCount
    BY <1>12 DEF PeekWait, BusyCount
  <2> QED
    BY <2>1, <2>2, <2>3, <1>12, RingFrame DEF PeekWait
<1>13. CASE Use
  <2>1. next \in Busy
    <3>1. 0 \in 0 .. BusyCount - 1 /\ Wrap(next + 0) = next
      BY <1>13, <1>t DEF Use, ControlInv, BusyCount, Wrap
    <3> QED
      BY <3>1 DEF Busy
  <2>2. queue[next] \in Item
    BY <2>1 DEF ContentInv
  <2>3. TypeOK'
    BY <2>2, <1>13 DEF Use, TypeOK, WorkerPc
  <2>4. ControlInv'
    BY <1>13 DEF Use, ControlInv
  <2>5. BusyCount' = BusyCount
    BY <1>13 DEF Use, BusyCount
  <2> QED
    BY <2>3, <2>4, <2>5, <1>13, RingFrame DEF Use
<1>14. CASE Pop
  <2>1. TypeOK'
    BY <1>14, <1>t DEF Pop, TypeOK, ControlInv, WorkerPc
  <2>2. ControlInv'
    BY <1>14 DEF Pop, ControlInv
  <2>3. BusyCount' = BusyCount
    BY <1>14, <1>t DEF Pop, BusyCount
  <2> QED
    BY <2>1, <2>2, <2>3, <1>14, RingFrame DEF Pop
<1>15. CASE PopRest
  <2>0. /\ BusyCount = fill + 1 /\ BusyCount' = fill
        /\ fill + 1 <= QSize
        /\ next' = Wrap(next + 1) /\ queue' = queue /\ batch' = batch
    BY <1>15 DEF PopRest, BusyCount, NextCell
  <2>1. next' \in Cells
    BY <2>0, <1>t, WrapInCells
  <2>2. TypeOK'
    BY <2>1, <1>15 DEF PopRest, TypeOK, WorkerPc, HeapAfterPop
  <2>3. ControlInv'
    BY <1>15 DEF PopRest, ControlInv
  <2>4. ASSUME NEW i \in 0 .. fill
        PROVE  Wrap(next' + i) = Wrap(next + 1 + i)
    <3>1. i \in Nat /\ 1 + i <= QSize
      BY <2>0, <1>t
    <3>2. next \in Nat /\ next < QSize /\ 1 \in Nat
      BY <1>t, QueueAssumption DEF Cells
    <3>3. Wrap(Wrap(next + 1) + i) = Wrap(next + 1 + i)
      BY <3>1, <3>2, QueueAssumption, SMT DEF Wrap
    <3> QED
      BY <2>0, <3>3, Zenon
  <2>5. RingInv'
    BY <2>0, <2>4, <1>t DEF RingInv, NoOverlap, Wrap
  <2>6. Busy' \subseteq Busy /\ BatchCells' = BatchCells
    <3>1. ASSUME NEW i \in 0 .. fill - 1 PROVE Wrap(next' + i) \in Busy
      <4>1. 1 + i \in 0 .. BusyCount - 1 /\ next + 1 + i = next + (1 + i)
        BY <2>0, <1>t
      <4> QED
        BY <4>1, <2>4, <1>t DEF Busy
    <3> QED
      BY <2>0, <3>1 DEF Busy, BatchCells, Wrap
  <2>7. ContentInv'
    BY <2>0, <2>6 DEF ContentInv
  <2> QED
    BY <2>2, <2>3, <2>5, <2>7
<1>16. CASE SpuriousWakeup
  <2>1. (TypeOK /\ ControlInv)'
    BY <1>16, <1>t DEF SpuriousWakeup, TypeOK, ControlInv
  <2> QED
    BY <2>1, <1>16, RingFrame DEF SpuriousWakeup, BusyCount
<1>17. CASE UNCHANGED vars
  <2>1. (TypeOK /\ ControlInv)'
    BY <1>17 DEF vars, TypeOK, ControlInv
  <2> QED
    BY <2>1, <1>17, RingFrame DEF vars, BusyCount
<1> QED
  BY <1>1, <1>2, <1>3, <1>4, <1>5, <1>6, <1>7, <1>8, <1>9, <1>10, <1>11, <1>12,
     <1>13, <1>14, <1>15, <1>16, <1>17
     DEF Next, Producer, Worker, Exited, RingInv

\* Every reachable state satisfies the inductive invariant.
THEOREM QueueInvariant == Spec => []IInv
BY InitInv, ActionInv, PTL DEF Spec

\* Every reachable state is type correct, for every queue and batch size.
THEOREM TypeCorrect == Spec => []TypeOK
<1>1. IInv => TypeOK
  BY DEF IInv
<1> QED
  BY <1>1, QueueInvariant, PTL

\* A batch being filled never overlaps the cells the worker still needs
\* (grab_item against vcd_work_thread_peek and vcd_work_thread_pop).
THEOREM BatchesApart == Spec => []NoOverlap
<1>1. IInv => NoOverlap
  BY DEF IInv
<1> QED
  BY <1>1, QueueInvariant, PTL

\* The command the worker is carrying out is stable until it is popped.
THEOREM ItemIsStable == Spec => StableItem
<1>1. ASSUME IInv, [Next]_vars, wpc \in {"use", "pop"}
      PROVE  queue'[next] = queue[next]
  <2>1. CASE WriteItem
    <3> DEFINE cur == Wrap(batch.base + batch.cnt)
    <3>1. /\ ppc = "write" /\ BusyCount = fill
          /\ queue' = [queue EXCEPT ![cur] = [type |-> op, time |-> nextTime]]
      BY <2>1, <1>1 DEF WriteItem, BusyCount
    <3>2. /\ next \in Nat /\ next < QSize /\ fill \in Nat /\ batch.cnt \in Nat
          /\ batch.alloc \in Nat
      BY <1>1, QueueAssumption DEF IInv, TypeOK, Cells
    <3>3. /\ batch.base = Wrap(next + fill) /\ fill > 0
          /\ fill + batch.alloc <= QSize /\ batch.cnt < batch.alloc
      BY <3>1, <3>2, <1>1 DEF IInv, ControlInv, NoOverlap
    <3>4. Wrap(Wrap(next + fill) + batch.cnt) # next
      BY <3>2, <3>3, QueueAssumption DEF Wrap
    <3>5. cur # next
      BY <3>3, <3>4
    <3> QED
      BY <3>1, <3>5, <1>1 DEF IInv, TypeOK
  <2>2. CASE ~WriteItem
    <3>1. queue' = queue
      BY <2>2, <1>1 DEF Next, vars, queueVars, producerVars, workerVars, Producer,
         SetTime, Put, StartPut, Terminate, GrabItem, EndBatch, Sync, SyncTest,
         SyncWait, Join, Worker, Peek, PeekWait, Use, Pop, PopRest, SpuriousWakeup,
         Exited
    <3> QED
      BY <3>1
  <2> QED
    BY <2>1, <2>2
<1> QED
  BY <1>1, QueueInvariant, PTL DEF Spec, StableItem

--------------------------------------------------------------------------------
(* The strings of the emit commands.                                            *)

Occupied == {Wrap(next + i) : i \in 0 .. (BusyCount + batch.cnt) - 1}

\* The sizes and positions in the buffer, as the arithmetic below needs them.
LEMMA RingFacts ==
    ASSUME IInv
    PROVE  /\ next \in Nat /\ next < QSize /\ fill \in Nat /\ BusyCount \in Nat
           /\ batch.cnt \in Nat /\ batch.alloc \in Nat /\ batch.cnt <= batch.alloc
           /\ BusyCount + batch.cnt <= QSize
           /\ batch.cnt > 0 => batch.base = Wrap(next + BusyCount)
           /\ batch.alloc > 0 => batch.base = Wrap(next + BusyCount)
BY QueueAssumption DEF IInv, TypeOK, ControlInv, NoOverlap, BusyCount, Cells

\* The published cells and the written cells of the batch are consecutive.
LEMMA OccupiedCells == IInv => Busy \cup BatchCells = Occupied
<1> SUFFICES ASSUME IInv PROVE Busy \cup BatchCells = Occupied
  OBVIOUS
<1> USE RingFacts
<1>1. Busy \subseteq Occupied
  BY DEF Busy, Occupied
<1>2. ASSUME NEW i \in 0 .. batch.cnt - 1
      PROVE  /\ Wrap(batch.base + i) = Wrap(next + (BusyCount + i))
             /\ BusyCount + i \in 0 .. (BusyCount + batch.cnt) - 1
  BY QueueAssumption DEF Wrap
<1>3. BatchCells \subseteq Occupied
  BY <1>2 DEF BatchCells, Occupied
<1>4. ASSUME NEW i \in 0 .. (BusyCount + batch.cnt) - 1
      PROVE  Wrap(next + i) \in Busy \cup BatchCells
  <2>1. CASE i < BusyCount
    BY <2>1 DEF Busy
  <2>2. CASE ~(i < BusyCount)
    <3>1. PICK j \in 0 .. batch.cnt - 1 : i = BusyCount + j
      <4>1. i - BusyCount \in 0 .. batch.cnt - 1 /\ i = BusyCount + (i - BusyCount)
        BY <2>2
      <4> QED
        BY <4>1
    <3> QED
      BY <3>1, <1>2 DEF BatchCells
  <2> QED
    BY <2>1, <2>2
<1> QED
  BY <1>1, <1>3, <1>4 DEF Occupied

\* What a step does to the occupied cells and to the live strings.
LEMMA StringsStep ==
    ASSUME IInv, StringsOwned, [Next]_vars
    PROVE  StringsOwned'
<1> USE RingFacts DEF queueVars, producerVars, workerVars
<1> DEFINE Owned == {c \in Occupied : queue[c].type = "WT_EMIT_BITS"}
<1>0. IInv' /\ heap = Owned
  BY ActionInv, OccupiedCells DEF StringsOwned
<1>1. SUFFICES heap' = Owned'
  <2>1. (IInv => Busy \cup BatchCells = Occupied)'
    BY OccupiedCells, PTL
  <2> QED
    BY <2>1, <1>0 DEF StringsOwned
<1>2. ASSUME UNCHANGED <<queue, next, heap>>,
             (BusyCount + batch.cnt)' = BusyCount + batch.cnt
      PROVE  heap' = Owned'
  <2>1. BusyCount' + batch'.cnt = BusyCount + batch.cnt
    BY <1>2
  <2> DEFINE UpTo(n) == {Wrap(next + i) : i \in 0 .. n - 1}
  <2>0. Occupied' = {Wrap(next + i) : i \in 0 .. (BusyCount' + batch'.cnt) - 1}
    BY <1>2 DEF Occupied, Wrap
  <2>2. Occupied' = UpTo(BusyCount' + batch'.cnt)
    BY <2>0
  <2>3. Occupied = UpTo(BusyCount + batch.cnt)
    BY DEF Occupied
  <2> HIDE DEF UpTo
  <2>4. Occupied' = Occupied
    BY <2>1, <2>2, <2>3
  <2> QED
    BY <1>0, <1>2, <2>4
<1>3. CASE WriteItem
  <2> DEFINE cur == Wrap(batch.base + batch.cnt)
             item == [type |-> op, time |-> nextTime]
  <2>0. /\ ppc = "write" /\ next' = next /\ BusyCount' = BusyCount
        /\ queue' = [queue EXCEPT ![cur] = item]
        /\ heap' = IF op = "WT_EMIT_BITS" THEN heap \cup {cur} ELSE heap
        /\ batch' = [batch EXCEPT !.cnt = batch.cnt + 1]
    BY <1>3 DEF WriteItem, BusyCount
  <2>1. /\ batch'.cnt = batch.cnt + 1 /\ batch.cnt < batch.alloc
        /\ BusyCount + batch.alloc <= QSize
        /\ cur = Wrap(next + (BusyCount + batch.cnt))
    <3>1. batch'.cnt = batch.cnt + 1 /\ batch.cnt < batch.alloc
      BY <2>0 DEF IInv, TypeOK, ControlInv
    <3>2. BusyCount + batch.alloc <= QSize /\ batch.base = Wrap(next + BusyCount)
      BY <3>1 DEF IInv, NoOverlap
    <3>3. Wrap(Wrap(next + BusyCount) + batch.cnt) = Wrap(next + (BusyCount + batch.cnt))
      BY <3>1, <3>2, QueueAssumption DEF Wrap
    <3> QED
      BY <3>1, <3>2, <3>3
  <2>2. cur \notin Occupied
    <3>1. ASSUME NEW i \in 0 .. (BusyCount + batch.cnt) - 1
          PROVE  Wrap(next + i) # cur
      BY <2>1, QueueAssumption DEF Wrap
    <3> QED
      BY <3>1 DEF Occupied
  <2>3. Occupied' = Occupied \cup {cur}
    <3>1. Occupied' = {Wrap(next + i) : i \in 0 .. BusyCount + batch.cnt}
      BY <2>0, <2>1 DEF Occupied, Wrap
    <3>2. 0 .. BusyCount + batch.cnt
            = (0 .. (BusyCount + batch.cnt) - 1) \cup {BusyCount + batch.cnt}
      OBVIOUS
    <3> QED
      BY <3>1, <3>2, <2>1 DEF Occupied
  <2>4. cur \in Cells /\ queue'[cur].type = op
    <3>0. next + (BusyCount + batch.cnt) < 2 * QSize
      BY <2>1, QueueAssumption
    <3>1. cur \in Cells
      BY <2>1, <3>0, WrapInCells
    <3> QED
      BY <3>1, <2>0 DEF IInv, TypeOK
  <2>5. \A c \in Occupied : queue'[c] = queue[c]
    BY <2>0, <2>2 DEF IInv, TypeOK
  <2> QED
    BY <1>0, <2>0, <2>2, <2>3, <2>4, <2>5
<1>4. CASE PopRest
  <2>0. /\ next' = Wrap(next + 1) /\ queue' = queue /\ batch' = batch
        /\ BusyCount = fill + 1 /\ BusyCount' = fill
        /\ heap' = HeapAfterPop
    BY <1>4 DEF PopRest, BusyCount, NextCell
  <2>1. Occupied' = {Wrap(next + i) : i \in 1 .. fill + batch.cnt}
    <3>1. Occupied' = {Wrap(next' + i) : i \in 0 .. (fill + batch.cnt) - 1}
      BY <2>0 DEF Occupied, Wrap
    <3>2. ASSUME NEW i \in 0 .. (fill + batch.cnt) - 1
          PROVE  Wrap(next' + i) = Wrap(next + (i + 1)) /\ i + 1 \in 1 .. fill + batch.cnt
      BY <2>0, QueueAssumption DEF Wrap
    <3>3. ASSUME NEW i \in 1 .. fill + batch.cnt
          PROVE  \E j \in 0 .. (fill + batch.cnt) - 1 : i = j + 1
      <4>1. i - 1 \in 0 .. (fill + batch.cnt) - 1 /\ i = (i - 1) + 1
        OBVIOUS
      <4> QED
        BY <4>1
    <3> QED
      BY <3>1, <3>2, <3>3
  <2>2. Occupied = Occupied' \cup {next} /\ next \notin Occupied'
    <3> DEFINE n == fill + batch.cnt
    <3>0. n \in Nat /\ BusyCount + batch.cnt - 1 = n
      BY <2>0
    <3> HIDE DEF n
    <3>1. 0 .. n = (1 .. n) \cup {0}
      BY <3>0
    <3>4. Occupied = {Wrap(next + i) : i \in 1 .. n} \cup {Wrap(next + 0)}
      BY <3>0, <3>1 DEF Occupied
    <3>2. Wrap(next + 0) = next
      BY QueueAssumption DEF Wrap
    <3>3. ASSUME NEW i \in 1 .. fill + batch.cnt PROVE Wrap(next + i) # next
      BY <2>0, QueueAssumption DEF Wrap
    <3> QED
      BY <2>1, <3>2, <3>3, <3>4 DEF n
  <2> QED
    BY <1>0, <2>0, <2>2 DEF HeapAfterPop
<1>5. CASE EndBatch
  <2>1. BusyCount = fill /\ BusyCount' = fill + batch.cnt /\ batch'.cnt = 0
    BY <1>5 DEF EndBatch, CanLock, IInv, ControlInv, BusyCount
  <2> QED
    BY <2>1, <1>2, <1>5 DEF EndBatch
<1>6. CASE GrabItem
  <2>1. batch.cnt = 0 /\ batch'.cnt = 0 /\ BusyCount' = BusyCount
    BY <1>6 DEF GrabItem, IInv, ControlInv, BusyCount
  <2> QED
    BY <2>1, <1>2, <1>6 DEF GrabItem
<1>7. CASE Pop
  <2>1. BusyCount' = BusyCount
    BY <1>7 DEF Pop, BusyCount
  <2> QED
    BY <2>1, <1>2, <1>7 DEF Pop
<1>8. CASE ~(WriteItem \/ PopRest \/ EndBatch \/ GrabItem \/ Pop)
  <2>1. UNCHANGED <<queue, next, heap, batch>> /\ BusyCount' = BusyCount
    BY <1>8 DEF Next, vars, Producer, SetTime, Put, StartPut, Terminate, Sync,
       SyncTest, SyncWait, Join, Worker, Peek, PeekWait, Use, SpuriousWakeup, Exited,
       BusyCount
  <2> QED
    BY <2>1, <1>2
<1> QED
  BY <1>3, <1>4, <1>5, <1>6, <1>7, <1>8

\* Every duplicated string is freed exactly once, by the pop of its command.
THEOREM StringsAreOwned == Spec => []StringsOwned
<1>1. Init => StringsOwned
  BY DEF Init, StringsOwned, Busy, BatchCells, BusyCount
<1>2. IInv /\ StringsOwned /\ [Next]_vars => StringsOwned'
  BY StringsStep
<1> QED
  BY <1>1, <1>2, QueueInvariant, PTL DEF Spec

--------------------------------------------------------------------------------
(* The two kinds of waiting.                                                    *)

\* No signal is lost: a thread sleeps only while its condition does not hold.
THEOREM WakeupsNotLost == Spec => []NoLostWakeup
<1>1. Init => NoLostWakeup
  BY DEF Init, NoLostWakeup
<1>2. ASSUME IInv, NoLostWakeup, [Next]_vars PROVE NoLostWakeup'
  <2> USE <1>2, RingFacts, QueueAssumption
      DEF NoLostWakeup, BusyCount, queueVars, producerVars, workerVars
  <2>1. CASE GrabItem
    BY <2>1 DEF GrabItem, CanLock, IInv, ControlInv
  <2>2. CASE EndBatch
    BY <2>2 DEF EndBatch, CanLock, WasEmpty
  <2>3. CASE SyncWait
    BY <2>3 DEF SyncWait, CanLock, IInv, ControlInv
  <2>4. CASE PeekWait
    BY <2>4 DEF PeekWait, CanLock
  <2>5. CASE Pop
    BY <2>5 DEF Pop, CanLock
  <2>6. CASE PopRest
    BY <2>6 DEF PopRest, PopWakesProducer
  <2>7. CASE SpuriousWakeup
    BY <2>7 DEF SpuriousWakeup
  <2>8. CASE SetTime \/ Terminate \/ Sync \/ SyncTest \/ WriteItem \/ Join
    BY <2>8 DEF SetTime, Terminate, StartPut, Sync, SyncTest, WriteItem, Join
  <2>9. ASSUME NEW o \in BatchedOps \cup {"WT_FLUSH"}, Put(o) PROVE NoLostWakeup'
    BY <2>9 DEF Put, StartPut
  <2>10. CASE Peek \/ Use
    BY <2>10 DEF Peek, Use
  <2>11. CASE UNCHANGED vars
    BY <2>11 DEF vars
  <2> QED
    BY <2>1, <2>2, <2>3, <2>4, <2>5, <2>6, <2>7, <2>8, <2>9, <2>10, <2>11
       DEF Next, Producer, Worker, Exited
<1> QED
  BY <1>1, <1>2, QueueInvariant, PTL DEF Spec

\* vcd_work_sync returns only when everything sent has been carried out.
THEOREM SyncIsDrained == Spec => SyncDrains
<1>1. ASSUME IInv, [Next]_vars, ppc \in {"sync", "syncwait"}, ppc' = "idle"
      PROVE  wpc' \notin {"use", "pop"} /\ fill' = 0 /\ batch'.cnt = 0
  <2>1. SyncTest \/ SyncWait
    BY <1>1 DEF Next, vars, Producer, SetTime, Put, StartPut, Terminate, GrabItem,
       WriteItem, EndBatch, Sync, Join, Worker, Peek, PeekWait, Use, Pop, PopRest,
       SpuriousWakeup, Exited, queueVars, producerVars, workerVars
  <2>2. fill = 0 /\ UNCHANGED <<fill, wpc, batch>>
    BY <2>1, <1>1, RingFacts DEF SyncTest, SyncWait, queueVars, workerVars
  <2>3. batch.cnt = 0 /\ wpc \notin {"use", "pop"}
    BY <2>2, <1>1, RingFacts DEF IInv, ControlInv
  <2> QED
    BY <2>2, <2>3
<1> QED
  BY <1>1, QueueInvariant, PTL DEF Spec, SyncDrains

--------------------------------------------------------------------------------
(* The work queue implements the batched FIFO channel.                          *)

\* A function on 1..n with values in a set is a sequence of length n.
LEMMA FunctionIsSeq ==
    ASSUME NEW S, NEW n \in Nat, NEW f \in [1 .. n -> S]
    PROVE  f \in Seq(S) /\ Len(f) = n
<1>1. f \in Seq(S)
  BY SeqDef
<1>2. Len(f) \in Nat /\ DOMAIN f = 1 .. Len(f)
  BY <1>1, LenProperties
<1>3. 1 .. Len(f) = 1 .. n
  BY <1>2
<1> QED
  BY <1>1, <1>2, <1>3

\* What the two parts of the channel look like in the buffer.
LEMMA ChannelParts ==
    IInv => /\ BusyCount - Done \in Nat
            /\ Pending \in Seq(Item) /\ Len(Pending) = BusyCount - Done
            /\ Held \in Seq(Item) /\ Len(Held) = batch.cnt
<1> SUFFICES ASSUME IInv
             PROVE  /\ BusyCount - Done \in Nat
                    /\ Pending \in Seq(Item) /\ Len(Pending) = BusyCount - Done
                    /\ Held \in Seq(Item) /\ Len(Held) = batch.cnt
  OBVIOUS
<1> USE RingFacts
<1>1. BusyCount - Done \in Nat /\ Done \in {0, 1}
  BY DEF IInv, ControlInv, BusyCount, Done
<1>2. ASSUME NEW i \in 1 .. (BusyCount - Done)
      PROVE  queue[Wrap(next + Done + (i - 1))] \in Item
  <2>1. Done + (i - 1) \in 0 .. BusyCount - 1 /\ next + Done + (i - 1) = next + (Done + (i - 1))
    BY <1>1
  <2>2. Wrap(next + Done + (i - 1)) \in Busy
    BY <2>1 DEF Busy
  <2> QED
    BY <2>2 DEF IInv, ContentInv
<1>3. ASSUME NEW i \in 1 .. batch.cnt
      PROVE  queue[Wrap(batch.base + (i - 1))] \in Item
  <2>1. Wrap(batch.base + (i - 1)) \in BatchCells
    BY DEF BatchCells
  <2> QED
    BY <2>1 DEF IInv, ContentInv
<1>4. Pending \in [1 .. (BusyCount - Done) -> Item]
  BY <1>2 DEF Pending
<1>5. Held \in [1 .. batch.cnt -> Item]
  BY <1>3 DEF Held
<1> QED
  BY <1>1, <1>4, <1>5, FunctionIsSeq

\* Steps that only move the threads leave the channel alone.
LEMMA ChannelFrame ==
    ASSUME UNCHANGED <<queue, next, batch>>, BusyCount' = BusyCount, Done' = Done
    PROVE  Pending' = Pending /\ Held' = Held
BY DEF Pending, Held, Wrap

\* Every step of the queue is a step of the channel or leaves it unchanged.
LEMMA ChannelStep ==
    ASSUME IInv, [Next]_vars
    PROVE  [Channel!Next]_(Channel!vars)
<1> USE RingFacts DEF queueVars, producerVars, workerVars
<1>0. /\ IInv'
      /\ (BusyCount - Done \in Nat) /\ Pending \in Seq(Item) /\ Len(Pending) = BusyCount - Done
      /\ Held \in Seq(Item) /\ Len(Held) = batch.cnt
      /\ (BusyCount - Done \in Nat)' /\ (Pending \in Seq(Item))' /\ (Len(Pending) = BusyCount - Done)'
      /\ (Held \in Seq(Item))' /\ (Len(Held) = batch.cnt)'
  <2>1. IInv'
    BY ActionInv
  <2>2. (IInv => /\ BusyCount - Done \in Nat
                 /\ Pending \in Seq(Item) /\ Len(Pending) = BusyCount - Done
                 /\ Held \in Seq(Item) /\ Len(Held) = batch.cnt)'
    BY ChannelParts, PTL
  <2> QED
    BY <2>1, <2>2, ChannelParts
<1>1. CASE WriteItem
  <2> DEFINE cur == Wrap(batch.base + batch.cnt)
             item == [type |-> op, time |-> nextTime]
  <2>1. /\ ppc = "write" /\ next' = next /\ BusyCount' = BusyCount /\ Done' = Done
        /\ queue' = [queue EXCEPT ![cur] = item] /\ out' = out
        /\ batch' = [batch EXCEPT !.cnt = batch.cnt + 1]
    BY <1>1 DEF WriteItem, BusyCount, Done
  <2>2. batch'.cnt = batch.cnt + 1 /\ batch'.base = batch.base /\ batch.cnt < batch.alloc
    BY <2>1 DEF IInv, TypeOK, ControlInv
  <2>3. BusyCount + batch.alloc <= QSize /\ batch.base = Wrap(next + BusyCount)
    BY <2>2 DEF IInv, NoOverlap
  <2>4. item \in Item /\ cur \in Cells /\ batch.base \in Nat /\ batch.base < QSize
    <3>1. cur \in Cells
      BY <2>2, <2>3, QueueAssumption DEF Wrap, Cells
    <3>2. op \in Ops /\ nextTime \in 0 .. MaxTime
      BY <2>1 DEF IInv, TypeOK, ControlInv
    <3>3. batch.base \in Nat /\ batch.base < QSize
      BY QueueAssumption DEF IInv, TypeOK, Cells
    <3> QED
      BY <3>1, <3>2, <3>3 DEF Item
  <2>5. queue'[cur] = item /\ \A c : c # cur => queue'[c] = queue[c]
    BY <2>1, <2>4 DEF IInv, TypeOK
  <2>6. Pending' = Pending
    <3>1. ASSUME NEW i \in 1 .. (BusyCount - Done)
          PROVE  Wrap(next + Done + (i - 1)) # cur
      <4>1. Done \in {0, 1} /\ Done + (i - 1) \in 0 .. BusyCount - 1
        BY <1>0 DEF Done
      <4>2. Wrap(next + (Done + (i - 1))) # Wrap(Wrap(next + BusyCount) + batch.cnt)
        BY <4>1, <2>2, <2>3, QueueAssumption DEF Wrap
      <4> QED
        BY <4>1, <4>2, <2>3
    <3>2. Pending' = [i \in 1 .. (BusyCount - Done) |-> queue'[Wrap(next + Done + (i - 1))]]
      BY <2>1 DEF Pending, Wrap
    <3> QED
      BY <3>1, <3>2, <2>5 DEF Pending
  <2>7. Held' = Append(Held, item)
    <3>1. Append(Held, item) \in Seq(Item) /\ Len(Append(Held, item)) = batch.cnt + 1
          /\ Append(Held, item)[batch.cnt + 1] = item
          /\ \A i \in 1 .. batch.cnt : Append(Held, item)[i] = Held[i]
      <4>1. Held \in Seq(Item) /\ item \in Item /\ Len(Held) = batch.cnt
        BY <1>0, <2>4
      <4> QED
        BY <4>1, AppendProperties
    <3>2. Held' = [i \in 1 .. (batch.cnt + 1) |-> queue'[Wrap(batch.base + (i - 1))]]
      BY <2>2 DEF Held, Wrap
    <3>3. ASSUME NEW i \in 1 .. batch.cnt
          PROVE  Held'[i] = Held[i]
      <4>1. Wrap(batch.base + (i - 1)) # cur
        BY <2>2, <2>3, <2>4, QueueAssumption DEF Wrap
      <4>2. Held'[i] = queue'[Wrap(batch.base + (i - 1))]
        BY <3>2
      <4>3. Held[i] = queue[Wrap(batch.base + (i - 1))]
        BY DEF Held
      <4> QED
        BY <4>1, <4>2, <4>3, <2>5
    <3>4. Held'[batch.cnt + 1] = item
      BY <3>2, <2>5
    <3>5. \A i \in 1 .. (batch.cnt + 1) : Held'[i] = Append(Held, item)[i]
      BY <3>1, <3>3, <3>4
    <3>6. Held' \in Seq(Item) /\ Len(Held') = batch.cnt + 1
      BY <1>0, <2>2
    <3> QED
      BY <3>1, <3>5, <3>6, SeqEqual
  <2>8. Channel!Send
    BY <2>1, <2>4, <2>6, <2>7 DEF Channel!Send
  <2> QED
    BY <2>8 DEF Channel!Next
<1>2. CASE EndBatch
  <2>1. /\ BusyCount = fill /\ BusyCount' = fill + batch.cnt /\ Done' = Done
        /\ batch'.cnt = 0 /\ UNCHANGED <<queue, next, out>>
    BY <1>2 DEF EndBatch, CanLock, IInv, ControlInv, BusyCount, Done
  <2>2. Held' = <<>>
    BY <2>1, <1>0, EmptySeq
  <2>3. CASE batch.cnt = 0
    <3>1. Held = <<>>
      BY <2>3, <1>0, EmptySeq
    <3>2. Pending' = Pending
      BY <2>1, <2>3 DEF Pending, Wrap
    <3> QED
      BY <3>1, <3>2, <2>1, <2>2 DEF Channel!vars
  <2>4. CASE batch.cnt # 0
    <3>1. batch.base = Wrap(next + fill)
      BY <2>1, <2>4
    <3>2. /\ Done \in {0, 1} /\ fill - Done \in Nat
          /\ Len(Pending) = fill - Done /\ Len(Held) = batch.cnt
      BY <1>0, <2>1 DEF Done
    <3>3. /\ Pending \o Held \in Seq(Item)
          /\ Len(Pending \o Held) = Len(Pending) + Len(Held)
          /\ \A i \in 1 .. Len(Pending) + Len(Held) :
                (Pending \o Held)[i] = IF i <= Len(Pending) THEN Pending[i]
                                       ELSE Held[i - Len(Pending)]
      BY <1>0, ConcatProperties
    <3>4. /\ Pending \o Held \in Seq(Item)
          /\ Len(Pending \o Held) = (fill - Done) + batch.cnt
          /\ \A i \in 1 .. (fill - Done) + batch.cnt :
                (Pending \o Held)[i] = IF i <= fill - Done THEN Pending[i]
                                       ELSE Held[i - (fill - Done)]
      BY <3>2, <3>3
    <3>5. Pending' \in Seq(Item) /\ Len(Pending') = (fill - Done) + batch.cnt
      <4>1. Pending' \in Seq(Item) /\ Len(Pending') = BusyCount' - Done'
        BY <1>0
      <4>2. BusyCount' - Done' = (fill - Done) + batch.cnt
        BY <2>1, <3>2
      <4> QED
        BY <4>1, <4>2
    <3>6. ASSUME NEW i \in 1 .. (fill - Done) + batch.cnt
          PROVE  Pending'[i] = (Pending \o Held)[i]
      <4>1. Done \in {0, 1} /\ fill - Done \in Nat
        BY <3>2
      <4>2. Pending'[i] = queue[Wrap(next + Done + (i - 1))]
        <5>1. Pending' = [k \in 1 .. ((fill + batch.cnt) - Done) |->
                            queue[Wrap(next + Done + (k - 1))]]
          BY <2>1 DEF Pending, Wrap
        <5>2. i \in 1 .. ((fill + batch.cnt) - Done)
          BY <4>1
        <5> QED
          BY <5>1, <5>2
      <4>3. CASE i <= fill - Done
        BY <4>1, <4>2, <4>3, <3>4, <2>1 DEF Pending
      <4>4. CASE ~(i <= fill - Done)
        <5> DEFINE j == i - (fill - Done)
        <5>1. j \in 1 .. batch.cnt /\ i = (fill - Done) + j
          BY <4>1, <4>4
        <5>2. (Pending \o Held)[i] = Held[j]
          BY <3>4, <4>4
        <5> HIDE DEF j
        <5>3. Held[j] = queue[Wrap(Wrap(next + fill) + (j - 1))]
          BY <5>1, <3>1 DEF Held
        <5>4. Wrap(Wrap(next + fill) + (j - 1)) = Wrap(next + Done + (i - 1))
          BY <5>1, <4>1, <2>1, QueueAssumption DEF Wrap
        <5> QED
          BY <5>2, <5>3, <5>4, <4>2
      <4> QED
        BY <4>3, <4>4
    <3>7. Pending' = Pending \o Held
      BY <3>4, <3>5, <3>6, SeqEqual
    <3>8. Held # <<>>
      BY <2>4, <1>0, EmptySeq
    <3> QED
      BY <3>7, <3>8, <2>1, <2>2 DEF Channel!Next, Channel!Publish
  <2> QED
    BY <2>3, <2>4
<1>3. CASE Use
  <2>1. /\ Done = 0 /\ Done' = 1 /\ BusyCount' = BusyCount /\ out' = queue[next]
        /\ UNCHANGED <<queue, next, batch>>
    BY <1>3 DEF Use, BusyCount, Done
  <2>2. BusyCount > 0 /\ Pending # <<>>
    <3>1. BusyCount > 0
      BY <1>3 DEF Use, IInv, ControlInv, BusyCount
    <3> QED
      BY <3>1, <2>1, <1>0, EmptySeq
  <2>3. out' = Head(Pending)
    <3>1. Pending[1] = queue[Wrap(next + 0 + (1 - 1))]
      BY <2>1, <2>2 DEF Pending
    <3>2. Wrap(next + 0 + (1 - 1)) = next
      BY QueueAssumption DEF Wrap
    <3>3. Head(Pending) = Pending[1]
      BY <1>0, <2>2, HeadTailProperties
    <3> QED
      BY <3>1, <3>2, <3>3, <2>1
  <2>4. Pending' = Tail(Pending)
    <3>1. /\ Tail(Pending) \in Seq(Item) /\ Len(Tail(Pending)) = BusyCount - 1
          /\ \A i \in 1 .. (BusyCount - 1) : Tail(Pending)[i] = Pending[i + 1]
      BY <1>0, <2>1, <2>2, HeadTailProperties
    <3>2. Pending' \in Seq(Item) /\ Len(Pending') = BusyCount - 1
      BY <1>0, <2>1
    <3>3. ASSUME NEW i \in 1 .. (BusyCount - 1)
          PROVE  Pending'[i] = Tail(Pending)[i]
      <4>1. Pending' = [k \in 1 .. (BusyCount - 1) |-> queue[Wrap(next + 1 + (k - 1))]]
        BY <2>1 DEF Pending, Wrap
      <4>2. Pending'[i] = queue[Wrap(next + 1 + (i - 1))]
        BY <4>1
      <4>3. Pending[i + 1] = queue[Wrap(next + 0 + ((i + 1) - 1))]
        BY <2>1 DEF Pending
      <4>4. next + 1 + (i - 1) = next + 0 + ((i + 1) - 1)
        OBVIOUS
      <4> QED
        BY <4>2, <4>3, <4>4, <3>1
    <3> QED
      BY <3>1, <3>2, <3>3, SeqEqual
  <2>5. Held' = Held
    BY <2>1 DEF Held, Wrap
  <2> QED
    BY <2>2, <2>3, <2>4, <2>5 DEF Channel!Next, Channel!Deliver
<1>4. CASE PopRest
  <2>1. /\ BusyCount = fill + 1 /\ BusyCount' = fill /\ Done = 1 /\ Done' = 0
        /\ next' = Wrap(next + 1) /\ UNCHANGED <<queue, batch, out>>
    BY <1>4 DEF PopRest, BusyCount, Done, NextCell
  <2>2. ASSUME NEW i \in 1 .. fill
        PROVE  Wrap(next' + 0 + (i - 1)) = Wrap(next + 1 + (i - 1))
    BY <2>1, QueueAssumption DEF Wrap
  <2>3. Pending' = [i \in 1 .. fill |-> queue[Wrap(next' + 0 + (i - 1))]]
    <3>1. Pending' = [i \in 1 .. (fill - 0) |-> queue[Wrap(next' + 0 + (i - 1))]]
      BY <2>1 DEF Pending, Wrap
    <3> QED
      BY <3>1
  <2>4. Pending = [i \in 1 .. fill |-> queue[Wrap(next + 1 + (i - 1))]]
    <3>1. Pending = [i \in 1 .. ((fill + 1) - 1) |-> queue[Wrap(next + 1 + (i - 1))]]
      BY <2>1 DEF Pending
    <3>2. (fill + 1) - 1 = fill
      OBVIOUS
    <3> QED
      BY <3>1, <3>2
  <2>5. Held' = Held
    BY <2>1 DEF Held, Wrap
  <2> QED
    BY <2>1, <2>2, <2>3, <2>4, <2>5 DEF Channel!vars
<1>5. CASE GrabItem
  <2>1. /\ batch.cnt = 0 /\ batch'.cnt = 0 /\ BusyCount' = BusyCount /\ Done' = Done
        /\ UNCHANGED <<queue, next, out>>
    BY <1>5 DEF GrabItem, IInv, ControlInv, BusyCount, Done
  <2>2. Pending' = Pending
    BY <2>1 DEF Pending, Wrap
  <2>3. Held' = <<>> /\ Held = <<>>
    BY <2>1, <1>0, EmptySeq
  <2> QED
    BY <2>1, <2>2, <2>3 DEF Channel!vars
<1>6. CASE Pop
  <2>1. /\ BusyCount' = BusyCount /\ Done' = Done /\ UNCHANGED <<queue, next, batch, out>>
    BY <1>6 DEF Pop, BusyCount, Done
  <2> QED
    BY <2>1, ChannelFrame DEF Channel!vars
<1>7. CASE ~(WriteItem \/ EndBatch \/ Use \/ PopRest \/ GrabItem \/ Pop)
  <2>1. /\ BusyCount' = BusyCount /\ Done' = Done /\ UNCHANGED <<queue, next, batch, out>>
    BY <1>7 DEF Next, vars, Producer, SetTime, Put, StartPut, Terminate, Sync,
       SyncTest, SyncWait, Join, Worker, Peek, PeekWait, SpuriousWakeup, Exited,
       BusyCount, Done
  <2> QED
    BY <2>1, ChannelFrame DEF Channel!vars
<1> QED
  BY <1>1, <1>2, <1>3, <1>4, <1>5, <1>6, <1>7

\* The work queue implements the batched FIFO channel: commands are carried out
\* once, in the order they were sent, for every queue size and every schedule.
THEOREM QueueImplementsChannel == Spec => ImplementsChannel
<1>1. Init => Channel!Init
  <2> SUFFICES ASSUME Init PROVE Channel!Init
    OBVIOUS
  <2>1. IInv /\ BusyCount - Done = 0 /\ batch.cnt = 0 /\ out = NoItem
    <3>1. BusyCount = 0 /\ Done = 0
      BY DEF Init, BusyCount, Done
    <3> QED
      BY <3>1, InitInv DEF Init
  <2>2. Pending = <<>> /\ Held = <<>>
    BY <2>1, ChannelParts, EmptySeq
  <2> QED
    BY <2>1, <2>2 DEF Channel!Init
<1>2. IInv /\ [Next]_vars => [Channel!Next]_(Channel!vars)
  BY ChannelStep
<1> QED
  BY <1>1, <1>2, QueueInvariant, PTL DEF Spec, ImplementsChannel, Channel!Spec

====================================================================================
