------------------------------- MODULE WorkQueue -------------------------------
(* The work queue between the simulation thread (producer) and the LXT2 dumper  *)
(* thread (worker): iverilog/vpi/vcd_priv2.cc, and the worker's loop            *)
(* lxt2_thread of iverilog/vpi/sys_lxt2.c.                                      *)
(*                                                                              *)
(* A circular buffer of QSize cells.  The producer reserves up to BatchMax free *)
(* cells at a time, fills them without the lock and publishes the whole batch   *)
(* by raising the fill count; the worker looks at the first published cell      *)
(* without the lock, carries the command out and then pops the cell.            *)
(*                                                                              *)
(* A critical section that never lets go of the mutex in the middle is one      *)
(* step, except in vcd_work_thread_pop, whose first write (the fill count) is   *)
(* visible to the unlocked test of vcd_work_sync before the rest is done: it is *)
(* two steps, and the worker owns the mutex in between.                         *)
EXTENDS Naturals, Sequences, FiniteSets

CONSTANTS
    QSize,        \* WORK_QUEUE_SIZE
    BatchMin,     \* WORK_QUEUE_BATCH_MIN
    BatchMax,     \* WORK_QUEUE_BATCH_MAX
    BatchedOps,   \* command types that wait for their batch to fill up
    NoItem,       \* contents of a cell never written
    MaxCalls,     \* bound: commands the simulation issues (terminate apart)
    MaxTime       \* bound: simulation times 0..MaxTime

ASSUME QueueAssumption ==
    /\ QSize \in Nat /\ BatchMin \in Nat /\ BatchMax \in Nat
    /\ 0 < BatchMin /\ BatchMin <= BatchMax /\ BatchMin < QSize

ASSUME BoundAssumption == MaxCalls \in Nat /\ MaxTime \in Nat

ASSUME OpAssumption ==
    BatchedOps \subseteq {"WT_EMIT_BITS", "WT_EMIT_DOUBLE", "WT_DUMPON", "WT_DUMPOFF"}

FlushOps == {"WT_FLUSH", "WT_TERMINATE"}    \* calls that end their batch
Ops == BatchedOps \cup FlushOps
Item == [type : Ops, time : 0..MaxTime]

ASSUME NoItemAssumption == NoItem \notin Item

Cells == 0 .. QSize - 1

VARIABLES
    queue,        \* work_queue: the cells
    next,         \* work_queue_next: the first published cell
    fill,         \* work_queue_fill: how many cells are published
    heap,         \* cells whose val_char points to a live string
    mutex,        \* "worker" inside vcd_work_thread_pop, or "free"
    sleeping,     \* threads inside pthread_cond_wait
    ppc, op,      \* producer: where it is, and in which call
    batch,        \* current_batch_base, current_batch_cnt, current_batch_alloc
    nextTime,     \* work_queue_next_time
    calls,        \* commands issued so far
    joins,        \* pthread_join calls that returned
    wpc,          \* worker: where it is
    run,          \* the worker's run_flag
    out           \* the last command the worker carried out on the dump file

queueVars == <<queue, next, fill, heap, mutex>>
producerVars == <<ppc, op, batch, nextTime, calls, joins>>
workerVars == <<wpc, run, out>>
vars == <<queueVars, sleeping, producerVars, workerVars>>

Threads == {"producer", "worker"}
ProducerPc == {"idle", "grab", "write", "endbatch", "sync", "syncwait", "join",
               "exiting", "exited"}
WorkerPc == {"peek", "peekwait", "use", "pop", "pop2", "done"}

TypeOK ==
    /\ queue \in [Cells -> Item \cup {NoItem}]
    /\ next \in Cells
    /\ fill \in 0 .. QSize
    /\ heap \subseteq Cells
    /\ mutex \in {"free", "worker"}
    /\ sleeping \subseteq Threads
    /\ ppc \in ProducerPc
    /\ op \in Ops \cup {"SYNC"}
    /\ batch \in [base : Cells, cnt : 0 .. QSize, alloc : 0 .. QSize]
    /\ nextTime \in 0 .. MaxTime
    /\ calls \in 0 .. MaxCalls
    /\ joins \in 0 .. 2
    /\ wpc \in WorkerPc
    /\ run \in {0, 1}
    /\ out \in Item \cup {NoItem}

Init ==
    /\ queue = [c \in Cells |-> NoItem]
    /\ next = 0 /\ fill = 0
    /\ heap = {}
    /\ mutex = "free"
    /\ sleeping = {}
    /\ ppc = "idle" /\ op = "WT_FLUSH"
    /\ batch = [base |-> 0, cnt |-> 0, alloc |-> 0]
    /\ nextTime = 0
    /\ calls = 0
    /\ joins = 0
    /\ wpc = "peek"
    /\ run = 1
    /\ out = NoItem

CanLock(t) == mutex = "free" /\ t \notin sleeping

\* Index i of the circular buffer, i < 2 * QSize.
WrapOffByOne(i) == IF i > QSize THEN i - QSize ELSE i     \* mutant
Wrap(i) == IF i >= QSize THEN i - QSize ELSE i

\* grab_item: the cells of a new batch start behind the published ones and are
\* at most BatchMax of the free ones.
BatchBaseAtNext == next                                   \* mutant
BatchBase == Wrap(next + fill)
BatchAllocUncapped == BatchMax                            \* mutant
BatchAlloc == IF QSize - fill > BatchMax THEN BatchMax ELSE QSize - fill

\* end_batch: was the queue empty before this batch was added to it?
WasEmptyTestedLate == fill + batch.cnt = 0                \* mutant
WasEmpty == fill = 0 /\ batch.cnt > 0

\* unlock_item: must the batch be published now?
BatchComplete(cnt) == cnt = batch.alloc \/ op \in FlushOps

--------------------------------------------------------------------------------
(* The producer: the simulation thread calling the vcd_work_* functions.        *)

\* vcd_work_set_time: only remembered, the next command carries it.
SetTime ==
    /\ ppc = "idle"
    /\ nextTime' \in (nextTime + 1) .. MaxTime
    /\ UNCHANGED <<queueVars, sleeping, ppc, op, batch, calls, joins, workerVars>>

\* Any call that sends a command starts with grab_item, which takes the mutex
\* only when there is no batch to add to.
StartPut(o) ==
    /\ op' = o
    /\ ppc' = IF batch.alloc = 0 THEN "grab" ELSE "write"
    /\ UNCHANGED <<queueVars, sleeping, batch, nextTime, joins, workerVars>>

\* vcd_work_emit_*, vcd_work_dumpon/off, vcd_work_flush
Put(o) ==
    /\ ppc = "idle"
    /\ calls < MaxCalls
    /\ calls' = calls + 1
    /\ StartPut(o)

\* vcd_work_terminate, called by finish_cb at the end of the simulation and once
\* more by close_dumpfile at exit.
Terminate ==
    /\ ppc \in {"idle", "exiting"}
    /\ UNCHANGED calls
    /\ StartPut("WT_TERMINATE")

\* grab_item, locked part: wait for BatchMin free cells, reserve a batch.
GrabItem ==
    /\ ppc = "grab" /\ CanLock("producer")
    /\ IF QSize - fill < BatchMin
       THEN /\ sleeping' = sleeping \cup {"producer"}
            /\ UNCHANGED <<ppc, batch>>
       ELSE /\ ppc' = "write"
            /\ batch' = [base |-> BatchBase, cnt |-> 0, alloc |-> BatchAlloc]
            /\ UNCHANGED sleeping
    /\ UNCHANGED <<queueVars, op, nextTime, calls, joins, workerVars>>

\* The rest of grab_item, the caller's writes to the cell, and unlock_item.
WriteItem ==
    LET cur == Wrap(batch.base + batch.cnt)
        cnt == batch.cnt + 1
    IN  /\ ppc = "write"
        /\ queue' = [queue EXCEPT ![cur] = [type |-> op, time |-> nextTime]]
        /\ heap' = IF op = "WT_EMIT_BITS" THEN heap \cup {cur} ELSE heap
        /\ batch' = [batch EXCEPT !.cnt = cnt]
        /\ ppc' = IF BatchComplete(cnt) THEN "endbatch" ELSE "idle"
        /\ UNCHANGED <<next, fill, mutex, sleeping, op, nextTime, calls, joins,
                       workerVars>>

\* end_batch: publish the batch, wake the worker when the queue was empty.
EndBatch ==
    /\ ppc = "endbatch" /\ CanLock("producer")
    /\ fill' = fill + batch.cnt
    /\ batch' = [base |-> batch.base, cnt |-> 0, alloc |-> 0]
    /\ sleeping' = IF WasEmpty THEN sleeping \ {"worker"} ELSE sleeping
    /\ ppc' = CASE op = "WT_TERMINATE" -> "join"
                [] op = "SYNC"         -> "sync"
                [] OTHER               -> "idle"
    /\ UNCHANGED <<queue, next, heap, mutex, op, nextTime, calls, joins, workerVars>>

\* vcd_work_sync: end the batch if there is one, ...
SyncKeepsBatch ==                                         \* mutant
    /\ ppc = "idle"
    /\ calls < MaxCalls
    /\ calls' = calls + 1
    /\ op' = "SYNC"
    /\ ppc' = "sync"
    /\ UNCHANGED <<queueVars, sleeping, batch, nextTime, joins, workerVars>>

Sync ==
    /\ ppc = "idle"
    /\ calls < MaxCalls
    /\ calls' = calls + 1
    /\ op' = "SYNC"
    /\ ppc' = IF batch.alloc > 0 THEN "endbatch" ELSE "sync"
    /\ UNCHANGED <<queueVars, sleeping, batch, nextTime, joins, workerVars>>

\* ... return at once when the fill count, read without the lock, is zero, ...
SyncTest ==
    /\ ppc = "sync"
    /\ ppc' = IF fill > 0 THEN "syncwait" ELSE "idle"
    /\ UNCHANGED <<queueVars, sleeping, op, batch, nextTime, calls, joins, workerVars>>

\* ... and otherwise wait until the worker reports an empty queue.
SyncWait ==
    /\ ppc = "syncwait" /\ CanLock("producer")
    /\ IF fill > 0
       THEN sleeping' = sleeping \cup {"producer"} /\ UNCHANGED ppc
       ELSE ppc' = "idle" /\ UNCHANGED sleeping
    /\ UNCHANGED <<queueVars, op, batch, nextTime, calls, joins, workerVars>>

\* pthread_join at the end of vcd_work_terminate.  Joining the same thread again,
\* as the call at exit does, is undefined; here it returns.
Join ==
    /\ ppc = "join"
    /\ wpc = "done"
    /\ joins' = joins + 1
    /\ ppc' = IF joins = 0 THEN "exiting" ELSE "exited"
    /\ UNCHANGED <<queueVars, sleeping, op, batch, nextTime, calls, workerVars>>

\* The process is gone: the only state in which nothing more happens.
Exited ==
    /\ ppc = "exited"
    /\ UNCHANGED vars

Producer ==
    \/ SetTime
    \/ \E o \in BatchedOps \cup {"WT_FLUSH"} : Put(o)
    \/ Terminate
    \/ GrabItem \/ WriteItem \/ EndBatch
    \/ Sync \/ SyncTest \/ SyncWait
    \/ Join

--------------------------------------------------------------------------------
(* The worker: lxt2_thread with vcd_work_thread_peek and vcd_work_thread_pop.   *)

\* vcd_work_thread_peek: the fill count read without the lock.
Peek ==
    /\ wpc = "peek"
    /\ wpc' = IF fill = 0 THEN "peekwait" ELSE "use"
    /\ UNCHANGED <<queueVars, sleeping, producerVars, run, out>>

\* vcd_work_thread_peek: locked, wait for a command.
PeekWait ==
    /\ wpc = "peekwait" /\ CanLock("worker")
    /\ IF fill = 0
       THEN sleeping' = sleeping \cup {"worker"} /\ UNCHANGED wpc
       ELSE wpc' = "use" /\ UNCHANGED sleeping
    /\ UNCHANGED <<queueVars, producerVars, run, out>>

\* lxt2_thread: carry out the command in the first published cell.
Use ==
    /\ wpc = "use"
    /\ out' = queue[next]
    /\ run' = IF queue[next].type = "WT_TERMINATE" THEN 0 ELSE run
    /\ wpc' = "pop"
    /\ UNCHANGED <<queueVars, sleeping, producerVars>>

\* vcd_work_thread_pop: take the mutex, lower the fill count, ...
Pop ==
    /\ wpc = "pop" /\ CanLock("worker")
    /\ mutex' = "worker"
    /\ fill' = fill - 1
    /\ wpc' = "pop2"
    /\ UNCHANGED <<queue, next, heap, sleeping, producerVars, run, out>>

\* the strings left after the popped cell's is freed
HeapNeverFreed == heap                                    \* mutant
HeapAfterPop ==
    IF queue[next].type = "WT_EMIT_BITS" THEN heap \ {next} ELSE heap

NextCellStuck == next                                     \* mutant
NextCell == Wrap(next + 1)

\* The one signal a pop sends wakes the producer if that is what it waits for:
\* "minfree" in grab_item, "is_empty" in vcd_work_sync.
PopWakesGrabOnly == fill = QSize - BatchMin /\ ppc = "grab"    \* mutant
PopWakesProducer ==
    IF fill = QSize - BatchMin THEN ppc = "grab" ELSE fill = 0 /\ ppc = "syncwait"

\* ... free the string, step to the next cell, signal, release the mutex.
PopRest ==
    /\ wpc = "pop2"
    /\ heap' = HeapAfterPop
    /\ next' = NextCell
    /\ sleeping' = IF PopWakesProducer THEN sleeping \ {"producer"} ELSE sleeping
    /\ mutex' = "free"
    /\ wpc' = IF run = 1 THEN "peek" ELSE "done"
    /\ UNCHANGED <<queue, fill, producerVars, run, out>>

Worker == Peek \/ PeekWait \/ Use \/ Pop \/ PopRest

--------------------------------------------------------------------------------
\* pthread_cond_wait may return without a signal.
SpuriousWakeup ==
    /\ \E t \in sleeping : sleeping' = sleeping \ {t}
    /\ UNCHANGED <<queueVars, producerVars, workerVars>>

Next == Producer \/ Worker \/ SpuriousWakeup \/ Exited

Spec == Init /\ [][Next]_vars

\* Both threads keep running: a call that was made goes on whenever it can.
\* Which calls the simulation makes, and when, is up to the simulation.
Running == GrabItem \/ WriteItem \/ EndBatch \/ SyncTest \/ SyncWait \/ Join

FairSpec == Spec /\ WF_vars(Running) /\ WF_vars(Worker)

--------------------------------------------------------------------------------
(* What the queue guarantees.                                                   *)

\* Cells the worker still needs: the published ones, and the one being popped.
BusyCount == IF wpc = "pop2" THEN fill + 1 ELSE fill
Busy == {Wrap(next + i) : i \in 0 .. BusyCount - 1}
Reserved == {Wrap(batch.base + i) : i \in 0 .. batch.alloc - 1}

\* The cells a batch reserves are never cells the worker has yet to finish with,
\* however far the worker got since the batch was reserved, and they follow the
\* published cells directly (grab_item computes them once, under the lock).
NoOverlap ==
    batch.alloc > 0 =>
        /\ BusyCount + batch.alloc <= QSize
        /\ batch.base = Wrap(next + BusyCount)

\* The command the worker looks at is stable until it is popped
\* (vcd_priv.h: "The work thread can be assured that the work item it stable").
StableItem ==
    [][(wpc \in {"use", "pop"}) => (queue'[next] = queue[next])]_vars

\* Every string that was duplicated for an emit command is freed exactly once,
\* after the command: a live string belongs to a cell still to be carried out or
\* popped, and each such emit command has one.
BatchCells == {Wrap(batch.base + i) : i \in 0 .. batch.cnt - 1}
StringsOwned ==
    heap = {c \in Busy \cup BatchCells : queue[c].type = "WT_EMIT_BITS"}

\* vcd_work_sync returns only when the worker has carried out everything it was
\* sent (vcd_priv.h: "blocks until the work thread is done all the work it has
\* so far").
SyncDrains ==
    [][(ppc \in {"sync", "syncwait"} /\ ppc' = "idle") =>
         (wpc' \notin {"use", "pop"} /\ fill' = 0 /\ batch'.cnt = 0)]_vars

\* A thread sleeps only while what it waits for is still to come: no signal is
\* lost between the test of the condition and the wait.
NoLostWakeup ==
    /\ "worker" \in sleeping => wpc = "peekwait" /\ fill = 0
    /\ "producer" \in sleeping =>
         \/ ppc = "grab" /\ QSize - BusyCount < BatchMin
         \/ ppc = "syncwait" /\ BusyCount > 0

\* Every call returns: waiting for room, for the empty queue and for the worker's
\* end all come to an end.
CallsReturn == (ppc # "idle") ~> (ppc \in {"idle", "exiting", "exited"})

\* What the worker still has to carry out, oldest first: cells from `next' on,
\* without the one it already carried out.
Done == IF wpc \in {"pop", "pop2"} THEN 1 ELSE 0
Pending == [i \in 1 .. (BusyCount - Done) |-> queue[Wrap(next + Done + (i - 1))]]
Held == [i \in 1 .. batch.cnt |-> queue[Wrap(batch.base + (i - 1))]]

\* A published command is carried out, whatever the simulation does next.  (The
\* terminate command sent at exit, after the worker was joined, is not.)
PublishedCarriedOut == (joins = 0 /\ Pending # <<>>) ~> (wpc = "pop")

Channel == INSTANCE DumpChannel WITH held <- Held, chan <- Pending

\* The queue is a FIFO channel: commands are carried out once, in order.
ImplementsChannel == Channel!Spec

--------------------------------------------------------------------------------
(* Why it works: an inductive invariant (WorkQueueProofs).                      *)

\* Where the threads are, and what that says about batch, mutex and fill count.
ControlInv ==
    /\ mutex = "worker" <=> wpc = "pop2"
    /\ wpc \in {"use", "pop"} => fill > 0
    /\ batch.cnt <= batch.alloc
    /\ ppc \in {"idle", "write"} /\ batch.alloc > 0 => batch.cnt < batch.alloc
    /\ ppc \in {"write", "endbatch"} <=> ppc # "idle" /\ batch.alloc > 0
    /\ ppc \in {"grab", "write"} => op \in Ops
    /\ ppc = "join" => op = "WT_TERMINATE"
    /\ op = "SYNC" => ppc \in {"idle", "endbatch", "sync", "syncwait"}
    /\ ppc = "exited" <=> joins = 2
    /\ ppc = "exiting" => joins = 1
    /\ joins = 1 => op = "WT_TERMINATE" /\ ppc \notin {"idle", "sync", "syncwait"}

\* Every cell the worker will look at, now or when the batch is published, holds
\* a command.
ContentInv == \A c \in Busy \cup BatchCells : queue[c] \in Item

\* Together they are inductive: every call of the dumper and every step of the
\* worker keeps them, and NoOverlap needs all of them.
IInv == TypeOK /\ ControlInv /\ BusyCount <= QSize /\ NoOverlap /\ ContentInv
================================================================================
