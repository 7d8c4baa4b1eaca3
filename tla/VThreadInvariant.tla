---------------------------- MODULE VThreadInvariant ----------------------------
(* Proofs about VThread, first part: what its operators work on keeps its type, *)
(* whatever the program does with its threads; the inductive invariant; and     *)
(* what keeps it but for %fork and %disable, which VThreadProofs goes on with.  *)
EXTENDS VThread, Lists, FiniteSetTheorems, SequenceTheorems

(* What the operators take and return *)
State == [thread : [Thread -> ThreadRecord], active : Seq(Seq(Thread) \ {<<>>}),
          failed : SUBSET Asserting]

List == Seq(Thread) \ {<<>>}

--------------------------------------------------------------------------------

(* Nobody is no thread. *)
LEMMA Addresses == Thread \subseteq Nat /\ Nobody \notin Thread
BY ThreadAssumption DEF Thread, Nobody

(* The scopes *)
LEMMA Scopes ==
    /\ Module \in Scope /\ Blocks \subseteq Scope /\ Tasks \subseteq Scope
    /\ Functions \subseteq Scope
BY DEF Scope

(* A new thread, and a deleted one *)
LEMMA NewTyped ==
    ASSUME NEW s \in Scope, NEW p \in Thread \cup {Nobody}
    PROVE  /\ NewThread(s, p) \in ThreadRecord
           /\ NewThread(s, p).live /\ NewThread(s, p).scope = s /\ NewThread(s, p).inScope
           /\ NewThread(s, p).parent = p /\ NewThread(s, p).children = {}
           /\ NewThread(s, p).detached = {} /\ NewThread(s, p).taskFunc = {}
           /\ ~NewThread(s, p).joining /\ ~NewThread(s, p).isDetached
           /\ ~NewThread(s, p).waiting /\ ~NewThread(s, p).scheduled
           /\ ~NewThread(s, p).ended /\ ~NewThread(s, p).onEvent /\ NewThread(s, p).pc = <<>>
BY DEF NewThread, ThreadRecord

(* A deleted thread *)
LEMMA DeletedTyped ==
    /\ Deleted \in ThreadRecord
    /\ ~Deleted.live /\ Deleted.scope = Module /\ ~Deleted.inScope
    /\ Deleted.parent = Nobody /\ Deleted.children = {}
    /\ Deleted.detached = {} /\ Deleted.taskFunc = {}
    /\ ~Deleted.joining /\ ~Deleted.isDetached
    /\ ~Deleted.waiting /\ ~Deleted.scheduled
    /\ ~Deleted.ended /\ ~Deleted.onEvent /\ Deleted.pc = <<>>
<1> DEFINE new == NewThread(Module, Nobody)
<1>1. /\ new \in ThreadRecord /\ new.scope = Module /\ new.parent = Nobody /\ new.children = {}
      /\ new.detached = {} /\ new.taskFunc = {} /\ ~new.joining /\ ~new.isDetached
      /\ ~new.waiting /\ ~new.scheduled /\ ~new.ended /\ ~new.onEvent /\ new.pc = <<>>
  BY Scopes, NewTyped
<1>2. Deleted = [new EXCEPT !.live = FALSE, !.inScope = FALSE]
  BY DEF Deleted
<1> HIDE DEF new
<1> QED
  BY <1>1, <1>2 DEF ThreadRecord

(* The record the operators work on has the type they expect. *)
LEMMA NowTyped ==
    ASSUME TypeOK
    PROVE  /\ Now \in State
           /\ Now.thread = thread /\ Now.active = active /\ Now.failed = failed
BY DEF TypeOK, State, Now

(* An assertion of the code *)
LEMMA CheckIs ==
    ASSUME NEW r \in State, NEW function \in Asserting, NEW holds \in BOOLEAN,
           NEW s, s = Check(r, function, holds)
    PROVE  /\ s \in State /\ s.thread = r.thread /\ s.active = r.active
           /\ holds => s = r
BY DEF Check, State

(* schedule_vthread *)
IsScheduled(r, list, push, s) ==
    /\ s \in State
    /\ s.thread = [t \in Thread |-> [r.thread[t] EXCEPT !.scheduled = @ \/ Contains(list, t)]]
    /\ push => s.active = <<list>> \o r.active
    /\ ~push => s.active = Append(r.active, list)
    /\ (\A t \in ToSet(list) : ~r.thread[t].scheduled) => s.failed = r.failed

(* What schedule_vthread does is what IsScheduled says. *)
LEMMA ScheduleIs ==
    ASSUME NEW r \in State, NEW list \in List, NEW push \in BOOLEAN
    PROVE  IsScheduled(r, list, push, Schedule(r, list, push))
<1> DEFINE After(t) == [r.thread[t] EXCEPT !.scheduled = @ \/ Contains(list, t)]
           marked == [t \in Thread |-> After(t)]
           queue == IF push THEN <<list>> \o r.active ELSE Append(r.active, list)
           q == [r EXCEPT !.thread = marked, !.active = queue]
           free == \A t \in ToSet(list) : ~r.thread[t].scheduled
           s == Check(q, "vthread_mark_scheduled", free)
<1>1. marked \in [Thread -> ThreadRecord]
  <2>1. ASSUME NEW t \in Thread PROVE After(t) \in ThreadRecord
    <3>1. r.thread[t] \in ThreadRecord
      BY DEF State
    <3>2. Contains(list, t) \in BOOLEAN
      BY DEF Contains
    <3> QED
      BY <3>1, <3>2 DEF ThreadRecord
  <2> QED
    BY <2>1
<1>2. queue \in Seq(List)
  <2>1. r.active \in Seq(List)
    BY DEF State, List
  <2> HIDE DEF List
  <2> QED
    BY <2>1
<1> HIDE DEF marked, queue
<1>3. q \in State /\ q.thread = marked /\ q.active = queue /\ q.failed = r.failed
  BY <1>1, <1>2 DEF State, List
<1>4. Schedule(r, list, push) = s
  BY DEF Schedule, marked, queue
<1> HIDE DEF q, free
<1>6. /\ s \in State /\ s.thread = q.thread /\ s.active = q.active
      /\ free => s = q
  BY <1>3 DEF Check, State, Asserting
<1> HIDE DEF s
<1>7. IsScheduled(r, list, push, s)
  BY <1>3, <1>6 DEF IsScheduled, free, marked, queue
<1> QED
  BY <1>4, <1>7, Zenon

(* vthread_reap: what becomes of the threads, and what it asserts of them *)
ReapedDead(x, dead) ==
    IF Held(x) THEN [x EXCEPT !.parent = Nobody, !.inScope = FALSE, !.pc = Null, !.children = @ \ dead]
    ELSE Deleted

ReapedOther(T, t, dead) ==
    [T[t] EXCEPT
        !.parent = IF @ \notin dead THEN @
                   ELSE IF T[t].isDetached THEN Nobody ELSE T[@].parent,
        !.isDetached = @ /\ T[t].parent \notin dead,
        !.children = @ \ {d \in dead : T[d].parent = t /\ ~T[d].isDetached},
        !.detached = @ \ {d \in dead : T[d].parent = t /\ T[d].isDetached}]

Reapable(T, dead) ==
    \A t \in dead :
        /\ \A c \in T[t].children : T[c].parent = t
        /\ \A c \in T[t].detached : T[c].parent = t /\ T[c].isDetached
        /\ T[t].parent # Nobody =>
              t \in IF T[t].isDetached THEN T[T[t].parent].detached ELSE T[T[t].parent].children
        /\ Held(T[t]) \/ T[t].children \subseteq dead

IsReaped(r, dead, s) ==
    /\ s \in State /\ s.active = r.active
    /\ \A t \in Thread : s.thread[t] = IF t \in dead THEN ReapedDead(r.thread[t], dead)
                                       ELSE ReapedOther(r.thread, t, dead)
    /\ Reapable(r.thread, dead) => s.failed = r.failed

(* Other threads in the record *)
LEMMA WithThreads ==
    ASSUME NEW r \in State, NEW T \in [Thread -> ThreadRecord]
    PROVE  LET s == [r EXCEPT !.thread = T]
           IN  s \in State /\ s.thread = T /\ s.active = r.active /\ s.failed = r.failed
BY DEF State

(* What vthread_reap does is what IsReaped says. *)
LEMMA ReapIs ==
    ASSUME NEW r \in State, NEW dead \in SUBSET Thread, NEW s, s = Reap(r, dead)
    PROVE  IsReaped(r, dead, s)
<1> DEFINE After(t) == IF t \in dead THEN ReapedDead(r.thread[t], dead)
                       ELSE ReapedOther(r.thread, t, dead)
           after == [t \in Thread |-> After(t)]
           q == [r EXCEPT !.thread = after]
<1>1. ASSUME NEW t \in Thread PROVE After(t) \in ThreadRecord
  <2>1. r.thread[t] \in ThreadRecord
    BY DEF State
  <2>2. CASE t \in dead /\ Held(r.thread[t])
    <3>1. Null \in Seq(Opcodes)
      BY DEF Null, Opcodes
    <3> QED
      BY <2>1, <2>2, <3>1 DEF ReapedDead, ThreadRecord
  <2>3. CASE t \in dead /\ ~Held(r.thread[t])
    BY <2>3, DeletedTyped DEF ReapedDead
  <2>4. CASE t \notin dead
    <3> DEFINE old == r.thread[t]
               p == IF old.parent \notin dead THEN old.parent
                    ELSE IF old.isDetached THEN Nobody ELSE r.thread[old.parent].parent
               kids == old.children \ {d \in dead : r.thread[d].parent = t /\ ~r.thread[d].isDetached}
               apart == old.detached \ {d \in dead : r.thread[d].parent = t /\ r.thread[d].isDetached}
    <3>1. p \in Thread \cup {Nobody}
      <4>1. old.parent \in Thread \cup {Nobody}
        BY <2>1 DEF ThreadRecord
      <4>2. ASSUME NEW u \in dead PROVE r.thread[u].parent \in Thread \cup {Nobody}
        <5>1. r.thread[u] \in ThreadRecord
          BY DEF State
        <5> QED
          BY <5>1 DEF ThreadRecord
      <4> QED
        BY <4>1, <4>2
    <3>2. kids \in SUBSET Thread /\ apart \in SUBSET Thread
      BY <2>1 DEF ThreadRecord
    <3>3. ReapedOther(r.thread, t, dead) =
              [old EXCEPT !.parent = p, !.isDetached = old.isDetached /\ old.parent \notin dead,
                          !.children = kids, !.detached = apart]
      BY Zenon DEF ReapedOther
    <3>4. After(t) = ReapedOther(r.thread, t, dead)
      BY <2>4
    <3> DEFINE d == old.isDetached /\ old.parent \notin dead
    <3>5. d \in BOOLEAN
      BY <2>1 DEF ThreadRecord
    <3> HIDE DEF p, kids, apart, After, d
    <3>6. [old EXCEPT !.parent = p, !.isDetached = d, !.children = kids, !.detached = apart]
              \in ThreadRecord
      <4>1. old \in ThreadRecord
        BY <2>1
      <4> HIDE DEF old
      <4> QED
        BY <4>1, <3>1, <3>2, <3>5 DEF ThreadRecord
    <3>7. ReapedOther(r.thread, t, dead) \in ThreadRecord
      BY <3>3, <3>6, Zenon DEF d
    <3> QED
      BY <3>4, <3>7, Zenon
  <2> QED
    BY <2>2, <2>3, <2>4
<1>2. s = Check(q, "vthread_reap", Reapable(r.thread, dead))
  BY Zenon DEF Reap, ReapedDead, ReapedOther, Reapable
<1>3. q \in State /\ q.thread = after /\ q.active = r.active /\ q.failed = r.failed
  <2>1. after \in [Thread -> ThreadRecord]
    BY <1>1, Zenon
  <2> HIDE DEF after
  <2> QED
    BY <2>1, WithThreads, Zenon
<1> HIDE DEF q, After
<1>4. /\ s \in State /\ s.thread = q.thread /\ s.active = q.active
      /\ Reapable(r.thread, dead) => s = q
  <2> DEFINE holds == Reapable(r.thread, dead)
             function == "vthread_reap"
  <2>1. holds \in BOOLEAN
    BY DEF Reapable
  <2>2. function \in Asserting /\ s = Check(q, function, holds)
    BY <1>2 DEF Asserting
  <2> HIDE DEF holds, function
  <2>3. s \in State /\ s.thread = q.thread /\ s.active = q.active /\ (holds => s = q)
    BY <1>3, <2>1, <2>2, CheckIs
  <2> QED
    BY <2>3 DEF holds
<1>5. s.thread = after
  BY <1>3, <1>4
<1>6. \A t \in Thread : s.thread[t] = After(t)
  BY <1>5
<1>7. s \in State /\ s.active = r.active /\ (Reapable(r.thread, dead) => s.failed = r.failed)
  BY <1>3, <1>4
<1> QED
  BY <1>6, <1>7, Zenon DEF After, IsReaped

(* Descendants are threads. *)
LEMMA OffspringTyped ==
    ASSUME NEW T, NEW t \in Thread
    PROVE  Offspring(T, t) \in SUBSET Thread
BY DEF Offspring

(* do_join *)
IsUnlisted(r, parent, child, q) ==
    /\ q \in State /\ q.active = r.active
    /\ q.thread = [r.thread EXCEPT ![parent].taskFunc = @ \ {child}]
    /\ r.thread[child].parent = parent => q.failed = r.failed

(* do_join takes the child off the task children, then reaps it. *)
LEMMA DoJoinIs ==
    ASSUME NEW r \in State, NEW parent \in Thread, NEW child \in Thread
    PROVE  \E q : IsUnlisted(r, parent, child, q) /\ DoJoin(r, parent, child) = Reap(q, {child})
<1> DEFINE left == [r.thread EXCEPT ![parent].taskFunc = @ \ {child}]
           p == [r EXCEPT !.thread = left]
           q == Check(p, "do_join", p.thread[child].parent = parent)
<1>1. left \in [Thread -> ThreadRecord] /\ left[child].parent = r.thread[child].parent
  <2> DEFINE x == r.thread[parent]
             y == [x EXCEPT !.taskFunc = @ \ {child}]
  <2>1. r.thread \in [Thread -> ThreadRecord] /\ x \in ThreadRecord
    BY DEF State
  <2>2. y \in ThreadRecord /\ y.parent = x.parent
    BY <2>1 DEF ThreadRecord
  <2>3. left = [r.thread EXCEPT ![parent] = y]
    BY <2>1
  <2> HIDE DEF left, y
  <2> QED
    BY <2>1, <2>2, <2>3
<1>2. p = [r EXCEPT !.thread[parent].taskFunc = @ \ {child}]
  BY DEF State
<1> HIDE DEF left
<1>3. p \in State /\ p.thread = left /\ p.active = r.active /\ p.failed = r.failed
  BY <1>1 DEF State
<1> DEFINE s == DoJoin(r, parent, child)
<1>4. s = Reap(Check(p, "do_join", r.thread[child].parent = parent), {child})
  BY <1>2, Zenon DEF DoJoin
<1> HIDE DEF p
<1>5. q = Check(p, "do_join", r.thread[child].parent = parent)
  BY <1>1, <1>3
<1>6. /\ q \in State /\ q.thread = p.thread /\ q.active = p.active
      /\ r.thread[child].parent = parent => q = p
  BY <1>3, <1>5 DEF Check, State, Asserting
<1> HIDE DEF q
<1>7. s = Reap(q, {child})
  BY <1>4, <1>5
<1>8. q.thread = left /\ q.active = r.active /\ (r.thread[child].parent = parent => q.failed = r.failed)
  BY <1>3, <1>6
<1>9. IsUnlisted(r, parent, child, q)
  BY <1>6, <1>8, Zenon DEF IsUnlisted, left
<1> QED
  BY <1>7, <1>9, Zenon

(* A child that is over takes the %join of its parent off. *)
IsWoken(r, parent, s) ==
    /\ s \in State
    /\ s.thread = [r.thread EXCEPT ![parent].joining = FALSE, ![parent].scheduled = TRUE]
    /\ s.active = <<<<parent>>>> \o r.active
    /\ ~r.thread[parent].scheduled => s.failed = r.failed

(* What wakes up a parent in a %join is what IsWoken says. *)
LEMMA WakeJoinerIs ==
    ASSUME NEW r \in State, NEW parent \in Thread, NEW s, s = WakeJoiner(r, parent)
    PROVE  IsWoken(r, parent, s)
<1> DEFINE woken == [r.thread EXCEPT ![parent].joining = FALSE]
           q == [r EXCEPT !.thread = woken]
           list == <<parent>>
<1> DEFINE x == r.thread[parent]
           y == [x EXCEPT !.joining = FALSE]
           z == [x EXCEPT !.joining = FALSE, !.scheduled = TRUE]
<1>0. /\ r.thread \in [Thread -> ThreadRecord] /\ \A t \in Thread : r.thread[t] \in ThreadRecord
      /\ x \in ThreadRecord
  BY DEF State
<1>y. /\ y \in ThreadRecord /\ z \in ThreadRecord
      /\ (y.scheduled <=> x.scheduled) /\ z = [y EXCEPT !.scheduled = TRUE]
      /\ woken = [r.thread EXCEPT ![parent] = y]
      /\ [r.thread EXCEPT ![parent].joining = FALSE, ![parent].scheduled = TRUE]
            = [r.thread EXCEPT ![parent] = z]
  BY <1>0 DEF ThreadRecord
<1>1. /\ woken \in [Thread -> ThreadRecord]
      /\ woken[parent].scheduled <=> x.scheduled
      /\ \A t \in Thread : woken[t] = IF t = parent THEN y ELSE r.thread[t]
  <2> HIDE DEF woken, y
  <2> QED
    BY <1>0, <1>y
<1>2. q = [r EXCEPT !.thread[parent].joining = FALSE]
  BY DEF State
<1> HIDE DEF woken
<1>3. q \in State /\ q.thread = woken /\ q.active = r.active /\ q.failed = r.failed
  BY <1>1 DEF State
<1>4. list \in List /\ ToSet(list) = {parent} /\ \A t \in Thread : Contains(list, t) <=> t = parent
  <2>1. list \in Seq(Thread) /\ list # <<>> /\ DOMAIN list = {1} /\ list[1] = parent
        /\ Len(list) = 1
    OBVIOUS
  <2> HIDE DEF list
  <2>2. list \in List
    BY <2>1 DEF List
  <2>3. ToSet(list) = {parent}
    BY <2>1 DEF ToSet
  <2>4. \A t \in Thread : Contains(list, t) <=> t = parent
    BY <2>1 DEF Contains
  <2> QED
    BY <2>2, <2>3, <2>4
<1>5. s = Schedule(q, list, TRUE)
  BY <1>2, Zenon DEF WakeJoiner
<1> HIDE DEF q, list
<1>6. /\ s \in State
      /\ s.thread = [t \in Thread |-> [q.thread[t] EXCEPT !.scheduled = @ \/ Contains(list, t)]]
      /\ s.active = <<list>> \o q.active
      /\ (\A t \in ToSet(list) : ~q.thread[t].scheduled) => s.failed = q.failed
  <2>1. q \in State /\ list \in List /\ TRUE \in BOOLEAN
    BY <1>3, <1>4
  <2>2. IsScheduled(q, list, TRUE, s)
    BY <1>5, <2>1, ScheduleIs, Zenon
  <2> QED
    BY <2>2 DEF IsScheduled
<1>7. s.thread = [r.thread EXCEPT ![parent].joining = FALSE, ![parent].scheduled = TRUE]
  <2> DEFINE new == [r.thread EXCEPT ![parent] = z]
  <2> HIDE DEF y, z
  <2>1. new \in [Thread -> ThreadRecord] /\ s.thread \in [Thread -> ThreadRecord]
    BY <1>0, <1>6, <1>y DEF State
  <2>2. ASSUME NEW t \in Thread PROVE s.thread[t] = new[t]
    <3>1. s.thread[t] = [woken[t] EXCEPT !.scheduled = @ \/ t = parent]
      BY <1>3, <1>4, <1>6
    <3>2. woken[t] \in ThreadRecord /\ (t # parent => woken[t] = r.thread[t])
          /\ (t = parent => woken[t] = y)
      BY <1>1
    <3>3. (t # parent => new[t] = r.thread[t]) /\ (t = parent => new[t] = z)
      BY <1>0
    <3>4. ASSUME NEW w \in ThreadRecord PROVE [w EXCEPT !.scheduled = @ \/ FALSE] = w
      BY DEF ThreadRecord
    <3> QED
      BY <1>0, <1>y, <3>1, <3>2, <3>3, <3>4
  <2> HIDE DEF new
  <2>3. s.thread = new
    BY <2>1, <2>2
  <2> QED
    BY <1>y, <2>3, Zenon DEF new
<1> HIDE DEF y, z
<1> QED
  BY <1>1, <1>3, <1>4, <1>6, <1>7 DEF list, IsWoken

(* do_disable: what the thread and its descendants become, and what is left of  *)
(* the threads when the descendants are reaped                                  *)
StoppedThread(x) ==
    [x EXCEPT !.inScope = FALSE, !.pc = Null, !.ended = TRUE, !.joining = @ /\ x.children = {}]

Stopped(T, t) ==
    [u \in Thread |-> IF u \notin Offspring(T, t) \cup {t} THEN T[u] ELSE StoppedThread(T[u])]

Broken(r, t) == Reap([r EXCEPT !.thread = Stopped(r.thread, t)], Offspring(r.thread, t))

(* A thread that is stopped is a thread. *)
LEMMA StoppedTyped ==
    ASSUME NEW x \in ThreadRecord
    PROVE  StoppedThread(x) \in ThreadRecord
<1>1. Null \in Seq(Opcodes)
  BY DEF Null, Opcodes
<1> QED
  BY <1>1 DEF StoppedThread, ThreadRecord

(* What do_disable begins with: all are stopped, the descendants reaped. *)
LEMMA BrokenIs ==
    ASSUME NEW r \in State, NEW t \in Thread
    PROVE  \E q \in State :
               /\ q.active = r.active /\ q.failed = r.failed
               /\ q.thread = Stopped(r.thread, t)
               /\ IsReaped(q, Offspring(r.thread, t), Broken(r, t))
<1> DEFINE after == Stopped(r.thread, t)
           q == [r EXCEPT !.thread = after]
<1>1. after \in [Thread -> ThreadRecord]
  <2>1. \A u \in Thread : r.thread[u] \in ThreadRecord
    BY DEF State
  <2> QED
    BY <2>1, StoppedTyped DEF Stopped
<1> HIDE DEF after
<1>2. q \in State /\ q.thread = after /\ q.active = r.active /\ q.failed = r.failed
  BY <1>1 DEF State
<1>3. Broken(r, t) = Reap(q, Offspring(r.thread, t))
  BY DEF Broken, after
<1> HIDE DEF q
<1>4. IsReaped(q, Offspring(r.thread, t), Broken(r, t))
  BY <1>2, <1>3, ReapIs, OffspringTyped, Zenon
<1> QED
  BY <1>2, <1>4, Zenon DEF after

(* do_disable keeps the type. *)
LEMMA DoDisableTyped ==
    ASSUME NEW r \in State, NEW t \in Thread
    PROVE  DoDisable(r, t) \in State
<1> DEFINE b == Broken(r, t)
           parent == b.thread[t].parent
           left == [b EXCEPT !.thread[parent].joining = FALSE]
           woken == WakeJoiner(b, parent)
           c == IF b.thread[parent].ended THEN left ELSE woken
<1>1. b \in State
  BY BrokenIs, Zenon DEF IsReaped
<1>2. DoDisable(r, t) = IF parent = Nobody THEN Reap(b, {t})
                        ELSE IF ~b.thread[parent].joining THEN b
                        ELSE Reap(c, {t})
  BY DEF DoDisable, Broken, Stopped, StoppedThread
<1>3. ASSUME NEW q \in State PROVE Reap(q, {t}) \in State
  BY <1>3, ReapIs, Zenon DEF IsReaped
<1>4. ASSUME parent # Nobody PROVE c \in State
  <2>1. parent \in Thread
    <3>1. b.thread[t] \in ThreadRecord
      BY <1>1 DEF State
    <3> QED
      BY <1>4, <3>1 DEF ThreadRecord
  <2> HIDE DEF b, parent
  <2>2. left \in State
    <3> DEFINE x == b.thread[parent]
               y == [x EXCEPT !.joining = FALSE]
    <3>1. b.thread \in [Thread -> ThreadRecord] /\ x \in ThreadRecord
      BY <1>1, <2>1 DEF State
    <3>2. y \in ThreadRecord
      BY <3>1 DEF ThreadRecord
    <3>3. left = [b EXCEPT !.thread = [b.thread EXCEPT ![parent] = y]]
      BY <1>1, <2>1, <3>1 DEF State
    <3> HIDE DEF y
    <3> QED
      BY <1>1, <3>1, <3>2, <3>3 DEF State
  <2>3. woken \in State
    BY <1>1, <2>1, WakeJoinerIs, Zenon DEF IsWoken
  <2> QED
    BY <2>2, <2>3
<1> HIDE DEF b, parent, c
<1> QED
  BY <1>1, <1>2, <1>3, <1>4, Zenon

(* The least address of a set *)
LEMMA MinIn ==
    ASSUME NEW S \in SUBSET Thread, S # {}
    PROVE  Min(S) \in S
<1>1. PICK n \in S : \A m \in S : n =< m
  BY Addresses, LeastNat
<1> QED
  BY <1>1 DEF Min

(* the loop of of_DISABLE *)
Inside(q, scope) == {t \in Thread : q.thread[t].inScope /\ q.thread[t].scope = scope}

ScopeStep(q, scope) ==
    IF Inside(q, scope) = {} THEN q ELSE DoDisable(q, Min(Inside(q, scope)))

(* A turn of the loop of of_DISABLE keeps the type. *)
LEMMA ScopeStepTyped ==
    ASSUME NEW q \in State, NEW scope
    PROVE  ScopeStep(q, scope) \in State
<1>1. Inside(q, scope) # {} => Min(Inside(q, scope)) \in Thread
  <2>1. Inside(q, scope) \in SUBSET Thread
    BY DEF Inside
  <2> QED
    BY <2>1, MinIn
<1> QED
  BY <1>1, DoDisableTyped, Zenon DEF ScopeStep

ScopeLoop(f, r, scope) ==
    /\ f[0] = r /\ DisableScope(r, scope) = f[NThreads]
    /\ \A i \in 1..NThreads : f[i] = ScopeStep(f[i - 1], scope)

(* of_DISABLE is its loop. *)
LEMMA DisableScopeIs ==
    ASSUME NEW r \in State, NEW scope
    PROVE  \E f : ScopeLoop(f, r, scope)
<1> DEFINE G == [p \in (1..NThreads) \X State |-> ScopeStep(p[2], scope)]
           IsLoop(f) == f = [i \in 0..NThreads |-> IF i = 0 THEN r ELSE ScopeStep(f[i - 1], scope)]
<1>1. NThreads \in Nat
  BY ThreadAssumption
<1>2. \E f : IsLoop(f)
  <2>1. \A i \in 1..NThreads : \A d \in State :
            G[<<i, d>>] = ScopeStep(d, scope) /\ G[<<i, d>>] \in State
    BY ScopeStepTyped
  <2> HIDE DEF G
  <2>2. PICK f : IteratedSteps(f, NThreads, State, r, G)
    <3>1. \A i \in 1..NThreads : \A d \in State : G[<<i, d>>] \in State
      BY <2>1
    <3> QED
      BY <1>1, <3>1, Iterated, Zenon
  <2>3. f = [i \in 0..NThreads |-> IF i = 0 THEN r ELSE ScopeStep(f[i - 1], scope)]
    <3>1. ASSUME NEW i \in 0..NThreads, i # 0 PROVE f[i] = ScopeStep(f[i - 1], scope)
      <4>1. i \in 1..NThreads /\ i - 1 \in 0..NThreads
        BY <1>1, <3>1
      <4> QED
        BY <2>1, <2>2, <4>1 DEF IteratedSteps
    <3> QED
      BY <2>2, <3>1 DEF IteratedSteps
  <2> QED
    BY <2>3
<1> DEFINE loop == CHOOSE f : IsLoop(f)
<1>3. IsLoop(loop)
  BY <1>2
<1>4. DisableScope(r, scope) = loop[NThreads]
  BY DEF DisableScope, ScopeStep, Inside
<1> HIDE DEF loop
<1>5. loop[0] = r /\ \A i \in 1..NThreads : loop[i] = ScopeStep(loop[i - 1], scope)
  <2>1. 0 \in 0..NThreads /\ \A i \in 1..NThreads : i \in 0..NThreads /\ i # 0
    BY <1>1
  <2> QED
    BY <1>3, <2>1
<1> QED
  BY <1>4, <1>5 DEF ScopeLoop

(* of_DISABLE keeps the type. *)
LEMMA DisableScopeTyped ==
    ASSUME NEW r \in State, NEW scope
    PROVE  DisableScope(r, scope) \in State
<1>1. PICK f : ScopeLoop(f, r, scope)
  BY DisableScopeIs
<1>2. NThreads \in Nat /\ NThreads \in 0..NThreads
  BY ThreadAssumption
<1>3. \A i \in 1..NThreads : f[i - 1] \in State => f[i] \in State
  BY <1>1, ScopeStepTyped DEF ScopeLoop
<1>4. f[0] \in State
  BY <1>1 DEF ScopeLoop
<1>5. \A i \in 0..NThreads : f[i] \in State
  BY <1>2, <1>3, <1>4, IteratedIn
<1> QED
  BY <1>1, <1>2, <1>5 DEF ScopeLoop

(* the loop of of_DISABLE_FORK *)
ForkStep(q, t) ==
    IF q.thread[t].detached = {} THEN q
    ELSE Reap(DoDisable(q, Min(q.thread[t].detached)), {Min(q.thread[t].detached)})

(* A turn of the loop of of_DISABLE_FORK keeps the type. *)
LEMMA ForkStepTyped ==
    ASSUME NEW q \in State, NEW t \in Thread
    PROVE  ForkStep(q, t) \in State
<1> DEFINE rest == q.thread[t].detached
<1>1. rest # {} => Min(rest) \in Thread
  <2>1. q.thread[t] \in ThreadRecord
    BY DEF State
  <2>2. rest \in SUBSET Thread
    BY <2>1 DEF ThreadRecord
  <2> QED
    BY <2>2, MinIn
<1> HIDE DEF rest
<1>2. ASSUME NEW d \in Thread PROVE Reap(DoDisable(q, d), {d}) \in State
  <2>1. DoDisable(q, d) \in State /\ {d} \in SUBSET Thread
    BY DoDisableTyped
  <2> QED
    BY <2>1, ReapIs, Zenon DEF IsReaped
<1>3. ForkStep(q, t) = IF rest = {} THEN q ELSE Reap(DoDisable(q, Min(rest)), {Min(rest)})
  BY DEF ForkStep, rest
<1> QED
  BY <1>1, <1>2, <1>3, Zenon

ForkStart ==
    Check(Now, "of_DISABLE_FORK", ~thread[self].joining /\ thread[self].children = {})

ForkLoop(f, r) ==
    f[0] = r /\ \A i \in 1..NThreads : f[i] = ForkStep(f[i - 1], self)

(* of_DISABLE_FORK starts with an assertion. *)
LEMMA ForkStartTyped ==
    ASSUME TypeOK
    PROVE  ForkStart \in State
BY NowTyped DEF ForkStart, Check, State, Asserting

(* of_DISABLE_FORK is its loop. *)
LEMMA DisableForkIs ==
    ASSUME TypeOK, self \in Thread, DisableFork
    PROVE  /\ Statement("disable_fork")
           /\ \E f : ForkLoop(f, ForkStart) /\ Continue(f[NThreads])
           /\ UNCHANGED <<later, waiters>>
<1> DEFINE r == ForkStart
           G == [p \in (1..NThreads) \X State |-> ForkStep(p[2], self)]
           IsLoop(f) == f = [i \in 0..NThreads |-> IF i = 0 THEN r ELSE ForkStep(f[i - 1], self)]
<1>1. NThreads \in Nat
  BY ThreadAssumption
<1>2. r \in State
  BY ForkStartTyped
<1> HIDE DEF r
<1>3. \E f : IsLoop(f)
  <2>1. \A i \in 1..NThreads : \A d \in State :
            G[<<i, d>>] = ForkStep(d, self) /\ G[<<i, d>>] \in State
    BY ForkStepTyped
  <2> HIDE DEF G
  <2>2. PICK f : IteratedSteps(f, NThreads, State, r, G)
    <3>1. \A i \in 1..NThreads : \A d \in State : G[<<i, d>>] \in State
      BY <2>1
    <3> QED
      BY <1>1, <1>2, <3>1, Iterated, Zenon
  <2>3. f = [i \in 0..NThreads |-> IF i = 0 THEN r ELSE ForkStep(f[i - 1], self)]
    <3>1. ASSUME NEW i \in 0..NThreads, i # 0 PROVE f[i] = ForkStep(f[i - 1], self)
      <4>1. i \in 1..NThreads /\ i - 1 \in 0..NThreads
        BY <1>1, <3>1
      <4> QED
        BY <2>1, <2>2, <4>1 DEF IteratedSteps
    <3> QED
      BY <2>2, <3>1 DEF IteratedSteps
  <2> QED
    BY <2>3
<1> DEFINE loop == CHOOSE f : IsLoop(f)
<1>4. IsLoop(loop)
  BY <1>3
<1>5. Statement("disable_fork") /\ Continue(loop[NThreads]) /\ UNCHANGED <<later, waiters>>
  BY DEF DisableFork, ForkStep, ForkStart, r
<1> HIDE DEF loop
<1>6. loop[0] = r /\ \A i \in 1..NThreads : loop[i] = ForkStep(loop[i - 1], self)
  <2>1. 0 \in 0..NThreads /\ \A i \in 1..NThreads : i \in 0..NThreads /\ i # 0
    BY <1>1
  <2> QED
    BY <1>4, <2>1
<1> QED
  BY <1>5, <1>6, Zenon DEF ForkLoop, r

(* of_DISABLE_FORK keeps the type. *)
LEMMA ForkLoopTyped ==
    ASSUME TypeOK, self \in Thread, NEW f, ForkLoop(f, ForkStart)
    PROVE  f[NThreads] \in State
<1>1. NThreads \in Nat /\ NThreads \in 0..NThreads
  BY ThreadAssumption
<1>2. \A i \in 1..NThreads : f[i - 1] \in State => f[i] \in State
  BY ForkStepTyped DEF ForkLoop
<1>3. f[0] \in State
  BY ForkStartTyped DEF ForkLoop
<1>4. \A i \in 0..NThreads : f[i] \in State
  BY <1>1, <1>2, <1>3, IteratedIn
<1> QED
  BY <1>1, <1>4

(* A thread gets a new value. *)
IsSet(r, t, x, s) ==
    /\ s \in State /\ s.thread = [r.thread EXCEPT ![t] = x]
    /\ s.active = r.active /\ s.failed = r.failed

(* Nothing else changes. *)
LEMMA SetIs ==
    ASSUME NEW r \in State, NEW t \in Thread, NEW x \in ThreadRecord
    PROVE  IsSet(r, t, x, [r EXCEPT !.thread = [r.thread EXCEPT ![t] = x]])
<1> DEFINE after == [r.thread EXCEPT ![t] = x]
<1>1. after \in [Thread -> ThreadRecord]
  BY DEF State
<1> HIDE DEF after
<1>2. /\ [r EXCEPT !.thread = after] \in State
      /\ [r EXCEPT !.thread = after].thread = after
      /\ [r EXCEPT !.thread = after].active = r.active
      /\ [r EXCEPT !.thread = after].failed = r.failed
  BY <1>1 DEF State
<1> QED
  BY <1>2 DEF IsSet, after

(* Every thread of the record is one. *)
LEMMA ThreadsOf ==
    ASSUME NEW r \in State
    PROVE  r.thread \in [Thread -> ThreadRecord] /\ \A t \in Thread : r.thread[t] \in ThreadRecord
BY DEF State

(* Whether a thread is scheduled *)
LEMMA FlagTyped ==
    ASSUME NEW x \in ThreadRecord, NEW b \in BOOLEAN
    PROVE  /\ [x EXCEPT !.scheduled = b] \in ThreadRecord
           /\ [x EXCEPT !.joining = b] \in ThreadRecord
           /\ [x EXCEPT !.waiting = b] \in ThreadRecord
           /\ [x EXCEPT !.onEvent = b] \in ThreadRecord
BY DEF ThreadRecord

(* vthread_run takes up a thread. *)
IsStarted(r, t, s) ==
    /\ s \in State
    /\ s.thread = [r.thread EXCEPT ![t] = [r.thread[t] EXCEPT !.scheduled = FALSE]]
    /\ s.active = r.active
    /\ r.thread[t].scheduled => s.failed = r.failed

(* What vthread_run does with the next thread is what IsStarted says. *)
LEMMA StartedIs ==
    ASSUME NEW r \in State, NEW t \in Thread
    PROVE  IsStarted(r, t, Started(r, t))
<1> DEFINE x == [r.thread[t] EXCEPT !.scheduled = FALSE]
           q == [r EXCEPT !.thread = [r.thread EXCEPT ![t] = x]]
           s == Started(r, t)
<1>1. x \in ThreadRecord
  BY ThreadsOf, FlagTyped
<1>2. IsSet(r, t, x, q)
  BY <1>1, SetIs, Zenon
<1>3. q = [r EXCEPT !.thread[t].scheduled = FALSE]
  BY DEF State
<1>4. s = Check(q, "vthread_run", r.thread[t].scheduled)
  BY <1>3, Zenon DEF Started
<1> HIDE DEF q, s
<1>5. /\ s \in State /\ s.thread = q.thread /\ s.active = q.active
      /\ r.thread[t].scheduled => s = q
  BY <1>2, <1>4 DEF Check, State, Asserting, IsSet
<1> HIDE DEF x
<1>6. /\ s \in State /\ s.thread = [r.thread EXCEPT ![t] = x] /\ s.active = r.active
      /\ r.thread[t].scheduled => s.failed = r.failed
  BY <1>2, <1>5 DEF IsSet
<1> QED
  BY <1>6, Zenon DEF IsStarted, x, s

(* The stack of calls *)
Frame == [thr : Thread, rest : Seq(Thread)]

(* A thread that runs is on top of the stack. *)
LEMMA Caller ==
    ASSUME TypeOK, stack # <<>>
    PROVE  /\ Head(stack) \in Frame /\ self \in Thread /\ Head(stack).rest \in Seq(Thread)
           /\ Tail(stack) \in Seq(Frame)
<1>1. stack \in Seq(Frame)
  BY DEF TypeOK, Frame
<1> HIDE DEF Frame
<1>2. Head(stack) \in Frame /\ Tail(stack) \in Seq(Frame)
  BY <1>1
<1> QED
  BY <1>2 DEF Frame, self

(* What vars are after an operator *)
LEMMA BecomeTyped ==
    ASSUME NEW r \in State, Become(r)
    PROVE  /\ thread' \in [Thread -> ThreadRecord] /\ active' \in Seq(Seq(Thread) \ {<<>>})
           /\ failed' \subseteq Asserting /\ r = Now'
BY DEF Become, State, Now

(* An opcode that returns false keeps the type. *)
LEMMA PauseTyped ==
    ASSUME TypeOK, stack # <<>>, NEW r \in State, Pause(r)
    PROVE  /\ thread' \in [Thread -> ThreadRecord] /\ active' \in Seq(Seq(Thread) \ {<<>>})
           /\ failed' \subseteq Asserting /\ stack' \in Seq(Frame)
<1> DEFINE rest == Head(stack).rest
           new == [thr |-> Head(rest), rest |-> Tail(rest)]
<1>1. rest \in Seq(Thread) /\ Tail(stack) \in Seq(Frame)
  BY Caller
<1>2. CASE rest = <<>>
  BY <1>1, <1>2, BecomeTyped DEF Pause
<1>3. CASE rest # <<>>
  <2>1. Become(Started(r, Head(rest))) /\ stack' = <<new>> \o Tail(stack)
    BY <1>3 DEF Pause
  <2> HIDE DEF rest
  <2>2. Head(rest) \in Thread /\ Tail(rest) \in Seq(Thread)
    BY <1>1, <1>3
  <2>3. Started(r, Head(rest)) \in State
    BY <2>2, StartedIs, Zenon DEF IsStarted
  <2>4. new \in Frame
    BY <2>2 DEF Frame
  <2> HIDE DEF new, Frame
  <2>5. stack' \in Seq(Frame)
    BY <1>1, <2>1, <2>4
  <2> QED
    BY <2>1, <2>3, <2>5, BecomeTyped
<1> QED
  BY <1>2, <1>3

(* vthread_schedule_list *)
IsWokenUp(r, list, s) ==
    /\ s \in State
    /\ \A t \in Thread : s.thread[t] =
            [r.thread[t] EXCEPT !.onEvent = @ /\ ~Contains(list, t), !.scheduled = @ \/ Contains(list, t)]
    /\ s.active = Append(r.active, list)
    /\ (\A t \in ToSet(list) : r.thread[t].onEvent /\ ~r.thread[t].scheduled) => s.failed = r.failed

(* What vthread_schedule_list does is what IsWokenUp says. *)
LEMMA WokenIs ==
    ASSUME NEW r \in State, NEW list \in List
    PROVE  IsWokenUp(r, list, Woken(r, list))
<1> DEFINE After(t) == [r.thread[t] EXCEPT !.onEvent = @ /\ ~Contains(list, t)]
           unhooked == [t \in Thread |-> After(t)]
           p == [r EXCEPT !.thread = unhooked]
           asleep == \A t \in ToSet(list) : r.thread[t].onEvent
           q == Check(p, "vthread_schedule_list", asleep)
           s == Woken(r, list)
<1>1. \A t \in Thread : r.thread[t] \in ThreadRecord /\ Contains(list, t) \in BOOLEAN
  BY ThreadsOf DEF Contains
<1>2. ASSUME NEW t \in Thread
      PROVE  /\ After(t) \in ThreadRecord
             /\ After(t).scheduled <=> r.thread[t].scheduled
             /\ [After(t) EXCEPT !.scheduled = @ \/ Contains(list, t)] =
                  [r.thread[t] EXCEPT !.onEvent = @ /\ ~Contains(list, t),
                                      !.scheduled = @ \/ Contains(list, t)]
  <2>1. r.thread[t] \in ThreadRecord /\ Contains(list, t) \in BOOLEAN
    BY <1>1
  <2> QED
    BY <2>1 DEF ThreadRecord
<1>3. s = Schedule(q, list, FALSE)
  BY DEF Woken
<1> HIDE DEF After
<1>4. /\ unhooked \in [Thread -> ThreadRecord]
      /\ \A t \in Thread : unhooked[t] = After(t)
  BY <1>2
<1> HIDE DEF unhooked
<1>5. p \in State /\ p.thread = unhooked /\ p.active = r.active /\ p.failed = r.failed
  BY <1>4 DEF State
<1> HIDE DEF p
<1>6. /\ q \in State /\ q.thread = p.thread /\ q.active = p.active
      /\ asleep => q = p
  BY <1>5 DEF Check, State, Asserting
<1> HIDE DEF q, asleep, s
<1>7. IsScheduled(q, list, FALSE, s)
  <2>1. FALSE \in BOOLEAN
    OBVIOUS
  <2> QED
    BY <1>3, <1>6, <2>1, ScheduleIs, Zenon
<1>8. /\ s \in State /\ s.active = Append(q.active, list)
      /\ s.thread = [t \in Thread |-> [q.thread[t] EXCEPT !.scheduled = @ \/ Contains(list, t)]]
      /\ (\A t \in ToSet(list) : ~q.thread[t].scheduled) => s.failed = q.failed
  BY <1>7 DEF IsScheduled
<1>9. \A t \in Thread : s.thread[t] =
            [r.thread[t] EXCEPT !.onEvent = @ /\ ~Contains(list, t), !.scheduled = @ \/ Contains(list, t)]
  <2> TAKE t \in Thread
  <2>1. q.thread[t] = After(t)
    BY <1>4, <1>5, <1>6
  <2>2. s.thread[t] = [q.thread[t] EXCEPT !.scheduled = @ \/ Contains(list, t)]
    BY <1>8
  <2>3. After(t) = [r.thread[t] EXCEPT !.onEvent = @ /\ ~Contains(list, t)]
    BY DEF After
  <2>4. r.thread[t] \in ThreadRecord
    BY ThreadsOf
  <2> DEFINE x == r.thread[t]
             b == Contains(list, t)
             y == [x EXCEPT !.onEvent = @ /\ ~b]
  <2>5. x \in ThreadRecord /\ s.thread[t] = [y EXCEPT !.scheduled = @ \/ b]
    BY <2>1, <2>2, <2>3, <2>4
  <2> HIDE DEF x, b
  <2>6. s.thread[t] = [x EXCEPT !.onEvent = @ /\ ~b, !.scheduled = @ \/ b]
    BY <2>5 DEF ThreadRecord
  <2> QED
    BY <2>6 DEF x, b
<1>10. (\A t \in ToSet(list) : r.thread[t].onEvent /\ ~r.thread[t].scheduled) => s.failed = r.failed
  <2> SUFFICES ASSUME \A t \in ToSet(list) : r.thread[t].onEvent /\ ~r.thread[t].scheduled
               PROVE  s.failed = r.failed
    OBVIOUS
  <2>1. asleep
    BY DEF asleep
  <2>2. ToSet(list) \subseteq Thread
    BY DEF List, ToSet
  <2>3. \A t \in Thread : q.thread[t] = After(t)
    BY <1>4, <1>5, <1>6
  <2>4. \A t \in ToSet(list) : ~q.thread[t].scheduled
    BY <1>2, <2>2, <2>3, Zenon
  <2> QED
    BY <1>5, <1>6, <1>8, <2>1, <2>4
<1> QED
  BY <1>5, <1>6, <1>8, <1>9, <1>10 DEF IsWokenUp, s

(* of_FORK *)
Born(r, cs, scope) ==
    [t \in Thread |->
        IF Contains(cs, t) THEN [NewThread(scope, self) EXCEPT !.scheduled = scope \notin Functions]
        ELSE r.thread[t]]

Parented(x, cs, scope, pc) ==
    [x EXCEPT !.children = @ \cup ToSet(cs),
              !.taskFunc = IF scope \in Tasks \cup Functions THEN @ \cup ToSet(cs) ELSE @,
              !.pc = pc]

IsForked(r, cs, scope, pc, s) ==
    /\ s \in State /\ s.failed = r.failed
    /\ Born(r, cs, scope) \in [Thread -> ThreadRecord]
    /\ s.thread = [Born(r, cs, scope) EXCEPT
                       ![self] = Parented(Born(r, cs, scope)[self], cs, scope, pc)]
    /\ scope \in Functions => s.active = r.active
    /\ scope \notin Functions => s.active = Reverse([i \in DOMAIN cs |-> <<cs[i]>>]) \o r.active

(* What of_FORK does is what IsForked says. *)
LEMMA ForkedIs ==
    ASSUME NEW r \in State, NEW n \in Nat, NEW cs \in [1..n -> Thread], NEW scope \in Scope,
           NEW pc \in Seq(Opcodes), self \in Thread
    PROVE  IsForked(r, cs, scope, pc, Forked(r, cs, scope, pc))
<1> DEFINE born == Born(r, cs, scope)
           x == Parented(born[self], cs, scope, pc)
           pushed == IF scope \in Functions THEN <<>> ELSE Reverse([i \in DOMAIN cs |-> <<cs[i]>>])
           s == [r EXCEPT !.thread = [born EXCEPT ![self] = x], !.active = pushed \o @]
<1>1. born \in [Thread -> ThreadRecord]
  <2> DEFINE new == NewThread(scope, self)
             y == [new EXCEPT !.scheduled = scope \notin Functions]
  <2>1. new \in ThreadRecord
    BY NewTyped
  <2> HIDE DEF new
  <2>2. y \in ThreadRecord
    BY <2>1, FlagTyped
  <2>3. born = [t \in Thread |-> IF Contains(cs, t) THEN y ELSE r.thread[t]]
    BY DEF Born, new
  <2> HIDE DEF y, born
  <2> QED
    BY <2>2, <2>3, ThreadsOf
<1>2. x \in ThreadRecord
  <2>1. born[self] \in ThreadRecord /\ ToSet(cs) \subseteq Thread
    BY <1>1 DEF ToSet
  <2> HIDE DEF born
  <2> QED
    BY <2>1 DEF Parented, ThreadRecord
<1>3. pushed \in Seq(List)
  <2> DEFINE lists == [i \in DOMAIN cs |-> <<cs[i]>>]
  <2>1. \A i \in 1..n : <<cs[i]>> \in List
    BY DEF List
  <2>2. lists = [i \in 1..n |-> <<cs[i]>>]
    OBVIOUS
  <2> HIDE DEF List
  <2>3. lists \in Seq(List)
    BY <2>1, <2>2
  <2> HIDE DEF lists
  <2>4. Reverse(lists) \in Seq(List)
    BY <2>3 DEF Reverse
  <2>5. <<>> \in Seq(List)
    OBVIOUS
  <2> QED
    BY <2>4, <2>5 DEF lists
<1>4. s = Forked(r, cs, scope, pc)
  <2> DEFINE called == scope \in Tasks \cup Functions
             after == [born EXCEPT ![self].children = @ \cup ToSet(cs),
                                   ![self].taskFunc = IF called THEN @ \cup ToSet(cs) ELSE @,
                                   ![self].pc = pc]
  <2>1. after = [born EXCEPT ![self] = x]
    <3>1. born \in [Thread -> ThreadRecord] /\ born[self] \in ThreadRecord
      BY <1>1
    <3> HIDE DEF born
    <3> QED
      BY <3>1 DEF Parented, ThreadRecord
  <2>2. Forked(r, cs, scope, pc) = [r EXCEPT !.thread = after, !.active = pushed \o @]
    BY DEF Forked, Born
  <2> HIDE DEF after, x, born, pushed
  <2> QED
    BY <2>1, <2>2
<1>5. s \in State /\ s.thread = [born EXCEPT ![self] = x] /\ s.failed = r.failed
      /\ s.active = pushed \o r.active
  <2>1. r.active \in Seq(List)
    BY DEF State, List
  <2> HIDE DEF born, x, pushed, List
  <2>2. pushed \o r.active \in Seq(List)
    BY <1>3, <2>1
  <2>3. [born EXCEPT ![self] = x] \in [Thread -> ThreadRecord]
    BY <1>1, <1>2
  <2> QED
    BY <2>2, <2>3 DEF State, List
<1> HIDE DEF born, x, s
<1>6. scope \in Functions => s.active = r.active
  <2>1. r.active \in Seq(List)
    BY DEF State, List
  <2> HIDE DEF List
  <2> QED
    BY <1>5, <2>1
<1>7. scope \notin Functions => s.active = Reverse([i \in DOMAIN cs |-> <<cs[i]>>]) \o r.active
  BY <1>5
<1>8. IsForked(r, cs, scope, pc, s)
  BY <1>1, <1>5, <1>6, <1>7 DEF IsForked, born, x
<1> QED
  BY <1>4, <1>8

(* the children %join/detach lets go *)
DetachedThread(x, t, kids) ==
    IF t = self THEN [x EXCEPT !.isDetached = @ \/ t \in kids, !.children = @ \ kids,
                               !.detached = @ \cup kids]
    ELSE [x EXCEPT !.isDetached = @ \/ t \in kids]

IsDetached(r, kids, s) ==
    /\ s \in State /\ s.active = r.active /\ s.failed = r.failed
    /\ \A t \in Thread : s.thread[t] = DetachedThread(r.thread[t], t, kids)

(* What %join/detach does with them is what IsDetached says. *)
LEMMA DetachedIs ==
    ASSUME NEW r \in State, NEW kids \in SUBSET Thread, self \in Thread
    PROVE  IsDetached(r, kids, Detached(r, kids))
<1> DEFINE After(t) == [r.thread[t] EXCEPT !.isDetached = @ \/ t \in kids]
           marked == [t \in Thread |-> After(t)]
           x == [marked[self] EXCEPT !.children = @ \ kids, !.detached = @ \cup kids]
           after == [marked EXCEPT ![self].children = @ \ kids, ![self].detached = @ \cup kids]
           s == [r EXCEPT !.thread = after]
<1>1. ASSUME NEW t \in Thread PROVE After(t) \in ThreadRecord
  <2>1. r.thread[t] \in ThreadRecord
    BY ThreadsOf
  <2> QED
    BY <2>1 DEF ThreadRecord
<1>2. marked \in [Thread -> ThreadRecord] /\ marked[self] = After(self)
      /\ \A t \in Thread : marked[t] = After(t)
  <2> HIDE DEF After
  <2> QED
    BY <1>1
<1>3. x \in ThreadRecord /\ x = DetachedThread(r.thread[self], self, kids)
  <2>1. r.thread[self] \in ThreadRecord
    BY ThreadsOf
  <2>2. x = [After(self) EXCEPT !.children = @ \ kids, !.detached = @ \cup kids]
    BY <1>2
  <2> HIDE DEF x
  <2> QED
    BY <2>1, <2>2 DEF ThreadRecord, DetachedThread
<1>4. Detached(r, kids) = s
  BY DEF Detached
<1> HIDE DEF marked
<1>5. after = [marked EXCEPT ![self] = x]
  BY <1>1, <1>2
<1> HIDE DEF x, after
<1>6. after \in [Thread -> ThreadRecord]
      /\ \A t \in Thread : after[t] = IF t = self THEN x ELSE marked[t]
  BY <1>2, <1>3, <1>5
<1>7. s \in State /\ s.thread = after /\ s.active = r.active /\ s.failed = r.failed
  BY <1>6 DEF State
<1>8. \A t \in Thread : after[t] = DetachedThread(r.thread[t], t, kids)
  <2> TAKE t \in Thread
  <2>1. t # self => DetachedThread(r.thread[t], t, kids) = After(t)
    BY DEF DetachedThread
  <2> HIDE DEF After
  <2> QED
    BY <1>2, <1>3, <1>6, <2>1
<1> QED
  BY <1>4, <1>7, <1>8 DEF IsDetached

(* of_END *)
EndedThread(x, t, mine) ==
    IF t = self THEN [x EXCEPT !.ended = TRUE, !.pc = Null, !.detached = {}]
    ELSE IF t \in mine THEN [x EXCEPT !.parent = Nobody, !.isDetached = FALSE]
    ELSE x

MayEnd(r) ==
    /\ ~thread[self].onEvent /\ thread[self].children = {}
    /\ \A c \in thread[self].detached : r.thread[c].parent = self /\ r.thread[c].isDetached

IsEnded(r, s) ==
    /\ s \in State /\ s.active = r.active
    /\ \A t \in Thread : s.thread[t] = EndedThread(r.thread[t], t, thread[self].detached)
    /\ MayEnd(r) => s.failed = r.failed

(* What of_END begins with is what IsEnded says. *)
LEMMA EndedIs ==
    ASSUME NEW r \in State, self \in Thread
    PROVE  IsEnded(r, Ended(r))
<1> DEFINE mine == thread[self].detached
           After(t) == EndedThread(r.thread[t], t, mine)
           alone == [t \in Thread |-> After(t)]
           p == [r EXCEPT !.thread = alone]
           s == Check(p, "of_END", MayEnd(r))
<1>1. \A t \in Thread : After(t) \in ThreadRecord
  <2> TAKE t \in Thread
  <2>1. r.thread[t] \in ThreadRecord /\ Null \in Seq(Opcodes)
    BY ThreadsOf DEF Null, Opcodes
  <2> HIDE DEF mine
  <2> QED
    BY <2>1 DEF ThreadRecord, EndedThread
<1>2. Ended(r) = s
  BY DEF Ended, EndedThread, MayEnd
<1> HIDE DEF After
<1>3. alone \in [Thread -> ThreadRecord] /\ \A t \in Thread : alone[t] = After(t)
  BY <1>1
<1> HIDE DEF alone
<1>4. p \in State /\ p.thread = alone /\ p.active = r.active /\ p.failed = r.failed
  BY <1>3 DEF State
<1> HIDE DEF p
<1>5. /\ s \in State /\ s.thread = p.thread /\ s.active = p.active
      /\ MayEnd(r) => s = p
  BY <1>4 DEF Check, State, Asserting
<1> HIDE DEF s
<1>6. /\ s \in State /\ s.active = r.active
      /\ \A t \in Thread : s.thread[t] = After(t)
      /\ MayEnd(r) => s.failed = r.failed
  BY <1>3, <1>4, <1>5
<1> QED
  BY <1>2, <1>6, Zenon DEF IsEnded, After

(* the end of a child its parent waits for in a %join *)
LEMMA EndsJoinTyped ==
    ASSUME NEW r \in State, self \in Thread, NEW parent \in Thread
    PROVE  EndsJoin(r, parent) \in State
<1> DEFINE a == Check(r, "of_END", ~r.thread[self].isDetached)
           w == WakeJoiner(a, parent)
<1>1. a \in State
  BY DEF Check, State, Asserting
<1> HIDE DEF a
<1>2. w \in State
  BY <1>1, WakeJoinerIs, Zenon DEF IsWoken
<1> HIDE DEF w
<1>3. DoJoin(w, parent, self) \in State
  <2>1. \E q \in State : DoJoin(w, parent, self) = Reap(q, {self})
    <3>1. PICK q : IsUnlisted(w, parent, self, q) /\ DoJoin(w, parent, self) = Reap(q, {self})
      BY <1>2, DoJoinIs, Zenon
    <3>2. q \in State
      BY <3>1, Zenon DEF IsUnlisted
    <3> QED
      BY <3>1, <3>2, Zenon
  <2>2. \A q \in State : Reap(q, {self}) \in State
    <3>1. {self} \in SUBSET Thread
      OBVIOUS
    <3> QED
      BY <3>1, ReapIs, Zenon DEF IsReaped
  <2> QED
    BY <2>1, <2>2
<1> QED
  BY <1>1, <1>3 DEF EndsJoin, a, w

(* the end of a detached child *)
LEMMA WakeWaiterTyped ==
    ASSUME NEW r \in State, NEW parent \in Thread
    PROVE  WakeWaiter(r, parent) \in State
<1> DEFINE x == [r.thread[parent] EXCEPT !.waiting = FALSE]
           q == [r EXCEPT !.thread = [r.thread EXCEPT ![parent] = x]]
           list == <<parent>>
<1>1. x \in ThreadRecord
  BY ThreadsOf, FlagTyped
<1>2. q \in State
  BY <1>1, SetIs, Zenon DEF IsSet
<1>3. q = [r EXCEPT !.thread[parent].waiting = FALSE]
  BY DEF State
<1>4. list \in List /\ TRUE \in BOOLEAN
  BY DEF List
<1>5. WakeWaiter(r, parent) = Schedule(q, list, TRUE)
  BY <1>3, Zenon DEF WakeWaiter
<1> HIDE DEF q, list
<1> QED
  BY <1>2, <1>4, <1>5, ScheduleIs, Zenon DEF IsScheduled

Apart(r, parent) ==
    [r EXCEPT !.thread[parent].detached = @ \ {self},
              !.thread[self].isDetached = FALSE, !.thread[self].parent = Nobody]

(* the thread and its parent no more know each other *)
IsApart(r, parent, s) ==
    /\ s \in State /\ s.active = r.active /\ s.failed = r.failed
    /\ parent # self =>
          \A t \in Thread : s.thread[t] =
              IF t = self THEN [r.thread[t] EXCEPT !.isDetached = FALSE, !.parent = Nobody]
              ELSE IF t = parent THEN [r.thread[t] EXCEPT !.detached = @ \ {self}]
              ELSE r.thread[t]

(* What of_END does to a detached child and its parent is what IsApart says. *)
LEMMA ApartIs ==
    ASSUME NEW r \in State, self \in Thread, NEW parent \in Thread
    PROVE  IsApart(r, parent, Apart(r, parent))
<1> DEFINE x == [r.thread[parent] EXCEPT !.detached = @ \ {self}]
           p == [r.thread EXCEPT ![parent] = x]
           y == [p[self] EXCEPT !.isDetached = FALSE, !.parent = Nobody]
           after == [p EXCEPT ![self] = y]
           s == [r EXCEPT !.thread = after]
<1>1. x \in ThreadRecord
  <2>1. r.thread[parent] \in ThreadRecord
    BY ThreadsOf
  <2> QED
    BY <2>1 DEF ThreadRecord
<1>2. p \in [Thread -> ThreadRecord] /\ p[self] \in ThreadRecord
      /\ \A t \in Thread : p[t] = IF t = parent THEN x ELSE r.thread[t]
  <2> HIDE DEF x
  <2> QED
    BY <1>1, ThreadsOf
<1>3. s = Apart(r, parent)
  <2>1. after = [p EXCEPT ![self].isDetached = FALSE, ![self].parent = Nobody]
    <3> HIDE DEF p
    <3> QED
      BY <1>2 DEF ThreadRecord
  <2> HIDE DEF after
  <2>2. p = [r.thread EXCEPT ![parent].detached = @ \ {self}]
    OBVIOUS
  <2>3. s = [r EXCEPT !.thread = [[r.thread EXCEPT ![parent].detached = @ \ {self}]
                                     EXCEPT ![self].isDetached = FALSE, ![self].parent = Nobody]]
    BY <2>1, <2>2
  <2> QED
    BY <2>3 DEF Apart, State
<1> HIDE DEF p
<1>4. y \in ThreadRecord
  BY <1>2 DEF ThreadRecord
<1>5. after \in [Thread -> ThreadRecord]
      /\ \A t \in Thread : after[t] = IF t = self THEN y ELSE p[t]
  <2> HIDE DEF y
  <2> QED
    BY <1>2, <1>4
<1> HIDE DEF after
<1>6. s \in State /\ s.thread = after /\ s.active = r.active /\ s.failed = r.failed
  BY <1>5 DEF State
<1>7. parent # self => y = [r.thread[self] EXCEPT !.isDetached = FALSE, !.parent = Nobody]
  BY <1>2
<1> HIDE DEF y, s
<1>8. parent # self =>
          \A t \in Thread : s.thread[t] =
              IF t = self THEN [r.thread[t] EXCEPT !.isDetached = FALSE, !.parent = Nobody]
              ELSE IF t = parent THEN x ELSE r.thread[t]
  BY <1>2, <1>5, <1>6, <1>7
<1>9. IsApart(r, parent, s)
  BY <1>6, <1>8, Zenon DEF IsApart, x
<1> QED
  BY <1>3, <1>9, Zenon

(* The end of a detached child keeps the type. *)
LEMMA EndsDetachedTyped ==
    ASSUME NEW r \in State, self \in Thread, NEW parent \in Thread
    PROVE  EndsDetached(r, parent) \in State
<1> DEFINE left == Apart(r, parent)
           p == IF left.thread[parent].waiting /\ left.thread[parent].detached = {}
                THEN WakeWaiter(left, parent) ELSE left
<1>1. left \in State
  BY ApartIs, Zenon DEF IsApart
<1>2. EndsDetached(r, parent) = Reap(p, {self})
  BY DEF EndsDetached, Apart
<1> HIDE DEF left
<1>3. p \in State /\ {self} \in SUBSET Thread
  BY <1>1, WakeWaiterTyped
<1> HIDE DEF p
<1> QED
  BY <1>2, <1>3, ReapIs, Zenon DEF IsReaped

--------------------------------------------------------------------------------
(* The threads of a list that are in a set, in their order                      *)

ThoseLoop(f, list, S) ==
    /\ Those(list, S) = f[Len(list)] /\ f[0] = <<>>
    /\ \A i \in 1..Len(list) :
          f[i] = IF list[i] \in S THEN Append(f[i - 1], list[i]) ELSE f[i - 1]

(* The threads of a list that are in a set, taken one by one *)
LEMMA ThoseSteps ==
    ASSUME NEW list \in Seq(Thread), NEW S
    PROVE  \E f : ThoseLoop(f, list, S)
<1> DEFINE n == Len(list)
           D == Seq(Thread)
           G == [p \in (1..n) \X D |-> IF list[p[1]] \in S THEN Append(p[2], list[p[1]]) ELSE p[2]]
           IsLoop(f) ==
               f = [i \in 0..n |->
                       IF i = 0 THEN <<>>
                       ELSE IF list[i] \in S THEN Append(f[i - 1], list[i]) ELSE f[i - 1]]
<1>1. n \in Nat /\ <<>> \in D /\ \A i \in 1..n : list[i] \in Thread
  OBVIOUS
<1>2. \A i \in 1..n : \A d \in D :
          /\ G[<<i, d>>] = IF list[i] \in S THEN Append(d, list[i]) ELSE d
          /\ G[<<i, d>>] \in D
  OBVIOUS
<1> HIDE DEF G, D, n
<1>3. PICK f : IteratedSteps(f, n, D, <<>>, G)
  <2>1. \A i \in 1..n : \A d \in D : G[<<i, d>>] \in D
    BY <1>2
  <2> QED
    BY <1>1, <2>1, Iterated, Zenon
<1>4. IsLoop(f)
  <2>1. /\ f[0] = <<>> /\ f \in [0..n -> D]
        /\ \A i \in 1..n : f[i] = G[<<i, f[i - 1]>>] /\ f[i - 1] \in D
    BY <1>1, <1>3 DEF IteratedSteps
  <2>2. ASSUME NEW i \in 0..n
        PROVE  f[i] = IF i = 0 THEN <<>>
                      ELSE IF list[i] \in S THEN Append(f[i - 1], list[i]) ELSE f[i - 1]
    <3>1. i # 0 => i \in 1..n
      BY <1>1
    <3> QED
      BY <1>2, <2>1, <3>1
  <2> QED
    BY <2>1, <2>2
<1> DEFINE chosen == CHOOSE f_1 : IsLoop(f_1)
<1>5. IsLoop(chosen)
  BY <1>4
<1>6. Those(list, S) = chosen[Len(list)]
  BY DEF Those, n
<1> HIDE DEF chosen
<1>7. chosen[0] = <<>> /\ \A i \in 1..n :
          chosen[i] = IF list[i] \in S THEN Append(chosen[i - 1], list[i]) ELSE chosen[i - 1]
  <2>1. 0 \in 0..n /\ \A i \in 1..n : i \in 0..n /\ i # 0
    BY <1>1
  <2> QED
    BY <1>5, <2>1
<1>8. ThoseLoop(chosen, list, S)
  BY <1>6, <1>7 DEF n, ThoseLoop
<1> QED
  BY <1>8, Zenon

(* They are threads. *)
LEMMA ThoseTyped ==
    ASSUME NEW list \in Seq(Thread), NEW S
    PROVE  Those(list, S) \in Seq(Thread)
<1>1. PICK f : ThoseLoop(f, list, S)
  BY ThoseSteps, Zenon
<1> DEFINE n == Len(list)
           D == Seq(Thread)
<1>2. n \in Nat /\ \A i \in 1..n : list[i] \in Thread
  OBVIOUS
<1>3. f[0] \in D
  BY <1>1 DEF ThoseLoop
<1>4. ASSUME NEW i \in 1..n, f[i - 1] \in D PROVE f[i] \in D
  <2>1. f[i] = IF list[i] \in S THEN Append(f[i - 1], list[i]) ELSE f[i - 1]
    BY <1>1 DEF ThoseLoop
  <2> QED
    BY <1>2, <1>4, <2>1
<1> HIDE DEF n, D
<1>5. \A i \in 0..n : f[i] \in D
  BY <1>2, <1>3, <1>4, IteratedIn
<1>6. f[n] \in D /\ Those(list, S) = f[n]
  BY <1>1, <1>2, <1>5 DEF ThoseLoop, n
<1> QED
  BY <1>6 DEF D

(* No thread comes twice if none did. *)
LEMMA ThoseOf ==
    ASSUME NEW list \in Seq(Thread), NEW S, IsInjective(list)
    PROVE  /\ Those(list, S) \in Seq(Thread) /\ IsInjective(Those(list, S))
           /\ ToSet(Those(list, S)) = ToSet(list) \cap S
<1>0. PICK f : ThoseLoop(f, list, S)
  BY ThoseSteps, Zenon
<1>1. /\ Those(list, S) = f[Len(list)] /\ f[0] = <<>>
      /\ \A i \in 1..Len(list) :
            f[i] = IF list[i] \in S THEN Append(f[i - 1], list[i]) ELSE f[i - 1]
  BY <1>0 DEF ThoseLoop
<1> DEFINE n == Len(list)
           First(i) == {list[j] : j \in 1..i}
           Good(i, l) == l \in Seq(Thread) /\ IsInjective(l) /\ ToSet(l) = First(i) \cap S
           D == {p \in Nat \X Seq(Thread) : Good(p[1], p[2])}
           g == [i \in 0..n |-> <<i, f[i]>>]
<1>2. n \in Nat /\ \A i \in 1..n : list[i] \in Thread
  OBVIOUS
<1>3. \A i \in 0..n : g[i] \in D <=> Good(i, f[i])
  <2> HIDE DEF Good
  <2>1. \A i \in 0..n : i \in Nat /\ (Good(i, f[i]) => f[i] \in Seq(Thread))
    BY <1>2 DEF Good
  <2> QED
    BY <2>1
<1>4. g[0] \in D
  <2>1. Good(0, <<>>)
    <3>1. <<>> \in Seq(Thread) /\ ToSet(<<>>) = {} /\ IsInjective(<<>>) /\ 1..0 = {}
      BY DEF ToSet, IsInjective
    <3> QED
      BY <3>1
  <2> HIDE DEF Good, D
  <2> QED
    BY <1>1, <1>2, <1>3, <2>1
<1>5. ASSUME NEW i \in 1..n, g[i - 1] \in D PROVE g[i] \in D
  <2>1. i - 1 \in 0..n /\ i \in 0..n /\ i \in 1..n
    BY <1>2
  <2>2. Good(i - 1, f[i - 1])
    <3> HIDE DEF Good, g, D
    <3> QED
      BY <1>3, <1>5, <2>1
  <2>3. First(i) = First(i - 1) \cup {list[i]}
    <3>1. 1..i = (1..(i - 1)) \cup {i}
      BY <1>2
    <3> QED
      BY <3>1
  <2>4. list[i] \notin First(i - 1)
    <3>1. \A j \in 1..(i - 1) : j \in DOMAIN list /\ i \in DOMAIN list /\ j # i
      BY <1>2
    <3> QED
      BY <3>1 DEF IsInjective
  <2>5. Good(i, f[i])
    <3> HIDE DEF First
    <3>1. CASE list[i] \in S
      <4> DEFINE old == f[i - 1]
                 e == list[i]
      <4>1. f[i] = Append(old, e)
        BY <1>1, <3>1
      <4>2. old \in Seq(Thread) /\ IsInjective(old) /\ ToSet(old) = First(i - 1) \cap S
        BY <2>2
      <4>3. e \in Thread /\ e \notin ToSet(old)
        BY <1>2, <2>4, <4>2
      <4> HIDE DEF old, e
      <4>4. /\ Append(old, e) \in Seq(Thread) /\ IsInjective(Append(old, e))
            /\ ToSet(Append(old, e)) = ToSet(old) \cup {e}
        BY <4>2, <4>3, ListGrows
      <4> QED
        BY <2>3, <3>1, <4>1, <4>2, <4>4 DEF e
    <3>2. CASE list[i] \notin S
      <4>1. f[i] = f[i - 1]
        BY <1>1, <3>2
      <4> QED
        BY <2>2, <2>3, <3>2, <4>1
    <3> QED
      BY <3>1, <3>2
  <2> HIDE DEF Good, g, D
  <2> QED
    BY <1>3, <2>1, <2>5
<1>6. Good(n, f[n])
  <2> HIDE DEF Good, g, D
  <2>1. \A i \in 0..n : g[i] \in D
    <3> HIDE DEF n
    <3> QED
      BY <1>2, <1>4, <1>5, IteratedIn
  <2> QED
    BY <1>2, <1>3, <2>1
<1>7. First(n) = ToSet(list)
  <2>1. DOMAIN list = 1..n
    OBVIOUS
  <2> QED
    BY <2>1 DEF ToSet
<1> QED
  BY <1>1, <1>6, <1>7

--------------------------------------------------------------------------------
(* The type invariant, action by action                                         *)

(* A statement is one of a thread that runs. *)
LEMMA StatementIs ==
    ASSUME TypeOK, NEW kind, Statement(kind)
    PROVE  stack # <<>> /\ self \in Thread /\ stmts' \in 0..MaxStmts
<1>1. stack # <<>> /\ stmts \in 0..MaxStmts /\ stmts < MaxStmts /\ stmts' = stmts + 1
  BY DEF Statement, Running, TypeOK
<1> QED
  BY <1>1, Caller, ThreadAssumption

(* An opcode of a thread that runs *)
LEMMA OpcodeIs ==
    ASSUME TypeOK, NEW op, Opcode(op)
    PROVE  stack # <<>> /\ self \in Thread
BY Caller DEF Opcode, Running

(* An opcode that returns true *)
LEMMA Continued ==
    ASSUME TypeOK, NEW r \in State, Continue(r), later' \in Seq(Thread),
           waiters' \in [Events -> Seq(Thread)], stmts' \in 0..MaxStmts
    PROVE  TypeOK'
<1>1. Become(r) /\ stack' = stack
  BY DEF Continue
<1>2. /\ thread' \in [Thread -> ThreadRecord] /\ active' \in Seq(Seq(Thread) \ {<<>>})
      /\ failed' \subseteq Asserting
  BY <1>1, BecomeTyped
<1> QED
  BY <1>1, <1>2 DEF TypeOK

(* An opcode that returns false *)
LEMMA Paused ==
    ASSUME TypeOK, stack # <<>>, NEW r \in State, Pause(r), later' \in Seq(Thread),
           waiters' \in [Events -> Seq(Thread)], stmts' \in 0..MaxStmts
    PROVE  TypeOK'
<1>1. /\ thread' \in [Thread -> ThreadRecord] /\ active' \in Seq(Seq(Thread) \ {<<>>})
      /\ failed' \subseteq Asserting /\ stack' \in Seq(Frame)
  BY PauseTyped
<1> QED
  BY <1>1 DEF TypeOK, Frame

(* What a statement leaves alone keeps its type. *)
LEMMA Kept ==
    ASSUME TypeOK
    PROVE  /\ later' = later => later' \in Seq(Thread)
           /\ waiters' = waiters => waiters' \in [Events -> Seq(Thread)]
           /\ stmts' = stmts => stmts' \in 0..MaxStmts
BY DEF TypeOK

(* A list of one thread *)
LEMMA OneList ==
    ASSUME NEW t \in Thread
    PROVE  <<t>> \in List /\ TRUE \in BOOLEAN /\ FALSE \in BOOLEAN
<1>1. <<t>> \in Seq(Thread) /\ <<t>> # <<>>
  OBVIOUS
<1> QED
  BY <1>1 DEF List

(* %delay *)
LEMMA DelayTyped ==
    ASSUME TypeOK, Delay
    PROVE  TypeOK'
<1>1. Statement("delay") /\ waiters' = waiters
  BY DEF Delay
<1>2. stack # <<>> /\ self \in Thread /\ stmts' \in 0..MaxStmts
  BY <1>1, StatementIs, Zenon
<1>3. waiters' \in [Events -> Seq(Thread)] /\ later \in Seq(Thread)
  BY <1>1 DEF TypeOK
<1>4. CASE Pause(Schedule(Now, <<self>>, FALSE)) /\ UNCHANGED later
  <2> DEFINE s == Schedule(Now, <<self>>, FALSE)
  <2>1. IsScheduled(Now, <<self>>, FALSE, s)
    BY <1>2, NowTyped, OneList, ScheduleIs, Zenon
  <2>2. s \in State
    BY <2>1 DEF IsScheduled
  <2>3. Pause(s) /\ later' \in Seq(Thread)
    BY <1>3, <1>4
  <2> HIDE DEF s
  <2> QED
    BY <1>2, <1>3, <2>2, <2>3, Paused, Zenon
<1>5. CASE /\ Pause([Now EXCEPT !.thread[self].scheduled = TRUE])
           /\ later' = Append(later, self)
  <2> DEFINE x == [Now.thread[self] EXCEPT !.scheduled = TRUE]
             s == [Now EXCEPT !.thread = [Now.thread EXCEPT ![self] = x]]
  <2>1. Now \in State /\ Now.thread[self] \in ThreadRecord
    BY <1>2, NowTyped, ThreadsOf
  <2>2. x \in ThreadRecord
    BY <2>1, FlagTyped, OneList, <1>2, Zenon
  <2>3. s = [Now EXCEPT !.thread[self].scheduled = TRUE]
    OBVIOUS
  <2> HIDE DEF x
  <2>4. IsSet(Now, self, x, s)
    BY <1>2, <2>1, <2>2, SetIs, Zenon
  <2>5. s \in State
    BY <2>4 DEF IsSet
  <2>6. Pause(s) /\ later' \in Seq(Thread)
    BY <1>2, <1>3, <1>5, <2>3
  <2> HIDE DEF s
  <2> QED
    BY <1>2, <1>3, <2>5, <2>6, Paused, Zenon
<1> QED
  BY <1>4, <1>5 DEF Delay

(* %wait *)
LEMMA WaitTyped ==
    ASSUME TypeOK, NEW e \in Events, Wait(e)
    PROVE  TypeOK'
<1> DEFINE x == [Now.thread[self] EXCEPT !.onEvent = TRUE]
           q == [Now EXCEPT !.thread = [Now.thread EXCEPT ![self] = x]]
           s == Check(q, "of_WAIT", ~thread[self].onEvent)
<1>1. /\ Statement("wait") /\ later' = later
      /\ waiters' = [waiters EXCEPT ![e] = <<self>> \o @]
      /\ Pause(Check([Now EXCEPT !.thread[self].onEvent = TRUE], "of_WAIT", ~thread[self].onEvent))
  BY DEF Wait
<1>2. stack # <<>> /\ self \in Thread /\ stmts' \in 0..MaxStmts
  BY <1>1, StatementIs, Zenon
<1>3. Now \in State /\ Now.thread[self] \in ThreadRecord /\ Now.thread = thread
  BY <1>2, NowTyped, ThreadsOf
<1>4. x \in ThreadRecord
  BY <1>2, <1>3, FlagTyped, OneList, Zenon
<1>5. q = [Now EXCEPT !.thread[self].onEvent = TRUE]
  OBVIOUS
<1> HIDE DEF x
<1>6. IsSet(Now, self, x, q)
  BY <1>2, <1>3, <1>4, SetIs, Zenon
<1>7. q \in State
  BY <1>6 DEF IsSet
<1>8. Pause(s)
  BY <1>1, <1>5
<1> HIDE DEF q
<1>9. thread[self].onEvent \in BOOLEAN
  BY <1>3 DEF ThreadRecord
<1>10. s \in State
  BY <1>7, <1>9, CheckIs DEF Asserting
<1>11. waiters' \in [Events -> Seq(Thread)] /\ later' \in Seq(Thread)
  BY <1>1, <1>2 DEF TypeOK
<1> HIDE DEF s
<1> QED
  BY <1>2, <1>8, <1>10, <1>11, Paused, Zenon

(* %event *)
LEMMA EventTyped ==
    ASSUME TypeOK, NEW e \in Events, Event(e)
    PROVE  TypeOK'
<1> DEFINE list == waiters[e]
           s == RunWaiting(Now, list)
<1>1. /\ Statement("event") /\ later' = later /\ waiters' = [waiters EXCEPT ![e] = <<>>]
      /\ Continue(s)
  BY DEF Event
<1>2. stack # <<>> /\ self \in Thread /\ stmts' \in 0..MaxStmts
  BY <1>1, StatementIs, Zenon
<1>3. list \in Seq(Thread) /\ Now \in State
  BY NowTyped DEF TypeOK
<1> HIDE DEF list
<1>4. s \in State
  <2>1. CASE list = <<>>
    BY <1>3, <2>1 DEF RunWaiting
  <2>2. CASE list # <<>>
    <3>1. list \in List
      BY <1>3, <2>2 DEF List
    <3>2. IsWokenUp(Now, list, Woken(Now, list))
      BY <1>3, <3>1, WokenIs, Zenon
    <3> QED
      BY <2>2, <3>2 DEF IsWokenUp, RunWaiting
  <2> QED
    BY <2>1, <2>2
<1>5. waiters' \in [Events -> Seq(Thread)] /\ later' \in Seq(Thread)
  BY <1>1, <1>2 DEF TypeOK
<1> HIDE DEF s
<1> QED
  BY <1>1, <1>2, <1>4, <1>5, Continued, Zenon

(* A fork of any kind *)
LEMMA ForkingTyped ==
    ASSUME TypeOK, self \in Thread, NEW n \in Nat, NEW cs \in New(n), NEW scope \in Scope,
           NEW pc \in Seq(Opcodes)
    PROVE  Forked(Now, cs, scope, pc) \in State
<1>1. cs \in [1..n -> Thread] /\ Now \in State
  BY NowTyped DEF New, Unused
<1>2. IsForked(Now, cs, scope, pc, Forked(Now, cs, scope, pc))
  BY <1>1, ForkedIs, Zenon
<1> QED
  BY <1>2 DEF IsForked

(* The opcodes that follow a fork *)
LEMMA AfterFork ==
    /\ \A n \in Nat : [i \in 1..n |-> "join"] \in Seq(Opcodes)
    /\ <<"join">> \in Seq(Opcodes) /\ <<"join", "detach">> \in Seq(Opcodes)
    /\ <<"detach">> \in Seq(Opcodes)
BY DEF Opcodes

(* fork ... join, join_any and join_none *)
LEMMA ForkTyped ==
    ASSUME TypeOK, NEW n \in 1..2, Fork(n)
    PROVE  TypeOK'
<1>1. later' = later /\ waiters' = waiters /\ n \in Nat
  BY DEF Fork
<1>2. PICK cs \in New(n), scope \in ForkScopes(n) :
          \/ /\ JoinStatement("join")
             /\ Continue(Forked(Now, cs, scope, [i \in 1..n |-> "join"]))
          \/ /\ JoinStatement("join_any")
             /\ Continue(Forked(Now, cs, scope, IF n = 1 THEN <<"join">> ELSE <<"join", "detach">>))
          \/ /\ Statement("join_none")
             /\ Continue(Forked(Now, cs, scope, <<"detach">>))
  BY DEF Fork
<1>3. PICK kind \in {"join", "join_any", "join_none"}, pc \in Seq(Opcodes) : Statement(kind) /\ Continue(Forked(Now, cs, scope, pc))
  <2>1. (IF n = 1 THEN <<"join">> ELSE <<"join", "detach">>) \in Seq(Opcodes)
    BY AfterFork
  <2>2. JoinStatement("join") => Statement("join")
    BY DEF JoinStatement
  <2>3. JoinStatement("join_any") => Statement("join_any")
    BY DEF JoinStatement
  <2>4. [i \in 1..n |-> "join"] \in Seq(Opcodes) /\ <<"detach">> \in Seq(Opcodes)
    BY <1>1, AfterFork
  <2>5. CASE Statement("join") /\ Continue(Forked(Now, cs, scope, [i \in 1..n |-> "join"]))
    BY <2>4, <2>5, Zenon
  <2>6. CASE /\ Statement("join_any")
             /\ Continue(Forked(Now, cs, scope, IF n = 1 THEN <<"join">> ELSE <<"join", "detach">>))
    BY <2>1, <2>6, Zenon
  <2>7. CASE Statement("join_none") /\ Continue(Forked(Now, cs, scope, <<"detach">>))
    BY <2>4, <2>7, Zenon
  <2> QED
    BY <1>2, <2>2, <2>3, <2>5, <2>6, <2>7, Zenon
<1>4. self \in Thread /\ stmts' \in 0..MaxStmts
  BY <1>3, StatementIs, Zenon
<1>5. scope \in Scope
  <2>1. thread[self].scope \in Scope
    BY <1>4 DEF TypeOK, ThreadRecord
  <2> QED
    BY <1>2, <2>1, Scopes DEF ForkScopes
<1>6. Forked(Now, cs, scope, pc) \in State
  BY <1>1, <1>3, <1>4, <1>5, ForkingTyped, Zenon
<1> QED
  BY <1>1, <1>3, <1>4, <1>6, Kept, Continued, Zenon

(* a named block *)
LEMMA BlockTyped ==
    ASSUME TypeOK, Block
    PROVE  TypeOK'
<1>1. JoinStatement("block") /\ later' = later /\ waiters' = waiters
  BY DEF Block
<1>2. self \in Thread /\ stmts' \in 0..MaxStmts
  BY <1>1, StatementIs, Zenon DEF JoinStatement
<1>3. PICK cs \in New(1), b \in Blocks : Continue(Forked(Now, cs, b, <<"join">>))
  BY DEF Block
<1>4. b \in Scope /\ 1 \in Nat
  BY Scopes
<1>5. Forked(Now, cs, b, <<"join">>) \in State
  BY <1>2, <1>4, AfterFork, ForkingTyped, Zenon
<1> QED
  BY <1>1, <1>2, <1>3, <1>5, Kept, Continued, Zenon

(* a task call *)
LEMMA CallTaskTyped ==
    ASSUME TypeOK, CallTask
    PROVE  TypeOK'
<1>1. JoinStatement("task") /\ later' = later /\ waiters' = waiters
  BY DEF CallTask
<1>2. self \in Thread /\ stmts' \in 0..MaxStmts
  BY <1>1, StatementIs, Zenon DEF JoinStatement
<1>3. PICK cs \in New(1), t \in Tasks : Continue(Forked(Now, cs, t, <<"join">>))
  BY DEF CallTask
<1>4. t \in Scope /\ 1 \in Nat
  BY Scopes
<1>5. Forked(Now, cs, t, <<"join">>) \in State
  BY <1>2, <1>4, AfterFork, ForkingTyped, Zenon
<1> QED
  BY <1>1, <1>2, <1>3, <1>5, Kept, Continued, Zenon

(* a function call *)
LEMMA CallFunctionTyped ==
    ASSUME TypeOK, CallFunction
    PROVE  TypeOK'
<1>1. JoinStatement("function") /\ later' = later /\ waiters' = waiters
  BY DEF CallFunction
<1>2. self \in Thread /\ stmts' \in 0..MaxStmts
  BY <1>1, StatementIs, Zenon DEF JoinStatement
<1>3. PICK cs \in New(1), f \in Functions :
          /\ Become(Forked(Now, cs, f, <<"join">>))
          /\ stack' = <<[thr |-> cs[1], rest |-> <<>>]>> \o stack
  BY DEF CallFunction
<1>4. f \in Scope /\ 1 \in Nat
  BY Scopes
<1>5. Forked(Now, cs, f, <<"join">>) \in State
  BY <1>2, <1>4, AfterFork, ForkingTyped, Zenon
<1>6. /\ thread' \in [Thread -> ThreadRecord] /\ active' \in Seq(Seq(Thread) \ {<<>>})
      /\ failed' \subseteq Asserting
  BY <1>3, <1>5, BecomeTyped
<1>7. stack' \in Seq(Frame)
  <2>1. cs[1] \in Thread
    BY DEF New, Unused
  <2>2. [thr |-> cs[1], rest |-> <<>>] \in Frame
    BY <2>1 DEF Frame
  <2>3. stack \in Seq(Frame)
    BY DEF TypeOK, Frame
  <2> HIDE DEF Frame
  <2> QED
    BY <1>3, <2>2, <2>3
<1>8. later' \in Seq(Thread) /\ waiters' \in [Events -> Seq(Thread)]
  BY <1>1, Kept
<1> QED
  BY <1>2, <1>6, <1>7, <1>8 DEF TypeOK, Frame

(* %disable *)
LEMMA DisableTyped ==
    ASSUME TypeOK, NEW s, Disable(s)
    PROVE  TypeOK'
<1> DEFINE r == DisableScope(Now, s)
<1>1. /\ Statement("disable") /\ later' = later /\ waiters' = waiters
      /\ Continue(r) \/ Pause(r)
  BY DEF Disable
<1>2. stack # <<>> /\ stmts' \in 0..MaxStmts
  BY <1>1, StatementIs, Zenon
<1>3. r \in State
  BY NowTyped, DisableScopeTyped, Zenon
<1> HIDE DEF r
<1> QED
  BY <1>1, <1>2, <1>3, Kept, Continued, Paused, Zenon

(* %disable/fork *)
LEMMA DisableForkTyped ==
    ASSUME TypeOK, DisableFork
    PROVE  TypeOK'
<1>1. Statement("disable_fork")
  BY DEF DisableFork
<1>2. self \in Thread /\ stmts' \in 0..MaxStmts
  BY <1>1, StatementIs, Zenon
<1>3. /\ \E f : ForkLoop(f, ForkStart) /\ Continue(f[NThreads])
      /\ later' = later /\ waiters' = waiters
  BY <1>2, DisableForkIs, Zenon
<1>4. PICK f : ForkLoop(f, ForkStart) /\ Continue(f[NThreads])
  BY <1>3, Zenon
<1>5. f[NThreads] \in State
  BY <1>2, <1>4, ForkLoopTyped, Zenon
<1> QED
  BY <1>2, <1>3, <1>4, <1>5, Kept, Continued, Zenon

(* %wait/fork *)
LEMMA WaitForkTyped ==
    ASSUME TypeOK, WaitFork
    PROVE  TypeOK'
<1> DEFINE holds == ~thread[self].joining /\ ~thread[self].waiting /\ thread[self].children = {}
           r == Check(Now, "of_WAIT_FORK", holds)
           x == [r.thread[self] EXCEPT !.waiting = TRUE]
           s == [r EXCEPT !.thread = [r.thread EXCEPT ![self] = x]]
<1>1. /\ Statement("wait_fork") /\ later' = later /\ waiters' = waiters
      /\ Continue(r) \/ Pause([r EXCEPT !.thread[self].waiting = TRUE])
  BY DEF WaitFork
<1>2. stack # <<>> /\ self \in Thread /\ stmts' \in 0..MaxStmts
  BY <1>1, StatementIs, Zenon
<1>3. r \in State
  <2>1. Now \in State /\ thread[self] \in ThreadRecord
    BY <1>2, NowTyped, ThreadsOf
  <2>2. holds \in BOOLEAN /\ "of_WAIT_FORK" \in Asserting
    BY <2>1 DEF ThreadRecord, Asserting
  <2> HIDE DEF holds
  <2> QED
    BY <2>1, <2>2, CheckIs, Zenon
<1>4. s = [r EXCEPT !.thread[self].waiting = TRUE]
  OBVIOUS
<1> HIDE DEF r
<1>5. s \in State
  <2>1. r.thread[self] \in ThreadRecord
    BY <1>2, <1>3, ThreadsOf
  <2>2. x \in ThreadRecord
    BY <1>2, <2>1, FlagTyped, OneList, Zenon
  <2> HIDE DEF x
  <2>3. IsSet(r, self, x, s)
    BY <1>2, <1>3, <2>2, SetIs, Zenon
  <2> QED
    BY <2>3 DEF IsSet
<1>6. Continue(r) \/ Pause(s)
  BY <1>1, <1>4
<1> HIDE DEF s
<1> QED
  BY <1>1, <1>2, <1>3, <1>5, <1>6, Kept, Continued, Paused, Zenon

(* One opcode is taken off the statement. *)
LEMMA NextOpcode ==
    ASSUME TypeOK, NEW op, Opcode(op), NEW function \in Asserting, NEW holds \in BOOLEAN
    PROVE  LET r == Check([Now EXCEPT !.thread[self].pc = Tail(@)], function, holds)
           IN  r \in State
<1> DEFINE x == [Now.thread[self] EXCEPT !.pc = Tail(@)]
           q == [Now EXCEPT !.thread = [Now.thread EXCEPT ![self] = x]]
<1>1. self \in Thread /\ thread[self].pc # <<>>
  BY OpcodeIs DEF Opcode
<1>2. Now \in State /\ Now.thread[self] \in ThreadRecord /\ Now.thread = thread
  BY <1>1, NowTyped, ThreadsOf
<1>3. x \in ThreadRecord
  <2>1. Tail(thread[self].pc) \in Seq(Opcodes)
    BY <1>1, <1>2 DEF ThreadRecord
  <2> QED
    BY <1>2, <2>1 DEF ThreadRecord
<1>4. q = [Now EXCEPT !.thread[self].pc = Tail(@)]
  OBVIOUS
<1> HIDE DEF x
<1>5. IsSet(Now, self, x, q)
  BY <1>1, <1>2, <1>3, SetIs, Zenon
<1>6. q \in State
  BY <1>5 DEF IsSet
<1> HIDE DEF q
<1> QED
  BY <1>4, <1>6, CheckIs

(* %join *)
LEMMA JoinTyped ==
    ASSUME TypeOK, Join
    PROVE  TypeOK'
<1> DEFINE over == {c \in Over(thread[self].children) : Joinable(thread, self, c)}
           holds == ~thread[self].joining /\ thread[self].children # {}
           r == Check([Now EXCEPT !.thread[self].pc = Tail(@)], "of_JOIN", holds)
           x == [r.thread[self] EXCEPT !.joining = TRUE]
           s == [r EXCEPT !.thread = [r.thread EXCEPT ![self] = x]]
<1>1. /\ Opcode("join") /\ later' = later /\ waiters' = waiters /\ stmts' = stmts
      /\ over # {} => Continue(DoJoin(r, self, Min(over)))
      /\ over = {} => Pause([r EXCEPT !.thread[self].joining = TRUE])
  BY DEF Join
<1>2. stack # <<>> /\ self \in Thread
  BY <1>1, OpcodeIs, Zenon
<1>3. thread[self] \in ThreadRecord
  BY <1>2, NowTyped, ThreadsOf
<1>4. over \in SUBSET Thread
  BY <1>3 DEF ThreadRecord, Over
<1>5. r \in State
  <2>1. holds \in BOOLEAN /\ "of_JOIN" \in Asserting
    BY <1>3 DEF ThreadRecord, Asserting
  <2> HIDE DEF holds
  <2> QED
    BY <1>1, <2>1, NextOpcode, Zenon
<1>6. s = [r EXCEPT !.thread[self].joining = TRUE]
  OBVIOUS
<1> HIDE DEF r, over
<1>7. CASE over # {}
  <2>1. Min(over) \in Thread
    BY <1>4, <1>7, MinIn
  <2>2. PICK q : IsUnlisted(r, self, Min(over), q) /\ DoJoin(r, self, Min(over)) = Reap(q, {Min(over)})
    BY <1>2, <1>5, <2>1, DoJoinIs, Zenon
  <2>3. q \in State /\ {Min(over)} \in SUBSET Thread
    BY <2>1, <2>2 DEF IsUnlisted
  <2>4. IsReaped(q, {Min(over)}, Reap(q, {Min(over)}))
    BY <2>3, ReapIs, Zenon
  <2>5. DoJoin(r, self, Min(over)) \in State
    BY <2>2, <2>4 DEF IsReaped
  <2> QED
    BY <1>1, <1>7, <2>5, Kept, Continued, Zenon
<1>8. CASE over = {}
  <2>1. r.thread[self] \in ThreadRecord
    BY <1>2, <1>5, ThreadsOf
  <2>2. x \in ThreadRecord
    BY <1>2, <2>1, FlagTyped, OneList, Zenon
  <2> HIDE DEF x
  <2>3. IsSet(r, self, x, s)
    BY <1>2, <1>5, <2>2, SetIs, Zenon
  <2>4. s \in State
    BY <2>3 DEF IsSet
  <2>5. Pause(s)
    BY <1>1, <1>6, <1>8
  <2> HIDE DEF s
  <2> QED
    BY <1>1, <1>2, <2>4, <2>5, Kept, Paused, Zenon
<1> QED
  BY <1>7, <1>8

(* %join/detach *)
LEMMA JoinDetachTyped ==
    ASSUME TypeOK, JoinDetach
    PROVE  TypeOK'
<1> DEFINE me == thread[self]
           over == Over(me.children)
           holds == me.taskFunc = {} /\ \A c \in me.children : thread[c].parent = self
           r == Check([Now EXCEPT !.thread[self].pc = Tail(@)], "of_JOIN_DETACH", holds)
           q == Reap(r, over)
           kids == me.children \ over
           s == Detached(q, kids)
<1>1. /\ Opcode("detach") /\ later' = later /\ waiters' = waiters /\ stmts' = stmts
      /\ Continue(s)
  BY DEF JoinDetach
<1>2. stack # <<>> /\ self \in Thread
  BY <1>1, OpcodeIs, Zenon
<1>3. me \in ThreadRecord
  BY <1>2, NowTyped, ThreadsOf
<1>4. over \in SUBSET Thread /\ kids \in SUBSET Thread
  BY <1>3 DEF ThreadRecord, Over
<1>5. r \in State
  <2>1. holds \in BOOLEAN /\ "of_JOIN_DETACH" \in Asserting
    BY DEF Asserting
  <2> HIDE DEF holds
  <2> QED
    BY <1>1, <2>1, NextOpcode, Zenon
<1> HIDE DEF r, over, kids
<1>6. IsReaped(r, over, q)
  BY <1>4, <1>5, ReapIs, Zenon
<1>7. q \in State
  BY <1>6 DEF IsReaped
<1> HIDE DEF q
<1>8. IsDetached(q, kids, s)
  BY <1>2, <1>4, <1>7, DetachedIs, Zenon
<1>9. s \in State
  BY <1>8 DEF IsDetached
<1> HIDE DEF s
<1> QED
  BY <1>1, <1>9, Kept, Continued, Zenon

(* %end *)
LEMMA EndTyped ==
    ASSUME TypeOK, End
    PROVE  TypeOK'
<1> DEFINE r == Ended(Now)
           parent == thread[self].parent
<1>1. /\ stack # <<>> /\ later' = later /\ waiters' = waiters /\ stmts' = stmts
      /\ parent = Nobody => Pause(Reap(r, {self}))
      /\ parent # Nobody =>
            Pause(EndsJoin(r, parent)) \/ Pause(EndsDetached(r, parent)) \/ Pause(r)
  BY DEF End, Running
<1>2. self \in Thread /\ Now \in State
  BY <1>1, Caller, NowTyped
<1>3. IsEnded(Now, r)
  BY <1>2, EndedIs, Zenon
<1>4. r \in State
  BY <1>3 DEF IsEnded
<1>5. parent \in Thread \cup {Nobody}
  <2>1. thread[self] \in ThreadRecord
    BY <1>2, NowTyped, ThreadsOf
  <2> QED
    BY <2>1 DEF ThreadRecord
<1> HIDE DEF r, parent
<1>6. PICK s \in State : Pause(s)
  <2>1. CASE parent = Nobody
    <3>1. {self} \in SUBSET Thread
      BY <1>2
    <3>2. IsReaped(r, {self}, Reap(r, {self}))
      BY <1>4, <3>1, ReapIs, Zenon
    <3>3. Reap(r, {self}) \in State
      BY <3>2 DEF IsReaped
    <3> QED
      BY <1>1, <2>1, <3>3, Zenon
  <2>2. CASE parent # Nobody
    <3>1. parent \in Thread
      BY <1>5, <2>2
    <3>2. EndsJoin(r, parent) \in State /\ EndsDetached(r, parent) \in State
      BY <1>2, <1>4, <3>1, EndsJoinTyped, EndsDetachedTyped, Zenon
    <3> QED
      BY <1>1, <1>4, <2>2, <3>2, Zenon
  <2> QED
    BY <2>1, <2>2
<1> QED
  BY <1>1, <1>6, Kept, Paused, Zenon

(* of_ZOMBIE *)
LEMMA ZombieTyped ==
    ASSUME TypeOK, Zombie
    PROVE  TypeOK'
<1> DEFINE s == [Now EXCEPT !.thread = [Now.thread EXCEPT ![self] = Deleted]]
<1>1. /\ Opcode("zombie") /\ later' = later /\ waiters' = waiters /\ stmts' = stmts
      /\ Pause(s) \/ Pause(Now)
  <2>1. s = [Now EXCEPT !.thread[self] = Deleted]
    OBVIOUS
  <2> HIDE DEF s
  <2> QED
    BY <2>1 DEF Zombie
<1>2. stack # <<>> /\ self \in Thread
  BY <1>1, OpcodeIs, Zenon
<1>3. Now \in State
  BY NowTyped
<1>4. IsSet(Now, self, Deleted, s)
  BY <1>2, <1>3, DeletedTyped, SetIs, Zenon
<1>5. s \in State
  BY <1>4 DEF IsSet
<1> HIDE DEF s
<1> QED
  BY <1>1, <1>2, <1>3, <1>5, Kept, Paused, Zenon

(* the next active event *)
LEMMA RunEventTyped ==
    ASSUME TypeOK, RunEvent
    PROVE  TypeOK'
<1> DEFINE list == Head(active)
           q == [Now EXCEPT !.active = Tail(@)]
           s == Started(q, Head(list))
<1>1. /\ active # <<>> /\ later' = later /\ waiters' = waiters /\ stmts' = stmts
      /\ Become(s) /\ stack' = <<[thr |-> Head(list), rest |-> Tail(list)]>>
  BY DEF RunEvent
<1>2. active \in Seq(List)
  BY DEF TypeOK, List
<1>3. list \in List /\ Tail(active) \in Seq(List)
  <2> HIDE DEF list
  <2> QED
    BY <1>1, <1>2 DEF list
<1>4. Head(list) \in Thread /\ Tail(list) \in Seq(Thread)
  <2> HIDE DEF list
  <2> QED
    BY <1>3 DEF List
<1>5. q \in State
  BY <1>3, NowTyped DEF State, Now, List
<1> HIDE DEF q, list
<1>6. IsStarted(q, Head(list), s)
  BY <1>4, <1>5, StartedIs, Zenon
<1>7. s \in State
  BY <1>6 DEF IsStarted
<1>8. /\ thread' \in [Thread -> ThreadRecord] /\ active' \in Seq(Seq(Thread) \ {<<>>})
      /\ failed' \subseteq Asserting
  BY <1>1, <1>7, BecomeTyped
<1>9. stack' \in Seq(Frame)
  <2>1. [thr |-> Head(list), rest |-> Tail(list)] \in Frame
    BY <1>4 DEF Frame
  <2> HIDE DEF Frame
  <2> QED
    BY <1>1, <2>1
<1> QED
  BY <1>1, <1>8, <1>9, Kept DEF TypeOK, Frame

(* the next time step *)
LEMMA NextTimeTyped ==
    ASSUME TypeOK, NextTime
    PROVE  TypeOK'
<1>1. PICK due \in SUBSET ToSet(later) \ {{}} :
          /\ active' = [i \in DOMAIN Those(later, due) |-> <<Those(later, due)[i]>>]
          /\ later' = Those(later, Thread \ due)
  BY DEF NextTime
<1>2. UNCHANGED <<thread, waiters, stack, stmts, failed>>
  BY DEF NextTime
<1>3. later \in Seq(Thread)
  BY DEF TypeOK
<1>4. Those(later, due) \in Seq(Thread) /\ Those(later, Thread \ due) \in Seq(Thread)
  BY <1>3, ThoseTyped, Zenon
<1>5. active' \in Seq(List)
  <2> DEFINE first == Those(later, due)
  <2>1. first \in Seq(Thread)
    BY <1>4
  <2> HIDE DEF first
  <2>2. \A i \in 1..Len(first) : <<first[i]>> \in List
    BY <2>1, OneList
  <2>3. active' = [i \in 1..Len(first) |-> <<first[i]>>]
    BY <1>1, <2>1 DEF first
  <2> QED
    BY <2>1, <2>2, <2>3
<1> QED
  BY <1>1, <1>2, <1>4, <1>5 DEF TypeOK, List

(* What is in the initial state has its type. *)
LEMMA InitTyped == Init => TypeOK
<1> SUFFICES ASSUME Init PROVE TypeOK
  OBVIOUS
<1>1. thread \in [Thread -> ThreadRecord]
  <2>1. Module \in Scope /\ Nobody \in Thread \cup {Nobody}
    BY Scopes
  <2>2. NewThread(Module, Nobody) \in ThreadRecord
    BY <2>1, NewTyped, Zenon
  <2>3. [NewThread(Module, Nobody) EXCEPT !.scheduled = TRUE] \in ThreadRecord
    BY <2>2, FlagTyped, OneList
  <2> QED
    BY <2>3, DeletedTyped DEF Init
<1>2. active \in Seq(List)
  <2>1. \A p \in 1..NProcs : p \in Thread
    BY ThreadAssumption DEF Thread
  <2>2. \A p \in 1..NProcs : <<p>> \in List
    BY <2>1, OneList
  <2>3. NProcs \in Nat
    BY ThreadAssumption
  <2> QED
    BY <2>2, <2>3 DEF Init
<1>3. /\ later = <<>> /\ waiters = [e \in Events |-> <<>>] /\ stack = <<>> /\ stmts = 0
      /\ failed = {} /\ 0 \in 0..MaxStmts
  BY ThreadAssumption DEF Init
<1> QED
  BY <1>1, <1>2, <1>3 DEF TypeOK, List

(* No step of any thread or of the scheduler breaks the type invariant. *)
LEMMA StepTyped == TypeOK /\ [Next]_vars => TypeOK'
<1> SUFFICES ASSUME TypeOK, [Next]_vars PROVE TypeOK'
  OBVIOUS
<1>1. CASE UNCHANGED vars
  BY <1>1 DEF TypeOK, vars
<1>2. CASE Delay
  BY <1>2, DelayTyped
<1>3. CASE \E e \in Events : Wait(e) \/ Event(e)
  BY <1>3, WaitTyped, EventTyped
<1>4. CASE \E n \in 1..2 : Fork(n)
  BY <1>4, ForkTyped
<1>5. CASE Block \/ CallTask \/ CallFunction
  BY <1>5, BlockTyped, CallTaskTyped, CallFunctionTyped
<1>6. CASE \E s \in Disablable : Disable(s)
  BY <1>6, DisableTyped
<1>7. CASE DisableFork \/ WaitFork
  BY <1>7, DisableForkTyped, WaitForkTyped
<1>8. CASE Join \/ JoinDetach
  BY <1>8, JoinTyped, JoinDetachTyped
<1>9. CASE End \/ Zombie
  BY <1>9, EndTyped, ZombieTyped
<1>10. CASE RunEvent \/ NextTime
  BY <1>10, RunEventTyped, NextTimeTyped
<1>11. CASE Finished
  BY <1>1, <1>11 DEF Finished
<1> QED
  BY <1>1, <1>2, <1>3, <1>4, <1>5, <1>6, <1>7, <1>8, <1>9, <1>10, <1>11 DEF Next

(* The threads, the lists and the calls have their types in every state, and    *)
(* "failed" names only assertions the code has, whatever statements the program *)
(* executes and however many threads there are                                  *)
(* (vthread.cc, every opcode of the model).                                     *)
THEOREM ThreadsTyped == Spec => []TypeOK
<1>1. Init => TypeOK
  BY InitTyped
<1>2. TypeOK /\ [Next]_vars => TypeOK'
  BY StepTyped
<1> QED
  BY <1>1, <1>2, PTL DEF Spec

--------------------------------------------------------------------------------
(* Programs without the uses of threads that go wrong: no %join beside detached *)
(* children (the assertion in of_END on a detached child of a joining parent),  *)
(* no %disable of a task (do_disable leaves it in task_func_children), and      *)
(* detached children only without tasks (the assertion in of_JOIN_DETACH on     *)
(* threads of a task) and without %disable (do_disable wakes no %wait/fork).    *)
Detaching == Statements \cap {"join_any", "join_none"} # {}
Regular ==
    /\ ~JoinsBesideDetached /\ Disablable \subseteq Blocks
    /\ Detaching => Tasks = {} /\ "disable" \notin Statements

--------------------------------------------------------------------------------
(* The inductive invariant, about threads T, lists A of active events, the      *)
(* threads X on other lists, the waiting lists W and the stack K                *)

Going(x) == x.live /\ ~x.ended

(* what is left of a statement *)
PcShapes == {<<>>, <<"join">>, <<"join", "join">>, <<"join", "detach">>, <<"detach">>, Null}
Detaches(pc) == pc \in {<<"join", "detach">>, <<"detach">>}
Joins(pc) == IF pc = <<"join", "join">> THEN 2
             ELSE IF pc \in {<<"join">>, <<"join", "detach">>} THEN 1 ELSE 0
ToJoin(x) == Joins(x.pc) + (IF x.joining THEN 1 ELSE 0)

(* each thread by itself *)
FieldsOf(x) ==
    /\ x.pc \in PcShapes
    /\ ~x.live => x = Deleted
    /\ x.live => (x.ended <=> x.pc = Null)
    /\ x.ended => x.children = {} /\ ~x.joining
    /\ x.ended /\ x.parent # Nobody => x.detached = {}
    /\ x.ended /\ x.inScope => x.parent # Nobody
    /\ ~Detaching => x.detached = {} /\ ~x.isDetached /\ ~Detaches(x.pc)
Fields(T) == \A t \in Thread : FieldsOf(T[t])

(* parents and children *)
Tree(T) ==
    /\ \A t \in Thread : T[t].parent # Nobody =>
          /\ Going(T[T[t].parent])
          /\ t \in IF T[t].isDetached THEN T[T[t].parent].detached ELSE T[T[t].parent].children
    /\ \A t \in Thread : \A c \in T[t].children :
          T[c].live /\ T[c].parent = t /\ ~T[c].isDetached
    /\ \A t \in Thread : Going(T[t]) => \A c \in T[t].detached :
          T[c].live /\ T[c].parent = t /\ T[c].isDetached /\ ~T[c].ended

(* no thread is below itself *)
Rooted(T) == \A S \in SUBSET Thread : S # {} => \E t \in S : T[t].parent \notin S

(* what a function starts belongs to the function *)
Families(T) ==
    \A t \in Thread : \A c \in T[t].children : InFunction(T[t].scope) => InFunction(T[c].scope)

(* the children are those the statement still has to join or detach *)
KidsOf(T, t) ==
    /\ IF Detaches(T[t].pc)
       THEN ToJoin(T[t]) < Cardinality(T[t].children) /\ T[t].taskFunc = {}
       ELSE ToJoin(T[t]) = Cardinality(T[t].children)
    /\ T[t].taskFunc = {} \/ T[t].taskFunc = T[t].children
    /\ \A c \in T[t].taskFunc : T[c].scope \in Tasks \cup Functions
    /\ ToJoin(T[t]) > 0 => T[t].detached = {}
    /\ T[t].joining => \A c \in T[t].children : ~T[c].ended
    /\ T[t].waiting => T[t].detached # {}
Kids(T) == \A t \in Thread : Going(T[t]) => KidsOf(T, t)

(* a thread is in one place, given whether it runs *)
PlaceOf(x, running) ==
    x.live =>
        /\ ~(running /\ x.scheduled) /\ ~(running /\ x.onEvent) /\ ~(x.scheduled /\ x.onEvent)
        /\ ~x.ended =>
              /\ running \/ x.scheduled \/ x.onEvent \/ x.joining \/ x.waiting
              /\ x.joining => ~(running \/ x.scheduled \/ x.onEvent \/ x.waiting)
              /\ x.waiting => ~(running \/ x.scheduled \/ x.onEvent)
Placed(T, R) == \A t \in Thread : PlaceOf(T[t], t \in R)

(* what is over is joined by its parent or deleted by the list it is on *)
RemainsOf(x) == x.live /\ x.ended /\ x.parent = Nobody => x.scheduled \/ x.onEvent
Remain(T, Z) == \A t \in Thread \ Z : RemainsOf(T[t])

(* the lists and is_scheduled; the waiting lists and waiting_for_event *)
Queues(T, A, X) ==
    /\ Distinct(A) /\ Members(A) \cap X = {}
    /\ Members(A) \cup X = {t \in Thread : T[t].scheduled}
EventLists(T, W) == Distinct(W) /\ Members(W) = {t \in Thread : T[t].onEvent}

(* a function that was called and its caller *)
Called(T, K) ==
    LET f == K[1].thr
        c == K[2].thr
    IN  /\ K[1].rest = <<>> /\ f # c
        /\ Going(T[f]) /\ T[f].scope \in Functions
        /\ Going(T[c]) /\ T[c].pc = <<"join">> /\ T[c].children = {f} /\ ~InFunction(T[c].scope)
Calls(T, K) ==
    /\ Len(K) =< 2 /\ \A i \in DOMAIN K : T[K[i].thr].live
    /\ Len(K) = 2 => Called(T, K)

Whole(T) == Fields(T) /\ Tree(T) /\ Rooted(T) /\ Families(T)

Others == ToSet(later) \cup Members(Rests)

IInv ==
    /\ failed = {}
    /\ Whole(thread) /\ Kids(thread)
    /\ Placed(thread, OnStack) /\ Remain(thread, OnStack)
    /\ Queues(thread, active, Others) /\ EventLists(thread, waiters)
    /\ Calls(thread, stack)
    /\ IsInjective(later) /\ Distinct(Rests) /\ Members(Rests) \cap ToSet(later) = {}

--------------------------------------------------------------------------------
(* Threads that go: the threads D are reaped, the threads E end and stay for    *)
(* their parents, and the others lose sight of D.                               *)

Gone(x, y) ==
    \/ ~Held(x) /\ y = Deleted
    \/ /\ Held(x) /\ y.live /\ y.ended /\ y.pc = Null /\ y.parent = Nobody
       /\ y.children = {} /\ ~y.joining /\ ~y.inScope /\ y.scope = x.scope
       /\ y.detached \subseteq x.detached /\ (y.isDetached => x.isDetached)
       /\ (y.scheduled <=> x.scheduled) /\ (y.onEvent <=> x.onEvent)

Ends(x, y) ==
    /\ y.live /\ y.ended /\ y.pc = Null /\ y.parent = x.parent
    /\ y.children = {} /\ y.detached = {} /\ ~y.joining /\ y.scope = x.scope
    /\ (y.isDetached <=> x.isDetached) /\ (y.inScope => x.inScope)
    /\ (y.scheduled <=> x.scheduled) /\ (y.onEvent <=> x.onEvent)

Stays(x, y, D, C) ==
    /\ (y.live <=> x.live) /\ y.scope = x.scope /\ (y.inScope <=> x.inScope)
    /\ (y.ended <=> x.ended)
    /\ y.children = x.children \ D /\ y.detached \subseteq x.detached
    /\ Going(x) => y.detached = x.detached \ D
    /\ y.parent = IF x.isDetached /\ x.parent \in C THEN Nobody ELSE x.parent
    /\ y.isDetached <=> x.isDetached /\ x.parent \notin C
    /\ y.pc \in PcShapes /\ (y.pc = Null <=> x.pc = Null) /\ (Detaches(y.pc) => Detaches(x.pc))
    /\ x.ended => (y.joining <=> x.joining)
    /\ ~x.live => y = x

Cut(T, T2, D, E) ==
    /\ \A t \in D : Gone(T[t], T2[t])
    /\ \A t \in E : Ends(T[t], T2[t])
    /\ \A t \in Thread \ (D \cup E) : Stays(T[t], T2[t], D, D \cup E)

(* A thread that goes takes its children with it. *)
MayCut(T, D, E) ==
    /\ D \subseteq Thread /\ E \subseteq Thread
    /\ \A t \in D \cup E : T[t].live /\ T[t].children \subseteq D
    /\ \A t \in E : t \notin D /\ T[t].parent # Nobody /\ ~T[t].isDetached

(* Tables of threads *)
Table == [Thread -> ThreadRecord]

(* What a thread is made of *)
LEMMA Record ==
    ASSUME NEW T \in Table, NEW t \in Thread
    PROVE  /\ T[t] \in ThreadRecord
           /\ T[t].live \in BOOLEAN /\ T[t].inScope \in BOOLEAN /\ T[t].ended \in BOOLEAN
           /\ T[t].isDetached \in BOOLEAN /\ T[t].joining \in BOOLEAN /\ T[t].waiting \in BOOLEAN
           /\ T[t].scheduled \in BOOLEAN /\ T[t].onEvent \in BOOLEAN
           /\ T[t].parent \in Thread \cup {Nobody} /\ T[t].children \subseteq Thread
           /\ T[t].detached \subseteq Thread /\ T[t].taskFunc \subseteq Thread
           /\ T[t].scope \in Scope /\ T[t].pc \in Seq(Opcodes)
BY DEF Table, ThreadRecord

(* A parent goes on; a detached child does, too. *)
LEMMA ParentIs ==
    ASSUME NEW T \in Table, Tree(T), NEW t \in Thread, T[t].parent # Nobody
    PROVE  /\ T[t].parent \in Thread /\ Going(T[T[t].parent]) /\ T[t].live
           /\ T[t].isDetached => t \in T[T[t].parent].detached /\ ~T[t].ended
           /\ ~T[t].isDetached => t \in T[T[t].parent].children
<1>1. T[t].parent \in Thread
  BY Record
<1>2. Going(T[T[t].parent])
  BY DEF Tree
<1>3. CASE T[t].isDetached
  <2>1. t \in T[T[t].parent].detached
    BY <1>3 DEF Tree
  <2> QED
    BY <1>1, <1>2, <1>3, <2>1 DEF Tree
<1>4. CASE ~T[t].isDetached
  <2>1. t \in T[T[t].parent].children
    BY <1>4 DEF Tree
  <2> QED
    BY <1>1, <1>2, <1>4, <2>1 DEF Tree
<1> QED
  BY <1>3, <1>4

(* A thread that has gone *)
LEMMA GoneFields ==
    ASSUME NEW x \in ThreadRecord, NEW y \in ThreadRecord, FieldsOf(x), Gone(x, y)
    PROVE  FieldsOf(y)
<1>1. Null \in PcShapes /\ ~Detaches(Null)
  BY DEF PcShapes, Detaches, Null
<1>2. FieldsOf(Deleted)
  BY DeletedTyped DEF FieldsOf, PcShapes, Null, Detaches
<1>3. CASE y = Deleted
  BY <1>2, <1>3
<1>4. CASE y # Deleted
  BY <1>1, <1>4 DEF Gone, FieldsOf
<1> QED
  BY <1>3, <1>4

(* A thread that has ended and stays for its parent *)
LEMMA EndsFields ==
    ASSUME NEW x \in ThreadRecord, NEW y \in ThreadRecord, FieldsOf(x), Ends(x, y),
           x.parent # Nobody, ~x.isDetached
    PROVE  FieldsOf(y)
<1>1. Null \in PcShapes /\ ~Detaches(Null)
  BY DEF PcShapes, Detaches, Null
<1> QED
  BY <1>1 DEF Ends, FieldsOf

(* A thread that stays *)
LEMMA StaysFields ==
    ASSUME NEW x \in ThreadRecord, NEW y \in ThreadRecord, FieldsOf(x), NEW D, NEW C,
           Stays(x, y, D, C), x.parent # Nobody /\ x.isDetached => ~x.ended
    PROVE  FieldsOf(y)
<1>1. CASE ~x.live
  BY <1>1 DEF Stays
<1>2. CASE x.live
  BY <1>2 DEF Stays, FieldsOf, Going
<1> QED
  BY <1>1, <1>2

(* Each thread by itself stays as it should be. *)
LEMMA CutFields ==
    ASSUME NEW T \in Table, NEW T2 \in Table, NEW D, NEW E,
           Fields(T), Tree(T), MayCut(T, D, E), Cut(T, T2, D, E)
    PROVE  Fields(T2)
<1> SUFFICES ASSUME NEW t \in Thread PROVE FieldsOf(T2[t])
  BY DEF Fields
<1>1. FieldsOf(T[t]) /\ T[t] \in ThreadRecord /\ T2[t] \in ThreadRecord
  BY Record DEF Fields
<1>2. CASE t \in D
  BY <1>1, <1>2, GoneFields DEF Cut
<1>3. CASE t \in E
  BY <1>1, <1>3, EndsFields DEF Cut, MayCut
<1>4. CASE t \notin D \cup E
  <2>1. T[t].parent # Nobody /\ T[t].isDetached => ~T[t].ended
    BY ParentIs
  <2>2. Stays(T[t], T2[t], D, D \cup E)
    BY <1>4 DEF Cut
  <2> QED
    BY <1>1, <2>1, <2>2, StaysFields, Zenon
<1> QED
  BY <1>2, <1>3, <1>4

(* A parent that stays, and nobody else, keeps its children. *)
LEMMA CutParent ==
    ASSUME NEW T \in Table, NEW T2 \in Table, NEW D, NEW E,
           Tree(T), MayCut(T, D, E), Cut(T, T2, D, E), NEW t \in Thread
    PROVE  /\ T2[t].parent = Nobody \/ T2[t].parent = T[t].parent
           /\ T2[t].parent # Nobody =>
                 /\ t \notin D /\ T[t].parent \in Thread \ (D \cup E)
                 /\ (T2[t].isDetached <=> T[t].isDetached)
           /\ t \notin D /\ ~T[t].isDetached => T2[t].parent = T[t].parent
<1> DEFINE x == T[t]
           y == T2[t]
<1>1. /\ x.parent \in Thread \cup {Nobody} /\ x.isDetached \in BOOLEAN
      /\ y.isDetached \in BOOLEAN
  BY Record
<1>2. x.parent # Nobody /\ ~x.isDetached /\ x.parent \in D \cup E => t \in D
  BY ParentIs DEF MayCut
<1>3. CASE t \in D
  BY <1>3, DeletedTyped DEF Cut, Gone
<1>4. CASE t \in E
  BY <1>1, <1>2, <1>4 DEF Cut, Ends, MayCut
<1>5. CASE t \notin D \cup E
  <2>1. Stays(x, y, D, D \cup E)
    BY <1>5 DEF Cut
  <2> QED
    BY <1>1, <1>2, <1>5, <2>1 DEF Stays
<1> QED
  BY <1>3, <1>4, <1>5

(* When threads go, parents and children still agree. *)
LEMMA CutTree ==
    ASSUME NEW T \in Table, NEW T2 \in Table, NEW D, NEW E,
           Fields(T), Tree(T), MayCut(T, D, E), Cut(T, T2, D, E)
    PROVE  Tree(T2)
<1>1. ASSUME NEW t \in Thread, T2[t].parent # Nobody
      PROVE  /\ Going(T2[T2[t].parent])
             /\ t \in IF T2[t].isDetached THEN T2[T2[t].parent].detached ELSE T2[T2[t].parent].children
  <2> DEFINE p == T[t].parent
  <2>1. /\ T2[t].parent = p /\ t \notin D /\ p \in Thread \ (D \cup E)
        /\ (T2[t].isDetached <=> T[t].isDetached) /\ p # Nobody
    BY <1>1, CutParent
  <2>2. /\ Going(T[p])
        /\ T[t].isDetached => t \in T[p].detached
        /\ ~T[t].isDetached => t \in T[p].children
    BY <2>1, ParentIs
  <2>3. Stays(T[p], T2[p], D, D \cup E)
    BY <2>1 DEF Cut
  <2> HIDE DEF p
  <2> QED
    BY <2>1, <2>2, <2>3 DEF Stays, Going
<1>2. ASSUME NEW t \in Thread, NEW c \in T2[t].children
      PROVE  T2[c].live /\ T2[c].parent = t /\ ~T2[c].isDetached
  <2>1. t \notin D \cup E
    BY <1>2, DeletedTyped DEF Cut, Gone, Ends
  <2>2. Stays(T[t], T2[t], D, D \cup E)
    BY <2>1 DEF Cut
  <2>3. c \in T[t].children /\ c \notin D /\ c \in Thread
    BY <1>2, <2>2, Record DEF Stays
  <2>4. T[c].live /\ T[c].parent = t /\ ~T[c].isDetached
    BY <2>3 DEF Tree
  <2>5. T2[c].parent = t
    BY <2>3, <2>4, CutParent
  <2>6. CASE c \in E
    BY <2>4, <2>5, <2>6 DEF Cut, Ends
  <2>7. CASE c \notin E
    BY <2>3, <2>4, <2>5, <2>7 DEF Cut, Stays
  <2> QED
    BY <2>6, <2>7
<1>3. ASSUME NEW t \in Thread, Going(T2[t]), NEW c \in T2[t].detached
      PROVE  T2[c].live /\ T2[c].parent = t /\ T2[c].isDetached /\ ~T2[c].ended
  <2>1. t \notin D \cup E
    BY <1>3, DeletedTyped DEF Cut, Gone, Ends, Going
  <2>2. Stays(T[t], T2[t], D, D \cup E)
    BY <2>1 DEF Cut
  <2>3. Going(T[t]) /\ c \in T[t].detached /\ c \notin D /\ c \in Thread
    BY <1>3, <2>2, Record DEF Stays, Going
  <2>4. T[c].live /\ T[c].parent = t /\ T[c].isDetached /\ ~T[c].ended
    BY <2>3 DEF Tree
  <2>5. c \notin E
    BY <2>4 DEF MayCut
  <2>6. Stays(T[c], T2[c], D, D \cup E)
    BY <2>3, <2>5 DEF Cut
  <2> QED
    BY <2>1, <2>4, <2>6 DEF Stays
<1> QED
  BY <1>1, <1>2, <1>3 DEF Tree

(* Links that go do not make a thread its own descendant. *)
LEMMA CutRooted ==
    ASSUME NEW T \in Table, NEW T2 \in Table, Rooted(T),
           \A t \in Thread : T2[t].parent = Nobody \/ T2[t].parent = T[t].parent
    PROVE  Rooted(T2)
<1> SUFFICES ASSUME NEW S \in SUBSET Thread, S # {} PROVE \E t \in S : T2[t].parent \notin S
  BY DEF Rooted
<1>1. PICK t \in S : T[t].parent \notin S
  BY DEF Rooted
<1> QED
  BY <1>1, Addresses

(* When threads go, a function still has only threads of its own. *)
LEMMA CutFamilies ==
    ASSUME NEW T \in Table, NEW T2 \in Table, NEW D, NEW E,
           Families(T), MayCut(T, D, E), Cut(T, T2, D, E)
    PROVE  Families(T2)
<1> SUFFICES ASSUME NEW t \in Thread, NEW c \in T2[t].children, InFunction(T2[t].scope)
             PROVE  InFunction(T2[c].scope)
  BY DEF Families
<1>1. t \notin D \cup E
  BY DeletedTyped DEF Cut, Gone, Ends
<1>2. Stays(T[t], T2[t], D, D \cup E)
  BY <1>1 DEF Cut
<1>3. c \in T[t].children /\ c \notin D /\ c \in Thread /\ T2[t].scope = T[t].scope
  BY <1>2, Record DEF Stays
<1>4. InFunction(T[c].scope)
  BY <1>3 DEF Families
<1>5. T2[c].scope = T[c].scope
  BY <1>3 DEF Cut, Ends, Stays
<1> QED
  BY <1>4, <1>5

(* The threads left are as they should be. *)
LEMMA CutWhole ==
    ASSUME NEW T \in Table, NEW T2 \in Table, NEW D, NEW E,
           Whole(T), MayCut(T, D, E), Cut(T, T2, D, E)
    PROVE  Whole(T2)
<1>1. Fields(T) /\ Tree(T) /\ Rooted(T) /\ Families(T)
  BY DEF Whole
<1>2. \A t \in Thread : T2[t].parent = Nobody \/ T2[t].parent = T[t].parent
  BY <1>1, CutParent
<1>3. Fields(T2)
  BY <1>1, CutFields
<1>4. Tree(T2)
  BY <1>1, CutTree
<1>5. Rooted(T2) /\ Families(T2)
  BY <1>1, <1>2, CutRooted, CutFamilies
<1> QED
  BY <1>3, <1>4, <1>5 DEF Whole

--------------------------------------------------------------------------------
(* What else becomes of the threads that stay: all but those in P stay where    *)
(* they are in their statements and on the lists.                               *)

Same(x, y) ==
    /\ (y.scheduled <=> x.scheduled) /\ (y.joining <=> x.joining)
    /\ (y.waiting <=> x.waiting) /\ (y.onEvent <=> x.onEvent) /\ y.pc = x.pc
    /\ y.taskFunc = x.taskFunc

Unmoved(T, T2, D, E, P) == \A t \in Thread \ (D \cup E \cup P) : Same(T[t], T2[t])

(* the parents of the threads that go are among those that go or in P *)
Knows(T, D, E, P) == \A c \in D \cup E : T[c].parent \in D \cup E \cup P \cup {Nobody}

(* A parent of none of the threads that go keeps its children. *)
LEMMA CutKidsOf ==
    ASSUME NEW T \in Table, NEW T2 \in Table, NEW D, NEW E, NEW P,
           Tree(T), Cut(T, T2, D, E), Knows(T, D, E, P), Unmoved(T, T2, D, E, P),
           NEW t \in Thread \ (D \cup E \cup P), Going(T[t]), KidsOf(T, t), t # Nobody
    PROVE  KidsOf(T2, t)
<1>1. Stays(T[t], T2[t], D, D \cup E) /\ Same(T[t], T2[t])
  BY DEF Cut, Unmoved
<1>2. \A c \in T[t].children \cup T[t].detached : c \in Thread /\ c \notin D \cup E
  <2> SUFFICES ASSUME NEW c \in T[t].children \cup T[t].detached
               PROVE  c \in Thread /\ c \notin D \cup E
    OBVIOUS
  <2>1. c \in Thread /\ T[c].parent = t
    BY Record DEF Tree
  <2> QED
    BY <2>1 DEF Knows
<1>3. T[t].taskFunc \subseteq T[t].children
  BY DEF KidsOf
<1>4. /\ T2[t].children = T[t].children /\ T2[t].detached = T[t].detached
      /\ T2[t].taskFunc = T[t].taskFunc /\ T2[t].pc = T[t].pc
      /\ (T2[t].joining <=> T[t].joining) /\ (T2[t].waiting <=> T[t].waiting)
  BY <1>1, <1>2, <1>3 DEF Stays, Same
<1>5. \A c \in T[t].children : T2[c].scope = T[c].scope /\ (T2[c].ended <=> T[c].ended)
  BY <1>2 DEF Cut, Stays
<1>6. ToJoin(T2[t]) = ToJoin(T[t])
  BY <1>4 DEF ToJoin
<1> QED
  BY <1>3, <1>4, <1>5, <1>6 DEF KidsOf

(* When threads go, the joins of the others still match their children. *)
LEMMA CutKids ==
    ASSUME NEW T \in Table, NEW T2 \in Table, NEW D, NEW E, NEW P,
           Tree(T), Kids(T), Cut(T, T2, D, E), Knows(T, D, E, P), Unmoved(T, T2, D, E, P),
           \A p \in P : Going(T2[p]) => KidsOf(T2, p)
    PROVE  Kids(T2)
<1> SUFFICES ASSUME NEW t \in Thread, Going(T2[t]) PROVE KidsOf(T2, t)
  BY DEF Kids
<1>1. t \notin D \cup E /\ t # Nobody
  BY DeletedTyped, Addresses DEF Cut, Gone, Ends, Going
<1>2. CASE t \in P
  BY <1>2
<1>3. CASE t \notin P
  <2>1. Going(T[t]) /\ KidsOf(T, t)
    BY <1>1 DEF Cut, Stays, Going, Kids
  <2> QED
    BY <1>1, <1>3, <2>1, CutKidsOf
<1> QED
  BY <1>2, <1>3

(* The places of the threads *)
LEMMA CutPlaced ==
    ASSUME NEW T \in Table, NEW T2 \in Table, NEW D, NEW E, NEW P, NEW R, NEW R2,
           Placed(T, R), MayCut(T, D, E), Cut(T, T2, D, E), Unmoved(T, T2, D, E, P),
           \A t \in Thread \ P : t \in R2 => t \in R,
           \A t \in Thread \ (D \cup E \cup P) : t \in R => t \in R2,
           \A p \in P : PlaceOf(T2[p], p \in R2)
    PROVE  Placed(T2, R2)
<1> SUFFICES ASSUME NEW t \in Thread PROVE PlaceOf(T2[t], t \in R2)
  BY DEF Placed
<1> DEFINE x == T[t]
           y == T2[t]
<1>1. PlaceOf(x, t \in R) /\ x \in ThreadRecord /\ y \in ThreadRecord
  BY Record DEF Placed
<1>2. CASE t \in D
  <2>1. Gone(x, y) /\ x.live
    BY <1>2 DEF Cut, MayCut
  <2> QED
    BY <1>1, <2>1, DeletedTyped DEF Gone, PlaceOf, Held
<1>3. CASE t \in E
  <2>1. Ends(x, y) /\ x.live
    BY <1>3 DEF Cut, MayCut
  <2> QED
    BY <1>1, <2>1 DEF Ends, PlaceOf
<1>4. CASE t \in P
  BY <1>4
<1>5. CASE t \notin D \cup E \cup P
  <2>1. Stays(x, y, D, D \cup E) /\ Same(x, y) /\ (t \in R2 <=> t \in R)
    BY <1>5 DEF Cut, Unmoved
  <2> QED
    BY <1>1, <2>1 DEF Stays, Same, PlaceOf
<1> QED
  BY <1>2, <1>3, <1>4, <1>5

(* What is over is still to be joined or deleted. *)
LEMMA CutRemain ==
    ASSUME NEW T \in Table, NEW T2 \in Table, NEW D, NEW E, NEW P, NEW Z, NEW Z2,
           Tree(T), Remain(T, Z), MayCut(T, D, E), Cut(T, T2, D, E), Unmoved(T, T2, D, E, P),
           Z \subseteq Z2 \cup D \cup E,
           \A p \in P \ Z2 : T[p].scheduled \/ T[p].onEvent => T2[p].scheduled \/ T2[p].onEvent
    PROVE  Remain(T2, Z2)
<1> SUFFICES ASSUME NEW t \in Thread \ Z2 PROVE RemainsOf(T2[t])
  BY DEF Remain
<1>1. CASE t \in D
  BY <1>1, DeletedTyped DEF Cut, Gone, RemainsOf, Held
<1>2. CASE t \in E
  BY <1>2 DEF Cut, Ends, RemainsOf, MayCut
<1>3. CASE t \notin D \cup E
  <2>1. RemainsOf(T[t]) /\ Stays(T[t], T2[t], D, D \cup E)
    BY <1>3 DEF Remain, Cut
  <2>2. T[t].scheduled \/ T[t].onEvent => T2[t].scheduled \/ T2[t].onEvent
    BY <1>3 DEF Unmoved, Same
  <2>3. T[t].parent # Nobody /\ T[t].isDetached => ~T[t].ended
    BY ParentIs
  <2> QED
    BY <2>1, <2>2, <2>3 DEF RemainsOf, Stays
<1> QED
  BY <1>1, <1>2, <1>3

(* is_scheduled and waiting_for_event *)
FlagsStay(T, T2, P) ==
    \A t \in Thread \ P : (T2[t].onEvent <=> T[t].onEvent) /\ (T2[t].scheduled <=> T[t].scheduled)

(* They change for the threads in P only. *)
LEMMA CutFlags ==
    ASSUME NEW T \in Table, NEW T2 \in Table, NEW D, NEW E, NEW P,
           Cut(T, T2, D, E), Unmoved(T, T2, D, E, P)
    PROVE  FlagsStay(T, T2, P)
<1> SUFFICES ASSUME NEW t \in Thread \ P
             PROVE  (T2[t].onEvent <=> T[t].onEvent) /\ (T2[t].scheduled <=> T[t].scheduled)
  BY Zenon DEF FlagsStay
<1>1. CASE t \in D
  BY <1>1, DeletedTyped DEF Cut, Gone, Held
<1>2. CASE t \in E
  BY <1>2 DEF Cut, Ends
<1>3. CASE t \notin D \cup E
  BY <1>3 DEF Cut, Stays, Unmoved, Same
<1> QED
  BY <1>1, <1>2, <1>3

--------------------------------------------------------------------------------
(* Lists of lists without repetition                                            *)

(* A list goes behind the others. *)
LEMMA ListAppended ==
    ASSUME NEW A \in Seq(Seq(Thread)), NEW l \in Seq(Thread), Distinct(A), IsInjective(l),
           Members(A) \cap ToSet(l) = {}
    PROVE  /\ Distinct(Append(A, l)) /\ Members(Append(A, l)) = Members(A) \cup ToSet(l)
<1> DEFINE B == Append(A, l)
           n == Len(A)
<1>1. /\ n \in Nat /\ DOMAIN A = 1..n /\ DOMAIN B = 1..(n + 1)
      /\ \A i \in 1..n : B[i] = A[i]
      /\ B[n + 1] = l
  OBVIOUS
<1>2. \A i \in 1..n : ToSet(A[i]) \subseteq Members(A) /\ IsInjective(A[i])
  BY <1>1 DEF Members, Distinct
<1>3. \A i \in 1..(n + 1) : i \in 1..n \/ i = n + 1
  BY <1>1
<1> HIDE DEF B, n
<1>4. Members(B) = Members(A) \cup ToSet(l)
  <2>1. 1..(n + 1) = 1..n \cup {n + 1}
    BY <1>1
  <2>2. Members(B) = UNION {ToSet(B[i]) : i \in 1..(n + 1)} /\ Members(A) = UNION {ToSet(A[i]) : i \in 1..n}
    BY <1>1 DEF Members
  <2> QED
    BY <1>1, <2>1, <2>2
<1>5. Distinct(B)
  <2> SUFFICES ASSUME NEW i \in 1..(n + 1), NEW j \in 1..(n + 1)
               PROVE  IsInjective(B[i]) /\ (i # j => ToSet(B[i]) \cap ToSet(B[j]) = {})
    BY <1>1 DEF Distinct
  <2>1. CASE i \in 1..n /\ j \in 1..n
    BY <1>1, <2>1 DEF Distinct
  <2>2. CASE i = n + 1 \/ j = n + 1
    BY <1>1, <1>2, <1>3, <2>2
  <2> QED
    BY <1>3, <2>1, <2>2
<1> QED
  BY <1>4, <1>5 DEF B

(* A list goes in front of the others. *)
LEMMA ListPushed ==
    ASSUME NEW A \in Seq(Seq(Thread)), NEW l \in Seq(Thread), Distinct(A), IsInjective(l),
           Members(A) \cap ToSet(l) = {}
    PROVE  /\ Distinct(<<l>> \o A) /\ Members(<<l>> \o A) = Members(A) \cup ToSet(l)
<1> DEFINE B == <<l>> \o A
           n == Len(A)
<1>1. /\ n \in Nat /\ DOMAIN A = 1..n /\ DOMAIN B = 1..(n + 1)
      /\ \A i \in 1..n : B[i + 1] = A[i]
      /\ B[1] = l
  OBVIOUS
<1>2. \A i \in 1..n : ToSet(A[i]) \subseteq Members(A) /\ IsInjective(A[i])
  BY <1>1 DEF Members, Distinct
<1>3. \A i \in 1..(n + 1) : i = 1 \/ (i - 1 \in 1..n /\ i = (i - 1) + 1)
  BY <1>1
<1> HIDE DEF B, n
<1>4. Members(B) = Members(A) \cup ToSet(l)
  <2>1. Members(B) = UNION {ToSet(B[i]) : i \in 1..(n + 1)} /\ Members(A) = UNION {ToSet(A[i]) : i \in 1..n}
    BY <1>1 DEF Members
  <2>2. ASSUME NEW x \in Members(B) PROVE x \in Members(A) \cup ToSet(l)
    <3>1. PICK i \in 1..(n + 1) : x \in ToSet(B[i])
      BY <2>1
    <3> QED
      BY <1>1, <1>2, <1>3, <3>1
  <2>3. ASSUME NEW x \in Members(A) PROVE x \in Members(B)
    <3>1. PICK i \in 1..n : x \in ToSet(A[i])
      BY <2>1
    <3>2. i + 1 \in 1..(n + 1) /\ B[i + 1] = A[i]
      BY <1>1
    <3> QED
      BY <2>1, <3>1, <3>2
  <2>4. ToSet(l) \subseteq Members(B)
    <3>1. 1 \in 1..(n + 1)
      BY <1>1
    <3> QED
      BY <1>1, <2>1, <3>1
  <2> QED
    BY <2>2, <2>3, <2>4
<1>5. Distinct(B)
  <2> SUFFICES ASSUME NEW i \in 1..(n + 1), NEW j \in 1..(n + 1)
               PROVE  IsInjective(B[i]) /\ (i # j => ToSet(B[i]) \cap ToSet(B[j]) = {})
    BY <1>1 DEF Distinct
  <2>1. CASE i # 1 /\ j # 1
    <3>1. i - 1 \in 1..n /\ j - 1 \in 1..n /\ (i # j => i - 1 # j - 1)
      BY <1>3, <2>1
    <3>2. B[i] = A[i - 1] /\ B[j] = A[j - 1]
      BY <1>1, <1>3, <2>1, <3>1
    <3>3. \A g, k \in 1..n : IsInjective(A[g]) /\ (g # k => ToSet(A[g]) \cap ToSet(A[k]) = {})
      BY <1>1 DEF Distinct
    <3>4. IsInjective(A[i - 1]) /\ (i # j => ToSet(A[i - 1]) \cap ToSet(A[j - 1]) = {})
      BY <3>1, <3>3
    <3> QED
      BY <3>2, <3>4
  <2>2. CASE i = 1 \/ j = 1
    BY <1>1, <1>2, <1>3, <2>2
  <2> QED
    BY <2>1, <2>2
<1> QED
  BY <1>4, <1>5 DEF B

(* The first list is taken. *)
LEMMA ListTaken ==
    ASSUME NEW A \in Seq(Seq(Thread)), A # <<>>, Distinct(A)
    PROVE  /\ Head(A) \in Seq(Thread) /\ Tail(A) \in Seq(Seq(Thread)) /\ Distinct(Tail(A))
           /\ IsInjective(Head(A)) /\ ToSet(Head(A)) \subseteq Members(A)
           /\ Members(Tail(A)) = Members(A) \ ToSet(Head(A))
<1> DEFINE B == Tail(A)
           n == Len(A)
<1>1. /\ n \in Nat /\ n > 0 /\ DOMAIN A = 1..n /\ DOMAIN B = 1..(n - 1)
      /\ \A i \in 1..(n - 1) : B[i] = A[i + 1]
      /\ Head(A) = A[1] /\ B \in Seq(Seq(Thread)) /\ Head(A) \in Seq(Thread)
  OBVIOUS
<1>2. \A i \in 1..n : IsInjective(A[i]) /\ \A j \in 1..n : i # j => ToSet(A[i]) \cap ToSet(A[j]) = {}
  BY <1>1 DEF Distinct
<1>3. \A i \in 1..n : i = 1 \/ (i - 1 \in 1..(n - 1) /\ i = (i - 1) + 1)
  BY <1>1
<1>4. \A i \in 1..(n - 1) : i + 1 \in 1..n /\ i + 1 # 1
  BY <1>1
<1>5. Members(A) = UNION {ToSet(A[i]) : i \in 1..n} /\ Members(B) = UNION {ToSet(B[i]) : i \in 1..(n - 1)}
  BY <1>1 DEF Members
<1>6. 1 \in 1..n
  BY <1>1
<1> HIDE DEF B, n
<1>7. Members(B) = Members(A) \ ToSet(A[1])
  <2>1. ASSUME NEW x \in Members(B) PROVE x \in Members(A) \ ToSet(A[1])
    <3>1. PICK i \in 1..(n - 1) : x \in ToSet(B[i])
      BY <1>5
    <3> QED
      BY <1>1, <1>2, <1>4, <1>5, <1>6, <3>1
  <2>2. ASSUME NEW x \in Members(A) \ ToSet(A[1]) PROVE x \in Members(B)
    <3>1. PICK i \in 1..n : x \in ToSet(A[i])
      BY <1>5
    <3>2. i # 1
      BY <3>1
    <3>3. i - 1 \in 1..(n - 1) /\ B[i - 1] = A[i]
      BY <1>1, <1>3, <3>2
    <3> QED
      BY <1>5, <3>1, <3>3
  <2> QED
    BY <2>1, <2>2
<1>8. Distinct(B)
  <2> SUFFICES ASSUME NEW i \in 1..(n - 1), NEW j \in 1..(n - 1)
               PROVE  IsInjective(B[i]) /\ (i # j => ToSet(B[i]) \cap ToSet(B[j]) = {})
    BY <1>1 DEF Distinct
  <2>1. i + 1 \in 1..n /\ j + 1 \in 1..n /\ (i # j => i + 1 # j + 1)
    BY <1>1
  <2> QED
    BY <1>1, <1>2, <2>1
<1> QED
  BY <1>1, <1>2, <1>5, <1>6, <1>7, <1>8 DEF B

(* A list of one *)
LEMMA ListOfOne ==
    ASSUME NEW t \in Thread
    PROVE  <<t>> \in Seq(Thread) /\ IsInjective(<<t>>) /\ ToSet(<<t>>) = {t}
BY DEF IsInjective, ToSet

--------------------------------------------------------------------------------
(* What holds while an opcode is at work: R are the threads that run, Z those   *)
(* that run their last opcode                                                   *)

Sound(T, A, L, W, R, Z) ==
    /\ T \in Table /\ A \in Seq(List) /\ L \in Seq(Thread)
    /\ Whole(T) /\ Kids(T) /\ Placed(T, R) /\ Remain(T, Z)
    /\ Queues(T, A, ToSet(L) \cup Members(Rests)) /\ EventLists(T, W)
    /\ IsInjective(L) /\ Members(Rests) \cap ToSet(L) = {}

(* Lists of threads are lists. *)
LEMMA ListsAreLists == \A A \in Seq(List) : A \in Seq(Seq(Thread))
<1>1. List \subseteq Seq(Thread)
  BY DEF List
<1> QED
  BY <1>1

(* A list of threads gets scheduled, behind or in front of the others. *)
LEMMA QueuesGrow ==
    ASSUME NEW T \in Table, NEW T2 \in Table, NEW A \in Seq(List), NEW X, NEW l \in List,
           Queues(T, A, X), IsInjective(l), \A t \in ToSet(l) : ~T[t].scheduled,
           \A t \in Thread : T2[t].scheduled <=> T[t].scheduled \/ t \in ToSet(l)
    PROVE  Queues(T2, Append(A, l), X) /\ Queues(T2, <<l>> \o A, X)
<1>1. A \in Seq(Seq(Thread)) /\ l \in Seq(Thread)
  BY ListsAreLists DEF List
<1>2. ToSet(l) \subseteq Thread
  BY <1>1, EmptyList
<1>3. Members(A) \cap ToSet(l) = {} /\ X \cap ToSet(l) = {} /\ Distinct(A)
  BY <1>2 DEF Queues
<1>4. /\ Distinct(Append(A, l)) /\ Members(Append(A, l)) = Members(A) \cup ToSet(l)
      /\ Distinct(<<l>> \o A) /\ Members(<<l>> \o A) = Members(A) \cup ToSet(l)
  BY <1>1, <1>3, ListAppended, ListPushed
<1>5. {t \in Thread : T2[t].scheduled} = {t \in Thread : T[t].scheduled} \cup ToSet(l)
  BY <1>2
<1> QED
  BY <1>3, <1>4, <1>5 DEF Queues

(* When threads go, what holds still does, but for the lists of events. *)
SoundCut(T, T2, D, E, P, R, R2, Z, Z2) ==
    /\ T2 \in Table /\ MayCut(T, D, E) /\ Cut(T, T2, D, E)
    /\ Knows(T, D, E, P) /\ Unmoved(T, T2, D, E, P)
    /\ \A t \in Thread \ P : t \in R2 => t \in R
    /\ \A t \in Thread \ (D \cup E \cup P) : t \in R => t \in R2
    /\ Z \subseteq Z2 \cup D \cup E
    /\ \A p \in P : Going(T2[p]) => KidsOf(T2, p)
    /\ \A p \in P : PlaceOf(T2[p], p \in R2)
    /\ \A p \in P \ Z2 : T[p].scheduled \/ T[p].onEvent => T2[p].scheduled \/ T2[p].onEvent

CutDone(T, T2, P, R2, Z2) ==
    /\ Whole(T2) /\ Kids(T2) /\ Placed(T2, R2) /\ Remain(T2, Z2) /\ T2 \in Table
    /\ FlagsStay(T, T2, P)

(* The threads left agree with each other. *)
LEMMA CutThreads ==
    ASSUME NEW T, NEW T2, NEW A, NEW L, NEW W, NEW R, NEW Z, NEW D, NEW E, NEW P, NEW R2, NEW Z2,
           Sound(T, A, L, W, R, Z), SoundCut(T, T2, D, E, P, R, R2, Z, Z2)
    PROVE  CutDone(T, T2, P, R2, Z2)
<1>1. /\ T \in Table /\ T2 \in Table /\ Whole(T) /\ Kids(T) /\ Placed(T, R) /\ Remain(T, Z)
      /\ Tree(T)
  BY DEF Sound, SoundCut, Whole
<1>2. Whole(T2)
  BY <1>1, CutWhole, Zenon DEF SoundCut
<1>3. Kids(T2)
  BY <1>1, CutKids, Zenon DEF SoundCut
<1>4. Placed(T2, R2)
  BY <1>1, CutPlaced, Zenon DEF SoundCut
<1>5. Remain(T2, Z2)
  BY <1>1, CutRemain, Zenon DEF SoundCut
<1>6. FlagsStay(T, T2, P)
  BY <1>1, CutFlags, Zenon DEF SoundCut
<1> QED
  BY <1>1, <1>2, <1>3, <1>4, <1>5, <1>6, Zenon DEF CutDone

(* The waiting lists stay if waiting_for_event does. *)
LEMMA EventsStay ==
    ASSUME NEW T, NEW T2, NEW W, EventLists(T, W), \A t \in Thread : T2[t].onEvent <=> T[t].onEvent
    PROVE  EventLists(T2, W)
<1>1. {t \in Thread : T2[t].onEvent} = {t \in Thread : T[t].onEvent}
  OBVIOUS
<1> QED
  BY <1>1 DEF EventLists

(* The event lists stay if is_scheduled does. *)
LEMMA QueuesStay ==
    ASSUME NEW T, NEW T2, NEW A, NEW X, Queues(T, A, X),
           \A t \in Thread : T2[t].scheduled <=> T[t].scheduled
    PROVE  Queues(T2, A, X)
<1>1. {t \in Thread : T2[t].scheduled} = {t \in Thread : T[t].scheduled}
  OBVIOUS
<1> QED
  BY <1>1 DEF Queues

(* No thread is scheduled. *)
LEMMA CutSound ==
    ASSUME NEW T, NEW T2, NEW A, NEW L, NEW W, NEW R, NEW Z, NEW D, NEW E, NEW P, NEW R2, NEW Z2,
           Sound(T, A, L, W, R, Z), SoundCut(T, T2, D, E, P, R, R2, Z, Z2),
           \A p \in P : (T2[p].scheduled <=> T[p].scheduled) /\ (T2[p].onEvent <=> T[p].onEvent)
    PROVE  Sound(T2, A, L, W, R2, Z2)
<1> DEFINE X == ToSet(L) \cup Members(Rests)
<1>1. CutDone(T, T2, P, R2, Z2)
  BY CutThreads, Zenon
<1>2. /\ \A t \in Thread : T2[t].scheduled <=> T[t].scheduled
      /\ \A t \in Thread : T2[t].onEvent <=> T[t].onEvent
  BY <1>1 DEF CutDone, FlagsStay
<1>3. EventLists(T, W) /\ Queues(T, A, X)
  BY DEF Sound
<1> HIDE DEF X
<1>4. EventLists(T2, W)
  BY <1>2, <1>3, EventsStay, Zenon
<1>5. Queues(T2, A, X)
  BY <1>2, <1>3, QueuesStay, Zenon
<1> QED
  BY <1>1, <1>4, <1>5, Zenon DEF Sound, CutDone, X

(* A list of one thread in front of the others or behind them *)
LEMMA OnePushed ==
    ASSUME NEW p \in Thread, NEW A \in Seq(List)
    PROVE  <<<<p>>>> \o A \in Seq(List) /\ Append(A, <<p>>) \in Seq(List)
<1> DEFINE l == <<p>>
<1>1. l \in List
  BY OneList
<1> HIDE DEF l
<1>2. <<l>> \o A \in Seq(List) /\ Append(A, l) \in Seq(List)
  BY <1>1
<1> QED
  BY <1>2 DEF l

(* One thread is, in front of the others or behind them. *)
LEMMA CutWoken ==
    ASSUME NEW T, NEW T2, NEW A, NEW L, NEW W, NEW R, NEW Z, NEW D, NEW E, NEW p \in Thread, NEW R2, NEW Z2,
           Sound(T, A, L, W, R, Z), SoundCut(T, T2, D, E, {p}, R, R2, Z, Z2),
           ~T[p].scheduled, T2[p].scheduled, T2[p].onEvent <=> T[p].onEvent
    PROVE  Sound(T2, <<<<p>>>> \o A, L, W, R2, Z2) /\ Sound(T2, Append(A, <<p>>), L, W, R2, Z2)
<1> DEFINE l == <<p>>
           X == ToSet(L) \cup Members(Rests)
<1>1. CutDone(T, T2, {p}, R2, Z2)
  BY CutThreads, Zenon
<1>2. l \in List /\ IsInjective(l) /\ ToSet(l) = {p}
  BY ListOfOne, OneList
<1>3. T \in Table /\ T2 \in Table /\ A \in Seq(List) /\ Queues(T, A, X) /\ EventLists(T, W)
  BY <1>1 DEF Sound, CutDone
<1> HIDE DEF l, X
<1>4. /\ \A t \in Thread : T2[t].scheduled <=> T[t].scheduled \/ t \in ToSet(l)
      /\ \A t \in Thread : T2[t].onEvent <=> T[t].onEvent
      /\ \A t \in ToSet(l) : ~T[t].scheduled
  BY <1>1, <1>2 DEF CutDone, FlagsStay
<1>5. Queues(T2, <<l>> \o A, X) /\ Queues(T2, Append(A, l), X)
  BY <1>2, <1>3, <1>4, QueuesGrow, Zenon
<1>6. EventLists(T2, W)
  BY <1>3, <1>4, EventsStay, Zenon
<1>7. <<l>> \o A \in Seq(List) /\ Append(A, l) \in Seq(List)
  BY <1>3, OnePushed DEF l
<1> QED
  BY <1>1, <1>5, <1>6, <1>7, Zenon DEF Sound, CutDone, l, X

--------------------------------------------------------------------------------
(* Opcodes begin and end                                                        *)

RunOn(K) == {K[i].thr : i \in DOMAIN K}
RestsOf(K) == [i \in DOMAIN K |-> K[i].rest]

(* Stacks of no frame, of one and of two *)
LEMMA Frames ==
    ASSUME NEW K \in Seq(Frame)
    PROVE  /\ K = <<>> => RunOn(K) = {} /\ Distinct(RestsOf(K)) /\ Members(RestsOf(K)) = {}
           /\ Len(K) = 1 => /\ RunOn(K) = {K[1].thr} /\ Members(RestsOf(K)) = ToSet(K[1].rest)
                            /\ Distinct(RestsOf(K)) <=> IsInjective(K[1].rest)
           /\ Len(K) = 2 => /\ RunOn(K) = {K[1].thr, K[2].thr}
                            /\ Members(RestsOf(K)) = ToSet(K[1].rest) \cup ToSet(K[2].rest)
                            /\ Distinct(RestsOf(K)) =>
                                  IsInjective(K[1].rest) /\ IsInjective(K[2].rest)
<1> DEFINE Q == RestsOf(K)
<1>1. DOMAIN Q = 1..Len(K) /\ \A i \in 1..Len(K) : Q[i] = K[i].rest
  BY DEF RestsOf
<1>2. RunOn(K) = {K[i].thr : i \in 1..Len(K)}
  BY DEF RunOn
<1> HIDE DEF Q
<1>3. Members(Q) = UNION {ToSet(Q[i]) : i \in 1..Len(K)}
  BY <1>1 DEF Members
<1>4. K = <<>> => 1..Len(K) = {}
  OBVIOUS
<1>5. Len(K) = 1 => 1..Len(K) = {1}
  OBVIOUS
<1>6. Len(K) = 2 => 1..Len(K) = {1, 2}
  OBVIOUS
<1>7. CASE K = <<>>
  BY <1>1, <1>2, <1>3, <1>4, <1>7 DEF Distinct, Q
<1>8. CASE Len(K) = 1
  <2>1. RunOn(K) = {K[1].thr} /\ Members(Q) = ToSet(K[1].rest) /\ DOMAIN Q = {1} /\ Q[1] = K[1].rest
    BY <1>1, <1>2, <1>3, <1>5, <1>8
  <2>2. Distinct(Q) <=> IsInjective(K[1].rest)
    BY <2>1 DEF Distinct
  <2>3. K # <<>> /\ Len(K) # 2
    BY <1>8
  <2> QED
    BY <1>8, <2>1, <2>2, <2>3 DEF Q
<1>9. CASE Len(K) = 2
  BY <1>1, <1>2, <1>3, <1>6, <1>9 DEF Distinct, Q
<1> QED
  BY <1>7, <1>8, <1>9

(* What is below the first frame *)
LEMMA TailIs ==
    ASSUME NEW S, NEW K \in Seq(S)
    PROVE  (Len(K) = 1 => Tail(K) = <<>>) /\ (Len(K) = 2 => Tail(K) = <<K[2]>>)
<1>1. K # <<>> => /\ Tail(K) \in Seq(S) /\ Len(Tail(K)) = Len(K) - 1
                  /\ \A i \in 1..(Len(K) - 1) : Tail(K)[i] = K[i + 1]
  OBVIOUS
<1>2. CASE Len(K) = 1
  <2>1. K # <<>> /\ Len(K) # 2
    BY <1>2
  <2>2. Tail(K) \in Seq(S) /\ Len(Tail(K)) = 0
    BY <1>1, <1>2, <2>1
  <2>3. Tail(K) = <<>>
    BY <2>2, EmptySeq, Zenon
  <2> QED
    BY <2>1, <2>3
<1>3. CASE Len(K) = 2
  <2> DEFINE u == Tail(K)
             w == <<K[2]>>
  <2>1. K # <<>> /\ Len(K) # 1 /\ K[2] \in S
    <3>1. 2 \in 1..Len(K) /\ Len(K) # 1 /\ Len(K) # 0
      BY <1>3
    <3> QED
      BY <3>1, ElementOfSeq, EmptySeq
  <2>2. u \in Seq(S) /\ Len(u) = 1 /\ u[1] = K[2]
    <3>1. u \in Seq(S) /\ Len(u) = Len(K) - 1 /\ \A i \in 1..(Len(K) - 1) : u[i] = K[i + 1]
      BY <1>1, <2>1
    <3>2. Len(K) - 1 = 1 /\ 1 \in 1..1 /\ 1 + 1 = 2
      BY <1>3
    <3> HIDE DEF u
    <3> QED
      BY <3>1, <3>2
  <2>3. w \in Seq(S) /\ Len(w) = 1 /\ w[1] = K[2]
    BY <2>1
  <2> HIDE DEF u, w
  <2>4. \A i \in 1..Len(u) : u[i] = w[i]
    BY <2>2, <2>3
  <2>5. u = w
    BY <2>2, <2>3, <2>4, SeqEqual
  <2> QED
    BY <2>1, <2>5 DEF u, w
<1>4. Len(K) \in Nat
  OBVIOUS
<1> QED
  BY <1>2, <1>3

(* What runs: a thread, or a function and its caller *)
caller == stack[2].thr

(* At most a function and its caller run. *)
LEMMA StackIs ==
    ASSUME TypeOK, IInv, stack # <<>>
    PROVE  /\ stack \in Seq(Frame) /\ self \in Thread /\ self \in OnStack /\ OnStack \subseteq Thread
           /\ thread[self].live /\ self = stack[1].thr
           /\ Len(stack) = 1 \/ Len(stack) = 2
           /\ Len(stack) = 1 =>
                 /\ OnStack = {self} /\ Tail(stack) = <<>>
                 /\ Members(Rests) = ToSet(Head(stack).rest) /\ IsInjective(Head(stack).rest)
           /\ Len(stack) = 2 =>
                 /\ OnStack = {self, caller} /\ caller # self /\ caller \in Thread
                 /\ Tail(stack) = <<stack[2]>> /\ Head(stack).rest = <<>> /\ stack[2].rest \in Seq(Thread)
                 /\ Members(Rests) = ToSet(stack[2].rest) /\ IsInjective(stack[2].rest)
                 /\ Called(thread, stack)
<1>1. stack \in Seq(Frame) /\ Len(stack) \in Nat /\ Len(stack) # 0 /\ Len(stack) =< 2
  <2>1. stack \in Seq(Frame)
    BY DEF TypeOK, Frame
  <2>2. Len(stack) \in Nat /\ Len(stack) # 0
    BY <2>1
  <2>3. Len(stack) =< 2
    BY DEF IInv, Calls
  <2> QED
    BY <2>1, <2>2, <2>3
<1>2. Len(stack) = 1 \/ Len(stack) = 2
  <2>1. Len(stack) \in Nat /\ Len(stack) # 0 /\ Len(stack) =< 2
    BY <1>1, Zenon
  <2>2. \A n \in Nat : n # 0 /\ n =< 2 => n = 1 \/ n = 2
    OBVIOUS
  <2> QED
    BY <2>1, <2>2, Zenon
<1>3. \A i \in 1..Len(stack) : stack[i].thr \in Thread /\ stack[i].rest \in Seq(Thread)
  <2>1. \A S : \A q \in Seq(S) : \A i \in 1..Len(q) : q[i] \in S
    BY ElementOfSeq, Zenon
  <2>2. \A i \in 1..Len(stack) : stack[i] \in Frame
    BY <1>1, <2>1, Zenon
  <2> QED
    BY <2>2 DEF Frame
<1>4. OnStack = RunOn(stack) /\ Rests = RestsOf(stack)
  BY DEF OnStack, Rests, RunOn, RestsOf
<1>5. Head(stack) = stack[1] /\ self = stack[1].thr /\ 1 \in 1..Len(stack)
  BY <1>1, <1>2 DEF self
<1>6. self \in Thread /\ thread[self].live
  BY <1>1, <1>3, <1>5 DEF IInv, Calls
<1>7. Distinct(Rests)
  BY DEF IInv
<1>8. CASE Len(stack) = 1
  <2>1. OnStack = {self} /\ Members(Rests) = ToSet(Head(stack).rest) /\ IsInjective(Head(stack).rest)
    BY <1>1, <1>4, <1>5, <1>7, <1>8, Frames
  <2>2. Tail(stack) = <<>>
    BY <1>1, <1>8, TailIs
  <2> QED
    BY <1>1, <1>5, <1>6, <1>8, <2>1, <2>2
<1>9. CASE Len(stack) = 2
  <2>1. Called(thread, stack)
    BY <1>9 DEF IInv, Calls
  <2>2. 2 \in 1..Len(stack)
    BY <1>9
  <2>3. caller # self /\ Head(stack).rest = <<>> /\ caller \in Thread /\ stack[2].rest \in Seq(Thread)
    BY <1>3, <1>5, <2>1, <2>2 DEF Called, caller
  <2>4. /\ OnStack = {self, caller} /\ IsInjective(stack[2].rest)
        /\ Members(Rests) = ToSet(stack[1].rest) \cup ToSet(stack[2].rest)
    BY <1>1, <1>4, <1>5, <1>7, <1>9, Frames DEF caller
  <2>5. ToSet(<<>>) = {}
    BY DEF ToSet
  <2>6. Members(Rests) = ToSet(stack[2].rest)
    BY <1>5, <2>3, <2>4, <2>5
  <2>7. Tail(stack) = <<stack[2]>>
    BY <1>1, <1>9, TailIs
  <2> QED
    BY <1>1, <1>5, <1>6, <1>9, <2>1, <2>3, <2>4, <2>6, <2>7
<1> QED
  BY <1>2, <1>8, <1>9

(* What holds when an opcode begins *)
LEMMA Begins ==
    ASSUME TypeOK, IInv, stack # <<>>
    PROVE  /\ Sound(thread, active, later, waiters, OnStack, {self})
           /\ Going(thread[self]) => Sound(thread, active, later, waiters, OnStack, {})
<1>1. /\ thread \in Table /\ active \in Seq(List) /\ later \in Seq(Thread)
      /\ Whole(thread) /\ Kids(thread) /\ Placed(thread, OnStack)
      /\ Queues(thread, active, ToSet(later) \cup Members(Rests)) /\ EventLists(thread, waiters)
      /\ IsInjective(later) /\ Members(Rests) \cap ToSet(later) = {}
  BY DEF TypeOK, IInv, Table, List, Others
<1>2. Remain(thread, {self})
  <2>1. CASE Len(stack) = 1
    BY <2>1, StackIs DEF IInv
  <2>2. CASE Len(stack) = 2
    <3>1. OnStack = {self, caller} /\ Going(thread[caller])
      BY <2>2, StackIs DEF Called, caller
    <3> QED
      BY <3>1 DEF IInv, Remain, RemainsOf, Going
  <2> QED
    BY <2>1, <2>2, StackIs
<1>3. Going(thread[self]) => Remain(thread, {})
  BY <1>2 DEF Remain, RemainsOf, Going
<1> QED
  BY <1>1, <1>2, <1>3 DEF Sound

(* An opcode that returns true leaves the invariant if what it did does. *)
LEMMA ContinueStep ==
    ASSUME TypeOK, IInv, stack # <<>>, NEW r \in State, r.failed = {}, Continue(r),
           Sound(r.thread, r.active, later', waiters', OnStack, {}), Calls(r.thread, stack)
    PROVE  IInv'
<1>1. /\ thread' = r.thread /\ active' = r.active /\ failed' = {} /\ stack' = stack
  BY DEF Continue, Become
<1>2. OnStack' = OnStack /\ Rests' = Rests
  BY <1>1 DEF OnStack, Rests
<1>3. Remain(thread', OnStack)
  BY <1>1 DEF Sound, Remain
<1>4. /\ Whole(thread') /\ Kids(thread') /\ Placed(thread', OnStack)
      /\ Queues(thread', active', ToSet(later') \cup Members(Rests)) /\ EventLists(thread', waiters')
      /\ IsInjective(later') /\ Members(Rests) \cap ToSet(later') = {}
  BY <1>1 DEF Sound
<1> QED
  BY <1>1, <1>2, <1>3, <1>4 DEF IInv, Others

(* One thread changes. *)
LEMMA SameStays ==
    ASSUME NEW x \in ThreadRecord, FieldsOf(x)
    PROVE  Stays(x, x, {}, {})
BY DEF Stays, FieldsOf, ThreadRecord

OneChanged(T, T2, p, y) ==
    /\ T2 \in Table /\ T2[p] = y /\ \A t \in Thread \ {p} : T2[t] = T[t]
    /\ MayCut(T, {}, {}) /\ Cut(T, T2, {}, {}) /\ Knows(T, {}, {}, {p}) /\ Unmoved(T, T2, {}, {}, {p})

(* A change of one thread alone takes no thread away. *)
LEMMA OneChanges ==
    ASSUME NEW T \in Table, NEW p \in Thread, NEW y \in ThreadRecord, Fields(T),
           Stays(T[p], y, {}, {})
    PROVE  OneChanged(T, [T EXCEPT ![p] = y], p, y)
<1> DEFINE T2 == [T EXCEPT ![p] = y]
<1>1. T2 \in Table /\ T2[p] = y /\ \A t \in Thread \ {p} : T2[t] = T[t]
  BY DEF Table
<1> HIDE DEF T2
<1>2. \A t \in Thread : Stays(T[t], T2[t], {}, {} \cup {})
  <2>1. ASSUME NEW t \in Thread PROVE Stays(T[t], T2[t], {}, {})
    <3>1. T[t] \in ThreadRecord /\ FieldsOf(T[t])
      BY Record DEF Fields
    <3>2. Stays(T[t], T[t], {}, {})
      BY <3>1, SameStays
    <3> QED
      BY <1>1, <3>2
  <2>2. {} \cup {} = {}
    OBVIOUS
  <2> QED
    BY <2>1, <2>2
<1>3. Cut(T, T2, {}, {})
  BY <1>2 DEF Cut
<1>4. MayCut(T, {}, {}) /\ Knows(T, {}, {}, {p}) /\ Unmoved(T, T2, {}, {}, {p})
  BY <1>1 DEF MayCut, Knows, Unmoved, Same
<1> QED
  BY <1>1, <1>3, <1>4 DEF OneChanged, T2

(* What a thread has to join does not depend on the lists it is on. *)
LEMMA ChangeKids ==
    ASSUME NEW T \in Table, NEW p \in Thread, NEW y \in ThreadRecord, Fields(T),
           Stays(T[p], y, {}, {}), Going(T[p]), KidsOf(T, p), y.pc = T[p].pc,
           y.taskFunc = T[p].taskFunc, y.joining <=> T[p].joining, y.waiting => y.detached # {}
    PROVE  KidsOf([T EXCEPT ![p] = y], p)
<1> DEFINE T2 == [T EXCEPT ![p] = y]
<1>1. T2[p] = y /\ \A t \in Thread \ {p} : T2[t] = T[t]
  BY DEF Table
<1> HIDE DEF T2
<1>2. /\ y.children = T[p].children /\ y.detached = T[p].detached /\ y.taskFunc = T[p].taskFunc
      /\ (y.ended <=> T[p].ended) /\ y.scope = T[p].scope
  BY DEF Stays, Going
<1>3. ToJoin(y) = ToJoin(T[p])
  BY DEF ToJoin
<1>4. T[p].taskFunc \subseteq T[p].children /\ T[p].children \subseteq Thread
  BY Record DEF KidsOf
<1>5. \A c \in T[p].children : T2[c].scope = T[c].scope /\ (T2[c].ended <=> T[c].ended)
  BY <1>1, <1>2, <1>4
<1> QED
  BY <1>1, <1>2, <1>3, <1>4, <1>5 DEF KidsOf, T2

(* One thread changes, and may stop to run or begin to. *)
LEMMA ChangeCut ==
    ASSUME NEW T, NEW A, NEW L, NEW W, NEW R, NEW Z, Sound(T, A, L, W, R, Z),
           NEW p \in Thread, NEW y \in ThreadRecord, Stays(T[p], y, {}, {}), NEW R2, NEW Z2,
           R2 \ {p} = R \ {p}, Z \subseteq Z2,
           Going(y) => KidsOf([T EXCEPT ![p] = y], p), PlaceOf(y, p \in R2),
           p \in Z2 \/ (T[p].scheduled \/ T[p].onEvent => y.scheduled \/ y.onEvent)
    PROVE  SoundCut(T, [T EXCEPT ![p] = y], {}, {}, {p}, R, R2, Z, Z2)
<1> DEFINE T2 == [T EXCEPT ![p] = y]
<1>1. T \in Table /\ Fields(T)
  BY DEF Sound, Whole
<1>2. OneChanged(T, T2, p, y)
  BY <1>1, OneChanges, Zenon
<1>3. Going(y) => KidsOf(T2, p)
  OBVIOUS
<1> HIDE DEF T2
<1>4. T2[p] = y
  BY <1>2 DEF OneChanged
<1>5. \A q \in {p} : /\ Going(T2[q]) => KidsOf(T2, q)
                     /\ PlaceOf(T2[q], q \in R2)
                     /\ q \in Z2 \/ (T[q].scheduled \/ T[q].onEvent => T2[q].scheduled \/ T2[q].onEvent)
  BY <1>3, <1>4
<1>6. /\ \A t \in Thread \ {p} : t \in R2 => t \in R
      /\ \A t \in Thread \ ({} \cup {} \cup {p}) : t \in R => t \in R2
      /\ Z \subseteq Z2 \cup {} \cup {}
  OBVIOUS
<1>7. SoundCut(T, T2, {}, {}, {p}, R, R2, Z, Z2)
  BY <1>2, <1>5, <1>6 DEF SoundCut, OneChanged
<1> QED
  BY <1>7 DEF T2

(* A thread begins to run. *)
Up(T, h) == [T EXCEPT ![h] = [T[h] EXCEPT !.scheduled = FALSE]]
IsUp(T, T2, h, W) ==
    /\ T2 \in Table /\ Whole(T2) /\ Kids(T2) /\ Placed(T2, {h}) /\ Remain(T2, {h})
    /\ EventLists(T2, W) /\ ~T2[h].scheduled
    /\ \A t \in Thread :
          /\ (T2[t].joining <=> T[t].joining) /\ (T2[t].live <=> T[t].live)
          /\ (T2[t].ended <=> T[t].ended) /\ T2[t].children = T[t].children /\ T2[t].pc = T[t].pc
          /\ t # h => (T2[t].scheduled <=> T[t].scheduled)

(* The others stay as they are. *)
LEMMA StartedSound ==
    ASSUME NEW T, NEW A, NEW L, NEW W, Sound(T, A, L, W, {}, {}),
           NEW h \in Thread, T[h].scheduled
    PROVE  IsUp(T, Up(T, h), h, W)
<1> DEFINE y == [T[h] EXCEPT !.scheduled = FALSE]
           T2 == [T EXCEPT ![h] = y]
<1>1. T \in Table /\ Fields(T) /\ Kids(T) /\ Placed(T, {}) /\ EventLists(T, W)
  BY DEF Sound, Whole
<1>2. T[h] \in ThreadRecord /\ FieldsOf(T[h])
  BY <1>1, Record DEF Fields
<1>3. T[h].live
  BY <1>2, DeletedTyped DEF FieldsOf
<1>4. Stays(T[h], T[h], {}, {})
  BY <1>2, SameStays
<1>5. y \in ThreadRecord /\ Stays(T[h], y, {}, {})
  <2>1. y \in ThreadRecord
    BY <1>2 DEF ThreadRecord
  <2>2. Stays(T[h], y, {}, {})
    BY <1>2, <1>3, <1>4 DEF ThreadRecord, Stays
  <2> QED
    BY <2>1, <2>2
<1>6. /\ y.joining = T[h].joining /\ y.waiting = T[h].waiting /\ y.onEvent = T[h].onEvent
      /\ ~y.scheduled /\ y.taskFunc = T[h].taskFunc /\ y.pc = T[h].pc /\ y.children = T[h].children /\ y.detached = T[h].detached
      /\ y.ended = T[h].ended /\ y.live
  BY <1>2, <1>3 DEF ThreadRecord
<1> HIDE DEF y
<1>7. Going(y) => KidsOf(T2, h)
  <2> SUFFICES ASSUME Going(y) PROVE KidsOf(T2, h)
    OBVIOUS
  <2>1. Going(T[h]) /\ KidsOf(T, h)
    BY <1>1, <1>3, <1>6 DEF Going, Kids
  <2>2. y.waiting => y.detached # {}
    BY <1>6, <2>1 DEF KidsOf
  <2>3. (y.joining <=> T[h].joining) /\ y.pc = T[h].pc /\ y.taskFunc = T[h].taskFunc
    BY <1>6
  <2> QED
    BY <1>1, <1>5, <2>1, <2>2, <2>3, ChangeKids, Zenon
<1>8. PlaceOf(y, h \in {h})
  <2>1. PlaceOf(T[h], h \in {})
    BY <1>1 DEF Placed
  <2> QED
    BY <1>2, <1>3, <1>6, <2>1 DEF PlaceOf
<1>9. SoundCut(T, T2, {}, {}, {h}, {}, {h}, {}, {h})
  <2>1. {h} \ {h} = {} \ {h} /\ {} \subseteq {h} /\ h \in {h}
    OBVIOUS
  <2> QED
    BY <1>5, <1>7, <1>8, <2>1, ChangeCut, Zenon
<1>10. CutDone(T, T2, {h}, {h}, {h})
  BY <1>9, CutThreads, Zenon
<1>11. T2[h] = y /\ \A t \in Thread \ {h} : T2[t] = T[t]
  BY <1>1 DEF Table
<1> HIDE DEF T2
<1>12. \A t \in Thread : T2[t].onEvent <=> T[t].onEvent
  BY <1>6, <1>11
<1>13. EventLists(T2, W)
  BY <1>1, <1>12, EventsStay, Zenon
<1>14. \A t \in Thread :
          /\ (T2[t].joining <=> T[t].joining) /\ (T2[t].live <=> T[t].live)
          /\ (T2[t].ended <=> T[t].ended) /\ T2[t].children = T[t].children /\ T2[t].pc = T[t].pc
          /\ t # h => (T2[t].scheduled <=> T[t].scheduled)
  BY <1>3, <1>6, <1>11
<1>15. IsUp(T, T2, h, W)
  BY <1>6, <1>10, <1>11, <1>13, <1>14 DEF IsUp, CutDone
<1> QED
  BY <1>15 DEF T2, y, Up

(* One thread runs, of a list of threads. *)
LEMMA OneRuns ==
    ASSUME NEW h \in Thread, NEW rest \in Seq(Thread), IsInjective(rest),
           stack' = <<[thr |-> h, rest |-> rest]>>, failed' = {},
           Whole(thread'), Kids(thread'), Placed(thread', {h}), Remain(thread', {h}),
           Queues(thread', active', ToSet(later') \cup ToSet(rest)),
           EventLists(thread', waiters'), thread'[h].live,
           IsInjective(later'), ToSet(rest) \cap ToSet(later') = {}
    PROVE  IInv'
<1>1. stack' \in Seq(Frame) /\ Len(stack') = 1 /\ stack'[1].thr = h /\ stack'[1].rest = rest
  BY DEF Frame
<1>2. RunOn(stack') = {h} /\ Members(RestsOf(stack')) = ToSet(rest) /\ Distinct(RestsOf(stack'))
  BY <1>1, Frames
<1>3. OnStack' = {h} /\ Members(Rests)' = ToSet(rest) /\ Distinct(Rests)'
  BY <1>2 DEF OnStack, Rests, RunOn, RestsOf
<1>4. Calls(thread', stack')
  <2>1. DOMAIN stack' = {1}
    BY <1>1
  <2> QED
    BY <1>1, <2>1 DEF Calls
<1> QED
  BY <1>3, <1>4 DEF IInv, Others

(* An opcode that returns false does, too: the next thread of the list runs,    *)
(* or the caller, or none.                                                      *)
LEMMA PauseStep ==
    ASSUME TypeOK, IInv, stack # <<>>, NEW r \in State, r.failed = {}, Pause(r),
           Sound(r.thread, r.active, later', waiters', OnStack \ {self}, {}),
           Len(stack) = 2 => r.thread[caller].live
    PROVE  /\ IInv'
           /\ \A t \in Thread : (thread'[t].joining <=> r.thread[t].joining)
                                /\ (thread'[t].live <=> r.thread[t].live)
                                /\ (thread'[t].ended <=> r.thread[t].ended)
                                /\ thread'[t].children = r.thread[t].children
                                /\ thread'[t].pc = r.thread[t].pc
<1> DEFINE rest == Head(stack).rest
           T == r.thread
           A == r.active
<1>1. rest \in Seq(Thread)
  BY Caller
<1>2. /\ Whole(T) /\ Kids(T) /\ Placed(T, OnStack \ {self}) /\ Remain(T, {}) /\ Fields(T) /\ Tree(T)
      /\ Queues(T, A, ToSet(later') \cup Members(Rests)) /\ EventLists(T, waiters')
      /\ IsInjective(later') /\ Members(Rests) \cap ToSet(later') = {} /\ T \in Table
  BY DEF Sound, Whole
<1>3. CASE rest = <<>>
  <2>1. thread' = T /\ active' = A /\ failed' = {} /\ stack' = Tail(stack)
    BY <1>3 DEF Pause, Become
  <2>2. /\ OnStack' = OnStack \ {self} /\ Members(Rests)' = Members(Rests) /\ Distinct(Rests)'
        /\ Len(stack') =< 1 /\ \A i \in DOMAIN stack' : T[stack'[i].thr].live
    <3>1. OnStack' = RunOn(stack') /\ Rests' = RestsOf(stack')
      BY DEF OnStack, Rests, RunOn, RestsOf
    <3>2. ToSet(<<>>) = {} /\ stack' \in Seq(Frame)
      BY <2>1, Caller DEF ToSet
    <3>3. CASE Len(stack) = 1
      <4>1. stack' = <<>> /\ OnStack = {self} /\ Members(Rests) = {}
        BY <1>3, <2>1, <3>2, <3>3, StackIs
      <4>2. RunOn(stack') = {} /\ Distinct(RestsOf(stack')) /\ Members(RestsOf(stack')) = {}
        BY <3>2, <4>1, Frames
      <4> QED
        BY <3>1, <4>1, <4>2
    <3>4. CASE Len(stack) = 2
      <4>1. /\ stack' = <<stack[2]>> /\ OnStack = {self, caller} /\ caller # self
            /\ Members(Rests) = ToSet(stack[2].rest) /\ IsInjective(stack[2].rest)
        BY <2>1, <3>4, StackIs
      <4>2. Len(stack') = 1 /\ stack'[1] = stack[2] /\ DOMAIN stack' = {1}
        BY <4>1
      <4>3. /\ RunOn(stack') = {caller} /\ Members(RestsOf(stack')) = ToSet(stack[2].rest)
            /\ Distinct(RestsOf(stack'))
        BY <3>2, <4>1, <4>2, Frames DEF caller
      <4>4. T[caller].live
        BY <3>4
      <4> QED
        BY <3>1, <4>1, <4>2, <4>3, <4>4 DEF caller
    <3> QED
      BY <3>3, <3>4, StackIs
  <2>3. Calls(thread', stack')
    <3> DEFINE k == Tail(stack)
    <3>1. k \in Seq(Frame)
      BY Caller
    <3>2. stack' = k /\ Len(stack') =< 1
      BY <2>1, <2>2
    <3> HIDE DEF k
    <3>3. Len(k) =< 2 /\ Len(k) # 2
      BY <3>1, <3>2
    <3> QED
      BY <2>1, <2>2, <3>2, <3>3 DEF Calls
  <2>4. Remain(thread', OnStack')
    BY <1>2, <2>1 DEF Remain
  <2>5. IInv'
    BY <1>2, <2>1, <2>2, <2>3, <2>4 DEF IInv, Others
  <2> QED
    BY <2>1, <2>5
<1>4. CASE rest # <<>>
  <2> DEFINE h == Head(rest)
             T2 == Up(T, h)
  <2>1. /\ Become(Started(r, h)) /\ stack' = <<[thr |-> h, rest |-> Tail(rest)]>> \o Tail(stack)
    BY <1>4 DEF Pause
  <2>2. /\ Len(stack) = 1 /\ OnStack = {self} /\ Tail(stack) = <<>>
        /\ Members(Rests) = ToSet(rest) /\ IsInjective(rest)
    BY <1>4, StackIs
  <2>3. /\ h \in Thread /\ h \in ToSet(rest) /\ Tail(rest) \in Seq(Thread) /\ IsInjective(Tail(rest))
        /\ ToSet(Tail(rest)) = ToSet(rest) \ {h}
    BY <1>1, <1>4, <2>2, EmptyList, ListShrinks
  <2> HIDE DEF h, rest
  <2>4. T[h].scheduled
    BY <1>2, <2>2, <2>3 DEF Queues
  <2>5. thread' = T2 /\ active' = A /\ failed' = {}
    <3>1. IsStarted(r, h, Started(r, h))
      BY <2>3, StartedIs, Zenon
    <3> QED
      BY <2>1, <2>4, <3>1 DEF IsStarted, Become, Up
  <2>6. stack' = <<[thr |-> h, rest |-> Tail(rest)]>>
    <3> DEFINE w == <<[thr |-> h, rest |-> Tail(rest)]>>
    <3>1. w \in Seq(Frame)
      BY <2>3 DEF Frame
    <3> HIDE DEF w
    <3>2. w \o <<>> = w
      BY <3>1, ConcatEmptySeq
    <3> QED
      BY <2>1, <2>2, <3>2 DEF w
  <2> HIDE DEF T, A
  <2>7. IsUp(T, T2, h, waiters')
    <3>1. OnStack \ {self} = {}
      BY <2>2
    <3>2. Sound(T, A, later', waiters', {}, {})
      BY <3>1 DEF T, A
    <3> QED
      BY <2>3, <2>4, <3>2, StartedSound, Zenon
  <2> HIDE DEF T2
  <2>8. IInv'
    <3>1. (ToSet(later') \cup Members(Rests)) \ {h} = ToSet(later') \cup ToSet(Tail(rest))
      BY <1>2, <2>2, <2>3
    <3>2. Queues(T2, A, ToSet(later') \cup ToSet(Tail(rest)))
      <4>1. {t \in Thread : T2[t].scheduled} = {t \in Thread : T[t].scheduled} \ {h}
        BY <2>7 DEF IsUp
      <4>2. h \in Members(Rests)
        BY <2>2, <2>3
      <4> QED
        BY <1>2, <3>1, <4>1, <4>2 DEF Queues
    <3>3. T2[h].live
      <4>1. T[h] \in ThreadRecord /\ FieldsOf(T[h])
        BY <1>2, <2>3, Record DEF Fields
      <4> QED
        BY <2>3, <2>4, <2>7, <4>1, DeletedTyped DEF IsUp, FieldsOf
    <3>4. ToSet(Tail(rest)) \cap ToSet(later') = {} /\ IsInjective(later')
      BY <1>2, <2>2, <2>3
    <3>5. /\ Whole(T2) /\ Kids(T2) /\ Placed(T2, {h}) /\ Remain(T2, {h}) /\ EventLists(T2, waiters')
      BY <2>7 DEF IsUp
    <3> HIDE DEF rest
    <3> QED
      BY <2>3, <2>5, <2>6, <3>2, <3>3, <3>4, <3>5, OneRuns
  <2> QED
    BY <2>5, <2>7, <2>8 DEF IsUp, T
<1> QED
  BY <1>3, <1>4

--------------------------------------------------------------------------------
(* The statements and opcodes, one by one                                       *)

(* Sets of threads are finite. *)
LEMMA FewThreads ==
    ASSUME NEW S \in SUBSET Thread
    PROVE  /\ IsFiniteSet(S) /\ Cardinality(S) \in Nat /\ (Cardinality(S) = 0 <=> S = {})
<1>1. NThreads \in Nat
  BY ThreadAssumption
<1>2. IsFiniteSet(Thread)
  BY <1>1, FS_Interval DEF Thread
<1>3. IsFiniteSet(S)
  BY <1>2, FS_Subset
<1> QED
  BY <1>3, FS_CardinalityType, FS_EmptySet

(* What a thread that runs a statement has left *)
Ready(x) ==
    /\ Going(x) /\ x.pc = <<>> /\ x.children = {} /\ x.taskFunc = {}
    /\ ~x.joining /\ ~x.waiting /\ ~x.scheduled /\ ~x.onEvent

(* A thread that runs neither sleeps nor is on a list. *)
LEMMA Awake ==
    ASSUME TypeOK, IInv, NEW t \in OnStack, t \in Thread, thread[t].live
    PROVE  /\ ~thread[t].scheduled /\ ~thread[t].onEvent
           /\ Going(thread[t]) => ~thread[t].joining /\ ~thread[t].waiting
<1>1. PlaceOf(thread[t], t \in OnStack)
  BY DEF IInv, Placed
<1> QED
  BY <1>1 DEF PlaceOf, Going

(* A thread that has nothing left of its last statement *)
LEMMA IsReady ==
    ASSUME TypeOK, IInv, stack # <<>>, thread[self].pc = <<>>
    PROVE  Ready(thread[self])
<1> DEFINE x == thread[self]
<1>1. x.live /\ self \in Thread /\ self \in OnStack
  BY StackIs
<1>2. FieldsOf(x) /\ x.children \subseteq Thread
  <2>1. thread \in Table
    BY DEF TypeOK, Table
  <2> QED
    BY <1>1, <2>1, Record DEF IInv, Whole, Fields
<1>3. Going(x)
  <2>1. <<>> # Null
    BY DEF Null
  <2> QED
    BY <1>1, <1>2, <2>1 DEF FieldsOf, Going
<1>4. ~x.scheduled /\ ~x.onEvent /\ ~x.joining /\ ~x.waiting
  BY <1>1, <1>3, Awake
<1>5. KidsOf(thread, self)
  BY <1>1, <1>3 DEF IInv, Kids
<1>6. ~Detaches(x.pc) /\ ToJoin(x) = 0
  <2>1. Joins(<<>>) = 0 /\ ~Detaches(<<>>)
    BY DEF Joins, Detaches
  <2> QED
    BY <1>4, <2>1 DEF ToJoin
<1>7. x.children = {} /\ x.taskFunc = {}
  <2>1. Cardinality(x.children) = 0
    BY <1>5, <1>6 DEF KidsOf
  <2>2. x.children = {}
    BY <1>2, <2>1, FewThreads
  <2> QED
    BY <1>5, <2>2 DEF KidsOf
<1> QED
  BY <1>3, <1>4, <1>7 DEF Ready

(* What holds when a thread executes a statement *)
LEMMA StatementBegins ==
    ASSUME TypeOK, IInv, NEW kind, Statement(kind)
    PROVE  /\ stack # <<>> /\ self \in Thread /\ self \in OnStack /\ Ready(thread[self])
           /\ Going(thread[self]) /\ thread \in Table /\ thread[self] \in ThreadRecord
           /\ FieldsOf(thread[self]) /\ KidsOf(thread, self) /\ Fields(thread)
           /\ Now \in State /\ Now.thread = thread /\ Now.active = active /\ Now.failed = {}
           /\ Sound(thread, active, later, waiters, OnStack, {})
<1>1. stack # <<>> /\ thread[self].pc = <<>>
  BY DEF Statement, Running
<1>2. self \in Thread /\ self \in OnStack /\ Ready(thread[self])
  BY <1>1, StackIs, IsReady
<1>3. Going(thread[self]) /\ thread \in Table
  BY <1>2 DEF Ready, TypeOK, Table
<1>4. thread[self] \in ThreadRecord /\ FieldsOf(thread[self]) /\ Fields(thread)
  BY <1>2, <1>3, Record DEF IInv, Whole, Fields
<1>5. Sound(thread, active, later, waiters, OnStack, {})
  BY <1>1, <1>3, Begins
<1>6. KidsOf(thread, self)
  BY <1>2, <1>3 DEF IInv, Kids
<1>7. Now \in State /\ Now.thread = thread /\ Now.active = active /\ Now.failed = {}
  BY NowTyped DEF IInv
<1> QED
  BY <1>1, <1>2, <1>3, <1>4, <1>5, <1>6, <1>7

(* A caller stays. *)
LEMMA CallerLives ==
    ASSUME TypeOK, IInv, stack # <<>>, Len(stack) = 2
    PROVE  /\ caller \in Thread /\ caller # self /\ Going(thread[caller]) /\ caller \in OnStack
           /\ thread[self].scope \in Functions /\ thread[caller].pc = <<"join">>
           /\ thread[caller].children = {self} /\ ~InFunction(thread[caller].scope)
<1>1. self = stack[1].thr /\ caller \in Thread /\ caller # self /\ caller \in OnStack
  BY StackIs
<1> QED
  BY <1>1, StackIs DEF Called, caller

(* A flag of a thread that goes on is set. *)
Flagged(x, y) ==
    /\ y.live /\ ~y.ended /\ y.scope = x.scope /\ (y.inScope <=> x.inScope) /\ y.parent = x.parent
    /\ y.children = x.children /\ y.detached = x.detached /\ y.taskFunc = x.taskFunc
    /\ (y.isDetached <=> x.isDetached) /\ (y.joining <=> x.joining) /\ y.pc = x.pc

(* It stays where it is in the tree. *)
LEMMA FlaggedStays ==
    ASSUME NEW x \in ThreadRecord, NEW y \in ThreadRecord, FieldsOf(x), Going(x), Flagged(x, y)
    PROVE  Stays(x, y, {}, {})
<1>1. Stays(x, x, {}, {})
  BY SameStays
<1> QED
  BY <1>1 DEF Stays, Flagged, Going

(* The thread that runs a statement goes to sleep. *)
LEMMA Sleeps ==
    ASSUME TypeOK, IInv, NEW kind, Statement(kind), NEW y \in ThreadRecord, Flagged(thread[self], y),
           \/ y.scheduled /\ ~y.onEvent /\ ~y.waiting
           \/ ~y.scheduled /\ y.onEvent /\ ~y.waiting
           \/ ~y.scheduled /\ ~y.onEvent /\ y.waiting /\ y.detached # {}
    PROVE  /\ SoundCut(thread, [thread EXCEPT ![self] = y], {}, {}, {self}, OnStack, OnStack \ {self}, {}, {})
           /\ Len(stack) = 2 => [thread EXCEPT ![self] = y][caller].live
<1>1. /\ self \in Thread /\ Ready(thread[self]) /\ Going(thread[self]) /\ Fields(thread)
      /\ thread[self] \in ThreadRecord /\ FieldsOf(thread[self]) /\ KidsOf(thread, self)
      /\ Sound(thread, active, later, waiters, OnStack, {}) /\ thread \in Table /\ stack # <<>>
  BY StatementBegins
<1>2. Stays(thread[self], y, {}, {})
  BY <1>1, FlaggedStays
<1>3. KidsOf([thread EXCEPT ![self] = y], self)
  <2>1. y.pc = thread[self].pc /\ (y.joining <=> thread[self].joining) /\ y.taskFunc = thread[self].taskFunc
    BY DEF Flagged
  <2>2. y.waiting => y.detached # {}
    OBVIOUS
  <2> QED
    BY <1>1, <1>2, <2>1, <2>2, ChangeKids, Zenon
<1>4. PlaceOf(y, self \in OnStack \ {self})
  BY <1>1 DEF PlaceOf, Flagged, Ready
<1>5. self \in {} \/ (thread[self].scheduled \/ thread[self].onEvent => y.scheduled \/ y.onEvent)
  BY <1>1 DEF Ready
<1>6. (OnStack \ {self}) \ {self} = OnStack \ {self} /\ {} \subseteq {}
  OBVIOUS
<1>7. SoundCut(thread, [thread EXCEPT ![self] = y], {}, {}, {self}, OnStack, OnStack \ {self}, {}, {})
  BY <1>1, <1>2, <1>3, <1>4, <1>5, <1>6, ChangeCut, Zenon
<1>8. Len(stack) = 2 => [thread EXCEPT ![self] = y][caller].live
  BY <1>1, CallerLives DEF Going, Table
<1> QED
  BY <1>7, <1>8

(* %delay leaves the invariant. *)
LEMMA DelayKeeps ==
    ASSUME TypeOK, IInv, Delay
    PROVE  IInv'
<1>1. Statement("delay") /\ waiters' = waiters
  BY DEF Delay
<1>2. /\ self \in Thread /\ Ready(thread[self]) /\ Going(thread[self]) /\ thread \in Table
      /\ thread[self] \in ThreadRecord /\ stack # <<>>
      /\ Now \in State /\ Now.thread = thread /\ Now.active = active /\ Now.failed = {}
      /\ Sound(thread, active, later, waiters, OnStack, {})
  BY <1>1, StatementBegins
<1> DEFINE y == [thread[self] EXCEPT !.scheduled = TRUE]
           T2 == [thread EXCEPT ![self] = y]
<1>3. y \in ThreadRecord
  BY <1>2, FlagTyped
<1>4. Flagged(thread[self], y) /\ y.scheduled /\ ~y.onEvent /\ ~y.waiting
  BY <1>2 DEF ThreadRecord, Flagged, Going, Ready
<1>5. ~thread[self].scheduled /\ (y.onEvent <=> thread[self].onEvent)
  BY <1>2, <1>4 DEF Ready
<1> HIDE DEF y
<1>6. /\ SoundCut(thread, T2, {}, {}, {self}, OnStack, OnStack \ {self}, {}, {})
      /\ Len(stack) = 2 => T2[caller].live
  BY <1>1, <1>3, <1>4, Sleeps
<1>7. T2[self] = y
  BY <1>2 DEF Table
<1>8. CASE Pause(Schedule(Now, <<self>>, FALSE)) /\ UNCHANGED later
  <2> DEFINE s == Schedule(Now, <<self>>, FALSE)
  <2>1. IsScheduled(Now, <<self>>, FALSE, s)
    BY <1>2, OneList, ScheduleIs, Zenon
  <2>2. s \in State /\ s.thread = T2 /\ s.active = Append(active, <<self>>) /\ s.failed = {}
    <3>1. /\ s \in State /\ s.active = Append(active, <<self>>)
          /\ s.thread = [t \in Thread |-> [thread[t] EXCEPT !.scheduled = @ \/ Contains(<<self>>, t)]]
          /\ (\A t \in ToSet(<<self>>) : ~thread[t].scheduled) => s.failed = {}
      BY <1>2, <2>1 DEF IsScheduled
    <3>2. ToSet(<<self>>) = {self}
      BY <1>2, ListOfOne
    <3>3. \A t \in Thread : Contains(<<self>>, t) <=> t = self
      BY DEF Contains
    <3> HIDE DEF s
    <3>4. s.thread = T2
      <4>1. \A t \in Thread : s.thread[t] = T2[t]
        <5> SUFFICES ASSUME NEW t \in Thread PROVE s.thread[t] = T2[t]
          OBVIOUS
        <5>1. s.thread[t] = [thread[t] EXCEPT !.scheduled = @ \/ Contains(<<self>>, t)]
          BY <3>1
        <5>2. CASE t = self
          <6>1. Contains(<<self>>, t) = TRUE
            BY <3>3, <5>2
          <6> QED
            BY <1>7, <5>1, <5>2, <6>1 DEF y
        <5>3. CASE t # self
          <6>1. T2[t] = thread[t] /\ thread[t] \in ThreadRecord
            BY <1>2, <5>3, Record DEF Table
          <6>2. [thread[t] EXCEPT !.scheduled = @ \/ Contains(<<self>>, t)] = thread[t]
            <7>1. ~Contains(<<self>>, t)
              BY <3>3, <5>3
            <7> QED
              BY <6>1, <7>1 DEF ThreadRecord
          <6> QED
            BY <5>1, <6>1, <6>2
        <5> QED
          BY <5>2, <5>3
      <4>2. s.thread \in [Thread -> ThreadRecord] /\ T2 \in [Thread -> ThreadRecord]
        BY <1>2, <1>3, <3>1, ThreadsOf DEF Table
      <4> QED
        BY <4>1, <4>2
    <3> QED
      BY <1>5, <3>1, <3>2, <3>4
  <2> HIDE DEF s, T2
  <2>3. Sound(T2, Append(active, <<self>>), later, waiters, OnStack \ {self}, {})
    <3>1. T2[self].scheduled /\ (T2[self].onEvent <=> thread[self].onEvent)
      BY <1>4, <1>5, <1>7
    <3> QED
      BY <1>2, <1>5, <1>6, <3>1, CutWoken, Zenon
  <2>4. Sound(s.thread, s.active, later', waiters', OnStack \ {self}, {})
    BY <1>1, <1>8, <2>2, <2>3
  <2>5. Len(stack) = 2 => s.thread[caller].live
    BY <1>6, <2>2
  <2> QED
    BY <1>2, <1>8, <2>2, <2>4, <2>5, PauseStep DEF s
<1>9. CASE Pause([Now EXCEPT !.thread[self].scheduled = TRUE]) /\ later' = Append(later, self)
  <2> DEFINE s == [Now EXCEPT !.thread = T2]
  <2>1. [Now EXCEPT !.thread[self].scheduled = TRUE] = s
    BY <1>2 DEF y
  <2>2. s \in State /\ s.thread = T2 /\ s.active = active /\ s.failed = {}
    <3>1. T2 \in [Thread -> ThreadRecord]
      BY <1>2, <1>3 DEF Table
    <3> HIDE DEF T2
    <3> QED
      BY <1>2, <3>1, WithThreads
  <2>3. CutDone(thread, T2, {self}, OnStack \ {self}, {})
    BY <1>2, <1>6, CutThreads, Zenon
  <2>4. /\ IsInjective(later) /\ later \in Seq(Thread) /\ self \notin ToSet(later) \cup Members(Rests)
        /\ self \notin Members(active)
        /\ Members(Rests) \cap ToSet(later) = {} /\ EventLists(thread, waiters)
        /\ Queues(thread, active, ToSet(later) \cup Members(Rests)) /\ active \in Seq(List)
    BY <1>2, <1>5 DEF Sound, Queues
  <2>5. later' \in Seq(Thread) /\ IsInjective(later') /\ ToSet(later') = ToSet(later) \cup {self}
    BY <1>2, <1>9, <2>4, ListGrows
  <2> HIDE DEF s, T2
  <2>6. /\ \A t \in Thread : T2[t].scheduled <=> thread[t].scheduled \/ t = self
        /\ \A t \in Thread : T2[t].onEvent <=> thread[t].onEvent
    BY <1>4, <1>5, <1>7, <2>3 DEF CutDone, FlagsStay
  <2>7. Queues(T2, active, ToSet(later') \cup Members(Rests))
    <3>1. {t \in Thread : T2[t].scheduled} = {t \in Thread : thread[t].scheduled} \cup {self}
      BY <1>2, <2>6
    <3> QED
      BY <2>4, <2>5, <3>1 DEF Queues
  <2>8. EventLists(T2, waiters)
    BY <2>4, <2>6, EventsStay, Zenon
  <2>9. Members(Rests) \cap ToSet(later') = {}
    BY <2>4, <2>5
  <2>10. Sound(s.thread, s.active, later', waiters', OnStack \ {self}, {})
    BY <1>1, <2>2, <2>3, <2>4, <2>5, <2>7, <2>8, <2>9 DEF Sound, CutDone
  <2>11. Len(stack) = 2 => s.thread[caller].live
    BY <1>6, <2>2
  <2>12. Pause(s)
    BY <1>9, <2>1
  <2> QED
    BY <1>2, <2>2, <2>10, <2>11, <2>12, PauseStep
<1> QED
  BY <1>8, <1>9 DEF Delay

(* A thread is put in front of a waiting list. *)
LEMMA WaitersGrow ==
    ASSUME NEW W \in [Events -> Seq(Thread)], NEW e \in Events, NEW p \in Thread,
           Distinct(W), p \notin Members(W)
    PROVE  LET W2 == [W EXCEPT ![e] = <<p>> \o @]
           IN  Distinct(W2) /\ Members(W2) = Members(W) \cup {p}
<1> DEFINE l == <<p>> \o W[e]
           W2 == [W EXCEPT ![e] = l]
<1>1. IsInjective(W[e]) /\ p \notin ToSet(W[e]) /\ W[e] \in Seq(Thread)
  BY DEF Distinct, Members
<1>2. l \in Seq(Thread) /\ IsInjective(l) /\ ToSet(l) = ToSet(W[e]) \cup {p}
  BY <1>1, ListPrefixed
<1> HIDE DEF l
<1>3. DOMAIN W2 = Events /\ W2[e] = l /\ \A i \in Events \ {e} : W2[i] = W[i]
  OBVIOUS
<1>4. DOMAIN W = Events
  OBVIOUS
<1> HIDE DEF W2
<1>5. Members(W2) = UNION {ToSet(W2[i]) : i \in Events} /\ Members(W) = UNION {ToSet(W[i]) : i \in Events}
  BY <1>3, <1>4 DEF Members
<1>6. \A i \in Events : ToSet(W2[i]) = IF i = e THEN ToSet(W[i]) \cup {p} ELSE ToSet(W[i])
  BY <1>2, <1>3
<1>7. Members(W2) = Members(W) \cup {p}
  <2>1. \A x : x \in Members(W2) <=> \E i \in Events : x \in ToSet(W2[i])
    BY <1>5
  <2>2. \A x : x \in Members(W) <=> \E i \in Events : x \in ToSet(W[i])
    BY <1>5
  <2>3. \A i \in Events : \A x : x \in ToSet(W2[i]) <=> x \in ToSet(W[i]) \/ (i = e /\ x = p)
    BY <1>6
  <2>4. \A x : x \in Members(W2) <=> x \in Members(W) \/ x = p
    BY <2>1, <2>2, <2>3
  <2> QED
    BY <2>4
<1>8. Distinct(W2)
  <2> SUFFICES ASSUME NEW i \in Events, NEW j \in Events
               PROVE  IsInjective(W2[i]) /\ (i # j => ToSet(W2[i]) \cap ToSet(W2[j]) = {})
    BY <1>3 DEF Distinct
  <2>1. IsInjective(W[i]) /\ (i # j => ToSet(W[i]) \cap ToSet(W[j]) = {})
    BY <1>4 DEF Distinct
  <2>2. p \notin ToSet(W[i]) /\ p \notin ToSet(W[j])
    BY <1>5
  <2>3. IsInjective(W2[i])
    BY <1>2, <1>3, <2>1
  <2> QED
    BY <1>6, <2>1, <2>2, <2>3
<1> QED
  BY <1>7, <1>8 DEF W2, l

(* A waiting list is taken. *)
LEMMA WaitersTaken ==
    ASSUME NEW W \in [Events -> Seq(Thread)], NEW e \in Events, Distinct(W)
    PROVE  LET W2 == [W EXCEPT ![e] = <<>>]
           IN  /\ Distinct(W2) /\ Members(W2) = Members(W) \ ToSet(W[e])
               /\ IsInjective(W[e]) /\ ToSet(W[e]) \subseteq Members(W)
<1> DEFINE W2 == [W EXCEPT ![e] = <<>>]
<1>1. DOMAIN W2 = Events /\ W2[e] = <<>> /\ \A i \in Events \ {e} : W2[i] = W[i]
  OBVIOUS
<1>2. DOMAIN W = Events
  OBVIOUS
<1>3. \A i, j \in Events : IsInjective(W[i]) /\ (i # j => ToSet(W[i]) \cap ToSet(W[j]) = {})
  BY <1>2 DEF Distinct
<1> HIDE DEF W2
<1>4. Members(W2) = UNION {ToSet(W2[i]) : i \in Events} /\ Members(W) = UNION {ToSet(W[i]) : i \in Events}
  BY <1>1, <1>2 DEF Members
<1>5. ToSet(<<>>) = {} /\ IsInjective(<<>>)
  BY DEF ToSet, IsInjective
<1>6. \A i \in Events : ToSet(W2[i]) = IF i = e THEN {} ELSE ToSet(W[i])
  BY <1>1, <1>5
<1>7. Members(W2) = Members(W) \ ToSet(W[e])
  <2>1. \A i \in Events : i # e => ToSet(W[i]) \cap ToSet(W[e]) = {}
    BY <1>3
  <2> QED
    BY <1>4, <1>6, <2>1
<1>8. Distinct(W2)
  BY <1>1, <1>3, <1>5, <1>6 DEF Distinct
<1> QED
  BY <1>3, <1>4, <1>7, <1>8 DEF W2

(* %wait leaves the invariant. *)
LEMMA WaitKeeps ==
    ASSUME TypeOK, IInv, NEW e \in Events, Wait(e)
    PROVE  IInv'
<1>1. /\ Statement("wait") /\ later' = later
      /\ waiters' = [waiters EXCEPT ![e] = <<self>> \o @]
  BY DEF Wait
<1>2. /\ self \in Thread /\ Ready(thread[self]) /\ Going(thread[self]) /\ thread \in Table
      /\ thread[self] \in ThreadRecord /\ stack # <<>>
      /\ Now \in State /\ Now.thread = thread /\ Now.active = active /\ Now.failed = {}
      /\ Sound(thread, active, later, waiters, OnStack, {})
  BY <1>1, StatementBegins
<1> DEFINE y == [thread[self] EXCEPT !.onEvent = TRUE]
           T2 == [thread EXCEPT ![self] = y]
           q == [Now EXCEPT !.thread = T2]
           s == Check(q, "of_WAIT", ~thread[self].onEvent)
<1>3. y \in ThreadRecord
  BY <1>2, FlagTyped
<1>4. Flagged(thread[self], y) /\ ~y.scheduled /\ y.onEvent /\ ~y.waiting
  BY <1>2 DEF ThreadRecord, Flagged, Going, Ready
<1>5. Pause(s)
  <2>1. [Now EXCEPT !.thread[self].onEvent = TRUE] = q
    BY <1>2
  <2> QED
    BY <2>1 DEF Wait
<1>6. ~thread[self].onEvent /\ ~thread[self].scheduled
  BY <1>2 DEF Ready
<1> HIDE DEF y
<1>7. T2 \in [Thread -> ThreadRecord] /\ T2[self] = y
  BY <1>2, <1>3 DEF Table
<1>8. /\ SoundCut(thread, T2, {}, {}, {self}, OnStack, OnStack \ {self}, {}, {})
      /\ Len(stack) = 2 => T2[caller].live
  BY <1>1, <1>3, <1>4, Sleeps
<1> HIDE DEF T2
<1>9. q \in State /\ q.thread = T2 /\ q.active = active /\ q.failed = {}
  BY <1>2, <1>7, WithThreads
<1> HIDE DEF q
<1>10. s = q
  BY <1>6, <1>9 DEF Check
<1>11. CutDone(thread, T2, {self}, OnStack \ {self}, {})
  BY <1>2, <1>8, CutThreads, Zenon
<1>12. /\ \A t \in Thread : T2[t].onEvent <=> thread[t].onEvent \/ t = self
       /\ \A t \in Thread : T2[t].scheduled <=> thread[t].scheduled
  BY <1>4, <1>6, <1>7, <1>11 DEF CutDone, FlagsStay
<1>13. EventLists(T2, waiters')
  <2>1. waiters \in [Events -> Seq(Thread)]
    BY DEF TypeOK
  <2>2. Distinct(waiters) /\ Members(waiters) = {t \in Thread : thread[t].onEvent}
    BY <1>2 DEF Sound, EventLists
  <2>3. self \notin Members(waiters)
    BY <1>6, <2>2
  <2>4. Distinct(waiters') /\ Members(waiters') = Members(waiters) \cup {self}
    BY <1>1, <1>2, <2>1, <2>2, <2>3, WaitersGrow
  <2>5. {t \in Thread : T2[t].onEvent} = {t \in Thread : thread[t].onEvent} \cup {self}
    BY <1>2, <1>12
  <2> QED
    BY <2>2, <2>4, <2>5 DEF EventLists
<1>14. Queues(T2, active, ToSet(later) \cup Members(Rests))
  <2>1. Queues(thread, active, ToSet(later) \cup Members(Rests))
    BY <1>2 DEF Sound
  <2> QED
    BY <1>12, <2>1, QueuesStay
<1>15. Sound(T2, active, later, waiters', OnStack \ {self}, {})
  <2>1. active \in Seq(List) /\ later \in Seq(Thread) /\ IsInjective(later) /\ Members(Rests) \cap ToSet(later) = {}
    BY <1>2 DEF Sound
  <2> QED
    BY <1>11, <1>13, <1>14, <2>1 DEF Sound, CutDone
<1> QED
  BY <1>1, <1>2, <1>5, <1>8, <1>9, <1>10, <1>15, PauseStep

(* The thread that runs does nothing more. *)
LEMMA ContinuesAsIs ==
    ASSUME TypeOK, IInv, stack # <<>>, Going(thread[self]), Continue(Now),
           later' = later, waiters' = waiters
    PROVE  IInv'
<1>1. Sound(thread, active, later, waiters, OnStack, {})
  BY Begins
<1>2. Now \in State /\ Now.thread = thread /\ Now.active = active /\ Now.failed = {}
  BY NowTyped DEF IInv
<1>3. Calls(thread, stack)
  BY DEF IInv
<1> QED
  BY <1>1, <1>2, <1>3, ContinueStep

(* %wait/fork leaves the invariant. *)
LEMMA WaitForkKeeps ==
    ASSUME TypeOK, IInv, WaitFork
    PROVE  IInv'
<1>1. Statement("wait_fork") /\ later' = later /\ waiters' = waiters
  BY DEF WaitFork
<1>2. /\ self \in Thread /\ Ready(thread[self]) /\ Going(thread[self]) /\ thread \in Table
      /\ thread[self] \in ThreadRecord /\ stack # <<>>
      /\ Now \in State /\ Now.thread = thread /\ Now.active = active /\ Now.failed = {}
      /\ Sound(thread, active, later, waiters, OnStack, {})
  BY <1>1, StatementBegins
<1>3. Check(Now, "of_WAIT_FORK", ~thread[self].joining /\ ~thread[self].waiting /\ thread[self].children = {}) = Now
  BY <1>2 DEF Check, Ready
<1>4. CASE thread[self].detached = {}
  <2>1. Continue(Now)
    BY <1>3, <1>4 DEF WaitFork
  <2> QED
    BY <1>1, <1>2, <2>1, ContinuesAsIs
<1>5. CASE thread[self].detached # {}
  <2> DEFINE y == [thread[self] EXCEPT !.waiting = TRUE]
             T2 == [thread EXCEPT ![self] = y]
             q == [Now EXCEPT !.thread = T2]
  <2>1. Pause(q)
    <3>1. [Now EXCEPT !.thread[self].waiting = TRUE] = q
      BY <1>2
    <3> QED
      BY <1>3, <1>5, <3>1 DEF WaitFork
  <2>2. y \in ThreadRecord
    BY <1>2, FlagTyped
  <2>3. /\ Flagged(thread[self], y) /\ ~y.scheduled /\ ~y.onEvent /\ y.waiting /\ y.detached # {}
    BY <1>2, <1>5 DEF ThreadRecord, Flagged, Going, Ready
  <2>4. ~thread[self].onEvent /\ ~thread[self].scheduled
    BY <1>2 DEF Ready
  <2> HIDE DEF y
  <2>5. T2 \in [Thread -> ThreadRecord] /\ T2[self] = y
    BY <1>2, <2>2 DEF Table
  <2>6. /\ SoundCut(thread, T2, {}, {}, {self}, OnStack, OnStack \ {self}, {}, {})
        /\ Len(stack) = 2 => T2[caller].live
    BY <1>1, <2>2, <2>3, Sleeps
  <2> HIDE DEF T2
  <2>7. q \in State /\ q.thread = T2 /\ q.active = active /\ q.failed = {}
    BY <1>2, <2>5, WithThreads
  <2> HIDE DEF q
  <2>8. \A p \in {self} : (T2[p].scheduled <=> thread[p].scheduled) /\ (T2[p].onEvent <=> thread[p].onEvent)
    BY <2>3, <2>4, <2>5
  <2>9. Sound(T2, active, later, waiters, OnStack \ {self}, {})
    BY <1>2, <2>6, <2>8, CutSound
  <2> QED
    BY <1>1, <1>2, <2>1, <2>6, <2>7, <2>9, PauseStep
<1> QED
  BY <1>4, <1>5

(* A call goes on if neither thread changes. *)
LEMMA CallsStay ==
    ASSUME NEW T, NEW T2, NEW K \in Seq(Frame), Calls(T, K),
           \A t \in RunOn(K) :
              /\ (T2[t].live <=> T[t].live) /\ (T2[t].ended <=> T[t].ended)
              /\ T2[t].scope = T[t].scope /\ T2[t].pc = T[t].pc /\ T2[t].children = T[t].children
    PROVE  Calls(T2, K)
<1>1. \A i \in DOMAIN K : K[i].thr \in RunOn(K)
  BY DEF RunOn
<1>2. Len(K) = 2 => 1 \in DOMAIN K /\ 2 \in DOMAIN K
  OBVIOUS
<1>3. Len(K) = 2 => Called(T2, K)
  BY <1>1, <1>2 DEF Calls, Called, Going
<1> QED
  BY <1>1, <1>3 DEF Calls

(* What vthread_schedule_list does to a thread leaves it where it is in the tree. *)
Hooked(x, b) == [x EXCEPT !.onEvent = @ /\ ~b, !.scheduled = @ \/ b]
IsHooked(x, y, b) ==
    /\ Stays(x, y, {}, {}) /\ y.children = x.children /\ y.detached = x.detached /\ y.taskFunc = x.taskFunc
    /\ y.pc = x.pc /\ (y.joining <=> x.joining) /\ (y.waiting <=> x.waiting)
    /\ (y.live <=> x.live) /\ (y.ended <=> x.ended) /\ y.scope = x.scope
    /\ (y.onEvent <=> x.onEvent /\ ~b) /\ (y.scheduled <=> x.scheduled \/ b)

(* The rest stays as it was. *)
LEMMA WokenStays ==
    ASSUME NEW x \in ThreadRecord, FieldsOf(x), NEW b \in BOOLEAN, b => x.live
    PROVE  IsHooked(x, Hooked(x, b), b)
<1> DEFINE y == Hooked(x, b)
<1>1. Stays(x, x, {}, {})
  BY SameStays
<1>2. /\ y.children = x.children /\ y.detached = x.detached /\ y.taskFunc = x.taskFunc
      /\ y.pc = x.pc /\ y.joining = x.joining /\ y.waiting = x.waiting /\ y.parent = x.parent
      /\ y.live = x.live /\ y.ended = x.ended /\ y.scope = x.scope /\ y.inScope = x.inScope
      /\ y.isDetached = x.isDetached
      /\ (y.onEvent <=> x.onEvent /\ ~b) /\ (y.scheduled <=> x.scheduled \/ b)
  BY DEF ThreadRecord, Hooked
<1>3. ~b => y = x
  <2> DEFINE p == x.onEvent /\ ~b
             q == x.scheduled \/ b
  <2>1. x.onEvent \in BOOLEAN /\ x.scheduled \in BOOLEAN
    BY DEF ThreadRecord
  <2>2. y = [x EXCEPT !.onEvent = p, !.scheduled = q]
    BY DEF Hooked
  <2>3. ~b => p = x.onEvent /\ q = x.scheduled
    BY <2>1
  <2> HIDE DEF p, q
  <2> QED
    BY <2>2, <2>3 DEF ThreadRecord
<1> HIDE DEF y
<1>4. Stays(x, y, {}, {})
  BY <1>1, <1>2, <1>3 DEF Stays
<1>5. IsHooked(x, y, b)
  BY <1>2, <1>4 DEF IsHooked
<1> QED
  BY <1>5 DEF y

(* The threads of a waiting list are scheduled. *)
LEMMA WokenUpSound ==
    ASSUME TypeOK, IInv, Sound(thread, active, later, waiters, OnStack, {}), NEW e \in Events,
           NEW s, IsWokenUp(Now, waiters[e], s), waiters[e] # <<>>, NEW W2,
           W2 = [waiters EXCEPT ![e] = <<>>]
    PROVE  /\ s.failed = {} /\ Sound(s.thread, s.active, later, W2, OnStack, {})
           /\ Calls(s.thread, stack)
<1> DEFINE l == waiters[e]
           P == ToSet(l)
           T == thread
           T2 == s.thread
           A2 == s.active
           X == ToSet(later) \cup Members(Rests)
<1>1. waiters \in [Events -> Seq(Thread)] /\ l \in Seq(Thread) /\ l \in List
  BY DEF TypeOK, List
<1>2. /\ T \in Table /\ Fields(T) /\ Kids(T) /\ Placed(T, OnStack) /\ Queues(T, active, X)
      /\ Distinct(waiters) /\ Members(waiters) = {t \in Thread : T[t].onEvent}
      /\ active \in Seq(List) /\ later \in Seq(Thread) /\ IsInjective(later) /\ Members(Rests) \cap ToSet(later) = {}
  BY DEF Sound, Whole, EventLists
<1>3. /\ Distinct(W2) /\ Members(W2) = Members(waiters) \ P /\ IsInjective(l) /\ P \subseteq Members(waiters)
  BY <1>1, <1>2, WaitersTaken
<1>4. /\ s \in State /\ A2 = Append(active, l)
      /\ \A t \in Thread : T2[t] =
            [T[t] EXCEPT !.onEvent = @ /\ ~Contains(l, t), !.scheduled = @ \/ Contains(l, t)]
      /\ (\A t \in P : T[t].onEvent /\ ~T[t].scheduled) => s.failed = {}
  BY NowTyped DEF IsWokenUp, IInv
<1>5. T2 \in Table
  BY <1>4, ThreadsOf DEF Table
<1>6. \A t \in P : t \in Thread /\ T[t].onEvent
  BY <1>2, <1>3
<1>7. \A t \in P : t \in Thread /\ T[t].onEvent /\ T[t].live /\ ~T[t].scheduled /\ t \notin OnStack
  <2> SUFFICES ASSUME NEW t \in P
               PROVE  t \in Thread /\ T[t].onEvent /\ T[t].live /\ ~T[t].scheduled /\ t \notin OnStack
    OBVIOUS
  <2>1. t \in Thread /\ T[t].onEvent
    BY <1>6
  <2> HIDE DEF P
  <2>2. FieldsOf(T[t]) /\ PlaceOf(T[t], t \in OnStack)
    BY <1>2, <2>1 DEF Fields, Placed
  <2>3. T[t].live
    BY <2>1, <2>2, DeletedTyped DEF FieldsOf
  <2> QED
    BY <2>1, <2>2, <2>3 DEF PlaceOf
<1>8. \A t \in Thread : Contains(l, t) <=> t \in P
  BY DEF Contains, ToSet
<1> HIDE DEF l, P, X
<1>9. ASSUME NEW t \in Thread
      PROVE  /\ Stays(T[t], T2[t], {}, {}) /\ T2[t].children = T[t].children /\ T2[t].detached = T[t].detached
             /\ T2[t].taskFunc = T[t].taskFunc /\ T2[t].pc = T[t].pc
             /\ (T2[t].joining <=> T[t].joining) /\ (T2[t].waiting <=> T[t].waiting)
             /\ (T2[t].live <=> T[t].live) /\ (T2[t].ended <=> T[t].ended) /\ T2[t].scope = T[t].scope
             /\ (T2[t].onEvent <=> T[t].onEvent /\ t \notin P)
             /\ (T2[t].scheduled <=> T[t].scheduled \/ t \in P)
  <2> DEFINE b == Contains(l, t)
  <2>1. T[t] \in ThreadRecord /\ T2[t] \in ThreadRecord /\ FieldsOf(T[t])
    BY <1>2, <1>5, Record DEF Fields
  <2>2. b \in BOOLEAN /\ (b <=> t \in P) /\ (b => T[t].live)
    BY <1>7, <1>8 DEF Contains
  <2>3. T2[t] = Hooked(T[t], b)
    BY <1>4 DEF Hooked
  <2> HIDE DEF b, T, T2
  <2>4. IsHooked(T[t], T2[t], b)
    BY <2>1, <2>2, <2>3, WokenStays
  <2> QED
    BY <2>2, <2>4 DEF IsHooked
<1> HIDE DEF T, T2
<1>10. Cut(T, T2, {}, {}) /\ MayCut(T, {}, {}) /\ Knows(T, {}, {}, P)
  <2>1. \A t \in Thread : Stays(T[t], T2[t], {}, {} \cup {})
    <3>1. {} \cup {} = {}
      OBVIOUS
    <3> QED
      BY <1>9, <3>1
  <2> QED
    BY <2>1 DEF Cut, MayCut, Knows
<1>11. Unmoved(T, T2, {}, {}, P)
  BY <1>9 DEF Unmoved, Same
<1>12. \A p \in P : Going(T2[p]) => KidsOf(T2, p)
  <2> SUFFICES ASSUME NEW p \in P, Going(T2[p]) PROVE KidsOf(T2, p)
    OBVIOUS
  <2>1. p \in Thread /\ KidsOf(T, p)
    BY <1>2, <1>7, <1>9 DEF Kids, Going
  <2>2. ToJoin(T2[p]) = ToJoin(T[p])
    BY <1>9, <2>1 DEF ToJoin
  <2>3. T[p].taskFunc \subseteq T[p].children /\ T[p].children \subseteq Thread
    BY <1>2, <2>1, Record DEF KidsOf
  <2>4. \A c \in T[p].children : T2[c].scope = T[c].scope /\ (T2[c].ended <=> T[c].ended)
    BY <1>9, <2>3
  <2> QED
    BY <1>9, <2>1, <2>2, <2>3, <2>4 DEF KidsOf
<1>13. \A p \in P : PlaceOf(T2[p], p \in OnStack)
  <2> SUFFICES ASSUME NEW p \in P PROVE PlaceOf(T2[p], p \in OnStack)
    OBVIOUS
  <2>1. p \in Thread /\ PlaceOf(T[p], p \in OnStack) /\ T[p].onEvent /\ T[p].live
    BY <1>2, <1>7 DEF Placed, T
  <2>2. /\ T2[p].scheduled /\ ~T2[p].onEvent /\ (T2[p].joining <=> T[p].joining) /\ T2[p].live
        /\ (T2[p].waiting <=> T[p].waiting) /\ (T2[p].ended <=> T[p].ended)
    BY <1>9, <2>1
  <2> QED
    BY <2>1, <2>2 DEF PlaceOf
<1>14. SoundCut(T, T2, {}, {}, P, OnStack, OnStack, {}, {})
  <2>1. \A p \in P \ {} : T[p].scheduled \/ T[p].onEvent => T2[p].scheduled \/ T2[p].onEvent
    BY <1>7, <1>9
  <2>2. /\ \A t \in Thread \ P : t \in OnStack => t \in OnStack
        /\ \A t \in Thread \ ({} \cup {} \cup P) : t \in OnStack => t \in OnStack
        /\ {} \subseteq {} \cup {} \cup {}
    OBVIOUS
  <2> QED
    BY <1>5, <1>10, <1>11, <1>12, <1>13, <2>1, <2>2 DEF SoundCut
<1>15. CutDone(T, T2, P, OnStack, {})
  BY <1>14, CutThreads, Zenon DEF T
<1>16. Queues(T2, Append(active, l), X)
  <2>1. \A t \in Thread : T2[t].scheduled <=> T[t].scheduled \/ t \in ToSet(l)
    BY <1>9 DEF P
  <2>2. \A t \in ToSet(l) : ~T[t].scheduled
    BY <1>7 DEF P, T
  <2> QED
    BY <1>1, <1>2, <1>3, <1>5, <2>1, <2>2, QueuesGrow DEF l
<1>17. EventLists(T2, W2)
  <2>1. {t \in Thread : T2[t].onEvent} = {t \in Thread : T[t].onEvent} \ P
    BY <1>9
  <2> QED
    BY <1>2, <1>3, <2>1 DEF EventLists
<1>18. Append(active, l) \in Seq(List)
  BY <1>1, <1>2 DEF l
<1>19. Sound(T2, A2, later, W2, OnStack, {})
  BY <1>2, <1>4, <1>15, <1>16, <1>17, <1>18, Zenon DEF Sound, CutDone, X
<1>20. Calls(T2, stack)
  <2>1. stack \in Seq(Frame) /\ Calls(T, stack)
    BY DEF TypeOK, IInv, Frame, T
  <2>2. \A i \in DOMAIN stack : stack[i] \in Frame
    BY <2>1
  <2>3. \A t \in RunOn(stack) : t \in Thread
    BY <2>2 DEF RunOn, Frame
  <2> QED
    BY <1>9, <2>1, <2>3, CallsStay
<1>21. s.failed = {}
  BY <1>4, <1>7 DEF T
<1> QED
  BY <1>19, <1>20, <1>21 DEF T2

(* %event leaves the invariant. *)
LEMMA EventKeeps ==
    ASSUME TypeOK, IInv, NEW e \in Events, Event(e)
    PROVE  IInv'
<1>1. /\ Statement("event") /\ later' = later /\ waiters' = [waiters EXCEPT ![e] = <<>>]
      /\ Continue(RunWaiting(Now, waiters[e]))
  BY DEF Event
<1>2. /\ stack # <<>> /\ Going(thread[self]) /\ Now \in State
      /\ Sound(thread, active, later, waiters, OnStack, {})
  BY <1>1, StatementBegins
<1>3. waiters \in [Events -> Seq(Thread)]
  BY DEF TypeOK
<1>4. CASE waiters[e] = <<>>
  <2>1. waiters' = waiters
    BY <1>1, <1>3, <1>4
  <2>2. Continue(Now)
    BY <1>1, <1>4 DEF RunWaiting
  <2> QED
    BY <1>1, <1>2, <2>1, <2>2, ContinuesAsIs
<1>5. CASE waiters[e] # <<>>
  <2> DEFINE s == Woken(Now, waiters[e])
  <2>1. Continue(s)
    BY <1>1, <1>5 DEF RunWaiting
  <2>2. waiters[e] \in List
    BY <1>3, <1>5 DEF List
  <2>3. IsWokenUp(Now, waiters[e], s)
    BY <1>2, <2>2, WokenIs, Zenon
  <2> HIDE DEF s
  <2>4. s \in State
    BY <2>3 DEF IsWokenUp
  <2>5. /\ s.failed = {} /\ Sound(s.thread, s.active, later, waiters', OnStack, {})
        /\ Calls(s.thread, stack)
    BY <1>1, <1>2, <1>5, <2>3, WokenUpSound
  <2> QED
    BY <1>1, <1>2, <2>1, <2>4, <2>5, ContinueStep
<1> QED
  BY <1>4, <1>5

--------------------------------------------------------------------------------
(* vthread_reap: the threads D go, some others B have gone before.              *)

(* A thread that is over, with no children left but those that go *)
Stopping(x, w, D) ==
    /\ w.live /\ w.ended /\ w.pc = Null /\ w.children \subseteq D /\ ~w.joining /\ w.scope = x.scope
    /\ w.detached \subseteq x.detached /\ (w.isDetached => x.isDetached)
    /\ (w.scheduled <=> x.scheduled) /\ (w.onEvent <=> x.onEvent)

(* It goes. *)
LEMMA StoppedReaped ==
    ASSUME NEW x \in ThreadRecord, NEW w \in ThreadRecord, NEW D, Stopping(x, w, D)
    PROVE  Gone(x, ReapedDead(w, D))
<1>1. Held(w) <=> Held(x)
  BY DEF Stopping, Held
<1>2. CASE ~Held(w)
  BY <1>1, <1>2 DEF ReapedDead, Gone
<1>3. CASE Held(w)
  <2> DEFINE y == [w EXCEPT !.parent = Nobody, !.inScope = FALSE, !.pc = Null, !.children = @ \ D]
  <2>1. /\ y.live = w.live /\ y.ended = w.ended /\ y.pc = Null /\ y.parent = Nobody
        /\ y.children = w.children \ D /\ y.joining = w.joining /\ y.inScope = FALSE /\ y.scope = w.scope
        /\ y.detached = w.detached /\ y.isDetached = w.isDetached
        /\ y.scheduled = w.scheduled /\ y.onEvent = w.onEvent
    BY DEF ThreadRecord
  <2>2. ReapedDead(w, D) = y
    BY <1>3 DEF ReapedDead
  <2> HIDE DEF y
  <2>3. Gone(x, y)
    BY <1>1, <1>3, <2>1 DEF Gone, Stopping
  <2> QED
    BY <2>2, <2>3
<1> QED
  BY <1>2, <1>3

(* What vthread_reap leaves of the others *)
IsLeft(T, u, D, y) ==
    /\ y.live = T[u].live /\ y.scope = T[u].scope /\ y.inScope = T[u].inScope
    /\ y.taskFunc = T[u].taskFunc /\ y.joining = T[u].joining /\ y.waiting = T[u].waiting
    /\ y.scheduled = T[u].scheduled /\ y.ended = T[u].ended /\ y.onEvent = T[u].onEvent
    /\ y.pc = T[u].pc
    /\ y.parent = IF T[u].parent \notin D THEN T[u].parent
                  ELSE IF T[u].isDetached THEN Nobody ELSE T[T[u].parent].parent
    /\ (y.isDetached <=> T[u].isDetached /\ T[u].parent \notin D)
    /\ y.children = T[u].children \ {d \in D : T[d].parent = u /\ ~T[d].isDetached}
    /\ y.detached = T[u].detached \ {d \in D : T[d].parent = u /\ T[d].isDetached}

(* Their links change only. *)
LEMMA ReapedOtherIs ==
    ASSUME NEW T \in Table, NEW u \in Thread, NEW D
    PROVE  IsLeft(T, u, D, ReapedOther(T, u, D))
<1> DEFINE p == IF T[u].parent \notin D THEN T[u].parent
                ELSE IF T[u].isDetached THEN Nobody ELSE T[T[u].parent].parent
           b == T[u].isDetached /\ T[u].parent \notin D
           c == T[u].children \ {d \in D : T[d].parent = u /\ ~T[d].isDetached}
           e == T[u].detached \ {d \in D : T[d].parent = u /\ T[d].isDetached}
           y == [T[u] EXCEPT !.parent = p, !.isDetached = b, !.children = c, !.detached = e]
<1>1. ReapedOther(T, u, D) = y
  BY DEF ReapedOther
<1>2. T[u] \in ThreadRecord
  BY Record
<1>3. b \in BOOLEAN
  BY <1>2 DEF ThreadRecord
<1> HIDE DEF p, b, c, e
<1>4. /\ y.live = T[u].live /\ y.scope = T[u].scope /\ y.inScope = T[u].inScope
      /\ y.taskFunc = T[u].taskFunc /\ y.joining = T[u].joining /\ y.waiting = T[u].waiting
      /\ y.scheduled = T[u].scheduled /\ y.ended = T[u].ended /\ y.onEvent = T[u].onEvent
      /\ y.pc = T[u].pc /\ y.parent = p /\ y.isDetached = b /\ y.children = c /\ y.detached = e
  BY <1>2 DEF ThreadRecord
<1> HIDE DEF y
<1>5. IsLeft(T, u, D, y)
  BY <1>4 DEF IsLeft, p, b, c, e
<1> QED
  BY <1>1, <1>5

(* An address that is free stays free. *)
LEMMA DeletedReaped ==
    ASSUME NEW T \in Table, NEW u \in Thread, NEW D \in SUBSET Thread, T[u] = Deleted
    PROVE  ReapedOther(T, u, D) = Deleted
<1> DEFINE c == T[u].children \ {d \in D : T[d].parent = u /\ ~T[d].isDetached}
           e == T[u].detached \ {d \in D : T[d].parent = u /\ T[d].isDetached}
           b == T[u].isDetached /\ T[u].parent \notin D
           p == IF T[u].parent \notin D THEN T[u].parent
                ELSE IF T[u].isDetached THEN Nobody ELSE T[T[u].parent].parent
           y == ReapedOther(T, u, D)
<1>1. T[u] \in ThreadRecord /\ Nobody \notin D
  BY Record, Addresses
<1>2. T[u].parent = Nobody /\ ~T[u].isDetached /\ T[u].children = {} /\ T[u].detached = {}
  BY DeletedTyped
<1>3. p = T[u].parent /\ b = T[u].isDetached /\ c = T[u].children /\ e = T[u].detached
  BY <1>1, <1>2 DEF ThreadRecord
<1>4. y = [T[u] EXCEPT !.parent = p, !.isDetached = b, !.children = c, !.detached = e]
  BY DEF ReapedOther
<1> HIDE DEF p, b, c, e, y
<1>5. y = T[u]
  BY <1>1, <1>3, <1>4 DEF ThreadRecord
<1> QED
  BY <1>5 DEF y

(* One that has gone before stays gone. *)
LEMMA GoneReaped ==
    ASSUME NEW T \in Table, NEW u \in Thread, NEW D \in SUBSET Thread, NEW x \in ThreadRecord,
           Gone(x, T[u])
    PROVE  Gone(x, ReapedOther(T, u, D))
<1> DEFINE y == ReapedOther(T, u, D)
<1>1. IsLeft(T, u, D, y) /\ Nobody \notin D
  BY ReapedOtherIs, Addresses
<1>2. T[u] \in ThreadRecord
  BY Record
<1>3. CASE T[u] = Deleted /\ ~Held(x)
  BY <1>3, DeletedReaped DEF Gone
<1>4. CASE ~(T[u] = Deleted /\ ~Held(x))
  <2> HIDE DEF y
  <2>1. Gone(x, y)
    BY <1>1, <1>2, <1>4 DEF Gone, IsLeft
  <2> QED
    BY <2>1 DEF y
<1> QED
  BY <1>3, <1>4

(* The links to those that go are the ones they know of. *)
Losing(T, u, D) ==
    /\ \A d \in D :
          /\ d \in T[u].children => T[d].parent = u /\ ~T[d].isDetached
          /\ d \in T[u].detached /\ Going(T[u]) => T[d].parent = u /\ T[d].isDetached
    /\ T[u].parent \in D => T[u].isDetached

(* One that stays loses sight of those that go. *)
LEMMA StaysReaped ==
    ASSUME NEW T \in Table, NEW u \in Thread, NEW D \in SUBSET Thread, NEW B \in SUBSET Thread,
           NEW C, C = B \/ C = B \cup D, NEW x \in ThreadRecord, FieldsOf(x), Stays(x, T[u], B, C),
           Losing(T, u, D)
    PROVE  /\ Stays(x, ReapedOther(T, u, D), B \cup D, B \cup D)
           /\ Same(T[u], ReapedOther(T, u, D))
<1> DEFINE y == ReapedOther(T, u, D)
           w == T[u]
<1>1. IsLeft(T, u, D, y) /\ Nobody \notin D /\ Nobody \notin B
  BY ReapedOtherIs, Addresses
<1>2. w \in ThreadRecord
  BY Record
<1>3. Same(w, y)
  BY <1>1 DEF IsLeft, Same
<1>4. ~x.live => y = x
  <2>1. ~x.live => w = x /\ x = Deleted
    BY DEF Stays, FieldsOf
  <2> QED
    BY <2>1, DeletedReaped
<1> HIDE DEF y
<1>5. y.children = x.children \ (B \cup D) /\ y.detached \subseteq x.detached
  BY <1>1 DEF IsLeft, Stays, Losing
<1>6. Going(x) => y.detached = x.detached \ (B \cup D)
  <2> SUFFICES ASSUME Going(x)
               PROVE  y.detached = x.detached \ (B \cup D)
    OBVIOUS
  <2>1. Going(w) /\ w.detached = x.detached \ B
    BY DEF Stays, Going
  <2> QED
    BY <1>1, <2>1 DEF IsLeft, Losing
<1>7. /\ y.parent = IF x.isDetached /\ x.parent \in B \cup D THEN Nobody ELSE x.parent
      /\ y.isDetached <=> x.isDetached /\ x.parent \notin B \cup D
  <2>1. /\ w.parent = IF x.isDetached /\ x.parent \in C THEN Nobody ELSE x.parent
        /\ w.isDetached <=> x.isDetached /\ x.parent \notin C
    BY DEF Stays
  <2>2. /\ y.parent = IF w.parent \in D THEN Nobody ELSE w.parent
        /\ y.isDetached <=> w.isDetached /\ w.parent \notin D
    BY <1>1 DEF IsLeft, Losing
  <2>3. w.parent \in D => w.isDetached
    BY DEF Losing
  <2> QED
    BY <1>1, <2>1, <2>2, <2>3
<1>8. Stays(x, y, B \cup D, B \cup D)
  BY <1>1, <1>4, <1>5, <1>6, <1>7 DEF Stays, IsLeft
<1> QED
  BY <1>3, <1>8 DEF y

(* A thread is reaped, others stay: Reaped is what vthread_reap does to the      *)
(* threads T1, which have come from T.                                          *)
Reaps(T1, T2, D) ==
    /\ \A u \in D : T2[u] = ReapedDead(T1[u], D)
    /\ \A u \in Thread \ D : T2[u] = ReapedOther(T1, u, D)

Reaping(T, T1, B, C, D) ==
    /\ \A u \in B : Gone(T[u], T1[u])
    /\ \A u \in D : Stopping(T[u], T1[u], D)
    /\ \A u \in Thread \ (B \cup D) : Stays(T[u], T1[u], B, C) /\ Losing(T1, u, D)

(* All that were to go have gone. *)
LEMMA ReapCut ==
    ASSUME NEW T \in Table, NEW T1 \in Table, NEW T2 \in Table, Fields(T),
           NEW B \in SUBSET Thread, NEW D \in SUBSET Thread, B \cap D = {},
           NEW C, C = B \/ C = B \cup D, Reaping(T, T1, B, C, D), Reaps(T1, T2, D)
    PROVE  /\ Cut(T, T2, B \cup D, {})
           /\ \A u \in Thread \ (B \cup D) : Same(T1[u], T2[u])
<1>1. \A u \in Thread : T[u] \in ThreadRecord /\ T1[u] \in ThreadRecord /\ FieldsOf(T[u])
  BY Record DEF Fields
<1>2. \A u \in B : Gone(T[u], T2[u])
  <2> SUFFICES ASSUME NEW u \in B PROVE Gone(T[u], T2[u])
    OBVIOUS
  <2>1. Gone(T[u], T1[u]) /\ T2[u] = ReapedOther(T1, u, D)
    BY DEF Reaping, Reaps
  <2> QED
    BY <1>1, <2>1, GoneReaped
<1>3. \A u \in D : Gone(T[u], T2[u])
  <2> SUFFICES ASSUME NEW u \in D PROVE Gone(T[u], T2[u])
    OBVIOUS
  <2>1. Stopping(T[u], T1[u], D) /\ T2[u] = ReapedDead(T1[u], D)
    BY DEF Reaping, Reaps
  <2> QED
    BY <1>1, <2>1, StoppedReaped
<1>4. \A u \in Thread \ (B \cup D) : Stays(T[u], T2[u], B \cup D, B \cup D) /\ Same(T1[u], T2[u])
  <2> SUFFICES ASSUME NEW u \in Thread \ (B \cup D)
               PROVE  Stays(T[u], T2[u], B \cup D, B \cup D) /\ Same(T1[u], T2[u])
    OBVIOUS
  <2>1. Stays(T[u], T1[u], B, C) /\ Losing(T1, u, D) /\ T2[u] = ReapedOther(T1, u, D)
    BY DEF Reaping, Reaps
  <2>2. /\ Stays(T[u], ReapedOther(T1, u, D), B \cup D, B \cup D)
        /\ Same(T1[u], ReapedOther(T1, u, D))
    BY <1>1, <2>1, StaysReaped
  <2> QED
    BY <2>1, <2>2
<1>5. (B \cup D) \cup {} = B \cup D
  OBVIOUS
<1> QED
  BY <1>2, <1>3, <1>4, <1>5 DEF Cut

(* What vthread_reap does to threads it may reap *)
LEMMA ReapDone ==
    ASSUME NEW r \in State, r.failed = {}, NEW D \in SUBSET Thread, Reapable(r.thread, D), NEW s,
           s = Reap(r, D)
    PROVE  /\ s \in State /\ s.active = r.active /\ s.failed = {}
           /\ s.thread \in Table /\ r.thread \in Table /\ Reaps(r.thread, s.thread, D)
<1>1. IsReaped(r, D, s)
  BY ReapIs
<1>2. r.thread \in Table
  BY ThreadsOf DEF Table
<1>3. s \in State /\ s.active = r.active /\ s.failed = {}
  BY <1>1 DEF IsReaped
<1>4. s.thread \in Table
  BY <1>3, ThreadsOf DEF Table
<1>5. Reaps(r.thread, s.thread, D)
  BY <1>1 DEF IsReaped, Reaps
<1> QED
  BY <1>2, <1>3, <1>4, <1>5

(* The links of a thread stay. *)
SameLinks(x, w) ==
    /\ w.parent = x.parent /\ (w.isDetached <=> x.isDetached) /\ w.children = x.children
    /\ w.detached = x.detached /\ (w.live <=> x.live) /\ (w.ended <=> x.ended)

(* Then they lead where they led. *)
LEMMA TreeLosing ==
    ASSUME NEW T \in Table, NEW T1 \in Table, Tree(T), NEW D \in SUBSET Thread, NEW u \in Thread,
           \A d \in D : T1[d].parent = T[d].parent /\ (T1[d].isDetached <=> T[d].isDetached),
           SameLinks(T[u], T1[u]), T[u].parent \in D => T[u].isDetached
    PROVE  Losing(T1, u, D)
<1>1. \A d \in D : d \in T1[u].children => T1[d].parent = u /\ ~T1[d].isDetached
  BY DEF Tree, SameLinks
<1>2. \A d \in D : d \in T1[u].detached /\ Going(T1[u]) => T1[d].parent = u /\ T1[d].isDetached
  BY DEF Tree, SameLinks, Going
<1> QED
  BY <1>1, <1>2 DEF Losing, SameLinks

(* The opcodes left *)
LEMMA Shapes ==
    /\ Joins(<<>>) = 0 /\ ~Detaches(<<>>) /\ <<>> # Null
    /\ Joins(<<"join">>) = 1 /\ ~Detaches(<<"join">>) /\ <<"join">> # Null
    /\ Joins(<<"join", "join">>) = 2 /\ ~Detaches(<<"join", "join">>) /\ <<"join", "join">> # Null
    /\ Joins(<<"join", "detach">>) = 1 /\ Detaches(<<"join", "detach">>) /\ <<"join", "detach">> # Null
    /\ Joins(<<"detach">>) = 0 /\ Detaches(<<"detach">>) /\ <<"detach">> # Null
    /\ Joins(Null) = 0 /\ ~Detaches(Null)
<1>1. /\ <<"join">> # <<"join", "join">> /\ <<>> # <<"join", "join">> /\ <<"join", "detach">> # <<"join", "join">>
      /\ <<"detach">> # <<"join", "join">> /\ Null # <<"join", "join">>
  BY DEF Null
<1>2. /\ <<>> # <<"join">> /\ <<"detach">> # <<"join">> /\ Null # <<"join">> /\ <<"join", "join">> # <<"join">>
      /\ <<>> # <<"join", "detach">> /\ <<"detach">> # <<"join", "detach">> /\ Null # <<"join", "detach">>
  BY DEF Null
<1>3. <<>> # <<"detach">> /\ <<"join">> # <<"detach">> /\ Null # <<"detach">> /\ <<>> # Null
  BY DEF Null
<1>4. <<"join">> # <<"join", "detach">>
  OBVIOUS
<1> QED
  BY <1>1, <1>2, <1>3, <1>4 DEF Joins, Detaches

(* A %join is taken off. *)
LEMMA JoinOff ==
    ASSUME NEW pc \in PcShapes, pc # <<>>, Head(pc) = "join"
    PROVE  /\ Tail(pc) \in PcShapes /\ Joins(pc) = Joins(Tail(pc)) + 1 /\ Joins(Tail(pc)) \in Nat
           /\ (Detaches(Tail(pc)) <=> Detaches(pc)) /\ pc # Null /\ Tail(pc) # Null
<1>1. pc = <<"join">> \/ pc = <<"join", "join">> \/ pc = <<"join", "detach">>
  BY DEF PcShapes, Null
<1>2. CASE pc = <<"join">>
  <2>1. Tail(pc) = <<>>
    BY <1>2
  <2> QED
    BY <1>2, <2>1, Shapes DEF PcShapes
<1>3. CASE pc = <<"join", "join">>
  <2>1. Tail(pc) = <<"join">>
    BY <1>3
  <2> QED
    BY <1>3, <2>1, Shapes DEF PcShapes
<1>4. CASE pc = <<"join", "detach">>
  <2>1. Tail(pc) = <<"detach">>
    BY <1>4
  <2> QED
    BY <1>4, <2>1, Shapes DEF PcShapes
<1> QED
  BY <1>1, <1>2, <1>3, <1>4

(* A parent has one child less, and one %join less to execute. *)
LEMMA KidsLess ==
    ASSUME NEW T \in Table, NEW T2 \in Table, NEW p \in Thread, NEW c, KidsOf(T, p),
           c \in T[p].children, T2[p].children = T[p].children \ {c}, T2[p].detached = T[p].detached,
           T2[p].taskFunc = T[p].taskFunc \ {c}, ~T2[p].joining,
           T2[p].waiting => T2[p].detached # {},
           Detaches(T2[p].pc) <=> Detaches(T[p].pc),
           ToJoin(T2[p]) \in Nat, ToJoin(T[p]) = ToJoin(T2[p]) + 1,
           \A d \in T[p].children \ {c} : T2[d].scope = T[d].scope
    PROVE  KidsOf(T2, p)
<1> DEFINE k == T[p].children
           m == ToJoin(T2[p])
<1>1. k \in SUBSET Thread
  BY Record
<1>2. /\ IsFiniteSet(k) /\ Cardinality(k \ {c}) = Cardinality(k) - 1 /\ Cardinality(k) \in Nat
  <2>1. IsFiniteSet(k) /\ Cardinality(k) \in Nat
    BY <1>1, FewThreads
  <2> QED
    BY <2>1, FS_RemoveElement
<1>3. T[p].taskFunc = {} \/ T[p].taskFunc = k
  BY DEF KidsOf
<1>4. IF Detaches(T[p].pc) THEN m + 1 < Cardinality(k) /\ T[p].taskFunc = {} ELSE m + 1 = Cardinality(k)
  BY DEF KidsOf
<1>5. m \in Nat
  OBVIOUS
<1> HIDE DEF k, m
<1>6. IF Detaches(T2[p].pc) THEN m < Cardinality(k \ {c}) /\ T2[p].taskFunc = {} ELSE m = Cardinality(k \ {c})
  <2>1. CASE Detaches(T[p].pc)
    <3>1. T2[p].taskFunc = {}
      BY <1>4, <2>1
    <3>2. m < Cardinality(k \ {c})
      BY <1>2, <1>4, <1>5, <2>1
    <3> QED
      BY <2>1, <3>1, <3>2
  <2>2. CASE ~Detaches(T[p].pc)
    <3>1. m = Cardinality(k \ {c})
      BY <1>2, <1>4, <1>5, <2>2
    <3> QED
      BY <2>2, <3>1
  <2> QED
    BY <2>1, <2>2
<1>7. T2[p].children = k \ {c} /\ (T2[p].taskFunc = {} \/ T2[p].taskFunc = k \ {c})
  BY <1>3 DEF k
<1>8. \A d \in T2[p].taskFunc : T2[d].scope \in Tasks \cup Functions
  BY <1>3 DEF KidsOf, k
<1>9. ToJoin(T2[p]) > 0 => T2[p].detached = {}
  <2>1. ToJoin(T[p]) > 0
    BY <1>5 DEF m
  <2> QED
    BY <2>1 DEF KidsOf
<1> QED
  BY <1>6, <1>7, <1>8, <1>9 DEF KidsOf, m

(* What holds when a thread executes an opcode of its statement *)
LEMMA OpcodeBegins ==
    ASSUME TypeOK, IInv, NEW op, Opcode(op), op # "zombie"
    PROVE  /\ stack # <<>> /\ self \in Thread /\ self \in OnStack /\ thread \in Table
           /\ thread[self].pc # <<>> /\ Head(thread[self].pc) = op /\ thread[self].pc \in PcShapes
           /\ Going(thread[self]) /\ thread[self] \in ThreadRecord /\ FieldsOf(thread[self])
           /\ KidsOf(thread, self) /\ Fields(thread) /\ Tree(thread)
           /\ ~thread[self].joining /\ ~thread[self].waiting
           /\ ~thread[self].scheduled /\ ~thread[self].onEvent
           /\ Now \in State /\ Now.thread = thread /\ Now.active = active /\ Now.failed = {}
           /\ Sound(thread, active, later, waiters, OnStack, {})
<1> DEFINE x == thread[self]
<1>1. stack # <<>> /\ x.pc # <<>> /\ Head(x.pc) = op
  BY DEF Opcode, Running
<1>2. self \in Thread /\ self \in OnStack /\ x.live /\ thread \in Table
  BY <1>1, StackIs DEF TypeOK, Table
<1>3. x \in ThreadRecord /\ FieldsOf(x) /\ Fields(thread) /\ Tree(thread)
  BY <1>2, Record DEF IInv, Whole, Fields
<1>4. Going(x)
  <2>1. x.pc # Null
    BY <1>1 DEF Null
  <2> QED
    BY <1>2, <1>3, <2>1 DEF FieldsOf, Going
<1>5. KidsOf(thread, self) /\ x.pc \in PcShapes
  BY <1>2, <1>3, <1>4 DEF IInv, Kids, FieldsOf
<1>6. ~x.joining /\ ~x.waiting /\ ~x.scheduled /\ ~x.onEvent
  BY <1>2, <1>4, Awake
<1>7. Sound(thread, active, later, waiters, OnStack, {})
  BY <1>1, <1>4, Begins
<1>8. Now \in State /\ Now.thread = thread /\ Now.active = active /\ Now.failed = {}
  BY NowTyped DEF IInv
<1> QED
  BY <1>1, <1>2, <1>3, <1>4, <1>5, <1>6, <1>7, <1>8

(* A call goes on when threads go, but for its own two. *)
LEMMA CutCalls ==
    ASSUME TypeOK, IInv, stack # <<>>, NEW T2 \in Table, NEW D, NEW E,
           Cut(thread, T2, D, E), self \notin D \cup E, Len(stack) = 2 => caller \notin D \cup E,
           Len(stack) = 2 => T2[caller].pc = thread[caller].pc
    PROVE  Calls(T2, stack)
<1>1. /\ stack \in Seq(Frame) /\ self \in Thread /\ self = stack[1].thr /\ thread[self].live
      /\ Len(stack) = 1 \/ Len(stack) = 2
  BY StackIs
<1>2. Stays(thread[self], T2[self], D, D \cup E)
  BY <1>1 DEF Cut
<1>3. CASE Len(stack) = 1
  <2>1. DOMAIN stack = {1}
    BY <1>1, <1>3
  <2> QED
    BY <1>1, <1>2, <1>3, <2>1 DEF Calls, Stays
<1>4. CASE Len(stack) = 2
  <2>1. Called(thread, stack) /\ caller \in Thread /\ caller = stack[2].thr
    BY <1>4, StackIs DEF caller
  <2>2. Stays(thread[caller], T2[caller], D, D \cup E)
    BY <1>4, <2>1 DEF Cut
  <2>3. DOMAIN stack = {1, 2}
    BY <1>1, <1>4
  <2>4. T2[self].live /\ T2[caller].live
    BY <1>1, <1>2, <2>1, <2>2 DEF Stays, Called, Going
  <2>5. Called(T2, stack)
    <3>1. T2[caller].children = {self}
      BY <1>1, <2>1, <2>2 DEF Called, Stays
    <3> QED
      BY <1>1, <1>2, <1>4, <2>1, <2>2, <3>1 DEF Called, Stays, Going
  <2> QED
    BY <1>1, <1>4, <2>1, <2>3, <2>4, <2>5 DEF Calls
<1> QED
  BY <1>1, <1>3, <1>4

(* One opcode is taken off the running thread. *)
Stepped(x) == [x EXCEPT !.pc = Tail(@)]

(* What %join begins with *)
LEMMA JoinBegins ==
    ASSUME TypeOK, IInv, Opcode("join")
    PROVE  /\ thread[self].children # {}
           /\ \A c \in thread[self].children : Joinable(thread, self, c) /\ c \in Thread /\ c # self
           /\ Tail(thread[self].pc) \in PcShapes /\ Tail(thread[self].pc) # Null
           /\ Tail(thread[self].pc) \in Seq(Opcodes)
           /\ Joins(thread[self].pc) = Joins(Tail(thread[self].pc)) + 1
           /\ Joins(Tail(thread[self].pc)) \in Nat /\ ToJoin(thread[self]) = Joins(thread[self].pc)
           /\ (Detaches(Tail(thread[self].pc)) <=> Detaches(thread[self].pc))
           /\ thread[self].detached = {} /\ thread[self].pc # Null
<1> DEFINE x == thread[self]
<1>1. /\ x.pc \in PcShapes /\ x.pc # <<>> /\ Head(x.pc) = "join" /\ KidsOf(thread, self) /\ ~x.joining
      /\ self \in Thread /\ thread \in Table /\ Tree(thread) /\ x \in ThreadRecord
  BY OpcodeBegins
<1>2. /\ Tail(x.pc) \in PcShapes /\ Joins(x.pc) = Joins(Tail(x.pc)) + 1 /\ Joins(Tail(x.pc)) \in Nat
      /\ (Detaches(Tail(x.pc)) <=> Detaches(x.pc)) /\ x.pc # Null /\ Tail(x.pc) # Null
  BY <1>1, JoinOff
<1>3. x.pc \in Seq(Opcodes) /\ x.children \in SUBSET Thread
  BY <1>1, Record
<1>4. Tail(x.pc) \in Seq(Opcodes)
  BY <1>1, <1>3
<1>5. ToJoin(x) = Joins(x.pc)
  BY <1>1, <1>2 DEF ToJoin
<1>6. ToJoin(x) > 0 /\ ToJoin(x) \in Nat
  BY <1>2, <1>5
<1>7. x.detached = {}
  BY <1>1, <1>6 DEF KidsOf
<1>8. x.children # {}
  <2>1. Cardinality(x.children) # 0
    BY <1>1, <1>3, <1>6, FewThreads DEF KidsOf
  <2> QED
    BY <1>3, <2>1, FewThreads
<1>9. \A c \in x.children : Joinable(thread, self, c) /\ c \in Thread
  BY <1>1, <1>3 DEF KidsOf, Joinable
<1>10. \A c \in x.children : c # self
  <2> SUFFICES ASSUME self \in x.children PROVE FALSE
    OBVIOUS
  <2>1. x.parent = self
    BY <1>1 DEF Tree
  <2>2. Rooted(thread) /\ {self} \in SUBSET Thread
    BY <1>1 DEF IInv, Whole
  <2>3. \E t \in {self} : thread[t].parent \notin {self}
    BY <2>2, Zenon DEF Rooted
  <2> QED
    BY <2>1, <2>3
<1> QED
  BY <1>2, <1>4, <1>5, <1>7, <1>8, <1>9, <1>10

(* %join puts the thread to sleep. *)
LEMMA JoinSleeps ==
    ASSUME TypeOK, IInv, Join, \A c \in thread[self].children : ~thread[c].ended
    PROVE  IInv'
<1> DEFINE x == thread[self]
           w == Stepped(x)
           y == [w EXCEPT !.joining = TRUE]
           T0 == [thread EXCEPT ![self] = w]
           T2 == [thread EXCEPT ![self] = y]
           q0 == [Now EXCEPT !.thread = T0]
           q == [q0 EXCEPT !.thread = T2]
<1>1. Opcode("join") /\ later' = later /\ waiters' = waiters
  BY DEF Join
<1>2. /\ self \in Thread /\ Going(x) /\ thread \in Table /\ x \in ThreadRecord /\ stack # <<>>
      /\ Now \in State /\ Now.thread = thread /\ Now.active = active /\ Now.failed = {}
      /\ Sound(thread, active, later, waiters, OnStack, {}) /\ Fields(thread) /\ FieldsOf(x)
      /\ KidsOf(thread, self) /\ ~x.joining /\ ~x.scheduled /\ ~x.onEvent /\ ~x.waiting
  BY <1>1, OpcodeBegins
<1>3. /\ x.children # {} /\ x.children \subseteq Thread
      /\ Tail(x.pc) \in PcShapes /\ Tail(x.pc) # Null /\ Tail(x.pc) \in Seq(Opcodes) /\ x.pc # Null
      /\ Joins(x.pc) = Joins(Tail(x.pc)) + 1 /\ Joins(Tail(x.pc)) \in Nat /\ ToJoin(x) = Joins(x.pc)
      /\ (Detaches(Tail(x.pc)) <=> Detaches(x.pc)) /\ x.detached = {}
  BY <1>1, JoinBegins
<1>4. w \in ThreadRecord /\ y \in ThreadRecord
  BY <1>2, <1>3 DEF ThreadRecord, Stepped
<1>5. /\ y.live = x.live /\ y.scope = x.scope /\ y.inScope = x.inScope /\ y.parent = x.parent
      /\ y.children = x.children /\ y.detached = x.detached /\ y.taskFunc = x.taskFunc
      /\ y.joining = TRUE /\ y.isDetached = x.isDetached /\ y.waiting = x.waiting
      /\ y.scheduled = x.scheduled /\ y.ended = x.ended /\ y.onEvent = x.onEvent /\ y.pc = Tail(x.pc)
  BY <1>2 DEF ThreadRecord, Stepped
<1>6. [q0 EXCEPT !.thread[self].joining = TRUE] = q
  <2>1. T0 \in [Thread -> ThreadRecord] /\ T0[self] = w
    BY <1>2, <1>4 DEF Table
  <2> HIDE DEF w, T0
  <2>2. q0.thread = T0
    BY <1>2, <2>1, WithThreads
  <2> HIDE DEF q0
  <2>3. [q0 EXCEPT !.thread[self].joining = TRUE] =
        [q0 EXCEPT !.thread = [T0 EXCEPT ![self] = [w EXCEPT !.joining = TRUE]]]
    BY <2>1, <2>2
  <2>4. [T0 EXCEPT ![self] = y] = T2
    BY <1>2 DEF T0, Table
  <2> QED
    BY <2>3, <2>4
<1>7. Pause(q)
  <2>1. [Now EXCEPT !.thread[self].pc = Tail(@)] = q0
    BY <1>2 DEF Stepped
  <2>2. Check(q0, "of_JOIN", ~x.joining /\ x.children # {}) = q0
    BY <1>2, <1>3 DEF Check
  <2>3. {c \in Over(x.children) : Joinable(thread, self, c)} = {}
    BY DEF Over
  <2> HIDE DEF q0, q
  <2> QED
    BY <1>6, <2>1, <2>2, <2>3 DEF Join
<1>8. q \in State /\ q.thread = T2 /\ q.active = active /\ q.failed = {}
  <2>1. T0 \in [Thread -> ThreadRecord] /\ T2 \in [Thread -> ThreadRecord]
    BY <1>2, <1>4 DEF Table
  <2> HIDE DEF T0, T2
  <2>2. q0 \in State /\ q0.active = active /\ q0.failed = {}
    BY <1>2, <2>1, WithThreads
  <2> HIDE DEF q0
  <2> QED
    BY <2>1, <2>2, WithThreads
<1>9. T2[self] = y /\ \A t \in Thread \ {self} : T2[t] = thread[t]
  BY <1>2 DEF Table
<1>10. Stays(x, y, {}, {})
  <2>1. Stays(x, x, {}, {})
    BY <1>2, SameStays
  <2> HIDE DEF x, y
  <2> QED
    BY <1>2, <1>3, <1>5, <2>1 DEF Stays, Going
<1> HIDE DEF y, w, q
<1>11. KidsOf(T2, self)
  <2>1. ToJoin(y) = ToJoin(x)
    BY <1>3, <1>5 DEF ToJoin
  <2>2. \A c \in x.children : ~T2[c].ended /\ T2[c].scope = thread[c].scope
    BY <1>2, <1>3, <1>5, <1>9 DEF Going
  <2>3. x.taskFunc \subseteq x.children
    BY <1>2 DEF KidsOf
  <2>4. (Detaches(y.pc) <=> Detaches(x.pc)) /\ ToJoin(x) \in Nat
    BY <1>3, <1>5
  <2> HIDE DEF T2
  <2> QED
    BY <1>2, <1>3, <1>5, <1>9, <2>1, <2>2, <2>3, <2>4 DEF KidsOf
<1>12. PlaceOf(y, self \in OnStack \ {self})
  BY <1>2, <1>5 DEF PlaceOf
<1>13. SoundCut(thread, T2, {}, {}, {self}, OnStack, OnStack \ {self}, {}, {})
  <2>1. self \in {} \/ (x.scheduled \/ x.onEvent => y.scheduled \/ y.onEvent)
    BY <1>2
  <2>2. (OnStack \ {self}) \ {self} = OnStack \ {self} /\ {} \subseteq {}
    OBVIOUS
  <2> QED
    BY <1>2, <1>4, <1>10, <1>11, <1>12, <2>1, <2>2, ChangeCut, Zenon
<1>14. Len(stack) = 2 => T2[caller].live
  BY <1>2, <1>9, CallerLives DEF Going
<1> HIDE DEF T2
<1>15. \A p \in {self} : (T2[p].scheduled <=> thread[p].scheduled) /\ (T2[p].onEvent <=> thread[p].onEvent)
  BY <1>5, <1>9
<1>16. Sound(T2, active, later, waiters, OnStack \ {self}, {})
  BY <1>2, <1>13, <1>15, CutSound
<1> QED
  BY <1>1, <1>2, <1>7, <1>8, <1>14, <1>16, PauseStep

(* A thread that has ended has neither children nor a wish to be woken up. *)
LEMMA EndedIsBare ==
    ASSUME NEW T \in Table, Fields(T), NEW c \in Thread, T[c].live, T[c].ended
    PROVE  T[c].pc = Null /\ T[c].children = {} /\ ~T[c].joining /\ (T[c].parent # Nobody => T[c].detached = {})
BY DEF Fields, FieldsOf

(* Children D of p that have ended go, p becomes w and has them no more. *)
JoinedCut(T, T2, p, D, w) ==
    /\ MayCut(T, D, {}) /\ Cut(T, T2, D, {}) /\ Knows(T, D, {}, {p})
    /\ Unmoved(T, T2, D, {}, {p}) /\ Same(w, T2[p])
    /\ T2[p].children = T[p].children \ D /\ T2[p].detached = T[p].detached
    /\ Going(T2[p])

(* This is what becomes of the threads. *)
LEMMA JoinCut ==
    ASSUME NEW T \in Table, Fields(T), Tree(T), NEW p \in Thread, NEW D \in SUBSET Thread, p \notin D,
           Going(T[p]), D \subseteq T[p].children, \A c \in D : T[c].ended,
           NEW w \in ThreadRecord, SameLinks(T[p], w), Stays(T[p], w, {}, {}),
           NEW T2 \in Table, Reaps([T EXCEPT ![p] = w], T2, D)
    PROVE  JoinedCut(T, T2, p, D, w)
<1> DEFINE T1 == [T EXCEPT ![p] = w]
<1>0. Reaps(T1, T2, D)
  OBVIOUS
<1>1. T1 \in Table /\ T1[p] = w /\ \A t \in Thread \ {p} : T1[t] = T[t]
  BY DEF Table
<1> HIDE DEF T1
<1>2. \A c \in D : T[c].live /\ T[c].parent = p /\ ~T[c].isDetached
  BY DEF Tree
<1>3. \A c \in D : T[c].pc = Null /\ T[c].children = {} /\ ~T[c].joining
  BY <1>2, EndedIsBare
<1>4. \A u \in Thread : T[u].parent \notin D
  <2> SUFFICES ASSUME NEW u \in Thread, T[u].parent \in D PROVE FALSE
    OBVIOUS
  <2>1. T[u].parent # Nobody
    BY Addresses
  <2> QED
    BY <2>1, ParentIs DEF Going
<1>5. \A u \in Thread \ D : Stays(T[u], T1[u], {}, {}) /\ Losing(T1, u, D) /\ (u # p => Same(T[u], T1[u]))
  <2> SUFFICES ASSUME NEW u \in Thread \ D
               PROVE  Stays(T[u], T1[u], {}, {}) /\ Losing(T1, u, D) /\ (u # p => Same(T[u], T1[u]))
    OBVIOUS
  <2>1. T[u] \in ThreadRecord /\ FieldsOf(T[u])
    BY Record DEF Fields
  <2>2. Stays(T[u], T1[u], {}, {})
    BY <1>1, <2>1, SameStays
  <2>3. SameLinks(T[u], T1[u]) /\ (u # p => Same(T[u], T1[u]))
    BY <1>1 DEF SameLinks, Same
  <2>4. \A d \in D : T1[d].parent = T[d].parent /\ (T1[d].isDetached <=> T[d].isDetached)
    BY <1>1
  <2>5. T[u].parent \in D => T[u].isDetached
    BY <1>4
  <2>6. Losing(T1, u, D)
    BY <1>1, <2>3, <2>4, <2>5, TreeLosing
  <2> QED
    BY <2>2, <2>3, <2>6
<1>6. Reaping(T, T1, {}, {}, D)
  <2>1. \A u \in D : Stopping(T[u], T1[u], D)
    BY <1>1, <1>2, <1>3 DEF Stopping
  <2> QED
    BY <1>5, <2>1 DEF Reaping
<1>7. Cut(T, T2, {} \cup D, {}) /\ \A u \in Thread \ ({} \cup D) : Same(T1[u], T2[u])
  <2>1. {} \in SUBSET Thread /\ {} \cap D = {} /\ ({} = {} \/ {} = {} \cup D)
    OBVIOUS
  <2> QED
    BY <1>0, <1>1, <1>6, <2>1, ReapCut, Zenon
<1>8. {} \cup D = D
  OBVIOUS
<1>9. Cut(T, T2, D, {}) /\ \A u \in Thread \ D : Same(T1[u], T2[u])
  BY <1>7, <1>8
<1>10. Unmoved(T, T2, D, {}, {p}) /\ Same(w, T2[p])
  BY <1>1, <1>5, <1>9 DEF Unmoved, Same
<1>11. MayCut(T, D, {}) /\ Knows(T, D, {}, {p})
  BY <1>2, <1>3 DEF MayCut, Knows
<1>12. Stays(T[p], T2[p], D, D)
  <2>1. D \cup {} = D
    OBVIOUS
  <2> QED
    BY <1>9, <2>1 DEF Cut
<1>13. T2[p].children = T[p].children \ D /\ T2[p].detached = T[p].detached \ D /\ Going(T2[p])
  BY <1>12 DEF Stays, Going
<1>14. D \cap T[p].detached = {}
  BY <1>2 DEF Tree
<1>15. T2[p].detached = T[p].detached
  BY <1>13, <1>14
<1> QED
  BY <1>9, <1>10, <1>11, <1>13, <1>15, Zenon DEF JoinedCut

(* %join reaps a child that has ended. *)
LEMMA JoinReaps ==
    ASSUME TypeOK, IInv, Join, NEW k \in thread[self].children, thread[k].ended
    PROVE  IInv'
<1> DEFINE x == thread[self]
           w0 == Stepped(x)
           T0 == [thread EXCEPT ![self] = w0]
           q0 == [Now EXCEPT !.thread = T0]
           over == {i \in Over(x.children) : Joinable(thread, self, i)}
           c == Min(over)
           w == [w0 EXCEPT !.taskFunc = @ \ {c}]
           T1 == [thread EXCEPT ![self] = w]
<1>1. Opcode("join") /\ later' = later /\ waiters' = waiters
  BY DEF Join
<1>2. /\ self \in Thread /\ Going(x) /\ thread \in Table /\ x \in ThreadRecord /\ stack # <<>>
      /\ Now \in State /\ Now.thread = thread /\ Now.active = active /\ Now.failed = {}
      /\ Sound(thread, active, later, waiters, OnStack, {}) /\ Fields(thread) /\ FieldsOf(x)
      /\ KidsOf(thread, self) /\ ~x.joining /\ ~x.scheduled /\ ~x.onEvent /\ ~x.waiting
      /\ Tree(thread) /\ self \in OnStack
  BY <1>1, OpcodeBegins
<1>3. /\ x.children # {} /\ x.children \subseteq Thread
      /\ \A i \in x.children : Joinable(thread, self, i) /\ i # self
      /\ Tail(x.pc) \in PcShapes /\ Tail(x.pc) # Null /\ Tail(x.pc) \in Seq(Opcodes) /\ x.pc # Null
      /\ Joins(x.pc) = Joins(Tail(x.pc)) + 1 /\ Joins(Tail(x.pc)) \in Nat /\ ToJoin(x) = Joins(x.pc)
      /\ (Detaches(Tail(x.pc)) <=> Detaches(x.pc)) /\ x.detached = {}
  BY <1>1, JoinBegins
<1>4. over # {} /\ over \in SUBSET Thread
  BY <1>3 DEF Over
<1>5. c \in x.children /\ thread[c].ended /\ c \in Thread /\ c # self
  <2>1. c \in over
    BY <1>4, MinIn
  <2> QED
    BY <1>3, <2>1 DEF Over
<1> HIDE DEF c
<1>6. w0 \in ThreadRecord /\ w \in ThreadRecord
  BY <1>2, <1>3 DEF ThreadRecord, Stepped
<1>7. /\ w.live = x.live /\ w.scope = x.scope /\ w.inScope = x.inScope /\ w.parent = x.parent
      /\ w.children = x.children /\ w.detached = x.detached /\ w.taskFunc = x.taskFunc \ {c}
      /\ w.joining = x.joining /\ w.isDetached = x.isDetached /\ w.waiting = x.waiting
      /\ w.scheduled = x.scheduled /\ w.ended = x.ended /\ w.onEvent = x.onEvent /\ w.pc = Tail(x.pc)
  BY <1>2 DEF ThreadRecord, Stepped
<1>8. Stays(x, w, {}, {}) /\ SameLinks(x, w)
  <2>1. Stays(x, x, {}, {})
    BY <1>2, SameStays
  <2> HIDE DEF x, w
  <2> QED
    BY <1>2, <1>3, <1>7, <2>1 DEF Stays, Going, SameLinks
<1>9. q0 \in State /\ q0.thread = T0 /\ q0.active = active /\ q0.failed = {}
  <2>1. T0 \in [Thread -> ThreadRecord]
    BY <1>2, <1>6 DEF Table
  <2> HIDE DEF T0
  <2> QED
    BY <1>2, <2>1, WithThreads
<1>10. T0[self] = w0 /\ [T0 EXCEPT ![self].taskFunc = @ \ {c}] = T1 /\ T0[c] = thread[c]
       /\ T1[self] = w /\ \A t \in Thread \ {self} : T1[t] = thread[t]
  BY <1>2, <1>5 DEF Table
<1>11. Continue(DoJoin(q0, self, c))
  <2>1. [Now EXCEPT !.thread[self].pc = Tail(@)] = q0
    BY <1>2 DEF Stepped
  <2>2. Check(q0, "of_JOIN", ~x.joining /\ x.children # {}) = q0
    BY <1>2, <1>3 DEF Check
  <2> HIDE DEF q0
  <2> QED
    BY <1>4, <2>1, <2>2 DEF Join, c
<1>12. PICK q : IsUnlisted(q0, self, c, q) /\ DoJoin(q0, self, c) = Reap(q, {c})
  BY <1>2, <1>5, <1>9, DoJoinIs
<1>13. thread[c].live /\ thread[c].parent = self /\ ~thread[c].isDetached
  BY <1>2, <1>5 DEF Tree
<1> HIDE DEF w, w0, q0
<1>14. q \in State /\ q.active = active /\ q.thread = T1 /\ q.failed = {}
  BY <1>5, <1>9, <1>10, <1>12, <1>13 DEF IsUnlisted
<1>15. Reapable(T1, {c})
  <2>1. thread[c].children = {} /\ thread[c].detached = {}
    <3>1. thread[c].parent # Nobody
      BY <1>2, <1>13, Addresses
    <3> QED
      BY <1>2, <1>5, <1>13, <3>1, EndedIsBare
  <2>2. T1[c] = thread[c] /\ T1[self].children = x.children
    BY <1>5, <1>7, <1>10
  <2> HIDE DEF T1
  <2> QED
    BY <1>5, <1>13, <2>1, <2>2 DEF Reapable
<1> DEFINE s == Reap(q, {c})
<1> HIDE DEF T1
<1>16. /\ s \in State /\ s.active = active /\ s.failed = {} /\ s.thread \in Table
       /\ Reaps(T1, s.thread, {c})
  BY <1>5, <1>14, <1>15, ReapDone
<1> HIDE DEF s
<1> DEFINE T2 == s.thread
<1> HIDE DEF x, over
<1>17. /\ MayCut(thread, {c}, {}) /\ Cut(thread, T2, {c}, {}) /\ Knows(thread, {c}, {}, {self})
       /\ Unmoved(thread, T2, {c}, {}, {self}) /\ Same(w, T2[self])
       /\ T2[self].children = x.children \ {c} /\ T2[self].detached = x.detached
       /\ Going(T2[self])
  <2>1. Reaps([thread EXCEPT ![self] = w], T2, {c}) /\ T2 \in Table
    BY <1>16 DEF T1
  <2>2. /\ self \in Thread /\ Going(thread[self]) /\ thread \in Table /\ Fields(thread) /\ Tree(thread)
        /\ c \in Thread /\ c # self /\ c \in thread[self].children /\ thread[c].ended
        /\ w \in ThreadRecord /\ SameLinks(thread[self], w) /\ Stays(thread[self], w, {}, {})
    BY <1>2, <1>5, <1>6, <1>8 DEF x
  <2>3. {c} \in SUBSET Thread /\ self \notin {c} /\ {c} \subseteq thread[self].children
        /\ \A d \in {c} : thread[d].ended
    BY <2>2
  <2> HIDE DEF T2
  <2>4. JoinedCut(thread, T2, self, {c}, w)
    BY <2>1, <2>2, <2>3, JoinCut
  <2> QED
    BY <2>4 DEF JoinedCut, x
<1>18. KidsOf(T2, self)
  <2>1. ToJoin(T2[self]) = Joins(Tail(x.pc))
    BY <1>2, <1>3, <1>7, <1>17 DEF ToJoin, Same
  <2>2. /\ ToJoin(T2[self]) \in Nat /\ ToJoin(x) = ToJoin(T2[self]) + 1
        /\ (Detaches(T2[self].pc) <=> Detaches(x.pc))
        /\ T2[self].taskFunc = x.taskFunc \ {c} /\ ~T2[self].joining /\ ~T2[self].waiting
    BY <1>2, <1>3, <1>7, <1>17, <2>1 DEF Same
  <2>3. \A d \in x.children \ {c} : T2[d].scope = thread[d].scope
    BY <1>3, <1>17 DEF Cut, Stays
  <2> QED
    BY <1>2, <1>5, <1>16, <1>17, <2>2, <2>3, KidsLess DEF x
<1>19. SoundCut(thread, T2, {c}, {}, {self}, OnStack, OnStack, {}, {})
  <2>1. PlaceOf(T2[self], self \in OnStack)
    BY <1>2, <1>7, <1>17 DEF PlaceOf, Same
  <2>2. \A p \in {self} : /\ Going(T2[p]) => KidsOf(T2, p)
                          /\ PlaceOf(T2[p], p \in OnStack)
                          /\ thread[p].scheduled \/ thread[p].onEvent => T2[p].scheduled \/ T2[p].onEvent
    BY <1>2, <1>18, <2>1 DEF x
  <2> QED
    BY <1>16, <1>17, <2>2 DEF SoundCut
<1>20. \A p \in {self} : (T2[p].scheduled <=> thread[p].scheduled) /\ (T2[p].onEvent <=> thread[p].onEvent)
  BY <1>7, <1>17 DEF Same, x
<1>21. Sound(T2, active, later, waiters, OnStack, {})
  BY <1>2, <1>19, <1>20, CutSound
<1>22. Calls(T2, stack)
  <2>1. Len(stack) = 2 => caller \in Thread /\ caller # self /\ caller # c
    BY <1>2, <1>5, CallerLives DEF Going
  <2>2. Len(stack) = 2 => T2[caller].pc = thread[caller].pc
    BY <1>17, <2>1 DEF Unmoved, Same
  <2> QED
    BY <1>2, <1>5, <1>16, <1>17, <2>1, <2>2, CutCalls
<1> QED
  BY <1>1, <1>2, <1>11, <1>12, <1>16, <1>21, <1>22, ContinueStep DEF s

(* %join leaves the invariant. *)
LEMMA JoinKeeps ==
    ASSUME TypeOK, IInv, Join
    PROVE  IInv'
BY JoinSleeps, JoinReaps

(* A thread that has ended stops to run. *)
LEMMA RunsNoMore ==
    ASSUME NEW T, NEW A, NEW L, NEW W, NEW R, NEW Z, NEW p \in Thread, Sound(T, A, L, W, R, Z),
           ~Going(T[p]), Z \subseteq {p}, RemainsOf(T[p])
    PROVE  Sound(T, A, L, W, R \ {p}, {})
<1>1. Placed(T, R) /\ Remain(T, Z)
  BY DEF Sound
<1>2. Placed(T, R \ {p})
  <2> SUFFICES ASSUME NEW t \in Thread PROVE PlaceOf(T[t], t \in R \ {p})
    BY DEF Placed
  <2>1. PlaceOf(T[t], t \in R)
    BY <1>1 DEF Placed
  <2>2. CASE t = p
    BY <2>1, <2>2 DEF PlaceOf, Going
  <2>3. CASE t # p
    <3>1. t \in R \ {p} <=> t \in R
      BY <2>3
    <3> QED
      BY <2>1, <3>1 DEF PlaceOf
  <2> QED
    BY <2>2, <2>3
<1>3. Remain(T, {})
  BY <1>1 DEF Remain
<1> QED
  BY <1>2, <1>3 DEF Sound

(* A called function goes on. *)
LEMMA FunctionGoes ==
    ASSUME TypeOK, IInv, stack # <<>>, Len(stack) = 2
    PROVE  Going(thread[self])
BY StackIs DEF Called

(* A thread without parent and children goes, and nobody misses it. *)
LEMMA LonelyCut ==
    ASSUME NEW T \in Table, Fields(T), Tree(T), NEW p \in Thread, T[p].parent = Nobody,
           T[p].live, T[p].ended, ~Held(T[p]), NEW T2, T2 = [T EXCEPT ![p] = Deleted]
    PROVE  /\ MayCut(T, {p}, {}) /\ Cut(T, T2, {p}, {}) /\ Knows(T, {p}, {}, {})
           /\ Unmoved(T, T2, {p}, {}, {}) /\ T2 \in Table
<1>1. T2 \in Table /\ T2[p] = Deleted /\ \A t \in Thread \ {p} : T2[t] = T[t]
  BY DeletedTyped DEF Table
<1>2. Gone(T[p], T2[p])
  BY <1>1 DEF Gone
<1>3. T[p].children = {}
  BY EndedIsBare
<1>4. \A u \in Thread : T[u].parent # p
  <2> SUFFICES ASSUME NEW u \in Thread, T[u].parent = p PROVE FALSE
    OBVIOUS
  <2>1. T[u].parent # Nobody
    BY Addresses
  <2> QED
    BY <2>1, ParentIs DEF Going
<1>5. \A u \in Thread \ {p} : Stays(T[u], T2[u], {p}, {p} \cup {}) /\ Same(T[u], T2[u])
  <2> SUFFICES ASSUME NEW u \in Thread \ {p}
               PROVE  Stays(T[u], T2[u], {p}, {p} \cup {}) /\ Same(T[u], T2[u])
    OBVIOUS
  <2>1. T[u] \in ThreadRecord /\ FieldsOf(T[u])
    BY Record DEF Fields
  <2>2. Stays(T[u], T[u], {}, {})
    BY <2>1, SameStays
  <2>3. p \notin T[u].children /\ (Going(T[u]) => p \notin T[u].detached)
    BY Addresses DEF Tree
  <2>4. {p} \cup {} = {p}
    OBVIOUS
  <2>5. T2[u] = T[u]
    BY <1>1
  <2>6. Stays(T[u], T[u], {p}, {p})
    BY <1>4, <2>2, <2>3 DEF Stays
  <2> QED
    BY <2>4, <2>5, <2>6 DEF Same
<1>6. MayCut(T, {p}, {}) /\ Knows(T, {p}, {}, {})
  BY <1>3 DEF MayCut, Knows
<1> QED
  BY <1>1, <1>2, <1>5, <1>6 DEF Cut, Unmoved

(* of_ZOMBIE leaves the invariant. *)
LEMMA ZombieKeeps ==
    ASSUME TypeOK, IInv, Zombie
    PROVE  IInv'
<1> DEFINE x == thread[self]
<1>1. Opcode("zombie") /\ later' = later /\ waiters' = waiters
  BY DEF Zombie
<1>2. /\ stack # <<>> /\ x.pc # <<>> /\ Head(x.pc) = "zombie" /\ self \in Thread /\ self \in OnStack
      /\ thread \in Table /\ x.live
  BY <1>1, StackIs DEF Opcode, Running, TypeOK, Table
<1>3. Fields(thread) /\ Tree(thread) /\ FieldsOf(x) /\ x \in ThreadRecord
  BY <1>2, Record DEF IInv, Whole, Fields
<1>4. x.pc = Null
  <2>1. x.pc \in PcShapes
    BY <1>3 DEF FieldsOf
  <2> HIDE DEF x
  <2> QED
    BY <1>2, <2>1 DEF PcShapes
<1>5. x.ended /\ x.children = {} /\ ~x.scheduled /\ ~x.onEvent
  BY <1>2, <1>3, <1>4, Awake DEF FieldsOf
<1>6. /\ Sound(thread, active, later, waiters, OnStack, {self})
      /\ Now \in State /\ Now.thread = thread /\ Now.active = active /\ Now.failed = {}
  BY <1>2, Begins, NowTyped DEF IInv
<1>7. Len(stack) # 2
  BY <1>2, <1>5, FunctionGoes DEF Going
<1>8. CASE x.parent # Nobody
  <2>1. Pause(Now)
    BY <1>8 DEF Zombie
  <2>2. ~Going(thread[self]) /\ RemainsOf(thread[self])
    BY <1>5, <1>8 DEF Going, RemainsOf
  <2>3. Sound(thread, active, later, waiters, OnStack \ {self}, {})
    BY <1>2, <1>6, <2>2, RunsNoMore
  <2> QED
    BY <1>1, <1>2, <1>6, <1>7, <2>1, <2>3, PauseStep
<1>9. CASE x.parent = Nobody
  <2> DEFINE T2 == [thread EXCEPT ![self] = Deleted]
             q == [Now EXCEPT !.thread = T2]
  <2>1. /\ MayCut(thread, {self}, {}) /\ Cut(thread, T2, {self}, {}) /\ Knows(thread, {self}, {}, {})
        /\ Unmoved(thread, T2, {self}, {}, {}) /\ T2 \in Table
    BY <1>2, <1>3, <1>5, <1>9, LonelyCut DEF Held
  <2>2. Pause(q)
    <3>1. [Now EXCEPT !.thread[self] = Deleted] = q
      BY <1>6
    <3> QED
      BY <1>5, <1>9, <3>1 DEF Zombie
  <2> HIDE DEF T2
  <2>3. q \in State /\ q.thread = T2 /\ q.active = active /\ q.failed = {}
    BY <1>6, <2>1, WithThreads DEF Table
  <2> HIDE DEF q
  <2>4. SoundCut(thread, T2, {self}, {}, {}, OnStack, OnStack \ {self}, {self}, {})
    BY <2>1 DEF SoundCut
  <2>5. \A p \in {} : (T2[p].scheduled <=> thread[p].scheduled) /\ (T2[p].onEvent <=> thread[p].onEvent)
    OBVIOUS
  <2>6. Sound(T2, active, later, waiters, OnStack \ {self}, {})
    BY <1>6, <2>4, <2>5, CutSound
  <2> QED
    BY <1>1, <1>2, <1>7, <2>2, <2>3, <2>6, PauseStep
<1> QED
  BY <1>8, <1>9

--------------------------------------------------------------------------------
(* %end                                                                         *)

(* What the thread that ends leaves of the others, and itself *)
Ending(T, T1) ==
    /\ T1 \in Table
    /\ T1[self].live /\ T1[self].ended /\ T1[self].pc = Null /\ T1[self].children = {}
    /\ T1[self].detached = {} /\ ~T1[self].joining /\ T1[self].scope = T[self].scope
    /\ T1[self].parent = T[self].parent /\ (T1[self].isDetached <=> T[self].isDetached)
    /\ (T1[self].inScope <=> T[self].inScope) /\ ~T1[self].scheduled /\ ~T1[self].onEvent
    /\ \A u \in Thread \ {self} :
          /\ Stays(T[u], T1[u], {}, {self}) /\ Same(T[u], T1[u])
          /\ T1[u].children = T[u].children /\ T1[u].detached = T[u].detached
          /\ T1[u].parent # self
          /\ T1[u].live = T[u].live /\ T1[u].ended = T[u].ended

(* The others but for their links *)
LEMMA EndingOther ==
    ASSUME NEW T \in Table, Fields(T), Tree(T), self \in Thread, Ready(T[self]),
           NEW u \in Thread \ {self}, NEW y, y = EndedThread(T[u], u, T[self].detached)
    PROVE  /\ Stays(T[u], y, {}, {self}) /\ Same(T[u], y)
           /\ y.children = T[u].children /\ y.detached = T[u].detached
           /\ y.parent # self /\ y.live = T[u].live /\ y.ended = T[u].ended
<1> DEFINE x == T[u]
           mine == T[self].detached
<1>1. x \in ThreadRecord /\ FieldsOf(x)
  BY Record DEF Fields
<1>2. Stays(x, x, {}, {}) /\ self # Nobody
  BY <1>1, SameStays, Addresses
<1>3. u \in mine <=> x.isDetached /\ x.parent = self
  <2>1. u \in mine => x.isDetached /\ x.parent = self
    BY DEF Tree, Ready
  <2>2. x.isDetached /\ x.parent = self => u \in mine
    BY <1>2, ParentIs
  <2> QED
    BY <2>1, <2>2
<1>4. ~x.isDetached => x.parent # self
  BY <1>2, ParentIs DEF Ready
<1>5. CASE u \in mine
  <2> DEFINE z == [x EXCEPT !.parent = Nobody, !.isDetached = FALSE]
  <2>1. y = z
    BY <1>5 DEF EndedThread
  <2>2. /\ z.live = x.live /\ z.scope = x.scope /\ z.inScope = x.inScope /\ z.parent = Nobody
        /\ z.children = x.children /\ z.detached = x.detached /\ z.taskFunc = x.taskFunc
        /\ z.joining = x.joining /\ z.isDetached = FALSE /\ z.waiting = x.waiting
        /\ z.scheduled = x.scheduled /\ z.ended = x.ended /\ z.onEvent = x.onEvent /\ z.pc = x.pc
    BY <1>1 DEF ThreadRecord
  <2>3. x.live
    BY <1>5 DEF Tree, Ready
  <2> HIDE DEF z, x, mine
  <2>4. Stays(x, z, {}, {self})
    BY <1>2, <1>3, <1>5, <2>2, <2>3 DEF Stays
  <2>5. Same(x, z)
    BY <2>2 DEF Same
  <2> QED
    BY <1>2, <2>1, <2>2, <2>4, <2>5 DEF x
<1>6. CASE u \notin mine
  <2>1. y = x
    BY <1>6 DEF EndedThread
  <2>2. x.parent # self
    BY <1>3, <1>4, <1>6
  <2>3. Stays(x, x, {}, {self})
    BY <1>2, <2>2 DEF Stays
  <2> QED
    BY <2>1, <2>2, <2>3 DEF Same
<1> QED
  BY <1>5, <1>6

(* What %end begins with *)
LEMMA EndBegins ==
    ASSUME TypeOK, IInv, End
    PROVE  /\ stack # <<>> /\ self \in Thread /\ Ready(thread[self]) /\ thread \in Table
           /\ Fields(thread) /\ Tree(thread) /\ later' = later /\ waiters' = waiters
           /\ Sound(thread, active, later, waiters, OnStack, {})
           /\ Ended(Now) \in State /\ Ended(Now).failed = {} /\ Ended(Now).active = active
           /\ Ending(thread, Ended(Now).thread)
<1> DEFINE r == Ended(Now)
           T == thread
           x == thread[self]
<1>1. stack # <<>> /\ x.pc = <<>> /\ later' = later /\ waiters' = waiters
  BY DEF End, Running
<1>2. self \in Thread /\ Ready(x) /\ T \in Table
  BY <1>1, StackIs, IsReady DEF TypeOK, Table
<1>3. Fields(T) /\ Tree(T) /\ x \in ThreadRecord
  BY <1>2, Record DEF IInv, Whole
<1>4. Sound(T, active, later, waiters, OnStack, {})
  BY <1>1, <1>2, Begins DEF Ready
<1>5. Now \in State /\ Now.thread = T /\ Now.active = active /\ Now.failed = {}
  BY NowTyped DEF IInv
<1>6. IsEnded(Now, r)
  BY <1>2, <1>5, EndedIs
<1>7. MayEnd(Now)
  <2>1. \A c \in x.detached : T[c].parent = self /\ T[c].isDetached
    BY <1>2, <1>3 DEF Ready, Tree
  <2> QED
    BY <1>2, <1>5, <2>1 DEF MayEnd, Ready
<1>8. r \in State /\ r.failed = {} /\ r.active = active
  BY <1>5, <1>6, <1>7 DEF IsEnded
<1>9. \A t \in Thread : r.thread[t] = EndedThread(T[t], t, x.detached)
  BY <1>5, <1>6 DEF IsEnded
<1> HIDE DEF r, T
<1> DEFINE T1 == r.thread
<1>10. T1 \in Table
  BY <1>8, ThreadsOf DEF Table
<1>11. /\ T1[self].live /\ T1[self].ended /\ T1[self].pc = Null /\ T1[self].children = {}
       /\ T1[self].detached = {} /\ ~T1[self].joining /\ T1[self].scope = T[self].scope
       /\ T1[self].parent = T[self].parent /\ (T1[self].isDetached <=> T[self].isDetached)
       /\ (T1[self].inScope <=> T[self].inScope) /\ ~T1[self].scheduled /\ ~T1[self].onEvent
  <2>1. T1[self] = [x EXCEPT !.ended = TRUE, !.pc = Null, !.detached = {}]
    BY <1>2, <1>9 DEF EndedThread, T
  <2> QED
    BY <1>2, <1>3, <2>1 DEF ThreadRecord, Ready, Going, T
<1>12. ASSUME NEW u \in Thread \ {self}
       PROVE  /\ Stays(T[u], T1[u], {}, {self}) /\ Same(T[u], T1[u])
              /\ T1[u].children = T[u].children /\ T1[u].detached = T[u].detached
              /\ T1[u].parent # self
              /\ T1[u].live = T[u].live /\ T1[u].ended = T[u].ended
  <2>1. T1[u] = EndedThread(T[u], u, T[self].detached)
    BY <1>9 DEF T
  <2>2. Ready(T[self]) /\ T \in Table
    BY <1>2 DEF T
  <2> HIDE DEF T1
  <2> QED
    BY <1>2, <1>3, <2>1, <2>2, EndingOther
<1>13. Ending(T, T1)
  BY <1>10, <1>11, <1>12 DEF Ending
<1> QED
  BY <1>1, <1>2, <1>3, <1>4, <1>8, <1>13 DEF r, T

OnlyGone(T, T2, d) == T2[d] = Deleted /\ \A u \in Thread \ {d} : T2[u] = T[u]

(* A thread without parent that is nobody's parent goes alone. *)
LEMMA LonelyReaped ==
    ASSUME NEW T \in Table, NEW T2, NEW d \in Thread, Reaps(T, T2, {d}), T[d].parent = Nobody,
           ~Held(T[d]), \A u \in Thread : T[u].parent # d
    PROVE  OnlyGone(T, T2, d)
<1>1. T2[d] = Deleted
  BY DEF Reaps, ReapedDead
<1>2. ASSUME NEW u \in Thread \ {d} PROVE T2[u] = T[u]
  <2> DEFINE p == IF T[u].parent \notin {d} THEN T[u].parent
                  ELSE IF T[u].isDetached THEN Nobody ELSE T[T[u].parent].parent
             b == T[u].isDetached /\ T[u].parent \notin {d}
             c == T[u].children \ {v \in {d} : T[v].parent = u /\ ~T[v].isDetached}
             e == T[u].detached \ {v \in {d} : T[v].parent = u /\ T[v].isDetached}
  <2>1. T[u] \in ThreadRecord /\ u # Nobody
    BY Record, Addresses
  <2>2. T2[u] = [T[u] EXCEPT !.parent = p, !.isDetached = b, !.children = c, !.detached = e]
    BY DEF Reaps, ReapedOther
  <2>3. p = T[u].parent /\ b = T[u].isDetached /\ c = T[u].children /\ e = T[u].detached
    <3>1. T[u].parent # d /\ T[u].isDetached \in BOOLEAN
      BY <2>1 DEF ThreadRecord
    <3>2. {v \in {d} : T[v].parent = u /\ ~T[v].isDetached} = {}
      BY <2>1
    <3>3. {v \in {d} : T[v].parent = u /\ T[v].isDetached} = {}
      BY <2>1
    <3> QED
      BY <3>1, <3>2, <3>3
  <2> HIDE DEF p, b, c, e
  <2> QED
    BY <2>1, <2>2, <2>3 DEF ThreadRecord
<1> QED
  BY <1>1, <1>2 DEF OnlyGone

(* What is left when the thread that runs is done *)
Outcome(s) ==
    /\ s \in State /\ s.failed = {}
    /\ Sound(s.thread, s.active, later, waiters, OnStack \ {self}, {})
    /\ Len(stack) = 2 => s.thread[caller].live

(* It pauses. *)
LEMMA OutcomeKeeps ==
    ASSUME TypeOK, IInv, stack # <<>>, NEW s, Outcome(s), Pause(s), later' = later, waiters' = waiters
    PROVE  IInv'
BY PauseStep DEF Outcome

(* The caller of the function that ends stays. *)
LEMMA CallerStays ==
    ASSUME TypeOK, IInv, stack # <<>>, NEW T2, NEW D, NEW E, Cut(thread, T2, D, E), D \cup E \subseteq {self}
    PROVE  Len(stack) = 2 => T2[caller].live
<1> SUFFICES ASSUME Len(stack) = 2 PROVE T2[caller].live
  OBVIOUS
<1>1. caller \in Thread /\ caller # self /\ thread[caller].live
  BY CallerLives DEF Going
<1>2. Stays(thread[caller], T2[caller], D, D \cup E)
  BY <1>1 DEF Cut
<1> QED
  BY <1>1, <1>2 DEF Stays

(* A thread that nobody has for a child *)
LEMMA StaysAlso ==
    ASSUME NEW x \in ThreadRecord, NEW y, NEW C, NEW d, Stays(x, y, {}, C), d \notin x.children,
           Going(x) => d \notin x.detached
    PROVE  Stays(x, y, {d}, C)
<1>1. x.children \ {d} = x.children \ {} /\ (Going(x) => x.detached \ {d} = x.detached \ {})
  OBVIOUS
<1> QED
  BY <1>1 DEF Stays

(* The thread ends and goes, its parent is P or nobody. *)
LEMMA EndGoes ==
    ASSUME NEW T \in Table, self \in Thread, Ready(T[self]), NEW T2 \in Table, T2[self] = Deleted,
           NEW P, T[self].parent \in P \cup {Nobody},
           \A u \in Thread \ {self} : Stays(T[u], T2[u], {self}, {self}) /\ (u \notin P => Same(T[u], T2[u]))
    PROVE  /\ MayCut(T, {self}, {}) /\ Cut(T, T2, {self}, {}) /\ Knows(T, {self}, {}, P)
           /\ Unmoved(T, T2, {self}, {}, P)
<1>1. Gone(T[self], T2[self])
  BY DEF Gone, Ready, Held
<1>2. {self} \cup {} = {self}
  OBVIOUS
<1>3. Cut(T, T2, {self}, {})
  BY <1>1, <1>2 DEF Cut
<1>4. MayCut(T, {self}, {}) /\ Knows(T, {self}, {}, P)
  BY DEF MayCut, Knows, Ready, Going
<1>5. Unmoved(T, T2, {self}, {}, P)
  BY DEF Unmoved
<1> QED
  BY <1>3, <1>4, <1>5

(* A thread without parent ends. *)
LEMMA EndLonely ==
    ASSUME TypeOK, IInv, End, thread[self].parent = Nobody
    PROVE  Outcome(Reap(Ended(Now), {self}))
<1> DEFINE r == Ended(Now)
           T == thread
           T1 == r.thread
           s == Reap(r, {self})
           T2 == s.thread
<1>1. /\ stack # <<>> /\ self \in Thread /\ Ready(T[self]) /\ T \in Table
      /\ Fields(T) /\ Tree(T) /\ Sound(T, active, later, waiters, OnStack, {})
      /\ r \in State /\ r.failed = {} /\ r.active = active /\ Ending(T, T1)
  BY EndBegins
<1> HIDE DEF r
<1>2. T1[self].parent = Nobody /\ ~Held(T1[self]) /\ T1[self].children = {} /\ T1[self].detached = {}
  BY <1>1 DEF Ending, Held
<1>3. \A u \in Thread : T1[u].parent # self
  <2>1. self # Nobody
    BY <1>1, Addresses
  <2> QED
    BY <1>1, <1>2, <2>1 DEF Ending
<1>4. Reapable(T1, {self})
  BY <1>2 DEF Reapable
<1>5. /\ s \in State /\ s.active = active /\ s.failed = {} /\ T2 \in Table
      /\ T1 \in Table /\ Reaps(T1, T2, {self})
  <2>1. {self} \in SUBSET Thread
    BY <1>1
  <2> HIDE DEF T
  <2> QED
    BY <1>1, <1>4, <2>1, ReapDone, Zenon
<1> HIDE DEF s, T1, T2
<1>6. T2[self] = Deleted /\ \A u \in Thread \ {self} : T2[u] = T1[u]
  <2>1. /\ T1 \in Table /\ self \in Thread /\ Reaps(T1, T2, {self}) /\ T1[self].parent = Nobody
        /\ ~Held(T1[self]) /\ \A u \in Thread : T1[u].parent # self
    BY <1>1, <1>2, <1>3, <1>5
  <2>2. OnlyGone(T1, T2, self)
    BY <2>1, LonelyReaped, Zenon
  <2> QED
    BY <2>2 DEF OnlyGone
<1>7. ASSUME NEW u \in Thread \ {self}
      PROVE  Stays(T[u], T2[u], {self}, {self}) /\ Same(T[u], T2[u])
  <2>1. Stays(T[u], T1[u], {}, {self}) /\ Same(T[u], T1[u]) /\ T[u] \in ThreadRecord
    BY <1>1, Record DEF Ending
  <2>2. self \notin T[u].children /\ (Going(T[u]) => self \notin T[u].detached)
    BY <1>1, Addresses DEF Tree
  <2>3. Stays(T[u], T1[u], {self}, {self})
    BY <2>1, <2>2, StaysAlso
  <2> QED
    BY <1>6, <2>1, <2>3
<1>8. /\ MayCut(T, {self}, {}) /\ Cut(T, T2, {self}, {}) /\ Knows(T, {self}, {}, {})
      /\ Unmoved(T, T2, {self}, {}, {})
  BY <1>1, <1>5, <1>6, <1>7, EndGoes
<1>9. SoundCut(T, T2, {self}, {}, {}, OnStack, OnStack \ {self}, {}, {})
  BY <1>5, <1>8 DEF SoundCut
<1>10. \A p \in {} : (T2[p].scheduled <=> T[p].scheduled) /\ (T2[p].onEvent <=> T[p].onEvent)
  OBVIOUS
<1>11. Sound(T2, active, later, waiters, OnStack \ {self}, {})
  BY <1>1, <1>9, <1>10, CutSound
<1>12. Len(stack) = 2 => T2[caller].live
  <2>1. {self} \cup {} \subseteq {self}
    OBVIOUS
  <2> QED
    BY <1>1, <1>8, <2>1, CallerStays
<1>13. Outcome(s)
  BY <1>5, <1>11, <1>12 DEF Outcome, T2
<1> QED
  BY <1>13 DEF s, r

(* A parent that goes on *)
LEMMA ParentOfEnding ==
    ASSUME TypeOK, IInv, End, thread[self].parent # Nobody
    PROVE  LET p == thread[self].parent
           IN  /\ p \in Thread /\ p # self /\ Going(thread[p]) /\ thread[p] \in ThreadRecord
               /\ FieldsOf(thread[p]) /\ KidsOf(thread, p) /\ PlaceOf(thread[p], p \in OnStack)
               /\ thread[self].isDetached => self \in thread[p].detached
               /\ ~thread[self].isDetached => self \in thread[p].children
               /\ thread[p].joining => ~thread[self].isDetached
               /\ Ended(Now).thread[p] = thread[p]
<1> DEFINE p == thread[self].parent
           x == thread[p]
<1>1. /\ self \in Thread /\ Ready(thread[self]) /\ thread \in Table /\ Fields(thread) /\ Tree(thread)
  BY EndBegins
<1>2. /\ p \in Thread /\ Going(x) /\ (thread[self].isDetached => self \in x.detached)
      /\ (~thread[self].isDetached => self \in x.children)
  BY <1>1, ParentIs
<1>3. x \in ThreadRecord /\ FieldsOf(x) /\ KidsOf(thread, p) /\ PlaceOf(x, p \in OnStack)
  BY <1>1, <1>2, Record DEF IInv, Whole, Fields, Kids, Placed
<1>4. Rooted(thread)
  BY DEF IInv, Whole
<1>5. p # self /\ x.parent # self
  <2>1. {self, p} \in SUBSET Thread /\ {self, p} # {}
    BY <1>1, <1>2
  <2>2. \E t \in {self, p} : thread[t].parent \notin {self, p}
    BY <1>4, <2>1, Zenon DEF Rooted
  <2> QED
    BY <2>2
<1>6. x.joining => ~thread[self].isDetached
  <2> SUFFICES ASSUME x.joining PROVE ~thread[self].isDetached
    OBVIOUS
  <2>1. Joins(x.pc) \in Nat
    BY Shapes, <1>3 DEF FieldsOf, PcShapes
  <2>2. ToJoin(x) > 0
    BY <2>1 DEF ToJoin
  <2>3. x.detached = {}
    BY <1>3, <2>2 DEF KidsOf
  <2> QED
    BY <1>2, <2>3
<1>7. Ended(Now).thread[p] = x
  <2>1. IsEnded(Now, Ended(Now)) /\ Now.thread = thread
    BY <1>1, EndedIs, NowTyped
  <2>2. p \notin thread[self].detached
    BY <1>1, <1>5 DEF Tree, Ready
  <2> QED
    BY <1>2, <1>5, <2>1, <2>2 DEF IsEnded, EndedThread
<1> QED
  BY <1>2, <1>3, <1>5, <1>6, <1>7

(* A thread ends that its parent has to join, and has not come to do so. *)
LEMMA EndStays ==
    ASSUME TypeOK, IInv, End, thread[self].parent # Nobody,
           ~thread[thread[self].parent].joining, ~thread[self].isDetached
    PROVE  Outcome(Ended(Now))
<1> DEFINE r == Ended(Now)
           T == thread
           T1 == r.thread
           p == thread[self].parent
<1>1. /\ stack # <<>> /\ self \in Thread /\ Ready(T[self]) /\ T \in Table
      /\ Fields(T) /\ Tree(T) /\ Sound(T, active, later, waiters, OnStack, {})
      /\ r \in State /\ r.failed = {} /\ r.active = active /\ Ending(T, T1)
  BY EndBegins
<1>2. /\ p \in Thread /\ p # self /\ Going(T[p]) /\ T[p] \in ThreadRecord
      /\ FieldsOf(T[p]) /\ KidsOf(T, p) /\ PlaceOf(T[p], p \in OnStack)
      /\ self \in T[p].children /\ T1[p] = T[p]
  BY ParentOfEnding
<1> HIDE DEF r, T1
<1>3. MayCut(T, {}, {self}) /\ Knows(T, {}, {self}, {p})
  BY <1>1 DEF MayCut, Knows, Ready, Going
<1>4. Cut(T, T1, {}, {self}) /\ Unmoved(T, T1, {}, {self}, {p})
  <2>1. {} \cup {self} = {self}
    OBVIOUS
  <2>2. Ends(T[self], T1[self])
    BY <1>1 DEF Ends, Ending, Ready
  <2>3. \A u \in Thread \ {self} : Stays(T[u], T1[u], {}, {self}) /\ Same(T[u], T1[u])
    BY <1>1 DEF Ending
  <2> QED
    BY <2>1, <2>2, <2>3 DEF Cut, Unmoved
<1>5. KidsOf(T1, p)
  <2>1. \A c \in T[p].children : T1[c].scope = T[c].scope
    <3> SUFFICES ASSUME NEW c \in T[p].children PROVE T1[c].scope = T[c].scope
      OBVIOUS
    <3>1. c \in Thread
      BY <1>1, <1>2, Record
    <3>2. CASE c = self
      BY <1>1, <3>2 DEF Ending
    <3>3. CASE c # self
      BY <1>1, <3>1, <3>3 DEF Ending, Stays
    <3> QED
      BY <3>2, <3>3
  <2>2. T[p].taskFunc \subseteq T[p].children /\ ~T[p].joining
    BY <1>2 DEF KidsOf
  <2> QED
    BY <1>2, <2>1, <2>2 DEF KidsOf
<1>6. p \in OnStack \ {self} <=> p \in OnStack
  BY <1>2
<1>7. SoundCut(T, T1, {}, {self}, {p}, OnStack, OnStack \ {self}, {}, {})
  <2>1. T1 \in Table
    BY <1>1 DEF Ending
  <2>2. PlaceOf(T1[p], p \in OnStack \ {self})
    BY <1>2, <1>6
  <2> QED
    BY <1>2, <1>3, <1>4, <1>5, <2>1, <2>2 DEF SoundCut
<1>8. \A q \in {p} : (T1[q].scheduled <=> T[q].scheduled) /\ (T1[q].onEvent <=> T[q].onEvent)
  BY <1>2
<1>9. Sound(T1, active, later, waiters, OnStack \ {self}, {})
  BY <1>1, <1>7, <1>8, CutSound
<1>10. Len(stack) = 2 => T1[caller].live
  <2>1. {} \cup {self} \subseteq {self}
    OBVIOUS
  <2> QED
    BY <1>1, <1>4, <2>1, CallerStays
<1>11. Outcome(r)
  BY <1>1, <1>9, <1>10 DEF Outcome, T1
<1> QED
  BY <1>11 DEF r

(* A thread that is woken up, and has one task or function child less *)
JoinTaken(x, y, c) ==
    /\ y.live = x.live /\ y.scope = x.scope /\ y.inScope = x.inScope /\ y.parent = x.parent
    /\ y.children = x.children /\ y.detached = x.detached /\ y.taskFunc = x.taskFunc \ {c}
    /\ y.joining = FALSE /\ y.isDetached = x.isDetached /\ y.waiting = x.waiting
    /\ y.scheduled = TRUE /\ y.ended = x.ended /\ y.onEvent = x.onEvent /\ y.pc = x.pc

(* What wakes up a parent in a %join to reap a child *)
WokenToReap(r, p, c, q) ==
    /\ DoJoin(WakeJoiner(r, p), p, c) = Reap(q, {c})
    /\ q.active = <<<<p>>>> \o r.active /\ q.failed = {}
    /\ JoinTaken(r.thread[p], q.thread[p], c)
    /\ \A u \in Thread \ {p} : q.thread[u] = r.thread[u]

(* The parent goes first on the active list, the child is none of its task's.   *)
LEMMA WakeAndJoinIs ==
    ASSUME NEW r \in State, r.failed = {}, NEW p \in Thread, NEW c \in Thread, c # p,
           ~r.thread[p].scheduled, r.thread[c].parent = p
    PROVE  \E q \in State : WokenToReap(r, p, c, q)
<1> DEFINE w == WakeJoiner(r, p)
           T == r.thread
           x == T[p]
           y == [x EXCEPT !.joining = FALSE, !.scheduled = TRUE]
           z == [y EXCEPT !.taskFunc = @ \ {c}]
<1>1. IsWoken(r, p, w)
  BY WakeJoinerIs
<1>2. T \in [Thread -> ThreadRecord] /\ x \in ThreadRecord
  BY ThreadsOf
<1>3. w.thread = [T EXCEPT ![p] = y]
  BY <1>1, <1>2 DEF IsWoken
<1> HIDE DEF w
<1>4. w \in State /\ w.active = <<<<p>>>> \o r.active /\ w.failed = {}
  BY <1>1 DEF IsWoken
<1>5. PICK q : IsUnlisted(w, p, c, q) /\ DoJoin(w, p, c) = Reap(q, {c})
  BY <1>4, DoJoinIs
<1>6. w.thread[p] = y /\ \A u \in Thread \ {p} : w.thread[u] = T[u]
  BY <1>2, <1>3
<1> HIDE DEF y
<1>7. q.thread[p] = z /\ \A u \in Thread \ {p} : q.thread[u] = T[u]
  <2>1. w.thread \in [Thread -> ThreadRecord]
    BY <1>4, ThreadsOf
  <2>2. q.thread = [w.thread EXCEPT ![p].taskFunc = @ \ {c}]
    BY <1>5 DEF IsUnlisted
  <2> QED
    BY <1>6, <2>1, <2>2
<1>8. q \in State /\ q.active = <<<<p>>>> \o r.active /\ q.failed = {}
  BY <1>4, <1>5, <1>6 DEF IsUnlisted
<1>9. JoinTaken(x, z, c)
  BY <1>2 DEF ThreadRecord, JoinTaken, y
<1> QED
  BY <1>5, <1>7, <1>8, <1>9 DEF w, WokenToReap

(* What a %join takes from its parent leaves it where it is in the tree. *)
LEMMA TakenStays ==
    ASSUME NEW x \in ThreadRecord, NEW y \in ThreadRecord, NEW c, FieldsOf(x), Going(x), JoinTaken(x, y, c)
    PROVE  Stays(x, y, {}, {}) /\ SameLinks(x, y)
<1>1. Stays(x, x, {}, {})
  BY SameStays
<1> QED
  BY <1>1 DEF Stays, JoinTaken, Going, SameLinks

(* A thread ends that its parent waits for in a %join. *)
LEMMA EndJoins ==
    ASSUME TypeOK, IInv, End, thread[self].parent # Nobody, thread[thread[self].parent].joining
    PROVE  Outcome(EndsJoin(Ended(Now), thread[self].parent))
<1> DEFINE r == Ended(Now)
           T == thread
           T1 == r.thread
           p == thread[self].parent
<1>1. /\ stack # <<>> /\ self \in Thread /\ Ready(T[self]) /\ T \in Table
      /\ Fields(T) /\ Tree(T) /\ Sound(T, active, later, waiters, OnStack, {})
      /\ r \in State /\ r.failed = {} /\ r.active = active /\ Ending(T, T1)
  BY EndBegins
<1>2. /\ p \in Thread /\ p # self /\ Going(T[p]) /\ T[p] \in ThreadRecord
      /\ FieldsOf(T[p]) /\ KidsOf(T, p) /\ PlaceOf(T[p], p \in OnStack)
      /\ self \in T[p].children /\ T1[p] = T[p] /\ ~T[self].isDetached
  BY ParentOfEnding
<1>3. p \notin OnStack /\ ~T[p].scheduled /\ ~T[p].onEvent /\ ~T[p].waiting
  BY <1>2 DEF PlaceOf, Going
<1> HIDE DEF r
<1>4. EndsJoin(r, p) = DoJoin(WakeJoiner(r, p), p, self)
  <2>1. ~T1[self].isDetached
    BY <1>1, <1>2 DEF Ending
  <2>2. Check(r, "of_END", ~T1[self].isDetached) = r
    BY <2>1 DEF Check
  <2>3. Joinable(T1, p, self)
    BY <1>2 DEF Joinable, KidsOf
  <2> QED
    BY <2>2, <2>3 DEF EndsJoin
<1> HIDE DEF T1
<1>5. PICK q \in State :
          /\ DoJoin(WakeJoiner(r, p), p, self) = Reap(q, {self})
          /\ q.active = <<<<p>>>> \o active /\ q.failed = {}
          /\ JoinTaken(T[p], q.thread[p], self)
          /\ \A u \in Thread \ {p} : q.thread[u] = T1[u]
  <2>1. T1[self].parent = p
    BY <1>1 DEF Ending
  <2>2. r \in State /\ r.failed = {} /\ p \in Thread /\ self \in Thread /\ self # p
        /\ ~r.thread[p].scheduled /\ r.thread[self].parent = p
    BY <1>1, <1>2, <1>3, <2>1 DEF T1
  <2>4. r.active = active /\ r.thread = T1
    BY <1>1 DEF T1
  <2> HIDE DEF p, T, r
  <2>3. \E q \in State : WokenToReap(r, p, self, q)
    BY <2>2, WakeAndJoinIs, Zenon
  <2> QED
    BY <1>2, <2>3, <2>4 DEF WokenToReap
<1> DEFINE T3 == q.thread
           s == Reap(q, {self})
           T2 == s.thread
<1>6. T3 \in Table /\ T3[p] \in ThreadRecord
  BY <1>2, <1>5, ThreadsOf DEF Table
<1> HIDE DEF T3
<1>7. Stays(T[p], T3[p], {}, {}) /\ SameLinks(T[p], T3[p])
  BY <1>2, <1>5, <1>6, TakenStays DEF T3
<1>8. /\ T3[self] = T1[self] /\ T1[self].parent = p /\ T1[self].live /\ T1[self].ended
      /\ T1[self].children = {} /\ T1[self].detached = {} /\ ~T1[self].isDetached
  BY <1>1, <1>2, <1>5 DEF Ending, T3
<1>9. Stopping(T[self], T3[self], {self})
  <2>1. T1[self].pc = Null /\ ~T1[self].joining /\ T1[self].scope = T[self].scope
        /\ ~T1[self].scheduled /\ ~T1[self].onEvent
    BY <1>1 DEF Ending
  <2> QED
    BY <1>1, <1>8, <2>1 DEF Stopping, Ready
<1>10. \A u \in Thread \ {self} :
          /\ Stays(T[u], T3[u], {}, {self}) /\ (u # p => Same(T[u], T3[u]))
          /\ T3[u].children = T[u].children /\ T3[u].detached = T[u].detached /\ T3[u].parent # self
          /\ (Going(T3[u]) => Going(T[u]))
  <2> SUFFICES ASSUME NEW u \in Thread \ {self}
               PROVE  /\ Stays(T[u], T3[u], {}, {self}) /\ (u # p => Same(T[u], T3[u]))
                      /\ T3[u].children = T[u].children /\ T3[u].detached = T[u].detached
                      /\ T3[u].parent # self /\ (Going(T3[u]) => Going(T[u]))
    OBVIOUS
  <2>1. CASE u # p
    BY <1>1, <1>5, <2>1 DEF Ending, T3, Going
  <2>2. CASE u = p
    <3>1. T[p].parent # self
      BY <1>1, <1>2 DEF Ending
    <3>2. Stays(T[p], T3[p], {}, {self})
      BY <1>7, <3>1 DEF Stays
    <3> QED
      BY <1>7, <2>2, <3>1, <3>2 DEF SameLinks, Going
  <2> QED
    BY <2>1, <2>2
<1>11. Reaping(T, T3, {}, {self}, {self})
  <2>1. \A u \in Thread \ {self} : Losing(T3, u, {self})
    <3> SUFFICES ASSUME NEW u \in Thread \ {self} PROVE Losing(T3, u, {self})
      OBVIOUS
    <3>1. self \in T3[u].children => u = p
      BY <1>1, <1>10 DEF Tree
    <3>2. ~(self \in T3[u].detached /\ Going(T3[u]))
      BY <1>1, <1>2, <1>10 DEF Tree
    <3>3. T3[u].parent # self
      BY <1>10
    <3> QED
      BY <1>8, <3>1, <3>2, <3>3 DEF Losing
  <2> QED
    BY <1>9, <1>10, <2>1 DEF Reaping
<1>12. /\ s \in State /\ s.active = <<<<p>>>> \o active /\ s.failed = {} /\ T2 \in Table
       /\ Reaps(T3, T2, {self})
  <2>1. Reapable(T3, {self})
    <3>1. self \in T3[p].children
      BY <1>2, <1>7 DEF SameLinks
    <3> QED
      BY <1>8, <3>1 DEF Reapable
  <2>2. {self} \in SUBSET Thread /\ q \in State /\ q.failed = {} /\ q.thread = T3
    BY <1>1, <1>5 DEF T3
  <2>3. Reapable(q.thread, {self})
    BY <2>1, <2>2
  <2> HIDE DEF T
  <2>4. /\ s \in State /\ s.active = q.active /\ s.failed = {}
        /\ s.thread \in Table /\ q.thread \in Table /\ Reaps(q.thread, s.thread, {self})
    BY <2>2, <2>3, ReapDone, Zenon
  <2> QED
    BY <1>5, <2>2, <2>4
<1> HIDE DEF s, T2
<1>13. Cut(T, T2, {self}, {}) /\ \A u \in Thread \ {self} : Same(T3[u], T2[u])
  <2>1. {} \in SUBSET Thread /\ {self} \in SUBSET Thread /\ {} \cap {self} = {} /\ {self} = {} \cup {self}
    BY <1>1
  <2>2. Cut(T, T2, {} \cup {self}, {}) /\ \A u \in Thread \ ({} \cup {self}) : Same(T3[u], T2[u])
    BY <1>1, <1>6, <1>11, <1>12, <2>1, ReapCut
  <2> QED
    BY <2>1, <2>2
<1>14. MayCut(T, {self}, {}) /\ Knows(T, {self}, {}, {p})
  BY <1>1 DEF MayCut, Knows, Ready, Going
<1>15. Unmoved(T, T2, {self}, {}, {p})
  BY <1>10, <1>13 DEF Unmoved, Same
<1>16. /\ T2[p].children = T[p].children \ {self} /\ T2[p].detached = T[p].detached
       /\ T2[p].taskFunc = T[p].taskFunc \ {self} /\ ~T2[p].joining /\ ~T2[p].waiting
       /\ T2[p].pc = T[p].pc /\ T2[p].scheduled /\ ~T2[p].onEvent
  <2>1. Stays(T[p], T2[p], {self}, {self} \cup {}) /\ Same(T3[p], T2[p])
    BY <1>2, <1>13 DEF Cut
  <2>2. self \notin T[p].detached
    BY <1>1, <1>2 DEF Tree
  <2>3. T[p].detached \ {self} = T[p].detached
    BY <2>2
  <2>4. JoinTaken(T[p], T3[p], self)
    BY <1>5 DEF T3
  <2> QED
    BY <1>2, <1>3, <2>1, <2>3, <2>4 DEF Stays, Same, JoinTaken
<1>17. KidsOf(T2, p)
  <2>1. Joins(T[p].pc) \in Nat
    BY Shapes, <1>2 DEF FieldsOf, PcShapes
  <2>2. ToJoin(T2[p]) = Joins(T[p].pc) /\ ToJoin(T[p]) = Joins(T[p].pc) + 1
    BY <1>16, <2>1 DEF ToJoin
  <2>3. \A d \in T[p].children \ {self} : T2[d].scope = T[d].scope
    <3>1. T[p].children \subseteq Thread
      BY <1>1, <1>2, Record
    <3> QED
      BY <1>13, <3>1 DEF Cut, Stays
  <2>4. KidsOf(T, p) /\ self \in T[p].children
    BY <1>1, <1>2
  <2>5. /\ T2[p].children = T[p].children \ {self} /\ T2[p].detached = T[p].detached
        /\ T2[p].taskFunc = T[p].taskFunc \ {self} /\ ~T2[p].joining
        /\ (T2[p].waiting => T2[p].detached # {}) /\ (Detaches(T2[p].pc) <=> Detaches(T[p].pc))
        /\ ToJoin(T2[p]) \in Nat /\ ToJoin(T[p]) = ToJoin(T2[p]) + 1
    BY <1>16, <2>1, <2>2
  <2>6. T \in Table /\ T2 \in Table /\ p \in Thread
    BY <1>1, <1>2, <1>12
  <2> QED
    BY <2>3, <2>4, <2>5, <2>6, KidsLess, Zenon
<1>18. SoundCut(T, T2, {self}, {}, {p}, OnStack, OnStack \ {self}, {}, {})
  <2>1. PlaceOf(T2[p], p \in OnStack \ {self})
    BY <1>3, <1>16 DEF PlaceOf
  <2> QED
    BY <1>12, <1>13, <1>14, <1>15, <1>16, <1>17, <2>1 DEF SoundCut
<1>19. Sound(T2, <<<<p>>>> \o active, later, waiters, OnStack \ {self}, {})
  <2>1. ~T[p].scheduled /\ T2[p].scheduled /\ (T2[p].onEvent <=> T[p].onEvent)
    BY <1>3, <1>16
  <2> QED
    BY <1>1, <1>2, <1>18, <2>1, CutWoken
<1>20. Len(stack) = 2 => T2[caller].live
  <2>1. {self} \cup {} \subseteq {self}
    OBVIOUS
  <2> QED
    BY <1>1, <1>13, <2>1, CallerStays
<1>21. Outcome(s)
  BY <1>12, <1>19, <1>20 DEF Outcome, T2
<1> QED
  BY <1>4, <1>5, <1>21 DEF s, r

IsScheduledOne(r, p, push, s) ==
    /\ s \in State /\ s.failed = {}
    /\ s.thread[p] = [r.thread[p] EXCEPT !.scheduled = TRUE]
    /\ \A u \in Thread \ {p} : s.thread[u] = r.thread[u]
    /\ push => s.active = <<<<p>>>> \o r.active
    /\ ~push => s.active = Append(r.active, <<p>>)

(* One thread is scheduled. *)
LEMMA ScheduledOne ==
    ASSUME NEW r \in State, r.failed = {}, NEW p \in Thread, ~r.thread[p].scheduled,
           NEW push \in BOOLEAN
    PROVE  IsScheduledOne(r, p, push, Schedule(r, <<p>>, push))
<1> DEFINE l == <<p>>
           s == Schedule(r, <<p>>, push)
<1>1. l \in List /\ ToSet(l) = {p}
  BY OneList, ListOfOne
<1>2. \A u \in Thread : Contains(l, u) <=> u = p
  BY DEF Contains
<1> HIDE DEF l
<1>3. IsScheduled(r, l, push, s)
  BY <1>1, ScheduleIs, Zenon DEF l
<1> HIDE DEF s
<1>4. /\ s \in State /\ s.failed = {}
      /\ s.thread = [t \in Thread |-> [r.thread[t] EXCEPT !.scheduled = @ \/ Contains(l, t)]]
      /\ (push => s.active = <<l>> \o r.active) /\ (~push => s.active = Append(r.active, l))
  BY <1>1, <1>3 DEF IsScheduled
<1>5. \A t \in Thread : r.thread[t] \in ThreadRecord /\ Contains(l, t) \in BOOLEAN
  BY ThreadsOf DEF Contains
<1>6. \A t \in Thread : s.thread[t] = [r.thread[t] EXCEPT !.scheduled = @ \/ Contains(l, t)]
  BY <1>4
<1>7. s.thread[p] = [r.thread[p] EXCEPT !.scheduled = TRUE]
  <2>1. Contains(l, p) = TRUE
    BY <1>2, <1>5
  <2> QED
    BY <1>6, <2>1
<1>8. ASSUME NEW u \in Thread \ {p} PROVE s.thread[u] = r.thread[u]
  <2>1. Contains(l, u) = FALSE
    BY <1>2, <1>5
  <2>2. s.thread[u] = [r.thread[u] EXCEPT !.scheduled = @ \/ FALSE]
    BY <1>6, <2>1
  <2> QED
    BY <1>5, <2>2 DEF ThreadRecord
<1>9. IsScheduledOne(r, p, push, s)
  BY <1>4, <1>7, <1>8 DEF l, IsScheduledOne
<1> QED
  BY <1>9 DEF s

(* A thread has one detached child less, and may be woken up. *)
ChildLeaves(x, y, c) ==
    /\ y.live = x.live /\ y.scope = x.scope /\ y.inScope = x.inScope /\ y.parent = x.parent
    /\ y.children = x.children /\ y.detached = x.detached \ {c} /\ y.taskFunc = x.taskFunc
    /\ y.joining = x.joining /\ y.isDetached = x.isDetached
    /\ y.ended = x.ended /\ y.onEvent = x.onEvent /\ y.pc = x.pc

LeavesAsleep(x, y) == y.waiting = x.waiting /\ y.scheduled = x.scheduled
LeavesAwake(x, y) == x.waiting /\ y.waiting = FALSE /\ y.scheduled = TRUE

(* What the end of a detached child does before it is reaped *)
LEMMA LeavingIs ==
    ASSUME NEW r \in State, r.failed = {}, self \in Thread, NEW p \in Thread, p # self,
           r.thread[p].waiting => ~r.thread[p].scheduled
    PROVE  \E q \in State :
              /\ EndsDetached(r, p) = Reap(q, {self}) /\ q.failed = {}
              /\ \A u \in Thread \ {p, self} : q.thread[u] = r.thread[u]
              /\ q.thread[self] = [r.thread[self] EXCEPT !.isDetached = FALSE, !.parent = Nobody]
              /\ ChildLeaves(r.thread[p], q.thread[p], self)
              /\ \/ /\ LeavesAsleep(r.thread[p], q.thread[p]) /\ q.active = r.active
                    /\ r.thread[p].waiting => q.thread[p].detached # {}
                 \/ LeavesAwake(r.thread[p], q.thread[p]) /\ q.active = <<<<p>>>> \o r.active
<1> DEFINE a == Apart(r, p)
           x == r.thread[p]
           y == [x EXCEPT !.detached = @ \ {self}]
           z == [r.thread[self] EXCEPT !.isDetached = FALSE, !.parent = Nobody]
<1>1. IsApart(r, p, a)
  BY ApartIs
<1>2. x \in ThreadRecord
  BY ThreadsOf
<1>3. EndsDetached(r, p) = Reap(IF a.thread[p].waiting /\ a.thread[p].detached = {}
                                THEN WakeWaiter(a, p) ELSE a, {self})
  BY DEF EndsDetached, Apart
<1> HIDE DEF a
<1>4. /\ a \in State /\ a.active = r.active /\ a.failed = {}
      /\ a.thread[self] = z /\ a.thread[p] = y /\ \A u \in Thread \ {p, self} : a.thread[u] = r.thread[u]
  BY <1>1 DEF IsApart
<1>5. /\ ChildLeaves(x, y, self) /\ LeavesAsleep(x, y) /\ y \in ThreadRecord
      /\ y.waiting = x.waiting /\ y.scheduled = x.scheduled
  BY <1>2 DEF ThreadRecord, ChildLeaves, LeavesAsleep
<1> HIDE DEF y, z
<1>6. CASE ~(y.waiting /\ y.detached = {})
  BY <1>3, <1>4, <1>5, <1>6 DEF z
<1>7. CASE y.waiting /\ y.detached = {}
  <2> DEFINE b == [a EXCEPT !.thread[p].waiting = FALSE]
             w == [y EXCEPT !.waiting = FALSE]
             q == Schedule(b, <<p>>, TRUE)
             v == [w EXCEPT !.scheduled = TRUE]
  <2>1. b = [a EXCEPT !.thread = [a.thread EXCEPT ![p] = w]]
    BY <1>4
  <2>2. w \in ThreadRecord
    BY <1>5, FlagTyped
  <2>3. IsSet(a, p, w, b)
    BY <1>4, <2>1, <2>2, SetIs
  <2> HIDE DEF b, w
  <2>4. b \in State /\ b.failed = {} /\ b.active = r.active /\ b.thread = [a.thread EXCEPT ![p] = w]
    BY <1>4, <2>3 DEF IsSet
  <2>5. a.thread \in [Thread -> ThreadRecord]
    BY <1>4, ThreadsOf
  <2>6. b.thread[p] = w /\ \A u \in Thread \ {p} : b.thread[u] = a.thread[u]
    BY <2>4, <2>5
  <2>7. ~w.scheduled
    BY <1>5, <1>7 DEF w, ThreadRecord
  <2>8. /\ q \in State /\ q.failed = {} /\ q.thread[p] = v
        /\ \A u \in Thread \ {p} : q.thread[u] = b.thread[u]
        /\ q.active = <<<<p>>>> \o b.active
    <3>1. TRUE \in BOOLEAN /\ ~b.thread[p].scheduled
      BY <2>6, <2>7
    <3>2. IsScheduledOne(b, p, TRUE, q)
      BY <2>4, <3>1, ScheduledOne, Zenon
    <3> HIDE DEF q
    <3> QED
      BY <2>6, <3>2 DEF IsScheduledOne
  <2>9. EndsDetached(r, p) = Reap(q, {self})
    BY <1>3, <1>4, <1>7 DEF WakeWaiter, b
  <2> HIDE DEF q
  <2>10. ChildLeaves(x, v, self) /\ LeavesAwake(x, v)
    BY <1>5, <1>7 DEF w, ThreadRecord, ChildLeaves, LeavesAwake
  <2>11. q.thread[self] = z
    BY <1>4, <2>6, <2>8
  <2>12. \A u \in Thread \ {p, self} : q.thread[u] = r.thread[u]
    BY <1>4, <2>6, <2>8
  <2> HIDE DEF v
  <2> QED
    BY <2>4, <2>8, <2>9, <2>10, <2>11, <2>12 DEF z
<1> QED
  BY <1>6, <1>7

(* The parent of a detached child that ends is as it should be. *)
LEMMA ParentLeft ==
    ASSUME NEW T \in Table, NEW T2 \in Table, NEW p \in Thread, NEW c, KidsOf(T, p), Going(T[p]),
           T[p] \in ThreadRecord, FieldsOf(T[p]), c \notin T[p].children, NEW R, NEW R2,
           PlaceOf(T[p], p \in R), p \in R <=> p \in R2,
           ChildLeaves(T[p], T2[p], c),
           \/ LeavesAsleep(T[p], T2[p]) /\ (T[p].waiting => T2[p].detached # {})
           \/ LeavesAwake(T[p], T2[p]),
           \A d \in T[p].children : T2[d].scope = T[d].scope /\ T2[d].ended = T[d].ended
    PROVE  /\ Stays(T[p], T2[p], {c}, {c}) \/ T[p].parent = c
           /\ KidsOf(T2, p) /\ PlaceOf(T2[p], p \in R2)
<1> DEFINE x == T[p]
           y == T2[p]
<1>1. /\ y.live = x.live /\ y.scope = x.scope /\ y.inScope = x.inScope /\ y.parent = x.parent
      /\ y.children = x.children /\ y.detached = x.detached \ {c} /\ y.taskFunc = x.taskFunc
      /\ y.joining = x.joining /\ y.isDetached = x.isDetached
      /\ y.ended = x.ended /\ y.onEvent = x.onEvent /\ y.pc = x.pc
  BY DEF ChildLeaves
<1>2. Stays(x, x, {}, {})
  BY SameStays
<1>3. x.live /\ ~x.ended /\ x.children \ {c} = x.children /\ y \in ThreadRecord
  BY Record DEF Going
<1> HIDE DEF y
<1>4. Stays(x, y, {c}, {c}) \/ x.parent = c
  <2> HIDE DEF x
  <2>1. y.pc \in PcShapes
    BY <1>1, <1>2 DEF Stays
  <2> QED
    BY <1>1, <1>2, <1>3, <2>1 DEF Stays, x
<1>5. KidsOf(T2, p)
  <2>1. ToJoin(y) = ToJoin(x)
    BY <1>1 DEF ToJoin
  <2>2. y.waiting => y.detached # {}
    BY DEF LeavesAsleep, LeavesAwake, y
  <2>3. x.taskFunc \subseteq x.children
    BY DEF KidsOf
  <2>4. ToJoin(y) > 0 => y.detached = {}
    BY <1>1, <2>1 DEF KidsOf
  <2>5. KidsOf(T, p)
    OBVIOUS
  <2> QED
    BY <1>1, <2>1, <2>2, <2>3, <2>4, <2>5 DEF KidsOf, y
<1>6. PlaceOf(y, p \in R2)
  BY <1>1, <1>3 DEF PlaceOf, LeavesAsleep, LeavesAwake, y
<1> QED
  BY <1>4, <1>5, <1>6 DEF y

(* A detached thread ends. *)
LEMMA EndLeaves ==
    ASSUME TypeOK, IInv, End, thread[self].parent # Nobody,
           ~thread[thread[self].parent].joining, thread[self].isDetached
    PROVE  Outcome(EndsDetached(Ended(Now), thread[self].parent))
<1> DEFINE r == Ended(Now)
           T == thread
           T1 == r.thread
           p == thread[self].parent
<1>1. /\ stack # <<>> /\ self \in Thread /\ Ready(T[self]) /\ T \in Table
      /\ Fields(T) /\ Tree(T) /\ Sound(T, active, later, waiters, OnStack, {})
      /\ r \in State /\ r.failed = {} /\ r.active = active /\ Ending(T, T1)
  BY EndBegins
<1>2. /\ p \in Thread /\ p # self /\ Going(T[p]) /\ T[p] \in ThreadRecord
      /\ FieldsOf(T[p]) /\ KidsOf(T, p) /\ PlaceOf(T[p], p \in OnStack)
      /\ self \in T[p].detached /\ T1[p] = T[p]
  BY ParentOfEnding
<1>3. self \notin T[p].children /\ T[p].parent # self /\ self # Nobody
  <2>1. self \notin T[p].children
    BY <1>1, <1>2 DEF Tree
  <2>2. T1[p].parent # self
    BY <1>1, <1>2 DEF Ending
  <2> QED
    BY <1>1, <1>2, <2>1, <2>2, Addresses
<1> HIDE DEF r, T1
<1>4. PICK q \in State :
          /\ EndsDetached(r, p) = Reap(q, {self}) /\ q.failed = {}
          /\ \A u \in Thread \ {p, self} : q.thread[u] = T1[u]
          /\ q.thread[self] = [T1[self] EXCEPT !.isDetached = FALSE, !.parent = Nobody]
          /\ ChildLeaves(T[p], q.thread[p], self)
          /\ \/ /\ LeavesAsleep(T[p], q.thread[p]) /\ q.active = active
                /\ T[p].waiting => q.thread[p].detached # {}
             \/ LeavesAwake(T[p], q.thread[p]) /\ q.active = <<<<p>>>> \o active
  <2>1. r \in State /\ r.failed = {} /\ p \in Thread /\ self \in Thread /\ p # self
        /\ r.thread[p] = T[p] /\ r.active = active /\ r.thread = T1
    BY <1>1, <1>2 DEF T1
  <2>2. T[p].waiting => ~T[p].scheduled
    BY <1>2 DEF PlaceOf, Going
  <2> HIDE DEF p, T
  <2>3. \E q \in State :
          /\ EndsDetached(r, p) = Reap(q, {self}) /\ q.failed = {}
          /\ \A u \in Thread \ {p, self} : q.thread[u] = r.thread[u]
          /\ q.thread[self] = [r.thread[self] EXCEPT !.isDetached = FALSE, !.parent = Nobody]
          /\ ChildLeaves(r.thread[p], q.thread[p], self)
          /\ \/ /\ LeavesAsleep(r.thread[p], q.thread[p]) /\ q.active = r.active
                /\ r.thread[p].waiting => q.thread[p].detached # {}
             \/ LeavesAwake(r.thread[p], q.thread[p]) /\ q.active = <<<<p>>>> \o r.active
    BY <2>1, <2>2, LeavingIs
  <2> QED
    BY <2>1, <2>3
<1> DEFINE T3 == q.thread
           s == Reap(q, {self})
           T2 == s.thread
<1>5. T3 \in Table
  BY ThreadsOf DEF Table
<1>6. T3[self].parent = Nobody /\ ~Held(T3[self]) /\ T3[self].children = {} /\ T3[self].detached = {}
  <2>1. T1[self] \in ThreadRecord
    BY <1>1, Record DEF Ending
  <2>2. T1[self].children = {} /\ T1[self].detached = {} /\ ~T1[self].scheduled /\ ~T1[self].onEvent
    BY <1>1 DEF Ending
  <2> QED
    BY <1>4, <2>1, <2>2 DEF ThreadRecord, Held
<1> HIDE DEF T3
<1>7. \A u \in Thread \ {p, self} : T3[u] = T1[u]
  BY <1>4 DEF T3
<1>8. \A u \in Thread : T3[u].parent # self
  <2>1. T3[p].parent # self
    BY <1>3, <1>4 DEF T3, ChildLeaves
  <2>2. \A u \in Thread \ {p, self} : T3[u].parent # self
    BY <1>1, <1>7 DEF Ending
  <2> QED
    BY <1>3, <1>6, <2>1, <2>2
<1>9. /\ s \in State /\ s.active = q.active /\ s.failed = {} /\ T2 \in Table
      /\ Reaps(T3, T2, {self})
  <2>1. Reapable(T3, {self})
    BY <1>6 DEF Reapable
  <2>2. {self} \in SUBSET Thread /\ q.failed = {} /\ Reapable(q.thread, {self})
    BY <1>1, <1>4, <2>1 DEF T3
  <2>3. /\ s \in State /\ s.active = q.active /\ s.failed = {}
        /\ s.thread \in Table /\ q.thread \in Table /\ Reaps(q.thread, s.thread, {self})
    BY <2>2, ReapDone, Zenon
  <2> QED
    BY <2>3 DEF T3
<1> HIDE DEF s, T2
<1>10. T2[self] = Deleted /\ \A u \in Thread \ {self} : T2[u] = T3[u]
  <2>1. /\ T3 \in Table /\ self \in Thread /\ Reaps(T3, T2, {self}) /\ T3[self].parent = Nobody
        /\ ~Held(T3[self]) /\ \A u \in Thread : T3[u].parent # self
    BY <1>1, <1>5, <1>6, <1>8, <1>9
  <2>2. OnlyGone(T3, T2, self)
    BY <2>1, LonelyReaped, Zenon
  <2> QED
    BY <2>2 DEF OnlyGone
<1>11. ChildLeaves(T[p], T2[p], self)
       /\ \/ LeavesAsleep(T[p], T2[p]) /\ (T[p].waiting => T2[p].detached # {}) /\ s.active = active
          \/ LeavesAwake(T[p], T2[p]) /\ s.active = <<<<p>>>> \o active
  BY <1>2, <1>4, <1>9, <1>10 DEF T3
<1>12. p \in OnStack <=> p \in OnStack \ {self}
  BY <1>2
<1>13. Stays(T[p], T2[p], {self}, {self}) /\ KidsOf(T2, p) /\ PlaceOf(T2[p], p \in OnStack \ {self})
  <2>1. \A d \in T[p].children : T2[d].scope = T[d].scope /\ T2[d].ended = T[d].ended
    <3> SUFFICES ASSUME NEW d \in T[p].children PROVE T2[d].scope = T[d].scope /\ T2[d].ended = T[d].ended
      OBVIOUS
    <3>1. d \in Thread /\ d # self
      BY <1>1, <1>2, <1>3, Record
    <3>2. CASE d = p
      BY <1>11, <3>2 DEF ChildLeaves
    <3>3. CASE d # p
      <4>1. T2[d] = T1[d]
        BY <1>7, <1>10, <3>1, <3>3
      <4> QED
        BY <1>1, <3>1, <4>1 DEF Ending, Stays
    <3> QED
      BY <3>2, <3>3
  <2>2. \/ LeavesAsleep(T[p], T2[p]) /\ (T[p].waiting => T2[p].detached # {})
        \/ LeavesAwake(T[p], T2[p])
    BY <1>11
  <2>3. (Stays(T[p], T2[p], {self}, {self}) \/ T[p].parent = self) /\ KidsOf(T2, p) /\ PlaceOf(T2[p], p \in OnStack \ {self})
    <3> DEFINE R2 == OnStack \ {self}
    <3>1. T2 \in Table /\ T \in Table /\ p \in Thread /\ (p \in OnStack <=> p \in R2)
      BY <1>1, <1>2, <1>9, <1>12
    <3> HIDE DEF R2
    <3>2. ChildLeaves(T[p], T2[p], self)
      BY <1>11
    <3> HIDE DEF p, T
    <3>3. (Stays(T[p], T2[p], {self}, {self}) \/ T[p].parent = self) /\ KidsOf(T2, p) /\ PlaceOf(T2[p], p \in R2)
      BY <1>2, <1>3, <2>1, <2>2, <3>1, <3>2, ParentLeft
    <3> QED
      BY <3>3 DEF R2
  <2> QED
    BY <1>3, <2>3
<1>14. \A u \in Thread \ {self} : Stays(T[u], T2[u], {self}, {self}) /\ (u \notin {p} => Same(T[u], T2[u]))
  <2> SUFFICES ASSUME NEW u \in Thread \ {self}
               PROVE  Stays(T[u], T2[u], {self}, {self}) /\ (u \notin {p} => Same(T[u], T2[u]))
    OBVIOUS
  <2>1. CASE u = p
    BY <1>13, <2>1
  <2>2. CASE u # p
    <3>1. T2[u] = T1[u] /\ T[u] \in ThreadRecord
      BY <1>1, <1>7, <1>10, <2>2, Record
    <3>2. Stays(T[u], T1[u], {}, {self}) /\ Same(T[u], T1[u])
      BY <1>1 DEF Ending
    <3>3. self \notin T[u].children /\ (Going(T[u]) => self \notin T[u].detached)
      BY <1>1, <2>2 DEF Tree
    <3> QED
      BY <3>1, <3>2, <3>3, StaysAlso
  <2> QED
    BY <2>1, <2>2
<1>15. /\ MayCut(T, {self}, {}) /\ Cut(T, T2, {self}, {}) /\ Knows(T, {self}, {}, {p})
       /\ Unmoved(T, T2, {self}, {}, {p})
  BY <1>1, <1>9, <1>10, <1>14, EndGoes
<1>16. SoundCut(T, T2, {self}, {}, {p}, OnStack, OnStack \ {self}, {}, {})
  <2>1. T[p].scheduled \/ T[p].onEvent => T2[p].scheduled \/ T2[p].onEvent
    BY <1>11 DEF ChildLeaves, LeavesAsleep, LeavesAwake
  <2> QED
    BY <1>9, <1>13, <1>15, <2>1 DEF SoundCut
<1>17. Sound(T2, s.active, later, waiters, OnStack \ {self}, {})
  <2>1. T2[p].onEvent <=> T[p].onEvent
    BY <1>11 DEF ChildLeaves
  <2>2. CASE LeavesAsleep(T[p], T2[p]) /\ s.active = active
    <3>1. \A v \in {p} : (T2[v].scheduled <=> T[v].scheduled) /\ (T2[v].onEvent <=> T[v].onEvent)
      BY <2>1, <2>2 DEF LeavesAsleep
    <3>2. Sound(T2, active, later, waiters, OnStack \ {self}, {})
      BY <1>1, <1>16, <3>1, CutSound
    <3> QED
      BY <2>2, <3>2
  <2>3. CASE LeavesAwake(T[p], T2[p]) /\ s.active = <<<<p>>>> \o active
    <3>1. ~T[p].scheduled /\ T2[p].scheduled
      BY <1>2, <2>3 DEF PlaceOf, Going, LeavesAwake
    <3>2. Sound(T2, <<<<p>>>> \o active, later, waiters, OnStack \ {self}, {})
      BY <1>1, <1>2, <1>16, <2>1, <3>1, CutWoken
    <3> QED
      BY <2>3, <3>2
  <2> QED
    BY <1>11, <2>2, <2>3
<1>18. Len(stack) = 2 => T2[caller].live
  <2>1. {self} \cup {} \subseteq {self}
    OBVIOUS
  <2> QED
    BY <1>1, <1>15, <2>1, CallerStays
<1>19. Outcome(s)
  BY <1>9, <1>17, <1>18 DEF Outcome, T2
<1> QED
  BY <1>4, <1>19 DEF s, r

(* %end leaves the invariant. *)
LEMMA EndKeeps ==
    ASSUME TypeOK, IInv, End
    PROVE  IInv'
<1> DEFINE r == Ended(Now)
           p == thread[self].parent
           s == IF p = Nobody THEN Reap(r, {self})
                ELSE IF r.thread[p].joining THEN EndsJoin(r, p)
                ELSE IF r.thread[self].isDetached THEN EndsDetached(r, p)
                ELSE r
<1>1. stack # <<>> /\ later' = later /\ waiters' = waiters /\ Pause(s)
  BY DEF End, Running
<1>2. r.thread[self].isDetached <=> thread[self].isDetached
  BY EndBegins DEF Ending
<1>3. p # Nobody => r.thread[p] = thread[p]
  BY ParentOfEnding
<1> HIDE DEF r
<1>4. Outcome(s)
  <2>1. CASE p = Nobody
    BY <2>1, EndLonely DEF r
  <2>2. CASE p # Nobody /\ thread[p].joining
    BY <1>3, <2>2, EndJoins DEF r
  <2>3. CASE p # Nobody /\ ~thread[p].joining /\ thread[self].isDetached
    BY <1>2, <1>3, <2>3, EndLeaves DEF r
  <2>4. CASE p # Nobody /\ ~thread[p].joining /\ ~thread[self].isDetached
    BY <1>2, <1>3, <2>4, EndStays DEF r
  <2> QED
    BY <2>1, <2>2, <2>3, <2>4
<1> HIDE DEF s
<1> QED
  BY <1>1, <1>4, OutcomeKeeps

--------------------------------------------------------------------------------
(* %join/detach                                                                 *)

(* The threads k become detached children, each by itself *)
MovedOne(x, y, t, k) ==
    /\ y.live = x.live /\ y.scope = x.scope /\ y.inScope = x.inScope /\ y.parent = x.parent
    /\ y.taskFunc = x.taskFunc /\ y.joining = x.joining /\ y.waiting = x.waiting
    /\ y.scheduled = x.scheduled /\ y.ended = x.ended /\ y.onEvent = x.onEvent /\ y.pc = x.pc
    /\ (y.isDetached <=> x.isDetached \/ t \in k)
    /\ y.children = IF t = self THEN x.children \ k ELSE x.children
    /\ y.detached = IF t = self THEN x.detached \cup k ELSE x.detached
    /\ t \notin k /\ t # self => y = x

Moved(T, T2, k) == T2 \in Table /\ \A t \in Thread : MovedOne(T[t], T2[t], t, k)

(* What %join/detach does with them *)
LEMMA MovedIs ==
    ASSUME NEW r \in State, NEW k \in SUBSET Thread, self \in Thread
    PROVE  /\ Moved(r.thread, Detached(r, k).thread, k) /\ Detached(r, k) \in State
           /\ Detached(r, k).active = r.active /\ Detached(r, k).failed = r.failed
<1> DEFINE s == Detached(r, k)
<1>1. IsDetached(r, k, s)
  BY DetachedIs
<1> HIDE DEF s
<1>2. s \in State /\ s.active = r.active /\ s.failed = r.failed
  BY <1>1 DEF IsDetached
<1>3. ASSUME NEW t \in Thread PROVE MovedOne(r.thread[t], s.thread[t], t, k)
  <2> DEFINE x == r.thread[t]
             b == x.isDetached \/ t \in k
             c == IF t = self THEN x.children \ k ELSE x.children
             e == IF t = self THEN x.detached \cup k ELSE x.detached
             y == [x EXCEPT !.isDetached = b, !.children = c, !.detached = e]
  <2>1. x \in ThreadRecord /\ x.isDetached \in BOOLEAN
    BY ThreadsOf DEF ThreadRecord
  <2>2. s.thread[t] = DetachedThread(x, t, k)
    BY <1>1 DEF IsDetached
  <2> HIDE DEF x
  <2>3. DetachedThread(x, t, k) = y
    BY <2>1 DEF DetachedThread, ThreadRecord
  <2>4. b \in BOOLEAN
    BY <2>1
  <2> HIDE DEF b, c, e
  <2>5. /\ y.live = x.live /\ y.scope = x.scope /\ y.inScope = x.inScope /\ y.parent = x.parent
        /\ y.taskFunc = x.taskFunc /\ y.joining = x.joining /\ y.waiting = x.waiting
        /\ y.scheduled = x.scheduled /\ y.ended = x.ended /\ y.onEvent = x.onEvent /\ y.pc = x.pc
        /\ y.isDetached = b /\ y.children = c /\ y.detached = e
    BY <2>1 DEF ThreadRecord
  <2>6. t \notin k /\ t # self => y = x
    <3> SUFFICES ASSUME t \notin k, t # self PROVE y = x
      OBVIOUS
    <3>1. b = x.isDetached /\ c = x.children /\ e = x.detached
      BY <2>1 DEF b, c, e
    <3> HIDE DEF b, c, e
    <3> QED
      BY <2>1, <3>1 DEF ThreadRecord
  <2> HIDE DEF y
  <2>7. MovedOne(x, y, t, k)
    BY <2>4, <2>5, <2>6 DEF MovedOne, b, c, e
  <2> QED
    BY <2>2, <2>3, <2>7 DEF x
<1>4. s.thread \in Table
  BY <1>2, ThreadsOf DEF Table
<1>5. Moved(r.thread, s.thread, k)
  BY <1>3, <1>4 DEF Moved
<1> QED
  BY <1>2, <1>5 DEF s

(* The tree stays as it should be. *)
LEMMA MovedWhole ==
    ASSUME NEW T \in Table, NEW T2, NEW k, Moved(T, T2, k), Whole(T), self \in Thread,
           Going(T[self]), k = T[self].children, \A c \in k : ~T[c].ended, Detaching
    PROVE  Whole(T2)
<1>1. /\ T2 \in Table /\ Fields(T) /\ Tree(T) /\ Rooted(T) /\ Families(T) /\ k \subseteq Thread
  BY Record DEF Moved, Whole
<1>2. \A t \in Thread : MovedOne(T[t], T2[t], t, k)
  BY DEF Moved
<1>3. \A c \in k : T[c].live /\ T[c].parent = self /\ ~T[c].isDetached /\ c \in Thread /\ ~T[c].ended
  BY <1>1 DEF Tree
<1>4. Fields(T2)
  <2> SUFFICES ASSUME NEW t \in Thread PROVE FieldsOf(T2[t])
    BY DEF Fields
  <2>1. FieldsOf(T[t]) /\ MovedOne(T[t], T2[t], t, k)
    BY <1>1, <1>2 DEF Fields
  <2>2. CASE t \notin k /\ t # self
    BY <2>1, <2>2 DEF MovedOne
  <2>3. CASE t \in k \/ t = self
    <3>1. T[t].live /\ ~T[t].ended
      BY <1>3, <2>3 DEF Going
    <3> QED
      BY <2>1, <3>1 DEF MovedOne, FieldsOf
  <2> QED
    BY <2>2, <2>3
<1>5. Tree(T2)
  <2>1. ASSUME NEW t \in Thread, T2[t].parent # Nobody
        PROVE  /\ Going(T2[T2[t].parent])
               /\ t \in IF T2[t].isDetached THEN T2[T2[t].parent].detached ELSE T2[T2[t].parent].children
    <3> DEFINE p == T[t].parent
    <3>1. T2[t].parent = p /\ (T2[t].isDetached <=> T[t].isDetached \/ t \in k)
      BY <1>2 DEF MovedOne
    <3>2. /\ p \in Thread /\ Going(T[p]) /\ (T[t].isDetached => t \in T[p].detached)
          /\ (~T[t].isDetached => t \in T[p].children)
      BY <1>1, <2>1, <3>1, ParentIs
    <3>3. MovedOne(T[p], T2[p], p, k)
      BY <1>2, <3>2
    <3> HIDE DEF p
    <3>4. Going(T2[p])
      BY <3>2, <3>3 DEF MovedOne, Going
    <3>5. CASE t \in k
      <4>1. p = self
        BY <1>3, <3>5 DEF p
      <4> QED
        BY <3>1, <3>3, <3>4, <3>5, <4>1 DEF MovedOne
    <3>6. CASE t \notin k
      BY <3>1, <3>2, <3>3, <3>4, <3>6 DEF MovedOne
    <3> QED
      BY <3>5, <3>6
  <2>2. ASSUME NEW t \in Thread, NEW c \in T2[t].children
        PROVE  T2[c].live /\ T2[c].parent = t /\ ~T2[c].isDetached
    <3>1. t # self /\ c \in T[t].children
      BY <1>2, <2>2 DEF MovedOne
    <3>2. T[c].live /\ T[c].parent = t /\ ~T[c].isDetached /\ c \in Thread /\ c \notin k
      BY <1>1, <1>3, <3>1, Record DEF Tree
    <3> QED
      BY <1>2, <3>2 DEF MovedOne
  <2>3. ASSUME NEW t \in Thread, Going(T2[t]), NEW c \in T2[t].detached
        PROVE  T2[c].live /\ T2[c].parent = t /\ T2[c].isDetached /\ ~T2[c].ended
    <3>1. MovedOne(T[t], T2[t], t, k)
      BY <1>2
    <3>2. Going(T[t])
      BY <2>3, <3>1 DEF MovedOne, Going
    <3>3. CASE c \in k /\ t = self
      <4>1. /\ T[c].live /\ T[c].parent = self /\ ~T[c].isDetached /\ c \in Thread /\ ~T[c].ended
            /\ MovedOne(T[c], T2[c], c, k)
        BY <1>2, <1>3, <3>3
      <4> QED
        BY <3>3, <4>1 DEF MovedOne
    <3>4. CASE c \in T[t].detached
      <4>1. T[c].live /\ T[c].parent = t /\ T[c].isDetached /\ ~T[c].ended /\ c \in Thread
        BY <1>1, <3>2, <3>4, Record DEF Tree
      <4> QED
        BY <1>2, <4>1 DEF MovedOne
    <3> QED
      BY <2>3, <3>1, <3>3, <3>4 DEF MovedOne
  <2> QED
    BY <2>1, <2>2, <2>3 DEF Tree
<1>6. Rooted(T2)
  BY <1>1, <1>2, CutRooted DEF MovedOne
<1>7. Families(T2)
  <2> SUFFICES ASSUME NEW t \in Thread, NEW c \in T2[t].children, InFunction(T2[t].scope)
               PROVE  InFunction(T2[c].scope)
    BY DEF Families
  <2>1. c \in T[t].children /\ T2[t].scope = T[t].scope
    BY <1>2 DEF MovedOne
  <2>2. T2[c].scope = T[c].scope
    BY <1>1, <1>2, <2>1, Record DEF MovedOne
  <2> QED
    BY <1>1, <2>1, <2>2 DEF Families
<1> QED
  BY <1>4, <1>5, <1>6, <1>7 DEF Whole

(* The rest of what must hold of the threads does, too. *)
LEMMA MovedRest ==
    ASSUME NEW T \in Table, NEW T2, NEW k, Moved(T, T2, k), self \in Thread, k = T[self].children,
           \A t \in Thread \ {self} : Going(T[t]) => KidsOf(T, t),
           T[self].pc = <<>>, T[self].taskFunc = {}, ~T[self].joining, ~T[self].waiting,
           NEW R, NEW Z, Placed(T, R), Remain(T, Z)
    PROVE  Kids(T2) /\ Placed(T2, R) /\ Remain(T2, Z)
<1>1. \A t \in Thread : MovedOne(T[t], T2[t], t, k)
  BY DEF Moved
<1>2. \A t \in Thread : T[t].children \subseteq Thread
  BY Record
<1>3. ASSUME NEW t \in Thread \ {self}, Going(T2[t]) PROVE KidsOf(T2, t)
  <2>1. MovedOne(T[t], T2[t], t, k) /\ t # self
    BY <1>1
  <2>2. Going(T[t])
    BY <1>3, <2>1 DEF MovedOne, Going
  <2>3. KidsOf(T, t)
    BY <2>2
  <2>4. \A c \in T[t].children : T2[c].scope = T[c].scope /\ T2[c].ended = T[c].ended
    BY <1>1, <1>2 DEF MovedOne
  <2>5. /\ T2[t].pc = T[t].pc /\ T2[t].children = T[t].children /\ T2[t].taskFunc = T[t].taskFunc
        /\ T2[t].detached = T[t].detached /\ T2[t].joining = T[t].joining /\ T2[t].waiting = T[t].waiting
    BY <2>1 DEF MovedOne
  <2>6. ToJoin(T2[t]) = ToJoin(T[t])
    BY <2>5 DEF ToJoin
  <2>7. T[t].taskFunc \subseteq T[t].children
    BY <2>3 DEF KidsOf
  <2> QED
    BY <2>3, <2>4, <2>5, <2>6, <2>7 DEF KidsOf
<1>4. KidsOf(T2, self)
  <2>1. MovedOne(T[self], T2[self], self, k)
    BY <1>1
  <2>2. /\ T2[self].pc = <<>> /\ T2[self].children = {} /\ T2[self].taskFunc = {}
        /\ ~T2[self].joining /\ ~T2[self].waiting
    BY <2>1 DEF MovedOne
  <2>3. ToJoin(T2[self]) = 0 /\ ~Detaches(T2[self].pc)
    BY <2>2, Shapes DEF ToJoin
  <2>4. Cardinality({}) = 0
    BY FS_EmptySet
  <2> QED
    BY <2>2, <2>3, <2>4 DEF KidsOf
<1>5. Kids(T2)
  BY <1>3, <1>4 DEF Kids
<1>6. Placed(T2, R)
  <2> SUFFICES ASSUME NEW t \in Thread PROVE PlaceOf(T2[t], t \in R)
    BY DEF Placed
  <2>1. PlaceOf(T[t], t \in R) /\ MovedOne(T[t], T2[t], t, k)
    BY <1>1 DEF Placed
  <2> QED
    BY <2>1 DEF PlaceOf, MovedOne
<1>7. Remain(T2, Z)
  <2> SUFFICES ASSUME NEW t \in Thread \ Z PROVE RemainsOf(T2[t])
    BY DEF Remain
  <2>1. RemainsOf(T[t]) /\ MovedOne(T[t], T2[t], t, k)
    BY <1>1 DEF Remain
  <2> QED
    BY <2>1 DEF RemainsOf, MovedOne
<1> QED
  BY <1>5, <1>6, <1>7

(* What %join/detach begins with *)
LEMMA DetachBegins ==
    ASSUME TypeOK, IInv, Opcode("detach")
    PROVE  /\ thread[self].pc = <<"detach">> /\ Tail(thread[self].pc) = <<>> /\ Detaching
           /\ thread[self].taskFunc = {} /\ \A c \in thread[self].children : thread[c].parent = self
<1>0. "detach" # "zombie"
  OBVIOUS
<1>1. /\ thread[self].pc \in PcShapes /\ thread[self].pc # <<>> /\ Head(thread[self].pc) = "detach"
      /\ FieldsOf(thread[self]) /\ KidsOf(thread, self) /\ Tree(thread) /\ self \in Thread
  BY <1>0, OpcodeBegins
<1>2. thread[self].pc = <<"detach">>
  <2>1. /\ Head(<<"join">>) = "join" /\ Head(<<"join", "join">>) = "join"
        /\ Head(<<"join", "detach">>) = "join" /\ Head(Null) = "zombie"
    BY DEF Null
  <2> QED
    BY <1>1, <2>1 DEF PcShapes
<1>3. Tail(<<"detach">>) = <<>>
  OBVIOUS
<1>4. Detaches(thread[self].pc)
  BY <1>2, Shapes
<1> QED
  BY <1>1, <1>2, <1>3, <1>4 DEF FieldsOf, KidsOf, Tree

(* %join/detach leaves the invariant. *)
LEMMA JoinDetachKeeps ==
    ASSUME TypeOK, IInv, JoinDetach
    PROVE  IInv'
<1> DEFINE x == thread[self]
           D == Over(x.children)
           k == x.children \ D
           w == Stepped(x)
           T1 == [thread EXCEPT ![self] = w]
           q == [Now EXCEPT !.thread = T1]
           s == Reap(q, D)
           r == Detached(s, k)
<1>0. "detach" # "zombie"
  OBVIOUS
<1>1. Opcode("detach") /\ later' = later /\ waiters' = waiters
  BY DEF JoinDetach
<1>2. /\ self \in Thread /\ Going(x) /\ thread \in Table /\ x \in ThreadRecord /\ stack # <<>>
      /\ Now \in State /\ Now.thread = thread /\ Now.active = active /\ Now.failed = {}
      /\ Sound(thread, active, later, waiters, OnStack, {}) /\ Fields(thread) /\ FieldsOf(x)
      /\ ~x.joining /\ ~x.scheduled /\ ~x.onEvent /\ ~x.waiting
      /\ Tree(thread) /\ self \in OnStack
  BY <1>0, <1>1, OpcodeBegins
<1>3. /\ x.pc = <<"detach">> /\ Tail(x.pc) = <<>> /\ Detaching /\ x.taskFunc = {}
      /\ \A c \in x.children : thread[c].parent = self
  BY <1>1, DetachBegins
<1>4. /\ D \in SUBSET Thread /\ k \in SUBSET Thread /\ D \subseteq x.children /\ \A c \in D : thread[c].ended
      /\ \A c \in k : ~thread[c].ended
  BY <1>2, Record DEF Over
<1>5. self \notin D
  BY <1>2, <1>4 DEF Going
<1>6. w \in ThreadRecord
  <2>1. <<>> \in Seq(Opcodes)
    OBVIOUS
  <2> QED
    BY <1>2, <1>3, <2>1 DEF ThreadRecord, Stepped
<1>7. /\ w.live = x.live /\ w.scope = x.scope /\ w.inScope = x.inScope /\ w.parent = x.parent
      /\ w.children = x.children /\ w.detached = x.detached /\ w.taskFunc = x.taskFunc
      /\ w.joining = x.joining /\ w.isDetached = x.isDetached /\ w.waiting = x.waiting
      /\ w.scheduled = x.scheduled /\ w.ended = x.ended /\ w.onEvent = x.onEvent /\ w.pc = <<>>
  BY <1>2, <1>3 DEF ThreadRecord, Stepped
<1>8. Stays(x, w, {}, {}) /\ SameLinks(x, w)
  <2>1. Stays(x, x, {}, {})
    BY <1>2, SameStays
  <2>2. <<>> \in PcShapes /\ <<>> # Null /\ ~Detaches(<<>>) /\ x.pc # Null
    BY <1>3, Shapes DEF PcShapes, Null
  <2> HIDE DEF x, w
  <2> QED
    BY <1>2, <1>3, <1>7, <2>1, <2>2 DEF Stays, Going, SameLinks
<1>9. q \in State /\ q.thread = T1 /\ q.active = active /\ q.failed = {}
  <2>1. T1 \in [Thread -> ThreadRecord]
    BY <1>2, <1>6 DEF Table
  <2> HIDE DEF T1
  <2> QED
    BY <1>2, <2>1, WithThreads
<1>10. Continue(r)
  <2>1. [Now EXCEPT !.thread[self].pc = Tail(@)] = q
    BY <1>2 DEF Stepped
  <2>2. Check(q, "of_JOIN_DETACH", x.taskFunc = {} /\ \A c \in x.children : thread[c].parent = self) = q
    BY <1>3 DEF Check
  <2> HIDE DEF q, D
  <2> QED
    BY <2>1, <2>2 DEF JoinDetach, D
<1> HIDE DEF D, w, q
<1>11. T1[self] = w /\ \A t \in Thread \ {self} : T1[t] = thread[t]
  BY <1>2 DEF Table
<1> HIDE DEF T1
<1>12. \A c \in D : thread[c].live /\ thread[c].parent = self /\ ~thread[c].isDetached
  BY <1>2, <1>4 DEF Tree
<1>13. Reapable(T1, D)
  <2> SUFFICES ASSUME NEW c \in D
               PROVE  /\ T1[c].children = {} /\ T1[c].detached = {}
                      /\ T1[c].parent = self /\ ~T1[c].isDetached /\ c \in T1[self].children
    BY DEF Reapable
  <2>1. T1[c] = thread[c] /\ c \in Thread /\ thread[c].parent # Nobody
    BY <1>2, <1>4, <1>5, <1>11, <1>12, Addresses
  <2>2. thread[c].children = {} /\ thread[c].detached = {}
    BY <1>2, <1>4, <1>12, <2>1, EndedIsBare
  <2> QED
    BY <1>4, <1>7, <1>11, <1>12, <2>1, <2>2
<1>14. /\ s \in State /\ s.active = active /\ s.failed = {} /\ s.thread \in Table
       /\ Reaps(T1, s.thread, D)
  BY <1>4, <1>9, <1>13, ReapDone
<1> HIDE DEF s
<1> DEFINE U == s.thread
           T2 == r.thread
<1> HIDE DEF x
<1>15. /\ MayCut(thread, D, {}) /\ Cut(thread, U, D, {}) /\ Knows(thread, D, {}, {self})
       /\ Unmoved(thread, U, D, {}, {self}) /\ Same(w, U[self])
       /\ U[self].children = k /\ U[self].detached = x.detached /\ Going(U[self])
  <2>1. Reaps([thread EXCEPT ![self] = w], U, D) /\ U \in Table
    BY <1>14 DEF T1
  <2>2. /\ self \in Thread /\ Going(thread[self]) /\ thread \in Table /\ Fields(thread) /\ Tree(thread)
        /\ D \in SUBSET Thread /\ self \notin D /\ D \subseteq thread[self].children
        /\ \A c \in D : thread[c].ended
        /\ w \in ThreadRecord /\ SameLinks(thread[self], w) /\ Stays(thread[self], w, {}, {})
    BY <1>2, <1>4, <1>5, <1>6, <1>8 DEF x
  <2> HIDE DEF U
  <2>3. JoinedCut(thread, U, self, D, w)
    BY <2>1, <2>2, JoinCut
  <2> QED
    BY <2>3 DEF JoinedCut, x
<1>16. Moved(U, T2, k) /\ r \in State /\ r.active = active /\ r.failed = {} /\ T2 \in Table
  BY <1>2, <1>4, <1>14, MovedIs DEF Moved
<1> HIDE DEF r
<1>17. Whole(thread) /\ Kids(thread) /\ Placed(thread, OnStack) /\ Remain(thread, {})
       /\ Queues(thread, active, ToSet(later) \cup Members(Rests)) /\ EventLists(thread, waiters)
  BY <1>2 DEF Sound
<1>18. \A c \in k : ~U[c].ended
  <2> SUFFICES ASSUME NEW c \in k PROVE ~U[c].ended
    OBVIOUS
  <2>1. ~thread[c].ended /\ c \in Thread \ (D \cup {})
    BY <1>4
  <2> QED
    BY <1>15, <2>1 DEF Cut, Stays
<1>19. Whole(U) /\ Whole(T2)
  <2>1. Whole(U)
    BY <1>2, <1>14, <1>15, <1>17, CutWhole
  <2>2. U \in Table /\ k = U[self].children /\ Going(U[self])
    BY <1>14, <1>15
  <2> HIDE DEF U, T2, k
  <2>3. Whole(T2)
    BY <1>2, <1>3, <1>16, <1>18, <2>1, <2>2, MovedWhole
  <2> QED
    BY <2>1, <2>3
<1>20. \A t \in Thread \ {self} : Going(U[t]) => KidsOf(U, t)
  <2> SUFFICES ASSUME NEW t \in Thread \ {self}, Going(U[t]) PROVE KidsOf(U, t)
    OBVIOUS
  <2>1. t \notin D
    BY <1>15, DeletedTyped DEF Cut, Gone, Going
  <2>2. t \in Thread \ (D \cup {} \cup {self}) /\ t # Nobody
    BY <2>1, Addresses
  <2>3. Going(thread[t]) /\ KidsOf(thread, t)
    BY <1>15, <1>17, <2>2 DEF Cut, Stays, Going, Kids
  <2> QED
    BY <1>2, <1>14, <1>15, <2>2, <2>3, CutKidsOf
<1>21. Placed(U, OnStack)
  <2>1. \A p \in {self} : PlaceOf(U[p], p \in OnStack)
    BY <1>2, <1>7, <1>15 DEF PlaceOf, Same
  <2> QED
    BY <1>2, <1>14, <1>15, <1>17, <2>1, CutPlaced
<1>22. Remain(U, {})
  <2>1. \A p \in {self} \ {} : thread[p].scheduled \/ thread[p].onEvent => U[p].scheduled \/ U[p].onEvent
    BY <1>2 DEF x
  <2>2. {} \subseteq {} \cup D \cup {}
    OBVIOUS
  <2> QED
    BY <1>2, <1>14, <1>15, <1>17, <2>1, <2>2, CutRemain
<1>23. Kids(T2) /\ Placed(T2, OnStack) /\ Remain(T2, {})
  <2>1. /\ U[self].pc = <<>> /\ U[self].taskFunc = {} /\ ~U[self].joining /\ ~U[self].waiting
        /\ U \in Table /\ k = U[self].children
    BY <1>2, <1>3, <1>7, <1>14, <1>15 DEF Same
  <2> HIDE DEF U, T2, k
  <2> QED
    BY <1>2, <1>16, <1>20, <1>21, <1>22, <2>1, MovedRest
<1>24. \A t \in Thread : (T2[t].onEvent <=> thread[t].onEvent) /\ (T2[t].scheduled <=> thread[t].scheduled)
  <2>1. \A t \in Thread : T2[t].onEvent = U[t].onEvent /\ T2[t].scheduled = U[t].scheduled
    BY <1>16 DEF Moved, MovedOne
  <2>2. FlagsStay(thread, U, {self})
    BY <1>2, <1>14, <1>15, CutFlags
  <2>3. (U[self].onEvent <=> thread[self].onEvent) /\ (U[self].scheduled <=> thread[self].scheduled)
    BY <1>7, <1>15 DEF Same, x
  <2> HIDE DEF U, T2
  <2> QED
    BY <2>1, <2>2, <2>3 DEF FlagsStay
<1>25. Queues(T2, active, ToSet(later) \cup Members(Rests)) /\ EventLists(T2, waiters)
  BY <1>17, <1>24, QueuesStay, EventsStay
<1>26. Sound(T2, active, later, waiters, OnStack, {})
  BY <1>2, <1>16, <1>19, <1>23, <1>25 DEF Sound
<1>27. Calls(T2, stack)
  <2>1. Len(stack) = 2 => caller \in Thread /\ caller # self /\ Going(thread[caller])
    BY <1>2, CallerLives
  <2>2. Len(stack) = 2 => caller \notin D
    BY <1>4, <2>1 DEF Going
  <2>3. Len(stack) = 2 => U[caller].pc = thread[caller].pc
    BY <1>15, <2>1, <2>2 DEF Unmoved, Same
  <2>4. Calls(U, stack)
    BY <1>2, <1>5, <1>14, <1>15, <2>2, <2>3, CutCalls
  <2>5. /\ stack \in Seq(Frame) /\ OnStack \subseteq Thread /\ self = stack[1].thr
        /\ \A i \in DOMAIN stack : stack[i].thr \in OnStack
    BY <1>2, StackIs DEF OnStack
  <2>6. \A t \in Thread : /\ T2[t].live = U[t].live /\ T2[t].ended = U[t].ended
                          /\ T2[t].scope = U[t].scope /\ T2[t].pc = U[t].pc
                          /\ t # self => T2[t].children = U[t].children
    BY <1>16 DEF Moved, MovedOne
  <2>7. Len(stack) = 2 => Called(T2, stack)
    BY <2>1, <2>4, <2>5, <2>6 DEF Calls, Called, Going, caller
  <2> QED
    BY <2>4, <2>5, <2>6, <2>7 DEF Calls
<1> QED
  BY <1>1, <1>2, <1>10, <1>16, <1>26, <1>27, ContinueStep

--------------------------------------------------------------------------------
(* The scheduler                                                                *)

(* Between two events no thread runs. *)
LEMMA Idle ==
    ASSUME TypeOK, IInv, stack = <<>>
    PROVE  /\ Sound(thread, active, later, waiters, {}, {})
           /\ OnStack = {} /\ Members(Rests) = {}
<1>1. stack \in Seq(Frame)
  BY DEF TypeOK, Frame
<1>2. RunOn(stack) = {} /\ Members(RestsOf(stack)) = {}
  BY <1>1, Frames
<1>3. OnStack = {} /\ Members(Rests) = {}
  BY <1>2 DEF OnStack, Rests, RunOn, RestsOf
<1>4. /\ thread \in Table /\ active \in Seq(List) /\ later \in Seq(Thread)
      /\ Whole(thread) /\ Kids(thread) /\ Placed(thread, OnStack) /\ Remain(thread, OnStack)
      /\ Queues(thread, active, ToSet(later) \cup Members(Rests)) /\ EventLists(thread, waiters)
      /\ IsInjective(later) /\ Members(Rests) \cap ToSet(later) = {}
  BY DEF TypeOK, IInv, Table, List, Others
<1> QED
  BY <1>3, <1>4 DEF Sound

(* The next active event leaves the invariant. *)
LEMMA RunEventKeeps ==
    ASSUME TypeOK, IInv, RunEvent
    PROVE  IInv'
<1> DEFINE list == Head(active)
           h == Head(list)
           rest == Tail(list)
           q == [Now EXCEPT !.active = Tail(@)]
           A == Tail(active)
           T == thread
           T2 == Up(T, h)
<1>1. /\ stack = <<>> /\ active # <<>> /\ later' = later /\ waiters' = waiters /\ failed = {}
      /\ Become(Started(q, h)) /\ stack' = <<[thr |-> h, rest |-> rest]>>
  BY DEF RunEvent
<1>2. Sound(T, active, later, waiters, {}, {}) /\ Members(Rests) = {}
  BY <1>1, Idle
<1>3. /\ Queues(T, active, ToSet(later) \cup {}) /\ T \in Table /\ active \in Seq(List)
      /\ later \in Seq(Thread) /\ IsInjective(later) /\ Fields(T)
  BY <1>2 DEF Sound, Whole
<1>4. list \in List /\ A \in Seq(List)
  BY <1>1, <1>3
<1>5. /\ IsInjective(list) /\ ToSet(list) \subseteq Members(active) /\ Distinct(A)
      /\ Members(A) = Members(active) \ ToSet(list)
  BY <1>1, <1>3, ListsAreLists, ListTaken DEF Queues
<1> HIDE DEF list, A
<1>6. /\ h \in Thread /\ h \in ToSet(list) /\ rest \in Seq(Thread) /\ IsInjective(rest)
      /\ ToSet(rest) = ToSet(list) \ {h}
  BY <1>4, <1>5, EmptyList, ListShrinks DEF List
<1> HIDE DEF h, rest
<1>7. T[h].scheduled
  BY <1>3, <1>5, <1>6 DEF Queues
<1>8. q \in State /\ q.thread = T /\ q.active = A /\ q.failed = {}
  BY <1>1, <1>4, NowTyped DEF State, Now, List, A
<1> HIDE DEF q
<1>9. thread' = T2 /\ active' = A /\ failed' = {}
  <2>1. IsStarted(q, h, Started(q, h))
    BY <1>6, <1>8, StartedIs, Zenon
  <2> QED
    BY <1>1, <1>7, <1>8, <2>1 DEF IsStarted, Become, Up
<1>10. IsUp(T, T2, h, waiters)
  BY <1>2, <1>6, <1>7, StartedSound, Zenon
<1> HIDE DEF T2
<1>11. Queues(T2, A, ToSet(later) \cup ToSet(rest))
  <2>1. {t \in Thread : T2[t].scheduled} = {t \in Thread : T[t].scheduled} \ {h}
    BY <1>10 DEF IsUp
  <2> QED
    BY <1>3, <1>5, <1>6, <2>1 DEF Queues
<1>12. T2[h].live
  <2>1. T[h] \in ThreadRecord /\ FieldsOf(T[h])
    BY <1>3, <1>6, Record DEF Fields
  <2> QED
    BY <1>6, <1>7, <1>10, <2>1, DeletedTyped DEF IsUp, FieldsOf
<1>13. ToSet(rest) \cap ToSet(later) = {}
  BY <1>3, <1>5, <1>6 DEF Queues
<1>14. /\ Whole(T2) /\ Kids(T2) /\ Placed(T2, {h}) /\ Remain(T2, {h}) /\ EventLists(T2, waiters)
  BY <1>10 DEF IsUp
<1> HIDE DEF T
<1> QED
  BY <1>1, <1>3, <1>6, <1>9, <1>11, <1>12, <1>13, <1>14, OneRuns

(* Lists of one thread each *)
LEMMA Singles ==
    ASSUME NEW l \in Seq(Thread), IsInjective(l), NEW A, A = [i \in DOMAIN l |-> <<l[i]>>]
    PROVE  A \in Seq(List) /\ Distinct(A) /\ Members(A) = ToSet(l)
<1> DEFINE n == Len(l)
<1>1. n \in Nat /\ DOMAIN l = 1..n /\ DOMAIN A = 1..n /\ \A i \in 1..n : A[i] = <<l[i]>> /\ l[i] \in Thread
  OBVIOUS
<1>2. \A i \in 1..n : A[i] \in List /\ IsInjective(A[i]) /\ ToSet(A[i]) = {l[i]}
  BY <1>1, OneList, ListOfOne
<1>3. A \in Seq(List)
  BY <1>1, <1>2
<1>4. \A i, j \in 1..n : i # j => l[i] # l[j]
  BY <1>1 DEF IsInjective
<1>5. Distinct(A)
  BY <1>1, <1>2, <1>4 DEF Distinct
<1>6. Members(A) = ToSet(l)
  <2>1. Members(A) = UNION {ToSet(A[i]) : i \in 1..n} /\ ToSet(l) = {l[i] : i \in 1..n}
    BY <1>1 DEF Members, ToSet
  <2>2. \A x \in Members(A) : x \in ToSet(l)
    <3> SUFFICES ASSUME NEW x \in Members(A) PROVE x \in ToSet(l)
      OBVIOUS
    <3>1. PICK i \in 1..n : x \in ToSet(A[i])
      BY <2>1
    <3> QED
      BY <1>2, <2>1, <3>1
  <2>3. \A x \in ToSet(l) : x \in Members(A)
    <3> SUFFICES ASSUME NEW x \in ToSet(l) PROVE x \in Members(A)
      OBVIOUS
    <3>1. PICK i \in 1..n : x = l[i]
      BY <2>1
    <3> QED
      BY <1>2, <2>1, <3>1
  <2> QED
    BY <2>2, <2>3
<1> QED
  BY <1>3, <1>5, <1>6

(* The next time step leaves the invariant. *)
LEMMA NextTimeKeeps ==
    ASSUME TypeOK, IInv, NextTime
    PROVE  IInv'
<1>1. PICK due \in SUBSET ToSet(later) \ {{}} :
          /\ active' = [i \in DOMAIN Those(later, due) |-> <<Those(later, due)[i]>>]
          /\ later' = Those(later, Thread \ due)
  BY DEF NextTime
<1>2. /\ thread' = thread /\ waiters' = waiters /\ stack' = stack /\ failed' = {}
      /\ stack = <<>> /\ active = <<>> /\ failed = {}
  BY DEF NextTime
<1>3. Sound(thread, active, later, waiters, {}, {}) /\ OnStack = {} /\ Members(Rests) = {}
  BY <1>2, Idle
<1>4. later \in Seq(Thread) /\ IsInjective(later) /\ Queues(thread, active, ToSet(later) \cup {})
  BY <1>3 DEF Sound
<1> DEFINE a == Those(later, due)
           b == Those(later, Thread \ due)
<1>5. /\ a \in Seq(Thread) /\ IsInjective(a) /\ ToSet(a) = ToSet(later) \cap due
      /\ b \in Seq(Thread) /\ IsInjective(b) /\ ToSet(b) = ToSet(later) \cap (Thread \ due)
  BY <1>4, ThoseOf, Zenon
<1>6. ToSet(later) \subseteq Thread
  BY <1>4 DEF ToSet
<1> HIDE DEF a, b
<1>7. /\ active' = [i \in DOMAIN a |-> <<a[i]>>] /\ later' = b
  BY <1>1 DEF a, b
<1>8. active' \in Seq(List) /\ Distinct(active') /\ Members(active') = ToSet(a)
  <2> DEFINE A == active'
  <2> HIDE DEF A
  <2>1. A \in Seq(List) /\ Distinct(A) /\ Members(A) = ToSet(a)
    BY <1>5, <1>7, Singles DEF A
  <2> QED
    BY <2>1 DEF A
<1>9. Members(active) = {}
  BY <1>2 DEF Members
<1>10. OnStack' = {} /\ Members(Rests)' = {} /\ Distinct(Rests)'
  <2>1. OnStack' = OnStack /\ Rests' = Rests
    BY <1>2 DEF OnStack, Rests
  <2> QED
    BY <1>3, <2>1 DEF IInv
<1>11. Queues(thread, active', ToSet(later') \cup {})
  BY <1>4, <1>5, <1>6, <1>7, <1>8, <1>9 DEF Queues
<1>12. Calls(thread', stack')
  BY <1>2 DEF IInv
<1>13. IsInjective(later') /\ {} \cap ToSet(later') = {}
  BY <1>5, <1>7
<1> QED
  BY <1>2, <1>3, <1>10, <1>11, <1>12, <1>13 DEF IInv, Others, Sound

(* The initial processes are scheduled, the other addresses free. *)
LEMMA InitHolds == Init => IInv
<1> SUFFICES ASSUME Init PROVE IInv
  OBVIOUS
<1> DEFINE x == [NewThread(Module, Nobody) EXCEPT !.scheduled = TRUE]
<1>1. /\ Module \in Scope /\ Nobody \in Thread \cup {Nobody} /\ NProcs \in Nat /\ 1..NProcs \subseteq Thread
      /\ Thread \subseteq Nat /\ Nobody \notin Thread
  BY Scopes, ThreadAssumption, Addresses DEF Thread
<1>2. NewThread(Module, Nobody) \in ThreadRecord
  BY <1>1, NewTyped, Zenon
<1>3. /\ x \in ThreadRecord /\ x.live /\ x.parent = Nobody /\ x.children = {} /\ x.detached = {}
      /\ x.taskFunc = {} /\ ~x.joining /\ ~x.isDetached /\ ~x.waiting /\ x.scheduled /\ ~x.ended
      /\ ~x.onEvent /\ x.pc = <<>>
  <2>1. x \in ThreadRecord
    BY <1>2, FlagTyped, OneList
  <2> QED
    BY <2>1 DEF NewThread
<1> HIDE DEF x
<1>4. \A t \in Thread : thread[t] = IF t > NProcs THEN Deleted ELSE x
  BY DEF Init, x
<1>5. \A t \in Thread : thread[t] = Deleted \/ thread[t] = x
  BY <1>4
<1>6. FieldsOf(x) /\ FieldsOf(Deleted)
  <2>1. <<>> \in PcShapes /\ <<>> # Null /\ ~Detaches(<<>>)
    BY Shapes DEF PcShapes
  <2> QED
    BY <1>3, <2>1, DeletedTyped DEF FieldsOf
<1>7. Whole(thread)
  <2>1. Fields(thread)
    BY <1>5, <1>6 DEF Fields
  <2>2. \A t \in Thread : /\ thread[t].parent = Nobody /\ thread[t].children = {} /\ thread[t].detached = {}
    BY <1>3, <1>5, DeletedTyped
  <2>3. Tree(thread) /\ Families(thread)
    BY <2>2 DEF Tree, Families
  <2>4. Rooted(thread)
    <3> SUFFICES ASSUME NEW S \in SUBSET Thread, S # {} PROVE \E t \in S : thread[t].parent \notin S
      BY DEF Rooted
    <3>1. PICK t \in S : t \in Thread
      OBVIOUS
    <3>2. thread[t].parent = Nobody
      BY <2>2, <3>1
    <3>3. Nobody \notin S
      BY <1>1
    <3> QED
      BY <3>1, <3>2, <3>3
  <2> QED
    BY <2>1, <2>3, <2>4 DEF Whole
<1>8. Kids(thread)
  <2> SUFFICES ASSUME NEW t \in Thread, Going(thread[t]) PROVE KidsOf(thread, t)
    BY DEF Kids
  <2>1. thread[t] = x
    BY <1>5, DeletedTyped DEF Going
  <2>2. ToJoin(thread[t]) = 0 /\ ~Detaches(thread[t].pc)
    BY <1>3, <2>1, Shapes DEF ToJoin
  <2>3. Cardinality({}) = 0
    BY FS_EmptySet
  <2> QED
    BY <1>3, <2>1, <2>2, <2>3 DEF KidsOf
<1>9. stack = <<>> /\ OnStack = {} /\ Members(Rests) = {} /\ Distinct(Rests)
  <2>1. stack = <<>> /\ stack \in Seq(Frame)
    BY DEF Init
  <2>2. RunOn(stack) = {} /\ Members(RestsOf(stack)) = {} /\ Distinct(RestsOf(stack))
    BY <2>1, Frames
  <2> QED
    BY <2>1, <2>2 DEF OnStack, Rests, RunOn, RestsOf
<1>10. Placed(thread, OnStack) /\ Remain(thread, OnStack)
  <2> SUFFICES ASSUME NEW t \in Thread PROVE PlaceOf(thread[t], t \in OnStack) /\ RemainsOf(thread[t])
    BY DEF Placed, Remain
  <2>1. ~(t \in OnStack)
    BY <1>9
  <2> QED
    BY <1>3, <1>5, <2>1, DeletedTyped DEF PlaceOf, RemainsOf
<1>11. later = <<>> /\ ToSet(later) = {} /\ IsInjective(later)
  BY DEF Init, ToSet, IsInjective
<1>12. Queues(thread, active, {})
  <2> DEFINE l == [p \in 1..NProcs |-> p]
  <2>1. l \in Seq(Thread) /\ IsInjective(l) /\ ToSet(l) = 1..NProcs /\ DOMAIN l = 1..NProcs
    BY <1>1 DEF IsInjective, ToSet
  <2>2. active = [i \in DOMAIN l |-> <<l[i]>>]
    BY <2>1 DEF Init
  <2> HIDE DEF l
  <2>3. Distinct(active) /\ Members(active) = 1..NProcs
    BY <2>1, <2>2, Singles
  <2>4. {t \in Thread : thread[t].scheduled} = 1..NProcs
    <3>1. \A t \in Thread : thread[t].scheduled <=> t \in 1..NProcs
      BY <1>1, <1>3, <1>4, DeletedTyped DEF Thread
    <3> QED
      BY <1>1, <3>1
  <2> QED
    BY <2>3, <2>4 DEF Queues
<1>13. EventLists(thread, waiters)
  <2>1. DOMAIN waiters = Events /\ \A e \in Events : waiters[e] = <<>>
    BY DEF Init
  <2>2. IsInjective(<<>>) /\ ToSet(<<>>) = {}
    BY DEF IsInjective, ToSet
  <2>3. Distinct(waiters) /\ Members(waiters) = {}
    BY <2>1, <2>2 DEF Distinct, Members
  <2>4. \A t \in Thread : ~thread[t].onEvent
    BY <1>3, <1>5, DeletedTyped
  <2> QED
    BY <2>3, <2>4 DEF EventLists
<1>14. Calls(thread, stack)
  BY <1>9 DEF Calls
<1>15. failed = {} /\ Others = {} \cup {} /\ {} \cap {} = {} /\ {} \cup {} = {}
  BY <1>9, <1>11 DEF Init, Others
<1> QED
  BY <1>7, <1>8, <1>9, <1>10, <1>11, <1>12, <1>13, <1>14, <1>15 DEF IInv
================================================================================
