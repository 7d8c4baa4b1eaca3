-------------------------------- MODULE VThread --------------------------------
(* The threads of the Verilog simulation engine: iverilog/vvp/vthread.cc, with  *)
(* the event lists of vvp/event.cc and the thread events of vvp/schedule.cc.    *)
(*                                                                              *)
(* A thread runs until an opcode returns false.  The statements a process may   *)
(* execute are the opcode sequences the code generator emits for them           *)
(* (tgt-vvp/vvp_process.c, tgt-vvp/draw_ufunc.c); which one comes next is up to *)
(* the Verilog program, so it is chosen freely.  A function call runs its       *)
(* thread on the spot, inside the %fork of its caller: stack holds the nested   *)
(* calls of vthread_run, innermost first, each with the rest of its list.       *)
(*                                                                              *)
(* Threads are known by their addresses.  vthread_new may reuse the address of  *)
(* any deleted thread, and the sets of children are walked in address order.    *)
EXTENDS Naturals, Sequences, FiniteSets, SequencesExt, FiniteSetsExt

CONSTANTS
    NThreads,      \* bound: addresses, that is threads alive at a time
    NProcs,        \* initial processes: threads 1..NProcs
    Blocks,        \* named blocks
    Tasks,         \* task scopes
    Functions,     \* function scopes
    Outer,         \* the scope a named block is written in
    Events,        \* named events
    Statements,    \* kinds of statement the program uses
    Disablable,    \* scopes the program disables
    JoinsBesideDetached,  \* may a thread with detached children wait in a %join?
    MaxStmts       \* bound: statements executed

Module == "module"                         \* the scope of the initial processes
Scope == {Module} \cup Blocks \cup Tasks \cup Functions
Thread == 1..NThreads
Nobody == 0                                \* the null pointer

ASSUME ThreadAssumption ==
    /\ NThreads \in Nat /\ NProcs \in 1..NThreads /\ MaxStmts \in Nat
    /\ Outer \in [Blocks -> Scope]
    /\ Blocks \cap (Tasks \cup Functions) = {} /\ Tasks \cap Functions = {}
    /\ Module \notin Blocks \cup Tasks \cup Functions
    /\ Disablable \subseteq Blocks \cup Tasks
    /\ JoinsBesideDetached \in BOOLEAN

VARIABLES
    thread,        \* the thread at each address
    active,        \* the active events of this time step: lists of threads
    later,         \* thread events of later time steps
    waiters,       \* the list of threads waiting for each event
    stack,         \* calls of vthread_run: the running thread, the rest of the list
    stmts,         \* statements executed
    failed         \* functions one of whose assertions failed

vars == <<thread, active, later, waiters, stack, stmts, failed>>

--------------------------------------------------------------------------------
(* The thread structure.  pc lists the opcodes left of the statement being      *)
(* executed; at the end of a statement it is empty.                             *)

Null == <<"zombie">>                       \* codespace_null()

Opcodes == {"join", "detach", "zombie"}

ThreadRecord ==
    [live : BOOLEAN, scope : Scope, inScope : BOOLEAN, parent : Thread \cup {Nobody},
     children : SUBSET Thread, detached : SUBSET Thread, taskFunc : SUBSET Thread,
     joining : BOOLEAN, isDetached : BOOLEAN, waiting : BOOLEAN, scheduled : BOOLEAN,
     ended : BOOLEAN, onEvent : BOOLEAN, pc : Seq(Opcodes)]

NewThread(scope, parent) ==
    [live |-> TRUE, scope |-> scope, inScope |-> TRUE, parent |-> parent,
     children |-> {}, detached |-> {}, taskFunc |-> {}, joining |-> FALSE,
     isDetached |-> FALSE, waiting |-> FALSE, scheduled |-> FALSE, ended |-> FALSE,
     onEvent |-> FALSE, pc |-> <<>>]

Deleted == [NewThread(Module, Nobody) EXCEPT !.live = FALSE, !.inScope = FALSE]

Unused == {t \in Thread : ~thread[t].live}

(* The module, task or function a scope belongs to.  No block is inside itself, *)
(* so that there is one.                                                        *)
Home[s \in Scope] == IF s \in Blocks THEN Home[Outer[s]] ELSE s

ASSUME HomeAssumption ==
    \A s \in Scope : Home[s] = IF s \in Blocks THEN Home[Outer[s]] ELSE s

InFunction(s) == Home[s] \in Functions

--------------------------------------------------------------------------------
(* The functions the opcodes call work on what they change: r is a record of    *)
(* the threads, the active events and the failed assertions.                    *)

Now == [thread |-> thread, active |-> active, failed |-> failed]

Become(r) == thread' = r.thread /\ active' = r.active /\ failed' = r.failed

(* the functions whose assertions are modelled *)
Asserting == {"vthread_mark_scheduled", "vthread_schedule_list", "vthread_run", "vthread_reap",
              "do_join", "of_WAIT", "of_WAIT_FORK", "of_JOIN", "of_JOIN_DETACH",
              "of_DISABLE_FORK", "of_END"}

Check(r, function, holds) ==
    IF holds THEN r ELSE [r EXCEPT !.failed = @ \cup {function}]

(* schedule_vthread for the current time: in front of everything if pushed *)
Schedule(r, list, push) ==
    LET marked == [t \in Thread |-> [r.thread[t] EXCEPT !.scheduled = @ \/ Contains(list, t)]]
        queue == IF push THEN <<list>> \o r.active ELSE Append(r.active, list)
    IN  Check([r EXCEPT !.thread = marked, !.active = queue], "vthread_mark_scheduled",
              \A t \in ToSet(list) : ~r.thread[t].scheduled)

(* A list still holds the thread: the event of that list will delete it *)
HeldByEventOnly(me) == me.onEvent
Held(me) == me.scheduled \/ me.onEvent

ReapKeepsLinks(r, dead) ==
    LET After(t) ==
            IF t \notin dead THEN r.thread[t]
            ELSE IF Held(r.thread[t])
                 THEN [r.thread[t] EXCEPT !.parent = Nobody, !.inScope = FALSE, !.pc = Null]
                 ELSE Deleted
    IN  [r EXCEPT !.thread = [t \in Thread |-> After(t)]]

(* vthread_reap of a set of threads, a child before its parent.  A thread held  *)
(* by a list stays as a zombie.                                                 *)
Reap(r, dead) ==
    LET old == r.thread
        After(t) ==
            IF t \in dead
            THEN IF Held(old[t])
                 THEN [old[t] EXCEPT !.parent = Nobody, !.inScope = FALSE, !.pc = Null,
                                     !.children = @ \ dead]
                 ELSE Deleted
            ELSE [old[t] EXCEPT
                    !.parent = IF @ \notin dead THEN @
                               ELSE IF old[t].isDetached THEN Nobody ELSE old[@].parent,
                    !.isDetached = @ /\ old[t].parent \notin dead,
                    !.children = @ \ {d \in dead : old[d].parent = t /\ ~old[d].isDetached},
                    !.detached = @ \ {d \in dead : old[d].parent = t /\ old[d].isDetached}]
        Asserted(t) ==
            /\ \A c \in old[t].children : old[c].parent = t
            /\ \A c \in old[t].detached : old[c].parent = t /\ old[c].isDetached
            /\ old[t].parent # Nobody =>
                  t \in IF old[t].isDetached THEN old[old[t].parent].detached
                                             ELSE old[old[t].parent].children
            /\ Held(old[t]) \/ old[t].children \subseteq dead
    IN  Check([r EXCEPT !.thread = [t \in Thread |-> After(t)]], "vthread_reap",
              \A t \in dead : Asserted(t))

(* test_joinable: task and function children come before the others *)
Joinable(threads, parent, child) ==
    threads[parent].taskFunc # {} => child \in threads[parent].taskFunc

(* do_join *)
DoJoin(r, parent, child) ==
    Reap(Check([r EXCEPT !.thread[parent].taskFunc = @ \ {child}], "do_join",
               r.thread[child].parent = parent),
         {child})

Childless(threads, t) == {}
(* the children of a thread, and theirs, and so on: what is in every set that   *)
(* holds the thread's children and with a thread also its children              *)
Offspring(threads, t) ==
    {u \in Thread :
        \A S \in SUBSET Thread :
            threads[t].children \subseteq S /\ (\A c \in S : threads[c].children \subseteq S)
                => u \in S}

(* A child that is over takes the %join of its parent off *)
WakeNobody(r, parent) == r
WakeKeepsJoining(r, parent) == Schedule(r, <<parent>>, TRUE)
WakeJoiner(r, parent) ==
    Schedule([r EXCEPT !.thread[parent].joining = FALSE], <<parent>>, TRUE)

(* do_disable: the thread and all its descendants stop; the descendants are     *)
(* reaped, and the thread itself unless a %join of its parent is to do that.    *)
DoDisable(r, t) ==
    LET brood == Offspring(r.thread, t)
        stopped == [u \in Thread |->
            IF u \notin brood \cup {t} THEN r.thread[u]
            ELSE [r.thread[u] EXCEPT !.inScope = FALSE, !.pc = Null, !.ended = TRUE,
                                     !.joining = @ /\ r.thread[u].children = {}]]
        reaped == Reap([r EXCEPT !.thread = stopped], brood)
        parent == reaped.thread[t].parent
    IN  IF parent = Nobody THEN Reap(reaped, {t})
        ELSE IF ~reaped.thread[parent].joining THEN reaped
        ELSE Reap(IF reaped.thread[parent].ended
                  THEN [reaped EXCEPT !.thread[parent].joining = FALSE]
                  ELSE WakeJoiner(reaped, parent), {t})

DisableFirst(r, scope) ==
    LET inside == {t \in Thread : r.thread[t].inScope /\ r.thread[t].scope = scope}
    IN  IF inside = {} THEN r ELSE DoDisable(r, Min(inside))

(* the loop of of_DISABLE *)
DisableScope(r, scope) ==
    LET Inside(q) == {t \in Thread : q.thread[t].inScope /\ q.thread[t].scope = scope}
        loop[i \in 0..NThreads] ==
            IF i = 0 THEN r
            ELSE LET q == loop[i - 1]
                 IN  IF Inside(q) = {} THEN q ELSE DoDisable(q, Min(Inside(q)))
    IN  loop[NThreads]

--------------------------------------------------------------------------------
(* Running a thread.                                                            *)

Running == stack # <<>> /\ failed = {}

self == Head(stack).thr

(* an opcode that returns true *)
Continue(r) == Become(r) /\ UNCHANGED stack

(* vthread_run takes up the first thread of a list *)
Started(r, t) ==
    Check([r EXCEPT !.thread[t].scheduled = FALSE], "vthread_run", r.thread[t].scheduled)

(* an opcode that returns false: the rest of the list, or back to the caller *)
Pause(r) ==
    LET rest == Head(stack).rest
    IN  IF rest = <<>>
        THEN Become(r) /\ stack' = Tail(stack)
        ELSE /\ Become(Started(r, Head(rest)))
             /\ stack' = <<[thr |-> Head(rest), rest |-> Tail(rest)]>> \o Tail(stack)

(* The running thread executes a statement of the given kind.  A function has   *)
(* no timing controls, calls no tasks, and calls no functions in this model.    *)
Statement(kind) ==
    /\ Running /\ thread[self].pc = <<>>
    /\ kind \in Statements /\ stmts < MaxStmts
    /\ InFunction(thread[self].scope) => kind \in {"event", "block", "disable"}
    /\ stmts' = stmts + 1

(* A statement whose %join may block the thread *)
JoinStatement(kind) ==
    Statement(kind) /\ (JoinsBesideDetached \/ thread[self].detached = {})

Opcode(op) == Running /\ thread[self].pc # <<>> /\ Head(thread[self].pc) = op

--------------------------------------------------------------------------------
(* Statements.                                                                  *)

(* %delay: of this time step (#0), or to a later one *)
Delay ==
    /\ Statement("delay")
    /\ \/ Pause(Schedule(Now, <<self>>, FALSE)) /\ UNCHANGED later
       \/ /\ Pause([Now EXCEPT !.thread[self].scheduled = TRUE])
          /\ later' = Append(later, self)
    /\ UNCHANGED waiters

(* %wait: in front of the threads that wait for the event already *)
Wait(e) ==
    /\ Statement("wait")
    /\ Pause(Check([Now EXCEPT !.thread[self].onEvent = TRUE], "of_WAIT",
                   ~thread[self].onEvent))
    /\ waiters' = [waiters EXCEPT ![e] = <<self>> \o @]
    /\ UNCHANGED later

(* vthread_schedule_list: the whole list is one event *)
Woken(r, list) ==
    LET unhooked == [t \in Thread |-> [r.thread[t] EXCEPT !.onEvent = @ /\ ~Contains(list, t)]]
    IN  Schedule(Check([r EXCEPT !.thread = unhooked], "vthread_schedule_list",
                       \A t \in ToSet(list) : r.thread[t].onEvent),
                 list, FALSE)

(* run_waiting_threads_ *)
RunWaitingAlways(r, list) == Woken(r, list)
RunWaiting(r, list) == IF list = <<>> THEN r ELSE Woken(r, list)

(* %event *)
Event(e) ==
    /\ Statement("event")
    /\ Continue(RunWaiting(Now, waiters[e]))
    /\ waiters' = [waiters EXCEPT ![e] = <<>>]
    /\ UNCHANGED later

(* of_FORK of the children at the addresses cs, one after the other, and the    *)
(* opcodes that follow; only the children of a function are not scheduled       *)
Forked(r, cs, scope, pc) ==
    LET called == scope \in Tasks \cup Functions
        born == [t \in Thread |->
            IF Contains(cs, t) THEN [NewThread(scope, self) EXCEPT !.scheduled = scope \notin Functions]
            ELSE r.thread[t]]
        pushed == IF scope \in Functions THEN <<>> ELSE Reverse([i \in DOMAIN cs |-> <<cs[i]>>])
    IN  [r EXCEPT !.thread = [born EXCEPT ![self].children = @ \cup ToSet(cs),
                                          ![self].taskFunc = IF called THEN @ \cup ToSet(cs) ELSE @,
                                          ![self].pc = pc],
                  !.active = pushed \o @]

New(n) == {cs \in [1..n -> Unused] : IsInjective(cs)}

(* The scopes the branches of a fork may run in: a named fork is a block; one   *)
(* without a name and with more than one branch stays in the scope around it.   *)
ForkScopes(n) ==
    {b \in Blocks : Outer[b] = thread[self].scope}
        \cup (IF n > 1 THEN {thread[self].scope} ELSE {})

(* fork ... join, join_any and join_none of n branches *)
Fork(n) ==
    /\ Running
    /\ \E cs \in New(n), scope \in ForkScopes(n) :
          \/ /\ JoinStatement("join")
             /\ Continue(Forked(Now, cs, scope, [i \in 1..n |-> "join"]))
          \/ /\ JoinStatement("join_any")
             /\ Continue(Forked(Now, cs, scope, IF n = 1 THEN <<"join">> ELSE <<"join", "detach">>))
          \/ /\ Statement("join_none")
             /\ Continue(Forked(Now, cs, scope, <<"detach">>))
    /\ UNCHANGED <<later, waiters>>

(* a named block, and a task call: %fork and %join of one thread *)
Block ==
    /\ JoinStatement("block")
    /\ \E cs \in New(1), b \in Blocks :
           /\ Outer[b] = thread[self].scope
           /\ Continue(Forked(Now, cs, b, <<"join">>))
    /\ UNCHANGED <<later, waiters>>

CallTask ==
    /\ JoinStatement("task")
    /\ \E cs \in New(1), t \in Tasks : Continue(Forked(Now, cs, t, <<"join">>))
    /\ UNCHANGED <<later, waiters>>

(* A function call: %fork runs the function's thread until it pauses or ends. *)
CallFunction ==
    /\ JoinStatement("function")
    /\ \E cs \in New(1), f \in Functions :
           /\ Become(Forked(Now, cs, f, <<"join">>))
           /\ stack' = <<[thr |-> cs[1], rest |-> <<>>]>> \o stack
    /\ UNCHANGED <<later, waiters>>

(* %disable: a thread that disabled itself is gone *)
Disable(scope) ==
    LET r == DisableScope(Now, scope)
    IN  /\ Statement("disable")
        /\ InFunction(thread[self].scope) => Home[scope] = Home[thread[self].scope]
        /\ IF r.thread[self].live /\ ~r.thread[self].ended THEN Continue(r) ELSE Pause(r)
        /\ UNCHANGED <<later, waiters>>

(* %disable/fork: every detached child is disabled and reaped *)
DisableFork ==
    LET me == thread[self]
        loop[i \in 0..NThreads] ==
            IF i = 0 THEN Check(Now, "of_DISABLE_FORK", ~me.joining /\ me.children = {})
            ELSE LET q == loop[i - 1]
                     rest == q.thread[self].detached
                 IN  IF rest = {} THEN q ELSE Reap(DoDisable(q, Min(rest)), {Min(rest)})
    IN  /\ Statement("disable_fork")
        /\ Continue(loop[NThreads])
        /\ UNCHANGED <<later, waiters>>

(* %wait/fork *)
WaitFork ==
    LET me == thread[self]
        r == Check(Now, "of_WAIT_FORK", ~me.joining /\ ~me.waiting /\ me.children = {})
    IN  /\ Statement("wait_fork")
        /\ IF me.detached = {} THEN Continue(r)
           ELSE Pause([r EXCEPT !.thread[self].waiting = TRUE])
        /\ UNCHANGED <<later, waiters>>

(* the children that have ended *)
Over(kids) == {c \in kids : thread[c].ended}

(* %join: reap a child that has ended, or wait for one *)
Join ==
    LET me == thread[self]
        over == {c \in Over(me.children) : Joinable(thread, self, c)}
        r == Check([Now EXCEPT !.thread[self].pc = Tail(@)], "of_JOIN",
                   ~me.joining /\ me.children # {})
    IN  /\ Opcode("join")
        /\ IF over # {} THEN Continue(DoJoin(r, self, Min(over)))
           ELSE Pause([r EXCEPT !.thread[self].joining = TRUE])
        /\ UNCHANGED <<later, waiters, stmts>>

DetachedUnmarked(r, kids) ==
    [r EXCEPT !.thread[self].children = @ \ kids, !.thread[self].detached = @ \cup kids]
DetachedKept(r, kids) ==
    LET marked == [t \in Thread |-> [r.thread[t] EXCEPT !.isDetached = @ \/ t \in kids]]
    IN  [r EXCEPT !.thread = [marked EXCEPT ![self].detached = @ \cup kids]]
Detached(r, kids) ==
    LET marked == [t \in Thread |-> [r.thread[t] EXCEPT !.isDetached = @ \/ t \in kids]]
    IN  [r EXCEPT !.thread = [marked EXCEPT ![self].children = @ \ kids,
                                            ![self].detached = @ \cup kids]]

(* %join/detach: the children that have ended are reaped, the others detached *)
JoinDetach ==
    LET me == thread[self]
        r == Check([Now EXCEPT !.thread[self].pc = Tail(@)], "of_JOIN_DETACH",
                   me.taskFunc = {} /\ \A c \in me.children : thread[c].parent = self)
    IN  /\ Opcode("detach")
        /\ Continue(Detached(Reap(r, Over(me.children)), me.children \ Over(me.children)))
        /\ UNCHANGED <<later, waiters, stmts>>

EndedKeepsDetached(r) ==
    [r EXCEPT !.thread[self].ended = TRUE, !.thread[self].pc = Null, !.thread[self].detached = {}]

(* of_END, after the thread is marked as ended and its detached children are    *)
(* let go *)
Ended(r) ==
    LET me == thread[self]
        alone == [t \in Thread |->
            IF t = self THEN [r.thread[t] EXCEPT !.ended = TRUE, !.pc = Null, !.detached = {}]
            ELSE IF t \in me.detached
            THEN [r.thread[t] EXCEPT !.parent = Nobody, !.isDetached = FALSE]
            ELSE r.thread[t]]
    IN  Check([r EXCEPT !.thread = alone], "of_END",
              /\ ~me.onEvent /\ me.children = {}
              /\ \A c \in me.detached : r.thread[c].parent = self /\ r.thread[c].isDetached)

(* the end of a child its parent waits for in a %join *)
EndsJoinUnreaped(r, parent) ==
    IF Joinable(r.thread, parent, self) THEN WakeJoiner(r, parent) ELSE r
EndsJoin(r, parent) ==
    LET asserted == Check(r, "of_END", ~r.thread[self].isDetached)
    IN  IF Joinable(r.thread, parent, self)
        THEN DoJoin(WakeJoiner(asserted, parent), parent, self)
        ELSE asserted

WakeWaiterAgain(r, parent) == Schedule(r, <<parent>>, TRUE)
WakeWaiter(r, parent) ==
    Schedule([r EXCEPT !.thread[parent].waiting = FALSE], <<parent>>, TRUE)

(* the end of a detached child: the last one wakes up a %wait/fork *)
EndsDetached(r, parent) ==
    LET left == [r EXCEPT !.thread[parent].detached = @ \ {self},
                          !.thread[self].isDetached = FALSE, !.thread[self].parent = Nobody]
    IN  Reap(IF left.thread[parent].waiting /\ left.thread[parent].detached = {}
             THEN WakeWaiter(left, parent) ELSE left, {self})

(* %end *)
End ==
    LET r == Ended(Now)
        parent == thread[self].parent
    IN  /\ Running /\ thread[self].pc = <<>>
        /\ Pause(IF parent = Nobody THEN Reap(r, {self})
                 ELSE IF r.thread[parent].joining THEN EndsJoin(r, parent)
                 ELSE IF r.thread[self].isDetached THEN EndsDetached(r, parent)
                 ELSE r)
        /\ UNCHANGED <<later, waiters, stmts>>

(* of_ZOMBIE: a thread without parent and children is deleted by its last event *)
Zombie ==
    /\ Opcode("zombie")
    /\ Pause(IF thread[self].parent = Nobody /\ thread[self].children = {}
             THEN [Now EXCEPT !.thread[self] = Deleted] ELSE Now)
    /\ UNCHANGED <<later, waiters, stmts>>

--------------------------------------------------------------------------------
(* The scheduler.                                                               *)

(* The next active event: vthread_run of a list of threads *)
RunEvent ==
    LET list == Head(active)
    IN  /\ stack = <<>> /\ failed = {} /\ active # <<>>
        /\ Become(Started([Now EXCEPT !.active = Tail(@)], Head(list)))
        /\ stack' = <<[thr |-> Head(list), rest |-> Tail(list)]>>
        /\ UNCHANGED <<later, waiters, stmts>>

(* The threads of a list that are in S, in their order *)
Those(list, S) ==
    LET chosen[i \in 0..Len(list)] ==
            IF i = 0 THEN <<>>
            ELSE IF list[i] \in S THEN Append(chosen[i - 1], list[i]) ELSE chosen[i - 1]
    IN  chosen[Len(list)]

(* Time goes on to the next events.  Their delays are whatever the program      *)
(* says, so they may be any; those due at the same time keep their order.       *)
NextTime ==
    /\ stack = <<>> /\ failed = {} /\ active = <<>>
    /\ \E due \in SUBSET ToSet(later) \ {{}} :
          LET first == Those(later, due)
          IN  /\ active' = [i \in DOMAIN first |-> <<first[i]>>]
              /\ later' = Those(later, Thread \ due)
    /\ UNCHANGED <<thread, waiters, stack, stmts, failed>>

(* The simulation is finished when there are no events left; a failed assertion     *)
(* aborts it.                                                                   *)
Finished ==
    /\ failed # {} \/ (stack = <<>> /\ active = <<>> /\ later = <<>>)
    /\ UNCHANGED vars

Init ==
    /\ thread = [t \in Thread |-> IF t > NProcs THEN Deleted
                                  ELSE [NewThread(Module, Nobody) EXCEPT !.scheduled = TRUE]]
    /\ active = [p \in 1..NProcs |-> <<p>>]
    /\ later = <<>>
    /\ waiters = [e \in Events |-> <<>>]
    /\ stack = <<>>
    /\ stmts = 0
    /\ failed = {}

Next ==
    \/ Delay
    \/ \E e \in Events : Wait(e) \/ Event(e)
    \/ \E n \in 1..2 : Fork(n)
    \/ Block \/ CallTask \/ CallFunction
    \/ \E s \in Disablable : Disable(s)
    \/ DisableFork \/ WaitFork
    \/ Join \/ JoinDetach \/ End \/ Zombie
    \/ RunEvent \/ NextTime \/ Finished

Spec == Init /\ [][Next]_vars

--------------------------------------------------------------------------------
(* Properties.                                                                  *)

Live == {t \in Thread : thread[t].live}
Alive == {t \in Live : thread[t].pc # Null}
OnStack == {stack[i].thr : i \in DOMAIN stack}
Rests == [i \in DOMAIN stack |-> stack[i].rest]
Members(lists) == UNION {ToSet(lists[i]) : i \in DOMAIN lists}
Distinct(lists) ==
    \A i, j \in DOMAIN lists :
        IsInjective(lists[i]) /\ (i # j => ToSet(lists[i]) \cap ToSet(lists[j]) = {})
Orphaned(t) == thread[t].pc = Null /\ thread[t].parent = Nobody    \* reaped already

TypeOK ==
    /\ thread \in [Thread -> ThreadRecord]
    /\ active \in Seq(Seq(Thread) \ {<<>>}) /\ later \in Seq(Thread)
    /\ waiters \in [Events -> Seq(Thread)]
    /\ stack \in Seq([thr : Thread, rest : Seq(Thread)])
    /\ stmts \in 0..MaxStmts /\ failed \subseteq Asserting

(* No assertion of the thread code ever fails (vthread.cc, every assert of the  *)
(* modelled functions).                                                         *)
AssertsHold == failed = {}

(* The links of the thread tree agree in both directions, whoever was reaped,   *)
(* detached or disabled, and lead to threads that still exist.  A thread that   *)
(* has ended or was disabled leaves no child behind that goes on.               *)
TreeAgrees ==
    /\ \A t \in Live : thread[t].parent # Nobody =>
          /\ thread[t].parent \in Live
          /\ t \in IF thread[t].isDetached THEN thread[thread[t].parent].detached
                                           ELSE thread[thread[t].parent].children
    /\ \A t \in Live : \A c \in thread[t].children :
          c \in Live /\ thread[c].parent = t /\ ~thread[c].isDetached
    /\ \A t \in Live : ~Orphaned(t) => \A c \in thread[t].detached :
          c \in Live /\ thread[c].parent = t /\ thread[c].isDetached
    /\ \A t \in Live \ Alive : thread[t].children = {}

(* No thread is forgotten: one that can go on runs, or is on a list, or sleeps  *)
(* in a %join or a %wait/fork, one of these and no more; one that has ended is  *)
(* still to be joined by its parent, or to be deleted by the list it is on.     *)
(* is_scheduled and waiting_for_event tell the truth about the lists, on which  *)
(* no thread is twice and none is deleted (vthread_reap frees those whose flags *)
(* are clear).                                                                  *)
NoneForgotten ==
    /\ Distinct(active) /\ IsInjective(later) /\ Distinct(Rests)
    /\ Members(active) \cap ToSet(later) = {} /\ Members(Rests) \cap ToSet(later) = {}
    /\ Members(active) \cap Members(Rests) = {}
    /\ Members(active) \cup ToSet(later) \cup Members(Rests) = {t \in Live : thread[t].scheduled}
    /\ Distinct(waiters) /\ Members(waiters) = {t \in Live : thread[t].onEvent}
    /\ \A t \in Alive :
          LET me == thread[t]
              places == {<<"running", t \in OnStack>>, <<"scheduled", me.scheduled>>,
                         <<"event", me.onEvent>>, <<"join", me.joining>>, <<"fork", me.waiting>>}
          IN  \E p \in places : p[2] /\ \A q \in places : q[2] => q = p
    /\ \A t \in Live \ Alive : thread[t].parent = Nobody =>
          t \in OnStack \/ thread[t].scheduled \/ thread[t].onEvent

(* A thread asleep in a %join has a child that is still to end and that will    *)
(* wake it up when it does (of_JOIN, of_END, do_disable).                       *)
JoinersAreWoken ==
    \A t \in Alive : thread[t].joining =>
        \E c \in thread[t].children : ~thread[c].ended /\ Joinable(thread, t, c)

(* A thread asleep in a %wait/fork has a detached child that is still to end    *)
(* (of_WAIT_FORK, of_END, do_disable).                                          *)
WaitersAreWoken ==
    \A t \in Alive : thread[t].waiting => \E c \in thread[t].detached : ~thread[c].ended

(* The children of a thread are those its remaining %join and %join/detach will *)
(* collect: the threads it forked in the statement it is in, and none once the  *)
(* statement is over.                                                           *)
JoinsMatchChildren ==
    \A t \in Alive :
        LET joins == Cardinality({i \in DOMAIN thread[t].pc : thread[t].pc[i] = "join"})
                       + (IF thread[t].joining THEN 1 ELSE 0)
        IN  IF Contains(thread[t].pc, "detach")
            THEN joins < Cardinality(thread[t].children)
            ELSE joins = Cardinality(thread[t].children)

(* What must hold of every thread, also where children are detached.            *)
Consistent ==
    AssertsHold /\ TreeAgrees /\ NoneForgotten /\ JoinsMatchChildren /\ WaitersAreWoken

(* A %join does not return before a child of the thread is over: when a thread  *)
(* stops joining and goes on, one of its children is gone.                      *)
JoinWaits ==
    [][\A t \in Alive : thread[t].joining /\ thread'[t].live /\ ~thread'[t].joining
            /\ ~thread'[t].ended => thread[t].children \ thread'[t].children # {}]_vars

(* %disable of a scope stops the threads in it and all below them, and no other *)
(* thread, whatever they are doing (of_DISABLE).                                *)
DisableStops ==
    [][\A s \in Disablable : Disable(s) =>
          LET inside == {t \in Live : thread[t].inScope /\ thread[t].scope = s}
              hit == inside \cup UNION {Offspring(thread, t) : t \in inside}
          IN  \A t \in Alive : (t \in hit) <=> (~thread'[t].live \/ thread'[t].pc = Null)]_vars
================================================================================
