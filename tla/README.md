# Verification models for qflow

qflow is a digital synthesis flow: `qflow-1.0.96` drives the tools, `yosys`
synthesizes, `graywolf` places, `qrouter-1.2.34` routes, `magic-8.0.210` shows and
checks the layout and `iverilog` simulates the result. This directory models the
parts whose correctness depends on the *order* in which things happen: the
simulation engine of Icarus Verilog (`iverilog/vvp`), the waveform dumpers that run
in it and, in a second operating system thread, beside it (`iverilog/vpi`), and the
net router `qrouter`. All paths below are relative to `src/qflow-org/`.

## Inventory

| Part | Keeps | Operations | Talks to | What is hard |
|---|---|---|---|---|
| dumper work queue, `iverilog/vpi/vcd_priv2.cc` | circular buffer of commands, fill count, one mutex, three conditions, the open batch | `vcd_work_emit_*`, `flush`, `sync`, `dumpon/off`, `set_time`, `terminate`; `peek` and `pop` | simulation thread (producer), `lxt2_thread` in `sys_lxt2.c` (consumer) | two threads, cells filled and read without the lock, wake-ups sent only at certain counts, a full queue |
| VCD and LXT2 dumpers, `iverilog/vpi/sys_vcd.c`, `sys_lxt2.c` | variables with a callback, list of changed variables, dump switches, time of the file | `$dumpvars`, `$dumpoff/on/all/limit`, callbacks on value change, at the end of a time step and at the end of the simulation | scheduler (callbacks), work queue or file | tasks that come while changes of the same time step are still on the list; a full or closed file |
| vvp threads, `iverilog/vvp/vthread.cc` | tree of threads, their flags, program counter | `%fork`, `%join`, `%join/detach`, `%wait`, `%wait/fork`, `%disable`, `%disable/fork`, `%end`, `%delay`, event trigger, deletion | scheduler, event lists | cooperative threads that end, wait, and are disabled in any order; memory freed by whoever comes last |
| vvp scheduler, `iverilog/vvp/schedule.cc` | time steps, each with queues start, active, nbassign, rwsync, rosync, del_thr; init and final lists | `schedule_event_` in each region, `schedule_simulate` | threads, VPI callbacks | events created while others run, relative delays, order of the regions |
| event waiting lists, `iverilog/vvp/event.cc` | list of threads per event | add, run | threads | a trigger while threads join the list |
| inertial delay, `iverilog/vvp/delay.cc` | output value, transitions to come, delays | receive a value or a delay, `run_run` | scheduler | calls that stay scheduled for deleted transitions; inputs before and after the transitions of the same time |
| rest of the net list, `iverilog/vvp/{vvp_net,resolv}.cc` | values and strengths of nets | send | scheduler | – |
| qrouter nets, `qrouter-1.2.34/qrouter.c`, `tclqrouter.c` | lists of nets, failed nets, abandoned nets, nets not to rip up again | first and second stage, rip-up, single nets, remove | maze search | rip-up and re-route that could go on for ever or forget a net |
| qrouter grid, `qrouter-1.2.34/maze.c` | obstruction array, route lists | search, commit, rip-up of one net | nets | two representations of the same routes |
| compiler, code generator (`iverilog/*.cc`, `tgt-vvp`) | – | emits the opcodes the threads run | threads | which opcode sequences are legal |
| qflow scripts and tools, graywolf, magic, yosys | design data | batch steps | files | see "Not modelled" |

Correct means, per part:

* **work queue**: commands are carried out once each, in order, complete batches
  at a time; a cell is never rewritten while the worker may read it; strings are
  freed exactly once; after `vcd_work_sync` nothing is left to do; no call blocks
  for ever.
* **dumpers**: at the end of each time step the file shows the values of the
  variables, under the right time; between `$dumpoff` and `$dumpon` it shows none.
* **threads**: a `%join` returns when, and only when, a child is over; `wait fork`
  ends; `disable` stops what it names and all below and nothing else; no list ever
  holds a freed thread and no thread is left that nothing will wake or free; the
  assertions in the code hold.
* **scheduler**: events run at their time and in the order of the regions, FIFO
  within a region; time never goes back.
* **inertial delay**: the output ends at the value of the input, and takes no value
  the input has not held for the delay.
* **qrouter**: no cell belongs to two nets, the obstruction array agrees with the
  routes, no net is forgotten, and the second stage ends.

## Modules

| Module | Models |
|---|---|
| `DumpChannel` | what the work queue promises: a FIFO to which the producer adds in batches and from which the worker takes one command at a time |
| `WorkQueue` | `vcd_priv2.cc` and the loop of `lxt2_thread` |
| `WorkQueueProofs` | the theorems about `WorkQueue` |
| `Dumper` | the tasks and callbacks of `sys_lxt2.c` and `sys_vcd.c` |
| `DumperProofs` | the theorems about `Dumper` |
| `VThread` | the threads of `vthread.cc`, the active events of `schedule.cc` and the waiting lists of `event.cc` |
| `VThreadMC` | a design for `VThread`: one module with a block, a task and a function with a block each |
| `VThreadInvariant` | the type theorem of `VThread`, its inductive invariant, and the lemmas about its operators and most opcodes |
| `VThreadProofs` | forks and disables, and the theorems about `VThread` |
| `EventQueue` | what the scheduler promises: the stratified event queue |
| `Schedule` | the scheduler `schedule.cc`: the list of time steps and the simulation loop |
| `ScheduleProofs` | the theorems about `Schedule` |
| `InertialDelay` | `vvp_fun_delay` of `delay.cc` |
| `InertialDelayProofs` | the theorems about `InertialDelay` |
| `RipUp` | both stages of qrouter, over a grid on which a search finds any way that is not barred |
| `RipUpMC` | three nets and their ways for `RipUp` |
| `RipUpProofs` | the theorems about `RipUp` |
| `Lists` | lemmas on numbers and on lists without repetition that several proofs use |

### The work queue

State: `queue`, `next`, `fill` are `work_queue`, `work_queue_next`,
`work_queue_fill`; `batch` holds `current_batch_base`, `_cnt` and `_alloc`; `heap` is the
set of cells whose string pointer is live; `mutex` and `sleeping` are the mutex and
the threads inside `pthread_cond_wait`; `ppc` and `wpc` say where the two threads are.

A stretch of code that holds the mutex throughout is one action. Where the code
touches shared state without it, the action is split: the producer fills its cell
(`WriteItem`) in a step of its own, `vcd_work_sync` tests the fill count without the
lock (`SyncTest`), the worker reads the head of the queue without it (`Peek`), and
the decrement of the count in `vcd_work_thread_pop` is visible before the rest of
that function is done (`Pop`, `PopRest`). `SpuriousWakeup` wakes any thread from its
condition at any time, as POSIX allows.

The fill count and the cells are `volatile` but not atomic, and no barrier orders
them against each other outside the lock. The model takes the stores of one thread
to become visible in program order. That is what the x86 machines this code
runs on give; on a weaker memory model the unlocked `SyncTest` would need a new look.
The unlocked read in `vcd_work_thread_peek` of the cell at `next` is safe in any
case: the worker has seen the fill count under the lock or the cell was published
before.

### The dumpers

The two programs are the same but for the writer under them, so one module models
both and `writer` says which is loaded. The variables have the names of the code. The
file is what its reader sees: `file.shown` is each variable's value after what
was written so far, `file.mark` the last time mark, and `file.blackout` the flag by
which the LXT2 library drops values during a `$dumpoff` (the VCD writer has none). The LXT2 commands pass
through the queue of `WorkQueue`, which hands them over in order and once each; that
is why the file may be written at once here.

`Change` is a variable that changes and the callback `variable_cb_1` that comes with
it; `DumpvarsCb` and `VariableCb` are the callbacks of the read-only region, run in the
order in which they were registered. The size of the file is abstracted: with a limit set the
file may be full at any change. Final blocks and the debugger's `finish`, which leaves the loop in the
middle of a time step, are included.

Left out: `$dumpfile`, `$dumpflush`, scopes, names, and the notation of values.

### The threads

`thread` is an array of thread structures indexed by address, with the field names
of the code shortened (`taskFunc` is `task_func_children`). A deleted thread's
address may be taken by any later one, as `new` may. `pc` is reduced to the opcodes
left of the current statement: `join`, `detach`, or `zombie` for `codespace_null()`.
`active` is the queue of active events, each a list of threads linked by
`wait_next`; `later` holds the events of later time steps; `waiters` the list of each
event. `stack` holds the activations of `vthread_run`, because `%fork` of a function
calls it from inside a running thread.

The opcodes are operators on a record `r` of the threads, the queue and the failed
assertions, which an action puts back with `Continue` (the opcode returned true) or
`Pause` (it returned false). `Reap`, `DoJoin`, `DoDisable`, `Joinable`, `Schedule`
are the functions of the same names. The recursion of `do_disable` is given in closed form: no
descendant of the target finds its parent joining, because `do_disable` clears that flag
before it descends; so all of them are stopped and reaped, none wakes anything, and
only the target itself looks at its parent.

A failed assertion puts the name of the function into `failed` and nothing happens any more.

What a process does next is the Verilog program's choice: `Statement(kind)` allows
any kind in `Statements` while the bound `MaxStmts` is not reached, and `%end` always.
Only sequences that the code generator can emit occur: a `fork` is n `%fork`s followed by
its `%join`s and `%join/detach`; without a name and with more than one branch its
branches run in the scope around it (`vvp_process.c:1425`); a task call or a named block is one
`%fork` and one `%join`; a function has no timing control. Delays other than `#0` may be anything, so
`NextTime` lets any set of the pending events be due next, in the order they were scheduled.

Left out, and why: opcodes on data (they change no thread); automatic contexts;
functions that call functions, and functions that disable a scope around their call
(undefined by the Verilog standard; in this code it frees the caller in the middle of its `%fork`).

### The scheduler

`sched_list` is the list of `event_time_s`, each a relative delay and one list of
events per region; the circular event lists are sequences. `Link` and `WithStep`
are the search and insertion in `schedule_event_`, `ListFor` its `switch` (with the
start events on the wrong list, as in the code), `Pushed` is `schedule_event_push_`. `initList` and
`finalList` are the two lists beside it. `phase` says where `schedule_simulate` is,
`running` which event (or callback of the simulator) is being run.

An event is a number; what it does while it runs is chosen freely among the calls
that end in `schedule_event_` or one of the two lists (`Ask`, `Push`, `AskInit`,
`AskFinal`), `schedule_finish` and `schedule_stop`. The interrupt handler sets the stop flag
at any moment at which the signal is captured. `asked` and `done` are the model's record of what
was asked for and what ran; no action looks at `done`, and `asked` only says which event runs.

`MayAsk` says what callers may do, beyond the code: read-only events ask for read-only
events or for a later time (the comment on `run_rosync` calls anything else illegal, and the code prints an
error), deleting a thread asks for nothing, final events ask for nothing. Three uses
that go wrong are allowed only by `Uses` (see the findings). Single stepping is left out.

`EventQueue` knows absolute times and no lists of steps. `pending` in `Schedule` maps one to the
other; taking the next list of the step over into the active list and running its first event
is one step in both, since nothing can come between them.

`VThread` has its own small scheduler (active events and "later"), which is `Schedule`
restricted to active events with the times forgotten; `Dumper` has the order of its regions, and
`InertialDelay` the count of calls that are scheduled for each time.

### The inertial delay

`list` is `list_`, the oldest transition first (`list_` points to the newest, its
`next` to the oldest); `cur` is the output, `delay` the object `vvp_delay_t` with its
cached minimum, `wakeups[t]` how often `schedule_generic` has scheduled `run_run` for time t. Those
calls are all alike, so counting them is enough; nothing takes them back when a
transition is deleted. `Recv` is `recv_vec4` (`vec8` is the same code) or `recv_real` on port 0, with
`Skipped` and `Cleaned` for `clean_pulse_events_`; `RecvDelay` is a delay that
comes in by ports 1 to 3, which only a variable delay has. `Advance` lets time go on, one unit
at a time, when no call is left for the present one. `held` is the history of the input that the properties
speak of: each value with the time since when it is there and the delay it needs, taken from the parts of the delay (`Needed`) and not from the
minimum that the code keeps beside them.

A vector has one bit: with more, the code takes the largest delay of the bits that change and says
itself that this is wrong (`delay.cc:243`). `Glitches` says whether an input may
change again while a transition is due and `run_run` has not had its turn; where even a single change
goes wrong then (reals, and the first transition of all), none comes without `Glitches`.
See the findings. Left out: module paths (`vvp_fun_modpath`).

### The router

`Obs` is the obstruction array reduced to the net a grid position belongs to, `routes` the
list of routes of each net, `FailedNets`, `Abandoned`, `noripup` the lists of the
same names, `pending` the nets with `NET_PENDING`. `pc`, `CurNet`, `targets`, `result` say where the
router is: between nets (`idle`, `first`, `second`), in `doroute` (`setup`, `segs`, `returned`) or
in `ripup_colliding` (`ripup`).

The search is abstracted. A net has a set of `Ways` to reach each of its nodes, a way is
a set of cells, and a search takes any way that `MayEnter` does not bar, or finds none: masks, costs and the
number of passes may end it at any time. Cells are the grid positions that are no taps: a tap
belongs to its net in `Obs` from the start, no other net enters it and no rip-up clears it.

In the first stage each way is entered in `Obs` when it is found (`RouteSegs`), in the second only when what it
runs over has been ripped up (`WriteBack`). `RipUpStops` is `ripup_net` when it meets a cell of another net: it returns and
leaves what it has cleared. `CurNet` is the net in hand until `doroute`, the rip-up and the write-back are done.
The user's commands are `stage1` and `stage2` of all nets or of one (`Route1`, `Route2`), `remove` and `write_def`,
in any order and any number of times up to `MaxCommands`; qrouter without its Tcl console is the sequence stage1, stage2, write. `write_def` prints and frees the list of failed nets and
returns to the console (`standard_route` in `qrouter.tcl.in` leaves failing nets that way), so what follows it works with an empty list.

Two records are kept for the properties. `spoiled`: the nets that the second stage left with routes over other nets that were never entered.
`asked`: the nets that were taken in hand to be routed or were ripped up, without those that were removed, or named as failed by `write_def`, since.

Left out: power and ground nets, stacked vias, taps off the grid, the spacing marks next to a route (`needblock`), routes read from the DEF
file, taps of a net that the second stage finds under a route of another one (`maze.c:384`), and the command `failing`, which frees the failed list while it walks it
(`tclqrouter.c:1014`). The order in which the first stage takes the nets is open.

## Runs

| Run | Question | Bounds |
|---|---|---|
| `work_queue` | safety of the queue, that it implements `DumpChannel`, that calls return and commands are carried out | 4 cells, batches of 2 to 3, 6 commands, 2 times |
| `dumper` | the file agrees with the variables | 2 variables, 3 times, both writers |
| `dumper_vcd_off` | *finding*: a value in the dead zone of a VCD file | the same |
| `vthread_join` | fork, join, tasks, functions, blocks, disable | 4 threads alive, 7 statements |
| `vthread_detach` | join_any, join_none, wait fork, disable fork | 4 threads alive, 5 statements |
| `vthread_task_disable` | *finding*: a disabled task blocks its caller later | 5 statements |
| `schedule` | times, losses, `$finish` and final events | 3 events, delays to 2 |
| `schedule_queue` | `Schedule` implements `EventQueue`; events run, the simulation ends | 3 events, delays to 1 |
| `delay` | the output settles at the input and swallows pulses | 5 values on any port, delays 0 to 2, 5 times |
| `delay_glitch` | *finding*: an input that changes away and back is lost | 4 values, delays 0 to 2 |
| `ripup` | grid and routes agree, no net is forgotten before it is written as failed, the second stage ends | 3 nets, 3 cells, 3 commands, `MinFailed` 1, `Tries` 1 |
| `ripup_abandoned` | *finding*: a net given up keeps routes over others | 3 nets, 3 cells, 3 commands |

Why the bounds are enough. With 4 cells and batches of up to 3 the queue wraps
around inside a batch, is full while a batch is open, and reaches each of the counts
at which the code signals a condition; 6 commands go round the buffer more than
once. Two variables are the fewest of which one can be on the dumper's list while the other
is not, three times give a step before, between and after two tasks. With 4 threads a process has a child with a
child of its own (a block in a task, a block in a
function) while another process runs and disables; addresses are reused within 7
statements. Three events with delays to 2 are the fewest with which a step is inserted between
two others, and an event runs behind another that was asked for later. A delay's list never
has more than two transitions, so with five values a transition is deleted, one due is followed by
another, and a delay changes in between; delays of 0, 1 and 2 give none, equal ones and a longer one that is overtaken. In `RipUpMC` net c crosses both other nets and has
two nodes, so it can be routed in part, rip up one net or two, and be ripped up by them in turn. `MinFailed`
and `Tries` (20 and 8 in the code) are small so that the limit of tries is reached; with `Tries = 1` it may be what ends the second stage. That the
stage ends without it too, by the lists of nets not to rip up again and `NET_PENDING`, was tried with `keepTrying = TRUE` and `MaxCommands = 2`, in no run of the project.

The passing runs use the programs this code is right about. In the thread runs: no disable of a
task, no thread that joins while it has detached children
(`JoinsBesideDetached = FALSE`), no disable of detached threads other than by
`disable fork`, no unnamed fork in a task. In the scheduler runs: `Uses = {}`. In `delay`: `Glitches = FALSE`. In `ripup`, the properties except the
`spoiled` nets, and what is said of a failed net ends when `write_def` has named it. The finding runs lift some of these, one at a time.

### The properties

* `WorkQueue`: `NoOverlap` (a reserved batch never overlaps the cells the worker
  still needs), `StableItem`, `StringsOwned`, `NoLostWakeup`, `SyncDrains`, `ImplementsChannel`, and the
  liveness `CallsReturn` and `PublishedCarriedOut` (the terminate command included).
* `Dumper`: `FileCurrent`, `TimesRight`, `CallbackMatchesList` (the callback is registered exactly
  while there are changes to write; with an empty list it would follow a null pointer), `LibraryDark`.
* `VThread`: `Consistent` puts together the assertions of the code, the agreement of parents
  with children and of lists with flags (`TreeAgrees`, `NoneForgotten`), and who wakes whom
  (`JoinsMatchChildren`, `WaitersAreWoken`); `vthread_join` checks the parts by name, and `JoinersAreWoken` with them.
  `JoinWaits`, `JoinsMatchChildren` and `DisableStops` say what a join and a disable may not do.
* `Schedule`: `StepsApart`, `NothingLost` (each event that was asked for and has not run is on one list, in the step of its time; that it is the list of its region is part of `ImplementsQueue`),
  `FinalsRun`, `FinishStopsTime`, `ImplementsQueue`, `EventsRun`, `Ends`.
* `InertialDelay`: `Settles` (the newest transition, or the output, is the input, and each transition
  has a call of `run_run` to come however many calls of deleted ones there are), `Inertial`.
* `RipUp`: `RoutesHaveTheirCells` and `CellsHaveTheirRoutes` (the two representations agree),
  `NoneForgotten` (what is not routed is on a list of failed nets, until `write_def` has named it), `NoneMissed` (every net that is run over is ripped up), `SecondStageEnds`.

### Findings

Each is shown by a run of its own:

1. `vthread_task_disable`: `do_disable` leaves the address of a disabled task in its caller's
   `task_func_children` (`vthread.cc:2208`); the caller then joins nothing that is not a task, unless a new thread
   happens to get that address.
2. `dumper_vcd_off`: a variable that changed earlier in the time step of a `$dumpoff` is written
   with its value behind the unknown values, and the VCD file shows it through the dead zone (`sys_vcd.c:178`).
3. `ripup_abandoned`: a net of several nodes that the second stage gives up keeps the routes it has by then; they
   may run over other nets, are entered nowhere and are written to the DEF file (`qrouter.c:1107`).
4. `delay_glitch`: `clean_pulse_events_` compares a new value with the oldest transition where its comment
   speaks of the most recent one (`delay.cc:191`). If a transition is due and the input leaves its value and
   returns to it in that time step, the output ends at the value in between.

More of the same kind, which a change of the constants shows, or of the definition that is named:

* `JoinsBesideDetached = TRUE` with `disable` among the `Statements` and a `Disablable` block:
  disabling a detached thread wakes its parent out of a `%join` of another child
  (`JoinsMatchChildren`), and its parent's `wait fork` never ends (`WaitersAreWoken`, `vthread.cc:2210`). Without `disable`: a detached
  thread that ends while its parent is in a `%join` trips the assertion in `%end` (`AssertsHold`).
* `join_none` in a `task`: an unnamed fork there trips the assertion in `%join/detach` (`vthread.cc:3298`), because its
  branches count as the task's.
* `Uses = {"startNow"}`: a `cbAtStartOfSimTime` callback for the current time is accepted and
  deleted unrun (`NothingLost`). `Uses = {"sharedStart"}`: a second one for one time is appended to the list of active
  events, through a null pointer if that is empty (`schedule.cc:657`, `NeverCrashes`). `Uses = {"startOfSim"}`: a functor woken by a
  `cbStartOfSimulation` callback lands on the initialization list, which is not read any more (`schedule.cc:917`, `EventsRun`).
* `NoneForgotten` for the nets that `write_def` has named as well (`asked` as it was in `WriteDef`) fails at once: `write_def` frees the list
  (`qrouter.c:650`), and a `stage2` after it has nothing to do, `stage2 route` goes through a null pointer, and `failing`, which is to "list the nets
  that have failed routing" (`tclqrouter.c:1004`), lists none.
* `Kinds = {"real"}` with `Glitches = TRUE`: an input that returns to the present output while a transition
  is due is dropped by the test after the cleaning, and the transition is made (`delay.cc:445`, `Settles`). With `"vec4"`: an x
  that comes just before the first transition of all is reckoned from the initial x, without its delay (`delay.cc:275`, `Inertial`).

Seen while reading, not shown by a run:

* `close_dumpfile` terminates the LXT2 dumper thread once at the end of the simulation and once more at exit: a second
  `pthread_join` of the same thread (`sys_lxt2.c:475`). The model ends with the first.
* `route_net_ripup` rips up what a net collides with if the net could *not* be routed (`qrouter.c:1033`, a test of `result` the wrong way round),
  and goes through a null pointer for a net that is not on the failed list (`qrouter.c:1002`). The model has both.
* `set_routes_to_net` returns an uninitialized variable for a net without routes (`maze.c:622`); `SetupFails` allows for it.
* `vcd_priv2.cc:149` says the queue stays locked until a batch is complete; it does not, and is right all
  the same (`work_queue`). `maze.c:1183` gives return values that `commit_proute` does not have.
* In the dumpers, the header written in the last time step with the dump off leaves no time mark for a
  `$dumpon` in a final block (`TimesRight` excepts it); changes in final blocks and after the debugger's `finish` are not
  written; `$dumpon` and `$dumpall` write even when the file is full.

## Fairness

`work_queue` uses `FairSpec`: weak fairness of the producer's steps (except
starting a new call, which is up to the simulation) and of the worker's steps. Both
are threads the operating system schedules. Mutex acquisition needs no strong
fairness: neither thread holds the mutex across a wait, so a request stays enabled
until it is served. Spurious wakeups are not fair.
`schedule_queue` assumes that an event or callback returns (`Return`) and that the loop of
`schedule_simulate` goes on (`Scheduler`): one thread that the operating system runs. Nothing makes the
design ask, finish or stop. Its properties are stated for simulations that are not stopped
for ever (`<>[]~stopped`): the loop tests the stop flag before each event, so a user who
interrupts each time it continues keeps it from running any.
`ripup` assumes weak fairness of `Router`: a process that computes and waits for nothing. The user may
stop giving commands at any time.
The thread runs have no liveness properties: `JoinersAreWoken`, `WaitersAreWoken` and
`NoneForgotten` say in every state who will wake whom, which is stronger than
that it happens in the end. The same holds for `Settles` of the delay.

## Proofs

`WorkQueueProofs` proves, for every queue size, batch limits and number of calls
that satisfy the assumptions in `WorkQueue` (`BatchMin <= BatchMax`,
`BatchMin < QSize`, all positive):

* `TypeCorrect`, `BatchesApart` (`NoOverlap`), `StringsAreOwned`, `WakeupsNotLost`
  as invariants;
* `ItemIsStable` (the cell the worker reads is not written) and `SyncIsDrained` as
  action properties;
* `QueueImplementsChannel`: the queue refines `DumpChannel`, the content of the
  channel being the published cells from `next` on.

All rest on one inductive invariant, `IInv`: `TypeOK`, `ControlInv`, "published and reserved
cells together fit into the buffer", `NoOverlap` and `ContentInv`. `NoOverlap` alone is not
inductive: that the next batch is reserved behind the published cells depends on where the
producer is (`ControlInv` relates `ppc`, `batch`, the mutex and the count the reservation was
computed from), and that a pop frees the right string depends on what the cells hold
(`ContentInv` says which cells are live and what the worker has seen). The proof has one
step per action. The refinement proof maps each step to a batch, a take or a stutter.

`RipUpProofs` proves, for any nets, cells, ways, targets and limits that satisfy `RipUpAssumption`:

* `TypeCorrect`, `RoutesKeepTheirCells`, `NoCellLeftBehind`, `NoneIsMissed` and `NoNetForgotten`, the invariants of the run `ripup`;
* `NoShortsUnlessSpoiled`: two nets share a cell only if the second stage left one of them with routes that were never entered,
  which makes precise what finding 3 breaks.

The inductive invariant is `TypeOK`, `Control` (what `CurNet`, `targets` and `colliding` are at each `pc`), `Grid` and `Listed`. `Grid` says that
routes and cells agree for every net but the one in hand and the spoiled ones, and that the nets the one in hand runs over are exactly those
still to be ripped up; without the latter, `WriteBack` could not be shown to overwrite no cell of a routed net. `Listed`
says that a net that was to be routed and has unreached nodes is on a list, unless it is the net in hand and its nodes are
still being looked for; it needs that rip-up appends each net it empties to `FailedNets`. The lemmas are about membership in the lists (`ListMembers`,
`BothLists`), about each way `Obs` changes (`LaidAsideGrid`, `RipUpGrid`, `WriteBackGrid`, ...), and about the lists that grow.

`InertialDelayProofs` proves, for any delays, values of the two kinds and number of inputs that satisfy
`DelayAssumption`, and with `Glitches = FALSE` (finding 4 shows why that is needed):

* `TypeCorrect` and `OutputSettles`, the invariants of the run `delay`;
* `PulsesDoNotPass` (`Inertial`), its action property.

The inductive invariant adds two parts to `TypeOK` and `Settles`. `MinOf` says that the minimum which
`vvp_delay_t` keeps is the least of its parts; the history takes the delay an input needs from the parts, so without it
a wrong minimum could pass a pulse (`PartSet` shows that `set_rise`, `set_fall` and `set_decay` keep it). `Justified` says what
each transition on the list rests on: the last one on the present input, which has been there long enough when it
is due, and one before it, which is always due now, on an input held long enough already. `Inertial` follows when a transition is
made. `Arrival` gathers what is known when a value arrives: an empty list, one transition to come, or one that is due.

`DumperProofs` proves, for any variables, both writers and any number of time steps:

* `TypeCorrect`, `CallbackRight` (`CallbackMatchesList`), `FileIsCurrent` and `LibraryStaysDark`, the
  invariants of the run `dumper`, and `TimesAreRight`, its action property.

`FileCurrent` speaks only of the end of a time step; the inductive invariant has to say what holds in its middle. `ShownInv`
does: the file shows every variable but those on the list of changes, and an LXT2 file that is switched off drops values or has
nothing left to write (this is where finding 2, of the VCD writer, does not arise). `HeaderInv` says what can be on the list before the
header is written, `MarkInv` when the dumper's idea of the current time may be ahead of the marks in the file.

`ScheduleProofs` proves, for any number of events and any delays:

* `TypeCorrect`, `StepsStayApart` (`StepsApart`) and `FinalsDoRun` (`FinalsRun`), invariants, and `TimeStandsStill` (`FinishStopsTime`), an
  action property, whatever `Uses` allows;
* `NoEventIsLost` (`NothingLost`) and `QueueImplemented` (`ImplementsQueue`: every step maps to a step of
  `EventQueue` or a stutter) if `Uses` has no `"startNow"`, that is, if no cbAtStartOfSimTime is asked for at the time that already runs. The
  findings show why: such an event is released unrun. `"sharedStart"` and `"startOfSim"` need no
  exception: what goes wrong with them is the null pointer (`NeverCrashes`) and the initialization list that is not read any more, not the time steps.

The list of time steps holds relative delays, and `After` adds them up by a recursive function. What it computes follows
from its being the only function with `after[i] = after[i - 1] + delay[i]` (`TimesExist`, `TimesUnique`; `LeastNat` in `Lists`
takes the place of an induction over data), so each operation on the list is proved by giving the function of the new list (`TimesAre`). `EventsAt(list, d)` are
then the events that the list holds for the distance `d` from now, and the lemmas about insertion (`WithStepTimes`), asking (`ScheduledEvents`),
time that goes on (`TimeGoesOn`) and release (`StepReleased`) say what happens to it; later proofs use nothing else of the list.

There are two inductive invariants. `SInv` is about the list: `Apart` (only the first step may have no delay), steps that are not empty, a bound on
the times by the number of events asked for so far (time itself would not do: it has to be known that an event asked for *now* is still within reach), and `PhaseInv`, which says
where in the current step which regions are used up. `PlacesInv` is about the events: for each distance the lists hold just the events that are due then, each once. It
needs that no pending event is due before now, which `AdvanceTime` keeps only because each has a step (`DueStands`) and the first step is the nearest.

`VThreadInvariant` and `VThreadProofs` prove, for any number of threads, initial processes, scopes and events:

* `ThreadsTyped` (`TypeOK`), for every program;
* for the programs that are `Regular`: `NoAssertionFails` (`AssertsHold`), `TreesAgree` (`TreeAgrees`), `ThreadsKept` (`NoneForgotten`),
  `JoinersHaveChildren` (`JoinersAreWoken`), `JoinsMatch` (`JoinsMatchChildren`) and `ThreadsConsistent` (`Consistent`), the invariants of the
  two passing runs, and `DisablesStop` (`DisableStops`) and `JoinsWaited` (`JoinWaits`), their action properties.

`Regular` is about the program that is simulated, not about the simulator, and is what both passing runs use: no thread joins beside detached children,
no task is disabled, and where children are detached there are no tasks and no `disable`. Each of these is needed: without it one of the
properties fails, as finding 1 and the first two points under it say. `disable fork` and `wait fork` are not restricted.

The inductive invariant `IInv` is `failed = {}` and these parts. `Fields`: what a thread is like that is deleted or has ended. `Tree`: parents
and children agree, and only a thread that goes on has children. `Rooted`: no thread is its own descendant; without it `Offspring` of a thread could hold
the thread itself, and `do_disable` would reap it twice. `Families`: what a function starts belongs to the function, so that its `%disable` spares its
caller. `Kids`: the children are those that the opcodes left in the statement join or detach, and a thread asleep in a `%join` has none that has ended.
`Placed`, `Remain`, `Queues` and `EventLists`: a thread is in one place, which its flags name, and the lists hold no thread twice.
`Calls`: a function runs alone on top of its caller, which waits for it alone. Most of the parts are also stated with the threads `D` that are just being reaped, `E` that
end, and `Z` that need not be on a list for now, since the operators of the model compose several of the code's functions.

The proof goes by what a step does to the threads. `Cut` says that the threads `D` go, those in `E` end and stay for their parents, and the rest lose
sight of `D`; `CutTree`, `CutKids`, ... show once that each part of the invariant survives that, and reap, end, zombie, join and disable are shown to be such cuts. `Forks` and `Moved` do the
same for the threads that are born or detached. The two loops, of `of_DISABLE` and `of_DISABLE_FORK`, need invariants of their own (`Disabling`, `ForkDisabling`), and
that they come to an end before their bound: each turn takes the least thread out of the scope (`HitStep`). `DisableStops` then needs that a thread is stopped
if and only if it was under the scope to begin with, whatever has been reaped by its turn (`Spared`, `StillHit`); `JoinWaits` that whoever is woken
up from a `%join` has lost a child in the same step (`StepWaits`).
The lemmas about the operators (`ReapIs`, `ScheduleIs`, `WokenIs`, `ForkedIs`, `EndedIs`, ...) say field by field what they return, so that
the rest of the proof need not look into the records again.

Only model-checked: the liveness of queue, scheduler and router (temporal
reasoning with ENABLED is out of the prover's reach). `NeverCrashes` and the other formulas under "More of the same kind" are
in no passing run.

## Not modelled

The qflow scripts run one tool after the other and stop at the first failure; yosys and the
Verilog compiler transform a netlist; graywolf anneals with floating-point costs;
LEF and DEF readers and writers convert files. None of these has a state
that survives between steps in a way a bounded model could say something about.
magic is an interactive editor of half a million lines; its background design rule
checker (`drc/DRCcontin.c`) and its undo log (`utils/undo.c`) would be worth models of their own.
In the parts that are modelled, the sections above name what is left out.

## Plan

1. `VThread`: functions in continuous assignments (`of_EXEC_UFUNC`) with the delayed deletion of threads; `join_none`
   beside tasks, for which `Regular` would have to tell the fork's scope.
2. `Schedule`: the lists of callbacks in `vpi_callback.cc` (next time, value change) and the composition with
   `VThread` through the active queue. `InertialDelay`: module paths.
3. magic: the interruptible design rule checker and the undo log.
