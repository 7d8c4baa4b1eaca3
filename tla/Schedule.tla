-------------------------------- MODULE Schedule -------------------------------
(* The event scheduler of the Verilog simulation engine: iverilog/vvp/          *)
(* schedule.cc, with the callbacks of vvp/vpi_callback.cc that it calls.        *)
(*                                                                              *)
(* sched_list is a list of time steps.  Each holds its delay after the step     *)
(* before it (the first: after now, zero while the step is being run) and one   *)
(* list of events for each region.  Events run one at a time; what an event or  *)
(* a callback does to the scheduler while it runs - ask for more events, finish *)
(* or stop the simulation - is up to the design, so it is chosen freely.        *)
EXTENDS Integers, Sequences, FiniteSets, SequencesExt

CONSTANTS
    MaxEvents,      \* bound: events asked for
    MaxDelay,       \* bound: delays are 0..MaxDelay
    Uses            \* uses of the scheduler that go wrong, allowed here

(* sharedStart: two cbAtStartOfSimTime events wait for one time; startNow: one  *)
(* is asked for at the time that already runs; startOfSim: a cbStartOfSimulation*)
(* callback changes the input of a functor.                                     *)
ASSUME ScheduleAssumption ==
    /\ MaxEvents \in Nat /\ MaxDelay \in Nat
    /\ Uses \subseteq {"sharedStart", "startNow", "startOfSim"}

Event == 1..MaxEvents
Region == {"start", "active", "nbassign", "rwsync", "rosync", "del_thr"}
Nothing == -1       \* no event is running
Callback == 0       \* a callback of the simulator itself is running

VARIABLES
    sched_list,     \* the time steps
    schedule_time,  \* the simulation time
    initList,       \* schedule_init_list
    finalList,      \* schedule_final_list
    runnable,       \* schedule_runnable
    run_finals,     \* run_finals
    stopped,        \* schedule_stopped_flag
    phase,          \* where schedule_simulate is
    running,        \* the event that is running
    asked,          \* for each event asked for: time and region
    done,           \* events that ran
    crashed         \* the program went through a null pointer

lists == <<sched_list, initList, finalList>>
flags == <<runnable, run_finals, stopped>>
vars == <<lists, schedule_time, flags, phase, running, asked, done, crashed>>

--------------------------------------------------------------------------------
(* The list of time steps.                                                      *)

NewStep(delay) == [delay |-> delay, events |-> [r \in Region |-> <<>>]]

(* How long after now each step is *)
After(list) ==
    LET at[i \in 0..Len(list)] == IF i = 0 THEN 0 ELSE at[i - 1] + list[i].delay
    IN  at

LinkDropsRest(list, step, n) == SubSeq(list, 1, n) \o <<step>>

(* A new step goes behind the first n; the next one's delay gets shorter by it. *)
Link(list, step, n) ==
    SubSeq(list, 1, n) \o <<step>> \o
        [i \in 1..(Len(list) - n) |->
            IF i = 1 THEN [list[n + 1] EXCEPT !.delay = @ - step.delay] ELSE list[n + i]]

WithStepAlways(list, delay) ==
    LET at == After(list)
        n == Cardinality({i \in 1..Len(list) : at[i] < delay})
    IN  Link(list, NewStep(delay - at[n]), n)

(* The step of the given delay from now, made if there is none *)
WithStep(list, delay) ==
    LET at == After(list)
        n == Cardinality({i \in 1..Len(list) : at[i] < delay})
    IN  IF n < Len(list) /\ at[n + 1] = delay THEN list ELSE Link(list, NewStep(delay - at[n]), n)

Index(list, delay) == CHOOSE i \in 1..Len(list) : After(list)[i] = delay

(* The list of a step that an event is put on.  The code for start events looks at the list of *)
(* start events and then appends to the list of active ones.                    *)
ListFor(step, region) ==
    IF region = "start" /\ step.events["start"] # <<>> THEN "active" ELSE region

(* schedule_event_ *)
Scheduled(list, delay, region, e) ==
    LET steps == WithStep(list, delay)
        i == Index(steps, delay)
    IN  [steps EXCEPT ![i].events[ListFor(steps[i], region)] = Append(@, e)]

(* appending to a circular list that is empty *)
Crashes(list, delay, region) ==
    LET steps == WithStep(list, delay)
        i == Index(steps, delay)
    IN  ListFor(steps[i], region) # region /\ steps[i].events["active"] = <<>>

NoStep == sched_list = <<>> \/ Head(sched_list).delay > 0

(* schedule_event_push_: in front of the active events of the current step *)
Pushed(list, e) ==
    IF NoStep THEN Scheduled(list, 0, "active", e)
    ELSE [list EXCEPT ![1].events["active"] = <<e>> \o @]

--------------------------------------------------------------------------------
(* What running code may do.                                                    *)

Busy == running # Nothing /\ ~crashed

NewEvent == Len(asked) + 1

NoteAsked(delay, region) ==
    /\ Len(asked) < MaxEvents
    /\ asked' = Append(asked, [time |-> schedule_time + delay, region |-> region])

(* In the read-only region only read-only events may be asked for, or events of *)
(* a later time; the deletion of threads asks for nothing.  Threads are deleted *)
(* late only when they run.  cbAtStartOfSimTime is for a later time.            *)
MayAsk(delay, region) ==
    /\ Busy /\ phase \in {"compile", "startsim", "init", "start", "loop", "rosync"}
    /\ running # Callback /\ phase = "rosync" => asked[running].region # "del_thr"
    /\ phase = "rosync" => region = "rosync" \/ delay > 0
    /\ region = "del_thr" => delay = 0 /\ phase = "loop"
    /\ region = "start" /\ delay = 0 => phase = "loop" /\ "startNow" \in Uses
    /\ region = "start" /\ "sharedStart" \notin Uses =>
          \A e \in 1..Len(asked) : e \notin done /\ asked[e].region = "start" =>
              asked[e].time # schedule_time + delay

Ask(delay, region) ==
    /\ MayAsk(delay, region)
    /\ NoteAsked(delay, region)
    /\ sched_list' = Scheduled(sched_list, delay, region, NewEvent)
    /\ crashed' = Crashes(sched_list, delay, region)
    /\ UNCHANGED <<initList, finalList, schedule_time, flags, phase, running, done>>

(* schedule_vthread with the push flag *)
Push ==
    /\ MayAsk(0, "active")
    /\ NoteAsked(0, "active")
    /\ sched_list' = Pushed(sched_list, NewEvent)
    /\ UNCHANGED <<initList, finalList, schedule_time, flags, phase, running, done, crashed>>

(* schedule_init_event, and schedule_functor as long as sim_started is not set  *)
AskInit ==
    /\ Busy
    /\ phase \in {"compile", "init"} \/ (phase = "startsim" /\ "startOfSim" \in Uses)
    /\ NoteAsked(0, "init")
    /\ initList' = Append(initList, NewEvent)
    /\ UNCHANGED <<sched_list, finalList, schedule_time, flags, phase, running, done, crashed>>

(* schedule_final_vthread, while the design is loaded *)
AskFinal ==
    /\ Busy /\ phase = "compile"
    /\ NoteAsked(0, "final")
    /\ finalList' = Append(finalList, NewEvent)
    /\ UNCHANGED <<sched_list, initList, schedule_time, flags, phase, running, done, crashed>>

(* schedule_finish *)
Finish ==
    /\ Busy /\ runnable
    /\ runnable' = FALSE
    /\ UNCHANGED <<lists, schedule_time, run_finals, stopped, phase, running, asked, done, crashed>>

(* schedule_stop, and signals_handler once the interrupt signal is captured *)
Stop ==
    /\ Busy \/ phase \in {"loop", "start", "rosync", "ending", "final"}
    /\ ~stopped /\ ~crashed
    /\ stopped' = TRUE
    /\ UNCHANGED <<lists, schedule_time, runnable, run_finals, phase, running, asked, done, crashed>>

Return ==
    /\ Busy
    /\ running' = Nothing
    /\ phase' = CASE phase = "compile" -> "init"
                  [] phase = "startsim" -> IF runnable THEN "loop" ELSE "ending"
                  [] OTHER -> phase
    /\ run_finals' = IF phase = "startsim" THEN runnable ELSE run_finals
    /\ UNCHANGED <<lists, schedule_time, runnable, stopped, asked, done, crashed>>

--------------------------------------------------------------------------------
(* schedule_simulate.                                                           *)

Idle(at) == running = Nothing /\ phase = at /\ ~crashed

Starts(e) == running' = e /\ done' = done \cup {e}

(* the initialization events, then the callbacks at the start of simulation *)
RunInit ==
    /\ Idle("init") /\ initList # <<>>
    /\ Starts(Head(initList))
    /\ initList' = Tail(initList)
    /\ UNCHANGED <<sched_list, finalList, schedule_time, flags, phase, asked, crashed>>

StartOfSim ==
    /\ Idle("init") /\ initList = <<>>
    /\ phase' = "startsim" /\ running' = Callback
    /\ UNCHANGED <<lists, schedule_time, flags, asked, done, crashed>>

(* stop_handler, from which the user may finish *)
StopHandler ==
    /\ Idle("loop") /\ sched_list # <<>> /\ stopped
    /\ stopped' = FALSE
    /\ runnable' \in {runnable, FALSE}
    /\ phase' = IF runnable' THEN "loop" ELSE "ending"
    /\ UNCHANGED <<lists, schedule_time, run_finals, running, asked, done, crashed>>

Loop == Idle("loop") /\ sched_list # <<>> /\ ~stopped

AdvanceAnyway ==
    /\ Loop /\ Head(sched_list).delay > 0
    /\ schedule_time' = schedule_time + Head(sched_list).delay
    /\ sched_list' = [sched_list EXCEPT ![1].delay = 0]
    /\ phase' = "start" /\ running' = Callback
    /\ UNCHANGED <<initList, finalList, flags, asked, done, crashed>>

AdvanceAgain ==
    /\ Loop /\ Head(sched_list).delay > 0 /\ runnable
    /\ schedule_time' = schedule_time + Head(sched_list).delay
    /\ phase' = "start" /\ running' = Callback
    /\ UNCHANGED <<lists, flags, asked, done, crashed>>

(* Time goes on; vpiNextSimTime runs its callbacks. *)
AdvanceTime ==
    /\ Loop /\ Head(sched_list).delay > 0 /\ runnable
    /\ schedule_time' = schedule_time + Head(sched_list).delay
    /\ sched_list' = [sched_list EXCEPT ![1].delay = 0]
    /\ phase' = "start" /\ running' = Callback
    /\ UNCHANGED <<initList, finalList, flags, asked, done, crashed>>

Current == Head(sched_list).events

(* The first event of a list of the current step runs. *)
TakeFrom(region) ==
    /\ Starts(Head(Current[region]))
    /\ sched_list' = [sched_list EXCEPT ![1].events[region] = Tail(@)]

(* the cbAtStartOfSimTime events *)
RunStart ==
    /\ Idle("start") /\ Current["start"] # <<>>
    /\ TakeFrom("start")
    /\ UNCHANGED <<initList, finalList, schedule_time, flags, phase, asked, crashed>>

(* The list that becomes active: the non-blocking assignments come before the   *)
(* read-write events.                                                           *)
RwsyncFirst(events) == IF events["rwsync"] # <<>> THEN "rwsync" ELSE "nbassign"
Refill(events) == IF events["nbassign"] # <<>> THEN "nbassign" ELSE "rwsync"

(* the rest of the loop, which runs the current step *)
StepGoesOn ==
    \/ Loop /\ Head(sched_list).delay = 0
    \/ Idle("start") /\ Current["start"] = <<>>

(* The first active event runs, once there is one. *)
RunActive ==
    LET from == IF Current["active"] # <<>> THEN "active" ELSE Refill(Current)
        events == [Current EXCEPT ![from] = <<>>, !["active"] = Tail(Current[from])]
    IN  /\ StepGoesOn
        /\ Current[from] # <<>>
        /\ Starts(Head(Current[from]))
        /\ sched_list' = [sched_list EXCEPT ![1].events = events]
        /\ phase' = "loop"
        /\ UNCHANGED <<initList, finalList, schedule_time, flags, asked, crashed>>

NoMoreActive ==
    \A r \in {"active", "nbassign", "rwsync"} : Current[r] = <<>>

(* run_rosync *)
EnterRosync ==
    /\ StepGoesOn /\ NoMoreActive
    /\ phase' = "rosync"
    /\ UNCHANGED <<lists, schedule_time, flags, running, asked, done, crashed>>

RunRosync ==
    /\ Idle("rosync")
    /\ \/ Current["rosync"] # <<>> /\ TakeFrom("rosync")
       \/ Current["rosync"] = <<>> /\ Current["del_thr"] # <<>> /\ TakeFrom("del_thr")
    /\ UNCHANGED <<initList, finalList, schedule_time, flags, phase, asked, crashed>>

EndStepEarly ==
    /\ Idle("rosync") /\ Current["rosync"] = <<>>
    /\ sched_list' = Tail(sched_list)
    /\ phase' = "loop"
    /\ UNCHANGED <<initList, finalList, schedule_time, flags, running, asked, done, crashed>>

EndStepKept ==
    /\ Idle("rosync") /\ Current["rosync"] = <<>> /\ Current["del_thr"] = <<>>
    /\ phase' = "loop"
    /\ UNCHANGED <<lists, schedule_time, flags, running, asked, done, crashed>>

(* The step is released. *)
EndStep ==
    /\ Idle("rosync") /\ Current["rosync"] = <<>> /\ Current["del_thr"] = <<>>
    /\ sched_list' = Tail(sched_list)
    /\ phase' = "loop"
    /\ UNCHANGED <<initList, finalList, schedule_time, flags, running, asked, done, crashed>>

(* the ways out of the loop *)
LeaveLoop ==
    /\ \/ Idle("loop") /\ sched_list = <<>>
       \/ Loop /\ Head(sched_list).delay > 0 /\ ~runnable
    /\ phase' = "ending"
    /\ UNCHANGED <<lists, schedule_time, flags, running, asked, done, crashed>>

(* the final events *)
StartFinalsKept ==
    /\ Idle("ending")
    /\ phase' = "final"
    /\ UNCHANGED <<lists, schedule_time, flags, running, asked, done, crashed>>

StartFinals ==
    /\ Idle("ending")
    /\ runnable' = run_finals
    /\ phase' = "final"
    /\ UNCHANGED <<lists, schedule_time, run_finals, stopped, running, asked, done, crashed>>

RunFinal ==
    /\ Idle("final") /\ runnable /\ finalList # <<>>
    /\ Starts(Head(finalList))
    /\ finalList' = Tail(finalList)
    /\ UNCHANGED <<sched_list, initList, schedule_time, flags, phase, asked, crashed>>

(* vpiPostsim and the end *)
Postsim ==
    /\ Idle("final") /\ (~runnable \/ finalList = <<>>)
    /\ phase' = "over"
    /\ UNCHANGED <<lists, schedule_time, flags, running, asked, done, crashed>>

Over == (phase = "over" \/ crashed) /\ UNCHANGED vars

--------------------------------------------------------------------------------
Init ==
    /\ sched_list = <<>> /\ initList = <<>> /\ finalList = <<>>
    /\ schedule_time = 0
    /\ runnable = TRUE /\ run_finals = FALSE /\ stopped = FALSE
    /\ phase = "compile" /\ running = Callback
    /\ asked = <<>> /\ done = {}
    /\ crashed = FALSE

Scheduler ==
    \/ RunInit \/ StartOfSim
    \/ StopHandler
    \/ AdvanceTime \/ RunStart \/ RunActive
    \/ EnterRosync \/ RunRosync \/ EndStep
    \/ LeaveLoop \/ StartFinals \/ RunFinal \/ Postsim

Next ==
    \/ \E delay \in 0..MaxDelay, region \in Region : Ask(delay, region)
    \/ Push \/ AskInit \/ AskFinal
    \/ Finish \/ Stop
    \/ Return
    \/ Scheduler
    \/ Over

Spec == Init /\ [][Next]_vars

(* The one thread of the program keeps running: what an event does comes to an  *)
(* end, and the scheduler goes on.                                              *)
FairSpec == Spec /\ WF_vars(Return) /\ WF_vars(Scheduler)

--------------------------------------------------------------------------------
(* Properties.                                                                  *)

(* Every variable has a value of its kind. *)
TypeOK ==
    /\ sched_list \in Seq([delay : 0..MaxDelay, events : [Region -> Seq(Event)]])
    /\ initList \in Seq(Event) /\ finalList \in Seq(Event)
    /\ schedule_time \in 0..(MaxEvents * MaxDelay)
    /\ {runnable, run_finals, stopped, crashed} \subseteq BOOLEAN
    /\ phase \in {"compile", "init", "startsim", "loop", "start", "rosync",
                  "ending", "final", "over"}
    /\ running \in {Nothing, Callback} \cup Event
    /\ asked \in Seq([time : 0..(MaxEvents * MaxDelay),
                       region : Region \cup {"init", "final"}])
    /\ done \in SUBSET Event

(* Two steps never stand for one time, however the delays around an inserted    *)
(* step were changed, and no step is kept that has no event: only the step that *)
(* is being run has no delay left or may be empty.                              *)
StepsApart ==
    \A i \in DOMAIN sched_list :
        i > 1 \/ (phase = "loop" /\ running = Nothing /\ Head(sched_list).delay > 0) =>
            /\ sched_list[i].delay > 0
            /\ \E r \in Region : sched_list[i].events[r] # <<>>

(* The lists of time steps that hold an event *)
Places(e) ==
    {p \in (1..Len(sched_list)) \X Region : e \in Range(sched_list[p[1]].events[p[2]])}

(* No event is lost, runs twice or moves to another time: until it has run it   *)
(* stands in just one list, and that is a list of the time it was asked for;    *)
(* when it runs, it is that time.                                               *)
NothingLost ==
    /\ running > 0 /\ asked[running].region \notin {"init", "final"} =>
          asked[running].time = schedule_time
    /\ \A e \in 1..Len(asked) :
          LET early == e \in Range(initList) \/ e \in Range(finalList)
          IN  /\ Cardinality(Places(e)) = IF e \in done \/ early THEN 0 ELSE 1
              /\ \A p \in Places(e) : schedule_time + After(sched_list)[p[1]] = asked[e].time
              /\ ~(e \in done /\ early)

(* The delay-queue lists implement the stratified event queue: the order of the *)
(* regions within a time, first in first out within a region, time going to the *)
(* next event and no further.                                                   *)
pending ==
    LET at == After(sched_list)
        when == {schedule_time + at[i] : i \in DOMAIN sched_list}
    IN  [t \in 0..(MaxEvents * MaxDelay) |->
            IF t \in when THEN sched_list[Index(sched_list, t - schedule_time)].events
            ELSE [r \in Region |-> <<>>]]

Queue == INSTANCE EventQueue WITH
    Event <- Event, Horizon <- MaxEvents * MaxDelay, time <- schedule_time, pending <- pending

ImplementsQueue == Queue!Spec

(* After $finish the events of the current time still run, but time stands      *)
(* still; the final events do not run it on.                                    *)
FinishStopsTime == [][~runnable => schedule_time' = schedule_time]_vars

(* The final events run after $finish too: if they were to run and some are left *)
(* in the end, at least one has run, which may have called $finish itself.       *)
FinalsRun ==
    phase = "over" /\ run_finals /\ finalList # <<>> =>
        \E e \in done : asked[e].region = "final"

(* The comment in schedule_event_: an event is put on the list for its kind,    *)
(* which is there to be appended to.                                            *)
NeverCrashes == ~crashed

(* Whatever is asked for before the final events runs, unless the simulation is *)
(* finished or stopped over and over again.                                     *)
EventsRun ==
    <>[]~stopped =>
        \A e \in Event :
            (e <= Len(asked) /\ asked[e].region # "final" /\ phase \notin {"final", "over"})
                ~> (e \in done \/ ~runnable)

(* A simulation with finitely many events comes to its end. *)
Ends == <>[]~stopped => <>(phase = "over")
================================================================================
