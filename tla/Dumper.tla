--------------------------------- MODULE Dumper ---------------------------------
(* The waveform dumpers that run inside the simulator: iverilog/vpi/sys_vcd.c   *)
(* and sys_lxt2.c, the same program but for the writer under it.  $dumpvars     *)
(* puts a callback on every variable.  A variable that changes is put on a list *)
(* (variable_cb_1); one callback at the read-only end of the time step writes   *)
(* the variables on the list (variable_cb_2).  $dumpoff, $dumpon, $dumpall and  *)
(* $dumplimit may come between any two of these steps.                          *)
(*                                                                              *)
(* The file is what its reader sees: the value of each variable after what was  *)
(* written so far, and the last time mark.  For LXT2 the commands go through    *)
(* the queue of WorkQueue, which hands them over in order, each once.           *)
EXTENDS Integers, Sequences, FiniteSets, SequencesExt

CONSTANTS
    Vars,       \* the variables of the design
    Writers,    \* file formats: "vcd", "lxt2"
    MaxTime     \* bound: the last simulation time

ASSUME DumperAssumption == Writers \subseteq {"vcd", "lxt2"} /\ MaxTime \in Nat

Value == {"0", "1"}
X == "x"

VARIABLES
    writer,         \* the dumper that was loaded
    value,          \* the variables of the design
    time,           \* simulation time
    phase,          \* where the scheduler is
    runnable,       \* schedule_runnable
    rosync,         \* callbacks registered for the end of this time step
    dump_file,      \* "none", "open" or "closed"
    dumpvars_status,\* 0: fresh, 1: callback installed, 2: header written
    vcd_list,       \* the variables with a callback
    vcd_dmp_list,   \* the variables that changed in this time step
    vcd_cur_time,   \* the time the dumper thinks the file is at
    dump_is_off,
    dump_limited,   \* dump_limit > 0
    dump_is_full,
    file            \* the file and the writer's state

design == <<value, time, phase, runnable>>
switches == <<dump_is_off, dump_limited, dump_is_full>>
vars == <<writer, design, rosync, dump_file, dumpvars_status, vcd_list, vcd_dmp_list,
          vcd_cur_time, switches, file>>

--------------------------------------------------------------------------------
(* The file.                                                                    *)

(* Values written while the LXT2 library is blacked out are dropped. *)
Show(f, vs) ==
    IF f.blackout THEN f
    ELSE [f EXCEPT !.shown = [v \in Vars |-> IF v \in vs THEN value[v] ELSE @[v]]]

Mark(f) == [f EXCEPT !.mark = time]

Checkpoint(f) == Show(f, vcd_list)

AllX(f) == [f EXCEPT !.shown = [v \in Vars |-> IF v \in vcd_list THEN X ELSE @[v]]]

BlackoutMissing(f) == AllX(f)

(* The library marks every variable unknown and drops what follows; in a VCD    *)
(* file there is only the checkpoint of unknown values.                         *)
Blackout(f) == [AllX(f) EXCEPT !.blackout = (writer = "lxt2")]

header_pending == dumpvars_status # 2

--------------------------------------------------------------------------------
(* Value changes.                                                               *)

ListedTwice(v) == v \in vcd_list /\ ~dump_is_full /\ ~dump_is_off /\ ~header_pending

(* variable_cb_1 has something to do *)
Notices(v) ==
    /\ v \in vcd_list /\ ~dump_is_full /\ ~dump_is_off /\ ~header_pending
    /\ v \notin ToSet(vcd_dmp_list)

Enlist(v) ==
    /\ rosync' = IF vcd_dmp_list = <<>> THEN Append(rosync, "variable_cb_2") ELSE rosync
    /\ vcd_dmp_list' = <<v>> \o vcd_dmp_list
    /\ UNCHANGED dump_is_full

(* The size of the file is abstracted: a limited file may be full at any change. *)
FileFull ==
    /\ dump_limited /\ dump_is_full' = TRUE
    /\ UNCHANGED <<rosync, vcd_dmp_list>>

Running == phase \in {"active", "final"}

Change(v, val) ==
    /\ Running /\ val # value[v]
    /\ value' = [value EXCEPT ![v] = val]
    /\ \/ Notices(v) /\ (Enlist(v) \/ FileFull)
       \/ ~Notices(v) /\ UNCHANGED <<rosync, vcd_dmp_list, dump_is_full>>
    /\ UNCHANGED <<writer, time, phase, runnable, dump_file, dumpvars_status, vcd_list,
                   vcd_cur_time, dump_is_off, dump_limited, file>>

--------------------------------------------------------------------------------
(* The system tasks.                                                            *)

Install ==
    IF dumpvars_status = 0
    THEN rosync' = Append(rosync, "dumpvars_cb") /\ dumpvars_status' = 1
    ELSE UNCHANGED <<rosync, dumpvars_status>>

(* $dumpvars for the variables vs; ignored once the header is written *)
Dumpvars(vs) ==
    /\ Running /\ dump_file' = "open"
    /\ IF header_pending THEN Install /\ vcd_list' = vcd_list \cup vs
       ELSE UNCHANGED <<rosync, dumpvars_status, vcd_list>>
    /\ UNCHANGED <<writer, design, vcd_dmp_list, vcd_cur_time, switches, file>>

(* the file cannot be opened: the simulation is told to finish *)
OpenFails ==
    /\ Running /\ dump_file = "none"
    /\ runnable' = FALSE
    /\ UNCHANGED <<writer, value, time, phase, rosync, dump_file, dumpvars_status, vcd_list,
                   vcd_dmp_list, vcd_cur_time, switches, file>>

CatchUpNever(f) == f

(* a time mark for now, if the file is behind *)
CatchUp(f) == IF time > vcd_cur_time THEN Mark(f) ELSE f

(* What $dumpoff, $dumpon and $dumpall do if the header is written; no task asks if the file is full. *)
Write(f) ==
    IF dump_file = "none" \/ header_pending THEN UNCHANGED <<vcd_cur_time, file>>
    ELSE /\ vcd_cur_time' = IF time > vcd_cur_time THEN time ELSE vcd_cur_time
         /\ file' = f

unchangedByTasks == <<writer, design, rosync, dump_file, dumpvars_status, vcd_list,
                      vcd_dmp_list, dump_limited, dump_is_full>>

Dumpoff ==
    /\ Running /\ ~dump_is_off /\ dump_is_off' = TRUE
    /\ Write(Blackout(CatchUp(file)))
    /\ UNCHANGED unchangedByTasks

DumponWritesNothing ==
    /\ Running /\ dump_is_off /\ dump_is_off' = FALSE
    /\ Write([CatchUp(file) EXCEPT !.blackout = FALSE])
    /\ UNCHANGED unchangedByTasks

Dumpon ==
    /\ Running /\ dump_is_off /\ dump_is_off' = FALSE
    /\ Write(Checkpoint([CatchUp(file) EXCEPT !.blackout = FALSE]))
    /\ UNCHANGED unchangedByTasks

Dumpall ==
    /\ Running /\ ~dump_is_off
    /\ Write(Checkpoint(CatchUp(file)))
    /\ UNCHANGED <<unchangedByTasks, dump_is_off>>

Dumplimit(limited) ==
    /\ Running /\ dump_limited' = limited
    /\ UNCHANGED <<writer, design, rosync, dump_file, dumpvars_status, vcd_list, vcd_dmp_list,
                   vcd_cur_time, dump_is_off, dump_is_full, file>>

--------------------------------------------------------------------------------
(* Callbacks at the read-only end of a time step.                               *)

Callback(name) ==
    /\ phase = "rosync" /\ rosync # <<>> /\ Head(rosync) = name
    /\ rosync' = Tail(rosync)

DumpvarsCb ==
    /\ Callback("dumpvars_cb")
    /\ dumpvars_status' = 2 /\ vcd_cur_time' = time
    /\ file' = IF dump_is_off THEN file ELSE Checkpoint(Mark(file))
    /\ UNCHANGED <<writer, design, dump_file, vcd_list, vcd_dmp_list, switches>>

VariableCbKeepsList ==
    /\ Callback("variable_cb_2")
    /\ file' = Show(IF time # vcd_cur_time THEN Mark(file) ELSE file, ToSet(vcd_dmp_list))
    /\ vcd_cur_time' = time
    /\ UNCHANGED <<writer, design, dump_file, dumpvars_status, vcd_list, vcd_dmp_list, switches>>

(* It asks neither whether the dump was switched off since, nor whether it is full. *)
VariableCb ==
    /\ Callback("variable_cb_2")
    /\ file' = Show(IF time # vcd_cur_time THEN Mark(file) ELSE file, ToSet(vcd_dmp_list))
    /\ vcd_cur_time' = time
    /\ vcd_dmp_list' = <<>>
    /\ UNCHANGED <<writer, design, dump_file, dumpvars_status, vcd_list, switches>>

(* The last time mark, then the file is closed and the variables are freed. *)
FinishCb ==
    /\ phase = "post"
    /\ phase' = "over"
    /\ IF dumpvars_status = 0 THEN UNCHANGED <<dump_file, vcd_list, file>>
       ELSE /\ file' = IF ~dump_is_off /\ ~dump_is_full /\ time # vcd_cur_time
                       THEN Mark(file) ELSE file
            /\ dump_file' = "closed" /\ vcd_list' = {}
    /\ UNCHANGED <<writer, value, time, runnable, rosync, dumpvars_status, vcd_dmp_list,
                   vcd_cur_time, switches>>

--------------------------------------------------------------------------------
(* The scheduler, as far as the dumper can tell (see Schedule).                 *)

unchangedByScheduler == <<writer, value, rosync, dump_file, dumpvars_status, vcd_list,
                          vcd_dmp_list, vcd_cur_time, switches, file>>

Finish ==
    /\ Running /\ runnable /\ runnable' = FALSE
    /\ UNCHANGED <<time, phase, unchangedByScheduler>>

EnterRosync ==
    /\ phase = "active" /\ phase' = "rosync"
    /\ UNCHANGED <<time, runnable, unchangedByScheduler>>

NextTime ==
    /\ phase = "rosync" /\ rosync = <<>> /\ runnable /\ time < MaxTime
    /\ phase' = "active" /\ time' = time + 1
    /\ UNCHANGED <<runnable, unchangedByScheduler>>

NoMoreEvents ==
    /\ phase = "rosync" /\ rosync = <<>>
    /\ phase' = "final"
    /\ UNCHANGED <<time, runnable, unchangedByScheduler>>

(* the debugger's finish leaves the loop in the middle of a time step *)
FinishFromDebugger ==
    /\ phase = "active" /\ phase' = "final" /\ runnable' = FALSE
    /\ UNCHANGED <<time, unchangedByScheduler>>

Postsim ==
    /\ phase = "final" /\ phase' = "post"
    /\ UNCHANGED <<time, runnable, unchangedByScheduler>>

--------------------------------------------------------------------------------
Init ==
    /\ writer \in Writers
    /\ value = [v \in Vars |-> "0"] /\ time = 0 /\ phase = "active" /\ runnable = TRUE
    /\ rosync = <<>> /\ dump_file = "none" /\ dumpvars_status = 0
    /\ vcd_list = {} /\ vcd_dmp_list = <<>> /\ vcd_cur_time = 0
    /\ dump_is_off = FALSE /\ dump_limited = FALSE /\ dump_is_full = FALSE
    /\ file = [shown |-> [v \in Vars |-> X], mark |-> -1, blackout |-> FALSE]

Task ==
    \/ \E vs \in SUBSET Vars \ {{}} : Dumpvars(vs)
    \/ OpenFails \/ Dumpoff \/ Dumpon \/ Dumpall
    \/ \E limited \in BOOLEAN : Dumplimit(limited)

Next ==
    \/ \E v \in Vars, val \in Value : Change(v, val)
    \/ Task
    \/ DumpvarsCb \/ VariableCb \/ FinishCb
    \/ Finish \/ EnterRosync \/ NextTime \/ NoMoreEvents \/ FinishFromDebugger \/ Postsim

Spec == Init /\ [][Next]_vars

--------------------------------------------------------------------------------
(* The types of the variables; no variable is on the list of changes twice (in  *)
(* the code that list is linked through the variables, so it would lose its end).*)
TypeOK ==
    /\ writer \in Writers /\ value \in [Vars -> Value] /\ time \in 0..MaxTime
    /\ phase \in {"active", "rosync", "final", "post", "over"} /\ runnable \in BOOLEAN
    /\ rosync \in Seq({"dumpvars_cb", "variable_cb_2"})
    /\ dump_file \in {"none", "open", "closed"} /\ dumpvars_status \in 0..2
    /\ vcd_list \subseteq Vars /\ vcd_dmp_list \in Seq(Vars) /\ IsInjective(vcd_dmp_list)
    /\ vcd_cur_time \in 0..time
    /\ dump_is_off \in BOOLEAN /\ dump_limited \in BOOLEAN /\ dump_is_full \in BOOLEAN
    /\ file \in [shown: [Vars -> Value \cup {X}], mark: -1..MaxTime, blackout: BOOLEAN]

Dumping == dumpvars_status = 2 /\ ~dump_is_off /\ ~dump_is_full

(* When time is about to advance, or the simulation ends on its own, the file   *)
(* shows the value that every dumped variable has - whatever was switched off   *)
(* and on, checkpointed or changed back in the meantime.                        *)
FileCurrent ==
    phase = "rosync" /\ rosync = <<>> /\ Dumping =>
        \A v \in vcd_list : file.shown[v] = value[v]

(* Values are written under the mark of the time they are of, and marks go up.  *)
(* Final blocks are left out: if the header was written in the last time step   *)
(* with the dump off, it set vcd_cur_time and no mark, and a $dumpon in a final *)
(* block then writes values under no mark of their own.                         *)
TimesRight ==
    [][ /\ file'.shown # file.shown /\ phase # "final" => file'.mark = time
        /\ file'.mark >= file.mark ]_vars

(* variable_cb_2 waits, once, exactly while there are changes on the list.  Run *)
(* with an empty list it would follow a null pointer (sys_vcd.c writes before   *)
(* it looks); not registered, the changes would be lost.                        *)
CallbackMatchesList ==
    /\ IsInjective(rosync)
    /\ "variable_cb_2" \in ToSet(rosync) <=> vcd_dmp_list # <<>>

(* While the dump is switched off the file shows every variable unknown. *)
DarkWhileOff == dump_is_off /\ dumpvars_status = 2 => \A v \in vcd_list : file.shown[v] = X

(* The LXT2 writer keeps the dead zone of $dumpoff dark, also for the changes   *)
(* that were on the list when the dump was switched off.                        *)
LibraryDark == writer = "lxt2" => DarkWhileOff

================================================================================
