------------------------------ MODULE DumperProofs ------------------------------
(* What is proved of the dumpers (module Dumper), for any variables, writers    *)
(* and number of time steps: at the end of every time step the file shows the   *)
(* values of the variables, under the right time.                               *)
EXTENDS Dumper, Lists

--------------------------------------------------------------------------------
(* The inductive invariant.                                                     *)

(* What is there before and after the header is written *)
HeaderInv ==
    /\ "dumpvars_cb" \in ToSet(rosync) => dumpvars_status = 1
    /\ dumpvars_status # 0 => dump_file # "none"
    /\ dumpvars_status # 2 => vcd_dmp_list = <<>> /\ file.shown = [v \in Vars |-> X]
    /\ file.blackout => dump_is_off /\ dumpvars_status = 2

(* The file shows the values but for the changes on the list; switched off, an  *)
(* LXT2 file shows none, and drops what is left on the list.                    *)
ShownInv ==
    /\ Dumping => \A v \in vcd_list : v \notin ToSet(vcd_dmp_list) => file.shown[v] = value[v]
    /\ LibraryDark
    /\ writer = "lxt2" /\ dump_is_off => file.blackout \/ vcd_dmp_list = <<>>

(* If the dumper thinks that the file is at this time, it is; but not when the  *)
(* header was written in this very step with the dump off, after which nothing  *)
(* is left to write in it.                                                      *)
MarkInv ==
    /\ file.mark =< time
    /\ dumpvars_status = 2 /\ vcd_cur_time = time /\ phase \in {"active", "rosync"} =>
          file.mark = time \/ (phase = "rosync" /\ vcd_dmp_list = <<>>)

IInv == TypeOK /\ CallbackMatchesList /\ HeaderInv /\ ShownInv /\ MarkInv

--------------------------------------------------------------------------------
(* The file.                                                                    *)

Callbacks == {"dumpvars_cb", "variable_cb_2"}

FileType == [shown : [Vars -> Value \cup {X}], mark : -1..MaxTime, blackout : BOOLEAN]

(* What a time mark, values and unknown values do to the file *)
LEMMA Writing ==
    ASSUME TypeOK, NEW f \in FileType, NEW vs \in SUBSET Vars
    PROVE  /\ Show(f, vs) \in FileType
           /\ Show(f, vs).mark = f.mark /\ Show(f, vs).blackout = f.blackout
           /\ \A v \in Vars : Show(f, vs).shown[v] =
                  IF ~f.blackout /\ v \in vs THEN value[v] ELSE f.shown[v]
           /\ Mark(f) \in FileType /\ Mark(f).mark = time
           /\ Mark(f).shown = f.shown /\ Mark(f).blackout = f.blackout
           /\ Blackout(f) \in FileType /\ Blackout(f).mark = f.mark
           /\ Blackout(f).blackout <=> writer = "lxt2"
           /\ \A v \in Vars : Blackout(f).shown[v] = IF v \in vcd_list THEN X ELSE f.shown[v]
<1>1. /\ f.shown \in [Vars -> Value \cup {X}] /\ f.mark \in -1..MaxTime /\ f.blackout \in BOOLEAN
      /\ f = [shown |-> f.shown, mark |-> f.mark, blackout |-> f.blackout]
  BY DEF FileType
<1>2. value \in [Vars -> Value] /\ time \in 0..MaxTime /\ vcd_list \subseteq Vars /\ MaxTime \in Nat
  BY DumperAssumption DEF TypeOK
<1>3. /\ Show(f, vs) \in FileType
      /\ Show(f, vs).mark = f.mark /\ Show(f, vs).blackout = f.blackout
      /\ \A v \in Vars : Show(f, vs).shown[v] =
             IF ~f.blackout /\ v \in vs THEN value[v] ELSE f.shown[v]
  <2> DEFINE new == [v \in Vars |-> IF v \in vs THEN value[v] ELSE f.shown[v]]
  <2>1. CASE f.blackout
    BY <2>1 DEF Show
  <2>2. CASE ~f.blackout
    <3>1. Show(f, vs) = [f EXCEPT !.shown = new]
      BY <2>2 DEF Show
    <3>2. new \in [Vars -> Value \cup {X}]
      BY <1>1, <1>2
    <3>3. \A v \in Vars : new[v] = IF v \in vs THEN value[v] ELSE f.shown[v]
      OBVIOUS
    <3> HIDE DEF new
    <3> QED
      BY <1>1, <2>2, <3>1, <3>2, <3>3 DEF FileType
  <2> QED
    BY <2>1, <2>2
<1>4. /\ Mark(f) \in FileType /\ Mark(f).mark = time
      /\ Mark(f).shown = f.shown /\ Mark(f).blackout = f.blackout
  BY <1>1, <1>2 DEF Mark, FileType
<1>5. /\ Blackout(f) \in FileType /\ Blackout(f).mark = f.mark
      /\ Blackout(f).blackout <=> writer = "lxt2"
      /\ \A v \in Vars : Blackout(f).shown[v] = IF v \in vcd_list THEN X ELSE f.shown[v]
  <2> DEFINE new == [v \in Vars |-> IF v \in vcd_list THEN X ELSE f.shown[v]]
             lxt2 == writer = "lxt2"
  <2>1. Blackout(f) = [[f EXCEPT !.shown = new] EXCEPT !.blackout = lxt2]
    BY DEF Blackout, AllX
  <2>2. new \in [Vars -> Value \cup {X}] /\ lxt2 \in BOOLEAN
    BY <1>1, <1>2
  <2>3. \A v \in Vars : new[v] = IF v \in vcd_list THEN X ELSE f.shown[v]
    OBVIOUS
  <2> HIDE DEF new
  <2>4. Blackout(f) = [shown |-> new, mark |-> f.mark, blackout |-> lxt2]
    BY <1>1, <2>1
  <2>5. Blackout(f) \in FileType
    <3> HIDE DEF lxt2
    <3> QED
      BY <1>1, <2>2, <2>4 DEF FileType
  <2>6. /\ Blackout(f).mark = f.mark /\ Blackout(f).shown = new
        /\ Blackout(f).blackout = lxt2
    BY <2>4
  <2> QED
    BY <2>3, <2>5, <2>6
<1> QED
  BY <1>3, <1>4, <1>5

--------------------------------------------------------------------------------
(* The steps.                                                                   *)

(* What TimesRight says of a step *)
TimeKept ==
    /\ file'.shown # file.shown /\ phase # "final" => file'.mark = time
    /\ file'.mark >= file.mark

(* The invariant in the form in which the steps use it *)
LEMMA Facts ==
    ASSUME IInv
    PROVE  /\ TypeOK /\ CallbackMatchesList /\ HeaderInv /\ ShownInv /\ MarkInv
           /\ rosync \in Seq(Callbacks) /\ vcd_dmp_list \in Seq(Vars)
           /\ file \in FileType /\ file.shown \in [Vars -> Value \cup {X}]
           /\ file.mark \in Int /\ file.blackout \in BOOLEAN
           /\ time \in Nat /\ vcd_cur_time \in Nat /\ vcd_cur_time =< time /\ MaxTime \in Nat
           /\ time =< MaxTime
           /\ ToSet(<<>>) = {}
<1>1. TypeOK /\ CallbackMatchesList /\ HeaderInv /\ ShownInv /\ MarkInv
  BY DEF IInv
<1>2. /\ rosync \in Seq(Callbacks) /\ vcd_dmp_list \in Seq(Vars)
      /\ file \in FileType
  BY <1>1 DEF TypeOK, FileType, Callbacks
<1>3. /\ file.shown \in [Vars -> Value \cup {X}]
      /\ file.mark \in Int /\ file.blackout \in BOOLEAN
  BY <1>2, DumperAssumption DEF FileType
<1>4. /\ time \in Nat /\ vcd_cur_time \in Nat /\ vcd_cur_time =< time /\ MaxTime \in Nat
      /\ time =< MaxTime
  BY <1>1, DumperAssumption DEF TypeOK
<1>5. ToSet(<<>>) = {}
  <2>1. <<>> \in Seq(Vars)
    OBVIOUS
  <2> QED
    BY <2>1, EmptyList
<1> QED
  BY <1>1, <1>2, <1>3, <1>4, <1>5

(* A callback that is not on the list is registered. *)
LEMMA Registered ==
    ASSUME rosync \in Seq(Callbacks), IsInjective(rosync),
           NEW name \in Callbacks, name \notin ToSet(rosync), rosync' = Append(rosync, name)
    PROVE  /\ rosync' \in Seq(Callbacks) /\ IsInjective(rosync')
           /\ ToSet(rosync') = ToSet(rosync) \cup {name}
  BY ListGrows

(* A variable that is not on the list of changes is put there. *)
LEMMA ChangeListed ==
    ASSUME vcd_dmp_list \in Seq(Vars), IsInjective(vcd_dmp_list),
           NEW v \in Vars, v \notin ToSet(vcd_dmp_list), vcd_dmp_list' = <<v>> \o vcd_dmp_list
    PROVE  /\ vcd_dmp_list' \in Seq(Vars) /\ IsInjective(vcd_dmp_list')
           /\ ToSet(vcd_dmp_list') = ToSet(vcd_dmp_list) \cup {v}
  BY ListPrefixed

(* A change of a variable that is dumped puts it on the list, unless it is there. *)
LEMMA ChangeStep ==
    ASSUME IInv, NEW v \in Vars, NEW val \in Value, Change(v, val)
    PROVE  IInv' /\ TimeKept
<1>1. /\ TypeOK /\ CallbackMatchesList /\ HeaderInv /\ ShownInv /\ MarkInv
      /\ rosync \in Seq(Callbacks) /\ vcd_dmp_list \in Seq(Vars)
      /\ file.mark \in Int
  BY Facts
<1>2. /\ value' = [value EXCEPT ![v] = val]
      /\ UNCHANGED <<writer, time, phase, runnable, dump_file, dumpvars_status, vcd_list,
                     vcd_cur_time, dump_is_off, dump_limited, file>>
  BY DEF Change
<1>3. value' \in [Vars -> Value] /\ \A w \in Vars : w # v => value'[w] = value[w]
  BY <1>1, <1>2 DEF TypeOK
<1>4. CASE Notices(v) /\ Enlist(v)
  <2>1. /\ v \in vcd_list /\ ~dump_is_full /\ ~dump_is_off /\ dumpvars_status = 2
        /\ v \notin ToSet(vcd_dmp_list)
        /\ vcd_dmp_list' = <<v>> \o vcd_dmp_list /\ dump_is_full' = dump_is_full
        /\ rosync' = IF vcd_dmp_list = <<>> THEN Append(rosync, "variable_cb_2") ELSE rosync
    BY <1>4 DEF Notices, Enlist, header_pending
  <2>2. /\ vcd_dmp_list' \in Seq(Vars) /\ IsInjective(vcd_dmp_list')
        /\ ToSet(vcd_dmp_list') = ToSet(vcd_dmp_list) \cup {v}
    <3>1. vcd_dmp_list \in Seq(Vars) /\ IsInjective(vcd_dmp_list)
      BY <1>1 DEF TypeOK
    <3>2. vcd_dmp_list' = <<v>> \o vcd_dmp_list /\ v \notin ToSet(vcd_dmp_list)
      BY <2>1
    <3> QED
      BY <3>1, <3>2, ChangeListed
  <2>3. vcd_dmp_list' # <<>>
    BY <1>1, <2>1
  <2>4. /\ rosync' \in Seq(Callbacks) /\ IsInjective(rosync')
        /\ ToSet(rosync') = ToSet(rosync) \cup {"variable_cb_2"}
    <3>1. CASE vcd_dmp_list = <<>>
      <4>1. rosync' = Append(rosync, "variable_cb_2") /\ "variable_cb_2" \notin ToSet(rosync)
        BY <1>1, <2>1, <3>1 DEF CallbackMatchesList
      <4> QED
        <5>1. IsInjective(rosync) /\ "variable_cb_2" \in Callbacks /\ rosync \in Seq(Callbacks)
          BY <1>1 DEF CallbackMatchesList, Callbacks
        <5> QED
          BY <4>1, <5>1, Registered
    <3>2. CASE vcd_dmp_list # <<>>
      BY <1>1, <2>1, <3>2 DEF CallbackMatchesList
    <3> QED
      BY <3>1, <3>2
  <2>5. TypeOK'
    BY <1>1, <1>2, <1>3, <2>1, <2>2, <2>4 DEF TypeOK, Callbacks
  <2>6. CallbackMatchesList' /\ HeaderInv'
    BY <1>1, <1>2, <2>1, <2>3, <2>4 DEF CallbackMatchesList, HeaderInv
  <2>7. ShownInv'
    BY <1>1, <1>2, <1>3, <2>1, <2>2 DEF ShownInv, Dumping, LibraryDark, DarkWhileOff, TypeOK
  <2>8. MarkInv'
    BY <1>1, <1>2, <2>1 DEF MarkInv, Notices, Change, Running
  <2> QED
    BY <1>1, <1>2, <2>5, <2>6, <2>7, <2>8 DEF IInv, TimeKept
<1>5. CASE FileFull
  <2>1. dump_is_full' = TRUE /\ UNCHANGED <<rosync, vcd_dmp_list>>
    BY <1>5 DEF FileFull
  <2>2. TypeOK'
    BY <1>1, <1>2, <1>3, <2>1 DEF TypeOK
  <2>3. CallbackMatchesList' /\ HeaderInv' /\ MarkInv'
    BY <1>1, <1>2, <2>1 DEF CallbackMatchesList, HeaderInv, MarkInv
  <2>4. ShownInv'
    BY <1>1, <1>2, <2>1 DEF ShownInv, Dumping, LibraryDark, DarkWhileOff
  <2> QED
    BY <1>1, <1>2, <2>2, <2>3, <2>4 DEF IInv, TimeKept
<1>6. CASE ~Notices(v) /\ UNCHANGED <<rosync, vcd_dmp_list, dump_is_full>>
  <2>1. UNCHANGED <<rosync, vcd_dmp_list, dump_is_full>>
    BY <1>6
  <2>2. TypeOK'
    BY <1>1, <1>2, <1>3, <2>1 DEF TypeOK
  <2>3. CallbackMatchesList' /\ HeaderInv' /\ MarkInv'
    BY <1>1, <1>2, <2>1 DEF CallbackMatchesList, HeaderInv, MarkInv
  <2>4. Dumping => v \notin vcd_list \/ v \in ToSet(vcd_dmp_list)
    BY <1>6 DEF Notices, Dumping, header_pending
  <2>5. ShownInv'
    BY <1>1, <1>2, <1>3, <2>1, <2>4 DEF ShownInv, Dumping, LibraryDark, DarkWhileOff, TypeOK
  <2> QED
    BY <1>1, <1>2, <2>2, <2>3, <2>5 DEF IInv, TimeKept
<1> QED
  BY <1>4, <1>5, <1>6 DEF Change

(* $dumpvars adds variables before the header is written, and then no more. *)
LEMMA DumpvarsStep ==
    ASSUME IInv, NEW vs \in SUBSET Vars, Dumpvars(vs)
    PROVE  IInv' /\ TimeKept
<1>1. /\ TypeOK /\ CallbackMatchesList /\ HeaderInv /\ ShownInv /\ MarkInv
      /\ rosync \in Seq(Callbacks)
      /\ file.mark \in Int
  BY Facts
<1>2. /\ dump_file' = "open"
      /\ UNCHANGED <<writer, value, time, phase, runnable, vcd_dmp_list, vcd_cur_time,
                     dump_is_off, dump_limited, dump_is_full, file>>
  BY DEF Dumpvars, design, switches
<1>3. CASE header_pending
  <2>1. dumpvars_status \in 0..1 /\ vcd_list' = vcd_list \cup vs /\ Install
    BY <1>1, <1>3 DEF Dumpvars, header_pending, TypeOK
  <2>2. /\ dumpvars_status' = 1 /\ rosync' \in Seq(Callbacks)
        /\ IsInjective(rosync') /\ ToSet(rosync') \subseteq ToSet(rosync) \cup {"dumpvars_cb"}
        /\ "variable_cb_2" \in ToSet(rosync') <=> "variable_cb_2" \in ToSet(rosync)
    <3>1. CASE dumpvars_status = 0
      <4>1. rosync' = Append(rosync, "dumpvars_cb") /\ dumpvars_status' = 1
        BY <2>1, <3>1 DEF Install
      <4>2. IsInjective(rosync) /\ "dumpvars_cb" \notin ToSet(rosync)
        BY <1>1, <3>1 DEF CallbackMatchesList, HeaderInv
      <4> QED
        <5>1. /\ "dumpvars_cb" \in Callbacks /\ "dumpvars_cb" # "variable_cb_2"
              /\ rosync \in Seq(Callbacks)
          BY <1>1 DEF Callbacks
        <5>2. /\ rosync' \in Seq(Callbacks) /\ IsInjective(rosync')
              /\ ToSet(rosync') = ToSet(rosync) \cup {"dumpvars_cb"}
          BY <4>1, <4>2, <5>1, Registered
        <5> QED
          BY <4>1, <5>1, <5>2
    <3>2. CASE dumpvars_status = 1
      BY <1>1, <2>1, <3>2 DEF Install, CallbackMatchesList
    <3> QED
      BY <2>1, <3>1, <3>2
  <2>3. TypeOK'
    BY <1>1, <1>2, <2>1, <2>2 DEF TypeOK, Callbacks
  <2>4. CallbackMatchesList' /\ HeaderInv'
    BY <1>1, <1>2, <1>3, <2>2 DEF CallbackMatchesList, HeaderInv, header_pending
  <2>5. ShownInv' /\ MarkInv'
    BY <1>1, <1>2, <1>3, <2>2 DEF ShownInv, MarkInv, Dumping, LibraryDark, DarkWhileOff, HeaderInv, header_pending
  <2> QED
    BY <1>1, <1>2, <2>3, <2>4, <2>5 DEF IInv, TimeKept
<1>4. CASE ~header_pending
  <2>1. UNCHANGED <<rosync, dumpvars_status, vcd_list>>
    BY <1>4 DEF Dumpvars
  <2>2. TypeOK'
    BY <1>1, <1>2, <2>1 DEF TypeOK
  <2>3. CallbackMatchesList' /\ HeaderInv' /\ MarkInv'
    BY <1>1, <1>2, <2>1 DEF CallbackMatchesList, HeaderInv, MarkInv
  <2>4. ShownInv'
    BY <1>1, <1>2, <2>1 DEF ShownInv, Dumping, LibraryDark, DarkWhileOff
  <2> QED
    BY <1>1, <1>2, <2>2, <2>3, <2>4 DEF IInv, TimeKept
<1> QED
  BY <1>3, <1>4

(* The file with the time mark that the tasks write first *)
LEMMA CaughtUp ==
    ASSUME IInv, dumpvars_status = 2
    PROVE  /\ CatchUp(file) \in FileType /\ CatchUp(file).mark \in Int
           /\ CatchUp(file).shown = file.shown /\ CatchUp(file).blackout = file.blackout
           /\ CatchUp(file).mark >= file.mark /\ CatchUp(file).mark =< time
           /\ phase = "active" => CatchUp(file).mark = time
<1>1. /\ TypeOK /\ MarkInv /\ file \in FileType /\ file.mark \in Int
      /\ time \in Nat /\ vcd_cur_time \in Nat /\ vcd_cur_time =< time
  BY Facts
<1>2. /\ Mark(file) \in FileType /\ Mark(file).mark = time
      /\ Mark(file).shown = file.shown /\ Mark(file).blackout = file.blackout
  <2>1. {} \in SUBSET Vars
    OBVIOUS
  <2> QED
    BY <1>1, <2>1, Writing
<1>3. CASE time > vcd_cur_time
  BY <1>1, <1>2, <1>3 DEF CatchUp, MarkInv
<1>4. CASE ~(time > vcd_cur_time)
  <2>1. vcd_cur_time = time /\ CatchUp(file) = file
    BY <1>1, <1>4 DEF CatchUp
  <2> QED
    BY <1>1, <2>1 DEF MarkInv
<1> QED
  BY <1>3, <1>4

(* A task that the dumper obeys while the header is not written changes a switch only. *)
LEMMA TaskBeforeHeader ==
    ASSUME IInv, header_pending, Running,
           UNCHANGED unchangedByTasks, UNCHANGED <<vcd_cur_time, file>>, dump_is_off' \in BOOLEAN
    PROVE  IInv' /\ TimeKept
<1>1. /\ TypeOK /\ CallbackMatchesList /\ HeaderInv /\ ShownInv /\ MarkInv /\ file.mark \in Int
  BY Facts
<1>2. /\ UNCHANGED <<writer, value, time, phase, runnable, rosync, dump_file, dumpvars_status,
                     vcd_list, vcd_dmp_list, dump_limited, dump_is_full>>
      /\ UNCHANGED <<vcd_cur_time, file>>
  BY DEF unchangedByTasks, design
<1>3. dumpvars_status # 2
  BY DEF header_pending
<1>4. TypeOK'
  BY <1>1, <1>2 DEF TypeOK
<1>5. CallbackMatchesList' /\ HeaderInv' /\ MarkInv'
  BY <1>1, <1>2, <1>3 DEF CallbackMatchesList, HeaderInv, MarkInv
<1>6. ShownInv'
  BY <1>1, <1>2, <1>3 DEF ShownInv, Dumping, LibraryDark, DarkWhileOff, HeaderInv
<1> QED
  BY <1>1, <1>2, <1>4, <1>5, <1>6 DEF IInv, TimeKept

(* What the tasks leave alone, and the types of what they write *)
LEMMA TaskWrites ==
    ASSUME IInv, ~header_pending, Running, NEW f \in FileType, Write(f), UNCHANGED unchangedByTasks,
           dump_is_off' \in BOOLEAN
    PROVE  /\ dumpvars_status = 2 /\ file' = f /\ vcd_cur_time' = time
           /\ TypeOK' /\ CallbackMatchesList'
           /\ UNCHANGED <<writer, value, time, phase, runnable, rosync, dump_file, dumpvars_status,
                          vcd_list, vcd_dmp_list, dump_limited, dump_is_full>>
<1>1. /\ TypeOK /\ CallbackMatchesList /\ HeaderInv
      /\ time \in Nat /\ vcd_cur_time \in Nat /\ vcd_cur_time =< time
  BY Facts
<1>2. UNCHANGED <<writer, value, time, phase, runnable, rosync, dump_file, dumpvars_status,
                  vcd_list, vcd_dmp_list, dump_limited, dump_is_full>>
  BY DEF unchangedByTasks, design
<1>3. dumpvars_status = 2 /\ dump_file # "none"
  BY <1>1 DEF header_pending, HeaderInv
<1>4. file' = f /\ vcd_cur_time' = time
  BY <1>1, <1>3 DEF Write
<1>5. TypeOK'
  <2>1. vcd_cur_time' \in 0..time'
    BY <1>1, <1>2, <1>4
  <2> QED
    BY <1>1, <1>2, <1>4, <2>1 DEF TypeOK, FileType
<1> QED
  BY <1>1, <1>2, <1>3, <1>4, <1>5 DEF CallbackMatchesList

(* Switched off, the file shows no variable any more, and in an LXT2 file what  *)
(* is on the list will not come through.                                        *)
LEMMA DumpoffStep ==
    ASSUME IInv, Dumpoff
    PROVE  IInv' /\ TimeKept
<1> DEFINE f == CatchUp(file)
<1>1. /\ TypeOK /\ CallbackMatchesList /\ HeaderInv /\ ShownInv /\ MarkInv
      /\ file.mark \in Int /\ time \in Nat /\ vcd_list \subseteq Vars
  BY Facts DEF TypeOK
<1>2. /\ Running /\ ~dump_is_off /\ dump_is_off' = TRUE /\ Write(Blackout(f))
      /\ UNCHANGED unchangedByTasks
  BY DEF Dumpoff
<1>3. CASE header_pending
  <2>1. UNCHANGED <<vcd_cur_time, file>>
    BY <1>2, <1>3 DEF Write
  <2> QED
    BY <1>2, <1>3, <2>1, TaskBeforeHeader
<1>4. CASE ~header_pending
  <2>1. dumpvars_status = 2
    BY <1>4 DEF header_pending
  <2>2. /\ f \in FileType /\ f.mark \in Int /\ f.shown = file.shown /\ f.mark >= file.mark
        /\ f.mark =< time /\ (phase = "active" => f.mark = time)
    BY <2>1, CaughtUp
  <2>3. /\ Blackout(f) \in FileType /\ Blackout(f).mark = f.mark
        /\ Blackout(f).blackout <=> writer = "lxt2"
        /\ \A v \in Vars : Blackout(f).shown[v] = IF v \in vcd_list THEN X ELSE f.shown[v]
    <3>1. {} \in SUBSET Vars
      OBVIOUS
    <3> HIDE DEF f
    <3> QED
      BY <1>1, <2>2, <3>1, Writing
  <2>4. /\ file' = Blackout(f) /\ vcd_cur_time' = time /\ TypeOK' /\ CallbackMatchesList'
        /\ UNCHANGED <<writer, value, time, phase, runnable, rosync, dump_file, dumpvars_status,
                       vcd_list, vcd_dmp_list, dump_limited, dump_is_full>>
    BY <1>2, <1>4, <2>3, TaskWrites
  <2> HIDE DEF f
  <2>5. HeaderInv'
    BY <1>1, <1>2, <2>1, <2>3, <2>4 DEF HeaderInv
  <2>6. ShownInv'
    BY <1>1, <1>2, <2>3, <2>4 DEF ShownInv, Dumping, LibraryDark, DarkWhileOff
  <2>7. MarkInv' /\ TimeKept
    BY <1>1, <1>2, <2>2, <2>3, <2>4 DEF MarkInv, TimeKept, Running
  <2> QED
    BY <2>4, <2>5, <2>6, <2>7 DEF IInv
<1> QED
  BY <1>3, <1>4

(* Switched on again, the file shows all values. *)
LEMMA DumponStep ==
    ASSUME IInv, Dumpon
    PROVE  IInv' /\ TimeKept
<1> DEFINE f == CatchUp(file)
           on == [f EXCEPT !.blackout = FALSE]
           new == Checkpoint(on)
<1>1. /\ TypeOK /\ CallbackMatchesList /\ HeaderInv /\ ShownInv /\ MarkInv
      /\ file.mark \in Int /\ time \in Nat /\ vcd_list \subseteq Vars
  BY Facts DEF TypeOK
<1>2. /\ Running /\ dump_is_off' = FALSE /\ Write(new) /\ UNCHANGED unchangedByTasks
  BY DEF Dumpon
<1>3. CASE header_pending
  <2>1. UNCHANGED <<vcd_cur_time, file>>
    BY <1>2, <1>3 DEF Write
  <2> QED
    BY <1>2, <1>3, <2>1, TaskBeforeHeader
<1>4. CASE ~header_pending
  <2>1. dumpvars_status = 2
    BY <1>4 DEF header_pending
  <2>2. /\ f \in FileType /\ f.mark \in Int /\ f.shown = file.shown /\ f.mark >= file.mark
        /\ f.mark =< time /\ (phase = "active" => f.mark = time)
    BY <2>1, CaughtUp
  <2>3. on \in FileType /\ on.mark = f.mark /\ ~on.blackout
    <3> HIDE DEF f
    <3> QED
      BY <2>2 DEF FileType
  <2>4. /\ new \in FileType /\ new.mark = f.mark /\ ~new.blackout
        /\ \A v \in vcd_list : new.shown[v] = value[v]
    <3>1. new = Show(on, vcd_list)
      BY DEF Checkpoint
    <3> HIDE DEF on, new
    <3> QED
      BY <1>1, <2>3, <3>1, Writing
  <2>5. /\ file' = new /\ vcd_cur_time' = time /\ TypeOK' /\ CallbackMatchesList'
        /\ UNCHANGED <<writer, value, time, phase, runnable, rosync, dump_file, dumpvars_status,
                       vcd_list, vcd_dmp_list, dump_limited, dump_is_full>>
    BY <1>2, <1>4, <2>4, TaskWrites
  <2> HIDE DEF f, on, new
  <2>6. HeaderInv'
    BY <1>1, <1>2, <2>1, <2>4, <2>5 DEF HeaderInv
  <2>7. ShownInv'
    BY <1>1, <1>2, <2>4, <2>5 DEF ShownInv, Dumping, LibraryDark, DarkWhileOff
  <2>8. MarkInv' /\ TimeKept
    BY <1>1, <1>2, <2>2, <2>4, <2>5 DEF MarkInv, TimeKept, Running
  <2> QED
    BY <2>5, <2>6, <2>7, <2>8 DEF IInv
<1> QED
  BY <1>3, <1>4

(* A checkpoint shows all values, those of changes on the list too. *)
LEMMA DumpallStep ==
    ASSUME IInv, Dumpall
    PROVE  IInv' /\ TimeKept
<1> DEFINE f == CatchUp(file)
           new == Checkpoint(f)
<1>1. /\ TypeOK /\ CallbackMatchesList /\ HeaderInv /\ ShownInv /\ MarkInv
      /\ file.mark \in Int /\ time \in Nat /\ vcd_list \subseteq Vars
  BY Facts DEF TypeOK
<1>2. /\ Running /\ ~dump_is_off /\ dump_is_off' = dump_is_off /\ Write(new)
      /\ UNCHANGED unchangedByTasks /\ dump_is_off' \in BOOLEAN
  BY <1>1 DEF Dumpall, TypeOK
<1>3. CASE header_pending
  <2>1. UNCHANGED <<vcd_cur_time, file>>
    BY <1>2, <1>3 DEF Write
  <2> QED
    BY <1>2, <1>3, <2>1, TaskBeforeHeader
<1>4. CASE ~header_pending
  <2>1. dumpvars_status = 2
    BY <1>4 DEF header_pending
  <2>2. /\ f \in FileType /\ f.mark \in Int /\ f.shown = file.shown /\ f.mark >= file.mark
        /\ f.mark =< time /\ (phase = "active" => f.mark = time) /\ f.blackout = file.blackout
    BY <2>1, CaughtUp
  <2>3. ~f.blackout
    BY <1>1, <1>2, <2>2 DEF HeaderInv
  <2>4. /\ new \in FileType /\ new.mark = f.mark /\ ~new.blackout
        /\ \A v \in vcd_list : new.shown[v] = value[v]
    <3>1. new = Show(f, vcd_list)
      BY DEF Checkpoint
    <3> HIDE DEF f, new
    <3> QED
      BY <1>1, <2>2, <2>3, <3>1, Writing
  <2>5. /\ file' = new /\ vcd_cur_time' = time /\ TypeOK' /\ CallbackMatchesList'
        /\ UNCHANGED <<writer, value, time, phase, runnable, rosync, dump_file, dumpvars_status,
                       vcd_list, vcd_dmp_list, dump_limited, dump_is_full>>
    BY <1>2, <1>4, <2>4, TaskWrites
  <2> HIDE DEF f, new
  <2>6. HeaderInv'
    BY <1>1, <1>2, <2>1, <2>4, <2>5 DEF HeaderInv
  <2>7. ShownInv'
    BY <1>1, <1>2, <2>4, <2>5 DEF ShownInv, Dumping, LibraryDark, DarkWhileOff
  <2>8. MarkInv' /\ TimeKept
    BY <1>1, <1>2, <2>2, <2>4, <2>5 DEF MarkInv, TimeKept, Running
  <2> QED
    BY <2>5, <2>6, <2>7, <2>8 DEF IInv
<1> QED
  BY <1>3, <1>4

(* $dumplimit changes a switch that only FileFull looks at. *)
LEMMA DumplimitStep ==
    ASSUME IInv, NEW limited \in BOOLEAN, Dumplimit(limited)
    PROVE  IInv' /\ TimeKept
<1>1. /\ TypeOK /\ CallbackMatchesList /\ HeaderInv /\ ShownInv /\ MarkInv /\ file.mark \in Int
  BY Facts
<1>2. /\ dump_limited' = limited
      /\ UNCHANGED <<writer, value, time, phase, runnable, rosync, dump_file, dumpvars_status,
                     vcd_list, vcd_dmp_list, vcd_cur_time, dump_is_off, dump_is_full, file>>
  BY DEF Dumplimit, design
<1>3. TypeOK'
  BY <1>1, <1>2 DEF TypeOK
<1>4. CallbackMatchesList' /\ HeaderInv' /\ MarkInv'
  BY <1>1, <1>2 DEF CallbackMatchesList, HeaderInv, MarkInv
<1>5. ShownInv'
  BY <1>1, <1>2 DEF ShownInv, Dumping, LibraryDark, DarkWhileOff
<1> QED
  BY <1>1, <1>2, <1>3, <1>4, <1>5 DEF IInv, TimeKept

(* A callback is taken from the list of callbacks. *)
LEMMA CallbackTaken ==
    ASSUME IInv, NEW name \in Callbacks, Callback(name)
    PROVE  /\ phase = "rosync" /\ rosync' \in Seq(Callbacks) /\ IsInjective(rosync')
           /\ name \in ToSet(rosync) /\ ToSet(rosync') = ToSet(rosync) \ {name}
<1>1. /\ rosync \in Seq(Callbacks) /\ IsInjective(rosync)
      /\ rosync # <<>> /\ Head(rosync) = name /\ rosync' = Tail(rosync) /\ phase = "rosync"
  BY Facts DEF CallbackMatchesList, Callback
<1>2. name \in ToSet(rosync)
  BY <1>1, EmptyList
<1> QED
  BY <1>1, <1>2, ListShrinks

(* The header is written, with the values unless the dump is off. *)
LEMMA DumpvarsCbStep ==
    ASSUME IInv, DumpvarsCb
    PROVE  IInv' /\ TimeKept
<1> DEFINE marked == Mark(file)
           new == IF dump_is_off THEN file ELSE Checkpoint(marked)
<1>1. /\ TypeOK /\ CallbackMatchesList /\ HeaderInv /\ ShownInv /\ MarkInv
      /\ file \in FileType /\ file.mark \in Int /\ time \in Nat
      /\ vcd_list \subseteq Vars /\ ToSet(<<>>) = {}
  BY Facts DEF TypeOK
<1>2. /\ dumpvars_status' = 2 /\ vcd_cur_time' = time /\ file' = new
      /\ UNCHANGED <<writer, value, time, phase, runnable, dump_file, vcd_list, vcd_dmp_list,
                     dump_is_off, dump_limited, dump_is_full>>
  BY DEF DumpvarsCb, design, switches
<1>3. /\ phase = "rosync" /\ rosync' \in Seq(Callbacks) /\ IsInjective(rosync')
      /\ "dumpvars_cb" \in ToSet(rosync) /\ ToSet(rosync') = ToSet(rosync) \ {"dumpvars_cb"}
  <2>1. "dumpvars_cb" \in Callbacks /\ Callback("dumpvars_cb")
    BY DEF Callbacks, DumpvarsCb
  <2> QED
    BY <2>1, CallbackTaken
<1>4. dumpvars_status = 1 /\ vcd_dmp_list = <<>> /\ ~file.blackout /\ file.shown = [v \in Vars |-> X]
  BY <1>1, <1>3 DEF HeaderInv
<1>5. /\ marked \in FileType /\ marked.mark = time
      /\ marked.shown = file.shown /\ marked.blackout = file.blackout
  BY <1>1, Writing
<1>6. /\ new \in FileType /\ ~new.blackout
      /\ dump_is_off => new = file
      /\ ~dump_is_off => new.mark = time /\ \A v \in vcd_list : new.shown[v] = value[v]
  <2>1. CASE dump_is_off
    BY <1>1, <1>4, <2>1
  <2>2. CASE ~dump_is_off
    <3>1. new = Show(marked, vcd_list)
      BY <2>2 DEF Checkpoint
    <3> HIDE DEF marked, new
    <3>2. /\ new \in FileType /\ new.mark = marked.mark /\ new.blackout = marked.blackout
          /\ \A v \in Vars : new.shown[v] =
                 IF ~marked.blackout /\ v \in vcd_list THEN value[v] ELSE marked.shown[v]
      <4>1. /\ Show(marked, vcd_list) \in FileType
            /\ Show(marked, vcd_list).mark = marked.mark
            /\ Show(marked, vcd_list).blackout = marked.blackout
            /\ \A v \in Vars : Show(marked, vcd_list).shown[v] =
                   IF ~marked.blackout /\ v \in vcd_list THEN value[v] ELSE marked.shown[v]
        <5>1. TypeOK /\ marked \in FileType /\ vcd_list \in SUBSET Vars
          BY <1>1, <1>5
        <5> QED
          BY <5>1, Writing
      <4> QED
        BY <3>1, <4>1, Zenon
    <3>3. ~new.blackout /\ new.mark = time
      BY <1>4, <1>5, <3>2, Zenon
    <3>4. \A v \in vcd_list : new.shown[v] = value[v]
      BY <1>1, <1>4, <1>5, <3>2, Zenon
    <3> QED
      BY <2>2, <3>2, <3>3, <3>4, Zenon
  <2> QED
    BY <2>1, <2>2
<1> HIDE DEF marked, new
<1>7. TypeOK'
  <2>1. vcd_cur_time' \in 0..time'
    BY <1>1, <1>2
  <2> QED
    BY <1>1, <1>2, <1>3, <1>6, <2>1 DEF TypeOK, FileType, Callbacks
<1>8. CallbackMatchesList' /\ HeaderInv'
  <2>1. "dumpvars_cb" # "variable_cb_2"
    OBVIOUS
  <2> QED
    BY <1>1, <1>2, <1>3, <1>4, <1>6, <2>1 DEF CallbackMatchesList, HeaderInv
<1>9. ShownInv'
  BY <1>1, <1>2, <1>4, <1>6 DEF ShownInv, Dumping, LibraryDark, DarkWhileOff
<1>10. MarkInv' /\ TimeKept
  BY <1>1, <1>2, <1>3, <1>4, <1>6 DEF MarkInv, TimeKept
<1> QED
  BY <1>7, <1>8, <1>9, <1>10 DEF IInv

(* The changes on the list are written, and the list is empty. *)
LEMMA VariableCbStep ==
    ASSUME IInv, VariableCb
    PROVE  IInv' /\ TimeKept
<1> DEFINE marked == IF time # vcd_cur_time THEN Mark(file) ELSE file
           new == Show(marked, ToSet(vcd_dmp_list))
<1>1. /\ TypeOK /\ CallbackMatchesList /\ HeaderInv /\ ShownInv /\ MarkInv
      /\ file \in FileType /\ file.mark \in Int /\ time \in Nat /\ ToSet(vcd_dmp_list) \subseteq Vars
      /\ vcd_list \subseteq Vars /\ ToSet(<<>>) = {}
  BY Facts, EmptyList DEF TypeOK
<1>2. /\ vcd_cur_time' = time /\ file' = new /\ vcd_dmp_list' = <<>>
      /\ UNCHANGED <<writer, value, time, phase, runnable, dump_file, dumpvars_status, vcd_list,
                     dump_is_off, dump_limited, dump_is_full>>
  BY DEF VariableCb, design, switches
<1>3. /\ phase = "rosync" /\ rosync' \in Seq(Callbacks) /\ IsInjective(rosync')
      /\ "variable_cb_2" \in ToSet(rosync) /\ ToSet(rosync') = ToSet(rosync) \ {"variable_cb_2"}
  <2>1. "variable_cb_2" \in Callbacks /\ Callback("variable_cb_2")
    BY DEF Callbacks, VariableCb
  <2> QED
    BY <2>1, CallbackTaken
<1>4. vcd_dmp_list # <<>> /\ dumpvars_status = 2
  BY <1>1, <1>3 DEF CallbackMatchesList, HeaderInv
<1>5. /\ marked \in FileType /\ marked.mark = time
      /\ marked.shown = file.shown /\ marked.blackout = file.blackout
  <2>1. CASE time # vcd_cur_time
    BY <1>1, <2>1, Writing
  <2>2. CASE time = vcd_cur_time
    BY <1>1, <1>3, <1>4, <2>2 DEF MarkInv
  <2> QED
    BY <2>1, <2>2
<1>6. /\ new \in FileType /\ new.mark = time /\ new.blackout = file.blackout
      /\ \A v \in Vars : new.shown[v] = IF ~file.blackout /\ v \in ToSet(vcd_dmp_list)
                                        THEN value[v] ELSE file.shown[v]
  <2>1. ToSet(vcd_dmp_list) \in SUBSET Vars
    BY <1>1
  <2> HIDE DEF marked
  <2> QED
    <3>1. TypeOK /\ marked \in FileType /\ ToSet(vcd_dmp_list) \in SUBSET Vars
      BY <1>1, <1>5, <2>1
    <3>2. /\ new \in FileType /\ new.mark = marked.mark /\ new.blackout = marked.blackout
          /\ \A v \in Vars : new.shown[v] = IF ~marked.blackout /\ v \in ToSet(vcd_dmp_list)
                                             THEN value[v] ELSE marked.shown[v]
      BY <3>1, Writing
    <3> HIDE DEF new
    <3> QED
      BY <1>5, <3>2
<1> HIDE DEF marked, new
<1>7. TypeOK'
  <2>1. vcd_cur_time' \in 0..time' /\ <<>> \in Seq(Vars) /\ IsInjective(<<>>)
    BY <1>1, <1>2 DEF IsInjective
  <2> QED
    BY <1>1, <1>2, <1>3, <1>6, <2>1 DEF TypeOK, FileType, Callbacks
<1>8. CallbackMatchesList' /\ HeaderInv'
  BY <1>1, <1>2, <1>3, <1>4, <1>6 DEF CallbackMatchesList, HeaderInv
<1>9. ShownInv'
  <2>1. Dumping => ~file.blackout
    BY <1>1 DEF Dumping, HeaderInv
  <2>2. ASSUME Dumping PROVE \A v \in vcd_list : new.shown[v] = value[v]
    BY <1>1, <1>6, <2>1, <2>2 DEF ShownInv
  <2>3. ASSUME writer = "lxt2", dump_is_off PROVE \A v \in vcd_list : new.shown[v] = X
    <3>1. file.blackout /\ \A v \in vcd_list : file.shown[v] = X
      BY <1>1, <1>4, <2>3 DEF ShownInv, LibraryDark, DarkWhileOff
    <3> QED
      BY <1>1, <1>6, <3>1
  <2> QED
    BY <1>1, <1>2, <1>4, <2>2, <2>3 DEF ShownInv, Dumping, LibraryDark, DarkWhileOff
<1>10. MarkInv' /\ TimeKept
  BY <1>1, <1>2, <1>6 DEF MarkInv, TimeKept
<1> QED
  BY <1>7, <1>8, <1>9, <1>10 DEF IInv

(* The file gets its last time mark and the variables are freed. *)
LEMMA FinishCbStep ==
    ASSUME IInv, FinishCb
    PROVE  IInv' /\ TimeKept
<1>1. /\ TypeOK /\ CallbackMatchesList /\ HeaderInv /\ ShownInv /\ MarkInv
      /\ file \in FileType /\ file.mark \in Int /\ time \in Nat
  BY Facts
<1>2. /\ phase' = "over"
      /\ UNCHANGED <<writer, value, time, runnable, rosync, dumpvars_status, vcd_dmp_list,
                     vcd_cur_time, dump_is_off, dump_limited, dump_is_full>>
  BY DEF FinishCb, switches
<1>3. /\ Mark(file) \in FileType /\ Mark(file).mark = time
      /\ Mark(file).shown = file.shown /\ Mark(file).blackout = file.blackout
  <2>1. {} \in SUBSET Vars
    OBVIOUS
  <2> QED
    BY <1>1, <2>1, Writing
<1>4. file' \in FileType /\ file'.shown = file.shown /\ file'.blackout = file.blackout
  BY <1>1, <1>3 DEF FinishCb
<1>5. file'.mark = file.mark \/ file'.mark = time
  BY <1>1, <1>3 DEF FinishCb
<1>6. \/ UNCHANGED <<dump_file, vcd_list>>
      \/ dump_file' = "closed" /\ vcd_list' = {}
  BY DEF FinishCb
<1>7. TypeOK'
  BY <1>1, <1>2, <1>4, <1>6 DEF TypeOK, FileType
<1>8. CallbackMatchesList' /\ HeaderInv'
  BY <1>1, <1>2, <1>4, <1>6 DEF CallbackMatchesList, HeaderInv
<1>9. ShownInv'
  BY <1>1, <1>2, <1>4, <1>6 DEF ShownInv, Dumping, LibraryDark, DarkWhileOff
<1>10. MarkInv' /\ TimeKept
  BY <1>1, <1>2, <1>4, <1>5 DEF MarkInv, TimeKept
<1> QED
  BY <1>7, <1>8, <1>9, <1>10 DEF IInv

(* The scheduler moves on; a new time is later than the one the file is at. *)
LEMMA SchedulerStep ==
    ASSUME IInv, UNCHANGED unchangedByScheduler, runnable' \in BOOLEAN,
           \/ UNCHANGED <<time, phase>>
           \/ time' = time /\ phase = "active" /\ phase' = "rosync"
           \/ time' = time /\ phase' \in {"final", "post"}
           \/ time' = time + 1 /\ time < MaxTime /\ phase' = "active"
    PROVE  IInv' /\ TimeKept
<1>1. /\ TypeOK /\ CallbackMatchesList /\ HeaderInv /\ ShownInv /\ MarkInv /\ file.mark \in Int
      /\ time \in Nat /\ vcd_cur_time \in Nat /\ vcd_cur_time =< time /\ MaxTime \in Nat
  BY Facts
<1>2. UNCHANGED <<writer, value, rosync, dump_file, dumpvars_status, vcd_list,
                  vcd_dmp_list, vcd_cur_time, dump_is_off, dump_limited, dump_is_full, file>>
  BY DEF unchangedByScheduler, switches
<1>3. TypeOK'
  <2>1. time' \in 0..MaxTime /\ vcd_cur_time' \in 0..time'
    BY <1>1, <1>2 DEF TypeOK
  <2>2. phase' \in {"active", "rosync", "final", "post", "over"}
    BY <1>1 DEF TypeOK
  <2> QED
    BY <1>1, <1>2, <2>1, <2>2 DEF TypeOK
<1>4. CallbackMatchesList' /\ HeaderInv'
  BY <1>1, <1>2 DEF CallbackMatchesList, HeaderInv
<1>5. ShownInv'
  BY <1>1, <1>2 DEF ShownInv, Dumping, LibraryDark, DarkWhileOff
<1>6. MarkInv'
  BY <1>1, <1>2 DEF MarkInv
<1> QED
  BY <1>1, <1>2, <1>3, <1>4, <1>5, <1>6 DEF IInv, TimeKept

(* At first nothing is dumped. *)
LEMMA InitHolds ==
    ASSUME Init
    PROVE  IInv
<1>1. <<>> \in Seq(Vars) /\ <<>> \in Seq(Callbacks) /\ IsInjective(<<>>) /\ ToSet(<<>>) = {}
  BY DEF IsInjective, ToSet
<1>2. file \in FileType /\ value \in [Vars -> Value] /\ time \in 0..MaxTime /\ vcd_cur_time \in 0..time
  BY DumperAssumption DEF Init, FileType, Value
<1>3. TypeOK
  <2>1. /\ writer \in Writers /\ phase = "active" /\ runnable = TRUE /\ rosync = <<>>
        /\ dump_file = "none" /\ dumpvars_status = 0 /\ vcd_list = {} /\ vcd_dmp_list = <<>>
        /\ dump_is_off = FALSE /\ dump_limited = FALSE /\ dump_is_full = FALSE
    BY DEF Init
  <2> QED
    <3>1. writer \in Writers /\ value \in [Vars -> Value] /\ time \in 0..MaxTime
      BY <1>2, <2>1
    <3>2. phase \in {"active", "rosync", "final", "post", "over"} /\ runnable \in BOOLEAN
      BY <2>1
    <3>3. /\ rosync \in Seq(Callbacks) /\ vcd_list \subseteq Vars
          /\ vcd_dmp_list \in Seq(Vars) /\ IsInjective(vcd_dmp_list)
      BY <1>1, <2>1
    <3>4. dump_file \in {"none", "open", "closed"} /\ dumpvars_status \in 0..2
      BY <2>1
    <3>5. dump_is_off \in BOOLEAN /\ dump_limited \in BOOLEAN /\ dump_is_full \in BOOLEAN
      BY <2>1
    <3> QED
      BY <1>2, <3>1, <3>2, <3>3, <3>4, <3>5 DEF TypeOK, FileType, Callbacks
<1>4. CallbackMatchesList /\ HeaderInv
  BY <1>1 DEF Init, CallbackMatchesList, HeaderInv
<1>5. ShownInv /\ MarkInv
  BY DEF Init, ShownInv, Dumping, LibraryDark, DarkWhileOff, MarkInv
<1> QED
  BY <1>3, <1>4, <1>5 DEF IInv

(* Every step keeps the invariant and the order of the time marks. *)
LEMMA NextHolds ==
    ASSUME IInv, [Next]_vars
    PROVE  IInv' /\ TimeKept
<1>1. CASE \E v \in Vars, val \in Value : Change(v, val)
  BY <1>1, ChangeStep
<1>2. CASE \E vs \in SUBSET Vars \ {{}} : Dumpvars(vs)
  BY <1>2, DumpvarsStep
<1>3. CASE OpenFails
  BY <1>3, SchedulerStep DEF OpenFails, unchangedByScheduler
<1>4. CASE Dumpoff \/ Dumpon \/ Dumpall
  BY <1>4, DumpoffStep, DumponStep, DumpallStep
<1>5. CASE \E limited \in BOOLEAN : Dumplimit(limited)
  BY <1>5, DumplimitStep
<1>6. CASE DumpvarsCb \/ VariableCb \/ FinishCb
  BY <1>6, DumpvarsCbStep, VariableCbStep, FinishCbStep
<1>7. runnable \in BOOLEAN
  BY DEF IInv, TypeOK
<1>8. CASE Finish
  BY <1>8, SchedulerStep DEF Finish
<1>9. CASE EnterRosync
  BY <1>7, <1>9, SchedulerStep DEF EnterRosync
<1>10. CASE NextTime
  BY <1>7, <1>10, SchedulerStep DEF NextTime
<1>11. CASE NoMoreEvents
  BY <1>7, <1>11, SchedulerStep DEF NoMoreEvents
<1>12. CASE FinishFromDebugger
  BY <1>12, SchedulerStep DEF FinishFromDebugger
<1>13. CASE Postsim
  BY <1>7, <1>13, SchedulerStep DEF Postsim
<1>14. CASE UNCHANGED vars
  <2>1. UNCHANGED <<time, phase, runnable>> /\ UNCHANGED unchangedByScheduler
    BY <1>14 DEF vars, design, switches, unchangedByScheduler
  <2> QED
    BY <1>7, <2>1, SchedulerStep
<1> QED
  BY <1>1, <1>2, <1>3, <1>4, <1>5, <1>6, <1>8, <1>9, <1>10, <1>11, <1>12, <1>13, <1>14 DEF Next, Task

--------------------------------------------------------------------------------
(* The theorems.                                                                *)

(* What every step keeps is true of every state. *)
THEOREM Invariant == Spec => []IInv
<1>1. Init => IInv
  BY InitHolds
<1>2. IInv /\ [Next]_vars => IInv'
  BY NextHolds
<1> QED
  BY <1>1, <1>2, PTL DEF Spec

(* Types; no variable is twice on the list of sys_vcd.c and sys_lxt2.c, which   *)
(* is linked through the variables.                                             *)
THEOREM TypeCorrect == Spec => []TypeOK
<1>1. IInv => TypeOK
  BY DEF IInv
<1> QED
  BY <1>1, Invariant, PTL

(* variable_cb_2 waits, once, exactly while there are changes to write. *)
THEOREM CallbackRight == Spec => []CallbackMatchesList
<1>1. IInv => CallbackMatchesList
  BY DEF IInv
<1> QED
  BY <1>1, Invariant, PTL

(* When a time step is over, the file shows the values of the variables. *)
THEOREM FileIsCurrent == Spec => []FileCurrent
<1>1. IInv => FileCurrent
  <2> SUFFICES ASSUME IInv, rosync = <<>>, Dumping, NEW v \in vcd_list
               PROVE  file.shown[v] = value[v]
    BY DEF FileCurrent
  <2>1. CallbackMatchesList /\ ShownInv /\ ToSet(<<>>) = {}
    BY Facts
  <2>2. vcd_dmp_list = <<>>
    BY <2>1 DEF CallbackMatchesList
  <2> QED
    BY <2>1, <2>2 DEF ShownInv
<1> QED
  BY <1>1, Invariant, PTL

(* The LXT2 file stays dark from $dumpoff to $dumpon. *)
THEOREM LibraryStaysDark == Spec => []LibraryDark
<1>1. IInv => LibraryDark
  BY DEF IInv, ShownInv
<1> QED
  BY <1>1, Invariant, PTL

(* Values are written under the time they are of, and time marks go up. *)
THEOREM TimesAreRight == Spec => TimesRight
<1>1. IInv /\ [Next]_vars =>
          [ /\ file'.shown # file.shown /\ phase # "final" => file'.mark = time
            /\ file'.mark >= file.mark ]_vars
  BY NextHolds DEF TimeKept
<1> QED
  BY <1>1, Invariant, PTL DEF Spec, TimesRight
================================================================================
