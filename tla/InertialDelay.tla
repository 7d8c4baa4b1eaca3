----------------------------- MODULE InertialDelay ------------------------------
(* The inertial delay of a net: vvp_fun_delay in iverilog/vvp/delay.cc.  A new  *)
(* input value is put on a list as a transition to come, after a delay that     *)
(* depends on the values it goes from and to; transitions that are not due yet  *)
(* when another value arrives are pulses too short to pass and are deleted.     *)
(*                                                                              *)
(* Every transition asks the scheduler for one call of run_run at its time.     *)
(* Those calls are not taken back when the transition is deleted, and inputs    *)
(* of the same time may arrive before or after them.                            *)
EXTENDS Integers, Sequences, SequencesExt, FiniteSetsExt

CONSTANTS
    Kinds,      \* what the net carries: "vec4", "real"
    Delays,     \* the delays that occur
    MaxDelay,   \* bound: the longest of them
    Glitches,   \* whether an input may change again before run_run had its turn
    MaxInputs,  \* bound: values that arrive on any port
    MaxTime     \* bound: the last time at which one arrives

ASSUME DelayAssumption ==
    /\ Kinds \subseteq {"vec4", "real"}
    /\ MaxDelay \in Nat /\ Delays \subseteq 0..MaxDelay /\ 0 \in Delays
    /\ Glitches \in BOOLEAN
    /\ MaxInputs \in Nat /\ MaxTime \in Nat

Horizon == MaxTime + MaxDelay

(* A vector of one bit; of the reals, two that differ. *)
Values(kind) == IF kind = "real" THEN {"0", "1"} ELSE {"0", "1", "x", "z"}

VARIABLES
    kind,       \* type_
    delay,      \* delay_
    initial,    \* initial_
    cur,        \* cur_vec4_, cur_real_: the output
    list,       \* list_, the oldest transition first
    now,        \* simulation time
    wakeups,    \* how often run_run is scheduled, for each time
    inputs,     \* how many values have arrived
    held        \* the input at the beginning of this time, and since: the last one is the present one

netVars == <<initial, cur, list, wakeups>>
vars == <<kind, delay, netVars, now, inputs, held>>

Transition == [value : Values(kind), time : 0..Horizon]

-------------------------------------------------------------------------------
(* vvp_delay_t *)

FixedDelay(rise, fall, decay) ==
    [rise |-> rise, fall |-> fall, decay |-> decay, ignore_decay |-> FALSE,
     variable |-> FALSE, min |-> Min({rise, fall, decay})]

\* A delay with an expression in it starts at zero; its parts come in by ports 1 to 3.
VariableDelay(ignore) ==
    [rise |-> 0, fall |-> 0, decay |-> 0, ignore_decay |-> ignore, variable |-> TRUE, min |-> 0]

CalculateMin(d) ==
    LET least == Min({d.rise, d.fall})
    IN  IF d.ignore_decay THEN [d EXCEPT !.min = least, !.decay = least]
        ELSE [d EXCEPT !.min = Min({least, d.decay})]

WithPart(d, part, t) ==
    LET set == [d EXCEPT ![part] = t]
    IN  IF t >= d.min THEN CalculateMin(set)
        ELSE [set EXCEPT !.min = t, !.decay = IF d.ignore_decay THEN t ELSE @]

DelayTo(v) ==
    CASE v = "0" -> delay.fall
      [] v = "1" -> delay.rise
      [] v = "x" -> delay.min
      [] v = "z" -> delay.decay

GetDelay(from, to) == IF from = to THEN 0 ELSE DelayTo(to)

-------------------------------------------------------------------------------
(* vvp_fun_delay *)

Due == list # <<>> /\ Head(list).time <= now

(* The value the delay is reckoned from: the output, or the transition that is  *)
(* about to be made.                                                            *)
ReferenceCurrent == cur                                                   \* mutant
Reference ==
    IF list # <<>> /\ Head(list).time = now /\ ~initial THEN Head(list).value ELSE cur

UseDelay(v) == IF kind = "real" THEN delay.min ELSE GetDelay(Reference, v)

(* clean_pulse_events_: the transitions before the first that is due are deleted. *)
KeepPulses == list                                                        \* mutant
Cleaned ==
    LET due == {i \in DOMAIN list : list[i].time <= now}
    IN  IF due = {} THEN <<>> ELSE SubSeq(list, Min(due), Len(list))

(* The new value is the one of the first transition on the list. *)
Skipped(v) == list # <<>> /\ Head(list).value = v

(* recv_real: a transition to the value the output has. *)
Same(v) == kind = "real" /\ cur = v

(* The transition is made at once if it has no delay and nothing to wait for. *)
Send(v, d) ==
    /\ d = 0 /\ Cleaned = <<>>
    /\ cur' = v
    /\ list' = <<>>
    /\ initial' = FALSE
    /\ UNCHANGED wakeups

EnqueueWakesEarly(v, d) ==                                                \* mutant
    /\ d > 0 \/ Cleaned # <<>>
    /\ list' = Append(Cleaned, [value |-> v, time |-> now + d])
    /\ wakeups' = [wakeups EXCEPT ![now + delay.min] = @ + 1]
    /\ UNCHANGED <<cur, initial>>

Enqueue(v, d) ==
    /\ d > 0 \/ Cleaned # <<>>
    /\ list' = Append(Cleaned, [value |-> v, time |-> now + d])
    /\ wakeups' = [wakeups EXCEPT ![now + d] = @ + 1]
    /\ UNCHANGED <<cur, initial>>

(* Without Glitches no two values arrive while a transition that is due waits   *)
(* for run_run, and none at all where a single one is taken wrongly already:    *)
(* for reals, and for the first transition of all.                              *)
MayArrive ==
    /\ inputs < MaxInputs /\ now <= MaxTime
    /\ Due /\ ~Glitches => kind = "vec4" /\ ~initial /\ Len(list) = 1

\* The history of the input, for the properties: the value, since when it is
\* there, and the delay to it, by the parts that the delay had at that time.
Input == Last(held)
Shortest == Min({delay.rise, delay.fall, delay.decay})
Needed(v) ==
    CASE kind = "real" \/ v = "x" -> Shortest
      [] kind = "vec4" /\ v = "z" /\ delay.ignore_decay -> Min({delay.rise, delay.fall})
      [] kind = "vec4" /\ v = "z" /\ ~delay.ignore_decay -> delay.decay
      [] kind = "vec4" /\ v = "0" -> delay.fall
      [] kind = "vec4" /\ v = "1" -> delay.rise
Hear(v) ==
    held' = IF held # <<>> /\ Input.value = v THEN held
            ELSE Append(held, [value |-> v, since |-> now, need |-> Needed(v)])

(* recv_vec4, recv_real on port 0 *)
Recv(v) ==
    /\ MayArrive
    /\ \/ Skipped(v) /\ UNCHANGED netVars
       \/ /\ ~Skipped(v) /\ Same(v)
          /\ list' = Cleaned
          /\ UNCHANGED <<initial, cur, wakeups>>
       \/ ~Skipped(v) /\ ~Same(v) /\ (Send(v, UseDelay(v)) \/ Enqueue(v, UseDelay(v)))
    /\ Hear(v)
    /\ inputs' = inputs + 1
    /\ UNCHANGED <<kind, delay, now>>

(* recv_vec4, recv_real on ports 1 to 3 *)
RecvDelay(part, t) ==
    /\ inputs < MaxInputs /\ now <= MaxTime
    /\ delay.variable /\ (part = "decay" => ~delay.ignore_decay)
    /\ delay' = WithPart(delay, part, t)
    /\ inputs' = inputs + 1
    /\ UNCHANGED <<kind, netVars, now, held>>

(* run_run *)
RunRun ==
    /\ wakeups[now] > 0
    /\ wakeups' = [wakeups EXCEPT ![now] = @ - 1]
    /\ IF Due
       THEN cur' = Head(list).value /\ list' = Tail(list) /\ initial' = FALSE
       ELSE UNCHANGED <<cur, list, initial>>
    /\ UNCHANGED <<kind, delay, now, inputs, held>>

(* schedule_simulate: time goes on when no call is left for this time. *)
Advance ==
    /\ wakeups[now] = 0 /\ now < Horizon
    /\ now' = now + 1
    /\ held' = IF held = <<>> THEN held ELSE <<Input>>
    /\ UNCHANGED <<kind, delay, netVars, inputs>>

Init ==
    /\ kind \in Kinds
    /\ delay \in {FixedDelay(r, f, d) : r \in Delays, f \in Delays, d \in Delays}
                 \cup {VariableDelay(ignore) : ignore \in BOOLEAN}
    /\ initial = TRUE
    /\ cur = IF kind = "real" THEN "0" ELSE "x"
    /\ list = <<>>
    /\ now = 0
    /\ wakeups = [t \in 0..Horizon |-> 0]
    /\ inputs = 0
    /\ held = <<>>

Next ==
    \/ \E v \in Values(kind) : Recv(v)
    \/ \E part \in {"rise", "fall", "decay"}, t \in Delays : RecvDelay(part, t)
    \/ RunRun
    \/ Advance

Spec == Init /\ [][Next]_vars

-------------------------------------------------------------------------------
(* Types; the list is never longer than a transition that is due and the one    *)
(* that comes after it.                                                         *)
TypeOK ==
    /\ kind \in Kinds
    /\ delay \in [rise : Delays, fall : Delays, decay : Delays, min : Delays,
                  ignore_decay : BOOLEAN, variable : BOOLEAN]
    /\ initial \in BOOLEAN
    /\ cur \in Values(kind)
    /\ list \in Seq(Transition) /\ Len(list) <= 2
    /\ now \in 0..Horizon
    /\ inputs \in 0..MaxInputs
    /\ wakeups \in [0..Horizon -> 0..inputs]
    /\ held \in Seq([value : Values(kind), since : 0..now, need : Delays])

(* What the comment in clean_pulse_events_ promises of the inputs it skips:     *)
(* the most recent transition, or the output when there is none, is the input.  *)
MostRecentIsInput ==
    held # <<>> => Input.value = IF list = <<>> THEN cur ELSE Last(list).value

(* The output settles at the input: nothing waits on the list but what leads to *)
(* it, and each transition, also each of two of the same time, will find a call *)
(* of run_run of its own, whatever calls of deleted transitions come in between. *)
Settles ==
    /\ MostRecentIsInput
    /\ \A i \in DOMAIN list : list[i].time >= now /\ wakeups[list[i].time] >= 1
    /\ \A i, j \in DOMAIN list :
          i # j /\ list[i].time = list[j].time => wakeups[list[i].time] >= 2

(* Pulses do not pass: the output takes a value only when the input has held it *)
(* for the delay to that value, up to this time at least.                       *)
Inertial ==
    [][cur' # cur =>
           \E i \in DOMAIN held' : /\ held'[i].value = cur'
                                   /\ held'[i].since + held'[i].need <= now]_vars
===============================================================================
