------------------------------ MODULE EventQueue -------------------------------
(* What the scheduler of the simulator promises (iverilog/vvp/schedule.h): the  *)
(* stratified event queue.  Every event belongs to a time and to a region of    *)
(* that time.  The events of the current time run region by region, first in    *)
(* first out, except that an active event may be put in front of all others;    *)
(* once the active events are used up, the next region that may still change    *)
(* something becomes active as a whole.                                         *)
EXTENDS Naturals, Sequences

CONSTANTS
    Event,      \* the events
    Horizon     \* times are 0..Horizon

Region == {"start", "active", "nbassign", "rwsync", "rosync", "del_thr"}

VARIABLES
    time,       \* the current simulation time
    pending     \* the events of each time and region

Init == time = 0 /\ pending = [t \in 0..Horizon |-> [r \in Region |-> <<>>]]

Empty(regions) == \A r \in regions : pending[time][r] = <<>>

(* An event of this time or a later one is put behind the others of its region. *)
Ask ==
    /\ UNCHANGED time
    /\ pending' \in
           LET before == pending
           IN  {[before EXCEPT ![t][r] = Append(@, e)] :
                    t \in time..Horizon, r \in Region, e \in Event}

(* An active event is put in front of the others. *)
AskFirst(e) ==
    /\ pending' = [pending EXCEPT ![time].active = <<e>> \o @]
    /\ UNCHANGED time

(* The first event of region r runs. *)
Take(r) ==
    /\ pending[time][r] # <<>>
    /\ pending' = [pending EXCEPT ![time][r] = Tail(@)]
    /\ UNCHANGED time

(* The first event of region r runs and the others become active. *)
Activate(r) ==
    /\ pending[time][r] # <<>>
    /\ pending' = [pending EXCEPT ![time].active = Tail(pending[time][r]), ![time][r] = <<>>]
    /\ UNCHANGED time

Run ==
    \/ Take("start")
    \/ Empty({"start"}) /\ Take("active")
    \/ Empty({"start", "active"}) /\ Activate("nbassign")
    \/ Empty({"start", "active", "nbassign"}) /\ Activate("rwsync")
    \/ Empty({"start", "active", "nbassign", "rwsync"}) /\ Take("rosync")
    \/ Empty(Region \ {"del_thr"}) /\ Take("del_thr")

(* Time goes on to the next time that has an event, when this one has no more. *)
Advance ==
    /\ Empty(Region)
    /\ \E t \in (time + 1)..Horizon :
          /\ \E r \in Region : pending[t][r] # <<>>
          /\ \A u \in (time + 1)..(t - 1), r \in Region : pending[u][r] = <<>>
          /\ time' = t
    /\ UNCHANGED pending

Next ==
    \/ Advance
    \/ Run
    \/ \E e \in Event : AskFirst(e)
    \/ Ask

Spec == Init /\ [][Next]_<<time, pending>>
================================================================================
