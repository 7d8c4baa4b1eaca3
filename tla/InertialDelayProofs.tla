-------------------------- MODULE InertialDelayProofs ---------------------------
(* What is proved of InertialDelay, for all delays and any number of inputs:    *)
(* as long as no two inputs come while a transition that is due waits for its   *)
(* call, the output settles at the input and pulses do not pass.                *)
EXTENDS InertialDelay, TLAPS

--------------------------------------------------------------------------------
(* The parts of the inductive invariant.                                        *)

DelayType == [rise : Delays, fall : Delays, decay : Delays, min : Delays,
              ignore_decay : BOOLEAN, variable : BOOLEAN]

(* The cached minimum is the least of the parts. *)
MinOf(d) ==
    /\ d.min \in {d.rise, d.fall, d.decay}
    /\ d.min =< d.rise /\ d.min =< d.fall /\ d.min =< d.decay
    /\ d.ignore_decay => d.decay = d.min /\ d.min \in {d.rise, d.fall}

(* The input number i was there for its delay by time t. *)
HeldBy(i, v, t) == held[i].value = v /\ held[i].since + held[i].need <= t

(* Each transition is what the input had been for the delay: the last one the   *)
(* present input, one before it an input of this time or of its beginning.      *)
Justified ==
    /\ Len(list) = 2 =>
          list[1].time = now /\ \E i \in DOMAIN held : HeldBy(i, list[1].value, now)
    /\ list # <<>> =>
          /\ held # <<>>
          /\ Input.since + Input.need <= list[Len(list)].time

IInv == TypeOK /\ MinOf(delay) /\ Settles /\ Justified

--------------------------------------------------------------------------------
(* The delay.                                                                   *)

(* Min of two and of three numbers, as calculate_min_delay_ computes them. *)
LEMMA MinOfTwo ==
    ASSUME NEW a \in Nat, NEW b \in Nat
    PROVE  Min({a, b}) = IF b < a THEN b ELSE a
<1>1. \E x \in {a, b} : \A y \in {a, b} : x =< y
  OBVIOUS
<1>2. Min({a, b}) \in {a, b} /\ \A y \in {a, b} : Min({a, b}) =< y
  BY <1>1 DEF Min
<1> QED
  BY <1>2

LEMMA MinOfThree ==
    ASSUME NEW a \in Nat, NEW b \in Nat, NEW c \in Nat
    PROVE  LET m == Min({a, b, c})
           IN  m \in {a, b, c} /\ m =< a /\ m =< b /\ m =< c
<1>1. \E x \in {a, b, c} : \A y \in {a, b, c} : x =< y
  OBVIOUS
<1>2. Min({a, b, c}) \in {a, b, c} /\ \A y \in {a, b, c} : Min({a, b, c}) =< y
  BY <1>1 DEF Min
<1> QED
  BY <1>2

(* What set_rise, set_fall and set_decay leave is a delay with the right minimum. *)
LEMMA PartSet ==
    ASSUME NEW d \in DelayType, MinOf(d), NEW t \in Delays,
           NEW part \in {"rise", "fall", "decay"}, part = "decay" => ~d.ignore_decay
    PROVE  WithPart(d, part, t) \in DelayType /\ MinOf(WithPart(d, part, t))
<1> DEFINE set == [d EXCEPT ![part] = t]
           least == Min({set.rise, set.fall})
<1>1. Delays \subseteq Nat
  BY DelayAssumption
<1>2. /\ d.rise \in Delays /\ d.fall \in Delays /\ d.decay \in Delays /\ d.min \in Delays
      /\ d.ignore_decay \in BOOLEAN
  BY DEF DelayType
<1>3. /\ set \in DelayType /\ set.ignore_decay = d.ignore_decay
      /\ set.rise \in Delays /\ set.fall \in Delays /\ set.decay \in Delays
      /\ set.rise = IF part = "rise" THEN t ELSE d.rise
      /\ set.fall = IF part = "fall" THEN t ELSE d.fall
      /\ set.decay = IF part = "decay" THEN t ELSE d.decay
      /\ set.min = d.min
  BY <1>2 DEF DelayType
<1>n. /\ t \in Nat /\ d.rise \in Nat /\ d.fall \in Nat /\ d.decay \in Nat /\ d.min \in Nat
      /\ set.rise \in Nat /\ set.fall \in Nat /\ set.decay \in Nat
  <2> HIDE DEF set
  <2> QED
    BY <1>1, <1>2, <1>3, Zenon
<1>4. least \in Delays /\ least = IF set.fall < set.rise THEN set.fall ELSE set.rise
  <2> HIDE DEF set
  <2>1. least = IF set.fall < set.rise THEN set.fall ELSE set.rise
    BY <1>1, <1>3, MinOfTwo
  <2> QED
    BY <2>1, <1>3
<1>5. CASE t >= d.min
  <2>1. WithPart(d, part, t) = CalculateMin(set)
    BY <1>5 DEF WithPart
  <2> HIDE DEF set
  <2>2. CASE d.ignore_decay
    <3> DEFINE new == [set EXCEPT !.min = least, !.decay = least]
    <3>1. CalculateMin(set) = new
      BY <2>2, <1>3 DEF CalculateMin
    <3> HIDE DEF least
    <3>2. /\ new \in DelayType /\ new.min = least /\ new.decay = least
          /\ new.rise = set.rise /\ new.fall = set.fall
      BY <1>3, <1>4 DEF DelayType
    <3> HIDE DEF new
    <3> QED
      BY <1>n, <1>3, <1>4, <2>1, <3>1, <3>2 DEF MinOf
  <2>3. CASE ~d.ignore_decay
    <3> DEFINE all == Min({least, set.decay})
               new == [set EXCEPT !.min = all]
    <3>1. CalculateMin(set) = new
      BY <2>3, <1>3 DEF CalculateMin
    <3> HIDE DEF least
    <3>2. all = IF set.decay < least THEN set.decay ELSE least
      BY <1>n, <1>3, <1>4, MinOfTwo
    <3> HIDE DEF all
    <3>3. /\ new \in DelayType /\ new.min = all /\ new.decay = set.decay /\ ~new.ignore_decay
          /\ new.rise = set.rise /\ new.fall = set.fall
      BY <1>3, <1>4, <3>2, <2>3 DEF DelayType
    <3> HIDE DEF new
    <3> QED
      BY <1>n, <1>3, <1>4, <2>1, <3>1, <3>2, <3>3 DEF MinOf
  <2> QED
    BY <2>2, <2>3
<1>6. CASE t < d.min
  <2> DEFINE new == [set EXCEPT !.min = t, !.decay = IF d.ignore_decay THEN t ELSE set.decay]
  <2>1. ~(t >= d.min)
    BY <1>n, <1>2, <1>6
  <2>2. WithPart(d, part, t) = new
    BY <2>1 DEF WithPart
  <2> HIDE DEF set
  <2>3. /\ new \in DelayType /\ new.min = t /\ new.ignore_decay = d.ignore_decay
        /\ new.rise = set.rise /\ new.fall = set.fall
        /\ new.decay = IF d.ignore_decay THEN t ELSE set.decay
    BY <1>3 DEF DelayType
  <2> HIDE DEF new
  <2>4. t < d.rise /\ t < d.fall /\ t < d.decay
    BY <1>n, <1>2, <1>6 DEF MinOf
  <2> QED
    BY <1>n, <1>2, <1>3, <2>2, <2>3, <2>4 DEF MinOf
<1>7. t >= d.min \/ t < d.min
  BY <1>n, <1>2
<1> QED
  BY <1>5, <1>6, <1>7

(* The delay that Recv uses is the one the parts call for. *)
LEMMA NeededDelay ==
    ASSUME TypeOK, MinOf(delay), NEW v \in Values(kind)
    PROVE  /\ Needed(v) \in Delays
           /\ Needed(v) = IF kind = "real" THEN delay.min ELSE DelayTo(v)
<1>1. Delays \subseteq Nat /\ kind \in {"vec4", "real"}
  BY DelayAssumption DEF TypeOK
<1>2. /\ delay.rise \in Delays /\ delay.fall \in Delays /\ delay.decay \in Delays
      /\ delay.min \in Delays /\ delay.ignore_decay \in BOOLEAN
  BY DEF TypeOK
<1>3. /\ delay.rise \in Nat /\ delay.fall \in Nat /\ delay.decay \in Nat /\ delay.min \in Nat
  BY <1>1, <1>2, Zenon
<1>4. Shortest = delay.min
  <2>1. LET m == Shortest
        IN  /\ m \in {delay.rise, delay.fall, delay.decay}
            /\ m =< delay.rise /\ m =< delay.fall /\ m =< delay.decay
    BY <1>3, MinOfThree DEF Shortest
  <2> QED
    BY <2>1, <1>3 DEF MinOf
<1>5. delay.ignore_decay => Min({delay.rise, delay.fall}) = delay.decay
  <2>1. Min({delay.rise, delay.fall}) =
            IF delay.fall < delay.rise THEN delay.fall ELSE delay.rise
    BY <1>3, MinOfTwo
  <2> QED
    BY <2>1, <1>3 DEF MinOf
<1>6. CASE kind = "real"
  BY <1>2, <1>4, <1>6 DEF Needed
<1>7. CASE kind = "vec4"
  <2>1. v \in {"0", "1", "x", "z"}
    BY <1>7 DEF Values
  <2>2. CASE v = "x"
    BY <1>2, <1>4, <1>7, <2>2 DEF Needed, DelayTo
  <2>3. CASE v = "z"
    BY <1>2, <1>5, <1>7, <2>3 DEF Needed, DelayTo
  <2>4. CASE v = "0"
    BY <1>2, <1>7, <2>4 DEF Needed, DelayTo
  <2>5. CASE v = "1"
    BY <1>2, <1>7, <2>5 DEF Needed, DelayTo
  <2> QED
    BY <2>1, <2>2, <2>3, <2>4, <2>5
<1> QED
  BY <1>1, <1>6, <1>7

--------------------------------------------------------------------------------
(* The list.                                                                    *)

(* clean_pulse_events_ empties a list of one transition unless that is due. *)
LEMMA CleanedShort ==
    ASSUME TypeOK, Len(list) =< 1
    PROVE  Cleaned = IF Due THEN list ELSE <<>>
<1> DEFINE due == {i \in DOMAIN list : list[i].time =< now}
<1>1. list \in Seq(Transition) /\ Len(list) \in Nat
  BY DEF TypeOK
<1>2. CASE list = <<>>
  <2>1. due = {}
    BY <1>2
  <2> QED
    BY <1>2, <2>1 DEF Cleaned, Due
<1>3. CASE list # <<>>
  <2>0. Len(list) # 0
    BY <1>1, <1>3
  <2>1. Len(list) = 1 /\ DOMAIN list = {1} /\ Head(list) = list[1]
    <3>1. Len(list) = 1
      <4>1. \A n \in Nat : n =< 1 /\ n # 0 => n = 1
        OBVIOUS
      <4> QED
        BY <4>1, <1>1, <2>0, Zenon
    <3>2. DOMAIN list = 1..1 /\ Head(list) = list[1]
      BY <1>1, <3>1
    <3>3. 1..1 = {1}
      OBVIOUS
    <3> QED
      BY <3>1, <3>2, <3>3
  <2>2. CASE Due
    <3>1. due = {1}
      BY <2>1, <2>2 DEF Due
    <3>2. Min({1}) = 1
      BY DEF Min
    <3>3. SubSeq(list, 1, Len(list)) = list
      BY <1>1, <2>1
    <3> QED
      BY <2>2, <3>1, <3>2, <3>3 DEF Cleaned
  <2>3. CASE ~Due
    <3>1. due = {}
      BY <2>1, <2>3, <1>3 DEF Due
    <3> QED
      BY <2>3, <3>1 DEF Cleaned
  <2> QED
    BY <2>2, <2>3
<1> QED
  BY <1>2, <1>3

(* The types that arithmetic needs. *)
LEMMA Numbers ==
    ASSUME TypeOK
    PROVE  /\ Delays \subseteq Nat /\ now \in Nat /\ inputs \in Nat /\ MaxTime \in Nat
           /\ MaxDelay \in Nat /\ Horizon \in Nat
           /\ \A d \in Delays : d \in Nat /\ (now =< MaxTime => now + d \in 0..Horizon)
BY DelayAssumption DEF TypeOK, Horizon

(* A value that arrives is the last of the history, with the delay it needs if  *)
(* it differs from the one before it.                                           *)
LEMMA Heard ==
    ASSUME TypeOK, MinOf(delay), NEW v \in Values(kind), Hear(v)
    PROVE  /\ held' \in Seq([value : Values(kind), since : 0..now, need : Delays])
           /\ held' # <<>> /\ Len(held') \in DOMAIN held' /\ held'[Len(held')].value = v
           /\ \A i \in DOMAIN held : i \in DOMAIN held' /\ held'[i] = held[i]
           /\ IF held # <<>> /\ Input.value = v THEN held' = held
              ELSE held'[Len(held')].since = now /\ held'[Len(held')].need = Needed(v)
<1> DEFINE Heards == [value : Values(kind), since : 0..now, need : Delays]
           new == [value |-> v, since |-> now, need |-> Needed(v)]
<1>1. held \in Seq(Heards) /\ now \in 0..now
  BY Numbers DEF TypeOK
<1>2. CASE held # <<>> /\ Input.value = v
  <2>1. held' = held
    BY <1>2 DEF Hear
  <2>2. Len(held) \in DOMAIN held
    BY <1>1, <1>2
  <2> QED
    BY <1>1, <1>2, <2>1, <2>2 DEF Input, Last
<1>3. CASE ~(held # <<>> /\ Input.value = v)
  <2>1. held' = Append(held, new)
    BY <1>3 DEF Hear
  <2>2. new \in Heards
    BY <1>1, NeededDelay
  <2>3. new.value = v /\ new.since = now /\ new.need = Needed(v)
    OBVIOUS
  <2> HIDE DEF new, Heards
  <2>4. /\ held' \in Seq(Heards) /\ Len(held') = Len(held) + 1 /\ Len(held) \in Nat
        /\ held'[Len(held')] = new /\ DOMAIN held' = 1..Len(held') /\ DOMAIN held = 1..Len(held)
        /\ \A i \in 1..Len(held) : held'[i] = held[i]
    BY <1>1, <2>1, <2>2
  <2>5. held' # <<>> /\ Len(held') \in DOMAIN held' /\ DOMAIN held \subseteq DOMAIN held'
    BY <2>4
  <2> USE DEF Heards
  <2> QED
    BY <1>3, <2>3, <2>4, <2>5
<1> QED
  BY <1>2, <1>3

--------------------------------------------------------------------------------
(* The steps.                                                                   *)

(* What Inertial says of a step *)
Passes == cur' # cur => \E i \in DOMAIN held' : /\ held'[i].value = cur'
                                                /\ held'[i].since + held'[i].need =< now

(* The list when a value arrives, and the delay to a value that is not there yet. *)
LEMMA Arrival ==
    ASSUME IInv, Glitches = FALSE, MayArrive, NEW v \in Values(kind)
    PROVE  /\ Len(list) =< 1 /\ list \in Seq(Transition)
           /\ list # <<>> => Len(list) = 1 /\ Head(list) = list[1] /\ list[1].value = Input.value
           /\ list # <<>> => DOMAIN list = {1} /\ held # <<>>
           /\ Due => list # <<>> /\ list[1].time = now /\ kind = "vec4" /\ ~initial
           /\ Cleaned = IF Due THEN list ELSE <<>>
           /\ kind \in {"vec4", "real"}
           /\ UseDelay(v) \in Delays
           /\ kind = "real" => UseDelay(v) = Needed(v)
           /\ ~Due /\ cur = v /\ kind = "vec4" => UseDelay(v) = 0
           /\ ~Due /\ cur # v => UseDelay(v) = Needed(v)
           /\ Due /\ list[1].value # v => UseDelay(v) = Needed(v)
<1> USE DEF IInv
<1>1. list \in Seq(Transition) /\ Len(list) \in Nat /\ Len(list) =< 2 /\ now \in Nat
  BY Numbers DEF TypeOK
<1>2. list # <<>> => Head(list) = list[1] /\ list[1] \in Transition /\ 1 \in DOMAIN list
  BY <1>1
<1>3. \A i \in DOMAIN list : list[i].time >= now
  BY DEF Settles
<1>4. list # <<>> => list[1].time \in Nat
  BY <1>2, Numbers DEF Transition
<1>5. Due => list # <<>> /\ list[1].time = now
  BY <1>1, <1>2, <1>3, <1>4 DEF Due
<1>6. Due => kind = "vec4" /\ ~initial /\ Len(list) = 1
  BY DEF MayArrive
<1>7. Len(list) =< 1
  <2>1. CASE Len(list) = 2
    <3>0. list # <<>>
      BY <2>1
    <3>1. list[1].time = now
      BY <2>1, Zenon DEF Justified
    <3>2. Due
      <4>1. now =< now
        BY <1>1
      <4> QED
        BY <1>2, <3>0, <3>1, <4>1, Zenon DEF Due
    <3> QED
      BY <1>6, <2>1, <3>2
  <2>2. \A n \in Nat : n =< 2 /\ n # 2 => n =< 1
    OBVIOUS
  <2> QED
    BY <1>1, <2>1, <2>2
<1>8. list # <<>> => Len(list) = 1 /\ DOMAIN list = {1}
  <2> SUFFICES ASSUME list # <<>> PROVE Len(list) = 1 /\ DOMAIN list = {1}
    OBVIOUS
  <2>1. Len(list) # 0
    BY <1>1
  <2>2. \A n \in Nat : n =< 1 /\ n # 0 => n = 1
    OBVIOUS
  <2>3. Len(list) = 1
    BY <1>1, <1>7, <2>1, <2>2, Zenon
  <2>4. DOMAIN list = 1..1 /\ 1..1 = {1}
    BY <1>1, <2>3
  <2> QED
    BY <2>3, <2>4
<1>9. list # <<>> => held # <<>> /\ list[1].value = Input.value
  BY <1>8 DEF Justified, Settles, MostRecentIsInput, Last
<1>10. Cleaned = IF Due THEN list ELSE <<>>
  BY <1>7, CleanedShort
<1>11. kind \in {"vec4", "real"}
  BY DelayAssumption DEF TypeOK
<1>12. ~Due => Reference = cur
  BY <1>1, <1>2, <1>5 DEF Due, Reference
<1>13. Due => Reference = list[1].value
  BY <1>2, <1>5, <1>6 DEF Reference
<1>14. kind = "real" => UseDelay(v) = Needed(v)
  BY NeededDelay DEF UseDelay
<1>15. kind = "vec4" => UseDelay(v) = IF Reference = v THEN 0 ELSE Needed(v)
  BY NeededDelay DEF UseDelay, GetDelay
<1>16. UseDelay(v) \in Delays
  BY <1>11, <1>14, <1>15, NeededDelay, DelayAssumption
<1> QED
  BY <1>1, <1>2, <1>5, <1>6, <1>7, <1>8, <1>9, <1>10, <1>11, <1>12, <1>13, <1>14, <1>15, <1>16

(* Every value that arrives is skipped rightly, or leads to itself by the right time. *)
LEMMA RecvStep ==
    ASSUME IInv, Glitches = FALSE, NEW v \in Values(kind), Recv(v)
    PROVE  IInv' /\ Passes
<1> DEFINE d == UseDelay(v)
           new == [value |-> v, time |-> now + d]
<1>1. /\ TypeOK /\ MinOf(delay) /\ Settles /\ Justified /\ MayArrive /\ Hear(v)
      /\ inputs < MaxInputs /\ now =< MaxTime /\ inputs' = inputs + 1
      /\ UNCHANGED <<kind, delay, now>>
  BY DEF IInv, Recv, MayArrive
<1>2. /\ Len(list) =< 1 /\ list \in Seq(Transition)
      /\ list # <<>> => Len(list) = 1 /\ Head(list) = list[1] /\ list[1].value = Input.value
      /\ list # <<>> => DOMAIN list = {1} /\ held # <<>>
      /\ Due => list # <<>> /\ list[1].time = now /\ kind = "vec4" /\ ~initial
      /\ Cleaned = IF Due THEN list ELSE <<>>
      /\ kind \in {"vec4", "real"}
      /\ d \in Delays
      /\ kind = "real" => d = Needed(v)
      /\ ~Due /\ cur = v /\ kind = "vec4" => d = 0
      /\ ~Due /\ cur # v => d = Needed(v)
      /\ Due /\ list[1].value # v => d = Needed(v)
  BY <1>1, Arrival
<1>3. /\ held' \in Seq([value : Values(kind), since : 0..now, need : Delays])
      /\ held' # <<>> /\ Len(held') \in DOMAIN held' /\ held'[Len(held')].value = v
      /\ \A i \in DOMAIN held : i \in DOMAIN held' /\ held'[i] = held[i]
      /\ IF held # <<>> /\ Input.value = v THEN held' = held
         ELSE held'[Len(held')].since = now /\ held'[Len(held')].need = Needed(v)
  BY <1>1, Heard
<1>4. /\ Delays \subseteq Nat /\ now \in Nat /\ inputs \in Nat /\ d \in Nat /\ now + d \in 0..Horizon
      /\ Horizon \in Nat /\ MaxInputs \in Nat
  BY <1>1, <1>2, Numbers, DelayAssumption
<1>5. /\ wakeups \in [0..Horizon -> 0..inputs] /\ 0..inputs \subseteq 0..(inputs + 1)
      /\ cur \in Values(kind) /\ initial \in BOOLEAN /\ inputs + 1 \in 0..MaxInputs
  BY <1>1, <1>4 DEF TypeOK
<1>6. Input' = held'[Len(held')]
  BY DEF Input, Last
<1>7. held # <<>> /\ Input.value = v /\ ~Skipped(v) => list = <<>> /\ cur = v
  BY <1>1, <1>2 DEF Skipped, Settles, MostRecentIsInput
<1> HIDE DEF d
<1>8. CASE Skipped(v) /\ UNCHANGED netVars
  <2>1. list # <<>> /\ held # <<>> /\ Input.value = v
    BY <1>2, <1>8 DEF Skipped
  <2>2. held' = held /\ UNCHANGED <<list, cur, initial, wakeups>>
    BY <1>3, <1>8, <2>1 DEF netVars
  <2>3. TypeOK'
    BY <1>1, <1>3, <1>5, <2>2 DEF TypeOK, Transition
  <2>4. Settles'
    BY <1>1, <2>2 DEF Settles, MostRecentIsInput, Input
  <2>5. Justified'
    BY <1>1, <2>2 DEF Justified, HeldBy, Input
  <2> QED
    BY <1>1, <2>2, <2>3, <2>4, <2>5 DEF IInv, Passes, MinOf
<1>9. CASE /\ ~Skipped(v) /\ Same(v) /\ list' = Cleaned
           /\ UNCHANGED <<initial, cur, wakeups>>
  <2>1. cur = v /\ kind = "real" /\ list' = <<>>
    BY <1>2, <1>9 DEF Same
  <2>2. TypeOK'
    BY <1>1, <1>3, <1>5, <1>9, <2>1 DEF TypeOK
  <2>3. Settles'
    BY <1>3, <1>6, <1>9, <2>1 DEF Settles, MostRecentIsInput
  <2>4. Justified'
    BY <2>1 DEF Justified
  <2> QED
    BY <1>1, <1>9, <2>2, <2>3, <2>4 DEF IInv, Passes, MinOf
<1>10. CASE ~Skipped(v) /\ ~Same(v) /\ Send(v, d)
  <2>1. /\ d = 0 /\ Cleaned = <<>> /\ list' = <<>> /\ cur' = v /\ initial' = FALSE
        /\ wakeups' = wakeups
    BY <1>10 DEF Send
  <2>2. TypeOK'
    <3>1. cur' \in Values(kind') /\ initial' \in BOOLEAN
      BY <1>1, <2>1
    <3>2. list' \in Seq(Transition') /\ Len(list') =< 2
      BY <2>1
    <3> QED
      BY <1>1, <1>3, <1>5, <2>1, <3>1, <3>2 DEF TypeOK
  <2>3. Settles'
    BY <1>3, <1>6, <2>1 DEF Settles, MostRecentIsInput
  <2>4. Justified'
    BY <2>1 DEF Justified
  <2>5. ASSUME cur' # cur PROVE \E i \in DOMAIN held' : /\ held'[i].value = cur'
                                                      /\ held'[i].since + held'[i].need =< now
    <3>1. ~(held # <<>> /\ Input.value = v)
      BY <1>7, <1>10, <2>1, <2>5
    <3>2. ~Due
      BY <1>2, <2>1
    <3>3. d = Needed(v)
      BY <1>2, <2>1, <2>5, <3>2
    <3>4. held'[Len(held')].since = now /\ held'[Len(held')].need = 0
      BY <1>3, <2>1, <3>1, <3>3
    <3>5. now + 0 =< now
      BY <1>4
    <3> QED
      BY <1>3, <2>1, <3>4, <3>5
  <2> QED
    BY <1>1, <2>2, <2>3, <2>4, <2>5 DEF IInv, Passes, MinOf
<1>11. CASE ~Skipped(v) /\ ~Same(v) /\ Enqueue(v, d)
  <2>1. /\ d > 0 \/ Cleaned # <<>>
        /\ list' = Append(Cleaned, new)
        /\ wakeups' = [wakeups EXCEPT ![now + d] = @ + 1]
        /\ cur' = cur /\ initial' = initial
    BY <1>11 DEF Enqueue
  <2>2. new \in Transition /\ new.value = v /\ new.time = now + d
    BY <1>4 DEF Transition
  <2> HIDE DEF new
  <2>3. /\ wakeups' \in [0..Horizon -> 0..(inputs + 1)]
        /\ \A t \in 0..Horizon : wakeups'[t] >= wakeups[t] /\ wakeups[t] \in Nat
        /\ wakeups'[now + d] = wakeups[now + d] + 1 /\ wakeups'[now + d] >= 1
    BY <1>4, <1>5, <2>1
  <2>4. ~(held # <<>> /\ Input.value = v)
    <3> SUFFICES ASSUME held # <<>>, Input.value = v PROVE FALSE
      OBVIOUS
    <3>1. list = <<>> /\ cur = v
      BY <1>7, <1>11
    <3>2. ~Due /\ Cleaned = <<>> /\ kind = "vec4"
      BY <1>2, <1>11, <3>1 DEF Same
    <3>3. d = 0
      BY <1>2, <3>1, <3>2
    <3> QED
      BY <1>4, <2>1, <3>2, <3>3
  <2>5. held'[Len(held')].since = now /\ held'[Len(held')].need = Needed(v)
    BY <1>3, <2>4
  <2>6. CASE Cleaned = <<>>
    <3>1. Len(list') = 1 /\ list'[1] = new /\ DOMAIN list' = {1} /\ list' \in Seq(Transition)
      BY <2>1, <2>2, <2>6
    <3>2. d = Needed(v) /\ d > 0
      BY <1>2, <1>11, <2>1, <2>6 DEF Same
    <3>3. TypeOK'
      BY <1>1, <1>3, <1>5, <2>1, <2>3, <3>1 DEF TypeOK, Transition
    <3>4. Settles'
      <4>1. MostRecentIsInput'
        <5>1. list' # <<>> /\ Last(list)' = new
          BY <3>1 DEF Last
        <5> QED
          BY <1>3, <1>6, <2>2, <5>1 DEF MostRecentIsInput
      <4>2. list'[1].time >= now' /\ wakeups'[list'[1].time] >= 1
        BY <1>1, <1>4, <2>2, <2>3, <3>1
      <4> QED
        BY <3>1, <4>1, <4>2 DEF Settles
    <3>5. Justified'
      BY <1>3, <1>4, <1>6, <2>2, <2>5, <3>1, <3>2 DEF Justified
    <3> QED
      BY <1>1, <2>1, <3>3, <3>4, <3>5 DEF IInv, Passes, MinOf
  <2>7. CASE Cleaned # <<>>
    <3>1. Due /\ Cleaned = list /\ list # <<>> /\ Len(list) = 1 /\ list[1].time = now
      BY <1>2, <2>7
    <3>2. /\ Len(list') = 2 /\ list'[1] = list[1] /\ list'[2] = new
          /\ DOMAIN list' = {1, 2} /\ list' \in Seq(Transition)
      <4>1. list' = Append(list, new) /\ list \in Seq(Transition)
        BY <1>2, <2>1, <3>1
      <4>2. Len(list') = 2 /\ list'[1] = list[1] /\ list'[2] = new /\ list' \in Seq(Transition)
        BY <2>2, <3>1, <4>1
      <4>3. DOMAIN list' = 1..2 /\ 1..2 = {1, 2}
        BY <4>2
      <4> QED
        BY <4>2, <4>3
    <3>3. d = Needed(v)
      BY <1>2, <1>11, <3>1 DEF Skipped
    <3>4. TypeOK'
      BY <1>1, <1>3, <1>5, <2>1, <2>3, <3>2 DEF TypeOK, Transition
    <3>5. Settles'
      <4>1. MostRecentIsInput'
        <5>1. list' # <<>> /\ Last(list)' = new
          BY <3>2 DEF Last
        <5> QED
          BY <1>3, <1>6, <2>2, <5>1 DEF MostRecentIsInput
      <4>2. wakeups[now] >= 1 /\ now \in 0..Horizon
        BY <1>1, <1>2, <3>1 DEF Settles, TypeOK
      <4>3. wakeups'[now] >= 1 /\ (d = 0 => wakeups'[now] >= 2)
        <5>1. wakeups[now] \in Nat /\ wakeups'[now] \in Nat /\ wakeups'[now] >= wakeups[now]
          BY <1>4, <2>3, <4>2
        <5>2. ASSUME d = 0 PROVE wakeups'[now] = wakeups[now] + 1
          <6>1. now + d = now
            BY <1>4, <5>2
          <6> QED
            BY <2>3, <6>1
        <5> QED
          BY <4>2, <5>1, <5>2
      <4>4. list'[1].time = now /\ list'[2].time = now + d
        BY <2>2, <3>1, <3>2
      <4>5. \A i \in DOMAIN list' : list'[i].time >= now' /\ wakeups'[list'[i].time] >= 1
        <5>1. now' = now /\ now + d >= now /\ now >= now
          BY <1>1, <1>4
        <5>2. DOMAIN list' = 1..2
          BY <3>2
        <5>3. wakeups'[now + d] >= 1
          BY <1>1, <1>4, <2>3, <4>3
        <5>4. \A i \in 1..2 : i = 1 \/ i = 2
          OBVIOUS
        <5> QED
          BY <4>3, <4>4, <5>1, <5>2, <5>3, <5>4, Zenon
      <4>6. now = now + d => d = 0
        BY <1>4
      <4>7. \A i, j \in DOMAIN list' :
                i # j /\ list'[i].time = list'[j].time => wakeups'[list'[i].time] >= 2
        BY <3>2, <4>3, <4>4, <4>6
      <4> QED
        BY <4>1, <4>5, <4>7 DEF Settles
    <3>6. Justified'
      <4>1. held # <<>> /\ Len(held) \in DOMAIN held /\ Input = held[Len(held)]
        <5>1. held # <<>> /\ held \in Seq([value : Values(kind), since : 0..now, need : Delays])
          BY <1>1, <1>2, <3>1 DEF TypeOK
        <5> QED
          BY <5>1 DEF Input, Last
      <4>2. HeldBy(Len(held), list[1].value, now)
        BY <1>1, <1>2, <3>1, <4>1 DEF Justified, HeldBy
      <4>3. /\ held'[Len(held)].value = list[1].value
            /\ held'[Len(held)].since + held'[Len(held)].need =< now
            /\ Len(held) \in DOMAIN held'
        BY <1>3, <4>1, <4>2 DEF HeldBy
      <4>4. list'[1].time = now' /\ \E i \in DOMAIN held' : HeldBy(i, list[1].value, now)'
        BY <1>1, <3>1, <3>2, <4>3 DEF HeldBy
      <4>5. held'[Len(held')].since + held'[Len(held')].need =< list'[2].time
        BY <1>4, <2>2, <2>5, <3>2, <3>3
      <4> QED
        BY <1>1, <1>3, <1>6, <3>2, <4>3, <4>4, <4>5 DEF Justified, HeldBy
    <3> QED
      BY <1>1, <2>1, <3>4, <3>5, <3>6 DEF IInv, Passes, MinOf
  <2> QED
    BY <2>6, <2>7
<1> USE DEF d
<1> QED
  BY <1>8, <1>9, <1>10, <1>11 DEF Recv

(* A delay that comes in changes nothing but the delay, whose minimum stays right. *)
LEMMA RecvDelayStep ==
    ASSUME IInv, NEW part \in {"rise", "fall", "decay"}, NEW t \in Delays, RecvDelay(part, t)
    PROVE  IInv' /\ Passes
<1>1. /\ TypeOK /\ MinOf(delay) /\ Settles /\ Justified /\ inputs < MaxInputs
      /\ delay' = WithPart(delay, part, t) /\ inputs' = inputs + 1
      /\ UNCHANGED <<kind, netVars, now, held>> /\ (part = "decay" => ~delay.ignore_decay)
  BY DEF IInv, RecvDelay
<1>2. UNCHANGED <<kind, initial, cur, list, wakeups, now, held>>
  BY <1>1 DEF netVars
<1>3. delay \in DelayType
  BY <1>1 DEF TypeOK, DelayType
<1>4. delay' \in DelayType /\ MinOf(delay')
  BY <1>1, <1>3, PartSet
<1>5. inputs + 1 \in 0..MaxInputs /\ 0..inputs \subseteq 0..(inputs + 1)
  BY <1>1, Numbers, DelayAssumption DEF TypeOK
<1>6. TypeOK'
  BY <1>1, <1>2, <1>4, <1>5 DEF TypeOK, DelayType, Transition
<1>7. Settles'
  BY <1>1, <1>2 DEF Settles, MostRecentIsInput, Input
<1>8. Justified'
  BY <1>1, <1>2 DEF Justified, HeldBy, Input
<1> QED
  BY <1>2, <1>4, <1>6, <1>7, <1>8 DEF IInv, Passes, MinOf

(* A call of run_run makes the transition that is due, if there is one; a call  *)
(* that finds none is not one that a transition on the list waits for.          *)
LEMMA RunRunStep ==
    ASSUME IInv, RunRun
    PROVE  IInv' /\ Passes
<1>1. /\ TypeOK /\ MinOf(delay) /\ Settles /\ Justified
      /\ wakeups[now] > 0 /\ wakeups' = [wakeups EXCEPT ![now] = @ - 1]
      /\ UNCHANGED <<kind, delay, now, inputs, held>>
  BY DEF IInv, RunRun
<1>2. /\ list \in Seq(Transition) /\ Len(list) \in 0..2 /\ now \in Nat /\ inputs \in Nat
      /\ wakeups \in [0..Horizon -> 0..inputs] /\ now \in 0..Horizon
      /\ cur \in Values(kind) /\ initial \in BOOLEAN
  <2>1. /\ list \in Seq(Transition) /\ Len(list) =< 2 /\ now \in 0..Horizon
        /\ wakeups \in [0..Horizon -> 0..inputs] /\ cur \in Values(kind) /\ initial \in BOOLEAN
    BY <1>1 DEF TypeOK
  <2>2. Len(list) \in Nat
    BY <2>1
  <2>3. \A n \in Nat : n =< 2 => n \in 0..2
    OBVIOUS
  <2>4. Len(list) \in 0..2
    BY <2>1, <2>2, <2>3, Zenon
  <2> QED
    BY <1>1, <2>1, <2>4, Numbers, Zenon
<1>3. /\ wakeups' \in [0..Horizon -> 0..inputs]
      /\ wakeups'[now] = wakeups[now] - 1 /\ wakeups[now] \in Nat
      /\ \A t \in 0..Horizon : t # now => wakeups'[t] = wakeups[t]
  BY <1>1, <1>2
<1>4. \A i \in DOMAIN list : /\ list[i] \in Transition /\ list[i].time \in 0..Horizon
                             /\ list[i].time >= now /\ list[i].value \in Values(kind)
                             /\ wakeups[list[i].time] >= 1
  <2> SUFFICES ASSUME NEW i \in DOMAIN list
               PROVE  /\ list[i] \in Transition /\ list[i].time \in 0..Horizon
                      /\ list[i].time >= now /\ list[i].value \in Values(kind)
                      /\ wakeups[list[i].time] >= 1
    OBVIOUS
  <2>1. list[i] \in Transition
    BY <1>2
  <2>2. list[i].time \in 0..Horizon /\ list[i].value \in Values(kind)
    BY <2>1 DEF Transition
  <2> QED
    BY <1>1, <2>1, <2>2, Zenon DEF Settles
<1>5. DOMAIN list = 1..Len(list) /\ (list # <<>> => Head(list) = list[1] /\ Len(list) # 0)
  BY <1>2
<1>6. CASE ~Due
  <2>1. UNCHANGED <<cur, list, initial>>
    BY <1>6 DEF RunRun
  <2>2. \A i \in DOMAIN list : list[i].time # now
    <3> SUFFICES ASSUME NEW i \in DOMAIN list, list[i].time = now PROVE FALSE
      OBVIOUS
    <3>1. list # <<>> /\ 1 \in DOMAIN list
      BY <1>2, <1>5
    <3>2. list[1].time > now
      BY <1>2, <1>4, <1>5, <1>6, <3>1 DEF Due
    <3>3. Len(list) # 2
      BY <1>1, <1>2, <3>2 DEF Justified
    <3>4. i = 1
      BY <1>2, <1>5, <3>3
    <3> QED
      BY <1>2, <3>2, <3>4
  <2>3. \A i \in DOMAIN list : wakeups'[list[i].time] = wakeups[list[i].time]
    BY <1>3, <1>4, <2>2
  <2>4. TypeOK'
    BY <1>1, <1>3, <2>1 DEF TypeOK, Transition
  <2>5. Settles'
    BY <1>1, <2>1, <2>3 DEF Settles, MostRecentIsInput, Input
  <2>6. Justified'
    BY <1>1, <2>1 DEF Justified, HeldBy, Input
  <2> QED
    BY <1>1, <2>1, <2>4, <2>5, <2>6 DEF IInv, Passes, MinOf
<1>7. CASE Due
  <2>1. /\ cur' = list[1].value /\ list' = Tail(list) /\ initial' = FALSE
        /\ list # <<>> /\ 1 \in DOMAIN list /\ list[1].time = now
    <3>1. list # <<>> /\ 1 \in DOMAIN list
      BY <1>2, <1>5, <1>7 DEF Due
    <3> QED
      BY <1>2, <1>4, <1>5, <1>7, <3>1 DEF RunRun, Due
  <2>2. TypeOK'
    <3>1. cur' \in Values(kind') /\ initial' \in BOOLEAN
      BY <1>1, <1>4, <2>1
    <3>2. list' \in Seq(Transition) /\ Len(list') =< 2
      BY <1>2, <2>1
    <3> QED
      BY <1>1, <1>3, <3>1, <3>2 DEF TypeOK, Transition
  <2>3. held # <<>> /\ Len(held) \in DOMAIN held /\ Input = held[Len(held)]
    <3>1. held # <<>> /\ held \in Seq([value : Values(kind), since : 0..now, need : Delays])
      BY <1>1, <2>1 DEF Justified, TypeOK
    <3> QED
      BY <3>1 DEF Input, Last
  <2>4. Input.value = list[Len(list)].value
    BY <1>1, <2>1, <2>3 DEF Settles, MostRecentIsInput, Last
  <2>5. Len(list) = 1 \/ Len(list) = 2
    BY <1>2, <1>5, <2>1
  <2>6. CASE Len(list) = 1
    <3>1. list' = <<>>
      BY <1>2, <2>1, <2>6
    <3>2. Settles'
      BY <1>1, <2>1, <2>4, <2>6, <3>1 DEF Settles, MostRecentIsInput, Input
    <3>3. Justified'
      BY <3>1 DEF Justified
    <3>4. HeldBy(Len(held), list[1].value, now)
      BY <1>1, <2>1, <2>3, <2>4, <2>6 DEF Justified, HeldBy
    <3>5. Passes
      BY <1>1, <2>1, <2>3, <3>4 DEF Passes, HeldBy
    <3> QED
      BY <1>1, <2>2, <3>2, <3>3, <3>5 DEF IInv, MinOf
  <2>7. CASE Len(list) = 2
    <3>1. /\ Len(list') = 1 /\ list'[1] = list[2] /\ 2 \in DOMAIN list
      BY <1>2, <1>5, <2>1, <2>7
    <3>2. DOMAIN list' = {1} /\ list' # <<>>
      <4>1. list' \in Seq(Transition) /\ 1..1 = {1}
        BY <1>2, <2>1
      <4>2. DOMAIN list' = 1..Len(list') /\ (list' = <<>> => Len(list') = 0)
        BY <4>1
      <4> QED
        BY <3>1, <4>1, <4>2
    <3>3. wakeups'[list[2].time] >= 1
      <4>1. CASE list[2].time = now
        <5>1. wakeups[now] >= 2
          BY <1>1, <2>1, <3>1, <4>1 DEF Settles
        <5> QED
          BY <1>3, <4>1, <5>1
      <4>2. CASE list[2].time # now
        BY <1>3, <1>4, <3>1, <4>2
      <4> QED
        BY <4>1, <4>2
    <3>4. Settles'
      <4>1. MostRecentIsInput'
        BY <1>1, <2>4, <2>7, <3>1, <3>2 DEF MostRecentIsInput, Last, Input
      <4> QED
        BY <1>1, <1>4, <3>1, <3>2, <3>3, <4>1 DEF Settles
    <3>5. Justified'
      <4>1. held # <<>> /\ Input.since + Input.need =< list[Len(list)].time
        BY <1>1, <2>1 DEF Justified
      <4>2. list'[Len(list')] = list[Len(list)] /\ held' = held /\ Input' = Input
        BY <1>1, <2>7, <3>1 DEF Input
      <4>3. held' # <<>> /\ Input'.since + Input'.need =< list'[Len(list')].time
        BY <4>1, <4>2
      <4>4. Len(list') # 2
        BY <3>1
      <4> QED
        BY <4>3, <4>4 DEF Justified
    <3>6. Passes
      BY <1>1, <2>1, <2>7 DEF Justified, Passes, HeldBy
    <3> QED
      BY <1>1, <2>2, <3>4, <3>5, <3>6 DEF IInv, MinOf
  <2> QED
    BY <2>5, <2>6, <2>7
<1> QED
  BY <1>6, <1>7

(* When no call is left for this time, no transition is left for it either. *)
LEMMA AdvanceStep ==
    ASSUME IInv, Advance
    PROVE  IInv' /\ Passes
<1> DEFINE Heards(t) == [value : Values(kind), since : 0..t, need : Delays]
<1>1. /\ TypeOK /\ MinOf(delay) /\ Settles /\ Justified
      /\ wakeups[now] = 0 /\ now < Horizon /\ now' = now + 1
      /\ held' = IF held = <<>> THEN held ELSE <<Input>>
      /\ UNCHANGED <<kind, delay, initial, cur, list, wakeups, inputs>>
  BY DEF IInv, Advance, netVars
<1>2. /\ list \in Seq(Transition) /\ Len(list) \in Nat /\ now \in Nat /\ Horizon \in Nat
      /\ held \in Seq(Heards(now)) /\ now + 1 \in 0..Horizon /\ 0..now \subseteq 0..(now + 1)
  BY <1>1, Numbers DEF TypeOK
<1>3. \A i \in DOMAIN list : list[i].time >= now + 1
  <2> SUFFICES ASSUME NEW i \in DOMAIN list PROVE list[i].time >= now + 1
    OBVIOUS
  <2>1. list[i].time \in Nat /\ list[i].time >= now /\ wakeups[list[i].time] >= 1
    <3>1. list[i] \in Transition
      BY <1>2
    <3>2. list[i].time \in Nat
      BY <1>2, <3>1 DEF Transition
    <3> QED
      BY <1>1, <3>2, Zenon DEF Settles
  <2>2. list[i].time # now
    BY <1>1, <2>1
  <2> QED
    BY <1>2, <2>1, <2>2
<1>4. Len(list) # 2
  <2> SUFFICES ASSUME Len(list) = 2 PROVE FALSE
    OBVIOUS
  <2>1. 1 \in DOMAIN list
    BY <1>2
  <2> QED
    BY <1>1, <1>2, <1>3, <2>1 DEF Justified
<1>5. held # <<>> => Input \in Heards(now) /\ held' = <<Input>> /\ Input' = Input /\ held' # <<>>
  <2> SUFFICES ASSUME held # <<>>
               PROVE Input \in Heards(now) /\ held' = <<Input>> /\ Input' = Input /\ held' # <<>>
    OBVIOUS
  <2>1. Input \in Heards(now)
    <3>1. Len(held) \in DOMAIN held
      BY <1>2
    <3> HIDE DEF Heards
    <3> QED
      BY <1>2, <3>1 DEF Input, Last
  <2>2. held' = <<Input>>
    BY <1>1
  <2>3. held' # <<>> /\ Last(held)' = Input
    BY <2>2 DEF Last
  <2> QED
    BY <2>1, <2>2, <2>3 DEF Input
<1>6. held' \in Seq(Heards(now + 1))
  <2>1. Heards(now) \subseteq Heards(now + 1)
    BY <1>2
  <2> HIDE DEF Heards
  <2>2. CASE held = <<>>
    BY <1>1, <2>2
  <2>3. CASE held # <<>>
    <3>1. Input \in Heards(now + 1) /\ held' = <<Input>>
      BY <1>5, <2>1, <2>3
    <3> QED
      BY <3>1
  <2> QED
    BY <2>2, <2>3
<1>7. TypeOK'
  BY <1>1, <1>2, <1>6 DEF TypeOK, Transition
<1>8. Settles'
  <2>1. MostRecentIsInput'
    <3>1. held' # <<>> => held # <<>>
      BY <1>1
    <3> QED
      BY <1>1, <1>5, <3>1 DEF Settles, MostRecentIsInput
  <2> QED
    BY <1>1, <1>3, <2>1 DEF Settles
<1>9. Justified'
  BY <1>1, <1>4, <1>5 DEF Justified
<1> QED
  BY <1>1, <1>7, <1>8, <1>9 DEF IInv, Passes, MinOf

(* At first the list is empty, and the minimum of each delay is right. *)
LEMMA InitHolds ==
    ASSUME Init
    PROVE  IInv
<1>1. delay \in DelayType /\ MinOf(delay)
  <2>1. CASE \E r, f, d \in Delays : delay = FixedDelay(r, f, d)
    <3>1. PICK r \in Delays, f \in Delays, d \in Delays : delay = FixedDelay(r, f, d)
      BY <2>1
    <3>2. r \in Nat /\ f \in Nat /\ d \in Nat
      BY DelayAssumption
    <3> DEFINE m == Min({r, f, d})
    <3>3. m \in {r, f, d} /\ m =< r /\ m =< f /\ m =< d
      BY <3>2, MinOfThree
    <3>4. delay = [rise |-> r, fall |-> f, decay |-> d, ignore_decay |-> FALSE,
                   variable |-> FALSE, min |-> m]
      BY <3>1 DEF FixedDelay
    <3> HIDE DEF m
    <3>5. m \in Delays
      BY <3>3
    <3> QED
      BY <3>3, <3>4, <3>5 DEF DelayType, MinOf
  <2>2. CASE \E ignore \in BOOLEAN : delay = VariableDelay(ignore)
    <3>1. PICK ignore \in BOOLEAN : delay = VariableDelay(ignore)
      BY <2>2
    <3>2. 0 \in Delays
      BY DelayAssumption
    <3> QED
      BY <3>1, <3>2 DEF VariableDelay, DelayType, MinOf
  <2> QED
    BY <2>1, <2>2 DEF Init
<1>2. TypeOK
  <2>1. 0 \in 0..Horizon /\ 0 \in 0..MaxInputs /\ [t \in 0..Horizon |-> 0] \in [0..Horizon -> 0..0]
    BY DelayAssumption DEF Horizon
  <2>2. list \in Seq(Transition) /\ Len(list) =< 2
    BY DEF Init
  <2>3. held \in Seq([value : Values(kind), since : 0..now, need : Delays])
    BY DEF Init
  <2>4. cur \in Values(kind)
    BY DEF Init, Values
  <2> QED
    BY <1>1, <2>1, <2>2, <2>3, <2>4 DEF Init, TypeOK, DelayType
<1>3. Settles /\ Justified
  BY DEF Init, Settles, MostRecentIsInput, Justified
<1> QED
  BY <1>1, <1>2, <1>3 DEF IInv

(* Every step keeps the invariant, and passes no pulse that is too short. *)
LEMMA NextHolds ==
    ASSUME Glitches = FALSE, IInv, [Next]_vars
    PROVE  IInv' /\ Passes
<1>1. CASE \E v \in Values(kind) : Recv(v)
  BY <1>1, RecvStep
<1>2. CASE \E part \in {"rise", "fall", "decay"}, t \in Delays : RecvDelay(part, t)
  BY <1>2, RecvDelayStep
<1>3. CASE RunRun
  BY <1>3, RunRunStep
<1>4. CASE Advance
  BY <1>4, AdvanceStep
<1>5. CASE UNCHANGED vars
  <2>1. UNCHANGED <<kind, delay, initial, cur, list, now, wakeups, inputs, held>>
    BY <1>5 DEF vars, netVars
  <2>2. TypeOK'
    BY <2>1 DEF IInv, TypeOK, Transition
  <2>3. Settles' /\ Justified'
    BY <2>1 DEF IInv, Settles, MostRecentIsInput, Input, Justified, HeldBy
  <2> QED
    BY <2>1, <2>2, <2>3 DEF IInv, MinOf, Passes
<1> QED
  BY <1>1, <1>2, <1>3, <1>4, <1>5 DEF Next

--------------------------------------------------------------------------------
(* The theorems.                                                                *)

(* What is kept by every step is true of every state: the types, the minimum of *)
(* vvp_delay_t, the list that leads to the input and what justifies it.         *)
THEOREM Invariant ==
    ASSUME Glitches = FALSE
    PROVE  Spec => []IInv
<1>1. Init => IInv
  BY InitHolds
<1>2. IInv /\ [Next]_vars => IInv'
  BY NextHolds
<1> QED
  BY <1>1, <1>2, PTL DEF Spec

(* Types, and at most one transition after one that is due (clean_pulse_events_). *)
THEOREM TypeCorrect ==
    ASSUME Glitches = FALSE
    PROVE  Spec => []TypeOK
<1>1. IInv => TypeOK
  BY DEF IInv
<1> QED
  BY <1>1, Invariant, PTL

(* The list of vvp_fun_delay leads the output to the input, and run_run will be *)
(* called for each transition on it.                                            *)
THEOREM OutputSettles ==
    ASSUME Glitches = FALSE
    PROVE  Spec => []Settles
<1>1. IInv => Settles
  BY DEF IInv
<1> QED
  BY <1>1, Invariant, PTL

(* The output takes no value that the input has not held for the delay to it. *)
THEOREM PulsesDoNotPass ==
    ASSUME Glitches = FALSE
    PROVE  Spec => Inertial
<1>1. IInv /\ [Next]_vars =>
          [cur' # cur =>
              \E i \in DOMAIN held' : /\ held'[i].value = cur'
                                      /\ held'[i].since + held'[i].need <= now]_vars
  BY NextHolds DEF Passes
<1> QED
  BY <1>1, Invariant, PTL DEF Spec, Inertial
===============================================================================
