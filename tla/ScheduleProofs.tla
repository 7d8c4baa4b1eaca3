----------------------------- MODULE ScheduleProofs ----------------------------
(* What is proved of the scheduler (module Schedule), for any number of events  *)
(* and any delays.  The list of time steps is described by the events it holds  *)
(* for each distance from now (EventsAt); the first sections prove what each    *)
(* operation on the list does to that description, the others what the steps of *)
(* the scheduler do with it: the list stays in order, no event is lost, and the *)
(* list implements the stratified event queue.                                  *)
EXTENDS Schedule, SequenceTheorems, Lists

--------------------------------------------------------------------------------
(* The times of the steps.                                                      *)

Step == [delay : 0..MaxDelay, events : [Region -> Seq(Event)]]

(* A step of a list *)
LEMMA Steps ==
    ASSUME NEW list \in Seq(Step)
    PROVE  /\ Len(list) \in Nat /\ DOMAIN list = 1..Len(list) /\ MaxDelay \in Nat
           /\ \A i \in 1..Len(list) :
                 /\ list[i] \in Step
                 /\ list[i].delay \in Nat /\ list[i].delay =< MaxDelay
                 /\ list[i].events \in [Region -> Seq(Event)]
<1>1. Len(list) \in Nat /\ DOMAIN list = 1..Len(list)
  OBVIOUS
<1>2. \A i \in 1..Len(list) : list[i] \in Step
  OBVIOUS
<1>3. \A s \in Step : /\ s.delay \in 0..MaxDelay
                      /\ s.events \in [Region -> Seq(Event)]
  BY DEF Step
<1> QED
  BY <1>1, <1>2, <1>3, ScheduleAssumption

IsTimes(f, list) ==
    f = [i \in 0..Len(list) |-> IF i = 0 THEN 0 ELSE f[i - 1] + list[i].delay]

(* Each step is its delay after the one before it. *)
LEMMA TimesExist ==
    ASSUME NEW list \in Seq(Step)
    PROVE  IsTimes(After(list), list)
<1> DEFINE n == Len(list)
           S == {k \in Nat : k =< n =>
                    \E f : f = [i \in 0..k |-> IF i = 0 THEN 0 ELSE f[i - 1] + list[i].delay]}
<1>1. n \in Nat
  OBVIOUS
<1>2. 0 \in S
  <2> DEFINE f == [i \in 0..0 |-> 0]
  <2>1. f = [i \in 0..0 |-> IF i = 0 THEN 0 ELSE f[i - 1] + list[i].delay]
    OBVIOUS
  <2> HIDE DEF f
  <2> QED
    BY <2>1
<1>3. ASSUME NEW k \in Nat, k \in S PROVE k + 1 \in S
  <2> SUFFICES ASSUME k + 1 =< n
               PROVE  \E f : f = [i \in 0..(k + 1) |-> IF i = 0 THEN 0 ELSE f[i - 1] + list[i].delay]
    OBVIOUS
  <2>1. PICK g : g = [i \in 0..k |-> IF i = 0 THEN 0 ELSE g[i - 1] + list[i].delay]
    BY <1>1, <1>3
  <2> DEFINE f == [i \in 0..(k + 1) |-> IF i = k + 1 THEN g[k] + list[k + 1].delay ELSE g[i]]
  <2>2. \A i \in 0..(k + 1) : f[i] = IF i = 0 THEN 0 ELSE f[i - 1] + list[i].delay
    <3> SUFFICES ASSUME NEW i \in 0..(k + 1)
                 PROVE  f[i] = IF i = 0 THEN 0 ELSE f[i - 1] + list[i].delay
      OBVIOUS
    <3>1. CASE i = k + 1
      BY <3>1
    <3>2. CASE i # k + 1
      <4>1. i \in 0..k /\ f[i] = g[i] /\ (i # 0 => f[i - 1] = g[i - 1])
        BY <3>2
      <4> HIDE DEF f
      <4>2. g[i] = IF i = 0 THEN 0 ELSE g[i - 1] + list[i].delay
        BY <2>1, <4>1
      <4> QED
        BY <4>1, <4>2
    <3> QED
      BY <3>1, <3>2
  <2>3. f = [i \in 0..(k + 1) |-> f[i]]
    OBVIOUS
  <2> HIDE DEF f
  <2>4. f = [i \in 0..(k + 1) |-> IF i = 0 THEN 0 ELSE f[i - 1] + list[i].delay]
    BY <2>2, <2>3
  <2> QED
    BY <2>4
<1>4. \E f : IsTimes(f, list)
  <2>1. n \in S
    <3> HIDE DEF S
    <3> QED
      BY <1>1, <1>2, <1>3, NatInSet
  <2> QED
    BY <1>1, <2>1 DEF IsTimes
<1> QED
  BY <1>4 DEF After, IsTimes

(* Only one function has these values. *)
LEMMA TimesUnique ==
    ASSUME NEW list \in Seq(Step), NEW f, NEW g, IsTimes(f, list), IsTimes(g, list)
    PROVE  f = g
<1> DEFINE S == {k \in Nat : k =< Len(list) => f[k] = g[k]}
<1>1. /\ f = [i \in 0..Len(list) |-> IF i = 0 THEN 0 ELSE f[i - 1] + list[i].delay]
      /\ g = [i \in 0..Len(list) |-> IF i = 0 THEN 0 ELSE g[i - 1] + list[i].delay]
  BY DEF IsTimes
<1> Len(list) \in Nat
  OBVIOUS
<1>2. 0 \in S
  BY <1>1
<1>3. ASSUME NEW k \in Nat, k \in S PROVE k + 1 \in S
  <2> SUFFICES ASSUME k + 1 =< Len(list) PROVE f[k + 1] = g[k + 1]
    OBVIOUS
  <2>1. f[k] = g[k] /\ k + 1 \in 0..Len(list) /\ k + 1 # 0 /\ (k + 1) - 1 = k
    BY <1>1, <1>3
  <2>2. f[k + 1] = f[k] + list[k + 1].delay /\ g[k + 1] = g[k] + list[k + 1].delay
    BY <1>1, <2>1
  <2> QED
    BY <2>1, <2>2
<1>4. Nat \subseteq S
  <2> HIDE DEF S
  <2> QED
    BY <1>2, <1>3, NatInSet
<1>5. \A k \in 0..Len(list) : f[k] = g[k]
  BY <1>1, <1>4
<1>6. f = [i \in 0..Len(list) |-> f[i]] /\ g = [i \in 0..Len(list) |-> g[i]]
  BY <1>1
<1> QED
  BY <1>5, <1>6

(* A function with the time of each step from the one before is After(list). *)
LEMMA TimesAre ==
    ASSUME NEW list \in Seq(Step), NEW f, f = [i \in 0..Len(list) |-> f[i]], f[0] = 0,
           \A i \in 1..Len(list) : f[i] = f[i - 1] + list[i].delay
    PROVE  After(list) = f
<1>1. IsTimes(f, list)
  <2>1. \A i \in 0..Len(list) : f[i] = IF i = 0 THEN 0 ELSE f[i - 1] + list[i].delay
    OBVIOUS
  <2> QED
    BY <2>1 DEF IsTimes
<1> QED
  BY <1>1, TimesExist, TimesUnique, Zenon

(* The times of a list of steps *)
LEMMA Times ==
    ASSUME NEW list \in Seq(Step)
    PROVE  /\ After(list) \in [0..Len(list) -> Nat]
           /\ After(list)[0] = 0
           /\ \A i \in 1..Len(list) : After(list)[i] = After(list)[i - 1] + list[i].delay
<1> DEFINE f == After(list)
           S == {k \in Nat : k =< Len(list) => f[k] \in Nat}
<1>1. f = [i \in 0..Len(list) |-> IF i = 0 THEN 0 ELSE f[i - 1] + list[i].delay]
  BY TimesExist, Zenon DEF IsTimes
<1> HIDE DEF f
<1>2. Len(list) \in Nat /\ \A i \in 1..Len(list) : list[i].delay \in Nat
  BY Steps
<1>3. f[0] = 0 /\ \A i \in 1..Len(list) : f[i] = f[i - 1] + list[i].delay
  BY <1>1, <1>2
<1>4. 0 \in S
  BY <1>3
<1>5. ASSUME NEW k \in Nat, k \in S PROVE k + 1 \in S
  <2> SUFFICES ASSUME k + 1 =< Len(list) PROVE f[k + 1] \in Nat
    OBVIOUS
  <2>1. f[k] \in Nat /\ k + 1 \in 1..Len(list) /\ (k + 1) - 1 = k
    BY <1>2, <1>5
  <2>2. f[k + 1] = f[k] + list[k + 1].delay /\ list[k + 1].delay \in Nat
    BY <1>2, <1>3, <2>1
  <2> QED
    BY <2>1, <2>2
<1>6. Nat \subseteq S
  <2> HIDE DEF S
  <2> QED
    BY <1>4, <1>5, NatInSet
<1>7. \A k \in 0..Len(list) : f[k] \in Nat
  BY <1>2, <1>6
<1>8. f = [i \in 0..Len(list) |-> f[i]]
  BY <1>1
<1> QED
  BY <1>3, <1>7, <1>8 DEF f

(* Only the first step may have no delay left. *)
Apart(list) == \A i \in 1..Len(list) : i > 1 => list[i].delay > 0

(* Then they stand in the order of their times. *)
LEMMA TimesGrow ==
    ASSUME NEW list \in Seq(Step), Apart(list)
    PROVE  \A i, j \in 1..Len(list) : i < j => After(list)[i] < After(list)[j]
<1> DEFINE f == After(list)
<1> SUFFICES ASSUME NEW i \in 1..Len(list)
             PROVE  \A j \in 1..Len(list) : i < j => f[i] < f[j]
  OBVIOUS
<1> DEFINE S == {k \in Nat : i + k + 1 =< Len(list) => f[i] < f[i + k + 1]}
<1>1. /\ Len(list) \in Nat /\ i \in Nat /\ \A k \in 0..Len(list) : f[k] \in Nat
      /\ \A k \in 1..Len(list) : f[k] = f[k - 1] + list[k].delay /\ list[k].delay \in Nat
  <2>1. f \in [0..Len(list) -> Nat]
    BY Times
  <2>2. \A k \in 1..Len(list) : f[k] = f[k - 1] + list[k].delay /\ list[k].delay \in Nat
    BY Times, Steps
  <2> QED
    BY <2>1, <2>2, Steps
<1> HIDE DEF f
<1>2. ASSUME NEW k \in Nat, i + k + 1 =< Len(list)
      PROVE  f[i + k + 1] > f[i + k] /\ f[i + k] \in Nat /\ f[i + k + 1] \in Nat
  <2>1. /\ i + k + 1 \in 1..Len(list) /\ i + k + 1 > 1 /\ (i + k + 1) - 1 = i + k
        /\ i + k \in 0..Len(list) /\ i + k + 1 \in 0..Len(list)
    BY <1>1, <1>2
  <2>2. list[i + k + 1].delay > 0
    BY <2>1 DEF Apart
  <2> QED
    BY <1>1, <2>1, <2>2
<1>3. 0 \in S
  <2>1. 0 \in Nat /\ i + 0 = i /\ i + 0 + 1 = i + 1
    BY <1>1
  <2>2. i + 1 =< Len(list) => f[i + 1] > f[i] /\ f[i] \in Nat /\ f[i + 1] \in Nat
    BY <1>2, <2>1
  <2> QED
    BY <2>1, <2>2
<1>4. ASSUME NEW k \in Nat, k \in S PROVE k + 1 \in S
  <2> SUFFICES ASSUME i + (k + 1) + 1 =< Len(list) PROVE f[i] < f[i + (k + 1) + 1]
    OBVIOUS
  <2>1. /\ i + (k + 1) = i + k + 1 /\ i + k + 1 =< Len(list) /\ k + 1 \in Nat
        /\ i \in 0..Len(list)
    BY <1>1
  <2>2. f[i] < f[i + k + 1]
    BY <1>4, <2>1
  <2>3. f[i + (k + 1) + 1] > f[i + k + 1] /\ f[i + (k + 1) + 1] \in Nat /\ f[i + k + 1] \in Nat
    BY <1>2, <2>1
  <2>4. f[i] \in Nat
    BY <1>1, <2>1
  <2> QED
    BY <2>2, <2>3, <2>4
<1>5. Nat \subseteq S
  <2> HIDE DEF S
  <2> QED
    BY <1>3, <1>4, NatInSet
<1>6. ASSUME NEW j \in 1..Len(list), i < j PROVE f[i] < f[j]
  <2>1. j - i - 1 \in Nat /\ i + (j - i - 1) + 1 = j
    BY <1>1, <1>6
  <2>2. i + (j - i - 1) + 1 =< Len(list)
    BY <1>1, <2>1
  <2>3. j - i - 1 \in S
    BY <1>5, <2>1
  <2> HIDE DEF f
  <2> QED
    BY <2>1, <2>2, <2>3
<1> QED
  BY <1>6

--------------------------------------------------------------------------------
(* The events of a time.                                                        *)

NoEvents == [r \in Region |-> <<>>]

Standing(list, d) == \E i \in 1..Len(list) : After(list)[i] = d

(* The events that are to run in d units of time *)
EventsAt(list, d) == IF Standing(list, d) THEN list[Index(list, d)].events ELSE NoEvents

(* They are those of the one step of that time. *)
LEMMA StepOfTime ==
    ASSUME NEW list \in Seq(Step), Apart(list), NEW i \in 1..Len(list)
    PROVE  /\ Index(list, After(list)[i]) = i
           /\ EventsAt(list, After(list)[i]) = list[i].events
<1> DEFINE d == After(list)[i]
           k == Index(list, d)
<1>1. k \in 1..Len(list) /\ After(list)[k] = d
  BY DEF Index
<1>2. k = i
  <2> HIDE DEF k
  <2>1. \A j \in 1..Len(list) : j \in Nat /\ After(list)[j] \in Nat
    BY Times
  <2>2. ~(k < i) /\ ~(i < k)
    BY <1>1, <2>1, TimesGrow
  <2> QED
    BY <1>1, <2>1, <2>2
<1>3. Standing(list, d)
  BY DEF Standing
<1> QED
  BY <1>2, <1>3 DEF EventsAt

(* What a new step makes of the list *)
LEMMA LinkShape ==
    ASSUME NEW list \in Seq(Step), NEW step \in Step, NEW n \in 0..Len(list),
           n < Len(list) => step.delay < list[n + 1].delay
    PROVE  LET new == Link(list, step, n)
           IN  /\ new \in Seq(Step) /\ Len(new) = Len(list) + 1
               /\ \A i \in 1..n : new[i] = list[i]
               /\ new[n + 1] = step
               /\ n < Len(list) => /\ new[n + 2].delay = list[n + 1].delay - step.delay
                                  /\ new[n + 2].events = list[n + 1].events
               /\ \A i \in (n + 3)..(Len(list) + 1) : new[i] = list[i - 1]
<1> DEFINE front == SubSeq(list, 1, n)
           second == [list[n + 1] EXCEPT !.delay = @ - step.delay]
           back == [i \in 1..(Len(list) - n) |-> IF i = 1 THEN second ELSE list[n + i]]
           start == front \o <<step>>
           new == start \o back
<1>1. Len(list) \in Nat /\ n \in Nat /\ n =< Len(list)
  OBVIOUS
<1>2. front \in Seq(Step) /\ Len(front) = n /\ \A i \in 1..n : front[i] = list[i]
  OBVIOUS
<1>3. /\ start \in Seq(Step) /\ Len(start) = n + 1 /\ start[n + 1] = step
      /\ \A i \in 1..n : start[i] = list[i]
  <2> HIDE DEF front
  <2>1. <<step>> \in Seq(Step) /\ Len(<<step>>) = 1 /\ <<step>>[1] = step
    OBVIOUS
  <2>2. /\ start \in Seq(Step) /\ Len(start) = Len(front) + Len(<<step>>)
        /\ \A i \in 1..(Len(front) + Len(<<step>>)) :
              start[i] = IF i =< Len(front) THEN front[i] ELSE <<step>>[i - Len(front)]
    BY <1>2, <2>1, ConcatProperties
  <2> QED
    BY <1>1, <1>2, <2>1, <2>2
<1>4. n < Len(list) => /\ second \in Step
                       /\ second.delay = list[n + 1].delay - step.delay
                       /\ second.events = list[n + 1].events
  <2> SUFFICES ASSUME n < Len(list)
               PROVE  /\ second \in Step
                      /\ second.delay = list[n + 1].delay - step.delay
                      /\ second.events = list[n + 1].events
    OBVIOUS
  <2>1. list[n + 1] \in Step
    BY <1>1
  <2>2. /\ list[n + 1].delay \in Nat /\ list[n + 1].delay =< MaxDelay /\ MaxDelay \in Nat
        /\ step.delay \in Nat
    BY <2>1, ScheduleAssumption DEF Step
  <2>3. list[n + 1].delay - step.delay \in 0..MaxDelay
    BY <2>2
  <2> QED
    BY <2>1, <2>3 DEF Step
<1>5. back \in Seq(Step) /\ Len(back) = Len(list) - n
  <2>1. back \in [1..(Len(list) - n) -> Step]
    <3> SUFFICES ASSUME NEW i \in 1..(Len(list) - n)
                 PROVE  (IF i = 1 THEN second ELSE list[n + i]) \in Step
      OBVIOUS
    <3>1. n < Len(list) /\ n + i \in 1..Len(list)
      BY <1>1
    <3> HIDE DEF second
    <3> QED
      BY <1>4, <3>1
  <2>2. Len(list) - n \in Nat
    BY <1>1
  <2> HIDE DEF back
  <2> QED
    BY <2>1, <2>2
<1>6. /\ n < Len(list) => back[1] = second
      /\ \A i \in 2..(Len(list) - n) : back[i] = list[n + i]
  <2> HIDE DEF second
  <2> QED
    BY <1>1
<1>7. /\ new \in Seq(Step) /\ Len(new) = Len(start) + Len(back)
      /\ \A i \in 1..(Len(start) + Len(back)) :
            new[i] = IF i =< Len(start) THEN start[i] ELSE back[i - Len(start)]
  <2> HIDE DEF start, back
  <2> QED
    BY <1>3, <1>5, ConcatProperties
<1> HIDE DEF start, back, second, front
<1>8. Len(new) = Len(list) + 1
  BY <1>1, <1>3, <1>5, <1>7
<1>9. (\A i \in 1..n : new[i] = list[i]) /\ new[n + 1] = step
  BY <1>1, <1>3, <1>5, <1>7
<1>10. n < Len(list) => new[n + 2] = second
  BY <1>1, <1>3, <1>5, <1>6, <1>7
<1>11. \A i \in (n + 3)..(Len(list) + 1) : new[i] = list[i - 1]
  <2> SUFFICES ASSUME NEW i \in (n + 3)..(Len(list) + 1) PROVE new[i] = list[i - 1]
    OBVIOUS
  <2>1. /\ i \in 1..(Len(start) + Len(back)) /\ ~(i =< Len(start)) /\ i - Len(start) = i - (n + 1)
        /\ i - (n + 1) \in 2..(Len(list) - n) /\ n + (i - (n + 1)) = i - 1
    BY <1>1, <1>3, <1>5
  <2> QED
    BY <1>6, <1>7, <2>1
<1>12. new = Link(list, step, n)
  BY Zenon DEF Link, new, start, back, second, front
<1> HIDE DEF new
<1>13. n < Len(list) => /\ new[n + 2].delay = list[n + 1].delay - step.delay
                        /\ new[n + 2].events = list[n + 1].events
  BY <1>4, <1>10
<1> QED
  BY <1>7, <1>8, <1>9, <1>11, <1>12, <1>13

(* A step that is put in before the time of the next one moves none of the others. *)
LEMMA LinkTimes ==
    ASSUME NEW list \in Seq(Step), Apart(list), NEW step \in Step, NEW n \in 0..Len(list),
           n < Len(list) => step.delay < list[n + 1].delay,
           n > 0 => step.delay > 0
    PROVE  LET new == Link(list, step, n)
           IN  /\ new \in Seq(Step) /\ Len(new) = Len(list) + 1 /\ Apart(new)
               /\ new[n + 1] = step
               /\ After(new)[n + 1] = After(list)[n] + step.delay
               /\ \A i \in 1..n :
                     new[i].events = list[i].events /\ After(new)[i] = After(list)[i]
               /\ \A i \in (n + 1)..Len(list) :
                     new[i + 1].events = list[i].events /\ After(new)[i + 1] = After(list)[i]
<1> DEFINE new == Link(list, step, n)
           L == Len(list)
           old == After(list)
           f == [i \in 0..Len(new) |->
                   IF i =< n THEN old[i] ELSE IF i = n + 1 THEN old[n] + step.delay ELSE old[i - 1]]
<1>1. /\ new \in Seq(Step) /\ Len(new) = L + 1
      /\ \A i \in 1..n : new[i] = list[i]
      /\ new[n + 1] = step
      /\ n < L => /\ new[n + 2].delay = list[n + 1].delay - step.delay
                  /\ new[n + 2].events = list[n + 1].events
      /\ \A i \in (n + 3)..(L + 1) : new[i] = list[i - 1]
  BY LinkShape
<1> HIDE DEF new
<1>2. /\ L \in Nat /\ n \in Nat /\ n =< L /\ step.delay \in Nat
      /\ \A i \in 1..L : list[i].delay \in Nat
  <2>1. \A t \in Step : t.delay \in Nat
    BY ScheduleAssumption DEF Step
  <2> QED
    BY <2>1, Steps
<1>3. /\ \A i \in 0..L : old[i] \in Nat
      /\ old[0] = 0
      /\ \A i \in 1..L : old[i] = old[i - 1] + list[i].delay
  BY Times
<1> HIDE DEF L, old
<1>4. f = [i \in 0..Len(new) |-> f[i]]
  OBVIOUS
<1>5. /\ \A i \in 0..n : f[i] = old[i]
      /\ f[n + 1] = old[n] + step.delay
      /\ \A i \in (n + 2)..(L + 1) : f[i] = old[i - 1]
  BY <1>1, <1>2
<1> HIDE DEF f
<1>6. \A i \in 1..Len(new) : f[i] = f[i - 1] + new[i].delay
  <2> SUFFICES ASSUME NEW i \in 1..(L + 1) PROVE f[i] = f[i - 1] + new[i].delay
    BY <1>1
  <2>1. CASE i =< n
    <3>1. i \in 0..n /\ i - 1 \in 0..n /\ i \in 1..n /\ i \in 1..L
      BY <1>2, <2>1
    <3> QED
      BY <1>1, <1>3, <1>5, <3>1
  <2>2. CASE i = n + 1
    <3>1. n \in 0..n /\ i - 1 = n
      BY <1>2, <2>2
    <3> QED
      BY <1>1, <1>5, <2>2, <3>1
  <2>3. CASE i = n + 2
    <3>1. /\ n < L /\ n + 2 \in (n + 2)..(L + 1) /\ (n + 2) - 1 = n + 1 /\ n + 1 \in 1..L
          /\ (n + 1) - 1 = n /\ n \in 0..L
      BY <1>2, <2>3
    <3>2. f[i] = old[n + 1] /\ f[i - 1] = old[n] + step.delay
      BY <1>5, <2>3, <3>1
    <3>3. old[n + 1] = old[n] + list[n + 1].delay /\ list[n + 1].delay \in Nat /\ old[n] \in Nat
      BY <1>2, <1>3, <3>1
    <3>4. new[i].delay = list[n + 1].delay - step.delay
      BY <1>1, <2>3, <3>1
    <3>5. step.delay \in Nat
      BY <1>2
    <3> QED
      BY <3>2, <3>3, <3>4, <3>5
  <2>4. CASE i > n + 2
    <3>1. /\ i \in (n + 2)..(L + 1) /\ i - 1 \in (n + 2)..(L + 1) /\ i \in (n + 3)..(L + 1)
          /\ i - 1 \in 1..L
      BY <1>2, <2>4
    <3>2. f[i] = old[i - 1] /\ f[i - 1] = old[(i - 1) - 1] /\ new[i] = list[i - 1]
      BY <1>1, <1>5, <3>1
    <3> QED
      BY <1>3, <3>1, <3>2
  <2> QED
    BY <1>2, <2>1, <2>2, <2>3, <2>4
<1>7. f[0] = 0
  BY <1>2, <1>3, <1>5
<1>8. After(new) = f
  BY <1>1, <1>4, <1>6, <1>7, TimesAre
<1>9. Apart(new)
  <2> SUFFICES ASSUME NEW i \in 1..(L + 1), i > 1 PROVE new[i].delay > 0
    BY <1>1 DEF Apart
  <2>0. \A j \in 1..L : j > 1 => list[j].delay > 0
    BY DEF Apart, L
  <2>1. CASE i =< n
    BY <1>1, <1>2, <2>0, <2>1
  <2>2. CASE i = n + 1
    BY <1>1, <1>2, <2>2
  <2>3. CASE i = n + 2
    <3>1. n < L /\ n + 1 \in 1..L
      BY <1>2, <2>3
    <3>2. step.delay < list[n + 1].delay
      BY <3>1 DEF L
    <3>3. new[i].delay = list[n + 1].delay - step.delay
      BY <1>1, <2>3, <3>1
    <3> QED
      BY <1>2, <3>1, <3>2, <3>3
  <2>4. CASE i > n + 2
    <3>1. i \in (n + 3)..(L + 1) /\ i - 1 \in 1..L /\ i - 1 > 1
      BY <1>2, <2>4
    <3> QED
      BY <1>1, <2>0, <3>1
  <2> QED
    BY <1>2, <2>1, <2>2, <2>3, <2>4
<1>10. \A i \in 1..n : new[i].events = list[i].events /\ f[i] = old[i]
  BY <1>1, <1>2, <1>5
<1>11. ASSUME NEW i \in (n + 1)..L PROVE new[i + 1].events = list[i].events /\ f[i + 1] = old[i]
  <2>1. /\ i + 1 \in (n + 2)..(L + 1) /\ (i + 1) - 1 = i
        /\ i = n + 1 => n < L /\ i + 1 = n + 2
        /\ i # n + 1 => i + 1 \in (n + 3)..(L + 1)
    BY <1>2
  <2> QED
    BY <1>1, <1>5, <2>1
<1>12. new[n + 1] = step /\ f[n + 1] = old[n] + step.delay
  BY <1>1, <1>5
<1> QED
  BY <1>1, <1>8, <1>9, <1>10, <1>11, <1>12 DEF new, L, old

(* How many steps come before a time, as WithStep counts them *)
LEMMA StepsBefore ==
    ASSUME NEW list \in Seq(Step), Apart(list), NEW delay \in Nat
    PROVE  LET n == Cardinality({i \in 1..Len(list) : After(list)[i] < delay})
           IN  /\ n \in 0..Len(list)
               /\ After(list)[n] =< delay /\ (n > 0 => After(list)[n] < delay)
               /\ n < Len(list) => After(list)[n + 1] >= delay
<1> DEFINE L == Len(list)
           at == After(list)
           B == {i \in 1..L : at[i] < delay}
           T == {k \in 0..L : k = L \/ at[k + 1] >= delay}
<1>1. L \in Nat /\ at[0] = 0 /\ \A i \in 0..L : at[i] \in Nat
  BY Times
<1>2. \A i, j \in 1..L : i < j => at[i] < at[j]
  BY TimesGrow
<1> HIDE DEF L, at
<1>3. PICK n \in T : \A m \in T : n =< m
  <2>1. T \subseteq Nat /\ L \in T
    BY <1>1
  <2> HIDE DEF T
  <2> QED
    BY <2>1, LeastNat
<1>4. n \in 0..L /\ n \in Nat /\ (n < L => at[n + 1] >= delay)
  BY <1>1, <1>3
<1>5. n > 0 => at[n] < delay
  <2> SUFFICES ASSUME n > 0 PROVE at[n] < delay
    OBVIOUS
  <2>1. n - 1 \in 0..L /\ n - 1 # L /\ (n - 1) + 1 = n /\ n \in 0..L
    BY <1>1, <1>4
  <2>2. n - 1 \notin T
    BY <1>3, <1>4
  <2> QED
    BY <1>1, <2>1, <2>2
<1>6. B = 1..n
  <2>1. ASSUME NEW i \in 1..n PROVE i \in B
    <3>1. i \in 1..L /\ n \in 1..L /\ (i = n \/ i < n) /\ n > 0
      BY <1>1, <1>4
    <3>2. at[i] \in Nat /\ at[n] \in Nat /\ (i < n => at[i] < at[n])
      BY <1>1, <1>2, <3>1
    <3> QED
      BY <1>5, <3>1, <3>2
  <2>2. ASSUME NEW i \in B PROVE i \in 1..n
    <3> SUFFICES ASSUME i > n PROVE FALSE
      BY <1>1, <1>4
    <3>1. /\ i \in 1..L /\ n + 1 \in 1..L /\ n < L /\ (i = n + 1 \/ n + 1 < i)
          /\ i \in 0..L /\ n + 1 \in 0..L
      BY <1>1, <1>4
    <3>2. at[i] \in Nat /\ at[n + 1] \in Nat /\ (n + 1 < i => at[n + 1] < at[i]) /\ at[i] < delay
      BY <1>1, <1>2, <3>1
    <3> QED
      BY <1>4, <3>1, <3>2
  <2> HIDE DEF B
  <2> QED
    BY <2>1, <2>2
<1>7. Cardinality(B) = n
  <2>1. Cardinality(1..n) = IF 1 > n THEN 0 ELSE n - 1 + 1
    BY <1>4, FS_Interval
  <2> HIDE DEF B
  <2> QED
    BY <1>4, <1>6, <2>1
<1>8. at[n] =< delay
  <2>1. at[n] \in Nat
    BY <1>1, <1>4
  <2> QED
    BY <1>1, <1>4, <1>5, <2>1
<1>9. \A m : m = n =>
        /\ m \in 0..L
        /\ at[m] =< delay /\ (m > 0 => at[m] < delay)
        /\ m < L => at[m + 1] >= delay
  BY <1>4, <1>5, <1>8
<1> HIDE DEF B
<1> QED
  BY <1>7, <1>9 DEF B, L, at

(* A step of the time of an event is there or made, without moving any events. *)
LEMMA WithStepTimes ==
    ASSUME NEW list \in Seq(Step), Apart(list), NEW delay \in 0..MaxDelay
    PROVE  LET new == WithStep(list, delay)
               k == Index(new, delay)
           IN  /\ new \in Seq(Step) /\ Apart(new)
               /\ k \in 1..Len(new) /\ After(new)[k] = delay
               /\ \A d \in Nat : /\ Standing(new, d) <=> Standing(list, d) \/ d = delay
                                 /\ EventsAt(new, d) = EventsAt(list, d)
<1> DEFINE at == After(list)
           L == Len(list)
           n == Cardinality({i \in 1..L : at[i] < delay})
           step == NewStep(delay - at[n])
           new == WithStep(list, delay)
           k == Index(new, delay)
<1>1. /\ n \in 0..L /\ delay \in Nat /\ delay =< MaxDelay
      /\ at[n] =< delay /\ (n > 0 => at[n] < delay)
      /\ n < L => at[n + 1] >= delay
  <2>1. delay \in Nat /\ delay =< MaxDelay
    BY ScheduleAssumption
  <2> QED
    BY <2>1, StepsBefore
<1>2. /\ L \in Nat /\ \A i \in 0..L : at[i] \in Nat
      /\ \A i \in 1..L : at[i] = at[i - 1] + list[i].delay
  BY Times
<1>3. new = IF n < L /\ at[n + 1] = delay THEN list ELSE Link(list, step, n)
  BY DEF WithStep
<1>4. ASSUME NEW j \in 1..Len(new), new \in Seq(Step), Apart(new), After(new)[j] = delay
      PROVE  k \in 1..Len(new) /\ After(new)[k] = delay /\ Standing(new, delay)
  <2> HIDE DEF new
  <2> QED
    BY <1>4, StepOfTime, Zenon DEF Standing
<1>5. CASE n < L /\ at[n + 1] = delay
  <2>1. n + 1 \in 1..Len(new) /\ new = list /\ After(new)[n + 1] = delay
    BY <1>1, <1>2, <1>3, <1>5
  <2>2. k \in 1..Len(new) /\ After(new)[k] = delay /\ Standing(list, delay)
    BY <1>4, <2>1
  <2> QED
    BY <2>1, <2>2
<1>6. CASE ~(n < L /\ at[n + 1] = delay)
  <2>1. new = Link(list, step, n)
    BY <1>3, <1>6
  <2> HIDE DEF n, new
  <2>2. step \in Step /\ step.delay = delay - at[n] /\ step.events = NoEvents
    <3>1. delay - at[n] \in 0..MaxDelay
      BY <1>1, <1>2, ScheduleAssumption
    <3> QED
      BY <3>1 DEF NewStep, Step, NoEvents
  <2>3. n < L => step.delay < list[n + 1].delay
    <3> SUFFICES ASSUME n < L PROVE step.delay < list[n + 1].delay
      OBVIOUS
    <3>1. /\ n + 1 \in 1..L /\ (n + 1) - 1 = n /\ n + 1 \in 0..L
          /\ at[n + 1] \in Nat /\ at[n] \in Nat
      BY <1>1, <1>2
    <3>2. at[n + 1] = at[n] + list[n + 1].delay
      BY <1>2, <3>1
    <3>3. at[n + 1] > delay
      BY <1>1, <1>6, <3>1
    <3>4. list[n + 1].delay \in Nat
      BY <3>1, Steps
    <3> HIDE DEF at, L, step
    <3> QED
      BY <1>1, <2>2, <3>1, <3>2, <3>3, <3>4
  <2>4. n > 0 => step.delay > 0
    BY <1>1, <1>2, <2>2
  <2> HIDE DEF step
  <2>5. /\ new \in Seq(Step) /\ Len(new) = L + 1 /\ Apart(new)
        /\ new[n + 1] = step
        /\ After(new)[n + 1] = at[n] + step.delay
        /\ \A i \in 1..n : new[i].events = list[i].events /\ After(new)[i] = at[i]
        /\ \A i \in (n + 1)..L :
              new[i + 1].events = list[i].events /\ After(new)[i + 1] = at[i]
    BY <1>1, <2>1, <2>2, <2>3, <2>4, LinkTimes
  <2>6. After(new)[n + 1] = delay /\ n + 1 \in 1..Len(new)
    BY <1>1, <1>2, <2>2, <2>5
  <2>7. k \in 1..Len(new) /\ After(new)[k] = delay /\ Standing(new, delay)
    BY <1>4, <2>5, <2>6
  <2> HIDE DEF k
  <2>8. ~Standing(list, delay)
    <3> SUFFICES ASSUME NEW i \in 1..L, at[i] = delay PROVE FALSE
      BY DEF Standing
    <3>1. \A p, q \in 1..L : p < q => at[p] < at[q]
      BY TimesGrow
    <3>2. at[i] \in Nat /\ i \in Nat
      BY <1>2
    <3>3. CASE i =< n
      <4>1. n \in 1..L /\ n > 0 /\ at[n] \in Nat /\ (i = n \/ i < n)
        BY <1>1, <1>2, <3>2, <3>3
      <4> QED
        BY <1>1, <3>1, <3>2, <4>1
    <3>4. CASE i > n
      <4>1. n + 1 \in 1..L /\ n < L /\ at[n + 1] \in Nat /\ (i = n + 1 \/ n + 1 < i)
        BY <1>1, <1>2, <3>2, <3>4
      <4> QED
        BY <1>1, <1>6, <3>1, <3>2, <4>1
    <3> QED
      BY <1>1, <3>2, <3>3, <3>4
  <2>9. \A i \in 1..L : \E j \in 1..Len(new) :
            new[j].events = list[i].events /\ After(new)[j] = at[i]
    <3> SUFFICES ASSUME NEW i \in 1..L
                 PROVE  \E j \in 1..Len(new) :
                            new[j].events = list[i].events /\ After(new)[j] = at[i]
      OBVIOUS
    <3>1. i \in 1..n \/ i \in (n + 1)..L
      BY <1>1, <1>2
    <3>2. i \in 1..Len(new) /\ i + 1 \in 1..Len(new)
      BY <1>2, <2>5
    <3> QED
      BY <2>5, <3>1, <3>2
  <2>10. \A j \in 1..Len(new) : j = n + 1 \/ \E i \in 1..L : After(new)[j] = at[i]
    <3> SUFFICES ASSUME NEW j \in 1..Len(new), j # n + 1
                 PROVE  \E i \in 1..L : After(new)[j] = at[i]
      OBVIOUS
    <3>1. (j \in 1..n /\ j \in 1..L) \/ (j - 1 \in (n + 1)..L /\ (j - 1) + 1 = j /\ j - 1 \in 1..L)
      BY <1>1, <1>2, <2>5
    <3> QED
      BY <2>5, <3>1
  <2>11. ASSUME NEW d \in Nat
         PROVE  /\ Standing(new, d) <=> Standing(list, d) \/ d = delay
                /\ EventsAt(new, d) = EventsAt(list, d)
    <3>1. CASE Standing(list, d)
      <4>1. PICK i \in 1..L : at[i] = d
        BY <3>1 DEF Standing
      <4>2. PICK j \in 1..Len(new) : new[j].events = list[i].events /\ After(new)[j] = d
        BY <2>9, <4>1
      <4>3. EventsAt(list, d) = list[i].events
        BY <4>1, StepOfTime, Zenon
      <4>4. EventsAt(new, d) = new[j].events
        BY <2>5, <4>2, StepOfTime, Zenon
      <4> QED
        BY <3>1, <4>2, <4>3, <4>4 DEF Standing
    <3>2. CASE ~Standing(list, d) /\ d # delay
      <4>1. ~Standing(new, d)
        BY <2>6, <2>10, <3>2 DEF Standing
      <4> QED
        BY <3>2, <4>1 DEF EventsAt
    <3>3. CASE d = delay
      <4>1. EventsAt(new, After(new)[n + 1]) = new[n + 1].events
        BY <2>5, <2>6, StepOfTime, Zenon
      <4>2. EventsAt(new, d) = NoEvents
        BY <2>2, <2>5, <2>6, <3>3, <4>1
      <4> QED
        BY <2>7, <2>8, <3>3, <4>2 DEF EventsAt
    <3> QED
      BY <3>1, <3>2, <3>3
  <2> QED
    BY <2>5, <2>7, <2>11, Zenon DEF k, new
<1> QED
  BY <1>5, <1>6

(* Two lists have the same events for two times if the steps are the same. *)
LEMMA SameEvents ==
    ASSUME NEW list \in Seq(Step), NEW new \in Seq(Step), Apart(list), Apart(new),
           NEW c, NEW d,
           \A i \in 1..Len(list) : After(list)[i] = c =>
               \E j \in 1..Len(new) : After(new)[j] = d /\ new[j].events = list[i].events,
           \A j \in 1..Len(new) : After(new)[j] = d => Standing(list, c)
    PROVE  /\ Standing(new, d) <=> Standing(list, c)
           /\ EventsAt(new, d) = EventsAt(list, c)
<1>1. CASE Standing(list, c)
  <2>1. PICK i \in 1..Len(list) : After(list)[i] = c
    BY <1>1 DEF Standing
  <2>2. PICK j \in 1..Len(new) : After(new)[j] = d /\ new[j].events = list[i].events
    BY <2>1
  <2>3. EventsAt(list, c) = list[i].events
    BY <2>1, StepOfTime, Zenon
  <2>4. EventsAt(new, d) = new[j].events
    BY <2>2, StepOfTime, Zenon
  <2> QED
    BY <1>1, <2>2, <2>3, <2>4 DEF Standing
<1>2. CASE ~Standing(list, c)
  <2>1. ~Standing(new, d)
    BY <1>2 DEF Standing
  <2> QED
    BY <1>2, <2>1 DEF EventsAt
<1> QED
  BY <1>1, <1>2

(* The events of one step change. *)
LEMMA EventsReplaced ==
    ASSUME NEW list \in Seq(Step), Apart(list), NEW i \in 1..Len(list),
           NEW ev \in [Region -> Seq(Event)]
    PROVE  LET new == [list EXCEPT ![i].events = ev]
           IN  /\ new \in Seq(Step) /\ Apart(new)
               /\ \A d \in Nat : /\ Standing(new, d) <=> Standing(list, d)
                                 /\ EventsAt(new, d) = IF d = After(list)[i] THEN ev
                                                       ELSE EventsAt(list, d)
<1> DEFINE step == [list[i] EXCEPT !.events = ev]
           new == [list EXCEPT ![i] = step]
<1>1. new = [list EXCEPT ![i].events = ev]
  OBVIOUS
<1>2. step \in Step /\ step.delay = list[i].delay /\ step.events = ev
  <2>1. list[i] \in Step
    BY Steps
  <2> QED
    BY <2>1 DEF Step
<1> HIDE DEF step
<1>3. /\ new \in Seq(Step) /\ Len(new) = Len(list) /\ new[i] = step
      /\ \A j \in 1..Len(list) : j # i => new[j] = list[j]
  BY <1>2, Steps
<1> HIDE DEF new
<1>4. \A j \in 1..Len(list) : new[j].delay = list[j].delay
  BY <1>2, <1>3
<1>5. Apart(new)
  BY <1>3, <1>4 DEF Apart
<1>6. After(new) = After(list)
  <2>1. /\ After(list) \in [0..Len(list) -> Nat] /\ After(list)[0] = 0
        /\ \A j \in 1..Len(list) : After(list)[j] = After(list)[j - 1] + list[j].delay
    BY Times
  <2>2. After(list) = [j \in 0..Len(new) |-> After(list)[j]]
    BY <1>3, <2>1
  <2>3. \A j \in 1..Len(new) : After(list)[j] = After(list)[j - 1] + new[j].delay
    BY <1>3, <1>4, <2>1
  <2> QED
    BY <1>3, <2>1, <2>2, <2>3, TimesAre
<1>7. ASSUME NEW d \in Nat
      PROVE  /\ Standing(new, d) <=> Standing(list, d)
             /\ EventsAt(new, d) = IF d = After(list)[i] THEN ev ELSE EventsAt(list, d)
  <2>1. Standing(new, d) <=> Standing(list, d)
    BY <1>3, <1>6 DEF Standing
  <2>2. CASE d = After(list)[i]
    <3>1. EventsAt(new, After(new)[i]) = new[i].events
      BY <1>3, <1>5, StepOfTime, Zenon
    <3> QED
      BY <1>2, <1>3, <1>6, <2>1, <2>2, <3>1
  <2>3. CASE d # After(list)[i]
    <3>1. \A j \in 1..Len(list) : After(list)[j] = d => new[j].events = list[j].events
      BY <1>3, <2>3
    <3>2. \A j \in 1..Len(new) : After(new)[j] = d => Standing(list, d)
      BY <1>3, <1>6 DEF Standing
    <3>3. \A j \in 1..Len(list) : After(list)[j] = d =>
              \E k \in 1..Len(new) : After(new)[k] = d /\ new[k].events = list[j].events
      BY <1>3, <1>6, <3>1
    <3>4. EventsAt(new, d) = EventsAt(list, d)
      <4>1. new \in Seq(Step) /\ Apart(new) /\ Apart(list)
        BY <1>3, <1>5
      <4> QED
        BY <3>2, <3>3, <4>1, SameEvents
    <3> QED
      BY <2>1, <2>3, <3>4
  <2> QED
    BY <2>2, <2>3
<1> QED
  BY <1>1, <1>3, <1>5, <1>7

(* The first step is the one that is due next. *)
LEMMA FirstStep ==
    ASSUME NEW list \in Seq(Step), Apart(list)
    PROVE  /\ list = <<>> => \A d \in Nat : ~Standing(list, d)
           /\ list # <<>> =>
                 /\ 1 \in 1..Len(list) /\ Head(list) = list[1] /\ Head(list) \in Step
                 /\ Head(list).delay \in Nat
                 /\ After(list)[1] = Head(list).delay
                 /\ Standing(list, Head(list).delay)
                 /\ EventsAt(list, Head(list).delay) = Head(list).events
                 /\ \A d \in Nat : d < Head(list).delay => ~Standing(list, d)
           /\ Standing(list, 0) <=> list # <<>> /\ Head(list).delay = 0
<1>1. list = <<>> => \A d \in Nat : ~Standing(list, d)
  BY DEF Standing
<1>2. ASSUME list # <<>>
      PROVE  /\ 1 \in 1..Len(list) /\ Head(list) = list[1] /\ Head(list) \in Step
             /\ Head(list).delay \in Nat
             /\ After(list)[1] = Head(list).delay
             /\ Standing(list, Head(list).delay)
             /\ EventsAt(list, Head(list).delay) = Head(list).events
             /\ \A d \in Nat : d < Head(list).delay => ~Standing(list, d)
  <2>1. 1 \in 1..Len(list) /\ Head(list) = list[1] /\ Head(list) \in Step
    BY <1>2
  <2>2. Head(list).delay \in Nat
    BY <2>1, Steps
  <2>3. After(list)[1] = Head(list).delay
    <3>1. After(list)[0] = 0 /\ After(list)[1] = After(list)[1 - 1] + list[1].delay
      BY <2>1, Times
    <3> QED
      BY <2>1, <2>2, <3>1
  <2>4. Standing(list, Head(list).delay) /\ EventsAt(list, Head(list).delay) = Head(list).events
    <3>1. EventsAt(list, After(list)[1]) = list[1].events
      BY <2>1, StepOfTime, Zenon
    <3> QED
      BY <2>1, <2>3, <3>1 DEF Standing
  <2>5. ASSUME NEW d \in Nat, d < Head(list).delay, NEW i \in 1..Len(list), After(list)[i] = d
        PROVE  FALSE
    <3>1. i = 1 \/ 1 < i
      OBVIOUS
    <3>2. 1 < i => After(list)[1] < After(list)[i]
      BY <2>1, TimesGrow
    <3> QED
      BY <2>2, <2>3, <2>5, <3>1, <3>2
  <2> QED
    BY <2>1, <2>2, <2>3, <2>4, <2>5 DEF Standing
<1>3. Standing(list, 0) <=> list # <<>> /\ Head(list).delay = 0
  <2>1. ASSUME Standing(list, 0), list # <<>> PROVE Head(list).delay = 0
    <3>1. Head(list).delay \in Nat /\ ~(0 < Head(list).delay)
      BY <1>2, <2>1
    <3> QED
      BY <3>1
  <2> QED
    BY <1>1, <1>2, <2>1
<1> QED
  BY <1>1, <1>2, <1>3

(* Time goes on to the first step: all the others come that much closer. *)
LEMMA TimeGoesOn ==
    ASSUME NEW list \in Seq(Step), Apart(list), list # <<>>
    PROVE  LET new == [list EXCEPT ![1].delay = 0]
           IN  /\ new \in Seq(Step) /\ Apart(new)
               /\ \A d \in Nat : /\ Standing(new, d) <=> Standing(list, d + Head(list).delay)
                                 /\ EventsAt(new, d) = EventsAt(list, d + Head(list).delay)
<1> DEFINE step == [list[1] EXCEPT !.delay = 0]
           new == [list EXCEPT ![1] = step]
           D == Head(list).delay
           f == [i \in 0..Len(list) |-> IF i = 0 THEN 0 ELSE After(list)[i] - D]
<1>1. new = [list EXCEPT ![1].delay = 0]
  OBVIOUS
<1>2. /\ 1 \in 1..Len(list) /\ list[1] \in Step /\ D \in Nat /\ After(list)[1] = D
      /\ Len(list) \in Nat
  BY FirstStep, Steps
<1>3. step \in Step /\ step.delay = 0 /\ step.events = list[1].events
  <2>1. 0 \in 0..MaxDelay
    BY ScheduleAssumption
  <2> QED
    BY <1>2, <2>1 DEF Step
<1> HIDE DEF step
<1>4. /\ new \in Seq(Step) /\ Len(new) = Len(list) /\ new[1] = step
      /\ \A j \in 1..Len(list) : j # 1 => new[j] = list[j]
  BY <1>2, <1>3, Steps
<1> HIDE DEF new
<1>5. \A j \in 1..Len(list) : new[j].events = list[j].events
  BY <1>3, <1>4
<1>6. Apart(new)
  BY <1>4 DEF Apart
<1>7. After(new) = f
  <2>1. /\ After(list)[0] = 0
        /\ \A j \in 0..Len(list) : After(list)[j] \in Nat
        /\ \A j \in 1..Len(list) : After(list)[j] = After(list)[j - 1] + list[j].delay
    BY Times
  <2>2. f = [j \in 0..Len(new) |-> f[j]] /\ f[0] = 0
    BY <1>2, <1>4
  <2>3. ASSUME NEW j \in 1..Len(new) PROVE f[j] = f[j - 1] + new[j].delay
    <3>1. CASE j = 1
      <4>1. f[1] = After(list)[1] - D /\ f[1 - 1] = 0
        BY <1>2
      <4> HIDE DEF f, D
      <4> QED
        BY <1>2, <1>3, <1>4, <3>1, <4>1
    <3>2. CASE j # 1
      <4>1. /\ j \in 1..Len(list) /\ j - 1 \in 1..Len(list) /\ j \in 0..Len(list)
            /\ j - 1 \in 0..Len(list)
        BY <1>2, <1>4, <3>2
      <4>2. f[j] = After(list)[j] - D /\ f[j - 1] = After(list)[j - 1] - D
        BY <3>2, <4>1
      <4>3. new[j].delay = list[j].delay /\ list[j].delay \in Nat
        BY <1>4, <3>2, <4>1, Steps
      <4>4. After(list)[j] = After(list)[j - 1] + list[j].delay /\ After(list)[j - 1] \in Nat
        BY <2>1, <4>1
      <4> HIDE DEF f, D
      <4> QED
        BY <1>2, <4>2, <4>3, <4>4
    <3> QED
      BY <3>1, <3>2
  <2> HIDE DEF f
  <2> QED
    BY <1>4, <2>2, <2>3, TimesAre
<1>8. ASSUME NEW d \in Nat
      PROVE  /\ Standing(new, d) <=> Standing(list, d + D)
             /\ EventsAt(new, d) = EventsAt(list, d + D)
  <2>1. \A i \in 1..Len(list) : After(list)[i] \in Nat /\ f[i] = After(list)[i] - D
    <3>1. After(list) \in [0..Len(list) -> Nat]
      BY Times
    <3>2. \A i \in 1..Len(list) : i \in 0..Len(list) /\ i # 0
      OBVIOUS
    <3> QED
      BY <3>1, <3>2
  <2> HIDE DEF f
  <2>2. \A i \in 1..Len(list) : After(list)[i] = d + D <=> After(new)[i] = d
    BY <1>2, <1>7, <2>1
  <2>3. /\ \A i \in 1..Len(list) : After(list)[i] = d + D =>
              \E j \in 1..Len(new) : After(new)[j] = d /\ new[j].events = list[i].events
        /\ \A j \in 1..Len(new) : After(new)[j] = d => Standing(list, d + D)
    BY <1>4, <1>5, <2>2 DEF Standing
  <2> HIDE DEF D
  <2> QED
    BY <1>4, <1>6, <2>3, SameEvents
<1> QED
  BY <1>1, <1>4, <1>6, <1>8

(* The step of the present time is released. *)
LEMMA StepReleased ==
    ASSUME NEW list \in Seq(Step), Apart(list), list # <<>>, Head(list).delay = 0
    PROVE  LET new == Tail(list)
           IN  /\ new \in Seq(Step) /\ Apart(new)
               /\ \A d \in Nat : /\ Standing(new, d) <=> d # 0 /\ Standing(list, d)
                                 /\ d # 0 => EventsAt(new, d) = EventsAt(list, d)
               /\ EventsAt(new, 0) = NoEvents
<1> DEFINE new == Tail(list)
           at == After(list)
           f == [i \in 0..Len(new) |-> at[i + 1]]
<1>1. /\ new \in Seq(Step) /\ Len(new) = Len(list) - 1
      /\ \A i \in 1..Len(new) : new[i] = list[i + 1]
  OBVIOUS
<1>2. /\ 1 \in 1..Len(list) /\ at[1] = 0 /\ Len(list) \in Nat
      /\ \A i \in 0..Len(list) : at[i] \in Nat
      /\ \A i \in 1..Len(list) : at[i] = at[i - 1] + list[i].delay
      /\ \A i \in 1..Len(list) : i > 1 => list[i].delay > 0 /\ at[i] > at[1]
  <2>1. 1 \in 1..Len(list) /\ at[1] = 0
    BY FirstStep
  <2>2. \A i \in 1..Len(list) : i > 1 => list[i].delay > 0 /\ at[i] > at[1]
    BY <2>1, TimesGrow DEF Apart
  <2> QED
    BY <2>1, <2>2, Times, Steps
<1> HIDE DEF new, at
<1>3. \A i \in 1..Len(new) : i + 1 \in 1..Len(list) /\ i + 1 > 1 /\ (i + 1) - 1 = i
  BY <1>1, <1>2
<1>4. Apart(new)
  BY <1>1, <1>2, <1>3 DEF Apart
<1>5. After(new) = f
  <2>1. f = [i \in 0..Len(new) |-> f[i]] /\ f[0] = 0
    BY <1>1, <1>2
  <2>2. ASSUME NEW i \in 1..Len(new) PROVE f[i] = f[i - 1] + new[i].delay
    <3>1. f[i] = at[i + 1] /\ f[i - 1] = at[(i - 1) + 1] /\ (i - 1) + 1 = i
      BY <1>1, <1>2
    <3> HIDE DEF f
    <3>2. at[i + 1] = at[(i + 1) - 1] + list[i + 1].delay
      BY <1>2, <1>3
    <3> QED
      BY <1>1, <1>3, <3>1, <3>2
  <2> HIDE DEF f
  <2> QED
    BY <1>1, <2>1, <2>2, TimesAre
<1>6. \A i \in 1..Len(new) : After(new)[i] = at[i + 1] /\ After(new)[i] # 0
  BY <1>1, <1>2, <1>3, <1>5
<1>7. ~Standing(new, 0) /\ EventsAt(new, 0) = NoEvents
  BY <1>6 DEF Standing, EventsAt
<1>8. ASSUME NEW d \in Nat, d # 0
      PROVE  /\ Standing(new, d) <=> Standing(list, d)
             /\ EventsAt(new, d) = EventsAt(list, d)
  <2>1. ASSUME NEW i \in 1..Len(list), at[i] = d
        PROVE  \E j \in 1..Len(new) : After(new)[j] = d /\ new[j].events = list[i].events
    <3>1. i # 1
      BY <1>2, <1>8, <2>1
    <3>2. i - 1 \in 1..Len(new) /\ (i - 1) + 1 = i
      BY <1>1, <1>2, <3>1
    <3>3. After(new)[i - 1] = d /\ new[i - 1].events = list[i].events
      BY <1>1, <1>6, <2>1, <3>2
    <3> QED
      BY <3>2, <3>3, Zenon
  <2>2. \A j \in 1..Len(new) : After(new)[j] = d => Standing(list, d)
    BY <1>3, <1>6 DEF Standing, at
  <2>3. \A i \in 1..Len(list) : After(list)[i] = d =>
            \E j \in 1..Len(new) : After(new)[j] = d /\ new[j].events = list[i].events
    BY <2>1 DEF at
  <2>4. new \in Seq(Step)
    BY <1>1
  <2> QED
    BY <1>4, <2>2, <2>3, <2>4, SameEvents, Zenon
<1> QED
  BY <1>1, <1>4, <1>7, <1>8, Zenon DEF new

(* How the lists differ when event e is put on one of them *)
HasOneMore(list, new, delay, region, e) ==
    /\ new \in Seq(Step) /\ Apart(new)
    /\ \A d \in Nat : Standing(new, d) <=> Standing(list, d) \/ d = delay
    /\ \E r \in Region :
          /\ r = region \/ (region = "start" /\ r = "active")
          /\ \A d \in Nat :
                EventsAt(new, d) = IF d = delay
                                   THEN [EventsAt(list, d) EXCEPT ![r] = Append(@, e)]
                                   ELSE EventsAt(list, d)

(* An event is put on its list. *)
LEMMA ScheduledEvents ==
    ASSUME NEW list \in Seq(Step), Apart(list), NEW delay \in 0..MaxDelay,
           NEW region \in Region, NEW e \in Event
    PROVE  HasOneMore(list, Scheduled(list, delay, region, e), delay, region, e)
<1> DEFINE steps == WithStep(list, delay)
           k == Index(steps, delay)
           r == ListFor(steps[k], region)
           ev == [steps[k].events EXCEPT ![r] = Append(@, e)]
           new == [steps EXCEPT ![k].events = ev]
<1>1. /\ steps \in Seq(Step) /\ Apart(steps)
      /\ k \in 1..Len(steps) /\ After(steps)[k] = delay
      /\ \A d \in Nat : /\ Standing(steps, d) <=> Standing(list, d) \/ d = delay
                        /\ EventsAt(steps, d) = EventsAt(list, d)
  BY WithStepTimes, Zenon
<1>2. r \in Region /\ (r = region \/ (region = "start" /\ r = "active"))
  BY DEF ListFor, Region
<1> HIDE DEF steps, k, r
<1>3. steps[k] \in Step /\ steps[k].events \in [Region -> Seq(Event)]
  BY <1>1, Steps
<1>4. ev \in [Region -> Seq(Event)]
  BY <1>2, <1>3
<1>5. new = [steps EXCEPT ![k].events[r] = Append(@, e)]
  BY <1>1, <1>2, <1>3
<1>6. new = Scheduled(list, delay, region, e)
  BY <1>5 DEF Scheduled, steps, k, r
<1>7. steps[k].events = EventsAt(list, delay)
  <2>1. EventsAt(steps, After(steps)[k]) = steps[k].events
    BY <1>1, StepOfTime, Zenon
  <2>2. delay \in Nat
    BY ScheduleAssumption
  <2> QED
    BY <1>1, <2>1, <2>2, Zenon
<1> HIDE DEF ev
<1>8. /\ new \in Seq(Step) /\ Apart(new)
      /\ \A d \in Nat : /\ Standing(new, d) <=> Standing(steps, d)
                        /\ EventsAt(new, d) = IF d = After(steps)[k] THEN ev ELSE EventsAt(steps, d)
  BY <1>1, <1>4, EventsReplaced, Zenon
<1> HIDE DEF new
<1>9. \A d \in Nat : EventsAt(new, d) = IF d = delay
                                        THEN [EventsAt(list, d) EXCEPT ![r] = Append(@, e)]
                                        ELSE EventsAt(list, d)
  <2>1. \A d \in Nat : EventsAt(new, d) = IF d = delay THEN ev ELSE EventsAt(list, d)
    BY <1>1, <1>8
  <2>2. ev = [EventsAt(list, delay) EXCEPT ![r] = Append(@, e)]
    BY <1>7 DEF ev
  <2> QED
    BY <2>1, <2>2
<1>10. \A d \in Nat : Standing(new, d) <=> Standing(list, d) \/ d = delay
  BY <1>1, <1>8, Zenon
<1> QED
  BY <1>2, <1>6, <1>8, <1>9, <1>10, Zenon DEF HasOneMore

--------------------------------------------------------------------------------
(* The invariant of the list of time steps and of the phases.                   *)

Now == EventsAt(sched_list, 0)

(* Only the step of the present time may be without events. *)
StepsInv ==
    /\ Apart(sched_list)
    /\ \A d \in Nat : d > 0 /\ Standing(sched_list, d) => EventsAt(sched_list, d) # NoEvents

(* No step is further off than the delays that were asked for reach. *)
BoundInv ==
    /\ Len(asked) =< MaxEvents
    /\ schedule_time =< Len(asked) * MaxDelay
    /\ \A d \in Nat :
          Standing(sched_list, d) => schedule_time + d =< Len(asked) * MaxDelay

(* While a step is being run it is there.  Its start events have run when the   *)
(* others do, and what may change something has run in the read-only region.    *)
PhaseInv ==
    /\ phase \in {"start", "rosync"} \/ (phase = "loop" /\ running # Nothing) =>
          Standing(sched_list, 0)
    /\ phase = "rosync" => \A r \in {"active", "nbassign", "rwsync"} : Now[r] = <<>>
    /\ phase # "start" /\ "startNow" \notin Uses => Now["start"] = <<>>

(* The final events are those asked for as such; when they run, and $finish was *)
(* not called before, it is one of them that calls it.                          *)
FinalInv ==
    /\ \A e \in ToSet(finalList) : e \in 1..Len(asked) /\ asked[e].region = "final"
    /\ phase = "final" /\ running # Nothing =>
          running \in done /\ running \in 1..Len(asked) /\ asked[running].region = "final"
    /\ phase \in {"final", "over"} /\ run_finals /\ ~runnable =>
          \E e \in done : asked[e].region = "final"
    /\ phase = "over" => running = Nothing /\ (~runnable \/ finalList = <<>>)

SInv == TypeOK /\ StepsInv /\ BoundInv /\ PhaseInv /\ FinalInv

--------------------------------------------------------------------------------
(* The invariant of the events.                                                 *)

(* The lists hold the events of W, each once. *)
Holds(ev, W) ==
    /\ \A r \in Region : IsInjective(ev[r])
    /\ \A r, q \in Region : r # q => ToSet(ev[r]) \cap ToSet(ev[q]) = {}
    /\ W = UNION {ToSet(ev[r]) : r \in Region}

Pending(S) == {e \in 1..Len(asked) : e \notin done /\ asked[e].region \in S}

(* The events that have to run at a time *)
Due(t) == {e \in Pending(Region) : asked[e].time = t}

(* Every event that has to run stands on the lists of its time; the others on   *)
(* the lists of initialization and final events.                                *)
PlacesInv ==
    /\ \A d \in Nat : Holds(EventsAt(sched_list, d), Due(schedule_time + d))
    /\ \A e \in Pending(Region) : asked[e].time >= schedule_time
    /\ IsInjective(initList) /\ ToSet(initList) = Pending({"init"})
    /\ IsInjective(finalList) /\ ToSet(finalList) = Pending({"final"})
    /\ done \subseteq 1..Len(asked)
    /\ running \in Event => /\ running \in done
                            /\ asked[running].region \in Region => asked[running].time = schedule_time

--------------------------------------------------------------------------------
(* The steps keep the list of time steps in order.                              *)

Asked == [time : 0..(MaxEvents * MaxDelay), region : Region \cup {"init", "final"}]

(* The lists of a time *)
LEMMA EventsType ==
    ASSUME NEW list \in Seq(Step), Apart(list)
    PROVE  \A d : EventsAt(list, d) \in [Region -> Seq(Event)]
<1> SUFFICES ASSUME NEW d PROVE EventsAt(list, d) \in [Region -> Seq(Event)]
  OBVIOUS
<1>1. NoEvents \in [Region -> Seq(Event)]
  BY DEF NoEvents
<1>2. CASE Standing(list, d)
  <2>1. PICK i \in 1..Len(list) : After(list)[i] = d
    BY <1>2 DEF Standing
  <2>2. EventsAt(list, d) = list[i].events
    BY <2>1, StepOfTime, Zenon
  <2> QED
    BY <2>2, Steps
<1> QED
  BY <1>1, <1>2 DEF EventsAt

(* The invariant in the form in which the steps use it *)
LEMMA Facts ==
    ASSUME SInv
    PROVE  /\ TypeOK /\ StepsInv /\ BoundInv /\ PhaseInv /\ FinalInv
           /\ sched_list \in Seq(Step) /\ Apart(sched_list)
           /\ asked \in Seq(Asked) /\ Len(asked) \in Nat /\ Len(asked) =< MaxEvents
           /\ schedule_time \in Nat /\ MaxDelay \in Nat /\ MaxEvents \in Nat
           /\ \A d : EventsAt(sched_list, d) \in [Region -> Seq(Event)]
<1>1. TypeOK /\ StepsInv /\ BoundInv /\ PhaseInv /\ FinalInv
  BY DEF SInv
<1>2. sched_list \in Seq(Step) /\ asked \in Seq(Asked)
  BY <1>1 DEF TypeOK, Step, Asked
<1>3. schedule_time \in Nat
  <2>1. MaxEvents * MaxDelay \in Nat
    BY ScheduleAssumption
  <2> QED
    BY <1>1, <2>1 DEF TypeOK
<1>4. Apart(sched_list)
  BY <1>1 DEF StepsInv
<1>5. Len(asked) \in Nat /\ Len(asked) =< MaxEvents
  BY <1>1, <1>2 DEF BoundInv
<1> QED
  BY <1>1, <1>2, <1>3, <1>4, <1>5, EventsType, ScheduleAssumption

(* More events reach further. *)
LEMMA Reach ==
    ASSUME NEW m \in Nat, NEW n \in Nat, m =< n
    PROVE  /\ m * MaxDelay \in Nat /\ n * MaxDelay \in Nat
           /\ m * MaxDelay =< n * MaxDelay
           /\ (m + 1) * MaxDelay = m * MaxDelay + MaxDelay
<1>1. MaxDelay \in Nat
  BY ScheduleAssumption
<1>2. m * MaxDelay \in Nat /\ n * MaxDelay \in Nat /\ (n - m) * MaxDelay \in Nat
  BY <1>1
<1>3. n * MaxDelay = m * MaxDelay + (n - m) * MaxDelay
  BY <1>1
<1>4. (m + 1) * MaxDelay = m * MaxDelay + MaxDelay
  BY <1>1
<1> QED
  BY <1>2, <1>3, <1>4

(* What asking for an event notes down *)
LEMMA NotedDown ==
    ASSUME SInv, NEW delay \in 0..MaxDelay, NEW region \in Region \cup {"init", "final"},
           NoteAsked(delay, region)
    PROVE  /\ NewEvent \in Event /\ NewEvent \notin 1..Len(asked)
           /\ asked' \in Seq(Asked) /\ Len(asked') = NewEvent /\ Len(asked') =< MaxEvents
           /\ \A e \in 1..Len(asked) : e \in 1..Len(asked') /\ asked'[e] = asked[e]
           /\ asked'[NewEvent].time = schedule_time + delay
           /\ asked'[NewEvent].region = region
           /\ Len(asked) * MaxDelay \in Nat
           /\ Len(asked') * MaxDelay = Len(asked) * MaxDelay + MaxDelay
<1>1. /\ asked \in Seq(Asked) /\ Len(asked) \in Nat /\ schedule_time \in Nat
      /\ MaxDelay \in Nat /\ MaxEvents \in Nat /\ delay \in Nat /\ delay =< MaxDelay
      /\ schedule_time =< Len(asked) * MaxDelay
  BY Facts DEF BoundInv
<1>2. /\ Len(asked) < MaxEvents
      /\ asked' = Append(asked, [time |-> schedule_time + delay, region |-> region])
  BY DEF NoteAsked
<1>3. /\ Len(asked) * MaxDelay \in Nat
      /\ (Len(asked) + 1) * MaxDelay = Len(asked) * MaxDelay + MaxDelay
      /\ (Len(asked) + 1) * MaxDelay =< MaxEvents * MaxDelay /\ MaxEvents * MaxDelay \in Nat
  <2>1. Len(asked) + 1 \in Nat /\ Len(asked) + 1 =< MaxEvents
    BY <1>1, <1>2
  <2> QED
    BY <1>1, <2>1, Reach
<1>4. [time |-> schedule_time + delay, region |-> region] \in Asked
  <2>1. schedule_time + delay \in 0..(MaxEvents * MaxDelay)
    BY <1>1, <1>3
  <2> QED
    BY <2>1 DEF Asked
<1>5. /\ asked' \in Seq(Asked) /\ Len(asked') = Len(asked) + 1
      /\ \A e \in 1..Len(asked) : asked'[e] = asked[e]
      /\ asked'[Len(asked) + 1] = [time |-> schedule_time + delay, region |-> region]
  <2> DEFINE a == [time |-> schedule_time + delay, region |-> region]
  <2>1. a \in Asked /\ asked' = Append(asked, a)
    BY <1>2, <1>4
  <2> HIDE DEF a
  <2>2. /\ asked' \in Seq(Asked) /\ Len(asked') = Len(asked) + 1
        /\ \A e \in 1..Len(asked) : asked'[e] = asked[e]
        /\ asked'[Len(asked) + 1] = a
    BY <1>1, <2>1
  <2> QED
    BY <2>2 DEF a
<1>6. /\ Len(asked) + 1 \in Event /\ Len(asked) + 1 \notin 1..Len(asked)
      /\ \A e \in 1..Len(asked) : e \in 1..(Len(asked) + 1)
  BY <1>1, <1>2 DEF Event
<1>7. /\ asked'[NewEvent].time = schedule_time + delay
      /\ asked'[NewEvent].region = region
  BY <1>5 DEF NewEvent
<1>8. Len(asked') =< MaxEvents
  BY <1>1, <1>2, <1>5
<1> QED
  BY <1>3, <1>5, <1>6, <1>7, <1>8 DEF NewEvent

(* A new event is put on list r of the step of the given delay, which then has  *)
(* the lists ev.                                                                *)
Put(delay, region, r, ev) ==
    /\ r = region \/ (region = "start" /\ r = "active")
    /\ \/ ev[r] = Append(EventsAt(sched_list, delay)[r], NewEvent)
       \/ ev[r] = <<NewEvent>> \o EventsAt(sched_list, delay)[r] /\ r = "active" /\ delay = 0
    /\ \A q \in Region : q # r => ev[q] = EventsAt(sched_list, delay)[q]
    /\ sched_list' \in Seq(Step) /\ Apart(sched_list')
    /\ \A d \in Nat : Standing(sched_list', d) <=> Standing(sched_list, d) \/ d = delay
    /\ \A d \in Nat : EventsAt(sched_list', d) =
                          IF d = delay THEN ev ELSE EventsAt(sched_list, d)

(* What asking for an event does *)
AskedFor(delay, region) ==
    /\ MayAsk(delay, region) /\ NoteAsked(delay, region)
    /\ UNCHANGED <<initList, finalList, schedule_time, flags, phase, running, done>>
    /\ crashed' \in BOOLEAN
    /\ \E r \in Region, ev \in [Region -> Seq(Event)] : Put(delay, region, r, ev)

(* Ask puts the new event on its list. *)
LEMMA AskLists ==
    ASSUME SInv, NEW delay \in 0..MaxDelay, NEW region \in Region, Ask(delay, region)
    PROVE  AskedFor(delay, region)
<1>1. /\ sched_list \in Seq(Step) /\ Apart(sched_list)
      /\ \A d : EventsAt(sched_list, d) \in [Region -> Seq(Event)]
      /\ delay \in Nat
  BY Facts
<1>2. /\ MayAsk(delay, region) /\ NoteAsked(delay, region)
      /\ sched_list' = Scheduled(sched_list, delay, region, NewEvent)
      /\ UNCHANGED <<initList, finalList, schedule_time, flags, phase, running, done>>
      /\ crashed' \in BOOLEAN
  BY DEF Ask, Crashes
<1>3. NewEvent \in Event
  BY <1>2, NotedDown
<1>4. /\ sched_list' \in Seq(Step) /\ Apart(sched_list')
      /\ \A d \in Nat : Standing(sched_list', d) <=> Standing(sched_list, d) \/ d = delay
      /\ \E r \in Region :
            /\ r = region \/ (region = "start" /\ r = "active")
            /\ \A d \in Nat :
                  EventsAt(sched_list', d) =
                      IF d = delay
                      THEN [EventsAt(sched_list, d) EXCEPT ![r] = Append(@, NewEvent)]
                      ELSE EventsAt(sched_list, d)
  <2> DEFINE new == Scheduled(sched_list, delay, region, NewEvent)
  <2>1. HasOneMore(sched_list, new, delay, region, NewEvent)
    <3>1. sched_list \in Seq(Step) /\ Apart(sched_list)
      BY <1>1
    <3>2. delay \in 0..MaxDelay /\ region \in Region /\ NewEvent \in Event
      BY <1>1, <1>3
    <3> QED
      BY <3>1, <3>2, ScheduledEvents
  <2>2. sched_list' = new
    BY <1>2
  <2> HIDE DEF new
  <2> QED
    BY <2>1, <2>2, Zenon DEF HasOneMore
<1>5. PICK r \in Region :
            /\ r = region \/ (region = "start" /\ r = "active")
            /\ \A d \in Nat :
                  EventsAt(sched_list', d) =
                      IF d = delay
                      THEN [EventsAt(sched_list, d) EXCEPT ![r] = Append(@, NewEvent)]
                      ELSE EventsAt(sched_list, d)
  BY <1>4
<1> DEFINE old == EventsAt(sched_list, delay)
           ev == [old EXCEPT ![r] = Append(@, NewEvent)]
<1>6. old \in [Region -> Seq(Event)]
  BY <1>1
<1>7. \A d \in Nat : EventsAt(sched_list', d) = IF d = delay THEN ev ELSE EventsAt(sched_list, d)
  BY <1>5
<1> HIDE DEF old
<1>8. /\ ev \in [Region -> Seq(Event)] /\ ev[r] = Append(old[r], NewEvent)
      /\ \A q \in Region : q # r => ev[q] = old[q]
  BY <1>3, <1>6
<1> HIDE DEF ev
<1>9. /\ \A q \in Region : q # r => ev[q] = EventsAt(sched_list, delay)[q]
      /\ ev[r] = Append(EventsAt(sched_list, delay)[r], NewEvent)
  BY <1>8 DEF old
<1>10. Put(delay, region, r, ev)
  BY <1>4, <1>5, <1>7, <1>9 DEF Put
<1> QED
  BY <1>2, <1>8, <1>10 DEF AskedFor

(* Push puts it in front of the active events of the current step. *)
LEMMA PushLists ==
    ASSUME SInv, Push
    PROVE  AskedFor(0, "active")
<1>1. /\ sched_list \in Seq(Step) /\ Apart(sched_list)
      /\ \A d : EventsAt(sched_list, d) \in [Region -> Seq(Event)]
      /\ TypeOK /\ 0 \in 0..MaxDelay /\ "active" \in Region
  BY Facts DEF Region
<1>2. /\ MayAsk(0, "active") /\ NoteAsked(0, "active")
      /\ sched_list' = Pushed(sched_list, NewEvent)
      /\ UNCHANGED <<initList, finalList, schedule_time, flags, phase, running, done>>
      /\ crashed' = crashed /\ ~crashed /\ crashed \in BOOLEAN
  BY <1>1 DEF Push, MayAsk, Busy, TypeOK
<1>3. NewEvent \in Event
  BY <1>1, <1>2, NotedDown
<1>4. CASE NoStep
  <2>1. sched_list' = Scheduled(sched_list, 0, "active", NewEvent)
    BY <1>2, <1>4 DEF Pushed
  <2>2. Crashes(sched_list, 0, "active") = FALSE
    BY DEF Crashes, ListFor
  <2>3. Ask(0, "active")
    BY <1>2, <2>1, <2>2 DEF Ask
  <2> QED
    BY <1>1, <2>3, AskLists
<1>5. CASE ~NoStep
  <2>1. sched_list # <<>> /\ Head(sched_list).delay = 0
    <3>1. sched_list # <<>> /\ ~(Head(sched_list).delay > 0)
      BY <1>5 DEF NoStep
    <3>2. Head(sched_list).delay \in Nat
      BY <1>1, <3>1, FirstStep
    <3> QED
      BY <3>1, <3>2
  <2>2. /\ 1 \in 1..Len(sched_list) /\ After(sched_list)[1] = 0 /\ Standing(sched_list, 0)
        /\ EventsAt(sched_list, 0) = sched_list[1].events
        /\ sched_list[1] \in Step
    BY <1>1, <2>1, FirstStep
  <2> DEFINE old == sched_list[1].events
             ev == [old EXCEPT !["active"] = <<NewEvent>> \o @]
             new == [sched_list EXCEPT ![1].events = ev]
  <2>3. sched_list' = new
    <3>1. sched_list' = [sched_list EXCEPT ![1].events["active"] = <<NewEvent>> \o @]
      BY <1>2, <1>5 DEF Pushed
    <3> QED
      BY <3>1, <2>2
  <2>4. old \in [Region -> Seq(Event)]
    BY <1>1, <2>2
  <2> HIDE DEF old
  <2>5. /\ ev \in [Region -> Seq(Event)] /\ ev["active"] = <<NewEvent>> \o old["active"]
        /\ \A q \in Region : q # "active" => ev[q] = old[q]
    BY <1>1, <1>3, <2>4
  <2> HIDE DEF ev
  <2>6. /\ new \in Seq(Step) /\ Apart(new)
        /\ \A d \in Nat : /\ Standing(new, d) <=> Standing(sched_list, d)
                          /\ EventsAt(new, d) = IF d = After(sched_list)[1] THEN ev
                                                ELSE EventsAt(sched_list, d)
    <3>1. ev \in [Region -> Seq(Event)]
      BY <2>5
    <3> QED
      BY <1>1, <2>2, <3>1, EventsReplaced, Zenon
  <2> HIDE DEF new
  <2>7. /\ sched_list' \in Seq(Step) /\ Apart(sched_list')
        /\ \A d \in Nat : Standing(sched_list', d) <=> Standing(sched_list, d) \/ d = 0
        /\ \A d \in Nat : EventsAt(sched_list', d) =
                              IF d = 0 THEN ev ELSE EventsAt(sched_list, d)
    BY <2>2, <2>3, <2>6
  <2>8. /\ \A q \in Region : q # "active" => ev[q] = EventsAt(sched_list, 0)[q]
        /\ ev["active"] = <<NewEvent>> \o EventsAt(sched_list, 0)["active"]
    BY <2>2, <2>5 DEF old
  <2>9. Put(0, "active", "active", ev)
    BY <2>7, <2>8 DEF Put
  <2>10. crashed' \in BOOLEAN
    BY <1>2
  <2> QED
    BY <1>1, <1>2, <2>5, <2>9, <2>10 DEF AskedFor
<1> QED
  BY <1>4, <1>5

(* Asking for an event keeps the list of time steps in order. *)
LEMMA AskedStep ==
    ASSUME SInv, NEW delay \in 0..MaxDelay, NEW region \in Region, AskedFor(delay, region)
    PROVE  SInv'
<1>1. /\ MayAsk(delay, region) /\ NoteAsked(delay, region)
      /\ UNCHANGED <<initList, finalList, schedule_time, flags, phase, running, done>>
      /\ crashed' \in BOOLEAN
  BY DEF AskedFor
<1>2. PICK r \in Region, ev \in [Region -> Seq(Event)] : Put(delay, region, r, ev)
  BY DEF AskedFor
<1>3. /\ r = region \/ (region = "start" /\ r = "active")
      /\ \A q \in Region : q # r => ev[q] = EventsAt(sched_list, delay)[q]
      /\ sched_list' \in Seq(Step) /\ Apart(sched_list')
      /\ \A d \in Nat : Standing(sched_list', d) <=> Standing(sched_list, d) \/ d = delay
      /\ \A d \in Nat : EventsAt(sched_list', d) =
                            IF d = delay THEN ev ELSE EventsAt(sched_list, d)
  BY <1>2 DEF Put
<1>4. ev[r] # <<>>
  <2>1. NewEvent \in Event /\ EventsAt(sched_list, delay)[r] \in Seq(Event)
    BY <1>1, NotedDown, Facts
  <2> QED
    BY <1>2, <2>1 DEF Put
<1>5. /\ TypeOK /\ StepsInv /\ BoundInv /\ PhaseInv /\ FinalInv
      /\ schedule_time \in Nat /\ MaxDelay \in Nat
      /\ delay \in Nat /\ delay =< MaxDelay
  BY Facts
<1>6. /\ asked' \in Seq(Asked) /\ Len(asked') =< MaxEvents
      /\ \A e \in 1..Len(asked) : e \in 1..Len(asked') /\ asked'[e] = asked[e]
      /\ Len(asked) * MaxDelay \in Nat
      /\ Len(asked') * MaxDelay = Len(asked) * MaxDelay + MaxDelay
  BY <1>1, NotedDown
<1>7. /\ Busy /\ phase \in {"compile", "startsim", "init", "start", "loop", "rosync"}
      /\ phase = "rosync" => region = "rosync" \/ delay > 0
      /\ region = "start" /\ delay = 0 => "startNow" \in Uses
  BY <1>1 DEF MayAsk
<1>8. TypeOK'
  BY <1>1, <1>3, <1>5, <1>6 DEF TypeOK, Step, Asked, flags
<1>9. StepsInv'
  <2>1. ev # NoEvents
    BY <1>4 DEF NoEvents
  <2> QED
    BY <1>3, <1>5, <2>1 DEF StepsInv
<1>10. BoundInv'
  <2>1. schedule_time =< Len(asked) * MaxDelay
    BY <1>5 DEF BoundInv
  <2>2. ASSUME NEW d \in Nat, Standing(sched_list', d)
        PROVE  schedule_time + d =< Len(asked') * MaxDelay
    <3>1. CASE Standing(sched_list, d)
      <4>1. schedule_time + d =< Len(asked) * MaxDelay
        BY <1>5, <3>1 DEF BoundInv
      <4> QED
        BY <1>5, <1>6, <4>1
    <3>2. CASE d = delay
      BY <1>5, <1>6, <2>1, <3>2
    <3> QED
      BY <1>3, <2>2, <3>1, <3>2
  <2>3. schedule_time =< Len(asked') * MaxDelay
    BY <1>5, <1>6, <2>1
  <2> QED
    BY <1>1, <1>6, <2>2, <2>3 DEF BoundInv
<1>11. PhaseInv'
  <2>1. Standing(sched_list, 0) => Standing(sched_list', 0)
    BY <1>3
  <2>2. \A q \in Region : q # r \/ delay > 0 => EventsAt(sched_list', 0)[q] = Now[q]
    BY <1>3, <1>5 DEF Now
  <2>3. phase' = phase /\ running' = running
    BY <1>1
  <2>4. phase = "rosync" => r = "rosync" \/ delay > 0
    BY <1>3, <1>7
  <2>5. "startNow" \notin Uses => r # "start" \/ delay > 0
    BY <1>3, <1>5, <1>7
  <2>6. phase' = "rosync" =>
            \A q \in {"active", "nbassign", "rwsync"} : EventsAt(sched_list', 0)[q] = <<>>
    BY <1>5, <2>2, <2>3, <2>4 DEF PhaseInv, Region
  <2>7. phase' # "start" /\ "startNow" \notin Uses => EventsAt(sched_list', 0)["start"] = <<>>
    BY <1>5, <2>2, <2>3, <2>5 DEF PhaseInv, Region
  <2>8. phase' \in {"start", "rosync"} \/ (phase' = "loop" /\ running' # Nothing) =>
            Standing(sched_list', 0)
    BY <1>5, <2>1, <2>3 DEF PhaseInv
  <2> QED
    BY <2>6, <2>7, <2>8 DEF PhaseInv, Now
<1>12. FinalInv'
  <2>1. \A e \in ToSet(finalList) : e \in 1..Len(asked') /\ asked'[e].region = "final"
    BY <1>5, <1>6 DEF FinalInv
  <2> QED
    BY <1>1, <1>7, <2>1 DEF FinalInv, flags
<1> QED
  BY <1>8, <1>9, <1>10, <1>11, <1>12 DEF SInv

(* As long as nothing is done to the list *)
LEMMA ListKept ==
    ASSUME SInv, UNCHANGED <<sched_list, schedule_time, asked>>
    PROVE  StepsInv' /\ BoundInv'
BY DEF SInv, StepsInv, BoundInv

(* So does asking for an initialization or a final event. *)
LEMMA AskEarlyStep ==
    ASSUME SInv, AskInit \/ AskFinal
    PROVE  SInv'
<1>1. /\ TypeOK /\ StepsInv /\ BoundInv /\ PhaseInv /\ FinalInv
      /\ schedule_time \in Nat /\ MaxDelay \in Nat /\ 0 \in 0..MaxDelay
      /\ initList \in Seq(Event) /\ finalList \in Seq(Event)
  BY Facts DEF TypeOK
<1>2. PICK region \in {"init", "final"} :
          /\ NoteAsked(0, region)
          /\ region = "init" => initList' = Append(initList, NewEvent) /\ finalList' = finalList
          /\ region = "final" => finalList' = Append(finalList, NewEvent) /\ initList' = initList
  BY DEF AskInit, AskFinal
<1>3. /\ UNCHANGED <<sched_list, schedule_time, flags, phase, running, done, crashed>>
      /\ phase \in {"compile", "init", "startsim"}
  BY DEF AskInit, AskFinal
<1>4. /\ NewEvent \in Event
      /\ asked' \in Seq(Asked) /\ Len(asked') = NewEvent /\ Len(asked') =< MaxEvents
      /\ \A e \in 1..Len(asked) : e \in 1..Len(asked') /\ asked'[e] = asked[e]
      /\ asked'[NewEvent].region = region
      /\ Len(asked) * MaxDelay \in Nat
      /\ Len(asked') * MaxDelay = Len(asked) * MaxDelay + MaxDelay
  BY <1>1, <1>2, NotedDown
<1>5. initList' \in Seq(Event) /\ finalList' \in Seq(Event)
  <2>1. \/ initList' = Append(initList, NewEvent) /\ finalList' = finalList
        \/ finalList' = Append(finalList, NewEvent) /\ initList' = initList
    BY <1>2
  <2>2. NewEvent \in Event
    BY <1>4
  <2>3. /\ Append(initList, NewEvent) \in Seq(Event)
        /\ Append(finalList, NewEvent) \in Seq(Event)
    <3>1. initList \in Seq(Event) /\ finalList \in Seq(Event)
      BY <1>1
    <3> QED
      BY <2>2, <3>1
  <2>4. initList \in Seq(Event) /\ finalList \in Seq(Event)
    BY <1>1
  <2> QED
    BY <2>1, <2>3, <2>4, Zenon
<1>6. TypeOK'
  BY <1>1, <1>3, <1>4, <1>5 DEF TypeOK, Asked, flags
<1>7. StepsInv'
  BY <1>1, <1>3 DEF StepsInv
<1>8. BoundInv'
  <2>1. schedule_time =< Len(asked) * MaxDelay
    BY <1>1 DEF BoundInv
  <2>2. ASSUME NEW d \in Nat, Standing(sched_list, d)
        PROVE  schedule_time + d =< Len(asked') * MaxDelay
    <3>1. schedule_time + d =< Len(asked) * MaxDelay
      BY <1>1, <2>2 DEF BoundInv
    <3> QED
      BY <1>1, <1>4, <3>1
  <2>3. schedule_time =< Len(asked') * MaxDelay
    BY <1>1, <1>4, <2>1
  <2> QED
    BY <1>3, <1>4, <2>2, <2>3 DEF BoundInv
<1>9. PhaseInv'
  BY <1>1, <1>3 DEF PhaseInv, Now
<1>10. FinalInv'
  <2>1. ASSUME NEW e \in ToSet(finalList')
        PROVE  e \in 1..Len(asked') /\ asked'[e].region = "final"
    <3>1. CASE e \in ToSet(finalList)
      BY <1>1, <1>4, <3>1 DEF FinalInv
    <3>2. CASE e \notin ToSet(finalList)
      <4>1. region = "final" /\ finalList' = Append(finalList, NewEvent)
        BY <1>2, <2>1, <3>2
      <4>2. \A i \in DOMAIN finalList' : \/ i \in DOMAIN finalList /\ finalList'[i] = finalList[i]
                                         \/ finalList'[i] = NewEvent
        BY <1>1, <1>4, <4>1
      <4>3. e = NewEvent
        BY <2>1, <3>2, <4>2 DEF ToSet
      <4>4. NewEvent \in 1..Len(asked')
        <5>1. NewEvent \in Nat /\ NewEvent >= 1
          BY <1>4, ScheduleAssumption DEF Event
        <5> QED
          BY <1>4, <5>1
      <4> QED
        BY <1>4, <4>1, <4>3, <4>4
    <3> QED
      BY <3>1, <3>2
  <2> QED
    BY <1>3, <2>1 DEF FinalInv
<1> QED
  BY <1>6, <1>7, <1>8, <1>9, <1>10 DEF SInv

(* The steps that leave lists and events alone: what the phase is after them *)
LEMMA QuietStep ==
    ASSUME SInv, Finish \/ Stop \/ Return \/ StartOfSim \/ StopHandler \/ LeaveLoop
                 \/ StartFinals \/ Postsim
    PROVE  SInv'
<1>1. /\ TypeOK /\ StepsInv /\ BoundInv /\ PhaseInv /\ FinalInv
      /\ {runnable, run_finals, stopped, crashed} \subseteq BOOLEAN
  BY Facts DEF TypeOK
<1>2. UNCHANGED <<sched_list, initList, finalList, schedule_time, asked, done, crashed>>
  BY DEF Finish, Stop, Return, StartOfSim, StopHandler, LeaveLoop, StartFinals, Postsim, lists
<1>3. StepsInv' /\ BoundInv'
  BY <1>2, ListKept
<1>4. CASE Finish
  <2>1. /\ Busy /\ runnable' = FALSE
        /\ UNCHANGED <<run_finals, stopped, phase, running>>
    BY <1>4 DEF Finish
  <2>2. TypeOK'
    BY <1>1, <1>2, <2>1 DEF TypeOK
  <2>3. PhaseInv'
    BY <1>1, <1>2, <2>1 DEF PhaseInv, Now
  <2>4. FinalInv'
    BY <1>1, <1>2, <2>1 DEF FinalInv, Busy
  <2> QED
    BY <1>3, <2>2, <2>3, <2>4 DEF SInv
<1>5. CASE Stop
  <2>1. stopped' = TRUE /\ UNCHANGED <<runnable, run_finals, phase, running>>
    BY <1>5 DEF Stop
  <2>2. TypeOK'
    BY <1>1, <1>2, <2>1 DEF TypeOK
  <2>3. PhaseInv' /\ FinalInv'
    BY <1>1, <1>2, <2>1 DEF PhaseInv, Now, FinalInv
  <2> QED
    BY <1>3, <2>2, <2>3 DEF SInv
<1>6. CASE Return
  <2>1. /\ Busy /\ running' = Nothing
        /\ phase' = CASE phase = "compile" -> "init"
                      [] phase = "startsim" -> IF runnable THEN "loop" ELSE "ending"
                      [] OTHER -> phase
        /\ run_finals' = IF phase = "startsim" THEN runnable ELSE run_finals
        /\ UNCHANGED <<runnable, stopped>>
    BY <1>6 DEF Return
  <2>2. \/ phase' \in {"init", "loop", "ending"} /\ phase \in {"compile", "startsim"}
        \/ phase' = phase /\ phase \notin {"compile", "startsim"} /\ run_finals' = run_finals
    BY <2>1
  <2>3. phase' \in {"compile", "init", "startsim", "loop", "start", "rosync",
                    "ending", "final", "over"} /\ run_finals' \in BOOLEAN
    BY <1>1, <2>1, <2>2 DEF TypeOK
  <2>4. TypeOK'
    BY <1>1, <1>2, <2>1, <2>3 DEF TypeOK
  <2>5. PhaseInv'
    BY <1>1, <1>2, <2>1, <2>2 DEF PhaseInv, Now
  <2>6. FinalInv'
    BY <1>1, <1>2, <2>1, <2>2 DEF FinalInv, Busy
  <2> QED
    BY <1>3, <2>4, <2>5, <2>6 DEF SInv
<1>7. CASE StartOfSim \/ LeaveLoop
  <2>1. /\ phase' \in {"startsim", "ending"}
        /\ running' \in {Callback, running}
        /\ UNCHANGED <<runnable, run_finals, stopped>>
        /\ phase \in {"init", "loop"}
    BY <1>7 DEF StartOfSim, LeaveLoop, flags, Idle, Loop
  <2>2. TypeOK'
    BY <1>1, <1>2, <2>1 DEF TypeOK
  <2>3. PhaseInv' /\ FinalInv'
    BY <1>1, <1>2, <2>1 DEF PhaseInv, Now, FinalInv
  <2> QED
    BY <1>3, <2>2, <2>3 DEF SInv
<1>8. CASE StopHandler
  <2>1. /\ phase' \in {"loop", "ending"} /\ runnable' \in BOOLEAN /\ stopped' = FALSE
        /\ phase = "loop" /\ running = Nothing
        /\ UNCHANGED <<running, run_finals>>
    BY <1>1, <1>8 DEF StopHandler, Idle
  <2>2. TypeOK'
    BY <1>1, <1>2, <2>1 DEF TypeOK
  <2>3. PhaseInv' /\ FinalInv'
    BY <1>1, <1>2, <2>1 DEF PhaseInv, Now, FinalInv
  <2> QED
    BY <1>3, <2>2, <2>3 DEF SInv
<1>9. CASE StartFinals
  <2>1. /\ phase' = "final" /\ runnable' = run_finals
        /\ phase = "ending" /\ running = Nothing
        /\ UNCHANGED <<running, run_finals, stopped>>
    BY <1>9 DEF StartFinals, Idle
  <2>2. TypeOK'
    BY <1>1, <1>2, <2>1 DEF TypeOK
  <2>3. PhaseInv' /\ FinalInv'
    BY <1>1, <1>2, <2>1 DEF PhaseInv, Now, FinalInv
  <2> QED
    BY <1>3, <2>2, <2>3 DEF SInv
<1>10. CASE Postsim
  <2>1. /\ phase' = "over" /\ (~runnable \/ finalList = <<>>)
        /\ phase = "final" /\ running = Nothing
        /\ UNCHANGED <<running, runnable, run_finals, stopped>>
    BY <1>10 DEF Postsim, Idle, flags
  <2>2. TypeOK'
    BY <1>1, <1>2, <2>1 DEF TypeOK
  <2>3. PhaseInv' /\ FinalInv'
    BY <1>1, <1>2, <2>1 DEF PhaseInv, Now, FinalInv
  <2> QED
    BY <1>3, <2>2, <2>3 DEF SInv
<1> QED
  BY <1>4, <1>5, <1>6, <1>7, <1>8, <1>9, <1>10

(* An initialization or a final event runs. *)
LEMMA EarlyStep ==
    ASSUME SInv, RunInit \/ RunFinal
    PROVE  SInv'
<1>1. /\ TypeOK /\ StepsInv /\ BoundInv /\ PhaseInv /\ FinalInv
      /\ initList \in Seq(Event) /\ finalList \in Seq(Event)
  BY Facts DEF TypeOK
<1>2. UNCHANGED <<sched_list, schedule_time, flags, phase, asked, crashed>>
  BY DEF RunInit, RunFinal
<1>3. StepsInv' /\ BoundInv'
  BY <1>2, ListKept
<1>4. CASE RunInit
  <2>1. /\ phase = "init" /\ initList # <<>> /\ initList' = Tail(initList) /\ finalList' = finalList
        /\ running' = Head(initList) /\ done' = done \cup {Head(initList)}
    BY <1>4 DEF RunInit, Starts, Idle
  <2>2. Head(initList) \in Event /\ Tail(initList) \in Seq(Event)
    BY <1>1, <2>1
  <2>3. TypeOK'
    BY <1>1, <1>2, <2>1, <2>2 DEF TypeOK, flags
  <2>4. PhaseInv' /\ FinalInv'
    BY <1>1, <1>2, <2>1 DEF PhaseInv, FinalInv, Now, flags
  <2> QED
    BY <1>3, <2>3, <2>4 DEF SInv
<1>5. CASE RunFinal
  <2>1. /\ phase = "final" /\ runnable /\ finalList # <<>> /\ finalList' = Tail(finalList)
        /\ initList' = initList
        /\ running' = Head(finalList) /\ done' = done \cup {Head(finalList)}
    BY <1>5 DEF RunFinal, Starts, Idle
  <2>2. /\ Head(finalList) \in Event /\ Tail(finalList) \in Seq(Event)
        /\ Head(finalList) \in ToSet(finalList)
        /\ ToSet(Tail(finalList)) \subseteq ToSet(finalList)
    <3>1. Head(finalList) \in Event /\ Tail(finalList) \in Seq(Event)
      BY <1>1, <2>1
    <3>2. Head(finalList) \in ToSet(finalList)
      BY <1>1, <2>1, EmptyList
    <3>3. \A i \in DOMAIN Tail(finalList) :
              i + 1 \in DOMAIN finalList /\ Tail(finalList)[i] = finalList[i + 1]
      BY <1>1, <2>1
    <3> QED
      BY <3>1, <3>2, <3>3 DEF ToSet
  <2>3. TypeOK'
    BY <1>1, <1>2, <2>1, <2>2 DEF TypeOK, flags
  <2>4. PhaseInv'
    BY <1>1, <1>2, <2>1 DEF PhaseInv, Now, flags
  <2>5. FinalInv'
    BY <1>1, <1>2, <2>1, <2>2 DEF FinalInv, flags
  <2> QED
    BY <1>3, <2>3, <2>4, <2>5 DEF SInv
<1> QED
  BY <1>4, <1>5

(* Events of the present time are taken off their lists. *)
LEMMA TakenStep ==
    ASSUME SInv, Standing(sched_list, 0), NEW ev \in [Region -> Seq(Event)],
           sched_list' = [sched_list EXCEPT ![1].events = ev],
           UNCHANGED <<schedule_time, asked>>
    PROVE  /\ sched_list' \in Seq(Step) /\ StepsInv' /\ BoundInv'
           /\ Standing(sched_list', 0) /\ EventsAt(sched_list', 0) = ev
           /\ \A d \in Nat : d # 0 => EventsAt(sched_list', d) = EventsAt(sched_list, d)
<1>1. /\ StepsInv /\ BoundInv /\ sched_list \in Seq(Step) /\ Apart(sched_list)
  BY Facts
<1>2. 1 \in 1..Len(sched_list) /\ After(sched_list)[1] = 0
  BY <1>1, FirstStep
<1> DEFINE new == [sched_list EXCEPT ![1].events = ev]
<1>3. /\ new \in Seq(Step) /\ Apart(new)
      /\ \A d \in Nat : /\ Standing(new, d) <=> Standing(sched_list, d)
                        /\ EventsAt(new, d) = IF d = After(sched_list)[1] THEN ev
                                              ELSE EventsAt(sched_list, d)
  BY <1>1, <1>2, EventsReplaced, Zenon
<1> HIDE DEF new
<1>4. /\ sched_list' \in Seq(Step) /\ Apart(sched_list')
      /\ \A d \in Nat : /\ Standing(sched_list', d) <=> Standing(sched_list, d)
                        /\ EventsAt(sched_list', d) = IF d = 0 THEN ev
                                                      ELSE EventsAt(sched_list, d)
  BY <1>2, <1>3 DEF new
<1>5. StepsInv'
  <2>1. ASSUME NEW d \in Nat, d > 0, Standing(sched_list', d)
        PROVE  EventsAt(sched_list', d) # NoEvents
    <3>1. d # 0
      BY <2>1
    <3>2. Standing(sched_list, d) /\ EventsAt(sched_list', d) = EventsAt(sched_list, d)
      BY <1>4, <2>1, <3>1
    <3> QED
      BY <1>1, <2>1, <3>2 DEF StepsInv
  <2> QED
    BY <1>4, <2>1 DEF StepsInv
<1>6. BoundInv'
  BY <1>1, <1>4 DEF BoundInv
<1> QED
  BY <1>4, <1>5, <1>6

(* The lists of the step that is being run *)
LEMMA CurrentStep ==
    ASSUME SInv, Standing(sched_list, 0)
    PROVE  /\ sched_list # <<>> /\ Head(sched_list).delay = 0
           /\ 1 \in 1..Len(sched_list) /\ sched_list[1] \in Step
           /\ Head(sched_list) = sched_list[1]
           /\ Current = Now /\ sched_list[1].events = Now
           /\ Now \in [Region -> Seq(Event)]
<1>1. sched_list \in Seq(Step) /\ Apart(sched_list) /\ Now \in [Region -> Seq(Event)]
  BY Facts DEF Now
<1>2. sched_list # <<>> /\ Head(sched_list).delay = 0
  BY <1>1, FirstStep
<1>3. /\ 1 \in 1..Len(sched_list) /\ sched_list[1] \in Step /\ Head(sched_list) = sched_list[1]
      /\ EventsAt(sched_list, Head(sched_list).delay) = Head(sched_list).events
  BY <1>1, <1>2, FirstStep
<1> QED
  BY <1>1, <1>2, <1>3 DEF Current, Now

(* The first event of a region is taken. *)
LEMMA TakeFromList ==
    ASSUME SInv, Standing(sched_list, 0), NEW r \in Region, Now[r] # <<>>, TakeFrom(r)
    PROVE  LET ev == [Now EXCEPT ![r] = Tail(@)]
           IN  /\ ev \in [Region -> Seq(Event)]
               /\ sched_list' = [sched_list EXCEPT ![1].events = ev]
               /\ Head(Now[r]) \in Event
               /\ running' = Head(Now[r]) /\ done' = done \cup {Head(Now[r])}
<1>1. /\ Current = Now /\ sched_list[1].events = Now /\ 1 \in 1..Len(sched_list)
      /\ sched_list[1] \in Step /\ sched_list \in Seq(Step)
      /\ Now \in [Region -> Seq(Event)]
  BY CurrentStep, Facts
<1>2. Now[r] \in Seq(Event) /\ Head(Now[r]) \in Event /\ Tail(Now[r]) \in Seq(Event)
  BY <1>1
<1> DEFINE ev == [Now EXCEPT ![r] = Tail(@)]
<1>3. ev \in [Region -> Seq(Event)]
  BY <1>1, <1>2
<1>4. sched_list' = [sched_list EXCEPT ![1].events = ev]
  <2>1. sched_list' = [sched_list EXCEPT ![1].events[r] = Tail(@)]
    BY DEF TakeFrom
  <2> QED
    BY <1>1, <2>1
<1>5. running' = Head(Now[r]) /\ done' = done \cup {Head(Now[r])}
  BY <1>1 DEF TakeFrom, Starts
<1> QED
  BY <1>2, <1>3, <1>4, <1>5

(* The active list after its first event, or that of the list that becomes active, is taken *)
LEMMA RunActiveLists ==
    ASSUME SInv, RunActive
    PROVE  /\ Standing(sched_list, 0) /\ (phase = "start" => Now["start"] = <<>>)
           /\ phase \in {"start", "loop"} /\ running = Nothing
           /\ \E from \in {"active", "nbassign", "rwsync"} :
                 LET ev == [Now EXCEPT ![from] = <<>>, !["active"] = Tail(Now[from])]
                 IN  /\ from = "active" \/ Now["active"] = <<>>
                     /\ from = "rwsync" => Now["nbassign"] = <<>>
                     /\ Now[from] # <<>>
                     /\ ev \in [Region -> Seq(Event)]
                     /\ sched_list' = [sched_list EXCEPT ![1].events = ev]
                     /\ Head(Now[from]) \in Event
                     /\ running' = Head(Now[from]) /\ done' = done \cup {Head(Now[from])}
<1>1. /\ PhaseInv /\ sched_list \in Seq(Step) /\ Apart(sched_list)
  BY Facts
<1>2. /\ StepGoesOn
      /\ phase \in {"start", "loop"} /\ running = Nothing
      /\ (phase = "loop" /\ sched_list # <<>> /\ Head(sched_list).delay = 0)
         \/ (phase = "start" /\ Current["start"] = <<>>)
  BY DEF RunActive, StepGoesOn, Loop, Idle
<1>3. Standing(sched_list, 0)
  BY <1>1, <1>2, FirstStep DEF PhaseInv
<1>4. /\ Current = Now /\ sched_list[1].events = Now /\ 1 \in 1..Len(sched_list)
      /\ sched_list[1] \in Step
      /\ Now \in [Region -> Seq(Event)]
  BY <1>3, CurrentStep
<1> DEFINE from == IF Now["active"] # <<>> THEN "active" ELSE Refill(Now)
           ev == [Now EXCEPT ![from] = <<>>, !["active"] = Tail(Now[from])]
<1>5. /\ Now[from] # <<>>
      /\ sched_list' = [sched_list EXCEPT ![1].events = ev]
      /\ running' = Head(Now[from]) /\ done' = done \cup {Head(Now[from])}
  BY <1>4 DEF RunActive, Starts
<1>6. /\ from \in {"active", "nbassign", "rwsync"} /\ from \in Region
      /\ from = "active" \/ Now["active"] = <<>>
      /\ from = "rwsync" => Now["nbassign"] = <<>>
  BY DEF Refill, Region
<1> HIDE DEF from
<1>7. Now[from] \in Seq(Event) /\ "active" \in Region
  BY <1>4, <1>6 DEF Region
<1>8. Head(Now[from]) \in Event /\ Tail(Now[from]) \in Seq(Event) /\ <<>> \in Seq(Event)
  BY <1>5, <1>7
<1>9. ev \in [Region -> Seq(Event)]
  BY <1>4, <1>6, <1>7, <1>8
<1> QED
  BY <1>2, <1>3, <1>4, <1>5, <1>6, <1>8, <1>9

(* Running an event of the current step keeps the list of time steps in order. *)
LEMMA RunStep ==
    ASSUME SInv, RunStart \/ RunActive \/ RunRosync
    PROVE  SInv'
<1>1. /\ TypeOK /\ PhaseInv /\ FinalInv
  BY Facts
<1>2. UNCHANGED <<initList, finalList, schedule_time, flags, asked, crashed>>
  BY DEF RunStart, RunActive, RunRosync
<1>3. \E ev \in [Region -> Seq(Event)], e \in Event :
          /\ sched_list' = [sched_list EXCEPT ![1].events = ev]
          /\ Standing(sched_list, 0)
          /\ running' = e /\ done' = done \cup {e}
          /\ phase' \in {"start", "loop", "rosync"} /\ phase # "final"
          /\ phase' = "rosync" =>
                phase = "rosync" /\ \A r \in {"active", "nbassign", "rwsync"} : ev[r] = Now[r]
          /\ phase' # "start" => ev["start"] = Now["start"] /\ (phase = "start" => Now["start"] = <<>>)
  <2>1. CASE RunStart \/ RunRosync
    <3>1. /\ phase \in {"start", "rosync"} /\ phase' = phase
          /\ Standing(sched_list, 0)
      BY <1>1, <2>1 DEF RunStart, RunRosync, Idle, PhaseInv
    <3>2. PICK r \in Region : /\ TakeFrom(r) /\ Current[r] # <<>>
                              /\ phase = "rosync" => r \in {"rosync", "del_thr"}
      BY <2>1 DEF RunStart, RunRosync, Idle, Region
    <3>3. Current = Now /\ Now \in [Region -> Seq(Event)]
      BY <3>1, CurrentStep
    <3> DEFINE ev == [Now EXCEPT ![r] = Tail(@)]
    <3>4. /\ ev \in [Region -> Seq(Event)]
          /\ sched_list' = [sched_list EXCEPT ![1].events = ev]
          /\ Head(Now[r]) \in Event
          /\ running' = Head(Now[r]) /\ done' = done \cup {Head(Now[r])}
      BY <3>1, <3>2, <3>3, TakeFromList
    <3>5. phase = "rosync" => \A q \in {"start", "active", "nbassign", "rwsync"} : ev[q] = Now[q]
      BY <3>2, <3>3 DEF Region
    <3> HIDE DEF ev
    <3> QED
      BY <3>1, <3>4, <3>5
  <2>2. CASE RunActive
    <3>1. /\ Standing(sched_list, 0) /\ (phase = "start" => Now["start"] = <<>>)
          /\ phase \in {"start", "loop"}
      BY <2>2, RunActiveLists
    <3>2. PICK from \in {"active", "nbassign", "rwsync"} :
                 LET ev == [Now EXCEPT ![from] = <<>>, !["active"] = Tail(Now[from])]
                 IN  /\ ev \in [Region -> Seq(Event)]
                     /\ sched_list' = [sched_list EXCEPT ![1].events = ev]
                     /\ Head(Now[from]) \in Event
                     /\ running' = Head(Now[from]) /\ done' = done \cup {Head(Now[from])}
      BY <2>2, RunActiveLists
    <3>3. Now \in [Region -> Seq(Event)]
      BY <3>1, CurrentStep
    <3> DEFINE ev == [Now EXCEPT ![from] = <<>>, !["active"] = Tail(Now[from])]
    <3>4. ev["start"] = Now["start"]
      BY <3>3 DEF Region
    <3>5. phase' = "loop"
      BY <2>2 DEF RunActive
    <3> QED
      BY <3>1, <3>2, <3>4, <3>5
  <2> QED
    BY <2>1, <2>2
<1>4. PICK ev \in [Region -> Seq(Event)], e \in Event :
          /\ sched_list' = [sched_list EXCEPT ![1].events = ev]
          /\ Standing(sched_list, 0)
          /\ running' = e /\ done' = done \cup {e}
          /\ phase' \in {"start", "loop", "rosync"} /\ phase # "final"
          /\ phase' = "rosync" =>
                phase = "rosync" /\ \A r \in {"active", "nbassign", "rwsync"} : ev[r] = Now[r]
          /\ phase' # "start" => ev["start"] = Now["start"] /\ (phase = "start" => Now["start"] = <<>>)
  BY <1>3, Zenon
<1>5. /\ sched_list' \in Seq(Step) /\ StepsInv' /\ BoundInv'
      /\ Standing(sched_list', 0) /\ EventsAt(sched_list', 0) = ev
  BY <1>2, <1>4, TakenStep
<1>6. TypeOK'
  BY <1>1, <1>2, <1>4, <1>5 DEF TypeOK, Step, flags
<1>7. PhaseInv'
  BY <1>1, <1>4, <1>5 DEF PhaseInv, Now
<1>8. FinalInv'
  BY <1>1, <1>2, <1>4 DEF FinalInv
<1> QED
  BY <1>5, <1>6, <1>7, <1>8 DEF SInv

(* When the read-only region begins, all that may change something has run. *)
LEMMA EnterRosyncStep ==
    ASSUME SInv, EnterRosync
    PROVE  SInv'
<1>1. /\ TypeOK /\ PhaseInv /\ FinalInv /\ sched_list \in Seq(Step) /\ Apart(sched_list)
  BY Facts
<1>2. /\ UNCHANGED <<lists, schedule_time, flags, running, asked, done, crashed>>
      /\ phase' = "rosync" /\ running = Nothing
      /\ (phase = "loop" /\ sched_list # <<>> /\ Head(sched_list).delay = 0)
         \/ (phase = "start" /\ Current["start"] = <<>>)
      /\ \A r \in {"active", "nbassign", "rwsync"} : Current[r] = <<>>
  BY DEF EnterRosync, StepGoesOn, NoMoreActive, Loop, Idle
<1>3. Standing(sched_list, 0)
  BY <1>1, <1>2, FirstStep DEF PhaseInv
<1>4. Current = Now
  BY <1>3, CurrentStep
<1>5. StepsInv' /\ BoundInv'
  BY <1>2, ListKept DEF lists
<1>6. TypeOK'
  BY <1>1, <1>2 DEF TypeOK, flags, lists
<1>7. PhaseInv'
  <2>1. "startNow" \notin Uses => Now["start"] = <<>>
    BY <1>1, <1>2, <1>4 DEF PhaseInv
  <2> QED
    BY <1>2, <1>3, <1>4, <2>1 DEF PhaseInv, lists, Now
<1>8. FinalInv'
  BY <1>1, <1>2 DEF FinalInv, lists, flags
<1> QED
  BY <1>5, <1>6, <1>7, <1>8 DEF SInv

(* When time goes on the first step becomes the one of the present time. *)
LEMMA AdvanceTimeStep ==
    ASSUME SInv, AdvanceTime
    PROVE  SInv'
<1>1. /\ TypeOK /\ StepsInv /\ BoundInv /\ FinalInv /\ sched_list \in Seq(Step) /\ Apart(sched_list)
      /\ schedule_time \in Nat /\ Len(asked) \in Nat /\ Len(asked) =< MaxEvents
      /\ MaxDelay \in Nat /\ MaxEvents \in Nat
  BY Facts
<1> DEFINE D == Head(sched_list).delay
           new == [sched_list EXCEPT ![1].delay = 0]
<1>2. /\ sched_list # <<>> /\ D > 0
      /\ schedule_time' = schedule_time + D
      /\ sched_list' = new
      /\ phase' = "start" /\ running' = Callback /\ phase = "loop"
      /\ UNCHANGED <<initList, finalList, flags, asked, done, crashed>>
  BY DEF AdvanceTime, Loop, Idle
<1>3. D \in Nat /\ Standing(sched_list, D)
  BY <1>1, <1>2, FirstStep
<1>4. /\ new \in Seq(Step) /\ Apart(new)
      /\ \A d \in Nat : /\ Standing(new, d) <=> Standing(sched_list, d + D)
                        /\ EventsAt(new, d) = EventsAt(sched_list, d + D)
  BY <1>1, <1>2, TimeGoesOn, Zenon
<1> HIDE DEF new, D
<1>5. StepsInv'
  <2>1. ASSUME NEW d \in Nat, d > 0, Standing(new, d) PROVE EventsAt(new, d) # NoEvents
    <3>1. d + D \in Nat /\ d + D > 0 /\ Standing(sched_list, d + D)
      BY <1>3, <1>4, <2>1
    <3> QED
      BY <1>1, <1>4, <3>1 DEF StepsInv
  <2> QED
    BY <1>2, <1>4, <2>1 DEF StepsInv
<1>6. /\ schedule_time' =< Len(asked) * MaxDelay
      /\ \A d \in Nat : Standing(new, d) => schedule_time' + d =< Len(asked) * MaxDelay
  <2>1. schedule_time' =< Len(asked) * MaxDelay
    BY <1>1, <1>2, <1>3 DEF BoundInv
  <2>2. ASSUME NEW d \in Nat, Standing(new, d) PROVE schedule_time' + d =< Len(asked) * MaxDelay
    <3>1. d + D \in Nat /\ Standing(sched_list, d + D)
      BY <1>3, <1>4, <2>2
    <3>2. schedule_time + (d + D) =< Len(asked) * MaxDelay
      BY <1>1, <3>1 DEF BoundInv
    <3>3. schedule_time' + d = schedule_time + (d + D)
      BY <1>1, <1>2, <1>3
    <3> QED
      BY <3>2, <3>3
  <2> QED
    BY <2>1, <2>2
<1>7. BoundInv'
  BY <1>1, <1>2, <1>6 DEF BoundInv
<1>8. schedule_time' \in 0..(MaxEvents * MaxDelay)
  <2>1. /\ Len(asked) * MaxDelay \in Nat /\ MaxEvents * MaxDelay \in Nat
        /\ Len(asked) * MaxDelay =< MaxEvents * MaxDelay
    BY <1>1, Reach
  <2>2. schedule_time' \in Nat
    BY <1>1, <1>2, <1>3
  <2> QED
    BY <1>6, <2>1, <2>2
<1>9. TypeOK'
  BY <1>1, <1>2, <1>4, <1>8 DEF TypeOK, Step, flags
<1>10. PhaseInv'
  <2>1. Standing(new, 0)
    BY <1>3, <1>4
  <2> QED
    BY <1>2, <2>1 DEF PhaseInv
<1>11. FinalInv'
  BY <1>1, <1>2 DEF FinalInv
<1> QED
  BY <1>5, <1>7, <1>9, <1>10, <1>11 DEF SInv

(* When a step is released, the next one, if any, stands for a later time. *)
LEMMA EndStepStep ==
    ASSUME SInv, EndStep
    PROVE  SInv'
<1>1. /\ TypeOK /\ StepsInv /\ BoundInv /\ PhaseInv /\ FinalInv
      /\ sched_list \in Seq(Step) /\ Apart(sched_list)
  BY Facts
<1>2. /\ sched_list' = Tail(sched_list)
      /\ phase = "rosync" /\ phase' = "loop" /\ running = Nothing
      /\ UNCHANGED <<initList, finalList, schedule_time, flags, running, asked, done, crashed>>
  BY DEF EndStep, Idle
<1>3. sched_list # <<>> /\ Head(sched_list).delay = 0
  BY <1>1, <1>2, CurrentStep DEF PhaseInv
<1> DEFINE new == Tail(sched_list)
<1>4. /\ new \in Seq(Step) /\ Apart(new)
      /\ \A d \in Nat : /\ Standing(new, d) <=> d # 0 /\ Standing(sched_list, d)
                        /\ d # 0 => EventsAt(new, d) = EventsAt(sched_list, d)
      /\ EventsAt(new, 0) = NoEvents
  BY <1>1, <1>3, StepReleased, Zenon
<1> HIDE DEF new
<1>5. sched_list' = new
  BY <1>2 DEF new
<1>6. StepsInv'
  <2>1. ASSUME NEW d \in Nat, d > 0, Standing(new, d) PROVE EventsAt(new, d) # NoEvents
    <3>1. d # 0
      BY <2>1
    <3>2. Standing(sched_list, d) /\ EventsAt(new, d) = EventsAt(sched_list, d)
      BY <1>4, <2>1, <3>1
    <3> QED
      BY <1>1, <2>1, <3>2 DEF StepsInv
  <2> QED
    BY <1>4, <1>5, <2>1 DEF StepsInv
<1>7. BoundInv'
  BY <1>1, <1>2, <1>4, <1>5 DEF BoundInv
<1>8. TypeOK'
  BY <1>1, <1>2, <1>4, <1>5 DEF TypeOK, Step, flags
<1>9. PhaseInv'
  BY <1>2, <1>4, <1>5 DEF PhaseInv, Now, NoEvents, Region
<1>10. FinalInv'
  BY <1>1, <1>2 DEF FinalInv
<1> QED
  BY <1>6, <1>7, <1>8, <1>9, <1>10 DEF SInv

(* At first there are no steps. *)
LEMMA SInvInit == Init => SInv
<1> SUFFICES ASSUME Init PROVE SInv
  OBVIOUS
<1>1. /\ sched_list = <<>> /\ initList = <<>> /\ finalList = <<>> /\ schedule_time = 0
      /\ runnable = TRUE /\ run_finals = FALSE /\ stopped = FALSE /\ crashed = FALSE
      /\ phase = "compile" /\ running = Callback /\ asked = <<>> /\ done = {}
  BY DEF Init
<1>2. /\ Len(<<>>) = 0 /\ MaxDelay \in Nat /\ MaxEvents \in Nat /\ 0 * MaxDelay = 0
      /\ MaxEvents * MaxDelay \in Nat
  BY ScheduleAssumption
<1>3. sched_list \in Seq(Step) /\ \A d : ~Standing(sched_list, d) /\ EventsAt(sched_list, d) = NoEvents
  BY <1>1, <1>2 DEF Standing, EventsAt
<1>4. TypeOK
  <2>1. schedule_time \in 0..(MaxEvents * MaxDelay)
    BY <1>1, <1>2
  <2>2. running \in {Nothing, Callback} \cup Event /\ asked \in Seq(Asked) /\ done \in SUBSET Event
    BY <1>1
  <2>3. initList \in Seq(Event) /\ finalList \in Seq(Event)
    BY <1>1
  <2>4. {runnable, run_finals, stopped, crashed} \subseteq BOOLEAN
    BY <1>1
  <2>5. phase \in {"compile", "init", "startsim", "loop", "start", "rosync",
                  "ending", "final", "over"}
    BY <1>1
  <2> QED
    BY <1>3, <2>1, <2>2, <2>3, <2>4, <2>5 DEF TypeOK, Step, Asked
<1>5. StepsInv
  BY <1>1, <1>2, <1>3 DEF StepsInv, Apart
<1>6. BoundInv
  BY <1>1, <1>2, <1>3 DEF BoundInv
<1>7. PhaseInv
  BY <1>1, <1>3 DEF PhaseInv, Now, NoEvents, Region
<1>8. FinalInv
  BY <1>1 DEF FinalInv, ToSet
<1> QED
  BY <1>4, <1>5, <1>6, <1>7, <1>8 DEF SInv

(* Every step of the scheduler keeps the list in order. *)
LEMMA SInvNext == SInv /\ [Next]_vars => SInv'
<1> SUFFICES ASSUME SInv, [Next]_vars PROVE SInv'
  OBVIOUS
<1>1. ASSUME NEW delay \in 0..MaxDelay, NEW region \in Region, Ask(delay, region) PROVE SInv'
  BY <1>1, AskLists, AskedStep
<1>2. CASE Push
  <2>1. AskedFor(0, "active") /\ 0 \in 0..MaxDelay /\ "active" \in Region
    BY <1>2, PushLists, ScheduleAssumption DEF Region
  <2> QED
    BY <2>1, AskedStep
<1>3. CASE AskInit \/ AskFinal
  BY <1>3, AskEarlyStep
<1>4. CASE Finish \/ Stop \/ Return
  BY <1>4, QuietStep
<1>5. CASE Scheduler
  <2>1. CASE RunInit \/ RunFinal
    BY <2>1, EarlyStep
  <2>2. CASE StartOfSim \/ StopHandler \/ LeaveLoop \/ StartFinals \/ Postsim
    BY <2>2, QuietStep
  <2>3. CASE AdvanceTime
    BY <2>3, AdvanceTimeStep
  <2>4. CASE RunStart \/ RunActive \/ RunRosync
    BY <2>4, RunStep
  <2>5. CASE EnterRosync
    BY <2>5, EnterRosyncStep
  <2>6. CASE EndStep
    BY <2>6, EndStepStep
  <2> QED
    BY <1>5, <2>1, <2>2, <2>3, <2>4, <2>5, <2>6 DEF Scheduler
<1>6. CASE UNCHANGED vars
  BY <1>6 DEF vars, lists, flags, SInv, TypeOK, StepsInv, BoundInv, PhaseInv, FinalInv, Now
<1> QED
  BY <1>1, <1>2, <1>3, <1>4, <1>5, <1>6 DEF Next, Over

--------------------------------------------------------------------------------
(* The theorems about the list.                                                 *)

(* The list of time steps is in order. *)
THEOREM ListInvariant == Spec => []SInv
  BY SInvInit, SInvNext, PTL DEF Spec

(* Every variable has a value of its kind; in particular time stays within the  *)
(* reach of the delays that were asked for.                                     *)
THEOREM TypeCorrect == Spec => []TypeOK
<1>1. SInv => TypeOK
  BY DEF SInv
<1> QED
  BY <1>1, ListInvariant, PTL

(* However steps are linked in and the delays around them changed, no two stand *)
(* for one time, and none is left that has no events but the one being run.     *)
THEOREM StepsStayApart == Spec => []StepsApart
<1>1. SInv => StepsApart
  <2> SUFFICES ASSUME SInv, NEW i \in DOMAIN sched_list,
                      i > 1 \/ Head(sched_list).delay > 0
               PROVE  /\ sched_list[i].delay > 0
                      /\ \E r \in Region : sched_list[i].events[r] # <<>>
    BY DEF StepsApart
  <2>1. /\ sched_list \in Seq(Step) /\ Apart(sched_list) /\ StepsInv /\ i \in 1..Len(sched_list)
        /\ sched_list # <<>>
    BY Facts
  <2>2. /\ 1 \in 1..Len(sched_list) /\ Head(sched_list) = sched_list[1]
        /\ Head(sched_list).delay \in Nat
        /\ After(sched_list)[1] = Head(sched_list).delay
    BY <2>1, FirstStep
  <2>3. i = 1 \/ i > 1
    BY <2>1
  <2>4. sched_list[i].delay > 0
    BY <2>1, <2>2, <2>3 DEF Apart
  <2>5. After(sched_list)[i] \in Nat /\ After(sched_list)[i] > 0
    <3>1. After(sched_list)[i] \in Nat
      BY <2>1, Times
    <3>2. i > 1 => After(sched_list)[1] < After(sched_list)[i]
      BY <2>1, <2>2, TimesGrow
    <3> QED
      BY <2>2, <2>3, <3>1, <3>2
  <2>6. EventsAt(sched_list, After(sched_list)[i]) = sched_list[i].events
    BY <2>1, StepOfTime, Zenon
  <2>7. sched_list[i].events # NoEvents
    BY <2>1, <2>5, <2>6 DEF StepsInv, Standing
  <2>8. sched_list[i].events \in [Region -> Seq(Event)]
    BY <2>1, Steps
  <2>9. \E r \in Region : sched_list[i].events[r] # <<>>
    BY <2>7, <2>8 DEF NoEvents
  <2> QED
    BY <2>4, <2>9
<1> QED
  BY <1>1, ListInvariant, PTL

(* The final events run after $finish, unless one of them calls it again. *)
THEOREM FinalsDoRun == Spec => []FinalsRun
<1>1. SInv => FinalsRun
  BY DEF SInv, FinalInv, FinalsRun
<1> QED
  BY <1>1, ListInvariant, PTL

(* After $finish time stands still. *)
THEOREM TimeStandsStill == Spec => FinishStopsTime
<1>1. [Next]_vars => [~runnable => schedule_time' = schedule_time]_vars
  BY DEF Next, Ask, Push, AskInit, AskFinal, Finish, Stop, Return, Scheduler, RunInit, StartOfSim,
         StopHandler, AdvanceTime, RunStart, RunActive, EnterRosync, RunRosync, EndStep, LeaveLoop,
         StartFinals, RunFinal, Postsim, Over, vars
<1> QED
  BY <1>1, PTL DEF Spec, FinishStopsTime

--------------------------------------------------------------------------------
(* The steps lose no event.                                                     *)

(* Empty lists hold nothing. *)
LEMMA HoldsNothing ==
    ASSUME NEW W
    PROVE  Holds(NoEvents, W) <=> W = {}
<1>1. ToSet(<<>>) = {} /\ IsInjective(<<>>)
  BY DEF ToSet, IsInjective
<1>2. \A r \in Region : NoEvents[r] = <<>>
  BY DEF NoEvents
<1>3. UNION {ToSet(NoEvents[r]) : r \in Region} = {}
  BY <1>1, <1>2
<1> QED
  BY <1>1, <1>2, <1>3 DEF Holds

(* One list gets a new member. *)
LEMMA HoldsMore ==
    ASSUME NEW W, NEW e, e \notin W, NEW r \in Region, NEW old, NEW new,
           Holds(old, W),
           \A q \in Region : q # r => new[q] = old[q],
           IsInjective(new[r]), ToSet(new[r]) = ToSet(old[r]) \cup {e}
    PROVE  Holds(new, W \cup {e})
<1>1. /\ \A q \in Region : IsInjective(old[q])
      /\ \A p, q \in Region : p # q => ToSet(old[p]) \cap ToSet(old[q]) = {}
      /\ W = UNION {ToSet(old[q]) : q \in Region}
  BY DEF Holds
<1>2. \A q \in Region : IsInjective(new[q])
  BY <1>1
<1>3. \A q \in Region : e \notin ToSet(old[q])
  BY <1>1
<1>4. \A p, q \in Region : p # q => ToSet(new[p]) \cap ToSet(new[q]) = {}
  BY <1>1, <1>3
<1>5. W \cup {e} = UNION {ToSet(new[q]) : q \in Region}
  <2>1. \A x : x \in UNION {ToSet(new[q]) : q \in Region} <=> \E q \in Region : x \in ToSet(new[q])
    OBVIOUS
  <2>2. \A x : x \in W <=> \E q \in Region : x \in ToSet(old[q])
    BY <1>1
  <2> QED
    BY <2>1, <2>2
<1> QED
  BY <1>2, <1>4, <1>5 DEF Holds

(* One list loses a member. *)
LEMMA HoldsLess ==
    ASSUME NEW W, NEW e, NEW r \in Region, NEW old, NEW new,
           Holds(old, W), e \in ToSet(old[r]),
           \A q \in Region : q # r => new[q] = old[q],
           IsInjective(new[r]), ToSet(new[r]) = ToSet(old[r]) \ {e}
    PROVE  e \in W /\ Holds(new, W \ {e})
<1>1. /\ \A q \in Region : IsInjective(old[q])
      /\ \A p, q \in Region : p # q => ToSet(old[p]) \cap ToSet(old[q]) = {}
      /\ W = UNION {ToSet(old[q]) : q \in Region}
  BY DEF Holds
<1>2. \A q \in Region : IsInjective(new[q])
  BY <1>1
<1>3. \A q \in Region : q # r => e \notin ToSet(old[q])
  BY <1>1
<1>4. \A p, q \in Region : p # q => ToSet(new[p]) \cap ToSet(new[q]) = {}
  BY <1>1
<1>5. W \ {e} = UNION {ToSet(new[q]) : q \in Region}
  <2>1. \A x : x \in UNION {ToSet(new[q]) : q \in Region} <=> \E q \in Region : x \in ToSet(new[q])
    OBVIOUS
  <2>2. \A x : x \in W <=> \E q \in Region : x \in ToSet(old[q])
    BY <1>1
  <2> QED
    BY <1>3, <2>1, <2>2
<1>6. e \in W
  BY <1>1
<1> QED
  BY <1>2, <1>4, <1>5, <1>6 DEF Holds

(* Two lists change places. *)
LEMMA HoldsMoved ==
    ASSUME NEW W, NEW a \in Region, NEW b \in Region, NEW old, NEW new,
           Holds(old, W), new[a] = old[b],
           \A q \in Region : q # a => new[q] = IF q = b THEN old[a] ELSE old[q]
    PROVE  Holds(new, W)
<1>1. /\ \A q \in Region : IsInjective(old[q])
      /\ \A p, q \in Region : p # q => ToSet(old[p]) \cap ToSet(old[q]) = {}
      /\ W = UNION {ToSet(old[q]) : q \in Region}
  BY DEF Holds
<1>2. \A q \in Region : \E p \in Region : /\ new[q] = old[p]
                                          /\ p = IF q = a THEN b ELSE IF q = b THEN a ELSE q
  OBVIOUS
<1>3. \A q \in Region : IsInjective(new[q])
  BY <1>1, <1>2
<1>4. \A p, q \in Region : p # q => ToSet(new[p]) \cap ToSet(new[q]) = {}
  <2> SUFFICES ASSUME NEW p \in Region, NEW q \in Region, p # q
               PROVE  ToSet(new[p]) \cap ToSet(new[q]) = {}
    OBVIOUS
  <2>1. PICK s \in Region : new[p] = old[s] /\ s = IF p = a THEN b ELSE IF p = b THEN a ELSE p
    BY <1>2
  <2>2. PICK t \in Region : new[q] = old[t] /\ t = IF q = a THEN b ELSE IF q = b THEN a ELSE q
    BY <1>2
  <2>3. s # t
    BY <2>1, <2>2
  <2> QED
    BY <1>1, <2>1, <2>2, <2>3
<1>5. W = UNION {ToSet(new[q]) : q \in Region}
  <2>1. \A x : x \in UNION {ToSet(new[q]) : q \in Region} <=> \E q \in Region : x \in ToSet(new[q])
    OBVIOUS
  <2>2. \A x : x \in W <=> \E q \in Region : x \in ToSet(old[q])
    BY <1>1
  <2>3. \A q \in Region : \E p \in Region : new[p] = old[q]
    OBVIOUS
  <2> QED
    BY <1>2, <2>1, <2>2, <2>3
<1> QED
  BY <1>3, <1>4, <1>5 DEF Holds

(* A new event stands on one list of its time, and no other event moves. *)
LEMMA AskedPlaces ==
    ASSUME SInv, PlacesInv, NEW delay \in 0..MaxDelay, NEW region \in Region,
           AskedFor(delay, region)
    PROVE  PlacesInv'
<1>1. /\ NoteAsked(delay, region)
      /\ UNCHANGED <<initList, finalList, schedule_time, running, done>>
      /\ delay \in Nat /\ schedule_time \in Nat /\ Len(asked) \in Nat
      /\ \A d : EventsAt(sched_list, d) \in [Region -> Seq(Event)]
  BY Facts DEF AskedFor
<1>2. PICK r \in Region, ev \in [Region -> Seq(Event)] : Put(delay, region, r, ev)
  BY DEF AskedFor
<1>3. /\ NewEvent \in Event /\ NewEvent \notin 1..Len(asked)
      /\ Len(asked') = NewEvent
      /\ \A e \in 1..Len(asked) : e \in 1..Len(asked') /\ asked'[e] = asked[e]
      /\ asked'[NewEvent].time = schedule_time + delay
      /\ asked'[NewEvent].region = region
  BY <1>1, NotedDown
<1>4. 1..Len(asked') = 1..Len(asked) \cup {NewEvent} /\ NewEvent \notin done /\ done \subseteq 1..Len(asked)
  <2>1. NewEvent = Len(asked) + 1
    BY DEF NewEvent
  <2>2. done \subseteq 1..Len(asked)
    BY DEF PlacesInv
  <2> QED
    BY <1>1, <1>3, <2>1, <2>2
<1>5. /\ region \notin {"init", "final"}
      /\ Pending(Region)' = Pending(Region) \cup {NewEvent}
      /\ Pending({"init"})' = Pending({"init"}) /\ Pending({"final"})' = Pending({"final"})
  <2>1. region \notin {"init", "final"}
    BY DEF Region
  <2> QED
    BY <1>1, <1>3, <1>4, <2>1 DEF Pending
<1>6. ASSUME NEW d \in Nat
      PROVE  Holds(EventsAt(sched_list', d), Due(schedule_time + d)')
  <2>1. Holds(EventsAt(sched_list, d), Due(schedule_time + d))
    BY DEF PlacesInv
  <2>2. CASE d # delay
    <3>1. Due(schedule_time + d)' = Due(schedule_time + d)
      <4>1. schedule_time + d # schedule_time + delay
        BY <1>1, <2>2
      <4>2. \A e \in Pending(Region) : e \in 1..Len(asked)
        BY DEF Pending
      <4> QED
        BY <1>1, <1>3, <1>5, <4>1, <4>2 DEF Due
    <3>2. EventsAt(sched_list', d) = EventsAt(sched_list, d)
      BY <1>2, <2>2 DEF Put
    <3> QED
      BY <2>1, <3>1, <3>2
  <2>3. CASE d = delay
    <3>1. Due(schedule_time + d)' = Due(schedule_time + d) \cup {NewEvent}
      <4>1. \A e \in Pending(Region) : e \in 1..Len(asked)
        BY DEF Pending
      <4> QED
        BY <1>1, <1>3, <1>5, <2>3, <4>1 DEF Due
    <3>2. NewEvent \notin Due(schedule_time + d)
      BY <1>3 DEF Due, Pending
    <3> DEFINE old == EventsAt(sched_list, d)
    <3>3. old[r] \in Seq(Event) /\ IsInjective(old[r]) /\ ToSet(old[r]) \subseteq Due(schedule_time + d)
      BY <1>1, <2>1 DEF Holds
    <3>4. NewEvent \notin ToSet(old[r])
      BY <3>2, <3>3
    <3>5. /\ ev[r] = Append(old[r], NewEvent) \/ ev[r] = <<NewEvent>> \o old[r]
          /\ \A q \in Region : q # r => ev[q] = old[q]
          /\ EventsAt(sched_list', d) = ev
      BY <1>2, <2>3 DEF Put
    <3> HIDE DEF old
    <3>6. IsInjective(ev[r]) /\ ToSet(ev[r]) = ToSet(old[r]) \cup {NewEvent}
      <4>1. CASE ev[r] = Append(old[r], NewEvent)
        <5> DEFINE t == Append(old[r], NewEvent)
        <5>1. IsInjective(t) /\ ToSet(t) = ToSet(old[r]) \cup {NewEvent}
          BY <1>3, <3>3, <3>4, ListGrows
        <5> QED
          BY <4>1, <5>1
      <4>2. CASE ev[r] = <<NewEvent>> \o old[r]
        <5> DEFINE u == <<NewEvent>> \o old[r]
        <5>1. IsInjective(u) /\ ToSet(u) = ToSet(old[r]) \cup {NewEvent}
          BY <1>3, <3>3, <3>4, ListPrefixed
        <5> QED
          BY <4>2, <5>1
      <4> QED
        BY <3>5, <4>1, <4>2
    <3>7. Holds(old, Due(schedule_time + d))
      BY <2>1 DEF old
    <3>8. Holds(ev, Due(schedule_time + d) \cup {NewEvent})
      BY <3>2, <3>5, <3>6, <3>7, HoldsMore
    <3> QED
      BY <3>1, <3>5, <3>8
  <2> QED
    BY <2>2, <2>3
<1>7. ASSUME NEW e \in Pending(Region)' PROVE asked'[e].time >= schedule_time
  <2>1. CASE e \in Pending(Region)
    <3>1. e \in 1..Len(asked) /\ asked[e].time >= schedule_time
      BY <2>1 DEF PlacesInv, Pending
    <3> QED
      BY <1>3, <3>1
  <2>2. CASE e = NewEvent
    BY <1>1, <1>3, <2>2
  <2> QED
    BY <1>5, <1>7, <2>1, <2>2
<1>8. running \in Event => /\ running \in done
                           /\ asked'[running].region \in Region => asked'[running].time = schedule_time
  BY <1>3, <1>4 DEF PlacesInv
<1>9. /\ IsInjective(initList) /\ ToSet(initList) = Pending({"init"})
      /\ IsInjective(finalList) /\ ToSet(finalList) = Pending({"final"})
  BY DEF PlacesInv
<1>10. done' \subseteq 1..Len(asked')
  BY <1>1, <1>4
<1>11. \A d \in Nat : Holds(EventsAt(sched_list', d), Due(schedule_time + d)')
  BY <1>6
<1> QED
  BY <1>1, <1>5, <1>7, <1>8, <1>9, <1>10, <1>11 DEF PlacesInv

(* A new initialization or final event stands on its list only. *)
LEMMA AskEarlyPlaces ==
    ASSUME SInv, PlacesInv, AskInit \/ AskFinal
    PROVE  PlacesInv'
<1>1. /\ schedule_time \in Nat /\ Len(asked) \in Nat /\ 0 \in 0..MaxDelay
      /\ initList \in Seq(Event) /\ finalList \in Seq(Event)
  BY Facts DEF TypeOK
<1>2. PICK region \in {"init", "final"} :
          /\ NoteAsked(0, region)
          /\ region = "init" => initList' = Append(initList, NewEvent) /\ finalList' = finalList
          /\ region = "final" => finalList' = Append(finalList, NewEvent) /\ initList' = initList
  BY DEF AskInit, AskFinal
<1>3. UNCHANGED <<sched_list, schedule_time, running, done>>
  BY DEF AskInit, AskFinal
<1>4. /\ NewEvent \in Event /\ NewEvent \notin 1..Len(asked)
      /\ Len(asked') = NewEvent
      /\ \A e \in 1..Len(asked) : e \in 1..Len(asked') /\ asked'[e] = asked[e]
      /\ asked'[NewEvent].region = region
  BY <1>1, <1>2, NotedDown
<1>5. 1..Len(asked') = 1..Len(asked) \cup {NewEvent} /\ NewEvent \notin done /\ done \subseteq 1..Len(asked)
  <2>1. NewEvent = Len(asked) + 1
    BY DEF NewEvent
  <2>2. done \subseteq 1..Len(asked)
    BY DEF PlacesInv
  <2> QED
    BY <1>1, <1>4, <2>1, <2>2
<1>6. /\ region \notin Region
      /\ Pending(Region)' = Pending(Region)
      /\ Pending({region})' = Pending({region}) \cup {NewEvent}
      /\ \A q \in {"init", "final"} : q # region => Pending({q})' = Pending({q})
  <2>1. region \notin Region
    BY DEF Region
  <2> QED
    BY <1>3, <1>4, <1>5, <2>1 DEF Pending
<1>7. /\ IsInjective(initList) /\ ToSet(initList) = Pending({"init"})
      /\ IsInjective(finalList) /\ ToSet(finalList) = Pending({"final"})
      /\ NewEvent \notin ToSet(initList) /\ NewEvent \notin ToSet(finalList)
  BY <1>4 DEF PlacesInv, Pending
<1>8. /\ IsInjective(initList') /\ ToSet(initList') = Pending({"init"})'
      /\ IsInjective(finalList') /\ ToSet(finalList') = Pending({"final"})'
  <2>1. CASE region = "init"
    <3> DEFINE t == Append(initList, NewEvent)
    <3>1. IsInjective(t) /\ ToSet(t) = ToSet(initList) \cup {NewEvent}
      BY <1>1, <1>4, <1>7, ListGrows
    <3>2. initList' = t /\ finalList' = finalList
      BY <1>2, <2>1
    <3> HIDE DEF t
    <3>3. IsInjective(initList') /\ ToSet(initList') = ToSet(initList) \cup {NewEvent}
      BY <3>1, <3>2
    <3> QED
      BY <1>6, <1>7, <2>1, <3>2, <3>3
  <2>2. CASE region = "final"
    <3> DEFINE t == Append(finalList, NewEvent)
    <3>1. IsInjective(t) /\ ToSet(t) = ToSet(finalList) \cup {NewEvent}
      BY <1>1, <1>4, <1>7, ListGrows
    <3>2. finalList' = t /\ initList' = initList
      BY <1>2, <2>2
    <3> HIDE DEF t
    <3>3. IsInjective(finalList') /\ ToSet(finalList') = ToSet(finalList) \cup {NewEvent}
      BY <3>1, <3>2
    <3> QED
      BY <1>6, <1>7, <2>2, <3>2, <3>3
  <2> QED
    BY <2>1, <2>2
<1>9. \A e \in Pending(Region) : e \in 1..Len(asked) /\ asked'[e] = asked[e]
  BY <1>4 DEF Pending
<1>10. \A d \in Nat : Due(schedule_time + d)' = Due(schedule_time + d)
  BY <1>3, <1>6, <1>9 DEF Due
<1>11. \A d \in Nat : Holds(EventsAt(sched_list', d), Due(schedule_time + d)')
  BY <1>3, <1>10 DEF PlacesInv
<1>12. \A e \in Pending(Region)' : asked'[e].time >= schedule_time'
  BY <1>3, <1>6, <1>9 DEF PlacesInv
<1>13. running' \in Event => /\ running' \in done'
                             /\ asked'[running'].region \in Region => asked'[running'].time = schedule_time'
  BY <1>3, <1>4, <1>5 DEF PlacesInv
<1> QED
  BY <1>3, <1>5, <1>8, <1>11, <1>12, <1>13 DEF PlacesInv

(* The steps that leave the lists alone lose no event. *)
LEMMA QuietPlaces ==
    ASSUME PlacesInv, Finish \/ Stop \/ Return \/ StartOfSim \/ StopHandler \/ LeaveLoop
                      \/ StartFinals \/ Postsim \/ EnterRosync
    PROVE  PlacesInv'
<1>1. /\ UNCHANGED <<sched_list, initList, finalList, schedule_time, asked, done>>
      /\ running' \in {running, Nothing, Callback}
  BY DEF Finish, Stop, Return, StartOfSim, StopHandler, LeaveLoop, StartFinals, Postsim,
         EnterRosync, lists
<1>2. running' \in Event => running' = running
  BY <1>1, ScheduleAssumption DEF Event, Nothing, Callback
<1>3. running' \in Event => /\ running' \in done'
                            /\ asked'[running'].region \in Region => asked'[running'].time = schedule_time'
  BY <1>1, <1>2 DEF PlacesInv
<1>4. Pending(Region)' = Pending(Region) /\ Pending({"init"})' = Pending({"init"})
      /\ Pending({"final"})' = Pending({"final"})
  BY <1>1 DEF Pending
<1>5. \A d \in Nat : Due(schedule_time + d)' = Due(schedule_time + d)
  BY <1>1, <1>4 DEF Due
<1>6. \A d \in Nat : Holds(EventsAt(sched_list', d), Due(schedule_time + d)')
  BY <1>1, <1>5 DEF PlacesInv
<1> QED
  BY <1>1, <1>3, <1>4, <1>6 DEF PlacesInv

(* An initialization or final event that runs leaves its list. *)
LEMMA EarlyPlaces ==
    ASSUME SInv, PlacesInv, RunInit \/ RunFinal
    PROVE  PlacesInv'
<1>1. /\ initList \in Seq(Event) /\ finalList \in Seq(Event) /\ done \subseteq 1..Len(asked)
      /\ IsInjective(initList) /\ ToSet(initList) = Pending({"init"})
      /\ IsInjective(finalList) /\ ToSet(finalList) = Pending({"final"})
  BY Facts DEF TypeOK, PlacesInv
<1>2. UNCHANGED <<sched_list, schedule_time, asked>>
  BY DEF RunInit, RunFinal
<1>3. \E e \in Event, region \in {"init", "final"} :
          /\ e \in Pending({region})
          /\ running' = e /\ done' = done \cup {e}
          /\ IsInjective(initList') /\ IsInjective(finalList')
          /\ ToSet(initList') = ToSet(initList) \ {e}
          /\ ToSet(finalList') = ToSet(finalList) \ {e}
  <2>0. Pending({"init"}) \cap Pending({"final"}) = {}
    BY DEF Pending
  <2>1. CASE RunInit
    <3> DEFINE e == Head(initList)
    <3>1. /\ initList # <<>> /\ running' = e /\ done' = done \cup {e}
          /\ initList' = Tail(initList) /\ finalList' = finalList
      BY <2>1 DEF RunInit, Starts
    <3>2. /\ IsInjective(Tail(initList)) /\ ToSet(Tail(initList)) = ToSet(initList) \ {e}
          /\ e \in ToSet(initList) /\ ToSet(initList) \subseteq Event
      BY <1>1, <3>1, ListShrinks, EmptyList
    <3>3. ToSet(finalList) = ToSet(finalList) \ {e}
      BY <1>1, <2>0, <3>2
    <3> HIDE DEF e
    <3> QED
      BY <1>1, <3>1, <3>2, <3>3
  <2>2. CASE RunFinal
    <3> DEFINE e == Head(finalList)
    <3>1. /\ finalList # <<>> /\ running' = e /\ done' = done \cup {e}
          /\ finalList' = Tail(finalList) /\ initList' = initList
      BY <2>2 DEF RunFinal, Starts
    <3>2. /\ IsInjective(Tail(finalList)) /\ ToSet(Tail(finalList)) = ToSet(finalList) \ {e}
          /\ e \in ToSet(finalList) /\ ToSet(finalList) \subseteq Event
      BY <1>1, <3>1, ListShrinks, EmptyList
    <3>3. ToSet(initList) = ToSet(initList) \ {e}
      BY <1>1, <2>0, <3>2
    <3> HIDE DEF e
    <3> QED
      BY <1>1, <3>1, <3>2, <3>3
  <2> QED
    BY <2>1, <2>2
<1>4. PICK e \in Event, region \in {"init", "final"} :
          /\ e \in Pending({region})
          /\ running' = e /\ done' = done \cup {e}
          /\ IsInjective(initList') /\ IsInjective(finalList')
          /\ ToSet(initList') = ToSet(initList) \ {e}
          /\ ToSet(finalList') = ToSet(finalList) \ {e}
  BY <1>3, Zenon
<1>5. e \in 1..Len(asked) /\ asked[e].region = region /\ region \notin Region
  BY <1>4 DEF Pending, Region
<1>6. /\ Pending(Region)' = Pending(Region)
      /\ Pending({"init"})' = Pending({"init"}) \ {e}
      /\ Pending({"final"})' = Pending({"final"}) \ {e}
  BY <1>2, <1>4, <1>5 DEF Pending
<1>7. \A d \in Nat : Due(schedule_time + d)' = Due(schedule_time + d)
  BY <1>2, <1>6 DEF Due
<1>8. \A d \in Nat : Holds(EventsAt(sched_list', d), Due(schedule_time + d)')
  BY <1>2, <1>7 DEF PlacesInv
<1>9. running' \in Event => /\ running' \in done'
                            /\ asked'[running'].region \in Region => asked'[running'].time = schedule_time'
  BY <1>2, <1>4, <1>5
<1>10. \A x \in Pending(Region)' : asked'[x].time >= schedule_time'
  BY <1>2, <1>6 DEF PlacesInv
<1>11. /\ IsInjective(initList') /\ ToSet(initList') = Pending({"init"})'
       /\ IsInjective(finalList') /\ ToSet(finalList') = Pending({"final"})'
  BY <1>1, <1>4, <1>6
<1>12. done' \subseteq 1..Len(asked')
  BY <1>1, <1>2, <1>4, <1>5
<1> QED
  BY <1>8, <1>9, <1>10, <1>11, <1>12 DEF PlacesInv

(* An event that runs is taken off the one list it is on. *)
LEMMA RunLists ==
    ASSUME SInv, NEW W, Holds(Now, W), RunStart \/ RunActive \/ RunRosync
    PROVE  /\ Standing(sched_list, 0)
           /\ \E e \in Event, ev \in [Region -> Seq(Event)] :
                 /\ sched_list' = [sched_list EXCEPT ![1].events = ev]
                 /\ running' = e /\ done' = done \cup {e}
                 /\ e \in W /\ Holds(ev, W \ {e})
<1>1. PhaseInv
  BY Facts
<1>2. CASE RunStart \/ RunRosync
  <2>1. Standing(sched_list, 0)
    BY <1>1, <1>2 DEF RunStart, RunRosync, Idle, PhaseInv
  <2>2. Current = Now /\ Now \in [Region -> Seq(Event)]
    BY <2>1, CurrentStep
  <2>3. PICK r \in Region : TakeFrom(r) /\ Now[r] # <<>>
    BY <1>2, <2>2 DEF RunStart, RunRosync, Region
  <2> DEFINE ev == [Now EXCEPT ![r] = Tail(@)]
             e == Head(Now[r])
  <2>4. /\ ev \in [Region -> Seq(Event)]
        /\ sched_list' = [sched_list EXCEPT ![1].events = ev]
        /\ e \in Event
        /\ running' = e /\ done' = done \cup {e}
    BY <2>1, <2>3, TakeFromList
  <2>5. Now[r] \in Seq(Event) /\ IsInjective(Now[r])
    BY <2>2 DEF Holds
  <2>6. /\ IsInjective(Tail(Now[r])) /\ ToSet(Tail(Now[r])) = ToSet(Now[r]) \ {e}
        /\ e \in ToSet(Now[r])
    BY <2>3, <2>5, ListShrinks, EmptyList
  <2>7. ev[r] = Tail(Now[r]) /\ \A q \in Region : q # r => ev[q] = Now[q]
    BY <2>2
  <2> HIDE DEF ev, e
  <2>8. e \in W /\ Holds(ev, W \ {e})
    BY <2>6, <2>7, HoldsLess
  <2> QED
    BY <2>1, <2>4, <2>8
<1>3. CASE RunActive
  <2>1. Standing(sched_list, 0)
    BY <1>3, RunActiveLists
  <2>2. Now \in [Region -> Seq(Event)]
    BY <2>1, CurrentStep
  <2>3. PICK from \in {"active", "nbassign", "rwsync"} :
                 LET ev == [Now EXCEPT ![from] = <<>>, !["active"] = Tail(Now[from])]
                 IN  /\ from = "active" \/ Now["active"] = <<>>
                     /\ Now[from] # <<>>
                     /\ ev \in [Region -> Seq(Event)]
                     /\ sched_list' = [sched_list EXCEPT ![1].events = ev]
                     /\ Head(Now[from]) \in Event
                     /\ running' = Head(Now[from]) /\ done' = done \cup {Head(Now[from])}
    BY <1>3, RunActiveLists
  <2> DEFINE ev == [Now EXCEPT ![from] = <<>>, !["active"] = Tail(Now[from])]
             moved == [Now EXCEPT ![from] = Now["active"], !["active"] = Now[from]]
             e == Head(Now[from])
  <2>4. "active" \in Region /\ from \in Region
    BY DEF Region
  <2>5. /\ ev["active"] = Tail(Now[from])
        /\ \A q \in Region : q # "active" => ev[q] = IF q = from THEN <<>> ELSE Now[q]
        /\ moved["active"] = Now[from]
        /\ \A q \in Region : q # "active" => moved[q] = IF q = from THEN Now["active"] ELSE Now[q]
    BY <2>2, <2>4
  <2>6. Now[from] \in Seq(Event) /\ IsInjective(Now[from])
    BY <2>2, <2>4 DEF Holds
  <2>7. /\ IsInjective(Tail(Now[from])) /\ ToSet(Tail(Now[from])) = ToSet(Now[from]) \ {e}
        /\ e \in ToSet(Now[from])
    BY <2>3, <2>6, ListShrinks, EmptyList
  <2>8. /\ ev \in [Region -> Seq(Event)]
        /\ sched_list' = [sched_list EXCEPT ![1].events = ev]
        /\ e \in Event
        /\ running' = e /\ done' = done \cup {e}
    BY <2>3
  <2>9. from = "active" \/ Now["active"] = <<>>
    BY <2>3
  <2> HIDE DEF ev, moved, e
  <2>10. Holds(moved, W)
    <3>1. /\ Holds(Now, W) /\ moved["active"] = Now[from]
          /\ \A q \in Region : q # "active" => moved[q] = IF q = from THEN Now["active"] ELSE Now[q]
      BY <2>2, <2>5
    <3> QED
      BY <2>4, <3>1, HoldsMoved
  <2>11. \A q \in Region : q # "active" => ev[q] = moved[q]
    BY <2>5, <2>9
  <2>12. /\ e \in ToSet(moved["active"]) /\ IsInjective(ev["active"])
         /\ ToSet(ev["active"]) = ToSet(moved["active"]) \ {e}
    BY <2>5, <2>7
  <2>13. e \in W /\ Holds(ev, W \ {e})
    BY <2>4, <2>10, <2>11, <2>12, HoldsLess
  <2> QED
    BY <2>1, <2>8, <2>13
<1> QED
  BY <1>2, <1>3

(* An event that runs leaves the lists of the current time. *)
LEMMA RunPlaces ==
    ASSUME SInv, PlacesInv, RunStart \/ RunActive \/ RunRosync
    PROVE  PlacesInv'
<1>1. /\ UNCHANGED <<initList, finalList, schedule_time, asked>>
      /\ schedule_time \in Nat /\ schedule_time + 0 = schedule_time
      /\ done \subseteq 1..Len(asked)
      /\ IsInjective(initList) /\ ToSet(initList) = Pending({"init"})
      /\ IsInjective(finalList) /\ ToSet(finalList) = Pending({"final"})
  BY Facts DEF RunStart, RunActive, RunRosync, PlacesInv
<1>2. Holds(Now, Due(schedule_time))
  BY <1>1 DEF PlacesInv, Now
<1>3. /\ Standing(sched_list, 0)
      /\ \E e \in Event, ev \in [Region -> Seq(Event)] :
            /\ sched_list' = [sched_list EXCEPT ![1].events = ev]
            /\ running' = e /\ done' = done \cup {e}
            /\ e \in Due(schedule_time) /\ Holds(ev, Due(schedule_time) \ {e})
  BY <1>2, RunLists
<1>4. PICK e \in Event, ev \in [Region -> Seq(Event)] :
            /\ sched_list' = [sched_list EXCEPT ![1].events = ev]
            /\ running' = e /\ done' = done \cup {e}
            /\ e \in Due(schedule_time) /\ Holds(ev, Due(schedule_time) \ {e})
  BY <1>3, Zenon
<1>5. /\ EventsAt(sched_list', 0) = ev
      /\ \A d \in Nat : d # 0 => EventsAt(sched_list', d) = EventsAt(sched_list, d)
  BY <1>1, <1>3, <1>4, TakenStep
<1>6. /\ e \in Pending(Region) /\ e \in 1..Len(asked) /\ asked[e].region \in Region
      /\ asked[e].region \notin {"init", "final"}
      /\ asked[e].time = schedule_time
  BY <1>4 DEF Due, Pending, Region
<1>7. /\ Pending(Region)' = Pending(Region) \ {e}
      /\ Pending({"init"})' = Pending({"init"}) /\ Pending({"final"})' = Pending({"final"})
  BY <1>1, <1>4, <1>6 DEF Pending
<1>8. ASSUME NEW d \in Nat PROVE Holds(EventsAt(sched_list', d), Due(schedule_time + d)')
  <2>1. CASE d = 0
    <3>1. Due(schedule_time + d)' = Due(schedule_time) \ {e}
      BY <1>1, <1>7, <2>1 DEF Due
    <3> QED
      BY <1>4, <1>5, <2>1, <3>1
  <2>2. CASE d # 0
    <3>1. schedule_time + d # schedule_time
      BY <1>1, <2>2
    <3>2. Due(schedule_time + d)' = Due(schedule_time + d)
      BY <1>1, <1>6, <1>7, <3>1 DEF Due
    <3>3. Holds(EventsAt(sched_list, d), Due(schedule_time + d))
      BY DEF PlacesInv
    <3> QED
      BY <1>5, <2>2, <3>2, <3>3
  <2> QED
    BY <2>1, <2>2
<1>9. running' \in done' /\ (asked'[running'].region \in Region => asked'[running'].time = schedule_time')
  BY <1>1, <1>4, <1>6
<1>10. \A x \in Pending(Region)' : asked'[x].time >= schedule_time'
  BY <1>1, <1>7 DEF PlacesInv
<1>11. done' \subseteq 1..Len(asked')
  BY <1>1, <1>4, <1>6
<1>12. \A d \in Nat : Holds(EventsAt(sched_list', d), Due(schedule_time + d)')
  BY <1>8
<1> QED
  BY <1>1, <1>7, <1>9, <1>10, <1>11, <1>12 DEF PlacesInv

(* An event is due only when a step stands for its time. *)
LEMMA DueStands ==
    ASSUME PlacesInv, NEW d \in Nat, NEW e \in Due(schedule_time + d)
    PROVE  Standing(sched_list, d) /\ \E r \in Region : e \in ToSet(EventsAt(sched_list, d)[r])
<1>1. Holds(EventsAt(sched_list, d), Due(schedule_time + d))
  BY DEF PlacesInv
<1>2. CASE ~Standing(sched_list, d)
  <2>1. EventsAt(sched_list, d) = NoEvents
    BY <1>2 DEF EventsAt
  <2> QED
    BY <1>1, <2>1, HoldsNothing
<1> QED
  BY <1>1, <1>2 DEF Holds

(* When time goes on, the events of every step stay due at the same time. *)
LEMMA AdvanceTimePlaces ==
    ASSUME SInv, PlacesInv, AdvanceTime
    PROVE  PlacesInv'
<1>1. /\ sched_list \in Seq(Step) /\ Apart(sched_list) /\ schedule_time \in Nat
      /\ asked \in Seq(Asked)
      /\ done \subseteq 1..Len(asked)
      /\ IsInjective(initList) /\ ToSet(initList) = Pending({"init"})
      /\ IsInjective(finalList) /\ ToSet(finalList) = Pending({"final"})
  BY Facts DEF PlacesInv
<1> DEFINE D == Head(sched_list).delay
           new == [sched_list EXCEPT ![1].delay = 0]
<1>2. /\ sched_list # <<>> /\ D > 0
      /\ schedule_time' = schedule_time + D
      /\ sched_list' = new
      /\ running' = Callback
      /\ UNCHANGED <<initList, finalList, asked, done>>
  BY DEF AdvanceTime, Loop
<1>3. D \in Nat /\ \A d \in Nat : d < D => ~Standing(sched_list, d)
  BY <1>1, <1>2, FirstStep
<1>4. \A d \in Nat : EventsAt(new, d) = EventsAt(sched_list, d + D)
  BY <1>1, <1>2, TimeGoesOn
<1> HIDE DEF new, D
<1>5. /\ Pending(Region)' = Pending(Region) /\ Pending({"init"})' = Pending({"init"})
      /\ Pending({"final"})' = Pending({"final"})
  BY <1>2 DEF Pending
<1>6. ASSUME NEW d \in Nat PROVE Holds(EventsAt(sched_list', d), Due(schedule_time + d)')
  <2>1. d + D \in Nat /\ schedule_time + (d + D) = (schedule_time + D) + d
    BY <1>1, <1>3
  <2>2. Holds(EventsAt(sched_list, d + D), Due(schedule_time + (d + D)))
    BY <2>1 DEF PlacesInv
  <2>3. Due(schedule_time + d)' = Due(schedule_time + (d + D))
    BY <1>2, <1>5, <2>1 DEF Due
  <2> QED
    BY <1>2, <1>4, <2>2, <2>3
<1>7. ASSUME NEW e \in Pending(Region) PROVE asked[e].time >= schedule_time + D
  <2> DEFINE t == asked[e].time
  <2>1. t \in Nat /\ t >= schedule_time
    <3>1. e \in 1..Len(asked)
      BY DEF Pending
    <3>2. asked[e] \in Asked
      BY <1>1, <3>1
    <3>3. \A n \in 0..(MaxEvents * MaxDelay) : n \in Nat
      BY ScheduleAssumption
    <3> QED
      BY <3>2, <3>3 DEF Asked, PlacesInv
  <2>2. e \in Due(t)
    BY DEF Due
  <2> HIDE DEF t
  <2>3. t - schedule_time \in Nat /\ schedule_time + (t - schedule_time) = t
    BY <1>1, <2>1
  <2>4. Standing(sched_list, t - schedule_time)
    BY <2>2, <2>3, DueStands
  <2>5. ~(t - schedule_time < D)
    BY <1>3, <2>3, <2>4
  <2>6. t >= schedule_time + D
    BY <1>1, <1>3, <2>1, <2>5
  <2> QED
    BY <2>6 DEF t
<1>8. running' \notin Event
  BY <1>2, ScheduleAssumption DEF Callback, Event
<1>9. \A e \in Pending(Region)' : asked'[e].time >= schedule_time'
  BY <1>2, <1>5, <1>7
<1>10. \A d \in Nat : Holds(EventsAt(sched_list', d), Due(schedule_time + d)')
  BY <1>6
<1> QED
  BY <1>1, <1>2, <1>5, <1>8, <1>9, <1>10 DEF PlacesInv

(* The step that is released holds no event any more. *)
LEMMA EndStepPlaces ==
    ASSUME SInv, PlacesInv, "startNow" \notin Uses, EndStep
    PROVE  PlacesInv'
<1>1. /\ sched_list \in Seq(Step) /\ Apart(sched_list) /\ PhaseInv
  BY Facts
<1>2. /\ sched_list' = Tail(sched_list)
      /\ phase = "rosync"
      /\ Current["rosync"] = <<>> /\ Current["del_thr"] = <<>>
      /\ UNCHANGED <<initList, finalList, schedule_time, asked, done, running>>
  BY DEF EndStep, Idle
<1>3. Standing(sched_list, 0)
  BY <1>1, <1>2 DEF PhaseInv
<1>4. /\ sched_list # <<>> /\ Head(sched_list).delay = 0 /\ Current = Now
      /\ Now \in [Region -> Seq(Event)]
  BY <1>3, CurrentStep
<1> DEFINE new == Tail(sched_list)
<1>5. /\ \A d \in Nat : d # 0 => EventsAt(new, d) = EventsAt(sched_list, d)
      /\ EventsAt(new, 0) = NoEvents
  BY <1>1, <1>4, StepReleased
<1> HIDE DEF new
<1>6. Now = NoEvents
  <2>1. \A r \in Region : Now[r] = <<>>
    BY <1>1, <1>2, <1>4 DEF PhaseInv, Region
  <2> QED
    BY <1>4, <2>1 DEF NoEvents
<1>7. \A d \in Nat : EventsAt(sched_list', d) = EventsAt(sched_list, d)
  BY <1>2, <1>5, <1>6 DEF Now, new
<1>8. /\ Pending(Region)' = Pending(Region) /\ Pending({"init"})' = Pending({"init"})
      /\ Pending({"final"})' = Pending({"final"})
  BY <1>2 DEF Pending
<1>9. \A d \in Nat : Due(schedule_time + d)' = Due(schedule_time + d)
  BY <1>2, <1>8 DEF Due
<1>10. \A d \in Nat : Holds(EventsAt(sched_list', d), Due(schedule_time + d)')
  BY <1>7, <1>9 DEF PlacesInv
<1> QED
  BY <1>2, <1>8, <1>10 DEF PlacesInv

(* At first nothing is asked for. *)
LEMMA PlacesInvInit == Init => PlacesInv
<1> SUFFICES ASSUME Init PROVE PlacesInv
  OBVIOUS
<1>1. /\ sched_list = <<>> /\ initList = <<>> /\ finalList = <<>> /\ schedule_time = 0
      /\ running = Callback /\ asked = <<>> /\ done = {}
  BY DEF Init
<1>2. Len(<<>>) = 0 /\ 1..0 = {} /\ ToSet(<<>>) = {} /\ IsInjective(<<>>)
  BY DEF ToSet, IsInjective
<1>3. \A S : Pending(S) = {}
  BY <1>1, <1>2 DEF Pending
<1>4. \A t : Due(t) = {}
  BY <1>3 DEF Due
<1>5. \A d : EventsAt(sched_list, d) = NoEvents
  BY <1>1, <1>2 DEF EventsAt, Standing
<1>6. running \notin Event
  BY <1>1, ScheduleAssumption DEF Callback, Event
<1>7. \A d \in Nat : Holds(EventsAt(sched_list, d), Due(schedule_time + d))
  BY <1>4, <1>5, HoldsNothing
<1> QED
  BY <1>1, <1>2, <1>3, <1>6, <1>7 DEF PlacesInv

(* Every step keeps each event on a list of its time. *)
LEMMA PlacesInvNext ==
    ASSUME "startNow" \notin Uses
    PROVE  SInv /\ PlacesInv /\ [Next]_vars => PlacesInv'
<1> SUFFICES ASSUME SInv, PlacesInv, [Next]_vars PROVE PlacesInv'
  OBVIOUS
<1>1. ASSUME NEW delay \in 0..MaxDelay, NEW region \in Region, Ask(delay, region)
      PROVE  PlacesInv'
  BY <1>1, AskLists, AskedPlaces
<1>2. CASE Push
  <2>1. AskedFor(0, "active") /\ 0 \in 0..MaxDelay /\ "active" \in Region
    BY <1>2, PushLists, ScheduleAssumption DEF Region
  <2> QED
    BY <2>1, AskedPlaces
<1>3. CASE AskInit \/ AskFinal
  BY <1>3, AskEarlyPlaces
<1>4. CASE Finish \/ Stop \/ Return
  BY <1>4, QuietPlaces
<1>5. CASE Scheduler
  <2>1. CASE RunInit \/ RunFinal
    BY <2>1, EarlyPlaces
  <2>2. CASE StartOfSim \/ StopHandler \/ LeaveLoop \/ StartFinals \/ Postsim \/ EnterRosync
    BY <2>2, QuietPlaces
  <2>3. CASE AdvanceTime
    BY <2>3, AdvanceTimePlaces
  <2>4. CASE RunStart \/ RunActive \/ RunRosync
    BY <2>4, RunPlaces
  <2>5. CASE EndStep
    BY <2>5, EndStepPlaces
  <2> QED
    BY <1>5, <2>1, <2>2, <2>3, <2>4, <2>5 DEF Scheduler
<1>6. CASE UNCHANGED vars
  BY <1>6 DEF vars, lists, flags, PlacesInv, Due, Pending
<1> QED
  BY <1>1, <1>2, <1>3, <1>4, <1>5, <1>6 DEF Next, Over

(* A list of a step that holds an event is a list of the time it was asked for. *)
LEMMA PlaceOf ==
    ASSUME SInv, PlacesInv, NEW e, NEW p \in Places(e)
    PROVE  /\ p = <<p[1], p[2]>> /\ p[1] \in 1..Len(sched_list) /\ p[2] \in Region
           /\ After(sched_list)[p[1]] \in Nat
           /\ e \in Due(schedule_time + After(sched_list)[p[1]])
           /\ e \in ToSet(EventsAt(sched_list, After(sched_list)[p[1]])[p[2]])
<1> DEFINE i == p[1]
           r == p[2]
           d == After(sched_list)[i]
<1>1. /\ sched_list \in Seq(Step) /\ Apart(sched_list) /\ Len(sched_list) \in Nat
  BY Facts
<1>2. /\ p = <<i, r>> /\ i \in 1..Len(sched_list) /\ r \in Region
      /\ e \in ToSet(sched_list[i].events[r])
  BY DEF Places, Range, ToSet
<1> HIDE DEF i, r
<1>3. EventsAt(sched_list, d) = sched_list[i].events
  BY <1>1, <1>2, StepOfTime, Zenon
<1>4. d \in Nat
  <2>1. i \in 0..Len(sched_list)
    BY <1>1, <1>2
  <2> QED
    BY <1>1, <2>1, Times
<1> HIDE DEF d
<1>5. Holds(EventsAt(sched_list, d), Due(schedule_time + d))
  BY <1>4 DEF PlacesInv
<1>6. e \in Due(schedule_time + d)
  BY <1>2, <1>3, <1>5 DEF Holds
<1> QED
  BY <1>2, <1>3, <1>4, <1>6 DEF i, r, d

(* An event that has to run stands in just one place. *)
LEMMA OnePlace ==
    ASSUME SInv, PlacesInv, NEW e \in Pending(Region)
    PROVE  \E p : Places(e) = {p}
<1>1. /\ sched_list \in Seq(Step) /\ Apart(sched_list) /\ schedule_time \in Nat
      /\ asked \in Seq(Asked)
  BY Facts
<1> DEFINE d == asked[e].time - schedule_time
<1>2. d \in Nat /\ schedule_time + d = asked[e].time
  <2>1. e \in 1..Len(asked)
    BY DEF Pending
  <2>2. asked[e] \in Asked
    BY <1>1, <2>1
  <2>3. asked[e].time \in Nat /\ asked[e].time >= schedule_time
    <3>1. \A n \in 0..(MaxEvents * MaxDelay) : n \in Nat
      BY ScheduleAssumption
    <3> QED
      BY <2>2, <3>1 DEF Asked, PlacesInv
  <2> HIDE DEF Pending
  <2> QED
    BY <1>1, <2>3
<1> HIDE DEF d
<1>3. e \in Due(schedule_time + d)
  BY <1>2 DEF Due
<1>4. /\ \E i \in 1..Len(sched_list) : After(sched_list)[i] = d
      /\ \E r \in Region : e \in ToSet(EventsAt(sched_list, d)[r])
  BY <1>2, <1>3, DueStands DEF Standing
<1>5. PICK i \in 1..Len(sched_list) : After(sched_list)[i] = d
  BY <1>4
<1>6. PICK r \in Region : e \in ToSet(EventsAt(sched_list, d)[r])
  BY <1>4
<1>7. sched_list[i].events = EventsAt(sched_list, d)
  BY <1>1, <1>5, StepOfTime, Zenon
<1>8. <<i, r>> \in Places(e)
  BY <1>6, <1>7 DEF Places, Range, ToSet
<1>9. ASSUME NEW p \in Places(e) PROVE p = <<i, r>>
  <2>1. /\ p = <<p[1], p[2]>> /\ p[1] \in 1..Len(sched_list) /\ p[2] \in Region
        /\ After(sched_list)[p[1]] \in Nat
        /\ e \in Due(schedule_time + After(sched_list)[p[1]])
        /\ e \in ToSet(EventsAt(sched_list, After(sched_list)[p[1]])[p[2]])
    BY PlaceOf
  <2>2. schedule_time + After(sched_list)[p[1]] = schedule_time + d
    BY <1>2, <2>1 DEF Due
  <2>3. After(sched_list)[p[1]] = d
    BY <1>1, <1>2, <2>1, <2>2
  <2>4. p[1] = i
    <3>1. ~(p[1] < i) /\ ~(i < p[1])
      BY <1>1, <1>2, <1>5, <2>1, <2>3, TimesGrow
    <3> QED
      BY <1>1, <2>1, <3>1
  <2>5. p[2] = r
    <3>1. Holds(EventsAt(sched_list, d), Due(schedule_time + d))
      BY <1>2 DEF PlacesInv
    <3> QED
      BY <1>6, <2>1, <2>3, <3>1 DEF Holds
  <2> QED
    BY <2>1, <2>4, <2>5
<1> QED
  BY <1>8, <1>9

(* Every event that has to run stands on the lists of its time. *)
THEOREM PlacesInvariant ==
    ASSUME "startNow" \notin Uses
    PROVE  Spec => []PlacesInv
<1>1. SInv /\ PlacesInv /\ [Next]_vars => PlacesInv'
  BY PlacesInvNext
<1>2. Init => PlacesInv
  BY PlacesInvInit
<1> QED
  BY <1>1, <1>2, ListInvariant, PTL DEF Spec

(* However the list of time steps is changed, no event is lost, runs twice or   *)
(* moves to another time - unless cbAtStartOfSimTime is asked for at the time   *)
(* that is being run.                                                           *)
THEOREM NoEventIsLost ==
    ASSUME "startNow" \notin Uses
    PROVE  Spec => []NothingLost
<1>1. ASSUME SInv, PlacesInv PROVE NothingLost
  <2>1. /\ asked \in Seq(Asked) /\ running \in {Nothing, Callback} \cup Event
        /\ sched_list \in Seq(Step) /\ MaxEvents \in Nat
    BY <1>1, Facts DEF TypeOK
  <2>2. ASSUME running > 0, asked[running].region \notin {"init", "final"}
        PROVE  asked[running].time = schedule_time
    <3>1. running \in Event
      BY <2>1, <2>2 DEF Nothing, Callback
    <3>2. running \in 1..Len(asked)
      BY <1>1, <3>1 DEF PlacesInv
    <3>3. asked[running] \in Asked
      BY <2>1, <3>2
    <3> QED
      BY <1>1, <2>2, <3>1, <3>3 DEF PlacesInv, Asked
  <2>3. ASSUME NEW e \in 1..Len(asked)
        PROVE  LET early == e \in Range(initList) \/ e \in Range(finalList)
               IN  /\ Cardinality(Places(e)) = IF e \in done \/ early THEN 0 ELSE 1
                   /\ \A p \in Places(e) : schedule_time + After(sched_list)[p[1]] = asked[e].time
                   /\ ~(e \in done /\ early)
    <3> DEFINE early == e \in Range(initList) \/ e \in Range(finalList)
    <3>1. early <=> e \in Pending({"init"}) \cup Pending({"final"})
      BY <1>1 DEF PlacesInv, Range, ToSet
    <3> HIDE DEF early
    <3>2. \A p \in Places(e) : schedule_time + After(sched_list)[p[1]] = asked[e].time
      BY <1>1, PlaceOf DEF Due
    <3>3. ~(e \in done /\ early)
      BY <3>1 DEF Pending
    <3>4. CASE e \in done \/ early
      <4>1. e \notin Pending(Region)
        BY <3>1, <3>4 DEF Pending, Region
      <4>2. Places(e) = {}
        BY <1>1, <4>1, PlaceOf DEF Due
      <4> QED
        BY <3>2, <3>3, <3>4, <4>2, FS_EmptySet DEF early
    <3>5. CASE ~(e \in done \/ early)
      <4>1. asked[e] \in Asked
        BY <2>1
      <4>2. e \in Pending(Region)
        BY <3>1, <3>5, <4>1 DEF Pending, Asked
      <4>3. PICK p : Places(e) = {p}
        BY <1>1, <4>2, OnePlace
      <4>4. Cardinality(Places(e)) = 1
        BY <4>3, FS_Singleton
      <4> QED
        BY <3>2, <3>3, <3>5, <4>4 DEF early
    <3> QED
      BY <3>4, <3>5
  <2> QED
    BY <2>2, <2>3 DEF NothingLost
<1>2. SInv /\ PlacesInv => NothingLost
  BY <1>1
<1> QED
  BY <1>2, ListInvariant, PlacesInvariant, PTL

--------------------------------------------------------------------------------
(* The list of time steps implements the stratified event queue.                *)

Horizon == MaxEvents * MaxDelay

(* The events of each time, as seen from the time now *)
ByTime(list, now) == [t \in 0..Horizon |-> EventsAt(list, t - now)]

(* No step stands for a time that is over. *)
LEMMA StandsLater ==
    ASSUME NEW list \in Seq(Step), NEW d, Standing(list, d)
    PROVE  d \in Nat
<1>1. PICK i \in 1..Len(list) : After(list)[i] = d
  BY DEF Standing
<1>2. i \in 0..Len(list)
  OBVIOUS
<1> QED
  BY <1>1, <1>2, Times

(* What a list looks like from the abstract queue *)
LEMMA QueueOf ==
    ASSUME NEW list \in Seq(Step), NEW now \in Nat
    PROVE  LET at == After(list)
               when == {now + at[i] : i \in DOMAIN list}
           IN  [t \in 0..Horizon |-> IF t \in when THEN list[Index(list, t - now)].events
                                     ELSE [r \in Region |-> <<>>]]
               = ByTime(list, now)
<1> DEFINE at == After(list)
           when == {now + at[i] : i \in DOMAIN list}
<1>1. at \in [0..Len(list) -> Nat] /\ DOMAIN list = 1..Len(list) /\ Len(list) \in Nat
  BY Times
<1>2. ASSUME NEW t \in 0..Horizon PROVE t \in when <=> Standing(list, t - now)
  <2>1. t \in Nat
    BY ScheduleAssumption DEF Horizon
  <2>2. \A i \in 1..Len(list) : at[i] \in Nat
    BY <1>1
  <2> HIDE DEF at
  <2>3. \A i \in 1..Len(list) : t = now + at[i] <=> at[i] = t - now
    BY <2>1, <2>2
  <2> QED
    BY <1>1, <2>3 DEF Standing, at
<1> HIDE DEF when
<1>3. \A t \in 0..Horizon :
          (IF t \in when THEN list[Index(list, t - now)].events ELSE [r \in Region |-> <<>>])
          = EventsAt(list, t - now)
  BY <1>2 DEF EventsAt, NoEvents
<1> QED
  BY <1>3 DEF ByTime, when, at

(* The abstract queue before and after a step *)
LEMMA QueueIs ==
    ASSUME SInv, SInv'
    PROVE  /\ pending = ByTime(sched_list, schedule_time)
           /\ pending' = ByTime(sched_list', schedule_time')
           /\ \A t \in 0..Horizon : pending[t] = EventsAt(sched_list, t - schedule_time)
           /\ pending[schedule_time] = Now
           /\ Horizon \in Nat /\ schedule_time \in 0..Horizon
<1>1. sched_list \in Seq(Step) /\ schedule_time \in Nat /\ schedule_time \in 0..Horizon
  BY Facts DEF TypeOK, Horizon
<1>2. sched_list' \in Seq(Step) /\ schedule_time' \in Nat
  <2>1. sched_list' \in Seq(Step) /\ schedule_time' \in 0..Horizon
    BY DEF SInv, TypeOK, Step, Horizon
  <2> QED
    BY <2>1, ScheduleAssumption DEF Horizon
<1>3. pending = ByTime(sched_list, schedule_time)
  BY <1>1, QueueOf, Zenon DEF pending, Horizon
<1>4. pending' = ByTime(sched_list', schedule_time')
  BY <1>2, QueueOf, Zenon DEF pending, Horizon
<1>5. \A t \in 0..Horizon : pending[t] = EventsAt(sched_list, t - schedule_time)
  BY <1>3 DEF ByTime
<1>6. pending[schedule_time] = Now
  <2>1. schedule_time - schedule_time = 0
    BY <1>1
  <2> QED
    BY <1>1, <1>5, <2>1 DEF Now
<1>7. Horizon \in Nat
  BY ScheduleAssumption DEF Horizon
<1> QED
  BY <1>1, <1>3, <1>4, <1>5, <1>6, <1>7

(* The events of one time change. *)
LEMMA QueueChanges ==
    ASSUME SInv, SInv', NEW delay \in Nat, schedule_time + delay \in 0..Horizon, NEW ev,
           schedule_time' = schedule_time,
           \A d \in Nat : EventsAt(sched_list', d) =
                              IF d = delay THEN ev ELSE EventsAt(sched_list, d)
    PROVE  /\ pending' = [pending EXCEPT ![schedule_time + delay] = ev]
           /\ pending[schedule_time + delay] = EventsAt(sched_list, delay)
<1>1. /\ pending = ByTime(sched_list, schedule_time)
      /\ pending' = ByTime(sched_list', schedule_time)
      /\ schedule_time \in Nat /\ Horizon \in Nat
  BY QueueIs, Facts
<1>2. sched_list \in Seq(Step) /\ sched_list' \in Seq(Step)
  BY Facts DEF SInv, TypeOK, Step
<1>3. ASSUME NEW t \in 0..Horizon
      PROVE  EventsAt(sched_list', t - schedule_time)
             = IF t = schedule_time + delay THEN ev ELSE EventsAt(sched_list, t - schedule_time)
  <2>1. t \in Nat /\ (t - schedule_time = delay <=> t = schedule_time + delay)
    BY <1>1
  <2>2. CASE t - schedule_time \in Nat
    BY <2>1, <2>2
  <2>3. CASE t - schedule_time \notin Nat
    <3>1. ~Standing(sched_list, t - schedule_time) /\ ~Standing(sched_list', t - schedule_time)
      BY <1>2, <2>3, StandsLater
    <3>2. t # schedule_time + delay
      BY <2>1, <2>3
    <3> QED
      BY <3>1, <3>2 DEF EventsAt
  <2> QED
    BY <2>2, <2>3
<1>4. (schedule_time + delay) - schedule_time = delay
  BY <1>1
<1>5. \A t \in 0..Horizon :
          ByTime(sched_list', schedule_time)[t]
          = [ByTime(sched_list, schedule_time) EXCEPT ![schedule_time + delay] = ev][t]
  BY <1>3 DEF ByTime
<1> QED
  BY <1>1, <1>4, <1>5 DEF ByTime

(* The events of the current time change. *)
LEMMA NowChanges ==
    ASSUME SInv, SInv', Standing(sched_list, 0), NEW ev \in [Region -> Seq(Event)],
           sched_list' = [sched_list EXCEPT ![1].events = ev],
           UNCHANGED <<schedule_time, asked>>
    PROVE  pending' = [pending EXCEPT ![schedule_time] = ev]
<1>1. schedule_time \in 0..Horizon /\ schedule_time \in Nat /\ schedule_time + 0 = schedule_time
  BY QueueIs, Facts
<1>2. /\ EventsAt(sched_list', 0) = ev
      /\ \A d \in Nat : d # 0 => EventsAt(sched_list', d) = EventsAt(sched_list, d)
  BY TakenStep
<1>3. \A d \in Nat : EventsAt(sched_list', d) = IF d = 0 THEN ev ELSE EventsAt(sched_list, d)
  BY <1>2
<1>4. schedule_time + 0 \in 0..Horizon
  BY <1>1
<1>5. pending' = [pending EXCEPT ![schedule_time + 0] = ev]
  BY <1>3, <1>4, QueueChanges
<1> QED
  BY <1>1, <1>5

(* The values of the abstract queue *)
LEMMA QueueType ==
    ASSUME SInv, SInv'
    PROVE  pending \in [0..Horizon -> [Region -> Seq(Event)]]
<1>1. pending = ByTime(sched_list, schedule_time)
  BY QueueIs
<1>2. \A d : EventsAt(sched_list, d) \in [Region -> Seq(Event)]
  BY Facts
<1> QED
  BY <1>1, <1>2 DEF ByTime

(* An event is asked for. *)
LEMMA AskQueue ==
    ASSUME SInv, SInv', NEW delay \in 0..MaxDelay, NEW region \in Region, AskedFor(delay, region)
    PROVE  Queue!Ask \/ \E e \in Event : Queue!AskFirst(e)
<1>1. /\ NoteAsked(delay, region) /\ schedule_time' = schedule_time
      /\ delay \in Nat /\ schedule_time \in Nat
  BY Facts DEF AskedFor
<1>2. PICK r \in Region, ev \in [Region -> Seq(Event)] : Put(delay, region, r, ev)
  BY DEF AskedFor
<1>3. /\ NewEvent \in Event /\ asked' \in Seq(Asked) /\ Len(asked') = NewEvent
      /\ asked'[NewEvent].time = schedule_time + delay
  BY <1>1, NotedDown
<1> DEFINE t == schedule_time + delay
<1>4. t \in 0..Horizon /\ t \in schedule_time..Horizon
  <2>1. asked'[NewEvent] \in Asked
    BY <1>3 DEF Event
  <2>2. t \in 0..Horizon
    BY <1>3, <2>1 DEF Asked, Horizon
  <2>3. Horizon \in Nat
    BY QueueIs
  <2> QED
    BY <1>1, <2>2, <2>3
<1>5. /\ pending' = [pending EXCEPT ![t] = ev]
      /\ pending[t] = EventsAt(sched_list, delay)
  BY <1>1, <1>2, <1>4, QueueChanges DEF Put
<1>6. /\ pending \in [0..Horizon -> [Region -> Seq(Event)]]
      /\ pending[schedule_time] = EventsAt(sched_list, 0)
  BY QueueType, QueueIs DEF Now
<1>7. \A q \in Region : q # r => ev[q] = pending[t][q]
  BY <1>2, <1>5 DEF Put
<1>8. \/ ev[r] = Append(pending[t][r], NewEvent)
      \/ ev[r] = <<NewEvent>> \o pending[t][r] /\ r = "active" /\ delay = 0
  BY <1>2, <1>5 DEF Put
<1>9. delay = 0 => t = schedule_time
  BY <1>1
<1> HIDE DEF t
<1>10. CASE ev[r] = Append(pending[t][r], NewEvent)
  <2>1. ev = [pending[t] EXCEPT ![r] = Append(@, NewEvent)]
    BY <1>4, <1>6, <1>7, <1>10
  <2>2. pending' = [pending EXCEPT ![t][r] = Append(@, NewEvent)]
    BY <1>4, <1>5, <1>6, <2>1
  <2>3. /\ t \in schedule_time..(MaxEvents * MaxDelay) /\ r \in Queue!Region
        /\ NewEvent \in Event
    BY <1>3, <1>4 DEF Queue!Region, Region, Horizon
  <2> DEFINE Behind(u, q, e) == [pending EXCEPT ![u][q] = Append(pending[u][q], e)]
             results == {Behind(u, q, e) : u \in schedule_time..(MaxEvents * MaxDelay),
                                           q \in Queue!Region, e \in Event}
  <2>4. pending' \in results
    <3>1. pending' = Behind(t, r, NewEvent)
      BY <2>2
    <3> HIDE DEF Behind
    <3> QED
      BY <2>3, <3>1
  <2>5. Queue!Ask
    BY <1>1, <2>4 DEF Queue!Ask
  <2> QED
    BY <2>5
<1>11. CASE ev[r] = <<NewEvent>> \o pending[t][r] /\ r = "active" /\ delay = 0
  <2>1. ev = [pending[t] EXCEPT !["active"] = <<NewEvent>> \o @]
    BY <1>4, <1>6, <1>7, <1>11
  <2>2. pending' = [pending EXCEPT ![schedule_time]["active"] = <<NewEvent>> \o @]
    BY <1>4, <1>5, <1>6, <1>9, <1>11, <2>1
  <2> QED
    BY <1>1, <1>3, <2>2 DEF Queue!AskFirst
<1> QED
  BY <1>8, <1>10, <1>11

(* The first event of a region runs. *)
LEMMA TakeQueue ==
    ASSUME SInv, SInv', Standing(sched_list, 0), NEW r \in Region, Now[r] # <<>>, TakeFrom(r),
           UNCHANGED <<schedule_time, asked>>
    PROVE  Queue!Take(r)
<1> DEFINE ev == [Now EXCEPT ![r] = Tail(@)]
<1>1. ev \in [Region -> Seq(Event)] /\ sched_list' = [sched_list EXCEPT ![1].events = ev]
  BY TakeFromList
<1> HIDE DEF ev
<1>2. pending' = [pending EXCEPT ![schedule_time] = ev]
  BY <1>1, NowChanges
<1>3. /\ pending[schedule_time] = Now /\ schedule_time \in 0..Horizon
      /\ pending \in [0..Horizon -> [Region -> Seq(Event)]]
  BY QueueIs, QueueType
<1>4. pending' = [pending EXCEPT ![schedule_time][r] = Tail(@)]
  BY <1>2, <1>3 DEF ev
<1> QED
  BY <1>3, <1>4 DEF Queue!Take

(* Events run region by region. *)
LEMMA RunQueue ==
    ASSUME SInv, SInv', "startNow" \notin Uses, RunStart \/ RunActive \/ RunRosync
    PROVE  Queue!Run
<1>1. PhaseInv /\ UNCHANGED <<schedule_time, asked>>
  BY Facts DEF RunStart, RunActive, RunRosync
<1>2. /\ pending[schedule_time] = Now /\ schedule_time \in 0..Horizon
      /\ pending \in [0..Horizon -> [Region -> Seq(Event)]]
  BY QueueIs, QueueType
<1>3. \A S : Queue!Empty(S) <=> \A q \in S : Now[q] = <<>>
  BY <1>2 DEF Queue!Empty
<1>4. CASE RunStart
  <2>1. Standing(sched_list, 0)
    BY <1>1, <1>4 DEF RunStart, Idle, PhaseInv
  <2>2. TakeFrom("start") /\ Now["start"] # <<>> /\ "start" \in Region
    BY <1>4, <2>1, CurrentStep DEF RunStart, Region
  <2>3. Queue!Take("start")
    BY <1>1, <2>1, <2>2, TakeQueue
  <2> QED
    BY <2>3 DEF Queue!Run
<1>5. CASE RunRosync
  <2>1. phase = "rosync" /\ Standing(sched_list, 0)
    BY <1>1, <1>5 DEF RunRosync, Idle, PhaseInv
  <2>2. \A q \in {"start", "active", "nbassign", "rwsync"} : Now[q] = <<>>
    BY <1>1, <2>1 DEF PhaseInv
  <2>3. PICK r \in {"rosync", "del_thr"} :
            TakeFrom(r) /\ Now[r] # <<>> /\ (r = "del_thr" => Now["rosync"] = <<>>)
    BY <1>5, <2>1, CurrentStep DEF RunRosync
  <2>4. Queue!Take(r)
    BY <1>1, <2>1, <2>3, TakeQueue DEF Region
  <2>5. /\ Queue!Empty({"start", "active", "nbassign", "rwsync"})
        /\ r = "del_thr" => Queue!Empty(Queue!Region \ {"del_thr"})
    BY <1>3, <2>2, <2>3 DEF Queue!Region
  <2> QED
    BY <2>3, <2>4, <2>5 DEF Queue!Run
<1>6. CASE RunActive
  <2>1. Standing(sched_list, 0) /\ (phase = "start" => Now["start"] = <<>>)
    BY <1>6, RunActiveLists
  <2>2. Now["start"] = <<>> /\ Now \in [Region -> Seq(Event)]
    BY <1>1, <2>1, CurrentStep DEF PhaseInv
  <2>3. PICK from \in {"active", "nbassign", "rwsync"} :
                 LET ev == [Now EXCEPT ![from] = <<>>, !["active"] = Tail(Now[from])]
                 IN  /\ from = "active" \/ Now["active"] = <<>>
                     /\ from = "rwsync" => Now["nbassign"] = <<>>
                     /\ Now[from] # <<>>
                     /\ ev \in [Region -> Seq(Event)]
                     /\ sched_list' = [sched_list EXCEPT ![1].events = ev]
                     /\ Head(Now[from]) \in Event
                     /\ running' = Head(Now[from]) /\ done' = done \cup {Head(Now[from])}
    BY <1>6, RunActiveLists
  <2> DEFINE ev == [Now EXCEPT ![from] = <<>>, !["active"] = Tail(Now[from])]
  <2>4. /\ from = "active" \/ Now["active"] = <<>>
        /\ from = "rwsync" => Now["nbassign"] = <<>>
        /\ Now[from] # <<>>
        /\ ev \in [Region -> Seq(Event)]
        /\ sched_list' = [sched_list EXCEPT ![1].events = ev]
    BY <2>3
  <2>5. pending' = [pending EXCEPT ![schedule_time] = ev]
    <3> HIDE DEF ev
    <3> QED
      BY <1>1, <2>1, <2>4, NowChanges
  <2>6. "active" \in Region /\ from \in Region
    BY DEF Region
  <2>7. CASE from = "active"
    <3>1. ev = [Now EXCEPT !["active"] = Tail(@)]
      BY <2>2, <2>6, <2>7
    <3>2. pending' = [pending EXCEPT ![schedule_time]["active"] = Tail(@)]
      BY <1>2, <2>5, <3>1
    <3>3. Queue!Take("active")
      BY <1>1, <1>2, <2>4, <2>7, <3>2 DEF Queue!Take
    <3>4. Queue!Empty({"start"})
      BY <1>3, <2>2
    <3> QED
      BY <3>3, <3>4 DEF Queue!Run
  <2>8. CASE from # "active"
    <3>1. pending' = [pending EXCEPT ![schedule_time]["active"] = Tail(pending[schedule_time][from]),
                                     ![schedule_time][from] = <<>>]
      <4> DEFINE abstract == [Now EXCEPT !["active"] = Tail(Now[from]), ![from] = <<>>]
      <4>1. ev = abstract
        BY <2>2, <2>6, <2>8
      <4>2. [pending EXCEPT ![schedule_time]["active"] = Tail(pending[schedule_time][from]),
                            ![schedule_time][from] = <<>>]
            = [pending EXCEPT ![schedule_time] = abstract]
        BY <1>2
      <4> QED
        BY <2>5, <4>1, <4>2
    <3>2. Queue!Activate(from)
      BY <1>1, <1>2, <2>4, <3>1 DEF Queue!Activate
    <3>3. /\ Queue!Empty({"start", "active"})
          /\ from = "rwsync" => Queue!Empty({"start", "active", "nbassign"})
      BY <1>3, <2>2, <2>4, <2>8
    <3> QED
      BY <2>8, <3>2, <3>3 DEF Queue!Run
  <2> QED
    BY <2>7, <2>8
<1> QED
  BY <1>4, <1>5, <1>6

(* What leaves the lists and the time alone *)
LEMMA QueueKept ==
    ASSUME SInv, SInv', UNCHANGED <<sched_list, schedule_time>>
    PROVE  UNCHANGED <<schedule_time, pending>>
<1>1. pending = ByTime(sched_list, schedule_time) /\ pending' = ByTime(sched_list', schedule_time')
  BY QueueIs
<1>2. sched_list' = sched_list /\ schedule_time' = schedule_time
  OBVIOUS
<1>3. ByTime(sched_list', schedule_time') = ByTime(sched_list, schedule_time)
  BY <1>2
<1> QED
  BY <1>1, <1>2, <1>3

(* Time goes on to the next time that has an event. *)
LEMMA AdvanceQueue ==
    ASSUME SInv, SInv', AdvanceTime
    PROVE  Queue!Advance
<1>1. /\ sched_list \in Seq(Step) /\ Apart(sched_list) /\ schedule_time \in Nat
      /\ StepsInv /\ BoundInv
      /\ \A d : EventsAt(sched_list, d) \in [Region -> Seq(Event)]
  BY Facts
<1> DEFINE D == Head(sched_list).delay
           new == [sched_list EXCEPT ![1].delay = 0]
           t == schedule_time + D
<1>2. sched_list # <<>> /\ D > 0 /\ schedule_time' = t /\ sched_list' = new
  BY DEF AdvanceTime, Loop
<1>3. /\ D \in Nat /\ Standing(sched_list, D)
      /\ \A d \in Nat : d < D => ~Standing(sched_list, d)
  BY <1>1, <1>2, FirstStep
<1>4. \A d \in Nat : EventsAt(new, d) = EventsAt(sched_list, d + D)
  BY <1>1, <1>2, TimeGoesOn
<1>5. new \in Seq(Step)
  BY <1>1, <1>2, TimeGoesOn
<1> HIDE DEF new, D
<1>6. /\ pending = ByTime(sched_list, schedule_time) /\ pending' = ByTime(new, t)
      /\ \A u \in 0..Horizon : pending[u] = EventsAt(sched_list, u - schedule_time)
      /\ Horizon \in Nat /\ schedule_time \in 0..Horizon
  BY <1>2, QueueIs
<1>7. t \in Nat /\ t \in 0..Horizon /\ t > schedule_time
  <2>1. t =< Len(asked) * MaxDelay
    BY <1>1, <1>3 DEF BoundInv
  <2>2. Len(asked) * MaxDelay =< Horizon /\ Len(asked) * MaxDelay \in Nat
    BY Facts, Reach DEF Horizon
  <2>3. D \in Nat /\ D > 0
    BY <1>2, <1>3
  <2> QED
    BY <1>1, <1>6, <2>1, <2>2, <2>3
<1>8. \A d : d < D /\ d \in Int => EventsAt(sched_list, d) = NoEvents
  BY <1>1, <1>3, StandsLater DEF EventsAt
<1>9. ASSUME NEW u \in 0..Horizon PROVE EventsAt(new, u - t) = EventsAt(sched_list, u - schedule_time)
  <2>1. u \in Nat /\ u - t \in Int /\ u - schedule_time \in Int
    BY <1>1, <1>7
  <2>2. CASE u - t \in Nat
    <3>1. (u - t) + D = u - schedule_time
      BY <1>1, <1>3, <2>1
    <3> QED
      BY <1>4, <2>2, <3>1
  <2>3. CASE u - t \notin Nat
    <3>1. EventsAt(new, u - t) = NoEvents
      BY <1>5, <2>3, StandsLater DEF EventsAt
    <3>2. u - schedule_time < D
      BY <1>1, <1>3, <2>1, <2>3
    <3> QED
      BY <1>8, <2>1, <3>1, <3>2
  <2> QED
    BY <2>2, <2>3
<1>10. pending' = pending
  BY <1>6, <1>9 DEF ByTime
<1>11. \A u \in schedule_time..(t - 1), r \in Region : pending[u][r] = <<>>
  <2> SUFFICES ASSUME NEW u \in schedule_time..(t - 1), NEW r \in Region PROVE pending[u][r] = <<>>
    OBVIOUS
  <2>1. u \in 0..Horizon /\ u - schedule_time \in Int /\ u - schedule_time < D
    BY <1>1, <1>3, <1>6, <1>7
  <2>2. pending[u] = NoEvents
    BY <1>6, <1>8, <2>1
  <2> QED
    BY <2>2 DEF NoEvents
<1>12. \E r \in Region : pending[t][r] # <<>>
  <2>1. t - schedule_time = D
    BY <1>1, <1>3
  <2>2. pending[t] = EventsAt(sched_list, D)
    BY <1>6, <1>7, <2>1
  <2>3. EventsAt(sched_list, D) # NoEvents
    BY <1>1, <1>2, <1>3 DEF StepsInv
  <2>4. pending[t] # NoEvents /\ pending[t] \in [Region -> Seq(Event)]
    BY <1>1, <2>2, <2>3
  <2> QED
    BY <2>4 DEF NoEvents
<1>13. /\ t \in (schedule_time + 1)..Horizon
       /\ schedule_time \in schedule_time..(t - 1)
       /\ \A u \in (schedule_time + 1)..(t - 1) : u \in schedule_time..(t - 1)
  BY <1>1, <1>6, <1>7
<1>14. schedule_time' = t
  BY <1>2
<1> HIDE DEF t
<1>15. Queue!Empty(Region)
  BY <1>11, <1>13 DEF Queue!Empty
<1>16. Queue!Region = Region
  BY DEF Queue!Region, Region
<1>17. /\ \E r \in Queue!Region : pending[t][r] # <<>>
       /\ \A u \in (schedule_time + 1)..(t - 1), r \in Queue!Region : pending[u][r] = <<>>
       /\ Queue!Empty(Queue!Region)
       /\ t \in (schedule_time + 1)..(MaxEvents * MaxDelay)
  BY <1>11, <1>12, <1>13, <1>15, <1>16 DEF Horizon
<1> QED
  BY <1>10, <1>14, <1>17, Zenon DEF Queue!Advance

(* The step that is released has no events any more. *)
LEMMA EndStepQueue ==
    ASSUME SInv, SInv', "startNow" \notin Uses, EndStep
    PROVE  UNCHANGED <<schedule_time, pending>>
<1>1. /\ sched_list' = Tail(sched_list) /\ schedule_time' = schedule_time
      /\ phase = "rosync" /\ Current["rosync"] = <<>> /\ Current["del_thr"] = <<>>
  BY DEF EndStep, Idle
<1>2. /\ PhaseInv /\ sched_list \in Seq(Step) /\ Apart(sched_list)
      /\ schedule_time \in Nat
  BY Facts
<1>3. Standing(sched_list, 0)
  BY <1>1, <1>2 DEF PhaseInv
<1>4. /\ sched_list # <<>> /\ Head(sched_list).delay = 0 /\ Current = Now
      /\ Now \in [Region -> Seq(Event)]
  BY <1>3, CurrentStep
<1>5. Now = NoEvents
  <2>1. \A r \in Region : Now[r] = <<>>
    BY <1>1, <1>2, <1>4 DEF PhaseInv, Region
  <2> QED
    BY <1>4, <2>1 DEF NoEvents
<1> DEFINE new == Tail(sched_list)
<1>6. /\ \A d \in Nat : d # 0 => EventsAt(new, d) = EventsAt(sched_list, d)
      /\ EventsAt(new, 0) = NoEvents
      /\ new \in Seq(Step)
  BY <1>2, <1>4, StepReleased
<1>7. sched_list' = new
  BY <1>1
<1> HIDE DEF new
<1>8. \A d \in Nat : EventsAt(new, d) = EventsAt(sched_list, d)
  BY <1>5, <1>6 DEF Now
<1>9. \A d : d \notin Nat => EventsAt(new, d) = NoEvents /\ EventsAt(sched_list, d) = NoEvents
  BY <1>2, <1>6, StandsLater DEF EventsAt
<1>10. \A d : EventsAt(new, d) = EventsAt(sched_list, d)
  BY <1>8, <1>9
<1>11. pending = ByTime(sched_list, schedule_time) /\ pending' = ByTime(new, schedule_time)
  BY <1>1, <1>7, QueueIs
<1> QED
  BY <1>1, <1>10, <1>11 DEF ByTime

(* The scheduler implements the stratified event queue: events run region by    *)
(* region, first in first out in each, and time goes to the next event - unless *)
(* cbAtStartOfSimTime is asked for at the time that is being run.               *)
THEOREM QueueImplemented ==
    ASSUME "startNow" \notin Uses
    PROVE  Spec => ImplementsQueue
<1>1. Init => Queue!Init
  <2> SUFFICES ASSUME Init PROVE Queue!Init
    OBVIOUS
  <2>1. sched_list = <<>> /\ schedule_time = 0
    BY DEF Init
  <2>2. sched_list \in Seq(Step) /\ \A d : EventsAt(sched_list, d) = NoEvents
    BY <2>1 DEF EventsAt, Standing
  <2>3. schedule_time \in Nat
    BY <2>1
  <2>4. pending = ByTime(sched_list, schedule_time)
    BY <2>2, <2>3, QueueOf, Zenon DEF pending, Horizon
  <2> QED
    BY <2>1, <2>2, <2>4 DEF ByTime, NoEvents, Horizon, Queue!Init, Queue!Region, Region
<1>2. ASSUME SInv, SInv', [Next]_vars
      PROVE  Queue!Next \/ UNCHANGED <<schedule_time, pending>>
  <2>1. ASSUME NEW delay \in 0..MaxDelay, NEW region \in Region, Ask(delay, region)
        PROVE  Queue!Next
    BY <1>2, <2>1, AskLists, AskQueue DEF Queue!Next
  <2>2. CASE Push
    <3>1. AskedFor(0, "active") /\ 0 \in 0..MaxDelay /\ "active" \in Region
      BY <1>2, <2>2, PushLists, ScheduleAssumption DEF Region
    <3> QED
      BY <1>2, <3>1, AskQueue DEF Queue!Next
  <2>3. CASE AskInit \/ AskFinal \/ Finish \/ Stop \/ Return \/ UNCHANGED vars
    <3>1. UNCHANGED <<sched_list, schedule_time>>
      BY <2>3 DEF AskInit, AskFinal, Finish, Stop, Return, vars, lists
    <3> QED
      BY <1>2, <3>1, QueueKept
  <2>4. CASE Scheduler
    <3>1. CASE RunInit \/ StartOfSim \/ StopHandler \/ EnterRosync \/ LeaveLoop \/ StartFinals
               \/ RunFinal \/ Postsim
      <4>1. UNCHANGED <<sched_list, schedule_time>>
        BY <3>1 DEF RunInit, StartOfSim, StopHandler, EnterRosync, LeaveLoop, StartFinals,
                    RunFinal, Postsim, lists
      <4> QED
        BY <1>2, <4>1, QueueKept
    <3>2. CASE AdvanceTime
      BY <1>2, <3>2, AdvanceQueue DEF Queue!Next
    <3>3. CASE RunStart \/ RunActive \/ RunRosync
      BY <1>2, <3>3, RunQueue DEF Queue!Next
    <3>4. CASE EndStep
      BY <1>2, <3>4, EndStepQueue
    <3> QED
      BY <2>4, <3>1, <3>2, <3>3, <3>4 DEF Scheduler
  <2> QED
    BY <1>2, <2>1, <2>2, <2>3, <2>4 DEF Next, Over
<1>3. SInv /\ SInv' /\ [Next]_vars => [Queue!Next]_<<schedule_time, pending>>
  BY <1>2
<1> QED
  BY <1>1, <1>3, ListInvariant, PTL DEF Spec, ImplementsQueue, Queue!Spec
================================================================================
