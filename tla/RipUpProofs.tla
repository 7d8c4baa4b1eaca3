------------------------------- MODULE RipUpProofs ------------------------------
(* The router's grid is right for every set of nets, grid positions and ways,   *)
(* whatever commands are given (module RipUp).                                  *)
(*                                                                              *)
(* The invariant: the obstruction array and the routes agree in both directions *)
(* (RoutesHaveTheirCells, CellsHaveTheirRoutes), but for the nets in spoiled;   *)
(* so the nets found in the array under a route are all the nets it runs over   *)
(* (NoneMissed), and entering it takes no cell from a net that keeps its routes.*)
(* For the lists of failed nets (NoneForgotten): what is not routed is listed,  *)
(* but for the net in hand, whose open nodes are still searched for.            *)
EXTENDS RipUp, SequenceTheorems, WellFoundedInduction, TLAPS

(* Where the router is in which command, and that a list of nets to rip up is   *)
(* only left while they are ripped up.                                          *)
Control ==
    /\ pc = "first" => command = "stage1"
    /\ pc \in {"second", "stage2ends"} => command = "stage2"
    /\ pc = "ripup" => command \in {"stage2", "route2"}
    /\ pc # "ripup" => colliding = {}

Grid == RoutesHaveTheirCells /\ CellsHaveTheirRoutes /\ NoneMissed

Kept(n) == n \in ToSet(FailedNets) \cup ToSet(Abandoned)

(* Nets that are not routed are listed; of the net in hand the nodes that are   *)
(* not reached are still searched for, or the net will be listed on return.     *)
Listed ==
    /\ \A n \in asked \ {CurNet} : Unreached(n) # {} => Kept(n)
    /\ pc = "segs" /\ unroutable = 0 => Unreached(CurNet) \subseteq targets
    /\ pc \in {"returned", "ripup"} /\ Unreached(CurNet) # {} => Kept(CurNet)

IInv == TypeOK /\ Control /\ Grid /\ Listed

--------------------------------------------------------------------------------
(* Lists of nets.                                                               *)

\* The least of a set of indices is one of them, and no other is less.
LEMMA MinInSet ==
    ASSUME NEW S \in SUBSET Nat, S # {}
    PROVE  Min(S) \in S /\ \A i \in S : Min(S) =< i
<1> DEFINE R == {ss \in Nat \X Nat : ss[1] < ss[2]}
<1>1. IsWellFoundedOn(R, Nat)
  BY NatLessThanWellFounded DEF OpToRel
<1>2. \E x \in S : \A y \in S : ~(<<y, x>> \in R)
  BY <1>1, WFMin
<1>3. \E x \in S : \A y \in S : x =< y
  <2>1. PICK x \in S : \A y \in S : <<y, x>> \notin R
    BY <1>2
  <2>2. ASSUME NEW y \in S PROVE x =< y
    <3>1. x \in Nat /\ y \in Nat /\ <<y, x>> \notin R
      BY <2>1
    <3>2. <<y, x>> \in Nat \X Nat => ~(y < x)
      BY <3>1, Zenon
    <3> QED
      BY <3>1, <3>2
  <2> QED
    BY <2>2
<1> QED
  BY <1>3 DEF Min

\* The operations on lists of nets give lists of nets.
LEMMA ListTypes ==
    ASSUME NEW list \in Seq(Nets), NEW n \in Nets
    PROVE  /\ PutFirst(n, list) \in Seq(Nets)
           /\ Behind(n, list) \in Seq(Nets)
           /\ Contains(list, n) => RemoveFirst(list, n) \in Seq(Nets)
<1>1. PutFirst(n, list) \in Seq(Nets)
  BY DEF PutFirst
<1>2. Behind(n, list) \in Seq(Nets)
  <2> DEFINE others == {i \in 1..Len(list) : list[i] # n}
  <2>1. CASE others = {}
    BY <2>1 DEF Behind
  <2>2. CASE others # {}
    <3>1. Min(others) \in others
      <4>1. others \subseteq Nat
        OBVIOUS
      <4> HIDE DEF others
      <4> QED
        BY <2>2, <4>1, MinInSet
    <3>2. Min(others) \in 1..Len(list)
      <4>1. others \subseteq 1..Len(list)
        OBVIOUS
      <4> QED
        BY <3>1, <4>1, Zenon
    <3>3. SubSeq(list, Min(others), Len(list)) \in Seq(Nets)
      <4> HIDE DEF others
      <4> QED
        BY <3>2
    <3> QED
      BY <2>2, <3>3 DEF Behind
  <2> QED
    BY <2>1, <2>2
<1>3. ASSUME Contains(list, n) PROVE RemoveFirst(list, n) \in Seq(Nets)
  <2> DEFINE I == {i \in 1..Len(list) : list[i] = n}
  <2>1. I # {}
    BY <1>3 DEF Contains
  <2>2. Min(I) \in 1..Len(list)
    <3>1. I \subseteq Nat /\ I \subseteq 1..Len(list)
      OBVIOUS
    <3> HIDE DEF I
    <3>2. Min(I) \in I
      BY <2>1, <3>1, MinInSet
    <3> QED
      BY <3>1, <3>2, Zenon
  <2>3. RemoveFirst(list, n) = RemoveAt(list, Min(I))
    BY <2>1 DEF RemoveFirst, SelectInSeq
  <2>4. RemoveAt(list, Min(I)) \in Seq(Nets)
    <3> HIDE DEF I
    <3>1. SubSeq(list, 1, Min(I) - 1) \in Seq(Nets) /\ SubSeq(list, Min(I) + 1, Len(list)) \in Seq(Nets)
      BY <2>2
    <3> QED
      BY <3>1 DEF RemoveAt
  <2> QED
    BY <2>3, <2>4
<1> QED
  BY <1>1, <1>2, <1>3

\* The operations on lists of nets lose no net but the one they are about.
LEMMA ListMembers ==
    ASSUME NEW list \in Seq(Nets), NEW n \in Nets
    PROVE  /\ ToSet(list) \cup {n} \subseteq ToSet(PutFirst(n, list))
           /\ ToSet(list) \cup {n} \subseteq ToSet(Append(list, n))
           /\ list # <<>> => ToSet(list) \subseteq ToSet(Tail(list)) \cup {Head(list)}
           /\ ToSet(list) \subseteq ToSet(Behind(n, list)) \cup {n}
           /\ Contains(list, n) => ToSet(list) \subseteq ToSet(RemoveFirst(list, n)) \cup {n}
<1>1. ToSet(list) \cup {n} \subseteq ToSet(PutFirst(n, list))
  <2>1. CASE list # <<>> /\ Head(list) = n
    BY <2>1 DEF PutFirst, ToSet
  <2>2. CASE ~(list # <<>> /\ Head(list) = n)
    <3>1. PutFirst(n, list) = <<n>> \o list
      BY <2>2 DEF PutFirst
    <3>2. n \in ToSet(<<n>> \o list)
      <4>1. 1 \in DOMAIN (<<n>> \o list) /\ (<<n>> \o list)[1] = n
        OBVIOUS
      <4> QED
        BY <4>1 DEF ToSet
    <3>3. ASSUME NEW i \in 1..Len(list) PROVE list[i] \in ToSet(<<n>> \o list)
      <4>1. i + 1 \in DOMAIN (<<n>> \o list) /\ (<<n>> \o list)[i + 1] = list[i]
        OBVIOUS
      <4> QED
        BY <4>1 DEF ToSet
    <3>4. \A x \in ToSet(list) : \E i \in 1..Len(list) : x = list[i]
      BY DEF ToSet
    <3> QED
      BY <3>1, <3>2, <3>3, <3>4
  <2> QED
    BY <2>1, <2>2
<1>2. ToSet(list) \cup {n} \subseteq ToSet(Append(list, n))
  <2>1. Len(list) + 1 \in DOMAIN Append(list, n) /\ Append(list, n)[Len(list) + 1] = n
    OBVIOUS
  <2>2. \A i \in 1..Len(list) : i \in DOMAIN Append(list, n) /\ Append(list, n)[i] = list[i]
    OBVIOUS
  <2> QED
    BY <2>1, <2>2 DEF ToSet
<1>3. ASSUME list # <<>> PROVE ToSet(list) \subseteq ToSet(Tail(list)) \cup {Head(list)}
  <2>1. ASSUME NEW i \in 1..Len(list), i # 1 PROVE list[i] \in ToSet(Tail(list))
    <3>1. i - 1 \in DOMAIN Tail(list) /\ Tail(list)[i - 1] = list[i]
      BY <1>3, <2>1
    <3> QED
      BY <3>1 DEF ToSet
  <2>2. Head(list) = list[1]
    BY <1>3
  <2>3. \A x \in ToSet(list) : \E i \in 1..Len(list) : x = list[i]
    BY DEF ToSet
  <2> QED
    BY <2>1, <2>2, <2>3
<1>4. ToSet(list) \subseteq ToSet(Behind(n, list)) \cup {n}
  <2> DEFINE others == {i \in 1..Len(list) : list[i] # n}
             k == Min(others)
  <2>1. ASSUME NEW i \in others PROVE list[i] \in ToSet(Behind(n, list))
    <3>1. k \in 1..Len(list) /\ k =< i
      <4>1. others \subseteq Nat /\ others # {} /\ others \subseteq 1..Len(list)
        BY <2>1
      <4> HIDE DEF others
      <4>2. Min(others) \in others /\ Min(others) =< i
        BY <2>1, <4>1, MinInSet
      <4> QED
        BY <4>1, <4>2
    <3>2. Behind(n, list) = SubSeq(list, k, Len(list))
      BY <2>1 DEF Behind
    <3>3. i \in 1..Len(list)
      OBVIOUS
    <3> HIDE DEF others, k
    <3>4. i - k + 1 \in DOMAIN SubSeq(list, k, Len(list)) /\ SubSeq(list, k, Len(list))[i - k + 1] = list[i]
      BY <3>1, <3>3
    <3> QED
      BY <3>2, <3>4 DEF ToSet
  <2>2. \A x \in ToSet(list) : \E i \in 1..Len(list) : x = list[i]
    BY DEF ToSet
  <2> QED
    BY <2>1, <2>2
<1>5. ASSUME Contains(list, n) PROVE ToSet(list) \subseteq ToSet(RemoveFirst(list, n)) \cup {n}
  <2> DEFINE I == {i \in 1..Len(list) : list[i] = n}
             k == Min(I)
  <2>1. I # {}
    BY <1>5 DEF Contains
  <2>2. k \in 1..Len(list) /\ list[k] = n
    <3>1. I \subseteq Nat /\ \A i \in I : i \in 1..Len(list) /\ list[i] = n
      OBVIOUS
    <3> HIDE DEF I
    <3>2. Min(I) \in I
      BY <2>1, <3>1, MinInSet
    <3> QED
      BY <3>1, <3>2, Zenon
  <2>3. RemoveFirst(list, n) = SubSeq(list, 1, k - 1) \o SubSeq(list, k + 1, Len(list))
    BY <2>1 DEF RemoveFirst, SelectInSeq, RemoveAt
  <2> HIDE DEF k, I
  <2> DEFINE front == SubSeq(list, 1, k - 1)
             back == SubSeq(list, k + 1, Len(list))
  <2>4. /\ front \in Seq(Nets) /\ Len(front) = k - 1 /\ \A i \in 1..(k - 1) : front[i] = list[i]
        /\ back \in Seq(Nets) /\ Len(back) = Len(list) - k
        /\ \A i \in 1..(Len(list) - k) : back[i] = list[k + i]
    BY <2>2
  <2>5. ASSUME NEW i \in 1..Len(list), i # k PROVE list[i] \in ToSet(front \o back)
    <3> HIDE DEF front, back
    <3>0. Len(list) \in Nat
      OBVIOUS
    <3>1. CASE i < k
      <4>1. i \in DOMAIN (front \o back) /\ (front \o back)[i] = list[i]
        BY <2>2, <2>4, <3>0, <3>1
      <4> QED
        BY <4>1 DEF ToSet
    <3>2. CASE i > k
      <4>1. i - 1 \in DOMAIN (front \o back) /\ (front \o back)[i - 1] = back[i - k]
        BY <2>2, <2>4, <3>0, <3>2
      <4>2. i - k \in 1..(Len(list) - k) /\ k + (i - k) = i
        BY <2>2, <3>0, <3>2
      <4> QED
        BY <2>4, <4>1, <4>2 DEF ToSet
    <3> QED
      BY <2>2, <2>5, <3>1, <3>2
  <2>6. \A x \in ToSet(list) : \E i \in 1..Len(list) : x = list[i]
    BY DEF ToSet
  <2> QED
    BY <2>2, <2>3, <2>5, <2>6
<1> QED
  BY <1>1, <1>2, <1>3, <1>4, <1>5

\* A net on one of two lists is on their concatenation.
LEMMA BothLists ==
    ASSUME NEW one \in Seq(Nets), NEW two \in Seq(Nets)
    PROVE  ToSet(one) \cup ToSet(two) \subseteq ToSet(one \o two)
<1>1. ASSUME NEW i \in 1..Len(one) PROVE one[i] \in ToSet(one \o two)
  <2>1. i \in DOMAIN (one \o two) /\ (one \o two)[i] = one[i]
    OBVIOUS
  <2> QED
    BY <2>1 DEF ToSet
<1>2. ASSUME NEW i \in 1..Len(two) PROVE two[i] \in ToSet(one \o two)
  <2>1. Len(one) + i \in DOMAIN (one \o two) /\ (one \o two)[Len(one) + i] = two[i]
    OBVIOUS
  <2> QED
    BY <2>1 DEF ToSet
<1>3. /\ \A x \in ToSet(one) : \E i \in 1..Len(one) : x = one[i]
      /\ \A x \in ToSet(two) : \E i \in 1..Len(two) : x = two[i]
  BY DEF ToSet
<1> QED
  BY <1>1, <1>2, <1>3

--------------------------------------------------------------------------------
(* Types and control.                                                           *)

\* A net's routes are among its ways when one of them is added.
LEMMA AddedWay ==
    ASSUME TypeOK, NEW n \in Nets, NEW way \in Ways[n]
    PROVE  LET added == [routes EXCEPT ![n] = @ \cup {way}]
           IN  /\ added \in [Nets -> SUBSET UNION {Ways[m] : m \in Nets}]
               /\ \A m \in Nets : added[m] \subseteq Ways[m]
<1>1. way \in UNION {Ways[m] : m \in Nets}
  OBVIOUS
<1>2. \A m \in Nets : routes[m] \subseteq Ways[m]
  BY DEF TypeOK
<1>3. routes \in [Nets -> SUBSET UNION {Ways[m] : m \in Nets}]
  BY DEF TypeOK
<1> QED
  BY <1>1, <1>2, <1>3

\* The same when a net's routes are removed.
LEMMA NoWays ==
    ASSUME TypeOK, NEW n \in Nets
    PROVE  LET removed == [routes EXCEPT ![n] = {}]
           IN  /\ removed \in [Nets -> SUBSET UNION {Ways[m] : m \in Nets}]
               /\ \A m \in Nets : removed[m] \subseteq Ways[m]
BY DEF TypeOK

\* The initial state is of the right type.
LEMMA InitType == Init => TypeOK /\ Control
BY RipUpAssumption DEF Init, TypeOK, Control

\* Routing a net keeps the types.
LEMMA DoRouteType ==
    ASSUME TypeOK, Control, DoRoute
    PROVE  TypeOK' /\ Control'
<1> USE RipUpAssumption DEF Control, control, lists, search
<1>n. CurNet \in Nets /\ FailedNets \in Seq(Nets) /\ PutFirst(CurNet, FailedNets) \in Seq(Nets)
  <2>1. CurNet \in Nets /\ FailedNets \in Seq(Nets)
    BY DEF TypeOK, DoRoute, SetupFails, RouteFails
  <2> QED
    BY <2>1, ListTypes
<1>1. CASE SetupFails
  BY <1>1, <1>n DEF TypeOK, SetupFails, Return
<1>2. CASE RouteFails
  BY <1>2, <1>n DEF TypeOK, RouteFails, Return
<1>3. ASSUME NEW cut \in SUBSET Unreached(CurNet), Setup(cut) PROVE TypeOK' /\ Control'
  BY <1>3, <1>n DEF TypeOK, Setup, Return, Unreached
<1>4. ASSUME NEW way \in Ways[CurNet], RouteSegs(way) PROVE TypeOK' /\ Control'
  <2>1. Obs' \in [Cells -> Nets \cup {None}]
    BY <1>4, <1>n DEF TypeOK, RouteSegs, Entered
  <2>2. /\ routes' \in [Nets -> SUBSET UNION {Ways[n] : n \in Nets}]
        /\ \A n \in Nets : routes'[n] \subseteq Ways[n]
    BY <1>4, <1>n, AddedWay DEF RouteSegs
  <2> QED
    BY <1>4, <1>n, <2>1, <2>2 DEF TypeOK, RouteSegs, Return
<1> QED
  BY <1>1, <1>2, <1>3, <1>4 DEF DoRoute

\* Ripping up a net, in whole or in part, keeps the types of the grid.
LEMMA RipUpType ==
    ASSUME TypeOK, NEW n \in Nets, RipUpNet(n) \/ RipUpStops(n)
    PROVE  /\ Obs' \in [Cells -> Nets \cup {None}]
           /\ routes' \in [Nets -> SUBSET UNION {Ways[m] : m \in Nets}]
           /\ \A m \in Nets : routes'[m] \subseteq Ways[m]
           /\ spoiled' \subseteq Nets
<1>1. CASE RipUpNet(n)
  BY <1>1, NoWays DEF TypeOK, RipUpNet, Cleared
<1>2. CASE RipUpStops(n)
  BY <1>2 DEF TypeOK, RipUpStops
<1> QED
  BY <1>1, <1>2

\* What the router does between two routes keeps the types.
LEMMA RouterType ==
    ASSUME TypeOK, Control, Router
    PROVE  TypeOK' /\ Control'
<1> USE RipUpAssumption DEF Control, control, lists, search
<1>l. FailedNets \in Seq(Nets) /\ Abandoned \in Seq(Nets)
  BY DEF TypeOK
<1>1. CASE Retry
  BY <1>1 DEF TypeOK, Retry, StartRoute
<1>2. CASE Abandon
  <2>1. CurNet \in Nets
    BY <1>2 DEF TypeOK, Abandon
  <2>2. Behind(CurNet, FailedNets) \in Seq(Nets) /\ <<CurNet>> \o Abandoned \in Seq(Nets)
    BY <1>l, <2>1, ListTypes
  <2> QED
    BY <1>2, <2>1, <2>2 DEF TypeOK, Abandon
<1>3. CASE RoutedOver
  BY <1>3 DEF TypeOK, RoutedOver, StartRipUp, Colliding
<1>4. CASE Routed
  BY <1>4 DEF TypeOK, Routed
<1>5. ASSUME NEW m \in colliding, Rip(m) PROVE TypeOK' /\ Control'
  <2>1. m \in Nets /\ CurNet \in Nets
    BY <1>5 DEF TypeOK, Rip
  <2>2. /\ Obs' \in [Cells -> Nets \cup {None}]
        /\ routes' \in [Nets -> SUBSET UNION {Ways[n] : n \in Nets}]
        /\ \A n \in Nets : routes'[n] \subseteq Ways[n]
        /\ spoiled' \subseteq Nets
    BY <1>5, <2>1, RipUpType DEF Rip
  <2>3. FailedNets' \in Seq(Nets)
    <3>1. FailedNets' = Append(FailedNets, m) \/ FailedNets' = FailedNets
      BY <1>5 DEF Rip
    <3> QED
      BY <1>l, <2>1, <3>1
  <2>4. noripup' \in [Nets -> SUBSET Nets]
    <3>1. noripup \in [Nets -> SUBSET Nets]
      BY DEF TypeOK
    <3>2. noripup' = [noripup EXCEPT ![CurNet] = @ \cup {m}] \/ noripup' = noripup
      BY <1>5 DEF Rip
    <3> QED
      BY <2>1, <3>1, <3>2
  <2> QED
    BY <1>5, <2>1, <2>2, <2>3, <2>4 DEF TypeOK, Rip
<1>6. CASE WriteBack
  <2>1. Obs' \in [Cells -> Nets \cup {None}]
    BY <1>6 DEF TypeOK, WriteBack, EnteredRoutes
  <2>2. counts' \in [failcount: Nat, origcount: Nat, maxtries: Nat]
    <3>1. counts.failcount \in Nat /\ TotalRoutes \in Nat /\ Tries \in Nat
      BY DEF TypeOK
    <3>2. TotalRoutes + counts.failcount * Tries \in Nat
      BY <3>1
    <3> QED
      BY <1>6, <3>1, <3>2 DEF TypeOK, WriteBack
  <2> QED
    BY <1>6, <2>1, <2>2 DEF TypeOK, WriteBack
<1>7. ASSUME NEW n \in remaining, NextNet(n) PROVE TypeOK' /\ Control'
  BY <1>7 DEF TypeOK, NextNet, StartRoute
<1>8. CASE Stage1Ends
  BY <1>8 DEF TypeOK, Stage1Ends
<1>9. CASE TakeFailed
  <2>1. FailedNets # <<>>
    BY <1>9 DEF TakeFailed
  <2>2. Head(FailedNets) \in Nets /\ Tail(FailedNets) \in Seq(Nets) /\ Len(FailedNets) \in Nat
    BY <1>l, <2>1
  <2>3. counts' \in [failcount: Nat, origcount: Nat, maxtries: Nat]
    <3>1. counts \in [failcount: Nat, origcount: Nat, maxtries: Nat]
      BY DEF TypeOK
    <3>2. counts' = [counts EXCEPT !.failcount = Len(FailedNets)]
      BY <1>9 DEF TakeFailed
    <3> QED
      BY <2>2, <3>1, <3>2
  <2>4. /\ FailedNets' = Tail(FailedNets) /\ CurNet' = Head(FailedNets)
        /\ pc' = "setup" /\ targets' = {} /\ unroutable' = 0 /\ result' = 0
        /\ asked' = asked \cup {Head(FailedNets)}
        /\ UNCHANGED <<Obs, routes, Abandoned, noripup, pending, TotalRoutes, command, remaining,
                       given, colliding, spoiled>>
        /\ pc = "second"
    BY <1>9 DEF TakeFailed, StartRoute
  <2> HIDE DEF control, lists, search
  <2> QED
    BY <2>2, <2>3, <2>4 DEF TypeOK
<1>10. CASE Stage2Ends
  BY <1>10 DEF TypeOK, Stage2Ends
<1> QED
  BY <1>1, <1>2, <1>3, <1>4, <1>5, <1>6, <1>7, <1>8, <1>9, <1>10, DoRouteType DEF Router

\* The user's commands keep the types.
LEMMA UserType ==
    ASSUME TypeOK, Control, User
    PROVE  TypeOK' /\ Control'
<1> USE RipUpAssumption DEF Control, control, lists, search, Command
<1>l. FailedNets \in Seq(Nets)
  BY DEF TypeOK
<1>1. CASE Stage1
  BY <1>1 DEF TypeOK, Stage1
<1>2. CASE Stage2
  <2>1. counts' \in [failcount: Nat, origcount: Nat, maxtries: Nat]
    <3>1. TotalRoutes \in Nat /\ Tries \in Nat /\ AtLeast(Len(FailedNets), MinFailed) \in Nat
      BY <1>l DEF TypeOK, AtLeast
    <3>2. TotalRoutes + AtLeast(Len(FailedNets), MinFailed) * Tries \in Nat
      BY <3>1
    <3> QED
      BY <1>2, <1>l, <3>2 DEF Stage2
  <2> QED
    BY <1>2, <2>1 DEF TypeOK, Stage2
<1>3. CASE WriteDef
  BY <1>3 DEF TypeOK, WriteDef
<1>4. ASSUME NEW n \in Nets, Route1(n) PROVE TypeOK' /\ Control'
  BY <1>4 DEF TypeOK, Route1, StartRoute
<1>5. ASSUME NEW n \in Nets, Route2(n) PROVE TypeOK' /\ Control'
  <2>1. Contains(FailedNets, n) => RemoveFirst(FailedNets, n) \in Seq(Nets)
    BY <1>l, ListTypes
  <2> QED
    BY <1>5, <2>1 DEF TypeOK, Route2, StartRoute
<1>6. ASSUME NEW n \in Nets, RemoveNet(n) PROVE TypeOK' /\ Control'
  <2>1. /\ Obs' \in [Cells -> Nets \cup {None}]
        /\ routes' \in [Nets -> SUBSET UNION {Ways[m] : m \in Nets}]
        /\ \A m \in Nets : routes'[m] \subseteq Ways[m]
        /\ spoiled' \subseteq Nets
    BY <1>6, RipUpType DEF RemoveNet
  <2> QED
    BY <1>6, <2>1 DEF TypeOK, RemoveNet
<1> QED
  BY <1>1, <1>2, <1>3, <1>4, <1>5, <1>6 DEF User

\* Every step keeps the types.
LEMMA NextType == TypeOK /\ Control /\ [Next]_vars => TypeOK' /\ Control'
<1> SUFFICES ASSUME TypeOK, Control, [Next]_vars PROVE TypeOK' /\ Control'
  OBVIOUS
<1>1. CASE UNCHANGED vars
  BY <1>1 DEF TypeOK, Control, vars, control, lists, search
<1> QED
  BY <1>1, RouterType, UserType DEF Next

--------------------------------------------------------------------------------
(* The grid.                                                                    *)

\* A step that leaves array, routes and spoiled nets alone, starts no rip-up and
\* does not lay a net of the second stage aside, keeps the grid right.
LEMMA GridKept ==
    ASSUME Grid, UNCHANGED <<Obs, routes, spoiled>>, pc' # "ripup",
           (CurNet = None) \/ (CurNet' = CurNet /\ command' = command)
    PROVE  Grid'
<1>1. RoutesHaveTheirCells'
  <2> SUFFICES ASSUME NEW n \in Nets, n \notin spoiled', ~InHand(n)', NEW c \in Cells, Through(n, c)'
               PROVE  Obs'[c] = n
    BY DEF RoutesHaveTheirCells
  <2>1. ~InHand(n)
    BY RipUpAssumption DEF InHand, Stage
  <2> QED
    BY <2>1 DEF Grid, RoutesHaveTheirCells, Through
<1>2. CellsHaveTheirRoutes'
  BY DEF Grid, CellsHaveTheirRoutes, Through
<1>3. NoneMissed'
  BY DEF NoneMissed
<1> QED
  BY <1>1, <1>2, <1>3 DEF Grid

\* A way is entered in the first stage, where only free cells are taken, and not
\* yet in the second.
LEMMA RouteSegsGrid ==
    ASSUME TypeOK, Grid, NEW way \in Ways[CurNet], RouteSegs(way)
    PROVE  Grid'
<1>n. CurNet \in Nets /\ CurNet # None
  BY RipUpAssumption DEF TypeOK, RouteSegs
<1>c. CurNet' = CurNet /\ command' = command /\ spoiled' = spoiled /\ pc' # "ripup"
  BY DEF RouteSegs, Return, control
<1>r. /\ \A n \in Nets, c \in Cells : Through(n, c)' <=> Through(n, c) \/ (n = CurNet /\ c \in way.cells)
  <2>1. routes' = [routes EXCEPT ![CurNet] = @ \cup {way}] /\ DOMAIN routes = Nets
    BY DEF RouteSegs, TypeOK
  <2>2. routes'[CurNet] = routes[CurNet] \cup {way} /\ \A n \in Nets \ {CurNet} : routes'[n] = routes[n]
    BY <1>n, <2>1
  <2> QED
    BY <1>n, <2>2 DEF Through
<1>0. Stage = 0 \/ Stage = 1
  BY DEF Stage
<1>1. CASE Stage = 0
  <2>1. \A c \in Cells : Obs'[c] = IF c \in way.cells THEN CurNet ELSE Obs[c]
    BY <1>1 DEF RouteSegs, Entered
  <2>2. \A c \in way.cells : Obs[c] = None
    BY <1>1 DEF RouteSegs, MayEnter
  <2>3. RoutesHaveTheirCells'
    <3> SUFFICES ASSUME NEW n \in Nets, n \notin spoiled', NEW c \in Cells, Through(n, c)'
                 PROVE  Obs'[c] = n
      BY DEF RoutesHaveTheirCells
    <3>1. CASE Through(n, c)
      <4>1. Obs[c] = n
        BY <1>1, <1>c, <3>1 DEF Grid, RoutesHaveTheirCells, InHand
      <4> QED
        BY <2>1, <2>2, <4>1, RipUpAssumption
    <3>2. CASE n = CurNet /\ c \in way.cells
      BY <2>1, <3>2
    <3> QED
      BY <1>r, <3>1, <3>2
  <2>4. CellsHaveTheirRoutes'
    <3> SUFFICES ASSUME NEW c \in Cells, Obs'[c] # None
                 PROVE  \E w \in routes'[Obs'[c]] : c \in w.cells
      BY DEF CellsHaveTheirRoutes, Through
    <3>1. CASE c \in way.cells
      <4>1. \E w \in routes'[CurNet] : c \in w.cells
        BY <1>n, <1>r, <3>1 DEF Through
      <4> QED
        BY <2>1, <3>1, <4>1
    <3>2. CASE c \notin way.cells
      <4>1. Obs'[c] = Obs[c] /\ Obs[c] \in Nets
        BY <2>1, <3>2 DEF TypeOK
      <4>2. Through(Obs[c], c)
        BY <4>1, RipUpAssumption DEF Grid, CellsHaveTheirRoutes
      <4>3. \E w \in routes'[Obs[c]] : c \in w.cells
        BY <1>r, <4>1, <4>2 DEF Through
      <4> QED
        BY <4>1, <4>3
    <3> QED
      BY <3>1, <3>2
  <2> QED
    BY <1>c, <2>3, <2>4 DEF Grid, NoneMissed
<1>2. CASE Stage = 1
  <2>1. Obs' = Obs
    BY <1>2 DEF RouteSegs
  <2>2. RoutesHaveTheirCells'
    <3> SUFFICES ASSUME NEW n \in Nets, n \notin spoiled', ~InHand(n)', NEW c \in Cells, Through(n, c)'
                 PROVE  Obs'[c] = n
      BY DEF RoutesHaveTheirCells
    <3>1. n # CurNet /\ ~InHand(n)
      BY <1>2, <1>c DEF InHand, Stage
    <3> QED
      BY <1>r, <1>c, <2>1, <3>1 DEF Grid, RoutesHaveTheirCells
  <2>3. CellsHaveTheirRoutes'
    <3> SUFFICES ASSUME NEW c \in Cells, Obs[c] # None
                 PROVE  \E w \in routes'[Obs[c]] : c \in w.cells
      BY <2>1 DEF CellsHaveTheirRoutes, Through
    <3>1. Obs[c] \in Nets /\ Through(Obs[c], c)
      BY DEF Grid, CellsHaveTheirRoutes, TypeOK
    <3> QED
      BY <1>r, <3>1 DEF Through
  <2> QED
    BY <1>c, <2>2, <2>3 DEF Grid, NoneMissed
<1> QED
  BY <1>0, <1>1, <1>2

\* A net that is laid aside is spoiled if a cell of its routes is not its own.
LEMMA LaidAsideGrid ==
    ASSUME TypeOK, Grid, Abandon \/ Routed
    PROVE  Grid'
<1>1. /\ CurNet' = None /\ pc' # "ripup" /\ Obs' = Obs /\ routes' = routes
      /\ \/ Stage = 0 /\ spoiled' = spoiled
         \/ spoiled' = IF Unwritten(CurNet) THEN spoiled \cup {CurNet} ELSE spoiled
  BY DEF Abandon, Routed, Stage
<1>2. RoutesHaveTheirCells'
  <2> SUFFICES ASSUME NEW n \in Nets, n \notin spoiled', NEW c \in Cells, Through(n, c)
               PROVE  Obs[c] = n
    BY <1>1 DEF RoutesHaveTheirCells, Through
  <2>1. n \notin spoiled
    BY <1>1
  <2>2. CASE InHand(n)
    <3>1. n = CurNet /\ Stage = 1
      BY <2>2 DEF InHand
    <3>2. ~Unwritten(n)
      BY <1>1, <3>1
    <3> QED
      BY <3>2 DEF Unwritten
  <2>3. CASE ~InHand(n)
    BY <2>1, <2>3 DEF Grid, RoutesHaveTheirCells
  <2> QED
    BY <2>2, <2>3
<1>3. CellsHaveTheirRoutes'
  BY <1>1 DEF Grid, CellsHaveTheirRoutes, Through
<1> QED
  BY <1>1, <1>2, <1>3 DEF Grid, NoneMissed

\* Ripping up a net, or only some of it, takes no cell from another net.  Only a
\* spoiled net can be ripped up in part.
LEMMA RipUpGrid ==
    ASSUME TypeOK, Grid, NEW m \in Nets \ {CurNet}, RipUpNet(m) \/ RipUpStops(m),
           CurNet' = CurNet, (CurNet = None) \/ (command' = command),
           pc' = pc, pc = "ripup" => colliding' = colliding \ {m}
    PROVE  Grid'
<1>t. m \in Nets /\ m # None /\ m # CurNet
  BY RipUpAssumption
<1>h. \A n \in Nets : InHand(n)' <=> InHand(n)
  BY RipUpAssumption DEF InHand, Stage
<1>1. CASE RipUpNet(m)
  <2>1. /\ \A c \in Cells : Obs'[c] = IF Through(m, c) THEN None ELSE Obs[c]
        /\ \A c \in Cells : Through(m, c) => Obs[c] \in {m, None}
        /\ spoiled' = spoiled \ {m}
    BY <1>1 DEF RipUpNet, Cleared, CanRip
  <2>2. routes'[m] = {} /\ \A n \in Nets \ {m} : routes'[n] = routes[n]
    BY <1>1, <1>t DEF RipUpNet, TypeOK
  <2>3. RoutesHaveTheirCells'
    <3> SUFFICES ASSUME NEW n \in Nets, n \notin spoiled', ~InHand(n)', NEW c \in Cells, Through(n, c)'
                 PROVE  Obs'[c] = n
      BY DEF RoutesHaveTheirCells
    <3>1. n # m /\ n \notin spoiled /\ ~InHand(n) /\ Through(n, c) /\ n # None
      BY <1>h, <2>1, <2>2, RipUpAssumption DEF Through
    <3>2. Obs[c] = n
      BY <3>1 DEF Grid, RoutesHaveTheirCells
    <3> QED
      BY <2>1, <3>1, <3>2
  <2>4. CellsHaveTheirRoutes'
    <3> SUFFICES ASSUME NEW c \in Cells, Obs'[c] # None
                 PROVE  \E w \in routes'[Obs'[c]] : c \in w.cells
      BY DEF CellsHaveTheirRoutes, Through
    <3>1. ~Through(m, c) /\ Obs'[c] = Obs[c]
      BY <2>1
    <3>2. Obs[c] \in Nets /\ Through(Obs[c], c)
      BY <3>1 DEF Grid, CellsHaveTheirRoutes, TypeOK
    <3>3. routes'[Obs[c]] = routes[Obs[c]]
      BY <2>2, <3>1, <3>2
    <3> QED
      BY <3>1, <3>2, <3>3 DEF Through
  <2>5. NoneMissed'
    <3> SUFFICES ASSUME pc' = "ripup", NEW n \in Nets \ (spoiled' \cup {CurNet}), NEW c \in Cells,
                        Through(n, c)', \E w \in routes'[CurNet] : c \in w.cells
                 PROVE  n \in colliding'
      BY DEF NoneMissed, Through
    <3>1. CurNet \in Nets /\ colliding' = colliding \ {m}
      BY DEF TypeOK
    <3>2. n # m /\ n \notin spoiled /\ Through(n, c) /\ Through(CurNet, c)
      BY <1>t, <2>1, <2>2, <3>1 DEF Through
    <3>3. n \in colliding
      BY <3>2 DEF Grid, NoneMissed
    <3> QED
      BY <3>1, <3>2, <3>3
  <2> QED
    BY <2>3, <2>4, <2>5 DEF Grid
<1>2. CASE RipUpStops(m)
  <2>1. /\ ~CanRip(m) /\ routes' = routes /\ spoiled' = spoiled
        /\ \A c \in Cells : Obs'[c] = Obs[c] \/ (Obs[c] = m /\ Obs'[c] = None)
    <3>1. PICK some \in SUBSET {c \in Cells : Through(m, c) /\ Obs[c] = m} :
                 Obs' = [c \in Cells |-> IF c \in some THEN None ELSE Obs[c]]
      BY <1>2 DEF RipUpStops
    <3> QED
      BY <1>2, <3>1 DEF RipUpStops
  <2>2. m \in spoiled
    <3>1. ~InHand(m)
      BY <1>t DEF InHand
    <3>2. PICK c \in Cells : Through(m, c) /\ Obs[c] \notin {m, None}
      BY <2>1 DEF CanRip
    <3> QED
      BY <1>t, <3>1, <3>2 DEF Grid, RoutesHaveTheirCells
  <2>3. RoutesHaveTheirCells'
    <3> SUFFICES ASSUME NEW n \in Nets, n \notin spoiled', ~InHand(n)', NEW c \in Cells, Through(n, c)
                 PROVE  Obs'[c] = n
      BY <2>1 DEF RoutesHaveTheirCells, Through
    <3>1. n # m /\ ~InHand(n)
      BY <1>h, <2>1, <2>2
    <3>2. Obs[c] = n
      BY <2>1, <3>1 DEF Grid, RoutesHaveTheirCells
    <3> QED
      BY <2>1, <3>1, <3>2
  <2>4. CellsHaveTheirRoutes'
    <3> SUFFICES ASSUME NEW c \in Cells, Obs'[c] # None
                 PROVE  \E w \in routes'[Obs'[c]] : c \in w.cells
      BY DEF CellsHaveTheirRoutes, Through
    <3>1. Obs'[c] = Obs[c]
      BY <2>1
    <3> QED
      BY <2>1, <3>1 DEF Grid, CellsHaveTheirRoutes, Through
  <2>5. NoneMissed'
    <3> SUFFICES ASSUME pc' = "ripup", NEW n \in Nets \ (spoiled \cup {CurNet}), NEW c \in Cells,
                        Through(n, c), Through(CurNet, c)
                 PROVE  n \in colliding'
      BY <2>1 DEF NoneMissed, Through
    <3>1. n \in colliding /\ n # m
      BY <2>2 DEF Grid, NoneMissed
    <3> QED
      BY <3>1
  <2> QED
    BY <2>3, <2>4, <2>5 DEF Grid
<1> QED
  BY <1>1, <1>2

\* The nets that are found in the array under the routes of the net in hand are
\* all the nets it runs over.
LEMMA RoutedOverGrid ==
    ASSUME TypeOK, Grid, RoutedOver
    PROVE  Grid'
<1>1. /\ pc = "returned" /\ colliding' = Colliding(CurNet)
      /\ UNCHANGED <<Obs, routes, spoiled, CurNet, command>>
  BY DEF RoutedOver, StartRipUp, control
<1>2. RoutesHaveTheirCells' /\ CellsHaveTheirRoutes'
  BY <1>1 DEF Grid, RoutesHaveTheirCells, CellsHaveTheirRoutes, Through, InHand, Stage
<1>3. NoneMissed'
  <2> SUFFICES ASSUME NEW n \in Nets \ (spoiled \cup {CurNet}), NEW c \in Cells,
                      Through(n, c), Through(CurNet, c)
               PROVE  n \in Colliding(CurNet)
    BY <1>1 DEF NoneMissed, Through
  <2>1. Obs[c] = n
    BY DEF Grid, RoutesHaveTheirCells, InHand
  <2> QED
    BY <2>1 DEF Colliding
<1> QED
  BY <1>2, <1>3 DEF Grid

\* When everything a net runs over is ripped up, its routes are entered.
LEMMA WriteBackGrid ==
    ASSUME TypeOK, Grid, WriteBack
    PROVE  Grid'
<1>1. /\ pc = "ripup" /\ colliding = {} /\ CurNet' = None /\ routes' = routes
      /\ spoiled' = spoiled \ {CurNet} /\ pc' # "ripup"
      /\ \A c \in Cells : Obs'[c] = IF Through(CurNet, c) THEN CurNet ELSE Obs[c]
  BY DEF WriteBack, EnteredRoutes
<1>2. RoutesHaveTheirCells'
  <2> SUFFICES ASSUME NEW n \in Nets, n \notin spoiled', NEW c \in Cells, Through(n, c)
               PROVE  Obs'[c] = n
    BY <1>1 DEF RoutesHaveTheirCells, Through
  <2>1. CASE n = CurNet
    BY <1>1, <2>1
  <2>2. CASE n # CurNet
    <3>1. n \notin spoiled /\ ~InHand(n)
      BY <1>1, <2>2 DEF InHand
    <3>2. Obs[c] = n
      BY <3>1 DEF Grid, RoutesHaveTheirCells
    <3>3. ~Through(CurNet, c)
      BY <1>1, <2>2, <3>1 DEF Grid, NoneMissed
    <3> QED
      BY <1>1, <3>2, <3>3
  <2> QED
    BY <2>1, <2>2
<1>3. CellsHaveTheirRoutes'
  <2> SUFFICES ASSUME NEW c \in Cells, Obs'[c] # None
               PROVE  \E w \in routes[Obs'[c]] : c \in w.cells
    BY <1>1 DEF CellsHaveTheirRoutes, Through
  <2>1. CASE Through(CurNet, c)
    BY <1>1, <2>1 DEF Through
  <2>2. CASE ~Through(CurNet, c)
    BY <1>1, <2>2 DEF Grid, CellsHaveTheirRoutes, Through
  <2> QED
    BY <2>1, <2>2
<1> QED
  BY <1>1, <1>2, <1>3 DEF Grid, NoneMissed

\* Every step keeps the grid right.
LEMMA NextGrid == TypeOK /\ Control /\ Grid /\ [Next]_vars => Grid'
<1> SUFFICES ASSUME TypeOK, Control, Grid, [Next]_vars PROVE Grid'
  OBVIOUS
<1> USE DEF control
<1>n. pc \in {"setup", "segs", "returned", "ripup"} <=> CurNet # None
  BY DEF TypeOK
<1>1. CASE DoRoute
  <2>1. CASE SetupFails
    BY <2>1, GridKept DEF SetupFails, Return
  <2>2. CASE RouteFails
    BY <2>2, GridKept DEF RouteFails, Return
  <2>3. ASSUME NEW cut \in SUBSET Unreached(CurNet), Setup(cut) PROVE Grid'
    BY <2>3, GridKept DEF Setup, Return
  <2>4. ASSUME NEW way \in Ways[CurNet], RouteSegs(way) PROVE Grid'
    BY <2>4, RouteSegsGrid
  <2> QED
    BY <1>1, <2>1, <2>2, <2>3, <2>4 DEF DoRoute
<1>2. CASE Retry
  BY <1>2, GridKept DEF Retry, StartRoute
<1>3. CASE Abandon \/ Routed
  BY <1>3, LaidAsideGrid
<1>4. CASE RoutedOver
  BY <1>4, RoutedOverGrid
<1>5. ASSUME NEW m \in colliding, Rip(m) PROVE Grid'
  <2>1. m \in Nets \ {CurNet} /\ (RipUpNet(m) \/ RipUpStops(m))
    BY <1>5 DEF Rip, TypeOK
  <2> QED
    BY <1>5, <2>1, RipUpGrid DEF Rip
<1>6. CASE WriteBack
  BY <1>6, WriteBackGrid
<1>7. ASSUME NEW n \in remaining, NextNet(n) PROVE Grid'
  BY <1>7, <1>n, GridKept DEF NextNet, StartRoute
<1>8. CASE Stage1Ends \/ TakeFailed \/ Stage2Ends
  BY <1>8, <1>n, GridKept DEF Stage1Ends, TakeFailed, Stage2Ends, StartRoute
<1>9. CASE Stage1 \/ Stage2 \/ WriteDef
  BY <1>9, <1>n, GridKept DEF Stage1, Stage2, WriteDef, Command
<1>10. ASSUME NEW n \in Nets, Route1(n) \/ Route2(n) PROVE Grid'
  BY <1>10, <1>n, GridKept DEF Route1, Route2, Command, StartRoute
<1>11. ASSUME NEW n \in Nets, RemoveNet(n) PROVE Grid'
  <2>1. pc = "idle" /\ pc' = pc /\ CurNet = None /\ CurNet' = CurNet
    BY <1>11, <1>n DEF RemoveNet, Command
  <2>2. n \in Nets \ {CurNet} /\ (RipUpNet(n) \/ RipUpStops(n))
    BY <1>11, <2>1, RipUpAssumption DEF RemoveNet
  <2> QED
    BY <2>1, <2>2, RipUpGrid
<1>12. CASE UNCHANGED vars
  BY <1>12 DEF vars, lists, search, Grid, RoutesHaveTheirCells, CellsHaveTheirRoutes, NoneMissed,
               Through, InHand, Stage
<1> QED
  BY <1>1, <1>2, <1>3, <1>4, <1>5, <1>6, <1>7, <1>8, <1>9, <1>10, <1>11, <1>12
     DEF Next, Router, User

--------------------------------------------------------------------------------
(* The lists of failed nets.                                                    *)

\* The lists may grow in a step, the routes of nets that are not in hand stay.
LEMMA ListsGrow ==
    ASSUME TypeOK, Listed, CurNet' = CurNet, asked' = asked,
           ToSet(FailedNets) \subseteq ToSet(FailedNets'), Abandoned' = Abandoned,
           \A n \in Nets \ {CurNet} : routes'[n] = routes[n]
    PROVE  \A n \in asked' \ {CurNet'} : Unreached(n)' # {} => Kept(n)'
BY DEF TypeOK, Listed, Kept, Unreached

\* Routing a net: when doroute returns, the net is listed unless it is routed.
LEMMA DoRouteListed ==
    ASSUME TypeOK, Listed, DoRoute
    PROVE  Listed'
<1> USE DEF control
<1>n. CurNet \in Nets /\ FailedNets \in Seq(Nets) /\ pc \in {"setup", "segs"}
  BY DEF TypeOK, DoRoute, SetupFails, RouteFails
<1>f. ToSet(FailedNets) \cup {CurNet} \subseteq ToSet(PutFirst(CurNet, FailedNets))
  BY <1>n, ListMembers
<1>1. CASE SetupFails
  BY <1>1, <1>n, <1>f, ListsGrow DEF Listed, Kept, SetupFails, Return
<1>2. CASE RouteFails
  <2>1. /\ ToSet(FailedNets) \subseteq ToSet(FailedNets') /\ targets' = targets
        /\ UNCHANGED <<routes, Abandoned, CurNet, asked>>
        /\ \/ pc' = "segs" /\ unroutable' = unroutable
           \/ pc' = "returned" /\ CurNet \in ToSet(FailedNets')
    BY <1>2, <1>f DEF RouteFails, Return
  <2>2. Unreached(CurNet)' = Unreached(CurNet)
    BY <2>1 DEF Unreached
  <2>3. pc = "segs"
    BY <1>2 DEF RouteFails
  <2> QED
    BY <2>1, <2>2, <2>3, ListsGrow DEF Listed, Kept
<1>3. ASSUME NEW cut \in SUBSET Unreached(CurNet), Setup(cut) PROVE Listed'
  <2>1. /\ ToSet(FailedNets) \subseteq ToSet(FailedNets')
        /\ UNCHANGED <<routes, Abandoned, CurNet, asked>>
    BY <1>3, <1>f DEF Setup, Return
  <2>2. Unreached(CurNet)' = Unreached(CurNet)
    BY <2>1 DEF Unreached
  <2>3. \/ /\ pc' = "segs" /\ targets' = Unreached(CurNet) \ cut
           /\ unroutable' = (IF cut = {} THEN 0 ELSE 1)
        \/ /\ pc' = "returned" /\ Unreached(CurNet) \ cut = {}
           /\ cut # {} => CurNet \in ToSet(FailedNets')
    BY <1>3, <1>f DEF Setup, Return
  <2>4. pc' = "segs" /\ unroutable' = 0 => cut = {}
    BY <2>3
  <2> QED
    BY <1>n, <2>1, <2>2, <2>3, <2>4, ListsGrow DEF Listed, Kept
<1>4. ASSUME NEW way \in Ways[CurNet], RouteSegs(way) PROVE Listed'
  <2>1. /\ ToSet(FailedNets) \subseteq ToSet(FailedNets') /\ pc = "segs"
        /\ UNCHANGED <<Abandoned, CurNet, asked>> /\ targets' = targets \ {way.to}
        /\ unroutable' = unroutable
        /\ \/ pc' = "segs"
           \/ /\ pc' = "returned" /\ targets' = {}
              /\ unroutable > 0 => CurNet \in ToSet(FailedNets')
    BY <1>4, <1>n, <1>f DEF RouteSegs, Return
  <2>2. routes' = [routes EXCEPT ![CurNet] = @ \cup {way}] /\ DOMAIN routes = Nets
    BY <1>4 DEF RouteSegs, TypeOK
  <2>3. routes'[CurNet] = routes[CurNet] \cup {way} /\ \A n \in Nets \ {CurNet} : routes'[n] = routes[n]
    BY <1>n, <2>2
  <2>4. Unreached(CurNet)' \subseteq Unreached(CurNet) \ {way.to}
    BY <2>1, <2>3 DEF Unreached
  <2>5. unroutable = 0 => Unreached(CurNet)' \subseteq targets'
    BY <2>1, <2>4 DEF Listed
  <2>6. unroutable = 0 \/ unroutable > 0
    BY DEF TypeOK
  <2> QED
    BY <2>1, <2>3, <2>5, <2>6, ListsGrow DEF Listed, Kept
<1> QED
  BY <1>1, <1>2, <1>3, <1>4 DEF DoRoute

\* Ripping up a net removes no route of another net.
LEMMA RipUpRoutes ==
    ASSUME TypeOK, NEW m \in Nets, RipUpNet(m) \/ RipUpStops(m)
    PROVE  /\ \A n \in Nets \ {m} : Unreached(n)' = Unreached(n)
           /\ RipUpStops(m) => Unreached(m)' = Unreached(m)
BY DEF TypeOK, RipUpNet, RipUpStops, Unreached

\* What is ripped up is listed, what is taken off a list is in hand or moves to
\* the other list, and what is not in hand any more is routed or listed.
LEMMA RouterListed ==
    ASSUME TypeOK, Listed, Router
    PROVE  Listed'
<1> USE DEF control, lists
<1>n. /\ pc \in {"setup", "segs", "returned", "ripup"} <=> CurNet # None
      /\ CurNet \in Nets \cup {None} /\ asked \subseteq Nets
      /\ FailedNets \in Seq(Nets) /\ Abandoned \in Seq(Nets)
  BY DEF TypeOK
<1>1. CASE Retry
  BY <1>1 DEF Retry, StartRoute, Listed, Kept, Unreached
<1>2. CASE Abandon
  <2>1. CurNet \in Nets
    BY <1>2, <1>n DEF Abandon
  <2>2. ToSet(FailedNets) \subseteq ToSet(FailedNets') \cup {CurNet}
    BY <1>2, <1>n, <2>1, ListMembers DEF Abandon
  <2>3. ToSet(Abandoned) \cup {CurNet} \subseteq ToSet(Abandoned')
    <3>1. <<CurNet>> \in Seq(Nets) /\ CurNet \in ToSet(<<CurNet>>)
      BY <2>1 DEF ToSet
    <3> QED
      BY <1>2, <1>n, <3>1, BothLists DEF Abandon
  <2> QED
    BY <1>2, <2>1, <2>2, <2>3 DEF Abandon, Listed, Kept, Unreached
<1>3. CASE RoutedOver
  BY <1>3 DEF RoutedOver, StartRipUp, Listed, Kept, Unreached
<1>4. CASE Routed
  BY <1>4 DEF Routed, Listed, Kept, Unreached
<1>5. ASSUME NEW m \in colliding, Rip(m) PROVE Listed'
  <2>1. m \in Nets /\ CurNet \in Nets /\ m # CurNet /\ (RipUpNet(m) \/ RipUpStops(m))
    BY <1>5, <1>n DEF Rip, TypeOK
  <2>2. /\ pc = "ripup" /\ UNCHANGED <<pc, CurNet, Abandoned>>
        /\ \/ FailedNets' = Append(FailedNets, m) /\ asked' = asked \cup {m}
           \/ FailedNets' = FailedNets /\ asked' = asked /\ RipUpStops(m)
    BY <1>5 DEF Rip
  <2>3. ToSet(FailedNets) \cup {m} \subseteq ToSet(Append(FailedNets, m))
    BY <1>n, <2>1, ListMembers
  <2>4. /\ \A n \in Nets \ {m} : Unreached(n)' = Unreached(n)
        /\ RipUpStops(m) => Unreached(m)' = Unreached(m)
    BY <2>1, RipUpRoutes
  <2>5. \A n \in asked' \ {CurNet'} : Unreached(n)' # {} => Kept(n)'
    BY <1>n, <2>2, <2>3, <2>4 DEF Listed, Kept
  <2>6. Unreached(CurNet)' # {} => Kept(CurNet)'
    BY <2>1, <2>2, <2>3, <2>4 DEF Listed, Kept
  <2> QED
    BY <2>2, <2>5, <2>6 DEF Listed
<1>6. CASE WriteBack
  BY <1>6 DEF WriteBack, Listed, Kept, Unreached
<1>7. ASSUME NEW n \in remaining, NextNet(n) PROVE Listed'
  BY <1>7, <1>n, RipUpAssumption DEF NextNet, StartRoute, Listed, Kept, Unreached
<1>8. CASE Stage1Ends
  BY <1>8 DEF Stage1Ends, Listed, Kept, Unreached
<1>9. CASE TakeFailed
  <2>1. ToSet(FailedNets) \subseteq ToSet(FailedNets') \cup {CurNet'}
    BY <1>9, <1>n, ListMembers DEF TakeFailed, StartRoute
  <2> QED
    BY <1>9, <1>n, RipUpAssumption, <2>1 DEF TakeFailed, StartRoute, Listed, Kept, Unreached
<1>10. CASE Stage2Ends
  <2>1. ToSet(FailedNets) \cup ToSet(Abandoned) \subseteq ToSet(FailedNets')
    BY <1>10, <1>n, BothLists DEF Stage2Ends
  <2> QED
    BY <1>10, <2>1 DEF Stage2Ends, Listed, Kept, Unreached
<1> QED
  BY <1>1, <1>2, <1>3, <1>4, <1>5, <1>6, <1>7, <1>8, <1>9, <1>10, DoRouteListed DEF Router

\* A command forgets no net that it does not take into its hand.
LEMMA UserListed ==
    ASSUME TypeOK, Listed, User
    PROVE  Listed'
<1> USE DEF control, lists, Command
<1>n. /\ pc \in {"setup", "segs", "returned", "ripup"} <=> CurNet # None
      /\ FailedNets \in Seq(Nets) /\ asked \subseteq Nets
  BY DEF TypeOK
<1>1. CASE Stage1
  BY <1>1 DEF Stage1, Listed
<1>2. CASE Stage2
  BY <1>2 DEF Stage2, Listed, Kept, Unreached
<1>3. CASE WriteDef
  <2>1. /\ pc = "idle" /\ UNCHANGED <<pc, CurNet, routes, Abandoned>>
        /\ asked' = {n \in asked : Unreached(n) = {} \/ ~Contains(FailedNets, n)}
    BY <1>3 DEF WriteDef
  <2>2. ASSUME NEW n \in asked' \ {CurNet'}, Unreached(n)' # {} PROVE Kept(n)'
    <3>1. n \in asked \ {CurNet} /\ Unreached(n) # {} /\ ~Contains(FailedNets, n)
      BY <2>1, <2>2 DEF Unreached
    <3>2. n \notin ToSet(FailedNets)
      BY <1>n, <3>1 DEF Contains, ToSet
    <3> QED
      BY <2>1, <3>1, <3>2 DEF Listed, Kept
  <2> QED
    BY <2>1, <2>2 DEF Listed
<1>4. ASSUME NEW n \in Nets, Route1(n) PROVE Listed'
  BY <1>4, <1>n, RipUpAssumption DEF Route1, StartRoute, Listed, Kept, Unreached
<1>5. ASSUME NEW n \in Nets, Route2(n) PROVE Listed'
  <2>1. Contains(FailedNets, n) =>
            ToSet(FailedNets) \subseteq ToSet(RemoveFirst(FailedNets, n)) \cup {n}
    BY <1>n, ListMembers
  <2> QED
    BY <1>5, <1>n, RipUpAssumption, <2>1 DEF Route2, StartRoute, Listed, Kept, Unreached
<1>6. ASSUME NEW n \in Nets, RemoveNet(n) PROVE Listed'
  <2>1. /\ pc = "idle" /\ asked' = asked \ {n} /\ (RipUpNet(n) \/ RipUpStops(n))
        /\ UNCHANGED <<pc, CurNet, FailedNets, Abandoned>>
    BY <1>6 DEF RemoveNet
  <2>2. \A m \in Nets \ {n} : Unreached(m)' = Unreached(m)
    BY <2>1, RipUpRoutes
  <2> QED
    BY <1>n, <2>1, <2>2 DEF Listed, Kept
<1> QED
  BY <1>1, <1>2, <1>3, <1>4, <1>5, <1>6 DEF User

\* Every step keeps the nets that are not routed listed.
LEMMA NextListed == TypeOK /\ Listed /\ [Next]_vars => Listed'
<1> SUFFICES ASSUME TypeOK, Listed, [Next]_vars PROVE Listed'
  OBVIOUS
<1>1. CASE UNCHANGED vars
  BY <1>1 DEF vars, control, lists, search, Listed, Kept, Unreached
<1> QED
  BY <1>1, RouterListed, UserListed DEF Next

--------------------------------------------------------------------------------
(* The invariant, and what follows from it.                                     *)

\* Types, control, grid and lists together hold in every state of the router (qrouter.c,
\* maze.c).
THEOREM Invariant == Spec => []IInv
<1>1. Init => IInv
  <2>1. Init => Grid
    BY DEF Init, Grid, RoutesHaveTheirCells, CellsHaveTheirRoutes, NoneMissed, Through
  <2>2. Init => Listed
    BY DEF Init, Listed
  <2> QED
    BY <2>1, <2>2, InitType DEF IInv
<1>2. IInv /\ [Next]_vars => IInv'
  BY NextType, NextGrid, NextListed DEF IInv
<1> QED
  BY <1>1, <1>2, PTL DEF Spec

\* The router's variables keep their types.
THEOREM TypeCorrect == Spec => []TypeOK
<1>1. IInv => TypeOK
  BY DEF IInv
<1> QED
  BY <1>1, Invariant, PTL

\* A net that keeps routes has their cells in the obstruction array
\* (commit_proute, ripup_net and writeback_all_routes), but for the spoiled nets.
THEOREM RoutesKeepTheirCells == Spec => []RoutesHaveTheirCells
<1>1. IInv => RoutesHaveTheirCells
  BY DEF IInv, Grid
<1> QED
  BY <1>1, Invariant, PTL

\* No cell of the obstruction array is left behind by a rip-up (ripup_net).
THEOREM NoCellLeftBehind == Spec => []CellsHaveTheirRoutes
<1>1. IInv => CellsHaveTheirRoutes
  BY DEF IInv, Grid
<1> QED
  BY <1>1, Invariant, PTL

\* find_colliding finds every net to be ripped up at once: ripping up the first of
\* them hides none of the others (ripup_colliding).
THEOREM NoneIsMissed == Spec => []NoneMissed
<1>1. IInv => NoneMissed
  BY DEF IInv, Grid
<1> QED
  BY <1>1, Invariant, PTL

\* A net that was to be routed, or was ripped up, has routes to all its nodes or is
\* on the list of failed nets, or of those given up, until it is removed or written
\* as failed (doroute, ripup_colliding, dosecondstage, write_def).
THEOREM NoNetForgotten == Spec => []NoneForgotten
<1>1. IInv => NoneForgotten
  <2> SUFFICES ASSUME IInv, pc \in {"idle", "first", "second"}, NEW n \in asked, Unreached(n) # {}
               PROVE  Kept(n)
    BY DEF NoneForgotten, Kept
  <2>1. CurNet = None /\ n # CurNet
    BY RipUpAssumption DEF IInv, TypeOK
  <2> QED
    BY <2>1 DEF IInv, Listed
<1> QED
  BY <1>1, Invariant, PTL

\* Nets that were never left with routes not entered share no cell: what two of
\* them run through would be both of theirs in the obstruction array.
COROLLARY NoShortsUnlessSpoiled ==
    Spec => [](\A n, m \in Nets \ spoiled : n # m /\ ~InHand(n) /\ ~InHand(m)
                  => ~\E c \in Cells : Through(n, c) /\ Through(m, c))
<1>1. RoutesHaveTheirCells =>
        \A n, m \in Nets \ spoiled : n # m /\ ~InHand(n) /\ ~InHand(m)
            => ~\E c \in Cells : Through(n, c) /\ Through(m, c)
  BY DEF RoutesHaveTheirCells
<1> QED
  BY <1>1, RoutesKeepTheirCells, PTL

================================================================================
