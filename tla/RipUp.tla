---------------------------------- MODULE RipUp ---------------------------------
(* The net router qrouter (qrouter-1.2.34): how nets are routed one after the   *)
(* other (first stage), and how the failed ones are routed over others, which   *)
(* are ripped up and fail in their turn (second stage).  qrouter.c drives,      *)
(* maze.c keeps the grid, tclqrouter.c calls the stages as commands.            *)
(*                                                                              *)
(* The search for a path (route_segs with eval_pt) is abstracted: a net has a   *)
(* set of ways to reach each of its nodes, a search takes any way that is not   *)
(* barred, or finds none - masks, costs and the number of passes may stop it at *)
(* any time.  Cells are the grid positions that are no taps: a tap has its net   *)
(* in Obs from the start, no other net enters it and no rip-up clears it.       *)
EXTENDS Integers, Sequences, SequencesExt

CONSTANTS
    Nets,           \* Nlnets, power and ground left out
    Cells,          \* grid positions
    Targets,        \* for each net: its nodes but the first, which is the source
    Ways,           \* for each net: ways to reach a target, [to |-> .., cells |-> ..]
    None,           \* not a net
    MinFailed,      \* 20 in the code: failed nets counted at least for the limit of tries
    Tries,          \* 8 in the code: routes per failed net
    keepTrying,     \* the second stage goes on when it makes no progress
    Commands,       \* commands the user gives
    MaxCommands     \* bound: number of commands

Way(n) == [to: Targets[n], cells: SUBSET Cells]

ASSUME RipUpAssumption ==
    /\ None \notin Nets
    /\ Ways \in [Nets -> SUBSET [to: UNION {Targets[n] : n \in Nets}, cells: SUBSET Cells]]
    /\ \A n \in Nets : Ways[n] \subseteq Way(n)
    /\ MinFailed \in Nat /\ Tries \in Nat /\ keepTrying \in BOOLEAN /\ MaxCommands \in Nat
    /\ Commands \subseteq {"stage1", "stage2", "route1", "route2", "remove", "write"}

VARIABLES
    Obs,            \* for each cell: the net that has it, or None
    routes,         \* net->routes: the ways of each net
    FailedNets,
    Abandoned,
    noripup,        \* net->noripup: nets that a net must not route over (again)
    pending,        \* nets with the flag NET_PENDING
    TotalRoutes,
    pc,             \* where the router is
    command,        \* the command that runs
    remaining,      \* nets the first stage has still to route
    CurNet,
    targets,        \* nodes of CurNet to be reached
    unroutable,     \* 1: nodes of CurNet were left out, 0: none
    result,         \* what doroute returns
    colliding,      \* nets that ripup_colliding has still to rip up
    counts,         \* failcount, origcount and maxtries of the second stage
    given,          \* commands given (bound)
    asked,          \* nets that were to be routed, and neither removed nor written as failed since
    spoiled         \* nets left with routes that were never entered in Obs

search == <<targets, unroutable, result>>
lists == <<FailedNets, Abandoned, noripup, pending>>
control == <<command, remaining, counts, given, asked>>
vars == <<Obs, routes, lists, TotalRoutes, pc, control, CurNet, search, colliding, spoiled>>

--------------------------------------------------------------------------------
(* A net's routes run through a cell. *)
Through(n, c) == \E w \in routes[n] : c \in w.cells

Unreached(n) == Targets[n] \ {w.to : w \in routes[n]}

Stage == IF command \in {"stage1", "route1"} THEN 0 ELSE 1

EnterAnything(c) == ~Through(CurNet, c)

(* Cells of a way, in the first stage: free ones.  In the second: also those of *)
(* other nets, unless they are on the list of nets not to rip up.               *)
MayEnter(c) ==
    /\ ~Through(CurNet, c)
    /\ \/ Obs[c] = None
       \/ Stage = 1 /\ Obs[c] \notin noripup[CurNet]

(* Obs with the cells of a way, or of all routes of a net, entered *)
Entered(way) == [c \in Cells |-> IF c \in way.cells THEN CurNet ELSE Obs[c]]
EnteredRoutes(n) == [c \in Cells |-> IF Through(n, c) THEN n ELSE Obs[c]]

PutFirst(n, list) == IF list # <<>> /\ Head(list) = n THEN list ELSE <<n>> \o list

--------------------------------------------------------------------------------
(* doroute.                                                                     *)

StartRoute(n) ==
    /\ CurNet' = n /\ pc' = "setup"
    /\ targets' = {} /\ unroutable' = 0 /\ result' = 0

(* the end of doroute, with the list of failed nets as it is by then *)
Return(r, unr, failed) ==
    /\ FailedNets' = IF r < 0 \/ unr > 0 THEN PutFirst(CurNet, failed) ELSE failed
    /\ result' = r /\ unroutable' = unr
    /\ pc' = "returned"

(* route_setup gives up: the source has no tap (or the result of an empty       *)
(* set_routes_to_net, which is never set, happens to be that error).            *)
SetupFails ==
    /\ pc = "setup"
    /\ Return(-1, 0, FailedNets)
    /\ UNCHANGED <<Obs, routes, Abandoned, noripup, pending, TotalRoutes, control, CurNet,
                   targets, colliding, spoiled>>

(* route_setup: the nodes of a set cannot be reached; the rest is to be routed *)
Setup(cut) ==
    /\ pc = "setup"
    /\ targets' = Unreached(CurNet) \ cut
    /\ IF targets' # {}
       THEN /\ pc' = "segs" /\ unroutable' = (IF cut = {} THEN 0 ELSE 1)
            /\ UNCHANGED <<FailedNets, result>>
       ELSE Return(IF cut = {} THEN 0 ELSE -1, 0, FailedNets)
    /\ UNCHANGED <<Obs, routes, Abandoned, noripup, pending, TotalRoutes, control, CurNet,
                   colliding, spoiled>>

(* route_segs finds a way, commit_proute enters it in Obs in the first stage    *)
(* only, next_route_setup finds out whether a node is left.                     *)
RouteSegs(way) ==
    /\ pc = "segs" /\ way \in Ways[CurNet] /\ way.to \in targets
    /\ \A c \in way.cells : MayEnter(c)
    /\ Obs' = IF Stage = 0 THEN Entered(way) ELSE Obs
    /\ routes' = [routes EXCEPT ![CurNet] = @ \cup {way}]
    /\ TotalRoutes' = TotalRoutes + 1
    /\ targets' = targets \ {way.to}
    /\ IF targets' = {} THEN Return(0, unroutable, FailedNets)
       ELSE UNCHANGED <<pc, FailedNets, result, unroutable>>
    /\ UNCHANGED <<Abandoned, noripup, pending, control, CurNet, colliding, spoiled>>

(* No way is found.  The first time the net is put on the list of failed nets   *)
(* and the search is set up again, if the net has any route to start from; when *)
(* the net is in front of the list already, doroute gives up.                   *)
RouteFails ==
    /\ pc = "segs"
    /\ IF routes[CurNet] = {} \/ (FailedNets # <<>> /\ Head(FailedNets) = CurNet)
       THEN Return(-1, unroutable, FailedNets)
       ELSE /\ FailedNets' = PutFirst(CurNet, FailedNets)
            /\ UNCHANGED <<pc, result, unroutable>>
    /\ UNCHANGED <<Obs, routes, Abandoned, noripup, pending, TotalRoutes, control, CurNet,
                   targets, colliding, spoiled>>

--------------------------------------------------------------------------------
(* Ripping up.                                                                  *)

CollidingWithItself(n) == {m \in Nets : \E c \in Cells : Through(n, c) /\ Obs[c] = m}

FirstColliding(n) ==
    LET all == {m \in Nets \ {n} : \E c \in Cells : Through(n, c) /\ Obs[c] = m}
    IN  IF all = {} THEN {} ELSE {CHOOSE m \in all : TRUE}

(* the nets that find_colliding finds *)
Colliding(n) == {m \in Nets \ {n} : \E c \in Cells : Through(n, c) /\ Obs[c] = m}

(* ripup_net succeeds: no cell of the net's routes belongs to another net *)
CanRip(n) == \A c \in Cells : Through(n, c) => Obs[c] \in {n, None}

ClearedStart(n) ==
    [c \in Cells |-> IF Through(n, c) /\ c = (CHOOSE d \in Cells : Through(n, d))
                     THEN None ELSE Obs[c]]

Cleared(n) == [c \in Cells |-> IF Through(n, c) THEN None ELSE Obs[c]]

RipUpNet(n) ==
    /\ CanRip(n)
    /\ Obs' = Cleared(n)
    /\ routes' = [routes EXCEPT ![n] = {}]
    /\ spoiled' = spoiled \ {n}

(* ripup_net stops at a cell of another net; what it had cleared stays cleared *)
RipUpStops(n) ==
    /\ ~CanRip(n)
    /\ \E some \in SUBSET {c \in Cells : Through(n, c) /\ Obs[c] = n} :
          Obs' = [c \in Cells |-> IF c \in some THEN None ELSE Obs[c]]
    /\ UNCHANGED <<routes, spoiled>>

RipUnlisted(m) ==
    /\ pc = "ripup" /\ m \in colliding
    /\ RipUpNet(m) \/ RipUpStops(m)
    /\ colliding' = colliding \ {m}
    /\ UNCHANGED <<lists, TotalRoutes, pc, control, CurNet, search>>

(* ripup_colliding, one net; it is to be routed again *)
Rip(m) ==
    /\ pc = "ripup" /\ m \in colliding
    /\ \/ /\ RipUpNet(m)
          /\ FailedNets' = Append(FailedNets, m)
          /\ noripup' = [noripup EXCEPT ![CurNet] = @ \cup {m}]
          /\ asked' = asked \cup {m}
       \/ RipUpStops(m) /\ UNCHANGED <<FailedNets, noripup, asked>>
    /\ colliding' = colliding \ {m}
    /\ UNCHANGED <<Abandoned, pending, TotalRoutes, pc, command, remaining, counts, given, CurNet,
                   search>>

Stuck == counts.failcount > counts.origcount \div 2 /\ ~keepTrying

(* The end of ripup_colliding: writeback_all_routes; then, in the second stage, *)
(* the test whether enough progress is made.                                    *)
WriteBack ==
    /\ pc = "ripup" /\ colliding = {}
    /\ Obs' = EnteredRoutes(CurNet)
    /\ spoiled' = spoiled \ {CurNet}
    /\ IF command = "route2" THEN pc' = "idle" /\ UNCHANGED counts
       ELSE IF TotalRoutes < counts.maxtries THEN pc' = "second" /\ UNCHANGED counts
       ELSE /\ pc' = (IF Stuck THEN "stage2ends" ELSE "second")
            /\ counts' = IF counts.failcount <= counts.origcount \div 2
                         THEN [counts EXCEPT !.maxtries = TotalRoutes + counts.failcount * Tries,
                                             !.origcount = counts.failcount]
                         ELSE counts
    /\ CurNet' = None
    /\ UNCHANGED <<routes, lists, TotalRoutes, command, remaining, given, asked, search, colliding>>

StartRipUp ==
    /\ pc' = "ripup" /\ colliding' = Colliding(CurNet)
    /\ UNCHANGED <<Obs, routes, lists, TotalRoutes, control, CurNet, search, spoiled>>

--------------------------------------------------------------------------------
(* What happens when doroute has returned.                                      *)

(* In the second stage a net that fails is tried once more without its list of  *)
(* nets not to rip up; the next time it is given up.                            *)
MayRetry == Stage = 1 /\ result < 0 /\ noripup[CurNet] # {} /\ CurNet \notin pending

RetryForever ==
    /\ pc = "returned" /\ Stage = 1 /\ result < 0 /\ noripup[CurNet] # {}
    /\ StartRoute(CurNet)
    /\ UNCHANGED <<Obs, routes, lists, TotalRoutes, control, colliding, spoiled>>

Retry ==
    /\ pc = "returned" /\ MayRetry
    /\ noripup' = [noripup EXCEPT ![CurNet] = {}]
    /\ pending' = pending \cup {CurNet}
    /\ StartRoute(CurNet)
    /\ UNCHANGED <<Obs, routes, FailedNets, Abandoned, TotalRoutes, control, colliding, spoiled>>

Unwritten(n) == \E c \in Cells : Through(n, c) /\ Obs[c] # n

(* list from the first entry of another net on *)
Behind(n, list) ==
    LET others == {i \in 1..Len(list) : list[i] # n}
    IN  IF others = {} THEN <<>> ELSE SubSeq(list, Min(others), Len(list))

(* dosecondstage gives the net up.  Its routes, if it has any by now, stay. *)
Abandon ==
    /\ pc = "returned" /\ command = "stage2" /\ result < 0 /\ ~MayRetry
    /\ Abandoned' = <<CurNet>> \o Abandoned
    /\ FailedNets' = Behind(CurNet, FailedNets)
    /\ spoiled' = IF Unwritten(CurNet) THEN spoiled \cup {CurNet} ELSE spoiled
    /\ pc' = "second" /\ CurNet' = None
    /\ UNCHANGED <<Obs, routes, noripup, pending, TotalRoutes, control, search, colliding>>

(* dosecondstage rips up what a routed net collides with; route_net_ripup what  *)
(* a net collides with that could not be routed.                                *)
RoutedOver ==
    /\ pc = "returned" /\ ~MayRetry
    /\ (command = "stage2" /\ result = 0) \/ (command = "route2" /\ result < 0)
    /\ StartRipUp

(* doroute was the last thing to do: in the first stage, and in route_net_ripup *)
(* for a net that was routed, whose routes are not entered then.                *)
Routed ==
    /\ pc = "returned"
    /\ Stage = 0 \/ (command = "route2" /\ result = 0)
    /\ pc' = IF command = "stage1" THEN "first" ELSE "idle"
    /\ spoiled' = IF Stage = 1 /\ Unwritten(CurNet) THEN spoiled \cup {CurNet} ELSE spoiled
    /\ CurNet' = None
    /\ UNCHANGED <<Obs, routes, lists, TotalRoutes, control, search, colliding>>

--------------------------------------------------------------------------------
(* The stages.                                                                  *)

Command(name) ==
    /\ pc = "idle" /\ name \in Commands /\ given < MaxCommands
    /\ command' = name /\ given' = given + 1

Stage1 ==
    /\ Command("stage1")
    /\ FailedNets' = <<>> /\ remaining' = Nets /\ asked' = {}
    /\ pc' = "first"
    /\ UNCHANGED <<Obs, routes, Abandoned, noripup, pending, TotalRoutes, counts, CurNet,
                   search, colliding, spoiled>>

(* the next net of the first stage; the order of the nets is left open *)
NextNet(n) ==
    /\ pc = "first" /\ n \in remaining
    /\ remaining' = remaining \ {n} /\ asked' = asked \cup {n}
    /\ StartRoute(n)
    /\ UNCHANGED <<Obs, routes, lists, TotalRoutes, command, counts, given, colliding, spoiled>>

Stage1Ends ==
    /\ pc = "first" /\ remaining = {}
    /\ pc' = "idle"
    /\ UNCHANGED <<Obs, routes, lists, TotalRoutes, control, CurNet, search, colliding, spoiled>>

AtLeast(x, y) == IF x < y THEN y ELSE x

Stage2 ==
    /\ Command("stage2")
    /\ counts' = [failcount |-> 0, origcount |-> Len(FailedNets),
                  maxtries |-> IF FailedNets = <<>> THEN 0
                              ELSE TotalRoutes + AtLeast(Len(FailedNets), MinFailed) * Tries]
    /\ pc' = "second"
    /\ UNCHANGED <<Obs, routes, lists, TotalRoutes, remaining, asked, CurNet, search,
                   colliding, spoiled>>

TakeFailed ==
    /\ pc = "second" /\ FailedNets # <<>>
    /\ counts' = [counts EXCEPT !.failcount = Len(FailedNets)]
    /\ FailedNets' = Tail(FailedNets) /\ asked' = asked \cup {Head(FailedNets)}
    /\ StartRoute(Head(FailedNets))
    /\ UNCHANGED <<Obs, routes, Abandoned, noripup, pending, TotalRoutes, command, remaining,
                   given, colliding, spoiled>>

Stage2Ends ==
    /\ pc = "stage2ends" \/ (pc = "second" /\ FailedNets = <<>>)
    /\ FailedNets' = FailedNets \o Abandoned /\ Abandoned' = <<>>
    /\ pc' = "idle"
    /\ UNCHANGED <<Obs, routes, noripup, pending, TotalRoutes, control, CurNet, search,
                   colliding, spoiled>>

(* stage1 route <net> *)
Route1(n) ==
    /\ Command("route1")
    /\ asked' = asked \cup {n}
    /\ StartRoute(n)
    /\ UNCHANGED <<Obs, routes, lists, TotalRoutes, remaining, counts, colliding, spoiled>>

(* stage2 route <net>: route_net_ripup goes through a null pointer for a net    *)
(* that is not on the list of failed nets.                                      *)
Route2(n) ==
    /\ Command("route2")
    /\ IF Contains(FailedNets, n)
       THEN StartRoute(n) /\ FailedNets' = RemoveFirst(FailedNets, n) /\ asked' = asked \cup {n}
       ELSE pc' = "crashed" /\ UNCHANGED <<CurNet, search, FailedNets, asked>>
    /\ UNCHANGED <<Obs, routes, Abandoned, noripup, pending, TotalRoutes, remaining, counts,
                   colliding, spoiled>>

(* remove net <net> *)
RemoveNet(n) ==
    /\ Command("remove")
    /\ RipUpNet(n) \/ RipUpStops(n)
    /\ asked' = asked \ {n}
    /\ UNCHANGED <<lists, TotalRoutes, pc, remaining, counts, CurNet, search, colliding>>

(* write_def writes the routes of all nets and the names of the failed ones, and *)
(* takes the list of failed nets down; the router goes on with what it has.      *)
WriteDef ==
    /\ Command("write")
    /\ FailedNets' = <<>>
    /\ asked' = {n \in asked : Unreached(n) = {} \/ ~Contains(FailedNets, n)}
    /\ UNCHANGED <<Obs, routes, Abandoned, noripup, pending, TotalRoutes, pc, remaining, counts,
                   CurNet, search, colliding, spoiled>>

--------------------------------------------------------------------------------
(* Before the first command: nothing is routed (nets routed in the DEF file     *)
(* that was read are left out).                                                 *)
Init ==
    /\ Obs = [c \in Cells |-> None] /\ routes = [n \in Nets |-> {}]
    /\ FailedNets = <<>> /\ Abandoned = <<>> /\ noripup = [n \in Nets |-> {}] /\ pending = {}
    /\ TotalRoutes = 0 /\ pc = "idle" /\ command = "none" /\ remaining = {}
    /\ CurNet = None /\ targets = {} /\ unroutable = 0 /\ result = 0 /\ colliding = {}
    /\ counts = [failcount |-> 0, origcount |-> 0, maxtries |-> 0]
    /\ given = 0 /\ asked = {} /\ spoiled = {}

DoRoute ==
    \/ SetupFails \/ RouteFails
    \/ pc = "setup" /\ \E cut \in SUBSET Unreached(CurNet) : Setup(cut)
    \/ pc = "segs" /\ \E way \in Ways[CurNet] : RouteSegs(way)

Router ==
    \/ DoRoute
    \/ Retry \/ Abandon \/ RoutedOver \/ Routed
    \/ \E m \in colliding : Rip(m)
    \/ WriteBack
    \/ \E n \in remaining : NextNet(n)
    \/ Stage1Ends \/ TakeFailed \/ Stage2Ends

User ==
    \/ Stage1 \/ Stage2 \/ WriteDef
    \/ \E n \in Nets : Route1(n) \/ Route2(n) \/ RemoveNet(n)

Next == Router \/ User

(* The router is one process that never waits; the user may stop giving commands. *)
Spec == Init /\ [][Next]_vars /\ WF_vars(Router)

--------------------------------------------------------------------------------
TypeOK ==
    /\ Obs \in [Cells -> Nets \cup {None}]
    /\ routes \in [Nets -> SUBSET UNION {Ways[n] : n \in Nets}]
    /\ \A n \in Nets : routes[n] \subseteq Ways[n]
    /\ FailedNets \in Seq(Nets) /\ Abandoned \in Seq(Nets)
    /\ noripup \in [Nets -> SUBSET Nets] /\ pending \subseteq Nets
    /\ TotalRoutes \in Nat
    /\ pc \in {"idle", "first", "second", "setup", "segs", "returned", "ripup",
               "stage2ends", "crashed"}
    /\ command \in Commands \cup {"none"}
    /\ remaining \subseteq Nets
    /\ CurNet \in Nets \cup {None}
    /\ (pc \in {"setup", "segs", "returned", "ripup"}) <=> (CurNet # None)
    /\ CurNet # None => targets \subseteq Targets[CurNet]
    /\ unroutable \in 0..1 /\ result \in -1..0
    /\ colliding \subseteq Nets \ {CurNet}
    /\ counts \in [failcount: Nat, origcount: Nat, maxtries: Nat]
    /\ given \in 0..MaxCommands /\ asked \subseteq Nets /\ spoiled \subseteq Nets

(* The routes of the net in hand are in Obs only when the second stage is done with it. *)
InHand(n) == n = CurNet /\ Stage = 1

(* The obstruction array and the routes agree: the cells of a net's routes are  *)
(* the net's own in Obs, so that the search keeps other nets off them and no    *)
(* two nets are routed through one cell.  Nets that were left with routes not   *)
(* entered (see NoShorts) are excepted, and only these.                         *)
RoutesHaveTheirCells ==
    \A n \in Nets : n \notin spoiled /\ ~InHand(n) =>
        \A c \in Cells : Through(n, c) => Obs[c] = n

(* The reverse: a cell that a net has in Obs is on one of its routes.  A cell   *)
(* left behind by a rip-up would be lost to all nets for good.                  *)
CellsHaveTheirRoutes ==
    \A c \in Cells : Obs[c] # None => Through(Obs[c], c)

(* No net is forgotten: one that was to be routed, or was ripped up, has routes *)
(* to all its nodes or is on a list of nets that failed, until it is removed or *)
(* write_def has named it as failed.  After that no list has it: the second     *)
(* stage has nothing to do then, although nets are not routed.                  *)
NoneForgotten ==
    pc \in {"idle", "first", "second"} =>
        \A n \in asked : Unreached(n) # {} => n \in ToSet(FailedNets) \cup ToSet(Abandoned)

(* While a routed net is entered, every net it runs over is still to be ripped  *)
(* up; none is missed because of what ripping up another one changed.           *)
NoneMissed ==
    pc = "ripup" =>
        \A n \in Nets \ (spoiled \cup {CurNet}) :
            (\E c \in Cells : Through(n, c) /\ Through(CurNet, c)) => n \in colliding

(* The second stage comes to an end, although nets rip each other up. *)
SecondStageEnds == (command = "stage2" /\ pc # "idle") ~> (pc = "idle")

(* In what is written no two nets run through the same cell: the second stage   *)
(* is to rip up the nets that a net was routed over.                            *)
NoShorts ==
    command = "write" =>
        \A n, m \in Nets : n # m => ~\E c \in Cells : Through(n, c) /\ Through(m, c)

================================================================================
