--------------------------------- MODULE RipUpMC --------------------------------
(* Three nets on three cells for TLC: c, which has two nodes to reach and so may *)
(* be routed in part, has one way across a and one across b.                      *)
EXTENDS RipUp

CONSTANTS a, b, c

way(t, cells) == [to |-> t, cells |-> cells]

MCTargets == [n \in Nets |-> IF n = c THEN {1, 2} ELSE {1}]
MCWays ==
    [n \in Nets |->
        CASE n = a -> {way(1, {3})}
          [] n = b -> {way(1, {1, 2})}
          [] n = c -> {way(1, {2}), way(2, {3})}]
================================================================================
