------------------------------- MODULE VThreadMC -------------------------------
(* A small design for VThread: a module with a named block, a task with a block *)
(* of its own and a function with a block of its own.                           *)
EXTENDS VThread

MCOuter == [b \in Blocks |->
    CASE b = "block" -> Module
      [] b = "taskBlock" -> "task"
      [] b = "functionBlock" -> "function"]
================================================================================
