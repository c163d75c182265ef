---------------------------- MODULE MCSimulator ----------------------------
(***************************************************************************)
(* The simulator's loop with recordings to repeat.                         *)
(***************************************************************************)
EXTENDS Simulator

(* Of three readings, and of two readings that have one time.              *)
cScenarios ==
    {[devices |-> {1}, nodes |-> {2}, rec |-> <<>>, speed |-> 1, loop |-> FALSE],
     [devices |-> {}, nodes |-> {}, rec |-> <<0, 2, 4>>, speed |-> 2, loop |-> TRUE],
     [devices |-> {}, nodes |-> {}, rec |-> <<0, 0>>, speed |-> 1, loop |-> TRUE]}

cInterval == <<4>>

cFaults == {[type |-> "delay", measurement |-> "a", time |-> 5]}
=============================================================================
