------------------------------- MODULE MCLoop -------------------------------
(* The delays of the waits: none, at once, one unit of time.  The instances:
   clients of timers; tasks and callbacks that share descriptors; signals. *)
EXTENDS Loop

MCDelays == {NoTimeout, 0, 1}

MCInstances ==
  {[tasks |-> {"a"}, timers |-> {"x", "y"}, watches |-> {<<"read", 3>>},
    handlers |-> {}, time |-> 2, ops |-> 4, arrivals |-> 0],
   [tasks |-> {"a", "b"}, timers |-> {}, watches |-> {<<"read", 3>>, <<"read", 4>>, <<"write", 3>>},
    handlers |-> {}, time |-> 1, ops |-> 3, arrivals |-> 0],
   [tasks |-> {"a"}, timers |-> {"x"}, watches |-> {<<"read", 3>>},
    handlers |-> {1, 2}, time |-> 1, ops |-> 2, arrivals |-> 3]}
=============================================================================
