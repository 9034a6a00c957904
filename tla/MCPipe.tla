-------------------------------- MODULE MCPipe --------------------------------
(* Instance of Pipe for TLC: recompaction as soon as it can happen, once   *)
(* a read slot outnumbers the values, or (the default) never this early.   *)
EXTENDS Pipe
MCWastes == {[abs |-> 0, prop |-> 0], [abs |-> 0, prop |-> 1],
             [abs |-> 32, prop |-> 2]}
=============================================================================
