------------------------------- MODULE MCRpc -------------------------------
(* The instances: three calls, whose numbers wrap around, over a connection
   that holds a frame and a half; two calls over one that holds half a frame,
   where frames are torn and the readers go on out of step. *)
EXTENDS Rpc

MCInstances ==
  {[capacity |-> 3, calls |-> 3, kills |-> 1, garbled |-> 0],
   [capacity |-> 1, calls |-> 2, kills |-> 1, garbled |-> 2]}
=============================================================================
