--------------------------------- MODULE Fifo ---------------------------------
(***************************************************************************)
(* What a pipe promises, without indexes, cached state, recompaction or    *)
(* waiting tasks: a bounded queue, read in the order it was written, where *)
(* the last value read can be pushed back.                                 *)
(***************************************************************************)
EXTENDS Naturals, Sequences

CONSTANTS Values, None

VARIABLES queue,    \* what is in the pipe
          cap,      \* the most it may hold, None without a limit
          got       \* the last value that was read

vars == <<queue, cap, got>>

Room == cap = None \/ Len(queue) < cap

Init == queue = <<>> /\ cap \in Nat \cup {None} /\ got = None

Send(x)     == Room /\ queue' = Append(queue, x) /\ UNCHANGED <<cap, got>>
Pushback(x) == Room /\ queue' = <<x>> \o queue /\ UNCHANGED <<cap, got>>
Receive     == /\ queue # <<>>
               /\ got' = Head(queue) /\ queue' = Tail(queue)
               /\ UNCHANGED cap
Resize      == /\ cap' \in Nat /\ Len(queue) <= cap'
               /\ UNCHANGED <<queue, got>>

Next == Receive \/ Resize \/ \E x \in Values : Send(x) \/ Pushback(x)
Spec == Init /\ [][Next]_vars
=============================================================================
