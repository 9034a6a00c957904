------------------------------- MODULE Watch -------------------------------
(***************************************************************************)
(* The watch lists of sched/fd.lua, one to read and one to write: the list *)
(* of descriptors, the index of each (0 if none), those with a callback.   *)
(***************************************************************************)
EXTENDS Integers, Sequences, SequencesExt

CONSTANT Fds \* the sockets, by descriptor

ASSUME FdConstants == Fds \subseteq Nat

RW == {"read", "write"}

NoWatch == [list |-> [rw \in RW |-> <<>>], index |-> [rw \in RW |-> [fd \in Fds |-> 0]],
            func |-> [rw \in RW |-> {}]]

Watched(w, rw, fd) == w.index[rw][fd] # 0

\* add_watch, for a descriptor which is not registered.
AddWatch(w, rw, fd, func) ==
  [list  |-> [w.list EXCEPT ![rw] = Append(@, fd)],
   index |-> [w.index EXCEPT ![rw][fd] = Len(w.list[rw]) + 1],
   func  |-> [w.func EXCEPT ![rw] = IF func THEN @ \cup {fd} ELSE @]]

\* Mutant: the index of the last descriptor is not updated by the swap.
RemoveWatch_Swap(w, rw, fd) ==
  LET last == Last(w.list[rw])
  IN IF ~Watched(w, rw, fd) THEN w
     ELSE [list  |-> [w.list EXCEPT ![rw] = Front([@ EXCEPT ![w.index[rw][fd]] = last])],
           index |-> [w.index EXCEPT ![rw] = [@ EXCEPT ![fd] = 0]],
           func  |-> [w.func EXCEPT ![rw] = @ \ {fd}]]

\* The last descriptor takes the place of the one removed.
RemoveWatch(w, rw, fd) ==
  LET i == w.index[rw][fd]
      last == Last(w.list[rw])
  IN IF ~Watched(w, rw, fd) THEN w
     ELSE [list  |-> [w.list EXCEPT ![rw] = Front([@ EXCEPT ![i] = last])],
           index |-> [w.index EXCEPT ![rw] = [@ EXCEPT ![last] = i, ![fd] = 0]],
           func  |-> [w.func EXCEPT ![rw] = @ \ {fd}]]

Unwatch(w, fd) == RemoveWatch(RemoveWatch(w, "read", fd), "write", fd)
=============================================================================
