---------------------------- MODULE PosixSignal ----------------------------
(***************************************************************************)
(* POSIX signals and select (c/lposixsignal.c): the ring that the signal   *)
(* handler fills and step() empties, and what select waits for and returns *)
(***************************************************************************)
EXTENDS Integers, Sequences, FiniteSetsExt, SequencesExt

CONSTANTS MAX_SIGNALS,
          Signals \* the signals processes send, the lowest delivered first

ASSUME SignalConstants == MAX_SIGNALS \in Nat \ {0} /\ Signals \subseteq Nat \ {0}

EmptyBuffer == [lastI |-> -1, nSig |-> 0, sigs |-> [i \in 0 .. MAX_SIGNALS - 1 |-> 0]]

\* The handler: the oldest signal is overwritten when the ring is full.
SignalHandler(b, sig) ==
  LET i == (b.lastI + 1) % MAX_SIGNALS
  IN [lastI |-> i,
      nSig |-> IF b.nSig + 1 >= MAX_SIGNALS THEN MAX_SIGNALS ELSE b.nSig + 1,
      sigs |-> [b.sigs EXCEPT ![i] = sig]]

\* Mutant: the index of the oldest signal is one too low.
FirstPending_Low(b) ==
  LET i == b.lastI - b.nSig IN IF i < 0 THEN MAX_SIGNALS + i ELSE i

\* The index of the oldest signal in the ring.
FirstPending(b) ==
  LET i == b.lastI - b.nSig + 1 IN IF i < 0 THEN MAX_SIGNALS + i ELSE i

\* What a delivery takes out of the ring.
Deliver(b) == [b EXCEPT !.nSig = @ - 1]

-----------------------------------------------------------------------------
(* select.  A socket without a descriptor (closed) is in no set. *)

\* The sockets whose buffer holds data, and the descriptors left to wait for.
CheckDirty(list, open, dirty) ==
  [ready |-> SelectSeq(list, LAMBDA fd : fd \in open \cap dirty),
   rest |-> (ToSet(list) \cap open) \ dirty]

\* A dirty socket leaves nothing to wait for; NoTimeout is an unbounded wait.
NoTimeout == -1
EffectiveTimeout(ndirty, timeout) == IF ndirty > 0 THEN 0 ELSE timeout

\* What is returned.  rset and wset are the sets pselect leaves: those it was
\* given when it fails or is not called, and then they count only if a socket is
\* dirty.
ReturnFd(ret, dirtyready, rset, wset) ==
  IF ret > 0 \/ dirtyready # <<>>
  THEN [read |-> dirtyready \o SetToSortSeq(rset, <), write |-> SetToSortSeq(wset, <),
        timeout |-> FALSE]
  ELSE [read |-> <<>>, write |-> <<>>, timeout |-> ret = 0]
=============================================================================
