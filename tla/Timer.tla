------------------------------- MODULE Timer -------------------------------
(***************************************************************************)
(* The list of timers (sched/timer.lua).  events = [dates, at]: the sorted *)
(* list of due dates, and the set of timers due at each date.              *)
(***************************************************************************)
EXTENDS Integers, Sequences, SequencesExt, FiniteSetsExt, Functions

NoDate == -1

NoEvents == [dates |-> <<>>, at |-> <<>>]

EntriesAt(e, d) == IF d \in DOMAIN e.at THEN e.at[d] ELSE {}

\* A date which has no entry is inserted before the first later one, even when
\* removetimer left it in the list.
AddEvent(e, timer, d) ==
  LET later == {i \in DOMAIN e.dates : e.dates[i] > d}
  IN [dates |-> IF d \in DOMAIN e.at THEN e.dates
                ELSE InsertAt(e.dates, Min(later \cup {Len(e.dates) + 1}), d),
      at |-> [x \in DOMAIN e.at \cup {d} |->
                IF x = d THEN EntriesAt(e, d) \cup {timer} ELSE e.at[x]]]

AddTimer(e, timer, d) == IF d = NoDate THEN e ELSE AddEvent(e, timer, d)

Registered(e, timer, d) == timer \in EntriesAt(e, d)

\* Timers are removed, each from the date it has; the date stays in the list.
RemoveTimers(e, gone) ==
  LET left(d) == {timer \in e.at[d] : <<timer, d>> \notin gone}
  IN [dates |-> e.dates, at |-> [d \in {x \in DOMAIN e.at : left(x) # {}} |-> left(d)]]

NextEvent(e) == IF e.dates = <<>> THEN NoDate ELSE Head(e.dates)

\* step() takes the first date and its entries out of the list.
TakeDate(e) ==
  [dates |-> Tail(e.dates), at |-> Restrict(e.at, DOMAIN e.at \ {Head(e.dates)})]
=============================================================================
