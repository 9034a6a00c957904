------------------------------ MODULE History ------------------------------
(***************************************************************************)
(* The history of the shell (c/telnet/history.c): a ring of lines.  `widx` *)
(* is where the next line goes, `idx` how far the user has gone back, and  *)
(* `saved` the line he was typing when he started to.                      *)
(***************************************************************************)
EXTENDS Naturals, Sequences

NoEntry == <<>> \* a null pointer in the list; no line of the history is empty

NewHistory == [list |-> <<>>, size |-> 0, widx |-> 0, idx |-> 0, saved |-> <<>>]

\* The most recent line first: entry 1 is the last one added.
GetEntry(h, pos) ==
  IF pos \in 1 .. h.size THEN h.list[(h.widx + h.size - pos) % h.size] ELSE NoEntry

\* Mutant: the ring forgets to move on at its last place.
AddHistory_Stuck(h, l) ==
  IF h.size = 0 \/ GetEntry(h, 1) = l THEN h
  ELSE [h EXCEPT !.list[h.widx] = l, !.widx = IF @ + 1 = h.size THEN @ ELSE @ + 1]

AddHistory(h, l) ==
  IF h.size = 0 \/ GetEntry(h, 1) = l THEN h
  ELSE [h EXCEPT !.list[h.widx] = l, !.widx = (@ + 1) % h.size]

SetHistorySize(h, size) ==
  LET kept == IF size < h.size THEN size ELSE h.size
  IN IF size = 0 THEN h
     ELSE [h EXCEPT !.size = size, !.idx = 0, !.widx = 0,
             !.list = [i \in 0 .. size - 1 |->
                         IF i < kept THEN h.list[(h.widx + h.size + i + 1 - kept) % h.size]
                         ELSE NoEntry]]

\* Mutant: the saved line is kept.
ResetContext_Keeps(h) == [h EXCEPT !.idx = 0]

\* The user is no longer browsing.
ResetContext(h) == [h EXCEPT !.idx = 0, !.saved = <<>>]
=============================================================================
