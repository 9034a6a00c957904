-------------------------------- MODULE Teel --------------------------------
(***************************************************************************)
(* The edit mode of the telnet shell (c/telnet/teel.c, the key functions   *)
(* of actions.c): the bytes that come from the client are matched with the *)
(* sequences of the keys, and each key acts on the text, on the history or *)
(* hands a line over.  The text is the one EditText promises, with the     *)
(* prompt left out; what is displayed is left out.                         *)
(***************************************************************************)
EXTENDS History, Integers, SequencesExt, FiniteSetsExt, TLC

CONSTANTS Stops, \* the stop characters of the word keys
          Names  \* the names known to the completion, sorted

ASSUME TeelConstants ==
  /\ Names \in Seq(Seq(0 .. 255)) /\ \A i \in 1 .. Len(Names) : Len(Names[i]) > 0
  /\ \A i, k \in 1 .. Len(Names) : \A j \in i .. k : \A n \in 1 .. Len(Names[i]) :
       LET start == SubSeq(Names[i], 1, n)
       IN IsPrefix(start, Names[k]) => IsPrefix(start, Names[j])

ESC == 27
Break == 10    \* a line break in the text; \r\n in the code
Question == 63 \* what replaces a byte that is not ASCII
Paren == 40

Edit == INSTANCE EditText WITH Inputs <- {}, Contents <- {}, Prompts <- {},
                               text <- <<>>, cursor <- 0, start <- 0, line <- <<>>

NewTeel(size) ==
  [text |-> <<>>, cursor |-> 0, overwrite |-> FALSE,
   hist |-> SetHistorySize(NewHistory, size),
   state |-> "CHARACTER_INPUT",
   choices |-> FALSE,                  \* autocompletestate
   previous |-> <<>>,                  \* previousline: the line handed over, if any
   pos |-> 0, cur |-> 0, temp |-> <<>>] \* seqsearch: cur counts down from the last
                                       \* sequence, 0 is nbofseq - 1

-----------------------------------------------------------------------------
(* The edit area *)

Insert(ti, s) ==
  [ti EXCEPT !.text = Edit!Take(@, ti.cursor) \o s
                      \o Edit!Drop(@, Min({Len(@), ti.cursor + IF ti.overwrite THEN Len(s) ELSE 0})),
             !.cursor = @ + Len(s)]
Goto(ti, c) == [ti EXCEPT !.cursor = c]
Cut(ti, from, to) ==
  [ti EXCEPT !.text = Edit!Take(@, from) \o Edit!Drop(@, to), !.cursor = from]
SetContent(ti, s) == [ti EXCEPT !.text = s, !.cursor = Len(s)]
SaveAndClear(ti) ==
  [ti EXCEPT !.previous = <<ti.text>>, !.text = <<>>, !.cursor = 0, !.state = "EDITLINE_DONE"]

Before(ti) == Max({0, ti.cursor - 1})
After(ti) == Min({Len(ti.text), ti.cursor + 1})
PrevWord(ti) == Edit!WordStart(ti.text, ti.cursor, 0)
NextWord(ti) == Edit!WordEnd(ti.text, ti.cursor)

-----------------------------------------------------------------------------
(* History and completion *)

HistoryPrev(ti) ==
  LET pos == ti.hist.idx + 1
      e == GetEntry(ti.hist, pos)
      own == <<[text |-> ti.text, cursor |-> ti.cursor]>>
  IN IF e = NoEntry THEN ti
     ELSE SetContent([ti EXCEPT !.hist.idx = pos,
                                !.hist.saved = IF pos = 1 THEN own ELSE @], e)

HistoryNext(ti) ==
  LET pos == ti.hist.idx - 1
      own == ti.hist.saved[1]
  IN IF pos < 0 THEN ti
     ELSE IF pos > 0 THEN SetContent([ti EXCEPT !.hist.idx = pos], GetEntry(ti.hist, pos))
     ELSE Goto(SetContent([ti EXCEPT !.hist = ResetContext(@)], own.text), own.cursor)

\* What the Lua side proposes for the text before the cursor: the names that
\* start with its last word, which follow one another; "(" completes a whole name.
Proposals(before) ==
  LET w == Max({k \in 0 .. Len(before) : k = 0 \/ before[k] \in Stops})
      word == Edit!Drop(before, w)
      hits == {i \in 1 .. Len(Names) : IsPrefix(word, Names[i])}
      found == IF hits = {} THEN <<>> ELSE SubSeq(Names, Min(hits), Max(hits))
  IN IF found # <<>> /\ found[1] = word THEN [found EXCEPT ![1] = Append(@, Paren)] ELSE found

\* Insert the part of a proposal that is not typed yet.
CompleteLine(ti, name) ==
  LET before == Edit!Take(ti.text, ti.cursor)
      typed == Max({k \in 0 .. Len(name) : IsSuffix(Edit!Take(name, k), before)})
  IN Insert(ti, Edit!Drop(name, typed))

CommonPart(names) ==
  Edit!Take(names[1], Max({k \in 0 .. Len(names[1]) :
                        \A i \in 1 .. Len(names) : IsPrefix(Edit!Take(names[1], k), names[i])}))

AutoComplete(ti) ==
  LET tab == Proposals(Edit!Take(ti.text, ti.cursor))
  IN IF tab = <<>> THEN ti
     ELSE IF Len(tab) = 1 \/ ti.choices THEN CompleteLine(ti, tab[1])
     ELSE [CompleteLine(ti, CommonPart(tab)) EXCEPT !.state = "COMPLETION_DISP", !.choices = TRUE]

-----------------------------------------------------------------------------
(* The keys *)

\* defaultksa: the bytes of each key and the function it calls.
defaultksa ==
  << <<<<8>>, "backspace">>, <<<<127>>, "backspace">>, <<<<ESC, 91, 51, 126>>, "delete">>,
     <<<<ESC, 127>>, "deleteprevword">>, <<<<ESC, 91, 51, 59, 51, 126>>, "deletenextword">>,
     <<<<ESC, ESC, 91, 51, 126>>, "deletenextword">>,
     <<<<10>>, "line">>, <<<<13, 10>>, "line">>, <<<<13, 0>>, "line">>,
     <<<<ESC, 10>>, "linebreak">>, <<<<ESC, 13, 0>>, "linebreak">>,
     <<<<3>>, "interrupt">>, <<<<26>>, "suspend">>, <<<<4>>, "close">>,
     <<<<ESC, 91, 65>>, "historyprev">>, <<<<ESC, 91, 66>>, "historynext">>,
     <<<<9>>, "autocomplete">>, <<<<ESC, 91, 50, 126>>, "overwrite">>,
     <<<<ESC, 91, 49, 59, 51, 68>>, "prevword">>, <<<<ESC, ESC, 91, 68>>, "prevword">>,
     <<<<ESC, 91, 49, 59, 51, 67>>, "nextword">>, <<<<ESC, ESC, 91, 67>>, "nextword">>,
     <<<<ESC, 91, 67>>, "right">>, <<<<ESC, 91, 68>>, "left">>,
     <<<<ESC, 91, 49, 126>>, "start">>, <<<<ESC, 91, 72>>, "start">>, <<<<ESC, 79, 72>>, "start">>,
     <<<<1>>, "start">>, <<<<ESC, 91, 52, 126>>, "end">>, <<<<ESC, 91, 70>>, "end">>,
     <<<<ESC, 79, 70>>, "end">>, <<<<5>>, "end">>, <<<<ESC, 91, 50, 52, 126>>, "debug">> >>

compareksa(a, b) ==
  LET differ == {i \in 1 .. Min({Len(a[1]), Len(b[1])}) : a[1][i] # b[1][i]}
  IN IF differ = {} THEN Len(a[1]) < Len(b[1]) ELSE a[1][Min(differ)] < b[1][Min(differ)]

map == SortSeq(defaultksa, compareksa)

\* What a key does to the text, and the state it leaves.
Act(ti, key) ==
  CASE key = "backspace" -> Cut(ti, Before(ti), ti.cursor)
    [] key = "delete" -> Cut(ti, ti.cursor, After(ti))
    [] key = "deleteprevword" -> Cut(ti, PrevWord(ti), ti.cursor)
    [] key = "deletenextword" -> Cut(ti, ti.cursor, NextWord(ti))
    [] key = "linebreak" ->
         [Insert([ti EXCEPT !.overwrite = FALSE], <<Break>>) EXCEPT !.overwrite = ti.overwrite]
    [] key = "left" -> Goto(ti, Before(ti))
    [] key = "right" -> Goto(ti, After(ti))
    [] key = "prevword" -> Goto(ti, PrevWord(ti))
    [] key = "nextword" -> Goto(ti, NextWord(ti))
    [] key = "start" -> Goto(ti, 0)
    [] key = "end" -> Goto(ti, Len(ti.text))
    [] key = "overwrite" -> [ti EXCEPT !.overwrite = ~@]
    [] key = "historyprev" -> [HistoryPrev(ti) EXCEPT !.state = "HISTORY_BROWSE"]
    [] key = "historynext" -> [HistoryNext(ti) EXCEPT !.state = "HISTORY_BROWSE"]
    [] key = "autocomplete" -> AutoComplete(ti)
    [] key \in {"line", "interrupt", "suspend"} -> SaveAndClear(ti)
    [] OTHER -> ti

\* What the key hands to the shell.
Command(ti, key) ==
  IF key \in {"line", "interrupt", "suspend"} \/ (key = "close" /\ ti.text = <<>>)
  THEN key ELSE "nop"

StateChanged(ti, last) ==
  IF ti.state = last THEN ti
  ELSE CASE last = "EDITLINE_DONE" -> [ti EXCEPT !.previous = <<>>]
         [] last = "HISTORY_BROWSE" -> [ti EXCEPT !.hist = ResetContext(@)]
         [] last = "COMPLETION_DISP" -> [ti EXCEPT !.choices = FALSE]
         [] OTHER -> ti

Typed(ti, s) == StateChanged([Insert(ti, s) EXCEPT !.state = "CHARACTER_INPUT"], ti.state)
Key(ti, key) == StateChanged(Act([ti EXCEPT !.state = "CHARACTER_INPUT"], key), ti.state)

\* The search goes down the sorted sequences and compares only the byte at the
\* current place; one past the end of a sequence it reads the final NUL.
Match(first, pos, byte) ==
  LET place(seq) == IF pos < Len(seq) THEN seq[pos + 1] ELSE 0
      goon(seq) == pos > Len(seq) \/ byte < place(seq)
      found(seq) == IF byte > place(seq) THEN "no"
                    ELSE IF pos = Len(seq) - 1 THEN "key" ELSE "part"
      stop(cur) == [found |-> IF cur = Len(map) THEN "no" ELSE found(map[Len(map) - cur][1]),
                    cur |-> cur]
  IN stop(Min({Len(map)} \cup {k \in first .. Len(map) - 1 : ~goon(map[Len(map) - k][1])}))

\* One byte in teel_run: the new state and the command, "nop" if it goes on.
TeelByte(ti, raw) ==
  LET byte == IF raw > 127 THEN Question ELSE raw
      temp == Append(ti.temp, byte)
      ready == [ti EXCEPT !.pos = 0, !.cur = 0, !.temp = <<>>]
      call(key) == [ti |-> Key(ready, key), cmd |-> Command(ti, key)]
      after(m) ==
        CASE m.found = "no" -> [ti |-> Typed(ready, temp), cmd |-> "nop"]
          [] m.found = "part" -> [ti |-> [ti EXCEPT !.pos = @ + 1, !.cur = m.cur, !.temp = temp],
                                  cmd |-> "nop"]
          [] OTHER -> call(map[Len(map) - m.cur][2])
  IN after(Match(ti.cur, ti.pos, byte))

\* teel_addhistory: a line that ran; the position in the history is forgotten.
TeelAddHistory(ti, l) ==
  [ti EXCEPT !.hist = IF l = <<>> THEN [@ EXCEPT !.idx = 0] ELSE AddHistory([@ EXCEPT !.idx = 0], l)]
=============================================================================
