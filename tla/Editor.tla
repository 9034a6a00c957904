------------------------------- MODULE Editor -------------------------------
(***************************************************************************)
(* The line editor of the telnet shell (c/telnet/editor.c and the editing  *)
(* keys of actions.c): a text kept as rows of at most `windowwidth`        *)
(* symbols.  A row shorter than the window, other than the last, ends with *)
(* a line break; a full row continues on the next one.  A position is      *)
(* windowwidth * row + column.  What is sent to the terminal is left out.  *)
(***************************************************************************)
EXTENDS Integers, Sequences, SequencesExt, FiniteSetsExt

CONSTANTS Widths,    \* window widths the client announces (at least 5)
          Inputs,    \* what one key, one unknown sequence or one completion inserts
          Contents,  \* the history entries
          Prompts,   \* the prompts of the shell
          Stops,     \* stop characters of the word keys, Break among them
          Break,     \* a line break; \r\n in the buffers
          Corners,   \* the corner cases the run includes, a subset of
                     \* {"word keys", "type-ahead", "exact fit"}
          MaxText, MaxStops \* bounds on what the user types

ASSUME EditorConstants ==
  /\ Widths \subseteq Nat /\ \A w \in Widths : w >= 5
  /\ Break \in Stops

VARIABLES ed,           \* the Editor structure
          text, cursor, \* the text the rows hold and the cursor's offset in it,
                        \* both computed from ed (see View)
          handed,       \* the line the last key handed over, if any
          aborted       \* an assertion of the code failed

vars == <<ed, text, cursor, handed, aborted>>

Uninit == "?" \* a byte of a row nobody wrote

-----------------------------------------------------------------------------
(* Rows and positions *)

NbOfLines(e) == Len(e.lines)
Row(e, r) == e.lines[r + 1]
RowOf(e, pos) == pos \div e.windowwidth
ColOf(e, pos) == pos % e.windowwidth
BreakAtEnd(e, r) == Len(Row(e, r)) < e.windowwidth
SetRow(e, r, row) == [e EXCEPT !.lines[r + 1] = row]
SetCursor(e, pos) == [e EXCEPT !.cursorpos = pos]

LastCharPos(e) ==
  IF NbOfLines(e) = 0 THEN 0
  ELSE (NbOfLines(e) - 1) * e.windowwidth + Len(Row(e, NbOfLines(e) - 1))

\* e with its rows up to row r allocated
CheckLine(e, r) ==
  [e EXCEPT !.lines = @ \o [i \in 1 .. Max({0, r + 1 - Len(@)}) |-> <<>>]]

InsertBufLines(e, from, nb) ==
  [e EXCEPT !.lines = SubSeq(@, 1, from) \o [i \in 1 .. nb |-> <<>>]
                      \o SubSeq(@, from + 1, Len(@))]

DeleteBufLine(e, from) == [e EXCEPT !.lines = RemoveAt(@, from + 1)]

InsertBlankLines(e, nl, after) == InsertBufLines(e, RowOf(e, e.cursorpos) + after, nl)

\* The position nb symbols after row r, column c (which is at position to),
\* and what remains of nb at the end of the text.
RECURSIVE Forward(_, _, _, _, _)
Forward(e, r, c, to, nb) ==
  LET teol == Len(Row(e, r)) - c
  IN IF nb <= teol THEN <<to + nb, 0>>
     ELSE IF r + 1 >= NbOfLines(e) THEN <<to + teol, nb - teol>>
     ELSE Forward(e, r + 1, 0, to + teol + e.windowwidth - Len(Row(e, r)),
                  nb - teol - IF BreakAtEnd(e, r) THEN 1 ELSE 0)

\* The same, nb symbols before.
RECURSIVE Backward(_, _, _, _, _)
Backward(e, r, c, to, nb) ==
  IF nb <= c THEN <<to - nb, 0>>
  ELSE IF r = 0 THEN <<to - c, nb - c>>
  ELSE Backward(e, r - 1, Len(Row(e, r - 1)),
                to - c - Max({e.windowwidth - Len(Row(e, r - 1)), 1}), nb - c - 1)

PositionFromOffset(e, pos, nb) ==
  IF nb = 0 THEN <<pos, 0>>
  ELSE IF nb > 0 THEN Forward(e, RowOf(e, pos), ColOf(e, pos), pos, nb)
  ELSE LET b == Backward(e, RowOf(e, pos), ColOf(e, pos), pos, -nb) IN <<b[1], -b[2]>>

\* assert(l) in positionfromoffset: a forward move starts in an allocated row
AssertsRow(e, pos, nb) == nb <= 0 \/ RowOf(e, pos) < NbOfLines(e)

\* The number of symbols between two positions.
RECURSIVE OffsetFromPosition(_, _, _)
OffsetFromPosition(e, from, to) ==
  IF RowOf(e, to) = RowOf(e, from) THEN to - from
  ELSE LET r == RowOf(e, to) - 1
           f == CheckLine(e, r)
           len == Len(Row(f, r))
       IN ColOf(e, to) + (IF BreakAtEnd(f, r) THEN 1 ELSE 0)
          + OffsetFromPosition(e, from, r * e.windowwidth) + len

\* How far the word key in a direction goes; pol while still on stop characters.
RECURSIVE UntilChars(_, _, _, _, _)
UntilChars(e, pos, direction, offset, pol) ==
  LET r == RowOf(e, pos)
      f == CheckLine(e, r)
      c == IF ColOf(e, pos) >= Len(Row(f, r)) THEN Break ELSE Row(f, r)[ColOf(e, pos) + 1]
      inside == IF direction = 1 THEN pos < LastCharPos(e)
                ELSE pos > e.userstartpos /\ pos < LastCharPos(e) + 1
  IN IF ~inside \/ (~pol /\ c \in Stops) THEN <<pos, offset>>
     ELSE UntilChars(f, PositionFromOffset(f, pos, direction)[1], direction,
                     offset + direction, pol /\ c \in Stops)

OffsetUntilChars(e, pos, direction) ==
  LET back == direction = -1 /\ pos > e.userstartpos
      first == IF back THEN PositionFromOffset(e, pos, -1)[1] ELSE pos
      last(u) == IF direction = -1 /\ u[1] > e.userstartpos THEN u[2] + 1 ELSE u[2]
  IN last(UntilChars(e, first, direction, IF back THEN -1 ELSE 0, TRUE))

\* The position a move of nb symbols from pos ends at.
MoveTarget(e, pos, nb) == Max({PositionFromOffset(e, pos, nb)[1], e.userstartpos})

-----------------------------------------------------------------------------
(* Insertion *)

\* row with chars written from column c on
WriteInRow(row, c, chars) ==
  [i \in 1 .. Max({Len(row), c + Len(chars)}) |->
     IF i \in c + 1 .. c + Len(chars) THEN chars[i - c]
     ELSE IF i <= Len(row) THEN row[i] ELSE Uninit]

\* Mutant: the end of the row is not looked at.
WriteRows_NoWrap(e, r, c, chars) ==
  SetRow(CheckLine(e, r), r, WriteInRow(Row(CheckLine(e, r), r), c, chars))

RECURSIVE WriteRows(_, _, _, _)
WriteRows(e, r, c, chars) ==
  LET f == CheckLine(e, r)
      s == Min({Len(chars), e.windowwidth - c})
  IN IF chars = <<>> THEN f
     ELSE WriteRows(SetRow(f, r, WriteInRow(Row(f, r), c, SubSeq(chars, 1, s))),
                    r + (c + s) \div e.windowwidth, (c + s) % e.windowwidth,
                    SubSeq(chars, s + 1, Len(chars)))

WriteChars(e, chars) ==
  SetCursor(WriteRows(e, RowOf(e, e.cursorpos), ColOf(e, e.cursorpos), chars),
            e.cursorpos + Len(chars))

\* The cursor at the start of the next row, unless it is at the start of one
NextRow(e) ==
  LET col == ColOf(e, e.cursorpos)
  IN IF col = 0 THEN e ELSE SetCursor(e, e.cursorpos + e.windowwidth - col)

\* Insertion into one row: the editor, how many chars went in, and the chars
\* pushed out of the row, with the cursor then at the start of the next row.
\* A row that was not full and now is gets a row for its break.
InsertLineChars(e0, chars) ==
  LET r == RowOf(e0, e0.cursorpos)
      c == ColOf(e0, e0.cursorpos)
      e == CheckLine(e0, r)
      row == Row(e, r)
      teol == e.windowwidth - c
      n == Min({Len(chars), teol})
      out == Max({Len(row) + n - e.windowwidth, 0})
      shifted == IF n < teol /\ Len(row) > c
                 THEN SetRow(e, r, SubSeq(row, 1, c) \o SubSeq(chars, 1, n)
                                   \o SubSeq(row, c + 1, Len(row) - out))
                 ELSE e
      followed(p) == IF ~BreakAtEnd(p, r) /\ BreakAtEnd(e, r)
                     THEN InsertBlankLines(p, 1, IF ColOf(p, p.cursorpos) > 0 THEN 1 ELSE 0) ELSE p
      moved(w) == IF out > 0 THEN NextRow(w) ELSE w
  IN [ed |-> followed(moved(WriteChars(shifted, SubSeq(chars, 1, n)))),
      n |-> n, out |-> SubSeq(row, Len(row) - out + 1, Len(row))]

\* while(outlen) insertlinechars: what was pushed out of a row goes to the next
RECURSIVE PushOut(_)
PushOut(i) == IF i.out = <<>> THEN i.ed ELSE PushOut(InsertLineChars(i.ed, i.out))

\* Mutant: what the first row pushed out is forgotten.
InsertRest_NoOut(e, rest, out, saved0) == SetCursor(PushOut([ed |-> e, out |-> rest]), saved0)

\* Insertion in the middle of the text, when the first row does not take it all:
\* whole rows are inserted, then the rest is pushed through the following rows.
InsertRest(e, rest, out, saved0) ==
  LET w == e.windowwidth
      nl == (Len(rest) + Len(out)) \div w
      s == Min({Len(rest), nl * w})
      all == nl > 0 /\ s = Len(rest)
      s2 == IF all THEN Min({Len(out), nl * w - s}) ELSE 0
      pushed == SubSeq(rest, s + 1, Len(rest)) \o SubSeq(out, s2 + 1, Len(out))
      saved(b) == IF all \/ s < Len(rest) THEN b.cursorpos + Len(rest) - s ELSE saved0
      filled(b) == SetCursor(PushOut([ed |-> IF all THEN WriteChars(b, SubSeq(out, 1, s2)) ELSE b,
                                      out |-> pushed]), saved(b))
  IN filled(IF nl = 0 THEN e
            ELSE WriteChars(InsertBlankLines(e, nl, 0), SubSeq(rest, 1, s)))

InsertUnescapedChars(e, chars) ==
  LET rest(i) == SubSeq(chars, i.n + 1, Len(chars))
      go(i) == IF rest(i) = <<>> /\ i.out = <<>> THEN i.ed
               ELSE InsertRest(i.ed, rest(i), i.out, e.cursorpos + i.n)
  IN IF e.cursorpos = LastCharPos(e) \/ e.editmode = 1 THEN WriteChars(e, chars)
     ELSE go(InsertLineChars(e, chars))

InsertLineBreak(e) ==
  LET r == RowOf(e, e.cursorpos)
      c == ColOf(e, e.cursorpos)
      f == CheckLine(e, r)
      next == (r + 1) * e.windowwidth
      cut == SetCursor(SetRow(f, r, SubSeq(Row(f, r), 1, c)), next)
      new == IF BreakAtEnd(f, r) THEN InsertBlankLines(cut, 1, 0) ELSE cut
  IN IF e.cursorpos = LastCharPos(e) THEN SetCursor(CheckLine(e, r + 1), next)
     ELSE IF c = Len(Row(f, r)) THEN InsertBlankLines(SetCursor(f, next), 1, 0)
     ELSE SetCursor(PushOut([ed |-> new, out |-> SubSeq(Row(f, r), c + 1, Len(Row(f, r)))]), next)

\* A string goes in piece by piece, a line break between two pieces.
InsertChars(e, chars) ==
  LET breaks == SetToSortSeq({i \in 1 .. Len(chars) : chars[i] = Break}, <)
      from(k) == IF k = 0 THEN 1 ELSE breaks[k] + 1
      to(k) == IF k = Len(breaks) THEN Len(chars) ELSE breaks[k + 1] - 1
      insert(f, k) ==
        LET g == IF k = 0 THEN f ELSE InsertLineBreak(f)
        IN IF to(k) < from(k) THEN g ELSE InsertUnescapedChars(g, SubSeq(chars, from(k), to(k)))
  IN FoldLeft(insert, e, [i \in 1 .. Len(breaks) + 1 |-> i - 1])

-----------------------------------------------------------------------------
(* Deletion *)

\* The end of row r is gone; fill it with what follows the left symbols still
\* to delete, which is at position after.
Refill(e, r, left, after) ==
  LET l == Row(e, r)
      a == RowOf(e, after)
      acol == ColOf(e, after)
      la == Row(CheckLine(e, a), a)
      room == e.windowwidth - Len(l)
      tw == Min({room, Len(la) - acol})
      left2 == left + tw + IF room > Len(la) - acol THEN 1 ELSE 0
      w == WriteChars(SetCursor(CheckLine(e, a), r * e.windowwidth + Len(l)),
                      SubSeq(la, acol + 1, acol + tw))
  IN IF after > LastCharPos(e) THEN [ed |-> e, left |-> left]
     ELSE [ed |-> IF left2 > 0 THEN NextRow(w) ELSE w, left |-> left2]

\* One row's share of a deletion of nb symbols: the editor and what is left.
DeleteLineChars(e0, nb) ==
  LET r == RowOf(e0, e0.cursorpos)
      c == ColOf(e0, e0.cursorpos)
      e == CheckLine(e0, r)
      l == Row(e, r)
      teol == Len(l) - c
      brk == IF BreakAtEnd(e, r) THEN 1 ELSE 0
      left == Max({0, nb - teol - brk})
      cut == SetRow(e, r, SubSeq(l, 1, c) \o SubSeq(l, c + nb + 1, Len(l)))
      after == PositionFromOffset(cut, r * e.windowwidth + Len(Row(cut, r)), left + 1)[1]
  IN IF nb >= teol + brk /\ c = 0 THEN [ed |-> DeleteBufLine(e, r), left |-> left]
     ELSE IF nb <= teol /\ brk = 1 THEN [ed |-> cut, left |-> left]
     ELSE Refill(cut, r, left, after)

RECURSIVE DeleteAll(_)
DeleteAll(d) == IF d.left = 0 THEN d.ed ELSE DeleteAll(DeleteLineChars(d.ed, d.left))

\* Mutant: the cursor goes to the end of the row above as it was.
BackspaceAtEnd_Stale(e, r, c) ==
  LET prev == Row(e, r - 1)
  IN IF c > 0 THEN SetCursor(SetRow(e, r, SubSeq(Row(e, r), 1, Len(Row(e, r)) - 1)),
                             e.cursorpos - 1)
     ELSE SetCursor(DeleteBufLine(SetRow(e, r - 1, Front(prev)), r), e.cursorpos - 1)

\* Backspace at the end of a row or, at column 0, over a row boundary
BackspaceAtEnd(e, r, c) ==
  LET prev == Row(e, r - 1)
      cut == IF BreakAtEnd(e, r - 1) THEN prev ELSE SubSeq(prev, 1, Len(prev) - 1)
  IN IF c > 0 THEN SetCursor(SetRow(e, r, SubSeq(Row(e, r), 1, Len(Row(e, r)) - 1)),
                             e.cursorpos - 1)
     ELSE SetCursor(DeleteBufLine(SetRow(e, r - 1, cut), r),
                    e.cursorpos - (e.windowwidth - Len(cut)))

\* nb < 0: before the cursor; the deletion stays in the user's part
DeleteChars(e0, nb) ==
  LET r == RowOf(e0, e0.cursorpos)
      c == ColOf(e0, e0.cursorpos)
      e == CheckLine(e0, r)
      clipped(f) == IF f[1] < e.userstartpos
                    THEN f[2] - OffsetFromPosition(e, f[1], e.userstartpos) ELSE f[2]
      delete(n, pos) ==
        IF pos = e.cursorpos THEN e
        ELSE IF n = -1 /\ c = Len(Row(e, r)) THEN BackspaceAtEnd(e, r, c)
        ELSE LET from == IF n < 0 THEN MoveTarget(e, e.cursorpos, n) ELSE e.cursorpos
             IN SetCursor(DeleteAll([ed |-> SetCursor(e, from), left |-> IF n < 0 THEN -n ELSE n]), from)
      reach(f) == delete(nb - clipped(f), Max({f[1], e.userstartpos}))
  IN IF nb = 0 THEN e0 ELSE reach(PositionFromOffset(e, e.cursorpos, nb))

-----------------------------------------------------------------------------
(* The whole edit area *)

\* History entry: overwrite the user's part, trim what remains.
SetEditContent(e, chars) ==
  LET start == [SetCursor(e, MoveTarget(e, e.userstartpos, 0)) EXCEPT !.editmode = 1]
      r(w) == RowOf(w, w.cursorpos)
      trim(w) == IF w.cursorpos >= LastCharPos(w) THEN w
                 ELSE [w EXCEPT !.lines = Append(SubSeq(@, 1, r(w)),
                                    SubSeq(Row(w, r(w)), 1, ColOf(w, w.cursorpos)))]
  IN [trim(InsertChars(start, chars)) EXCEPT !.editmode = e.editmode]

\* The symbols from a position to the end of the text.
TextFrom(e, from) ==
  LET r0 == RowOf(e, from)
      part(r) == LET row == Row(e, r)
                 IN SubSeq(row, IF r = r0 THEN Min({ColOf(e, from), Len(row)}) + 1 ELSE 1, Len(row))
                    \o IF BreakAtEnd(e, r) /\ r < NbOfLines(e) - 1 THEN <<Break>> ELSE <<>>
  IN FlattenSeq([i \in 1 .. NbOfLines(e) - r0 |-> part(r0 + i - 1)])

ClearEditingArea(e) == [e EXCEPT !.lines = <<<<>>>>, !.cursorpos = 0, !.userstartpos = 0]

WritePrompt(e, chars) ==
  LET s == Min({e.userstartpos, Len(chars)})
      rest(w) == IF Len(chars) > s THEN InsertUnescapedChars(w, SubSeq(chars, s + 1, Len(chars)))
                 ELSE IF e.userstartpos > s THEN DeleteLineChars(w, e.userstartpos - s).ed
                 ELSE w
      after(p) == [p EXCEPT !.userstartpos = p.cursorpos,
                            !.cursorpos = e.cursorpos + p.cursorpos - e.userstartpos]
  IN after(rest(WriteChars(SetCursor(e, 0), SubSeq(chars, 1, s))))

\* chars cut in rows; no row is empty unless it is the only one
Split(chars, w) ==
  [i \in 1 .. Max({1, (Len(chars) + w - 1) \div w}) |->
     SubSeq(chars, (i - 1) * w + 1, Min({i * w, Len(chars)}))]

\* Copy one old row at the end of the new rows; then a new row after a break.
CopyRow(e, row, breakatend) ==
  [e EXCEPT !.lines = Front(@) \o Split(Last(@) \o row, e.windowwidth)
                      \o IF breakatend THEN <<<<>>>> ELSE <<>>]

SetDisplaySize(e, width) ==
  LET offset == OffsetFromPosition(e, 0, e.cursorpos)
      new == [e EXCEPT !.lines = <<<<>>>>, !.windowwidth = width]
      f == FoldLeftDomain(LAMBDA g, i : CopyRow(g, e.lines[i],
                 Len(e.lines[i]) < e.windowwidth /\ i < NbOfLines(e)), new, e.lines)
  IN SetCursor(f, PositionFromOffset(f, 0, offset)[1])

-----------------------------------------------------------------------------
(* The keys, and what the shell and the client ask for *)

NbOfStops(s) == Len(SelectSeq(s, LAMBDA c : c \in Stops))

\* Bounds on what the user types: MaxText symbols, MaxStops stop characters.
Room(s) ==
  LET t == SubSeq(text, ed.userstartpos + 1, Len(text))
  IN Len(t) + Len(s) <= MaxText /\ NbOfStops(t) + NbOfStops(s) <= MaxStops

View(e) == text' = TextFrom(e, 0) /\ cursor' = OffsetFromPosition(e, 0, e.cursorpos)

Edit(e) == ~aborted /\ ed' = e /\ View(e) /\ handed' = <<>> /\ UNCHANGED aborted

Init ==
  /\ \E w \in Widths :
       ed = [lines |-> <<<<>>>>, cursorpos |-> 0, userstartpos |-> 0,
             windowwidth |-> w, editmode |-> 0]
  /\ text = <<>> /\ cursor = 0
  /\ handed = <<>> /\ aborted = FALSE

InsertKey(s) == Room(s) /\ Edit(InsertChars(ed, s))

OverwriteInsertToggle == Edit([ed EXCEPT !.editmode = 1 - @])

MoveCursor(pos, nb) ==
  IF AssertsRow(ed, pos, nb) THEN Edit(SetCursor(ed, MoveTarget(ed, pos, nb)))
  ELSE ~aborted /\ aborted' = TRUE /\ UNCHANGED <<ed, text, cursor, handed>>

MoveKey(nb) == MoveCursor(ed.cursorpos, nb)
MoveToStartPos == MoveCursor(ed.userstartpos, 0)
MoveToEndPos == MoveCursor(LastCharPos(ed), 0)
\* Corner "word keys": a word key that deletes over a row boundary, or goes
\* back over one.
WordKey(nb) ==
  LET r == RowOf(ed, ed.cursorpos)
  IN "word keys" \notin Corners =>
       ColOf(ed, ed.cursorpos) + nb \in 0 .. Len(Row(CheckLine(ed, r), r))

MoveWord(direction) ==
  LET nb == OffsetUntilChars(ed, ed.cursorpos, direction)
  IN (direction = 1 \/ WordKey(nb)) /\ MoveCursor(ed.cursorpos, nb)

DeleteKey(nb) == Edit(DeleteChars(ed, nb))
DeleteWord(direction) ==
  LET nb == OffsetUntilChars(ed, ed.cursorpos, direction)
  IN WordKey(nb) /\ Edit(DeleteChars(ed, nb))

\* Enter, Ctrl-C and Ctrl-Z: the line is handed over and the area cleared.
EditDone ==
  /\ ~aborted
  /\ handed' = TextFrom(ed, ed.userstartpos)
  /\ ed' = ClearEditingArea(ed) /\ View(ed')
  /\ UNCHANGED aborted

HistoryEntry(s) == Edit(SetEditContent(ed, s))

\* Corner "type-ahead": what was typed before the prompt holds a stop
\* character, or the editor is in overwrite mode.
ShowPrompt(s) ==
  /\ \/ "type-ahead" \in Corners
     \/ ed.userstartpos = Len(s)
     \/ NbOfStops(text) = 0 /\ (ed.editmode = 0 \/ text = <<>>)
  /\ Edit(WritePrompt(ed, s))

\* Corner "exact fit": the last row fills the new window, and no row follows it.
Resize(w) ==
  LET e == SetDisplaySize(ed, w)
  IN /\ w # ed.windowwidth
     /\ "exact fit" \in Corners \/ BreakAtEnd(e, NbOfLines(e) - 1)
     /\ Edit(e)

Next ==
  \/ \E s \in Inputs : InsertKey(s)
  \/ OverwriteInsertToggle
  \/ \E nb \in {-1, 1} : MoveKey(nb) \/ DeleteKey(nb)
  \/ MoveToStartPos \/ MoveToEndPos
  \/ \E d \in {-1, 1} : MoveWord(d) \/ DeleteWord(d)
  \/ EditDone
  \/ \E s \in Contents : HistoryEntry(s)
  \/ \E s \in Prompts : ShowPrompt(s)
  \/ \E w \in Widths : Resize(w)

Spec == Init /\ [][Next]_vars

-----------------------------------------------------------------------------
(* Properties *)

\* Rows never exceed the window and hold nothing the code did not write.
TypeOK ==
  /\ \A r \in 1 .. Len(ed.lines) :
       Len(ed.lines[r]) <= ed.windowwidth /\ \A i \in 1 .. Len(ed.lines[r]) : ed.lines[r][i] # Uninit
  /\ ed.cursorpos \in Nat /\ ed.userstartpos \in Nat
  /\ ed.windowwidth \in Widths /\ ed.editmode \in {0, 1}

\* The cursor is on a symbol of the text, after the last symbol of a row, or
\* after a last row that fills the window, and never in the prompt.
CursorInText ==
  /\ \/ /\ RowOf(ed, ed.cursorpos) < NbOfLines(ed)
        /\ ColOf(ed, ed.cursorpos) <= Len(Row(ed, RowOf(ed, ed.cursorpos)))
     \/ ed.cursorpos = LastCharPos(ed)
  /\ ed.cursorpos >= ed.userstartpos

\* assert(l) of positionfromoffset (editor.c:189): moving the cursor never
\* starts in a row that does not exist.
NeverAborts == ~aborted

ET == INSTANCE EditText WITH start <- ed.userstartpos, line <- handed

\* The rows, whatever the window width and however lines wrap, behave as the
\* text and cursor of EditText: nothing typed is lost, doubled or moved by
\* insertion, overwriting, deletion, history, prompts and changes of width, and
\* the line handed over is the text without its prompt.
EditsText == ET!Spec
=============================================================================
