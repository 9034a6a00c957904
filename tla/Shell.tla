------------------------------- MODULE Shell -------------------------------
(***************************************************************************)
(* The shell on top of the telnet interpreter (shell/telnet.lua): its read *)
(* loop feeds the interpreter, its action loop treats the events one by    *)
(* one: lines run as tasks, one in the foreground at a time, and those     *)
(* which come meanwhile wait in `linebuf`.                                 *)
(***************************************************************************)
EXTENDS Telnet

CONSTANT MaxJobs \* bound on the background tasks

VARIABLES lines,      \* the lines of a chunk that is not complete yet
          linebuf,    \* the lines that wait for the end of the foreground task
          foreground, \* is there a foreground task
          jobs,       \* how many tasks run in the background
          over,       \* the lines that ran, did not compile or were dropped
          sending,    \* the interpret() whose send waits, if any, in a sequence of
                      \* [by, again, taken]: its loop, whether input is left, and the
                      \* command it took and has not signalled
          open        \* the connection

shellVars == <<lines, linebuf, foreground, jobs, over, sending, open>>
vars == <<telnetVars, shellVars>>

Ids(s) == [i \in 1 .. Len(s) |-> s[i].id]
LineIds(s) == [i \in 1 .. Len(s) |-> IF s[i].ev = "line" THEN s[i].id ELSE 0]
Texts(s) == FlattenSeq([i \in 1 .. Len(s) |-> s[i].text])
AddHistory_(s, l) == IF mode = "edit" THEN [s EXCEPT !.ti = TeelAddHistory(@, l)] ELSE s

Done == [ev |-> "done", text |-> <<>>, id |-> 0]
Popped == [Now EXCEPT !.events = Tail(@)]

Taken == FlattenSeq([i \in 1 .. Len(sending) |-> sending[i].taken])
Idle(by) == \A i \in 1 .. Len(sending) : sending[i].by # by

\* What the loop may have to send when the interpreter reaches s: the screen of the
\* editor, the answers to options, what the action loop shows.
HasOutput(by, s) == mode = "edit" \/ s.replies # <<>> \/ by = "actions"

\* A send waits, after the turn of the interpreter from one place to the next, with
\* the command of its call; or another one waits already, the send fails, and the
\* shell ends.
SendWaits(by, from, to, others) ==
  /\ use.waits /\ ~from.done /\ (to.done \/ to.s.events # from.s.events)
  /\ HasOutput(by, to.s)
  /\ Becomes([to.s EXCEPT !.events = from.s.events])
  /\ sending' = <<[by |-> by, again |-> ~to.done,
                   taken |-> Edit!Drop(to.s.events, Len(from.s.events))]>> \o others
  /\ open' = (others = <<>>)

\* interpret(): the output of each call of the interpreter is sent, then its command
\* signalled, until no input is left.  The sends are done at once, or one waits.
InTurns(by, turn, last, others) ==
  \/ Becomes(turn[last].s) /\ sending' = others /\ UNCHANGED open
  \/ \E n \in 1 .. last : SendWaits(by, turn[n - 1], turn[n], others)

interpret(by, s, input, others) ==
  InTurns(by, Turns(Fed(s, input)), Len(Fed(s, input).in.rest) + 1, others)

\* Corner "flush while cut": the interpreter is called without input while it holds
\* the start of a command.
MayFlush ==
  "flush while cut" \notin Corners /\ in.owned /\ in.rest # <<>>
    => Lex(in.rest).kind # "cut" /\ in.rest # <<13>>

\* After each event the interpreter is called without input, to flush its output.
Flush(s) == interpret("actions", s, <<>>, sending) /\ UNCHANGED <<use, mode, wire, got, sent>>

Init ==
  /\ TelnetInit
  /\ lines = <<>> /\ linebuf = <<>> /\ foreground = FALSE /\ jobs = 0
  /\ over = <<>> /\ sending = <<>> /\ open = TRUE

Send(t) == open /\ ClientSends(t) /\ UNCHANGED shellVars
ReadLoop(n) ==
  /\ open /\ Idle("read") /\ Receive(n)
  /\ interpret("read", Now, Chunk(n), sending)
  /\ UNCHANGED <<lines, linebuf, foreground, jobs, over>>

\* The send that waits is done: the command is signalled, and the input left read.
SendDone ==
  /\ open /\ sending # <<>>
  /\ LET s == [Now EXCEPT !.events = @ \o Taken]
     IN IF sending[1].again THEN MayFlush /\ interpret(sending[1].by, s, <<>>, <<>>)
        ELSE Becomes(s) /\ sending' = <<>> /\ UNCHANGED open
  /\ UNCHANGED <<use, mode, wire, got, sent, lines, linebuf, foreground, jobs, over>>

\* A line while a task has the foreground.
LineWaits(e) ==
  /\ e.ev = "line" /\ foreground
  /\ linebuf' = Append(linebuf, e)
  /\ Flush(Popped)
  /\ UNCHANGED <<lines, foreground, jobs, over>>

\* try_to_compile_and_run: the chunk is not complete, wrong, or becomes a task.
\* Corner "history while browsing": the history grows while the user browses it.
LineRuns(e, outcome) ==
  /\ e.ev = "line" /\ ~foreground
  /\ LET chunk == Append(lines, e)
     IN IF outcome = "incomplete" THEN lines' = chunk /\ Flush(Popped) /\ UNCHANGED over
        ELSE /\ "history while browsing" \in Corners \/ ti.hist.saved = <<>>
             /\ lines' = <<>> /\ over' = over \o Ids(chunk)
             /\ Flush(AddHistory_(Popped, Texts(chunk)))
  /\ outcome = "background" => jobs < MaxJobs
  /\ foreground' = (outcome = "runs")
  /\ jobs' = IF outcome = "background" THEN jobs + 1 ELSE jobs
  /\ UNCHANGED linebuf

\* Mutant: the lines that are sent again stay in the buffer.
TaskDone_Twice(e) ==
  /\ e.ev = "done"
  /\ Flush([Popped EXCEPT !.events = @ \o linebuf])
  /\ UNCHANGED <<lines, linebuf, foreground, jobs, over>>

\* The end of a task: the lines that wait are sent again.
TaskDone(e) ==
  /\ e.ev = "done"
  /\ linebuf' = <<>>
  /\ Flush([Popped EXCEPT !.events = @ \o linebuf])
  /\ UNCHANGED <<lines, foreground, jobs, over>>

DropLines == lines' = <<>> /\ linebuf' = <<>> /\ over' = over \o Ids(lines) \o Ids(linebuf)

\* The foreground task is killed, and its death signalled.
Interrupt(e) ==
  /\ e.ev = "interrupt" /\ DropLines
  /\ foreground' = FALSE
  /\ Flush(IF foreground THEN [Popped EXCEPT !.events = Append(@, Done)] ELSE Popped)
  /\ UNCHANGED jobs

Suspend(e) ==
  /\ e.ev = "suspend" /\ DropLines
  /\ foreground => jobs < MaxJobs
  /\ foreground' = FALSE /\ jobs' = IF foreground THEN jobs + 1 ELSE jobs
  /\ Flush(Popped)

Close(e) ==
  /\ e.ev = "close" /\ open' = FALSE
  /\ Becomes(Popped)
  /\ UNCHANGED <<use, mode, wire, got, sent, lines, linebuf, foreground, jobs, over, sending>>

\* One turn of the action loop.
ActionLoop(A(_)) ==
  /\ open /\ events # <<>> /\ Idle("actions") /\ MayFlush
  /\ A(Head(events))

\* The hook on the death of the tasks of the shell
TaskEnds ==
  /\ open
  /\ foreground \/ jobs > 0
  /\ \/ foreground' = FALSE /\ foreground /\ UNCHANGED jobs
     \/ jobs > 0 /\ jobs' = jobs - 1 /\ UNCHANGED foreground
  /\ Becomes([Now EXCEPT !.events = Append(@, Done)])
  /\ UNCHANGED <<use, mode, wire, got, sent, lines, linebuf, over, sending, open>>

Next ==
  \/ \E t \in Tokens : Send(t)
  \/ \E n \in 1 .. 16 : ReadLoop(n)
  \/ SendDone
  \/ ActionLoop(LineWaits)
  \/ \E o \in {"incomplete", "error", "runs", "background"} :
       LET Runs(e) == LineRuns(e, o) IN ActionLoop(Runs)
  \/ ActionLoop(TaskDone) \/ ActionLoop(Interrupt) \/ ActionLoop(Suspend) \/ ActionLoop(Close)
  \/ TaskEnds

Spec == Init /\ [][Next]_vars

-----------------------------------------------------------------------------
(* What the user expects *)

\* How many lines the history holds, and these lines.
Depth(h) == Max({k \in 0 .. h.size : \A i \in 1 .. k : GetEntry(h, i) # NoEntry})
Entries(h) == [k \in 1 .. Depth(h) |-> GetEntry(h, k)]

\* What he sees: the text and the cursor; the lines of the past, the most recent
\* first; how far back he is, and the line he was typing when he went there.
User(t) ==
  [text |-> t.text, cursor |-> t.cursor, overwrite |-> t.overwrite, choices |-> t.choices,
   state |-> "CHARACTER_INPUT", previous |-> <<>>,
   hist |-> [past |-> Entries(t.hist), at |-> t.hist.idx, own |-> t.hist.saved]]

\* He goes to the k-th line of the past; 0 is his own.
Show(u, k) ==
  LET own == IF u.hist.at = 0 THEN <<[text |-> u.text, cursor |-> u.cursor]>> ELSE u.hist.own
  IN IF k = 0 THEN [u EXCEPT !.text = own[1].text, !.cursor = own[1].cursor,
                             !.hist.at = 0, !.hist.own = <<>>]
     ELSE [SetContent(u, u.hist.past[k]) EXCEPT !.hist.at = k, !.hist.own = own]

UserKey(u, key) ==
  LET none == [u EXCEPT !.choices = FALSE]
      a == Act(u, key)
  IN CASE key = "historyprev" -> IF u.hist.at < Len(u.hist.past) THEN Show(none, u.hist.at + 1) ELSE none
       [] key = "historynext" -> IF u.hist.at > 0 THEN Show(none, u.hist.at - 1) ELSE none
       [] OTHER -> [a EXCEPT !.choices = (a.state = "COMPLETION_DISP"), !.state = u.state,
                             !.previous = <<>>, !.hist.at = 0, !.hist.own = <<>>]

\* What a whole token means, in either mode.
Means(s, t) ==
  LET command == IF mode = "edit" THEN Command(s.ti, t.is)
                 ELSE IF t.is = "close" /\ s.line # <<>> THEN "nop" ELSE t.is
      typed == IF mode = "edit" THEN s.ti.text ELSE s.line
      done == [s EXCEPT !.ti = IF mode = "edit" THEN UserKey(@, t.is) ELSE @,
                        !.line = IF command = "nop" THEN @ ELSE <<>>]
  IN CASE t.is = "option" -> Reply(s, t.arg)
       [] t.is = "text" /\ mode = "line" -> Store(s, t.arg)
       [] t.is = "text" /\ mode = "edit" ->
            [s EXCEPT !.ti = [Insert(@, t.arg) EXCEPT !.choices = FALSE,
                                                      !.hist.at = 0, !.hist.own = <<>>]]
       [] OTHER -> IF command = "nop" THEN done
                   ELSE Signal(done, command, IF command = "line" THEN typed ELSE <<>>)

Seen == [line |-> line, ti |-> User(ti), replies |-> <<>>, events |-> events, count |-> count]

-----------------------------------------------------------------------------
(* Properties *)

\* The cursor is in the text, the bytes the matcher compared wait to be typed, and
\* the user's own line is kept exactly while he sees another one.
InArea ==
  /\ ti.pos = Len(ti.temp) /\ ti.cursor \in 0 .. Len(ti.text)
  /\ (ti.hist.idx = 0) = (ti.hist.saved = <<>>)

\* What is held while no send waits is the start of something, what was handed over
\* is gone, and the matcher stands inside one of its sequences.
TypeOK ==
  /\ in.rest = <<>> \/ sending # <<>> \/ (mode = "line" /\ in.owned /\ Lex(in.rest).kind \in {"cut", "byte"})
  /\ in.held = <<>>
  /\ InArea /\ ti.pos < 8

\* However the bytes are cut in chunks, what a delivery the sends of which are done
\* at once does is what the keys, characters and commands it completes mean, in their
\* order: nothing is lost, doubled or taken for something else by the read buffer,
\* the two parsers, the search of key sequences, the ring of the history and the
\* saved line.
AsTyped ==
  [][sent' = sent /\ <<wire', got'>> # <<wire, got>> /\ sending' = sending =>
       LET done == SubSeq(wire, 1, Len(wire) - Len(wire'))
       IN [Seen EXCEPT !.replies = replies]' = FoldLeft(Means, Seen, done)]_vars

\* The history is the list of the last lines that ran, without a line equal to
\* the one before it, whatever place of the ring is written.
HistoryIsList ==
  [][LET past == User(ti).hist.past  now == User(ti)'.hist.past
     IN now # past => /\ Len(now) <= ti.hist.size
                      /\ now[1] # <<>> /\ (past # <<>> => now[1] # past[1])
                      /\ Tail(now) = Edit!Take(past, Min({Len(past), ti.hist.size - 1}))]_vars

\* A line is in one place only: waiting as an event, behind the foreground task,
\* in an incomplete chunk, behind a send that waits, or done with.
LinesKept ==
  LET places == LineIds(events) \o Ids(linebuf) \o Ids(lines) \o (LineIds(Taken) \o over)
  IN /\ Range(places) \ {0} = 1 .. count
     /\ \A i, j \in DOMAIN places : i # j /\ places[i] = places[j] => places[i] = 0

\* No line is signalled while one that was taken before it waits behind a send.  It
\* does not hold: the next call of the interpreter does not wait (telnet.lua:98-103).
InOrder ==
  \A i \in DOMAIN Taken, j \in DOMAIN events :
    Taken[i].ev = "line" /\ events[j].ev = "line" => events[j].id < Taken[i].id
=============================================================================
