------------------------------- MODULE Telnet -------------------------------
(***************************************************************************)
(* The telnet interpreter (c/telnet/telnet.c, the read buffer of           *)
(* buffers.c): bytes arrive in chunks cut anywhere, hold telnet commands   *)
(* and characters, and become the events of the shell.  In line mode the   *)
(* client edits and the interpreter gathers lines; in edit mode characters *)
(* go to Teel.                                                             *)
(***************************************************************************)
EXTENDS Teel

CONSTANTS HistorySizes, \* the sizes of the history a configuration may ask for
          Past,         \* the lines that ran before the run starts
          Tokens,       \* what the client sends: [bytes, is, arg]
          Instances,    \* what a behaviour uses, a set of [modes, tokens, waits]: its
                        \* modes, a bound on the tokens, and whether a send may wait
          Corners       \* corner cases the run includes, a subset of {"cut command",
                        \* "flush while cut", "history while browsing"}

ASSUME TelnetConstants ==
  /\ \A i \in Instances : i.modes \subseteq {"line", "edit"} /\ i.tokens \in Nat
  /\ \A t \in Tokens : t.bytes \in Seq(0 .. 255)
  /\ HistorySizes \subseteq Nat
  /\ Past \in Seq(Seq(0 .. 255)) /\ \A i \in 1 .. Len(Past) : Past[i] # <<>>

VARIABLES use,     \* the instance
          mode,    \* editmode
          in,      \* the ReadBuffer: bytes to read, bytes read since the mark, and
                   \* whether the interpreter owns the buffer
          line,    \* linemodebuffer
          ti,      \* the TeelInstance
          replies, \* the options the last call answered
          events,  \* shell_events_fifo: what was signalled and not yet treated
          count,   \* how many lines were signalled
          wire,    \* the tokens under way, the first one perhaps partly received
          got,     \* how many bytes of the first one were
          sent     \* how many tokens the client sent

telnetVars == <<use, mode, in, line, ti, replies, events, count, wire, got, sent>>

IAC == 255  DONT == 254  DO == 253  WONT == 252  WILL == 251  SB == 250
SE == 240   IP == 244    SUSP == 237  EOF == 236
TIMING_MARK == 6  SUPPRESS_GO_AHEAD == 3  ECHO == 1  NAWS == 31

-----------------------------------------------------------------------------
(* Telnet commands *)

\* The options answered, as <<action, option>>.
ParseOption(action, option) ==
  CASE option = TIMING_MARK -> IF action = DO THEN <<<<WILL, TIMING_MARK>>>> ELSE <<>>
    [] option = ECHO -> IF action = WILL THEN <<<<DONT, ECHO>>>> ELSE <<>>
    [] option \in {SUPPRESS_GO_AHEAD, NAWS} -> <<>>
    [] OTHER -> IF action \in {DO, WILL}
                THEN <<<<IF action <= WONT THEN DONT ELSE WONT, option>>>> ELSE <<>>

\* The length of a window size: four bytes, 255 doubled, then IAC SE.
SizeLen(s) ==
  LET skip(p) == IF p < Len(s) /\ s[p + 1] = IAC THEN p + 2 ELSE p + 1
  IN skip(skip(skip(skip(3)))) + 2

\* What s starts with: its kind, its length, and the byte it stands for.
Lex(s) ==
  LET is(kind, n, byte) == [kind |-> kind, n |-> n, byte |-> byte]
      cut(byte) == is("cut", Len(s), byte)
  IN IF s[1] # IAC THEN is("byte", 1, s[1])
     ELSE IF Len(s) = 1 THEN cut(-1)
     ELSE IF s[2] \in WILL .. DONT
          THEN IF Len(s) = 2 THEN cut(s[2]) ELSE is("option", 3, s[3])
     ELSE IF s[2] = SB
          THEN IF Len(s) = 2 THEN cut(s[2])
               ELSE IF s[3] # NAWS THEN is("skip", 3, -1)
               ELSE is("skip", Min({SizeLen(s), Len(s)}), -1)
     ELSE IF s[2] \in {IP, SUSP, EOF} THEN is("control", 2, s[2])
     ELSE is(IF s[2] = IAC THEN "quoted" ELSE "skip", 2, s[2])

-----------------------------------------------------------------------------
(* One call of interpret.  s is the state the interpreter works on. *)

Signal(s, ev, text) ==
  LET n == IF ev = "line" THEN s.count + 1 ELSE s.count
  IN [s EXCEPT !.events = Append(@, [ev |-> ev, text |-> text, id |-> n]), !.count = n]

Reply(s, r) == [s EXCEPT !.replies = @ \o r]
Read(s, n) == [s EXCEPT !.in.rest = Edit!Drop(@, n), !.in.held = <<>>]

\* The input stops in the middle of something: it is read up to its end, and the
\* mark stays before it.
Hold(s) == [s EXCEPT !.in.held = s.in.rest, !.in.rest = <<>>]

\* Interrupt and suspend drop the line; end-of-file counts on an empty line only.
LineControl(s, ev) == Signal([s EXCEPT !.line = <<>>], ev, <<>>)

EndOfLine(s) == Signal([s EXCEPT !.line = <<>>], "line", s.line)
Store(s, bytes) == [s EXCEPT !.line = @ \o bytes]

\* processlinemode, one turn of its loop, on what the input starts with; done
\* when the loop ends.
LineTurn(s, l) ==
  LET rest == s.in.rest
      next == Read(s, l.n)
      go(t) == [s |-> t, done |-> FALSE]
      end(t) == [s |-> t, done |-> TRUE]
      control(t, ev) == IF ev = "close" /\ t.line # <<>> THEN go(t) ELSE end(LineControl(t, ev))
      byte == l.byte
  IN CASE l.kind = "cut" -> end(Hold(s))
       [] l.kind = "option" -> go(Reply(next, ParseOption(rest[2], byte)))
       [] l.kind = "skip" -> go(next)
       [] l.kind = "quoted" -> go(Store(next, <<IAC>>))
       [] l.kind = "control" ->
            control(next, CASE byte = IP -> "interrupt" [] byte = SUSP -> "suspend" [] OTHER -> "close")
       [] l.kind = "byte" /\ byte = 10 -> end(EndOfLine(next))
       [] l.kind = "byte" /\ byte = 13 ->
            IF Len(rest) = 1 THEN end(Hold(s))
            ELSE IF rest[2] \in {0, 10} THEN end(EndOfLine(Read(s, 2)))
            ELSE go(Store(Read(s, 2), <<10, rest[2]>>))
       [] l.kind = "byte" /\ byte \in {3, 4, 19} ->
            control(next, CASE byte = 3 -> "interrupt" [] byte = 19 -> "suspend" [] OTHER -> "close")
       [] OTHER -> go(Store(next, <<byte>>))

\* The character teel_reader gives to teel_run, -1 for none.  A command that is
\* not complete is gone, and its second byte is taken for a character.
ReaderByte(l) ==
  CASE l.kind \in {"byte", "quoted", "cut"} -> l.byte
    [] l.kind = "control" -> (CASE l.byte = IP -> 3 [] l.byte = SUSP -> 26 [] OTHER -> 4)
    [] OTHER -> -1

\* The end of a turn of edit mode: a command stops the loop; a line is taken.
EditCommand(s, b) ==
  LET taken == IF b.cmd = "line" THEN [b.ti EXCEPT !.previous = <<>>] ELSE b.ti
  IN Signal([s EXCEPT !.ti = taken], b.cmd,
            IF b.cmd = "line" THEN b.ti.previous[1] ELSE <<>>)

\* processeditmode, one turn.
EditTurn(s, l) ==
  LET byte == ReaderByte(l)
      answer == IF l.kind = "option" THEN ParseOption(s.in.rest[2], l.byte) ELSE <<>>
      next == Reply(Read(s, l.n), answer)
      after(b) == IF b.cmd = "nop" THEN [s |-> [next EXCEPT !.ti = b.ti], done |-> FALSE]
                  ELSE [s |-> EditCommand(next, b), done |-> TRUE]
  IN IF byte < 0 THEN [s |-> next, done |-> FALSE] ELSE after(TeelByte(s.ti, byte))

\* l_interpret before and after the mode's work: new data follow the bytes that
\* are not read yet; what is held is stored unless the buffer is owned already.
Feed(i, input) ==
  IF input = <<>> THEN i
  ELSE IF i.rest # <<>> THEN [rest |-> i.rest \o input, held |-> <<>>, owned |-> TRUE]
  ELSE [rest |-> input, held |-> <<>>, owned |-> FALSE]

\* Mutant: only what is not read yet is stored.
Keep_Unread(i) == [i EXCEPT !.held = <<>>, !.owned = i.rest # <<>>]

Keep(i) ==
  IF i.held # <<>> /\ ~i.owned THEN [rest |-> i.held \o i.rest, held |-> <<>>, owned |-> TRUE]
  ELSE IF i.held = <<>> /\ i.rest = <<>> THEN [i EXCEPT !.owned = FALSE]
  ELSE i

\* One turn of the mode's loop.
ModeTurn(s) ==
  LET rest == s.in.rest
  IN IF rest = <<>> THEN [s |-> s, done |-> TRUE]
     ELSE IF mode = "line" THEN LineTurn(s, Lex(rest)) ELSE EditTurn(s, Lex(rest))

\* When the loop ends, what is held is kept, and interpret() of the shell calls again
\* until the input is exhausted.
AfterTurn(u) ==
  LET end == u.s.in.rest = <<>>
  IN IF u.done \/ end THEN [s |-> [u.s EXCEPT !.in = Keep(@)], done |-> end] ELSE u

Turn(t) == IF t.done THEN t ELSE AfterTurn(ModeTurn(t.s))

\* The state after n turns; each reads a byte at least, or is the last one.
Turns(s) ==
  LET turn[n \in Nat] == IF n = 0 THEN [s |-> s, done |-> FALSE] ELSE Turn(turn[n - 1])
  IN turn

Fed(s, input) == [s EXCEPT !.in = Feed(@, input)]

-----------------------------------------------------------------------------
(* The client and the network *)

Now == [in |-> in, line |-> line, ti |-> ti, replies |-> <<>>, events |-> events, count |-> count]

Becomes(s) ==
  /\ in' = s.in /\ line' = s.line /\ ti' = s.ti /\ replies' = s.replies
  /\ events' = s.events /\ count' = s.count

\* The history once the lines of the past ran.
Remembering(h) ==
  LET hist[k \in 0 .. Len(Past)] == IF k = 0 THEN h ELSE AddHistory(hist[k - 1], Past[k])
  IN hist[Len(Past)]

TelnetInit ==
  /\ use \in Instances /\ mode \in use.modes
  /\ in = [rest |-> <<>>, held |-> <<>>, owned |-> FALSE]
  /\ line = <<>> /\ replies = <<>> /\ events = <<>> /\ count = 0
  /\ \E n \in HistorySizes :
       ti = IF mode = "edit" THEN [NewTeel(n) EXCEPT !.hist = Remembering(@)] ELSE NewTeel(0)
  /\ wire = <<>> /\ got = 0 /\ sent = 0

Bytes == FlattenSeq([i \in 1 .. Len(wire) |-> wire[i].bytes])

ClientSends(t) ==
  /\ mode \in t.modes /\ sent < use.tokens /\ Len(wire) < 2
  /\ wire' = Append(wire, t) /\ sent' = sent + 1
  /\ UNCHANGED <<use, mode, in, line, ti, replies, events, count, got>>

\* How many tokens of the wire n more bytes complete.
Completed(n) ==
  Max({0} \cup {k \in 1 .. Len(wire) :
                  got + n >= Len(FlattenSeq([i \in 1 .. k |-> wire[i].bytes]))})

Rest(n) == got + n - Len(FlattenSeq([i \in 1 .. Completed(n) |-> wire[i].bytes]))

\* Corner "cut command": a telnet command cut by a chunk in edit mode, or cut
\* twice in line mode.
CutAllowed(n) ==
  Rest(n) # 0 /\ "cut command" \notin Corners =>
    IF mode = "edit" THEN wire[Completed(n) + 1].bytes[1] # IAC ELSE in.rest = <<>>

\* n bytes are received.
Chunk(n) == SubSeq(Bytes, got + 1, got + n)
Receive(n) ==
  /\ n \in 1 .. Len(Bytes) - got
  /\ CutAllowed(n)
  /\ wire' = Edit!Drop(wire, Completed(n)) /\ got' = Rest(n)
  /\ UNCHANGED <<use, mode, sent>>
=============================================================================
