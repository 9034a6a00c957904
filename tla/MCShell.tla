------------------------------ MODULE MCShell ------------------------------
(* What a client types and what its telnet program sends by itself.          *)
EXTENDS Shell

LOCAL Tok(modes, is, bytes, arg) == [modes |-> modes, is |-> is, bytes |-> bytes, arg |-> arg]
LOCAL Both == {"line", "edit"}

MCTokens ==
  {Tok(Both, "text", <<120>>, <<120>>),                     \* x
   Tok({"line"}, "text", <<IAC, IAC>>, <<255>>),
   Tok(Both, "line", <<13, 0>>, <<>>),
   Tok({"line"}, "interrupt", <<IAC, IP>>, <<>>),
   Tok({"edit"}, "interrupt", <<3>>, <<>>),
   Tok({"line"}, "suspend", <<19>>, <<>>),
   Tok({"edit"}, "suspend", <<IAC, SUSP>>, <<>>),
   Tok(Both, "close", <<4>>, <<>>),
   Tok(Both, "option", <<IAC, DO, 99>>, <<<<WONT, 99>>>>),
   Tok({"edit"}, "option", <<IAC, SB, NAWS, 0, 255, 255, 0, 24, IAC, SE>>, <<>>),
   Tok({"edit"}, "historyprev", <<27, 91, 65>>, <<>>),
   Tok({"edit"}, "historynext", <<27, 91, 66>>, <<>>),
   Tok({"edit"}, "left", <<27, 91, 68>>, <<>>),
   Tok({"edit"}, "autocomplete", <<9>>, <<>>)}
MCInstances ==
  {[modes |-> {"line", "edit"}, tokens |-> 4, waits |-> FALSE],
   [modes |-> {"line"}, tokens |-> 4, waits |-> TRUE],
   [modes |-> {"edit"}, tokens |-> 3, waits |-> TRUE]}
MCPast == <<<<121>>, <<120>>, <<121>>>>
MCStops == {32, 10}
\* Every sequence of the table of keys, byte by byte, is found as its own key.
LOCAL Sample == [NewTeel(1) EXCEPT !.text = <<120, 32, 120>>, !.cursor = 2]
ASSUME KeysFound ==
  \A i \in 1 .. Len(defaultksa) :
    FoldLeft(LAMBDA t, b : TeelByte(t, b).ti, Sample, defaultksa[i][1]) = Key(Sample, defaultksa[i][2])
MCNames == <<<<120, 121>>, <<120, 122>>>>
=============================================================================
