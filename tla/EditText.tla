------------------------------ MODULE EditText ------------------------------
(***************************************************************************)
(* What the line editor promises to its user: a text with a cursor, no     *)
(* rows and no window.  The text starts with the prompt, `start` symbols   *)
(* long, which the user cannot edit.  Two liberties are taken with line    *)
(* breaks, because the rows of the editor cannot tell a line that exactly  *)
(* fills a row from a wrapped one: an insertion of more than one letter    *)
(* may leave one more break behind it, and a change of the window width    *)
(* may lose breaks.  Letters are never lost, added or reordered.           *)
(***************************************************************************)
EXTENDS Naturals, Sequences, SequencesExt, FiniteSetsExt

CONSTANTS Inputs,   \* what one key or one completion inserts
          Contents, \* the texts history may put in the edit area
          Prompts,  \* the prompts
          Stops,    \* the symbols that end a word
          Break     \* the line break

VARIABLES text, cursor, start, line

vars == <<text, cursor, start, line>>

Take(s, n) == SubSeq(s, 1, n)
Drop(s, n) == SubSeq(s, n + 1, Len(s))
Spliced(s, n, t) == Take(s, n) \o t \o Drop(s, n)
Letters(s) == SelectSeq(s, LAMBDA c : c # Break)

\* s with at most one more break, not before position n
MaybeBreak(s, n) == {s} \cup {Spliced(s, k, <<Break>>) : k \in n .. Len(s)}

Init == text = <<>> /\ cursor = 0 /\ start = 0 /\ line = <<>>

\* One letter goes exactly where the cursor is.
Insert(s) ==
  /\ LET t == Spliced(text, cursor, s)
     IN text' \in IF Len(s) = 1 /\ s # <<Break>> THEN {t}
                  ELSE MaybeBreak(t, cursor + Len(s))
  /\ cursor' = cursor + Len(s)
  /\ line' = <<>> /\ UNCHANGED start

\* In overwrite mode letters take the place of what is under the cursor, at
\* most one symbol each; a break is inserted.
Overwrite(s) ==
  /\ Break \notin Range(s)
  /\ \E k \in 0 .. Len(s) : text' = Take(text, cursor) \o s \o Drop(text, cursor + k)
  /\ cursor' = cursor + Len(s)
  /\ line' = <<>> /\ UNCHANGED start

\* The end of the word at or after the cursor, and the start of the one
\* before it in a text the user edits from first on (the symbol there is never
\* looked at).
WordEnd(t, c) ==
  Min({Len(t)} \cup {k \in c + 1 .. Len(t) - 1 :
                       t[k + 1] \in Stops /\ \E j \in c + 1 .. k : t[j] \notin Stops})
WordStart(t, c, first) ==
  Max({first} \cup {k \in first + 2 .. c - 1 :
                       t[k] \in Stops /\ \E j \in k + 1 .. c : t[j] \notin Stops})

\* The cursor stays in the part of the text the user may edit.
Move ==
  /\ LET t == text  c == cursor
     IN cursor' \in {c - 1, c + 1, start, Len(t), WordEnd(t, c), WordStart(t, c, start)}
                    \cap start .. Len(t)
  /\ line' = <<>> /\ UNCHANGED <<text, start>>

\* What is deleted lies between the cursor and a neighbour or a word boundary.
Delete ==
  /\ LET t == text  c == cursor
     IN \E k \in {c - 1, c + 1, WordEnd(t, c), WordStart(t, c, start)} \cap start .. Len(t) :
          /\ text' = Take(t, Min({k, c})) \o Drop(t, Max({k, c}))
          /\ cursor' = Min({k, c})
  /\ line' = <<>> /\ UNCHANGED start

\* History replaces what the user edits, and keeps the prompt.
SetContent(s) ==
  /\ text' = Take(text, start) \o s
  /\ cursor' = Len(text')
  /\ line' = <<>> /\ UNCHANGED start

\* The line is handed over without the prompt and the area is empty again.
Done ==
  /\ line' = Drop(text, start)
  /\ text' = <<>> /\ cursor' = 0 /\ start' = 0

\* A prompt takes the place of the previous one, before what was typed ahead.
ShowPrompt(s) ==
  /\ text' = s \o Drop(text, start)
  /\ cursor' = cursor + Len(s) - start
  /\ start' = Len(s)
  /\ line' = <<>>

\* The window changes: only breaks may be lost, and the cursor keeps its
\* offset (not its neighbours, when a break before it is lost).
Resize ==
  /\ Letters(text') = Letters(text)
  /\ Len(text') <= Len(text)
  /\ cursor' = Min({cursor, Len(text')})
  /\ line' = <<>> /\ UNCHANGED start

Next ==
  \/ \E s \in Inputs : Insert(s) \/ Overwrite(s)
  \/ \E s \in Contents : SetContent(s)
  \/ \E s \in Prompts : ShowPrompt(s)
  \/ Move \/ Delete \/ Done \/ Resize

Spec == Init /\ [][Next]_vars
=============================================================================
