------------------------------ MODULE MCEditor ------------------------------
(* A small alphabet for the line editor: "x" stands for any letter of a      *)
(* word, " " and "n" (the break) end a word.                                 *)
EXTENDS Editor

MCInputs == {<<"x">>, <<" ">>, <<"n">>, <<"x", "x", "x">>}
MCContents == {<<>>, <<"x", "n", "x", "x">>}
MCPrompts == {<<">", "_">>}
MCStops == {" ", "_", "n"}
=============================================================================
