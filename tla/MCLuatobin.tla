----------------------------- MODULE MCLuatobin -----------------------------
(* Graphs of two tables and a function: every table "t" of at most two entries
   over a few keys and values, in every order of lua_next, and some "u". *)
EXTENDS Luatobin

Ab == String(<<5, 4>>)

MCKeys == {Number(1, TRUE), Ab, Object("t")}
MCValues == {Boolean(FALSE), Ab, Object("t"), Object("u"), Object("g")}

MCEntries ==
  {<<>>} \cup {<<<<k, v>>>> : k \in MCKeys, v \in MCValues}
  \cup UNION {{<<<<p[1], v>>, <<p[2], w>>>> : v \in MCValues, w \in MCValues} :
              p \in {q \in MCKeys \X MCKeys : q[1] # q[2]}}

MCOther == {<<>>, <<<<Ab, Object("t")>>, <<Object("g"), Ab>>>>}

Wide == Number(2^(IntBits - 1), TRUE)

MCRoots ==
  {<<Object("t")>>, <<Object("t"), Object("t")>>} \cup
  (IF "wide integer" \in Corners THEN {<<Wide>>} ELSE {})

Simple ==
  {<<Nil, Boolean(TRUE), Number(1, FALSE)>>, <<String(<<>>), Object("g"), Ab>>,
   <<String([i \in 1 .. Byte * Byte - 1 |-> 4])>>, <<Number(-2^(IntBits - 1), TRUE), Object("t")>>}

Heap(t, u) == [o \in {"t", "u", "g"} |->
                 IF o = "t" THEN Table(t) ELSE IF o = "u" THEN Table(u) ELSE Function(<<7, 20>>)]

MCGraphs ==
  [heap : {Heap(t, u) : t \in MCEntries, u \in MCOther}, roots : MCRoots]
  \cup [heap : {Heap(<<>>, <<>>)}, roots : Simple]
=============================================================================
