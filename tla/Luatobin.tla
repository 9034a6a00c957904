------------------------------ MODULE Luatobin ------------------------------
(***************************************************************************)
(* The serializer of Lua values (c/luatobin.c): serialize writes a value   *)
(* as a list of pieces, tables, functions and strings once and then by     *)
(* their number; deserialize reads objects back from a string, or from a   *)
(* table of strings cut anywhere.  A byte of a size, of a reference, of a  *)
(* string or of a function is a cell, and so are a type and a number.      *)
(***************************************************************************)
EXTENDS Integers, Sequences, SequencesExt, FiniteSetsExt, Functions, TLC

CONSTANTS Graphs,     \* [heap, roots]: the Lua objects, and the values serialized
          Byte,       \* the number of values of a byte of a size or reference
          IntBits,    \* the width of a serialized integer
          PieceSizes, \* how the transport may cut the bytes
          Corners     \* a subset of {"wide integer", "object at a cut"}

ASSUME CodecConstants == Byte \in Nat \ {0, 1} /\ IntBits \in Nat \ {0} /\ PieceSizes \subseteq Nat \ {0}

VARIABLES graph,
          pc,      \* "write", "send", "call", "read", "done" or "failed"
          writer,  \* serialize under way: [out, cache, key, todo]
          sent,    \* the OutTable of each value
          buffer,  \* what deserialize is given: [table, parts]
          reader,  \* deserialize under way
          objs,    \* the objects deserialize made
          results, \* the values it returned
          nobj, next \* its arguments nobj and offset

vars == <<graph, pc, writer, sent, buffer, reader, objs, results, nobj, next>>

Nil == [k |-> "nil"]
Boolean(b) == [k |-> "boolean", b |-> b]
Number(n, whole) == [k |-> "number", n |-> n, whole |-> whole]
String(s) == [k |-> "string", s |-> s]
Object(o) == [k |-> "object", o |-> o]

Table(entries) == [kind |-> "table", entries |-> entries]
Function(code) == [kind |-> "function", code |-> code]

BIN_NIL == 0
BIN_BOOLEAN == 1
BIN_DOUBLE == 3
BIN_STRING == 4
BIN_TABLE == 5
BIN_FUNCTION == 6
BIN_INTEGER == 7
BIN_REF == 20

Word == Byte * Byte \* uint16_t, in network order
ToBytes(n) == <<n \div Byte, n % Byte>>
TooLong(n) == n >= Word - 1

ToInt(n) == \* int32_t
  LET m == n % 2^IntBits IN IF m >= 2^(IntBits - 1) THEN m - 2^IntBits ELSE m

-----------------------------------------------------------------------------
(* serialize *)

Type(v) ==
  CASE v.k = "nil" -> BIN_NIL [] v.k = "boolean" -> BIN_BOOLEAN
    [] v.k = "number" -> IF v.whole THEN BIN_INTEGER ELSE BIN_DOUBLE
    [] v.k = "string" -> BIN_STRING
    [] v.k = "object" -> IF graph.heap[v.o].kind = "table" THEN BIN_TABLE ELSE BIN_FUNCTION

NewWriter(v) == [out |-> <<>>, cache |-> <<>>, key |-> 0, todo |-> <<v>>]

WriteObject(w, piece) == [w EXCEPT !.out = Append(@, piece)]

\* The number under which a value was written, 0 if it is new: it takes the next.
Cached(w, v) == IF v \in DOMAIN w.cache THEN w.cache[v] ELSE 0
VerifyCache(w, v) ==
  LET key == (w.key + 1) % Word
  IN IF v \in DOMAIN w.cache THEN w ELSE [w EXCEPT !.key = key, !.cache = @ @@ (v :> key)]

\* A table's entries follow its header, the number of them.
Content(v) ==
  IF v.k = "string" THEN v.s
  ELSE IF Type(v) = BIN_FUNCTION THEN graph.heap[v.o].code
  ELSE graph.heap[v.o].entries

SerializeValue(w, v) ==
  CASE v.k = "nil" -> WriteObject(w, <<BIN_NIL>>)
    [] v.k = "boolean" -> WriteObject(w, <<BIN_BOOLEAN, IF v.b THEN 1 ELSE 0>>)
    [] v.k = "number" -> WriteObject(w, <<Type(v), IF v.whole THEN ToInt(v.n) ELSE v.n>>)
    [] v.k \in {"string", "object"} ->
         IF Cached(w, v) # 0 THEN WriteObject(w, <<BIN_REF>> \o ToBytes(Cached(w, v)))
         ELSE LET header == <<Type(v)>> \o ToBytes(Len(Content(v)))
                  known == VerifyCache(w, v)
              IN IF Type(v) = BIN_TABLE
                 THEN [WriteObject(known, header) EXCEPT !.todo = FlattenSeq(Content(v)) \o @]
                 ELSE WriteObject(known, header \o Content(v))

Write ==
  /\ pc = "write" /\ writer.todo # <<>>
  /\ LET v == Head(writer.todo)
     IN IF v.k \in {"string", "object"} /\ Cached(writer, v) = 0 /\ TooLong(Len(Content(v)))
        THEN pc' = "failed" /\ UNCHANGED writer
        ELSE /\ writer' = SerializeValue([writer EXCEPT !.todo = Tail(@)], v)
             /\ UNCHANGED pc
  /\ UNCHANGED <<graph, sent, buffer, reader, objs, results, nobj, next>>

\* serialize returns, and is called for the next value.
EndWrite ==
  /\ pc = "write" /\ writer.todo = <<>>
  /\ sent' = Append(sent, writer.out)
  /\ IF Len(sent') < Len(graph.roots)
     THEN writer' = NewWriter(graph.roots[Len(sent') + 1]) /\ UNCHANGED pc
     ELSE pc' = "send" /\ UNCHANGED writer
  /\ UNCHANGED <<graph, buffer, reader, objs, results, nobj, next>>

-----------------------------------------------------------------------------
(* The bytes on their way *)

Bytes == FlattenSeq(FlattenSeq(sent))

Pieces(s, n) ==
  [i \in 1 .. (Len(s) + n - 1) \div n |-> SubSeq(s, (i - 1) * n + 1, Min({i * n, Len(s)}))]

\* Where the objects end.
Ends == {Len(FlattenSeq(FlattenSeq(SubSeq(sent, 1, i)))) : i \in 1 .. Len(sent) - 1}
Cuts(parts) == {Len(FlattenSeq(SubSeq(parts, 1, i))) : i \in 1 .. Len(parts) - 1}

Whole(parts) == "object at a cut" \in Corners \/ Ends \cap Cuts(parts) = {}

\* As one string, as the tables serialize returned, or as the transport cut it.
Send ==
  /\ pc = "send" /\ pc' = "call" /\ next' = 1
  /\ \/ buffer' = [table |-> FALSE, parts |-> <<Bytes>>]
     \/ \E parts \in {FlattenSeq(sent)} \cup {Pieces(Bytes, n) : n \in PieceSizes} :
          Whole(parts) /\ buffer' = [table |-> TRUE, parts |-> parts]
  /\ UNCHANGED <<graph, writer, sent, reader, objs, results, nobj>>

-----------------------------------------------------------------------------
(* deserialize *)

Part(i) == buffer.parts[i]

\* The part that holds the offset, and its place there, from 0.
LocalIndex(gindex) ==
  LET before(i) == Len(FlattenSeq(SubSeq(buffer.parts, 1, i)))
      i == Min({j \in 1 .. Len(buffer.parts) : before(j) >= gindex} \cup {Len(buffer.parts)})
  IN [part |-> i, index |-> gindex - before(i - 1)]

\* Mutant: the frame is read from its start again.
ReadObject_Rewinds(r, call) ==
  LET left == Len(r.frame) - r.index
      got(i) == left + Len(FlattenSeq(SubSeq(buffer.parts, r.part + 1, i)))
      enough == {i \in r.part + 1 .. Len(buffer.parts) : got(i) >= call}
  IN IF r.error \/ call <= left THEN r
     ELSE IF ~buffer.table \/ enough = {} THEN [r EXCEPT !.error = TRUE]
     ELSE [r EXCEPT !.part = Min(enough), !.index = 0,
                    !.frame = (IF left > 0 THEN r.frame ELSE <<>>)
                              \o FlattenSeq(SubSeq(buffer.parts, r.part + 1, Min(enough)))]

\* The frame holds the next bytes, or takes as many parts as they need.
ReadObject(r, call) ==
  LET left == Len(r.frame) - r.index
      got(i) == left + Len(FlattenSeq(SubSeq(buffer.parts, r.part + 1, i)))
      enough == {i \in r.part + 1 .. Len(buffer.parts) : got(i) >= call}
  IN IF r.error \/ call <= left THEN r
     ELSE IF ~buffer.table \/ enough = {} THEN [r EXCEPT !.error = TRUE]
     ELSE [r EXCEPT !.part = Min(enough),
                    !.index = IF left > 0 THEN r.index ELSE 0,
                    !.frame = (IF left > 0 THEN r.frame ELSE <<>>)
                              \o FlattenSeq(SubSeq(buffer.parts, r.part + 1, Min(enough)))]

\* n bytes are read: got holds them.
Take(r, n) ==
  LET a == ReadObject(r, n)
  IN IF a.error THEN a
     ELSE [a EXCEPT !.got = SubSeq(a.frame, a.index + 1, a.index + n),
                    !.index = @ + n, !.gindex = @ + n]
FromBytes(r) == r.got[1] * Byte + r.got[2]

AddToCache(r, v) ==
  LET key == (r.key + 1) % Word IN [r EXCEPT !.key = key, !.cache = (key :> v) @@ @]

\* A value read is the next key or value of the innermost table, or a result.
Attach(r, os, v) ==
  LET top == Head(r.open)
  IN IF r.open = <<>> THEN [r |-> [r EXCEPT !.result = <<v>>], os |-> os]
     ELSE IF top.key = <<>> THEN [r |-> [r EXCEPT !.open[1].key = <<v>>], os |-> os]
     ELSE [r |-> [r EXCEPT !.open[1] = [top EXCEPT !.key = <<>>, !.left = @ - 1]],
           os |-> [os EXCEPT ![top.o].entries =
                     SelectSeq(@, LAMBDA e : e[1] # top.key[1]) \o
                     (IF v = Nil THEN <<>> ELSE <<<<top.key[1], v>>>>)]]

\* Mutant: a table takes its number after its entries.
ReadTable_Late(r, os) ==
  LET n == FromBytes(r)
      t == Object(Len(os) + 1)
      a == Attach(r, Append(os, Table(<<>>)), t)
  IN [r |-> [(IF n = 0 THEN AddToCache(a.r, t) ELSE a.r) EXCEPT
               !.open = IF n = 0 THEN @ ELSE <<[o |-> t.o, left |-> n, key |-> <<>>]>> \o @],
      os |-> a.os]

\* The table is put in the one around it at once: nothing reads it before it is
\* complete.
ReadTable(r, os) ==
  LET n == FromBytes(r)
      t == Object(Len(os) + 1)
      a == Attach(AddToCache(r, t), Append(os, Table(<<>>)), t)
  IN [r |-> [a.r EXCEPT !.open = IF n = 0 THEN @ ELSE <<[o |-> t.o, left |-> n, key |-> <<>>]>> \o @],
      os |-> a.os]

ReadBody(r, type, os) ==
  LET size == Take(r, 2)
      body == Take(size, FromBytes(size))
      one == Take(r, 1)
  IN CASE type = BIN_NIL -> Attach(r, os, Nil)
       [] type = BIN_BOOLEAN -> Attach(one, os, Boolean(one.got[1] # 0))
       [] type \in {BIN_INTEGER, BIN_DOUBLE} ->
            Attach(one, os, Number(one.got[1], type = BIN_INTEGER))
       [] type = BIN_REF ->
            Attach(size, os, IF FromBytes(size) \in DOMAIN size.cache
                             THEN size.cache[FromBytes(size)] ELSE Nil)
       [] type = BIN_STRING -> Attach(AddToCache(body, String(body.got)), os, String(body.got))
       [] type = BIN_FUNCTION ->
            LET f == Object(Len(os) + 1)
            IN Attach(AddToCache(body, f), Append(os, Function(body.got)), f)
       [] type = BIN_TABLE -> ReadTable(size, os)

\* Tables that have all their entries are closed.
Closed(r) ==
  LET full == {i \in 1 .. Len(r.open) : \A j \in 1 .. i : r.open[j].left = 0}
  IN [r EXCEPT !.open = SubSeq(@, 1 + Max(full \cup {0}), Len(@))]

More(r, n) == r.index < Len(r.frame) /\ (nobj' <= 0 \/ n < nobj')

Deserialize(n) ==
  LET at == LocalIndex(next - 1)
      r == [frame |-> Part(at.part), part |-> at.part, index |-> at.index, gindex |-> next - 1,
            cache |-> <<>>, key |-> 0, open |-> <<>>, result |-> <<>>, got |-> <<>>,
            error |-> FALSE, count |-> 0]
  IN /\ pc = "call" /\ nobj' = n
     /\ reader' = r
     /\ pc' = IF More(r, 0) THEN "read" ELSE "done"
     /\ UNCHANGED <<graph, writer, sent, buffer, objs, results, next>>

\* One value is read.  An object complete, the numbering starts again, and the
\* call goes on or returns the index of the next object.
ReadValue ==
  LET tag == Take(reader, 1)
      got == ReadBody(tag, tag.got[1], objs)
      r == Closed(got.r)
      complete == r.open = <<>>
      fresh == [r EXCEPT !.cache = <<>>, !.key = 0, !.result = <<>>, !.count = @ + 1]
  IN /\ pc = "read" /\ nobj' = nobj
     /\ IF tag.error \/ r.error THEN pc' = "failed" /\ UNCHANGED <<reader, objs, results, next>>
        ELSE /\ objs' = got.os
             /\ reader' = IF complete THEN fresh ELSE r
             /\ results' = IF complete THEN results \o r.result ELSE results
             /\ IF complete /\ ~More(fresh, fresh.count)
                THEN pc' = "call" /\ next' = r.gindex + 1
                ELSE UNCHANGED <<pc, next>>
     /\ UNCHANGED <<graph, writer, sent, buffer>>

Init ==
  /\ graph \in Graphs
  /\ pc = "write" /\ writer = NewWriter(graph.roots[1]) /\ sent = <<>>
  /\ buffer = [table |-> FALSE, parts |-> <<>>]
  /\ reader = <<>> /\ objs = <<>> /\ results = <<>> /\ nobj = 0 /\ next = 1

Next == Write \/ EndWrite \/ Send \/ (\E n \in {0, 1} : Deserialize(n)) \/ ReadValue

Spec == Init /\ [][Next]_vars

-----------------------------------------------------------------------------
(* Properties *)

Image(f, v) == IF v.k = "object" THEN Object(f[v.o]) ELSE v

\* f tells the object made for each object of the graph, 0 if none was.
Copies(f, v, w) ==
  /\ Image(f, v) = w
  /\ \A o \in DOMAIN f : f[o] # 0 =>
       LET a == graph.heap[o]
           b == objs[f[o]]
       IN /\ a.kind = b.kind
          /\ a.kind = "function" => a.code = b.code
          /\ a.kind = "table" =>
               {<<Image(f, e[1]), Image(f, e[2])>> : e \in ToSet(a.entries)} = ToSet(b.entries)
  /\ \A o, p \in DOMAIN f : f[o] = f[p] /\ f[o] # 0 => o = p

\* What is read is a copy of what was written: the same values, shared and cyclic
\* objects once, one copy per call of serialize; and when nothing is left to read,
\* every value was.
RoundTrip ==
  /\ pc \in {"call", "done"} =>
       \A i \in 1 .. Len(results) :
         \E f \in [DOMAIN graph.heap -> 0 .. Len(objs)] : Copies(f, graph.roots[i], results[i])
  /\ pc = "done" => Len(results) = Len(graph.roots)

\* Wherever the bytes are cut, what is ahead of the reader, in its frame and in the
\* parts not taken yet, is the bytes from its global index on; it fails on none.
PlaceKept ==
  /\ pc = "read" =>
       SubSeq(reader.frame, reader.index + 1, Len(reader.frame))
         \o FlattenSeq(SubSeq(buffer.parts, reader.part + 1, Len(buffer.parts)))
       = SubSeq(Bytes, reader.gindex + 1, Len(Bytes))
  /\ pc = "failed" => buffer.parts = <<>>
=============================================================================
