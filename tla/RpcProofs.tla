------------------------------ MODULE RpcProofs ------------------------------
(***************************************************************************)
(* Remote calls, for any tasks, modulus, connection and number of calls:   *)
(* while no sequence number is given again before its call is done with,   *)
(* and until a frame is torn, the pieces on the way to a peer are whole    *)
(* frames, which its reader reads in step, and a call returns its own      *)
(* answer or none.                                                         *)
(***************************************************************************)
EXTENDS Rpc, SequenceTheorems, TLAPS

Numbers == 0 .. SeqMod - 1
Piece == [part : {"header", "payload"}, type : {0, 1}, seq : Numbers, id : Nat]

Types ==
  /\ use \in Instances /\ asked \in Nat /\ seqnum \in [Peers -> Numbers]
  /\ chan \in [Peers -> Seq(Piece)] /\ \A x \in Peers : Len(chan[x]) <= use.capacity
  /\ loop \in [Peers -> [pc : {"header", "payload", "ended"}, head : Piece \cup {<<>>}]]
  /\ \A x \in Peers : loop[x].pc = "payload" => loop[x].head \in Piece
  /\ call \in [Callers -> [pc : {"idle", "sending", "waiting", "woken"}, seq : Numbers, id : Nat,
                           left : Seq(Piece), got : [seq : Int, id : Nat]]]
  /\ jobs \subseteq [peer : Peers, seq : Numbers, id : Nat, left : Seq(Piece)]
  /\ returned \in Seq(Nat) /\ Len(returned) = asked

\* Number s stands for call n of peer x: its task, its execution, or a piece of
\* its frame or of the answer's is there.
Called(x, s, n) ==
  \E c \in Callers : Side(c) = x /\ call[c].pc # "idle" /\ call[c].seq = s /\ call[c].id = n
Executed(x, s, n) == \E j \in jobs : j.peer = x /\ j.seq = s /\ j.id = n
Bears(f, type, s, n) == f.type = type /\ f.seq = s /\ f.id = n
AllBear(l, type, s, n) == \A i \in DOMAIN l : Bears(l[i], type, s, n)
Carried(x, type, s, n) == \E i \in DOMAIN chan[x] : Bears(chan[x][i], type, s, n)
Held(x, type, s, n) == loop[x].pc = "payload" /\ Bears(loop[x].head, type, s, n)
InUse(x, s, n) ==
  \/ Called(x, s, n) \/ Executed(Other(x), s, n)
  \/ Carried(Other(x), 0, s, n) \/ Carried(x, 1, s, n)
  \/ Held(Other(x), 0, s, n) \/ Held(x, 1, s, n)

\* A number stands for one call.
OneCall ==
  \A x \in Peers, s \in Numbers, m, n \in Nat : InUse(x, s, m) /\ InUse(x, s, n) => m = n

\* What is left to send is of the frame of the call, or of the answer.
LeftIsOwn ==
  /\ \A c \in Callers : AllBear(call[c].left, 0, call[c].seq, call[c].id)
  /\ \A j \in jobs : AllBear(j.left, 1, j.seq, j.id)

\* What a task was woken with is its answer, or bears another number.
GotIsOwn ==
  \A c \in Callers : call[c].pc = "woken" /\ call[c].got.seq = call[c].seq
                       => call[c].got.id = call[c].id

\* The hypothesis: a number is not given again while it is in use.
FreeNumbers == "seqnum in use" \notin Corners

\* No call has returned another's answer.
Own == \A i \in 1 .. asked : returned[i] \in {0, i}

Base == Types /\ OneCall /\ LeftIsOwn /\ GotIsOwn /\ Own

-----------------------------------------------------------------------------
(* Frames *)

\* No frame is torn.
Whole == "torn frame" \notin harm

\* Piece b may come next after piece a: a payload after its header, else a header.
Follows(a, b) == IF a.part = "header" THEN b = [a EXCEPT !.part = "payload"] ELSE b.part = "header"
Chained(a, s) == \A i \in 1 .. Len(s) : Follows(IF i = 1 THEN a ELSE s[i - 1], s[i])
Tip(a, s) == IF s = <<>> THEN a ELSE s[Len(s)]

\* The last piece the reader has, if it waits for the next one of its frame.
Hold(x) == IF loop[x].pc = "payload" THEN loop[x].head ELSE Scrap
End(x) == Tip(Hold(x), chan[x])

\* What a task has left to send ends the frame that ends the pieces on their way;
\* some task has the payload left of a header that is there alone.
Ends(a, l) == Len(l) \in 1 .. 2 /\ Chained(a, l) /\ Tip(a, l).part # "header"
SendsWell(x) ==
  /\ \A l \in Unsent(x) : Ends(End(Other(x)), l)
  /\ End(Other(x)).part = "header" => Unsent(x) # {}

\* The reader is in step: it has a header if it waits for a payload, and is sent frames.
InStep(x) ==
  /\ loop[x].pc = "payload" => loop[x].head.part = "header"
  /\ Chained(Hold(x), chan[x])

\* One task at most waits for the socket.
OneSender(x) ==
  LET calling(c) == Side(c) = x /\ call[c].pc = "sending"
      answering(j) == j.peer = x /\ j.left # Run
  IN /\ \A c, d \in Callers : calling(c) /\ calling(d) => c = d
     /\ \A j, k \in jobs : answering(j) /\ answering(k) => j = k
     /\ \A c \in Callers, j \in jobs : ~(calling(c) /\ answering(j))

Framed ==
  /\ closed \subseteq Peers
  /\ \A x \in Peers : InStep(x) /\ OneSender(x) /\ (closed = {} => SendsWell(x))

Sound == Base /\ Framed

-----------------------------------------------------------------------------
(* Sequences of pieces *)

\* The other peer is another one, and every caller is on a side.
LEMMA PeersDiffer ==
  /\ \A x \in Peers : Other(x) \in Peers /\ Other(x) # x /\ Other(Other(x)) = x
  /\ \A c \in Callers : Side(c) \in Peers
BY RpcConstants DEF Peers, Other, Side

\* A part of a sequence holds elements of the sequence only.
LEMMA Part ==
  ASSUME NEW S, NEW s \in Seq(S), NEW m \in Nat \ {0}, NEW n \in Int, n <= Len(s)
  PROVE  /\ SubSeq(s, m, n) \in Seq(S)
         /\ Len(SubSeq(s, m, n)) = IF m <= n THEN n - m + 1 ELSE 0
         /\ \A i \in DOMAIN SubSeq(s, m, n) : \E k \in DOMAIN s : SubSeq(s, m, n)[i] = s[k]
<1>1. \A i \in m .. n : i \in DOMAIN s /\ s[i] \in S  BY LenProperties
<1>2. /\ SubSeq(s, m, n) \in Seq(S)
      /\ Len(SubSeq(s, m, n)) = IF m <= n THEN n - m + 1 ELSE 0
      /\ \A i \in 1 .. n - m + 1 : SubSeq(s, m, n)[i] = s[m + i - 1]
  BY <1>1, SubSeqProperties
<1>3. ASSUME NEW i \in DOMAIN SubSeq(s, m, n)
      PROVE  \E k \in DOMAIN s : SubSeq(s, m, n)[i] = s[k]
  <2>1. i \in 1 .. Len(SubSeq(s, m, n))  BY <1>2, LenProperties
  <2>2. i \in 1 .. n - m + 1  BY <1>2, <2>1
  <2>3. m + i - 1 \in m .. n  BY <2>2
  <2> QED  BY <1>1, <1>2, <2>2, <2>3
<1> QED  BY <1>2, <1>3

Within(u, s, t) ==
  \A i \in DOMAIN u : (\E k \in DOMAIN s : u[i] = s[k]) \/ (\E k \in DOMAIN t : u[i] = t[k])

\* A concatenation holds elements of its two parts only.
LEMMA Joined ==
  ASSUME NEW S, NEW s \in Seq(S), NEW t \in Seq(S)
  PROVE  /\ s \o t \in Seq(S) /\ Len(s \o t) = Len(s) + Len(t)
         /\ Within(s \o t, s, t)
<1>1. /\ s \o t \in Seq(S) /\ Len(s \o t) = Len(s) + Len(t)
      /\ \A i \in 1 .. Len(s) + Len(t) : (s \o t)[i] = IF i <= Len(s) THEN s[i] ELSE t[i - Len(s)]
  BY ConcatProperties
<1>2. /\ DOMAIN s = 1 .. Len(s) /\ DOMAIN t = 1 .. Len(t)
      /\ DOMAIN (s \o t) = 1 .. Len(s) + Len(t)
      /\ Len(s) \in Nat /\ Len(t) \in Nat
  BY <1>1, LenProperties
<1>3. ASSUME NEW i \in DOMAIN (s \o t)
      PROVE  \/ \E k \in DOMAIN s : (s \o t)[i] = s[k]
             \/ \E k \in DOMAIN t : (s \o t)[i] = t[k]
  <2>1. CASE i <= Len(s)  BY <1>1, <1>2, <2>1
  <2>2. CASE ~(i <= Len(s))
    <3>1. i - Len(s) \in DOMAIN t  BY <1>2, <2>2
    <3> QED  BY <1>1, <1>2, <2>2, <3>1
  <2> QED  BY <2>1, <2>2
<1> QED  BY <1>1, <1>3 DEF Within

\* The head and the tail of a sequence that is not empty.
LEMMA Rest ==
  ASSUME NEW S, NEW s \in Seq(S), s # <<>>
  PROVE  /\ Head(s) \in S /\ 1 \in DOMAIN s /\ Head(s) = s[1]
         /\ Tail(s) \in Seq(S) /\ Len(Tail(s)) < Len(s)
         /\ \A i \in DOMAIN Tail(s) : \E k \in DOMAIN s : Tail(s)[i] = s[k]
<1>1. Len(s) \in Nat \ {0} /\ DOMAIN s = 1 .. Len(s)  BY LenProperties, EmptySeq
<1>2. Tail(s) = SubSeq(s, 2, Len(s))  BY TailIsSubSeq
<1>3. Head(s) \in S /\ Tail(s) \in Seq(S) /\ Len(Tail(s)) = Len(s) - 1  BY HeadTailProperties
<1>4. \A i \in DOMAIN Tail(s) : \E k \in DOMAIN s : Tail(s)[i] = s[k]  BY <1>1, <1>2, Part
<1>5. Head(s) = s[1]  OBVIOUS
<1> QED  BY <1>1, <1>3, <1>4, <1>5

\* A frame: two pieces that bear the number and the call.
LEMMA FramePieces ==
  ASSUME NEW type \in {0, 1}, NEW s \in Numbers, NEW n \in Nat
  PROVE  /\ Frame(type, s, n) \in Seq(Piece) /\ Len(Frame(type, s, n)) = 2
         /\ AllBear(Frame(type, s, n), type, s, n)
<1> DEFINE h == [part |-> "header", type |-> type, seq |-> s, id |-> n]
           l == [part |-> "payload", type |-> type, seq |-> s, id |-> n]
<1>1. h \in Piece /\ l \in Piece  BY DEF Piece
<1>2. Frame(type, s, n) = <<h, l>>  BY DEF Frame
<1>3. Bears(h, type, s, n) /\ Bears(l, type, s, n)  BY DEF Bears
<1> HIDE DEF h, l
<1>4. /\ <<h, l>> \in Seq(Piece) /\ Len(<<h, l>>) = 2
      /\ \A i \in DOMAIN <<h, l>> : <<h, l>>[i] \in {h, l}
  BY <1>1
<1> QED  BY <1>2, <1>3, <1>4 DEF AllBear

-----------------------------------------------------------------------------
(* Chains of pieces *)

\* A chain goes on with one that starts where it ends.
LEMMA ChainJoin ==
  ASSUME NEW a, NEW s \in Seq(Piece), NEW u \in Seq(Piece), Chained(a, s), Chained(Tip(a, s), u)
  PROVE  Chained(a, s \o u) /\ Tip(a, s \o u) = Tip(Tip(a, s), u)
<1>1. Len(s) \in Nat /\ Len(u) \in Nat /\ (s = <<>> <=> Len(s) = 0) /\ (u = <<>> <=> Len(u) = 0)
  BY LenProperties, EmptySeq
<1>2. /\ s \o u \in Seq(Piece) /\ Len(s \o u) = Len(s) + Len(u)
      /\ \A i \in 1 .. Len(s) + Len(u) : (s \o u)[i] = IF i <= Len(s) THEN s[i] ELSE u[i - Len(s)]
  BY ConcatProperties
<1>3. s \o u = <<>> <=> Len(s) + Len(u) = 0  BY <1>1, <1>2, EmptySeq
<1> DEFINE w == s \o u
<1> HIDE DEF w
<1>4. ASSUME NEW i \in 1 .. Len(w)
      PROVE  Follows(IF i = 1 THEN a ELSE w[i - 1], w[i])
  <2>1. i \in 1 .. Len(s) + Len(u)  BY <1>2 DEF w
  <2>2. CASE i <= Len(s)
    <3>1. i \in 1 .. Len(s) /\ w[i] = s[i]  BY <1>1, <1>2, <2>1, <2>2 DEF w
    <3>2. i # 1 => w[i - 1] = s[i - 1]  BY <1>1, <1>2, <2>1, <2>2 DEF w
    <3>3. Follows(IF i = 1 THEN a ELSE s[i - 1], s[i])  BY <3>1 DEF Chained
    <3> QED  BY <3>1, <3>2, <3>3
  <2>3. CASE i = Len(s) + 1
    <3>1. w[i] = u[1] /\ 1 \in 1 .. Len(u)  BY <1>1, <1>2, <2>1, <2>3 DEF w
    <3>2. i # 1 => w[i - 1] = s[Len(s)] /\ s # <<>>  BY <1>1, <1>2, <2>1, <2>3 DEF w
    <3>3. i = 1 => s = <<>>  BY <1>1, <2>3
    <3>4. Follows(Tip(a, s), u[1])  BY <3>1 DEF Chained
    <3>5. Tip(a, s) = IF i = 1 THEN a ELSE w[i - 1]  BY <3>2, <3>3 DEF Tip
    <3> QED  BY <3>1, <3>4, <3>5
  <2>4. CASE i > Len(s) + 1
    <3> DEFINE m == i - Len(s)
    <3>1. m \in 1 .. Len(u) /\ m # 1 /\ w[i] = u[m] /\ w[i - 1] = u[m - 1] /\ i # 1
      BY <1>1, <1>2, <2>1, <2>4 DEF w
    <3> HIDE DEF m
    <3>2. Follows(u[m - 1], u[m])  BY <3>1 DEF Chained
    <3> QED  BY <3>1, <3>2
  <2> QED  BY <1>1, <2>1, <2>2, <2>3, <2>4
<1>5. Tip(a, w) = Tip(Tip(a, s), u)
  <2>1. CASE u = <<>>
    <3>1. w = s  BY <2>1, ConcatEmptySeq DEF w
    <3> QED  BY <2>1, <3>1 DEF Tip
  <2>2. CASE u # <<>>
    <3>1. w # <<>> /\ w[Len(w)] = u[Len(u)]  BY <1>1, <1>2, <1>3, <2>2 DEF w
    <3> QED  BY <2>2, <3>1 DEF Tip
  <2> QED  BY <2>1, <2>2
<1>6. Chained(a, w)  BY <1>4 DEF Chained
<1> QED  BY <1>5, <1>6 DEF w

\* A chain cut in two is two chains.
LEMMA ChainSplit ==
  ASSUME NEW a, NEW l \in Seq(Piece), NEW k \in 0 .. Len(l), Chained(a, l)
  PROVE  LET u == SubSeq(l, 1, k)
             r == SubSeq(l, k + 1, Len(l))
         IN /\ u \in Seq(Piece) /\ r \in Seq(Piece) /\ Len(u) = k /\ Len(r) = Len(l) - k
            /\ Chained(a, u) /\ Chained(Tip(a, u), r) /\ Tip(Tip(a, u), r) = Tip(a, l)
<1> DEFINE u == SubSeq(l, 1, k)
           r == SubSeq(l, k + 1, Len(l))
           n == Len(l)
<1>1. n \in Nat /\ k \in Nat /\ k <= n /\ (l = <<>> <=> n = 0)  BY LenProperties, EmptySeq
<1>2. \A i \in 1 .. n : l[i] \in Piece  BY LenProperties
<1>3. /\ u \in Seq(Piece) /\ Len(u) = k /\ \A i \in 1 .. k : u[i] = l[i]
  <2>1. \A i \in 1 .. k : l[i] \in Piece  BY <1>1, <1>2
  <2>2. 1 \in Int /\ k \in Int  BY <1>1
  <2>3. /\ u \in Seq(Piece) /\ Len(u) = (IF 1 <= k THEN k - 1 + 1 ELSE 0)
        /\ \A i \in 1 .. k - 1 + 1 : u[i] = l[1 + i - 1]
    BY <2>1, <2>2, SubSeqProperties
  <2> QED  BY <1>1, <2>3
<1>4. /\ r \in Seq(Piece) /\ Len(r) = n - k /\ \A i \in 1 .. n - k : r[i] = l[k + i]
  <2>1. \A i \in k + 1 .. n : l[i] \in Piece  BY <1>1, <1>2
  <2>2. k + 1 \in Int /\ n \in Int  BY <1>1
  <2>3. /\ r \in Seq(Piece) /\ Len(r) = (IF k + 1 <= n THEN n - (k + 1) + 1 ELSE 0)
        /\ \A i \in 1 .. n - (k + 1) + 1 : r[i] = l[k + 1 + i - 1]
    BY <2>1, <2>2, SubSeqProperties
  <2> QED  BY <1>1, <2>3
<1> HIDE DEF u, r
<1>5. (u = <<>> <=> k = 0) /\ (r = <<>> <=> n = k)  BY <1>1, <1>3, <1>4, EmptySeq
<1>6. Chained(a, u)
  <2>1. ASSUME NEW i \in 1 .. k PROVE Follows(IF i = 1 THEN a ELSE u[i - 1], u[i])
    <3>1. i \in 1 .. n /\ u[i] = l[i] /\ (i # 1 => u[i - 1] = l[i - 1])  BY <1>1, <1>3
    <3>2. Follows(IF i = 1 THEN a ELSE l[i - 1], l[i])  BY <3>1 DEF Chained
    <3> QED  BY <3>1, <3>2
  <2> QED  BY <1>3, <2>1 DEF Chained
<1>7. Tip(a, u) = IF k = 0 THEN a ELSE l[k]  BY <1>1, <1>3, <1>5 DEF Tip
<1>8. Chained(Tip(a, u), r)
  <2>1. ASSUME NEW i \in 1 .. n - k PROVE Follows(IF i = 1 THEN Tip(a, u) ELSE r[i - 1], r[i])
    <3> DEFINE m == k + i
    <3>1. m \in 1 .. n /\ r[i] = l[m] /\ (m = 1 <=> i = 1 /\ k = 0)  BY <1>1, <1>4
    <3>2. (i # 1 => r[i - 1] = l[m - 1]) /\ (i = 1 /\ k # 0 => m - 1 = k)  BY <1>1, <1>4
    <3> HIDE DEF m
    <3>3. Follows(IF m = 1 THEN a ELSE l[m - 1], l[m])  BY <3>1 DEF Chained
    <3> QED  BY <1>7, <3>1, <3>2, <3>3
  <2> QED  BY <1>4, <2>1 DEF Chained
<1>9. Tip(Tip(a, u), r) = Tip(a, l)
  <2>1. CASE n = k  BY <1>1, <1>5, <1>7, <2>1 DEF Tip
  <2>2. CASE n # k
    <3>0. n - k \in 1 .. n - k /\ k + (n - k) = n /\ n # 0  BY <1>1, <2>2
    <3>1. r[n - k] = l[n] /\ n # 0
      <4>1. r[n - k] = l[k + (n - k)]  BY <1>4, <3>0
      <4> QED  BY <3>0, <4>1
    <3> QED  BY <1>1, <1>4, <1>5, <2>2, <3>1 DEF Tip
  <2> QED  BY <2>1, <2>2
<1> QED  BY <1>3, <1>4, <1>6, <1>8, <1>9 DEF u, r

\* The first piece of a chain, and the chain of the others.
LEMMA ChainRest ==
  ASSUME NEW a, NEW s \in Seq(Piece), s # <<>>, Chained(a, s)
  PROVE  /\ Head(s) \in Piece /\ Follows(a, Head(s))
         /\ Chained(Head(s), Tail(s)) /\ Tip(Head(s), Tail(s)) = Tip(a, s)
<1>1. Len(s) \in Nat \ {0} /\ 1 \in 0 .. Len(s) /\ 1 \in 1 .. Len(s)  BY LenProperties, EmptySeq
<1> DEFINE u == SubSeq(s, 1, 1)
           r == SubSeq(s, 1 + 1, Len(s))
<1>2. /\ Len(u) = 1 /\ u \in Seq(Piece)
      /\ Chained(Tip(a, u), r) /\ Tip(Tip(a, u), r) = Tip(a, s)
  BY <1>1, ChainSplit
<1>3. Head(s) = s[1] /\ s[1] \in Piece /\ Tail(s) = r
  <2>1. Tail(s) = SubSeq(s, 2, Len(s)) /\ 1 + 1 = 2  BY TailIsSubSeq
  <2> QED  BY <1>1, <2>1, Rest
<1>4. u[1] = s[1]
  <2>1. \A i \in 1 .. 1 : s[i] \in Piece  BY <1>3
  <2>2. \A i \in 1 .. 1 - 1 + 1 : u[i] = s[1 + i - 1]  BY <2>1, SubSeqProperties
  <2> QED  BY <2>2
<1> HIDE DEF u, r
<1>5. Tip(a, u) = s[1]
  <2>1. Len(u) = 1 /\ Len(<<>>) = 0  BY <1>2
  <2>2. u # <<>>  BY <2>1
  <2> QED  BY <1>4, <2>1, <2>2 DEF Tip
<1>6. Follows(a, s[1])  BY <1>1 DEF Chained
<1> QED  BY <1>2, <1>3, <1>5, <1>6

\* Between frames, it does not matter after which.
LEMMA Boundary ==
  ASSUME NEW a, NEW b, a.part # "header", b.part # "header", NEW s, Chained(a, s)
  PROVE  Chained(b, s) /\ (s # <<>> => Tip(b, s) = Tip(a, s))
BY DEF Chained, Follows, Tip

\* A frame may come between frames, and ends one.
LEMMA FrameEnds ==
  ASSUME NEW type \in {0, 1}, NEW s \in Numbers, NEW n \in Nat, NEW a, a.part # "header"
  PROVE  LET f == Frame(type, s, n) IN
         /\ f \in Seq(Piece) /\ Len(f) = 2 /\ Chained(a, f) /\ Tip(a, f).part # "header"
         /\ f # <<>>
<1> DEFINE h == [part |-> "header", type |-> type, seq |-> s, id |-> n]
           l == [part |-> "payload", type |-> type, seq |-> s, id |-> n]
           f == Frame(type, s, n)
<1>1. f \in Seq(Piece) /\ Len(f) = 2  BY FramePieces
<1>2. f = <<h, l>> /\ h.part = "header" /\ l.part = "payload" /\ l = [h EXCEPT !.part = "payload"]
  BY DEF Frame
<1> HIDE DEF h, l
<1>3. f[1] = h /\ f[2] = l /\ f # <<>>  BY <1>2
<1> HIDE DEF f
<1>4. ASSUME NEW i \in 1 .. 2 PROVE Follows(IF i = 1 THEN a ELSE f[i - 1], f[i])
  <2>1. i = 1 \/ i = 2  OBVIOUS
  <2> QED  BY <1>2, <1>3, <2>1 DEF Follows
<1>5. Tip(a, f).part = "payload"  BY <1>1, <1>2, <1>3 DEF Tip
<1> QED  BY <1>1, <1>3, <1>4, <1>5 DEF Chained, f

\* Two pieces after a header do not end a frame.
LEMMA HalfLeft ==
  ASSUME NEW a \in Piece, NEW l \in Seq(Piece), Ends(a, l), a.part = "header"
  PROVE  Len(l) = 1
<1>1. CASE Len(l) = 2
  <2>1. 1 \in 1 .. Len(l) /\ 2 \in 1 .. Len(l)  BY <1>1
  <2>2. Follows(a, l[1]) /\ Follows(l[1], l[2])
    <3>1. Follows(IF 2 = 1 THEN a ELSE l[2 - 1], l[2])  BY <2>1 DEF Ends, Chained
    <3> QED  BY <2>1, <3>1 DEF Ends, Chained
  <2>3. l # <<>> /\ Tip(a, l) = l[2]  BY <1>1, EmptySeq DEF Tip
  <2>4. l[1] \in Piece  BY <2>1, LenProperties
  <2>5. l[1] = [a EXCEPT !.part = "payload"]  BY <2>2 DEF Follows
  <2>6. l[1].part # "header"
    <3>1. CASE l[1].part = "header"
      <4>1. l[1].part = "payload"  BY <2>5 DEF Piece
      <4> QED  BY <3>1, <4>1
    <3> QED  BY <3>1
  <2>7. l[2].part = "header"  BY <2>2, <2>6 DEF Follows
  <2> QED  BY <2>3, <2>7 DEF Ends
<1>2. Len(l) \in 1 .. 2  BY DEF Ends
<1> QED  BY <1>1, <1>2

-----------------------------------------------------------------------------
(* skt:send *)

\* The socket takes no more than it is given, nor than the connection holds.
LEMMA TakenBounds ==
  ASSUME Types, NEW x \in Peers, NEW n \in Nat
  PROVE  /\ Taken(x, n) \in 0 .. n
         /\ Other(x) \notin closed => Len(chan[Other(x)]) + Taken(x, n) <= use.capacity
<1>1. Other(x) \in Peers  BY PeersDiffer
<1>2. Len(chan[Other(x)]) \in Nat /\ Len(chan[Other(x)]) <= use.capacity
  BY <1>1, LenProperties DEF Types
<1>3. use.capacity \in Nat  BY RpcConstants DEF Types
<1> DEFINE room == use.capacity - Len(chan[Other(x)])
<1>4. room \in Nat /\ ~(room < 0) /\ n \in Int /\ room \in Int  BY <1>2, <1>3
<1>5. Min({n, room}) \in {n, room} /\ Min({n, room}) <= n /\ Min({n, room}) <= room
  <2>1. CASE n <= room
    <3>1. \E k \in {n, room} : \A l \in {n, room} : k <= l  BY <1>4, <2>1
    <3> QED  BY <3>1 DEF Min
  <2>2. CASE room <= n
    <3>1. \E k \in {n, room} : \A l \in {n, room} : k <= l  BY <1>4, <2>2
    <3> QED  BY <3>1 DEF Min
  <2> QED  BY <1>4, <2>1, <2>2
<1>6. CASE Other(x) \in closed  BY <1>6 DEF Taken
<1>7. CASE Other(x) \notin closed
  <2>1. Taken(x, n) = Min({n, room})  BY <1>4, <1>7 DEF Taken
  <2>2. Taken(x, n) \in 0 .. n /\ Taken(x, n) <= room  BY <1>4, <1>5, <2>1
  <2> QED  BY <1>2, <1>3, <2>2
<1> QED  BY <1>6, <1>7

\* What the socket takes of s, pieces of one call, goes to the peer's channel,
\* which holds nothing else new.
LEMMA PutTaken ==
  ASSUME Types, NEW x \in Peers, NEW l \in Seq(Piece), NEW type, NEW s, NEW n,
         AllBear(l, type, s, n),
         Put(x, SubSeq(l, 1, Taken(x, Len(l))))
  PROVE  /\ chan' \in [Peers -> Seq(Piece)] /\ \A z \in Peers : Len(chan'[z]) <= use.capacity
         /\ \A z \in Peers : \A ty, sq, id :
              Carried(z, ty, sq, id)' =>
                \/ Carried(z, ty, sq, id)
                \/ z = Other(x) /\ ty = type /\ sq = s /\ id = n
<1> DEFINE y == Other(x)
           k == Taken(x, Len(l))
           t == SubSeq(l, 1, k)
<1>1. y \in Peers /\ chan \in [Peers -> Seq(Piece)] /\ \A z \in Peers : Len(chan[z]) <= use.capacity
  BY PeersDiffer DEF Types
<1>2. Len(l) \in Nat  BY LenProperties
<1>3. k \in 0 .. Len(l) /\ (y \notin closed => Len(chan[y]) + k <= use.capacity)
  BY <1>2, TakenBounds
<1>4. chan' = IF y \in closed THEN chan ELSE [chan EXCEPT ![y] = chan[y] \o t]  BY DEF Put
<1> HIDE DEF y, k
<1>5. /\ t \in Seq(Piece) /\ Len(t) = k
      /\ \A i \in DOMAIN t : \E m \in DOMAIN l : t[i] = l[m]
  <2>1. 1 \in Nat \ {0} /\ k \in Int /\ k <= Len(l)  BY <1>2, <1>3
  <2>2. /\ t \in Seq(Piece) /\ Len(t) = IF 1 <= k THEN k - 1 + 1 ELSE 0
        /\ \A i \in DOMAIN t : \E m \in DOMAIN l : t[i] = l[m]
    BY <2>1, Part
  <2> QED  BY <1>3, <2>2
<1>6. \A i \in DOMAIN t : Bears(t[i], type, s, n)  BY <1>5 DEF AllBear
<1> HIDE DEF t
<1>7. CASE y \in closed
  <2>1. chan' = chan  BY <1>4, <1>7
  <2> QED  BY <1>1, <2>1 DEF Carried
<1>8. CASE y \notin closed
  <2>1. chan' = [chan EXCEPT ![y] = chan[y] \o t]  BY <1>4, <1>8
  <2>2. chan[y] \in Seq(Piece)  BY <1>1
  <2>3. /\ chan[y] \o t \in Seq(Piece) /\ Len(chan[y] \o t) = Len(chan[y]) + k
        /\ Within(chan[y] \o t, chan[y], t)
    BY <1>5, <2>2, Joined
  <2>4. chan'[y] = chan[y] \o t /\ \A z \in Peers : z # y => chan'[z] = chan[z]
    BY <1>1, <2>1
  <2>5. chan' \in [Peers -> Seq(Piece)]  BY <1>1, <2>1, <2>3
  <2>6. \A z \in Peers : Len(chan'[z]) <= use.capacity  BY <1>1, <1>3, <1>8, <2>3, <2>4
  <2>7. ASSUME NEW z \in Peers, NEW ty, NEW sq, NEW id, Carried(z, ty, sq, id)'
        PROVE  Carried(z, ty, sq, id) \/ (z = y /\ ty = type /\ sq = s /\ id = n)
    <3>1. PICK i \in DOMAIN chan'[z] : Bears(chan'[z][i], ty, sq, id)  BY <2>7 DEF Carried
    <3>2. CASE z # y  BY <2>4, <3>1, <3>2 DEF Carried
    <3>3. CASE z = y
      <4>1. CASE \E m \in DOMAIN chan[y] : (chan[y] \o t)[i] = chan[y][m]
        BY <2>4, <3>1, <3>3, <4>1 DEF Carried
      <4>2. CASE \E m \in DOMAIN t : (chan[y] \o t)[i] = t[m]
        BY <1>6, <2>4, <3>1, <3>3, <4>2 DEF Bears
      <4> QED  BY <2>3, <2>4, <3>1, <3>3, <4>1, <4>2 DEF Within
    <3> QED  BY <3>2, <3>3
  <2> QED  BY <2>5, <2>6, <2>7 DEF y
<1> QED  BY <1>7, <1>8

\* What a frame leaves to send is of the frame.
LEMMA LeftOf ==
  ASSUME NEW l \in Seq(Piece), NEW type, NEW s, NEW n, NEW k \in Nat,
         AllBear(l, type, s, n)
  PROVE  /\ SubSeq(l, k + 1, Len(l)) \in Seq(Piece)
         /\ AllBear(SubSeq(l, k + 1, Len(l)), type, s, n)
<1> DEFINE m == k + 1
           h == Len(l)
           r == SubSeq(l, m, h)
<1>1. m \in Nat \ {0}  OBVIOUS
<1>2. h \in Int /\ h <= Len(l)  BY LenProperties
<1> HIDE DEF m, h
<1>3. /\ r \in Seq(Piece) /\ Len(r) = IF m <= h THEN h - m + 1 ELSE 0
      /\ \A i \in DOMAIN r : \E j \in DOMAIN l : r[i] = l[j]
  BY <1>1, <1>2, Part, SMTT(40)
<1> HIDE DEF r
<1>4. \A j \in DOMAIN l : Bears(l[j], type, s, n)  BY DEF AllBear
<1>5. \A i \in DOMAIN r : Bears(r[i], type, s, n)  BY <1>3, <1>4
<1> QED  BY <1>3, <1>5 DEF AllBear, r, m, h

\* The two sends of a frame that tear none put the pieces that the socket takes;
\* they are not put inside another frame, nor the header without the payload.
LEMMA BeginWhole ==
  ASSUME Whole', NEW x, NEW f, NEW n, Begin(x, f, n)
  PROVE  /\ Put(x, SubSeq(f, 1, n))
         /\ closed = {} => ~(n > 0 /\ Halfway(x)) /\ ~(n = 1 /\ Refused(x, n))
<1> DEFINE may == (n > 0 /\ Sending(x)) \/ Refused(x, n)
           must == (n > 0 /\ Halfway(x)) \/ (n = 1 /\ Refused(x, n))
           sent == SubSeq(f, 1, n)
<1>1. PICK torn \in Tears(may, must) :
        /\ Put(x, IF ~torn THEN sent ELSE IF Sending(x) THEN <<Scrap>> \o sent ELSE Append(sent, Scrap))
        /\ harm' = harm \cup (IF torn THEN {"torn frame"} ELSE {})
                       \cup (IF Refused(x, n) /\ Head(f).type = 1 THEN {"lost answer"} ELSE {})
  BY DEF Begin
<1>2. ~torn
  <2>1. CASE torn
    <3>1. "torn frame" \in harm'  BY <1>1, <2>1
    <3> QED  BY <3>1 DEF Whole
  <2> QED  BY <2>1
<1>3. Put(x, sent)  BY <1>1, <1>2
<1>4. Halfway(x) => Sending(x)  BY DEF Halfway, Sending
<1> HIDE DEF sent
<1>5. closed = {} => ~(may /\ must)
  <2>1. CASE closed = {} /\ may /\ must
    <3>1. Tears(may, must) = {TRUE}  BY <2>1 DEF Tears
    <3> QED  BY <1>1, <1>2, <3>1
  <2> QED  BY <2>1
<1>6. must => may  BY <1>4
<1> QED  BY <1>3, <1>5, <1>6 DEF sent

\* A kill that tears no frame takes nothing from the connection, and finds no
\* caller between the header and the payload of its frame.
LEMMA KillWhole ==
  ASSUME Types, Whole', NEW c \in Callers, Kill(c)
  PROVE  /\ chan' = chan
         /\ closed = {} /\ call[c].pc = "sending" => Len(call[c].left) # 1
<1> DEFINE x == Side(c)
           y == Other(x)
           must == Len(call[c].left) = 1
           may == call[c].pc = "sending"
<1>1. PICK torn \in Tears(may, must) :
        /\ Put(x, IF torn THEN <<Scrap>> ELSE <<>>)
        /\ harm' = IF torn THEN harm \cup {"torn frame"} ELSE harm
  BY DEF Kill
<1>2. ~torn
  <2>1. CASE torn
    <3>1. "torn frame" \in harm'  BY <1>1, <2>1
    <3> QED  BY <3>1 DEF Whole
  <2> QED  BY <2>1
<1>3. y \in Peers /\ chan \in [Peers -> Seq(Piece)]  BY PeersDiffer DEF Types
<1>4. chan[y] \o <<>> = chan[y]
  <2>1. chan[y] \in Seq(Piece)  BY <1>3
  <2> QED  BY <2>1, ConcatEmptySeq
<1>5. chan' = IF y \in closed THEN chan ELSE [chan EXCEPT ![y] = chan[y] \o <<>>]
  BY <1>1, <1>2 DEF Put
<1> HIDE DEF y
<1>6. chan' = chan  BY <1>3, <1>4, <1>5
<1>7. closed = {} => ~(may /\ must)
  <2>1. CASE closed = {} /\ may /\ must
    <3>1. Tears(may, must) = {TRUE}  BY <2>1 DEF Tears
    <3> QED  BY <1>1, <1>2, <3>1
  <2> QED  BY <2>1
<1> QED  BY <1>6, <1>7

\* A reader that is in step takes a header for a header, a payload for its payload.
LEMMA NextPiece ==
  ASSUME Types, NEW x \in Peers, InStep(x), chan[x] # <<>>
  PROVE  /\ loop[x].pc = "header" => Head(chan[x]).part = "header"
         /\ loop[x].pc = "payload" => Head(chan[x]) = [loop[x].head EXCEPT !.part = "payload"]
<1>1. chan[x] \in Seq(Piece) /\ Chained(Hold(x), chan[x])  BY DEF Types, InStep
<1>2. Follows(Hold(x), Head(chan[x]))  BY <1>1, ChainRest
<1> QED  BY <1>2 DEF Follows, Hold, InStep, Scrap

-----------------------------------------------------------------------------
(* The steps that give no number keep those in use. *)

Call0 == [pc : {"idle", "sending", "waiting", "woken"}, seq : Numbers, id : Nat,
          left : Seq(Piece), got : [seq : Int, id : Nat]]

\* A task without a call has nothing left to send.
LEMMA IdleTyped ==
  /\ Idle \in Call0 /\ Idle.pc = "idle"
  /\ \A type, s, n : AllBear(Idle.left, type, s, n)
<1>1. 0 \in Numbers  BY RpcConstants DEF Numbers
<1>2. <<>> \in Seq(Piece)  BY EmptySeq
<1>3. [seq |-> 0, id |-> 0] \in [seq : Int, id : Nat]  OBVIOUS
<1>4. Idle.pc = "idle" /\ Idle.left = <<>>  BY DEF Idle
<1>5. Idle \in Call0  BY <1>1, <1>2, <1>3 DEF Idle, Call0
<1>6. \A i \in DOMAIN (<<>>) : FALSE  OBVIOUS
<1> QED  BY <1>4, <1>5, <1>6 DEF AllBear

\* A step after which no new number is in use keeps one call per number.
LEMMA NoneGiven ==
  ASSUME OneCall,
         \A x \in Peers, s \in Numbers, n \in Nat : InUse(x, s, n)' => InUse(x, s, n)
  PROVE  OneCall'
BY DEF OneCall

\* A caller sends the rest of its frame, or finds the connection closed.
LEMMA ContinueCallSound ==
  ASSUME Base, NEW c \in Callers, ContinueCall(c)
  PROVE  Base'
<1> DEFINE x == Side(c)
           l == call[c].left
           k == Taken(x, Len(l))
           r == SubSeq(l, k + 1, Len(l))
<1>1. /\ x \in Peers /\ Other(x) \in Peers /\ Other(x) # x /\ Other(Other(x)) = x
  BY PeersDiffer
<1>2. l \in Seq(Piece) /\ Len(l) \in Nat  BY LenProperties DEF Base, Types
<1>3. /\ use' = use /\ asked' = asked /\ returned' = returned /\ seqnum' = seqnum
      /\ loop' = loop /\ jobs' = jobs /\ call[c].pc = "sending"
  BY DEF ContinueCall
<1>4. AllBear(l, 0, call[c].seq, call[c].id)  BY DEF Base, LeftIsOwn
<1>41. chan' = chan \/ Put(x, SubSeq(l, 1, k))  BY DEF ContinueCall
<1>42. r = SubSeq(l, k + 1, Len(l))  OBVIOUS
<1>43. k = Taken(x, Len(l))  OBVIOUS
<1> HIDE DEF x, l, k, r
<1>5. /\ chan' \in [Peers -> Seq(Piece)] /\ \A z \in Peers : Len(chan'[z]) <= use.capacity
      /\ \A z \in Peers : \A ty, sq, id :
           Carried(z, ty, sq, id)' =>
             \/ Carried(z, ty, sq, id)
             \/ z = Other(x) /\ ty = 0 /\ sq = call[c].seq /\ id = call[c].id
  <2>1. CASE chan' = chan  BY <2>1, <1>1 DEF Base, Types, Carried
  <2>2. CASE Put(x, SubSeq(l, 1, Taken(x, Len(l))))
    BY <2>2, <1>1, <1>2, <1>4, PutTaken DEF Base
  <2> QED  BY <1>41, <1>43, <2>1, <2>2
<1>6. k \in Nat
  <2>1. k \in 0 .. Len(l)  BY <1>43, <1>1, <1>2, TakenBounds DEF Base
  <2> QED  BY <1>2, <2>1
<1>7. /\ r \in Seq(Piece)
      /\ AllBear(r, 0, call[c].seq, call[c].id)
  <2>1. /\ SubSeq(l, k + 1, Len(l)) \in Seq(Piece)
        /\ AllBear(SubSeq(l, k + 1, Len(l)), 0, call[c].seq, call[c].id)
    BY <1>2, <1>4, <1>6, LeftOf
  <2> QED  BY <1>42, <2>1
<1>8. \/ call' = [call EXCEPT ![c] = Idle]
      \/ call' = [call EXCEPT ![c].left = r, ![c].pc = IF k = Len(l) THEN "waiting" ELSE "sending"]
  BY <1>3 DEF ContinueCall, x, l, k, r
<1>9. call \in [Callers -> Call0]  BY DEF Base, Types, Call0
<1>10. /\ call' \in [Callers -> Call0]
       /\ \A d \in Callers : d # c => call'[d] = call[d]
       /\ call'[c].pc # "woken"
       /\ call'[c].pc # "idle" => call'[c].seq = call[c].seq /\ call'[c].id = call[c].id
       /\ AllBear(call'[c].left, 0, call'[c].seq, call'[c].id)
  <2>1. CASE call' = [call EXCEPT ![c] = Idle]
    <3>1. call'[c] = Idle /\ \A d \in Callers : d # c => call'[d] = call[d]  BY <1>9, <2>1
    <3>2. Idle \in Call0 /\ Idle.pc = "idle" /\ AllBear(Idle.left, 0, Idle.seq, Idle.id)
      BY IdleTyped
    <3>3. call' \in [Callers -> Call0]  BY <1>9, <2>1, <3>2
    <3> QED  BY <3>1, <3>2, <3>3
  <2>2. CASE call' = [call EXCEPT ![c].left = r,
                                  ![c].pc = IF k = Len(l) THEN "waiting" ELSE "sending"]
    <3>1. call'[c] = [call[c] EXCEPT !.left = r, !.pc = IF k = Len(l) THEN "waiting" ELSE "sending"]
      BY <1>9, <2>2
    <3>2. call[c] \in Call0  BY <1>9
    <3>3. call'[c] \in Call0 /\ call'[c].left = r /\ call'[c].seq = call[c].seq
          /\ call'[c].id = call[c].id /\ call'[c].pc # "woken"
      BY <1>7, <3>1, <3>2 DEF Call0
    <3>4. call' \in [Callers -> Call0] /\ \A d \in Callers : d # c => call'[d] = call[d]
      BY <1>9, <2>2, <3>1, <3>3
    <3> QED  BY <1>7, <3>3, <3>4
  <2> QED  BY <1>8, <2>1, <2>2
<1>11. Types'  BY <1>3, <1>5, <1>10 DEF Base, Types, Call0
<1>12. LeftIsOwn'
  <2>1. \A d \in Callers : AllBear(call'[d].left, 0, call'[d].seq, call'[d].id)
    BY <1>10 DEF Base, LeftIsOwn
  <2> QED  BY <1>3, <2>1 DEF Base, LeftIsOwn, AllBear, Bears
<1>13. GotIsOwn'  BY <1>10 DEF Base, GotIsOwn
<1>14. Own'  BY <1>3 DEF Base, Own
<1>15. ASSUME NEW z \in Peers, NEW s \in Numbers, NEW n \in Nat, InUse(z, s, n)'
       PROVE  InUse(z, s, n)
  <2>1. \A y \in Peers : Called(y, s, n)' => Called(y, s, n)
    BY <1>3, <1>10 DEF Called
  <2>2. \A y \in Peers : \A type : Held(y, type, s, n)' => Held(y, type, s, n)  BY <1>3 DEF Held
  <2>3. \A y \in Peers : Executed(y, s, n)' => Executed(y, s, n)  BY <1>3 DEF Executed
  <2>4. Called(x, call[c].seq, call[c].id)  BY <1>3 DEF Called, x
  <2>5. \A y \in Peers : Other(y) \in Peers /\ (Other(y) = Other(x) => y = x)
    BY <1>1, PeersDiffer DEF Peers
  <2> QED  BY <1>5, <1>15, <2>1, <2>2, <2>3, <2>4, <2>5 DEF InUse
<1> QED  BY <1>11, <1>12, <1>13, <1>14, <1>15, NoneGiven DEF Base

\* A number in use after a step that hands none out was in use before it: a call
\* becomes a frame under way, then the frame read, then an execution, and so on.
LEMMA NoneNew ==
  ASSUME OneCall,
         \A z \in Peers, s \in Numbers, n \in Nat : Called(z, s, n)' => Called(z, s, n),
         \A z \in Peers, s \in Numbers, n \in Nat :
           Executed(z, s, n)' => Executed(z, s, n) \/ Held(z, 0, s, n),
         \A z \in Peers, type \in {0, 1}, s \in Numbers, n \in Nat :
           Held(z, type, s, n)' => Held(z, type, s, n) \/ Carried(z, type, s, n),
         \A z \in Peers, type \in {0, 1}, s \in Numbers, n \in Nat :
           Carried(z, type, s, n)' => \/ Carried(z, type, s, n)
                                      \/ type = 1 /\ Executed(Other(z), s, n)
  PROVE  OneCall'
<1>1. ASSUME NEW x \in Peers, NEW s \in Numbers, NEW n \in Nat, InUse(x, s, n)'
      PROVE  InUse(x, s, n)
  <2>1. x \in Peers /\ Other(x) \in Peers /\ Other(Other(x)) = x  BY PeersDiffer
  <2>2. 0 \in {0, 1} /\ 1 \in {0, 1} /\ 0 # 1  OBVIOUS
  <2> QED  BY <1>1, <2>1, <2>2 DEF InUse
<1> QED  BY <1>1, NoneGiven

\* Types, with the callers as a set of functions
LEMMA CallsTyped == Types => call \in [Callers -> Call0]
BY DEF Types, Call0

\* One task changes its own record and gets no answer in it.
LEMMA CallerStep ==
  ASSUME Base, NEW c \in Callers, NEW v \in Call0,
         call' = [call EXCEPT ![c] = v],
         v.pc # "woken",
         v.pc # "idle" => call[c].pc # "idle" /\ v.seq = call[c].seq /\ v.id = call[c].id,
         AllBear(v.left, 0, v.seq, v.id),
         UNCHANGED <<use, seqnum, chan, loop, jobs, asked>>,
         returned' \in Seq(Nat), Len(returned') = asked, Own'
  PROVE  Base'
<1>1. call \in [Callers -> Call0]  BY CallsTyped DEF Base
<1>2. /\ call' \in [Callers -> Call0] /\ call'[c] = v
      /\ \A d \in Callers : d # c => call'[d] = call[d]
  BY <1>1
<1>3. Types'  BY <1>2 DEF Base, Types, Call0
<1>4. LeftIsOwn'
  <2>1. \A d \in Callers : AllBear(call'[d].left, 0, call'[d].seq, call'[d].id)
    BY <1>2 DEF Base, LeftIsOwn
  <2> QED  BY <2>1 DEF Base, LeftIsOwn, AllBear, Bears
<1>5. GotIsOwn'  BY <1>2 DEF Base, GotIsOwn
<1>6. OneCall'
  <2>1. \A z \in Peers, s \in Numbers, n \in Nat : Called(z, s, n)' => Called(z, s, n)
    BY <1>2 DEF Called
  <2>2. \A z \in Peers, s \in Numbers, n \in Nat : Executed(z, s, n)' => Executed(z, s, n)
    BY DEF Executed
  <2>3. \A z \in Peers, type \in {0, 1}, s \in Numbers, n \in Nat :
          /\ Held(z, type, s, n)' => Held(z, type, s, n)
          /\ Carried(z, type, s, n)' => Carried(z, type, s, n)
    BY DEF Held, Carried
  <2> QED  BY <2>1, <2>2, <2>3, NoneNew DEF Base
<1> QED  BY <1>3, <1>4, <1>5, <1>6 DEF Base

\* A sequence with one place filled again.
LEMMA Filled ==
  ASSUME NEW s \in Seq(Nat), NEW i \in Nat, NEW v \in Nat
  PROVE  /\ [s EXCEPT ![i] = v] \in Seq(Nat) /\ Len([s EXCEPT ![i] = v]) = Len(s)
         /\ \A k \in 1 .. Len(s) : [s EXCEPT ![i] = v][k] = IF k = i THEN v ELSE s[k]
<1>1. DOMAIN s = 1 .. Len(s) /\ Len(s) \in Nat /\ s \in [1 .. Len(s) -> Nat]  BY LenProperties
<1>2. [s EXCEPT ![i] = v] \in [1 .. Len(s) -> Nat]  BY <1>1
<1>3. [s EXCEPT ![i] = v] \in Seq(Nat) /\ Len([s EXCEPT ![i] = v]) = Len(s)
  BY <1>1, <1>2, IsASeq, LenProperties
<1>4. \A k \in 1 .. Len(s) : [s EXCEPT ![i] = v][k] = IF k = i THEN v ELSE s[k]  BY <1>1
<1> QED  BY <1>3, <1>4

\* A caller that was woken returns its answer, or waits again.
LEMMA ResumeSound ==
  ASSUME Base, NEW c \in Callers, Resume(c)
  PROVE  Base'
<1> DEFINE k == call[c]
           v == IF k.got = Error \/ Answers(k.got, k.seq) THEN Idle
                ELSE [k EXCEPT !.pc = "waiting", !.got = Idle.got]
<1>1. k \in Call0  BY CallsTyped DEF Base
<1>2. /\ k.pc = "woken" /\ call' = [call EXCEPT ![c] = v]
      /\ UNCHANGED <<use, seqnum, chan, loop, jobs, asked>>
      /\ returned' = IF Answers(k.got, k.seq) THEN [returned EXCEPT ![k.id] = k.got.id] ELSE returned
  BY DEF Resume
<1>3. AllBear(k.left, 0, k.seq, k.id)  BY DEF Base, LeftIsOwn
<1>4. /\ v \in Call0 /\ v.pc # "woken"
      /\ v.pc # "idle" => k.pc # "idle" /\ v.seq = k.seq /\ v.id = k.id
      /\ AllBear(v.left, 0, v.seq, v.id)
  <2>1. Idle \in Call0 /\ Idle.pc = "idle" /\ AllBear(Idle.left, 0, Idle.seq, Idle.id)  BY IdleTyped
  <2>2. Idle.got \in [seq : Int, id : Nat]  BY <2>1 DEF Call0
  <2> DEFINE w == [k EXCEPT !.pc = "waiting", !.got = Idle.got]
  <2>3. /\ w \in Call0 /\ w.pc = "waiting" /\ w.seq = k.seq /\ w.id = k.id /\ w.left = k.left
    BY <1>1, <2>2 DEF Call0
  <2>4. v = Idle \/ v = w  OBVIOUS
  <2> HIDE DEF v, w, k
  <2>5. CASE v = Idle  BY <2>1, <2>5
  <2>6. CASE v = w  BY <1>2, <1>3, <2>3, <2>6
  <2> QED  BY <2>4, <2>5, <2>6
<1>5. returned' \in Seq(Nat) /\ Len(returned') = asked /\ Own'
  <2>1. returned \in Seq(Nat) /\ Len(returned) = asked /\ asked \in Nat /\ Own
    BY DEF Base, Types
  <2>2. CASE Answers(k.got, k.seq)
    <3>1. k.got.id = k.id  BY <1>2, <2>2 DEF Answers, Base, GotIsOwn
    <3>2. k.id \in Nat /\ returned' = [returned EXCEPT ![k.id] = k.id]
      BY <1>1, <1>2, <2>2, <3>1 DEF Call0
    <3>3. /\ returned' \in Seq(Nat) /\ Len(returned') = Len(returned)
          /\ \A i \in 1 .. Len(returned) : returned'[i] = IF i = k.id THEN k.id ELSE returned[i]
      BY <2>1, <3>2, Filled
    <3> QED  BY <1>2, <2>1, <3>3 DEF Own
  <2>3. CASE ~Answers(k.got, k.seq)  BY <1>2, <2>1, <2>3 DEF Own
  <2> QED  BY <2>2, <2>3
<1> HIDE DEF v, k
<1> QED  BY <1>2, <1>4, <1>5, CallerStep DEF k

\* A killed caller forgets its call; its number stays in use elsewhere.
LEMMA KillSound ==
  ASSUME Base, Whole', NEW c \in Callers, Kill(c)
  PROVE  Base'
<1>1. Idle \in Call0 /\ Idle.pc = "idle" /\ AllBear(Idle.left, 0, Idle.seq, Idle.id)  BY IdleTyped
<1>2. call' = [call EXCEPT ![c] = Idle] /\ UNCHANGED <<use, seqnum, chan, loop, jobs, asked, returned>>
  <2>1. chan' = chan  BY KillWhole DEF Base
  <2> QED  BY <2>1 DEF Kill
<1>3. returned' \in Seq(Nat) /\ Len(returned') = asked /\ Own'
  BY <1>2 DEF Base, Types, Own
<1> QED  BY <1>1, <1>2, <1>3, CallerStep

-----------------------------------------------------------------------------
(* The reader of a session *)

\* The callers that a signal wakes keep their calls; what they are woken with is
\* their answer, if it bears their number.
LEMMA WakeCalls ==
  ASSUME Base, NEW x \in Peers, NEW got \in [seq : Int, id : Nat],
         \A c \in Callers : Side(c) = x /\ call[c].pc = "waiting" /\ got.seq = call[c].seq
                              => got.id = call[c].id,
         call' = Wake(x, got), UNCHANGED jobs
  PROVE  /\ call' \in [Callers -> Call0]
         /\ \A z \in Peers, s \in Numbers, n \in Nat : Called(z, s, n)' => Called(z, s, n)
         /\ LeftIsOwn' /\ GotIsOwn'
<1> DEFINE w(c) == [call[c] EXCEPT !.pc = "woken", !.got = got]
<1>1. call \in [Callers -> Call0]  BY CallsTyped DEF Base
<1>2. \A c \in Callers : call'[c] = IF Side(c) = x /\ call[c].pc = "waiting" THEN w(c) ELSE call[c]
  BY DEF Wake
<1>3. ASSUME NEW c \in Callers
      PROVE  /\ call'[c] \in Call0
             /\ call'[c].seq = call[c].seq /\ call'[c].id = call[c].id /\ call'[c].left = call[c].left
             /\ call'[c].pc # "idle" => call[c].pc # "idle"
             /\ call'[c].pc = "woken" /\ call'[c].got.seq = call[c].seq => call'[c].got.id = call[c].id
  <2>1. CASE Side(c) = x /\ call[c].pc = "waiting"
    <3>1. call'[c] = w(c) /\ call[c] \in Call0  BY <1>1, <1>2, <2>1
    <3>2. /\ w(c) \in Call0 /\ w(c).seq = call[c].seq /\ w(c).id = call[c].id
          /\ w(c).left = call[c].left /\ w(c).got = got /\ w(c).pc = "woken"
      BY <3>1 DEF Call0
    <3> QED  BY <2>1, <3>1, <3>2
  <2>2. CASE ~(Side(c) = x /\ call[c].pc = "waiting")
    <3>1. call'[c] = call[c] /\ call[c] \in Call0  BY <1>1, <1>2, <2>2
    <3> QED  BY <3>1 DEF Base, GotIsOwn
  <2> QED  BY <2>1, <2>2
<1>4. call' \in [Callers -> Call0]  BY <1>3 DEF Wake
<1>5. \A z \in Peers, s \in Numbers, n \in Nat : Called(z, s, n)' => Called(z, s, n)
  BY <1>3 DEF Called
<1>6. LeftIsOwn'
  <2>1. \A c \in Callers : AllBear(call'[c].left, 0, call'[c].seq, call'[c].id)
    BY <1>3 DEF Base, LeftIsOwn
  <2> QED  BY <2>1 DEF Base, LeftIsOwn, AllBear, Bears
<1>7. GotIsOwn'  BY <1>3 DEF GotIsOwn
<1> QED  BY <1>4, <1>5, <1>6, <1>7

\* One piece is taken from the channel of x.
LEMMA TakeOne ==
  ASSUME Types, NEW x \in Peers, chan[x] # <<>>,
         chan' = [chan EXCEPT ![x] = Tail(@)]
  PROVE  /\ chan' \in [Peers -> Seq(Piece)] /\ \A z \in Peers : Len(chan'[z]) <= use.capacity
         /\ \A z \in Peers : \A type, s, n : Carried(z, type, s, n)' => Carried(z, type, s, n)
         /\ Head(chan[x]) \in Piece
         /\ \A type, s, n : Bears(Head(chan[x]), type, s, n) => Carried(x, type, s, n)
<1> DEFINE l == chan[x]
<1>1. l \in Seq(Piece) /\ l # <<>> /\ Len(l) <= use.capacity /\ use.capacity \in Nat
  BY RpcConstants DEF Types
<1>2. /\ Head(l) \in Piece /\ 1 \in DOMAIN l /\ Head(l) = l[1]
      /\ Tail(l) \in Seq(Piece) /\ Len(Tail(l)) < Len(l)
      /\ \A i \in DOMAIN Tail(l) : \E k \in DOMAIN l : Tail(l)[i] = l[k]
  BY <1>1, Rest
<1>3. /\ chan \in [Peers -> Seq(Piece)] /\ \A z \in Peers : Len(chan[z]) <= use.capacity
  BY DEF Types
<1>4. /\ chan'[x] = Tail(l) /\ \A z \in Peers : z # x => chan'[z] = chan[z]
  BY <1>3
<1>5. chan' \in [Peers -> Seq(Piece)]  BY <1>2, <1>3
<1>6. Len(Tail(l)) \in Nat /\ Len(l) \in Nat  BY <1>1, <1>2, LenProperties
<1>7. \A z \in Peers : Len(chan'[z]) <= use.capacity  BY <1>1, <1>2, <1>3, <1>4, <1>6
<1>8. ASSUME NEW z \in Peers, NEW type, NEW s, NEW n, Carried(z, type, s, n)'
      PROVE  Carried(z, type, s, n)
  <2>1. PICK i \in DOMAIN chan'[z] : Bears(chan'[z][i], type, s, n)  BY <1>8 DEF Carried
  <2>2. CASE z # x  BY <1>4, <2>1, <2>2 DEF Carried
  <2>3. CASE z = x
    <3>1. PICK k \in DOMAIN l : chan'[z][i] = l[k]  BY <1>2, <1>4, <2>1, <2>3
    <3> QED  BY <2>1, <2>3, <3>1 DEF Carried
  <2> QED  BY <2>2, <2>3
<1>9. \A type, s, n : Bears(Head(l), type, s, n) => Carried(x, type, s, n)
  BY <1>2 DEF Carried
<1> QED  BY <1>2, <1>5, <1>7, <1>8, <1>9

\* The loop reads a header: the number passes from the channel to the loop.
LEMMA ReadHeaderSound ==
  ASSUME Base, NEW x \in Peers, InStep(x), ReadHeader(x)
  PROVE  Base'
<1> DEFINE h == Head(chan[x])
           v == [pc |-> "payload", head |-> h]
<1>1. /\ chan[x] # <<>> /\ chan' = [chan EXCEPT ![x] = Tail(@)]
      /\ loop' = [loop EXCEPT ![x] = v]
      /\ UNCHANGED <<use, seqnum, call, jobs, asked, returned>>
  <2>1. chan[x] # <<>> /\ loop[x].pc \in {"header", "adrift"}  BY DEF ReadHeader
  <2>2. loop[x].pc = "header"  BY <2>1 DEF Base, Types
  <2>3. Head(chan[x]).part = "header"  BY <2>1, <2>2, NextPiece DEF Base
  <2> QED  BY <2>2, <2>3 DEF ReadHeader
<1>2. /\ chan' \in [Peers -> Seq(Piece)] /\ \A z \in Peers : Len(chan'[z]) <= use.capacity
      /\ \A z \in Peers : \A type, s, n : Carried(z, type, s, n)' => Carried(z, type, s, n)
      /\ h \in Piece
      /\ \A type, s, n : Bears(h, type, s, n) => Carried(x, type, s, n)
  BY <1>1, TakeOne DEF Base
<1> HIDE DEF h
<1>3. /\ v \in [pc : {"header", "payload", "ended"}, head : Piece \cup {<<>>}]
      /\ v.pc = "payload" => v.head = h
  BY <1>2
<1> HIDE DEF v
<1>4. loop \in [Peers -> [pc : {"header", "payload", "ended"}, head : Piece \cup {<<>>}]]
  BY DEF Base, Types
<1>5. /\ loop' \in [Peers -> [pc : {"header", "payload", "ended"}, head : Piece \cup {<<>>}]]
      /\ loop'[x] = v /\ \A z \in Peers : z # x => loop'[z] = loop[z]
  BY <1>1, <1>3, <1>4
<1>6. Types'  BY <1>1, <1>2, <1>3, <1>5 DEF Base, Types
<1>7. OneCall'
  <2>1. \A z \in Peers, type \in {0, 1}, s \in Numbers, n \in Nat :
          Held(z, type, s, n)' => Held(z, type, s, n) \/ Carried(z, type, s, n)
    <3> SUFFICES ASSUME NEW z \in Peers, NEW type \in {0, 1}, NEW s \in Numbers, NEW n \in Nat,
                        Held(z, type, s, n)'
                 PROVE  Held(z, type, s, n) \/ Carried(z, type, s, n)
      OBVIOUS
    <3>1. loop'[z].pc = "payload" /\ Bears(loop'[z].head, type, s, n)  BY DEF Held, Bears
    <3>2. CASE z = x  BY <1>2, <1>3, <1>5, <3>1, <3>2
    <3>3. CASE z # x  BY <1>5, <3>1, <3>3 DEF Held
    <3> QED  BY <3>2, <3>3
  <2>2. \A z \in Peers, s \in Numbers, n \in Nat :
          (Called(z, s, n)' => Called(z, s, n)) /\ (Executed(z, s, n)' => Executed(z, s, n))
    BY <1>1 DEF Called, Executed
  <2> QED  BY <1>2, <2>1, <2>2, NoneNew DEF Base
<1>8. LeftIsOwn' /\ GotIsOwn' /\ Own'
  BY <1>1 DEF Base, LeftIsOwn, GotIsOwn, Own, AllBear, Bears
<1> QED  BY <1>6, <1>7, <1>8 DEF Base

\* The loop reads a payload: a call becomes an execution, an answer wakes callers.
LEMMA ReadPayloadSound ==
  ASSUME Base, NEW x \in Peers, InStep(x), ReadPayload(x)
  PROVE  Base'
<1> DEFINE h == loop[x].head
           v == [pc |-> "header", head |-> <<>>]
           j == [peer |-> x, seq |-> h.seq, id |-> h.id, left |-> Run]
           got == [seq |-> h.seq, id |-> h.id]
<1>1. /\ chan[x] # <<>> /\ chan' = [chan EXCEPT ![x] = Tail(@)]
      /\ loop[x].pc = "payload" /\ loop' = [loop EXCEPT ![x] = v]
      /\ UNCHANGED <<use, seqnum, asked, returned>>
      /\ \/ h.type = 0 /\ jobs' = jobs \cup {j} /\ UNCHANGED call
         \/ h.type = 1 /\ call' = Wake(x, got) /\ UNCHANGED jobs
  <2>1. chan[x] # <<>> /\ loop[x].pc = "payload"  BY DEF ReadPayload
  <2>2. Head(chan[x]) = [h EXCEPT !.part = "payload"]  BY <2>1, NextPiece DEF Base
  <2> QED  BY <2>2 DEF ReadPayload
<1>3. /\ chan' \in [Peers -> Seq(Piece)] /\ \A z \in Peers : Len(chan'[z]) <= use.capacity
      /\ \A z \in Peers : \A type, s, n : Carried(z, type, s, n)' => Carried(z, type, s, n)
  BY <1>1, TakeOne DEF Base
<1>4. h \in Piece  BY <1>1 DEF Base, Types
<1>5. /\ h.seq \in Numbers /\ h.id \in Nat /\ Held(x, h.type, h.seq, h.id)
  BY <1>1, <1>4 DEF Piece, Held, Bears
<1>6. v \in [pc : {"header", "payload", "ended"}, head : Piece \cup {<<>>}] /\ v.pc # "payload"
  OBVIOUS
<1> HIDE DEF h, v
<1>7. /\ loop' \in [Peers -> [pc : {"header", "payload", "ended"}, head : Piece \cup {<<>>}]]
      /\ \A z \in Peers : loop'[z].pc = "payload" => loop'[z] = loop[z] /\ loop[z].head \in Piece
  BY <1>1, <1>6 DEF Base, Types
<1>8. \A z \in Peers, type \in {0, 1}, s \in Numbers, n \in Nat :
        Held(z, type, s, n)' => Held(z, type, s, n)
  BY <1>7 DEF Held
<1>9. /\ call' \in [Callers -> Call0]
      /\ \A z \in Peers, s \in Numbers, n \in Nat : Called(z, s, n)' => Called(z, s, n)
      /\ \A z \in Peers, s \in Numbers, n \in Nat :
           Executed(z, s, n)' => Executed(z, s, n) \/ Held(z, 0, s, n)
      /\ jobs' \subseteq [peer : Peers, seq : Numbers, id : Nat, left : Seq(Piece)]
      /\ LeftIsOwn' /\ GotIsOwn'
  <2>1. /\ call \in [Callers -> Call0]
        /\ jobs \subseteq [peer : Peers, seq : Numbers, id : Nat, left : Seq(Piece)]
    BY CallsTyped DEF Base, Types
  <2>2. CASE h.type = 0 /\ jobs' = jobs \cup {j} /\ UNCHANGED call
    <3>1. j \in [peer : Peers, seq : Numbers, id : Nat, left : Seq(Piece)]
      BY <1>5, EmptySeq DEF Run
    <3>2. AllBear(j.left, 1, j.seq, j.id)
      <4>1. j.left = <<>> /\ \A i \in DOMAIN (<<>>) : FALSE  BY DEF Run
      <4> QED  BY <4>1 DEF AllBear
    <3>3. j.peer = x /\ j.seq = h.seq /\ j.id = h.id  OBVIOUS
    <3> HIDE DEF j
    <3>4. \A z \in Peers, s \in Numbers, n \in Nat :
            Executed(z, s, n)' => Executed(z, s, n) \/ Held(z, 0, s, n)
      BY <1>5, <2>2, <3>3 DEF Executed
    <3>5. \A i \in jobs' : AllBear(i.left, 1, i.seq, i.id)  BY <2>2, <3>2 DEF Base, LeftIsOwn
    <3>6. LeftIsOwn'  BY <2>2, <3>5 DEF Base, LeftIsOwn, AllBear, Bears
    <3> QED  BY <2>1, <2>2, <3>1, <3>4, <3>6 DEF Called, Base, GotIsOwn
  <2>3. CASE h.type = 1 /\ call' = Wake(x, got) /\ UNCHANGED jobs
    <3>1. got \in [seq : Int, id : Nat] /\ got.seq = h.seq /\ got.id = h.id
      BY <1>5, RpcConstants DEF Numbers
    <3> HIDE DEF got
    <3>2. ASSUME NEW c \in Callers, Side(c) = x, call[c].pc = "waiting", got.seq = call[c].seq
          PROVE  got.id = call[c].id
      <4>1. call[c].id \in Nat  BY <2>1 DEF Call0
      <4>2. Called(x, h.seq, call[c].id)  BY <3>1, <3>2 DEF Called
      <4>3. InUse(x, h.seq, call[c].id) /\ InUse(x, h.seq, h.id)
        BY <1>5, <2>3, <4>2 DEF InUse
      <4>4. h.id = call[c].id  BY <1>5, <4>1, <4>3 DEF Base, OneCall
      <4> QED  BY <3>1, <4>4
    <3>3. /\ call' \in [Callers -> Call0]
          /\ \A z \in Peers, s \in Numbers, n \in Nat : Called(z, s, n)' => Called(z, s, n)
          /\ LeftIsOwn' /\ GotIsOwn'
      BY <2>3, <3>1, <3>2, WakeCalls
    <3>4. \A z \in Peers, s \in Numbers, n \in Nat : Executed(z, s, n)' => Executed(z, s, n)
      BY <2>3 DEF Executed
    <3> QED  BY <2>1, <2>3, <3>3, <3>4
  <2> QED  BY <1>1, <2>2, <2>3
<1>10. Types'  BY <1>1, <1>3, <1>7, <1>9 DEF Base, Types, Call0
<1>11. OneCall'  BY <1>3, <1>8, <1>9, NoneNew DEF Base
<1>12. Own'  BY <1>1 DEF Base, Own
<1> QED  BY <1>9, <1>10, <1>11, <1>12 DEF Base

\* The end of the loop wakes the callers with an error, which has no number.
LEMMA EndLoopSound ==
  ASSUME Base, NEW x \in Peers, EndLoop(x)
  PROVE  Base'
<1> DEFINE v == [pc |-> "ended", head |-> <<>>]
<1>1. /\ loop' = [loop EXCEPT ![x] = v] /\ chan' = [chan EXCEPT ![x] = <<>>]
      /\ call' = Wake(x, Error) /\ UNCHANGED <<use, seqnum, jobs, asked, returned>>
  BY DEF EndLoop, WakeAtEnd
<1>2. /\ call' \in [Callers -> Call0]
      /\ \A z \in Peers, s \in Numbers, n \in Nat : Called(z, s, n)' => Called(z, s, n)
      /\ LeftIsOwn' /\ GotIsOwn'
  <2>1. Error \in [seq : Int, id : Nat] /\ Error.seq = -1  BY DEF Error
  <2>2. \A c \in Callers : call[c].seq \in Numbers  BY CallsTyped DEF Base, Call0
  <2>3. -1 \notin Numbers  BY DEF Numbers
  <2>4. \A c \in Callers : Error.seq # call[c].seq  BY <2>1, <2>2, <2>3
  <2> QED  BY <1>1, <2>1, <2>4, WakeCalls
<1>3. v \in [pc : {"header", "payload", "ended"}, head : Piece \cup {<<>>}] /\ v.pc # "payload"
  OBVIOUS
<1> HIDE DEF v
<1>4. /\ loop' \in [Peers -> [pc : {"header", "payload", "ended"}, head : Piece \cup {<<>>}]]
      /\ \A z \in Peers : loop'[z].pc = "payload" => loop'[z] = loop[z] /\ loop[z].head \in Piece
  BY <1>1, <1>3 DEF Base, Types
<1>5. /\ chan' \in [Peers -> Seq(Piece)] /\ \A z \in Peers : Len(chan'[z]) <= use.capacity
      /\ \A z \in Peers : \A type, s, n : Carried(z, type, s, n)' => Carried(z, type, s, n)
  <2>1. /\ <<>> \in Seq(Piece) /\ Len(<<>>) = 0 /\ 0 <= use.capacity /\ \A i \in DOMAIN (<<>>) : FALSE
    BY RpcConstants DEF Base, Types
  <2>2. chan \in [Peers -> Seq(Piece)] /\ \A z \in Peers : Len(chan[z]) <= use.capacity
    BY DEF Base, Types
  <2>3. chan'[x] = <<>> /\ \A z \in Peers : z # x => chan'[z] = chan[z]  BY <1>1, <2>2
  <2>4. chan' \in [Peers -> Seq(Piece)]  BY <1>1, <2>1, <2>2
  <2> QED  BY <2>1, <2>2, <2>3, <2>4 DEF Carried
<1>6. Types'  BY <1>1, <1>2, <1>4, <1>5 DEF Base, Types, Call0
<1>7. OneCall'
  <2>1. \A z \in Peers, type \in {0, 1}, s \in Numbers, n \in Nat :
          Held(z, type, s, n)' => Held(z, type, s, n)
    BY <1>4 DEF Held
  <2>2. \A z \in Peers, s \in Numbers, n \in Nat : Executed(z, s, n)' => Executed(z, s, n)
    BY <1>1 DEF Executed
  <2> QED  BY <1>2, <1>5, <2>1, <2>2, NoneNew DEF Base
<1>8. Own'  BY <1>1 DEF Base, Own
<1> QED  BY <1>2, <1>6, <1>7, <1>8 DEF Base

-----------------------------------------------------------------------------
(* The executions *)

Jobs == [peer : Peers, seq : Numbers, id : Nat, left : Seq(Piece)]

\* An execution sends some of its answer, and is gone or goes on with the rest.
LEMMA AnswerStep ==
  ASSUME Base, NEW j \in jobs, NEW l \in Seq(Piece), AllBear(l, 1, j.seq, j.id),
         chan' = chan \/ Put(j.peer, SubSeq(l, 1, Taken(j.peer, Len(l)))),
         jobs' \subseteq (jobs \ {j}) \cup
                         {[j EXCEPT !.left = SubSeq(l, Taken(j.peer, Len(l)) + 1, Len(l))]},
         UNCHANGED <<use, seqnum, loop, call, asked, returned>>
  PROVE  Base'
<1> DEFINE x == j.peer
           k == Taken(x, Len(l))
           r == SubSeq(l, k + 1, Len(l))
           i == [j EXCEPT !.left = r]
<1>1. jobs \subseteq Jobs /\ j \in Jobs  BY DEF Base, Types, Jobs
<1>2. /\ x \in Peers /\ Other(x) \in Peers /\ Other(Other(x)) = x /\ Len(l) \in Nat
      /\ j.seq \in Numbers /\ j.id \in Nat
  BY <1>1, PeersDiffer, LenProperties DEF Jobs
<1>3. /\ chan' \in [Peers -> Seq(Piece)] /\ \A z \in Peers : Len(chan'[z]) <= use.capacity
      /\ \A z \in Peers : \A ty, sq, id :
           Carried(z, ty, sq, id)' =>
             \/ Carried(z, ty, sq, id)
             \/ z = Other(x) /\ ty = 1 /\ sq = j.seq /\ id = j.id
  <2>1. CASE chan' = chan  BY <2>1 DEF Base, Types, Carried
  <2>2. CASE Put(x, SubSeq(l, 1, Taken(x, Len(l))))
    <3> HIDE DEF x
    <3> QED  BY <2>2, <1>2, PutTaken DEF Base
  <2> QED  BY <2>1, <2>2
<1>4. k \in Nat
  <2>1. k \in 0 .. Len(l)  BY <1>2, TakenBounds DEF Base
  <2> QED  BY <1>2, <2>1
<1> HIDE DEF k
<1>5. r \in Seq(Piece) /\ AllBear(r, 1, j.seq, j.id)  BY <1>4, LeftOf
<1>6. jobs' \subseteq (jobs \ {j}) \cup {i}  BY DEF k
<1> HIDE DEF r
<1>7. /\ i \in Jobs /\ i.peer = x /\ i.seq = j.seq /\ i.id = j.id /\ i.left = r
  BY <1>1, <1>5 DEF Jobs
<1> HIDE DEF i
<1>8. Types'
  <2>1. jobs' \subseteq Jobs  BY <1>1, <1>6, <1>7
  <2> QED  BY <1>3, <2>1 DEF Base, Types, Jobs
<1>9. LeftIsOwn'
  <2>1. \A m \in jobs' : AllBear(m.left, 1, m.seq, m.id)
    BY <1>5, <1>6, <1>7 DEF Base, LeftIsOwn
  <2> QED  BY <2>1 DEF Base, LeftIsOwn, AllBear, Bears
<1>10. OneCall'
  <2>1. \A z \in Peers, s \in Numbers, n \in Nat : Executed(z, s, n)' => Executed(z, s, n)
    BY <1>6, <1>7 DEF Executed
  <2>2. Executed(x, j.seq, j.id)  BY DEF Executed
  <2>3. \A z \in Peers, type \in {0, 1}, s \in Numbers, n \in Nat :
          Carried(z, type, s, n)' => Carried(z, type, s, n) \/ (type = 1 /\ Executed(Other(z), s, n))
    <3> HIDE DEF x
    <3> QED  BY <1>2, <1>3, <2>2
  <2>4. \A z \in Peers, type \in {0, 1}, s \in Numbers, n \in Nat :
          /\ Called(z, s, n)' => Called(z, s, n)
          /\ Held(z, type, s, n)' => Held(z, type, s, n)
    BY DEF Called, Held
  <2> QED  BY <2>1, <2>3, <2>4, NoneNew DEF Base
<1>11. GotIsOwn' /\ Own'  BY DEF Base, GotIsOwn, Own
<1> QED  BY <1>8, <1>9, <1>10, <1>11 DEF Base

\* A function returns and its answer is sent, perhaps in part.
LEMMA ExecuteSound ==
  ASSUME Base, Whole', NEW j \in jobs, Execute(j)
  PROVE  Base'
<1> DEFINE f == Frame(1, j.seq, j.id)
<1>1. j.seq \in Numbers /\ j.id \in Nat  BY DEF Base, Types
<1>2. f \in Seq(Piece) /\ Len(f) = 2 /\ AllBear(f, 1, j.seq, j.id)  BY <1>1, FramePieces
<1>3. /\ chan' = chan \/ Put(j.peer, SubSeq(f, 1, Taken(j.peer, 2)))
      /\ jobs' \subseteq (jobs \ {j}) \cup {[j EXCEPT !.left = SubSeq(f, Taken(j.peer, 2) + 1, 2)]}
      /\ UNCHANGED <<use, seqnum, loop, call, asked, returned>>
  <2>1. ASSUME NEW n, Begin(j.peer, f, n) PROVE Put(j.peer, SubSeq(f, 1, n))  BY <2>1, BeginWhole
  <2> QED  BY <2>1 DEF Execute
<1> HIDE DEF f
<1>4. /\ chan' = chan \/ Put(j.peer, SubSeq(f, 1, Taken(j.peer, Len(f))))
      /\ jobs' \subseteq (jobs \ {j}) \cup
                         {[j EXCEPT !.left = SubSeq(f, Taken(j.peer, Len(f)) + 1, Len(f))]}
  BY <1>2, <1>3
<1> QED  BY <1>2, <1>3, <1>4, AnswerStep

\* An execution sends the rest of its answer.
LEMMA ContinueExecuteSound ==
  ASSUME Base, NEW j \in jobs, ContinueExecute(j)
  PROVE  Base'
<1>1. j.left \in Seq(Piece) /\ AllBear(j.left, 1, j.seq, j.id)  BY DEF Base, Types, LeftIsOwn
<1>2. /\ chan' = chan \/ Put(j.peer, SubSeq(j.left, 1, Taken(j.peer, Len(j.left))))
      /\ jobs' \subseteq (jobs \ {j}) \cup
           {[j EXCEPT !.left = SubSeq(j.left, Taken(j.peer, Len(j.left)) + 1, Len(j.left))]}
      /\ UNCHANGED <<use, seqnum, loop, call, asked, returned>>
  BY DEF ContinueExecute
<1> QED  BY <1>1, <1>2, AnswerStep

-----------------------------------------------------------------------------
(* A new call *)

\* seqnum wraps around.
LEMMA NextNumber ==
  ASSUME NEW s \in Numbers
  PROVE  (s + 1) % SeqMod \in Numbers
<1>1. SeqMod \in Nat \ {0}  BY RpcConstants
<1>2. s + 1 \in Nat  BY <1>1 DEF Numbers
<1>3. (s + 1) % SeqMod \in 0 .. SeqMod - 1  BY <1>1, <1>2
<1> QED  BY <1>3 DEF Numbers

\* No call has the number that a call is about to take.
LEMMA NumberFree ==
  ASSUME Types, NEW x \in Peers, FreeSeqnum(x), FreeNumbers, NEW n \in Nat
  PROVE  ~InUse(x, seqnum[x], n)
BY DEF FreeNumbers, FreeSeqnum, InUse, Called, Executed, Carried, Held, Bears

\* A new call takes a number that none has.
LEMMA CallSound ==
  ASSUME Base, Whole', NEW c \in Callers, Call(c), FreeNumbers
  PROVE  Base'
<1> DEFINE x == Side(c)
           s0 == seqnum[x]
           n0 == asked + 1
           f == Frame(0, s0, n0)
           k == Taken(x, 2)
           r == SubSeq(f, k + 1, 2)
           v == [Idle EXCEPT !.pc = "waiting", !.seq = s0, !.id = n0, !.left = r]
           w == [Idle EXCEPT !.pc = "sending", !.seq = s0, !.id = n0, !.left = r]
<1>1. /\ call[c].pc = "idle" /\ FreeSeqnum(x) /\ asked' = n0
      /\ seqnum' = [seqnum EXCEPT ![x] = (@ + 1) % SeqMod]
      /\ returned' = Append(returned, 0) /\ UNCHANGED <<use, loop, jobs>>
      /\ chan' = chan \/ Put(x, SubSeq(f, 1, k))
      /\ call' = call \/ call' = [call EXCEPT ![c] = v] \/ call' = [call EXCEPT ![c] = w]
  <2>1. ASSUME NEW n, Begin(x, f, n) PROVE Put(x, SubSeq(f, 1, n))  BY <2>1, BeginWhole
  <2> QED  BY <2>1 DEF Call
<1> HIDE DEF v, w
<1>2. /\ x \in Peers /\ Other(x) \in Peers /\ Other(Other(x)) = x /\ Other(x) # x  BY PeersDiffer
<1>3. /\ s0 \in Numbers /\ n0 \in Nat /\ asked \in Nat
  <2>1. asked \in Nat /\ seqnum \in [Peers -> Numbers]  BY DEF Base, Types
  <2> HIDE DEF x
  <2> QED  BY <1>2, <2>1
<1>4. f \in Seq(Piece) /\ Len(f) = 2 /\ AllBear(f, 0, s0, n0)  BY <1>3, FramePieces
<1>5. k \in Nat
  <2>1. k \in 0 .. 2  BY <1>2, TakenBounds DEF Base
  <2> HIDE DEF k
  <2> QED  BY <2>1
<1> HIDE DEF x, f
<1>6. /\ chan' \in [Peers -> Seq(Piece)] /\ \A z \in Peers : Len(chan'[z]) <= use.capacity
      /\ \A z \in Peers : \A ty, sq, id :
           Carried(z, ty, sq, id)' =>
             \/ Carried(z, ty, sq, id)
             \/ z = Other(x) /\ ty = 0 /\ sq = s0 /\ id = n0
  <2>1. CASE chan' = chan  BY <2>1 DEF Base, Types, Carried
  <2>2. CASE Put(x, SubSeq(f, 1, k))
    <3>1. Put(x, SubSeq(f, 1, Taken(x, Len(f))))  BY <1>4, <2>2
    <3> HIDE DEF s0, n0
    <3> QED  BY <1>2, <1>4, <3>1, PutTaken DEF Base
  <2> QED  BY <1>1, <2>1, <2>2
<1> HIDE DEF k
<1>7. r \in Seq(Piece) /\ AllBear(r, 0, s0, n0)
  <2>1. SubSeq(f, k + 1, Len(f)) \in Seq(Piece) /\ AllBear(SubSeq(f, k + 1, Len(f)), 0, s0, n0)
    BY <1>4, <1>5, LeftOf
  <2> QED  BY <1>4, <2>1
<1> HIDE DEF r, s0, n0
<1>8. /\ call' \in [Callers -> Call0]
      /\ \A d \in Callers : d # c => call'[d] = call[d]
      /\ call'[c].pc # "woken"
      /\ call'[c].pc # "idle" => call'[c].seq = s0 /\ call'[c].id = n0
      /\ AllBear(call'[c].left, 0, call'[c].seq, call'[c].id)
  <2>1. call \in [Callers -> Call0]  BY CallsTyped DEF Base
  <2>2. CASE call' = call  BY <1>1, <2>1, <2>2 DEF Base, LeftIsOwn
  <2>3. /\ v \in Call0 /\ v.pc = "waiting" /\ v.seq = s0 /\ v.id = n0 /\ v.left = r
        /\ w \in Call0 /\ w.pc = "sending" /\ w.seq = s0 /\ w.id = n0 /\ w.left = r
    <3>1. Idle \in Call0  BY IdleTyped
    <3> QED  BY <1>3, <1>7, <3>1 DEF Call0, v, w
  <2>4. ASSUME NEW u \in {v, w}, call' = [call EXCEPT ![c] = u]
        PROVE  /\ call' \in [Callers -> Call0] /\ call'[c] = u
               /\ \A d \in Callers : d # c => call'[d] = call[d]
    BY <2>1, <2>3, <2>4
  <2> QED  BY <1>1, <1>7, <2>2, <2>3, <2>4
<1>9. returned' \in Seq(Nat) /\ Len(returned') = asked' /\ Own'
  <2>1. returned \in Seq(Nat) /\ Len(returned) = asked /\ Own  BY DEF Base, Types
  <2>2. /\ returned' \in Seq(Nat) /\ Len(returned') = asked + 1
        /\ \A i \in 1 .. asked : returned'[i] = returned[i]
        /\ returned'[asked + 1] = 0
    <3>1. \E s \in Seq(Nat) : s = returned /\ 0 \in Nat  BY <2>1
    <3>2. /\ Append(returned, 0) \in Seq(Nat) /\ Len(Append(returned, 0)) = Len(returned) + 1
          /\ \A i \in 1 .. Len(returned) : Append(returned, 0)[i] = returned[i]
          /\ Append(returned, 0)[Len(returned) + 1] = 0
      BY <2>1, <3>1, AppendProperties
    <3> QED  BY <1>1, <2>1, <3>2
  <2>3. asked' = asked + 1 /\ \A i \in 1 .. asked : returned[i] \in {0, i}
    BY <1>1, <2>1 DEF Own, n0
  <2>4. \A i \in 1 .. asked + 1 : i \in 1 .. asked \/ i = asked + 1  BY <1>3
  <2>5. \A i \in 1 .. asked + 1 : returned'[i] \in {0, i}  BY <2>2, <2>3, <2>4
  <2> QED  BY <2>2, <2>3, <2>5 DEF Own
<1>10. seqnum' \in [Peers -> Numbers]
  <2>1. (seqnum[x] + 1) % SeqMod \in Numbers  BY <1>3, NextNumber DEF s0
  <2> QED  BY <1>1, <2>1 DEF Base, Types
<1>11. Types'  BY <1>1, <1>3, <1>6, <1>8, <1>9, <1>10 DEF Base, Types, Call0
<1>12. LeftIsOwn'
  <2>1. \A d \in Callers : AllBear(call'[d].left, 0, call'[d].seq, call'[d].id)
    BY <1>8 DEF Base, LeftIsOwn
  <2> QED  BY <1>1, <2>1 DEF Base, LeftIsOwn, AllBear, Bears
<1>13. GotIsOwn'  BY <1>8 DEF Base, GotIsOwn
<1>14. \A z \in Peers, s \in Numbers, n \in Nat :
         InUse(z, s, n)' => InUse(z, s, n) \/ (z = x /\ s = s0 /\ n = n0)
  <2>1. \A z \in Peers, s \in Numbers, n \in Nat :
          Called(z, s, n)' => Called(z, s, n) \/ (z = x /\ s = s0 /\ n = n0)
    BY <1>8 DEF Called, x
  <2>2. \A z \in Peers : \A type, s, n :
          /\ Executed(z, s, n)' => Executed(z, s, n)
          /\ Held(z, type, s, n)' => Held(z, type, s, n)
    BY <1>1 DEF Executed, Held
  <2>3. \A z \in Peers : Other(z) \in Peers /\ (Other(z) = Other(x) => z = x)
    BY <1>2, PeersDiffer
  <2> QED  BY <1>6, <2>1, <2>2, <2>3 DEF InUse
<1>15. \A n \in Nat : ~InUse(x, s0, n)  BY <1>1, <1>2, NumberFree DEF Base, s0
<1>16. OneCall'
  <2>1. ASSUME NEW z \in Peers, NEW s \in Numbers, NEW m \in Nat, NEW n \in Nat,
               InUse(z, s, m)', InUse(z, s, n)'
        PROVE  m = n
    <3>1. CASE z = x /\ s = s0  BY <1>14, <1>15, <2>1, <3>1
    <3>2. CASE ~(z = x /\ s = s0)  BY <1>14, <2>1, <3>2 DEF Base, OneCall
    <3> QED  BY <3>1, <3>2
  <2> QED  BY <2>1 DEF OneCall
<1> QED  BY <1>9, <1>11, <1>12, <1>13, <1>16 DEF Base

-----------------------------------------------------------------------------
(* Frames stay whole *)

\* The pieces that are held, on their way or left to send are pieces.
LEMMA StreamTyped ==
  ASSUME Types, NEW x \in Peers
  PROVE  /\ chan[x] \in Seq(Piece) /\ Hold(x) \in Piece \cup {Scrap}
         /\ End(x) \in Piece \cup {Scrap} /\ Unsent(x) \subseteq Seq(Piece)
         /\ Scrap.part # "header"
<1>1. chan[x] \in Seq(Piece)  BY DEF Types
<1>2. Hold(x) \in Piece \cup {Scrap}  BY DEF Types, Hold
<1>3. chan[x] # <<>> => chan[x][Len(chan[x])] \in Piece
  <2>1. \A i \in 1 .. Len(chan[x]) : chan[x][i] \in Piece  BY <1>1, LenProperties
  <2>2. chan[x] # <<>> => Len(chan[x]) \in 1 .. Len(chan[x])  BY <1>1, EmptySeq
  <2> QED  BY <2>1, <2>2
<1>4. End(x) \in Piece \cup {Scrap}  BY <1>2, <1>3 DEF End, Tip
<1>5. Unsent(x) \subseteq Seq(Piece)  BY DEF Types, Unsent
<1>6. Scrap.part # "header"  BY DEF Scrap
<1> QED  BY <1>1, <1>2, <1>4, <1>5, <1>6

\* A header that is there alone has a task halfway.
LEMMA HeaderHalf ==
  ASSUME Types, NEW x \in Peers, SendsWell(x), End(Other(x)).part = "header"
  PROVE  Halfway(x)
<1>1. PICK l \in Unsent(x) : Ends(End(Other(x)), l)  BY DEF SendsWell
<1>2. Other(x) \in Peers  BY PeersDiffer
<1>3. End(Other(x)) \in Piece /\ l \in Seq(Piece)  BY <1>2, StreamTyped
<1>4. Len(l) = 1  BY <1>1, <1>3, HalfLeft
<1> QED  BY <1>4 DEF Halfway

\* Nothing changes for what is read and sent in this direction.
LEMMA SameStream ==
  ASSUME NEW x \in Peers, chan'[x] = chan[x], loop'[x] = loop[x]
  PROVE  InStep(x)' = InStep(x) /\ Hold(x)' = Hold(x) /\ End(x)' = End(x)
BY DEF InStep, Hold, End, Tip, Chained

\* Pieces that may come next are put on the way to the peer, if it is open.
LEMMA PutChain ==
  ASSUME Types, NEW x \in Peers, NEW l \in Seq(Piece), Put(x, l), loop' = loop,
         InStep(Other(x)), Other(x) \notin closed => Chained(End(Other(x)), l)
  PROVE  /\ InStep(Other(x))'
         /\ Other(x) \notin closed => End(Other(x))' = Tip(End(Other(x)), l)
         /\ chan'[x] = chan[x]
<1> DEFINE y == Other(x)
<1>1. y \in Peers /\ y # x /\ chan \in [Peers -> Seq(Piece)]  BY PeersDiffer DEF Types
<1>2. chan' = IF y \in closed THEN chan ELSE [chan EXCEPT ![y] = chan[y] \o l]  BY DEF Put
<1>3. InStep(y) /\ (y \notin closed => Chained(End(y), l))  OBVIOUS
<1> HIDE DEF y
<1>4. CASE y \in closed
  <2>1. chan' = chan  BY <1>2, <1>4
  <2> QED  BY <1>1, <1>3, <1>4, <2>1, SameStream DEF y
<1>5. CASE y \notin closed
  <2>1. chan'[y] = chan[y] \o l /\ chan'[x] = chan[x]  BY <1>1, <1>2, <1>5
  <2>2. Hold(y)' = Hold(y)  BY DEF Hold
  <2>3. chan[y] \in Seq(Piece) /\ Chained(Hold(y), chan[y]) /\ Chained(Tip(Hold(y), chan[y]), l)
    BY <1>1, <1>3, <1>5 DEF InStep, End
  <2>4. /\ Chained(Hold(y), chan[y] \o l)
        /\ Tip(Hold(y), chan[y] \o l) = Tip(Tip(Hold(y), chan[y]), l)
    BY <2>3, ChainJoin
  <2>5. Chained(Hold(y)', chan'[y]) /\ Tip(Hold(y)', chan'[y]) = Tip(End(y), l)
    BY <2>1, <2>2, <2>4 DEF End
  <2>6. InStep(y)'  BY <1>3, <2>5 DEF InStep, Chained, Hold
  <2>7. End(y)' = Tip(End(y), l)  BY <2>5 DEF End, Tip, Hold
  <2> QED  BY <2>1, <2>6, <2>7 DEF y
<1> QED  BY <1>4, <1>5

\* Nothing changes for the tasks that wait for a socket.
LEMMA SameSenders ==
  ASSUME \A c \in Callers : /\ call'[c].pc = "sending" <=> call[c].pc = "sending"
                            /\ call[c].pc = "sending" => call'[c] = call[c],
         \A j : j.left # Run => (j \in jobs' <=> j \in jobs)
  PROVE  \A x \in Peers : Unsent(x)' = Unsent(x) /\ (OneSender(x) => OneSender(x)')
<1> SUFFICES ASSUME NEW x \in Peers
             PROVE  Unsent(x)' = Unsent(x) /\ (OneSender(x) => OneSender(x)')
  OBVIOUS
<1>1. Unsent(x)' = Unsent(x)
  <2>1. {d \in Callers : Side(d) = x /\ call'[d].pc = "sending"}
          = {d \in Callers : Side(d) = x /\ call[d].pc = "sending"}
    OBVIOUS
  <2>2. {k \in jobs' : k.peer = x /\ k.left # Run} = {k \in jobs : k.peer = x /\ k.left # Run}
    OBVIOUS
  <2>3. {call'[c].left : c \in {d \in Callers : Side(d) = x /\ call'[d].pc = "sending"}}
          = {call[c].left : c \in {d \in Callers : Side(d) = x /\ call[d].pc = "sending"}}
    BY <2>1
  <2> QED  BY <2>2, <2>3 DEF Unsent
<1>2. OneSender(x) => OneSender(x)'  BY DEF OneSender
<1> QED  BY <1>1, <1>2

\* A caller that waits for the socket, alone, or does when no task of its side does,
\* changes its record.
LEMMA CallerSends ==
  ASSUME Types, NEW c \in Callers, NEW v,
         call' = [call EXCEPT ![c] = v], UNCHANGED jobs,
         OneSender(Side(c)), call[c].pc = "sending" \/ Unsent(Side(c)) = {},
         \A z \in Peers : OneSender(z)
  PROVE  /\ Unsent(Side(c))' = IF v.pc = "sending" THEN {v.left} ELSE {}
         /\ \A z \in Peers : OneSender(z)' /\ (z # Side(c) => Unsent(z)' = Unsent(z))
<1> DEFINE x == Side(c)
<1>1. call'[c] = v /\ \A d \in Callers : d # c => call'[d] = call[d]  BY DEF Types
<1>2. \A d \in Callers : d # c /\ Side(d) = x => call[d].pc # "sending"
  <2>1. CASE call[c].pc = "sending"  BY <2>1 DEF OneSender
  <2>2. CASE Unsent(x) = {}
    <3>1. \A d \in Callers : Side(d) = x /\ call[d].pc = "sending" => call[d].left \in Unsent(x)
      BY DEF Unsent
    <3> QED  BY <2>2, <3>1
  <2> QED  BY <2>1, <2>2
<1>3. \A j \in jobs : j.peer = x => j.left = Run  BY DEF OneSender, Unsent
<1>4. Unsent(x)' = IF v.pc = "sending" THEN {v.left} ELSE {}
  <2>1. \A d \in Callers : Side(d) = x /\ call'[d].pc = "sending" <=> d = c /\ v.pc = "sending"
    BY <1>1, <1>2
  <2>2. Unsent(x)' = {call'[d].left : d \in {d \in Callers : Side(d) = x /\ call'[d].pc = "sending"}}
    BY <1>3 DEF Unsent
  <2> QED  BY <1>1, <2>1, <2>2
<1>5. OneSender(x)'  BY <1>1, <1>2, <1>3 DEF OneSender
<1>6. ASSUME NEW z \in Peers, z # x PROVE OneSender(z)' /\ Unsent(z)' = Unsent(z)
  <2>1. \A d \in Callers : Side(d) = z => call'[d] = call[d]  BY <1>1, <1>6
  <2>2. OneSender(z)'  BY <2>1 DEF OneSender
  <2> QED  BY <2>1, <2>2 DEF Unsent
<1> QED  BY <1>4, <1>5, <1>6

\* The same for an execution, which becomes another one or is gone.
LEMMA JobSends ==
  ASSUME Types, NEW j \in jobs, NEW X, \A i \in X : i.peer = j.peer,
         \A i, k \in X : i = k,
         jobs' = (jobs \ {j}) \cup X, UNCHANGED call,
         j.left # Run \/ Unsent(j.peer) = {},
         \A z \in Peers : OneSender(z)
  PROVE  /\ Unsent(j.peer)' = {i.left : i \in {k \in X : k.left # Run}}
         /\ \A z \in Peers : OneSender(z)' /\ (z # j.peer => Unsent(z)' = Unsent(z))
<1> DEFINE x == j.peer
<1>1. x \in Peers /\ OneSender(x)  BY DEF Types
<1>2. \A i \in jobs : i # j /\ i.peer = x => i.left = Run  BY <1>1 DEF OneSender, Unsent
<1>3. \A c \in Callers : Side(c) = x => call[c].pc # "sending"  BY <1>1 DEF OneSender, Unsent
<1>4. Unsent(x)' = {i.left : i \in {k \in X : k.left # Run}}
  <2>1. \A i : i \in jobs' /\ i.peer = x /\ i.left # Run <=> i \in X /\ i.left # Run
    BY <1>2
  <2>2. {k \in jobs' : k.peer = x /\ k.left # Run} = {k \in X : k.left # Run}  BY <2>1
  <2>3. {d \in Callers : Side(d) = x /\ call[d].pc = "sending"} = {}  BY <1>3
  <2> QED  BY <2>2, <2>3 DEF Unsent
<1>5. OneSender(x)'  BY <1>2, <1>3 DEF OneSender
<1>6. ASSUME NEW z \in Peers, z # x PROVE OneSender(z)' /\ Unsent(z)' = Unsent(z)
  <2>1. \A i : i.peer = z => (i \in jobs' <=> i \in jobs)  BY <1>6
  <2>2. OneSender(z)'  BY <2>1 DEF OneSender
  <2>3. {k \in jobs' : k.peer = z /\ k.left # Run} = {k \in jobs : k.peer = z /\ k.left # Run}
    BY <2>1
  <2> QED  BY <2>2, <2>3 DEF Unsent
<1> QED  BY <1>4, <1>5, <1>6

\* The task of a caller that waits for the socket is the only one of its side.
LEMMA OnlySender ==
  ASSUME NEW c \in Callers, OneSender(Side(c)), call[c].pc = "sending"
  PROVE  Unsent(Side(c)) = {call[c].left}
<1> DEFINE x == Side(c)
<1>1. \A d \in Callers : Side(d) = x /\ call[d].pc = "sending" <=> d = c  BY DEF OneSender
<1>2. {k \in jobs : k.peer = x /\ k.left # Run} = {}  BY DEF OneSender
<1>3. {d \in Callers : Side(d) = x /\ call[d].pc = "sending"} = {c}  BY <1>1
<1> QED  BY <1>2, <1>3 DEF Unsent

\* What is left to send goes on to do well after the same piece, and after another
\* one that is no header either.
LEMMA SendsSame ==
  ASSUME NEW x \in Peers, SendsWell(x), Unsent(x)' = Unsent(x),
         LET t == End(Other(x)) IN t' = t \/ (t.part # "header" /\ t'.part # "header")
  PROVE  SendsWell(x)'
<1> DEFINE t == End(Other(x))
           b == t'
<1>1. \A l \in Unsent(x) : Ends(t, l)  BY DEF SendsWell
<1>2. t.part = "header" => Unsent(x) # {}  BY DEF SendsWell
<1>3. b = t \/ (t.part # "header" /\ b.part # "header")  OBVIOUS
<1> HIDE DEF t, b
<1>4. ASSUME NEW l \in Unsent(x) PROVE Ends(b, l)
  <2>1. Ends(t, l)  BY <1>1
  <2>2. CASE b = t  BY <2>1, <2>2
  <2>3. CASE t.part # "header" /\ b.part # "header"
    <3>1. Chained(t, l) /\ Len(l) \in 1 .. 2 /\ Tip(t, l).part # "header"  BY <2>1 DEF Ends
    <3>2. Chained(b, l) /\ (l # <<>> => Tip(b, l) = Tip(t, l))  BY <2>3, <3>1, Boundary
    <3>3. l # <<>>
      <4>1. Len(<<>>) = 0  OBVIOUS
      <4> QED  BY <3>1, <4>1
    <3> QED  BY <3>1, <3>2, <3>3 DEF Ends
  <2> QED  BY <1>3, <2>2, <2>3
<1>5. b.part = "header" => Unsent(x) # {}  BY <1>2, <1>3
<1> QED  BY <1>4, <1>5 DEF SendsWell, Ends, Chained, Tip, b, t

\* A step of a sender of x keeps the other direction.
LEMMA SendFramed ==
  ASSUME Types, Framed, NEW x \in Peers, UNCHANGED <<loop, closed>>, chan'[x] = chan[x],
         InStep(Other(x))', \A z \in Peers : OneSender(z)' /\ (z # x => Unsent(z)' = Unsent(z)),
         closed = {} => SendsWell(x)'
  PROVE  Framed'
<1> DEFINE y == Other(x)
<1>1. y \in Peers /\ y # x /\ Other(y) = x /\ \A z \in Peers : z = x \/ z = y
  BY PeersDiffer DEF Peers
<1>2. InStep(x)' /\ End(x)' = End(x)  BY SameStream DEF Framed
<1>3. closed = {} => SendsWell(y)'
  <2>1. ASSUME closed = {} PROVE SendsWell(y)'
    <3>1. SendsWell(y) /\ Unsent(y)' = Unsent(y)  BY <1>1, <2>1 DEF Framed
    <3>2. End(Other(y))' = End(Other(y))  BY <1>1, <1>2
    <3> HIDE DEF y
    <3> QED  BY <1>1, <3>1, <3>2, SendsSame
  <2> QED  BY <2>1
<1> QED  BY <1>1, <1>2, <1>3 DEF Framed

\* A frame is begun without tearing any: it goes whole between others, or its
\* header and its task goes on, or nothing of it.
LEMMA BeginFramed ==
  ASSUME Types, Framed, Whole', NEW x \in Peers, x \notin closed,
         NEW type \in {0, 1}, NEW s \in Numbers, NEW m \in Nat, NEW n \in 0 .. 2,
         Begin(x, Frame(type, s, m), n), UNCHANGED <<loop, closed>>,
         \A z \in Peers : OneSender(z)' /\ (z # x => Unsent(z)' = Unsent(z)),
         Unsent(x)' = IF n = 2 \/ Refused(x, n) THEN Unsent(x)
                      ELSE {SubSeq(Frame(type, s, m), n + 1, 2)}
  PROVE  Framed'
<1> DEFINE y == Other(x)
           t == End(y)
           f == Frame(type, s, m)
           u == SubSeq(f, 1, n)
           r == SubSeq(f, n + 1, 2)
<1>1. /\ Put(x, u) /\ (closed = {} => ~(n > 0 /\ Halfway(x)) /\ ~(n = 1 /\ Refused(x, n)))
  BY BeginWhole
<1>2. f \in Seq(Piece) /\ Len(f) = 2  BY FramePieces
<1>3. u \in Seq(Piece)
  <2>1. 1 \in Nat \ {0} /\ n \in Int /\ n <= Len(f)  BY <1>2
  <2> HIDE DEF f
  <2> QED  BY <1>2, <2>1, Part
<1>4. y \in Peers /\ InStep(y) /\ (closed # {} => y \in closed)
  BY PeersDiffer DEF Framed, Peers, Other
<1>5. CASE closed # {}
  <2>1. InStep(y)' /\ chan'[x] = chan[x]  BY <1>1, <1>3, <1>4, <1>5, PutChain
  <2> QED  BY <1>5, <2>1, SendFramed
<1>6. CASE closed = {}
  <2>1. SendsWell(x) /\ y \notin closed  BY <1>6 DEF Framed
  <2>2. t.part = "header" => Halfway(x)  BY <2>1, HeaderHalf
  <2>3. CASE t.part = "header"
    <3>1. n = 0 /\ Refused(x, n)  BY <1>1, <1>6, <2>2, <2>3 DEF Refused, Registered, Sending, Halfway
    <3>2. u = <<>>
      <4>1. SubSeq(f, 1, 0) = <<>>
        <5> HIDE DEF f
        <5> QED  BY <1>2, SubSeqProperties
      <4> QED  BY <3>1, <4>1
    <3>3. Chained(t, u) /\ Tip(t, u) = t
      <4> HIDE DEF u, t
      <4> QED  BY <3>2 DEF Chained, Tip
    <3>4. InStep(y)' /\ t' = t /\ chan'[x] = chan[x]
      <4> HIDE DEF u
      <4> QED  BY <1>1, <1>3, <1>4, <2>1, <3>3, PutChain
    <3>5. Unsent(x)' = Unsent(x)  BY <3>1
    <3>6. SendsWell(x)'  BY <2>1, <3>4, <3>5, SendsSame
    <3> QED  BY <3>4, <3>6, SendFramed
  <2>4. CASE t.part # "header"
    <3>1. Chained(t, f) /\ Tip(t, f).part # "header"  BY <2>4, FrameEnds
    <3>2. /\ r \in Seq(Piece) /\ Len(u) = n /\ Len(r) = 2 - n
          /\ Chained(t, u) /\ Chained(Tip(t, u), r) /\ Tip(Tip(t, u), r) = Tip(t, f)
      <4>1. n \in 0 .. Len(f)  BY <1>2
      <4> HIDE DEF f, t
      <4>2. /\ SubSeq(f, n + 1, Len(f)) \in Seq(Piece) /\ Len(u) = n
            /\ Len(SubSeq(f, n + 1, Len(f))) = Len(f) - n
            /\ Chained(t, u) /\ Chained(Tip(t, u), SubSeq(f, n + 1, Len(f)))
            /\ Tip(Tip(t, u), SubSeq(f, n + 1, Len(f))) = Tip(t, f)
        BY <1>2, <3>1, <4>1, ChainSplit, ZenonT(60)
      <4> QED  BY <1>2, <4>2
    <3>3. InStep(y)' /\ t' = Tip(t, u) /\ chan'[x] = chan[x]
      <4> HIDE DEF u
      <4> QED  BY <1>1, <1>3, <1>4, <2>1, <3>2, PutChain
    <3>4. SendsWell(x)'
      <4>1. CASE n = 2 \/ (n = 0 /\ Refused(x, n))
        <5>1. Tip(t, u).part # "header"
          <6>1. CASE n = 2
            <7> HIDE DEF r, u, t, f
            <7>1. Len(r) = 0  BY <3>2, <6>1
            <7>2. r = <<>>  BY <3>2, <7>1, EmptySeq
            <7>3. Tip(Tip(t, u), r) = Tip(t, u)  BY <7>2 DEF Tip
            <7> QED  BY <3>1, <3>2, <7>3
          <6>2. CASE n = 0
            <7> HIDE DEF r, u, t, f
            <7>1. Len(u) = 0  BY <3>2, <6>2
            <7>2. u = <<>>  BY <1>3, <7>1, EmptySeq
            <7>3. Tip(t, u) = t  BY <7>2 DEF Tip
            <7> QED  BY <2>4, <7>3
          <6> QED  BY <4>1, <6>1, <6>2
        <5>2. Unsent(x)' = Unsent(x)  BY <4>1
        <5>3. t.part # "header" /\ t'.part # "header"  BY <2>4, <3>3, <5>1
        <5> QED  BY <2>1, <5>2, <5>3, SendsSame
      <4>2. CASE n # 2 /\ ~Refused(x, n)
        <5>1. Unsent(x)' = {r}  BY <4>2
        <5> HIDE DEF r, u, t, f
        <5>2. Len(r) \in 1 .. 2  BY <3>2, <4>2
        <5>3. Ends(Tip(t, u), r)  BY <3>1, <3>2, <5>2 DEF Ends
        <5> DEFINE b == t'
        <5>4. b = Tip(t, u)  BY <3>3
        <5> HIDE DEF b
        <5>5. \A l \in Unsent(x)' : Ends(b, l)  BY <5>1, <5>3, <5>4
        <5> QED  BY <5>1, <5>5 DEF SendsWell, Ends, Chained, Tip, b, t, y
      <4>3. n = 0 \/ n = 1 \/ n = 2  OBVIOUS
      <4> QED  BY <1>1, <1>6, <4>1, <4>2, <4>3
    <3> QED  BY <3>3, <3>4, SendFramed
  <2> QED  BY <2>3, <2>4
<1> QED  BY <1>5, <1>6

\* A task sends some of what it has left.
LEMMA ContinueFramed ==
  ASSUME Types, Framed, NEW x \in Peers, x \notin closed,
         NEW l \in Unsent(x), NEW k \in 0 .. Len(l), Put(x, SubSeq(l, 1, k)),
         UNCHANGED <<loop, closed>>,
         \A z \in Peers : OneSender(z)' /\ (z # x => Unsent(z)' = Unsent(z)),
         Unsent(x)' = IF k = Len(l) THEN {} ELSE {SubSeq(l, k + 1, Len(l))}
  PROVE  Framed'
<1> DEFINE y == Other(x)
           t == End(y)
           u == SubSeq(l, 1, k)
           r == SubSeq(l, k + 1, Len(l))
<1>1. l \in Seq(Piece) /\ Len(l) \in Nat  BY StreamTyped, LenProperties
<1>2. y \in Peers /\ InStep(y) /\ (closed # {} => y \in closed)
  BY PeersDiffer DEF Framed, Peers, Other
<1>3. u \in Seq(Piece)
  <2>1. 1 \in Nat \ {0} /\ k \in Int /\ k <= Len(l)  BY <1>1
  <2> QED  BY <1>1, <2>1, Part
<1>4. CASE closed # {}
  <2>1. InStep(y)' /\ chan'[x] = chan[x]  BY <1>2, <1>3, <1>4, PutChain
  <2> QED  BY <1>4, <2>1, SendFramed
<1>5. CASE closed = {}
  <2>1. Ends(t, l) /\ y \notin closed  BY <1>5 DEF Framed, SendsWell
  <2>2. Chained(t, l) /\ Tip(t, l).part # "header" /\ Len(l) \in 1 .. 2
    <3> HIDE DEF t
    <3> QED  BY <2>1 DEF Ends
  <2>3. /\ r \in Seq(Piece) /\ Len(r) = Len(l) - k
        /\ Chained(t, u) /\ Chained(Tip(t, u), r) /\ Tip(Tip(t, u), r) = Tip(t, l)
    <3> HIDE DEF t
    <3> QED  BY <1>1, <2>2, ChainSplit
  <2>4. InStep(y)' /\ t' = Tip(t, u) /\ chan'[x] = chan[x]
    <3>1. Put(x, u)  OBVIOUS
    <3> HIDE DEF u
    <3> QED  BY <1>2, <1>3, <2>1, <2>3, <3>1, PutChain
  <2>5. SendsWell(x)'
    <3> HIDE DEF r, u, t
    <3> DEFINE b == t'
    <3>1. b = Tip(t, u)  BY <2>4
    <3> HIDE DEF b
    <3>2. CASE k = Len(l)
      <4>1. Len(r) = 0  BY <1>1, <2>3, <3>2
      <4>2. r = <<>>  BY <2>3, <4>1, EmptySeq
      <4>3. Tip(Tip(t, u), r) = Tip(t, u)  BY <4>2 DEF Tip
      <4>4. b.part # "header"  BY <2>2, <2>3, <3>1, <4>3
      <4>5. Unsent(x)' = {}  BY <3>2
      <4> QED  BY <4>4, <4>5 DEF SendsWell, b, t, y
    <3>3. CASE k # Len(l)
      <4>1. Len(r) \in 1 .. 2  BY <1>1, <2>2, <2>3, <3>3
      <4>2. Ends(b, r)  BY <2>2, <2>3, <3>1, <4>1 DEF Ends
      <4>3. Unsent(x)' = {r}  BY <3>3 DEF r
      <4> QED  BY <4>2, <4>3 DEF SendsWell, Ends, Chained, Tip, b, t, y
    <3> QED  BY <3>2, <3>3
  <2> QED  BY <2>4, <2>5, SendFramed
<1> QED  BY <1>4, <1>5

\* The tasks of x that wait for the socket go, none halfway; or none changes.
LEMMA GoneFramed ==
  ASSUME Types, Framed, NEW x \in Peers, UNCHANGED <<chan, loop, closed>>,
         \A z \in Peers : OneSender(z)' /\ (z # x => Unsent(z)' = Unsent(z)),
         closed # {} \/ Unsent(x)' = Unsent(x) \/ (Unsent(x)' = {} /\ ~Halfway(x))
  PROVE  Framed'
<1>1. /\ Other(x) \in Peers /\ InStep(Other(x))' /\ End(Other(x))' = End(Other(x))
      /\ chan'[x] = chan[x]
  BY PeersDiffer, SameStream DEF Framed
<1>2. ASSUME closed = {} PROVE SendsWell(x)'
  <2>1. SendsWell(x)  BY <1>2 DEF Framed
  <2>2. CASE Unsent(x)' = Unsent(x)  BY <1>1, <2>1, <2>2, SendsSame
  <2>3. CASE Unsent(x)' = {} /\ ~Halfway(x)
    <3>1. End(Other(x)).part # "header"  BY <2>1, <2>3, HeaderHalf
    <3>2. End(Other(x))'.part # "header"  BY <1>1, <3>1
    <3> QED  BY <2>3, <3>2 DEF SendsWell
  <2> QED  BY <1>2, <2>2, <2>3
<1> QED  BY <1>1, <1>2, SendFramed

\* The reader takes the next piece; nothing changes for those who send.
LEMMA ReadFramed ==
  ASSUME Types, Framed, NEW x \in Peers, chan[x] # <<>>, chan' = [chan EXCEPT ![x] = Tail(@)],
         NEW v, loop' = [loop EXCEPT ![x] = v], closed' = closed,
         \/ loop[x].pc = "header" /\ v = [pc |-> "payload", head |-> Head(chan[x])]
         \/ loop[x].pc = "payload" /\ v = [pc |-> "header", head |-> <<>>],
         \A z \in Peers : Unsent(z)' = Unsent(z) /\ OneSender(z)'
  PROVE  Framed'
<1> DEFINE h == Head(chan[x])
           s == Tail(chan[x])
           t == End(x)
<1>1. chan \in [Peers -> Seq(Piece)] /\ chan[x] \in Seq(Piece) /\ InStep(x)  BY DEF Types, Framed
<1>2. /\ h \in Piece /\ Chained(h, s) /\ Tip(h, s) = t
  BY <1>1, ChainRest DEF InStep, End
<1>3. chan'[x] = s /\ loop'[x] = v /\ \A z \in Peers : z # x => chan'[z] = chan[z] /\ loop'[z] = loop[z]
  BY <1>1 DEF Types
<1>4. InStep(x)' /\ (t' = t \/ (t.part # "header" /\ t'.part # "header"))
  <2>1. CASE loop[x].pc = "header" /\ v = [pc |-> "payload", head |-> h]
    <3>1. h.part = "header"  BY <1>1, <2>1, NextPiece
    <3>2. Hold(x)' = h /\ loop'[x].pc = "payload" /\ loop'[x].head = h  BY <1>3, <2>1 DEF Hold
    <3> HIDE DEF h, s, t
    <3>3. InStep(x)'  BY <1>2, <1>3, <3>1, <3>2 DEF InStep, Chained
    <3>4. End(x)' = Tip(h, s)  BY <1>3, <3>2 DEF End, Tip
    <3> QED  BY <1>2, <3>3, <3>4 DEF t
  <2>2. CASE loop[x].pc = "payload" /\ v = [pc |-> "header", head |-> <<>>]
    <3>1. h.part # "header"
      <4>1. h = [loop[x].head EXCEPT !.part = "payload"]  BY <1>1, <2>2, NextPiece
      <4>2. loop[x].head \in Piece  BY <2>2 DEF Types
      <4>3. [loop[x].head EXCEPT !.part = "payload"].part = "payload"  BY <4>2 DEF Piece
      <4> QED  BY <4>1, <4>3
    <3>2. Hold(x)' = Scrap /\ loop'[x].pc = "header" /\ Scrap.part # "header"
      BY <1>3, <2>2 DEF Hold, Scrap
    <3> HIDE DEF h, s, t
    <3>3. Chained(Scrap, s) /\ (s # <<>> => Tip(Scrap, s) = Tip(h, s))
      BY <1>2, <3>1, <3>2, Boundary
    <3>4. InStep(x)'  BY <1>3, <3>2, <3>3 DEF InStep, Chained
    <3>5. End(x)' = Tip(Scrap, s)  BY <1>3, <3>2, SMTT(40) DEF End, Tip
    <3>6. CASE s # <<>>  BY <1>2, <3>3, <3>4, <3>5, <3>6 DEF t
    <3>7. CASE s = <<>>
      <4>1. Tip(Scrap, s) = Scrap /\ Tip(h, s) = h  BY <3>7 DEF Tip
      <4> QED  BY <1>2, <3>1, <3>2, <3>4, <3>5, <4>1 DEF t
    <3> QED  BY <3>6, <3>7
  <2> QED  BY <2>1, <2>2
<1>5. ASSUME NEW z \in Peers PROVE InStep(z)' /\ (closed = {} => SendsWell(z)')
  <2>1. Other(z) \in Peers /\ z # Other(z)  BY PeersDiffer
  <2>2. z # x => InStep(z)' /\ End(z)' = End(z)  BY <1>3, SameStream DEF Framed
  <2>3. InStep(z)'  BY <1>4, <2>2
  <2> DEFINE y == Other(z)
  <2>4. End(y)' = End(y) \/ (End(y).part # "header" /\ End(y)'.part # "header")
    <3>1. CASE y = x  BY <1>4, <3>1
    <3>2. CASE y # x
      <4>1. chan'[y] = chan[y] /\ loop'[y] = loop[y]  BY <1>3, <2>1, <3>2
      <4>2. End(y)' = End(y)  BY <2>1, <4>1, SameStream
      <4> QED  BY <4>2
    <3> QED  BY <3>1, <3>2
  <2>5. ASSUME closed = {} PROVE SendsWell(z)'
    <3>1. SendsWell(z) /\ Unsent(z)' = Unsent(z)  BY <2>5 DEF Framed
    <3> QED  BY <2>4, <3>1, SendsSame
  <2> QED  BY <2>3, <2>5
<1> QED  BY <1>5 DEF Framed

\* A call, whose two sends tear no frame.
LEMMA CallFramed ==
  ASSUME Sound, Whole', NEW c \in Callers, Call(c)
  PROVE  Framed'
<1> DEFINE x == Side(c)
           f == Frame(0, seqnum[x], asked + 1)
           n == Taken(x, 2)
           v == [Idle EXCEPT !.pc = IF n = 2 THEN "waiting" ELSE "sending",
                             !.seq = seqnum[x], !.id = asked + 1, !.left = SubSeq(f, n + 1, 2)]
<1>1. /\ Types /\ Framed /\ x \in Peers /\ seqnum[x] \in Numbers /\ asked + 1 \in Nat
  <2>1. x \in Peers  BY PeersDiffer
  <2> HIDE DEF x
  <2> QED  BY <2>1 DEF Sound, Base, Types
<1>2. /\ call[c].pc = "idle" /\ UNCHANGED <<loop, closed, jobs>>
      /\ \/ chan' = chan /\ call' = call
         \/ /\ x \notin closed /\ Begin(x, f, n)
            /\ call' = IF Refused(x, n) THEN call ELSE [call EXCEPT ![c] = v]
  BY DEF Call
<1>3. \A z \in Peers : OneSender(z)  BY <1>1 DEF Framed
<1>4. n \in 0 .. 2  BY <1>1, TakenBounds
<1>5. v.pc = (IF n = 2 THEN "waiting" ELSE "sending") /\ v.left = SubSeq(f, n + 1, 2)  BY DEF Idle
<1>6. call \in [Callers -> Call0]  BY <1>1, CallsTyped
<1> HIDE DEF v, n, f
<1>7. CASE chan' = chan /\ call' = call
  <2>1. \A z \in Peers : Unsent(z)' = Unsent(z) /\ OneSender(z)'
    BY <1>2, <1>3, <1>7, SameSenders
  <2> QED  BY <1>1, <1>2, <1>7, <2>1, GoneFramed
<1>8. CASE /\ x \notin closed /\ Begin(x, f, n)
           /\ call' = IF Refused(x, n) THEN call ELSE [call EXCEPT ![c] = v]
  <2>1. /\ \A z \in Peers : OneSender(z)' /\ (z # x => Unsent(z)' = Unsent(z))
        /\ Unsent(x)' = IF n = 2 \/ Refused(x, n) THEN Unsent(x) ELSE {SubSeq(f, n + 1, 2)}
    <3>1. CASE Refused(x, n)
      <4>1. call' = call  BY <1>8, <3>1
      <4>2. \A z \in Peers : Unsent(z)' = Unsent(z) /\ OneSender(z)'
        BY <1>2, <1>3, <4>1, SameSenders
      <4> QED  BY <1>1, <3>1, <4>2
    <3>2. CASE ~Refused(x, n) /\ n = 2
      <4>1. call' = [call EXCEPT ![c] = v] /\ v.pc = "waiting"  BY <1>5, <1>8, <3>2
      <4>2. \A d \in Callers : /\ call'[d].pc = "sending" <=> call[d].pc = "sending"
                               /\ call[d].pc = "sending" => call'[d] = call[d]
        BY <1>2, <1>6, <4>1
      <4>3. \A z \in Peers : Unsent(z)' = Unsent(z) /\ OneSender(z)'
        BY <1>2, <1>3, <4>2, SameSenders
      <4> QED  BY <1>1, <3>2, <4>3
    <3>3. CASE ~Refused(x, n) /\ n # 2
      <4>1. call' = [call EXCEPT ![c] = v] /\ v.pc = "sending"  BY <1>5, <1>8, <3>3
      <4>2. Unsent(x) = {}  BY <1>4, <3>3 DEF Refused, Registered, Sending
      <4>3. /\ Unsent(x)' = IF v.pc = "sending" THEN {v.left} ELSE {}
            /\ \A z \in Peers : OneSender(z)' /\ (z # x => Unsent(z)' = Unsent(z))
        BY <1>1, <1>2, <1>3, <4>1, <4>2, CallerSends
      <4> QED  BY <1>5, <3>3, <4>1, <4>3
    <3> QED  BY <3>1, <3>2, <3>3
  <2>2. 0 \in {0, 1} /\ Begin(x, Frame(0, seqnum[x], asked + 1), n)
        /\ Unsent(x)' = IF n = 2 \/ Refused(x, n) THEN Unsent(x)
                        ELSE {SubSeq(Frame(0, seqnum[x], asked + 1), n + 1, 2)}
    BY <1>8, <2>1 DEF f
  <2> HIDE DEF x
  <2> QED  BY <1>1, <1>2, <1>4, <1>8, <2>1, <2>2, BeginFramed
<1> QED  BY <1>2, <1>7, <1>8

\* A caller goes on with its frame, or gives it up on a closed connection.
LEMMA ContinueCallFramed ==
  ASSUME Sound, NEW c \in Callers, ContinueCall(c)
  PROVE  Framed'
<1> DEFINE x == Side(c)
           l == call[c].left
           k == Taken(x, Len(l))
           r == SubSeq(l, k + 1, Len(l))
           v == [call[c] EXCEPT !.left = r, !.pc = IF k = Len(l) THEN "waiting" ELSE @]
<1>1. /\ Types /\ Framed /\ x \in Peers /\ OneSender(x) /\ \A z \in Peers : OneSender(z)
  BY PeersDiffer DEF Sound, Base, Framed
<1>2. /\ call[c].pc = "sending" /\ UNCHANGED <<loop, closed, jobs>>
      /\ \/ closed # {} /\ chan' = chan /\ call' = [call EXCEPT ![c] = Idle]
         \/ /\ x \notin closed /\ Put(x, SubSeq(l, 1, k))
            /\ call' = [call EXCEPT ![c].left = r, ![c].pc = IF k = Len(l) THEN "waiting" ELSE @]
  BY DEF ContinueCall, SendFails
<1>3. call \in [Callers -> Call0] /\ call[c] \in Call0  BY <1>1, CallsTyped
<1>4. l \in Seq(Piece) /\ Len(l) \in Nat  BY <1>3, LenProperties DEF Call0
<1>5. k \in 0 .. Len(l)  BY <1>1, <1>4, TakenBounds
<1> HIDE DEF k
<1>6. l \in Unsent(x)  BY <1>2 DEF Unsent
<1>7. CASE closed # {} /\ chan' = chan /\ call' = [call EXCEPT ![c] = Idle]
  <2>1. \A z \in Peers : OneSender(z)' /\ (z # x => Unsent(z)' = Unsent(z))
    BY <1>1, <1>2, <1>7, CallerSends
  <2> HIDE DEF x
  <2> QED  BY <1>1, <1>2, <1>7, <2>1, GoneFramed
<1>8. CASE /\ x \notin closed /\ Put(x, SubSeq(l, 1, k))
           /\ call' = [call EXCEPT ![c].left = r, ![c].pc = IF k = Len(l) THEN "waiting" ELSE @]
  <2>1. v.left = r /\ v.pc = IF k = Len(l) THEN "waiting" ELSE "sending"  BY <1>2, <1>3 DEF Call0
  <2>2. call' = [call EXCEPT ![c] = v]  BY <1>3, <1>8
  <2> HIDE DEF v
  <2>3. /\ Unsent(x)' = IF v.pc = "sending" THEN {v.left} ELSE {}
        /\ \A z \in Peers : OneSender(z)' /\ (z # x => Unsent(z)' = Unsent(z))
    BY <1>1, <1>2, <2>2, CallerSends
  <2>4. Unsent(x)' = IF k = Len(l) THEN {} ELSE {SubSeq(l, k + 1, Len(l))}  BY <2>1, <2>3
  <2> HIDE DEF x, l
  <2> QED  BY <1>1, <1>2, <1>5, <1>6, <1>8, <2>3, <2>4, ContinueFramed
<1> QED  BY <1>2, <1>7, <1>8

\* A caller that is killed where it tears no frame.
LEMMA KillFramed ==
  ASSUME Sound, Whole', NEW c \in Callers, Kill(c)
  PROVE  Framed'
<1> DEFINE x == Side(c)
<1>1. /\ Types /\ Framed /\ x \in Peers /\ OneSender(x) /\ \A z \in Peers : OneSender(z)
  BY PeersDiffer DEF Sound, Base, Framed
<1>2. UNCHANGED <<loop, closed, jobs, chan>> /\ call' = [call EXCEPT ![c] = Idle]
      /\ (closed = {} /\ call[c].pc = "sending" => Len(call[c].left) # 1)
  <2>1. chan' = chan /\ (closed = {} /\ call[c].pc = "sending" => Len(call[c].left) # 1)
    BY <1>1, KillWhole
  <2> QED  BY <2>1 DEF Kill
<1>3. Idle.pc = "idle" /\ call \in [Callers -> Call0]  BY <1>1, IdleTyped, CallsTyped
<1>4. CASE call[c].pc = "sending"
  <2>1. /\ Unsent(x)' = {} /\ \A z \in Peers : OneSender(z)' /\ (z # x => Unsent(z)' = Unsent(z))
    <3>1. /\ Unsent(x)' = IF Idle.pc = "sending" THEN {Idle.left} ELSE {}
          /\ \A z \in Peers : OneSender(z)' /\ (z # x => Unsent(z)' = Unsent(z))
      BY <1>1, <1>2, <1>4, CallerSends
    <3> QED  BY <1>3, <3>1
  <2>2. Unsent(x) = {call[c].left}  BY <1>1, <1>4, OnlySender
  <2>3. closed # {} \/ ~Halfway(x)  BY <1>2, <1>4, <2>2 DEF Halfway
  <2> HIDE DEF x
  <2> QED  BY <1>1, <1>2, <2>1, <2>3, GoneFramed
<1>5. CASE call[c].pc # "sending"
  <2>1. \A d \in Callers : /\ call'[d].pc = "sending" <=> call[d].pc = "sending"
                           /\ call[d].pc = "sending" => call'[d] = call[d]
    BY <1>2, <1>3, <1>5
  <2>2. \A z \in Peers : Unsent(z)' = Unsent(z) /\ OneSender(z)'  BY <1>1, <1>2, <2>1, SameSenders
  <2> HIDE DEF x
  <2> QED  BY <1>1, <1>2, <2>2, GoneFramed
<1> QED  BY <1>4, <1>5

\* A caller is resumed after its wait: nothing is sent.
LEMMA ResumeFramed ==
  ASSUME Sound, NEW c \in Callers, Resume(c)
  PROVE  Framed'
<1>1. /\ Types /\ Framed /\ Side(c) \in Peers /\ \A z \in Peers : OneSender(z)
  BY PeersDiffer DEF Sound, Base, Framed
<1> DEFINE k == call[c]
           v == IF k.got = Error \/ Answers(k.got, k.seq) THEN Idle
                ELSE [k EXCEPT !.pc = "waiting", !.got = Idle.got]
<1>2. k.pc = "woken" /\ call' = [call EXCEPT ![c] = v] /\ UNCHANGED <<loop, closed, jobs, chan>>
  BY DEF Resume
<1>3. Idle.pc = "idle" /\ call \in [Callers -> Call0] /\ k \in Call0  BY <1>1, IdleTyped, CallsTyped
<1>4. v.pc # "sending"  BY <1>3 DEF Call0
<1> HIDE DEF v
<1>5. \A d \in Callers : /\ call'[d].pc = "sending" <=> call[d].pc = "sending"
                         /\ call[d].pc = "sending" => call'[d] = call[d]
  BY <1>2, <1>3, <1>4
<1>6. \A z \in Peers : Unsent(z)' = Unsent(z) /\ OneSender(z)'  BY <1>1, <1>2, <1>5, SameSenders
<1> QED  BY <1>1, <1>2, <1>6, GoneFramed

\* A signal wakes no task that waits for the socket.
LEMMA WakeSenders ==
  ASSUME NEW x \in Peers, NEW got, call' = Wake(x, got), Types
  PROVE  \A d \in Callers : /\ call'[d].pc = "sending" <=> call[d].pc = "sending"
                            /\ call[d].pc = "sending" => call'[d] = call[d]
<1> SUFFICES ASSUME NEW d \in Callers
             PROVE  /\ call'[d].pc = "sending" <=> call[d].pc = "sending"
                    /\ call[d].pc = "sending" => call'[d] = call[d]
  OBVIOUS
<1>1. call'[d] = IF Side(d) = x /\ call[d].pc = "waiting"
                 THEN [call[d] EXCEPT !.pc = "woken", !.got = got] ELSE call[d]
  BY DEF Wake
<1>2. call[d] \in Call0  BY CallsTyped
<1>3. [call[d] EXCEPT !.pc = "woken", !.got = got].pc = "woken"  BY <1>2 DEF Call0
<1> QED  BY <1>1, <1>3

\* The reader of a session that is in step stays so.
LEMMA LoopFramed ==
  ASSUME Sound, NEW x \in Peers, Loop(x)
  PROVE  Framed'
<1>1. /\ Types /\ Framed /\ InStep(x) /\ \A z \in Peers : OneSender(z)  BY DEF Sound, Base, Framed
<1>2. CASE ReadHeader(x)
  <2>1. chan[x] # <<>> /\ loop[x].pc \in {"header", "adrift"}  BY <1>2 DEF ReadHeader
  <2>2. loop[x].pc = "header"  BY <1>1, <2>1 DEF Types
  <2>3. Head(chan[x]).part = "header"  BY <1>1, <2>1, <2>2, NextPiece
  <2>4. /\ chan' = [chan EXCEPT ![x] = Tail(@)] /\ UNCHANGED <<closed, call, jobs>>
        /\ loop' = [loop EXCEPT ![x] = [pc |-> "payload", head |-> Head(chan[x])]]
    BY <1>2, <2>2, <2>3 DEF ReadHeader
  <2>5. \A z \in Peers : Unsent(z)' = Unsent(z) /\ OneSender(z)'  BY <1>1, <2>4, SameSenders
  <2> QED  BY <1>1, <2>1, <2>2, <2>4, <2>5, ReadFramed
<1>3. CASE ReadPayload(x)
  <2> DEFINE h == loop[x].head
             j == [peer |-> x, seq |-> h.seq, id |-> h.id, left |-> Run]
             got == [seq |-> h.seq, id |-> h.id]
  <2>1. chan[x] # <<>> /\ loop[x].pc = "payload"  BY <1>3 DEF ReadPayload
  <2>2. Head(chan[x]) = [h EXCEPT !.part = "payload"]  BY <1>1, <2>1, NextPiece
  <2>3. /\ chan' = [chan EXCEPT ![x] = Tail(@)] /\ UNCHANGED closed
        /\ loop' = [loop EXCEPT ![x] = [pc |-> "header", head |-> <<>>]]
        /\ \/ jobs' = jobs \cup {j} /\ UNCHANGED call
           \/ call' = Wake(x, got) /\ UNCHANGED jobs
    BY <1>3, <2>2 DEF ReadPayload
  <2>4. j.left = Run  OBVIOUS
  <2> HIDE DEF j, got
  <2>5. \A z \in Peers : Unsent(z)' = Unsent(z) /\ OneSender(z)'
    <3>1. \A i : i.left # Run => (i \in jobs' <=> i \in jobs)  BY <2>3, <2>4
    <3>2. \A d \in Callers : /\ call'[d].pc = "sending" <=> call[d].pc = "sending"
                             /\ call[d].pc = "sending" => call'[d] = call[d]
      BY <1>1, <2>3, WakeSenders
    <3> QED  BY <1>1, <3>1, <3>2, SameSenders
  <2> QED  BY <1>1, <2>1, <2>3, <2>5, ReadFramed
<1>4. CASE EndLoop(x)
  <2>1. /\ loop' = [loop EXCEPT ![x] = [pc |-> "ended", head |-> <<>>]]
        /\ closed' = closed \cup {x} /\ chan' = [chan EXCEPT ![x] = <<>>]
        /\ call' = Wake(x, Error) /\ UNCHANGED jobs
    BY <1>4 DEF EndLoop, WakeAtEnd
  <2>2. \A z \in Peers : OneSender(z)'
    <3>1. \A d \in Callers : /\ call'[d].pc = "sending" <=> call[d].pc = "sending"
                             /\ call[d].pc = "sending" => call'[d] = call[d]
      BY <1>1, <2>1, WakeSenders
    <3> QED  BY <1>1, <2>1, <3>1, SameSenders
  <2>3. closed' # {} /\ closed' \subseteq Peers  BY <1>1, <2>1 DEF Framed
  <2>4. /\ chan'[x] = <<>> /\ loop'[x].pc = "ended"
        /\ \A z \in Peers : z # x => chan'[z] = chan[z] /\ loop'[z] = loop[z]
    BY <1>1, <2>1 DEF Types
  <2>5. InStep(x)'
    <3>1. \A i \in 1 .. Len(<<>>) : FALSE  OBVIOUS
    <3>2. \A i \in 1 .. Len(chan'[x]) : FALSE  BY <2>4, <3>1
    <3> QED  BY <2>4, <3>2 DEF InStep, Chained
  <2>6. ASSUME NEW z \in Peers, z # x PROVE InStep(z)'
    <3>1. chan'[z] = chan[z] /\ loop'[z] = loop[z] /\ InStep(z)  BY <1>1, <2>4, <2>6 DEF Framed
    <3> QED  BY <3>1, SameStream
  <2> QED  BY <2>2, <2>3, <2>5, <2>6 DEF Framed
<1> QED  BY <1>2, <1>3, <1>4 DEF Loop

\* An answer, whose two sends tear no frame.
LEMMA ExecuteFramed ==
  ASSUME Sound, Whole', NEW j \in jobs, Execute(j)
  PROVE  Framed'
<1> DEFINE x == j.peer
           f == Frame(1, j.seq, j.id)
           n == Taken(x, 2)
           i == [j EXCEPT !.left = SubSeq(f, n + 1, 2)]
<1>1. /\ Types /\ Framed /\ \A z \in Peers : OneSender(z)  BY DEF Sound, Base, Framed
<1>2. j \in Jobs /\ x \in Peers /\ j.seq \in Numbers /\ j.id \in Nat  BY <1>1 DEF Types, Jobs
<1>3. /\ j.left = Run /\ UNCHANGED <<loop, closed, call>>
      /\ \/ chan' = chan /\ jobs' = jobs \ {j}
         \/ /\ x \notin closed /\ Begin(x, f, n)
            /\ jobs' = (jobs \ {j}) \cup (IF n = 2 \/ Refused(x, n) THEN {} ELSE {i})
  BY DEF Execute
<1>4. n \in 0 .. 2  BY <1>1, <1>2, TakenBounds
<1>5. i.peer = x /\ i.left = SubSeq(f, n + 1, 2)  BY <1>2 DEF Jobs
<1>6. f \in Seq(Piece) /\ Len(f) = 2  BY <1>2, FramePieces
<1> HIDE DEF i, n
<1>7. ASSUME jobs' = jobs \ {j} PROVE \A z \in Peers : Unsent(z)' = Unsent(z) /\ OneSender(z)'
  <2>1. \A k : k.left # Run => (k \in jobs' <=> k \in jobs)  BY <1>3, <1>7
  <2> QED  BY <1>1, <1>3, <2>1, SameSenders
<1>8. CASE chan' = chan /\ jobs' = jobs \ {j}  BY <1>1, <1>2, <1>3, <1>7, <1>8, GoneFramed
<1>9. CASE /\ x \notin closed /\ Begin(x, f, n)
           /\ jobs' = (jobs \ {j}) \cup (IF n = 2 \/ Refused(x, n) THEN {} ELSE {i})
  <2>1. /\ \A z \in Peers : OneSender(z)' /\ (z # x => Unsent(z)' = Unsent(z))
        /\ Unsent(x)' = IF n = 2 \/ Refused(x, n) THEN Unsent(x) ELSE {SubSeq(f, n + 1, 2)}
    <3>1. CASE n = 2 \/ Refused(x, n)
      <4>1. jobs' = jobs \ {j}  BY <1>9, <3>1
      <4> QED  BY <1>2, <1>7, <3>1, <4>1
    <3>2. CASE ~(n = 2 \/ Refused(x, n))
      <4>1. jobs' = (jobs \ {j}) \cup {i}  BY <1>9, <3>2
      <4>2. Unsent(x) = {}  BY <1>4, <3>2 DEF Refused, Registered, Sending
      <4>3. /\ Unsent(x)' = {m.left : m \in {k \in {i} : k.left # Run}}
            /\ \A z \in Peers : OneSender(z)' /\ (z # x => Unsent(z)' = Unsent(z))
        <5> DEFINE X == {i}
        <5>1. (\A m \in X : m.peer = j.peer) /\ (\A m, k \in X : m = k)  BY <1>5
        <5>2. jobs' = (jobs \ {j}) \cup X  BY <4>1
        <5> HIDE DEF X
        <5>3. /\ Unsent(j.peer)' = {m.left : m \in {k \in X : k.left # Run}}
              /\ \A z \in Peers : OneSender(z)' /\ (z # j.peer => Unsent(z)' = Unsent(z))
          BY <1>1, <1>3, <4>2, <5>1, <5>2, JobSends
        <5> QED  BY <5>3 DEF X
      <4>4. i.left # Run
        <5>1. Len(i.left) = 2 - n
          <6>1. 2 \in Int /\ \A k \in n + 1 .. 2 : f[k] \in Piece
            BY <1>4, <1>6, LenProperties
          <6>2. n + 1 \in Int  BY <1>4
          <6>3. Len(SubSeq(f, n + 1, 2)) = IF n + 1 <= 2 THEN 2 - (n + 1) + 1 ELSE 0
            <7> HIDE DEF f
            <7> QED  BY <6>1, <6>2, SubSeqProperties
          <6> QED  BY <1>4, <1>5, <6>3
        <5>2. Len(i.left) # 0 /\ Len(<<>>) = 0  BY <1>4, <3>2, <5>1
        <5> QED  BY <5>2 DEF Run
      <4>5. {m.left : m \in {k \in {i} : k.left # Run}} = {i.left}  BY <4>4
      <4> QED  BY <1>5, <3>2, <4>3, <4>5
    <3> QED  BY <3>1, <3>2
  <2>2. 1 \in {0, 1}  OBVIOUS
  <2> HIDE DEF x
  <2> QED  BY <1>1, <1>2, <1>3, <1>4, <1>9, <2>1, <2>2, BeginFramed
<1> QED  BY <1>3, <1>8, <1>9

\* An execution goes on with its answer, or gives it up.
LEMMA ContinueExecuteFramed ==
  ASSUME Sound, NEW j \in jobs, ContinueExecute(j)
  PROVE  Framed'
<1> DEFINE x == j.peer
           l == j.left
           k == Taken(x, Len(l))
           i == [j EXCEPT !.left = SubSeq(l, k + 1, Len(l))]
           X == {i : m \in k + 1 .. Len(l)}
<1>1. /\ Types /\ Framed /\ \A z \in Peers : OneSender(z)  BY DEF Sound, Base, Framed
<1>2. j \in Jobs /\ x \in Peers /\ l \in Seq(Piece) /\ Len(l) \in Nat
  BY <1>1, LenProperties DEF Types, Jobs
<1>3. /\ l # Run /\ UNCHANGED <<loop, closed, call>>
      /\ \/ closed # {} /\ chan' = chan /\ jobs' = jobs \ {j}
         \/ x \notin closed /\ Put(x, SubSeq(l, 1, k)) /\ jobs' = (jobs \ {j}) \cup X
  BY DEF ContinueExecute, SendFails
<1>4. k \in 0 .. Len(l)  BY <1>1, <1>2, TakenBounds
<1>5. i.peer = x /\ i.left = SubSeq(l, k + 1, Len(l))  BY <1>2 DEF Jobs
<1>6. l \in Unsent(x)  BY <1>2, <1>3 DEF Unsent
<1> HIDE DEF i, k
<1>7. X = IF k = Len(l) THEN {} ELSE {i}
  <2>1. k = Len(l) => k + 1 .. Len(l) = {}  BY <1>2, <1>4
  <2>2. k # Len(l) => Len(l) \in k + 1 .. Len(l)  BY <1>2, <1>4
  <2> QED  BY <2>1, <2>2
<1> HIDE DEF X
<1>8. CASE closed # {} /\ chan' = chan /\ jobs' = jobs \ {j}
  <2>1. jobs' = (jobs \ {j}) \cup {}  BY <1>8
  <2>2. \A z \in Peers : OneSender(z)' /\ (z # x => Unsent(z)' = Unsent(z))
    <3> DEFINE Y == {}
    <3>1. (\A m \in Y : m.peer = j.peer) /\ (\A m, n \in Y : m = n)  OBVIOUS
    <3>2. jobs' = (jobs \ {j}) \cup Y  BY <2>1
    <3> HIDE DEF Y
    <3> QED  BY <1>1, <1>3, <3>1, <3>2, JobSends
  <2> QED  BY <1>1, <1>2, <1>3, <1>8, <2>2, GoneFramed
<1>9. CASE x \notin closed /\ Put(x, SubSeq(l, 1, k)) /\ jobs' = (jobs \ {j}) \cup X
  <2>1. /\ Unsent(x)' = {m.left : m \in {n \in X : n.left # Run}}
        /\ \A z \in Peers : OneSender(z)' /\ (z # x => Unsent(z)' = Unsent(z))
    <3>1. (\A m \in X : m.peer = j.peer) /\ (\A m, n \in X : m = n)  BY <1>5, <1>7
    <3> QED  BY <1>1, <1>3, <1>9, <3>1, JobSends
  <2>2. Unsent(x)' = IF k = Len(l) THEN {} ELSE {SubSeq(l, k + 1, Len(l))}
    <3>1. CASE k = Len(l)  BY <1>7, <2>1, <3>1
    <3>2. CASE k # Len(l)
      <4>1. i.left # Run
        <5>1. Len(i.left) = Len(l) - k
          <6>1. Len(l) \in Int /\ k + 1 \in Int /\ \A m \in k + 1 .. Len(l) : l[m] \in Piece
            BY <1>2, <1>4, LenProperties
          <6>2. Len(SubSeq(l, k + 1, Len(l)))
                  = IF k + 1 <= Len(l) THEN Len(l) - (k + 1) + 1 ELSE 0
            <7> HIDE DEF l
            <7> QED  BY <6>1, SubSeqProperties
          <6> QED  BY <1>2, <1>4, <1>5, <3>2, <6>2
        <5>2. Len(i.left) # 0 /\ Len(<<>>) = 0  BY <1>2, <1>4, <3>2, <5>1
        <5> QED  BY <5>2 DEF Run
      <4>2. X = {i}  BY <1>7, <3>2
      <4>3. {m.left : m \in {n \in X : n.left # Run}} = {i.left}  BY <4>1, <4>2
      <4> QED  BY <1>5, <2>1, <3>2, <4>3
    <3> QED  BY <3>1, <3>2
  <2> HIDE DEF x, l
  <2> QED  BY <1>1, <1>2, <1>3, <1>4, <1>6, <1>9, <2>1, <2>2, ContinueFramed
<1> QED  BY <1>3, <1>8, <1>9

\* What was on its way stays so, and nothing is sent any more.
LEMMA CloseFramed ==
  ASSUME Sound, NEW x \in Peers, Close(x)
  PROVE  Framed'
<1>1. closed' = {x} /\ UNCHANGED <<chan, loop, call, jobs>>  BY DEF Close
<1>2. \A z \in Peers : OneSender(z)' /\ InStep(z)'
  <2>1. \A z \in Peers : OneSender(z) /\ InStep(z)  BY DEF Sound, Framed
  <2>2. \A z \in Peers : InStep(z)' = InStep(z)  BY <1>1, SameStream
  <2> QED  BY <1>1, <2>1, <2>2 DEF OneSender
<1>3. closed' # {} /\ closed' \subseteq Peers  BY <1>1
<1> QED  BY <1>2, <1>3 DEF Framed

-----------------------------------------------------------------------------
(* The specification *)

\* Nothing is in use at first, and nothing on its way.
LEMMA InitSound == Init => Sound
<1> SUFFICES ASSUME Init PROVE Sound  OBVIOUS
<1>1. 0 \in Numbers /\ use \in Instances /\ use.capacity \in Nat
  BY RpcConstants DEF Numbers, Init
<1>2. <<>> \in Seq(Piece) /\ <<>> \in Seq(Nat) /\ Len(<<>>) = 0 /\ \A i \in DOMAIN (<<>>) : FALSE
  OBVIOUS
<1>3. Idle \in Call0 /\ Idle.pc = "idle" /\ \A type, s, n : AllBear(Idle.left, type, s, n)
  BY IdleTyped
<1>4. call \in [Callers -> Call0] /\ \A c \in Callers : call[c] = Idle  BY <1>3 DEF Init
<1>5. Types  BY <1>1, <1>2, <1>4 DEF Init, Types, Call0
<1>6. OneCall
  BY <1>2, <1>3, <1>4, PeersDiffer DEF Init, OneCall, InUse, Called, Executed, Carried, Held
<1>7. LeftIsOwn /\ GotIsOwn  BY <1>3, <1>4 DEF Init, LeftIsOwn, GotIsOwn
<1>8. Own  BY DEF Init, Own
<1>9. Framed
  <2>1. ASSUME NEW x \in Peers PROVE InStep(x) /\ OneSender(x) /\ SendsWell(x)
    <3>1. \A z \in Peers : chan[z] = <<>> /\ loop[z].pc = "header"  BY DEF Init
    <3>2. Unsent(x) = {} /\ OneSender(x)  BY <1>3, <1>4 DEF Init, Unsent, OneSender
    <3>3. \A z \in Peers : InStep(z) /\ End(z) = Scrap
      <4>1. \A i \in 1 .. Len(<<>>) : FALSE  OBVIOUS
      <4> QED  BY <3>1, <4>1 DEF InStep, Chained, End, Tip, Hold
    <3>4. Other(x) \in Peers /\ Scrap.part # "header"  BY PeersDiffer DEF Scrap
    <3> QED  BY <3>2, <3>3, <3>4 DEF SendsWell
  <2> QED  BY <2>1 DEF Init, Framed
<1> QED  BY <1>5, <1>6, <1>7, <1>8, <1>9 DEF Sound, Base

\* A step that changes nothing of what Base is about.
LEMMA SameBase ==
  ASSUME Base, UNCHANGED <<use, seqnum, chan, loop, call, jobs, asked, returned>>
  PROVE  Base'
<1>1. Types'  BY DEF Base, Types
<1>2. OneCall'
  <2>1. \A x \in Peers : \A s, n : InUse(x, s, n)' = InUse(x, s, n)
    BY DEF InUse, Called, Executed, Carried, Held, Bears
  <2> QED  BY <2>1 DEF Base, OneCall
<1>3. LeftIsOwn' /\ GotIsOwn' /\ Own'
  BY DEF Base, LeftIsOwn, AllBear, Bears, GotIsOwn, Own
<1> QED  BY <1>1, <1>2, <1>3 DEF Base

\* Every step that tears no frame keeps what is to be proved.
LEMMA NextSound ==
  ASSUME Sound, [Next]_vars, FreeNumbers, Whole'
  PROVE  Sound'
<1>1. ASSUME NEW c \in Callers, Call(c) PROVE Sound'  BY <1>1, CallSound, CallFramed DEF Sound
<1>2. ASSUME NEW c \in Callers, ContinueCall(c) PROVE Sound'
  BY <1>2, ContinueCallSound, ContinueCallFramed DEF Sound
<1>3. ASSUME NEW c \in Callers, Resume(c) PROVE Sound'  BY <1>3, ResumeSound, ResumeFramed DEF Sound
<1>4. ASSUME NEW c \in Callers, Kill(c) PROVE Sound'  BY <1>4, KillSound, KillFramed DEF Sound
<1>5. ASSUME NEW x \in Peers, Loop(x) PROVE Sound'
  <2>1. Base /\ InStep(x) /\ Framed'  BY <1>5, LoopFramed DEF Sound, Framed
  <2> QED  BY <1>5, <2>1, ReadHeaderSound, ReadPayloadSound, EndLoopSound DEF Loop, Sound
<1>6. ASSUME NEW x \in Peers, Serve(x) PROVE Sound'
  BY <1>6, ExecuteSound, ExecuteFramed, ContinueExecuteSound, ContinueExecuteFramed
     DEF Serve, Sound
<1>7. ASSUME NEW x \in Peers, Close(x) PROVE Sound'
  <2>1. Framed'  BY <1>7, CloseFramed
  <2> QED  BY <1>7, <2>1, SameBase DEF Close, Sound
<1>8. CASE UNCHANGED vars
  <2>1. Base'  BY <1>8, SameBase DEF vars, Sound
  <2>2. \A x \in Peers : Unsent(x)' = Unsent(x) /\ OneSender(x)' /\ InStep(x)' /\ End(x)' = End(x)
    BY <1>8 DEF vars, Sound, Framed, Unsent, OneSender, InStep, End, Hold, Tip, Chained
  <2>3. \A x \in Peers : SendsWell(x) => SendsWell(x)'
    BY <2>2, PeersDiffer, SendsSame
  <2> QED  BY <1>8, <2>1, <2>2, <2>3 DEF vars, Sound, Framed
<1> QED  BY <1>1, <1>2, <1>3, <1>4, <1>5, <1>6, <1>7, <1>8 DEF Next

\* A frame that is torn stays so.
LEMMA WholeBefore ==
  ASSUME [Next]_vars, Whole'
  PROVE  Whole
<1>1. ASSUME NEW x, NEW f, NEW n, Begin(x, f, n) PROVE harm \subseteq harm'  BY <1>1 DEF Begin
<1>2. harm \subseteq harm'
  <2>1. ASSUME NEW c \in Callers, Call(c) \/ ContinueCall(c) \/ Resume(c) \/ Kill(c)
        PROVE  harm \subseteq harm'
    BY <1>1, <2>1 DEF Call, ContinueCall, Resume, Kill
  <2>2. ASSUME NEW x \in Peers, Loop(x) \/ Serve(x) \/ Close(x)
        PROVE  harm \subseteq harm'
    BY <1>1, <2>2 DEF Loop, ReadHeader, ReadPayload, EndLoop, Serve, Execute, ContinueExecute, Close
  <2> QED  BY <2>1, <2>2 DEF Next, vars
<1> QED  BY <1>2 DEF Whole

\* Until a frame is torn, by a kill, a send that the socket refuses or a frame begun
\* inside another (common.lua:218-220), what is sent to a peer is whole frames, one
\* task at most is in the middle of one, and the peer's reader is in step: it takes
\* headers for headers and payloads for payloads (sched.lua:33-57).
THEOREM FramesWhole == FreeNumbers => (Spec => [](Whole => Framed))
<1> SUFFICES ASSUME FreeNumbers PROVE Spec => [](Whole => Framed)  OBVIOUS
<1> DEFINE I == Whole => Sound
<1>1. Init => I  BY InitSound
<1>2. I /\ [Next]_vars => I'  BY NextSound, WholeBefore
<1>3. I => (Whole => Framed)  BY DEF Sound
<1> HIDE DEF I
<1> QED  BY <1>1, <1>2, <1>3, PTL DEF Spec

\* Unless a number is given again while an older call still uses it
\* (sched.lua:39), and until a frame is torn, what a call returns is its own answer
\* or a failure: for any callers, any modulus, any connection and any number of
\* calls, whatever callers are killed, sends cut or refused, and whoever closes.
THEOREM OwnAnswers == FreeNumbers => (Spec => []AnswersOwn)
<1> SUFFICES ASSUME FreeNumbers PROVE Spec => []AnswersOwn  OBVIOUS
<1> DEFINE I == Whole => Sound
<1>1. Init => I  BY InitSound
<1>2. I /\ [Next]_vars => I'  BY NextSound, WholeBefore
<1>3. I => AnswersOwn  BY DEF Sound, Base, Own, Whole, AnswersOwn
<1> HIDE DEF I
<1> QED  BY <1>1, <1>2, <1>3, PTL DEF Spec
=============================================================================
