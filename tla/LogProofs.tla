------------------------------ MODULE LogProofs ------------------------------
(***************************************************************************)
(* Theorems about LogStore, for every size of the ring, of the files and   *)
(* of the logs, and every number of logs and restarts: what the ring and   *)
(* the files hold. A ring where logs are Laid is described from their      *)
(* sizes alone: from `first` on, each log is its size in two bytes, then   *)
(* its bytes, and the last one ends where `current` is, any of which may   *)
(* be cut in two by the end of the ring. The loops that read the ring and  *)
(* that make room in it are followed turn by turn, by induction.           *)
(***************************************************************************)
EXTENDS LogStore, SequenceTheorems, WellFoundedInduction, TLAPS

(* Induction, and recursion, on the number of turns of a loop. *)

(* A set of naturals which is not empty has a smallest element. *)
LEMMA Smallest ==
    ASSUME NEW T \in SUBSET Nat, T # {}
    PROVE  \E x \in T : \A y \in T : x <= y
<1> DEFINE R == {p \in Nat \X Nat : p[1] < p[2]}
<1>1. R = OpToRel(<, Nat)
  BY Zenon DEF OpToRel
<1>2. IsWellFoundedOn(R, Nat)
  BY <1>1, NatLessThanWellFounded, Zenon
<1> HIDE DEF R
<1>3. PICK x \in T : \A y \in T : ~ (<<y, x>> \in R)
  BY <1>2, WFMin, Zenon
<1> USE DEF R
<1>4. \A y \in T : ~ (y < x)
  BY <1>3
<1> QED  BY <1>4

(* What holds of 0 and of the successor of what it holds of, holds of every
   natural: a set stands for the property. *)
LEMMA Induct ==
  ASSUME NEW S, 0 \in S, \A n \in Nat : n \in S => n + 1 \in S
  PROVE  \A n \in Nat : n \in S
<1> SUFFICES ASSUME NEW n \in Nat, n \notin S PROVE FALSE  OBVIOUS
<1> DEFINE T == Nat \ S
<1>1. T \in SUBSET Nat /\ T # {}  OBVIOUS
<1>2. PICK m \in T : \A k \in T : m <= k  BY <1>1, Smallest
<1>3. m # 0 /\ m \in Nat /\ m - 1 \in Nat  BY <1>2
<1>4. m - 1 \in S  BY <1>2, <1>3
<1>5. (m - 1) + 1 = m  BY <1>3
<1>6. m \in S  BY <1>3, <1>4, <1>5
<1> QED  BY <1>2, <1>6

(* The turns of a loop from x, of which g is one: the function defined by
   recursion on their number exists. *)
LEMMA Iterate ==
  ASSUME NEW S, NEW x \in S, NEW g \in [S -> S]
  PROVE  \E f : f = [n \in Nat |-> IF n = 0 THEN x ELSE g[f[n - 1]]] /\ f \in [Nat -> S]
<1> DEFINE Run(p, n) == /\ p \in [0 .. n -> S] /\ p[0] = x
                        /\ \A k \in 0 .. n - 1 : p[k + 1] = g[p[k]]
<1>1. \A n \in Nat : \E p : Run(p, n)
  <2> DEFINE A == {n \in Nat : \E p : Run(p, n)}
  <2>1. 0 \in A
    <3>1. Run([k \in 0 .. 0 |-> x], 0)  OBVIOUS
    <3> QED  BY <3>1
  <2>2. ASSUME NEW n \in Nat, n \in A PROVE n + 1 \in A
    <3>1. PICK p : Run(p, n)  BY <2>2
    <3> DEFINE q == [k \in 0 .. n + 1 |-> IF k = n + 1 THEN g[p[n]] ELSE p[k]]
    <3>2. \A k \in 0 .. n : p[k] \in S /\ k # n + 1 /\ k \in 0 .. n + 1 /\ q[k] = p[k]
      BY <3>1
    <3>3. q \in [0 .. n + 1 -> S]
      <4>1. \A k \in 0 .. n + 1 : k = n + 1 \/ k \in 0 .. n  OBVIOUS
      <4>2. n \in 0 .. n  OBVIOUS
      <4> QED  BY <3>2, <4>1, <4>2
    <3>4. q[0] = x  BY <3>1, <3>2
    <3>5. ASSUME NEW k \in 0 .. n PROVE q[k + 1] = g[q[k]]
      <4>1. CASE k = n  BY <3>2, <4>1
      <4>2. CASE k # n
        <5>1. k \in 0 .. n - 1 /\ k + 1 \in 0 .. n  BY <4>2
        <5> QED  BY <3>1, <3>2, <5>1
      <4> QED  BY <4>1, <4>2
    <3>6. Run(q, n + 1)
      <4>1. (n + 1) - 1 = n  OBVIOUS
      <4> QED  BY <3>3, <3>4, <3>5, <4>1
    <3> HIDE DEF q, Run
    <3>7. \E p2 : Run(p2, n + 1)  BY <3>6
    <3> QED  BY <3>7
  <2> HIDE DEF A
  <2>3. \A n \in Nat : n \in A  BY <2>1, <2>2, Induct
  <2> QED  BY <2>3 DEF A
<1>2. ASSUME NEW n \in Nat, NEW m \in Nat, NEW p, NEW q, Run(p, n), Run(q, m)
      PROVE  \A k \in Nat : k <= n /\ k <= m => p[k] = q[k]
  <2> DEFINE A == {k \in Nat : k <= n /\ k <= m => p[k] = q[k]}
  <2>1. 0 \in A  BY <1>2
  <2>2. ASSUME NEW k \in Nat, k \in A PROVE k + 1 \in A
    <3> SUFFICES ASSUME k + 1 <= n, k + 1 <= m PROVE p[k + 1] = q[k + 1]  OBVIOUS
    <3>1. k \in 0 .. n - 1 /\ k \in 0 .. m - 1 /\ k <= n /\ k <= m  OBVIOUS
    <3> QED  BY <1>2, <2>2, <3>1
  <2> HIDE DEF A
  <2>3. \A k \in Nat : k \in A  BY <2>1, <2>2, Induct
  <2> QED  BY <2>3 DEF A
<1> DEFINE c(n) == CHOOSE p : Run(p, n)
           f == [n \in Nat |-> c(n)[n]]
<1>3. \A n \in Nat : Run(c(n), n)  BY <1>1
<1> HIDE DEF c
<1>4. ASSUME NEW n \in Nat PROVE f[n] = IF n = 0 THEN x ELSE g[f[n - 1]]
  <2>1. CASE n = 0  BY <1>3, <2>1
  <2>2. CASE n # 0
    <3>1. n - 1 \in Nat /\ n - 1 \in 0 .. n - 1 /\ (n - 1) + 1 = n /\ n - 1 <= n  BY <2>2
    <3>2. c(n)[(n - 1) + 1] = g[c(n)[n - 1]]  BY <1>3, <3>1
    <3>3. Run(c(n), n) /\ Run(c(n - 1), n - 1)  BY <1>3, <3>1
    <3> HIDE DEF Run
    <3>4. \A k \in Nat : k <= n /\ k <= n - 1 => c(n)[k] = c(n - 1)[k]  BY <1>2, <3>1, <3>3
    <3>5. c(n)[n - 1] = c(n - 1)[n - 1]  BY <3>1, <3>4
    <3> QED  BY <2>2, <3>1, <3>2, <3>5
  <2> QED  BY <2>1, <2>2
<1>5. f \in [Nat -> S]
  <2>1. \A n \in Nat : n \in 0 .. n  OBVIOUS
  <2>2. \A n \in Nat : c(n) \in [0 .. n -> S]  BY <1>3
  <2>3. \A n \in Nat : c(n)[n] \in S  BY <2>1, <2>2
  <2> QED  BY <2>3
<1>6. f = [n \in Nat |-> IF n = 0 THEN x ELSE g[f[n - 1]]]
  <2> DEFINE h == [n \in Nat |-> IF n = 0 THEN x ELSE g[f[n - 1]]]
  <2>1. DOMAIN f = Nat /\ DOMAIN h = Nat /\ \A n \in Nat : f[n] = h[n]  BY <1>4
  <2> QED  BY <2>1
<1> QED  BY <1>5, <1>6

-----------------------------------------------------------------------------
(* A reading, turn by turn.                                                *)
LEMMA ReadingTurns ==
  ASSUME NEW r, NEW S, [offset |-> r.first, bytes |-> <<>>] \in S,
         \A s \in S : ReadOne(r, s) \in S
  PROVE  /\ Reading(r)[0] = [offset |-> r.first, bytes |-> <<>>]
         /\ \A n \in Nat : Reading(r)[n + 1] = ReadOne(r, Reading(r)[n])
<1> DEFINE x == [offset |-> r.first, bytes |-> <<>>]
           g == [s \in S |-> ReadOne(r, s)]
           Read(f) == f = [n \in Nat |-> IF n = 0 THEN x ELSE ReadOne(r, f[n - 1])]
<1>1. g \in [S -> S] /\ x \in S  OBVIOUS
<1> HIDE DEF g
<1>2. PICK f : f = [n \in Nat |-> IF n = 0 THEN x ELSE g[f[n - 1]]] /\ f \in [Nat -> S]
  BY <1>1, Iterate
<1>3. Read(f)
  <2>1. \A n \in Nat : n # 0 => n - 1 \in Nat  OBVIOUS
  <2>2. \A n \in Nat : n # 0 => g[f[n - 1]] = ReadOne(r, f[n - 1])  BY <1>2, <2>1 DEF g
  <2> HIDE DEF x
  <2> QED  BY <1>2, <2>2
<1>4. Reading(r) = CHOOSE e : Read(e)  BY DEF Reading
<1>5. Read(Reading(r))  BY <1>3, <1>4
<1>6. \A n \in Nat : n + 1 \in Nat /\ n + 1 # 0 /\ (n + 1) - 1 = n  OBVIOUS
<1> QED  BY <1>5, <1>6

(* Making room, turn by turn.                                              *)
LEMMA FreeingTurns ==
  ASSUME NEW r, NEW space, NEW S, [first |-> r.first, space |-> space] \in S,
         \A s \in S : FreeOne(r, s) \in S
  PROVE  /\ Freeing(r, space)[0] = [first |-> r.first, space |-> space]
         /\ \A n \in Nat : Freeing(r, space)[n + 1] = FreeOne(r, Freeing(r, space)[n])
<1> DEFINE x == [first |-> r.first, space |-> space]
           g == [s \in S |-> FreeOne(r, s)]
           Freed(f) == f = [n \in Nat |-> IF n = 0 THEN x ELSE FreeOne(r, f[n - 1])]
<1>1. g \in [S -> S] /\ x \in S  OBVIOUS
<1> HIDE DEF g
<1>2. PICK f : f = [n \in Nat |-> IF n = 0 THEN x ELSE g[f[n - 1]]] /\ f \in [Nat -> S]
  BY <1>1, Iterate, ZenonT(60)
<1>3. Freed(f)
  <2>1. \A n \in Nat : n # 0 => n - 1 \in Nat  OBVIOUS
  <2>2. \A n \in Nat : n # 0 => g[f[n - 1]] = FreeOne(r, f[n - 1])  BY <1>2, <2>1 DEF g
  <2> HIDE DEF x
  <2> QED  BY <1>2, <2>2
<1>4. Freeing(r, space) = CHOOSE e : Freed(e)  BY DEF Freeing
<1>5. Freed(Freeing(r, space))  BY <1>3, <1>4
<1>6. \A n \in Nat : n + 1 \in Nat /\ n + 1 # 0 /\ (n + 1) - 1 = n  OBVIOUS
<1> QED  BY <1>5, <1>6

------------------------------------------------------------------------------
(* A ring where logs are laid. *)

Wrap(i) == IF i < buf_size THEN i ELSE i - buf_size

\* What the first n logs took, when the logs took e, and their contents.
At(e, n) == IF n = 0 THEN 0 ELSE e[n]
Content(e, n) == At(e, n) - Header * n

Rings == [buf : [0 .. buf_size -> Nat], current : 0 .. buf_size - 1, first : 0 .. buf_size - 1]

\* Each log takes a header and a byte at least.
Ends(e) ==
  /\ e \in Seq(Nat)
  /\ \A i, j \in 0 .. Len(e) : i <= j => At(e, j) - At(e, i) >= (Header + 1) * (j - i)

\* The i-th log is where the n-th ends plus what is between, with the bytes acc says.
Written(r, e, n, acc, i) ==
  LET d == r.first + At(e, i - 1) - At(e, n)
      size == At(e, i) - At(e, i - 1) - Header
      a == Len(acc) - Content(e, Len(e)) + Content(e, i - 1)
  IN /\ r.buf[Wrap(d)] = size % 256
     /\ r.buf[Wrap(d + 1)] = size \div 256
     /\ \A k \in 1 .. size : r.buf[Wrap(d + 1 + k)] = acc[a + k]

\* The logs took e, the ring holds all but the first n of them, and their bytes
\* are the last ones of acc.
Laid(r, e, n, acc) ==
  /\ r \in Rings /\ Ends(e) /\ acc \in Seq(Nat) /\ n \in 0 .. Len(e)
  /\ At(e, Len(e)) - At(e, n) < buf_size
  /\ r.current = Wrap(r.first + (At(e, Len(e)) - At(e, n)))
  /\ Content(e, Len(e)) <= Len(acc)
  /\ \A i \in n + 1 .. Len(e) : Written(r, e, n, acc, i)

(* The remainder of what is less than two turns of the ring.               *)
LEMMA WrapMod ==
  ASSUME NEW i \in 0 .. 2 * buf_size - 1
  PROVE  i % buf_size = Wrap(i) /\ Wrap(i) \in 0 .. buf_size - 1
<1>0. buf_size \in Nat \ {0}  BY LogConstants
<1>1. CASE i < buf_size
  <2>1. i \in 0 .. buf_size - 1  BY <1>0, <1>1
  <2>2. i % buf_size = i  BY <1>0, <2>1
  <2> QED  BY <1>0, <1>1, <2>1, <2>2 DEF Wrap
<1>2. CASE i >= buf_size
  <2> DEFINE j == i - buf_size
  <2>1. j \in 0 .. buf_size - 1 /\ i = j + buf_size  BY <1>0, <1>2
  <2> HIDE DEF j
  <2>2. j % buf_size = j  BY <1>0, <2>1
  <2>3. (j + buf_size) % buf_size = j % buf_size  BY <1>0, <2>1
  <2> QED  BY <1>0, <1>2, <2>1, <2>2, <2>3 DEF Wrap
<1> QED  BY <1>0, <1>1, <1>2

(* Going on from where a step in the ring ended.                           *)
LEMMA WrapOn ==
  ASSUME NEW i \in Nat, NEW j \in Nat, i < 2 * buf_size, i + j < 2 * buf_size
  PROVE  /\ Wrap(Wrap(i) + j) = Wrap(i + j) /\ Wrap(i) + j \in 0 .. 2 * buf_size - 1
         /\ Wrap(i) \in 0 .. buf_size - 1 /\ Wrap(i + j) \in 0 .. buf_size - 1
BY LogConstants DEF Wrap

(* Two cells less than a turn apart are two.                               *)
LEMMA WrapApart ==
  ASSUME NEW f \in 0 .. buf_size - 1, NEW i \in 0 .. buf_size - 1, NEW j \in 0 .. buf_size - 1
  PROVE  Wrap(f + i) = Wrap(f + j) => i = j
BY LogConstants DEF Wrap

(* What the first logs took is a number.                                   *)
LEMMA AtNat ==
  ASSUME NEW e, Ends(e), NEW i \in 0 .. Len(e)
  PROVE  At(e, i) \in Nat
<1>1. i = 0 \/ (i \in 1 .. Len(e) /\ i # 0)  BY DEF Ends
<1>2. i \in 1 .. Len(e) => e[i] \in Nat  BY ElementOfSeq DEF Ends
<1> QED  BY <1>1, <1>2 DEF At

(* A size is what its two bytes say.                                       *)
LEMMA HighLow ==
  ASSUME NEW n \in Nat
  PROVE  (n % 256) + 256 * (n \div 256) = n /\ n % 256 \in Nat /\ n \div 256 \in Nat
OBVIOUS

(* The size of a log is read where it is.                                  *)
LEMMA SizeRead ==
  ASSUME NEW r \in Rings, NEW d \in Nat, NEW n \in Nat, d + 2 + n <= 2 * buf_size,
         n + 2 <= buf_size, n > 0,
         r.buf[Wrap(d)] = n % 256, r.buf[Wrap(d + 1)] = n \div 256
  PROVE  ReadNextSize(r, Wrap(d)) = [size |-> n, offset |-> Wrap(d + 2)]
<1>0. buf_size \in Nat \ {0}  BY LogConstants
<1>1. /\ d < 2 * buf_size /\ d + 1 < 2 * buf_size /\ d + 2 < 2 * buf_size
      /\ 1 \in Nat /\ 2 \in Nat
  BY <1>0
<1>2. /\ Wrap(Wrap(d) + 1) = Wrap(d + 1) /\ Wrap(d) + 1 \in 0 .. 2 * buf_size - 1
      /\ Wrap(d) \in 0 .. buf_size - 1 /\ Wrap(d + 1) \in 0 .. buf_size - 1
  BY <1>1, WrapOn
<1>3. /\ Wrap(Wrap(d) + 2) = Wrap(d + 2) /\ Wrap(d) + 2 \in 0 .. 2 * buf_size - 1
  BY <1>1, WrapOn
<1>4. (Wrap(d) + 1) % buf_size = Wrap(d + 1) /\ (Wrap(d) + 2) % buf_size = Wrap(d + 2)
  BY <1>2, <1>3, WrapMod
<1>5. DOMAIN r.buf = 0 .. buf_size  BY DEF Rings
<1>6. Wrap(d) \in DOMAIN r.buf /\ Wrap(d + 1) \in DOMAIN r.buf
  BY <1>0, <1>2, <1>5, SMTT(40)
<1>7. Cell(r, Wrap(d)) = n % 256 /\ Cell(r, Wrap(d + 1)) = n \div 256
  BY <1>6 DEF Cell
<1> QED  BY <1>4, <1>7, HighLow DEF ReadNextSize

(* So is its content, and where it ends.                                   *)
LEMMA ContentRead ==
  ASSUME NEW r \in Rings, NEW d \in Nat, NEW n \in Nat, d + 2 + n < 2 * buf_size,
         n + 2 <= buf_size, n > 0,
         r.buf[Wrap(d)] = n % 256, r.buf[Wrap(d + 1)] = n \div 256
  PROVE  NextCopy(r, Wrap(d)) = [end |-> Wrap(d + 2 + n),
                                 bytes |-> [k \in 1 .. n |-> r.buf[Wrap(d + 1 + k)]]]
<1>0. buf_size \in Nat \ {0}  BY LogConstants
<1>1. ReadNextSize(r, Wrap(d)) = [size |-> n, offset |-> Wrap(d + 2)]
  <2>1. d + 2 + n <= 2 * buf_size  BY <1>0
  <2> QED  BY <2>1, SizeRead, Zenon
<1> DEFINE o == Wrap(d + 2)
<1>2. o \in 0 .. buf_size - 1 /\ (o + n < buf_size => o + n = Wrap(d + 2 + n))
      /\ (o + n >= buf_size => n - (buf_size - o) = Wrap(d + 2 + n))
  <2>1. d + 2 \in Nat /\ d + 2 < 2 * buf_size /\ (d + 2) + n < 2 * buf_size  BY <1>0
  <2>2. o \in 0 .. buf_size - 1 /\ Wrap(o + n) = Wrap(d + 2 + n)  BY <2>1, WrapOn
  <2> QED  BY <1>0, <2>2 DEF Wrap
<1>3. \A k \in 1 .. n :
         Cell(r, IF o + k - 1 >= buf_size THEN (o + k - 1) - buf_size ELSE o + k - 1)
           = r.buf[Wrap(d + 1 + k)]
  <2> TAKE k \in 1 .. n
  <2>1. d + 2 \in Nat /\ k - 1 \in Nat /\ d + 2 < 2 * buf_size /\ (d + 2) + (k - 1) < 2 * buf_size
        /\ (d + 2) + (k - 1) = d + 1 + k
    BY <1>0
  <2>2. Wrap(o + (k - 1)) = Wrap(d + 1 + k) /\ Wrap(d + 1 + k) \in 0 .. buf_size - 1
        /\ o + (k - 1) \in Nat
    BY <2>1, WrapOn
  <2>3. (IF o + k - 1 >= buf_size THEN (o + k - 1) - buf_size ELSE o + k - 1) = Wrap(d + 1 + k)
    <3>1. o + k - 1 = o + (k - 1)  BY <1>2
    <3> HIDE DEF o
    <3> QED  BY <1>0, <1>2, <2>2, <3>1 DEF Wrap
  <2>4. Wrap(d + 1 + k) \in DOMAIN r.buf
    <3>1. DOMAIN r.buf = 0 .. buf_size  BY DEF Rings
    <3> QED  BY <1>0, <2>2, <3>1
  <2> QED  BY <2>3, <2>4 DEF Cell
<1> HIDE DEF o
<1>4. NextCopy(r, Wrap(d)) =
        [end |-> IF o + n > buf_size - 1 THEN n - (buf_size - o) ELSE o + n,
         bytes |-> [k \in 1 .. n |->
            Cell(r, IF o + k - 1 >= buf_size THEN (o + k - 1) - buf_size ELSE o + k - 1)]]

  <2> DEFINE m == ReadNextSize(r, Wrap(d))
  <2>1. m.size = n /\ m.offset = o  BY <1>1 DEF o
  <2> HIDE DEF m
  <2>2. NextCopy(r, Wrap(d)) =
        [end |-> IF m.offset + m.size > buf_size - 1 THEN m.size - (buf_size - m.offset)
                 ELSE m.offset + m.size,
         bytes |-> [k \in 1 .. m.size |->
            Cell(r, IF m.offset + k - 1 >= buf_size THEN (m.offset + k - 1) - buf_size
                    ELSE m.offset + k - 1)]]
    BY Zenon DEF NextCopy, m
  <2> QED  BY <2>1, <2>2
<1>5. (IF o + n > buf_size - 1 THEN n - (buf_size - o) ELSE o + n) = Wrap(d + 2 + n)
  BY <1>0, <1>2
<1> QED  BY <1>3, <1>4, <1>5, ZenonT(60)

\* Where the i-th log ends in the ring, and in acc.
EndOf(r, e, n, i) == Wrap(r.first + (At(e, i) - At(e, n)))
Before(e, acc, i) == Len(acc) - Content(e, Len(e)) + Content(e, i)

SizeOf(e, i) == At(e, i) - At(e, i - 1) - Header

(* The sizes, for the provers.                                             *)
LEMMA LaidSizes ==
  ASSUME NEW r, NEW e, NEW n, NEW acc, Laid(r, e, n, acc)
  PROVE  /\ Len(e) \in Nat /\ n \in 0 .. Len(e) /\ Len(acc) \in Nat
         /\ r.first \in 0 .. buf_size - 1 /\ buf_size \in Nat
         /\ \A i \in 0 .. Len(e) : At(e, i) \in Nat
         /\ \A i, j \in 0 .. Len(e) : i <= j =>
              At(e, j) - At(e, i) >= 3 * (j - i) /\ Content(e, j) - Content(e, i) >= j - i
         /\ \A i \in 0 .. Len(e) : At(e, i) >= 3 * i /\ Content(e, i) >= i
         /\ At(e, Len(e)) - At(e, n) < buf_size
         /\ \A i \in 0 .. Len(e) : Before(e, acc, i) \in 0 .. Len(acc)
         /\ Before(e, acc, Len(e)) = Len(acc)
<1>1. /\ Len(e) \in Nat /\ n \in 0 .. Len(e) /\ Len(acc) \in Nat
      /\ r.first \in 0 .. buf_size - 1 /\ At(e, Len(e)) - At(e, n) < buf_size
  BY LenProperties DEF Laid, Rings, Ends
<1>2. \A i \in 0 .. Len(e) : At(e, i) \in Nat  BY AtNat DEF Laid
<1>3. \A i, j \in 0 .. Len(e) : i <= j => At(e, j) - At(e, i) >= 3 * (j - i)
  BY DEF Laid, Ends, Header
<1>4. \A i, j \in 0 .. Len(e) : i <= j => Content(e, j) - Content(e, i) >= j - i

  <2> TAKE i, j \in 0 .. Len(e)
  <2> HAVE i <= j
  <2>1. At(e, j) - At(e, i) >= 3 * (j - i) /\ At(e, i) \in Nat /\ At(e, j) \in Nat
        /\ i \in Nat /\ j \in Nat
    BY <1>1, <1>2, <1>3
  <2> QED  BY <2>1 DEF Content, Header
<1>5. At(e, 0) = 0 /\ Content(e, 0) = 0 /\ 0 \in 0 .. Len(e) /\ Len(e) \in 0 .. Len(e)
  BY <1>1 DEF At, Content, Header
<1>6. \A i \in 0 .. Len(e) : Content(e, i) \in Int  BY <1>1, <1>2 DEF Content, Header
<1>7. \A i \in 0 .. Len(e) : At(e, i) >= 3 * i /\ Content(e, i) >= i
  <2> TAKE i \in 0 .. Len(e)
  <2>1. At(e, i) - At(e, 0) >= 3 * (i - 0)  BY <1>1, <1>3, <1>5
  <2>2. Content(e, i) - Content(e, 0) >= i - 0  BY <1>1, <1>4, <1>5
  <2> QED  BY <1>1, <1>2, <1>5, <1>6, <2>1, <2>2
<1>8. \A i \in 0 .. Len(e) : Content(e, i) <= Content(e, Len(e))
  <2> TAKE i \in 0 .. Len(e)
  <2>1. Content(e, Len(e)) - Content(e, i) >= Len(e) - i /\ Len(e) - i >= 0  BY <1>1, <1>4, <1>5
  <2> QED  BY <1>1, <1>5, <1>6, <2>1
<1>9. Content(e, Len(e)) <= Len(acc)  BY DEF Laid
<1>10. \A i \in 0 .. Len(e) : Before(e, acc, i) \in 0 .. Len(acc)
  BY <1>1, <1>5, <1>6, <1>7, <1>8, <1>9, SMTT(40) DEF Before
<1>11. Before(e, acc, Len(e)) = Len(acc)  BY <1>1, <1>5, <1>6 DEF Before
<1> QED  BY <1>1, <1>2, <1>3, <1>4, <1>7, <1>10, <1>11, LogConstants

(* What is read where a log begins.                                        *)
LEMMA LogRead ==
  ASSUME NEW r, NEW e, NEW n, NEW acc, Laid(r, e, n, acc), NEW i \in n + 1 .. Len(e)
  PROVE  /\ EndOf(r, e, n, i - 1) # r.current
         /\ EndOf(r, e, n, i - 1) \in 0 .. buf_size - 1
         /\ EndOf(r, e, n, i) \in 0 .. buf_size - 1
         /\ SizeOf(e, i) \in Nat
         /\ ReadNextSize(r, EndOf(r, e, n, i - 1)).size = SizeOf(e, i)
         /\ (ReadNextSize(r, EndOf(r, e, n, i - 1)).offset + SizeOf(e, i)) % buf_size
              = EndOf(r, e, n, i)
         /\ NextCopy(r, EndOf(r, e, n, i - 1)).end = EndOf(r, e, n, i)
         /\ NextCopy(r, EndOf(r, e, n, i - 1)).bytes
              = SubSeq(acc, Before(e, acc, i - 1) + 1, Before(e, acc, i))
<1> DEFINE d == r.first + (At(e, i - 1) - At(e, n))
           size == At(e, i) - At(e, i - 1) - Header
           a == Before(e, acc, i - 1)
<1>1. /\ Len(e) \in Nat /\ n \in 0 .. Len(e) /\ Len(acc) \in Nat
      /\ r.first \in 0 .. buf_size - 1 /\ buf_size \in Nat
      /\ \A j \in 0 .. Len(e) : At(e, j) \in Nat
      /\ At(e, Len(e)) - At(e, n) < buf_size
      /\ \A j \in 0 .. Len(e) : Before(e, acc, j) \in 0 .. Len(acc)
  BY LaidSizes
<1>2. \A j, k \in 0 .. Len(e) : j <= k => At(e, k) - At(e, j) >= 3 * (k - j)
  BY LaidSizes
<1>3. /\ i - 1 \in 0 .. Len(e) /\ i \in 0 .. Len(e) /\ n <= i - 1 /\ i <= Len(e)
      /\ Len(e) \in 0 .. Len(e)
  BY <1>1
<1> DEFINE p == At(e, n)
           q == At(e, i - 1)
           u == At(e, i)
           v == At(e, Len(e))
<1>4. /\ p \in Nat /\ q \in Nat /\ u \in Nat /\ v \in Nat
      /\ q - p >= 0 /\ u - q >= 3 /\ v - u >= 0 /\ v - p < buf_size
  <2>1. n <= i - 1 /\ i - 1 <= i /\ i <= Len(e) /\ n \in 0 .. Len(e)  BY <1>1, <1>3
  <2>2. p \in Nat /\ q \in Nat /\ u \in Nat /\ v \in Nat  BY <1>1, <1>3, <2>1
  <2>3. q - p >= 3 * ((i - 1) - n)  BY <1>2, <1>3, <2>1
  <2>4. u - q >= 3 * (i - (i - 1))  BY <1>2, <1>3, <2>1
  <2>5. v - u >= 3 * (Len(e) - i)  BY <1>2, <1>3, <2>1
  <2>6. v - p < buf_size  BY <1>1
  <2> HIDE DEF p, q, u, v
  <2> QED  BY <1>1, <2>1, <2>2, <2>3, <2>4, <2>5, <2>6
<1>5. /\ d \in Nat /\ size \in Nat /\ size > 0 /\ d + 2 + size = r.first + (At(e, i) - At(e, n))
      /\ d + 2 + size < 2 * buf_size /\ size + 2 <= buf_size
  <2>1. d = r.first + (q - p) /\ size = u - q - 2 /\ At(e, i) - At(e, n) = u - p  BY DEF Header
  <2>2. r.first \in Nat /\ r.first <= buf_size - 1  BY <1>1
  <2> HIDE DEF p, q, u, v, d, size
  <2>3. r.first + (u - p) = d + 2 + size  BY <1>4, <2>1, <2>2, SMTT(40)
  <2>4. d \in Nat /\ size \in Nat /\ size > 0  BY <1>4, <2>1, <2>2
  <2>5. u - p < buf_size /\ u - q <= buf_size /\ buf_size \in Nat  BY <1>1, <1>4
  <2>6. d + 2 + size < 2 * buf_size  BY <1>4, <2>2, <2>3, <2>5
  <2>7. size + 2 <= buf_size  BY <1>4, <2>1, <2>5
  <2> QED  BY <2>1, <2>3, <2>4, <2>6, <2>7
<1>6. /\ r \in Rings /\ r.current = Wrap(r.first + (At(e, Len(e)) - At(e, n)))
      /\ Written(r, e, n, acc, i)
  BY DEF Laid
<1>7. /\ r.buf[Wrap(d)] = size % 256 /\ r.buf[Wrap(d + 1)] = size \div 256
      /\ \A k \in 1 .. size : r.buf[Wrap(d + 1 + k)] = acc[a + k]
  <2>1. r.first + At(e, i - 1) - At(e, n) = d  BY <1>1, <1>3
  <2>2. Len(acc) - Content(e, Len(e)) + Content(e, i - 1) = a  BY DEF Before
  <2> QED  BY <1>6, <2>1, <2>2 DEF Written
<1>8. EndOf(r, e, n, i - 1) = Wrap(d) /\ EndOf(r, e, n, i) = Wrap(d + 2 + size)
  BY <1>5 DEF EndOf
<1>9. Wrap(d) \in 0 .. buf_size - 1 /\ Wrap(d + 2 + size) \in 0 .. buf_size - 1
  <2>1. d < 2 * buf_size /\ d + (2 + size) < 2 * buf_size /\ 2 + size \in Nat
        /\ d + (2 + size) = d + 2 + size

    <3> HIDE DEF d, size
    <3> QED  BY <1>1, <1>5
  <2> QED  BY <1>5, <2>1, WrapOn
<1>10. Wrap(d) # r.current
  <2>1. At(e, i - 1) - At(e, n) \in 0 .. buf_size - 1
        /\ At(e, Len(e)) - At(e, n) \in 0 .. buf_size - 1
        /\ At(e, i - 1) - At(e, n) # At(e, Len(e)) - At(e, n)

    <3>1. At(e, i - 1) - At(e, n) = q - p /\ At(e, Len(e)) - At(e, n) = v - p  OBVIOUS
    <3> HIDE DEF p, q, u, v
    <3> QED  BY <1>1, <1>4, <3>1, SMTT(40)
  <2> QED  BY <1>1, <1>6, <2>1, WrapApart
<1>11. Before(e, acc, i) = a + size

  <2> DEFINE c == Len(acc) - Content(e, Len(e))
  <2>1. c \in Int
    <3>1. v - 2 * Len(e) \in Int  BY <1>1, <1>4
    <3>2. Content(e, Len(e)) = v - 2 * Len(e)  BY DEF Content, Header
    <3> HIDE DEF v
    <3> QED  BY <1>1, <3>1, <3>2
  <2>2. Before(e, acc, i) = c + (u - 2 * i) /\ a = c + (q - 2 * (i - 1)) /\ size = u - q - 2
    BY DEF Before, Content, Header
  <2> HIDE DEF c, p, q, u, v, a, size
  <2> QED  BY <1>3, <1>4, <2>1, <2>2
<1> HIDE DEF d, size, a, p, q, u, v
<1>12. ReadNextSize(r, Wrap(d)) = [size |-> size, offset |-> Wrap(d + 2)]

  <2>1. d + 2 + size <= 2 * buf_size  BY <1>1, <1>5
  <2> QED  BY <1>5, <1>6, <1>7, <2>1, SizeRead, ZenonT(60)
<1>13. (Wrap(d + 2) + size) % buf_size = Wrap(d + 2 + size)
  <2>1. d + 2 \in Nat /\ d + 2 < 2 * buf_size  BY <1>1, <1>5
  <2>2. /\ Wrap(Wrap(d + 2) + size) = Wrap(d + 2 + size)
        /\ Wrap(d + 2) + size \in 0 .. 2 * buf_size - 1
    BY <1>5, <2>1, WrapOn
  <2> QED  BY <2>2, WrapMod
<1>14. NextCopy(r, Wrap(d)) = [end |-> Wrap(d + 2 + size),
                               bytes |-> [k \in 1 .. size |-> r.buf[Wrap(d + 1 + k)]]]
  BY <1>5, <1>6, <1>7, ContentRead, ZenonT(60)
<1>15. SubSeq(acc, a + 1, a + size) = [k \in 1 .. size |-> r.buf[Wrap(d + 1 + k)]]
  <2>1. a \in Nat /\ a + size <= Len(acc) /\ acc \in Seq(Nat)
    BY <1>1, <1>3, <1>11, SMTT(40) DEF a, Laid
  <2> DEFINE s == SubSeq(acc, a + 1, a + size)
  <2>2. \A k \in a + 1 .. a + size : acc[k] \in Nat  BY <1>1, <1>5, <2>1, ElementOfSeq, SMTT(40)
  <2>3. /\ s \in Seq(Nat) /\ Len(s) = IF a + 1 <= a + size THEN (a + size) - (a + 1) + 1 ELSE 0
        /\ \A k \in 1 .. (a + size) - (a + 1) + 1 : s[k] = acc[(a + 1) + k - 1]
    BY <1>5, <2>1, <2>2, SubSeqProperties
  <2>4. Len(s) = size /\ \A k \in 1 .. size : s[k] = acc[a + k]
    <3>1. (a + size) - (a + 1) + 1 = size /\ a + 1 <= a + size  BY <1>5, <2>1
    <3>2. \A k \in 1 .. size : (a + 1) + k - 1 = a + k  BY <1>5, <2>1
    <3> HIDE DEF s
    <3> QED  BY <2>3, <3>1, <3>2
  <2>5. DOMAIN s = 1 .. size /\ s = [k \in DOMAIN s |-> s[k]]
    <3> HIDE DEF s
    <3> QED  BY <2>3, <2>4, LenProperties
  <2> HIDE DEF s
  <2>6. \A k \in 1 .. size : s[k] = r.buf[Wrap(d + 1 + k)]  BY <1>7, <2>4
  <2>7. s = [k \in 1 .. size |-> r.buf[Wrap(d + 1 + k)]]  BY <2>5, <2>6
  <2> QED  BY <2>7 DEF s
<1>16. ReadNextSize(r, Wrap(d)).size = size /\ ReadNextSize(r, Wrap(d)).offset = Wrap(d + 2)
  BY <1>12
<1>17. size = SizeOf(e, i) /\ Before(e, acc, i - 1) = a  BY DEF a, size, SizeOf
<1>18. NextCopy(r, Wrap(d)).end = Wrap(d + 2 + size)
       /\ NextCopy(r, Wrap(d)).bytes = [k \in 1 .. size |-> r.buf[Wrap(d + 1 + k)]]
  BY <1>14
<1>19. NextCopy(r, EndOf(r, e, n, i - 1)).bytes
         = SubSeq(acc, Before(e, acc, i - 1) + 1, Before(e, acc, i))
  BY <1>8, <1>11, <1>15, <1>17, <1>18, Zenon
<1> QED  BY <1>5, <1>8, <1>9, <1>10, <1>13, <1>16, <1>17, <1>18, <1>19

(* What is read of a ring where logs are laid: their bytes, in order.      *)
LEMMA LogRamGetLaid ==
  ASSUME NEW r, NEW e, NEW n, NEW acc, Laid(r, e, n, acc)
  PROVE  LogRamGet(r) = SubSeq(acc, Before(e, acc, n) + 1, Len(acc))
<1> DEFINE K == Len(e)
           b(i) == Before(e, acc, i)
           Read(i) == [offset |-> EndOf(r, e, n, i), bytes |-> SubSeq(acc, b(n) + 1, b(i))]
           S == {Read(i) : i \in n .. K}
<1>1. /\ K \in Nat /\ n \in 0 .. K /\ Len(acc) \in Nat /\ r.first \in 0 .. buf_size - 1
      /\ buf_size \in Nat /\ acc \in Seq(Nat)
      /\ \A i \in 0 .. K : b(i) \in 0 .. Len(acc) /\ At(e, i) \in Nat
      /\ b(K) = Len(acc) /\ r.current = EndOf(r, e, n, K)

  <2>1. r.current = EndOf(r, e, n, K) /\ acc \in Seq(Nat)  BY DEF Laid, EndOf
  <2>2. \A i \in 0 .. K : b(i) \in 0 .. Len(acc)  BY LaidSizes
  <2> QED  BY <2>1, <2>2, LaidSizes
<1>2. Read(n) = [offset |-> r.first, bytes |-> <<>>]
  <2>1. EndOf(r, e, n, n) = r.first
    <3>1. At(e, n) \in Nat  BY <1>1
    <3> QED  BY <1>1, <3>1 DEF EndOf, Wrap
  <2>2. SubSeq(acc, b(n) + 1, b(n)) = <<>>  BY <1>1, SubSeqEmpty
  <2> QED  BY <2>1, <2>2
<1>3. ASSUME NEW i \in n .. K
      PROVE  ReadOne(r, Read(i)) = IF i = K THEN Read(i) ELSE Read(i + 1)
  <2>1. CASE i = K
    <3>1. Read(i).offset = r.current  BY <1>1, <2>1
    <3> HIDE DEF Read
    <3> QED  BY <2>1, <3>1 DEF ReadOne
  <2>2. CASE i # K
    <3>1. i + 1 \in n + 1 .. K /\ (i + 1) - 1 = i /\ i \in 0 .. K  BY <1>1, <2>2
    <3> DEFINE o == EndOf(r, e, n, i)
    <3>2. /\ o # r.current /\ o \in 0 .. buf_size - 1
          /\ NextCopy(r, o).end = EndOf(r, e, n, i + 1)
          /\ NextCopy(r, o).bytes = SubSeq(acc, b(i) + 1, b(i + 1))

      <4>1. PICK j \in n + 1 .. K : j = i + 1  BY <3>1
      <4>2. /\ EndOf(r, e, n, j - 1) # r.current /\ EndOf(r, e, n, j - 1) \in 0 .. buf_size - 1
            /\ NextCopy(r, EndOf(r, e, n, j - 1)).end = EndOf(r, e, n, j)
            /\ NextCopy(r, EndOf(r, e, n, j - 1)).bytes = SubSeq(acc, b(j - 1) + 1, b(j))
        BY <4>1, LogRead, SMTT(30)
      <4>3. j - 1 = i  BY <3>1, <4>1
      <4> HIDE DEF b
      <4> QED  BY <4>1, <4>2, <4>3
    <3>3. SubSeq(acc, b(n) + 1, b(i)) \o SubSeq(acc, b(i) + 1, b(i + 1))
            = SubSeq(acc, b(n) + 1, b(i + 1))
      <4>1. b(n) <= b(i) /\ b(i) <= b(i + 1)
        <5>1. n <= i /\ i <= i + 1 /\ i + 1 \in 0 .. K /\ n \in 0 .. K  BY <1>1, <3>1
        <5>2. Content(e, i) - Content(e, n) >= i - n
              /\ Content(e, i + 1) - Content(e, i) >= (i + 1) - i
          BY <3>1, <5>1, LaidSizes
        <5>3. \A j \in 0 .. K : Content(e, j) \in Int
          <6> TAKE j \in 0 .. K
          <6>1. At(e, j) \in Nat /\ j \in Nat  BY <1>1
          <6> QED  BY <6>1 DEF Content, Header
        <5>4. K \in 0 .. K  BY <1>1
        <5>5. Content(e, i) \in Int /\ Content(e, n) \in Int /\ Content(e, i + 1) \in Int
              /\ Content(e, K) \in Int
          BY <3>1, <5>1, <5>3, <5>4
        <5>6. Content(e, i) >= Content(e, n) /\ Content(e, i + 1) >= Content(e, i)
          <6>1. i \in Int /\ n \in Int /\ n <= i  BY <1>1, <3>1, <5>1
          <6> QED  BY <5>2, <5>5, <6>1
        <5> QED  BY <1>1, <5>5, <5>6, SMTT(40) DEF Before
      <4>2. /\ b(n) \in 0 .. Len(acc) /\ b(i) \in 0 .. Len(acc) /\ b(i + 1) \in 0 .. Len(acc)
        BY <1>1, <3>1
      <4> HIDE DEF b
      <4>3. /\ b(n) + 1 \in 1 .. Len(acc) + 1 /\ b(i) \in (b(n) + 1) - 1 .. Len(acc)
            /\ b(i + 1) \in b(i) .. Len(acc)
        BY <1>1, <4>1, <4>2, SMTT(40)
      <4> QED  BY <1>1, <4>3, ConcatAdjacentSubSeq
    <3>4. o <= buf_size  BY <1>1, <3>2
    <3> HIDE DEF o
    <3> DEFINE s == Read(i)
    <3>5. s.offset = o /\ s.bytes = SubSeq(acc, b(n) + 1, b(i))  BY DEF o
    <3>6. ReadOne(r, s) =
            [offset |-> NextCopy(r, o).end, bytes |-> s.bytes \o NextCopy(r, o).bytes]
      <4> HIDE DEF s
      <4>1. ~(s.offset = r.current \/ s.offset > buf_size)  BY <1>1, <3>2, <3>4, <3>5
      <4>2. ReadOne(r, s) = [offset |-> NextCopy(r, s.offset).end,
                             bytes |-> s.bytes \o NextCopy(r, s.offset).bytes]
        BY <4>1, Zenon DEF ReadOne
      <4> QED  BY <3>5, <4>2, Zenon
    <3> QED  BY <2>2, <3>2, <3>3, <3>5, <3>6
  <2> QED  BY <2>1, <2>2
<1>4. \A s \in S : ReadOne(r, s) \in S
  <2> SUFFICES ASSUME NEW i \in n .. K PROVE ReadOne(r, Read(i)) \in S  OBVIOUS
  <2>1. i # K => i + 1 \in n .. K  BY <1>1
  <2> HIDE DEF Read
  <2> QED  BY <1>3, <2>1
<1>5. [offset |-> r.first, bytes |-> <<>>] \in S
  <2>1. n \in n .. K  BY <1>1
  <2> QED  BY <1>2, <2>1
<1>6. /\ Reading(r)[0] = [offset |-> r.first, bytes |-> <<>>]
      /\ \A j \in Nat : Reading(r)[j + 1] = ReadOne(r, Reading(r)[j])
  <2> HIDE DEF S
  <2> QED  BY <1>4, <1>5, ReadingTurns
<1> DEFINE Turn(j) == IF j <= K - n THEN Read(n + j) ELSE Read(K)
           T == {j \in Nat : Reading(r)[j] = Turn(j)}
<1> HIDE DEF Read
<1>7. 0 \in T
  <2>1. 0 <= K - n /\ n + 0 = n  BY <1>1
  <2> QED  BY <1>2, <1>6, <2>1
<1>8. ASSUME NEW j \in Nat, j \in T PROVE j + 1 \in T
  <2>1. Reading(r)[j + 1] = ReadOne(r, Turn(j))  BY <1>6, <1>8
  <2>2. CASE j < K - n
    <3>1. /\ n + j \in n .. K /\ n + j # K /\ (n + j) + 1 = n + (j + 1)
          /\ j <= K - n /\ j + 1 <= K - n
      BY <1>1, <2>2
    <3> QED  BY <1>3, <2>1, <3>1
  <2>3. CASE ~(j < K - n)
    <3>1. Turn(j) = Read(K)
      <4>1. j <= K - n => n + j = K  BY <1>1, <2>3
      <4> QED  BY <4>1
    <3>2. ~(j + 1 <= K - n) /\ K \in n .. K  BY <1>1, <2>3
    <3> QED  BY <1>3, <2>1, <3>1, <3>2
  <2> QED  BY <2>2, <2>3
<1>9. buf_size \in T
  <2> HIDE DEF T
  <2>1. \A j \in Nat : j \in T  BY <1>7, <1>8, Induct
  <2> QED  BY <1>1, <2>1
<1>10. buf_size >= K - n
  <2>1. At(e, K) - At(e, n) >= 3 * (K - n) /\ At(e, K) - At(e, n) < buf_size
    <3>1. K \in 0 .. K /\ n <= K  BY <1>1
    <3> QED  BY <1>1, <3>1, LaidSizes
  <2>2. At(e, K) \in Nat /\ At(e, n) \in Nat
    <3>1. K \in 0 .. K  BY <1>1
    <3> QED  BY <1>1, <3>1
  <2> QED  BY <1>1, <2>1, <2>2
<1>11. Turn(buf_size) = Read(K)
  <2>1. buf_size <= K - n => n + buf_size = K  BY <1>1, <1>10
  <2> QED  BY <2>1
<1>12. Reading(r)[buf_size] = Read(K)  BY <1>9, <1>11
<1>13. Read(K).bytes = SubSeq(acc, b(n) + 1, b(K))  BY DEF Read
<1> QED  BY <1>1, <1>12, <1>13 DEF LogRamGet

------------------------------------------------------------------------------
(* A store: room is made, and the log is written. *)

(* The ring is as well laid from one of its logs on.                       *)
LEMMA LaidFrom ==
  ASSUME NEW r, NEW e, NEW n, NEW acc, Laid(r, e, n, acc), NEW m \in n .. Len(e)
  PROVE  Laid([r EXCEPT !.first = EndOf(r, e, n, m)], e, m, acc)
<1> DEFINE K == Len(e)
           q == [r EXCEPT !.first = EndOf(r, e, n, m)]
           x == r.first + (At(e, m) - At(e, n))
<1>1. /\ K \in Nat /\ n \in 0 .. K /\ m \in 0 .. K /\ n <= m /\ K \in 0 .. K
      /\ r.first \in 0 .. buf_size - 1 /\ buf_size \in Nat
      /\ \A i \in 0 .. K : At(e, i) \in Nat
      /\ At(e, K) - At(e, n) < buf_size /\ r \in Rings

  <2>1. r \in Rings  BY DEF Laid
  <2>2. K \in Nat /\ n \in 0 .. K  BY LaidSizes
  <2>3. m \in 0 .. K /\ n <= m /\ K \in 0 .. K  BY <2>2
  <2> QED  BY <2>1, <2>2, <2>3, LaidSizes
<1>2. \A i, j \in 0 .. K : i <= j => At(e, j) >= At(e, i)
  <2> TAKE i, j \in 0 .. K
  <2> HAVE i <= j
  <2>1. At(e, j) - At(e, i) >= 3 * (j - i)  BY LaidSizes
  <2>2. At(e, i) \in Nat /\ At(e, j) \in Nat /\ i \in Nat /\ j \in Nat  BY <1>1
  <2> QED  BY <2>1, <2>2
<1>3. x \in Nat /\ x < 2 * buf_size
  <2>1. At(e, n) \in Nat /\ At(e, m) \in Nat /\ At(e, K) \in Nat /\ At(e, m) >= At(e, n)
        /\ At(e, K) >= At(e, m)
    BY <1>1, <1>2
  <2> QED  BY <1>1, <2>1, SMTT(40)
<1>4. q \in Rings /\ q.buf = r.buf /\ q.current = r.current /\ q.first = Wrap(x)
  <2>1. Wrap(x) \in 0 .. buf_size - 1
    <3> HIDE DEF x
    <3>1. 0 \in Nat /\ x + 0 < 2 * buf_size  BY <1>1, <1>3
    <3> QED  BY <1>3, <3>1, WrapOn
  <2>2. EndOf(r, e, n, m) = Wrap(x)  BY DEF EndOf
  <2> HIDE DEF x
  <2> QED  BY <1>1, <2>1, <2>2 DEF Rings
<1>5. \A y \in Nat : At(e, m) + y <= At(e, n) + buf_size =>
        Wrap(q.first + y) = Wrap(r.first + ((At(e, m) - At(e, n)) + y))
  <2> TAKE y \in Nat
  <2> HAVE At(e, m) + y <= At(e, n) + buf_size
  <2>1. At(e, n) \in Nat /\ At(e, m) \in Nat  BY <1>1
  <2>2. x + y = r.first + ((At(e, m) - At(e, n)) + y) /\ x + y < 2 * buf_size
    BY <1>1, <2>1, SMTT(40)
  <2> HIDE DEF x, q
  <2>3. Wrap(Wrap(x) + y) = Wrap(x + y)  BY <1>3, <2>2, WrapOn
  <2> QED  BY <1>4, <2>2, <2>3
<1>6. q.current = Wrap(q.first + (At(e, K) - At(e, m)))
  <2>1. At(e, n) \in Nat /\ At(e, m) \in Nat /\ At(e, K) \in Nat /\ At(e, m) >= At(e, n)
        /\ At(e, K) >= At(e, m)
    BY <1>1, <1>2
  <2> DEFINE y == At(e, K) - At(e, m)
  <2>2. y \in Nat /\ At(e, m) + y <= At(e, n) + buf_size
        /\ (At(e, m) - At(e, n)) + y = At(e, K) - At(e, n)
    BY <1>1, <2>1
  <2> HIDE DEF y, q
  <2>3. Wrap(q.first + y) = Wrap(r.first + (At(e, K) - At(e, n)))  BY <1>5, <2>2
  <2>4. r.current = Wrap(r.first + (At(e, K) - At(e, n)))  BY DEF Laid
  <2> QED  BY <1>4, <2>3, <2>4 DEF y
<1>7. At(e, K) - At(e, m) < buf_size
  <2>1. At(e, n) \in Nat /\ At(e, m) \in Nat /\ At(e, K) \in Nat /\ At(e, m) >= At(e, n)
    BY <1>1, <1>2
  <2> QED  BY <1>1, <2>1
<1>8. ASSUME NEW i \in m + 1 .. K PROVE Written(q, e, m, acc, i)
  <2>1. i \in n + 1 .. K /\ i - 1 \in 0 .. K /\ i \in 0 .. K /\ m <= i - 1 /\ i - 1 <= i /\ i <= K
    BY <1>1
  <2>2. At(e, n) \in Nat /\ At(e, m) \in Nat /\ At(e, K) \in Nat /\ At(e, i) \in Nat
        /\ At(e, i - 1) \in Nat /\ At(e, m) >= At(e, n) /\ At(e, i - 1) >= At(e, m)
        /\ At(e, K) >= At(e, i)
    BY <1>1, <1>2, <2>1
  <2>3. At(e, i) - At(e, i - 1) >= 3
    <3>1. At(e, i) - At(e, i - 1) >= 3 * (i - (i - 1))  BY <2>1, LaidSizes
    <3>2. i \in Int  BY <2>1
    <3> QED  BY <2>2, <3>1, <3>2
  <2> DEFINE f == r.first
             g == q.first
             p == At(e, n)
             s == At(e, m)
             u == At(e, i - 1)
             v == At(e, i)
             t == At(e, K)
             d == f + u - p
             dq == g + u - s
             size == v - u - Header
             a == Len(acc) - Content(e, Len(e)) + Content(e, i - 1)
  <2> HIDE DEF q
  <2>4. /\ f \in Nat /\ g \in Nat /\ p \in Nat /\ s \in Nat /\ u \in Nat /\ v \in Nat /\ t \in Nat
        /\ s >= p /\ u >= s /\ t >= v /\ v - u >= 3 /\ t - p < buf_size /\ f < buf_size
        /\ \A y \in Nat : s + y <= p + buf_size => Wrap(g + y) = Wrap(f + ((s - p) + y))
    BY <1>1, <1>4, <1>5, <2>2, <2>3, SMTT(40) DEF Rings
  <2>5. size = v - u - 2 /\ dq = g + u - s /\ d = f + u - p  BY DEF Header
  <2> HIDE DEF f, g, p, s, u, v, t, d, dq, size, a
  <2>15. size \in Nat /\ dq \in Int /\ d \in Int /\ dq + 0 = dq /\ d + 0 = d  BY <2>4, <2>5
  <2>14. \A z \in Nat : z <= 1 + size => Wrap(dq + z) = Wrap(d + z)
    <3> TAKE z \in Nat
    <3> HAVE z <= 1 + size
    <3> DEFINE y == (u - s) + z
    <3>1. y \in Nat /\ s + y <= p + buf_size  BY <1>1, <2>4, <2>5
    <3>2. g + y = dq + z /\ f + ((s - p) + y) = d + z  BY <2>4, <2>5
    <3> HIDE DEF y
    <3> QED  BY <2>4, <3>1, <3>2
  <2>6. Written(r, e, n, acc, i)  BY <2>1 DEF Laid
  <2>7. /\ r.buf[Wrap(d)] = size % 256 /\ r.buf[Wrap(d + 1)] = size \div 256
        /\ \A k \in 1 .. size : r.buf[Wrap(d + 1 + k)] = acc[a + k]
    BY <2>6 DEF Written, d, size, a, f, p, u, v
  <2>9. /\ Wrap(dq) = Wrap(d) /\ Wrap(dq + 1) = Wrap(d + 1)
        /\ \A k \in 1 .. size : Wrap(dq + 1 + k) = Wrap(d + 1 + k)
    <3>1. 0 \in Nat /\ 0 <= 1 + size /\ 1 <= 1 + size  BY <2>15
    <3>2. Wrap(dq) = Wrap(d)  BY <2>14, <2>15, <3>1
    <3>3. Wrap(dq + 1) = Wrap(d + 1)  BY <2>14, <2>15, <3>1
    <3>4. ASSUME NEW k \in 1 .. size PROVE Wrap(dq + 1 + k) = Wrap(d + 1 + k)
      <4>1. 1 + k \in Nat /\ 1 + k <= 1 + size  BY <2>15
      <4>2. Wrap(dq + (1 + k)) = Wrap(d + (1 + k))  BY <2>14, <4>1
      <4>3. dq + (1 + k) = dq + 1 + k /\ d + (1 + k) = d + 1 + k  BY <2>15
      <4> QED  BY <4>2, <4>3
    <3> QED  BY <3>2, <3>3, <3>4
  <2>10. /\ q.buf[Wrap(dq)] = size % 256 /\ q.buf[Wrap(dq + 1)] = size \div 256
         /\ \A k \in 1 .. size : q.buf[Wrap(dq + 1 + k)] = acc[a + k]
    BY <1>4, <2>7, <2>9
  <2> QED  BY <2>10 DEF Written, d, dq, size, a, f, g, p, s, u, v
<1> HIDE DEF q
<1>9. Laid(q, e, m, acc)
  <2>1. Ends(e) /\ acc \in Seq(Nat) /\ Content(e, Len(e)) <= Len(acc)  BY DEF Laid
  <2> QED  BY <1>1, <1>4, <1>6, <1>7, <1>8, <2>1 DEF Laid
<1> QED  BY <1>9 DEF q

(* Making room takes the oldest logs away, no more than is needed.         *)
LEMMA FreeSpaceLaid ==
  ASSUME NEW r, NEW e, NEW n, NEW acc, Laid(r, e, n, acc),
         NEW space \in Int, space <= At(e, Len(e)) - At(e, n)
  PROVE  \E m \in n .. Len(e) :
           /\ FreeSpace(r, space) = [r EXCEPT !.first = EndOf(r, e, n, m)]
           /\ At(e, m) - At(e, n) >= space
           /\ m > n => At(e, m - 1) - At(e, n) < space
<1> DEFINE K == Len(e)
           Freed(i) == [first |-> EndOf(r, e, n, i), space |-> space - (At(e, i) - At(e, n))]
           Enough == {i \in n .. K : At(e, i) - At(e, n) >= space}
<1>1. /\ K \in Nat /\ n \in 0 .. K /\ r.first \in 0 .. buf_size - 1 /\ buf_size \in Nat
      /\ \A i \in 0 .. K : At(e, i) \in Nat
      /\ At(e, K) - At(e, n) < buf_size
  BY LaidSizes
<1>2. Enough \in SUBSET Nat /\ Enough # {}
  <2>1. K \in n .. K /\ At(e, K) - At(e, n) >= space
    <3>1. At(e, K) \in Nat /\ At(e, n) \in Nat  BY <1>1
    <3> QED  BY <1>1, <3>1
  <2>2. n .. K \subseteq Nat  BY <1>1
  <2> QED  BY <2>1, <2>2
<1>3. PICK m \in Enough : \A i \in Enough : m <= i
  <2> HIDE DEF Enough
  <2> QED  BY <1>2, Smallest
<1>4. m \in n .. K /\ m \in 0 .. K /\ At(e, m) - At(e, n) >= space
  BY <1>1, <1>3
<1>5. ASSUME NEW i \in n .. m, i # m PROVE space - (At(e, i) - At(e, n)) > 0
  <2>1. i \in n .. K /\ i \in 0 .. K /\ ~(m <= i)  BY <1>1, <1>4, <1>5
  <2>2. ~(At(e, i) - At(e, n) >= space)
    <3>1. i \notin Enough
      <4> HIDE DEF Enough
      <4> QED  BY <1>3, <2>1
    <3> QED  BY <2>1, <3>1
  <2>3. At(e, i) \in Nat /\ At(e, n) \in Nat  BY <1>1, <2>1
  <2> QED  BY <2>2, <2>3
<1> HIDE DEF Enough
<1> DEFINE S == {Freed(i) : i \in n .. m}
<1>6. Freed(n) = [first |-> r.first, space |-> space]
  <2>1. At(e, n) \in Nat  BY <1>1
  <2>2. EndOf(r, e, n, n) = r.first  BY <1>1, <2>1 DEF EndOf, Wrap
  <2>3. space - (At(e, n) - At(e, n)) = space  BY <2>1
  <2> QED  BY <2>2, <2>3
<1>7. ASSUME NEW i \in n .. m
      PROVE  FreeOne(r, Freed(i)) = IF i = m THEN Freed(i) ELSE Freed(i + 1)
  <2> DEFINE s == Freed(i)
  <2>1. s.first = EndOf(r, e, n, i) /\ s.space = space - (At(e, i) - At(e, n))  BY Zenon
  <2>2. CASE i = m
    <3>1. At(e, m) \in Nat /\ At(e, n) \in Nat  BY <1>1, <1>4
    <3>2. s.space <= 0  BY <1>4, <2>1, <2>2, <3>1
    <3> HIDE DEF s
    <3>3. FreeOne(r, s) = s  BY <3>2 DEF FreeOne
    <3> QED  BY <2>2, <3>3 DEF s
  <2>3. CASE i # m
    <3>1. i + 1 \in n + 1 .. K /\ (i + 1) - 1 = i /\ i \in 0 .. K /\ i + 1 \in 0 .. K
      BY <1>1, <1>4, <2>3
    <3>2. At(e, i) \in Nat /\ At(e, n) \in Nat /\ At(e, i + 1) \in Nat  BY <1>1, <3>1
    <3>3. ~(s.space <= 0)
      <4>1. s.space > 0  BY <1>5, <2>1, <2>3
      <4>2. s.space \in Int  BY <2>1, <3>2
      <4> HIDE DEF s
      <4> QED  BY <4>1, <4>2
    <3> DEFINE o == ReadNextSize(r, s.first)
    <3>4. /\ o.size = SizeOf(e, i + 1)
          /\ (o.offset + SizeOf(e, i + 1)) % buf_size = EndOf(r, e, n, i + 1)
      <4>1. PICK j \in n + 1 .. K : j = i + 1  BY <3>1
      <4>2. /\ ReadNextSize(r, EndOf(r, e, n, j - 1)).size = SizeOf(e, j)
            /\ (ReadNextSize(r, EndOf(r, e, n, j - 1)).offset + SizeOf(e, j)) % buf_size
                 = EndOf(r, e, n, j)
        BY <4>1, LogRead, SMTT(30)
      <4>3. j - 1 = i /\ s.first = EndOf(r, e, n, j - 1)  BY <2>1, <3>1, <4>1
      <4> HIDE DEF s
      <4> QED  BY <4>1, <4>2, <4>3
    <3> HIDE DEF s
    <3>5. FreeOne(r, s) = [first |-> (o.offset + o.size) % buf_size,
                           space |-> s.space - Header - o.size]
      BY <3>3, Zenon DEF FreeOne
    <3>6. s.space - Header - o.size = space - (At(e, i + 1) - At(e, n))
      BY <2>1, <3>1, <3>2, <3>4 DEF Header, SizeOf
    <3> HIDE DEF o
    <3>7. FreeOne(r, s) = Freed(i + 1)  BY <3>4, <3>5, <3>6
    <3> QED  BY <2>3, <3>7 DEF s
  <2> QED  BY <2>2, <2>3
<1>8. \A s \in S : FreeOne(r, s) \in S
  <2> SUFFICES ASSUME NEW i \in n .. m PROVE FreeOne(r, Freed(i)) \in S  OBVIOUS
  <2>1. i # m => i + 1 \in n .. m  BY <1>1, <1>4
  <2> HIDE DEF Freed
  <2> QED  BY <1>7, <2>1
<1>9. [first |-> r.first, space |-> space] \in S
  <2>1. n \in n .. m  BY <1>1, <1>4
  <2> QED  BY <1>6, <2>1
<1>10. /\ Freeing(r, space)[0] = [first |-> r.first, space |-> space]
       /\ \A j \in Nat : Freeing(r, space)[j + 1] = FreeOne(r, Freeing(r, space)[j])
  <2> HIDE DEF S, Freed
  <2> QED  BY <1>8, <1>9, FreeingTurns, SMTT(60)
<1> DEFINE Turn(j) == IF j <= m - n THEN Freed(n + j) ELSE Freed(m)
           T == {j \in Nat : Freeing(r, space)[j] = Turn(j)}
<1> HIDE DEF Freed
<1>11. 0 \in T
  <2>1. 0 <= m - n /\ n + 0 = n  BY <1>1, <1>4
  <2> QED  BY <1>6, <1>10, <2>1
<1>12. ASSUME NEW j \in Nat, j \in T PROVE j + 1 \in T
  <2>1. Freeing(r, space)[j + 1] = FreeOne(r, Turn(j))  BY <1>10, <1>12
  <2>2. CASE j < m - n
    <3>1. /\ n + j \in n .. m /\ n + j # m /\ (n + j) + 1 = n + (j + 1)
          /\ j <= m - n /\ j + 1 <= m - n
      BY <1>1, <1>4, <2>2
    <3> QED  BY <1>7, <2>1, <3>1
  <2>3. CASE ~(j < m - n)
    <3>1. Turn(j) = Freed(m)
      <4>1. j <= m - n => n + j = m  BY <1>1, <1>4, <2>3
      <4> QED  BY <4>1
    <3>2. ~(j + 1 <= m - n) /\ m \in n .. m  BY <1>1, <1>4, <2>3
    <3> QED  BY <1>7, <2>1, <3>1, <3>2
  <2> QED  BY <2>2, <2>3
<1>13. buf_size \in T
  <2> HIDE DEF T
  <2>1. \A j \in Nat : j \in T  BY <1>11, <1>12, Induct
  <2> QED  BY <1>1, <2>1
<1>14. buf_size >= m - n
  <2>1. At(e, m) - At(e, n) >= 3 * (m - n) /\ At(e, K) - At(e, m) >= 3 * (K - m)
    <3>1. K \in 0 .. K /\ n <= m /\ m <= K  BY <1>1, <1>4
    <3> QED  BY <1>1, <1>4, <3>1, LaidSizes
  <2>2. At(e, m) \in Nat /\ At(e, n) \in Nat /\ At(e, K) \in Nat
    <3>1. K \in 0 .. K  BY <1>1
    <3> QED  BY <1>1, <1>4, <3>1
  <2> QED  BY <1>1, <1>4, <2>1, <2>2, SMTT(40)
<1>15. Freeing(r, space)[buf_size] = Freed(m)
  <2>1. buf_size <= m - n => n + buf_size = m  BY <1>1, <1>4, <1>14
  <2> QED  BY <1>13, <2>1
<1>16. FreeSpace(r, space) = [r EXCEPT !.first = EndOf(r, e, n, m)]
  <2>1. Freed(m).first = EndOf(r, e, n, m)  BY DEF Freed
  <2> QED  BY <1>15, <2>1 DEF FreeSpace
<1>17. m > n => At(e, m - 1) - At(e, n) < space
  <2> SUFFICES ASSUME m > n PROVE At(e, m - 1) - At(e, n) < space  OBVIOUS
  <2>1. m - 1 \in n .. m /\ m - 1 # m /\ m - 1 \in 0 .. K  BY <1>1, <1>4
  <2>2. space - (At(e, m - 1) - At(e, n)) > 0  BY <1>5, <2>1
  <2>3. At(e, m - 1) \in Nat /\ At(e, n) \in Nat  BY <1>1, <2>1
  <2> QED  BY <2>2, <2>3
<1> QED  BY <1>4, <1>16, <1>17

(* The sizes of the logs, with one more.                                   *)
LEMMA EndsAppend ==
  ASSUME NEW e, Ends(e), NEW size \in Nat, size > 0
  PROVE  LET g == Append(e, At(e, Len(e)) + Header + size)
         IN /\ Ends(g) /\ Len(g) = Len(e) + 1
            /\ \A i \in 0 .. Len(e) : At(g, i) = At(e, i) /\ Content(g, i) = Content(e, i)
            /\ At(g, Len(e) + 1) = At(e, Len(e)) + Header + size
            /\ Content(g, Len(e) + 1) = Content(e, Len(e)) + size
<1> DEFINE K == Len(e)
           x == At(e, K) + Header + size
           g == Append(e, x)
<1>1. e \in Seq(Nat) /\ K \in Nat /\ K \in 0 .. K  BY LenProperties DEF Ends
<1>2. \A i \in 0 .. K : At(e, i) \in Nat  BY AtNat
<1>3. x \in Nat /\ x = At(e, K) + 2 + size  BY <1>1, <1>2 DEF Header
<1> HIDE DEF x
<1>4. g \in Seq(Nat) /\ Len(g) = K + 1 /\ g[K + 1] = x /\ \A i \in 1 .. K : g[i] = e[i]
  BY <1>1, <1>3, AppendProperties
<1> HIDE DEF g
<1>5. \A i \in 0 .. K : At(g, i) = At(e, i)
  <2>1. \A i \in 0 .. K : i = 0 \/ i \in 1 .. K  BY <1>1
  <2> QED  BY <1>4, <2>1 DEF At
<1>6. At(g, K + 1) = x
  <2>1. K + 1 # 0  BY <1>1
  <2> QED  BY <1>4, <2>1 DEF At
<1>7. \A i \in 0 .. K : Content(g, i) = Content(e, i)  BY <1>5 DEF Content
<1>8. Content(g, K + 1) = Content(e, K) + size
  <2>1. At(e, K) \in Nat  BY <1>1, <1>2
  <2> QED  BY <1>1, <1>3, <1>6, <2>1 DEF Content, Header
<1>9. Ends(g)
  <2>1. ASSUME NEW i \in 0 .. K + 1, NEW j \in 0 .. K + 1, i <= j
        PROVE  At(g, j) - At(g, i) >= (Header + 1) * (j - i)
    <3>1. CASE j \in 0 .. K
      <4>1. i \in 0 .. K  BY <2>1, <3>1
      <4>2. At(e, j) - At(e, i) >= (Header + 1) * (j - i)  BY <2>1, <3>1, <4>1 DEF Ends
      <4> QED  BY <1>5, <3>1, <4>1, <4>2
    <3>2. CASE j = K + 1 /\ i \in 0 .. K
      <4>1. At(e, K) - At(e, i) >= (Header + 1) * (K - i)
        <5>1. i <= K  BY <3>2
        <5> QED  BY <1>1, <3>2, <5>1 DEF Ends
      <4>2. At(e, K) \in Nat /\ At(e, i) \in Nat /\ i \in Nat  BY <1>1, <1>2, <3>2
      <4>3. At(g, j) = At(e, K) + 2 + size /\ At(g, i) = At(e, i)  BY <1>3, <1>5, <1>6, <3>2
      <4>4. (Header + 1) * (K - i) = 3 * (K - i) /\ (Header + 1) * (j - i) = 3 * (j - i)
        BY DEF Header
      <4>5. At(e, K) + 2 + size - At(e, i) >= 3 * ((K + 1) - i)
        BY <1>1, <4>1, <4>2, <4>4, SMTT(40)
      <4>6. At(g, j) - At(g, i) >= 3 * (j - i)
        <5> DEFINE a == At(e, K)
                   b == At(e, i)
        <5>1. a + 2 + size - b >= 3 * ((K + 1) - i) /\ At(g, j) = a + 2 + size /\ At(g, i) = b
          BY <4>3, <4>5
        <5>2. a \in Nat /\ b \in Nat /\ (K + 1) - i = j - i  BY <3>2, <4>2
        <5> HIDE DEF a, b
        <5> QED  BY <5>1, <5>2
      <4> QED  BY <4>4, <4>6
    <3>3. CASE j = K + 1 /\ i = K + 1
      <4>1. At(g, j) - At(g, i) = 0 /\ (Header + 1) * (j - i) = 0
        BY <1>1, <1>3, <1>6, <3>3 DEF Header
      <4> QED  BY <4>1
    <3> QED  BY <1>1, <2>1, <3>1, <3>2, <3>3
  <2> QED  BY <1>4, <2>1 DEF Ends
<1> QED  BY <1>3, <1>4, <1>5, <1>6, <1>7, <1>8, <1>9 DEF g, x

(* Where a log of known size is written, and nothing else is.              *)
LEMMA WriteCells ==
  ASSUME NEW r \in Rings, NEW l, l.size \in Nat, l.id \in Nat, l.size > 0,
         l.size + Header <= buf_size
  PROVE  LET w == WriteLog(WriteSize(r, l.size), l)
             c == r.current
         IN /\ w.buf \in [0 .. buf_size -> Nat] /\ w.first = r.first
            /\ w = [buf |-> w.buf, current |-> w.current, first |-> w.first]
            /\ w.current \in 0 .. buf_size
            /\ w.current # buf_size => w.current = Wrap(c + 2 + l.size)
            /\ w.buf[c] = l.size % 256 /\ w.buf[Wrap(c + 1)] = l.size \div 256
            /\ \A k \in 1 .. l.size : w.buf[Wrap(c + 1 + k)] = l.id
            /\ \A y \in 2 + l.size .. buf_size - 1 : w.buf[Wrap(c + y)] = r.buf[Wrap(c + y)]
<1> DEFINE c == r.current
           n == l.size
           s == WriteSize(r, n)
           w == WriteLog(s, l)
           o == Wrap(c + 2)
           part1 == IF o + n > buf_size THEN buf_size - o ELSE 0
           at == IF part1 > 0 THEN 0 ELSE o
           rest == n - part1
           W == (IF part1 > 0 THEN o .. buf_size - 1 ELSE {}) \cup (at .. at + rest - 1)
<1>1. /\ buf_size \in Nat /\ c \in 0 .. buf_size - 1 /\ n \in Nat /\ n > 0 /\ n + 2 <= buf_size
      /\ r.buf \in [0 .. buf_size -> Nat]
  BY LogConstants, SMTT(40) DEF Rings, Header
<1>2. r = [buf |-> r.buf, current |-> r.current, first |-> r.first]
  BY DEF Rings
<1>3. /\ (c + 1) % buf_size = Wrap(c + 1) /\ (c + 2) % buf_size = o
      /\ Wrap(c + 1) \in 0 .. buf_size - 1 /\ o \in 0 .. buf_size - 1
  <2> HIDE DEF c, n
  <2>1. c + 1 \in 0 .. 2 * buf_size - 1 /\ c + 2 \in 0 .. 2 * buf_size - 1  BY <1>1
  <2> QED  BY <2>1, WrapMod
<1>4. /\ s.buf = [[r.buf EXCEPT ![c] = n % 256] EXCEPT ![Wrap(c + 1)] = n \div 256]
      /\ s.current = o /\ s.first = r.first
      /\ s = [buf |-> s.buf, current |-> s.current, first |-> s.first]
  <2> DEFINE b == [[r.buf EXCEPT ![c] = n % 256] EXCEPT ![Wrap(c + 1)] = n \div 256]
  <2>1. s = [r EXCEPT !.buf[c] = n % 256, !.buf[(c + 1) % buf_size] = n \div 256,
                      !.current = (@ + 2) % buf_size]
    BY Zenon DEF WriteSize
  <2>2. s = [r EXCEPT !.buf[c] = n % 256, !.buf[Wrap(c + 1)] = n \div 256, !.current = o]
    BY <1>3, <2>1
  <2> HIDE DEF s, n, o
  <2>3. s = [buf |-> b, current |-> o, first |-> r.first]
    BY <1>2, <2>2
  <2> HIDE DEF b
  <2>4. s.buf = b /\ s.current = o /\ s.first = r.first  BY <2>3
  <2> QED  BY <2>3, <2>4 DEF b
<1>5. s.buf \in [0 .. buf_size -> Nat]
  <2>1. n % 256 \in Nat /\ n \div 256 \in Nat  BY <1>1, HighLow, SMTT(40)
  <2> HIDE DEF s, n, c
  <2>2. c \in 0 .. buf_size /\ Wrap(c + 1) \in 0 .. buf_size  BY <1>1, <1>3
  <2>3. [r.buf EXCEPT ![c] = n % 256] \in [0 .. buf_size -> Nat]  BY <1>1, <2>1, <2>2
  <2> QED  BY <1>4, <2>1, <2>2, <2>3, ZenonT(60)
<1> HIDE DEF s
<1>6. /\ w.buf = [i \in 0 .. buf_size |-> IF i \in W THEN l.id ELSE s.buf[i]]
      /\ w.current = at + rest /\ w.first = s.first
      /\ w = [buf |-> w.buf, current |-> w.current, first |-> w.first]
  <2>1. WriteLog(s, l) = [s EXCEPT !.buf = [i \in 0 .. buf_size |-> IF i \in W THEN l.id ELSE @[i]],
                                   !.current = at + rest]
    BY <1>4 DEF WriteLog
  <2> HIDE DEF W, at, rest
  <2> QED  BY <1>4, <2>1, ZenonT(60)
<1> HIDE DEF w, c, n
<1>7. c + 1 < buf_size => Wrap(c + 1) = c + 1  BY <1>1 DEF Wrap
<1>8. \A k \in 1 .. n : Wrap(c + 1 + k) \in W /\ Wrap(c + 1 + k) \in 0 .. buf_size
  BY <1>1 DEF Wrap
<1>9. \A y \in (0 .. 1) \cup (2 + n .. buf_size - 1) : Wrap(c + y) \notin W
  BY <1>1 DEF Wrap
<1>10. w.current \in 0 .. buf_size /\ (w.current # buf_size => w.current = Wrap(c + 2 + n))
  <2>1. at + rest \in 0 .. buf_size /\ (at + rest # buf_size => at + rest = Wrap(c + 2 + n))
    BY <1>1, SMTT(40) DEF Wrap
  <2> QED  BY <1>6, <2>1
<1> HIDE DEF W, at, rest, o
<1>11. Wrap(c) = c /\ Wrap(c + 0) = c /\ Wrap(c + 1) # c /\ c \in 0 .. buf_size  BY <1>1 DEF Wrap
<1>12. w.buf \in [0 .. buf_size -> Nat]
  <2>1. l.id \in Nat  OBVIOUS
  <2> QED  BY <1>5, <1>6, <2>1
<1>13. w.buf[c] = n % 256 /\ w.buf[Wrap(c + 1)] = n \div 256
  <2>1. c \notin W /\ Wrap(c + 1) \notin W
    <3>1. 0 \in 0 .. 1 /\ 1 \in 0 .. 1  OBVIOUS
    <3> QED  BY <1>9, <1>11, <3>1
  <2>2. Wrap(c + 1) \in 0 .. buf_size  BY <1>1, <1>3
  <2>3. s.buf[c] = n % 256 /\ s.buf[Wrap(c + 1)] = n \div 256
    BY <1>1, <1>4, <1>11, <2>2, SMTT(40)
  <2>4. w.buf[c] = s.buf[c] /\ w.buf[Wrap(c + 1)] = s.buf[Wrap(c + 1)]
    BY <1>6, <1>11, <2>1, <2>2
  <2> QED  BY <2>3, <2>4
<1>14. \A k \in 1 .. n : w.buf[Wrap(c + 1 + k)] = l.id
  BY <1>6, <1>8
<1>15. ASSUME NEW y \in 2 + n .. buf_size - 1 PROVE w.buf[Wrap(c + y)] = r.buf[Wrap(c + y)]
  <2>1. Wrap(c + y) \in 0 .. buf_size /\ Wrap(c + y) # c /\ Wrap(c + y) # Wrap(c + 1)
    BY <1>1 DEF Wrap
  <2>2. w.buf[Wrap(c + y)] = s.buf[Wrap(c + y)]  BY <1>6, <1>9, <2>1
  <2>3. s.buf[Wrap(c + y)] = r.buf[Wrap(c + y)]  BY <1>1, <1>4, <2>1
  <2> QED  BY <2>2, <2>3
<1>16. w.first = r.first  BY <1>4, <1>6
<1> QED  BY <1>6, <1>10, <1>12, <1>13, <1>14, <1>15, <1>16 DEF w, s, c, n

(* The room left is what the logs do not take.                             *)
LEMMA SpareSpaceLaid ==
  ASSUME NEW r, NEW e, NEW n, NEW acc, Laid(r, e, n, acc)
  PROVE  SpareSpace(r) = buf_size - (At(e, Len(e)) - At(e, n))
<1> DEFINE t == At(e, Len(e)) - At(e, n)
<1>1. /\ r.first \in 0 .. buf_size - 1 /\ buf_size \in Nat /\ Len(e) \in Nat /\ n \in 0 .. Len(e)
      /\ \A i \in 0 .. Len(e) : At(e, i) \in Nat
      /\ At(e, Len(e)) - At(e, n) < buf_size
  BY LaidSizes
<1>2. At(e, Len(e)) - At(e, n) >= 3 * (Len(e) - n)
  <2>1. Len(e) \in 0 .. Len(e) /\ n <= Len(e)  BY <1>1
  <2> QED  BY <1>1, <2>1, LaidSizes
<1>3. t \in 0 .. buf_size - 1
  <2>1. At(e, Len(e)) \in Nat /\ At(e, n) \in Nat  BY <1>1
  <2> QED  BY <1>1, <1>2, <2>1
<1>4. r.current = Wrap(r.first + t)  BY DEF Laid
<1> HIDE DEF t
<1>5. SpareSpace(r) = buf_size - t  BY <1>1, <1>3, <1>4 DEF SpareSpace, Wrap
<1> QED  BY <1>5 DEF t

(* A log for which there is room is laid behind the others.                *)
LEMMA WriteLaid ==
  ASSUME NEW r, NEW e, NEW n, NEW acc, Laid(r, e, n, acc),
         NEW l, l.size \in Nat, l.id \in Nat, l.size > 0,
         At(e, Len(e)) - At(e, n) + Header + l.size <= buf_size,
         NEW w, w = WriteLog(WriteSize(r, l.size), l),
         w.current # buf_size, w.current # w.first
  PROVE  Laid(w, Append(e, At(e, Len(e)) + Header + l.size), n, acc \o BytesOf(l))
<1> DEFINE K == Len(e)
           g == Append(e, At(e, K) + Header + l.size)
           acc2 == acc \o BytesOf(l)
           t == At(e, K) - At(e, n)
           c == r.current
           f == r.first
           N == l.size
<1>1. /\ f \in 0 .. buf_size - 1 /\ buf_size \in Nat /\ K \in Nat /\ n \in 0 .. K /\ K \in 0 .. K
      /\ \A i \in 0 .. K : At(e, i) \in Nat
      /\ Len(acc) \in Nat /\ acc \in Seq(Nat) /\ Ends(e) /\ r \in Rings
      /\ Content(e, K) <= Len(acc)
  <2>1. acc \in Seq(Nat) /\ Ends(e) /\ r \in Rings /\ Content(e, K) <= Len(acc)  BY DEF Laid
  <2>2. K \in Nat /\ K \in 0 .. K  BY LaidSizes
  <2> QED  BY <2>1, <2>2, LaidSizes
<1>2. \A i, j \in 0 .. K : i <= j => At(e, j) - At(e, i) >= 3 * (j - i)  BY LaidSizes
<1>3. t \in Nat
  <2>1. At(e, K) \in Nat /\ At(e, n) \in Nat /\ n <= K  BY <1>1
  <2>2. At(e, K) - At(e, n) >= 3 * (K - n)  BY <1>1, <1>2, <2>1
  <2> QED  BY <1>1, <2>1, <2>2, SMTT(40)
<1>4. t + 2 + N <= buf_size /\ N \in Nat /\ N > 0 /\ N + Header <= buf_size
  <2>1. At(e, K) \in Nat /\ At(e, n) \in Nat  BY <1>1
  <2> QED  BY <1>1, <1>3, <2>1, SMTT(40) DEF Header
<1>5. c = Wrap(f + t) /\ c \in 0 .. buf_size - 1  BY <1>1 DEF Laid, Rings
<1>6. /\ w.buf \in [0 .. buf_size -> Nat] /\ w.first = f
      /\ w = [buf |-> w.buf, current |-> w.current, first |-> w.first]
      /\ w.current \in 0 .. buf_size
      /\ w.current # buf_size => w.current = Wrap(c + 2 + N)
      /\ w.buf[c] = N % 256 /\ w.buf[Wrap(c + 1)] = N \div 256
      /\ \A k \in 1 .. N : w.buf[Wrap(c + 1 + k)] = l.id
      /\ \A y \in 2 + N .. buf_size - 1 : w.buf[Wrap(c + y)] = r.buf[Wrap(c + y)]
  <2>1. r \in Rings /\ l.size \in Nat /\ l.id \in Nat /\ l.size > 0 /\ l.size + Header <= buf_size
    BY <1>1, <1>4
  <2> DEFINE x == WriteLog(WriteSize(r, l.size), l)
  <2>2. /\ x.buf \in [0 .. buf_size -> Nat] /\ x.first = r.first
        /\ x = [buf |-> x.buf, current |-> x.current, first |-> x.first]
        /\ x.current \in 0 .. buf_size
        /\ x.current # buf_size => x.current = Wrap(r.current + 2 + l.size)
        /\ x.buf[r.current] = l.size % 256 /\ x.buf[Wrap(r.current + 1)] = l.size \div 256
        /\ \A k \in 1 .. l.size : x.buf[Wrap(r.current + 1 + k)] = l.id
        /\ \A y \in 2 + l.size .. buf_size - 1 :
             x.buf[Wrap(r.current + y)] = r.buf[Wrap(r.current + y)]
    BY <2>1, WriteCells
  <2>3. w = x  OBVIOUS
  <2> HIDE DEF x
  <2> QED  BY <2>2, <2>3
<1>7. /\ Ends(g) /\ Len(g) = K + 1
      /\ \A i \in 0 .. K : At(g, i) = At(e, i) /\ Content(g, i) = Content(e, i)
      /\ At(g, K + 1) = At(e, K) + Header + N
      /\ Content(g, K + 1) = Content(e, K) + N
  BY <1>1, <1>4, EndsAppend
<1> HIDE DEF g
<1>8. /\ acc2 \in Seq(Nat) /\ Len(acc2) = Len(acc) + N
      /\ \A i \in 1 .. Len(acc) : acc2[i] = acc[i]
      /\ \A k \in 1 .. N : acc2[Len(acc) + k] = l.id
  <2>1. BytesOf(l) \in Seq(Nat) /\ Len(BytesOf(l)) = N /\ \A k \in 1 .. N : BytesOf(l)[k] = l.id
    BY <1>4 DEF BytesOf
  <2>2. /\ acc2 \in Seq(Nat) /\ Len(acc2) = Len(acc) + Len(BytesOf(l))
        /\ \A i \in 1 .. Len(acc) + Len(BytesOf(l)) :
             acc2[i] = IF i <= Len(acc) THEN acc[i] ELSE BytesOf(l)[i - Len(acc)]
    BY <1>1, <2>1, ConcatProperties
  <2> HIDE DEF acc2, N
  <2>3. ASSUME NEW i \in 1 .. Len(acc) PROVE acc2[i] = acc[i]
    <3>1. i \in 1 .. Len(acc) + Len(BytesOf(l)) /\ i <= Len(acc)  BY <1>1, <1>4, <2>1
    <3> QED  BY <2>2, <3>1
  <2>4. ASSUME NEW k \in 1 .. N PROVE acc2[Len(acc) + k] = l.id
    <3>1. Len(acc) + k \in 1 .. Len(acc) + Len(BytesOf(l)) /\ ~(Len(acc) + k <= Len(acc))
          /\ (Len(acc) + k) - Len(acc) = k
      BY <1>1, <1>4, <2>1
    <3> QED  BY <2>1, <2>2, <3>1
  <2> QED  BY <2>1, <2>2, <2>3, <2>4
<1> HIDE DEF acc2, N, c, f, t
<1>9. w.current = Wrap(f + (t + 2 + N)) /\ t + 2 + N < buf_size
  <2>1. w.current = Wrap(c + 2 + N)  BY <1>6
  <2>2. Wrap(c + 2 + N) = Wrap(f + (t + 2 + N))
    BY <1>1, <1>3, <1>4, <1>5 DEF Wrap
  <2>3. t + 2 + N = buf_size => Wrap(f + (t + 2 + N)) = f
    BY <1>1, <1>3, <1>4 DEF Wrap
  <2>4. w.current = Wrap(f + (t + 2 + N))  BY <2>1, <2>2
  <2>5. t + 2 + N # buf_size  BY <1>6, <2>3, <2>4
  <2>6. t + 2 + N < buf_size  BY <1>1, <1>3, <1>4, <2>5
  <2> QED  BY <2>4, <2>6
<1>10. \A x \in 0 .. t - 1 : w.buf[Wrap(f + x)] = r.buf[Wrap(f + x)]
  <2> TAKE x \in 0 .. t - 1
  <2> DEFINE y == buf_size - t + x
  <2>1. y \in 2 + N .. buf_size - 1  BY <1>1, <1>3, <1>4
  <2>2. Wrap(c + y) = Wrap(f + x)  BY <1>1, <1>3, <1>4, <1>5 DEF Wrap
  <2> HIDE DEF y
  <2> QED  BY <1>6, <2>1, <2>2
<1>11. \A z \in 0 .. 1 + N : Wrap((f + t) + z) = Wrap(c + z)
  <2> TAKE z \in 0 .. 1 + N
  <2> QED  BY <1>1, <1>3, <1>4, <1>5 DEF Wrap
<1>12. ASSUME NEW i \in n + 1 .. K PROVE Written(w, g, n, acc2, i)
  <2> DEFINE u == At(e, i - 1)
             v == At(e, i)
             p == At(e, n)
             q == At(e, K)
             d == f + u - p
             size == v - u - Header
             a == Len(acc) - Content(e, K) + Content(e, i - 1)
  <2>1. i - 1 \in 0 .. K /\ i \in 0 .. K /\ n <= i - 1 /\ i - 1 <= i /\ i <= K /\ n \in 0 .. K
    BY <1>1
  <2>2. u \in Nat /\ v \in Nat /\ p \in Nat /\ q \in Nat  BY <1>1, <2>1
  <2>3. u - p >= 3 * ((i - 1) - n) /\ v - u >= 3 * (i - (i - 1)) /\ q - v >= 3 * (K - i)
    BY <1>1, <1>2, <2>1
  <2>4. u - p >= 0 /\ v - u >= 3 /\ v - p <= t
    <3>1. t = q - p  BY DEF t
    <3> HIDE DEF u, v, p, q
    <3> QED  BY <1>1, <2>1, <2>2, <2>3, <3>1
  <2>5. Written(r, e, n, acc, i)  BY DEF Laid
  <2>6. /\ r.buf[Wrap(d)] = size % 256 /\ r.buf[Wrap(d + 1)] = size \div 256
        /\ \A k \in 1 .. size : r.buf[Wrap(d + 1 + k)] = acc[a + k]
    BY <2>5 DEF Written, f
  <2>7. a \in Nat /\ a + size = Before(e, acc, i) /\ a + size <= Len(acc)
    <3>1. Before(e, acc, i - 1) \in 0 .. Len(acc) /\ Before(e, acc, i) \in 0 .. Len(acc)
      BY <2>1, LaidSizes
    <3>2. a = Before(e, acc, i - 1)  BY DEF Before
    <3>3. Content(e, K) \in Int
      <4>1. At(e, K) \in Nat  BY <1>1
      <4> QED  BY <1>1, <4>1 DEF Content, Header
    <3>4. Content(e, i) = v - 2 * i /\ Content(e, i - 1) = u - 2 * (i - 1) /\ size = v - u - 2
      BY DEF Content, Header
    <3> DEFINE C == Content(e, K)
    <3>5. Before(e, acc, i) = Len(acc) - C + (v - 2 * i) /\ a = Len(acc) - C + (u - 2 * (i - 1))
      BY <3>4 DEF Before
    <3> HIDE DEF a, u, v, size, C
    <3>6. C \in Int  BY <3>3 DEF C
    <3>7. a + size = Before(e, acc, i)  BY <1>1, <2>1, <2>2, <3>4, <3>5, <3>6
    <3> QED  BY <1>1, <3>1, <3>2, <3>7
  <2>8. /\ At(g, i - 1) = u /\ At(g, i) = v /\ At(g, n) = p
        /\ Len(acc2) - Content(g, Len(g)) + Content(g, i - 1) = a
    <3>1. /\ At(g, i - 1) = u /\ At(g, i) = v /\ At(g, n) = p
          /\ Content(g, i - 1) = Content(e, i - 1)
      BY <1>7, <2>1
    <3>2. Len(acc2) - Content(g, Len(g)) = Len(acc) - Content(e, K)
      <4>1. Content(e, K) \in Int
        <5>1. At(e, K) \in Nat  BY <1>1
        <5> QED  BY <1>1, <5>1 DEF Content, Header
      <4> QED  BY <1>1, <1>4, <1>7, <1>8, <4>1
    <3> QED  BY <3>1, <3>2
  <2>9. size = v - u - 2 /\ d = f + u - p  BY DEF Header
  <2> HIDE DEF a, size, d, u, v, p
  <2>10. \A z \in 0 .. 1 + size : w.buf[Wrap(d + z)] = r.buf[Wrap(d + z)]
    <3> TAKE z \in 0 .. 1 + size
    <3> DEFINE x == (u - p) + z
    <3>1. x \in 0 .. t - 1 /\ f + x = d + z  BY <1>1, <1>3, <2>2, <2>4, <2>9
    <3> HIDE DEF x
    <3> QED  BY <1>10, <3>1
  <2>11. size \in Nat /\ d \in Int /\ d + 0 = d  BY <1>1, <2>2, <2>4, <2>9
  <2>12. w.buf[Wrap(d)] = size % 256 /\ w.buf[Wrap(d + 1)] = size \div 256
    <3>1. 0 \in 0 .. 1 + size /\ 1 \in 0 .. 1 + size  BY <2>11
    <3> QED  BY <2>6, <2>10, <2>11, <3>1
  <2>13. \A k \in 1 .. size : w.buf[Wrap(d + 1 + k)] = acc2[a + k]
    <3> TAKE k \in 1 .. size
    <3>1. 1 + k \in 0 .. 1 + size /\ d + (1 + k) = d + 1 + k  BY <2>11
    <3>2. a + k \in 1 .. Len(acc)  BY <1>1, <2>7, <2>11
    <3>3. w.buf[Wrap(d + 1 + k)] = r.buf[Wrap(d + 1 + k)]  BY <2>10, <3>1
    <3> QED  BY <1>8, <2>6, <3>2, <3>3, SMTT(40)
  <2>14. w.first + At(g, i - 1) - At(g, n) = d /\ At(g, i) - At(g, i - 1) - Header = size
    BY <1>6, <2>8 DEF d, size
  <2> QED  BY <2>8, <2>12, <2>13, <2>14 DEF Written
<1>13. Written(w, g, n, acc2, K + 1)
  <2>1. /\ (K + 1) - 1 = K /\ At(g, K) = At(e, K) /\ At(g, n) = At(e, n)
        /\ Content(g, K) = Content(e, K)
        /\ At(e, K) \in Nat /\ At(e, n) \in Nat
    BY <1>1, <1>7
  <2>2. w.first + At(g, K) - At(g, n) = f + t /\ At(g, K + 1) - At(g, K) - Header = N
    BY <1>1, <1>4, <1>6, <1>7, <2>1, SMTT(40) DEF t, Header
  <2>3. Len(acc2) - Content(g, Len(g)) + Content(g, K) = Len(acc)
    <3> DEFINE C == Content(e, K)
    <3>1. C \in Int  BY <1>1, <2>1 DEF Content, Header
    <3>2. Len(acc2) = Len(acc) + N /\ Content(g, Len(g)) = C + N /\ Content(g, K) = C
      BY <1>7, <1>8, <2>1
    <3> HIDE DEF C
    <3> QED  BY <1>1, <1>4, <3>1, <3>2
  <2>4. Wrap(f + t) = c /\ Wrap((f + t) + 1) = Wrap(c + 1)
    <3>1. 1 \in 0 .. 1 + N  BY <1>4
    <3> QED  BY <1>5, <1>11, <3>1
  <2>5. \A k \in 1 .. N : Wrap((f + t) + 1 + k) = Wrap(c + 1 + k)
    <3> TAKE k \in 1 .. N
    <3>1. 1 + k \in 0 .. 1 + N /\ (f + t) + (1 + k) = (f + t) + 1 + k /\ c + (1 + k) = c + 1 + k
      BY <1>1, <1>3, <1>4, <1>5
    <3>2. Wrap((f + t) + (1 + k)) = Wrap(c + (1 + k))  BY <1>11, <3>1
    <3> QED  BY <3>1, <3>2
  <2>6. /\ w.buf[Wrap(f + t)] = N % 256 /\ w.buf[Wrap((f + t) + 1)] = N \div 256
        /\ \A k \in 1 .. N : w.buf[Wrap((f + t) + 1 + k)] = acc2[Len(acc) + k]
    BY <1>6, <1>8, <2>4, <2>5
  <2>7. /\ w.first + At(g, (K + 1) - 1) - At(g, n) = f + t
        /\ At(g, K + 1) - At(g, (K + 1) - 1) - Header = N
        /\ Len(acc2) - Content(g, Len(g)) + Content(g, (K + 1) - 1) = Len(acc)
    BY <2>1, <2>2, <2>3
  <2> QED  BY <2>6, <2>7, ZenonT(60) DEF Written
<1>14. \A i \in n + 1 .. Len(g) : Written(w, g, n, acc2, i)
  <2>1. \A i \in n + 1 .. K + 1 : i = K + 1 \/ i \in n + 1 .. K  BY <1>1
  <2> QED  BY <1>7, <1>12, <1>13, <2>1
<1>15. /\ n \in 0 .. Len(g) /\ At(g, Len(g)) - At(g, n) = t + 2 + N
       /\ Content(g, Len(g)) <= Len(acc2)
  <2>1. At(e, K) \in Nat /\ At(e, n) \in Nat /\ At(g, n) = At(e, n)  BY <1>1, <1>7
  <2> DEFINE C == Content(e, K)
             q == At(e, K)
             p == At(e, n)
  <2>2. C \in Int  BY <1>1, <2>1 DEF Content, Header
  <2>3. Len(acc2) = Len(acc) + N /\ Content(g, Len(g)) = C + N /\ C <= Len(acc)
    BY <1>1, <1>7, <1>8
  <2>4. Content(g, Len(g)) <= Len(acc2)
    <3> HIDE DEF C
    <3> QED  BY <1>1, <1>4, <2>2, <2>3
  <2>5. q \in Nat /\ p \in Nat /\ t = q - p /\ At(g, n) = p /\ At(g, Len(g)) = q + 2 + N
    BY <1>7, <2>1 DEF t, Header
  <2>6. At(g, Len(g)) - At(g, n) = t + 2 + N
    <3> HIDE DEF p, q
    <3> QED  BY <1>4, <2>5
  <2>7. n \in 0 .. Len(g)  BY <1>1, <1>7
  <2> QED  BY <2>4, <2>6, <2>7
<1>16. w \in Rings
  <2>1. w.current \in 0 .. buf_size - 1  BY <1>1, <1>6
  <2> QED  BY <1>1, <1>6, <2>1 DEF Rings
<1>17. Laid(w, g, n, acc2)
  BY <1>6, <1>7, <1>8, <1>9, <1>14, <1>15, <1>16 DEF Laid
<1> QED  BY <1>17 DEF g, acc2, N

\* The ring holds the longest run of last logs that fits.
RingLaid(r, e, acc) ==
  \E n \in 0 .. Len(e) :
    Laid(r, e, n, acc) /\ (n > 0 => At(e, Len(e)) - At(e, n - 1) > buf_size)

(* A store keeps the longest run of last logs that fits, and takes none    *)
(* away when there is room.                                                *)
LEMMA StoredLaid ==
  ASSUME NEW r, NEW e, NEW n, NEW acc, Laid(r, e, n, acc),
         n > 0 => At(e, Len(e)) - At(e, n - 1) > buf_size,
         NEW l, l.size \in Nat, l.id \in Nat, l.size > 0, l.size + Header <= buf_size,
         Stored(r, l).current # buf_size, Stored(r, l).current # Stored(r, l).first
  PROVE  LET g == Append(e, At(e, Len(e)) + Header + l.size)
         IN \E m \in n .. Len(g) :
              /\ Laid(Stored(r, l), g, m, acc \o BytesOf(l))
              /\ m > 0 => At(g, Len(g)) - At(g, m - 1) > buf_size
              /\ At(e, Len(e)) - At(e, n) + Header + l.size <= buf_size => m = n
<1> DEFINE K == Len(e)
           N == l.size
           t == At(e, K) - At(e, n)
           g == Append(e, At(e, K) + Header + N)
           space == N + Header - SpareSpace(r)
           q == FreeSpace(r, space)
           w == Stored(r, l)
<1>1. /\ buf_size \in Nat /\ K \in Nat /\ n \in 0 .. K /\ K \in 0 .. K
      /\ \A i \in 0 .. K : At(e, i) \in Nat
      /\ N \in Nat /\ N > 0 /\ N + 2 <= buf_size /\ Ends(e)
  <2>1. K \in Nat /\ n \in 0 .. K /\ \A i \in 0 .. K : At(e, i) \in Nat  BY LaidSizes
  <2>2. K \in 0 .. K  BY <2>1
  <2> QED  BY <2>1, <2>2, LogConstants DEF Header, Laid
<1>2. t \in Nat /\ t < buf_size
  <2>1. At(e, K) - At(e, n) >= 3 * (K - n) /\ At(e, K) - At(e, n) < buf_size
    <3>1. n <= K  BY <1>1
    <3> QED  BY <1>1, <3>1, LaidSizes
  <2>2. At(e, K) \in Nat /\ At(e, n) \in Nat  BY <1>1
  <2>3. t \in Int /\ K - n >= 0  BY <1>1, <2>2
  <2> HIDE DEF t
  <2> QED  BY <1>1, <2>1, <2>3 DEF t
<1>3. space = (N + 2 + t) - buf_size
  <2>1. SpareSpace(r) = buf_size - t  BY SpareSpaceLaid
  <2> HIDE DEF t, N
  <2> QED  BY <1>1, <1>2, <2>1 DEF Header
<1>4. space \in Int /\ space <= At(e, K) - At(e, n)
  <2>1. space <= t /\ space \in Int
    <3> HIDE DEF t, N, space
    <3> QED  BY <1>1, <1>2, <1>3
  <2> HIDE DEF space
  <2> QED  BY <2>1
<1> HIDE DEF space
<1>5. PICK m \in n .. K :
        /\ q = [r EXCEPT !.first = EndOf(r, e, n, m)]
        /\ At(e, m) - At(e, n) >= space
        /\ m > n => At(e, m - 1) - At(e, n) < space
  BY <1>4, FreeSpaceLaid
<1> HIDE DEF q
<1>6. Laid(q, e, m, acc)
  <2>1. Laid([r EXCEPT !.first = EndOf(r, e, n, m)], e, m, acc)  BY LaidFrom
  <2> QED  BY <1>5, <2>1
<1>7. w = WriteLog(WriteSize(q, N), l)  BY DEF Stored, q, space
<1> HIDE DEF w
<1> DEFINE u == At(e, m)
           v == At(e, n)
           z == At(e, K)
<1>8. u \in Nat /\ v \in Nat /\ z \in Nat /\ m \in 0 .. K
  BY <1>1
<1>9. t = z - v  OBVIOUS
<1>10. z - u + Header + N <= buf_size
  <2>1. u - v >= space  BY <1>5
  <2> HIDE DEF t, u, v, z, N
  <2> QED  BY <1>1, <1>2, <1>3, <1>8, <1>9, <2>1 DEF Header
<1>11. Laid(w, g, m, acc \o BytesOf(l))
  <2>1. w.current # buf_size /\ w.current # w.first  BY DEF w
  <2> QED  BY <1>6, <1>7, <1>10, <2>1, WriteLaid
<1>12. /\ Len(g) = K + 1
       /\ \A i \in 0 .. K : At(g, i) = At(e, i)
       /\ At(g, K + 1) = z + Header + N
  BY <1>1, EndsAppend
<1> HIDE DEF g
<1>13. ASSUME m > 0 PROVE At(g, Len(g)) - At(g, m - 1) > buf_size
  <2> DEFINE y == At(e, m - 1)
  <2>1. m - 1 \in 0 .. K  BY <1>8, <1>13
  <2>2. At(g, Len(g)) = z + 2 + N /\ At(g, m - 1) = y /\ y \in Nat  BY <1>1, <1>12, <2>1 DEF Header
  <2>3. CASE m > n
    <3>1. y - v < space  BY <1>5, <2>3
    <3> HIDE DEF t, u, v, z, N, y
    <3> QED  BY <1>1, <1>2, <1>3, <1>8, <1>9, <2>2, <3>1
  <2>4. CASE m = n
    <3>1. z - y > buf_size  BY <1>13, <2>4
    <3> HIDE DEF t, u, v, z, N, y
    <3> QED  BY <1>1, <1>8, <2>2, <3>1
  <2> QED  BY <1>1, <1>5, <2>3, <2>4
<1>14. ASSUME t + Header + N <= buf_size PROVE m = n
  <2> SUFFICES ASSUME m > n PROVE FALSE  BY <1>1, <1>5
  <2> DEFINE y == At(e, m - 1)
  <2>1. y - v < space  BY <1>5
  <2>2. m - 1 \in 0 .. K /\ n <= m - 1  BY <1>1, <1>8
  <2>3. y \in Nat  BY <1>1, <2>2
  <2>4. y - v >= 3 * ((m - 1) - n)  BY <1>1, <2>2, LaidSizes
  <2>5. space <= 0
    <3> HIDE DEF t, N
    <3> QED  BY <1>1, <1>2, <1>3, <1>14 DEF Header
  <2>6. (m - 1) - n >= 0  BY <1>1, <1>8, <2>2
  <2> HIDE DEF t, v, N, y
  <2> QED  BY <1>1, <1>4, <1>8, <2>1, <2>3, <2>4, <2>5, <2>6
<1>15. m \in n .. Len(g)  BY <1>1, <1>5, <1>12
<1>16. \E j \in n .. Len(g) :
         /\ Laid(w, g, j, acc \o BytesOf(l))
         /\ j > 0 => At(g, Len(g)) - At(g, j - 1) > buf_size
         /\ t + Header + N <= buf_size => j = n
  <2> HIDE DEF t, N
  <2> QED  BY <1>11, <1>13, <1>14, <1>15
<1> QED  BY <1>16 DEF w, g

(* No log is laid in a ring emptied.                                       *)
LEMMA EmptyLaid ==
  ASSUME NEW b \in [0 .. buf_size -> Nat], NEW acc \in Seq(Nat),
         NEW r, r = [buf |-> b, current |-> 0, first |-> 0]
  PROVE  Laid(r, <<>>, 0, acc) /\ RingLaid(r, <<>>, acc)
<1>1. buf_size \in Nat \ {0} /\ 0 \in 0 .. buf_size - 1  BY LogConstants
<1>2. Len(<<>>) = 0 /\ <<>> \in Seq(Nat) /\ 0 .. 0 = {0} /\ 1 .. 0 = {}  OBVIOUS
<1>3. At(<<>>, 0) = 0 /\ Content(<<>>, 0) = 0  BY DEF At, Content, Header
<1>4. Ends(<<>>)
  <2>1. (Header + 1) * (0 - 0) = 0  BY DEF Header
  <2>2. \A i, j \in 0 .. 0 : i = 0 /\ j = 0  BY <1>2
  <2> QED  BY <1>2, <1>3, <2>1, <2>2 DEF Ends
<1>5. r \in Rings  BY <1>1 DEF Rings
<1>6. Wrap(0) = 0 /\ r.first = 0 /\ r.current = 0  BY <1>1 DEF Wrap
<1>7. Len(acc) \in Nat  BY LenProperties
<1>8. r.current = Wrap(r.first + (At(<<>>, Len(<<>>)) - At(<<>>, 0)))  BY <1>2, <1>3, <1>6
<1>9. Laid(r, <<>>, 0, acc)
  BY <1>1, <1>2, <1>3, <1>4, <1>5, <1>7, <1>8 DEF Laid
<1> QED  BY <1>2, <1>9 DEF RingLaid

------------------------------------------------------------------------------
(* The types. *)

LogRecords == [id : Nat, size : Sizes, severe : BOOLEAN, stepped : BOOLEAN]

\* What the ring may be when it is not known what it holds.
Cells == [buf : [0 .. buf_size -> Nat], current : 0 .. buf_size, first : 0 .. buf_size]

FileStates == [exists : BOOLEAN, bytes : Seq(Nat)]
FlashStates == [pc : {"idle", "start", "rename", "open", "write"}, data : Seq(Nat)]

LogTypes ==
  /\ policy \in Policies /\ Ring \in Cells
  /\ file1 \in FileStates /\ file2 \in FileStates /\ flash \in FlashStates
  /\ pending \in Seq(LogRecords) /\ Len(pending) <= 2
  /\ \A i \in 1 .. Len(pending) : pending[i].size + Header <= buf_size
  /\ logs \in Nat /\ crashes \in Nat
  /\ kept \in Seq(Nat) /\ flashed \in Seq(Nat) /\ accepted \in Seq(Nat)
  /\ flash.pc = "idle" => flash.data = <<>>
  /\ flash.pc = "open" => file1.bytes = <<>>

(* A sequence is a suffix of what it ends, and a prefix of what it begins. *)
LEMMA SuffixConcat ==
  ASSUME NEW s \in Seq(Nat), NEW x \in Seq(Nat)
  PROVE  IsSuffix(s, x \o s)
<1> DEFINE t == x \o s
           a == Reverse(s)
           b == Reverse(t)
<1>1. Len(s) \in Nat /\ Len(x) \in Nat  BY LenProperties
<1>2. /\ t \in Seq(Nat) /\ Len(t) = Len(x) + Len(s)
      /\ \A i \in 1 .. Len(x) + Len(s) : t[i] = IF i <= Len(x) THEN x[i] ELSE s[i - Len(x)]
  BY ConcatProperties
<1> HIDE DEF t
<1>3. \A u \in Seq(Nat) : /\ Reverse(u) \in Seq(Nat) /\ Len(Reverse(u)) = Len(u)
                          /\ \A i \in 1 .. Len(u) : Reverse(u)[i] = u[(Len(u) - i) + 1]
  <2> TAKE u \in Seq(Nat)
  <2>1. Len(u) \in Nat  BY LenProperties
  <2>2. \A i \in 1 .. Len(u) : (Len(u) - i) + 1 \in 1 .. Len(u)  BY <2>1
  <2>3. \A i \in 1 .. Len(u) : u[(Len(u) - i) + 1] \in Nat  BY <2>2, ElementOfSeq
  <2>4. [i \in 1 .. Len(u) |-> u[(Len(u) - i) + 1]] \in Seq(Nat)
    BY <2>1, <2>3, IsASeq
  <2>5. Reverse(u) = [i \in 1 .. Len(u) |-> u[(Len(u) - i) + 1]]  BY DEF Reverse
  <2>6. Len(Reverse(u)) = Len(u)
    <3>1. DOMAIN Reverse(u) = 1 .. Len(u)  BY <2>5
    <3>2. Len(Reverse(u)) \in Nat /\ DOMAIN Reverse(u) = 1 .. Len(Reverse(u))
      BY <2>4, <2>5, LenProperties
    <3> QED  BY <2>1, <3>1, <3>2
  <2> QED  BY <2>4, <2>5, <2>6
<1>4. /\ a \in Seq(Nat) /\ Len(a) = Len(s) /\ \A i \in 1 .. Len(s) : a[i] = s[(Len(s) - i) + 1]
      /\ b \in Seq(Nat) /\ Len(b) = Len(t) /\ \A i \in 1 .. Len(t) : b[i] = t[(Len(t) - i) + 1]
  BY <1>2, <1>3
<1> HIDE DEF a, b
<1>5. Len(a) <= Len(b)  BY <1>1, <1>2, <1>4
<1>6. SubSeq(a, 1, Len(a)) = a  BY <1>4, SubSeqFull
<1>7. /\ SubSeq(b, 1, Len(a)) \in Seq(Nat) /\ Len(SubSeq(b, 1, Len(a))) = Len(a)
      /\ \A i \in 1 .. Len(a) : SubSeq(b, 1, Len(a))[i] = b[i]
  <2>1. \A i \in 1 .. Len(a) : b[i] \in Nat
    <3>1. \A i \in 1 .. Len(a) : i \in 1 .. Len(b)  BY <1>1, <1>2, <1>4
    <3> QED  BY <1>4, <3>1, ElementOfSeq
  <2>2. /\ SubSeq(b, 1, Len(a)) \in Seq(Nat)
        /\ Len(SubSeq(b, 1, Len(a))) = IF 1 <= Len(a) THEN Len(a) - 1 + 1 ELSE 0
        /\ \A i \in 1 .. Len(a) - 1 + 1 : SubSeq(b, 1, Len(a))[i] = b[1 + i - 1]
    BY <1>1, <1>4, <2>1, SubSeqProperties
  <2>3. Len(a) - 1 + 1 = Len(a) /\ \A i \in 1 .. Len(a) : 1 + i - 1 = i  BY <1>1, <1>4
  <2>4. IF 1 <= Len(a) THEN Len(a) - 1 + 1 = Len(a) ELSE Len(a) = 0  BY <1>1, <1>4
  <2> QED  BY <2>2, <2>3, <2>4
<1>8. \A i \in 1 .. Len(a) : a[i] = b[i]
  <2> TAKE i \in 1 .. Len(a)
  <2>1. i \in 1 .. Len(s) /\ i \in 1 .. Len(t)  BY <1>1, <1>2, <1>4
  <2> DEFINE j == (Len(t) - i) + 1
  <2>2. j \in 1 .. Len(x) + Len(s) /\ ~(j <= Len(x)) /\ j - Len(x) = (Len(s) - i) + 1
    BY <1>1, <1>2, <2>1
  <2>3. b[i] = t[j] /\ a[i] = s[(Len(s) - i) + 1]  BY <1>4, <2>1
  <2> HIDE DEF j
  <2>4. t[j] = s[j - Len(x)]  BY <1>2, <2>2
  <2> QED  BY <2>2, <2>3, <2>4
<1>9. SubSeq(b, 1, Len(a)) = a  BY <1>4, <1>7, <1>8, SeqEqual
<1>10. IsPrefix(a, b)  BY <1>5, <1>6, <1>9 DEF IsPrefix
<1> QED  BY <1>10 DEF IsSuffix, a, b, t

(* A sequence is a prefix of what it is the beginning of.                  *)
LEMMA PrefixConcat ==
  ASSUME NEW s \in Seq(Nat), NEW x \in Seq(Nat)
  PROVE  IsPrefix(s, s \o x)
<1> DEFINE t == s \o x
<1>1. Len(s) \in Nat /\ Len(x) \in Nat  BY LenProperties
<1>2. /\ t \in Seq(Nat) /\ Len(t) = Len(s) + Len(x)
      /\ \A i \in 1 .. Len(s) + Len(x) : t[i] = IF i <= Len(s) THEN s[i] ELSE x[i - Len(s)]
  BY ConcatProperties
<1> HIDE DEF t
<1>3. SubSeq(s, 1, Len(s)) = s  BY SubSeqFull
<1>4. \A i \in 1 .. Len(s) : t[i] = s[i] /\ t[i] \in Nat
  <2> TAKE i \in 1 .. Len(s)
  <2>1. i \in 1 .. Len(s) + Len(x) /\ i <= Len(s)  BY <1>1
  <2>2. s[i] \in Nat  BY ElementOfSeq
  <2> QED  BY <1>2, <2>1, <2>2
<1>5. /\ SubSeq(t, 1, Len(s)) \in Seq(Nat)
      /\ Len(SubSeq(t, 1, Len(s))) = IF 1 <= Len(s) THEN Len(s) - 1 + 1 ELSE 0
      /\ \A i \in 1 .. Len(s) - 1 + 1 : SubSeq(t, 1, Len(s))[i] = t[1 + i - 1]
  BY <1>1, <1>4, SubSeqProperties
<1>6. /\ Len(s) - 1 + 1 = Len(s) /\ \A i \in 1 .. Len(s) : 1 + i - 1 = i
      /\ IF 1 <= Len(s) THEN Len(s) - 1 + 1 = Len(s) ELSE Len(s) = 0
  BY <1>1
<1>7. SubSeq(t, 1, Len(s)) = s
  <2>1. Len(SubSeq(t, 1, Len(s))) = Len(s)  BY <1>5, <1>6
  <2>2. \A i \in 1 .. Len(s) : SubSeq(t, 1, Len(s))[i] = s[i]  BY <1>4, <1>5, <1>6
  <2> QED  BY <1>5, <2>1, <2>2, SeqEqual
<1>8. Len(s) <= Len(t)  BY <1>1, <1>2
<1>9. IsPrefix(s, t)  BY <1>3, <1>7, <1>8 DEF IsPrefix
<1> QED  BY <1>9 DEF t

(* The bytes of a log are as many as its size says.                        *)
LEMMA BytesOfSeq ==
  ASSUME NEW l, l.size \in Nat, l.id \in Nat
  PROVE  BytesOf(l) \in Seq(Nat) /\ Len(BytesOf(l)) = l.size
BY DEF BytesOf

(* What is read is a sequence of bytes, whatever the ring holds.           *)
LEMMA ReadTyped ==
  ASSUME NEW r \in Cells
  PROVE  LogRamGet(r) \in Seq(Nat)
<1> DEFINE S == [offset : Nat, bytes : Seq(Nat)]
<1>1. buf_size \in Nat \ {0}  BY LogConstants
<1>2. \A i : Cell(r, i) \in Nat  BY DEF Cell, Cells
<1>3. ASSUME NEW s \in S PROVE ReadOne(r, s) \in S
  <2> DEFINE n == ReadNextSize(r, s.offset)
             c == NextCopy(r, s.offset)
  <2>1. n.size \in Nat /\ n.offset \in Nat
    <3>1. n.size = Cell(r, s.offset) + 256 * Cell(r, (s.offset + 1) % buf_size)
          /\ n.offset = (s.offset + 2) % buf_size
      BY DEF ReadNextSize
    <3>2. Cell(r, s.offset) \in Nat /\ Cell(r, (s.offset + 1) % buf_size) \in Nat  BY <1>2
    <3>3. (s.offset + 2) % buf_size \in Nat  BY <1>1
    <3> HIDE DEF n
    <3> QED  BY <3>1, <3>2, <3>3
  <2> DEFINE b == [i \in 1 .. n.size |->
                     Cell(r, IF n.offset + i - 1 >= buf_size THEN (n.offset + i - 1) - buf_size
                             ELSE n.offset + i - 1)]
             end == IF n.offset + n.size > buf_size - 1 THEN n.size - (buf_size - n.offset)
                    ELSE n.offset + n.size
  <2>2. c = [end |-> end, bytes |-> b]  BY Zenon DEF NextCopy
  <2> HIDE DEF n, c
  <2>3. end \in Nat
    <3> DEFINE m == n.size
               o == n.offset
    <3>1. m \in Nat /\ o \in Nat  BY <2>1
    <3> HIDE DEF m, o
    <3>2. (IF o + m > buf_size - 1 THEN m - (buf_size - o) ELSE o + m) \in Nat  BY <1>1, <3>1
    <3> QED  BY <3>2 DEF m, o
  <2>4. b \in Seq(Nat)
    <3>1. \A i \in 1 .. n.size :
            Cell(r, IF n.offset + i - 1 >= buf_size THEN (n.offset + i - 1) - buf_size
                             ELSE n.offset + i - 1) \in Nat
      BY <1>2
    <3>2. b \in [1 .. n.size -> Nat]
      <4> DEFINE e(i) == Cell(r, IF n.offset + i - 1 >= buf_size
                                 THEN (n.offset + i - 1) - buf_size ELSE n.offset + i - 1)
      <4>1. b = [i \in 1 .. n.size |-> e(i)] /\ \A i \in 1 .. n.size : e(i) \in Nat  BY <3>1
      <4> HIDE DEF e, b
      <4> QED  BY <4>1
    <3> HIDE DEF b
    <3>3. \A m \in Nat : \A f \in [1 .. m -> Nat] : f \in Seq(Nat)  OBVIOUS
    <3> QED  BY <2>1, <3>2, <3>3
  <2> HIDE DEF b, end
  <2>5. c.end \in Nat /\ c.bytes \in Seq(Nat)  BY <2>2, <2>3, <2>4
  <2>6. s.bytes \o c.bytes \in Seq(Nat)  BY <2>5, ConcatProperties
  <2> DEFINE x == [offset |-> c.end, bytes |-> s.bytes \o c.bytes]
  <2>7. ReadOne(r, s) = s \/ ReadOne(r, s) = x
    BY Zenon DEF ReadOne, c
  <2>8. x \in S  BY <2>5, <2>6
  <2> HIDE DEF S, x
  <2> QED  BY <2>7, <2>8
<1>4. [offset |-> r.first, bytes |-> <<>>] \in S
  <2>1. r.first \in Nat /\ <<>> \in Seq(Nat)  BY <1>1 DEF Cells
  <2> QED  BY <2>1
<1>5. /\ Reading(r)[0] = [offset |-> r.first, bytes |-> <<>>]
      /\ \A j \in Nat : Reading(r)[j + 1] = ReadOne(r, Reading(r)[j])
  <2> HIDE DEF S
  <2> QED  BY <1>3, <1>4, ReadingTurns
<1> DEFINE T == {j \in Nat : Reading(r)[j] \in S}
<1>6. 0 \in T  BY <1>4, <1>5
<1>7. \A j \in Nat : j \in T => j + 1 \in T
  <2> HIDE DEF S
  <2> TAKE j \in Nat
  <2>1. j + 1 \in Nat /\ Reading(r)[j + 1] = ReadOne(r, Reading(r)[j])  BY <1>5
  <2> QED  BY <1>3, <2>1
<1>8. buf_size \in T
  <2> HIDE DEF T
  <2>1. \A j \in Nat : j \in T  BY <1>6, <1>7, Induct
  <2> QED  BY <1>1, <2>1
<1>9. Reading(r)[buf_size] \in S  BY <1>8
<1> QED  BY <1>9 DEF LogRamGet

(* A store leaves a ring, whatever it held.                                *)
LEMMA StoredTyped ==
  ASSUME NEW r \in Cells, NEW l, l.size \in Nat, l.id \in Nat, l.size + Header <= buf_size
  PROVE  Stored(r, l) \in Cells
<1>1. buf_size \in Nat \ {0}  BY LogConstants
<1>2. \A x \in Cells : x.buf \in [0 .. buf_size -> Nat] /\ x.current \in 0 .. buf_size
                       /\ x.first \in 0 .. buf_size
                       /\ x = [buf |-> x.buf, current |-> x.current, first |-> x.first]
  BY DEF Cells
<1>3. ASSUME NEW space \in Int PROVE FreeSpace(r, space) \in Cells
  <2> DEFINE S == [first : 0 .. buf_size, space : Int]
  <2>1. ASSUME NEW s \in S PROVE FreeOne(r, s) \in S
    <3> DEFINE n == ReadNextSize(r, s.first)
               x == [first |-> (n.offset + n.size) % buf_size,
                     space |-> s.space - Header - n.size]
    <3>1. \A i : Cell(r, i) \in Nat  BY DEF Cell, Cells
    <3>2. n.size \in Nat /\ n.offset \in Nat
      <4>1. n.size = Cell(r, s.first) + 256 * Cell(r, (s.first + 1) % buf_size)
            /\ n.offset = (s.first + 2) % buf_size
        BY DEF ReadNextSize
      <4>2. Cell(r, s.first) \in Nat /\ Cell(r, (s.first + 1) % buf_size) \in Nat  BY <3>1
      <4>3. (s.first + 2) % buf_size \in Nat  BY <1>1
      <4> HIDE DEF n
      <4> QED  BY <4>1, <4>2, <4>3
    <3>3. FreeOne(r, s) = s \/ FreeOne(r, s) = x  BY Zenon DEF FreeOne
    <3> HIDE DEF n
    <3>4. (n.offset + n.size) % buf_size \in 0 .. buf_size  BY <1>1, <3>2
    <3>5. s.space - Header - n.size \in Int  BY <3>2 DEF Header
    <3>6. x \in S  BY <3>4, <3>5
    <3> HIDE DEF S, x
    <3> QED  BY <3>3, <3>6
  <2>2. [first |-> r.first, space |-> space] \in S  BY <1>2
  <2>3. /\ Freeing(r, space)[0] = [first |-> r.first, space |-> space]
        /\ \A j \in Nat : Freeing(r, space)[j + 1] = FreeOne(r, Freeing(r, space)[j])
    <3> HIDE DEF S
    <3> QED  BY <2>1, <2>2, FreeingTurns, SMTT(60)
  <2> DEFINE T == {j \in Nat : Freeing(r, space)[j] \in S}
  <2>4. 0 \in T  BY <2>2, <2>3
  <2>5. \A j \in Nat : j \in T => j + 1 \in T
    <3> HIDE DEF S
    <3> TAKE j \in Nat
    <3>1. j + 1 \in Nat /\ Freeing(r, space)[j + 1] = FreeOne(r, Freeing(r, space)[j])  BY <2>3
    <3> QED  BY <2>1, <3>1
  <2>6. buf_size \in T
    <3> HIDE DEF T
    <3>1. \A j \in Nat : j \in T  BY <2>4, <2>5, Induct
    <3> QED  BY <1>1, <3>1
  <2>7. Freeing(r, space)[buf_size].first \in 0 .. buf_size  BY <2>6
  <2> QED  BY <1>2, <2>7 DEF FreeSpace, Cells
<1>4. ASSUME NEW q \in Cells, NEW n \in Nat
      PROVE  WriteSize(q, n) \in Cells /\ WriteSize(q, n).current \in 0 .. buf_size - 1
  <2> DEFINE c == q.current
             j == (c + 1) % buf_size
             o == (c + 2) % buf_size
             b == [[q.buf EXCEPT ![c] = n % 256] EXCEPT ![j] = n \div 256]
             s == WriteSize(q, n)
  <2>1. s = [q EXCEPT !.buf[c] = n % 256, !.buf[j] = n \div 256, !.current = o]
    BY Zenon DEF WriteSize
  <2>2. c \in 0 .. buf_size /\ j \in 0 .. buf_size - 1 /\ o \in 0 .. buf_size - 1
    <3>1. c \in 0 .. buf_size  BY <1>2
    <3> HIDE DEF c
    <3> QED  BY <1>1, <3>1
  <2>3. n % 256 \in Nat /\ n \div 256 \in Nat  BY HighLow
  <2> HIDE DEF j, o, s
  <2>4. s = [buf |-> b, current |-> o, first |-> q.first]
    <3>1. q = [buf |-> q.buf, current |-> q.current, first |-> q.first]  BY <1>2
    <3> QED  BY <2>1, <3>1
  <2>5. b \in [0 .. buf_size -> Nat]
    <3>1. j \in 0 .. buf_size  BY <1>1, <2>2
    <3>2. [q.buf EXCEPT ![c] = n % 256] \in [0 .. buf_size -> Nat]  BY <1>2, <2>2, <2>3
    <3> QED  BY <2>3, <3>1, <3>2
  <2> HIDE DEF b
  <2>6. o \in 0 .. buf_size /\ q.first \in 0 .. buf_size  BY <1>1, <1>2, <2>2
  <2> QED  BY <2>2, <2>4, <2>5, <2>6 DEF Cells, s
<1>5. ASSUME NEW q \in Cells, q.current \in 0 .. buf_size - 1 PROVE WriteLog(q, l) \in Cells
  <2> DEFINE o == q.current
             n == l.size
             part1 == IF o + n > buf_size THEN buf_size - o ELSE 0
             at == IF part1 > 0 THEN 0 ELSE o
             rest == n - part1
             W == (IF part1 > 0 THEN o .. buf_size - 1 ELSE {}) \cup (at .. at + rest - 1)
             b == [i \in 0 .. buf_size |-> IF i \in W THEN l.id ELSE q.buf[i]]
  <2>1. WriteLog(q, l) = [q EXCEPT !.buf = [i \in 0 .. buf_size |-> IF i \in W THEN l.id ELSE @[i]],
                                   !.current = at + rest]
    BY <1>2 DEF WriteLog
  <2>2. at + rest \in 0 .. buf_size
    <3>1. o \in 0 .. buf_size - 1 /\ n \in Nat /\ n + 2 <= buf_size  BY <1>5 DEF Header
    <3> HIDE DEF o, n
    <3> QED  BY <1>1, <3>1
  <2> HIDE DEF W, at, rest
  <2>3. WriteLog(q, l) = [buf |-> b, current |-> at + rest, first |-> q.first]  BY <1>2, <2>1
  <2>4. b \in [0 .. buf_size -> Nat]  BY <1>2
  <2> HIDE DEF b
  <2> QED  BY <1>2, <2>2, <2>3, <2>4 DEF Cells
<1>6. SpareSpace(r) \in Int  BY <1>1, <1>2 DEF SpareSpace
<1> DEFINE space == l.size + Header - SpareSpace(r)
<1>7. space \in Int  BY <1>6 DEF Header
<1> HIDE DEF space
<1>8. FreeSpace(r, space) \in Cells  BY <1>3, <1>7
<1>9. WriteSize(FreeSpace(r, space), l.size) \in Cells
      /\ WriteSize(FreeSpace(r, space), l.size).current \in 0 .. buf_size - 1
  BY <1>4, <1>8
<1>10. WriteLog(WriteSize(FreeSpace(r, space), l.size), l) \in Cells  BY <1>5, <1>9
<1> QED  BY <1>10 DEF Stored, space

(* An emptied ring is a ring.                                              *)
LEMMA EmptiedTyped ==
  ASSUME LogTypes
  PROVE  /\ Emptied \in Cells /\ Emptied.buf \in [0 .. buf_size -> Nat]
         /\ Emptied = [buf |-> Emptied.buf, current |-> 0, first |-> 0]
<1>1. buf_size \in Nat \ {0}  BY LogConstants
<1>2. buf \in [0 .. buf_size -> Nat]  BY DEF LogTypes, Ring, Cells
<1> QED  BY <1>1, <1>2 DEF Emptied, Cells

(* The log under way, and the others.                                      *)
LEMMA LastPending ==
  ASSUME LogTypes, pending # <<>>
  PROVE  /\ Len(pending) \in 1 .. 2 /\ Last(pending) \in LogRecords
         /\ Last(pending) = pending[Len(pending)]
         /\ Last(pending).size \in Nat /\ Last(pending).size > 0 /\ Last(pending).id \in Nat
         /\ Last(pending).size \in Sizes
         /\ Last(pending).size + Header <= buf_size
         /\ Front(pending) \in Seq(LogRecords) /\ Len(Front(pending)) = Len(pending) - 1
         /\ \A i \in 1 .. Len(pending) - 1 : Front(pending)[i] = pending[i]
<1> DEFINE p == pending
           N == Len(pending)
<1>1. p \in Seq(LogRecords) /\ p # <<>> /\ N <= 2
      /\ \A i \in 1 .. N : p[i].size + Header <= buf_size
  BY DEF LogTypes
<1>2. N \in Nat \ {0}  BY <1>1, EmptySeq
<1>3. N \in 1 .. 2 /\ N \in 1 .. N /\ Last(p) = p[N]
  <2>1. Last(p) = p[N]  BY DEF Last
  <2> HIDE DEF N
  <2> QED  BY <1>1, <1>2, <2>1
<1>4. p[N] \in LogRecords  BY <1>1, <1>3, ElementOfSeq
<1>5. p[N].size \in Nat /\ p[N].size > 0 /\ p[N].id \in Nat /\ p[N].size + Header <= buf_size
      /\ p[N].size \in Sizes
  <2>1. p[N].size \in Sizes /\ p[N].id \in Nat  BY <1>4 DEF LogRecords
  <2>2. p[N].size \in Nat \ {0}
    <3> DEFINE x == p[N].size
    <3>1. x \in Sizes  BY <2>1
    <3> HIDE DEF x
    <3>2. x \in Nat \ {0}  BY <3>1, LogConstants
    <3> QED  BY <3>2 DEF x
  <2> QED  BY <1>1, <1>3, <2>1, <2>2
<1>6. /\ Front(p) \in Seq(LogRecords) /\ Len(Front(p)) = N - 1
      /\ \A i \in 1 .. N - 1 : Front(p)[i] = p[i]
  <2>1. \A i \in 1 .. N - 1 : p[i] \in LogRecords
    <3>1. \A i \in 1 .. N - 1 : i \in 1 .. N  BY <1>2
    <3> QED  BY <1>1, <3>1, ElementOfSeq
  <2> DEFINE f == SubSeq(p, 1, N - 1)
  <2> HIDE DEF N
  <2>2. /\ f \in Seq(LogRecords) /\ Len(f) = IF 1 <= N - 1 THEN (N - 1) - 1 + 1 ELSE 0
        /\ \A i \in 1 .. (N - 1) - 1 + 1 : f[i] = p[1 + i - 1]
    BY <1>2, <2>1, SubSeqProperties
  <2>3. f = Front(p)  BY DEF Front, N
  <2> HIDE DEF f
  <2>4. Len(f) = N - 1 /\ \A i \in 1 .. N - 1 : f[i] = p[i]
    <3>1. (N - 1) - 1 + 1 = N - 1 /\ \A i \in 1 .. N - 1 : 1 + i - 1 = i  BY <1>2
    <3>2. IF 1 <= N - 1 THEN TRUE ELSE N - 1 = 0  BY <1>2
    <3> QED  BY <2>2, <3>1, <3>2
  <2> QED  BY <2>2, <2>3, <2>4
<1> QED  BY <1>3, <1>4, <1>5, <1>6

(* The initial state has the types.                                        *)
LEMMA LogTypesInit == Init => LogTypes
<1> SUFFICES ASSUME Init PROVE LogTypes  OBVIOUS
<1>1. buf_size \in Nat \ {0}  BY LogConstants
<1>2. <<>> \in Seq(Nat) /\ <<>> \in Seq(LogRecords) /\ Len(<<>>) = 0  OBVIOUS
<1>3. Ring \in Cells  BY <1>1 DEF Init, Ring, Cells
<1>4. file1 \in FileStates /\ file2 \in FileStates /\ flash \in FlashStates
  BY <1>2 DEF Init, File, FileStates, FlashStates
<1> QED  BY <1>2, <1>3, <1>4 DEF Init, LogTypes

(* A log() begins.                                                         *)
LEMMA LogTypesLog ==
  ASSUME LogTypes, NEW size \in Sizes, NEW severe \in BOOLEAN, Log(size, severe)
  PROVE  /\ pending' \in Seq(LogRecords) /\ Len(pending') = Len(pending) + 1 /\ Len(pending') <= 2
         /\ \A i \in 1 .. Len(pending) : pending'[i] = pending[i]
         /\ pending'[Len(pending')].size = size
         /\ \A i \in 1 .. Len(pending') : pending'[i].size + Header <= buf_size
         /\ size \in Nat /\ size > 0
<1> DEFINE full == SpareSpace(Ring) < size + Header
           l == [id |-> logs + 1, size |-> size, severe |-> severe, stepped |-> FALSE]
           x == [l EXCEPT !.stepped = full]
           p == pending
           N == Len(pending)
<1>1. /\ p \in Seq(LogRecords) /\ N <= 2 /\ \A i \in 1 .. N : p[i].size + Header <= buf_size
      /\ logs \in Nat
  BY DEF LogTypes
<1>2. N \in Nat  BY <1>1, LenProperties
<1>3. full \in BOOLEAN  OBVIOUS
<1> HIDE DEF full
<1>4. x \in LogRecords /\ x.size = size
  BY <1>1, <1>3 DEF LogRecords
<1>5. pending' = Append(p, x) /\ size + Header <= buf_size /\ (p # <<>> => N < 2)
  BY DEF Log, full
<1> HIDE DEF x
<1>6. /\ pending' \in Seq(LogRecords) /\ Len(pending') = N + 1
      /\ \A i \in 1 .. N : pending'[i] = p[i]
      /\ pending'[N + 1] = x
  BY <1>1, <1>4, <1>5, AppendProperties
<1>7. p = <<>> => N = 0  OBVIOUS
<1>8. Len(pending') <= 2
  <2> HIDE DEF N
  <2> QED  BY <1>2, <1>5, <1>6, <1>7
<1>9. \A i \in 1 .. Len(pending') : pending'[i].size + Header <= buf_size
  <2>1. \A i \in 1 .. Len(pending') : i \in 1 .. N \/ i = N + 1  BY <1>2, <1>6
  <2> QED  BY <1>1, <1>4, <1>5, <1>6, <2>1
<1>10. size \in Nat /\ size > 0
  <2>1. size \in Nat \ {0}  BY LogConstants
  <2> QED  BY <2>1
<1> QED  BY <1>4, <1>6, <1>8, <1>9, <1>10

(* Every step keeps the types.                                             *)
LEMMA LogTypesNext == LogTypes /\ [Next]_vars => LogTypes'
<1> SUFFICES ASSUME LogTypes, [Next]_vars PROVE LogTypes'  OBVIOUS
<1>0. buf_size \in Nat \ {0}  BY LogConstants
<1>1. /\ policy \in Policies /\ Ring \in Cells
      /\ file1 \in FileStates /\ file2 \in FileStates /\ flash \in FlashStates
      /\ pending \in Seq(LogRecords) /\ Len(pending) <= 2
      /\ \A i \in 1 .. Len(pending) : pending[i].size + Header <= buf_size
      /\ logs \in Nat /\ crashes \in Nat
      /\ kept \in Seq(Nat) /\ flashed \in Seq(Nat) /\ accepted \in Seq(Nat)
      /\ flash.pc = "idle" => flash.data = <<>>
      /\ flash.pc = "open" => file1.bytes = <<>>
  BY DEF LogTypes
<1>2. \A r \in Cells : SetRing(r) => Ring' \in Cells
  BY DEF SetRing, Ring, Cells
<1>3. <<>> \in Seq(Nat) /\ <<>> \in Seq(LogRecords) /\ Len(<<>>) = 0  OBVIOUS
<1>4. Emptied \in Cells  BY EmptiedTyped
<1>5. UNCHANGED ring => Ring' = Ring  BY DEF ring, Ring
<1>6. ASSUME NEW d \in Seq(Nat), StartFlash(d)
      PROVE  /\ flash' \in FlashStates
             /\ flash'.pc = "start"
  BY <1>6 DEF StartFlash, FlashStates
<1>7. Taken(Len(kept)) \in Nat
  <2>1. Len(kept) \in Nat  BY <1>1, LenProperties
  <2>2. Len(kept) # 0 => Len(kept) \in 1 .. Len(kept)  BY <2>1
  <2>3. Len(kept) # 0 => kept[Len(kept)] \in Nat  BY <1>1, <2>2, ElementOfSeq
  <2> QED  BY <2>3 DEF Taken
<1>8. flash.pc = "idle" /\ flash' = flash =>
        /\ flash' \in FlashStates
        /\ (flash'.pc = "idle" => flash'.data = <<>>) /\ flash'.pc # "open"
  BY <1>1
<1>9. ASSUME NEW size \in Sizes, NEW severe \in BOOLEAN, Log(size, severe) PROVE LogTypes'
  <2>1. /\ pending' \in Seq(LogRecords) /\ Len(pending') <= 2
        /\ \A i \in 1 .. Len(pending') : pending'[i].size + Header <= buf_size
    BY <1>9, LogTypesLog
  <2>2. /\ logs' = logs + 1 /\ UNCHANGED <<policy, files, crashes, flashed, accepted>>
        /\ flash.pc = "idle"
        /\ FlushRing \/ UNCHANGED <<ring, kept, flash>>
    BY <1>9 DEF Log, Idle
  <2>3. /\ Ring' \in Cells /\ kept' \in Seq(Nat)
        /\ flash' \in FlashStates
        /\ (flash'.pc = "idle" => flash'.data = <<>>) /\ flash'.pc # "open"
    <3>1. CASE FlushRing
      <4>1. SetRing(Emptied) /\ kept' = <<>> /\ StartFlash(LogRamGet(Ring))  BY <3>1 DEF FlushRing
      <4>2. LogRamGet(Ring) \in Seq(Nat)  BY <1>1, ReadTyped
      <4> QED  BY <1>2, <1>3, <1>4, <1>6, <4>1, <4>2
    <3>2. CASE UNCHANGED <<ring, kept, flash>>
      BY <1>1, <1>5, <1>8, <2>2, <3>2
    <3> QED  BY <2>2, <3>1, <3>2
  <2>4. logs' \in Nat /\ file1' = file1 /\ file2' = file2  BY <1>1, <2>2 DEF files
  <2> QED  BY <1>1, <2>1, <2>2, <2>3, <2>4 DEF LogTypes
<1>10. CASE FinishStore
  <2> DEFINE l == Last(pending)
             r == Stored(Ring, l)
  <2>1. Idle /\ pending # <<>> /\ pending' = Front(pending)
        /\ UNCHANGED <<policy, files, logs, crashes, flashed>>
    BY <1>10 DEF FinishStore
  <2>2. /\ Len(pending) \in 1 .. 2 /\ l \in LogRecords /\ l.size \in Nat /\ l.id \in Nat
        /\ l.size + Header <= buf_size
        /\ Front(pending) \in Seq(LogRecords) /\ Len(Front(pending)) = Len(pending) - 1
        /\ \A i \in 1 .. Len(pending) - 1 : Front(pending)[i] = pending[i]
    BY <2>1, LastPending
  <2>3. r \in Cells  BY <1>1, <2>2, StoredTyped
  <2>4. LogRamGet(r) \in Seq(Nat) /\ BytesOf(l) \in Seq(Nat)  BY <2>2, <2>3, ReadTyped, BytesOfSeq
  <2>5. /\ accepted' = accepted \o BytesOf(l)
        /\ \/ SetRing(r) /\ Keep(l) /\ UNCHANGED flash
           \/ SetRing(r) /\ Keep(l) /\ StartFlash(BytesOf(l))
           \/ SetRing(Emptied) /\ kept' = <<>> /\ StartFlash(LogRamGet(r))
    BY <1>10 DEF FinishStore
  <2>6. Keep(l) => kept' \in Seq(Nat)
    <3>1. Taken(Len(kept)) + Header + l.size \in Nat  BY <1>7, <2>2 DEF Header
    <3> QED  BY <1>1, <3>1, AppendProperties DEF Keep
  <2>7. accepted' \in Seq(Nat)  BY <1>1, <2>4, <2>5, ConcatProperties
  <2> HIDE DEF l, r
  <2>8. /\ Ring' \in Cells /\ kept' \in Seq(Nat)
        /\ flash' \in FlashStates
        /\ (flash'.pc = "idle" => flash'.data = <<>>) /\ flash'.pc # "open"
    <3>1. CASE SetRing(r) /\ Keep(l) /\ UNCHANGED flash
      BY <1>2, <1>8, <2>1, <2>3, <2>6, <3>1 DEF Idle
    <3>2. CASE SetRing(r) /\ Keep(l) /\ StartFlash(BytesOf(l))
      <4>1. /\ flash' \in FlashStates
            /\ flash'.pc = "start"
        BY <1>6, <2>4, <3>2
      <4> QED  BY <1>2, <2>3, <2>6, <3>2, <4>1
    <3>3. CASE SetRing(Emptied) /\ kept' = <<>> /\ StartFlash(LogRamGet(r))
      <4>1. /\ flash' \in FlashStates
            /\ flash'.pc = "start"
        BY <1>6, <2>4, <3>3
      <4> QED  BY <1>2, <1>3, <1>4, <3>3, <4>1
    <3> QED  BY <2>5, <3>1, <3>2, <3>3
  <2>9. /\ pending' \in Seq(LogRecords) /\ Len(pending') <= 2
        /\ \A i \in 1 .. Len(pending') : pending'[i].size + Header <= buf_size
    <3>1. /\ Len(pending') <= 2
          /\ \A i \in 1 .. Len(pending') : i \in 1 .. Len(pending) - 1 /\ i \in 1 .. Len(pending)
      BY <2>1, <2>2
    <3> QED  BY <1>1, <2>1, <2>2, <3>1
  <2>10. file1' = file1 /\ file2' = file2  BY <2>1 DEF files
  <2> QED  BY <1>1, <2>1, <2>7, <2>8, <2>9, <2>10 DEF LogTypes
<1>11. ASSUME OnlyFiles,
              /\ file1' \in FileStates /\ file2' \in FileStates /\ flash' \in FlashStates
              /\ flashed' \in Seq(Nat)
              /\ flash'.pc = "idle" => flash'.data = <<>>
              /\ flash'.pc = "open" => file1'.bytes = <<>>
       PROVE  LogTypes'
  <2>1. Ring' = Ring /\ UNCHANGED <<policy, pending, logs, crashes, kept, accepted>>
    BY <1>5, <1>11 DEF OnlyFiles
  <2> QED  BY <1>1, <1>11, <2>1 DEF LogTypes
<1>12. File(<<>>) \in FileStates /\ Missing \in FileStates /\ Missing.bytes = <<>>
  BY <1>3 DEF File, Missing, FileStates
<1>13. ASSUME NEW from, NEW to \in {"rename", "open", "write"}, FlashStep(from, to)
       PROVE  /\ flash' \in FlashStates
              /\ flash'.pc = to /\ flash'.pc # "idle"
  BY <1>1, <1>13 DEF FlashStep, FlashStates
<1>14. CASE SwapNot
  <2>1. FlashStep("start", "write") /\ UNCHANGED <<files, flashed>> /\ OnlyFiles
    BY <1>14 DEF SwapNot
  <2>2. flash'.pc = "write" /\ flash' \in FlashStates
    BY <1>13, <2>1
  <2>3. file1' = file1 /\ file2' = file2 /\ flashed' = flashed  BY <2>1 DEF files
  <2> QED  BY <1>1, <1>11, <2>1, <2>2, <2>3
<1>15. CASE SwapRemove
  <2>1. /\ FlashStep("start", "rename") /\ file2' = Missing
        /\ UNCHANGED <<file1, flashed>> /\ OnlyFiles
    BY <1>15 DEF SwapRemove
  <2>2. flash'.pc = "rename" /\ flash' \in FlashStates
    BY <1>13, <2>1
  <2> QED  BY <1>1, <1>11, <1>12, <2>1, <2>2
<1>16. CASE SwapRename
  <2>1. /\ FlashStep("rename", "open") /\ file2' = file1 /\ file1' = Missing
        /\ flashed' = flashed /\ OnlyFiles
    BY <1>16 DEF SwapRename
  <2>2. flash'.pc = "open" /\ flash' \in FlashStates
    BY <1>13, <2>1
  <2> QED  BY <1>1, <1>11, <1>12, <2>1, <2>2
<1>17. CASE SwapOpen
  <2>1. /\ FlashStep("open", "write") /\ file1' = File(<<>>)
        /\ UNCHANGED <<file2, flashed>> /\ OnlyFiles
    BY <1>17 DEF SwapOpen
  <2>2. flash'.pc = "write" /\ flash' \in FlashStates
    BY <1>13, <2>1
  <2> QED  BY <1>1, <1>11, <1>12, <2>1, <2>2
<1>18. CASE FlashWrite
  <2>1. /\ flash' = [pc |-> "idle", data |-> <<>>] /\ file1' = File(file1.bytes \o flash.data)
        /\ flashed' = flashed \o flash.data /\ file2' = file2 /\ OnlyFiles
    BY <1>18 DEF FlashWrite
  <2>2. file1.bytes \in Seq(Nat) /\ flash.data \in Seq(Nat)  BY <1>1 DEF FileStates, FlashStates
  <2>3. file1.bytes \o flash.data \in Seq(Nat) /\ flashed' \in Seq(Nat)
    BY <1>1, <2>1, <2>2, ConcatProperties
  <2>4. file1' \in FileStates  BY <2>1, <2>3 DEF File, FileStates
  <2>5. /\ flash' \in FlashStates
        /\ flash'.pc = "idle" /\ flash'.data = <<>>
    BY <1>3, <2>1 DEF FlashStates
  <2> QED  BY <1>1, <1>11, <2>1, <2>3, <2>4, <2>5
<1>19. CASE Restart
  <2> DEFINE r == [buf |-> [i \in 0 .. buf_size |-> 0], current |-> 0, first |-> 0]
  <2>1. /\ crashes' = crashes + 1 /\ SetRing(r) /\ kept' = <<>> /\ accepted' = flashed
        /\ flash' = [pc |-> "idle", data |-> <<>>] /\ pending' = <<>>
        /\ file1' = File(file1.bytes) /\ file2' = File(file2.bytes)
        /\ UNCHANGED <<policy, logs, flashed>>
    BY <1>19 DEF Restart
  <2>2. r \in Cells  BY <1>0 DEF Cells
  <2> HIDE DEF r
  <2>3. Ring' \in Cells  BY <1>2, <2>1, <2>2
  <2>4. /\ flash' \in FlashStates
        /\ flash'.pc = "idle" /\ flash'.data = <<>>
    BY <1>3, <2>1 DEF FlashStates
  <2>5. file1' \in FileStates /\ file2' \in FileStates
    BY <1>1, <2>1 DEF File, FileStates
  <2>6. /\ pending' \in Seq(LogRecords) /\ Len(pending') <= 2 /\ 1 .. Len(pending') = {}
        /\ crashes' \in Nat
    BY <1>1, <1>3, <2>1
  <2>7. /\ kept' \in Seq(Nat) /\ accepted' \in Seq(Nat) /\ flashed' \in Seq(Nat)
        /\ policy' \in Policies /\ logs' \in Nat
    BY <1>1, <1>3, <2>1
  <2> QED  BY <2>3, <2>4, <2>5, <2>6, <2>7 DEF LogTypes
<1>20. CASE UNCHANGED vars
  <2>1. /\ Ring' = Ring
        /\ UNCHANGED <<policy, file1, file2, flash, pending, logs, crashes>>
        /\ UNCHANGED <<kept, flashed, accepted>>
    BY <1>20 DEF vars, Ring
  <2> QED  BY <1>1, <2>1 DEF LogTypes
<1> QED
  BY <1>9, <1>10, <1>14, <1>15, <1>16, <1>17, <1>18, <1>19, <1>20 DEF Next

(* Every variable has its type at all times: the write index and the       *)
(* oldest log never pass the end of the ring (log_store.c wraps them), at  *)
(* most two calls of logramstore are nested and each fits in the ring, and *)
(* the current file is empty or missing while swap_files opens a new one.  *)
THEOREM LogTyped == Spec => []LogTypes
<1> QED  BY LogTypesInit, LogTypesNext, PTL DEF Spec

(* No step loses a byte of the current file: a swap moves it, a write adds *)
(* to it, and it is opened anew only once it was moved.                    *)
THEOREM CurrentFileIsKept == Spec => CurrentFileKept
<1> DEFINE Kept == \E f \in {file1'.bytes, file2'.bytes} : IsPrefix(file1.bytes, f)
<1>1. ASSUME LogTypes, [Next]_vars PROVE [Kept]_vars
  <2>1. file1.bytes \in Seq(Nat) /\ flash.data \in Seq(Nat)
    BY <1>1 DEF LogTypes, FileStates, FlashStates
  <2>2. <<>> \in Seq(Nat) /\ file1.bytes \o <<>> = file1.bytes  BY <2>1, ConcatEmptySeq
  <2>3. IsPrefix(file1.bytes, file1.bytes) /\ IsPrefix(file1.bytes, file1.bytes \o flash.data)
    <3>1. IsPrefix(file1.bytes, file1.bytes \o <<>>)  BY <2>1, <2>2, PrefixConcat
    <3>2. IsPrefix(file1.bytes, file1.bytes \o flash.data)  BY <2>1, PrefixConcat
    <3> QED  BY <2>2, <3>1, <3>2
  <2>4. \/ file1'.bytes = file1.bytes \/ file2'.bytes = file1.bytes
        \/ file1'.bytes = file1.bytes \o flash.data
    <3>1. ASSUME NEW size \in Sizes, NEW severe \in BOOLEAN, Log(size, severe) PROVE <2>4
      BY <3>1 DEF Log, files
    <3>2. CASE FinishStore  BY <3>2 DEF FinishStore, files
    <3>3. CASE SwapNot  BY <3>3 DEF SwapNot, files
    <3>4. CASE SwapRemove  BY <3>4 DEF SwapRemove
    <3>5. CASE SwapRename  BY <3>5 DEF SwapRename
    <3>6. CASE SwapOpen
      <4>1. file1.bytes = <<>>  BY <1>1, <3>6 DEF SwapOpen, FlashStep, LogTypes
      <4> QED  BY <3>6, <4>1 DEF SwapOpen, File
    <3>7. CASE FlashWrite  BY <3>7 DEF FlashWrite, File
    <3>8. CASE Restart  BY <3>8 DEF Restart, File
    <3>9. CASE UNCHANGED vars  BY <3>9 DEF vars
    <3> QED  BY <1>1, <3>1, <3>2, <3>3, <3>4, <3>5, <3>6, <3>7, <3>8, <3>9 DEF Next
  <2> QED  BY <2>3, <2>4
<1> QED  BY <1>1, LogTyped, PTL DEF Spec, CurrentFileKept

------------------------------------------------------------------------------
(* What the ring holds. *)

Limit == Max({file_size_limit, buf_size - Header})

\* The files hold the last bytes they were given; what waits to be written is no
\* more than the ring may hold.
FilesKept ==
  /\ \E x \in Seq(Nat) : flashed = x \o (file2.bytes \o file1.bytes)
  /\ Len(file1.bytes) <= Limit /\ Len(flash.data) <= Limit
  /\ flash.pc = "write" => Len(file1.bytes) + Len(flash.data) <= Limit

\* What the stores under way need.
Waiting(p) ==
  IF Len(p) = 0 THEN 0
  ELSE IF Len(p) = 1 THEN p[1].size + Header
  ELSE (p[1].size + Header) + (p[2].size + Header)

\* buffered_all: the ring holds what was not flushed, and there is room for the
\* stores under way.
AllKept ==
  policy = "buffered_all" =>
    /\ Laid(Ring, kept, 0, accepted)
    /\ flashed \o flash.data = SubSeq(accepted, 1, Len(accepted) - Content(kept, Len(kept)))
    /\ At(kept, Len(kept)) + Waiting(pending) <= buf_size

RingKept == RingLaid(Ring, kept, accepted)

(* The bound of the current file is the larger of its two numbers.         *)
LEMMA LimitIs ==
  /\ Limit \in Nat /\ Limit >= file_size_limit /\ Limit >= buf_size - Header
<1> DEFINE a == file_size_limit
           b == buf_size - Header
           P(x) == \A y \in {a, b} : x >= y
<1>1. a \in Nat /\ b \in Int  BY LogConstants DEF Header
<1> HIDE DEF a, b
<1>2. \E x \in {a, b} : P(x)
  <2>1. CASE a >= b  BY <1>1, <2>1
  <2>2. CASE ~(a >= b)  BY <1>1, <2>2
  <2> QED  BY <2>1, <2>2
<1>3. Limit = CHOOSE x \in {a, b} : P(x)  BY DEF Limit, Max, a, b
<1> HIDE DEF P
<1>4. Limit \in {a, b} /\ P(Limit)  BY <1>2, <1>3
<1>5. Limit >= a /\ Limit >= b  BY <1>4 DEF P
<1>6. Limit \in Nat  BY <1>1, <1>4, <1>5
<1> QED  BY <1>5, <1>6 DEF a, b

(* What is read of the ring is no more than it holds, headers excluded.    *)
LEMMA LaidLen ==
  ASSUME NEW r, NEW e, NEW n, NEW acc, Laid(r, e, n, acc)
  PROVE  LogRamGet(r) \in Seq(Nat) /\ Len(LogRamGet(r)) <= Limit
<1> DEFINE K == Len(e)
           b == Before(e, acc, n)
           s == SubSeq(acc, b + 1, Len(acc))
           C == Content(e, K)
           c == Content(e, n)
           z == At(e, K)
           v == At(e, n)
<1>1. /\ K \in Nat /\ n \in 0 .. K /\ K \in 0 .. K /\ Len(acc) \in Nat /\ buf_size \in Nat
      /\ acc \in Seq(Nat)
  <2>1. K \in Nat /\ n \in 0 .. K /\ Len(acc) \in Nat /\ buf_size \in Nat  BY LaidSizes
  <2>2. acc \in Seq(Nat)  BY DEF Laid
  <2> QED  BY <2>1, <2>2
<1>2. z \in Nat /\ v \in Nat /\ z - v < buf_size /\ z - v >= 3 * (K - n)
  <2>1. n <= K  BY <1>1
  <2> QED  BY <1>1, <2>1, LaidSizes
<1>3. b \in 0 .. Len(acc) /\ b = Len(acc) - C + c /\ C = z - 2 * K /\ c = v - 2 * n
  BY <1>1, LaidSizes DEF Before, Content, Header
<1>4. LogRamGet(r) = s  BY LogRamGetLaid
<1>5. s \in Seq(Nat) /\ Len(s) = Len(acc) - b
  <2>1. \A i \in b + 1 .. Len(acc) : acc[i] \in Nat
    <3>1. \A i \in b + 1 .. Len(acc) : i \in 1 .. Len(acc)  BY <1>1, <1>3
    <3> QED  BY <1>1, <3>1, ElementOfSeq
  <2> HIDE DEF b
  <2>2. /\ s \in Seq(Nat)
        /\ Len(s) = IF b + 1 <= Len(acc) THEN Len(acc) - (b + 1) + 1 ELSE 0
    BY <1>1, <1>3, <2>1, SubSeqProperties
  <2> HIDE DEF s
  <2> QED  BY <1>1, <1>3, <2>2, SMTT(40)
<1> HIDE DEF s, b, C, c, z, v
<1>6. Len(acc) - b = (z - v) - 2 * (K - n)  BY <1>1, <1>2, <1>3
<1>7. Len(acc) - b <= Limit
  <2>1. CASE K = n
    <3>1. z = v  BY <2>1 DEF z, v
    <3> QED  BY <1>1, <1>2, <1>6, <2>1, <3>1, LimitIs
  <2>2. CASE K # n
    <3>1. K - n >= 1  BY <1>1, <2>2
    <3> QED  BY <1>1, <1>2, <1>6, <3>1, LimitIs DEF Header
  <2> QED  BY <2>1, <2>2
<1> QED  BY <1>4, <1>5, <1>7

\* The corners of the specification, left out.
NoExactFit == "exact fit" \notin Corners
NoLogsInStep == "logs in step" \notin Corners

(* What the end of a store leaves in the ring.                             *)
LEMMA StoreKept ==
  ASSUME LogTypes, pending # <<>>, NoExactFit, Fits(Stored(Ring, Last(pending))),
         NEW n, Laid(Ring, kept, n, accepted),
         n > 0 => At(kept, Len(kept)) - At(kept, n - 1) > buf_size
  PROVE  LET l == Last(pending)
             g == Append(kept, At(kept, Len(kept)) + Header + l.size)
         IN /\ \E m \in n .. Len(g) :
                 /\ Laid(Stored(Ring, l), g, m, accepted \o BytesOf(l))
                 /\ m > 0 => At(g, Len(g)) - At(g, m - 1) > buf_size
                 /\ At(kept, Len(kept)) - At(kept, n) + Header + l.size <= buf_size => m = n
            /\ Keep(l) => kept' = g
<1> DEFINE l == Last(pending)
           g == Append(kept, At(kept, Len(kept)) + Header + l.size)
<1>1. l.size \in Nat /\ l.id \in Nat /\ l.size > 0 /\ l.size + Header <= buf_size
  BY LastPending
<1>2. Stored(Ring, l).current # buf_size /\ Stored(Ring, l).current # Stored(Ring, l).first
  BY Zenon DEF Fits, NoExactFit
<1>3. Keep(l) => kept' = g  BY DEF Keep, Taken, At
<1>4. \E m \in n .. Len(g) :
        /\ Laid(Stored(Ring, l), g, m, accepted \o BytesOf(l))
        /\ m > 0 => At(g, Len(g)) - At(g, m - 1) > buf_size
        /\ At(kept, Len(kept)) - At(kept, n) + Header + l.size <= buf_size => m = n
  <2> HIDE DEF l
  <2> QED  BY <1>1, <1>2, StoredLaid
<1> QED  BY <1>3, <1>4

(* The ring that a step leaves.                                            *)
LEMMA RingSet ==
  ASSUME NEW r \in Cells, SetRing(r)
  PROVE  Ring' = r
<1>1. r = [buf |-> r.buf, current |-> r.current, first |-> r.first]  BY DEF Cells
<1> QED  BY <1>1 DEF SetRing, Ring

(* A flush leaves an empty ring, where what was put in it since is laid.   *)
LEMMA RingEmptied ==
  ASSUME LogTypes, LogTypes', SetRing(Emptied), kept' = <<>>
  PROVE  Laid(Ring', kept', 0, accepted') /\ RingKept'
<1>1. /\ Emptied \in Cells /\ Emptied.buf \in [0 .. buf_size -> Nat]
      /\ Emptied = [buf |-> Emptied.buf, current |-> 0, first |-> 0]
  BY EmptiedTyped
<1>2. Ring' = Emptied  BY <1>1, RingSet
<1>3. accepted' \in Seq(Nat)  BY DEF LogTypes
<1> HIDE DEF Emptied
<1>4. Laid(Ring', <<>>, 0, accepted') /\ RingLaid(Ring', <<>>, accepted')
  BY <1>1, <1>2, <1>3, EmptyLaid
<1> QED  BY <1>4 DEF RingKept

(* So does a restart.                                                      *)
LEMMA RingRestarted ==
  ASSUME LogTypes', Restart
  PROVE  Laid(Ring', kept', 0, accepted') /\ RingKept'
<1> DEFINE b == [i \in 0 .. buf_size |-> 0]
           r == [buf |-> b, current |-> 0, first |-> 0]
<1>1. SetRing(r) /\ kept' = <<>>  BY DEF Restart
<1>2. Ring' = r  BY <1>1 DEF SetRing, Ring
<1>3. b \in [0 .. buf_size -> Nat] /\ accepted' \in Seq(Nat)  BY DEF LogTypes
<1> HIDE DEF b
<1>4. Laid(Ring', <<>>, 0, accepted') /\ RingLaid(Ring', <<>>, accepted')
  BY <1>2, <1>3, EmptyLaid
<1> QED  BY <1>1, <1>4 DEF RingKept

(* The empty ring holds the logs there are.                                *)
LEMMA RingKeptInit == Init => RingKept
<1> SUFFICES ASSUME Init PROVE RingKept  OBVIOUS
<1> DEFINE b == [i \in 0 .. buf_size |-> 0]
<1>1. Ring = [buf |-> b, current |-> 0, first |-> 0] /\ kept = <<>> /\ accepted = <<>>
  BY DEF Init, Ring
<1>2. b \in [0 .. buf_size -> Nat] /\ <<>> \in Seq(Nat)  OBVIOUS
<1> HIDE DEF b
<1>3. RingLaid(Ring, <<>>, <<>>)  BY <1>1, <1>2, EmptyLaid
<1> QED  BY <1>1, <1>3 DEF RingKept

(* A step that stores a log takes from the ring the oldest logs, as few as *)
(* are needed, and adds the log; a flush and a restart empty it; the       *)
(* others leave it alone.                                                  *)
LEMMA RingKeptNext ==
  ASSUME LogTypes, LogTypes', NoExactFit, RingKept, [Next]_vars
  PROVE  RingKept'
<1>1. ASSUME UNCHANGED ring, UNCHANGED <<kept, accepted>> PROVE RingKept'
  BY <1>1 DEF RingKept, Ring, ring
<1>2. ASSUME NEW size \in Sizes, NEW severe \in BOOLEAN, Log(size, severe) PROVE RingKept'
  <2>1. (FlushRing \/ UNCHANGED <<ring, kept, flash>>) /\ UNCHANGED accepted  BY <1>2 DEF Log
  <2>2. CASE FlushRing  BY <2>2, RingEmptied DEF FlushRing
  <2>3. CASE UNCHANGED <<ring, kept, flash>>  BY <1>1, <2>1, <2>3
  <2> QED  BY <2>1, <2>2, <2>3
<1>3. CASE FinishStore
  <2> DEFINE l == Last(pending)
             r == Stored(Ring, l)
             g == Append(kept, At(kept, Len(kept)) + Header + l.size)
  <2>1. pending # <<>> /\ Fits(r) /\ accepted' = accepted \o BytesOf(l)
    BY <1>3 DEF FinishStore
  <2>2. (SetRing(r) /\ Keep(l)) \/ (SetRing(Emptied) /\ kept' = <<>>)
    BY <1>3 DEF FinishStore
  <2>3. PICK n \in 0 .. Len(kept) :
          /\ Laid(Ring, kept, n, accepted)
          /\ n > 0 => At(kept, Len(kept)) - At(kept, n - 1) > buf_size
    BY DEF RingKept, RingLaid
  <2>4. /\ \E m \in n .. Len(g) :
             /\ Laid(r, g, m, accepted \o BytesOf(l))
             /\ m > 0 => At(g, Len(g)) - At(g, m - 1) > buf_size
        /\ Keep(l) => kept' = g
    BY <2>1, <2>3, StoreKept
  <2>5. r \in Cells
    <3>1. l.size \in Nat /\ l.id \in Nat /\ l.size + Header <= buf_size  BY <2>1, LastPending
    <3>2. Ring \in Cells  BY DEF LogTypes
    <3> QED  BY <3>1, <3>2, StoredTyped
  <2> HIDE DEF l, r, g
  <2>6. CASE SetRing(r) /\ Keep(l)
    <3>1. Ring' = r /\ kept' = g  BY <2>4, <2>5, <2>6, RingSet
    <3>2. PICK m \in n .. Len(g) :
             /\ Laid(r, g, m, accepted \o BytesOf(l))
             /\ m > 0 => At(g, Len(g)) - At(g, m - 1) > buf_size
      BY <2>4
    <3>3. m \in 0 .. Len(g)  BY <3>2 DEF Laid
    <3>4. RingLaid(r, g, accepted \o BytesOf(l))  BY <3>2, <3>3 DEF RingLaid
    <3> QED  BY <2>1, <3>1, <3>4 DEF RingKept
  <2>7. CASE SetRing(Emptied) /\ kept' = <<>>  BY <2>7, RingEmptied
  <2> QED  BY <2>2, <2>6, <2>7
<1>4. CASE SwapNot \/ SwapRemove \/ SwapRename \/ SwapOpen \/ FlashWrite
  <2>1. OnlyFiles  BY <1>4 DEF SwapNot, SwapRemove, SwapRename, SwapOpen, FlashWrite
  <2> QED  BY <1>1, <2>1 DEF OnlyFiles
<1>5. CASE Restart  BY <1>5, RingRestarted
<1>6. CASE UNCHANGED vars  BY <1>1, <1>6 DEF vars, ring
<1> QED  BY <1>2, <1>3, <1>4, <1>5, <1>6 DEF Next

(* The ring holds, to the byte, the longest run of last logs that fits.    *)
LEMMA RingKeptRam ==
  ASSUME LogTypes, RingKept
  PROVE  RamIsSuffix
<1> DEFINE K == Len(kept)
<1>1. PICK n \in 0 .. K :
        Laid(Ring, kept, n, accepted) /\ (n > 0 => At(kept, K) - At(kept, n - 1) > buf_size)
  BY DEF RingKept, RingLaid
<1> DEFINE space == Taken(K) - Taken(n)
           size == space - Header * (K - n)
           z == At(kept, K)
           v == At(kept, n)
           C == Content(kept, K)
           c == Content(kept, n)
           b == Before(kept, accepted, n)
<1>2. \A i : Taken(i) = At(kept, i)  BY DEF Taken, At
<1>3. /\ K \in Nat /\ n \in 0 .. K /\ Len(accepted) \in Nat /\ buf_size \in Nat
      /\ z \in Nat /\ v \in Nat /\ z - v < buf_size /\ b \in 0 .. Len(accepted)
  <2>1. /\ K \in Nat /\ n \in 0 .. K /\ Len(accepted) \in Nat /\ buf_size \in Nat
        /\ \A i \in 0 .. K : At(kept, i) \in Nat
        /\ \A i \in 0 .. K : Before(kept, accepted, i) \in 0 .. Len(accepted)
        /\ At(kept, K) - At(kept, n) < buf_size
    BY <1>1, LaidSizes
  <2>2. K \in 0 .. K  BY <2>1
  <2> QED  BY <2>1, <2>2
<1>4. /\ space = z - v /\ size = space - 2 * (K - n)
      /\ b = Len(accepted) - C + c /\ C = z - 2 * K /\ c = v - 2 * n
  BY <1>2 DEF Before, Content, Header
<1>5. LogRamGet(Ring) = SubSeq(accepted, b + 1, Len(accepted))  BY <1>1, LogRamGetLaid
<1>6. space <= buf_size /\ b + 1 = Len(accepted) - size + 1
  <2> HIDE DEF K, space, size, z, v, C, c, b
  <2> QED  BY <1>3, <1>4
<1>7. n > 0 => Taken(K) - Taken(n - 1) > buf_size  BY <1>1, <1>2
<1>8. LogRamGet(Ring) = SubSeq(accepted, Len(accepted) - size + 1, Len(accepted))
  BY <1>5, <1>6
<1> HIDE DEF size
<1>9. n \in 0 .. K /\ space <= buf_size /\ (n > 0 => Taken(K) - Taken(n - 1) > buf_size)
      /\ LogRamGet(Ring) = SubSeq(accepted, Len(accepted) - size + 1, Len(accepted))
  BY <1>6, <1>7, <1>8
<1> QED  BY <1>9 DEF RamIsSuffix, size

(* logramget (log_store.c) returns at all times the bytes of the longest   *)
(* run of last logs that the ring has room for, headers included:          *)
(* logramstore cuts a log in two at the end of the ring and loses nothing, *)
(* free_space takes whole logs, the oldest ones, and never one more than   *)
(* is needed. The hypothesis leaves out the corner where a log ends where  *)
(* the ring does, or fills it: there `current` is no index of the ring, or *)
(* the full ring reads as an empty one.                                    *)
THEOREM RamHoldsLast ==
  ASSUME NoExactFit
  PROVE  Spec => []RamIsSuffix
<1>1. Spec => []RingKept
  <2>1. LogTypes /\ LogTypes' /\ RingKept /\ [Next]_vars => RingKept'  BY RingKeptNext
  <2> QED  BY <2>1, RingKeptInit, LogTyped, PTL DEF Spec
<1>2. LogTypes /\ RingKept => RamIsSuffix  BY RingKeptRam
<1> QED  BY <1>1, <1>2, LogTyped, PTL

------------------------------------------------------------------------------
(* What the files hold. *)

(* Two empty files hold the bytes given so far, none.                      *)
LEMMA FilesKeptInit == Init => FilesKept
<1> SUFFICES ASSUME Init PROVE FilesKept  OBVIOUS
<1>1. /\ file1.bytes = <<>> /\ file2.bytes = <<>> /\ flash.data = <<>> /\ flash.pc = "idle"
      /\ flashed = <<>>
  BY DEF Init, File
<1>2. <<>> \in Seq(Nat) /\ <<>> = <<>> \o (<<>> \o <<>>) /\ Len(<<>>) = 0
  OBVIOUS
<1>3. Limit >= 0  BY LimitIs
<1> QED  BY <1>1, <1>2, <1>3 DEF FilesKept

(* The bytes that a log() or the end of a store gives the files are no     *)
(* more than the ring holds.                                               *)
LEMMA FlashGiven ==
  ASSUME LogTypes, NoExactFit, RingKept,
         (\E size \in Sizes, severe \in BOOLEAN : Log(size, severe)) \/ FinishStore
  PROVE  /\ Idle /\ UNCHANGED <<files, flashed>>
         /\ UNCHANGED flash \/ (flash'.pc = "start" /\ Len(flash'.data) <= Limit)
<1> DEFINE Given == flash'.pc = "start" /\ Len(flash'.data) <= Limit
<1>1. PICK n \in 0 .. Len(kept) :
        /\ Laid(Ring, kept, n, accepted)
        /\ n > 0 => At(kept, Len(kept)) - At(kept, n - 1) > buf_size
  BY DEF RingKept, RingLaid
<1>2. ASSUME NEW size \in Sizes, NEW severe \in BOOLEAN, Log(size, severe)
      PROVE  Idle /\ UNCHANGED <<files, flashed>> /\ (UNCHANGED flash \/ Given)
  <2>1. /\ FlushRing \/ UNCHANGED <<ring, kept, flash>>
        /\ Idle /\ UNCHANGED <<files, flashed>>
    BY <1>2 DEF Log
  <2>2. CASE FlushRing
    <3>1. Len(LogRamGet(Ring)) <= Limit  BY <1>1, LaidLen
    <3> QED  BY <2>1, <2>2, <3>1 DEF FlushRing, StartFlash
  <2> QED  BY <2>1, <2>2
<1>3. CASE FinishStore
  <2> DEFINE l == Last(pending)
             r == Stored(Ring, l)
             g == Append(kept, At(kept, Len(kept)) + Header + l.size)
  <2>1. /\ pending # <<>> /\ Fits(r) /\ Idle /\ UNCHANGED <<files, flashed>>
        /\ UNCHANGED flash \/ StartFlash(LogRamGet(r)) \/ StartFlash(BytesOf(l))
    BY <1>3 DEF FinishStore
  <2>2. Len(LogRamGet(r)) <= Limit
    <3>1. \E m \in n .. Len(g) : Laid(r, g, m, accepted \o BytesOf(l))  BY <1>1, <2>1, StoreKept
    <3> HIDE DEF r, g, l
    <3> QED  BY <3>1, LaidLen
  <2>3. Len(BytesOf(l)) <= Limit
    <3>1. l.size \in Nat /\ l.id \in Nat /\ l.size + Header <= buf_size  BY <2>1, LastPending
    <3>2. Len(BytesOf(l)) = l.size  BY <3>1, BytesOfSeq
    <3> HIDE DEF l
    <3> QED  BY <3>1, <3>2, LimitIs, LogConstants DEF Header
  <2> HIDE DEF l, r
  <2> QED  BY <2>1, <2>2, <2>3 DEF StartFlash
<1> QED  BY <1>2, <1>3

(* Three runs of bytes, put together two at a time.                        *)
LEMMA Associative == \A s, t, u \in Seq(Nat) : (s \o t) \o u = s \o (t \o u)
BY ConcatAssociative, SMTT(40)

(* A swap forgets the oldest bytes and moves the others, a write adds to   *)
(* the last ones, a restart creates the file that is missing, empty.       *)
LEMMA FilesKeptNext ==
  ASSUME LogTypes, NoExactFit, RingKept, FilesKept, [Next]_vars
  PROVE  FilesKept'
<1> DEFINE a == file2.bytes
           b == file1.bytes
           d == flash.data
<1>1. /\ a \in Seq(Nat) /\ b \in Seq(Nat) /\ d \in Seq(Nat)
      /\ flash \in FlashStates
      /\ flash.pc = "open" => b = <<>>
  BY DEF LogTypes, FileStates, FlashStates
<1>2. PICK x \in Seq(Nat) : flashed = x \o (a \o b)  BY DEF FilesKept
<1>3. /\ Len(b) <= Limit /\ Len(d) <= Limit
      /\ flash.pc = "write" => Len(b) + Len(d) <= Limit
  BY DEF FilesKept
<1>4. Len(b) \in Nat /\ Len(d) \in Nat /\ Limit \in Nat /\ Limit >= file_size_limit
      /\ file_size_limit \in Nat
  BY <1>1, LenProperties, LimitIs, LogConstants
<1>5. <<>> \in Seq(Nat) /\ Len(<<>>) = 0  OBVIOUS
<1>6. x \o a \in Seq(Nat) /\ flashed = (x \o a) \o b
  <2> HIDE DEF a, b
  <2>1. x \o a \in Seq(Nat)  BY <1>1, ConcatProperties
  <2>2. a \in Seq(Nat) /\ b \in Seq(Nat)  BY <1>1
  <2>3. (x \o a) \o b = x \o (a \o b)  BY <2>2, Associative, Zenon
  <2> QED  BY <1>2, <2>1, <2>3
<1>7. <<>> \o b = b /\ b \o <<>> = b  BY <1>1, ConcatEmptySeq
<1>8. CASE (\E size \in Sizes, severe \in BOOLEAN : Log(size, severe)) \/ FinishStore
  <2>1. /\ Idle /\ UNCHANGED <<files, flashed>>
        /\ UNCHANGED flash \/ (flash'.pc = "start" /\ Len(flash'.data) <= Limit)
    BY <1>8, FlashGiven
  <2>2. file1' = file1 /\ file2' = file2 /\ flashed' = flashed  BY <2>1 DEF files
  <2>3. Len(flash'.data) <= Limit /\ flash'.pc # "write"  BY <1>3, <2>1 DEF Idle
  <2> QED  BY <1>2, <1>3, <2>2, <2>3 DEF FilesKept
<1>9. CASE SwapNot
  <2>1. /\ flash'.data = d /\ UNCHANGED <<files, flashed>>
        /\ ~(Len(b) + Len(d) > file_size_limit)
    BY <1>1, <1>9 DEF SwapNot, SwapNeeded, FlashStep, FlashStates
  <2>2. file1' = file1 /\ file2' = file2 /\ flashed' = flashed  BY <2>1 DEF files
  <2>3. Len(b) + Len(d) <= Limit
    <3> HIDE DEF b, d
    <3> QED  BY <1>4, <2>1
  <2> QED  BY <1>2, <1>3, <2>1, <2>2, <2>3 DEF FilesKept
<1>10. CASE SwapRemove
  <2>1. /\ flash'.data = d /\ flash'.pc = "rename" /\ file1' = file1 /\ flashed' = flashed
        /\ file2'.bytes = <<>>
    BY <1>1, <1>10 DEF SwapRemove, FlashStep, Missing
  <2> QED  BY <1>3, <1>6, <1>7, <2>1 DEF FilesKept
<1>11. CASE SwapRename
  <2>1. /\ flash'.data = d /\ flash'.pc = "open" /\ file2' = file1 /\ flashed' = flashed
        /\ file1'.bytes = <<>>
    BY <1>1, <1>11 DEF SwapRename, FlashStep, Missing
  <2>2. Len(file1'.bytes) <= Limit  BY <1>4, <1>5, <2>1
  <2> QED  BY <1>3, <1>6, <1>7, <2>1, <2>2 DEF FilesKept
<1>12. CASE SwapOpen
  <2>1. /\ flash'.data = d /\ file2' = file2 /\ flashed' = flashed /\ flash.pc = "open"
        /\ file1'.bytes = <<>>
    BY <1>1, <1>12 DEF SwapOpen, FlashStep, File
  <2>2. b = <<>>  BY <1>1, <2>1
  <2>3. Len(file1'.bytes) + Len(flash'.data) <= Limit
    <3>1. Len(file1'.bytes) = 0 /\ Len(flash'.data) = Len(d)  BY <1>5, <2>1
    <3> QED  BY <1>3, <1>4, <3>1
  <2> QED  BY <1>2, <1>3, <2>1, <2>2, <2>3 DEF FilesKept
<1>13. CASE FlashWrite
  <2>1. /\ flash'.data = <<>> /\ flash'.pc = "idle" /\ file2' = file2 /\ file1'.bytes = b \o d
        /\ flashed' = flashed \o d /\ flash.pc = "write"
    BY <1>13 DEF FlashWrite, File
  <2>2. flashed' = x \o (a \o (b \o d))
    <3> HIDE DEF a, b, d
    <3>1. a \o b \in Seq(Nat)  BY <1>1, ConcatProperties
    <3>4. a \in Seq(Nat) /\ b \in Seq(Nat) /\ d \in Seq(Nat)  BY <1>1
    <3>2. (x \o (a \o b)) \o d = x \o ((a \o b) \o d)  BY <3>1, <3>4, Associative, ZenonT(60)
    <3>3. (a \o b) \o d = a \o (b \o d)  BY <3>4, Associative, Zenon
    <3> QED  BY <1>2, <2>1, <3>2, <3>3
  <2>3. Len(b \o d) <= Limit
    <3>1. Len(b \o d) = Len(b) + Len(d)  BY <1>1, ConcatProperties
    <3> QED  BY <1>3, <2>1, <3>1
  <2>4. Len(flash'.data) <= Limit  BY <1>4, <1>5, <2>1
  <2> QED  BY <2>1, <2>2, <2>3, <2>4 DEF FilesKept
<1>14. CASE Restart
  <2>1. /\ flash'.data = <<>> /\ flash'.pc = "idle" /\ file2'.bytes = a /\ file1'.bytes = b
        /\ flashed' = flashed
    BY <1>14 DEF Restart, File
  <2>2. Len(flash'.data) <= Limit  BY <1>4, <1>5, <2>1
  <2> QED  BY <1>2, <1>3, <2>1, <2>2 DEF FilesKept
<1>15. CASE UNCHANGED vars
  <2>1. file1' = file1 /\ file2' = file2 /\ flashed' = flashed /\ flash' = flash
    BY <1>15 DEF vars
  <2> QED  BY <1>2, <1>3, <2>1 DEF FilesKept
<1> QED
  BY <1>8, <1>9, <1>10, <1>11, <1>12, <1>13, <1>14, <1>15 DEF Next

(* The two files, old then current, hold the last bytes that logflashstore *)
(* (log_storeflash.c) was given, in order: the steps of swap_files, with a *)
(* restart after any of them, forget only what is oldest. The current file *)
(* is over the limit only when one write is, and a write is no larger than *)
(* what the ring holds: that is where the hypothesis on the ring is used.  *)
THEOREM FilesHoldLast ==
  ASSUME NoExactFit
  PROVE  Spec => []FlashIsSuffix
<1>1. Spec => [](RingKept /\ FilesKept)
  <2>1. LogTypes /\ LogTypes' /\ RingKept /\ [Next]_vars => RingKept'  BY RingKeptNext
  <2>2. LogTypes /\ RingKept /\ FilesKept /\ [Next]_vars => FilesKept'  BY FilesKeptNext
  <2> QED  BY <2>1, <2>2, RingKeptInit, FilesKeptInit, LogTyped, PTL DEF Spec
<1>2. LogTypes /\ FilesKept => FlashIsSuffix
  <2> SUFFICES ASSUME LogTypes, FilesKept PROVE FlashIsSuffix  OBVIOUS
  <2>1. file2.bytes \in Seq(Nat) /\ file1.bytes \in Seq(Nat)  BY DEF LogTypes, FileStates
  <2>2. file2.bytes \o file1.bytes \in Seq(Nat)  BY <2>1, ConcatProperties
  <2>3. PICK x \in Seq(Nat) : flashed = x \o (file2.bytes \o file1.bytes)  BY DEF FilesKept
  <2>4. IsSuffix(file2.bytes \o file1.bytes, flashed)  BY <2>2, <2>3, SuffixConcat
  <2> QED  BY <2>4 DEF FilesKept, FlashIsSuffix, Limit
<1> QED  BY <1>1, <1>2, LogTyped, PTL

------------------------------------------------------------------------------
(* That no log is lost. *)

(* When the ring holds every log since it was emptied, what comes before   *)
(* and what is read of it are everything.                                  *)
LEMMA RestOfRam ==
  ASSUME NEW r, NEW e, NEW acc, Laid(r, e, 0, acc)
  PROVE  /\ Len(acc) - Content(e, Len(e)) \in 0 .. Len(acc)
         /\ SubSeq(acc, 1, Len(acc) - Content(e, Len(e))) \o LogRamGet(r) = acc
<1> DEFINE k == Len(acc) - Content(e, Len(e))
           b == Before(e, acc, 0)
<1>1. Len(e) \in Nat /\ Len(acc) \in Nat /\ acc \in Seq(Nat) /\ 0 \in 0 .. Len(e)
  BY LaidSizes DEF Laid
<1>2. b \in 0 .. Len(acc)  BY <1>1, LaidSizes
<1>3. Content(e, Len(e)) \in Int
  <2>1. Len(e) \in 0 .. Len(e)  BY <1>1
  <2>2. At(e, Len(e)) \in Nat  BY <2>1, LaidSizes
  <2> QED  BY <1>1, <2>2 DEF Content, Header
<1>4. k = b
  <2>1. Content(e, 0) = 0  BY DEF Content, At, Header
  <2> DEFINE C == Content(e, Len(e))
  <2>2. b = Len(acc) - C + 0 /\ k = Len(acc) - C  BY <2>1 DEF Before
  <2>3. C \in Int  BY <1>3
  <2> HIDE DEF b, k, C
  <2> QED  BY <1>1, <2>2, <2>3
<1>5. LogRamGet(r) = SubSeq(acc, b + 1, Len(acc))  BY LogRamGetLaid
<1> HIDE DEF b, k
<1>6. 1 \in 1 .. Len(acc) + 1 /\ k \in 1 - 1 .. Len(acc) /\ Len(acc) \in k .. Len(acc)
  BY <1>1, <1>2, <1>4
<1>7. SubSeq(acc, 1, k) \o SubSeq(acc, k + 1, Len(acc)) = SubSeq(acc, 1, Len(acc))
  BY <1>1, <1>6, ConcatAdjacentSubSeq
<1>8. SubSeq(acc, 1, Len(acc)) = acc  BY <1>1, SubSeqFull
<1>9. k \in 0 .. Len(acc) /\ SubSeq(acc, 1, k) \o LogRamGet(r) = acc
  BY <1>2, <1>4, <1>5, <1>7, <1>8
<1> QED  BY <1>9 DEF k

(* The same when no log is in the ring.                                    *)
LEMMA NoneInRam ==
  ASSUME NEW acc \in Seq(Nat)
  PROVE  /\ SubSeq(acc, 1, Len(acc) - Content(<<>>, Len(<<>>))) = acc
         /\ At(<<>>, Len(<<>>)) = 0
<1>1. Len(<<>>) = 0 /\ At(<<>>, 0) = 0 /\ Content(<<>>, 0) = 0 /\ Len(acc) \in Nat
  BY LenProperties DEF At, Content, Header
<1>2. Len(acc) - Content(<<>>, Len(<<>>)) = Len(acc)  BY <1>1
<1>3. SubSeq(acc, 1, Len(acc)) = acc  BY SubSeqFull
<1> QED  BY <1>1, <1>2, <1>3

(* At the start no log is missing.                                         *)
LEMMA AllKeptInit == Init => AllKept
<1> SUFFICES ASSUME Init PROVE AllKept  OBVIOUS
<1> DEFINE b == [i \in 0 .. buf_size |-> 0]
<1>1. Ring = [buf |-> b, current |-> 0, first |-> 0] /\ kept = <<>> /\ accepted = <<>>
      /\ flashed = <<>> /\ flash.data = <<>> /\ pending = <<>>
  BY DEF Init, Ring
<1>2. b \in [0 .. buf_size -> Nat] /\ <<>> \in Seq(Nat) /\ <<>> \o <<>> = <<>> /\ Len(<<>>) = 0
  OBVIOUS
<1> HIDE DEF b
<1>3. Laid(Ring, kept, 0, accepted)  BY <1>1, <1>2, EmptyLaid
<1>4. flashed \o flash.data = SubSeq(accepted, 1, Len(accepted) - Content(kept, Len(kept)))
      /\ At(kept, Len(kept)) = 0
  BY <1>1, <1>2, NoneInRam
<1>5. Waiting(pending) = 0  BY <1>1, <1>2 DEF Waiting
<1>6. 0 + 0 <= buf_size  BY LogConstants
<1> QED  BY <1>3, <1>4, <1>5, <1>6 DEF AllKept

(* A log() leaves room for the stores under way.                           *)
LEMMA AllKeptLog ==
  ASSUME LogTypes, LogTypes', NoLogsInStep, AllKept, policy = "buffered_all",
         NEW size \in Sizes, NEW severe \in BOOLEAN, Log(size, severe)
  PROVE  AllKept'
<1> DEFINE N == Len(pending)
           z == At(kept, Len(kept))
           spare == SpareSpace(Ring)
           l == [id |-> logs + 1, size |-> size, severe |-> severe, stepped |-> FALSE]
           full == spare < size + Header
<1>1. /\ Laid(Ring, kept, 0, accepted)
      /\ flashed \o flash.data = SubSeq(accepted, 1, Len(accepted) - Content(kept, Len(kept)))
      /\ z + Waiting(pending) <= buf_size
  BY DEF AllKept
<1>2. /\ Idle /\ LeavesRoom(l) /\ UNCHANGED <<policy, flashed, accepted>>
      /\ IF full THEN FlushRing ELSE UNCHANGED <<ring, kept, flash>>
      /\ pending # <<>> => N < 2
  BY DEF Log
<1>3. /\ Len(pending') = N + 1 /\ \A i \in 1 .. N : pending'[i] = pending[i]
      /\ pending'[N + 1].size = size /\ \A i \in 1 .. N + 1 : pending'[i].size + Header <= buf_size
      /\ size \in Nat /\ size > 0
  BY LogTypesLog
<1>4. N \in Nat /\ (N = 0 <=> pending = <<>>)
  <2>1. pending \in Seq(LogRecords)  BY DEF LogTypes
  <2> QED  BY <2>1, EmptySeq, LenProperties
<1>5. z \in Nat /\ spare = buf_size - z /\ buf_size \in Nat
  <2>1. Len(kept) \in Nat /\ \A i \in 0 .. Len(kept) : At(kept, i) \in Nat  BY <1>1, LaidSizes
  <2>2. spare = buf_size - (z - At(kept, 0))  BY <1>1, SpareSpaceLaid
  <2>3. At(kept, 0) = 0  BY DEF At
  <2>4. z \in Nat  BY <2>1
  <2> HIDE DEF z, spare
  <2> QED  BY <2>2, <2>3, <2>4, LogConstants
<1>6. N # 0 => spare >= size + Header + pending[1].size + Header /\ N = 1
                /\ pending[1].size \in Nat
  <2> SUFFICES ASSUME N # 0
               PROVE  spare >= size + Header + pending[1].size + Header /\ N = 1
                      /\ pending[1].size \in Nat
    OBVIOUS
  <2>1. N = 1 /\ pending # <<>>
    <3> HIDE DEF N
    <3> QED  BY <1>2, <1>4
  <2>2. Last(pending) = pending[1] /\ Last(pending).size \in Nat  BY <2>1, LastPending
  <2>3. spare >= l.size + Header + Last(pending).size + Header
    BY <1>2, <2>1, Zenon DEF LeavesRoom, NoLogsInStep
  <2>4. l.size = size  OBVIOUS
  <2> QED  BY <2>1, <2>2, <2>3, <2>4
<1> HIDE DEF z, spare, l
<1>7. CASE full
  <2>1. N = 0
    <3> SUFFICES ASSUME N # 0 PROVE FALSE  OBVIOUS
    <3> DEFINE q == pending[1].size
    <3>1. spare >= size + 2 + q + 2 /\ q \in Nat /\ spare < size + 2  BY <1>6, <1>7 DEF Header
    <3> HIDE DEF q
    <3> QED  BY <1>3, <1>5, <3>1
  <2>2. SetRing(Emptied) /\ kept' = <<>> /\ flash'.data = LogRamGet(Ring)
    BY <1>2, <1>7 DEF FlushRing, StartFlash
  <2>3. Laid(Ring', kept', 0, accepted')  BY <2>2, RingEmptied
  <2>4. flashed' \o flash'.data = accepted
    <3>1. flash.data = <<>> /\ flashed \in Seq(Nat)  BY <1>2 DEF LogTypes, Idle
    <3>2. flashed \o <<>> = flashed  BY <3>1, ConcatEmptySeq
    <3>3. SubSeq(accepted, 1, Len(accepted) - Content(kept, Len(kept))) \o LogRamGet(Ring) = accepted
      BY <1>1, RestOfRam
    <3> QED  BY <1>1, <1>2, <2>2, <3>1, <3>2, <3>3
  <2>5. /\ SubSeq(accepted, 1, Len(accepted) - Content(<<>>, Len(<<>>))) = accepted
        /\ At(<<>>, Len(<<>>)) = 0
    <3>1. accepted \in Seq(Nat)  BY DEF LogTypes
    <3> QED  BY <3>1, NoneInRam
  <2>6. Waiting(pending') = pending'[1].size + Header /\ pending'[1].size + Header <= buf_size
        /\ pending'[1].size \in Nat
    BY <1>3, <2>1 DEF Waiting
  <2>7. 0 + Waiting(pending') <= buf_size  BY <1>5, <2>6 DEF Header
  <2> QED  BY <1>2, <2>2, <2>3, <2>4, <2>5, <2>7 DEF AllKept
<1>8. CASE ~full
  <2>1. UNCHANGED <<ring, kept, flash>> /\ Ring' = Ring  BY <1>2, <1>8 DEF ring, Ring
  <2>2. z + Waiting(pending') <= buf_size
    <3>1. CASE N = 0
      <4>1. Waiting(pending') = size + 2  BY <1>3, <3>1 DEF Waiting, Header
      <4>2. ~(spare < size + 2)  BY <1>8 DEF Header
      <4> QED  BY <1>3, <1>5, <4>1, <4>2
    <3>2. CASE N # 0
      <4> DEFINE q == pending[1].size
      <4>1. N = 1 /\ spare >= size + 2 + q + 2 /\ q \in Nat  BY <1>6, <3>2 DEF Header
      <4>2. pending'[1] = pending[1] /\ Len(pending') = 2 /\ pending'[2].size = size
        BY <1>3, <4>1
      <4>3. Waiting(pending') = (q + 2) + (size + 2)  BY <4>2 DEF Waiting, Header
      <4> HIDE DEF q
      <4> QED  BY <1>3, <1>5, <4>1, <4>3
    <3> QED  BY <3>1, <3>2
  <2>3. At(kept', Len(kept')) = z  BY <2>1 DEF z
  <2> QED  BY <1>1, <1>2, <2>1, <2>2, <2>3 DEF AllKept
<1> QED  BY <1>7, <1>8

(* What comes before the last logs does not change when one is added.      *)
LEMMA BeforeAdded ==
  ASSUME NEW s \in Seq(Nat), NEW t \in Seq(Nat), NEW k \in 0 .. Len(s)
  PROVE  SubSeq(s \o t, 1, k) = SubSeq(s, 1, k)
<1>0. Len(s) \in Nat  BY LenProperties
<1>1. CASE k = 0
  <2>1. SubSeq(s \o t, 1, k) = <<>> /\ SubSeq(s, 1, k) = <<>>  BY <1>1, SubSeqEmpty
  <2> QED  BY <2>1
<1>2. CASE k # 0
  <2>1. k \in 1 .. Len(s) /\ 1 \in 1 .. Len(s)  BY <1>0, <1>2
  <2> QED  BY <2>1, SubSeqOfConcat1
<1> QED  BY <1>1, <1>2

(* The end of a store, for which there is room, takes no log away.         *)
LEMMA AllKeptStore ==
  ASSUME LogTypes, LogTypes', NoExactFit, AllKept, policy = "buffered_all", FinishStore
  PROVE  AllKept'
<1> DEFINE l == Last(pending)
           r == Stored(Ring, l)
           K == Len(kept)
           z == At(kept, K)
           g == Append(kept, At(kept, Len(kept)) + Header + l.size)
           N == l.size
           acc2 == accepted \o BytesOf(l)
           C == Content(kept, K)
           k == Len(accepted) - C
<1>1. /\ Laid(Ring, kept, 0, accepted)
      /\ flashed \o flash.data = SubSeq(accepted, 1, k)
      /\ z + Waiting(pending) <= buf_size
  BY DEF AllKept
<1>2. /\ pending # <<>> /\ Fits(r) /\ accepted' = acc2 /\ pending' = Front(pending)
      /\ SetRing(r) /\ Keep(l) /\ UNCHANGED flash /\ UNCHANGED <<policy, flashed>>
  BY DEF FinishStore
<1>3. /\ Len(pending) \in 1 .. 2 /\ l = pending[Len(pending)] /\ l \in LogRecords
      /\ N \in Nat /\ N > 0 /\ l.id \in Nat /\ N + Header <= buf_size
      /\ Len(Front(pending)) = Len(pending) - 1
      /\ \A i \in 1 .. Len(pending) - 1 : Front(pending)[i] = pending[i]
  BY <1>2, LastPending
<1>4. Waiting(pending) = Waiting(pending') + (N + 2) /\ Waiting(pending') \in Nat
  <2>1. CASE Len(pending) = 1
    <3>1. Len(pending') = 0 /\ l = pending[1]  BY <1>2, <1>3, <2>1
    <3>2. Waiting(pending') = 0  BY <3>1 DEF Waiting
    <3>3. Waiting(pending) = N + 2  BY <2>1, <3>1 DEF Waiting, Header
    <3> HIDE DEF N
    <3> QED  BY <1>3, <3>2, <3>3
  <2>2. CASE Len(pending) = 2
    <3>1. Len(pending') = 1 /\ l = pending[2] /\ pending'[1] = pending[1]  BY <1>2, <1>3, <2>2
    <3> DEFINE q == pending[1].size
    <3>2. q \in Nat
      <4>1. pending[1] \in LogRecords
        <5>1. pending \in Seq(LogRecords) /\ 1 \in 1 .. Len(pending)  BY <2>2 DEF LogTypes
        <5> QED  BY <5>1, ElementOfSeq
      <4>2. q \in Sizes  BY <4>1 DEF LogRecords
      <4> HIDE DEF q
      <4> QED  BY <4>2, LogConstants
    <3>3. Waiting(pending') = q + 2  BY <3>1 DEF Waiting, Header
    <3>4. Waiting(pending) = (q + 2) + (N + 2)  BY <2>2, <3>1 DEF Waiting, Header
    <3> HIDE DEF N, q
    <3> QED  BY <1>3, <3>2, <3>3, <3>4
  <2> QED  BY <1>3, <2>1, <2>2
<1>5. z \in Nat /\ C \in Int /\ buf_size \in Nat /\ K \in Nat /\ Ends(kept)
      /\ accepted \in Seq(Nat) /\ Len(accepted) \in Nat
  <2>1. K \in Nat /\ \A i \in 0 .. K : At(kept, i) \in Nat  BY <1>1, LaidSizes
  <2>2. z \in Nat  BY <2>1
  <2>3. C \in Int  BY <2>1, <2>2 DEF Content, Header
  <2>4. accepted \in Seq(Nat) /\ Ends(kept)  BY <1>1 DEF Laid
  <2> QED  BY <2>1, <2>2, <2>3, <2>4, LenProperties, LogConstants
<1>6. Ring' = r /\ kept' = g
  <2>1. Ring \in Cells  BY DEF LogTypes
  <2>2. r \in Cells  BY <1>3, <2>1, StoredTyped
  <2>3. kept' = g  BY <1>2 DEF Keep, Taken, At
  <2> HIDE DEF r, g
  <2> QED  BY <1>2, <2>2, <2>3, RingSet
<1>7. Laid(r, g, 0, acc2)
  <2>1. \E m \in 0 .. Len(g) :
          /\ Laid(r, g, m, acc2)
          /\ At(kept, Len(kept)) - At(kept, 0) + Header + l.size <= buf_size => m = 0
    BY <1>1, <1>2, StoreKept
  <2>2. At(kept, Len(kept)) - At(kept, 0) + Header + l.size <= buf_size
    <3>1. At(kept, 0) = 0  BY DEF At
    <3>2. z - 0 + 2 + N <= buf_size
      <4> HIDE DEF z, N
      <4> QED  BY <1>1, <1>3, <1>4, <1>5, SMTT(40)
    <3> QED  BY <3>1, <3>2 DEF Header
  <2> HIDE DEF g, r, acc2
  <2> QED  BY <2>1, <2>2
<1>8. /\ Len(g) = K + 1 /\ At(g, K + 1) = z + Header + N
      /\ Content(g, K + 1) = C + N
  BY <1>3, <1>5, EndsAppend
<1>9. At(g, Len(g)) + Waiting(pending') <= buf_size
  <2>1. At(g, Len(g)) = z + 2 + N  BY <1>8 DEF Header
  <2> HIDE DEF g, z, N
  <2> QED  BY <1>1, <1>3, <1>4, <1>5, <2>1
<1>10. flashed' \o flash'.data = SubSeq(acc2, 1, Len(acc2) - Content(g, Len(g)))
  <2>1. BytesOf(l) \in Seq(Nat) /\ Len(BytesOf(l)) = N  BY <1>3, BytesOfSeq
  <2>2. Len(acc2) = Len(accepted) + N  BY <1>5, <2>1, ConcatProperties, SMTT(40)
  <2>3. Len(acc2) - Content(g, Len(g)) = k
    <3>1. Content(g, Len(g)) = C + N  BY <1>8
    <3> HIDE DEF acc2, C, N, g
    <3> QED  BY <1>3, <1>5, <2>2, <3>1
  <2>4. k \in 0 .. Len(accepted)  BY <1>1, RestOfRam
  <2> HIDE DEF k
  <2>5. SubSeq(acc2, 1, k) = SubSeq(accepted, 1, k)  BY <1>5, <2>1, <2>4, BeforeAdded
  <2> QED  BY <1>1, <1>2, <2>3, <2>5
<1> HIDE DEF g, r, acc2
<1> QED  BY <1>2, <1>6, <1>7, <1>9, <1>10 DEF AllKept

(* No step loses a log, a store having its room when it ends.              *)
LEMMA AllKeptNext ==
  ASSUME LogTypes, LogTypes', NoExactFit, NoLogsInStep, AllKept, [Next]_vars
  PROVE  AllKept'
<1>1. SUFFICES ASSUME policy' = "buffered_all" PROVE AllKept'
  BY DEF AllKept
<1>2. policy' = policy
  BY DEF Next, Log, FinishStore, SwapNot, SwapRemove, SwapRename, SwapOpen, FlashWrite,
         OnlyFiles, Restart, vars
<1>3. /\ Laid(Ring, kept, 0, accepted)
      /\ flashed \o flash.data = SubSeq(accepted, 1, Len(accepted) - Content(kept, Len(kept)))
      /\ At(kept, Len(kept)) + Waiting(pending) <= buf_size
      /\ policy = "buffered_all"
  BY <1>1, <1>2 DEF AllKept
<1>4. /\ flash \in FlashStates
      /\ flashed \in Seq(Nat) /\ flashed' \in Seq(Nat) /\ accepted' \in Seq(Nat)
  BY DEF LogTypes
<1>5. ASSUME UNCHANGED ring, UNCHANGED <<kept, accepted, pending>>,
             flashed' \o flash'.data = flashed \o flash.data
      PROVE  AllKept'
  <2>1. Ring' = Ring  BY <1>5 DEF ring, Ring
  <2> QED  BY <1>3, <1>5, <2>1 DEF AllKept
<1>6. ASSUME NEW size \in Sizes, NEW severe \in BOOLEAN, Log(size, severe) PROVE AllKept'
  BY <1>3, <1>6, AllKeptLog
<1>7. CASE FinishStore  BY <1>3, <1>7, AllKeptStore
<1>8. CASE SwapNot \/ SwapRemove \/ SwapRename \/ SwapOpen
  <2>1. OnlyFiles /\ flashed' = flashed /\ flash'.data = flash.data
    BY <1>4, <1>8 DEF SwapNot, SwapRemove, SwapRename, SwapOpen, FlashStep, FlashStates
  <2> QED  BY <1>5, <2>1 DEF OnlyFiles
<1>9. CASE FlashWrite
  <2>1. OnlyFiles /\ flashed' = flashed \o flash.data /\ flash'.data = <<>>
    BY <1>9 DEF FlashWrite
  <2>2. flashed' \o <<>> = flashed'  BY <1>4, ConcatEmptySeq
  <2>3. flashed' \o flash'.data = flashed \o flash.data  BY <2>1, <2>2
  <2> QED  BY <1>5, <2>1, <2>3 DEF OnlyFiles
<1>10. CASE Restart
  <2>1. /\ kept' = <<>> /\ accepted' = flashed' /\ flash'.data = <<>> /\ pending' = <<>>
    BY <1>10 DEF Restart
  <2>2. Laid(Ring', kept', 0, accepted')  BY <1>10, RingRestarted
  <2>3. flashed' \o <<>> = flashed'  BY <1>4, ConcatEmptySeq
  <2>4. /\ SubSeq(accepted', 1, Len(accepted') - Content(<<>>, Len(<<>>))) = accepted'
        /\ At(<<>>, Len(<<>>)) = 0
    BY <1>4, NoneInRam
  <2>5. Waiting(pending') = 0  BY <2>1 DEF Waiting
  <2>6. 0 + 0 <= buf_size  BY LogConstants
  <2> QED  BY <2>1, <2>2, <2>3, <2>4, <2>5, <2>6 DEF AllKept
<1>11. CASE UNCHANGED vars  BY <1>5, <1>11 DEF vars, ring
<1> QED  BY <1>6, <1>7, <1>8, <1>9, <1>10, <1>11 DEF Next

(* With buffered_all (log/tools.lua), every log that was put in the ring   *)
(* is in the files, on its way to them, or in the ring, in the order they  *)
(* came: the hook of "erasedata" flushes before logramstore would          *)
(* overwrite. The second hypothesis leaves out the corner where the tasks  *)
(* that run in the scheduler step of a store log more than leaves it its   *)
(* room: logramstore then overwrites what was not flushed.                 *)
THEOREM AllLogsKept ==
  ASSUME NoExactFit, NoLogsInStep
  PROVE  Spec => []AllLogged
<1>1. Spec => []AllKept
  <2>1. LogTypes /\ LogTypes' /\ AllKept /\ [Next]_vars => AllKept'  BY AllKeptNext
  <2> QED  BY <2>1, AllKeptInit, LogTyped, PTL DEF Spec
<1>2. AllKept => AllLogged
  <2> SUFFICES ASSUME AllKept, policy = "buffered_all"
               PROVE  flashed \o flash.data \o LogRamGet(Ring) = accepted
    BY DEF AllLogged
  <2>1. /\ Laid(Ring, kept, 0, accepted)
        /\ flashed \o flash.data = SubSeq(accepted, 1, Len(accepted) - Content(kept, Len(kept)))
    BY DEF AllKept
  <2>2. SubSeq(accepted, 1, Len(accepted) - Content(kept, Len(kept))) \o LogRamGet(Ring) = accepted
    BY <2>1, RestOfRam
  <2> QED  BY <2>1, <2>2
<1> QED  BY <1>1, <1>2, PTL
==============================================================================
