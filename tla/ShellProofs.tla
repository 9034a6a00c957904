---------------------------- MODULE ShellProofs ----------------------------
(***************************************************************************)
(* Every line a client sends is in one place of the shell, for all values  *)
(* of the constants: however its bytes are cut, no line is lost or runs    *)
(* twice; the ring of the history is the list of the lines that ran; and   *)
(* the cursor stays in the text the user edits.                            *)
(***************************************************************************)
EXTENDS Shell, SequenceTheorems, WellFoundedInduction, TLAPS

(* Sets of indexes; induction, and recursion, on a natural. *)

(* A set of naturals which is not empty has a smallest element. *)
LEMMA Smallest ==
    ASSUME NEW T \in SUBSET Nat, T # {}
    PROVE  \E x \in T : \A y \in T : x <= y
<1> DEFINE R == {p \in Nat \X Nat : p[1] < p[2]}
<1>1. R = OpToRel(<, Nat)
  BY Zenon DEF OpToRel
<1>2. IsWellFoundedOn(R, Nat)
  BY <1>1, NatLessThanWellFounded, Zenon
<1> HIDE DEF R
<1>3. PICK x \in T : \A y \in T : ~ (<<y, x>> \in R)
  BY <1>2, WFMin, Zenon
<1> USE DEF R
<1>4. \A y \in T : ~ (y < x)
  BY <1>3
<1> QED  BY <1>4

(* So has a set of indexes a largest one. *)
LEMMA Largest ==
    ASSUME NEW m \in Nat, NEW T \in SUBSET (1 .. m), T # {}
    PROVE  \E x \in T : \A y \in T : y <= x
<1> DEFINE U == {n \in Nat : m - n \in T}
<1>1. U # {}
  <2>1. PICK x \in T : TRUE  OBVIOUS
  <2>2. m - x \in Nat /\ m - (m - x) = x  BY <2>1
  <2> QED  BY <2>1, <2>2
<1>2. PICK u \in U : \A v \in U : u <= v  BY <1>1, Smallest
<1>3. \A y \in T : y <= m - u
  <2>1. TAKE y \in T
  <2>2. m - y \in Nat /\ m - (m - y) = y  BY <2>1
  <2>3. m - y \in U  BY <2>1, <2>2
  <2>4. u <= m - y  BY <1>2, <2>3
  <2> QED  BY <2>2, <2>4
<1>4. m - u \in T  BY <1>2
<1> QED  BY <1>3, <1>4

(* What holds of 0 and of the successor of what it holds of, holds of every
   natural: a set stands for the property. *)
LEMMA Induct ==
  ASSUME NEW S, 0 \in S, \A n \in Nat : n \in S => n + 1 \in S
  PROVE  \A n \in Nat : n \in S
<1> SUFFICES ASSUME NEW n \in Nat, n \notin S PROVE FALSE  OBVIOUS
<1> DEFINE T == Nat \ S
<1>1. T \in SUBSET Nat /\ T # {}  OBVIOUS
<1>2. PICK m \in T : \A k \in T : m <= k  BY <1>1, Smallest
<1>3. m # 0 /\ m \in Nat /\ m - 1 \in Nat  BY <1>2
<1>4. m - 1 \in S  BY <1>2, <1>3
<1>5. (m - 1) + 1 = m  BY <1>3
<1>6. m \in S  BY <1>3, <1>4, <1>5
<1> QED  BY <1>2, <1>6

(* The function defined from x on by recursion on a natural exists. *)
LEMMA Iterate ==
  ASSUME NEW S, NEW x \in S, NEW g, \A n \in Nat : \A y \in S : g[<<n, y>>] \in S
  PROVE  \E f : f = [n \in Nat |-> IF n = 0 THEN x ELSE g[<<n, f[n - 1]>>]] /\ f \in [Nat -> S]
<1> DEFINE Run(p, n) == /\ p \in [0 .. n -> S] /\ p[0] = x
                        /\ \A k \in 0 .. n - 1 : p[k + 1] = g[<<k + 1, p[k]>>]
<1>1. \A n \in Nat : \E p : Run(p, n)
  <2> DEFINE A == {n \in Nat : \E p : Run(p, n)}
  <2>1. 0 \in A
    <3>1. Run([k \in 0 .. 0 |-> x], 0)  OBVIOUS
    <3> QED  BY <3>1
  <2>2. ASSUME NEW n \in Nat, n \in A PROVE n + 1 \in A
    <3>1. PICK p : Run(p, n)  BY <2>2
    <3> DEFINE q == [k \in 0 .. n + 1 |-> IF k = n + 1 THEN g[<<n + 1, p[n]>>] ELSE p[k]]
    <3>2. \A k \in 0 .. n : p[k] \in S /\ k # n + 1 /\ k \in 0 .. n + 1 /\ q[k] = p[k]
      BY <3>1
    <3>3. q \in [0 .. n + 1 -> S]
      <4>1. \A k \in 0 .. n + 1 : k = n + 1 \/ k \in 0 .. n  OBVIOUS
      <4>2. n \in 0 .. n /\ n + 1 \in Nat  OBVIOUS
      <4>3. g[<<n + 1, p[n]>>] \in S  BY <3>2, <4>2
      <4> QED  BY <3>2, <4>1, <4>3
    <3>4. q[0] = x  BY <3>1, <3>2
    <3>5. ASSUME NEW k \in 0 .. n PROVE q[k + 1] = g[<<k + 1, q[k]>>]
      <4>1. CASE k = n  BY <3>2, <4>1, SMTT(40)
      <4>2. CASE k # n
        <5>1. k \in 0 .. n - 1 /\ k + 1 \in 0 .. n  BY <4>2
        <5> QED  BY <3>1, <3>2, <5>1
      <4> QED  BY <4>1, <4>2
    <3>6. Run(q, n + 1)
      <4>1. (n + 1) - 1 = n  OBVIOUS
      <4> QED  BY <3>3, <3>4, <3>5, <4>1
    <3> HIDE DEF q, Run
    <3>7. \E p2 : Run(p2, n + 1)  BY <3>6
    <3> QED  BY <3>7
  <2> HIDE DEF A
  <2>3. \A n \in Nat : n \in A  BY <2>1, <2>2, Induct
  <2> QED  BY <2>3 DEF A
<1>2. ASSUME NEW n \in Nat, NEW m \in Nat, NEW p, NEW q, Run(p, n), Run(q, m)
      PROVE  \A k \in Nat : k <= n /\ k <= m => p[k] = q[k]
  <2> DEFINE A == {k \in Nat : k <= n /\ k <= m => p[k] = q[k]}
  <2>1. 0 \in A  BY <1>2
  <2>2. ASSUME NEW k \in Nat, k \in A PROVE k + 1 \in A
    <3> SUFFICES ASSUME k + 1 <= n, k + 1 <= m PROVE p[k + 1] = q[k + 1]  OBVIOUS
    <3>1. k \in 0 .. n - 1 /\ k \in 0 .. m - 1 /\ k <= n /\ k <= m  OBVIOUS
    <3> QED  BY <1>2, <2>2, <3>1
  <2> HIDE DEF A
  <2>3. \A k \in Nat : k \in A  BY <2>1, <2>2, Induct
  <2> QED  BY <2>3 DEF A
<1> DEFINE c(n) == CHOOSE p : Run(p, n)
           f == [n \in Nat |-> c(n)[n]]
<1>3. \A n \in Nat : Run(c(n), n)  BY <1>1
<1> HIDE DEF c
<1>4. ASSUME NEW n \in Nat PROVE f[n] = IF n = 0 THEN x ELSE g[<<n, f[n - 1]>>]
  <2>1. CASE n = 0  BY <1>3, <2>1
  <2>2. CASE n # 0
    <3>1. n - 1 \in Nat /\ n - 1 \in 0 .. n - 1 /\ (n - 1) + 1 = n /\ n - 1 <= n  BY <2>2
    <3>2. c(n)[(n - 1) + 1] = g[<<(n - 1) + 1, c(n)[n - 1]>>]  BY <1>3, <3>1
    <3>3. Run(c(n), n) /\ Run(c(n - 1), n - 1)  BY <1>3, <3>1
    <3> HIDE DEF Run
    <3>4. \A k \in Nat : k <= n /\ k <= n - 1 => c(n)[k] = c(n - 1)[k]  BY <1>2, <3>1, <3>3
    <3>5. c(n)[n - 1] = c(n - 1)[n - 1]  BY <3>1, <3>4
    <3> QED  BY <2>2, <3>1, <3>2, <3>5
  <2> QED  BY <2>1, <2>2
<1>5. f \in [Nat -> S]
  <2>1. \A n \in Nat : n \in 0 .. n  OBVIOUS
  <2>2. \A n \in Nat : c(n) \in [0 .. n -> S]  BY <1>3
  <2>3. \A n \in Nat : c(n)[n] \in S  BY <2>1, <2>2
  <2> QED  BY <2>3
<1>6. f = [n \in Nat |-> IF n = 0 THEN x ELSE g[<<n, f[n - 1]>>]]
  <2> DEFINE h == [n \in Nat |-> IF n = 0 THEN x ELSE g[<<n, f[n - 1]>>]]
  <2>1. DOMAIN f = Nat /\ DOMAIN h = Nat /\ \A n \in Nat : f[n] = h[n]  BY <1>4
  <2> QED  BY <2>1
<1> QED  BY <1>5, <1>6

-----------------------------------------------------------------------------
(* Lists of numbers where 0 stands for what is not a line. *)

Nz(p) == Range(p) \ {0}
Once(p) == \A i, j \in DOMAIN p : p[i] = p[j] /\ p[i] # 0 => i = j

\* The lines 1 to c are in four lists, each in one place.
Placed(p, b, l, o, c) ==
  /\ p \in Seq(Nat) /\ b \in Seq(Nat) /\ l \in Seq(Nat) /\ o \in Seq(Nat)
  /\ Once(p) /\ Once(b) /\ Once(l) /\ Once(o)
  /\ Nz(p) \cap Nz(b) = {} /\ Nz(p) \cap Nz(l) = {} /\ Nz(p) \cap Nz(o) = {}
  /\ Nz(b) \cap Nz(l) = {} /\ Nz(b) \cap Nz(o) = {} /\ Nz(l) \cap Nz(o) = {}
  /\ Nz(p) \cup Nz(b) \cup Nz(l) \cup Nz(o) = 1 .. c

LEMMA CatAt ==
  ASSUME NEW S, NEW p \in Seq(S), NEW q \in Seq(S)
  PROVE  /\ p \o q \in Seq(S) /\ Len(p \o q) = Len(p) + Len(q)
         /\ Len(p) \in Nat /\ Len(q) \in Nat
         /\ DOMAIN p = 1 .. Len(p) /\ DOMAIN q = 1 .. Len(q)
         /\ DOMAIN (p \o q) = 1 .. Len(p) + Len(q)
         /\ \A i \in 1 .. Len(p) : (p \o q)[i] = p[i]
         /\ \A i \in 1 .. Len(q) : (p \o q)[Len(p) + i] = q[i]
OBVIOUS

LEMMA CatNz ==
  ASSUME NEW p \in Seq(Nat), NEW q \in Seq(Nat)
  PROVE  Nz(p \o q) = Nz(p) \cup Nz(q)
<1> DEFINE r == p \o q
<1>1. /\ Len(p) \in Nat /\ Len(q) \in Nat
      /\ DOMAIN p = 1 .. Len(p) /\ DOMAIN q = 1 .. Len(q) /\ DOMAIN r = 1 .. Len(p) + Len(q)
      /\ \A i \in 1 .. Len(p) : r[i] = p[i]
      /\ \A i \in 1 .. Len(q) : r[Len(p) + i] = q[i]
  BY CatAt
<1> HIDE DEF r
<1>2. ASSUME NEW i \in DOMAIN r
      PROVE  (\E k \in DOMAIN p : r[i] = p[k]) \/ (\E k \in DOMAIN q : r[i] = q[k])
  <2>1. CASE i \in 1 .. Len(p)  BY <1>1, <2>1
  <2>2. CASE i \notin 1 .. Len(p)
    <3>1. i - Len(p) \in 1 .. Len(q) /\ Len(p) + (i - Len(p)) = i  BY <1>1, <2>2
    <3>2. r[i] = q[i - Len(p)]  BY <1>1, <3>1
    <3> QED  BY <1>1, <3>1, <3>2
  <2> QED  BY <2>1, <2>2
<1>3. \A k \in DOMAIN p : k \in DOMAIN r /\ r[k] = p[k]  BY <1>1
<1>4. \A k \in DOMAIN q : Len(p) + k \in DOMAIN r /\ r[Len(p) + k] = q[k]  BY <1>1
<1>5. Range(r) = Range(p) \cup Range(q)
  <2>1. Range(r) \subseteq Range(p) \cup Range(q)  BY <1>2 DEF Range
  <2>2. Range(p) \subseteq Range(r)  BY <1>3 DEF Range
  <2>3. Range(q) \subseteq Range(r)  BY <1>4 DEF Range
  <2> QED  BY <2>1, <2>2, <2>3
<1> QED  BY <1>5 DEF Nz, r

LEMMA CatOnce ==
  ASSUME NEW p \in Seq(Nat), NEW q \in Seq(Nat)
  PROVE  Once(p \o q) <=> Once(p) /\ Once(q) /\ Nz(p) \cap Nz(q) = {}
<1> DEFINE r == p \o q
           n == Len(p)
<1>1. /\ n \in Nat /\ Len(q) \in Nat
      /\ DOMAIN p = 1 .. n /\ DOMAIN q = 1 .. Len(q) /\ DOMAIN r = 1 .. n + Len(q)
      /\ \A i \in 1 .. n : r[i] = p[i]
      /\ \A i \in 1 .. Len(q) : r[n + i] = q[i]
  BY CatAt
<1> HIDE DEF r, n
<1>2. ASSUME Once(r) PROVE Once(p)
  <2> SUFFICES ASSUME NEW i \in 1 .. n, NEW j \in 1 .. n, p[i] = p[j], p[i] # 0
               PROVE  i = j
    BY <1>1 DEF Once
  <2>1. i \in DOMAIN r /\ j \in DOMAIN r /\ r[i] = p[i] /\ r[j] = p[j]  BY <1>1
  <2> QED  BY <1>2, <2>1 DEF Once
<1>3. ASSUME Once(r) PROVE Once(q)
  <2> SUFFICES ASSUME NEW i \in 1 .. Len(q), NEW j \in 1 .. Len(q), q[i] = q[j], q[i] # 0
               PROVE  i = j
    BY <1>1 DEF Once
  <2>1. n + i \in DOMAIN r /\ n + j \in DOMAIN r /\ r[n + i] = q[i] /\ r[n + j] = q[j]  BY <1>1
  <2>2. n + i = n + j  BY <1>3, <2>1 DEF Once
  <2> QED  BY <1>1, <2>2
<1>4. ASSUME Once(r), NEW x \in Nz(p), x \in Nz(q) PROVE FALSE
  <2>1. PICK i \in 1 .. n : p[i] = x  BY <1>1, <1>4 DEF Nz, Range
  <2>2. PICK j \in 1 .. Len(q) : q[j] = x  BY <1>1, <1>4 DEF Nz, Range
  <2>3. i \in DOMAIN r /\ n + j \in DOMAIN r /\ r[i] = x /\ r[n + j] = x  BY <1>1, <2>1, <2>2
  <2>4. i = n + j  BY <1>4, <2>3 DEF Once, Nz
  <2> QED  BY <1>1, <2>4
<1>5. ASSUME Once(p), Once(q), Nz(p) \cap Nz(q) = {} PROVE Once(r)
  <2> SUFFICES ASSUME NEW i \in DOMAIN r, NEW j \in DOMAIN r, r[i] = r[j], r[i] # 0
               PROVE  i = j
    BY DEF Once
  <2>1. ASSUME NEW k \in DOMAIN r
        PROVE  \/ k \in 1 .. n /\ r[k] = p[k] /\ (r[k] # 0 => r[k] \in Nz(p))
               \/ k - n \in 1 .. Len(q) /\ r[k] = q[k - n] /\ (r[k] # 0 => r[k] \in Nz(q))
    <3>1. CASE k \in 1 .. n
      <4>1. r[k] = p[k]  BY <1>1, <3>1
      <4> QED  BY <1>1, <3>1, <4>1 DEF Nz, Range
    <3>2. CASE k \notin 1 .. n
      <4>1. k - n \in 1 .. Len(q) /\ n + (k - n) = k  BY <1>1, <3>2
      <4>2. r[k] = q[k - n]  BY <1>1, <4>1
      <4> QED  BY <1>1, <4>1, <4>2 DEF Nz, Range
    <3> QED  BY <3>1, <3>2
  <2>2. CASE i \in 1 .. n /\ j \in 1 .. n
    <3>1. r[i] = p[i] /\ r[j] = p[j]  BY <1>1, <2>2
    <3> QED  BY <1>1, <1>5, <2>2, <3>1 DEF Once
  <2>3. CASE i - n \in 1 .. Len(q) /\ j - n \in 1 .. Len(q)
    <3>1. i \in Int /\ j \in Int /\ n + (i - n) = i /\ n + (j - n) = j  BY <1>1
    <3>2. r[i] = q[i - n] /\ r[j] = q[j - n]  BY <1>1, <2>3, <3>1
    <3>3. i - n = j - n  BY <1>1, <1>5, <2>3, <3>2 DEF Once
    <3> QED  BY <1>1, <3>1, <3>3
  <2>4. CASE r[i] \in Nz(p) /\ r[j] \in Nz(q)  BY <1>5, <2>4
  <2>5. CASE r[i] \in Nz(q) /\ r[j] \in Nz(p)  BY <1>5, <2>5
  <2> QED  BY <2>1, <2>2, <2>3, <2>4, <2>5
<1> QED  BY <1>2, <1>3, <1>4, <1>5 DEF r

LEMMA OneNz ==
  ASSUME NEW h \in Nat
  PROVE  <<h>> \in Seq(Nat) /\ Nz(<<h>>) = {h} \ {0} /\ Once(<<h>>)
<1>1. DOMAIN <<h>> = {1} /\ <<h>>[1] = h  OBVIOUS
<1>2. Range(<<h>>) = {h}  BY <1>1 DEF Range
<1>3. Once(<<h>>)  BY <1>1 DEF Once
<1> QED  BY <1>2, <1>3 DEF Nz

LEMMA NoneNz == <<>> \in Seq(Nat) /\ Nz(<<>>) = {} /\ Once(<<>>)
BY DEF Nz, Once, Range

(* What the shell does with the lists. *)

\* The first event is taken; it goes nowhere, behind the foreground task, in the
\* chunk, or it ends the chunk, which runs.
LEMMA TakeFirst ==
  ASSUME NEW h \in Nat, NEW p \in Seq(Nat), NEW b, NEW l, NEW o, NEW c,
         Placed(<<h>> \o p, b, l, o, c)
  PROVE  /\ h = 0 => Placed(p, b, l, o, c)
         /\ Placed(p, b \o <<h>>, l, o, c)
         /\ Placed(p, b, l \o <<h>>, o, c)
         /\ Placed(p, b, <<>>, o \o (l \o <<h>>), c)
<1>1. /\ b \in Seq(Nat) /\ l \in Seq(Nat) /\ o \in Seq(Nat)
      /\ <<h>> \in Seq(Nat) /\ Nz(<<h>>) = {h} \ {0} /\ Once(<<h>>)
  BY OneNz DEF Placed
<1>2. l \o <<h>> \in Seq(Nat) /\ b \o <<h>> \in Seq(Nat) /\ o \o (l \o <<h>>) \in Seq(Nat)
  BY <1>1, CatAt, Zenon
<1>3. /\ Nz(<<h>> \o p) = ({h} \ {0}) \cup Nz(p)
      /\ Nz(b \o <<h>>) = Nz(b) \cup ({h} \ {0})
      /\ Nz(l \o <<h>>) = Nz(l) \cup ({h} \ {0})
      /\ Nz(o \o (l \o <<h>>)) = Nz(o) \cup Nz(l \o <<h>>)
  <2>1. Nz(<<h>> \o p) = Nz(<<h>>) \cup Nz(p)  BY <1>1, CatNz
  <2>2. Nz(b \o <<h>>) = Nz(b) \cup Nz(<<h>>)  BY <1>1, CatNz
  <2>3. Nz(l \o <<h>>) = Nz(l) \cup Nz(<<h>>)  BY <1>1, CatNz
  <2>4. Nz(o \o (l \o <<h>>)) = Nz(o) \cup Nz(l \o <<h>>)  BY <1>1, <1>2, CatNz
  <2> QED  BY <1>1, <2>1, <2>2, <2>3, <2>4
<1>4. /\ Once(<<h>> \o p) <=> Once(<<h>>) /\ Once(p) /\ Nz(<<h>>) \cap Nz(p) = {}
      /\ Once(b \o <<h>>) <=> Once(b) /\ Once(<<h>>) /\ Nz(b) \cap Nz(<<h>>) = {}
      /\ Once(l \o <<h>>) <=> Once(l) /\ Once(<<h>>) /\ Nz(l) \cap Nz(<<h>>) = {}
      /\ Once(o \o (l \o <<h>>)) <=> Once(o) /\ Once(l \o <<h>>) /\ Nz(o) \cap Nz(l \o <<h>>) = {}
  BY <1>1, <1>2, CatOnce
<1> DEFINE H == {h} \ {0}
<1>5. /\ Once(p) /\ Once(b) /\ Once(l) /\ Once(o)
      /\ Nz(p) \cap Nz(b) = {} /\ Nz(p) \cap Nz(l) = {} /\ Nz(p) \cap Nz(o) = {}
      /\ Nz(b) \cap Nz(l) = {} /\ Nz(b) \cap Nz(o) = {} /\ Nz(l) \cap Nz(o) = {}
      /\ H \cap Nz(p) = {} /\ H \cap Nz(b) = {} /\ H \cap Nz(l) = {} /\ H \cap Nz(o) = {}
      /\ H \cup Nz(p) \cup Nz(b) \cup Nz(l) \cup Nz(o) = 1 .. c
  BY <1>1, <1>3, <1>4 DEF Placed
<1>6. h = 0 => H = {}  OBVIOUS
<1> HIDE DEF H
<1>7. h = 0 => Placed(p, b, l, o, c)  BY <1>1, <1>5, <1>6 DEF Placed
<1>8. Nz(<<h>>) = H  BY <1>1 DEF H
<1>9. /\ Nz(b \o <<h>>) = Nz(b) \cup H /\ Nz(l \o <<h>>) = Nz(l) \cup H
      /\ Nz(o \o (l \o <<h>>)) = Nz(o) \cup Nz(l) \cup H
  BY <1>3 DEF H
<1>10. Once(b \o <<h>>) /\ Once(l \o <<h>>)  BY <1>1, <1>4, <1>5, <1>8
<1>11. Once(o \o (l \o <<h>>))  BY <1>4, <1>5, <1>9, <1>10
<1>12. Placed(p, b \o <<h>>, l, o, c)  BY <1>1, <1>2, <1>5, <1>9, <1>10 DEF Placed
<1>13. Placed(p, b, l \o <<h>>, o, c)  BY <1>1, <1>2, <1>5, <1>9, <1>10 DEF Placed
<1>14. Placed(p, b, <<>>, o \o (l \o <<h>>), c)
  BY <1>1, <1>2, <1>5, <1>9, <1>11, NoneNz DEF Placed
<1> QED  BY <1>7, <1>12, <1>13, <1>14

\* The lines that wait are sent again.
LEMMA SendAgain ==
  ASSUME NEW p, NEW b, NEW l, NEW o, NEW c, Placed(p, b, l, o, c)
  PROVE  Placed(p \o b, <<>>, l, o, c)
<1>1. p \in Seq(Nat) /\ b \in Seq(Nat)  BY DEF Placed
<1>2. p \o b \in Seq(Nat)  BY <1>1, CatAt, Zenon
<1>3. Nz(p \o b) = Nz(p) \cup Nz(b)  BY <1>1, CatNz
<1>4. Once(p \o b)  BY <1>1, CatOnce DEF Placed
<1> QED  BY <1>2, <1>3, <1>4, NoneNz DEF Placed

\* The lines of the chunk and those that wait are dropped.
LEMMA Drop_ ==
  ASSUME NEW p, NEW b, NEW l, NEW o, NEW c, Placed(p, b, l, o, c)
  PROVE  Placed(p, <<>>, <<>>, o \o l \o b, c)
<1>1. b \in Seq(Nat) /\ l \in Seq(Nat) /\ o \in Seq(Nat)  BY DEF Placed
<1>2. o \o l \in Seq(Nat) /\ o \o l \o b \in Seq(Nat)
  <2>1. o \o l \in Seq(Nat)  BY <1>1, CatAt, Zenon
  <2> QED  BY <1>1, <2>1, CatAt, Zenon
<1>3. Nz(o \o l) = Nz(o) \cup Nz(l)  BY <1>1, CatNz
<1>4. Nz(o \o l \o b) = Nz(o) \cup Nz(l) \cup Nz(b)
  <2>1. Nz(o \o l \o b) = Nz(o \o l) \cup Nz(b)  BY <1>1, <1>2, CatNz
  <2> QED  BY <1>3, <2>1
<1>5. Once(o \o l)  BY <1>1, CatOnce DEF Placed
<1>6. Once(o \o l \o b)
  <2>1. Once(o \o l \o b) <=> Once(o \o l) /\ Once(b) /\ Nz(o \o l) \cap Nz(b) = {}
    BY <1>1, <1>2, CatOnce
  <2> QED  BY <1>3, <1>5, <2>1 DEF Placed
<1> QED  BY <1>2, <1>4, <1>6, NoneNz DEF Placed

\* Lines come in; what else comes in is not one.
LEMMA ComeIn ==
  ASSUME NEW p, NEW b, NEW l, NEW o, NEW c \in Nat, Placed(p, b, l, o, c),
         NEW q \in Seq(Nat), NEW d \in Nat, c <= d, Once(q), Nz(q) = c + 1 .. d
  PROVE  Placed(p \o q, b, l, o, d)
<1>1. p \in Seq(Nat)  BY DEF Placed
<1>2. p \o q \in Seq(Nat)  BY <1>1, CatAt, Zenon
<1>3. Nz(p \o q) = Nz(p) \cup Nz(q)  BY <1>1, CatNz
<1>4. (1 .. c) \cap Nz(q) = {} /\ (1 .. c) \cup Nz(q) = 1 .. d  OBVIOUS
<1>5. Once(p \o q)
  <2>1. Nz(p) \cap Nz(q) = {}  BY <1>4 DEF Placed
  <2> QED  BY <1>1, <2>1, CatOnce DEF Placed
<1> DEFINE C == 1 .. c
           D == 1 .. d
<1>6. C \cap Nz(q) = {} /\ C \cup Nz(q) = D  BY <1>4
<1>7. Nz(p) \cup Nz(b) \cup Nz(l) \cup Nz(o) = C  BY DEF Placed
<1> HIDE DEF C, D
<1>8. /\ Nz(p \o q) \cap Nz(b) = {} /\ Nz(p \o q) \cap Nz(l) = {} /\ Nz(p \o q) \cap Nz(o) = {}
      /\ Nz(p \o q) \cup Nz(b) \cup Nz(l) \cup Nz(o) = D
  BY <1>3, <1>6, <1>7 DEF Placed
<1> QED  BY <1>2, <1>5, <1>8 DEF Placed, D

\* The last of the events are set aside behind a send; the ones set aside come back.
LEMMA SetAside ==
  ASSUME NEW p \in Seq(Nat), NEW q \in Seq(Nat), NEW b, NEW l, NEW o \in Seq(Nat), NEW c
  PROVE  Placed(p \o q, b, l, o, c) <=> Placed(p, b, l, q \o o, c)
<1>1. p \o q \in Seq(Nat) /\ q \o o \in Seq(Nat)
  <2>1. p \o q \in Seq(Nat)  BY CatAt, Zenon
  <2>2. q \o o \in Seq(Nat)  BY CatAt, Zenon
  <2> QED  BY <2>1, <2>2
<1>2. Nz(p \o q) = Nz(p) \cup Nz(q) /\ Nz(q \o o) = Nz(q) \cup Nz(o)
  <2>1. Nz(p \o q) = Nz(p) \cup Nz(q)  BY CatNz
  <2>2. Nz(q \o o) = Nz(q) \cup Nz(o)  BY CatNz
  <2> QED  BY <2>1, <2>2
<1>3. /\ Once(p \o q) <=> Once(p) /\ Once(q) /\ Nz(p) \cap Nz(q) = {}
      /\ Once(q \o o) <=> Once(q) /\ Once(o) /\ Nz(q) \cap Nz(o) = {}
  BY CatOnce
<1>4. ASSUME Placed(p \o q, b, l, o, c) PROVE Placed(p, b, l, q \o o, c)
  BY <1>1, <1>2, <1>3, <1>4 DEF Placed
<1>5. ASSUME Placed(p, b, l, q \o o, c) PROVE Placed(p \o q, b, l, o, c)
  BY <1>1, <1>2, <1>3, <1>5 DEF Placed
<1> QED  BY <1>4, <1>5

LEMMA CatThree ==
  ASSUME NEW p \in Seq(Nat), NEW q \in Seq(Nat), NEW r \in Seq(Nat)
  PROVE  (p \o q) \o r = p \o (q \o r) /\ p \o q \in Seq(Nat) /\ <<>> \o p = p
<1>1. (p \o q) \o r = p \o (q \o r)  BY ConcatAssociative, SMTT(40)
<1>2. p \o q \in Seq(Nat)  BY CatAt, Zenon
<1> QED  BY <1>1, <1>2

(* So LinesKept is that the lines are placed. *)
LEMMA PlacedKept ==
  ASSUME NEW p, NEW b, NEW l, NEW o, NEW c, Placed(p, b, l, o, c)
  PROVE  LET places == p \o b \o l \o o
         IN /\ Range(places) \ {0} = 1 .. c
            /\ \A i, j \in DOMAIN places : i # j /\ places[i] = places[j] => places[i] = 0
<1>1. p \in Seq(Nat) /\ b \in Seq(Nat) /\ l \in Seq(Nat) /\ o \in Seq(Nat)  BY DEF Placed
<1>2. p \o b \in Seq(Nat) /\ p \o b \o l \in Seq(Nat)
  <2>1. p \o b \in Seq(Nat)  BY <1>1, CatAt, Zenon
  <2> QED  BY <1>1, <2>1, CatAt, Zenon
<1>3. Nz(p \o b) = Nz(p) \cup Nz(b)  BY <1>1, CatNz
<1>4. Nz(p \o b \o l) = Nz(p \o b) \cup Nz(l)  BY <1>1, <1>2, CatNz
<1>5. Nz(p \o b \o l \o o) = Nz(p \o b \o l) \cup Nz(o)  BY <1>1, <1>2, CatNz
<1>6. Once(p \o b)  BY <1>1, CatOnce DEF Placed
<1>7. Once(p \o b \o l)
  <2>1. Nz(p \o b) \cap Nz(l) = {}  BY <1>3 DEF Placed
  <2> QED  BY <1>1, <1>2, <1>6, <2>1, CatOnce DEF Placed
<1>8. Once(p \o b \o l \o o)
  <2>1. Nz(p \o b \o l) \cap Nz(o) = {}  BY <1>3, <1>4 DEF Placed
  <2> QED  BY <1>1, <1>2, <1>7, <2>1, CatOnce DEF Placed
<1>9. Nz(p \o b \o l \o o) = 1 .. c  BY <1>3, <1>4, <1>5 DEF Placed
<1> QED  BY <1>8, <1>9 DEF Nz, Once

-----------------------------------------------------------------------------
(* Lists of events. *)

Numbered(q) == \E S : q \in Seq(S) /\ \A e \in S : e.id \in Nat

LEMMA NumberedNone == Numbered(<<>>) /\ LineIds(<<>>) = <<>> /\ Ids(<<>>) = <<>>
<1>1. <<>> \in Seq({}) /\ \A e \in {} : e.id \in Nat  OBVIOUS
<1>2. LineIds(<<>>) = <<>> /\ Ids(<<>>) = <<>>  BY DEF LineIds, Ids
<1> QED  BY <1>1, <1>2 DEF Numbered

LEMMA NumberedOne ==
  ASSUME NEW e, e.id \in Nat
  PROVE  /\ Numbered(<<e>>) /\ Ids(<<e>>) = <<e.id>>
         /\ LineIds(<<e>>) = <<IF e.ev = "line" THEN e.id ELSE 0>>
<1>1. <<e>> \in Seq({e}) /\ \A x \in {e} : x.id \in Nat  OBVIOUS
<1>2. Len(<<e>>) = 1 /\ 1 .. 1 = {1} /\ <<e>>[1] = e  OBVIOUS
<1>3. Ids(<<e>>) = [i \in {1} |-> e.id]  BY <1>2 DEF Ids
<1>4. LineIds(<<e>>) = [i \in {1} |-> IF e.ev = "line" THEN e.id ELSE 0]  BY <1>2 DEF LineIds
<1>5. \A x : [i \in {1} |-> x] = <<x>>  OBVIOUS
<1> QED  BY <1>1, <1>3, <1>4, <1>5 DEF Numbered

LEMMA NumberedIds ==
  ASSUME NEW q, Numbered(q)
  PROVE  /\ Len(q) \in Nat /\ DOMAIN q = 1 .. Len(q)
         /\ LineIds(q) \in Seq(Nat) /\ Len(LineIds(q)) = Len(q)
         /\ Ids(q) \in Seq(Nat) /\ Len(Ids(q)) = Len(q)
<1>1. PICK S : q \in Seq(S) /\ \A e \in S : e.id \in Nat  BY DEF Numbered
<1>2. Len(q) \in Nat /\ DOMAIN q = 1 .. Len(q) /\ \A i \in 1 .. Len(q) : q[i].id \in Nat
  BY <1>1
<1>3. LineIds(q) \in [1 .. Len(q) -> Nat] /\ Ids(q) \in [1 .. Len(q) -> Nat]
  BY <1>2 DEF LineIds, Ids
<1>4. \A f \in [1 .. Len(q) -> Nat] : f \in Seq(Nat) /\ Len(f) = Len(q)  BY <1>2
<1> QED  BY <1>2, <1>3, <1>4

LEMMA NumberedCat ==
  ASSUME NEW q, NEW r, Numbered(q), Numbered(r)
  PROVE  /\ Numbered(q \o r)
         /\ LineIds(q \o r) = LineIds(q) \o LineIds(r)
         /\ Ids(q \o r) = Ids(q) \o Ids(r)
<1>1. PICK S : q \in Seq(S) /\ \A e \in S : e.id \in Nat  BY DEF Numbered
<1>2. PICK T : r \in Seq(T) /\ \A e \in T : e.id \in Nat  BY DEF Numbered
<1> DEFINE U == S \cup T
           w == q \o r
<1>3. q \in Seq(U) /\ r \in Seq(U) /\ \A e \in U : e.id \in Nat  BY <1>1, <1>2
<1> HIDE DEF U
<1>4. /\ w \in Seq(U) /\ Len(w) = Len(q) + Len(r) /\ Len(q) \in Nat /\ Len(r) \in Nat
      /\ \A i \in 1 .. Len(q) : w[i] = q[i]
      /\ \A i \in 1 .. Len(r) : w[Len(q) + i] = r[i]
  BY <1>3, CatAt
<1>5. Numbered(w)  BY <1>3, <1>4 DEF Numbered
<1> HIDE DEF w
<1>6. ASSUME NEW p \in Seq(Nat), NEW a \in Seq(Nat), NEW b \in Seq(Nat),
             Len(p) = Len(w), Len(a) = Len(q), Len(b) = Len(r),
             \A i \in 1 .. Len(q) : p[i] = a[i],
             \A i \in 1 .. Len(r) : p[Len(q) + i] = b[i]
      PROVE  p = a \o b
  <2>1. /\ a \o b \in Seq(Nat) /\ Len(a \o b) = Len(q) + Len(r)
        /\ \A i \in 1 .. Len(q) : (a \o b)[i] = a[i]
        /\ \A i \in 1 .. Len(r) : (a \o b)[Len(q) + i] = b[i]
    <3>1. /\ a \o b \in Seq(Nat) /\ Len(a \o b) = Len(a) + Len(b)
          /\ \A i \in 1 .. Len(a) : (a \o b)[i] = a[i]
          /\ \A i \in 1 .. Len(b) : (a \o b)[Len(a) + i] = b[i]
      BY CatAt
    <3> QED  BY <1>6, <3>1
  <2>2. ASSUME NEW i \in 1 .. Len(q) + Len(r) PROVE p[i] = (a \o b)[i]
    <3>1. CASE i \in 1 .. Len(q)  BY <1>6, <2>1, <3>1
    <3>2. CASE i \notin 1 .. Len(q)
      <4>1. i - Len(q) \in 1 .. Len(r) /\ Len(q) + (i - Len(q)) = i  BY <1>4, <3>2
      <4> QED  BY <1>6, <2>1, <4>1
    <3> QED  BY <3>1, <3>2
  <2>3. DOMAIN p = 1 .. Len(q) + Len(r) /\ DOMAIN (a \o b) = 1 .. Len(q) + Len(r)
    BY <1>4, <1>6, <2>1
  <2> QED  BY <1>4, <1>6, <2>1, <2>2, <2>3, SeqEqual
<1>7. /\ LineIds(q) \in Seq(Nat) /\ Len(LineIds(q)) = Len(q)
      /\ LineIds(r) \in Seq(Nat) /\ Len(LineIds(r)) = Len(r)
      /\ LineIds(w) \in Seq(Nat) /\ Len(LineIds(w)) = Len(w)
      /\ Ids(q) \in Seq(Nat) /\ Len(Ids(q)) = Len(q)
      /\ Ids(r) \in Seq(Nat) /\ Len(Ids(r)) = Len(r)
      /\ Ids(w) \in Seq(Nat) /\ Len(Ids(w)) = Len(w)
  BY <1>5, NumberedIds
<1>8. \A i \in 1 .. Len(q) : i \in 1 .. Len(w)  BY <1>4
<1>9. \A i \in 1 .. Len(r) : Len(q) + i \in 1 .. Len(w)  BY <1>4
<1>10. LineIds(w) = LineIds(q) \o LineIds(r)
  <2>1. \A i \in 1 .. Len(q) : LineIds(w)[i] = LineIds(q)[i]  BY <1>4, <1>8 DEF LineIds
  <2>2. \A i \in 1 .. Len(r) : LineIds(w)[Len(q) + i] = LineIds(r)[i]
    BY <1>4, <1>9 DEF LineIds
  <2> QED  BY <1>6, <1>7, <2>1, <2>2
<1>11. Ids(w) = Ids(q) \o Ids(r)
  <2>1. \A i \in 1 .. Len(q) : Ids(w)[i] = Ids(q)[i]  BY <1>4, <1>8 DEF Ids
  <2>2. \A i \in 1 .. Len(r) : Ids(w)[Len(q) + i] = Ids(r)[i]  BY <1>4, <1>9 DEF Ids
  <2> QED  BY <1>6, <1>7, <2>1, <2>2
<1> QED  BY <1>5, <1>10, <1>11 DEF w

LEMMA NumberedSplit ==
  ASSUME NEW q, Numbered(q), q # <<>>
  PROVE  /\ q = <<Head(q)>> \o Tail(q) /\ Numbered(Tail(q)) /\ Head(q).id \in Nat
<1>1. PICK S : q \in Seq(S) /\ \A e \in S : e.id \in Nat  BY DEF Numbered
<1>2. Head(q) \in S /\ Tail(q) \in Seq(S) /\ q = <<Head(q)>> \o Tail(q)  BY <1>1
<1> QED  BY <1>1, <1>2 DEF Numbered

LEMMA NumberedAppend ==
  ASSUME NEW q, Numbered(q), NEW e, e.id \in Nat
  PROVE  Append(q, e) = q \o <<e>> /\ Numbered(Append(q, e))
<1>1. PICK S : q \in Seq(S) /\ \A x \in S : x.id \in Nat  BY DEF Numbered
<1> DEFINE U == S \cup {e}
<1>2. q \in Seq(U) /\ e \in U  BY <1>1
<1> HIDE DEF U
<1>3. Append(q, e) = q \o <<e>>  BY <1>2, AppendIsConcat
<1> QED  BY <1>3, NumberedOne, NumberedCat

-----------------------------------------------------------------------------
(* The interpreter only adds events, and numbers the lines it adds. *)

Octet == 0 .. 255
ReadBuffer == [rest : Seq(Octet), held : Seq(Octet), owned : BOOLEAN]
Fields == {"in", "line", "ti", "replies", "events", "count"}

State(s) == DOMAIN s = Fields /\ s.in \in ReadBuffer

\* u is s but for what the interpreter keeps for itself.
Same(s, u) == State(u) /\ u.events = s.events /\ u.count = s.count

\* u is s where events came.
Grown(s, u) ==
  /\ State(u) /\ u.count \in Nat /\ s.count <= u.count
  /\ \E new : /\ Numbered(new) /\ u.events = s.events \o new
              /\ Once(LineIds(new)) /\ Nz(LineIds(new)) = s.count + 1 .. u.count

LEMMA GrownSame ==
  ASSUME NEW s, NEW u, NEW v, Grown(s, u), Same(u, v)
  PROVE  Grown(s, v)
BY DEF Grown, Same

LEMMA GrownSelf ==
  ASSUME NEW s, NEW u, Same(s, u), s.count \in Nat, Numbered(s.events)
  PROVE  Grown(s, u)
<1>1. PICK S : s.events \in Seq(S)  BY DEF Numbered
<1>2. u.events = s.events \o <<>>  BY <1>1 DEF Same
<1>3. s.count + 1 .. s.count = {}  OBVIOUS
<1>4. Nz(LineIds(<<>>)) = s.count + 1 .. s.count /\ Once(LineIds(<<>>))
  BY <1>3, NumberedNone, NoneNz
<1>5. State(u) /\ u.count = s.count /\ u.count \in Nat /\ s.count <= u.count  BY DEF Same
<1> QED  BY <1>2, <1>4, <1>5, NumberedNone DEF Grown

LEMMA GrownSignal ==
  ASSUME NEW s, NEW u, s.count \in Nat, Numbered(s.events), Grown(s, u), NEW ev, NEW text
  PROVE  Grown(s, Signal(u, ev, text))
<1> DEFINE n == IF ev = "line" THEN u.count + 1 ELSE u.count
           e == [ev |-> ev, text |-> text, id |-> n]
           v == Signal(u, ev, text)
           x == IF e.ev = "line" THEN e.id ELSE 0
<1>1. n \in Nat /\ e.id = n /\ x \in Nat /\ x = IF ev = "line" THEN u.count + 1 ELSE 0
  BY DEF Grown
<1>2. State(v) /\ v.events = Append(u.events, e) /\ v.count = n
  BY DEF Signal, Grown, State, Fields
<1>3. PICK new : /\ Numbered(new) /\ u.events = s.events \o new
                 /\ Once(LineIds(new)) /\ Nz(LineIds(new)) = s.count + 1 .. u.count
  BY DEF Grown
<1> HIDE DEF v, e, n
<1>4. Numbered(<<e>>) /\ LineIds(<<e>>) = <<x>>  BY <1>1, NumberedOne
<1>5. Numbered(new \o <<e>>) /\ LineIds(new \o <<e>>) = LineIds(new) \o <<x>>
  BY <1>3, <1>4, NumberedCat
<1>6. v.events = s.events \o (new \o <<e>>)
  <2>1. Numbered(u.events)  BY <1>3, NumberedCat
  <2>2. Append(u.events, e) = u.events \o <<e>>  BY <1>1, <2>1, NumberedAppend
  <2>3. PICK S : s.events \in Seq(S)  BY DEF Numbered
  <2>4. PICK T : new \in Seq(T)  BY <1>3 DEF Numbered
  <2> DEFINE U == S \cup T \cup {e}
  <2>5. s.events \in Seq(U) /\ new \in Seq(U) /\ <<e>> \in Seq(U)  BY <2>3, <2>4
  <2> HIDE DEF U
  <2> DEFINE a == s.events
  <2>6. a \in Seq(U) /\ new \in Seq(U) /\ <<e>> \in Seq(U)  BY <2>5
  <2> HIDE DEF a
  <2>7. \A x1, x2, x3 \in Seq(U) : (x1 \o x2) \o x3 = x1 \o (x2 \o x3)
    BY ConcatAssociative, SMTT(40)
  <2>8. (a \o new) \o <<e>> = a \o (new \o <<e>>)  BY <2>6, <2>7, Zenon
  <2> QED  BY <1>2, <1>3, <2>2, <2>8 DEF a
<1>7. Once(LineIds(new) \o <<x>>) /\ Nz(LineIds(new) \o <<x>>) = s.count + 1 .. n
  <2>1. LineIds(new) \in Seq(Nat)  BY <1>3, NumberedIds
  <2>2. <<x>> \in Seq(Nat) /\ Nz(<<x>>) = {x} \ {0} /\ Once(<<x>>)  BY <1>1, OneNz
  <2>3. u.count \in Nat /\ s.count <= u.count  BY DEF Grown
  <2>4. (s.count + 1 .. u.count) \cap ({x} \ {0}) = {}  BY <1>1, <2>3
  <2>5. (s.count + 1 .. u.count) \cup ({x} \ {0}) = s.count + 1 .. n
    <3>1. CASE ev = "line"
      <4>1. x = u.count + 1 /\ n = u.count + 1  BY <1>1, <3>1 DEF n
      <4> QED  BY <2>3, <4>1
    <3>2. CASE ev # "line"
      <4>1. x = 0 /\ n = u.count  BY <1>1, <3>2 DEF n
      <4> QED  BY <2>3, <4>1
    <3> QED  BY <3>1, <3>2
  <2> HIDE DEF x
  <2>6. Once(LineIds(new) \o <<x>>)  BY <1>3, <2>1, <2>2, <2>4, CatOnce
  <2>7. Nz(LineIds(new) \o <<x>>) = Nz(LineIds(new)) \cup Nz(<<x>>)  BY <2>1, <2>2, CatNz
  <2> QED  BY <1>3, <2>2, <2>5, <2>6, <2>7
<1>8. n \in Nat /\ s.count <= n  BY <1>1 DEF n, Grown
<1> HIDE DEF x
<1> QED  BY <1>2, <1>5, <1>6, <1>7, <1>8 DEF Grown, v

(* How much is read. *)
LEMMA LexReads ==
  ASSUME NEW r \in Seq(Octet), r # <<>>
  PROVE  Lex(r).n \in Nat
<1>1. Len(r) \in Nat  OBVIOUS
<1>2. SizeLen(r) \in Nat
  <2> DEFINE skip(p) == IF p < Len(r) /\ r[p + 1] = IAC THEN p + 2 ELSE p + 1
  <2>1. \A p \in Nat : skip(p) \in Nat  OBVIOUS
  <2>2. skip(skip(skip(skip(3)))) \in Nat
    <3> HIDE DEF skip
    <3> QED  BY <2>1
  <2>3. SizeLen(r) = skip(skip(skip(skip(3)))) + 2  BY DEF SizeLen
  <2> HIDE DEF skip
  <2> QED  BY <2>2, <2>3
<1>3. Min({SizeLen(r), Len(r)}) \in Nat
  <2> DEFINE T == {SizeLen(r), Len(r)}
  <2>1. \E x \in T : \A y \in T : x <= y  BY <1>1, <1>2
  <2>2. Min(T) \in T  BY <2>1 DEF Min
  <2> QED  BY <1>1, <1>2, <2>2
<1> QED  BY <1>1, <1>3 DEF Lex

LEMMA DropOctets ==
  ASSUME NEW r \in Seq(Octet), NEW n \in Nat
  PROVE  Edit!Drop(r, n) \in Seq(Octet)
<1>1. Edit!Drop(r, n) = SubSeq(r, n + 1, Len(r))  BY DEF Edit!Drop
<1>2. Len(r) \in Nat  OBVIOUS
<1>3. CASE n < Len(r)
  <2>1. \A i \in n + 1 .. Len(r) : r[i] \in Octet  BY <1>2
  <2> QED  BY <1>1, <1>2, <1>3, <2>1, SubSeqProperties
<1>4. CASE n >= Len(r)
  <2>1. SubSeq(r, n + 1, Len(r)) = <<>>  BY <1>2, <1>4
  <2> QED  BY <1>1, <2>1
<1> QED  BY <1>2, <1>3, <1>4

LEMMA ReadSame ==
  ASSUME NEW u, State(u), NEW n \in Nat
  PROVE  Same(u, Read(u, n))
<1> DEFINE v == Read(u, n)
           d == Edit!Drop(u.in.rest, n)
<1>1. u.in.rest \in Seq(Octet) /\ DOMAIN u = Fields /\ u.in \in ReadBuffer
  BY DEF State, ReadBuffer
<1>2. d \in Seq(Octet)  BY <1>1, DropOctets
<1> HIDE DEF d
<1>3. v = [[u EXCEPT !.in.rest = d] EXCEPT !.in.held = <<>>]
  BY DEF Read, d
<1>4. DOMAIN v = Fields /\ v.events = u.events /\ v.count = u.count
  BY <1>1, <1>3 DEF Fields
<1>5. v.in = [[u.in EXCEPT !.rest = d] EXCEPT !.held = <<>>]
  BY <1>1, <1>3 DEF Fields
<1>6. v.in \in ReadBuffer
  <2>1. v.in = [rest |-> d, held |-> <<>>, owned |-> u.in.owned]
    BY <1>1, <1>5 DEF ReadBuffer
  <2>2. <<>> \in Seq(Octet) /\ u.in.owned \in BOOLEAN  BY <1>1 DEF ReadBuffer
  <2> QED  BY <1>2, <2>1, <2>2 DEF ReadBuffer
<1> QED  BY <1>4, <1>6 DEF Same, State

LEMMA HoldSame ==
  ASSUME NEW u, State(u)
  PROVE  Same(u, Hold(u))
<1> DEFINE v == Hold(u)
           d == u.in.rest
<1>1. u.in.rest \in Seq(Octet) /\ DOMAIN u = Fields /\ u.in \in ReadBuffer
  BY DEF State, ReadBuffer
<1>2. d \in Seq(Octet)  BY <1>1
<1> HIDE DEF d
<1>3. v = [[u EXCEPT !.in.held = d] EXCEPT !.in.rest = <<>>]
  BY DEF Hold, d
<1>4. DOMAIN v = Fields /\ v.events = u.events /\ v.count = u.count
  BY <1>1, <1>3 DEF Fields
<1>5. v.in = [[u.in EXCEPT !.held = d] EXCEPT !.rest = <<>>]
  BY <1>1, <1>3 DEF Fields
<1>6. v.in \in ReadBuffer
  <2>1. v.in = [rest |-> <<>>, held |-> d, owned |-> u.in.owned]
    BY <1>1, <1>5 DEF ReadBuffer
  <2>2. <<>> \in Seq(Octet) /\ u.in.owned \in BOOLEAN  BY <1>1 DEF ReadBuffer
  <2> QED  BY <1>2, <2>1, <2>2 DEF ReadBuffer
<1> QED  BY <1>4, <1>6 DEF Same, State

LEMMA OthersSame ==
  ASSUME NEW u, State(u), NEW x
  PROVE  /\ Same(u, [u EXCEPT !.line = x]) /\ Same(u, [u EXCEPT !.ti = x])
         /\ Same(u, Store(u, x)) /\ Same(u, Reply(u, x))
         /\ x \in ReadBuffer => Same(u, [u EXCEPT !.in = x])
BY DEF Same, State, Fields, Store, Reply

(* One turn of the loop of the line mode.                                  *)
LEMMA LineTurnGrown ==
  ASSUME NEW s, s.count \in Nat, Numbered(s.events), NEW u, Grown(s, u), NEW l, l.n \in Nat
  PROVE  Grown(s, LineTurn(u, l).s)
<1> DEFINE R == Read(u, l.n)
           Q == Read(u, 2)
           v == LineTurn(u, l).s
<1>1. Grown(s, R) /\ Grown(s, Q) /\ Grown(s, Hold(u))
  <2>1. State(u)  BY DEF Grown
  <2>2. Same(u, R) /\ Same(u, Q) /\ Same(u, Hold(u))  BY <2>1, ReadSame, HoldSame
  <2> HIDE DEF R, Q
  <2> QED  BY <2>2, GrownSame
<1> HIDE DEF R, Q
<1>2. ASSUME NEW t, Grown(s, t), NEW x
      PROVE  /\ Grown(s, Store(t, x)) /\ Grown(s, Reply(t, x))
             /\ Grown(s, LineControl(t, x)) /\ Grown(s, EndOfLine(t))
  <2>1. State(t)  BY <1>2 DEF Grown
  <2>2. Same(t, Store(t, x)) /\ Same(t, Reply(t, x)) /\ Same(t, [t EXCEPT !.line = <<>>])
    BY <2>1, OthersSame
  <2>3. Grown(s, Store(t, x)) /\ Grown(s, Reply(t, x)) /\ Grown(s, [t EXCEPT !.line = <<>>])
    BY <1>2, <2>2, GrownSame
  <2> QED  BY <2>3, GrownSignal DEF LineControl, EndOfLine
<1>3. \/ v \in {Hold(u), R, EndOfLine(R), EndOfLine(Q)}
      \/ \E x : v \in {Reply(R, x), Store(R, x), Store(Q, x), LineControl(R, x)}
  BY DEF LineTurn, R, Q
<1> HIDE DEF v
<1>4. Grown(s, v)  BY <1>1, <1>2, <1>3
<1> QED  BY <1>4 DEF v

(* One turn of the loop of the edit mode.                                  *)
LEMMA EditTurnGrown ==
  ASSUME NEW s, s.count \in Nat, Numbered(s.events), NEW u, Grown(s, u), NEW l, l.n \in Nat
  PROVE  Grown(s, EditTurn(u, l).s)
<1> DEFINE byte == ReaderByte(l)
           a == IF l.kind = "option" THEN ParseOption(u.in.rest[2], l.byte) ELSE <<>>
           next == Reply(Read(u, l.n), a)
           b == TeelByte(u.ti, byte)
           v == EditTurn(u, l).s
<1>1. Grown(s, next)
  <2> HIDE DEF a
  <2>1. State(u)  BY DEF Grown
  <2>2. Same(u, Read(u, l.n))  BY <2>1, ReadSame
  <2>3. Same(Read(u, l.n), next)  BY <2>2, OthersSame DEF Same
  <2> HIDE DEF next
  <2> QED  BY <2>2, <2>3, GrownSame
<1>2. v = IF byte < 0 THEN next
          ELSE IF b.cmd = "nop" THEN [next EXCEPT !.ti = b.ti] ELSE EditCommand(next, b)
  BY DEF EditTurn
<1> HIDE DEF next, b, byte, v
<1>3. ASSUME NEW x PROVE Grown(s, [next EXCEPT !.ti = x])
  <2>1. Same(next, [next EXCEPT !.ti = x])  BY <1>1, OthersSame DEF Grown
  <2> QED  BY <1>1, <2>1, GrownSame
<1>4. Grown(s, EditCommand(next, b))
  <2> DEFINE x == IF b.cmd = "line" THEN [b.ti EXCEPT !.previous = <<>>] ELSE b.ti
             y == IF b.cmd = "line" THEN b.ti.previous[1] ELSE <<>>
  <2>1. EditCommand(next, b) = Signal([next EXCEPT !.ti = x], b.cmd, y)  BY DEF EditCommand
  <2> HIDE DEF x, y
  <2> QED  BY <1>3, <2>1, GrownSignal
<1>5. Grown(s, v)  BY <1>1, <1>2, <1>3, <1>4
<1> QED  BY <1>5 DEF v

LEMMA KeepBuffer ==
  ASSUME NEW i \in ReadBuffer
  PROVE  Keep(i) \in ReadBuffer
<1>1. i.rest \in Seq(Octet) /\ i.held \in Seq(Octet) /\ i.owned \in BOOLEAN  BY DEF ReadBuffer
<1>2. i.held \o i.rest \in Seq(Octet)  BY <1>1
<1>3. <<>> \in Seq(Octet)  OBVIOUS
<1>4. [rest |-> i.held \o i.rest, held |-> <<>>, owned |-> TRUE] \in ReadBuffer
  BY <1>2, <1>3 DEF ReadBuffer
<1>5. [i EXCEPT !.owned = FALSE] \in ReadBuffer  BY DEF ReadBuffer
<1> QED  BY <1>4, <1>5 DEF Keep

LEMMA FeedBuffer ==
  ASSUME NEW i \in ReadBuffer, NEW x \in Seq(Octet)
  PROVE  Feed(i, x) \in ReadBuffer
<1>1. i.rest \in Seq(Octet) /\ i.held \in Seq(Octet) /\ i.owned \in BOOLEAN  BY DEF ReadBuffer
<1>2. i.rest \o x \in Seq(Octet)  BY <1>1
<1> QED  BY <1>1, <1>2 DEF Feed, ReadBuffer

LEMMA TurnGrown ==
  ASSUME NEW s, s.count \in Nat, Numbered(s.events), NEW t, Grown(s, t.s)
  PROVE  Grown(s, Turn(t).s)
<1> DEFINE rest == t.s.in.rest
           u == IF rest = <<>> THEN [s |-> t.s, done |-> TRUE]
                ELSE IF mode = "line" THEN LineTurn(t.s, Lex(rest)) ELSE EditTurn(t.s, Lex(rest))
           end == u.s.in.rest = <<>>
           v == [u.s EXCEPT !.in = Keep(@)]
<1>1. Grown(s, u.s)
  <2>1. CASE rest = <<>>  BY <2>1
  <2>2. CASE rest # <<>>
    <3>1. rest \in Seq(Octet)  BY DEF Grown, State, ReadBuffer
    <3>2. Lex(rest).n \in Nat  BY <2>2, <3>1, LexReads
    <3>3. Grown(s, LineTurn(t.s, Lex(rest)).s) /\ Grown(s, EditTurn(t.s, Lex(rest)).s)
      BY <3>2, LineTurnGrown, EditTurnGrown
    <3> QED  BY <2>2, <3>3
  <2> QED  BY <2>1, <2>2
<1>2. Turn(t) = IF t.done THEN t
                ELSE IF u.done \/ end THEN [s |-> v, done |-> end] ELSE u
  BY DEF Turn, AfterTurn, ModeTurn
<1> HIDE DEF u
<1>3. Grown(s, v)
  <2>1. State(u.s)  BY <1>1 DEF Grown
  <2>2. Keep(u.s.in) \in ReadBuffer  BY <2>1, KeepBuffer DEF State
  <2>3. v = [u.s EXCEPT !.in = Keep(u.s.in)]  BY <2>1 DEF State, Fields
  <2>4. Same(u.s, v)  BY <2>1, <2>2, <2>3, OthersSame
  <2> QED  BY <1>1, <2>4, GrownSame
<1> HIDE DEF v, end
<1> QED  BY <1>1, <1>2, <1>3

(* The turns exist: what Turns is defined by has a solution.               *)
LEMMA TurnByTurn ==
  ASSUME NEW s
  PROVE  /\ Turns(s)[0] = [s |-> s, done |-> FALSE]
         /\ \A n \in Nat : Turns(s)[n + 1] = Turn(Turns(s)[n])
<1> DEFINE x == [s |-> s, done |-> FALSE]
           Run(p, n) == p[0] = x /\ \A k \in 0 .. n - 1 : p[k + 1] = Turn(p[k])
           Turned(f) == f = [n \in Nat |-> IF n = 0 THEN x ELSE Turn(f[n - 1])]
<1> HIDE DEF x
<1>1. \A n \in Nat : \E p : Run(p, n)
  <2> DEFINE A == {n \in Nat : \E p : Run(p, n)}
  <2>1. 0 \in A
    <3> DEFINE p == [k \in 0 .. 0 |-> x]
    <3>1. Run(p, 0)  OBVIOUS
    <3> HIDE DEF p, Run
    <3>2. \E q : Run(q, 0)  BY <3>1
    <3> QED  BY <3>2
  <2>2. ASSUME NEW n \in Nat, n \in A PROVE n + 1 \in A
    <3>1. PICK p : Run(p, n)  BY <2>2
    <3> DEFINE q == [k \in 0 .. n + 1 |-> IF k = n + 1 THEN Turn(p[n]) ELSE p[k]]
    <3>2. \A k \in 0 .. n : k # n + 1 /\ k \in 0 .. n + 1 /\ q[k] = p[k]  OBVIOUS
    <3>3. q[n + 1] = Turn(p[n])  OBVIOUS
    <3>4. q[0] = x  BY <3>1, <3>2
    <3> HIDE DEF q
    <3>5. ASSUME NEW k \in 0 .. n PROVE q[k + 1] = Turn(q[k])
      <4>1. CASE k = n  BY <3>2, <3>3, <4>1
      <4>2. CASE k # n
        <5>1. k \in 0 .. n - 1 /\ k + 1 \in 0 .. n  BY <4>2
        <5> QED  BY <3>1, <3>2, <5>1
      <4> QED  BY <4>1, <4>2
    <3>6. Run(q, n + 1)
      <4>1. (n + 1) - 1 = n  OBVIOUS
      <4> QED  BY <3>4, <3>5, <4>1
    <3> HIDE DEF Run
    <3>7. \E p2 : Run(p2, n + 1)  BY <3>6
    <3> QED  BY <3>7
  <2> HIDE DEF A
  <2>3. \A n \in Nat : n \in A  BY <2>1, <2>2, Induct
  <2> QED  BY <2>3 DEF A
<1>2. ASSUME NEW n \in Nat, NEW m \in Nat, NEW p, NEW q, Run(p, n), Run(q, m)
      PROVE  \A k \in Nat : k <= n /\ k <= m => p[k] = q[k]
  <2> DEFINE A == {k \in Nat : k <= n /\ k <= m => p[k] = q[k]}
  <2>1. 0 \in A  BY <1>2
  <2>2. ASSUME NEW k \in Nat, k \in A PROVE k + 1 \in A
    <3> SUFFICES ASSUME k + 1 <= n, k + 1 <= m PROVE p[k + 1] = q[k + 1]  OBVIOUS
    <3>1. k \in 0 .. n - 1 /\ k \in 0 .. m - 1 /\ k <= n /\ k <= m  OBVIOUS
    <3> QED  BY <1>2, <2>2, <3>1
  <2> HIDE DEF A
  <2>3. \A k \in Nat : k \in A  BY <2>1, <2>2, Induct
  <2> QED  BY <2>3 DEF A
<1> DEFINE c(n) == CHOOSE p : Run(p, n)
           f == [n \in Nat |-> c(n)[n]]
<1>3. \A n \in Nat : Run(c(n), n)  BY <1>1
<1> HIDE DEF c
<1>4. ASSUME NEW n \in Nat PROVE f[n] = IF n = 0 THEN x ELSE Turn(f[n - 1])
  <2>1. CASE n = 0  BY <1>3, <2>1
  <2>2. CASE n # 0
    <3>1. n - 1 \in Nat /\ n - 1 \in 0 .. n - 1 /\ (n - 1) + 1 = n /\ n - 1 <= n  BY <2>2
    <3>2. c(n)[(n - 1) + 1] = Turn(c(n)[n - 1])  BY <1>3, <3>1
    <3>3. Run(c(n), n) /\ Run(c(n - 1), n - 1)  BY <1>3, <3>1
    <3> HIDE DEF Run
    <3>4. \A k \in Nat : k <= n /\ k <= n - 1 => c(n)[k] = c(n - 1)[k]  BY <1>2, <3>1, <3>3
    <3>5. c(n)[n - 1] = c(n - 1)[n - 1]  BY <3>1, <3>4
    <3> QED  BY <2>2, <3>1, <3>2, <3>5
  <2> QED  BY <2>1, <2>2
<1>5. Turned(f)
  <2> DEFINE h == [n \in Nat |-> IF n = 0 THEN x ELSE Turn(f[n - 1])]
  <2>1. DOMAIN f = Nat /\ DOMAIN h = Nat /\ \A n \in Nat : f[n] = h[n]  BY <1>4
  <2> QED  BY <2>1
<1>6. Turns(s) = CHOOSE e : Turned(e)  BY DEF Turns, x
<1> HIDE DEF f
<1>7. Turned(Turns(s))  BY <1>5, <1>6
<1>8. \A n \in Nat : n + 1 \in Nat /\ n + 1 # 0 /\ (n + 1) - 1 = n  OBVIOUS
<1> QED  BY <1>7, <1>8 DEF x

(* A call of the interpreter, turn by turn.                                *)
LEMMA FedState ==
  ASSUME NEW s, State(s), NEW x \in Seq(Octet)
  PROVE  /\ Same(s, Fed(s, x)) /\ Len(Fed(s, x).in.rest) + 1 \in Nat
         /\ \E i \in ReadBuffer : Fed(s, x) = [s EXCEPT !.in = i]
<1> DEFINE i == Feed(s.in, x)
<1>1. Fed(s, x) = [s EXCEPT !.in = i] /\ i \in ReadBuffer
  BY FeedBuffer DEF State, Fields, Fed
<1> HIDE DEF i
<1>2. Same(s, Fed(s, x))
  <2>1. Same(s, [s EXCEPT !.in = i])  BY <1>1, OthersSame
  <2> QED  BY <1>1, <2>1
<1>3. Fed(s, x).in.rest \in Seq(Octet)  BY <1>2 DEF Same, State, ReadBuffer
<1> QED  BY <1>1, <1>2, <1>3

LEMMA TurnsGrown ==
  ASSUME NEW s, State(s), s.count \in Nat, Numbered(s.events), NEW x \in Seq(Octet),
         NEW n \in Nat
  PROVE  Grown(s, Turns(Fed(s, x))[n].s)
<1> DEFINE fed == Fed(s, x)
           A == {k \in Nat : Grown(s, Turns(fed)[k].s)}
<1>1. Grown(s, fed)  BY FedState, GrownSelf
<1> HIDE DEF fed
<1>2. 0 \in A
  <2>1. Turns(fed)[0] = [s |-> fed, done |-> FALSE]  BY TurnByTurn
  <2> QED  BY <1>1, <2>1
<1>3. ASSUME NEW k \in Nat, k \in A PROVE k + 1 \in A
  <2>1. Turns(fed)[k + 1] = Turn(Turns(fed)[k])  BY TurnByTurn
  <2>2. Grown(s, Turn(Turns(fed)[k]).s)  BY <1>3, TurnGrown
  <2> QED  BY <2>1, <2>2
<1> HIDE DEF A
<1>4. \A k \in Nat : k \in A  BY <1>2, <1>3, Induct
<1> QED  BY <1>4 DEF A, fed

LEMMA GrownNumbered ==
  ASSUME NEW s, NEW u, Grown(s, u), Numbered(s.events)
  PROVE  State(u) /\ u.count \in Nat /\ Numbered(u.events)
BY NumberedCat DEF Grown

\* What a turn adds to the one before.
LEMMA OneTurnGrown ==
  ASSUME NEW s, State(s), s.count \in Nat, Numbered(s.events), NEW x \in Seq(Octet),
         NEW n \in Nat
  PROVE  Grown(Turns(Fed(s, x))[n].s, Turns(Fed(s, x))[n + 1].s)
<1> DEFINE t == Turns(Fed(s, x))[n]
<1>1. Grown(s, t.s)  BY TurnsGrown
<1>2. Turns(Fed(s, x))[n + 1] = Turn(t)  BY TurnByTurn
<1> HIDE DEF t
<1>3. State(t.s) /\ t.s.count \in Nat /\ Numbered(t.s.events)  BY <1>1, GrownNumbered
<1>4. Grown(t.s, t.s)  BY <1>3, GrownSelf DEF Same
<1>5. Grown(t.s, Turn(t).s)  BY <1>3, <1>4, TurnGrown
<1> QED  BY <1>2, <1>5 DEF t

\* Where interpret() ends: after all the turns, in v; or after one of them, in u, the
\* command of which is not signalled yet.
Ends(v, u, others) ==
  \/ /\ in' = v.in /\ line' = v.line /\ ti' = v.ti /\ count' = v.count
     /\ events' = v.events /\ sending' = others /\ open' = open
  \/ /\ in' = u.in /\ line' = u.line /\ ti' = u.ti /\ count' = u.count
     /\ events' = v.events /\ open' = (others = <<>>)
     /\ \E w : sending' = <<w>> \o others /\ w.taken = Edit!Drop(u.events, Len(v.events))

LEMMA Interprets ==
  ASSUME NEW by, NEW s, State(s), NEW x \in Seq(Octet), NEW others,
         interpret(by, s, x, others),
         \A n \in Nat : DOMAIN Turns(Fed(s, x))[n].s = Fields
  PROVE  \E n \in Nat : Ends(Turns(Fed(s, x))[n].s, Turns(Fed(s, x))[n + 1].s, others)
<1> DEFINE turn == Turns(Fed(s, x))
           last == Len(Fed(s, x).in.rest) + 1
<1>1. last \in Nat  BY FedState
<1>2. InTurns(by, turn, last, others)  BY DEF interpret
<1>3. \/ Becomes(turn[last].s) /\ sending' = others /\ open' = open
      \/ \E n \in 1 .. last :
           /\ Becomes([turn[n].s EXCEPT !.events = turn[n - 1].s.events])
           /\ open' = (others = <<>>)
           /\ sending' = <<[by |-> by, again |-> ~turn[n].done,
                            taken |-> Edit!Drop(turn[n].s.events, Len(turn[n - 1].s.events))]>>
                         \o others
  BY <1>2, Zenon DEF InTurns, SendWaits
<1>4. \A n \in Nat : DOMAIN turn[n].s = Fields  OBVIOUS
<1> HIDE DEF turn, last
<1>5. CASE Becomes(turn[last].s) /\ sending' = others /\ open' = open
  <2>1. Ends(turn[last].s, turn[last + 1].s, others)  BY <1>5 DEF Becomes, Ends
  <2> QED  BY <1>1, <2>1 DEF turn
<1>6. ASSUME NEW n \in 1 .. last,
             Becomes([turn[n].s EXCEPT !.events = turn[n - 1].s.events]),
             open' = (others = <<>>),
             sending' = <<[by |-> by, again |-> ~turn[n].done,
                           taken |-> Edit!Drop(turn[n].s.events, Len(turn[n - 1].s.events))]>>
                        \o others
      PROVE  \E m \in Nat : Ends(turn[m].s, turn[m + 1].s, others)
  <2>1. n - 1 \in Nat /\ (n - 1) + 1 = n /\ n \in Nat  BY <1>1
  <2> DEFINE u == turn[n].s
             v == turn[n - 1].s
             y == v.events
             w == [by |-> by, again |-> ~turn[n].done, taken |-> Edit!Drop(u.events, Len(y))]
  <2>2. DOMAIN u = Fields  BY <1>4, <2>1
  <2>3. Becomes([u EXCEPT !.events = y])  BY <1>6
  <2>4. sending' = <<w>> \o others /\ w.taken = Edit!Drop(u.events, Len(y))  BY <1>6
  <2> HIDE DEF u, w, v
  <2>5. /\ in' = u.in /\ line' = u.line /\ ti' = u.ti /\ count' = u.count /\ events' = y
    BY <2>2, <2>3 DEF Becomes, Fields
  <2>6. Ends(v, u, others)  BY <1>6, <2>4, <2>5 DEF Ends
  <2>7. Ends(turn[n - 1].s, turn[(n - 1) + 1].s, others)  BY <2>1, <2>6 DEF v, u
  <2> QED  BY <2>1, <2>7
<1> QED  BY <1>3, <1>5, <1>6, Zenon DEF turn

-----------------------------------------------------------------------------
(* The wire. *)

LEMMA FlatOctets ==
  ASSUME NEW w \in Seq(Seq(Octet))
  PROVE  FlattenSeq(w) \in Seq(Octet)
<1> DEFINE n == Len(w)
           B == Seq(Octet)
           Flat(f) == f = [i \in 1 .. n |-> IF i = 1 THEN w[i] ELSE f[i - 1] \o w[i]]
<1>1. n \in Nat /\ \A i \in 1 .. n : w[i] \in B  OBVIOUS
<1>2. \A a, b \in B : a \o b \in B  OBVIOUS
<1> HIDE DEF n, B
<1>3. CASE n = 0
  <2>1. FlattenSeq(w) = w /\ w = <<>>  BY <1>3 DEF FlattenSeq, n
  <2> QED  BY <2>1
<1>4. CASE n # 0
  <2> DEFINE g == [z \in Nat \X B |-> IF z[1] + 1 \in 1 .. n THEN z[2] \o w[z[1] + 1] ELSE z[2]]
             x == w[1]
  <2>1. x \in B  BY <1>1, <1>4
  <2>2. \A m \in Nat : \A y \in B :
          g[<<m, y>>] = IF m + 1 \in 1 .. n THEN y \o w[m + 1] ELSE y
    OBVIOUS
  <2>3. \A m \in Nat : \A y \in B : g[<<m, y>>] \in B  BY <1>1, <1>2, <2>2
  <2> HIDE DEF g, x
  <2>4. PICK h : h = [m \in Nat |-> IF m = 0 THEN x ELSE g[<<m, h[m - 1]>>]] /\ h \in [Nat -> B]
    BY <2>1, <2>3, Iterate
  <2> DEFINE f == [i \in 1 .. n |-> h[i - 1]]
  <2>5. ASSUME NEW i \in 1 .. n
        PROVE  f[i] = IF i = 1 THEN w[i] ELSE f[i - 1] \o w[i]
    <3>1. CASE i = 1
      <4>1. h[0] = w[1]  BY <2>4 DEF x
      <4> QED  BY <3>1, <4>1
    <3>2. CASE i # 1
      <4>1. /\ i - 1 \in Nat /\ i - 1 # 0 /\ (i - 1) - 1 \in Nat
            /\ i - 1 \in 1 .. n /\ (i - 1) + 1 = i
        BY <1>1, <3>2
      <4>2. h[i - 1] = g[<<i - 1, h[(i - 1) - 1]>>] /\ h[(i - 1) - 1] \in B  BY <2>4, <4>1
      <4>3. h[i - 1] = h[(i - 1) - 1] \o w[i]  BY <2>2, <4>1, <4>2
      <4> QED  BY <3>2, <4>1, <4>3
    <3> QED  BY <3>1, <3>2
  <2>6. Flat(f)
    <3> DEFINE e == [i \in 1 .. n |-> IF i = 1 THEN w[i] ELSE f[i - 1] \o w[i]]
    <3>1. DOMAIN f = 1 .. n /\ DOMAIN e = 1 .. n /\ \A i \in 1 .. n : f[i] = e[i]  BY <2>5, SMTT(40)
    <3> QED  BY <3>1
  <2> DEFINE F == CHOOSE e : Flat(e)
  <2>7. Flat(F)
    <3> HIDE DEF f
    <3> QED  BY <2>6
  <2>8. FlattenSeq(w) = F[n]  BY <1>4 DEF FlattenSeq, n
  <2> HIDE DEF F
  <2> DEFINE C == {m \in Nat : m + 1 \in 1 .. n => F[m + 1] \in B}
  <2>9. 0 \in C
    <3>1. 1 \in 1 .. n => F[1] = w[1]  BY <2>7
    <3> QED  BY <1>1, <3>1
  <2>10. ASSUME NEW m \in Nat, m \in C PROVE m + 1 \in C
    <3> SUFFICES ASSUME (m + 1) + 1 \in 1 .. n PROVE F[(m + 1) + 1] \in B  OBVIOUS
    <3>1. m + 1 \in 1 .. n /\ (m + 1) + 1 # 1 /\ ((m + 1) + 1) - 1 = m + 1  BY <1>1
    <3>2. F[(m + 1) + 1] = F[m + 1] \o w[(m + 1) + 1]  BY <2>7, <3>1
    <3>3. F[m + 1] \in B  BY <2>10, <3>1
    <3> QED  BY <1>1, <1>2, <3>2, <3>3
  <2>11. n - 1 \in C
    <3> HIDE DEF C
    <3>1. \A m \in Nat : m \in C  BY <2>9, <2>10, Induct
    <3> QED  BY <1>1, <1>4, <3>1
  <2>12. F[n] \in B
    <3>1. n - 1 \in Nat /\ (n - 1) + 1 = n /\ n \in 1 .. n  BY <1>1, <1>4
    <3> QED  BY <2>11, <3>1
  <2> QED  BY <2>8, <2>12 DEF B
<1> QED  BY <1>3, <1>4

\* The bytes of the first k tokens of the wire.
LEMMA FirstBytes ==
  ASSUME wire \in Seq(Tokens), NEW k \in 0 .. Len(wire)
  PROVE  FlattenSeq([i \in 1 .. k |-> wire[i].bytes]) \in Seq(Octet)
<1> DEFINE w == [i \in 1 .. k |-> wire[i].bytes]
<1>1. Len(wire) \in Nat  OBVIOUS
<1>2. \A i \in 1 .. k : wire[i] \in Tokens  BY <1>1
<1>3. \A i \in 1 .. k : wire[i].bytes \in Seq(Octet)  BY <1>2, TelnetConstants DEF Octet
<1>4. w \in [1 .. k -> Seq(Octet)]  BY <1>3
<1>5. w \in Seq(Seq(Octet))  BY <1>1, <1>4
<1> QED  BY <1>5, FlatOctets

\* The largest of a set of naturals which holds 0 and is bounded.
LEMMA MaxOf ==
  ASSUME NEW m \in Nat, NEW T \in SUBSET (0 .. m), 0 \in T
  PROVE  Max(T) \in T /\ \A y \in T : Max(T) >= y
<1> DEFINE K == T \ {0}
<1>1. K \in SUBSET (1 .. m)  OBVIOUS
<1>2. \E x \in T : \A y \in T : x >= y
  <2>1. CASE K = {}
    <3>1. \A y \in T : y = 0  BY <2>1
    <3> QED  BY <3>1
  <2>2. CASE K # {}
    <3> HIDE DEF K
    <3>1. PICK x \in K : \A y \in K : y <= x  BY <1>1, <2>2, Largest
    <3>2. x \in T /\ x \in 1 .. m /\ \A y \in T : y = 0 \/ y \in K  BY <1>1, <3>1 DEF K
    <3>3. \A y \in T : x >= y  BY <1>1, <3>1, <3>2
    <3> QED  BY <3>2, <3>3
  <2> QED  BY <2>1, <2>2
<1> QED  BY <1>2 DEF Max

LEMMA CompletedRest ==
  ASSUME wire \in Seq(Tokens), got \in Nat, NEW n \in Nat
  PROVE  Completed(n) \in 0 .. Len(wire) /\ Rest(n) \in Nat
<1> DEFINE L(k) == Len(FlattenSeq([i \in 1 .. k |-> wire[i].bytes]))
           m == Len(wire)
           K == {k \in 1 .. m : got + n >= L(k)}
           T == {0} \cup K
<1>1. m \in Nat  OBVIOUS
<1>2. \A k \in 0 .. m : L(k) \in Nat
  <2>1. \A q \in Seq(Octet) : Len(q) \in Nat  OBVIOUS
  <2> QED  BY <2>1, FirstBytes
<1>3. L(0) = 0
  <2>1. [i \in 1 .. 0 |-> wire[i].bytes] = <<>>  OBVIOUS
  <2>2. FlattenSeq(<<>>) = <<>>  BY DEF FlattenSeq
  <2> QED  BY <2>1, <2>2
<1>4. Completed(n) = Max(T) /\ Rest(n) = got + n - L(Completed(n))  BY DEF Completed, Rest
<1> HIDE DEF L, m
<1>5. K \in SUBSET (1 .. m)  OBVIOUS
<1> HIDE DEF K
<1>6. T \in SUBSET (0 .. m) /\ 0 \in T  BY <1>1, <1>5
<1> HIDE DEF T
<1>7. Max(T) \in T  BY <1>1, <1>6, MaxOf
<1> DEFINE c == Completed(n)
<1>8. c = 0 \/ (c \in 1 .. m /\ got + n >= L(c))  BY <1>4, <1>7 DEF K, T
<1>9. Rest(n) = got + n - L(c)  BY <1>4
<1> HIDE DEF c
<1>10. c \in 0 .. m  BY <1>1, <1>8
<1>11. Rest(n) \in Nat  BY <1>1, <1>2, <1>3, <1>8, <1>9, <1>10
<1> QED  BY <1>10, <1>11 DEF c, m

-----------------------------------------------------------------------------
(* The shell. *)

(* The commands that wait behind a send. *)
TakenOf(q) == FlattenSeq([i \in 1 .. Len(q) |-> q[i].taken])

\* A send that waits, or none; two when the second one failed, and the shell ended.
Sends(q) == q = <<>> \/ \E w : q = <<w>> /\ Numbered(w.taken)
Held(q, o) ==
  Sends(q) \/ (~o /\ \E w, v : q = <<w, v>> /\ Numbered(w.taken) /\ Numbered(v.taken))

LEMMA FlatOne == ASSUME NEW x PROVE FlattenSeq(<<x>>) = x
<1> DEFINE Flat(f) == f = [i \in 1 .. 1 |-> IF i = 1 THEN x ELSE f[i - 1] \o <<x>>[i]]
           h == [i \in 1 .. 1 |-> x]
<1>1. Flat(h)
  <2> DEFINE g == [i \in 1 .. 1 |-> IF i = 1 THEN x ELSE h[i - 1] \o <<x>>[i]]
  <2>1. \A i \in 1 .. 1 : i = 1  OBVIOUS
  <2>2. \A i \in 1 .. 1 : g[i] = h[i]  BY <2>1
  <2>3. DOMAIN g = 1 .. 1 /\ DOMAIN h = 1 .. 1  OBVIOUS
  <2> QED  BY <2>2, <2>3
<1> DEFINE F == CHOOSE f : f = [i \in 1 .. 1 |-> IF i = 1 THEN <<x>>[i] ELSE f[i - 1] \o <<x>>[i]]
<1>2. \A f : Flat(f) <=> f = [i \in 1 .. 1 |-> IF i = 1 THEN <<x>>[i] ELSE f[i - 1] \o <<x>>[i]]
  <2>1. ASSUME NEW f
        PROVE [i \in 1 .. 1 |-> IF i = 1 THEN x ELSE f[i - 1] \o <<x>>[i]]
              = [i \in 1 .. 1 |-> IF i = 1 THEN <<x>>[i] ELSE f[i - 1] \o <<x>>[i]]
    OBVIOUS
  <2> QED  BY <2>1
<1>3. F = [i \in 1 .. 1 |-> IF i = 1 THEN <<x>>[i] ELSE F[i - 1] \o <<x>>[i]]  BY <1>1, <1>2, Zenon
<1>4. FlattenSeq(<<x>>) = F[1]  BY DEF FlattenSeq
<1> HIDE DEF F
<1>5. F[1] = <<x>>[1]  BY <1>3, SMTT(40)
<1> QED  BY <1>4, <1>5

LEMMA FlatTwo == ASSUME NEW x, NEW y PROVE FlattenSeq(<<x, y>>) = x \o y
<1> DEFINE w == <<x, y>>
           Flat(f) == f = [i \in 1 .. 2 |-> IF i = 1 THEN w[i] ELSE f[i - 1] \o w[i]]
           h == [i \in 1 .. 2 |-> IF i = 1 THEN x ELSE x \o y]
<1>1. Len(w) = 2 /\ w[1] = x /\ w[2] = y  OBVIOUS
<1>2. FlattenSeq(w) = (CHOOSE f : Flat(f))[2]  BY <1>1 DEF FlattenSeq
<1> HIDE DEF w
<1>3. Flat(h)
  <2> DEFINE g == [i \in 1 .. 2 |-> IF i = 1 THEN w[i] ELSE h[i - 1] \o w[i]]
  <2>1. h[1] = x /\ h[2] = x \o y  OBVIOUS
  <2>2. \A i \in 1 .. 2 : i = 1 \/ (i = 2 /\ i - 1 = 1)  OBVIOUS
  <2> HIDE DEF h
  <2>3. \A i \in 1 .. 2 : g[i] = h[i]  BY <1>1, <2>1, <2>2
  <2>4. DOMAIN g = 1 .. 2 /\ DOMAIN h = 1 .. 2  BY DEF h
  <2>5. h = [i \in 1 .. 2 |-> h[i]]  BY DEF h
  <2> QED  BY <2>3, <2>4, <2>5
<1> DEFINE F == CHOOSE f : Flat(f)
<1>4. Flat(F)
  <2> HIDE DEF h
  <2> QED  BY <1>3
<1> HIDE DEF F
<1>5. F[1] = x /\ F[2] = F[1] \o y
  <2>1. 1 \in 1 .. 2 /\ 2 \in 1 .. 2 /\ 2 # 1 /\ 2 - 1 = 1  OBVIOUS
  <2> QED  BY <1>1, <1>4, <2>1
<1> QED  BY <1>2, <1>5 DEF F, w

LEMMA TakenBy ==
  /\ TakenOf(<<>>) = <<>>
  /\ \A w : TakenOf(<<w>>) = w.taken
  /\ \A w, v : TakenOf(<<w, v>>) = w.taken \o v.taken
<1>1. TakenOf(<<>>) = <<>>
  <2>1. [i \in 1 .. Len(<<>>) |-> <<>>[i].taken] = <<>>  OBVIOUS
  <2> QED  BY <2>1 DEF TakenOf, FlattenSeq
<1>2. ASSUME NEW w PROVE TakenOf(<<w>>) = w.taken
  <2>1. [i \in 1 .. Len(<<w>>) |-> <<w>>[i].taken] = <<w.taken>>  OBVIOUS
  <2> QED  BY <2>1, FlatOne DEF TakenOf
<1>3. ASSUME NEW w, NEW v PROVE TakenOf(<<w, v>>) = w.taken \o v.taken
  <2>1. [i \in 1 .. Len(<<w, v>>) |-> <<w, v>>[i].taken] = <<w.taken, v.taken>>  OBVIOUS
  <2> QED  BY <2>1, FlatTwo DEF TakenOf
<1> QED  BY <1>1, <1>2, <1>3

LEMMA TakenSends ==
  ASSUME NEW q, NEW o, Held(q, o)
  PROVE  Numbered(TakenOf(q)) /\ LineIds(TakenOf(q)) \in Seq(Nat)
<1>1. Numbered(TakenOf(q))
  <2>1. CASE q = <<>>  BY <2>1, TakenBy, NumberedNone
  <2>2. CASE \E w : q = <<w>> /\ Numbered(w.taken)  BY <2>2, TakenBy
  <2>3. CASE \E w, v : q = <<w, v>> /\ Numbered(w.taken) /\ Numbered(v.taken)
    <3>1. PICK w, v : q = <<w, v>> /\ Numbered(w.taken) /\ Numbered(v.taken)  BY <2>3
    <3>2. TakenOf(q) = w.taken \o v.taken  BY <3>1, TakenBy
    <3> QED  BY <3>1, <3>2, NumberedCat
  <2> QED  BY <2>1, <2>2, <2>3 DEF Held, Sends
<1> QED  BY <1>1, NumberedIds

\* A send that waits comes before the others.
LEMMA TakenThen ==
  ASSUME NEW q, Sends(q), NEW w, Numbered(w.taken)
  PROVE  /\ Held(<<w>> \o q, q = <<>>) /\ TakenOf(<<w>> \o q) = w.taken \o TakenOf(q)
         /\ LineIds(TakenOf(<<w>> \o q)) = LineIds(w.taken) \o LineIds(TakenOf(q))
<1>1. PICK E : w.taken \in Seq(E)  BY DEF Numbered
<1>2. CASE q = <<>>
  <2>1. <<w>> \o q = <<w>>  BY <1>2
  <2>2. TakenOf(<<w>> \o q) = w.taken /\ TakenOf(q) = <<>>  BY <1>2, <2>1, TakenBy
  <2>3. w.taken \o <<>> = w.taken  BY <1>1
  <2>4. LineIds(w.taken) \o <<>> = LineIds(w.taken)
    <3>1. LineIds(w.taken) \in Seq(Nat)  BY NumberedIds
    <3> QED  BY <3>1
  <2>5. LineIds(TakenOf(q)) = <<>>  BY <2>2, NumberedNone
  <2>6. Held(<<w>> \o q, q = <<>>)  BY <2>1 DEF Held, Sends
  <2> QED  BY <2>2, <2>3, <2>4, <2>5, <2>6
<1>3. CASE q # <<>>
  <2>1. PICK v : q = <<v>> /\ Numbered(v.taken)  BY <1>3 DEF Sends
  <2>2. <<w>> \o q = <<w, v>>
    <3> DEFINE S == {w, v}
               c == <<w>>
               d == <<v>>
               r == c \o d
               z == <<w, v>>
    <3>1. /\ c \in Seq(S) /\ d \in Seq(S) /\ z \in Seq(S) /\ Len(c) = 1 /\ Len(d) = 1
          /\ Len(z) = 2 /\ c[1] = w /\ d[1] = v /\ z[1] = w /\ z[2] = v
      OBVIOUS
    <3> HIDE DEF S, c, d, z
    <3>2. /\ r \in Seq(S) /\ Len(r) = Len(c) + Len(d)
          /\ \A i \in 1 .. Len(c) : r[i] = c[i]
          /\ \A i \in 1 .. Len(d) : r[Len(c) + i] = d[i]
      BY <3>1, CatAt
    <3> HIDE DEF r
    <3>3. Len(r) = 2 /\ r[1] = w /\ r[2] = v  BY <3>1, <3>2
    <3>4. \A i \in 1 .. 2 : r[i] = z[i]
      <4>1. \A i \in 1 .. 2 : i = 1 \/ i = 2  OBVIOUS
      <4> QED  BY <3>1, <3>3, <4>1
    <3>5. r = z  BY <3>1, <3>2, <3>3, <3>4, SeqEqual
    <3> QED  BY <2>1, <3>5 DEF r, c, d, z
  <2>3. TakenOf(<<w>> \o q) = w.taken \o v.taken /\ TakenOf(q) = v.taken  BY <2>1, <2>2, TakenBy
  <2>4. LineIds(w.taken \o v.taken) = LineIds(w.taken) \o LineIds(v.taken)  BY <2>1, NumberedCat
  <2>5. Held(<<w>> \o q, q = <<>>)  BY <1>3, <2>1, <2>2 DEF Held
  <2> QED  BY <2>3, <2>4, <2>5
<1> QED  BY <1>2, <1>3

\* The lines that wait behind a send, and those that are over.
Behind(q, o) == LineIds(TakenOf(q)) \o o

LEMMA BehindMore ==
  ASSUME NEW q, NEW b, Held(q, b), NEW o \in Seq(Nat), NEW r \in Seq(Nat)
  PROVE  Behind(q, o) \o r = Behind(q, o \o r) /\ o \o r \in Seq(Nat)
<1>1. LineIds(TakenOf(q)) \in Seq(Nat)  BY TakenSends
<1> QED  BY <1>1, CatThree, SMTT(40) DEF Behind

\* What holds of the lists, and where the lines are.
Kept ==
  /\ in \in ReadBuffer /\ count \in Nat
  /\ wire \in Seq(Tokens) /\ got \in Nat
  /\ Numbered(events) /\ Numbered(linebuf) /\ Numbered(lines)
  /\ LineIds(linebuf) = Ids(linebuf)
  /\ Held(sending, open) /\ over \in Seq(Nat)
  /\ Placed(LineIds(events), Ids(linebuf), Ids(lines), Behind(sending, over), count)

\* After a call of the interpreter, lines are where they were, are new events, or
\* wait behind its send.
LEMMA Called ==
  ASSUME NEW by, NEW s, State(s), s.count \in Nat, Numbered(s.events), NEW x \in Seq(Octet),
         NEW others, Sends(others), open, NEW b, NEW l, NEW o \in Seq(Nat),
         Placed(LineIds(s.events), b, l, Behind(others, o), s.count),
         interpret(by, s, x, others)
  PROVE  /\ in' \in ReadBuffer /\ count' \in Nat /\ Numbered(events') /\ Held(sending', open')
         /\ Placed(LineIds(events'), b, l, Behind(sending', o), count')
<1> DEFINE turn == Turns(Fed(s, x))
           a == Behind(others, o)
<1>1. \A n \in Nat : Grown(s, turn[n].s) /\ Grown(turn[n].s, turn[n + 1].s)
  BY TurnsGrown, OneTurnGrown
<1>2. \A n \in Nat : DOMAIN turn[n].s = Fields  BY <1>1 DEF Grown, State
<1>3. PICK n \in Nat : Ends(turn[n].s, turn[n + 1].s, others)  BY <1>2, Interprets
<1> DEFINE v == turn[n].s
           u == turn[n + 1].s
<1>4. Grown(s, v) /\ Grown(v, u)  BY <1>1
<1> HIDE DEF turn, v, u
<1>5. State(v) /\ v.count \in Nat /\ Numbered(v.events)  BY <1>4, GrownNumbered
<1>6. Placed(LineIds(v.events), b, l, a, v.count)
  <2>1. PICK new : /\ Numbered(new) /\ v.events = s.events \o new
                   /\ Once(LineIds(new)) /\ Nz(LineIds(new)) = s.count + 1 .. v.count
    BY <1>4 DEF Grown
  <2>2. LineIds(v.events) = LineIds(s.events) \o LineIds(new)  BY <2>1, NumberedCat
  <2>3. LineIds(new) \in Seq(Nat)  BY <2>1, NumberedIds
  <2>4. s.count <= v.count  BY <1>4 DEF Grown
  <2>5. Placed(LineIds(s.events), b, l, a, s.count)  OBVIOUS
  <2> HIDE DEF a
  <2>6. Placed(LineIds(s.events) \o LineIds(new), b, l, a, v.count)
    BY <1>5, <2>1, <2>3, <2>4, <2>5, ComeIn
  <2> QED  BY <2>2, <2>6
<1>7. CASE in' = v.in /\ count' = v.count /\ events' = v.events /\ sending' = others /\ open' = open
  <2>1. in' \in ReadBuffer /\ count' \in Nat /\ Numbered(events')  BY <1>5, <1>7 DEF State
  <2>2. Held(sending', open')  BY <1>7 DEF Held
  <2>3. Placed(LineIds(events'), b, l, Behind(sending', o), count')
    BY <1>6, <1>7 DEF a
  <2> QED  BY <2>1, <2>2, <2>3
<1>8. CASE /\ in' = u.in /\ count' = u.count /\ events' = v.events /\ open' = (others = <<>>)
           /\ \E w : sending' = <<w>> \o others /\ w.taken = Edit!Drop(u.events, Len(v.events))
  <2>1. PICK w : sending' = <<w>> \o others /\ w.taken = Edit!Drop(u.events, Len(v.events))
    BY <1>8
  <2>2. PICK new : /\ Numbered(new) /\ u.events = v.events \o new
                   /\ Once(LineIds(new)) /\ Nz(LineIds(new)) = v.count + 1 .. u.count
    BY <1>4 DEF Grown
  <2>3. State(u) /\ u.count \in Nat /\ v.count <= u.count  BY <1>4 DEF Grown
  <2>4. w.taken = new
    <3>1. PICK S : v.events \in Seq(S)  BY <1>5 DEF Numbered
    <3>2. PICK T : new \in Seq(T)  BY <2>2 DEF Numbered
    <3> DEFINE U == S \cup T
               p == v.events
    <3>3. p \in Seq(U) /\ new \in Seq(U)  BY <3>1, <3>2
    <3> HIDE DEF U, p
    <3>4. SubSeq(p \o new, Len(p) + 1, Len(p \o new)) = new
      <4>1. /\ p \o new \in Seq(U) /\ Len(p \o new) = Len(p) + Len(new)
            /\ Len(p) \in Nat /\ Len(new) \in Nat
            /\ \A i \in 1 .. Len(new) : (p \o new)[Len(p) + i] = new[i]
        BY <3>3, CatAt
      <4> DEFINE r == p \o new
                 z == SubSeq(r, Len(p) + 1, Len(r))
      <4>2. r \in Seq(U) /\ Len(r) = Len(p) + Len(new)
            /\ \A i \in 1 .. Len(new) : r[Len(p) + i] = new[i]
        BY <4>1
      <4> HIDE DEF r
      <4>3. z = [i \in 1 .. Len(new) |-> r[Len(p) + i]]
        BY <4>1, <4>2, SMTT(40) DEF z
      <4>4. new = [i \in 1 .. Len(new) |-> new[i]]  BY <3>3
      <4>5. z = new  BY <4>2, <4>3, <4>4
      <4> QED  BY <4>5 DEF r, z
    <3> QED  BY <2>1, <2>2, <3>4 DEF Edit!Drop, p
  <2>5. LineIds(v.events) \in Seq(Nat) /\ LineIds(new) \in Seq(Nat)  BY <1>5, <2>2, NumberedIds
  <2>6. LineIds(TakenOf(others)) \in Seq(Nat) /\ a \in Seq(Nat)
    <3>1. LineIds(TakenOf(others)) \in Seq(Nat)
      <4>1. Held(others, TRUE)  BY DEF Held
      <4> QED  BY <4>1, TakenSends
    <3>2. a \in Seq(Nat)  BY <3>1, CatThree DEF Behind
    <3> QED  BY <3>1, <3>2
  <2>7. Placed(LineIds(v.events) \o LineIds(new), b, l, a, u.count)
    <3> HIDE DEF a
    <3> QED  BY <1>5, <1>6, <2>2, <2>3, <2>5, ComeIn
  <2>8. Placed(LineIds(v.events), b, l, LineIds(new) \o a, u.count)
    <3> HIDE DEF a
    <3> QED  BY <2>5, <2>6, <2>7, SetAside
  <2>9. LineIds(TakenOf(sending')) = LineIds(new) \o LineIds(TakenOf(others))
        /\ Held(sending', others = <<>>)
    BY <2>1, <2>2, <2>4, TakenThen
  <2>10. LineIds(new) \o a = Behind(sending', o)
    <3> DEFINE c == LineIds(new)
               d == LineIds(TakenOf(others))
    <3>1. c \in Seq(Nat) /\ d \in Seq(Nat)  BY <2>5, <2>6
    <3>2. Behind(sending', o) = (c \o d) \o o /\ a = d \o o  BY <2>9 DEF Behind, a
    <3> HIDE DEF c, d, a
    <3>3. (c \o d) \o o = c \o (d \o o)  BY <3>1, CatThree, SMTT(40)
    <3> QED  BY <3>2, <3>3 DEF c
  <2>11. Held(sending', open')  BY <1>8, <2>9
  <2>12. in' \in ReadBuffer /\ count' \in Nat /\ Numbered(events')
    BY <1>5, <1>8, <2>3 DEF State
  <2> QED  BY <1>8, <2>8, <2>10, <2>11, <2>12
<1> QED  BY <1>3, <1>7, <1>8, Zenon DEF v, u, Ends

LEMMA InitKept == Init => Kept
<1> SUFFICES ASSUME Init PROVE Kept  OBVIOUS
<1> USE DEF Init, TelnetInit
<1>1. in \in ReadBuffer
  <2>1. <<>> \in Seq(Octet)  OBVIOUS
  <2> QED  BY <2>1 DEF ReadBuffer
<1>2. wire \in Seq(Tokens) /\ got \in Nat /\ count \in Nat  OBVIOUS
<1>3. /\ Numbered(events) /\ Numbered(linebuf) /\ Numbered(lines)
      /\ LineIds(events) = <<>> /\ Ids(linebuf) = <<>> /\ LineIds(linebuf) = <<>>
      /\ Ids(lines) = <<>> /\ over = <<>> /\ Held(sending, open)
  BY NumberedNone DEF Held, Sends
<1>4. 1 .. count = {}  OBVIOUS
<1>5. Placed(<<>>, <<>>, <<>>, <<>>, count)  BY <1>4, NoneNz DEF Placed
<1>6. Behind(sending, over) = <<>> /\ over \in Seq(Nat)
  BY TakenBy, NumberedNone DEF Behind
<1> QED  BY <1>1, <1>2, <1>3, <1>5, <1>6 DEF Kept

\* The state the interpreter works on, when a task ends and when an event is taken.
LEMMA NowState ==
  ASSUME in \in ReadBuffer
  PROVE  /\ State(Now) /\ Now.events = events /\ Now.count = count
         /\ \A q : LET s == [Now EXCEPT !.events = q]
                   IN State(s) /\ s.events = q /\ s.count = count /\ s.in = in
BY DEF State, Now, Fields

LEMMA SendKept == ASSUME Kept, NEW t \in Tokens, Send(t) PROVE Kept'
<1>1. wire' \in Seq(Tokens)  BY DEF Kept, Send, ClientSends
<1>2. UNCHANGED <<in, count, got, events, linebuf, lines, over, sending, open>>
  BY DEF Send, ClientSends, shellVars
<1> QED  BY <1>1, <1>2 DEF Kept, LineIds, Ids, Behind

LEMMA NoInput == <<>> \in Seq(Octet)
OBVIOUS

LEMMA ReceivedOctets ==
  ASSUME Kept, NEW n \in 1 .. 16, ReadLoop(n)
  PROVE  Chunk(n) \in Seq(Octet)
<1>1. wire \in Seq(Tokens) /\ got \in Nat /\ Len(wire) \in Nat  BY DEF Kept
<1>2. Bytes \in Seq(Octet)
  <2>1. Len(wire) \in 0 .. Len(wire)  BY <1>1
  <2> QED  BY <1>1, <2>1, FirstBytes DEF Bytes
<1>3. SubSeq(Bytes, got + 1, got + n) \in Seq(Octet)
  <2>1. n \in 1 .. Len(Bytes) - got  BY DEF ReadLoop, Receive
  <2>2. Len(Bytes) \in Nat /\ \A i \in 1 .. Len(Bytes) : Bytes[i] \in Octet  BY <1>2
  <2>3. \A i \in got + 1 .. got + n : Bytes[i] \in Octet  BY <1>1, <2>1, <2>2
  <2> QED  BY <1>1, <1>2, <2>3, SubSeqProperties, SMTT(40)
<1> QED  BY <1>3 DEF Chunk

LEMMA ReadLoopKept == ASSUME Kept, NEW n \in 1 .. 16, ReadLoop(n) PROVE Kept'
<1> DEFINE x == Chunk(n)
           c == Completed(n)
<1>1. wire \in Seq(Tokens) /\ got \in Nat /\ Len(wire) \in Nat  BY DEF Kept
<1>2. x \in Seq(Octet)  BY ReceivedOctets
<1>3. c \in 0 .. Len(wire) /\ Rest(n) \in Nat
  <2>1. n \in Nat  OBVIOUS
  <2> QED  BY <1>1, <2>1, CompletedRest
<1> HIDE DEF c
<1>4. wire' \in Seq(Tokens) /\ got' \in Nat
  <2>1. wire' = SubSeq(wire, c + 1, Len(wire)) /\ got' = Rest(n)
    BY DEF ReadLoop, Receive, Edit!Drop, c
  <2>2. SubSeq(wire, c + 1, Len(wire)) \in Seq(Tokens)
    <3>1. \A i \in c + 1 .. Len(wire) : wire[i] \in Tokens  BY <1>1, <1>3
    <3>2. CASE c < Len(wire)  BY <1>1, <1>3, <3>1, <3>2, SubSeqProperties
    <3>3. CASE c = Len(wire)  BY <1>1, <3>3
    <3> QED  BY <1>1, <1>3, <3>2, <3>3
  <2> QED  BY <1>3, <2>1, <2>2
<1>5. open /\ interpret("read", Now, x, sending) /\ UNCHANGED <<linebuf, lines, over>>
  BY DEF ReadLoop
<1> HIDE DEF x
<1>6. State(Now) /\ Now.events = events /\ Now.count = count  BY NowState DEF Kept
<1>7. Sends(sending)  BY <1>5 DEF Kept, Held
<1>8. /\ in' \in ReadBuffer /\ count' \in Nat /\ Numbered(events') /\ Held(sending', open')
      /\ Placed(LineIds(events'), Ids(linebuf), Ids(lines), Behind(sending', over), count')
  BY <1>2, <1>5, <1>6, <1>7, Called DEF Kept
<1> QED  BY <1>4, <1>5, <1>8 DEF Kept, Ids, LineIds, Behind

\* The send that waited is done.
LEMMA SendDoneKept == ASSUME Kept, SendDone PROVE Kept'
<1> DEFINE q == events \o Taken
           s == [Now EXCEPT !.events = q]
<1>1. /\ open /\ sending # <<>> /\ UNCHANGED <<wire, got, lines, linebuf, over>>
      /\ LET r == [Now EXCEPT !.events = @ \o Taken]
         IN \/ interpret(sending[1].by, r, <<>>, <<>>)
            \/ Becomes(r) /\ sending' = <<>> /\ UNCHANGED open
  BY Zenon DEF SendDone
<1>2. [Now EXCEPT !.events = @ \o Taken] = s  BY DEF Now
<1>3. Taken = TakenOf(sending)  BY DEF Taken, TakenOf
<1>4. Numbered(TakenOf(sending)) /\ LineIds(TakenOf(sending)) \in Seq(Nat)
  BY TakenSends DEF Kept
<1>5. Numbered(q) /\ LineIds(q) = LineIds(events) \o LineIds(TakenOf(sending))
  BY <1>3, <1>4, NumberedCat DEF Kept
<1> HIDE DEF q
<1>6. State(s) /\ s.events = q /\ s.count = count /\ s.in = in  BY NowState DEF Kept
<1> HIDE DEF s
<1>7. Placed(LineIds(q), Ids(linebuf), Ids(lines), over, count)
  <2>1. LineIds(events) \in Seq(Nat) /\ over \in Seq(Nat)  BY NumberedIds DEF Kept
  <2>2. Placed(LineIds(events), Ids(linebuf), Ids(lines), LineIds(TakenOf(sending)) \o over, count)
    BY DEF Kept, Behind
  <2> QED  BY <1>4, <1>5, <2>1, <2>2, SetAside
<1>8. Behind(<<>>, over) = over /\ Sends(<<>>) /\ \A o : Held(<<>>, o)
  <2>1. LineIds(TakenOf(<<>>)) = <<>>  BY TakenBy, NumberedNone
  <2>2. <<>> \o over = over  BY CatThree DEF Kept
  <2> QED  BY <2>1, <2>2 DEF Behind, Held, Sends
<1>9. /\ in' \in ReadBuffer /\ count' \in Nat /\ Numbered(events') /\ Held(sending', open')
      /\ Placed(LineIds(events'), Ids(linebuf), Ids(lines), Behind(sending', over), count')
  <2>1. CASE Becomes(s) /\ sending' = <<>>
    <3>1. in' = in /\ events' = q /\ count' = count  BY <1>6, <2>1 DEF Becomes
    <3> QED  BY <1>5, <1>7, <1>8, <2>1, <3>1 DEF Kept
  <2>2. CASE interpret(sending[1].by, s, <<>>, <<>>)
    <3>1. Placed(LineIds(s.events), Ids(linebuf), Ids(lines), Behind(<<>>, over), s.count)
      BY <1>6, <1>7, <1>8
    <3> QED  BY <1>1, <1>5, <1>6, <1>8, <2>2, <3>1, Called, NoInput DEF Kept
  <2> QED  BY <1>1, <1>2, <2>1, <2>2
<1> QED  BY <1>1, <1>9 DEF Kept, Ids, LineIds, Behind

(* The turn of the action loop: the first event is taken.                  *)
LEMMA FirstTaken ==
  ASSUME Kept, events # <<>>
  PROVE  LET e == Head(events)
             h == IF e.ev = "line" THEN e.id ELSE 0
         IN /\ e.id \in Nat /\ h \in Nat
            /\ State(Popped) /\ Popped.events = Tail(events) /\ Popped.count = count
            /\ Popped.in = in
            /\ Numbered(Tail(events)) /\ LineIds(Tail(events)) \in Seq(Nat)
            /\ Placed(<<h>> \o LineIds(Tail(events)), Ids(linebuf), Ids(lines), Behind(sending, over), count)
<1> DEFINE e == Head(events)
           h == IF e.ev = "line" THEN e.id ELSE 0
           q == Tail(events)
<1>1. events = <<e>> \o q /\ Numbered(q) /\ e.id \in Nat  BY NumberedSplit DEF Kept
<1> HIDE DEF e, q
<1>2. Numbered(<<e>>) /\ LineIds(<<e>>) = <<h>>  BY <1>1, NumberedOne
<1>3. LineIds(events) = <<h>> \o LineIds(q)  BY <1>1, <1>2, NumberedCat, ZenonT(60)
<1>4. LineIds(q) \in Seq(Nat) /\ h \in Nat  BY <1>1, NumberedIds
<1>5. Popped = [Now EXCEPT !.events = q]  BY DEF Popped, Now, q
<1>6. State(Popped) /\ Popped.events = q /\ Popped.count = count /\ Popped.in = in
  BY <1>5, NowState DEF Kept
<1>7. Placed(<<h>> \o LineIds(q), Ids(linebuf), Ids(lines), Behind(sending, over), count)
  BY <1>3 DEF Kept
<1> QED  BY <1>1, <1>4, <1>6, <1>7 DEF e, q

LEMMA LineWaitsKept == ASSUME Kept, ActionLoop(LineWaits) PROVE Kept'
<1> DEFINE e == Head(events)
           p == LineIds(Tail(events))
<1>1. /\ events # <<>> /\ e.ev = "line" /\ linebuf' = Append(linebuf, e) /\ Flush(Popped)
      /\ UNCHANGED <<lines, over>> /\ open
  BY DEF ActionLoop, LineWaits
<1>2. /\ e.id \in Nat /\ State(Popped) /\ Popped.events = Tail(events) /\ Popped.count = count
      /\ Numbered(Tail(events)) /\ p \in Seq(Nat)
      /\ Placed(<<e.id>> \o p, Ids(linebuf), Ids(lines), Behind(sending, over), count)
  BY <1>1, FirstTaken
<1> HIDE DEF e, p
<1>3. Numbered(linebuf') /\ linebuf' = linebuf \o <<e>>
  BY <1>1, <1>2, NumberedAppend DEF Kept
<1>4. Ids(linebuf \o <<e>>) = Ids(linebuf) \o <<e.id>>
      /\ LineIds(linebuf \o <<e>>) = LineIds(linebuf) \o <<e.id>>
  <2>1. Numbered(<<e>>) /\ Ids(<<e>>) = <<e.id>> /\ LineIds(<<e>>) = <<e.id>>
    BY <1>1, <1>2, NumberedOne
  <2>2. Numbered(linebuf)  BY DEF Kept
  <2>3. Ids(linebuf \o <<e>>) = Ids(linebuf) \o Ids(<<e>>)  BY <2>1, <2>2, NumberedCat
  <2>4. LineIds(linebuf \o <<e>>) = LineIds(linebuf) \o LineIds(<<e>>)
    BY <2>1, <2>2, NumberedCat
  <2> QED  BY <2>1, <2>3, <2>4
<1>5. Placed(p, Ids(linebuf) \o <<e.id>>, Ids(lines), Behind(sending, over), count)
  BY <1>2, TakeFirst
<1>6. /\ in' \in ReadBuffer /\ count' \in Nat /\ Numbered(events') /\ Held(sending', open')
      /\ Placed(LineIds(events'), Ids(linebuf) \o <<e.id>>, Ids(lines),
                Behind(sending', over), count')
  <2>1. Sends(sending)  BY <1>1 DEF Kept, Held
  <2> QED  BY <1>1, <1>2, <1>5, <2>1, Called, NoInput DEF Flush, p, Kept
<1>7. Ids(linebuf)' = Ids(linebuf) \o <<e.id>> /\ LineIds(linebuf)' = Ids(linebuf)'
  BY <1>3, <1>4 DEF Kept, Ids, LineIds
<1>8. UNCHANGED <<wire, got, lines, over>>  BY <1>1 DEF Flush
<1> QED  BY <1>3, <1>6, <1>7, <1>8 DEF Kept, Ids, Behind

LEMMA LineRunsKept ==
  ASSUME Kept, NEW outcome, LET Runs(e) == LineRuns(e, outcome) IN ActionLoop(Runs)
  PROVE  Kept'
<1> DEFINE e == Head(events)
           p == LineIds(Tail(events))
           chunk == Append(lines, e)
<1>1. /\ events # <<>> /\ e.ev = "line"
      /\ \/ lines' = chunk /\ Flush(Popped) /\ UNCHANGED over
         \/ /\ lines' = <<>> /\ over' = over \o Ids(chunk)
            /\ Flush(AddHistory_(Popped, Texts(chunk)))
      /\ UNCHANGED linebuf /\ open
  BY DEF ActionLoop, LineRuns
<1>2. /\ e.id \in Nat /\ State(Popped) /\ Popped.events = Tail(events) /\ Popped.count = count
      /\ Numbered(Tail(events)) /\ p \in Seq(Nat)
      /\ Placed(<<e.id>> \o p, Ids(linebuf), Ids(lines), Behind(sending, over), count)
  BY <1>1, FirstTaken
<1> HIDE DEF e, p
<1>3. Numbered(chunk) /\ chunk = lines \o <<e>>
  BY <1>1, <1>2, NumberedAppend DEF Kept
<1>4. Ids(chunk) = Ids(lines) \o <<e.id>>
  <2>1. Numbered(<<e>>) /\ Ids(<<e>>) = <<e.id>>  BY <1>2, NumberedOne
  <2> QED  BY <1>3, <2>1, NumberedCat, ZenonT(60) DEF Kept
<1> HIDE DEF chunk
<1>5. UNCHANGED <<wire, got>>  BY <1>1 DEF Flush
<1>6. UNCHANGED <<linebuf, Ids(linebuf), LineIds(linebuf)>>  BY <1>1 DEF Ids, LineIds
<1>7. Sends(sending) /\ Held(sending, open) /\ over \in Seq(Nat)  BY <1>1 DEF Kept, Held
<1>8. CASE lines' = chunk /\ Flush(Popped) /\ UNCHANGED over
  <2>1. Placed(p, Ids(linebuf), Ids(chunk), Behind(sending, over), count)
    BY <1>2, <1>4, TakeFirst
  <2>2. /\ in' \in ReadBuffer /\ count' \in Nat /\ Numbered(events') /\ Held(sending', open')
        /\ Placed(LineIds(events'), Ids(linebuf), Ids(chunk), Behind(sending', over), count')
    BY <1>1, <1>2, <1>8, <1>7, <2>1, Called, NoInput DEF Flush, p, Kept
  <2>3. Ids(lines)' = Ids(chunk)  BY <1>8 DEF Ids
  <2> QED  BY <1>3, <1>5, <1>6, <1>8, <1>7, <2>2, <2>3 DEF Kept, Behind
<1>9. CASE /\ lines' = <<>> /\ over' = over \o Ids(chunk)
           /\ Flush(AddHistory_(Popped, Texts(chunk)))
  <2> DEFINE s == AddHistory_(Popped, Texts(chunk))
  <2>1. State(s) /\ s.events = Tail(events) /\ s.count = count
    <3>1. \A x : Same(Popped, [Popped EXCEPT !.ti = x])  BY <1>2, OthersSame
    <3>2. s = Popped \/ \E x : s = [Popped EXCEPT !.ti = x]  BY <1>2 DEF AddHistory_, State, Fields
    <3> HIDE DEF s
    <3> QED  BY <1>2, <3>1, <3>2 DEF Same
  <2>2. Placed(p, Ids(linebuf), <<>>, Behind(sending, over'), count) /\ over' \in Seq(Nat)
    <3>1. Placed(p, Ids(linebuf), <<>>, Behind(sending, over) \o Ids(chunk), count)
      BY <1>2, <1>4, TakeFirst
    <3> DEFINE r == Ids(chunk)
    <3>2. r \in Seq(Nat)  BY <1>3, NumberedIds
    <3>3. over' = over \o r  BY <1>9
    <3> HIDE DEF r
    <3>4. Behind(sending, over) \o r = Behind(sending, over \o r) /\ over \o r \in Seq(Nat)
      BY <1>7, <3>2, BehindMore
    <3> QED  BY <3>1, <3>3, <3>4 DEF r
  <2> HIDE DEF s
  <2>3. interpret("actions", s, <<>>, sending)  BY <1>9 DEF s, Flush
  <2>4. /\ in' \in ReadBuffer /\ count' \in Nat /\ Numbered(events') /\ Held(sending', open')
        /\ Placed(LineIds(events'), Ids(linebuf), <<>>, Behind(sending', over'), count')
    BY <1>1, <1>2, <1>7, <2>1, <2>2, <2>3, Called, NoInput DEF p, Kept
  <2>5. Numbered(lines') /\ Ids(lines)' = <<>>  BY <1>9, NumberedNone DEF Ids
  <2> QED  BY <1>5, <1>6, <2>2, <2>4, <2>5 DEF Kept, Behind
<1> QED  BY <1>1, <1>8, <1>9

\* What is not a line goes nowhere.
LEMMA OtherTaken ==
  ASSUME Kept, events # <<>>, Head(events).ev # "line"
  PROVE  /\ State(Popped) /\ Popped.events = Tail(events) /\ Popped.count = count
         /\ Popped.in = in /\ Numbered(Tail(events))
         /\ Placed(LineIds(Tail(events)), Ids(linebuf), Ids(lines), Behind(sending, over), count)
<1> DEFINE p == LineIds(Tail(events))
<1>1. /\ State(Popped) /\ Popped.events = Tail(events) /\ Popped.count = count
      /\ Popped.in = in /\ Numbered(Tail(events)) /\ p \in Seq(Nat)
      /\ Placed(<<0>> \o p, Ids(linebuf), Ids(lines), Behind(sending, over), count)
  BY FirstTaken
<1> HIDE DEF p
<1>2. Placed(p, Ids(linebuf), Ids(lines), Behind(sending, over), count)  BY <1>1, TakeFirst
<1> QED  BY <1>1, <1>2 DEF p

LEMMA TaskDoneKept == ASSUME Kept, ActionLoop(TaskDone) PROVE Kept'
<1> DEFINE q == Tail(events) \o linebuf
           s == [Popped EXCEPT !.events = q]
<1>1. /\ events # <<>> /\ Head(events).ev # "line" /\ linebuf' = <<>>
      /\ interpret("actions", [Popped EXCEPT !.events = @ \o linebuf], <<>>, sending)
      /\ UNCHANGED <<lines, over, wire, got>> /\ open
  BY DEF ActionLoop, TaskDone, Flush
<1>2. /\ State(Popped) /\ Popped.events = Tail(events) /\ Popped.count = count
      /\ Numbered(Tail(events))
      /\ Placed(LineIds(Tail(events)), Ids(linebuf), Ids(lines), Behind(sending, over), count)
  BY <1>1, OtherTaken
<1>3. Numbered(linebuf) /\ LineIds(linebuf) = Ids(linebuf)  BY DEF Kept
<1>4. Numbered(q) /\ LineIds(q) = LineIds(Tail(events)) \o Ids(linebuf)
  BY <1>2, <1>3, NumberedCat
<1>5. Placed(LineIds(q), <<>>, Ids(lines), Behind(sending, over), count)  BY <1>2, <1>4, SendAgain
<1>6. [Popped EXCEPT !.events = @ \o linebuf] = s  BY <1>2 DEF State, Fields
<1> HIDE DEF q
<1>7. State(s) /\ s.events = q /\ s.count = count  BY <1>2 DEF State, Fields
<1> HIDE DEF s
<1>8. interpret("actions", s, <<>>, sending)  BY <1>1, <1>6
<1>9. /\ in' \in ReadBuffer /\ count' \in Nat /\ Numbered(events') /\ Held(sending', open')
      /\ Placed(LineIds(events'), <<>>, Ids(lines), Behind(sending', over), count')
  <2>1. Sends(sending)  BY <1>1 DEF Kept, Held
  <2> QED  BY <1>1, <1>4, <1>5, <1>7, <1>8, <2>1, Called, NoInput DEF Kept
<1>10. Numbered(linebuf') /\ Ids(linebuf)' = <<>> /\ LineIds(linebuf)' = <<>>
  BY <1>1, NumberedNone DEF Ids, LineIds
<1> QED  BY <1>1, <1>9, <1>10 DEF Kept, Ids, Behind

\* The lines of the chunk and those that wait are over; events s is interpreted.
LEMMA DroppedKept ==
  ASSUME Kept, DropLines, UNCHANGED <<wire, got>>, open,
         NEW s, State(s), s.count = count, Numbered(s.events),
         interpret("actions", s, <<>>, sending),
         Placed(LineIds(s.events), Ids(linebuf), Ids(lines), Behind(sending, over), count)
  PROVE  Kept'
<1>1. lines' = <<>> /\ linebuf' = <<>> /\ over' = over \o Ids(lines) \o Ids(linebuf)
  BY DEF DropLines
<1>2. Placed(LineIds(s.events), <<>>, <<>>, Behind(sending, over'), count) /\ over' \in Seq(Nat)
  <2> DEFINE B == Behind(sending, over)
             l == Ids(lines)
             b == Ids(linebuf)
  <2>1. Placed(LineIds(s.events), b, l, B, count)  OBVIOUS
  <2>2. l \in Seq(Nat) /\ b \in Seq(Nat) /\ over \in Seq(Nat) /\ Held(sending, open)
    BY NumberedIds DEF Kept
  <2>3. over' = over \o l \o b  BY <1>1
  <2>4. B \o l = Behind(sending, over \o l) /\ over \o l \in Seq(Nat)  BY <2>2, BehindMore
  <2>5. Behind(sending, over \o l) \o b = Behind(sending, over \o l \o b)
        /\ over \o l \o b \in Seq(Nat)
    BY <2>2, <2>4, BehindMore
  <2> HIDE DEF B, l, b
  <2>6. Placed(LineIds(s.events), <<>>, <<>>, B \o l \o b, count)  BY <2>1, Drop_
  <2> QED  BY <2>3, <2>4, <2>5, <2>6
<1>3. /\ in' \in ReadBuffer /\ count' \in Nat /\ Numbered(events') /\ Held(sending', open')
      /\ Placed(LineIds(events'), <<>>, <<>>, Behind(sending', over'), count')
  <2>1. Sends(sending)  BY DEF Kept, Held
  <2> QED  BY <1>2, <2>1, Called, NoInput DEF Kept
<1>4. /\ Numbered(linebuf') /\ Ids(linebuf)' = <<>> /\ LineIds(linebuf)' = <<>>
      /\ Numbered(lines') /\ Ids(lines)' = <<>>
  BY <1>1, NumberedNone DEF Ids, LineIds
<1> QED  BY <1>2, <1>3, <1>4 DEF Kept, Behind

\* The death of a task comes behind the other events.
LEMMA DeathComes ==
  ASSUME NEW q, Numbered(q)
  PROVE  /\ Numbered(Append(q, Done))
         /\ \A b, l, o, c : c \in Nat /\ Placed(LineIds(q), b, l, o, c)
                              => Placed(LineIds(Append(q, Done)), b, l, o, c)
<1>1. Done.id \in Nat /\ Done.ev # "line"  BY DEF Done
<1>2. Numbered(<<Done>>) /\ LineIds(<<Done>>) = <<0>>  BY <1>1, NumberedOne
<1>3. Append(q, Done) = q \o <<Done>> /\ Numbered(Append(q, Done))  BY <1>1, NumberedAppend
<1>4. LineIds(Append(q, Done)) = LineIds(q) \o <<0>>  BY <1>2, <1>3, NumberedCat
<1>5. ASSUME NEW b, NEW l, NEW o, NEW c \in Nat, Placed(LineIds(q), b, l, o, c)
      PROVE  Placed(LineIds(q) \o <<0>>, b, l, o, c)
  <2>1. <<0>> \in Seq(Nat) /\ Nz(<<0>>) = {} /\ Once(<<0>>)  BY OneNz
  <2>2. c + 1 .. c = {} /\ c <= c  OBVIOUS
  <2>3. Nz(<<0>>) = c + 1 .. c  BY <2>1, <2>2
  <2> QED  BY <1>5, <2>1, <2>2, <2>3, ComeIn
<1> QED  BY <1>3, <1>4, <1>5

LEMMA InterruptKept == ASSUME Kept, ActionLoop(Interrupt) PROVE Kept'
<1> DEFINE q == Append(Tail(events), Done)
           s == [Popped EXCEPT !.events = q]
<1>1. /\ events # <<>> /\ Head(events).ev # "line" /\ DropLines /\ UNCHANGED <<wire, got>>
      /\ interpret("actions", IF foreground THEN [Popped EXCEPT !.events = Append(@, Done)]
                              ELSE Popped, <<>>, sending)
      /\ open
  BY DEF ActionLoop, Interrupt, Flush
<1>2. /\ State(Popped) /\ Popped.events = Tail(events) /\ Popped.count = count
      /\ Numbered(Tail(events))
      /\ Placed(LineIds(Tail(events)), Ids(linebuf), Ids(lines), Behind(sending, over), count)
  BY <1>1, OtherTaken
<1>3. [Popped EXCEPT !.events = Append(@, Done)] = s  BY <1>2 DEF State, Fields
<1>4. Numbered(q) /\ Placed(LineIds(q), Ids(linebuf), Ids(lines), Behind(sending, over), count)
  BY <1>2, DeathComes DEF Kept
<1> HIDE DEF q
<1>5. State(s) /\ s.events = q /\ s.count = count  BY <1>2 DEF State, Fields
<1> HIDE DEF s
<1>6. CASE foreground
  <2>1. interpret("actions", s, <<>>, sending)  BY <1>1, <1>3, <1>6
  <2> QED  BY <1>1, <1>4, <1>5, <2>1, DroppedKept
<1>7. CASE ~foreground
  <2>1. interpret("actions", Popped, <<>>, sending)  BY <1>1, <1>7
  <2> QED  BY <1>1, <1>2, <2>1, DroppedKept
<1> QED  BY <1>6, <1>7

LEMMA SuspendKept == ASSUME Kept, ActionLoop(Suspend) PROVE Kept'
<1>1. /\ events # <<>> /\ Head(events).ev # "line" /\ DropLines /\ UNCHANGED <<wire, got>>
      /\ interpret("actions", Popped, <<>>, sending) /\ open
  BY DEF ActionLoop, Suspend, Flush
<1>2. /\ State(Popped) /\ Popped.events = Tail(events) /\ Popped.count = count
      /\ Numbered(Tail(events))
      /\ Placed(LineIds(Tail(events)), Ids(linebuf), Ids(lines), Behind(sending, over), count)
  BY <1>1, OtherTaken
<1> QED  BY <1>1, <1>2, DroppedKept

LEMMA CloseKept == ASSUME Kept, ActionLoop(Close) PROVE Kept'
<1>1. /\ events # <<>> /\ Head(events).ev # "line" /\ Becomes(Popped)
      /\ UNCHANGED <<wire, got, lines, linebuf, over, sending>> /\ open /\ ~open'
  BY DEF ActionLoop, Close
<1>2. /\ Popped.events = Tail(events) /\ Popped.count = count /\ Popped.in = in
      /\ Numbered(Tail(events))
      /\ Placed(LineIds(Tail(events)), Ids(linebuf), Ids(lines), Behind(sending, over), count)
  BY <1>1, OtherTaken
<1>3. events' = Tail(events) /\ count' = count /\ in' = in  BY <1>1, <1>2 DEF Becomes
<1>4. LineIds(events)' = LineIds(Tail(events))  BY <1>3 DEF LineIds
<1>5. Held(sending', open')  BY <1>1 DEF Kept, Held
<1> QED  BY <1>1, <1>2, <1>3, <1>4, <1>5 DEF Kept, Ids, LineIds, Behind

LEMMA TaskEndsKept == ASSUME Kept, TaskEnds PROVE Kept'
<1> DEFINE q == Append(events, Done)
<1>1. /\ Becomes([Now EXCEPT !.events = Append(@, Done)])
      /\ UNCHANGED <<wire, got, lines, linebuf, over, sending, open>>
  BY DEF TaskEnds
<1>2. [Now EXCEPT !.events = Append(@, Done)] = [Now EXCEPT !.events = q]  BY DEF Now
<1> HIDE DEF q
<1>3. events' = q /\ count' = count /\ in' = in
  BY <1>1, <1>2, NowState DEF Becomes, Kept
<1>4. Numbered(q) /\ Placed(LineIds(q), Ids(linebuf), Ids(lines), Behind(sending, over), count)
  BY DeathComes DEF Kept, q
<1>5. LineIds(events)' = LineIds(q)  BY <1>3 DEF LineIds
<1> QED  BY <1>1, <1>3, <1>4, <1>5 DEF Kept, Ids, LineIds, Behind

LEMMA NextKept == Kept /\ [Next]_vars => Kept'
<1> SUFFICES ASSUME Kept, [Next]_vars PROVE Kept'  OBVIOUS
<1>1. ASSUME NEW t \in Tokens, Send(t) PROVE Kept'  BY <1>1, SendKept
<1>2. ASSUME NEW n \in 1 .. 16, ReadLoop(n) PROVE Kept'  BY <1>2, ReadLoopKept
<1>3. CASE ActionLoop(LineWaits)  BY <1>3, LineWaitsKept
<1>4. ASSUME NEW o \in {"incomplete", "error", "runs", "background"},
             LET Runs(e) == LineRuns(e, o) IN ActionLoop(Runs)
      PROVE  Kept'
  BY <1>4, LineRunsKept DEF ActionLoop
<1>5. CASE ActionLoop(TaskDone)  BY <1>5, TaskDoneKept
<1>6. CASE ActionLoop(Interrupt)  BY <1>6, InterruptKept
<1>7. CASE ActionLoop(Suspend)  BY <1>7, SuspendKept
<1>8. CASE ActionLoop(Close)  BY <1>8, CloseKept
<1>9. CASE TaskEnds  BY <1>9, TaskEndsKept
<1>10. CASE UNCHANGED vars
  <2>1. UNCHANGED <<in, count, wire, got, events, linebuf, lines, over, sending, open>>
    BY <1>10 DEF vars, telnetVars, shellVars
  <2> QED  BY <2>1 DEF Kept, Ids, LineIds, Behind
<1>11. CASE SendDone  BY <1>11, SendDoneKept
<1> QED  BY <1>1, <1>2, <1>3, <1>4, <1>5, <1>6, <1>7, <1>8, <1>9, <1>10, <1>11 DEF Next

(* The lists hold what they should, and every line is in one of them.      *)
THEOREM ShellKept == Spec => []Kept
<1>1. Init => Kept  BY InitKept
<1>2. Kept /\ [Next]_vars => Kept'  BY NextKept
<1> QED  BY <1>1, <1>2, PTL DEF Spec

(* A line the client sent is an event, behind the foreground task, in a    *)
(* chunk, behind a send that waits, or done with: the interpreter and the  *)
(* shell lose none, and run none twice (telnet.lua, telnet.c).             *)
THEOREM LineInOnePlace == Spec => []LinesKept
<1>1. Kept => LinesKept
  <2> SUFFICES ASSUME Kept PROVE LinesKept  OBVIOUS
  <2> DEFINE p == LineIds(events)
             b == Ids(linebuf)
             l == Ids(lines)
             o == LineIds(Taken) \o over
  <2>1. Taken = TakenOf(sending)  BY DEF Taken, TakenOf
  <2>2. Placed(p, b, l, o, count)  BY <2>1 DEF Kept, Behind
  <2> HIDE DEF p, b, l, o
  <2>3. LET places == p \o b \o l \o o
        IN /\ Range(places) \ {0} = 1 .. count
           /\ \A i, j \in DOMAIN places : i # j /\ places[i] = places[j] => places[i] = 0
    BY <2>2, PlacedKept
  <2> QED  BY <2>3 DEF LinesKept, p, b, l, o
<1> QED  BY <1>1, ShellKept, PTL

-----------------------------------------------------------------------------
(* The history. *)

TeelFields == {"text", "cursor", "overwrite", "hist", "state", "choices", "previous",
               "pos", "cur", "temp"}
HistoryFields == {"list", "size", "widx", "idx", "saved"}

\* The ring has a place for each line it may hold, and the next line has one.
Ring(h) ==
  /\ DOMAIN h = HistoryFields /\ h.size \in Nat
  /\ h.size # 0 => h.widx \in 0 .. h.size - 1 /\ DOMAIN h.list = 0 .. h.size - 1

\* The same lines, whatever the user looks at.
SameLines(h, i) ==
  DOMAIN i = HistoryFields /\ i.list = h.list /\ i.size = h.size /\ i.widx = h.widx

\* What the keys do to the history.
SameTeel(t, u) == DOMAIN u = TeelFields /\ SameLines(t.hist, u.hist)

LEMMA SameEntries ==
  ASSUME NEW h, NEW i, SameLines(h, i)
  PROVE  /\ \A k : GetEntry(i, k) = GetEntry(h, k)
         /\ Depth(i) = Depth(h) /\ Entries(i) = Entries(h)
         /\ Ring(h) => Ring(i)
<1>1. \A k : GetEntry(i, k) = GetEntry(h, k)  BY DEF GetEntry, SameLines
<1>2. {k \in 0 .. i.size : \A j \in 1 .. k : GetEntry(i, j) # NoEntry}
      = {k \in 0 .. h.size : \A j \in 1 .. k : GetEntry(h, j) # NoEntry}
  BY <1>1 DEF SameLines
<1>3. Depth(i) = Depth(h)  BY <1>2 DEF Depth
<1>4. Entries(i) = Entries(h)  BY <1>1, <1>3 DEF Entries
<1>5. Ring(h) => Ring(i)  BY DEF Ring, SameLines
<1> QED  BY <1>1, <1>3, <1>4, <1>5

\* How far one can go back.
LEMMA DepthOf ==
  ASSUME NEW h, h.size \in Nat
  PROVE  /\ Depth(h) \in 0 .. h.size
         /\ \A k \in 1 .. Depth(h) : GetEntry(h, k) # NoEntry
         /\ Depth(h) = h.size \/ GetEntry(h, Depth(h) + 1) = NoEntry
<1> DEFINE T == {k \in 0 .. h.size : \A j \in 1 .. k : GetEntry(h, j) # NoEntry}
           d == Depth(h)
<1>1. T \in SUBSET (0 .. h.size) /\ 0 \in T  OBVIOUS
<1>2. d = Max(T)  BY DEF Depth
<1>3. d \in T /\ \A y \in T : d >= y
  <2> HIDE DEF T, d
  <2> QED  BY <1>1, <1>2, MaxOf
<1> HIDE DEF d
<1>4. d \in 0 .. h.size /\ \A k \in 1 .. d : GetEntry(h, k) # NoEntry  BY <1>3
<1>5. ASSUME d # h.size, GetEntry(h, d + 1) # NoEntry PROVE FALSE
  <2>1. d + 1 \in 0 .. h.size /\ ~(d >= d + 1)  BY <1>4, <1>5
  <2>2. \A j \in 1 .. d + 1 : j \in 1 .. d \/ j = d + 1  BY <1>4
  <2>3. \A j \in 1 .. d + 1 : GetEntry(h, j) # NoEntry  BY <1>4, <1>5, <2>2
  <2>4. d + 1 \in T  BY <2>1, <2>3
  <2> QED  BY <1>3, <2>1, <2>4
<1> QED  BY <1>4, <1>5 DEF d

(* A place of the ring, backwards from the next one.                       *)
LEMMA Back ==
  ASSUME NEW n \in Nat, n # 0, NEW w \in 0 .. n - 1, NEW k \in 1 .. n
  PROVE  /\ (w + n - k) % n = IF k <= w THEN w - k ELSE w + n - k
         /\ (w + 1) % n = IF w + 1 = n THEN 0 ELSE w + 1
<1>1. \A x \in 0 .. n - 1 : x % n = x  BY SMTT(40)
<1>2. \A x \in 0 .. n - 1 : (x + n) % n = x  BY SMTT(40)
<1>3. CASE k <= w
  <2>1. w - k \in 0 .. n - 1 /\ w + n - k = (w - k) + n  BY <1>3
  <2> QED  BY <1>2, <1>3, <2>1, SMTT(40)
<1>4. CASE k > w
  <2>1. w + n - k \in 0 .. n - 1  BY <1>4
  <2> QED  BY <1>1, <1>4, <2>1, SMTT(40)
<1> QED  BY <1>3, <1>4

(* A line that is new takes the place before those of the others, the oldest of *)
(* which is forgotten if the ring is full.                                 *)
LEMMA RingGrows ==
  ASSUME NEW h, Ring(h), NEW l
  PROVE  LET i == AddHistory(h, l)
         IN /\ Ring(i) /\ i.size = h.size
            /\ h.size = 0 \/ GetEntry(h, 1) = l => i = h
            /\ ~(h.size = 0 \/ GetEntry(h, 1) = l) =>
                 /\ GetEntry(i, 1) = l
                 /\ \A k \in 1 .. h.size - 1 : GetEntry(i, k + 1) = GetEntry(h, k)
<1> DEFINE n == h.size
           w == h.widx
           v == (w + 1) % n
           i == AddHistory(h, l)
<1>1. CASE n = 0 \/ GetEntry(h, 1) = l
  <2>1. i = h  BY <1>1 DEF AddHistory
  <2> QED  BY <1>1, <2>1
<1>2. CASE ~(n = 0 \/ GetEntry(h, 1) = l)
  <2>1. /\ n \in Nat /\ n # 0 /\ w \in 0 .. n - 1 /\ DOMAIN h.list = 0 .. n - 1
        /\ DOMAIN h = HistoryFields
    BY <1>2 DEF Ring
  <2>2. i = [[h EXCEPT !.list[h.widx] = l] EXCEPT !.widx = (@ + 1) % h.size]
    BY <1>2 DEF AddHistory
  <2>3. /\ DOMAIN i = HistoryFields /\ i.size = n /\ i.widx = v
        /\ i.list = [h.list EXCEPT ![w] = l]
    BY <2>1, <2>2 DEF HistoryFields
  <2>4. v = IF w + 1 = n THEN 0 ELSE w + 1
    <3>1. 1 \in 1 .. n  BY <2>1
    <3> HIDE DEF n, w
    <3> QED  BY <2>1, <3>1, Back
  <2>5. v \in 0 .. n - 1  BY <2>1, <2>4
  <2> HIDE DEF i, v
  <2>6. Ring(i)  BY <2>1, <2>3, <2>5 DEF Ring
  <2>7. \A k \in 1 .. n : /\ GetEntry(i, k) = i.list[(v + n - k) % n]
                          /\ GetEntry(h, k) = h.list[(w + n - k) % n]
    BY <2>3 DEF GetEntry
  <2> HIDE DEF n, w
  <2>8. GetEntry(i, 1) = l
    <3>1. 1 \in 1 .. n  BY <2>1
    <3>2. (v + n - 1) % n = IF 1 <= v THEN v - 1 ELSE v + n - 1  BY <2>1, <2>5, <3>1, Back
    <3>3. (v + n - 1) % n = w  BY <2>1, <2>4, <3>2
    <3> QED  BY <2>1, <2>3, <2>7, <3>1, <3>3
  <2>9. ASSUME NEW k \in 1 .. n - 1 PROVE GetEntry(i, k + 1) = GetEntry(h, k)
    <3>1. k \in 1 .. n /\ k + 1 \in 1 .. n  BY <2>1
    <3>2. (w + n - k) % n = IF k <= w THEN w - k ELSE w + n - k  BY <2>1, <3>1, Back
    <3>3. (v + n - (k + 1)) % n = IF k + 1 <= v THEN v - (k + 1) ELSE v + n - (k + 1)
      BY <2>1, <2>5, <3>1, Back
    <3>4. (v + n - (k + 1)) % n = (w + n - k) % n  BY <2>1, <2>4, <3>1, <3>2, <3>3
    <3>5. (w + n - k) % n \in 0 .. n - 1 /\ (w + n - k) % n # w  BY <2>1, <3>1, <3>2
    <3> DEFINE x == (w + n - k) % n
    <3>6. GetEntry(i, k + 1) = i.list[x] /\ GetEntry(h, k) = h.list[x]
      BY <2>7, <3>1, <3>4
    <3> HIDE DEF x
    <3>7. x \in DOMAIN h.list /\ x # w  BY <2>1, <3>5 DEF x
    <3>8. i.list[x] = h.list[x]  BY <2>3, <3>7
    <3> QED  BY <3>6, <3>8
  <2> QED  BY <1>2, <2>3, <2>6, <2>8, <2>9 DEF n, i
<1> QED  BY <1>1, <1>2

(* So is its list of lines.                                                *)
LEMMA ListGrows ==
  ASSUME NEW h, Ring(h), NEW l, l # NoEntry
  PROVE  LET i == AddHistory(h, l)
             past == Entries(h)
             now == Entries(i)
         IN /\ Ring(i) /\ i.size = h.size
            /\ now # past => /\ Len(now) <= h.size
                             /\ now[1] # <<>> /\ (past # <<>> => now[1] # past[1])
                             /\ Tail(now) = Edit!Take(past, Min({Len(past), h.size - 1}))
<1> DEFINE i == AddHistory(h, l)
           n == h.size
           past == Entries(h)
           now == Entries(i)
           d == Depth(h)
           e == Depth(i)
<1>1. Ring(i) /\ i.size = n  BY RingGrows
<1>2. n \in Nat  BY DEF Ring
<1> SUFFICES ASSUME now # past
             PROVE  /\ Len(now) <= n
                    /\ now[1] # <<>> /\ (past # <<>> => now[1] # past[1])
                    /\ Tail(now) = Edit!Take(past, Min({Len(past), n - 1}))
  BY <1>1
<1>3. n # 0 /\ GetEntry(h, 1) # l
  <2>1. n = 0 \/ GetEntry(h, 1) = l => i = h  BY RingGrows
  <2> QED  BY <2>1
<1>4. GetEntry(i, 1) = l /\ \A k \in 1 .. n - 1 : GetEntry(i, k + 1) = GetEntry(h, k)
  BY <1>3, RingGrows
<1>5. /\ d \in 0 .. n /\ \A k \in 1 .. d : GetEntry(h, k) # NoEntry
      /\ d = n \/ GetEntry(h, d + 1) = NoEntry
  BY <1>2, DepthOf
<1>6. /\ e \in 0 .. n /\ \A k \in 1 .. e : GetEntry(i, k) # NoEntry
      /\ e = n \/ GetEntry(i, e + 1) = NoEntry
  BY <1>1, <1>2, DepthOf
<1>7. past = [k \in 1 .. d |-> GetEntry(h, k)] /\ now = [k \in 1 .. e |-> GetEntry(i, k)]
  BY DEF Entries
<1> HIDE DEF i, n, d, e, past, now
<1>8. e = IF d = n THEN n ELSE d + 1
  <2>1. e # 0  BY <1>2, <1>3, <1>4, <1>6
  <2>2. e - 1 \in 0 .. n - 1 /\ (e - 1) + 1 = e  BY <1>2, <1>6, <2>1
  <2>3. ASSUME e - 1 > d PROVE FALSE
    <3>1. d + 1 \in 1 .. n - 1 /\ (d + 1) + 1 \in 1 .. e /\ d # n  BY <1>2, <1>5, <2>2, <2>3
    <3>2. GetEntry(i, (d + 1) + 1) = NoEntry  BY <1>4, <1>5, <3>1
    <3> QED  BY <1>6, <3>1, <3>2
  <2>4. ASSUME e - 1 < d, e # n PROVE FALSE
    <3>1. e \in 1 .. d /\ e \in 1 .. n - 1  BY <1>2, <1>5, <1>6, <2>2, <2>4
    <3>2. GetEntry(i, e + 1) # NoEntry  BY <1>4, <1>5, <3>1
    <3> QED  BY <1>6, <2>4, <3>2
  <2> QED  BY <1>2, <1>5, <1>6, <2>2, <2>3, <2>4
<1> DEFINE m == IF d = n THEN n - 1 ELSE d
           V == {GetEntry(h, k) : k \in 1 .. n} \cup {GetEntry(i, k) : k \in 1 .. n}
<1>9. e = m + 1 /\ m \in 0 .. n - 1 /\ m <= d  BY <1>2, <1>3, <1>5, <1>8
<1>10. /\ past \in Seq(V) /\ now \in Seq(V) /\ Len(past) = d /\ Len(now) = e
  <2>1. past \in [1 .. d -> V] /\ now \in [1 .. e -> V]
    <3>1. \A k \in 1 .. d : k \in 1 .. n  BY <1>2, <1>5
    <3>2. \A k \in 1 .. e : k \in 1 .. n  BY <1>2, <1>6
    <3> QED  BY <1>7, <3>1, <3>2
  <2> HIDE DEF V
  <2>2. d \in Nat /\ e \in Nat  BY <1>5, <1>6
  <2> QED  BY <2>1, <2>2
<1> HIDE DEF V
<1>11. Min({Len(past), n - 1}) = m
  <2>1. Min({d, n - 1}) = m
    <3>1. m \in {d, n - 1} /\ \A y \in {d, n - 1} : m <= y /\ (y <= m => y = m)
      BY <1>2, <1>3, <1>5
    <3>2. \A x \in {d, n - 1} : (\A y \in {d, n - 1} : x <= y) => x = m  BY <3>1
    <3> HIDE DEF m
    <3> QED  BY <3>1, <3>2 DEF Min
  <2> QED  BY <1>10, <2>1
<1> HIDE DEF m
<1>12. now[1] = l /\ (past # <<>> => past[1] # l)
  <2>1. 1 \in 1 .. e  BY <1>2, <1>9
  <2>2. past # <<>> => 1 \in 1 .. d
    <3>1. d = 0 => past = <<>>  BY <1>7
    <3> QED  BY <1>5, <3>1
  <2>3. past # <<>> => past[1] = GetEntry(h, 1)  BY <1>7, <2>2
  <2> QED  BY <1>3, <1>4, <1>7, <2>1, <2>3
<1>13. Tail(now) = Edit!Take(past, m)
  <2>1. Edit!Take(past, m) = SubSeq(past, 1, m)  BY DEF Edit!Take
  <2>2. ASSUME NEW k \in 1 .. m PROVE now[k + 1] = past[k]
    <3>1. k + 1 \in 1 .. e /\ k \in 1 .. d /\ k \in 1 .. n - 1  BY <1>2, <1>5, <1>9
    <3>2. now[k + 1] = GetEntry(i, k + 1) /\ past[k] = GetEntry(h, k)  BY <1>7, <3>1
    <3> QED  BY <1>4, <3>1, <3>2
  <2>3. now # <<>> /\ m \in Nat  BY <1>2, <1>9, <1>10
  <2>4. /\ Tail(now) \in Seq(V) /\ Len(Tail(now)) = m
        /\ \A k \in 1 .. m : Tail(now)[k] = now[k + 1]
    BY <1>9, <1>10, <2>3
  <2>5. /\ SubSeq(past, 1, m) \in Seq(V) /\ Len(SubSeq(past, 1, m)) = m
        /\ \A k \in 1 .. m : SubSeq(past, 1, m)[k] = past[k]
    BY <1>5, <1>9, <1>10
  <2>6. \A k \in 1 .. m : Tail(now)[k] = SubSeq(past, 1, m)[k]  BY <2>2, <2>4, <2>5
  <2> QED  BY <2>1, <2>4, <2>5, <2>6, SeqEqual
<1>14. Len(now) <= n  BY <1>2, <1>6, <1>10
<1>15. now[1] # <<>>  BY <1>12 DEF NoEntry
<1> QED  BY <1>11, <1>12, <1>13, <1>14, <1>15

(* What the keys do: none changes a line of the history.                   *)
Teeled(t) == DOMAIN t = TeelFields /\ DOMAIN t.hist = HistoryFields

LEMMA TeelSelf ==
  ASSUME NEW t, Teeled(t)
  PROVE  SameTeel(t, t)
BY DEF Teeled, SameTeel, SameLines

LEMMA TeelThen ==
  ASSUME NEW t, NEW u, NEW v, SameTeel(t, u), Teeled(u) => SameTeel(u, v)
  PROVE  SameTeel(t, v) /\ Teeled(u) /\ Teeled(v)
BY DEF Teeled, SameTeel, SameLines

LEMMA TeelFieldSet ==
  ASSUME NEW t, Teeled(t), NEW x, NEW y
  PROVE  /\ SameTeel(t, [t EXCEPT !.state = x]) /\ SameTeel(t, [t EXCEPT !.choices = x])
         /\ SameTeel(t, [t EXCEPT !.previous = x]) /\ SameTeel(t, [t EXCEPT !.overwrite = x])
         /\ SameTeel(t, [t EXCEPT !.text = x, !.cursor = y])
         /\ SameTeel(t, [t EXCEPT !.state = x, !.choices = y])
BY DEF Teeled, SameTeel, SameLines, TeelFields

LEMMA TeelHistorySet ==
  ASSUME NEW t, Teeled(t), NEW x, NEW y
  PROVE  /\ SameTeel(t, [t EXCEPT !.hist.idx = x])
         /\ SameTeel(t, [t EXCEPT !.hist.idx = x, !.hist.saved = y])
         /\ SameTeel(t, [t EXCEPT !.hist = ResetContext(@)])
<1>1. SameTeel(t, [t EXCEPT !.hist.idx = x])
  BY DEF Teeled, SameTeel, SameLines, TeelFields, HistoryFields
<1> DEFINE u == [t EXCEPT !.hist.idx = x]
<1>2. SameTeel(u, [u EXCEPT !.hist.saved = y])
  <2>1. Teeled(u)  BY <1>1, TeelThen
  <2> HIDE DEF u
  <2> QED  BY <2>1 DEF Teeled, SameTeel, SameLines, TeelFields, HistoryFields
<1>3. SameTeel(t, [u EXCEPT !.hist.saved = y])  BY <1>1, <1>2, TeelThen
<1>4. SameTeel(t, [t EXCEPT !.hist = ResetContext(@)])
  BY DEF Teeled, SameTeel, SameLines, TeelFields, HistoryFields, ResetContext
<1> QED  BY <1>1, <1>3, <1>4

LEMMA TeelEdits ==
  ASSUME NEW t, Teeled(t), NEW x, NEW y
  PROVE  /\ SameTeel(t, Insert(t, x)) /\ SameTeel(t, Goto(t, x)) /\ SameTeel(t, Cut(t, x, y))
         /\ SameTeel(t, SetContent(t, x)) /\ SameTeel(t, SaveAndClear(t))
<1> USE DEF Teeled, SameTeel, SameLines, TeelFields
<1>1. SameTeel(t, Insert(t, x))  BY DEF Insert
<1>2. SameTeel(t, Goto(t, x))  BY DEF Goto
<1>3. SameTeel(t, Cut(t, x, y))  BY DEF Cut
<1>4. SameTeel(t, SetContent(t, x))  BY DEF SetContent
<1>5. SameTeel(t, SaveAndClear(t))  BY DEF SaveAndClear
<1> QED  BY <1>1, <1>2, <1>3, <1>4, <1>5

LEMMA TeelBrowses ==
  ASSUME NEW t, Teeled(t)
  PROVE  SameTeel(t, HistoryPrev(t)) /\ SameTeel(t, HistoryNext(t))
<1>1. SameTeel(t, HistoryPrev(t))
  <2> DEFINE pos == t.hist.idx + 1
             own == <<[text |-> t.text, cursor |-> t.cursor]>>
             e == GetEntry(t.hist, pos)
             u == [t EXCEPT !.hist.idx = pos, !.hist.saved = IF pos = 1 THEN own ELSE @]
  <2>1. HistoryPrev(t) = IF e = NoEntry THEN t ELSE SetContent(u, e)  BY DEF HistoryPrev
  <2>2. u = [t EXCEPT !.hist.idx = pos, !.hist.saved = IF pos = 1 THEN own ELSE t.hist.saved]
    BY DEF Teeled, TeelFields, HistoryFields
  <2> HIDE DEF pos, own, e
  <2>3. SameTeel(t, u)  BY <2>2, TeelHistorySet
  <2> HIDE DEF u
  <2>4. Teeled(u) => SameTeel(u, SetContent(u, e))  BY TeelEdits
  <2>5. SameTeel(t, SetContent(u, e))  BY <2>3, <2>4, TeelThen
  <2> QED  BY <2>1, <2>5, TeelSelf
<1>2. SameTeel(t, HistoryNext(t))
  <2> DEFINE pos == t.hist.idx - 1
             own == t.hist.saved[1]
             e == GetEntry(t.hist, pos)
             u == [t EXCEPT !.hist.idx = pos]
             v == [t EXCEPT !.hist = ResetContext(@)]
             w == SetContent(v, own.text)
  <2>1. HistoryNext(t) = IF pos < 0 THEN t
                         ELSE IF pos > 0 THEN SetContent(u, e) ELSE Goto(w, own.cursor)
    BY DEF HistoryNext
  <2> HIDE DEF pos, own, e
  <2>2. SameTeel(t, u) /\ SameTeel(t, v)  BY TeelHistorySet
  <2> HIDE DEF u, v
  <2>3. Teeled(u) => SameTeel(u, SetContent(u, e))  BY TeelEdits
  <2>4. SameTeel(t, SetContent(u, e))  BY <2>2, <2>3, TeelThen
  <2>5. Teeled(v) => SameTeel(v, w)  BY TeelEdits
  <2>6. SameTeel(t, w)  BY <2>2, <2>5, TeelThen
  <2> HIDE DEF w
  <2>7. Teeled(w) => SameTeel(w, Goto(w, own.cursor))  BY TeelEdits
  <2>8. SameTeel(t, Goto(w, own.cursor))  BY <2>6, <2>7, TeelThen
  <2> QED  BY <2>1, <2>4, <2>8, TeelSelf
<1> QED  BY <1>1, <1>2

LEMMA TeelCompletes ==
  ASSUME NEW t, Teeled(t)
  PROVE  SameTeel(t, AutoComplete(t))
<1> DEFINE tab == Proposals(Edit!Take(t.text, t.cursor))
           u == CompleteLine(t, tab[1])
           v == CompleteLine(t, CommonPart(tab))
           w == [v EXCEPT !.state = "COMPLETION_DISP", !.choices = TRUE]
<1>1. AutoComplete(t) = IF tab = <<>> THEN t
                        ELSE IF Len(tab) = 1 \/ t.choices THEN u ELSE w
  BY DEF AutoComplete
<1>2. \A name : SameTeel(t, CompleteLine(t, name))  BY TeelEdits DEF CompleteLine
<1>3. SameTeel(t, u) /\ SameTeel(t, v)  BY <1>2, SMTT(40)
<1> HIDE DEF tab, u, v
<1>4. Teeled(v) => SameTeel(v, w)  BY TeelFieldSet
<1> HIDE DEF w
<1>5. SameTeel(t, w)  BY <1>3, <1>4, TeelThen
<1> QED  BY <1>1, <1>3, <1>5, TeelSelf

LEMMA TeelActs ==
  ASSUME NEW t, Teeled(t), NEW key
  PROVE  SameTeel(t, Act(t, key))
<1> DEFINE a == Act(t, key)
           u == [t EXCEPT !.overwrite = FALSE]
           v == Insert(u, <<Break>>)
           w == [v EXCEPT !.overwrite = t.overwrite]
           p == [HistoryPrev(t) EXCEPT !.state = "HISTORY_BROWSE"]
           n == [HistoryNext(t) EXCEPT !.state = "HISTORY_BROWSE"]
<1>1. \/ \E x, y : a \in {Cut(t, x, y), Goto(t, x), [t EXCEPT !.overwrite = x]}
      \/ a \in {w, p, n, AutoComplete(t), SaveAndClear(t), t}
  <2>1. [t EXCEPT !.overwrite = ~@] = [t EXCEPT !.overwrite = ~t.overwrite]
    BY DEF Teeled, TeelFields
  <2> QED  BY <2>1 DEF Act
<1>2. SameTeel(t, w)
  <2>1. SameTeel(t, u)  BY TeelFieldSet
  <2> HIDE DEF u
  <2>2. Teeled(u) => SameTeel(u, v)  BY TeelEdits
  <2>3. SameTeel(t, v)  BY <2>1, <2>2, TeelThen, SMTT(40)
  <2> HIDE DEF v
  <2>4. Teeled(v) => SameTeel(v, w)  BY TeelFieldSet
  <2> QED  BY <2>3, <2>4, TeelThen
<1>3. SameTeel(t, p) /\ SameTeel(t, n)
  <2>1. SameTeel(t, HistoryPrev(t)) /\ SameTeel(t, HistoryNext(t))  BY TeelBrowses, SMTT(40)
  <2>2. Teeled(HistoryPrev(t)) => SameTeel(HistoryPrev(t), p)  BY TeelFieldSet
  <2>3. Teeled(HistoryNext(t)) => SameTeel(HistoryNext(t), n)  BY TeelFieldSet, ZenonT(60)
  <2> HIDE DEF p, n
  <2> QED  BY <2>1, <2>2, <2>3, TeelThen
<1>4. \A x, y : SameTeel(t, Cut(t, x, y)) /\ SameTeel(t, Goto(t, x))
                /\ SameTeel(t, [t EXCEPT !.overwrite = x])
  BY TeelEdits, TeelFieldSet
<1>5. SameTeel(t, AutoComplete(t)) /\ SameTeel(t, SaveAndClear(t)) /\ SameTeel(t, t)
  BY TeelCompletes, TeelEdits, TeelSelf
<1> HIDE DEF w, p, n, a
<1>6. SameTeel(t, a)  BY <1>1, <1>2, <1>3, <1>4, <1>5
<1> QED  BY <1>6 DEF a

LEMMA TeelChanges ==
  ASSUME NEW t, Teeled(t), NEW last
  PROVE  SameTeel(t, StateChanged(t, last))
<1>1. StateChanged(t, last) \in {t, [t EXCEPT !.previous = <<>>],
                                 [t EXCEPT !.hist = ResetContext(@)],
                                 [t EXCEPT !.choices = FALSE]}
  BY DEF StateChanged
<1>2. SameTeel(t, t)  BY TeelSelf
<1>3. SameTeel(t, [t EXCEPT !.hist = ResetContext(@)])  BY TeelHistorySet
<1>4. SameTeel(t, [t EXCEPT !.previous = <<>>]) /\ SameTeel(t, [t EXCEPT !.choices = FALSE])
  BY TeelFieldSet
<1> QED  BY <1>1, <1>2, <1>3, <1>4

LEMMA TeelByteKeeps ==
  ASSUME NEW t, Teeled(t), NEW raw
  PROVE  SameTeel(t, TeelByte(t, raw).ti)
<1> DEFINE byte == IF raw > 127 THEN Question ELSE raw
           temp == Append(t.temp, byte)
           ready == [t EXCEPT !.pos = 0, !.cur = 0, !.temp = <<>>]
           m == Match(t.cur, t.pos, byte)
           more == [t EXCEPT !.pos = @ + 1, !.cur = m.cur, !.temp = temp]
           key == map[Len(map) - m.cur][2]
           b == TeelByte(t, raw).ti
<1>1. b \in {Typed(ready, temp), more, Key(ready, key)}  BY DEF TeelByte
<1>2. SameTeel(t, ready) /\ SameTeel(t, more)
  BY DEF Teeled, SameTeel, SameLines, TeelFields
<1> HIDE DEF ready, more, temp, key, b
<1>3. Teeled(ready)  BY <1>2, TeelSelf, TeelThen
<1>4. SameTeel(t, Typed(ready, temp))
  <2> DEFINE u == Insert(ready, temp)
             v == [u EXCEPT !.state = "CHARACTER_INPUT"]
  <2>1. SameTeel(ready, u)  BY <1>3, TeelEdits, SMTT(40)
  <2> HIDE DEF u
  <2>2. Teeled(u) => SameTeel(u, v)  BY TeelFieldSet
  <2> HIDE DEF v
  <2>3. SameTeel(ready, v)  BY <2>1, <2>2, TeelThen
  <2>4. Teeled(v) => SameTeel(v, StateChanged(v, ready.state))  BY TeelChanges
  <2>5. SameTeel(ready, StateChanged(v, ready.state))  BY <2>3, <2>4, TeelThen
  <2> QED  BY <1>2, <2>5, TeelThen DEF Typed, u, v
<1>5. SameTeel(t, Key(ready, key))
  <2> DEFINE u == [ready EXCEPT !.state = "CHARACTER_INPUT"]
             v == Act(u, key)
  <2>1. SameTeel(ready, u)  BY <1>3, TeelFieldSet
  <2> HIDE DEF u
  <2>2. Teeled(u) => SameTeel(u, v)  BY TeelActs
  <2> HIDE DEF v
  <2>3. SameTeel(ready, v)  BY <2>1, <2>2, TeelThen
  <2>4. Teeled(v) => SameTeel(v, StateChanged(v, ready.state))  BY TeelChanges
  <2>5. SameTeel(ready, StateChanged(v, ready.state))  BY <2>3, <2>4, TeelThen
  <2> QED  BY <1>2, <2>5, TeelThen, SMTT(40) DEF Key, u, v
<1>6. SameTeel(t, b)  BY <1>1, <1>2, <1>4, <1>5
<1> QED  BY <1>6 DEF b

(* What the interpreter does: nor does it.                                 *)
Browsed(s, u) == DOMAIN u = Fields /\ SameTeel(s.ti, u.ti)

LEMMA BrowsedTeel ==
  ASSUME NEW s, NEW u, Browsed(s, u)
  PROVE  Teeled(u.ti) /\ DOMAIN u = Fields
BY DEF Browsed, SameTeel, SameLines, Teeled

\* What leaves `ti` alone.
LEMMA BrowsedOthers ==
  ASSUME NEW s, NEW u, Browsed(s, u), NEW x, NEW y
  PROVE  /\ Browsed(s, Read(u, x)) /\ Browsed(s, Hold(u)) /\ Browsed(s, Store(u, x))
         /\ Browsed(s, Reply(u, x)) /\ Browsed(s, LineControl(u, x)) /\ Browsed(s, EndOfLine(u))
         /\ Browsed(s, Signal(u, x, y)) /\ Browsed(s, [u EXCEPT !.in = x])
<1> USE DEF Browsed, Fields
<1>1. Browsed(s, Read(u, x)) /\ Browsed(s, Hold(u))  BY DEF Read, Hold
<1>2. Browsed(s, Store(u, x)) /\ Browsed(s, Reply(u, x))  BY DEF Store, Reply
<1>3. Browsed(s, LineControl(u, x)) /\ Browsed(s, EndOfLine(u))
  BY DEF LineControl, EndOfLine, Signal
<1>4. Browsed(s, Signal(u, x, y)) /\ Browsed(s, [u EXCEPT !.in = x])  BY DEF Signal
<1> QED  BY <1>1, <1>2, <1>3, <1>4

LEMMA BrowsedSet ==
  ASSUME NEW s, NEW u, Browsed(s, u), NEW x, SameTeel(u.ti, x)
  PROVE  Browsed(s, [u EXCEPT !.ti = x])
<1>1. SameTeel(s.ti, x)  BY TeelThen DEF Browsed
<1> QED  BY <1>1 DEF Browsed, Fields

LEMMA BrowsedLineTurn ==
  ASSUME NEW s, NEW u, Browsed(s, u), NEW l
  PROVE  Browsed(s, LineTurn(u, l).s)
<1> DEFINE R == Read(u, l.n)
           Q == Read(u, 2)
           v == LineTurn(u, l).s
<1>1. Browsed(s, R) /\ Browsed(s, Q) /\ Browsed(s, Hold(u))  BY BrowsedOthers
<1>2. \/ v \in {Hold(u), R, EndOfLine(R), EndOfLine(Q)}
      \/ \E x : v \in {Reply(R, x), Store(R, x), Store(Q, x), LineControl(R, x)}
  BY DEF LineTurn
<1> HIDE DEF R, Q, v
<1>3. ASSUME NEW t, Browsed(s, t), NEW x
      PROVE  /\ Browsed(s, Store(t, x)) /\ Browsed(s, Reply(t, x))
             /\ Browsed(s, LineControl(t, x)) /\ Browsed(s, EndOfLine(t))
  BY <1>3, BrowsedOthers
<1>4. Browsed(s, v)  BY <1>1, <1>2, <1>3
<1> QED  BY <1>4 DEF v

LEMMA BrowsedEditTurn ==
  ASSUME NEW s, NEW u, Browsed(s, u), NEW l
  PROVE  Browsed(s, EditTurn(u, l).s)
<1> DEFINE byte == ReaderByte(l)
           a == IF l.kind = "option" THEN ParseOption(u.in.rest[2], l.byte) ELSE <<>>
           R == Read(u, l.n)
           next == Reply(R, a)
           b == TeelByte(u.ti, byte)
           v == EditTurn(u, l).s
<1>1. Browsed(s, R)  BY BrowsedOthers
<1>2. R.ti = u.ti  BY BrowsedTeel DEF Read, Fields
<1>3. next.ti = R.ti  BY <1>1, BrowsedTeel DEF Reply, Fields
<1> HIDE DEF R, a
<1>4. Browsed(s, next)  BY <1>1, BrowsedOthers
<1>5. SameTeel(u.ti, b.ti)
  <2> HIDE DEF byte
  <2> QED  BY BrowsedTeel, TeelByteKeeps
<1>6. v = IF byte < 0 THEN next
          ELSE IF b.cmd = "nop" THEN [next EXCEPT !.ti = b.ti] ELSE EditCommand(next, b)
  BY DEF EditTurn, R, a
<1> HIDE DEF next, b, byte, v
<1>7. Browsed(s, [next EXCEPT !.ti = b.ti])  BY <1>2, <1>3, <1>4, <1>5, BrowsedSet
<1>8. Browsed(s, EditCommand(next, b))
  <2> DEFINE x == IF b.cmd = "line" THEN [b.ti EXCEPT !.previous = <<>>] ELSE b.ti
             y == IF b.cmd = "line" THEN b.ti.previous[1] ELSE <<>>
             t == b.ti
             z == [next EXCEPT !.ti = x]
  <2>1. EditCommand(next, b) = Signal(z, b.cmd, y)  BY DEF EditCommand
  <2>2. SameTeel(u.ti, x)
    <3>1. SameTeel(u.ti, t)  BY <1>5, SMTT(40)
    <3> HIDE DEF t
    <3>2. Teeled(t) => SameTeel(t, [t EXCEPT !.previous = <<>>])  BY TeelFieldSet
    <3>3. SameTeel(u.ti, [t EXCEPT !.previous = <<>>])  BY <3>1, <3>2, TeelThen
    <3> QED  BY <3>1, <3>3 DEF t
  <2> HIDE DEF x, y
  <2>3. Browsed(s, z)  BY <1>2, <1>3, <1>4, <2>2, BrowsedSet
  <2> HIDE DEF z
  <2> QED  BY <2>1, <2>3, BrowsedOthers
<1>9. Browsed(s, v)  BY <1>4, <1>6, <1>7, <1>8
<1> QED  BY <1>9 DEF v

LEMMA BrowsedTurn ==
  ASSUME NEW s, NEW t, Browsed(s, t.s)
  PROVE  Browsed(s, Turn(t).s)
<1> DEFINE rest == t.s.in.rest
           u == IF rest = <<>> THEN [s |-> t.s, done |-> TRUE]
                ELSE IF mode = "line" THEN LineTurn(t.s, Lex(rest)) ELSE EditTurn(t.s, Lex(rest))
           end == u.s.in.rest = <<>>
           v == [u.s EXCEPT !.in = Keep(@)]
<1>1. Browsed(s, u.s)
  <2>1. \A l : Browsed(s, LineTurn(t.s, l).s) /\ Browsed(s, EditTurn(t.s, l).s)
    BY BrowsedLineTurn, BrowsedEditTurn
  <2> QED  BY <2>1
<1>2. Turn(t) = IF t.done THEN t
                ELSE IF u.done \/ end THEN [s |-> v, done |-> end] ELSE u
  BY DEF Turn, AfterTurn, ModeTurn
<1> HIDE DEF u
<1>3. Browsed(s, v)
  <2>1. v = [u.s EXCEPT !.in = Keep(u.s.in)]  BY <1>1, BrowsedTeel DEF Fields
  <2> HIDE DEF v
  <2>2. Browsed(s, [u.s EXCEPT !.in = Keep(u.s.in)])  BY <1>1, BrowsedOthers
  <2> QED  BY <2>1, <2>2
<1> HIDE DEF v, end
<1> QED  BY <1>1, <1>2, <1>3

LEMMA TurnsBrowsed ==
  ASSUME NEW s, State(s), Teeled(s.ti), NEW x \in Seq(Octet), NEW n \in Nat
  PROVE  Browsed(s, Turns(Fed(s, x))[n].s)
<1> DEFINE fed == Fed(s, x)
           A == {k \in Nat : Browsed(s, Turns(fed)[k].s)}
<1>1. Browsed(s, fed)
  <2>1. Browsed(s, s)  BY TeelSelf DEF Browsed, State
  <2>2. PICK i \in ReadBuffer : fed = [s EXCEPT !.in = i]  BY FedState
  <2> HIDE DEF fed
  <2> QED  BY <2>1, <2>2, BrowsedOthers
<1> HIDE DEF fed
<1>2. 0 \in A
  <2>1. Turns(fed)[0] = [s |-> fed, done |-> FALSE]  BY TurnByTurn
  <2> QED  BY <1>1, <2>1
<1>3. ASSUME NEW k \in Nat, k \in A PROVE k + 1 \in A
  <2>1. Turns(fed)[k + 1] = Turn(Turns(fed)[k])  BY TurnByTurn
  <2>2. Browsed(s, Turn(Turns(fed)[k]).s)  BY <1>3, BrowsedTurn
  <2> QED  BY <2>1, <2>2
<1> HIDE DEF A
<1>4. \A k \in Nat : k \in A  BY <1>2, <1>3, Induct
<1> QED  BY <1>4 DEF A, fed

(* The lines of the past, one after the other.                             *)
LEMMA Remembered ==
  ASSUME NEW S, NEW h \in S, \A i \in S : \A k \in 1 .. Len(Past) : AddHistory(i, Past[k]) \in S
  PROVE  Remembering(h) \in S
<1> DEFINE n == Len(Past)
           Run(f) == f = [k \in 0 .. n |-> IF k = 0 THEN h ELSE AddHistory(f[k - 1], Past[k])]
           g == [z \in Nat \X S |-> IF z[1] \in 1 .. n THEN AddHistory(z[2], Past[z[1]]) ELSE z[2]]
<1>1. n \in Nat  BY TelnetConstants
<1>2. \A m \in Nat : \A y \in S :
        g[<<m, y>>] = IF m \in 1 .. n THEN AddHistory(y, Past[m]) ELSE y
  OBVIOUS
<1>3. \A m \in Nat : \A y \in S : g[<<m, y>>] \in S  BY <1>2
<1> HIDE DEF g
<1>4. PICK e : e = [m \in Nat |-> IF m = 0 THEN h ELSE g[<<m, e[m - 1]>>]] /\ e \in [Nat -> S]
  BY <1>3, Iterate
<1> HIDE DEF n
<1> DEFINE f == [k \in 0 .. n |-> e[k]]
<1>5. Run(f)
  <2> DEFINE r == [k \in 0 .. n |-> IF k = 0 THEN h ELSE AddHistory(f[k - 1], Past[k])]
  <2>1. ASSUME NEW k \in 0 .. n PROVE f[k] = r[k]
    <3>1. CASE k = 0  BY <1>4, <3>1
    <3>2. CASE k # 0
      <4>1. k \in Nat /\ k - 1 \in Nat /\ k \in 1 .. n /\ k - 1 \in 0 .. n  BY <1>1, <3>2
      <4>2. e[k] = g[<<k, e[k - 1]>>] /\ e[k - 1] \in S  BY <1>4, <3>2, <4>1
      <4>3. e[k] = AddHistory(e[k - 1], Past[k])  BY <1>2, <4>1, <4>2
      <4> QED  BY <3>2, <4>1, <4>3
    <3> QED  BY <3>1, <3>2
  <2> QED  BY <2>1
<1> DEFINE F == CHOOSE p : Run(p)
<1>6. Run(F)
  <2> HIDE DEF f
  <2> QED  BY <1>5
<1>7. Remembering(h) = F[n]  BY DEF Remembering, n
<1> HIDE DEF F
<1> DEFINE A == {k \in Nat : k \in 0 .. n => F[k] \in S}
<1>8. 0 \in A  BY <1>1, <1>6
<1>9. ASSUME NEW k \in Nat, k \in A PROVE k + 1 \in A
  <2> SUFFICES ASSUME k + 1 \in 0 .. n PROVE F[k + 1] \in S  OBVIOUS
  <2>1. k \in 0 .. n /\ k + 1 \in 1 .. n /\ (k + 1) - 1 = k /\ k + 1 # 0  BY <1>1
  <2>2. F[k + 1] = AddHistory(F[k], Past[k + 1])  BY <1>6, <2>1
  <2>3. F[k] \in S  BY <1>9, <2>1
  <2> QED  BY <2>1, <2>2, <2>3 DEF n
<1> HIDE DEF A
<1>10. \A k \in Nat : k \in A  BY <1>8, <1>9, Induct
<1>11. F[n] \in S
  <2>1. n \in A /\ n \in 0 .. n  BY <1>1, <1>10
  <2> QED  BY <2>1 DEF A
<1> QED  BY <1>7, <1>11

LEMMA PastIsRing ==
  ASSUME NEW n \in Nat
  PROVE  LET h == Remembering(SetHistorySize(NewHistory, n))
         IN /\ Ring(h) /\ h.size = n /\ h.idx = 0 /\ h.saved = <<>>
            /\ \A k : GetEntry(h, k) \in Seq(Octet)
<1> DEFINE first == SetHistorySize(NewHistory, n)
           V == Seq(Octet)
           S == [list : [0 .. n - 1 -> V], size : {n}, widx : 0 .. n - 1, idx : {0}, saved : {<<>>}]
<1>1. CASE n = 0
  <2>1. first = NewHistory  BY <1>1 DEF SetHistorySize
  <2>2. \A i \in {NewHistory} : \A k \in 1 .. Len(Past) : AddHistory(i, Past[k]) \in {NewHistory}
    BY DEF AddHistory, NewHistory
  <2>3. Remembering(NewHistory) \in {NewHistory}  BY <2>2, Remembered
  <2>4. Remembering(first) = NewHistory  BY <2>1, <2>3
  <2>5. Ring(NewHistory) /\ NewHistory.size = 0 /\ NewHistory.idx = 0 /\ NewHistory.saved = <<>>
    BY DEF Ring, NewHistory, HistoryFields
  <2>6. \A k : GetEntry(NewHistory, k) \in Seq(Octet)  BY <2>5 DEF GetEntry, NoEntry
  <2> QED  BY <1>1, <2>4, <2>5, <2>6
<1>2. CASE n # 0
  <2>1. first \in S
    <3> DEFINE list == [i \in 0 .. n - 1 |-> NoEntry]
    <3>1. first.list = list
      <4> DEFINE kept == IF n < NewHistory.size THEN n ELSE NewHistory.size
                 old(i) == NewHistory.list[(NewHistory.widx + NewHistory.size + i + 1 - kept)
                                           % NewHistory.size]
      <4>1. kept = 0  BY DEF NewHistory
      <4>2. first.list = [i \in 0 .. n - 1 |-> IF i < kept THEN old(i) ELSE NoEntry]
        BY <1>2 DEF SetHistorySize, NewHistory
      <4> HIDE DEF kept, old
      <4>3. \A i \in 0 .. n - 1 : ~(i < kept)  BY <4>1
      <4> QED  BY <4>2, <4>3
    <3>2. first = [list |-> first.list, size |-> n, widx |-> 0, idx |-> 0, saved |-> <<>>]
      BY <1>2 DEF SetHistorySize, NewHistory
    <3>3. list \in [0 .. n - 1 -> V]  BY DEF NoEntry
    <3>4. 0 \in 0 .. n - 1  BY <1>2
    <3> HIDE DEF first, list
    <3> QED  BY <3>1, <3>2, <3>3, <3>4
  <2>2. ASSUME NEW i \in S, NEW k \in 1 .. Len(Past) PROVE AddHistory(i, Past[k]) \in S
    <3> DEFINE l == Past[k]
    <3>1. l \in V  BY TelnetConstants DEF Octet
    <3> HIDE DEF l
    <3>2. (i.widx + 1) % n \in 0 .. n - 1
      <4> DEFINE w == i.widx
      <4>1. w \in 0 .. n - 1 /\ 1 \in 1 .. n  BY <1>2
      <4> HIDE DEF w
      <4>2. (w + 1) % n = IF w + 1 = n THEN 0 ELSE w + 1  BY <1>2, <4>1, Back
      <4>3. (w + 1) % n \in 0 .. n - 1  BY <1>2, <4>1, <4>2
      <4> QED  BY <4>3 DEF w
    <3> DEFINE j == [list |-> [i.list EXCEPT ![i.widx] = l], size |-> n,
                     widx |-> (i.widx + 1) % n, idx |-> 0, saved |-> <<>>]
    <3>3. j \in S
      <4>1. [i.list EXCEPT ![i.widx] = l] \in [0 .. n - 1 -> V]  BY <3>1
      <4> QED  BY <3>2, <4>1
    <3>4. [[i EXCEPT !.list[i.widx] = l] EXCEPT !.widx = (@ + 1) % i.size] = j
      <4> DEFINE a == [[i EXCEPT !.list[i.widx] = l] EXCEPT !.widx = (@ + 1) % i.size]
      <4>1. /\ i = [list |-> i.list, size |-> n, widx |-> i.widx, idx |-> 0, saved |-> <<>>]
            /\ DOMAIN i = HistoryFields
        BY DEF HistoryFields
      <4>2. a = [[i EXCEPT !.list = [i.list EXCEPT ![i.widx] = l]]
                 EXCEPT !.widx = (i.widx + 1) % n]
        OBVIOUS
      <4> HIDE DEF S, a
      <4>3. ASSUME NEW x, NEW y
            PROVE  [[i EXCEPT !.list = x] EXCEPT !.widx = y]
                   = [list |-> x, size |-> n, widx |-> y, idx |-> 0, saved |-> <<>>]
        <5> DEFINE u == [i EXCEPT !.list = x]
        <5>1. u = [list |-> x, size |-> n, widx |-> i.widx, idx |-> 0, saved |-> <<>>]
          BY <4>1 DEF HistoryFields
        <5> HIDE DEF u
        <5>2. [u EXCEPT !.widx = y]
              = [list |-> x, size |-> n, widx |-> y, idx |-> 0, saved |-> <<>>]
          BY <5>1
        <5> QED  BY <5>2 DEF u
      <4> QED  BY <4>2, <4>3 DEF a
    <3>5. AddHistory(i, l) \in {i, j}  BY <3>4 DEF AddHistory
    <3> HIDE DEF j
    <3> QED  BY <3>3, <3>5 DEF l
  <2> HIDE DEF S, first
  <2>3. Remembering(first) \in S  BY <2>1, <2>2, Remembered
  <2> DEFINE h == Remembering(first)
  <2>4. h \in S  BY <2>3
  <2> HIDE DEF h
  <2>5. /\ DOMAIN h = HistoryFields /\ h.size = n /\ h.widx \in 0 .. n - 1
        /\ DOMAIN h.list = 0 .. n - 1 /\ h.idx = 0 /\ h.saved = <<>>
        /\ \A x \in 0 .. n - 1 : h.list[x] \in V
    BY <2>4 DEF S, HistoryFields
  <2>6. ASSUME NEW k PROVE GetEntry(h, k) \in V
    <3> DEFINE w == h.widx
    <3>1. CASE k \in 1 .. n
      <4>1. GetEntry(h, k) = h.list[(w + n - k) % n]  BY <2>5, <3>1 DEF GetEntry
      <4>2. w \in 0 .. n - 1  BY <2>5
      <4> HIDE DEF w
      <4>3. (w + n - k) % n = IF k <= w THEN w - k ELSE w + n - k  BY <1>2, <3>1, <4>2, Back
      <4>4. (w + n - k) % n \in 0 .. n - 1  BY <3>1, <4>2, <4>3
      <4> QED  BY <2>5, <4>1, <4>4
    <3>2. CASE k \notin 1 .. n
      <4>1. GetEntry(h, k) = NoEntry  BY <2>5, <3>2 DEF GetEntry
      <4> QED  BY <4>1 DEF NoEntry
    <3> QED  BY <3>1, <3>2
  <2> QED  BY <2>5, <2>6 DEF Ring, h, first
<1> QED  BY <1>1, <1>2

(* The list of the history after a step.                                   *)
Listed(h, i) ==
  LET past == Entries(h)  now == Entries(i)
  IN now # past => /\ Len(now) <= h.size
                   /\ now[1] # <<>> /\ (past # <<>> => now[1] # past[1])
                   /\ Tail(now) = Edit!Take(past, Min({Len(past), h.size - 1}))

Browsing(t) == DOMAIN t = TeelFields /\ Ring(t.hist)

LEMMA BrowsingTeeled == ASSUME NEW t, Browsing(t) PROVE Teeled(t)
BY DEF Browsing, Ring, Teeled

LEMMA ListedSame ==
  ASSUME NEW t, Browsing(t), NEW u, SameTeel(t, u)
  PROVE  Browsing(u) /\ Listed(t.hist, u.hist)
<1>1. Entries(u.hist) = Entries(t.hist) /\ Ring(u.hist)  BY SameEntries DEF Browsing, SameTeel
<1> QED  BY <1>1 DEF Browsing, SameTeel, Listed

LEMMA ListedThen ==
  ASSUME NEW t, NEW u, Browsing(u), Listed(t.hist, u.hist), NEW v, SameTeel(u, v)
  PROVE  Browsing(v) /\ Listed(t.hist, v.hist)
<1>1. Entries(v.hist) = Entries(u.hist) /\ Ring(v.hist)  BY SameEntries DEF Browsing, SameTeel
<1> QED  BY <1>1 DEF Browsing, SameTeel, Listed

\* A line that ran.
LEMMA TeelAdds ==
  ASSUME NEW t, Browsing(t), NEW l
  PROVE  Browsing(TeelAddHistory(t, l)) /\ Listed(t.hist, TeelAddHistory(t, l).hist)
<1> DEFINE h == [t.hist EXCEPT !.idx = 0]
           i == AddHistory(h, l)
           u == TeelAddHistory(t, l)
<1>1. SameLines(t.hist, h)  BY DEF Browsing, Ring, SameLines, HistoryFields
<1>2. Ring(h) /\ Entries(h) = Entries(t.hist) /\ h.size = t.hist.size
  BY <1>1, SameEntries DEF Browsing, SameLines
<1>3. u.hist = (IF l = <<>> THEN h ELSE i) /\ DOMAIN u = TeelFields
  BY DEF TeelAddHistory, Browsing, TeelFields
<1> HIDE DEF h, u
<1>4. CASE l = <<>>
  <2>1. u.hist = h  BY <1>3, <1>4
  <2> QED  BY <1>2, <1>3, <2>1 DEF Browsing, Listed, u
<1>5. CASE l # <<>>
  <2>1. l # NoEntry  BY <1>5 DEF NoEntry
  <2>2. Ring(i) /\ Listed(h, i)  BY <1>2, <2>1, ListGrows DEF Listed
  <2>3. u.hist = i  BY <1>3, <1>5
  <2> HIDE DEF i
  <2> QED  BY <1>2, <1>3, <2>2, <2>3 DEF Browsing, Listed, u
<1> QED  BY <1>4, <1>5

-----------------------------------------------------------------------------
(* The history in the steps of the shell. *)

LEMMA InitBrowsing == Init => Browsing(ti)
<1> SUFFICES ASSUME Init PROVE Browsing(ti)  OBVIOUS
<1>1. PICK n \in HistorySizes :
        ti = IF mode = "edit" THEN [NewTeel(n) EXCEPT !.hist = Remembering(@)] ELSE NewTeel(0)
  BY DEF Init, TelnetInit
<1>2. n \in Nat  BY TelnetConstants
<1> DEFINE h == Remembering(SetHistorySize(NewHistory, n))
<1>3. Ring(h)  BY <1>2, PastIsRing
<1>4. CASE mode = "edit"
  <2>1. ti = [NewTeel(n) EXCEPT !.hist = h]  BY <1>1, <1>4 DEF NewTeel
  <2> HIDE DEF h
  <2>2. ti.hist = h /\ DOMAIN ti = TeelFields  BY <2>1 DEF NewTeel, TeelFields
  <2> QED  BY <1>3, <2>2 DEF Browsing
<1>5. CASE mode # "edit"
  <2>1. ti = NewTeel(0)  BY <1>1, <1>5
  <2>2. SetHistorySize(NewHistory, 0) = NewHistory  BY DEF SetHistorySize
  <2>3. ti.hist = NewHistory /\ DOMAIN ti = TeelFields  BY <2>1, <2>2 DEF NewTeel, TeelFields
  <2>4. Ring(NewHistory)  BY DEF Ring, NewHistory, HistoryFields
  <2> QED  BY <2>3, <2>4 DEF Browsing
<1> QED  BY <1>4, <1>5

\* A call of the interpreter, on a state with the same lines or one more.
LEMMA CalledListed ==
  ASSUME NEW by, NEW s, State(s), NEW x \in Seq(Octet), NEW others,
         interpret(by, s, x, others), Browsing(s.ti), Listed(ti.hist, s.ti.hist)
  PROVE  Browsing(ti') /\ Listed(ti.hist, ti.hist')
<1>1. \A n \in Nat : Browsed(s, Turns(Fed(s, x))[n].s)  BY BrowsingTeeled, TurnsBrowsed
<1>2. \A n \in Nat : DOMAIN Turns(Fed(s, x))[n].s = Fields  BY <1>1 DEF Browsed
<1>3. \E n \in Nat : ti' = Turns(Fed(s, x))[n].s.ti \/ ti' = Turns(Fed(s, x))[n + 1].s.ti
  <2>1. PICK n \in Nat : Ends(Turns(Fed(s, x))[n].s, Turns(Fed(s, x))[n + 1].s, others)
    BY <1>2, Interprets
  <2> QED  BY <2>1 DEF Ends
<1>4. PICK m \in Nat : ti' = Turns(Fed(s, x))[m].s.ti
  <2>1. \A n \in Nat : n + 1 \in Nat  OBVIOUS
  <2> QED  BY <1>3, <2>1
<1>5. SameTeel(s.ti, ti')  BY <1>1, <1>4 DEF Browsed
<1> QED  BY <1>5, ListedThen

LEMMA ListedSelf ==
  ASSUME NEW t, Browsing(t)
  PROVE  Listed(t.hist, t.hist)
BY DEF Listed

LEMMA NextListed ==
  ASSUME Kept, Browsing(ti), [Next]_vars
  PROVE  Browsing(ti') /\ Listed(ti.hist, ti.hist')
<1> DEFINE Goal == Browsing(ti') /\ Listed(ti.hist, ti.hist')
<1>1. Listed(ti.hist, ti.hist)  BY ListedSelf
<1>2. ASSUME UNCHANGED ti PROVE Goal  BY <1>1, <1>2
<1>3. ASSUME NEW by, NEW q, NEW x \in Seq(Octet), NEW others,
             interpret(by, [Now EXCEPT !.events = q], x, others)
      PROVE  Goal
  <2> DEFINE s == [Now EXCEPT !.events = q]
  <2>1. State(s)  BY NowState DEF Kept
  <2>2. s.ti = ti  BY DEF Now
  <2> HIDE DEF s
  <2>3. interpret(by, s, x, others)  BY <1>3 DEF s
  <2>4. Browsing(s.ti) /\ Listed(ti.hist, s.ti.hist)  BY <1>1, <2>2
  <2> QED  BY <2>1, <2>3, <2>4, CalledListed
<1>4. Popped = [Now EXCEPT !.events = Tail(events)]  BY DEF Popped, Now
<1>5. \A q : [Popped EXCEPT !.events = q] = [Now EXCEPT !.events = q]  BY DEF Popped, Now
<1>6. ASSUME Flush(Popped) PROVE Goal  BY <1>3, <1>4, <1>6, NoInput DEF Flush
<1>7. ASSUME NEW q, Flush([Popped EXCEPT !.events = q]) PROVE Goal
  BY <1>3, <1>5, <1>7, NoInput DEF Flush
<1> HIDE DEF Goal
<1>8. ASSUME NEW t \in Tokens, Send(t) PROVE Goal  BY <1>2, <1>8 DEF Send, ClientSends
<1>9. ASSUME NEW n \in 1 .. 16, ReadLoop(n) PROVE Goal
  <2> DEFINE x == Chunk(n)
  <2>1. x \in Seq(Octet)  BY <1>9, ReceivedOctets
  <2>2. Now = [Now EXCEPT !.events = events]  BY DEF Now
  <2>3. interpret("read", Now, x, sending)  BY <1>9 DEF ReadLoop
  <2> HIDE DEF x
  <2>4. interpret("read", [Now EXCEPT !.events = events], x, sending)  BY <2>2, <2>3
  <2> QED  BY <1>3, <2>1, <2>4
<1>10. ASSUME ActionLoop(LineWaits) PROVE Goal  BY <1>6, <1>10 DEF ActionLoop, LineWaits
<1>11. ASSUME NEW o, LET Runs(e) == LineRuns(e, o) IN ActionLoop(Runs) PROVE Goal
  <2> DEFINE l == Texts(Append(lines, Head(events)))
             s == AddHistory_(Popped, l)
  <2>1. Flush(Popped) \/ Flush(s)  BY <1>11 DEF ActionLoop, LineRuns
  <2>2. ASSUME Flush(s) PROVE Goal
    <3>1. State(Popped) /\ Popped.ti = ti
      <4>1. State(Popped)  BY <1>4, NowState DEF Kept
      <4> QED  BY <4>1 DEF Popped, Now
    <3>2. CASE mode = "edit"
      <4>1. s = [Popped EXCEPT !.ti = TeelAddHistory(ti, l)]
        BY <3>1, <3>2 DEF AddHistory_, State, Fields
      <4> HIDE DEF l, s
      <4>2. State(s) /\ s.ti = TeelAddHistory(ti, l)
        BY <3>1, <4>1 DEF State, Fields
      <4>3. Browsing(s.ti) /\ Listed(ti.hist, s.ti.hist)  BY <4>2, TeelAdds
      <4> QED  BY <2>2, <4>2, <4>3, CalledListed, NoInput DEF Flush, Goal
    <3>3. CASE mode # "edit"
      <4>1. s = Popped  BY <3>3 DEF AddHistory_
      <4> QED  BY <1>6, <2>2, <4>1
    <3> QED  BY <3>2, <3>3
  <2> QED  BY <1>6, <2>1, <2>2
<1>12. ASSUME ActionLoop(TaskDone) PROVE Goal
  <2>1. Flush([Popped EXCEPT !.events = @ \o linebuf])  BY <1>12 DEF ActionLoop, TaskDone
  <2>2. [Popped EXCEPT !.events = @ \o linebuf]
        = [Popped EXCEPT !.events = Popped.events \o linebuf]
    BY DEF Popped, Now
  <2> QED  BY <1>7, <2>1, <2>2
<1>13. ASSUME ActionLoop(Interrupt) PROVE Goal
  <2>1. Flush(IF foreground THEN [Popped EXCEPT !.events = Append(@, Done)] ELSE Popped)
    BY <1>13 DEF ActionLoop, Interrupt
  <2>2. [Popped EXCEPT !.events = Append(@, Done)]
        = [Popped EXCEPT !.events = Append(Popped.events, Done)]
    BY DEF Popped, Now
  <2> QED  BY <1>6, <1>7, <2>1, <2>2
<1>14. ASSUME ActionLoop(Suspend) PROVE Goal  BY <1>6, <1>14 DEF ActionLoop, Suspend
<1>15. ASSUME ActionLoop(Close) PROVE Goal
  <2>1. Becomes(Popped)  BY <1>15 DEF ActionLoop, Close
  <2> QED  BY <1>2, <2>1 DEF Becomes, Popped, Now
<1>16. ASSUME TaskEnds PROVE Goal
  <2>1. Becomes([Now EXCEPT !.events = Append(@, Done)])  BY <1>16 DEF TaskEnds
  <2> QED  BY <1>2, <2>1 DEF Becomes, Now
<1>17. ASSUME UNCHANGED vars PROVE Goal  BY <1>2, <1>17 DEF vars, telnetVars
<1>18. ASSUME NEW o \in {"incomplete", "error", "runs", "background"},
              LET Runs(e) == LineRuns(e, o) IN ActionLoop(Runs)
       PROVE  Goal
  BY <1>11, <1>18 DEF ActionLoop
<1>19. ASSUME SendDone PROVE Goal
  <2>1. LET s == [Now EXCEPT !.events = @ \o Taken]
        IN interpret(sending[1].by, s, <<>>, <<>>) \/ Becomes(s)
    BY <1>19, Zenon DEF SendDone
  <2>2. [Now EXCEPT !.events = @ \o Taken] = [Now EXCEPT !.events = events \o Taken]
    BY DEF Now
  <2>3. ASSUME Becomes([Now EXCEPT !.events = @ \o Taken]) PROVE Goal
    <3>1. UNCHANGED ti  BY <2>3 DEF Becomes, Now
    <3> QED  BY <1>2, <3>1
  <2> QED  BY <1>3, <2>1, <2>2, <2>3, NoInput
<1>20. Goal
  BY <1>8, <1>9, <1>10, <1>12, <1>13, <1>14, <1>15, <1>16, <1>17, <1>18, <1>19 DEF Next
<1> QED  BY <1>20 DEF Goal

(* The history the user goes through is the list of the last lines that    *)
(* ran, the most recent first and without a line equal to the one before   *)
(* it: no key, command or cut of the bytes changes it, and one that runs   *)
(* takes the place of the oldest when the ring is full (history.c).        *)
THEOREM HistoryStaysList == Spec => HistoryIsList
<1> DEFINE Step == LET past == User(ti).hist.past  now == User(ti)'.hist.past
                   IN now # past => /\ Len(now) <= ti.hist.size
                                    /\ now[1] # <<>> /\ (past # <<>> => now[1] # past[1])
                                    /\ Tail(now)
                                       = Edit!Take(past, Min({Len(past), ti.hist.size - 1}))
<1>1. Init => Kept /\ Browsing(ti)  BY InitKept, InitBrowsing
<1>2. Kept /\ Browsing(ti) /\ [Next]_vars => Kept' /\ Browsing(ti)'
  BY NextKept, NextListed
<1>3. Kept /\ Browsing(ti) /\ [Next]_vars => [Step]_vars
  <2> SUFFICES ASSUME Kept, Browsing(ti), [Next]_vars PROVE Step  OBVIOUS
  <2>1. Listed(ti.hist, ti.hist')  BY NextListed
  <2>2. User(ti).hist.past = Entries(ti.hist) /\ User(ti)'.hist.past = Entries(ti.hist')
    BY DEF User
  <2> QED  BY <2>1, <2>2 DEF Listed
<1> HIDE DEF Step
<1>4. Spec => [][Step]_vars  BY <1>1, <1>2, <1>3, PTL DEF Spec
<1> QED  BY <1>4 DEF HistoryIsList, Step

-----------------------------------------------------------------------------
(* The edit area. *)

Str == Seq(Octet)

\* The history: its lines are strings, and the user's own line is kept exactly
\* while he sees another one.
Lined(h) ==
  /\ Ring(h) /\ h.idx \in Nat /\ \A k : GetEntry(h, k) \in Str
  /\ (h.idx = 0) <=> (h.saved = <<>>)
  /\ h.saved # <<>> => h.saved[1].text \in Str /\ h.saved[1].cursor \in 0 .. Len(h.saved[1].text)

\* The text and the cursor in it, and the bytes the matcher compared.
Area(t) ==
  /\ DOMAIN t = TeelFields
  /\ t.text \in Str /\ t.cursor \in 0 .. Len(t.text)
  /\ t.temp \in Str /\ t.pos = Len(t.temp)
  /\ Lined(t.hist)

LEMMA MinIn ==
  ASSUME NEW T \in SUBSET Nat, T # {}
  PROVE  Min(T) \in T
<1>1. \E x \in T : \A y \in T : x <= y  BY Smallest
<1> QED  BY <1>1 DEF Min

LEMMA MaxIn ==
  ASSUME NEW m \in Nat, NEW T \in SUBSET (1 .. m), T # {}
  PROVE  Max(T) \in T
<1>1. PICK x \in T : \A y \in T : y <= x  BY Largest
<1>2. \A y \in T : x >= y  BY <1>1
<1> QED  BY <1>2 DEF Max

LEMMA StrOps ==
  ASSUME NEW s \in Str
  PROVE  /\ Len(s) \in Nat
         /\ \A n \in Nat : Edit!Drop(s, n) \in Str
         /\ \A n \in 0 .. Len(s) : Edit!Take(s, n) \in Str /\ Len(Edit!Take(s, n)) = n
<1>1. Len(s) \in Nat  BY DEF Str
<1>2. \A n \in Nat : Edit!Drop(s, n) \in Str  BY DropOctets DEF Str
<1>3. ASSUME NEW n \in 0 .. Len(s)
      PROVE  Edit!Take(s, n) \in Str /\ Len(Edit!Take(s, n)) = n
  <2>1. Edit!Take(s, n) = SubSeq(s, 1, n)  BY DEF Edit!Take
  <2>2. CASE n = 0
    <3>1. SubSeq(s, 1, n) = <<>>  BY <1>1, <2>2
    <3>2. <<>> \in Str /\ Len(<<>>) = 0  BY DEF Str
    <3> QED  BY <2>1, <2>2, <3>1, <3>2
  <2>3. CASE n # 0
    <3>1. n \in Nat /\ 1 \in Nat /\ n <= Len(s) /\ 1 <= n  BY <1>1, <2>3
    <3>2. \A i \in 1 .. n : s[i] \in Octet  BY <1>1 DEF Str
    <3>3. SubSeq(s, 1, n) \in Seq(Octet) /\ Len(SubSeq(s, 1, n)) = n
      BY <1>1, <3>1, <3>2 DEF Str
    <3> QED  BY <2>1, <3>3 DEF Str
  <2> QED  BY <2>2, <2>3
<1> QED  BY <1>1, <1>2, <1>3

LEMMA StrCat ==
  ASSUME NEW s \in Str, NEW x \in Str
  PROVE  s \o x \in Str /\ Len(s \o x) = Len(s) + Len(x) /\ Len(s) \in Nat /\ Len(x) \in Nat
BY DEF Str

\* The fields that say nothing of the text, and another history.
LEMMA AreaSet ==
  ASSUME NEW t, Area(t), NEW x, NEW y
  PROVE  /\ Area([t EXCEPT !.state = x]) /\ Area([t EXCEPT !.choices = x])
         /\ Area([t EXCEPT !.previous = x]) /\ Area([t EXCEPT !.overwrite = x])
         /\ Area([t EXCEPT !.state = x, !.choices = y])
         /\ Lined(x) => Area([t EXCEPT !.hist = x])
BY DEF Area, TeelFields

\* Another text.
LEMMA AreaText ==
  ASSUME NEW t, Area(t), NEW x \in Str, NEW c \in 0 .. Len(x)
  PROVE  Area([t EXCEPT !.text = x, !.cursor = c])
BY DEF Area, TeelFields

LEMMA AreaInsert ==
  ASSUME NEW t, Area(t), NEW x \in Str
  PROVE  Area(Insert(t, x))
<1> DEFINE d == Min({Len(t.text), t.cursor + IF t.overwrite THEN Len(x) ELSE 0})
           a == Edit!Take(t.text, t.cursor)
           b == Edit!Drop(t.text, d)
<1>1. t.text \in Str /\ t.cursor \in 0 .. Len(t.text) /\ DOMAIN t = TeelFields  BY DEF Area
<1>2. Len(t.text) \in Nat /\ Len(x) \in Nat /\ t.cursor \in Nat  BY <1>1, StrOps
<1>3. d \in Nat
  <2> DEFINE T == {Len(t.text), t.cursor + IF t.overwrite THEN Len(x) ELSE 0}
  <2>1. T \in SUBSET Nat /\ T # {}  BY <1>2
  <2>2. Min(T) \in T  BY <2>1, MinIn
  <2> QED  BY <2>1, <2>2
<1>4. Insert(t, x) = [t EXCEPT !.text = a \o x \o b, !.cursor = t.cursor + Len(x)]
  BY <1>1 DEF Insert, TeelFields
<1> HIDE DEF d
<1>5. a \in Str /\ Len(a) = t.cursor /\ b \in Str  BY <1>1, <1>3, StrOps
<1> HIDE DEF a, b
<1>6. a \o x \in Str /\ Len(a \o x) = t.cursor + Len(x)  BY <1>5, StrCat, ZenonT(60)
<1>7. (a \o x) \o b \in Str /\ Len((a \o x) \o b) = t.cursor + Len(x) + Len(b) /\ Len(b) \in Nat
  BY <1>5, <1>6, StrCat
<1> DEFINE s == (a \o x) \o b
           c == t.cursor + Len(x)
<1>8. s \in Str /\ c \in 0 .. Len(s)  BY <1>2, <1>7
<1> HIDE DEF s, c
<1>9. Area([t EXCEPT !.text = s, !.cursor = c])  BY <1>8, AreaText
<1> QED  BY <1>4, <1>9 DEF s, c

LEMMA AreaMoves ==
  ASSUME NEW t, Area(t), NEW c \in 0 .. Len(t.text), NEW d \in 0 .. Len(t.text)
  PROVE  Area(Goto(t, c)) /\ Area(Cut(t, c, d))
<1> DEFINE a == Edit!Take(t.text, c)
           b == Edit!Drop(t.text, d)
<1>1. t.text \in Str /\ DOMAIN t = TeelFields /\ Len(t.text) \in Nat  BY StrOps DEF Area
<1>2. Area(Goto(t, c))  BY DEF Area, Goto, TeelFields
<1>3. Cut(t, c, d) = [t EXCEPT !.text = a \o b, !.cursor = c]  BY <1>1 DEF Cut, TeelFields
<1>4. d \in Nat  BY <1>1
<1>5. a \in Str /\ Len(a) = c /\ b \in Str  BY <1>1, <1>4, StrOps
<1> HIDE DEF a, b
<1>6. a \o b \in Str /\ Len(a \o b) = c + Len(b) /\ Len(b) \in Nat  BY <1>5, StrCat
<1> DEFINE s == a \o b
<1>7. s \in Str /\ c \in 0 .. Len(s)  BY <1>1, <1>6
<1> HIDE DEF s
<1>8. Area([t EXCEPT !.text = s, !.cursor = c])  BY <1>7, AreaText
<1> QED  BY <1>2, <1>3, <1>8 DEF s

LEMMA AreaSetContent ==
  ASSUME NEW t, Area(t), NEW x \in Str
  PROVE  Area(SetContent(t, x))
<1>1. Len(x) \in 0 .. Len(x)
  <2>1. Len(x) \in Nat  BY StrOps
  <2> QED  BY <2>1
<1> QED  BY <1>1, AreaText DEF SetContent

LEMMA AreaSaveAndClear ==
  ASSUME NEW t, Area(t)
  PROVE  /\ Area(SaveAndClear(t)) /\ SaveAndClear(t).previous = <<t.text>>
         /\ SaveAndClear(t).state = "EDITLINE_DONE"
<1>1. <<>> \in Str /\ 0 \in 0 .. Len(<<>>)  BY DEF Str
<1> QED  BY <1>1 DEF Area, SaveAndClear, TeelFields

\* The same lines, and another place in them.
LEMMA LinedSame ==
  ASSUME NEW h, Lined(h), NEW i, SameLines(h, i), i.idx \in Nat,
         (i.idx = 0) <=> (i.saved = <<>>),
         i.saved # <<>> => i.saved[1].text \in Str /\ i.saved[1].cursor \in 0 .. Len(i.saved[1].text)
  PROVE  Lined(i)
<1>1. Ring(i) /\ \A k : GetEntry(i, k) = GetEntry(h, k)  BY SameEntries DEF Lined
<1> QED  BY <1>1 DEF Lined

LEMMA LinedReset ==
  ASSUME NEW h, Lined(h)
  PROVE  Lined(ResetContext(h))
<1>1. /\ SameLines(h, ResetContext(h)) /\ ResetContext(h).idx = 0
      /\ ResetContext(h).saved = <<>>
  BY DEF Lined, Ring, SameLines, ResetContext, HistoryFields
<1> QED  BY <1>1, LinedSame

LEMMA AreaReset ==
  ASSUME NEW t, Area(t)
  PROVE  Area([t EXCEPT !.hist = ResetContext(@)])
<1>1. Lined(ResetContext(t.hist))  BY LinedReset DEF Area
<1>2. [t EXCEPT !.hist = ResetContext(@)] = [t EXCEPT !.hist = ResetContext(t.hist)]
  BY DEF Area, TeelFields
<1> QED  BY <1>1, <1>2, AreaSet

LEMMA AreaBrowses ==
  ASSUME NEW t, Area(t)
  PROVE  Area(HistoryPrev(t)) /\ Area(HistoryNext(t))
<1> DEFINE h == t.hist
<1>1. /\ Lined(h) /\ DOMAIN t = TeelFields /\ t.text \in Str /\ t.cursor \in 0 .. Len(t.text)
  BY DEF Area
<1>2. DOMAIN h = HistoryFields /\ h.idx \in Nat  BY <1>1 DEF Lined, Ring
<1>3. \A k : GetEntry(h, k) \in Str  BY <1>1 DEF Lined
<1>4. Area(HistoryPrev(t))
  <2> DEFINE pos == t.hist.idx + 1
             own == <<[text |-> t.text, cursor |-> t.cursor]>>
             e == GetEntry(t.hist, pos)
             s == IF pos = 1 THEN own ELSE t.hist.saved
             i == [[h EXCEPT !.idx = pos] EXCEPT !.saved = s]
             u == [t EXCEPT !.hist.idx = pos, !.hist.saved = IF pos = 1 THEN own ELSE @]
  <2>1. HistoryPrev(t) = IF e = NoEntry THEN t ELSE SetContent(u, e)  BY DEF HistoryPrev
  <2>2. u = [t EXCEPT !.hist = i]  BY <1>1, <1>2 DEF TeelFields, HistoryFields
  <2> HIDE DEF h
  <2>3. SameLines(h, i) /\ i.idx = pos /\ i.saved = s
    BY <1>2 DEF SameLines, HistoryFields
  <2>4. /\ s # <<>> /\ s[1].text \in Str /\ s[1].cursor \in 0 .. Len(s[1].text)
    <3>1. CASE pos = 1  BY <1>1, <3>1
    <3>2. CASE pos # 1
      <4>1. h.idx # 0 /\ s = h.saved  BY <1>2, <3>2 DEF h
      <4> QED  BY <1>1, <4>1 DEF Lined
    <3> QED  BY <3>1, <3>2
  <2>5. pos \in Nat /\ pos # 0  BY <1>2 DEF h
  <2> HIDE DEF i, s, pos
  <2>6. Lined(i)  BY <1>1, <2>3, <2>4, <2>5, LinedSame
  <2>7. Area(u)  BY <2>2, <2>6, AreaSet
  <2>8. e \in Str  BY <1>3 DEF h
  <2> HIDE DEF u, e
  <2> QED  BY <2>1, <2>7, <2>8, AreaSetContent
<1>5. Area(HistoryNext(t))
  <2> DEFINE pos == t.hist.idx - 1
             own == t.hist.saved[1]
             e == GetEntry(t.hist, pos)
             i == [h EXCEPT !.idx = pos]
             u == [t EXCEPT !.hist.idx = pos]
             v == [t EXCEPT !.hist = ResetContext(@)]
             w == SetContent(v, own.text)
  <2>1. HistoryNext(t) = IF pos < 0 THEN t
                         ELSE IF pos > 0 THEN SetContent(u, e) ELSE Goto(w, own.cursor)
    BY DEF HistoryNext
  <2>2. CASE pos < 0  BY <2>1, <2>2
  <2>3. CASE pos > 0
    <3>1. u = [t EXCEPT !.hist = i]  BY <1>1, <1>2 DEF TeelFields, HistoryFields
    <3> HIDE DEF h
    <3>2. SameLines(h, i) /\ i.idx = pos /\ i.saved = h.saved
      BY <1>2 DEF SameLines, HistoryFields
    <3>3. pos \in Nat /\ pos # 0 /\ h.idx # 0  BY <1>2, <2>3 DEF h
    <3> HIDE DEF i, pos
    <3>4. Lined(i)
      <4>1. h.saved # <<>> /\ h.saved[1].text \in Str
            /\ h.saved[1].cursor \in 0 .. Len(h.saved[1].text)
        BY <1>1, <3>3 DEF Lined
      <4> QED  BY <1>1, <3>2, <3>3, <4>1, LinedSame
    <3>5. Area(u) /\ e \in Str  BY <1>3, <3>1, <3>4, AreaSet DEF h
    <3> HIDE DEF u, e
    <3> QED  BY <2>1, <2>3, <3>3, <3>5, AreaSetContent DEF pos
  <2>4. CASE pos = 0
    <3>1. own.text \in Str /\ own.cursor \in 0 .. Len(own.text)
      <4>1. h.idx # 0  BY <1>2, <2>4
      <4> QED  BY <1>1, <4>1 DEF Lined
    <3>2. Area(v)  BY AreaReset
    <3> HIDE DEF own, v
    <3>3. Area(w)  BY <3>1, <3>2, AreaSetContent
    <3>4. w.text = own.text  BY <3>2 DEF SetContent, Area, TeelFields
    <3> HIDE DEF w
    <3>5. Area(Goto(w, own.cursor))  BY <3>1, <3>3, <3>4, AreaMoves
    <3> QED  BY <2>1, <2>4, <3>5 DEF own
  <2>5. pos < 0 \/ pos > 0 \/ pos = 0  BY <1>2
  <2> HIDE DEF pos
  <2> QED  BY <2>2, <2>3, <2>4, <2>5
<1> QED  BY <1>4, <1>5

LEMMA EmptyStr == <<>> \in Str /\ \A s \in Str : Edit!Take(s, 0) = <<>>
<1>1. <<>> \in Str  BY DEF Str
<1>2. ASSUME NEW s \in Str PROVE Edit!Take(s, 0) = <<>>
  <2>1. SubSeq(s, 1, 0) = <<>>  BY DEF Str
  <2> QED  BY <2>1 DEF Edit!Take
<1> QED  BY <1>1, <1>2

LEMMA EmptyPrefix ==
  ASSUME NEW s, Len(s) \in Nat
  PROVE  IsPrefix(<<>>, s)
<1>1. SubSeq(<<>>, 1, Len(<<>>)) = <<>> /\ SubSeq(s, 1, Len(<<>>)) = <<>>
  BY DEF SubSeq
<1> QED  BY <1>1 DEF IsPrefix

\* The proposals, and what is inserted of them.
LEMMA ProposalsStr ==
  ASSUME NEW before
  PROVE  Proposals(before) \in Seq(Str)
<1> DEFINE w == Max({k \in 0 .. Len(before) : k = 0 \/ before[k] \in Stops})
           word == Edit!Drop(before, w)
           hits == {i \in 1 .. Len(Names) : IsPrefix(word, Names[i])}
           a == Min(hits)
           b == Max(hits)
           found == IF hits = {} THEN <<>> ELSE SubSeq(Names, a, b)
           whole == [found EXCEPT ![1] = Append(@, Paren)]
<1>1. Proposals(before) = IF found # <<>> /\ found[1] = word THEN whole ELSE found
  BY DEF Proposals
<1> HIDE DEF word
<1>2. Names \in Seq(Str) /\ Len(Names) \in Nat  BY TeelConstants DEF Str, Octet
<1>3. hits \in SUBSET (1 .. Len(Names)) /\ hits \in SUBSET Nat  BY <1>2
<1>4. found \in Seq(Str)
  <2>1. CASE hits = {}  BY <2>1
  <2>2. CASE hits # {}
    <3>1. a \in 1 .. Len(Names) /\ b \in 1 .. Len(Names)
      <4> HIDE DEF hits
      <4>1. a \in hits /\ b \in hits  BY <1>2, <1>3, <2>2, MinIn, MaxIn
      <4> QED  BY <1>3, <4>1
    <3>2. found = SubSeq(Names, a, b)  BY <2>2
    <3> HIDE DEF a, b, found
    <3>3. SubSeq(Names, a, b) \in Seq(Str)
      <4> DEFINE S == Str
      <4>1. Names \in Seq(S)  BY <1>2
      <4> HIDE DEF S
      <4>2. \A i \in a .. b : Names[i] \in S  BY <1>2, <3>1, <4>1
      <4>3. SubSeq(Names, a, b) \in Seq(S)  BY <1>2, <3>1, <4>1, <4>2, SubSeqProperties
      <4> QED  BY <4>3 DEF S
    <3> QED  BY <3>2, <3>3
  <2> QED  BY <2>1, <2>2
<1> HIDE DEF found
<1>5. ASSUME found # <<>> PROVE whole \in Seq(Str)
  <2> DEFINE S == Str
             x == Append(found[1], Paren)
  <2>1. found \in Seq(S) /\ Len(found) \in Nat /\ 1 \in 1 .. Len(found)  BY <1>4, <1>5
  <2>2. found[1] \in S  BY <2>1
  <2>3. x \in S  BY <2>2 DEF Str, Octet, Paren
  <2>4. whole = [found EXCEPT ![1] = x]  OBVIOUS
  <2> HIDE DEF S, x, whole
  <2>5. whole \in Seq(S)  BY <2>1, <2>3, <2>4
  <2> QED  BY <2>5 DEF S
<1> QED  BY <1>1, <1>4, <1>5

LEMMA AreaCompleteLine ==
  ASSUME NEW t, Area(t), NEW name \in Str
  PROVE  Area(CompleteLine(t, name))
<1> DEFINE before == Edit!Take(t.text, t.cursor)
           T == {k \in 0 .. Len(name) : IsSuffix(Edit!Take(name, k), before)}
           typed == Max(T)
<1>1. before \in Str /\ Len(before) \in Nat /\ Len(name) \in Nat
  <2>1. before \in Str  BY StrOps DEF Area
  <2> HIDE DEF before
  <2> QED  BY <2>1, StrOps
<1>2. CompleteLine(t, name) = Insert(t, Edit!Drop(name, typed))  BY DEF CompleteLine
<1> HIDE DEF before
<1>3. 0 \in T
  <2>1. Edit!Take(name, 0) = <<>>  BY EmptyStr
  <2>2. Reverse(<<>>) = <<>>  BY DEF Reverse
  <2>3. Len(Reverse(before)) \in Nat  BY <1>1 DEF Reverse, Str
  <2>4. IsSuffix(<<>>, before)  BY <2>2, <2>3, EmptyPrefix DEF IsSuffix
  <2> QED  BY <1>1, <2>1, <2>4
<1>4. T \in SUBSET (0 .. Len(name))  OBVIOUS
<1> HIDE DEF T
<1>5. typed \in Nat
  <2>1. Max(T) \in T  BY <1>1, <1>3, <1>4, MaxOf
  <2>2. 0 .. Len(name) \subseteq Nat  OBVIOUS
  <2>3. Max(T) \in Nat  BY <1>4, <2>1, <2>2, Zenon
  <2> QED  BY <2>3
<1> HIDE DEF typed
<1>6. Edit!Drop(name, typed) \in Str  BY <1>5, StrOps
<1> QED  BY <1>2, <1>6, AreaInsert

LEMMA CommonPartStr ==
  ASSUME NEW names \in Seq(Str), names # <<>>
  PROVE  CommonPart(names) \in Str
<1> DEFINE s == names[1]
           T == {k \in 0 .. Len(names[1]) :
                   \A i \in 1 .. Len(names) : IsPrefix(Edit!Take(names[1], k), names[i])}
<1>1. s \in Str  OBVIOUS
<1>2. Len(s) \in Nat  BY <1>1, StrOps
<1>3. CommonPart(names) = Edit!Take(s, Max(T))  BY DEF CommonPart
<1>4. 0 \in T
  <2>1. Edit!Take(s, 0) = <<>>  BY <1>1, EmptyStr
  <2>2. ASSUME NEW i \in 1 .. Len(names) PROVE IsPrefix(Edit!Take(s, 0), names[i])
    <3>1. names[i] \in Str  OBVIOUS
    <3>2. Len(names[i]) \in Nat  BY <3>1, StrOps
    <3> QED  BY <2>1, <3>2, EmptyPrefix
  <2> QED  BY <1>2, <2>2
<1>5. T \in SUBSET (0 .. Len(s))  OBVIOUS
<1> HIDE DEF s, T
<1>6. Max(T) \in 0 .. Len(s)  BY <1>2, <1>4, <1>5, MaxOf
<1> QED  BY <1>1, <1>3, <1>6, StrOps

LEMMA AreaCompletes ==
  ASSUME NEW t, Area(t)
  PROVE  Area(AutoComplete(t))
<1> DEFINE tab == Proposals(Edit!Take(t.text, t.cursor))
           u == CompleteLine(t, tab[1])
           v == CompleteLine(t, CommonPart(tab))
           w == [v EXCEPT !.state = "COMPLETION_DISP", !.choices = TRUE]
<1>1. AutoComplete(t) = IF tab = <<>> THEN t
                        ELSE IF Len(tab) = 1 \/ t.choices THEN u ELSE w
  BY DEF AutoComplete
<1>2. tab \in Seq(Str)  BY ProposalsStr
<1> HIDE DEF tab
<1>3. ASSUME tab # <<>> PROVE Area(u) /\ Area(w)
  <2>1. tab[1] \in Str  BY <1>2, <1>3
  <2>2. CommonPart(tab) \in Str  BY <1>2, <1>3, CommonPartStr
  <2>3. Area(u) /\ Area(v)  BY <2>1, <2>2, AreaCompleteLine
  <2> HIDE DEF v
  <2> QED  BY <2>3, AreaSet
<1> HIDE DEF u, w
<1> QED  BY <1>1, <1>3

\* Where the keys go.
LEMMA AreaPlaces ==
  ASSUME NEW t, Area(t)
  PROVE  /\ t.cursor \in 0 .. Len(t.text) /\ 0 \in 0 .. Len(t.text) /\ Len(t.text) \in 0 .. Len(t.text)
         /\ Before(t) \in 0 .. Len(t.text) /\ After(t) \in 0 .. Len(t.text)
         /\ PrevWord(t) \in 0 .. Len(t.text) /\ NextWord(t) \in 0 .. Len(t.text)
<1> DEFINE n == Len(t.text)
           c == t.cursor
<1>1. n \in Nat /\ c \in 0 .. n  BY StrOps DEF Area
<1>2. Before(t) \in 0 .. n
  <2> DEFINE x == Max({0, c - 1})
  <2>1. x \in {0, c - 1} /\ x >= 0
    <3>1. CASE c = 0
      <4>1. \E y \in {0, c - 1} : \A z \in {0, c - 1} : y >= z  BY <1>1, <3>1
      <4>2. x \in {0, c - 1} /\ \A z \in {0, c - 1} : x >= z  BY <4>1 DEF Max
      <4> QED  BY <1>1, <4>2
    <3>2. CASE c # 0
      <4>1. \E y \in {0, c - 1} : \A z \in {0, c - 1} : y >= z  BY <1>1, <3>2
      <4>2. x \in {0, c - 1} /\ \A z \in {0, c - 1} : x >= z  BY <4>1 DEF Max
      <4> QED  BY <1>1, <4>2
    <3> QED  BY <3>1, <3>2
  <2>2. Before(t) = x  BY DEF Before
  <2> HIDE DEF x
  <2> QED  BY <1>1, <2>1, <2>2
<1>3. After(t) \in 0 .. n
  <2> DEFINE T == {n, c + 1}
             x == Min(T)
  <2>1. \E y \in T : \A z \in T : y <= z  BY <1>1
  <2>2. x \in T /\ \A z \in T : x <= z  BY <2>1 DEF Min
  <2>3. After(t) = x  BY DEF After
  <2> HIDE DEF x
  <2> QED  BY <1>1, <2>2, <2>3
<1>4. PrevWord(t) \in 0 .. n
  <2> DEFINE T == {0} \cup {k \in 0 + 2 .. c - 1 :
                   t.text[k] \in Stops /\ \E j \in k + 1 .. c : t.text[j] \notin Stops}
  <2>1. PrevWord(t) = Max(T)  BY Zenon DEF PrevWord, Edit!WordStart, Edit!Max, Max
  <2>2. T \in SUBSET (0 .. n) /\ 0 \in T  BY <1>1
  <2> HIDE DEF T, n
  <2>3. Max(T) \in T  BY <1>1, <2>2, MaxOf
  <2> QED  BY <2>1, <2>2, <2>3
<1>5. NextWord(t) \in 0 .. n
  <2> DEFINE T == {n} \cup {k \in c + 1 .. n - 1 :
                   t.text[k + 1] \in Stops /\ \E j \in c + 1 .. k : t.text[j] \notin Stops}
  <2>1. NextWord(t) = Min(T)  BY Zenon DEF NextWord, Edit!WordEnd, Edit!Min, Min
  <2>2. T \in SUBSET (0 .. n) /\ T \in SUBSET Nat /\ T # {}  BY <1>1, SMTT(40)
  <2> HIDE DEF T, n
  <2>3. Min(T) \in T  BY <2>2, MinIn
  <2> QED  BY <2>1, <2>2, <2>3
<1> QED  BY <1>1, <1>2, <1>3, <1>4, <1>5

LEMMA AreaActs ==
  ASSUME NEW t, Area(t), NEW key
  PROVE  Area(Act(t, key)) /\ (key = "line" => Act(t, key) = SaveAndClear(t))
<1> DEFINE a == Act(t, key)
           u == [t EXCEPT !.overwrite = FALSE]
           v == Insert(u, <<Break>>)
           w == [v EXCEPT !.overwrite = t.overwrite]
           p == [HistoryPrev(t) EXCEPT !.state = "HISTORY_BROWSE"]
           n == [HistoryNext(t) EXCEPT !.state = "HISTORY_BROWSE"]
           P == {t.cursor, 0, Len(t.text), Before(t), After(t), PrevWord(t), NextWord(t)}
<1>1. \/ \E x \in P : a = Goto(t, x)
      \/ \E x \in P, y \in P : a = Cut(t, x, y)
      \/ a \in {[t EXCEPT !.overwrite = ~t.overwrite], w, p, n, AutoComplete(t), SaveAndClear(t), t}
  <2>1. [t EXCEPT !.overwrite = ~@] = [t EXCEPT !.overwrite = ~t.overwrite]
    BY DEF Area, TeelFields
  <2> QED  BY <2>1 DEF Act
<1>2. Area(w)
  <2>1. Area(u)  BY AreaSet
  <2> HIDE DEF u
  <2>2. <<Break>> \in Str  BY DEF Str, Octet, Break
  <2>3. Area(v)  BY <2>1, <2>2, AreaInsert
  <2> HIDE DEF v
  <2> QED  BY <2>3, AreaSet
<1>3. Area(p) /\ Area(n)  BY AreaBrowses, AreaSet
<1>4. P \subseteq 0 .. Len(t.text)  BY AreaPlaces
<1> HIDE DEF w, p, n, P
<1>5. \A x \in P : Area(Goto(t, x)) /\ \A y \in P : Area(Cut(t, x, y))
  BY <1>4, AreaMoves
<1>6. Area([t EXCEPT !.overwrite = ~t.overwrite]) /\ Area(AutoComplete(t)) /\ Area(SaveAndClear(t))
  BY AreaSet, AreaCompletes, AreaSaveAndClear
<1> HIDE DEF a
<1>7. Area(a)  BY <1>1, <1>2, <1>3, <1>5, <1>6
<1>8. key = "line" => a = SaveAndClear(t)  BY DEF a, Act
<1> QED  BY <1>7, <1>8 DEF a

LEMMA AreaChanges ==
  ASSUME NEW t, Area(t), NEW last
  PROVE  /\ Area(StateChanged(t, last))
         /\ t.state = "EDITLINE_DONE" => StateChanged(t, last).previous = t.previous
<1> DEFINE q == StateChanged(t, last)
<1>1. q \in {t, [t EXCEPT !.previous = <<>>], [t EXCEPT !.hist = ResetContext(@)],
             [t EXCEPT !.choices = FALSE]}
  BY DEF StateChanged
<1>3. t.state = "EDITLINE_DONE" => q \in {t, [t EXCEPT !.hist = ResetContext(@)],
                                          [t EXCEPT !.choices = FALSE]}
  BY DEF StateChanged
<1>4. /\ [t EXCEPT !.hist = ResetContext(@)].previous = t.previous
      /\ [t EXCEPT !.choices = FALSE].previous = t.previous
  BY DEF Area, TeelFields
<1>5. Area([t EXCEPT !.hist = ResetContext(@)]) /\ Area([t EXCEPT !.previous = <<>>])
      /\ Area([t EXCEPT !.choices = FALSE])
  BY AreaSet, AreaReset
<1> HIDE DEF q
<1>6. Area(q) /\ (t.state = "EDITLINE_DONE" => q.previous = t.previous)
  BY <1>1, <1>3, <1>4, <1>5
<1> QED  BY <1>6 DEF q

LEMMA AreaByte ==
  ASSUME NEW t, Area(t), NEW raw \in Octet
  PROVE  /\ Area(TeelByte(t, raw).ti)
         /\ TeelByte(t, raw).cmd = "line" => TeelByte(t, raw).ti.previous = <<t.text>>
<1> DEFINE byte == IF raw > 127 THEN Question ELSE raw
           temp == Append(t.temp, byte)
           ready == [t EXCEPT !.pos = 0, !.cur = 0, !.temp = <<>>]
           m == Match(t.cur, t.pos, byte)
           more == [t EXCEPT !.pos = @ + 1, !.cur = m.cur, !.temp = temp]
           key == map[Len(map) - m.cur][2]
           b == TeelByte(t, raw)
<1>1. \/ b.ti \in {Typed(ready, temp), more} /\ b.cmd = "nop"
      \/ b.ti = Key(ready, key) /\ b.cmd = Command(t, key)
  BY DEF TeelByte
<1>2. temp \in Str /\ Len(temp) = Len(t.temp) + 1
  <2>1. byte \in Octet  BY DEF Octet, Question
  <2> HIDE DEF byte
  <2> QED  BY <2>1 DEF Area, Str
<1> HIDE DEF temp
<1>3. Area(ready) /\ ready.text = t.text
  <2>1. <<>> \in Str /\ Len(<<>>) = 0  BY EmptyStr
  <2> QED  BY <2>1 DEF Area, TeelFields
<1>4. Area(more)  BY <1>2 DEF Area, TeelFields
<1> HIDE DEF ready, more, key, b, byte, m
<1>5. Area(Typed(ready, temp))
  <2> DEFINE u == Insert(ready, temp)
             v == [u EXCEPT !.state = "CHARACTER_INPUT"]
  <2>1. Area(u)  BY <1>2, <1>3, AreaInsert
  <2> HIDE DEF u
  <2>2. Area(v)  BY <2>1, AreaSet
  <2> HIDE DEF v
  <2>3. Area(StateChanged(v, ready.state))  BY <2>2, AreaChanges
  <2> QED  BY <2>3 DEF Typed, u, v
<1>6. Area(Key(ready, key)) /\ (key = "line" => Key(ready, key).previous = <<t.text>>)
  <2> DEFINE u == [ready EXCEPT !.state = "CHARACTER_INPUT"]
             v == Act(u, key)
             q == StateChanged(v, ready.state)
  <2>1. Area(u) /\ u.text = t.text  BY <1>3, AreaSet DEF Area, TeelFields
  <2> HIDE DEF u
  <2>2. Area(v) /\ (key = "line" => v = SaveAndClear(u))  BY <2>1, AreaActs
  <2>3. key = "line" => v.previous = <<t.text>> /\ v.state = "EDITLINE_DONE"
    BY <2>1, <2>2, AreaSaveAndClear
  <2> HIDE DEF v
  <2>4. Area(q) /\ (v.state = "EDITLINE_DONE" => q.previous = v.previous)
    BY <2>2, AreaChanges
  <2> HIDE DEF q
  <2>5. Key(ready, key) = q  BY DEF Key, u, v, q
  <2> QED  BY <2>3, <2>4, <2>5
<1>7. Command(t, key) = "line" => key = "line"  BY DEF Command
<1>8. Area(b.ti) /\ (b.cmd = "line" => b.ti.previous = <<t.text>>)
  BY <1>1, <1>4, <1>5, <1>6, <1>7
<1> QED  BY <1>8 DEF b

-----------------------------------------------------------------------------
(* The interpreter and the shell on the edit area. *)

\* A list of events with strings for their texts.
Spoken(q) == \E S : q \in Seq(S) /\ \A e \in S : e.text \in Str

LEMMA SpokenNone == Spoken(<<>>)
<1> DEFINE S == {[text |-> <<>>]}
<1>1. <<>> \in Seq(S) /\ \A e \in S : e.text \in Str  BY EmptyStr
<1> HIDE DEF S
<1> QED  BY <1>1 DEF Spoken

LEMMA SpokenOps ==
  ASSUME NEW q, Spoken(q)
  PROVE  /\ Spoken(<<>>)
         /\ \A r : Spoken(r) => Spoken(q \o r)
         /\ \A e : e.text \in Str => Spoken(Append(q, e))
         /\ q # <<>> => Spoken(Tail(q)) /\ Head(q).text \in Str
         /\ Texts(q) \in Str
<1>1. PICK S : q \in Seq(S) /\ \A e \in S : e.text \in Str  BY DEF Spoken
<1>2. Spoken(<<>>)  BY SpokenNone
<1>3. ASSUME NEW r, Spoken(r) PROVE Spoken(q \o r)
  <2>1. PICK T : r \in Seq(T) /\ \A e \in T : e.text \in Str  BY <1>3 DEF Spoken
  <2> DEFINE U == S \cup T
  <2>2. q \in Seq(U) /\ r \in Seq(U) /\ \A e \in U : e.text \in Str  BY <1>1, <2>1
  <2> HIDE DEF U
  <2>3. q \o r \in Seq(U)  BY <2>2
  <2> QED  BY <2>2, <2>3 DEF Spoken
<1>4. ASSUME NEW e, e.text \in Str PROVE Spoken(Append(q, e))
  <2> DEFINE U == S \cup {e}
  <2>1. q \in Seq(U) /\ e \in U /\ \A x \in U : x.text \in Str  BY <1>1, <1>4
  <2> HIDE DEF U
  <2>2. Append(q, e) \in Seq(U)  BY <2>1
  <2> QED  BY <2>1, <2>2 DEF Spoken
<1>5. ASSUME q # <<>> PROVE Spoken(Tail(q)) /\ Head(q).text \in Str
  <2>1. Tail(q) \in Seq(S) /\ Head(q) \in S  BY <1>1, <1>5
  <2> QED  BY <1>1, <2>1 DEF Spoken
<1>6. Texts(q) \in Str
  <2> DEFINE w == [i \in 1 .. Len(q) |-> q[i].text]
             B == Seq(Octet)
  <2>1. Len(q) \in Nat /\ \A i \in 1 .. Len(q) : q[i].text \in B  BY <1>1 DEF Str
  <2> HIDE DEF B
  <2>2. w \in [1 .. Len(q) -> B]  BY <2>1
  <2>3. w \in Seq(B)  BY <2>1, <2>2
  <2> HIDE DEF w
  <2>4. FlattenSeq(w) \in Seq(Octet)  BY <2>3, FlatOctets DEF B
  <2> QED  BY <2>4 DEF Texts, Str, w
<1> QED  BY <1>2, <1>3, <1>4, <1>5, <1>6

\* What the interpreter works on.
Written(u) == State(u) /\ u.line \in Str /\ Area(u.ti) /\ Spoken(u.events)

LEMMA WrittenReads ==
  ASSUME NEW u, Written(u)
  PROVE  /\ \A n \in Nat : Written(Read(u, n))
         /\ Written(Hold(u)) /\ \A x : Written(Reply(u, x))
<1>1. State(u)  BY DEF Written
<1>2. ASSUME NEW v, Same(u, v), v.line = u.line, v.ti = u.ti PROVE Written(v)
  BY <1>2 DEF Written, Same
<1>3. ASSUME NEW n \in Nat PROVE Written(Read(u, n))
  <2>1. Same(u, Read(u, n))  BY <1>1, ReadSame
  <2>2. Read(u, n).line = u.line /\ Read(u, n).ti = u.ti  BY <1>1 DEF Read, State, Fields
  <2> QED  BY <1>2, <2>1, <2>2
<1>4. Written(Hold(u))
  <2>1. Same(u, Hold(u))  BY <1>1, HoldSame
  <2>2. Hold(u).line = u.line /\ Hold(u).ti = u.ti  BY <1>1 DEF Hold, State, Fields
  <2> QED  BY <1>2, <2>1, <2>2
<1>5. ASSUME NEW x PROVE Written(Reply(u, x))
  <2>1. Same(u, Reply(u, x))  BY <1>1, OthersSame
  <2>2. Reply(u, x).line = u.line /\ Reply(u, x).ti = u.ti  BY <1>1 DEF Reply, State, Fields
  <2> QED  BY <1>2, <2>1, <2>2
<1> QED  BY <1>3, <1>4, <1>5

LEMMA WrittenSets ==
  ASSUME NEW u, Written(u)
  PROVE  /\ \A x \in ReadBuffer : Written([u EXCEPT !.in = x])
         /\ \A x \in Str : Written([u EXCEPT !.line = x]) /\ Written(Store(u, x))
         /\ \A x : Area(x) => Written([u EXCEPT !.ti = x])
         /\ \A ev : \A x \in Str : Written(Signal(u, ev, x))
<1>1. DOMAIN u = Fields /\ u.in \in ReadBuffer /\ u.line \in Str /\ Area(u.ti) /\ Spoken(u.events)
  BY DEF Written, State
<1>2. \A x \in ReadBuffer : Written([u EXCEPT !.in = x])  BY <1>1 DEF Written, State, Fields
<1>3. \A x \in Str : Written([u EXCEPT !.line = x])  BY <1>1 DEF Written, State, Fields
<1>4. \A x : Area(x) => Written([u EXCEPT !.ti = x])  BY <1>1 DEF Written, State, Fields
<1>5. ASSUME NEW x \in Str PROVE Written(Store(u, x))
  <2> DEFINE y == u.line \o x
  <2>1. y \in Str  BY <1>1, StrCat
  <2>2. Store(u, x) = [u EXCEPT !.line = y]  BY <1>1 DEF Store, Fields
  <2> HIDE DEF y
  <2> QED  BY <1>3, <2>1, <2>2
<1>6. ASSUME NEW ev, NEW x \in Str PROVE Written(Signal(u, ev, x))
  <2> DEFINE n == IF ev = "line" THEN u.count + 1 ELSE u.count
             e == [ev |-> ev, text |-> x, id |-> n]
             v == Signal(u, ev, x)
  <2>1. e.text \in Str  OBVIOUS
  <2>2. DOMAIN v = Fields /\ v.in = u.in /\ v.line = u.line /\ v.ti = u.ti
        /\ v.events = Append(u.events, e)
    BY <1>1 DEF Signal, Fields
  <2> HIDE DEF v, e
  <2>3. Spoken(v.events)  BY <1>1, <2>1, <2>2, SpokenOps
  <2>4. Written(v)  BY <1>1, <2>2, <2>3 DEF Written, State
  <2> QED  BY <2>4 DEF v
<1> QED  BY <1>2, <1>3, <1>4, <1>5, <1>6

LEMMA FirstOctets ==
  ASSUME NEW r \in Seq(Octet), r # <<>>
  PROVE  r[1] \in Octet /\ (Len(r) # 1 => r[2] \in Octet)
<1> DEFINE n == Len(r)
<1>1. n \in Nat /\ n # 0 /\ \A i \in 1 .. n : r[i] \in Octet  OBVIOUS
<1> HIDE DEF n
<1>2. 1 \in 1 .. n /\ (n # 1 => 2 \in 1 .. n)  BY <1>1
<1> QED  BY <1>1, <1>2 DEF n

LEMMA LexBytes ==
  ASSUME NEW r \in Seq(Octet), r # <<>>
  PROVE  /\ Lex(r).kind \in {"byte", "cut", "option", "skip", "control", "quoted"}
         /\ Lex(r).kind = "byte" => Lex(r).byte \in Octet
         /\ ReaderByte(Lex(r)) < 0 \/ ReaderByte(Lex(r)) \in Octet
<1> DEFINE l == Lex(r)
<1>1. r[1] \in Octet /\ (Len(r) # 1 => r[2] \in Octet)  BY FirstOctets
<1>2. \/ l.kind = "byte" /\ l.byte = r[1]
      \/ l.kind = "cut" /\ (l.byte = -1 \/ (Len(r) # 1 /\ l.byte = r[2]))
      \/ l.kind \in {"option", "skip", "control"}
      \/ l.kind = "quoted" /\ Len(r) # 1 /\ l.byte = r[2]
  BY DEF Lex
<1> HIDE DEF l
<1>3. /\ l.kind \in {"byte", "cut", "option", "skip", "control", "quoted"}
      /\ l.kind = "byte" => l.byte \in Octet
  BY <1>1, <1>2
<1>4. l.kind \in {"byte", "cut", "quoted"} => l.byte = -1 \/ l.byte \in Octet  BY <1>1, <1>2
<1>5. \/ ReaderByte(l) = l.byte /\ l.kind \in {"byte", "cut", "quoted"}
      \/ ReaderByte(l) \in {3, 26, 4, -1}
  BY DEF ReaderByte
<1> DEFINE b == ReaderByte(l)
<1>6. b = -1 \/ b \in Octet
  <2>1. {3, 26, 4} \subseteq Octet  BY DEF Octet
  <2> QED  BY <1>4, <1>5, <2>1
<1> HIDE DEF b
<1>7. b < 0 \/ b \in Octet  BY <1>6
<1> QED  BY <1>3, <1>7 DEF l, b

LEMMA WrittenLineTurn ==
  ASSUME NEW u, Written(u), u.in.rest # <<>>
  PROVE  Written(LineTurn(u, Lex(u.in.rest)).s)
<1> DEFINE r == u.in.rest
           l == Lex(r)
           R == Read(u, l.n)
           Q == Read(u, 2)
           v == LineTurn(u, l).s
<1>1. r \in Seq(Octet) /\ r # <<>>  BY DEF Written, State, ReadBuffer
<1> HIDE DEF r
<1>2. l.n \in Nat  BY <1>1, LexReads
<1>3. /\ l.kind \in {"byte", "cut", "option", "skip", "control", "quoted"}
      /\ l.kind = "byte" => l.byte \in Octet
  BY <1>1, LexBytes
<1> HIDE DEF l
<1>4. Written(R) /\ Written(Q) /\ Written(Hold(u))  BY <1>2, WrittenReads
<1>5. \/ v \in {Hold(u), R, EndOfLine(R), EndOfLine(Q), Store(R, <<IAC>>)}
      \/ \E x : v \in {Reply(R, x), LineControl(R, x)}
      \/ l.kind = "byte" /\ v = Store(R, <<l.byte>>)
      \/ l.kind = "byte" /\ Len(r) # 1 /\ v = Store(Q, <<10, r[2]>>)
  BY <1>3 DEF LineTurn, r
<1> HIDE DEF R, Q, v
<1>6. ASSUME NEW t, Written(t), NEW x
      PROVE  Written(Reply(t, x)) /\ Written(LineControl(t, x)) /\ Written(EndOfLine(t))
  <2>1. <<>> \in Str /\ t.line \in Str  BY <1>6, EmptyStr DEF Written
  <2>2. Written([t EXCEPT !.line = <<>>])  BY <1>6, <2>1, WrittenSets
  <2> DEFINE w == [t EXCEPT !.line = <<>>]
  <2>3. Written(w)  BY <2>2
  <2> HIDE DEF w
  <2>4. Written(Signal(w, x, <<>>)) /\ Written(Signal(w, "line", t.line))
    BY <2>1, <2>3, WrittenSets
  <2>5. Written(Reply(t, x))  BY <1>6, WrittenReads
  <2> QED  BY <2>4, <2>5 DEF LineControl, EndOfLine, w
<1>7. <<IAC>> \in Str  BY DEF Str, Octet, IAC
<1>8. l.kind = "byte" => <<l.byte>> \in Str  BY <1>3 DEF Str
<1>9. Len(r) # 1 => <<10, r[2]>> \in Str
  <2> SUFFICES ASSUME Len(r) # 1 PROVE <<10, r[2]>> \in Str  OBVIOUS
  <2>1. r[2] \in Octet  BY <1>1, FirstOctets
  <2>2. 10 \in Octet  BY DEF Octet
  <2> QED  BY <2>1, <2>2 DEF Str
<1>10. Written(v)  BY <1>4, <1>5, <1>6, <1>7, <1>8, <1>9, WrittenSets
<1> QED  BY <1>10 DEF v, l, r

LEMMA WrittenEditTurn ==
  ASSUME NEW u, Written(u), u.in.rest # <<>>
  PROVE  Written(EditTurn(u, Lex(u.in.rest)).s)
<1> DEFINE r == u.in.rest
           l == Lex(r)
           byte == ReaderByte(l)
           a == IF l.kind = "option" THEN ParseOption(u.in.rest[2], l.byte) ELSE <<>>
           R == Read(u, l.n)
           next == Reply(R, a)
           b == TeelByte(u.ti, byte)
           v == EditTurn(u, l).s
<1>1. r \in Seq(Octet) /\ r # <<>> /\ Area(u.ti) /\ u.ti.text \in Str
  BY DEF Written, State, ReadBuffer, Area
<1>2. v = IF byte < 0 THEN next
          ELSE IF b.cmd = "nop" THEN [next EXCEPT !.ti = b.ti] ELSE EditCommand(next, b)
  BY DEF EditTurn
<1>3. Written(next)
  <2> HIDE DEF r, a
  <2>1. l.n \in Nat  BY <1>1, LexReads
  <2> HIDE DEF l
  <2>2. Written(R)  BY <2>1, WrittenReads
  <2> HIDE DEF R
  <2> QED  BY <2>2, WrittenReads
<1>4. byte < 0 \/ byte \in Octet
  <2> HIDE DEF r
  <2> QED  BY <1>1, LexBytes
<1> HIDE DEF next, byte, v
<1>5. ASSUME byte < 0 PROVE Written(v)  BY <1>2, <1>3, <1>5
<1>6. ASSUME ~(byte < 0) PROVE Written(v)
  <2>1. Area(b.ti) /\ (b.cmd = "line" => b.ti.previous = <<u.ti.text>>)
    BY <1>1, <1>4, <1>6, AreaByte
  <2> DEFINE x == IF b.cmd = "line" THEN [b.ti EXCEPT !.previous = <<>>] ELSE b.ti
             y == IF b.cmd = "line" THEN b.ti.previous[1] ELSE <<>>
             w == [next EXCEPT !.ti = x]
  <2>2. EditCommand(next, b) = Signal(w, b.cmd, y)  BY DEF EditCommand
  <2> HIDE DEF b
  <2>3. Area(x)
    <3>1. Area([b.ti EXCEPT !.previous = <<>>])  BY <2>1, AreaSet
    <3> QED  BY <2>1, <3>1
  <2>4. y \in Str
    <3>1. b.cmd = "line" => b.ti.previous[1] = u.ti.text  BY <2>1
    <3> QED  BY <1>1, <3>1, EmptyStr
  <2> HIDE DEF x, y
  <2>5. Written(w) /\ Written([next EXCEPT !.ti = b.ti])  BY <1>3, <2>1, <2>3, WrittenSets
  <2> HIDE DEF w
  <2>6. Written(EditCommand(next, b))  BY <2>2, <2>4, <2>5, WrittenSets
  <2> QED  BY <1>2, <1>6, <2>5, <2>6
<1>7. Written(v)  BY <1>5, <1>6
<1> QED  BY <1>7 DEF v, l, r

LEMMA WrittenTurn ==
  ASSUME NEW t, Written(t.s)
  PROVE  Written(Turn(t).s)
<1> DEFINE rest == t.s.in.rest
           u == IF rest = <<>> THEN [s |-> t.s, done |-> TRUE]
                ELSE IF mode = "line" THEN LineTurn(t.s, Lex(rest)) ELSE EditTurn(t.s, Lex(rest))
           end == u.s.in.rest = <<>>
           v == [u.s EXCEPT !.in = Keep(@)]
<1>1. Written(u.s)
  <2>1. CASE rest = <<>>  BY <2>1
  <2>2. CASE rest # <<>>
    <3>1. Written(LineTurn(t.s, Lex(rest)).s) /\ Written(EditTurn(t.s, Lex(rest)).s)
      BY <2>2, WrittenLineTurn, WrittenEditTurn
    <3> QED  BY <2>2, <3>1
  <2> QED  BY <2>1, <2>2
<1>2. Turn(t) = IF t.done THEN t
                ELSE IF u.done \/ end THEN [s |-> v, done |-> end] ELSE u
  BY DEF Turn, AfterTurn, ModeTurn
<1> HIDE DEF u
<1>3. Written(v)
  <2>1. State(u.s)  BY <1>1 DEF Written
  <2>2. Keep(u.s.in) \in ReadBuffer  BY <2>1, KeepBuffer DEF State
  <2>3. v = [u.s EXCEPT !.in = Keep(u.s.in)]  BY <2>1 DEF State, Fields
  <2> HIDE DEF v
  <2> QED  BY <1>1, <2>2, <2>3, WrittenSets
<1> HIDE DEF v, end
<1> QED  BY <1>1, <1>2, <1>3

LEMMA TurnsWritten ==
  ASSUME NEW s, Written(s), NEW x \in Seq(Octet), NEW n \in Nat
  PROVE  Written(Turns(Fed(s, x))[n].s)
<1> DEFINE fed == Fed(s, x)
           A == {k \in Nat : Written(Turns(fed)[k].s)}
<1>1. Written(fed)
  <2>1. PICK i \in ReadBuffer : fed = [s EXCEPT !.in = i]  BY FedState DEF Written
  <2> HIDE DEF fed
  <2> QED  BY <2>1, WrittenSets
<1> HIDE DEF fed
<1>2. 0 \in A
  <2>1. Turns(fed)[0] = [s |-> fed, done |-> FALSE]  BY TurnByTurn
  <2> QED  BY <1>1, <2>1
<1>3. ASSUME NEW k \in Nat, k \in A PROVE k + 1 \in A
  <2>1. Turns(fed)[k + 1] = Turn(Turns(fed)[k])  BY TurnByTurn
  <2>2. Written(Turn(Turns(fed)[k]).s)  BY <1>3, WrittenTurn
  <2> QED  BY <2>1, <2>2
<1> HIDE DEF A
<1>4. \A k \in Nat : k \in A  BY <1>2, <1>3, Induct
<1> QED  BY <1>4 DEF A, fed

\* A line that ran, while the user looks at his own.
LEMMA AreaAdds ==
  ASSUME NEW t, Area(t), t.hist.saved = <<>>, NEW l \in Str
  PROVE  Area(TeelAddHistory(t, l))
<1> DEFINE h == [t.hist EXCEPT !.idx = 0]
           i == AddHistory(h, l)
           x == IF l = <<>> THEN h ELSE i
<1>1. Lined(t.hist) /\ DOMAIN t = TeelFields  BY DEF Area
<1>2. SameLines(t.hist, h) /\ h.idx = 0 /\ h.saved = <<>>
  BY <1>1 DEF Lined, Ring, SameLines, HistoryFields
<1>3. TeelAddHistory(t, l) = [t EXCEPT !.hist = x]  BY <1>1 DEF TeelAddHistory, TeelFields
<1> HIDE DEF h
<1>4. Lined(h)  BY <1>1, <1>2, LinedSame
<1>5. Ring(h) /\ h.size \in Nat /\ \A k : GetEntry(h, k) \in Str  BY <1>4 DEF Lined, Ring
<1>6. i.idx = 0 /\ i.saved = <<>>
  <2>1. DOMAIN h = HistoryFields  BY <1>5 DEF Ring
  <2> QED  BY <1>2, <2>1 DEF AddHistory, HistoryFields
<1>7. /\ Ring(i) /\ i.size = h.size
      /\ h.size = 0 \/ GetEntry(h, 1) = l => i = h
      /\ ~(h.size = 0 \/ GetEntry(h, 1) = l) =>
           /\ GetEntry(i, 1) = l
           /\ \A k \in 1 .. h.size - 1 : GetEntry(i, k + 1) = GetEntry(h, k)
  BY <1>5, RingGrows
<1> HIDE DEF i
<1>8. ASSUME NEW k PROVE GetEntry(i, k) \in Str
  <2>1. CASE i = h  BY <1>5, <2>1
  <2>2. CASE i # h /\ k \in 1 .. h.size
    <3>1. CASE k = 1  BY <1>7, <2>2, <3>1
    <3>2. CASE k # 1
      <4>1. k - 1 \in 1 .. h.size - 1 /\ (k - 1) + 1 = k  BY <1>5, <2>2, <3>2
      <4>2. GetEntry(i, k) = GetEntry(h, k - 1)  BY <1>7, <2>2, <4>1
      <4> QED  BY <1>5, <4>2
    <3> QED  BY <3>1, <3>2
  <2>3. CASE k \notin 1 .. h.size
    <3>1. GetEntry(i, k) = NoEntry  BY <1>7, <2>3 DEF GetEntry
    <3> QED  BY <3>1, EmptyStr DEF NoEntry
  <2> QED  BY <2>1, <2>2, <2>3
<1>9. Lined(i)  BY <1>6, <1>7, <1>8 DEF Lined
<1>10. Lined(x)  BY <1>4, <1>9
<1> HIDE DEF x
<1>11. Area([t EXCEPT !.hist = x])  BY <1>10, AreaSet
<1> QED  BY <1>3, <1>11

\* What the interpreter and the lists of the shell hold.
Readable ==
  /\ line \in Str /\ Area(ti) /\ Spoken(events) /\ Spoken(linebuf) /\ Spoken(lines)
  /\ Spoken(TakenOf(sending))

LEMMA InitReadable == Init => Readable
<1> SUFFICES ASSUME Init PROVE Readable  OBVIOUS
<1>1. PICK n \in HistorySizes :
        ti = IF mode = "edit" THEN [NewTeel(n) EXCEPT !.hist = Remembering(@)] ELSE NewTeel(0)
  BY DEF Init, TelnetInit
<1>2. n \in Nat  BY TelnetConstants
<1> DEFINE h == Remembering(SetHistorySize(NewHistory, n))
<1>3. Lined(h)
  <2>1. Ring(h) /\ h.idx = 0 /\ h.saved = <<>> /\ \A k : GetEntry(h, k) \in Seq(Octet)
    BY <1>2, PastIsRing
  <2> HIDE DEF h
  <2> QED  BY <2>1 DEF Lined, Str
<1>4. ASSUME /\ DOMAIN ti = TeelFields /\ ti.text = <<>> /\ ti.cursor = 0 /\ ti.temp = <<>>
             /\ ti.pos = 0 /\ Lined(ti.hist)
      PROVE  Area(ti)
  <2>1. <<>> \in Str /\ Len(<<>>) = 0 /\ 0 \in 0 .. 0  BY EmptyStr
  <2> QED  BY <1>4, <2>1 DEF Area
<1>5. CASE mode = "edit"
  <2>1. ti = [NewTeel(n) EXCEPT !.hist = h]  BY <1>1, <1>5 DEF NewTeel
  <2> HIDE DEF h
  <2>2. /\ DOMAIN ti = TeelFields /\ ti.text = <<>> /\ ti.cursor = 0 /\ ti.temp = <<>>
        /\ ti.pos = 0 /\ ti.hist = h
    BY <2>1 DEF NewTeel, TeelFields
  <2>3. Area(ti)  BY <1>3, <1>4, <2>2
  <2> QED  BY SpokenNone, <2>3, EmptyStr, TakenBy DEF Readable, Init, TelnetInit
<1>6. CASE mode # "edit"
  <2>1. ti = NewTeel(0)  BY <1>1, <1>6
  <2>2. SetHistorySize(NewHistory, 0) = NewHistory  BY DEF SetHistorySize
  <2>3. /\ DOMAIN ti = TeelFields /\ ti.text = <<>> /\ ti.cursor = 0 /\ ti.temp = <<>>
        /\ ti.pos = 0 /\ ti.hist = NewHistory
    BY <2>1, <2>2 DEF NewTeel, TeelFields
  <2>4. Lined(NewHistory)
    <3>1. Ring(NewHistory) /\ NewHistory.size = 0 /\ NewHistory.idx = 0 /\ NewHistory.saved = <<>>
      BY DEF Ring, NewHistory, HistoryFields
    <3>2. \A k : GetEntry(NewHistory, k) = NoEntry  BY <3>1 DEF GetEntry
    <3> QED  BY <3>1, <3>2, EmptyStr DEF Lined, NoEntry
  <2>5. Area(ti)  BY <1>4, <2>3, <2>4
  <2> QED  BY SpokenNone, <2>5, EmptyStr, TakenBy DEF Readable, Init, TelnetInit
<1> QED  BY <1>5, <1>6

\* After a call of the interpreter.
LEMMA CalledReadable ==
  ASSUME NEW by, NEW s, Written(s), s.count \in Nat, Numbered(s.events), NEW x \in Seq(Octet),
         NEW others, Sends(others), Spoken(TakenOf(others)), interpret(by, s, x, others),
         Spoken(linebuf'), Spoken(lines')
  PROVE  Readable'
<1> DEFINE turn == Turns(Fed(s, x))
<1>1. \A n \in Nat : Written(turn[n].s) /\ DOMAIN turn[n].s = Fields /\ n + 1 \in Nat
  BY TurnsWritten DEF Written, State
<1>2. State(s)  BY DEF Written
<1>3. PICK n \in Nat : Ends(turn[n].s, turn[n + 1].s, others)  BY <1>1, <1>2, Interprets
<1> DEFINE v == turn[n].s
           u == turn[n + 1].s
<1>4. Written(v) /\ Written(u)  BY <1>1
<1>5. Numbered(u.events)
  <2>1. n + 1 \in Nat  OBVIOUS
  <2>2. Grown(s, u)  BY <1>2, <2>1, TurnsGrown
  <2> HIDE DEF u
  <2> QED  BY <2>2, GrownNumbered
<1> HIDE DEF turn, v, u
<1>6. CASE line' = v.line /\ ti' = v.ti /\ events' = v.events /\ sending' = others
  BY <1>4, <1>6 DEF Readable, Written
<1>7. CASE /\ line' = u.line /\ ti' = u.ti /\ events' = v.events
           /\ \E w : sending' = <<w>> \o others /\ w.taken = Edit!Drop(u.events, Len(v.events))
  <2>1. PICK w : sending' = <<w>> \o others /\ w.taken = Edit!Drop(u.events, Len(v.events))
    BY <1>7
  <2>2. Spoken(w.taken) /\ Numbered(w.taken)
    <3> DEFINE k == Len(v.events)
               r == u.events
    <3>1. k \in Nat
      <4>1. PICK S : v.events \in Seq(S)  BY <1>4 DEF Written, Spoken
      <4> QED  BY <4>1
    <3>2. PICK S : r \in Seq(S) /\ \A e \in S : e.text \in Str  BY <1>4 DEF Written, Spoken
    <3>3. PICK T : r \in Seq(T) /\ \A e \in T : e.id \in Nat  BY <1>5 DEF Numbered
    <3> HIDE DEF k, r
    <3>4. ASSUME NEW U, r \in Seq(U) PROVE SubSeq(r, k + 1, Len(r)) \in Seq(U)
      <4>1. CASE k < Len(r)
        <5>1. \A i \in k + 1 .. Len(r) : r[i] \in U  BY <3>1, <3>4
        <5> QED  BY <3>1, <3>4, <4>1, <5>1, SubSeqProperties
      <4>2. CASE k >= Len(r)
        <5>1. SubSeq(r, k + 1, Len(r)) = <<>>  BY <3>1, <3>4, <4>2
        <5>2. <<>> \in Seq(U)  OBVIOUS
        <5> QED  BY <5>1, <5>2
      <4>3. Len(r) \in Nat  BY <3>4
      <4> QED  BY <3>1, <4>1, <4>2, <4>3
    <3>5. w.taken = SubSeq(r, k + 1, Len(r))  BY <2>1 DEF Edit!Drop, k, r
    <3>6. w.taken \in Seq(S) /\ w.taken \in Seq(T)  BY <3>2, <3>3, <3>4, <3>5
    <3> QED  BY <3>2, <3>3, <3>6 DEF Spoken, Numbered
  <2>3. TakenOf(sending') = w.taken \o TakenOf(others)  BY <2>1, <2>2, TakenThen
  <2>4. Spoken(TakenOf(sending'))  BY <2>2, <2>3, SpokenOps
  <2>5. u.line \in Str /\ Area(u.ti) /\ Spoken(v.events)  BY <1>4 DEF Written
  <2> QED  BY <1>7, <2>4, <2>5 DEF Readable
<1> QED  BY <1>3, <1>6, <1>7, Zenon DEF v, u, Ends

\* No line runs while the user looks back.
BrowsesAlone == "history while browsing" \notin Corners

LEMMA NextReadable ==
  ASSUME BrowsesAlone, Kept, Readable, [Next]_vars
  PROVE  Readable'
<1> DEFINE Goal == Readable'
<1>1. ASSUME UNCHANGED <<line, ti, events, linebuf, lines, sending>> PROVE Goal
  BY <1>1 DEF Readable
<1>2. ASSUME NEW q, Spoken(q)
      PROVE  Written([Now EXCEPT !.events = q])
  <2> DEFINE s == [Now EXCEPT !.events = q]
  <2>1. State(s) /\ s.events = q  BY NowState DEF Kept
  <2>2. s.line = line /\ s.ti = ti  BY DEF Now
  <2> HIDE DEF s
  <2>3. Written(s)  BY <1>2, <2>1, <2>2 DEF Written, Readable
  <2> QED  BY <2>3 DEF s
<1>3. Popped = [Now EXCEPT !.events = Tail(events)]  BY DEF Popped, Now
<1>4. \A q : [Popped EXCEPT !.events = q] = [Now EXCEPT !.events = q]  BY DEF Popped, Now
<1>5. ASSUME NEW s, Written(s), s.count = count, Numbered(s.events), Flush(s), open,
             Spoken(linebuf'), Spoken(lines')
      PROVE  Goal
  <2>1. Sends(sending) /\ s.count \in Nat /\ Spoken(TakenOf(sending))
    BY <1>5 DEF Kept, Held, Readable
  <2> QED  BY <1>5, <2>1, CalledReadable, NoInput DEF Flush
<1>6. ASSUME events # <<>>
      PROVE  /\ Spoken(Tail(events)) /\ Head(events).text \in Str /\ Written(Popped)
             /\ Popped.count = count /\ Numbered(Popped.events) /\ Numbered(Tail(events))
  <2>1. Spoken(Tail(events)) /\ Head(events).text \in Str  BY <1>6, SpokenOps DEF Readable
  <2>2. Numbered(Tail(events)) /\ Popped.events = Tail(events) /\ Popped.count = count
    BY <1>6, FirstTaken
  <2> QED  BY <1>2, <1>3, <2>1, <2>2
<1>7. Spoken(events) /\ Spoken(linebuf) /\ Spoken(lines) /\ Spoken(<<>>)
      /\ Spoken(TakenOf(sending))
  BY SpokenNone DEF Readable
<1>7a. \A q : [Now EXCEPT !.events = q].count = count /\ [Now EXCEPT !.events = q].events = q
  BY DEF Now
<1>8. Done.text \in Str  BY EmptyStr DEF Done
<1> HIDE DEF Goal
<1>9. ASSUME NEW t \in Tokens, Send(t) PROVE Goal
  BY <1>1, <1>9 DEF Send, ClientSends, shellVars
<1>10. ASSUME NEW n \in 1 .. 16, ReadLoop(n) PROVE Goal
  <2> DEFINE x == Chunk(n)
  <2>1. x \in Seq(Octet)  BY <1>10, ReceivedOctets
  <2>2. Now = [Now EXCEPT !.events = events]  BY DEF Now
  <2>3. open /\ interpret("read", Now, x, sending) /\ UNCHANGED <<linebuf, lines>>
    BY <1>10 DEF ReadLoop
  <2> HIDE DEF x
  <2>4. Written(Now)  BY <1>2, <1>7, <2>2
  <2>5. Sends(sending) /\ Spoken(TakenOf(sending)) /\ Now.count \in Nat /\ Numbered(Now.events)
    BY <2>3, NowState DEF Kept, Held, Readable
  <2> QED  BY <1>7, <2>1, <2>3, <2>4, <2>5, CalledReadable DEF Goal
<1>11. ASSUME ActionLoop(LineWaits) PROVE Goal
  <2>1. /\ open /\ events # <<>> /\ Flush(Popped) /\ UNCHANGED lines
        /\ linebuf' = Append(linebuf, Head(events))
    BY <1>11 DEF ActionLoop, LineWaits
  <2>2. Spoken(linebuf')  BY <1>6, <1>7, <2>1, SpokenOps
  <2> QED  BY <1>5, <1>6, <1>7, <2>1, <2>2
<1>12. ASSUME NEW o, LET Runs(e) == LineRuns(e, o) IN ActionLoop(Runs) PROVE Goal
  <2> DEFINE chunk == Append(lines, Head(events))
             s == AddHistory_(Popped, Texts(chunk))
  <2>1. /\ open /\ events # <<>> /\ UNCHANGED linebuf
        /\ \/ lines' = chunk /\ Flush(Popped)
           \/ ti.hist.saved = <<>> /\ lines' = <<>> /\ Flush(s)
    BY <1>12, Zenon DEF ActionLoop, LineRuns, BrowsesAlone
  <2>2. Spoken(chunk)  BY <1>6, <1>7, <2>1, SpokenOps
  <2>3. Texts(chunk) \in Str  BY <2>2, SpokenOps
  <2> HIDE DEF chunk
  <2>4. ASSUME ti.hist.saved = <<>>
        PROVE  Written(s) /\ s.count = count /\ Numbered(s.events)
    <3>1. /\ Written(Popped) /\ Popped.ti = ti /\ Popped.count = count /\ Numbered(Popped.events)
      <4>1. Popped.ti = ti  BY DEF Popped, Now
      <4> QED  BY <1>6, <2>1, <4>1
    <3>2. CASE mode = "edit"
      <4>1. s = [Popped EXCEPT !.ti = TeelAddHistory(ti, Texts(chunk))]
        BY <3>1, <3>2 DEF AddHistory_, Written, State, Fields
      <4>2. Area(TeelAddHistory(ti, Texts(chunk)))  BY <2>3, <2>4, AreaAdds DEF Readable
      <4> HIDE DEF s
      <4>3. s.count = Popped.count /\ s.events = Popped.events
        BY <3>1, <4>1 DEF Written, State, Fields
      <4> QED  BY <3>1, <4>1, <4>2, <4>3, WrittenSets
    <3>3. CASE mode # "edit"  BY <3>1, <3>3 DEF AddHistory_
    <3> QED  BY <3>2, <3>3
  <2> HIDE DEF s
  <2> QED  BY <1>5, <1>6, <1>7, <2>1, <2>2, <2>4
<1>13. ASSUME ActionLoop(TaskDone) PROVE Goal
  <2> DEFINE q == Tail(events) \o linebuf
  <2>1. /\ open /\ events # <<>> /\ UNCHANGED lines /\ linebuf' = <<>>
        /\ Flush([Popped EXCEPT !.events = @ \o linebuf])
    BY <1>13 DEF ActionLoop, TaskDone
  <2>2. [Popped EXCEPT !.events = @ \o linebuf] = [Now EXCEPT !.events = q]
    BY DEF Popped, Now
  <2>3. Spoken(q)  BY <1>6, <1>7, <2>1, SpokenOps
  <2>4. Numbered(q)  BY <1>6, <2>1, NumberedCat DEF Kept
  <2> HIDE DEF q
  <2> QED  BY <1>2, <1>5, <1>7, <1>7a, <2>1, <2>2, <2>3, <2>4
<1>14. ASSUME ActionLoop(Interrupt) PROVE Goal
  <2> DEFINE q == Append(Tail(events), Done)
  <2>1. /\ open /\ events # <<>> /\ lines' = <<>> /\ linebuf' = <<>>
        /\ Flush(IF foreground THEN [Popped EXCEPT !.events = Append(@, Done)] ELSE Popped)
    BY <1>14 DEF ActionLoop, Interrupt, DropLines
  <2>2. [Popped EXCEPT !.events = Append(@, Done)] = [Now EXCEPT !.events = q]
    BY DEF Popped, Now
  <2>3. Spoken(q)  BY <1>6, <1>8, <2>1, SpokenOps
  <2>4. Numbered(q)  BY <1>6, <2>1, DeathComes
  <2> HIDE DEF q
  <2> QED  BY <1>2, <1>5, <1>6, <1>7, <1>7a, <2>1, <2>2, <2>3, <2>4
<1>15. ASSUME ActionLoop(Suspend) PROVE Goal
  <2>1. open /\ events # <<>> /\ lines' = <<>> /\ linebuf' = <<>> /\ Flush(Popped)
    BY <1>15 DEF ActionLoop, Suspend, DropLines
  <2> QED  BY <1>5, <1>6, <1>7, <2>1
<1>16. ASSUME ActionLoop(Close) PROVE Goal
  <2>1. events # <<>> /\ Becomes(Popped) /\ UNCHANGED <<lines, linebuf, sending>>
    BY <1>16 DEF ActionLoop, Close
  <2> QED  BY <1>6, <1>7, <2>1 DEF Becomes, Written, Readable, Goal
<1>17. ASSUME TaskEnds PROVE Goal
  <2> DEFINE q == Append(events, Done)
  <2>1. Becomes([Now EXCEPT !.events = Append(@, Done)]) /\ UNCHANGED <<lines, linebuf, sending>>
    BY <1>17 DEF TaskEnds
  <2>2. [Now EXCEPT !.events = Append(@, Done)] = [Now EXCEPT !.events = q]  BY DEF Now
  <2>3. Spoken(q)  BY <1>7, <1>8, SpokenOps
  <2> HIDE DEF q
  <2>4. Written([Now EXCEPT !.events = q])  BY <1>2, <2>3
  <2> QED  BY <1>7, <2>1, <2>2, <2>4 DEF Becomes, Written, Readable, Goal
<1>18. ASSUME UNCHANGED vars PROVE Goal  BY <1>1, <1>18 DEF vars, telnetVars, shellVars
<1>19. ASSUME NEW o \in {"incomplete", "error", "runs", "background"},
              LET Runs(e) == LineRuns(e, o) IN ActionLoop(Runs)
       PROVE  Goal
  BY <1>12, <1>19 DEF ActionLoop
<1>20. ASSUME SendDone PROVE Goal
  <2> DEFINE q == events \o Taken
             s == [Now EXCEPT !.events = q]
  <2>1. /\ LET r == [Now EXCEPT !.events = @ \o Taken]
           IN interpret(sending[1].by, r, <<>>, <<>>) \/ (Becomes(r) /\ sending' = <<>>)
        /\ UNCHANGED <<lines, linebuf>>
    BY <1>20, Zenon DEF SendDone
  <2>2. [Now EXCEPT !.events = @ \o Taken] = s  BY DEF Now
  <2>3. Taken = TakenOf(sending)  BY DEF Taken, TakenOf
  <2>4. Spoken(q) /\ Numbered(q)
    <3>1. Spoken(q)  BY <1>7, <2>3, SpokenOps
    <3>2. Numbered(TakenOf(sending))  BY TakenSends DEF Kept
    <3> QED  BY <2>3, <3>1, <3>2, NumberedCat DEF Kept
  <2>5. Written(s) /\ s.count = count /\ s.events = q  BY <1>2, <1>7a, <2>4
  <2> HIDE DEF q, s
  <2>6. CASE Becomes(s) /\ sending' = <<>>
    BY <1>7, <2>1, <2>5, <2>6, TakenBy DEF Becomes, Written, Readable, Goal
  <2>7. CASE interpret(sending[1].by, s, <<>>, <<>>)
    <3>1. Sends(<<>>) /\ Spoken(TakenOf(<<>>)) /\ count \in Nat
      BY <1>7, TakenBy DEF Sends, Kept
    <3> QED  BY <1>7, <2>1, <2>4, <2>5, <2>7, <3>1, CalledReadable, NoInput DEF Goal
  <2> QED  BY <2>1, <2>2, <2>6, <2>7
<1>21. Goal
  BY <1>9, <1>10, <1>11, <1>13, <1>14, <1>15, <1>16, <1>17, <1>18, <1>19, <1>20 DEF Next
<1> QED  BY <1>21 DEF Goal

(* As long as no line runs while the user looks back, the cursor stays in  *)
(* the text, whatever the keys, the completion and the history do to it;   *)
(* the matcher holds exactly the bytes it compared, and the user's own     *)
(* line is kept as long as he sees another one, and no longer (teel.c,     *)
(* actions.c).                                                             *)
THEOREM UserInArea ==
  ASSUME "history while browsing" \notin Corners
  PROVE  Spec => []InArea
<1>1. Init => Kept /\ Readable  BY InitKept, InitReadable
<1>2. Kept /\ Readable /\ [Next]_vars => Kept' /\ Readable'
  BY NextKept, NextReadable, Zenon DEF BrowsesAlone
<1>3. Readable => InArea  BY DEF Readable, Area, Lined, InArea
<1> QED  BY <1>1, <1>2, <1>3, PTL DEF Spec
=============================================================================
