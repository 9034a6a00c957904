---------------------------- MODULE SchedProofs -----------------------------
(***************************************************************************)
(* Theorems about Sched, for every set of tasks, hooks, objects and        *)
(* events, every set of API calls and every bound: the types, that a hook  *)
(* which has been emptied is never found again, and that one without a     *)
(* delay is emptied by nothing but a kill.                                 *)
(*                                                                         *)
(* The first two come from one inductive invariant, Sound: the types, with *)
(* every queue and list of cells made of cells in Alive only. Its lemmas   *)
(* are about tables and stacks whose cells are in a set E: E is Alive      *)
(* before the step for what is left alone, Alive after it for what is      *)
(* emptied. The third adds Timely, about what timers refer to and call.    *)
(*                                                                         *)
(* The last part is for every program whose hooks do not block and which   *)
(* only kills tasks that are blocked: a task is in one place at most, and  *)
(* its death is signalled once. If besides no hook signals an emitter      *)
(* whose signal is being processed, no hook is ever lost. The inductive    *)
(* invariant is Placed.                                                    *)
(***************************************************************************)
EXTENDS Sched, SequenceTheorems, FiniteSetTheorems, WellFoundedInduction, TLAPS

(* Finite sets of indexes: their smallest, largest and n-th elements. *)

(* A set of naturals which is not empty has a smallest element. *)
LEMMA Smallest ==
    ASSUME NEW T \in SUBSET Nat, T # {}
    PROVE  \E x \in T : \A y \in T : x <= y
<1> DEFINE R == {p \in Nat \X Nat : p[1] < p[2]}
<1>1. R = OpToRel(<, Nat)
  BY Zenon DEF OpToRel
<1>2. IsWellFoundedOn(R, Nat)
  BY <1>1, NatLessThanWellFounded, Zenon
<1> HIDE DEF R
<1>3. PICK x \in T : \A y \in T : ~ (<<y, x>> \in R)
  BY <1>2, WFMin, Zenon
<1> USE DEF R
<1>4. \A y \in T : ~ (y < x)
  BY <1>3
<1> QED  BY <1>4

(* So has a set of indexes a largest one. *)
LEMMA Largest ==
    ASSUME NEW m \in Nat, NEW T \in SUBSET (1 .. m), T # {}
    PROVE  \E x \in T : \A y \in T : y <= x
<1> DEFINE U == {n \in Nat : m - n \in T}
<1>1. U # {}
  <2>1. PICK x \in T : TRUE  OBVIOUS
  <2>2. m - x \in Nat /\ m - (m - x) = x  BY <2>1
  <2> QED  BY <2>1, <2>2
<1>2. PICK u \in U : \A v \in U : u <= v  BY <1>1, Smallest
<1>3. \A y \in T : y <= m - u
  <2>1. TAKE y \in T
  <2>2. m - y \in Nat /\ m - (m - y) = y  BY <2>1
  <2>3. m - y \in U  BY <2>1, <2>2
  <2>4. u <= m - y  BY <1>2, <2>3
  <2> QED  BY <2>2, <2>4
<1>4. m - u \in T  BY <1>2
<1> QED  BY <1>3, <1>4

(* The n-th element of a finite set of indexes exists. *)
LEMMA Nth ==
    ASSUME NEW m \in Nat, NEW T \in SUBSET (1 .. m), NEW n \in 1 .. Cardinality(T)
    PROVE  \E k \in T : Cardinality({j \in T : j < k}) = n - 1
<1> DEFINE Below(k) == {j \in T : j < k}
           UpTo(k)  == {j \in T : j <= k}
<1>1. IsFiniteSet(T) /\ Cardinality(T) \in Nat
  <2>1. IsFiniteSet(1 .. m)  BY FS_Interval
  <2>2. IsFiniteSet(T)  BY <2>1, FS_Subset
  <2> QED  BY <2>2, FS_CardinalityType
<1>2. \A k \in T : /\ IsFiniteSet(Below(k)) /\ Cardinality(Below(k)) \in Nat
                   /\ Cardinality(UpTo(k)) = Cardinality(Below(k)) + 1
  <2>1. TAKE k \in T
  <2>2. IsFiniteSet(Below(k)) /\ Cardinality(Below(k)) \in Nat
    BY <1>1, FS_Subset, FS_CardinalityType
  <2>3. ~ (k < k) /\ \A j \in T : j <= k <=> j < k \/ j = k  BY <2>1
  <2>4. UpTo(k) = Below(k) \cup {k}  BY <2>1, <2>3
  <2>5. k \notin Below(k)  BY <2>3
  <2> QED  BY <2>2, <2>4, <2>5, FS_AddElement
<1> DEFINE U == {k \in T : n <= Cardinality(UpTo(k))}
<1>3. U # {}
  <2>1. T # {}  BY <1>1, FS_EmptySet
  <2>2. PICK k \in T : \A y \in T : y <= k  BY <2>1, Largest
  <2>3. UpTo(k) = T  BY <2>2
  <2> QED  BY <2>2, <2>3, <1>1
<1>4. PICK k \in U : \A y \in U : k <= y
  <2>1. U \in SUBSET Nat
    <3>1. U \subseteq T  BY Zenon
    <3>2. T \subseteq Nat  OBVIOUS
    <3> QED  BY <3>1, <3>2, Zenon
  <2> HIDE DEF U
  <2> QED  BY <1>3, <2>1, Smallest
<1>5. ~ n <= Cardinality(Below(k))
  <2>1. SUFFICES ASSUME n <= Cardinality(Below(k)) PROVE FALSE  OBVIOUS
  <2>2. Below(k) # {}  BY <2>1, FS_EmptySet
  <2>3. PICK x \in Below(k) : \A y \in Below(k) : y <= x
    <3>1. Below(k) \in SUBSET (1 .. m)  OBVIOUS
    <3> QED  BY <3>1, <2>2, Largest
  <2>4. UpTo(x) = Below(k)
    <3>1. x < k /\ x \in T  BY <2>3
    <3>2. ASSUME NEW j \in T PROVE j <= x <=> j < k  BY <2>3, <3>1, <1>4
    <3> QED  BY <3>2
  <2>5. x \in U  BY <2>1, <2>3, <2>4
  <2> QED  BY <2>3, <2>5, <1>4
<1>6. k \in T /\ n <= Cardinality(Below(k)) + 1 /\ Cardinality(Below(k)) \in Nat
  BY <1>2, <1>4
<1>7. Cardinality(Below(k)) = n - 1
  BY <1>1, <1>5, <1>6
<1> QED  BY <1>6, <1>7

(* An element of a finite set of indexes is the n-th for one n only. *)
LEMMA Rank ==
    ASSUME NEW m \in Nat, NEW T \in SUBSET (1 .. m), NEW k \in T
    PROVE  LET i == Cardinality({j \in T : j < k}) + 1
           IN  /\ i \in 1 .. Cardinality(T)
               /\ \A l \in T : Cardinality({j \in T : j < l}) = i - 1 => l = k
<1> DEFINE Below(x) == {j \in T : j < x}
<1>1. IsFiniteSet(T) /\ Cardinality(T) \in Nat
  <2>1. IsFiniteSet(1 .. m)  BY FS_Interval
  <2>2. IsFiniteSet(T)  BY <2>1, FS_Subset
  <2> QED  BY <2>2, FS_CardinalityType
<1>2. \A x \in T : IsFiniteSet(Below(x)) /\ Cardinality(Below(x)) \in Nat
  BY <1>1, FS_Subset, FS_CardinalityType
<1>3. ASSUME NEW x \in T, NEW y \in T, x < y
      PROVE  Cardinality(Below(x)) < Cardinality(Below(y))
  <2>1. Below(x) \subseteq Below(y)
    <3>1. \A j \in T : j \in Int  OBVIOUS
    <3>2. \A j \in T : j < x => j < y  BY <1>3, <3>1
    <3> QED  BY <3>2
  <2>2. x \in Below(y) /\ x \notin Below(x)  BY <1>3
  <2>3. Below(x) # Below(y)  BY <2>2
  <2> HIDE DEF Below
  <2> QED  BY <1>2, <2>1, <2>3, FS_Subset
<1>4. Cardinality(Below(k)) < Cardinality(T)
  <2>1. Below(k) \subseteq T /\ k \notin Below(k)  OBVIOUS
  <2>2. Below(k) # T  BY <2>1
  <2> HIDE DEF Below
  <2> QED  BY <1>1, <1>2, <2>1, <2>2, FS_Subset
<1>5. ASSUME NEW l \in T, Cardinality(Below(l)) = Cardinality(Below(k)) PROVE l = k
  <2>1. l \in Int /\ k \in Int  OBVIOUS
  <2>2. ~(l < k) /\ ~(k < l)
    <3> HIDE DEF Below
    <3> QED  BY <1>2, <1>3, <1>5
  <2> QED  BY <2>1, <2>2
<1> DEFINE c == Cardinality(Below(k))
<1>6. c \in Nat  BY <1>2
<1> HIDE DEF c
<1>7. (c + 1) - 1 = c  BY <1>6
<1>8. \A l \in T : Cardinality(Below(l)) = c => l = k  BY <1>5 DEF c
<1>9. c < Cardinality(T)  BY <1>4 DEF c
<1>10. c + 1 \in 1 .. Cardinality(T)  BY <1>1, <1>6, <1>9
<1> QED  BY <1>7, <1>8, <1>10 DEF c

-----------------------------------------------------------------------------
(* The cells which may be met: not those of the hooks that were emptied. *)
Zombies == {h \in Hooks : hook[h] = "emptied"}
Alive   == Entries \ Zombies

(* The types of a table of queues and of a stack of calls, whose cells are *)
(* all in E.                                                               *)
Table(w, E) == DOMAIN w \in SUBSET Slots /\ w \in [DOMAIN w -> Seq(E)]
Calls(s, E) == s \in Seq({f \in Frames : f.todo \in Seq(E)})

Statuses == {"none", "created", "suspended", "active", "dead"}

Sound ==
    /\ co \in [Tasks -> Statuses]
    /\ ready \in Seq(Tasks)
    /\ running \in Tasks \cup {None}
    /\ current \in Tasks \cup {None}
    /\ Table(waiting, Alive)
    /\ timers \in SUBSET (Owners \cap Alive)
    /\ hook \in [Hooks -> HookKinds]
    /\ target \in [Hooks -> Hooks \cup {None}]
    /\ multi \in SUBSET Owners
    /\ cleanup \in BOOLEAN
    /\ Calls(stack, Alive)
    /\ phase \in Phases
    /\ regs \in [Hooks -> SUBSET Slots]

-----------------------------------------------------------------------------
(* Sequences, tables and stacks built from others. *)

(* A function on 1..n is a sequence. *)
LEMMA SeqFcn ==
    ASSUME NEW S, NEW n \in Nat, NEW f \in [1 .. n -> S]
    PROVE  f \in Seq(S)
BY SeqDef, Zenon

(* What Alive is made of. *)
LEMMA AliveCells ==
    /\ Alive \in SUBSET Entries /\ Emptied \in Alive /\ Tasks \in SUBSET Alive
    /\ \A h \in Hooks : h \in Alive <=> hook[h] # "emptied"
BY IdAssumption DEF Alive, Zombies, Entries, Owners

(* Emptying cell c leaves a queue of cells other than c. *)
LEMMA EmptyInType ==
    ASSUME NEW E, NEW F, NEW q \in Seq(E), NEW c, E \ {c} \subseteq F, Emptied \in F
    PROVE  EmptyIn(q, c) \in Seq(F)
<1>1. Len(q) \in Nat /\ q \in [1 .. Len(q) -> E] /\ DOMAIN q = 1 .. Len(q)
  BY LenProperties, Zenon
<1>2. EmptyIn(q, c) \in [1 .. Len(q) -> F]
  BY <1>1 DEF EmptyIn
<1> QED  BY <1>1, <1>2, SeqFcn, Zenon

(* Emptying cell c leaves a table of cells other than c. *)
LEMMA EmptyWaitingType ==
    ASSUME NEW E, NEW F, NEW w, Table(w, E), NEW c,
           E \ {c} \subseteq F, Emptied \in F
    PROVE  Table(EmptyWaiting(w, c), F)
BY EmptyInType DEF Table, EmptyWaiting

(* Emptying cell c leaves a stack of calls that parse cells other than c. *)
LEMMA EmptyStackType ==
    ASSUME NEW E, NEW F \in SUBSET Entries, NEW s, Calls(s, E), NEW c,
           E \ {c} \subseteq F, Emptied \in F
    PROVE  /\ Calls(EmptyStack(s, c), F)
           /\ DOMAIN EmptyStack(s, c) = DOMAIN s
<1> DEFINE T == {f \in Frames : f.todo \in Seq(E)}
           U == {f \in Frames : f.todo \in Seq(F)}
<1>1. Len(s) \in Nat /\ s \in [1 .. Len(s) -> T] /\ DOMAIN s = 1 .. Len(s)
  BY LenProperties, Zenon DEF Calls
<1>2. \A i \in DOMAIN s : [s[i] EXCEPT !.todo = EmptyIn(s[i].todo, c)] \in U
  <2>1. TAKE i \in DOMAIN s
  <2>2. s[i] \in Frames /\ s[i].todo \in Seq(E)  BY <1>1, <2>1
  <2>3. EmptyIn(s[i].todo, c) \in Seq(F)  BY <2>2, EmptyInType
  <2>4. EmptyIn(s[i].todo, c) \in Seq(Entries)  BY <2>3, SeqMonotonic
  <2> QED  BY <2>2, <2>3, <2>4 DEF Frames
<1>3. EmptyStack(s, c) \in [1 .. Len(s) -> U]
  BY <1>1, <1>2 DEF EmptyStack
<1> HIDE DEF U
<1>4. EmptyStack(s, c) \in Seq(U)  BY <1>1, <1>3, SeqFcn
<1>5. DOMAIN EmptyStack(s, c) = DOMAIN s  BY DEF EmptyStack
<1> QED  BY <1>4, <1>5 DEF Calls, U

(* Registering a cell leaves a table. *)
LEMMA RegisterType ==
    ASSUME NEW E, NEW w, Table(w, E), NEW c \in E, NEW S \in SUBSET Slots
    PROVE  Table(Register(w, c, S), E)
<1>1. <<c>> \in Seq(E)  OBVIOUS
<1>2. \A p \in DOMAIN w : Append(w[p], c) \in Seq(E)
  BY AppendProperties DEF Table
<1> QED  BY <1>1, <1>2 DEF Table, Register

(* Removing queues leaves a table. *)
LEMMA WithoutType ==
    ASSUME NEW E, NEW w, Table(w, E), NEW S
    PROVE  Table(Without(w, S), E)
BY DEF Table, Without

(* Replacing a queue by an empty one leaves a table. *)
LEMMA FreshType ==
    ASSUME NEW E, NEW w, Table(w, E), NEW p
    PROVE  Table([w EXCEPT ![p] = <<>>], E)
BY EmptySeq DEF Table

(* A frame built from typed arguments is a frame. *)
LEMMA NewFrameType ==
    ASSUME NEW E \in SUBSET Entries,
           NEW em \in Emitters, NEW ev \in Keys, NEW slain \in BOOLEAN,
           NEW key \in Keys \cup {"resume"}, NEW todo \in Seq(E),
           NEW att \in {"queue", "row", "none"}, NEW who \in Owners \cup {None}
    PROVE  LET f == NewFrame(em, ev, slain, key, todo, att, who)
           IN  f \in Frames /\ f.todo \in Seq(E)
<1>1. todo \in Seq(Entries)  BY SeqMonotonic
<1> QED  BY <1>1, EmptySeq DEF NewFrame, Frames

(* Detaching outer calls leaves a stack. *)
LEMMA DisplaceType ==
    ASSUME NEW E, NEW s, Calls(s, E), NEW p, NEW q
    PROVE  Calls(Displace(s, p, q), E)
<1> DEFINE T == {f \in Frames : f.todo \in Seq(E)}
<1>1. Len(s) \in Nat /\ s \in [1 .. Len(s) -> T] /\ DOMAIN s = 1 .. Len(s)
  BY LenProperties, Zenon DEF Calls
<1>2. ASSUME NEW i \in DOMAIN s
      PROVE  [s[i] EXCEPT !.att = "row", !.full = (q # <<>>)] \in T
  <2> DEFINE b == q # <<>>
  <2>1. b \in BOOLEAN /\ s[i] \in Frames /\ s[i].todo \in Seq(E)  BY <1>1, <1>2
  <2> HIDE DEF b
  <2>2. [s[i] EXCEPT !.att = "row", !.full = b] \in T  BY <2>1 DEF Frames
  <2> QED  BY <2>2 DEF b
<1> HIDE DEF T
<1>3. Displace(s, p, q) \in [1 .. Len(s) -> T]
  BY <1>1, <1>2 DEF Displace
<1>4. Displace(s, p, q) \in Seq(T)  BY <1>1, <1>3, SeqFcn
<1> QED  BY <1>4 DEF Calls, T

(* Cutting every call of an emitter off its row leaves a stack. *)
LEMMA DropType ==
    ASSUME NEW E, NEW s, Calls(s, E), NEW em
    PROVE  Calls([i \in DOMAIN s |->
                    IF s[i].em = em THEN [s[i] EXCEPT !.att = "none"] ELSE s[i]], E)
<1> DEFINE T == {f \in Frames : f.todo \in Seq(E)}
           r == [i \in DOMAIN s |->
                   IF s[i].em = em THEN [s[i] EXCEPT !.att = "none"] ELSE s[i]]
<1>1. Len(s) \in Nat /\ s \in [1 .. Len(s) -> T] /\ DOMAIN s = 1 .. Len(s)
  BY LenProperties, Zenon DEF Calls
<1>2. \A i \in DOMAIN s : [s[i] EXCEPT !.att = "none"] \in T
  BY <1>1, ZenonT(60) DEF Frames
<1> HIDE DEF T
<1>3. r \in [1 .. Len(s) -> T]  BY <1>1, <1>2
<1> HIDE DEF r
<1>4. r \in Seq(T)  BY <1>1, <1>3, SeqFcn
<1> QED  BY <1>4 DEF Calls, T, r

(* Putting a call on top of the stack leaves a stack. *)
LEMMA PushType ==
    ASSUME NEW E, NEW f \in Frames, f.todo \in Seq(E), NEW s, Calls(s, E)
    PROVE  Calls(<<f>> \o s, E)
BY ConcatProperties DEF Calls

(* The top of a stack and the calls under it. *)
LEMMA TopType ==
    ASSUME NEW E, NEW s, Calls(s, E), s # <<>>
    PROVE  /\ Head(s) \in Frames /\ Head(s).todo \in Seq(E)
           /\ Calls(Tail(s), E)
BY HeadTailProperties DEF Calls

(* Entering signal() preserves the types. *)
LEMMA EmitType ==
    ASSUME NEW E \in SUBSET Entries,
           NEW em \in Emitters, NEW ev \in Keys, NEW slain \in BOOLEAN,
           NEW w, Table(w, E), NEW s, Calls(s, E), Emit(em, ev, slain, w, s)
    PROVE  Table(waiting', E) /\ Calls(stack', E)
<1> DEFINE queues == {k \in {Star, ev} : <<em, k>> \in DOMAIN w}
           key == IF Star \in queues THEN Star ELSE ev
           p == <<em, key>>
           f == NewFrame(em, ev, slain, key, w[p], "queue", None)
<1>1. CASE queues = {}
  BY <1>1 DEF Emit
<1>2. CASE queues # {}
  <2>1. p \in DOMAIN w /\ key \in Keys
    BY <1>2 DEF Keys
  <2>2. w[p] \in Seq(E)  BY <2>1 DEF Table
  <2>3. /\ waiting' = [w EXCEPT ![p] = <<>>]
        /\ stack' = <<f>> \o Displace(s, p, w[p])
    BY <1>2 DEF Emit
  <2>4. f \in Frames /\ f.todo \in Seq(E)
    BY <2>1, <2>2, NewFrameType
  <2>5. Calls(Displace(s, p, w[p]), E)  BY DisplaceType
  <2> HIDE DEF f, p
  <2> QED  BY <2>3, <2>4, <2>5, PushType, FreshType
<1> QED  BY <1>1, <1>2

(* Reattaching a cell preserves the types. *)
LEMMA ReattachType ==
    ASSUME NEW E, NEW c \in E, NEW w, Table(w, E), NEW s, Calls(s, E),
           s # <<>>, Reattach(c, w, s)
    PROVE  Table(waiting', E) /\ Calls(stack', E)
<1> DEFINE f == Head(s)
           p == <<f.em, f.key>>
<1>1. f \in Frames /\ f.todo \in Seq(E) /\ Calls(Tail(s), E)  BY TopType
<1>2. CASE f.att = "queue"
  <2>1. waiting' = [w EXCEPT ![p] = Append(w[p], c)] /\ stack' = s
    BY <1>2 DEF Reattach
  <2>2. \A x \in DOMAIN w : Append(w[x], c) \in Seq(E)
    BY AppendProperties DEF Table
  <2> QED  BY <2>1, <2>2 DEF Table
<1>3. CASE f.att # "queue"
  <2> DEFINE g == [f EXCEPT !.full = TRUE]
  <2>1. g \in Frames /\ g.todo \in Seq(E)  BY <1>1 DEF Frames
  <2>2. waiting' = w /\ stack' = <<g>> \o Tail(s)  BY <1>3 DEF Reattach
  <2> HIDE DEF g
  <2> QED  BY <1>1, <2>1, <2>2, PushType
<1> QED  BY <1>2, <1>3

(* What gc keeps of a queue are cells of the queue. *)
LEMMA KeptType ==
    ASSUME NEW E, NEW q \in Seq(E)
    PROVE  Kept(q) \in Seq(E)
<1> DEFINE live == {i \in DOMAIN q : LiveCell(q[i])}
           n == Cardinality(live)
           at(i) == CHOOSE k \in live : Cardinality({j \in live : j < k}) = i - 1
<1>1. Len(q) \in Nat /\ q \in [1 .. Len(q) -> E] /\ DOMAIN q = 1 .. Len(q)
  BY LenProperties, Zenon
<1>2. live \in SUBSET (1 .. Len(q))  BY <1>1
<1>3. n \in Nat
  <2> HIDE DEF live
  <2>1. IsFiniteSet(1 .. Len(q))  BY <1>1, FS_Interval
  <2>2. IsFiniteSet(live)  BY <1>2, <2>1, FS_Subset
  <2> QED  BY <2>2, FS_CardinalityType
<1>4. \A i \in 1 .. n : at(i) \in live
  <2> HIDE DEF live
  <2>1. \A i \in 1 .. n : \E k \in live : Cardinality({j \in live : j < k}) = i - 1
    BY <1>1, <1>2, Nth
  <2> QED  BY <2>1
<1>5. Kept(q) = [i \in 1 .. n |-> q[at(i)]]
  BY DEF Kept
<1> HIDE DEF at, n
<1>6. \A i \in 1 .. n : q[at(i)] \in E
  BY <1>1, <1>4
<1>7. Kept(q) \in [1 .. n -> E]
  BY <1>5, <1>6
<1> QED  BY <1>3, <1>7, SeqFcn, Zenon

(* gc preserves the types. *)
LEMMA CollectedType ==
    ASSUME NEW E, NEW w, Table(w, E), NEW s
    PROVE  Table(Collected(w, s), E)
<1> DEFINE kept == [p \in DOMAIN w |-> Kept(w[p])]
<1>1. Table(kept, E)  BY KeptType DEF Table
<1> HIDE DEF kept
<1>2. Table(Without(kept, {p \in DOMAIN w : kept[p] = <<>>}), E)
  BY <1>1, WithoutType
<1> QED  BY <1>1, <1>2 DEF Collected, kept

-----------------------------------------------------------------------------
(* The invariant, and what the parts of the actions do to it. *)

(* Sound implies the two properties. *)
LEMMA SoundImplies == ASSUME Sound PROVE TypeOK /\ NoZombieHook
<1>1. \A p \in DOMAIN waiting : waiting[p] \in Seq(Entries)
  <2> SUFFICES ASSUME NEW p \in DOMAIN waiting PROVE waiting[p] \in Seq(Entries)
    OBVIOUS
  <2>1. waiting[p] \in Seq(Alive)  BY DEF Sound, Table
  <2> QED  BY <2>1, AliveCells, SeqMonotonic
<1>2. stack \in Seq(Frames)
  <2> DEFINE T == {f \in Frames : f.todo \in Seq(Alive)}
  <2>1. stack \in Seq(T) /\ T \subseteq Frames  BY DEF Sound, Calls
  <2> HIDE DEF T
  <2> QED  BY <2>1, SeqMonotonic
<1>3. TypeOK
  BY <1>1, <1>2 DEF Sound, TypeOK, Table, Statuses
<1>4. NoZombieHook
  <2> SUFFICES ASSUME NEW h \in Hooks, hook[h] = "emptied" PROVE ~HasCell(h)
    BY DEF NoZombieHook
  <2>1. h \notin Alive  BY AliveCells
  <2>2. h \notin timers  BY <2>1 DEF Sound
  <2>3. ASSUME NEW p \in DOMAIN waiting, NEW i \in DOMAIN waiting[p]
        PROVE  waiting[p][i] # h
    <3>1. waiting[p] \in Seq(Alive)  BY DEF Sound, Table
    <3> QED  BY <2>1, <3>1
  <2>4. ASSUME NEW j \in DOMAIN stack, NEW i \in DOMAIN stack[j].todo
        PROVE  stack[j].todo[i] # h
    <3>1. stack[j].todo \in Seq(Alive)  BY DEF Sound, Calls
    <3> QED  BY <2>1, <3>1
  <2> QED  BY <2>2, <2>3, <2>4 DEF HasCell
<1> QED  BY <1>3, <1>4

(* Who executes has a type, and only a call in progress runs a hook. *)
LEMMA ActorType ==
    ASSUME Sound
    PROVE  /\ Actor \in Owners \cup {None}
           /\ Actor \in Hooks => stack # <<>>
           /\ stack # <<>> => /\ Head(stack) \in Frames
                              /\ Head(stack).todo \in Seq(Alive)
                              /\ Calls(Tail(stack), Alive)
<1>1. stack # <<>> => /\ Head(stack) \in Frames
                      /\ Head(stack).todo \in Seq(Alive)
                      /\ Calls(Tail(stack), Alive)
  BY TopType DEF Sound
<1>2. Actor \in Owners \cup {None}
  BY <1>1 DEF Actor, Sound, Owners, Frames
<1>3. Actor \in Hooks => stack # <<>>
  BY IdAssumption DEF Actor, Sound
<1> QED  BY <1>1, <1>2, <1>3

(* No cell dies while the hooks stay what they are. *)
LEMMA AliveKept == ASSUME hook' = hook PROVE Alive' = Alive
BY DEF Alive, Zombies

(* Registering a free hook cell brings no dead one. *)
LEMMA AliveGrown ==
    ASSUME Sound, NEW h \in Hooks, hook[h] = "free",
           NEW kind \in HookKinds \ {"emptied"}, hook' = [hook EXCEPT ![h] = kind]
    PROVE  Alive' = Alive
BY DEF Alive, Zombies, Sound

(* When hook h is emptied, the other cells stay alive. *)
LEMMA ClearHookType ==
    ASSUME Sound, NEW h \in Hooks, ClearHook(h)
    PROVE  /\ hook' \in [Hooks -> HookKinds]
           /\ target' \in [Hooks -> Hooks \cup {None}]
           /\ multi' \in SUBSET Owners
           /\ timers' \in SUBSET (Owners \cap Alive')
           /\ regs' \in [Hooks -> SUBSET Slots]
           /\ Alive \ {h} \subseteq Alive' /\ Emptied \in Alive'
           /\ Alive' \in SUBSET Entries
<1>1. hook' = [hook EXCEPT ![h] = "emptied"]  BY DEF ClearHook
<1>2. Alive \ {h} \subseteq Alive' /\ Alive' \in SUBSET Entries
  BY <1>1 DEF Sound, Alive, Zombies
<1>3. Emptied \in Alive'  BY <1>2, AliveCells, IdAssumption DEF Owners
<1>4. timers' \in SUBSET (Owners \cap Alive')  BY <1>2 DEF ClearHook, Sound
<1> QED  BY <1>1, <1>2, <1>3, <1>4 DEF Sound, ClearHook, HookKinds

(* Emptying the cell of hook h everywhere leaves tables of living cells. *)
LEMMA ClearedType ==
    ASSUME Sound, NEW h \in Hooks, ClearHook(h),
           NEW w, Table(w, Alive), NEW s, Calls(s, Alive)
    PROVE  Table(EmptyWaiting(w, h), Alive') /\ Calls(EmptyStack(s, h), Alive')
BY ClearHookType, EmptyWaitingType, EmptyStackType

(* Emptying the cell of task t everywhere leaves tables of living cells. *)
LEMMA TaskClearedType ==
    ASSUME NEW w, Table(w, Alive), NEW s, Calls(s, Alive), NEW t
    PROVE  Table(EmptyWaiting(w, t), Alive) /\ Calls(EmptyStack(s, t), Alive)
BY AliveCells, EmptyWaitingType, EmptyStackType

(* Yielding preserves the types. *)
LEMMA SuspendType ==
    ASSUME Sound, Actor \in Tasks, NEW w, Table(w, Alive), Suspend(w)
    PROVE  /\ running' \in Tasks \cup {None}
           /\ current' \in Tasks \cup {None}
           /\ co' \in [Tasks -> Statuses]
           /\ Table(waiting', Alive) /\ Calls(stack', Alive)
<1>1. co' \in [Tasks -> Statuses]
  BY DEF Suspend, Sound, Statuses
<1>2. CASE stack = <<>>
  BY <1>1, <1>2 DEF Suspend, Sound
<1>3. CASE stack # <<>>
  <2>1. Emit(Actor, Die, FALSE, w, Tail(stack)) /\ UNCHANGED current
    BY <1>3 DEF Suspend
  <2>2. Calls(Tail(stack), Alive) /\ Actor \in Emitters /\ Die \in Keys
    BY <1>3, ActorType DEF Emitters, Keys
  <2>3. Table(waiting', Alive) /\ Calls(stack', Alive)
    BY <2>1, <2>2, EmitType, AliveCells
  <2> QED  BY <1>1, <2>1, <2>3 DEF Suspend, Sound
<1> QED  BY <1>2, <1>3

(* The end of a task preserves the invariant. *)
LEMMA EndType ==
    ASSUME Sound, Actor \in Tasks, NEW slain \in BOOLEAN, End(slain)
    PROVE  Sound'
<1>1. co' \in [Tasks -> Statuses]
  BY DEF End, Sound, Statuses
<1>2. /\ Table(waiting', Alive) /\ Calls(stack', Alive)
      /\ current' \in Tasks \cup {None}
  <2>1. Actor \in Emitters /\ Die \in Keys  BY DEF Emitters, Keys
  <2>2. Table(waiting, Alive) /\ Calls(stack, Alive)  BY DEF Sound
  <2>3. CASE stack = <<>>
    BY <2>1, <2>2, <2>3, EmitType, AliveCells DEF End
  <2>4. CASE stack # <<>>
    BY <2>1, <2>2, <2>4, ActorType, EmitType, AliveCells DEF End, Sound
  <2> QED  BY <2>3, <2>4
<1>3. Alive' = Alive  BY AliveKept DEF End, cells
<1> QED  BY <1>1, <1>2, <1>3 DEF End, Sound, cells

(* The end of a hook preserves the invariant. *)
LEMMA HookReturnsType ==
    ASSUME Sound, Actor \in Hooks, NEW killed, NEW w, Table(w, Alive),
           HookReturns(killed, w), running' \in Tasks \cup {None}
    PROVE  Sound'
<1> DEFINE f == Head(stack)
           h == f.who
           g == [f EXCEPT !.who = None]
           s == <<g>> \o Tail(stack)
<1>1. /\ stack # <<>> /\ f \in Frames /\ f.todo \in Seq(Alive)
      /\ Calls(Tail(stack), Alive) /\ h \in Hooks
  BY ActorType DEF Actor
<1>2. Calls(s, Alive) /\ s # <<>>
  <2>1. g \in Frames /\ g.todo \in Seq(Alive)  BY <1>1 DEF Frames
  <2> HIDE DEF g
  <2>2. Calls(s, Alive)  BY <1>1, <2>1, PushType
  <2>3. s # <<>>  BY <1>1, <2>1 DEF Calls
  <2> QED  BY <2>2, <2>3
<1>3. UNCHANGED <<co, ready, current, cleanup, phase>>
  BY DEF HookReturns
<1>4. CASE f.key = Timeout
  <2>1. /\ ClearHook(h) /\ waiting' = EmptyWaiting(w, h)
        /\ stack' = EmptyStack(Tail(stack), h)
    BY <1>4 DEF HookReturns
  <2>2. Table(waiting', Alive') /\ Calls(stack', Alive')
    BY <1>1, <2>1, ClearedType
  <2> QED  BY <1>1, <1>3, <2>1, <2>2, ClearHookType DEF Sound
<1>5. CASE f.key # Timeout /\ (killed \/ hook[h] = "once")
  <2>1. /\ ClearHook(h) /\ waiting' = EmptyWaiting(w, h)
        /\ stack' = EmptyStack(s, h)
    BY <1>5 DEF HookReturns
  <2>2. Table(waiting', Alive') /\ Calls(stack', Alive')
    <3> HIDE DEF h, s
    <3> QED  BY <1>1, <1>2, <2>1, ClearedType
  <2> QED  BY <1>1, <1>3, <2>1, <2>2, ClearHookType DEF Sound
<1>6. CASE f.key # Timeout /\ ~(killed \/ hook[h] = "once")
  <2> DEFINE c == IF hook[h] = "emptied" THEN Emptied ELSE h
  <2>1. Reattach(c, w, s) /\ KeepHook
    BY <1>6 DEF HookReturns
  <2>2. c \in Alive  BY <1>1, AliveCells
  <2>3. Alive' = Alive  BY <2>1, AliveKept DEF KeepHook
  <2> HIDE DEF c, s
  <2>4. Table(waiting', Alive) /\ Calls(stack', Alive)
    BY <1>2, <2>1, <2>2, ReattachType
  <2> QED  BY <1>3, <2>1, <2>3, <2>4 DEF Sound, KeepHook
<1> QED  BY <1>4, <1>5, <1>6

(* Event lists name slots. *)
LEMMA ListsType ==
    ASSUME NEW em, NEW evs \in Lists(em)
    PROVE  evs \in SUBSET Keys
BY ListAssumption DEF Lists, Keys

(* The emitters a program knows are emitters. *)
LEMMA KnownType == Known \subseteq Emitters
BY DEF Known, Created, Emitters

(* Blocking preserves the invariant. *)
LEMMA BlockType ==
    ASSUME Sound, NEW S \in SUBSET Slots, NEW isMulti, Block(S, isMulti)
    PROVE  Sound'
<1>1. running \in Tasks /\ running \in Alive /\ running \in Owners
  BY AliveCells DEF Block, Sound, Owners
<1>2. Table(Register(waiting, running, S), Alive)
  BY <1>1, RegisterType DEF Sound
<1>3. /\ running' \in Tasks \cup {None}
      /\ current' \in Tasks \cup {None}
      /\ co' \in [Tasks -> Statuses]
      /\ Table(waiting', Alive) /\ Calls(stack', Alive)
  BY <1>2, SuspendType DEF Block
<1>4. timers' \in SUBSET (Owners \cap Alive) /\ multi' \in SUBSET Owners
  BY <1>1 DEF Block, Sound
<1>5. Alive' = Alive  BY AliveKept DEF Block
<1> QED  BY <1>3, <1>4, <1>5 DEF Block, Sound

-----------------------------------------------------------------------------
(* The actions. *)

(* The calls that only tasks make preserve the invariant. *)
LEMMA TaskCallSound == ASSUME Sound, TaskCall PROVE Sound'
<1>1. CASE Finish
  BY <1>1, EndType DEF Finish
<1>2. CASE Yield
  <2>1. running \in Tasks /\ ready' \in Seq(Tasks)
    BY <1>2, AppendProperties DEF Yield, Sound
  <2>2. Table(waiting, Alive)  BY DEF Sound
  <2>3. Alive' = Alive  BY <1>2, AliveKept DEF Yield, cells
  <2> QED  BY <1>2, <2>1, <2>2, <2>3, SuspendType DEF Yield, Sound, cells
<1>3. CASE WaitFails
  BY <1>3, EndType DEF WaitFails
<1>4. ASSUME NEW em \in Known, NEW evs \in Lists(em), Wait(em, evs)
      PROVE  Sound'
  <2>1. {em} \X evs \in SUBSET Slots
    BY ListsType, KnownType DEF Slots
  <2> QED  BY <1>4, <2>1, BlockType DEF Wait
<1>5. ASSUME NEW ems \in SUBSET (Known \ {Clock}),
             NEW evs \in UNION {Lists(em) : em \in ems}, MultiWait(ems, evs)
      PROVE  Sound'
  <2>1. ems \X evs \in SUBSET Slots
    BY ListsType, KnownType DEF Slots
  <2> QED  BY <1>5, <2>1, BlockType DEF MultiWait
<1> QED  BY <1>1, <1>2, <1>3, <1>4, <1>5 DEF TaskCall

(* The calls made by tasks and hooks alike preserve the invariant. *)
LEMMA AnyCallSound == ASSUME Sound, AnyCall PROVE Sound'
<1>0. Table(waiting, Alive) /\ Calls(stack, Alive)  BY DEF Sound
<1>1. ASSUME NEW t \in Tasks, Run(t) PROVE Sound'
  <2>1. ready' \in Seq(Tasks)  BY <1>1, AppendProperties DEF Run, Sound
  <2>2. co' \in [Tasks -> Statuses]  BY <1>1 DEF Run, Sound, Statuses
  <2>3. Alive' = Alive  BY <1>1, AliveKept DEF Run, cells
  <2> QED  BY <1>1, <2>1, <2>2, <2>3 DEF Run, Sound, cells
<1>2. ASSUME NEW em \in Objects, NEW ev \in Events, Signal(em, ev) PROVE Sound'
  <2>1. em \in Emitters /\ ev \in Keys  BY DEF Emitters, Keys
  <2>2. Table(waiting', Alive) /\ Calls(stack', Alive)
    BY <1>0, <1>2, <2>1, EmitType, AliveCells DEF Signal
  <2>3. Alive' = Alive  BY <1>2, AliveKept DEF Signal, cells
  <2> QED  BY <1>2, <2>2, <2>3 DEF Signal, Sound, cells
<1>3. ASSUME NEW h \in Hooks, NEW kind \in {"hook", "once", "run", "runonce"},
             NEW em \in Known, NEW evs \in Lists(em), SigHook(h, kind, em, evs)
      PROVE  Sound'
  <2> DEFINE S == {em} \X evs
  <2>1. S \in SUBSET Slots  BY ListsType, KnownType DEF Slots
  <2>2. h \in Alive /\ h \in Owners  BY <1>3, AliveCells DEF SigHook, Owners
  <2>3. Table(waiting', Alive)  BY <1>0, <1>3, <2>1, <2>2, RegisterType DEF SigHook
  <2>4. hook' \in [Hooks -> HookKinds] /\ regs' \in [Hooks -> SUBSET Slots]
    BY <1>3, <2>1 DEF SigHook, Sound, HookKinds
  <2>5. timers' \in SUBSET (Owners \cap Alive) /\ multi' \in SUBSET Owners
    BY <1>3, <2>2 DEF SigHook, Sound
  <2>6. Alive' = Alive
    BY <1>3, AliveGrown DEF SigHook, HookKinds
  <2> QED  BY <1>3, <2>3, <2>4, <2>5, <2>6 DEF SigHook, Sound
<1>4. CASE Gc
  <2>1. Table(waiting', Alive)  BY <1>0, <1>4, CollectedType DEF Gc
  <2>2. Alive' = Alive  BY <1>4, AliveKept DEF Gc, cells
  <2> QED  BY <1>4, <2>1, <2>2 DEF Gc, Sound, cells
<1>5. CASE KillSelf
  <2>1. CASE Actor \in Tasks  BY <1>5, <2>1, EndType DEF KillSelf
  <2>2. CASE Actor \notin Tasks
    <3>1. Actor \in Hooks
      BY <1>5, <2>2, ActorType DEF KillSelf, May, Owners
    <3>2. HookReturns(TRUE, waiting) /\ running' \in Tasks \cup {None}
      BY <1>5, <2>2 DEF KillSelf, Sound
    <3> QED  BY <1>0, <3>1, <3>2, HookReturnsType
  <2> QED  BY <2>1, <2>2
<1>6. ASSUME NEW x \in Tasks, KillSuspended(x) PROVE Sound'
  <2>1. Table(EmptyWaiting(waiting, x), Alive) /\ Calls(EmptyStack(stack, x), Alive)
    BY <1>0, TaskClearedType
  <2>2. x \in Emitters /\ Die \in Keys  BY DEF Emitters, Keys
  <2>3. Table(waiting', Alive) /\ Calls(stack', Alive)
    BY <1>6, <2>1, <2>2, EmitType, AliveCells DEF KillSuspended
  <2>4. co' \in [Tasks -> Statuses]
    BY <1>6 DEF KillSuspended, Sound, Statuses
  <2>5. Alive' = Alive  BY <1>6, AliveKept DEF KillSuspended
  <2> QED  BY <1>6, <2>3, <2>4, <2>5 DEF KillSuspended, Sound
<1>7. ASSUME NEW x \in Tasks, KillNew(x) PROVE Sound'
  <2> DEFINE f == NewFrame(x, Die, FALSE, "resume", <<>>, "none", x)
  <2>1. f \in Frames /\ f.todo \in Seq(Alive)
    BY NewFrameType, EmptySeq, AliveCells DEF Emitters, Keys, Owners
  <2>2. stack' = <<f>> \o stack  BY <1>7 DEF KillNew
  <2>3. Calls(stack', Alive)
    <3> HIDE DEF f
    <3> QED  BY <1>0, <2>1, <2>2, PushType
  <2>4. co' \in [Tasks -> Statuses]
    BY <1>7 DEF KillNew, Sound, Statuses
  <2>5. Alive' = Alive  BY <1>7, AliveKept DEF KillNew, cells
  <2> QED  BY <1>7, <2>3, <2>4, <2>5 DEF KillNew, Sound, cells
<1>8. ASSUME NEW x \in Tasks, KillGone(x) PROVE Sound'
  <2>1. x \in Emitters /\ Die \in Keys  BY DEF Emitters, Keys
  <2>2. Table(waiting', Alive) /\ Calls(stack', Alive)
    BY <1>0, <1>8, <2>1, EmitType, AliveCells DEF KillGone
  <2>3. Alive' = Alive  BY <1>8, AliveKept DEF KillGone, cells
  <2> QED  BY <1>8, <2>2, <2>3 DEF KillGone, Sound, cells
<1>9. ASSUME NEW h \in Hooks, KillHook(h) PROVE Sound'
  <2>1. ClearHook(h)  BY <1>9 DEF KillHook
  <2>2. Table(waiting', Alive') /\ Calls(stack', Alive')
    BY <1>0, <1>9, <2>1, ClearedType DEF KillHook
  <2> QED  BY <1>9, <2>1, <2>2, ClearHookType DEF KillHook, Sound
<1> QED  BY <1>1, <1>2, <1>3, <1>4, <1>5, <1>6, <1>7, <1>8, <1>9 DEF AnyCall

(* The calls that only hooks make, and their end, preserve the invariant. *)
LEMMA HookCallSound == ASSUME Sound, HookCall PROVE Sound'
<1>0. Table(waiting, Alive)  BY DEF Sound
<1>1. CASE HookDone
  BY <1>0, <1>1, HookReturnsType DEF HookDone, Sound
<1>2. ASSUME NEW em \in Objects, NEW ev \in Events, BlockInHook(em, ev)
      PROVE  Sound'
  <2>1. running \in Tasks /\ {<<em, ev>>} \in SUBSET Slots
    BY <1>2 DEF BlockInHook, Sound, Slots, Emitters, Keys
  <2>2. Table(Register(waiting, running, {<<em, ev>>}), Alive)
    BY <1>0, <2>1, AliveCells, RegisterType
  <2> QED  BY <1>2, <2>2, HookReturnsType DEF BlockInHook
<1> QED  BY <1>1, <1>2 DEF HookCall

(* Taking a cell leaves a stack, with the call that takes it on top. *)
LEMMA TakenType ==
    ASSUME Sound, NEW c, NextCell(c)
    PROVE  /\ Calls(Taken, Alive) /\ Taken # <<>>
           /\ Head(Taken) \in Frames /\ Head(Taken).todo \in Seq(Alive)
           /\ Calls(Tail(Taken), Alive)
<1> DEFINE f == [Head(stack) EXCEPT !.todo = Tail(Head(stack).todo)]
<1>1. /\ stack # <<>> /\ Head(stack) \in Frames
      /\ Head(stack).todo \in Seq(Alive) /\ Calls(Tail(stack), Alive)
  BY ActorType DEF NextCell, Parsing
<1>2. Tail(Head(stack).todo) \in Seq(Alive)
  BY <1>1, HeadTailProperties DEF NextCell
<1>3. Tail(Head(stack).todo) \in Seq(Entries)
  BY <1>2, AliveCells, SeqMonotonic
<1>4. f \in Frames /\ f.todo \in Seq(Alive)  BY <1>1, <1>2, <1>3 DEF Frames
<1> HIDE DEF f
<1>5. Taken = <<f>> \o Tail(stack)  BY DEF Taken, f
<1>6. Calls(Taken, Alive)  BY <1>1, <1>4, <1>5, PushType
<1>7. Taken # <<>>  BY <1>1, <1>4, <1>5 DEF Calls
<1> QED  BY <1>6, <1>7, TopType

(* Starting a thread preserves the types. *)
LEMMA SpawnType ==
    ASSUME Sound, NEW t \in Tasks, Spawn(t)
    PROVE  co' \in [Tasks -> Statuses] /\ ready' \in Seq(Tasks)
<1>1. ready' \in Seq(Tasks)  BY AppendProperties DEF Spawn, Sound
<1> QED  BY <1>1 DEF Spawn, Sound, Statuses

(* The end of a queue preserves the types. *)
LEMMA EndQueueType ==
    ASSUME Sound, EndQueue
    PROVE  Table(waiting', Alive) /\ Calls(stack', Alive) /\ ready' \in Seq(Tasks)
<1> DEFINE f     == Head(stack)
           p     == <<f.em, f.key>>
           empty == IF f.att = "queue" THEN waiting[p] = <<>> ELSE ~f.full
           gone  == IF f.att # "none" THEN {p} ELSE {}
           w1    == IF empty THEN Without(waiting, gone) ELSE waiting
           drop  == empty /\ (f.att = "none" \/ RowOf(w1, f.em) = {})
           w     == IF drop THEN Without(w1, RowOf(w1, f.em)) ELSE w1
           cut   == [i \in DOMAIN stack |->
                        IF stack[i].em = f.em
                        THEN [stack[i] EXCEPT !.att = "none"] ELSE stack[i]]
           s     == IF drop THEN cut ELSE stack
           q     == <<f.em, f.ev>>
           more  == f.key = Star /\ q \in DOMAIN w /\ Head(s).att # "none"
           fresh == NewFrame(f.em, f.ev, f.slain, f.ev, w[q], "queue", None)
           next  == [fresh EXCEPT !.woken = f.woken]
<1>0. Table(waiting, Alive) /\ Calls(stack, Alive) /\ stack # <<>>
  BY DEF EndQueue, Parsing, Sound
<1>1. f \in Frames  BY <1>0, TopType
<1>2. Table(w1, Alive)
  <2> HIDE DEF gone, empty
  <2> QED  BY <1>0, WithoutType
<1>3. Table(w, Alive)
  <2> HIDE DEF w1, drop
  <2> QED  BY <1>2, WithoutType
<1>4. Calls(cut, Alive)
  <2> HIDE DEF f
  <2> QED  BY <1>0, DropType
<1>5. cut # <<>>
  <2>1. 1 \in DOMAIN stack  BY <1>0 DEF Calls
  <2>2. DOMAIN cut = DOMAIN stack  OBVIOUS
  <2> HIDE DEF cut
  <2> QED  BY <2>1, <2>2
<1>6. Calls(s, Alive) /\ s # <<>>
  <2> HIDE DEF cut, drop
  <2> QED  BY <1>0, <1>4, <1>5
<1>7. Calls(Tail(s), Alive)
  <2> HIDE DEF s
  <2> QED  BY <1>6, TopType, SMTT(40)
<1>8. /\ IF more
         THEN /\ waiting' = [w EXCEPT ![q] = <<>>]
              /\ stack' = <<next>> \o Displace(Tail(s), q, w[q])
              /\ UNCHANGED ready
         ELSE /\ waiting' = w
              /\ stack' = Tail(s)
              /\ ready' = ready \o f.woken
  BY DEF EndQueue
<1>9. ready' \in Seq(Tasks)
  <2>1. ready \in Seq(Tasks) /\ f.woken \in Seq(Tasks)
    BY <1>1 DEF Frames, Sound
  <2>2. ready \o f.woken \in Seq(Tasks)  BY <2>1, ConcatProperties
  <2> HIDE DEF f, more
  <2> QED  BY <1>8, <2>1, <2>2
<1>10. CASE more
  <2>1. /\ waiting' = [w EXCEPT ![q] = <<>>]
        /\ stack' = <<next>> \o Displace(Tail(s), q, w[q])
        /\ q \in DOMAIN w
    BY <1>8, <1>10
  <2> HIDE DEF w, s, more
  <2>2. w[q] \in Seq(Alive)  BY <1>3, <2>1 DEF Table
  <2>3. fresh \in Frames /\ fresh.todo \in Seq(Alive)
    BY <1>1, <2>2, AliveCells, NewFrameType DEF Frames
  <2> HIDE DEF fresh
  <2>4. next \in Frames /\ next.todo \in Seq(Alive)  BY <1>1, <2>3 DEF Frames
  <2> HIDE DEF next, q
  <2>5. Calls(Displace(Tail(s), q, w[q]), Alive)  BY <1>7, DisplaceType
  <2>6. Calls(stack', Alive)  BY <2>1, <2>4, <2>5, PushType
  <2>7. Table(waiting', Alive)  BY <1>3, <2>1, FreshType
  <2> QED  BY <1>9, <2>6, <2>7
<1>11. CASE ~more
  <2>1. waiting' = w /\ stack' = Tail(s)  BY <1>8, <1>11
  <2> HIDE DEF w, s
  <2> QED  BY <1>3, <1>7, <1>9, <2>1
<1> QED  BY <1>10, <1>11

(* A sigRun hook h, whose cell is in w, has started task t and registered  *)
(* h2 for its death.                                                       *)
LEMMA BornType ==
    ASSUME Sound, NEW t \in Unborn, NEW h2 \in Unused, NEW h \in Hooks,
           NEW E \in SUBSET Entries, h2 \in E, NEW w, Table(w, E)
    PROVE  /\ t \in Tasks /\ h2 \in Hooks
           /\ Table(Register(w, h2, {<<t, Die>>}), E)
           /\ [target EXCEPT ![h2] = h] \in [Hooks -> Hooks \cup {None}]
<1>1. /\ t \in Tasks /\ h2 \in Hooks
      /\ {<<t, Die>>} \in SUBSET Slots
  BY DEF Unborn, Unused, Slots, Emitters, Keys
<1>2. Table(Register(w, h2, {<<t, Die>>}), E)  BY <1>1, RegisterType
<1> QED  BY <1>1, <1>2 DEF Sound

(* The parsing of a cell preserves the invariant. *)
LEMMA ParseStepSound == ASSUME Sound, ParseStep PROVE Sound'
<1>0. Table(waiting, Alive) /\ Calls(stack, Alive)  BY DEF Sound
<1>1. CASE SkipEmptied
  <2>1. Calls(stack', Alive)  BY <1>1, TakenType DEF SkipEmptied
  <2>2. Alive' = Alive  BY <1>1, AliveKept DEF SkipEmptied, cells
  <2> QED  BY <1>1, <2>1, <2>2 DEF SkipEmptied, Sound, cells
<1>2. ASSUME NEW t \in Tasks, WakeTask(t) PROVE Sound'
  <2> DEFINE s == EmptyStack(Taken, t)
             g == [Head(s) EXCEPT !.woken = Append(Head(s).woken, t)]
  <2>1. Calls(Taken, Alive) /\ Taken # <<>>  BY <1>2, TakenType DEF WakeTask
  <2>2. Calls(s, Alive) /\ DOMAIN s = DOMAIN Taken
    BY <2>1, EmptyStackType, AliveCells
  <2>3. s # <<>>
    <3>1. 1 \in DOMAIN Taken  BY <2>1 DEF Calls
    <3> HIDE DEF s
    <3> QED  BY <2>2, <3>1
  <2>4. stack' = <<g>> \o Tail(s)  BY <1>2 DEF WakeTask
  <2> HIDE DEF s
  <2>5. Head(s) \in Frames /\ Head(s).todo \in Seq(Alive) /\ Calls(Tail(s), Alive)
    BY <2>2, <2>3, TopType
  <2>6. Append(Head(s).woken, t) \in Seq(Tasks)
    BY <2>5, AppendProperties DEF Frames
  <2>7. g \in Frames /\ g.todo \in Seq(Alive)  BY <2>5, <2>6 DEF Frames
  <2> HIDE DEF g
  <2>8. Calls(stack', Alive)  BY <2>4, <2>5, <2>7, PushType
  <2>9. Table(waiting', Alive)  BY <1>0, <1>2, TaskClearedType DEF WakeTask
  <2>10. cleanup' \in BOOLEAN  BY <1>2 DEF WakeTask, Noted, Sound
  <2>11. Alive' = Alive  BY <1>2, AliveKept DEF WakeTask
  <2> QED  BY <1>2, <2>8, <2>9, <2>10, <2>11 DEF WakeTask, Sound
<1>3. ASSUME NEW h \in Hooks, CallHook(h) PROVE Sound'
  <2> DEFINE g == [Head(Taken) EXCEPT !.who = h]
  <2>1. /\ Head(Taken) \in Frames /\ Head(Taken).todo \in Seq(Alive)
        /\ Calls(Tail(Taken), Alive)
    BY <1>3, TakenType DEF CallHook
  <2>2. g \in Frames /\ g.todo \in Seq(Alive)
    BY <2>1 DEF Frames, Owners
  <2>3. stack' = <<g>> \o Tail(Taken)  BY <1>3 DEF CallHook
  <2>4. Calls(stack', Alive)
    <3> HIDE DEF g
    <3> QED  BY <2>1, <2>2, <2>3, PushType
  <2>5. cleanup' \in BOOLEAN  BY <1>3 DEF CallHook, Noted, Sound
  <2>6. Alive' = Alive  BY <1>3, AliveKept DEF CallHook
  <2> QED  BY <1>3, <2>4, <2>5, <2>6 DEF CallHook, Sound
<1>4. ASSUME NEW h \in Hooks, CallSigRun(h) PROVE Sound'
  <2>1. Calls(Taken, Alive) /\ Taken # <<>>  BY <1>4, TakenType DEF CallSigRun
  <2>2. cleanup' \in BOOLEAN  BY <1>4 DEF CallSigRun, Noted, Sound
  <2>3. h \in Alive  BY <1>4, AliveCells DEF CallSigRun
  <2>4. UNCHANGED <<running, current, phase, timers, multi>>
    BY <1>4 DEF CallSigRun
  <2>5. ASSUME NEW t \in Unborn, NEW h2 \in Unused,
               Spawn(t),
               hook' = [hook EXCEPT ![h2] = "propagate"],
               target' = [target EXCEPT ![h2] = h],
               regs' = [regs EXCEPT ![h2] = {<<t, Die>>}],
               Reattach(h, Register(waiting, h2, {<<t, Die>>}), Taken)
        PROVE  Sound'
    <3>1. /\ t \in Tasks /\ h2 \in Hooks /\ h2 \in Alive /\ hook[h2] = "free"
          /\ {<<t, Die>>} \in SUBSET Slots
      BY AliveCells DEF Unborn, Unused, Slots, Emitters, Keys
    <3>2. /\ Table(Register(waiting, h2, {<<t, Die>>}), Alive)
          /\ target' \in [Hooks -> Hooks \cup {None}]
      BY <1>0, <2>5, <3>1, AliveCells, BornType
    <3>3. Table(waiting', Alive) /\ Calls(stack', Alive)
      BY <2>1, <2>3, <2>5, <3>2, ReattachType
    <3>4. hook' \in [Hooks -> HookKinds] /\ regs' \in [Hooks -> SUBSET Slots]
      BY <2>5, <3>1 DEF Sound, HookKinds
    <3>5. Alive' = Alive  BY <2>5, <3>1, AliveGrown DEF HookKinds
    <3> QED
      BY <2>2, <2>4, <2>5, <3>1, <3>2, <3>3, <3>4, <3>5, SpawnType DEF Sound
  <2>6. CASE Reattach(h, waiting, Taken)
             /\ UNCHANGED <<co, ready, hook, target, regs>>
    <3>1. Table(waiting', Alive) /\ Calls(stack', Alive)
      BY <1>0, <2>1, <2>3, <2>6, ReattachType
    <3>2. Alive' = Alive  BY <2>6, AliveKept
    <3> QED  BY <2>2, <2>4, <2>6, <3>1, <3>2 DEF Sound
  <2> QED  BY <1>4, <2>5, <2>6 DEF CallSigRun
<1>5. ASSUME NEW h \in Hooks, CallSigRunOnce(h) PROVE Sound'
  <2>1. Calls(Taken, Alive)  BY <1>5, TakenType DEF CallSigRunOnce
  <2>2. ClearHook(h)  BY <1>5 DEF CallSigRunOnce
  <2>3. Table(waiting', Alive') /\ Calls(stack', Alive')
    BY <1>0, <1>5, <2>1, <2>2, ClearedType DEF CallSigRunOnce
  <2>4. cleanup' \in BOOLEAN  BY <1>5 DEF CallSigRunOnce, Noted, Sound
  <2>5. co' \in [Tasks -> Statuses] /\ ready' \in Seq(Tasks)
    BY <1>5, SpawnType DEF CallSigRunOnce, Unborn, Sound
  <2> QED
    BY <1>5, <2>2, <2>3, <2>4, <2>5, ClearHookType DEF CallSigRunOnce, Sound
<1>6. ASSUME NEW h \in Hooks, CallPropagate(h) PROVE Sound'
  <2> DEFINE x == target[h]
             dead == IF Suicide /\ hook[x] # "emptied" THEN {h, x} ELSE {h}
             w == EmptyWaiting(waiting, h)
             s == EmptyStack(Taken, h)
             A == Alive \ {h}
  <2>1. Calls(Taken, Alive)  BY <1>6, TakenType DEF CallPropagate
  <2>2. hook' = [c \in Hooks |-> IF c \in dead THEN "emptied" ELSE hook[c]]
    BY <1>6 DEF CallPropagate
  <2>3. /\ A \in SUBSET Entries /\ Emptied \in A
        /\ A \ {x} \subseteq Alive' \/ x \notin dead
        /\ x \notin dead => A \subseteq Alive'
        /\ Emptied \in Alive' /\ Alive' \in SUBSET Entries
        /\ Alive \ dead \subseteq Alive'
    <3>1. Emptied \in A /\ A \in SUBSET Entries
      BY AliveCells, IdAssumption
    <3>2. Alive \ dead \subseteq Alive' /\ Alive' \in SUBSET Entries
      <4> HIDE DEF dead
      <4> QED  BY <2>2 DEF Alive, Zombies, Sound
    <3>3. Emptied \in Alive'
      <4> HIDE DEF dead
      <4> QED  BY <2>2, IdAssumption DEF Alive, Zombies, Entries, Owners
    <3> QED  BY <3>1, <3>2, <3>3
  <2>4. Table(w, A) /\ Calls(s, A)
    BY <1>0, <2>1, <2>3, EmptyWaitingType, EmptyStackType
  <2>5. /\ waiting' = IF x \in dead THEN EmptyWaiting(w, x) ELSE w
        /\ stack' = IF x \in dead THEN EmptyStack(s, x) ELSE s
    BY <1>6 DEF CallPropagate
  <2>6. Table(waiting', Alive') /\ Calls(stack', Alive')
    <3>1. CASE x \in dead
      <4>1. waiting' = EmptyWaiting(w, x) /\ stack' = EmptyStack(s, x)
        BY <2>5, <3>1
      <4>2. A \ {x} \subseteq Alive'  BY <2>3, <3>1
      <4> HIDE DEF w, s, x, dead, A
      <4> QED  BY <2>3, <2>4, <4>1, <4>2, EmptyWaitingType, EmptyStackType
    <3>2. CASE x \notin dead
      <4>1. waiting' = EmptyWaiting(waiting, h) /\ stack' = EmptyStack(Taken, h)
        BY <2>5, <3>2
      <4>2. Alive \ {h} \subseteq Alive'  BY <2>3, <3>2
      <4> HIDE DEF w, s, x, dead, A
      <4> QED
        BY <1>0, <2>1, <2>3, <4>1, <4>2, EmptyWaitingType, EmptyStackType
    <3> QED  BY <3>1, <3>2
  <2>7. cleanup' \in BOOLEAN  BY <1>6, Zenon DEF CallPropagate
  <2>8. hook' \in [Hooks -> HookKinds]
    <3> HIDE DEF dead
    <3> QED  BY <2>2 DEF Sound, HookKinds
  <2>9. /\ regs' \in [Hooks -> SUBSET Slots] /\ multi' \in SUBSET Owners
        /\ UNCHANGED <<co, ready, running, current, phase, target>>
    BY <1>6 DEF CallPropagate, Sound
  <2>10. timers' \in SUBSET (Owners \cap Alive')
    <3>1. timers' = timers \ dead  BY <1>6, SMTT(40) DEF CallPropagate
    <3> HIDE DEF dead
    <3> QED  BY <2>3, <3>1 DEF Sound
  <2> QED  BY <2>6, <2>7, <2>8, <2>9, <2>10 DEF Sound
<1>7. CASE EndQueue
  <2>1. Alive' = Alive  BY <1>7, AliveKept DEF EndQueue, cells
  <2> QED  BY <1>7, <2>1, EndQueueType, ZenonT(60) DEF EndQueue, Sound, cells
<1> QED  BY <1>1, <1>2, <1>3, <1>4, <1>5, <1>6, <1>7 DEF ParseStep

(* The steps of the loop preserve the invariant. *)
LEMMA LoopStepSound == ASSUME Sound, LoopStep PROVE Sound'
<1>0. Table(waiting, Alive) /\ Calls(stack, Alive)  BY DEF Sound
<1>1. CASE StartLoop \/ TimersDone \/ SelectDone
  <2>1. Alive' = Alive
    BY <1>1, AliveKept DEF StartLoop, TimersDone, SelectDone, cells
  <2> QED
    BY <1>1, <2>1 DEF StartLoop, TimersDone, SelectDone, Sound, cells, Phases
<1>2. CASE Resume
  <2> DEFINE t == Head(ready)
  <2>1. t \in Tasks /\ ready' \in Seq(Tasks)
    BY <1>2, HeadTailProperties DEF Resume, Sound
  <2>2. Alive' = Alive  BY <1>2, AliveKept DEF Resume, cells
  <2>3. CASE co[t] = "dead"
    <3>1. /\ Emit(t, Die, FALSE, waiting, stack) /\ running' = t
          /\ UNCHANGED <<co, current, phase, cells>>
      BY <1>2, <2>3 DEF Resume
    <3>2. t \in Emitters /\ Die \in Keys  BY <2>1 DEF Emitters, Keys
    <3>3. Table(waiting', Alive) /\ Calls(stack', Alive)
      <4> HIDE DEF t
      <4> QED  BY <1>0, <3>1, <3>2, EmitType, AliveCells
    <3> QED  BY <2>1, <2>2, <3>1, <3>3 DEF Sound, cells
  <2>4. CASE co[t] # "dead"
    <3>1. /\ co' = [co EXCEPT ![t] = "active"] /\ running' = t /\ current' = t
          /\ UNCHANGED <<waiting, stack, phase, cells>>
      BY <1>2, <2>4 DEF Resume
    <3> HIDE DEF t
    <3> QED  BY <2>1, <2>2, <3>1 DEF Sound, cells, Statuses
  <2> QED  BY <2>3, <2>4
<1>3. CASE StepDone
  <2>1. Table(waiting', Alive)  BY <1>0, <1>3, CollectedType DEF StepDone
  <2>2. Alive' = Alive  BY <1>3, AliveKept DEF StepDone
  <2> QED  BY <1>3, <2>1, <2>2 DEF StepDone, Sound, Phases
<1>4. ASSUME NEW t \in Tasks, TimerTask(t) PROVE Sound'
  <2>1. Table(waiting', Alive)  BY <1>0, <1>4, TaskClearedType DEF TimerTask
  <2>2. ready' \in Seq(Tasks)  BY <1>4, AppendProperties DEF TimerTask, Sound
  <2>3. cleanup' \in BOOLEAN  BY <1>4 DEF TimerTask, Noted, Sound
  <2>4. Alive' = Alive  BY <1>4, AliveKept DEF TimerTask
  <2> QED  BY <1>4, <2>1, <2>2, <2>3, <2>4 DEF TimerTask, Sound
<1>5. ASSUME NEW h \in Hooks, TimerHook(h) PROVE Sound'
  <2>1. PICK em \in Emitters :
           stack' = <<NewFrame(em, Timeout, FALSE, Timeout, <<>>, "none", h)>>
    BY <1>5 DEF TimerHook
  <2> DEFINE f == NewFrame(em, Timeout, FALSE, Timeout, <<>>, "none", h)
  <2>2. f \in Frames /\ f.todo \in Seq(Alive)
    BY NewFrameType, EmptySeq, AliveCells DEF Keys, Owners
  <2>3. stack' = <<f>>  BY <2>1
  <2>4. Calls(stack', Alive)
    <3> HIDE DEF f
    <3> QED  BY <2>2, <2>3 DEF Calls
  <2>5. cleanup' \in BOOLEAN  BY <1>5 DEF TimerHook, Noted, Sound
  <2>6. Alive' = Alive  BY <1>5, AliveKept DEF TimerHook
  <2> QED  BY <1>5, <2>4, <2>5, <2>6 DEF TimerHook, Sound
<1>6. ASSUME NEW h \in Hooks, TimerRun(h) PROVE Sound'
  <2> DEFINE w == EmptyWaiting(waiting, h)
  <2>1. cleanup' \in BOOLEAN  BY <1>6 DEF TimerRun, Noted, Sound
  <2>2. UNCHANGED <<running, current, stack, phase>>  BY <1>6 DEF TimerRun
  <2>4. stack' = <<>>  BY <1>6, <2>2 DEF TimerRun, Loop
  <2>5. ASSUME NEW t \in Unborn, NEW h2 \in Unused,
               Spawn(t),
               hook[h] = "run",
               hook' = [hook EXCEPT ![h] = "emptied", ![h2] = "propagate"],
               target' = [target EXCEPT ![h2] = h],
               regs' = [regs EXCEPT ![h] = {}, ![h2] = {<<t, Die>>}],
               waiting' = Register(w, h2, {<<t, Die>>}),
               timers' = timers \ {h},
               multi' = multi \ {h}
        PROVE  Sound'
    <3>1. /\ t \in Tasks /\ h2 \in Hooks /\ hook[h2] = "free"
          /\ {<<t, Die>>} \in SUBSET Slots
      BY DEF Unborn, Unused, Slots, Emitters, Keys
    <3>2. Alive \ {h} \subseteq Alive' /\ Alive' \in SUBSET Entries
      BY <2>5, <3>1 DEF Sound, Alive, Zombies
    <3>3. Emptied \in Alive'
      BY <3>2, AliveCells, IdAssumption DEF Owners
    <3>4. h2 \in Alive'
      BY <2>5, <3>1, <3>2, AliveCells
    <3>5. Table(w, Alive')
      BY <1>0, <3>2, <3>3, EmptyWaitingType
    <3>6. Table(waiting', Alive') /\ target' \in [Hooks -> Hooks \cup {None}]
      <4> HIDE DEF w
      <4> QED  BY <2>5, <3>2, <3>4, <3>5, BornType
    <3>7. /\ hook' \in [Hooks -> HookKinds]
          /\ regs' \in [Hooks -> SUBSET Slots]
          /\ timers' \in SUBSET (Owners \cap Alive') /\ multi' \in SUBSET Owners
      BY <2>5, <3>1, <3>2 DEF Sound, HookKinds
    <3>8. Calls(stack', Alive')  BY <2>4, EmptySeq DEF Calls
    <3> QED
      BY <2>1, <2>2, <2>5, <3>1, <3>6, <3>7, <3>8, SpawnType DEF Sound
  <2>6. ASSUME ClearHook(h), waiting' = w,
               UNCHANGED <<co, ready>> \/ \E t \in Unborn : Spawn(t)
        PROVE  Sound'
    <3>1. co' \in [Tasks -> Statuses] /\ ready' \in Seq(Tasks)
      BY <2>6, SpawnType DEF Unborn, Sound
    <3>2. Table(waiting', Alive')  BY <1>0, <2>6, ClearedType
    <3>3. Calls(stack', Alive')  BY <2>4, EmptySeq DEF Calls
    <3> QED
      BY <2>1, <2>2, <2>6, <3>1, <3>2, <3>3, ClearHookType DEF Sound
  <2> QED  BY <1>6, <2>5, <2>6 DEF TimerRun
<1>7. ASSUME NEW em \in Objects, NEW ev \in Events, LoopSignal(em, ev)
      PROVE  Sound'
  <2>1. em \in Emitters /\ ev \in Keys  BY DEF Emitters, Keys
  <2>2. Table(waiting', Alive) /\ Calls(stack', Alive)
    BY <1>0, <1>7, <2>1, EmitType, AliveCells DEF LoopSignal
  <2>3. Alive' = Alive  BY <1>7, AliveKept DEF LoopSignal, cells
  <2> QED  BY <1>7, <2>2, <2>3 DEF LoopSignal, Sound, cells
<1> QED  BY <1>1, <1>2, <1>3, <1>4, <1>5, <1>6, <1>7 DEF LoopStep

-----------------------------------------------------------------------------
(* Sound is an inductive invariant of the scheduler: every step of a task, *)
(* a hook, a signal or the loop keeps the types, and keeps emptied hooks   *)
(* out of every queue, list being parsed and timer.                        *)
THEOREM SoundInvariant == Spec => []Sound
<1>1. Init => Sound
  <2> SUFFICES ASSUME Init PROVE Sound
    OBVIOUS
  <2>1. /\ <<>> \in Seq(Tasks)
        /\ <<>> \in Seq({f \in Frames : f.todo \in Seq(Alive)})
    BY EmptySeq
  <2>2. DOMAIN waiting = {} /\ waiting \in [{} -> Seq(Alive)]  BY DEF Init
  <2> QED
    BY <2>1, <2>2 DEF Init, Sound, Table, Calls, Statuses, HookKinds, Phases
<1>2. Sound /\ UNCHANGED vars => Sound'
  <2> SUFFICES ASSUME Sound, UNCHANGED vars PROVE Sound'
    OBVIOUS
  <2>1. Alive' = Alive  BY AliveKept DEF vars
  <2> QED  BY <2>1 DEF Sound, vars
<1>3. Sound /\ [Next]_vars => Sound'
  BY <1>2, TaskCallSound, AnyCallSound, HookCallSound, ParseStepSound,
     LoopStepSound DEF Next
<1> QED  BY <1>1, <1>3, PTL DEF Spec

(* Every state of the scheduler has the types of its tables, cells and    *)
(* calls, whatever its tasks and hooks do (sched/init.lua:431-487).       *)
THEOREM TypeCorrect == Spec => []TypeOK
BY SoundInvariant, SoundImplies, PTL

(* A hook that was killed, or has run for the last time, is in no queue,  *)
(* no list of cells being parsed and no pending timer: it is never called *)
(* again (sched/init.lua:600-625, 745-750, 1124-1128).                    *)
THEOREM ZombieFree == Spec => []NoZombieHook
BY SoundInvariant, SoundImplies, PTL

-----------------------------------------------------------------------------
(* A hook stays until it is killed. A timer would detach one: what has to  *)
(* be shown is that the hooks of timers, and those that timers are calling *)
(* through the stack, are those registered with a delay.                   *)

OnTime == {h \in Hooks : hook[h] = "emptied" \/ IsTimed(regs[h])}

(* The calls of a stack made by timers, and those of signals.              *)
Timed(H)   == {f \in Frames : IF f.key = Timeout THEN f.who \in H ELSE f.ev # Timeout}
Neat(s, H) == s \in Seq(Timed(H))

Timely ==
    /\ \A h \in Hooks : hook[h] = "free" => regs[h] = {}
    /\ timers \cap Hooks \subseteq OnTime
    /\ Neat(stack, OnTime)

(* What may empty the cell of a hook without a delay, hook[h] being "hook" *)
(* or "run".                                                               *)
Ends(h) == \/ KillHook(h)
           \/ KillSelf /\ Actor = h
           \/ \E h2 \in Hooks : target[h2] = h /\ Head(stack).slain /\ CallPropagate(h2)
Excused == \A h \in Hooks :
    hook[h] \in {"hook", "run"} /\ ~IsTimed(regs[h]) /\ hook'[h] = "emptied" => Ends(h)

Endures == Timely' /\ Excused

(* The same calls, over other cells.                                       *)
LEMMA NeatSame ==
    ASSUME NEW H, NEW s, Neat(s, H), NEW r \in Seq(Frames), DOMAIN r = DOMAIN s,
           \A i \in DOMAIN s : /\ r[i].key = s[i].key /\ r[i].ev = s[i].ev
                               /\ r[i].who = s[i].who
    PROVE  Neat(r, H)
<1>1. /\ Len(s) \in Nat /\ s \in [1 .. Len(s) -> Timed(H)] /\ DOMAIN s = 1 .. Len(s)
  BY LenProperties, Zenon DEF Neat
<1>2. r \in [1 .. Len(s) -> Frames]
  <2>1. Len(r) \in Nat /\ r \in [1 .. Len(r) -> Frames] /\ DOMAIN r = 1 .. Len(r)
    BY LenProperties, Zenon
  <2> QED  BY <1>1, <2>1
<1>3. \A i \in 1 .. Len(s) : r[i] \in Timed(H)
  <2> TAKE i \in 1 .. Len(s)
  <2>1. s[i] \in Timed(H) /\ r[i] \in Frames  BY <1>1, <1>2
  <2> QED  BY <1>1, <2>1 DEF Timed
<1>4. r \in [1 .. Len(s) -> Timed(H)]  BY <1>2, <1>3
<1> QED  BY <1>1, <1>4, SeqFcn DEF Neat

(* The top of a stack, and a call put on top of one.                       *)
LEMMA NeatTop ==
    ASSUME NEW H, NEW s, Neat(s, H), s # <<>>
    PROVE  Head(s) \in Timed(H) /\ Neat(Tail(s), H)
BY HeadTailProperties DEF Neat
LEMMA NeatPush ==
    ASSUME NEW H, NEW s, Neat(s, H), NEW f \in Timed(H)
    PROVE  Neat(<<f>> \o s, H)
BY ConcatProperties DEF Neat

(* More hooks may have been called by a timer.                             *)
LEMMA NeatMore ==
    ASSUME NEW H, NEW G, H \subseteq G, NEW s, Neat(s, H)
    PROVE  Neat(s, G)
<1>1. Timed(H) \subseteq Timed(G)  BY DEF Timed
<1> HIDE DEF Timed
<1> QED  BY <1>1, SeqMonotonic DEF Neat

(* Emptying a cell, and detaching calls.                                   *)
LEMMA NeatEmpty ==
    ASSUME NEW H, NEW s, Neat(s, H), Calls(s, Alive), NEW c
    PROVE  Neat(EmptyStack(s, c), H)
<1>1. Calls(EmptyStack(s, c), Entries)
  <2>1. Alive \subseteq Entries /\ Emptied \in Entries  BY DEF Alive, Entries
  <2> QED  BY <2>1, EmptyStackType
<1>2. EmptyStack(s, c) \in Seq(Frames)
  <2>1. {f \in Frames : f.todo \in Seq(Entries)} \subseteq Frames  OBVIOUS
  <2> QED  BY <1>1, <2>1, SeqMonotonic DEF Calls
<1>3. \A i \in DOMAIN s : s[i] \in Frames
  BY ElementOfSeq, LenProperties DEF Neat, Timed
<1>4. \A i \in DOMAIN s : LET r == EmptyStack(s, c) IN
         r[i].key = s[i].key /\ r[i].ev = s[i].ev /\ r[i].who = s[i].who
  BY <1>3 DEF EmptyStack, Frames
<1>5. DOMAIN EmptyStack(s, c) = DOMAIN s  BY DEF EmptyStack
<1> QED  BY <1>2, <1>4, <1>5, NeatSame

(* Detaching outer calls of a queue.                                       *)
LEMMA NeatDisplace ==
    ASSUME NEW H, NEW s, Neat(s, H), Calls(s, Alive), NEW p, NEW q
    PROVE  Neat(Displace(s, p, q), H)
<1>1. Displace(s, p, q) \in Seq(Frames)
  <2>1. Calls(Displace(s, p, q), Alive)  BY DisplaceType
  <2>2. {f \in Frames : f.todo \in Seq(Alive)} \subseteq Frames  OBVIOUS
  <2> QED  BY <2>1, <2>2, SeqMonotonic DEF Calls
<1>2. \A i \in DOMAIN s : s[i] \in Frames
  BY ElementOfSeq, LenProperties DEF Neat, Timed
<1>3. \A i \in DOMAIN s : LET r == Displace(s, p, q) IN
         r[i].key = s[i].key /\ r[i].ev = s[i].ev /\ r[i].who = s[i].who
  BY <1>2 DEF Displace, Frames
<1>4. DOMAIN Displace(s, p, q) = DOMAIN s  BY DEF Displace
<1> QED  BY <1>1, <1>3, <1>4, NeatSame

(* A signal, which is not the event of a delay.                            *)
LEMMA NeatEmit ==
    ASSUME NEW em \in Emitters, NEW ev \in Keys \ {Timeout}, NEW slain \in BOOLEAN,
           NEW w, Table(w, Alive), NEW s, Calls(s, Alive), Emit(em, ev, slain, w, s),
           NEW H, Neat(s, H)
    PROVE  Neat(stack', H)
<1> DEFINE queues == {k \in {Star, ev} : <<em, k>> \in DOMAIN w}
           key == IF Star \in queues THEN Star ELSE ev
           p == <<em, key>>
           f == NewFrame(em, ev, slain, key, w[p], "queue", None)
<1>1. CASE queues = {}
  BY <1>1 DEF Emit
<1>2. CASE queues # {}
  <2>1. p \in DOMAIN w /\ key \in Keys  BY <1>2 DEF Keys
  <2>2. w[p] \in Seq(Alive)  BY <2>1 DEF Table
  <2>3. stack' = <<f>> \o Displace(s, p, w[p])  BY <1>2 DEF Emit
  <2>4. f \in Frames
    BY <2>1, <2>2, NewFrameType, AliveCells
  <2>5. f.key # Timeout /\ f.ev # Timeout  BY DEF NewFrame, Star, Timeout
  <2>6. f \in Timed(H)  BY <2>4, <2>5 DEF Timed
  <2>7. Neat(Displace(s, p, w[p]), H)  BY NeatDisplace
  <2> HIDE DEF f, p
  <2> QED  BY <2>3, <2>6, <2>7, NeatPush
<1> QED  BY <1>1, <1>2

(* The end of a hook that a signal called, and is put back.                *)
LEMMA NeatReattach ==
    ASSUME NEW c, NEW w, NEW s, s # <<>>, Reattach(c, w, s), NEW H, Neat(s, H)
    PROVE  Neat(stack', H)
<1> DEFINE f == Head(s)
           g == [f EXCEPT !.full = TRUE]
<1>1. f \in Timed(H) /\ Neat(Tail(s), H)  BY NeatTop
<1>2. g \in Timed(H)  BY <1>1 DEF Timed, Frames
<1>3. stack' = s \/ stack' = <<g>> \o Tail(s)  BY DEF Reattach
<1> HIDE DEF g
<1> QED  BY <1>1, <1>2, <1>3, NeatPush

(* The end of a hook's call.                                               *)
LEMMA NeatReturns ==
    ASSUME Sound, Timely, Actor \in Hooks, NEW killed, NEW w, HookReturns(killed, w)
    PROVE  Neat(stack', OnTime)
<1> DEFINE f == Head(stack)
           g == [f EXCEPT !.who = None]
           s == <<g>> \o Tail(stack)
<1>1. stack # <<>> /\ f \in Frames /\ f.todo \in Seq(Alive) /\ Calls(Tail(stack), Alive)
  BY ActorType
<1>2. f \in Timed(OnTime) /\ Neat(Tail(stack), OnTime)  BY <1>1, NeatTop DEF Timely
<1>3. CASE f.key = Timeout
  <2>1. stack' = EmptyStack(Tail(stack), f.who)  BY <1>3 DEF HookReturns
  <2> QED  BY <1>1, <1>2, <2>1, NeatEmpty
<1>4. CASE f.key # Timeout
  <2>1. g \in Timed(OnTime) /\ g.todo \in Seq(Alive) /\ g \in Frames
    BY <1>1, <1>2, <1>4 DEF Timed, Frames
  <2>2. \/ stack' = EmptyStack(s, f.who)
        \/ \E c : Reattach(c, w, s)
    BY <1>4 DEF HookReturns
  <2> HIDE DEF g
  <2>3. Calls(s, Alive) /\ Neat(s, OnTime)
    BY <1>1, <1>2, <2>1, PushType, NeatPush
  <2>4. s # <<>>  BY <1>1, <2>1 DEF Calls
  <2> HIDE DEF s
  <2> QED  BY <2>2, <2>3, <2>4, NeatEmpty, NeatReattach
<1> QED  BY <1>3, <1>4

(* A call that parses a queue is not of a timer; taking a cell leaves it so. *)
LEMMA NeatParsing ==
    ASSUME Sound, Timely, Parsing
    PROVE  Head(stack) \in Timed(OnTime) /\ Head(stack).key # Timeout /\ Head(stack).ev # Timeout
<1>1. Head(stack) \in Timed(OnTime)  BY NeatTop DEF Parsing, Timely
<1>2. Head(stack).who \notin OnTime  BY IdAssumption DEF Parsing, OnTime
<1> QED  BY <1>1, <1>2 DEF Timed

LEMMA NeatTaken ==
    ASSUME Sound, Timely, NEW c, NextCell(c)
    PROVE  /\ Neat(Taken, OnTime) /\ Head(Taken) \in Timed(OnTime)
           /\ Head(Taken).key # Timeout /\ Neat(Tail(Taken), OnTime)
<1> DEFINE f == [Head(stack) EXCEPT !.todo = Tail(Head(stack).todo)]
<1>1. Head(stack) \in Timed(OnTime) /\ Head(stack).key # Timeout /\ Head(stack).ev # Timeout
  BY NeatParsing DEF NextCell
<1>2. Parsing /\ Neat(Tail(stack), OnTime)  BY NeatTop DEF NextCell, Parsing, Timely
<1>3. Calls(Taken, Alive) /\ Taken # <<>> /\ Head(Taken) \in Frames  BY TakenType
<1>4. Tail(Head(stack).todo) \in Seq(Entries)
  <2>1. Head(stack).todo \in Seq(Entries)  BY <1>1 DEF Timed, Frames
  <2> QED  BY <2>1, HeadTailProperties DEF NextCell
<1>5. f \in Timed(OnTime) /\ f.key # Timeout  BY <1>1, <1>4 DEF Timed, Frames
<1> HIDE DEF f
<1>6. Taken = <<f>> \o Tail(stack)  BY DEF Taken, f
<1>7. Neat(Taken, OnTime)  BY <1>2, <1>5, <1>6, NeatPush
<1>8. Head(Taken) = f
  <2>1. Tail(stack) \in Seq(Timed(OnTime)) /\ <<f>> \in Seq(Timed(OnTime))
    BY <1>2, <1>5 DEF Neat
  <2> QED  BY <1>6, <2>1, ConcatProperties, HeadTailProperties
<1> QED  BY <1>3, <1>5, <1>7, <1>8, NeatTop

(* The end of a queue.                                                     *)
LEMMA NeatEndQueue ==
    ASSUME Sound, Timely, EndQueue
    PROVE  Neat(stack', OnTime)
<1> DEFINE f     == Head(stack)
           p     == <<f.em, f.key>>
           empty == IF f.att = "queue" THEN waiting[p] = <<>> ELSE ~f.full
           gone  == IF f.att # "none" THEN {p} ELSE {}
           w1    == IF empty THEN Without(waiting, gone) ELSE waiting
           drop  == empty /\ (f.att = "none" \/ RowOf(w1, f.em) = {})
           w     == IF drop THEN Without(w1, RowOf(w1, f.em)) ELSE w1
           cut   == [i \in DOMAIN stack |->
                        IF stack[i].em = f.em
                        THEN [stack[i] EXCEPT !.att = "none"] ELSE stack[i]]
           s     == IF drop THEN cut ELSE stack
           q     == <<f.em, f.ev>>
           more  == f.key = Star /\ q \in DOMAIN w /\ Head(s).att # "none"
           fresh == NewFrame(f.em, f.ev, f.slain, f.ev, w[q], "queue", None)
           next  == [fresh EXCEPT !.woken = f.woken]
<1>p. Parsing  BY DEF EndQueue
<1>0. Calls(stack, Alive) /\ stack # <<>> /\ Neat(stack, OnTime)
  BY <1>p DEF Parsing, Sound, Timely
<1>1. f \in Timed(OnTime) /\ f.key # Timeout /\ f.ev # Timeout /\ f \in Frames
  BY <1>p, NeatParsing DEF Timed
<1>2. Calls(cut, Alive)
  <2> HIDE DEF f
  <2> QED  BY <1>0, DropType
<1>3. Neat(cut, OnTime) /\ DOMAIN cut = DOMAIN stack
  <2>1. cut \in Seq(Frames)
    <3>1. {x \in Frames : x.todo \in Seq(Alive)} \subseteq Frames  OBVIOUS
    <3> HIDE DEF cut
    <3> QED  BY <1>2, <3>1, SeqMonotonic DEF Calls
  <2>2. \A i \in DOMAIN stack : stack[i] \in Frames
    BY <1>0, ElementOfSeq, LenProperties DEF Neat, Timed
  <2>3. \A i \in DOMAIN stack : /\ cut[i].key = stack[i].key /\ cut[i].ev = stack[i].ev
                                /\ cut[i].who = stack[i].who
    <3> HIDE DEF f
    <3> QED  BY <2>2 DEF Frames
  <2>4. DOMAIN cut = DOMAIN stack  OBVIOUS
  <2> HIDE DEF cut
  <2> QED  BY <1>0, <2>1, <2>3, <2>4, NeatSame
<1>4. Calls(s, Alive) /\ Neat(s, OnTime) /\ s # <<>>
  <2>1. 1 \in DOMAIN stack  BY <1>0 DEF Calls
  <2> HIDE DEF cut, drop
  <2> QED  BY <1>0, <1>2, <1>3, <2>1
<1>5. Calls(Tail(s), Alive) /\ Neat(Tail(s), OnTime)
  <2> HIDE DEF s
  <2> QED  BY <1>4, TopType, NeatTop
<1>6. Sound /\ Table(waiting', Alive) /\ stack' \in Seq(Frames)
  <2>1. Calls(stack', Alive)  BY EndQueueType, SMTT(40)
  <2>2. {x \in Frames : x.todo \in Seq(Alive)} \subseteq Frames  OBVIOUS
  <2> QED  BY <2>1, <2>2, EndQueueType, SeqMonotonic DEF Calls
<1>7. /\ IF more
         THEN /\ waiting' = [w EXCEPT ![q] = <<>>]
              /\ stack' = <<next>> \o Displace(Tail(s), q, w[q])
              /\ UNCHANGED ready
         ELSE /\ waiting' = w
              /\ stack' = Tail(s)
              /\ ready' = ready \o f.woken
  BY DEF EndQueue
<1>8. CASE more
  <2>1. stack' = <<next>> \o Displace(Tail(s), q, w[q])  BY <1>7, <1>8
  <2>2. next.key # Timeout /\ next.ev # Timeout
    BY <1>1 DEF NewFrame
  <2> HIDE DEF w, s, more, q, next
  <2>3. Neat(Displace(Tail(s), q, w[q]), OnTime) /\ Calls(Displace(Tail(s), q, w[q]), Alive)
    BY <1>5, NeatDisplace, DisplaceType
  <2>4. next \in Frames
    <3> DEFINE z == Displace(Tail(s), q, w[q])
    <3>1. stack'[1] \in Frames
      <4>1. 1 \in DOMAIN stack'
        <5> HIDE DEF z
        <5>1. stack' = <<next>> \o z /\ z \in Seq(Timed(OnTime))  BY <2>1, <2>3 DEF Neat, z
        <5> QED  BY <5>1
      <4> QED  BY <1>6, <4>1, ElementOfSeq, LenProperties
    <3> HIDE DEF z
    <3>2. stack' = <<next>> \o z /\ z \in Seq(Timed(OnTime))  BY <2>1, <2>3 DEF Neat, z
    <3>3. stack'[1] = next  BY <3>2
    <3> QED  BY <3>1, <3>3
  <2>5. next \in Timed(OnTime)  BY <2>2, <2>4 DEF Timed
  <2> QED  BY <2>1, <2>3, <2>5, NeatPush, SMTT(40)
<1>9. CASE ~more
  <2>1. stack' = Tail(s)  BY <1>7, <1>9
  <2> HIDE DEF s
  <2> QED  BY <1>5, <2>1, SMTT(40)
<1> QED  BY <1>8, <1>9

(* A step that leaves the hooks as they are.                               *)
LEMMA QuietEndures ==
    ASSUME Sound, Timely, hook' = hook, regs' = regs,
           timers' \cap Hooks \subseteq timers, Neat(stack', OnTime)
    PROVE  Endures
<1>1. OnTime' = OnTime  BY DEF OnTime
<1>2. Timely'  BY <1>1 DEF Timely
<1>3. Excused
  <2> SUFFICES ASSUME NEW h \in Hooks, hook[h] \in {"hook", "run"}, hook'[h] = "emptied"
               PROVE  FALSE
    BY DEF Excused
  <2> QED  OBVIOUS
<1> QED  BY <1>2, <1>3 DEF Endures

(* A step that empties the cell of hook h0.                                *)
LEMMA ClearEndures ==
    ASSUME Sound, Timely, NEW h0 \in Hooks, ClearHook(h0), Neat(stack', OnTime),
           hook[h0] \in {"hook", "run"} /\ ~IsTimed(regs[h0]) => Ends(h0)
    PROVE  Endures
<1>1. /\ hook' = [hook EXCEPT ![h0] = "emptied"] /\ regs' = [regs EXCEPT ![h0] = {}]
      /\ timers' = timers \ {h0}
  BY DEF ClearHook
<1>2. hook \in [Hooks -> HookKinds] /\ regs \in [Hooks -> SUBSET Slots]  BY DEF Sound
<1>3. \A h \in Hooks \ {h0} : hook'[h] = hook[h] /\ regs'[h] = regs[h]  BY <1>1, <1>2
<1>4. hook'[h0] = "emptied"  BY <1>1, <1>2
<1>5. OnTime \subseteq OnTime'
  <2> SUFFICES ASSUME NEW h \in OnTime PROVE h \in OnTime'
    OBVIOUS
  <2>1. CASE h = h0  BY <1>4, <2>1 DEF OnTime
  <2>2. CASE h # h0
    <3>1. h \in Hooks \ {h0} /\ (hook[h] = "emptied" \/ IsTimed(regs[h]))
      BY <2>2 DEF OnTime
    <3>2. hook'[h] = "emptied" \/ IsTimed(regs'[h])  BY <1>3, <3>1
    <3> QED  BY <3>1, <3>2 DEF OnTime
  <2> QED  BY <2>1, <2>2
<1>6. \A h \in Hooks : hook'[h] = "free" => regs'[h] = {}
  BY <1>3, <1>4 DEF Timely
<1>7. timers' \cap Hooks \subseteq OnTime'  BY <1>1, <1>5 DEF Timely
<1>8. Neat(stack', OnTime')  BY <1>5, NeatMore
<1>9. Timely'  BY <1>6, <1>7, <1>8 DEF Timely
<1>10. Excused
  <2> SUFFICES ASSUME NEW h \in Hooks, hook[h] \in {"hook", "run"}, ~IsTimed(regs[h]),
                      hook'[h] = "emptied"
               PROVE  Ends(h)
    BY DEF Excused
  <2>1. h = h0  BY <1>3
  <2> QED  BY <2>1
<1> QED  BY <1>9, <1>10 DEF Endures

(* A step that uses a free hook cell h0, which is not of a timer yet.      *)
LEMMA UseEndures ==
    ASSUME Sound, Timely, NEW h0 \in Hooks, hook[h0] = "free",
           NEW kind \in HookKinds \ {"free", "emptied"}, NEW S,
           hook' = [hook EXCEPT ![h0] = kind], regs' = [regs EXCEPT ![h0] = S],
           timers' \cap Hooks \subseteq timers \/ (IsTimed(S) /\ timers' = timers \cup {h0}),
           Neat(stack', OnTime)
    PROVE  Endures
<1>1. hook \in [Hooks -> HookKinds] /\ regs \in [Hooks -> SUBSET Slots]  BY DEF Sound
<1>2. \A h \in Hooks \ {h0} : hook'[h] = hook[h] /\ regs'[h] = regs[h]  BY <1>1
<1>3. hook'[h0] = kind /\ regs'[h0] = S  BY <1>1
<1>4. h0 \notin OnTime
  <2>1. regs[h0] = {}  BY DEF Timely
  <2> QED  BY <2>1 DEF OnTime, IsTimed
<1>5. OnTime \subseteq OnTime'
  <2> SUFFICES ASSUME NEW h \in OnTime PROVE h \in OnTime'
    OBVIOUS
  <2>1. h \in Hooks \ {h0} /\ (hook[h] = "emptied" \/ IsTimed(regs[h]))
    BY <1>4 DEF OnTime
  <2>2. hook'[h] = "emptied" \/ IsTimed(regs'[h])  BY <1>2, <2>1
  <2> QED  BY <2>1, <2>2 DEF OnTime
<1>6. \A h \in Hooks : hook'[h] = "free" => regs'[h] = {}
  BY <1>2, <1>3 DEF Timely
<1>7. timers' \cap Hooks \subseteq OnTime'
  <2>1. timers \cap Hooks \subseteq OnTime'  BY <1>5 DEF Timely
  <2>2. CASE timers' \cap Hooks \subseteq timers  BY <2>1, <2>2
  <2>3. CASE IsTimed(S) /\ timers' = timers \cup {h0}
    <3>1. h0 \in OnTime'
      <4>1. IsTimed(regs'[h0])  BY <1>3, <2>3
      <4> QED  BY <4>1 DEF OnTime
    <3> QED  BY <2>1, <2>3, <3>1
  <2> QED  BY <2>2, <2>3
<1>8. Neat(stack', OnTime')  BY <1>5, NeatMore
<1>9. Timely'  BY <1>6, <1>7, <1>8 DEF Timely
<1>10. Excused
  <2> SUFFICES ASSUME NEW h \in Hooks, hook[h] \in {"hook", "run"}, hook'[h] = "emptied"
               PROVE  FALSE
    BY DEF Excused
  <2>1. h # h0  OBVIOUS
  <2> QED  BY <1>2, <2>1
<1> QED  BY <1>9, <1>10 DEF Endures

(* The end of a hook.                                                      *)
LEMMA ReturnsEndures ==
    ASSUME Sound, Timely, Actor \in Hooks, NEW killed \in BOOLEAN, NEW w,
           HookReturns(killed, w), killed => Ends(Actor)
    PROVE  Endures
<1>1. Neat(stack', OnTime)  BY NeatReturns
<1>2. stack # <<>> /\ Actor = Head(stack).who  BY ActorType DEF Actor
<1>3. Head(stack) \in Timed(OnTime)  BY <1>2, NeatTop DEF Timely
<1>4. \/ ClearHook(Actor) /\ (Head(stack).key = Timeout \/ killed \/ hook[Actor] = "once")
      \/ KeepHook
  BY <1>2 DEF HookReturns
<1>5. CASE KeepHook
  BY <1>1, <1>5, QuietEndures DEF KeepHook
<1>6. CASE ClearHook(Actor) /\ (Head(stack).key = Timeout \/ killed \/ hook[Actor] = "once")
  <2>1. PICK h0 \in Hooks : h0 = Actor  OBVIOUS
  <2>2. Head(stack).key = Timeout => hook[h0] = "emptied" \/ IsTimed(regs[h0])
    BY <1>2, <1>3, <2>1 DEF Timed, OnTime
  <2>3. hook[h0] \in {"hook", "run"} /\ ~IsTimed(regs[h0]) => Ends(h0)
    BY <1>6, <2>1, <2>2
  <2>4. ClearHook(h0)  BY <1>6, <2>1
  <2> QED  BY <1>1, <2>3, <2>4, ClearEndures
<1> QED  BY <1>4, <1>5, <1>6

(* Yielding and ending a task.                                             *)
LEMMA SuspendNeat ==
    ASSUME Sound, Timely, Actor \in Tasks, NEW w, Table(w, Alive), Suspend(w)
    PROVE  Neat(stack', OnTime)
<1>1. CASE stack = <<>>  BY <1>1 DEF Suspend, Timely
<1>2. CASE stack # <<>>
  <2>1. Emit(Actor, Die, FALSE, w, Tail(stack))  BY <1>2 DEF Suspend
  <2>2. Calls(Tail(stack), Alive) /\ Neat(Tail(stack), OnTime)
    BY <1>2, ActorType, NeatTop DEF Timely
  <2>3. Actor \in Emitters /\ Die \in Keys \ {Timeout}  BY DEF Emitters, Keys, Die, Timeout
  <2> QED  BY <2>1, <2>2, <2>3, NeatEmit
<1> QED  BY <1>1, <1>2
LEMMA EndEndures ==
    ASSUME Sound, Timely, Actor \in Tasks, NEW slain \in BOOLEAN, End(slain)
    PROVE  Endures
<1>1. Actor \in Emitters /\ Die \in Keys \ {Timeout}  BY DEF Emitters, Keys, Die, Timeout
<1>2. Table(waiting, Alive) /\ Calls(stack, Alive) /\ Neat(stack, OnTime)  BY DEF Sound, Timely
<1>3. Neat(stack', OnTime)
  <2>1. CASE stack = <<>>
    BY <1>1, <1>2, <2>1, NeatEmit DEF End
  <2>2. CASE stack # <<>>
    <3>1. Emit(Actor, Die, FALSE, waiting, Tail(stack))  BY <2>2 DEF End
    <3>2. Calls(Tail(stack), Alive) /\ Neat(Tail(stack), OnTime)
      BY <1>2, <2>2, ActorType, NeatTop
    <3> QED  BY <1>1, <1>2, <3>1, <3>2, NeatEmit
  <2> QED  BY <2>1, <2>2
<1>4. hook' = hook /\ regs' = regs /\ timers' = timers  BY DEF End, cells
<1> QED  BY <1>3, <1>4, QuietEndures

(* Blocking.                                                               *)
LEMMA BlockEndures ==
    ASSUME Sound, Timely, NEW S \in SUBSET Slots, NEW isMulti, Block(S, isMulti)
    PROVE  Endures
<1>1. running \in Tasks /\ running \in Alive /\ running \notin Hooks
  BY AliveCells, IdAssumption DEF Block, Sound
<1>2. Table(Register(waiting, running, S), Alive)
  BY <1>1, RegisterType DEF Sound
<1>3. Neat(stack', OnTime)  BY <1>2, SuspendNeat DEF Block
<1>4. hook' = hook /\ regs' = regs /\ timers' \subseteq timers \cup {running}
  BY DEF Block
<1> QED  BY <1>1, <1>3, <1>4, QuietEndures

(* The calls that only tasks make.                                         *)
LEMMA TaskCallEndures == ASSUME Sound, Timely, TaskCall PROVE Endures
<1>1. CASE Finish
  BY <1>1, EndEndures DEF Finish
<1>2. CASE Yield
  <2>1. Actor \in Tasks /\ Suspend(waiting) /\ Table(waiting, Alive)
    BY <1>2 DEF Yield, Sound
  <2>2. Neat(stack', OnTime)  BY <2>1, SuspendNeat
  <2>3. hook' = hook /\ regs' = regs /\ timers' = timers  BY <1>2 DEF Yield, cells
  <2> QED  BY <2>2, <2>3, QuietEndures
<1>3. CASE WaitFails
  BY <1>3, EndEndures DEF WaitFails
<1>4. ASSUME NEW em \in Known, NEW evs \in Lists(em), Wait(em, evs) PROVE Endures
  <2>1. {em} \X evs \in SUBSET Slots  BY ListsType, KnownType DEF Slots
  <2> QED  BY <1>4, <2>1, BlockEndures DEF Wait
<1>5. ASSUME NEW ems \in SUBSET (Known \ {Clock}),
             NEW evs \in UNION {Lists(em) : em \in ems}, MultiWait(ems, evs)
      PROVE  Endures
  <2>1. ems \X evs \in SUBSET Slots  BY ListsType, KnownType DEF Slots
  <2> QED  BY <1>5, <2>1, BlockEndures DEF MultiWait
<1> QED  BY <1>1, <1>2, <1>3, <1>4, <1>5 DEF TaskCall

(* The calls made by tasks and hooks alike.                                *)
LEMMA AnyCallEndures == ASSUME Sound, Timely, AnyCall PROVE Endures
<1>0. Table(waiting, Alive) /\ Calls(stack, Alive) /\ Neat(stack, OnTime)
  BY DEF Sound, Timely
<1>1. ASSUME NEW t \in Tasks, Run(t) PROVE Endures
  <2>1. hook' = hook /\ regs' = regs /\ timers' = timers /\ stack' = stack
    BY <1>1 DEF Run, cells
  <2> QED  BY <1>0, <2>1, QuietEndures
<1>2. ASSUME NEW em \in Objects, NEW ev \in Events, Signal(em, ev) PROVE Endures
  <2>1. em \in Emitters /\ ev \in Keys \ {Timeout}
    BY EventAssumption DEF Emitters, Keys
  <2>2. Neat(stack', OnTime)  BY <1>0, <1>2, <2>1, NeatEmit DEF Signal
  <2>3. hook' = hook /\ regs' = regs /\ timers' = timers  BY <1>2 DEF Signal, cells
  <2> QED  BY <2>2, <2>3, QuietEndures
<1>3. ASSUME NEW h \in Hooks, NEW kind \in {"hook", "once", "run", "runonce"},
             NEW em \in Known, NEW evs \in Lists(em), SigHook(h, kind, em, evs)
      PROVE  Endures
  <2> DEFINE S == {em} \X evs
  <2>1. /\ hook[h] = "free" /\ kind \in HookKinds \ {"free", "emptied"}
        /\ hook' = [hook EXCEPT ![h] = kind] /\ regs' = [regs EXCEPT ![h] = S]
        /\ timers' = IF IsTimed(S) THEN timers \cup {h} ELSE timers
        /\ stack' = stack
    BY <1>3 DEF SigHook, HookKinds
  <2> HIDE DEF S
  <2>2. timers' \cap Hooks \subseteq timers \/ (IsTimed(S) /\ timers' = timers \cup {h})
    BY <2>1
  <2>3. Neat(stack', OnTime)  BY <1>0, <2>1
  <2> QED  BY <2>1, <2>2, <2>3, UseEndures
<1>4. CASE Gc
  <2>1. hook' = hook /\ regs' = regs /\ timers' = timers /\ stack' = stack
    BY <1>4 DEF Gc, cells
  <2> QED  BY <1>0, <2>1, QuietEndures
<1>5. CASE KillSelf
  <2>1. CASE Actor \in Tasks  BY <1>5, <2>1, EndEndures DEF KillSelf
  <2>2. CASE Actor \notin Tasks
    <3>1. Actor \in Hooks  BY <1>5, <2>2, ActorType DEF KillSelf, May, Owners
    <3>2. HookReturns(TRUE, waiting)  BY <1>5, <2>2 DEF KillSelf
    <3>3. Ends(Actor)  BY <1>5 DEF Ends
    <3> QED  BY <3>1, <3>2, <3>3, ReturnsEndures
  <2> QED  BY <2>1, <2>2
<1>6. ASSUME NEW x \in Tasks, KillSuspended(x) PROVE Endures
  <2>1. Table(EmptyWaiting(waiting, x), Alive) /\ Calls(EmptyStack(stack, x), Alive)
    BY <1>0, TaskClearedType
  <2>2. x \in Emitters /\ Die \in Keys \ {Timeout}  BY DEF Emitters, Keys, Die, Timeout
  <2>3. Neat(EmptyStack(stack, x), OnTime)  BY <1>0, NeatEmpty
  <2>4. Neat(stack', OnTime)
    BY <1>6, <2>1, <2>2, <2>3, NeatEmit DEF KillSuspended
  <2>5. hook' = hook /\ regs' = regs /\ timers' = timers \ {x}  BY <1>6 DEF KillSuspended
  <2> QED  BY <2>4, <2>5, QuietEndures
<1>7. ASSUME NEW x \in Tasks, KillNew(x) PROVE Endures
  <2> DEFINE f == NewFrame(x, Die, FALSE, "resume", <<>>, "none", x)
  <2>1. f \in Frames
    BY NewFrameType, EmptySeq, AliveCells DEF Emitters, Keys, Owners
  <2>2. f \in Timed(OnTime)  BY <2>1 DEF Timed, NewFrame, Die, Timeout
  <2>3. stack' = <<f>> \o stack  BY <1>7 DEF KillNew
  <2>4. Neat(stack', OnTime)
    <3> HIDE DEF f
    <3> QED  BY <1>0, <2>2, <2>3, NeatPush
  <2>5. hook' = hook /\ regs' = regs /\ timers' = timers  BY <1>7 DEF KillNew, cells
  <2> QED  BY <2>4, <2>5, QuietEndures
<1>8. ASSUME NEW x \in Tasks, KillGone(x) PROVE Endures
  <2>1. x \in Emitters /\ Die \in Keys \ {Timeout}  BY DEF Emitters, Keys, Die, Timeout
  <2>2. Neat(stack', OnTime)  BY <1>0, <1>8, <2>1, NeatEmit DEF KillGone
  <2>3. hook' = hook /\ regs' = regs /\ timers' = timers  BY <1>8 DEF KillGone, cells
  <2> QED  BY <2>2, <2>3, QuietEndures
<1>9. ASSUME NEW h \in Hooks, KillHook(h) PROVE Endures
  <2>1. ClearHook(h) /\ stack' = EmptyStack(stack, h)  BY <1>9 DEF KillHook
  <2>2. Neat(stack', OnTime)  BY <1>0, <2>1, NeatEmpty
  <2>3. Ends(h)  BY <1>9 DEF Ends
  <2> QED  BY <2>1, <2>2, <2>3, ClearEndures
<1> QED  BY <1>1, <1>2, <1>3, <1>4, <1>5, <1>6, <1>7, <1>8, <1>9 DEF AnyCall

(* The calls that only hooks make, and their end.                          *)
LEMMA HookCallEndures == ASSUME Sound, Timely, HookCall PROVE Endures
<1>1. CASE HookDone
  BY <1>1, ReturnsEndures DEF HookDone
<1>2. ASSUME NEW em \in Objects, NEW ev \in Events, BlockInHook(em, ev) PROVE Endures
  <2>1. Actor \in Hooks /\ HookReturns(FALSE, Register(waiting, running, {<<em, ev>>}))
    BY <1>2 DEF BlockInHook
  <2> QED  BY <2>1, ReturnsEndures
<1> QED  BY <1>1, <1>2 DEF HookCall

(* The cells of a queue.                                                   *)
LEMMA ParseStepEndures == ASSUME Sound, Timely, ParseStep PROVE Endures
<1>1. CASE SkipEmptied
  <2>1. /\ NextCell(Emptied) /\ stack' = Taken
        /\ hook' = hook /\ regs' = regs /\ timers' = timers
    BY <1>1 DEF SkipEmptied, cells
  <2> QED  BY <2>1, NeatTaken, QuietEndures
<1>2. ASSUME NEW t \in Tasks, WakeTask(t) PROVE Endures
  <2> DEFINE s == EmptyStack(Taken, t)
             g == [Head(s) EXCEPT !.woken = Append(Head(s).woken, t)]
  <2>1. /\ NextCell(t) /\ stack' = <<g>> \o Tail(s)
        /\ hook' = hook /\ regs' = regs /\ timers' = timers \ {t}
    BY <1>2 DEF WakeTask
  <2>2. Calls(Taken, Alive) /\ Neat(Taken, OnTime) /\ Taken # <<>>
    BY <2>1, TakenType, NeatTaken
  <2>3. Neat(s, OnTime) /\ DOMAIN s = DOMAIN Taken
    BY <2>2, NeatEmpty DEF EmptyStack
  <2>4. s # <<>>
    <3>1. 1 \in DOMAIN Taken  BY <2>2 DEF Calls
    <3> HIDE DEF s
    <3> QED  BY <2>3, <3>1
  <2> HIDE DEF s
  <2>5. Head(s) \in Timed(OnTime) /\ Neat(Tail(s), OnTime)  BY <2>3, <2>4, NeatTop
  <2>6. Append(Head(s).woken, t) \in Seq(Tasks)
    BY <2>5, AppendProperties DEF Timed, Frames
  <2>7. g \in Timed(OnTime)  BY <2>5, <2>6 DEF Timed, Frames
  <2> HIDE DEF g
  <2>8. Neat(stack', OnTime)  BY <2>1, <2>5, <2>7, NeatPush
  <2> QED  BY <2>1, <2>8, QuietEndures
<1>3. ASSUME NEW h \in Hooks, CallHook(h) PROVE Endures
  <2> DEFINE g == [Head(Taken) EXCEPT !.who = h]
  <2>1. /\ NextCell(h) /\ stack' = <<g>> \o Tail(Taken)
        /\ hook' = hook /\ regs' = regs /\ timers' = timers
    BY <1>3 DEF CallHook
  <2>2. /\ Head(Taken) \in Timed(OnTime) /\ Head(Taken).key # Timeout
        /\ Neat(Tail(Taken), OnTime)
    BY <2>1, NeatTaken
  <2>3. g \in Timed(OnTime)  BY <2>2 DEF Timed, Frames, Owners
  <2> HIDE DEF g
  <2>4. Neat(stack', OnTime)  BY <2>1, <2>2, <2>3, NeatPush
  <2> QED  BY <2>1, <2>4, QuietEndures
<1>4. ASSUME NEW h \in Hooks, CallSigRun(h) PROVE Endures
  <2>1. NextCell(h) /\ timers' = timers  BY <1>4 DEF CallSigRun
  <2>2. Neat(Taken, OnTime) /\ Taken # <<>>  BY <2>1, TakenType, NeatTaken
  <2>3. ASSUME NEW t \in Unborn, NEW h2 \in Unused,
               hook' = [hook EXCEPT ![h2] = "propagate"],
               regs' = [regs EXCEPT ![h2] = {<<t, Die>>}],
               Reattach(h, Register(waiting, h2, {<<t, Die>>}), Taken)
        PROVE  Endures
    <3>1. h2 \in Hooks /\ hook[h2] = "free"  BY DEF Unused
    <3>2. Neat(stack', OnTime)  BY <2>2, <2>3, NeatReattach
    <3>3. "propagate" \in HookKinds \ {"free", "emptied"}  BY DEF HookKinds
    <3>4. timers' \cap Hooks \subseteq timers  BY <2>1
    <3> QED  BY <2>3, <3>1, <3>2, <3>3, <3>4, UseEndures
  <2>4. CASE Reattach(h, waiting, Taken) /\ UNCHANGED <<hook, regs>>
    <3>1. Neat(stack', OnTime)  BY <2>2, <2>4, NeatReattach
    <3> QED  BY <2>1, <2>4, <3>1, QuietEndures
  <2> QED  BY <1>4, <2>3, <2>4 DEF CallSigRun
<1>5. ASSUME NEW h \in Hooks, CallSigRunOnce(h) PROVE Endures
  <2>1. NextCell(h) /\ hook[h] = "runonce" /\ ClearHook(h) /\ stack' = EmptyStack(Taken, h)
    BY <1>5 DEF CallSigRunOnce
  <2>2. Calls(Taken, Alive) /\ Neat(Taken, OnTime)  BY <2>1, TakenType, NeatTaken
  <2>3. Neat(stack', OnTime)  BY <2>1, <2>2, NeatEmpty
  <2> QED  BY <2>1, <2>3, ClearEndures
<1>6. ASSUME NEW h \in Hooks, CallPropagate(h) PROVE Endures
  <2> DEFINE x == target[h]
             dead == IF Suicide /\ hook[x] # "emptied" THEN {h, x} ELSE {h}
             s == EmptyStack(Taken, h)
  <2>1. /\ NextCell(h) /\ hook[h] = "propagate"
        /\ hook' = [c \in Hooks |-> IF c \in dead THEN "emptied" ELSE hook[c]]
        /\ regs' = [c \in Hooks |-> IF c \in dead THEN {} ELSE regs[c]]
        /\ timers' = timers \ dead
        /\ stack' = EmptyStack(s, x) \/ stack' = s
    BY <1>6 DEF CallPropagate
  <2>2. dead \subseteq {h, x} /\ (x \in dead => x = h \/ Suicide)  OBVIOUS
  <2>3. Calls(Taken, Alive) /\ Neat(Taken, OnTime)  BY <2>1, TakenType, NeatTaken
  <2>4. Neat(s, OnTime) /\ Calls(s, Alive)
    <3>1. Alive \in SUBSET Entries /\ Emptied \in Alive  BY AliveCells
    <3> QED  BY <2>3, <3>1, NeatEmpty, EmptyStackType
  <2>5. Neat(stack', OnTime)
    <3> HIDE DEF s
    <3> QED  BY <2>1, <2>4, NeatEmpty
  <2> HIDE DEF dead, s
  <2>6. OnTime \subseteq OnTime'
    <3> SUFFICES ASSUME NEW c \in OnTime PROVE c \in OnTime'
      OBVIOUS
    <3>1. c \in Hooks /\ (hook[c] = "emptied" \/ IsTimed(regs[c]))  BY DEF OnTime
    <3>2. CASE c \in dead
      <4>1. hook'[c] = "emptied"  BY <2>1, <3>1, <3>2
      <4> QED  BY <3>1, <4>1 DEF OnTime
    <3>3. CASE c \notin dead
      <4>1. hook'[c] = hook[c] /\ regs'[c] = regs[c]  BY <2>1, <3>1, <3>3
      <4>2. hook'[c] = "emptied" \/ IsTimed(regs'[c])  BY <3>1, <4>1
      <4> QED  BY <3>1, <4>2 DEF OnTime
    <3> QED  BY <3>2, <3>3
  <2>7. \A c \in Hooks : hook'[c] = "free" => regs'[c] = {}
    BY <2>1 DEF Timely
  <2>8. timers' \cap Hooks \subseteq OnTime'  BY <2>1, <2>6 DEF Timely
  <2>9. Neat(stack', OnTime')  BY <2>5, <2>6, NeatMore
  <2>10. Timely'  BY <2>7, <2>8, <2>9 DEF Timely
  <2>11. Excused
    <3> SUFFICES ASSUME NEW c \in Hooks, hook[c] \in {"hook", "run"}, hook'[c] = "emptied"
                 PROVE  Ends(c)
      BY DEF Excused
    <3>1. c \in dead  BY <2>1
    <3>2. c = x /\ x # h  BY <2>1, <2>2, <3>1
    <3>3. Suicide  BY <2>2, <3>1, <3>2
    <3>4. target[h] = c /\ Head(stack).slain  BY <3>2, <3>3 DEF Suicide
    <3> QED  BY <1>6, <3>4 DEF Ends
  <2> QED  BY <2>10, <2>11 DEF Endures
<1>7. CASE EndQueue
  <2>1. hook' = hook /\ regs' = regs /\ timers' = timers  BY <1>7 DEF EndQueue, cells
  <2>2. Neat(stack', OnTime)  BY <1>7, NeatEndQueue
  <2> QED  BY <2>1, <2>2, QuietEndures, SMTT(40)
<1> QED  BY <1>1, <1>2, <1>3, <1>4, <1>5, <1>6, <1>7 DEF ParseStep

(* The steps of the loop.                                                  *)
LEMMA LoopStepEndures == ASSUME Sound, Timely, LoopStep PROVE Endures
<1>0. Table(waiting, Alive) /\ Calls(stack, Alive) /\ Neat(stack, OnTime)
  BY DEF Sound, Timely
<1>1. ASSUME StartLoop \/ TimersDone \/ SelectDone \/ StepDone PROVE Endures
  <2>1. hook' = hook /\ regs' = regs /\ timers' = timers /\ stack' = stack
    BY <1>1 DEF StartLoop, TimersDone, SelectDone, StepDone, cells
  <2> QED  BY <1>0, <2>1, QuietEndures
<1>2. CASE Resume
  <2> DEFINE t == Head(ready)
  <2>1. t \in Tasks  BY <1>2, HeadTailProperties DEF Resume, Sound
  <2>2. hook' = hook /\ regs' = regs /\ timers' = timers  BY <1>2 DEF Resume, cells
  <2>3. Emit(t, Die, FALSE, waiting, stack) \/ stack' = stack  BY <1>2 DEF Resume
  <2>4. t \in Emitters /\ Die \in Keys \ {Timeout}
    BY <2>1 DEF Emitters, Keys, Die, Timeout
  <2> HIDE DEF t
  <2>5. Neat(stack', OnTime)  BY <1>0, <2>3, <2>4, NeatEmit
  <2> QED  BY <2>2, <2>5, QuietEndures
<1>3. ASSUME NEW t \in Tasks, TimerTask(t) PROVE Endures
  <2>1. hook' = hook /\ regs' = regs /\ timers' = timers \ {t} /\ stack' = stack
    BY <1>3 DEF TimerTask
  <2> QED  BY <1>0, <2>1, QuietEndures
<1>4. ASSUME NEW h \in Hooks, TimerHook(h) PROVE Endures
  <2>1. PICK em \in Emitters :
           stack' = <<NewFrame(em, Timeout, FALSE, Timeout, <<>>, "none", h)>>
    BY <1>4 DEF TimerHook
  <2> DEFINE f == NewFrame(em, Timeout, FALSE, Timeout, <<>>, "none", h)
  <2>2. f \in Frames
    BY NewFrameType, EmptySeq, AliveCells DEF Keys, Owners
  <2>3. h \in OnTime  BY <1>4 DEF TimerHook, Timely
  <2>4. f \in Timed(OnTime)  BY <2>2, <2>3 DEF Timed, NewFrame
  <2>5. stack' = <<f>>  BY <2>1
  <2>6. Neat(stack', OnTime)
    <3> HIDE DEF f
    <3> QED  BY <2>4, <2>5 DEF Neat
  <2>7. hook' = hook /\ regs' = regs /\ timers' = timers  BY <1>4 DEF TimerHook
  <2> QED  BY <2>6, <2>7, QuietEndures
<1>5. ASSUME NEW h \in Hooks, TimerRun(h) PROVE Endures
  <2>1. h \in timers /\ stack' = stack /\ hook[h] \in {"run", "runonce"}
    BY <1>5 DEF TimerRun
  <2>2. IsTimed(regs[h])  BY <2>1 DEF Timely, OnTime
  <2>3. ASSUME ClearHook(h) PROVE Endures
    BY <1>0, <2>1, <2>2, <2>3, ClearEndures
  <2>4. ASSUME NEW t \in Unborn, NEW h2 \in Unused,
               hook' = [hook EXCEPT ![h] = "emptied", ![h2] = "propagate"],
               regs' = [regs EXCEPT ![h] = {}, ![h2] = {<<t, Die>>}],
               timers' = timers \ {h}
        PROVE  Endures
    <3>1. h2 \in Hooks /\ hook[h2] = "free" /\ h2 # h  BY <2>1 DEF Unused
    <3>2. hook \in [Hooks -> HookKinds] /\ regs \in [Hooks -> SUBSET Slots]  BY DEF Sound
    <3>3. /\ \A c \in Hooks \ {h, h2} : hook'[c] = hook[c] /\ regs'[c] = regs[c]
          /\ hook'[h] = "emptied" /\ hook'[h2] = "propagate"
      BY <2>4, <3>1, <3>2
    <3>4. h2 \notin OnTime
      <4>1. regs[h2] = {}  BY <3>1 DEF Timely
      <4> QED  BY <3>1, <4>1 DEF OnTime, IsTimed
    <3>5. OnTime \subseteq OnTime'
      <4> SUFFICES ASSUME NEW c \in OnTime PROVE c \in OnTime'
        OBVIOUS
      <4>1. c \in Hooks /\ c # h2 /\ (hook[c] = "emptied" \/ IsTimed(regs[c]))
        BY <3>4 DEF OnTime
      <4>2. hook'[c] = "emptied" \/ IsTimed(regs'[c])  BY <3>3, <4>1
      <4> QED  BY <4>1, <4>2 DEF OnTime
    <3>6. \A c \in Hooks : hook'[c] = "free" => regs'[c] = {}  BY <3>3 DEF Timely
    <3>7. timers' \cap Hooks \subseteq OnTime'  BY <2>4, <3>5 DEF Timely
    <3>8. Neat(stack', OnTime')  BY <1>0, <2>1, <3>5, NeatMore
    <3>9. Timely'  BY <3>6, <3>7, <3>8 DEF Timely
    <3>10. Excused
      <4> SUFFICES ASSUME NEW c \in Hooks, hook[c] \in {"hook", "run"}, ~IsTimed(regs[c]),
                          hook'[c] = "emptied"
                   PROVE  FALSE
        BY DEF Excused
      <4>1. c # h  BY <2>2
      <4> QED  BY <3>1, <3>3, <4>1
    <3> QED  BY <3>9, <3>10 DEF Endures
  <2> QED  BY <1>5, <2>3, <2>4 DEF TimerRun
<1>6. ASSUME NEW em \in Objects, NEW ev \in Events, LoopSignal(em, ev) PROVE Endures
  <2>1. em \in Emitters /\ ev \in Keys \ {Timeout}
    BY EventAssumption DEF Emitters, Keys
  <2>2. Neat(stack', OnTime)  BY <1>0, <1>6, <2>1, NeatEmit DEF LoopSignal
  <2>3. hook' = hook /\ regs' = regs /\ timers' = timers  BY <1>6 DEF LoopSignal, cells
  <2> QED  BY <2>2, <2>3, QuietEndures
<1> QED  BY <1>1, <1>2, <1>3, <1>4, <1>5, <1>6 DEF LoopStep

(* Every step.                                                             *)
LEMMA NextEndures == ASSUME Sound, Timely, [Next]_vars PROVE Endures
<1>1. CASE UNCHANGED vars
  <2>1. Neat(stack, OnTime)  BY DEF Timely
  <2>2. hook' = hook /\ regs' = regs /\ timers' = timers /\ stack' = stack
    BY <1>1 DEF vars
  <2> QED  BY <2>1, <2>2, QuietEndures
<1>2. CASE Next
  BY <1>2, TaskCallEndures, AnyCallEndures, HookCallEndures, ParseStepEndures,
     LoopStepEndures DEF Next
<1> QED  BY <1>1, <1>2

(* The timers and the calls that timers make are those of the hooks        *)
(* registered with a delay (sched/init.lua:741-759).                       *)
THEOREM TimelyInvariant == Spec => []Timely
<1>1. Init => Timely
  <2> SUFFICES ASSUME Init PROVE Timely
    OBVIOUS
  <2>1. \A h \in Hooks : regs[h] = {}  BY DEF Init
  <2>2. stack = <<>> /\ timers = {}  BY DEF Init
  <2> QED  BY <2>1, <2>2 DEF Timely, Neat
<1>2. Sound /\ Timely /\ [Next]_vars => Timely'  BY NextEndures DEF Endures
<1> QED  BY <1>1, <1>2, SoundInvariant, PTL DEF Spec

(* A hook registered with sigHook or sigRun and no delay is detached by    *)
(* nothing but a kill: of it, by itself, or by the task a sigRun hook has  *)
(* started (sched/init.lua:217-219, 998-1003), whatever the tasks and the  *)
(* other hooks do, and in whatever order signals nest.                     *)
THEOREM HooksStay == Spec => HookStays
<1>1. Sound /\ Timely /\ [Next]_vars =>
        [\A h \in Hooks :
           hook[h] \in {"hook", "run"} /\ ~IsTimed(regs[h]) /\ hook'[h] = "emptied"
             => \/ KillHook(h)
                \/ KillSelf /\ Actor = h
                \/ \E h2 \in Hooks : target[h2] = h /\ Head(stack).slain
                                     /\ CallPropagate(h2)]_vars
  BY NextEndures DEF Endures, Excused, Ends
<1> QED  BY <1>1, SoundInvariant, TimelyInvariant, PTL DEF Spec, HookStays

-----------------------------------------------------------------------------
(* The programs that are careful, and where their tasks and hooks are. *)

\* What the program does not do.
Careful == (TaskOps \cup HookOps) \cap {"killready", "killnew", "killgone", "block"} = {}
Orderly == Careful /\ "resignal" \notin TaskOps \cup HookOps

InList(q, c) == \E i \in DOMAIN q : q[i] = c
Distinct(q)  == \A i, j \in DOMAIN q : q[i] = q[j] => i = j

SlotOf(f) == <<f.em, f.key>>

\* The cell of c is in the slot p: in its queue, or in a list of it being parsed.
Queued(w, c, p)  == p \in DOMAIN w /\ InList(w[p], c)
Left(s, c, p)    == \E j \in DOMAIN s : SlotOf(s[j]) = p /\ InList(s[j].todo, c)
Cell(w, s, c, p) == Queued(w, c, p) \/ Left(s, c, p)

\* The hook h is being called for the slot p.
Called(s, h, p) == \E j \in DOMAIN s : SlotOf(s[j]) = p /\ s[j].who = h

\* The task t is to be made ready by a signal in progress.
Woken(s, t) == \E j \in DOMAIN s : InList(s[j].woken, t)

Spread(s) ==
    \A i, j \in DOMAIN s : \A k \in DOMAIN s[i].woken, l \in DOMAIN s[j].woken :
        s[i].woken[k] = s[j].woken[l] => i = j /\ k = l

Calm(s) == \A j \in DOMAIN s : s[j].who \notin Tasks /\ s[j].key # "resume"

\* A task is in one place at most.
Alone ==
    /\ Distinct(ready) /\ Spread(stack) /\ Calm(stack)
    /\ current # None => co[current] = "active" /\ running = current
    /\ \A t \in Tasks :
         /\ co[t] = "active" => t = current
         /\ InList(ready, t) => /\ co[t] \in {"created", "suspended"}
                                /\ ~Woken(stack, t) /\ ~HasCell(t)
         /\ Woken(stack, t) => co[t] = "suspended" /\ ~HasCell(t)
         /\ HasCell(t) => co[t] = "suspended"

\* A signal fills the queue of its slot; a timer only calls a hook.
Filling(w, f) ==
    IF f.key = Timeout
    THEN f.todo = <<>> /\ f.woken = <<>> /\ f.who \in Hooks
    ELSE f.att = "queue" /\ f.ev # Timeout /\ SlotOf(f) \in DOMAIN w

\* A signal from em is in progress.
Emitting(s, em) == \E j \in DOMAIN s : s[j].em = em /\ s[j].key # Timeout

\* Each signal in progress fills the queue of its slot, alone for its emitter.
Owned(w, s) ==
    /\ \A j \in DOMAIN s : Filling(w, s[j])
    /\ \A i, j \in DOMAIN s : /\ s[i].em = s[j].em
                             /\ s[i].key # Timeout /\ s[j].key # Timeout
                             => i = j

At(w, s, h, p) == Cell(w, s, h, p) \/ Called(s, h, p)

Heard == \A h \in Hooks : /\ \A p \in regs[h] : At(waiting, stack, h, p)
                          /\ hook[h] \in {"free", "emptied"} => regs[h] = {}

\* No hook is lost.
Tidy == Owned(waiting, stack) /\ Heard

Placed == Alone /\ (Orderly => Tidy)

-----------------------------------------------------------------------------
(* Stacks and tables *)

(* A stack that is not empty is a call on top of a stack. *)
LEMMA Split ==
    ASSUME NEW S, NEW s \in Seq(S), s # <<>>
    PROVE  s = <<Head(s)>> \o Tail(s) /\ Head(s) \in S /\ Tail(s) \in Seq(S)
<1> DEFINE u == Tail(s)
           r == <<Head(s)>> \o u
<1>1. /\ Len(s) \in Nat \ {0} /\ Head(s) = s[1] /\ u \in Seq(S) /\ Len(u) = Len(s) - 1
      /\ \A i \in 1 .. Len(u) : u[i] = s[i + 1]
  BY EmptySeq, LenProperties, HeadTailProperties
<1>2. Head(s) \in S /\ <<Head(s)>> \in Seq(S) /\ Len(<<Head(s)>>) = 1 /\ <<Head(s)>>[1] = Head(s)
  BY <1>1, ElementOfSeq
<1> HIDE DEF u
<1>3. r \in Seq(S) /\ Len(r) = Len(s)
      /\ \A i \in 1 .. Len(r) : r[i] = IF i <= 1 THEN <<Head(s)>>[i] ELSE u[i - 1]
  BY <1>1, <1>2, ConcatProperties
<1> HIDE DEF r
<1>4. \A i \in 1 .. Len(s) : r[i] = s[i]
  <2> TAKE i \in 1 .. Len(s)
  <2>1. CASE i = 1  BY <1>1, <1>2, <1>3, <2>1
  <2>2. CASE i # 1
    <3>1. i - 1 \in 1 .. Len(u) /\ i - 1 + 1 = i /\ ~(i <= 1)  BY <1>1, <2>2
    <3> QED  BY <1>1, <1>3, <3>1
  <2> QED  BY <2>1, <2>2
<1>5. r = s  BY <1>3, <1>4, SeqEqual
<1> QED  BY <1>1, <1>2, <1>5 DEF r, u

(* The calls of a stack with one more on top. *)
LEMMA Consed ==
    ASSUME NEW S, NEW u \in Seq(S), NEW f \in S
    PROVE  LET r == <<f>> \o u
           IN  /\ r \in Seq(S) /\ r # <<>> /\ Head(r) = f /\ Tail(r) = u /\ Len(r) = Len(u) + 1
               /\ DOMAIN r = 1 .. Len(u) + 1 /\ DOMAIN u = 1 .. Len(u) /\ Len(u) \in Nat
               /\ r[1] = f /\ \A j \in DOMAIN u : r[j + 1] = u[j]
<1> DEFINE r == <<f>> \o u
<1>1. <<f>> \in Seq(S) /\ Len(<<f>>) = 1 /\ <<f>>[1] = f  OBVIOUS
<1>2. Len(u) \in Nat /\ DOMAIN u = 1 .. Len(u)  BY LenProperties
<1>3. r \in Seq(S) /\ Len(r) = 1 + Len(u)
      /\ \A i \in 1 .. Len(r) : r[i] = IF i <= 1 THEN <<f>>[i] ELSE u[i - 1]
  BY <1>1, <1>2, ConcatProperties
<1> HIDE DEF r
<1>4. r # <<>> /\ DOMAIN r = 1 .. Len(u) + 1 /\ r[1] = f
  <2>1. DOMAIN r = 1 .. Len(r)  BY <1>3, LenProperties
  <2>2. r # <<>>  BY <1>2, <1>3, EmptySeq
  <2> QED  BY <1>1, <1>2, <1>3, <2>1, <2>2
<1>5. \A j \in DOMAIN u : r[j + 1] = u[j]
  <2> TAKE j \in DOMAIN u
  <2>1. j + 1 \in 1 .. Len(r) /\ ~(j + 1 <= 1) /\ j + 1 - 1 = j  BY <1>2, <1>3
  <2> QED  BY <1>3, <2>1
<1>6. Head(r) = f /\ Tail(r) = u
  <2>1. Head(r) = r[1] /\ Tail(r) \in Seq(S) /\ Len(Tail(r)) = Len(r) - 1
        /\ \A i \in 1 .. Len(Tail(r)) : Tail(r)[i] = r[i + 1]
    BY <1>3, <1>4, HeadTailProperties
  <2>2. Len(Tail(r)) = Len(u) /\ \A i \in 1 .. Len(u) : Tail(r)[i] = u[i]
    BY <1>2, <1>3, <1>5, <2>1
  <2>3. Tail(r) = u  BY <2>1, <2>2, SeqEqual
  <2> QED  BY <1>4, <2>1, <2>3
<1>7. Len(r) = Len(u) + 1  BY <1>2, <1>3
<1> QED  BY <1>2, <1>3, <1>4, <1>5, <1>6, <1>7 DEF r

(* What a call adds to the stack under it. *)
LEMMA ConsOk ==
    ASSUME NEW u \in Seq(Frames), NEW f \in Frames
    PROVE  LET r == <<f>> \o u
           IN  /\ \A t : Woken(r, t) <=> InList(f.woken, t) \/ Woken(u, t)
               /\ \A c, p : Left(r, c, p) <=> Left(u, c, p) \/ (SlotOf(f) = p /\ InList(f.todo, c))
               /\ \A h, p : Called(r, h, p) <=> Called(u, h, p) \/ (SlotOf(f) = p /\ f.who = h)
               /\ Calm(r) <=> Calm(u) /\ f.who \notin Tasks /\ f.key # "resume"
               /\ Spread(r) <=> /\ Spread(u) /\ Distinct(f.woken)
                                /\ \A t : ~(InList(f.woken, t) /\ Woken(u, t))
<1> DEFINE r == <<f>> \o u
<1>1. /\ DOMAIN r = 1 .. Len(u) + 1 /\ DOMAIN u = 1 .. Len(u) /\ Len(u) \in Nat
      /\ r[1] = f /\ \A j \in DOMAIN u : r[j + 1] = u[j]
  BY Consed
<1> HIDE DEF r
<1>2. 1 \in DOMAIN r /\ \A j \in DOMAIN u : j + 1 \in DOMAIN r /\ j + 1 # 1
  BY <1>1
<1>3. \A j \in DOMAIN r : j = 1 \/ \E i \in DOMAIN u : j = i + 1
  <2> SUFFICES ASSUME NEW j \in DOMAIN r, j # 1 PROVE \E i \in DOMAIN u : j = i + 1
    OBVIOUS
  <2>1. j - 1 \in DOMAIN u /\ j = (j - 1) + 1  BY <1>1
  <2> QED  BY <2>1
<1>4. \A i, j \in DOMAIN u : i + 1 = j + 1 => i = j  BY <1>1
<1>5. \A t : Woken(r, t) <=> InList(f.woken, t) \/ Woken(u, t)
  BY <1>1, <1>2, <1>3 DEF Woken
<1>6. \A c, p : Left(r, c, p) <=> Left(u, c, p) \/ (SlotOf(f) = p /\ InList(f.todo, c))
  <2> TAKE c, p
  <2> DEFINE Has(g) == SlotOf(g) = p /\ InList(g.todo, c)
  <2>1. (\E j \in DOMAIN r : Has(r[j])) <=> Has(f) \/ \E j \in DOMAIN u : Has(u[j])
    <3> HIDE DEF Has
    <3> QED  BY <1>1, <1>2, <1>3
  <2> QED  BY <2>1 DEF Left
<1>7. \A h, p : Called(r, h, p) <=> Called(u, h, p) \/ (SlotOf(f) = p /\ f.who = h)
  BY <1>1, <1>2, <1>3 DEF Called
<1>8. Calm(r) <=> Calm(u) /\ f.who \notin Tasks /\ f.key # "resume"
  BY <1>1, <1>2, <1>3 DEF Calm
<1>9. ASSUME Spread(r)
      PROVE  Spread(u) /\ Distinct(f.woken) /\ \A t : ~(InList(f.woken, t) /\ Woken(u, t))
  <2>1. Spread(u)
    <3> SUFFICES ASSUME NEW i \in DOMAIN u, NEW j \in DOMAIN u, NEW k \in DOMAIN u[i].woken,
                        NEW l \in DOMAIN u[j].woken, u[i].woken[k] = u[j].woken[l]
                 PROVE  i = j /\ k = l
      BY DEF Spread
    <3>1. i + 1 = j + 1 /\ k = l  BY <1>1, <1>2, <1>9 DEF Spread
    <3> QED  BY <1>4, <3>1
  <2>2. Distinct(f.woken)  BY <1>1, <1>2, <1>9 DEF Spread, Distinct
  <2>3. ASSUME NEW t, InList(f.woken, t), Woken(u, t) PROVE FALSE
    <3>1. PICK j \in DOMAIN u : InList(u[j].woken, t)  BY <2>3 DEF Woken
    <3>2. PICK l \in DOMAIN u[j].woken : u[j].woken[l] = t  BY <3>1 DEF InList
    <3>3. PICK k \in DOMAIN f.woken : f.woken[k] = t  BY <2>3 DEF InList
    <3>4. 1 = j + 1  BY <1>1, <1>2, <1>9, <3>1, <3>2, <3>3 DEF Spread
    <3> QED  BY <1>2, <3>4
  <2> QED  BY <2>1, <2>2, <2>3
<1>10. ASSUME Spread(u), Distinct(f.woken), \A t : ~(InList(f.woken, t) /\ Woken(u, t))
       PROVE  Spread(r)
  <2> SUFFICES ASSUME NEW i \in DOMAIN r, NEW j \in DOMAIN r, NEW k \in DOMAIN r[i].woken,
                      NEW l \in DOMAIN r[j].woken, r[i].woken[k] = r[j].woken[l]
               PROVE  i = j /\ k = l
    BY DEF Spread
  <2>1. CASE i = 1 /\ j = 1  BY <1>1, <1>10, <2>1 DEF Distinct
  <2>2. CASE i = 1 /\ j # 1
    <3>1. PICK a \in DOMAIN u : j = a + 1  BY <1>3, <2>2
    <3>2. Woken(u, r[i].woken[k]) /\ InList(f.woken, r[i].woken[k])
      BY <1>1, <2>2, <3>1 DEF Woken, InList
    <3> QED  BY <1>10, <3>2
  <2>3. CASE i # 1 /\ j = 1
    <3>1. PICK a \in DOMAIN u : i = a + 1  BY <1>3, <2>3
    <3>2. Woken(u, r[i].woken[k]) /\ InList(f.woken, r[i].woken[k])
      BY <1>1, <2>3, <3>1 DEF Woken, InList
    <3> QED  BY <1>10, <3>2
  <2>4. CASE i # 1 /\ j # 1
    <3>1. PICK a \in DOMAIN u : i = a + 1  BY <1>3, <2>4
    <3>2. PICK b \in DOMAIN u : j = b + 1  BY <1>3, <2>4
    <3>3. a = b /\ k = l  BY <1>1, <1>10, <3>1, <3>2 DEF Spread
    <3> QED  BY <3>1, <3>2, <3>3
  <2> QED  BY <2>1, <2>2, <2>3, <2>4
<1> QED  BY <1>5, <1>6, <1>7, <1>8, <1>9, <1>10 DEF r

-----------------------------------------------------------------------------
(* Lists of cells and of tasks *)

(* Nothing is in the empty list. *)
LEMMA NilIn == Distinct(<<>>) /\ \A x : ~InList(<<>>, x)
BY EmptySeq DEF Distinct, InList

(* A list of one. *)
LEMMA OneIn == \A c : Distinct(<<c>>) /\ \A x : InList(<<c>>, x) <=> x = c
BY DEF Distinct, InList

(* What is in a list with one more at its end. *)
LEMMA AppendIn ==
    ASSUME NEW S, NEW q \in Seq(S), NEW c \in S
    PROVE  /\ \A x : InList(Append(q, c), x) <=> InList(q, x) \/ x = c
           /\ Distinct(q) /\ ~InList(q, c) => Distinct(Append(q, c))
<1> DEFINE r == Append(q, c)
           n == Len(q)
<1>1. n \in Nat /\ DOMAIN q = 1 .. n  BY LenProperties
<1>2. r \in Seq(S) /\ Len(r) = n + 1 /\ r[n + 1] = c /\ \A i \in 1 .. n : r[i] = q[i]
  BY AppendProperties
<1>3. DOMAIN r = 1 .. n + 1  BY <1>2, LenProperties
<1> HIDE DEF r, n
<1>4. /\ n + 1 \in DOMAIN r /\ DOMAIN q \subseteq DOMAIN r
      /\ \A i \in DOMAIN r : i \in DOMAIN q \/ i = n + 1
  BY <1>1, <1>3
<1>5. \A x : InList(r, x) <=> InList(q, x) \/ x = c
  BY <1>1, <1>2, <1>4 DEF InList
<1>6. ASSUME Distinct(q), ~InList(q, c) PROVE Distinct(r)
  <2> SUFFICES ASSUME NEW i \in DOMAIN r, NEW j \in DOMAIN r, r[i] = r[j] PROVE i = j
    BY DEF Distinct
  <2>1. CASE i \in DOMAIN q /\ j \in DOMAIN q  BY <1>1, <1>2, <1>6, <2>1 DEF Distinct
  <2>2. CASE i \notin DOMAIN q  BY <1>1, <1>2, <1>4, <1>6, <2>2 DEF InList
  <2>3. CASE j \notin DOMAIN q  BY <1>1, <1>2, <1>4, <1>6, <2>3 DEF InList
  <2> QED  BY <2>1, <2>2, <2>3
<1> QED  BY <1>5, <1>6 DEF r

(* What is in a list followed by another. *)
LEMMA ConcatIn ==
    ASSUME NEW S, NEW q \in Seq(S), NEW u \in Seq(S)
    PROVE  /\ \A x : InList(q \o u, x) <=> InList(q, x) \/ InList(u, x)
           /\ Distinct(q) /\ Distinct(u) /\ (\A x : ~(InList(q, x) /\ InList(u, x)))
                 => Distinct(q \o u)
<1> DEFINE r == q \o u
           n == Len(q)
           m == Len(u)
<1>1. n \in Nat /\ m \in Nat /\ DOMAIN q = 1 .. n /\ DOMAIN u = 1 .. m  BY LenProperties
<1>2. r \in Seq(S) /\ Len(r) = n + m
      /\ \A i \in 1 .. Len(r) : r[i] = IF i <= n THEN q[i] ELSE u[i - n]
  BY ConcatProperties
<1>3. DOMAIN r = 1 .. n + m  BY <1>2, LenProperties
<1> HIDE DEF r, n, m
<1>4. /\ \A i \in DOMAIN q : i \in DOMAIN r /\ r[i] = q[i]
      /\ \A i \in DOMAIN u : i + n \in DOMAIN r /\ r[i + n] = u[i]
  <2>1. \A i \in DOMAIN q : i \in DOMAIN r /\ r[i] = q[i]  BY <1>1, <1>2, <1>3
  <2>2. ASSUME NEW i \in DOMAIN u PROVE i + n \in DOMAIN r /\ r[i + n] = u[i]
    <3>1. i + n \in 1 .. n + m /\ ~(i + n <= n) /\ (i + n) - n = i  BY <1>1
    <3> QED  BY <1>2, <1>3, <3>1
  <2> QED  BY <2>1, <2>2
<1>5. \A i \in DOMAIN r : \/ i \in DOMAIN q /\ r[i] = q[i]
                          \/ i - n \in DOMAIN u /\ r[i] = u[i - n] /\ i = (i - n) + n
  BY <1>1, <1>2, <1>3
<1>6. \A x : InList(r, x) <=> InList(q, x) \/ InList(u, x)
  BY <1>4, <1>5 DEF InList
<1>7. ASSUME Distinct(q), Distinct(u), \A x : ~(InList(q, x) /\ InList(u, x))
      PROVE  Distinct(r)
  <2> SUFFICES ASSUME NEW i \in DOMAIN r, NEW j \in DOMAIN r, r[i] = r[j] PROVE i = j
    BY DEF Distinct
  <2>1. CASE i \in DOMAIN q /\ j \in DOMAIN q  BY <1>4, <1>7, <2>1 DEF Distinct
  <2>2. CASE i \in DOMAIN q /\ j \notin DOMAIN q
    <3>1. InList(q, r[i]) /\ InList(u, r[i])  BY <1>4, <1>5, <2>2 DEF InList
    <3> QED  BY <1>7, <3>1
  <2>3. CASE i \notin DOMAIN q /\ j \in DOMAIN q
    <3>1. InList(q, r[i]) /\ InList(u, r[i])  BY <1>4, <1>5, <2>3 DEF InList
    <3> QED  BY <1>7, <3>1
  <2>4. CASE i \notin DOMAIN q /\ j \notin DOMAIN q
    <3>1. i - n \in DOMAIN u /\ j - n \in DOMAIN u /\ u[i - n] = u[j - n]
      BY <1>5, <2>4
    <3>2. i - n = j - n  BY <1>7, <3>1 DEF Distinct
    <3> QED  BY <1>1, <1>3, <3>2
  <2> QED  BY <2>1, <2>2, <2>3, <2>4
<1> QED  BY <1>6, <1>7 DEF r

(* What is in a list is at its head or in its tail. *)
LEMMA TailIn ==
    ASSUME NEW S, NEW q \in Seq(S), q # <<>>
    PROVE  /\ Head(q) \in S /\ Tail(q) \in Seq(S)
           /\ \A x : InList(q, x) <=> x = Head(q) \/ InList(Tail(q), x)
           /\ Distinct(q) => Distinct(Tail(q)) /\ ~InList(Tail(q), Head(q))
<1> DEFINE c == Head(q)
           u == Tail(q)
<1>1. q = <<c>> \o u /\ c \in S /\ u \in Seq(S)  BY Split
<1> HIDE DEF c, u
<1>2. /\ DOMAIN q = 1 .. Len(u) + 1 /\ DOMAIN u = 1 .. Len(u) /\ Len(u) \in Nat
      /\ q[1] = c /\ \A j \in DOMAIN u : q[j + 1] = u[j]
  BY <1>1, Consed
<1>3. 1 \in DOMAIN q /\ \A j \in DOMAIN u : j + 1 \in DOMAIN q /\ j + 1 # 1
  BY <1>2
<1>4. \A j \in DOMAIN q : j = 1 \/ (j - 1 \in DOMAIN u /\ j = (j - 1) + 1)  BY <1>2
<1>5. \A x : InList(q, x) <=> x = c \/ InList(u, x)
  BY <1>2, <1>3, <1>4 DEF InList
<1>6. ASSUME Distinct(q) PROVE Distinct(u) /\ ~InList(u, c)
  <2>1. ASSUME NEW i \in DOMAIN u, NEW j \in DOMAIN u, u[i] = u[j] PROVE i = j
    <3>1. i + 1 = j + 1  BY <1>2, <1>3, <1>6, <2>1 DEF Distinct
    <3> QED  BY <1>2, <3>1
  <2>2. ~InList(u, c)  BY <1>2, <1>3, <1>6 DEF Distinct, InList
  <2> QED  BY <2>1, <2>2 DEF Distinct
<1> QED  BY <1>1, <1>5, <1>6 DEF c, u

(* Emptying a cell takes its owner out of a list, and no other. *)
LEMMA EmptyInIn ==
    ASSUME NEW q, NEW c
    PROVE  \A x : x # Emptied => (InList(EmptyIn(q, c), x) <=> InList(q, x) /\ x # c)
BY DEF EmptyIn, InList

(* The sweep keeps the live cells of a queue. *)
LEMMA KeptIn ==
    ASSUME NEW S, NEW q \in Seq(S)
    PROVE  \A x : InList(Kept(q), x) <=> InList(q, x) /\ LiveCell(x)
<1> DEFINE live == {i \in DOMAIN q : LiveCell(q[i])}
           n == Cardinality(live)
           at(i) == CHOOSE k \in live : Cardinality({j \in live : j < k}) = i - 1
<1>1. Len(q) \in Nat /\ DOMAIN q = 1 .. Len(q)  BY LenProperties
<1>2. live \in SUBSET (1 .. Len(q))  BY <1>1
<1>3. n \in Nat /\ IsFiniteSet(live)
  <2> HIDE DEF live
  <2>1. IsFiniteSet(1 .. Len(q))  BY <1>1, FS_Interval
  <2>2. IsFiniteSet(live)  BY <1>2, <2>1, FS_Subset
  <2> QED  BY <2>2, FS_CardinalityType
<1>4. Kept(q) = [i \in 1 .. n |-> q[at(i)]]  BY DEF Kept
<1>5. \A i \in 1 .. n : at(i) \in live
  <2> HIDE DEF live
  <2>1. \A i \in 1 .. n : \E k \in live : Cardinality({j \in live : j < k}) = i - 1
    BY <1>1, <1>2, Nth
  <2> QED  BY <2>1
<1>6. \A k \in live : \E i \in 1 .. n : at(i) = k
  <2> HIDE DEF live
  <2> TAKE k \in live
  <2> DEFINE i == Cardinality({j \in live : j < k}) + 1
  <2>1. i \in 1 .. n /\ \A l \in live : Cardinality({j \in live : j < l}) = i - 1 => l = k
    BY <1>1, <1>2, Rank
  <2>2. i - 1 = Cardinality({j \in live : j < k})
    <3>1. Cardinality({j \in live : j < k}) \in Nat  BY <1>3, FS_Subset, FS_CardinalityType
    <3> QED  BY <3>1
  <2> HIDE DEF i
  <2>3. at(i) = k  BY <2>1, <2>2
  <2> QED  BY <2>1, <2>3
<1> HIDE DEF at, n
<1>7. \A i \in live : i \in DOMAIN q /\ LiveCell(q[i])  OBVIOUS
<1>8. \A i \in DOMAIN q : LiveCell(q[i]) => i \in live  OBVIOUS
<1> HIDE DEF live
<1>9. DOMAIN Kept(q) = 1 .. n /\ \A i \in 1 .. n : Kept(q)[i] = q[at(i)]  BY <1>4
<1>10. ASSUME NEW x, InList(Kept(q), x) PROVE InList(q, x) /\ LiveCell(x)
  BY <1>5, <1>7, <1>9, <1>10 DEF InList
<1>11. ASSUME NEW x, InList(q, x), LiveCell(x) PROVE InList(Kept(q), x)
  <2>1. PICK k \in DOMAIN q : q[k] = x  BY <1>11 DEF InList
  <2>2. k \in live  BY <1>8, <1>11, <2>1
  <2>3. PICK i \in 1 .. n : at(i) = k  BY <1>6, <2>2
  <2> QED  BY <1>9, <2>1, <2>3 DEF InList
<1> QED  BY <1>10, <1>11

-----------------------------------------------------------------------------
(* What is in the table and on the stack *)

\* What is left of a call, whoever it is calling and wherever it is inserting.
Alike(f, g) ==
    f.em = g.em /\ f.ev = g.ev /\ f.key = g.key /\ f.woken = g.woken

\* The same calls: they may have other cells to parse, or another queue to fill.
Calling(r, s) == /\ r \in Seq(Frames) /\ DOMAIN r = DOMAIN s
                 /\ \A j \in DOMAIN s : Alike(r[j], s[j]) /\ r[j].who = s[j].who

\* Neither a task nor a hook moves.
Same(w1, s1, w, s) ==
    /\ \A t : Woken(s1, t) <=> Woken(s, t)
    /\ \A c \in Owners : \A p : Cell(w1, s1, c, p) <=> Cell(w, s, c, p)
    /\ \A h \in Hooks : \A p : Called(s1, h, p) <=> Called(s, h, p)
    /\ Spread(s) => Spread(s1)
    /\ Calm(s) => Calm(s1)

(* The types of a stack. *)
LEMMA CallsSeq ==
    ASSUME NEW E, NEW s, Calls(s, E)
    PROVE  s \in Seq(Frames) /\ \A j \in DOMAIN s : s[j] \in Frames /\ s[j].todo \in Seq(E)
<1> DEFINE T == {f \in Frames : f.todo \in Seq(E)}
<1>1. s \in Seq(T) /\ T \subseteq Frames  BY DEF Calls
<1>2. \A j \in DOMAIN s : s[j] \in T  BY <1>1
<1> HIDE DEF T
<1>3. s \in Seq(Frames)  BY <1>1, SeqMonotonic
<1> QED  BY <1>2, <1>3 DEF T

(* The owner of a cell is somebody. *)
LEMMA CellOwner ==
    ASSUME NEW c \in Owners
    PROVE  c # Emptied /\ c # None
BY IdAssumption DEF Owners

(* A task or a hook has a cell when a timer or a slot has it. *)
LEMMA HasCellOk ==
    \A x : HasCell(x) <=> x \in timers \/ \E p : Cell(waiting, stack, x, p)
BY DEF HasCell, Cell, Queued, Left, InList

(* The same calls wake and call the same. *)
LEMMA CallingOk ==
    ASSUME NEW s, NEW r, Calling(r, s)
    PROVE  /\ \A t : Woken(r, t) <=> Woken(s, t)
           /\ \A h, p : Called(r, h, p) <=> Called(s, h, p)
           /\ \A em : Emitting(r, em) <=> Emitting(s, em)
           /\ Spread(s) => Spread(r)
           /\ Calm(s) => Calm(r)
<1>1. \A t : Woken(r, t) <=> Woken(s, t)  BY DEF Calling, Alike, Woken
<1>2. \A h, p : Called(r, h, p) <=> Called(s, h, p)  BY DEF Calling, Alike, Called, SlotOf
<1>3. \A em : Emitting(r, em) <=> Emitting(s, em)  BY DEF Calling, Alike, Emitting
<1>4. Spread(s) => Spread(r)
  <2>1. \A j \in DOMAIN s : r[j].woken = s[j].woken  BY DEF Calling, Alike
  <2>2. DOMAIN r = DOMAIN s  BY DEF Calling
  <2> QED  BY <2>1, <2>2 DEF Spread
<1>5. Calm(s) => Calm(r)  BY DEF Calling, Alike, Calm
<1> QED  BY <1>1, <1>2, <1>3, <1>4, <1>5

(* They own the same slots, if they still fill their queues. *)
LEMMA CallingOwned ==
    ASSUME NEW w, NEW s, Owned(w, s), NEW w1, NEW r, Calling(r, s),
           \A j \in DOMAIN s : IF s[j].key = Timeout THEN s[j].todo = <<>> => r[j].todo = <<>>
                               ELSE r[j].att = s[j].att /\ (SlotOf(s[j]) \in DOMAIN w =>
                                                            SlotOf(s[j]) \in DOMAIN w1)
    PROVE  Owned(w1, r)
<1>1. ASSUME NEW j \in DOMAIN s PROVE Filling(w1, r[j])
  <2>1. Filling(w, s[j])  BY DEF Owned
  <2>2. Alike(r[j], s[j]) /\ r[j].who = s[j].who  BY DEF Calling
  <2>3. SlotOf(r[j]) = SlotOf(s[j])  BY <2>2 DEF Alike, SlotOf
  <2> HIDE DEF SlotOf
  <2>4. CASE s[j].key = Timeout  BY <2>1, <2>2, <2>4 DEF Filling, Alike
  <2>5. CASE s[j].key # Timeout  BY <2>1, <2>2, <2>3, <2>5 DEF Filling, Alike
  <2> QED  BY <2>4, <2>5
<1>2. ASSUME NEW i \in DOMAIN s, NEW j \in DOMAIN s, r[i].em = r[j].em,
             r[i].key # Timeout, r[j].key # Timeout
      PROVE  i = j
  BY <1>2 DEF Owned, Calling, Alike
<1>3. DOMAIN r = DOMAIN s  BY DEF Calling
<1> QED  BY <1>1, <1>2, <1>3 DEF Owned

(* What a call adds to the owned slots. *)
LEMMA ConsOwned ==
    ASSUME NEW w, NEW u \in Seq(Frames), NEW f \in Frames
    PROVE  Owned(w, <<f>> \o u) <=> /\ Owned(w, u) /\ Filling(w, f)
                                    /\ f.key # Timeout => ~Emitting(u, f.em)
<1> DEFINE r == <<f>> \o u
<1>1. /\ DOMAIN r = 1 .. Len(u) + 1 /\ DOMAIN u = 1 .. Len(u) /\ Len(u) \in Nat
      /\ r[1] = f /\ \A j \in DOMAIN u : r[j + 1] = u[j]
  BY Consed
<1> HIDE DEF r
<1>2. 1 \in DOMAIN r /\ \A j \in DOMAIN u : j + 1 \in DOMAIN r /\ j + 1 # 1
  BY <1>1
<1>3. \A j \in DOMAIN r : j = 1 \/ (j - 1 \in DOMAIN u /\ j = (j - 1) + 1)  BY <1>1
<1>4. (\A j \in DOMAIN r : Filling(w, r[j])) <=> Filling(w, f) /\ \A j \in DOMAIN u : Filling(w, u[j])
  BY <1>1, <1>2, <1>3
<1>5. ASSUME Owned(w, r) PROVE Owned(w, u) /\ (f.key # Timeout => ~Emitting(u, f.em))
  <2>1. ASSUME NEW i \in DOMAIN u, NEW j \in DOMAIN u, u[i].em = u[j].em,
               u[i].key # Timeout, u[j].key # Timeout
        PROVE  i = j
    <3>1. i + 1 = j + 1  BY <1>1, <1>2, <1>5, <2>1 DEF Owned
    <3> QED  BY <1>1, <3>1
  <2>2. ASSUME f.key # Timeout, Emitting(u, f.em) PROVE FALSE
    <3>1. PICK j \in DOMAIN u : u[j].em = f.em /\ u[j].key # Timeout  BY <2>2 DEF Emitting
    <3>2. 1 = j + 1  BY <1>1, <1>2, <1>5, <2>2, <3>1 DEF Owned
    <3> QED  BY <1>2, <3>2
  <2> QED  BY <1>4, <1>5, <2>1, <2>2 DEF Owned
<1>6. ASSUME Owned(w, u), Filling(w, f), f.key # Timeout => ~Emitting(u, f.em)
      PROVE  Owned(w, r)
  <2> SUFFICES ASSUME NEW i \in DOMAIN r, NEW j \in DOMAIN r, r[i].em = r[j].em,
                      r[i].key # Timeout, r[j].key # Timeout
               PROVE  i = j
    BY <1>4, <1>6 DEF Owned
  <2>1. CASE i = 1 /\ j # 1
    <3>1. u[j - 1] = r[j] /\ j - 1 \in DOMAIN u  BY <1>1, <1>3, <2>1
    <3> QED  BY <1>1, <1>6, <2>1, <3>1 DEF Emitting
  <2>2. CASE i # 1 /\ j = 1
    <3>1. u[i - 1] = r[i] /\ i - 1 \in DOMAIN u  BY <1>1, <1>3, <2>2
    <3> QED  BY <1>1, <1>6, <2>2, <3>1 DEF Emitting
  <2>3. CASE i # 1 /\ j # 1
    <3>1. /\ u[i - 1] = r[i] /\ i - 1 \in DOMAIN u
          /\ u[j - 1] = r[j] /\ j - 1 \in DOMAIN u
      BY <1>1, <1>3, <2>3
    <3>2. i - 1 = j - 1  BY <1>6, <3>1 DEF Owned
    <3> QED  BY <1>1, <3>2
  <2> QED  BY <2>1, <2>2, <2>3
<1> QED  BY <1>4, <1>5, <1>6 DEF r, Owned

-----------------------------------------------------------------------------
(* What the helpers of the actions do to them *)

(* Nothing moves when nothing changes. *)
LEMMA SameNot == \A w, s : Same(w, s, w, s)
BY DEF Same

(* Emptying a cell takes its owner out of every slot, and no other. *)
LEMMA EmptyOk ==
    ASSUME NEW w, NEW s \in Seq(Frames), NEW c
    PROVE  LET w1 == EmptyWaiting(w, c)
               s1 == EmptyStack(s, c)
           IN  /\ Calling(s1, s) /\ DOMAIN w1 = DOMAIN w
               /\ \A x, p : x # Emptied => (Cell(w1, s1, x, p) <=> Cell(w, s, x, p) /\ x # c)
               /\ Owned(w, s) => Owned(w1, s1)
<1> DEFINE w1 == EmptyWaiting(w, c)
           s1 == EmptyStack(s, c)
<1>1. s1 \in Seq(Frames) /\ DOMAIN s1 = DOMAIN s
  <2>1. Emptied \in Entries /\ Entries \ {c} \subseteq Entries  BY DEF Entries
  <2>2. Calls(s, Entries)
    <3>1. {f \in Frames : f.todo \in Seq(Entries)} = Frames  BY DEF Frames
    <3> QED  BY <3>1 DEF Calls
  <2>3. Calls(s1, Entries) /\ DOMAIN s1 = DOMAIN s  BY <2>1, <2>2, EmptyStackType
  <2> QED  BY <2>3, CallsSeq
<1>2. \A j \in DOMAIN s : s[j] \in Frames /\ s1[j] = [s[j] EXCEPT !.todo = EmptyIn(s[j].todo, c)]
  BY DEF EmptyStack
<1>3. \A j \in DOMAIN s : /\ Alike(s1[j], s[j]) /\ s1[j].who = s[j].who /\ s1[j].att = s[j].att
                          /\ s1[j].todo = EmptyIn(s[j].todo, c) /\ SlotOf(s1[j]) = SlotOf(s[j])
  BY <1>2 DEF Frames, Alike, SlotOf
<1>4. DOMAIN w1 = DOMAIN w /\ \A p \in DOMAIN w : w1[p] = EmptyIn(w[p], c)
  BY DEF EmptyWaiting
<1> HIDE DEF w1, s1
<1>5. Calling(s1, s)  BY <1>1, <1>3 DEF Calling
<1>6. ASSUME NEW x, x # Emptied, NEW p PROVE Cell(w1, s1, x, p) <=> Cell(w, s, x, p) /\ x # c
  <2>1. Queued(w1, x, p) <=> Queued(w, x, p) /\ x # c  BY <1>4, <1>6, EmptyInIn DEF Queued
  <2>2. \A j \in DOMAIN s : InList(s1[j].todo, x) <=> InList(s[j].todo, x) /\ x # c
    BY <1>3, <1>6, EmptyInIn
  <2>3. Left(s1, x, p) <=> Left(s, x, p) /\ x # c
    BY <1>1, <1>3, <2>2 DEF Left
  <2> QED  BY <2>1, <2>3 DEF Cell
<1>7. ASSUME Owned(w, s) PROVE Owned(w1, s1)
  <2>1. EmptyIn(<<>>, c) = <<>>
    <3>1. EmptyIn(<<>>, c) = [i \in {} |-> 0] /\ <<>> = [i \in {} |-> 0]  BY DEF EmptyIn
    <3> QED  BY <3>1
  <2>2. \A j \in DOMAIN s : IF s[j].key = Timeout THEN s[j].todo = <<>> => s1[j].todo = <<>>
                            ELSE s1[j].att = s[j].att /\ (SlotOf(s[j]) \in DOMAIN w =>
                                                          SlotOf(s[j]) \in DOMAIN w1)
    BY <1>3, <1>4, <2>1
  <2> QED  BY <1>5, <1>7, <2>2, CallingOwned
<1> QED  BY <1>4, <1>5, <1>6, <1>7 DEF w1, s1

(* Registering a cell adds its owner to the slots, and no other. *)
LEMMA RegisterOk ==
    ASSUME NEW w, Table(w, Entries), NEW c \in Entries, NEW S \in SUBSET Slots, NEW s
    PROVE  LET w1 == Register(w, c, S)
           IN  /\ DOMAIN w \subseteq DOMAIN w1
               /\ \A x, p : Cell(w1, s, x, p) <=> Cell(w, s, x, p) \/ (x = c /\ p \in S)
               /\ Owned(w, s) => Owned(w1, s)
<1> DEFINE w1 == Register(w, c, S)
<1>1. /\ DOMAIN w1 = DOMAIN w \cup S
      /\ \A p \in DOMAIN w1 : w1[p] = IF p \notin S THEN w[p]
                                      ELSE IF p \in DOMAIN w THEN Append(w[p], c) ELSE <<c>>
  BY DEF Register
<1> HIDE DEF w1
<1>2. \A p \in DOMAIN w : w[p] \in Seq(Entries)  BY DEF Table
<1>3. ASSUME NEW x, NEW p PROVE Queued(w1, x, p) <=> Queued(w, x, p) \/ (x = c /\ p \in S)
  <2>1. CASE p \notin S  BY <1>1, <2>1 DEF Queued
  <2>2. CASE p \in S /\ p \in DOMAIN w  BY <1>1, <1>2, <2>2, AppendIn DEF Queued
  <2>3. CASE p \in S /\ p \notin DOMAIN w  BY <1>1, <2>3, OneIn DEF Queued
  <2> QED  BY <2>1, <2>2, <2>3
<1>4. \A x, p : Cell(w1, s, x, p) <=> Cell(w, s, x, p) \/ (x = c /\ p \in S)
  BY <1>3 DEF Cell
<1>5. Owned(w, s) => Owned(w1, s)  BY <1>1 DEF Owned, Filling
<1> QED  BY <1>1, <1>4, <1>5 DEF w1

(* Detaching calls from the queue of a slot moves nobody. *)
LEMMA DisplaceOk ==
    ASSUME NEW s \in Seq(Frames), NEW p, NEW q
    PROVE  LET r == Displace(s, p, q)
           IN  /\ Calling(r, s)
               /\ \A x, p1 : Left(r, x, p1) <=> Left(s, x, p1)
               /\ (\A j \in DOMAIN s : s[j].key = Timeout \/ s[j].em # p[1])
                   => \A w, w1 : Owned(w, s) /\ DOMAIN w \subseteq DOMAIN w1 => Owned(w1, r)
<1> DEFINE r == Displace(s, p, q)
<1>1. r \in Seq(Frames)
  <2>1. Calls(s, Entries)
    <3>1. {f \in Frames : f.todo \in Seq(Entries)} = Frames  BY DEF Frames
    <3> QED  BY <3>1 DEF Calls
  <2>2. Calls(r, Entries)  BY <2>1, DisplaceType
  <2> QED  BY <2>2, CallsSeq
<1>2. DOMAIN r = DOMAIN s /\ \A j \in DOMAIN s : s[j] \in Frames
  BY DEF Displace
<1>3. \A j \in DOMAIN s : r[j] = IF <<s[j].em, s[j].key>> = p /\ s[j].att = "queue"
                                 THEN [s[j] EXCEPT !.att = "row", !.full = (q # <<>>)] ELSE s[j]
  BY DEF Displace
<1> HIDE DEF r
<1>4. \A j \in DOMAIN s : /\ Alike(r[j], s[j]) /\ r[j].who = s[j].who
                          /\ r[j].todo = s[j].todo /\ SlotOf(r[j]) = SlotOf(s[j])
                          /\ s[j].em # p[1] => r[j].att = s[j].att
  <2> TAKE j \in DOMAIN s
  <2>1. CASE <<s[j].em, s[j].key>> = p /\ s[j].att = "queue"
    <3> DEFINE b == q # <<>>
    <3>1. r[j] = [s[j] EXCEPT !.att = "row", !.full = b]  BY <1>3, <2>1
    <3> HIDE DEF b
    <3> QED  BY <1>2, <2>1, <3>1 DEF Frames, Alike, SlotOf
  <2>2. CASE ~(<<s[j].em, s[j].key>> = p /\ s[j].att = "queue")
    <3>1. r[j] = s[j]  BY <1>3, <2>2
    <3> QED  BY <3>1 DEF Alike
  <2> QED  BY <2>1, <2>2
<1>5. Calling(r, s)  BY <1>1, <1>2, <1>4 DEF Calling
<1>6. \A x, p1 : Left(r, x, p1) <=> Left(s, x, p1)  BY <1>2, <1>4 DEF Left
<1>7. ASSUME \A j \in DOMAIN s : s[j].key = Timeout \/ s[j].em # p[1],
             NEW w, NEW w1, Owned(w, s), DOMAIN w \subseteq DOMAIN w1
      PROVE  Owned(w1, r)
  <2>1. \A j \in DOMAIN s : IF s[j].key = Timeout THEN s[j].todo = <<>> => r[j].todo = <<>>
                            ELSE r[j].att = s[j].att /\ (SlotOf(s[j]) \in DOMAIN w =>
                                                         SlotOf(s[j]) \in DOMAIN w1)
    BY <1>4, <1>7
  <2> QED  BY <1>5, <1>7, <2>1, CallingOwned
<1> QED  BY <1>5, <1>6, <1>7 DEF r

(* A call that starts to parse a queue takes it from the table. *)
LEMMA CallOk ==
    ASSUME NEW w, Table(w, Entries), NEW s \in Seq(Frames), NEW f \in Frames,
           f.who = None, f.key # "resume", f.att = "queue",
           SlotOf(f) \in DOMAIN w, f.todo = w[SlotOf(f)]
    PROVE  LET p  == SlotOf(f)
               s1 == <<f>> \o Displace(s, p, w[p])
               w1 == [w EXCEPT ![p] = <<>>]
           IN  /\ s1 \in Seq(Frames)
               /\ \A t : Woken(s1, t) <=> InList(f.woken, t) \/ Woken(s, t)
               /\ \A x, p1 : Cell(w1, s1, x, p1) <=> Cell(w, s, x, p1)
               /\ \A h \in Hooks : \A p1 : Called(s1, h, p1) <=> Called(s, h, p1)
               /\ Spread(s) /\ Distinct(f.woken) /\ (\A t : ~(InList(f.woken, t) /\ Woken(s, t)))
                    => Spread(s1)
               /\ Calm(s) => Calm(s1)
               /\ Owned(w, s) /\ ~Emitting(s, f.em) /\ f.ev # Timeout /\ f.key # Timeout
                    => Owned(w1, s1)
<1> DEFINE p  == SlotOf(f)
           d  == Displace(s, p, w[p])
           s1 == <<f>> \o d
           w1 == [w EXCEPT ![p] = <<>>]
<1>1. Calling(d, s) /\ \A x, p1 : Left(d, x, p1) <=> Left(s, x, p1)  BY DisplaceOk
<1>2. d \in Seq(Frames)  BY <1>1 DEF Calling
<1>3. /\ \A t : Woken(d, t) <=> Woken(s, t)
      /\ \A h, p1 : Called(d, h, p1) <=> Called(s, h, p1)
      /\ \A em : Emitting(d, em) <=> Emitting(s, em)
      /\ Spread(s) => Spread(d)
      /\ Calm(s) => Calm(d)
  BY <1>1, CallingOk
<1>4. /\ \A t : Woken(s1, t) <=> InList(f.woken, t) \/ Woken(d, t)
      /\ \A c, p1 : Left(s1, c, p1) <=> Left(d, c, p1) \/ (SlotOf(f) = p1 /\ InList(f.todo, c))
      /\ \A h, p1 : Called(s1, h, p1) <=> Called(d, h, p1) \/ (SlotOf(f) = p1 /\ f.who = h)
      /\ Calm(s1) <=> Calm(d) /\ f.who \notin Tasks /\ f.key # "resume"
      /\ Spread(s1) <=> /\ Spread(d) /\ Distinct(f.woken)
                        /\ \A t : ~(InList(f.woken, t) /\ Woken(d, t))
  <2> HIDE DEF d
  <2> QED  BY <1>2, ConsOk
<1>5. s1 \in Seq(Frames)
  <2> HIDE DEF d
  <2> QED  BY <1>2, Consed
<1>6. ASSUME Owned(w, s), ~Emitting(s, f.em), f.ev # Timeout, f.key # Timeout
      PROVE  Owned(w1, s1)
  <2>1. p[1] = f.em  BY DEF SlotOf
  <2>2. \A j \in DOMAIN s : s[j].key = Timeout \/ s[j].em # p[1]
    BY <1>6, <2>1 DEF Emitting
  <2>3. DOMAIN w1 = DOMAIN w  OBVIOUS
  <2> HIDE DEF p, w1
  <2>4. Owned(w1, d)  BY <1>6, <2>2, <2>3, DisplaceOk
  <2>5. Filling(w1, f)  BY <1>6, <2>3 DEF Filling
  <2>6. ~Emitting(d, f.em)  BY <1>3, <1>6
  <2> HIDE DEF d
  <2> QED  BY <1>2, <2>4, <2>5, <2>6, ConsOwned
<1> HIDE DEF d, s1
<1>7. ASSUME NEW x, NEW p1 PROVE Cell(w1, s1, x, p1) <=> Cell(w, s, x, p1)
  <2>1. Queued(w1, x, p1) <=> Queued(w, x, p1) /\ p1 # p  BY NilIn DEF Queued
  <2>2. Left(s1, x, p1) <=> Left(s, x, p1) \/ (p = p1 /\ InList(w[p], x))  BY <1>1, <1>4
  <2>3. p = p1 => (Queued(w, x, p1) <=> InList(w[p], x))  BY DEF Queued
  <2> HIDE DEF p, w1
  <2> QED  BY <2>1, <2>2, <2>3 DEF Cell
<1>8. None \notin Hooks /\ None \notin Tasks  BY IdAssumption
<1>9. \A h \in Hooks : \A p1 : Called(s1, h, p1) <=> Called(s, h, p1)
  BY <1>3, <1>4, <1>8
<1>10. \A t : Woken(s1, t) <=> InList(f.woken, t) \/ Woken(s, t)  BY <1>3, <1>4
<1>11. Calm(s) => Calm(s1)  BY <1>3, <1>4, <1>8
<1>12. Spread(s) /\ Distinct(f.woken) /\ (\A t : ~(InList(f.woken, t) /\ Woken(s, t)))
          => Spread(s1)
  BY <1>3, <1>4
<1> QED  BY <1>5, <1>6, <1>7, <1>9, <1>10, <1>11, <1>12 DEF p, d, s1, w1

(* Entering signal() moves nobody. *)
LEMMA EmitOk ==
    ASSUME NEW em \in Emitters, NEW ev \in Keys, NEW slain \in BOOLEAN,
           NEW w, Table(w, Entries), NEW s \in Seq(Frames), Emit(em, ev, slain, w, s)
    PROVE  /\ Same(waiting', stack', w, s)
           /\ Owned(w, s) /\ ~Emitting(s, em) /\ ev # Timeout => Owned(waiting', stack')
<1> DEFINE queues == {k \in {Star, ev} : <<em, k>> \in DOMAIN w}
           key == IF Star \in queues THEN Star ELSE ev
           p == <<em, key>>
           f == NewFrame(em, ev, slain, key, w[p], "queue", None)
<1>1. CASE queues = {}
  <2>1. waiting' = w /\ stack' = s  BY <1>1 DEF Emit
  <2> QED  BY <2>1, SameNot
<1>2. CASE queues # {}
  <2>1. /\ p \in DOMAIN w /\ key \in Keys /\ key # "resume"
        /\ ev # Timeout => key # Timeout
    BY <1>2, EventAssumption DEF Keys, Star, Timeout, Die
  <2>2. w[p] \in Seq(Entries)  BY <2>1 DEF Table
  <2>3. /\ waiting' = [w EXCEPT ![p] = <<>>]
        /\ stack' = <<f>> \o Displace(s, p, w[p])
    BY <1>2 DEF Emit
  <2>4. Entries \in SUBSET Entries /\ "queue" \in {"queue", "row", "none"}
        /\ None \in Owners \cup {None} /\ key \in Keys \cup {"resume"}
    BY <2>1
  <2>5. f \in Frames
    <3> HIDE DEF key, f
    <3>1. LET g == NewFrame(em, ev, slain, key, w[p], "queue", None)
          IN  g \in Frames /\ g.todo \in Seq(Entries)
      BY <2>2, <2>4, NewFrameType
    <3> QED  BY <3>1 DEF f
  <2>6. /\ f.who = None /\ f.key = key /\ f.att = "queue" /\ f.em = em /\ f.ev = ev
        /\ f.woken = <<>> /\ SlotOf(f) = p /\ f.todo = w[p]
    BY DEF NewFrame, SlotOf
  <2> HIDE DEF f, p, key, queues
  <2>7. /\ \A t : Woken(stack', t) <=> InList(f.woken, t) \/ Woken(s, t)
        /\ \A x, p1 : Cell(waiting', stack', x, p1) <=> Cell(w, s, x, p1)
        /\ \A h \in Hooks : \A p1 : Called(stack', h, p1) <=> Called(s, h, p1)
        /\ Spread(s) /\ Distinct(f.woken) /\ (\A t : ~(InList(f.woken, t) /\ Woken(s, t)))
              => Spread(stack')
        /\ Calm(s) => Calm(stack')
        /\ Owned(w, s) /\ ~Emitting(s, f.em) /\ f.ev # Timeout /\ f.key # Timeout
              => Owned(waiting', stack')
    BY <2>1, <2>3, <2>5, <2>6, CallOk
  <2>8. Same(waiting', stack', w, s)  BY <2>6, <2>7, NilIn DEF Same
  <2> QED  BY <2>1, <2>6, <2>7, <2>8
<1> QED  BY <1>1, <1>2

\* What the call f adds to the stack u.
OnTop(r, f, u) ==
    /\ \A t : Woken(r, t) <=> InList(f.woken, t) \/ Woken(u, t)
    /\ \A c, p : Left(r, c, p) <=> Left(u, c, p) \/ (SlotOf(f) = p /\ InList(f.todo, c))
    /\ \A h, p : Called(r, h, p) <=> Called(u, h, p) \/ (SlotOf(f) = p /\ f.who = h)
    /\ Calm(r) <=> Calm(u) /\ f.who \notin Tasks /\ f.key # "resume"
    /\ Spread(r) <=> /\ Spread(u) /\ Distinct(f.woken)
                     /\ \A t : ~(InList(f.woken, t) /\ Woken(u, t))
    /\ \A w : Owned(w, r) <=> /\ Owned(w, u) /\ Filling(w, f)
                              /\ f.key # Timeout => ~Emitting(u, f.em)

(* A stack with one more call. *)
LEMMA OnTopOk ==
    ASSUME NEW u \in Seq(Frames), NEW f \in Frames
    PROVE  LET r == <<f>> \o u
           IN  r \in Seq(Frames) /\ r # <<>> /\ Head(r) = f /\ Tail(r) = u /\ OnTop(r, f, u)
<1> DEFINE r == <<f>> \o u
<1>1. r \in Seq(Frames) /\ r # <<>> /\ Head(r) = f /\ Tail(r) = u  BY Consed
<1>2. /\ \A t : Woken(r, t) <=> InList(f.woken, t) \/ Woken(u, t)
      /\ \A c, p : Left(r, c, p) <=> Left(u, c, p) \/ (SlotOf(f) = p /\ InList(f.todo, c))
      /\ \A h, p : Called(r, h, p) <=> Called(u, h, p) \/ (SlotOf(f) = p /\ f.who = h)
      /\ Calm(r) <=> Calm(u) /\ f.who \notin Tasks /\ f.key # "resume"
      /\ Spread(r) <=> /\ Spread(u) /\ Distinct(f.woken)
                       /\ \A t : ~(InList(f.woken, t) /\ Woken(u, t))
  BY ConsOk
<1>3. \A w : Owned(w, r) <=> /\ Owned(w, u) /\ Filling(w, f)
                             /\ f.key # Timeout => ~Emitting(u, f.em)
  BY ConsOwned
<1> HIDE DEF r
<1>4. OnTop(r, f, u)  BY <1>2, <1>3 DEF OnTop
<1> QED  BY <1>1, <1>4 DEF r

(* The innermost call of a stack, and the others. *)
LEMMA TopOk ==
    ASSUME NEW s \in Seq(Frames), s # <<>>
    PROVE  /\ Head(s) \in Frames /\ Tail(s) \in Seq(Frames) /\ s = <<Head(s)>> \o Tail(s)
           /\ OnTop(s, Head(s), Tail(s))
<1> DEFINE f == Head(s)
           u == Tail(s)
<1>1. f \in Frames /\ u \in Seq(Frames) /\ s = <<f>> \o u  BY Split
<1> HIDE DEF f, u
<1>2. OnTop(<<f>> \o u, f, u)  BY <1>1, OnTopOk
<1>3. OnTop(s, f, u)  BY <1>1, <1>2
<1> QED  BY <1>1, <1>3 DEF f, u

(* The sweep takes from the queues the cells that do not live, and no other. *)
LEMMA CollectedOk ==
    ASSUME NEW w, Table(w, Entries), NEW s \in Seq(Frames)
    PROVE  LET w1 == Collected(w, s)
           IN  /\ \A x, p : Cell(w1, s, x, p) => Cell(w, s, x, p)
               /\ \A x, p : LiveCell(x) /\ Cell(w, s, x, p) => Cell(w1, s, x, p)
               /\ Owned(w, s) /\ Calm(s) => Owned(w1, s)
<1> DEFINE kept == [p \in DOMAIN w |-> Kept(w[p])]
           gone == {p \in DOMAIN w : kept[p] = <<>>}
           w1   == Collected(w, s)
<1>1. w1 = IF Processing(s) THEN kept ELSE Without(kept, gone)  BY DEF Collected
<1>2. DOMAIN kept = DOMAIN w /\ \A p \in DOMAIN w : kept[p] = Kept(w[p])  OBVIOUS
<1>3. \A p \in gone : p \in DOMAIN w /\ kept[p] = <<>>  OBVIOUS
<1> HIDE DEF kept, gone, w1
<1>4. \A x : \A p \in DOMAIN w : InList(kept[p], x) <=> InList(w[p], x) /\ LiveCell(x)
  BY <1>2, KeptIn DEF Table
<1>5. \A x, p : Queued(kept, x, p) <=> Queued(w, x, p) /\ LiveCell(x)
  BY <1>2, <1>4 DEF Queued
<1>6. \A x, p : Queued(Without(kept, gone), x, p) <=> Queued(kept, x, p)
  BY <1>2, <1>3, NilIn DEF Queued, Without
<1>7. \A x, p : Queued(w1, x, p) <=> Queued(w, x, p) /\ LiveCell(x)
  BY <1>1, <1>5, <1>6
<1>8. ASSUME Owned(w, s), Calm(s) PROVE Owned(w1, s)
  <2>1. ASSUME NEW j \in DOMAIN s PROVE Filling(w1, s[j])
    <3>1. Filling(w, s[j])  BY <1>8 DEF Owned
    <3>2. CASE s[j].key = Timeout  BY <3>1, <3>2 DEF Filling
    <3>3. CASE s[j].key # Timeout
      <4>1. Processing(s)  BY <1>8, <3>3 DEF Processing, Calm
      <4>2. DOMAIN w1 = DOMAIN w  BY <1>1, <1>2, <4>1
      <4> QED  BY <3>1, <4>2 DEF Filling
    <3> QED  BY <3>2, <3>3
  <2> QED  BY <1>8, <2>1 DEF Owned
<1> QED  BY <1>7, <1>8 DEF w1, Cell

(* Reattaching a cell moves nobody else; a call that fills its queue does  *)
(* put the cell in the slot.                                               *)
LEMMA ReattachOk ==
    ASSUME NEW w, Table(w, Entries), NEW c \in Entries, NEW s \in Seq(Frames), s # <<>>,
           Reattach(c, w, s)
    PROVE  /\ Calling(stack', s)
           /\ \A x, p : x # c => (Cell(waiting', stack', x, p) <=> Cell(w, s, x, p))
           /\ Owned(w, s) /\ Head(s).key # Timeout =>
                 /\ Owned(waiting', stack') /\ Cell(waiting', stack', c, SlotOf(Head(s)))
                 /\ \A p : Cell(w, s, c, p) => Cell(waiting', stack', c, p)
<1> DEFINE f == Head(s)
           u == Tail(s)
           p == SlotOf(f)
<1>1. /\ f \in Frames /\ u \in Seq(Frames) /\ s = <<f>> \o u /\ OnTop(s, f, u)  BY TopOk
<1>2. CASE f.att = "queue"
  <2>1. waiting' = [w EXCEPT ![p] = Append(w[p], c)] /\ stack' = s
    BY <1>2 DEF Reattach, SlotOf
  <2> HIDE DEF p
  <2>2. Calling(stack', s)  BY <2>1 DEF Calling, Alike
  <2>3. \A p1 \in DOMAIN w : w[p1] \in Seq(Entries)  BY DEF Table
  <2>4. DOMAIN waiting' = DOMAIN w /\ \A p1 \in DOMAIN w :
          waiting'[p1] = IF p1 = p THEN Append(w[p1], c) ELSE w[p1]
    BY <2>1
  <2>5. \A x, p1 : Queued(waiting', x, p1) <=>
                     Queued(w, x, p1) \/ (x = c /\ p1 = p /\ p \in DOMAIN w)
    <3>1. \A x : \A p1 \in DOMAIN w : InList(Append(w[p1], c), x) <=> InList(w[p1], x) \/ x = c
      BY <2>3, AppendIn
    <3>2. ASSUME NEW x, NEW p1 \in DOMAIN w
          PROVE  InList(waiting'[p1], x) <=> InList(w[p1], x) \/ (x = c /\ p1 = p)
      <4>1. CASE p1 = p  BY <2>4, <3>1, <4>1
      <4>2. CASE p1 # p  BY <2>4, <4>2
      <4> QED  BY <4>1, <4>2
    <3> QED  BY <2>4, <3>2 DEF Queued
  <2>6. ASSUME Owned(w, s), f.key # Timeout
        PROVE  p \in DOMAIN w /\ Owned(waiting', stack')
    <3>1. Filling(w, f)  BY <1>1, <2>6 DEF OnTop
    <3>2. p \in DOMAIN w  BY <2>6, <3>1 DEF Filling, p
    <3>3. Owned(waiting', stack')  BY <2>1, <2>4, <2>6 DEF Owned, Filling
    <3> QED  BY <3>2, <3>3
  <2> QED  BY <2>1, <2>2, <2>5, <2>6 DEF Cell, p
<1>3. CASE f.att # "queue"
  <2> DEFINE g == [f EXCEPT !.full = TRUE]
             r == <<g>> \o u
  <2>1. waiting' = w /\ stack' = r  BY <1>3 DEF Reattach
  <2>2. /\ g \in Frames /\ Alike(g, f) /\ g.who = f.who /\ g.todo = f.todo /\ SlotOf(g) = SlotOf(f)
    BY <1>1 DEF Frames, Alike, SlotOf
  <2> HIDE DEF g
  <2>3. r \in Seq(Frames) /\ OnTop(r, g, u)  BY <1>1, <2>2, OnTopOk
  <2>4. Calling(r, s)
    <3> HIDE DEF f, u
    <3>1. /\ DOMAIN s = 1 .. Len(u) + 1 /\ s[1] = f /\ Len(u) \in Nat
          /\ \A j \in 1 .. Len(u) : s[j + 1] = u[j]
      BY <1>1, Consed
    <3>2. /\ DOMAIN r = 1 .. Len(u) + 1 /\ r[1] = g
          /\ \A j \in 1 .. Len(u) : r[j + 1] = u[j]
      BY <1>1, <2>2, Consed
    <3> HIDE DEF r
    <3>3. ASSUME NEW j \in DOMAIN s PROVE Alike(r[j], s[j]) /\ r[j].who = s[j].who
      <4>1. CASE j = 1  BY <2>2, <3>1, <3>2, <4>1
      <4>2. CASE j # 1
        <5>1. j - 1 \in 1 .. Len(u) /\ (j - 1) + 1 = j  BY <3>1, <4>2
        <5>2. r[j] = s[j]  BY <3>1, <3>2, <5>1
        <5> QED  BY <5>2 DEF Alike
      <4> QED  BY <4>1, <4>2
    <3> QED  BY <2>3, <3>1, <3>2, <3>3 DEF Calling
  <2> HIDE DEF r
  <2>5. \A x, p1 : Left(r, x, p1) <=> Left(s, x, p1)  BY <1>1, <2>2, <2>3 DEF OnTop
  <2>6. ~(Owned(w, s) /\ f.key # Timeout)  BY <1>1, <1>3 DEF OnTop, Filling
  <2> QED  BY <2>1, <2>4, <2>5, <2>6 DEF Cell
<1> QED  BY <1>2, <1>3

(* The stack once the next cell has been taken: its owner is in the slot no more. *)
LEMMA TakenOk ==
    ASSUME stack \in Seq(Frames), NEW c, NextCell(c)
    PROVE  /\ stack # <<>> /\ Taken \in Seq(Frames) /\ Taken # <<>>
           /\ Head(Taken) \in Frames /\ Tail(Taken) = Tail(stack)
           /\ Alike(Head(Taken), Head(stack)) /\ SlotOf(Head(Taken)) = SlotOf(Head(stack))
           /\ Head(Taken).who = None /\ Head(stack).who = None
           /\ Calm(stack) => Calm(Taken)
           /\ Spread(stack) => Spread(Taken)
           /\ \A t : Woken(Taken, t) <=> Woken(stack, t)
           /\ \A h, p : Called(Taken, h, p) <=> Called(stack, h, p)
           /\ \A x, p : Left(stack, x, p) <=>
                          Left(Taken, x, p) \/ (x = c /\ p = SlotOf(Head(stack)))
           /\ \A w : Owned(w, stack) => Owned(w, Taken) /\ Head(stack).key # Timeout
<1> DEFINE f == Head(stack)
           u == Tail(stack)
           g == [f EXCEPT !.todo = Tail(f.todo)]
           r == <<g>> \o u
<1>1. stack # <<>> /\ f.who = None /\ f.todo # <<>> /\ Head(f.todo) = c
  BY DEF NextCell, Parsing
<1>2. /\ f \in Frames /\ u \in Seq(Frames) /\ OnTop(stack, f, u)  BY <1>1, TopOk
<1>3. f.todo \in Seq(Entries)  BY <1>2 DEF Frames
<1>4. Tail(f.todo) \in Seq(Entries) /\ \A x : InList(f.todo, x) <=> x = c \/ InList(Tail(f.todo), x)
  BY <1>1, <1>3, TailIn
<1>5. /\ g \in Frames /\ Alike(g, f) /\ g.who = f.who /\ SlotOf(g) = SlotOf(f)
      /\ g.todo = Tail(f.todo) /\ g.att = f.att
  BY <1>2, <1>4 DEF Frames, Alike, SlotOf
<1>6. Taken = r  BY DEF Taken
<1> HIDE DEF f, g, u
<1>7. r \in Seq(Frames) /\ r # <<>> /\ Head(r) = g /\ Tail(r) = u /\ OnTop(r, g, u)
  BY <1>2, <1>5, OnTopOk
<1> HIDE DEF r
<1>8. \A w : Owned(w, stack) => Owned(w, r) /\ f.key # Timeout
  <2> SUFFICES ASSUME NEW w, Owned(w, stack) PROVE Owned(w, r) /\ f.key # Timeout
    OBVIOUS
  <2>1. Filling(w, f) /\ Owned(w, u) /\ (f.key # Timeout => ~Emitting(u, f.em))
    BY <1>2 DEF OnTop
  <2>2. f.key # Timeout  BY <1>1, <2>1 DEF Filling
  <2>3. Filling(w, g)  BY <1>5, <2>1, <2>2 DEF Filling, Alike
  <2>4. g.em = f.em /\ g.key = f.key  BY <1>5 DEF Alike
  <2>5. Owned(w, r)  BY <1>7, <2>1, <2>3, <2>4 DEF OnTop
  <2> QED  BY <2>2, <2>5
<1>9. \A x, p : Left(stack, x, p) <=> Left(r, x, p) \/ (x = c /\ p = SlotOf(f))
  BY <1>2, <1>4, <1>5, <1>7 DEF OnTop
<1>10. g.woken = f.woken /\ g.key = f.key  BY <1>5 DEF Alike
<1>11. /\ Calm(stack) => Calm(r)
       /\ Spread(stack) => Spread(r)
       /\ \A t : Woken(r, t) <=> Woken(stack, t)
       /\ \A h, p : Called(r, h, p) <=> Called(stack, h, p)
  BY <1>2, <1>5, <1>7, <1>10 DEF OnTop
<1> QED  BY <1>1, <1>5, <1>6, <1>7, <1>8, <1>9, <1>11 DEF f, u

(* The same calls are as many. *)
LEMMA CallingLen ==
    ASSUME NEW s \in Seq(Frames), NEW r, Calling(r, s)
    PROVE  Len(r) = Len(s)
<1> DEFINE a == Len(r)
           b == Len(s)
<1>1. r \in Seq(Frames) /\ DOMAIN r = DOMAIN s  BY DEF Calling
<1>2. a \in Nat /\ b \in Nat /\ 1 .. a = 1 .. b  BY <1>1, LenProperties
<1> HIDE DEF a, b
<1>3. a = b
  <2>1. CASE a > b
    <3>1. a \in 1 .. a /\ a \notin 1 .. b  BY <1>2, <2>1
    <3> QED  BY <1>2, <3>1
  <2>2. CASE b > a
    <3>1. b \in 1 .. b /\ b \notin 1 .. a  BY <1>2, <2>2
    <3> QED  BY <1>2, <3>1
  <2> QED  BY <1>2, <2>1, <2>2
<1> QED  BY <1>3 DEF a, b

(* Without the innermost, the same calls are the same calls. *)
LEMMA CallingTail ==
    ASSUME NEW s \in Seq(Frames), s # <<>>, NEW r, Calling(r, s)
    PROVE  /\ r # <<>> /\ Alike(Head(r), Head(s)) /\ Calling(Tail(r), Tail(s))
           /\ DOMAIN Tail(s) = 1 .. Len(Tail(s)) /\ Len(Tail(s)) \in Nat
           /\ \A j \in DOMAIN Tail(s) : /\ j + 1 \in DOMAIN s /\ Tail(r)[j] = r[j + 1]
                                        /\ Tail(s)[j] = s[j + 1]
<1> DEFINE f == Head(s)
           u == Tail(s)
           g == Head(r)
           v == Tail(r)
<1>1. f \in Frames /\ u \in Seq(Frames) /\ s = <<f>> \o u  BY TopOk
<1>2. /\ DOMAIN s = 1 .. Len(u) + 1 /\ s[1] = f /\ Len(u) \in Nat /\ DOMAIN u = 1 .. Len(u)
      /\ \A j \in DOMAIN u : s[j + 1] = u[j]
  <2> HIDE DEF f, u
  <2> QED  BY <1>1, Consed
<1>3. r \in Seq(Frames) /\ DOMAIN r = DOMAIN s  BY DEF Calling
<1>4. r # <<>>  BY <1>2, <1>3, EmptySeq
<1>5. g \in Frames /\ v \in Seq(Frames) /\ r = <<g>> \o v  BY <1>3, <1>4, TopOk
<1>6. /\ DOMAIN r = 1 .. Len(v) + 1 /\ r[1] = g /\ Len(v) \in Nat /\ DOMAIN v = 1 .. Len(v)
      /\ \A j \in DOMAIN v : r[j + 1] = v[j]
  <2> HIDE DEF g, v
  <2> QED  BY <1>5, Consed
<1> HIDE DEF f, u, g, v
<1>7. Len(u) = Len(v)
  <2>1. 1 .. Len(u) + 1 = 1 .. Len(v) + 1  BY <1>2, <1>3, <1>6
  <2>2. Len(u) + 1 \in 1 .. Len(v) + 1 /\ Len(v) + 1 \in 1 .. Len(u) + 1
    <3>1. Len(u) + 1 \in 1 .. Len(u) + 1 /\ Len(v) + 1 \in 1 .. Len(v) + 1  BY <1>2, <1>6
    <3> QED  BY <2>1, <3>1
  <2>3. Len(u) \in Nat /\ Len(v) \in Nat  BY <1>2, <1>6
  <2> DEFINE a == Len(u)
             b == Len(v)
  <2> HIDE DEF a, b
  <2>4. a \in Nat /\ b \in Nat /\ a + 1 \in 1 .. b + 1 /\ b + 1 \in 1 .. a + 1
    BY <2>2, <2>3 DEF a, b
  <2>5. a = b  BY <2>4
  <2> QED  BY <2>5 DEF a, b
<1>8. \A j \in DOMAIN u : j + 1 \in DOMAIN s /\ v[j] = r[j + 1] /\ u[j] = s[j + 1]
  BY <1>2, <1>6, <1>7
<1>9. Alike(g, f)  BY <1>2, <1>6 DEF Calling
<1>10. Calling(v, u)  BY <1>2, <1>5, <1>6, <1>7, <1>8, ZenonT(60) DEF Calling
<1> QED  BY <1>2, <1>4, <1>8, <1>9, <1>10 DEF f, g, u, v

\* What the end of a queue leaves: the table w, and the calls v under the one
\* that ends. Either its signal has ended, or it parses its second queue.
Ended(w, v) ==
    LET f == Head(stack)
        u == Tail(stack)
    IN  /\ Table(w, Entries)
        /\ DOMAIN w \subseteq DOMAIN waiting /\ \A p1 \in DOMAIN w : w[p1] = waiting[p1]
        /\ \A p1 \in DOMAIN waiting \ DOMAIN w :
              p1[1] = f.em /\ (f.att = "queue" => waiting[p1] = <<>>)
        /\ Calling(v, u)
        /\ \A j \in DOMAIN u : /\ v[j].todo = u[j].todo
                               /\ u[j].em # f.em => v[j].att = u[j].att
        /\ \/ waiting' = w /\ stack' = v /\ ready' = ready \o f.woken
           \/ \E next \in Frames :
                 LET q == SlotOf(next)
                 IN  /\ next.em = f.em /\ next.ev = f.ev /\ next.key = f.ev
                     /\ next.woken = f.woken /\ next.att = "queue" /\ next.who = None
                     /\ q \in DOMAIN w /\ next.todo = w[q]
                     /\ waiting' = [w EXCEPT ![q] = <<>>] /\ ready' = ready
                     /\ stack' = <<next>> \o Displace(v, q, w[q])

(* The end of a queue is one of these.                                     *)
LEMMA EndQueueIs ==
    ASSUME Table(waiting, Entries), stack \in Seq(Frames), EndQueue
    PROVE  /\ stack # <<>> /\ Head(stack).who = None /\ Head(stack).todo = <<>>
           /\ \E w, v : Ended(w, v)
<1> DEFINE f     == Head(stack)
           u     == Tail(stack)
           p     == <<f.em, f.key>>
           empty == IF f.att = "queue" THEN waiting[p] = <<>> ELSE ~f.full
           gone  == IF f.att # "none" THEN {p} ELSE {}
           w1    == IF empty THEN Without(waiting, gone) ELSE waiting
           drop  == empty /\ (f.att = "none" \/ RowOf(w1, f.em) = {})
           w     == IF drop THEN Without(w1, RowOf(w1, f.em)) ELSE w1
           cut   == [i \in DOMAIN stack |->
                       IF stack[i].em = f.em
                       THEN [stack[i] EXCEPT !.att = "none"] ELSE stack[i]]
           s     == IF drop THEN cut ELSE stack
           q     == <<f.em, f.ev>>
           more  == f.key = Star /\ q \in DOMAIN w /\ Head(s).att # "none"
           base  == NewFrame(f.em, f.ev, f.slain, f.ev, w[q], "queue", None)
           next  == [base EXCEPT !.woken = f.woken]
<1>1. /\ Parsing /\ f.todo = <<>>
      /\ IF more
         THEN /\ waiting' = [w EXCEPT ![q] = <<>>]
              /\ stack' = <<next>> \o Displace(Tail(s), q, w[q])
              /\ UNCHANGED ready
         ELSE /\ waiting' = w
              /\ stack' = Tail(s)
              /\ ready' = ready \o f.woken
  BY DEF EndQueue
<1>2. stack # <<>> /\ f.who = None  BY <1>1 DEF Parsing
<1>3. f \in Frames /\ u \in Seq(Frames) /\ OnTop(stack, f, u)  BY <1>2, TopOk
<1>4. cut \in Seq(Frames)
  <2>1. Calls(stack, Entries)
    <3>1. {g \in Frames : g.todo \in Seq(Entries)} = Frames  BY DEF Frames
    <3> QED  BY <3>1 DEF Calls
  <2>2. Calls(cut, Entries)  BY <2>1, DropType
  <2> QED  BY <2>2, CallsSeq
<1>5. /\ DOMAIN cut = DOMAIN stack
      /\ \A j \in DOMAIN stack : stack[j] \in Frames
      /\ \A j \in DOMAIN stack : cut[j] = IF stack[j].em = f.em
                                   THEN [stack[j] EXCEPT !.att = "none"] ELSE stack[j]
  OBVIOUS
<1> HIDE DEF cut
<1>6. \A j \in DOMAIN stack :
         /\ Alike(cut[j], stack[j]) /\ cut[j].who = stack[j].who /\ cut[j].todo = stack[j].todo
         /\ SlotOf(cut[j]) = SlotOf(stack[j])
         /\ stack[j].em # f.em => cut[j].att = stack[j].att
  <2> HIDE DEF f
  <2> TAKE j \in DOMAIN stack
  <2>1. CASE stack[j].em = f.em
    <3>1. cut[j] = [stack[j] EXCEPT !.att = "none"]  BY <1>5, <2>1
    <3> QED  BY <1>5, <2>1, <3>1 DEF Frames, Alike, SlotOf
  <2>2. CASE stack[j].em # f.em
    <3>1. cut[j] = stack[j]  BY <1>5, <2>2
    <3> QED  BY <3>1 DEF Alike
  <2> QED  BY <2>1, <2>2
<1> HIDE DEF f, u
<1>7. /\ Calling(s, stack)
      /\ \A j \in DOMAIN stack : /\ s[j].todo = stack[j].todo
                                 /\ stack[j].em # f.em => s[j].att = stack[j].att
  <2>1. CASE drop
    <3>1. s = cut  BY <2>1
    <3> HIDE DEF s, drop
    <3> QED  BY <1>4, <1>5, <1>6, <3>1 DEF Calling
  <2>2. CASE ~drop
    <3>1. s = stack  BY <2>2
    <3> HIDE DEF s, drop
    <3> QED  BY <3>1 DEF Calling, Alike
  <2> QED  BY <2>1, <2>2
<1>8. /\ DOMAIN w \subseteq DOMAIN waiting /\ \A p1 \in DOMAIN w : w[p1] = waiting[p1]
      /\ \A p1 \in DOMAIN waiting : p1 \in DOMAIN w \/ p1[1] = f.em
      /\ Table(w, Entries)
  <2>1. \A p1 \in gone : p1[1] = f.em  OBVIOUS
  <2>2. \A p1 \in RowOf(w1, f.em) : p1[1] = f.em  BY DEF RowOf
  <2> HIDE DEF empty, gone
  <2>3. /\ DOMAIN w1 \subseteq DOMAIN waiting /\ \A p1 \in DOMAIN w1 : w1[p1] = waiting[p1]
        /\ \A p1 \in DOMAIN waiting : p1 \in DOMAIN w1 \/ p1[1] = f.em
    BY <2>1 DEF Without
  <2>4. Table(w1, Entries)  BY WithoutType
  <2> HIDE DEF w1, drop
  <2>5. Table(w, Entries)  BY <2>4, WithoutType
  <2>6. /\ DOMAIN w \subseteq DOMAIN w1 /\ \A p1 \in DOMAIN w : w[p1] = w1[p1]
        /\ \A p1 \in DOMAIN w1 : p1 \in DOMAIN w \/ p1[1] = f.em
    BY <2>2 DEF Without
  <2> HIDE DEF w
  <2> QED  BY <2>3, <2>5, <2>6
<1>9. ASSUME f.att = "queue", NEW p1 \in DOMAIN waiting, p1 \notin DOMAIN w
      PROVE  waiting[p1] = <<>>
  <2>1. gone = {p}  BY <1>9
  <2>2. DOMAIN w1 = IF empty THEN DOMAIN waiting \ {p} ELSE DOMAIN waiting
    BY <2>1 DEF Without
  <2>3. drop => RowOf(w1, f.em) = {}  BY <1>9
  <2>4. DOMAIN w = DOMAIN w1  BY <2>3 DEF Without
  <2>5. empty /\ p1 = p  BY <1>9, <2>2, <2>4
  <2> QED  BY <1>9, <2>5
<1> HIDE DEF w, s, p
<1> DEFINE v == Tail(s)
<1>10. /\ s # <<>> /\ Alike(Head(s), f) /\ Calling(v, u)
       /\ DOMAIN u = 1 .. Len(u) /\ Len(u) \in Nat
       /\ \A j \in DOMAIN u : j + 1 \in DOMAIN stack /\ v[j] = s[j + 1] /\ u[j] = stack[j + 1]
  BY <1>2, <1>7, CallingTail DEF f, u
<1> HIDE DEF v
<1>11. /\ \A j \in DOMAIN u : /\ v[j].todo = u[j].todo
                              /\ u[j].em # f.em => v[j].att = u[j].att
       /\ DOMAIN v = DOMAIN u /\ v \in Seq(Frames)
  BY <1>7, <1>10 DEF Calling
<1>12. CASE ~more
  <2>1. waiting' = w /\ stack' = v /\ ready' = ready \o f.woken  BY <1>1, <1>12 DEF v
  <2>2. Ended(w, v)
    <3> HIDE DEF v
    <3> QED  BY <1>8, <1>9, <1>10, <1>11, <2>1 DEF Ended, f, u
  <2> HIDE DEF more, v, w
  <2> QED  BY <1>1, <1>2, <2>2 DEF f
<1>13. CASE more
  <2>1. /\ waiting' = [w EXCEPT ![q] = <<>>] /\ ready' = ready
        /\ stack' = <<next>> \o Displace(v, q, w[q]) /\ q \in DOMAIN w
    BY <1>1, <1>13 DEF v
  <2>2. Table(w, Entries)  BY <1>8
  <2>3. w[q] \in Seq(Entries) /\ q \in Slots  BY <2>1, <2>2 DEF Table
  <2>4. f.em \in Emitters /\ f.ev \in Keys /\ f.slain \in BOOLEAN /\ f.woken \in Seq(Tasks)
    BY <1>3 DEF Frames
  <2>5. base \in Frames
    <3>1. LET g == NewFrame(f.em, f.ev, f.slain, f.ev, w[q], "queue", None)
          IN  g \in Frames /\ g.todo \in Seq(Entries)
      BY <2>3, <2>4, NewFrameType
    <3> QED  BY <3>1
  <2>6. next \in Frames /\ next.em = f.em /\ next.ev = f.ev /\ next.key = f.ev /\ next.woken = f.woken
        /\ next.todo = w[q] /\ next.att = "queue" /\ next.who = None /\ SlotOf(next) = q
    <3>1. base.em = f.em /\ base.ev = f.ev /\ base.key = f.ev
          /\ base.todo = w[q] /\ base.att = "queue" /\ base.who = None
      BY DEF NewFrame
    <3> HIDE DEF base
    <3> QED  BY <2>4, <2>5, <3>1 DEF Frames, SlotOf
  <2> HIDE DEF next, q, v, w, more
  <2>7. Ended(w, v)
    <3>1. \E nx \in Frames :
            LET q1 == SlotOf(nx)
            IN  /\ nx.em = f.em /\ nx.ev = f.ev /\ nx.key = f.ev
                /\ nx.woken = f.woken /\ nx.att = "queue" /\ nx.who = None
                /\ q1 \in DOMAIN w /\ nx.todo = w[q1]
                /\ waiting' = [w EXCEPT ![q1] = <<>>] /\ ready' = ready
                /\ stack' = <<nx>> \o Displace(v, q1, w[q1])
      <4> next \in Frames  BY <2>6
      <4> WITNESS next \in Frames
      <4> QED  BY <2>1, <2>6
    <3> QED  BY <1>8, <1>9, <1>10, <1>11, <3>1 DEF Ended, f, u
  <2> QED  BY <1>1, <1>2, <2>7 DEF f
<1> QED  BY <1>12, <1>13

(* The end of a queue moves nobody, but the tasks that its call has woken  *)
(* when it was the last: these become ready. That no cell is lost needs    *)
(* that each call fills its own queue.                                     *)
LEMMA EndQueueOk ==
    ASSUME Table(waiting, Entries), stack \in Seq(Frames), EndQueue
    PROVE  /\ stack # <<>> /\ Head(stack) \in Frames /\ Tail(stack) \in Seq(Frames)
           /\ OnTop(stack, Head(stack), Tail(stack))
           /\ \/ /\ ready' = ready
                 /\ \A t : Woken(stack', t) <=> Woken(stack, t)
              \/ /\ ready' = ready \o Head(stack).woken
                 /\ \A t : Woken(stack', t) <=> Woken(Tail(stack), t)
           /\ \A x, p : Cell(waiting', stack', x, p) => Cell(waiting, stack, x, p)
           /\ Spread(stack) => Spread(stack')
           /\ Calm(stack) => Calm(stack')
           /\ Len(stack') <= Len(stack)
           /\ Owned(waiting, stack) =>
                 /\ Owned(waiting', stack')
                 /\ \A x, p : Cell(waiting, stack, x, p) => Cell(waiting', stack', x, p)
                 /\ \A h \in Hooks : \A p : Called(stack, h, p) => Called(stack', h, p)
<1> DEFINE f == Head(stack)
           u == Tail(stack)
<1>1. stack # <<>> /\ f.who = None /\ f.todo = <<>>  BY EndQueueIs
<1>2. PICK w, v : Ended(w, v)  BY EndQueueIs
<1>3. f \in Frames /\ u \in Seq(Frames) /\ OnTop(stack, f, u)  BY <1>1, TopOk
<1>4. u \in Seq(Frames) /\ f \in Frames /\ stack = <<f>> \o u  BY <1>1, TopOk
<1> HIDE DEF f, u
<1>5. /\ Calling(v, u)
      /\ \A j \in DOMAIN u : /\ v[j].todo = u[j].todo
                             /\ u[j].em # f.em => v[j].att = u[j].att
      /\ DOMAIN v = DOMAIN u /\ v \in Seq(Frames)
  BY <1>2 DEF Ended, Calling, f, u
<1>6. /\ DOMAIN w \subseteq DOMAIN waiting /\ \A p1 \in DOMAIN w : w[p1] = waiting[p1]
      /\ \A p1 \in DOMAIN waiting \ DOMAIN w :
            p1[1] = f.em /\ (f.att = "queue" => waiting[p1] = <<>>)
      /\ Table(w, Entries)
  BY <1>2 DEF Ended, f
<1>7. /\ \A t : Woken(v, t) <=> Woken(u, t)
      /\ \A h, p : Called(v, h, p) <=> Called(u, h, p)
      /\ \A em : Emitting(v, em) <=> Emitting(u, em)
      /\ Spread(u) => Spread(v)
      /\ Calm(u) => Calm(v)
  BY <1>5, CallingOk
<1>8. \A x, p : Left(v, x, p) <=> Left(stack, x, p)
  <2>1. \A j \in DOMAIN u : SlotOf(v[j]) = SlotOf(u[j])  BY <1>5 DEF Calling, Alike, SlotOf
  <2>2. \A x, p : Left(v, x, p) <=> Left(u, x, p)  BY <1>5, <2>1 DEF Left
  <2>3. \A x : ~InList(f.todo, x)  BY <1>1, NilIn DEF f
  <2> QED  BY <1>3, <2>2, <2>3 DEF OnTop
<1>9. \A x, p : Cell(w, v, x, p) => Cell(waiting, stack, x, p)
  BY <1>6, <1>8 DEF Cell, Queued
<1>10. ASSUME Owned(waiting, stack)
       PROVE  /\ Owned(w, v) /\ ~Emitting(v, f.em) /\ f.ev # Timeout
              /\ \A x, p : Cell(waiting, stack, x, p) => Cell(w, v, x, p)
  <2>1. /\ Owned(waiting, u) /\ Filling(waiting, f)
        /\ f.key # Timeout => ~Emitting(u, f.em)
    BY <1>3, <1>10 DEF OnTop
  <2>2. f.key # Timeout  BY <1>1, <2>1, IdAssumption DEF Filling, f
  <2>3. f.att = "queue" /\ f.ev # Timeout /\ ~Emitting(u, f.em)
    BY <2>1, <2>2 DEF Filling
  <2>4. \A j \in DOMAIN u : IF u[j].key = Timeout THEN u[j].todo = <<>> => v[j].todo = <<>>
                            ELSE v[j].att = u[j].att /\ (SlotOf(u[j]) \in DOMAIN waiting =>
                                                         SlotOf(u[j]) \in DOMAIN w)
    <3> TAKE j \in DOMAIN u
    <3>1. u[j].key # Timeout => u[j].em # f.em  BY <2>3 DEF Emitting
    <3>2. SlotOf(u[j])[1] = u[j].em  BY DEF SlotOf
    <3> QED  BY <1>5, <1>6, <3>1, <3>2
  <2>5. Owned(w, v)  BY <1>5, <2>1, <2>4, CallingOwned
  <2>6. ASSUME NEW x, NEW p, Queued(waiting, x, p) PROVE Queued(w, x, p)
    <3>1. p \in DOMAIN w  BY <1>6, <2>3, <2>6, NilIn DEF Queued
    <3> QED  BY <1>6, <2>6, <3>1 DEF Queued
  <2> QED  BY <1>7, <1>8, <2>3, <2>5, <2>6 DEF Cell
<1>11. \A h \in Hooks : \A p : Called(stack, h, p) <=> Called(v, h, p)
  BY <1>1, <1>3, <1>7, IdAssumption DEF OnTop, f
<1>12. Len(stack) = Len(v) + 1 /\ Len(v) \in Nat
  <2>1. Len(stack) = Len(u) + 1 /\ Len(u) \in Nat  BY <1>4, Consed
  <2> QED  BY <1>4, <1>5, <2>1, CallingLen
<1>13. CASE waiting' = w /\ stack' = v /\ ready' = ready \o f.woken
  <2>1. /\ Spread(stack) => Spread(stack')
        /\ Calm(stack) => Calm(stack')
    BY <1>3, <1>7, <1>13 DEF OnTop
  <2>2. Len(stack') <= Len(stack)  BY <1>12, <1>13
  <2> QED  BY <1>1, <1>3, <1>7, <1>9, <1>10, <1>11, <1>13, <2>1, <2>2 DEF f, u
<1>14. ASSUME NEW next \in Frames,
              next.em = f.em, next.ev = f.ev, next.key = f.ev, next.woken = f.woken,
              next.att = "queue", next.who = None,
              LET q == SlotOf(next)
              IN  /\ q \in DOMAIN w /\ next.todo = w[q]
                  /\ waiting' = [w EXCEPT ![q] = <<>>] /\ ready' = ready
                  /\ stack' = <<next>> \o Displace(v, q, w[q])
       PROVE      /\ \A t : Woken(stack', t) <=> Woken(stack, t)
                  /\ \A x, p : Cell(waiting', stack', x, p) <=> Cell(w, v, x, p)
                  /\ \A h \in Hooks : \A p : Called(stack', h, p) <=> Called(v, h, p)
                  /\ Spread(stack) => Spread(stack')
                  /\ Calm(stack) => Calm(stack')
                  /\ Len(stack') <= Len(stack) /\ ready' = ready
                  /\ Owned(w, v) /\ ~Emitting(v, f.em) /\ f.ev # Timeout
                        => Owned(waiting', stack')
  <2> DEFINE q == SlotOf(next)
             d == Displace(v, q, w[q])
  <2>1. f.ev # "resume"
    BY <1>3, EventAssumption DEF Frames, Keys, Star, Timeout, Die
  <2>2. LET s1 == <<next>> \o d
            w1 == [w EXCEPT ![q] = <<>>]
        IN  /\ \A t : Woken(s1, t) <=> InList(next.woken, t) \/ Woken(v, t)
            /\ \A x, p : Cell(w1, s1, x, p) <=> Cell(w, v, x, p)
            /\ \A h \in Hooks : \A p : Called(s1, h, p) <=> Called(v, h, p)
            /\ Spread(v) /\ Distinct(next.woken)
                  /\ (\A t : ~(InList(next.woken, t) /\ Woken(v, t)))
                  => Spread(s1)
            /\ Calm(v) => Calm(s1)
            /\ Owned(w, v) /\ ~Emitting(v, next.em) /\ next.ev # Timeout
                  /\ next.key # Timeout => Owned(w1, s1)
    BY <1>5, <1>6, <1>14, <2>1, CallOk
  <2>3. stack' = <<next>> \o d /\ waiting' = [w EXCEPT ![q] = <<>>] /\ ready' = ready
    BY <1>14
  <2>4. d \in Seq(Frames) /\ Len(d) = Len(v)
    <3>1. Calling(d, v)  BY <1>5, DisplaceOk
    <3> QED  BY <1>5, <3>1, CallingLen DEF Calling
  <2> HIDE DEF d, q
  <2>5. Len(stack') <= Len(stack)
    <3>1. Len(stack') = Len(d) + 1  BY <1>14, <2>3, <2>4, Consed
    <3> QED  BY <1>12, <2>4, <3>1
  <2>6. /\ \A t : Woken(stack', t) <=> Woken(stack, t)
        /\ Spread(stack) => Spread(stack')
        /\ Calm(stack) => Calm(stack')
    BY <1>3, <1>7, <1>14, <2>2, <2>3 DEF OnTop
  <2> QED  BY <1>14, <2>2, <2>3, <2>5, <2>6
<1>15. CASE waiting' # w \/ stack' # v \/ ready' # ready \o f.woken
  <2>1. /\ \A t : Woken(stack', t) <=> Woken(stack, t)
        /\ \A x, p : Cell(waiting', stack', x, p) <=> Cell(w, v, x, p)
        /\ \A h \in Hooks : \A p : Called(stack', h, p) <=> Called(v, h, p)
        /\ Spread(stack) => Spread(stack')
        /\ Calm(stack) => Calm(stack')
        /\ Len(stack') <= Len(stack) /\ ready' = ready
        /\ Owned(w, v) /\ ~Emitting(v, f.em) /\ f.ev # Timeout => Owned(waiting', stack')
    BY <1>2, <1>14, <1>15 DEF Ended, f, u
  <2> QED  BY <1>1, <1>3, <1>9, <1>10, <1>11, <2>1 DEF f, u
<1> QED  BY <1>13, <1>15

-----------------------------------------------------------------------------
(* The parts of the invariant that a step leaves alone *)

\* The parts of the invariant after the step.
Stays == Alone' /\ (Orderly /\ Tidy => Tidy')

\* The hook x is still in each of its slots, or it is in new ones, or in none.
Keeps(x) ==
    \/ regs'[x] = {}
    \/ hook'[x] \notin {"free", "emptied"} /\ \A p \in regs'[x] : At(waiting', stack', x, p)
    \/ /\ regs'[x] = regs[x] /\ hook'[x] = hook[x]
       /\ \A p : At(waiting, stack, x, p) => At(waiting', stack', x, p)

(* The types that the lemmas above ask for. *)
LEMMA SoundTypes ==
    ASSUME Sound
    PROVE  /\ Table(waiting, Entries) /\ stack \in Seq(Frames) /\ ready \in Seq(Tasks)
           /\ co \in [Tasks -> Statuses] /\ hook \in [Hooks -> HookKinds]
           /\ regs \in [Hooks -> SUBSET Slots] /\ target \in [Hooks -> Hooks \cup {None}]
           /\ running \in Tasks \cup {None} /\ current \in Tasks \cup {None}
           /\ timers \in SUBSET Owners
BY SoundImplies DEF TypeOK, Table, Sound

(* A task or a hook will have a cell when a timer or a slot will have it. *)
LEMMA HasCellNext ==
    \A x : HasCell(x)' <=> x \in timers' \/ \E p : Cell(waiting', stack', x, p)
BY DEF HasCell, Cell, Queued, Left, InList

(* Names which are not those of tasks or hooks. *)
LEMMA Names ==
    /\ None \notin Tasks /\ None \notin Hooks /\ Emptied \notin Tasks /\ Emptied \notin Hooks
    /\ \A t \in Tasks : t \in Owners /\ t \in Entries /\ t \in Emitters /\ t \notin Hooks
                        /\ t # None /\ t # Emptied
    /\ \A h \in Hooks : h \in Owners /\ h \in Entries /\ h \notin Tasks
                        /\ h # None /\ h # Emptied
    /\ Emptied \in Entries /\ Die \in Keys /\ Die # Timeout
BY IdAssumption DEF Owners, Entries, Emitters, Keys, Die, Timeout

(* The empty stack. *)
LEMMA NilOk ==
    /\ Spread(<<>>) /\ Calm(<<>>) /\ <<>> \in Seq(Frames)
    /\ \A t : ~Woken(<<>>, t)
    /\ \A x, p : ~Left(<<>>, x, p) /\ ~Called(<<>>, x, p)
    /\ \A em : ~Emitting(<<>>, em)
    /\ \A w : Owned(w, <<>>)
<1>1. DOMAIN <<>> = {} /\ <<>> \in Seq(Frames)  BY EmptySeq
<1> QED  BY <1>1 DEF Spread, Calm, Woken, Left, Called, Emitting, Owned

(* A task that executes was resumed by the loop, and nothing else is       *)
(* in progress.                                                            *)
LEMMA ActorAlone ==
    ASSUME Sound, Alone, Actor \in Tasks
    PROVE  stack = <<>> /\ current = Actor /\ running = Actor /\ co[Actor] = "active"
<1>1. stack = <<>>
  <2> SUFFICES ASSUME stack # <<>> PROVE FALSE  OBVIOUS
  <2>1. OnTop(stack, Head(stack), Tail(stack))  BY SoundTypes, TopOk
  <2>2. Head(stack).who \notin Tasks  BY <2>1 DEF OnTop, Alone
  <2> QED  BY <2>2 DEF Actor
<1>2. Actor = current  BY <1>1 DEF Actor
<1> QED  BY <1>1, <1>2, Names DEF Alone

(* The hooks are found if each is kept. *)
LEMMA HeardKept ==
    ASSUME Heard, \A x \in Hooks : Keeps(x)
    PROVE  Heard'
<1> SUFFICES ASSUME NEW x \in Hooks
             PROVE  /\ \A p \in regs'[x] : At(waiting', stack', x, p)
                    /\ hook'[x] \in {"free", "emptied"} => regs'[x] = {}
  BY DEF Heard
<1>1. CASE regs'[x] = {}  BY <1>1
<1>2. CASE hook'[x] \notin {"free", "emptied"} /\ \A p \in regs'[x] : At(waiting', stack', x, p)
  BY <1>2
<1>3. CASE /\ regs'[x] = regs[x] /\ hook'[x] = hook[x]
           /\ \A p : At(waiting, stack, x, p) => At(waiting', stack', x, p)
  BY <1>3 DEF Heard
<1> QED  BY <1>1, <1>2, <1>3 DEF Keeps

(* A step that moves no task and leaves the calls and the hooks in place. *)
LEMMA QuietStays ==
    ASSUME Alone, UNCHANGED <<co, ready, current>>, running' = running \/ current = None,
           Spread(stack'), Calm(stack'),
           \A t \in Tasks : /\ t \in timers' <=> t \in timers
                            /\ Woken(stack', t) => Woken(stack, t)
                            /\ \A p : Cell(waiting', stack', t, p) => Cell(waiting, stack, t, p),
           Orderly /\ Tidy => Owned(waiting', stack') /\ \A x \in Hooks : Keeps(x)
    PROVE  Stays
<1>1. \A t \in Tasks : HasCell(t)' => HasCell(t)  BY HasCellOk, HasCellNext
<1>2. Alone'  BY <1>1 DEF Alone
<1>3. ASSUME Orderly, Tidy PROVE Tidy'
  <2>1. Heard'  BY <1>3, HeardKept DEF Tidy
  <2>2. Owned(waiting', stack')  BY <1>3
  <2> QED  BY <2>1, <2>2 DEF Tidy
<1> QED  BY <1>2, <1>3 DEF Stays

(* A signal moves nobody. *)
LEMMA EmitStays ==
    ASSUME Sound, Alone, UNCHANGED <<co, ready, current, timers, hook, regs>>,
           running' = running \/ current = None,
           NEW em \in Emitters, NEW ev \in Keys, NEW slain \in BOOLEAN,
           Emit(em, ev, slain, waiting, stack), ev # Timeout,
           Orderly => ~Emitting(stack, em)
    PROVE  Stays
<1>1. /\ Same(waiting', stack', waiting, stack)
      /\ Owned(waiting, stack) /\ ~Emitting(stack, em) /\ ev # Timeout => Owned(waiting', stack')
  BY SoundTypes, EmitOk
<1>2. \A x \in Hooks : Keeps(x)
  BY <1>1, Names DEF Same, Keeps, At
<1>3. Spread(stack') /\ Calm(stack')  BY <1>1 DEF Same, Alone
<1>4. Orderly /\ Tidy => Owned(waiting', stack')  BY <1>1 DEF Tidy
<1> QED  BY <1>1, <1>2, <1>3, <1>4, Names, QuietStays DEF Same

(* Starting a thread makes a task ready that was nowhere. *)
LEMMA SpawnStays ==
    ASSUME Sound, Alone, NEW t0 \in Tasks, co[t0] = "none",
           co' = [co EXCEPT ![t0] = "created"], ready' = Append(ready, t0),
           UNCHANGED <<running, current>>,
           Spread(stack'), Calm(stack'),
           \A t \in Tasks : /\ t \in timers' <=> t \in timers
                            /\ Woken(stack', t) => Woken(stack, t)
                            /\ \A p : Cell(waiting', stack', t, p) => Cell(waiting, stack, t, p),
           Orderly /\ Tidy => Owned(waiting', stack') /\ \A x \in Hooks : Keeps(x)
    PROVE  Stays
<1>1. \A t \in Tasks : HasCell(t)' => HasCell(t)  BY HasCellOk, HasCellNext
<1>2. ~InList(ready, t0) /\ ~Woken(stack, t0) /\ ~HasCell(t0)  BY DEF Alone
<1>3. Distinct(ready') /\ \A x : InList(ready', x) <=> InList(ready, x) \/ x = t0
  BY <1>2, SoundTypes, AppendIn DEF Alone
<1>4. \A t \in Tasks : co'[t] = IF t = t0 THEN "created" ELSE co[t]  BY SoundTypes
<1>5. current # None => co'[current] = "active" /\ running' = current
  BY <1>4, SoundTypes DEF Alone
<1>6. ASSUME NEW t \in Tasks
      PROVE  /\ co'[t] = "active" => t = current'
             /\ InList(ready', t) => /\ co'[t] \in {"created", "suspended"}
                                     /\ ~Woken(stack', t) /\ ~HasCell(t)'
             /\ Woken(stack', t) => co'[t] = "suspended" /\ ~HasCell(t)'
             /\ HasCell(t)' => co'[t] = "suspended"
  <2>1. CASE t = t0  BY <1>1, <1>2, <1>4, <2>1
  <2>2. CASE t # t0  BY <1>1, <1>3, <1>4, <2>2 DEF Alone
  <2> QED  BY <2>1, <2>2
<1>7. Alone'  BY <1>3, <1>5, <1>6 DEF Alone
<1>8. ASSUME Orderly, Tidy PROVE Tidy'
  <2>1. Heard'  BY <1>8, HeardKept DEF Tidy
  <2>2. Owned(waiting', stack')  BY <1>8
  <2> QED  BY <2>1, <2>2 DEF Tidy
<1> QED  BY <1>7, <1>8 DEF Stays

(* A task dies that is nowhere any more. *)
LEMMA DeadStays ==
    ASSUME Sound, Alone, NEW t0 \in Tasks, co' = [co EXCEPT ![t0] = "dead"],
           ~InList(ready, t0), ~Woken(stack, t0), ~HasCell(t0)',
           UNCHANGED <<ready, running>>,
           IF t0 = current THEN current' = None ELSE current' = current,
           Spread(stack'), Calm(stack'),
           \A t \in Tasks \ {t0} :
              /\ t \in timers' <=> t \in timers
              /\ \A p : Cell(waiting', stack', t, p) <=> Cell(waiting, stack, t, p),
           \A t : Woken(stack', t) <=> Woken(stack, t),
           Orderly /\ Tidy => Owned(waiting', stack') /\ \A x \in Hooks : Keeps(x)
    PROVE  Stays
<1>1. \A t \in Tasks \ {t0} : HasCell(t)' <=> HasCell(t)  BY HasCellOk, HasCellNext
<1>2. \A t \in Tasks : co'[t] = IF t = t0 THEN "dead" ELSE co[t]  BY SoundTypes
<1>3. current' # None => co'[current'] = "active" /\ running' = current'
  BY <1>2, SoundTypes DEF Alone
<1>4. ASSUME NEW t \in Tasks
      PROVE  /\ co'[t] = "active" => t = current'
             /\ InList(ready', t) => /\ co'[t] \in {"created", "suspended"}
                                     /\ ~Woken(stack', t) /\ ~HasCell(t)'
             /\ Woken(stack', t) => co'[t] = "suspended" /\ ~HasCell(t)'
             /\ HasCell(t)' => co'[t] = "suspended"
  <2>1. CASE t = t0  BY <1>2, <2>1
  <2>2. CASE t # t0  BY <1>1, <1>2, <2>2 DEF Alone
  <2> QED  BY <2>1, <2>2
<1>5. Alone'  BY <1>3, <1>4 DEF Alone
<1>6. ASSUME Orderly, Tidy PROVE Tidy'
  <2>1. Heard'  BY <1>6, HeardKept DEF Tidy
  <2>2. Owned(waiting', stack')  BY <1>6
  <2> QED  BY <2>1, <2>2 DEF Tidy
<1> QED  BY <1>5, <1>6 DEF Stays

(* The running task returns, fails or kills itself. *)
LEMMA EndStays ==
    ASSUME Sound, Alone, Actor \in Tasks, NEW slain \in BOOLEAN, End(slain)
    PROVE  Stays
<1>0. PICK t0 \in Tasks : t0 = Actor  OBVIOUS
<1>1. stack = <<>> /\ current = t0 /\ running = t0 /\ co[t0] = "active"  BY <1>0, ActorAlone
<1>2. /\ co' = [co EXCEPT ![t0] = "dead"] /\ current' = None
      /\ Emit(t0, Die, slain, waiting, stack)
      /\ UNCHANGED <<ready, running, timers, hook, regs>>
  BY <1>0, <1>1 DEF End, cells
<1>3. t0 \in Tasks  OBVIOUS
<1>4. /\ Same(waiting', stack', waiting, stack)
      /\ Owned(waiting, stack) => Owned(waiting', stack')
  <2>1. t0 \in Emitters /\ Die \in Keys /\ Die # Timeout  BY Names
  <2>2. Table(waiting, Entries) /\ stack \in Seq(Frames)  BY SoundTypes
  <2>3. ~Emitting(stack, t0)  BY <1>1, NilOk
  <2>4. Emit(t0, Die, slain, waiting, stack)  BY <1>2
  <2> QED  BY <2>1, <2>2, <2>3, <2>4, EmitOk
<1>5. ~InList(ready, t0) /\ ~Woken(stack, t0) /\ ~HasCell(t0)  BY <1>1, <1>3 DEF Alone
<1>6. ~HasCell(t0)'  BY <1>2, <1>3, <1>4, <1>5, HasCellOk, HasCellNext, Names DEF Same
<1>7. \A x \in Hooks : Keeps(x)  BY <1>2, <1>4, Names DEF Same, Keeps, At
<1>8. Spread(stack') /\ Calm(stack')  BY <1>4 DEF Same, Alone
<1>9. Orderly /\ Tidy => Owned(waiting', stack')  BY <1>4 DEF Tidy
<1>10. \A t \in Tasks \ {t0} :
              /\ t \in timers' <=> t \in timers
              /\ \A p : Cell(waiting', stack', t, p) <=> Cell(waiting, stack, t, p)
  BY <1>2, <1>4, Names DEF Same
<1>11. \A t : Woken(stack', t) <=> Woken(stack, t)  BY <1>4 DEF Same
<1>12. IF t0 = current THEN current' = None ELSE current' = current  BY <1>1, <1>2
<1> QED
  BY <1>2, <1>3, <1>5, <1>6, <1>7, <1>8, <1>9, <1>10, <1>11, <1>12, DeadStays

(* The running task yields, with its place in the ready list or a cell. *)
LEMMA SuspendStays ==
    ASSUME Sound, Alone, NEW t0 \in Tasks, current = t0, stack = <<>>,
           co' = [co EXCEPT ![t0] = "suspended"], current' = None, running' = None,
           stack' = stack, UNCHANGED <<hook, regs>>,
           \/ /\ ready' = Append(ready, t0) /\ UNCHANGED <<waiting, timers>>
           \/ /\ ready' = ready /\ timers' \in {timers, timers \cup {t0}}
              /\ \E S \in SUBSET Slots :
                    /\ waiting' = Register(waiting, t0, S)
                    /\ S # {} \/ timers' # timers
    PROVE  Stays
<1>1. co[t0] = "active" /\ ~InList(ready, t0) /\ ~Woken(stack, t0) /\ ~HasCell(t0)
  BY Names DEF Alone
<1>2. \A t \in Tasks : co'[t] = IF t = t0 THEN "suspended" ELSE co[t]  BY SoundTypes
<1>3. \A t : ~Woken(stack', t)  BY NilOk
<1>4. /\ \A x \in Owners \ {t0} : \A p : Cell(waiting', stack', x, p) <=> Cell(waiting, stack, x, p)
      /\ \A x \in Owners \ {t0} : x \in timers' <=> x \in timers
      /\ Owned(waiting', stack')
  <2>1. CASE ready' = Append(ready, t0) /\ UNCHANGED <<waiting, timers>>  BY <2>1, NilOk
  <2>2. CASE /\ ready' = ready /\ timers' \in {timers, timers \cup {t0}}
             /\ \E S \in SUBSET Slots : waiting' = Register(waiting, t0, S)
    <3>1. PICK S \in SUBSET Slots : waiting' = Register(waiting, t0, S)
      BY <2>2
    <3>2. \A x, p : Cell(waiting', stack', x, p) <=> Cell(waiting, stack, x, p) \/ (x = t0 /\ p \in S)
      <4>1. Table(waiting, Entries) /\ t0 \in Entries  BY SoundTypes, Names
      <4>2. \A x, p : Cell(Register(waiting, t0, S), stack, x, p) <=>
                         Cell(waiting, stack, x, p) \/ (x = t0 /\ p \in S)
        BY <4>1, RegisterOk
      <4> QED  BY <3>1, <4>2
    <3> QED  BY <2>2, <3>2, NilOk
  <2> QED  BY <2>1, <2>2
<1>5. \A t \in Tasks \ {t0} : HasCell(t)' <=> HasCell(t)
  BY <1>4, HasCellOk, HasCellNext, Names
<1>6. /\ Distinct(ready') /\ \A t \in Tasks \ {t0} : InList(ready', t) <=> InList(ready, t)
      /\ IF HasCell(t0)' THEN ~InList(ready', t0) ELSE InList(ready', t0)
  <2>1. CASE ready' = Append(ready, t0) /\ UNCHANGED <<waiting, timers>>
    <3>1. HasCell(t0)' <=> HasCell(t0)  BY <2>1, HasCellOk, HasCellNext
    <3> QED  BY <1>1, <2>1, <3>1, SoundTypes, AppendIn DEF Alone
  <2>2. CASE /\ ready' = ready /\ timers' \in {timers, timers \cup {t0}}
             /\ \E S \in SUBSET Slots : /\ waiting' = Register(waiting, t0, S)
                                        /\ S # {} \/ timers' # timers
    <3>1. PICK S \in SUBSET Slots : waiting' = Register(waiting, t0, S) /\ (S # {} \/ timers' # timers)
      BY <2>2
    <3>2. \A x, p : Cell(waiting', stack', x, p) <=> Cell(waiting, stack, x, p) \/ (x = t0 /\ p \in S)
      <4>1. Table(waiting, Entries) /\ t0 \in Entries  BY SoundTypes, Names
      <4>2. \A x, p : Cell(Register(waiting, t0, S), stack, x, p) <=>
                         Cell(waiting, stack, x, p) \/ (x = t0 /\ p \in S)
        BY <4>1, RegisterOk
      <4> QED  BY <3>1, <4>2
    <3>3. HasCell(t0)'
      <4>1. CASE S # {}  BY <3>2, <4>1, HasCellNext
      <4>2. CASE timers' # timers  BY <2>2, <4>2, HasCellNext
      <4> QED  BY <3>1, <4>1, <4>2
    <3> QED  BY <1>1, <2>2, <3>3 DEF Alone
  <2> QED  BY <2>1, <2>2
<1>7. Spread(stack') /\ Calm(stack')  BY NilOk
<1>8. ASSUME NEW t \in Tasks
      PROVE  /\ co'[t] = "active" => t = current'
             /\ InList(ready', t) => /\ co'[t] \in {"created", "suspended"}
                                     /\ ~Woken(stack', t) /\ ~HasCell(t)'
             /\ Woken(stack', t) => co'[t] = "suspended" /\ ~HasCell(t)'
             /\ HasCell(t)' => co'[t] = "suspended"
  <2>1. CASE t = t0  BY <1>2, <1>3, <1>6, <2>1
  <2>2. CASE t # t0  BY <1>2, <1>3, <1>5, <1>6, <2>2 DEF Alone
  <2> QED  BY <2>1, <2>2
<1>9. Alone'  BY <1>6, <1>7, <1>8 DEF Alone
<1>10. ASSUME Orderly, Tidy PROVE Tidy'
  <2>1. \A x \in Hooks : Keeps(x)  BY <1>4, Names DEF Keeps, At
  <2>2. Heard'  BY <1>10, <2>1, HeardKept DEF Tidy
  <2> QED  BY <1>4, <2>2 DEF Tidy
<1> QED  BY <1>9, <1>10 DEF Stays

-----------------------------------------------------------------------------
(* Each step keeps the invariant *)

(* The lists of events to wait for are not empty. *)
LEMMA ListsSome == ASSUME NEW em, NEW evs \in Lists(em) PROVE evs # {}
BY DEF Lists

(* The calls that only tasks make. *)
LEMMA TaskCallStays == ASSUME Sound, Alone, Careful, TaskCall PROVE Stays
<1>1. CASE Finish
  BY <1>1, EndStays DEF Finish
<1>2. CASE WaitFails
  BY <1>2, EndStays DEF WaitFails
<1>3. CASE Yield
  <2>1. PICK t0 \in Tasks : t0 = Actor  BY <1>3 DEF Yield
  <2>2. stack = <<>> /\ current = t0 /\ running = t0  BY <2>1, ActorAlone
  <2>3. /\ co' = [co EXCEPT ![t0] = "suspended"] /\ current' = None /\ running' = None
        /\ stack' = stack /\ waiting' = waiting /\ ready' = Append(ready, t0)
        /\ UNCHANGED <<hook, regs, timers>>
    BY <1>3, <2>1, <2>2 DEF Yield, Suspend, cells
  <2> QED  BY <2>2, <2>3, SuspendStays
<1>4. ASSUME NEW S \in SUBSET Slots, S # {}, NEW isMulti, Block(S, isMulti)
      PROVE  Stays
  <2>1. PICK t0 \in Tasks : t0 = Actor  BY <1>4 DEF Block
  <2>2. stack = <<>> /\ current = t0 /\ running = t0  BY <2>1, ActorAlone
  <2>3. /\ co' = [co EXCEPT ![t0] = "suspended"] /\ current' = None /\ running' = None
        /\ stack' = stack /\ waiting' = Register(waiting, t0, S) /\ ready' = ready
        /\ UNCHANGED <<hook, regs>>
    BY <1>4, <2>1, <2>2 DEF Block, Suspend
  <2>4. timers' \in {timers, timers \cup {t0}}  BY <1>4, <2>2 DEF Block
  <2> QED  BY <1>4, <2>2, <2>3, <2>4, SuspendStays
<1>5. ASSUME NEW em \in Known, NEW evs \in Lists(em), Wait(em, evs)
      PROVE  Stays
  <2>1. {em} \X evs \in SUBSET Slots  BY ListsType, KnownType DEF Slots
  <2>2. {em} \X evs # {}
    <3>1. PICK ev \in evs : TRUE  BY ListsSome
    <3>2. <<em, ev>> \in {em} \X evs  BY <3>1
    <3> QED  BY <3>2
  <2> QED  BY <1>4, <1>5, <2>1, <2>2 DEF Wait
<1>6. ASSUME NEW ems \in SUBSET (Known \ {Clock}), Cardinality(ems) > 1,
             NEW evs \in UNION {Lists(em) : em \in ems}, MultiWait(ems, evs)
      PROVE  Stays
  <2>1. ems \X evs \in SUBSET Slots  BY ListsType, KnownType DEF Slots
  <2>2. ems \X evs # {}
    <3>1. ems # {}  BY <1>6, FS_EmptySet
    <3>2. PICK em \in ems : TRUE  BY <3>1
    <3>3. PICK ev \in evs : TRUE  BY ListsSome
    <3>4. <<em, ev>> \in ems \X evs  BY <3>2, <3>3
    <3> QED  BY <3>4
  <2> QED  BY <1>4, <1>6, <2>1, <2>2 DEF MultiWait
<1> QED  BY <1>1, <1>2, <1>3, <1>5, <1>6 DEF TaskCall

(* A hook is emptied: the other hooks stay in their slots. *)
LEMMA ClearKeeps ==
    ASSUME Sound, NEW h \in Hooks, ClearHook(h),
           \A x \in Hooks \ {h} : \A p : At(waiting, stack, x, p) => At(waiting', stack', x, p)
    PROVE  \A x \in Hooks : Keeps(x)
<1> SUFFICES ASSUME NEW x \in Hooks PROVE Keeps(x)  OBVIOUS
<1>1. CASE x = h
  <2>1. regs'[x] = {}  BY <1>1, SoundTypes DEF ClearHook
  <2> QED  BY <2>1 DEF Keeps
<1>2. CASE x # h
  <2>1. regs'[x] = regs[x] /\ hook'[x] = hook[x]  BY <1>2, SoundTypes DEF ClearHook
  <2> QED  BY <1>2, <2>1 DEF Keeps
<1> QED  BY <1>1, <1>2

(* A hook is killed by another. *)
LEMMA KillHookStays == ASSUME Sound, Alone, NEW h \in Hooks, KillHook(h) PROVE Stays
<1>1. /\ ClearHook(h) /\ waiting' = EmptyWaiting(waiting, h) /\ stack' = EmptyStack(stack, h)
      /\ UNCHANGED <<co, ready, running, current>>
  BY DEF KillHook
<1>2. /\ Calling(stack', stack)
      /\ \A x, p : x # Emptied => (Cell(waiting', stack', x, p) <=> Cell(waiting, stack, x, p) /\ x # h)
      /\ Owned(waiting, stack) => Owned(waiting', stack')
  BY <1>1, SoundTypes, EmptyOk
<1>3. /\ \A t : Woken(stack', t) <=> Woken(stack, t)
      /\ \A x, p : Called(stack', x, p) <=> Called(stack, x, p)
      /\ Spread(stack') /\ Calm(stack')
  BY <1>2, CallingOk DEF Alone
<1>4. \A x \in Hooks \ {h} : \A p : At(waiting, stack, x, p) => At(waiting', stack', x, p)
  BY <1>2, <1>3, Names DEF At
<1>5. \A x \in Hooks : Keeps(x)  BY <1>1, <1>4, ClearKeeps
<1>6. \A t \in Tasks : t \in timers' <=> t \in timers  BY <1>1, Names DEF ClearHook
<1>7. \A t \in Tasks : \A p : Cell(waiting', stack', t, p) <=> Cell(waiting, stack, t, p)
  BY <1>2, Names
<1> QED  BY <1>1, <1>2, <1>3, <1>5, <1>6, <1>7, QuietStays DEF Tidy

(* A blocked task is killed. *)
LEMMA KillSuspendedStays ==
    ASSUME Sound, Alone, Careful, NEW t0 \in Tasks, KillSuspended(t0) PROVE Stays
<1> DEFINE w1 == EmptyWaiting(waiting, t0)
           s1 == EmptyStack(stack, t0)
<1>1. /\ co[t0] = "suspended" /\ co' = [co EXCEPT ![t0] = "dead"] /\ timers' = timers \ {t0}
      /\ Emit(t0, Die, FALSE, w1, s1) /\ t0 # running
      /\ UNCHANGED <<ready, running, current, hook, regs>>
  BY DEF KillSuspended, MayKill
<1>2. HasCell(t0)
  <2> SUFFICES ASSUME ~HasCell(t0) PROVE FALSE  OBVIOUS
  <2>1. May("killready")  BY DEF KillSuspended, MayKill
  <2> QED  BY <2>1 DEF May, Careful
<1>3. InProgress(t0) => May("resignal")  BY DEF KillSuspended, MayKill
<1>4. ~InList(ready, t0) /\ ~Woken(stack, t0)  BY <1>2 DEF Alone
<1>5. t0 # current  BY <1>1, Names DEF Alone
<1>6. Table(w1, Entries) /\ s1 \in Seq(Frames) /\ t0 \in Emitters /\ Die \in Keys /\ Die # Timeout
  <2>1. Table(w1, Alive) /\ Calls(s1, Alive)  BY TaskClearedType DEF Sound
  <2>2. Alive \in SUBSET Entries  BY AliveCells
  <2>3. Seq(Alive) \subseteq Seq(Entries)  BY <2>2, SeqMonotonic
  <2>4. Table(w1, Entries)
    <3> HIDE DEF w1
    <3> QED  BY <2>1, <2>3 DEF Table
  <2> QED  BY <2>1, <2>4, CallsSeq, Names
<1>7. /\ Calling(s1, stack)
      /\ \A x, p : x # Emptied => (Cell(w1, s1, x, p) <=> Cell(waiting, stack, x, p) /\ x # t0)
      /\ Owned(waiting, stack) => Owned(w1, s1)
  BY SoundTypes, EmptyOk
<1> HIDE DEF w1, s1
<1>8. /\ \A t : Woken(s1, t) <=> Woken(stack, t)
      /\ \A x, p : Called(s1, x, p) <=> Called(stack, x, p)
      /\ \A em : Emitting(s1, em) <=> Emitting(stack, em)
      /\ Spread(s1) /\ Calm(s1)
  BY <1>7, CallingOk DEF Alone
<1>9. /\ Same(waiting', stack', w1, s1)
      /\ Owned(w1, s1) /\ ~Emitting(s1, t0) => Owned(waiting', stack')
  BY <1>1, <1>6, EmitOk
<1>10. /\ \A t : Woken(stack', t) <=> Woken(stack, t)
       /\ \A x \in Hooks : \A p : Called(stack', x, p) <=> Called(stack, x, p)
       /\ \A x \in Owners : \A p : Cell(waiting', stack', x, p) <=> Cell(waiting, stack, x, p) /\ x # t0
       /\ Spread(stack') /\ Calm(stack')
  BY <1>7, <1>8, <1>9, CellOwner DEF Same
<1>11. ~HasCell(t0)'  BY <1>1, <1>10, Names, HasCellNext
<1>12. \A x \in Hooks : Keeps(x)  BY <1>1, <1>10, Names DEF Keeps, At
<1>13. ASSUME Orderly, Tidy PROVE Owned(waiting', stack')
  <2>1. ~InProgress(t0)  BY <1>3, <1>13 DEF Orderly, May
  <2>2. ~Emitting(stack, t0)  BY <2>1 DEF InProgress, Emitting, Alone, Calm
  <2> QED  BY <1>7, <1>8, <1>9, <1>13, <2>2 DEF Tidy
<1>14. \A t \in Tasks \ {t0} :
          /\ t \in timers' <=> t \in timers
          /\ \A p : Cell(waiting', stack', t, p) <=> Cell(waiting, stack, t, p)
  BY <1>1, <1>10, Names
<1>15. IF t0 = current THEN current' = None ELSE current' = current  BY <1>1, <1>5
<1>16. Spread(stack') /\ Calm(stack') /\ \A t : Woken(stack', t) <=> Woken(stack, t)  BY <1>10
<1> QED  BY <1>1, <1>4, <1>11, <1>12, <1>13, <1>14, <1>15, <1>16, DeadStays

(* A hook's function returns. *)
LEMMA HookReturnsStays ==
    ASSUME Sound, Alone, Actor \in Hooks, NEW killed \in BOOLEAN,
           HookReturns(killed, waiting), running' = running
    PROVE  Stays
<1> DEFINE f == Head(stack)
           u == Tail(stack)
           g == [f EXCEPT !.who = None]
           s == <<g>> \o u
<1>1. PICK h \in Hooks : h = f.who
  BY ActorType DEF Actor
<1>2. /\ stack # <<>> /\ f \in Frames /\ u \in Seq(Frames) /\ OnTop(stack, f, u)
  BY ActorType, SoundTypes, TopOk
<1>3. /\ g \in Frames /\ Alike(g, f) /\ g.who = None /\ g.todo = f.todo /\ g.att = f.att
      /\ SlotOf(g) = SlotOf(f)
  BY <1>2 DEF Frames, Alike, SlotOf
<1>4. /\ IF f.key = Timeout
         THEN /\ ClearHook(h)
              /\ waiting' = EmptyWaiting(waiting, h)
              /\ stack' = EmptyStack(u, h)
         ELSE IF killed \/ hook[h] = "once"
         THEN /\ ClearHook(h)
              /\ waiting' = EmptyWaiting(waiting, h)
              /\ stack' = EmptyStack(s, h)
         ELSE /\ Reattach(IF hook[h] = "emptied" THEN Emptied ELSE h, waiting, s)
              /\ KeepHook
      /\ UNCHANGED <<co, ready, current>>
  BY <1>1 DEF HookReturns
<1> HIDE DEF f, u, g
<1>5. s \in Seq(Frames) /\ s # <<>> /\ Head(s) = g /\ Tail(s) = u /\ OnTop(s, g, u)
  BY <1>2, <1>3, OnTopOk
<1> HIDE DEF s
<1>6. g.em = f.em /\ g.ev = f.ev /\ g.key = f.key /\ g.woken = f.woken  BY <1>3 DEF Alike
<1>7. /\ \A t : Woken(s, t) <=> Woken(stack, t)
      /\ \A x, p : Left(s, x, p) <=> Left(stack, x, p)
      /\ \A x, p : x # None /\ x # h => (Called(s, x, p) <=> Called(stack, x, p))
      /\ \A p : Called(stack, h, p) => Called(s, h, p) \/ p = SlotOf(f)
      /\ Spread(s) /\ Calm(s)
      /\ \A w : Owned(w, stack) /\ f.key # Timeout => Owned(w, s)
  <2>1. \A w : Owned(w, stack) /\ f.key # Timeout => Owned(w, s)
    <3> SUFFICES ASSUME NEW w, Owned(w, stack), f.key # Timeout PROVE Owned(w, s)
      OBVIOUS
    <3>1. Owned(w, u) /\ Filling(w, f) /\ ~Emitting(u, f.em)  BY <1>2 DEF OnTop
    <3>2. Filling(w, g)  BY <1>3, <1>6, <3>1 DEF Filling
    <3> QED  BY <1>5, <1>6, <3>1, <3>2 DEF OnTop
  <2>2. /\ \A t : Woken(s, t) <=> Woken(stack, t)
        /\ \A x, p : Left(s, x, p) <=> Left(stack, x, p)
        /\ Spread(s) /\ Calm(s)
    BY <1>2, <1>3, <1>5, <1>6, Names DEF OnTop, Alone
  <2>3. /\ \A x, p : x # None /\ x # h => (Called(s, x, p) <=> Called(stack, x, p))
        /\ \A p : Called(stack, h, p) => Called(s, h, p) \/ p = SlotOf(f)
    BY <1>1, <1>2, <1>3, <1>5 DEF OnTop
  <2> QED  BY <2>1, <2>2, <2>3
<1>8. CASE f.key = Timeout
  <2>1. ClearHook(h) /\ waiting' = EmptyWaiting(waiting, h) /\ stack' = EmptyStack(u, h)
    BY <1>4, <1>8
  <2>2. /\ Calling(stack', u)
        /\ \A x, p : x # Emptied => (Cell(waiting', stack', x, p) <=> Cell(waiting, u, x, p) /\ x # h)
        /\ Owned(waiting, u) => Owned(waiting', stack')
    BY <1>2, <2>1, EmptyOk
  <2>3. /\ \A t : Woken(stack', t) <=> Woken(u, t)
        /\ \A x, p : Called(stack', x, p) <=> Called(u, x, p)
        /\ Spread(stack') /\ Calm(stack')
    BY <1>2, <2>2, CallingOk DEF Alone, OnTop
  <2>4. \A t \in Tasks : t \in timers' <=> t \in timers  BY <2>1, Names DEF ClearHook
  <2>5. /\ \A t : Woken(stack', t) => Woken(stack, t)
        /\ \A x, p : Cell(waiting, u, x, p) => Cell(waiting, stack, x, p)
    BY <1>2, <2>3 DEF OnTop, Cell
  <2>6. \A t \in Tasks : \A p : Cell(waiting', stack', t, p) => Cell(waiting, stack, t, p)
    BY <2>2, <2>5, Names
  <2>7. ASSUME Orderly, Tidy
        PROVE  /\ Owned(waiting', stack')
               /\ \A t \in Tasks :
                     /\ Woken(stack, t) => Woken(stack', t)
                     /\ \A p : Cell(waiting, stack, t, p) => Cell(waiting', stack', t, p)
               /\ \A x \in Hooks : Keeps(x)
    <3>1. Owned(waiting, u) /\ f.todo = <<>> /\ f.woken = <<>>
      BY <1>2, <1>8, <2>7 DEF Tidy, OnTop, Filling
    <3>2. /\ \A t : Woken(stack, t) <=> Woken(u, t)
          /\ \A x, p : Left(stack, x, p) <=> Left(u, x, p)
      BY <1>2, <3>1, NilIn DEF OnTop
    <3>3. \A x, p : Cell(waiting, stack, x, p) => Cell(waiting, u, x, p)  BY <3>2 DEF Cell
    <3>4. \A x \in Hooks \ {h} : \A p : At(waiting, stack, x, p) => At(waiting', stack', x, p)
      <4>1. \A x \in Hooks \ {h} : \A p : Called(stack, x, p) => Called(u, x, p)
        BY <1>1, <1>2 DEF OnTop
      <4> QED  BY <2>2, <2>3, <3>3, <4>1, Names DEF At
    <3>5. \A x \in Hooks : Keeps(x)  BY <2>1, <3>4, ClearKeeps
    <3> QED  BY <2>2, <2>3, <3>1, <3>2, <3>3, <3>5, Names
  <2> QED  BY <1>4, <2>3, <2>4, <2>5, <2>6, <2>7, QuietStays
<1>9. CASE f.key # Timeout /\ (killed \/ hook[h] = "once")
  <2>1. ClearHook(h) /\ waiting' = EmptyWaiting(waiting, h) /\ stack' = EmptyStack(s, h)
    BY <1>4, <1>9
  <2>2. /\ Calling(stack', s)
        /\ \A x, p : x # Emptied => (Cell(waiting', stack', x, p) <=> Cell(waiting, s, x, p) /\ x # h)
        /\ Owned(waiting, s) => Owned(waiting', stack')
    BY <1>5, <2>1, EmptyOk
  <2>3. /\ \A t : Woken(stack', t) <=> Woken(stack, t)
        /\ \A x, p : Called(stack', x, p) <=> Called(s, x, p)
        /\ Spread(stack') /\ Calm(stack')
    BY <1>7, <2>2, CallingOk
  <2>4. \A t \in Tasks : t \in timers' <=> t \in timers  BY <2>1, Names DEF ClearHook
  <2>5. \A x, p : Cell(waiting, s, x, p) <=> Cell(waiting, stack, x, p)  BY <1>7 DEF Cell
  <2>6. \A t \in Tasks : \A p : Cell(waiting', stack', t, p) <=> Cell(waiting, stack, t, p)
    BY <2>2, <2>5, Names
  <2>7. \A x \in Hooks \ {h} : \A p : At(waiting, stack, x, p) => At(waiting', stack', x, p)
    BY <1>7, <2>2, <2>3, <2>5, Names DEF At
  <2>8. \A x \in Hooks : Keeps(x)  BY <2>1, <2>7, ClearKeeps
  <2>9. Orderly /\ Tidy => Owned(waiting', stack')  BY <1>7, <1>9, <2>2 DEF Tidy
  <2> QED  BY <1>4, <2>3, <2>4, <2>6, <2>8, <2>9, QuietStays
<1>10. CASE f.key # Timeout /\ ~(killed \/ hook[h] = "once")
  <2> DEFINE c == IF hook[h] = "emptied" THEN Emptied ELSE h
  <2>1. Reattach(c, waiting, s) /\ UNCHANGED <<hook, regs, timers>>
    BY <1>4, <1>10 DEF KeepHook
  <2>2. c \in Entries /\ c \notin Tasks /\ (c # h => hook[h] = "emptied")
        /\ \A x \in Hooks : x # h => x # c
    BY Names
  <2> HIDE DEF c
  <2>3. /\ Calling(stack', s)
        /\ \A x, p : x # c => (Cell(waiting', stack', x, p) <=> Cell(waiting, s, x, p))
        /\ Owned(waiting, s) =>
              /\ Owned(waiting', stack') /\ Cell(waiting', stack', c, SlotOf(f))
              /\ \A p : Cell(waiting, s, c, p) => Cell(waiting', stack', c, p)
    BY <1>3, <1>5, <1>6, <1>10, <2>1, <2>2, SoundTypes, ReattachOk
  <2>4. /\ \A t : Woken(stack', t) <=> Woken(stack, t)
        /\ \A x, p : Called(stack', x, p) <=> Called(s, x, p)
        /\ Spread(stack') /\ Calm(stack')
    BY <1>7, <2>3, CallingOk
  <2>5. \A x, p : Cell(waiting, s, x, p) <=> Cell(waiting, stack, x, p)  BY <1>7 DEF Cell
  <2>6. \A t \in Tasks : \A p : Cell(waiting', stack', t, p) <=> Cell(waiting, stack, t, p)
    BY <2>2, <2>3, <2>5
  <2>7. ASSUME Orderly, Tidy PROVE Owned(waiting', stack') /\ \A x \in Hooks : Keeps(x)
    <3>1. Owned(waiting, s)  BY <1>7, <1>10, <2>7 DEF Tidy
    <3>2. ASSUME NEW x \in Hooks, x # h PROVE Keeps(x)
      <4>1. \A p : At(waiting, stack, x, p) => At(waiting', stack', x, p)
        BY <1>7, <2>2, <2>3, <2>4, <2>5, <3>2, Names DEF At
      <4> QED  BY <2>1, <4>1 DEF Keeps
    <3>3. CASE c # h
      <4>1. regs'[h] = {}  BY <2>1, <2>2, <2>7, <3>3 DEF Tidy, Heard
      <4>2. Keeps(h)  BY <4>1 DEF Keeps
      <4> QED  BY <2>3, <3>1, <3>2, <4>2
    <3>4. CASE c = h
      <4>1. \A p : At(waiting, stack, h, p) => At(waiting', stack', h, p)
        BY <1>7, <2>3, <2>4, <2>5, <3>1, <3>4 DEF At
      <4>2. Keeps(h)  BY <2>1, <4>1 DEF Keeps
      <4> QED  BY <2>3, <3>1, <3>2, <4>2
    <3> QED  BY <3>3, <3>4
  <2> QED  BY <1>4, <2>1, <2>4, <2>6, <2>7, QuietStays
<1> QED  BY <1>8, <1>9, <1>10

(* The sweep takes no task and no hook out of the table. *)
LEMMA GcStays ==
    ASSUME Sound, Alone, waiting' = Collected(waiting, stack),
           UNCHANGED <<co, ready, current, stack, timers, hook, regs>>,
           running' = running \/ current = None
    PROVE  Stays
<1>1. /\ \A x, p : Cell(waiting', stack, x, p) => Cell(waiting, stack, x, p)
      /\ \A x, p : LiveCell(x) /\ Cell(waiting, stack, x, p) => Cell(waiting', stack, x, p)
      /\ Owned(waiting, stack) /\ Calm(stack) => Owned(waiting', stack)
  BY SoundTypes, CollectedOk
<1>2. \A t \in Tasks : \A p : Cell(waiting, stack, t, p) => Cell(waiting', stack', t, p)
  <2> SUFFICES ASSUME NEW t \in Tasks, NEW p, Cell(waiting, stack, t, p)
               PROVE  Cell(waiting', stack', t, p)
    OBVIOUS
  <2>1. co[t] = "suspended"  BY HasCellOk DEF Alone
  <2>2. LiveCell(t)  BY <2>1, Names DEF LiveCell
  <2> QED  BY <1>1, <2>2
<1>3. \A x \in Hooks : LiveCell(x)  BY Names DEF LiveCell
<1>4. \A x \in Hooks : Keeps(x)  BY <1>1, <1>3 DEF Keeps, At
<1>5. Spread(stack') /\ Calm(stack')  BY DEF Alone
<1>6. Orderly /\ Tidy => Owned(waiting', stack')  BY <1>1 DEF Tidy, Alone
<1> QED  BY <1>1, <1>2, <1>4, <1>5, <1>6, QuietStays

(* The calls that only hooks make, and their end. *)
LEMMA HookCallStays == ASSUME Sound, Alone, Careful, HookCall PROVE Stays
<1>1. CASE HookDone
  <2>1. Actor \in Hooks /\ HookReturns(FALSE, waiting) /\ running' = running
    BY <1>1 DEF HookDone
  <2> QED  BY <2>1, HookReturnsStays
<1>2. ASSUME NEW em \in Objects, NEW ev \in Events, BlockInHook(em, ev) PROVE Stays
  <2>1. May("block")  BY <1>2 DEF BlockInHook
  <2> QED  BY <2>1 DEF May, Careful
<1> QED  BY <1>1, <1>2 DEF HookCall

(* The calls made by tasks and hooks alike. *)
LEMMA AnyCallStays == ASSUME Sound, Alone, Careful, AnyCall PROVE Stays
<1>1. ASSUME NEW t0 \in Tasks, Run(t0) PROVE Stays
  <2>1. /\ co[t0] = "none" /\ co' = [co EXCEPT ![t0] = "created"] /\ ready' = Append(ready, t0)
        /\ UNCHANGED <<running, current, waiting, stack, timers, hook, regs>>
    BY <1>1 DEF Run, cells
  <2>2. \A x \in Hooks : Keeps(x)  BY <2>1 DEF Keeps
  <2>3. Spread(stack') /\ Calm(stack')  BY <2>1 DEF Alone
  <2> QED  BY <2>1, <2>2, <2>3, SpawnStays DEF Tidy
<1>2. ASSUME NEW em \in Objects, NEW ev \in Events, Signal(em, ev) PROVE Stays
  <2>1. em \in Emitters /\ ev \in Keys /\ ev # Timeout
    BY EventAssumption DEF Emitters, Keys
  <2>2. /\ Emit(em, ev, FALSE, waiting, stack)
        /\ UNCHANGED <<co, ready, running, current, timers, hook, regs>>
    BY <1>2 DEF Signal, cells
  <2>3. ASSUME Orderly PROVE ~Emitting(stack, em)
    <3>1. ~InProgress(em)  BY <1>2, <2>3 DEF Signal, MayEmit, Orderly, May
    <3> QED  BY <3>1 DEF InProgress, Emitting, Alone, Calm
  <2> QED  BY <2>1, <2>2, <2>3, EmitStays
<1>3. ASSUME NEW h \in Hooks, NEW kind \in {"hook", "once", "run", "runonce"},
             NEW em \in Known, NEW evs \in Lists(em), SigHook(h, kind, em, evs)
      PROVE  Stays
  <2> DEFINE S == {em} \X evs
  <2>1. S \in SUBSET Slots  BY ListsType, KnownType DEF Slots
  <2>2. /\ hook' = [hook EXCEPT ![h] = kind] /\ regs' = [regs EXCEPT ![h] = S]
        /\ waiting' = Register(waiting, h, S) /\ timers' \in {timers, timers \cup {h}}
        /\ UNCHANGED <<co, ready, running, current, stack>>
    BY <1>3 DEF SigHook
  <2> HIDE DEF S
  <2>3. /\ \A x, p : Cell(waiting', stack, x, p) <=> Cell(waiting, stack, x, p) \/ (x = h /\ p \in S)
        /\ Owned(waiting, stack) => Owned(waiting', stack)
    <3>1. Table(waiting, Entries) /\ h \in Entries  BY SoundTypes, Names
    <3>2. LET w1 == Register(waiting, h, S)
          IN  /\ \A x, p : Cell(w1, stack, x, p) <=>
                              Cell(waiting, stack, x, p) \/ (x = h /\ p \in S)
              /\ Owned(waiting, stack) => Owned(w1, stack)
      BY <2>1, <3>1, RegisterOk
    <3> QED  BY <2>2, <3>2
  <2>4. \A x \in Hooks : Keeps(x)
    <3> TAKE x \in Hooks
    <3>1. CASE x = h
      <4>1. hook'[x] = kind /\ regs'[x] = S  BY <2>2, <3>1, SoundTypes
      <4> QED  BY <2>2, <2>3, <3>1, <4>1 DEF Keeps, At
    <3>2. CASE x # h
      <4>1. hook'[x] = hook[x] /\ regs'[x] = regs[x]  BY <2>2, <3>2, SoundTypes
      <4> QED  BY <2>2, <2>3, <4>1 DEF Keeps, At
    <3> QED  BY <3>1, <3>2
  <2>5. Spread(stack') /\ Calm(stack')  BY <2>2 DEF Alone
  <2>6. \A t \in Tasks : t \in timers' <=> t \in timers  BY <2>2, Names
  <2>7. \A t \in Tasks : \A p : Cell(waiting', stack', t, p) <=> Cell(waiting, stack, t, p)
    BY <2>2, <2>3, Names
  <2>8. Orderly /\ Tidy => Owned(waiting', stack')  BY <2>2, <2>3 DEF Tidy
  <2> QED  BY <2>2, <2>4, <2>5, <2>6, <2>7, <2>8, QuietStays
<1>4. CASE Gc
  <2>1. /\ waiting' = Collected(waiting, stack)
        /\ UNCHANGED <<co, ready, running, current, stack, timers, hook, regs>>
    BY <1>4 DEF Gc, cells
  <2> QED  BY <2>1, GcStays
<1>5. CASE KillSelf
  <2>1. CASE Actor \in Tasks  BY <1>5, <2>1, EndStays DEF KillSelf
  <2>2. CASE Actor \notin Tasks
    <3>1. Actor \in Hooks
      BY <1>5, <2>2, ActorType DEF KillSelf, May, Owners
    <3>2. HookReturns(TRUE, waiting) /\ running' = running
      BY <1>5, <2>2 DEF KillSelf
    <3> QED  BY <3>1, <3>2, HookReturnsStays
  <2> QED  BY <2>1, <2>2
<1>6. ASSUME NEW x \in Tasks, KillNew(x) PROVE Stays
  <2>1. May("killnew")  BY <1>6 DEF KillNew, MayKill
  <2> QED  BY <2>1 DEF May, Careful
<1>7. ASSUME NEW x \in Tasks, KillGone(x) PROVE Stays
  <2>1. May("killgone")  BY <1>7 DEF KillGone, MayKill
  <2> QED  BY <2>1 DEF May, Careful
<1> QED
  BY <1>1, <1>2, <1>3, <1>4, <1>5, <1>6, <1>7, KillSuspendedStays, KillHookStays DEF AnyCall

(* A thread starts in a hook of sigRun h, whose call is at the top of s,   *)
(* and a hook h2 is registered for its death.                              *)
LEMMA BornOk ==
    ASSUME Sound, NEW t \in Unborn, NEW h2 \in Unused, NEW w, Table(w, Entries), NEW s
    PROVE  LET w1 == Register(w, h2, {<<t, Die>>})
           IN  /\ t \in Tasks /\ co[t] = "none" /\ h2 \in Hooks /\ hook[h2] = "free"
               /\ Table(w1, Entries)
               /\ \A x, p : Cell(w1, s, x, p) <=> Cell(w, s, x, p) \/ (x = h2 /\ p = <<t, Die>>)
               /\ Owned(w, s) => Owned(w1, s)
<1> DEFINE S == {<<t, Die>>}
<1>1. t \in Tasks /\ co[t] = "none" /\ h2 \in Hooks /\ hook[h2] = "free"
  BY DEF Unborn, Unused
<1>2. S \in SUBSET Slots /\ h2 \in Entries  BY <1>1, Names DEF Slots
<1>3. \A p : p \in S <=> p = <<t, Die>>  OBVIOUS
<1> HIDE DEF S
<1>4. LET w1 == Register(w, h2, S)
      IN  /\ \A x, p : Cell(w1, s, x, p) <=> Cell(w, s, x, p) \/ (x = h2 /\ p \in S)
          /\ Owned(w, s) => Owned(w1, s)
  BY <1>2, RegisterOk
<1>5. Table(Register(w, h2, S), Entries)  BY <1>2, RegisterType
<1> QED  BY <1>1, <1>3, <1>4, <1>5 DEF S

(* A hook that starts a thread goes on being registered. *)
LEMMA CallSigRunStays == ASSUME Sound, Alone, NEW h \in Hooks, CallSigRun(h) PROVE Stays
<1> DEFINE p0 == SlotOf(Head(stack))
<1>0. Table(waiting, Entries) /\ stack \in Seq(Frames)  BY SoundTypes
<1>1. NextCell(h) /\ hook[h] = "run" /\ UNCHANGED <<running, current, timers>>
  BY DEF CallSigRun
<1>2. /\ Taken \in Seq(Frames) /\ Taken # <<>> /\ SlotOf(Head(Taken)) = p0
      /\ Head(Taken).key = Head(stack).key
      /\ Spread(Taken) /\ Calm(Taken)
      /\ \A t : Woken(Taken, t) <=> Woken(stack, t)
      /\ \A x, p : Called(Taken, x, p) <=> Called(stack, x, p)
      /\ \A x, p : Left(stack, x, p) <=> Left(Taken, x, p) \/ (x = h /\ p = p0)
      /\ \A w : Owned(w, stack) => Owned(w, Taken) /\ Head(stack).key # Timeout
  BY <1>0, <1>1, TakenOk DEF Alone, Alike
<1> HIDE DEF p0
<1>3. h \in Entries /\ h # Emptied /\ h \notin Tasks  BY Names
<1>4. \A x, p : Cell(waiting, stack, x, p) <=> Cell(waiting, Taken, x, p) \/ (x = h /\ p = p0)
  BY <1>2 DEF Cell
<1>5. ASSUME NEW w, Table(w, Entries), Reattach(h, w, Taken)
      PROVE  /\ Spread(stack') /\ Calm(stack')
             /\ \A t : Woken(stack', t) <=> Woken(stack, t)
             /\ \A x, p : Called(stack', x, p) <=> Called(stack, x, p)
             /\ \A x, p : x # h => (Cell(waiting', stack', x, p) <=> Cell(w, Taken, x, p))
             /\ Owned(w, Taken) /\ Head(stack).key # Timeout =>
                  /\ Owned(waiting', stack') /\ Cell(waiting', stack', h, p0)
                  /\ \A p : Cell(w, Taken, h, p) => Cell(waiting', stack', h, p)
  <2>1. /\ Calling(stack', Taken)
        /\ \A x, p : x # h => (Cell(waiting', stack', x, p) <=> Cell(w, Taken, x, p))
        /\ Owned(w, Taken) /\ Head(Taken).key # Timeout =>
             /\ Owned(waiting', stack') /\ Cell(waiting', stack', h, SlotOf(Head(Taken)))
             /\ \A p : Cell(w, Taken, h, p) => Cell(waiting', stack', h, p)
    BY <1>2, <1>3, <1>5, ReattachOk
  <2>2. /\ \A t : Woken(stack', t) <=> Woken(Taken, t)
        /\ \A x, p : Called(stack', x, p) <=> Called(Taken, x, p)
        /\ Spread(stack') /\ Calm(stack')
    BY <1>2, <2>1, CallingOk
  <2> QED  BY <1>2, <2>1, <2>2
<1>6. ASSUME NEW t0 \in Unborn, NEW h2 \in Unused, Spawn(t0),
             hook' = [hook EXCEPT ![h2] = "propagate"],
             regs' = [regs EXCEPT ![h2] = {<<t0, Die>>}],
             Reattach(h, Register(waiting, h2, {<<t0, Die>>}), Taken)
      PROVE  Stays
  <2> DEFINE w == Register(waiting, h2, {<<t0, Die>>})
  <2>1. /\ t0 \in Tasks /\ co[t0] = "none" /\ h2 \in Hooks /\ hook[h2] = "free"
        /\ Table(w, Entries)
        /\ \A x, p : Cell(w, Taken, x, p) <=> Cell(waiting, Taken, x, p) \/ (x = h2 /\ p = <<t0, Die>>)
        /\ Owned(waiting, Taken) => Owned(w, Taken)
    BY <1>0, BornOk
  <2>2. Reattach(h, w, Taken)  BY <1>6
  <2> HIDE DEF w
  <2>3. /\ Spread(stack') /\ Calm(stack')
        /\ \A t : Woken(stack', t) <=> Woken(stack, t)
        /\ \A x, p : Called(stack', x, p) <=> Called(stack, x, p)
        /\ \A x, p : x # h => (Cell(waiting', stack', x, p) <=> Cell(w, Taken, x, p))
        /\ Owned(w, Taken) /\ Head(stack).key # Timeout =>
             /\ Owned(waiting', stack') /\ Cell(waiting', stack', h, p0)
             /\ \A p : Cell(w, Taken, h, p) => Cell(waiting', stack', h, p)
    BY <1>5, <2>1, <2>2
  <2>4. h # h2  BY <1>1, <2>1
  <2>5. \A t \in Tasks : \A p : Cell(waiting', stack', t, p) <=> Cell(waiting, stack, t, p)
    BY <1>3, <1>4, <2>1, <2>3, Names
  <2>6. ASSUME Orderly, Tidy PROVE Owned(waiting', stack') /\ \A x \in Hooks : Keeps(x)
    <3>1. Owned(w, Taken) /\ Head(stack).key # Timeout  BY <1>2, <2>1, <2>6 DEF Tidy
    <3>2. Keeps(h2)
      <4>1. hook'[h2] = "propagate" /\ regs'[h2] = {<<t0, Die>>}
        BY <1>6, <2>1, SoundTypes
      <4>2. Cell(waiting', stack', h2, <<t0, Die>>)  BY <2>1, <2>3, <2>4
      <4> QED  BY <4>1, <4>2 DEF Keeps, At
    <3>3. ASSUME NEW x \in Hooks, x # h2 PROVE Keeps(x)
      <4>1. hook'[x] = hook[x] /\ regs'[x] = regs[x]  BY <1>6, <3>3, SoundTypes
      <4>2. \A p : Cell(waiting, stack, x, p) => Cell(waiting', stack', x, p)
        BY <1>4, <2>1, <2>3, <3>1
      <4> QED  BY <2>3, <4>1, <4>2 DEF Keeps, At
    <3> QED  BY <2>3, <3>1, <3>2, <3>3
  <2> QED  BY <1>1, <1>6, <2>1, <2>3, <2>5, <2>6, SpawnStays DEF Spawn
<1>7. CASE Reattach(h, waiting, Taken) /\ UNCHANGED <<co, ready, hook, target, regs>>
  <2>1. /\ Spread(stack') /\ Calm(stack')
        /\ \A t : Woken(stack', t) <=> Woken(stack, t)
        /\ \A x, p : Called(stack', x, p) <=> Called(stack, x, p)
        /\ \A x, p : x # h => (Cell(waiting', stack', x, p) <=> Cell(waiting, Taken, x, p))
        /\ Owned(waiting, Taken) /\ Head(stack).key # Timeout =>
             /\ Owned(waiting', stack') /\ Cell(waiting', stack', h, p0)
             /\ \A p : Cell(waiting, Taken, h, p) => Cell(waiting', stack', h, p)
    BY <1>0, <1>5, <1>7
  <2>2. \A t \in Tasks : \A p : Cell(waiting', stack', t, p) <=> Cell(waiting, stack, t, p)
    BY <1>3, <1>4, <2>1
  <2>3. ASSUME Orderly, Tidy PROVE Owned(waiting', stack') /\ \A x \in Hooks : Keeps(x)
    <3>1. Owned(waiting, Taken) /\ Head(stack).key # Timeout  BY <1>2, <2>3 DEF Tidy
    <3>2. \A x \in Hooks : \A p : Cell(waiting, stack, x, p) => Cell(waiting', stack', x, p)
      BY <1>4, <2>1, <3>1
    <3> QED  BY <1>7, <2>1, <3>1, <3>2 DEF Keeps, At
  <2> QED  BY <1>1, <1>7, <2>1, <2>2, <2>3, QuietStays
<1> QED  BY <1>6, <1>7 DEF CallSigRun

(* Nobody moves when an emptied cell, or a hook, is taken from a queue. *)
LEMMA SkipStays == ASSUME Sound, Alone, SkipEmptied PROVE Stays
<1>1. /\ NextCell(Emptied) /\ stack' = Taken
      /\ UNCHANGED <<co, ready, running, current, waiting, timers, hook, regs>>
  BY DEF SkipEmptied, cells
<1>2. /\ Spread(Taken) /\ Calm(Taken)
      /\ \A t : Woken(Taken, t) <=> Woken(stack, t)
      /\ \A x, p : Called(Taken, x, p) <=> Called(stack, x, p)
      /\ \A x, p : Left(stack, x, p) <=> Left(Taken, x, p) \/ (x = Emptied /\ p = SlotOf(Head(stack)))
      /\ \A w : Owned(w, stack) => Owned(w, Taken)
  BY <1>1, SoundTypes, TakenOk DEF Alone
<1>3. \A x, p : x # Emptied => (Cell(waiting', stack', x, p) <=> Cell(waiting, stack, x, p))
  BY <1>1, <1>2 DEF Cell
<1>4. \A x \in Hooks : Keeps(x)  BY <1>1, <1>2, <1>3, Names DEF Keeps, At
<1>5. \A t \in Tasks : \A p : Cell(waiting', stack', t, p) <=> Cell(waiting, stack, t, p)
  BY <1>3, Names
<1> QED  BY <1>1, <1>2, <1>4, <1>5, QuietStays DEF Tidy

(* A hook's function is called. *)
LEMMA CallHookStays == ASSUME Sound, Alone, NEW h \in Hooks, CallHook(h) PROVE Stays
<1> DEFINE f  == Head(Taken)
           u  == Tail(Taken)
           g  == [f EXCEPT !.who = h]
           p0 == SlotOf(Head(stack))
<1>1. /\ NextCell(h) /\ stack' = <<g>> \o u
      /\ UNCHANGED <<co, ready, running, current, waiting, timers, hook, regs>>
  BY DEF CallHook
<1>2. /\ Taken \in Seq(Frames) /\ Taken # <<>> /\ SlotOf(f) = p0 /\ f.who = None
      /\ Spread(Taken) /\ Calm(Taken) /\ f.key = Head(stack).key
      /\ \A t : Woken(Taken, t) <=> Woken(stack, t)
      /\ \A x, p : Called(Taken, x, p) <=> Called(stack, x, p)
      /\ \A x, p : Left(stack, x, p) <=> Left(Taken, x, p) \/ (x = h /\ p = p0)
      /\ \A w : Owned(w, stack) => Owned(w, Taken) /\ Head(stack).key # Timeout
  BY <1>1, SoundTypes, TakenOk DEF Alone, Alike
<1>3. f \in Frames /\ u \in Seq(Frames) /\ OnTop(Taken, f, u)  BY <1>2, TopOk
<1>4. /\ g \in Frames /\ Alike(g, f) /\ g.who = h /\ g.todo = f.todo /\ g.att = f.att
      /\ SlotOf(g) = SlotOf(f)
  BY <1>3 DEF Frames, Owners, Alike, SlotOf
<1> HIDE DEF f, u, g, p0
<1>5. OnTop(stack', g, u)  BY <1>1, <1>3, <1>4, OnTopOk
<1>6. g.em = f.em /\ g.ev = f.ev /\ g.key = f.key /\ g.woken = f.woken  BY <1>4 DEF Alike
<1>7. /\ \A t : Woken(stack', t) <=> Woken(stack, t)
      /\ \A x, p : Left(stack', x, p) <=> Left(Taken, x, p)
      /\ Spread(stack') /\ Calm(stack')
  BY <1>2, <1>3, <1>4, <1>5, <1>6, Names DEF OnTop
<1>8. /\ \A x \in Hooks : \A p : Called(stack, x, p) => Called(stack', x, p)
      /\ Called(stack', h, p0)
  BY <1>2, <1>3, <1>4, <1>5, Names DEF OnTop
<1>9. \A x, p : Cell(waiting, stack, x, p) <=> Cell(waiting', stack', x, p) \/ (x = h /\ p = p0)
  BY <1>1, <1>2, <1>7 DEF Cell
<1>10. \A x \in Hooks : Keeps(x)  BY <1>1, <1>8, <1>9 DEF Keeps, At
<1>11. \A t \in Tasks : \A p : Cell(waiting', stack', t, p) <=> Cell(waiting, stack, t, p)
  BY <1>9, Names
<1>12. ASSUME Orderly, Tidy PROVE Owned(waiting', stack')
  <2>1. Owned(waiting, Taken) /\ f.key # Timeout  BY <1>2, <1>12 DEF Tidy
  <2>2. Owned(waiting, u) /\ Filling(waiting, f) /\ ~Emitting(u, f.em)
    BY <1>3, <2>1 DEF OnTop
  <2>3. Filling(waiting, g)  BY <1>4, <1>6, <2>1, <2>2 DEF Filling
  <2>4. Owned(waiting, stack')  BY <1>5, <1>6, <2>2, <2>3 DEF OnTop
  <2> QED  BY <1>1, <2>4
<1> QED  BY <1>1, <1>7, <1>10, <1>11, <1>12, QuietStays

(* A hook of sigRunOnce starts its thread, if it can, and is emptied. *)
LEMMA CallSigRunOnceStays ==
    ASSUME Sound, Alone, NEW h \in Hooks, CallSigRunOnce(h) PROVE Stays
<1>1. /\ NextCell(h) /\ ClearHook(h) /\ waiting' = EmptyWaiting(waiting, h)
      /\ stack' = EmptyStack(Taken, h) /\ UNCHANGED <<running, current>>
      /\ (\E t \in Unborn : Spawn(t)) \/ UNCHANGED <<co, ready>>
  BY DEF CallSigRunOnce
<1>2. /\ Taken \in Seq(Frames)
      /\ Spread(Taken) /\ Calm(Taken)
      /\ \A t : Woken(Taken, t) <=> Woken(stack, t)
      /\ \A x, p : Called(Taken, x, p) <=> Called(stack, x, p)
      /\ \A x, p : Left(stack, x, p) <=> Left(Taken, x, p) \/ (x = h /\ p = SlotOf(Head(stack)))
      /\ \A w : Owned(w, stack) => Owned(w, Taken)
  BY <1>1, SoundTypes, TakenOk DEF Alone
<1>3. /\ Calling(stack', Taken)
      /\ \A x, p : x # Emptied => (Cell(waiting', stack', x, p) <=> Cell(waiting, Taken, x, p) /\ x # h)
      /\ Owned(waiting, Taken) => Owned(waiting', stack')
  BY <1>1, <1>2, EmptyOk
<1>4. /\ \A t : Woken(stack', t) <=> Woken(stack, t)
      /\ \A x, p : Called(stack', x, p) <=> Called(stack, x, p)
      /\ Spread(stack') /\ Calm(stack')
  BY <1>2, <1>3, CallingOk
<1>5. \A x, p : x # h => (Cell(waiting, Taken, x, p) <=> Cell(waiting, stack, x, p))
  BY <1>2 DEF Cell
<1>6. \A t \in Tasks : /\ t \in timers' <=> t \in timers
                       /\ \A p : Cell(waiting', stack', t, p) <=> Cell(waiting, stack, t, p)
  BY <1>1, <1>3, <1>5, Names DEF ClearHook
<1>7. \A x \in Hooks \ {h} : \A p : At(waiting, stack, x, p) => At(waiting', stack', x, p)
  BY <1>3, <1>4, <1>5, Names DEF At
<1>8. \A x \in Hooks : Keeps(x)  BY <1>1, <1>7, ClearKeeps
<1>9. Orderly /\ Tidy => Owned(waiting', stack')  BY <1>2, <1>3 DEF Tidy
<1>10. ASSUME NEW t0 \in Unborn, Spawn(t0) PROVE Stays
  BY <1>1, <1>4, <1>6, <1>8, <1>9, <1>10, SpawnStays DEF Spawn, Unborn
<1>11. ASSUME UNCHANGED <<co, ready>> PROVE Stays
  BY <1>1, <1>4, <1>6, <1>8, <1>9, <1>11, QuietStays
<1> QED  BY <1>1, <1>10, <1>11

(* The death of a sigRun hook's task empties its cell, and the hook if the *)
(* task killed itself.                                                     *)
LEMMA CallPropagateStays ==
    ASSUME Sound, Alone, NEW h \in Hooks, CallPropagate(h) PROVE Stays
<1>1. PICK x \in Hooks \cup {None} : x = target[h]  BY SoundTypes
<1>2. PICK dead \in {{h}, {h, x}} :
         /\ hook' = [c \in Hooks |-> IF c \in dead THEN "emptied" ELSE hook[c]]
         /\ regs' = [c \in Hooks |-> IF c \in dead THEN {} ELSE regs[c]]
         /\ timers' = timers \ dead
         /\ waiting' = IF x \in dead THEN EmptyWaiting(EmptyWaiting(waiting, h), x)
                       ELSE EmptyWaiting(waiting, h)
         /\ stack' = IF x \in dead THEN EmptyStack(EmptyStack(Taken, h), x)
                     ELSE EmptyStack(Taken, h)
  <2> DEFINE d == IF Suicide /\ hook[x] # "emptied" THEN {h, x} ELSE {h}
  <2>1. /\ hook' = [c \in Hooks |-> IF c \in d THEN "emptied" ELSE hook[c]]
        /\ regs' = [c \in Hooks |-> IF c \in d THEN {} ELSE regs[c]]
        /\ timers' = timers \ d
        /\ waiting' = IF x \in d THEN EmptyWaiting(EmptyWaiting(waiting, h), x)
                      ELSE EmptyWaiting(waiting, h)
        /\ stack' = IF x \in d THEN EmptyStack(EmptyStack(Taken, h), x)
                    ELSE EmptyStack(Taken, h)
    BY <1>1, Zenon DEF CallPropagate
  <2>2. d \in {{h}, {h, x}}  OBVIOUS
  <2> HIDE DEF d
  <2> QED  BY <2>1, <2>2
<1>3. NextCell(h) /\ UNCHANGED <<co, ready, running, current>>
  BY DEF CallPropagate
<1>4. /\ Taken \in Seq(Frames)
      /\ Spread(Taken) /\ Calm(Taken)
      /\ \A t : Woken(Taken, t) <=> Woken(stack, t)
      /\ \A y, p : Called(Taken, y, p) <=> Called(stack, y, p)
      /\ \A y, p : Left(stack, y, p) <=> Left(Taken, y, p) \/ (y = h /\ p = SlotOf(Head(stack)))
      /\ \A w : Owned(w, stack) => Owned(w, Taken)
  BY <1>3, SoundTypes, TakenOk DEF Alone
<1>5. /\ Calling(EmptyStack(Taken, h), Taken)
      /\ \A y, p : y # Emptied => (Cell(EmptyWaiting(waiting, h), EmptyStack(Taken, h), y, p)
                                     <=> Cell(waiting, Taken, y, p) /\ y # h)
      /\ Owned(waiting, Taken) => Owned(EmptyWaiting(waiting, h), EmptyStack(Taken, h))
  BY <1>4, EmptyOk
<1>6. /\ \A t : Woken(stack', t) <=> Woken(stack, t)
      /\ \A y, p : Called(stack', y, p) <=> Called(stack, y, p)
      /\ Spread(stack') /\ Calm(stack')
      /\ \A y, p : y # Emptied /\ y \notin dead =>
                     (Cell(waiting', stack', y, p) <=> Cell(waiting, Taken, y, p))
      /\ Owned(waiting, Taken) => Owned(waiting', stack')
  <2> DEFINE w == EmptyWaiting(waiting, h)
             s == EmptyStack(Taken, h)
  <2>1. /\ Calling(s, Taken)
        /\ \A y, p : y # Emptied => (Cell(w, s, y, p) <=> Cell(waiting, Taken, y, p) /\ y # h)
        /\ Owned(waiting, Taken) => Owned(w, s)
    BY <1>5
  <2>2. /\ waiting' = IF x \in dead THEN EmptyWaiting(w, x) ELSE w
        /\ stack' = IF x \in dead THEN EmptyStack(s, x) ELSE s
    BY <1>2
  <2> HIDE DEF w, s
  <2>3. /\ \A t : Woken(s, t) <=> Woken(stack, t)
        /\ \A y, p : Called(s, y, p) <=> Called(stack, y, p)
        /\ Spread(s) /\ Calm(s) /\ s \in Seq(Frames)
    BY <1>4, <2>1, CallingOk DEF Calling
  <2>4. h \in dead  BY <1>2
  <2>5. CASE x \in dead
    <3>1. waiting' = EmptyWaiting(w, x) /\ stack' = EmptyStack(s, x)  BY <2>2, <2>5
    <3>2. /\ Calling(stack', s)
          /\ \A y, p : y # Emptied => (Cell(waiting', stack', y, p) <=> Cell(w, s, y, p) /\ y # x)
          /\ Owned(w, s) => Owned(waiting', stack')
      BY <2>3, <3>1, EmptyOk
    <3>3. /\ \A t : Woken(stack', t) <=> Woken(s, t)
          /\ \A y, p : Called(stack', y, p) <=> Called(s, y, p)
          /\ Spread(stack') /\ Calm(stack')
      BY <2>3, <3>2, CallingOk
    <3> QED  BY <2>1, <2>3, <2>4, <2>5, <3>2, <3>3
  <2>6. CASE x \notin dead
    <3>1. waiting' = w /\ stack' = s  BY <2>2, <2>6
    <3> QED  BY <2>1, <2>3, <2>4, <3>1
  <2> QED  BY <2>5, <2>6
<1>7. \A t \in Tasks : t \notin dead /\ t # h  BY <1>2, Names
<1>8. \A y, p : y # h => (Cell(waiting, Taken, y, p) <=> Cell(waiting, stack, y, p))
  BY <1>4 DEF Cell
<1>9. \A t \in Tasks : /\ t \in timers' <=> t \in timers
                       /\ \A p : Cell(waiting', stack', t, p) <=> Cell(waiting, stack, t, p)
  BY <1>2, <1>6, <1>7, <1>8, Names
<1>10. \A y \in Hooks : Keeps(y)
  <2> TAKE y \in Hooks
  <2>1. CASE y \in dead
    <3>1. regs'[y] = {}  BY <1>2, <2>1
    <3> QED  BY <3>1 DEF Keeps
  <2>2. CASE y \notin dead
    <3>1. regs'[y] = regs[y] /\ hook'[y] = hook[y] /\ y # h  BY <1>2, <2>2
    <3>2. \A p : At(waiting, stack, y, p) => At(waiting', stack', y, p)
      BY <1>6, <1>8, <2>2, <3>1, Names DEF At
    <3> QED  BY <3>1, <3>2 DEF Keeps
  <2> QED  BY <2>1, <2>2
<1>11. Orderly /\ Tidy => Owned(waiting', stack')  BY <1>4, <1>6 DEF Tidy
<1> QED  BY <1>3, <1>6, <1>9, <1>10, <1>11, QuietStays

(* A blocked task is woken, by a signal or by a timer. *)
LEMMA MoveStays ==
    ASSUME Sound, Alone, NEW t0 \in Tasks, HasCell(t0), ~HasCell(t0)',
           UNCHANGED <<co, running, current>>,
           Distinct(ready'), Spread(stack'), Calm(stack'),
           InList(ready', t0) <=> ~Woken(stack', t0),
           \A t \in Tasks \ {t0} :
              /\ t \in timers' <=> t \in timers
              /\ \A p : Cell(waiting', stack', t, p) <=> Cell(waiting, stack, t, p)
              /\ Woken(stack', t) <=> Woken(stack, t)
              /\ InList(ready', t) <=> InList(ready, t),
           Orderly /\ Tidy => Owned(waiting', stack') /\ \A x \in Hooks : Keeps(x)
    PROVE  Stays
<1>1. \A t \in Tasks \ {t0} : HasCell(t)' <=> HasCell(t)  BY HasCellOk, HasCellNext
<1>2. co[t0] = "suspended"  BY DEF Alone
<1>3. ASSUME NEW t \in Tasks
      PROVE  /\ co'[t] = "active" => t = current'
             /\ InList(ready', t) => /\ co'[t] \in {"created", "suspended"}
                                     /\ ~Woken(stack', t) /\ ~HasCell(t)'
             /\ Woken(stack', t) => co'[t] = "suspended" /\ ~HasCell(t)'
             /\ HasCell(t)' => co'[t] = "suspended"
  <2>1. CASE t = t0  BY <1>2, <2>1
  <2>2. CASE t # t0  BY <1>1, <2>2 DEF Alone
  <2> QED  BY <2>1, <2>2
<1>4. Alone'  BY <1>3 DEF Alone
<1>5. ASSUME Orderly, Tidy PROVE Tidy'
  <2>1. Heard'  BY <1>5, HeardKept DEF Tidy
  <2>2. Owned(waiting', stack')  BY <1>5
  <2> QED  BY <2>1, <2>2 DEF Tidy
<1> QED  BY <1>4, <1>5 DEF Stays

(* A signal wakes a task. *)
LEMMA WakeTaskStays == ASSUME Sound, Alone, NEW t0 \in Tasks, WakeTask(t0) PROVE Stays
<1> DEFINE s == EmptyStack(Taken, t0)
           f == Head(s)
           u == Tail(s)
           g == [f EXCEPT !.woken = Append(f.woken, t0)]
<1>1. /\ NextCell(t0) /\ stack' = <<g>> \o u /\ waiting' = EmptyWaiting(waiting, t0)
      /\ timers' = timers \ {t0}
      /\ UNCHANGED <<co, ready, running, current, hook, regs>>
  BY DEF WakeTask
<1>2. /\ Taken \in Seq(Frames) /\ Taken # <<>>
      /\ Head(Taken).key = Head(stack).key
      /\ Spread(Taken) /\ Calm(Taken)
      /\ \A t : Woken(Taken, t) <=> Woken(stack, t)
      /\ \A x, p : Called(Taken, x, p) <=> Called(stack, x, p)
      /\ \A x, p : Left(stack, x, p) <=> Left(Taken, x, p) \/ (x = t0 /\ p = SlotOf(Head(stack)))
      /\ \A w : Owned(w, stack) => Owned(w, Taken) /\ Head(stack).key # Timeout
  BY <1>1, SoundTypes, TakenOk DEF Alone, Alike
<1>3. HasCell(t0)
  <2>1. Left(stack, t0, SlotOf(Head(stack)))  BY <1>2
  <2> QED  BY <2>1, HasCellOk DEF Cell
<1>4. /\ Calling(s, Taken)
      /\ \A x, p : x # Emptied => (Cell(waiting', s, x, p) <=> Cell(waiting, Taken, x, p) /\ x # t0)
      /\ Owned(waiting, Taken) => Owned(waiting', s)
  BY <1>1, <1>2, EmptyOk
<1> HIDE DEF s
<1>5. s # <<>> /\ Alike(f, Head(Taken)) /\ s \in Seq(Frames)
  BY <1>2, <1>4, CallingTail DEF Calling
<1>6. /\ \A t : Woken(s, t) <=> Woken(stack, t)
      /\ \A x, p : Called(s, x, p) <=> Called(stack, x, p)
      /\ Spread(s) /\ Calm(s)
  BY <1>2, <1>4, CallingOk
<1>7. f \in Frames /\ u \in Seq(Frames) /\ OnTop(s, f, u)  BY <1>5, TopOk
<1> HIDE DEF f, u
<1>8. f.woken \in Seq(Tasks)  BY <1>7 DEF Frames
<1>9. ~Woken(s, t0) /\ ~InList(ready, t0)  BY <1>3, <1>6 DEF Alone
<1>10. ~InList(f.woken, t0) /\ Distinct(f.woken)  BY <1>6, <1>7, <1>9 DEF OnTop
<1>11. /\ Append(f.woken, t0) \in Seq(Tasks) /\ Distinct(Append(f.woken, t0))
       /\ \A t : InList(Append(f.woken, t0), t) <=> InList(f.woken, t) \/ t = t0
  BY <1>8, <1>10, AppendIn, AppendProperties
<1>12. /\ g \in Frames /\ g.woken = Append(f.woken, t0) /\ g.who = f.who /\ g.todo = f.todo
       /\ g.em = f.em /\ g.key = f.key /\ g.ev = f.ev /\ g.att = f.att /\ SlotOf(g) = SlotOf(f)
  BY <1>7, <1>11 DEF Frames, SlotOf
<1> HIDE DEF g
<1>13. OnTop(stack', g, u)  BY <1>1, <1>7, <1>12, OnTopOk
<1>14. /\ \A t : Woken(stack', t) <=> Woken(stack, t) \/ t = t0
       /\ \A x, p : Called(stack', x, p) <=> Called(stack, x, p)
       /\ \A x, p : Left(stack', x, p) <=> Left(s, x, p)
       /\ Calm(stack')
  BY <1>6, <1>7, <1>11, <1>12, <1>13 DEF OnTop
<1>15. Spread(stack')
  BY <1>6, <1>7, <1>9, <1>11, <1>12, <1>13 DEF OnTop
<1>16. \A x, p : x # Emptied /\ x # t0 => (Cell(waiting', stack', x, p) <=> Cell(waiting, stack, x, p))
  <2>1. \A x, p : Cell(waiting', stack', x, p) <=> Cell(waiting', s, x, p)  BY <1>14 DEF Cell
  <2>2. \A x, p : x # t0 => (Cell(waiting, Taken, x, p) <=> Cell(waiting, stack, x, p))
    BY <1>2 DEF Cell
  <2> QED  BY <1>4, <2>1, <2>2
<1>17. ~HasCell(t0)'
  <2>1. \A p : ~Cell(waiting', stack', t0, p)  BY <1>4, <1>14, Names DEF Cell
  <2> QED  BY <1>1, <2>1, HasCellNext
<1>18. \A x \in Hooks : Keeps(x)  BY <1>1, <1>14, <1>16, Names DEF Keeps, At
<1>19. ASSUME Orderly, Tidy PROVE Owned(waiting', stack')
  <2>1. Owned(waiting', s) /\ f.key # Timeout
    BY <1>2, <1>4, <1>5, <1>19 DEF Tidy, Alike
  <2>2. Owned(waiting', u) /\ Filling(waiting', f) /\ ~Emitting(u, f.em)
    BY <1>7, <2>1 DEF OnTop
  <2>3. Filling(waiting', g)  BY <1>12, <2>1, <2>2 DEF Filling
  <2> QED  BY <1>12, <1>13, <2>2, <2>3 DEF OnTop
<1>20. Distinct(ready')  BY <1>1 DEF Alone
<1>21. InList(ready', t0) <=> ~Woken(stack', t0)  BY <1>1, <1>9, <1>14
<1>22. \A t \in Tasks \ {t0} :
          /\ t \in timers' <=> t \in timers
          /\ \A p : Cell(waiting', stack', t, p) <=> Cell(waiting, stack, t, p)
          /\ Woken(stack', t) <=> Woken(stack, t)
          /\ InList(ready', t) <=> InList(ready, t)
  BY <1>1, <1>14, <1>16, Names
<1> QED
  BY <1>1, <1>3, <1>14, <1>15, <1>17, <1>18, <1>19, <1>20, <1>21, <1>22, MoveStays

(* The end of a queue makes ready the tasks its call has woken, or leaves  *)
(* them to the call for the event's own queue.                             *)
LEMMA EndQueueStays == ASSUME Sound, Alone, EndQueue PROVE Stays
<1> DEFINE f == Head(stack)
           u == Tail(stack)
<1>1. UNCHANGED <<co, running, current, timers, hook, regs>>  BY DEF EndQueue, cells
<1>2. /\ f \in Frames /\ OnTop(stack, f, u)
      /\ \/ /\ ready' = ready
            /\ \A t : Woken(stack', t) <=> Woken(stack, t)
         \/ /\ ready' = ready \o f.woken
            /\ \A t : Woken(stack', t) <=> Woken(u, t)
      /\ \A x, p : Cell(waiting', stack', x, p) => Cell(waiting, stack, x, p)
      /\ Spread(stack') /\ Calm(stack')
      /\ Owned(waiting, stack) =>
            /\ Owned(waiting', stack')
            /\ \A x, p : Cell(waiting, stack, x, p) => Cell(waiting', stack', x, p)
            /\ \A h \in Hooks : \A p : Called(stack, h, p) => Called(stack', h, p)
  BY SoundTypes, EndQueueOk DEF Alone
<1> HIDE DEF f, u
<1>3. Orderly /\ Tidy => \A x \in Hooks : Keeps(x)
  BY <1>1, <1>2 DEF Tidy, Keeps, At
<1>4. CASE ready' = ready /\ \A t : Woken(stack', t) <=> Woken(stack, t)
  BY <1>1, <1>2, <1>3, <1>4, QuietStays DEF Tidy
<1>5. CASE ready' = ready \o f.woken /\ \A t : Woken(stack', t) <=> Woken(u, t)
  <2>1. f.woken \in Seq(Tasks)  BY <1>2 DEF Frames
  <2>2. /\ \A t : Woken(stack, t) <=> InList(f.woken, t) \/ Woken(u, t)
        /\ Distinct(f.woken) /\ \A t : ~(InList(f.woken, t) /\ Woken(u, t))
    BY <1>2 DEF OnTop, Alone
  <2>3. \A x : InList(f.woken, x) => x \in Tasks  BY <2>1 DEF InList
  <2>4. \A x : ~(InList(ready, x) /\ InList(f.woken, x))
    BY <2>2, <2>3 DEF Alone
  <2>5. Distinct(ready') /\ \A x : InList(ready', x) <=> InList(ready, x) \/ InList(f.woken, x)
    BY <1>5, <2>1, <2>2, <2>4, SoundTypes, ConcatIn DEF Alone
  <2>6. \A t \in Tasks : HasCell(t)' => HasCell(t)  BY <1>1, <1>2, HasCellOk, HasCellNext
  <2>7. ASSUME NEW t \in Tasks
        PROVE  /\ co'[t] = "active" => t = current'
               /\ InList(ready', t) => /\ co'[t] \in {"created", "suspended"}
                                       /\ ~Woken(stack', t) /\ ~HasCell(t)'
               /\ Woken(stack', t) => co'[t] = "suspended" /\ ~HasCell(t)'
               /\ HasCell(t)' => co'[t] = "suspended"
    <3>1. /\ co[t] = "active" => t = current
          /\ InList(ready, t) => /\ co[t] \in {"created", "suspended"}
                                 /\ ~Woken(stack, t) /\ ~HasCell(t)
          /\ Woken(stack, t) => co[t] = "suspended" /\ ~HasCell(t)
          /\ HasCell(t) => co[t] = "suspended"
      BY DEF Alone
    <3> QED  BY <1>1, <1>5, <2>2, <2>5, <2>6, <3>1
  <2>8. Alone'  BY <1>1, <1>2, <2>5, <2>7 DEF Alone
  <2>9. ASSUME Orderly, Tidy PROVE Tidy'
    <3>1. Heard'  BY <1>3, <2>9, HeardKept DEF Tidy
    <3> QED  BY <1>2, <2>9, <3>1 DEF Tidy
  <2> QED  BY <2>8, <2>9 DEF Stays
<1> QED  BY <1>2, <1>4, <1>5, SMTT(40)

(* A step of a signal in progress. *)
LEMMA ParseStepStays == ASSUME Sound, Alone, ParseStep PROVE Stays
BY SkipStays, EndQueueStays, WakeTaskStays, CallHookStays, CallSigRunStays,
   CallSigRunOnceStays, CallPropagateStays DEF ParseStep

(* Emptying a cell with no call in progress. *)
LEMMA EmptyAlone ==
    ASSUME NEW w, Table(w, Entries), NEW c
    PROVE  LET w1 == EmptyWaiting(w, c)
           IN  /\ Table(w1, Entries)
               /\ \A x, p : x # Emptied => (Cell(w1, <<>>, x, p) <=> Cell(w, <<>>, x, p) /\ x # c)
<1> DEFINE w1 == EmptyWaiting(w, c)
<1>1. Table(w1, Entries)
  <2>1. Entries \ {c} \subseteq Entries /\ Emptied \in Entries  BY DEF Entries
  <2> QED  BY <2>1, EmptyWaitingType
<1>2. DOMAIN w1 = DOMAIN w /\ \A p \in DOMAIN w : w1[p] = EmptyIn(w[p], c)
  BY DEF EmptyWaiting
<1> HIDE DEF w1
<1>3. ASSUME NEW x, x # Emptied, NEW p PROVE Queued(w1, x, p) <=> Queued(w, x, p) /\ x # c
  BY <1>2, <1>3, EmptyInIn DEF Queued
<1>4. \A x, p : x # Emptied => (Cell(w1, <<>>, x, p) <=> Cell(w, <<>>, x, p) /\ x # c)
  BY <1>3, NilOk DEF Cell
<1> QED  BY <1>1, <1>4 DEF w1

(* The loop resumes the task at the head of the ready list. *)
LEMMA ResumeStays == ASSUME Sound, Alone, Resume PROVE Stays
<1>1. stack = <<>> /\ current = None /\ ready # <<>>  BY DEF Resume, Loop
<1>2. PICK t0 \in Tasks : t0 = Head(ready)  BY <1>1, SoundTypes, TailIn
<1>3. /\ Distinct(Tail(ready)) /\ ~InList(Tail(ready), t0)
      /\ \A x : InList(ready, x) <=> x = t0 \/ InList(Tail(ready), x)
  BY <1>1, <1>2, SoundTypes, TailIn DEF Alone
<1>4. co[t0] \in {"created", "suspended"} /\ ~Woken(stack, t0) /\ ~HasCell(t0)
  BY <1>3 DEF Alone
<1>5. /\ ready' = Tail(ready) /\ running' = t0 /\ current' = t0
      /\ co' = [co EXCEPT ![t0] = "active"]
      /\ UNCHANGED <<waiting, stack, timers, hook, regs>>
  BY <1>2, <1>4 DEF Resume, cells
<1>6. \A t \in Tasks : co'[t] = IF t = t0 THEN "active" ELSE co[t]  BY <1>5, SoundTypes
<1>7. \A t : HasCell(t)' <=> HasCell(t)  BY <1>5, HasCellOk, HasCellNext
<1>8. ASSUME NEW t \in Tasks
      PROVE  /\ co'[t] = "active" => t = current'
             /\ InList(ready', t) => /\ co'[t] \in {"created", "suspended"}
                                     /\ ~Woken(stack', t) /\ ~HasCell(t)'
             /\ Woken(stack', t) => co'[t] = "suspended" /\ ~HasCell(t)'
             /\ HasCell(t)' => co'[t] = "suspended"
  <2>1. CASE t = t0  BY <1>3, <1>4, <1>5, <1>6, <1>7, <2>1
  <2>2. CASE t # t0  BY <1>1, <1>3, <1>5, <1>6, <1>7, <2>2, Names DEF Alone
  <2> QED  BY <2>1, <2>2
<1>9. Alone'  BY <1>3, <1>5, <1>6, <1>8 DEF Alone
<1>10. ASSUME Orderly, Tidy PROVE Tidy'
  <2>1. Heard'
    <3>1. \A x \in Hooks : Keeps(x)  BY <1>5 DEF Keeps
    <3> QED  BY <1>10, <3>1, HeardKept DEF Tidy
  <2>2. Owned(waiting', stack')  BY <1>5, <1>10 DEF Tidy
  <2> QED  BY <2>1, <2>2 DEF Tidy
<1> QED  BY <1>9, <1>10 DEF Stays

(* A timer wakes a task. *)
LEMMA TimerTaskStays == ASSUME Sound, Alone, NEW t0 \in Tasks, TimerTask(t0) PROVE Stays
<1>1. /\ stack = <<>> /\ stack' = <<>> /\ t0 \in timers /\ ready' = Append(ready, t0)
      /\ waiting' = EmptyWaiting(waiting, t0) /\ timers' = timers \ {t0}
      /\ UNCHANGED <<co, running, current, hook, regs>>
  BY DEF TimerTask, Loop
<1>2. \A x, p : x # Emptied => (Cell(waiting', <<>>, x, p) <=> Cell(waiting, <<>>, x, p) /\ x # t0)
  BY <1>1, SoundTypes, EmptyAlone
<1>3. HasCell(t0)  BY <1>1, HasCellOk
<1>4. ~HasCell(t0)'  BY <1>1, <1>2, HasCellNext, Names
<1>5. ~InList(ready, t0)  BY <1>3 DEF Alone
<1>6. Distinct(ready') /\ \A x : InList(ready', x) <=> InList(ready, x) \/ x = t0
  BY <1>1, <1>5, SoundTypes, AppendIn DEF Alone
<1>7. Spread(stack') /\ Calm(stack') /\ \A t : ~Woken(stack', t) /\ ~Woken(stack, t)
  BY <1>1, NilOk
<1>8. \A x \in Hooks : Keeps(x)  BY <1>1, <1>2, Names DEF Keeps, At
<1>9. Owned(waiting', stack')  BY <1>1, NilOk
<1>10. \A t \in Tasks \ {t0} :
          /\ t \in timers' <=> t \in timers
          /\ \A p : Cell(waiting', stack', t, p) <=> Cell(waiting, stack, t, p)
          /\ Woken(stack', t) <=> Woken(stack, t)
          /\ InList(ready', t) <=> InList(ready, t)
  BY <1>1, <1>2, <1>6, <1>7, Names
<1> QED  BY <1>1, <1>3, <1>4, <1>6, <1>7, <1>8, <1>9, <1>10, MoveStays

(* A timer calls a hook. *)
LEMMA TimerHookStays == ASSUME Sound, Alone, NEW h \in Hooks, TimerHook(h) PROVE Stays
<1>1. /\ stack = <<>> /\ UNCHANGED <<co, ready, running, current, waiting, timers, hook, regs>>
  BY DEF TimerHook, Loop
<1>2. PICK em \in Emitters :
         stack' = <<NewFrame(em, Timeout, FALSE, Timeout, <<>>, "none", h)>>
  BY DEF TimerHook
<1> DEFINE f == NewFrame(em, Timeout, FALSE, Timeout, <<>>, "none", h)
<1>3. f \in Frames
  <2>1. /\ Timeout \in Keys /\ Timeout \in Keys \cup {"resume"} /\ h \in Owners \cup {None}
        /\ <<>> \in Seq(Entries) /\ Entries \in SUBSET Entries
    BY Names, EmptySeq DEF Keys
  <2>2. LET g == NewFrame(em, Timeout, FALSE, Timeout, <<>>, "none", h)
        IN  g \in Frames /\ g.todo \in Seq(Entries)
    BY <2>1, NewFrameType
  <2> QED  BY <2>2
<1>4. f.key = Timeout /\ f.todo = <<>> /\ f.woken = <<>> /\ f.who = h
  BY DEF NewFrame
<1> HIDE DEF f
<1>5. stack' = <<f>> \o <<>>  BY <1>2, <1>3 DEF f
<1>6. OnTop(stack', f, <<>>)  BY <1>3, <1>5, NilOk, OnTopOk
<1>7. /\ \A t : ~Woken(stack', t)
      /\ \A x, p : ~Left(stack', x, p)
      /\ Spread(stack')
  BY <1>4, <1>6, NilOk, NilIn DEF OnTop
<1>8. Calm(stack')
  <2>1. h \notin Tasks /\ Timeout # "resume"  BY Names, EventAssumption DEF Timeout
  <2> QED  BY <1>4, <1>6, <2>1, NilOk DEF OnTop
<1>9. Owned(waiting', stack')  BY <1>4, <1>6, NilOk DEF OnTop, Filling
<1>10. \A x, p : Cell(waiting', stack', x, p) <=> Cell(waiting, stack, x, p)
  BY <1>1, <1>7, NilOk DEF Cell
<1>11. \A x \in Hooks : Keeps(x)  BY <1>1, <1>10, NilOk DEF Keeps, At
<1>12. \A t : ~Woken(stack, t)  BY <1>1, NilOk
<1> QED  BY <1>1, <1>7, <1>8, <1>9, <1>10, <1>11, <1>12, QuietStays

(* A timer starts the thread of a hook, if it can, and empties the hook. *)
LEMMA TimerRunStays == ASSUME Sound, Alone, NEW h \in Hooks, TimerRun(h) PROVE Stays
<1> DEFINE w == EmptyWaiting(waiting, h)
<1>1. /\ stack = <<>> /\ stack' = <<>> /\ UNCHANGED <<running, current>>
      /\ hook[h] \in {"run", "runonce"}
      /\ \/ \E t \in Unborn, h2 \in Unused :
               /\ Spawn(t)
               /\ hook' = [hook EXCEPT ![h] = "emptied", ![h2] = "propagate"]
               /\ regs' = [regs EXCEPT ![h] = {}, ![h2] = {<<t, Die>>}]
               /\ waiting' = Register(w, h2, {<<t, Die>>})
               /\ timers' = timers \ {h}
         \/ /\ ClearHook(h) /\ waiting' = w
            /\ (\E t \in Unborn : Spawn(t)) \/ UNCHANGED <<co, ready>>
  BY DEF TimerRun, Loop
<1>2. /\ Table(w, Entries)
      /\ \A x, p : x # Emptied => (Cell(w, <<>>, x, p) <=> Cell(waiting, <<>>, x, p) /\ x # h)
  BY SoundTypes, EmptyAlone
<1> HIDE DEF w
<1>3. Spread(stack') /\ Calm(stack') /\ Owned(waiting', stack')
      /\ \A t : ~Woken(stack', t) /\ ~Woken(stack, t)
  BY <1>1, NilOk
<1>4. ASSUME NEW t0 \in Unborn, NEW h2 \in Unused, Spawn(t0),
             hook' = [hook EXCEPT ![h] = "emptied", ![h2] = "propagate"],
             regs' = [regs EXCEPT ![h] = {}, ![h2] = {<<t0, Die>>}],
             waiting' = Register(w, h2, {<<t0, Die>>}), timers' = timers \ {h}
      PROVE  Stays
  <2>1. /\ t0 \in Tasks /\ co[t0] = "none" /\ h2 \in Hooks /\ hook[h2] = "free"
        /\ \A x, p : Cell(waiting', <<>>, x, p) <=> Cell(w, <<>>, x, p) \/ (x = h2 /\ p = <<t0, Die>>)
    <3> DEFINE w1 == Register(w, h2, {<<t0, Die>>})
    <3>1. /\ t0 \in Tasks /\ co[t0] = "none" /\ h2 \in Hooks /\ hook[h2] = "free"
          /\ \A x, p : Cell(w1, <<>>, x, p) <=> Cell(w, <<>>, x, p) \/ (x = h2 /\ p = <<t0, Die>>)
      BY <1>2, BornOk
    <3>2. waiting' = w1  BY <1>4
    <3> HIDE DEF w1
    <3> QED  BY <3>1, <3>2
  <2>2. h # h2  BY <1>1, <2>1
  <2>3. \A t \in Tasks : /\ t \in timers' <=> t \in timers
                         /\ \A p : Cell(waiting', stack', t, p) <=> Cell(waiting, stack, t, p)
    BY <1>1, <1>2, <1>4, <2>1, Names
  <2>4. \A x \in Hooks : Keeps(x)
    <3> TAKE x \in Hooks
    <3>1. CASE x = h
      <4>1. regs'[x] = {}  BY <1>4, <2>1, <2>2, <3>1, SoundTypes
      <4> QED  BY <4>1 DEF Keeps
    <3>2. CASE x = h2
      <4>1. hook'[x] = "propagate" /\ regs'[x] = {<<t0, Die>>}
        BY <1>4, <2>1, <2>2, <3>2, SoundTypes
      <4> QED  BY <1>1, <2>1, <3>2, <4>1 DEF Keeps, At
    <3>3. CASE x # h /\ x # h2
      <4>1. hook'[x] = hook[x] /\ regs'[x] = regs[x]  BY <1>4, <3>3, SoundTypes
      <4> QED  BY <1>1, <1>2, <2>1, <3>3, <4>1, Names DEF Keeps, At
    <3> QED  BY <3>1, <3>2, <3>3
  <2> QED  BY <1>1, <1>3, <1>4, <2>1, <2>3, <2>4, SpawnStays DEF Spawn
<1>5. ASSUME ClearHook(h), waiting' = w
      PROVE  /\ \A x \in Hooks : Keeps(x)
             /\ \A t \in Tasks : t \in timers' <=> t \in timers
             /\ \A t \in Tasks : \A p :
                   Cell(waiting', stack', t, p) <=> Cell(waiting, stack, t, p)
  <2>1. \A x \in Hooks \ {h} : \A p : At(waiting, stack, x, p) => At(waiting', stack', x, p)
    BY <1>1, <1>2, <1>5, Names DEF At
  <2>2. \A x \in Hooks : Keeps(x)  BY <1>5, <2>1, ClearKeeps
  <2>3. \A t \in Tasks : t \in timers' <=> t \in timers  BY <1>5, Names DEF ClearHook
  <2> QED  BY <1>1, <1>2, <1>5, <2>2, <2>3, Names
<1>6. ASSUME ClearHook(h), waiting' = w, NEW t0 \in Unborn, Spawn(t0) PROVE Stays
  <2>1. t0 \in Tasks /\ co[t0] = "none"  BY DEF Unborn
  <2> QED  BY <1>1, <1>3, <1>5, <1>6, <2>1, SpawnStays DEF Spawn
<1>7. ASSUME ClearHook(h), waiting' = w, UNCHANGED <<co, ready>> PROVE Stays
  BY <1>1, <1>3, <1>5, <1>7, QuietStays
<1> QED  BY <1>1, <1>4, <1>6, <1>7

(* The steps of the loop. *)
LEMMA LoopStepStays == ASSUME Sound, Alone, LoopStep PROVE Stays
<1>1. ASSUME StartLoop \/ TimersDone \/ SelectDone PROVE Stays
  <2>1. UNCHANGED <<co, ready, running, current, waiting, stack, timers, hook, regs>>
    BY <1>1 DEF StartLoop, TimersDone, SelectDone, cells
  <2>2. \A x \in Hooks : Keeps(x)  BY <2>1 DEF Keeps
  <2>3. Spread(stack') /\ Calm(stack')  BY <2>1 DEF Alone
  <2> QED  BY <2>1, <2>2, <2>3, QuietStays DEF Tidy
<1>2. CASE StepDone
  <2>1. /\ current = None /\ UNCHANGED <<co, ready, current, stack, timers, hook, regs>>
        /\ waiting' = Collected(waiting, stack) \/ waiting' = waiting
    BY <1>2 DEF StepDone, Loop
  <2>2. CASE waiting' = Collected(waiting, stack)  BY <2>1, <2>2, GcStays
  <2>3. CASE waiting' = waiting
    <3>1. \A x \in Hooks : Keeps(x)  BY <2>1, <2>3 DEF Keeps
    <3>2. Spread(stack') /\ Calm(stack')  BY <2>1 DEF Alone
    <3> QED  BY <2>1, <2>3, <3>1, <3>2, QuietStays DEF Tidy
  <2> QED  BY <2>1, <2>2, <2>3
<1>3. ASSUME NEW em \in Objects, NEW ev \in Events, LoopSignal(em, ev) PROVE Stays
  <2>1. em \in Emitters /\ ev \in Keys /\ ev # Timeout
    BY EventAssumption DEF Emitters, Keys
  <2>2. /\ stack = <<>> /\ Emit(em, ev, FALSE, waiting, stack)
        /\ UNCHANGED <<co, ready, running, current, timers, hook, regs>>
    BY <1>3 DEF LoopSignal, Loop, cells
  <2>3. ~Emitting(stack, em)  BY <2>2, NilOk
  <2> QED  BY <2>1, <2>2, <2>3, EmitStays
<1> QED
  BY <1>1, <1>2, <1>3, ResumeStays, TimerTaskStays, TimerHookStays, TimerRunStays DEF LoopStep

-----------------------------------------------------------------------------
(* The invariant *)

(* No step of the program loses its place. *)
LEMMA NextStays == ASSUME Sound, Placed, Careful, [Next]_vars PROVE Placed'
<1>1. Alone  BY DEF Placed
<1>2. CASE UNCHANGED vars
  <2>1. UNCHANGED <<co, ready, running, current, waiting, stack, timers, hook, regs>>
    BY <1>2 DEF vars
  <2>2. \A x \in Hooks : Keeps(x)  BY <2>1 DEF Keeps
  <2>3. Spread(stack') /\ Calm(stack')  BY <1>1, <2>1 DEF Alone
  <2>4. Stays  BY <1>1, <2>1, <2>2, <2>3, QuietStays DEF Tidy
  <2> QED  BY <2>4 DEF Stays, Placed
<1>3. CASE Next
  <2>1. Stays
    BY <1>1, <1>3, TaskCallStays, AnyCallStays, HookCallStays, ParseStepStays, LoopStepStays
    DEF Next
  <2> QED  BY <2>1 DEF Stays, Placed
<1> QED  BY <1>2, <1>3

(* Nobody is anywhere before the program starts. *)
LEMMA InitPlaced == ASSUME Init PROVE Placed
<1>1. /\ ready = <<>> /\ stack = <<>> /\ current = None /\ timers = {}
      /\ waiting = [p \in {} |-> <<>>]
      /\ co = [t \in Tasks |-> "none"] /\ regs = [h \in Hooks |-> {}]
  BY DEF Init
<1>2. DOMAIN waiting = {}  BY <1>1
<1>3. \A x, p : ~Cell(waiting, stack, x, p)  BY <1>1, <1>2, NilOk DEF Cell, Queued
<1>4. \A x : ~HasCell(x)  BY <1>1, <1>3, HasCellOk
<1>5. Alone
  <2>1. \A t \in Tasks : co[t] = "none"  BY <1>1
  <2> QED  BY <1>1, <1>4, <2>1, NilOk, NilIn DEF Alone
<1>6. Tidy  BY <1>1, NilOk DEF Tidy, Heard
<1> QED  BY <1>5, <1>6 DEF Placed

(* A task is in one place at most, and in a program where no signal is     *)
(* sent again while it is processed, no hook is ever lost                  *)
(* (sched/init.lua:88-95, 281-310, 431-487).                               *)
THEOREM PlacedInvariant == ASSUME Careful PROVE Spec => []Placed
<1>1. Init => Placed  BY InitPlaced
<1>2. Sound /\ Placed /\ [Next]_vars => Placed'  BY NextStays
<1> QED  BY <1>1, <1>2, SoundInvariant, PTL DEF Spec

(* What is in a list is counted. *)
LEMMA CountIn ==
    ASSUME NEW S, NEW q \in Seq(S), NEW c, InList(q, c)
    PROVE  Count(q, c) > 0
<1> DEFINE I == {i \in DOMAIN q : q[i] = c}
<1>1. Len(q) \in Nat /\ DOMAIN q = 1 .. Len(q)  BY LenProperties
<1>2. IsFiniteSet(1 .. Len(q))  BY <1>1, FS_Interval
<1>3. I \in SUBSET (1 .. Len(q)) /\ I # {}  BY <1>1 DEF InList
<1> HIDE DEF I
<1>4. IsFiniteSet(I)  BY <1>2, <1>3, FS_Subset
<1>5. Cardinality(I) \in Nat /\ Cardinality(I) # 0
  BY <1>3, <1>4, FS_CardinalityType, FS_EmptySet
<1>6. Cardinality(I) > 0  BY <1>5
<1> QED  BY <1>6 DEF Count, I

(* A registered hook misses no signal: it is in the queue of each of its   *)
(* slots, or it is left to call, or being called, by a signal that is      *)
(* processing that slot (sched/init.lua:236 "hooks won't miss an signal"). *)
THEOREM HooksHear == ASSUME Orderly PROVE Spec => []HooksNotMissed
<1>1. Sound /\ Placed => HooksNotMissed
  <2> SUFFICES ASSUME Sound, Placed, NEW h \in Hooks, NEW p \in regs[h]
               PROVE  \/ p \in DOMAIN waiting /\ Count(waiting[p], h) > 0
                      \/ \E j \in DOMAIN stack :
                            /\ <<stack[j].em, stack[j].key>> = p
                            /\ Count(stack[j].todo, h) > 0 \/ stack[j].who = h
    BY DEF HooksNotMissed
  <2>1. At(waiting, stack, h, p)  BY DEF Placed, Tidy, Heard
  <2>2. Table(waiting, Entries) /\ stack \in Seq(Frames)  BY SoundTypes
  <2>3. CASE Queued(waiting, h, p)
    <3>1. p \in DOMAIN waiting /\ InList(waiting[p], h)  BY <2>3 DEF Queued
    <3>2. waiting[p] \in Seq(Entries)  BY <2>2, <3>1 DEF Table
    <3> QED  BY <3>1, <3>2, CountIn
  <2>4. CASE Left(stack, h, p)
    <3>1. PICK j \in DOMAIN stack : SlotOf(stack[j]) = p /\ InList(stack[j].todo, h)
      BY <2>4 DEF Left
    <3>2. stack[j] \in Frames  BY <2>2
    <3>3. stack[j].todo \in Seq(Entries)  BY <3>2 DEF Frames
    <3>4. Count(stack[j].todo, h) > 0  BY <3>1, <3>3, CountIn
    <3> QED  BY <3>1, <3>4 DEF SlotOf
  <2>5. CASE Called(stack, h, p)
    <3>1. PICK j \in DOMAIN stack : SlotOf(stack[j]) = p /\ stack[j].who = h
      BY <2>5 DEF Called
    <3> QED  BY <3>1 DEF SlotOf
  <2> QED  BY <2>1, <2>3, <2>4, <2>5 DEF At, Cell
<1>2. Careful  BY DEF Orderly
<1> QED  BY <1>1, <1>2, PlacedInvariant, SoundInvariant, PTL

-----------------------------------------------------------------------------
(* The death of a task is signalled once, when it dies *)

\* No call is added to the stack s.
Flat(s) == Len(stack') <= Len(s)

\* A call is added, but not for the death of a task, or a task does die.
Dies == \/ Flat(stack)
        \/ Head(stack').em \notin Tasks
        \/ Head(stack').ev # Die
        \/ co[Head(stack').em] # "dead" /\ co'[Head(stack').em] = "dead"

(* The same calls as a stack no longer than the present one are flat. *)
LEMMA CallingFlat ==
    ASSUME stack \in Seq(Frames), NEW s \in Seq(Frames), Len(s) <= Len(stack), Calling(stack', s)
    PROVE  Flat(stack)
<1>1. Len(stack') = Len(s)  BY CallingLen
<1>2. Len(stack) \in Nat /\ Len(s) \in Nat  BY LenProperties
<1> QED  BY <1>1 DEF Flat

(* A stack, with another call on top of those under the innermost. *)
LEMMA OtherTop ==
    ASSUME NEW s \in Seq(Frames), s # <<>>, NEW f \in Frames
    PROVE  /\ Len(<<f>> \o Tail(s)) = Len(s) /\ Len(Tail(s)) <= Len(s) /\ Len(s) \in Nat
           /\ Tail(s) \in Seq(Frames) /\ <<f>> \o Tail(s) \in Seq(Frames)
<1> DEFINE u == Tail(s)
<1>1. Head(s) \in Frames /\ u \in Seq(Frames) /\ s = <<Head(s)>> \o u  BY TopOk
<1> HIDE DEF u
<1>2. Len(s) = Len(u) + 1 /\ Len(u) \in Nat  BY <1>1, Consed
<1>3. Len(<<f>> \o u) = Len(u) + 1 /\ <<f>> \o u \in Seq(Frames)  BY <1>1, Consed
<1>4. Len(u) <= Len(s) /\ Len(s) \in Nat  BY <1>2
<1> QED  BY <1>1, <1>2, <1>3, <1>4 DEF u

(* Taking a cell from the innermost call adds none. *)
LEMMA TakenFlat ==
    ASSUME stack \in Seq(Frames), NEW c, NextCell(c)
    PROVE  Len(Taken) = Len(stack) /\ Taken \in Seq(Frames) /\ Len(stack) \in Nat
<1>1. /\ stack # <<>> /\ Taken \in Seq(Frames) /\ Taken # <<>>
      /\ Head(Taken) \in Frames /\ Tail(Taken) = Tail(stack)
  BY TakenOk
<1>2. Taken = <<Head(Taken)>> \o Tail(stack)  BY <1>1, TopOk
<1>3. Len(<<Head(Taken)>> \o Tail(stack)) = Len(stack) /\ Len(stack) \in Nat
  BY <1>1, OtherTop
<1> QED  BY <1>1, <1>2, <1>3

(* signal() adds a call for its emitter, or none. *)
LEMMA EmitTop ==
    ASSUME NEW em \in Emitters, NEW ev \in Keys, NEW slain \in BOOLEAN,
           NEW w, Table(w, Entries), NEW s \in Seq(Frames), Emit(em, ev, slain, w, s)
    PROVE  stack' = s \/ Head(stack').em = em
<1> DEFINE queues == {k \in {Star, ev} : <<em, k>> \in DOMAIN w}
           key == IF Star \in queues THEN Star ELSE ev
           p == <<em, key>>
           f == NewFrame(em, ev, slain, key, w[p], "queue", None)
           d == Displace(s, p, w[p])
<1>1. CASE queues = {}  BY <1>1 DEF Emit
<1>2. CASE queues # {}
  <2>1. p \in DOMAIN w /\ key \in Keys  BY <1>2 DEF Keys, Star
  <2>2. w[p] \in Seq(Entries)  BY <2>1 DEF Table
  <2>3. stack' = <<f>> \o d  BY <1>2 DEF Emit
  <2>4. f \in Frames
    <3>1. Entries \in SUBSET Entries /\ None \in Owners \cup {None} /\ key \in Keys \cup {"resume"}
      BY <2>1
    <3> HIDE DEF key, f
    <3>2. LET g == NewFrame(em, ev, slain, key, w[p], "queue", None)
          IN  g \in Frames /\ g.todo \in Seq(Entries)
      BY <2>2, <3>1, NewFrameType
    <3> QED  BY <3>2 DEF f
  <2>5. f.em = em  BY DEF NewFrame
  <2> HIDE DEF f
  <2>6. d \in Seq(Frames)
    <3>1. Calling(d, s)  BY DisplaceOk
    <3> QED  BY <3>1 DEF Calling
  <2> HIDE DEF d
  <2>7. Head(stack') = f  BY <2>3, <2>4, <2>6, Consed
  <2> QED  BY <2>5, <2>7
<1> QED  BY <1>1, <1>2

(* The death of a task is signalled when it returns, fails or is killed. *)
LEMMA EndDies ==
    ASSUME Sound, Alone, Actor \in Tasks, NEW slain \in BOOLEAN, End(slain)
    PROVE  Dies
<1>1. PICK t0 \in Tasks : t0 = Actor  OBVIOUS
<1>2. stack = <<>> /\ co[t0] = "active"  BY <1>1, ActorAlone
<1>3. co' = [co EXCEPT ![t0] = "dead"] /\ Emit(t0, Die, slain, waiting, stack)
  BY <1>1, <1>2 DEF End
<1>4. t0 \in Emitters /\ Die \in Keys /\ Table(waiting, Entries) /\ stack \in Seq(Frames)
  BY Names, SoundTypes
<1>5. stack' = stack \/ Head(stack').em = t0  BY <1>3, <1>4, EmitTop
<1>6. co'[t0] = "dead"  BY <1>3, SoundTypes
<1>7. Len(stack) \in Nat  BY <1>4, LenProperties
<1> QED  BY <1>2, <1>5, <1>6, <1>7 DEF Dies, Flat

(* A task that goes on blocks with no call in progress. *)
LEMMA TaskCallDies == ASSUME Sound, Alone, TaskCall PROVE Dies
<1>0. Len(stack) \in Nat  BY SoundTypes, LenProperties
<1>1. CASE Finish  BY <1>1, EndDies DEF Finish
<1>2. CASE WaitFails  BY <1>2, EndDies DEF WaitFails
<1>3. ASSUME NEW w, Suspend(w), Actor \in Tasks PROVE Dies
  <2>1. stack = <<>>  BY <1>3, ActorAlone
  <2>2. stack' = stack  BY <1>3, <2>1 DEF Suspend
  <2> QED  BY <1>0, <2>2 DEF Dies, Flat
<1>4. CASE Yield  BY <1>3, <1>4 DEF Yield
<1>5. ASSUME NEW em \in Known, NEW evs \in Lists(em), Wait(em, evs) PROVE Dies
  BY <1>3, <1>5 DEF Wait, Block
<1>6. ASSUME NEW ems, NEW evs, MultiWait(ems, evs) PROVE Dies
  BY <1>3, <1>6 DEF MultiWait, Block
<1> QED  BY <1>1, <1>2, <1>4, <1>5, <1>6 DEF TaskCall

(* The end of a hook's function leaves as many calls, or one less. *)
LEMMA HookReturnsFlat ==
    ASSUME Sound, Actor \in Hooks, NEW killed \in BOOLEAN, HookReturns(killed, waiting)
    PROVE  Flat(stack)
<1> DEFINE f == Head(stack)
           u == Tail(stack)
           g == [f EXCEPT !.who = None]
           s == <<g>> \o u
<1>0. stack \in Seq(Frames) /\ Table(waiting, Entries)  BY SoundTypes
<1>1. stack # <<>> /\ f \in Frames /\ f.who \in Hooks  BY ActorType DEF Actor
<1>2. g \in Frames  BY <1>1 DEF Frames
<1>3. \/ \E h : stack' = EmptyStack(u, h) \/ stack' = EmptyStack(s, h)
      \/ \E c : Reattach(c, waiting, s) /\ (c = Emptied \/ c = f.who)
  <2>1. \/ stack' = EmptyStack(u, f.who) \/ stack' = EmptyStack(s, f.who)
        \/ Reattach(IF hook[f.who] = "emptied" THEN Emptied ELSE f.who, waiting, s)
    BY DEF HookReturns
  <2> HIDE DEF f, u, s
  <2> QED  BY <2>1
<1> HIDE DEF f, g, u
<1>4. /\ s \in Seq(Frames) /\ u \in Seq(Frames)
      /\ Len(s) = Len(stack) /\ Len(u) <= Len(stack) /\ Len(stack) \in Nat
  BY <1>0, <1>1, <1>2, OtherTop DEF u
<1>5. s # <<>>  BY <1>2, <1>4, Consed
<1> HIDE DEF s
<1>6. Len(s) <= Len(stack)  BY <1>4
<1>7. ASSUME NEW h, stack' = EmptyStack(u, h) \/ stack' = EmptyStack(s, h) PROVE Flat(stack)
  <2>1. Calling(EmptyStack(u, h), u)  BY <1>4, EmptyOk
  <2>2. Calling(EmptyStack(s, h), s)  BY <1>4, EmptyOk
  <2> QED  BY <1>0, <1>4, <1>6, <1>7, <2>1, <2>2, CallingFlat
<1>8. ASSUME NEW c, Reattach(c, waiting, s), c = Emptied \/ c = f.who PROVE Flat(stack)
  <2>1. c \in Entries  BY <1>1, <1>8, Names
  <2>2. Calling(stack', s)  BY <1>0, <1>4, <1>5, <1>8, <2>1, ReattachOk
  <2> QED  BY <1>0, <1>4, <1>6, <2>2, CallingFlat
<1> QED  BY <1>3, <1>7, <1>8

(* Of the calls made by tasks and hooks alike, kill() makes a task die. *)
LEMMA AnyCallDies == ASSUME Sound, Alone, Careful, AnyCall PROVE Dies
<1>0. Table(waiting, Entries) /\ stack \in Seq(Frames) /\ Len(stack) \in Nat
  BY SoundTypes, LenProperties
<1>1. ASSUME stack' = stack PROVE Dies  BY <1>0, <1>1 DEF Dies, Flat
<1>2. ASSUME NEW em \in Objects, NEW ev \in Events, Signal(em, ev) PROVE Dies
  <2>1. em \in Emitters /\ ev \in Keys  BY DEF Emitters, Keys
  <2>2. Emit(em, ev, FALSE, waiting, stack)  BY <1>2 DEF Signal
  <2>3. stack' = stack \/ Head(stack').em = em  BY <1>0, <2>1, <2>2, EmitTop
  <2>4. em \notin Tasks  BY IdAssumption
  <2> QED  BY <1>1, <2>3, <2>4 DEF Dies
<1>3. CASE KillSelf
  <2>1. CASE Actor \in Tasks  BY <1>3, <2>1, EndDies DEF KillSelf
  <2>2. CASE Actor \notin Tasks
    <3>1. Actor \in Hooks
      BY <1>3, <2>2, ActorType DEF KillSelf, May, Owners
    <3>2. HookReturns(TRUE, waiting)  BY <1>3, <2>2 DEF KillSelf
    <3> QED  BY <3>1, <3>2, HookReturnsFlat DEF Dies
  <2> QED  BY <2>1, <2>2
<1>4. ASSUME NEW t0 \in Tasks, KillSuspended(t0) PROVE Dies
  <2> DEFINE w1 == EmptyWaiting(waiting, t0)
             s1 == EmptyStack(stack, t0)
  <2>1. /\ co[t0] = "suspended" /\ co' = [co EXCEPT ![t0] = "dead"]
        /\ Emit(t0, Die, FALSE, w1, s1)
    BY <1>4 DEF KillSuspended
  <2>2. Calling(s1, stack)  BY <1>0, EmptyOk
  <2>3. Table(w1, Entries)
    <3>1. Entries \ {t0} \subseteq Entries /\ Emptied \in Entries  BY DEF Entries
    <3> QED  BY <1>0, <3>1, EmptyWaitingType
  <2> HIDE DEF w1, s1
  <2>4. s1 \in Seq(Frames) /\ t0 \in Emitters /\ Die \in Keys  BY <2>2, Names DEF Calling
  <2>5. stack' = s1 \/ Head(stack').em = t0  BY <2>1, <2>3, <2>4, EmitTop
  <2>6. Len(s1) = Len(stack)  BY <1>0, <2>2, CallingLen
  <2>7. co'[t0] = "dead"  BY <2>1, SoundTypes
  <2>8. CASE stack' = s1  BY <1>0, <2>6, <2>8 DEF Dies, Flat
  <2>9. CASE Head(stack').em = t0  BY <2>1, <2>7, <2>9 DEF Dies
  <2> QED  BY <2>5, <2>8, <2>9
<1>5. ASSUME NEW x \in Tasks, KillNew(x) \/ KillGone(x) PROVE Dies
  <2>1. May("killnew") \/ May("killgone")  BY <1>5 DEF KillNew, KillGone, MayKill
  <2> QED  BY <2>1 DEF May, Careful
<1>6. ASSUME NEW h \in Hooks, KillHook(h) PROVE Dies
  <2>1. stack' = EmptyStack(stack, h)  BY <1>6 DEF KillHook
  <2>2. Calling(stack', stack)  BY <1>0, <2>1, EmptyOk
  <2> QED  BY <1>0, <2>2, CallingFlat DEF Dies
<1>7. ASSUME NEW t0 \in Tasks, Run(t0) PROVE Dies  BY <1>1, <1>7 DEF Run
<1>8. ASSUME NEW h \in Hooks, NEW kind \in {"hook", "once", "run", "runonce"},
             NEW em \in Known, NEW evs \in Lists(em), SigHook(h, kind, em, evs)
      PROVE  Dies
  BY <1>1, <1>8 DEF SigHook
<1>9. CASE Gc  BY <1>1, <1>9 DEF Gc
<1> QED  BY <1>2, <1>3, <1>4, <1>5, <1>6, <1>7, <1>8, <1>9 DEF AnyCall

(* The end of a queue adds no call. *)
LEMMA EndQueueFlat == ASSUME Sound, EndQueue PROVE Flat(stack)
<1>0. Table(waiting, Entries) /\ stack \in Seq(Frames)  BY SoundTypes
<1> QED  BY <1>0, EndQueueOk DEF Flat

(* A step of a signal adds no call. *)
LEMMA ParseStepFlat == ASSUME Sound, ParseStep PROVE Flat(stack)
<1>0. Table(waiting, Entries) /\ stack \in Seq(Frames)  BY SoundTypes
<1>1. CASE SkipEmptied
  <2>1. NextCell(Emptied) /\ stack' = Taken  BY <1>1 DEF SkipEmptied
  <2>2. Len(Taken) = Len(stack) /\ Len(stack) \in Nat  BY <1>0, <2>1, TakenFlat
  <2> QED  BY <2>1, <2>2 DEF Flat
<1>2. ASSUME NEW t \in Tasks, WakeTask(t) PROVE Flat(stack)
  <2> DEFINE s == EmptyStack(Taken, t)
             f == Head(s)
             g == [f EXCEPT !.woken = Append(f.woken, t)]
  <2>1. NextCell(t) /\ stack' = <<g>> \o Tail(s)  BY <1>2 DEF WakeTask
  <2>2. Len(Taken) = Len(stack) /\ Taken \in Seq(Frames) /\ Len(stack) \in Nat
    BY <1>0, <2>1, TakenFlat
  <2>3. Calling(s, Taken) /\ Taken # <<>>  BY <1>0, <2>1, <2>2, EmptyOk, TakenOk
  <2> HIDE DEF s
  <2>4. s \in Seq(Frames) /\ s # <<>> /\ Len(s) = Len(Taken)
    BY <2>2, <2>3, CallingLen, CallingTail DEF Calling
  <2>5. g \in Frames
    <3>1. f \in Frames  BY <2>4, TopOk
    <3> HIDE DEF f
    <3>2. Append(f.woken, t) \in Seq(Tasks)  BY <3>1, AppendProperties DEF Frames
    <3> QED  BY <3>1, <3>2 DEF Frames
  <2> HIDE DEF g
  <2>6. Len(<<g>> \o Tail(s)) = Len(s)  BY <2>4, <2>5, OtherTop
  <2> QED  BY <2>1, <2>2, <2>4, <2>6 DEF Flat
<1>3. ASSUME NEW h \in Hooks, CallHook(h) PROVE Flat(stack)
  <2> DEFINE g == [Head(Taken) EXCEPT !.who = h]
  <2>1. NextCell(h) /\ stack' = <<g>> \o Tail(Taken)  BY <1>3 DEF CallHook
  <2>2. Len(Taken) = Len(stack) /\ Taken \in Seq(Frames) /\ Len(stack) \in Nat
    BY <1>0, <2>1, TakenFlat
  <2>3. Taken # <<>> /\ Head(Taken) \in Frames  BY <1>0, <2>1, TakenOk
  <2>4. g \in Frames  BY <2>3 DEF Frames, Owners
  <2> HIDE DEF g
  <2>5. Len(<<g>> \o Tail(Taken)) = Len(Taken)  BY <2>2, <2>3, <2>4, OtherTop
  <2> QED  BY <2>1, <2>2, <2>5 DEF Flat
<1>4. ASSUME NEW h \in Hooks, CallSigRun(h) PROVE Flat(stack)
  <2>1. NextCell(h) /\ \E w : Table(w, Entries) /\ Reattach(h, w, Taken)
    <3>1. \/ \E t \in Unborn, h2 \in Unused : Reattach(h, Register(waiting, h2, {<<t, Die>>}), Taken)
          \/ Reattach(h, waiting, Taken)
      BY <1>4 DEF CallSigRun
    <3>2. ASSUME NEW t \in Unborn, NEW h2 \in Unused
          PROVE  Table(Register(waiting, h2, {<<t, Die>>}), Entries)
      <4>1. t \in Tasks /\ h2 \in Hooks  BY DEF Unborn, Unused
      <4>2. {<<t, Die>>} \in SUBSET Slots /\ h2 \in Entries  BY <4>1, Names DEF Slots
      <4> HIDE DEF Die
      <4> QED  BY <1>0, <4>2, RegisterType
    <3> QED  BY <1>0, <1>4, <3>1, <3>2 DEF CallSigRun
  <2>2. PICK w : Table(w, Entries) /\ Reattach(h, w, Taken)  BY <2>1
  <2>3. Len(Taken) = Len(stack) /\ Taken \in Seq(Frames) /\ Len(stack) \in Nat
    BY <1>0, <2>1, TakenFlat
  <2>4. Taken # <<>> /\ h \in Entries /\ h # Emptied  BY <1>0, <2>1, TakenOk, Names
  <2>5. Calling(stack', Taken)  BY <2>2, <2>3, <2>4, ReattachOk
  <2> QED  BY <1>0, <2>3, <2>5, CallingFlat
<1>5. ASSUME NEW h \in Hooks, CallSigRunOnce(h) PROVE Flat(stack)
  <2>1. NextCell(h) /\ stack' = EmptyStack(Taken, h)  BY <1>5 DEF CallSigRunOnce
  <2>2. Len(Taken) = Len(stack) /\ Taken \in Seq(Frames) /\ Len(stack) \in Nat
    BY <1>0, <2>1, TakenFlat
  <2>3. Calling(stack', Taken)  BY <2>1, <2>2, EmptyOk
  <2> QED  BY <1>0, <2>2, <2>3, CallingFlat
<1>6. ASSUME NEW h \in Hooks, CallPropagate(h) PROVE Flat(stack)
  <2> DEFINE s == EmptyStack(Taken, h)
  <2>1. NextCell(h) /\ (stack' = s \/ \E x : stack' = EmptyStack(s, x))
    BY <1>6 DEF CallPropagate
  <2>2. Len(Taken) = Len(stack) /\ Taken \in Seq(Frames) /\ Len(stack) \in Nat
    BY <1>0, <2>1, TakenFlat
  <2>3. Calling(s, Taken)  BY <2>2, EmptyOk
  <2> HIDE DEF s
  <2>4. s \in Seq(Frames) /\ Len(s) = Len(stack)  BY <2>2, <2>3, CallingLen DEF Calling
  <2>5. ASSUME NEW x, stack' = EmptyStack(s, x) PROVE Flat(stack)
    <3>1. Calling(stack', s)  BY <2>4, <2>5, EmptyOk
    <3> QED  BY <1>0, <2>2, <2>4, <3>1, CallingFlat
  <2> QED  BY <2>1, <2>2, <2>4, <2>5 DEF Flat
<1> QED
  BY <1>1, <1>2, <1>3, <1>4, <1>5, <1>6, EndQueueFlat DEF ParseStep

(* The steps of the loop that add a call do not signal a death. *)
LEMMA LoopStepDies == ASSUME Sound, Alone, LoopStep PROVE Dies
<1>0. Table(waiting, Entries) /\ stack \in Seq(Frames) /\ Len(stack) \in Nat
  BY SoundTypes, LenProperties
<1>1. ASSUME stack' = stack PROVE Dies  BY <1>0, <1>1 DEF Dies, Flat
<1>2. CASE StartLoop \/ TimersDone \/ SelectDone \/ StepDone
  BY <1>1, <1>2 DEF StartLoop, TimersDone, SelectDone, StepDone
<1>3. CASE Resume
  <2>1. ready # <<>>  BY <1>3 DEF Resume
  <2>2. PICK t0 \in Tasks : t0 = Head(ready)  BY <2>1, SoundTypes, TailIn
  <2>3. InList(ready, t0)  BY <2>1, <2>2, SoundTypes, TailIn
  <2>4. co[t0] # "dead"  BY <2>3 DEF Alone
  <2>5. stack' = stack  BY <1>3, <2>2, <2>4 DEF Resume
  <2> QED  BY <1>1, <2>5
<1>4. ASSUME NEW t \in Tasks, TimerTask(t) PROVE Dies  BY <1>1, <1>4 DEF TimerTask
<1>5. ASSUME NEW h \in Hooks, TimerRun(h) PROVE Dies  BY <1>1, <1>5 DEF TimerRun
<1>6. ASSUME NEW h \in Hooks, TimerHook(h) PROVE Dies
  <2>1. PICK em \in Emitters :
           stack' = <<NewFrame(em, Timeout, FALSE, Timeout, <<>>, "none", h)>>
    BY <1>6 DEF TimerHook
  <2>2. Head(stack').ev = Timeout  BY <2>1 DEF NewFrame
  <2> QED  BY <2>2, Names DEF Dies
<1>7. ASSUME NEW em \in Objects, NEW ev \in Events, LoopSignal(em, ev) PROVE Dies
  <2>1. em \in Emitters /\ ev \in Keys  BY DEF Emitters, Keys
  <2>2. Emit(em, ev, FALSE, waiting, stack)  BY <1>7 DEF LoopSignal
  <2>3. stack' = stack \/ Head(stack').em = em  BY <1>0, <2>1, <2>2, EmitTop
  <2>4. em \notin Tasks  BY IdAssumption
  <2> QED  BY <1>1, <2>3, <2>4 DEF Dies
<1> QED  BY <1>2, <1>3, <1>4, <1>5, <1>6, <1>7 DEF LoopStep

(* A signal of the death of a task starts when the task dies, and only     *)
(* then: it is not repeated for a task that is dead, nor sent for one that *)
(* lives (sched/init.lua:306, 447-456, 1099-1121).                         *)
THEOREM OneDeath == ASSUME Careful PROVE Spec => DieAtDeath
<1>1. ASSUME Sound, Placed, Sound', [Next]_vars
      PROVE  [\A t \in Tasks : DieStarts(t) => co[t] # "dead" /\ co'[t] = "dead"]_vars
  <2> SUFFICES ASSUME Next, NEW t \in Tasks, DieStarts(t)
               PROVE  co[t] # "dead" /\ co'[t] = "dead"
    BY <1>1
  <2>1. Alone  BY <1>1 DEF Placed
  <2>2. Dies
    <3>1. CASE HookCall
      <4>1. Actor \in Hooks /\ HookReturns(FALSE, waiting)
        BY <3>1 DEF HookCall, HookDone, BlockInHook, May, Careful
      <4> QED  BY <1>1, <4>1, HookReturnsFlat DEF Dies
    <3> QED
      BY <1>1, <2>1, <3>1, TaskCallDies, AnyCallDies, ParseStepFlat, LoopStepDies
      DEF Next, Dies
  <2>3. stack \in Seq(Frames) /\ stack' \in Seq(Frames)  BY <1>1, SoundTypes, CallsSeq DEF Sound
  <2>4. Len(stack) \in Nat /\ Len(stack') \in Nat  BY <2>3, LenProperties
  <2>5. stack' # <<>> /\ Head(stack').em = t /\ Head(stack').ev = Die
    BY DEF DieStarts
  <2>6. ~Flat(stack)
    <3> SUFFICES ASSUME Flat(stack) PROVE FALSE  OBVIOUS
    <3>1. Len(stack') = Len(stack) /\ Head(stack).key = "resume"
      BY <2>4 DEF Flat, DieStarts
    <3>2. stack # <<>>  BY <2>3, <2>5, <3>1, EmptySeq
    <3>3. OnTop(stack, Head(stack), Tail(stack))  BY <2>3, <3>2, TopOk
    <3> QED  BY <2>1, <3>1, <3>3 DEF OnTop, Alone
  <2> QED  BY <2>2, <2>5, <2>6 DEF Dies
<1> QED  BY <1>1, PlacedInvariant, SoundInvariant, PTL DEF Spec, DieAtDeath
=============================================================================
